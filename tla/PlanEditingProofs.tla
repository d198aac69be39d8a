--------------------------- MODULE PlanEditingProofs ---------------------------
(* What holds of PlanEditing for any pages, openings, edits and revisions. *)
EXTENDS PlanEditing, SequenceTheorems, WellFoundedInduction, TLAPS

-----------------------------------------------------------------------------
(* Recursive functions *)

\* Induction on the naturals, from their well-founded order.
LEMMA NatSetInduction ==
  ASSUME NEW S \in SUBSET Nat, 0 \in S, \A n \in S : n + 1 \in S
  PROVE  S = Nat
<1>. DEFINE T == Nat \ S
            R == {p \in Nat \X Nat : p[1] < p[2]}
<1>1. SUFFICES ASSUME T # {} PROVE FALSE
  OBVIOUS
<1>2. IsWellFoundedOn(R, Nat)
  BY NatLessThanWellFounded DEF OpToRel
<1>3. \E z \in T : \A y \in T : ~ (<<y, z>> \in R)
  <2>1. T \subseteq Nat
    OBVIOUS
  <2>. HIDE DEF T, R
  <2>. QED BY <1>1, <1>2, <2>1, WFMin
<1>4. PICK x \in T : \A y \in T : ~ (y < x)
  BY <1>3
<1>5. x # 0 /\ x - 1 \in Nat
  OBVIOUS
<1>6. x - 1 \in S
  BY <1>4, <1>5
<1>. QED
  BY <1>5, <1>6

\* A value and a step for every index define a function by recursion.
Iterates(f, a, step, n) ==
  f = [i \in 0..n |-> IF i = 0 THEN a ELSE step[<<f[i-1], i>>]]

\* ... which exists and takes its values where the step does.
LEMMA IteratesExist ==
  ASSUME NEW S, NEW a \in S, NEW N \in Nat, NEW step \in [S \X (1..N) -> S]
  PROVE  \E f \in [0..N -> S] : Iterates(f, a, step, N)
<1>. DEFINE Good == {n \in Nat : n <= N => \E f \in [0..n -> S] : Iterates(f, a, step, n)}
<1>1. 0 \in Good
  <2>. DEFINE f == [i \in 0..0 |-> a]
  <2>1. f \in [0..0 -> S]
    OBVIOUS
  <2>2. f = [i \in 0..0 |-> IF i = 0 THEN a ELSE step[<<f[i-1], i>>]]
    OBVIOUS
  <2>3. \E g \in [0..0 -> S] : Iterates(g, a, step, 0)
    <3>. HIDE DEF f
    <3>. QED BY <2>1, <2>2 DEF Iterates
  <2>. QED BY <2>3
<1>2. ASSUME NEW n \in Nat, n \in Good, n + 1 <= N
      PROVE  \E g \in [0..(n+1) -> S] : Iterates(g, a, step, n + 1)
  <2>1. PICK f \in [0..n -> S] : Iterates(f, a, step, n)
    BY <1>2
  <2>. HIDE DEF Good
  <2>. DEFINE last == step[<<f[n], n + 1>>]
              g == [i \in 0..(n+1) |-> IF i = n + 1 THEN last ELSE f[i]]
  <2>2. last \in S
    <3>1. f[n] \in S /\ n + 1 \in 1..N
      BY <1>2
    <3>2. <<f[n], n + 1>> \in S \X (1..N)
      BY <3>1
    <3>. QED BY <3>2
  <2>. HIDE DEF last
  <2>3. g \in [0..(n+1) -> S]
    BY <2>2
  <2>4. ASSUME NEW i \in 0..(n+1)
        PROVE  g[i] = IF i = 0 THEN a ELSE step[<<g[i-1], i>>]
    <3>1. CASE i = 0
      <4>1. g[i] = f[i]
        BY <3>1
      <4>2. f[i] = a
        BY <2>1, <3>1 DEF Iterates
      <4>. QED BY <3>1, <4>1, <4>2
    <3>2. CASE i = n + 1
      <4>1. g[i] = last /\ g[n] = f[n] /\ i - 1 = n
        BY <3>2
      <4>. HIDE DEF g
      <4>. QED BY <3>2, <4>1 DEF last
    <3>3. CASE i \in 1..n
      <4>1. f[i] = step[<<f[i-1], i>>]
        BY <2>1, <3>3 DEF Iterates
      <4>2. g[i] = f[i] /\ g[i-1] = f[i-1]
        BY <3>3
      <4>. HIDE DEF g
      <4>. QED BY <3>3, <4>1, <4>2
    <3>. QED BY <3>1, <3>2, <3>3
  <2>5. g = [i \in 0..(n+1) |-> IF i = 0 THEN a ELSE step[<<g[i-1], i>>]]
    BY <2>4
  <2>. HIDE DEF g
  <2>. QED BY <2>3, <2>5 DEF Iterates
<1>3. Good = Nat
  <2>1. Good \in SUBSET Nat /\ \A n \in Good : n + 1 \in Good
    BY <1>2
  <2>. HIDE DEF Good
  <2>. QED BY <1>1, <2>1, NatSetInduction
<1>. QED BY <1>3

\* Whatever satisfies the recursion takes its values there.
LEMMA IteratesTyped ==
  ASSUME NEW S, NEW a \in S, NEW N \in Nat, NEW step \in [S \X (1..N) -> S],
         NEW f, f[0] = a,
         \A i \in 1..N : f[i-1] \in S => f[i] = step[<<f[i-1], i>>]
  PROVE  \A i \in 0..N : f[i] \in S
<1>. DEFINE Good == {n \in Nat : n <= N => f[n] \in S}
<1>1. 0 \in Good
  OBVIOUS
<1>2. ASSUME NEW n \in Nat, n \in Good, n + 1 <= N PROVE f[n+1] \in S
  <2>1. n + 1 \in 1..N /\ (n + 1) - 1 = n /\ f[n] \in S
    BY <1>2
  <2>2. f[n+1] = step[<<f[n], n + 1>>]
    BY <2>1
  <2>3. <<f[n], n + 1>> \in S \X (1..N)
    BY <2>1
  <2>. QED BY <2>2, <2>3
<1>3. Good = Nat
  <2>1. \A n \in Good : n + 1 <= N => f[n+1] \in S
    BY <1>2
  <2>2. ASSUME NEW n \in Good PROVE n + 1 \in Good
    <3>1. n \in Nat /\ n + 1 \in Nat
      OBVIOUS
    <3>. QED BY <2>1, <3>1
  <2>3. Good \in SUBSET Nat
    OBVIOUS
  <2>. HIDE DEF Good
  <2>. QED BY <1>1, <2>2, <2>3, NatSetInduction
<1>. QED BY <1>3

\* The openings of a page or of a revision, typed and each with an id of its own.
Distinct(rows) ==
  \A i, j \in DOMAIN rows : rows[i].id = rows[j].id => i = j

\* Keep, as an iteration.
KeepStep(rows, id) ==
  [x \in Seq(Opening) \X (1..Len(rows)) |->
     IF rows[x[2]].id = id THEN x[1] ELSE Append(x[1], rows[x[2]])]

LEMMA KeepSteps ==
  ASSUME NEW rows \in Seq(Opening), NEW id
  PROVE  /\ Keep(rows, id) \in [0..Len(rows) -> Seq(Opening)]
         /\ Keep(rows, id)[0] = <<>>
         /\ \A i \in 1..Len(rows) : Keep(rows, id)[i] =
              IF rows[i].id = id THEN Keep(rows, id)[i-1]
                                 ELSE Append(Keep(rows, id)[i-1], rows[i])
<1>. DEFINE S == Seq(Opening)
            step == KeepStep(rows, id)
            Is(k) == k = [i \in 0..Len(rows) |->
                            IF i = 0 THEN <<>>
                            ELSE IF rows[i].id = id THEN k[i-1] ELSE Append(k[i-1], rows[i])]
<1>1. Len(rows) \in Nat /\ \A i \in 1..Len(rows) : rows[i] \in Opening
  BY LenProperties
<1>2. <<>> \in S
  BY EmptySeq
<1>3. step \in [S \X (1..Len(rows)) -> S]
  BY <1>1, AppendProperties DEF KeepStep
<1>4. PICK f \in [0..Len(rows) -> S] : Iterates(f, <<>>, step, Len(rows))
  <2>. HIDE DEF S, step
  <2>. QED BY <1>1, <1>2, <1>3, IteratesExist
<1>5. f[0] = <<>>
  BY <1>1, <1>4 DEF Iterates
<1>6. ASSUME NEW i \in 1..Len(rows)
      PROVE  f[i] = IF rows[i].id = id THEN f[i-1] ELSE Append(f[i-1], rows[i])
  <2>1. f[i] = step[<<f[i-1], i>>]
    BY <1>1, <1>4 DEF Iterates
  <2>2. i - 1 \in 0..Len(rows)
    BY <1>1
  <2>3. <<f[i-1], i>> \in S \X (1..Len(rows))
    BY <2>2
  <2>. QED BY <2>1, <2>3 DEF KeepStep
<1>7. Is(f)
  <2>1. f = [i \in 0..Len(rows) |-> f[i]]
    BY <1>4
  <2>2. \A i \in 0..Len(rows) : i = 0 \/ i \in 1..Len(rows)
    BY <1>1
  <2>. QED BY <1>5, <1>6, <2>1, <2>2
<1>8. Is(Keep(rows, id))
  <2>1. Keep(rows, id) = CHOOSE k : Is(k)
    BY DEF Keep
  <2>. HIDE DEF Is
  <2>. QED BY <1>7, <2>1
<1>9. /\ Keep(rows, id)[0] = <<>>
      /\ \A i \in 1..Len(rows) : Keep(rows, id)[i] =
           IF rows[i].id = id THEN Keep(rows, id)[i-1]
                              ELSE Append(Keep(rows, id)[i-1], rows[i])
  <2>. DEFINE g == Keep(rows, id)
  <2>1. Is(g)
    BY <1>8
  <2>. HIDE DEF g
  <2>2. \A i \in 0..Len(rows) : g[i] =
          IF i = 0 THEN <<>>
          ELSE IF rows[i].id = id THEN g[i-1] ELSE Append(g[i-1], rows[i])
    BY <2>1
  <2>3. 0 \in 0..Len(rows) /\ \A i \in 1..Len(rows) : i \in 0..Len(rows) /\ i # 0
    BY <1>1
  <2>4. g[0] = <<>>
    BY <2>2, <2>3
  <2>5. ASSUME NEW i \in 1..Len(rows)
        PROVE  g[i] = IF rows[i].id = id THEN g[i-1] ELSE Append(g[i-1], rows[i])
    BY <2>2, <2>3
  <2>. QED BY <2>4, <2>5 DEF g
<1>10. Keep(rows, id) = [i \in 0..Len(rows) |-> Keep(rows, id)[i]]
  <2>. DEFINE g == Keep(rows, id)
  <2>1. Is(g)
    BY <1>8
  <2>. HIDE DEF g
  <2>2. g = [i \in 0..Len(rows) |-> g[i]]
    BY <2>1
  <2>. QED BY <2>2 DEF g
<1>11. ASSUME NEW i \in 1..Len(rows), Keep(rows, id)[i-1] \in S
       PROVE  Keep(rows, id)[i] = step[<<Keep(rows, id)[i-1], i>>]
  <2>1. <<Keep(rows, id)[i-1], i>> \in S \X (1..Len(rows))
    BY <1>11
  <2>. QED BY <1>9, <2>1 DEF KeepStep
<1>12. Keep(rows, id) \in [0..Len(rows) -> S]
  <2>. DEFINE g == Keep(rows, id)
  <2>1. g = [i \in 0..Len(rows) |-> g[i]] /\ g[0] = <<>>
    BY <1>9, <1>10
  <2>2. \A i \in 1..Len(rows) : g[i-1] \in S => g[i] = step[<<g[i-1], i>>]
    BY <1>11
  <2>3. Len(rows) \in Nat
    BY <1>1
  <2>. HIDE DEF S, step, Is, g
  <2>4. \A i \in 0..Len(rows) : g[i] \in S
    BY <1>2, <1>3, <2>1, <2>2, <2>3, IteratesTyped
  <2>. QED BY <2>1, <2>4 DEF g
<1>. QED BY <1>9, <1>12

\* What is kept was there, in the same order and without the id.
LEMMA KeepRows ==
  ASSUME NEW rows \in Seq(Opening), NEW id, Distinct(rows)
  PROVE  \A n \in 0..Len(rows) :
           /\ Distinct(Keep(rows, id)[n])
           /\ \A j \in DOMAIN Keep(rows, id)[n] : \E i \in 1..n :
                rows[i] = Keep(rows, id)[n][j]
<1>. DEFINE k == Keep(rows, id)
            Was(s, n) == \A j \in DOMAIN s : \E i \in 1..n : rows[i] = s[j]
            Good == {n \in Nat : n <= Len(rows) => Distinct(k[n]) /\ Was(k[n], n)}
<1>1. Len(rows) \in Nat /\ DOMAIN rows = 1..Len(rows)
      /\ \A i \in 1..Len(rows) : rows[i] \in Opening
  BY LenProperties
<1>2. /\ k \in [0..Len(rows) -> Seq(Opening)] /\ k[0] = <<>>
      /\ \A i \in 1..Len(rows) :
           k[i] = IF rows[i].id = id THEN k[i-1] ELSE Append(k[i-1], rows[i])
  BY KeepSteps
<1>. HIDE DEF k
<1>3. 0 \in Good
  BY <1>2 DEF Distinct
<1>4. ASSUME NEW n \in Nat, n \in Good, n + 1 <= Len(rows)
      PROVE  Distinct(k[n+1]) /\ Was(k[n+1], n + 1)
  <2>1. n + 1 \in 1..Len(rows) /\ (n + 1) - 1 = n /\ n \in 0..Len(rows)
    BY <1>1, <1>4
  <2>2. k[n] \in Seq(Opening) /\ Distinct(k[n]) /\ Was(k[n], n)
    BY <1>2, <1>4, <2>1
  <2>3. CASE rows[n+1].id = id
    <3>1. k[n+1] = k[n]
      BY <1>2, <2>1, <2>3
    <3>2. Was(k[n], n + 1)
      BY <1>1, <2>2
    <3>. QED BY <2>2, <3>1, <3>2
  <2>4. CASE rows[n+1].id # id
    <3>. DEFINE s == k[n]
                t == Append(s, rows[n+1])
    <3>1. k[n+1] = t
      BY <1>2, <2>1, <2>4
    <3>2. rows[n+1] \in Opening
      BY <1>1, <2>1
    <3>3. s \in Seq(Opening)
      BY <2>2
    <3>4. Len(s) \in Nat /\ DOMAIN s = 1..Len(s) /\ DOMAIN t = 1..(Len(s) + 1)
          /\ t[Len(s)+1] = rows[n+1] /\ \A j \in 1..Len(s) : t[j] = s[j]
      <4>. HIDE DEF s
      <4>1. t \in Seq(Opening) /\ Len(t) = Len(s) + 1
            /\ t[Len(s)+1] = rows[n+1] /\ \A j \in 1..Len(s) : t[j] = s[j]
        BY <3>2, <3>3, AppendProperties
      <4>. HIDE DEF t
      <4>. QED BY <3>3, <4>1, LenProperties
    <3>5. Distinct(s) /\ Was(s, n)
      BY <2>2
    <3>. HIDE DEF s, t
    <3>6. \A j \in 1..Len(s) : s[j].id # rows[n+1].id
      <4>1. SUFFICES ASSUME NEW j \in 1..Len(s) PROVE s[j].id # rows[n+1].id
        OBVIOUS
      <4>2. PICK i \in 1..n : rows[i] = s[j]
        BY <3>4, <3>5
      <4>3. i \in DOMAIN rows /\ n + 1 \in DOMAIN rows /\ i # n + 1
        BY <1>1, <2>1
      <4>. QED BY <4>2, <4>3 DEF Distinct
    <3>7. Distinct(t)
      BY <3>4, <3>5, <3>6 DEF Distinct
    <3>8. Was(t, n + 1)
      <4>1. SUFFICES ASSUME NEW j \in 1..(Len(s) + 1)
                     PROVE  \E i \in 1..(n+1) : rows[i] = t[j]
        BY <3>4
      <4>2. CASE j = Len(s) + 1
        BY <1>4, <3>4, <4>2
      <4>3. CASE j \in 1..Len(s)
        <5>1. PICK i \in 1..n : rows[i] = s[j]
          BY <3>4, <3>5, <4>3
        <5>. QED BY <3>4, <4>3, <5>1
      <4>. QED BY <3>4, <4>2, <4>3
    <3>. QED BY <3>1, <3>7, <3>8
  <2>. QED BY <2>3, <2>4
<1>5. Good = Nat
  <2>1. \A n \in Good : n + 1 <= Len(rows) => Distinct(k[n+1]) /\ Was(k[n+1], n + 1)
    BY <1>4
  <2>2. ASSUME NEW n \in Good PROVE n + 1 \in Good
    <3>1. n \in Nat /\ n + 1 \in Nat
      OBVIOUS
    <3>. QED BY <2>1, <3>1
  <2>3. Good \in SUBSET Nat
    OBVIOUS
  <2>. HIDE DEF Good
  <2>. QED BY <1>3, <2>2, <2>3, NatSetInduction
<1>. QED BY <1>1, <1>5 DEF k

-----------------------------------------------------------------------------
(* One command *)

PageTypes == {"resize", "add", "remove", "verify"}
PageCommand == {c \in CommandType : c.type \in PageTypes}

\* The opening a command is about, after it.
Edited(o, c) ==
  CASE c.type = "resize" -> [o EXCEPT !.size = c.size]
    [] c.type = "rehost" -> [o EXCEPT !.host = c.host]
    [] c.type = "verify" -> [o EXCEPT !.size = Measured(o, c), !.verified = TRUE]

EditedRows(rows, c) ==
  [i \in DOMAIN rows |-> IF rows[i].id = c.id THEN Edited(rows[i], c) ELSE rows[i]]

\* The page shows what the API does, but for a rehosting it never sends.
LEMMA PreviewIsApplied ==
  ASSUME NEW rows, NEW c, c.type \in PageTypes, NEW id
  PROVE  Previewed(rows, c, id) = Applied(rows, c, id)
BY DEF PageTypes, Previewed, Applied

\* A command that is about an opening edits its row and no other.
LEMMA AppliedIsEdited ==
  ASSUME NEW rows, NEW c, c.type \in {"resize", "rehost", "verify"}, NEW id
  PROVE  Applied(rows, c, id) = EditedRows(rows, c)
BY DEF Applied, EditedRows, Edited, With

LEMMA EditedTyped ==
  ASSUME NEW o \in Opening, NEW c \in CommandType, c.type \in {"resize", "rehost", "verify"}
  PROVE  /\ Edited(o, c) \in Opening /\ Edited(o, c).id = o.id
         /\ Edited(o, c).verified = (o.verified \/ c.type = "verify")
BY DEF Edited, Opening, CommandType, Measured, Dimensions

LEMMA EditedRowsTyped ==
  ASSUME NEW rows \in Seq(Opening), NEW c \in CommandType,
         c.type \in {"resize", "rehost", "verify"}
  PROVE  /\ EditedRows(rows, c) \in Seq(Opening)
         /\ Len(EditedRows(rows, c)) = Len(rows)
         /\ DOMAIN EditedRows(rows, c) = DOMAIN rows
<1>1. Len(rows) \in Nat /\ DOMAIN rows = 1..Len(rows)
      /\ \A i \in 1..Len(rows) : rows[i] \in Opening
  BY LenProperties
<1>2. EditedRows(rows, c) \in [1..Len(rows) -> Opening]
  BY <1>1, EditedTyped DEF EditedRows
<1>. QED BY <1>1, <1>2

LEMMA AppliedTyped ==
  ASSUME NEW rows \in Seq(Opening), NEW c \in CommandType, NEW id \in Ids
  PROVE  Applied(rows, c, id) \in Seq(Opening)
<1>1. CASE c.type = "add"
  <2>1. AddedOpening(c, id) \in Opening
    BY DEF AddedOpening, Opening, CommandType
  <2>. QED BY <1>1, <2>1, AppendProperties DEF Applied
<1>2. CASE c.type = "remove"
  <2>1. Len(rows) \in Nat
    BY LenProperties
  <2>. QED BY <1>2, <2>1, KeepSteps DEF Applied, Keeping
<1>3. CASE c.type \in {"resize", "rehost", "verify"}
  BY <1>3, AppliedIsEdited, EditedRowsTyped
<1>. QED BY <1>1, <1>2, <1>3 DEF CommandType

\* What a command does to the rows: each is new, or one that was there.
LEMMA AppliedRows ==
  ASSUME NEW rows \in Seq(Opening), Distinct(rows), NEW c \in CommandType, NEW id \in Ids,
         \A i \in DOMAIN rows : rows[i].id # id
  PROVE  /\ Distinct(Applied(rows, c, id))
         /\ \A j \in DOMAIN Applied(rows, c, id) :
              LET o == Applied(rows, c, id)[j] IN
              \/ c.type = "add" /\ o.id = id /\ ~o.verified
              \/ \E i \in DOMAIN rows :
                   /\ rows[i].id = o.id
                   /\ o.verified => rows[i].verified \/ (c.type = "verify" /\ c.id = o.id)
<1>. DEFINE t == Applied(rows, c, id)
            Was(o) == \E i \in DOMAIN rows :
                        /\ rows[i].id = o.id
                        /\ o.verified => rows[i].verified \/ (c.type = "verify" /\ c.id = o.id)
<1>1. Len(rows) \in Nat /\ DOMAIN rows = 1..Len(rows)
      /\ \A i \in 1..Len(rows) : rows[i] \in Opening
  BY LenProperties
<1>. SUFFICES /\ Distinct(t)
              /\ \A j \in DOMAIN t : \/ c.type = "add" /\ t[j].id = id /\ ~t[j].verified
                                     \/ Was(t[j])
  OBVIOUS
<1>2. CASE c.type = "add"
  <2>. DEFINE a == AddedOpening(c, id)
  <2>1. a \in Opening /\ a.id = id /\ ~a.verified
    BY DEF AddedOpening, Opening, CommandType
  <2>. HIDE DEF a
  <2>2. t = Append(rows, a)
    BY <1>2 DEF Applied, a
  <2>. HIDE DEF t
  <2>3. t \in Seq(Opening) /\ Len(t) = Len(rows) + 1 /\ t[Len(rows)+1] = a
        /\ \A j \in 1..Len(rows) : t[j] = rows[j]
    BY <2>1, <2>2, AppendProperties
  <2>4. DOMAIN t = 1..(Len(rows) + 1)
    BY <2>3, LenProperties
  <2>5. Distinct(t)
    BY <1>1, <2>1, <2>3, <2>4 DEF Distinct
  <2>6. ASSUME NEW j \in DOMAIN t
        PROVE  \/ t[j].id = id /\ ~t[j].verified
               \/ \E i \in DOMAIN rows : rows[i] = t[j]
    BY <1>1, <2>1, <2>3, <2>4
  <2>. QED BY <1>2, <2>5, <2>6
<1>3. CASE c.type = "remove"
  <2>1. t = Keep(rows, c.id)[Len(rows)]
    BY <1>3 DEF Applied, Keeping
  <2>2. Len(rows) \in 0..Len(rows)
    BY <1>1
  <2>. HIDE DEF t
  <2>3. Distinct(t) /\ \A j \in DOMAIN t : \E i \in 1..Len(rows) : rows[i] = t[j]
    BY <2>1, <2>2, KeepRows
  <2>. QED BY <1>1, <2>3
<1>4. CASE c.type \in {"resize", "rehost", "verify"}
  <2>1. t = EditedRows(rows, c)
    BY <1>4, AppliedIsEdited
  <2>. HIDE DEF t
  <2>2. DOMAIN t = DOMAIN rows
    BY <2>1 DEF EditedRows
  <2>3. \A j \in DOMAIN t : /\ t[j].id = rows[j].id
                            /\ t[j].verified =>
                                 rows[j].verified \/ (c.type = "verify" /\ c.id = t[j].id)
    <3>1. SUFFICES ASSUME NEW j \in DOMAIN rows
                   PROVE  /\ t[j].id = rows[j].id
                          /\ t[j].verified =>
                               rows[j].verified \/ (c.type = "verify" /\ c.id = t[j].id)
      BY <2>2
    <3>2. t[j] = IF rows[j].id = c.id THEN Edited(rows[j], c) ELSE rows[j]
      BY <2>1 DEF EditedRows
    <3>3. rows[j] \in Opening
      BY <1>1
    <3>4. /\ Edited(rows[j], c).id = rows[j].id
          /\ Edited(rows[j], c).verified = (rows[j].verified \/ c.type = "verify")
      BY <1>4, <3>3, EditedTyped
    <3>. QED BY <3>2, <3>4
  <2>4. Distinct(t)
    BY <2>2, <2>3 DEF Distinct
  <2>. QED BY <2>2, <2>3, <2>4
<1>. QED BY <1>2, <1>3, <1>4 DEF CommandType

\* A page moves no opening to another wall.
HostsOf(rows, base) ==
  \A i \in DOMAIN rows :
    \/ Temporary(rows[i])
    \/ \E j \in DOMAIN base : base[j].id = rows[i].id /\ base[j].host = rows[i].host

LEMMA PreviewHosts ==
  ASSUME NEW rows \in Seq(Opening), Distinct(rows), NEW c \in PageCommand, NEW id \in Ids,
         id[1] = 0, NEW base, HostsOf(rows, base)
  PROVE  HostsOf(Previewed(rows, c, id), base)
<1>. DEFINE t == Previewed(rows, c, id)
            Was(o) == \E i \in DOMAIN rows : rows[i].id = o.id /\ rows[i].host = o.host
<1>1. Len(rows) \in Nat /\ DOMAIN rows = 1..Len(rows)
      /\ \A i \in 1..Len(rows) : rows[i] \in Opening
  BY LenProperties
<1>2. c \in CommandType /\ c.type \in PageTypes
  BY DEF PageCommand
<1>3. SUFFICES \A j \in DOMAIN t : Temporary(t[j]) \/ Was(t[j])
  <2>. HIDE DEF t
  <2>1. ASSUME NEW j \in DOMAIN t, NEW i \in DOMAIN rows, rows[i].id = t[j].id,
               rows[i].host = t[j].host
        PROVE  \/ Temporary(t[j])
               \/ \E k \in DOMAIN base : base[k].id = t[j].id /\ base[k].host = t[j].host
    BY <2>1 DEF HostsOf, Temporary
  <2>2. HostsOf(t, base)
    BY <2>1 DEF HostsOf
  <2>. QED BY <2>2 DEF t
<1>4. CASE c.type = "add"
  <2>. DEFINE a == AddedOpening(c, id)
  <2>1. a \in Opening /\ Temporary(a)
    BY <1>2 DEF AddedOpening, Opening, CommandType, Temporary
  <2>. HIDE DEF a
  <2>2. t = Append(rows, a)
    BY <1>4 DEF Previewed, a
  <2>. HIDE DEF t
  <2>3. t \in Seq(Opening) /\ Len(t) = Len(rows) + 1 /\ t[Len(rows)+1] = a
        /\ \A j \in 1..Len(rows) : t[j] = rows[j]
    BY <2>1, <2>2, AppendProperties
  <2>4. DOMAIN t = 1..(Len(rows) + 1)
    BY <2>3, LenProperties
  <2>. QED BY <1>1, <2>1, <2>3, <2>4
<1>5. CASE c.type = "remove"
  <2>1. t = Keep(rows, c.id)[Len(rows)] /\ Len(rows) \in 0..Len(rows)
    BY <1>1, <1>5 DEF Previewed, Keeping
  <2>. HIDE DEF t
  <2>2. \A j \in DOMAIN t : \E i \in 1..Len(rows) : rows[i] = t[j]
    BY <2>1, KeepRows
  <2>. QED BY <1>1, <2>2
<1>6. CASE c.type \in {"resize", "verify"}
  <2>1. t = EditedRows(rows, c)
    BY <1>2, <1>6, PreviewIsApplied, AppliedIsEdited
  <2>. HIDE DEF t
  <2>2. DOMAIN t = DOMAIN rows
        /\ \A j \in DOMAIN rows :
             t[j] = IF rows[j].id = c.id THEN Edited(rows[j], c) ELSE rows[j]
    BY <2>1 DEF EditedRows
  <2>3. \A j \in DOMAIN rows :
          Edited(rows[j], c).id = rows[j].id /\ Edited(rows[j], c).host = rows[j].host
    BY <1>1, <1>6 DEF Edited, Opening
  <2>. QED BY <2>2, <2>3
<1>. QED BY <1>2, <1>4, <1>5, <1>6 DEF PageTypes

-----------------------------------------------------------------------------
(* The reducer *)

MeasurementsOf(n) == [id : Ids, size : Sizes \cup {"other"}, revision : {n}]
Reduction(n) == [ok : BOOLEAN, openings : Seq(Opening), measured : SUBSET MeasurementsOf(n)]

\* What k commands have made of a payload on the way to revision n, when M has
\* been measured before.
ReductionInv(acc, n, k, M) ==
  acc.ok =>
    /\ Distinct(acc.openings)
    /\ \A i \in DOMAIN acc.openings :
         /\ acc.openings[i].id[1] \in 1..n
         /\ acc.openings[i].id[1] = n => acc.openings[i].id[2] <= k
         /\ acc.openings[i].verified => \E m \in M \cup acc.measured :
              m.id = acc.openings[i].id /\ m.revision <= n

\* The reducer's accumulator keeps its shape.
LEMMA ReducedByTyped ==
  ASSUME NEW n \in Nat, NEW acc \in Reduction(n), NEW c \in CommandType, NEW i \in Nat \ {0}
  PROVE  /\ ReducedBy(acc, c, n, i) \in Reduction(n)
         /\ ReducedBy(acc, c, n, i).ok = (acc.ok /\ Acceptable(acc.openings, c))
<1>1. CASE ~acc.ok \/ ~Acceptable(acc.openings, c)
  BY <1>1, EmptySeq DEF ReducedBy, Failed, Reduction
<1>2. CASE acc.ok /\ Acceptable(acc.openings, c)
  <2>1. <<n, i>> \in Ids /\ acc.openings \in Seq(Opening)
    BY DEF Ids, Reduction
  <2>2. Applied(acc.openings, c, <<n, i>>) \in Seq(Opening)
    BY <2>1, AppliedTyped
  <2>3. { [id |-> c.id, size |-> v, revision |-> n] : v \in Verified(c) }
          \subseteq MeasurementsOf(n)
    <3>1. c.type = "verify" => c.id \in Ids
      <4>1. \A j \in DOMAIN acc.openings : acc.openings[j] \in Opening
        BY <2>1, LenProperties
      <4>. QED BY <1>2, <4>1 DEF Acceptable, Found, Opening
    <3>2. Verified(c) \subseteq Sizes \cup {"other"} /\ (c.type # "verify" => Verified(c) = {})
      BY DEF Verified, CommandType, Dimensions
    <3>. QED BY <3>1, <3>2 DEF MeasurementsOf
  <2>. QED BY <1>2, <2>2, <2>3 DEF ReducedBy, Reduction
<1>. QED BY <1>1, <1>2

\* One more command keeps the reducer's invariant.
LEMMA ReducedByStep ==
  ASSUME NEW n \in Nat \ {0}, NEW acc \in Reduction(n), NEW c \in CommandType, NEW k \in Nat,
         NEW M, ReductionInv(acc, n, k, M)
  PROVE  ReductionInv(ReducedBy(acc, c, n, k + 1), n, k + 1, M)
<1>. DEFINE next == ReducedBy(acc, c, n, k + 1)
            id == <<n, k + 1>>
            rows == acc.openings
            t == Applied(rows, c, id)
            added == { [id |-> c.id, size |-> v, revision |-> n] : v \in Verified(c) }
<1>1. SUFFICES ASSUME acc.ok, Acceptable(rows, c) PROVE ReductionInv(next, n, k + 1, M)
  <2>0. k + 1 \in Nat \ {0}
    OBVIOUS
  <2>1. ~(acc.ok /\ Acceptable(rows, c)) => ~next.ok
    BY <2>0, ReducedByTyped
  <2>. HIDE DEF next
  <2>. QED BY <2>1 DEF ReductionInv, next
<1>2. next.openings = t /\ next.measured = acc.measured \cup added
  BY <1>1 DEF ReducedBy
<1>3. rows \in Seq(Opening) /\ id \in Ids /\ id[1] = n /\ id[2] = k + 1
  BY DEF Reduction, Ids
<1>. HIDE DEF next, id, t
<1>4. DOMAIN rows = 1..Len(rows) /\ Len(rows) \in Nat /\ \A i \in DOMAIN rows : rows[i] \in Opening
  BY <1>3, LenProperties
<1>5. /\ Distinct(rows)
      /\ \A i \in DOMAIN rows :
           /\ rows[i].id[1] \in 1..n
           /\ rows[i].id[1] = n => rows[i].id[2] <= k
           /\ rows[i].verified => \E m \in M \cup acc.measured :
                m.id = rows[i].id /\ m.revision <= n
  BY <1>1 DEF ReductionInv
<1>6. \A i \in DOMAIN rows : rows[i].id # id
  BY <1>3, <1>5
<1>7. /\ Distinct(t)
      /\ \A j \in DOMAIN t :
           \/ c.type = "add" /\ t[j].id = id /\ ~t[j].verified
           \/ \E i \in DOMAIN rows :
                /\ rows[i].id = t[j].id
                /\ t[j].verified => rows[i].verified \/ (c.type = "verify" /\ c.id = t[j].id)
  BY <1>3, <1>5, <1>6, AppliedRows DEF t
<1>8. c.type = "verify" => \E m \in added : m.id = c.id /\ m.revision <= n
  <2>1. SUFFICES ASSUME c.type = "verify" PROVE \E m \in added : m.id = c.id /\ m.revision <= n
    OBVIOUS
  <2>2. PICK v : v \in Verified(c)
    BY <1>1, <2>1 DEF Acceptable, Verified
  <2>3. [id |-> c.id, size |-> v, revision |-> n] \in added
    BY <2>2
  <2>4. n <= n
    OBVIOUS
  <2>. QED BY <2>3, <2>4
<1>. HIDE DEF rows, added
<1>9. ASSUME NEW j \in DOMAIN t
      PROVE  /\ t[j].id[1] \in 1..n
             /\ t[j].id[1] = n => t[j].id[2] <= k + 1
             /\ t[j].verified => \E m \in M \cup (acc.measured \cup added) :
                  m.id = t[j].id /\ m.revision <= n
  <2>1. CASE t[j].id = id /\ ~t[j].verified
    BY <1>3, <2>1
  <2>2. ASSUME NEW i \in DOMAIN rows, rows[i].id = t[j].id,
               t[j].verified => rows[i].verified \/ (c.type = "verify" /\ c.id = t[j].id)
        PROVE  /\ t[j].id[1] \in 1..n
               /\ t[j].id[1] = n => t[j].id[2] <= k + 1
               /\ t[j].verified => \E m \in M \cup (acc.measured \cup added) :
                    m.id = t[j].id /\ m.revision <= n
    <3>1. rows[i].id[2] \in Nat
      BY <1>4 DEF Opening, Ids
    <3>2. t[j].id[1] \in 1..n /\ (t[j].id[1] = n => t[j].id[2] <= k + 1)
      BY <1>5, <2>2, <3>1
    <3>3. t[j].verified => \E m \in M \cup (acc.measured \cup added) :
            m.id = t[j].id /\ m.revision <= n
      BY <1>5, <1>8, <2>2
    <3>. QED BY <3>2, <3>3
  <2>. QED BY <1>7, <2>1, <2>2
<1>. QED BY <1>2, <1>7, <1>9 DEF ReductionInv

\* The reducer's recursion is defined, command by command.
LEMMA ReductionsSteps ==
  ASSUME NEW rows \in Seq(Opening), NEW commands \in Seq(CommandType), NEW n \in Nat
  PROVE  /\ Reductions(rows, commands, n) \in [0..Len(commands) -> Reduction(n)]
         /\ Reductions(rows, commands, n)[0] = Reduced(rows)
         /\ \A i \in 1..Len(commands) : Reductions(rows, commands, n)[i] =
              ReducedBy(Reductions(rows, commands, n)[i-1], commands[i], n, i)
<1>. DEFINE S == Reduction(n)
            N == Len(commands)
            r == Reductions(rows, commands, n)
            step == [x \in S \X (1..N) |-> ReducedBy(x[1], commands[x[2]], n, x[2])]
            Is(k) == k = [i \in 0..N |-> IF i = 0 THEN Reduced(rows)
                                         ELSE ReducedBy(k[i-1], commands[i], n, i)]
<1>1. N \in Nat /\ \A i \in 1..N : commands[i] \in CommandType
  BY LenProperties
<1>2. Reduced(rows) \in S
  BY DEF Reduced, Reduction
<1>3. step \in [S \X (1..N) -> S]
  <2>1. ASSUME NEW x \in S, NEW i \in 1..N PROVE ReducedBy(x, commands[i], n, i) \in S
    BY <1>1, ReducedByTyped
  <2>. QED BY <2>1
<1>4. \A x \in S, i \in 1..N : step[<<x, i>>] = ReducedBy(x, commands[i], n, i)
  OBVIOUS
<1>. HIDE DEF S, N, step
<1>5. PICK f \in [0..N -> S] : Iterates(f, Reduced(rows), step, N)
  BY <1>1, <1>2, <1>3, IteratesExist
<1>6. Is(f)
  <2>1. f = [i \in 0..N |-> IF i = 0 THEN Reduced(rows) ELSE step[<<f[i-1], i>>]]
    BY <1>5 DEF Iterates
  <2>2. \A i \in 0..N : f[i] = IF i = 0 THEN Reduced(rows)
                               ELSE ReducedBy(f[i-1], commands[i], n, i)
    <3>0. f[0] = Reduced(rows) /\ \A i \in 0..N : i = 0 \/ i \in 1..N
      BY <1>1, <2>1
    <3>1. SUFFICES ASSUME NEW i \in 1..N PROVE f[i] = ReducedBy(f[i-1], commands[i], n, i)
      BY <3>0
    <3>2. i - 1 \in 0..N /\ i \in 0..N /\ i # 0
      BY <1>1
    <3>3. f[i-1] \in S
      BY <3>2
    <3>4. f[i] = step[<<f[i-1], i>>]
      BY <2>1, <3>2
    <3>. QED BY <1>4, <3>3, <3>4
  <2>3. f = [i \in 0..N |-> f[i]]
    OBVIOUS
  <2>. QED BY <2>2, <2>3
<1>7. Is(r)
  <2>1. r = CHOOSE k : Is(k)
    BY DEF Reductions, N
  <2>. HIDE DEF r, Is
  <2>. QED BY <1>6, <2>1
<1>. HIDE DEF r
<1>8. r = [i \in 0..N |-> r[i]]
  BY <1>7
<1>9. r[0] = Reduced(rows) /\ \A i \in 1..N : r[i] = ReducedBy(r[i-1], commands[i], n, i)
  <2>1. \A i \in 0..N : r[i] = IF i = 0 THEN Reduced(rows)
                               ELSE ReducedBy(r[i-1], commands[i], n, i)
    BY <1>7
  <2>. QED BY <1>1, <2>1
<1>10. \A i \in 0..N : r[i] \in S
  <2>1. \A i \in 1..N : r[i-1] \in S => r[i] = step[<<r[i-1], i>>]
    BY <1>4, <1>9
  <2>. QED BY <1>1, <1>2, <1>3, <1>9, <2>1, IteratesTyped
<1>11. r \in [0..N -> S]
  BY <1>8, <1>10
<1>. QED BY <1>9, <1>11 DEF r, N, S

\* What the reducer makes of the current revision is a revision.
LEMMA ReductionsHold ==
  ASSUME NEW rows \in Seq(Opening), NEW commands \in Seq(CommandType), NEW n \in Nat \ {0},
         NEW M, ReductionInv(Reduced(rows), n, 0, M)
  PROVE  \A k \in 0..Len(commands) : ReductionInv(Reductions(rows, commands, n)[k], n, k, M)
<1>. DEFINE r == Reductions(rows, commands, n)
            N == Len(commands)
            Good == {k \in Nat : k <= N => ReductionInv(r[k], n, k, M)}
<1>1. N \in Nat /\ \A i \in 1..N : commands[i] \in CommandType
  BY LenProperties
<1>2. /\ r \in [0..N -> Reduction(n)] /\ r[0] = Reduced(rows)
      /\ \A i \in 1..N : r[i] = ReducedBy(r[i-1], commands[i], n, i)
  BY ReductionsSteps
<1>. HIDE DEF r, N
<1>3. 0 \in Good
  BY <1>2
<1>4. ASSUME NEW k \in Nat, k \in Good, k + 1 <= N PROVE ReductionInv(r[k+1], n, k + 1, M)
  <2>1. k + 1 \in 1..N /\ (k + 1) - 1 = k /\ k \in 0..N
    BY <1>1, <1>4
  <2>2. r[k+1] = ReducedBy(r[k], commands[k+1], n, k + 1)
    BY <1>2, <2>1
  <2>3. r[k] \in Reduction(n) /\ commands[k+1] \in CommandType /\ ReductionInv(r[k], n, k, M)
    BY <1>1, <1>2, <1>4, <2>1
  <2>. QED BY <2>2, <2>3, ReducedByStep
<1>5. Good = Nat
  <2>1. \A k \in Good : k + 1 <= N => ReductionInv(r[k+1], n, k + 1, M)
    BY <1>4
  <2>2. ASSUME NEW k \in Good PROVE k + 1 \in Good
    <3>1. k \in Nat /\ k + 1 \in Nat
      OBVIOUS
    <3>. QED BY <2>1, <3>1
  <2>3. Good \in SUBSET Nat
    OBVIOUS
  <2>. HIDE DEF Good
  <2>. QED BY <1>3, <2>2, <2>3, NatSetInduction
<1>. QED BY <1>1, <1>5 DEF r, N

-----------------------------------------------------------------------------
(* The preview *)

\* The page's recursion is defined, command by command.
LEMMA DraftsSteps ==
  ASSUME NEW rows \in Seq(Opening), NEW commands \in Seq(PageCommand)
  PROVE  /\ Drafts(rows, commands) \in [0..Len(commands) -> Seq(Opening)]
         /\ Drafts(rows, commands)[0] = rows
         /\ \A i \in 1..Len(commands) : Drafts(rows, commands)[i] =
              Previewed(Drafts(rows, commands)[i-1], commands[i], <<0, i>>)
<1>. DEFINE S == Seq(Opening)
            N == Len(commands)
            d == Drafts(rows, commands)
            step == [x \in S \X (1..N) |-> Previewed(x[1], commands[x[2]], <<0, x[2]>>)]
            Is(k) == k = [i \in 0..N |-> IF i = 0 THEN rows
                                         ELSE Previewed(k[i-1], commands[i], <<0, i>>)]
<1>1. N \in Nat /\ \A i \in 1..N : commands[i] \in PageCommand
  BY LenProperties
<1>2. rows \in S
  OBVIOUS
<1>3. step \in [S \X (1..N) -> S]
  <2>1. ASSUME NEW x \in S, NEW i \in 1..N PROVE Previewed(x, commands[i], <<0, i>>) \in S
    <3>1. <<0, i>> \in Ids /\ commands[i] \in CommandType /\ commands[i].type \in PageTypes
      BY <1>1 DEF Ids, PageCommand
    <3>. QED BY <3>1, PreviewIsApplied, AppliedTyped
  <2>. QED BY <2>1
<1>4. \A x \in S, i \in 1..N : step[<<x, i>>] = Previewed(x, commands[i], <<0, i>>)
  OBVIOUS
<1>. HIDE DEF S, N, step
<1>5. PICK f \in [0..N -> S] : Iterates(f, rows, step, N)
  BY <1>1, <1>2, <1>3, IteratesExist
<1>6. Is(f)
  <2>1. f = [i \in 0..N |-> IF i = 0 THEN rows ELSE step[<<f[i-1], i>>]]
    BY <1>5 DEF Iterates
  <2>2. \A i \in 0..N : f[i] = IF i = 0 THEN rows
                               ELSE Previewed(f[i-1], commands[i], <<0, i>>)
    <3>0. f[0] = rows /\ \A i \in 0..N : i = 0 \/ i \in 1..N
      BY <1>1, <2>1
    <3>1. SUFFICES ASSUME NEW i \in 1..N PROVE f[i] = Previewed(f[i-1], commands[i], <<0, i>>)
      BY <3>0
    <3>2. i - 1 \in 0..N /\ i \in 0..N /\ i # 0
      BY <1>1
    <3>3. f[i-1] \in S
      BY <3>2
    <3>4. f[i] = step[<<f[i-1], i>>]
      BY <2>1, <3>2
    <3>. QED BY <1>4, <3>3, <3>4
  <2>3. f = [i \in 0..N |-> f[i]]
    OBVIOUS
  <2>. QED BY <2>2, <2>3
<1>7. Is(d)
  <2>1. d = CHOOSE k : Is(k)
    BY DEF Drafts, N
  <2>. HIDE DEF d, Is
  <2>. QED BY <1>6, <2>1
<1>. HIDE DEF d
<1>8. d = [i \in 0..N |-> d[i]]
  BY <1>7
<1>9. d[0] = rows /\ \A i \in 1..N : d[i] = Previewed(d[i-1], commands[i], <<0, i>>)
  <2>1. \A i \in 0..N : d[i] = IF i = 0 THEN rows
                               ELSE Previewed(d[i-1], commands[i], <<0, i>>)
    BY <1>7
  <2>2. 0 \in 0..N /\ \A i \in 1..N : i \in 0..N /\ i # 0
    BY <1>1
  <2>. QED BY <2>1, <2>2
<1>10. \A i \in 0..N : d[i] \in S
  <2>1. \A i \in 1..N : d[i-1] \in S => d[i] = step[<<d[i-1], i>>]
    BY <1>4, <1>9
  <2>. QED BY <1>1, <1>2, <1>3, <1>9, <2>1, IteratesTyped
<1>11. d \in [0..N -> S]
  BY <1>8, <1>10
<1>. QED BY <1>9, <1>11 DEF d, N, S

\* What the page shows after a command depends on the commands before it only.
LEMMA DraftsPrefix ==
  ASSUME NEW rows \in Seq(Opening), NEW cs \in Seq(PageCommand), NEW ds \in Seq(PageCommand),
         Len(cs) <= Len(ds), \A i \in 1..Len(cs) : cs[i] = ds[i]
  PROVE  \A k \in 0..Len(cs) : Drafts(rows, cs)[k] = Drafts(rows, ds)[k]
<1>. DEFINE f == Drafts(rows, cs)
            g == Drafts(rows, ds)
            Good == {k \in Nat : k <= Len(cs) => f[k] = g[k]}
<1>1. Len(cs) \in Nat /\ Len(ds) \in Nat
  BY LenProperties
<1>2. /\ f[0] = rows /\ g[0] = rows
      /\ \A i \in 1..Len(cs) : f[i] = Previewed(f[i-1], cs[i], <<0, i>>)
      /\ \A i \in 1..Len(ds) : g[i] = Previewed(g[i-1], ds[i], <<0, i>>)
  BY DraftsSteps
<1>. HIDE DEF f, g
<1>3. 0 \in Good
  BY <1>2
<1>4. ASSUME NEW k \in Nat, k \in Good, k + 1 <= Len(cs) PROVE f[k+1] = g[k+1]
  <2>1. k + 1 \in 1..Len(cs) /\ k + 1 \in 1..Len(ds) /\ (k + 1) - 1 = k /\ f[k] = g[k]
    BY <1>1, <1>4
  <2>2. f[k+1] = Previewed(f[k], cs[k+1], <<0, k + 1>>)
        /\ g[k+1] = Previewed(g[k], ds[k+1], <<0, k + 1>>)
    BY <1>2, <2>1
  <2>3. cs[k+1] = ds[k+1]
    BY <2>1
  <2>. QED BY <2>1, <2>2, <2>3
<1>5. Good = Nat
  <2>1. \A k \in Good : k + 1 <= Len(cs) => f[k+1] = g[k+1]
    BY <1>4
  <2>2. ASSUME NEW k \in Good PROVE k + 1 \in Good
    <3>1. k \in Nat /\ k + 1 \in Nat
      OBVIOUS
    <3>. QED BY <2>1, <3>1
  <2>3. Good \in SUBSET Nat
    OBVIOUS
  <2>. HIDE DEF Good
  <2>. QED BY <1>3, <2>2, <2>3, NatSetInduction
<1>. QED BY <1>1, <1>5 DEF f, g

\* What revision n makes of an opening that the page shows.
SavedOpening(o, n) == IF Temporary(o) THEN [o EXCEPT !.id = <<n, o.id[2]>>] ELSE o
SavedRows(rows, n) == [i \in DOMAIN rows |-> SavedOpening(rows[i], n)]

LEMMA SavedOpeningTyped ==
  ASSUME NEW o \in Opening, NEW n \in Nat
  PROVE  /\ SavedOpening(o, n) \in Opening
         /\ SavedOpening(o, n).size = o.size /\ SavedOpening(o, n).verified = o.verified
         /\ SavedOpening(o, n).id = IF Temporary(o) THEN <<n, o.id[2]>> ELSE o.id
<1>1. o.id[2] \in Nat \ {0}
  BY DEF Opening, Ids
<1>2. <<n, o.id[2]>> \in Ids
  BY <1>1 DEF Ids
<1>. QED BY <1>2 DEF SavedOpening, Opening

LEMMA SavedRowsTyped ==
  ASSUME NEW rows \in Seq(Opening), NEW n \in Nat
  PROVE  /\ SavedRows(rows, n) \in Seq(Opening) /\ Len(SavedRows(rows, n)) = Len(rows)
         /\ DOMAIN SavedRows(rows, n) = DOMAIN rows
         /\ \A i \in DOMAIN rows : SavedRows(rows, n)[i] = SavedOpening(rows[i], n)
<1>1. Len(rows) \in Nat /\ DOMAIN rows = 1..Len(rows)
      /\ \A i \in 1..Len(rows) : rows[i] \in Opening
  BY LenProperties
<1>2. SavedRows(rows, n) \in [1..Len(rows) -> Opening]
  BY <1>1, SavedOpeningTyped DEF SavedRows
<1>. QED BY <1>1, <1>2 DEF SavedRows

\* The id of a saved opening stays that of the same row.
LEMMA SavedFinds ==
  ASSUME NEW o \in Opening, NEW n \in Nat, NEW id \in Ids, id[1] # 0, id[1] < n
  PROVE  SavedOpening(o, n).id = id <=> o.id = id
<1>1. o.id \in Ids
  BY DEF Opening
<1>2. CASE Temporary(o)
  <2>1. SavedOpening(o, n).id = <<n, o.id[2]>>
    BY <1>2, SavedOpeningTyped
  <2>2. SavedOpening(o, n).id[1] = n /\ o.id[1] = 0 /\ id[1] # n
    BY <1>2, <2>1 DEF Temporary, Ids
  <2>. QED BY <2>2
<1>3. CASE ~Temporary(o)
  BY <1>3 DEF SavedOpening
<1>. QED BY <1>2, <1>3

LEMMA SavedAppend ==
  ASSUME NEW rows \in Seq(Opening), NEW o \in Opening, NEW n \in Nat
  PROVE  SavedRows(Append(rows, o), n) = Append(SavedRows(rows, n), SavedOpening(o, n))
<1>. DEFINE s == SavedRows(rows, n)
            p == SavedOpening(o, n)
            t == Append(rows, o)
            u == Append(s, p)
<1>1. Len(rows) \in Nat /\ DOMAIN rows = 1..Len(rows)
  BY LenProperties
<1>2. s \in Seq(Opening) /\ p \in Opening /\ Len(s) = Len(rows)
      /\ \A i \in DOMAIN rows : s[i] = SavedOpening(rows[i], n)
  BY SavedRowsTyped, SavedOpeningTyped
<1>. HIDE DEF s
<1>3. t \in Seq(Opening) /\ Len(t) = Len(rows) + 1 /\ t[Len(rows)+1] = o
      /\ \A i \in 1..Len(rows) : t[i] = rows[i]
  BY AppendProperties
<1>. HIDE DEF p
<1>4. u \in Seq(Opening) /\ Len(u) = Len(rows) + 1 /\ u[Len(rows)+1] = p
      /\ \A i \in 1..Len(rows) : u[i] = s[i]
  BY <1>2, AppendProperties
<1>. HIDE DEF t, u
<1>5. SavedRows(t, n) \in Seq(Opening) /\ Len(SavedRows(t, n)) = Len(t)
      /\ \A i \in DOMAIN t : SavedRows(t, n)[i] = SavedOpening(t[i], n)
  BY <1>3, SavedRowsTyped
<1>6. DOMAIN t = 1..(Len(rows) + 1)
  BY <1>3, LenProperties
<1>7. ASSUME NEW i \in 1..(Len(rows) + 1) PROVE SavedRows(t, n)[i] = u[i]
  <2>1. CASE i = Len(rows) + 1
    BY <1>3, <1>4, <1>5, <1>6, <2>1 DEF p
  <2>2. CASE i \in 1..Len(rows)
    BY <1>1, <1>2, <1>3, <1>4, <1>5, <1>6, <2>2
  <2>. QED BY <1>1, <2>1, <2>2
<1>8. SavedRows(t, n) = u
  BY <1>3, <1>4, <1>5, <1>7, SeqEqual
<1>. QED BY <1>8 DEF t, u, s, p

LEMMA SavedEdited ==
  ASSUME NEW rows \in Seq(Opening), NEW n \in Nat, NEW c \in CommandType,
         c.type \in {"resize", "rehost", "verify"}, c.id \in Ids, c.id[1] # 0, c.id[1] < n
  PROVE  EditedRows(SavedRows(rows, n), c) = SavedRows(EditedRows(rows, c), n)
<1>1. \A i \in DOMAIN rows : rows[i] \in Opening
  BY LenProperties
<1>2. DOMAIN EditedRows(SavedRows(rows, n), c) = DOMAIN rows
      /\ DOMAIN SavedRows(EditedRows(rows, c), n) = DOMAIN rows
  BY DEF EditedRows, SavedRows
<1>3. ASSUME NEW i \in DOMAIN rows
      PROVE  EditedRows(SavedRows(rows, n), c)[i] = SavedRows(EditedRows(rows, c), n)[i]
  <2>. DEFINE o == rows[i]
              p == SavedOpening(o, n)
  <2>1. o \in Opening
    BY <1>1
  <2>2. p.id = c.id <=> o.id = c.id
    BY <2>1, SavedFinds
  <2>3. EditedRows(SavedRows(rows, n), c)[i] = IF p.id = c.id THEN Edited(p, c) ELSE p
    BY DEF EditedRows, SavedRows
  <2>4. SavedRows(EditedRows(rows, c), n)[i] =
          SavedOpening(IF o.id = c.id THEN Edited(o, c) ELSE o, n)
    BY DEF EditedRows, SavedRows
  <2>5. o.id = c.id => p = o /\ SavedOpening(Edited(o, c), n) = Edited(o, c)
    <3>1. SUFFICES ASSUME o.id = c.id
                   PROVE  p = o /\ SavedOpening(Edited(o, c), n) = Edited(o, c)
      OBVIOUS
    <3>2. Edited(o, c).id = o.id
      BY <2>1, EditedTyped
    <3>. QED BY <3>1, <3>2 DEF SavedOpening, Temporary
  <2>. QED BY <2>2, <2>3, <2>4, <2>5
<1>4. EditedRows(SavedRows(rows, n), c) =
        [i \in DOMAIN rows |-> EditedRows(SavedRows(rows, n), c)[i]]
  BY <1>2 DEF EditedRows
<1>5. SavedRows(EditedRows(rows, c), n) =
        [i \in DOMAIN rows |-> SavedRows(EditedRows(rows, c), n)[i]]
  BY <1>2 DEF SavedRows
<1>. QED BY <1>3, <1>4, <1>5

LEMMA SavedKeeping ==
  ASSUME NEW rows \in Seq(Opening), NEW n \in Nat, NEW id \in Ids, id[1] # 0, id[1] < n
  PROVE  Keeping(SavedRows(rows, n), id) = SavedRows(Keeping(rows, id), n)
<1>. DEFINE s == SavedRows(rows, n)
            N == Len(rows)
            k == Keep(rows, id)
            l == Keep(s, id)
            Good == {i \in Nat : i <= N => l[i] = SavedRows(k[i], n)}
<1>1. N \in Nat /\ DOMAIN rows = 1..N /\ \A i \in 1..N : rows[i] \in Opening
  BY LenProperties
<1>2. s \in Seq(Opening) /\ Len(s) = N /\ \A i \in 1..N : s[i] = SavedOpening(rows[i], n)
  BY <1>1, SavedRowsTyped
<1>3. k \in [0..N -> Seq(Opening)] /\ k[0] = <<>>
      /\ \A i \in 1..N : k[i] = IF rows[i].id = id THEN k[i-1] ELSE Append(k[i-1], rows[i])
  BY KeepSteps
<1>. HIDE DEF s
<1>4. l[0] = <<>>
      /\ \A i \in 1..N : l[i] = IF s[i].id = id THEN l[i-1] ELSE Append(l[i-1], s[i])
  BY <1>2, KeepSteps
<1>. HIDE DEF k, l, N
<1>5. 0 \in Good
  <2>1. SavedRows(<<>>, n) = <<>>
    BY DEF SavedRows
  <2>. QED BY <1>3, <1>4, <2>1
<1>6. ASSUME NEW i \in Nat, i \in Good, i + 1 <= N PROVE l[i+1] = SavedRows(k[i+1], n)
  <2>. DEFINE o == rows[i+1]
  <2>1. i + 1 \in 1..N /\ (i + 1) - 1 = i /\ i \in 0..N
    BY <1>1, <1>6
  <2>2. o \in Opening /\ k[i] \in Seq(Opening) /\ l[i] = SavedRows(k[i], n)
    BY <1>1, <1>3, <1>6, <2>1
  <2>3. l[i+1] = IF SavedOpening(o, n).id = id THEN l[i] ELSE Append(l[i], SavedOpening(o, n))
    BY <1>2, <1>4, <2>1
  <2>4. k[i+1] = IF o.id = id THEN k[i] ELSE Append(k[i], o)
    BY <1>3, <2>1
  <2>. HIDE DEF o
  <2>5. SavedOpening(o, n).id = id <=> o.id = id
    BY <2>2, SavedFinds
  <2>6. SavedRows(Append(k[i], o), n) = Append(SavedRows(k[i], n), SavedOpening(o, n))
    BY <2>2, SavedAppend
  <2>. QED BY <2>2, <2>3, <2>4, <2>5, <2>6
<1>7. Good = Nat
  <2>1. \A i \in Good : i + 1 <= N => l[i+1] = SavedRows(k[i+1], n)
    BY <1>6
  <2>2. ASSUME NEW i \in Good PROVE i + 1 \in Good
    <3>1. i \in Nat /\ i + 1 \in Nat
      OBVIOUS
    <3>. QED BY <2>1, <3>1
  <2>3. Good \in SUBSET Nat
    OBVIOUS
  <2>. HIDE DEF Good
  <2>. QED BY <1>5, <2>2, <2>3, NatSetInduction
<1>8. l[N] = SavedRows(k[N], n)
  BY <1>1, <1>7
<1>9. Keeping(s, id) = l[N] /\ Keeping(rows, id) = k[N]
  BY <1>2 DEF Keeping, k, l, N
<1>. QED BY <1>8, <1>9 DEF s

\* What the request is answered with, and the findings that come with it.
LEMMA ReduceIsLast ==
  ASSUME NEW rows, NEW commands, NEW n
  PROVE  LET last == Reductions(rows, commands, n)[Len(commands)]
             o == Reduce(rows, commands, n)
         IN /\ o.ok = last.ok /\ o.openings = last.openings /\ o.measured = last.measured
            /\ o.unattached = Unattached(last.openings)
BY DEF Reduce

-----------------------------------------------------------------------------
(* Lists that a page can hold *)

\* Every command was offered for the draft of the commands before it.
Pushed(rows, commands) ==
  \A k \in 1..Len(commands) : commands[k] \in Controls(Drafts(rows, commands)[k-1])

\* The page's rows after k commands on a revision before n.
DraftInv(rows, n, k) ==
  /\ Distinct(rows)
  /\ \A i \in DOMAIN rows : /\ rows[i].id[1] < n
                            /\ rows[i].id[1] = 0 => rows[i].id[2] <= k

\* What the page offers, whatever it shows.
LEMMA ControlTypes ==
  ASSUME NEW rows, NEW c \in Controls(rows)
  PROVE  /\ c.type \in PageTypes /\ ~c.more
         /\ c.type # "add" => \E i \in DOMAIN rows : c.id = rows[i].id /\ ~Temporary(rows[i])
<1>1. CASE c \in AddCommands
  BY <1>1 DEF AddCommands, PageTypes
<1>2. ASSUME NEW i \in DOMAIN rows, c \in RowCommands(rows[i])
      PROVE  /\ c.type \in PageTypes /\ ~c.more
             /\ c.id = rows[i].id /\ ~Temporary(rows[i])
  BY <1>2 DEF RowCommands, Command, PageTypes
<1>3. c \in AddCommands \/ \E i \in DOMAIN rows : c \in RowCommands(rows[i])
  BY DEF Controls
<1>. QED BY <1>1, <1>2, <1>3

LEMMA ControlTyped ==
  ASSUME NEW rows \in Seq(Opening), NEW c \in Controls(rows)
  PROVE  c \in PageCommand
<1>1. \A i \in DOMAIN rows : rows[i] \in Opening
  BY LenProperties
<1>2. CASE c \in AddCommands
  BY <1>2 DEF AddCommands, PageCommand, PageTypes, CommandType, Dimensions
<1>3. ASSUME NEW i \in DOMAIN rows, c \in RowCommands(rows[i])
      PROVE  c \in PageCommand
  <2>. DEFINE o == rows[i]
  <2>1. o.id \in Ids /\ o.size \in Dimensions
    BY <1>1 DEF Opening
  <2>. HIDE DEF o
  <2>2. \/ \E z \in Sizes : c = [Command("resize", o.id) EXCEPT !.size = z]
        \/ c = Command("remove", o.id)
        \/ c = [Command("verify", o.id) EXCEPT !.size = o.size]
    BY <1>3 DEF RowCommands, o
  <2>3. \E type \in {"resize", "remove", "verify"}, z \in Dimensions :
          c = [type |-> type, id |-> o.id, host |-> "none", size |-> z, more |-> FALSE]
    BY <2>1, <2>2 DEF Command, Dimensions
  <2>. QED BY <2>1, <2>3 DEF PageCommand, PageTypes, CommandType
<1>4. c \in AddCommands \/ \E i \in DOMAIN rows : c \in RowCommands(rows[i])
  BY DEF Controls
<1>. QED BY <1>2, <1>3, <1>4

\* A command that the page offers does the same to its rows and to those the API
\* makes of them, and the API accepts it if a verified dimension is there.
LEMMA PreviewStep ==
  ASSUME NEW rows \in Seq(Opening), NEW n \in Nat \ {0}, NEW k \in Nat, DraftInv(rows, n, k),
         NEW c \in Controls(rows)
  PROVE  /\ DraftInv(Previewed(rows, c, <<0, k + 1>>), n, k + 1)
         /\ Acceptable(SavedRows(rows, n), c)
              <=> (c.type = "verify" => c.size # "not_processed")
         /\ Applied(SavedRows(rows, n), c, <<n, k + 1>>)
              = SavedRows(Previewed(rows, c, <<0, k + 1>>), n)
<1>. DEFINE id == <<0, k + 1>>
            t == Applied(rows, c, id)
            s == SavedRows(rows, n)
<1>1. c \in CommandType /\ c.type \in PageTypes /\ ~c.more
  BY ControlTyped, ControlTypes DEF PageCommand
<1>2. Previewed(rows, c, id) = t
  BY <1>1, PreviewIsApplied
<1>3. Len(rows) \in Nat /\ DOMAIN rows = 1..Len(rows)
      /\ \A i \in DOMAIN rows : rows[i] \in Opening /\ rows[i].id \in Ids
  <2>1. Len(rows) \in Nat /\ DOMAIN rows = 1..Len(rows)
        /\ \A i \in DOMAIN rows : rows[i] \in Opening
    BY LenProperties
  <2>. QED BY <2>1 DEF Opening
<1>4. id \in Ids /\ id[1] = 0 /\ id[2] = k + 1
  BY DEF Ids
<1>5. Distinct(rows)
      /\ \A i \in DOMAIN rows : rows[i].id[1] < n /\ (rows[i].id[1] = 0 => rows[i].id[2] <= k)
  BY DEF DraftInv
<1>6. \A i \in DOMAIN rows : rows[i].id # id
  BY <1>4, <1>5
<1>7. DraftInv(t, n, k + 1)
  <2>1. /\ Distinct(t)
        /\ \A j \in DOMAIN t : t[j].id = id \/ \E i \in DOMAIN rows : rows[i].id = t[j].id
    BY <1>1, <1>4, <1>5, <1>6, AppliedRows
  <2>. HIDE DEF t, id
  <2>2. ASSUME NEW j \in DOMAIN t
        PROVE  t[j].id[1] < n /\ (t[j].id[1] = 0 => t[j].id[2] <= k + 1)
    <3>1. CASE t[j].id = id
      BY <1>4, <3>1
    <3>2. ASSUME NEW i \in DOMAIN rows, rows[i].id = t[j].id
          PROVE  t[j].id[1] < n /\ (t[j].id[1] = 0 => t[j].id[2] <= k + 1)
      <4>1. rows[i].id[2] \in Nat
        BY <1>3 DEF Ids
      <4>. QED BY <1>5, <3>2, <4>1
    <3>. QED BY <2>1, <3>1, <3>2
  <2>. QED BY <2>1, <2>2 DEF DraftInv
<1>8. ASSUME c.type # "add"
      PROVE  c.id \in Ids /\ c.id[1] # 0 /\ c.id[1] < n /\ Found(s, c.id)
  <2>1. PICK i \in DOMAIN rows : c.id = rows[i].id /\ ~Temporary(rows[i])
    BY <1>8, ControlTypes
  <2>2. c.id \in Ids /\ c.id[1] # 0 /\ c.id[1] < n
    BY <1>3, <1>5, <2>1 DEF Temporary
  <2>3. i \in DOMAIN s /\ s[i].id = c.id
    BY <1>3, <2>1, SavedRowsTyped DEF SavedOpening
  <2>. QED BY <2>2, <2>3 DEF Found
<1>9. Acceptable(s, c) <=> (c.type = "verify" => c.size # "not_processed")
  BY <1>1, <1>8 DEF Acceptable
<1>10. Applied(s, c, <<n, k + 1>>) = SavedRows(t, n)
  <2>1. CASE c.type = "add"
    <3>. DEFINE a == AddedOpening(c, id)
                b == AddedOpening(c, <<n, k + 1>>)
    <3>1. a \in Opening
      BY <1>1, <1>4 DEF AddedOpening, Opening, CommandType
    <3>2. SavedOpening(a, n) = b
      BY <1>4 DEF SavedOpening, Temporary, AddedOpening
    <3>3. t = Append(rows, a) /\ Applied(s, c, <<n, k + 1>>) = Append(s, b)
      BY <2>1 DEF Applied
    <3>. HIDE DEF a, b, t, s
    <3>. QED BY <3>1, <3>2, <3>3, SavedAppend DEF s
  <2>2. CASE c.type = "remove"
    BY <1>8, <2>2, SavedKeeping DEF Applied
  <2>3. CASE c.type \in {"resize", "verify"}
    <3>1. EditedRows(s, c) = SavedRows(EditedRows(rows, c), n)
      BY <1>1, <1>8, <2>3, SavedEdited
    <3>. QED BY <2>3, <3>1, AppliedIsEdited
  <2>. QED BY <1>1, <2>1, <2>2, <2>3 DEF PageTypes
<1>. QED BY <1>2, <1>7, <1>9, <1>10

\* A list that the page holds: how its drafts relate to what the reducer makes of it.
LEMMA PushedList ==
  ASSUME NEW rows \in Seq(Opening), NEW commands \in Seq(CommandType), Pushed(rows, commands),
         NEW n \in Nat \ {0}, DraftInv(rows, n, 0)
  PROVE  /\ commands \in Seq(PageCommand)
         /\ \A i \in DOMAIN rows : ~Temporary(rows[i])
         /\ \A k \in 0..Len(commands) :
              /\ Drafts(rows, commands)[k] \in Seq(Opening)
              /\ DraftInv(Drafts(rows, commands)[k], n, k)
              /\ Reductions(rows, commands, n)[k].ok <=>
                   \A i \in 1..k : commands[i].type = "verify" => commands[i].size # "not_processed"
              /\ Reductions(rows, commands, n)[k].ok =>
                   Reductions(rows, commands, n)[k].openings
                     = SavedRows(Drafts(rows, commands)[k], n)
<1>. DEFINE N == Len(commands)
            d == Drafts(rows, commands)
            r == Reductions(rows, commands, n)
            Sized(k) == \A i \in 1..k :
              commands[i].type = "verify" => commands[i].size # "not_processed"
            Same(k) == /\ DraftInv(d[k], n, k)
                       /\ r[k].ok <=> Sized(k)
                       /\ r[k].ok => r[k].openings = SavedRows(d[k], n)
            Good == {k \in Nat : k <= N => Same(k)}
<1>1. N \in Nat /\ DOMAIN commands = 1..N /\ \A i \in 1..N : commands[i] \in CommandType
  BY LenProperties
<1>2. commands \in Seq(PageCommand)
  <2>1. \A i \in 1..N : commands[i] \in PageCommand
    BY <1>1, ControlTypes DEF Pushed, PageCommand
  <2>2. commands \in [1..N -> PageCommand]
    BY <1>1, <2>1, LenProperties
  <2>. QED BY <1>1, <2>2
<1>3. \A i \in DOMAIN rows : ~Temporary(rows[i])
  <2>0. \A i \in DOMAIN rows : rows[i] \in Opening
    BY LenProperties
  <2>1. \A i \in DOMAIN rows : rows[i].id \in Ids
    BY <2>0 DEF Opening
  <2>. QED BY <2>1 DEF DraftInv, Temporary, Ids
<1>4. /\ d \in [0..N -> Seq(Opening)] /\ d[0] = rows
      /\ \A i \in 1..N : d[i] = Previewed(d[i-1], commands[i], <<0, i>>)
  BY <1>2, DraftsSteps
<1>5. /\ r \in [0..N -> Reduction(n)] /\ r[0] = Reduced(rows)
      /\ \A i \in 1..N : r[i] = ReducedBy(r[i-1], commands[i], n, i)
  BY ReductionsSteps
<1>6. \A i \in 1..N : commands[i] \in Controls(d[i-1])
  BY DEF Pushed
<1>. HIDE DEF d, r, N
<1>7. 0 \in Good
  <2>1. SavedRows(rows, n) = rows
    <3>1. \A i \in DOMAIN rows : SavedOpening(rows[i], n) = rows[i]
      BY <1>3 DEF SavedOpening
    <3>2. rows = [i \in DOMAIN rows |-> rows[i]]
      BY LenProperties
    <3>. QED BY <3>1, <3>2 DEF SavedRows
  <2>. QED BY <1>4, <1>5, <2>1 DEF Reduced
<1>8. ASSUME NEW k \in Nat, k \in Good, k + 1 <= N PROVE Same(k + 1)
  <2>. DEFINE c == commands[k+1]
  <2>1. k + 1 \in 1..N /\ (k + 1) - 1 = k /\ k \in 0..N /\ k + 1 \in Nat \ {0}
    BY <1>1, <1>8
  <2>2. Same(k)
    BY <1>8, <2>1
  <2>3. c \in CommandType /\ c \in Controls(d[k]) /\ d[k] \in Seq(Opening) /\ r[k] \in Reduction(n)
    BY <1>1, <1>4, <1>5, <1>6, <2>1
  <2>4. d[k+1] = Previewed(d[k], c, <<0, k + 1>>) /\ r[k+1] = ReducedBy(r[k], c, n, k + 1)
    BY <1>4, <1>5, <2>1
  <2>5. Sized(k + 1) <=> Sized(k) /\ (c.type = "verify" => c.size # "not_processed")
    <3>1. \A i \in 1..(k+1) : i \in 1..k \/ i = k + 1
      BY <2>1
    <3>2. \A i \in 1..k : i \in 1..(k+1)
      OBVIOUS
    <3>3. k + 1 \in 1..(k + 1)
      OBVIOUS
    <3>. QED BY <3>1, <3>2, <3>3
  <2>. HIDE DEF c, Sized
  <2>6. /\ DraftInv(d[k+1], n, k + 1)
        /\ Acceptable(SavedRows(d[k], n), c) <=> (c.type = "verify" => c.size # "not_processed")
        /\ Applied(SavedRows(d[k], n), c, <<n, k + 1>>) = SavedRows(d[k+1], n)
    BY <2>2, <2>3, <2>4, PreviewStep
  <2>7. r[k+1].ok = (r[k].ok /\ Acceptable(r[k].openings, c))
    <3>1. ReducedBy(r[k], c, n, k + 1).ok = (r[k].ok /\ Acceptable(r[k].openings, c))
      BY <2>1, <2>3, ReducedByTyped
    <3>. QED BY <2>4, <3>1
  <2>8. r[k+1].ok <=> Sized(k + 1)
    BY <2>2, <2>5, <2>6, <2>7
  <2>9. ASSUME r[k+1].ok PROVE r[k+1].openings = SavedRows(d[k+1], n)
    <3>1. r[k].ok /\ Acceptable(r[k].openings, c)
      BY <2>7, <2>9
    <3>2. r[k+1].openings = Applied(r[k].openings, c, <<n, k + 1>>)
      BY <2>4, <3>1 DEF ReducedBy
    <3>. QED BY <2>2, <2>6, <3>1, <3>2
  <2>. QED BY <2>6, <2>8, <2>9
<1>9. Good = Nat
  <2>1. \A k \in Good : k + 1 <= N => Same(k + 1)
    BY <1>8
  <2>2. ASSUME NEW k \in Good PROVE k + 1 \in Good
    <3>1. k \in Nat /\ k + 1 \in Nat
      OBVIOUS
    <3>. HIDE DEF Same
    <3>. QED BY <2>1, <3>1
  <2>3. Good \in SUBSET Nat
    OBVIOUS
  <2>. HIDE DEF Good
  <2>. QED BY <1>7, <2>2, <2>3, NatSetInduction
<1>10. \A k \in 0..N : Same(k)
  <2>. HIDE DEF Same
  <2>. QED BY <1>1, <1>9
<1>. QED BY <1>2, <1>3, <1>4, <1>10 DEF d, r, N

\* The rows that a list leaves have the walls they had.
LEMMA PushedHosts ==
  ASSUME NEW rows \in Seq(Opening), NEW commands \in Seq(CommandType), Pushed(rows, commands),
         NEW n \in Nat \ {0}, DraftInv(rows, n, 0)
  PROVE  HostsOf(Drafts(rows, commands)[Len(commands)], rows)
<1>. DEFINE N == Len(commands)
            d == Drafts(rows, commands)
            Good == {k \in Nat : k <= N => HostsOf(d[k], rows)}
<1>1. N \in Nat /\ commands \in Seq(PageCommand)
      /\ \A k \in 0..N : d[k] \in Seq(Opening) /\ DraftInv(d[k], n, k)
  BY LenProperties, PushedList
<1>2. d[0] = rows /\ \A i \in 1..N : d[i] = Previewed(d[i-1], commands[i], <<0, i>>)
  BY <1>1, DraftsSteps
<1>3. \A i \in 1..N : commands[i] \in PageCommand
  BY <1>1, LenProperties
<1>. HIDE DEF d, N
<1>4. 0 \in Good
  BY <1>2 DEF HostsOf
<1>5. ASSUME NEW k \in Nat, k \in Good, k + 1 <= N PROVE HostsOf(d[k+1], rows)
  <2>1. k + 1 \in 1..N /\ (k + 1) - 1 = k /\ k \in 0..N /\ k + 1 \in Nat \ {0}
    BY <1>1, <1>5
  <2>2. HostsOf(d[k], rows) /\ Distinct(d[k]) /\ d[k] \in Seq(Opening)
    BY <1>1, <1>5, <2>1 DEF DraftInv
  <2>3. d[k+1] = Previewed(d[k], commands[k+1], <<0, k + 1>>) /\ commands[k+1] \in PageCommand
    BY <1>2, <1>3, <2>1
  <2>4. <<0, k + 1>> \in Ids /\ <<0, k + 1>>[1] = 0
    BY <2>1 DEF Ids
  <2>. QED BY <2>2, <2>3, <2>4, PreviewHosts
<1>6. Good = Nat
  <2>1. \A k \in Good : k + 1 <= N => HostsOf(d[k+1], rows)
    BY <1>5
  <2>2. ASSUME NEW k \in Good PROVE k + 1 \in Good
    <3>1. k \in Nat /\ k + 1 \in Nat
      OBVIOUS
    <3>. QED BY <2>1, <3>1
  <2>3. Good \in SUBSET Nat
    OBVIOUS
  <2>. HIDE DEF Good
  <2>. QED BY <1>4, <2>2, <2>3, NatSetInduction
<1>. QED BY <1>1, <1>6 DEF d, N

\* The reducer reports a row that the list leaves as it was reported before.
LEMMA SavedFindings ==
  ASSUME NEW rows \in Seq(Opening), Distinct(rows), NEW shown \in Seq(Opening),
         NEW n \in Nat, NEW k0 \in Nat, DraftInv(shown, n, k0), HostsOf(shown, rows),
         NEW i \in DOMAIN shown, ~Temporary(shown[i])
  PROVE  shown[i].id \in Unattached(rows) <=> shown[i].id \in Unattached(SavedRows(shown, n))
<1>. DEFINE s == SavedRows(shown, n)
            id == shown[i].id
<1>0. \A k \in DOMAIN shown : shown[k] \in Opening
  BY LenProperties
<1>1. DOMAIN s = DOMAIN shown /\ \A k \in DOMAIN shown : s[k] = SavedOpening(shown[k], n)
  BY DEF SavedRows
<1>2. \A k \in DOMAIN shown : Temporary(shown[k]) => s[k].id[1] = n
  <2>1. SUFFICES ASSUME NEW k \in DOMAIN shown, Temporary(shown[k]) PROVE s[k].id[1] = n
    OBVIOUS
  <2>2. s[k] = [shown[k] EXCEPT !.id = <<n, shown[k].id[2]>>] /\ shown[k] \in Opening
    BY <1>0, <1>1, <2>1 DEF SavedOpening
  <2>3. s[k].id = <<n, shown[k].id[2]>>
    BY <2>2 DEF Opening
  <2>. QED BY <2>3
<1>3. \A k \in DOMAIN shown : ~Temporary(shown[k]) => s[k] = shown[k]
  BY <1>1 DEF SavedOpening
<1>4. id[1] < n
  BY DEF DraftInv
<1>5. \A k \in DOMAIN shown : ~Temporary(shown[k]) =>
        \E j \in DOMAIN rows : rows[j].id = shown[k].id /\ rows[j].host = shown[k].host
  BY DEF HostsOf
<1>. HIDE DEF s
<1>6. ASSUME id \in Unattached(s) PROVE id \in Unattached(rows)
  <2>1. PICK k \in DOMAIN shown : s[k].host = "none" /\ s[k].id = id
    BY <1>1, <1>6 DEF Unattached
  <2>2. ~Temporary(shown[k])
    BY <1>2, <1>4, <2>1
  <2>3. PICK j \in DOMAIN rows : rows[j].id = id /\ rows[j].host = "none"
    BY <1>3, <1>5, <2>1, <2>2
  <2>. QED BY <2>3 DEF Unattached
<1>7. ASSUME id \in Unattached(rows) PROVE id \in Unattached(s)
  <2>1. PICK k \in DOMAIN rows : rows[k].host = "none" /\ rows[k].id = id
    BY <1>7 DEF Unattached
  <2>2. PICK j \in DOMAIN rows : rows[j].id = id /\ rows[j].host = shown[i].host
    BY <1>5
  <2>3. j = k
    BY <2>1, <2>2 DEF Distinct
  <2>4. i \in DOMAIN s /\ s[i].id = id /\ s[i].host = "none"
    BY <1>1, <1>3, <2>1, <2>2, <2>3
  <2>. QED BY <2>4 DEF Unattached
<1>. QED BY <1>6, <1>7 DEF s

LEMMA SavedRowsShow ==
  ASSUME NEW rows \in Seq(Opening), NEW n \in Nat
  PROVE  SameRows(SavedRows(rows, n), rows)
<1>1. \A i \in DOMAIN rows : rows[i] \in Opening
  BY LenProperties
<1>2. ASSUME NEW i \in DOMAIN rows
      PROVE  SavedRows(rows, n)[i] =
               IF Temporary(rows[i]) THEN [rows[i] EXCEPT !.id = SavedRows(rows, n)[i].id]
                                     ELSE rows[i]
  <2>. DEFINE o == rows[i]
              p == SavedRows(rows, n)[i]
  <2>1. p = SavedOpening(o, n) /\ o \in Opening
    BY <1>1, SavedRowsTyped
  <2>. HIDE DEF p, o
  <2>2. CASE Temporary(o)
    <3>1. p = [o EXCEPT !.id = <<n, o.id[2]>>]
      BY <2>1, <2>2 DEF SavedOpening
    <3>2. p.id = <<n, o.id[2]>>
      BY <2>1, <3>1 DEF Opening
    <3>. QED BY <2>2, <3>1, <3>2 DEF p, o
  <2>3. CASE ~Temporary(o)
    BY <2>1, <2>3 DEF SavedOpening, p, o
  <2>. QED BY <2>2, <2>3
<1>. QED BY <1>2, SavedRowsTyped DEF SameRows

LEMMA PushedAppend ==
  ASSUME NEW rows \in Seq(Opening), NEW commands \in Seq(CommandType), Pushed(rows, commands),
         NEW n \in Nat \ {0}, DraftInv(rows, n, 0),
         NEW c \in Controls(Drafts(rows, commands)[Len(commands)])
  PROVE  Append(commands, c) \in Seq(CommandType) /\ Pushed(rows, Append(commands, c))
<1>. DEFINE N == Len(commands)
            longer == Append(commands, c)
            d == Drafts(rows, commands)
            l == Drafts(rows, longer)
<1>1. N \in Nat /\ N \in 0..N
  BY LenProperties
<1>2. commands \in Seq(PageCommand) /\ d[N] \in Seq(Opening)
  BY <1>1, PushedList
<1>3. c \in PageCommand /\ c \in CommandType
  BY <1>2, ControlTyped DEF PageCommand
<1>4. longer \in Seq(PageCommand) /\ Len(longer) = N + 1 /\ longer[N+1] = c
      /\ \A i \in 1..N : longer[i] = commands[i]
  BY <1>2, <1>3, AppendProperties
<1>5. longer \in Seq(CommandType)
  BY <1>3, AppendProperties
<1>. HIDE DEF longer
<1>6. \A k \in 0..N : d[k] = l[k]
  BY <1>1, <1>2, <1>4, DraftsPrefix
<1>7. ASSUME NEW k \in 1..(N + 1) PROVE longer[k] \in Controls(l[k-1])
  <2>1. CASE k = N + 1
    <3>1. k - 1 = N
      BY <1>1, <2>1
    <3>2. l[N] = d[N]
      BY <1>1, <1>6
    <3>. QED BY <1>4, <2>1, <3>1, <3>2
  <2>2. CASE k \in 1..N
    <3>1. k - 1 \in 0..N
      BY <1>1, <2>2
    <3>2. commands[k] \in Controls(d[k-1])
      BY <2>2 DEF Pushed
    <3>. QED BY <1>4, <1>6, <2>2, <3>1, <3>2
  <2>. QED BY <1>1, <2>1, <2>2
<1>. QED BY <1>4, <1>5, <1>7 DEF Pushed, longer

LEMMA PushedFront ==
  ASSUME NEW rows \in Seq(Opening), NEW commands \in Seq(CommandType), Pushed(rows, commands),
         NEW n \in Nat \ {0}, DraftInv(rows, n, 0), commands # <<>>
  PROVE  Front(commands) \in Seq(CommandType) /\ Pushed(rows, Front(commands))
<1>. DEFINE N == Len(commands)
            shorter == Front(commands)
            d == Drafts(rows, commands)
            l == Drafts(rows, shorter)
<1>1. N \in Nat /\ N # 0
  BY EmptySeq, LenProperties
<1>2. commands \in Seq(PageCommand)
  BY PushedList
<1>3. shorter \in Seq(PageCommand) /\ Len(shorter) = N - 1
      /\ \A i \in 1..(N-1) : shorter[i] = commands[i]
  <2>1. \A i \in 1..(N-1) : commands[i] \in PageCommand
    BY <1>1, <1>2, LenProperties
  <2>2. N - 1 \in Nat /\ (N - 1) - 1 + 1 = N - 1
    BY <1>1
  <2>3. SubSeq(commands, 1, N - 1) \in Seq(PageCommand) /\ Len(SubSeq(commands, 1, N - 1)) = N - 1
        /\ \A i \in 1..(N-1) : SubSeq(commands, 1, N - 1)[i] = commands[i]
    BY <2>1, <2>2, SubSeqProperties
  <2>. QED BY <2>3 DEF Front
<1>4. PageCommand \subseteq CommandType
  BY DEF PageCommand
<1>. HIDE DEF shorter
<1>5. shorter \in Seq(CommandType)
  BY <1>3, <1>4, SeqMonotonic
<1>6. \A k \in 0..(N-1) : l[k] = d[k]
  <2>1. Len(shorter) <= Len(commands) /\ \A i \in 1..Len(shorter) : shorter[i] = commands[i]
    BY <1>1, <1>3
  <2>2. \A k \in 0..Len(shorter) : l[k] = d[k]
    BY <1>2, <1>3, <2>1, DraftsPrefix
  <2>. QED BY <1>3, <2>2
<1>7. ASSUME NEW k \in 1..(N-1) PROVE shorter[k] \in Controls(l[k-1])
  <2>1. k \in 1..N /\ k - 1 \in 0..(N-1)
    BY <1>1
  <2>2. commands[k] \in Controls(d[k-1])
    BY <2>1 DEF Pushed
  <2>. QED BY <1>3, <1>6, <2>1, <2>2
<1>. QED BY <1>3, <1>5, <1>7 DEF Pushed, shorter

-----------------------------------------------------------------------------
(* The inductive invariant *)

\* Openings keep the number of the revision that added them; a saved revision
\* reports those that have no wall.
RevisionInv ==
  /\ \A n \in DOMAIN revisions : \A i \in DOMAIN revisions[n].openings :
       revisions[n].openings[i].id[1] \in 1..n
  /\ \A n \in DOMAIN revisions :
       n > 1 => revisions[n].unattached = Unattached(revisions[n].openings)

\* A page's list is about the revision it has loaded.  While all its answers
\* arrive, its own save is the next revision and is not reported as a conflict.
PageOK(revs, e, page) ==
  /\ page.base <= Len(revs)
  /\ page.base = 0 <=> page.pc = "loading"
  /\ page.base = 0 => page.commands = <<>>
  /\ page.base # 0 => Pushed(revs[page.base].openings, page.commands)
  /\ ~page.unsure /\ ~(page.pc = "reloading" /\ page.notice # "conflict") =>
       \A n \in (page.base + 1)..Len(revs) : revs[n].author # e

PageInv == \A e \in Editors : PageOK(revisions, e, editors[e])

\* NoticeIsTrue, of one page.
NoticeOK(revs, e, page) ==
  page.pc = "reloading" =>
    /\ page.notice = "saved" /\ ~page.touched =>
         /\ page.base < Len(revs)
         /\ revs[page.base + 1].author = e
         /\ SameRows(revs[page.base + 1].openings,
                     Replay(revs[page.base].openings, page.commands))
    /\ page.notice = "conflict" =>
         \/ page.unsure
         \/ \E n \in (page.base + 1)..Len(revs) : revs[n].author # e

\* A page waits for one answer at most, with the list that it sent unless it was
\* changed meanwhile.
RequestOK(r, page) ==
  /\ ~r.awaited => page.unsure
  /\ r.awaited => /\ page.pc = "saving" /\ page.base = r.base
                  /\ ~page.touched => page.commands = r.commands

RequestInv ==
  /\ \A r \in requests :
       /\ r.base <= Len(revisions) /\ (r.awaited => r.owner \in Editors)
       /\ r.owner # None => RequestOK(r, editors[r.owner])
  /\ \A r, s \in requests : r.awaited /\ s.awaited /\ r.owner = s.owner => r = s

IInv == /\ TypeOK /\ RevisionInv /\ PageInv /\ RequestInv
        /\ NoticeIsTrue /\ VerifiedHasProvenance

LEMMA NoticeOfEach == NoticeIsTrue <=> \A e \in Editors : NoticeOK(revisions, e, editors[e])
BY DEF NoticeIsTrue, NoticeOK, Draft

LEMMA NoticeOfEachNext ==
  NoticeIsTrue' <=> \A e \in Editors : NoticeOK(revisions', e, editors'[e])
BY DEF NoticeIsTrue, NoticeOK, Draft

LEMMA RevisionTypes ==
  ASSUME TypeOK, RevisionInv
  PROVE  /\ Len(revisions) \in Nat /\ DOMAIN revisions = 1..Len(revisions)
         /\ \A n \in 1..Len(revisions) :
              /\ revisions[n] \in Revision /\ revisions[n].openings \in Seq(Opening)
              /\ DraftInv(revisions[n].openings, n + 1, 0)
<1>1. Len(revisions) \in Nat /\ DOMAIN revisions = 1..Len(revisions)
      /\ \A n \in 1..Len(revisions) : revisions[n] \in Revision
  BY LenProperties DEF TypeOK
<1>2. \A n \in 1..Len(revisions) : revisions[n].openings \in Seq(Opening)
  BY <1>1 DEF Revision
<1>3. ASSUME NEW n \in 1..Len(revisions) PROVE DraftInv(revisions[n].openings, n + 1, 0)
  <2>1. Distinct(revisions[n].openings)
    BY <1>1 DEF TypeOK, Distinct
  <2>2. \A i \in DOMAIN revisions[n].openings : revisions[n].openings[i].id[1] \in 1..n
    BY <1>1 DEF RevisionInv
  <2>. QED BY <2>1, <2>2 DEF DraftInv
<1>. QED BY <1>1, <1>2, <1>3

\* What a page's list makes of the revision that it loaded.
LEMMA PageList ==
  ASSUME TypeOK, RevisionInv, PageInv, NEW e \in Editors, editors[e].base # 0
  PROVE  LET base == editors[e].base
             o == Reduce(revisions[base].openings, editors[e].commands, base + 1)
         IN /\ base \in 1..Len(revisions) /\ editors[e].commands \in Seq(CommandType)
            /\ Draft(e) \in Seq(Opening)
            /\ o.ok <=> \A i \in DOMAIN editors[e].commands :
                          editors[e].commands[i].type = "verify" =>
                            editors[e].commands[i].size # "not_processed"
            /\ o.ok => SameRows(o.openings, Draft(e))
            /\ o.ok => \A i \in DOMAIN Draft(e) :
                         \/ Temporary(Draft(e)[i])
                         \/ Draft(e)[i].id \in Unattached(revisions[base].openings)
                              <=> Draft(e)[i].id \in o.unattached
<1>. DEFINE base == editors[e].base
            commands == editors[e].commands
            rows == revisions[base].openings
            o == Reduce(rows, commands, base + 1)
<1>1. editors[e] \in EditorType
  BY DEF TypeOK
<1>2. base \in 1..Len(revisions) /\ base + 1 \in Nat \ {0} /\ commands \in Seq(CommandType)
  BY <1>1, RevisionTypes DEF EditorType, PageInv, PageOK
<1>3. Pushed(rows, commands) /\ rows \in Seq(Opening) /\ DraftInv(rows, base + 1, 0)
  BY <1>2, RevisionTypes DEF PageInv, PageOK
<1>4. Len(commands) \in Nat /\ Len(commands) \in 0..Len(commands)
      /\ DOMAIN commands = 1..Len(commands)
  BY <1>2, LenProperties
<1>5. Draft(e) = Drafts(rows, commands)[Len(commands)]
  BY DEF Draft, Replay
<1>6. LET last == Reductions(rows, commands, base + 1)[Len(commands)]
      IN o.ok = last.ok /\ o.openings = last.openings /\ o.unattached = Unattached(last.openings)
  BY ReduceIsLast
<1>. HIDE DEF o, rows, commands, base
<1>7. /\ Draft(e) \in Seq(Opening) /\ DraftInv(Draft(e), base + 1, Len(commands))
      /\ o.ok <=> \A i \in 1..Len(commands) :
                    commands[i].type = "verify" => commands[i].size # "not_processed"
      /\ o.ok => o.openings = SavedRows(Draft(e), base + 1)
  BY <1>2, <1>3, <1>4, <1>5, <1>6, PushedList
<1>8. o.ok => SameRows(o.openings, Draft(e))
  BY <1>2, <1>7, SavedRowsShow
<1>9. ASSUME o.ok, NEW i \in DOMAIN Draft(e), ~Temporary(Draft(e)[i])
      PROVE  Draft(e)[i].id \in Unattached(rows) <=> Draft(e)[i].id \in o.unattached
  <2>1. HostsOf(Draft(e), rows)
    BY <1>2, <1>3, <1>5, PushedHosts
  <2>2. Distinct(rows)
    BY <1>3 DEF DraftInv
  <2>3. o.unattached = Unattached(SavedRows(Draft(e), base + 1))
    BY <1>6, <1>7, <1>9
  <2>. HIDE DEF Draft
  <2>. QED BY <1>2, <1>3, <1>7, <1>9, <2>1, <2>2, <2>3, SavedFindings
<1>10. o.ok => \A i \in DOMAIN Draft(e) :
                 \/ Temporary(Draft(e)[i])
                 \/ Draft(e)[i].id \in Unattached(rows) <=> Draft(e)[i].id \in o.unattached
  BY <1>9
<1>. QED BY <1>2, <1>4, <1>7, <1>8, <1>10 DEF o, rows, commands, base

LEMMA IInvPreview == IInv => PreviewIsHonest
<1>. SUFFICES ASSUME IInv, NEW e \in Editors, editors[e].base # 0,
                     Sendable(editors[e].commands)
              PROVE  LET o == Effect(editors[e]) IN
                     /\ o.ok /\ SameRows(o.openings, Draft(e))
                     /\ editors[e].base > 1 =>
                          \A i \in DOMAIN Draft(e) :
                            \/ Temporary(Draft(e)[i])
                            \/ Draft(e)[i].id \in Findings(e)
                                 <=> Draft(e)[i].id \in o.unattached
  BY DEF PreviewIsHonest
<1>. DEFINE base == editors[e].base
            o == Reduce(revisions[base].openings, editors[e].commands, base + 1)
<1>1. /\ base \in 1..Len(revisions) /\ o.ok /\ SameRows(o.openings, Draft(e))
      /\ \A i \in DOMAIN Draft(e) :
           \/ Temporary(Draft(e)[i])
           \/ Draft(e)[i].id \in Unattached(revisions[base].openings)
                <=> Draft(e)[i].id \in o.unattached
  BY PageList DEF IInv, Sendable
<1>2. base > 1 => Findings(e) = Unattached(revisions[base].openings)
  BY <1>1, RevisionTypes DEF IInv, RevisionInv, Findings
<1>3. Effect(editors[e]) = o
  BY DEF Effect
<1>. HIDE DEF o, base
<1>. QED BY <1>1, <1>2, <1>3 DEF base

-----------------------------------------------------------------------------
(* The pages' steps *)

\* A step of one page: its new state and its requests fit together.
LEMMA EditorStep ==
  ASSUME IInv, NEW e \in Editors, NEW page \in EditorType,
         editors' = [editors EXCEPT ![e] = page], UNCHANGED <<revisions, measurements>>,
         edits' \in 0..MaxEdits, posted' \in 0..MaxClient,
         PageOK(revisions, e, page), NoticeOK(revisions, e, page),
         requests' \subseteq SaveRequest,
         \A r \in requests' : r.owner = e => RequestOK(r, page) /\ r.base <= Len(revisions),
         \A r \in requests' : r.owner # e => r \in requests,
         \A r, s \in requests' : r.awaited /\ s.awaited /\ r.owner = e /\ s.owner = e => r = s
  PROVE  IInv'
<1>1. editors \in [Editors -> EditorType]
  BY DEF IInv, TypeOK
<1>2. editors'[e] = page /\ \A f \in Editors \ {e} : editors'[f] = editors[f]
  BY <1>1
<1>3. TypeOK'
  BY <1>1 DEF IInv, TypeOK
<1>4. RevisionInv' /\ VerifiedHasProvenance'
  BY DEF IInv, RevisionInv, VerifiedHasProvenance
<1>5. PageInv'
  BY <1>2 DEF IInv, PageInv
<1>6. NoticeIsTrue'
  BY <1>2, NoticeOfEach, NoticeOfEachNext DEF IInv
<1>7. RequestInv'
  <2>1. None \notin Editors
    BY EditingAssumption
  <2>2. \A r \in requests' : r.owner \in Editors \cup {None}
    BY DEF SaveRequest
  <2>3. ASSUME NEW r \in requests'
        PROVE  /\ r.base <= Len(revisions) /\ (r.awaited => r.owner \in Editors)
               /\ r.owner # None => RequestOK(r, editors'[r.owner])
    <3>1. CASE r.owner = e
      BY <1>2, <3>1
    <3>2. CASE r.owner # e
      <4>1. r \in requests
        BY <3>2
      <4>. QED BY <1>2, <2>2, <3>2, <4>1 DEF IInv, RequestInv
    <3>. QED BY <3>1, <3>2
  <2>4. ASSUME NEW r \in requests', NEW s \in requests', r.awaited, s.awaited,
               r.owner = s.owner
        PROVE  r = s
    BY <2>4 DEF IInv, RequestInv
  <2>. QED BY <2>3, <2>4 DEF RequestInv
<1>. QED BY <1>3, <1>4, <1>5, <1>6, <1>7 DEF IInv

\* The facts about a page that its steps start from.
LEMMA PageFacts ==
  ASSUME IInv, NEW e \in Editors
  PROVE  /\ editors[e] \in EditorType /\ PageOK(revisions, e, editors[e])
         /\ NoticeOK(revisions, e, editors[e])
         /\ \A r \in requests : /\ r \in SaveRequest /\ r.base <= Len(revisions)
                                /\ r.owner = e => RequestOK(r, editors[e])
         /\ \A r, s \in requests : r.awaited /\ s.awaited /\ r.owner = s.owner => r = s
         /\ edits \in 0..MaxEdits /\ posted \in 0..MaxClient
<1>1. e # None
  BY EditingAssumption
<1>2. editors[e] \in EditorType /\ requests \subseteq SaveRequest
      /\ edits \in 0..MaxEdits /\ posted \in 0..MaxClient
  BY DEF IInv, TypeOK
<1>. QED BY <1>1, <1>2, NoticeOfEach DEF IInv, PageInv, RequestInv

\* A change of the list.
LEMMA ChangeStep ==
  ASSUME IInv, NEW e \in Editors, NEW commands \in Seq(CommandType),
         NEW notice \in {"none", editors[e].notice}, Change(e, commands, notice),
         editors[e].base # 0, Pushed(revisions[editors[e].base].openings, commands),
         edits' \in 0..MaxEdits, UNCHANGED <<revisions, measurements, requests, posted>>
  PROVE  IInv'
<1>. DEFINE old == editors[e]
            page == [old EXCEPT !.commands = commands, !.touched = Busy(e), !.notice = notice]
<1>1. /\ old \in EditorType /\ PageOK(revisions, e, old) /\ NoticeOK(revisions, e, old)
      /\ \A r \in requests : /\ r \in SaveRequest /\ r.base <= Len(revisions)
                             /\ r.owner = e => RequestOK(r, old)
      /\ \A r, s \in requests : r.awaited /\ s.awaited /\ r.owner = s.owner => r = s
      /\ posted \in 0..MaxClient
  BY PageFacts
<1>2. editors' = [editors EXCEPT ![e] = page]
  BY DEF Change
<1>3. Busy(e) = (old.pc \in {"saving", "reloading"}) /\ Busy(e) \in BOOLEAN
  BY DEF Busy
<1>4. /\ old.base # 0 /\ Pushed(revisions[old.base].openings, commands)
      /\ notice \in {"none", old.notice}
  OBVIOUS
<1>. HIDE DEF old
<1>5. /\ page \in EditorType
      /\ page.pc = old.pc /\ page.base = old.base /\ page.notice = notice
      /\ notice \in {"none", old.notice}
      /\ page.unsure = old.unsure /\ page.commands = commands /\ page.touched = Busy(e)
  BY <1>1, <1>3, <1>4 DEF EditorType
<1>. HIDE DEF page
<1>6. PageOK(revisions, e, page)
  BY <1>1, <1>4, <1>5 DEF PageOK
<1>7. NoticeOK(revisions, e, page)
  BY <1>1, <1>3, <1>5 DEF NoticeOK
<1>8. \A r \in requests : r.owner = e => RequestOK(r, page)
  BY <1>1, <1>3, <1>5 DEF RequestOK
<1>9. /\ requests' \subseteq SaveRequest /\ posted' \in 0..MaxClient
      /\ \A r \in requests' : r.owner = e => RequestOK(r, page) /\ r.base <= Len(revisions)
      /\ \A r \in requests' : r.owner # e => r \in requests
      /\ \A r, s \in requests' : r.awaited /\ s.awaited /\ r.owner = e /\ s.owner = e => r = s
  BY <1>1, <1>8
<1>. QED BY <1>2, <1>5, <1>6, <1>7, <1>9, EditorStep

LEMMA PushStep ==
  ASSUME IInv, NEW e \in Editors, editors[e].base # 0, NEW c \in Offered(e), Push(e, c)
  PROVE  IInv'
<1>. DEFINE base == editors[e].base
            commands == editors[e].commands
            rows == revisions[base].openings
<1>1. base \in 1..Len(revisions) /\ commands \in Seq(CommandType) /\ Len(revisions) \in Nat
  BY PageList, RevisionTypes DEF IInv
<1>2. rows \in Seq(Opening) /\ DraftInv(rows, base + 1, 0) /\ base + 1 \in Nat \ {0}
  BY <1>1, RevisionTypes DEF IInv
<1>3. Pushed(rows, commands)
  BY PageFacts DEF PageOK
<1>4. c \in Controls(Drafts(rows, commands)[Len(commands)])
  BY DEF Offered, Draft, Replay
<1>. HIDE DEF rows, commands, base
<1>5. Append(commands, c) \in Seq(CommandType) /\ Pushed(rows, Append(commands, c))
  BY <1>1, <1>2, <1>3, <1>4, PushedAppend
<1>6. edits' \in 0..MaxEdits
  BY EditingAssumption DEF IInv, TypeOK, Push
<1>7. Change(e, Append(commands, c), "none") /\ UNCHANGED <<revisions, measurements, requests, posted>>
  BY DEF Push, commands
<1>. QED BY <1>5, <1>6, <1>7, ChangeStep DEF rows, base

LEMMA UndoStep ==
  ASSUME IInv, NEW e \in Editors, Undo(e)
  PROVE  IInv'
<1>. DEFINE base == editors[e].base
            commands == editors[e].commands
            rows == revisions[base].openings
<1>0. base # 0 /\ commands # <<>>
  BY PageFacts DEF PageOK, Undo
<1>1. base \in 1..Len(revisions) /\ commands \in Seq(CommandType) /\ Len(revisions) \in Nat
  BY <1>0, PageList, RevisionTypes DEF IInv
<1>2. rows \in Seq(Opening) /\ DraftInv(rows, base + 1, 0) /\ base + 1 \in Nat \ {0}
  BY <1>1, RevisionTypes DEF IInv
<1>3. Pushed(rows, commands)
  BY <1>0, PageFacts DEF PageOK
<1>4. Change(e, Front(commands), editors[e].notice)
      /\ UNCHANGED <<revisions, measurements, requests, edits, posted>>
  BY DEF Undo
<1>. HIDE DEF rows, commands, base
<1>5. Front(commands) \in Seq(CommandType) /\ Pushed(rows, Front(commands))
  BY <1>0, <1>1, <1>2, <1>3, PushedFront
<1>6. edits' \in 0..MaxEdits
  BY <1>4 DEF IInv, TypeOK
<1>. QED BY <1>0, <1>4, <1>5, <1>6, ChangeStep DEF rows, base

LEMMA SaveStep ==
  ASSUME IInv, NEW e \in Editors, Save(e)
  PROVE  IInv'
<1>. DEFINE old == editors[e]
            page == [old EXCEPT !.pc = "saving", !.touched = FALSE]
            q == [owner |-> e, awaited |-> TRUE, base |-> old.base, commands |-> old.commands]
<1>1. /\ old \in EditorType /\ PageOK(revisions, e, old)
      /\ \A r \in requests : /\ r \in SaveRequest /\ r.base <= Len(revisions)
                             /\ r.owner = e => RequestOK(r, old)
      /\ edits \in 0..MaxEdits /\ posted \in 0..MaxClient
  BY PageFacts
<1>2. editors' = [editors EXCEPT ![e] = page] /\ requests' = requests \cup {q}
      /\ UNCHANGED <<revisions, measurements, edits, posted>> /\ old.pc = "editing"
  BY DEF Save, MaySave
<1>3. Len(revisions) \in 1..MaxRevisions
  BY DEF IInv, TypeOK
<1>. HIDE DEF old
<1>4. /\ page \in EditorType /\ page.pc = "saving" /\ page.base = old.base
      /\ page.notice = old.notice /\ page.unsure = old.unsure /\ page.commands = old.commands
      /\ ~page.touched
  BY <1>1 DEF EditorType
<1>. HIDE DEF page
<1>5. PageOK(revisions, e, page)
  BY <1>1, <1>2, <1>4 DEF PageOK
<1>6. NoticeOK(revisions, e, page)
  BY <1>4 DEF NoticeOK
<1>7. q \in SaveRequest /\ q.owner = e /\ q.awaited /\ q.base <= Len(revisions)
      /\ RequestOK(q, page)
  <2>1. old.base \in 1..MaxRevisions /\ old.base <= Len(revisions)
    BY <1>1, <1>2, <1>3, EditingAssumption DEF PageOK, EditorType
  <2>. QED BY <1>1, <1>4, <2>1 DEF SaveRequest, EditorType, RequestOK
<1>. HIDE DEF q
<1>8. \A r \in requests : r.owner = e => ~r.awaited /\ page.unsure
  BY <1>1, <1>2, <1>4 DEF RequestOK
<1>9. \A r \in requests' : r.owner = e => RequestOK(r, page) /\ r.base <= Len(revisions)
  BY <1>1, <1>2, <1>7, <1>8 DEF RequestOK
<1>10. \A r, s \in requests' : r.awaited /\ s.awaited /\ r.owner = e /\ s.owner = e => r = s
  BY <1>2, <1>8
<1>11. requests' \subseteq SaveRequest /\ \A r \in requests' : r.owner # e => r \in requests
  BY <1>1, <1>2, <1>7
<1>. QED BY <1>1, <1>2, <1>4, <1>5, <1>6, <1>9, <1>10, <1>11, EditorStep

\* The end of a save or of a reload, whatever came of it.
LEMMA IdlePage ==
  ASSUME NEW page \in EditorType
  PROVE  /\ Idle(page) \in EditorType /\ Idle(page).pc = "editing"
         /\ Idle(page).base = page.base /\ Idle(page).commands = page.commands
         /\ Idle(page).unsure = page.unsure
BY DEF Idle, EditorType

\* A page that goes back to editing.
LEMMA BackToEditing ==
  ASSUME IInv, NEW e \in Editors, NEW page \in EditorType, page.pc = "editing",
         PageOK(revisions, e, page), editors' = [editors EXCEPT ![e] = page],
         UNCHANGED <<revisions, measurements, edits, posted>>,
         requests' \subseteq SaveRequest,
         \A r \in requests' : r.owner = e =>
           ~r.awaited /\ page.unsure /\ r.base <= Len(revisions),
         \A r \in requests' : r.owner # e => r \in requests
  PROVE  IInv'
<1>1. edits' \in 0..MaxEdits /\ posted' \in 0..MaxClient
  BY PageFacts
<1>2. NoticeOK(revisions, e, page)
  BY DEF NoticeOK
<1>3. \A r \in requests' : r.owner = e => RequestOK(r, page) /\ r.base <= Len(revisions)
  BY DEF RequestOK
<1>. QED BY <1>1, <1>2, <1>3, EditorStep

LEMMA LoseAnswerStep ==
  ASSUME IInv, NEW e \in Editors, LoseAnswer(e)
  PROVE  IInv'
<1>. DEFINE old == editors[e]
            page == [Idle(old) EXCEPT !.unsure = TRUE]
<1>1. /\ old \in EditorType /\ PageOK(revisions, e, old)
      /\ \A r \in requests : /\ r \in SaveRequest /\ r.base <= Len(revisions)
                             /\ r.owner = e => RequestOK(r, old)
      /\ \A r, s \in requests : r.awaited /\ s.awaited /\ r.owner = s.owner => r = s
  BY PageFacts
<1>2. PICK r \in requests :
        /\ r.owner = e /\ r.awaited
        /\ requests' = (requests \ {r}) \cup {[r EXCEPT !.awaited = FALSE]}
        /\ editors' = [editors EXCEPT ![e] = page]
        /\ UNCHANGED <<revisions, measurements, edits, posted>>
  BY DEF LoseAnswer
<1>3. old.pc = "saving"
  BY <1>1, <1>2 DEF RequestOK
<1>. HIDE DEF old
<1>4. /\ page \in EditorType /\ page.pc = "editing" /\ page.base = old.base
      /\ page.commands = old.commands /\ page.unsure
  BY <1>1 DEF Idle, EditorType
<1>. HIDE DEF page
<1>5. PageOK(revisions, e, page)
  BY <1>1, <1>3, <1>4 DEF PageOK
<1>. DEFINE q == [r EXCEPT !.awaited = FALSE]
<1>6. q \in SaveRequest /\ q.owner = e /\ ~q.awaited /\ q.base = r.base
  BY <1>1, <1>2 DEF SaveRequest
<1>. HIDE DEF q
<1>7. requests' = (requests \ {r}) \cup {q}
  BY <1>2 DEF q
<1>8. \A s \in requests' : s.owner = e => ~s.awaited /\ page.unsure /\ s.base <= Len(revisions)
  BY <1>1, <1>2, <1>4, <1>6, <1>7
<1>9. requests' \subseteq SaveRequest /\ \A s \in requests' : s.owner # e => s \in requests
  BY <1>1, <1>6, <1>7
<1>. QED BY <1>2, <1>4, <1>5, <1>8, <1>9, BackToEditing

LEMMA LoadStep ==
  ASSUME IInv, NEW e \in Editors, Load(e)
  PROVE  IInv'
<1>. DEFINE old == editors[e]
            page == [Idle(old) EXCEPT !.base = Len(revisions), !.commands = <<>>]
<1>1. /\ old \in EditorType
      /\ \A r \in requests : /\ r \in SaveRequest /\ r.base <= Len(revisions)
                             /\ r.owner = e => RequestOK(r, old)
  BY PageFacts
<1>2. /\ old.pc \in {"loading", "reloading"}
      /\ editors' = [editors EXCEPT ![e] = page]
      /\ UNCHANGED <<revisions, measurements, requests, edits, posted>>
  BY DEF Load, CommandsOnLoad
<1>3. Len(revisions) \in 1..MaxRevisions
  BY DEF IInv, TypeOK
<1>. HIDE DEF old
<1>4. /\ page \in EditorType /\ page.pc = "editing" /\ page.base = Len(revisions)
      /\ page.commands = <<>> /\ page.unsure = old.unsure
  <2>1. Len(revisions) \in 0..MaxRevisions /\ <<>> \in Seq(CommandType)
    BY <1>3, EmptySeq, EditingAssumption
  <2>. QED BY <1>1, <2>1, IdlePage DEF EditorType
<1>. HIDE DEF page
<1>5. PageOK(revisions, e, page)
  <2>1. Len(revisions) # 0 /\ Len(revisions) <= Len(revisions)
        /\ (Len(revisions) + 1)..Len(revisions) = {}
    BY <1>3, EditingAssumption
  <2>2. Pushed(revisions[Len(revisions)].openings, <<>>)
    BY EmptySeq DEF Pushed
  <2>. QED BY <1>4, <2>1, <2>2 DEF PageOK
<1>6. \A r \in requests' : r.owner = e => ~r.awaited /\ page.unsure /\ r.base <= Len(revisions)
  BY <1>1, <1>2, <1>4 DEF RequestOK
<1>7. requests' \subseteq SaveRequest /\ \A s \in requests' : s.owner # e => s \in requests
  BY <1>1, <1>2
<1>. QED BY <1>2, <1>4, <1>5, <1>6, <1>7, BackToEditing

LEMMA LoadFailsStep ==
  ASSUME IInv, NEW e \in Editors, LoadFails(e)
  PROVE  IInv'
<1>. DEFINE old == editors[e]
            page == [Idle(old) EXCEPT !.unsure = TRUE]
<1>1. /\ old \in EditorType /\ PageOK(revisions, e, old)
      /\ \A r \in requests : /\ r \in SaveRequest /\ r.base <= Len(revisions)
                             /\ r.owner = e => RequestOK(r, old)
  BY PageFacts
<1>2. /\ old.pc = "reloading" /\ editors' = [editors EXCEPT ![e] = page]
      /\ UNCHANGED <<revisions, measurements, requests, edits, posted>>
  BY DEF LoadFails
<1>. HIDE DEF old
<1>3. /\ page \in EditorType /\ page.pc = "editing" /\ page.base = old.base
      /\ page.commands = old.commands /\ page.unsure
  BY <1>1 DEF Idle, EditorType
<1>. HIDE DEF page
<1>4. PageOK(revisions, e, page)
  BY <1>1, <1>2, <1>3 DEF PageOK
<1>5. \A r \in requests' : r.owner = e => ~r.awaited /\ page.unsure /\ r.base <= Len(revisions)
  BY <1>1, <1>2, <1>3 DEF RequestOK
<1>6. requests' \subseteq SaveRequest /\ \A s \in requests' : s.owner # e => s \in requests
  BY <1>1, <1>2
<1>. QED BY <1>2, <1>3, <1>4, <1>5, <1>6, BackToEditing

-----------------------------------------------------------------------------
(* The API's steps *)

LEMMA ClientCommandTyped ==
  ASSUME IInv, NEW c \in ClientCommands
  PROVE  c \in CommandType
<1>. DEFINE rows == revisions[Len(revisions)].openings
<1>1. rows \in Seq(Opening)
  <2>1. Len(revisions) \in 1..Len(revisions)
    BY DEF IInv, TypeOK
  <2>. QED BY <2>1, RevisionTypes DEF IInv
<1>2. PICK o \in ToSet(rows) :
        \/ c = [Command("rehost", o.id) EXCEPT !.host = IF o.host = "wall" THEN "none" ELSE "wall"]
        \/ c = [Command("verify", o.id) EXCEPT !.more = TRUE]
  BY DEF ClientCommands
<1>. HIDE DEF rows
<1>3. o \in Opening
  <2>1. PICK i \in DOMAIN rows : o = rows[i]
    BY DEF ToSet
  <2>. QED BY <1>1, <2>1, LenProperties
<1>4. o.id \in Ids
  BY <1>3 DEF Opening
<1>. QED BY <1>2, <1>4 DEF Command, CommandType, Dimensions

\* A step after which no page is another.
LEMMA RequestsStep ==
  ASSUME IInv, UNCHANGED <<revisions, measurements, editors, edits>>,
         posted' \in 0..MaxClient, requests' \subseteq SaveRequest,
         \A r \in requests' : \/ r \in requests
                              \/ r.owner = None /\ ~r.awaited /\ r.base <= Len(revisions)
  PROVE  IInv'
<1>1. TypeOK' /\ RevisionInv' /\ VerifiedHasProvenance'
  BY DEF IInv, TypeOK, RevisionInv, VerifiedHasProvenance
<1>2. PageInv'
  BY DEF IInv, PageInv
<1>3. NoticeIsTrue'
  BY NoticeOfEach, NoticeOfEachNext DEF IInv
<1>4. RequestInv'
  BY DEF IInv, RequestInv
<1>. QED BY <1>1, <1>2, <1>3, <1>4 DEF IInv

LEMMA ClientPostStep ==
  ASSUME IInv, NEW c \in ClientCommands, ClientPost(c)
  PROVE  IInv'
<1>. DEFINE q == [owner |-> None, awaited |-> FALSE, base |-> Len(revisions), commands |-> <<c>>]
<1>1. Len(revisions) \in 1..MaxRevisions /\ Len(revisions) <= Len(revisions)
  BY DEF IInv, TypeOK
<1>2. <<c>> \in Seq(CommandType)
  BY ClientCommandTyped
<1>3. q \in SaveRequest /\ q.owner = None /\ ~q.awaited /\ q.base <= Len(revisions)
  BY <1>1, <1>2 DEF SaveRequest
<1>4. /\ requests' = requests \cup {q} /\ posted' = posted + 1 /\ posted < MaxClient
      /\ UNCHANGED <<revisions, measurements, editors, edits>>
  BY DEF ClientPost
<1>. HIDE DEF q
<1>5. posted' \in 0..MaxClient
  BY <1>4, EditingAssumption DEF IInv, TypeOK
<1>6. requests' \subseteq SaveRequest
  BY <1>3, <1>4 DEF IInv, TypeOK
<1>. QED BY <1>3, <1>4, <1>5, <1>6, RequestsStep

LEMMA RefuseSaveStep ==
  ASSUME IInv, NEW r \in requests, RefuseSave(r)
  PROVE  IInv'
<1>1. requests' = requests \ {r} /\ UNCHANGED <<revisions, measurements, edits, posted>>
  BY DEF RefuseSave
<1>2. requests \subseteq SaveRequest /\ posted \in 0..MaxClient
  BY DEF IInv, TypeOK
<1>3. CASE ~r.awaited
  <2>1. UNCHANGED editors
    BY <1>3 DEF RefuseSave, Answer
  <2>. QED BY <1>1, <1>2, <2>1, RequestsStep
<1>4. CASE r.awaited
  <2>. DEFINE e == r.owner
              old == editors[e]
  <2>1. e \in Editors
    BY <1>4 DEF IInv, RequestInv
  <2>. HIDE DEF e
  <2>2. /\ old \in EditorType /\ PageOK(revisions, e, old)
        /\ \A s \in requests : /\ s \in SaveRequest /\ s.base <= Len(revisions)
                               /\ s.owner = e => RequestOK(s, old)
        /\ \A s, t \in requests : s.awaited /\ t.awaited /\ s.owner = t.owner => s = t
        /\ edits \in 0..MaxEdits
    BY <2>1, PageFacts
  <2>3. RequestOK(r, old)
    BY <2>2 DEF e
  <2>4. old.pc = "saving" /\ old.base = r.base
    BY <1>4, <2>3 DEF RequestOK
  <2>5. ASSUME NEW s \in requests', s.owner = e
        PROVE  ~s.awaited /\ old.unsure /\ s.base <= Len(revisions)
    <3>1. s \in requests /\ s # r
      BY <1>1
    <3>2. ~s.awaited
      BY <1>4, <2>2, <2>5, <3>1 DEF e
    <3>. QED BY <2>2, <2>5, <3>1, <3>2 DEF RequestOK
  <2>6. requests' \subseteq SaveRequest /\ \A s \in requests' : s.owner # e => s \in requests
    BY <1>1, <1>2
  <2>7. CASE Stale(r)
    <3>. DEFINE page == [old EXCEPT !.pc = "reloading", !.notice = "conflict"]
    <3>1. editors' = [editors EXCEPT ![e] = page]
      BY <1>4, <2>7 DEF RefuseSave, Answer, e
    <3>. HIDE DEF old
    <3>2. /\ page \in EditorType /\ page.pc = "reloading" /\ page.notice = "conflict"
          /\ page.base = old.base /\ page.commands = old.commands /\ page.unsure = old.unsure
      BY <2>2 DEF EditorType
    <3>. HIDE DEF page
    <3>3. PageOK(revisions, e, page)
      BY <2>2, <2>4, <3>2 DEF PageOK
    <3>4. page.unsure \/ \E n \in (page.base + 1)..Len(revisions) : revisions[n].author # e
      <4>1. Len(revisions) \in Nat /\ page.base \in Nat
        BY <2>2, <3>2 DEF IInv, TypeOK, EditorType
      <4>2. page.base <= Len(revisions) /\ page.base # Len(revisions)
        BY <2>2, <2>4, <2>7, <3>2 DEF PageOK, Stale
      <4>3. Len(revisions) \in (page.base + 1)..Len(revisions)
        BY <4>1, <4>2
      <4>4. page.unsure \/ \A n \in (page.base + 1)..Len(revisions) : revisions[n].author # e
        BY <3>2, <3>3 DEF PageOK
      <4>. QED BY <4>3, <4>4
    <3>5. NoticeOK(revisions, e, page)
      BY <3>2, <3>4 DEF NoticeOK
    <3>6. \A s \in requests' : s.owner = e => RequestOK(s, page) /\ s.base <= Len(revisions)
      BY <2>5, <3>2 DEF RequestOK
    <3>7. edits' \in 0..MaxEdits /\ posted' \in 0..MaxClient
      BY <1>1, <1>2, <2>2
    <3>8. \A s, t \in requests' : s.awaited /\ t.awaited /\ s.owner = e /\ t.owner = e => s = t
      BY <2>5
    <3>. QED BY <1>1, <2>1, <2>6, <3>1, <3>2, <3>3, <3>5, <3>6, <3>7, <3>8, EditorStep
  <2>8. CASE ~Stale(r)
    <3>. DEFINE page == Idle(old)
    <3>1. editors' = [editors EXCEPT ![e] = page]
      BY <1>4, <2>8 DEF RefuseSave, Answer, e
    <3>. HIDE DEF old
    <3>2. /\ page \in EditorType /\ page.pc = "editing" /\ page.base = old.base
          /\ page.commands = old.commands /\ page.unsure = old.unsure
      BY <2>2, IdlePage
    <3>. HIDE DEF page
    <3>3. PageOK(revisions, e, page)
      BY <2>2, <2>4, <3>2 DEF PageOK
    <3>4. \A s \in requests' : s.owner = e =>
            ~s.awaited /\ page.unsure /\ s.base <= Len(revisions)
      BY <2>5, <3>2
    <3>. QED BY <1>1, <2>1, <2>6, <3>1, <3>2, <3>3, <3>4, BackToEditing
  <2>. QED BY <2>7, <2>8
<1>. QED BY <1>3, <1>4

\* A new revision is a stutter for the pages on the ones before it.
LEMMA GrownRevisions ==
  ASSUME NEW revs \in Seq(Revision), NEW v \in Revision
  PROVE  /\ Append(revs, v) \in Seq(Revision) /\ Len(Append(revs, v)) = Len(revs) + 1
         /\ Len(revs) \in Nat /\ DOMAIN Append(revs, v) = 1..(Len(revs) + 1)
         /\ Append(revs, v)[Len(revs)+1] = v
         /\ \A n \in 1..Len(revs) : Append(revs, v)[n] = revs[n]
<1>. DEFINE t == Append(revs, v)
<1>1. /\ t \in Seq(Revision) /\ Len(t) = Len(revs) + 1 /\ t[Len(revs)+1] = v
      /\ \A n \in 1..Len(revs) : t[n] = revs[n]
  BY AppendProperties
<1>. HIDE DEF t
<1>2. DOMAIN t = 1..(Len(revs) + 1) /\ Len(revs) \in Nat
  BY <1>1, LenProperties
<1>. QED BY <1>1, <1>2 DEF t

LEMMA GrownPage ==
  ASSUME NEW revs \in Seq(Revision), NEW v \in Revision, NEW e, NEW page \in EditorType,
         PageOK(revs, e, page),
         \/ v.author # e \/ page.unsure
         \/ page.pc = "reloading" /\ page.notice # "conflict"
  PROVE  PageOK(Append(revs, v), e, page)
<1>. DEFINE t == Append(revs, v)
<1>1. /\ Len(t) = Len(revs) + 1 /\ Len(revs) \in Nat /\ t[Len(revs)+1] = v
      /\ \A n \in 1..Len(revs) : t[n] = revs[n]
  BY GrownRevisions
<1>. HIDE DEF t
<1>2. page.base \in Nat /\ page.base <= Len(revs)
  BY DEF PageOK, EditorType
<1>3. page.base # 0 => t[page.base] = revs[page.base]
  BY <1>1, <1>2
<1>4. ASSUME ~page.unsure, ~(page.pc = "reloading" /\ page.notice # "conflict"),
             NEW n \in (page.base + 1)..Len(t)
      PROVE  t[n].author # e
  <2>1. CASE n = Len(revs) + 1
    BY <1>1, <1>4, <2>1
  <2>2. CASE n # Len(revs) + 1
    <3>1. n \in (page.base + 1)..Len(revs) /\ n \in 1..Len(revs)
      BY <1>1, <1>2, <2>2
    <3>2. revs[n].author # e
      BY <1>4, <3>1 DEF PageOK
    <3>. QED BY <1>1, <3>1, <3>2
  <2>. QED BY <2>1, <2>2
<1>. QED BY <1>1, <1>2, <1>3, <1>4 DEF PageOK, t

LEMMA GrownNotice ==
  ASSUME NEW revs \in Seq(Revision), NEW v \in Revision, NEW e, NEW page \in EditorType,
         PageOK(revs, e, page), NoticeOK(revs, e, page)
  PROVE  NoticeOK(Append(revs, v), e, page)
<1>. DEFINE t == Append(revs, v)
<1>1. /\ Len(t) = Len(revs) + 1 /\ Len(revs) \in Nat
      /\ \A n \in 1..Len(revs) : t[n] = revs[n]
  BY GrownRevisions
<1>. HIDE DEF t
<1>2. page.base \in Nat /\ page.base <= Len(revs)
  BY DEF PageOK, EditorType
<1>3. SUFFICES ASSUME page.pc = "reloading" PROVE NoticeOK(t, e, page)
  BY DEF NoticeOK, t
<1>4. page.base \in 1..Len(revs) /\ t[page.base] = revs[page.base]
  BY <1>1, <1>2, <1>3 DEF PageOK
<1>5. page.base < Len(revs) => page.base < Len(t) /\ t[page.base+1] = revs[page.base+1]
  BY <1>1, <1>2
<1>6. \A n \in (page.base + 1)..Len(revs) : n \in (page.base + 1)..Len(t) /\ t[n] = revs[n]
  BY <1>1, <1>2
<1>. QED BY <1>3, <1>4, <1>5, <1>6 DEF NoticeOK

\* The reducer on the current revision.
LEMMA OutcomeHolds ==
  ASSUME IInv, NEW r \in requests, ~Stale(r), Outcome(r).ok
  PROVE  LET n == Len(revisions) + 1 IN
         /\ Outcome(r).openings \in Seq(Opening) /\ Outcome(r).measured \subseteq MeasurementsOf(n)
         /\ Outcome(r).unattached = Unattached(Outcome(r).openings)
         /\ Distinct(Outcome(r).openings)
         /\ \A i \in DOMAIN Outcome(r).openings :
              /\ Outcome(r).openings[i].id[1] \in 1..n
              /\ Outcome(r).openings[i].verified =>
                   \E m \in measurements \cup Outcome(r).measured :
                     m.id = Outcome(r).openings[i].id /\ m.revision <= n
<1>. DEFINE N == Len(revisions)
            n == N + 1
            rows == revisions[N].openings
            o == Reductions(rows, r.commands, n)[Len(r.commands)]
<1>1. N \in Nat \ {0} /\ N \in 1..N /\ n \in Nat \ {0} /\ DOMAIN revisions = 1..N
  BY RevisionTypes DEF IInv, TypeOK
<1>2. rows \in Seq(Opening) /\ DraftInv(rows, n, 0)
  BY <1>1, RevisionTypes DEF IInv
<1>3. r.commands \in Seq(CommandType) /\ r.base = N
  BY DEF IInv, TypeOK, SaveRequest, Stale
<1>4. ReductionInv(Reduced(rows), n, 0, measurements)
  <2>1. \A i \in DOMAIN rows : rows[i].id[1] \in 1..N
    BY <1>1 DEF IInv, RevisionInv
  <2>2. \A i \in DOMAIN rows : rows[i].id[1] \in 1..n /\ rows[i].id[1] # n
    BY <1>1, <2>1
  <2>3. ASSUME NEW i \in DOMAIN rows, rows[i].verified
        PROVE  \E m \in measurements : m.id = rows[i].id /\ m.revision <= n
    <3>1. PICK m \in measurements : m.id = rows[i].id /\ m.revision <= N
      BY <1>1, <2>3 DEF IInv, VerifiedHasProvenance
    <3>2. m.revision \in Nat
      BY DEF IInv, TypeOK
    <3>. QED BY <1>1, <3>1, <3>2
  <2>. HIDE DEF rows, n
  <2>. QED BY <1>2, <2>2, <2>3 DEF DraftInv, ReductionInv, Reduced
<1>5. /\ Outcome(r).ok = o.ok /\ Outcome(r).openings = o.openings
      /\ Outcome(r).measured = o.measured /\ Outcome(r).unattached = Unattached(o.openings)
  BY <1>3, ReduceIsLast DEF Outcome
<1>6. Len(r.commands) \in 0..Len(r.commands)
  BY <1>3, LenProperties
<1>. HIDE DEF rows, n
<1>7. o \in Reduction(n)
  <2>1. Reductions(rows, r.commands, n) \in [0..Len(r.commands) -> Reduction(n)]
    BY <1>1, <1>2, <1>3, ReductionsSteps
  <2>. QED BY <1>6, <2>1
<1>8. ReductionInv(o, n, Len(r.commands), measurements)
  BY <1>1, <1>2, <1>3, <1>4, <1>6, ReductionsHold
<1>. HIDE DEF o
<1>9. o.ok
  BY <1>5
<1>10. /\ Distinct(o.openings)
       /\ \A i \in DOMAIN o.openings :
            /\ o.openings[i].id[1] \in 1..n
            /\ o.openings[i].verified => \E m \in measurements \cup o.measured :
                 m.id = o.openings[i].id /\ m.revision <= n
  BY <1>8, <1>9 DEF ReductionInv
<1>11. o.openings \in Seq(Opening) /\ o.measured \subseteq MeasurementsOf(n)
  BY <1>7 DEF Reduction
<1>. QED BY <1>5, <1>10, <1>11 DEF n

LEMMA CommitSaveStep ==
  ASSUME IInv, NEW r \in requests, CommitSave(r)
  PROVE  IInv'
<1>. DEFINE N == Len(revisions)
            o == Outcome(r)
            v == [openings |-> o.openings, unattached |-> o.unattached, author |-> r.owner]
<1>1. /\ r.base = N /\ o.ok /\ N < MaxRevisions /\ requests' = requests \ {r}
      /\ revisions' = Append(revisions, v) /\ measurements' = measurements \cup o.measured
      /\ Answer(r, "saved") /\ UNCHANGED <<edits, posted>>
  BY DEF CommitSave, Stale
<1>2. /\ o.openings \in Seq(Opening) /\ o.measured \subseteq MeasurementsOf(N + 1)
      /\ o.unattached = Unattached(o.openings) /\ Distinct(o.openings)
      /\ \A i \in DOMAIN o.openings :
           /\ o.openings[i].id[1] \in 1..(N + 1)
           /\ o.openings[i].verified => \E m \in measurements \cup o.measured :
                m.id = o.openings[i].id /\ m.revision <= N + 1
  BY OutcomeHolds DEF CommitSave
<1>3. /\ revisions \in Seq(Revision) /\ N \in Nat /\ N \in 1..MaxRevisions
      /\ DOMAIN revisions = 1..N /\ r \in SaveRequest /\ requests \subseteq SaveRequest
      /\ editors \in [Editors -> EditorType]
  BY RevisionTypes DEF IInv, TypeOK
<1>. HIDE DEF o
<1>4. /\ v \in Revision /\ v.openings = o.openings /\ v.author = r.owner
      /\ v.unattached = Unattached(v.openings)
  <2>1. o.unattached \in SUBSET Ids
    <3>1. \A i \in DOMAIN o.openings : o.openings[i] \in Opening
      BY <1>2, LenProperties
    <3>2. \A i \in DOMAIN o.openings : o.openings[i].id \in Ids
      BY <3>1 DEF Opening
    <3>. QED BY <1>2, <3>2 DEF Unattached
  <2>. QED BY <1>2, <1>3, <2>1 DEF Revision, SaveRequest
<1>. HIDE DEF v
<1>5. /\ revisions' \in Seq(Revision) /\ Len(revisions') = N + 1
      /\ DOMAIN revisions' = 1..(N + 1) /\ revisions'[N+1] = v
      /\ \A n \in 1..N : revisions'[n] = revisions[n]
  BY <1>1, <1>3, <1>4, GrownRevisions
<1>. HIDE DEF N
<1>6. \A n \in 1..(N + 1) : n \in 1..N \/ n = N + 1
  BY <1>3
<1>7. RevisionInv'
  <2>1. \A n \in 1..(N + 1) : \A i \in DOMAIN revisions'[n].openings :
          revisions'[n].openings[i].id[1] \in 1..n
    BY <1>2, <1>3, <1>4, <1>5, <1>6 DEF IInv, RevisionInv
  <2>2. \A n \in 1..(N + 1) :
          n > 1 => revisions'[n].unattached = Unattached(revisions'[n].openings)
    BY <1>3, <1>4, <1>5, <1>6 DEF IInv, RevisionInv
  <2>3. \A n \in DOMAIN revisions' :
          n > 1 => revisions'[n].unattached = Unattached(revisions'[n].openings)
    BY <1>5, <2>2
  <2>. QED BY <1>5, <2>1, <2>3 DEF RevisionInv
<1>8. VerifiedHasProvenance'
  <2>1. ASSUME NEW n \in 1..(N + 1), NEW i \in DOMAIN revisions'[n].openings,
               revisions'[n].openings[i].verified
        PROVE  \E m \in measurements' : m.id = revisions'[n].openings[i].id /\ m.revision <= n
    <3>1. CASE n \in 1..N
      <4>1. revisions'[n] = revisions[n]
        BY <1>5, <3>1
      <4>2. \E m \in measurements : m.id = revisions[n].openings[i].id /\ m.revision <= n
        BY <1>3, <2>1, <3>1, <4>1 DEF IInv, VerifiedHasProvenance
      <4>. QED BY <1>1, <4>1, <4>2
    <3>2. CASE n = N + 1
      <4>1. revisions'[n].openings = o.openings
        BY <1>4, <1>5, <3>2
      <4>. QED BY <1>1, <1>2, <2>1, <3>2, <4>1
    <3>. QED BY <1>6, <3>1, <3>2
  <2>. QED BY <1>5, <2>1 DEF VerifiedHasProvenance
<1>9. measurements' \subseteq
        [id : Ids, size : Sizes \cup {"other"}, revision : 2..MaxRevisions]
  <2>1. N + 1 \in 2..MaxRevisions
    BY <1>1, <1>3, EditingAssumption
  <2>2. o.measured \subseteq [id : Ids, size : Sizes \cup {"other"}, revision : 2..MaxRevisions]
    BY <1>2, <2>1 DEF MeasurementsOf
  <2>. QED BY <1>1, <2>2 DEF IInv, TypeOK
<1>10. ASSUME NEW page \in EditorType, NEW e \in Editors, PageOK(revisions, e, page),
              NoticeOK(revisions, e, page), r.owner # e \/ page.unsure
       PROVE  PageOK(revisions', e, page) /\ NoticeOK(revisions', e, page)
  BY <1>1, <1>3, <1>4, <1>10, GrownPage, GrownNotice
<1>11. \A e \in Editors :
         /\ editors[e] \in EditorType /\ PageOK(revisions, e, editors[e])
         /\ NoticeOK(revisions, e, editors[e])
  BY PageFacts
<1>12. r.owner # None => RequestOK(r, editors[r.owner])
  BY DEF IInv, RequestInv
<1>13. \A s \in requests' : s \in requests /\ s # r /\ s.base <= N
  BY <1>1 DEF IInv, RequestInv, N
<1>14. TypeOK' /\ PageInv' /\ NoticeIsTrue' /\ RequestInv'
  <2>0. ASSUME editors' \in [Editors -> EditorType],
               \A e \in Editors : PageOK(revisions', e, editors'[e])
                                  /\ NoticeOK(revisions', e, editors'[e]),
               \A s \in requests' : s.owner # None => RequestOK(s, editors'[s.owner])
        PROVE  TypeOK' /\ PageInv' /\ NoticeIsTrue' /\ RequestInv'
    <3>1. \A n \in 1..(N + 1) : \A i, j \in DOMAIN revisions'[n].openings :
            revisions'[n].openings[i].id = revisions'[n].openings[j].id => i = j
      <4>1. \A n \in 1..N : \A i, j \in DOMAIN revisions[n].openings :
              revisions[n].openings[i].id = revisions[n].openings[j].id => i = j
        BY <1>3 DEF IInv, TypeOK
      <4>2. \A i, j \in DOMAIN o.openings : o.openings[i].id = o.openings[j].id => i = j
        BY <1>2 DEF Distinct
      <4>. QED BY <1>4, <1>5, <1>6, <4>1, <4>2
    <3>2. N + 1 \in 1..MaxRevisions
      BY <1>1, <1>3, EditingAssumption
    <3>3. TypeOK'
      BY <1>1, <1>5, <1>9, <2>0, <3>1, <3>2 DEF IInv, TypeOK
    <3>4. PageInv'
      BY <2>0 DEF PageInv
    <3>5. NoticeIsTrue'
      BY <2>0, NoticeOfEachNext
    <3>6. \A s \in requests' : s.base <= Len(revisions')
      <4>1. \A s \in requests' : s.base \in Nat
        BY <1>3, <1>13, EditingAssumption DEF SaveRequest
      <4>. QED BY <1>3, <1>5, <1>13, <4>1
    <3>7. RequestInv'
      BY <1>13, <2>0, <3>6 DEF IInv, RequestInv
    <3>. QED BY <3>3, <3>4, <3>5, <3>7
  <2>1. CASE ~r.awaited
    <3>1. editors' = editors
      BY <1>1, <2>1 DEF Answer
    <3>2. \A e \in Editors : r.owner # e \/ editors[e].unsure
      <4>1. None \notin Editors
        BY EditingAssumption
      <4>. QED BY <1>12, <2>1, <4>1 DEF RequestOK
    <3>3. \A e \in Editors : PageOK(revisions', e, editors[e]) /\ NoticeOK(revisions', e, editors[e])
      BY <1>10, <1>11, <3>2
    <3>4. \A s \in requests' : s.owner # None => RequestOK(s, editors[s.owner])
      BY <1>13 DEF IInv, RequestInv
    <3>. QED BY <1>3, <2>0, <3>1, <3>3, <3>4
  <2>2. CASE r.awaited
    <3>. DEFINE e == r.owner
                old == editors[e]
                page == [old EXCEPT !.pc = "reloading", !.notice = "saved"]
    <3>1. e \in Editors /\ e # None
      BY <2>2, EditingAssumption DEF IInv, RequestInv
    <3>2. editors' = [editors EXCEPT ![e] = page]
      BY <1>1, <2>2 DEF Answer
    <3>3. RequestOK(r, old) /\ old \in EditorType /\ PageOK(revisions, e, old)
      BY <1>11, <1>12, <3>1
    <3>4. /\ old.pc = "saving" /\ old.base = N
          /\ ~old.touched => old.commands = r.commands
      BY <1>1, <2>2, <3>3 DEF RequestOK
    <3>5. old.base # 0 /\ (~old.touched => SameRows(o.openings, Replay(revisions[N].openings, old.commands)))
      <4>1. editors[e].base # 0
        BY <1>3, <3>4
      <4>2. SUFFICES ASSUME ~old.touched
                     PROVE  SameRows(o.openings, Replay(revisions[N].openings, old.commands))
        BY <4>1
      <4>3. o = Reduce(revisions[N].openings, old.commands, N + 1)
        BY <1>1, <3>4, <4>2 DEF o, Outcome, N
      <4>4. Draft(e) = Replay(revisions[N].openings, old.commands)
        BY <3>4 DEF Draft
      <4>5. Reduce(revisions[N].openings, old.commands, N + 1).ok =>
              SameRows(Reduce(revisions[N].openings, old.commands, N + 1).openings, Draft(e))
        BY <3>1, <3>4, <4>1, PageList DEF IInv
      <4>. QED BY <1>1, <4>3, <4>4, <4>5
    <3>. HIDE DEF old, e
    <3>6. /\ page \in EditorType /\ page.pc = "reloading" /\ page.notice = "saved"
          /\ page.base = old.base /\ page.commands = old.commands
          /\ page.unsure = old.unsure /\ page.touched = old.touched
      BY <3>3 DEF EditorType
    <3>. HIDE DEF page
    <3>7. PageOK(revisions', e, page)
      <4>1. PageOK(revisions, e, page)
        BY <3>3, <3>4, <3>5, <3>6 DEF PageOK
      <4>. QED BY <1>1, <1>3, <1>4, <3>6, <4>1, GrownPage
    <3>8. NoticeOK(revisions', e, page)
      <4>1. page.base = N /\ page.base < Len(revisions')
        BY <1>3, <1>5, <3>4, <3>6
      <4>2. revisions'[page.base+1].openings = o.openings /\ revisions'[page.base+1].author = e
        BY <1>4, <1>5, <4>1 DEF e
      <4>3. revisions'[page.base] = revisions[N]
        BY <1>3, <1>5, <4>1
      <4>. QED BY <3>5, <3>6, <4>1, <4>2, <4>3 DEF NoticeOK
    <3>9. editors'[e] = page /\ \A f \in Editors \ {e} : editors'[f] = editors[f]
      BY <1>3, <3>1, <3>2
    <3>10. editors' \in [Editors -> EditorType]
      BY <1>3, <3>2, <3>6
    <3>11. \A f \in Editors : PageOK(revisions', f, editors'[f]) /\ NoticeOK(revisions', f, editors'[f])
      <4>1. ASSUME NEW f \in Editors, f # e
            PROVE  PageOK(revisions', f, editors[f]) /\ NoticeOK(revisions', f, editors[f])
        BY <1>10, <1>11, <4>1 DEF e
      <4>. QED BY <3>7, <3>8, <3>9, <4>1
    <3>12. ASSUME NEW s \in requests', s.owner # None PROVE RequestOK(s, editors'[s.owner])
      <4>1. s \in requests /\ s # r /\ RequestOK(s, editors[s.owner]) /\ s.owner \in Editors
        BY <1>3, <1>13, <3>12 DEF IInv, RequestInv, SaveRequest
      <4>2. CASE s.owner # e
        BY <3>9, <4>1, <4>2
      <4>3. CASE s.owner = e
        <5>1. ~s.awaited
          BY <2>2, <4>1, <4>3 DEF IInv, RequestInv, e
        <5>2. page.unsure
          BY <3>6, <4>1, <4>3, <5>1 DEF RequestOK, old
        <5>. QED BY <3>9, <4>3, <5>1, <5>2 DEF RequestOK
      <4>. QED BY <4>2, <4>3
    <3>. QED BY <2>0, <3>10, <3>11, <3>12
  <2>. QED BY <2>1, <2>2
<1>. QED BY <1>7, <1>8, <1>14 DEF IInv

-----------------------------------------------------------------------------
(* The theorems *)

LEMMA InitIInv == Init => IInv
<1>. SUFFICES ASSUME Init PROVE IInv
  OBVIOUS
<1>. DEFINE first == [openings |-> Import, unattached |-> Reported, author |-> None]
<1>1. /\ Import \in Seq(Opening) /\ MaxRevisions \in Nat \ {0} /\ MaxEdits \in Nat /\ MaxClient \in Nat
      /\ \A i \in DOMAIN Import : Import[i].id = <<1, i>> /\ ~Import[i].verified
  BY EditingAssumption
<1>2. first \in Revision
  BY <1>1, EditingAssumption DEF Revision
<1>3. revisions = <<first>> /\ revisions \in Seq(Revision) /\ Len(revisions) = 1
      /\ DOMAIN revisions = {1} /\ revisions[1] = first
  BY <1>2 DEF Init
<1>. HIDE DEF first
<1>4. first.openings = Import
  BY DEF first
<1>5. NewPage \in EditorType /\ NewPage.base = 0 /\ NewPage.pc = "loading" /\ NewPage.commands = <<>>
      /\ ~NewPage.unsure
  BY <1>1, EmptySeq DEF NewPage, EditorType
<1>6. \A e \in Editors : editors[e] = NewPage
  BY DEF Init
<1>7. TypeOK
  <2>1. \A i, j \in DOMAIN Import : Import[i].id = Import[j].id => i = j
    <3>1. \A i, j \in DOMAIN Import : <<1, i>> = <<1, j>> => i = j
      OBVIOUS
    <3>. QED BY <1>1, <3>1
  <2>2. editors \in [Editors -> EditorType]
    BY <1>5 DEF Init
  <2>3. Len(revisions) \in 1..MaxRevisions /\ edits \in 0..MaxEdits /\ posted \in 0..MaxClient
    BY <1>1, <1>3 DEF Init
  <2>. QED BY <1>3, <1>4, <2>1, <2>2, <2>3 DEF Init, TypeOK
<1>8. RevisionInv
  <2>1. \A i \in DOMAIN Import : Import[i].id[1] \in 1..1
    BY <1>1
  <2>2. \A n \in DOMAIN revisions : ~(n > 1)
    BY <1>3
  <2>. QED BY <1>3, <1>4, <2>1, <2>2 DEF RevisionInv
<1>9. PageInv
  <2>1. \A e \in Editors : PageOK(revisions, e, NewPage)
    <3>1. ASSUME NEW e \in Editors, NEW n \in 1..Len(revisions) PROVE revisions[n].author # e
      <4>1. n = 1 /\ first.author = None /\ e # None
        BY <1>3, EditingAssumption DEF first
      <4>. QED BY <1>3, <4>1
    <3>. QED BY <1>3, <1>5, <3>1 DEF PageOK
  <2>. QED BY <1>6, <2>1 DEF PageInv
<1>10. RequestInv
  BY DEF Init, RequestInv
<1>11. NoticeIsTrue
  BY <1>5, <1>6 DEF NoticeIsTrue
<1>12. VerifiedHasProvenance
  BY <1>1, <1>3, <1>4 DEF VerifiedHasProvenance
<1>. QED BY <1>7, <1>8, <1>9, <1>10, <1>11, <1>12 DEF IInv

LEMMA NextIInv == IInv /\ [Next]_vars => IInv'
<1>. SUFFICES ASSUME IInv, [Next]_vars PROVE IInv'
  OBVIOUS
<1>1. ASSUME NEW e \in Editors, PageStep(e) PROVE IInv'
  BY <1>1, PushStep, UndoStep, SaveStep, LoseAnswerStep, LoadStep, LoadFailsStep DEF PageStep
<1>2. ASSUME NEW c \in ClientCommands, ClientPost(c) PROVE IInv'
  BY <1>2, ClientPostStep
<1>3. ASSUME NEW r \in requests, RefuseSave(r) \/ CommitSave(r) PROVE IInv'
  BY <1>3, RefuseSaveStep, CommitSaveStep
<1>4. CASE UNCHANGED vars
  <2>1. UNCHANGED <<revisions, measurements, editors, edits>> /\ requests' = requests
        /\ posted' = posted
    BY <1>4 DEF vars
  <2>2. posted' \in 0..MaxClient /\ requests' \subseteq SaveRequest
    BY <2>1 DEF IInv, TypeOK
  <2>. QED BY <2>1, <2>2, RequestsStep
<1>. QED BY <1>1, <1>2, <1>3, <1>4 DEF Next

\* The inductive invariant holds in every reachable state.
THEOREM EditingInvariance == Spec => []IInv
  BY InitIInv, NextIInv, PTL DEF Spec

\* Pages, requests and revisions keep their declared shape, for any number of
\* pages, openings, commands and foreign edits.
THEOREM EditingTypeCorrect == Spec => []TypeOK
<1>1. IInv => TypeOK
  BY DEF IInv
<1>. QED BY <1>1, EditingInvariance, PTL

\* A page's list, unless it verifies what has no dimension, is one that
\* applyCommands accepts on the page's revision and turns into the rows that the
\* page's own replay shows; on a saved revision the findings shown are those that
\* applyCommands writes, but for openings that the list adds or removes.
THEOREM PreviewsAreHonest == Spec => []PreviewIsHonest
  BY EditingInvariance, IInvPreview, PTL

\* The page says that a save is saved, or that the plan was changed elsewhere,
\* only if it is so, whichever answers were lost and whoever saved in between.
THEOREM NoticesAreTrue == Spec => []NoticeIsTrue
<1>1. IInv => NoticeIsTrue
  BY DEF IInv
<1>. QED BY <1>1, EditingInvariance, PTL

\* verifyOpening marks an opening only together with a measurement of it, which
\* stays on record in that revision or an earlier one.
THEOREM VerifiedOpeningsAreMeasured == Spec => []VerifiedHasProvenance
<1>1. IInv => VerifiedHasProvenance
  BY DEF IInv
<1>. QED BY <1>1, EditingInvariance, PTL
=============================================================================
