----------------------------- MODULE RoomGeometry -----------------------------
(***************************************************************************)
(* Normalization of one captured room: its walls as plan segments, the     *)
(* boundary assembled from them, and the two formatters that show the      *)
(* width of an opening in feet and inches.                                 *)
(*                                                                         *)
(* A capture grows wall by wall and opening by opening; what the worker    *)
(* makes of it is a function of the capture.  Transforms are replaced by   *)
(* the end points they give, on a grid of 4 cm: points at distance one are *)
(* within the tolerance of 5 cm and no others are, and half a square of    *)
(* the grid, 8 cm2, is the one area that is not 0 and yet too small to be  *)
(* a room.  Widths are sixteenths of an inch.                              *)
(*                                                                         *)
(* The specification's parts are named after the capture, so that one      *)
(* module of proofs can extend this module beside MediaLifecycle.          *)
(***************************************************************************)
EXTENDS Integers, Sequences, FiniteSets, SequencesExt, FiniteSetsExt

CONSTANTS
  Segments,     \* segments of captured walls: pairs of points
  Widths,       \* widths of captured openings
  MaxSurfaces   \* surfaces of a capture, an opening and a wall whose identifier
                \* another has counting as two (bound)

VARIABLES walls, openings

captured == <<walls, openings>>

ASSUME GeometryAssumption ==
  /\ Widths \subseteq Nat \ {0} /\ MaxSurfaces \in Nat
  /\ Segments \subseteq (Int \X Int) \X (Int \X Int)

\* A wall without a transform or a width lies at <<>>.
Wall == [id : 1..MaxSurfaces, at : Segments \cup {<<>>}]

CaptureOK == walls \in Seq(Wall) /\ openings \in Seq(Widths)

CaptureInit == walls = <<>> /\ openings = <<>>

Identifiers == { walls[i].id : i \in DOMAIN walls }
Surfaces == 2 * Len(walls) - Cardinality(Identifiers) + 2 * Len(openings)

\* The identifier, in lower case, is new (its number is the wall's) or one that
\* another wall has.
CaptureWall(w) ==
  /\ openings = <<>> /\ w.id \in Identifiers \cup {Len(walls) + 1}
  /\ walls' = Append(walls, w) /\ UNCHANGED openings
  /\ Surfaces' <= MaxSurfaces

\* An opening with its transform and dimensions, of which only the width counts.
CaptureOpening(width) ==
  /\ openings' = Append(openings, width) /\ UNCHANGED walls
  /\ Surfaces' <= MaxSurfaces

CaptureNext ==
  \/ \E w \in Wall : CaptureWall(w)
  \/ \E width \in Widths : CaptureOpening(width)

CaptureSpec == CaptureInit /\ [][CaptureNext]_captured

-----------------------------------------------------------------------------
(* assembleClosedLoop *)

Near(p, q) == (p[1] - q[1]) * (p[1] - q[1]) + (p[2] - q[2]) * (p[2] - q[2]) <= 1

\* A point within the tolerance of a node is that node.
NodeOf(nodes, p) == { i \in DOMAIN nodes : Near(nodes[i], p) }
WithNode(nodes, p) == IF NodeOf(nodes, p) # {} THEN nodes ELSE Append(nodes, p)

\* The nodes of the first i segments.
Clusters(segments) ==
  LET nodes[i \in 0..Len(segments)] ==
        IF i = 0 THEN <<>>
        ELSE WithNode(WithNode(nodes[i-1], segments[i][1]), segments[i][2])
  IN nodes
Nodes(segments) == Clusters(segments)[Len(segments)]

Edges(segments) ==
  LET nodes == Nodes(segments) IN
  [i \in DOMAIN segments |-> [a |-> Min(NodeOf(nodes, segments[i][1])),
                              b |-> Min(NodeOf(nodes, segments[i][2]))]]

Degree(edges, n) ==
  Cardinality({ i \in DOMAIN edges : edges[i].a = n })
    + Cardinality({ i \in DOMAIN edges : edges[i].b = n })

Leaving(edges, used, n) ==
  { i \in DOMAIN edges \ used : n \in {edges[i].a, edges[i].b} }

\* One step of the walk: the first unused edge at the current node.
Walked(edges, walk) ==
  LET at == Last(walk.order)
      next == Leaving(edges, walk.used, at)
      e == edges[Min(next)]
  IN IF next = {} THEN walk
     ELSE [used |-> walk.used \cup {Min(next)},
           order |-> Append(walk.order, IF e.a = at THEN e.b ELSE e.a)]

Walks(edges) ==
  LET walk[i \in 0..Len(edges)] ==
        IF i = 0 THEN [used |-> {}, order |-> <<edges[1].a>>] ELSE Walked(edges, walk[i-1])
  IN walk
Walk(edges) == Walks(edges)[Len(edges)]

\* signedArea, doubled.
Cross(p, q) == p[1] * q[2] - q[1] * p[2]
Following(polygon, i) == IF i = Len(polygon) THEN 1 ELSE i + 1
Areas(polygon) ==
  LET sum[i \in 0..Len(polygon)] ==
        IF i = 0 THEN 0
        ELSE sum[i-1] + Cross(polygon[i], polygon[Following(polygon, i)])
  IN sum
Shoelace(polygon) == Areas(polygon)[Len(polygon)]

\* Mistake: the winding of the walk is kept.
AsWalked(polygon) == polygon
EnsureCcw(polygon) == IF Shoelace(polygon) > 0 THEN polygon ELSE Reverse(polygon)
\* polygonAreaM2 within EPSILON_LENGTH_M, 10 cm2, of 0.
NearZero(polygon) == Shoelace(polygon) \in -1..1
Unprocessed(reason) == [ok |-> FALSE, reason |-> reason, polygon |-> <<>>]

\* Mistake: the walk need not have used every wall.
VisitsSome(edges, walk) == TRUE
VisitsAll(edges, walk) == walk.used = DOMAIN edges

AssembleClosedLoop(segments) ==
  LET nodes == Nodes(segments)
      edges == Edges(segments)
      walk == Walk(edges)
      polygon == [i \in 1..(Len(walk.order) - 1) |-> nodes[walk.order[i]]]
  IN IF Len(segments) < 3 THEN Unprocessed("fewer_than_three_segments")
     ELSE IF \E i \in DOMAIN edges : edges[i].a = edges[i].b
       THEN Unprocessed("degenerate_segment")
     ELSE IF \E n \in DOMAIN nodes : Degree(edges, n) # 2
       THEN Unprocessed("open_or_branching_corners")
     ELSE IF Len(nodes) # Len(segments) THEN Unprocessed("corner_segment_count_mismatch")
     ELSE IF ~VisitsAll(edges, walk) THEN Unprocessed("disconnected_segments")
     ELSE IF walk.order[1] # Last(walk.order) THEN Unprocessed("loop_does_not_close")
     ELSE IF Shoelace(polygon) = 0 THEN Unprocessed("degenerate_polygon")
     ELSE IF NearZero(EnsureCcw(polygon)) THEN Unprocessed("near_zero_area")
     ELSE [ok |-> TRUE, reason |-> "none", polygon |-> EnsureCcw(polygon)]

-----------------------------------------------------------------------------
(* normalizeGeometry *)

\* The map of segments, keyed by identifier: a second wall of one identifier takes
\* the place of the first.
Entered(entries, w) ==
  IF \E i \in DOMAIN entries : entries[i].id = w.id
  THEN [i \in DOMAIN entries |-> IF entries[i].id = w.id THEN w ELSE entries[i]]
  ELSE Append(entries, w)

IsPlaced(w) == w.at # <<>>
\* The map after the first i walls.
Placed ==
  LET placed[i \in 0..Len(walls)] ==
        IF i = 0 THEN <<>>
        ELSE IF IsPlaced(walls[i]) THEN Entered(placed[i-1], walls[i]) ELSE placed[i-1]
  IN placed
Entries == Placed[Len(walls)]
WallSegments == [i \in DOMAIN Entries |-> Entries[i].at]

-----------------------------------------------------------------------------
(* Feet and inches: formatFeetInches in the schedules, toFeetInches on the page *)

\* Math.round to eighths of an inch.
Eighths(width) == (width + 1) \div 2

FormatFeetInches(width) ==
  LET feet == Eighths(width) \div 96
      rest == Eighths(width) - 96 * feet
      inches == rest \div 8
      numerator == rest - 8 * inches
      gcd == Max({ d \in 1..8 : 8 % d = 0 /\ numerator % d = 0 })
  IN [feet |-> feet, inches |-> inches,
      fraction |-> IF numerator = 0 THEN <<>> ELSE <<numerator \div gcd, 8 \div gcd>>]

\* Mistake: two quarters stay two quarters.
QuartersAsCounted(eighths) == <<eighths \div 2, 4>>
\* Quarters, with 2/4 replaced by 1/2.
Quarters(eighths) == IF eighths = 4 THEN <<1, 2>> ELSE <<eighths \div 2, 4>>

ToFeetInches(width) ==
  LET feet == Eighths(width) \div 96
      inches == (Eighths(width) - 96 * feet) \div 8
      eighths == Eighths(width) - 96 * feet - 8 * inches
  IN [feet |-> feet, inches |-> inches,
      fraction |-> IF eighths = 0 THEN <<>>
                   ELSE IF eighths % 2 = 0 THEN Quarters(eighths) ELSE <<eighths, 8>>]

-----------------------------------------------------------------------------
(* Properties *)

\* Reference, on the end points as captured: a corner is the ends near one another.
Ends(segments) ==
  { segments[i][1] : i \in DOMAIN segments } \cup { segments[i][2] : i \in DOMAIN segments }
Corner(ends, p) == { q \in ends : Near(p, q) }

\* No tolerances are chained: which ends are one corner is not in doubt.
Clear(ends) ==
  \A p, q, r \in ends : Near(p, q) /\ Near(q, r) => Near(p, r)

\* The walls are one ring: each leads from one corner to another, every corner
\* ends two, and no set of corners is cut off from the others.
IsRing(segments) ==
  LET ends == Ends(segments)
      corners == { Corner(ends, p) : p \in ends }
      From(i) == Corner(ends, segments[i][1])
      To(i) == Corner(ends, segments[i][2])
  IN /\ Len(segments) >= 3
     /\ \A i \in DOMAIN segments : From(i) # To(i)
     /\ \A c \in corners : Cardinality({ i \in DOMAIN segments : From(i) = c })
                            + Cardinality({ i \in DOMAIN segments : To(i) = c }) = 2
     /\ \A part \in (SUBSET corners) \ {{}, corners} :
          \E i \in DOMAIN segments : (From(i) \in part) # (To(i) \in part)

\* The segment leads, either way, from one of two points to the other.
LiesAlong(segment, p, q) ==
  \/ Near(p, segment[1]) /\ Near(q, segment[2])
  \/ Near(p, segment[2]) /\ Near(q, segment[1])

\* Each side of the polygon is one of the walls and each wall a side; the corners
\* are ends of walls, no two of them near one another.
Outlines(polygon, segments) ==
  LET Side(i, k) == LiesAlong(segments[k], polygon[i], polygon[Following(polygon, i)])
  IN /\ ToSet(polygon) \subseteq Ends(segments) /\ Len(polygon) = Len(segments)
     /\ \A i, j \in DOMAIN polygon : Near(polygon[i], polygon[j]) => i = j
     /\ \A i \in DOMAIN polygon : \E k \in DOMAIN segments : Side(i, k)
     /\ \A k \in DOMAIN segments : \E i \in DOMAIN polygon : Side(i, k)

\* Where the corners are not in doubt, walls get a boundary exactly when they are
\* one ring around more than 10 cm2.  Wherever they are, a boundary is the outline
\* of the walls and runs counter-clockwise.
BoundaryIsTheRing ==
  LET segments == WallSegments
      loop == AssembleClosedLoop(segments)
  IN /\ Clear(Ends(segments)) =>
          (loop.ok \/ loop.reason \in {"degenerate_polygon", "near_zero_area"}
             <=> IsRing(segments))
     /\ loop.ok => Shoelace(loop.polygon) > 1 /\ Outlines(loop.polygon, segments)

\* The page's table and the schedules show the same text, which is the width to
\* the nearest eighth of an inch.
DisplaysAgree ==
  \A j \in DOMAIN openings :
    LET width == openings[j]
        shown == FormatFeetInches(width)
        sixteenths == 192 * shown.feet + 16 * shown.inches
                        + IF shown.fraction = <<>> THEN 0
                          ELSE (16 * shown.fraction[1]) \div shown.fraction[2]
    IN /\ ToFeetInches(width) = shown
       /\ shown.inches < 12 /\ sixteenths - width \in 0..1
=============================================================================
