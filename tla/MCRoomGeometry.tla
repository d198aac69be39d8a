---------------------------- MODULE MCRoomGeometry ----------------------------
(* Instances of RoomGeometry for TLC. *)
EXTENDS RoomGeometry

\* Four corners of a room, the last on the line from the first to the third; one
\* more point within the tolerance of the first, one within the tolerance of that
\* only, and one for a triangle of half a square of the grid.
A == <<0, 0>>
B == <<50, 0>>
C == <<60, 50>>
D == <<30, 25>>
NearA == <<0, 1>>
NearNearA == <<1, 1>>
E == <<2, 3>>

SomeSegments == { <<A, B>>, <<B, C>>, <<D, C>>, <<D, NearA>>, <<A, C>>,
                  <<NearNearA, B>>, <<A, NearA>>,
                  <<A, NearNearA>>, <<NearNearA, E>>, <<E, A>> }

\* Around carries, for every residue of the eighths.
SomeWidths == {5, 8, 28, 191, 580}
=============================================================================
