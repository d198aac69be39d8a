--------------------------- MODULE MCCaptureUpload ---------------------------
(* Instances of CaptureUpload for TLC. *)
EXTENDS CaptureUpload, TLC

CONSTANTS one, two, twoToo, three

\* Zips that need as many parts, fewer or more than the one before.
Sizes == one :> 1 @@ two :> 2 @@ twoToo :> 2 @@ three :> 3

Symmetry == Permutations(Requests)
=============================================================================
