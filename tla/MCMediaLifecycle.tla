--------------------------- MODULE MCMediaLifecycle ---------------------------
(* Instances of MediaLifecycle for TLC. *)
EXTENDS MediaLifecycle, TLC

Symmetry == Permutations(Requests)

Jpeg(segments) == [type |-> "image/jpeg", segments |-> segments]
\* Two Exif segments around one of XMP; none; and an image of another type.
SomePhotos == { Jpeg(<<"exif", "xmp", "exif", "frame">>), Jpeg(<<"frame">>),
                [type |-> "image/png", segments |-> <<>>] }
=============================================================================
