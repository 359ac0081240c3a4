------------------------- MODULE MCDocumentUploads -------------------------
(* Two confirmations of one upload whose client may overwrite its bytes.    *)
EXTENDS DocumentUploads, TLC

CONSTANTS p1, p2, c1, c2

UploadSymmetry == Permutations({p1, p2}) \cup Permutations({c1, c2})
=============================================================================
