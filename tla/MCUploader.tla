----------------------------- MODULE MCUploader -----------------------------
(* Small instances of Uploader.                                             *)
EXTENDS Uploader

CONSTANTS b1, b2, f1, f2, l1, l2

\* Every path is a file of its own, and each build has its own manifest.
NoLinks == [f \in Files |-> f]
OwnLocation == [b \in Builds |-> IF b = b1 THEN l1 ELSE l2]
=============================================================================
