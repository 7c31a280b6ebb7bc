------------------------ MODULE MCAttachmentStaging ------------------------
(* A small instance of AttachmentStaging for TLC: three files of one user. *)
EXTENDS AttachmentStaging, TLC

CONSTANTS f1, f2, f3, p1, ann

MCFiles == {f1, f2, f3}
MCOneOwner == f1 :> ann @@ f2 :> ann @@ f3 :> ann
MCPasses == {p1}
=============================================================================
