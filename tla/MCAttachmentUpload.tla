------------------------- MODULE MCAttachmentUpload -------------------------
(* A small instance of AttachmentUpload for TLC: one call that names two files. *)
EXTENDS AttachmentUpload, TLC

CONSTANTS f1, f2, p1, ann, c1

MCFiles == {f1, f2}
MCOwner == f1 :> ann @@ f2 :> ann
MCPasses == {p1}

MCCalls == {c1}
MCRequester == c1 :> ann
MCRefs == c1 :> <<f1, f2>>
=============================================================================
