-------------------------- MODULE MCAttachmentBridge --------------------------
(* Two messages of one conversation beside those of two others, with room for *)
(* two conversations.                                                         *)
EXTENDS AttachmentBridge, TLC

CONSTANTS m1, m2, m3, m4, s1, s2, s3

MCSessionOf == m1 :> s1 @@ m2 :> s1 @@ m3 :> s2 @@ m4 :> s3

\* The two messages of the first conversation can be exchanged.
MCSymmetry == Permutations({m1, m2})
=============================================================================
