-------------------------- MODULE MCMutationRequest --------------------------
(***************************************************************************)
(* Two calls: a single call, a batch of one and a batch of two.            *)
(***************************************************************************)
EXTENDS MutationRequest

CONSTANTS c1, c2

TwoCalls == {c1, c2}
=============================================================================
