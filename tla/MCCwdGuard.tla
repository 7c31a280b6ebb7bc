----------------------------- MODULE MCCwdGuard -----------------------------
(* Small instances of CwdGuard for TLC: two requests of one metadata retrieval and *)
(* one query each, and one more query. *)
EXTENDS CwdGuard, TLC

CONSTANTS m1, m2, q1, q2, q3, w1, w2

MCCalls == {m1, m2, q1, q2, q3}
MCExclusive == {m1, m2}
MCWorkspaces == {w1, w2}
MCRoot == m1 :> w1 @@ q1 :> w1 @@ m2 :> w2 @@ q2 :> w2 @@ q3 :> w2
MCBaseline == "/"
=============================================================================
