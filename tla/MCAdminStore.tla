----------------------------- MODULE MCAdminStore -----------------------------
(***************************************************************************)
(* Two administrators and up to MaxChanges changes of an empty database or *)
(* of one that was configured before: a route with its token, an enabled   *)
(* policy with an enabled rule, a verified Diagnostic.                     *)
(***************************************************************************)
EXTENDS AdminStore, TLC

CONSTANTS r1, c1, p1, f1, u1, n1, n2, x1

MCConfigured ==
  Apply(r1 :> [user |-> u1, name |-> n1, enabled |-> TRUE, version |-> 1]
          @@ c1 :> [route |-> r1, active |-> TRUE, version |-> 1]
          @@ p1 :> [allows |-> {"CREATE", "UPDATE"}, enabled |-> TRUE, version |-> 1]
          @@ f1 :> [policy |-> p1, field |-> x1, applies |-> {"CREATE"},
                    enabled |-> TRUE, version |-> 1]
          @@ Diagnostic :> [name |-> n2, enabled |-> TRUE, status |-> "PASS", version |-> 2],
        EmptyConfiguration)

MCInitialConfigurations == {EmptyConfiguration, MCConfigured}

MCSymmetry == Permutations(Admins)
=============================================================================
