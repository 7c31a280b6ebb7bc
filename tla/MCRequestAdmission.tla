-------------------------- MODULE MCRequestAdmission --------------------------
(***************************************************************************)
(* Two requests with two tokens of one user, a cache of one entry, and     *)
(* administrators who narrow a policy, hand the Diagnostic the name the    *)
(* user had, or disable the route.                                         *)
(***************************************************************************)
EXTENDS RequestAdmission, TLC

CONSTANTS r1, c1, p1, f1, g1, u1, n1, n2, x1

MCConfiguration(ops, rule, name, enabled, diagnostic) ==
  Apply(r1 :> [user |-> u1, name |-> name, enabled |-> enabled, version |-> 1]
          @@ c1 :> [route |-> r1, active |-> TRUE, version |-> 1]
          @@ p1 :> [allows |-> ops, enabled |-> TRUE, version |-> 1]
          @@ rule :> [policy |-> p1, field |-> x1, applies |-> ops,
                      enabled |-> TRUE, version |-> 1]
          @@ Diagnostic :> [name |-> diagnostic, enabled |-> TRUE, status |-> "PASS", version |-> 2],
        EmptyConfiguration)

MCConfigurations ==
  { MCConfiguration({"CREATE"}, f1, n1, TRUE, n2),
    MCConfiguration({"UPDATE"}, g1, n2, TRUE, n1),
    MCConfiguration({"UPDATE"}, g1, n2, FALSE, n2) }

MCUserOf == [t \in Tokens |-> u1]
=============================================================================
