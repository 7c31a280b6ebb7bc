--------------------------- MODULE MutationOutcome ---------------------------
(***************************************************************************)
(* What the runtime promises the caller of mutation tools: every mutation  *)
(* is sent to Salesforce at most once, whatever the caller is told of its  *)
(* outcome is true, and a mutation whose failure was reported is not sent  *)
(* any more.  "UNKNOWN" is always allowed.  MutationRequest implements it. *)
(***************************************************************************)
CONSTANT Calls

VARIABLES
    effect,  \* what became of each mutation at Salesforce
    told     \* what the caller was told of each

Effects  == {"NONE", "SENT", "APPLIED", "PARTIAL", "REJECTED"}
Verdicts == {"NOTHING", "SUCCESS", "PARTIAL_SUCCESS", "FAILED", "UNKNOWN"}

Agrees(verdict, e) ==
    /\ verdict = "SUCCESS" => e = "APPLIED"
    /\ verdict = "PARTIAL_SUCCESS" => e = "PARTIAL"
    /\ verdict = "FAILED" => e \in {"NONE", "REJECTED"}

Init ==
    /\ effect = [c \in Calls |-> "NONE"]
    /\ told = [c \in Calls |-> "NOTHING"]

Send(c) ==
    /\ effect[c] = "NONE" /\ told[c] # "FAILED"
    /\ effect' = [effect EXCEPT ![c] = "SENT"]
    /\ UNCHANGED told

Decide(c) ==
    /\ effect[c] = "SENT"
    /\ \E e \in {"APPLIED", "PARTIAL", "REJECTED"} : effect' = [effect EXCEPT ![c] = e]
    /\ UNCHANGED told

\* a request has one response, which tells of the calls it made
Tell ==
    /\ \A c \in Calls : told[c] = "NOTHING"
    /\ told' \in [Calls -> Verdicts]
    /\ \A c \in Calls : Agrees(told'[c], effect[c])
    /\ UNCHANGED effect

Next == Tell \/ \E c \in Calls : Send(c) \/ Decide(c)

Spec == Init /\ [][Next]_<<effect, told>>
=============================================================================
