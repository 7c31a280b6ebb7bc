--------------------------- MODULE RequestAdmission ---------------------------
(***************************************************************************)
(* From a token to the policy a request runs under.  An identified request *)
(* reads its identity route, and then loads its policy snapshot in one     *)
(* REPEATABLE READ transaction of several SELECTs, while administrators    *)
(* change the configuration.  What the administrators can do is the        *)
(* promise AdminStore implements: any committed configuration is           *)
(* consistent, and it is replaced in one step.                             *)
(***************************************************************************)
EXTENDS ValidationCache, ControlPlane

CONSTANT UserOf  \* the platform user the upstream service names for each token

ASSUME AdmissionAssumption == UserOf \in [Tokens -> Users]

VARIABLES
  db,            \* the committed configuration
  view,          \* the read view of the snapshot transaction of each request
  snapshot       \* the policy snapshot of each request, as far as it is read

admissionVars == <<db, view, snapshot>>
vars == <<cacheVars, admissionVars>>

EmptySnapshot == [route |-> Absent, policies |-> {}, rules |-> {}]

AdmissionPhases == Phases \cup {"ROUTED", "LOADING", "ADMITTED"}

AdmissionInit ==
  /\ Init
  /\ db \in InitialConfigurations
  /\ view = [r \in Requests |-> EmptyConfiguration]
  /\ snapshot = [r \in Requests |-> EmptySnapshot]

----------------------------------------------------------------------------
Become(r, p) == phase' = [phase EXCEPT ![r] = p]

OnlyPhaseAnd(changed) ==
  UNCHANGED <<now, expiresAt, accepted, token, nowMs, source, verdict, inFlight, entries, audited>>
    /\ changed

RoutesOf(d, u) == {k \in Routes : Exists(d, k) /\ d[k].user = u}

EnabledRoutesOf(d, u) == {k \in RoutesOf(d, u) : d[k].enabled}

\* getByPlatformUserId, outside any transaction: a disabled route is seen at once.
ReadRoute(r) ==
  /\ phase[r] = "IDENTIFIED"
  /\ Become(r, IF EnabledRoutesOf(db, UserOf[token[r]]) # {} THEN "ROUTED" ELSE "REFUSED")
  /\ OnlyPhaseAnd(UNCHANGED admissionVars)

\* The row of the user's route, enabled or not; there is at most one.
RouteRowsOf(d, u) == {d[k] : k \in RoutesOf(d, u)}

Rows(d, ids) == {<<k, d[k]>> : k \in ids}

EnabledPolicies(d) == {p \in Policies : Exists(d, p) /\ d[p].enabled}

EnabledRulesOfAll(d, policies) == UNION {EnabledRulesOf(d, p[1]) : p \in policies}

\* The first SELECTs of the snapshot transaction, which open its view.
OpenSnapshot(r) ==
  LET rows == RouteRowsOf(db, UserOf[token[r]])
  IN /\ phase[r] = "ROUTED"
     /\ Become(r, "LOADING")
     /\ view' = [view EXCEPT ![r] = db]
     /\ \E row \in IF rows = {} THEN {Absent} ELSE rows :
          snapshot' = [snapshot EXCEPT ![r].route = row,
                                       ![r].policies = Rows(db, EnabledPolicies(db))]
     /\ OnlyPhaseAnd(UNCHANGED db)

\* The names of the active routes are read last: the snapshot is refused when one of them
\* is the Diagnostic's, and a snapshot without an enabled route admits nobody.
Admissible(d, route) ==
  /\ \A k \in ActiveRoutes(d) : ~DiagnosticUses(d, d[k].name)
  /\ route # Absent /\ route.enabled

LoadRest(r, d) ==
  /\ phase[r] = "LOADING"
  /\ IF Admissible(d, snapshot[r].route)
     THEN /\ Become(r, "ADMITTED")
          /\ snapshot' = [snapshot EXCEPT ![r].rules =
               Rows(d, EnabledRulesOfAll(d, snapshot[r].policies))]
     ELSE Become(r, "REFUSED") /\ snapshot' = [snapshot EXCEPT ![r] = EmptySnapshot]
  /\ view' = [view EXCEPT ![r] = EmptyConfiguration]
  /\ OnlyPhaseAnd(UNCHANGED db)

\* Faulty variant: READ COMMITTED, every SELECT sees the latest configuration.
ReadRulesCommitted(r) == LoadRest(r, db)

\* The remaining SELECTs, of the rules of the policies read before; then the transaction
\* ends and the request is admitted or refused.
ReadRules(r) == LoadRest(r, view[r])

AdmissionStep(r) == ReadRoute(r) \/ OpenSnapshot(r) \/ ReadRules(r)

\* Another configuration is committed.
Reconfigure ==
  /\ db' \in InitialConfigurations \ {db}
  /\ UNCHANGED <<cacheVars, view, snapshot>>

Next ==
  \/ CacheNext /\ UNCHANGED admissionVars
  \/ \E r \in Requests : AdmissionStep(r)
  \/ Reconfigure

(***************************************************************************)
(* Every call settles, by its timeout if not by an answer, and the event   *)
(* loop and the connections of the pool serve every request that arrived.  *)
(***************************************************************************)
Served(r) ==
  \/ Audit(r) \/ Follow(r)
  \/ \E answer \in {"VALID", "INVALID", "UNAVAILABLE"} : Settle(r, answer)

Spec ==
  /\ AdmissionInit
  /\ [][Next]_vars
  /\ \A r \in Requests : WF_vars(Served(r) /\ UNCHANGED admissionVars) /\ WF_vars(AdmissionStep(r))

----------------------------------------------------------------------------
\* Every variable holds a value of its type; the cache is bounded and has no token twice.
TypeOK ==
  /\ now \in 0 .. MaxTime
  /\ expiresAt \in [Tokens -> 0 .. MaxTime]
  /\ accepted \subseteq Tokens
  /\ phase \in [Requests -> AdmissionPhases]
  /\ token \in [Requests -> Tokens]
  /\ nowMs \in [Requests -> 0 .. MaxTime]
  /\ source \in [Requests -> Requests \cup {NoRequest}]
  /\ verdict \in [Requests -> {"NONE", "VALID", "INVALID", "UNAVAILABLE"}]
  /\ inFlight \in [Tokens -> Requests \cup {NoRequest}]
  /\ entries \in Seq(Tokens) /\ Len(entries) <= MaxEntries /\ IsInjective(entries)
  /\ audited \subseteq Requests
  /\ db \in InitialConfigurations
  /\ DOMAIN view = Requests /\ \A r \in Requests : IsConfiguration(view[r])
  /\ \A r \in Requests :
       /\ snapshot[r].route \in {Absent} \cup RouteRow
       /\ \A p \in snapshot[r].policies : p[1] \in Policies /\ p[2] \in PolicyRow
       /\ \A f \in snapshot[r].rules : f[1] \in Rules /\ f[2] \in RuleRow

PassedValidation(r) == phase[r] \notin {"NEW", "CALLING", "FOLLOWING", "AUDITING"}

\* An identity is reused without asking the upstream only for a token whose validation
\* succeeded, and never by a request that arrived when the token had expired, whatever
\* time the leader stored it at.
ReuseEndsWithToken ==
  \A r \in Requests : PassedValidation(r) /\ source[r] = NoRequest =>
    /\ expiresAt[token[r]] # NotReported /\ nowMs[r] < expiresAt[token[r]]
    /\ \E l \in Requests : token[l] = token[r] /\ source[l] = l /\ verdict[l] = "VALID"

\* The upstream service is never asked twice at the same time about one token.
OneCallPerToken ==
  \A r, s \in Requests :
    phase[r] = "CALLING" /\ phase[s] = "CALLING" /\ token[r] = token[s] => r = s

\* The policy a request runs under is one configuration that was committed, not parts of
\* two: its rules stay within its policies and its user is not the Diagnostic.
AdmittedIsConsistent ==
  \A r \in Requests : phase[r] = "ADMITTED" =>
    \E d \in InitialConfigurations :
      /\ snapshot[r].route \in RouteRowsOf(d, UserOf[token[r]]) /\ snapshot[r].route.enabled
      /\ ~DiagnosticUses(d, snapshot[r].route.name)
      /\ snapshot[r].policies = Rows(d, EnabledPolicies(d))
      /\ snapshot[r].rules = Rows(d, UNION {EnabledRulesOf(d, p) : p \in EnabledPolicies(d)})

\* No request that arrived waits for ever: not on the upstream, not on another request.
EveryRequestIsDecided ==
  \A r \in Requests : phase[r] # "NEW" ~> phase[r] \in {"ADMITTED", "REFUSED"}
=============================================================================
