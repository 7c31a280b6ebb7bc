----------------------- MODULE RequestAdmissionProofs -----------------------
(***************************************************************************)
(* Proofs about RequestAdmission, for every number of requests and tokens, *)
(* every clock and cache size and every set of configurations.             *)
(*                                                                         *)
(* Four invariants are proved separately, because they are about different *)
(* state: who leads the calls in flight, what the cache holds and whom it  *)
(* identified, whom the followers of a call wait for, and what the         *)
(* snapshot of a request was read from.                                    *)
(***************************************************************************)
EXTENDS RequestAdmission, SequenceLemmas, SequenceTheorems, TLAPS

PhaseType ==
  /\ phase \in [Requests -> AdmissionPhases]
  /\ inFlight \in [Tokens -> Requests \cup {NoRequest}]
  /\ token \in [Requests -> Tokens]

\* A request that calls the upstream is the registered leader for its token.
LeadersRegistered == \A r \in Requests : phase[r] = "CALLING" => inFlight[token[r]] = r

CallInv == PhaseType /\ LeadersRegistered

PolicyPart(d) == Rows(d, EnabledPolicies(d))
RulePart(d)   == Rows(d, UNION {EnabledRulesOf(d, p) : p \in EnabledPolicies(d)})

SnapshotOf(r, d) ==
  /\ snapshot[r].route \in RouteRowsOf(d, UserOf[token[r]]) /\ snapshot[r].route.enabled
  /\ ~DiagnosticUses(d, snapshot[r].route.name)
  /\ snapshot[r].policies = PolicyPart(d)
  /\ snapshot[r].rules = RulePart(d)

SnapshotShape ==
  /\ db \in InitialConfigurations
  /\ DOMAIN view = Requests
  /\ DOMAIN snapshot = Requests
  /\ \A r \in Requests : DOMAIN snapshot[r] = {"route", "policies", "rules"}

\* Between its two groups of SELECTs a request holds the view it opened and the rows of
\* that very view; an admitted one holds the rows of one configuration.
ReadFromOneView ==
  \A r \in Requests :
    /\ phase[r] = "LOADING" =>
         /\ view[r] \in InitialConfigurations
         /\ snapshot[r].route \in {Absent} \cup RouteRowsOf(view[r], UserOf[token[r]])
         /\ snapshot[r].policies = PolicyPart(view[r])
    /\ phase[r] = "ADMITTED" => \E d \in InitialConfigurations : SnapshotOf(r, d)

SnapshotInv == PhaseType /\ SnapshotShape /\ ReadFromOneView

----------------------------------------------------------------------------
(* The calls in flight. *)

LEMMA CallInit == AdmissionInit => CallInv
  <1> SUFFICES ASSUME AdmissionInit PROVE CallInv
    OBVIOUS
  <1> QED BY DEF AdmissionInit, Init, CallInv, PhaseType, LeadersRegistered, AdmissionPhases, Phases

\* A request arrives: it leads only a call for a token nobody leads one for.
LEMMA ArriveCalls == ASSUME CallInv, NEW r \in Requests, Arrive(r) PROVE CallInv'
  <1> DEFINE t == token[r]
             next == CASE Hit(t, now) -> "IDENTIFIED"
                       [] ~Hit(t, now) /\ inFlight[t] = NoRequest -> "CALLING"
                       [] OTHER -> "FOLLOWING"
  <1> USE DEF CallInv
  <1>1. /\ next \in {"IDENTIFIED", "CALLING", "FOLLOWING"}
        /\ next = "CALLING" => inFlight[t] = NoRequest
    OBVIOUS
  <1>2. /\ phase' = [phase EXCEPT ![r] = next]
        /\ inFlight' = IF next = "CALLING" THEN [inFlight EXCEPT ![t] = r] ELSE inFlight
        /\ UNCHANGED token
    BY DEF Arrive, Register
  <1>3. t \in Tokens
    BY DEF PhaseType
  <1> HIDE DEF next, t
  <1>4. PhaseType'
    BY <1>1, <1>2, <1>3 DEF PhaseType, AdmissionPhases, Phases
  <1>5. LeadersRegistered'
    BY <1>1, <1>2, <1>3, CacheAssumption DEF PhaseType, LeadersRegistered, t
  <1> QED BY <1>4, <1>5

\* Nobody else is the leader of the call that settles.
LEMMA SettleCalls ==
  ASSUME CallInv, NEW r \in Requests, NEW answer, Settle(r, answer) PROVE CallInv'
  <1>1. /\ phase[r] = "CALLING" /\ phase' = [phase EXCEPT ![r] = "AUDITING"]
        /\ inFlight' = [inFlight EXCEPT ![token[r]] = NoRequest]
        /\ UNCHANGED token
    BY DEF Settle
  <1> QED BY <1>1 DEF CallInv, PhaseType, LeadersRegistered, AdmissionPhases, Phases

\* Every other step keeps the registrations and makes nobody a leader.
LEMMA QuietCalls ==
  ASSUME CallInv, NEW r \in Requests, NEW p \in AdmissionPhases \ {"CALLING"},
         phase' = [phase EXCEPT ![r] = p] \/ UNCHANGED phase,
         UNCHANGED <<inFlight, token>>
  PROVE  CallInv'
  BY DEF CallInv, PhaseType, LeadersRegistered

LEMMA AdmissionStepFacts ==
  ASSUME NEW r \in Requests, AdmissionStep(r)
  PROVE  /\ \E p \in AdmissionPhases \ {"CALLING"} : phase' = [phase EXCEPT ![r] = p]
         /\ UNCHANGED <<inFlight, token, db>>
         /\ phase[r] \in {"IDENTIFIED", "ROUTED", "LOADING"}
  <1> USE DEF Become, OnlyPhaseAnd, AdmissionPhases, Phases
  <1>1. CASE ReadRoute(r)
    BY <1>1 DEF ReadRoute, admissionVars
  <1>2. CASE OpenSnapshot(r)
    BY <1>2 DEF OpenSnapshot
  <1>3. CASE ReadRules(r)
    BY <1>3 DEF ReadRules, LoadRest
  <1> QED BY <1>1, <1>2, <1>3 DEF AdmissionStep

LEMMA CacheStepFacts ==
  ASSUME NEW r \in Requests, Decide(r) \/ Audit(r) \/ Follow(r)
  PROVE  /\ UNCHANGED phase \/ \E p \in Phases \ {"CALLING"} : phase' = [phase EXCEPT ![r] = p]
         /\ UNCHANGED <<inFlight, token>>
         /\ phase[r] \in Phases
  <1> USE DEF Outcome, Phases
  <1>1. CASE Decide(r)
    BY <1>1 DEF Decide
  <1>2. CASE Audit(r)
    BY <1>2 DEF Audit
  <1>3. CASE Follow(r)
    BY <1>3 DEF Follow
  <1> QED BY <1>1, <1>2, <1>3

LEMMA CallNext == CallInv /\ [Next]_vars => CallInv'
  <1> SUFFICES ASSUME CallInv, [Next]_vars PROVE CallInv'
    OBVIOUS
  <1>1. CASE UNCHANGED <<phase, inFlight, token>>
    BY <1>1 DEF CallInv, PhaseType, LeadersRegistered
  <1>2. ASSUME NEW r \in Requests, RequestStep(r) PROVE CallInv'
    <2>1. CASE Arrive(r)
      BY <2>1, ArriveCalls
    <2>2. ASSUME NEW answer, Settle(r, answer) PROVE CallInv'
      BY <2>2, SettleCalls
    <2>3. CASE Decide(r) \/ Audit(r) \/ Follow(r)
      BY <2>3, CacheStepFacts, QuietCalls, <1>1 DEF AdmissionPhases
    <2> QED BY <1>2, <2>1, <2>2, <2>3 DEF RequestStep
  <1>3. ASSUME NEW r \in Requests, AdmissionStep(r) PROVE CallInv'
    BY <1>3, AdmissionStepFacts, QuietCalls
  <1>4. CASE UNCHANGED vars \/ Reconfigure \/ Tick \/ \E t \in Tokens : RevokeToken(t)
    BY <1>1, <1>4 DEF vars, cacheVars, Reconfigure, Tick, RevokeToken
  <1> QED BY <1>2, <1>3, <1>4 DEF Next, CacheNext

\* The upstream service is never asked twice at the same time about one token
\* (inFlightValidations of BuntuTokenCredentialAuthenticator).
THEOREM CalledOnce == Spec => []OneCallPerToken
  <1>1. CallInv => OneCallPerToken
    BY DEF CallInv, PhaseType, LeadersRegistered, OneCallPerToken
  <1> QED BY <1>1, CallInit, CallNext, PTL DEF Spec

----------------------------------------------------------------------------
(* The snapshots. *)

LEMMA SnapshotInit == AdmissionInit => SnapshotInv
  <1> SUFFICES ASSUME AdmissionInit PROVE SnapshotInv
    OBVIOUS
  <1>1. PhaseType
    BY CallInit DEF CallInv
  <1>2. \A r \in Requests : phase[r] = "NEW"
    BY DEF AdmissionInit, Init
  <1>3. SnapshotShape
    BY DEF AdmissionInit, SnapshotShape, EmptySnapshot
  <1>4. ReadFromOneView
    BY <1>2 DEF ReadFromOneView
  <1> QED BY <1>1, <1>3, <1>4 DEF SnapshotInv

\* The cache moves requests that have no snapshot yet, and never hands one out.
LEMMA CacheSnapshots ==
  ASSUME SnapshotInv, PhaseType', CacheNext, UNCHANGED admissionVars
  PROVE  SnapshotInv'
  <1>1. UNCHANGED <<db, view, snapshot, token>>
    BY DEF admissionVars, CacheNext, RequestStep, Arrive, Decide, Settle, Audit, Follow,
           RevokeToken, Tick
  <1>2. \A r \in Requests : phase'[r] \in {"LOADING", "ADMITTED"} => phase'[r] = phase[r]
    <2>1. ASSUME NEW q \in Requests, RequestStep(q)
          PROVE  UNCHANGED phase \/ \E p \in Phases : phase' = [phase EXCEPT ![q] = p]
      <3>1. CASE Arrive(q)
        BY <3>1 DEF Arrive, Phases
      <3>2. CASE \E answer \in {"VALID", "INVALID", "UNAVAILABLE"} : Settle(q, answer)
        BY <3>2 DEF Settle, Phases
      <3>3. CASE Decide(q) \/ Audit(q) \/ Follow(q)
        BY <3>3, CacheStepFacts
      <3> QED BY <2>1, <3>1, <3>2, <3>3 DEF RequestStep
    <2>2. CASE Tick \/ \E t \in Tokens : RevokeToken(t)
      BY <2>2 DEF Tick, RevokeToken
    <2> QED BY <2>1, <2>2 DEF CacheNext, Phases, SnapshotInv, PhaseType
  <1>3. SnapshotShape'
    BY <1>1 DEF SnapshotInv, SnapshotShape
  <1>4. ReadFromOneView'
    BY <1>1, <1>2 DEF SnapshotInv, ReadFromOneView, SnapshotOf
  <1> QED BY <1>3, <1>4 DEF SnapshotInv

\* A configuration another administrator commits is in no view and no snapshot.
LEMMA ReconfigureSnapshots == ASSUME SnapshotInv, Reconfigure PROVE SnapshotInv'
  BY DEF SnapshotInv, PhaseType, SnapshotShape, ReadFromOneView, SnapshotOf, Reconfigure, cacheVars

LEMMA RouteSnapshots == ASSUME SnapshotInv, NEW r \in Requests, ReadRoute(r) PROVE SnapshotInv'
  <1>1. /\ \E p \in {"ROUTED", "REFUSED"} : phase' = [phase EXCEPT ![r] = p]
        /\ UNCHANGED <<token, inFlight, db, view, snapshot>>
    BY DEF ReadRoute, Become, OnlyPhaseAnd, admissionVars
  <1>2. PhaseType'
    BY <1>1 DEF SnapshotInv, PhaseType, AdmissionPhases, Phases
  <1>3. SnapshotShape'
    BY <1>1 DEF SnapshotInv, SnapshotShape
  <1>4. ReadFromOneView'
    BY <1>1 DEF SnapshotInv, PhaseType, ReadFromOneView, SnapshotOf
  <1> QED BY <1>2, <1>3, <1>4 DEF SnapshotInv

\* The view is opened on the committed configuration, and the first rows are its rows.
LEMMA OpenSnapshots == ASSUME SnapshotInv, NEW r \in Requests, OpenSnapshot(r) PROVE SnapshotInv'
  <1> USE DEF SnapshotInv
  <1>1. PICK row \in {Absent} \cup RouteRowsOf(db, UserOf[token[r]]) :
          snapshot' = [snapshot EXCEPT ![r].route = row, ![r].policies = PolicyPart(db)]
    BY DEF OpenSnapshot, PolicyPart
  <1>2. /\ phase' = [phase EXCEPT ![r] = "LOADING"]
        /\ view' = [view EXCEPT ![r] = db]
        /\ UNCHANGED <<token, inFlight, db>>
    BY DEF OpenSnapshot, Become, OnlyPhaseAnd
  <1>3. /\ DOMAIN snapshot' = Requests
        /\ \A q \in Requests : q # r => snapshot'[q] = snapshot[q]
        /\ DOMAIN snapshot'[r] = {"route", "policies", "rules"}
        /\ snapshot'[r].route = row /\ snapshot'[r].policies = PolicyPart(db)
    BY <1>1 DEF SnapshotShape
  <1>4. PhaseType'
    BY <1>2 DEF PhaseType, AdmissionPhases
  <1>5. SnapshotShape'
    BY <1>2, <1>3 DEF SnapshotShape
  <1>6. ASSUME NEW q \in Requests, q # r
        PROVE  /\ phase'[q] = phase[q] /\ view'[q] = view[q] /\ snapshot'[q] = snapshot[q]
               /\ token'[q] = token[q]
    BY <1>2, <1>3, <1>6 DEF PhaseType, SnapshotShape
  <1>7. /\ phase'[r] = "LOADING" /\ view'[r] = db /\ db \in InitialConfigurations
        /\ token'[r] = token[r]
    BY <1>2 DEF PhaseType, SnapshotShape
  <1>8. ReadFromOneView'
    BY <1>1, <1>3, <1>6, <1>7 DEF ReadFromOneView, SnapshotOf
  <1> QED BY <1>4, <1>5, <1>8

\* The last rows are read from the view the first ones came from, so an admitted
\* snapshot is a snapshot of that view.
LEMMA RulesSnapshots == ASSUME SnapshotInv, NEW r \in Requests, ReadRules(r) PROVE SnapshotInv'
  <1> USE DEF SnapshotInv
  <1>d. PICK d : d = view[r]
    OBVIOUS
  <1> DEFINE p == IF Admissible(d, snapshot[r].route) THEN "ADMITTED" ELSE "REFUSED"
  <1>1. /\ phase[r] = "LOADING" /\ phase' = [phase EXCEPT ![r] = p]
        /\ view' = [view EXCEPT ![r] = EmptyConfiguration]
        /\ UNCHANGED <<token, inFlight, db>>
        /\ snapshot' = IF Admissible(d, snapshot[r].route)
                       THEN [snapshot EXCEPT ![r].rules = Rows(d, EnabledRulesOfAll(d, snapshot[r].policies))]
                       ELSE [snapshot EXCEPT ![r] = EmptySnapshot]
    BY <1>d DEF ReadRules, LoadRest, Become, OnlyPhaseAnd
  <1>2. /\ d \in InitialConfigurations
        /\ snapshot[r].route \in {Absent} \cup RouteRowsOf(d, UserOf[token[r]])
        /\ snapshot[r].policies = PolicyPart(d)
    BY <1>1, <1>d DEF ReadFromOneView
  <1>3. ASSUME NEW q \in Requests, q # r
        PROVE  /\ phase'[q] = phase[q] /\ view'[q] = view[q] /\ snapshot'[q] = snapshot[q]
               /\ token'[q] = token[q]
    BY <1>1, <1>3 DEF PhaseType, SnapshotShape
  <1>4. ASSUME Admissible(d, snapshot[r].route)
        PROVE  SnapshotOf(r, d)' /\ DOMAIN snapshot'[r] = {"route", "policies", "rules"}
    <2>1. /\ snapshot'[r].route = snapshot[r].route
          /\ snapshot'[r].policies = snapshot[r].policies
          /\ snapshot'[r].rules = Rows(d, EnabledRulesOfAll(d, PolicyPart(d)))
          /\ DOMAIN snapshot'[r] = {"route", "policies", "rules"}
      BY <1>1, <1>2, <1>4 DEF SnapshotShape
    <2>2. EnabledRulesOfAll(d, PolicyPart(d)) = UNION {EnabledRulesOf(d, k) : k \in EnabledPolicies(d)}
      <3>1. \A k \in EnabledPolicies(d) : \E q \in PolicyPart(d) : q[1] = k
        <4>1. \A k : <<k, d[k]>>[1] = k
          OBVIOUS
        <4> QED BY <4>1, Zenon DEF PolicyPart, Rows
      <3>2. \A q \in PolicyPart(d) : q[1] \in EnabledPolicies(d)
        BY DEF PolicyPart, Rows
      <3> QED BY <3>1, <3>2, Zenon DEF EnabledRulesOfAll
    <2>3. PICK k \in RoutesOf(d, UserOf[token[r]]) : snapshot[r].route = d[k]
      BY <1>2, <1>4 DEF Admissible, RouteRowsOf
    <2>4. k \in ActiveRoutes(d)
      BY <1>4, <2>3 DEF Admissible, ActiveRoutes, RoutesOf
    <2>5. snapshot[r].route.enabled /\ ~DiagnosticUses(d, snapshot[r].route.name)
      BY <1>4, <2>3, <2>4 DEF Admissible
    <2>6. snapshot[r].route \in RouteRowsOf(d, UserOf[token[r]])
      BY <2>3 DEF RouteRowsOf
    <2>7. UNCHANGED token /\ snapshot[r].policies = PolicyPart(d)
      BY <1>1, <1>2
    <2> QED BY <2>1, <2>2, <2>5, <2>6, <2>7 DEF SnapshotOf, RulePart
  <1>5. ASSUME ~Admissible(d, snapshot[r].route)
        PROVE  snapshot'[r] = EmptySnapshot /\ p = "REFUSED"
    BY <1>1, <1>5 DEF SnapshotShape
  <1>6. PhaseType'
    BY <1>1 DEF PhaseType, AdmissionPhases, Phases
  <1>7. SnapshotShape'
    <2>1. DOMAIN view' = Requests /\ DOMAIN snapshot' = Requests /\ db' = db
      BY <1>1 DEF SnapshotShape
    <2>2. DOMAIN snapshot'[r] = {"route", "policies", "rules"}
      BY <1>4, <1>5 DEF EmptySnapshot
    <2> QED BY <1>3, <2>1, <2>2 DEF SnapshotShape
  <1>8. ReadFromOneView'
    <2>1. phase'[r] = p /\ p \in {"ADMITTED", "REFUSED"}
      BY <1>1 DEF PhaseType
    <2>2. phase'[r] = "ADMITTED" => \E e \in InitialConfigurations : SnapshotOf(r, e)'
      BY <1>2, <1>4, <1>5, <2>1
    <2>3. ASSUME NEW q \in Requests, q # r, NEW e PROVE SnapshotOf(q, e)' <=> SnapshotOf(q, e)
      BY <1>3, <2>3 DEF SnapshotOf
    <2> HIDE DEF p
    <2> QED BY <1>3, <2>1, <2>2, <2>3 DEF ReadFromOneView
  <1> QED BY <1>6, <1>7, <1>8

LEMMA SnapshotNext == CallInv /\ SnapshotInv /\ [Next]_vars => SnapshotInv'
  <1> SUFFICES ASSUME CallInv, SnapshotInv, [Next]_vars PROVE SnapshotInv'
    OBVIOUS
  <1>1. CASE UNCHANGED vars
    BY <1>1 DEF vars, cacheVars, admissionVars, SnapshotInv, PhaseType, SnapshotShape,
                ReadFromOneView, SnapshotOf
  <1>2. CASE CacheNext /\ UNCHANGED admissionVars
    <2>1. PhaseType'
      BY <1>2, CallNext DEF CallInv, Next
    <2> QED BY <1>2, <2>1, CacheSnapshots
  <1>3. ASSUME NEW r \in Requests, AdmissionStep(r) PROVE SnapshotInv'
    BY <1>3, RouteSnapshots, OpenSnapshots, RulesSnapshots DEF AdmissionStep
  <1>4. CASE Reconfigure
    BY <1>4, ReconfigureSnapshots
  <1> QED BY <1>1, <1>2, <1>3, <1>4 DEF Next

\* The policy a request runs under is one committed configuration, not parts of two
\* (loadPolicySnapshot: one REPEATABLE READ transaction).
THEOREM AdmittedConsistently == Spec => []AdmittedIsConsistent
  <1>1. SnapshotInv => AdmittedIsConsistent
    BY DEF SnapshotInv, ReadFromOneView, SnapshotOf, PolicyPart, RulePart, AdmittedIsConsistent
  <1>2. CallInv /\ SnapshotInv /\ [Next]_vars => (CallInv /\ SnapshotInv)'
    BY CallNext, SnapshotNext
  <1>3. AdmissionInit => CallInv /\ SnapshotInv
    BY CallInit, SnapshotInit
  <1> QED BY <1>1, <1>2, <1>3, PTL DEF Spec

----------------------------------------------------------------------------
(* The cache. *)

\* Map.delete of a key loses exactly that key.
LEMMA RemoveRange ==
    ASSUME NEW S, NEW q \in Seq(S), NEW e, IsInjective(q)
    PROVE  /\ RemoveFirst(q, e) \in Seq(S)
           /\ Len(RemoveFirst(q, e)) <= Len(q)
           /\ Range(RemoveFirst(q, e)) = Range(q) \ {e}
           /\ IsInjective(RemoveFirst(q, e))
           /\ e \in Range(q) => Len(RemoveFirst(q, e)) = Len(q) - 1
  <1>1. CASE \A i \in 1 .. Len(q) : q[i] # e
    <2>1. RemoveFirst(q, e) = q /\ e \notin Range(q)
      BY <1>1 DEF RemoveFirst, Range
    <2> QED BY <2>1
  <1>2. ASSUME NEW k \in 1 .. Len(q), q[k] = e
        PROVE  /\ RemoveFirst(q, e) \in Seq(S)
               /\ Len(RemoveFirst(q, e)) = Len(q) - 1
               /\ Range(RemoveFirst(q, e)) = Range(q) \ {e}
               /\ IsInjective(RemoveFirst(q, e))
    <2>1. \A i \in 1 .. Len(q) : q[i] = e => i = k
      BY <1>2 DEF IsInjective
    <2>2. {i \in 1 .. Len(q) : q[i] = e} = {k}
      BY <1>2, <2>1
    <2>3. Min({k}) = k
      BY DEF Min
    <2> DEFINE first == LET I == {i \in 1 .. Len(q) : q[i] = e} IN IF I # {} THEN Min(I) ELSE 0
    <2>4. first = k
      BY <2>2, <2>3
    <2> HIDE DEF first
    <2>5. RemoveFirst(q, e) = SubSeq(q, 1, k - 1) \o SubSeq(q, k + 1, Len(q))
      <3>1. RemoveFirst(q, e) = RemoveAt(q, first)
        BY <1>2 DEF RemoveFirst, SelectInSeq, first
      <3> QED BY <2>4, <3>1 DEF RemoveAt
    <2> DEFINE a == SubSeq(q, 1, k - 1)
               b == SubSeq(q, k + 1, Len(q))
               r == a \o b
    <2>a. /\ Len(q) \in Nat /\ k \in Nat /\ k >= 1 /\ k <= Len(q) /\ DOMAIN q = 1 .. Len(q)
      OBVIOUS
    <2>b. /\ a \in Seq(S) /\ Len(a) = k - 1 /\ \A i \in 1 .. (k - 1) : a[i] = q[i]
          /\ b \in Seq(S) /\ Len(b) = Len(q) - k /\ \A i \in 1 .. (Len(q) - k) : b[i] = q[i + k]
      OBVIOUS
    <2> HIDE DEF a, b
    <2>c. /\ r \in Seq(S) /\ Len(r) = Len(a) + Len(b) /\ DOMAIN r = 1 .. Len(r)
          /\ \A i \in 1 .. Len(r) : r[i] = IF i <= Len(a) THEN a[i] ELSE b[i - Len(a)]
      <3>1. a \in Seq(S) /\ b \in Seq(S)
        BY <2>b
      <3>2. /\ r \in Seq(S) /\ Len(r) = Len(a) + Len(b)
            /\ \A i \in 1 .. Len(a) + Len(b) : r[i] = IF i <= Len(a) THEN a[i] ELSE b[i - Len(a)]
        BY <3>1, ConcatProperties, Zenon
      <3>3. DOMAIN r = 1 .. Len(r)
        BY <3>2, LenProperties
      <3> QED BY <3>2, <3>3, Zenon
    <2> HIDE DEF r
    <2>6. /\ r \in Seq(S) /\ Len(r) = Len(q) - 1 /\ DOMAIN r = 1 .. (Len(q) - 1)
          /\ DOMAIN q = 1 .. Len(q) /\ Len(q) \in Nat /\ k \in Nat /\ k >= 1 /\ k <= Len(q)
          /\ \A i \in 1 .. (Len(q) - 1) : r[i] = IF i < k THEN q[i] ELSE q[i + 1]
      <3>1. Len(r) = Len(q) - 1
        BY <2>a, <2>b, <2>c
      <3>2. ASSUME NEW i \in 1 .. (Len(q) - 1)
            PROVE  r[i] = IF i < k THEN q[i] ELSE q[i + 1]
        <4>1. CASE i < k
          <5>1. i \in 1 .. (k - 1) /\ i <= Len(a) /\ i \in 1 .. Len(r)
            BY <4>1, <2>a, <2>b, <3>1
          <5> QED BY <4>1, <5>1, <2>b, <2>c
        <4>2. CASE ~(i < k)
          <5>1. i - (k - 1) \in 1 .. (Len(q) - k) /\ (i - (k - 1)) + k = i + 1
            BY <4>2, <2>a
          <5>2. r[i] = b[i - (k - 1)]
            BY <4>2, <2>a, <2>b, <2>c, <3>1
          <5> QED BY <4>2, <5>1, <5>2, <2>b
        <4> QED BY <4>1, <4>2
      <3> QED BY <2>a, <2>c, <3>1, <3>2
    <2>7. \A i, j \in 1 .. Len(q) : q[i] = q[j] => i = j
      BY <2>6 DEF IsInjective
    <2>8. \A i \in 1 .. (Len(q) - 1) :
            r[i] # e /\ \E j \in 1 .. Len(q) : r[i] = q[j] /\ j = IF i < k THEN i ELSE i + 1
      BY <1>2, <2>6, <2>7
    <2>9. \A j \in 1 .. Len(q) : j # k => \E i \in 1 .. (Len(q) - 1) : r[i] = q[j]
      <3> SUFFICES ASSUME NEW j \in 1 .. Len(q), j # k
                   PROVE  \E i \in 1 .. (Len(q) - 1) : r[i] = q[j]
        OBVIOUS
      <3>1. CASE j < k
        BY <3>1, <2>6
      <3>2. CASE j > k
        <4>1. j - 1 \in 1 .. (Len(q) - 1) /\ r[j - 1] = q[j]
          BY <3>2, <2>6
        <4> QED BY <4>1
      <3> QED BY <3>1, <3>2, <2>6
    <2>10. Range(r) = Range(q) \ {e}
      <3>1. \A i \in 1 .. (Len(q) - 1) : r[i] \in Range(q) \ {e}
        BY <2>6, <2>8 DEF Range
      <3>2. ASSUME NEW j \in 1 .. Len(q), q[j] # e PROVE q[j] \in Range(r)
        <4>1. j # k
          BY <1>2, <3>2
        <4> QED BY <4>1, <2>6, <2>9 DEF Range
      <3>3. Range(r) \subseteq Range(q) \ {e}
        BY <2>6, <3>1 DEF Range
      <3>4. Range(q) \ {e} \subseteq Range(r)
        BY <2>6, <3>2 DEF Range
      <3> QED BY <3>3, <3>4
    <2>11. IsInjective(r)
      BY <2>6, <2>7, <2>8 DEF IsInjective
    <2> QED BY <2>5, <2>6, <2>10, <2>11 DEF r, a, b
  <1> QED BY <1>1, <1>2

CacheType ==
  /\ now \in 0 .. MaxTime
  /\ expiresAt \in [Tokens -> 0 .. MaxTime]
  /\ accepted \subseteq Tokens
  /\ nowMs \in [Requests -> 0 .. MaxTime]
  /\ source \in [Requests -> Requests \cup {NoRequest}]
  /\ verdict \in [Requests -> {"NONE", "VALID", "INVALID", "UNAVAILABLE"}]
  /\ entries \in Seq(Tokens) /\ Len(entries) <= MaxEntries /\ IsInjective(entries)
  /\ audited \subseteq Requests

Called(r) == phase[r] \notin {"NEW", "CALLING", "FOLLOWING"}

Reportable(t) == expiresAt[t] # NotReported

\* A leader's call settled with the answer that the token is valid.
ValidatedBy(l, t) == Called(l) /\ token[l] = t /\ source[l] = l /\ verdict[l] = "VALID"

Validated(t) == \E l \in Requests : ValidatedBy(l, t)

\* What is cached was validated and expires.
EntriesAreValidated == \A t \in Range(entries) : Reportable(t) /\ Validated(t)

\* Only a request that the cache identified has no source.
Sourced ==
  \A r \in Requests :
    /\ phase[r] \in {"CALLING", "AUDITING"} => source[r] = r
    /\ phase[r] = "FOLLOWING" => source[r] # NoRequest

FromCache(r) == PassedValidation(r) /\ source[r] = NoRequest

HitsWereValid ==
  \A r \in Requests : FromCache(r) =>
    /\ Reportable(token[r]) /\ nowMs[r] < expiresAt[token[r]]
    /\ Validated(token[r])

CacheInv == CacheType /\ EntriesAreValidated /\ Sourced /\ HitsWereValid

LEMMA CacheInit == AdmissionInit => CacheInv
  <1> SUFFICES ASSUME AdmissionInit PROVE CacheInv
    OBVIOUS
  <1> USE DEF AdmissionInit, Init
  <1>1. CacheType
    BY CacheAssumption DEF CacheType, NotReported, IsInjective
  <1>2. EntriesAreValidated
    BY DEF EntriesAreValidated, Range
  <1>3. Sourced /\ HitsWereValid
    BY DEF Sourced, HitsWereValid, FromCache, PassedValidation
  <1> QED BY <1>1, <1>2, <1>3 DEF CacheInv

\* get leaves a part of the cache, without repetition.
LEMMA GetEntries ==
  ASSUME CacheType, NEW t \in Tokens, NEW time
  PROVE  /\ AfterGet(t, time) \in Seq(Tokens)
         /\ Len(AfterGet(t, time)) <= MaxEntries
         /\ IsInjective(AfterGet(t, time))
         /\ Range(AfterGet(t, time)) \subseteq Range(entries)
  <1> DEFINE w == Without(t)
  <1>1. /\ w \in Seq(Tokens) /\ Len(w) <= Len(entries) /\ Range(w) = Range(entries) \ {t}
        /\ IsInjective(w)
        /\ t \in Range(entries) => Len(w) = Len(entries) - 1
    BY RemoveRange DEF CacheType, Without
  <1> HIDE DEF w
  <1>2. /\ Append(w, t) \in Seq(Tokens) /\ Range(Append(w, t)) = Range(w) \cup {t}
        /\ IsInjective(Append(w, t))
    BY <1>1, AppendRange
  <1>3. Len(Append(w, t)) = Len(w) + 1 /\ Len(w) \in Nat /\ Len(entries) \in Nat
    BY <1>1 DEF CacheType
  <1>4. CASE Hit(t, time)
    <2>1. AfterGet(t, time) = Append(w, t) /\ t \in Range(entries)
      BY <1>4 DEF AfterGet, Hit, Cached, ToSet, Range, w
    <2> QED BY <1>1, <1>2, <1>3, <2>1, CacheAssumption DEF CacheType
  <1>5. CASE ~Hit(t, time)
    <2>1. AfterGet(t, time) = w
      BY <1>5 DEF AfterGet, w
    <2> QED BY <1>1, <1>3, <2>1, CacheAssumption DEF CacheType
  <1> QED BY <1>4, <1>5

\* set adds one token and keeps the bound.
LEMMA SetEntries ==
  ASSUME CacheType, NEW t \in Tokens
  PROVE  /\ AfterSet(t) \in Seq(Tokens)
         /\ Len(AfterSet(t)) <= MaxEntries
         /\ IsInjective(AfterSet(t))
         /\ Range(AfterSet(t)) \subseteq Range(entries) \cup {t}
  <1> DEFINE w == Without(t)
             all == Append(w, t)
             extra == Len(all) - MaxEntries
  <1>1. /\ w \in Seq(Tokens) /\ Len(w) <= Len(entries) /\ Range(w) = Range(entries) \ {t}
        /\ IsInjective(w)
    BY RemoveRange DEF CacheType, Without
  <1>2. AfterSet(t) = IF extra > 0 THEN SubSeq(all, extra + 1, Len(all)) ELSE all
    BY DEF AfterSet
  <1> HIDE DEF w
  <1>3. /\ all \in Seq(Tokens) /\ Range(all) = Range(w) \cup {t} /\ IsInjective(all)
    BY <1>1, AppendRange
  <1> HIDE DEF all
  <1>4. Len(all) \in Nat /\ MaxEntries \in Nat \ {0}
    BY <1>3, CacheAssumption
  <1>5. CASE extra > 0
    <2>1. extra \in 0 .. Len(all)
      BY <1>4, <1>5
    <2> HIDE DEF extra
    <2>2. /\ SubSeq(all, extra + 1, Len(all)) \in Seq(Tokens)
          /\ IsInjective(SubSeq(all, extra + 1, Len(all)))
          /\ Range(SubSeq(all, extra + 1, Len(all))) \subseteq Range(all)
      BY <1>3, <2>1, SplitRange
    <2>3. Len(SubSeq(all, extra + 1, Len(all))) = Len(all) - extra
      BY <1>3, <2>1
    <2>4. Len(all) - extra = MaxEntries
      BY <1>4 DEF extra
    <2> QED BY <1>1, <1>2, <1>3, <1>4, <1>5, <2>2, <2>3, <2>4
  <1>6. CASE ~(extra > 0)
    BY <1>1, <1>2, <1>3, <1>4, <1>6
  <1> QED BY <1>5, <1>6

\* A validation outlives every step that leaves the tokens alone and takes no request
\* back before its call.
LEMMA ValidationsLast ==
  ASSUME UNCHANGED token,
         \A q \in Requests : Called(q) =>
           Called(q)' /\ source'[q] = source[q] /\ verdict'[q] = verdict[q]
  PROVE  \A t : Validated(t) => Validated(t)'
  <1> SUFFICES ASSUME NEW t, NEW l \in Requests, ValidatedBy(l, t) PROVE ValidatedBy(l, t)'
    BY DEF Validated
  <1> QED BY DEF ValidatedBy

\* A hit was validated and has not expired at the time read now; a leader and a follower
\* have a source.
LEMMA ArriveCache ==
  ASSUME CallInv, CacheInv, NEW r \in Requests, Arrive(r) PROVE CacheInv'
  <1>0. PICK t : t = token[r]
    OBVIOUS
  <1> DEFINE hit == Hit(t, now)
             next == CASE hit -> "IDENTIFIED"
                       [] ~hit /\ inFlight[t] = NoRequest -> "CALLING"
                       [] OTHER -> "FOLLOWING"
             from == IF next = "FOLLOWING" THEN inFlight[t]
                     ELSE IF next = "CALLING" THEN r ELSE NoRequest
  <1> USE DEF CacheInv
  <1>1. /\ next \in {"IDENTIFIED", "CALLING", "FOLLOWING"}
        /\ next = "IDENTIFIED" => hit
        /\ next = "FOLLOWING" => inFlight[t] # NoRequest
    OBVIOUS
  <1>2. /\ phase[r] = "NEW"
        /\ nowMs' = [nowMs EXCEPT ![r] = now]
        /\ entries' = AfterGet(t, now)
        /\ phase' = [phase EXCEPT ![r] = next]
        /\ source' = [source EXCEPT ![r] = from]
        /\ UNCHANGED <<now, expiresAt, accepted, token, verdict, audited>>
    BY <1>0 DEF Arrive
  <1>3. t \in Tokens
    BY <1>0 DEF CallInv, PhaseType
  <1>4. hit => t \in Range(entries) /\ now < expiresAt[t]
    BY DEF Hit, Cached, ToSet, Range
  <1>5. /\ AfterGet(t, now) \in Seq(Tokens) /\ Len(AfterGet(t, now)) <= MaxEntries
        /\ IsInjective(AfterGet(t, now)) /\ Range(AfterGet(t, now)) \subseteq Range(entries)
    BY <1>3, GetEntries
  <1>6. from \in Requests \cup {NoRequest}
    BY <1>3 DEF CallInv, PhaseType
  <1>7. /\ next = "CALLING" => from = r
        /\ next = "FOLLOWING" => from # NoRequest
    BY <1>1
  <1> HIDE DEF next, from, hit
  <1>8. CacheType'
    BY <1>2, <1>5, <1>6 DEF CacheType
  <1>9. \A q \in Requests : q # r =>
          phase'[q] = phase[q] /\ source'[q] = source[q] /\ nowMs'[q] = nowMs[q]
    BY <1>2 DEF CallInv, PhaseType, CacheType
  <1>10. phase'[r] = next /\ source'[r] = from /\ nowMs'[r] = now
    BY <1>2 DEF CallInv, PhaseType, CacheType
  <1>11. \A x : Validated(x) => Validated(x)'
    BY <1>2, <1>9, ValidationsLast DEF Called
  <1>12. EntriesAreValidated'
    BY <1>2, <1>5, <1>11 DEF EntriesAreValidated, Reportable
  <1>13. Sourced'
    BY <1>1, <1>7, <1>9, <1>10 DEF Sourced
  <1>14. HitsWereValid'
    <2>1. FromCache(r)' => Reportable(t)' /\ now < expiresAt[t] /\ Validated(t)'
      BY <1>1, <1>2, <1>4, <1>10, <1>11 DEF FromCache, PassedValidation, EntriesAreValidated, Reportable
    <2>2. \A q \in Requests : q # r => (FromCache(q)' <=> FromCache(q))
      BY <1>9 DEF FromCache, PassedValidation
    <2> QED BY <1>2, <1>9, <1>10, <1>11, <1>0, <2>1, <2>2 DEF HitsWereValid, Reportable
  <1> QED BY <1>8, <1>12, <1>13, <1>14

\* A leader stores its token only when the answer is that it is valid, and only if it
\* expires after the time the leader read.
LEMMA SettleCache ==
  ASSUME CallInv, CacheInv, NEW r \in Requests,
         NEW answer \in {"VALID", "INVALID", "UNAVAILABLE"}, Settle(r, answer)
  PROVE  CacheInv'
  <1> USE DEF CacheInv
  <1>1. /\ phase[r] = "CALLING" /\ phase' = [phase EXCEPT ![r] = "AUDITING"]
        /\ verdict' = [verdict EXCEPT ![r] = answer]
        /\ entries' = IF answer = "VALID" /\ Storable(r) THEN AfterSet(token[r]) ELSE entries
        /\ UNCHANGED <<now, expiresAt, accepted, token, nowMs, source, audited>>
    BY DEF Settle
  <1>2. /\ token[r] \in Tokens /\ phase'[r] = "AUDITING" /\ verdict'[r] = answer
        /\ source[r] = r
        /\ \A q \in Requests : q # r => phase'[q] = phase[q] /\ verdict'[q] = verdict[q]
    BY <1>1 DEF CallInv, PhaseType, CacheType, Sourced
  <1>3. /\ AfterSet(token[r]) \in Seq(Tokens) /\ Len(AfterSet(token[r])) <= MaxEntries
        /\ IsInjective(AfterSet(token[r]))
        /\ Range(AfterSet(token[r])) \subseteq Range(entries) \cup {token[r]}
    BY <1>2, SetEntries
  <1>4. CacheType'
    BY <1>1, <1>3 DEF CacheType
  <1>5. \A x : Validated(x) => Validated(x)'
    BY <1>1, <1>2, ValidationsLast DEF Called
  <1>6. answer = "VALID" => Validated(token[r])'
    BY <1>1, <1>2 DEF Validated, ValidatedBy, Called
  <1>7. Storable(r) => Reportable(token[r])
    BY <1>2 DEF Storable, Reportable, NotReported, CacheType
  <1>8. EntriesAreValidated'
    BY <1>1, <1>3, <1>5, <1>6, <1>7 DEF EntriesAreValidated, Reportable
  <1>9. Sourced'
    BY <1>1, <1>2 DEF Sourced
  <1>10. HitsWereValid'
    <2>1. ~FromCache(r)'
      BY <1>2 DEF FromCache, PassedValidation
    <2>2. \A q \in Requests : q # r => (FromCache(q)' <=> FromCache(q))
      BY <1>1, <1>2 DEF FromCache, PassedValidation
    <2> QED BY <1>1, <1>5, <2>1, <2>2 DEF HitsWereValid, Reportable
  <1> QED BY <1>4, <1>8, <1>9, <1>10

\* Any other step leaves the cache and the verdicts of settled calls alone.
LEMMA QuietCache ==
  ASSUME CallInv, CacheInv, NEW r \in Requests,
         UNCHANGED <<expiresAt, token, nowMs, source, entries>>,
         CacheType',
         Called(r) => verdict'[r] = verdict[r],
         \A q \in Requests : q # r => phase'[q] = phase[q] /\ verdict'[q] = verdict[q],
         \/ phase'[r] = phase[r]
         \/ /\ phase[r] \in {"FOLLOWING", "AUDITING"} \/ PassedValidation(r)
            /\ PassedValidation(r)'
  PROVE  CacheInv'
  <1> USE DEF CacheInv
  <1>1. \A q \in Requests : Called(q) => Called(q)' /\ verdict'[q] = verdict[q]
    BY DEF Called, PassedValidation
  <1>2. \A x : Validated(x) => Validated(x)'
    BY <1>1, ValidationsLast
  <1>3. EntriesAreValidated'
    BY <1>2 DEF EntriesAreValidated, Reportable
  <1>4. Sourced'
    BY DEF Sourced, PassedValidation
  <1>5. \A q \in Requests : FromCache(q)' => FromCache(q)
    BY CacheAssumption DEF FromCache, PassedValidation, Sourced, CallInv, PhaseType
  <1>6. HitsWereValid'
    BY <1>2, <1>5 DEF HitsWereValid, Reportable
  <1> QED BY <1>3, <1>4, <1>6

LEMMA CacheQuietSteps ==
  ASSUME CallInv, CacheInv, NEW r \in Requests, Decide(r) \/ Audit(r) \/ Follow(r)
  PROVE  CacheInv'
  <1> USE DEF CallInv, CacheInv, PhaseType, CacheType
  <1>1. CASE Decide(r)
    <2>1. /\ phase[r] = "CALLING"
          /\ \E v \in {"VALID", "INVALID"} : verdict' = [verdict EXCEPT ![r] = v]
          /\ UNCHANGED <<now, expiresAt, accepted, phase, token, nowMs, source, entries, audited>>
      BY <1>1 DEF Decide
    <2>2. CacheType'
      BY <2>1
    <2> QED BY <2>1, <2>2, QuietCache DEF Called
  <1>2. CASE Audit(r)
    <2>1. /\ phase[r] = "AUDITING" /\ audited' = audited \cup {r}
          /\ \E p \in {"IDENTIFIED", "REFUSED"} : phase' = [phase EXCEPT ![r] = p]
          /\ UNCHANGED <<now, expiresAt, accepted, token, nowMs, source, verdict, entries>>
      BY <1>2 DEF Audit, Outcome
    <2>2. CacheType'
      BY <2>1
    <2> QED BY <2>1, <2>2, QuietCache DEF PassedValidation
  <1>3. CASE Follow(r)
    <2>1. /\ phase[r] = "FOLLOWING"
          /\ \E p \in {"IDENTIFIED", "REFUSED"} : phase' = [phase EXCEPT ![r] = p]
          /\ UNCHANGED <<now, expiresAt, accepted, token, nowMs, source, verdict, entries, audited>>
      BY <1>3 DEF Follow, Outcome
    <2>2. CacheType'
      BY <2>1
    <2> QED BY <2>1, <2>2, QuietCache DEF PassedValidation
  <1> QED BY <1>1, <1>2, <1>3

LEMMA CacheNextInv == CallInv /\ CacheInv /\ [Next]_vars => CacheInv'
  <1> SUFFICES ASSUME CallInv, CacheInv, [Next]_vars PROVE CacheInv'
    OBVIOUS
  <1>1. ASSUME NEW r \in Requests, RequestStep(r) PROVE CacheInv'
    BY <1>1, ArriveCache, SettleCache, CacheQuietSteps DEF RequestStep
  <1>2. ASSUME NEW r \in Requests, AdmissionStep(r) PROVE CacheInv'
    <2>1. /\ \E p \in {"ROUTED", "LOADING", "ADMITTED", "REFUSED"} :
               phase' = [phase EXCEPT ![r] = p]
          /\ UNCHANGED <<now, expiresAt, accepted, token, nowMs, source, verdict, entries, audited>>
      <3> USE DEF Become, OnlyPhaseAnd
      <3>1. CASE ReadRoute(r)
        BY <3>1 DEF ReadRoute
      <3>2. CASE OpenSnapshot(r)
        BY <3>2 DEF OpenSnapshot
      <3>3. CASE ReadRules(r)
        BY <3>3 DEF ReadRules, LoadRest
      <3> QED BY <1>2, <3>1, <3>2, <3>3 DEF AdmissionStep
    <2>2. CacheType'
      BY <2>1 DEF CacheInv, CacheType
    <2>3. /\ PassedValidation(r) /\ PassedValidation(r)'
          /\ \A q \in Requests : q # r => phase'[q] = phase[q]
      BY <1>2, <2>1, AdmissionStepFacts DEF PassedValidation, CallInv, PhaseType
    <2> QED BY <2>1, <2>2, <2>3, QuietCache
  <1>3. ASSUME \/ UNCHANGED vars \/ Reconfigure \/ Tick
               \/ \E t \in Tokens : RevokeToken(t)
        PROVE  CacheInv'
    <2>1. /\ UNCHANGED <<expiresAt, phase, token, nowMs, source, verdict, entries, audited>>
          /\ now' \in {now, now + 1} /\ (now' # now => now < MaxTime)
          /\ accepted' \subseteq accepted
      BY <1>3 DEF vars, cacheVars, Reconfigure, Tick, RevokeToken
    <2>2. CacheType'
      BY <2>1, CacheAssumption DEF CacheInv, CacheType
    <2>3. \A x : Validated(x) => Validated(x)'
      BY <2>1, ValidationsLast DEF Called
    <2>4. EntriesAreValidated' /\ Sourced' /\ HitsWereValid'
      BY <2>1, <2>3 DEF CacheInv, EntriesAreValidated, Sourced, HitsWereValid, FromCache,
                        PassedValidation, Reportable
    <2> QED BY <2>2, <2>4 DEF CacheInv
  <1> QED BY <1>1, <1>2, <1>3 DEF Next, CacheNext

\* An identity is reused without asking the upstream only for a token that was validated,
\* and never by a request that arrived after its expiry (BuntuTokenCredentialAuthenticator
\* over InMemoryBuntuValidationCache).
THEOREM ReuseIsBounded == Spec => []ReuseEndsWithToken
  <1>1. CacheInv => ReuseEndsWithToken
    BY DEF CacheInv, HitsWereValid, FromCache, Reportable, Validated, ValidatedBy,
           ReuseEndsWithToken
  <1>2. CallInv /\ CacheInv /\ [Next]_vars => (CallInv /\ CacheInv)'
    BY CallNext, CacheNextInv
  <1>3. AdmissionInit => CallInv /\ CacheInv
    BY CallInit, CacheInit
  <1> QED BY <1>1, <1>2, <1>3, PTL DEF Spec

----------------------------------------------------------------------------
(* Followers. *)

Identified(r) == phase[r] \in {"IDENTIFIED", "ROUTED", "LOADING", "ADMITTED"}

\* What is registered for a token is a call about that token that has not settled.
RegisteredCall ==
  \A t \in Tokens : inFlight[t] # NoRequest =>
    phase[inFlight[t]] = "CALLING" /\ token[inFlight[t]] = t

\* A follower waits for a call about its own token, and for one that was made.
FollowsOwnToken ==
  \A r \in Requests : phase[r] = "FOLLOWING" =>
    /\ source[r] \in Requests
    /\ token[source[r]] = token[r]
    /\ source[source[r]] = source[r]
    /\ phase[source[r]] \notin {"NEW", "FOLLOWING"}

IdentifiedAreValidated == \A r \in Requests : Identified(r) => Validated(token[r])

FollowInv == RegisteredCall /\ FollowsOwnToken /\ IdentifiedAreValidated

LEMMA FollowInit == AdmissionInit => FollowInv
  BY DEF AdmissionInit, Init, FollowInv, RegisteredCall, FollowsOwnToken,
         IdentifiedAreValidated, Identified

\* A request is identified by the cache, follows the registered call or makes one.
LEMMA ArriveFollow ==
  ASSUME CallInv, CacheInv, FollowInv, NEW r \in Requests, Arrive(r)
  PROVE  FollowInv'
  <1> DEFINE t == token[r]
             hit == Hit(t, now)
             next == CASE hit -> "IDENTIFIED"
                       [] ~hit /\ inFlight[t] = NoRequest -> "CALLING"
                       [] OTHER -> "FOLLOWING"
             from == IF next = "FOLLOWING" THEN inFlight[t]
                     ELSE IF next = "CALLING" THEN r ELSE NoRequest
  <1>1. /\ next \in {"IDENTIFIED", "CALLING", "FOLLOWING"}
        /\ next = "IDENTIFIED" => hit
        /\ next = "FOLLOWING" => inFlight[t] # NoRequest
    OBVIOUS
  <1>2. /\ phase[r] = "NEW"
        /\ phase' = [phase EXCEPT ![r] = next]
        /\ inFlight' = IF next = "CALLING" THEN [inFlight EXCEPT ![t] = r] ELSE inFlight
        /\ source' = [source EXCEPT ![r] = from]
        /\ UNCHANGED <<token, verdict>>
    BY DEF Arrive, Register
  <1>3. t \in Tokens /\ t = token[r]
    BY DEF CallInv, PhaseType
  <1>4. hit => Validated(t)
    BY DEF Hit, Cached, ToSet, Range, CacheInv, EntriesAreValidated
  <1>5. next = "FOLLOWING" => from = inFlight[t]
    OBVIOUS
  <1> HIDE DEF next, from, hit, t
  <1>6. /\ phase'[r] = next /\ source'[r] = from
        /\ \A q \in Requests : q # r => phase'[q] = phase[q] /\ source'[q] = source[q]
    BY <1>2 DEF CallInv, PhaseType, CacheInv, CacheType
  <1>7. RegisteredCall'
    BY <1>1, <1>2, <1>3, <1>6 DEF FollowInv, RegisteredCall, CallInv, PhaseType
  <1>8. next = "FOLLOWING" =>
          /\ from \in Requests \ {r} /\ phase[from] = "CALLING" /\ token[from] = t
          /\ source[from] = from
    BY <1>1, <1>2, <1>3, <1>5 DEF FollowInv, RegisteredCall, CallInv, PhaseType, CacheInv, Sourced
  <1>9. FollowsOwnToken'
    <2> SUFFICES ASSUME NEW q \in Requests, phase'[q] = "FOLLOWING"
                 PROVE  /\ source'[q] \in Requests
                        /\ token'[source'[q]] = token'[q]
                        /\ source'[source'[q]] = source'[q]
                        /\ phase'[source'[q]] \notin {"NEW", "FOLLOWING"}
      BY DEF FollowsOwnToken
    <2>1. CASE q = r
      BY <2>1, <1>2, <1>3, <1>6, <1>8
    <2>2. CASE q # r
      BY <2>2, <1>2, <1>6 DEF FollowInv, FollowsOwnToken
    <2> QED BY <2>1, <2>2
  <1>10. \A x : Validated(x) => Validated(x)'
    BY <1>2, <1>6, ValidationsLast DEF Called
  <1>11. IdentifiedAreValidated'
    BY <1>1, <1>2, <1>3, <1>4, <1>6, <1>10
       DEF FollowInv, IdentifiedAreValidated, Identified
  <1> QED BY <1>7, <1>9, <1>11 DEF FollowInv

\* A call that settles is no longer registered; its followers still wait for it.
LEMMA SettleFollow ==
  ASSUME CallInv, CacheInv, FollowInv, NEW r \in Requests, NEW answer, Settle(r, answer)
  PROVE  FollowInv'
  <1>1. /\ phase[r] = "CALLING" /\ phase' = [phase EXCEPT ![r] = "AUDITING"]
        /\ verdict' = [verdict EXCEPT ![r] = answer]
        /\ inFlight' = [inFlight EXCEPT ![token[r]] = NoRequest]
        /\ UNCHANGED <<token, source>>
    BY DEF Settle
  <1>2. /\ token[r] \in Tokens /\ phase'[r] = "AUDITING"
        /\ \A q \in Requests : q # r => phase'[q] = phase[q] /\ verdict'[q] = verdict[q]
    BY <1>1 DEF CallInv, PhaseType, CacheInv, CacheType
  <1>3. RegisteredCall'
    BY <1>1, <1>2 DEF FollowInv, RegisteredCall, CallInv, PhaseType
  <1>4. FollowsOwnToken'
    BY <1>1, <1>2 DEF FollowInv, FollowsOwnToken
  <1>5. \A x : Validated(x) => Validated(x)'
    BY <1>1, <1>2, ValidationsLast DEF Called
  <1>6. IdentifiedAreValidated'
    BY <1>1, <1>2, <1>5 DEF FollowInv, IdentifiedAreValidated, Identified
  <1> QED BY <1>3, <1>4, <1>6 DEF FollowInv

\* A step of one request that neither makes nor settles a call keeps the invariant, if a
\* request it identifies has a validated token.
LEMMA QuietFollow ==
  ASSUME CallInv, FollowInv, NEW r \in Requests, NEW p,
         phase' = [phase EXCEPT ![r] = p],
         phase[r] \notin {"NEW", "CALLING"}, p \notin {"NEW", "CALLING", "FOLLOWING"},
         UNCHANGED <<inFlight, token, source, verdict>>,
         Identified(r)' => Validated(token[r])
  PROVE  FollowInv'
  <1>1. /\ phase'[r] = p
        /\ \A q \in Requests : q # r => phase'[q] = phase[q]
    BY DEF CallInv, PhaseType
  <1>2. RegisteredCall'
    BY <1>1 DEF FollowInv, RegisteredCall, CallInv, PhaseType
  <1>3. FollowsOwnToken'
    BY <1>1 DEF FollowInv, FollowsOwnToken
  <1>4. \A x : Validated(x) => Validated(x)'
    BY <1>1, ValidationsLast DEF Called
  <1>5. IdentifiedAreValidated'
    BY <1>1, <1>4 DEF FollowInv, IdentifiedAreValidated, Identified
  <1> QED BY <1>2, <1>3, <1>5 DEF FollowInv

LEMMA FollowNext == CallInv /\ CacheInv /\ FollowInv /\ [Next]_vars => FollowInv'
  <1> SUFFICES ASSUME CallInv, CacheInv, FollowInv, [Next]_vars PROVE FollowInv'
    OBVIOUS
  <1>1. ASSUME UNCHANGED <<phase, inFlight, token, source>>,
               \A q \in Requests : Called(q) => verdict'[q] = verdict[q]
        PROVE  FollowInv'
    <2>1. \A x : Validated(x) => Validated(x)'
      BY <1>1, ValidationsLast DEF Called
    <2> QED BY <1>1, <2>1 DEF FollowInv, RegisteredCall, FollowsOwnToken,
                              IdentifiedAreValidated, Identified
  <1>2. ASSUME NEW r \in Requests, Decide(r) PROVE FollowInv'
    <2>1. /\ phase[r] = "CALLING"
          /\ \E v : verdict' = [verdict EXCEPT ![r] = v]
          /\ UNCHANGED <<phase, inFlight, token, source>>
      BY <1>2 DEF Decide
    <2>2. \A q \in Requests : Called(q) => verdict'[q] = verdict[q]
      BY <2>1 DEF Called, CacheInv, CacheType
    <2> QED BY <1>1, <2>1, <2>2
  <1>3. ASSUME NEW r \in Requests, Audit(r) PROVE FollowInv'
    <2>1. /\ phase[r] = "AUDITING" /\ phase' = [phase EXCEPT ![r] = Outcome(verdict[r])]
          /\ UNCHANGED <<inFlight, token, source, verdict>>
      BY <1>3 DEF Audit
    <2>2. verdict[r] = "VALID" => Validated(token[r])
      BY <2>1 DEF CacheInv, Sourced, Validated, ValidatedBy, Called
    <2>3. PICK p \in {"IDENTIFIED", "REFUSED"} :
            phase' = [phase EXCEPT ![r] = p] /\ (p = "IDENTIFIED" => verdict[r] = "VALID")
      BY <2>1 DEF Outcome
    <2>4. Identified(r)' => Validated(token[r])
      BY <2>2, <2>3 DEF Identified, CallInv, PhaseType
    <2> QED BY <2>1, <2>3, <2>4, QuietFollow
  <1>4. ASSUME NEW r \in Requests, Follow(r) PROVE FollowInv'
    <2>1. /\ phase[r] = "FOLLOWING" /\ Settled(source[r])
          /\ phase' = [phase EXCEPT ![r] = Outcome(verdict[source[r]])]
          /\ UNCHANGED <<inFlight, token, source, verdict>>
      BY <1>4 DEF Follow
    <2>2. verdict[source[r]] = "VALID" => Validated(token[r])
      BY <2>1 DEF FollowInv, FollowsOwnToken, Validated, ValidatedBy, Called, Settled
    <2>3. PICK p \in {"IDENTIFIED", "REFUSED"} :
            phase' = [phase EXCEPT ![r] = p] /\ (p = "IDENTIFIED" => verdict[source[r]] = "VALID")
      BY <2>1 DEF Outcome
    <2>4. Identified(r)' => Validated(token[r])
      BY <2>2, <2>3 DEF Identified, CallInv, PhaseType
    <2> QED BY <2>1, <2>3, <2>4, QuietFollow
  <1>5. ASSUME NEW r \in Requests, AdmissionStep(r) PROVE FollowInv'
    <2>1. PICK p \in {"ROUTED", "LOADING", "ADMITTED", "REFUSED"} :
            /\ phase' = [phase EXCEPT ![r] = p]
            /\ UNCHANGED <<inFlight, token, source, verdict>>
      <3> USE DEF Become, OnlyPhaseAnd
      <3>1. CASE ReadRoute(r)
        BY <3>1 DEF ReadRoute
      <3>2. CASE OpenSnapshot(r)
        BY <3>2 DEF OpenSnapshot
      <3>3. CASE ReadRules(r)
        BY <3>3 DEF ReadRules, LoadRest
      <3> QED BY <1>5, <3>1, <3>2, <3>3 DEF AdmissionStep
    <2>2. phase[r] \in {"IDENTIFIED", "ROUTED", "LOADING"} /\ Validated(token[r])
      BY <1>5, AdmissionStepFacts DEF FollowInv, IdentifiedAreValidated, Identified
    <2> QED BY <2>1, <2>2, QuietFollow
  <1>6. CASE UNCHANGED vars \/ Reconfigure \/ Tick \/ \E t \in Tokens : RevokeToken(t)
    BY <1>1, <1>6 DEF vars, cacheVars, Reconfigure, Tick, RevokeToken
  <1>7. ASSUME NEW r \in Requests, NEW answer, Settle(r, answer) PROVE FollowInv'
    BY <1>7, SettleFollow
  <1> QED BY <1>2, <1>3, <1>4, <1>5, <1>6, <1>7, ArriveFollow DEF Next, CacheNext, RequestStep

\* Nobody is identified, routed or admitted with a token the upstream service has not
\* called valid, in a call that settled: neither the leader of the call, nor a request that
\* joined it, nor one the cache answered (authenticate and resolveLiveValidation of
\* BuntuTokenCredentialAuthenticator).
THEOREM EveryIdentityWasValidated == Spec => []IdentifiedAreValidated
  <1>1. CallInv /\ CacheInv /\ FollowInv /\ [Next]_vars => (CallInv /\ CacheInv /\ FollowInv)'
    BY CallNext, CacheNextInv, FollowNext
  <1>2. AdmissionInit => CallInv /\ CacheInv /\ FollowInv
    BY CallInit, CacheInit, FollowInit
  <1>3. FollowInv => IdentifiedAreValidated
    BY DEF FollowInv
  <1> QED BY <1>1, <1>2, <1>3, PTL DEF Spec

----------------------------------------------------------------------------
(* Types. *)

SnapshotType(s) ==
  /\ s.route \in {Absent} \cup RouteRow
  /\ \A p \in s.policies : p[1] \in Policies /\ p[2] \in PolicyRow
  /\ \A f \in s.rules : f[1] \in Rules /\ f[2] \in RuleRow

RowTypes ==
  \A r \in Requests : IsConfiguration(view[r]) /\ SnapshotType(snapshot[r])

\* A row that exists has the type of its table.
LEMMA RowsOfConfiguration ==
  ASSUME NEW d, IsConfiguration(d)
  PROVE  /\ \A k \in Routes : Exists(d, k) => d[k] \in RouteRow
         /\ \A k \in Policies : Exists(d, k) => d[k] \in PolicyRow
         /\ \A k \in Rules : Exists(d, k) => d[k] \in RuleRow
  <1>1. \A k \in Keys : d[k] \in RowOf(k)
    BY DEF IsConfiguration
  <1>2. Absent.version = 0 /\ Gone.version = 0
    BY DEF Absent, Gone
  <1>3. \A k \in Keys : Exists(d, k) => d[k] \notin {Absent, Gone}
    BY <1>2 DEF Exists
  <1>4. \A k \in Routes : RowOf(k) = {Absent, Gone} \cup RouteRow
    BY RowIdsAreDisjoint, Zenon DEF RowOf
  <1>5. \A k \in Policies : RowOf(k) = {Absent, Gone} \cup PolicyRow
    BY RowIdsAreDisjoint, Zenon DEF RowOf
  <1>6. \A k \in Rules : RowOf(k) = {Absent, Gone} \cup RuleRow
    BY RowIdsAreDisjoint, Zenon DEF RowOf
  <1> QED BY <1>1, <1>3, <1>4, <1>5, <1>6 DEF Keys

LEMMA EmptyTypes == IsConfiguration(EmptyConfiguration) /\ SnapshotType(EmptySnapshot)
  BY DEF IsConfiguration, EmptyConfiguration, RowOf, SnapshotType, EmptySnapshot

LEMMA RowTypesNext ==
  SnapshotInv /\ RowTypes /\ [Next]_vars => RowTypes'
  <1> SUFFICES ASSUME SnapshotInv, RowTypes, [Next]_vars PROVE RowTypes'
    OBVIOUS
  <1>1. CASE UNCHANGED <<view, snapshot>>
    BY <1>1 DEF RowTypes
  <1>2. ASSUME NEW r \in Requests, OpenSnapshot(r) PROVE RowTypes'
    <2>1. IsConfiguration(db)
      BY InitialConfigurationsAreConsistent DEF SnapshotInv, SnapshotShape
    <2>2. PICK row \in {Absent} \cup RouteRowsOf(db, UserOf[token[r]]) :
            snapshot' = [snapshot EXCEPT ![r].route = row,
                                         ![r].policies = Rows(db, EnabledPolicies(db))]
      BY <1>2 DEF OpenSnapshot
    <2>3. view' = [view EXCEPT ![r] = db]
      BY <1>2 DEF OpenSnapshot
    <2>4. row \in {Absent} \cup RouteRow
      BY <2>1, RowsOfConfiguration DEF RouteRowsOf, RoutesOf
    <2>5. \A p \in Rows(db, EnabledPolicies(db)) : p[1] \in Policies /\ p[2] \in PolicyRow
      <3>1. \A k \in EnabledPolicies(db) : k \in Policies /\ db[k] \in PolicyRow
        BY <2>1, RowsOfConfiguration DEF EnabledPolicies
      <3> QED BY <3>1 DEF Rows
    <2>6. /\ \A q \in Requests : q # r => snapshot'[q] = snapshot[q] /\ view'[q] = view[q]
          /\ snapshot'[r].route = row
          /\ snapshot'[r].policies = Rows(db, EnabledPolicies(db))
          /\ snapshot'[r].rules = snapshot[r].rules
          /\ view'[r] = db
      BY <2>2, <2>3 DEF SnapshotInv, SnapshotShape
    <2>7. SnapshotType(snapshot'[r])
      BY <2>4, <2>5, <2>6 DEF RowTypes, SnapshotType
    <2> QED BY <2>1, <2>6, <2>7 DEF RowTypes
  <1>3. ASSUME NEW r \in Requests, ReadRules(r) PROVE RowTypes'
    <2>d. PICK d : d = view[r]
      OBVIOUS
    <2>1. /\ view' = [view EXCEPT ![r] = EmptyConfiguration]
          /\ \/ snapshot' = [snapshot EXCEPT ![r].rules = Rows(d, EnabledRulesOfAll(d, snapshot[r].policies))]
             \/ snapshot' = [snapshot EXCEPT ![r] = EmptySnapshot]
      BY <1>3, <2>d DEF ReadRules, LoadRest
    <2>2. \A f \in Rows(d, EnabledRulesOfAll(d, snapshot[r].policies)) :
            f[1] \in Rules /\ f[2] \in RuleRow
      <3>1. \A k \in EnabledRulesOfAll(d, snapshot[r].policies) : k \in Rules /\ d[k] \in RuleRow
        BY <2>d, RowsOfConfiguration DEF RowTypes, EnabledRulesOfAll, EnabledRulesOf
      <3> QED BY <3>1 DEF Rows
    <2>3. /\ \A q \in Requests : q # r => snapshot'[q] = snapshot[q] /\ view'[q] = view[q]
          /\ view'[r] = EmptyConfiguration
      BY <2>1 DEF SnapshotInv, SnapshotShape
    <2>4. SnapshotType(snapshot'[r])
      <3>1. CASE snapshot' = [snapshot EXCEPT ![r] = EmptySnapshot]
        BY <3>1, EmptyTypes DEF SnapshotInv, SnapshotShape
      <3>2. CASE snapshot' = [snapshot EXCEPT ![r].rules = Rows(d, EnabledRulesOfAll(d, snapshot[r].policies))]
        <4>1. /\ snapshot'[r].route = snapshot[r].route
              /\ snapshot'[r].policies = snapshot[r].policies
              /\ snapshot'[r].rules = Rows(d, EnabledRulesOfAll(d, snapshot[r].policies))
          BY <3>2 DEF SnapshotInv, SnapshotShape
        <4> QED BY <4>1, <2>2 DEF RowTypes, SnapshotType
      <3> QED BY <2>1, <3>1, <3>2
    <2> QED BY <2>3, <2>4, EmptyTypes DEF RowTypes
  <1>4. CASE (CacheNext /\ UNCHANGED admissionVars) \/ Reconfigure \/ UNCHANGED vars
             \/ \E r \in Requests : ReadRoute(r)
    BY <1>1, <1>4 DEF admissionVars, Reconfigure, vars, ReadRoute, OnlyPhaseAnd
  <1> QED BY <1>2, <1>3, <1>4 DEF Next, AdmissionStep

\* Every variable keeps its type; the cache is bounded and holds no token twice.
THEOREM TypeCorrect == Spec => []TypeOK
  <1>1. AdmissionInit => CallInv /\ CacheInv /\ SnapshotInv /\ RowTypes
    <2>1. AdmissionInit => RowTypes
      BY EmptyTypes DEF AdmissionInit, RowTypes
    <2> QED BY <2>1, CallInit, CacheInit, SnapshotInit
  <1>2. CallInv /\ CacheInv /\ SnapshotInv /\ RowTypes /\ [Next]_vars
          => (CallInv /\ CacheInv /\ SnapshotInv /\ RowTypes)'
    BY CallNext, CacheNextInv, SnapshotNext, RowTypesNext
  <1>3. CallInv /\ CacheInv /\ SnapshotInv /\ RowTypes => TypeOK
    BY DEF CallInv, PhaseType, CacheInv, CacheType, SnapshotInv, SnapshotShape, RowTypes,
           SnapshotType, TypeOK
  <1> QED BY <1>1, <1>2, <1>3, PTL DEF Spec
=============================================================================
