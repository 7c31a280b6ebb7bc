------------------------------ MODULE AdminStore ------------------------------
(***************************************************************************)
(* ControlPlaneAdminService over MySQL.  Administrators load a             *)
(* configuration page, and later submit one change with the row_versions   *)
(* the page carried.  A change is a transaction: it first takes the        *)
(* sentinel row FOR UPDATE, opens its REPEATABLE READ view with its first  *)
(* SELECT, checks, writes, appends its Admin audit and commits.  SELECTs   *)
(* read the view; the WHERE clause of an UPDATE or DELETE and the unique   *)
(* indexes see the latest committed rows.  Every transaction may fail at   *)
(* any point: a refused check, a lost connection, a failed audit insert, a *)
(* lock wait timeout or a crash of the process all roll it back.           *)
(*                                                                         *)
(* Inputs are chosen when the transaction writes; nothing looks at them    *)
(* earlier.  The audit rows of one transaction are counted as one.         *)
(***************************************************************************)
EXTENDS ControlPlane

CONSTANTS
  Admins,       \* admin requests in flight at the same time
  NoAdmin,      \* nobody holds the sentinel
  MaxChanges    \* bound: committed changes

ASSUME AdminStoreAssumption == NoAdmin \notin Admins /\ MaxChanges \in Nat

VARIABLES
  db,           \* the committed configuration
  audits,       \* committed configuration changes that have their Admin audit
  sentinel,     \* the transaction that holds the sentinel row
  phase,        \* where each administrator's request is
  seen,         \* the configuration each administrator's page was loaded with
  view,         \* the read view of each transaction
  writes        \* the rows each transaction has written so far

vars == <<db, audits, sentinel, phase, seen, view, writes>>

Phases == {"IDLE", "LOCKED", "WRITTEN", "AUDITED"}

NoWrites == [k \in {} |-> Absent]

Init ==
  /\ db \in InitialConfigurations
  /\ audits = 0
  /\ sentinel = NoAdmin
  /\ phase = [a \in Admins |-> "IDLE"]
  /\ seen = [a \in Admins |-> db]
  /\ view = [a \in Admins |-> EmptyConfiguration]
  /\ writes = [a \in Admins |-> NoWrites]

----------------------------------------------------------------------------
\* The page an administrator works on, or the configuration a verification probes.
Load(a) ==
  /\ phase[a] = "IDLE"
  /\ seen[a] # db
  /\ seen' = [seen EXCEPT ![a] = db]
  /\ UNCHANGED <<db, audits, sentinel, phase, view, writes>>

\* Faulty variant: the transaction does not select the sentinel FOR UPDATE.
LockWithoutSentinel(a) ==
  /\ phase[a] = "IDLE"
  /\ audits < MaxChanges
  /\ sentinel' = a
  /\ view' = [view EXCEPT ![a] = db]
  /\ phase' = [phase EXCEPT ![a] = "LOCKED"]
  /\ UNCHANGED <<db, audits, seen, writes>>

\* SELECT ... FOR UPDATE returns the sentinel row; the next SELECT opens the view.
Lock(a) ==
  /\ phase[a] = "IDLE"
  /\ sentinel = NoAdmin
  /\ audits < MaxChanges
  /\ sentinel' = a
  /\ view' = [view EXCEPT ![a] = db]
  /\ phase' = [phase EXCEPT ![a] = "LOCKED"]
  /\ UNCHANGED <<db, audits, seen, writes>>

End(a) ==
  /\ sentinel' = IF sentinel = a THEN NoAdmin ELSE sentinel
  /\ phase' = [phase EXCEPT ![a] = "IDLE"]
  /\ view' = [view EXCEPT ![a] = EmptyConfiguration]
  /\ writes' = [writes EXCEPT ![a] = NoWrites]
  /\ UNCHANGED seen

AppendAudit(a) ==
  /\ phase[a] = "WRITTEN"
  /\ phase' = [phase EXCEPT ![a] = "AUDITED"]
  /\ UNCHANGED <<db, audits, sentinel, seen, view, writes>>

\* Faulty variant: the audit is appended after the commit, and may be missing.
CommitUnaudited(a) ==
  /\ phase[a] \in {"WRITTEN", "AUDITED"}
  /\ db' = Apply(writes[a], db)
  /\ audits' = IF phase[a] = "AUDITED" THEN audits + 1 ELSE audits
  /\ End(a)

Commit(a) ==
  /\ phase[a] = "AUDITED"
  /\ db' = Apply(writes[a], db)
  /\ audits' = audits + 1
  /\ End(a)

\* Also the end of a transaction that only reads, and of a batch with a refused row.
Rollback(a) ==
  /\ phase[a] # "IDLE"
  /\ End(a)
  /\ UNCHANGED <<db, audits>>

----------------------------------------------------------------------------
(***************************************************************************)
(* The statements of the repositories.                                     *)
(***************************************************************************)
\* One written row, and the rows of two sets of statements; the left one is the later one.
Row(k, x) == [j \in {k} |-> x]

v ++ w == [k \in DOMAIN v \cup DOMAIN w |-> IF k \in DOMAIN v THEN v[k] ELSE w[k]]

\* Faulty variant: a table without its unique indexes.
WriteUnconstrained(a, w) ==
  /\ phase[a] = "LOCKED"
  /\ writes' = [writes EXCEPT ![a] = w]
  /\ phase' = [phase EXCEPT ![a] = "WRITTEN"]
  /\ UNCHANGED <<db, audits, sentinel, seen, view>>

Write(a, w) ==
  /\ phase[a] = "LOCKED"
  /\ SatisfiesConstraints(Apply(w, db))
  /\ writes' = [writes EXCEPT ![a] = w]
  /\ phase' = [phase EXCEPT ![a] = "WRITTEN"]
  /\ UNCHANGED <<db, audits, sentinel, seen, view>>

\* Faulty variant: WHERE id = ? finds the row.
MatchesById(a, k) == Exists(db, k)

\* WHERE id = ? AND row_version = ? finds the row.
Matches(a, k) == Exists(db, k) /\ db[k].version = seen[a][k].version

NextVersion(k) == db[k].version + 1

\* AUTO_INCREMENT hands every id out once.
NextId(ids, k) == k \in ids /\ db[k] = Absent /\ k = CHOOSE j \in ids : db[j] = Absent

NewCredential(r) == [route |-> r, active |-> TRUE, version |-> 1]

Revoked(c) == [db[c] EXCEPT !.active = FALSE, !.version = @ + 1]

NewRoute(u, n, e) == [user |-> u, name |-> n, enabled |-> e, version |-> 1]

\* assertUserDistinctFromDiagnostic
DistinctFromDiagnostic(a, n, e) == e => ~DiagnosticUses(view[a], n)

----------------------------------------------------------------------------
(***************************************************************************)
(* Identity routes and their credentials.                                  *)
(***************************************************************************)
CreateIdentityRoute(a) ==
  \E r \in Routes, c \in Credentials, u \in Users, n \in Usernames, e \in BOOLEAN :
    /\ NextId(Routes, r) /\ NextId(Credentials, c)
    /\ DistinctFromDiagnostic(a, n, e)
    /\ Write(a, Row(r, NewRoute(u, n, e)) ++ Row(c, NewCredential(r)))

\* Two rows of one batch; the preflight refuses the whole batch for one bad row.
BatchCreateIdentityRoutes(a) ==
  \E r, s \in Routes, c, d \in Credentials, u, v \in Users, m, n \in Usernames,
     e, f \in BOOLEAN :
    /\ u # v
    /\ NextId(Routes, r) /\ NextId(Routes \ {r}, s)
    /\ NextId(Credentials, c) /\ NextId(Credentials \ {c}, d)
    /\ \A q \in Routes : Exists(view[a], q) => view[a][q].user \notin {u, v}
    /\ DistinctFromDiagnostic(a, m, e) /\ DistinctFromDiagnostic(a, n, f)
    /\ Write(a, Row(r, NewRoute(u, m, e)) ++ Row(c, NewCredential(r))
                  ++ Row(s, NewRoute(v, n, f)) ++ Row(d, NewCredential(s)))

UpdateIdentityRoute(a) ==
  \E r \in Routes, u \in Users, n \in Usernames, e \in BOOLEAN :
    /\ DistinctFromDiagnostic(a, n, e)
    /\ Exists(view[a], r)
    /\ Matches(a, r)
    /\ Write(a, Row(r, [user |-> u, name |-> n, enabled |-> e, version |-> NextVersion(r)]))

DisableIdentityRoute(a) ==
  \E r \in Routes :
    /\ Exists(view[a], r)
    /\ Matches(a, r)
    /\ Write(a, Row(r, [view[a][r] EXCEPT !.enabled = FALSE, !.version = NextVersion(r)]))

RegenerateIdentityCredential(a) ==
  \E r \in Routes, new \in Credentials :
    LET current == ActiveCredentialsOf(view[a], r)
        submitted == ActiveCredentialsOf(seen[a], r)
    IN /\ Exists(view[a], r) /\ view[a][r].version = seen[a][r].version
       /\ current = submitted
       /\ \A c \in current : view[a][c].version = seen[a][c].version /\ Matches(a, c)
       /\ NextId(Credentials, new)
       /\ Write(a, [c \in current |-> Revoked(c)] ++ Row(new, NewCredential(r)))

\* The active token is revoked at the version of the view.  deleteByRouteId is a DELETE: it
\* removes the rows committed now, not those of the view.
DeleteIdentityRoute(a) ==
  \E r \in Routes :
    /\ Exists(view[a], r) /\ view[a][r].version = seen[a][r].version
    /\ ~view[a][r].enabled
    /\ \A c \in ActiveCredentialsOf(view[a], r) :
         c \in ActiveCredentialsOf(db, r) /\ db[c].version = view[a][c].version
    /\ Matches(a, r)
    /\ Write(a, Row(r, Gone) ++ [c \in {b \in Credentials : Exists(db, b) /\ db[b].route = r} |-> Gone])

----------------------------------------------------------------------------
(***************************************************************************)
(* Tool controls and runtime settings: insert when absent, else update.    *)
(***************************************************************************)
UpsertValue(a, k) ==
  \E x \in Values :
    \/ ~Exists(view[a], k) /\ db[k] = Absent /\ Write(a, Row(k, [value |-> x, version |-> 1]))
    \/ Exists(view[a], k) /\ Matches(a, k)
         /\ Write(a, Row(k, [value |-> x, version |-> NextVersion(k)]))

UpdateTool(a) == \E t \in Tools : UpsertValue(a, t)

UpdateRuntimeSetting(a) == \E s \in Settings : UpsertValue(a, s)

----------------------------------------------------------------------------
(***************************************************************************)
(* DML policies and their managed field rules.                             *)
(***************************************************************************)
\* assertMeaningfulDml
Meaningful(ops, e) == e => ops # {}

CreateDmlPolicy(a) ==
  \E p \in Policies, ops \in SUBSET PolicyOperations, e \in BOOLEAN :
    /\ Meaningful(ops, e)
    /\ NextId(Policies, p)
    /\ Write(a, Row(p, [allows |-> ops, enabled |-> e, version |-> 1]))

UpdateDmlPolicy(a) ==
  \E p \in Policies, ops \in SUBSET PolicyOperations, e \in BOOLEAN :
    /\ Meaningful(ops, e)
    /\ e => \A f \in EnabledRulesOf(view[a], p) : view[a][f].applies \subseteq ops
    /\ Matches(a, p)
    /\ Write(a, Row(p, [allows |-> ops, enabled |-> e, version |-> NextVersion(p)]))

DisableDmlPolicy(a) ==
  \E p \in Policies :
    /\ Exists(view[a], p)
    /\ Matches(a, p)
    /\ Write(a, Row(p, [view[a][p] EXCEPT !.enabled = FALSE, !.version = NextVersion(p)]))

\* assertManagedDmlFieldRule and assertManagedRuleOperations
RuleFits(a, p, ops) ==
  Exists(view[a], p) /\ ops # {} /\ ops \subseteq view[a][p].allows

CreateManagedDmlFieldRule(a) ==
  \E p \in Policies, f \in Rules, t \in Fields, ops \in SUBSET RuleOperations, e \in BOOLEAN :
    /\ RuleFits(a, p, ops)
    /\ NextId(Rules, f)
    /\ Write(a, Row(f, [policy |-> p, field |-> t, applies |-> ops, enabled |-> e, version |-> 1]))

UpdateManagedDmlFieldRule(a) ==
  \E f \in Rules, t \in Fields, ops \in SUBSET RuleOperations, e \in BOOLEAN :
    /\ Exists(view[a], f)
    /\ RuleFits(a, view[a][f].policy, ops)
    /\ Matches(a, f)
    /\ Write(a, Row(f, [policy |-> view[a][f].policy, field |-> t, applies |-> ops,
                       enabled |-> e, version |-> NextVersion(f)]))

DisableManagedDmlFieldRule(a) ==
  \E f \in Rules :
    /\ Exists(view[a], f)
    /\ Matches(a, f)
    /\ Write(a, Row(f, [view[a][f] EXCEPT !.enabled = FALSE, !.version = NextVersion(f)]))

DeleteManagedDmlFieldRule(a) ==
  \E f \in Rules :
    /\ Exists(view[a], f) /\ ~view[a][f].enabled
    /\ Matches(a, f)
    /\ Write(a, Row(f, Gone))

----------------------------------------------------------------------------
(***************************************************************************)
(* The Diagnostic identity.                                                *)
(***************************************************************************)
\* assertDistinctFromActiveUsers, and the upsert that resets the verification
UpdateDiagnostic(a) ==
  \E n \in Usernames, e \in BOOLEAN :
    LET row(v) == [name |-> n, enabled |-> e, status |-> "NOT_VERIFIED", version |-> v]
    IN /\ e => \A r \in ActiveRoutes(view[a]) : view[a][r].name # n
       /\ \/ ~Exists(view[a], Diagnostic) /\ db[Diagnostic] = Absent
               /\ Write(a, Row(Diagnostic, row(1)))
          \/ Exists(view[a], Diagnostic) /\ Matches(a, Diagnostic)
               /\ Write(a, Row(Diagnostic, row(NextVersion(Diagnostic))))

\* The verification ran against the configuration loaded before it, outside any transaction.
RecordDiagnosticVerification(a) ==
  \E result \in VerificationStatus \ {"NOT_VERIFIED"} :
    /\ Matches(a, Diagnostic)
    /\ Write(a, Row(Diagnostic,
         [db[Diagnostic] EXCEPT !.status = result, !.version = NextVersion(Diagnostic)]))

----------------------------------------------------------------------------
Operation(a) ==
  \/ CreateIdentityRoute(a) \/ BatchCreateIdentityRoutes(a) \/ UpdateIdentityRoute(a)
  \/ DisableIdentityRoute(a) \/ RegenerateIdentityCredential(a) \/ DeleteIdentityRoute(a)
  \/ UpdateTool(a) \/ UpdateRuntimeSetting(a)
  \/ CreateDmlPolicy(a) \/ UpdateDmlPolicy(a) \/ DisableDmlPolicy(a)
  \/ CreateManagedDmlFieldRule(a) \/ UpdateManagedDmlFieldRule(a)
  \/ DisableManagedDmlFieldRule(a) \/ DeleteManagedDmlFieldRule(a)
  \/ UpdateDiagnostic(a) \/ RecordDiagnosticVerification(a)

Next ==
  \E a \in Admins :
    Load(a) \/ Lock(a) \/ Operation(a) \/ AppendAudit(a) \/ Commit(a) \/ Rollback(a)

Spec == Init /\ [][Next]_vars

----------------------------------------------------------------------------
\* Every variable holds a value of its type, and the constraints hold of the database.
TypeOK ==
  /\ IsConfiguration(db) /\ SatisfiesConstraints(db)
  /\ audits \in 0 .. MaxChanges
  /\ sentinel \in Admins \cup {NoAdmin}
  /\ phase \in [Admins -> Phases]
  /\ DOMAIN seen = Admins /\ \A a \in Admins : IsConfiguration(seen[a])
  /\ DOMAIN view = Admins /\ \A a \in Admins : IsConfiguration(view[a])
  /\ DOMAIN writes = Admins
  /\ \A a \in Admins : DOMAIN writes[a] \subseteq Keys
                       /\ \A k \in DOMAIN writes[a] : writes[a][k] \in RowOf(k)

\* No two administrators, one enabling a route and the other the Diagnostic, can give both
\* the same Salesforce username: each check reads a configuration nobody else can change.
UsernamesDistinct == UsernamesDistinctIn(db)

\* A policy narrowed by one administrator and a rule added by another never leave an
\* enabled rule that applies to an operation its enabled policy does not allow.
RulesWithinPolicy == RulesWithinPolicyIn(db)

\* Creating, regenerating and deleting keep exactly one active token for every route.
OneActiveCredential == OneActiveCredentialIn(db)

\* What the application promises of the configuration, and no constraint enforces, holds of
\* every committed one: each transaction checks a part of it on the view it opened behind
\* the sentinel.
Consistent == UsernamesDistinct /\ RulesWithinPolicy /\ OneActiveCredential

\* A change replaces only what its administrator was shown: a row that changed since the
\* page was loaded is refused, and so is the result of a verification that probed another
\* Diagnostic configuration.  (Deleting a route deletes its credentials unseen.)
OverwritesWhatWasSeen ==
  [][\A a \in Admins : sentinel = a =>
       \A k \in Keys \ Credentials : db'[k] # db[k] => seen[a][k] = db[k]]_vars

\* The transactions implement atomic, audited, versioned changes of the configuration.
Abstract == INSTANCE ConfigStore
ImplementsConfigStore == Abstract!Spec
=============================================================================
