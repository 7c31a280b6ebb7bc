-------------------------- MODULE AdminStoreProofs --------------------------
(***************************************************************************)
(* Proofs about AdminStore, for every number of administrators, rows,      *)
(* names and changes, and about the Bootstrap that imports an environment  *)
(* beside them.                                                            *)
(*                                                                         *)
(* The argument: the administrator that holds the sentinel is the only one *)
(* in a transaction, and its view is the committed configuration; a row    *)
(* whose version is the one an administrator was shown is the row it was   *)
(* shown; and whatever an operation writes under these two facts is a      *)
(* Proposal, a change that may be committed.  A Proposal keeps each of the *)
(* promises for itself: one that the import has broken costs no other.     *)
(***************************************************************************)
EXTENDS Bootstrap, TLAPS

\* A row a transaction may replace another one by.
RowChange(old, new) ==
  \/ old = Absent /\ new.version = 1
  \/ old.version > 0 /\ new.version = old.version + 1
  \/ old.version > 0 /\ new = Gone

\* A configuration keeps each promise of another one that kept it.
Preserves(d, e) ==
  /\ UsernamesDistinctIn(d) => UsernamesDistinctIn(e)
  /\ RulesWithinPolicyIn(d) => RulesWithinPolicyIn(e)
  /\ OneActiveCredentialIn(d) => OneActiveCredentialIn(e)

\* What administrator a may commit over the committed configuration.
Proposal(a, w) ==
  /\ DOMAIN w \subseteq Keys /\ DOMAIN w # {}
  /\ \A k \in DOMAIN w : w[k] \in RowOf(k) /\ RowChange(db[k], w[k])
  /\ \A k \in DOMAIN w \ Credentials : seen[a][k] = db[k]
  /\ SatisfiesConstraints(Apply(w, db))
  /\ Preserves(db, Apply(w, db))

InTransaction(a) == phase[a] # "IDLE"

StoreType ==
  /\ IsConfiguration(db) /\ SatisfiesConstraints(db)
  /\ audits \in 0 .. MaxChanges
  /\ sentinel \in Admins \cup {NoAdmin}
  /\ phase \in [Admins -> Phases]
  /\ DOMAIN seen = Admins /\ \A a \in Admins : IsConfiguration(seen[a])
  /\ DOMAIN view = Admins /\ \A a \in Admins : IsConfiguration(view[a])
  /\ DOMAIN writes = Admins

\* The sentinel keeps the other administrators out, so the view stays current.
Locking ==
  \A a \in Admins : InTransaction(a) => sentinel = a /\ view[a] = db /\ audits < MaxChanges

Proposals ==
  \A a \in Admins :
    /\ phase[a] \in {"IDLE", "LOCKED"} => writes[a] = NoWrites
    /\ phase[a] \in {"WRITTEN", "AUDITED"} => Proposal(a, writes[a])

\* What was shown is current, or an older version, or deleted since.
SeenBefore(old, new) == old = new \/ new = Gone \/ old.version < new.version

Versioned == \A a \in Admins : \A k \in Keys : SeenBefore(seen[a][k], db[k])

Inv == StoreType /\ Locking /\ Proposals /\ Versioned

----------------------------------------------------------------------------
(* Rows. *)

\* The rows of each table.
LEMMA RowsOfTables ==
  /\ \A k \in Routes : RowOf(k) = {Absent, Gone} \cup RouteRow
  /\ \A k \in Credentials : RowOf(k) = {Absent, Gone} \cup CredentialRow
  /\ \A k \in Policies : RowOf(k) = {Absent, Gone} \cup PolicyRow
  /\ \A k \in Rules : RowOf(k) = {Absent, Gone} \cup RuleRow
  /\ RowOf(Diagnostic) = {Absent, Gone} \cup DiagnosticRow
  /\ \A k \in Tools \cup Settings : RowOf(k) = {Absent, Gone} \cup ValueRow
  <1>1. \A k \in Routes : RowOf(k) = {Absent, Gone} \cup RouteRow
    BY RowIdsAreDisjoint, Zenon DEF RowOf
  <1>2. \A k \in Credentials : RowOf(k) = {Absent, Gone} \cup CredentialRow
    BY RowIdsAreDisjoint, Zenon DEF RowOf
  <1>3. \A k \in Policies : RowOf(k) = {Absent, Gone} \cup PolicyRow
    BY RowIdsAreDisjoint, Zenon DEF RowOf
  <1>4. \A k \in Rules : RowOf(k) = {Absent, Gone} \cup RuleRow
    BY RowIdsAreDisjoint, Zenon DEF RowOf
  <1>5. RowOf(Diagnostic) = {Absent, Gone} \cup DiagnosticRow
    BY RowIdsAreDisjoint, Zenon DEF RowOf
  <1>6. \A k \in Tools \cup Settings : RowOf(k) = {Absent, Gone} \cup ValueRow
    BY RowIdsAreDisjoint, Zenon DEF RowOf
  <1> QED BY <1>1, <1>2, <1>3, <1>4, <1>5, <1>6

LEMMA TableOf ==
  ASSUME NEW k \in Keys
  PROVE  \/ k \in Routes \/ k \in Credentials \/ k \in Policies \/ k \in Rules
         \/ k = Diagnostic \/ k \in Tools \cup Settings
  BY DEF Keys

\* Every row carries a version, and only a missing row has version 0.
LEMMA RowVersion ==
  ASSUME NEW k \in Keys, NEW x \in RowOf(k)
  PROVE  x.version \in Nat /\ (x.version = 0 <=> x \in {Absent, Gone})
  <1>1. CASE x \in {Absent, Gone}
    BY <1>1 DEF Absent, Gone
  <1>2. x \in {Absent, Gone} \/ x.version \in Versions
    BY TableOf, RowsOfTables DEF RouteRow, CredentialRow, PolicyRow, RuleRow, DiagnosticRow, ValueRow
  <1> QED BY <1>1, <1>2 DEF Versions

LEMMA ChangedRow ==
  ASSUME NEW k \in Keys, NEW x \in RowOf(k), NEW y \in RowOf(k), RowChange(x, y)
  PROVE  x # y /\ \A z \in RowOf(k) : SeenBefore(z, x) => SeenBefore(z, y)
  <1>1. x.version \in Nat /\ y.version \in Nat /\ \A z \in RowOf(k) : z.version \in Nat
    BY RowVersion
  <1>2. Absent.version = 0 /\ Gone.version = 0 /\ Absent # Gone
    BY DEF Absent, Gone
  <1> QED BY <1>1, <1>2 DEF RowChange, SeenBefore

\* The rows of one statement, and of several.
LEMMA OneWrite == \A k, x : DOMAIN Row(k, x) = {k} /\ Row(k, x)[k] = x
  BY DEF Row

LEMMA Merged ==
  \A f, g : /\ DOMAIN (f ++ g) = DOMAIN f \cup DOMAIN g
            /\ \A x \in DOMAIN f : (f ++ g)[x] = f[x]
            /\ \A x \in DOMAIN g \ DOMAIN f : (f ++ g)[x] = g[x]
  BY DEF ++

\* The version an administrator was shown identifies the row it was shown.
LEMMA MatchIsCurrent ==
  ASSUME Inv, NEW a \in Admins, NEW k \in Keys,
         (Exists(db, k) /\ db[k].version = seen[a][k].version) \/ db[k] = Absent
  PROVE  seen[a][k] = db[k]
  <1>1. SeenBefore(seen[a][k], db[k]) /\ db[k] \in RowOf(k) /\ seen[a][k] \in RowOf(k)
    BY DEF Inv, Versioned, StoreType, IsConfiguration
  <1>2. db[k].version \in Nat /\ seen[a][k].version \in Nat
    BY <1>1, RowVersion
  <1>3. Absent.version = 0 /\ Gone.version = 0 /\ Absent # Gone
    BY DEF Absent, Gone
  <1> QED BY <1>1, <1>2, <1>3 DEF SeenBefore, Exists
----------------------------------------------------------------------------
(* What a consistent configuration depends on. *)

LEMMA ApplyRow == \A w, d : \A k \in Keys : Apply(w, d)[k] = IF k \in DOMAIN w THEN w[k] ELSE d[k]
  BY DEF Apply

AgreeOn(d, e, ids) == \A k \in ids : d[k] = e[k]

LEMMA UsernamesDependOn ==
  ASSUME NEW d, NEW e, AgreeOn(d, e, Routes \cup {Diagnostic}), UsernamesDistinctIn(d)
  PROVE  UsernamesDistinctIn(e)
  BY DEF AgreeOn, UsernamesDistinctIn, ActiveRoutes, DiagnosticUses, Exists

LEMMA RulesDependOn ==
  ASSUME NEW d, NEW e, AgreeOn(d, e, Policies \cup Rules), RulesWithinPolicyIn(d)
  PROVE  RulesWithinPolicyIn(e)
  BY DEF AgreeOn, RulesWithinPolicyIn, EnabledRulesOf, Exists

\* Of the routes only their existence matters.
LEMMA CredentialsDependOn ==
  ASSUME NEW d, NEW e, AgreeOn(d, e, Credentials), OneActiveCredentialIn(d),
         \A r \in Routes : Exists(e, r) => Exists(d, r)
  PROVE  OneActiveCredentialIn(e)
  <1>1. \A r \in Routes : ActiveCredentialsOf(e, r) = ActiveCredentialsOf(d, r)
    BY DEF AgreeOn, ActiveCredentialsOf, Exists
  <1> QED BY <1>1 DEF OneActiveCredentialIn

\* An operation that writes one row changes nothing else.
LEMMA OneRow ==
  ASSUME NEW k \in Keys, NEW x, NEW d
  PROVE  /\ Apply(Row(k, x), d)[k] = x
         /\ \A j \in Keys \ {k} : Apply(Row(k, x), d)[j] = d[j]
  BY DEF Apply, Row

\* What is left to show of an operation that writes one row.
LEMMA OneRowProposal ==
  ASSUME NEW a \in Admins, NEW k \in Keys, NEW x \in RowOf(k),
         RowChange(db[k], x),
         k \in Credentials \/ seen[a][k] = db[k],
         SatisfiesConstraints(Apply(Row(k, x), db)),
         Preserves(db, Apply(Row(k, x), db))
  PROVE  Proposal(a, Row(k, x))
  <1> DEFINE w == Row(k, x)
  <1>1. DOMAIN w = {k} /\ w[k] = x
    BY DEF Row
  <1> HIDE DEF w
  <1>2. /\ DOMAIN w \subseteq Keys /\ DOMAIN w # {}
        /\ \A j \in DOMAIN w : w[j] \in RowOf(j) /\ RowChange(db[j], w[j])
        /\ \A j \in DOMAIN w \ Credentials : seen[a][j] = db[j]
    BY <1>1
  <1> QED BY <1>2 DEF Proposal, w

----------------------------------------------------------------------------
(* The operations. *)

\* What an operation finds: it is in its transaction, on the committed configuration.
Working(a) ==
  /\ phase[a] = "LOCKED" /\ view[a] = db
  /\ IsConfiguration(db) /\ SatisfiesConstraints(db)
  /\ \A k \in Keys : (Exists(db, k) /\ db[k].version = seen[a][k].version) \/ db[k] = Absent
                       => seen[a][k] = db[k]

LEMMA IsWorking == ASSUME Inv, NEW a \in Admins, phase[a] = "LOCKED" PROVE Working(a)
  BY MatchIsCurrent DEF Inv, StoreType, Locking, InTransaction, Working

\* A row an operation may replace.
LEMMA NextRow ==
  ASSUME NEW a \in Admins, Working(a), NEW k \in Keys, Matches(a, k)
  PROVE  /\ Exists(db, k) /\ seen[a][k] = db[k]
         /\ NextVersion(k) \in Versions
         /\ \A x : x.version = NextVersion(k) => RowChange(db[k], x)
         /\ RowChange(db[k], Gone)
  <1>1. db[k].version \in Nat
    BY RowVersion DEF Working, IsConfiguration
  <1> QED BY <1>1 DEF Matches, Exists, NextVersion, Versions, RowChange, Working

\* A row an operation may create.
LEMMA NewRow ==
  ASSUME NEW a \in Admins, Working(a), NEW k \in Keys, db[k] = Absent
  PROVE  /\ ~Exists(db, k) /\ seen[a][k] = db[k]
         /\ 1 \in Versions
         /\ \A x : x.version = 1 => RowChange(db[k], x)
  BY DEF Working, Exists, Absent, Versions, RowChange

\* A row that exists is a row of its table.
LEMMA ExistingRows ==
  ASSUME IsConfiguration(db)
  PROVE  /\ \A k \in Routes : Exists(db, k) => db[k] \in RouteRow
         /\ \A k \in Credentials : Exists(db, k) => db[k] \in CredentialRow
         /\ \A k \in Policies : Exists(db, k) => db[k] \in PolicyRow
         /\ \A k \in Rules : Exists(db, k) => db[k] \in RuleRow
         /\ Exists(db, Diagnostic) => db[Diagnostic] \in DiagnosticRow
  <1>1. \A k \in Keys : db[k] \in RowOf(k) /\ (Exists(db, k) => db[k] \notin {Absent, Gone})
    BY DEF IsConfiguration, Exists, Absent, Gone
  <1> QED BY <1>1, RowsOfTables DEF Keys

\* One written row leaves two of the three promises to the rows it does not touch.
LEMMA OneRowPreserves ==
  ASSUME NEW a \in Admins, Working(a), NEW k \in Keys, NEW e, NEW x,
         e[k] = x, \A j \in Keys \ {k} : e[j] = db[j]
  PROVE  /\ k \in Tools \cup Settings => Preserves(db, e)
         /\ k \in Policies \cup Rules /\ (RulesWithinPolicyIn(db) => RulesWithinPolicyIn(e))
              => Preserves(db, e)
         /\ k \in Routes /\ Exists(db, k) /\ (UsernamesDistinctIn(db) => UsernamesDistinctIn(e))
              => Preserves(db, e)
         /\ k = Diagnostic /\ (UsernamesDistinctIn(db) => UsernamesDistinctIn(e))
              => Preserves(db, e)
  <1> DEFINE Untouched(ids) == ids \subseteq Keys /\ k \notin ids
  <1>1. ASSUME NEW ids, Untouched(ids) PROVE AgreeOn(db, e, ids)
    BY <1>1 DEF AgreeOn
  <1>2. /\ Routes \cup {Diagnostic} \subseteq Keys /\ Policies \cup Rules \subseteq Keys
        /\ Credentials \subseteq Keys
    BY DEF Keys
  <1>3. Untouched(Routes \cup {Diagnostic}) => (UsernamesDistinctIn(db) => UsernamesDistinctIn(e))
    BY <1>1, UsernamesDependOn
  <1>4. Untouched(Policies \cup Rules) => (RulesWithinPolicyIn(db) => RulesWithinPolicyIn(e))
    BY <1>1, RulesDependOn
  <1>5. Untouched(Credentials) /\ (k \in Routes => Exists(db, k))
          => (OneActiveCredentialIn(db) => OneActiveCredentialIn(e))
    <2> SUFFICES ASSUME Untouched(Credentials), k \in Routes => Exists(db, k),
                        OneActiveCredentialIn(db)
                 PROVE  OneActiveCredentialIn(e)
      OBVIOUS
    <2>1. \A r \in Routes : Exists(e, r) => Exists(db, r)
      BY DEF Keys, Exists
    <2> QED BY <1>1, <2>1, CredentialsDependOn
  <1> HIDE DEF Untouched
  <1>6. CASE k \in Tools \cup Settings
    <2>1. Untouched(Routes \cup {Diagnostic}) /\ Untouched(Policies \cup Rules)
          /\ Untouched(Credentials) /\ k \notin Policies \cup Rules \cup Routes /\ k # Diagnostic
      BY <1>2, <1>6, RowIdsAreDisjoint DEF Untouched
    <2> QED BY <1>3, <1>4, <1>5, <2>1 DEF Preserves
  <1>7. CASE k \in Policies \cup Rules
    <2>1. Untouched(Routes \cup {Diagnostic}) /\ Untouched(Credentials)
          /\ k \notin Tools \cup Settings \cup Routes /\ k # Diagnostic
      BY <1>2, <1>7, RowIdsAreDisjoint DEF Untouched
    <2> QED BY <1>3, <1>5, <2>1 DEF Preserves
  <1>8. CASE k \in Routes
    <2>1. Untouched(Policies \cup Rules) /\ Untouched(Credentials)
          /\ k \notin Tools \cup Settings \cup Policies \cup Rules /\ k # Diagnostic
      BY <1>2, <1>8, RowIdsAreDisjoint DEF Untouched
    <2> QED BY <1>4, <1>5, <2>1 DEF Preserves
  <1>9. CASE k = Diagnostic
    <2>1. Untouched(Policies \cup Rules) /\ Untouched(Credentials)
          /\ k \notin Tools \cup Settings \cup Policies \cup Rules \cup Routes
      BY <1>2, <1>9, RowIdsAreDisjoint DEF Untouched
    <2> QED BY <1>4, <1>5, <2>1 DEF Preserves
  <1> QED BY <1>6, <1>7, <1>8, <1>9

\* An operation that writes one row proposes a change when the row is one its table and
\* its version allow, and the promise the row takes part in still holds.
LEMMA SingleProposal ==
  ASSUME NEW a \in Admins, Working(a), NEW k \in Keys, NEW x \in RowOf(k),
         Write(a, Row(k, x)),
         RowChange(db[k], x), seen[a][k] = db[k],
         \A e : e[k] = x /\ (\A j \in Keys \ {k} : e[j] = db[j]) /\ SatisfiesConstraints(e)
                 => Preserves(db, e)
  PROVE  Proposal(a, Row(k, x))
  <1> DEFINE e == Apply(Row(k, x), db)
  <1>1. e[k] = x /\ \A j \in Keys \ {k} : e[j] = db[j]
    BY OneRow
  <1>2. SatisfiesConstraints(e)
    BY DEF Write
  <1> HIDE DEF e
  <1>3. Preserves(db, e)
    BY <1>1, <1>2
  <1> QED BY <1>2, <1>3, OneRowProposal DEF e

Proposes(a) == \E w : Write(a, w) /\ Proposal(a, w)

\* Tool controls and runtime settings are nobody else's business.
LEMMA UpsertProposal ==
  ASSUME NEW a \in Admins, Working(a), NEW k \in Tools \cup Settings, UpsertValue(a, k)
  PROVE  Proposes(a)
  <1>1. k \in Keys
    BY DEF Keys
  <1>2. PICK x \in Values, n \in Versions :
          /\ Write(a, Row(k, [value |-> x, version |-> n]))
          /\ RowChange(db[k], [value |-> x, version |-> n])
          /\ seen[a][k] = db[k]
    <2>1. PICK x \in Values :
            \/ db[k] = Absent /\ Write(a, Row(k, [value |-> x, version |-> 1]))
            \/ Matches(a, k) /\ Write(a, Row(k, [value |-> x, version |-> NextVersion(k)]))
      BY DEF UpsertValue
    <2>2. \A n : [value |-> x, version |-> n].version = n
      OBVIOUS
    <2> QED BY <1>1, <2>1, <2>2, NewRow, NextRow
  <1> DEFINE row == [value |-> x, version |-> n]
  <1>3. row \in RowOf(k)
    BY RowsOfTables DEF ValueRow
  <1> HIDE DEF row
  <1>4. \A e : e[k] = row /\ (\A j \in Keys \ {k} : e[j] = db[j]) => Preserves(db, e)
    BY <1>1, OneRowPreserves
  <1>5. Proposal(a, Row(k, row))
    BY <1>1, <1>2, <1>3, <1>4, SingleProposal DEF row
  <1> QED BY <1>2, <1>5 DEF row, Proposes

\* An update of a route keeps its tokens, and its name off the Diagnostic's.
LEMMA RouteRowProposal ==
  ASSUME NEW a \in Admins, Working(a), NEW r \in Routes, Matches(a, r),
         NEW row \in RouteRow, row.version = NextVersion(r),
         row.enabled => ~DiagnosticUses(db, row.name),
         Write(a, Row(r, row))
  PROVE  Proposes(a)
  <1>1. r \in Keys /\ r # Diagnostic /\ Diagnostic \in Keys /\ Routes \subseteq Keys
    BY RowIdsAreDisjoint DEF Keys
  <1>2. row \in RowOf(r)
    BY RowsOfTables
  <1>3. Exists(db, r) /\ RowChange(db[r], row) /\ seen[a][r] = db[r]
    BY <1>1, NextRow
  <1>4. ASSUME NEW e, e[r] = row, \A j \in Keys \ {r} : e[j] = db[j] PROVE Preserves(db, e)
    <2>1. UsernamesDistinctIn(db) => UsernamesDistinctIn(e)
      BY <1>1, <1>4 DEF UsernamesDistinctIn, ActiveRoutes, DiagnosticUses, Exists
    <2> QED BY <1>1, <1>3, <1>4, <2>1, OneRowPreserves
  <1>5. Proposal(a, Row(r, row))
    BY <1>1, <1>2, <1>3, <1>4, SingleProposal
  <1> QED BY <1>5 DEF Proposes

LEMMA UpdateRouteProposal ==
  ASSUME NEW a \in Admins, Working(a), UpdateIdentityRoute(a) \/ DisableIdentityRoute(a)
  PROVE  Proposes(a)
  <1>1. CASE UpdateIdentityRoute(a)
    <2>1. PICK r \in Routes, u \in Users, n \in Usernames, e \in BOOLEAN :
            /\ DistinctFromDiagnostic(a, n, e) /\ Matches(a, r)
            /\ Write(a, Row(r, [user |-> u, name |-> n, enabled |-> e, version |-> NextVersion(r)]))
      BY <1>1 DEF UpdateIdentityRoute
    <2> DEFINE row == [user |-> u, name |-> n, enabled |-> e, version |-> NextVersion(r)]
    <2>2. NextVersion(r) \in Versions
      BY <2>1, NextRow DEF Keys
    <2>3. row \in RouteRow /\ row.version = NextVersion(r)
      BY <2>2 DEF RouteRow
    <2>4. row.enabled => ~DiagnosticUses(db, row.name)
      BY <2>1 DEF DistinctFromDiagnostic, Working
    <2> HIDE DEF row
    <2> QED BY <2>1, <2>3, <2>4, RouteRowProposal DEF row
  <1>2. CASE DisableIdentityRoute(a)
    <2>1. PICK r \in Routes :
            /\ Matches(a, r)
            /\ Write(a, Row(r, [db[r] EXCEPT !.enabled = FALSE, !.version = NextVersion(r)]))
      BY <1>2 DEF DisableIdentityRoute, Working
    <2> DEFINE row == [db[r] EXCEPT !.enabled = FALSE, !.version = NextVersion(r)]
    <2>2. NextVersion(r) \in Versions /\ db[r] \in RouteRow
      BY <2>1, NextRow, ExistingRows DEF Keys, Working
    <2>3. row \in RouteRow /\ row.version = NextVersion(r) /\ row.enabled = FALSE
      BY <2>2 DEF RouteRow
    <2> HIDE DEF row
    <2> QED BY <2>1, <2>3, RouteRowProposal DEF row
  <1> QED BY <1>1, <1>2

\* A policy keeps allowing what its enabled rules apply to.
LEMMA PolicyRowProposal ==
  ASSUME NEW a \in Admins, Working(a), NEW p \in Policies, NEW row \in PolicyRow,
         RowChange(db[p], row), seen[a][p] = db[p],
         row.enabled => \A f \in EnabledRulesOf(db, p) : db[f].applies \subseteq row.allows,
         Write(a, Row(p, row))
  PROVE  Proposes(a)
  <1>1. p \in Keys /\ p \notin Rules /\ Policies \cup Rules \subseteq Keys
    BY RowIdsAreDisjoint DEF Keys
  <1>2. row \in RowOf(p)
    BY RowsOfTables
  <1>3. ASSUME NEW e, e[p] = row, \A j \in Keys \ {p} : e[j] = db[j] PROVE Preserves(db, e)
    <2>1. \A q \in Policies : EnabledRulesOf(e, q) = EnabledRulesOf(db, q)
      BY <1>1, <1>3 DEF EnabledRulesOf, Exists
    <2>2. \A q \in Policies : \A f \in EnabledRulesOf(db, q) : e[f] = db[f]
      BY <1>1, <1>3 DEF EnabledRulesOf
    <2>3. \A q \in Policies \ {p} : e[q] = db[q]
      BY <1>1, <1>3
    <2>4. RulesWithinPolicyIn(db) => RulesWithinPolicyIn(e)
      BY <1>3, <2>1, <2>2, <2>3 DEF RulesWithinPolicyIn, Exists
    <2> QED BY <1>1, <1>3, <2>4, OneRowPreserves
  <1>4. Proposal(a, Row(p, row))
    BY <1>1, <1>2, <1>3, SingleProposal
  <1> QED BY <1>4 DEF Proposes

LEMMA PolicyProposal ==
  ASSUME NEW a \in Admins, Working(a),
         CreateDmlPolicy(a) \/ UpdateDmlPolicy(a) \/ DisableDmlPolicy(a)
  PROVE  Proposes(a)
  <1> DEFINE new(ops, e, n) == [allows |-> ops, enabled |-> e, version |-> n]
  <1>1. CASE CreateDmlPolicy(a)
    <2>1. PICK p \in Policies, ops \in SUBSET PolicyOperations, e \in BOOLEAN :
            db[p] = Absent /\ Write(a, Row(p, new(ops, e, 1)))
      BY <1>1 DEF CreateDmlPolicy, NextId
    <2> DEFINE row == new(ops, e, 1)
    <2>2. p \in Keys
      BY DEF Keys
    <2>3. row \in PolicyRow /\ row.version = 1
      BY <2>1 DEF PolicyRow, Versions
    <2>4. RowChange(db[p], row) /\ seen[a][p] = db[p] /\ ~Exists(db, p)
      BY <2>1, <2>2, <2>3, NewRow
    <2>5. EnabledRulesOf(db, p) = {}
      BY <2>4 DEF EnabledRulesOf, Working, SatisfiesConstraints
    <2> HIDE DEF row
    <2> QED BY <2>1, <2>3, <2>4, <2>5, PolicyRowProposal DEF row
  <1>2. CASE UpdateDmlPolicy(a)
    <2>1. PICK p \in Policies, ops \in SUBSET PolicyOperations, e \in BOOLEAN :
            /\ e => \A f \in EnabledRulesOf(db, p) : db[f].applies \subseteq ops
            /\ Matches(a, p) /\ Write(a, Row(p, new(ops, e, NextVersion(p))))
      BY <1>2 DEF UpdateDmlPolicy, Working
    <2> DEFINE row == new(ops, e, NextVersion(p))
    <2>2. p \in Keys
      BY DEF Keys
    <2>3. NextVersion(p) \in Versions /\ seen[a][p] = db[p]
      BY <2>1, <2>2, NextRow
    <2>4. row \in PolicyRow /\ row.version = NextVersion(p) /\ row.enabled = e /\ row.allows = ops
      BY <2>3 DEF PolicyRow
    <2> HIDE DEF row
    <2>5. RowChange(db[p], row)
      BY <2>1, <2>2, <2>4, NextRow
    <2> QED BY <2>1, <2>3, <2>4, <2>5, PolicyRowProposal DEF row
  <1>3. CASE DisableDmlPolicy(a)
    <2>1. PICK p \in Policies :
            /\ Matches(a, p)
            /\ Write(a, Row(p, [db[p] EXCEPT !.enabled = FALSE, !.version = NextVersion(p)]))
      BY <1>3 DEF DisableDmlPolicy, Working
    <2> DEFINE row == [db[p] EXCEPT !.enabled = FALSE, !.version = NextVersion(p)]
    <2>2. p \in Keys
      BY DEF Keys
    <2>3. NextVersion(p) \in Versions /\ seen[a][p] = db[p] /\ db[p] \in PolicyRow
      BY <2>1, <2>2, NextRow, ExistingRows DEF Working
    <2>4. row \in PolicyRow /\ row.version = NextVersion(p) /\ row.enabled = FALSE
      BY <2>3 DEF PolicyRow
    <2> HIDE DEF row
    <2>5. RowChange(db[p], row)
      BY <2>1, <2>2, <2>4, NextRow
    <2> QED BY <2>1, <2>3, <2>4, <2>5, PolicyRowProposal DEF row
  <1> QED BY <1>1, <1>2, <1>3

\* A rule, as long as it exists and is enabled, applies to what its policy allows.
LEMMA RuleRowProposal ==
  ASSUME NEW a \in Admins, Working(a), NEW f \in Rules, NEW row \in RowOf(f),
         RowChange(db[f], row), seen[a][f] = db[f],
         row.version > 0 /\ row.enabled /\ row.policy \in Policies =>
           row.applies \subseteq db[row.policy].allows,
         Write(a, Row(f, row))
  PROVE  Proposes(a)
  <1>1. f \in Keys /\ f \notin Policies /\ Policies \cup Rules \subseteq Keys
    BY RowIdsAreDisjoint DEF Keys
  <1>2. ASSUME NEW e, e[f] = row, \A j \in Keys \ {f} : e[j] = db[j] PROVE Preserves(db, e)
    <2>1. \A q \in Policies : e[q] = db[q]
      BY <1>1, <1>2
    <2>2. \A g \in Rules \ {f} : e[g] = db[g]
      BY <1>1, <1>2
    <2>3. ASSUME RulesWithinPolicyIn(db),
                 NEW q \in Policies, Exists(e, q), e[q].enabled, NEW g \in EnabledRulesOf(e, q)
          PROVE  e[g].applies \subseteq e[q].allows
      <3>1. CASE g = f
        BY <1>2, <2>1, <2>3, <3>1 DEF EnabledRulesOf, Exists
      <3>2. CASE g # f
        BY <2>1, <2>2, <2>3, <3>2
           DEF EnabledRulesOf, Exists, RulesWithinPolicyIn
      <3> QED BY <3>1, <3>2
    <2>4. RulesWithinPolicyIn(db) => RulesWithinPolicyIn(e)
      BY <2>3 DEF RulesWithinPolicyIn
    <2> QED BY <1>1, <1>2, <2>4, OneRowPreserves
  <1>3. Proposal(a, Row(f, row))
    BY <1>1, <1>2, SingleProposal
  <1> QED BY <1>3 DEF Proposes

LEMMA RuleProposal ==
  ASSUME NEW a \in Admins, Working(a),
         \/ CreateManagedDmlFieldRule(a) \/ UpdateManagedDmlFieldRule(a)
         \/ DisableManagedDmlFieldRule(a) \/ DeleteManagedDmlFieldRule(a)
  PROVE  Proposes(a)
  <1> DEFINE new(p, t, ops, e, n) ==
               [policy |-> p, field |-> t, applies |-> ops, enabled |-> e, version |-> n]
  <1>0. \A f \in Rules : f \in Keys /\ RuleRow \subseteq RowOf(f) /\ Gone \in RowOf(f)
    BY RowsOfTables DEF Keys
  <1>1. CASE CreateManagedDmlFieldRule(a)
    <2>1. PICK p \in Policies, f \in Rules, t \in Fields, ops \in SUBSET RuleOperations, e \in BOOLEAN :
            /\ ops \subseteq db[p].allows
            /\ db[f] = Absent /\ Write(a, Row(f, new(p, t, ops, e, 1)))
      BY <1>1 DEF CreateManagedDmlFieldRule, NextId, RuleFits, Working
    <2> DEFINE row == new(p, t, ops, e, 1)
    <2>2. row \in RuleRow /\ row.version = 1 /\ row.policy = p /\ row.applies = ops
      BY <2>1 DEF RuleRow, Versions
    <2> HIDE DEF row
    <2>3. RowChange(db[f], row) /\ seen[a][f] = db[f]
      BY <1>0, <2>1, <2>2, NewRow
    <2> QED BY <1>0, <2>1, <2>2, <2>3, RuleRowProposal DEF row
  <1>2. CASE UpdateManagedDmlFieldRule(a)
    <2>1. PICK f \in Rules, t \in Fields, ops \in SUBSET RuleOperations, e \in BOOLEAN :
            /\ ops \subseteq db[db[f].policy].allows
            /\ Matches(a, f) /\ Write(a, Row(f, new(db[f].policy, t, ops, e, NextVersion(f))))
      BY <1>2 DEF UpdateManagedDmlFieldRule, RuleFits, Working
    <2> DEFINE row == new(db[f].policy, t, ops, e, NextVersion(f))
    <2>2. Exists(db, f) /\ NextVersion(f) \in Versions /\ seen[a][f] = db[f]
      BY <1>0, <2>1, NextRow
    <2>3. db[f].policy \in Policies
      BY <2>2, ExistingRows DEF Working, RuleRow
    <2>4. row \in RuleRow /\ row.version = NextVersion(f) /\ row.policy = db[f].policy /\ row.applies = ops
      BY <2>2, <2>3 DEF RuleRow
    <2> HIDE DEF row
    <2>5. RowChange(db[f], row)
      BY <1>0, <2>1, <2>4, NextRow
    <2> QED BY <1>0, <2>1, <2>2, <2>4, <2>5, RuleRowProposal DEF row
  <1>3. CASE DisableManagedDmlFieldRule(a)
    <2>1. PICK f \in Rules :
            /\ Matches(a, f)
            /\ Write(a, Row(f, [db[f] EXCEPT !.enabled = FALSE, !.version = NextVersion(f)]))
      BY <1>3 DEF DisableManagedDmlFieldRule, Working
    <2> DEFINE row == [db[f] EXCEPT !.enabled = FALSE, !.version = NextVersion(f)]
    <2>2. NextVersion(f) \in Versions /\ seen[a][f] = db[f] /\ db[f] \in RuleRow
      BY <1>0, <2>1, NextRow, ExistingRows DEF Working
    <2>3. row \in RuleRow /\ row.version = NextVersion(f) /\ row.enabled = FALSE
      BY <2>2 DEF RuleRow
    <2> HIDE DEF row
    <2>4. RowChange(db[f], row)
      BY <1>0, <2>1, <2>3, NextRow
    <2> QED BY <1>0, <2>1, <2>2, <2>3, <2>4, RuleRowProposal DEF row
  <1>4. CASE DeleteManagedDmlFieldRule(a)
    <2>1. PICK f \in Rules : Matches(a, f) /\ Write(a, Row(f, Gone))
      BY <1>4 DEF DeleteManagedDmlFieldRule
    <2>2. RowChange(db[f], Gone) /\ seen[a][f] = db[f] /\ ~(Gone.version > 0)
      BY <1>0, <2>1, NextRow DEF Gone
    <2> QED BY <1>0, <2>1, <2>2, RuleRowProposal
  <1> QED BY <1>1, <1>2, <1>3, <1>4

\* The Diagnostic keeps off the names of the active routes.
LEMMA DiagnosticRowProposal ==
  ASSUME NEW a \in Admins, Working(a), NEW row \in DiagnosticRow,
         RowChange(db[Diagnostic], row), seen[a][Diagnostic] = db[Diagnostic],
         UsernamesDistinctIn(db) /\ row.enabled => \A r \in ActiveRoutes(db) : db[r].name # row.name,
         Write(a, Row(Diagnostic, row))
  PROVE  Proposes(a)
  <1>1. Diagnostic \in Keys /\ Diagnostic \notin Routes /\ Routes \subseteq Keys
    BY RowIdsAreDisjoint DEF Keys
  <1>2. row \in RowOf(Diagnostic)
    BY RowsOfTables
  <1>3. ASSUME NEW e, e[Diagnostic] = row, \A j \in Keys \ {Diagnostic} : e[j] = db[j]
        PROVE  Preserves(db, e)
    <2>1. \A r \in Routes : e[r] = db[r]
      BY <1>1, <1>3
    <2>2. ActiveRoutes(e) = ActiveRoutes(db) /\ ActiveRoutes(db) \subseteq Routes
      BY <2>1 DEF ActiveRoutes, Exists
    <2>3. UsernamesDistinctIn(db) => UsernamesDistinctIn(e)
      BY <1>3, <2>1, <2>2 DEF UsernamesDistinctIn, DiagnosticUses
    <2> QED BY <1>1, <1>3, <2>3, OneRowPreserves
  <1>4. Proposal(a, Row(Diagnostic, row))
    BY <1>1, <1>2, <1>3, SingleProposal
  <1> QED BY <1>4 DEF Proposes

LEMMA DiagnosticProposal ==
  ASSUME NEW a \in Admins, Working(a), UpdateDiagnostic(a) \/ RecordDiagnosticVerification(a)
  PROVE  Proposes(a)
  <1>0. Diagnostic \in Keys
    BY DEF Keys
  <1>1. CASE UpdateDiagnostic(a)
    <2> DEFINE row(n, e, v) == [name |-> n, enabled |-> e, status |-> "NOT_VERIFIED", version |-> v]
    <2>1. PICK n \in Usernames, e \in BOOLEAN :
            /\ e => \A r \in ActiveRoutes(db) : db[r].name # n
            /\ \/ db[Diagnostic] = Absent /\ Write(a, Row(Diagnostic, row(n, e, 1)))
               \/ /\ Matches(a, Diagnostic)
                  /\ Write(a, Row(Diagnostic, row(n, e, NextVersion(Diagnostic))))
      BY <1>1 DEF UpdateDiagnostic, Working
    <2>2. \A v \in Versions : /\ row(n, e, v) \in DiagnosticRow
                              /\ row(n, e, v).version = v
                              /\ row(n, e, v).enabled = e /\ row(n, e, v).name = n
      BY DEF DiagnosticRow, VerificationStatus
    <2> HIDE DEF row
    <2>3. CASE db[Diagnostic] = Absent /\ Write(a, Row(Diagnostic, row(n, e, 1)))
      <3>1. /\ 1 \in Versions /\ RowChange(db[Diagnostic], row(n, e, 1))
            /\ seen[a][Diagnostic] = db[Diagnostic]
        BY <1>0, <2>2, <2>3, NewRow
      <3> QED BY <2>1, <2>2, <2>3, <3>1, DiagnosticRowProposal
    <2>4. CASE /\ Matches(a, Diagnostic)
               /\ Write(a, Row(Diagnostic, row(n, e, NextVersion(Diagnostic))))
      <3>1. /\ NextVersion(Diagnostic) \in Versions
            /\ RowChange(db[Diagnostic], row(n, e, NextVersion(Diagnostic)))
            /\ seen[a][Diagnostic] = db[Diagnostic]
        BY <1>0, <2>2, <2>4, NextRow
      <3> QED BY <2>1, <2>2, <2>4, <3>1, DiagnosticRowProposal
    <2> QED BY <2>1, <2>3, <2>4
  <1>2. CASE RecordDiagnosticVerification(a)
    <2>1. PICK result \in VerificationStatus :
            /\ Matches(a, Diagnostic)
            /\ Write(a, Row(Diagnostic, [db[Diagnostic] EXCEPT !.status = result,
                                                              !.version = NextVersion(Diagnostic)]))
      BY <1>2 DEF RecordDiagnosticVerification
    <2> DEFINE row == [db[Diagnostic] EXCEPT !.status = result, !.version = NextVersion(Diagnostic)]
    <2>2. /\ NextVersion(Diagnostic) \in Versions /\ seen[a][Diagnostic] = db[Diagnostic]
          /\ Exists(db, Diagnostic) /\ db[Diagnostic] \in DiagnosticRow
      BY <1>0, <2>1, NextRow, ExistingRows DEF Working
    <2>3. /\ row \in DiagnosticRow /\ row.version = NextVersion(Diagnostic)
          /\ row.enabled = db[Diagnostic].enabled /\ row.name = db[Diagnostic].name
      BY <2>2 DEF DiagnosticRow
    <2> HIDE DEF row
    <2>4. RowChange(db[Diagnostic], row)
      BY <1>0, <2>1, <2>3, NextRow
    <2>5. UsernamesDistinctIn(db) /\ row.enabled => \A r \in ActiveRoutes(db) : db[r].name # row.name
      BY <2>2, <2>3 DEF UsernamesDistinctIn, DiagnosticUses
    <2> QED BY <2>1, <2>2, <2>3, <2>4, <2>5, DiagnosticRowProposal DEF row
  <1> QED BY <1>1, <1>2

\* What is left to show of an operation on routes and their tokens.
LEMMA TokenProposal ==
  ASSUME NEW a \in Admins, Working(a), NEW w, Write(a, w),
         DOMAIN w \subseteq Routes \cup Credentials, DOMAIN w # {},
         \A k \in DOMAIN w : w[k] \in RowOf(k) /\ RowChange(db[k], w[k]),
         \A r \in DOMAIN w \cap Routes :
           /\ seen[a][r] = db[r]
           /\ w[r].version > 0 /\ w[r].enabled => ~DiagnosticUses(db, w[r].name),
         OneActiveCredentialIn(db) => OneActiveCredentialIn(Apply(w, db))
  PROVE  Proposes(a)
  <1> DEFINE e == Apply(w, db)
  <1>1. \A k \in Keys : e[k] = IF k \in DOMAIN w THEN w[k] ELSE db[k]
    BY ApplyRow
  <1>2. SatisfiesConstraints(e) /\ (OneActiveCredentialIn(db) => OneActiveCredentialIn(e))
    BY DEF Write
  <1>3. /\ Routes \cup Credentials \subseteq Keys /\ Diagnostic \in Keys
        /\ Policies \cup Rules \subseteq Keys
        /\ Diagnostic \notin DOMAIN w /\ (Policies \cup Rules) \cap DOMAIN w = {}
        /\ \A k \in DOMAIN w \ Credentials : k \in Routes
    BY RowIdsAreDisjoint DEF Keys
  <1> HIDE DEF e
  <1>4. RulesWithinPolicyIn(db) => RulesWithinPolicyIn(e)
    <2>1. AgreeOn(db, e, Policies \cup Rules)
      BY <1>1, <1>3 DEF AgreeOn
    <2> QED BY <2>1, RulesDependOn
  <1>5. UsernamesDistinctIn(db) => UsernamesDistinctIn(e)
    <2> SUFFICES ASSUME UsernamesDistinctIn(db), NEW r \in ActiveRoutes(e) PROVE ~DiagnosticUses(e, e[r].name)
      BY DEF UsernamesDistinctIn
    <2>1. r \in Routes /\ r \in Keys /\ e[r].version > 0 /\ e[r].enabled
      BY <1>3 DEF ActiveRoutes, Exists
    <2>2. e[Diagnostic] = db[Diagnostic]
      BY <1>1, <1>3
    <2>3. CASE r \in DOMAIN w
      <3>1. e[r] = w[r]
        BY <1>1, <2>1, <2>3
      <3> QED BY <2>1, <2>2, <2>3, <3>1 DEF DiagnosticUses, Exists
    <2>4. CASE r \notin DOMAIN w
      <3>1. e[r] = db[r] /\ r \in ActiveRoutes(db)
        BY <1>1, <2>1, <2>4 DEF ActiveRoutes, Exists
      <3> QED BY <2>2, <3>1 DEF DiagnosticUses, Exists, UsernamesDistinctIn
    <2> QED BY <2>3, <2>4
  <1>6. Proposal(a, w)
    BY <1>2, <1>3, <1>4, <1>5 DEF Proposal, Preserves, e
  <1> QED BY <1>6 DEF Proposes

\* New routes that come with a new token each keep the promise of one token for a route.
LEMMA NewTokens ==
  ASSUME IsConfiguration(db), SatisfiesConstraints(db), OneActiveCredentialIn(db),
         NEW N \in SUBSET Routes, NEW tok \in [N -> Credentials],
         \A r, s \in N : tok[r] = tok[s] => r = s,
         \A r \in N : db[r] = Absent /\ db[tok[r]] = Absent,
         NEW e,
         \A r \in N : e[tok[r]] = NewCredential(r),
         \A r \in Routes \ N : e[r] = db[r],
         \A c \in Credentials : (\A r \in N : c # tok[r]) => e[c] = db[c]
  PROVE  OneActiveCredentialIn(e)
  <1>1. ASSUME NEW r \in Routes, Exists(e, r)
        PROVE  \E c \in Credentials : ActiveCredentialsOf(e, r) = {c}
    <2>1. \A s \in N : ~Exists(db, s) /\ ~Exists(db, tok[s])
      <3>1. ~(Absent.version > 0)
        BY DEF Absent
      <3> QED BY <3>1 DEF Exists
    <2>2. \A s \in N : /\ Exists(e, tok[s]) /\ e[tok[s]].route = s /\ e[tok[s]].active
      <3>1. \A s : NewCredential(s).version > 0 /\ NewCredential(s).route = s /\ NewCredential(s).active
        BY DEF NewCredential
      <3> QED BY <3>1 DEF Exists
    <2>3. ASSUME NEW c \in Credentials, \A s \in N : c # tok[s]
          PROVE  c \in ActiveCredentialsOf(e, r) <=> c \in ActiveCredentialsOf(db, r)
      BY <2>3 DEF ActiveCredentialsOf, Exists
    <2>4. CASE r \in N
      <3>1. ActiveCredentialsOf(db, r) = {}
        BY <2>1, <2>4 DEF ActiveCredentialsOf, SatisfiesConstraints
      <3>2. \A c \in Credentials : c \in ActiveCredentialsOf(e, r) <=> c = tok[r]
        BY <2>2, <2>3, <2>4, <3>1 DEF ActiveCredentialsOf
      <3>3. ActiveCredentialsOf(e, r) = {tok[r]}
        BY <2>4, <3>2 DEF ActiveCredentialsOf
      <3> QED BY <2>4, <3>3
    <2>5. CASE r \notin N
      <3>1. PICK c \in Credentials : ActiveCredentialsOf(db, r) = {c}
        BY <1>1, <2>5 DEF OneActiveCredentialIn, Exists
      <3>2. \A s \in N : tok[s] \notin ActiveCredentialsOf(e, r) /\ tok[s] \notin ActiveCredentialsOf(db, r)
        BY <2>1, <2>2, <2>5 DEF ActiveCredentialsOf
      <3>3. \A b \in Credentials : b \in ActiveCredentialsOf(e, r) <=> b \in ActiveCredentialsOf(db, r)
        BY <2>3, <3>2
      <3>4. ActiveCredentialsOf(e, r) = {c}
        BY <3>1, <3>3 DEF ActiveCredentialsOf
      <3> QED BY <3>4
    <2> QED BY <2>4, <2>5
  <1> QED BY <1>1 DEF OneActiveCredentialIn

LEMMA NewTokenRows ==
  ASSUME NEW a \in Admins, Working(a), NEW r \in Routes, NEW c \in Credentials,
         db[r] = Absent, db[c] = Absent,
         NEW u \in Users, NEW n \in Usernames, NEW e \in BOOLEAN
  PROVE  /\ NewRoute(u, n, e) \in RowOf(r) /\ RowChange(db[r], NewRoute(u, n, e))
         /\ NewRoute(u, n, e).name = n /\ NewRoute(u, n, e).enabled = e
         /\ NewCredential(r) \in RowOf(c) /\ RowChange(db[c], NewCredential(r))
         /\ seen[a][r] = db[r]
  <1>1. 1 \in Versions /\ r \in Keys /\ c \in Keys
    BY DEF Versions, Keys
  <1>2. /\ NewRoute(u, n, e) \in RouteRow /\ NewRoute(u, n, e).version = 1
        /\ NewRoute(u, n, e).name = n /\ NewRoute(u, n, e).enabled = e
    BY <1>1 DEF NewRoute, RouteRow
  <1>3. NewCredential(r) \in CredentialRow /\ NewCredential(r).version = 1
    BY <1>1 DEF NewCredential, CredentialRow
  <1> QED BY <1>1, <1>2, <1>3, RowsOfTables, NewRow

LEMMA CreateProposal == ASSUME NEW a \in Admins, Working(a), CreateIdentityRoute(a) PROVE Proposes(a)
  <1>1. PICK r \in Routes, c \in Credentials, u \in Users, n \in Usernames, e \in BOOLEAN :
          /\ db[r] = Absent /\ db[c] = Absent
          /\ e => ~DiagnosticUses(db, n)
          /\ Write(a, Row(r, NewRoute(u, n, e)) ++ Row(c, NewCredential(r)))
    BY DEF CreateIdentityRoute, NextId, DistinctFromDiagnostic, Working
  <1> DEFINE w == Row(r, NewRoute(u, n, e)) ++ Row(c, NewCredential(r))
             N == {r}
             tok == [x \in N |-> c]
  <1>2. r # c /\ r \in Keys /\ Routes \cup Credentials \subseteq Keys
        /\ r \notin Credentials /\ c \notin Routes
    BY RowIdsAreDisjoint DEF Keys
  <1>3. DOMAIN w = {r, c} /\ w[r] = NewRoute(u, n, e) /\ w[c] = NewCredential(r)
    BY <1>2 DEF Row, ++
  <1> HIDE DEF w
  <1>4. ASSUME OneActiveCredentialIn(db) PROVE OneActiveCredentialIn(Apply(w, db))
    <2> DEFINE d == Apply(w, db)
    <2>1. \A k \in Routes \cup Credentials : d[k] = IF k \in DOMAIN w THEN w[k] ELSE db[k]
      BY <1>2, ApplyRow
    <2> HIDE DEF d
    <2>2. /\ d[c] = NewCredential(r) /\ \A s \in Routes \ N : d[s] = db[s]
          /\ \A b \in Credentials \ {c} : d[b] = db[b]
      BY <1>2, <1>3, <2>1
    <2>3. N \in SUBSET Routes /\ tok \in [N -> Credentials] /\ tok[r] = c
      OBVIOUS
    <2> HIDE DEF tok
    <2>4. OneActiveCredentialIn(d)
      BY <1>1, <1>4, <2>2, <2>3, NewTokens DEF Working
    <2> QED BY <2>4 DEF d
  <1>5. \A k \in DOMAIN w : w[k] \in RowOf(k) /\ RowChange(db[k], w[k])
    BY <1>1, <1>3, NewTokenRows
  <1>6. \A s \in DOMAIN w \cap Routes :
          /\ seen[a][s] = db[s]
          /\ w[s].version > 0 /\ w[s].enabled => ~DiagnosticUses(db, w[s].name)
    BY <1>1, <1>2, <1>3, NewTokenRows
  <1>7. Write(a, w) /\ DOMAIN w \subseteq Routes \cup Credentials /\ DOMAIN w # {}
    BY <1>1, <1>3 DEF w
  <1> QED BY <1>4, <1>5, <1>6, <1>7, TokenProposal

LEMMA BatchProposal ==
  ASSUME NEW a \in Admins, Working(a), BatchCreateIdentityRoutes(a) PROVE Proposes(a)
  <1>1. PICK r, s \in Routes, c, d \in Credentials, u, v \in Users, m, n \in Usernames, e, h \in BOOLEAN :
          /\ db[r] = Absent /\ db[c] = Absent /\ db[s] = Absent /\ db[d] = Absent
          /\ s # r /\ d # c
          /\ (e => ~DiagnosticUses(db, m)) /\ (h => ~DiagnosticUses(db, n))
          /\ Write(a, Row(r, NewRoute(u, m, e)) ++ Row(c, NewCredential(r))
                        ++ Row(s, NewRoute(v, n, h)) ++ Row(d, NewCredential(s)))
    BY DEF BatchCreateIdentityRoutes, NextId, DistinctFromDiagnostic, Working
  <1> DEFINE w == Row(r, NewRoute(u, m, e)) ++ Row(c, NewCredential(r))
                   ++ Row(s, NewRoute(v, n, h)) ++ Row(d, NewCredential(s))
             N == {r, s}
             tok == [x \in N |-> IF x = r THEN c ELSE d]
  <1>2. /\ Routes \cup Credentials \subseteq Keys
        /\ {r, s} \cap Credentials = {} /\ {c, d} \cap Routes = {}
    BY RowIdsAreDisjoint DEF Keys
  <1>3. /\ DOMAIN w = {r, c, s, d}
        /\ w[r] = NewRoute(u, m, e) /\ w[c] = NewCredential(r)
        /\ w[s] = NewRoute(v, n, h) /\ w[d] = NewCredential(s)
    BY <1>1, <1>2 DEF Row, ++
  <1> HIDE DEF w
  <1>4. ASSUME OneActiveCredentialIn(db) PROVE OneActiveCredentialIn(Apply(w, db))
    <2> DEFINE f == Apply(w, db)
    <2>1. \A k \in Routes \cup Credentials : f[k] = IF k \in DOMAIN w THEN w[k] ELSE db[k]
      BY <1>2, ApplyRow
    <2> HIDE DEF f
    <2>2. /\ f[c] = NewCredential(r) /\ f[d] = NewCredential(s)
          /\ \A q \in Routes \ N : f[q] = db[q]
          /\ \A b \in Credentials \ {c, d} : f[b] = db[b]
      BY <1>2, <1>3, <2>1
    <2>3. N \in SUBSET Routes /\ tok \in [N -> Credentials] /\ tok[r] = c /\ tok[s] = d
      BY <1>1
    <2> HIDE DEF tok
    <2>4. OneActiveCredentialIn(f)
      BY <1>1, <1>4, <2>2, <2>3, NewTokens DEF Working
    <2> QED BY <2>4 DEF f
  <1>5. \A k \in DOMAIN w : w[k] \in RowOf(k) /\ RowChange(db[k], w[k])
    BY <1>1, <1>3, NewTokenRows
  <1>6. \A q \in DOMAIN w \cap Routes :
          /\ seen[a][q] = db[q]
          /\ w[q].version > 0 /\ w[q].enabled => ~DiagnosticUses(db, w[q].name)
    BY <1>1, <1>2, <1>3, NewTokenRows
  <1>7. Write(a, w) /\ DOMAIN w \subseteq Routes \cup Credentials /\ DOMAIN w # {}
    BY <1>1, <1>3 DEF w
  <1> QED BY <1>4, <1>5, <1>6, <1>7, TokenProposal

\* Regenerating revokes what was active and leaves the new token as the only one.
LEMMA RegenerateProposal ==
  ASSUME NEW a \in Admins, Working(a), RegenerateIdentityCredential(a) PROVE Proposes(a)
  <1>1. PICK r \in Routes, new \in Credentials :
          /\ db[new] = Absent
          /\ \A c \in ActiveCredentialsOf(db, r) : Matches(a, c)
          /\ Write(a, [c \in ActiveCredentialsOf(db, r) |-> Revoked(c)] ++ Row(new, NewCredential(r)))
    BY DEF RegenerateIdentityCredential, NextId, Working
  <1> DEFINE old == ActiveCredentialsOf(db, r)
             w == [c \in old |-> Revoked(c)] ++ Row(new, NewCredential(r))
  <1>2. /\ Routes \cup Credentials \subseteq Keys /\ Credentials \cap Routes = {}
        /\ old \subseteq Credentials
    BY RowIdsAreDisjoint DEF Keys, ActiveCredentialsOf
  <1>3. \A c \in old : Exists(db, c) /\ db[c].route = r
    BY DEF ActiveCredentialsOf
  <1>4. new \notin old
    <2>1. ~(Absent.version > 0)
      BY DEF Absent
    <2> QED BY <1>1, <1>3, <2>1 DEF Exists
  <1> HIDE DEF old
  <1>5. /\ DOMAIN w = old \cup {new} /\ w[new] = NewCredential(r)
        /\ \A c \in old : w[c] = Revoked(c)
    BY <1>4 DEF Row, ++
  <1>6. Write(a, w)
    BY <1>1 DEF old
  <1> HIDE DEF w
  <1>7. \A c \in old : /\ Revoked(c) \in CredentialRow /\ Revoked(c).active = FALSE
                       /\ Revoked(c).version = NextVersion(c)
    <2> SUFFICES ASSUME NEW c \in old
                 PROVE  /\ Revoked(c) \in CredentialRow /\ Revoked(c).active = FALSE
                        /\ Revoked(c).version = NextVersion(c)
      OBVIOUS
    <2>1. db[c] \in CredentialRow
      BY <1>2, <1>3, ExistingRows DEF Working
    <2>2. NextVersion(c) \in Versions
      BY <1>1, <1>2, NextRow DEF old
    <2> QED BY <2>1, <2>2 DEF Revoked, NextVersion, CredentialRow
  <1>8. \A k \in DOMAIN w : w[k] \in RowOf(k) /\ RowChange(db[k], w[k])
    <2>1. \A c \in old : Revoked(c) \in RowOf(c) /\ RowChange(db[c], Revoked(c))
      BY <1>1, <1>2, <1>7, NextRow, RowsOfTables DEF old
    <2>2. NewCredential(r) \in RowOf(new) /\ RowChange(db[new], NewCredential(r))
      <3>1. NewCredential(r) \in CredentialRow /\ NewCredential(r).version = 1
        BY DEF NewCredential, CredentialRow, Versions
      <3> QED BY <1>1, <1>2, <3>1, NewRow, RowsOfTables
    <2> QED BY <1>5, <2>1, <2>2
  <1>9. ASSUME OneActiveCredentialIn(db) PROVE OneActiveCredentialIn(Apply(w, db))
    <2> DEFINE e == Apply(w, db)
    <2>1. \A k \in Routes \cup Credentials : e[k] = IF k \in DOMAIN w THEN w[k] ELSE db[k]
      BY <1>2, ApplyRow
    <2> HIDE DEF e
    <2>2. /\ \A s \in Routes : e[s] = db[s]
          /\ e[new] = NewCredential(r) /\ \A c \in old : e[c] = Revoked(c)
          /\ \A c \in Credentials \ (old \cup {new}) : e[c] = db[c]
      BY <1>2, <1>5, <2>1
    <2>3. ActiveCredentialsOf(e, r) = {new}
      <3>1. \A c \in old : c \notin ActiveCredentialsOf(e, r)
        BY <1>7, <2>2 DEF ActiveCredentialsOf
      <3>2. new \in ActiveCredentialsOf(e, r)
        BY <2>2 DEF ActiveCredentialsOf, Exists, NewCredential
      <3>3. \A c \in Credentials \ (old \cup {new}) : c \notin ActiveCredentialsOf(e, r)
        BY <2>2 DEF ActiveCredentialsOf, Exists, old
      <3> QED BY <3>1, <3>2, <3>3 DEF ActiveCredentialsOf
    <2>4. ASSUME NEW s \in Routes, s # r
          PROVE  ActiveCredentialsOf(e, s) = ActiveCredentialsOf(db, s)
      <3>1. \A c \in old : /\ c \notin ActiveCredentialsOf(e, s)
                           /\ c \notin ActiveCredentialsOf(db, s)
        BY <1>3, <1>7, <2>2, <2>4 DEF ActiveCredentialsOf
      <3>2. new \notin ActiveCredentialsOf(e, s) /\ new \notin ActiveCredentialsOf(db, s)
        <4>1. ~(Absent.version > 0) /\ NewCredential(r).route = r
          BY DEF Absent, NewCredential
        <4> QED BY <1>1, <2>2, <2>4, <4>1 DEF ActiveCredentialsOf, Exists
      <3>3. \A c \in Credentials \ (old \cup {new}) :
              c \in ActiveCredentialsOf(e, s) <=> c \in ActiveCredentialsOf(db, s)
        BY <2>2 DEF ActiveCredentialsOf, Exists
      <3> QED BY <3>1, <3>2, <3>3 DEF ActiveCredentialsOf
    <2>5. OneActiveCredentialIn(e)
      BY <1>9, <2>2, <2>3, <2>4 DEF OneActiveCredentialIn, Exists
    <2> QED BY <2>5 DEF e
  <1>10. DOMAIN w \subseteq Routes \cup Credentials /\ DOMAIN w # {} /\ DOMAIN w \cap Routes = {}
    BY <1>2, <1>5
  <1> QED BY <1>6, <1>8, <1>9, <1>10, TokenProposal

\* A route takes its tokens with it and leaves those of the others.
LEMMA DeleteProposal ==
  ASSUME NEW a \in Admins, Working(a), DeleteIdentityRoute(a) PROVE Proposes(a)
  <1>1. PICK r \in Routes :
          /\ Matches(a, r)
          /\ Write(a, Row(r, Gone) ++
                      [c \in {b \in Credentials : Exists(db, b) /\ db[b].route = r} |-> Gone])
    BY DEF DeleteIdentityRoute
  <1> DEFINE old == {b \in Credentials : Exists(db, b) /\ db[b].route = r}
             w == Row(r, Gone) ++ [c \in old |-> Gone]
  <1>2. /\ Routes \cup Credentials \subseteq Keys /\ r \in Keys
        /\ Credentials \cap Routes = {} /\ r \notin Credentials
        /\ old \subseteq Credentials /\ \A c \in old : Exists(db, c) /\ db[c].route = r
    BY RowIdsAreDisjoint DEF Keys
  <1>3. DOMAIN w = old \cup {r} /\ \A k \in old \cup {r} : w[k] = Gone
    BY <1>2 DEF Row, ++
  <1>4. Write(a, w)
    BY <1>1
  <1> HIDE DEF w
  <1>5. ~(Gone.version > 0)
    BY DEF Gone
  <1>6. Exists(db, r) /\ seen[a][r] = db[r]
    BY <1>1, <1>2, NextRow
  <1>7. \A k \in DOMAIN w : w[k] \in RowOf(k) /\ RowChange(db[k], w[k])
    BY <1>2, <1>3, <1>6, RowsOfTables DEF RowChange, Exists
  <1>8. ASSUME OneActiveCredentialIn(db) PROVE OneActiveCredentialIn(Apply(w, db))
    <2> DEFINE e == Apply(w, db)
    <2>1. \A k \in Routes \cup Credentials : e[k] = IF k \in DOMAIN w THEN w[k] ELSE db[k]
      BY <1>2, ApplyRow
    <2> HIDE DEF e
    <2>2. /\ e[r] = Gone /\ \A s \in Routes \ {r} : e[s] = db[s]
          /\ \A c \in old : e[c] = Gone
          /\ \A c \in Credentials \ old : e[c] = db[c]
      BY <1>2, <1>3, <2>1
    <2>3. ~Exists(e, r)
      BY <1>5, <2>2 DEF Exists
    <2>4. ASSUME NEW s \in Routes, s # r
          PROVE  ActiveCredentialsOf(e, s) = ActiveCredentialsOf(db, s)
      <3>1. \A c \in old : /\ c \notin ActiveCredentialsOf(e, s)
                           /\ c \notin ActiveCredentialsOf(db, s)
        BY <1>2, <1>5, <2>2, <2>4 DEF ActiveCredentialsOf, Exists
      <3>2. \A c \in Credentials \ old :
              c \in ActiveCredentialsOf(e, s) <=> c \in ActiveCredentialsOf(db, s)
        BY <2>2 DEF ActiveCredentialsOf, Exists
      <3> QED BY <3>1, <3>2 DEF ActiveCredentialsOf
    <2>5. OneActiveCredentialIn(e)
      BY <1>8, <2>2, <2>3, <2>4 DEF OneActiveCredentialIn, Exists
    <2> QED BY <2>5 DEF e
  <1>9. /\ DOMAIN w \subseteq Routes \cup Credentials /\ DOMAIN w # {}
        /\ \A s \in DOMAIN w \cap Routes :
             /\ seen[a][s] = db[s]
             /\ w[s].version > 0 /\ w[s].enabled => ~DiagnosticUses(db, w[s].name)
    BY <1>2, <1>3, <1>5, <1>6
  <1> QED BY <1>4, <1>7, <1>8, <1>9, TokenProposal

\* Whatever an operation writes may be committed.
LEMMA OperationProposes == ASSUME NEW a \in Admins, Working(a), Operation(a) PROVE Proposes(a)
  <1>1. CASE UpdateTool(a) \/ UpdateRuntimeSetting(a)
    BY <1>1, UpsertProposal DEF UpdateTool, UpdateRuntimeSetting
  <1> QED BY <1>1, CreateProposal, BatchProposal, UpdateRouteProposal, RegenerateProposal,
             DeleteProposal, PolicyProposal, RuleProposal, DiagnosticProposal DEF Operation

----------------------------------------------------------------------------
(* The invariant. *)

LEMMA StoreInit == Init => Inv
  <1> SUFFICES ASSUME Init PROVE Inv
    OBVIOUS
  <1>1. IsConfiguration(EmptyConfiguration)
    BY DEF IsConfiguration, EmptyConfiguration, RowOf
  <1>2. StoreType
    BY <1>1, InitialConfigurationsAreConsistent, AdminStoreAssumption DEF Init, StoreType, Phases
  <1>3. Locking /\ Proposals /\ Versioned
    BY DEF Init, Locking, InTransaction, Proposals, Versioned, SeenBefore
  <1> QED BY <1>2, <1>3 DEF Inv

\* Every operation ends in one Write.
LEMMA OperationWrites == ASSUME NEW a \in Admins, Operation(a) PROVE \E w : Write(a, w)
  <1>1. CASE UpdateTool(a) \/ UpdateRuntimeSetting(a)
    BY <1>1, Zenon DEF UpdateTool, UpdateRuntimeSetting, UpsertValue
  <1>2. CASE CreateIdentityRoute(a) \/ BatchCreateIdentityRoutes(a)
    <2>1. CASE CreateIdentityRoute(a)
      BY <2>1, Zenon DEF CreateIdentityRoute
    <2>2. CASE BatchCreateIdentityRoutes(a)
      <3>1. PICK r \in Routes, s \in Routes, c \in Credentials, d \in Credentials, u, v \in Users, m, n \in Usernames, e, h \in BOOLEAN :
              Write(a, Row(r, NewRoute(u, m, e)) ++ Row(c, NewCredential(r))
                         ++ Row(s, NewRoute(v, n, h)) ++ Row(d, NewCredential(s)))
        BY <2>2 DEF BatchCreateIdentityRoutes
      <3> QED BY <3>1, Zenon
    <2> QED BY <1>2, <2>1, <2>2
  <1>3. CASE UpdateIdentityRoute(a) \/ DisableIdentityRoute(a)
    BY <1>3, Zenon DEF UpdateIdentityRoute, DisableIdentityRoute
  <1>4. CASE RegenerateIdentityCredential(a) \/ DeleteIdentityRoute(a)
    BY <1>4, Zenon DEF RegenerateIdentityCredential, DeleteIdentityRoute
  <1>5. CASE CreateDmlPolicy(a) \/ UpdateDmlPolicy(a) \/ DisableDmlPolicy(a)
    BY <1>5, Zenon DEF CreateDmlPolicy, UpdateDmlPolicy, DisableDmlPolicy
  <1>6. CASE CreateManagedDmlFieldRule(a) \/ UpdateManagedDmlFieldRule(a)
    BY <1>6, Zenon DEF CreateManagedDmlFieldRule, UpdateManagedDmlFieldRule
  <1>7. CASE DisableManagedDmlFieldRule(a) \/ DeleteManagedDmlFieldRule(a)
    BY <1>7, Zenon DEF DisableManagedDmlFieldRule, DeleteManagedDmlFieldRule
  <1>8. CASE UpdateDiagnostic(a) \/ RecordDiagnosticVerification(a)
    <2>1. CASE UpdateDiagnostic(a)
      <3> DEFINE row(n, e, v) == [name |-> n, enabled |-> e, status |-> "NOT_VERIFIED", version |-> v]
      <3>1. PICK n, e :
              \/ Write(a, Row(Diagnostic, row(n, e, 1)))
              \/ Write(a, Row(Diagnostic, row(n, e, NextVersion(Diagnostic))))
        BY <2>1 DEF UpdateDiagnostic
      <3> QED BY <3>1, Zenon
    <2>2. CASE RecordDiagnosticVerification(a)
      BY <2>2, Zenon DEF RecordDiagnosticVerification
    <2> QED BY <1>8, <2>1, <2>2
  <1> QED BY <1>1, <1>2, <1>3, <1>4, <1>5, <1>6, <1>7, <1>8 DEF Operation

\* A page is loaded outside any transaction.
LEMMA LoadStep == ASSUME Inv, NEW a \in Admins, Load(a) PROVE Inv'
  <1> USE DEF Inv
  <1>1. /\ phase[a] = "IDLE" /\ seen' = [seen EXCEPT ![a] = db]
        /\ UNCHANGED <<db, audits, sentinel, phase, view, writes>>
    BY DEF Load
  <1>2. StoreType'
    BY <1>1 DEF StoreType
  <1>3. Locking'
    BY <1>1 DEF Locking, InTransaction
  <1>4. \A b \in Admins : phase[b] # "IDLE" => seen'[b] = seen[b]
    BY <1>1 DEF StoreType
  <1>5. Proposals'
    BY <1>1, <1>4 DEF Proposals, Proposal
  <1>6. Versioned'
    BY <1>1 DEF StoreType, Versioned, SeenBefore
  <1> QED BY <1>2, <1>3, <1>5, <1>6

LEMMA LockStep == ASSUME Inv, NEW a \in Admins, Lock(a) PROVE Inv'
  <1> USE DEF Inv
  <1>1. /\ phase[a] = "IDLE" /\ sentinel = NoAdmin /\ audits < MaxChanges
        /\ sentinel' = a /\ view' = [view EXCEPT ![a] = db]
        /\ phase' = [phase EXCEPT ![a] = "LOCKED"]
        /\ UNCHANGED <<db, audits, seen, writes>>
    BY DEF Lock
  <1>2. StoreType'
    BY <1>1 DEF StoreType, Phases
  <1>3. \A b \in Admins : phase[b] = "IDLE"
    BY <1>1, AdminStoreAssumption DEF Locking, InTransaction
  <1>4. Locking'
    BY <1>1, <1>3 DEF StoreType, Locking, InTransaction
  <1>5. Proposals'
    BY <1>1, <1>3 DEF StoreType, Proposals
  <1>6. Versioned'
    BY <1>1 DEF Versioned
  <1> QED BY <1>2, <1>4, <1>5, <1>6

LEMMA OperationStep == ASSUME Inv, NEW a \in Admins, Operation(a) PROVE Inv'
  <1> USE DEF Inv
  <1>1. phase[a] = "LOCKED"
    BY OperationWrites DEF Write
  <1>2. PICK w : Write(a, w) /\ Proposal(a, w)
    BY <1>1, IsWorking, OperationProposes DEF Proposes
  <1>3. /\ writes' = [writes EXCEPT ![a] = w] /\ phase' = [phase EXCEPT ![a] = "WRITTEN"]
        /\ UNCHANGED <<db, audits, sentinel, seen, view>>
    BY <1>2 DEF Write
  <1>4. StoreType'
    BY <1>3 DEF StoreType, Phases
  <1>5. Locking'
    BY <1>1, <1>3 DEF StoreType, Locking, InTransaction
  <1>6. Proposals'
    BY <1>2, <1>3 DEF StoreType, Proposals, Proposal
  <1>7. Versioned'
    BY <1>3 DEF Versioned
  <1> QED BY <1>4, <1>5, <1>6, <1>7

LEMMA AuditStep == ASSUME Inv, NEW a \in Admins, AppendAudit(a) PROVE Inv'
  <1> USE DEF Inv
  <1>1. /\ phase[a] = "WRITTEN" /\ phase' = [phase EXCEPT ![a] = "AUDITED"]
        /\ UNCHANGED <<db, audits, sentinel, seen, view, writes>>
    BY DEF AppendAudit
  <1>2. StoreType'
    BY <1>1 DEF StoreType, Phases
  <1>3. Locking'
    BY <1>1 DEF StoreType, Locking, InTransaction
  <1>4. Proposals'
    BY <1>1 DEF StoreType, Proposals, Proposal
  <1>5. Versioned'
    BY <1>1 DEF Versioned
  <1> QED BY <1>2, <1>3, <1>4, <1>5

\* The end of a transaction, whatever became of it, leaves nobody in one.
LEMMA EndFacts ==
  ASSUME Inv, NEW a \in Admins, InTransaction(a), End(a)
  PROVE  /\ \A b \in Admins : phase'[b] = "IDLE" /\ writes'[b] = NoWrites
         /\ sentinel' = NoAdmin /\ seen' = seen
         /\ phase' \in [Admins -> Phases]
         /\ DOMAIN writes' = Admins
         /\ DOMAIN view' = Admins /\ \A b \in Admins : IsConfiguration(view'[b])
  <1> USE DEF Inv
  <1>1. sentinel = a /\ \A b \in Admins \ {a} : phase[b] = "IDLE"
    BY DEF Locking, InTransaction
  <1>2. IsConfiguration(EmptyConfiguration)
    BY DEF IsConfiguration, EmptyConfiguration, RowOf
  <1>3. /\ sentinel' = NoAdmin /\ seen' = seen
        /\ phase' = [phase EXCEPT ![a] = "IDLE"]
        /\ view' = [view EXCEPT ![a] = EmptyConfiguration]
        /\ writes' = [writes EXCEPT ![a] = NoWrites]
    BY <1>1 DEF End
  <1> QED BY <1>1, <1>2, <1>3 DEF StoreType, Phases, Proposals

LEMMA RollbackStep == ASSUME Inv, NEW a \in Admins, Rollback(a) PROVE Inv'
  <1> USE DEF Inv
  <1>1. InTransaction(a) /\ End(a) /\ UNCHANGED <<db, audits>>
    BY DEF Rollback, InTransaction
  <1>2. StoreType'
    BY <1>1, EndFacts DEF StoreType
  <1>3. Locking' /\ Proposals'
    BY <1>1, EndFacts DEF Locking, InTransaction, Proposals
  <1>4. Versioned'
    BY <1>1, EndFacts DEF Versioned
  <1> QED BY <1>2, <1>3, <1>4

\* What a commit does to the configuration.
LEMMA CommitFacts ==
  ASSUME Inv, NEW a \in Admins, Commit(a)
  PROVE  /\ InTransaction(a) /\ End(a) /\ sentinel = a
         /\ audits' = audits + 1 /\ audits < MaxChanges
         /\ IsConfiguration(db') /\ SatisfiesConstraints(db') /\ Preserves(db, db')
         /\ \A k \in Keys : db'[k] # db[k] =>
              /\ RowChange(db[k], db'[k])
              /\ k \notin Credentials => seen[a][k] = db[k]
         /\ db' # db
  <1> USE DEF Inv
  <1> DEFINE w == writes[a]
  <1>1. /\ phase[a] = "AUDITED" /\ End(a) /\ audits' = audits + 1 /\ db' = Apply(w, db)
    BY DEF Commit
  <1>2. Proposal(a, w) /\ InTransaction(a) /\ sentinel = a /\ audits < MaxChanges
    BY <1>1 DEF Proposals, Locking, InTransaction
  <1>3. IsConfiguration(db)
    BY DEF StoreType
  <1> HIDE DEF w
  <1>4. DOMAIN db' = Keys /\ \A k \in Keys : db'[k] = IF k \in DOMAIN w THEN w[k] ELSE db[k]
    BY <1>1 DEF Apply
  <1>5. IsConfiguration(db')
    BY <1>2, <1>3, <1>4 DEF IsConfiguration, Proposal
  <1>6. SatisfiesConstraints(db') /\ Preserves(db, db')
    BY <1>1, <1>2 DEF Proposal
  <1>7. \A k \in Keys : db'[k] # db[k] =>
          RowChange(db[k], db'[k]) /\ (k \notin Credentials => seen[a][k] = db[k])
    BY <1>2, <1>4 DEF Proposal
  <1>8. db' # db
    <2>1. PICK k \in DOMAIN w : k \in Keys /\ w[k] \in RowOf(k) /\ RowChange(db[k], w[k])
      BY <1>2 DEF Proposal
    <2>2. db[k] # w[k]
      BY <1>3, <2>1, ChangedRow DEF IsConfiguration
    <2> QED BY <1>4, <2>1, <2>2
  <1> QED BY <1>1, <1>2, <1>5, <1>6, <1>7, <1>8

LEMMA CommitStep == ASSUME Inv, NEW a \in Admins, Commit(a) PROVE Inv'
  <1>1. /\ \A b \in Admins : phase'[b] = "IDLE" /\ writes'[b] = NoWrites
        /\ sentinel' = NoAdmin /\ seen' = seen /\ phase' \in [Admins -> Phases]
        /\ DOMAIN writes' = Admins
        /\ DOMAIN view' = Admins /\ \A b \in Admins : IsConfiguration(view'[b])
    BY CommitFacts, EndFacts
  <1>2. StoreType'
    <2>1. audits' \in 0 .. MaxChanges
      BY CommitFacts, AdminStoreAssumption DEF Inv, StoreType
    <2> QED BY <1>1, <2>1, CommitFacts DEF Inv, StoreType
  <1>3. Locking' /\ Proposals'
    BY <1>1 DEF Locking, InTransaction, Proposals
  <1>4. Versioned'
    <2> SUFFICES ASSUME NEW b \in Admins, NEW k \in Keys PROVE SeenBefore(seen[b][k], db'[k])
      BY <1>1 DEF Versioned
    <2>1. /\ SeenBefore(seen[b][k], db[k]) /\ seen[b][k] \in RowOf(k)
          /\ db[k] \in RowOf(k) /\ db'[k] \in RowOf(k)
      BY CommitFacts DEF Inv, Versioned, StoreType, IsConfiguration
    <2>2. db'[k] = db[k] \/ RowChange(db[k], db'[k])
      BY CommitFacts
    <2> QED BY <2>1, <2>2, ChangedRow
  <1> QED BY <1>2, <1>3, <1>4 DEF Inv

LEMMA StoreNext == Inv /\ [Next]_vars => Inv'
  <1> SUFFICES ASSUME Inv, [Next]_vars PROVE Inv'
    OBVIOUS
  <1>1. CASE UNCHANGED vars
    BY <1>1 DEF vars, Inv, StoreType, Locking, InTransaction, Proposals, Proposal, Versioned
  <1> QED BY <1>1, LoadStep, LockStep, OperationStep, AuditStep, CommitStep, RollbackStep DEF Next

LEMMA Invariance == Spec => []Inv
  BY StoreInit, StoreNext, PTL DEF Spec

\* Only a commit changes the configuration.
LEMMA OnlyCommitsChange ==
  ASSUME NEW a \in Admins,
         Load(a) \/ Lock(a) \/ Operation(a) \/ AppendAudit(a) \/ Rollback(a)
  PROVE  UNCHANGED <<db, audits>>
  BY OperationWrites DEF Load, Lock, AppendAudit, Rollback, Write

\* Every promise is kept for itself, whatever became of the others.
LEMMA PromisesKept == ASSUME Inv, [Next]_vars PROVE Preserves(db, db')
  <1>1. db' = db => Preserves(db, db')
    BY DEF Preserves
  <1> QED BY <1>1, OnlyCommitsChange, CommitFacts DEF Next, vars

----------------------------------------------------------------------------
LEMMA InvTypes == Inv => TypeOK
  <1>1. ASSUME Inv, NEW a \in Admins
        PROVE  /\ DOMAIN writes[a] \subseteq Keys
               /\ \A k \in DOMAIN writes[a] : writes[a][k] \in RowOf(k)
    <2>1. CASE phase[a] \in {"IDLE", "LOCKED"}
      <3>1. writes[a] = NoWrites /\ DOMAIN NoWrites = {}
        BY <1>1, <2>1 DEF Inv, Proposals, NoWrites
      <3> QED BY <3>1
    <2>2. CASE phase[a] \in {"WRITTEN", "AUDITED"}
      BY <1>1, <2>2 DEF Inv, Proposals, Proposal
    <2> QED BY <1>1, <2>1, <2>2 DEF Inv, StoreType, Phases
  <1> QED BY <1>1 DEF Inv, StoreType, TypeOK

\* Type correctness of the store, and the constraints of the migrations.
THEOREM TypeCorrect == Spec => []TypeOK
  BY InvTypes, Invariance, PTL

\* No interleaving of administrators leads to a configuration that breaks a promise no
\* constraint enforces (the assert functions of ControlPlaneAdminService).
THEOREM AlwaysConsistent == Spec => []Consistent
  <1> USE DEF Consistent, UsernamesDistinct, RulesWithinPolicy, OneActiveCredential
  <1>1. Init => Consistent
    BY InitialConfigurationsAreConsistent DEF Init, ConsistentIn
  <1>2. Inv /\ Consistent /\ [Next]_vars => Consistent'
    BY PromisesKept DEF Preserves
  <1> QED BY <1>1, <1>2, Invariance, PTL DEF Spec

\* A row_version names one content of a row for ever: a row that still has the version a page
\* was loaded with is the row the page shows, however many changes, deletions and insertions
\* lie between (what WHERE id = ? AND row_version = ? in mysql-repositories.ts relies on).
THEOREM VersionNamesRow ==
  Spec => [](\A a \in Admins : \A k \in Keys :
               Exists(db, k) /\ db[k].version = seen[a][k].version => seen[a][k] = db[k])
  <1>1. Inv => \A a \in Admins : \A k \in Keys :
                 Exists(db, k) /\ db[k].version = seen[a][k].version => seen[a][k] = db[k]
    BY MatchIsCurrent
  <1> QED BY <1>1, Invariance, PTL

\* A step replaces only what its administrator was shown.
OverwritesStep ==
  \A a \in Admins : sentinel = a =>
    \A k \in Keys \ Credentials : db'[k] # db[k] => seen[a][k] = db[k]

LEMMA StepOverwritesSeen == ASSUME Inv, [Next]_vars PROVE OverwritesStep
  <1>1. CASE UNCHANGED db
    BY <1>1 DEF OverwritesStep
  <1>2. ASSUME NEW b \in Admins, Commit(b) PROVE OverwritesStep
    BY <1>2, CommitFacts DEF OverwritesStep
  <1> QED BY <1>1, <1>2, OnlyCommitsChange DEF Next, vars

\* A change replaces only what its administrator was shown (row_version in the WHERE
\* clauses of mysql-repositories.ts).
THEOREM NothingOverwrittenUnseen == Spec => OverwritesWhatWasSeen
  <1>1. Inv /\ [Next]_vars => [OverwritesStep]_vars
    BY StepOverwritesSeen
  <1> QED BY <1>1, Invariance, PTL DEF Spec, OverwritesWhatWasSeen, OverwritesStep

\* ConfigStore means the same configurations.
LEMMA SameConfigurations ==
  ASSUME NEW d
  PROVE  /\ Abstract!IsConfiguration(d) <=> IsConfiguration(d)
         /\ Abstract!SatisfiesConstraints(d) <=> SatisfiesConstraints(d)
  <1>1. Abstract!Keys = Keys /\ Abstract!Absent = Absent /\ Abstract!Gone = Gone
    BY DEF Abstract!Keys, Keys, Abstract!Absent, Absent, Abstract!Gone, Gone
  <1>2. \A k : Abstract!RowOf(k) = RowOf(k)
    <2>1. /\ Abstract!RouteRow = RouteRow /\ Abstract!CredentialRow = CredentialRow
          /\ Abstract!PolicyRow = PolicyRow /\ Abstract!RuleRow = RuleRow
          /\ Abstract!DiagnosticRow = DiagnosticRow /\ Abstract!ValueRow = ValueRow
      BY DEF Abstract!RouteRow, Abstract!CredentialRow, Abstract!PolicyRow, Abstract!RuleRow,
             Abstract!DiagnosticRow, Abstract!ValueRow, RouteRow, CredentialRow, PolicyRow, RuleRow,
             DiagnosticRow, ValueRow, Abstract!Versions, Versions, Abstract!PolicyOperations,
             PolicyOperations, Abstract!RuleOperations, RuleOperations,
             Abstract!VerificationStatus, VerificationStatus
    <2> QED BY <1>1, <2>1, Zenon DEF Abstract!RowOf, RowOf
  <1>3. \A k : Abstract!Exists(d, k) <=> Exists(d, k)
    BY DEF Abstract!Exists, Exists
  <1> QED BY <1>1, <1>2, <1>3 DEF Abstract!IsConfiguration, IsConfiguration,
                                  Abstract!SatisfiesConstraints, SatisfiesConstraints

\* A change of the configuration, seen from ConfigStore.
LEMMA ChangeIsAbstract ==
  ASSUME IsConfiguration(db'), SatisfiesConstraints(db'), db' # db, audits' = audits + 1,
         \A k \in Keys : db'[k] # db[k] => RowChange(db[k], db'[k])
  PROVE  Abstract!Change
  <1>1. Abstract!Absent = Absent /\ Abstract!Gone = Gone /\ Abstract!Keys = Keys
    BY DEF Abstract!Absent, Absent, Abstract!Gone, Gone, Abstract!Keys, Keys
  <1>2. \A k \in Keys : Abstract!RowStep(db[k], db'[k])
    BY <1>1 DEF RowChange, Abstract!RowStep
  <1> QED BY <1>1, <1>2, SameConfigurations DEF Abstract!Change

LEMMA StepRefines ==
  ASSUME Inv, [Next]_vars PROVE Abstract!Change \/ UNCHANGED <<db, audits>>
  <1>1. ASSUME NEW a \in Admins, Commit(a) PROVE Abstract!Change
    BY <1>1, CommitFacts, ChangeIsAbstract
  <1> QED BY <1>1, OnlyCommitsChange DEF Next, vars

\* The transactions implement ConfigStore: atomic, audited, versioned changes.
THEOREM Implementation == Spec => ImplementsConfigStore
  <1>1. Init => Abstract!Init
    BY DEF Init, Abstract!Init
  <1>2. Inv /\ [Next]_vars => [Abstract!Change]_<<db, audits>>
    BY StepRefines
  <1> QED BY <1>1, <1>2, Invariance, PTL DEF Spec, ImplementsConfigStore, Abstract!Spec

----------------------------------------------------------------------------
(* The import of an environment, beside any number of administrators. *)

\* The items an environment consists of.
RouteItem      == [kind: {"ROUTE"}, item: [user: Users, name: Usernames]]
ValueItem      == [kind: {"VALUE"}, key: Tools \cup Settings, item: Values]
PolicyItem     == [kind: {"POLICY"}, key: Policies, item: SUBSET PolicyOperations]
DiagnosticItem == [kind: {"DIAGNOSTIC"}, key: {Diagnostic}, item: Usernames]
AnyItem == RouteItem \cup ValueItem \cup PolicyItem \cup DiagnosticItem

\* The rows an item may be written to.
RowsFor(entry) == IF entry.kind = "ROUTE" THEN Routes ELSE {entry.key}

LEMMA ElementOf == ASSUME NEW S, NEW q \in Seq(S) PROVE \A i \in DOMAIN q : q[i] \in S
  OBVIOUS

LEMMA MappedSequence ==
  ASSUME NEW S, NEW T, NEW q \in Seq(S), NEW f \in [DOMAIN q -> T]
  PROVE  f \in Seq(T)
  <1>1. DOMAIN q = 1 .. Len(q) /\ Len(q) \in Nat
    OBVIOUS
  <1> QED BY <1>1

LEMMA ItemsAreTyped == ASSUME EnvironmentTyped PROVE Items \in Seq(AnyItem)
  <1> DEFINE routes == [i \in DOMAIN EnvRoutes |-> [kind |-> "ROUTE", item |-> EnvRoutes[i]]]
             tools == [i \in DOMAIN EnvTools |->
                         [kind |-> "VALUE", key |-> EnvTools[i], item |-> Enabled]]
             policies == [i \in DOMAIN EnvPolicies |->
                            [kind |-> "POLICY", key |-> EnvPolicies[i].policy,
                             item |-> EnvPolicies[i].allows]]
             diagnostic == [i \in DOMAIN EnvDiagnostic |->
                              [kind |-> "DIAGNOSTIC", key |-> Diagnostic, item |-> EnvDiagnostic[i]]]
             settings == [i \in DOMAIN EnvSettings |->
                            [kind |-> "VALUE", key |-> EnvSettings[i], item |-> Enabled]]
  <1>1. routes \in [DOMAIN EnvRoutes -> AnyItem]
    <2>1. \A i \in DOMAIN EnvRoutes : EnvRoutes[i] \in [user: Users, name: Usernames]
      BY ElementOf, Zenon DEF EnvironmentTyped
    <2> QED BY <2>1 DEF AnyItem, RouteItem
  <1>2. tools \in [DOMAIN EnvTools -> AnyItem]
    <2>1. Enabled \in Values /\ \A i \in DOMAIN EnvTools : EnvTools[i] \in Tools
      BY ElementOf, Zenon DEF EnvironmentTyped
    <2> QED BY <2>1 DEF AnyItem, ValueItem
  <1>3. policies \in [DOMAIN EnvPolicies -> AnyItem]
    <2>1. \A i \in DOMAIN EnvPolicies :
            EnvPolicies[i] \in [policy: Policies, allows: SUBSET PolicyOperations]
      BY ElementOf, Zenon DEF EnvironmentTyped
    <2> QED BY <2>1 DEF AnyItem, PolicyItem
  <1>4. diagnostic \in [DOMAIN EnvDiagnostic -> AnyItem]
    <2>1. \A i \in DOMAIN EnvDiagnostic : EnvDiagnostic[i] \in Usernames
      BY ElementOf, Zenon DEF EnvironmentTyped
    <2> QED BY <2>1 DEF AnyItem, DiagnosticItem
  <1>5. settings \in [DOMAIN EnvSettings -> AnyItem]
    <2>1. Enabled \in Values /\ \A i \in DOMAIN EnvSettings : EnvSettings[i] \in Settings
      BY ElementOf, Zenon DEF EnvironmentTyped
    <2> QED BY <2>1 DEF AnyItem, ValueItem
  <1>6. Items = routes \o tools \o policies \o diagnostic \o settings
    BY DEF Items
  <1> HIDE DEF routes, tools, policies, diagnostic, settings
  <1>7. /\ routes \in Seq(AnyItem) /\ tools \in Seq(AnyItem) /\ policies \in Seq(AnyItem)
        /\ diagnostic \in Seq(AnyItem) /\ settings \in Seq(AnyItem)
    BY <1>1, <1>2, <1>3, <1>4, <1>5, MappedSequence DEF EnvironmentTyped
  <1> QED BY <1>6, <1>7

\* The row of an item is one its table can hold.
LEMMA RowOfItemTyped ==
  ASSUME NEW entry \in AnyItem, NEW k \in RowsFor(entry), NEW v \in Versions
  PROVE  k \in Keys /\ RowOfItem(entry, v) \in RowOf(k) /\ RowOfItem(entry, v).version = v
  <1>1. CASE entry \in RouteItem
    <2>1. k \in Routes /\ entry.kind = "ROUTE" /\ entry.item \in [user: Users, name: Usernames]
      BY <1>1 DEF RouteItem, RowsFor
    <2>2. RowOfItem(entry, v) = [NewRoute(entry.item.user, entry.item.name, TRUE) EXCEPT !.version = v]
      BY <2>1 DEF RowOfItem
    <2>3. RowOfItem(entry, v) \in RouteRow /\ RowOfItem(entry, v).version = v
      BY <2>1, <2>2 DEF NewRoute, RouteRow
    <2> QED BY <2>1, <2>3, RowsOfTables DEF Keys
  <1>2. CASE entry \in ValueItem
    <2>1. k \in Tools \cup Settings /\ entry.kind = "VALUE" /\ entry.item \in Values
      BY <1>2 DEF ValueItem, RowsFor
    <2>2. RowOfItem(entry, v) = [value |-> entry.item, version |-> v]
      BY <2>1 DEF RowOfItem
    <2>3. RowOfItem(entry, v) \in ValueRow /\ RowOfItem(entry, v).version = v
      BY <2>1, <2>2 DEF ValueRow
    <2> QED BY <2>1, <2>3, RowsOfTables DEF Keys
  <1>3. CASE entry \in PolicyItem
    <2>1. k \in Policies /\ entry.kind = "POLICY" /\ entry.item \in SUBSET PolicyOperations
      BY <1>3 DEF PolicyItem, RowsFor
    <2>2. RowOfItem(entry, v) = [allows |-> entry.item, enabled |-> TRUE, version |-> v]
      BY <2>1 DEF RowOfItem
    <2>3. RowOfItem(entry, v) \in PolicyRow /\ RowOfItem(entry, v).version = v
      BY <2>1, <2>2 DEF PolicyRow
    <2> QED BY <2>1, <2>3, RowsOfTables DEF Keys
  <1>4. CASE entry \in DiagnosticItem
    <2>1. k = Diagnostic /\ entry.kind = "DIAGNOSTIC" /\ entry.item \in Usernames
      BY <1>4 DEF DiagnosticItem, RowsFor
    <2>2. RowOfItem(entry, v) = [name |-> entry.item, enabled |-> TRUE,
                                 status |-> "NOT_VERIFIED", version |-> v]
      BY <2>1 DEF RowOfItem
    <2>3. RowOfItem(entry, v) \in DiagnosticRow /\ RowOfItem(entry, v).version = v
      BY <2>1, <2>2 DEF DiagnosticRow, VerificationStatus
    <2> QED BY <2>1, <2>3, RowsOfTables DEF Keys
  <1> QED BY <1>1, <1>2, <1>3, <1>4 DEF AnyItem

\* An import writes one row: a new one, or with --force the next version of an old one.
Imports(entry, k, v) ==
  /\ entry \in AnyItem /\ k \in RowsFor(entry) /\ v \in Versions
  /\ db' = Apply(Row(k, RowOfItem(entry, v)), db)
  /\ RowChange(db[k], RowOfItem(entry, v))
  /\ ~Forced => db[k] = Absent

LEMMA ImportWrites ==
  ASSUME EnvironmentTyped, IsConfiguration(db), imported \in Nat, Import
  PROVE  \E k, v : Imports(Items[imported + 1], k, v)
  <1> DEFINE entry == Items[imported + 1]
  <1>1. entry \in AnyItem
    BY ItemsAreTyped DEF Import
  <1>2. ImportItem(entry)
    BY DEF Import
  <1> HIDE DEF entry
  <1>3. CASE \E k \in Keys :
               /\ db[k] = Absent /\ k \in RowsFor(entry)
               /\ db' = Apply(Row(k, RowOfItem(entry, 1)), db)
    <2>1. PICK k \in Keys : /\ db[k] = Absent /\ k \in RowsFor(entry)
                            /\ db' = Apply(Row(k, RowOfItem(entry, 1)), db)
      BY <1>3
    <2>2. 1 \in Versions /\ RowOfItem(entry, 1).version = 1
      BY <1>1, <2>1, RowOfItemTyped DEF Versions
    <2>3. Imports(entry, k, 1)
      BY <1>1, <2>1, <2>2 DEF Imports, RowChange
    <2> QED BY <2>3 DEF entry
  <1>4. CASE Forced /\ \E k \in Existing(entry) :
                         db' = Apply(Row(k, RowOfItem(entry, NextVersion(k))), db)
    <2>1. PICK k \in Existing(entry) : db' = Apply(Row(k, RowOfItem(entry, NextVersion(k))), db)
      BY <1>4
    <2>2. k \in RowsFor(entry) /\ Exists(db, k)
      BY <2>1 DEF Existing, RowsFor
    <2>3. k \in Keys
      BY <1>1, <2>2, RowOfItemTyped DEF Versions
    <2>4. db[k].version > 0 /\ NextVersion(k) = db[k].version + 1 /\ NextVersion(k) \in Versions
      BY <2>2, <2>3, RowVersion DEF IsConfiguration, Exists, NextVersion, Versions
    <2>5. RowOfItem(entry, NextVersion(k)).version = NextVersion(k)
      BY <1>1, <2>2, <2>4, RowOfItemTyped
    <2>6. Imports(entry, k, NextVersion(k))
      BY <1>1, <1>4, <2>1, <2>2, <2>4, <2>5 DEF Imports, RowChange
    <2> QED BY <2>6 DEF entry
  <1>5. \A k : (IF entry.kind = "ROUTE" THEN NextId(Routes, k) ELSE k = entry.key) => k \in RowsFor(entry)
    BY DEF NextId, RowsFor
  <1> QED BY <1>2, <1>3, <1>4, <1>5 DEF ImportItem

\* What an import does to the configuration.
LEMMA ImportFacts ==
  ASSUME EnvironmentTyped, IsConfiguration(db), imported \in Nat, Import
  PROVE  /\ IsConfiguration(db') /\ SatisfiesConstraints(db') /\ db' # db
         /\ \A k \in Keys : db'[k] # db[k] => RowChange(db[k], db'[k])
         /\ audits < MaxChanges /\ audits' = audits + 1
         /\ sentinel = NoAdmin /\ UNCHANGED <<sentinel, phase, seen, view, writes>>
  <1>1. PICK k, v : Imports(Items[imported + 1], k, v)
    BY ImportWrites
  <1> DEFINE row == RowOfItem(Items[imported + 1], v)
  <1>2. k \in Keys /\ row \in RowOf(k) /\ RowChange(db[k], row) /\ db' = Apply(Row(k, row), db)
    BY <1>1, RowOfItemTyped DEF Imports
  <1> HIDE DEF row
  <1>3. DOMAIN db' = Keys /\ db'[k] = row /\ \A j \in Keys \ {k} : db'[j] = db[j]
    BY <1>2, OneRow DEF Apply
  <1>4. IsConfiguration(db')
    BY <1>2, <1>3 DEF IsConfiguration
  <1>5. db[k] # row
    BY <1>2, ChangedRow DEF IsConfiguration
  <1> QED BY <1>2, <1>3, <1>4, <1>5 DEF Import

BootstrapInv == Inv /\ imported \in Nat

\* Nobody is in a transaction while the import holds the sentinel.
LEMMA ImportStep == ASSUME EnvironmentTyped, BootstrapInv, Import PROVE BootstrapInv'
  <1> USE DEF BootstrapInv, Inv
  <1>1. /\ IsConfiguration(db) /\ sentinel = NoAdmin
        /\ UNCHANGED <<sentinel, phase, seen, view, writes>>
    BY DEF StoreType, Import
  <1>2. \A a \in Admins : phase[a] = "IDLE"
    BY <1>1, AdminStoreAssumption DEF Locking, InTransaction
  <1>3. StoreType'
    BY <1>1, ImportFacts, AdminStoreAssumption DEF StoreType
  <1>4. Locking' /\ Proposals'
    BY <1>1, <1>2 DEF Locking, InTransaction, Proposals
  <1>5. Versioned'
    <2> SUFFICES ASSUME NEW a \in Admins, NEW k \in Keys PROVE SeenBefore(seen[a][k], db'[k])
      BY <1>1 DEF Versioned
    <2>1. /\ SeenBefore(seen[a][k], db[k]) /\ seen[a][k] \in RowOf(k)
          /\ db[k] \in RowOf(k) /\ db'[k] \in RowOf(k)
      BY <1>1, ImportFacts DEF Versioned, StoreType, IsConfiguration
    <2>2. db'[k] = db[k] \/ RowChange(db[k], db'[k])
      BY <1>1, ImportFacts
    <2> QED BY <2>1, <2>2, ChangedRow
  <1>6. imported' \in Nat
    BY DEF Import
  <1> QED BY <1>3, <1>4, <1>5, <1>6

\* A step of the store, or one of the import: nothing else changes the configuration.
LEMMA BootstrapSteps ==
  ASSUME [BootstrapNext]_<<vars, imported>>, ~Import
  PROVE  [Next]_vars /\ (imported \in Nat => imported' \in Nat)
  <1>1. CASE Skip
    BY <1>1 DEF Skip
  <1>2. CASE Restart
    BY <1>2 DEF Restart
  <1> QED BY <1>1, <1>2 DEF BootstrapNext, vars

LEMMA BootstrapInvariance == EnvironmentTyped => (BootstrapSpec => []BootstrapInv)
  <1> SUFFICES ASSUME EnvironmentTyped PROVE BootstrapSpec => []BootstrapInv
    OBVIOUS
  <1>1. BootstrapInit => BootstrapInv
    BY StoreInit DEF BootstrapInit, BootstrapInv
  <1>2. BootstrapInv /\ [BootstrapNext]_<<vars, imported>> => BootstrapInv'
    BY ImportStep, BootstrapSteps, StoreNext DEF BootstrapInv
  <1> QED BY <1>1, <1>2, PTL DEF BootstrapSpec

----------------------------------------------------------------------------
\* The import leaves a configuration of the right types that satisfies every constraint,
\* whatever it finds and however often it is run, forced or not.
THEOREM ImportTypeCorrect == EnvironmentTyped => (BootstrapSpec => []TypeOK)
  <1> SUFFICES ASSUME EnvironmentTyped PROVE BootstrapSpec => []TypeOK
    OBVIOUS
  <1>1. BootstrapInv => TypeOK
    BY InvTypes DEF BootstrapInv
  <1> QED BY <1>1, BootstrapInvariance, PTL

\* The import's changes are atomic, audited and versioned like those of the administrators
\* (bootstrapFromEnvironment runs every item in a transaction of the same store).
THEOREM ImportImplementation == EnvironmentTyped => (BootstrapSpec => ImplementsConfigStore)
  <1> SUFFICES ASSUME EnvironmentTyped PROVE BootstrapSpec => ImplementsConfigStore
    OBVIOUS
  <1>1. BootstrapInit => Abstract!Init
    BY DEF BootstrapInit, Init, Abstract!Init
  <1>2. BootstrapInv /\ [BootstrapNext]_<<vars, imported>> => [Abstract!Change]_<<db, audits>>
    <2> SUFFICES ASSUME BootstrapInv, [BootstrapNext]_<<vars, imported>>
                 PROVE  Abstract!Change \/ UNCHANGED <<db, audits>>
      OBVIOUS
    <2>1. CASE Import
      BY <2>1, ImportFacts, ChangeIsAbstract DEF BootstrapInv, Inv, StoreType
    <2>2. CASE ~Import
      BY <2>2, BootstrapSteps, StepRefines DEF BootstrapInv
    <2> QED BY <2>1, <2>2
  <1> QED BY <1>1, <1>2, BootstrapInvariance, PTL
          DEF BootstrapSpec, ImplementsConfigStore, Abstract!Spec

\* Beside the import, too, an administrator replaces only what it was shown: an imported row
\* has a version no page carries.
THEOREM ImportIsSeen == EnvironmentTyped => (BootstrapSpec => OverwritesWhatWasSeen)
  <1> SUFFICES ASSUME EnvironmentTyped PROVE BootstrapSpec => OverwritesWhatWasSeen
    OBVIOUS
  <1>1. BootstrapInv /\ [BootstrapNext]_<<vars, imported>> => [OverwritesStep]_vars
    <2> SUFFICES ASSUME BootstrapInv, [BootstrapNext]_<<vars, imported>> PROVE OverwritesStep
      OBVIOUS
    <2>1. CASE Import
      BY <2>1, AdminStoreAssumption DEF Import, OverwritesStep
    <2>2. CASE ~Import
      BY <2>2, BootstrapSteps, StepOverwritesSeen DEF BootstrapInv
    <2> QED BY <2>1, <2>2
  <1> QED BY <1>1, BootstrapInvariance, PTL
          DEF BootstrapSpec, OverwritesWhatWasSeen, OverwritesStep

\* A row that is inserted breaks no rule of a policy: no rule refers to a policy that does
\* not exist yet.
LEMMA InsertKeepsRules ==
  ASSUME EnvironmentTyped, BootstrapInv, Import, ~Forced, RulesWithinPolicyIn(db)
  PROVE  RulesWithinPolicyIn(db')
  <1>1. IsConfiguration(db) /\ SatisfiesConstraints(db)
    BY DEF BootstrapInv, Inv, StoreType
  <1>2. PICK k, v : Imports(Items[imported + 1], k, v)
    BY <1>1, ImportWrites DEF BootstrapInv
  <1>3. k \in Keys /\ db[k] = Absent /\ k \notin Rules
    BY <1>2, RowOfItemTyped, RowIdsAreDisjoint DEF Imports, AnyItem, RouteItem, ValueItem, PolicyItem,
       DiagnosticItem, RowsFor
  <1>4. \A j \in Keys \ {k} : db'[j] = db[j]
    BY <1>2, <1>3, OneRow DEF Imports
  <1>5. Rules \subseteq Keys /\ Policies \subseteq Keys
    BY DEF Keys
  <1>6. \A p \in Policies : EnabledRulesOf(db', p) = EnabledRulesOf(db, p)
    BY <1>3, <1>4, <1>5 DEF EnabledRulesOf, Exists
  <1>7. \A p \in Policies : p = k => EnabledRulesOf(db, p) = {}
    BY <1>1, <1>3 DEF EnabledRulesOf, SatisfiesConstraints, Exists, Absent
  <1> QED BY <1>3, <1>4, <1>5, <1>6, <1>7 DEF RulesWithinPolicyIn, EnabledRulesOf, Exists

\* An import that does not overwrite leaves every enabled rule within its policy.
THEOREM ImportKeepsRules == EnvironmentTyped /\ ~Forced => (BootstrapSpec => []RulesWithinPolicy)
  <1> SUFFICES ASSUME EnvironmentTyped, ~Forced PROVE BootstrapSpec => []RulesWithinPolicy
    OBVIOUS
  <1>1. BootstrapInit => RulesWithinPolicy
    BY InitialConfigurationsAreConsistent DEF BootstrapInit, Init, ConsistentIn, RulesWithinPolicy
  <1>2. BootstrapInv /\ RulesWithinPolicy /\ [BootstrapNext]_<<vars, imported>> => RulesWithinPolicy'
    BY InsertKeepsRules, BootstrapSteps, PromisesKept
       DEF BootstrapInv, Preserves, RulesWithinPolicy
  <1> QED BY <1>1, <1>2, BootstrapInvariance, PTL DEF BootstrapSpec

\* An item carries a username that a stored row of the other role uses already.
Collides(entry) ==
  \/ entry.kind = "ROUTE" /\ DiagnosticUses(db, entry.item.name)
  \/ entry.kind = "DIAGNOSTIC" /\ \E r \in ActiveRoutes(db) : db[r].name = entry.item

LEMMA OnlyACollisionMixes ==
  ASSUME EnvironmentTyped, BootstrapInv, Import, ~Collides(Items[imported + 1]),
         UsernamesDistinctIn(db)
  PROVE  UsernamesDistinctIn(db')
  <1> DEFINE entry == Items[imported + 1]
  <1>1. PICK k, v : Imports(entry, k, v)
    BY ImportWrites DEF BootstrapInv, Inv, StoreType
  <1> HIDE DEF entry
  <1>2. k \in Keys /\ db'[k] = RowOfItem(entry, v) /\ \A j \in Keys \ {k} : db'[j] = db[j]
    BY <1>1, RowOfItemTyped, OneRow DEF Imports
  <1>3. Routes \cup {Diagnostic} \subseteq Keys /\ Diagnostic \notin Routes
    BY RowIdsAreDisjoint DEF Keys
  <1>4. CASE entry \in RouteItem
    <2>1. k \in Routes /\ entry.kind = "ROUTE" /\ db'[k].name = entry.item.name
      BY <1>1, <1>2, <1>4 DEF Imports, RowsFor, RouteItem, RowOfItem, NewRoute
    <2>2. ~DiagnosticUses(db, entry.item.name)
      BY <2>1 DEF Collides, entry
    <2> QED BY <1>2, <1>3, <2>1, <2>2 DEF UsernamesDistinctIn, ActiveRoutes, DiagnosticUses, Exists
  <1>5. CASE entry \in DiagnosticItem
    <2>1. k = Diagnostic /\ entry.kind = "DIAGNOSTIC" /\ db'[k].name = entry.item
      BY <1>1, <1>2, <1>5 DEF Imports, RowsFor, DiagnosticItem, RowOfItem
    <2>2. \A r \in ActiveRoutes(db) : db[r].name # entry.item
      BY <2>1 DEF Collides, entry
    <2> QED BY <1>2, <1>3, <2>1, <2>2 DEF UsernamesDistinctIn, ActiveRoutes, DiagnosticUses, Exists
  <1>6. CASE entry \in ValueItem \cup PolicyItem
    <2>1. k \notin Routes \cup {Diagnostic}
      BY <1>1, <1>6, RowIdsAreDisjoint DEF Imports, RowsFor, ValueItem, PolicyItem
    <2> QED BY <1>2, <1>3, <2>1, UsernamesDependOn DEF AgreeOn
  <1> QED BY <1>1, <1>4, <1>5, <1>6 DEF Imports, AnyItem

\* The only step that gives a route and the Diagnostic one username is the import of an item
\* that a stored row of the other role collides with: a comparison with the stored rows at
\* bootstrapFromEnvironment:75 would be enough.
THEOREM OnlyCollisionsMixRoles ==
  EnvironmentTyped => (BootstrapSpec =>
    [][UsernamesDistinct /\ ~UsernamesDistinct' => Import /\ Collides(Items[imported + 1])]_vars)
  <1> DEFINE Mixes == UsernamesDistinct /\ ~UsernamesDistinct' => Import /\ Collides(Items[imported + 1])
  <1> SUFFICES ASSUME EnvironmentTyped PROVE BootstrapSpec => [][Mixes]_vars
    OBVIOUS
  <1>1. BootstrapInv /\ [BootstrapNext]_<<vars, imported>> => [Mixes]_vars
    BY OnlyACollisionMixes, BootstrapSteps, PromisesKept
       DEF BootstrapInv, Preserves, UsernamesDistinct
  <1> HIDE DEF Mixes
  <1> QED BY <1>1, BootstrapInvariance, PTL DEF BootstrapSpec
=============================================================================
