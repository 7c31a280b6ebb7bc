------------------------------- MODULE Bootstrap -------------------------------
(***************************************************************************)
(* p5:bootstrap imports routes, tools, DML policies, the Diagnostic and    *)
(* two settings from the environment into a control plane that             *)
(* administrators may already be using.  Every item is a transaction of    *)
(* its own under the sentinel, taken here as one step; an item that exists *)
(* is left alone, or overwritten with --force.  The first failure ends the *)
(* import with the earlier items committed, and it may be run again.       *)
(***************************************************************************)
EXTENDS AdminStore, Sequences

CONSTANTS
  EnvRoutes,       \* sequence of [user, name]
  EnvTools,        \* sequence of tools
  EnvPolicies,     \* sequence of [policy, allows]
  EnvDiagnostic,   \* sequence of at most one username
  EnvSettings,     \* sequence of settings
  Enabled,         \* the value of an imported tool or setting
  Forced           \* --force, which the code refuses outside development and test

VARIABLE imported  \* items of the environment imported so far

Items ==
  [i \in DOMAIN EnvRoutes |-> [kind |-> "ROUTE", item |-> EnvRoutes[i]]]
    \o [i \in DOMAIN EnvTools |-> [kind |-> "VALUE", key |-> EnvTools[i], item |-> Enabled]]
    \o [i \in DOMAIN EnvPolicies |->
          [kind |-> "POLICY", key |-> EnvPolicies[i].policy, item |-> EnvPolicies[i].allows]]
    \o [i \in DOMAIN EnvDiagnostic |->
          [kind |-> "DIAGNOSTIC", key |-> Diagnostic, item |-> EnvDiagnostic[i]]]
    \o [i \in DOMAIN EnvSettings |-> [kind |-> "VALUE", key |-> EnvSettings[i], item |-> Enabled]]

\* What the parser of the environment lets through.
EnvironmentTyped ==
  /\ EnvRoutes \in Seq([user: Users, name: Usernames])
  /\ EnvTools \in Seq(Tools)
  /\ EnvPolicies \in Seq([policy: Policies, allows: SUBSET PolicyOperations])
  /\ EnvDiagnostic \in Seq(Usernames)
  /\ EnvSettings \in Seq(Settings)
  /\ Enabled \in Values /\ Forced \in BOOLEAN

\* The import starts only when the environment itself keeps the two roles apart.
EnvironmentAccepted ==
  \A i \in DOMAIN EnvRoutes, j \in DOMAIN EnvDiagnostic : EnvRoutes[i].name # EnvDiagnostic[j]

BootstrapInit == Init /\ imported = 0

----------------------------------------------------------------------------
\* The row that already holds an item: the user's route, or the row of its key.
Existing(entry) ==
  CASE entry.kind = "ROUTE" -> {r \in Routes : Exists(db, r) /\ db[r].user = entry.item.user}
    [] OTHER -> {k \in {entry.key} : Exists(db, k)}

RowOfItem(entry, v) ==
  CASE entry.kind = "ROUTE"  -> [NewRoute(entry.item.user, entry.item.name, TRUE)
                                   EXCEPT !.version = v]
    [] entry.kind = "POLICY" -> [allows |-> entry.item, enabled |-> TRUE, version |-> v]
    [] entry.kind = "DIAGNOSTIC" -> [name |-> entry.item, enabled |-> TRUE,
                                     status |-> "NOT_VERIFIED", version |-> v]
    [] OTHER -> [value |-> entry.item, version |-> v]

\* An item nobody has is inserted; one that exists is overwritten only with --force.
ImportItem(entry) ==
  \/ /\ Existing(entry) = {}
     /\ \E k \in Keys :
          /\ db[k] = Absent
          /\ IF entry.kind = "ROUTE" THEN NextId(Routes, k) ELSE k = entry.key
          /\ db' = Apply(Row(k, RowOfItem(entry, 1)), db)
  \/ /\ Forced
     /\ \E k \in Existing(entry) : db' = Apply(Row(k, RowOfItem(entry, NextVersion(k))), db)

Import ==
  /\ EnvironmentAccepted
  /\ imported < Len(Items)
  /\ sentinel = NoAdmin /\ audits < MaxChanges
  /\ ImportItem(Items[imported + 1])
  /\ SatisfiesConstraints(db')
  /\ audits' = audits + 1
  /\ imported' = imported + 1
  /\ UNCHANGED <<sentinel, phase, seen, view, writes>>

\* The item exists and the import is not forced.
Skip ==
  /\ EnvironmentAccepted
  /\ imported < Len(Items)
  /\ sentinel = NoAdmin
  /\ ~Forced /\ Existing(Items[imported + 1]) # {}
  /\ imported' = imported + 1
  /\ UNCHANGED vars

\* The import failed, or ended, and is run again.
Restart ==
  /\ imported > 0
  /\ imported' = 0
  /\ UNCHANGED vars

BootstrapNext == (Next /\ UNCHANGED imported) \/ Import \/ Skip \/ Restart

BootstrapSpec == BootstrapInit /\ [][BootstrapNext]_<<vars, imported>>
=============================================================================
