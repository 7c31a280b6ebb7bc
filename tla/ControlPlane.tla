----------------------------- MODULE ControlPlane -----------------------------
(***************************************************************************)
(* The rows of the control-plane database that configure the MCP server,   *)
(* and what makes a configuration consistent.                              *)
(*                                                                         *)
(* A configuration maps every row id to its row.  Ids come from            *)
(* AUTO_INCREMENT columns, so a deleted id is Gone for ever and never      *)
(* Absent again.  A row carries its row_version and the columns the checks *)
(* of the admin service read; remarks, display names, token material and   *)
(* object names are left out.                                              *)
(***************************************************************************)
EXTENDS Integers, FiniteSets

CONSTANTS
  Routes,         \* ids of sfoa_identity_route
  Credentials,    \* ids of sfoa_identity_credential
  Policies,       \* ids of sfoa_dml_policy
  Rules,          \* ids of sfoa_dml_managed_field_rule
  Tools,          \* tool names, the key of sfoa_tool_control
  Settings,       \* setting keys, the key of sfoa_runtime_setting
  Diagnostic,     \* the one row of sfoa_diagnostic_config
  Users,          \* platform user ids
  Usernames,      \* normalised Salesforce usernames
  Fields,         \* target fields of managed rules
  Values,         \* values of a tool control or a runtime setting
  InitialConfigurations   \* what the database may hold when the server starts

ASSUME RowIdsAreDisjoint ==
  /\ Routes \cap (Credentials \cup Policies \cup Rules \cup Tools \cup Settings) = {}
  /\ Credentials \cap (Policies \cup Rules \cup Tools \cup Settings) = {}
  /\ Policies \cap (Rules \cup Tools \cup Settings) = {}
  /\ Rules \cap (Tools \cup Settings) = {}
  /\ Tools \cap Settings = {}
  /\ Diagnostic \notin Routes \cup Credentials \cup Policies \cup Rules \cup Tools \cup Settings

Keys == Routes \cup Credentials \cup Policies \cup Rules \cup Tools \cup Settings \cup {Diagnostic}

\* What a DML policy can allow; a managed rule applies to a part of RuleOperations.
RuleOperations == {"CREATE", "UPDATE"}
PolicyOperations == RuleOperations \cup {"ATTACHMENT"}

VerificationStatus == {"NOT_VERIFIED", "PASS", "FAIL", "NOT_TESTED"}

Versions == Nat \ {0}

Absent == [version |-> 0, deleted |-> FALSE]
Gone   == [version |-> 0, deleted |-> TRUE]

RouteRow      == [user: Users, name: Usernames, enabled: BOOLEAN, version: Versions]
CredentialRow == [route: Routes, active: BOOLEAN, version: Versions]
PolicyRow     == [allows: SUBSET PolicyOperations, enabled: BOOLEAN, version: Versions]
RuleRow       == [policy: Policies, field: Fields, applies: SUBSET RuleOperations,
                  enabled: BOOLEAN, version: Versions]
DiagnosticRow == [name: Usernames, enabled: BOOLEAN, status: VerificationStatus, version: Versions]
ValueRow      == [value: Values, version: Versions]

\* The rows id k can hold.
RowOf(k) ==
  {Absent, Gone} \cup
    CASE k \in Routes      -> RouteRow
      [] k \in Credentials -> CredentialRow
      [] k \in Policies    -> PolicyRow
      [] k \in Rules       -> RuleRow
      [] k = Diagnostic    -> DiagnosticRow
      [] OTHER             -> ValueRow

IsConfiguration(d) == DOMAIN d = Keys /\ \A k \in Keys : d[k] \in RowOf(k)

Exists(d, k) == d[k].version > 0

\* What the migrations leave: every table is there and empty.
EmptyConfiguration == [k \in Keys |-> Absent]

\* Configuration d after the statements of a transaction that wrote the rows w.
Apply(w, d) == [k \in Keys |-> IF k \in DOMAIN w THEN w[k] ELSE d[k]]

----------------------------------------------------------------------------
ActiveRoutes(d) == {r \in Routes : Exists(d, r) /\ d[r].enabled}

ActiveCredentialsOf(d, r) ==
  {c \in Credentials : Exists(d, c) /\ d[c].route = r /\ d[c].active}

DiagnosticUses(d, n) ==
  Exists(d, Diagnostic) /\ d[Diagnostic].enabled /\ d[Diagnostic].name = n

EnabledRulesOf(d, p) == {f \in Rules : Exists(d, f) /\ d[f].policy = p /\ d[f].enabled}

(***************************************************************************)
(* The unique indexes and foreign keys of the migrations: one route per    *)
(* platform user, one ACTIVE credential per route, one rule per policy and *)
(* field, no row that refers to a missing one.                             *)
(***************************************************************************)
SatisfiesConstraints(d) ==
  /\ \A r, s \in Routes :
       Exists(d, r) /\ Exists(d, s) /\ d[r].user = d[s].user => r = s
  /\ \A c, e \in Credentials :
       /\ Exists(d, c) => Exists(d, d[c].route)
       /\ Exists(d, c) /\ Exists(d, e) /\ d[c].active /\ d[e].active /\ d[c].route = d[e].route
            => c = e
  /\ \A f, g \in Rules :
       /\ Exists(d, f) => Exists(d, d[f].policy)
       /\ Exists(d, f) /\ Exists(d, g) /\ d[f].policy = d[g].policy /\ d[f].field = d[g].field
            => f = g

----------------------------------------------------------------------------
(***************************************************************************)
(* What the application promises of a configuration, beyond the            *)
(* constraints the database enforces.                                      *)
(***************************************************************************)
\* No active USER route uses the Salesforce username of the enabled Diagnostic.
UsernamesDistinctIn(d) == \A r \in ActiveRoutes(d) : ~DiagnosticUses(d, d[r].name)

\* An enabled rule of an enabled policy applies to operations the policy allows.
RulesWithinPolicyIn(d) ==
  \A p \in Policies : Exists(d, p) /\ d[p].enabled =>
    \A f \in EnabledRulesOf(d, p) : d[f].applies \subseteq d[p].allows

\* Every route the admin service created can be reached by exactly one token.
OneActiveCredentialIn(d) ==
  \A r \in Routes : Exists(d, r) => \E c \in Credentials : ActiveCredentialsOf(d, r) = {c}

ConsistentIn(d) == UsernamesDistinctIn(d) /\ RulesWithinPolicyIn(d) /\ OneActiveCredentialIn(d)

ASSUME InitialConfigurationsAreConsistent ==
  \A d \in InitialConfigurations :
    IsConfiguration(d) /\ SatisfiesConstraints(d) /\ ConsistentIn(d)
=============================================================================
