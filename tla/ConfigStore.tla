------------------------------ MODULE ConfigStore ------------------------------
(***************************************************************************)
(* What the configuration store promises its administrators: the           *)
(* configuration changes in atomic steps, each one recorded by an audit,   *)
(* never breaking a constraint; a row that changes gets the next           *)
(* row_version, and a deleted row never comes back.                        *)
(***************************************************************************)
EXTENDS ControlPlane

VARIABLES db, audits

Init == db \in InitialConfigurations /\ audits = 0

RowStep(old, new) ==
  \/ new = old
  \/ old = Absent /\ new.version = 1
  \/ old.version > 0 /\ new.version = old.version + 1
  \/ old.version > 0 /\ new = Gone

Change ==
  /\ IsConfiguration(db')
  /\ SatisfiesConstraints(db')
  /\ db' # db
  /\ \A k \in Keys : RowStep(db[k], db'[k])
  /\ audits' = audits + 1

Spec == Init /\ [][Change]_<<db, audits>>
=============================================================================
