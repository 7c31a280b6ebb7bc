-------------------------- MODULE MCAuditPipeline --------------------------
(* Small instances of AuditPipeline for TLC. *)
EXTENDS AuditPipeline

CONSTANTS s1, s2, s3, g1   \* two good snapshots, a poison one, a legacy entry

MCEntries == {s1, s2, s3, g1}
MCSnapshots == {s1, s2, s3}
MCPoison == {s3}
=============================================================================
