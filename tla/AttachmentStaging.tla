------------------------- MODULE AttachmentStaging -------------------------
(***************************************************************************)
(* The attachment ingress of sfoa-mcp-server: a channel stages files, each *)
(* as a copy on disk and a row of the control plane database, and they are *)
(* removed when the owner stages too many, or when they expire.            *)
(*                                                                         *)
(* Source: attachment-ingress.ts, the reaper of runtime.ts, and the        *)
(* staging repository of sfoa-control-plane/src/mysql-repositories.ts.     *)
(* One action is the code between two awaits.  The copy on disk and the    *)
(* row are changed in different steps, by stage(), by passes of the reaper *)
(* and (AttachmentUpload) by uploads.  The local file system does not fail *)
(* on the removal of a file; the database may fail on any call.            *)
(***************************************************************************)
EXTENDS Integers, FiniteSets

CONSTANTS
    Files,             \* the files sent to the ingress, one request each
    Owner,             \* file -> the platform user it is staged for
    MaxFilesPerOwner,
    Passes,            \* passes of the reaper that may overlap
    ReapLimit,         \* most rows of one pass
    MaxCrashes         \* bound on restarts of the process

ASSUME FilesAssumption == IsFiniteSet(Files) /\ Files \cap Passes = {}
ASSUME LimitsAssumption ==
    /\ MaxFilesPerOwner \in Nat \ {0}
    /\ ReapLimit \in Nat \ {0}
    /\ MaxCrashes \in Nat

VARIABLES
    staging,   \* file -> how far its stage() is
    row,       \* file -> state of its row, "NONE" when it has none
    rowId,     \* file -> the id of its row, in the order of creation
    disk,      \* the files whose copy is in the staging directory
    expired,   \* the files past their expiresAt
    sweep,     \* worker -> listed files it has still to remove
    unlinked,  \* worker -> it removed the copy of the next one, and marks the row
    crashes

stagingVars == <<staging, row, rowId, disk, expired, sweep, unlinked, crashes>>

Workers == Files \cup Passes

Init ==
    /\ staging = [f \in Files |-> "IDLE"]
    /\ row = [f \in Files |-> "NONE"]
    /\ rowId = [f \in Files |-> 0]
    /\ disk = {}
    /\ expired = {}
    /\ sweep = [w \in Workers |-> {}]
    /\ unlinked = [w \in Workers |-> FALSE]
    /\ crashes = 0

\* the n oldest of a set of rows
OldestOf(files, n) ==
    {f \in files : Cardinality({g \in files : rowId[g] < rowId[f]}) < n}

Oldest(files) == CHOOSE f \in files : \A g \in files : rowId[f] <= rowId[g]

\* listStagedByOwner
StagedBy(owner) == {f \in Files : row[f] = "STAGED" /\ Owner[f] = owner}

\* markConsumed, markFailed and markExpired change a STAGED row only
Marked(f, state) == [row EXCEPT ![f] = IF @ = "STAGED" THEN state ELSE @]

-----------------------------------------------------------------------------
(* Removal, shared by evictOwnerOverflow and reapExpired *)

Unlink(w) ==
    /\ sweep[w] # {} /\ ~unlinked[w]
    /\ disk' = disk \ {Oldest(sweep[w])}
    /\ unlinked' = [unlinked EXCEPT ![w] = TRUE]
    /\ UNCHANGED <<staging, row, rowId, expired, sweep, crashes>>

\* Faulty variant: markExpired writes the state whatever it was.
MarkAnyState(w) ==
    /\ unlinked[w]
    /\ row' = [row EXCEPT ![Oldest(sweep[w])] = "EXPIRED"]
    /\ sweep' = [sweep EXCEPT ![w] = @ \ {Oldest(sweep[w])}]
    /\ unlinked' = [unlinked EXCEPT ![w] = FALSE]
    /\ UNCHANGED <<staging, rowId, disk, expired, crashes>>

\* Faulty variant: the row is deleted instead of marked.
MarkDeletesRow(w) ==
    /\ unlinked[w]
    /\ row' = [row EXCEPT ![Oldest(sweep[w])] = "NONE"]
    /\ sweep' = [sweep EXCEPT ![w] = @ \ {Oldest(sweep[w])}]
    /\ unlinked' = [unlinked EXCEPT ![w] = FALSE]
    /\ UNCHANGED <<staging, rowId, disk, expired, crashes>>

Mark(w) ==
    /\ unlinked[w]
    /\ row' = Marked(Oldest(sweep[w]), "EXPIRED")
    /\ sweep' = [sweep EXCEPT ![w] = @ \ {Oldest(sweep[w])}]
    /\ unlinked' = [unlinked EXCEPT ![w] = FALSE]
    /\ UNCHANGED <<staging, rowId, disk, expired, crashes>>

\* the database fails: a pass ends, and stage() refuses its file
MarkFails(w) ==
    /\ unlinked[w]
    /\ sweep' = [sweep EXCEPT ![w] = {}]
    /\ unlinked' = [unlinked EXCEPT ![w] = FALSE]
    /\ staging' = IF w \in Files THEN [staging EXCEPT ![w] = "REFUSED"] ELSE staging
    /\ UNCHANGED <<row, rowId, disk, expired, crashes>>

-----------------------------------------------------------------------------
(* stage() *)

\* Faulty variant: the newest rows are evicted.
ListOverflowNewest(f) ==
    LET staged == StagedBy(Owner[f])
        overflow == Cardinality(staged) - MaxFilesPerOwner + 1
    IN /\ staging[f] = "IDLE"
       /\ sweep' = [sweep EXCEPT ![f] = staged \ OldestOf(staged, Cardinality(staged) - overflow)]
       /\ staging' = [staging EXCEPT ![f] = "EVICTING"]
       /\ UNCHANGED <<row, rowId, disk, expired, unlinked, crashes>>

\* the request arrives: evictOwnerOverflow lists what has to make room
ListOverflow(f) ==
    LET staged == StagedBy(Owner[f]) IN
    /\ staging[f] = "IDLE"
    /\ sweep' = [sweep EXCEPT ![f] = OldestOf(staged, Cardinality(staged) - MaxFilesPerOwner + 1)]
    /\ staging' = [staging EXCEPT ![f] = "EVICTING"]
    /\ UNCHANGED <<row, rowId, disk, expired, unlinked, crashes>>

\* the body is received, and the complete copy renamed to its final path
Receive(f) ==
    /\ staging[f] = "EVICTING" /\ sweep[f] = {}
    /\ disk' = disk \cup {f}
    /\ staging' = [staging EXCEPT ![f] = "RECORDING"]
    /\ UNCHANGED <<row, rowId, expired, sweep, unlinked, crashes>>

\* the list could not be read, or the body is empty, too large or cut off
Refuse(f) ==
    /\ staging[f] = "EVICTING" /\ ~unlinked[f]
    /\ staging' = [staging EXCEPT ![f] = "REFUSED"]
    /\ sweep' = [sweep EXCEPT ![f] = {}]
    /\ UNCHANGED <<row, rowId, disk, expired, unlinked, crashes>>

InsertRow(f) ==
    /\ row' = [row EXCEPT ![f] = "STAGED"]
    /\ rowId' = [rowId EXCEPT ![f] = 1 + Cardinality({g \in Files : rowId[g] > 0})]

Record(f) ==
    /\ staging[f] = "RECORDING"
    /\ InsertRow(f)
    /\ staging' = [staging EXCEPT ![f] = "STORED"]
    /\ UNCHANGED <<disk, expired, sweep, unlinked, crashes>>

\* Faulty variant: the copy is not discarded.
RecordFailsAndKeeps(f) ==
    /\ staging[f] = "RECORDING"
    /\ \/ InsertRow(f)
       \/ UNCHANGED <<row, rowId>>
    /\ staging' = [staging EXCEPT ![f] = "REFUSED"]
    /\ UNCHANGED <<disk, expired, sweep, unlinked, crashes>>

\* create() throws, after or without having inserted the row
RecordFails(f) ==
    /\ staging[f] = "RECORDING"
    /\ \/ InsertRow(f)
       \/ UNCHANGED <<row, rowId>>
    /\ staging' = [staging EXCEPT ![f] = "DISCARDING"]
    /\ UNCHANGED <<disk, expired, sweep, unlinked, crashes>>

Discard(f) ==
    /\ staging[f] = "DISCARDING"
    /\ disk' = disk \ {f}
    /\ staging' = [staging EXCEPT ![f] = "REFUSED"]
    /\ UNCHANGED <<row, rowId, expired, sweep, unlinked, crashes>>

-----------------------------------------------------------------------------
(* Time, the reaper, and restarts *)

Expire(f) ==
    /\ row[f] # "NONE" /\ f \notin expired
    /\ expired' = expired \cup {f}
    /\ UNCHANGED <<staging, row, rowId, disk, sweep, unlinked, crashes>>

Reapable == {f \in Files : row[f] = "STAGED" /\ f \in expired}

\* Faulty variant: the limit is applied to the rows, and the state tested afterwards.
ReapFilteredLate(w) ==
    /\ sweep[w] = {}
    /\ LET listed == OldestOf({f \in Files : f \in expired}, ReapLimit) IN
       /\ listed \cap Reapable # {}
       /\ sweep' = [sweep EXCEPT ![w] = listed \cap Reapable]
    /\ UNCHANGED <<staging, row, rowId, disk, expired, unlinked, crashes>>

\* listExpired at the start of a pass: the order of expires_at, which is the time of
\* creation plus a constant, is taken as that of the ids
Reap(w) ==
    /\ sweep[w] = {} /\ Reapable # {}
    /\ sweep' = [sweep EXCEPT ![w] = OldestOf(Reapable, ReapLimit)]
    /\ UNCHANGED <<staging, row, rowId, disk, expired, unlinked, crashes>>

\* the process dies and is started again: what it was doing is forgotten
Crash ==
    /\ crashes < MaxCrashes
    /\ crashes' = crashes + 1
    /\ staging' = [f \in Files |->
                      IF staging[f] \in {"EVICTING", "RECORDING", "DISCARDING"} THEN "CUT_OFF"
                      ELSE staging[f]]
    /\ sweep' = [w \in Workers |-> {}]
    /\ unlinked' = [w \in Workers |-> FALSE]
    /\ UNCHANGED <<row, rowId, disk, expired>>

-----------------------------------------------------------------------------
\* the steps of the running process
IngressStep ==
    \/ \E w \in Workers : Unlink(w) \/ Mark(w) \/ MarkFails(w)
    \/ \E f \in Files : \/ ListOverflow(f) \/ Receive(f) \/ Refuse(f)
                        \/ Record(f) \/ RecordFails(f) \/ Discard(f) \/ Expire(f)
    \/ \E w \in Passes : Reap(w)

\* nothing is left to do until the next file arrives
Ended ==
    /\ \A f \in Files : staging[f] \in {"STORED", "REFUSED", "CUT_OFF"}
    /\ Reapable = {}
    /\ UNCHANGED stagingVars

Next == IngressStep \/ Crash \/ Ended

\* The timer of the reaper fires, and the removal of a file ends.  The database may
\* fail, but not for ever.
Sweeping ==
    \A w \in Passes : WF_stagingVars(Reap(w)) /\ WF_stagingVars(Unlink(w)) /\ SF_stagingVars(Mark(w))

Spec == Init /\ [][Next]_stagingVars /\ Sweeping

-----------------------------------------------------------------------------
(* Properties *)

StagingStates ==
    {"IDLE", "EVICTING", "RECORDING", "DISCARDING", "STORED", "REFUSED", "CUT_OFF"}

\* The rows that exist have different ids, and expire; a worker that removed a copy
\* still holds the row to be marked.
TypeOK ==
    /\ staging \in [Files -> StagingStates]
    /\ row \in [Files -> {"NONE", "STAGED", "CONSUMED", "FAILED", "EXPIRED"}]
    /\ rowId \in [Files -> Nat]
    /\ disk \subseteq Files /\ expired \subseteq Files
    /\ sweep \in [Workers -> SUBSET Files]
    /\ unlinked \in [Workers -> BOOLEAN]
    /\ crashes \in 0 .. MaxCrashes
    /\ \A f \in Files : row[f] = "NONE" <=> rowId[f] = 0
    /\ \A f, g \in Files : rowId[f] = rowId[g] /\ rowId[f] # 0 => f = g
    /\ \A w \in Workers : unlinked[w] => sweep[w] # {}

\* A copy on disk is found again: it has a row that is not EXPIRED, or stage() is about
\* to record or discard it, or the process was restarted in between.  No interleaving
\* of overflow, reaper and failing database calls leaves a copy nobody knows of.
NoOrphan ==
    \A f \in disk :
        \/ row[f] \in {"STAGED", "CONSUMED", "FAILED"}
        \/ row[f] = "NONE" /\ staging[f] \in {"RECORDING", "DISCARDING", "CUT_OFF"}

\* A user who keeps sending files never loses the newest one: when a file is removed
\* before it expires, a newer one of its owner was recorded.  (Not so when the limit is
\* one file: the old file is removed before the new one has arrived.)
NewestKept ==
    \A f \in Files :
        row[f] = "EXPIRED" /\ f \notin expired =>
            \E g \in Files : Owner[g] = Owner[f] /\ rowId[g] > rowId[f]

\* An expired file does not stay STAGED, whatever fails on the way: the next pass takes
\* up what one left behind, and old rows do not fill the limit of a pass.
ExpiredIsRemoved == \A f \in Files : (f \in Reapable) ~> (f \notin Reapable)
=============================================================================
