--------------------------- MODULE AttachmentProofs ---------------------------
(***************************************************************************)
(* Proofs about AttachmentStaging and AttachmentUpload, for every finite   *)
(* set of files, every assignment of files to owners, every set of passes  *)
(* of the reaper, and any calls that name any of the files.                *)
(***************************************************************************)
EXTENDS AttachmentUpload, FiniteSetTheorems, WellFoundedInduction, SequenceTheorems, TLAPS

Recorded == {g \in Files : rowId[g] > 0}

\* The ids count the rows.
IdsCount == \A f \in Files : rowId[f] <= Cardinality(Recorded)

\* How far stage() is says whether the file has a copy or a row; only a stage() that makes
\* room removes other files.
Stages ==
    \A f \in Files :
        /\ staging[f] \in {"IDLE", "EVICTING"} => f \notin disk
        /\ staging[f] \in {"IDLE", "EVICTING", "RECORDING"} => row[f] = "NONE"
        /\ sweep[f] # {} => staging[f] = "EVICTING"

\* A listed file has a row.
Listed == \A w \in Workers : \A f \in sweep[w] : row[f] # "NONE"

\* Between its two steps a worker still removes the file whose copy it has removed.
UnlinkedIsGone == \A w \in Workers : unlinked[w] => Oldest(sweep[w]) \notin disk

\* The inductive invariant.
Inv == TypeOK /\ IdsCount /\ Stages /\ Listed /\ UnlinkedIsGone /\ NoOrphan

-----------------------------------------------------------------------------
(* The oldest file of a set *)

\* A set of files with ids has one with the least id.
LEMMA LeastExists ==
    ASSUME NEW S, NEW T, NEW id \in [S -> Nat], T \subseteq S, T # {}
    PROVE  \E f \in T : \A g \in T : id[f] <= id[g]
  <1> DEFINE ids == {id[f] : f \in T}
  <1>1. ids \subseteq Nat /\ ids # {}
    OBVIOUS
  <1> HIDE DEF ids
  <1>2. PICK n \in ids : \A k \in ids : ~(<<k, n>> \in OpToRel(<, Nat))
    BY <1>1, NatLessThanWellFounded, WFMin
  <1>3. ASSUME NEW k \in ids PROVE n <= k
    <2>1. k \in Nat /\ n \in Nat
      BY <1>1
    <2>2. k < n => <<k, n>> \in {pair \in Nat \X Nat : pair[1] < pair[2]}
      BY <2>1
    <2>3. OpToRel(<, Nat) = {pair \in Nat \X Nat : pair[1] < pair[2]}
      BY DEF OpToRel
    <2>4. ~(k < n)
      BY <1>2, <2>2, <2>3
    <2> QED BY <2>1, <2>4
  <1> QED BY <1>2, <1>3 DEF ids

\* Oldest takes a file from the set, and the one with the least id.
LEMMA OldestIsLeast ==
    ASSUME TypeOK, NEW T \in SUBSET Files, T # {}
    PROVE  Oldest(T) \in T /\ \A g \in T : rowId[Oldest(T)] <= rowId[g]
  <1>1. \E f \in T : \A g \in T : rowId[f] <= rowId[g]
    BY LeastExists DEF TypeOK
  <1> QED BY <1>1 DEF Oldest

\* A new row gets an id that no other row has.
LEMMA InsertRowStep ==
    ASSUME TypeOK, IdsCount, NEW f \in Files, row[f] = "NONE", InsertRow(f)
    PROVE  /\ rowId' \in [Files -> Nat] /\ rowId'[f] = 1 + Cardinality(Recorded)
           /\ \A g \in Files : g # f => rowId'[g] = rowId[g]
           /\ Recorded' = Recorded \cup {f}
           /\ Cardinality(Recorded') = Cardinality(Recorded) + 1
           /\ Cardinality(Recorded) \in Nat
  <1>1. IsFiniteSet(Recorded) /\ f \notin Recorded
    BY FilesAssumption, FS_Subset DEF Recorded, TypeOK
  <1>2. Cardinality(Recorded) \in Nat
    BY <1>1, FS_CardinalityType
  <1>3. rowId' = [rowId EXCEPT ![f] = 1 + Cardinality(Recorded)]
    BY DEF InsertRow, Recorded
  <1>4. Recorded' = Recorded \cup {f}
    <2> DEFINE n == Cardinality(Recorded)
    <2>1. n \in Nat /\ rowId' = [rowId EXCEPT ![f] = 1 + n]
      BY <1>2, <1>3
    <2> HIDE DEF n
    <2> QED BY <2>1 DEF Recorded, TypeOK
  <1>5. Cardinality(Recorded \cup {f}) = Cardinality(Recorded) + 1
    BY <1>1, FS_AddElement
  <1> QED BY <1>2, <1>3, <1>4, <1>5 DEF TypeOK

-----------------------------------------------------------------------------
(* The inductive invariant *)

\* The program starts with no file and no row.
LEMMA InitInv == Init => Inv
  <1> SUFFICES ASSUME Init PROVE Inv
    OBVIOUS
  <1>1. IsFiniteSet(Recorded) /\ Cardinality(Recorded) \in Nat
    BY FilesAssumption, FS_Subset, FS_CardinalityType DEF Recorded
  <1>2. TypeOK
    BY LimitsAssumption DEF Init, TypeOK, StagingStates, Workers
  <1>3. IdsCount
    BY <1>1 DEF Init, IdsCount
  <1>4. Stages /\ Listed /\ UnlinkedIsGone /\ NoOrphan
    BY DEF Init, Stages, Listed, UnlinkedIsGone, NoOrphan, Workers
  <1> QED BY <1>2, <1>3, <1>4 DEF Inv

\* While the ids stay, so does the oldest file of a list that stays.
LEMMA OldestStays ==
    ASSUME Inv, rowId' = rowId, NEW w \in Workers, sweep'[w] = sweep[w]
    PROVE  Oldest(sweep[w])' = Oldest(sweep[w])
  BY DEF Oldest

\* Unlink removes the copy of the oldest file of the list, which is the one to be marked.
LEMMA UnlinkStep == ASSUME Inv, NEW w \in Workers, Unlink(w) PROVE Inv'
  <1> USE DEF Inv, Unlink
  <1>1. TypeOK'
    BY DEF TypeOK
  <1>2. IdsCount' /\ Listed'
    BY DEF IdsCount, Recorded, Listed
  <1>3. Stages' /\ NoOrphan'
    BY DEF Stages, NoOrphan
  <1>4. UnlinkedIsGone'
    <2>1. \A v \in Workers : Oldest(sweep[v])' = Oldest(sweep[v])
      BY OldestStays
    <2>2. ASSUME NEW v \in Workers, unlinked'[v] PROVE v = w \/ unlinked[v]
      BY <2>2 DEF TypeOK
    <2> QED BY <2>1, <2>2 DEF UnlinkedIsGone
  <1> QED BY <1>1, <1>2, <1>3, <1>4

\* Mark takes the row of a file whose copy is gone, so that no copy loses its row.
LEMMA MarkStep == ASSUME Inv, NEW w \in Workers, Mark(w) PROVE Inv'
  <1> DEFINE e == Oldest(sweep[w])
  <1> USE DEF Inv
  <1>1. sweep[w] \in SUBSET Files /\ sweep[w] # {}
    BY DEF Mark, TypeOK
  <1>2. e \in sweep[w] /\ e \in Files /\ row[e] # "NONE" /\ e \notin disk
    BY <1>1, OldestIsLeast DEF Listed, UnlinkedIsGone, Mark
  <1> HIDE DEF e
  <1>3. /\ row' = [row EXCEPT ![e] = IF @ = "STAGED" THEN "EXPIRED" ELSE @]
        /\ sweep' = [sweep EXCEPT ![w] = @ \ {e}]
        /\ unlinked' = [unlinked EXCEPT ![w] = FALSE]
        /\ UNCHANGED <<staging, rowId, disk, expired, crashes>>
    BY DEF Mark, Marked, e
  <1>4. \A f \in Files : row'[f] = "NONE" <=> row[f] = "NONE"
    BY <1>2, <1>3 DEF TypeOK
  <1>5. TypeOK'
    <2>1. row' \in [Files -> {"NONE", "STAGED", "CONSUMED", "FAILED", "EXPIRED"}]
      BY <1>2, <1>3 DEF TypeOK
    <2>2. \A f, g \in Files : rowId'[f] = rowId'[g] /\ rowId'[f] # 0 => f = g
      BY <1>3 DEF TypeOK
    <2>3. \A f \in Files : row'[f] = "NONE" <=> rowId'[f] = 0
      BY <1>3, <1>4 DEF TypeOK
    <2>4. \A v \in Workers : unlinked'[v] => sweep'[v] # {}
      BY <1>3 DEF TypeOK
    <2>5. sweep' \in [Workers -> SUBSET Files] /\ unlinked' \in [Workers -> BOOLEAN]
      BY <1>3 DEF TypeOK
    <2> QED BY <1>3, <2>1, <2>2, <2>3, <2>4, <2>5 DEF TypeOK
  <1>6. IdsCount'
    BY <1>3 DEF IdsCount, Recorded
  <1>7. Listed'
    <2>1. ASSUME NEW v \in Workers, NEW f \in sweep'[v] PROVE f \in sweep[v] /\ f \in Files
      BY <1>3, <2>1 DEF TypeOK
    <2> QED BY <1>4, <2>1 DEF Listed
  <1>8. Stages'
    <2>1. \A f \in Files : sweep'[f] # {} => sweep[f] # {}
      BY <1>3 DEF TypeOK, Workers
    <2> QED BY <1>3, <1>4, <2>1 DEF Stages
  <1>9. NoOrphan'
    <2>1. \A f \in disk : f \in Files /\ row'[f] = row[f]
      BY <1>2, <1>3 DEF TypeOK
    <2> QED BY <1>3, <2>1 DEF NoOrphan
  <1>10. UnlinkedIsGone'
    <2>1. ASSUME NEW v \in Workers, unlinked'[v] PROVE unlinked[v] /\ sweep'[v] = sweep[v]
      BY <1>3, <2>1 DEF TypeOK
    <2>2. rowId' = rowId /\ disk' = disk
      BY <1>3
    <2>3. ASSUME NEW v \in Workers, unlinked'[v] PROVE Oldest(sweep[v])' \notin disk'
      <3>1. Oldest(sweep[v])' = Oldest(sweep[v])
        BY <2>1, <2>2, <2>3, OldestStays
      <3>2. Oldest(sweep[v]) \notin disk
        BY <2>1, <2>3 DEF UnlinkedIsGone
      <3> QED BY <2>2, <3>1, <3>2
    <2> QED BY <2>3 DEF UnlinkedIsGone
  <1> QED BY <1>5, <1>6, <1>7, <1>8, <1>9, <1>10

\* A worker that gives up its list, or that did not have one, does no harm.
LEMMA SweepStep ==
    ASSUME Inv, NEW w \in Workers, UNCHANGED <<row, rowId, disk, crashes>>,
           expired' \subseteq Files, staging' \in [Files -> StagingStates], Stages',
           \A v \in Workers : v # w => sweep'[v] = sweep[v],
           sweep' \in [Workers -> SUBSET Files], \A f \in sweep'[w] : row[f] # "NONE",
           unlinked' = [unlinked EXCEPT ![w] = FALSE],
           \A f \in disk : row[f] = "NONE" => staging'[f] = staging[f]
    PROVE  Inv'
  <1> USE DEF Inv
  <1>1. ASSUME NEW v \in Workers, unlinked'[v] PROVE unlinked[v] /\ sweep'[v] = sweep[v]
    BY <1>1 DEF TypeOK
  <1>2. unlinked' \in [Workers -> BOOLEAN]
    BY DEF TypeOK
  <1>3. \A v \in Workers : unlinked'[v] => sweep'[v] # {}
    BY <1>1 DEF TypeOK
  <1>4. TypeOK'
    BY <1>2, <1>3 DEF TypeOK
  <1>5. IdsCount'
    BY DEF IdsCount, Recorded
  <1>6. Listed'
    BY DEF Listed
  <1>7. UnlinkedIsGone'
    BY <1>1, OldestStays DEF UnlinkedIsGone
  <1>8. NoOrphan'
    BY DEF NoOrphan
  <1> QED BY <1>4, <1>5, <1>6, <1>7, <1>8

\* A failing database leaves a row without a copy, never a copy without a row.
LEMMA MarkFailsStep == ASSUME Inv, NEW w \in Workers, MarkFails(w) PROVE Inv'
  <1> USE DEF Inv, MarkFails
  <1>1. w \in Files => staging[w] = "EVICTING" /\ w \notin disk
    BY DEF Stages, TypeOK
  <1>2. staging' \in [Files -> StagingStates] /\ (\A f \in Files : f # w => staging'[f] = staging[f])
    BY DEF TypeOK, StagingStates
  <1>3. w \in Files => staging'[w] = "REFUSED"
    BY DEF TypeOK
  <1>4. /\ \A v \in Workers : v # w => sweep'[v] = sweep[v]
        /\ sweep'[w] = {} /\ sweep' \in [Workers -> SUBSET Files]
    BY DEF TypeOK
  <1>5. Stages'
    BY <1>2, <1>3, <1>4 DEF Stages, Workers
  <1>6. UNCHANGED <<row, rowId, disk, crashes>> /\ expired' \subseteq Files
    BY DEF TypeOK
  <1>7. \A f \in disk : row[f] = "NONE" => staging'[f] = staging[f]
    BY <1>1, <1>2 DEF TypeOK
  <1>8. unlinked' = [unlinked EXCEPT ![w] = FALSE] /\ (\A f \in sweep'[w] : row[f] # "NONE")
    BY <1>4
  <1> HIDE DEF Inv, MarkFails
  <1> QED BY <1>2, <1>4, <1>5, <1>6, <1>7, <1>8, SweepStep

\* stage() lists rows of its owner only, and has neither copy nor row itself yet.
LEMMA ListOverflowStep == ASSUME Inv, NEW f \in Files, ListOverflow(f) PROVE Inv'
  <1> USE DEF Inv, ListOverflow
  <1>1. f \notin disk /\ row[f] = "NONE" /\ sweep[f] = {} /\ f \in Workers
    BY DEF Stages, Workers
  <1>2. unlinked' = [unlinked EXCEPT ![f] = FALSE]
    BY <1>1 DEF TypeOK
  <1>3. staging' \in [Files -> StagingStates] /\ staging'[f] = "EVICTING"
    BY DEF TypeOK, StagingStates
  <1>4. \A g \in Files : g # f => staging'[g] = staging[g]
    BY DEF TypeOK
  <1>5. /\ \A v \in Workers : v # f => sweep'[v] = sweep[v]
        /\ sweep' \in [Workers -> SUBSET Files]
        /\ \A g \in sweep'[f] : row[g] # "NONE"
    BY <1>1 DEF TypeOK, OldestOf, StagedBy
  <1>6. Stages'
    BY <1>1, <1>3, <1>4, <1>5 DEF Stages, Workers
  <1>7. UNCHANGED <<row, rowId, disk, crashes>> /\ expired' \subseteq Files
    BY DEF TypeOK
  <1>8. \A g \in disk : row[g] = "NONE" => staging'[g] = staging[g]
    BY <1>1, <1>4 DEF TypeOK
  <1>9. \A g \in sweep'[f] : row[g] # "NONE"
    BY <1>5
  <1> HIDE DEF Inv, ListOverflow
  <1> QED BY <1>1, <1>2, <1>3, <1>5, <1>6, <1>7, <1>8, <1>9, SweepStep

\* A refused file has no copy yet.
LEMMA RefuseStep == ASSUME Inv, NEW f \in Files, Refuse(f) PROVE Inv'
  <1> USE DEF Inv, Refuse
  <1>1. f \notin disk /\ f \in Workers
    BY DEF Stages, Workers
  <1>2. unlinked' = [unlinked EXCEPT ![f] = FALSE]
    BY <1>1 DEF TypeOK
  <1>3. staging' \in [Files -> StagingStates] /\ staging'[f] = "REFUSED"
    BY DEF TypeOK, StagingStates
  <1>4. \A g \in Files : g # f => staging'[g] = staging[g]
    BY DEF TypeOK
  <1>5. /\ \A v \in Workers : v # f => sweep'[v] = sweep[v]
        /\ sweep'[f] = {} /\ sweep' \in [Workers -> SUBSET Files]
    BY <1>1 DEF TypeOK
  <1>6. Stages'
    BY <1>1, <1>3, <1>4, <1>5 DEF Stages, Workers
  <1>7. UNCHANGED <<row, rowId, disk, crashes>> /\ expired' \subseteq Files
    BY DEF TypeOK
  <1>8. \A g \in disk : row[g] = "NONE" => staging'[g] = staging[g]
    BY <1>1, <1>4 DEF TypeOK
  <1>9. \A g \in sweep'[f] : row[g] # "NONE"
    BY <1>5
  <1> HIDE DEF Inv, Refuse
  <1> QED BY <1>1, <1>2, <1>3, <1>5, <1>6, <1>7, <1>8, <1>9, SweepStep

\* A pass lists files that have rows.
LEMMA ReapStep == ASSUME Inv, NEW w \in Passes, Reap(w) PROVE Inv'
  <1> USE DEF Inv, Reap
  <1>1. w \in Workers /\ w \notin Files
    BY FilesAssumption DEF Workers
  <1>2. unlinked' = [unlinked EXCEPT ![w] = FALSE]
    BY <1>1 DEF TypeOK
  <1>3. /\ \A v \in Workers : v # w => sweep'[v] = sweep[v]
        /\ sweep' \in [Workers -> SUBSET Files]
        /\ \A g \in sweep'[w] : row[g] # "NONE"
    BY <1>1 DEF TypeOK, OldestOf, Reapable
  <1>4. Stages'
    BY <1>1, <1>3 DEF Stages, Workers
  <1> QED BY <1>1, <1>2, <1>3, <1>4, SweepStep DEF TypeOK

\* A new copy is not one that somebody is about to mark: it has no row.
LEMMA ReceiveStep == ASSUME Inv, NEW f \in Files, Receive(f) PROVE Inv'
  <1> USE DEF Inv, Receive
  <1>1. row[f] = "NONE"
    BY DEF Stages
  <1>2. TypeOK'
    BY DEF TypeOK, StagingStates
  <1>3. IdsCount' /\ Listed'
    BY DEF IdsCount, Recorded, Listed
  <1>4. Stages'
    BY <1>1 DEF Stages, TypeOK
  <1>5. NoOrphan'
    BY <1>1 DEF NoOrphan, TypeOK
  <1>6. UnlinkedIsGone'
    <2>1. ASSUME NEW w \in Workers, unlinked[w] PROVE Oldest(sweep[w]) # f
      BY <1>1, <2>1, OldestIsLeast DEF TypeOK, Listed
    <2>2. \A w \in Workers : Oldest(sweep[w])' = Oldest(sweep[w])
      BY OldestStays
    <2> QED BY <2>1, <2>2 DEF UnlinkedIsGone
  <1> QED BY <1>2, <1>3, <1>4, <1>5, <1>6

\* A row is created while a list of another worker is worked on.
LEMMA InsertStep ==
    ASSUME Inv, NEW f \in Files, row[f] = "NONE", InsertRow(f),
           staging[f] = "RECORDING", NEW s \in {"STORED", "DISCARDING"},
           staging' = [staging EXCEPT ![f] = s],
           UNCHANGED <<disk, expired, sweep, unlinked, crashes>>
    PROVE  Inv'
  <1> USE DEF Inv
  <1>1. row' = [row EXCEPT ![f] = "STAGED"]
    BY DEF InsertRow
  <1> DEFINE n == Cardinality(Recorded)
  <1>2. /\ n \in Nat /\ rowId' \in [Files -> Nat] /\ rowId'[f] = 1 + n
        /\ \A g \in Files : g # f => rowId'[g] = rowId[g]
        /\ Cardinality(Recorded)' = n + 1
    BY InsertRowStep
  <1>3. \A g \in Files : rowId[g] \in Nat /\ rowId[g] <= n
    BY DEF IdsCount, TypeOK
  <1> HIDE DEF n
  <1>4. TypeOK'
    <2>1. \A g, h \in Files : rowId'[g] = rowId'[h] /\ rowId'[g] # 0 => g = h
      BY <1>2, <1>3 DEF TypeOK
    <2>2. \A g \in Files : row'[g] = "NONE" <=> rowId'[g] = 0
      BY <1>1, <1>2 DEF TypeOK
    <2>3. row' \in [Files -> {"NONE", "STAGED", "CONSUMED", "FAILED", "EXPIRED"}]
      BY <1>1 DEF TypeOK
    <2>4. staging' \in [Files -> StagingStates]
      BY DEF TypeOK, StagingStates
    <2> QED BY <1>2, <2>1, <2>2, <2>3, <2>4 DEF TypeOK
  <1>5. IdsCount'
    <2>1. \A g \in Files : rowId'[g] <= n + 1
      BY <1>2, <1>3
    <2> QED BY <1>2, <2>1 DEF IdsCount
  <1>6. Stages'
    BY <1>1 DEF Stages, TypeOK
  <1>7. Listed'
    BY <1>1 DEF Listed, TypeOK
  <1>8. NoOrphan'
    BY <1>1 DEF NoOrphan, TypeOK
  <1>9. UnlinkedIsGone'
    <2>1. ASSUME NEW w \in Workers, unlinked'[w]
          PROVE  Oldest(sweep[w])' = Oldest(sweep[w])
      <3>1. sweep[w] \in SUBSET Files /\ f \notin sweep[w]
        BY DEF Listed, TypeOK
      <3>2. \A g \in sweep[w] : rowId'[g] = rowId[g]
        BY <1>2, <3>1
      <3>3. \A g \in sweep[w] : (\A h \in sweep[w] : rowId'[g] <= rowId'[h])
                               <=> (\A h \in sweep[w] : rowId[g] <= rowId[h])
        BY <3>2
      <3> QED BY <3>3 DEF Oldest
    <2> QED BY <2>1 DEF UnlinkedIsGone
  <1> QED BY <1>4, <1>5, <1>6, <1>7, <1>8, <1>9

\* create() fails without a row, the copy is discarded, or a file expires: rows and lists
\* stay, and no copy is added.
LEMMA QuietStep ==
    ASSUME Inv, UNCHANGED <<row, rowId, sweep, unlinked>>, disk' \subseteq disk,
           expired' \subseteq Files, crashes' \in 0 .. MaxCrashes,
           staging' \in [Files -> StagingStates], Stages',
           \A f \in disk' : row[f] = "NONE" => staging'[f] \in {"RECORDING", "DISCARDING", "CUT_OFF"}
    PROVE  Inv'
  <1> USE DEF Inv
  <1>1. TypeOK'
    BY DEF TypeOK
  <1>2. IdsCount' /\ Listed'
    BY DEF IdsCount, Recorded, Listed
  <1>3. NoOrphan'
    BY DEF NoOrphan
  <1>4. UnlinkedIsGone'
    <2>1. \A w \in Workers : Oldest(sweep[w])' = Oldest(sweep[w])
      BY OldestStays
    <2> QED BY <2>1 DEF UnlinkedIsGone
  <1> QED BY <1>1, <1>2, <1>3, <1>4

\* The row of a received file is created.
LEMMA RecordStep == ASSUME Inv, NEW f \in Files, Record(f) PROVE Inv'
  <1>1. row[f] = "NONE"
    BY DEF Record, Inv, Stages
  <1> QED BY <1>1, InsertStep DEF Record

\* create() fails after or without creating the row.
LEMMA RecordFailsStep == ASSUME Inv, NEW f \in Files, RecordFails(f) PROVE Inv'
  <1>1. row[f] = "NONE"
    BY DEF RecordFails, Inv, Stages
  <1>2. CASE InsertRow(f)
    BY <1>1, <1>2, InsertStep DEF RecordFails
  <1>3. CASE UNCHANGED <<row, rowId>>
    <2> USE <1>3 DEF RecordFails, Inv
    <2>1. staging' \in [Files -> StagingStates]
      BY DEF TypeOK, StagingStates
    <2>2. Stages'
      BY DEF Stages, TypeOK
    <2>3. \A g \in disk : row[g] = "NONE" => staging'[g] \in {"RECORDING", "DISCARDING", "CUT_OFF"}
      BY DEF NoOrphan, TypeOK
    <2> QED BY <2>1, <2>2, <2>3, QuietStep DEF TypeOK
  <1> QED BY <1>2, <1>3 DEF RecordFails

\* The copy of a file that was not recorded is removed.
LEMMA DiscardStep == ASSUME Inv, NEW f \in Files, Discard(f) PROVE Inv'
  <1> USE DEF Discard, Inv
  <1>1. staging' \in [Files -> StagingStates]
    BY DEF TypeOK, StagingStates
  <1>2. Stages'
    BY DEF Stages, TypeOK
  <1>3. \A g \in disk' : row[g] = "NONE" => staging'[g] \in {"RECORDING", "DISCARDING", "CUT_OFF"}
    BY DEF NoOrphan, TypeOK
  <1> QED BY <1>1, <1>2, <1>3, QuietStep DEF TypeOK

\* Time passes.
LEMMA ExpireStep == ASSUME Inv, NEW f \in Files, Expire(f) PROVE Inv'
  <1> USE DEF Expire, Inv
  <1>1. Stages'
    BY DEF Stages
  <1>2. \A g \in disk' : row[g] = "NONE" => staging'[g] \in {"RECORDING", "DISCARDING", "CUT_OFF"}
    BY DEF NoOrphan
  <1> QED BY <1>1, <1>2, QuietStep DEF TypeOK

\* A restart forgets every list, and may leave a copy without a row as CUT_OFF.
LEMMA CrashStep == ASSUME Inv, Crash PROVE Inv'
  <1> USE DEF Crash, Inv
  <1>1. crashes' \in 0 .. MaxCrashes
    BY LimitsAssumption DEF TypeOK
  <1>2. staging' \in [Files -> StagingStates]
    BY DEF TypeOK, StagingStates
  <1>3. /\ sweep' \in [Workers -> SUBSET Files] /\ unlinked' \in [Workers -> BOOLEAN]
        /\ \A w \in Workers : sweep'[w] = {} /\ ~unlinked'[w]
    OBVIOUS
  <1>4. TypeOK'
    BY <1>1, <1>2, <1>3 DEF TypeOK
  <1>5. IdsCount' /\ Listed' /\ UnlinkedIsGone'
    BY <1>3 DEF IdsCount, Recorded, Listed, UnlinkedIsGone
  <1>6. Stages'
    BY <1>3 DEF Stages, Workers
  <1>7. NoOrphan'
    BY DEF NoOrphan, TypeOK
  <1> QED BY <1>4, <1>5, <1>6, <1>7

\* Every step keeps the invariant.
LEMMA InductiveStep == Inv /\ [Next]_stagingVars => Inv'
  <1> SUFFICES ASSUME Inv, [Next]_stagingVars PROVE Inv'
    OBVIOUS
  <1>1. ASSUME NEW w \in Workers, Unlink(w) \/ Mark(w) \/ MarkFails(w) PROVE Inv'
    BY <1>1, UnlinkStep, MarkStep, MarkFailsStep
  <1>2. ASSUME NEW f \in Files,
               \/ ListOverflow(f) \/ Receive(f) \/ Refuse(f)
               \/ Record(f) \/ RecordFails(f) \/ Discard(f) \/ Expire(f)
        PROVE  Inv'
    BY <1>2, ListOverflowStep, ReceiveStep, RefuseStep, RecordStep, RecordFailsStep,
       DiscardStep, ExpireStep
  <1>3. CASE UNCHANGED stagingVars
    <2> USE <1>3 DEF stagingVars, Inv
    <2>1. \A f \in disk' : row[f] = "NONE" => staging'[f] \in {"RECORDING", "DISCARDING", "CUT_OFF"}
      BY DEF NoOrphan
    <2>2. Stages'
      BY DEF Stages
    <2> QED BY <2>1, <2>2, QuietStep DEF TypeOK
  <1> QED BY <1>1, <1>2, <1>3, ReapStep, CrashStep DEF Next, IngressStep, Ended

-----------------------------------------------------------------------------
(* Theorems *)

\* The invariant holds in every behaviour.
LEMMA SpecInv == Spec => []Inv
  BY InitInv, InductiveStep, PTL DEF Spec

\* The ids of rows stay unique, and a list is never lost between its two steps.
THEOREM TypeCorrect == Spec => []TypeOK
  <1>1. Inv => TypeOK
    BY DEF Inv
  <1> QED BY <1>1, SpecInv, PTL

\* No copy stays on disk without a row to find it by, whatever fails and however stage(),
\* the overflow and overlapping passes of the reaper interleave; only a restart between
\* the copy and its row leaves one.
THEOREM NoCopyIsOrphaned == Spec => []NoOrphan
  <1>1. Inv => NoOrphan
    BY DEF Inv
  <1> QED BY <1>1, SpecInv, PTL

-----------------------------------------------------------------------------
(* The newest file of an owner *)

\* A newer file of the same owner was recorded.
Superseded(f) == \E g \in Files : Owner[g] = Owner[f] /\ rowId[g] > rowId[f]

\* What is listed for removal is expired or superseded.
ListedAreOld == \A w \in Workers : \A f \in sweep[w] : f \in expired \/ Superseded(f)

\* A set of files with bounded ids has one with the greatest id.
LEMMA GreatestExists ==
    ASSUME NEW S, NEW T, NEW id \in [S -> Nat], T \subseteq S, T # {},
           NEW n \in Nat, \A f \in S : id[f] <= n
    PROVE  \E f \in T : \A g \in T : id[g] <= id[f]
  <1> DEFINE below == [f \in S |-> n - id[f]]
  <1>1. below \in [S -> Nat]
    OBVIOUS
  <1>2. \A f \in S : below[f] = n - id[f]
    OBVIOUS
  <1> HIDE DEF below
  <1>3. PICK f \in T : \A g \in T : below[f] <= below[g]
    BY <1>1, LeastExists
  <1> QED BY <1>2, <1>3

\* A stage() that makes room leaves the newest file of its owner alone, if it may keep one.
LEMMA OverflowIsSuperseded ==
    ASSUME Inv, MaxFilesPerOwner # 1, NEW f \in Files, NEW e,
           e \in OldestOf(StagedBy(Owner[f]), Cardinality(StagedBy(Owner[f])) - MaxFilesPerOwner + 1)
    PROVE  Superseded(e)
  <1> DEFINE S == StagedBy(Owner[f])
             before(m) == {g \in S : rowId[g] < rowId[m]}
  <1>1. S \subseteq Files /\ (\A g \in S : row[g] = "STAGED" /\ Owner[g] = Owner[f])
    BY DEF StagedBy
  <1>2. e \in S /\ Cardinality(before(e)) < Cardinality(S) - MaxFilesPerOwner + 1
    BY DEF OldestOf
  <1>3. IsFiniteSet(S) /\ Cardinality(S) \in Nat
    BY <1>1, FilesAssumption, FS_Subset, FS_CardinalityType
  <1> HIDE DEF S
  <1>4. PICK m \in S : \A g \in S : rowId[g] <= rowId[m]
    <2>1. IsFiniteSet(Recorded) /\ Cardinality(Recorded) \in Nat
      BY FilesAssumption, FS_Subset, FS_CardinalityType DEF Recorded
    <2>2. rowId \in [Files -> Nat] /\ \A g \in Files : rowId[g] <= Cardinality(Recorded)
      BY DEF Inv, TypeOK, IdsCount
    <2> DEFINE n == Cardinality(Recorded)
    <2> HIDE DEF n
    <2>3. n \in Nat /\ \A g \in Files : rowId[g] <= n
      BY <2>1, <2>2 DEF n
    <2> QED BY <1>1, <1>2, <2>2, <2>3, GreatestExists
  <1>5. \A g, h \in S : rowId[g] \in Nat /\ rowId[g] # 0 /\ (rowId[g] = rowId[h] => g = h)
    BY <1>1 DEF Inv, TypeOK
  <1>6. before(m) = S \ {m}
    BY <1>4, <1>5
  <1>7. Cardinality(before(m)) = Cardinality(S) - 1
    BY <1>3, <1>6, FS_RemoveElement
  <1>8. e # m
    <2> DEFINE k == Cardinality(S)
               j == MaxFilesPerOwner
    <2>1. k \in Nat /\ j \in Nat /\ j >= 2
      BY <1>3, LimitsAssumption
    <2> SUFFICES ASSUME e = m PROVE FALSE
      OBVIOUS
    <2>2. k - 1 < k - j + 1
      BY <1>2, <1>7
    <2> HIDE DEF k, j
    <2> QED BY <2>1, <2>2
  <1>9. rowId[m] > rowId[e]
    BY <1>2, <1>4, <1>5, <1>8
  <1> QED BY <1>1, <1>2, <1>9 DEF Superseded

\* A row is STAGED when it is created and changes its state once; a copy appears only for a
\* file without a row, and ids and expiry are final.
RowHistory ==
    /\ \A f \in Files : row[f] # "NONE" => row'[f] # "NONE" /\ rowId'[f] = rowId[f]
    /\ \A f \in Files : row[f] \notin {"NONE", "STAGED"} => row'[f] = row[f]
    /\ \A f \in Files : f \in disk' => f \in disk \/ row[f] = "NONE"
    /\ expired \subseteq expired'

NothingConsumed == \A f \in Files : row'[f] = "CONSUMED" => row[f] = "CONSUMED"

\* So does the ingress, which does not consume either.
LEMMA IngressHistory == ASSUME Inv, IngressStep \/ Crash PROVE RowHistory /\ NothingConsumed
  <1> USE DEF Inv
  <1>1. CASE UNCHANGED <<row, rowId>> /\ disk' \subseteq disk /\ expired \subseteq expired'
    BY <1>1 DEF RowHistory, NothingConsumed
  <1>2. ASSUME NEW w \in Workers, Mark(w) PROVE RowHistory /\ NothingConsumed
    <2> DEFINE e == Oldest(sweep[w])
    <2>1. UNCHANGED <<rowId, disk, expired>> /\ row' = [row EXCEPT ![e] = IF @ = "STAGED" THEN "EXPIRED" ELSE @]
      BY <1>2 DEF Mark, Marked
    <2> HIDE DEF e
    <2> QED BY <2>1 DEF RowHistory, NothingConsumed, TypeOK
  <1>3. ASSUME NEW f \in Files, staging[f] = "RECORDING", InsertRow(f), UNCHANGED <<disk, expired>>
        PROVE  RowHistory /\ NothingConsumed
    <2>1. row[f] = "NONE" /\ row' = [row EXCEPT ![f] = "STAGED"]
      BY <1>3 DEF Stages, InsertRow
    <2>2. \A g \in Files : g # f => rowId'[g] = rowId[g]
      BY <1>3, <2>1, InsertRowStep
    <2> QED BY <1>3, <2>1, <2>2 DEF RowHistory, NothingConsumed, TypeOK
  <1>4. ASSUME NEW f \in Files, Receive(f) PROVE RowHistory /\ NothingConsumed
    BY <1>4 DEF Receive, RowHistory, NothingConsumed, Stages
  <1>5. ASSUME NEW w \in Workers, Unlink(w) \/ MarkFails(w) PROVE RowHistory /\ NothingConsumed
    BY <1>1, <1>5 DEF Unlink, MarkFails
  <1>6. ASSUME NEW f \in Files, ListOverflow(f) \/ Refuse(f) \/ Discard(f) \/ Expire(f)
        PROVE  RowHistory /\ NothingConsumed
    BY <1>1, <1>6 DEF ListOverflow, Refuse, Discard, Expire
  <1>7. ASSUME NEW f \in Files, Record(f) \/ RecordFails(f) PROVE RowHistory /\ NothingConsumed
    BY <1>1, <1>3, <1>7 DEF Record, RecordFails
  <1>8. ASSUME NEW w \in Passes, Reap(w) PROVE RowHistory /\ NothingConsumed
    BY <1>1, <1>8 DEF Reap
  <1>9. ASSUME Crash PROVE RowHistory /\ NothingConsumed
    BY <1>1, <1>9 DEF Crash
  <1> QED BY <1>2, <1>4, <1>5, <1>6, <1>7, <1>8, <1>9 DEF IngressStep

\* A superseded file stays so.
LEMMA SupersededStays ==
    ASSUME Inv, RowHistory, NEW f \in Files, row[f] # "NONE", Superseded(f) PROVE Superseded(f)'
  <1>1. PICK g \in Files : Owner[g] = Owner[f] /\ rowId[g] > rowId[f]
    BY DEF Superseded
  <1>2. row[g] # "NONE"
    BY <1>1 DEF Inv, TypeOK
  <1>3. rowId'[g] = rowId[g] /\ rowId'[f] = rowId[f]
    BY <1>2 DEF RowHistory
  <1> QED BY <1>1, <1>3 DEF Superseded

\* The ingress lists and removes what is old only.
LEMMA NewestStep ==
    ASSUME Inv, ListedAreOld, NewestKept, MaxFilesPerOwner # 1, [Next]_stagingVars
    PROVE  ListedAreOld' /\ NewestKept'
  <1>1. RowHistory
    <2>1. CASE IngressStep \/ Crash
      BY <2>1, IngressHistory
    <2>2. CASE UNCHANGED stagingVars
      BY <2>2 DEF stagingVars, RowHistory
    <2> QED BY <2>1, <2>2 DEF Next, Ended
  <1>2. ASSUME NEW f \in Files, row[f] # "NONE", f \in expired \/ Superseded(f)
        PROVE  f \in expired' \/ Superseded(f)'
    BY <1>1, <1>2, SupersededStays DEF RowHistory
  <1>3. ASSUME NEW w \in Workers, NEW f \in sweep[w]
        PROVE  f \in Files /\ (f \in expired' \/ Superseded(f)')
    BY <1>2, <1>3 DEF ListedAreOld, Inv, Listed, TypeOK
  <1>4. ASSUME NEW w \in Workers, NEW f \in sweep'[w], f \notin sweep[w]
        PROVE  f \in Files /\ row[f] # "NONE" /\ (f \in expired \/ Superseded(f))
    <2>2. ASSUME NEW v \in Workers, Unlink(v) \/ Mark(v) \/ MarkFails(v) PROVE FALSE
      BY <1>4, <2>2 DEF Unlink, Mark, MarkFails, Inv, TypeOK
    <2>3. ASSUME NEW g \in Files, ListOverflow(g) PROVE f \in Files /\ row[f] # "NONE" /\ Superseded(f)
      <3>1. f \in OldestOf(StagedBy(Owner[g]), Cardinality(StagedBy(Owner[g])) - MaxFilesPerOwner + 1)
        BY <1>4, <2>3 DEF ListOverflow, Inv, TypeOK
      <3>2. Superseded(f)
        BY <3>1, OverflowIsSuperseded
      <3> QED BY <3>1, <3>2 DEF OldestOf, StagedBy
    <2>4. ASSUME NEW g \in Files, \/ Receive(g) \/ Refuse(g) \/ Record(g) \/ RecordFails(g)
                                  \/ Discard(g) \/ Expire(g)
          PROVE FALSE
      BY <1>4, <2>4 DEF Receive, Refuse, Record, RecordFails, Discard, Expire, Inv, TypeOK
    <2>5. ASSUME NEW v \in Passes, Reap(v) PROVE f \in Files /\ row[f] # "NONE" /\ f \in expired
      <3>1. f \in Reapable
        BY <1>4, <2>5 DEF Reap, OldestOf, Inv, TypeOK
      <3> QED BY <3>1 DEF Reapable
    <2>6. CASE Crash
      BY <1>4, <2>6 DEF Crash
    <2>7. CASE UNCHANGED stagingVars
      BY <1>4, <2>7 DEF stagingVars
    <2> QED BY <2>2, <2>3, <2>4, <2>5, <2>6, <2>7 DEF Next, IngressStep, Ended
  <1>5. ListedAreOld'
    <2>1. ASSUME NEW w \in Workers, NEW f \in sweep'[w] PROVE f \in expired' \/ Superseded(f)'
      BY <1>2, <1>3, <1>4
    <2> QED BY <2>1 DEF ListedAreOld
  <1>6. ASSUME NEW f \in Files, row'[f] = "EXPIRED", row[f] # "EXPIRED"
        PROVE  \E w \in Workers : f \in sweep[w]
    <2>1. ASSUME NEW w \in Workers, Mark(w) PROVE f \in sweep[w]
      <3> DEFINE e == Oldest(sweep[w])
      <3>1. e \in sweep[w]
        BY <2>1, OldestIsLeast DEF Mark, Inv, TypeOK
      <3>2. row' = [row EXCEPT ![e] = IF @ = "STAGED" THEN "EXPIRED" ELSE @]
        BY <2>1 DEF Mark, Marked
      <3> HIDE DEF e
      <3> QED BY <1>6, <3>1, <3>2 DEF Inv, TypeOK
    <2>2. ASSUME NEW w \in Workers, Unlink(w) \/ MarkFails(w) PROVE FALSE
      BY <1>6, <2>2 DEF Unlink, MarkFails
    <2>3. ASSUME NEW g \in Files, \/ ListOverflow(g) \/ Receive(g) \/ Refuse(g)
                                  \/ Discard(g) \/ Expire(g)
          PROVE FALSE
      BY <1>6, <2>3 DEF ListOverflow, Receive, Refuse, Discard, Expire
    <2>4. ASSUME NEW g \in Files, Record(g) \/ RecordFails(g) PROVE FALSE
      BY <1>6, <2>4 DEF Record, RecordFails, InsertRow, Inv, TypeOK
    <2>5. ASSUME NEW v \in Passes, Reap(v) PROVE FALSE
      BY <1>6, <2>5 DEF Reap
    <2>6. CASE Crash \/ UNCHANGED stagingVars
      BY <1>6, <2>6 DEF Crash, stagingVars
    <2> QED BY <2>1, <2>2, <2>3, <2>4, <2>5, <2>6 DEF Next, IngressStep, Ended
  <1>7. NewestKept'
    <2>1. ASSUME NEW f \in Files, row'[f] = "EXPIRED" PROVE f \in expired' \/ Superseded(f)'
      <3>1. CASE row[f] = "EXPIRED"
        BY <1>2, <3>1 DEF NewestKept, Superseded
      <3>2. CASE row[f] # "EXPIRED"
        BY <1>3, <1>6, <2>1, <3>2
      <3> QED BY <3>1, <3>2
    <2> QED BY <2>1 DEF NewestKept, Superseded
  <1> QED BY <1>5, <1>7

\* A user who keeps sending files keeps the newest: whatever is removed before it expires
\* has a newer one of its owner, if the limit is more than one file.
THEOREM NewestIsKept == ASSUME MaxFilesPerOwner # 1 PROVE Spec => []NewestKept
  <1>1. Init => ListedAreOld /\ NewestKept
    BY DEF Init, ListedAreOld, NewestKept, Workers
  <1>2. Inv /\ ListedAreOld /\ NewestKept /\ [Next]_stagingVars => (ListedAreOld /\ NewestKept)'
    BY NewestStep
  <1> QED BY <1>1, <1>2, SpecInv, PTL DEF Spec

-----------------------------------------------------------------------------
(* Uploads: what the invariant says of a call *)

Verdicts == {"UNSENT", "SENT", "PUBLISHED", "REFUSED"}
Places == {"READY", "RESOLVE", "CONNECT", "TARGET", "OPEN", "OPENED", "SENT",
           "MARK_CONSUMED", "REMOVE_COPY", "MARK_FAILED", "OVER"}
Definite == {"SUCCESS", "PARTIAL_SUCCESS", "FAILED"}

\* The types of one call.
CallTypeOK(c) ==
    /\ results[c] \in Seq(Outcomes) /\ Len(results[c]) <= Len(Refs[c])
    /\ salesforce[c] \in [DOMAIN Refs[c] -> Verdicts]
    /\ pc[c] # "OVER" => Len(results[c]) < Len(Refs[c])

TypesOK ==
    /\ pc \in [Calls -> Places]
    /\ results \in [Calls -> Seq(Outcomes)] /\ DOMAIN salesforce = Calls
    /\ targetSeen \in [Calls -> BOOLEAN] /\ started \in [Calls -> BOOLEAN]
    /\ scopeOpen \in [Calls -> BOOLEAN]
    /\ answer \in [Calls -> {"NONE", "OUTCOME_UNKNOWN", "ERROR"} \cup Definite]
    /\ \A c \in Calls : CallTypeOK(c)

\* Where the upload is says what Salesforce can have done with the file at hand.
AtHand(c) ==
    LET verdict == salesforce[c][Position(c)] IN
    /\ pc[c] \in {"READY", "RESOLVE", "CONNECT", "TARGET", "OPEN", "OPENED"} => verdict = "UNSENT"
    /\ pc[c] = "SENT" => verdict # "UNSENT"
    /\ pc[c] \in {"MARK_CONSUMED", "REMOVE_COPY"} => verdict = "PUBLISHED"
    /\ pc[c] = "MARK_FAILED" => verdict \in {"UNSENT", "REFUSED"}

\* A call that goes on has settled every earlier file, and sent no later one.
InProgress(c) ==
    pc[c] # "OVER" =>
        /\ AtHand(c)
        /\ \A i \in DOMAIN results[c] : results[c][i] \in {"SUCCESS", "FAILED"}
        /\ \A j \in DOMAIN Refs[c] : j > Position(c) => salesforce[c][j] = "UNSENT"

TrueResults(c) ==
    \A i \in DOMAIN results[c] :
        /\ results[c][i] = "SUCCESS" => salesforce[c][i] = "PUBLISHED"
        /\ results[c][i] = "FAILED" => salesforce[c][i] \in {"UNSENT", "REFUSED"}
        /\ results[c][i] = "NOT_ATTEMPTED" => salesforce[c][i] = "UNSENT"
        /\ results[c][i] = "OUTCOME_UNKNOWN" =>
              \A j \in DOMAIN Refs[c] : i < j => salesforce[c][j] = "UNSENT"

\* A file is not attempted behind an unknown outcome only; a definite answer is the
\* aggregate of a call that is over and has a result for every file.
Reported(c) ==
    /\ \A i \in DOMAIN results[c] : results[c][i] = "NOT_ATTEMPTED" =>
          \E j \in DOMAIN results[c] : results[c][j] = "OUTCOME_UNKNOWN"
    /\ answer[c] \in Definite =>
          pc[c] = "OVER" /\ Len(results[c]) = Len(Refs[c]) /\ answer[c] = Aggregate(results[c])

Truthful(c) == InProgress(c) /\ TrueResults(c) /\ Reported(c)

\* A call knows rows that exist, and a settled success one that was STAGED before.
Resolved == {"CONNECT", "TARGET", "OPEN", "OPENED", "SENT", "MARK_CONSUMED", "REMOVE_COPY", "MARK_FAILED"}

RowsKnown(c) ==
    /\ pc[c] \in Resolved => row[File(c)] # "NONE"
    /\ pc[c] = "REMOVE_COPY" => row[File(c)] # "STAGED"
    /\ \A i \in DOMAIN results[c] : results[c][i] = "SUCCESS" =>
          row[Refs[c][i]] \notin {"NONE", "STAGED"} /\ Refs[c][i] \notin disk

PublishedBySome(f) ==
    \E c \in Calls : \E i \in DOMAIN Refs[c] : Refs[c][i] = f /\ salesforce[c][i] = "PUBLISHED"

ConsumedRows == \A f \in Files : row[f] = "CONSUMED" => PublishedBySome(f)

UploadInv ==
    /\ Inv
    /\ TypesOK
    /\ \A c \in Calls : Truthful(c)
    /\ \A c \in Calls : RowsKnown(c)
    /\ ConsumedRows

-----------------------------------------------------------------------------
(* Steps of a call *)

\* The file at hand of a call that is not over.
LEMMA FileAtHand ==
    ASSUME TypesOK, NEW c \in Calls, pc[c] # "OVER"
    PROVE  /\ Position(c) \in DOMAIN Refs[c] /\ File(c) \in Files
           /\ Refs[c] \in Seq(Files) /\ DOMAIN Refs[c] = 1 .. Len(Refs[c])
           /\ DOMAIN results[c] = 1 .. Len(results[c]) /\ Len(results[c]) \in Nat
           /\ Position(c) = Len(results[c]) + 1
  <1>1. Refs[c] \in Seq(Files) /\ results[c] \in Seq(Outcomes) /\ Len(results[c]) < Len(Refs[c])
    BY CallsAssumption DEF TypesOK, CallTypeOK
  <1>2. Position(c) \in DOMAIN Refs[c] /\ Len(results[c]) \in Nat
    BY <1>1 DEF Position
  <1> QED BY <1>1, <1>2 DEF Position, File

\* A call of which nothing changes keeps its invariant.
LEMMA OtherCall ==
    ASSUME NEW c \in Calls, CallTypeOK(c), Truthful(c),
           pc'[c] = pc[c], results'[c] = results[c], answer'[c] = answer[c],
           salesforce'[c] = salesforce[c]
    PROVE  CallTypeOK(c)' /\ Truthful(c)'
  BY DEF CallTypeOK, Truthful, InProgress, AtHand, TrueResults, Reported, Position

\* The answers that a call gets before its upload has returned are not definite.
LEMMA InterruptedAnswer ==
    ASSUME TypesOK, NEW c \in Calls, Answered(c, Interrupted(c))
    PROVE  /\ answer' \in [Calls -> {"NONE", "OUTCOME_UNKNOWN", "ERROR"} \cup Definite]
           /\ \A d \in Calls : d # c => answer'[d] = answer[d]
           /\ answer'[c] = answer[c] \/ answer'[c] \notin Definite
  BY DEF Answered, Interrupted, TypesOK, Definite

\* upload() goes on to its next await.
LEMMA GoOnStep ==
    ASSUME TypesOK, \A d \in Calls : Truthful(d), NEW c \in Calls, pc[c] # "OVER",
           NEW place \in Places \ {"OVER"}, pc' = [pc EXCEPT ![c] = place],
           UNCHANGED <<results, started, answer, scopeOpen, salesforce>>,
           targetSeen' \in [Calls -> BOOLEAN], AtHand(c)'
    PROVE  TypesOK' /\ \A d \in Calls : Truthful(d)'
  <1>1. ASSUME NEW d \in Calls, d # c PROVE CallTypeOK(d)' /\ Truthful(d)'
    BY <1>1, OtherCall DEF TypesOK
  <1>2. pc'[c] = place /\ pc' \in [Calls -> Places]
    BY DEF TypesOK
  <1>3. CallTypeOK(c)'
    BY <1>2 DEF TypesOK, CallTypeOK
  <1>4. Truthful(c)
    OBVIOUS
  <1>5. InProgress(c)'
    BY <1>4 DEF Truthful, InProgress, Position
  <1>6. TrueResults(c)'
    BY <1>4 DEF Truthful, TrueResults
  <1>7. Reported(c)'
    BY <1>4 DEF Truthful, Reported
  <1>8. Truthful(c)'
    BY <1>5, <1>6, <1>7 DEF Truthful
  <1>9. \A d \in Calls : CallTypeOK(d)' /\ Truthful(d)'
    BY <1>1, <1>3, <1>8
  <1> QED BY <1>2, <1>9 DEF TypesOK

\* The caller is answered before the upload returned, because it failed or because it is late.
LEMMA InterruptStep ==
    ASSUME TypesOK, \A d \in Calls : Truthful(d), NEW c \in Calls,
           pc' = pc \/ pc' = [pc EXCEPT ![c] = "OVER"],
           Answered(c, Interrupted(c)),
           UNCHANGED <<results, targetSeen, started, scopeOpen, salesforce>>
    PROVE  TypesOK' /\ \A d \in Calls : Truthful(d)'
  <1>1. /\ answer' \in [Calls -> {"NONE", "OUTCOME_UNKNOWN", "ERROR"} \cup Definite]
        /\ \A d \in Calls : d # c => answer'[d] = answer[d]
        /\ answer'[c] = answer[c] \/ answer'[c] \notin Definite
    BY InterruptedAnswer
  <1>2. /\ pc' \in [Calls -> Places]
        /\ \A d \in Calls : d # c => pc'[d] = pc[d]
        /\ pc'[c] = pc[c] \/ pc'[c] = "OVER"
    BY DEF TypesOK, Places
  <1>3. ASSUME NEW d \in Calls, d # c PROVE CallTypeOK(d)' /\ Truthful(d)'
    BY <1>1, <1>2, <1>3, OtherCall DEF TypesOK
  <1>4. CallTypeOK(c)'
    BY <1>2 DEF TypesOK, CallTypeOK
  <1>5. Truthful(c)
    OBVIOUS
  <1>6. InProgress(c)'
    BY <1>2, <1>5 DEF Truthful, InProgress, AtHand, Position
  <1>7. TrueResults(c)'
    BY <1>5 DEF Truthful, TrueResults
  <1>8. Reported(c)'
    BY <1>1, <1>2, <1>5 DEF Truthful, Reported
  <1>9. \A d \in Calls : CallTypeOK(d)' /\ Truthful(d)'
    BY <1>3, <1>4, <1>6, <1>7, <1>8 DEF Truthful
  <1> QED BY <1>1, <1>2, <1>9 DEF TypesOK

\* upload() returns a list of results.
LEMMA ConcludeStep ==
    ASSUME TypesOK, \A d \in Calls : Truthful(d), NEW c \in Calls, pc[c] # "OVER",
           NEW list \in Seq(Outcomes), Len(list) = Len(Refs[c]), Conclude(c, list),
           UNCHANGED <<targetSeen, started, scopeOpen, salesforce>>,
           \A i \in DOMAIN list :
              /\ list[i] = "SUCCESS" => salesforce[c][i] = "PUBLISHED"
              /\ list[i] = "FAILED" => salesforce[c][i] \in {"UNSENT", "REFUSED"}
              /\ list[i] = "NOT_ATTEMPTED" => salesforce[c][i] = "UNSENT"
              /\ list[i] = "OUTCOME_UNKNOWN" =>
                    \A j \in DOMAIN Refs[c] : i < j => salesforce[c][j] = "UNSENT",
           \A i \in DOMAIN list : list[i] = "NOT_ATTEMPTED" =>
              \E j \in DOMAIN list : list[j] = "OUTCOME_UNKNOWN"
    PROVE  TypesOK' /\ \A d \in Calls : Truthful(d)'
  <1>1. /\ pc' \in [Calls -> Places] /\ pc'[c] = "OVER"
        /\ results' \in [Calls -> Seq(Outcomes)] /\ results'[c] = list
        /\ \A d \in Calls : d # c => pc'[d] = pc[d] /\ results'[d] = results[d]
    BY DEF TypesOK, Conclude, Places
  <1>2. answer[c] \notin Definite
    BY DEF Truthful, Reported
  <1>3. Aggregate(list) \in {"OUTCOME_UNKNOWN"} \cup Definite
    BY DEF Aggregate, Definite
  <1>4. /\ answer' \in [Calls -> {"NONE", "OUTCOME_UNKNOWN", "ERROR"} \cup Definite]
        /\ \A d \in Calls : d # c => answer'[d] = answer[d]
        /\ answer'[c] \in Definite => answer'[c] = Aggregate(list)
    <2> DEFINE status == Aggregate(list)
    <2>1. status \in {"OUTCOME_UNKNOWN"} \cup Definite /\ Answered(c, status)
      BY <1>3 DEF Conclude
    <2> HIDE DEF status
    <2>2. answer' \in [Calls -> {"NONE", "OUTCOME_UNKNOWN", "ERROR"} \cup Definite]
      BY <2>1 DEF Answered, TypesOK
    <2>3. answer'[c] = answer[c] \/ answer'[c] = status
      BY <2>1 DEF Answered, TypesOK
    <2>4. \A d \in Calls : d # c => answer'[d] = answer[d]
      BY <2>1 DEF Answered, TypesOK
    <2> QED BY <1>2, <2>2, <2>3, <2>4 DEF status
  <1>5. ASSUME NEW d \in Calls, d # c PROVE CallTypeOK(d)' /\ Truthful(d)'
    BY <1>1, <1>4, <1>5, OtherCall DEF TypesOK
  <1>6. CallTypeOK(c)'
    BY <1>1 DEF TypesOK, CallTypeOK
  <1>7. InProgress(c)'
    BY <1>1 DEF InProgress
  <1>8. TrueResults(c)'
    BY <1>1 DEF TrueResults
  <1>9. Reported(c)'
    <2>1. Aggregate(results[c])' = Aggregate(list)
      BY <1>1
    <2> QED BY <1>1, <1>4, <2>1 DEF Reported
  <1>10. \A d \in Calls : CallTypeOK(d)' /\ Truthful(d)'
    BY <1>5, <1>6, <1>7, <1>8, <1>9 DEF Truthful
  <1> QED BY <1>1, <1>4, <1>10 DEF TypesOK

\* The outcome of one file is appended, and is what Salesforce did with it.
LEMMA SettleStep ==
    ASSUME TypesOK, \A d \in Calls : Truthful(d), NEW c \in Calls, pc[c] # "OVER",
           NEW outcome \in {"SUCCESS", "FAILED"}, Settle(c, outcome), salesforce' = salesforce,
           outcome = "SUCCESS" => salesforce[c][Position(c)] = "PUBLISHED",
           outcome = "FAILED" => salesforce[c][Position(c)] \in {"UNSENT", "REFUSED"}
    PROVE  TypesOK' /\ \A d \in Calls : Truthful(d)'
  <1> DEFINE list == Append(results[c], outcome)
             n == Len(results[c])
  <1>1. results[c] \in Seq(Outcomes) /\ outcome \in Outcomes
    BY DEF TypesOK, CallTypeOK, Outcomes
  <1>2. /\ list \in Seq(Outcomes) /\ Len(list) = n + 1 /\ list[n + 1] = outcome
        /\ \A i \in 1 .. n : list[i] = results[c][i]
        /\ DOMAIN list = 1 .. n + 1 /\ DOMAIN results[c] = 1 .. n /\ n \in Nat
    BY <1>1
  <1>3. /\ Position(c) = n + 1 /\ n < Len(Refs[c]) /\ Len(Refs[c]) \in Nat
        /\ DOMAIN Refs[c] = 1 .. Len(Refs[c])
    BY FileAtHand, CallsAssumption DEF TypesOK, CallTypeOK
  <1>4. InProgress(c) /\ TrueResults(c)
    BY DEF Truthful
  <1>5. \A i \in DOMAIN list : list[i] \in {"SUCCESS", "FAILED"}
    BY <1>2, <1>4 DEF InProgress
  <1>6. \A i \in DOMAIN list :
           /\ list[i] = "SUCCESS" => salesforce[c][i] = "PUBLISHED"
           /\ list[i] = "FAILED" => salesforce[c][i] \in {"UNSENT", "REFUSED"}
    <2>1. \A i \in 1 .. n :
             /\ list[i] = "SUCCESS" => salesforce[c][i] = "PUBLISHED"
             /\ list[i] = "FAILED" => salesforce[c][i] \in {"UNSENT", "REFUSED"}
      BY <1>2, <1>4 DEF TrueResults
    <2> QED BY <1>2, <1>3, <2>1
  <1> HIDE DEF list
  <1>7. CASE Len(list) = Len(Refs[c])
    <2>1. Conclude(c, list) /\ UNCHANGED <<targetSeen, started, scopeOpen>>
      BY <1>7 DEF Settle, list
    <2> QED BY <1>2, <1>5, <1>6, <1>7, <2>1, ConcludeStep
  <1>8. CASE Len(list) < Len(Refs[c])
    <2>1. /\ results' = [results EXCEPT ![c] = list] /\ pc' = [pc EXCEPT ![c] = "RESOLVE"]
          /\ UNCHANGED <<answer, targetSeen, started, scopeOpen>>
      BY <1>8 DEF Settle, list
    <2>2. /\ pc' \in [Calls -> Places] /\ pc'[c] = "RESOLVE" /\ results' \in [Calls -> Seq(Outcomes)]
          /\ results'[c] = list /\ (\A d \in Calls : d # c => pc'[d] = pc[d] /\ results'[d] = results[d])
      BY <1>2, <2>1 DEF TypesOK, Places
    <2>3. ASSUME NEW d \in Calls, d # c PROVE CallTypeOK(d)' /\ Truthful(d)'
      BY <2>1, <2>2, <2>3, OtherCall DEF TypesOK
    <2>4. CallTypeOK(c)'
      BY <1>2, <1>8, <2>2 DEF TypesOK, CallTypeOK
    <2>5. Position(c)' = n + 2
      BY <1>2, <2>2 DEF Position
    <2>6. InProgress(c)'
      <3>1. salesforce[c][n + 2] = "UNSENT"
        <4>1. \A j \in DOMAIN Refs[c] : j > Position(c) => salesforce[c][j] = "UNSENT"
          BY <1>4 DEF InProgress
        <4>2. n + 2 \in DOMAIN Refs[c] /\ n + 2 > Position(c)
          BY <1>2, <1>3, <1>8
        <4> QED BY <4>1, <4>2
      <3>2. AtHand(c)'
        BY <2>2, <2>5, <3>1 DEF AtHand
      <3>3. \A j \in DOMAIN Refs[c] : j > n + 2 => salesforce[c][j] = "UNSENT"
        BY <1>3, <1>4, <2>2 DEF InProgress
      <3> QED BY <1>5, <2>2, <2>5, <3>2, <3>3 DEF InProgress
    <2>7. TrueResults(c)'
      BY <1>5, <1>6, <2>2 DEF TrueResults
    <2>8. Reported(c)'
      BY <1>5, <2>1, <2>2 DEF Truthful, Reported
    <2>9. \A d \in Calls : CallTypeOK(d)' /\ Truthful(d)'
      BY <2>3, <2>4, <2>6, <2>7, <2>8 DEF Truthful
    <2> QED BY <2>1, <2>2, <2>9 DEF TypesOK
  <1> QED BY <1>7, <1>8 DEF Settle, list

\* Without an answer the file at hand is unknown, and no later file was sent.
LEMMA UnansweredStep ==
    ASSUME TypesOK, \A d \in Calls : Truthful(d), NEW c \in Calls, Unanswered(c)
    PROVE  TypesOK' /\ \A d \in Calls : Truthful(d)'
  <1> DEFINE list == [i \in DOMAIN Refs[c] |-> IF i < Position(c) THEN results[c][i]
                                               ELSE IF i = Position(c) THEN "OUTCOME_UNKNOWN"
                                               ELSE "NOT_ATTEMPTED"]
  <1>1. pc[c] = "SENT" /\ salesforce' = salesforce
    BY DEF Unanswered, Reaches
  <1>2. Conclude(c, list) /\ UNCHANGED <<targetSeen, started, scopeOpen>>
    BY DEF Unanswered
  <1>3. /\ Position(c) \in DOMAIN Refs[c] /\ DOMAIN Refs[c] = 1 .. Len(Refs[c])
        /\ DOMAIN results[c] = 1 .. Len(results[c]) /\ Len(results[c]) \in Nat
        /\ Position(c) = Len(results[c]) + 1 /\ Len(Refs[c]) \in Nat
    BY <1>1, FileAtHand
  <1>4. InProgress(c) /\ TrueResults(c) /\ results[c] \in Seq(Outcomes)
    BY DEF Truthful, TypesOK, CallTypeOK
  <1>5. \A i \in DOMAIN list : list[i] \in Outcomes
    BY <1>3, <1>4 DEF Outcomes
  <1>6. list \in Seq(Outcomes) /\ Len(list) = Len(Refs[c])
    <2>1. list \in [1 .. Len(Refs[c]) -> Outcomes]
      BY <1>3, <1>5
    <2> HIDE DEF list
    <2> QED BY <1>3, <2>1, SeqDef
  <1>7. \A i \in DOMAIN list :
           /\ list[i] = "SUCCESS" => salesforce[c][i] = "PUBLISHED"
           /\ list[i] = "FAILED" => salesforce[c][i] \in {"UNSENT", "REFUSED"}
           /\ list[i] = "NOT_ATTEMPTED" => salesforce[c][i] = "UNSENT"
           /\ list[i] = "OUTCOME_UNKNOWN" =>
                 \A j \in DOMAIN Refs[c] : i < j => salesforce[c][j] = "UNSENT"
    <2>1. ASSUME NEW i \in DOMAIN Refs[c], i < Position(c)
          PROVE  /\ list[i] = results[c][i] /\ list[i] \in {"SUCCESS", "FAILED"}
                 /\ list[i] = "SUCCESS" => salesforce[c][i] = "PUBLISHED"
                 /\ list[i] = "FAILED" => salesforce[c][i] \in {"UNSENT", "REFUSED"}
      BY <1>1, <1>3, <1>4, <2>1 DEF InProgress, TrueResults
    <2>2. \A j \in DOMAIN Refs[c] : j > Position(c) => salesforce[c][j] = "UNSENT"
      BY <1>1, <1>4 DEF InProgress
    <2>3. ASSUME NEW i \in DOMAIN Refs[c], ~(i < Position(c))
          PROVE  /\ i = Position(c) => list[i] = "OUTCOME_UNKNOWN"
                 /\ i # Position(c) => list[i] = "NOT_ATTEMPTED" /\ i > Position(c)
      BY <1>3, <2>3
    <2> HIDE DEF list
    <2>4. DOMAIN list = DOMAIN Refs[c]
      BY DEF list
    <2> QED BY <2>1, <2>2, <2>3, <2>4
  <1>8. \E j \in DOMAIN list : list[j] = "OUTCOME_UNKNOWN"
    BY <1>3
  <1> HIDE DEF list
  <1> QED BY <1>1, <1>2, <1>6, <1>7, <1>8, ConcludeStep

\* Salesforce is sent, or decides about, a file: no settled file, and none behind the one
\* at hand.
LEMMA SalesforceStep ==
    ASSUME TypesOK, \A d \in Calls : Truthful(d), NEW c \in Calls, NEW i \in DOMAIN Refs[c],
           NEW verdict \in Verdicts, salesforce' = [salesforce EXCEPT ![c][i] = verdict],
           UNCHANGED <<results, targetSeen, answer, scopeOpen>>, started' \in [Calls -> BOOLEAN],
           \/ salesforce[c][i] = "SENT" /\ verdict \in {"PUBLISHED", "REFUSED"} /\ pc' = pc
           \/ /\ i = Position(c) /\ pc[c] = "OPENED" /\ verdict = "SENT"
              /\ pc' = [pc EXCEPT ![c] = "SENT"]
    PROVE  TypesOK' /\ \A d \in Calls : Truthful(d)'
  <1>1. /\ DOMAIN salesforce' = Calls /\ salesforce'[c] = [salesforce[c] EXCEPT ![i] = verdict]
        /\ \A d \in Calls : d # c => salesforce'[d] = salesforce[d]
    BY DEF TypesOK
  <1>2. /\ pc' \in [Calls -> Places] /\ (\A d \in Calls : d # c => pc'[d] = pc[d])
        /\ pc'[c] = "OVER" <=> pc[c] = "OVER"
    BY DEF TypesOK, Places
  <1>3. ASSUME NEW d \in Calls, d # c PROVE CallTypeOK(d)' /\ Truthful(d)'
    BY <1>1, <1>2, <1>3, OtherCall DEF TypesOK
  <1>4. CallTypeOK(c) /\ InProgress(c) /\ TrueResults(c) /\ Reported(c)
    BY DEF TypesOK, Truthful
  <1>5. /\ salesforce'[c][i] = verdict
        /\ \A j \in DOMAIN Refs[c] : j # i => salesforce'[c][j] = salesforce[c][j]
        /\ salesforce'[c] \in [DOMAIN Refs[c] -> Verdicts]
    BY <1>1, <1>4 DEF CallTypeOK
  <1>6. CallTypeOK(c)'
    BY <1>2, <1>4, <1>5 DEF CallTypeOK
  <1>7. /\ DOMAIN results[c] \subseteq DOMAIN Refs[c] /\ DOMAIN Refs[c] = 1 .. Len(Refs[c])
        /\ DOMAIN results[c] = 1 .. Len(results[c]) /\ Len(results[c]) \in Nat
        /\ Position(c) = Len(results[c]) + 1 /\ Position(c)' = Position(c)
    BY <1>4, CallsAssumption DEF CallTypeOK, Position
  <1>8. CASE salesforce[c][i] = "SENT" /\ verdict \in {"PUBLISHED", "REFUSED"} /\ pc' = pc
    <2>1. ASSUME NEW j \in DOMAIN Refs[c], salesforce[c][j] # "SENT"
          PROVE  salesforce'[c][j] = salesforce[c][j]
      BY <1>5, <1>8, <2>1
    <2>2. TrueResults(c)'
      BY <1>4, <1>7, <2>1 DEF TrueResults
    <2>3. AtHand(c)' \/ pc[c] = "OVER"
      <3> SUFFICES ASSUME pc[c] # "OVER" PROVE AtHand(c)'
        OBVIOUS
      <3>1. Position(c) \in DOMAIN Refs[c] /\ AtHand(c)
        BY <1>4, <1>7, FileAtHand DEF InProgress
      <3>2. \/ salesforce'[c][Position(c)] = salesforce[c][Position(c)]
            \/ salesforce[c][Position(c)] = "SENT" /\ salesforce'[c][Position(c)] # "UNSENT"
        BY <1>5, <1>8, <3>1
      <3>3. pc'[c] = pc[c]
        BY <1>8
      <3> QED BY <1>7, <3>1, <3>2, <3>3 DEF AtHand
    <2>4. InProgress(c)'
      BY <1>4, <1>7, <1>8, <2>1, <2>3 DEF InProgress
    <2>5. Reported(c)'
      BY <1>4, <1>8 DEF Reported
    <2>6. \A d \in Calls : CallTypeOK(d)' /\ Truthful(d)'
      BY <1>3, <1>6, <2>2, <2>4, <2>5 DEF Truthful
    <2> QED BY <1>1, <1>2, <2>6 DEF TypesOK
  <1>9. CASE /\ i = Position(c) /\ pc[c] = "OPENED" /\ verdict = "SENT"
             /\ pc' = [pc EXCEPT ![c] = "SENT"]
    <2>1. pc'[c] = "SENT"
      BY <1>9 DEF TypesOK
    <2>2. TrueResults(c)'
      <3>1. \A j \in DOMAIN results[c] : results[c][j] \in {"SUCCESS", "FAILED"}
        BY <1>4, <1>9 DEF InProgress
      <3> QED BY <1>4, <1>5, <1>7, <1>9, <3>1 DEF TrueResults
    <2>3. AtHand(c)'
      BY <1>5, <1>7, <1>9, <2>1 DEF AtHand
    <2>4. InProgress(c)'
      BY <1>4, <1>5, <1>7, <1>9, <2>3 DEF InProgress
    <2>5. Reported(c)'
      BY <1>4, <1>9 DEF Reported
    <2>6. \A d \in Calls : CallTypeOK(d)' /\ Truthful(d)'
      BY <1>3, <1>6, <2>2, <2>4, <2>5 DEF Truthful
    <2> QED BY <1>1, <1>2, <2>6 DEF TypesOK
  <1> QED BY <1>8, <1>9

\* GoOn to an await where Salesforce can have done with the file what it did.
LEMMA GoOnKeeps ==
    ASSUME TypesOK, \A d \in Calls : Truthful(d), NEW c \in Calls, pc[c] # "OVER",
           NEW place \in Places \ {"OVER"}, GoOn(c, place), salesforce' = salesforce,
           place \in {"RESOLVE", "CONNECT", "TARGET", "OPEN", "OPENED"} =>
              salesforce[c][Position(c)] = "UNSENT",
           place # "SENT",
           place \in {"MARK_CONSUMED", "REMOVE_COPY"} => salesforce[c][Position(c)] = "PUBLISHED",
           place = "MARK_FAILED" => salesforce[c][Position(c)] \in {"UNSENT", "REFUSED"},
           place # "READY"
    PROVE  TypesOK' /\ \A d \in Calls : Truthful(d)'
  <1>1. /\ pc' = [pc EXCEPT ![c] = place]
        /\ UNCHANGED <<results, targetSeen, started, answer, scopeOpen>>
    BY DEF GoOn
  <1>2. pc'[c] = place /\ Position(c)' = Position(c)
    BY <1>1 DEF TypesOK, Position
  <1>3. AtHand(c)'
    BY <1>2 DEF AtHand
  <1>4. targetSeen' \in [Calls -> BOOLEAN]
    BY <1>1 DEF TypesOK
  <1> QED BY <1>1, <1>3, <1>4, GoOnStep

\* Every step of an upload.
LEMMA UploadStepTruth ==
    ASSUME TypesOK, \A d \in Calls : Truthful(d), NEW c \in Calls, UploadStep(c)
    PROVE  TypesOK' /\ \A d \in Calls : Truthful(d)'
  <1> DEFINE verdict == salesforce[c][Position(c)]
  <1>1. pc[c] # "OVER" => AtHand(c)
    BY DEF Truthful, InProgress
  <1>2. /\ pc[c] \in {"READY", "RESOLVE", "CONNECT", "TARGET", "OPEN", "OPENED"} => verdict = "UNSENT"
        /\ pc[c] \in {"MARK_CONSUMED", "REMOVE_COPY"} => verdict = "PUBLISHED"
        /\ pc[c] = "MARK_FAILED" => verdict \in {"UNSENT", "REFUSED"}
    BY <1>1 DEF AtHand
  <1>3. ASSUME pc[c] # "OVER", Throw(c), salesforce' = salesforce
        PROVE  TypesOK' /\ \A d \in Calls : Truthful(d)'
    BY <1>3, InterruptStep DEF Throw
  <1>4. CASE Begin(c) \/ Resolve(c)
    <2>1. PICK place \in {"RESOLVE", "OPEN", "CONNECT"} : GoOn(c, place)
      BY <1>4 DEF Begin, Resolve
    <2>2. pc[c] \in {"READY", "RESOLVE"} /\ salesforce' = salesforce
      BY <1>4 DEF Begin, Resolve, Reaches
    <2> QED BY <1>2, <2>1, <2>2, GoOnKeeps DEF Places
  <1>5. CASE Unresolved(c)
    BY <1>2, <1>5, SettleStep DEF Unresolved, Reaches
  <1>6. CASE Connect(c)
    BY <1>2, <1>3, <1>6, GoOnKeeps DEF Connect, Reaches, Places
  <1>7. CASE TargetAnswers(c)
    <2>1. pc[c] = "TARGET" /\ salesforce' = salesforce
      BY <1>7 DEF TargetAnswers, Reaches
    <2>2. CASE Throw(c)
      BY <1>3, <2>1, <2>2
    <2>3. CASE /\ pc' = [pc EXCEPT ![c] = "OPEN"]
               /\ targetSeen' = [targetSeen EXCEPT ![c] = TRUE]
               /\ UNCHANGED <<results, started, answer, scopeOpen>>
      <3>1. pc'[c] = "OPEN" /\ targetSeen' \in [Calls -> BOOLEAN]
        BY <2>3 DEF TypesOK
      <3>2. Position(c)' = Position(c)
        BY <2>3 DEF Position
      <3>3. AtHand(c)'
        BY <1>2, <2>1, <3>1, <3>2 DEF AtHand
      <3> QED BY <2>1, <2>3, <3>1, <3>3, GoOnStep DEF Places
    <2> QED BY <1>7, <2>2, <2>3 DEF TargetAnswers
  <1>8. CASE Open(c)
    BY <1>2, <1>8, GoOnKeeps DEF Open, Reaches, Places
  <1>9. CASE Send(c)
    <2>1. Position(c) \in DOMAIN Refs[c]
      BY <1>9, FileAtHand DEF Send
    <2>2. started' \in [Calls -> BOOLEAN]
      BY <1>9 DEF Send, TypesOK
    <2>3. /\ salesforce' = [salesforce EXCEPT ![c][Position(c)] = "SENT"]
          /\ pc[c] = "OPENED" /\ pc' = [pc EXCEPT ![c] = "SENT"]
          /\ UNCHANGED <<results, targetSeen, answer, scopeOpen>>
      BY <1>9 DEF Send
    <2> HIDE DEF verdict
    <2> QED BY <2>1, <2>2, <2>3, SalesforceStep DEF Verdicts
  <1>10. CASE SendRefused(c) \/ MarkBreaks(c)
    BY <1>3, <1>10 DEF SendRefused, MarkBreaks, Reaches
  <1>11. CASE Published(c) \/ Refused(c)
    BY <1>11, GoOnKeeps DEF Published, Refused, Reaches, Places
  <1>12. CASE Unanswered(c)
    BY <1>12, UnansweredStep
  <1>13. CASE MarkConsumed(c)
    BY <1>2, <1>13, GoOnKeeps DEF MarkConsumed, Places
  <1>14. CASE RemoveCopy(c)
    BY <1>2, <1>14, SettleStep DEF RemoveCopy
  <1>15. CASE MarkFailed(c)
    BY <1>2, <1>15, SettleStep DEF MarkFailed
  <1> QED BY <1>4, <1>5, <1>6, <1>7, <1>8, <1>9, <1>10, <1>11, <1>12, <1>13, <1>14, <1>15
      DEF UploadStep

\* A restart ends the calls that had begun.
LEMMA RestartTruth ==
    ASSUME TypesOK, \A d \in Calls : Truthful(d), Restart
    PROVE  TypesOK' /\ \A d \in Calls : Truthful(d)'
  <1>1. /\ pc' \in [Calls -> Places] /\ scopeOpen' \in [Calls -> BOOLEAN]
        /\ \A c \in Calls : pc'[c] = IF pc[c] = "READY" THEN "READY" ELSE "OVER"
        /\ UNCHANGED <<results, targetSeen, started, answer, salesforce>>
    BY DEF Restart, TypesOK, Places
  <1>2. ASSUME NEW c \in Calls PROVE CallTypeOK(c)' /\ Truthful(c)'
    <2>1. CallTypeOK(c) /\ Truthful(c) /\ (pc'[c] = pc[c] \/ pc'[c] = "OVER")
      BY <1>1 DEF TypesOK
    <2>2. CASE pc'[c] = pc[c]
      BY <1>1, <2>1, <2>2, OtherCall
    <2>3. CASE pc'[c] = "OVER"
      BY <1>1, <2>1, <2>3 DEF CallTypeOK, Truthful, InProgress, TrueResults, Reported
    <2> QED BY <2>1, <2>2, <2>3
  <1> QED BY <1>1, <1>2 DEF TypesOK

\* Every step of the whole.
LEMMA TruthStep ==
    ASSUME TypesOK, \A d \in Calls : Truthful(d), [UploadNext]_vars
    PROVE  TypesOK' /\ \A d \in Calls : Truthful(d)'
  <1>1. ASSUME UNCHANGED <<pc, results, targetSeen, started, answer, salesforce>>,
               scopeOpen' \in [Calls -> BOOLEAN]
        PROVE  TypesOK' /\ \A d \in Calls : Truthful(d)'
    <2>1. \A d \in Calls : CallTypeOK(d)' /\ Truthful(d)'
      BY <1>1, OtherCall DEF TypesOK
    <2> QED BY <1>1, <2>1 DEF TypesOK
  <1>2. CASE UNCHANGED <<callVars, salesforce>>
    BY <1>1, <1>2 DEF callVars, TypesOK
  <1>3. ASSUME NEW c \in Calls, ToolTimeout(c) PROVE TypesOK' /\ \A d \in Calls : Truthful(d)'
    BY <1>3, InterruptStep DEF ToolTimeout
  <1>4. ASSUME NEW c \in Calls, CloseScope(c) PROVE TypesOK' /\ \A d \in Calls : Truthful(d)'
    <2>1. scopeOpen' \in [Calls -> BOOLEAN]
      BY <1>4 DEF CloseScope, TypesOK
    <2> QED BY <1>1, <1>4, <2>1 DEF CloseScope
  <1>5. ASSUME NEW c \in Calls, NEW i \in DOMAIN Refs[c], NEW v \in {"PUBLISHED", "REFUSED"},
               Decide(c, i, v)
        PROVE  TypesOK' /\ \A d \in Calls : Truthful(d)'
    <2>1. started' \in [Calls -> BOOLEAN]
      BY <1>5 DEF Decide, callVars, TypesOK
    <2>2. /\ salesforce' = [salesforce EXCEPT ![c][i] = v] /\ salesforce[c][i] = "SENT"
          /\ UNCHANGED <<results, targetSeen, answer, scopeOpen>> /\ pc' = pc
      BY <1>5 DEF Decide, callVars
    <2> QED BY <2>1, <2>2, SalesforceStep DEF Verdicts
  <1> QED BY <1>2, <1>3, <1>4, <1>5, UploadStepTruth, RestartTruth DEF UploadNext, vars

-----------------------------------------------------------------------------
(* Steps of an upload among the staged files *)

\* A row that was STAGED is marked by an upload.
LEMMA MarkedByCall ==
    ASSUME Inv, NEW f \in Files, NEW state \in {"CONSUMED", "FAILED"}, row' = Marked(f, state),
           UNCHANGED <<staging, rowId, disk, expired, sweep, unlinked, crashes>>
    PROVE  /\ Inv'
           /\ \A g \in Files : (row'[g] = "NONE" <=> row[g] = "NONE") /\ (g # f => row'[g] = row[g])
           /\ row[f] \notin {"NONE", "STAGED"} => row'[f] = row[f]
           /\ row[f] = "STAGED" => row'[f] = state
  <1> USE DEF Inv
  <1>1. /\ row' \in [Files -> {"NONE", "STAGED", "CONSUMED", "FAILED", "EXPIRED"}]
        /\ \A g \in Files : (row'[g] = "NONE" <=> row[g] = "NONE") /\ (g # f => row'[g] = row[g])
        /\ row[f] \notin {"NONE", "STAGED"} => row'[f] = row[f]
        /\ row[f] = "STAGED" => row'[f] = state
    BY DEF Marked, TypeOK
  <1>2. TypeOK'
    BY <1>1 DEF TypeOK
  <1>3. IdsCount' /\ Stages' /\ Listed'
    <2>1. \A w \in Workers : sweep[w] \subseteq Files
      BY DEF TypeOK
    <2> QED BY <1>1, <2>1 DEF IdsCount, Recorded, Stages, Listed
  <1>4. UnlinkedIsGone'
    <2>1. \A w \in Workers : Oldest(sweep[w])' = Oldest(sweep[w])
      BY OldestStays
    <2> QED BY <2>1 DEF UnlinkedIsGone
  <1>5. NoOrphan'
    <2>1. ASSUME NEW g \in disk
          PROVE  \/ row'[g] \in {"STAGED", "CONSUMED", "FAILED"}
                 \/ row'[g] = "NONE" /\ staging[g] \in {"RECORDING", "DISCARDING", "CUT_OFF"}
      <3>1. g \in Files
        BY DEF TypeOK
      <3>2. CASE g = f
        BY <1>1, <3>1, <3>2 DEF NoOrphan
      <3>3. CASE g # f
        BY <1>1, <3>1, <3>3 DEF NoOrphan
      <3> QED BY <3>2, <3>3
    <2> QED BY <2>1 DEF NoOrphan
  <1> QED BY <1>1, <1>2, <1>3, <1>4, <1>5

\* A copy is removed by an upload.
LEMMA RemovedByCall ==
    ASSUME Inv, NEW f \in Files, disk' = disk \ {f},
           UNCHANGED <<staging, row, rowId, expired, sweep, unlinked, crashes>>
    PROVE  Inv'
  <1> USE DEF Inv
  <1>1. Stages'
    BY DEF Stages
  <1>2. \A g \in disk' : row[g] = "NONE" => staging'[g] \in {"RECORDING", "DISCARDING", "CUT_OFF"}
    BY DEF NoOrphan
  <1>3. /\ staging' \in [Files -> StagingStates] /\ expired' \subseteq Files
        /\ crashes' \in 0 .. MaxCrashes
    BY DEF TypeOK
  <1> HIDE DEF Inv
  <1> QED BY <1>1, <1>2, <1>3, QuietStep

\* A step that neither resolves nor marks a file leaves what a call knows of its rows true.
LEMMA RowsStay ==
    ASSUME RowHistory, TypesOK, NEW c \in Calls, RowsKnown(c),
           \A i \in DOMAIN results'[c] : results'[c][i] = "SUCCESS" =>
              i \in DOMAIN results[c] /\ results[c][i] = "SUCCESS",
           \/ pc'[c] \notin Resolved
           \/ results'[c] = results[c] /\ pc'[c] = pc[c]
           \/ results'[c] = results[c] /\ pc[c] \in Resolved /\ pc'[c] # "REMOVE_COPY"
    PROVE  RowsKnown(c)'
  <1>1. Refs[c] \in Seq(Files) /\ results[c] \in Seq(Outcomes) /\ Len(results[c]) <= Len(Refs[c])
    BY CallsAssumption DEF TypesOK, CallTypeOK
  <1>2. \A i \in DOMAIN results[c] : Refs[c][i] \in Files
    BY <1>1
  <1>3. \A i \in DOMAIN results'[c] : results'[c][i] = "SUCCESS" =>
           row'[Refs[c][i]] \notin {"NONE", "STAGED"} /\ Refs[c][i] \notin disk'
    BY <1>2 DEF RowHistory, RowsKnown
  <1>4. ASSUME pc'[c] \in Resolved
        PROVE  /\ row'[File(c)'] # "NONE"
               /\ pc'[c] = "REMOVE_COPY" => row'[File(c)'] # "STAGED"
    <2>1. results'[c] = results[c] /\ pc[c] \in Resolved
      BY <1>4
    <2>2. pc[c] # "OVER"
      BY <2>1 DEF Resolved
    <2>3. File(c)' = File(c) /\ File(c) \in Files
      BY <2>1, <2>2, FileAtHand DEF File, Position
    <2>4. row[File(c)] # "NONE" /\ (pc'[c] = "REMOVE_COPY" => pc[c] = "REMOVE_COPY")
      BY <1>4, <2>1 DEF RowsKnown
    <2> QED BY <2>1, <2>3, <2>4 DEF RowHistory, RowsKnown
  <1>5. pc'[c] = "REMOVE_COPY" => pc'[c] \in Resolved
    BY DEF Resolved
  <1> QED BY <1>3, <1>4, <1>5 DEF RowsKnown

\* What Salesforce published stays published.
LEMMA PublishedStays ==
    ASSUME TypesOK, \A d \in Calls : Truthful(d), [UploadNext]_vars,
           NEW c \in Calls, NEW i \in DOMAIN Refs[c], salesforce[c][i] = "PUBLISHED"
    PROVE  salesforce'[c][i] = "PUBLISHED"
  <1>1. ASSUME NEW d \in Calls, Send(d) PROVE salesforce'[c][i] = "PUBLISHED"
    <2>1. salesforce[d][Position(d)] = "UNSENT" /\ Position(d) \in DOMAIN Refs[d]
      BY <1>1, FileAtHand DEF Send, Truthful, InProgress, AtHand
    <2> DEFINE j == Position(d)
    <2>2. salesforce' = [salesforce EXCEPT ![d][j] = "SENT"]
      BY <1>1 DEF Send
    <2>3. ~(c = d /\ i = j)
      BY <2>1
    <2> HIDE DEF j
    <2> QED BY <2>2, <2>3 DEF TypesOK, CallTypeOK
  <1>2. ASSUME NEW d \in Calls, NEW j \in DOMAIN Refs[d], NEW v, Decide(d, j, v)
        PROVE  salesforce'[c][i] = "PUBLISHED"
    <2>1. ~(c = d /\ i = j) /\ salesforce' = [salesforce EXCEPT ![d][j] = v]
      BY <1>2 DEF Decide
    <2> QED BY <2>1 DEF TypesOK, CallTypeOK
  <1>3. ASSUME NEW d \in Calls, UploadStep(d), ~Send(d) PROVE salesforce' = salesforce
    BY <1>3 DEF UploadStep, Begin, Unresolved, Resolve, Connect, TargetAnswers, Open, SendRefused,
                Published, Refused, Unanswered, MarkConsumed, RemoveCopy, MarkFailed,
                MarkBreaks, Reaches
  <1>4. ASSUME NEW d \in Calls, ToolTimeout(d) \/ CloseScope(d) PROVE salesforce' = salesforce
    BY <1>4 DEF ToolTimeout, CloseScope
  <1> QED BY <1>1, <1>2, <1>3, <1>4 DEF UploadNext, Restart, vars

\* A published file stays so for the row that was consumed.
LEMMA ConsumedStays ==
    ASSUME TypesOK, \A d \in Calls : Truthful(d), ConsumedRows, [UploadNext]_vars, NothingConsumed
    PROVE  ConsumedRows'
  <1>1. ASSUME NEW f \in Files, row'[f] = "CONSUMED" PROVE PublishedBySome(f)'
    <2>1. PICK c \in Calls : \E i \in DOMAIN Refs[c] : Refs[c][i] = f /\ salesforce[c][i] = "PUBLISHED"
      BY <1>1 DEF NothingConsumed, ConsumedRows, PublishedBySome
    <2>2. PICK i \in DOMAIN Refs[c] : Refs[c][i] = f /\ salesforce[c][i] = "PUBLISHED"
      BY <2>1
    <2>3. salesforce'[c][i] = "PUBLISHED"
      BY <2>2, PublishedStays
    <2> QED BY <2>2, <2>3 DEF PublishedBySome
  <1> QED BY <1>1 DEF ConsumedRows

\* A step of an upload concerns its own call.
LEMMA OthersStay ==
    ASSUME TypesOK, NEW c \in Calls, UploadStep(c), NEW d \in Calls, d # c
    PROVE  pc'[d] = pc[d] /\ results'[d] = results[d]
  <1>1. ASSUME NEW place, GoOn(c, place) PROVE pc'[d] = pc[d] /\ results'[d] = results[d]
    BY <1>1 DEF GoOn, TypesOK
  <1>2. ASSUME Throw(c) PROVE pc'[d] = pc[d] /\ results'[d] = results[d]
    BY <1>2 DEF Throw, TypesOK
  <1>3. ASSUME NEW list, Conclude(c, list) PROVE pc'[d] = pc[d] /\ results'[d] = results[d]
    BY <1>3 DEF Conclude, TypesOK
  <1>4. ASSUME NEW outcome, Settle(c, outcome) PROVE pc'[d] = pc[d] /\ results'[d] = results[d]
    BY <1>3, <1>4 DEF Settle, TypesOK
  <1>5. CASE Begin(c) \/ Resolve(c) \/ Connect(c) \/ Open(c) \/ Published(c) \/ Refused(c) \/ MarkConsumed(c)
    BY <1>1, <1>2, <1>5 DEF Begin, Resolve, Connect, Open, Published, Refused, MarkConsumed
  <1>6. CASE TargetAnswers(c) \/ Send(c)
    BY <1>2, <1>6 DEF TargetAnswers, Send, TypesOK
  <1>7. CASE SendRefused(c) \/ MarkBreaks(c)
    BY <1>2, <1>7 DEF SendRefused, MarkBreaks
  <1>8. CASE Unresolved(c) \/ RemoveCopy(c) \/ MarkFailed(c)
    BY <1>4, <1>8 DEF Unresolved, RemoveCopy, MarkFailed
  <1>9. CASE Unanswered(c)
    BY <1>3, <1>9 DEF Unanswered
  <1> QED BY <1>5, <1>6, <1>7, <1>8, <1>9 DEF UploadStep

\* What Settle makes of a call.
LEMMA Settled ==
    ASSUME TypesOK, NEW c \in Calls, NEW outcome \in Outcomes, Settle(c, outcome)
    PROVE  /\ results'[c] = Append(results[c], outcome) /\ pc'[c] \notin Resolved
           /\ \A i \in DOMAIN results'[c] :
                 \/ i \in DOMAIN results[c] /\ results'[c][i] = results[c][i]
                 \/ i = Position(c) /\ results'[c][i] = outcome
  <1>1. results'[c] = Append(results[c], outcome) /\ pc'[c] \in {"OVER", "RESOLVE"}
    BY DEF Settle, Conclude, TypesOK
  <1>2. results[c] \in Seq(Outcomes)
    BY DEF TypesOK, CallTypeOK
  <1> QED BY <1>1, <1>2 DEF Resolved, Position

\* A step that does not settle a success.
LEMMA QuietUploadRows ==
    ASSUME UploadInv, NEW c \in Calls, UploadStep(c), RowHistory,
           ~MarkConsumed(c), ~RemoveCopy(c)
    PROVE  RowsKnown(c)'
  <1> DEFINE Grows == \A i \in DOMAIN results'[c] : results'[c][i] = "SUCCESS" =>
                          i \in DOMAIN results[c] /\ results[c][i] = "SUCCESS"
  <1>1. TypesOK /\ RowsKnown(c) /\ Truthful(c)
    BY DEF UploadInv
  <1>2. ASSUME NEW place, GoOn(c, place) PROVE pc'[c] = place /\ results'[c] = results[c]
    BY <1>1, <1>2 DEF GoOn, TypesOK
  <1>3. ASSUME Throw(c) PROVE pc'[c] = "OVER" /\ results'[c] = results[c]
    BY <1>1, <1>3 DEF Throw, TypesOK
  <1>4. CASE Begin(c)
    <2>1. pc'[c] \notin Resolved /\ results'[c] = results[c]
      BY <1>2, <1>4 DEF Begin, Resolved
    <2> QED BY <1>1, <2>1, RowsStay
  <1>5. CASE Resolve(c)
    <2>1. /\ pc'[c] \in {"OPEN", "CONNECT"} /\ results'[c] = results[c]
          /\ row[File(c)] = "STAGED" /\ UNCHANGED stagingVars
      BY <1>2, <1>5 DEF Resolve, Reaches, Resolvable
    <2>2. File(c)' = File(c)
      BY <2>1 DEF File, Position
    <2> QED BY <1>1, <2>1, <2>2 DEF RowsKnown, stagingVars
  <1>6. CASE SendRefused(c) \/ MarkBreaks(c) \/ Throw(c)
    <2>1. pc'[c] \notin Resolved /\ results'[c] = results[c]
      BY <1>3, <1>6 DEF SendRefused, MarkBreaks, Resolved
    <2> QED BY <1>1, <2>1, RowsStay
  <1>7. CASE Connect(c) \/ TargetAnswers(c) \/ Open(c) \/ Published(c) \/ Refused(c) \/ Send(c)
    <2>1. CASE Throw(c)
      BY <1>6, <2>1
    <2>2. CASE ~Throw(c)
      <3>1. pc[c] \in Resolved
        BY <1>7 DEF Connect, TargetAnswers, Open, Published, Refused, Send, Reaches, Resolved
      <3>2. results'[c] = results[c]
        BY <1>1, <1>2, <1>7, <2>2
           DEF Connect, TargetAnswers, Open, Published, Refused, Send
      <3>3. CASE Send(c) \/ TargetAnswers(c)
        BY <1>1, <2>2, <3>1, <3>2, <3>3, RowsStay DEF Send, TargetAnswers, TypesOK
      <3>4. CASE Connect(c) \/ Open(c) \/ Published(c) \/ Refused(c)
        <4>1. pc'[c] # "REMOVE_COPY"
          BY <1>2, <2>2, <3>4 DEF Connect, Open, Published, Refused
        <4> QED BY <1>1, <3>1, <3>2, <4>1, RowsStay
      <3> QED BY <1>7, <3>3, <3>4
    <2> QED BY <2>1, <2>2
  <1>8. CASE Unresolved(c) \/ MarkFailed(c)
    <2>1. Settle(c, "FAILED")
      BY <1>8 DEF Unresolved, MarkFailed
    <2>2. pc'[c] \notin Resolved /\ Grows
      BY <1>1, <2>1, Settled DEF Outcomes
    <2> QED BY <1>1, <2>2, RowsStay
  <1>9. CASE Unanswered(c)
    <2> DEFINE list == [i \in DOMAIN Refs[c] |-> IF i < Position(c) THEN results[c][i]
                                                 ELSE IF i = Position(c) THEN "OUTCOME_UNKNOWN"
                                                 ELSE "NOT_ATTEMPTED"]
    <2>1. Conclude(c, list) /\ pc[c] # "OVER"
      BY <1>9 DEF Unanswered, Reaches
    <2>2. pc'[c] = "OVER" /\ results'[c] = list
      <3> HIDE DEF list
      <3> QED BY <1>1, <2>1 DEF Conclude, TypesOK
    <2>3. Grows
      BY <1>1, <2>1, <2>2, FileAtHand
    <2>4. pc'[c] \notin Resolved
      BY <2>2 DEF Resolved
    <2> QED BY <1>1, <2>3, <2>4, RowsStay
  <1> QED BY <1>4, <1>5, <1>6, <1>7, <1>8, <1>9 DEF UploadStep

\* The row is marked before the copy is removed and the success recorded.
LEMMA MarkConsumedRows ==
    ASSUME UploadInv, NEW c \in Calls, MarkConsumed(c)
    PROVE  Inv' /\ RowHistory /\ RowsKnown(c)' /\ ConsumedRows'
  <1> DEFINE f == File(c)
  <1>1. TypesOK /\ RowsKnown(c) /\ Truthful(c) /\ Inv /\ ConsumedRows
    BY DEF UploadInv
  <1>2. /\ pc[c] = "MARK_CONSUMED" /\ row' = Marked(f, "CONSUMED") /\ GoOn(c, "REMOVE_COPY")
        /\ UNCHANGED <<staging, rowId, disk, expired, sweep, unlinked, crashes, salesforce>>
    BY DEF MarkConsumed
  <1>3. f \in Files /\ row[f] # "NONE" /\ Position(c) \in DOMAIN Refs[c] /\ Refs[c][Position(c)] = f
    BY <1>1, <1>2, FileAtHand DEF RowsKnown, Resolved, File
  <1>4. salesforce[c][Position(c)] = "PUBLISHED"
    BY <1>1, <1>2 DEF Truthful, InProgress, AtHand
  <1> HIDE DEF f
  <1>5. /\ Inv'
        /\ \A g \in Files : (row'[g] = "NONE" <=> row[g] = "NONE") /\ (g # f => row'[g] = row[g])
        /\ row[f] \notin {"NONE", "STAGED"} => row'[f] = row[f]
        /\ row[f] = "STAGED" => row'[f] = "CONSUMED"
    BY <1>1, <1>2, <1>3, MarkedByCall
  <1>6. RowHistory
    <2>1. \A g \in Files : row[g] \notin {"NONE", "STAGED"} => row'[g] = row[g]
      BY <1>5
    <2> QED BY <1>2, <1>5, <2>1 DEF RowHistory
  <1>7. row'[f] \notin {"NONE", "STAGED"}
    BY <1>3, <1>5
  <1>8. RowsKnown(c)'
    <2>1. pc'[c] = "REMOVE_COPY" /\ results'[c] = results[c]
      BY <1>1, <1>2 DEF GoOn, TypesOK
    <2>2. File(c)' = f
      BY <2>1 DEF File, Position, f
    <2>3. \A i \in DOMAIN results[c] : Refs[c][i] \in Files
      BY <1>1, CallsAssumption DEF TypesOK, CallTypeOK
    <2>4. \A i \in DOMAIN results[c] : results[c][i] = "SUCCESS" =>
             row'[Refs[c][i]] \notin {"NONE", "STAGED"} /\ Refs[c][i] \notin disk'
      BY <1>1, <1>6, <2>3 DEF RowsKnown, RowHistory
    <2> QED BY <1>7, <2>1, <2>2, <2>4 DEF RowsKnown
  <1>9. ConsumedRows'
    <2>1. ASSUME NEW g \in Files, PublishedBySome(g) PROVE PublishedBySome(g)'
      BY <1>2, <2>1 DEF PublishedBySome
    <2>2. PublishedBySome(f)
      BY <1>3, <1>4 DEF PublishedBySome
    <2>3. ASSUME NEW g \in Files, row'[g] = "CONSUMED" PROVE PublishedBySome(g)'
      <3>1. CASE g = f
        BY <2>1, <2>2, <3>1
      <3>2. CASE g # f
        BY <1>1, <1>5, <2>1, <2>3, <3>2 DEF ConsumedRows
      <3> QED BY <3>1, <3>2
    <2> QED BY <2>3 DEF ConsumedRows
  <1> QED BY <1>5, <1>6, <1>8, <1>9

\* With the copy removed the success is final.
LEMMA RemoveCopyRows ==
    ASSUME UploadInv, NEW c \in Calls, RemoveCopy(c)
    PROVE  Inv' /\ RowHistory /\ NothingConsumed /\ RowsKnown(c)'
  <1>1. TypesOK /\ RowsKnown(c) /\ Inv
    BY DEF UploadInv
  <1>2. /\ pc[c] = "REMOVE_COPY" /\ disk' = disk \ {File(c)} /\ Settle(c, "SUCCESS")
        /\ UNCHANGED <<staging, row, rowId, expired, sweep, unlinked, crashes, salesforce>>
    BY DEF RemoveCopy
  <1>3. File(c) \in Files /\ row[File(c)] \notin {"NONE", "STAGED"} /\ Refs[c][Position(c)] = File(c)
    BY <1>1, <1>2, FileAtHand DEF RowsKnown, Resolved, File
  <1>4. Inv'
    BY <1>1, <1>2, <1>3, RemovedByCall
  <1>5. RowHistory /\ NothingConsumed
    BY <1>2 DEF RowHistory, NothingConsumed
  <1>6. /\ pc'[c] \notin Resolved
        /\ \A i \in DOMAIN results'[c] :
              \/ i \in DOMAIN results[c] /\ results'[c][i] = results[c][i]
              \/ i = Position(c) /\ results'[c][i] = "SUCCESS"
    BY <1>1, <1>2, Settled DEF Outcomes
  <1>7. \A i \in DOMAIN results'[c] : results'[c][i] = "SUCCESS" =>
           row'[Refs[c][i]] \notin {"NONE", "STAGED"} /\ Refs[c][i] \notin disk'
    BY <1>1, <1>2, <1>3, <1>6 DEF RowsKnown
  <1>8. RowsKnown(c)'
    BY <1>6, <1>7 DEF RowsKnown, Resolved
  <1> QED BY <1>4, <1>5, <1>8

\* Every step of an upload.
LEMMA UploadStepRows ==
    ASSUME UploadInv, NEW c \in Calls, UploadStep(c)
    PROVE  /\ Inv' /\ RowHistory /\ RowsKnown(c)'
           /\ ConsumedRows' \/ NothingConsumed
  <1>1. TypesOK /\ RowsKnown(c) /\ Inv
    BY DEF UploadInv
  <1>2. CASE MarkConsumed(c)
    BY <1>2, MarkConsumedRows
  <1>3. CASE RemoveCopy(c)
    BY <1>3, RemoveCopyRows
  <1>4. CASE MarkFailed(c)
    <2> DEFINE f == File(c)
    <2>1. /\ pc[c] = "MARK_FAILED" /\ row' = Marked(f, "FAILED")
          /\ UNCHANGED <<staging, rowId, disk, expired, sweep, unlinked, crashes, salesforce>>
      BY <1>4 DEF MarkFailed
    <2>2. f \in Files /\ row[f] # "NONE"
      BY <1>1, <2>1, FileAtHand DEF RowsKnown, Resolved
    <2> HIDE DEF f
    <2>3. /\ Inv'
          /\ \A g \in Files : (row'[g] = "NONE" <=> row[g] = "NONE") /\ (g # f => row'[g] = row[g])
          /\ row[f] \notin {"NONE", "STAGED"} => row'[f] = row[f]
          /\ row[f] = "STAGED" => row'[f] = "FAILED"
      BY <1>1, <2>1, <2>2, MarkedByCall
    <2>4. NothingConsumed
      BY <2>2, <2>3 DEF NothingConsumed
    <2>5. RowHistory
      <3>1. \A g \in Files : row[g] \notin {"NONE", "STAGED"} => row'[g] = row[g]
        BY <2>3
      <3> QED BY <2>1, <2>3, <3>1 DEF RowHistory
    <2>6. ~MarkConsumed(c) /\ ~RemoveCopy(c)
      BY <2>1 DEF MarkConsumed, RemoveCopy
    <2> QED BY <2>3, <2>4, <2>5, <2>6, QuietUploadRows
  <1>5. CASE ~MarkConsumed(c) /\ ~RemoveCopy(c) /\ ~MarkFailed(c)
    <2>1. UNCHANGED stagingVars
      BY <1>5 DEF UploadStep, Begin, Unresolved, Resolve, Connect, TargetAnswers, Open, Send,
                  SendRefused, Published, Refused, Unanswered, MarkBreaks, Reaches
    <2>2. RowHistory /\ NothingConsumed
      BY <2>1 DEF stagingVars, RowHistory, NothingConsumed
    <2>3. Inv'
      BY <1>1, <2>1, InductiveStep
    <2> QED BY <1>5, <2>2, <2>3, QuietUploadRows
  <1> QED BY <1>2, <1>3, <1>4, <1>5

\* Every step keeps the invariant.
LEMMA UploadInductive ==
    ASSUME UploadInv, [UploadNext]_vars
    PROVE  UploadInv' /\ RowHistory
  <1>1. TypesOK /\ Inv /\ ConsumedRows /\ (\A c \in Calls : Truthful(c) /\ RowsKnown(c))
    BY DEF UploadInv
  <1>2. TypesOK' /\ \A c \in Calls : Truthful(c)'
    BY <1>1, TruthStep
  <1>3. ASSUME NothingConsumed PROVE ConsumedRows'
    BY <1>1, <1>3, ConsumedStays
  <1>4. ASSUME Inv', RowHistory, NothingConsumed, results' = results,
               \A c \in Calls : pc'[c] = pc[c] \/ pc'[c] = "OVER"
        PROVE  UploadInv' /\ RowHistory
    <2>1. ASSUME NEW c \in Calls PROVE RowsKnown(c)'
      <3>1. pc'[c] = pc[c] \/ pc'[c] \notin Resolved
        BY <1>4 DEF Resolved
      <3> QED BY <1>1, <1>4, <3>1, RowsStay
    <2> QED BY <1>2, <1>3, <1>4, <2>1 DEF UploadInv
  <1>5. ASSUME NEW c \in Calls, UploadStep(c) PROVE UploadInv' /\ RowHistory
    <2>1. Inv' /\ RowHistory /\ RowsKnown(c)' /\ ConsumedRows'
      BY <1>3, <1>5, UploadStepRows
    <2>2. ASSUME NEW d \in Calls, d # c PROVE RowsKnown(d)'
      BY <1>1, <1>5, <2>1, <2>2, OthersStay, RowsStay
    <2> QED BY <1>2, <2>1, <2>2 DEF UploadInv
  <1>6. CASE UNCHANGED vars
    <2>1. UNCHANGED stagingVars /\ UNCHANGED <<results, pc>>
      BY <1>6 DEF vars, callVars
    <2>2. Inv' /\ RowHistory /\ NothingConsumed
      BY <1>1, <2>1, InductiveStep DEF stagingVars, RowHistory, NothingConsumed
    <2> QED BY <1>4, <2>1, <2>2
  <1>7. CASE IngressStep /\ UNCHANGED <<callVars, salesforce>>
    <2>1. Inv' /\ RowHistory /\ NothingConsumed
      BY <1>1, <1>7, InductiveStep, IngressHistory DEF Next
    <2> QED BY <1>4, <1>7, <2>1 DEF callVars
  <1>8. CASE Restart
    <2>1. Inv' /\ RowHistory /\ NothingConsumed
      BY <1>1, <1>8, InductiveStep, IngressHistory DEF Next, Restart
    <2>2. results' = results /\ \A c \in Calls : pc'[c] = pc[c] \/ pc'[c] = "OVER"
      BY <1>8 DEF Restart
    <2> QED BY <1>4, <2>1, <2>2
  <1>9. ASSUME UNCHANGED <<stagingVars, pc, results>> PROVE UploadInv' /\ RowHistory
    <2>1. Inv' /\ RowHistory /\ NothingConsumed
      BY <1>1, <1>9, InductiveStep DEF stagingVars, RowHistory, NothingConsumed
    <2> QED BY <1>4, <1>9, <2>1
  <1>10. ASSUME NEW c \in Calls, ToolTimeout(c) \/ CloseScope(c) PROVE UploadInv' /\ RowHistory
    BY <1>9, <1>10 DEF ToolTimeout, CloseScope
  <1>11. ASSUME NEW c \in Calls, NEW i, NEW v, Decide(c, i, v) PROVE UploadInv' /\ RowHistory
    BY <1>9, <1>11 DEF Decide, callVars
  <1> QED BY <1>5, <1>6, <1>7, <1>8, <1>10, <1>11 DEF UploadNext

\* Nothing is sent, known or answered at first.
LEMMA UploadInitInv == UploadInit => UploadInv
  <1> SUFFICES ASSUME UploadInit PROVE UploadInv
    OBVIOUS
  <1>1. Inv
    BY InitInv DEF UploadInit
  <1>2. ASSUME NEW c \in Calls
        PROVE  /\ Refs[c] \in Seq(Files) /\ Len(Refs[c]) \in Nat \ {0} /\ DOMAIN Refs[c] = 1 .. Len(Refs[c])
               /\ pc[c] = "READY" /\ results[c] = <<>> /\ answer[c] = "NONE"
               /\ salesforce[c] = [i \in DOMAIN Refs[c] |-> "UNSENT"]
    <2>1. Refs[c] \in Seq(Files) /\ Refs[c] # <<>>
      BY CallsAssumption
    <2>2. Len(Refs[c]) \in Nat \ {0}
      BY <2>1, EmptySeq
    <2> QED BY <2>1, <2>2 DEF UploadInit
  <1>3. ASSUME NEW c \in Calls PROVE CallTypeOK(c) /\ Truthful(c) /\ RowsKnown(c)
    <2> DEFINE n == Len(Refs[c])
    <2>1. /\ n \in Nat \ {0} /\ DOMAIN Refs[c] = 1 .. n
          /\ pc[c] = "READY" /\ results[c] = <<>> /\ answer[c] = "NONE"
          /\ salesforce[c] = [i \in 1 .. n |-> "UNSENT"]
      BY <1>2
    <2>2. Len(results[c]) = 0 /\ results[c] \in Seq(Outcomes)
      BY <2>1, EmptySeq
    <2>3. DOMAIN results[c] = {}
      BY <2>1
    <2>4. 0 <= n /\ 0 < n /\ 1 \in 1 .. n
      BY <2>1
    <2>5. CallTypeOK(c)
      BY <2>1, <2>2, <2>4 DEF CallTypeOK, Verdicts
    <2>6. Position(c) = 1
      BY <2>2 DEF Position
    <2>7. InProgress(c)
      <3>1. salesforce[c][1] = "UNSENT" /\ \A j \in 1 .. n : salesforce[c][j] = "UNSENT"
        BY <2>1, <2>4
      <3> HIDE DEF n
      <3> QED BY <2>1, <2>3, <2>6, <3>1 DEF InProgress, AtHand
    <2>8. TrueResults(c)
      BY <2>3 DEF TrueResults
    <2>9. Reported(c)
      BY <2>1, <2>3 DEF Reported, Definite
    <2>10. RowsKnown(c)
      BY <2>1, <2>3 DEF RowsKnown, Resolved
    <2> QED BY <2>5, <2>7, <2>8, <2>9, <2>10 DEF Truthful
  <1>4. TypesOK
    BY <1>3 DEF UploadInit, TypesOK, Places
  <1>5. ConsumedRows
    BY DEF UploadInit, Init, ConsumedRows
  <1> QED BY <1>1, <1>3, <1>4, <1>5 DEF UploadInv

\* The invariant holds in every behaviour.
LEMMA UploadSpecInv == UploadSpec => []UploadInv
  <1>1. UploadInv /\ [UploadNext]_vars => UploadInv'
    BY UploadInductive
  <1> QED BY <1>1, UploadInitInv, PTL DEF UploadSpec

-----------------------------------------------------------------------------
(* Theorems about uploads *)

\* Counting tells whether none, or every one, of the results is the outcome.
LEMMA CountTells ==
    ASSUME NEW list \in Seq(Outcomes), NEW outcome
    PROVE  /\ Count(outcome, list) \in Nat
           /\ Count(outcome, list) = 0 => \A i \in DOMAIN list : list[i] # outcome
           /\ Count(outcome, list) > 0 => \E i \in DOMAIN list : list[i] = outcome
           /\ Count(outcome, list) = Len(list) <=> \A i \in DOMAIN list : list[i] = outcome
  <1> DEFINE n == Len(list)
             S == {i \in DOMAIN list : list[i] = outcome}
  <1>1. DOMAIN list = 1 .. n /\ n \in Nat
    OBVIOUS
  <1>2. IsFiniteSet(1 .. n) /\ Cardinality(1 .. n) = n
    BY <1>1, FS_Interval
  <1>3. S \in SUBSET (1 .. n)
    BY <1>1
  <1>4. Count(outcome, list) = Cardinality(S)
    BY DEF Count
  <1> HIDE DEF n, S
  <1>5. IsFiniteSet(S) /\ (Cardinality(1 .. n) = Cardinality(S) => 1 .. n = S)
    BY <1>2, <1>3, FS_Subset
  <1>6. Cardinality(S) \in Nat /\ (Cardinality(S) = 0 <=> S = {})
    BY <1>5, FS_CardinalityType, FS_EmptySet
  <1>7. Cardinality(S) = n <=> S = 1 .. n
    BY <1>2, <1>5
  <1> QED BY <1>1, <1>4, <1>6, <1>7 DEF n, S

\* Every variable keeps its type, and a call that is not over has a file to go.
THEOREM UploadTypeCorrect == UploadSpec => []UploadTypeOK
  <1>1. UploadInv => UploadTypeOK
    BY DEF UploadInv, Inv, TypesOK, CallTypeOK, UploadTypeOK, Places, Definite, Verdicts
  <1> QED BY <1>1, UploadSpecInv, PTL

\* What a result says of a file is what Salesforce did with it, whatever is lost, late or
\* failing on the way, and behind an unknown outcome nothing is sent.
THEOREM ResultsStayTrue == UploadSpec => []ResultsAreTrue
  <1>1. UploadInv => ResultsAreTrue
    BY DEF UploadInv, Truthful, TrueResults, ResultsAreTrue
  <1> QED BY <1>1, UploadSpecInv, PTL

\* The answer the caller got, by the end of the upload, its failure or the deadline, stays true.
THEOREM AnswersStayTrue == UploadSpec => []AnswerIsTrue
  <1>1. ASSUME UploadInv, NEW c \in Calls, answer[c] \in Definite
        PROVE  LET files == DOMAIN Refs[c]
                   done(verdict) == {i \in files : salesforce[c][i] = verdict}
               IN /\ done("SENT") = {}
                  /\ answer[c] = "SUCCESS" => done("PUBLISHED") = files
                  /\ answer[c] = "PARTIAL_SUCCESS" => done("PUBLISHED") \notin {{}, files}
                  /\ answer[c] = "FAILED" => done("PUBLISHED") = {}
    <2> DEFINE list == results[c]
    <2>1. /\ list \in Seq(Outcomes) /\ Len(list) = Len(Refs[c]) /\ answer[c] = Aggregate(list)
          /\ DOMAIN list = DOMAIN Refs[c] /\ TrueResults(c)
      <3>1. /\ list \in Seq(Outcomes) /\ Refs[c] \in Seq(Files)
            /\ Len(list) = Len(Refs[c]) /\ answer[c] = Aggregate(list) /\ TrueResults(c)
        BY <1>1, CallsAssumption DEF UploadInv, TypesOK, CallTypeOK, Truthful, Reported
      <3> QED BY <3>1
    <2>2. \A i \in DOMAIN list : list[i] \in {"SUCCESS", "FAILED"}
      <3>1. Count("OUTCOME_UNKNOWN", list) = 0
        BY <1>1, <2>1, CountTells DEF Aggregate, Definite
      <3>2. \A i \in DOMAIN list : list[i] # "OUTCOME_UNKNOWN"
        BY <2>1, <3>1, CountTells
      <3>3. \A i \in DOMAIN list : list[i] # "NOT_ATTEMPTED"
        BY <1>1, <3>2 DEF UploadInv, Truthful, Reported
      <3>4. \A i \in DOMAIN list : list[i] \in Outcomes
        BY <2>1
      <3> QED BY <3>2, <3>3, <3>4 DEF Outcomes
    <2>3. \A i \in DOMAIN list :
             /\ list[i] = "SUCCESS" => salesforce[c][i] = "PUBLISHED"
             /\ list[i] = "FAILED" => salesforce[c][i] \in {"UNSENT", "REFUSED"}
      BY <2>1 DEF TrueResults
    <2>4. \A i \in DOMAIN list : /\ salesforce[c][i] # "SENT"
                                 /\ salesforce[c][i] = "PUBLISHED" <=> list[i] = "SUCCESS"
      BY <2>2, <2>3
    <2>5. /\ answer[c] = "SUCCESS" => \A i \in DOMAIN list : list[i] = "SUCCESS"
          /\ answer[c] = "PARTIAL_SUCCESS" =>
                /\ \E i \in DOMAIN list : list[i] = "SUCCESS"
                /\ \E i \in DOMAIN list : list[i] # "SUCCESS"
          /\ answer[c] = "FAILED" => \A i \in DOMAIN list : list[i] # "SUCCESS"
      <3> DEFINE k == Count("SUCCESS", list)
      <3>1. /\ k \in Nat
            /\ k = 0 => \A i \in DOMAIN list : list[i] # "SUCCESS"
            /\ k > 0 => \E i \in DOMAIN list : list[i] = "SUCCESS"
            /\ k = Len(list) <=> \A i \in DOMAIN list : list[i] = "SUCCESS"
        BY <2>1, CountTells
      <3>2. /\ answer[c] = "SUCCESS" => k = Len(list)
            /\ answer[c] = "PARTIAL_SUCCESS" => k # Len(list) /\ k > 0
            /\ answer[c] = "FAILED" => ~(k > 0)
        BY <2>1 DEF Aggregate
      <3> HIDE DEF k
      <3> QED BY <3>1, <3>2
    <2> HIDE DEF list
    <2> QED BY <2>1, <2>4, <2>5
  <1>2. UploadInv => AnswerIsTrue
    BY <1>1 DEF AnswerIsTrue, Definite
  <1> QED BY <1>2, UploadSpecInv, PTL

\* A reported success cannot be replayed: no later call resolves the reference, whoever else
\* works on the row and the copy.
THEOREM SuccessStaysFinal == UploadSpec => []SuccessIsFinal
  <1>1. UploadInv => SuccessIsFinal
    BY DEF UploadInv, RowsKnown, SuccessIsFinal
  <1> QED BY <1>1, UploadSpecInv, PTL

\* CONSUMED means published, and is final.
THEOREM ConsumedStaysPublished == UploadSpec => ConsumedIsPublished
  <1> DEFINE Keeps == \A f \in Files : row[f] = "CONSUMED" => row'[f] = "CONSUMED"
             Holds == \A f \in Files : row[f] = "CONSUMED" =>
                        \E c \in Calls : \E i \in DOMAIN Refs[c] :
                            Refs[c][i] = f /\ salesforce[c][i] = "PUBLISHED"
  <1>1. UploadInv => Holds
    BY DEF UploadInv, ConsumedRows, PublishedBySome
  <1>2. UploadInv /\ [UploadNext]_vars => [Keeps]_vars
    <2> SUFFICES ASSUME UploadInv, [UploadNext]_vars PROVE Keeps
      OBVIOUS
    <2>1. RowHistory
      BY UploadInductive
    <2> QED BY <2>1 DEF RowHistory
  <1>3. UploadSpec => [][Keeps]_vars /\ []Holds
    BY <1>1, <1>2, UploadSpecInv, PTL DEF UploadSpec
  <1> QED BY <1>3 DEF ConsumedIsPublished

\* Uploads leave the promise of the ingress intact: no copy stays without a row to find it by.
THEOREM UploadsOrphanNothing == UploadSpec => []NoOrphan
  <1>1. UploadInv => NoOrphan
    BY DEF UploadInv, Inv
  <1> QED BY <1>1, UploadSpecInv, PTL
=============================================================================
