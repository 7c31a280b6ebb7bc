------------------------ MODULE AuditPipelineProofs ------------------------
(***************************************************************************)
(* Proofs about AuditPipeline, for every set of entries, every poison set, *)
(* queue capacity, batch size and number of retries, and about Shutdown,   *)
(* which composes the pipeline with the requests and the stages of close().*)
(***************************************************************************)
EXTENDS Shutdown, SequenceLemmas, TLAPS

-----------------------------------------------------------------------------
(* The parts of the writer's steps. *)

\* splice(0, batchSize) moves the head of a non-empty queue into the batch.
LEMMA DrainFacts ==
    ASSUME MemoryType, Shape, queue # <<>>, Drain
    PROVE  /\ queue' \in Seq(Entries) /\ batch' \in Seq(Entries) /\ batch' # <<>>
           /\ IsInjective(queue') /\ IsInjective(batch')
           /\ Range(queue') \cap Range(batch') = {}
           /\ Range(queue') \cup Range(batch') = Range(queue)
           /\ Len(queue') <= Len(queue) /\ Len(batch') <= BatchSize
           /\ pc' = "PERSIST" /\ writerState' = "WRITING" /\ abandoned' = FALSE
  <1> DEFINE n == Least(BatchSize, Len(queue))
  <1>1. queue \in Seq(Entries) /\ IsInjective(queue) /\ Len(queue) \in Nat \ {0}
    BY DEF MemoryType, Shape
  <1>2. n \in 0 .. Len(queue) /\ n <= BatchSize /\ n >= 1
    BY <1>1, BoundsAssumption DEF Least
  <1>3. batch' = SubSeq(queue, 1, n) /\ queue' = SubSeq(queue, n + 1, Len(queue))
    BY DEF Drain
  <1> HIDE DEF n
  <1>4. /\ queue' \in Seq(Entries) /\ batch' \in Seq(Entries) /\ Len(batch') = n
        /\ IsInjective(queue') /\ IsInjective(batch')
        /\ Range(queue') \cap Range(batch') = {}
        /\ Range(queue') \cup Range(batch') = Range(queue)
    BY <1>1, <1>2, <1>3, SplitRange
  <1>5. Len(queue') = Len(queue) - n
    BY <1>1, <1>2, <1>3
  <1> QED BY <1>1, <1>2, <1>4, <1>5 DEF Drain

\* After a loop of the writer only the queue it found is pending, and the
\* writer is at one of the four awaits a loop can end at.
LEMMA ContinueFacts ==
    ASSUME MemoryType, Shape, Continue
    PROVE  /\ queue' \in Seq(Entries) /\ batch' \in Seq(Entries)
           /\ rest' = <<>> /\ attempt' = 0
           /\ IsInjective(queue') /\ IsInjective(batch')
           /\ Range(queue') \cap Range(batch') = {}
           /\ Range(queue') \cup Range(batch') = Range(queue)
           /\ Len(queue') <= Len(queue) /\ Len(batch') <= BatchSize
           /\ pc' \in {"STOPPED", "WAIT", "DELAY", "PERSIST"}
           /\ (batch' # <<>>) <=> (pc' = "PERSIST")
           /\ writerState' \in WriterStates
           /\ abandoned' \in BOOLEAN /\ (abandoned' => abandoned)
           /\ forcedStop => queue' = <<>> /\ batch' = <<>>
           /\ (pc' = "STOPPED") => queue' = <<>> /\ ~accepting
  <1>1. queue \in Seq(Entries) /\ IsInjective(queue) /\ Len(queue) \in Nat
    BY DEF MemoryType, Shape
  <1>2. rest' = <<>> /\ attempt' = 0
    BY DEF Continue
  <1>3. CASE \E place \in {"STOPPED", "WAIT", "DELAY"}, state \in WriterStates :
                /\ Halt(place, state)
                /\ (place = "STOPPED") => queue = <<>> /\ ~accepting
    <2>1. /\ queue' = queue /\ batch' = <<>> /\ abandoned' = abandoned
          /\ pc' \in {"STOPPED", "WAIT", "DELAY"} /\ writerState' \in WriterStates
          /\ (pc' = "STOPPED") => queue = <<>> /\ ~accepting
      BY <1>3 DEF Halt
    <2>2. Range(batch') = {} /\ IsInjective(batch') /\ Len(batch') = 0 /\ batch' \in Seq(Entries)
      BY <2>1 DEF Range, IsInjective
    <2> QED BY <1>1, <1>2, <2>1, <2>2, BoundsAssumption DEF MemoryType, Shape
  <1>4. CASE queue # <<>> /\ ~forcedStop /\ Drain
    BY <1>2, <1>4, DrainFacts DEF WriterStates
  <1>5. writerState \in WriterStates /\ (forcedStop => queue = <<>> /\ ~accepting)
    BY DEF MemoryType, Shape
  <1> QED BY <1>3, <1>4, <1>5 DEF Continue, WriterStates

-----------------------------------------------------------------------------
(* What is in memory. *)

Memory == MemoryType /\ Shape /\ MemoryBound

\* A step that ends its turn of the loop keeps the memory in order and leaves
\* pending what was queued.
LEMMA ContinueMemory ==
    ASSUME Memory, pc # "STOPPED", Continue, UNCHANGED <<offered, closeVars>>
    PROVE  /\ Memory'
           /\ Pending' = Range(queue)
           /\ Range(batch') \subseteq Range(queue)
           /\ forcedStop => Range(batch') = {}
  <1> USE DEF Memory, closeVars
  <1>1. Range(rest') = {} /\ IsInjective(rest') /\ rest' \in Seq(Entries) /\ rest' = <<>>
    BY ContinueFacts DEF Range, IsInjective
  <1>2. MemoryType'
    BY <1>1, ContinueFacts, BoundsAssumption DEF MemoryType
  <1>3. Shape'
    BY <1>1, ContinueFacts DEF Shape
  <1>4. MemoryBound'
    <2>1. Len(queue) \in Nat /\ Len(queue') \in Nat
      BY ContinueFacts DEF MemoryType
    <2> QED BY <2>1, ContinueFacts, BoundsAssumption DEF MemoryBound
  <1>5. Pending' = Range(queue)
    BY ContinueFacts DEF Pending, Undecided
  <1>6. Range(batch') \subseteq Range(queue)
    BY ContinueFacts
  <1>7. forcedStop => Range(batch') = {}
    BY ContinueFacts DEF Range
  <1> QED BY <1>2, <1>3, <1>4, <1>5, <1>6, <1>7

\* An isolated entry that is done leaves the pending ones.
LEMMA NextIsolatedMemory ==
    ASSUME Memory, pc = "ISOLATE", NextIsolated, UNCHANGED <<offered, closeVars>>
    PROVE  /\ Memory'
           /\ Head(rest) \in Undecided
           /\ Pending' = Pending \ {Head(rest)}
           /\ ~forcedStop => Range(batch') \subseteq Range(queue) \cup Range(batch)
           /\ forcedStop => Range(batch') \subseteq Range(batch)
  <1> USE DEF Memory
  <1>1. /\ rest \in Seq(Entries) /\ rest # <<>> /\ IsInjective(rest)
        /\ Range(rest) \subseteq Range(batch)
        /\ Range(queue) \cap Range(batch) = {}
    BY DEF MemoryType, Shape
  <1>2. /\ Head(rest) \in Range(rest)
        /\ Tail(rest) \in Seq(Entries) /\ Len(Tail(rest)) = Len(rest) - 1
        /\ Range(Tail(rest)) = Range(rest) \ {Head(rest)}
        /\ IsInjective(Tail(rest))
    BY <1>1, TailRange
  <1> DEFINE t == Tail(rest)
  <1>t. (Len(rest) = 1) <=> (t = <<>>)
    <2>1. t \in Seq(Entries) /\ Len(t) = Len(rest) - 1 /\ Len(rest) \in Nat
      BY <1>1, <1>2
    <2> HIDE DEF t
    <2>2. (t = <<>>) <=> (Len(t) = 0)
      BY ONLY <2>1, EmptySequence, Zenon
    <2> QED BY <2>1, <2>2
  <1>3. Head(rest) \in Undecided /\ Undecided = Range(rest)
    BY <1>2 DEF Undecided
  <1>4. CASE Len(rest) = 1
    <2>1. Continue
      BY <1>4 DEF NextIsolated
    <2>2. Range(Tail(rest)) = {}
      BY <1>4, <1>t DEF Range
    <2>3. Range(queue) = Pending \ {Head(rest)}
      BY <1>1, <1>2, <1>3, <2>2 DEF Pending
    <2> QED BY <2>1, <2>3, <1>3, ContinueMemory
  <1>5. CASE Len(rest) # 1
    <2>1. /\ rest' = Tail(rest) /\ writerState' = "WRITING"
          /\ UNCHANGED <<pc, queue, batch, attempt, abandoned, offered, accepting, forcedStop, closing>>
      BY <1>5 DEF NextIsolated, closeVars
    <2>2. Tail(rest) # <<>>
      BY <1>5, <1>t
    <2>3. MemoryType'
      BY <1>2, <2>1 DEF MemoryType, WriterStates
    <2>4. Shape'
      BY <1>1, <1>2, <2>1, <2>2 DEF Shape
    <2>5. MemoryBound'
      BY <2>1 DEF MemoryBound
    <2>6. Pending' = Pending \ {Head(rest)}
      BY <1>1, <1>2, <2>1 DEF Pending, Undecided
    <2> QED BY <2>1, <2>3, <2>4, <2>5, <2>6, <1>3
  <1> QED BY <1>4, <1>5

-----------------------------------------------------------------------------
(* The ledger: what the counters say of each snapshot. *)

Ledger == LedgerType /\ ExactAccounting /\ AbandonedIsCounted /\ LossIsVisible /\ StoredOnce

\* The inductive invariant.
IInv == Memory /\ Ledger

\* Counting adds one for each of the entries, and nothing for the others.
LEMMA CountedFacts ==
    ASSUME NEW c \in [Snapshots -> Nat], NEW E
    PROVE  /\ Counted(c, E) \in [Snapshots -> Nat]
           /\ \A s \in Snapshots : Counted(c, E)[s] = IF s \in E THEN c[s] + 1 ELSE c[s]
  BY DEF Counted

\* A successful call stores every entry of it, a snapshot for the first time.
LEMMA SinkStoresFacts ==
    ASSUME LedgerType, NEW E \in SUBSET Entries, SinkStores(E)
    PROVE  /\ stored' \in [Entries -> Nat]
           /\ \A e \in Entries : stored'[e] >= stored[e]
           /\ \A e \in E : stored'[e] >= 1
           /\ \A e \in Entries \ E : stored'[e] = stored[e]
           /\ \A s \in Snapshots \cap E : stored[s] = 0 /\ stored'[s] = 1
  <1>1. stored \in [Entries -> Nat] /\ Snapshots \subseteq Entries
    BY EntriesAssumption DEF LedgerType
  <1>2. stored' = [e \in Entries |-> IF e \in E THEN stored[e] + 1 ELSE stored[e]]
    BY DEF SinkStores
  <1>3. \A s \in Snapshots \cap E : ~(stored[s] > 0)
    BY DEF SinkStores, Refuses
  <1> QED BY <1>1, <1>2, <1>3

\* A failed call never removes a row and never stores a snapshot twice.
LEMMA SinkBreaksFacts ==
    ASSUME LedgerType, StoredOnce, NEW E \in SUBSET Entries,
           SinkBreaks(E) \/ SinkRefuses(E)
    PROVE  /\ stored' \in [Entries -> Nat]
           /\ \A e \in Entries : stored'[e] >= stored[e]
           /\ \A s \in Snapshots : stored'[s] <= 1
           /\ \A s \in Snapshots : stored'[s] >= stored[s]
  <1>1. stored \in [Entries -> Nat] /\ Snapshots \subseteq Entries
    BY EntriesAssumption DEF LedgerType
  <1>2. CASE UNCHANGED stored
    BY <1>1, <1>2 DEF StoredOnce
  <1>3. CASE SinkStores(E)
    <2>1. \A s \in Snapshots : stored'[s] <= 1
      <3>1. \A s \in Snapshots \cap E : stored'[s] <= 1
        BY <1>3, SinkStoresFacts
      <3>2. \A s \in Snapshots \ E : stored'[s] = stored[s]
        BY <1>1, <1>3, SinkStoresFacts
      <3> QED BY <3>1, <3>2 DEF StoredOnce
    <2> QED BY <1>1, <1>3, <2>1, SinkStoresFacts
  <1> QED BY <1>2, <1>3 DEF SinkBreaks, SinkRefuses

\* The entries E of the batch are counted as persisted (unless the batch is
\* abandoned) after the sink stored them.
LEMMA PersistLedger ==
    ASSUME IInv, NEW E \in SUBSET Undecided, SinkStores(E),
           persisted' = Counted(persisted, E) \/ (abandoned /\ persisted' = persisted),
           UNCHANGED <<offered, forcedStop, dropped, degraded>>,
           Pending' = Pending \ E,
           forcedStop => Range(batch') \subseteq Range(batch)
    PROVE  Ledger'
  <1>1. /\ Undecided \subseteq Range(batch) /\ Undecided \subseteq Pending
        /\ Range(batch) \subseteq Entries /\ Snapshots \subseteq Entries
        /\ offered \subseteq Entries /\ Pending \subseteq offered
    BY EntriesAssumption, RangeInSet DEF IInv, Memory, MemoryType, Shape, Undecided, Pending
  <1>2. /\ stored' \in [Entries -> Nat]
        /\ \A e \in Entries : stored'[e] >= stored[e]
        /\ \A e \in E : stored'[e] >= 1
        /\ \A e \in Entries \ E : stored'[e] = stored[e]
        /\ \A s \in Snapshots \cap E : stored[s] = 0 /\ stored'[s] = 1
    BY <1>1, SinkStoresFacts DEF IInv, Ledger
  <1>3. /\ persisted \in [Snapshots -> Nat] /\ dropped \in [Snapshots -> Nat]
        /\ degraded \in BOOLEAN /\ stored \in [Entries -> Nat]
    BY DEF IInv, Ledger, LedgerType
  <1>4. /\ Counted(persisted, E) \in [Snapshots -> Nat]
        /\ \A s \in Snapshots : Counted(persisted, E)[s] = IF s \in E THEN persisted[s] + 1 ELSE persisted[s]
    BY <1>3, CountedFacts
  <1>5. LedgerType'
    BY <1>2, <1>3, <1>4 DEF LedgerType
  <1>6. ExactAccounting'
    <2>1. ~forcedStop => persisted' = Counted(persisted, E)
      BY DEF IInv, Memory, Shape
    <2> SUFFICES ASSUME ~forcedStop, NEW s \in Snapshots
                 PROVE  persisted'[s] + dropped[s] = IF s \in offered \ Pending' THEN 1 ELSE 0
      BY DEF ExactAccounting
    <2>2. persisted[s] + dropped[s] = IF s \in offered \ Pending THEN 1 ELSE 0
      BY DEF IInv, Ledger, ExactAccounting
    <2>3. persisted'[s] = IF s \in E THEN persisted[s] + 1 ELSE persisted[s]
      BY <1>4, <2>1
    <2> QED BY <1>1, <1>3, <2>2, <2>3
  <1>7. AbandonedIsCounted'
    BY DEF IInv, Ledger, AbandonedIsCounted
  <1>8. LossIsVisible'
    BY <1>1, <1>2, <1>3 DEF IInv, Ledger, LossIsVisible
  <1>9. StoredOnce'
    <2>1. \A s \in Snapshots \ E : stored'[s] = stored[s] /\ persisted'[s] = persisted[s]
      BY <1>1, <1>2, <1>4
    <2> QED BY <1>2, <2>1 DEF IInv, Ledger, StoredOnce
  <1> QED BY <1>5, <1>6, <1>7, <1>8, <1>9 DEF Ledger

\* The entries E of the batch are given up after a failed call: counted as dropped,
\* or not at all when the flush deadline counted them before.
LEMMA DropLedger ==
    ASSUME IInv, NEW E \in SUBSET Undecided, NEW F \in SUBSET Entries,
           SinkBreaks(F) \/ SinkRefuses(F),
           degraded' = TRUE,
           dropped' = Counted(dropped, E) \/ (forcedStop /\ dropped' = dropped),
           UNCHANGED <<offered, forcedStop, persisted>>,
           Pending' = Pending \ E,
           forcedStop => Range(batch') \subseteq Range(batch)
    PROVE  Ledger'
  <1>1. /\ Undecided \subseteq Range(batch) /\ Undecided \subseteq Pending
        /\ Range(batch) \subseteq Entries /\ Snapshots \subseteq Entries
        /\ offered \subseteq Entries /\ Pending \subseteq offered
    BY EntriesAssumption, RangeInSet DEF IInv, Memory, MemoryType, Shape, Undecided, Pending
  <1>2. /\ stored' \in [Entries -> Nat]
        /\ \A e \in Entries : stored'[e] >= stored[e]
        /\ \A s \in Snapshots : stored'[s] <= 1
        /\ \A s \in Snapshots : stored'[s] >= stored[s]
    BY SinkBreaksFacts DEF IInv, Ledger
  <1>3. /\ persisted \in [Snapshots -> Nat] /\ dropped \in [Snapshots -> Nat]
        /\ degraded \in BOOLEAN /\ stored \in [Entries -> Nat]
    BY DEF IInv, Ledger, LedgerType
  <1>4. /\ Counted(dropped, E) \in [Snapshots -> Nat]
        /\ \A s \in Snapshots : Counted(dropped, E)[s] = IF s \in E THEN dropped[s] + 1 ELSE dropped[s]
    BY <1>3, CountedFacts
  <1>5. LedgerType'
    BY <1>2, <1>3, <1>4 DEF LedgerType
  <1>6. ExactAccounting'
    <2> SUFFICES ASSUME ~forcedStop, NEW s \in Snapshots
                 PROVE  persisted[s] + dropped'[s] = IF s \in offered \ Pending' THEN 1 ELSE 0
      BY DEF ExactAccounting
    <2>1. persisted[s] + dropped[s] = IF s \in offered \ Pending THEN 1 ELSE 0
      BY DEF IInv, Ledger, ExactAccounting
    <2>2. dropped'[s] = IF s \in E THEN dropped[s] + 1 ELSE dropped[s]
      BY <1>4
    <2> QED BY <1>1, <1>3, <2>1, <2>2
  <1>7. \A s \in Snapshots : dropped'[s] >= dropped[s]
    BY <1>3, <1>4
  <1>8. AbandonedIsCounted'
    <2>1. forcedStop => \A s \in Range(batch) \cap Snapshots : dropped[s] >= 1
      BY DEF IInv, Ledger, AbandonedIsCounted
    <2>2. forcedStop => \A s \in Range(batch') \cap Snapshots : dropped'[s] >= 1
      <3> SUFFICES ASSUME forcedStop, NEW s \in Range(batch') \cap Snapshots
                   PROVE  dropped'[s] >= 1
        OBVIOUS
      <3>1. dropped[s] >= 1 /\ dropped'[s] >= dropped[s]
        BY <2>1, <1>7
      <3>2. dropped[s] \in Nat /\ dropped'[s] \in Nat
        BY <1>3, <1>4
      <3> QED BY <3>1, <3>2
    <2> QED BY <2>2 DEF AbandonedIsCounted
  <1>9. LossIsVisible'
    <2> SUFFICES ASSUME NEW e \in offered \ Pending', stored'[e] = 0, e \in Snapshots
                 PROVE  dropped'[e] >= 1
      BY DEF LossIsVisible
    <2>1. stored[e] = 0
      BY <1>1, <1>2, <1>3
    <2>2. CASE e \in E /\ dropped' = Counted(dropped, E)
      BY <1>3, <1>4, <2>2
    <2>3. CASE e \in E /\ forcedStop
      BY <1>1, <1>3, <1>4, <2>3 DEF IInv, Ledger, AbandonedIsCounted
    <2>4. CASE e \notin E
      BY <1>1, <1>3, <1>4, <2>1, <2>4 DEF IInv, Ledger, LossIsVisible
    <2> QED BY <2>2, <2>3, <2>4
  <1>10. StoredOnce'
    BY <1>1, <1>2, <1>3 DEF IInv, Ledger, StoredOnce
  <1> QED BY <1>5, <1>6, <1>8, <1>9, <1>10 DEF Ledger

-----------------------------------------------------------------------------
(* The invariant. *)

\* The pipeline is constructed with an empty queue, and no entry was counted.
LEMMA InitInv == Init => IInv
  <1> SUFFICES ASSUME Init PROVE IInv
    OBVIOUS
  <1> USE DEF Init
  <1>1. Range(<<>>) = {} /\ IsInjective(<<>>)
    BY DEF Range, IsInjective
  <1>2. MemoryType
    <2>1. <<>> \in Seq(Entries)
      OBVIOUS
    <2>2. 0 \in 0 .. RetryAttempts
      BY BoundsAssumption
    <2> QED BY <2>1, <2>2 DEF MemoryType, WriterStates
  <1>l. LedgerType
    BY DEF LedgerType
  <1>3. Shape
    BY <1>1 DEF Shape
  <1>4. MemoryBound
    BY BoundsAssumption DEF MemoryBound
  <1>5. ExactAccounting /\ AbandonedIsCounted /\ LossIsVisible /\ StoredOnce
    BY EntriesAssumption DEF ExactAccounting, AbandonedIsCounted, LossIsVisible, StoredOnce
  <1> QED BY <1>2, <1>l, <1>3, <1>4, <1>5 DEF IInv, Memory, Ledger

\* An offer is queued, or counted as dropped at once.
LEMMA OfferStep ==
    ASSUME IInv, NEW e \in Entries, Offer(e)
    PROVE  IInv'
  <1> USE DEF Offer, closeVars, writerVars
  <1>1. MemoryType /\ Shape /\ MemoryBound /\ LedgerType
    BY DEF IInv, Memory, Ledger
  <1>2. e \notin Range(queue) /\ e \notin Range(batch) /\ e \notin Pending
    BY <1>1 DEF Shape, Pending, Undecided
  <1>3. CASE accepting /\ Len(queue) < Capacity
    <2>1. queue' = Append(queue, e) /\ UNCHANGED <<dropped, degraded, persisted, stored>>
      BY <1>3
    <2>2. /\ queue' \in Seq(Entries) /\ Range(queue') = Range(queue) \cup {e}
          /\ IsInjective(queue')
      BY <1>1, <1>2, <2>1, AppendRange DEF MemoryType, Shape
    <2>3. MemoryType' /\ LedgerType'
      BY <1>1, <2>1, <2>2 DEF MemoryType, LedgerType
    <2>4. Shape'
      BY <1>1, <1>2, <1>3, <2>2 DEF Shape
    <2>5. MemoryBound'
      BY <1>1, <1>3, <2>1, BoundsAssumption DEF MemoryBound, MemoryType
    <2>6. Pending' = Pending \cup {e}
      BY <2>2 DEF Pending, Undecided
    <2>7. ExactAccounting'
      BY <1>1, <1>2, <2>1, <2>6 DEF IInv, Ledger, ExactAccounting
    <2>8. AbandonedIsCounted' /\ StoredOnce'
      BY <2>1 DEF IInv, Ledger, AbandonedIsCounted, StoredOnce
    <2>9. LossIsVisible'
      BY <2>1, <2>6 DEF IInv, Ledger, LossIsVisible
    <2> QED BY <2>3, <2>4, <2>5, <2>7, <2>8, <2>9 DEF IInv, Memory, Ledger
  <1>4. CASE ~(accepting /\ Len(queue) < Capacity)
    <2>1. /\ dropped' = Counted(dropped, {e}) /\ degraded' = TRUE
          /\ UNCHANGED <<queue, persisted, stored>>
      BY <1>4 DEF RecordDrop
    <2>2. /\ dropped \in [Snapshots -> Nat] /\ persisted \in [Snapshots -> Nat]
          /\ dropped' \in [Snapshots -> Nat]
          /\ \A s \in Snapshots : dropped'[s] = IF s = e THEN dropped[s] + 1 ELSE dropped[s]
      BY <1>1, <2>1, CountedFacts DEF LedgerType
    <2>3. MemoryType' /\ LedgerType'
      BY <1>1, <2>1, <2>2 DEF MemoryType, LedgerType
    <2>4. Shape' /\ MemoryBound'
      BY <1>1, <2>1 DEF Shape, MemoryBound
    <2>5. Pending' = Pending
      BY <2>1 DEF Pending, Undecided
    <2>6. ExactAccounting'
      <3> SUFFICES ASSUME ~forcedStop, NEW s \in Snapshots
                   PROVE  persisted[s] + dropped'[s] = IF s \in (offered \cup {e}) \ Pending THEN 1 ELSE 0
        BY <2>1, <2>5 DEF ExactAccounting
      <3>1. persisted[s] + dropped[s] = IF s \in offered \ Pending THEN 1 ELSE 0
        BY DEF IInv, Ledger, ExactAccounting
      <3> QED BY <1>2, <2>2, <3>1
    <2>7. \A s \in Snapshots : dropped[s] >= 1 => dropped'[s] >= 1
      BY <2>2
    <2>8. AbandonedIsCounted' /\ StoredOnce'
      <3>1. AbandonedIsCounted /\ StoredOnce
        BY DEF IInv, Ledger
      <3>2. batch' = batch /\ (forcedStop' <=> forcedStop) /\ degraded'
        BY <1>1, <2>1 DEF MemoryType
      <3>3. AbandonedIsCounted'
        <4> SUFFICES ASSUME forcedStop, NEW s \in Range(batch) \cap Snapshots
                     PROVE  dropped'[s] >= 1
          BY <2>1, <3>2 DEF AbandonedIsCounted
        <4>1. dropped[s] >= 1
          BY <3>1 DEF AbandonedIsCounted
        <4> QED BY <2>7, <4>1
      <3> QED BY <2>1, <3>1, <3>3 DEF StoredOnce
    <2>9. LossIsVisible'
      <3>1. e \in Snapshots => dropped'[e] >= 1
        BY <2>2
      <3> QED BY <2>1, <2>5, <2>7, <3>1 DEF IInv, Ledger, LossIsVisible
    <2> QED BY <2>3, <2>4, <2>6, <2>8, <2>9 DEF IInv, Memory, Ledger
  <1> QED BY <1>3, <1>4

\* A turn of the loop that ends without a call of the sink leaves the ledger alone.
LEMMA IdleStep ==
    ASSUME IInv, Range(batch) = {}, pc # "STOPPED",
           Continue, UNCHANGED <<offered, closeVars, ledgerVars>>
    PROVE  IInv'
  <1>1. Memory' /\ Pending' = Range(queue) /\ (forcedStop => Range(batch') = {})
    BY ContinueMemory DEF IInv
  <1>2. Pending = Range(queue)
    <2>1. Undecided = {}
      BY DEF IInv, Memory, Shape, Undecided
    <2> QED BY <2>1 DEF Pending
  <1>3. Ledger'
    BY <1>1, <1>2 DEF IInv, Ledger, LedgerType, ExactAccounting, AbandonedIsCounted,
       LossIsVisible, StoredOnce, ledgerVars, closeVars
  <1> QED BY <1>1, <1>3 DEF IInv

\* The flush interval ends: a batch is drained, unless close() emptied the queue.
LEMMA DelayStep == IInv /\ DelayEnds => IInv'
  <1> SUFFICES ASSUME IInv, DelayEnds PROVE IInv'
    OBVIOUS
  <1>1. MemoryType /\ Shape /\ MemoryBound /\ batch = <<>> /\ rest = <<>> /\ Range(batch) = {}
    BY DEF IInv, Memory, Shape, DelayEnds, Range
  <1>2. CASE queue = <<>>
    BY <1>1, <1>2, IdleStep DEF DelayEnds
  <1>3. CASE queue # <<>>
    <2>1. Drain /\ UNCHANGED <<attempt, rest, offered, closeVars, ledgerVars>> /\ pc = "DELAY"
      BY <1>3 DEF DelayEnds
    <2>2. ~forcedStop
      BY <1>1, <1>3 DEF Shape
    <2>3. MemoryType'
      BY <1>1, <1>3, <2>1, DrainFacts DEF MemoryType, WriterStates, closeVars
    <2>4. Shape'
      BY <1>1, <1>3, <2>1, <2>2, DrainFacts DEF Shape, closeVars
    <2>5. MemoryBound'
      <3>1. Len(queue) \in Nat /\ Len(queue') \in Nat
        BY <1>1, <2>3 DEF MemoryType
      <3> QED BY <1>1, <1>3, <2>1, <3>1, DrainFacts, BoundsAssumption DEF MemoryBound
    <2>6. Pending' = Pending
      BY <1>1, <1>3, <2>1, DrainFacts DEF Pending, Undecided
    <2>7. Ledger'
      BY <2>1, <2>2, <2>6 DEF IInv, Ledger, LedgerType, ExactAccounting, AbandonedIsCounted,
         LossIsVisible, StoredOnce, ledgerVars, closeVars
    <2> QED BY <2>3, <2>4, <2>5, <2>7 DEF IInv, Memory
  <1> QED BY <1>2, <1>3

\* waitForWork resolves: the writer goes round its loop once.
LEMMA WakeStep == IInv /\ Wake => IInv'
  <1> SUFFICES ASSUME IInv, Wake PROVE IInv'
    OBVIOUS
  <1>1. Range(batch) = {}
    BY DEF IInv, Memory, Shape, Wake, Range
  <1> QED BY <1>1, IdleStep DEF Wake

\* A call of the sink for the whole batch: where it ends in the loop test, the
\* batch leaves the pending entries.
LEMMA BatchEnds ==
    ASSUME IInv, pc = "PERSIST", Continue, UNCHANGED <<offered, closeVars>>
    PROVE  /\ Memory'
           /\ Range(batch) \in SUBSET Undecided /\ Range(batch) \in SUBSET Entries
           /\ Pending' = Pending \ Range(batch)
           /\ forcedStop => Range(batch') \subseteq Range(batch)
           /\ UNCHANGED forcedStop
  <1>1. Undecided = Range(batch) /\ Range(queue) \cap Range(batch) = {}
    BY DEF IInv, Memory, Shape, Undecided
  <1>2. /\ Memory' /\ Pending' = Range(queue)
        /\ forcedStop => Range(batch') = {}
    BY ContinueMemory DEF IInv
  <1>3. Range(batch) \subseteq Entries
    BY RangeInSet DEF IInv, Memory, MemoryType
  <1> QED BY <1>1, <1>2, <1>3 DEF Pending, closeVars

\* A failed call after which the writer keeps the batch: to retry it, or to isolate.
LEMMA BatchStays ==
    ASSUME IInv, pc = "PERSIST",
           SinkBreaks(Range(batch)) \/ SinkRefuses(Range(batch)),
           degraded' = TRUE, ~forcedStop,
           UNCHANGED <<queue, batch, attempt, abandoned, offered, closeVars, dropped, persisted>>,
           writerState' \in WriterStates,
           \/ pc' = "BACKOFF" /\ rest' = rest /\ attempt < RetryAttempts
           \/ pc' = "ISOLATE" /\ rest' = batch
    PROVE  IInv'
  <1>1. /\ MemoryType /\ Shape /\ MemoryBound
        /\ batch # <<>> /\ Range(batch) \subseteq Entries
        /\ UNCHANGED <<accepting, forcedStop, closing>>
    BY RangeInSet DEF IInv, Memory, MemoryType, Shape, closeVars
  <1>2. MemoryType' /\ MemoryBound'
    BY <1>1 DEF MemoryType, MemoryBound
  <1>3. Shape'
    BY <1>1 DEF Shape
  <1>4. {} \in SUBSET Undecided /\ Range(batch) \in SUBSET Entries
    BY <1>1
  <1>5. Pending' = Pending \ {}
    BY <1>1 DEF Shape, Pending, Undecided
  <1>6. dropped' = Counted(dropped, {})
    BY DEF IInv, Ledger, LedgerType, Counted
  <1>7. Ledger'
    BY <1>1, <1>4, <1>5, <1>6, DropLedger
  <1> QED BY <1>2, <1>3, <1>7 DEF IInv, Memory

\* A stored batch is counted as persisted, unless the deadline counted it as dropped.
LEMMA PersistSucceedsStep == IInv /\ PersistSucceeds => IInv'
  <1> SUFFICES ASSUME IInv, PersistSucceeds PROVE IInv'
    OBVIOUS
  <1>1. /\ pc = "PERSIST" /\ Continue /\ SinkStores(Range(batch))
        /\ UNCHANGED <<offered, closeVars, dropped, degraded>>
        /\ persisted' = Counted(persisted, Range(batch)) \/ (abandoned /\ persisted' = persisted)
    BY DEF PersistSucceeds
  <1>2. Ledger'
    BY <1>1, BatchEnds, PersistLedger
  <1> QED BY <1>1, <1>2, BatchEnds DEF IInv

\* A failed batch is dropped, kept for a retry, or kept for isolation.
LEMMA PersistFailsStep == IInv /\ (PersistBreaks \/ PersistRefused) => IInv'
  <1> SUFFICES ASSUME IInv, PersistBreaks \/ PersistRefused PROVE IInv'
    OBVIOUS
  <1>1. /\ pc = "PERSIST" /\ degraded' = TRUE
        /\ SinkBreaks(Range(batch)) \/ SinkRefuses(Range(batch))
        /\ UNCHANGED <<offered, closeVars, persisted>>
    BY DEF PersistBreaks, PersistRefused, RecordDrop
  <1>2. CASE Continue /\ (dropped' = Counted(dropped, Range(batch)) \/ (forcedStop /\ dropped' = dropped))
    <2>1. Ledger'
      BY <1>1, <1>2, BatchEnds, DropLedger
    <2> QED BY <1>1, <1>2, <2>1, BatchEnds DEF IInv
  <1>3. CASE /\ ~forcedStop /\ writerState' \in WriterStates
             /\ UNCHANGED <<queue, batch, attempt, abandoned, dropped>>
             /\ \/ pc' = "BACKOFF" /\ rest' = rest /\ attempt < RetryAttempts
                \/ pc' = "ISOLATE" /\ rest' = batch
    BY <1>1, <1>3, BatchStays
  <1> QED BY <1>2, <1>3 DEF PersistBreaks, PersistRefused, RecordDrop, WriterStates

\* Isolation decides one entry of the batch at a time.
LEMMA IsolatedStep == IInv /\ (IsolatedSucceeds \/ IsolatedFails) => IInv'
  <1> SUFFICES ASSUME IInv, IsolatedSucceeds \/ IsolatedFails PROVE IInv'
    OBVIOUS
  <1>1. /\ pc = "ISOLATE" /\ NextIsolated
        /\ UNCHANGED <<offered, closeVars>> /\ UNCHANGED forcedStop
    BY DEF IsolatedSucceeds, IsolatedFails, closeVars
  <1>2. /\ Memory' /\ Head(rest) \in Undecided
        /\ Pending' = Pending \ {Head(rest)}
        /\ forcedStop => Range(batch') \subseteq Range(batch)
    BY <1>1, NextIsolatedMemory DEF IInv
  <1>3. {Head(rest)} \in SUBSET Undecided /\ {Head(rest)} \in SUBSET Entries
    BY <1>2, RangeInSet DEF IInv, Memory, MemoryType, Undecided
  <1>4. CASE IsolatedSucceeds
    <2>1. Ledger'
      BY <1>1, <1>2, <1>3, <1>4, PersistLedger DEF IsolatedSucceeds
    <2> QED BY <1>2, <2>1 DEF IInv
  <1>5. CASE IsolatedFails
    <2>1. Ledger'
      BY <1>1, <1>2, <1>3, <1>5, DropLedger DEF IsolatedFails, RecordDrop
    <2> QED BY <1>2, <2>1 DEF IInv
  <1> QED BY <1>4, <1>5

\* close() gives up: everything in memory is counted as dropped.
LEMMA FlushTimesOutStep == IInv /\ FlushTimesOut => IInv'
  <1> SUFFICES ASSUME IInv, FlushTimesOut PROVE IInv'
    OBVIOUS
  <1> DEFINE E == Range(queue) \cup Range(batch)
  <1>1. /\ forcedStop' = TRUE /\ degraded' = TRUE /\ queue' = <<>>
        /\ dropped' = Counted(dropped, E) /\ closing' = "TIMED_OUT" /\ closing = "FLUSHING"
        /\ abandoned' = (batch # <<>>)
        /\ UNCHANGED <<accepting, offered, pc, batch, rest, attempt, writerState, persisted, stored>>
    BY DEF FlushTimesOut, RecordDrop
  <1>2. MemoryType /\ Shape /\ MemoryBound /\ LedgerType /\ ~accepting
    BY DEF IInv, Memory, Ledger, Shape, FlushTimesOut
  <1>3. Range(queue') = {} /\ IsInjective(queue') /\ queue' \in Seq(Entries) /\ Len(queue') = 0
    BY <1>1 DEF Range, IsInjective
  <1>4. MemoryType'
    BY <1>1, <1>2, <1>3 DEF MemoryType
  <1>5. Shape'
    BY <1>1, <1>2, <1>3 DEF Shape
  <1>6. MemoryBound'
    BY <1>1, <1>2, <1>3, BoundsAssumption DEF MemoryBound
  <1>7. /\ dropped \in [Snapshots -> Nat] /\ dropped' \in [Snapshots -> Nat]
        /\ \A s \in Snapshots : dropped'[s] = IF s \in E THEN dropped[s] + 1 ELSE dropped[s]
    BY <1>1, <1>2, CountedFacts DEF LedgerType
  <1>8. LedgerType'
    BY <1>1, <1>2, <1>7 DEF LedgerType
  <1>9. \A s \in Snapshots : (s \in E => dropped'[s] >= 1) /\ (dropped[s] >= 1 => dropped'[s] >= 1)
    BY <1>7
  <1>10. Undecided' = Undecided /\ Undecided \subseteq Range(batch)
    BY <1>1, <1>2 DEF Undecided, Shape
  <1>11. ExactAccounting' /\ AbandonedIsCounted' /\ StoredOnce'
    BY <1>1, <1>9 DEF IInv, Ledger, ExactAccounting, AbandonedIsCounted, StoredOnce
  <1>12. LossIsVisible'
    <2> SUFFICES ASSUME NEW e \in offered \ Pending', stored[e] = 0, e \in Snapshots
                 PROVE  dropped'[e] >= 1
      BY <1>1 DEF LossIsVisible
    <2>1. CASE e \in Pending
      BY <1>9, <1>10, <2>1 DEF Pending
    <2>2. CASE e \notin Pending
      BY <1>9, <2>2 DEF IInv, Ledger, LossIsVisible
    <2> QED BY <2>1, <2>2
  <1> QED BY <1>4, <1>5, <1>6, <1>8, <1>11, <1>12 DEF IInv, Memory, Ledger

\* Steps that touch neither the queue nor the ledger.
LEMMA QuietStep ==
    ASSUME IInv, BackoffEnds \/ Close \/ FlushCompletes \/ UNCHANGED vars
    PROVE  IInv'
  <1>1. MemoryType /\ Shape /\ MemoryBound
    BY DEF IInv, Memory
  <1>2. /\ UNCHANGED <<queue, offered, batch, rest, abandoned, forcedStop, ledgerVars>>
        /\ pc' = pc \/ (pc = "BACKOFF" /\ pc' = "PERSIST")
        /\ accepting' = accepting \/ accepting' = FALSE
    BY DEF BackoffEnds, Close, FlushCompletes, vars, writerVars, closeVars
  <1>3. MemoryType'
    <2>1. CASE BackoffEnds
      <3>1. attempt + 1 \in 0 .. RetryAttempts
        BY <1>1, <2>1, BoundsAssumption DEF MemoryType, Shape, BackoffEnds
      <3> QED BY <1>1, <2>1, <3>1 DEF MemoryType, WriterStates, BackoffEnds, closeVars
    <2>2. CASE Close
      BY <1>1, <2>2 DEF MemoryType, WriterStates, Close
    <2>3. CASE FlushCompletes \/ UNCHANGED vars
      BY <1>1, <2>3 DEF MemoryType, FlushCompletes, vars, writerVars, closeVars
    <2> QED BY <2>1, <2>2, <2>3
  <1>4. Shape'
    <2>1. CASE BackoffEnds
      BY <1>1, <2>1 DEF Shape, BackoffEnds, closeVars
    <2>2. CASE Close \/ FlushCompletes \/ UNCHANGED vars
      BY <1>1, <2>2 DEF Shape, Close, FlushCompletes, vars, writerVars, closeVars
    <2> QED BY <2>1, <2>2
  <1>5. MemoryBound'
    BY <1>1, <1>2 DEF MemoryBound
  <1>6. Pending' = Pending
    BY <1>2 DEF Pending, Undecided
  <1>7. Ledger'
    BY <1>2, <1>6 DEF IInv, Ledger, LedgerType, ExactAccounting, AbandonedIsCounted,
       LossIsVisible, StoredOnce, ledgerVars
  <1> QED BY <1>3, <1>4, <1>5, <1>7 DEF IInv, Memory

\* Every step of the pipeline preserves the invariant.
LEMMA NextInv == IInv /\ [Next]_vars => IInv'
  BY OfferStep, WakeStep, DelayStep, PersistSucceedsStep, PersistFailsStep, IsolatedStep,
     FlushTimesOutStep, QuietStep DEF Next, Ended

\* The inductive invariant: what is in memory is in order, and the counters and the
\* database agree on everything that is not.
THEOREM Invariance == Spec => []IInv
  <1>1. Init => IInv
    BY InitInv
  <1>2. IInv /\ [Next]_vars => IInv'
    BY NextInv
  <1> QED BY <1>1, <1>2, PTL DEF Spec

-----------------------------------------------------------------------------
(* The theorems. *)

\* Type correctness of the pipeline (audit-pipeline.ts).
THEOREM TypeCorrect == Spec => []TypeOK
  <1>1. IInv => TypeOK
    BY DEF IInv, Memory, Ledger, TypeOK
  <1> QED BY <1>1, Invariance, PTL

\* The queue and the batch in flight never hold more entries than configured
\* (BoundedAuditQueue.offer and drain).
THEOREM MemoryIsBounded == Spec => []MemoryBound
  <1>1. IInv => MemoryBound
    BY DEF IInv, Memory
  <1> QED BY <1>1, Invariance, PTL

\* Until close() gives up, persistedSnapshots + droppedSnapshots counts every
\* snapshot that left memory, once (offerSnapshot, persistWithPolicy,
\* isolatePoisonEntries).
THEOREM AccountingIsExact == Spec => []ExactAccounting
  <1>1. IInv => ExactAccounting
    BY DEF IInv, Ledger
  <1> QED BY <1>1, Invariance, PTL

\* An entry that is neither in memory nor in the database has degraded the health
\* status, and a snapshot is in droppedSnapshots: also after a forced stop.
THEOREM NoSilentLoss == Spec => []LossIsVisible
  <1>1. IInv => LossIsVisible
    BY DEF IInv, Ledger
  <1> QED BY <1>1, Invariance, PTL

\* A flush that reports success left nothing undecided (close, runWriter).
THEOREM FlushIsComplete == Spec => []FlushedMeansDecided
  <1>1. IInv => FlushedMeansDecided
    <2> SUFFICES ASSUME IInv, closing = "FLUSHED" PROVE Pending = {} /\ ~forcedStop
      BY DEF FlushedMeansDecided
    <2>1. queue = <<>> /\ batch = <<>> /\ pc = "STOPPED" /\ ~forcedStop
      BY DEF IInv, Memory, Shape
    <2> QED BY <2>1 DEF Pending, Undecided, Range
  <1> QED BY <1>1, Invariance, PTL

\* However often a batch is retried or isolated, a snapshot has at most one row, and
\* one that is counted as persisted has it (persistSnapshots, unique public id).
THEOREM SnapshotsStoredOnce == Spec => []StoredOnce
  <1>1. IInv => StoredOnce
    BY DEF IInv, Ledger
  <1> QED BY <1>1, Invariance, PTL

-----------------------------------------------------------------------------
(***************************************************************************)
(* Shutdown.  Every step of the shutdown is a step or a stutter of the     *)
(* pipeline, so IInv is kept; what is added relates the requests, the      *)
(* stage of close() and the snapshots that were offered.                   *)
(***************************************************************************)

Before == {"SERVING", "DRAINING", "CONNECTIONS"}

ShutdownType ==
    /\ request \in [Snapshots -> RequestPhases]
    /\ kept \in [Snapshots -> Leftovers]
    /\ stage \in Stages
    /\ awaited \subseteq Snapshots
    /\ drained \in BOOLEAN

\* A handler offers its snapshot before it is done; close() finds every request it
\* awaits done when it reports DRAINED, and none of them starts again.
OffersPrecedeEnds ==
    /\ \A s \in Snapshots : request[s] = "DONE" => s \in offered
    /\ drained => stage # "SERVING" /\ \A s \in awaited : request[s] = "DONE"

StagesAgree == closing = "OPEN" <=> stage \in Before

SInv == IInv /\ ShutdownType /\ OffersPrecedeEnds /\ StagesAgree

-----------------------------------------------------------------------------
\* No step takes a snapshot back.
LEMMA PipelineFacts == ASSUME [Next]_vars PROVE offered \subseteq offered'
  <1> USE DEF vars, writerVars, ledgerVars, closeVars
  <1>1. CASE UNCHANGED vars
    BY <1>1
  <1>2. ASSUME NEW e \in Entries, Offer(e) PROVE offered \subseteq offered'
    BY <1>2 DEF Offer
  <1>3. CASE Wake \/ DelayEnds \/ BackoffEnds
    BY <1>3 DEF Wake, DelayEnds, BackoffEnds
  <1>4. CASE PersistSucceeds \/ PersistBreaks \/ PersistRefused \/ IsolatedSucceeds \/ IsolatedFails
    BY <1>4 DEF PersistSucceeds, PersistBreaks, PersistRefused, IsolatedSucceeds, IsolatedFails
  <1>5. CASE Close \/ FlushCompletes \/ FlushTimesOut \/ Ended
    BY <1>5 DEF Close, FlushCompletes, FlushTimesOut, Ended
  <1> QED BY <1>1, <1>2, <1>3, <1>4, <1>5 DEF Next

\* What the pipeline does on its own leaves OPEN alone.
LEMMA PipelineStepFacts ==
    ASSUME PipelineStep
    PROVE  [Next]_vars /\ (closing = "OPEN" <=> closing' = "OPEN")
  <1> USE DEF vars, writerVars, ledgerVars, closeVars
  <1>1. Next
    BY DEF PipelineStep, Timers, SinkAnswers, Next
  <1>2. CASE Timers
    BY <1>1, <1>2 DEF Timers, Wake, DelayEnds, BackoffEnds
  <1>3. CASE SinkAnswers
    BY <1>1, <1>3 DEF SinkAnswers, PersistSucceeds, PersistBreaks, PersistRefused,
                      IsolatedSucceeds, IsolatedFails
  <1>4. CASE FlushCompletes \/ FlushTimesOut
    BY <1>1, <1>4 DEF FlushCompletes, FlushTimesOut
  <1> QED BY <1>2, <1>3, <1>4 DEF PipelineStep

-----------------------------------------------------------------------------
LEMMA ShutdownInitInv == ShutdownInit => SInv
  <1> SUFFICES ASSUME ShutdownInit PROVE SInv
    OBVIOUS
  <1>1. IInv
    BY InitInv DEF ShutdownInit
  <1>2. ShutdownType
    BY DEF ShutdownInit, ShutdownType, RequestPhases, Stages, Leftovers
  <1>3. OffersPrecedeEnds /\ StagesAgree
    BY DEF ShutdownInit, Init, OffersPrecedeEnds, StagesAgree, Before
  <1> QED BY <1>1, <1>2, <1>3 DEF SInv

\* A request that moves without an end of its handler leaves the pipeline alone.
LEMMA RequestStep ==
    ASSUME SInv, NEW s \in Snapshots, NEW k \in Snapshots,
           Send(s) \/ Receive(s) \/ GiveUp(s) \/ Respond(s) \/ SendNext(s, k)
    PROVE  SInv'
  <1> USE DEF Send, Receive, GiveUp, Respond, SendNext, Moves, Becomes
  <1>1. UNCHANGED vars /\ UNCHANGED <<stage, awaited, drained>>
    OBVIOUS
  <1>2. PICK to \in {"SENDING", "ACTIVE", "GONE", "FINALIZING"} :
          request' = [request EXCEPT ![s] = to] /\ request[s] # "DONE"
    OBVIOUS
  <1>a. kept' \in [Snapshots -> Leftovers]
    BY DEF SInv, ShutdownType, Leftovers
  <1>3. IInv'
    BY <1>1, NextInv DEF SInv
  <1>4. UNCHANGED <<offered, closing>>
    BY <1>1 DEF vars, closeVars
  <1>5. ShutdownType'
    BY <1>1, <1>2, <1>a DEF SInv, ShutdownType, RequestPhases
  <1>6. OffersPrecedeEnds' /\ StagesAgree'
    BY <1>1, <1>2, <1>4 DEF SInv, ShutdownType, OffersPrecedeEnds, StagesAgree
  <1> QED BY <1>3, <1>5, <1>6 DEF SInv

\* A connection that ends changes nothing else.
LEMMA KeptEndsStep ==
    ASSUME SInv, NEW s \in Snapshots, KeepAliveExpires(s) \/ Leave(s) PROVE SInv'
  <1>1. /\ kept' = [kept EXCEPT ![s] = "NONE"]
        /\ UNCHANGED vars /\ UNCHANGED <<request, stage, awaited, drained>>
    BY DEF KeepAliveExpires, Leave, KeptEnds
  <1>2. IInv' /\ UNCHANGED <<offered, closing>>
    BY <1>1, NextInv DEF SInv, vars, closeVars
  <1>3. ShutdownType' /\ OffersPrecedeEnds' /\ StagesAgree'
    BY <1>1, <1>2 DEF SInv, ShutdownType, OffersPrecedeEnds, StagesAgree, Leftovers
  <1> QED BY <1>2, <1>3 DEF SInv

\* The end of a handler offers its snapshot.
LEMMA FinishStep == ASSUME SInv, NEW s \in Snapshots, Finish(s) PROVE SInv'
  <1>1. Next
    BY EntriesAssumption DEF Finish, Next
  <1>2. IInv'
    BY <1>1, NextInv DEF SInv
  <1>3. /\ request' = [request EXCEPT ![s] = "DONE"]
        /\ UNCHANGED <<kept, stage, awaited, drained>>
        /\ offered' = offered \cup {s} /\ UNCHANGED closing
    BY DEF Finish, Moves, Becomes, Offer, closeVars
  <1>4. ShutdownType'
    BY <1>3 DEF SInv, ShutdownType, RequestPhases
  <1>5. OffersPrecedeEnds' /\ StagesAgree'
    BY <1>3 DEF SInv, ShutdownType, OffersPrecedeEnds, StagesAgree
  <1> QED BY <1>2, <1>4, <1>5 DEF SInv

\* The steps of close() around the flush, and the second the audit pool gets.
LEMMA CloseInv == ASSUME SInv, Signal \/ CloseStep \/ StoreCloses PROVE SInv'
  <1> USE DEF SInv
  <1>1. CASE ServerCloses
    <2>1. Close /\ Next /\ stage' = "FLUSHING" /\ UNCHANGED <<request, kept, awaited, drained>>
      BY <1>1 DEF ServerCloses, Next
    <2>2. IInv'
      BY <2>1, NextInv
    <2>3. closing' = "FLUSHING" /\ UNCHANGED offered
      BY <2>1 DEF Close
    <2>4. ShutdownType' /\ OffersPrecedeEnds' /\ StagesAgree'
      BY <2>1, <2>3 DEF ShutdownType, OffersPrecedeEnds, StagesAgree, Stages, Before
    <2> QED BY <2>2, <2>4
  <1>2. ASSUME ~ServerCloses PROVE SInv'
    <2>1. UNCHANGED vars
      BY <1>2 DEF Signal, CloseStep, StoreCloses, Settled, GraceExpires, FlushReturns,
                  AuditPoolCloses, Advance
    <2>2. IInv' /\ UNCHANGED <<offered, closing>>
      BY <2>1, NextInv DEF vars, closeVars
    <2>3. CASE Signal
      <3>1. kept' \in [Snapshots -> Leftovers]
        BY <2>3 DEF Signal, ShutdownType, Leftovers
      <3> QED BY <2>2, <2>3, <3>1
              DEF Signal, Handled, ShutdownType, OffersPrecedeEnds, StagesAgree, Stages, Before
    <2>4. CASE Settled
      BY <2>2, <2>4 DEF Settled, ShutdownType, OffersPrecedeEnds, StagesAgree, Stages, Before
    <2>5. CASE GraceExpires
      <3>1. /\ stage = "DRAINING" /\ stage' = "CONNECTIONS" /\ UNCHANGED <<awaited, drained>>
            /\ request' \in [Snapshots -> RequestPhases]
            /\ kept' \in [Snapshots -> Leftovers]
            /\ \A s \in Snapshots : request'[s] = "DONE" <=> request[s] = "DONE"
        BY <2>5 DEF GraceExpires, ShutdownType, RequestPhases, Leftovers
      <3> QED BY <2>2, <3>1 DEF ShutdownType, OffersPrecedeEnds, StagesAgree, Stages, Before
    <2>6. CASE FlushReturns \/ AuditPoolCloses \/ StoreCloses
      BY <2>2, <2>6 DEF FlushReturns, AuditPoolCloses, StoreCloses, Advance,
                        ShutdownType, OffersPrecedeEnds, StagesAgree, Stages, Before
    <2> QED BY <1>2, <2>3, <2>4, <2>5, <2>6 DEF CloseStep
  <1> QED BY <1>1, <1>2

\* The pipeline writes, retries and ends its flush by itself.
LEMMA PipelineInv == ASSUME SInv, PipelineStep, UNCHANGED shutdownVars PROVE SInv'
  <1>1. IInv' /\ offered \subseteq offered' /\ (closing = "OPEN" <=> closing' = "OPEN")
    BY PipelineStepFacts, PipelineFacts, NextInv DEF SInv
  <1>2. UNCHANGED <<request, kept, stage, awaited, drained>>
    BY DEF shutdownVars
  <1>3. ShutdownType' /\ OffersPrecedeEnds' /\ StagesAgree'
    BY <1>1, <1>2 DEF SInv, ShutdownType, OffersPrecedeEnds, StagesAgree
  <1> QED BY <1>1, <1>3 DEF SInv

\* Nothing else happens, at the end as before.
LEMMA ShutdownStutter == ASSUME SInv, UNCHANGED <<vars, shutdownVars>> PROVE SInv'
  <1>1. IInv' /\ UNCHANGED <<offered, closing>>
    BY NextInv DEF SInv, vars, closeVars
  <1>2. ShutdownType' /\ OffersPrecedeEnds' /\ StagesAgree'
    BY <1>1 DEF shutdownVars, SInv, ShutdownType, OffersPrecedeEnds, StagesAgree
  <1> QED BY <1>1, <1>2 DEF SInv

LEMMA ShutdownNextInv == SInv /\ [ShutdownNext]_<<vars, shutdownVars>> => SInv'
  <1> SUFFICES ASSUME SInv, [ShutdownNext]_<<vars, shutdownVars>> PROVE SInv'
    OBVIOUS
  <1>1. CASE UNCHANGED <<vars, shutdownVars>> \/ Over
    BY <1>1, ShutdownStutter DEF Over
  <1>2. ASSUME NEW s \in Snapshots, Send(s) \/ Receive(s) \/ GiveUp(s) \/ Respond(s) \/ Finish(s)
        PROVE SInv'
    BY <1>2, RequestStep, FinishStep
  <1>5. ASSUME NEW s \in Snapshots,
               KeepAliveExpires(s) \/ Leave(s) \/ \E k \in Snapshots : SendNext(s, k)
        PROVE SInv'
    BY <1>5, RequestStep, KeptEndsStep
  <1>3. CASE Signal \/ CloseStep \/ StoreCloses
    BY <1>3, CloseInv
  <1>4. CASE PipelineStep /\ UNCHANGED shutdownVars
    BY <1>4, PipelineInv
  <1> QED BY <1>1, <1>2, <1>3, <1>4, <1>5 DEF ShutdownNext

LEMMA ShutdownInvariance == ShutdownSpec => []SInv
  BY ShutdownInitInv, ShutdownNextInv, PTL DEF ShutdownSpec

-----------------------------------------------------------------------------
\* The variables of the shutdown and of the pipeline stay in their types, and the
\* two close() agree on how far they are.
THEOREM ShutdownTypeCorrect == ShutdownSpec => []ShutdownTypeOK
  <1>1. SInv => ShutdownTypeOK
    BY DEF SInv, IInv, Memory, Ledger, TypeOK, ShutdownType, StagesAgree, Before, ShutdownTypeOK
  <1> QED BY <1>1, ShutdownInvariance, PTL

\* A shutdown that reports DRAINED lost no audit silently: whoever was being handled
\* offered its snapshot in time, and a complete flush decided each one visibly.
THEOREM DrainedIsAudited == ShutdownSpec => []AwaitedAreAudited
  <1>1. ASSUME SInv, drained, closing # "OPEN" PROVE awaited \subseteq offered
    BY <1>1 DEF SInv, ShutdownType, OffersPrecedeEnds
  <1>2. ASSUME SInv, drained, closing = "FLUSHED", NEW s \in awaited
        PROVE  stored[s] = 1 \/ dropped[s] >= 1
    <2>1. s \in offered /\ s \in Snapshots /\ s \in Entries
      BY <1>1, <1>2, EntriesAssumption DEF SInv, ShutdownType
    <2>2. Pending = {} /\ LossIsVisible /\ StoredOnce
      <3>1. queue = <<>> /\ batch = <<>> /\ pc = "STOPPED"
        BY <1>2 DEF SInv, IInv, Memory, Shape
      <3> QED BY <1>2, <3>1 DEF Pending, Undecided, Range, SInv, IInv, Ledger
    <2>3. stored[s] \in Nat /\ stored[s] <= 1
      BY <1>2, <2>1, <2>2 DEF SInv, IInv, Ledger, LedgerType, StoredOnce
    <2>4. stored[s] = 0 => dropped[s] >= 1
      BY <2>1, <2>2 DEF LossIsVisible
    <2> QED BY <2>3, <2>4
  <1>3. SInv => AwaitedAreAudited
    BY <1>1, <1>2 DEF AwaitedAreAudited
  <1> QED BY <1>3, ShutdownInvariance, PTL
=============================================================================
