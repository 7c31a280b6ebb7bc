--------------------------- MODULE AuditPipeline ---------------------------
(***************************************************************************)
(* The asynchronous audit pipeline of the control plane: producers offer   *)
(* audit entries to a bounded in-memory queue, one background writer       *)
(* drains it in batches into MySQL, and close() flushes with a deadline.   *)
(*                                                                         *)
(* Source: packages/sfoa-control-plane/src/audit-pipeline.ts and the batch *)
(* sink of mysql-audit-batch-sink.ts.  The runtime is one JavaScript event *)
(* loop, so one action is the code between two awaits.                     *)
(*                                                                         *)
(* An entry is a member of Entries, offered at most once.  The code's      *)
(* numeric counters persistedSnapshots and droppedSnapshots are kept per   *)
(* snapshot (how often it was added to the counter); the code's counter is *)
(* the sum.  Timestamps and log texts are left out.                        *)
(***************************************************************************)
EXTENDS Integers, Sequences, FiniteSets, Functions

CONSTANTS
    Entries,        \* every entry ever offered
    Snapshots,      \* the entries of kind SNAPSHOT; the others are LEGACY_RUNTIME
    Poison,         \* the entries the sink can never store
    Capacity,       \* capacity of the queue
    BatchSize,      \* most entries drained at once
    RetryAttempts,  \* retries of a batch after its first attempt
    FlushDelays     \* whether flushIntervalMs > 0

ASSUME EntriesAssumption == Snapshots \subseteq Entries /\ Poison \subseteq Entries
ASSUME BoundsAssumption ==
    /\ Capacity \in Nat \ {0}
    /\ BatchSize \in Nat \ {0}
    /\ RetryAttempts \in Nat
    /\ FlushDelays \in BOOLEAN

VARIABLES
    queue,        \* items of the bounded queue
    accepting,    \* the queue still takes offers
    pc,           \* the await the writer is suspended at
    batch,        \* inFlightBatch
    rest,         \* entries of the batch still to be isolated
    attempt,      \* retries already made for the batch
    abandoned,    \* abandonedInFlight
    forcedStop,   \* close() gave up waiting
    closing,      \* how far close() is
    writerState,  \* the state reported by getHealth()
    offered,      \* entries offered so far
    persisted,    \* snapshot -> times counted in persistedSnapshots
    dropped,      \* snapshot -> times counted in droppedSnapshots
    degraded,     \* writerFailureCount > 0
    stored        \* entry -> rows it has in the database

writerVars == <<pc, batch, rest, attempt, abandoned, writerState>>
ledgerVars == <<persisted, dropped, degraded, stored>>
closeVars  == <<accepting, forcedStop, closing>>
vars == <<queue, offered, writerVars, ledgerVars, closeVars>>

Least(m, n) == IF m <= n THEN m ELSE n

(***************************************************************************)
(* Accounting: countSnapshots counts only entries of kind SNAPSHOT.        *)
(***************************************************************************)
Counted(counter, entries) ==
    [s \in Snapshots |-> IF s \in entries THEN counter[s] + 1 ELSE counter[s]]

RecordDrop(entries) == dropped' = Counted(dropped, entries) /\ degraded' = TRUE

(***************************************************************************)
(* The sink: one transaction per call, so a call stores all its entries or *)
(* none.  Public audit ids are unique in the database, so a snapshot that  *)
(* is already stored is refused (ER_DUP_ENTRY, not retryable); a legacy    *)
(* entry gets a fresh id on each append.  A poison entry never passes the  *)
(* shape checks.                                                           *)
(***************************************************************************)
\* Faulty variant: no unique key on the public audit id.
RefusesPoisonOnly(entries) == \E e \in entries : e \in Poison

Refuses(entries) == \E e \in entries : e \in Poison \/ (e \in Snapshots /\ stored[e] > 0)

SinkStores(entries) ==
    /\ ~Refuses(entries)
    /\ stored' = [e \in Entries |-> IF e \in entries THEN stored[e] + 1 ELSE stored[e]]

\* the connection breaks before the commit (nothing stored), or after it: the
\* rows are there and the caller is told of a retryable failure
SinkBreaks(entries) == UNCHANGED stored \/ SinkStores(entries)

SinkRefuses(entries) == Refuses(entries) /\ UNCHANGED stored

Init ==
    /\ queue = <<>> /\ accepting = TRUE
    /\ pc = "WAIT" /\ writerState = "IDLE"
    /\ batch = <<>> /\ rest = <<>> /\ attempt = 0 /\ abandoned = FALSE
    /\ forcedStop = FALSE /\ closing = "OPEN"
    /\ offered = {}
    /\ persisted = [s \in Snapshots |-> 0]
    /\ dropped = [s \in Snapshots |-> 0]
    /\ degraded = FALSE
    /\ stored = [e \in Entries |-> 0]

-----------------------------------------------------------------------------
(* Producers *)

\* offerSnapshot and offerLegacy: never wait; a refused snapshot is counted as
\* dropped, a refused legacy entry only as a failure
Offer(e) ==
    /\ e \notin offered
    /\ offered' = offered \cup {e}
    /\ IF accepting /\ Len(queue) < Capacity
          THEN queue' = Append(queue, e) /\ UNCHANGED <<dropped, degraded>>
          ELSE RecordDrop({e}) /\ UNCHANGED queue
    /\ UNCHANGED <<writerVars, closeVars, persisted, stored>>

-----------------------------------------------------------------------------
(* The writer *)

\* drain the next batch and call the sink with it
Drain ==
    LET n == Least(BatchSize, Len(queue)) IN
    /\ batch' = SubSeq(queue, 1, n)
    /\ queue' = SubSeq(queue, n + 1, Len(queue))
    /\ abandoned' = FALSE
    /\ pc' = "PERSIST" /\ writerState' = "WRITING"

Halt(place, state) ==
    /\ pc' = place /\ writerState' = state
    /\ batch' = <<>>
    /\ UNCHANGED <<queue, abandoned>>

\* Faulty variant: the loop ends as soon as the queue takes no more offers.
ContinueWhileAccepting ==
    /\ attempt' = 0 /\ rest' = <<>>
    /\ \/ (forcedStop \/ ~accepting) /\ Halt("STOPPED", "STOPPED")
       \/ ~forcedStop /\ accepting /\ queue = <<>> /\ Halt("WAIT", "IDLE")
       \/ ~forcedStop /\ accepting /\ queue # <<>> /\ Drain

\* runWriter from its loop test to its next await
Continue ==
    /\ attempt' = 0 /\ rest' = <<>>
    /\ \/ /\ forcedStop \/ (~accepting /\ queue = <<>>)
          /\ Halt("STOPPED", "STOPPED")
       \/ /\ ~forcedStop /\ accepting /\ queue = <<>>
          /\ Halt("WAIT", "IDLE")
       \/ /\ ~forcedStop /\ queue # <<>>
          /\ IF Len(queue) < BatchSize /\ accepting /\ FlushDelays
                THEN Halt("DELAY", writerState)
                ELSE Drain

\* waitForWork resolves: an offer or close() woke it, or its timer fired
Wake ==
    /\ pc = "WAIT"
    /\ Continue
    /\ UNCHANGED <<offered, closeVars, ledgerVars>>

\* the flush interval is over; what close() dropped meanwhile is not drained
DelayEnds ==
    /\ pc = "DELAY"
    /\ IF queue = <<>> THEN Continue
                       ELSE Drain /\ UNCHANGED <<attempt, rest>>
    /\ UNCHANGED <<offered, closeVars, ledgerVars>>

PersistSucceeds ==
    /\ pc = "PERSIST"
    /\ SinkStores(Range(batch))
    /\ persisted' = IF abandoned THEN persisted ELSE Counted(persisted, Range(batch))
    /\ Continue
    /\ UNCHANGED <<offered, closeVars, dropped, degraded>>

\* Faulty variant: attempt > retryAttempts, one retry more than configured.
PersistBreaksOnceMore ==
    /\ pc = "PERSIST"
    /\ SinkBreaks(Range(batch))
    /\ \/ forcedStop /\ degraded' = TRUE /\ UNCHANGED dropped /\ Continue
       \/ ~forcedStop /\ attempt > RetryAttempts /\ RecordDrop(Range(batch)) /\ Continue
       \/ /\ ~forcedStop /\ attempt <= RetryAttempts
          /\ pc' = "BACKOFF" /\ writerState' = "BACKOFF"
          /\ degraded' = TRUE
          /\ UNCHANGED <<queue, batch, rest, attempt, abandoned, dropped>>
    /\ UNCHANGED <<offered, closeVars, persisted>>

\* a retryable failure: back off, or drop the batch after the last attempt
PersistBreaks ==
    /\ pc = "PERSIST"
    /\ SinkBreaks(Range(batch))
    /\ \/ /\ forcedStop
          /\ degraded' = TRUE /\ UNCHANGED dropped
          /\ Continue
       \/ /\ ~forcedStop /\ attempt >= RetryAttempts
          /\ RecordDrop(Range(batch))
          /\ Continue
       \/ /\ ~forcedStop /\ attempt < RetryAttempts
          /\ pc' = "BACKOFF" /\ writerState' = "BACKOFF"
          /\ degraded' = TRUE
          /\ UNCHANGED <<queue, batch, rest, attempt, abandoned, dropped>>
    /\ UNCHANGED <<offered, closeVars, persisted>>

\* a non-retryable failure: drop a batch of one, isolate the entries of a larger one
PersistRefused ==
    /\ pc = "PERSIST"
    /\ SinkRefuses(Range(batch))
    /\ \/ /\ forcedStop
          /\ degraded' = TRUE /\ UNCHANGED dropped
          /\ Continue
       \/ /\ ~forcedStop /\ Len(batch) = 1
          /\ RecordDrop(Range(batch))
          /\ Continue
       \/ /\ ~forcedStop /\ Len(batch) > 1
          /\ pc' = "ISOLATE" /\ rest' = batch /\ writerState' = "WRITING"
          /\ degraded' = TRUE
          /\ UNCHANGED <<queue, batch, attempt, abandoned, dropped>>
    /\ UNCHANGED <<offered, closeVars, persisted>>

\* Faulty variant: the retry is not counted.
BackoffForgetsAttempt ==
    /\ pc = "BACKOFF"
    /\ pc' = "PERSIST" /\ writerState' = "WRITING"
    /\ UNCHANGED <<queue, offered, batch, rest, attempt, abandoned, closeVars, ledgerVars>>

BackoffEnds ==
    /\ pc = "BACKOFF"
    /\ pc' = "PERSIST" /\ writerState' = "WRITING"
    /\ attempt' = attempt + 1
    /\ UNCHANGED <<queue, offered, batch, rest, abandoned, closeVars, ledgerVars>>

\* the next entry, or the loop test after the last one
NextIsolated ==
    IF Len(rest) = 1
    THEN Continue
    ELSE /\ rest' = Tail(rest)
         /\ writerState' = "WRITING"
         /\ UNCHANGED <<pc, queue, batch, attempt, abandoned>>

IsolatedSucceeds ==
    /\ pc = "ISOLATE"
    /\ SinkStores({Head(rest)})
    /\ persisted' = Counted(persisted, {Head(rest)})
    /\ NextIsolated
    /\ UNCHANGED <<offered, closeVars, dropped, degraded>>

\* Faulty variant: countSnapshots(batch) instead of countSnapshots([entry]).
IsolatedFailsForAll ==
    /\ pc = "ISOLATE"
    /\ SinkBreaks({Head(rest)}) \/ SinkRefuses({Head(rest)})
    /\ RecordDrop(Range(batch))
    /\ NextIsolated
    /\ UNCHANGED <<offered, closeVars, persisted>>

\* any failure rejects an isolated entry, a retryable one too
IsolatedFails ==
    /\ pc = "ISOLATE"
    /\ SinkBreaks({Head(rest)}) \/ SinkRefuses({Head(rest)})
    /\ RecordDrop({Head(rest)})
    /\ NextIsolated
    /\ UNCHANGED <<offered, closeVars, persisted>>

-----------------------------------------------------------------------------
(* close() *)

Close ==
    /\ closing = "OPEN"
    /\ closing' = "FLUSHING" /\ accepting' = FALSE
    /\ writerState' = "STOPPING"
    /\ UNCHANGED <<queue, offered, pc, batch, rest, attempt, abandoned, forcedStop, ledgerVars>>

FlushCompletes ==
    /\ closing = "FLUSHING" /\ pc = "STOPPED"
    /\ closing' = "FLUSHED"
    /\ UNCHANGED <<queue, offered, writerVars, ledgerVars, accepting, forcedStop>>

\* Faulty variant: the batch in flight is not counted.
FlushTimesOutQueueOnly ==
    /\ closing = "FLUSHING" /\ pc # "STOPPED"
    /\ closing' = "TIMED_OUT" /\ forcedStop' = TRUE
    /\ RecordDrop(Range(queue))
    /\ queue' = <<>>
    /\ abandoned' = (batch # <<>>)
    /\ UNCHANGED <<accepting, offered, pc, batch, rest, attempt, writerState, persisted, stored>>

\* the deadline passes first: what is queued and in flight is counted as dropped
FlushTimesOut ==
    /\ closing = "FLUSHING" /\ pc # "STOPPED"
    /\ closing' = "TIMED_OUT" /\ forcedStop' = TRUE
    /\ RecordDrop(Range(queue) \cup Range(batch))
    /\ queue' = <<>>
    /\ abandoned' = (batch # <<>>)
    /\ UNCHANGED <<accepting, offered, pc, batch, rest, attempt, writerState, persisted, stored>>

-----------------------------------------------------------------------------
Timers  == Wake \/ DelayEnds \/ BackoffEnds
SinkAnswers == \/ PersistSucceeds \/ PersistBreaks \/ PersistRefused
               \/ IsolatedSucceeds \/ IsolatedFails

\* The process ends some time after close() returned: nothing more is offered
Ended == closing \in {"FLUSHED", "TIMED_OUT"} /\ pc = "STOPPED" /\ UNCHANGED vars

Next ==
    \/ \E e \in Entries : Offer(e)
    \/ Wake \/ DelayEnds \/ BackoffEnds
    \/ PersistSucceeds \/ PersistBreaks \/ PersistRefused
    \/ IsolatedSucceeds \/ IsolatedFails
    \/ Close \/ FlushCompletes \/ FlushTimesOut
    \/ Ended

\* Timers of the event loop fire, the flush deadline included.  Nothing is assumed
\* of the database (a call may hang) nor of the producers.
Spec == /\ Init /\ [][Next]_vars
        /\ WF_vars(Timers) /\ WF_vars(FlushCompletes \/ FlushTimesOut)

-----------------------------------------------------------------------------
(* Properties *)

WriterStates == {"IDLE", "WRITING", "BACKOFF", "STOPPING", "STOPPED"}

MemoryType ==
    /\ queue \in Seq(Entries) /\ batch \in Seq(Entries) /\ rest \in Seq(Entries)
    /\ accepting \in BOOLEAN /\ forcedStop \in BOOLEAN /\ abandoned \in BOOLEAN
    /\ pc \in {"WAIT", "DELAY", "PERSIST", "BACKOFF", "ISOLATE", "STOPPED"}
    /\ attempt \in 0 .. RetryAttempts
    /\ closing \in {"OPEN", "FLUSHING", "FLUSHED", "TIMED_OUT"}
    /\ writerState \in WriterStates
    /\ offered \subseteq Entries

LedgerType ==
    /\ persisted \in [Snapshots -> Nat] /\ dropped \in [Snapshots -> Nat]
    /\ degraded \in BOOLEAN
    /\ stored \in [Entries -> Nat]

TypeOK == MemoryType /\ LedgerType

\* the entries the writer still has to decide about
Undecided == IF pc = "ISOLATE" THEN Range(rest) ELSE Range(batch)
Pending == Range(queue) \cup Undecided

\* While close() has not given up, an offered snapshot that is no longer pending is
\* counted exactly once, as persisted or as dropped, and no other one is counted:
\* through refused offers, retries, dropped batches and the isolation of poison entries.
ExactAccounting ==
    ~forcedStop =>
        \A s \in Snapshots :
            persisted[s] + dropped[s] = IF s \in offered \ Pending THEN 1 ELSE 0

\* No loss is silent: an entry that is neither pending nor in the database has
\* degraded the health status, and a snapshot is in droppedSnapshots, whether or
\* not close() gave up.
LossIsVisible ==
    \A e \in offered \ Pending :
        stored[e] = 0 => degraded /\ (e \in Snapshots => dropped[e] >= 1)

\* The database holds a snapshot at most once, although a commit may be retried
\* whose answer was lost; and what was counted as persisted is there.
StoredOnce ==
    \A s \in Snapshots : stored[s] <= 1 /\ (persisted[s] > 0 => stored[s] = 1)

\* Entries in memory never exceed the queue and one batch.
MemoryBound == Len(queue) <= Capacity /\ Len(batch) <= BatchSize

\* A flush that reports success left nothing behind: every entry accepted before
\* close() was decided by the writer, none by the deadline.
FlushedMeansDecided == closing = "FLUSHED" => Pending = {} /\ ~forcedStop

\* When calls of the sink settle, every offered snapshot leaves memory, and after
\* close() the writer stops.
SinkSettles == WF_vars(SinkAnswers)
EverythingDecided == SinkSettles => \A e \in Entries : (e \in offered) ~> (e \notin Pending)
\* What holds in every state and makes the accounting inductive: no entry is in
\* memory twice, and the place where the writer waits says what it holds.
Shape ==
    /\ IsInjective(queue) /\ IsInjective(batch) /\ IsInjective(rest)
    /\ Range(queue) \cap Range(batch) = {}
    /\ Range(queue) \cup Range(batch) \subseteq offered
    /\ Range(rest) \subseteq Range(batch)
    /\ (batch # <<>>) <=> (pc \in {"PERSIST", "BACKOFF", "ISOLATE"})
    /\ (rest # <<>>) <=> (pc = "ISOLATE")
    /\ abandoned => forcedStop
    /\ accepting <=> (closing = "OPEN")
    /\ (closing = "TIMED_OUT") <=> forcedStop
    /\ forcedStop => queue = <<>>
    /\ (pc = "STOPPED") => queue = <<>> /\ ~accepting
    /\ (closing = "FLUSHED") => (pc = "STOPPED")
    /\ pc = "BACKOFF" => attempt < RetryAttempts

\* An abandoned batch is already accounted for.
AbandonedIsCounted ==
    forcedStop => degraded /\ \A s \in Range(batch) \cap Snapshots : dropped[s] >= 1

Inductive == Shape /\ AbandonedIsCounted
=============================================================================
