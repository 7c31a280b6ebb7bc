------------------------------ MODULE CwdGuard ------------------------------
(***************************************************************************)
(* The guard of the process working directory in sfoa-identity-runtime.    *)
(* The official Salesforce tools call process.chdir(workspace) and do not  *)
(* restore it.  CwdExecutionGuard runs them under one read/write lock of   *)
(* the process: retrieve_metadata exclusively, the others shared.  Every   *)
(* request owns a temporary workspace which its scope removes when the     *)
(* request ends, also when a timed-out call is still queued or running.    *)
(*                                                                         *)
(* Source: cwd-execution-guard.ts, tool-execution-adapter.ts, workspace.ts *)
(* and request-scope.ts of packages/sfoa-identity-runtime/src, and the     *)
(* tools of packages/mcp-provider-dx-core/src/tools it runs.  One action   *)
(* is the code between two awaits; the removal of a directory runs beside  *)
(* the event loop.  The metrics of the guard are left out.                 *)
(***************************************************************************)
EXTENDS Integers, Sequences, FiniteSets, Functions

CONSTANTS
    Calls,        \* executions of an official tool
    Exclusive,    \* the executions of retrieve_metadata
    Workspaces,   \* request workspaces, one per request
    Root,         \* call -> the workspace of the request that makes it
    Baseline      \* the working directory of the process

ASSUME CallsAssumption == Exclusive \subseteq Calls /\ Root \in [Calls -> Workspaces]
ASSUME BaselineAssumption == Baseline \notin Workspaces

VARIABLES
    queue,          \* calls waiting for the lock
    activeReaders,  \* shared executions that hold the lock
    writerActive,   \* an exclusive execution holds it
    pc,             \* how far each call is
    previousCwd,    \* exclusive call -> the directory runExclusive captured
    cwd,            \* working directory of the process
    directory       \* workspace -> its state on disk

lockVars == <<queue, activeReaders, writerActive>>
vars == <<lockVars, pc, previousCwd, cwd, directory>>

\* the calls that hold the lock: a FAILED one never lets go
Holders == {c \in Calls : pc[c] \in {"GRANTED", "RUNNING", "ENDING", "FAILED"}}

\* process.cwd() throws when the working directory has been removed
CwdGone == cwd \in Workspaces /\ directory[cwd] = "GONE"

Init ==
    /\ queue = <<>> /\ activeReaders = 0 /\ writerActive = FALSE
    /\ pc = [c \in Calls |-> "READY"]
    /\ previousCwd = [c \in Exclusive |-> Baseline]
    /\ cwd = Baseline
    /\ directory = [w \in Workspaces |-> "ABSENT"]

-----------------------------------------------------------------------------
(* AsyncReadWriteLock *)

Enqueue(c) ==
    /\ queue' = Append(queue, c)
    /\ pc' = [pc EXCEPT ![c] = "QUEUED"]
    /\ UNCHANGED <<activeReaders, writerActive>>

\* Faulty variant: a reader that finds the lock free is not counted.
AcquireSharedUncounted(c) ==
    LET writerQueued == Range(queue) \cap Exclusive # {} IN
    \/ /\ ~writerActive /\ ~writerQueued
       /\ pc' = [pc EXCEPT ![c] = "GRANTED"]
       /\ UNCHANGED lockVars
    \/ (writerActive \/ writerQueued) /\ Enqueue(c)

\* Faulty variant: a reader does not look at the queue.
AcquireSharedBarging(c) ==
    \/ /\ ~writerActive
       /\ activeReaders' = activeReaders + 1
       /\ pc' = [pc EXCEPT ![c] = "GRANTED"]
       /\ UNCHANGED <<queue, writerActive>>
    \/ writerActive /\ Enqueue(c)

\* readers join unless a writer is active or waiting
AcquireShared(c) ==
    LET writerQueued == Range(queue) \cap Exclusive # {} IN
    \/ /\ ~writerActive /\ ~writerQueued
       /\ activeReaders' = activeReaders + 1
       /\ pc' = [pc EXCEPT ![c] = "GRANTED"]
       /\ UNCHANGED <<queue, writerActive>>
    \/ (writerActive \/ writerQueued) /\ Enqueue(c)

AcquireExclusive(c) ==
    LET free == ~writerActive /\ activeReaders = 0 /\ queue = <<>> IN
    \/ /\ free
       /\ writerActive' = TRUE
       /\ pc' = [pc EXCEPT ![c] = "GRANTED"]
       /\ UNCHANGED <<queue, activeReaders>>
    \/ ~free /\ Enqueue(c)

\* the first n waiting calls get the lock which call c has given back
Admit(c, n) ==
    LET admitted == Range(SubSeq(queue, 1, n)) IN
    /\ queue' = SubSeq(queue, n + 1, Len(queue))
    /\ pc' = [d \in Calls |-> IF d = c THEN "DONE"
                              ELSE IF d \in admitted THEN "GRANTED" ELSE pc[d]]
    /\ writerActive' = (admitted \cap Exclusive # {})
    /\ activeReaders' = Cardinality(admitted \ Exclusive)

\* Faulty variant: the loop over the readers does not stop at a writer.
DrainPastWriter(c) ==
    \E n \in 0 .. Len(queue) :
        /\ \/ n = 0 /\ queue = <<>>
           \/ n = 1 /\ queue[1] \in Exclusive
           \/ n > 0 /\ n = Len(queue) /\ queue[1] \notin Exclusive
        /\ Admit(c, n)

\* drain: the first waiting writer, or all readers up to the next writer
Drain(c) ==
    \E n \in 0 .. Len(queue) :
        /\ \/ n = 0 /\ queue = <<>>
           \/ n = 1 /\ queue[1] \in Exclusive
           \/ /\ n > 0
              /\ \A i \in 1 .. n : queue[i] \notin Exclusive
              /\ n < Len(queue) => queue[n + 1] \in Exclusive
        /\ Admit(c, n)

\* Faulty variant: only the release of a writer drains the queue.
ReleaseByWriterOnly(c) ==
    IF c \in Exclusive
    THEN Drain(c)
    ELSE /\ activeReaders' = activeReaders - 1
         /\ pc' = [pc EXCEPT ![c] = "DONE"]
         /\ UNCHANGED <<queue, writerActive>>

\* the release closures; the last reader, or the writer, drains the queue
Release(c) ==
    IF c \in Exclusive \/ activeReaders = 1
    THEN Drain(c)
    ELSE /\ activeReaders' = activeReaders - 1
         /\ pc' = [pc EXCEPT ![c] = "DONE"]
         /\ UNCHANGED <<queue, writerActive>>

-----------------------------------------------------------------------------
(* Executions of a tool *)

\* execute calls runExclusive or runShared.  The background work of a request may
\* call a tool after the scope of the request was closed.
Call(c) ==
    /\ pc[c] = "READY" /\ directory[Root[c]] # "ABSENT"
    /\ IF c \in Exclusive THEN AcquireExclusive(c) ELSE AcquireShared(c)
    /\ UNCHANGED <<previousCwd, cwd, directory>>

\* process.chdir succeeds as long as the directory is there
CanEnter(w) == directory[w] \in {"PRESENT", "REMOVING", "LEFT"}

\* The guard resumes with the lock and starts the tool.  It changes into its workspace
\* and asks for the connection, which a closed scope refuses: then the tool settles
\* at once.  It also does so when it returns early, or the workspace is gone.
Start(c) ==
    /\ pc[c] = "GRANTED"
    /\ previousCwd' = IF c \in Exclusive THEN [previousCwd EXCEPT ![c] = cwd]
                                         ELSE previousCwd
    /\ \/ /\ CanEnter(Root[c])
          /\ cwd' = Root[c]
          /\ pc' = [pc EXCEPT ![c] = IF directory[Root[c]] = "PRESENT" THEN "RUNNING" ELSE "ENDING"]
       \/ /\ UNCHANGED cwd
          /\ pc' = [pc EXCEPT ![c] = "ENDING"]
    /\ UNCHANGED <<lockVars, directory>>

\* a metadata retrieval creates the directories it writes its files to
Write(c) ==
    /\ pc[c] = "RUNNING" /\ c \in Exclusive
    /\ directory[Root[c]] = "GONE"
    /\ directory' = [directory EXCEPT ![Root[c]] = "LEFT"]
    /\ UNCHANGED <<lockVars, pc, previousCwd, cwd>>

\* Faulty variant: a shared execution leaves the directory as it is.
RestoreExclusiveOnly(c) ==
    cwd' = IF c \in Exclusive THEN previousCwd[c] ELSE cwd

Restore(c) == cwd' = IF c \in Exclusive THEN previousCwd[c] ELSE Baseline

\* The tool has settled and the finally block runs: restore, then release.
Finish(c) ==
    /\ pc[c] \in {"RUNNING", "ENDING"}
    /\ Restore(c)
    /\ Release(c)
    /\ UNCHANGED <<previousCwd, directory>>

\* restore throws: the statements behind it, the release among them, do not run.
\* (Node may still have the name of the removed directory cached, and Finish.)
FinishFails(c) ==
    /\ pc[c] \in {"RUNNING", "ENDING"}
    /\ CwdGone
    /\ pc' = [pc EXCEPT ![c] = "FAILED"]
    /\ UNCHANGED <<lockVars, previousCwd, cwd, directory>>

-----------------------------------------------------------------------------
(* The workspace of a request *)

\* RequestWorkspaceFactory.create
Open(w) ==
    /\ directory[w] = "ABSENT"
    /\ directory' = [directory EXCEPT ![w] = "PRESENT"]
    /\ UNCHANGED <<lockVars, pc, previousCwd, cwd>>

\* Faulty variant: leaves whatever directory the process is in.
CloseScopeFromAnywhere(w) ==
    /\ directory[w] = "PRESENT"
    /\ cwd' = Baseline
    /\ directory' = [directory EXCEPT ![w] = "REMOVING"]
    /\ UNCHANGED <<lockVars, pc, previousCwd>>

\* The request ended or timed out: cleanupRoot leaves the workspace if the process
\* is in it and starts to remove it.  When process.cwd() throws, the directory stays:
\* cleanup is never tried again.
CloseScope(w) ==
    /\ directory[w] = "PRESENT"
    /\ \/ /\ directory' = [directory EXCEPT ![w] = "REMOVING"]
          /\ cwd' = IF cwd = w THEN Baseline ELSE cwd
       \/ /\ CwdGone
          /\ directory' = [directory EXCEPT ![w] = "LEFT"]
          /\ UNCHANGED cwd
    /\ UNCHANGED <<lockVars, pc, previousCwd>>

\* the removal is over: complete, or given up after its retries
RemovalEnds(w) ==
    /\ directory[w] = "REMOVING"
    /\ \E outcome \in {"GONE", "LEFT"} : directory' = [directory EXCEPT ![w] = outcome]
    /\ UNCHANGED <<lockVars, pc, previousCwd, cwd>>

-----------------------------------------------------------------------------
\* all calls have ended, or the lock is lost and the others wait for ever
Ended ==
    /\ \A w \in Workspaces : directory[w] \in {"GONE", "LEFT"}
    /\ \/ \A c \in Calls : pc[c] = "DONE"
       \/ \E c \in Calls : pc[c] = "FAILED"
    /\ UNCHANGED vars

Next ==
    \/ \E c \in Calls : Call(c) \/ Start(c) \/ Write(c) \/ Finish(c) \/ FinishFails(c)
    \/ \E w \in Workspaces : Open(w) \/ CloseScope(w) \/ RemovalEnds(w)
    \/ Ended

\* The event loop resumes granted calls, and every tool settles.
Spec ==
    /\ Init /\ [][Next]_vars
    /\ \A c \in Calls : WF_vars(Start(c)) /\ WF_vars(Finish(c) \/ FinishFails(c))

-----------------------------------------------------------------------------
(* Properties *)

TypeOK ==
    /\ queue \in Seq(Calls)
    /\ activeReaders \in Nat /\ writerActive \in BOOLEAN
    /\ pc \in [Calls -> {"READY", "QUEUED", "GRANTED", "RUNNING", "ENDING", "DONE", "FAILED"}]
    /\ previousCwd \in [Exclusive -> Workspaces \cup {Baseline}]
    /\ cwd \in Workspaces \cup {Baseline}
    /\ directory \in [Workspaces -> {"ABSENT", "PRESENT", "REMOVING", "GONE", "LEFT"}]

\* An exclusive call holds the lock alone, and the counters of the lock agree with
\* the calls that hold it.
Exclusion ==
    /\ \A c \in Holders \cap Exclusive : Holders = {c}
    /\ writerActive <=> (Holders \cap Exclusive # {})
    /\ IsFiniteSet(Holders) /\ activeReaders = Cardinality(Holders \ Exclusive)

\* The queue holds the waiting calls, once each; while one waits the lock is held,
\* and when no writer holds it the first in the queue is a writer.
Waiting ==
    /\ IsInjective(queue)
    /\ Range(queue) = {c \in Calls : pc[c] = "QUEUED"}
    /\ queue # <<>> => writerActive \/ (activeReaders > 0 /\ queue[1] \in Exclusive)

\* Nobody is overtaken: a call that waits is not admitted before those ahead of it
\* in the queue, and one that arrives is admitted at once only if nobody waits.
NoOvertaking ==
    [][/\ \A i, j \in DOMAIN queue :
             i < j /\ pc'[queue[j]] # "QUEUED" => pc'[queue[i]] # "QUEUED"
       /\ \A c \in Calls : pc[c] = "READY" /\ pc'[c] = "GRANTED" => queue = <<>>]_vars

\* When no call holds the lock, the process is in its own directory: no tool leaves
\* its workspace behind, whoever restored last.
BaselineAtRest == Holders = {} => cwd = Baseline

\* A running metadata retrieval works in its own workspace as long as its request
\* is open, whatever the other requests do meanwhile.
MetadataInPlace ==
    \A c \in Exclusive :
        pc[c] = "RUNNING" /\ directory[Root[c]] = "PRESENT" => cwd = Root[c]

\* The process is in a workspace only while a call of that workspace holds the lock,
\* and every retrieval returns the process to the baseline, never to a workspace.
CwdIsOwned ==
    /\ cwd # Baseline => \E c \in Holders : Root[c] = cwd /\ pc[c] # "GRANTED"
    /\ \A c \in Exclusive : previousCwd[c] = Baseline

\* A waiting call ends, unless the lock was lost.
WaitingCallEnds ==
    \A c \in Calls : (pc[c] = "QUEUED") ~> (pc[c] = "DONE" \/ \E d \in Calls : pc[d] = "FAILED")

\* The lock keeps the promise of ReadWriteLock.
Lock == INSTANCE ReadWriteLock WITH waiting <- Range(queue), holding <- Holders
ImplementsLock == Lock!Spec

(***************************************************************************)
(* Statements of the documents which the code does not keep.               *)
(***************************************************************************)

\* P1_FINAL_REPORT.md: the guard restores the directory in finally, and then
\* releases the lock.  Every call that is over has released it.
EndedCallsRelease == \A c \in Calls : pc[c] # "FAILED"
=============================================================================
