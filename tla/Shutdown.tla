------------------------------- MODULE Shutdown -------------------------------
(***************************************************************************)
(* How the configured runtime shuts down around the audit pipeline: the    *)
(* HTTP server stops listening, waits a bounded time for the requests it   *)
(* was handling, cuts off what remains and waits for the connections to    *)
(* end; then the pipeline is flushed, its pool closed within a second, and *)
(* at last the pool of the control plane.                                  *)
(*                                                                         *)
(* A request is named by the one snapshot its handler offers when it ends. *)
(* server.close() takes the requests that have a handler; a request whose  *)
(* head is still being received gets its handler later, is not waited for, *)
(* and may find the pipeline closed.  So does one that is sent on a        *)
(* connection which was busy at the signal and stays open with keep-alive. *)
(***************************************************************************)
EXTENDS AuditPipeline

VARIABLES
    request,    \* snapshot -> where its request is
    kept,       \* snapshot -> the connection its response left open
    stage,      \* how far close() of the runtime is
    awaited,    \* the requests close() waits for
    drained     \* they ended before the grace period did

shutdownVars == <<request, kept, stage, awaited, drained>>

\* SENDING and ACTIVE requests hold a connection, ACTIVE and FINALIZING ones a handler.
RequestPhases == {"NONE", "SENDING", "ACTIVE", "FINALIZING", "DONE", "GONE"}
\* An IDLE connection ends with the keep-alive timeout.  One with a REST of a body that
\* was still to come when the handler answered does not: what arrives stops that timer.
Leftovers == {"NONE", "IDLE", "REST"}
Stages == {"SERVING", "DRAINING", "CONNECTIONS", "FLUSHING", "AUDIT_POOL", "STORE", "CLOSED"}

ShutdownInit ==
    /\ Init
    /\ request = [s \in Snapshots |-> "NONE"]
    /\ kept = [s \in Snapshots |-> "NONE"]
    /\ stage = "SERVING"
    /\ awaited = {}
    /\ drained = FALSE

\* activeRequests
Handled == {s \in Snapshots : request[s] \in {"ACTIVE", "FINALIZING"}}

Connected == {s \in Snapshots : request[s] \in {"SENDING", "ACTIVE"} \/ kept[s] # "NONE"}

Becomes(s, from, to) ==
    /\ request[s] = from
    /\ request' = [request EXCEPT ![s] = to]
    /\ UNCHANGED <<stage, awaited, drained>>

Moves(s, from, to) == Becomes(s, from, to) /\ UNCHANGED kept

-----------------------------------------------------------------------------
(* Requests *)

\* A client connects, which it can while the server listens, and starts to send.
Send(s) == stage = "SERVING" /\ Moves(s, "NONE", "SENDING") /\ UNCHANGED vars

\* The head has arrived: the handler starts, whatever the stage.
Receive(s) == Moves(s, "SENDING", "ACTIVE") /\ UNCHANGED vars

\* The client leaves before that.
GiveUp(s) == Moves(s, "SENDING", "GONE") /\ UNCHANGED vars

\* The response is finished, at the deadline of the request at the latest, or its client left.
Respond(s) ==
    /\ Becomes(s, "ACTIVE", "FINALIZING")
    /\ \E leftover \in Leftovers : kept' = [kept EXCEPT ![s] = leftover]
    /\ UNCHANGED vars

\* The next request on a connection that was kept, whatever the stage.
SendNext(s, k) ==
    /\ kept[k] # "NONE"
    /\ Becomes(s, "NONE", "SENDING")
    /\ kept' = [kept EXCEPT ![k] = "NONE"]
    /\ UNCHANGED vars

KeptEnds(s) ==
    /\ kept' = [kept EXCEPT ![s] = "NONE"]
    /\ UNCHANGED <<request, stage, awaited, drained>>
    /\ UNCHANGED vars

\* keepAliveTimeout
KeepAliveExpires(s) == kept[s] = "IDLE" /\ KeptEnds(s)

\* The client closes the connection.
Leave(s) == kept[s] # "NONE" /\ KeptEnds(s)

\* Faulty variant: the task that is waited for ends before the audit is offered.
FinishUnaudited(s) ==
    \/ Moves(s, "FINALIZING", "DONE") /\ UNCHANGED vars
    \/ request[s] = "DONE" /\ Offer(s) /\ UNCHANGED shutdownVars

\* The resources are closed and the snapshot is offered; with that the task settles.
Finish(s) == Moves(s, "FINALIZING", "DONE") /\ Offer(s)

-----------------------------------------------------------------------------
(* close() *)

\* A signal: the server stops listening and closes its idle connections.
Signal ==
    /\ stage = "SERVING"
    /\ stage' = "DRAINING"
    /\ awaited' = Handled
    /\ kept' = [s \in Snapshots |-> IF kept[s] = "IDLE" THEN "NONE" ELSE kept[s]]
    /\ UNCHANGED <<request, drained>>
    /\ UNCHANGED vars

\* allSettled of the requests there were
Settled ==
    /\ stage = "DRAINING"
    /\ \A s \in awaited : request[s] = "DONE"
    /\ stage' = "CONNECTIONS"
    /\ drained' = TRUE
    /\ UNCHANGED <<request, kept, awaited>>
    /\ UNCHANGED vars

\* Faulty variant: a forced shutdown leaves the connections alone.
GraceExpiresQuietly ==
    /\ stage = "DRAINING"
    /\ \E s \in awaited : request[s] # "DONE"
    /\ stage' = "CONNECTIONS"
    /\ UNCHANGED <<request, kept, awaited, drained>>
    /\ UNCHANGED vars

\* The grace period ends first: every connection is closed, the handlers go on.
GraceExpires ==
    /\ stage = "DRAINING"
    /\ \E s \in awaited : request[s] # "DONE"
    /\ stage' = "CONNECTIONS"
    /\ request' = [s \in Snapshots |-> CASE request[s] = "SENDING" -> "GONE"
                                         [] request[s] = "ACTIVE"  -> "FINALIZING"
                                         [] OTHER -> request[s]]
    /\ kept' = [s \in Snapshots |-> "NONE"]
    /\ UNCHANGED <<awaited, drained>>
    /\ UNCHANGED vars

\* The last connection has ended: the reaper is stopped and the flush begins.
ServerCloses ==
    /\ stage = "CONNECTIONS"
    /\ Connected = {}
    /\ stage' = "FLUSHING"
    /\ Close
    /\ UNCHANGED <<request, kept, awaited, drained>>

Advance(from, to) ==
    /\ stage = from
    /\ stage' = to
    /\ UNCHANGED <<request, kept, awaited, drained>>
    /\ UNCHANGED vars

FlushReturns == closing \in {"FLUSHED", "TIMED_OUT"} /\ Advance("FLUSHING", "AUDIT_POOL")

\* closeAuditDatabaseBounded: destroyed, or a second has passed
AuditPoolCloses == Advance("AUDIT_POOL", "STORE")

\* Nothing bounds this one.
StoreCloses == Advance("STORE", "CLOSED")

-----------------------------------------------------------------------------
PipelineStep ==
    \/ Timers \/ SinkAnswers
    \/ FlushCompletes \/ FlushTimesOut

CloseStep ==
    \/ Settled \/ GraceExpires
    \/ ServerCloses \/ FlushReturns \/ AuditPoolCloses

Over ==
    /\ stage = "CLOSED" /\ pc = "STOPPED" /\ Handled = {}
    /\ UNCHANGED <<vars, shutdownVars>>

ShutdownNext ==
    \/ \E s \in Snapshots : Send(s) \/ Receive(s) \/ GiveUp(s) \/ Respond(s) \/ Finish(s)
    \/ \E s \in Snapshots : KeepAliveExpires(s) \/ Leave(s) \/ \E k \in Snapshots : SendNext(s, k)
    \/ Signal \/ CloseStep \/ StoreCloses
    \/ PipelineStep /\ UNCHANGED shutdownVars
    \/ Over

\* The timers of the shutdown, of the pipeline, of the requests and of idle connections
\* fire.  Nothing is assumed of the clients, the database and the release of a request's
\* resources.
ShutdownSpec ==
    /\ ShutdownInit /\ [][ShutdownNext]_<<vars, shutdownVars>>
    /\ WF_<<vars, shutdownVars>>(Timers /\ UNCHANGED shutdownVars)
    /\ WF_<<vars, shutdownVars>>((FlushCompletes \/ FlushTimesOut) /\ UNCHANGED shutdownVars)
    /\ WF_<<vars, shutdownVars>>(CloseStep)
    /\ \A s \in Snapshots : WF_<<vars, shutdownVars>>(Respond(s))
                           /\ WF_<<vars, shutdownVars>>(KeepAliveExpires(s))

-----------------------------------------------------------------------------
(* Properties *)

\* Every variable holds a value of its type, and the stages of the two close() agree.
ShutdownTypeOK ==
    /\ TypeOK
    /\ request \in [Snapshots -> RequestPhases]
    /\ kept \in [Snapshots -> Leftovers]
    /\ stage \in Stages
    /\ awaited \subseteq Snapshots
    /\ drained \in BOOLEAN
    /\ closing = "OPEN" <=> stage \in {"SERVING", "DRAINING", "CONNECTIONS"}

\* A shutdown that reports DRAINED lost no audit silently: the requests that were being
\* handled when it began offered their snapshots before the pipeline closed, and after a
\* complete flush each one is in the database or counted as dropped.
AwaitedAreAudited ==
    drained /\ closing # "OPEN" =>
        /\ awaited \subseteq offered
        /\ closing = "FLUSHED" => \A s \in awaited : stored[s] = 1 \/ dropped[s] >= 1

\* A shutdown that began gets as far as the pool of the control plane, although handlers
\* and the database may never end, and clients go on sending on the connections they kept.
\* Only one that drained may hang before, on a client that holds a connection with half a
\* request: its head, or the rest of a body that was answered already.  Nothing closes that
\* connection any more.
ShutdownProceeds ==
    stage = "DRAINING" ~>
        (stage = "STORE"
           \/ (drained /\ \E s \in Snapshots : request[s] = "SENDING" \/ kept[s] = "REST"))
=============================================================================
