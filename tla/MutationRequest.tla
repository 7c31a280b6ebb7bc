--------------------------- MODULE MutationRequest ---------------------------
(***************************************************************************)
(* One POST to /mcp that calls mutation tools, from the moment its body is *)
(* read to the end of handleRemoteRequest and of the work that outlives it.*)
(*                                                                         *)
(* Source: packages/sfoa-mcp-server/src/http-server.ts (the handler,       *)
(* executeMcpPost, RequestResources), provider-runtime.ts                  *)
(* (MutationRequestState), dml-tool-facade.ts, and                         *)
(* packages/mcp-provider-sfoa-dml/src/dml-executor.ts.                     *)
(*                                                                         *)
(* A body is one call or a JSON-RPC batch, whose calls run concurrently    *)
(* and share the mutation state, the scope and its connection.  Every call *)
(* has a managed lookup; a call without rules settles it at once.  A       *)
(* withTimeout stops the waiting, never the work.  One action is the code  *)
(* between two awaits that reach I/O or a timer.  Audit records and the    *)
(* wording of answers are left out, except for the one record of a         *)
(* disconnect after dispatch.                                              *)
(***************************************************************************)
CONSTANT Calls  \* the tool calls a body may make

VARIABLES
    body,        \* the calls of the body
    batch,       \* whether it is a JSON-RPC batch; only a single call is audited
    handler,     \* where handleRemoteRequest waits
    operation,   \* how far executeMcpPost is
    terminal,    \* the error the handler is about to answer with
    reply,       \* what was written to the response
    connection,  \* the HTTP connection: open, response finished, client gone
    scope,       \* the request scope, the first of the RequestResources
    closing,     \* closePromise of the RequestResources is set
    cancelled,   \* terminalError of the RequestResources is set
    call,        \* the await each tool call is suspended at
    result,      \* what each tool call returned
    late,        \* deadlineReachedBeforeDispatch of each call
    started,     \* MutationRequestState.hasStarted()
    logged,      \* transportTerminationLogged
    effect       \* what became of each mutation at Salesforce

bodyVars     == <<body, batch>>
handlerVars  == <<handler, terminal>>
resourceVars == <<scope, closing, cancelled>>
callVars     == <<call, result, late>>
sentVars     == <<started, logged, effect>>
vars == <<bodyVars, handlerVars, operation, reply, connection, resourceVars, callVars, sentVars>>

Init ==
    /\ body \in SUBSET Calls \ {{}} /\ batch \in BOOLEAN
    /\ ~batch => \E c \in Calls : body = {c}
    /\ handler = "WAITING" /\ operation = "SETUP"
    /\ terminal = "NONE" /\ reply = "NONE"
    /\ connection = "OPEN"
    /\ scope = "NONE" /\ closing = FALSE /\ cancelled = FALSE
    /\ call = [c \in Calls |-> "IDLE"]
    /\ result = [c \in Calls |-> "NONE"]
    /\ late = [c \in Calls |-> FALSE]
    /\ started = FALSE /\ logged = FALSE
    /\ effect = [c \in Calls |-> "NONE"]

-----------------------------------------------------------------------------
(* executeMcpPost: authentication, the scope, the server of the request *)

\* what attachScope, attachMcpServer, attachTransport and assertAvailable ask
Available == ~cancelled /\ ~closing

\* the error reaches the handler, unless the handler has stopped waiting (that of a request
\* whose client is gone is a timeout; nobody reads it)
Throw ==
    /\ operation' = "ENDED"
    /\ IF handler = "WAITING"
          THEN handler' = "ANSWERING" /\ terminal' = "ERROR"
          ELSE UNCHANGED handlerVars

SetupFails ==
    /\ operation \in {"SETUP", "ATTACHED"}
    /\ Throw
    /\ UNCHANGED <<bodyVars, reply, connection, resourceVars, callVars, sentVars>>

\* Faulty variant: the scope is attached without asking whether the request has ended.
AttachScopeAnyway ==
    /\ operation = "SETUP"
    /\ scope' = "OPEN" /\ operation' = "ATTACHED"
    /\ UNCHANGED <<bodyVars, handlerVars, reply, connection, closing, cancelled, callVars, sentVars>>

\* the scope exists: it is attached, or closed at once when the request has ended
AttachScope ==
    /\ operation = "SETUP"
    /\ \/ /\ Available
          /\ scope' = "OPEN" /\ operation' = "ATTACHED"
          /\ UNCHANGED handlerVars
       \/ /\ ~Available
          /\ scope' = "CLOSED"
          /\ Throw
    /\ UNCHANGED <<bodyVars, reply, connection, closing, cancelled, callVars, sentVars>>

\* the server and the transport are attached, and the transport is given the body
Serve ==
    /\ operation = "ATTACHED"
    /\ \/ /\ Available
          /\ operation' = "SERVING"
          /\ call' = [c \in Calls |-> IF c \in body THEN "CONNECT" ELSE "IDLE"]
          /\ UNCHANGED handlerVars
       \/ /\ ~Available
          /\ Throw
          /\ UNCHANGED call
    /\ UNCHANGED <<bodyVars, reply, connection, resourceVars, result, late, sentVars>>

-----------------------------------------------------------------------------
(* DmlToolFacade.executeCore and the DmlExecutor *)

requestVars == <<bodyVars, handlerVars, operation, reply, connection, resourceVars>>

\* the race of withTimeout: only the first answer of a call is its result
Answer(c, r) == result' = IF result[c] = "NONE" THEN [result EXCEPT ![c] = r] ELSE result

\* what a failure without evidence from Salesforce is reported as
Unproven == IF started THEN "UNKNOWN" ELSE "FAILED"

\* input, allowlist, duplicate ids, or the executor refuse the call
Refuse(c) ==
    /\ call[c] \in {"CONNECT", "LOOKUP"}
    /\ call' = [call EXCEPT ![c] = "ENDED"]
    /\ Answer(c, "FAILED")
    /\ UNCHANGED <<requestVars, late, sentVars>>

Connecting == {c \in body : call[c] = "CONNECT"}

\* the calls share one connection promise, which a closed scope rejects
Connect ==
    /\ Connecting # {}
    /\ \/ /\ scope = "OPEN"
          /\ call' = [c \in Calls |-> IF c \in Connecting THEN "LOOKUP" ELSE call[c]]
          /\ UNCHANGED result
       \/ /\ call' = [c \in Calls |-> IF c \in Connecting THEN "ENDED" ELSE call[c]]
          /\ result' = [c \in Calls |-> IF c \in Connecting THEN Unproven ELSE result[c]]
    /\ UNCHANGED <<requestVars, late, sentVars>>

LookupFails(c) ==
    /\ call[c] = "LOOKUP"
    /\ call' = [call EXCEPT ![c] = "ENDED"]
    /\ Answer(c, Unproven)
    /\ UNCHANGED <<requestVars, late, sentVars>>

\* Faulty variant: the start of the mutation is not reported to the handler.
DispatchUnobserved(c) ==
    /\ call' = [call EXCEPT ![c] = "SENT"]
    /\ effect' = [effect EXCEPT ![c] = "SENT"]
    /\ started' = TRUE
    /\ UNCHANGED <<requestVars, result, late, logged>>

\* onMutationStarted, whose first call reports a client that is gone, and the request
Dispatch(c) ==
    /\ call' = [call EXCEPT ![c] = "SENT"]
    /\ effect' = [effect EXCEPT ![c] = "SENT"]
    /\ started' = TRUE
    /\ logged' = (logged \/ (~started /\ connection = "LOST"))
    /\ UNCHANGED <<requestVars, result, late>>

\* Faulty variant: the connection found before the lookup is used, whatever its scope did since.
DispatchCached(c) ==
    /\ call[c] = "LOOKUP" /\ ~late[c]
    /\ Dispatch(c)

DispatchMutation(c) ==
    /\ call[c] = "LOOKUP" /\ ~late[c] /\ scope = "OPEN"
    /\ Dispatch(c)

\* the executor cannot tell a closed connection from a lost answer
DispatchRefused(c) ==
    /\ call[c] = "LOOKUP" /\ ~late[c] /\ scope # "OPEN"
    /\ call' = [call EXCEPT ![c] = "ENDED"]
    /\ Answer(c, "UNKNOWN")
    /\ UNCHANGED <<requestVars, late, sentVars>>

\* the lookup settles after the deadline of the tool, and the call throws
LookupTooLate(c) ==
    /\ call[c] = "LOOKUP" /\ late[c]
    /\ call' = [call EXCEPT ![c] = "ENDED"]
    /\ UNCHANGED <<requestVars, result, late, sentVars>>

Decide(c) ==
    /\ effect[c] = "SENT"
    /\ \E e \in {"APPLIED", "PARTIAL", "REJECTED"} : effect' = [effect EXCEPT ![c] = e]
    /\ UNCHANGED <<requestVars, callVars, started, logged>>

Report == [APPLIED |-> "SUCCESS", PARTIAL |-> "PARTIAL_SUCCESS", REJECTED |-> "FAILED"]

\* Faulty variant: what Salesforce answered is handed on without being read.
MutationAnswersUnread(c) ==
    /\ call[c] = "SENT" /\ effect[c] # "SENT"
    /\ call' = [call EXCEPT ![c] = "ENDED"]
    /\ Answer(c, effect[c])
    /\ UNCHANGED <<requestVars, late, sentVars>>

\* the answer of Salesforce, with a result or structured evidence of a rejection
MutationAnswers(c) ==
    /\ call[c] = "SENT" /\ effect[c] # "SENT"
    /\ call' = [call EXCEPT ![c] = "ENDED"]
    /\ Answer(c, Report[effect[c]])
    /\ UNCHANGED <<requestVars, late, sentVars>>

\* Faulty variant: a broken dispatch is tried again.
MutationBreaksAndRetries(c) ==
    /\ call[c] = "SENT"
    /\ effect' = [effect EXCEPT ![c] = "SENT"]
    /\ UNCHANGED <<requestVars, callVars, started, logged>>

\* the connection breaks, or the answer holds no evidence
MutationBreaks(c) ==
    /\ call[c] = "SENT"
    /\ call' = [call EXCEPT ![c] = "ENDED"]
    /\ Answer(c, "UNKNOWN")
    /\ UNCHANGED <<requestVars, late, sentVars>>

ToolDeadline(c) ==
    /\ call[c] \in {"LOOKUP", "SENT"} /\ result[c] = "NONE"
    /\ Answer(c, Unproven)
    /\ late' = [late EXCEPT ![c] = ~started]
    /\ UNCHANGED <<requestVars, call, sentVars>>

CallStep ==
    \/ Connect
    \/ \E c \in body : \/ Refuse(c) \/ LookupFails(c)
                       \/ DispatchMutation(c) \/ DispatchRefused(c) \/ LookupTooLate(c)
                       \/ MutationAnswers(c) \/ MutationBreaks(c)
                       \/ ToolDeadline(c)

-----------------------------------------------------------------------------
(* the response, handleRemoteRequest and RequestResources.close *)

\* the transport writes one response when every call has its result
WriteResults ==
    /\ operation = "SERVING" /\ reply = "NONE" /\ connection = "OPEN"
    /\ \A c \in body : result[c] # "NONE"
    /\ reply' = "RESULTS"
    /\ UNCHANGED <<bodyVars, handlerVars, operation, connection, resourceVars, callVars, sentVars>>

\* 'finish' or 'close' of the response: waitForResponseCompletion settles, cleanup starts
ResponseOver ==
    /\ closing' = TRUE
    /\ operation' = IF operation = "SERVING" THEN "ENDED" ELSE operation
    /\ handler' = IF operation = "SERVING" /\ handler = "WAITING" THEN "FINALIZING" ELSE handler
    /\ UNCHANGED <<bodyVars, terminal, reply, scope, cancelled, callVars, started, effect>>

ResponseFinishes ==
    /\ connection = "OPEN" /\ reply # "NONE"
    /\ connection' = "FINISHED"
    /\ ResponseOver
    /\ UNCHANGED logged

\* observeClientDisconnect
Disconnect ==
    /\ connection = "OPEN"
    /\ connection' = "LOST"
    /\ logged' = started
    /\ ResponseOver

\* the scope is closed after the transport and the server
CloseScope ==
    /\ closing /\ scope = "OPEN"
    /\ scope' = "CLOSED"
    /\ UNCHANGED <<bodyVars, handlerVars, operation, reply, connection, closing, cancelled, callVars, sentVars>>

\* MCP_REQUEST_TIMEOUT, answered as an unknown outcome once a mutation has started
RequestDeadline ==
    /\ handler = "WAITING"
    /\ handler' = "ANSWERING"
    /\ cancelled' = TRUE
    /\ terminal' = IF started THEN "UNKNOWN" ELSE "TIMEOUT"
    /\ UNCHANGED <<bodyVars, operation, reply, connection, scope, closing, callVars, sentVars>>

\* after the audit record; a response that has begun is only ended
AnswerError ==
    /\ handler = "ANSWERING"
    /\ handler' = "FINALIZING"
    /\ reply' = IF reply = "NONE" /\ connection = "OPEN" THEN terminal ELSE reply
    /\ UNCHANGED <<bodyVars, terminal, operation, connection, resourceVars, callVars, sentVars>>

\* Faulty variant: the resources are released when the abandoned work has ended.
FinalizeAfterWork ==
    /\ handler = "FINALIZING" /\ operation = "ENDED"
    /\ handler' = "CLOSING" /\ closing' = TRUE
    /\ UNCHANGED <<bodyVars, terminal, operation, reply, connection, scope, cancelled, callVars, sentVars>>

\* an audited request waits for its response to be complete
Finalize ==
    /\ handler = "FINALIZING"
    /\ batch \/ connection # "OPEN"
    /\ handler' = "CLOSING" /\ closing' = TRUE
    /\ UNCHANGED <<bodyVars, terminal, operation, reply, connection, scope, cancelled, callVars, sentVars>>

Return ==
    /\ handler = "CLOSING" /\ scope # "OPEN"
    /\ handler' = "DONE"
    /\ UNCHANGED <<bodyVars, terminal, operation, reply, connection, resourceVars, callVars, sentVars>>

-----------------------------------------------------------------------------
\* the handler has returned and nothing of the request is left
Over ==
    /\ handler = "DONE" /\ operation = "ENDED" /\ connection # "OPEN"
    /\ \A c \in body : call[c] \in {"IDLE", "ENDED"} /\ effect[c] # "SENT"
    /\ UNCHANGED vars

Next ==
    \/ SetupFails \/ AttachScope \/ Serve
    \/ CallStep
    \/ \E c \in body : Decide(c)
    \/ WriteResults \/ ResponseFinishes \/ Disconnect \/ CloseScope
    \/ RequestDeadline \/ AnswerError \/ Finalize \/ Return
    \/ Over

\* a response that was written is delivered, or its connection breaks
ResponseEnds == reply # "NONE" /\ (ResponseFinishes \/ Disconnect)

Fairness ==
    /\ WF_vars(RequestDeadline) /\ WF_vars(AnswerError)
    /\ WF_vars(ResponseEnds)
    /\ WF_vars(Finalize) /\ WF_vars(CloseScope) /\ WF_vars(Return)

Spec == Init /\ [][Next]_vars /\ Fairness

-----------------------------------------------------------------------------
\* what the caller was told of each mutation
Told(c) ==
    IF c \notin body \/ reply = "NONE" THEN "NOTHING"
    ELSE CASE reply = "ERROR"                  -> "FAILED"
           [] reply \in {"TIMEOUT", "UNKNOWN"} -> "UNKNOWN"
           [] reply = "RESULTS"                -> result[c]

told == [c \in Calls |-> Told(c)]

Outcome == INSTANCE MutationOutcome

(* The steps of a request, its calls and its outcomes are the ones named here. *)
TypeOK ==
    /\ body \in SUBSET Calls \ {{}} /\ batch \in BOOLEAN
    /\ handler \in {"WAITING", "ANSWERING", "FINALIZING", "CLOSING", "DONE"}
    /\ operation \in {"SETUP", "ATTACHED", "SERVING", "ENDED"}
    /\ terminal \in {"NONE", "ERROR", "TIMEOUT", "UNKNOWN"}
    /\ reply \in {"NONE", "RESULTS", "ERROR", "TIMEOUT", "UNKNOWN"}
    /\ connection \in {"OPEN", "FINISHED", "LOST"}
    /\ scope \in {"NONE", "OPEN", "CLOSED"}
    /\ closing \in BOOLEAN /\ cancelled \in BOOLEAN
    /\ call \in [Calls -> {"IDLE", "CONNECT", "LOOKUP", "SENT", "ENDED"}]
    /\ result \in [Calls -> {"NONE", "SUCCESS", "PARTIAL_SUCCESS", "FAILED", "UNKNOWN"}]
    /\ late \in [Calls -> BOOLEAN]
    /\ started \in BOOLEAN /\ logged \in BOOLEAN
    /\ effect \in [Calls -> Outcome!Effects]

(* Whatever a call returned agrees with what became of its mutation, then and ever after:   *)
(* a failure is never reported for a mutation that was sent and not rejected, nor a success *)
(* for one that was not applied, although the calls of a batch share one mutation state and *)
(* a deadline leaves the lookup and the dispatch running behind its answer.                 *)
ResultsAreTrue == \A c \in Calls : Outcome!Agrees(result[c], effect[c])

(* When handleRemoteRequest has returned, the scope of the request is closed, even if setup *)
(* was still creating it when the deadline fired or the client left.                        *)
ScopeClosedWhenDone == handler = "DONE" => scope # "OPEN"

(* A client that leaves a request with a mutation under way is on record, whichever of the  *)
(* two came first, and nothing is on record otherwise.                                      *)
DisconnectIsLogged == logged <=> connection = "LOST" /\ started

(* Once handleRemoteRequest has returned, no mutation that was still being prepared is sent *)
(* to Salesforce, although nothing cancels the preparation.                                 *)
NothingSentAfterward ==
    [][handler = "DONE" => \A c \in Calls : effect[c] = "NONE" => effect'[c] = "NONE"]_vars

(* The request keeps the promise of MutationOutcome: each mutation is sent at most once,    *)
(* the one response is true, and what it calls failed is not sent any more.                 *)
ImplementsOutcome == Outcome!Spec

(* handleRemoteRequest returns, whatever setup, lookups or Salesforce do. *)
RequestEnds == handler = "WAITING" ~> handler = "DONE"

(* A call that has its result sends nothing any more: what the comment before the dispatch  *)
(* says of a lookup that settles after the deadline of the tool.  Not so in a batch, once   *)
(* another of its calls has started: the deadline takes the shared state for its own.       *)
NothingSentLate ==
    [][\A c \in Calls : result[c] # "NONE" /\ effect[c] = "NONE" => effect'[c] = "NONE"]_vars
=============================================================================
