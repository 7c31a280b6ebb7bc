------------------------ MODULE MutationRequestProofs ------------------------
(***************************************************************************)
(* Proofs about MutationRequest, for every set of calls.                   *)
(***************************************************************************)
EXTENDS MutationRequest, TLAPS

-----------------------------------------------------------------------------
(* The inductive invariant *)

\* how far a call is tells what it can have sent and returned
CallShape(c) ==
    /\ call[c] \in {"IDLE", "CONNECT"} => result[c] = "NONE"
    /\ call[c] \in {"IDLE", "CONNECT", "LOOKUP"} => effect[c] = "NONE"
    /\ call[c] = "SENT" => effect[c] # "NONE"
    /\ effect[c] # "NONE" => started
    /\ call[c] = "LOOKUP" /\ result[c] = "FAILED" => late[c]
    /\ Outcome!Agrees(result[c], effect[c])

Idle == \A c \in Calls : call[c] = "IDLE"

\* an error is answered only by a request that never came to its calls
ReplyShape ==
    /\ operation \in {"SETUP", "ATTACHED"} => Idle
    /\ terminal = "ERROR" => operation = "ENDED" /\ Idle
    /\ handler = "WAITING" => terminal = "NONE"
    /\ reply \in {"NONE", "RESULTS", terminal}
    /\ reply = "RESULTS" => \A c \in body : result[c] # "NONE"

ScopeShape ==
    /\ handler \in {"CLOSING", "DONE"} => closing
    /\ handler = "DONE" => scope # "OPEN"

IInv ==
    /\ TypeOK
    /\ \A c \in Calls : CallShape(c)
    /\ ReplyShape
    /\ ScopeShape
    /\ DisconnectIsLogged

LEMMA IInit == Init => IInv
  BY DEF Init, IInv, TypeOK, CallShape, Idle, ReplyShape, ScopeShape, DisconnectIsLogged,
         Outcome!Agrees, Outcome!Effects

-----------------------------------------------------------------------------
(* Each group of steps keeps the invariant *)

LEMMA SetupKeeps ==
  ASSUME IInv, SetupFails \/ AttachScope \/ Serve
  PROVE  IInv'
<1> USE DEF IInv, Throw, Available, bodyVars, handlerVars, resourceVars, callVars, sentVars
<1>1. TypeOK'
  BY DEF TypeOK, SetupFails, AttachScope, Serve
<1>2. \A c \in Calls : CallShape(c)'
  BY DEF TypeOK, CallShape, ReplyShape, Idle, SetupFails, AttachScope, Serve
<1>3. ReplyShape'
  BY DEF TypeOK, ReplyShape, Idle, SetupFails, AttachScope, Serve
<1>4. ScopeShape'
  BY DEF TypeOK, ScopeShape, SetupFails, AttachScope, Serve
<1>5. DisconnectIsLogged'
  BY DEF DisconnectIsLogged, SetupFails, AttachScope, Serve
<1> QED
  BY <1>1, <1>2, <1>3, <1>4, <1>5

LEMMA CallKeeps ==
  ASSUME IInv, CallStep
  PROVE  IInv'
<1> USE DEF IInv, requestVars, bodyVars, handlerVars, resourceVars, callVars, sentVars,
            Answer, Unproven, Connecting, Dispatch
<1> DEFINE Step(c) == \/ Refuse(c) \/ LookupFails(c)
                      \/ DispatchMutation(c) \/ DispatchRefused(c) \/ LookupTooLate(c)
                      \/ MutationAnswers(c) \/ MutationBreaks(c) \/ ToolDeadline(c)
<1>1. CASE Connect
  <2>1. TypeOK'
    BY <1>1 DEF TypeOK, Connect
  <2>2. \A c \in Calls : CallShape(c)'
    BY <1>1 DEF TypeOK, CallShape, Connect, Outcome!Agrees
  <2>3. ReplyShape'
    BY <1>1 DEF TypeOK, ReplyShape, Idle, Connect
  <2>4. ScopeShape' /\ DisconnectIsLogged'
    BY <1>1 DEF ScopeShape, DisconnectIsLogged, Connect
  <2> QED
    BY <2>1, <2>2, <2>3, <2>4
<1>2. ASSUME NEW c \in body, Step(c)
      PROVE  IInv'
  <2>1. c \in Calls
    BY DEF TypeOK
  <2>2. TypeOK'
    <3>1. CASE Refuse(c)
      BY <3>1, <2>1 DEF TypeOK, Refuse
    <3>2. CASE LookupFails(c)
      BY <3>2, <2>1 DEF TypeOK, LookupFails
    <3>3. CASE DispatchMutation(c)
      <4>1. logged' \in BOOLEAN
        BY <3>3, Zenon DEF DispatchMutation
      <4> HIDE DEF Dispatch
      <4>2. /\ call' = [call EXCEPT ![c] = "SENT"] /\ effect' = [effect EXCEPT ![c] = "SENT"]
            /\ started' = TRUE
            /\ UNCHANGED <<requestVars, result, late>>
        BY <3>3 DEF DispatchMutation, Dispatch
      <4> QED
        BY <4>1, <4>2, <2>1 DEF TypeOK, Outcome!Effects
    <3>4. CASE DispatchRefused(c)
      BY <3>4, <2>1 DEF TypeOK, DispatchRefused
    <3>5. CASE LookupTooLate(c)
      BY <3>5, <2>1 DEF TypeOK, LookupTooLate
    <3>6. CASE MutationAnswers(c)
      BY <3>6, <2>1 DEF TypeOK, CallShape, MutationAnswers, Report, Outcome!Effects
    <3>7. CASE MutationBreaks(c)
      BY <3>7, <2>1 DEF TypeOK, MutationBreaks
    <3>8. CASE ToolDeadline(c)
      BY <3>8, <2>1 DEF TypeOK, ToolDeadline
    <3> QED
      BY <1>2, <3>1, <3>2, <3>3, <3>4, <3>5, <3>6, <3>7, <3>8
  <2>3. ASSUME NEW d \in Calls
        PROVE  CallShape(d)'
    <3>1. CASE Refuse(c)
      BY <3>1, <2>1 DEF TypeOK, CallShape, Outcome!Agrees, Refuse
    <3>2. CASE LookupFails(c)
      BY <3>2, <2>1 DEF TypeOK, CallShape, Outcome!Agrees, LookupFails
    <3>3. CASE DispatchMutation(c)
      BY <3>3, <2>1 DEF TypeOK, CallShape, Outcome!Agrees, DispatchMutation
    <3>4. CASE DispatchRefused(c)
      BY <3>4, <2>1 DEF TypeOK, CallShape, Outcome!Agrees, DispatchRefused
    <3>5. CASE LookupTooLate(c)
      BY <3>5, <2>1 DEF TypeOK, CallShape, Outcome!Agrees, LookupTooLate
    <3>6. CASE MutationAnswers(c)
      <4>1. effect[c] \in {"APPLIED", "PARTIAL", "REJECTED"}
        BY <3>6, <2>1 DEF TypeOK, CallShape, MutationAnswers, Outcome!Effects
      <4> QED
        BY <3>6, <4>1, <2>1 DEF TypeOK, CallShape, Outcome!Agrees, MutationAnswers, Report
    <3>7. CASE MutationBreaks(c)
      BY <3>7, <2>1 DEF TypeOK, CallShape, Outcome!Agrees, MutationBreaks
    <3>8. CASE ToolDeadline(c)
      BY <3>8, <2>1 DEF TypeOK, CallShape, Outcome!Agrees, ToolDeadline
    <3> QED
      BY <1>2, <3>1, <3>2, <3>3, <3>4, <3>5, <3>6, <3>7, <3>8
  <2>4. ReplyShape'
    BY <1>2, <2>1 DEF TypeOK, ReplyShape, Idle, Report, Outcome!Effects, Refuse, LookupFails,
       DispatchMutation, DispatchRefused, LookupTooLate, MutationAnswers, MutationBreaks,
       ToolDeadline
  <2>5. ScopeShape'
    BY <1>2 DEF ScopeShape, Refuse, LookupFails, DispatchMutation, DispatchRefused,
       LookupTooLate, MutationAnswers, MutationBreaks, ToolDeadline
  <2>6. CASE DispatchMutation(c)
    <3>1. DisconnectIsLogged'
      BY <2>6 DEF TypeOK, DisconnectIsLogged, DispatchMutation
    <3> QED
      BY <2>2, <2>3, <2>4, <2>5, <3>1
  <2>7. CASE ~DispatchMutation(c)
    <3>1. UNCHANGED <<logged, connection, started>>
      BY <1>2, <2>7 DEF Refuse, LookupFails, DispatchRefused, LookupTooLate, MutationAnswers,
         MutationBreaks, ToolDeadline
    <3>2. DisconnectIsLogged'
      BY <3>1 DEF DisconnectIsLogged
    <3> QED
      BY <2>2, <2>3, <2>4, <2>5, <3>2
  <2> QED
    BY <2>6, <2>7
<1> QED
  BY <1>1, <1>2 DEF CallStep

LEMMA DecideKeeps ==
  ASSUME IInv, NEW c \in body, Decide(c)
  PROVE  IInv'
<1> USE DEF IInv, Decide, requestVars, bodyVars, handlerVars, resourceVars, callVars
<1>1. c \in Calls
  BY DEF TypeOK
<1>2. TypeOK'
  BY <1>1 DEF TypeOK, Outcome!Effects
<1>3. \A d \in Calls : CallShape(d)'
  BY <1>1 DEF TypeOK, CallShape, Outcome!Agrees
<1>4. ReplyShape' /\ ScopeShape' /\ DisconnectIsLogged'
  BY DEF ReplyShape, Idle, ScopeShape, DisconnectIsLogged
<1> QED
  BY <1>2, <1>3, <1>4

Handling ==
    \/ WriteResults \/ ResponseFinishes \/ Disconnect \/ CloseScope
    \/ RequestDeadline \/ AnswerError \/ Finalize \/ Return

LEMMA HandlingKeeps ==
  ASSUME IInv, Handling
  PROVE  IInv'
<1> USE DEF IInv, ResponseOver, bodyVars, handlerVars, resourceVars, callVars, sentVars
<1>1. TypeOK'
  <2>1. CASE WriteResults
    BY <2>1 DEF TypeOK, WriteResults
  <2>2. CASE ResponseFinishes
    BY <2>2 DEF TypeOK, ResponseFinishes
  <2>3. CASE Disconnect
    BY <2>3 DEF TypeOK, Disconnect
  <2>4. CASE CloseScope
    BY <2>4 DEF TypeOK, CloseScope
  <2>5. CASE RequestDeadline
    BY <2>5 DEF TypeOK, RequestDeadline
  <2>6. CASE AnswerError
    BY <2>6 DEF TypeOK, AnswerError
  <2>7. CASE Finalize
    BY <2>7 DEF TypeOK, Finalize
  <2>8. CASE Return
    BY <2>8 DEF TypeOK, Return
  <2> QED
    BY <2>1, <2>2, <2>3, <2>4, <2>5, <2>6, <2>7, <2>8 DEF Handling
<1>2. \A c \in Calls : CallShape(c)'
  BY DEF CallShape, Handling, WriteResults, ResponseFinishes, Disconnect,
     CloseScope, RequestDeadline, AnswerError, Finalize, Return
<1>3. ReplyShape'
  BY DEF TypeOK, ReplyShape, Idle, Handling, WriteResults, ResponseFinishes, Disconnect,
     CloseScope, RequestDeadline, AnswerError, Finalize, Return
<1>4. ScopeShape'
  BY DEF TypeOK, ScopeShape, Handling, WriteResults, ResponseFinishes, Disconnect,
     CloseScope, RequestDeadline, AnswerError, Finalize, Return
<1>5. DisconnectIsLogged'
  BY DEF TypeOK, DisconnectIsLogged, Handling, WriteResults, ResponseFinishes, Disconnect,
     CloseScope, RequestDeadline, AnswerError, Finalize, Return
<1> QED
  BY <1>1, <1>2, <1>3, <1>4, <1>5

LEMMA IStep == IInv /\ [Next]_vars => IInv'
<1> SUFFICES ASSUME IInv, [Next]_vars
             PROVE  IInv'
  OBVIOUS
<1>1. CASE UNCHANGED vars
  BY <1>1 DEF IInv, TypeOK, CallShape, Idle, ReplyShape, ScopeShape, DisconnectIsLogged, vars,
     bodyVars, handlerVars, resourceVars, callVars, sentVars
<1>2. CASE Over
  BY <1>1, <1>2 DEF Over
<1>3. CASE \E c \in body : Decide(c)
  BY <1>3, DecideKeeps
<1> QED
  BY <1>1, <1>2, <1>3, SetupKeeps, CallKeeps, HandlingKeeps DEF Next, Handling

LEMMA Invariance == Spec => []IInv
  BY IInit, IStep, PTL DEF Spec

-----------------------------------------------------------------------------
(* The properties of the runs, for every set of calls *)

(* Every variable keeps its type: the results and effects of all calls are among those the  *)
(* facade and Salesforce know.                                                              *)
THEOREM TypeCorrect == Spec => []TypeOK
  BY Invariance, PTL DEF IInv

(* What a call returned never disagrees with what became of its mutation, in batches of any *)
(* size and whatever deadlines, broken connections or clients that leave do in between.     *)
THEOREM ResultsTrue == Spec => []ResultsAreTrue
<1>1. IInv => ResultsAreTrue
  BY DEF IInv, CallShape, ResultsAreTrue
<1> QED
  BY Invariance, <1>1, PTL

(* A request whose handler has returned holds no open scope, whenever setup attached it.    *)
THEOREM ScopeClosed == Spec => []ScopeClosedWhenDone
<1>1. IInv => ScopeClosedWhenDone
  BY DEF IInv, ScopeShape, ScopeClosedWhenDone
<1> QED
  BY Invariance, <1>1, PTL

(* A client lost after a dispatch is on record, in either order, and nothing else is.       *)
THEOREM DisconnectLogged == Spec => []DisconnectIsLogged
  BY Invariance, PTL DEF IInv

\* only the step that dispatches a mutation makes it anything but unsent
LEMMA OnlyDispatchSends ==
  ASSUME IInv, [Next]_vars, NEW c \in Calls, effect[c] = "NONE", effect'[c] # "NONE"
  PROVE  c \in body /\ DispatchMutation(c)
<1> USE DEF bodyVars, handlerVars, resourceVars, callVars, sentVars, requestVars
<1>1. Next
  BY DEF vars
<1>2. effect' # effect
  OBVIOUS
<1>3. CASE \E d \in body : Decide(d)
  BY <1>3 DEF IInv, TypeOK, Decide
<1>4. ~(SetupFails \/ AttachScope \/ Serve \/ Handling \/ Over)
  BY <1>2 DEF SetupFails, AttachScope, Serve, Handling, Over, vars, ResponseOver, WriteResults,
     ResponseFinishes, Disconnect, CloseScope, RequestDeadline, AnswerError, Finalize, Return
<1>5. CASE CallStep
  <2>1. PICK d \in body : DispatchMutation(d)
    BY <1>2, <1>5 DEF CallStep, Connect, Refuse, LookupFails, DispatchRefused, LookupTooLate,
       MutationAnswers, MutationBreaks, ToolDeadline
  <2>2. effect' = [effect EXCEPT ![d] = "SENT"]
    BY <2>1 DEF DispatchMutation, Dispatch
  <2>3. d = c
    BY <2>2 DEF IInv, TypeOK
  <2> QED
    BY <2>1, <2>3
<1> QED
  BY <1>1, <1>3, <1>4, <1>5 DEF Next, Handling

(* Work that outlives handleRemoteRequest dispatches no mutation: every dispatch needs the  *)
(* scope, which is closed by then and never opened again.                                   *)
THEOREM NothingAfterward == Spec => NothingSentAfterward
<1>1. IInv /\ [Next]_vars
      => [handler = "DONE" => \A c \in Calls : effect[c] = "NONE" => effect'[c] = "NONE"]_vars
  BY OnlyDispatchSends DEF IInv, ScopeShape, DispatchMutation
<1> QED
  BY Invariance, <1>1, PTL DEF Spec, NothingSentAfterward

-----------------------------------------------------------------------------
(* The request implements MutationOutcome *)

LEMMA ResultsStick ==
  ASSUME IInv, [Next]_vars, NEW c \in Calls, result[c] # "NONE"
  PROVE  result'[c] = result[c]
<1> USE DEF bodyVars, handlerVars, resourceVars, callVars, sentVars, requestVars, IInv
<1>1. ASSUME SetupFails \/ AttachScope \/ Serve \/ Handling \/ Over \/ (\E d \in body : Decide(d))
      PROVE  UNCHANGED result
  BY <1>1 DEF SetupFails, AttachScope, Serve, Handling, Over, vars, ResponseOver, WriteResults,
     ResponseFinishes, Disconnect, CloseScope, RequestDeadline, AnswerError, Finalize, Return, Decide
<1>2. CASE Connect
  BY <1>2 DEF CallShape, Connect, Connecting
<1>3. ASSUME NEW d \in body,
             \/ Refuse(d) \/ LookupFails(d)
             \/ DispatchMutation(d) \/ DispatchRefused(d) \/ LookupTooLate(d)
             \/ MutationAnswers(d) \/ MutationBreaks(d) \/ ToolDeadline(d)
      PROVE  result'[c] = result[c]
  <2>1. UNCHANGED result \/ \E r : Answer(d, r)
    BY <1>3 DEF Refuse, LookupFails, DispatchMutation, Dispatch, DispatchRefused, LookupTooLate,
       MutationAnswers, MutationBreaks, ToolDeadline
  <2>2. d \in Calls
    BY DEF TypeOK
  <2> QED
    BY <2>1, <2>2 DEF TypeOK, Answer
<1> QED
  BY <1>1, <1>2, <1>3 DEF Next, CallStep, Handling, vars

LEMMA ReplyIsOne ==
  ASSUME [Next]_vars
  PROVE  /\ UNCHANGED body
         /\ reply' # reply => reply = "NONE" /\ effect' = effect
<1> USE DEF bodyVars, handlerVars, resourceVars, callVars, sentVars, requestVars
<1>1. CASE CallStep
  BY <1>1 DEF CallStep, Connect, Refuse, LookupFails, DispatchMutation, Dispatch, DispatchRefused,
     LookupTooLate, MutationAnswers, MutationBreaks, ToolDeadline
<1>2. CASE ~CallStep
  BY <1>2 DEF Next, SetupFails, AttachScope, Serve, Over, vars, Decide, ResponseOver, WriteResults,
     ResponseFinishes, Disconnect, CloseScope, RequestDeadline, AnswerError, Finalize, Return
<1> QED
  BY <1>1, <1>2

LEMMA ToldStays ==
  ASSUME IInv, [Next]_vars, reply' = reply
  PROVE  told' = told
<1>1. UNCHANGED body
  BY ReplyIsOne
<1>2. CASE reply = "RESULTS"
  <2>1. \A c \in body : result'[c] = result[c]
    BY <1>2, ResultsStick DEF IInv, TypeOK, ReplyShape
  <2> QED
    BY <1>1, <1>2, <2>1 DEF told, Told
<1>3. CASE reply # "RESULTS"
  BY <1>1, <1>3 DEF told, Told
<1> QED
  BY <1>2, <1>3

ToldIsTrue ==
    /\ told \in [Calls -> Outcome!Verdicts]
    /\ \A c \in Calls : Outcome!Agrees(told[c], effect[c])

LEMMA ToldTrue == IInv => ToldIsTrue
<1> SUFFICES ASSUME IInv
             PROVE  ToldIsTrue
  OBVIOUS
<1>1. ASSUME NEW c \in Calls
      PROVE  told[c] \in Outcome!Verdicts /\ Outcome!Agrees(told[c], effect[c])
  <2>1. CASE c \notin body \/ reply = "NONE"
    <3>1. told[c] = "NOTHING"
      BY <2>1 DEF told, Told
    <3> QED
      BY <3>1 DEF Outcome!Verdicts, Outcome!Agrees
  <2>2. CASE c \in body /\ reply = "ERROR"
    <3>1. told[c] = "FAILED"
      BY <2>2 DEF told, Told
    <3>2. effect[c] = "NONE"
      BY <2>2 DEF IInv, ReplyShape, Idle, CallShape
    <3> QED
      BY <3>1, <3>2 DEF Outcome!Verdicts, Outcome!Agrees
  <2>3. CASE c \in body /\ reply \in {"TIMEOUT", "UNKNOWN"}
    BY <2>3 DEF told, Told, Outcome!Verdicts, Outcome!Agrees
  <2>4. CASE c \in body /\ reply = "RESULTS"
    <3>1. told[c] = result[c] /\ result[c] # "NONE"
      BY <2>4 DEF told, Told, IInv, ReplyShape
    <3> QED
      BY <3>1 DEF IInv, TypeOK, CallShape, Outcome!Verdicts
  <2> QED
    BY <2>1, <2>2, <2>3, <2>4 DEF IInv, TypeOK
<1>2. \A c \in Calls : Told(c) = told[c]
  BY DEF told
<1>3. told \in [Calls -> Outcome!Verdicts]
  BY <1>1, <1>2 DEF told
<1> QED
  BY <1>1, <1>3 DEF ToldIsTrue

(* The one HTTP response stays true of every call it speaks of: what it calls applied was    *)
(* applied, and what it calls failed, by a result or by an error, Salesforce never applies.  *)
THEOREM ResponseStaysTrue == Spec => [](\A c \in Calls : Outcome!Agrees(told[c], effect[c]))
<1>1. IInv => \A c \in Calls : Outcome!Agrees(told[c], effect[c])
  BY ToldTrue DEF ToldIsTrue
<1> QED
  BY Invariance, <1>1, PTL

LEMMA OutcomeStep == IInv /\ IInv' /\ [Next]_vars => [Outcome!Next]_<<effect, told>>
<1> SUFFICES ASSUME IInv, IInv', [Next]_vars
             PROVE  [Outcome!Next]_<<effect, told>>
  OBVIOUS
<1>1. CASE reply' # reply
  <2>1. reply = "NONE" /\ effect' = effect
    BY <1>1, ReplyIsOne
  <2>2. \A c \in Calls : told[c] = "NOTHING"
    BY <2>1 DEF told, Told
  <2>3. ToldIsTrue'
    BY ToldTrue, PTL
  <2>4. Outcome!Tell
    BY <2>1, <2>2, <2>3 DEF ToldIsTrue, Outcome!Tell
  <2> QED
    BY <2>4 DEF Outcome!Next
<1>2. CASE reply' = reply /\ effect' # effect
  <2>1. told' = told
    BY <1>2, ToldStays
  <2>2. CASE \E c \in body : Decide(c)
    <3>1. PICK c \in body : Decide(c)
      BY <2>2
    <3>2. c \in Calls /\ Outcome!Decide(c)
      BY <2>1, <3>1 DEF IInv, TypeOK, Decide, Outcome!Decide
    <3> QED
      BY <3>2 DEF Outcome!Next
  <2>3. CASE ~\E c \in body : Decide(c)
    <3>1. PICK c \in body : DispatchMutation(c)
      BY <1>2, <2>3 DEF Next, CallStep, Connect, Refuse, LookupFails, DispatchRefused, LookupTooLate,
         MutationAnswers, MutationBreaks, ToolDeadline, SetupFails, AttachScope, Serve, Over,
         vars, ResponseOver, WriteResults, ResponseFinishes, Disconnect, CloseScope,
         RequestDeadline, AnswerError, Finalize, Return, callVars, sentVars
    <3>2. c \in Calls
      BY DEF IInv, TypeOK
    <3>3. effect[c] = "NONE" /\ effect' = [effect EXCEPT ![c] = "SENT"]
      BY <3>1, <3>2 DEF IInv, CallShape, DispatchMutation, Dispatch
    <3>4. reply # "ERROR"
      BY <3>1, <3>2 DEF IInv, ReplyShape, Idle, DispatchMutation
    <3>5. result[c] # "FAILED"
      BY <3>1, <3>2 DEF IInv, CallShape, DispatchMutation
    <3>6. told[c] # "FAILED"
      BY <3>2, <3>4, <3>5 DEF told, Told, IInv, TypeOK
    <3>7. Outcome!Send(c)
      BY <2>1, <3>3, <3>6 DEF Outcome!Send
    <3> QED
      BY <3>2, <3>7 DEF Outcome!Next
  <2> QED
    BY <2>2, <2>3
<1>3. CASE reply' = reply /\ effect' = effect
  BY <1>3, ToldStays
<1> QED
  BY <1>1, <1>2, <1>3

(* A request keeps the promise of MutationOutcome: each mutation is sent at most once, what *)
(* the one response says is true, and a call it reports as failed is not sent afterwards.   *)
THEOREM Implements == Spec => ImplementsOutcome
<1>1. Init => Outcome!Init
  <2> SUFFICES ASSUME Init
               PROVE  Outcome!Init
    OBVIOUS
  <2>1. \A c \in Calls : Told(c) = "NOTHING"
    BY DEF Init, Told
  <2> QED
    BY <2>1 DEF Init, told, Outcome!Init
<1> QED
  BY Invariance, <1>1, OutcomeStep, PTL DEF Spec, ImplementsOutcome, Outcome!Spec

-----------------------------------------------------------------------------
(* When a call that has its result is still sent, against what the code says of it *)

\* the shared state has started because of a mutation of the body
StartedBySending == started => \E c \in body : effect[c] # "NONE"

\* a deadline that did not stop a call found the state started
DeadlineStops(c) == call[c] = "LOOKUP" /\ result[c] # "NONE" => late[c] \/ started

SingleCall == ~batch => \E c \in Calls : body = {c}

LateInv ==
    /\ IInv
    /\ StartedBySending
    /\ \A c \in Calls : DeadlineStops(c)
    /\ SingleCall

LEMMA BodyStays == ASSUME [Next]_vars PROVE UNCHANGED <<body, batch>>
<1> USE DEF bodyVars, handlerVars, resourceVars, callVars, sentVars, requestVars
<1>1. CASE CallStep
  BY <1>1 DEF CallStep, Connect, Refuse, LookupFails, DispatchMutation, Dispatch, DispatchRefused,
     LookupTooLate, MutationAnswers, MutationBreaks, ToolDeadline
<1>2. CASE ~CallStep
  BY <1>2 DEF Next, SetupFails, AttachScope, Serve, Over, vars, Decide, ResponseOver, WriteResults,
     ResponseFinishes, Disconnect, CloseScope, RequestDeadline, AnswerError, Finalize, Return
<1> QED
  BY <1>1, <1>2

\* steps that are no calls' leave what the calls share alone
OtherStep ==
    \/ SetupFails \/ AttachScope \/ Serve \/ Handling \/ Over \/ UNCHANGED vars
    \/ \E c \in body : Decide(c)

LEMMA OtherSteps ==
  ASSUME IInv, OtherStep
  PROVE  /\ UNCHANGED <<started, result, late>>
         /\ \A c \in Calls : /\ call'[c] = "LOOKUP" => call[c] = "LOOKUP"
                             /\ effect[c] # "NONE" => effect'[c] # "NONE"
<1> USE DEF bodyVars, handlerVars, resourceVars, callVars, sentVars, requestVars
<1>1. UNCHANGED <<started, result, late>>
  BY DEF OtherStep, SetupFails, AttachScope, Serve, Handling, Over, vars, Decide, ResponseOver,
     WriteResults, ResponseFinishes, Disconnect, CloseScope, RequestDeadline, AnswerError, Finalize,
     Return
<1>2. ASSUME NEW c \in Calls
      PROVE  call'[c] = "LOOKUP" => call[c] = "LOOKUP"
  BY DEF OtherStep, SetupFails, AttachScope, Serve, Handling, Over, vars, Decide, ResponseOver,
     WriteResults, ResponseFinishes, Disconnect, CloseScope, RequestDeadline, AnswerError, Finalize,
     Return
<1>3. ASSUME NEW c \in Calls, effect[c] # "NONE"
      PROVE  effect'[c] # "NONE"
  <2>1. CASE \E d \in body : Decide(d)
    BY <1>3, <2>1 DEF IInv, TypeOK, Decide
  <2>2. CASE ~\E d \in body : Decide(d)
    BY <1>3, <2>2 DEF OtherStep, SetupFails, AttachScope, Serve, Handling, Over, vars, ResponseOver,
       WriteResults, ResponseFinishes, Disconnect, CloseScope, RequestDeadline, AnswerError, Finalize,
       Return
  <2> QED
    BY <2>1, <2>2
<1> QED
  BY <1>1, <1>2, <1>3

\* a step of call c: it sends its mutation, it meets its deadline, or it leaves its lookup
OneCall(c) ==
    \/ /\ DispatchMutation(c)
       /\ started' = TRUE /\ effect' = [effect EXCEPT ![c] = "SENT"]
       /\ call' = [call EXCEPT ![c] = "SENT"] /\ UNCHANGED <<result, late>>
    \/ /\ late' = [late EXCEPT ![c] = ~started] /\ result[c] = "NONE"
       /\ \A d \in Calls \ {c} : result'[d] = result[d]
       /\ UNCHANGED <<call, started, effect>>
    \/ /\ call' = [call EXCEPT ![c] = "ENDED"]
       /\ \A d \in Calls \ {c} : result'[d] = result[d]
       /\ UNCHANGED <<late, started, effect>>

LEMMA CallSteps ==
  ASSUME IInv, CallStep
  PROVE  Connect \/ \E c \in body : OneCall(c)
<1> USE DEF bodyVars, callVars, sentVars, requestVars
<1>1. ASSUME NEW c \in body,
             \/ Refuse(c) \/ LookupFails(c) \/ DispatchRefused(c) \/ LookupTooLate(c)
             \/ MutationAnswers(c) \/ MutationBreaks(c)
      PROVE  OneCall(c)
  <2>1. UNCHANGED result \/ \E r : Answer(c, r)
    BY <1>1 DEF Refuse, LookupFails, DispatchRefused, LookupTooLate, MutationAnswers, MutationBreaks
  <2>2. \A d \in Calls \ {c} : result'[d] = result[d]
    BY <2>1 DEF Answer, IInv, TypeOK
  <2>3. call' = [call EXCEPT ![c] = "ENDED"] /\ UNCHANGED <<late, started, effect>>
    BY <1>1 DEF Refuse, LookupFails, DispatchRefused, LookupTooLate, MutationAnswers, MutationBreaks
  <2> QED
    BY <2>2, <2>3 DEF OneCall
<1>2. ASSUME NEW c \in body, ToolDeadline(c)
      PROVE  OneCall(c)
  BY <1>2 DEF ToolDeadline, OneCall, Answer, IInv, TypeOK
<1>3. ASSUME NEW c \in body, DispatchMutation(c)
      PROVE  OneCall(c)
  <2>1. Dispatch(c)
    BY <1>3 DEF DispatchMutation
  <2> QED
    BY <1>3, <2>1 DEF Dispatch, OneCall
<1> QED
  BY <1>1, <1>2, <1>3 DEF CallStep

LEMMA LateInit == Init => LateInv
  BY IInit DEF Init, LateInv, StartedBySending, DeadlineStops, SingleCall

LEMMA LateStep == LateInv /\ [Next]_vars => LateInv'
<1> SUFFICES ASSUME LateInv, [Next]_vars
             PROVE  LateInv'
  OBVIOUS
<1> USE DEF LateInv
<1>1. IInv' /\ UNCHANGED <<body, batch>> /\ body \subseteq Calls
  BY IStep, BodyStays DEF IInv, TypeOK
<1>2. SingleCall'
  BY <1>1 DEF SingleCall
<1>3. CASE OtherStep
  <2>1. StartedBySending'
    BY <1>1, <1>3, OtherSteps DEF StartedBySending
  <2>2. \A c \in Calls : DeadlineStops(c)'
    BY <1>3, OtherSteps DEF DeadlineStops
  <2> QED
    BY <1>1, <1>2, <2>1, <2>2
<1>4. CASE Connect
  <2>1. UNCHANGED <<late, started, effect>>
    BY <1>4 DEF Connect, sentVars
  <2>2. StartedBySending'
    BY <1>1, <2>1 DEF StartedBySending
  <2>3. ASSUME NEW c \in Calls
        PROVE  DeadlineStops(c)'
    <3>1. CASE c \in Connecting
      <4>1. result[c] = "NONE"
        BY <3>1 DEF Connecting, IInv, CallShape
      <4> QED
        BY <1>4, <3>1, <4>1 DEF Connect, DeadlineStops
    <3>2. CASE c \notin Connecting
      BY <1>4, <2>1, <3>2 DEF Connect, DeadlineStops
    <3> QED
      BY <3>1, <3>2
  <2> QED
    BY <1>1, <1>2, <2>2, <2>3
<1>5. ASSUME NEW c \in body, OneCall(c)
      PROVE  LateInv'
  <2>1. StartedBySending'
    BY <1>1, <1>5 DEF StartedBySending, OneCall, IInv, TypeOK
  <2>2. \A d \in Calls : DeadlineStops(d)'
    BY <1>1, <1>5 DEF DeadlineStops, OneCall, IInv, TypeOK
  <2> QED
    BY <1>1, <1>2, <2>1, <2>2
<1>6. OtherStep \/ CallStep
  BY DEF Next, OtherStep, Handling
<1> QED
  BY <1>3, <1>4, <1>5, <1>6, CallSteps

LEMMA LateInvariance == Spec => []LateInv
  BY LateInit, LateStep, PTL DEF Spec

LEMMA LateDispatch ==
  ASSUME LateInv, [Next]_vars, NEW c \in Calls,
         result[c] # "NONE", effect[c] = "NONE", effect'[c] # "NONE"
  PROVE  result[c] = "UNKNOWN" /\ batch /\ \E d \in body \ {c} : effect[d] # "NONE"
<1>1. c \in body /\ DispatchMutation(c)
  BY OnlyDispatchSends DEF LateInv
<1>2. call[c] = "LOOKUP" /\ ~late[c]
  BY <1>1 DEF DispatchMutation
<1>3. started /\ \E d \in body \ {c} : effect[d] # "NONE"
  BY <1>2 DEF LateInv, DeadlineStops, StartedBySending
<1>4. batch
  BY <1>1, <1>3 DEF LateInv, SingleCall
<1>5. result[c] = "UNKNOWN"
  BY <1>2 DEF LateInv, IInv, TypeOK, CallShape, Outcome!Agrees
<1> QED
  BY <1>3, <1>4, <1>5

(* What NothingSentLate promises fails in one way only: a call of a batch is sent behind    *)
(* its answer because another call of the batch had started the shared mutation state, and  *)
(* its answer was "unknown outcome" (the deadline of dml-tool-facade.ts reads hasStarted).  *)
THEOREM SentLateOnlyBehindAnother ==
  Spec => [][\A c \in Calls : result[c] # "NONE" /\ effect[c] = "NONE" /\ effect'[c] # "NONE"
               => result[c] = "UNKNOWN" /\ batch /\ \E d \in body \ {c} : effect[d] # "NONE"]_vars
<1>1. LateInv /\ [Next]_vars
      => [\A c \in Calls : result[c] # "NONE" /\ effect[c] = "NONE" /\ effect'[c] # "NONE"
            => result[c] = "UNKNOWN" /\ batch /\ \E d \in body \ {c} : effect[d] # "NONE"]_vars
  BY LateDispatch
<1> QED
  BY LateInvariance, <1>1, PTL DEF Spec

(* The one call of a body that is no batch keeps the promise of the comment: once it has    *)
(* its result it sends nothing any more.                                                    *)
THEOREM SingleCallNotSentLate == Spec /\ ~batch => NothingSentLate
<1>1. LateInv /\ ~batch /\ [Next]_vars
      => [\A c \in Calls : result[c] # "NONE" /\ effect[c] = "NONE" => effect'[c] = "NONE"]_vars
  BY LateDispatch
<1>2. ~batch /\ [Next]_vars => ~batch'
  BY BodyStays
<1> QED
  BY LateInvariance, <1>1, <1>2, PTL DEF Spec, NothingSentLate
=============================================================================
