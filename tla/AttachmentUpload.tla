-------------------------- MODULE AttachmentUpload --------------------------
(***************************************************************************)
(* The tool upload_files_to_record of sfoa-mcp-server publishes staged     *)
(* files as Salesforce Files on one record: per file it resolves the       *)
(* reference, proves the target once, opens the copy, sends it, and        *)
(* records the outcome.  The tool has a deadline which does not stop the   *)
(* upload behind it, and every call competes with other calls, with the    *)
(* overflow of its owner and with the reaper for the staged files.         *)
(*                                                                         *)
(* Source: attachment-upload.ts, attachment-tool-facade.ts and timeouts.ts *)
(* together with the ingress (AttachmentStaging).  Input validation and    *)
(* object policy, which refuse a call before anything happens, evidence    *)
(* and audit are left out.  Salesforce itself is external: it publishes or *)
(* refuses what was sent to it, at any time, or never.                     *)
(***************************************************************************)
EXTENDS AttachmentStaging, Sequences

CONSTANTS
    Calls,      \* executions of the tool, one request each
    Requester,  \* call -> platform user
    Refs        \* call -> the files it names, in order

ASSUME CallsAssumption ==
    /\ Requester \in [Calls -> {Owner[f] : f \in Files}]
    /\ Refs \in [Calls -> Seq(Files) \ {<<>>}]

VARIABLES
    pc,          \* call -> the await its upload is suspended at
    results,     \* call -> the results of its files so far
    targetSeen,  \* mediaUploaded: the target record was proven
    started,     \* uploadStarted
    answer,      \* the status the caller of the tool was given
    scopeOpen,   \* the request scope still gives a connection
    salesforce   \* call -> position -> what Salesforce did with the file

callVars == <<pc, results, targetSeen, started, answer, scopeOpen>>
vars == <<stagingVars, callVars, salesforce>>

UploadInit ==
    /\ Init
    /\ pc = [c \in Calls |-> "READY"]
    /\ results = [c \in Calls |-> <<>>]
    /\ targetSeen = [c \in Calls |-> FALSE]
    /\ started = [c \in Calls |-> FALSE]
    /\ answer = [c \in Calls |-> "NONE"]
    /\ scopeOpen = [c \in Calls |-> TRUE]
    /\ salesforce = [c \in Calls |-> [i \in DOMAIN Refs[c] |-> "UNSENT"]]

Position(c) == Len(results[c]) + 1
File(c) == Refs[c][Position(c)]

Count(outcome, list) == Cardinality({i \in DOMAIN list : list[i] = outcome})

\* aggregateAttachmentOutcome
Aggregate(list) ==
    IF Count("OUTCOME_UNKNOWN", list) > 0 THEN "OUTCOME_UNKNOWN"
    ELSE IF Count("SUCCESS", list) = Len(list) THEN "SUCCESS"
    ELSE IF Count("SUCCESS", list) > 0 THEN "PARTIAL_SUCCESS"
    ELSE "FAILED"

\* the promise the facade races settles: its caller gets the first answer only
Answered(c, status) == answer' = IF answer[c] = "NONE" THEN [answer EXCEPT ![c] = status] ELSE answer

\* Faulty variant: the aggregate of what has settled, also when a file is in flight.
InterruptedAggregate(c) ==
    IF started[c] THEN Aggregate(results[c]) ELSE "ERROR"

\* the answer when the upload did not run to completion
Interrupted(c) == IF started[c] THEN "OUTCOME_UNKNOWN" ELSE "ERROR"

\* upload() returns with its last result
Conclude(c, list) ==
    /\ results' = [results EXCEPT ![c] = list]
    /\ pc' = [pc EXCEPT ![c] = "OVER"]
    /\ Answered(c, Aggregate(list))

\* upload() throws
Throw(c) ==
    /\ pc' = [pc EXCEPT ![c] = "OVER"]
    /\ Answered(c, Interrupted(c))
    /\ UNCHANGED <<results, targetSeen, started, scopeOpen>>

\* the result of one file, and the next file if there is one
Settle(c, outcome) ==
    LET list == Append(results[c], outcome) IN
    /\ \/ /\ Len(list) = Len(Refs[c])
          /\ Conclude(c, list)
       \/ /\ Len(list) < Len(Refs[c])
          /\ results' = [results EXCEPT ![c] = list]
          /\ pc' = [pc EXCEPT ![c] = "RESOLVE"]
          /\ UNCHANGED answer
    /\ UNCHANGED <<targetSeen, started, scopeOpen>>

GoOn(c, place) ==
    /\ pc' = [pc EXCEPT ![c] = place]
    /\ UNCHANGED <<results, targetSeen, started, answer, scopeOpen>>

Reaches(c, place) == pc[c] = place /\ UNCHANGED <<stagingVars, salesforce>>

-----------------------------------------------------------------------------
(* upload() *)

Begin(c) == Reaches(c, "READY") /\ GoOn(c, "RESOLVE")

Resolvable(c) ==
    /\ row[File(c)] = "STAGED" /\ File(c) \notin expired
    /\ Owner[File(c)] = Requester[c]

\* resolveForOwner refuses the reference, or fails with the database: a result of its own,
\* and the call goes on
Unresolved(c) == Reaches(c, "RESOLVE") /\ Settle(c, "FAILED")

Resolve(c) ==
    /\ Reaches(c, "RESOLVE") /\ Resolvable(c)
    /\ GoOn(c, IF targetSeen[c] THEN "OPEN" ELSE "CONNECT")

\* assertTargetVisible: the connection, then the target
Connect(c) ==
    /\ Reaches(c, "CONNECT")
    /\ \/ scopeOpen[c] /\ GoOn(c, "TARGET")
       \/ Throw(c)

TargetAnswers(c) ==
    /\ Reaches(c, "TARGET")
    /\ \/ /\ pc' = [pc EXCEPT ![c] = "OPEN"]
          /\ targetSeen' = [targetSeen EXCEPT ![c] = TRUE]
          /\ UNCHANGED <<results, started, answer, scopeOpen>>
       \/ Throw(c)

\* openForUpload succeeds, or the copy is gone or unreadable
Open(c) ==
    /\ Reaches(c, "OPEN")
    /\ \/ File(c) \in disk /\ GoOn(c, "OPENED")
       \/ GoOn(c, "MARK_FAILED")

\* the connection again, which a closed scope refuses, and the POST
Send(c) ==
    /\ pc[c] = "OPENED" /\ scopeOpen[c]
    /\ salesforce' = [salesforce EXCEPT ![c][Position(c)] = "SENT"]
    /\ started' = [started EXCEPT ![c] = TRUE]
    /\ pc' = [pc EXCEPT ![c] = "SENT"]
    /\ UNCHANGED <<stagingVars, results, targetSeen, answer, scopeOpen>>

SendRefused(c) == Reaches(c, "OPENED") /\ ~scopeOpen[c] /\ Throw(c)

\* Salesforce decides, whether or not anybody still waits for its answer
Decide(c, i, verdict) ==
    /\ salesforce[c][i] = "SENT"
    /\ salesforce' = [salesforce EXCEPT ![c][i] = verdict]
    /\ UNCHANGED <<stagingVars, callVars>>

\* the answer arrives, and the id of the document is looked up
Published(c) ==
    /\ Reaches(c, "SENT") /\ salesforce[c][Position(c)] = "PUBLISHED"
    /\ GoOn(c, "MARK_CONSUMED")

\* Salesforce refuses the file in its own format
Refused(c) ==
    /\ Reaches(c, "SENT") /\ salesforce[c][Position(c)] = "REFUSED"
    /\ GoOn(c, "MARK_FAILED")

\* Faulty variant: a file without an answer has failed.
UnansweredFails(c) ==
    /\ Reaches(c, "SENT")
    /\ Settle(c, "FAILED")

\* no answer, one that is cut off or one that is not of Salesforce: the outcome is
\* unknown, and nothing more is sent
Unanswered(c) ==
    /\ Reaches(c, "SENT")
    /\ Conclude(c, [i \in DOMAIN Refs[c] |-> IF i < Position(c) THEN results[c][i]
                                             ELSE IF i = Position(c) THEN "OUTCOME_UNKNOWN"
                                             ELSE "NOT_ATTEMPTED"])
    /\ UNCHANGED <<targetSeen, started, scopeOpen>>

\* Faulty variant: the copy is removed, the row stays as it is.
MarkConsumedNothing(c) ==
    /\ pc[c] = "MARK_CONSUMED"
    /\ GoOn(c, "REMOVE_COPY")
    /\ UNCHANGED <<stagingVars, salesforce>>

\* complete: the row, then the copy
MarkConsumed(c) ==
    /\ pc[c] = "MARK_CONSUMED"
    /\ row' = Marked(File(c), "CONSUMED")
    /\ GoOn(c, "REMOVE_COPY")
    /\ UNCHANGED <<staging, rowId, disk, expired, sweep, unlinked, crashes, salesforce>>

RemoveCopy(c) ==
    /\ pc[c] = "REMOVE_COPY"
    /\ disk' = disk \ {File(c)}
    /\ Settle(c, "SUCCESS")
    /\ UNCHANGED <<staging, row, rowId, expired, sweep, unlinked, crashes, salesforce>>

\* fail: the row only
MarkFailed(c) ==
    /\ pc[c] = "MARK_FAILED"
    /\ row' = Marked(File(c), "FAILED")
    /\ Settle(c, "FAILED")
    /\ UNCHANGED <<staging, rowId, disk, expired, sweep, unlinked, crashes, salesforce>>

\* the database fails
MarkBreaks(c) ==
    /\ Reaches(c, "MARK_CONSUMED") \/ Reaches(c, "MARK_FAILED")
    /\ Throw(c)

-----------------------------------------------------------------------------
(* The host around it *)

\* Faulty variant: the timer is cleared when the first file is sent.
ToolTimeoutBeforeSending(c) ==
    /\ pc[c] \notin {"READY", "OVER"} /\ answer[c] = "NONE" /\ ~started[c]
    /\ Answered(c, Interrupted(c))
    /\ UNCHANGED <<stagingVars, pc, results, targetSeen, started, scopeOpen, salesforce>>

\* The deadline of the tool: the caller is answered, the upload goes on.
ToolTimeout(c) ==
    /\ pc[c] \notin {"READY", "OVER"} /\ answer[c] = "NONE"
    /\ Answered(c, Interrupted(c))
    /\ UNCHANGED <<stagingVars, pc, results, targetSeen, started, scopeOpen, salesforce>>

\* the response is finished, or the client is gone
CloseScope(c) ==
    /\ pc[c] # "READY" /\ scopeOpen[c]
    /\ scopeOpen' = [scopeOpen EXCEPT ![c] = FALSE]
    /\ UNCHANGED <<stagingVars, pc, results, targetSeen, started, answer, salesforce>>

\* a restart of the process ends its calls without an answer
Restart ==
    /\ Crash
    /\ pc' = [c \in Calls |-> IF pc[c] = "READY" THEN "READY" ELSE "OVER"]
    /\ scopeOpen' = [c \in Calls |-> pc[c] = "READY"]
    /\ UNCHANGED <<results, targetSeen, started, answer, salesforce>>

UploadStep(c) ==
    \/ Begin(c) \/ Unresolved(c) \/ Resolve(c) \/ Connect(c) \/ TargetAnswers(c)
    \/ Open(c) \/ Send(c) \/ SendRefused(c)
    \/ Published(c) \/ Refused(c) \/ Unanswered(c)
    \/ MarkConsumed(c) \/ RemoveCopy(c) \/ MarkFailed(c) \/ MarkBreaks(c)

UploadNext ==
    \/ IngressStep /\ UNCHANGED <<callVars, salesforce>>
    \/ \E c \in Calls : UploadStep(c) \/ ToolTimeout(c) \/ CloseScope(c)
    \/ \E c \in Calls : \E i \in DOMAIN Refs[c] : Decide(c, i, "PUBLISHED") \/ Decide(c, i, "REFUSED")
    \/ Restart
    \/ Ended /\ (\A c \in Calls : pc[c] = "OVER") /\ UNCHANGED vars

\* The timer of the tool fires; nothing is assumed of the network or the database.
UploadSpec == UploadInit /\ [][UploadNext]_vars /\ \A c \in Calls : WF_vars(ToolTimeout(c))

-----------------------------------------------------------------------------
(* Properties *)

Outcomes == {"SUCCESS", "FAILED", "OUTCOME_UNKNOWN", "NOT_ATTEMPTED"}

\* Every variable holds a value of its type; a call that is not over has a file to go.
UploadTypeOK ==
    /\ TypeOK
    /\ pc \in [Calls -> {"READY", "RESOLVE", "CONNECT", "TARGET", "OPEN", "OPENED", "SENT",
                         "MARK_CONSUMED", "REMOVE_COPY", "MARK_FAILED", "OVER"}]
    /\ results \in [Calls -> Seq(Outcomes)]
    /\ targetSeen \in [Calls -> BOOLEAN] /\ started \in [Calls -> BOOLEAN]
    /\ scopeOpen \in [Calls -> BOOLEAN]
    /\ answer \in [Calls -> {"NONE", "SUCCESS", "PARTIAL_SUCCESS", "FAILED", "OUTCOME_UNKNOWN", "ERROR"}]
    /\ \A c \in Calls :
          /\ salesforce[c] \in [DOMAIN Refs[c] -> {"UNSENT", "SENT", "PUBLISHED", "REFUSED"}]
          /\ Len(results[c]) <= Len(Refs[c])
          /\ pc[c] # "OVER" => Len(results[c]) < Len(Refs[c])

\* The result of a file says what Salesforce did with it, now and later: a SUCCESS was
\* published, a FAILED or NOT_ATTEMPTED file was not and never will be by this call.  After
\* an outcome that is unknown the call sends nothing more.
ResultsAreTrue ==
    \A c \in Calls : \A i \in DOMAIN results[c] :
        /\ results[c][i] = "SUCCESS" => salesforce[c][i] = "PUBLISHED"
        /\ results[c][i] = "FAILED" => salesforce[c][i] \in {"UNSENT", "REFUSED"}
        /\ results[c][i] = "NOT_ATTEMPTED" => salesforce[c][i] = "UNSENT"
        /\ results[c][i] = "OUTCOME_UNKNOWN" =>
              \A j \in DOMAIN Refs[c] : i < j => salesforce[c][j] = "UNSENT"

\* The answer of the tool stays true whatever its upload does afterwards: nothing is in
\* flight behind a definite answer, SUCCESS means all and FAILED that none was published.
AnswerIsTrue ==
    \A c \in Calls :
        LET files == DOMAIN Refs[c]
            done(verdict) == {i \in files : salesforce[c][i] = verdict}
        IN /\ answer[c] \in {"SUCCESS", "PARTIAL_SUCCESS", "FAILED"} => done("SENT") = {}
           /\ answer[c] = "SUCCESS" => done("PUBLISHED") = files
           /\ answer[c] = "PARTIAL_SUCCESS" => done("PUBLISHED") \notin {{}, files}
           /\ answer[c] = "FAILED" => done("PUBLISHED") = {}

\* A reported success is final for the reference: its row is not STAGED any more, so no
\* later call resolves it, and its copy is gone; although the reaper, the overflow and
\* other calls change the same row and copy.
SuccessIsFinal ==
    \A c \in Calls : \A i \in DOMAIN results[c] :
        results[c][i] = "SUCCESS" => row[Refs[c][i]] # "STAGED" /\ Refs[c][i] \notin disk

\* A row is CONSUMED only when its file was published, and keeps that state.
ConsumedIsPublished ==
    /\ [][\A f \in Files : row[f] = "CONSUMED" => row'[f] = "CONSUMED"]_vars
    /\ [](\A f \in Files : row[f] = "CONSUMED" =>
            \E c \in Calls : \E i \in DOMAIN Refs[c] :
                Refs[c][i] = f /\ salesforce[c][i] = "PUBLISHED")

\* Every call is answered, unless the process is restarted: also when Salesforce or the
\* database never answer.
CallIsAnswered == \A c \in Calls : (pc[c] = "RESOLVE") ~> (answer[c] # "NONE" \/ pc[c] = "OVER")
=============================================================================
