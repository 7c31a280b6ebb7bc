# Verification of the SFOA enterprise MCP runtime

TLA+ models of the parts of this repository where several things happen at once: the audit
pipeline, the guard of the process working directory, the staging and upload of attachments
and the plugin that starts them, requests that change Salesforce data, the administration of
the configuration, the way of a request from its token to its policy, and the shutdown. TLC
checks small instances; TLAPS proves the safety properties for every value of the constants.
`PROJECT.json` lists every run, mutant, finding, hazard and theorem, and maps every
definition to the source lines it stands for.

    tlc -config MCAuditPipeline.cfg MCAuditPipeline     # check a run
    tlapm AuditPipelineProofs.tla                       # check proofs

## 1. Inventory

The repository extends the Salesforce DX MCP server (vendored packages `mcp`,
`mcp-provider-*`) by a remote runtime. Its own core is in four packages:
`sfoa-mcp-server` (HTTP, authentication, tools), `sfoa-identity-runtime` (request scope,
workspace, connection, guard), `sfoa-control-plane` (MySQL, audit, administration) and
`mcp-provider-sfoa-dml`; beside them stand `sfoa-admin-api` and a plugin for the OpenClaw
gateway. Each server is one Node.js process: one event loop, so the code
between two awaits is atomic and everything else interleaves.

A request enters `http-server.ts`, is authenticated (a Buntu token is validated upstream, and
the result cached and shared), reads its policy snapshot, gets a *request scope* (identity
route, one Salesforce connection, a temporary workspace) and a provider runtime with its
tools. A tool runs under a deadline of its own and the request under another; **neither stops
the work behind it**. The request ends by closing its scope. Audit evidence goes to the
pipeline; the attachment ingress and its reaper run beside the requests; administrators change
the configuration in another process, so the two meet in MySQL only. A signal closes all of it
in a fixed order while requests may still run.

| Component | State | Operations | What is hard | What makes it correct | Model |
| --- | --- | --- | --- | --- | --- |
| Audit pipeline (`audit-pipeline.ts`, `mysql-audit-batch-sink.ts`) | bounded queue, batch in flight, counters, state of the writer | offer, drain, persist, back off, isolate, close | retries after a lost commit, poison entries, the flush deadline racing an answer | every snapshot counted once, no silent loss, one row each, bounded memory, close() returns | `AuditPipeline` |
| CWD guard and workspace (`cwd-execution-guard.ts`, `tool-execution-adapter.ts`, `workspace.ts`) | lock queue, readers, writer, cwd, workspace directories | acquire, run, restore, release, create, clean up | tools that chdir, calls that outlive their request | exclusion, no lost wake-up, no overtaking, cwd restored | `CwdGuard`, `ReadWriteLock` |
| Attachment ingress (`attachment-ingress.ts`, staging repository, reaper of `runtime.ts`) | copies on disk, rows in MySQL | stage, evict, reap, resolve, open, complete, fail | two stores changed in two awaits by three kinds of actors; failures, restarts | no copy without a row, the newest file kept, expired files removed | `AttachmentStaging` |
| Attachment upload (`attachment-upload.ts`, `attachment-tool-facade.ts`) | results, upload-started flag | resolve, prove the target, send, record | lost answers, a deadline during the upload, competing calls | reports agree with Salesforce, success is final | `AttachmentUpload` |
| HTTP request lifecycle (`http-server.ts`) | resources, deadline, response | attach, serve, time out, answer, close | attach during close, deadline against answer, a client that leaves | everything closed when the handler returns, nothing sent after, it returns | `MutationRequest` |
| Provider runtime, DML tools (`provider-runtime.ts`, `dml-tool-facade.ts`, `dml-executor.ts`) | mutation state of a request | prepare, dispatch, settle | deadline between preparation and dispatch; batches; unknown outcome | what the caller is told is true; a failed call is not sent any more | `MutationRequest`, `MutationOutcome` |
| Authentication (`authenticator.ts`, `buntu-validation-cache.ts`) | LRU cache, validations in flight | arrive, look up, share, settle, store, audit | followers of a shared validation, expiry while waiting, a clock read once | one call per token at a time, no expired identity reused, everybody decided | `ValidationCache`, in `RequestAdmission` |
| Policy snapshot (`mysql-repositories.ts`) | one read view per request | route, policies, rules, check of the Diagnostic | several SELECTs while administrators commit | a request runs under one committed configuration | `RequestAdmission` |
| Request scope and connection (`request-scope.ts`, `salesforce-connection-resource.ts`) | one connection promise, closed flag | connect, close | close during the connection | no connection after close | in `CwdGuard`, `AttachmentUpload` and `MutationRequest` |
| Admin service and repositories (`admin-service.ts`, `mysql-repositories.ts`) | seven tables with row versions, Admin audits, the sentinel row | create, update, disable, delete, regenerate, verify | write skew, pages loaded earlier, a failing step of several | what the service promises holds of every committed configuration, nothing is overwritten unseen, each change atomic and audited | `ControlPlane`, `AdminStore`, `ConfigStore` |
| Bootstrap (`bootstrap.ts`) | the same tables | import or skip each item, run again | administrators work beside it | the same promises (a finding) | `Bootstrap` |
| Start-up and shutdown (`runtime.ts`, `shutdown.ts`, `http-server.ts`) | stage of close(), requests, connections | signal, drain, force, flush, close pools | handlers and queries without end, requests that begin late | a drained shutdown lost no audit, the shutdown gets on | `Shutdown` over `AuditPipeline`; the reaper in `AttachmentStaging` |
| OpenClaw attachment bridge (`index.js`, `attachments.js`) | two bounded Maps with expiry, one staging per message | stage file by file, remember, forget, offer | messages of one conversation overlap, the registry is full | a prompt gets what was decided last, while it is fresh | `AttachmentBridge` |
| Audit context and collector, response recorder | buffers of one request | record | bounds | - | no: mostly formatting and redaction |
| UI snapshot, identity look-up, context tools, ingress route, encoders, playbook | none that changes | reads | - | - | no |
| Admin web, test clients, upstream packages | - | - | - | - | no: a user interface, tools, or third-party code |

## 2. Plan

Done, in this order: `AuditPipeline`; `ReadWriteLock` and `CwdGuard`; `AttachmentStaging`, and
`AttachmentUpload`, which extends it so that every step of the ingress is interleaved with the
calls; `MutationRequest`, which implements the abstract `MutationOutcome`; `ControlPlane` (the
tables and their constraints), and on it `AdminStore`, which implements the abstract
`ConfigStore`, and `Bootstrap`, which extends `AdminStore`; `ValidationCache`, and
`RequestAdmission`, which joins it with the policy snapshot over a database that does what
`ConfigStore` promises; `Shutdown`, which extends `AuditPipeline`; `AttachmentBridge`. Every
safety property of a passing run is proved, and for each finding a theorem that says when it
can happen.

Left: the audit context of a request, whose evidence is bounded; the connection resolver of
the plugin; the deadline of a request around an attachment upload (the one hazard without a
property).

## 3. Models

Names follow the code; a definition under *Faulty variant* is a plausible bug, used only to
show that a property notices it.

**AuditPipeline.** `pc` is the await the writer is suspended at (`WAIT` for work, `DELAY` the
flush interval, `PERSIST` and `ISOLATE` a call of the sink, `BACKOFF`, `STOPPED`). `Offer` is
both offer methods; `Continue` the loop of `runWriter` up to its next await, and so part of
the steps that end a batch; `FlushCompletes`/`FlushTimesOut` the race of `close()`. The
counters of the code are kept per snapshot, so that double counting shows. The sink stores
all or nothing; it may fail after its commit; a stored snapshot is refused by the unique key.
Columns, shapes and redaction of entries are abstracted to *poison or not*.

**CwdGuard.** One action per await of a tool execution: `Call` (with the lock's acquire),
`Start` (the tool changes the directory), `Write`, `Finish` (restore and release with its
drain, one action as in the code) and `FinishFails` (restore throws). A workspace is `ABSENT`,
`PRESENT`, `REMOVING` (the recursive removal runs outside the event loop), `GONE`, or `LEFT`
on disk. A call may start after its scope was closed, as a timed-out request leaves it.
`ReadWriteLock` is the abstract lock: a set of waiting and a set of holding calls.

**AttachmentStaging.** A file has a stage() in progress (`staging`), a row (`row`, `rowId`)
and a copy (`disk`). `ListOverflow` and `Reap` read the list of rows; `Unlink` and `Mark`
take its oldest member in two steps, as both loops do. `MarkFails`, `Refuse`, `RecordFails`
(with or without the row inserted) are failing database calls or bodies; `Crash` is a restart.
A worker of a list is a file (its stage() evicts) or a pass of the reaper. The order of
`expires_at` is taken as that of the ids. Removal of a file never fails: in the code such an
error is ignored and the copy stays.

**AttachmentUpload.** `pc` is the await of a call of `upload_files_to_record`. `ToolTimeout`
answers the caller and changes nothing else; `CloseScope` only withholds the connection;
`salesforce` is what really happened to each file, decided by the external action `Decide` at
any time after it was sent, or never. `results` is what `upload()` recorded and `answer` the
aggregate the caller got first. A reference is refused when it does not resolve or the
database fails (`Unresolved`); an answer whose body is cut off is one that did not come
(`Unanswered`), since the code catches both. Salesforce is assumed to answer in its own format truthfully.
Input validation and the object policy, which refuse before anything happens, the evidence
and the audit event are left out.

**MutationRequest.** One POST with a single call or a JSON-RPC batch (`body`, `batch`).
`operation` is how far `executeMcpPost` is and `handler` where `handleRemoteRequest` waits:
`RequestDeadline` moves the handler on and leaves the operation and its calls running.
`AttachScope` and `Serve` ask `Available`, as the methods of `RequestResources` do; `closing`
and `CloseScope` are the two ends of its asynchronous `close()`. `call` is the await of each
call in `DmlToolFacade` and `DmlExecutor`; `started` is the `MutationRequestState` they share,
and `late` the flag that keeps a slow lookup from going on. `Decide` is what Salesforce does
with a mutation, at any time after its dispatch or never. `MutationOutcome` is the promise to
the caller; `told` maps the response onto it. The fields of records, the contents of results,
retries inside the Salesforce library and audit events are left out, and so are admission,
discovery, and bodies that cannot be read, which call no tool.

**ControlPlane, AdminStore, ConfigStore, Bootstrap.** `ControlPlane` is the schema: a row is a
record with its row version, `Absent` before its id was handed out and `Gone` after its
deletion; `SatisfiesConstraints` are the unique indexes and foreign keys of the migrations.
In `AdminStore` an administrator loads a page (`seen`), and later runs one transaction: `Lock`
takes the sentinel row and opens the read view (`view`), an operation checks and writes
(`writes`), `AppendAudit`, `Commit`; `Rollback` may come at any time and stands for refused
checks, lost connections and crashes alike. SELECTs read `view`; the WHERE of an UPDATE or
DELETE reads the committed rows, as MySQL does. Object names, remarks and token material are
left out, and the several audit rows of one transaction count as one. `ConfigStore` is the
promise: one atomic, audited, versioned change at a time. `Bootstrap` adds the import from the
environment, one transaction per item, taken as one step; `EnvironmentTyped` is what its parser
lets through, and `Forced` the option `--force`.

**ValidationCache, RequestAdmission.** A request reads the clock when it arrives (`nowMs`) and
uses that reading for the look-up and, when it leads a validation, for the store, however
much later that is. `inFlight` is the map of shared validations; `Settle` is the end of a call
by answer or timeout, with the removal from `inFlight` and the store in one turn of the event
loop, as in the code; followers come later. `RequestAdmission` adds the route, read outside
any transaction, and the snapshot transaction in two steps, `OpenSnapshot` and `ReadRules`;
between them `Reconfigure` commits any other of a set of configurations.

**Shutdown.** `request` is a request from its first byte (`SENDING`) over its handler
(`ACTIVE`, `FINALIZING` when the answer is out and resources and audit are not) to `DONE`, or
`GONE`; `kept` is what its response leaves of its connection: nothing, an idle one that the
keep-alive timeout ends, or one with the rest of a body the handler did not wait for, which
that timeout does not end. The next request (`SendNext`) may come on either. `stage` is the
await of the shutdown. `Signal` fixes the requests it awaits and closes the idle connections;
`GraceExpires` cuts them all and leaves the handlers running. `PipelineStep` is any
step of `AuditPipeline` that is not an offer; `Finish` offers the snapshot of a request.

**AttachmentBridge.** `StageOne` is the return of the ingress call for the next file of a
message, and `Throw` an exception before or between them (the token cannot be resolved, the
name of a file cannot be encoded), which loses what the message had staged and leaves the
registry alone; the return for the last file decides, in the same turn, what the registry holds of the
conversation. A Map is a set of entries; `since` orders them as the Map does, by the number of
decisions there were when the key came in: setting a key keeps its place, a new key in a full
Map costs the first one its place, and every operation drops what has expired. `ingress` is
whether the URL of the ingress could be derived; without it every file is a failure.
`Offer` is what `injectAttachmentContext` hands to a prompt. Paths, limits of names, texts and
error codes are abstracted; a message without a conversation or from another channel changes
nothing and is not modelled.

## 4. Runs

| Run | Instance | Shows |
| --- | --- | --- |
| `audit_pipeline` | 2 good snapshots, 1 poison, 1 legacy; capacity 2, batch 2, 1 retry | accounting, visibility of loss, single rows, complete flush; when the sink answers, everything is decided |
| `cwd_guard` | 2 retrievals, 3 queries, 2 workspaces | the directory of a retrieval and of the process, order, refinement of the lock; a waiting call ends |
| `cwd_guard_release` | same | finding |
| `attachment_staging` | 3 files of one user, limit 2, passes of 1 row, 1 restart | no orphan, newest file kept, expired files leave STAGED |
| `attachment_upload` | 1 call of 2 files, limit 1 (the second evicts the first), 1 restart | results and answer are true, success is final, CONSUMED means published, the call is answered |
| `mutation_request` | 2 calls: each alone, as a batch of one, and both in a batch | the scope is closed and nothing dispatched when the handler returned, a lost client is on record, refinement of `MutationOutcome`; the handler returns |
| `mutation_late` | same | finding |
| `admin_store` | 2 administrators, 2 changes of an empty or a configured database; 2 routes, 3 tokens, 1 policy, 1 rule, 1 tool, 1 setting, the Diagnostic | no write skew, nothing overwritten unseen, refinement of `ConfigStore` |
| `admin_bootstrap` | 1 administrator beside the import of a route and the Diagnostic, 2 changes | finding |
| `request_admission` | 2 requests, 2 tokens, cache of 1, clock 0..1, 3 configurations | no reuse after expiry, one call per token, the policy is one configuration; every request is decided |
| `shutdown` | 3 requests, 1 with a poison snapshot, any connection kept; capacity 2, batch 2, no retry | a drained shutdown lost no audit silently; the shutdown gets as far as the last pool |
| `attachment_bridge` | 4 messages of 3 conversations, room for 2, up to 2 files, lifetime 1 of a clock 0..2 | the registry is bounded and holds a conversation once; offers follow the decisions |

**Bounds.** The pipeline needs a queue that fills (capacity 2 of 4 entries), a batch of more
than one with a poison member, and a retry that can be used up. The lock needs two writers
and readers on both sides of one; three readers reach *several active* and *several waiting*.
Staging needs one file more than the limit, two actors on one row, and a list longer than a
pass. Uploads need a second file behind the first for the aggregate; that success is final
when several calls compete for a file is proved for every number of calls. A request needs two
calls, since calls touch each other only through `started`, the scope and the response; a
third meets no state of these that a second cannot make. Write skew takes two administrators,
and two changes: one to make a page stale or to leave half of a conflict, one to run into it;
administrators are interchangeable (`MCSymmetry`, sound because no liveness is checked there),
as are the two overlapping messages of the bridge.
Admission takes a leader and a follower, a second token for eviction from a cache of one, and
two configurations that differ in every row a snapshot reads; the third disables the route.
Three requests at shutdown can be one that drains, one that hangs and one refused by the
database, and overfill the queue of two. The bridge takes two messages of one conversation
that overlap and two other conversations to fill the registry. `MaxCrashes`, `MaxChanges` and
`MaxTime` bound restarts, committed changes and the clock.

`CHECK_DEADLOCK` is off where the system really may stop: when every change was made
(`admin_store`, `admin_bootstrap`), every request was decided (`request_admission`) or every
message was (`attachment_bridge`) and the clock is at its bound. The other specifications name
the states they may stop in (`Ended`, `Over`).

**Fairness.** Timers of the event loop fire (audit writer, flush deadline, tool deadline,
reaper, grace period). Database and Salesforce are not assumed to answer: `close()` and a call
of the tool end regardless. Only where a property is about work getting done is more assumed,
and stated: `SinkSettles` is the hypothesis of `EverythingDecided`; the fairness of `CwdGuard`
says that tools settle (they have timeouts of their own; a hanging tool keeps the lock, so
`WaitingCallEnds` depends on it); `RequestEnds` needs the request deadline, the code behind it
(whose record goes to the logger, which settles because the audit queue does not wait for the
database), and that a response once written is delivered or its connection breaks; it assumes
nothing of setup, lookups or Salesforce. `Sweeping` says that the database fails, but not for
ever (strong fairness of `Mark`). `EveryRequestIsDecided` needs that every validation settles,
by its timeout if not by an answer, and that the queries of a request return.
`ShutdownProceeds` needs the timers of the shutdown, of the pipeline, of the requests and of
idle connections (`KeepAliveExpires`), and nothing of clients or the database. `AttachmentBridge` states no liveness.

## 5. Proofs

TLAPS checks, for every value of the constants that satisfies the named assumptions:

* `AuditPipelineProofs` - type correctness, exact accounting, no silent loss, single rows,
  complete flush, bounded memory; and for `Shutdown`, whose steps are mostly the pipeline's,
  types and `AwaitedAreAudited`: a handler offers before it is done, and the stage of the
  shutdown agrees with that of the pipeline (`StagesAgree`). The accounting is not inductive
  alone: it needs that no entry is in memory twice and that the writer's position tells what
  it holds (`Shape`), and that an abandoned batch is counted (`AbandonedIsCounted`).
* `CwdGuardProofs` - type correctness, mutual exclusion, no lost wake-up, the directory
  properties, no overtaking, and that the lock implements `ReadWriteLock`. The invariant joins
  the counters with the set of holders (a finite set even if the calls are not), the queue
  with the waiting calls, and the directory with its owner. On the finding:
  `LockLostUnderRemovalOnly` says that in a behaviour where no workspace is closed under a call
  that holds the lock (`WorkspacesOutliveCalls`), every call that is over has released it.
* `AttachmentProofs` - for any finite set of files, any passes of the reaper and any calls.
  `NoOrphan` needs that a worker between removal and mark still points at the file whose copy
  it removed (`UnlinkedIsGone`): listed files have rows (`Listed`), and a new row's id is new
  (`IdsCount`), so the oldest of a list does not change under it. `NewestKept`, for limits
  other than one, follows from what a list may hold when stage() made it. `UploadInv` adds
  the uploads: types, that the results agree with what was sent (`Truthful`), that a resolved
  reference has a row (`RowsKnown`), and that CONSUMED rows were published (`ConsumedRows`);
  from it follow `ResultsAreTrue`, `AnswerIsTrue`, `SuccessIsFinal`, `ConsumedIsPublished`,
  and that uploads too orphan nothing.
* `MutationRequestProofs` - type correctness, `ResultsAreTrue`, `ScopeClosedWhenDone`,
  `DisconnectIsLogged`, `NothingSentAfterward`, and that the request implements
  `MutationOutcome`, for any set of calls. The invariant ties the await of a call to what it
  can have sent and returned (`CallShape`: a call that was reported as failed and still
  prepares has its `late` flag), and the reply to the progress of the request (`ReplyShape`:
  an error is answered only by a request that never came to its calls). Results never change
  once set, so the one reply stays true: what it says of a call never disagrees with what
  becomes of its mutation (`ResponseStaysTrue`). On the finding: `SentLateOnlyBehindAnother` says that a
  call is sent behind its result only in a batch, after another call of the body was, and with
  an unknown outcome as its result, and `SingleCallNotSentLate` that outside a batch it never
  is. Both need that the shared state started with a mutation of this body (`StartedBySending`)
  and that a deadline which did not stop a call found it started (`DeadlineStops`).
* `AdminStoreProofs` - `TypeOK`, `Consistent`, `OverwritesWhatWasSeen` and the refinement of
  `ConfigStore`, for any number of administrators, rows, names and changes. The invariant:
  only the holder of the sentinel is in a transaction, and its view is the committed
  configuration (`Locking`); a row that has the version an administrator was shown is the row
  it was shown (`Versioned`, stated for readers as `VersionNamesRow`: a version names one
  content of a row for ever); whatever a transaction has written is a change that may be
  committed (`Proposals`), which is where the seventeen operations are gone through. Read views
  alone would not do: without the sentinel two valid views commit a write skew. A change keeps
  each promise of `Consistent` for itself (`Preserves`), so that one broken elsewhere costs no
  other. The same invariant carries the import of `Bootstrap`, forced or not, under
  `EnvironmentTyped`: types, constraints, the refinement of `ConfigStore` and
  `OverwritesWhatWasSeen` hold beside it (`ImportTypeCorrect`, `ImportImplementation`,
  `ImportIsSeen`), and an import that does not overwrite keeps `RulesWithinPolicy`
  (`ImportKeepsRules`; a forced one may narrow a policy under its rules, and no imported route
  has a token in the model, so that `OneActiveCredential` is not claimed). On the finding:
  `OnlyCollisionsMixRoles` says that the only step which gives a route and the Diagnostic one
  username is an import whose item collides with a stored row of the other role.
* `RequestAdmissionProofs` - `TypeOK`, `OneCallPerToken`, `ReuseEndsWithToken` and
  `AdmittedIsConsistent`, for any requests, tokens, clock, cache and configurations. A
  request that calls is the registered leader (`LeadersRegistered`); every cached token was
  validated with a usable expiry, whatever time its leader stored it at (`CacheInv`); a
  follower waits for a call about its own token that was made (`FollowInv`), so that nobody,
  leader, follower or hit of the cache, is identified with a token the upstream has not called
  valid in a call that settled (`EveryIdentityWasValidated`); what is
  read of a snapshot is a part of its view, and the view was committed (`ReadFromOneView`).
* `AttachmentBridgeProofs` - `TypeOK` and `OffersFollowDecisions`, for any finite set of
  messages, any conversations, bounds, lifetime and clock. `TypeOK` is inductive as it stands:
  what bounds a Map is that each of its keys came in at another decision, so that `since`
  names the first entry, and what makes an offer unambiguous is that no conversation is in
  both Maps. The action property follows from one lemma about each kind of decision
  (`RefsStep`, `FailureStep`, `ClearStep`) and one about age (`OnlyAges`).
* `SequenceLemmas` - ranges and injectivity of sequences, used by several of these.

The type invariants of the uploads and the shutdown (`UploadTypeOK`, `ShutdownTypeOK`) are
proved and no longer among the runs' properties. Only model-checked: everything about
liveness and fairness (`EverythingDecided`, `WaitingCallEnds`, `ExpiredIsRemoved`,
`CallIsAnswered`, `RequestEnds`, `EveryRequestIsDecided`, `ShutdownProceeds`), which is
outside the prover. The modules declare no recursive operator.

## 6. Findings

Places where the code does other than a comment, document or test says, each shown by a run:

* a failing `restore()` keeps the lock for ever (`cwd_guard_release`);
* in a batch, a call that reached its deadline before its dispatch is reported as unknown and
  dispatched afterwards, if another call of the batch had started (`mutation_late`);
* the import from the environment leaves an active route with the username of the enabled
  Diagnostic, after which no policy snapshot is admitted (`admin_bootstrap`).

More follows from the models and has no run of its own. Audit: an entry abandoned by the
flush deadline is counted as persisted too when it is stored in isolation
(audit-pipeline.ts:202; audit-pipeline.test.ts:136 expects that it is not), and
isolation drops a storable entry at the first retryable error, with no backoff
(P7_03_REPORT.md:55 promises one). Directory: a timed-out retrieval recreates its removed
workspace (workspace.ts:96), which nothing removes again. Attachments: overlapping stage()
calls exceed the limit per user (attachment-ingress.ts:260); with a limit of one file `NewestKept` fails, because stage()
evicts before it has received the new file; the copy of a FAILED file is never removed, nor
can its reference be retried (attachment-ingress.ts:239, mysql-repositories.ts:643); a tool
deadline that fires before the first file is sent is answered as a plain error, and the upload
may still send the file until the scope closes; and the copy of a file with an unknown
outcome, which SKILL_02C_IMPLEMENTATION_REPORT.md says is kept as evidence, is evicted and
reaped like any other, its row being STAGED still. Bridge: when two messages of a conversation
overlap, the one whose staging ends last decides, so that the references of an older message
may replace those of a newer one or come back after it; and when a
message throws (the token cannot be resolved, or the name of one of its files cut inside a
surrogate pair: buildIngressRequest at index.js:353 is outside the try), what it staged is
forgotten and the references of the message before stay on offer. index.js:249 says "a
reference can never outlive the message it came from"; they do until the next decision or
their expiry. `OffersFollowDecisions` therefore speaks of decisions and not of arrivals.
Shutdown: a request whose head still arrives when the signal comes is not awaited, and may
offer its audit when the pipeline is closed already, where it is counted as dropped, and so is
one sent on a connection that was busy at the signal; a client that holds half a request, its
head or the rest of a body that was answered already, keeps a shutdown waiting that drained; closing the pool of the
control plane has no bound.

## 7. Not modelled

The internal, WeCom and `USER_BOUND` authenticators, identity look-up and the UI snapshot read
state that others change and keep none. The sessions and the log-in limiter of the admin API,
the audit queries, the request audit collector, context tools, the ingress route, encoders and
the agent playbook shape data: sequential code whose correctness is in the data a model
abstracts. Migrations and start-up are sequential scripts; what they leave behind is assumed
(`SatisfiesConstraints`, `Init`). The admin web is a user interface; the test clients and
validation packages exercise the servers. The vendored Salesforce DX packages are by far the
largest part of the source and belong to another project; `CwdGuard` models the two of their
tools the runtime runs, as far as they change the directory. That, with the text of the
stateless parts, is why the mapped lines are a small share of all lines of the repository.
