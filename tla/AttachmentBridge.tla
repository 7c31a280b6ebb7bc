--------------------------- MODULE AttachmentBridge ---------------------------
(***************************************************************************)
(* The attachment bridge of the OpenClaw adapter.  The files of an inbound *)
(* message are handed to the ingress of the runtime one after the other,   *)
(* and the references that come back, or the reason why none did, are kept *)
(* per conversation for the prompts that are built for it.  The hooks of   *)
(* several messages run concurrently; the registry they share is two Maps, *)
(* bounded, whose entries expire.                                          *)
(***************************************************************************)
EXTENDS Integers, FiniteSets

CONSTANTS
  Messages,      \* inbound messages
  Sessions,      \* conversations, by their canonical key
  SessionOf,     \* the conversation of each message
  MaxFiles,      \* bound on the usable media facts of a message
  MaxSessions,   \* conversations a Map of the registry may hold
  Ttl,           \* lifetime of an entry
  MaxTime        \* bound of the clock

ASSUME BridgeAssumption ==
  /\ IsFiniteSet(Messages)
  /\ SessionOf \in [Messages -> Sessions]
  /\ MaxFiles \in Nat
  /\ MaxSessions \in Nat \ {0}
  /\ Ttl \in Nat \ {0}
  /\ MaxTime \in Nat

VARIABLES
  now,           \* Date.now()
  ingress,       \* whether the URL of the ingress could be derived
  files,         \* how many media facts of each message are usable
  withheld,      \* the messages all of whose facts were refused at once
  phase,         \* where stageInbound is with each message
  tried,         \* how many of its files went through stageOne
  staged,        \* those the ingress gave a reference for
  entries,       \* the Map of the references per conversation
  failures       \* the Map of the failures per conversation

messageVars == <<phase, tried, staged>>
registryVars == <<entries, failures>>
inputVars == <<ingress, files, withheld>>
vars == <<now, inputVars, messageVars, registryVars>>

Phases == {"NEW", "STAGING", "DECIDED", "THROWN"}

\* What is selected of each message: its usable facts, up to a bound.  Facts that are
\* refused beside usable ones change nothing but the log.
SelectInboundMedia ==
  /\ files \in [Messages -> 0 .. MaxFiles]
  /\ withheld \in SUBSET {m \in Messages : files[m] = 0}

Init ==
  /\ now = 0
  /\ ingress \in BOOLEAN
  /\ SelectInboundMedia
  /\ phase = [m \in Messages |-> "NEW"]
  /\ tried = [m \in Messages |-> 0]
  /\ staged = [m \in Messages |-> {}]
  /\ entries = {}
  /\ failures = {}

----------------------------------------------------------------------------
(* The registry.  A Map is a set of entries with different keys; `since` orders them *)
(* as the Map does, by how many messages had been decided when the key came in.      *)

Decisions == Cardinality({m \in Messages : phase[m] = "DECIDED"})

Live(map) == {e \in map : e.expiresAt > now}

At(map, s) == {e \in map : e.session = s}

Without(map, s) == map \ At(map, s)

First(map) == CHOOSE e \in map : \A f \in map : e.since <= f.since

\* Faulty variant: a Map without a bound.
PutUnbounded(map, e) == Without(map, e.session) \cup {e}

\* Map.set keeps the place of a key; a new key goes last, and the first one goes
\* when the Map is full.
Put(map, e) ==
  IF At(map, e.session) # {}
  THEN Without(map, e.session) \cup {[e EXCEPT !.since = f.since] : f \in At(map, e.session)}
  ELSE (IF Cardinality(map) >= MaxSessions THEN map \ {First(map)} ELSE map) \cup {e}

Entry(m, refs) ==
  [session |-> SessionOf[m], from |-> m, refs |-> refs, expiresAt |-> now + Ttl, since |-> Decisions]

Remember(m, refs) ==
  /\ failures' = Without(Live(failures), SessionOf[m])
  /\ entries' = IF refs = {} THEN Without(Live(entries), SessionOf[m])
                             ELSE Put(Live(entries), Entry(m, refs))

\* Faulty variant: the references of an earlier message stay.
RememberFailureOnly(m) ==
  /\ entries' = Live(entries)
  /\ failures' = Put(Live(failures), Entry(m, {}))

RememberFailure(m) ==
  /\ entries' = Without(Live(entries), SessionOf[m])
  /\ failures' = Put(Live(failures), Entry(m, {}))

\* remember(), and at once rememberFailure(): the failure loses its place in the Map.
RememberUnstaged(m) ==
  /\ entries' = Without(Live(entries), SessionOf[m])
  /\ failures' = Put(Without(Live(failures), SessionOf[m]), Entry(m, {}))

----------------------------------------------------------------------------
(* stageInbound *)

Become(m, p) == phase' = [phase EXCEPT ![m] = p]

\* No file at all clears the conversation; nothing but refused files is a failure, and
\* so are files that have nowhere to go.
Receive(m) ==
  /\ phase[m] = "NEW"
  /\ \/ /\ files[m] > 0 /\ ingress
        /\ Become(m, "STAGING")
        /\ UNCHANGED registryVars
     \/ /\ files[m] > 0 /\ ~ingress
        /\ Become(m, "DECIDED")
        /\ RememberFailure(m)
     \/ /\ files[m] = 0
        /\ Become(m, "DECIDED")
        /\ IF m \in withheld THEN RememberFailure(m) ELSE Remember(m, {})
  /\ UNCHANGED <<now, inputVars, tried, staged>>

\* The host cannot resolve the token, or the request of the next file cannot be built,
\* because its name is cut within a character: the hook absorbs the exception, and files
\* that were staged before are forgotten.
Throw(m) ==
  /\ phase[m] = "STAGING"
  /\ Become(m, "THROWN")
  /\ UNCHANGED <<now, inputVars, tried, staged, registryVars>>

\* stageOne returns for the next file, with a reference or without; after the last
\* file the message decides about its conversation.
StageOne(m, answered) ==
  /\ phase[m] = "STAGING"
  /\ tried' = [tried EXCEPT ![m] = @ + 1]
  /\ staged' = [staged EXCEPT ![m] = IF answered THEN @ \cup {tried'[m]} ELSE @]
  /\ IF tried'[m] < files[m] THEN UNCHANGED <<phase, registryVars>>
     ELSE /\ Become(m, "DECIDED")
          /\ IF staged'[m] = {} THEN RememberUnstaged(m) ELSE Remember(m, staged'[m])
  /\ UNCHANGED <<now, inputVars>>

\* A prompt is built: read() and readFailure() drop what has expired.
BuildPrompt ==
  /\ <<Live(entries), Live(failures)>> # registryVars
  /\ entries' = Live(entries)
  /\ failures' = Live(failures)
  /\ UNCHANGED <<now, inputVars, messageVars>>

Tick ==
  /\ now < MaxTime
  /\ now' = now + 1
  /\ UNCHANGED <<inputVars, messageVars, registryVars>>

Next ==
  \/ \E m \in Messages :
       \/ Receive(m)
       \/ Throw(m)
       \/ \E answered \in BOOLEAN : StageOne(m, answered)
  \/ BuildPrompt
  \/ Tick

Spec == Init /\ [][Next]_vars

----------------------------------------------------------------------------
(* What a prompt is given *)

Nothing == [kind |-> "NOTHING"]

Of(map, s) == At(Live(map), s)

Offer(s) ==
  IF Of(entries, s) # {}
  THEN LET e == CHOOSE e \in Of(entries, s) : TRUE
       IN [kind |-> "REFS", from |-> e.from, refs |-> e.refs]
  ELSE IF Of(failures, s) # {}
       THEN [kind |-> "FAILURE", from |-> (CHOOSE e \in Of(failures, s) : TRUE).from]
       ELSE Nothing

\* What a message that has been decided makes of its conversation.
Outcome(m) ==
  IF staged[m] # {} THEN [kind |-> "REFS", from |-> m, refs |-> staged[m]]
  ELSE IF files[m] > 0 \/ m \in withheld THEN [kind |-> "FAILURE", from |-> m]
       ELSE Nothing

MapEntries == [session : Sessions, from : Messages, refs : SUBSET (1 .. MaxFiles),
               expiresAt : Nat, since : Nat]

Bounded(map) ==
  /\ IsFiniteSet(map) /\ Cardinality(map) <= MaxSessions
  /\ \A e, f \in map : e.session = f.session \/ e.since = f.since => e = f

MessagesType ==
  /\ now \in 0 .. MaxTime
  /\ ingress \in BOOLEAN
  /\ files \in [Messages -> 0 .. MaxFiles]
  /\ withheld \subseteq Messages
  /\ phase \in [Messages -> Phases]
  /\ tried \in [Messages -> 0 .. MaxFiles]
  /\ staged \in [Messages -> SUBSET (1 .. MaxFiles)]
  /\ \A m \in Messages :
       /\ tried[m] <= files[m] /\ staged[m] \subseteq 1 .. tried[m]
       /\ phase[m] = "STAGING" => tried[m] < files[m]
       /\ phase[m] = "NEW" => tried[m] = 0

\* Whatever a Map holds came from a message that has been decided.
RegistryType ==
  /\ entries \cup failures \subseteq MapEntries
  /\ \A e \in entries \cup failures :
       /\ e.session = SessionOf[e.from] /\ phase[e.from] = "DECIDED"
       /\ e.expiresAt \in Ttl .. now + Ttl /\ e.since < Decisions
  /\ \A e \in entries : e.refs # {} /\ e.refs = staged[e.from]
  /\ \A e \in entries, f \in failures : e.session # f.session
  /\ Bounded(entries)
  /\ Bounded(failures)

(* The type invariant.  Neither Map of the registry holds more conversations than  *)
(* it may, nor one of them twice, and no conversation is in both: what a prompt is *)
(* given of references and of a failure never comes from two messages              *)
(* (attachments.js, createStagedAttachmentRegistry).                               *)
TypeOK == MessagesType /\ RegistryType

Decides(m) == phase[m] # "DECIDED" /\ phase'[m] = "DECIDED"

Decided(s) == {m \in Messages : SessionOf[m] = s /\ Decides(m)}

\* An offer ends by age, or because as many other conversations have decided since.
Ages(s) == \E e \in Of(entries, s) \cup Of(failures, s) : e.expiresAt <= now'

Crowded(s) ==
  \E map \in {entries, failures} : Cardinality(Live(map)) = MaxSessions /\ Of(map, s) # {}

(* What the prompts of a conversation are given is what its message that was     *)
(* decided last came to: all its references, or the fact that it had files and   *)
(* none could be staged, or nothing.  A decision replaces whatever an earlier    *)
(* message left, references and failure alike, and no message of another         *)
(* conversation does; an offer ends otherwise only by its age, or when the Map   *)
(* is full and another conversation needs the place (attachments.js, the         *)
(* registry; index.js, stageInbound and injectAttachmentContext).                *)
OffersFollowDecisions ==
  [][ \A s \in Sessions :
        IF Decided(s) # {} THEN \E m \in Decided(s) : Offer(s)' = Outcome(m)'
        ELSE \/ Offer(s)' = Offer(s)
             \/ Offer(s)' = Nothing /\ (Ages(s) \/ Crowded(s)) ]_vars
=============================================================================
