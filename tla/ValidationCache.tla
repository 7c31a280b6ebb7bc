---------------------------- MODULE ValidationCache ----------------------------
(***************************************************************************)
(* How a request that carries a Buntu token becomes a platform user:       *)
(* BuntuTokenCredentialAuthenticator over InMemoryBuntuValidationCache.    *)
(* A request reads the clock once, looks for its token in the cache, joins *)
(* the validation in flight for its token, or starts one and leads it.     *)
(* The upstream service decides when the call reaches it; its answer comes *)
(* later, or never, and then the timeout of the call stands for it.  When  *)
(* the call settles, the leader removes it from the calls in flight and    *)
(* stores a valid result in one turn of the event loop, then audits it.    *)
(***************************************************************************)
EXTENDS Integers, Sequences, FiniteSets, SequencesExt

CONSTANTS
  Requests,
  Tokens,
  NoRequest,
  MaxTime,      \* bound: the clock stops here
  MaxEntries    \* maxEntries of the cache

ASSUME CacheAssumption ==
  /\ NoRequest \notin Requests
  /\ MaxTime \in Nat
  /\ MaxEntries \in Nat \ {0}

VARIABLES
  now,        \* the clock
  expiresAt,  \* what the upstream reports of each token: its expiry, or nothing usable
  accepted,   \* tokens the upstream service still accepts
  phase,      \* where each request is
  token,      \* the token each request carries
  nowMs,      \* the clock as each request read it when it arrived
  source,     \* what identified a request: the leader of the call it shares, or nobody (the cache)
  verdict,    \* what the upstream decided for the call each request leads
  inFlight,   \* the leader of the call in flight for each token
  entries,    \* the cached tokens, the least recently used first
  audited     \* leaders whose validation has been offered to the audit log

cacheVars == <<now, expiresAt, accepted, phase, token, nowMs, source, verdict, inFlight, entries, audited>>

\* Absent, not a safe integer or in the past: every comparison with the clock fails.
NotReported == 0

Phases == {"NEW", "CALLING", "FOLLOWING", "AUDITING", "IDENTIFIED", "REFUSED"}

Init ==
  /\ now = 0
  /\ expiresAt \in [Tokens -> {NotReported} \cup 1 .. MaxTime]
  /\ accepted \in SUBSET Tokens
  /\ phase = [r \in Requests |-> "NEW"]
  /\ token \in [Requests -> Tokens]
  /\ nowMs = [r \in Requests |-> 0]
  /\ source = [r \in Requests |-> NoRequest]
  /\ verdict = [r \in Requests |-> "NONE"]
  /\ inFlight = [t \in Tokens |-> NoRequest]
  /\ entries = <<>>
  /\ audited = {}

----------------------------------------------------------------------------
(***************************************************************************)
(* The cache.                                                              *)
(***************************************************************************)
Cached(t) == t \in ToSet(entries)

Without(t) == RemoveFirst(entries, t)

\* Faulty variant: an expired entry is still returned.
HitAtAnyAge(t, time) == Cached(t)

Hit(t, time) == Cached(t) /\ time < expiresAt[t]

\* get: a hit becomes the most recently used, an expired entry is evicted.
AfterGet(t, time) ==
  IF Hit(t, time) THEN Append(Without(t), t) ELSE Without(t)

\* Faulty variant: nothing is evicted.
AfterSetUnbounded(t) == Append(Without(t), t)

\* set: the oldest entries beyond maxEntries are evicted.
AfterSet(t) ==
  LET all == Append(Without(t), t)
      extra == Len(all) - MaxEntries
  IN IF extra > 0 THEN SubSeq(all, extra + 1, Len(all)) ELSE all

----------------------------------------------------------------------------
(***************************************************************************)
(* The requests.                                                           *)
(***************************************************************************)
\* Faulty variant: the call is registered only once it has settled.
RegisterLate(r, t) == inFlight

Register(r, t) == [inFlight EXCEPT ![t] = r]

Arrive(r) ==
  LET t == token[r]
      hit == Hit(t, now)
      next == CASE hit -> "IDENTIFIED"
                [] ~hit /\ inFlight[t] = NoRequest -> "CALLING"
                [] OTHER -> "FOLLOWING"
  IN /\ phase[r] = "NEW"
     /\ nowMs' = [nowMs EXCEPT ![r] = now]
     /\ entries' = AfterGet(t, now)
     /\ phase' = [phase EXCEPT ![r] = next]
     /\ inFlight' = IF next = "CALLING" THEN Register(r, t) ELSE inFlight
     /\ source' = [source EXCEPT ![r] = IF next = "FOLLOWING" THEN inFlight[t]
                                        ELSE IF next = "CALLING" THEN r ELSE NoRequest]
     /\ UNCHANGED <<now, expiresAt, accepted, token, verdict, audited>>

Expired(t) == expiresAt[t] # NotReported /\ now >= expiresAt[t]

\* The call reaches the upstream service, which decides then and there.
Decide(r) ==
  /\ phase[r] = "CALLING" /\ verdict[r] = "NONE"
  /\ verdict' = [verdict EXCEPT ![r] =
       IF token[r] \in accepted /\ ~Expired(token[r]) THEN "VALID" ELSE "INVALID"]
  /\ UNCHANGED <<now, expiresAt, accepted, phase, token, nowMs, source, inFlight, entries, audited>>

\* The stored entry has to expire after the time its leader read on arrival.
Storable(r) == nowMs[r] < expiresAt[token[r]]

\* The answer arrives in time, or the timeout of the call; validate never rejects.
Settle(r, answer) ==
  /\ phase[r] = "CALLING"
  /\ answer \in {verdict[r], "UNAVAILABLE"} \ {"NONE"}
  /\ verdict' = [verdict EXCEPT ![r] = answer]
  /\ inFlight' = [inFlight EXCEPT ![token[r]] = NoRequest]
  /\ entries' = IF answer = "VALID" /\ Storable(r) THEN AfterSet(token[r]) ELSE entries
  /\ phase' = [phase EXCEPT ![r] = "AUDITING"]
  /\ UNCHANGED <<now, expiresAt, accepted, token, nowMs, source, audited>>

Outcome(answer) == IF answer = "VALID" THEN "IDENTIFIED" ELSE "REFUSED"

\* logValidateAudit; a failure of the log is swallowed.
Audit(r) ==
  /\ phase[r] = "AUDITING"
  /\ audited' = audited \cup {r}
  /\ phase' = [phase EXCEPT ![r] = Outcome(verdict[r])]
  /\ UNCHANGED <<now, expiresAt, accepted, token, nowMs, source, verdict, inFlight, entries>>

Settled(r) == phase[r] \notin {"NEW", "CALLING", "FOLLOWING"}

\* Faulty variant: a follower of a call that failed is not woken.
FollowSuccess(r) ==
  /\ phase[r] = "FOLLOWING"
  /\ Settled(source[r]) /\ verdict[source[r]] = "VALID"
  /\ phase' = [phase EXCEPT ![r] = "IDENTIFIED"]
  /\ UNCHANGED <<now, expiresAt, accepted, token, nowMs, source, verdict, inFlight, entries, audited>>

Follow(r) ==
  /\ phase[r] = "FOLLOWING"
  /\ Settled(source[r])
  /\ phase' = [phase EXCEPT ![r] = Outcome(verdict[source[r]])]
  /\ UNCHANGED <<now, expiresAt, accepted, token, nowMs, source, verdict, inFlight, entries, audited>>

----------------------------------------------------------------------------
\* The upstream service stops accepting a token.
RevokeToken(t) ==
  /\ t \in accepted
  /\ accepted' = accepted \ {t}
  /\ UNCHANGED <<now, expiresAt, phase, token, nowMs, source, verdict, inFlight, entries, audited>>

Tick ==
  /\ now < MaxTime
  /\ now' = now + 1
  /\ UNCHANGED <<expiresAt, accepted, phase, token, nowMs, source, verdict, inFlight, entries, audited>>

RequestStep(r) ==
  \/ Arrive(r) \/ Decide(r) \/ Audit(r) \/ Follow(r)
  \/ \E answer \in {"VALID", "INVALID", "UNAVAILABLE"} : Settle(r, answer)

CacheNext ==
  \/ \E r \in Requests : RequestStep(r)
  \/ \E t \in Tokens : RevokeToken(t)
  \/ Tick
=============================================================================
