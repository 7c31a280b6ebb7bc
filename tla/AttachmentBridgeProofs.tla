------------------------ MODULE AttachmentBridgeProofs ------------------------
(***************************************************************************)
(* Proofs about AttachmentBridge, for every finite set of messages, every  *)
(* assignment of messages to conversations, every bound on files and on    *)
(* conversations, and every lifetime of an entry.                          *)
(***************************************************************************)
EXTENDS AttachmentBridge, FiniteSetTheorems, WellFoundedInduction, TLAPS

-----------------------------------------------------------------------------
(* The Maps *)

\* The first entry of a Map is the one whose key came in before all others.
LEMMA FirstIsLeast ==
    ASSUME NEW map \in SUBSET MapEntries, map # {}
    PROVE  First(map) \in map /\ \A f \in map : First(map).since <= f.since
  <1> DEFINE ranks == {e.since : e \in map}
  <1>1. ranks \subseteq Nat /\ ranks # {}
    BY DEF MapEntries
  <1> HIDE DEF ranks
  <1>2. PICK n \in ranks : \A k \in ranks : ~(<<k, n>> \in OpToRel(<, Nat))
    BY <1>1, NatLessThanWellFounded, WFMin
  <1>3. ASSUME NEW k \in ranks PROVE n <= k
    <2>1. k \in Nat /\ n \in Nat
      BY <1>1
    <2>2. k < n => <<k, n>> \in {pair \in Nat \X Nat : pair[1] < pair[2]}
      BY <2>1
    <2>3. OpToRel(<, Nat) = {pair \in Nat \X Nat : pair[1] < pair[2]}
      BY DEF OpToRel
    <2>4. ~(k < n)
      BY <1>2, <2>2, <2>3
    <2> QED BY <2>1, <2>4
  <1>4. \E e \in map : \A f \in map : e.since <= f.since
    BY <1>2, <1>3 DEF ranks
  <1> QED BY <1>4 DEF First

\* Whatever part of a bounded Map is kept is bounded.
LEMMA PartIsBounded ==
    ASSUME NEW map, NEW part \in SUBSET map, Bounded(map)
    PROVE  Bounded(part) /\ Cardinality(part) <= Cardinality(map)
  <1>1. IsFiniteSet(part) /\ Cardinality(part) <= Cardinality(map)
    BY FS_Subset DEF Bounded
  <1>2. Cardinality(part) \in Nat /\ Cardinality(map) \in Nat
    BY <1>1, FS_CardinalityType DEF Bounded
  <1> QED BY <1>1, <1>2, BridgeAssumption DEF Bounded

\* A Map without its first entry has a place.
LEMMA DropOne ==
    ASSUME NEW map, Bounded(map), NEW e \in map
    PROVE  Cardinality(map \ {e}) < MaxSessions
  <1>1. Cardinality(map \ {e}) = Cardinality(map) - 1 /\ Cardinality(map) \in Nat
    BY FS_RemoveElement, FS_CardinalityType DEF Bounded
  <1> QED BY <1>1, BridgeAssumption DEF Bounded

\* Map.set on a bounded Map leaves a bounded Map, in which the key has what was set and
\* every other key what it had, except that a full Map may lose one to a new key.
LEMMA PutFacts ==
    ASSUME NEW map \in SUBSET MapEntries, Bounded(map),
           NEW e \in MapEntries, \A f \in map : f.since < e.since
    PROVE  /\ Put(map, e) \subseteq MapEntries /\ Bounded(Put(map, e))
           /\ \E g \in MapEntries :
                 /\ At(Put(map, e), e.session) = {g}
                 /\ g.session = e.session /\ g.from = e.from /\ g.refs = e.refs
                 /\ g.expiresAt = e.expiresAt /\ g.since <= e.since
           /\ \A s : s # e.session =>
                 \/ At(Put(map, e), s) = At(map, s)
                 \/ /\ At(Put(map, e), s) = {} /\ At(map, s) # {}
                    /\ Cardinality(map) = MaxSessions
  <1>1. CASE At(map, e.session) # {}
    <2>1. PICK f \in map : f.session = e.session
      BY <1>1 DEF At
    <2> DEFINE g == [e EXCEPT !.since = f.since]
    <2>2. g \in MapEntries /\ g.session = e.session /\ g.from = e.from /\ g.refs = e.refs
          /\ g.expiresAt = e.expiresAt /\ g.since = f.since /\ g.since <= e.since
      BY DEF MapEntries
    <2>3. At(map, e.session) = {f} /\ Without(map, e.session) = map \ {f}
      BY <2>1 DEF At, Without, Bounded
    <2>4. Put(map, e) = (map \ {f}) \cup {g}
      BY <1>1, <2>3 DEF Put
    <2> HIDE DEF g
    <2>5. Bounded(map \ {f}) /\ Cardinality(map \ {f}) < MaxSessions
      BY PartIsBounded, DropOne
    <2>6. IsFiniteSet(Put(map, e)) /\ Cardinality(Put(map, e)) <= MaxSessions
      <3>1. g \notin map \ {f}
        BY <2>1, <2>2 DEF Bounded
      <3>2. Cardinality((map \ {f}) \cup {g}) = Cardinality(map \ {f}) + 1
            /\ IsFiniteSet((map \ {f}) \cup {g}) /\ Cardinality(map \ {f}) \in Nat
        BY <3>1, <2>5, FS_AddElement, FS_CardinalityType DEF Bounded
      <3> QED BY <3>2, <2>4, <2>5, BridgeAssumption
    <2>7. \A x, y \in Put(map, e) : x.session = y.session \/ x.since = y.since => x = y
      BY <2>1, <2>2, <2>4 DEF Bounded
    <2>8. At(Put(map, e), e.session) = {g}
      BY <2>1, <2>2, <2>4 DEF Bounded, At
    <2>9. \A s : s # e.session => At(Put(map, e), s) = At(map, s)
      BY <2>1, <2>2, <2>4 DEF At
    <2> QED BY <2>2, <2>4, <2>6, <2>7, <2>8, <2>9 DEF Bounded
  <1>2. CASE At(map, e.session) = {}
    <2> DEFINE base == IF Cardinality(map) >= MaxSessions THEN map \ {First(map)} ELSE map
    <2>1. Put(map, e) = base \cup {e} /\ base \subseteq map
      BY <1>2 DEF Put
    <2>2. Cardinality(map) \in Nat /\ (Cardinality(map) >= MaxSessions => map # {})
      <3>1. Cardinality(map) \in Nat
        BY FS_CardinalityType DEF Bounded
      <3>2. map = {} => Cardinality(map) = 0
        BY FS_EmptySet
      <3> QED BY <3>1, <3>2, BridgeAssumption
    <2>3. Cardinality(map) >= MaxSessions => First(map) \in map
      BY <2>2, FirstIsLeast
    <2>4. Bounded(base) /\ Cardinality(base) < MaxSessions /\ Cardinality(base) \in Nat
      <3>1. Bounded(base)
        BY <2>1, PartIsBounded
      <3>2. Cardinality(base) < MaxSessions
        BY <2>2, <2>3, DropOne, BridgeAssumption
      <3> QED BY <3>1, <3>2, FS_CardinalityType DEF Bounded
    <2>5. \A s : \/ At(base, s) = At(map, s)
                \/ /\ At(base, s) = {} /\ At(map, s) # {}
                   /\ Cardinality(map) = MaxSessions
      <3>1. CASE Cardinality(map) >= MaxSessions
        <4>1. Cardinality(map) = MaxSessions
          BY <3>1, <2>2, BridgeAssumption DEF Bounded
        <4>2. base = map \ {First(map)}
          BY <3>1
        <4> QED BY <4>1, <4>2, <2>3, <3>1 DEF At, Bounded
      <3>2. CASE ~(Cardinality(map) >= MaxSessions)
        BY <3>2
      <3> QED BY <3>1, <3>2
    <2> HIDE DEF base
    <2>6. e \notin base /\ \A f \in base : f.session # e.session /\ f.since # e.since
      BY <1>2, <2>1 DEF At, MapEntries
    <2>7. IsFiniteSet(Put(map, e)) /\ Cardinality(Put(map, e)) <= MaxSessions
      <3>1. Cardinality(base \cup {e}) = Cardinality(base) + 1 /\ IsFiniteSet(base \cup {e})
        BY <2>4, <2>6, FS_AddElement DEF Bounded
      <3> QED BY <3>1, <2>1, <2>4, BridgeAssumption
    <2>8. \A x, y \in Put(map, e) : x.session = y.session \/ x.since = y.since => x = y
      BY <2>1, <2>4, <2>6 DEF Bounded
    <2>9. At(Put(map, e), e.session) = {e}
      BY <2>1, <2>6 DEF At
    <2>10. \A s : s # e.session => At(Put(map, e), s) = At(base, s)
      BY <2>1 DEF At
    <2>11. e.since <= e.since
      BY DEF MapEntries
    <2>12. Put(map, e) \subseteq MapEntries /\ Bounded(Put(map, e))
      BY <2>1, <2>7, <2>8 DEF Bounded
    <2>13. \A s : s # e.session =>
                 \/ At(Put(map, e), s) = At(map, s)
                 \/ /\ At(Put(map, e), s) = {} /\ At(map, s) # {}
                    /\ Cardinality(map) = MaxSessions
      BY <2>5, <2>10
    <2> QED BY <2>9, <2>11, <2>12, <2>13
  <1> QED BY <1>1, <1>2

-----------------------------------------------------------------------------
(* What a prompt is given *)

\* A live entry is what its conversation is offered, and one Map at most has one.
OffersAreEntries ==
    /\ \A e \in entries : e.expiresAt > now =>
          Offer(e.session) = [kind |-> "REFS", from |-> e.from, refs |-> e.refs]
    /\ \A f \in failures : f.expiresAt > now =>
          Offer(f.session) = [kind |-> "FAILURE", from |-> f.from]
    /\ \A s : Of(entries, s) = {} /\ Of(failures, s) = {} => Offer(s) = Nothing
    /\ \A s : Of(entries, s) = {} \/ Of(failures, s) = {}

LEMMA OfferValues == RegistryType => OffersAreEntries
  <1> SUFFICES ASSUME RegistryType PROVE OffersAreEntries
    OBVIOUS
  <1>1. ASSUME NEW e \in entries, e.expiresAt > now
        PROVE  Offer(e.session) = [kind |-> "REFS", from |-> e.from, refs |-> e.refs]
    <2>1. Of(entries, e.session) = {e}
      BY <1>1 DEF Of, At, Live, RegistryType, Bounded
    <2>2. Of(entries, e.session) # {} /\ (CHOOSE x \in Of(entries, e.session) : TRUE) = e
      BY <2>1
    <2> QED BY <2>2 DEF Offer
  <1>2. ASSUME NEW f \in failures, f.expiresAt > now
        PROVE  Offer(f.session) = [kind |-> "FAILURE", from |-> f.from]
    <2>1. Of(failures, f.session) = {f} /\ Of(entries, f.session) = {}
      BY <1>2 DEF Of, At, Live, RegistryType, Bounded
    <2>2. Of(failures, f.session) # {} /\ (CHOOSE x \in Of(failures, f.session) : TRUE) = f
      BY <2>1
    <2> QED BY <2>1, <2>2 DEF Offer
  <1>3. ASSUME NEW s, Of(entries, s) = {}, Of(failures, s) = {} PROVE Offer(s) = Nothing
    BY <1>3 DEF Offer
  <1>4. ASSUME NEW s PROVE Of(entries, s) = {} \/ Of(failures, s) = {}
    BY DEF Of, At, Live, RegistryType
  <1> QED BY <1>1, <1>2, <1>3, <1>4 DEF OffersAreEntries

LEMMA OfferValuesNext == (RegistryType => OffersAreEntries)'
  BY OfferValues, PTL

\* A conversation whose live entries stay is offered the same.
LEMMA OfferStays ==
    ASSUME RegistryType, RegistryType', NEW s,
           Of(entries, s)' = Of(entries, s), Of(failures, s)' = Of(failures, s)
    PROVE  Offer(s)' = Offer(s)
  <1>1. OffersAreEntries /\ OffersAreEntries'
    BY OfferValues, OfferValuesNext
  <1>2. CASE Of(entries, s) = {} /\ Of(failures, s) = {}
    BY <1>1, <1>2 DEF OffersAreEntries, Nothing
  <1>3. CASE Of(entries, s) # {}
    <2>1. PICK e \in Of(entries, s) : TRUE
      BY <1>3
    <2>2. e \in Of(entries, s)'
      OBVIOUS
    <2>3. e \in entries /\ e.expiresAt > now /\ e.session = s
      BY DEF Of, At, Live
    <2>4. e \in entries' /\ e.expiresAt > now'
      BY <2>2 DEF Of, At, Live
    <2>5. Offer(e.session) = [kind |-> "REFS", from |-> e.from, refs |-> e.refs]
      BY <1>1, <2>3 DEF OffersAreEntries
    <2>6. Offer(e.session)' = [kind |-> "REFS", from |-> e.from, refs |-> e.refs]
      BY <1>1, <2>4 DEF OffersAreEntries
    <2> QED BY <2>3, <2>5, <2>6
  <1>4. CASE Of(failures, s) # {}
    <2>1. PICK f \in Of(failures, s) : TRUE
      BY <1>4
    <2>2. f \in Of(failures, s)'
      OBVIOUS
    <2>3. f \in failures /\ f.expiresAt > now /\ f.session = s
      BY DEF Of, At, Live
    <2>4. f \in failures' /\ f.expiresAt > now'
      BY <2>2 DEF Of, At, Live
    <2>5. Offer(f.session) = [kind |-> "FAILURE", from |-> f.from]
      BY <1>1, <2>3 DEF OffersAreEntries
    <2>6. Offer(f.session)' = [kind |-> "FAILURE", from |-> f.from]
      BY <1>1, <2>4 DEF OffersAreEntries
    <2> QED BY <2>3, <2>5, <2>6
  <1> QED BY <1>2, <1>3, <1>4

\* A conversation whose live entry has gone is offered nothing.
LEMMA OfferEnds ==
    ASSUME RegistryType', NEW s, Of(entries, s)' = {}, Of(failures, s)' = {}
    PROVE  Offer(s)' = Nothing
  BY OfferValuesNext DEF OffersAreEntries, Nothing

-----------------------------------------------------------------------------
(* A message is decided *)

\* The message is counted among those decided.
LEMMA DecisionsGrow ==
    ASSUME MessagesType, NEW m \in Messages, phase[m] # "DECIDED", Become(m, "DECIDED")
    PROVE  /\ Decisions \in Nat /\ Decisions' = Decisions + 1
           /\ phase'[m] = "DECIDED"
           /\ \A x \in Messages : x # m => phase'[x] = phase[x]
  <1> DEFINE D == {x \in Messages : phase[x] = "DECIDED"}
  <1>1. IsFiniteSet(D) /\ m \notin D
    BY BridgeAssumption, FS_Subset
  <1>2. D' = D \cup {m}
    BY DEF MessagesType, Become
  <1>3. Cardinality(D \cup {m}) = Cardinality(D) + 1 /\ Cardinality(D) \in Nat
    BY <1>1, FS_AddElement, FS_CardinalityType
  <1>4. Decisions = Cardinality(D) /\ Decisions' = Cardinality(D')
    BY DEF Decisions
  <1>5. phase'[m] = "DECIDED" /\ \A x \in Messages : x # m => phase'[x] = phase[x]
    BY DEF MessagesType, Become
  <1> QED BY <1>2, <1>3, <1>4, <1>5

\* While no message is decided, the count stays.
LEMMA DecisionsStay ==
    ASSUME MessagesType, NEW m \in Messages, NEW p \in Phases, phase[m] # "DECIDED",
           p # "DECIDED", Become(m, p)
    PROVE  /\ Decisions' = Decisions
           /\ phase'[m] # "DECIDED" /\ \A x \in Messages : x # m => phase'[x] = phase[x]
  <1>1. phase'[m] # "DECIDED" /\ \A x \in Messages : x # m => phase'[x] = phase[x]
    BY DEF MessagesType, Become
  <1>2. {x \in Messages : phase[x] = "DECIDED"}' = {x \in Messages : phase[x] = "DECIDED"}
    BY <1>1
  <1> QED BY <1>1, <1>2 DEF Decisions

\* The steps that decide a message change no other message and take no time.
Deciding(m) ==
    /\ phase[m] # "DECIDED" /\ Become(m, "DECIDED")
    /\ now' = now /\ MessagesType'
    /\ \A x \in Messages : x # m => staged'[x] = staged[x]

\* What is made of a conversation when one of its messages is decided, and what of others.
OffersDecided(m, offer) ==
    /\ RegistryType'
    /\ Offer(SessionOf[m])' = offer
    /\ \A s : s # SessionOf[m] =>
          Offer(s)' = Offer(s) \/ (Offer(s)' = Nothing /\ Crowded(s))

\* The entry a message makes.
LEMMA EntryFacts ==
    ASSUME MessagesType, RegistryType, NEW m \in Messages, NEW refs \in SUBSET (1 .. MaxFiles)
    PROVE  LET e == Entry(m, refs) IN
           /\ e \in MapEntries
           /\ e.session = SessionOf[m] /\ e.from = m /\ e.refs = refs
           /\ e.expiresAt = now + Ttl /\ e.expiresAt > now /\ e.since = Decisions
           /\ \A f \in entries \cup failures : f.since < e.since
  <1>1. Decisions \in Nat
    BY BridgeAssumption, FS_Subset, FS_CardinalityType DEF Decisions
  <1>2. now \in Nat /\ now + Ttl \in Nat /\ now + Ttl > now /\ SessionOf[m] \in Sessions
    BY BridgeAssumption DEF MessagesType
  <1> QED BY <1>1, <1>2 DEF Entry, MapEntries, RegistryType

\* References that are remembered replace what the conversation had.
LEMMA RefsStep ==
    ASSUME MessagesType, RegistryType, NEW m \in Messages, Deciding(m),
           staged'[m] # {}, Remember(m, staged'[m])
    PROVE  OffersDecided(m, [kind |-> "REFS", from |-> m, refs |-> staged'[m]])
  <1> DEFINE s0 == SessionOf[m]
             E  == Live(entries)
             n  == Entry(m, staged'[m])
  <1>1. E \in SUBSET MapEntries /\ Bounded(E) /\ E \subseteq entries
    BY PartIsBounded DEF RegistryType, Live
  <1>2. staged'[m] \in SUBSET (1 .. MaxFiles) /\ now' \in Nat /\ now' = now
    BY DEF Deciding, MessagesType
  <1>3. /\ n \in MapEntries /\ n.session = s0 /\ n.from = m /\ n.refs = staged'[m]
        /\ n.expiresAt = now + Ttl /\ n.expiresAt > now /\ n.since = Decisions
        /\ \A f \in entries \cup failures : f.since < n.since
    BY <1>2, EntryFacts
  <1>4. entries' = Put(E, n) /\ failures' = Without(Live(failures), s0)
    BY DEF Remember
  <1> HIDE DEF n, E
  <1>5. /\ entries' \subseteq MapEntries /\ Bounded(entries')
        /\ \E g \in MapEntries :
              /\ At(entries', s0) = {g}
              /\ g.session = s0 /\ g.from = m /\ g.refs = staged'[m]
              /\ g.expiresAt = n.expiresAt /\ g.since <= n.since
        /\ \A s : s # s0 =>
              \/ At(entries', s) = At(E, s)
              \/ /\ At(entries', s) = {} /\ At(E, s) # {}
                 /\ Cardinality(E) = MaxSessions
    <2>1. \A f \in E : f.since < n.since
      BY <1>1, <1>3
    <2>2. /\ Put(E, n) \subseteq MapEntries /\ Bounded(Put(E, n))
          /\ \E g \in MapEntries :
                /\ At(Put(E, n), n.session) = {g}
                /\ g.session = n.session /\ g.from = n.from /\ g.refs = n.refs
                /\ g.expiresAt = n.expiresAt /\ g.since <= n.since
          /\ \A s : s # n.session =>
                \/ At(Put(E, n), s) = At(E, s)
                \/ /\ At(Put(E, n), s) = {} /\ At(E, s) # {}
                   /\ Cardinality(E) = MaxSessions
      BY <2>1, <1>1, <1>3, PutFacts
    <2> QED BY <2>2, <1>3, <1>4
  <1>6. PICK g \in MapEntries :
              /\ At(entries', s0) = {g}
              /\ g.session = s0 /\ g.from = m /\ g.refs = staged'[m]
              /\ g.expiresAt = n.expiresAt /\ g.since <= n.since
    BY <1>5
  <1>7. \A e \in entries' : e # g => e \in entries /\ e.session # s0 /\ e.expiresAt > now
    <2> SUFFICES ASSUME NEW e \in entries', e # g
                 PROVE  e \in entries /\ e.session # s0 /\ e.expiresAt > now
      OBVIOUS
    <2>1. e.session # s0
      BY <1>6 DEF At
    <2>2. e \in At(entries', e.session)
      BY DEF At
    <2>3. e \in E
      BY <1>5, <2>1, <2>2 DEF At
    <2> QED BY <2>1, <2>3 DEF E, Live
  <1>8. failures' \subseteq failures /\ Bounded(failures')
        /\ \A f \in failures' : f.session # s0
    <2>1. failures' \subseteq failures /\ \A f \in failures' : f.session # s0
      BY <1>4 DEF Without, At, Live
    <2> QED BY <2>1, PartIsBounded DEF RegistryType
  <1>9. g \in entries' /\ g.expiresAt > now' /\ g.session = s0
    BY <1>2, <1>3, <1>6 DEF At
  <1>10. RegistryType'
    <2>1. /\ Decisions \in Nat /\ Decisions' = Decisions + 1 /\ phase'[m] = "DECIDED"
          /\ \A x \in Messages : x # m => phase'[x] = phase[x]
      BY DecisionsGrow DEF Deciding
    <2>2. \A x \in Messages : phase[x] = "DECIDED" => x # m /\ staged'[x] = staged[x]
      BY DEF Deciding
    <2>3. \A e \in entries' :
            /\ e.session = SessionOf[e.from] /\ phase'[e.from] = "DECIDED"
            /\ e.expiresAt \in Ttl .. now' + Ttl /\ e.since < Decisions'
            /\ e.refs # {} /\ e.refs = staged'[e.from]
      <3> SUFFICES ASSUME NEW e \in entries'
                   PROVE  /\ e.session = SessionOf[e.from] /\ phase'[e.from] = "DECIDED"
                          /\ e.expiresAt \in Ttl .. now' + Ttl /\ e.since < Decisions'
                          /\ e.refs # {} /\ e.refs = staged'[e.from]
        OBVIOUS
      <3>1. CASE e = g
        BY <3>1, <1>2, <1>3, <1>6, <2>1, BridgeAssumption DEF MapEntries
      <3>2. CASE e # g
        BY <3>2, <1>2, <1>7, <2>1, <2>2 DEF RegistryType, MapEntries
      <3> QED BY <3>1, <3>2
    <2>4. \A f \in failures' :
            /\ f.session = SessionOf[f.from] /\ phase'[f.from] = "DECIDED"
            /\ f.expiresAt \in Ttl .. now' + Ttl /\ f.since < Decisions'
      BY <1>2, <1>8, <2>1, <2>2 DEF RegistryType, MapEntries
    <2>5. \A e \in entries', f \in failures' : e.session # f.session
      BY <1>6, <1>7, <1>8 DEF RegistryType
    <2> QED BY <2>3, <2>4, <2>5, <1>5, <1>8 DEF RegistryType
  <1>11. Offer(s0)' = [kind |-> "REFS", from |-> m, refs |-> staged'[m]]
    BY <1>6, <1>9, <1>10, OfferValuesNext DEF OffersAreEntries
  <1>12. ASSUME NEW s, s # s0
         PROVE  Offer(s)' = Offer(s) \/ (Offer(s)' = Nothing /\ Crowded(s))
    <2>1. Of(failures, s)' = Of(failures, s)
      BY <1>2, <1>4, <1>12 DEF Of, At, Live, Without
    <2>2. Of(entries, s)' = At(entries', s) /\ Of(entries, s) = At(E, s)
      BY <1>2, <1>7, <1>9 DEF Of, At, Live, E
    <2>3. CASE At(entries', s) = At(E, s)
      BY <2>1, <2>2, <2>3, <1>10, OfferStays
    <2>4. CASE At(entries', s) = {} /\ At(E, s) # {} /\ Cardinality(E) = MaxSessions
      <3>1. Of(failures, s) = {}
        BY <2>2, <2>4, OfferValues DEF OffersAreEntries
      <3>2. Offer(s)' = Nothing
        BY <2>1, <2>2, <2>4, <3>1, <1>10, OfferEnds
      <3> QED BY <3>2, <2>2, <2>4 DEF Crowded, E
    <2> QED BY <2>3, <2>4, <1>5, <1>12
  <1> QED BY <1>10, <1>11, <1>12 DEF OffersDecided

\* A failure that is remembered replaces what the conversation had, whether an earlier
\* failure kept its place in the Map or lost it before.
LEMMA FailureStep ==
    ASSUME MessagesType, RegistryType, NEW m \in Messages, Deciding(m),
           NEW F, F \in {Live(failures), Without(Live(failures), SessionOf[m])},
           entries' = Without(Live(entries), SessionOf[m]),
           failures' = Put(F, Entry(m, {})), staged'[m] = staged[m]
    PROVE  OffersDecided(m, [kind |-> "FAILURE", from |-> m])
  <1> DEFINE s0 == SessionOf[m]
             n  == Entry(m, {})
  <1>1. /\ F \in SUBSET MapEntries /\ Bounded(F) /\ F \subseteq Live(failures)
        /\ \A s : s # s0 => At(F, s) = Of(failures, s)
    <2>1. F \subseteq Live(failures) /\ F \subseteq failures
      BY DEF Live, Without
    <2>2. \A s : s # s0 => At(F, s) = Of(failures, s)
      BY DEF Of, At, Live, Without
    <2> QED BY <2>1, <2>2, PartIsBounded DEF RegistryType
  <1>2. now' \in Nat /\ now' = now
    BY DEF Deciding, MessagesType
  <1>3. /\ n \in MapEntries /\ n.session = s0 /\ n.from = m
        /\ n.expiresAt = now + Ttl /\ n.expiresAt > now /\ n.since = Decisions
        /\ \A f \in entries \cup failures : f.since < n.since
    BY EntryFacts
  <1>4. failures' = Put(F, n)
    OBVIOUS
  <1> HIDE DEF n
  <1>5. /\ failures' \subseteq MapEntries /\ Bounded(failures')
        /\ \E g \in MapEntries :
              /\ At(failures', s0) = {g}
              /\ g.session = s0 /\ g.from = m
              /\ g.expiresAt = n.expiresAt /\ g.since <= n.since
        /\ \A s : s # s0 =>
              \/ At(failures', s) = At(F, s)
              \/ /\ At(failures', s) = {} /\ At(F, s) # {}
                 /\ Cardinality(F) = MaxSessions
    <2>1. \A f \in F : f.since < n.since
      BY <1>1, <1>3 DEF Live
    <2>2. /\ Put(F, n) \subseteq MapEntries /\ Bounded(Put(F, n))
          /\ \E g \in MapEntries :
                /\ At(Put(F, n), n.session) = {g}
                /\ g.session = n.session /\ g.from = n.from /\ g.refs = n.refs
                /\ g.expiresAt = n.expiresAt /\ g.since <= n.since
          /\ \A s : s # n.session =>
                \/ At(Put(F, n), s) = At(F, s)
                \/ /\ At(Put(F, n), s) = {} /\ At(F, s) # {}
                   /\ Cardinality(F) = MaxSessions
      BY <2>1, <1>1, <1>3, PutFacts
    <2> QED BY <2>2, <1>3, <1>4
  <1>6. PICK g \in MapEntries :
              /\ At(failures', s0) = {g}
              /\ g.session = s0 /\ g.from = m
              /\ g.expiresAt = n.expiresAt /\ g.since <= n.since
    BY <1>5
  <1>7. \A f \in failures' : f # g => f \in failures /\ f.session # s0 /\ f.expiresAt > now
    <2> SUFFICES ASSUME NEW f \in failures', f # g
                 PROVE  f \in failures /\ f.session # s0 /\ f.expiresAt > now
      OBVIOUS
    <2>1. f.session # s0
      BY <1>6 DEF At
    <2>2. f \in At(failures', f.session)
      BY DEF At
    <2>3. f \in F
      BY <1>5, <2>1, <2>2 DEF At
    <2> QED BY <2>1, <2>3, <1>1 DEF Live
  <1>8. entries' \subseteq entries /\ Bounded(entries')
        /\ \A e \in entries' : e.session # s0
    <2>1. entries' \subseteq entries /\ \A e \in entries' : e.session # s0
      BY DEF Without, At, Live
    <2> QED BY <2>1, PartIsBounded DEF RegistryType
  <1>9. g \in failures' /\ g.expiresAt > now' /\ g.session = s0
    BY <1>2, <1>3, <1>6 DEF At
  <1>10. RegistryType'
    <2>1. /\ Decisions \in Nat /\ Decisions' = Decisions + 1 /\ phase'[m] = "DECIDED"
          /\ \A x \in Messages : x # m => phase'[x] = phase[x]
      BY DecisionsGrow DEF Deciding
    <2>2. \A x \in Messages : phase[x] = "DECIDED" => x # m /\ staged'[x] = staged[x]
      BY DEF Deciding
    <2>3. \A f \in failures' :
            /\ f.session = SessionOf[f.from] /\ phase'[f.from] = "DECIDED"
            /\ f.expiresAt \in Ttl .. now' + Ttl /\ f.since < Decisions'
      <3> SUFFICES ASSUME NEW f \in failures'
                   PROVE  /\ f.session = SessionOf[f.from] /\ phase'[f.from] = "DECIDED"
                          /\ f.expiresAt \in Ttl .. now' + Ttl /\ f.since < Decisions'
        OBVIOUS
      <3>1. CASE f = g
        BY <3>1, <1>2, <1>3, <1>6, <2>1, BridgeAssumption DEF MapEntries
      <3>2. CASE f # g
        BY <3>2, <1>2, <1>7, <2>1, <2>2 DEF RegistryType, MapEntries
      <3> QED BY <3>1, <3>2
    <2>4. \A e \in entries' :
            /\ e.session = SessionOf[e.from] /\ phase'[e.from] = "DECIDED"
            /\ e.expiresAt \in Ttl .. now' + Ttl /\ e.since < Decisions'
            /\ e.refs # {} /\ e.refs = staged'[e.from]
      BY <1>2, <1>8, <2>1, <2>2 DEF RegistryType, MapEntries
    <2>5. \A e \in entries', f \in failures' : e.session # f.session
      BY <1>6, <1>7, <1>8 DEF RegistryType
    <2> QED BY <2>3, <2>4, <2>5, <1>5, <1>8 DEF RegistryType
  <1>11. Offer(s0)' = [kind |-> "FAILURE", from |-> m]
    BY <1>6, <1>9, <1>10, OfferValuesNext DEF OffersAreEntries
  <1>12. ASSUME NEW s, s # s0
         PROVE  Offer(s)' = Offer(s) \/ (Offer(s)' = Nothing /\ Crowded(s))
    <2>1. Of(entries, s)' = Of(entries, s)
      BY <1>2, <1>12 DEF Of, At, Live, Without
    <2>2. Of(failures, s)' = At(failures', s) /\ Of(failures, s) = At(F, s)
      BY <1>1, <1>2, <1>7, <1>9, <1>12 DEF Of, At, Live
    <2>3. CASE At(failures', s) = At(F, s)
      BY <2>1, <2>2, <2>3, <1>10, OfferStays
    <2>4. CASE At(failures', s) = {} /\ At(F, s) # {} /\ Cardinality(F) = MaxSessions
      <3>1. Of(entries, s) = {}
        BY <2>2, <2>4, OfferValues DEF OffersAreEntries
      <3>2. Offer(s)' = Nothing
        BY <2>1, <2>2, <2>4, <3>1, <1>10, OfferEnds
      <3>3. Cardinality(Live(failures)) = MaxSessions
        <4>1. Bounded(Live(failures))
          BY PartIsBounded DEF RegistryType, Live
        <4>2. Cardinality(F) <= Cardinality(Live(failures))
          BY <4>1, <1>1, PartIsBounded
        <4>3. Cardinality(Live(failures)) \in Nat
          BY <4>1, FS_CardinalityType DEF Bounded
        <4> QED BY <4>1, <4>2, <4>3, <2>4, BridgeAssumption DEF Bounded
      <3> QED BY <3>2, <3>3, <2>2, <2>4 DEF Crowded
    <2> QED BY <2>3, <2>4, <1>5, <1>12
  <1> QED BY <1>10, <1>11, <1>12 DEF OffersDecided

\* A message without files clears its conversation.
LEMMA ClearStep ==
    ASSUME MessagesType, RegistryType, NEW m \in Messages, Deciding(m),
           Remember(m, {}), staged'[m] = staged[m]
    PROVE  OffersDecided(m, Nothing)
  <1>1. entries' = Without(Live(entries), SessionOf[m]) /\ failures' = Without(Live(failures), SessionOf[m])
    BY DEF Remember
  <1>2. now' \in Nat /\ now' = now
    BY DEF Deciding, MessagesType
  <1>3. RegistryType'
    <2>1. entries' \subseteq entries /\ failures' \subseteq failures
      BY <1>1 DEF Without, Live
    <2>2. Bounded(entries') /\ Bounded(failures')
      BY <2>1, PartIsBounded DEF RegistryType
    <2>3. /\ Decisions \in Nat /\ Decisions' = Decisions + 1 /\ phase'[m] = "DECIDED"
          /\ \A x \in Messages : x # m => phase'[x] = phase[x]
      BY DecisionsGrow DEF Deciding
    <2>4. \A x \in Messages : phase[x] = "DECIDED" => x # m /\ staged'[x] = staged[x]
      BY DEF Deciding
    <2> QED BY <2>1, <2>2, <2>3, <2>4, <1>2 DEF RegistryType, MapEntries
  <1>4. Offer(SessionOf[m])' = Nothing
    <2>1. Of(entries, SessionOf[m])' = {} /\ Of(failures, SessionOf[m])' = {}
      BY <1>1, <1>2 DEF Of, At, Live, Without
    <2> QED BY <2>1, <1>3, OfferEnds
  <1>5. ASSUME NEW s, s # SessionOf[m] PROVE Offer(s)' = Offer(s)
    <2>1. Of(entries, s)' = Of(entries, s) /\ Of(failures, s)' = Of(failures, s)
      BY <1>1, <1>2, <1>5 DEF Of, At, Live, Without
    <2> QED BY <2>1, <1>3, OfferStays
  <1> QED BY <1>3, <1>4, <1>5 DEF OffersDecided

-----------------------------------------------------------------------------
(* The steps *)

\* What OffersFollowDecisions says of a step.
OffersStep ==
    \A s \in Sessions :
      IF Decided(s) # {} THEN \E m \in Decided(s) : Offer(s)' = Outcome(m)'
      ELSE \/ Offer(s)' = Offer(s)
           \/ Offer(s)' = Nothing /\ (Ages(s) \/ Crowded(s))

\* A step that decides one message, and makes of its conversation what the message came to.
LEMMA DecidingStep ==
    ASSUME TypeOK, NEW m \in Messages, Deciding(m),
           NEW offer, Outcome(m)' = offer, OffersDecided(m, offer)
    PROVE  TypeOK' /\ OffersStep
  <1>1. phase'[m] = "DECIDED" /\ \A x \in Messages : x # m => phase'[x] = phase[x]
    BY DecisionsGrow DEF TypeOK, Deciding
  <1>2. Decides(m) /\ \A x \in Messages : Decides(x) => x = m
    BY <1>1 DEF Decides, Deciding
  <1>3. ASSUME NEW s \in Sessions, s = SessionOf[m]
        PROVE  m \in Decided(s) /\ Offer(s)' = Outcome(m)'
    BY <1>2, <1>3 DEF Decided, OffersDecided
  <1>4. ASSUME NEW s \in Sessions, s # SessionOf[m]
        PROVE  /\ Decided(s) = {}
               /\ Offer(s)' = Offer(s) \/ (Offer(s)' = Nothing /\ Crowded(s))
    BY <1>2, <1>4 DEF Decided, OffersDecided
  <1>5. OffersStep
    BY <1>3, <1>4 DEF OffersStep
  <1> QED BY <1>5 DEF TypeOK, Deciding, OffersDecided

\* A step of a message that leaves the Maps alone.
LEMMA MapsStay ==
    ASSUME TypeOK, NEW m \in Messages, NEW p \in Phases, phase[m] # "DECIDED", p # "DECIDED",
           Become(m, p), MessagesType', now' = now, UNCHANGED registryVars,
           \A x \in Messages : x # m => staged'[x] = staged[x]
    PROVE  TypeOK' /\ OffersStep
  <1>1. /\ Decisions' = Decisions /\ phase'[m] # "DECIDED"
        /\ \A x \in Messages : x # m => phase'[x] = phase[x]
    BY DecisionsStay DEF TypeOK
  <1>2. RegistryType'
    <2>1. entries' = entries /\ failures' = failures
      BY DEF registryVars
    <2>2. \A e \in entries \cup failures : e.from \in Messages /\ e.from # m
      BY DEF TypeOK, RegistryType, MapEntries
    <2>3. Bounded(entries)' /\ Bounded(failures)'
      BY <2>1 DEF TypeOK, RegistryType, Bounded
    <2> QED BY <1>1, <2>1, <2>2, <2>3 DEF TypeOK, RegistryType
  <1>3. ASSUME NEW s \in Sessions PROVE Decided(s) = {} /\ Offer(s)' = Offer(s)
    <2>1. Of(entries, s)' = Of(entries, s) /\ Of(failures, s)' = Of(failures, s)
      BY DEF registryVars, Of, At, Live
    <2>2. Decided(s) = {}
      BY <1>1 DEF Decided, Decides
    <2> QED BY <2>1, <2>2, <1>2, OfferStays DEF TypeOK
  <1> QED BY <1>2, <1>3 DEF TypeOK, OffersStep

\* A step of the clock or of a prompt: the Maps lose at most what has expired.
LEMMA OnlyAges ==
    ASSUME TypeOK, MessagesType', now' \in {now, now + 1}, UNCHANGED <<inputVars, messageVars>>,
           \/ UNCHANGED registryVars
           \/ now' = now /\ entries' = Live(entries) /\ failures' = Live(failures)
    PROVE  TypeOK' /\ OffersStep
  <1>1. Decisions' = Decisions /\ phase' = phase /\ staged' = staged
    BY DEF Decisions, messageVars
  <1>2. now \in Nat /\ now' \in Nat /\ now' >= now
    BY DEF TypeOK, MessagesType
  <1>3. entries' \subseteq entries /\ failures' \subseteq failures
    BY DEF registryVars, Live
  <1>4. RegistryType'
    <2>1. Bounded(entries') /\ Bounded(failures')
      BY <1>3, PartIsBounded DEF TypeOK, RegistryType
    <2>2. \A e \in entries \cup failures : e.expiresAt \in Ttl .. now' + Ttl
      BY <1>2, BridgeAssumption DEF TypeOK, RegistryType, MapEntries
    <2> QED BY <1>1, <1>3, <2>1, <2>2 DEF TypeOK, RegistryType
  <1>5. ASSUME NEW s \in Sessions
        PROVE  /\ Decided(s) = {}
               /\ Offer(s)' = Offer(s) \/ (Offer(s)' = Nothing /\ Ages(s))
    <2>1. Decided(s) = {}
      BY <1>1 DEF Decided, Decides
    <2>2. Of(entries, s)' \subseteq Of(entries, s) /\ Of(failures, s)' \subseteq Of(failures, s)
      BY <1>2, <1>3 DEF Of, At, Live, TypeOK, RegistryType, MapEntries
    <2>3. CASE Of(entries, s)' = Of(entries, s) /\ Of(failures, s)' = Of(failures, s)
      BY <2>1, <2>3, <1>4, OfferStays DEF TypeOK
    <2>4. ASSUME NEW e, e \in Of(entries, s) \cup Of(failures, s),
                 e \notin Of(entries, s)' \cup Of(failures, s)'
          PROVE  Offer(s)' = Nothing /\ Ages(s)
      <3>1. e.expiresAt <= now' /\ e.expiresAt > now /\ e.session = s
            /\ e \in entries \cup failures
        BY <2>4, <1>2 DEF Of, At, Live, registryVars, TypeOK, RegistryType, MapEntries
      <3>2. \A x \in entries \cup failures : x.session = s => x = e
        BY <3>1 DEF TypeOK, RegistryType, Bounded
      <3>3. Of(entries, s)' = {} /\ Of(failures, s)' = {}
        BY <3>2, <2>2, <2>4 DEF Of, At, Live
      <3> QED BY <3>3, <2>4, <3>1, <1>4, OfferEnds DEF Ages
    <2>5. \/ Of(entries, s)' = Of(entries, s) /\ Of(failures, s)' = Of(failures, s)
          \/ \E e : /\ e \in Of(entries, s) \cup Of(failures, s)
                    /\ e \notin Of(entries, s)' \cup Of(failures, s)'
      <3>1. \A e \in Of(entries, s) : e \notin Of(failures, s) /\ e \notin Of(failures, s)'
        BY <1>3 DEF Of, At, Live, TypeOK, RegistryType
      <3>2. \A e \in Of(failures, s) : e \notin Of(entries, s) /\ e \notin Of(entries, s)'
        BY <1>3 DEF Of, At, Live, TypeOK, RegistryType
      <3> QED BY <2>2, <3>1, <3>2
    <2> QED BY <2>1, <2>3, <2>4, <2>5
  <1> QED BY <1>4, <1>5 DEF TypeOK, OffersStep

LEMMA ReceiveStep ==
    ASSUME TypeOK, NEW m \in Messages, Receive(m) PROVE TypeOK' /\ OffersStep
  <1> USE DEF Receive
  <1>1. now' = now /\ staged' = staged /\ files' = files /\ withheld' = withheld
    BY DEF inputVars
  <1>2. staged[m] = {} /\ phase[m] # "DECIDED"
    BY DEF TypeOK, MessagesType
  <1>3. ASSUME NEW p \in {"STAGING", "DECIDED"}, Become(m, p), p = "STAGING" => files[m] > 0
        PROVE  MessagesType'
    BY <1>3 DEF TypeOK, MessagesType, Become, Phases, inputVars
  <1>4. CASE Become(m, "STAGING") /\ UNCHANGED registryVars /\ files[m] > 0
    BY <1>1, <1>2, <1>3, <1>4, MapsStay DEF Phases
  <1>5. ASSUME Become(m, "DECIDED"), RememberFailure(m), files[m] > 0 \/ m \in withheld
        PROVE  TypeOK' /\ OffersStep
    <2>1. Deciding(m)
      BY <1>1, <1>2, <1>3, <1>5 DEF Deciding
    <2>2. OffersDecided(m, [kind |-> "FAILURE", from |-> m])
      BY <2>1, <1>1, <1>5, FailureStep DEF TypeOK, RememberFailure
    <2>3. Outcome(m)' = [kind |-> "FAILURE", from |-> m]
      BY <1>1, <1>2, <1>5 DEF Outcome
    <2> QED BY <2>1, <2>2, <2>3, DecidingStep
  <1>6. ASSUME Become(m, "DECIDED"), Remember(m, {}), files[m] = 0, m \notin withheld
        PROVE  TypeOK' /\ OffersStep
    <2>1. Deciding(m)
      BY <1>1, <1>2, <1>3, <1>6 DEF Deciding
    <2>2. OffersDecided(m, Nothing)
      BY <2>1, <1>1, <1>6, ClearStep DEF TypeOK
    <2>3. Outcome(m)' = Nothing
      BY <1>1, <1>2, <1>6 DEF Outcome, Nothing
    <2> QED BY <2>1, <2>2, <2>3, DecidingStep
  <1> QED BY <1>4, <1>5, <1>6

LEMMA StageOneStep ==
    ASSUME TypeOK, NEW m \in Messages, NEW answered \in BOOLEAN, StageOne(m, answered)
    PROVE  TypeOK' /\ OffersStep
  <1> USE DEF StageOne
  <1>1. /\ now' = now /\ files' = files /\ phase[m] = "STAGING"
        /\ tried'[m] = tried[m] + 1 /\ tried[m] \in Nat /\ files[m] \in Nat /\ tried'[m] <= files[m]
        /\ \A x \in Messages : x # m => staged'[x] = staged[x]
    BY BridgeAssumption DEF TypeOK, MessagesType, inputVars
  <1>2. /\ staged'[m] \subseteq 1 .. tried'[m] /\ staged' \in [Messages -> SUBSET (1 .. MaxFiles)]
        /\ tried' \in [Messages -> 0 .. MaxFiles]
    <2>1. 1 .. tried[m] \subseteq 1 .. tried'[m] /\ tried'[m] \in 1 .. tried'[m]
      BY <1>1
    <2>2. tried'[m] \in 1 .. MaxFiles /\ staged[m] \subseteq 1 .. tried[m]
      BY <1>1, BridgeAssumption DEF TypeOK, MessagesType
    <2>3. staged'[m] = IF answered THEN staged[m] \cup {tried'[m]} ELSE staged[m]
      BY DEF TypeOK, MessagesType
    <2> QED BY <2>1, <2>2, <2>3 DEF TypeOK, MessagesType
  <1>3. ASSUME NEW p \in {"STAGING", "DECIDED"}, phase' = [phase EXCEPT ![m] = p],
               p = "STAGING" => tried'[m] < files[m]
        PROVE  MessagesType'
    BY <1>1, <1>2, <1>3 DEF TypeOK, MessagesType, Phases, inputVars
  <1>4. CASE tried'[m] < files[m]
    <2>1. phase' = phase /\ phase = [phase EXCEPT ![m] = "STAGING"] /\ UNCHANGED registryVars
      BY <1>1, <1>4 DEF TypeOK, MessagesType
    <2>2. Become(m, "STAGING") /\ MessagesType'
      BY <2>1, <1>3, <1>4 DEF Become
    <2> QED BY <2>1, <2>2, <1>1, MapsStay DEF Phases
  <1>5. CASE ~(tried'[m] < files[m])
    <2>1. Become(m, "DECIDED") /\ files[m] > 0
      BY <1>1, <1>5
    <2>2. Deciding(m)
      BY <2>1, <1>1, <1>3 DEF Deciding, Become
    <2>3. CASE staged'[m] = {}
      <3>1. RememberUnstaged(m) /\ staged'[m] = staged[m]
        BY <1>5, <2>3 DEF TypeOK, MessagesType
      <3>2. OffersDecided(m, [kind |-> "FAILURE", from |-> m])
        BY <3>1, <2>2, FailureStep DEF TypeOK, RememberUnstaged
      <3>3. Outcome(m)' = [kind |-> "FAILURE", from |-> m]
        BY <2>1, <2>3, <1>1 DEF Outcome
      <3> QED BY <2>2, <3>2, <3>3, DecidingStep
    <2>4. CASE staged'[m] # {}
      <3>1. Remember(m, staged'[m])
        BY <1>5, <2>4
      <3>2. OffersDecided(m, [kind |-> "REFS", from |-> m, refs |-> staged'[m]])
        BY <3>1, <2>2, <2>4, RefsStep DEF TypeOK
      <3>3. Outcome(m)' = [kind |-> "REFS", from |-> m, refs |-> staged'[m]]
        BY <2>4 DEF Outcome
      <3> QED BY <2>2, <3>2, <3>3, DecidingStep
    <2> QED BY <2>3, <2>4
  <1> QED BY <1>4, <1>5

LEMMA InitType == Init => TypeOK
  <1> SUFFICES ASSUME Init PROVE TypeOK
    OBVIOUS
  <1>1. MessagesType
    BY BridgeAssumption DEF Init, SelectInboundMedia, MessagesType, Phases
  <1>2. IsFiniteSet({}) /\ Cardinality({}) = 0
    BY FS_EmptySet
  <1>3. RegistryType
    BY <1>2, BridgeAssumption DEF Init, RegistryType, Bounded
  <1> QED BY <1>1, <1>3 DEF TypeOK

LEMMA NextStep == TypeOK /\ [Next]_vars => TypeOK' /\ OffersStep
  <1> SUFFICES ASSUME TypeOK, [Next]_vars PROVE TypeOK' /\ OffersStep
    OBVIOUS
  <1>1. ASSUME NEW m \in Messages, Receive(m) PROVE TypeOK' /\ OffersStep
    BY <1>1, ReceiveStep
  <1>2. ASSUME NEW m \in Messages, Throw(m) PROVE TypeOK' /\ OffersStep
    <2>1. MessagesType'
      BY <1>2 DEF Throw, TypeOK, MessagesType, Become, Phases, inputVars
    <2> QED BY <2>1, <1>2, MapsStay DEF Throw, Phases
  <1>3. ASSUME NEW m \in Messages, NEW answered \in BOOLEAN, StageOne(m, answered)
        PROVE  TypeOK' /\ OffersStep
    BY <1>3, StageOneStep
  <1>4. CASE BuildPrompt
    <2>1. MessagesType'
      BY <1>4 DEF BuildPrompt, TypeOK, MessagesType, inputVars, messageVars
    <2> QED BY <2>1, <1>4, OnlyAges DEF BuildPrompt
  <1>5. CASE Tick
    <2>1. MessagesType'
      BY <1>5, BridgeAssumption DEF Tick, TypeOK, MessagesType, inputVars, messageVars
    <2> QED BY <2>1, <1>5, OnlyAges DEF Tick
  <1>6. CASE UNCHANGED vars
    <2>1. MessagesType' /\ now' = now
      BY <1>6 DEF vars, TypeOK, MessagesType, inputVars, messageVars
    <2> QED BY <2>1, <1>6, OnlyAges DEF vars
  <1> QED BY <1>1, <1>2, <1>3, <1>4, <1>5, <1>6 DEF Next

-----------------------------------------------------------------------------
(* The theorems *)

(* The Maps of the registry stay within their bound, whatever the messages, how many there *)
(* are and when they are decided, and never hold a conversation twice, in one or in both   *)
(* (attachments.js, createStagedAttachmentRegistry).                                       *)
THEOREM BridgeTypeCorrect == Spec => []TypeOK
  <1>1. TypeOK /\ [Next]_vars => TypeOK'
    BY NextStep
  <1> QED BY <1>1, InitType, PTL DEF Spec

(* What a prompt is offered of the files of its conversation follows the message decided   *)
(* last, for any number of conversations and messages that overlap (index.js, stageInbound *)
(* and injectAttachmentContext).                                                           *)
THEOREM OffersAreFaithful == Spec => OffersFollowDecisions
  <1>1. TypeOK /\ [Next]_vars => [OffersStep]_vars
    BY NextStep
  <1>2. Spec => [][OffersStep]_vars
    BY <1>1, BridgeTypeCorrect, PTL DEF Spec
  <1> QED BY <1>2 DEF OffersFollowDecisions, OffersStep
=============================================================================
