--------------------------- MODULE CwdGuardProofs ---------------------------
(***************************************************************************)
(* Proofs about CwdGuard, for every set of calls and workspaces, finite or *)
(* not, and every assignment of calls to requests.                         *)
(***************************************************************************)
EXTENDS CwdGuard, SequenceLemmas, FiniteSetTheorems, TLAPS

\* The variables of the lock have their types.
LockType ==
    /\ queue \in Seq(Calls)
    /\ activeReaders \in Nat /\ writerActive \in BOOLEAN
    /\ pc \in [Calls -> {"READY", "QUEUED", "GRANTED", "RUNNING", "ENDING", "DONE", "FAILED"}]

\* What holds of the lock alone.
LockInv == LockType /\ Exclusion /\ Waiting

\* A call is made only in a request whose workspace exists or existed.
Opened == \A c \in Calls : pc[c] # "READY" => directory[Root[c]] # "ABSENT"

\* The inductive invariant.
Inv == TypeOK /\ LockInv /\ CwdIsOwned /\ MetadataInPlace /\ Opened

-----------------------------------------------------------------------------
(* The lock *)

\* A call that is granted the lock at once, or queued, joins the holders or the queue.
LEMMA EnqueueStep ==
    ASSUME LockInv, NEW c \in Calls, pc[c] = "READY", Enqueue(c),
           writerActive \/ (activeReaders > 0 /\ (queue = <<>> => c \in Exclusive))
    PROVE  LockInv' /\ Holders' = Holders /\ Range(queue') = Range(queue) \cup {c}
  <1> USE DEF LockInv
  <1>1. LockType' /\ queue \in Seq(Calls)
    BY DEF LockType, Enqueue
  <1>2. Holders' = Holders
    BY DEF Holders, Enqueue, LockType
  <1>3. c \notin Range(queue)
    BY DEF Waiting
  <1>4. Range(queue') = Range(queue) \cup {c} /\ IsInjective(queue')
    BY <1>1, <1>3, AppendRange DEF Enqueue, Waiting
  <1>5. Range(queue') = {d \in Calls : pc'[d] = "QUEUED"}
    BY <1>4 DEF Waiting, Enqueue, LockType
  <1>6. queue' # <<>> => writerActive' \/ (activeReaders' > 0 /\ queue'[1] \in Exclusive)
    <2>1. queue = <<>> => queue'[1] = c
      BY DEF Enqueue
    <2>2. queue # <<>> => queue'[1] = queue[1]
      BY <1>1 DEF Enqueue
    <2> QED BY <2>1, <2>2 DEF Enqueue, Waiting
  <1>7. Exclusion'
    BY <1>2 DEF Exclusion, Enqueue
  <1> QED BY <1>1, <1>2, <1>4, <1>5, <1>6, <1>7 DEF Waiting

\* What the counters say about the holders.
LEMMA CountersAgree ==
    ASSUME LockInv
    PROVE  /\ IsFiniteSet(Holders \ Exclusive)
           /\ activeReaders = 0 <=> Holders \subseteq Exclusive
           /\ ~writerActive => Holders \cap Exclusive = {}
           /\ ~writerActive /\ activeReaders = 0 => Holders = {}
           /\ \A c \in Holders : c \in Exclusive \/ activeReaders = 1 => Holders = {c}
  <1> USE DEF LockInv
  <1>1. IsFiniteSet(Holders \ Exclusive)
    BY FS_Subset DEF Exclusion
  <1>2. activeReaders = 0 <=> Holders \subseteq Exclusive
    BY <1>1, FS_EmptySet DEF Exclusion
  <1>3. ~writerActive => Holders \cap Exclusive = {}
    BY DEF Exclusion
  <1>4. ASSUME NEW c \in Holders, c \in Exclusive \/ activeReaders = 1
        PROVE  Holders = {c}
    <2>1. CASE c \in Exclusive
      BY <2>1 DEF Exclusion
    <2>2. CASE c \notin Exclusive
      <3>1. PICK x : Holders \ Exclusive = {x}
        BY <1>1, <1>4, <2>2, FS_Singleton DEF Exclusion
      <3>2. Holders \cap Exclusive = {}
        BY <2>2 DEF Exclusion
      <3> QED BY <2>2, <3>1, <3>2
    <2> QED BY <2>1, <2>2
  <1> QED BY <1>1, <1>2, <1>3, <1>4

\* acquireShared and acquireExclusive: the call joins the holders, when nobody waits,
\* or the queue, when somebody holds the lock.
LEMMA AcquireStep ==
    ASSUME LockInv, NEW c \in Calls, pc[c] = "READY",
           IF c \in Exclusive THEN AcquireExclusive(c) ELSE AcquireShared(c)
    PROVE  /\ LockInv'
           /\ pc' \in {[pc EXCEPT ![c] = "GRANTED"], [pc EXCEPT ![c] = "QUEUED"]}
           /\ \/ /\ pc'[c] = "GRANTED" /\ Holders' = Holders \cup {c}
                 /\ queue = <<>> /\ queue' = <<>>
              \/ /\ pc'[c] = "QUEUED" /\ Holders' = Holders /\ Holders # {}
                 /\ Range(queue') = Range(queue) \cup {c}
                 /\ queue' = Append(queue, c)
  <1> USE DEF LockInv
  <1>0. /\ queue \in Seq(Calls) /\ activeReaders \in Nat /\ writerActive \in BOOLEAN
        /\ c \notin Holders /\ c \notin Range(queue)
    BY DEF LockType, Holders, Waiting
  <1>1. CASE Enqueue(c)
    <2>1. writerActive \/ (activeReaders > 0 /\ (queue = <<>> => c \in Exclusive))
      <3>1. CASE c \in Exclusive
        <4>1. writerActive \/ activeReaders # 0 \/ queue # <<>>
          BY <1>1, <3>1 DEF AcquireExclusive, Enqueue, LockType
        <4> QED BY <4>1, <3>1, <1>0 DEF Waiting
      <3>2. CASE c \notin Exclusive
        <4>1. writerActive \/ Range(queue) \cap Exclusive # {}
          BY <1>1, <3>2 DEF AcquireShared, Enqueue, LockType
        <4>2. Range(queue) # {} => queue # <<>>
          BY <1>0, EmptySequence
        <4> QED BY <4>1, <4>2 DEF Waiting
      <3> QED BY <3>1, <3>2
    <2>2. Holders # {}
      BY <2>1, CountersAgree DEF Exclusion
    <2> QED BY <1>1, <2>1, <2>2, EnqueueStep DEF Enqueue, LockType
  <1>2. CASE ~Enqueue(c)
    <2>1. pc' = [pc EXCEPT ![c] = "GRANTED"] /\ queue' = queue /\ ~writerActive
      BY <1>2 DEF AcquireShared, AcquireExclusive
    <2>2. Holders' = Holders \cup {c} /\ LockType'
      <3>1. Holders' = Holders \cup {c}
        BY <2>1 DEF Holders, LockType
      <3>2. activeReaders' \in Nat /\ writerActive' \in BOOLEAN
        <4>1. CASE c \in Exclusive
          BY <4>1, <1>0, <1>2 DEF AcquireExclusive
        <4>2. CASE c \notin Exclusive
          BY <4>2, <1>0, <1>2, <2>1 DEF AcquireShared
        <4> QED BY <4>1, <4>2
      <3> QED BY <2>1, <3>1, <3>2 DEF LockType
    <2>3. queue = <<>>
      <3>1. CASE c \in Exclusive
        BY <1>2, <3>1 DEF AcquireExclusive
      <3>2. CASE c \notin Exclusive
        <4>1. Range(queue) \cap Exclusive = {}
          BY <1>2, <3>2 DEF AcquireShared
        <4>2. queue # <<>> => queue[1] \in Range(queue)
          BY <1>0 DEF Range
        <4> QED BY <2>1, <4>1, <4>2 DEF Waiting
      <3> QED BY <3>1, <3>2
    <2>4. Waiting'
      BY <2>1, <2>3 DEF Waiting, LockType
    <2>5. Exclusion'
      <3>1. CASE c \in Exclusive
        <4>1. writerActive' /\ activeReaders' = 0 /\ Holders = {}
          BY <1>2, <2>1, <3>1, CountersAgree DEF AcquireExclusive
        <4>2. Holders' = {c} /\ Holders' \ Exclusive = {}
          BY <2>2, <3>1, <4>1
        <4> QED BY <4>1, <4>2, <3>1, FS_EmptySet, FS_Singleton DEF Exclusion
      <3>2. CASE c \notin Exclusive
        <4>1. activeReaders' = activeReaders + 1 /\ writerActive' = writerActive
          BY <1>2, <3>2 DEF AcquireShared
        <4>2. Holders' \ Exclusive = (Holders \ Exclusive) \cup {c} /\ c \notin Holders \ Exclusive
          BY <1>0, <2>2, <3>2
        <4>3. /\ Cardinality(Holders' \ Exclusive) = Cardinality(Holders \ Exclusive) + 1
              /\ IsFiniteSet(Holders')
          BY <4>2, <2>2, CountersAgree, FS_AddElement DEF Exclusion
        <4>4. Holders' \cap Exclusive = {}
          BY <2>1, <2>2, <3>2, CountersAgree
        <4> QED BY <4>1, <4>3, <4>4, <2>1 DEF Exclusion
      <3> QED BY <3>1, <3>2
    <2> QED BY <2>1, <2>2, <2>3, <2>4, <2>5 DEF LockType
  <1> QED BY <1>1, <1>2

\* The release of the last holder: those at the front of the queue take over.
LEMMA DrainStep ==
    ASSUME LockInv, NEW c \in Calls, Holders = {c}, Drain(c)
    PROVE  /\ LockInv'
           /\ \E admitted \in SUBSET Range(queue) :
                 /\ Holders' = admitted /\ Range(queue') = Range(queue) \ admitted
                 /\ pc' = [d \in Calls |-> IF d = c THEN "DONE"
                                           ELSE IF d \in admitted THEN "GRANTED" ELSE pc[d]]
           /\ Range(queue') # {} => Holders' # {}
           /\ \A i, j \in DOMAIN queue :
                 i < j /\ pc'[queue[j]] # "QUEUED" => pc'[queue[i]] # "QUEUED"
  <1> USE DEF LockInv
  <1>0. /\ queue \in Seq(Calls) /\ IsInjective(queue) /\ Len(queue) \in Nat
        /\ DOMAIN queue = 1 .. Len(queue)
        /\ Range(queue) = {d \in Calls : pc[d] = "QUEUED"} /\ c \notin Range(queue)
    BY DEF LockType, Waiting, Holders
  <1>1. PICK n \in 0 .. Len(queue) :
           /\ \/ n = 0 /\ queue = <<>>
              \/ n = 1 /\ queue[1] \in Exclusive
              \/ /\ n > 0
                 /\ \A i \in 1 .. n : queue[i] \notin Exclusive
                 /\ n < Len(queue) => queue[n + 1] \in Exclusive
           /\ Admit(c, n)
    BY DEF Drain
  <1> DEFINE front == SubSeq(queue, 1, n)
             back == SubSeq(queue, n + 1, Len(queue))
             admitted == Range(front)
  <1>2. /\ front \in Seq(Calls) /\ back \in Seq(Calls) /\ Len(front) = n
        /\ Range(front) \cup Range(back) = Range(queue)
        /\ Range(front) \cap Range(back) = {}
        /\ IsInjective(back)
    BY <1>0, SplitRange
  <1>3. /\ DOMAIN front = 1 .. n /\ \A i \in 1 .. n : front[i] = queue[i]
        /\ Len(back) = Len(queue) - n
        /\ n < Len(queue) => back[1] = queue[n + 1]
    <2>1. n \in 0 .. Len(queue) /\ queue \in Seq(Calls)
      BY <1>0, <1>1
    <2>2. DOMAIN front = 1 .. n /\ \A i \in 1 .. n : front[i] = queue[i]
      BY <2>1
    <2>3. Len(back) = Len(queue) - n
      BY <2>1
    <2>4. n < Len(queue) => back[1] = queue[n + 1]
      BY <2>1
    <2> QED BY <2>2, <2>3, <2>4
  <1>4. /\ queue' = back
        /\ pc' = [d \in Calls |-> IF d = c THEN "DONE"
                                  ELSE IF d \in admitted THEN "GRANTED" ELSE pc[d]]
        /\ writerActive' = (admitted \cap Exclusive # {})
        /\ activeReaders' = Cardinality(admitted \ Exclusive)
    BY <1>1 DEF Admit
  <1> HIDE DEF front, back
  <1>5. admitted \in SUBSET Range(queue) /\ admitted \subseteq Calls /\ c \notin admitted
    BY <1>0, <1>2, RangeInSet
  <1>6. \A i \in 1 .. n : queue[i] \in admitted
    BY <1>3 DEF Range
  <1>7. \A d \in admitted : \E i \in 1 .. n : d = queue[i]
    BY <1>3 DEF Range
  <1> HIDE DEF admitted
  <1>8. Range(queue') = Range(queue) \ admitted
    BY <1>2, <1>4 DEF admitted
  <1>9. Holders' = admitted
    BY <1>4, <1>5 DEF Holders
  <1>10. IsFiniteSet(admitted)
    <2>1. front \in Surjection(1 .. n, admitted)
      BY <1>2, <1>3 DEF admitted, Surjection, Range
    <2> QED BY <2>1, FS_Surjection, FS_Interval
  <1>11. IsFiniteSet(admitted \ Exclusive) /\ activeReaders' \in Nat
    BY <1>4, <1>10, FS_Subset, FS_CardinalityType
  <1>12. \A d \in admitted \cap Exclusive : admitted = {d}
    <2>1. CASE n = 1 /\ queue[1] \in Exclusive
      BY <2>1, <1>7
    <2>2. CASE ~(n = 1 /\ queue[1] \in Exclusive)
      <3>1. \A i \in 1 .. n : queue[i] \notin Exclusive
        BY <2>2, <1>1, <1>0
      <3> QED BY <3>1, <1>7
    <2> QED BY <2>1, <2>2
  <1>13. Exclusion'
    BY <1>4, <1>9, <1>10, <1>12 DEF Exclusion
  <1>14. LockType'
    BY <1>2, <1>4, <1>11 DEF LockType
  <1>15. queue' # <<>> => n > 0 /\ n < Len(queue)
    BY <1>0, <1>1, <1>2, <1>3, <1>4
  <1>16. queue' # <<>> => writerActive' \/ (activeReaders' > 0 /\ queue'[1] \in Exclusive)
    <2> SUFFICES ASSUME queue' # <<>>
                 PROVE  writerActive' \/ (activeReaders' > 0 /\ queue'[1] \in Exclusive)
      OBVIOUS
    <2>1. n \in 1 .. Len(queue) /\ n < Len(queue) /\ 1 \in 1 .. n
      BY <1>15, <1>0
    <2>2. queue[1] \in admitted
      BY <2>1, <1>6
    <2>3. CASE queue[1] \in Exclusive
      BY <2>2, <2>3, <1>4
    <2>4. CASE queue[1] \notin Exclusive
      <3>1. queue'[1] \in Exclusive
        BY <2>1, <2>4, <1>1, <1>3, <1>4
      <3>2. activeReaders' # 0
        BY <2>2, <2>4, <1>4, <1>11, FS_EmptySet
      <3> QED BY <3>1, <3>2, <1>11
    <2> QED BY <2>3, <2>4
  <1>17. Range(queue') = {d \in Calls : pc'[d] = "QUEUED"}
    BY <1>0, <1>4, <1>5, <1>8
  <1>18. Waiting'
    BY <1>2, <1>4, <1>16, <1>17 DEF Waiting
  <1>19. Range(queue') # {} => Holders' # {}
    <2>1. Range(queue') # {} => n \in Nat \ {0}
      BY <1>15, <1>2, <1>4, EmptySequence
    <2> QED BY <2>1, <1>6, <1>9
  <1>20. \A i, j \in DOMAIN queue :
             i < j /\ pc'[queue[j]] # "QUEUED" => pc'[queue[i]] # "QUEUED"
    <2> SUFFICES ASSUME NEW i \in 1 .. Len(queue), NEW j \in 1 .. Len(queue), i < j,
                        pc'[queue[j]] # "QUEUED"
                 PROVE  pc'[queue[i]] # "QUEUED"
      BY <1>0
    <2>1. queue[i] \in Calls /\ queue[j] \in Calls /\ queue[j] \in Range(queue) /\ queue[i] # c
      BY <1>0 DEF Range
    <2>2. queue[j] \in admitted
      BY <2>1, <1>0, <1>4
    <2>3. j \in 1 .. n
      BY <2>2, <1>0, <1>7 DEF IsInjective
    <2>4. queue[i] \in admitted
      BY <2>3, <1>6
    <2> QED BY <2>1, <2>4, <1>4
  <1> QED BY <1>4, <1>5, <1>8, <1>9, <1>13, <1>14, <1>18, <1>19, <1>20

\* What a release of the lock by call c does.
LEMMA ReleaseStep ==
    ASSUME LockInv, NEW c \in Holders, Release(c)
    PROVE  /\ LockInv'
           /\ \E admitted \in SUBSET Range(queue) :
                 /\ Holders' = (Holders \ {c}) \cup admitted
                 /\ Range(queue') = Range(queue) \ admitted
                 /\ pc' = [d \in Calls |-> IF d = c THEN "DONE"
                                           ELSE IF d \in admitted THEN "GRANTED" ELSE pc[d]]
           /\ Range(queue') # {} => Holders' # {}
           /\ \A i, j \in DOMAIN queue :
                 i < j /\ pc'[queue[j]] # "QUEUED" => pc'[queue[i]] # "QUEUED"
  <1> USE DEF LockInv
  <1>0. c \in Calls /\ pc[c] # "QUEUED" /\ queue \in Seq(Calls) /\ activeReaders \in Nat
    BY DEF Holders, LockType
  <1>1. CASE c \in Exclusive \/ activeReaders = 1
    <2>1. Holders = {c}
      BY <1>1, CountersAgree
    <2>2. Drain(c)
      BY <1>1 DEF Release
    <2>3. (Holders \ {c}) = {}
      BY <2>1
    <2> QED BY <2>1, <2>2, <2>3, <1>0, DrainStep
  <1>2. CASE ~(c \in Exclusive \/ activeReaders = 1)
    <2>1. /\ activeReaders' = activeReaders - 1 /\ pc' = [pc EXCEPT ![c] = "DONE"]
          /\ queue' = queue /\ writerActive' = writerActive
      BY <1>2 DEF Release
    <2>2. Holders' = Holders \ {c}
      BY <2>1, <1>0 DEF Holders, LockType
    <2>3. Holders' \ Exclusive = (Holders \ Exclusive) \ {c} /\ c \in Holders \ Exclusive
      BY <1>2, <2>2
    <2>4. Holders \cap Exclusive = {}
      BY <1>2 DEF Exclusion
    <2>5. /\ activeReaders = Cardinality(Holders \ Exclusive) /\ IsFiniteSet(Holders \ Exclusive)
          /\ IsFiniteSet(Holders)
      BY CountersAgree DEF Exclusion
    <2>6. activeReaders # 0
      BY <2>3, <2>5, FS_EmptySet
    <2>7. activeReaders' \in Nat /\ activeReaders' > 0
      BY <2>1, <2>6, <1>0, <1>2
    <2>8. Cardinality(Holders' \ Exclusive) = activeReaders' /\ IsFiniteSet(Holders')
      BY <2>1, <2>2, <2>3, <2>5, FS_RemoveElement
    <2>9. Exclusion'
      BY <2>1, <2>2, <2>4, <2>8 DEF Exclusion
    <2>10. LockType'
      BY <2>1, <2>7 DEF LockType
    <2>11. \A d \in Calls : pc'[d] = "QUEUED" <=> pc[d] = "QUEUED"
      BY <2>1, <1>0 DEF LockType
    <2>12. Waiting'
      BY <2>1, <2>7, <2>11 DEF Waiting
    <2>13. Holders' # {}
      <3>1. Holders' \ Exclusive # {}
        BY <2>7, <2>8, FS_EmptySet
      <3> QED BY <3>1
    <2>14. pc' = [d \in Calls |-> IF d = c THEN "DONE"
                                 ELSE IF d \in {} THEN "GRANTED" ELSE pc[d]]
      BY <2>1 DEF LockType
    <2>15. \A i \in DOMAIN queue : pc'[queue[i]] = "QUEUED"
      BY <1>0, <2>11 DEF Waiting, Range
    <2>16. \E admitted \in SUBSET Range(queue) :
                 /\ Holders' = (Holders \ {c}) \cup admitted
                 /\ Range(queue') = Range(queue) \ admitted
                 /\ pc' = [d \in Calls |-> IF d = c THEN "DONE"
                                           ELSE IF d \in admitted THEN "GRANTED" ELSE pc[d]]
      <3>1. WITNESS {} \in SUBSET Range(queue)
      <3> QED BY <2>1, <2>2, <2>14
    <2> QED BY <2>9, <2>10, <2>12, <2>13, <2>15, <2>16
  <1> QED BY <1>1, <1>2

-----------------------------------------------------------------------------
(* The invariant *)

\* Steps that change neither the lock nor who holds it.
LEMMA LockStutters ==
    ASSUME LockInv, UNCHANGED lockVars, Holders' = Holders,
           pc' \in [Calls -> {"READY", "QUEUED", "GRANTED", "RUNNING", "ENDING", "DONE", "FAILED"}],
           \A c \in Calls : pc'[c] = "QUEUED" <=> pc[c] = "QUEUED"
    PROVE  LockInv'
  BY DEF LockInv, LockType, Exclusion, Waiting, lockVars

\* A call that arrives changes the lock only.
LEMMA CallInv ==
    ASSUME Inv, NEW c \in Calls, Call(c)
    PROVE  Inv'
  <1> USE DEF Inv
  <1>1. /\ LockInv' /\ Holders \subseteq Holders'
        /\ pc' \in {[pc EXCEPT ![c] = "GRANTED"], [pc EXCEPT ![c] = "QUEUED"]}
    BY AcquireStep DEF Call
  <1>2. \A d \in Calls : d # c => pc'[d] = pc[d]
    BY <1>1 DEF TypeOK
  <1>3. pc[c] = "READY" /\ pc'[c] \in {"GRANTED", "QUEUED"}
    BY <1>1 DEF TypeOK, Call
  <1>4. TypeOK'
    BY <1>1 DEF TypeOK, Call, LockInv, LockType
  <1>5. CwdIsOwned'
    <2>1. ASSUME cwd # Baseline PROVE \E d \in Holders' : Root[d] = cwd /\ pc'[d] # "GRANTED"
      <3>1. PICK d \in Holders : Root[d] = cwd /\ pc[d] # "GRANTED"
        BY <2>1 DEF CwdIsOwned
      <3>2. d # c /\ d \in Calls
        BY <1>3 DEF Holders
      <3> QED BY <1>1, <1>2, <3>1, <3>2
    <2> QED BY <2>1 DEF CwdIsOwned, Call
  <1>6. MetadataInPlace'
    BY <1>2, <1>3, CallsAssumption DEF MetadataInPlace, Call
  <1>7. Opened'
    BY <1>2 DEF Opened, Call
  <1> QED BY <1>1, <1>4, <1>5, <1>6, <1>7

\* A granted call starts: an exclusive one finds the process in its own directory.
LEMMA StartInv ==
    ASSUME Inv, NEW c \in Calls, Start(c)
    PROVE  Inv'
  <1> USE DEF Inv, Start
  <1>1. /\ pc' = [pc EXCEPT ![c] = pc'[c]] /\ pc'[c] \in {"RUNNING", "ENDING"}
        /\ pc[c] = "GRANTED" /\ c \in Holders
    BY DEF TypeOK, Holders
  <1>2. Holders' = Holders
    BY <1>1 DEF Holders, TypeOK
  <1>3. LockInv'
    BY <1>1, <1>2, LockStutters DEF TypeOK
  <1>4. c \in Exclusive => cwd = Baseline
    <2> SUFFICES ASSUME c \in Exclusive, cwd # Baseline PROVE FALSE
      OBVIOUS
    <2>1. PICK d \in Holders : pc[d] # "GRANTED"
      BY DEF CwdIsOwned
    <2>2. Holders = {c}
      BY <1>1 DEF LockInv, Exclusion
    <2> QED BY <1>1, <2>1, <2>2
  <1>5. cwd' \in {cwd, Root[c]} /\ (cwd' # cwd => cwd' = Root[c])
    OBVIOUS
  <1>6. TypeOK'
    BY <1>1, <1>3, <1>5, CallsAssumption DEF TypeOK, LockInv, LockType
  <1>7. CwdIsOwned'
    <2>1. ASSUME cwd' # Baseline PROVE \E d \in Holders' : Root[d] = cwd' /\ pc'[d] # "GRANTED"
      <3>1. CASE cwd' = Root[c]
        BY <1>1, <1>2, <3>1
      <3>2. CASE cwd' # Root[c]
        <4>1. cwd' = cwd
          BY <1>5, <3>2
        <4>2. PICK d \in Holders : Root[d] = cwd /\ pc[d] # "GRANTED"
          BY <2>1, <4>1 DEF CwdIsOwned
        <4>3. d # c /\ d \in Calls
          BY <1>1, <4>2 DEF Holders
        <4>4. pc'[d] = pc[d]
          BY <1>1, <4>3 DEF TypeOK
        <4> QED BY <1>2, <4>1, <4>2, <4>4
      <3> QED BY <3>1, <3>2
    <2>2. \A d \in Exclusive : previousCwd'[d] = Baseline
      BY <1>4 DEF CwdIsOwned, TypeOK
    <2> QED BY <2>1, <2>2 DEF CwdIsOwned
  <1>8. MetadataInPlace'
    <2> SUFFICES ASSUME NEW d \in Exclusive, pc'[d] = "RUNNING", directory[Root[d]] = "PRESENT"
                 PROVE  cwd' = Root[d]
      BY DEF MetadataInPlace
    <2>0. d \in Calls
      BY CallsAssumption
    <2>1. CASE d = c
      BY <2>1, <1>1 DEF TypeOK
    <2>2. CASE d # c
      <3>1. d \in Holders
        BY <2>0, <2>2, <1>1, <1>2 DEF Holders, TypeOK
      <3> QED BY <2>2, <3>1, <1>1 DEF LockInv, Exclusion
    <2> QED BY <2>1, <2>2
  <1>9. Opened'
    BY <1>1 DEF Opened, TypeOK
  <1> QED BY <1>3, <1>6, <1>7, <1>8, <1>9

\* The finally block: whoever restores, the process is in the baseline afterwards.
LEMMA FinishInv ==
    ASSUME Inv, NEW c \in Calls, Finish(c)
    PROVE  Inv'
  <1> USE DEF Inv, Finish
  <1>1. c \in Holders
    BY DEF Holders
  <1>2. PICK admitted \in SUBSET Range(queue) :
           /\ Holders' = (Holders \ {c}) \cup admitted
           /\ pc' = [d \in Calls |-> IF d = c THEN "DONE"
                                     ELSE IF d \in admitted THEN "GRANTED" ELSE pc[d]]
    BY <1>1, ReleaseStep
  <1>3. LockInv'
    BY <1>1, ReleaseStep
  <1>4. cwd' = Baseline
    BY DEF Restore, CwdIsOwned
  <1>5. TypeOK'
    BY <1>3, <1>4 DEF TypeOK, LockInv, LockType
  <1>6. CwdIsOwned'
    BY <1>4 DEF CwdIsOwned
  <1>7. MetadataInPlace'
    <2> SUFFICES ASSUME NEW d \in Exclusive, pc'[d] = "RUNNING" PROVE FALSE
      BY DEF MetadataInPlace
    <2>0. d \in Calls
      BY CallsAssumption
    <2>1. d # c /\ pc[d] = "RUNNING"
      BY <1>2, <2>0
    <2>2. d \in Holders
      BY <2>0, <2>1 DEF Holders
    <2> QED BY <1>1, <2>1, <2>2 DEF LockInv, Exclusion
  <1>8. Opened'
    <2>1. \A d \in Calls : pc'[d] # "READY" => pc[d] # "READY"
      <3> SUFFICES ASSUME NEW d \in Calls, pc[d] = "READY" PROVE pc'[d] = "READY"
        OBVIOUS
      <3>1. d \notin Range(queue) /\ d # c
        BY DEF LockInv, Waiting
      <3> QED BY <3>1, <1>2
    <2> QED BY <2>1 DEF Opened
  <1> QED BY <1>3, <1>5, <1>6, <1>7, <1>8

\* A call whose restore throws keeps the lock.
LEMMA FinishFailsInv ==
    ASSUME Inv, NEW c \in Calls, FinishFails(c)
    PROVE  Inv'
  <1> USE DEF Inv, FinishFails
  <1>1. Holders' = Holders
    BY DEF Holders, TypeOK
  <1>2. LockInv'
    BY <1>1, LockStutters DEF TypeOK
  <1>3. TypeOK' /\ Opened'
    BY DEF TypeOK, lockVars, Opened
  <1>4. \A d \in Calls : pc'[d] # "GRANTED" <=> pc[d] # "GRANTED"
    BY DEF TypeOK
  <1>5. CwdIsOwned'
    BY <1>1, <1>4 DEF CwdIsOwned, Holders
  <1>6. \A d \in Calls : pc'[d] = "RUNNING" => pc[d] = "RUNNING"
    BY DEF TypeOK
  <1>7. MetadataInPlace'
    BY <1>6, CallsAssumption DEF MetadataInPlace
  <1> QED BY <1>2, <1>3, <1>5, <1>7

\* Steps that change nothing but directories on disk, without creating a workspace a
\* retrieval runs in.
LEMMA DirectoryInv ==
    ASSUME Inv, UNCHANGED <<lockVars, pc, previousCwd, cwd>>,
           directory' \in [Workspaces -> {"ABSENT", "PRESENT", "REMOVING", "GONE", "LEFT"}],
           \A w \in Workspaces : directory'[w] = "ABSENT" => directory[w] = "ABSENT",
           \A c \in Exclusive : pc[c] = "RUNNING" /\ directory'[Root[c]] = "PRESENT"
                                     => directory[Root[c]] = "PRESENT"
    PROVE  Inv'
  <1> USE DEF Inv
  <1>1. Holders' = Holders
    BY DEF Holders
  <1>2. LockInv'
    BY <1>1, LockStutters DEF TypeOK
  <1>3. TypeOK'
    BY DEF TypeOK, lockVars
  <1>4. CwdIsOwned'
    BY <1>1 DEF CwdIsOwned
  <1>5. MetadataInPlace' /\ Opened'
    BY CallsAssumption DEF MetadataInPlace, Opened
  <1> QED BY <1>2, <1>3, <1>4, <1>5

\* cleanupRoot leaves the workspace it removes; nobody else's.
LEMMA CloseScopeInv ==
    ASSUME Inv, NEW w \in Workspaces, CloseScope(w)
    PROVE  Inv'
  <1> USE DEF Inv, CloseScope
  <1>1. Holders' = Holders
    BY DEF Holders
  <1>2. LockInv'
    BY <1>1, LockStutters DEF TypeOK
  <1>3. TypeOK'
    BY DEF TypeOK, lockVars
  <1>4. cwd' = cwd \/ (cwd' = Baseline /\ cwd = w)
    OBVIOUS
  <1>5. CwdIsOwned'
    BY <1>1, <1>4 DEF CwdIsOwned
  <1>6. directory'[w] # "PRESENT" /\ directory'[w] # "ABSENT"
        /\ \A v \in Workspaces \ {w} : directory'[v] = directory[v]
    BY DEF TypeOK
  <1>7. MetadataInPlace'
    BY <1>4, <1>6, CallsAssumption DEF MetadataInPlace
  <1>8. Opened'
    BY <1>6, CallsAssumption DEF Opened
  <1> QED BY <1>2, <1>3, <1>5, <1>7, <1>8

\* Nobody has called anything in the initial state.
LEMMA InitInv == Init => Inv
  <1> SUFFICES ASSUME Init PROVE Inv
    OBVIOUS
  <1> USE DEF Init
  <1>1. Holders = {}
    BY DEF Holders
  <1>2. TypeOK /\ LockType
    <2>1. /\ queue \in Seq(Calls) /\ activeReaders \in Nat /\ writerActive \in BOOLEAN
          /\ pc \in [Calls -> {"READY", "QUEUED", "GRANTED", "RUNNING", "ENDING", "DONE", "FAILED"}]
      <3>1. queue \in Seq(Calls)
        OBVIOUS
      <3>2. activeReaders \in Nat /\ writerActive \in BOOLEAN
        OBVIOUS
      <3>3. pc \in [Calls -> {"READY", "QUEUED", "GRANTED", "RUNNING", "ENDING", "DONE", "FAILED"}]
        OBVIOUS
      <3> QED BY <3>1, <3>2, <3>3
    <2>2. previousCwd \in [Exclusive -> Workspaces \cup {Baseline}] /\ cwd \in Workspaces \cup {Baseline}
      OBVIOUS
    <2>3. directory \in [Workspaces -> {"ABSENT", "PRESENT", "REMOVING", "GONE", "LEFT"}]
      OBVIOUS
    <2> QED BY <2>1, <2>2, <2>3 DEF TypeOK, LockType
  <1>3. Exclusion
    BY <1>1, FS_EmptySet DEF Exclusion
  <1>4. Waiting
    BY DEF Waiting, Range, IsInjective
  <1>5. CwdIsOwned /\ MetadataInPlace /\ Opened
    BY CallsAssumption DEF CwdIsOwned, MetadataInPlace, Opened
  <1> QED BY <1>2, <1>3, <1>4, <1>5 DEF Inv, LockInv

\* A step that changes nothing.
LEMMA StutterInv == Inv /\ UNCHANGED vars => Inv'
  <1> SUFFICES ASSUME Inv, UNCHANGED vars PROVE Inv'
    OBVIOUS
  <1> QED BY DirectoryInv DEF vars, Inv, TypeOK

\* Every step of the guard preserves the invariant.
LEMMA NextInv == Inv /\ [Next]_vars => Inv'
  <1> SUFFICES ASSUME Inv, [Next]_vars PROVE Inv'
    OBVIOUS
  <1>1. ASSUME NEW c \in Calls, Call(c) PROVE Inv'
    BY <1>1, CallInv
  <1>2. ASSUME NEW c \in Calls, Start(c) PROVE Inv'
    BY <1>2, StartInv
  <1>3. ASSUME NEW c \in Calls, Write(c) PROVE Inv'
    BY <1>3, DirectoryInv, CallsAssumption DEF Write, Inv, TypeOK
  <1>4. ASSUME NEW c \in Calls, Finish(c) PROVE Inv'
    BY <1>4, FinishInv
  <1>5. ASSUME NEW c \in Calls, FinishFails(c) PROVE Inv'
    BY <1>5, FinishFailsInv
  <1>6. ASSUME NEW w \in Workspaces, Open(w) PROVE Inv'
    <2>1. \A c \in Exclusive : pc[c] = "RUNNING" => Root[c] # w
      BY <1>6, CallsAssumption DEF Inv, Opened, Open
    <2> QED BY <1>6, <2>1, DirectoryInv, CallsAssumption DEF Open, Inv, TypeOK
  <1>7. ASSUME NEW w \in Workspaces, CloseScope(w) PROVE Inv'
    BY <1>7, CloseScopeInv
  <1>8. ASSUME NEW w \in Workspaces, RemovalEnds(w) PROVE Inv'
    BY <1>8, DirectoryInv, CallsAssumption DEF RemovalEnds, Inv, TypeOK
  <1>9. ASSUME Ended \/ UNCHANGED vars PROVE Inv'
    BY <1>9, StutterInv DEF Ended
  <1> QED BY <1>1, <1>2, <1>3, <1>4, <1>5, <1>6, <1>7, <1>8, <1>9 DEF Next

\* The inductive invariant: the lock agrees with its holders, and the working
\* directory with the lock.
THEOREM Invariance == Spec => []Inv
  BY InitInv, NextInv, PTL DEF Spec

-----------------------------------------------------------------------------
(* Results *)

\* The variables keep their types; activeReaders never becomes negative.
THEOREM TypeCorrect == Spec => []TypeOK
  <1>1. Inv => TypeOK
    BY DEF Inv
  <1> QED BY <1>1, Invariance, PTL

\* A metadata retrieval never runs together with another tool.
THEOREM MutualExclusion == Spec => []Exclusion
  <1>1. Inv => Exclusion
    BY DEF Inv, LockInv
  <1> QED BY <1>1, Invariance, PTL

\* No call waits for a lock that nobody holds.
THEOREM NoLostWakeup == Spec => []Waiting
  <1>1. Inv => Waiting
    BY DEF Inv, LockInv
  <1> QED BY <1>1, Invariance, PTL

\* Without a running tool the process is in its own directory.
THEOREM ReturnsToBaseline == Spec => []BaselineAtRest
  <1>1. Inv => BaselineAtRest
    BY DEF Inv, CwdIsOwned, BaselineAtRest
  <1> QED BY <1>1, Invariance, PTL

\* A retrieval keeps its directory while its request is open.
THEOREM RetrievalUndisturbed == Spec => []MetadataInPlace
  <1>1. Inv => MetadataInPlace
    BY DEF Inv
  <1> QED BY <1>1, Invariance, PTL

\* A workspace is the working directory only on behalf of a call that holds the lock.
THEOREM DirectoryIsOwned == Spec => []CwdIsOwned
  <1>1. Inv => CwdIsOwned
    BY DEF Inv
  <1> QED BY <1>1, Invariance, PTL

\* What the guard leaves to the scope of the request: its workspace outlives its calls.
WorkspacesOutliveCalls ==
  \A c \in Calls : pc[c] \in {"GRANTED", "RUNNING", "ENDING"} => directory[Root[c]] = "PRESENT"

\* The lock is lost in one way only: a workspace is removed under a call that is not over.
\* With scopes that close behind their calls, every call that is over has released the lock
\* (restore cannot throw in the finally block of runExclusive and runShared).
THEOREM LockLostUnderRemovalOnly == Spec /\ []WorkspacesOutliveCalls => []EndedCallsRelease
  <1>1. Init => EndedCallsRelease
    BY DEF Init, EndedCallsRelease
  <1>2. Inv /\ WorkspacesOutliveCalls /\ EndedCallsRelease /\ [Next]_vars => EndedCallsRelease'
    <2> SUFFICES ASSUME Inv, WorkspacesOutliveCalls, EndedCallsRelease, [Next]_vars,
                        NEW c \in Calls, pc'[c] = "FAILED"
                 PROVE  FALSE
      BY DEF EndedCallsRelease
    <2>1. ~CwdGone
      <3>1. CASE cwd = Baseline
        BY <3>1, BaselineAssumption DEF CwdGone
      <3>2. CASE cwd # Baseline
        <4>1. PICK d \in Holders : Root[d] = cwd /\ pc[d] # "GRANTED"
          BY <3>2 DEF Inv, CwdIsOwned
        <4>2. directory[cwd] = "PRESENT"
          BY <4>1 DEF Holders, WorkspacesOutliveCalls, EndedCallsRelease
        <4> QED BY <4>2 DEF CwdGone
      <3> QED BY <3>1, <3>2
    <2>2. PICK d \in Calls : Call(d) \/ Start(d) \/ Write(d) \/ Finish(d)
      BY <2>1 DEF Next, EndedCallsRelease, Open, CloseScope, RemovalEnds, Ended, FinishFails, vars
    <2>3. pc \in [Calls -> {"READY", "QUEUED", "GRANTED", "RUNNING", "ENDING", "DONE", "FAILED"}]
      BY DEF Inv, TypeOK
    <2>4. pc[c] # "FAILED"
      BY DEF EndedCallsRelease
    <2>5. CASE Call(d)
      BY <2>3, <2>4, <2>5 DEF Call, AcquireExclusive, AcquireShared, Enqueue
    <2>6. CASE Start(d)
      BY <2>3, <2>4, <2>6 DEF Start
    <2>7. CASE Write(d)
      BY <2>4, <2>7 DEF Write
    <2>8. CASE Finish(d)
      BY <2>3, <2>4, <2>8 DEF Finish, Release, Drain, Admit
    <2> QED BY <2>2, <2>5, <2>6, <2>7, <2>8
  <1> QED BY <1>1, <1>2, Invariance, PTL DEF Spec

\* First come, first served: nobody is overtaken in the queue.
THEOREM FirstComeFirstServed == Spec => NoOvertaking
  <1> DEFINE Fair == /\ \A i, j \in DOMAIN queue :
                          i < j /\ pc'[queue[j]] # "QUEUED" => pc'[queue[i]] # "QUEUED"
                     /\ \A c \in Calls : pc[c] = "READY" /\ pc'[c] = "GRANTED" => queue = <<>>
  <1>1. Inv /\ [Next]_vars => [Fair]_vars
    <2> SUFFICES ASSUME Inv, Next PROVE Fair
      OBVIOUS
    <2>0. \A i \in DOMAIN queue : queue[i] \in Calls /\ pc[queue[i]] = "QUEUED"
      BY DEF Inv, LockInv, Waiting, Range
    <2>1. ASSUME NEW c \in Calls, Call(c) PROVE Fair
      <3>1. pc' \in {[pc EXCEPT ![c] = "GRANTED"], [pc EXCEPT ![c] = "QUEUED"]}
            /\ pc[c] = "READY" /\ (pc'[c] = "GRANTED" => queue = <<>>)
        BY <2>1, AcquireStep DEF Call, Inv
      <3>2. \A d \in Calls : d # c => pc'[d] = pc[d]
        BY <3>1 DEF Inv, TypeOK
      <3> QED BY <2>0, <3>1, <3>2
    <2>2. ASSUME NEW c \in Calls, Finish(c) PROVE Fair
      <3>1. c \in Holders
        BY <2>2 DEF Holders, Finish
      <3>2. PICK admitted \in SUBSET Range(queue) :
               pc' = [d \in Calls |-> IF d = c THEN "DONE"
                                     ELSE IF d \in admitted THEN "GRANTED" ELSE pc[d]]
        BY <2>2, <3>1, ReleaseStep DEF Finish, Inv
      <3>3. \A d \in Calls : d \in Range(queue) => pc[d] # "READY"
        BY DEF Inv, LockInv, Waiting
      <3>4. \A d \in Calls : pc[d] = "READY" => pc'[d] # "GRANTED"
        BY <3>2, <3>3
      <3> QED BY <2>2, <3>1, <3>4, ReleaseStep DEF Finish, Inv
    <2>3. ASSUME NEW c \in Calls, Start(c) \/ FinishFails(c) PROVE Fair
      <3>1. \A d \in Calls : /\ pc[d] = "QUEUED" => pc'[d] = "QUEUED"
                             /\ pc[d] = "READY" => pc'[d] # "GRANTED"
        BY <2>3 DEF Start, FinishFails, Inv, TypeOK
      <3> QED BY <2>0, <3>1
    <2>4. ASSUME UNCHANGED pc PROVE Fair
      BY <2>0, <2>4
    <2> QED BY <2>1, <2>2, <2>3, <2>4 DEF Next, Write, Open, CloseScope, RemovalEnds, Ended, vars
  <1> QED BY <1>1, Invariance, PTL DEF Spec, NoOvertaking

\* The lock of the guard implements the read/write lock of ReadWriteLock.
THEOREM Implementation == Spec => ImplementsLock
  <1>1. Init => Lock!Init
    BY DEF Init, Lock!Init, Holders, Range
  <1>2. Inv /\ [Next]_vars => [Lock!Next]_<<Range(queue), Holders>>
    <2> SUFFICES ASSUME Inv, [Next]_vars
                 PROVE  Lock!Next \/ UNCHANGED <<Range(queue), Holders>>
      OBVIOUS
    <2>1. ASSUME NEW c \in Calls, Call(c) PROVE Lock!Request(c)
      <3>1. pc[c] = "READY" /\ c \notin Holders /\ c \notin Range(queue)
        BY <2>1 DEF Call, Holders, Inv, LockInv, Waiting
      <3>2. LockInv'
        BY <2>1, AcquireStep DEF Call, Inv
      <3>3. Lock!Compatible(Holders')
        BY <3>2 DEF LockInv, Exclusion, Lock!Compatible
      <3>4. \/ /\ Holders' = Holders \cup {c} /\ queue = <<>> /\ queue' = <<>>
            \/ /\ Holders' = Holders /\ Holders # {} /\ Range(queue') = Range(queue) \cup {c}
        BY <2>1, AcquireStep DEF Call, Inv
      <3> QED BY <3>1, <3>3, <3>4 DEF Lock!Request
    <2>2. ASSUME NEW c \in Calls, Finish(c) PROVE Lock!Release(c)
      <3>1. c \in Holders
        BY <2>2 DEF Holders, Finish
      <3>2. /\ LockInv'
            /\ \E admitted \in SUBSET Range(queue) :
                  /\ Holders' = (Holders \ {c}) \cup admitted
                  /\ Range(queue') = Range(queue) \ admitted
            /\ Range(queue') # {} => Holders' # {}
        BY <2>2, <3>1, ReleaseStep DEF Finish, Inv
      <3>3. Lock!Compatible(Holders')
        BY <3>2 DEF LockInv, Exclusion, Lock!Compatible
      <3> QED BY <3>1, <3>2, <3>3 DEF Lock!Release
    <2>3. ASSUME NEW c \in Calls, Start(c) \/ FinishFails(c)
          PROVE  UNCHANGED <<Range(queue), Holders>>
      <3>1. queue' = queue
        BY <2>3 DEF Start, FinishFails, lockVars
      <3>2. Holders' = Holders
        BY <2>3 DEF Start, FinishFails, Holders, Inv, TypeOK
      <3> QED BY <3>1, <3>2
    <2>4. ASSUME UNCHANGED <<queue, pc>> PROVE UNCHANGED <<Range(queue), Holders>>
      BY <2>4 DEF Holders
    <2> QED BY <2>1, <2>2, <2>3, <2>4
            DEF Next, Write, Open, CloseScope, RemovalEnds, Ended, vars, lockVars, Lock!Next
  <1> QED BY <1>1, <1>2, Invariance, PTL DEF Spec, Lock!Spec, ImplementsLock
=============================================================================
