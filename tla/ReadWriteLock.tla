---------------------------- MODULE ReadWriteLock ----------------------------
(***************************************************************************)
(* What a read/write lock promises its callers: exclusive calls hold it    *)
(* alone, and nobody waits for a lock that is free.  The promise leaves    *)
(* open who is admitted next.  CwdGuard implements it.                     *)
(***************************************************************************)
CONSTANTS Calls, Exclusive

VARIABLES waiting, holding

Compatible(callers) == \A c \in callers \cap Exclusive : callers = {c}

Init == waiting = {} /\ holding = {}

\* a call arrives and is admitted, or waits because the lock is taken
Request(c) ==
    /\ c \notin waiting \cup holding
    /\ \/ /\ holding' = holding \cup {c} /\ Compatible(holding')
          /\ UNCHANGED waiting
       \/ /\ holding # {}
          /\ waiting' = waiting \cup {c}
          /\ UNCHANGED holding

\* a call lets go; the waiting calls admitted with it are compatible, and the
\* lock is not left free while a call waits
Release(c) ==
    /\ c \in holding
    /\ \E admitted \in SUBSET waiting :
          /\ holding' = (holding \ {c}) \cup admitted
          /\ waiting' = waiting \ admitted
    /\ Compatible(holding')
    /\ waiting' # {} => holding' # {}

Next == \E c \in Calls : Request(c) \/ Release(c)

Spec == Init /\ [][Next]_<<waiting, holding>>
=============================================================================
