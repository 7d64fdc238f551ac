------------------------------- MODULE Mutex -------------------------------
(***************************************************************************)
(* What a kernel lock promises its callers, with no word about how: a lock *)
(* has at most one holder, only a thread that asked for a lock becomes its *)
(* holder, and a release either frees the lock or hands it to a thread     *)
(* that is asking for it.                                                  *)
(***************************************************************************)

CONSTANTS Thread, Lock, NoThread, NoLock

VARIABLES holder,   \* holder[l]: the thread that owns l, or NoThread
          asking    \* asking[t]: the lock t has asked for and not yet got

mutexVars == <<holder, asking>>

MutexInit ==
    /\ holder = [l \in Lock |-> NoThread]
    /\ asking = [t \in Thread |-> NoLock]

Ask(t, l) ==
    /\ asking[t] = NoLock
    /\ asking' = [asking EXCEPT ![t] = l]
    /\ UNCHANGED holder

Acquire(t, l) ==
    /\ asking[t] = l
    /\ holder[l] = NoThread
    /\ holder' = [holder EXCEPT ![l] = t]
    /\ asking' = [asking EXCEPT ![t] = NoLock]

Release(t, l) ==
    /\ holder[l] = t
    /\ holder' = [holder EXCEPT ![l] = NoThread]
    /\ UNCHANGED asking

HandOver(t, u, l) ==
    /\ holder[l] = t
    /\ asking[u] = l
    /\ holder' = [holder EXCEPT ![l] = u]
    /\ UNCHANGED asking

Return(t, l) ==
    /\ asking[t] = l
    /\ holder[l] = t
    /\ asking' = [asking EXCEPT ![t] = NoLock]
    /\ UNCHANGED holder

MutexNext ==
    \E t \in Thread, l \in Lock :
        \/ Ask(t, l)
        \/ Acquire(t, l)
        \/ Release(t, l)
        \/ \E u \in Thread \ {t} : HandOver(t, u, l)
        \/ Return(t, l)

MutexSpec == MutexInit /\ [][MutexNext]_mutexVars

=============================================================================
