-------------------------- MODULE KLightLockProofs --------------------------
(***************************************************************************)
(* Proofs about KLightLock for any set of threads, any number of nested    *)
(* locks and any set of suspend types.                                     *)
(***************************************************************************)
EXTENDS KLightLock, TLAPS

\* Leaves are given to the SMT solver, then to Zenon, unless they name their prover.
USE SMTT(60), SMTT(61), ZenonT(60)

\* The invariant holds in the initial states.
LEMMA InitIInv == Init => IInv
  BY ThreadAssumption, LockAssumption
  DEF Init, IInv, TypeOK, OwnerAccounted, PlacesAccounted, BitNeedsOwner,
      SleepersWaitOnOwner, Tag, Free, Lock, NoLock, PC, InLock

LEMMA NextIInv == IInv /\ [Next]_vars => IInv'
<1> SUFFICES ASSUME IInv, [Next]_vars PROVE IInv'
  OBVIOUS
<1> USE ThreadAssumption, LockAssumption
<1>1. ASSUME NEW t \in Thread, NEW l \in Lock, LoadTag(t, l)
      PROVE  IInv'
  <2> USE <1>1 DEF Running, LoadTag, threadVars
  <2>1. TypeOK'
    BY DEF IInv, TypeOK, PC
  <2>2. OwnerAccounted'
    BY DEF IInv, TypeOK, OwnerAccounted
  <2>3. PlacesAccounted'
    BY DEF IInv, TypeOK, OwnerAccounted, PlacesAccounted, BitNeedsOwner, InLock, Lock
  <2>4. BitNeedsOwner'
    BY DEF IInv, BitNeedsOwner
  <2>5. SleepersWaitOnOwner'
    BY DEF IInv, TypeOK, SleepersWaitOnOwner
  <2>6. QED
    BY <2>1, <2>2, <2>3, <2>4, <2>5 DEF IInv
<1>2. ASSUME NEW t \in Thread, TakeFree(t)
      PROVE  IInv'
  <2> USE <1>2 DEF Running, TakeFree, threadVars
  <2>1. target[t] \in Lock /\ tag[target[t]] = Free
    BY DEF IInv, PlacesAccounted, InLock
  <2>2. TypeOK'
    BY <2>1 DEF IInv, TypeOK, PC, Tag
  <2>3. OwnerAccounted'
    BY <2>1 DEF IInv, TypeOK, OwnerAccounted, PlacesAccounted, Free
  <2>4. PlacesAccounted'
    BY <2>1 DEF IInv, TypeOK, OwnerAccounted, PlacesAccounted, InLock, Free
  <2>5. BitNeedsOwner'
    BY <2>1 DEF IInv, TypeOK, BitNeedsOwner
  <2>6. SleepersWaitOnOwner'
    BY <2>1 DEF IInv, TypeOK, SleepersWaitOnOwner, PlacesAccounted, InLock, Free
  <2>7. QED
    BY <2>2, <2>3, <2>4, <2>5, <2>6 DEF IInv
<1>3. ASSUME NEW t \in Thread, MarkWaiters(t)
      PROVE  IInv'
  <2> USE <1>3 DEF Running, MarkWaiters, threadVars, WithWaiters
  <2>1. target[t] \in Lock /\ tag[target[t]].owner \in Thread
    BY DEF IInv, TypeOK, PlacesAccounted, InLock, BitNeedsOwner, Tag
  <2>2. TypeOK'
    BY <2>1 DEF IInv, TypeOK, PC, Tag
  <2>3. \A l \in Lock : tag'[l].owner = tag[l].owner /\ (tag[l].waiters => tag'[l].waiters)
    BY <2>1 DEF IInv, TypeOK, Tag
  <2>4. OwnerAccounted'
    BY <2>3 DEF IInv, TypeOK, OwnerAccounted
  <2>5. PlacesAccounted'
    BY <2>1, <2>3 DEF IInv, TypeOK, PlacesAccounted, InLock
  <2>6. BitNeedsOwner'
    BY <2>1, <2>3 DEF IInv, TypeOK, BitNeedsOwner
  <2>7. SleepersWaitOnOwner'
    BY <2>1 DEF IInv, TypeOK, SleepersWaitOnOwner, PlacesAccounted, InLock, Tag
  <2>8. QED
    BY <2>2, <2>4, <2>5, <2>6, <2>7 DEF IInv
<1>4. ASSUME NEW t \in Thread, 
             CompareExchangeFails(t) \/ ReloadTag(t)
      PROVE  IInv'
  <2> USE <1>4 DEF Running, CompareExchangeFails, ReloadTag, threadVars
  <2>1. target[t] \in Lock
    BY DEF IInv, PlacesAccounted, InLock
  <2>2. TypeOK'
    BY <2>1 DEF IInv, TypeOK, PC
  <2>3. OwnerAccounted'
    BY DEF IInv, TypeOK, OwnerAccounted
  <2>4. PlacesAccounted'
    BY <2>1 DEF IInv, TypeOK, OwnerAccounted, PlacesAccounted, BitNeedsOwner, InLock, Lock
  <2>5. BitNeedsOwner' /\ SleepersWaitOnOwner'
    BY DEF IInv, TypeOK, BitNeedsOwner, SleepersWaitOnOwner
  <2>6. QED
    BY <2>2, <2>3, <2>4, <2>5 DEF IInv
<1>5. ASSUME NEW t \in Thread, LockSlowPathRetry(t)
      PROVE  IInv'
  BY <1>5 DEF LockSlowPathRetry, threadVars, IInv, TypeOK, PC, OwnerAccounted,
              PlacesAccounted, InLock, BitNeedsOwner, SleepersWaitOnOwner
<1>6. ASSUME NEW t \in Thread, LockSlowPathWait(t)
      PROVE  IInv'
  <2> USE <1>6 DEF Running, LockSlowPathWait, WithWaiters
  <2>1. /\ target[t] \in Lock
        /\ oldTag[t].owner \in Thread \ {t}
        /\ tag[target[t]] = [owner |-> oldTag[t].owner, waiters |-> TRUE]
    BY DEF IInv, TypeOK, PlacesAccounted, InLock, Tag
  <2>2. suspended' \in [Thread -> SUBSET SuspendType]
    BY <2>1 DEF IInv, TypeOK, ContinueIfHasKernelWaiters, IsSuspended
  <2>3. TypeOK'
    BY ZenonT(60), <2>1, <2>2 DEF IInv, TypeOK, PC
  <2>4. OwnerAccounted'
    <3>1. target[t] \notin held[t]
      BY <2>1 DEF IInv, PlacesAccounted, InLock, Lock
    <3>2. QED
      BY <2>1, <3>1 DEF IInv, TypeOK, OwnerAccounted
  <2>5. PlacesAccounted'
    BY <2>1 DEF IInv, TypeOK, PlacesAccounted, InLock
  <2>6. BitNeedsOwner'
    BY DEF IInv, BitNeedsOwner
  <2>7. SleepersWaitOnOwner'
    BY <2>1 DEF IInv, TypeOK, SleepersWaitOnOwner
  <2>8. QED
    BY <2>3, <2>4, <2>5, <2>6, <2>7 DEF IInv
<1>7. ASSUME NEW t \in Thread, LockSlowPathReturn(t)
      PROVE  IInv'
  <2> USE <1>7 DEF Running, LockSlowPathReturn, threadVars
  <2>1. target[t] \in Lock
    BY DEF IInv, PlacesAccounted, InLock
  <2>2. TypeOK'
    BY <2>1 DEF IInv, TypeOK, PC
  <2>3. OwnerAccounted'
    BY <2>1 DEF IInv, TypeOK, OwnerAccounted
  <2>4. PlacesAccounted'
    BY <2>1 DEF IInv, TypeOK, PlacesAccounted, InLock
  <2>5. BitNeedsOwner' /\ SleepersWaitOnOwner'
    BY DEF IInv, TypeOK, BitNeedsOwner, SleepersWaitOnOwner
  <2>6. QED
    BY <2>2, <2>3, <2>4, <2>5 DEF IInv
<1>8. ASSUME NEW t \in Thread, NEW l \in Lock, UnlockFast(t, l)
      PROVE  IInv'
  <2> USE <1>8 DEF Running, UnlockFast, threadVars
  <2>1. TypeOK'
    BY DEF IInv, TypeOK, Tag, Free
  <2>2. OwnerAccounted'
    BY DEF IInv, TypeOK, OwnerAccounted, Free
  <2>3. PlacesAccounted'
    BY DEF IInv, TypeOK, OwnerAccounted, PlacesAccounted, InLock
  <2>4. BitNeedsOwner'
    BY DEF IInv, TypeOK, BitNeedsOwner
  <2>5. SleepersWaitOnOwner'
    BY DEF IInv, TypeOK, SleepersWaitOnOwner, PlacesAccounted, InLock
  <2>6. QED
    BY <2>1, <2>2, <2>3, <2>4, <2>5 DEF IInv
<1>9. ASSUME NEW t \in Thread, NEW l \in Lock, UnlockContended(t, l)
      PROVE  IInv'
  <2> USE <1>9 DEF Running, UnlockContended, threadVars
  <2>1. tag[l].owner = t /\ tag[l].waiters
    BY DEF IInv, TypeOK, OwnerAccounted, Tag
  <2>2. TypeOK'
    BY DEF IInv, TypeOK, PC
  <2>3. OwnerAccounted'
    BY <2>1 DEF IInv, TypeOK, OwnerAccounted
  <2>4. PlacesAccounted'
    BY <2>1 DEF IInv, TypeOK, PlacesAccounted, InLock
  <2>5. BitNeedsOwner' /\ SleepersWaitOnOwner'
    BY DEF IInv, TypeOK, BitNeedsOwner, SleepersWaitOnOwner
  <2>6. QED
    BY <2>2, <2>3, <2>4, <2>5 DEF IInv
<1>10. ASSUME NEW t \in Thread, UnlockSlowPathFree(t)
       PROVE  IInv'
  <2> USE <1>10 DEF Running, UnlockSlowPathFree
  <2>1. /\ target[t] \in Lock
        /\ tag[target[t]].owner = t
        /\ \A w \in Thread : lockOwner[w] = t => target[w] # target[t]
    BY DEF IInv, OwnerAccounted, PlacesAccounted, WaitersByKey
  <2>2. suspended' \in [Thread -> SUBSET SuspendType]
    BY DEF IInv, TypeOK, TrySuspend
  <2>3. TypeOK'
    BY <2>1, <2>2 DEF IInv, TypeOK, PC, Tag, Free
  <2>4. OwnerAccounted'
    BY <2>1 DEF IInv, TypeOK, OwnerAccounted, PlacesAccounted, Free
  <2>5. PlacesAccounted'
    BY <2>1 DEF IInv, TypeOK, OwnerAccounted, PlacesAccounted, InLock
  <2>6. BitNeedsOwner'
    BY DEF IInv, TypeOK, BitNeedsOwner
  <2>7. SleepersWaitOnOwner'
    BY <2>1 DEF IInv, TypeOK, SleepersWaitOnOwner, PlacesAccounted, InLock
  <2>8. QED
    BY <2>3, <2>4, <2>5, <2>6, <2>7 DEF IInv
<1>11. ASSUME NEW t \in Thread, NEW next \in Thread, 
              UnlockSlowPathHandOver(t, next)
       PROVE  IInv'
  <2> DEFINE waiters == WaitersByKey(t, target[t])
  <2> USE <1>11 DEF Running, UnlockSlowPathHandOver, HandOver
  <2>1. /\ target[t] \in Lock
        /\ tag[target[t]].owner = t
        /\ next # t
        /\ lockOwner[next] = t
        /\ target[next] = target[t]
        /\ threadState[next] = "Waiting"
        /\ pc[next] = "waiting"
    BY DEF IInv, OwnerAccounted, PlacesAccounted, WaitersByKey
  <2>2. suspended' \in [Thread -> SUBSET SuspendType]
    BY DEF IInv, TypeOK, TrySuspend, ContinueIfHasKernelWaiters, IsSuspended
  <2>3. \A w \in Thread : threadState[w] = "Waiting" /\ target[w] = target[t] => w \in waiters
    BY <2>1 DEF IInv, SleepersWaitOnOwner, WaitersByKey
  <2>4. TypeOK'
    BY <2>1, <2>2 DEF IInv, TypeOK, PC, Tag
  <2>5. OwnerAccounted'
    BY <2>1 DEF IInv, TypeOK, OwnerAccounted, PlacesAccounted
  <2>6. PlacesAccounted'
    BY <2>1 DEF IInv, TypeOK, OwnerAccounted, PlacesAccounted, InLock, WaitersByKey
  <2>7. BitNeedsOwner'
    BY DEF IInv, TypeOK, BitNeedsOwner
  <2>8. SleepersWaitOnOwner'
    <3> SUFFICES ASSUME NEW w \in Thread, threadState'[w] = "Waiting"
                 PROVE  /\ lockOwner'[w] \in Thread \ {w}
                        /\ tag'[target'[w]].owner = lockOwner'[w]
                        /\ tag'[target'[w]].waiters
      BY DEF SleepersWaitOnOwner
    <3>1. w # next /\ threadState[w] = "Waiting"
      BY <2>1 DEF IInv, TypeOK
    <3>2. CASE w \in waiters
      BY ZenonT(60), <2>1, <3>1, <3>2 DEF IInv, TypeOK, WaitersByKey
    <3>3. CASE w \notin waiters
      BY <2>1, <2>3, <3>1, <3>3 DEF IInv, TypeOK, SleepersWaitOnOwner, PlacesAccounted, InLock
    <3>4. QED
      BY <3>2, <3>3
  <2>9. QED
    BY <2>4, <2>5, <2>6, <2>7, <2>8 DEF IInv
<1>12. ASSUME NEW t \in Thread, NEW type \in SuspendType,
              RequestSuspend(t, type) \/ Resume(t, type)
       PROVE  IInv'
  <2> USE <1>12 DEF Running, RequestSuspend, Resume, lockVars
  <2>1. TypeOK'
    BY DEF IInv, TypeOK, TrySuspend
  <2>2. OwnerAccounted' /\ PlacesAccounted' /\ BitNeedsOwner' /\ SleepersWaitOnOwner'
    BY DEF IInv, OwnerAccounted, PlacesAccounted, BitNeedsOwner, SleepersWaitOnOwner
  <2>3. QED
    BY <2>1, <2>2 DEF IInv
<1>13. CASE UNCHANGED vars
  BY <1>13 DEF vars, IInv, TypeOK, OwnerAccounted, PlacesAccounted, BitNeedsOwner,
               SleepersWaitOnOwner
<1>14. QED
  BY <1>1, <1>2, <1>3, <1>4, <1>5, <1>6, <1>7, <1>8, <1>9, <1>10, <1>11, <1>12, <1>13
  DEF Next, ThreadStep, SuspendStep, Finish

\* The invariant holds in every reachable state.
LEMMA SpecIInv == Spec => []IInv
<1>1. Init => IInv
  BY InitIInv
<1>2. IInv /\ [Next]_vars => IInv'
  BY NextIInv
<1>3. QED
  BY <1>1, <1>2, PTL DEF Spec

\* Every variable of the lock model keeps its type.
THEOREM TypeCorrect == Spec => []TypeOK
<1>1. IInv => TypeOK
  BY DEF IInv
<1>2. QED
  BY <1>1, SpecIInv, PTL

\* KLightLock excludes: no two threads are between Lock() and Unlock() of the
\* same lock, for any number of threads and nested locks.
THEOREM Exclusion == Spec => []MutualExclusion
<1>1. IInv => MutualExclusion
  BY DEF IInv, TypeOK, OwnerAccounted, MutualExclusion
<1>2. QED
  BY <1>1, SpecIInv, PTL

\* No wake-up is lost: a sleeper of LockSlowPath waits on the present owner,
\* whose Unlock() is forced into the slow path.
THEOREM NoLostWakeup == Spec => []SleepersWaitOnOwner
<1>1. IInv => SleepersWaitOnOwner
  BY DEF IInv
<1>2. QED
  BY <1>1, SpecIInv, PTL

\* Threads that take nested locks in order never wait in a cycle.
THEOREM OrderedWaiting == Spec => []WaitChainAscends
<1>1. IInv => WaitChainAscends
  <2> SUFFICES ASSUME IInv, NEW w \in Thread, lockOwner[w] # NoThread,
                      threadState[lockOwner[w]] = "Waiting"
               PROVE  target[w] < target[lockOwner[w]]
    BY DEF WaitChainAscends
  <2>1. threadState[w] = "Waiting" /\ pc[w] = "waiting" /\ target[w] \in Lock
    BY DEF IInv, PlacesAccounted, InLock
  <2>2. lockOwner[w] \in Thread /\ tag[target[w]].owner = lockOwner[w]
    BY <2>1 DEF IInv, SleepersWaitOnOwner
  <2>3. pc[lockOwner[w]] = "waiting"
    BY <2>2 DEF IInv, PlacesAccounted
  <2>4. target[w] \in held[lockOwner[w]]
    BY <2>1, <2>2, <2>3 DEF IInv, OwnerAccounted
  <2>5. QED
    BY <2>2, <2>3, <2>4 DEF IInv, PlacesAccounted, InLock
<1>2. QED
  BY <1>1, SpecIInv, PTL

LEMMA NextSuspend ==
  ASSUME IInv, OnlyRequestedSuspends, [Next]_vars
  PROVE  /\ OnlyRequestedSuspends'
         /\ SuspensionNotLost => SuspensionNotLost'
         /\ \A u \in Thread : Yields(u)
<1> DEFINE Goal == /\ OnlyRequestedSuspends'
                   /\ SuspensionNotLost => SuspensionNotLost'
                   /\ \A u \in Thread : Yields(u)
<1> USE ThreadAssumption
<1>0. TypeOK /\ PlacesAccounted /\ OwnerAccounted
  BY DEF IInv
<1>1. ASSUME UNCHANGED <<suspended, suspendRequest, lockOwner>> PROVE Goal
  BY <1>1 DEF OnlyRequestedSuspends, SuspensionNotLost, Yields, HasKernelWaiters
<1>2. ASSUME NEW t \in Thread, LockSlowPathWait(t) PROVE Goal
  <2>1. lockOwner[t] = NoThread /\ oldTag[t].owner \in Thread
    BY <1>0, <1>2 DEF LockSlowPathWait, PlacesAccounted
  <2>2. \A x \in Thread : HasKernelWaiters(lockOwner, x) => HasKernelWaiters(lockOwner', x)
    BY <1>0, <1>2, <2>1 DEF TypeOK, LockSlowPathWait, HasKernelWaiters
  <2>3. \A x \in Thread \ {oldTag[t].owner} :
           /\ HasKernelWaiters(lockOwner', x) => HasKernelWaiters(lockOwner, x)
           /\ suspended'[x] = suspended[x]
    BY <1>0, <1>2, <2>1 DEF TypeOK, LockSlowPathWait, HasKernelWaiters, ContinueIfHasKernelWaiters, IsSuspended
  <2>4. /\ HasKernelWaiters(lockOwner', oldTag[t].owner)
        /\ suspended'[oldTag[t].owner] = IF suspendRequest[oldTag[t].owner] # {}
                                         THEN {} ELSE suspended[oldTag[t].owner]
    BY <1>0, <1>2, <2>1 DEF TypeOK, LockSlowPathWait, HasKernelWaiters, ContinueIfHasKernelWaiters, IsSuspended
  <2>5. suspendRequest' = suspendRequest
    BY <1>2 DEF LockSlowPathWait
  <2>6. \A u, w \in Thread : lockOwner[w] # u /\ lockOwner'[w] = u => u = oldTag[t].owner
    BY <1>0, <1>2 DEF TypeOK, LockSlowPathWait
  <2> HIDE DEF HasKernelWaiters
  <2>7. OnlyRequestedSuspends' /\ (SuspensionNotLost => SuspensionNotLost')
    BY <2>1, <2>2, <2>3, <2>4, <2>5 DEF OnlyRequestedSuspends, SuspensionNotLost
  <2>8. suspended'[oldTag[t].owner] = {}
    BY <2>1, <2>4 DEF OnlyRequestedSuspends
  <2>9. QED
    BY <2>3, <2>6, <2>7, <2>8 DEF Yields
<1>3. ASSUME NEW t \in Thread, UnlockSlowPathFree(t) PROVE Goal
  <2>1. UNCHANGED <<suspendRequest, lockOwner>>
    BY <1>3 DEF UnlockSlowPathFree
  <2>2. \/ suspended' = suspended
        \/ /\ suspended' = [suspended EXCEPT ![t] = suspendRequest[t]]
           /\ ~HasKernelWaiters(lockOwner, t)
    BY <1>3 DEF UnlockSlowPathFree, TrySuspend
  <2>3. QED
    BY <1>0, <2>1, <2>2
    DEF TypeOK, OnlyRequestedSuspends, SuspensionNotLost, Yields, HasKernelWaiters
<1>4. ASSUME NEW t \in Thread, NEW next \in Thread, 
             UnlockSlowPathHandOver(t, next)
      PROVE Goal
  <2> DEFINE continued == ContinueIfHasKernelWaiters(suspended, lockOwner', next)
  <2>1. lockOwner[t] = NoThread /\ lockOwner[next] = t /\ next # t
    BY ZenonT(60), <1>0, <1>4 DEF UnlockSlowPathHandOver, HandOver, PlacesAccounted, WaitersByKey
  <2>2. \A w \in Thread : lockOwner'[w] = IF w = next THEN NoThread
                                          ELSE IF w \in WaitersByKey(t, target[t]) THEN next
                                          ELSE lockOwner[w]
    BY <1>4 DEF UnlockSlowPathHandOver, HandOver
  <2>3. /\ suspendRequest' = suspendRequest
        /\ suspended' = IF suspendRequest[t] # {}
                        THEN TrySuspend(continued, lockOwner', suspendRequest, t)
                        ELSE continued
    BY ZenonT(60), <1>4 DEF UnlockSlowPathHandOver, HandOver, IsSuspended
  <2>4. /\ suspended' \in [Thread -> SUBSET SuspendType]
        /\ \A x \in Thread \ {t, next} : suspended'[x] = suspended[x]
        /\ suspended'[next] = IF suspendRequest[next] # {} /\ HasKernelWaiters(lockOwner', next)
                              THEN {} ELSE suspended[next]
        /\ suspended'[t] = IF suspendRequest[t] # {} /\ ~HasKernelWaiters(lockOwner', t)
                           THEN suspendRequest[t] ELSE suspended[t]
    BY ZenonT(60), <1>0, <2>1, <2>3 DEF TypeOK, ContinueIfHasKernelWaiters, TrySuspend, IsSuspended
  <2>5. \A x \in Thread \ {t, next} : HasKernelWaiters(lockOwner', x) <=> HasKernelWaiters(lockOwner, x)
    BY <2>1, <2>2 DEF HasKernelWaiters, WaitersByKey
  <2>6. /\ HasKernelWaiters(lockOwner, next) => HasKernelWaiters(lockOwner', next)
        /\ HasKernelWaiters(lockOwner, t)
        /\ \A u, w \in Thread : lockOwner[w] # u /\ lockOwner'[w] = u
                                => u = next /\ HasKernelWaiters(lockOwner', next)
    BY <2>1, <2>2 DEF HasKernelWaiters, WaitersByKey
  <2> HIDE DEF HasKernelWaiters
  <2>7. OnlyRequestedSuspends'
    BY <2>3, <2>4 DEF OnlyRequestedSuspends
  <2>8. SuspensionNotLost => SuspensionNotLost'
    <3> SUFFICES ASSUME SuspensionNotLost, NEW x \in Thread, ~HasKernelWaiters(lockOwner', x)
                 PROVE  suspended'[x] = suspendRequest[x]
      BY <2>3 DEF SuspensionNotLost
    <3>1. CASE x = t
      BY <2>4, <3>1 DEF OnlyRequestedSuspends
    <3>2. CASE x = next
      BY <2>4, <2>6, <3>2 DEF SuspensionNotLost
    <3>3. CASE x \notin {t, next}
      BY <2>4, <2>5, <3>3 DEF SuspensionNotLost
    <3>4. QED
      BY <3>1, <3>2, <3>3
  <2>9. ASSUME NEW u \in Thread PROVE Yields(u)
    <3>1. HasKernelWaiters(lockOwner', next) => suspended'[next] = {}
      BY <2>4 DEF OnlyRequestedSuspends
    <3>2. QED
      BY <2>4, <2>5, <2>6, <3>1 DEF Yields
  <2>10. QED
    BY <2>7, <2>8, <2>9
<1>5. ASSUME NEW t \in Thread, NEW type \in SuspendType, RequestSuspend(t, type) PROVE Goal
  BY <1>0, <1>5 DEF RequestSuspend, TypeOK, TrySuspend, OnlyRequestedSuspends, SuspensionNotLost,
                    Yields, HasKernelWaiters
<1>6. ASSUME NEW t \in Thread, NEW type \in SuspendType, Resume(t, type) PROVE Goal
  <2>1. /\ type \in suspendRequest[t] /\ lockOwner' = lockOwner
        /\ \A u \in Thread \ {t} : suspended'[u] = suspended[u]
        /\ suspended'[t] = suspendRequest[t] \ {type}
    BY <1>0, <1>6 DEF Resume, TypeOK
  <2>2. OnlyRequestedSuspends' /\ (SuspensionNotLost => SuspensionNotLost')
    BY <1>0, <1>6 DEF Resume, TypeOK, OnlyRequestedSuspends, SuspensionNotLost, HasKernelWaiters
  <2>3. ASSUME NEW u \in Thread PROVE Yields(u)
    BY <1>6, <2>1 DEF Yields
  <2>4. QED
    BY <2>2, <2>3
<1>7. QED
  <2>1. ASSUME NEW t \in Thread,
               \/ TakeFree(t) \/ MarkWaiters(t) \/ CompareExchangeFails(t)
               \/ LockSlowPathRetry(t) \/ ReloadTag(t) \/ LockSlowPathReturn(t)
        PROVE  UNCHANGED <<suspended, suspendRequest, lockOwner>>
    BY <2>1 DEF TakeFree, MarkWaiters, CompareExchangeFails, LockSlowPathRetry, ReloadTag,
                LockSlowPathReturn, threadVars
  <2>2. ASSUME NEW t \in Thread, NEW l \in Lock,
               LoadTag(t, l) \/ UnlockFast(t, l) \/ UnlockContended(t, l)
        PROVE  UNCHANGED <<suspended, suspendRequest, lockOwner>>
    BY <2>2 DEF LoadTag, UnlockFast, UnlockContended, threadVars
  <2>3. ASSUME UNCHANGED vars PROVE UNCHANGED <<suspended, suspendRequest, lockOwner>>
    BY <2>3 DEF vars
  <2> HIDE DEF Goal
  <2>4. ASSUME NEW t \in Thread, ThreadStep(t) PROVE Goal
    BY <1>1, <1>2, <1>3, <1>4, <2>1, <2>2, <2>4 DEF ThreadStep, Finish
  <2>5. ASSUME NEW t \in Thread, SuspendStep(t) PROVE Goal
    BY <1>5, <1>6, <2>5 DEF SuspendStep
  <2>6. Goal
    BY <1>1, <2>3, <2>4, <2>5 DEF Next
  <2>7. QED
    BY <2>6 DEF Goal

\* A suspension that was put off or undone for the sake of kernel waiters is in
\* force whenever the thread has none, for any set of suspend types.
THEOREM SuspensionKept == Spec => []SuspensionNotLost
<1> DEFINE Inv == OnlyRequestedSuspends /\ SuspensionNotLost
<1>1. Init => Inv
  BY DEF Init, OnlyRequestedSuspends, SuspensionNotLost
<1>2. IInv /\ Inv /\ [Next]_vars => Inv'
  BY NextSuspend
<1>3. QED
  BY <1>1, <1>2, SpecIInv, PTL DEF Spec

\* For any set of suspend types, Resume with another kind requested is the only call
\* that suspends a thread with kernel waiters, and a thread that gets a waiter runs.
THEOREM WaitedOnYields == Spec => SuspensionYields
<1> DEFINE Step == \A t \in Thread : Yields(t)
<1>1. Init => OnlyRequestedSuspends
  BY DEF Init, OnlyRequestedSuspends
<1>2. IInv /\ OnlyRequestedSuspends /\ [Next]_vars => OnlyRequestedSuspends' /\ Step
  BY NextSuspend
<1> HIDE DEF Step
<1>3. Spec => [][Step]_vars
  BY <1>1, <1>2, SpecIInv, PTL DEF Spec
<1>4. QED
  BY <1>3 DEF Step, SuspensionYields

\* How a step can change who owns a lock.
LEMMA OwnerStep ==
  ASSUME IInv, [Next]_vars, NEW l \in Lock, tag'[l].owner # tag[l].owner
  PROVE  \/ tag[l] = Free
         \/ Sleepers(l) = {}
         \/ tag'[l].owner \in Sleepers(l)
<1> USE ThreadAssumption
<1>0. TypeOK /\ PlacesAccounted /\ OwnerAccounted /\ SleepersWaitOnOwner
  BY DEF IInv
<1>1. ASSUME NEW t \in Thread, TakeFree(t) PROVE tag[l] = Free
  <2>1. target[t] \in Lock
    BY <1>0, <1>1 DEF TakeFree, PlacesAccounted, InLock
  <2>2. target[t] = l
    BY <1>0, <1>1, <2>1 DEF TakeFree, TypeOK
  <2>3. QED
    BY <1>1, <2>2 DEF TakeFree
<1>2. ASSUME NEW t \in Thread, MarkWaiters(t) PROVE FALSE
  <2>1. target[t] \in Lock
    BY <1>0, <1>2 DEF MarkWaiters, PlacesAccounted, InLock
  <2>2. QED
    BY <1>0, <1>2, <2>1 DEF MarkWaiters, TypeOK, Tag, WithWaiters
<1>3. ASSUME NEW t \in Thread, NEW k \in Lock, UnlockFast(t, k) PROVE Sleepers(l) = {}
  <2>1. k = l
    BY <1>0, <1>3 DEF UnlockFast, TypeOK
  <2>2. ~tag[l].waiters
    BY <1>3, <2>1 DEF UnlockFast
  <2>3. QED
    BY <1>0, <2>2 DEF SleepersWaitOnOwner, Sleepers
<1>4. ASSUME NEW t \in Thread, UnlockSlowPathFree(t) PROVE Sleepers(l) = {}
  <2>1. target[t] \in Lock /\ tag[target[t]].owner = t
    BY <1>0, <1>4 DEF UnlockSlowPathFree, PlacesAccounted, OwnerAccounted
  <2>2. target[t] = l
    BY <1>0, <1>4, <2>1 DEF UnlockSlowPathFree, TypeOK
  <2>3. WaitersByKey(t, l) = {}
    BY <1>4, <2>2 DEF UnlockSlowPathFree
  <2>4. QED
    BY <1>0, <2>1, <2>2, <2>3 DEF SleepersWaitOnOwner, Sleepers, WaitersByKey
<1>5. ASSUME NEW t \in Thread, NEW next \in Thread, UnlockSlowPathHandOver(t, next)
      PROVE  tag'[l].owner \in Sleepers(l)
  <2>1. /\ target[t] \in Lock
        /\ target[next] = target[t]
        /\ threadState[next] = "Waiting"
    BY ZenonT(60), <1>0, <1>5 DEF UnlockSlowPathHandOver, HandOver, PlacesAccounted, WaitersByKey
  <2>2. target[t] = l /\ tag'[l].owner = next
    BY <1>0, <1>5, <2>1 DEF UnlockSlowPathHandOver, HandOver, TypeOK
  <2>3. QED
    BY <2>1, <2>2 DEF Sleepers
<1>6. CASE UNCHANGED tag
  BY <1>6
<1>7. QED
  <2>1. ASSUME NEW t \in Thread,
               \/ CompareExchangeFails(t) \/ LockSlowPathRetry(t) \/ ReloadTag(t)
               \/ LockSlowPathWait(t) \/ LockSlowPathReturn(t)
        PROVE  UNCHANGED tag
    BY <2>1 DEF CompareExchangeFails, LockSlowPathRetry, ReloadTag, LockSlowPathWait,
                LockSlowPathReturn
  <2>2. ASSUME NEW t \in Thread, NEW k \in Lock, LoadTag(t, k) \/ UnlockContended(t, k)
        PROVE  UNCHANGED tag
    BY <2>2 DEF LoadTag, UnlockContended
  <2>3. ASSUME NEW t \in Thread, SuspendStep(t) PROVE UNCHANGED tag
    BY <2>3 DEF SuspendStep, RequestSuspend, Resume, lockVars
  <2>4. UNCHANGED vars => UNCHANGED tag
    BY DEF vars
  <2>5. ASSUME NEW t \in Thread, ThreadStep(t)
        PROVE  UNCHANGED tag \/ tag[l] = Free \/ Sleepers(l) = {} \/ tag'[l].owner \in Sleepers(l)
    BY <1>1, <1>2, <1>3, <1>4, <1>5, <2>1, <2>2, <2>5 DEF ThreadStep, Finish
  <2>6. QED
    BY <1>6, <2>3, <2>4, <2>5 DEF Next

\* While threads sleep on a lock, UnlockSlowPath hands it to one of them and no
\* compare-exchange of another thread gets in between.
THEOREM DirectHandOver == Spec => NoBarging
<1> DEFINE Step == \A l \in Lock : (Sleepers(l) # {} /\ tag'[l].owner # tag[l].owner)
                                      => tag'[l].owner \in Sleepers(l)
<1>1. ASSUME IInv, [Next]_vars PROVE Step
  <2> SUFFICES ASSUME NEW l \in Lock, Sleepers(l) # {}, tag'[l].owner # tag[l].owner
               PROVE  tag'[l].owner \in Sleepers(l)
    OBVIOUS
  <2>1. tag[l] # Free
    <3>1. tag[l] = Free => ~tag[l].waiters
      BY DEF Free
    <3>2. QED
      BY <1>1, <3>1 DEF IInv, SleepersWaitOnOwner, Sleepers
  <2>2. QED
    BY <1>1, <2>1, OwnerStep
<1>2. IInv /\ [Next]_vars => [Step]_vars
  BY <1>1
<1>3. QED
  BY <1>2, SpecIInv, PTL DEF Spec, NoBarging

\* Every behaviour of the fast and slow paths is, seen by the callers of the
\* lock, a behaviour of Mutex: ask, acquire, release, direct hand-over.
THEOREM Refinement == Spec => ImplementsMutex
<1> DEFINE H == [l \in Lock |-> tag[l].owner]
           A == [t \in Thread |-> IF pc[t] \in InLock THEN target[t] ELSE NoLock]
<1> USE ThreadAssumption
<1>1. Init => M!MutexInit
  BY DEF Init, M!MutexInit, InLock, Free
<1>2. ASSUME IInv, [Next]_vars PROVE [M!MutexNext]_(M!mutexVars)
  <2>0. TypeOK /\ PlacesAccounted /\ OwnerAccounted
    BY <1>2 DEF IInv
  <2>00. \A l \in Lock : l # NoLock
    BY LockAssumption DEF Lock, NoLock
  <2> SUFFICES (H' = H /\ A' = A) \/ M!MutexNext
    BY DEF M!mutexVars
  <2>1. ASSUME NEW t \in Thread, NEW l \in Lock, LoadTag(t, l) PROVE M!Ask(t, l)
    BY ZenonT(60), <2>0, <2>1 DEF LoadTag, M!Ask, TypeOK, InLock
  <2>2. ASSUME NEW t \in Thread, TakeFree(t) PROVE \E l \in Lock : M!Acquire(t, l)
    <3>1. target[t] \in Lock
      BY <2>0, <2>2 DEF TakeFree, PlacesAccounted, InLock
    <3>2. tag[target[t]].owner = NoThread
      BY <2>2 DEF TakeFree, Free
    <3>3. H' = [H EXCEPT ![target[t]] = t]
      BY ZenonT(60), <2>0, <2>2, <3>1 DEF TakeFree, TypeOK
    <3>4. A[t] = target[t] /\ A' = [A EXCEPT ![t] = NoLock]
      BY ZenonT(60), <2>0, <2>2 DEF TakeFree, TypeOK, InLock
    <3>5. QED
      <4>1. PICK l \in Lock : l = target[t]
        BY <3>1
      <4>2. M!Acquire(t, l)
        BY <3>2, <3>3, <3>4, <4>1 DEF M!Acquire
      <4>3. QED
        BY <4>2
  <2>3. ASSUME NEW t \in Thread, MarkWaiters(t) PROVE H' = H /\ A' = A
    <3>1. target[t] \in Lock
      BY <2>0, <2>3 DEF MarkWaiters, PlacesAccounted, InLock
    <3>2. \A l \in Lock : tag'[l].owner = tag[l].owner
      BY <2>0, <2>3, <3>1 DEF MarkWaiters, TypeOK, Tag, WithWaiters
    <3>3. QED
      BY <2>0, <2>3, <3>2 DEF MarkWaiters, TypeOK, InLock
  <2>4. ASSUME NEW t \in Thread, LockSlowPathReturn(t)
        PROVE  \E l \in Lock : M!Return(t, l)
    <3>1. target[t] \in Lock /\ tag[target[t]].owner = t
      BY <2>0, <2>4 DEF Running, LockSlowPathReturn, PlacesAccounted, OwnerAccounted, InLock
    <3>2. QED
      <4>1. PICK l \in Lock : l = target[t]
        BY <3>1
      <4>2. M!Return(t, l)
        BY ZenonT(60), <2>0, <2>4, <3>1, <4>1 DEF LockSlowPathReturn, M!Return, TypeOK, InLock
      <4>3. QED
        BY <4>2
  <2>5. ASSUME NEW t \in Thread, NEW l \in Lock, UnlockFast(t, l) PROVE M!Release(t, l)
    <3>1. tag[l].owner = t
      BY <2>5 DEF UnlockFast
    <3>2. H' = [H EXCEPT ![l] = NoThread]
      BY ZenonT(60), <2>0, <2>5 DEF UnlockFast, TypeOK, Free
    <3>3. QED
      <4>1. A' = A
        BY <2>5 DEF UnlockFast
      <4> QED BY ZenonT(60), <3>1, <3>2, <4>1 DEF M!Release
  <2>6. ASSUME NEW t \in Thread, UnlockSlowPathFree(t)
        PROVE  \E l \in Lock : M!Release(t, l)
    <3>1. target[t] \in Lock /\ tag[target[t]].owner = t
      BY <2>0, <2>6 DEF UnlockSlowPathFree, PlacesAccounted, OwnerAccounted
    <3>2. H' = [H EXCEPT ![target[t]] = NoThread]
      BY ZenonT(60), <2>0, <2>6, <3>1 DEF UnlockSlowPathFree, TypeOK, Free
    <3>3. A' = A
      BY <2>0, <2>6 DEF UnlockSlowPathFree, TypeOK, InLock
    <3>4. QED
      <4>1. PICK l \in Lock : l = target[t]
        BY <3>1
      <4>2. M!Release(t, l)
        BY <3>1, <3>2, <3>3, <4>1 DEF M!Release
      <4>3. QED
        BY <4>2
  <2>7. ASSUME NEW t \in Thread, NEW next \in Thread, UnlockSlowPathHandOver(t, next)
        PROVE  next \in Thread \ {t} /\ \E l \in Lock : M!HandOver(t, next, l)
    <3>1. /\ target[t] \in Lock
          /\ tag[target[t]].owner = t
          /\ target[next] = target[t]
          /\ pc[next] = "waiting"
          /\ pc[t] = "unlockSlowPath"
      <4>1. pc[t] = "unlockSlowPath" /\ lockOwner[next] = t /\ target[next] = target[t]
        BY ZenonT(60), <2>7 DEF UnlockSlowPathHandOver, HandOver, WaitersByKey
      <4>2. target[t] \in Lock /\ pc[next] = "waiting"
        BY <2>0, <4>1 DEF PlacesAccounted
      <4>3. QED
        BY <2>0, <4>1, <4>2 DEF OwnerAccounted
    <3>2. H' = [H EXCEPT ![target[t]] = next]
      BY ZenonT(60), <2>0, <2>7, <3>1 DEF UnlockSlowPathHandOver, HandOver, TypeOK
    <3>3. A' = A /\ A[next] = target[t]
      BY <2>0, <2>7, <3>1 DEF UnlockSlowPathHandOver, HandOver, TypeOK, InLock
    <3>4. QED
      <4>1. PICK l \in Lock : l = target[t]
        BY <3>1
      <4>2. M!HandOver(t, next, l)
        BY <3>1, <3>2, <3>3, <4>1 DEF M!HandOver
      <4>3. QED
        BY <3>1, <4>2
  <2>8. ASSUME NEW t \in Thread,
               \/ CompareExchangeFails(t) \/ LockSlowPathRetry(t) \/ ReloadTag(t)
               \/ LockSlowPathWait(t) \/ \E l \in Lock : UnlockContended(t, l)
        PROVE  H' = H /\ A' = A
    <3>1. H' = H
      BY ZenonT(60), <2>8 DEF CompareExchangeFails, LockSlowPathRetry, ReloadTag, LockSlowPathWait,
                  UnlockContended
    <3>2. A' = A
      BY <2>0, <2>8 DEF CompareExchangeFails, LockSlowPathRetry, ReloadTag, LockSlowPathWait,
                  UnlockContended, TypeOK, InLock
    <3>3. QED
      BY <3>1, <3>2
  <2>9. CASE UNCHANGED <<tag, pc, target>>
    BY <2>9
  <2>10. ASSUME NEW t \in Thread, ThreadStep(t) PROVE (H' = H /\ A' = A) \/ M!MutexNext
    <3> HIDE DEF H, A
    <3>1. ASSUME NEW l \in Lock, LoadTag(t, l) PROVE M!MutexNext
      BY <2>1, <3>1 DEF M!MutexNext
    <3>2. ASSUME NEW l \in Lock, UnlockFast(t, l) PROVE M!MutexNext
      BY <2>5, <3>2 DEF M!MutexNext
    <3>3. CASE TakeFree(t)
      BY <2>2, <3>3 DEF M!MutexNext
    <3>4. CASE LockSlowPathReturn(t)
      BY <2>4, <3>4 DEF M!MutexNext
    <3>5. CASE UnlockSlowPathFree(t)
      BY <2>6, <3>5 DEF M!MutexNext
    <3>6. ASSUME NEW next \in Thread, UnlockSlowPathHandOver(t, next) PROVE M!MutexNext
      BY <2>7, <3>6 DEF M!MutexNext
    <3>7. QED
      BY <2>3, <2>8, <2>10, <3>1, <3>2, <3>3, <3>4, <3>5, <3>6 DEF ThreadStep, Finish
  <2>11. ASSUME NEW t \in Thread, SuspendStep(t) PROVE UNCHANGED <<tag, pc, target>>
    BY <2>11 DEF SuspendStep, RequestSuspend, Resume, lockVars
  <2>12. QED
    BY <1>2, <2>9, <2>10, <2>11 DEF Next, vars
<1>3. IInv /\ [Next]_vars => [M!MutexNext]_(M!mutexVars)
  BY <1>2
<1>4. QED
  BY <1>1, <1>3, SpecIInv, PTL DEF Spec, ImplementsMutex, M!MutexSpec

=============================================================================
