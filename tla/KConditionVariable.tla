------------------------- MODULE KConditionVariable -------------------------
(***************************************************************************)
(* The mutexes and condition variables of user programs: the lock word and *)
(* the waiter flag in user memory, the four system calls of                *)
(* KConditionVariable, and the user code around them                       *)
(* (InternalCriticalSectionImpl over the mutex of libnx, and               *)
(* InternalConditionVariableImpl).                                         *)
(*                                                                         *)
(* A system call runs under the scheduler lock, but user threads on other  *)
(* cores read and write the words meanwhile: a call that touches user      *)
(* memory more than once is several actions, with schedLock held between   *)
(* them.  Condition variable l is the one used with lock l.  Priorities    *)
(* are left out: where the kernel takes the waiter with the best priority, *)
(* the model takes any.                                                    *)
(***************************************************************************)
EXTENDS Integers, FiniteSets

CONSTANTS
    Thread,         \* also the threads' handles
    Lock,           \* lock words, numbered in the order in which programs nest them
    NoThread,       \* InvalidHandle, and the null lock owner
    MaxTerminated   \* bound: how many threads are asked to terminate

ASSUME ThreadAssumption == NoThread \notin Thread /\ IsFiniteSet(Thread)
ASSUME LockAssumption == Lock \subseteq Nat \ {0}

NoLock == 0

VARIABLES
    pc,             \* where the thread is, in user code or in a system call
    key,            \* the lock it is there for: GetAddressKey, GetConditionVariableKey
    seen,           \* the handle svcArbitrateLock is called with
    inside,         \* inside[l]: the threads in the critical section of l
    owner,          \* the lock word: the handle ...
    waitMask,       \* ... and HandleWaitMask
    hasWaiter,      \* the word at the condition variable's key
    lockOwner,      \* m_lock_owner of a thread; its inverse is m_waiter_list
    tree,           \* m_tree
    schedLock,      \* the thread that holds the scheduler lock between two actions
    count,          \* Signal: how many more to wake, all if negative
    terminating     \* IsTerminationRequested

userVars == <<inside, owner, waitMask, hasWaiter>>
kernelVars == <<lockOwner, tree, schedLock, count, terminating>>
vars == <<pc, key, seen, inside, owner, waitMask, hasWaiter, lockOwner, tree, schedLock, count,
          terminating>>

Init ==
    /\ pc = [t \in Thread |-> "user"]
    /\ key = [t \in Thread |-> NoLock]
    /\ seen = [t \in Thread |-> NoThread]
    /\ inside = [l \in Lock |-> {}]
    /\ owner = [l \in Lock |-> NoThread]
    /\ waitMask = [l \in Lock |-> FALSE]
    /\ hasWaiter = [l \in Lock |-> FALSE]
    /\ lockOwner = [t \in Thread |-> NoThread]
    /\ tree = {}
    /\ schedLock = NoThread
    /\ count = 0
    /\ terminating = {}

At(t, where) == pc[t] = where
Go(t, where) == pc' = [pc EXCEPT ![t] = where]
Done(t) == key' = [key EXCEPT ![t] = NoLock]

-----------------------------------------------------------------------------
(* The mutex of libnx.                                                     *)

\* mutexLock is called; programs nest locks in one order.
EnterBegin(t, l) ==
    /\ At(t, "user")
    /\ \A k \in Lock : t \in inside[k] => k < l
    /\ Go(t, "lock")
    /\ key' = [key EXCEPT ![t] = l]
    /\ UNCHANGED <<seen, userVars, kernelVars>>

\* The exclusive store takes a free lock ...
EnterFree(t) ==
    /\ At(t, "lock")
    /\ owner[key[t]] = NoThread
    /\ owner' = [owner EXCEPT ![key[t]] = t]
    /\ inside' = [inside EXCEPT ![key[t]] = @ \cup {t}]
    /\ Go(t, "user")
    /\ Done(t)
    /\ UNCHANGED <<seen, waitMask, hasWaiter, kernelVars>>

\* ... or marks one that is held, and the kernel is called.
EnterHeld(t) ==
    /\ At(t, "lock")
    /\ owner[key[t]] # NoThread
    /\ waitMask' = [waitMask EXCEPT ![key[t]] = TRUE]
    /\ seen' = [seen EXCEPT ![t] = owner[key[t]]]
    /\ Go(t, "arbitrate")
    /\ UNCHANGED <<key, inside, owner, hasWaiter, kernelVars>>

\* Back from svcArbitrateLock: the lock is ours if the word says so.
EnterReturn(t) ==
    /\ At(t, "lockReturn")
    /\ IF owner[key[t]] = t
       THEN inside' = [inside EXCEPT ![key[t]] = @ \cup {t}] /\ Go(t, "user") /\ Done(t)
       ELSE Go(t, "lock") /\ UNCHANGED <<inside, key>>
    /\ UNCHANGED <<seen, owner, waitMask, hasWaiter, kernelVars>>

\* mutexUnlock: the kernel is called only if the word has the mark.
LeaveLock(t, l) ==
    /\ At(t, "user")
    /\ t \in inside[l]
    /\ inside' = [inside EXCEPT ![l] = @ \ {t}]
    /\ IF waitMask[l]
       THEN Go(t, "unlock") /\ key' = [key EXCEPT ![t] = l] /\ UNCHANGED owner
       ELSE owner' = [owner EXCEPT ![l] = NoThread] /\ UNCHANGED <<pc, key>>
    /\ UNCHANGED <<seen, waitMask, hasWaiter, kernelVars>>

-----------------------------------------------------------------------------
(* KThread's list of waiters.                                              *)

Waiters(t, l) == {u \in Thread : lockOwner[u] = t /\ key[u] = l}

\* EndWait: where the thread goes on, with the lock.
Resumed(u) == IF At(u, "lockWait") THEN "lockReturn" ELSE "cvReturn"

\* Mutant: the mark is dropped when one waiter is left.
HandOverUnmarked(t, l, n, where) ==
    /\ owner' = [owner EXCEPT ![l] = n]
    /\ waitMask' = [waitMask EXCEPT ![l] = Cardinality(Waiters(t, l)) > 2]
    /\ lockOwner' = [u \in Thread |-> IF u = n THEN NoThread
                                      ELSE IF u \in Waiters(t, l) THEN n ELSE lockOwner[u]]
    /\ pc' = [pc EXCEPT ![t] = where, ![n] = Resumed(n)]

\* RemoveWaiterByKey with a next owner n: it inherits the other waiters for the
\* key, its tag goes to the word, and its wait ends.
HandOver(t, l, n, where) ==
    /\ owner' = [owner EXCEPT ![l] = n]
    /\ waitMask' = [waitMask EXCEPT ![l] = Cardinality(Waiters(t, l)) > 1]
    /\ lockOwner' = [u \in Thread |-> IF u = n THEN NoThread
                                      ELSE IF u \in Waiters(t, l) THEN n ELSE lockOwner[u]]
    /\ pc' = [pc EXCEPT ![t] = where, ![n] = Resumed(n)]

\* RemoveWaiterByKey without one: the word is cleared.
Free(t, l, where) ==
    /\ Waiters(t, l) = {}
    /\ owner' = [owner EXCEPT ![l] = NoThread]
    /\ waitMask' = [waitMask EXCEPT ![l] = FALSE]
    /\ UNCHANGED lockOwner
    /\ Go(t, where)

\* t gives up l, to a waiter if there is one, and goes to where.
PassOn(t, l, where) == Free(t, l, where) \/ \E n \in Waiters(t, l) : HandOver(t, l, n, where)

-----------------------------------------------------------------------------
(* ArbitrateLock and ArbitrateUnlock.                                      *)

\* Mutant: the tag is not read again under the scheduler lock.
WaitForAddressUnchecked(t) ==
    /\ At(t, "arbitrate")
    /\ schedLock = NoThread
    /\ t \notin terminating
    /\ lockOwner' = [lockOwner EXCEPT ![t] = seen[t]]
    /\ Go(t, "lockWait")
    /\ seen' = [seen EXCEPT ![t] = NoThread]
    /\ UNCHANGED <<key, userVars, tree, schedLock, count, terminating>>

\* WaitForAddress: succeeds at once if the word is not the marked handle any more.
WaitForAddress(t) ==
    /\ At(t, "arbitrate")
    /\ schedLock = NoThread
    /\ t \notin terminating
    /\ IF owner[key[t]] = seen[t] /\ waitMask[key[t]]
       THEN lockOwner' = [lockOwner EXCEPT ![t] = seen[t]] /\ Go(t, "lockWait")
       ELSE UNCHANGED lockOwner /\ Go(t, "lockReturn")
    /\ seen' = [seen EXCEPT ![t] = NoThread]
    /\ UNCHANGED <<key, userVars, tree, schedLock, count, terminating>>

SignalToAddress(t) ==
    /\ At(t, "unlock")
    /\ schedLock = NoThread
    /\ PassOn(t, key[t], "user")
    /\ Done(t)
    /\ UNCHANGED <<seen, inside, hasWaiter, tree, schedLock, count, terminating>>

-----------------------------------------------------------------------------
(* WaitProcessWideKeyAtomic and SignalProcessWideKey.                      *)

\* An assumption on programs, which the code does not check: they wait with the lock they
\* entered last.
Innermost(t, l) == \A k \in Lock : t \in inside[k] => k <= l

\* Mutant: the lock word is cleared first, the flag is set last.
WaitBeginUnlocked(t, l) ==
    /\ At(t, "user")
    /\ t \in inside[l]
    /\ Innermost(t, l)
    /\ schedLock = NoThread
    /\ t \notin terminating
    /\ key' = [key EXCEPT ![t] = l]
    /\ schedLock' = t
    /\ owner' = IF Waiters(t, l) = {} THEN [owner EXCEPT ![l] = NoThread] ELSE owner
    /\ waitMask' = IF Waiters(t, l) = {} THEN [waitMask EXCEPT ![l] = FALSE] ELSE waitMask
    /\ Go(t, "cvRelease")
    /\ UNCHANGED <<seen, inside, hasWaiter, lockOwner, tree, count, terminating>>

\* Wait, up to the write of the flag.
WaitBegin(t, l) ==
    /\ At(t, "user")
    /\ t \in inside[l]
    /\ Innermost(t, l)
    /\ schedLock = NoThread
    /\ t \notin terminating
    /\ key' = [key EXCEPT ![t] = l]
    /\ schedLock' = t
    /\ hasWaiter' = [hasWaiter EXCEPT ![l] = TRUE]
    /\ Go(t, "cvRelease")
    /\ UNCHANGED <<seen, inside, owner, waitMask, lockOwner, tree, count, terminating>>

\* The lock is passed on and the thread sleeps in the tree ...
WaitSleep(t) ==
    /\ At(t, "cvRelease")
    /\ PassOn(t, key[t], "cvWait")
    /\ inside' = [inside EXCEPT ![key[t]] = @ \ {t}]
    /\ tree' = tree \cup {t}
    /\ schedLock' = NoThread
    /\ UNCHANGED <<key, seen, hasWaiter, count, terminating>>

\* ... unless its timeout is zero; it then takes the lock again.
WaitPoll(t) ==
    /\ At(t, "cvRelease")
    /\ PassOn(t, key[t], "lock")
    /\ inside' = [inside EXCEPT ![key[t]] = @ \ {t}]
    /\ schedLock' = NoThread
    /\ UNCHANGED <<key, seen, hasWaiter, tree, count, terminating>>

\* Back from Wait, with the lock.
WaitReturn(t) ==
    /\ At(t, "cvReturn")
    /\ inside' = [inside EXCEPT ![key[t]] = @ \cup {t}]
    /\ Go(t, "user")
    /\ Done(t)
    /\ UNCHANGED <<seen, owner, waitMask, hasWaiter, kernelVars>>

\* Signal of n threads, all if n is negative, with or without the lock.
SignalBegin(t, l, n) ==
    /\ At(t, "user")
    /\ schedLock = NoThread
    /\ schedLock' = t
    /\ key' = [key EXCEPT ![t] = l]
    /\ count' = n
    /\ Go(t, "signal")
    /\ UNCHANGED <<seen, userVars, lockOwner, tree, terminating>>

\* SignalImpl: the thread gets a free lock, or waits for the owner of a held one.
SignalImpl(u, l) ==
    IF owner[l] = NoThread
    THEN /\ owner' = [owner EXCEPT ![l] = u]
         /\ Go(u, "cvReturn")
         /\ UNCHANGED <<waitMask, lockOwner>>
    ELSE /\ waitMask' = [waitMask EXCEPT ![l] = TRUE]
         /\ lockOwner' = [lockOwner EXCEPT ![u] = owner[l]]
         /\ Go(u, "cvLockWait")
         /\ UNCHANGED owner

Sleepers(l) == {u \in tree : key[u] = l}

\* One more thread is signaled.
CountDown == count' = IF count > 0 THEN count - 1 ELSE count

\* One turn of the loop in Signal.
SignalNext(t) ==
    /\ At(t, "signal")
    /\ count # 0
    /\ \E u \in Sleepers(key[t]) : SignalImpl(u, key[t]) /\ tree' = tree \ {u}
    /\ CountDown
    /\ UNCHANGED <<key, seen, inside, hasWaiter, schedLock, terminating>>

\* The flag is cleared if no one is left.
SignalEnd(t) ==
    /\ At(t, "signal")
    /\ count = 0 \/ Sleepers(key[t]) = {}
    /\ hasWaiter' = IF Sleepers(key[t]) = {} THEN [hasWaiter EXCEPT ![key[t]] = FALSE] ELSE hasWaiter
    /\ count' = 0
    /\ schedLock' = NoThread
    /\ Go(t, "user")
    /\ Done(t)
    /\ UNCHANGED <<seen, inside, owner, waitMask, lockOwner, tree, terminating>>

-----------------------------------------------------------------------------
(* Time-outs and termination.                                              *)

\* Mutant: the thread stays in the tree.
CancelWaitInTree(t, where) ==
    /\ lockOwner' = [lockOwner EXCEPT ![t] = NoThread]
    /\ UNCHANGED tree
    /\ Go(t, where)

\* CancelWait of both queues: out of the owner's list and out of the tree.
CancelWait(t, where) ==
    /\ lockOwner' = [lockOwner EXCEPT ![t] = NoThread]
    /\ tree' = tree \ {t}
    /\ Go(t, where)

\* The timer ends a Wait, before or after the signal; TimedWait enters the lock.
TimeOut(t) ==
    /\ pc[t] \in {"cvWait", "cvLockWait"}
    /\ schedLock = NoThread
    /\ CancelWait(t, "lock")
    /\ UNCHANGED <<key, seen, userVars, schedLock, count, terminating>>

\* RequestTerminate ends every wait, and the thread does not get back to user code.
RequestTerminate(t) ==
    /\ t \notin terminating
    /\ pc[t] # "dead"
    /\ Cardinality(terminating) < MaxTerminated
    /\ schedLock = NoThread
    /\ terminating' = terminating \cup {t}
    /\ IF pc[t] \in {"lockWait", "cvWait", "cvLockWait"}
       THEN CancelWait(t, "dead")
       ELSE UNCHANGED <<pc, lockOwner, tree>>
    /\ UNCHANGED <<key, seen, userVars, schedLock, count>>

\* A terminating thread exits the next time it leaves the kernel.
Exit(t) ==
    /\ t \in terminating
    /\ pc[t] \in {"user", "lock", "arbitrate", "lockReturn", "unlock", "cvReturn"}
    /\ Go(t, "dead")
    /\ UNCHANGED <<key, seen, userVars, kernelVars>>

-----------------------------------------------------------------------------
Next ==
    \E t \in Thread :
        \/ \E l \in Lock : EnterBegin(t, l) \/ LeaveLock(t, l) \/ WaitBegin(t, l)
        \/ EnterFree(t) \/ EnterHeld(t) \/ EnterReturn(t)
        \/ WaitForAddress(t) \/ SignalToAddress(t)
        \/ WaitSleep(t) \/ WaitPoll(t) \/ WaitReturn(t)
        \/ \E l \in Lock, n \in {1, -1} : SignalBegin(t, l, n)
        \/ SignalNext(t) \/ SignalEnd(t)
        \/ TimeOut(t) \/ RequestTerminate(t) \/ Exit(t)

Spec == Init /\ [][Next]_vars

\* Programs leave their critical sections and wait with a timeout, running threads
\* run, and the scheduler lock is a ticket lock: a thread that goes on asking for it
\* gets it.
Fairness ==
    \A t \in Thread :
        /\ WF_vars(EnterFree(t) \/ EnterHeld(t)) /\ WF_vars(EnterReturn(t)) /\ WF_vars(WaitReturn(t))
        /\ WF_vars(WaitSleep(t)) /\ WF_vars(SignalNext(t)) /\ WF_vars(SignalEnd(t))
        /\ SF_vars(WaitForAddress(t)) /\ SF_vars(SignalToAddress(t))
        /\ SF_vars(TimeOut(t))
        /\ \A l \in Lock : SF_vars(LeaveLock(t, l))

FairSpec == Spec /\ Fairness

-----------------------------------------------------------------------------
(* Properties.                                                             *)

Places == {"user", "lock", "arbitrate", "lockWait", "lockReturn", "unlock", "cvRelease", "cvWait",
           "cvLockWait", "cvReturn", "signal", "dead"}

\* Every variable keeps its type.
TypeOK ==
    /\ pc \in [Thread -> Places]
    /\ key \in [Thread -> Lock \cup {NoLock}]
    /\ seen \in [Thread -> Thread \cup {NoThread}]
    /\ inside \in [Lock -> SUBSET Thread]
    /\ owner \in [Lock -> Thread \cup {NoThread}]
    /\ waitMask \in [Lock -> BOOLEAN]
    /\ hasWaiter \in [Lock -> BOOLEAN]
    /\ lockOwner \in [Thread -> Thread \cup {NoThread}]
    /\ tree \subseteq Thread
    /\ schedLock \in Thread \cup {NoThread}
    /\ count \in {-1, 0, 1}
    /\ terminating \subseteq Thread

\* A lock has one thread inside, however it came by it: by the exclusive store, by
\* a hand-over of SignalToAddress or Wait, or by a signal that found it free.
MutualExclusion == \A l \in Lock : \A t, u \in inside[l] : t = u

\* No lock waiter is stranded: while a thread sleeps for a lock, the lock word names
\* the thread in whose waiter list it is, and has the mark that makes that thread
\* call the kernel when it unlocks.
WaitersLinked ==
    \A t \in Thread :
        pc[t] \in {"lockWait", "cvLockWait"} =>
            /\ lockOwner[t] # NoThread
            /\ owner[key[t]] = lockOwner[t]
            /\ waitMask[key[t]]

\* A thread that has given up the lock in Wait and was not signaled is announced by
\* the flag, so a program that skips Signal when the flag is clear wakes it still.
WaiterAnnounced ==
    \A t \in Thread :
        \/ At(t, "cvWait")
        \/ At(t, "cvRelease") /\ owner[key[t]] # t
        => hasWaiter[key[t]]

\* The threads of Monitor: who is inside and who waits.
AnyOf(S) == IF S = {} THEN NoThread ELSE CHOOSE t \in S : TRUE

M == INSTANCE Monitor WITH
        holder <- [l \in Lock |-> AnyOf(inside[l])],
        waiting <- [l \in Lock |-> Sleepers(l)]

\* The word, the lists, the tree and the user code together are a monitor.
ImplementsMonitor == M!MonitorSpec

\* A thread that sleeps for a lock is woken, if programs leave their critical sections.
LockGranted == \A t \in Thread : pc[t] \in {"lockWait", "cvLockWait"} ~> pc[t] \notin {"lockWait", "cvLockWait"}

-----------------------------------------------------------------------------
(* The inductive invariant of the proofs.                                  *)

\* The scheduler lock, the lists and the tree follow from where the threads are.
Located ==
    /\ \A t \in Thread : pc[t] \notin {"user", "dead"} => key[t] \in Lock
    /\ \A t \in Thread : lockOwner[t] # NoThread <=> pc[t] \in {"lockWait", "cvLockWait"}
    /\ tree = {t \in Thread : pc[t] = "cvWait"}
    /\ \A t \in Thread : pc[t] \in {"cvRelease", "signal"} <=> schedLock = t
    /\ \A t \in Thread : pc[t] = "arbitrate" => seen[t] # NoThread

\* The lock word names the thread that is inside, on its way out or on its way in.
Owned ==
    /\ \A l \in Lock : \A t \in inside[l] : owner[l] = t
    /\ \A t \in Thread : pc[t] \in {"unlock", "cvReturn", "cvRelease"} => owner[key[t]] = t
    /\ \A t \in Thread : pc[t] = "cvRelease" => t \in inside[key[t]]
    /\ \A t \in Thread :
          pc[t] \in {"lock", "arbitrate", "lockWait", "lockReturn", "unlock", "cvWait", "cvLockWait", "cvReturn"}
          => t \notin inside[key[t]]

\* The flag is set from before the lock is released until the last signal.
Flagged == \A t \in Thread : pc[t] \in {"cvRelease", "cvWait"} => hasWaiter[key[t]]

IInv == TypeOK /\ Located /\ Owned /\ Flagged /\ WaitersLinked

=============================================================================
