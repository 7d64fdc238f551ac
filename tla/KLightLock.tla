----------------------------- MODULE KLightLock -----------------------------
(***************************************************************************)
(* KLightLock, the kernel's sleeping lock, with the part of KThread it is  *)
(* built on: the waiters of a thread and the suspension of a thread.       *)
(*                                                                         *)
(* A lock is one word, m_tag: the owner's pointer, its low bit set when    *)
(* threads may be waiting.  The fast paths are single compare-exchanges    *)
(* that hold no other lock.  The slow paths run under the scheduler lock   *)
(* and touch m_tag exactly once, so each is one action, at that access.    *)
(*                                                                         *)
(* The waiters of a lock are a set here: which waiter RemoveWaiterByKey    *)
(* picks (the first in priority order) is left open, so what is shown      *)
(* below holds whatever the priorities do.                                 *)
(***************************************************************************)
EXTENDS Naturals, FiniteSets

CONSTANTS
    Thread,         \* the threads that run kernel code
    NoThread,       \* nullptr
    NumLocks,       \* the locks are 1..NumLocks and are taken in that order
    SuspendType     \* Process, Thread, Debug, Backtrace, Init

ASSUME ThreadAssumption == NoThread \notin Thread
ASSUME LockAssumption == NumLocks \in Nat \ {0}

Lock == 1..NumLocks
NoLock == 0

Tag == [owner : Thread \cup {NoThread}, waiters : BOOLEAN]
Free == [owner |-> NoThread, waiters |-> FALSE]
WithWaiters(tg) == [owner |-> tg.owner, waiters |-> TRUE]   \* old_tag | 1

VARIABLES
    tag,            \* tag[l]: m_tag of lock l
    pc,             \* where a thread is in Lock() and Unlock()
    target,         \* the lock that a thread's Lock() or Unlock() is about
    oldTag,         \* the local old_tag of Lock()
    held,           \* held[t]: the locks t has taken and not begun to release
    threadState,    \* m_thread_state without the suspend flags
    suspended,      \* the suspend flags of m_thread_state
    suspendRequest, \* m_suspend_request_flags
    lockOwner       \* m_lock_owner: whose waiter a thread is, or NoThread

lockVars    == <<tag, pc, target, oldTag, held>>
threadVars  == <<threadState, suspended, suspendRequest, lockOwner>>
vars        == <<tag, pc, target, oldTag, held,
                 threadState, suspended, suspendRequest, lockOwner>>

-----------------------------------------------------------------------------
(* KThread: waiters and suspension.                                        *)

\* Mutant: the key is not looked at.
WaitersByAnyKey(t, l) == {w \in Thread : lockOwner[w] = t}

\* A waiting thread's m_address_key is its target: it waits in Lock().
WaitersByKey(t, l) == {w \in Thread : lockOwner[w] = t /\ target[w] = l}

\* m_num_kernel_waiters: every waiter of this module waits on a kernel lock.
HasKernelWaiters(owners, t) == \E w \in Thread : owners[w] = t

\* KThread::TrySuspend by t, with the waiters as owners leaves them.
TrySuspend(flags, owners, request, t) ==
    IF HasKernelWaiters(owners, t) THEN flags
                                   ELSE [flags EXCEPT ![t] = request[t]]

\* Mutant: the flags in the thread's state are tested, not the requests.
IsSuspendedInState(t) == suspended[t] # {}

IsSuspended(t) == suspendRequest[t] # {}

\* Mutant: a suspended owner is never continued.
ContinueNever(flags, owners, t) == flags

\* if (t->IsSuspended()) { t->ContinueIfHasKernelWaiters(); }
ContinueIfHasKernelWaiters(flags, owners, t) ==
    IF IsSuspended(t) /\ HasKernelWaiters(owners, t)
    THEN [flags EXCEPT ![t] = {}]
    ELSE flags

\* A thread whose state has a suspend flag may still take steps: it stays on
\* its core until the next reschedule.
Running(t) == threadState[t] = "Runnable"

\* The scheduler picks t again and again.
IsSchedulable(t) == threadState[t] = "Runnable" /\ suspended[t] = {}

-----------------------------------------------------------------------------
Init ==
    /\ tag = [l \in Lock |-> Free]
    /\ pc = [t \in Thread |-> "outside"]
    /\ target = [t \in Thread |-> NoLock]
    /\ oldTag = [t \in Thread |-> Free]
    /\ held = [t \in Thread |-> {}]
    /\ threadState = [t \in Thread |-> "Runnable"]
    /\ suspended = [t \in Thread |-> {}]
    /\ suspendRequest = [t \in Thread |-> {}]
    /\ lockOwner = [t \in Thread |-> NoThread]

\* Lock(): old_tag = m_tag.Load().  That a caller's locks ascend is assumed of the
\* callers, kernel code that takes its locks in one order; Lock() does not look.
LoadTag(t, l) ==
    /\ Running(t)
    /\ pc[t] = "outside"
    /\ \A m \in held[t] : m < l
    /\ pc' = [pc EXCEPT ![t] = "compareExchange"]
    /\ target' = [target EXCEPT ![t] = l]
    /\ oldTag' = [oldTag EXCEPT ![t] = tag[l]]
    /\ UNCHANGED <<tag, held, threadVars>>

\* Lock(): the compare-exchange found the lock free and took it.
TakeFree(t) ==
    /\ Running(t)
    /\ pc[t] = "compareExchange"
    /\ tag[target[t]] = oldTag[t]
    /\ oldTag[t] = Free
    /\ tag' = [tag EXCEPT ![target[t]] = [owner |-> t, waiters |-> FALSE]]
    /\ held' = [held EXCEPT ![t] = @ \cup {target[t]}]
    /\ pc' = [pc EXCEPT ![t] = "outside"]
    /\ UNCHANGED <<target, oldTag, threadVars>>

\* Mutant: cur_thread | 1 is exchanged in, not old_tag | 1.
MarkWaitersAsSelf(t) ==
    /\ Running(t)
    /\ pc[t] = "compareExchange"
    /\ tag[target[t]] = oldTag[t]
    /\ oldTag[t] # Free
    /\ tag' = [tag EXCEPT ![target[t]] = [owner |-> t, waiters |-> TRUE]]
    /\ pc' = [pc EXCEPT ![t] = "lockSlowPath"]
    /\ UNCHANGED <<target, oldTag, held, threadVars>>

\* Lock(): the compare-exchange set the waiters bit of an owned lock.
MarkWaiters(t) ==
    /\ Running(t)
    /\ pc[t] = "compareExchange"
    /\ tag[target[t]] = oldTag[t]
    /\ oldTag[t] # Free
    /\ tag' = [tag EXCEPT ![target[t]] = WithWaiters(@)]
    /\ pc' = [pc EXCEPT ![t] = "lockSlowPath"]
    /\ UNCHANGED <<target, oldTag, held, threadVars>>

\* Lock(): the compare-exchange failed and reloaded old_tag.
CompareExchangeFails(t) ==
    /\ Running(t)
    /\ pc[t] = "compareExchange"
    /\ tag[target[t]] # oldTag[t]
    /\ oldTag' = [oldTag EXCEPT ![t] = tag[target[t]]]
    /\ UNCHANGED <<tag, pc, target, held, threadVars>>

\* LockSlowPath(old_tag | 1, t) returns false: the tag is not what t saw, and
\* Lock() loads it again.
LockSlowPathRetry(t) ==
    /\ Running(t)
    /\ pc[t] = "lockSlowPath"
    /\ tag[target[t]] # WithWaiters(oldTag[t])
    /\ pc' = [pc EXCEPT ![t] = "reload"]
    /\ UNCHANGED <<tag, target, oldTag, held, threadVars>>

ReloadTag(t) ==
    /\ Running(t)
    /\ pc[t] = "reload"
    /\ pc' = [pc EXCEPT ![t] = "compareExchange"]
    /\ oldTag' = [oldTag EXCEPT ![t] = tag[target[t]]]
    /\ UNCHANGED <<tag, target, held, threadVars>>

\* Mutant: the owner is not continued.
LockSlowPathWaitOnly(t) ==
    /\ Running(t)
    /\ pc[t] = "lockSlowPath"
    /\ tag[target[t]] = WithWaiters(oldTag[t])
    /\ lockOwner' = [lockOwner EXCEPT ![t] = oldTag[t].owner]
    /\ threadState' = [threadState EXCEPT ![t] = "Waiting"]
    /\ pc' = [pc EXCEPT ![t] = "waiting"]
    /\ UNCHANGED <<tag, target, oldTag, held, suspended, suspendRequest>>

\* LockSlowPath(old_tag | 1, t) pends t on the owner.
LockSlowPathWait(t) ==
    LET owner == oldTag[t].owner
        owners == [lockOwner EXCEPT ![t] = owner]
    IN  /\ Running(t)
        /\ pc[t] = "lockSlowPath"
        /\ tag[target[t]] = WithWaiters(oldTag[t])
        /\ lockOwner' = owners
        /\ threadState' = [threadState EXCEPT ![t] = "Waiting"]
        /\ suspended' = ContinueIfHasKernelWaiters(suspended, owners, owner)
        /\ pc' = [pc EXCEPT ![t] = "waiting"]
        /\ UNCHANGED <<tag, target, oldTag, held, suspendRequest>>

\* LockSlowPath returns true once t has been handed the lock.
LockSlowPathReturn(t) ==
    /\ Running(t)
    /\ pc[t] = "waiting"
    /\ held' = [held EXCEPT ![t] = @ \cup {target[t]}]
    /\ pc' = [pc EXCEPT ![t] = "outside"]
    /\ UNCHANGED <<tag, target, oldTag, threadVars>>

\* Unlock(): the compare-exchange from exactly t to 0 succeeds.
UnlockFast(t, l) ==
    /\ Running(t)
    /\ pc[t] = "outside"
    /\ l \in held[t]
    /\ tag[l] = [owner |-> t, waiters |-> FALSE]
    /\ tag' = [tag EXCEPT ![l] = Free]
    /\ held' = [held EXCEPT ![t] = @ \ {l}]
    /\ UNCHANGED <<pc, target, oldTag, threadVars>>

\* Unlock(): it fails, and the slow path is called.
UnlockContended(t, l) ==
    /\ Running(t)
    /\ pc[t] = "outside"
    /\ l \in held[t]
    /\ tag[l] # [owner |-> t, waiters |-> FALSE]
    /\ held' = [held EXCEPT ![t] = @ \ {l}]
    /\ target' = [target EXCEPT ![t] = l]
    /\ pc' = [pc EXCEPT ![t] = "unlockSlowPath"]
    /\ UNCHANGED <<tag, oldTag, threadVars>>

\* UnlockSlowPath with no waiter by this key: the lock becomes free.
UnlockSlowPathFree(t) ==
    /\ Running(t)
    /\ pc[t] = "unlockSlowPath"
    /\ WaitersByKey(t, target[t]) = {}
    /\ suspended' = IF IsSuspended(t)
                    THEN TrySuspend(suspended, lockOwner, suspendRequest, t)
                    ELSE suspended
    /\ tag' = [tag EXCEPT ![target[t]] = Free]
    /\ pc' = [pc EXCEPT ![t] = "outside"]
    /\ UNCHANGED <<target, oldTag, held, threadState, suspendRequest, lockOwner>>

\* What UnlockSlowPath does with the waiters, and the low bit it then stores.
HandOver(t, next, bit) ==
    LET waiters == WaitersByKey(t, target[t])
        owners == [w \in Thread |-> IF w = next THEN NoThread
                                    ELSE IF w \in waiters THEN next
                                    ELSE lockOwner[w]]
        continued == ContinueIfHasKernelWaiters(suspended, owners, next)
    IN  /\ Running(t)
        /\ pc[t] = "unlockSlowPath"
        /\ next \in waiters
        /\ lockOwner' = owners
        /\ threadState' = [threadState EXCEPT ![next] = "Runnable"]
        /\ suspended' = IF IsSuspended(t)
                        THEN TrySuspend(continued, owners, suspendRequest, t)
                        ELSE continued
        /\ tag' = [tag EXCEPT ![target[t]] = [owner |-> next, waiters |-> bit]]
        /\ pc' = [pc EXCEPT ![t] = "outside"]
        /\ UNCHANGED <<target, oldTag, held, suspendRequest>>

\* Mutant: the low bit is not carried over to the next owner.
HandOverNoBit(t, next) == HandOver(t, next, FALSE)

\* UnlockSlowPath hands the lock to next.  RemoveWaiterByKey makes the other
\* waiters by this key wait on next.
UnlockSlowPathHandOver(t, next) ==
    HandOver(t, next, WaitersByKey(t, target[t]) # {next})

-----------------------------------------------------------------------------
(* KThread::RequestSuspend and KThread::Resume, called by another thread   *)
(* (thread activity, process activity, debugger).                          *)

RequestSuspend(t, type) ==
    LET request == [suspendRequest EXCEPT ![t] = @ \cup {type}]
    IN  /\ type \notin suspendRequest[t]
        /\ suspendRequest' = request
        /\ suspended' = TrySuspend(suspended, lockOwner, request, t)
        /\ UNCHANGED <<lockVars, threadState, lockOwner>>

\* UpdateState() sets the flags of the types that are still requested.
Resume(t, type) ==
    /\ type \in suspendRequest[t]
    /\ suspendRequest' = [suspendRequest EXCEPT ![t] = @ \ {type}]
    /\ suspended' = [suspended EXCEPT ![t] = suspendRequest[t] \ {type}]
    /\ UNCHANGED <<lockVars, threadState, lockOwner>>

-----------------------------------------------------------------------------
\* What a thread does once it has begun: finish Lock(), and release.
Finish(t) ==
    \/ TakeFree(t)
    \/ MarkWaiters(t)
    \/ CompareExchangeFails(t)
    \/ LockSlowPathRetry(t)
    \/ ReloadTag(t)
    \/ LockSlowPathWait(t)
    \/ LockSlowPathReturn(t)
    \/ UnlockSlowPathFree(t)
    \/ \E next \in Thread : UnlockSlowPathHandOver(t, next)

ThreadStep(t) ==
    \/ \E l \in Lock : LoadTag(t, l) \/ UnlockFast(t, l) \/ UnlockContended(t, l)
    \/ Finish(t)

SuspendStep(t) ==
    \E type \in SuspendType : RequestSuspend(t, type) \/ Resume(t, type)

Next == \E t \in Thread : ThreadStep(t) \/ SuspendStep(t)

Spec == Init /\ [][Next]_vars

\* The scheduler runs every schedulable thread, and the code between Lock()
\* and Unlock() is finite.  Nobody has to resume a suspended thread.
Fairness ==
    \A t \in Thread :
        /\ WF_vars(IsSchedulable(t) /\ Finish(t))
        /\ \A l \in Lock : SF_vars(IsSchedulable(t) /\ (UnlockFast(t, l) \/ UnlockContended(t, l)))

FairSpec == Spec /\ Fairness

-----------------------------------------------------------------------------
(* Properties.                                                             *)

PC == {"outside", "compareExchange", "lockSlowPath", "reload", "waiting",
       "unlockSlowPath"}

\* Every variable keeps its type.
TypeOK ==
    /\ tag \in [Lock -> Tag]
    /\ pc \in [Thread -> PC]
    /\ target \in [Thread -> Lock \cup {NoLock}]
    /\ oldTag \in [Thread -> Tag]
    /\ held \in [Thread -> SUBSET Lock]
    /\ threadState \in [Thread -> {"Runnable", "Waiting"}]
    /\ suspended \in [Thread -> SUBSET SuspendType]
    /\ suspendRequest \in [Thread -> SUBSET SuspendType]
    /\ lockOwner \in [Thread -> Thread \cup {NoThread}]

\* Between the return of Lock() and the call of Unlock() a thread has the lock
\* to itself, whichever of the fast and slow paths it and the others took.
MutualExclusion ==
    \A t, u \in Thread : t # u => held[t] \cap held[u] = {}

\* A thread asleep in LockSlowPath sleeps on the thread that owns the lock now
\* (owners change by hand-over while it sleeps), and the low bit is set, so the
\* owner's Unlock() cannot take the fast path past it: no wake-up is lost.
SleepersWaitOnOwner ==
    \A w \in Thread :
        threadState[w] = "Waiting" =>
            /\ lockOwner[w] \in Thread \ {w}
            /\ tag[target[w]].owner = lockOwner[w]
            /\ tag[target[w]].waiters

\* Locks taken in order make every chain of waiting threads ascend in the lock
\* order, hand-overs included: no cycle of kernel threads wait on each other.
WaitChainAscends ==
    \A w \in Thread :
        (lockOwner[w] # NoThread /\ threadState[lockOwner[w]] = "Waiting")
            => target[w] < target[lockOwner[w]]

\* A suspension that was put off because the thread had kernel waiters, or that
\* was undone to let it release a lock, is in force once it has none.
SuspensionNotLost ==
    \A t \in Thread :
        ~HasKernelWaiters(lockOwner, t) => suspended[t] = suspendRequest[t]

\* A thread other threads wait on for a kernel lock is not suspended, as
\* TrySuspend has it: "Ensure that we have no waiters", "Perform the suspend".
KernelWaitersKeepRunning ==
    \A t \in Thread : HasKernelWaiters(lockOwner, t) => suspended[t] = {}

Yields(t) ==
    /\ /\ HasKernelWaiters(lockOwner, t) => suspended[t] = {}
       /\ HasKernelWaiters(lockOwner', t) /\ suspended'[t] # {}
       => \E type \in suspendRequest[t] : Resume(t, type) /\ suspendRequest[t] # {type}
    /\ (\E w \in Thread : lockOwner[w] # t /\ lockOwner'[w] = t) => suspended'[t] = {}

\* Whatever kinds of suspension are requested, and in whatever order, one call alone
\* suspends a thread that others wait on for a kernel lock: Resume of that thread,
\* while another kind is requested.  And whenever a thread gets a waiter, new or
\* handed over, it runs: LockSlowPath and UnlockSlowPath continue it.
SuspensionYields == [][\A t \in Thread : Yields(t)]_vars

\* The threads asleep in LockSlowPath of l.
Sleepers(l) == {w \in Thread : threadState[w] = "Waiting" /\ target[w] = l}

\* While threads are asleep on a lock, it passes from its owner only to one of
\* them: UnlockSlowPath hands it over, and no fast path can barge in.
NoBarging ==
    [][\A l \in Lock : (Sleepers(l) # {} /\ tag'[l].owner # tag[l].owner)
                          => tag'[l].owner \in Sleepers(l)]_vars

\* An owner that someone sleeps on gives the lock up, even if it is suspended
\* and nobody ever resumes it.
OwnerGivesUp ==
    \A l \in Lock, t \in Thread :
        (tag[l].owner = t /\ Sleepers(l) # {}) ~> tag[l].owner # t

InLock == {"compareExchange", "lockSlowPath", "reload", "waiting"}

\* Where the owner in a tag comes from: a thread that holds the lock, was just
\* handed it, or is on its way to releasing it.
OwnerAccounted ==
    \A l \in Lock, t \in Thread :
        tag[l].owner = t <=>
            \/ l \in held[t]
            \/ /\ target[t] = l
               /\ \/ pc[t] = "unlockSlowPath"
                  \/ pc[t] = "waiting" /\ threadState[t] = "Runnable"

\* What a thread's place in the code says about its target and its old_tag.
PlacesAccounted ==
    \A t \in Thread :
        /\ pc[t] \in InLock => target[t] \in Lock /\ \A m \in held[t] : m < target[t]
        /\ pc[t] \in {"compareExchange", "lockSlowPath"} => oldTag[t].owner # t
        /\ pc[t] = "lockSlowPath" => oldTag[t].owner \in Thread
        /\ pc[t] = "unlockSlowPath" =>
              target[t] \in Lock \ held[t] /\ tag[target[t]].waiters
        /\ threadState[t] = "Waiting" => pc[t] = "waiting"
        /\ threadState[t] = "Waiting" <=> lockOwner[t] # NoThread
        /\ oldTag[t].owner = NoThread => oldTag[t] = Free

\* A tag without an owner is 0: the low bit never stands alone.
BitNeedsOwner == \A l \in Lock : tag[l].owner = NoThread => tag[l] = Free

\* The inductive invariant behind the safety properties: each of them needs the
\* others, and the account of the owner, to be preserved.
IInv ==
    /\ TypeOK
    /\ OwnerAccounted
    /\ PlacesAccounted
    /\ BitNeedsOwner
    /\ SleepersWaitOnOwner

\* The flags in force were all requested.
OnlyRequestedSuspends == \A t \in Thread : suspended[t] \subseteq suspendRequest[t]

\* The lock is a mutex: its tag names the holder.
M == INSTANCE Mutex WITH
        holder <- [l \in Lock |-> tag[l].owner],
        asking <- [t \in Thread |->
                     IF pc[t] \in InLock THEN target[t] ELSE NoLock]

\* Every step of the fast and slow paths is a step of Mutex or changes nothing
\* that a caller of the lock sees.
ImplementsMutex == M!MutexSpec

=============================================================================
