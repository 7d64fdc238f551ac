--------------------------- MODULE KResourceLimit ---------------------------
(***************************************************************************)
(* Resource limits (KResourceLimit) and the light condition variable       *)
(* (KLightConditionVariable) their Reserve waits on.                       *)
(*                                                                         *)
(* Every method runs under m_lock, a light lock, so the part of a method   *)
(* between two waits is one action (KLightLock implements Mutex).  A wait  *)
(* ends by Broadcast, by the timer or by a termination request; these run  *)
(* under the scheduler lock, whoever holds m_lock, and the thread goes on  *)
(* once it has m_lock again.                                               *)
(*                                                                         *)
(* A reservation is given back in one piece, or its hint first and its     *)
(* value later: a thread gives back the hint in Exit and the value when it *)
(* is destroyed.                                                           *)
(***************************************************************************)
EXTENDS Integers, FiniteSets

CONSTANTS
    Thread,
    Resource,       \* LimitableResource
    NoResource,
    Value,          \* bound: the amounts that are reserved
    LimitValue,     \* bound: the limits that are set
    MaxAdded,       \* bound: the limit up to which Add is called
    HalfRange       \* 2^63, the values of an s64 are below it

ASSUME ThreadAssumption == IsFiniteSet(Thread)
ASSUME ResourceAssumption == NoResource \notin Resource
ASSUME ValueAssumption ==
    /\ HalfRange \in Nat
    /\ Value \subseteq 0..(HalfRange - 1)
    /\ LimitValue \subseteq 0..(HalfRange - 1)
    /\ MaxAdded \in 0..(HalfRange - 1)

\* The sum of two s64 that are not negative: it wraps once at most.
WrapSum(m, n) == IF m + n >= HalfRange THEN m + n - 2 * HalfRange ELSE m + n

VARIABLES
    limit,          \* m_limit_values
    current,        \* m_current_values
    hints,          \* m_current_hints
    peak,           \* m_peak_values
    waiterCount,    \* m_waiter_count
    waitList,       \* m_cond_var.m_wait_list
    state,          \* "running", "sleeping", or "woken" and not yet holding m_lock
    which,          \* the resource of the Reserve a thread is in ...
    amount,         \* ... and the value
    expired,        \* the tick has reached the timeout of that Reserve
    terminating,    \* IsTerminationRequested
    reserved,       \* history: what was reserved and not given back
    ending,         \* history: of which the hint was given back, the value not
    raised          \* history: the limit was raised while the thread slept

limitVars == <<limit, current, hints, peak>>
historyVars == <<reserved, ending>>
vars == <<limit, current, hints, peak, waiterCount, waitList, state, which, amount,
          expired, terminating, reserved, ending, raised>>

Max2(m, n) == IF m >= n THEN m ELSE n

Init ==
    /\ limit = [r \in Resource |-> 0]
    /\ current = [r \in Resource |-> 0]
    /\ hints = [r \in Resource |-> 0]
    /\ peak = [r \in Resource |-> 0]
    /\ waiterCount = 0
    /\ waitList = {}
    /\ state = [t \in Thread |-> "running"]
    /\ which = [t \in Thread |-> NoResource]
    /\ amount = [t \in Thread |-> 0]
    /\ expired = [t \in Thread |-> FALSE]
    /\ terminating = [t \in Thread |-> FALSE]
    /\ reserved = [r \in Resource |-> 0]
    /\ ending = [r \in Resource |-> 0]
    /\ raised = [t \in Thread |-> FALSE]

-----------------------------------------------------------------------------
(* KLightConditionVariable.                                                *)

\* Wait, up to the moment the thread sleeps.
Wait(t) ==
    /\ waitList' = waitList \cup {t}
    /\ state' = [state EXCEPT ![t] = "sleeping"]
    /\ raised' = [raised EXCEPT ![t] = FALSE]

Broadcast ==
    /\ waitList' = {}
    /\ state' = [t \in Thread |-> IF t \in waitList THEN "woken" ELSE state[t]]

\* CancelWait of one thread.
CancelWait(t) ==
    /\ waitList' = waitList \ {t}
    /\ state' = [state EXCEPT ![t] = "woken"]

-----------------------------------------------------------------------------
(* Reserve.                                                                *)

\* Reserve returns, with n waiters counted.
Return(t, n) ==
    /\ state' = [state EXCEPT ![t] = "running"]
    /\ which' = [which EXCEPT ![t] = NoResource]
    /\ amount' = [amount EXCEPT ![t] = 0]
    /\ expired' = [expired EXCEPT ![t] = FALSE]
    /\ waiterCount' = n
    /\ UNCHANGED <<waitList, terminating, raised>>

\* Mutant: the sum is compared with the limit only.
FitsWrapped(r, v) == WrapSum(current[r], v) <= limit[r]

\* The value fits under the limit, and the sum does not wrap.
Fits(r, v) == current[r] < WrapSum(current[r], v) /\ WrapSum(current[r], v) <= limit[r]

\* It does not fit now but will when the pending releases are done.
WorthWaiting(r, v) ==
    /\ current[r] < WrapSum(current[r], v)
    /\ WrapSum(current[r], v) > limit[r]
    /\ WrapSum(hints[r], v) <= limit[r]

Grant(t, r, v, n) ==
    /\ Fits(r, v)
    /\ current' = [current EXCEPT ![r] = @ + v]
    /\ hints' = [hints EXCEPT ![r] = @ + v]
    /\ peak' = [peak EXCEPT ![r] = Max2(@, current[r] + v)]
    /\ reserved' = [reserved EXCEPT ![r] = @ + v]
    /\ Return(t, n)
    /\ UNCHANGED <<limit, ending>>

\* Wait returns at once, with m_lock held, in a terminating thread.
Refuse(t, r, v, n) ==
    /\ ~Fits(r, v)
    /\ WorthWaiting(r, v) => expired[t] \/ terminating[t]
    /\ Return(t, n)
    /\ UNCHANGED <<limitVars, historyVars>>

\* Mutant: the timeout is not looked at again before the next wait.
SleepAgain(t, r, v, n) ==
    /\ WorthWaiting(r, v)
    /\ ~terminating[t]
    /\ Wait(t)
    /\ waiterCount' = n + 1
    /\ which' = [which EXCEPT ![t] = r]
    /\ amount' = [amount EXCEPT ![t] = v]
    /\ UNCHANGED <<limitVars, historyVars, expired, terminating>>

\* The timeout is not over and the release is worth a wait.
Sleep(t, r, v, n) ==
    /\ WorthWaiting(r, v)
    /\ ~expired[t]
    /\ ~terminating[t]
    /\ Wait(t)
    /\ waiterCount' = n + 1
    /\ which' = [which EXCEPT ![t] = r]
    /\ amount' = [amount EXCEPT ![t] = v]
    /\ UNCHANGED <<limitVars, historyVars, expired, terminating>>

\* One turn of the loop in Reserve, with n waiters counted before it.
Turn(t, r, v, n) == Grant(t, r, v, n) \/ Refuse(t, r, v, n) \/ Sleep(t, r, v, n)

\* Reserve: refused at once if the hints have reached the limit.
Reserve(t, r, v) ==
    /\ state[t] = "running"
    /\ hints[r] < limit[r]
    /\ Turn(t, r, v, waiterCount)

\* Reserve goes on after a wait.
Resume(t) ==
    /\ state[t] = "woken"
    /\ IF terminating[t]
       THEN Return(t, waiterCount - 1) /\ UNCHANGED <<limitVars, historyVars>>
       ELSE Turn(t, which[t], amount[t], waiterCount - 1)

\* The tick reaches the timeout; the timer ends the wait.
TimeOut(t) ==
    /\ state[t] # "running"
    /\ ~expired[t]
    /\ expired' = [expired EXCEPT ![t] = TRUE]
    /\ IF state[t] = "sleeping" THEN CancelWait(t) ELSE UNCHANGED <<waitList, state>>
    /\ UNCHANGED <<limitVars, historyVars, waiterCount, which, amount, terminating, raised>>

RequestTerminate(t) ==
    /\ ~terminating[t]
    /\ terminating' = [terminating EXCEPT ![t] = TRUE]
    /\ IF state[t] = "sleeping" THEN CancelWait(t) ELSE UNCHANGED <<waitList, state>>
    /\ UNCHANGED <<limitVars, historyVars, waiterCount, which, amount, expired, raised>>

-----------------------------------------------------------------------------
(* The other methods.                                                      *)

\* Mutant: waiters are woken for a hint only.
ReleaseQuietly(r, v, h) ==
    /\ current' = [current EXCEPT ![r] = @ - v]
    /\ hints' = [hints EXCEPT ![r] = @ - h]
    /\ IF waiterCount # 0 /\ h # 0 THEN Broadcast ELSE UNCHANGED <<waitList, state>>
    /\ UNCHANGED <<limit, peak, waiterCount, which, amount, expired, terminating, raised>>

\* Release of a value and a hint.
Release(r, v, h) ==
    /\ current' = [current EXCEPT ![r] = @ - v]
    /\ hints' = [hints EXCEPT ![r] = @ - h]
    /\ IF waiterCount # 0 THEN Broadcast ELSE UNCHANGED <<waitList, state>>
    /\ UNCHANGED <<limit, peak, waiterCount, which, amount, expired, terminating, raised>>

\* A reservation is given back in one piece.
ReleaseAll(r, v) ==
    /\ v <= reserved[r]
    /\ Release(r, v, v)
    /\ reserved' = [reserved EXCEPT ![r] = @ - v]
    /\ UNCHANGED ending

\* The hint is given back when its holder ends ...
ReleaseHint(r, v) ==
    /\ v <= reserved[r]
    /\ Release(r, 0, v)
    /\ reserved' = [reserved EXCEPT ![r] = @ - v]
    /\ ending' = [ending EXCEPT ![r] = @ + v]

\* Mutant: the hint is given back again with the value.
ReleaseHintAgain(r, v) ==
    /\ v <= ending[r]
    /\ Release(r, v, v)
    /\ ending' = [ending EXCEPT ![r] = @ - v]
    /\ UNCHANGED reserved

\* ... and the value when the holder is destroyed.
ReleaseValue(r, v) ==
    /\ v <= ending[r]
    /\ Release(r, v, 0)
    /\ ending' = [ending EXCEPT ![r] = @ - v]
    /\ UNCHANGED reserved

\* SetLimitValue wakes no one.
SetLimitValue(r, v) ==
    /\ current[r] <= v
    /\ limit' = [limit EXCEPT ![r] = v]
    /\ peak' = [peak EXCEPT ![r] = current[r]]
    /\ raised' = [t \in Thread |-> raised[t] \/ (t \in waitList /\ v > limit[r])]
    /\ UNCHANGED <<current, hints, waiterCount, waitList, state, which, amount, expired,
                   terminating, historyVars>>

\* Add: the limit grows by what the caller reserves.
Add(r, v) ==
    /\ limit[r] + v <= MaxAdded
    /\ v > 0
    /\ limit' = [limit EXCEPT ![r] = @ + v]
    /\ current' = [current EXCEPT ![r] = @ + v]
    /\ hints' = [hints EXCEPT ![r] = @ + v]
    /\ peak' = [peak EXCEPT ![r] = Max2(@, current[r] + v)]
    /\ reserved' = [reserved EXCEPT ![r] = @ + v]
    /\ UNCHANGED <<waiterCount, waitList, state, which, amount, expired, terminating, ending, raised>>

Next ==
    \/ \E t \in Thread :
          \/ \E r \in Resource, v \in Value : Reserve(t, r, v)
          \/ Resume(t)
          \/ TimeOut(t)
          \/ RequestTerminate(t)
    \/ \E r \in Resource, v \in Value \ {0} :
          ReleaseAll(r, v) \/ ReleaseHint(r, v) \/ ReleaseValue(r, v) \/ Add(r, v)
    \/ \E r \in Resource, v \in LimitValue : SetLimitValue(r, v)

Spec == Init /\ [][Next]_vars

\* The timer fires, and a woken thread gets m_lock again.
Fairness == \A t \in Thread : WF_vars(TimeOut(t)) /\ WF_vars(Resume(t))

FairSpec == Spec /\ Fairness

-----------------------------------------------------------------------------
(* Properties.                                                             *)

\* Every variable keeps its type.
TypeOK ==
    /\ limit \in [Resource -> Nat]
    /\ current \in [Resource -> Int]
    /\ hints \in [Resource -> Int]
    /\ peak \in [Resource -> Nat]
    /\ waiterCount \in Nat
    /\ waitList \subseteq Thread
    /\ state \in [Thread -> {"running", "sleeping", "woken"}]
    /\ which \in [Thread -> Resource \cup {NoResource}]
    /\ amount \in [Thread -> Nat]
    /\ expired \in [Thread -> BOOLEAN]
    /\ terminating \in [Thread -> BOOLEAN]
    /\ reserved \in [Resource -> Nat]
    /\ ending \in [Resource -> Nat]
    /\ raised \in [Thread -> BOOLEAN]

\* What the getters, Add, Reserve and Release assert:
\* 0 <= hint <= current <= peak <= limit, whoever waits, times out or lowers the limit.
ValuesOrdered ==
    \A r \in Resource :
        0 <= hints[r] /\ hints[r] <= current[r] /\ current[r] <= peak[r] /\ peak[r] <= limit[r]

\* Nothing is reserved twice or given back twice: the values account for what is
\* reserved or ending, and the hints for what is reserved.
Conservation ==
    \A r \in Resource : current[r] = reserved[r] + ending[r] /\ hints[r] = reserved[r]

\* The condition variable's list is the set of sleeping threads, and
\* m_waiter_count, which decides whether Release broadcasts, counts them and the
\* woken threads that wait for m_lock.
WaitersCounted ==
    /\ waitList = {t \in Thread : state[t] = "sleeping"}
    /\ waiterCount = Cardinality({t \in Thread : state[t] # "running"})

\* No wake-up is missed: a sleeping Reserve would not fit, unless SetLimitValue
\* has raised the limit since it fell asleep.
NoMissedRelease ==
    \A t \in waitList : Fits(which[t], amount[t]) => raised[t]

\* A thread sleeps only while a value whose hint was given back is outstanding:
\* there is a release to come that wakes it.
SleepersAwaitRelease ==
    \A t \in waitList : hints[which[t]] < current[which[t]]

\* Reserve sleeps only while it does not fit, and only if a release is to come
\* that will wake it.
SleepersJustified == NoMissedRelease /\ SleepersAwaitRelease

\* Reserve returns: at the latest when its timeout has passed.
ReserveReturns == \A t \in Thread : state[t] # "running" ~> state[t] = "running"

-----------------------------------------------------------------------------
(* The inductive invariant of the proofs.                                  *)

\* Limits are s64, and a thread that is not running is in a Reserve.
RequestsKnown ==
    /\ \A r \in Resource : limit[r] < HalfRange
    /\ \A t \in Thread : state[t] # "running" => which[t] \in Resource /\ amount[t] \in Value

IInv ==
    /\ TypeOK
    /\ RequestsKnown
    /\ Conservation
    /\ ValuesOrdered
    /\ WaitersCounted
    /\ NoMissedRelease
    /\ SleepersAwaitRelease

=============================================================================
