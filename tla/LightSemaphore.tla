--------------------------- MODULE LightSemaphore ---------------------------
(***************************************************************************)
(* The light semaphores of libstratosphere: a count under a mutex, and an  *)
(* event, not cleared by itself, on which Acquire waits when the count is  *)
(* zero.  What a call does under the mutex is one action; the event is     *)
(* waited for and signaled outside of it, by the steps of LightEvent.      *)
(***************************************************************************)
EXTENDS LightEvent

CONSTANTS MaxCount      \* LightSemaphoreType::max_count

ASSUME MaxCountAssumption == MaxCount \in Nat \ {0}

VARIABLES
    count,          \* LightSemaphoreType::count
    acquiring       \* "none", "acquire" or "timedAcquire", for each thread

semaphoreVars == <<count, acquiring>>

\* InitializeLightSemaphore.
SemaphoreInit ==
    /\ count \in 0..MaxCount
    /\ acquiring = [t \in Thread |-> "none"]
    /\ Init
    /\ ~autoClear
    /\ state = IF count > 0 THEN Signaled ELSE NoWaiter

\* A turn of the loop of AcquireLightSemaphore and TimedAcquireLightSemaphore, or
\* TryAcquireLightSemaphore that succeeds: a unit is taken, or the event cleared ...
Acquire(t, kind) ==
    /\ At(t, "idle") /\ acquiring[t] \in {"none", kind}
    /\ \/ /\ count > 0
          /\ count' = count - 1
          /\ acquiring' = [acquiring EXCEPT ![t] = "none"]
          /\ UNCHANGED <<arbiterVars, codeVars>>
       \/ /\ count = 0
          /\ acquiring' = [acquiring EXCEPT ![t] = kind]
          /\ CompareAndSwap(t, Signaled, NoWaiter, "cleared", "cleared")
          /\ UNCHANGED <<count, timed>>

\* ... and, outside the mutex, waited for, unless the time is over.
AcquireWait(t) ==
    /\ At(t, "cleared")
    /\ \/ /\ Goto(t, "waitLoad")
          /\ timed' = IF acquiring[t] = "timedAcquire" THEN timed \cup {t} ELSE timed
          /\ UNCHANGED acquiring
       \/ /\ acquiring[t] = "timedAcquire"
          /\ Goto(t, "idle")
          /\ acquiring' = [acquiring EXCEPT ![t] = "none"]
          /\ UNCHANGED timed
    /\ UNCHANGED <<count, arbiterVars, autoClear>>

\* ReleaseLightSemaphore: the count rises, then the event is signaled.  That the
\* count has room is asserted.
Release(t, n) ==
    /\ At(t, "idle") /\ acquiring[t] = "none"
    /\ count + n <= MaxCount
    /\ count' = count + n
    /\ Goto(t, "signalLoad")
    /\ UNCHANGED <<acquiring, arbiterVars, autoClear, timed>>

SemaphoreNext ==
    /\ \E t \in Thread :
         \/ \E kind \in {"acquire", "timedAcquire"} : Acquire(t, kind)
         \/ AcquireWait(t)
         \/ \E n \in 1..MaxCount : Release(t, n)
         \/ WaitStep(t) /\ UNCHANGED semaphoreVars
         \/ SignalStep(t) /\ UNCHANGED semaphoreVars
         \/ TimeOut(t) /\ UNCHANGED <<codeVars, semaphoreVars>>
    /\ Track

SemaphoreSpec == SemaphoreInit /\ [][SemaphoreNext]_<<vars, semaphoreVars>>

-----------------------------------------------------------------------------
SemaphoreTypeOK ==
    /\ ArbiterTypeOK
    /\ autoClear \in BOOLEAN
    /\ pc \in [Thread -> InWait \cup {"idle", "waitReturn", "signalLoad", "setSignaled",
                                      "signalCall", "signalReturn", "cleared"}]
    /\ timed \subseteq Thread /\ overlap \subseteq Thread
    /\ count \in 0..MaxCount
    /\ acquiring \in [Thread -> {"none", "acquire", "timedAcquire"}]

\* No release is lost on a sleeping thread: while the count is not zero and a
\* thread sleeps, a thread that released is still on its way to signal.
ReleaseReachesSleepers ==
    count > 0 /\ queue[EventWord] # <<>> =>
        \E t \in Thread : pc[t] \in {"signalLoad", "setSignaled", "signalCall"}

\* The inductive invariant of the proof: units of the semaphore that no signal
\* announces have a releaser on its way, before its compare-and-swap if the word is 0.
Announced ==
    /\ ~autoClear /\ state \in {NoWaiter, Waiter, Signaled}
    /\ \A t \in Thread : pc[t] # "take"
    /\ count > 0 /\ state = NoWaiter => \E t \in Thread : pc[t] \in {"signalLoad", "setSignaled"}
    /\ count > 0 /\ state = Waiter =>
         \E t \in Thread : pc[t] \in {"signalLoad", "setSignaled", "signalCall"}

=============================================================================
