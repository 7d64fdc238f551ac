----------------------------- MODULE LightEvent -----------------------------
(***************************************************************************)
(* The light events of libstratosphere (InternalLightEventImpl), a word of *)
(* user memory and the address arbiter: 0 is an event that is not signaled *)
(* and has no waiter, 1 one that may have waiters, 2 a signaled one.       *)
(*                                                                         *)
(* Each load, each compare-and-swap and each system call is an action.     *)
(***************************************************************************)
EXTENDS KAddressArbiter

CONSTANTS EventWord     \* the address of m_state

ASSUME EventAssumption == EventWord \in Accessible /\ HalfWord > 2

VARIABLES
    autoClear,      \* LightEventType::is_auto_clear
    pc,             \* where a thread is in the code of the event
    timed,          \* the threads whose wait is a TimedWait
    overlap         \* history: threads in a wait during which it was signaled

codeVars == <<autoClear, pc, timed>>
vars == <<word, queue, priority, timer, result, autoClear, pc, timed, overlap>>

NoWaiter == 0       \* LightEventState_NotSignaledAndNoWaiter
Waiter == 1         \* LightEventState_NotSignaledAndWaiter
Signaled == 2       \* LightEventState_Signaled

state == word[EventWord]

InWait == {"waitLoad", "setWaiter", "waitCall", "take"}

Init ==
    /\ ArbiterInit
    /\ state \in {NoWaiter, Signaled}
    /\ autoClear \in BOOLEAN
    /\ pc = [t \in Thread |-> "idle"]
    /\ timed = {}
    /\ overlap = {}

Goto(t, label) == pc' = [pc EXCEPT ![t] = label]

\* The thread runs the code at a label.
At(t, label) == pc[t] = label /\ Running(t)

\* CompareAndSwap, which goes to one label if it stores and to another if not.
CompareAndSwap(t, expected, desired, stored, failed) ==
    /\ IF state = expected
         THEN word' = [word EXCEPT ![EventWord] = desired] /\ Goto(t, stored)
         ELSE Goto(t, failed) /\ UNCHANGED word
    /\ UNCHANGED <<queue, priority, timer, result, autoClear>>

\* The result of a system call is looked at once.
Forget(t) == Answer(t, "Success")

-----------------------------------------------------------------------------
(* SignalWithAutoClear and SignalWithManualClear.                          *)

BeginSignal(t) ==
    /\ At(t, "idle")
    /\ Goto(t, "signalLoad")
    /\ UNCHANGED <<arbiterVars, autoClear, timed>>

SignalLoad(t) ==
    /\ At(t, "signalLoad")
    /\ \/ state = NoWaiter /\ Goto(t, "setSignaled")
       \/ state = Waiter /\ Goto(t, "signalCall")
       \/ state = Signaled /\ Goto(t, "idle")
    /\ UNCHANGED <<arbiterVars, autoClear, timed>>

SetSignaled(t) ==
    /\ At(t, "setSignaled")
    /\ CompareAndSwap(t, NoWaiter, Signaled, "idle", "signalLoad")
    /\ UNCHANGED timed

SignalCall(t) ==
    /\ At(t, "signalCall")
    /\ IF autoClear THEN SignalAndModifyByWaitingCountIfEqual(t, EventWord, Waiter, 1)
                    ELSE SignalAndIncrementIfEqual(t, EventWord, Waiter, -1)
    /\ Goto(t, "signalReturn")
    /\ UNCHANGED <<autoClear, timed>>

\* A mutant: the signal is over, whatever the result.
SignalReturnOnce(t) ==
    /\ At(t, "signalReturn")
    /\ Goto(t, "idle")
    /\ Forget(t)
    /\ UNCHANGED <<autoClear, timed>>

\* ResultInvalidState starts the loop again.
SignalReturn(t) ==
    /\ At(t, "signalReturn")
    /\ Goto(t, IF result[t] = "InvalidState" THEN "signalLoad" ELSE "idle")
    /\ Forget(t)
    /\ UNCHANGED <<autoClear, timed>>

-----------------------------------------------------------------------------
(* WaitWithAutoClear, WaitWithManualClear, and the timed ones.             *)

BeginWait(t) ==
    /\ At(t, "idle")
    /\ timed' \in {timed, timed \cup {t}}
    /\ Goto(t, "waitLoad")
    /\ UNCHANGED <<arbiterVars, autoClear>>

ReturnFromWait(t) == Goto(t, "idle") /\ timed' = timed \ {t}

WaitLoad(t) ==
    /\ At(t, "waitLoad")
    /\ \/ state = NoWaiter /\ Goto(t, "setWaiter") /\ UNCHANGED timed
       \/ state = Waiter /\ Goto(t, "waitCall") /\ UNCHANGED timed
       \/ state = Signaled /\ autoClear /\ Goto(t, "take") /\ UNCHANGED timed
       \/ state = Signaled /\ ~autoClear /\ ReturnFromWait(t)
    /\ UNCHANGED <<arbiterVars, autoClear>>

\* A mutant: the word is stored, though it may be signaled by now.
SetWaiterAlways(t) ==
    /\ At(t, "setWaiter")
    /\ word' = [word EXCEPT ![EventWord] = Waiter]
    /\ Goto(t, "waitCall")
    /\ UNCHANGED <<queue, priority, timer, result, autoClear, timed>>

SetWaiter(t) ==
    /\ At(t, "setWaiter")
    /\ CompareAndSwap(t, NoWaiter, Waiter, "waitCall", "waitLoad")
    /\ UNCHANGED timed

WaitCall(t) ==
    /\ At(t, "waitCall")
    /\ \E timeout \in IF t \in timed THEN {"zero", "finite"} ELSE {"none"} :
         WaitIfEqual(t, EventWord, Waiter, timeout)
    /\ Goto(t, "waitReturn")
    /\ UNCHANGED <<autoClear, timed>>

\* With ResultInvalidState, an event that clears itself is looked at again;
\* otherwise the wait is over, as it is when it was signaled or has timed out.
WaitReturn(t) ==
    /\ At(t, "waitReturn")
    /\ IF result[t] = "InvalidState" /\ autoClear
         THEN Goto(t, "waitLoad") /\ UNCHANGED timed
         ELSE ReturnFromWait(t)
    /\ Forget(t)
    /\ UNCHANGED autoClear

Take(t) ==
    /\ At(t, "take")
    /\ IF state = Signaled
         THEN word' = [word EXCEPT ![EventWord] = NoWaiter] /\ ReturnFromWait(t)
         ELSE Goto(t, "waitLoad") /\ UNCHANGED <<word, timed>>
    /\ UNCHANGED <<queue, priority, timer, result, autoClear>>

-----------------------------------------------------------------------------
\* Clear, and TryWaitWithAutoClear.
Clear(t) ==
    At(t, "idle") /\ CompareAndSwap(t, Signaled, NoWaiter, "idle", "idle") /\ UNCHANGED timed

WaitStep(t) == WaitLoad(t) \/ SetWaiter(t) \/ WaitCall(t) \/ WaitReturn(t) \/ Take(t)
SignalStep(t) == SignalLoad(t) \/ SetSignaled(t) \/ SignalCall(t) \/ SignalReturn(t)

\* A thread's timeout or change of priority, and its end.
Others(t) ==
    \/ TimeOut(t) /\ UNCHANGED codeVars
    \/ (\E p \in Priority : SetPriority(t, p)) /\ UNCHANGED codeVars
    \/ RequestTerminate(t) /\ ReturnFromWait(t) /\ UNCHANGED autoClear

\* What a timed wait returns for the result of its system call: !timed_out.
WaitResult(r) == r # "TimedOut"

\* What an event's user sees of a thread, from where it is and its last result.
Seen(label, r, isTimed) ==
    CASE r = "TerminationRequested" -> "dead"
      [] /\ r # "TerminationRequested"
         /\ label \in InWait \/ (label = "waitReturn" /\ r \in {"Waiting", "InvalidState"})
           -> IF isTimed THEN "timedWait" ELSE "wait"
      [] label = "waitReturn" /\ r = "Success" -> "done"
      [] label = "waitReturn" /\ ~WaitResult(r) -> "gaveUp"
      [] /\ r # "TerminationRequested"
         /\ \/ label \in {"signalLoad", "setSignaled", "signalCall"}
            \/ label = "signalReturn" /\ r = "InvalidState"
           -> "signal"
      [] OTHER -> "none"

Call(t) == Seen(pc[t], result[t], t \in timed)

Track == overlap' = {t \in Thread : Call(t)' \in {"wait", "timedWait"}
                                    /\ (t \in overlap \/ state' = Signaled)}

Next ==
    /\ \E t \in Thread : \/ BeginSignal(t) \/ SignalStep(t) \/ BeginWait(t) \/ WaitStep(t)
                          \/ Clear(t) \/ Others(t)
    /\ Track

Spec == Init /\ [][Next]_vars

-----------------------------------------------------------------------------
TypeOK ==
    /\ ArbiterTypeOK
    /\ autoClear \in BOOLEAN
    /\ pc \in [Thread -> InWait \cup {"idle", "waitReturn", "signalLoad", "setSignaled",
                                      "signalCall", "signalReturn"}]
    /\ timed \subseteq Thread /\ overlap \subseteq Thread

\* No thread sleeps past a signal: while threads sleep on the event its word is
\* 1, which sends every signal to the kernel.
SleepersAnnounced == queue[EventWord] # <<>> => state = Waiter

E == INSTANCE Event WITH signaled <- (state = Signaled), call <- [t \in Thread |-> Call(t)]

\* The word and the arbiter together are an event: every signal lets a wait
\* through or leaves the event signaled, and no wait returns without a signal,
\* but a timed one with false, whose system call has timed out.
ImplementsEvent == E!EventSpec

=============================================================================
