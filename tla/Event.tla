------------------------------- MODULE Event -------------------------------
(***************************************************************************)
(* What an event promises to the threads that signal it and wait for it.   *)
(* Every call takes effect at one moment between its begin and its return. *)
(* Of an event that clears itself, each signal lets one wait through, one  *)
(* that is under way or a later one; the others let through every wait     *)
(* during which they were signaled.                                        *)
(***************************************************************************)
CONSTANTS Thread

VARIABLES
    autoClear,      \* the event clears itself
    signaled,
    call,           \* what a thread is in: "none", "wait", "timedWait", "signal",
                    \* "done" and "gaveUp", the returns of a wait that was let
                    \* through (true) and of a timed one that was not (false);
                    \* "dead" if the thread has ended
    overlap         \* the threads in a wait during which it was signaled

eventVars == <<autoClear, signaled, call, overlap>>

EventInit ==
    /\ autoClear \in BOOLEAN /\ signaled \in BOOLEAN
    /\ call = [t \in Thread |-> "none"]
    /\ overlap = {}

Waits == {"wait", "timedWait"}

\* Those in W go on to done, t to what.
Step(t, what, W) ==
    /\ call' = [u \in Thread |-> IF u = t THEN what ELSE IF u \in W THEN "done" ELSE call[u]]
    /\ overlap' = {u \in Thread : call'[u] \in Waits /\ (u \in overlap \/ signaled')}
    /\ UNCHANGED autoClear

Begin(t) ==
    /\ call[t] = "none"
    /\ \E what \in Waits \cup {"signal"} : Step(t, what, {})
    /\ UNCHANGED signaled

\* The event is signaled; if it does not clear itself, waits may go on at once.
Set(t) ==
    /\ call[t] = "signal"
    /\ signaled' = TRUE
    /\ \E W \in SUBSET {u \in Thread : call[u] \in Waits /\ ~autoClear} : Step(t, "none", W)

\* The signal lets a wait through.
Pass(t) ==
    /\ call[t] = "signal" /\ autoClear /\ ~signaled
    /\ \E u \in Thread : call[u] \in Waits /\ Step(t, "none", {u})
    /\ UNCHANGED signaled

Take(t) ==
    /\ call[t] \in Waits
    /\ IF autoClear THEN signaled ELSE signaled \/ t \in overlap
    /\ signaled' = (signaled /\ ~autoClear)
    /\ Step(t, "none", {})

\* A timed wait is over without having been let through.
GiveUp(t) ==
    /\ call[t] = "timedWait"
    /\ Step(t, "gaveUp", {})
    /\ UNCHANGED signaled

Leave(t) ==
    /\ call[t] \in {"done", "gaveUp"}
    /\ Step(t, "none", {})
    /\ UNCHANGED signaled

\* A thread ends, in a call or not.
End(t) == Step(t, "dead", {}) /\ UNCHANGED signaled

\* Clear, and a successful TryWait of an event that clears itself.
Clear(t) ==
    /\ call[t] = "none"
    /\ signaled' = FALSE
    /\ Step(t, "none", {})

EventNext ==
    \E t \in Thread : \/ Begin(t) \/ Set(t) \/ Pass(t) \/ Take(t) \/ GiveUp(t) \/ Leave(t)
                       \/ End(t) \/ Clear(t)

EventSpec == EventInit /\ [][EventNext]_eventVars

=============================================================================
