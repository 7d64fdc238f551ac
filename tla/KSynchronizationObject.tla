----------------------- MODULE KSynchronizationObject -----------------------
(***************************************************************************)
(* Waiting for any of several objects: WaitSynchronization on events and   *)
(* threads, the signals that end a wait, its time-out, its cancellation    *)
(* (CancelSynchronization) and the termination of the thread.  Sleep is    *)
(* the wait that has no objects and cannot be cancelled; both use the      *)
(* thread's one timer task.                                                *)
(*                                                                         *)
(* Every action between the entry of a system call and its return runs     *)
(* under the scheduler lock.  A list of waiters is here the set of the     *)
(* nodes linked to the object; that the links keep such a set, in order,   *)
(* is the subject of ThreadList.                                           *)
(***************************************************************************)
EXTENDS Integers, Sequences

CONSTANTS
    Thread,
    Event,          \* KEvent with its KReadableEvent
    MaxObjects      \* ArgumentHandleCountMax

ASSUME MaxObjectsAssumption == MaxObjects \in Nat
ASSUME ObjectsAssumption == Thread \cap Event = {}

\* A thread is an object to wait for, too: signaled once it has terminated.
Object == Thread \cup Event

NoIndex == 0
Result == {"Success", "TimedOut", "Cancelled", "TerminationRequested"}
Place == {"run", "call", "wait", "sleep", "answered", "exiting", "dead"}
ObjectList == UNION {[1 .. n -> Object] : n \in 0 .. MaxObjects}

VARIABLES
    pc,             \* Waiting with one of the two wait queues, or elsewhere
    objs,           \* the objects the call holds references to
    linked,         \* linked[o]: the nodes <<thread, index>> in the list of o
    signaled,       \* the objects with m_is_signaled or m_signaled
    destroyed,      \* m_readable_event_destroyed
    cancellable,    \* m_cancellable
    waitCancelled,  \* m_wait_cancelled
    timer,          \* the threads registered with the hardware timer
    terminating,    \* m_termination_requested
    index,          \* m_synced_index, and out_index
    result          \* m_wait_result, and what Wait returns

vars == <<pc, objs, linked, signaled, destroyed, cancellable, waitCancelled, timer, terminating,
          index, result>>

Init ==
    /\ pc = [t \in Thread |-> "run"]
    /\ objs = [t \in Thread |-> <<>>]
    /\ linked = [o \in Object |-> {}]
    /\ signaled = {}
    /\ destroyed = {}
    /\ cancellable = {}
    /\ waitCancelled = {}
    /\ timer = {}
    /\ terminating = {}
    /\ index = [t \in Thread |-> NoIndex]
    /\ result = [t \in Thread |-> "Success"]

At(t, where) == pc[t] = where
Waiting(t) == At(t, "wait") \/ At(t, "sleep")
Uses(t, o) == \E i \in DOMAIN objs[t] : objs[t][i] = o

-----------------------------------------------------------------------------
(* The wait queue of a wait.                                               *)

\* The nodes of t's wait that belong to the list of o.
Nodes(t, o) == {<<t, i>> : i \in {j \in DOMAIN objs[t] : objs[t][j] = o}}

Unlinked(S) == [o \in Object |-> linked[o] \ UNION {Nodes(t, o) : t \in S}]

\* The first of t's objects that is o.
SyncIndex(t, o) == CHOOSE i \in DOMAIN objs[t] :
                       objs[t][i] = o /\ \A j \in 1 .. i - 1 : objs[t][j] # o

Woken(o) == {t \in Thread : At(t, "wait") /\ \E n \in linked[o] : n[1] = t}

Answered(o, pcs) ==
    /\ pc' = [t \in Thread |-> IF t \in Woken(o) THEN "answered" ELSE pcs[t]]
    /\ index' = [t \in Thread |-> IF t \in Woken(o) THEN SyncIndex(t, o) ELSE index[t]]
    /\ result' = [t \in Thread |-> IF t \in Woken(o) THEN "Success" ELSE result[t]]
    /\ linked' = Unlinked(Woken(o))

\* Every thread linked to o leaves all its lists; pcs is pc as the caller leaves it.
NotifyAvailable(o, pcs) ==
    /\ Answered(o, pcs)
    /\ cancellable' = cancellable \ Woken(o)
    /\ timer' = timer \ Woken(o)

\* A mistake: only the node of the first object is unlinked.
CancelWaitFirst(t, why) ==
    /\ Waiting(t)
    /\ pc' = [pc EXCEPT ![t] = "answered"]
    /\ result' = [result EXCEPT ![t] = why]
    /\ linked' = [o \in Object |-> linked[o] \ {<<t, 1>>}]
    /\ cancellable' = cancellable \ {t}
    /\ timer' = timer \ {t}

\* A wait or a sleep ends early.  (The timer's own handler has removed the task already.)
CancelWait(t, why) ==
    /\ Waiting(t)
    /\ pc' = [pc EXCEPT ![t] = "answered"]
    /\ result' = [result EXCEPT ![t] = why]
    /\ linked' = Unlinked({t})
    /\ cancellable' = IF At(t, "wait") THEN cancellable \ {t} ELSE cancellable
    /\ timer' = timer \ {t}

-----------------------------------------------------------------------------
(* The waiting thread.                                                     *)

\* WaitSynchronization turns the handles into references.
Call(t, list) ==
    /\ At(t, "run")
    /\ \A i \in DOMAIN list : list[i] \notin destroyed
    /\ pc' = [pc EXCEPT ![t] = "call"]
    /\ objs' = [objs EXCEPT ![t] = list]
    /\ UNCHANGED <<linked, signaled, destroyed, cancellable, waitCancelled, timer, terminating,
                   index, result>>

\* Wait returns at once.
Answer(t, why, i) ==
    /\ pc' = [pc EXCEPT ![t] = "answered"]
    /\ result' = [result EXCEPT ![t] = why]
    /\ index' = [index EXCEPT ![t] = i]
    /\ UNCHANGED <<objs, linked, signaled, destroyed, cancellable, timer, terminating>>

WaitRefused(t) ==
    /\ At(t, "call")
    /\ t \in terminating
    /\ Answer(t, "TerminationRequested", NoIndex)
    /\ UNCHANGED waitCancelled

FirstSignaled(t, i) ==
    /\ i \in DOMAIN objs[t]
    /\ objs[t][i] \in signaled
    /\ \A j \in 1 .. i - 1 : objs[t][j] \notin signaled

WaitSignaled(t, i) ==
    /\ At(t, "call")
    /\ t \notin terminating
    /\ FirstSignaled(t, i)
    /\ Answer(t, "Success", i)
    /\ UNCHANGED waitCancelled

\* A mistake: the last object is not looked at.
NothingSignaledButLast(t) ==
    /\ At(t, "call")
    /\ t \notin terminating
    /\ \A i \in 1 .. Len(objs[t]) - 1 : objs[t][i] \notin signaled

NothingSignaled(t) ==
    /\ At(t, "call")
    /\ t \notin terminating
    /\ \A i \in DOMAIN objs[t] : objs[t][i] \notin signaled

\* The time-out is zero.
WaitPoll(t) ==
    /\ NothingSignaled(t)
    /\ Answer(t, "TimedOut", NoIndex)
    /\ UNCHANGED waitCancelled

WaitCancelled(t) ==
    /\ NothingSignaled(t)
    /\ t \in waitCancelled
    /\ waitCancelled' = waitCancelled \ {t}
    /\ Answer(t, "Cancelled", NoIndex)

\* A mistake: a new wait starts afresh.
WaitBeginAfresh(t, timed) ==
    /\ NothingSignaled(t)
    /\ waitCancelled' = waitCancelled \ {t}
    /\ pc' = [pc EXCEPT ![t] = "wait"]
    /\ linked' = [o \in Object |-> linked[o] \cup Nodes(t, o)]
    /\ cancellable' = cancellable \cup {t}
    /\ index' = [index EXCEPT ![t] = NoIndex]
    /\ timer' = IF timed THEN timer \cup {t} ELSE timer
    /\ UNCHANGED <<objs, signaled, destroyed, terminating, result>>

\* The thread waits: timed if the time-out is positive, for ever if it is negative.
WaitBegin(t, timed) ==
    /\ NothingSignaled(t)
    /\ t \notin waitCancelled
    /\ pc' = [pc EXCEPT ![t] = "wait"]
    /\ linked' = [o \in Object |-> linked[o] \cup Nodes(t, o)]
    /\ cancellable' = cancellable \cup {t}
    /\ index' = [index EXCEPT ![t] = NoIndex]
    /\ timer' = IF timed THEN timer \cup {t} ELSE timer
    /\ UNCHANGED <<objs, signaled, destroyed, waitCancelled, terminating, result>>

Sleep(t) ==
    /\ At(t, "run")
    /\ t \notin terminating
    /\ pc' = [pc EXCEPT ![t] = "sleep"]
    /\ timer' = timer \cup {t}
    /\ UNCHANGED <<objs, linked, signaled, destroyed, cancellable, waitCancelled, terminating,
                   index, result>>

\* The call returns: the references are closed, and HandleDpc ends a terminating thread.
\* The result and the index are not read again.
Return(t) ==
    /\ At(t, "answered")
    /\ pc' = [pc EXCEPT ![t] = IF t \in terminating THEN "exiting" ELSE "run"]
    /\ objs' = [objs EXCEPT ![t] = <<>>]
    /\ index' = [index EXCEPT ![t] = NoIndex]
    /\ result' = [result EXCEPT ![t] = "Success"]
    /\ UNCHANGED <<linked, signaled, destroyed, cancellable, waitCancelled, timer, terminating>>

-----------------------------------------------------------------------------
(* The others.                                                             *)

\* KEvent::Signal; nothing happens when the event is signaled or has lost its readable end.
Signal(e) ==
    /\ e \notin signaled
    /\ e \notin destroyed
    /\ signaled' = signaled \cup {e}
    /\ NotifyAvailable(e, pc)
    /\ UNCHANGED <<objs, destroyed, waitCancelled, terminating>>

\* ResetSignal and ClearEvent.
Reset(e) ==
    /\ e \in signaled
    /\ e \notin destroyed
    /\ signaled' = signaled \ {e}
    /\ UNCHANGED <<pc, objs, linked, destroyed, cancellable, waitCancelled, timer, terminating,
                   index, result>>

\* The last reference to the readable end is closed: the waits hold one for each object.
Destroy(e) ==
    /\ e \notin destroyed
    /\ \A t \in Thread : ~Uses(t, e)
    /\ destroyed' = destroyed \cup {e}
    /\ UNCHANGED <<pc, objs, linked, signaled, cancellable, waitCancelled, timer, terminating,
                   index, result>>

\* The timer removes the task and calls the thread's handler.
OnTimer(t) ==
    /\ t \in timer
    /\ IF Waiting(t)
       THEN CancelWait(t, "TimedOut")
       ELSE timer' = timer \ {t} /\ UNCHANGED <<pc, result, linked, cancellable>>
    /\ UNCHANGED <<objs, signaled, destroyed, waitCancelled, terminating, index>>

\* CancelSynchronization: ends the wait, or is kept for the next one.
WaitCancel(t) ==
    /\ IF Waiting(t) /\ t \in cancellable
       THEN /\ waitCancelled' = waitCancelled \ {t}
            /\ CancelWait(t, "Cancelled")
       ELSE /\ waitCancelled' = waitCancelled \cup {t}
            /\ UNCHANGED <<pc, result, linked, cancellable, timer>>
    /\ UNCHANGED <<objs, signaled, destroyed, terminating, index>>

\* A mistake: the thread notices when its wait is over.
RequestTerminateLater(t) ==
    /\ t \notin terminating
    /\ terminating' = terminating \cup {t}
    /\ UNCHANGED <<pc, result, linked, cancellable, timer, objs, signaled, destroyed,
                   waitCancelled, index>>

\* The first request; later ones change nothing.
RequestTerminate(t) ==
    /\ t \notin terminating
    /\ terminating' = terminating \cup {t}
    /\ IF Waiting(t)
       THEN CancelWait(t, "TerminationRequested")
       ELSE UNCHANGED <<pc, result, linked, cancellable, timer>>
    /\ UNCHANGED <<objs, signaled, destroyed, waitCancelled, index>>

\* A running thread calls ExitThread, or is interrupted to terminate.
BeginExit(t) ==
    /\ At(t, "run")
    /\ pc' = [pc EXCEPT ![t] = "exiting"]
    /\ UNCHANGED <<objs, linked, signaled, destroyed, cancellable, waitCancelled, timer,
                   terminating, index, result>>

\* StartTermination: the thread is signaled for ever.
Exit(t) ==
    /\ At(t, "exiting")
    /\ signaled' = signaled \cup {t}
    /\ NotifyAvailable(t, [pc EXCEPT ![t] = "dead"])
    /\ UNCHANGED <<objs, destroyed, waitCancelled, terminating>>

-----------------------------------------------------------------------------
WaitStep(t) ==
    \/ WaitRefused(t)
    \/ \E i \in 1 .. MaxObjects : WaitSignaled(t, i)
    \/ WaitPoll(t)
    \/ WaitCancelled(t)
    \/ \E timed \in BOOLEAN : WaitBegin(t, timed)

ThreadNext(t) ==
    \/ \E list \in ObjectList : Call(t, list)
    \/ WaitStep(t)
    \/ Sleep(t)
    \/ Return(t)
    \/ OnTimer(t)
    \/ WaitCancel(t)
    \/ RequestTerminate(t)
    \/ BeginExit(t)
    \/ Exit(t)

EventNext(e) == Signal(e) \/ Reset(e) \/ Destroy(e)

Next == (\E t \in Thread : ThreadNext(t)) \/ (\E e \in Event : EventNext(e))

Spec == Init /\ [][Next]_vars

\* A running thread goes on, expired timers are handled, and a thread that is asked to
\* terminate is interrupted.
Fairness ==
    \A t \in Thread : /\ WF_vars(WaitStep(t))
                      /\ WF_vars(Return(t))
                      /\ WF_vars(OnTimer(t))
                      /\ WF_vars(t \in terminating /\ BeginExit(t))
                      /\ WF_vars(Exit(t))

FairSpec == Spec /\ Fairness

-----------------------------------------------------------------------------
(* Properties.                                                             *)

\* Every variable keeps its type; in particular an index is one of the caller's objects.
TypeOK ==
    /\ pc \in [Thread -> Place]
    /\ objs \in [Thread -> ObjectList]
    /\ linked \in [Object -> SUBSET (Thread \X (1 .. MaxObjects))]
    /\ signaled \subseteq Object
    /\ destroyed \subseteq Event
    /\ cancellable \subseteq Thread
    /\ waitCancelled \subseteq Thread
    /\ timer \subseteq Thread
    /\ terminating \subseteq Thread
    /\ index \in [Thread -> 0 .. MaxObjects]
    /\ result \in [Thread -> Result]

\* The lists hold the nodes of the threads that wait now and no others: a node lives on the
\* stack of Wait, and is never left in a list by an early end of the wait, nor in the list of
\* an object that is finalized (what the audit in KSynchronizationObject::Finalize looks for).
NodesLive ==
    \A o \in Object :
        /\ linked[o] = UNION {Nodes(t, o) : t \in {u \in Thread : At(u, "wait")}}
        /\ o \in destroyed => linked[o] = {}

\* No thread waits for an object that is signaled: the look at the objects in Wait and the
\* walk of NotifyAvailable leave no gap between them.
NoMissedSignal ==
    \A t \in Thread : At(t, "wait") => \A i \in DOMAIN objs[t] : objs[t][i] \notin signaled

\* The one timer task of a thread is registered only while the thread waits, so that a wait
\* is never ended by the time-out of an earlier one, and a sleeper always has it.
TimerLive ==
    \A t \in Thread : /\ t \in timer => Waiting(t)
                      /\ At(t, "sleep") => t \in timer

\* Nothing a wait has set up outlives it: neither its nodes nor its timer task,
\* however it ends.
NothingOutlivesWait == NodesLive /\ TimerLive

\* A thread asked to terminate does not wait, whatever the order of the request and the
\* thread's entry into Wait or Sleep.
TerminatingNeverWaits == \A t \in Thread : t \in terminating => ~Waiting(t)

\* The inductive invariant.  NodesLive is stated node by node ...
Linked ==
    \A o \in Object, t \in Thread, i \in 1 .. MaxObjects :
        <<t, i>> \in linked[o] <=> At(t, "wait") /\ i \in DOMAIN objs[t] /\ objs[t][i] = o

\* ... the objects of a call are alive, since the call holds references to them ...
Held ==
    \A t \in Thread : At(t, "call") \/ At(t, "wait")
                          => \A i \in DOMAIN objs[t] : objs[t][i] \notin destroyed

\* ... and the waits, not the sleeps, can be cancelled, of threads with no cancellation to be delivered.
CancellableWaits ==
    \A t \in Thread : /\ t \in cancellable <=> At(t, "wait")
                      /\ At(t, "wait") => t \notin waitCancelled

IInv == TypeOK /\ Linked /\ Held /\ CancellableWaits /\ NoMissedSignal /\ TimerLive
            /\ TerminatingNeverWaits

AnswerFirst(t) ==
    (At(t, "call") \/ At(t, "wait")) /\ pc'[t] = "answered" /\ result'[t] = "Success"
        => /\ index'[t] \in DOMAIN objs[t]
           /\ objs[t][index'[t]] \in signaled'
           /\ \A j \in 1 .. index'[t] - 1 : objs[t][j] \notin signaled'

\* A call that succeeds names the first of the caller's objects that is signaled at that
\* moment, even when an object is given twice or the thread had to wait.
AnswersFirstSignaled == [][\A t \in Thread : AnswerFirst(t)]_vars

KeepCancel(t) ==
    t \in waitCancelled /\ t \notin waitCancelled'
        => At(t, "call") /\ pc'[t] = "answered" /\ result'[t] = "Cancelled"

\* A cancellation that found no wait is kept until it ends one: the mark goes only when a
\* wait of that thread answers Cancelled.
CancelNotLost == [][\A t \in Thread : KeepCancel(t)]_vars

KeepSleep(t) == At(t, "sleep") /\ pc'[t] # "sleep" => result'[t] # "Cancelled"

\* CancelSynchronization never ends a sleep: m_cancellable does not outlive the wait it was
\* set for.
SleepNotCancelled == [][\A t \in Thread : KeepSleep(t)]_vars

\* A thread asked to terminate ends, without help from the objects it waits for.
TerminationEnds == \A t \in Thread : t \in terminating ~> At(t, "dead")

====
