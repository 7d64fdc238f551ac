-------------------------- MODULE KAddressArbiter --------------------------
(***************************************************************************)
(* The address arbiter of a process (KAddressArbiter): threads sleep on a  *)
(* word of user memory whose value passes a test, until a signal for its   *)
(* address.  Test and sleep, and signal and update, each happen under the  *)
(* scheduler lock and are one action; user code on other cores writes the  *)
(* words at any time, by atomic instructions.                              *)
(*                                                                         *)
(* Of the red-black tree the part for each address is a sequence, in the   *)
(* order of the tree: by priority, and by arrival within one.              *)
(***************************************************************************)
EXTENDS Integers, Sequences, FiniteSets

CONSTANTS
    Thread,
    Address,
    Accessible,     \* the addresses that are mapped
    Priority,       \* the smaller, the more urgent
    Value,          \* bound: the values callers pass, and store ...
    Count,          \* bound: ... and the counts
    HalfWord        \* 2^31, the values of an s32 are below it

ASSUME ThreadAssumption == IsFiniteSet(Thread)
ASSUME AddressAssumption == Accessible \subseteq Address
ASSUME PriorityAssumption == Priority \subseteq Nat
ASSUME WordAssumption == HalfWord \in Nat \ {0} /\ Value \subseteq -HalfWord..(HalfWord - 1)
ASSUME CountAssumption == Count \subseteq Int

VARIABLES
    word,           \* the words in user memory
    queue,          \* m_tree
    priority,       \* KThread::m_priority
    timer,          \* the sleeping threads that have a timeout
    result          \* what a thread's last call returned, or "Waiting"

arbiterVars == <<word, queue, priority, timer, result>>

Word == -HalfWord..(HalfWord - 1)

\* The build has signed integers wrap.
Wrap(n) == ((n + HalfWord) % (2 * HalfWord)) - HalfWord

ArbiterInit ==
    /\ word \in [Address -> Value]
    /\ queue = [a \in Address |-> <<>>]
    /\ priority \in [Thread -> Priority]
    /\ timer = {}
    /\ result = [t \in Thread |-> "Success"]

\* A thread that runs: it is not asleep, nor asked to terminate.
Running(t) == result[t] \notin {"Waiting", "TerminationRequested"}

Answer(t, r) ==
    /\ result' = [result EXCEPT ![t] = r]
    /\ UNCHANGED <<word, queue, priority, timer>>

-----------------------------------------------------------------------------
(* Signals.                                                                *)

\* The number of threads the loop wakes.
NumWoken(a, count) ==
    IF count <= 0 \/ count > Len(queue[a]) THEN Len(queue[a]) ELSE count

Woken(a, count) == {queue[a][i] : i \in 1..NumWoken(a, count)}

\* The loop that ends the waits, and the caller's success.
EndWaits(t, a, count) ==
    /\ queue' = [queue EXCEPT ![a] = SubSeq(@, NumWoken(a, count) + 1, Len(@))]
    /\ timer' = timer \ Woken(a, count)
    /\ result' = [u \in Thread |-> IF u = t \/ u \in Woken(a, count) THEN "Success" ELSE result[u]]
    /\ UNCHANGED priority

Signal(t, a, count) == EndWaits(t, a, count) /\ UNCHANGED word

\* UpdateIfEqual, and the waits that end if it finds the value.
UpdateAndSignal(t, a, value, new, count) ==
    \/ a \notin Accessible /\ Answer(t, "InvalidCurrentMemory")
    \/ a \in Accessible /\ word[a] # value /\ Answer(t, "InvalidState")
    \/ /\ a \in Accessible /\ word[a] = value
       /\ word' = [word EXCEPT ![a] = new]
       /\ EndWaits(t, a, count)

SignalAndIncrementIfEqual(t, a, value, count) ==
    UpdateAndSignal(t, a, value, Wrap(value + 1), count)

\* The waiters behind the first are counted, up to one more than count.
Followers(a, count) == IF Len(queue[a]) - 1 > count THEN count + 1 ELSE Len(queue[a]) - 1

\* A mutant: the first waiter is counted too.
NewValueAll(a, value, count) ==
    IF queue[a] = <<>> THEN Wrap(value + 1)
    ELSE IF count <= 0 THEN Wrap(value - 2)
    ELSE IF Followers(a, count) + 1 < count THEN Wrap(value - 1)
    ELSE value

NewValue(a, value, count) ==
    IF queue[a] = <<>> THEN Wrap(value + 1)
    ELSE IF count <= 0 THEN Wrap(value - 2)
    ELSE IF Followers(a, count) < count THEN Wrap(value - 1)
    ELSE value

SignalAndModifyByWaitingCountIfEqual(t, a, value, count) ==
    UpdateAndSignal(t, a, value, NewValue(a, value, count), count)

-----------------------------------------------------------------------------
(* Waits.                                                                  *)

\* Thread t enters q, behind those of the same or a more urgent priority.
Insert(q, t, p) ==
    LET n == Cardinality({i \in 1..Len(q) : priority[q[i]] <= p})
    IN  SubSeq(q, 1, n) \o <<t>> \o SubSeq(q, n + 1, Len(q))

Contains(q, t) == \E i \in 1..Len(q) : q[i] = t

\* Thread t leaves q, if it is there.
Erase(q, t) ==
    LET i == CHOOSE j \in 1..Len(q) : q[j] = t
    IN  IF Contains(q, t) THEN SubSeq(q, 1, i - 1) \o SubSeq(q, i + 1, Len(q)) ELSE q

\* A timeout of zero does not wait; one of "none" waits for a signal only.
Sleep(t, a, timeout) ==
    \/ /\ timeout = "zero"
       /\ result' = [result EXCEPT ![t] = "TimedOut"]
       /\ UNCHANGED <<queue, timer, priority>>
    \/ /\ timeout # "zero"
       /\ queue' = [queue EXCEPT ![a] = Insert(@, t, priority[t])]
       /\ timer' = IF timeout = "finite" THEN timer \cup {t} ELSE timer
       /\ result' = [result EXCEPT ![t] = "Waiting"]
       /\ UNCHANGED priority

WaitIfLessThan(t, a, value, decrement, timeout) ==
    \/ a \notin Accessible /\ Answer(t, "InvalidCurrentMemory")
    \/ a \in Accessible /\ word[a] >= value /\ Answer(t, "InvalidState")
    \/ /\ a \in Accessible /\ word[a] < value
       /\ word' = IF decrement THEN [word EXCEPT ![a] = Wrap(@ - 1)] ELSE word
       /\ Sleep(t, a, timeout)

WaitIfEqual(t, a, value, timeout) ==
    \/ a \notin Accessible /\ Answer(t, "InvalidCurrentMemory")
    \/ a \in Accessible /\ word[a] # value /\ Answer(t, "InvalidState")
    \/ /\ a \in Accessible /\ word[a] = value
       /\ Sleep(t, a, timeout)
       /\ UNCHANGED word

\* CancelWait: the thread leaves the tree with result r.
CancelWait(t, r) ==
    /\ queue' = [a \in Address |-> Erase(queue[a], t)]
    /\ timer' = timer \ {t}
    /\ result' = [result EXCEPT ![t] = r]
    /\ UNCHANGED <<word, priority>>

TimeOut(t) == t \in timer /\ CancelWait(t, "TimedOut")

\* A thread that is asked to terminate ends its wait, and begins no other.
RequestTerminate(t) == result[t] # "TerminationRequested" /\ CancelWait(t, "TerminationRequested")

\* A mutant: a waiting thread stays where it is.
SetPriorityInPlace(t, p) ==
    /\ p # priority[t]
    /\ priority' = [priority EXCEPT ![t] = p]
    /\ UNCHANGED <<word, queue, timer, result>>

\* RestorePriority: a waiting thread leaves the tree with the old priority and
\* enters it with the new one.
SetPriority(t, p) ==
    /\ p # priority[t]
    /\ priority' = [priority EXCEPT ![t] = p]
    /\ queue' = [a \in Address |-> IF Contains(queue[a], t) THEN Insert(Erase(queue[a], t), t, p)
                                     ELSE queue[a]]
    /\ UNCHANGED <<word, timer, result>>

-----------------------------------------------------------------------------
\* Any call of a thread for address a.
SystemCall(t, a) ==
    \/ \E count \in Count :
         \/ Signal(t, a, count)
         \/ \E value \in Value : \/ SignalAndIncrementIfEqual(t, a, value, count)
                                 \/ SignalAndModifyByWaitingCountIfEqual(t, a, value, count)
    \/ \E value \in Value, timeout \in {"zero", "finite", "none"} :
         \/ \E decrement \in BOOLEAN : WaitIfLessThan(t, a, value, decrement, timeout)
         \/ WaitIfEqual(t, a, value, timeout)

\* User code stores a value, on another core perhaps.
UserStore(a, v) ==
    /\ word' = [word EXCEPT ![a] = v]
    /\ UNCHANGED <<queue, priority, timer, result>>

\* A process that uses the addresses in A.
ArbiterNext(A) ==
    \/ \E t \in Thread : \/ Running(t) /\ \E a \in A : SystemCall(t, a)
                         \/ TimeOut(t) \/ RequestTerminate(t)
                         \/ \E p \in Priority : SetPriority(t, p)
    \/ \E a \in A \cap Accessible, v \in Value : UserStore(a, v)

\* A process whose threads make any calls, for any addresses.
ArbiterSpec == ArbiterInit /\ [][ArbiterNext(Address)]_arbiterVars

-----------------------------------------------------------------------------
ArbiterTypeOK ==
    /\ word \in [Address -> Word]
    /\ queue \in [Address -> Seq(Thread)]
    /\ priority \in [Thread -> Priority]
    /\ timer \subseteq Thread
    /\ result \in [Thread -> {"Success", "InvalidState", "TimedOut", "InvalidCurrentMemory",
                              "Waiting", "TerminationRequested"}]

\* The tree holds each sleeping thread once, and for each address in the order
\* in which signals are to wake: a change of priority moves a sleeping thread.
TreeOrdered ==
    /\ \A t \in Thread :
         Cardinality({p \in Address \X (1..Cardinality(Thread)) :
                        p[2] <= Len(queue[p[1]]) /\ queue[p[1]][p[2]] = t})
           = IF result[t] = "Waiting" THEN 1 ELSE 0
    /\ \A a \in Address : \A i \in 1..(Len(queue[a]) - 1) :
         priority[queue[a][i]] <= priority[queue[a][i + 1]]

\* What the value that SignalAndModifyByWaitingCountIfEqual stores tells: it
\* stays if waiters are left, falls if the last ones are woken, and rises if
\* there is none, whatever the count and wherever the value wraps.
NewValueTells ==
    \A a \in Address, value \in Value, count \in Count :
        /\ NewValue(a, value, count) = value <=> Len(queue[a]) > NumWoken(a, count)
        /\ NewValue(a, value, count) = Wrap(value + 1) <=> queue[a] = <<>>

=============================================================================
