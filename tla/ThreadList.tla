----------------------------- MODULE ThreadList -----------------------------
(***************************************************************************)
(* The singly linked lists of KSynchronizationObject, pointer by pointer:  *)
(* LinkNode, UnlinkNode, and the walk of NotifyAvailable, which goes on    *)
(* from nodes that it has just unlinked.  The nodes lie on the stack of    *)
(* the waiting thread, one for each object of its wait; what a node holds  *)
(* after the wait is Garbage.                                              *)
(*                                                                         *)
(* The loops run step by step under the scheduler lock: while phase is not *)
(* idle the lock is held, and only the loop that holds it goes on.         *)
(***************************************************************************)
EXTENDS Naturals, Sequences, FiniteSets

CONSTANTS
    Waiter,         \* the threads
    Waitable,       \* the objects
    MaxNodes,       \* bound: objects in one wait
    Null,           \* nullptr
    Garbage         \* the content of a stack frame that is gone

Node == Waiter \X (1 .. MaxNodes)
WaitList == UNION {[1 .. n -> Waitable] : n \in 0 .. MaxNodes}

ASSUME MaxNodesAssumption == MaxNodes \in Nat
ASSUME WaiterAssumption == IsFiniteSet(Waiter) /\ Null \notin Waiter
ASSUME PointerAssumption == {Null, Garbage} \cap Node = {} /\ Null # Garbage /\ Null \notin Waitable

VARIABLES
    head,           \* m_thread_list_head of an object
    tail,           \* m_thread_list_tail
    next,           \* next of a node
    objects,        \* the objects of the thread's wait
    waiting,        \* the threads in state Waiting
    phase,          \* the loop that runs under the scheduler lock
    who,            \* the thread whose nodes it links or unlinks
    place,          \* the number of the next one
    target,         \* the object that is notified, or Null
    cursor          \* cur_node of NotifyAvailable

listVars == <<head, tail, next, objects, waiting, phase, who, place, target, cursor>>

ListInit ==
    /\ head = [o \in Waitable |-> Null]
    /\ tail = [o \in Waitable |-> Null]
    /\ next = [n \in Node |-> Garbage]
    /\ objects = [t \in Waiter |-> <<>>]
    /\ waiting = {}
    /\ phase = "idle"
    /\ who = Null
    /\ place = 0
    /\ target = Null
    /\ cursor = Null

-----------------------------------------------------------------------------
(* The pointers.                                                           *)

\* One step along the pointers.
Follow(link) == [p \in Node \cup {Null, Garbage} |-> IF p \in Node THEN link[p] ELSE p]

\* Where k steps lead to.
NodeAt(first, link) ==
    LET at[k \in Nat] == IF k = 0 THEN first ELSE Follow(link)[at[k - 1]]
    IN  at

\* The nodes from first on; one more than there are if they form a ring.
ChainFrom(first, link) ==
    LET at == NodeAt(first, link)
    IN  [k \in {j \in 1 .. Cardinality(Node) + 1 : at[j - 1] \in Node} |-> at[k - 1]]

Chain(o) == ChainFrom(head[o], next)

\* A mistake: the node goes to the front.
LinkNodeFront(o, n) ==
    /\ head' = [head EXCEPT ![o] = n]
    /\ tail' = IF tail[o] = Null THEN [tail EXCEPT ![o] = n] ELSE tail
    /\ next' = [next EXCEPT ![n] = head[o]]

\* The new node has next = nullptr.
LinkNode(o, n) ==
    /\ head' = IF tail[o] = Null THEN [head EXCEPT ![o] = n] ELSE head
    /\ next' = IF tail[o] = Null THEN [next EXCEPT ![n] = Null]
                                 ELSE [next EXCEPT ![n] = Null, ![tail[o]] = n]
    /\ tail' = [tail EXCEPT ![o] = n]

\* The search of UnlinkNode ends after k steps.  (If n is not in the list it runs into nullptr.)
Found(c, n, k) == c[k] = n /\ \A j \in 1 .. k - 1 : c[j] # n

\* A mistake: the tail is left alone.
UnlinkNodeTail(o, n) ==
    \E k \in DOMAIN Chain(o) :
        /\ Found(Chain(o), n, k)
        /\ IF k = 1
           THEN head' = [head EXCEPT ![o] = next[n]] /\ UNCHANGED next
           ELSE next' = [next EXCEPT ![Chain(o)[k - 1]] = next[n]] /\ UNCHANGED head
        /\ UNCHANGED tail

\* A plausible change that would be a mistake: the unlinked node is cleared.
UnlinkNodeCleared(o, n) ==
    \E k \in DOMAIN Chain(o) :
        LET prev == IF k = 1 THEN Null ELSE Chain(o)[k - 1]
        IN  /\ Found(Chain(o), n, k)
            /\ head' = IF k = 1 THEN [head EXCEPT ![o] = next[n]] ELSE head
            /\ next' = IF k = 1 THEN [next EXCEPT ![n] = Null]
                                ELSE [next EXCEPT ![prev] = next[n], ![n] = Null]
            /\ tail' = IF tail[o] = n THEN [tail EXCEPT ![o] = prev] ELSE tail

\* n keeps its next pointer.
UnlinkNode(o, n) ==
    \E k \in DOMAIN Chain(o) :
        LET prev == IF k = 1 THEN Null ELSE Chain(o)[k - 1]
        IN  /\ Found(Chain(o), n, k)
            /\ head' = IF k = 1 THEN [head EXCEPT ![o] = next[n]] ELSE head
            /\ next' = IF k = 1 THEN next ELSE [next EXCEPT ![prev] = next[n]]
            /\ tail' = IF tail[o] = n THEN [tail EXCEPT ![o] = prev] ELSE tail

-----------------------------------------------------------------------------
(* The loops.                                                              *)

\* The lock is released: the frames of the threads that do not wait are gone.
FramesOf(w) == [n \in Node |-> IF n[1] \in w THEN next[n] ELSE Garbage]

\* Wait has found nothing signaled, and begins to link.
BeginLinking(t, list) ==
    /\ phase = "idle"
    /\ t \notin waiting
    /\ phase' = "link"
    /\ objects' = [objects EXCEPT ![t] = list]
    /\ who' = t
    /\ place' = 1
    /\ UNCHANGED <<head, tail, next, waiting, target, cursor>>

LinkNext ==
    /\ phase = "link"
    /\ place \in DOMAIN objects[who]
    /\ LinkNode(objects[who][place], <<who, place>>)
    /\ place' = place + 1
    /\ UNCHANGED <<objects, waiting, phase, who, target, cursor>>

\* The thread sleeps, and the lock is free.
BeginWait ==
    /\ phase = "link"
    /\ place \notin DOMAIN objects[who]
    /\ waiting' = waiting \cup {who}
    /\ phase' = "idle"
    /\ who' = Null
    /\ place' = 0
    /\ UNCHANGED <<head, tail, next, objects, target, cursor>>

\* A time-out, a cancellation or a termination ends the wait.
CancelWaiting(t) ==
    /\ phase = "idle"
    /\ t \in waiting
    /\ phase' = "unlink"
    /\ who' = t
    /\ place' = 1
    /\ UNCHANGED <<head, tail, next, objects, waiting, target, cursor>>

\* NotifyAvailable of a signaled object.
NotifyObject(o) ==
    /\ phase = "idle"
    /\ phase' = "walk"
    /\ target' = o
    /\ cursor' = head[o]
    /\ UNCHANGED <<head, tail, next, objects, waiting, who, place>>

\* The thread of the node is told, and ends its wait if it still waits.
Visit ==
    /\ phase = "walk"
    /\ cursor \in Node
    /\ IF cursor[1] \in waiting
       THEN phase' = "unlink" /\ who' = cursor[1] /\ place' = 1 /\ UNCHANGED cursor
       ELSE cursor' = next[cursor] /\ UNCHANGED <<phase, who, place>>
    /\ UNCHANGED <<head, tail, next, objects, waiting, target>>

UnlinkNext ==
    /\ phase = "unlink"
    /\ place \in DOMAIN objects[who]
    /\ UnlinkNode(objects[who][place], <<who, place>>)
    /\ place' = place + 1
    /\ UNCHANGED <<objects, waiting, phase, who, target, cursor>>

\* The thread is runnable; the walk, if it is one, goes on from the unlinked node.
EndWait ==
    /\ phase = "unlink"
    /\ place \notin DOMAIN objects[who]
    /\ waiting' = waiting \ {who}
    /\ objects' = [objects EXCEPT ![who] = <<>>]
    /\ who' = Null
    /\ place' = 0
    /\ IF target = Null
       THEN phase' = "idle" /\ next' = FramesOf(waiting') /\ UNCHANGED cursor
       ELSE phase' = "walk" /\ cursor' = next[cursor] /\ UNCHANGED next
    /\ UNCHANGED <<head, tail, target>>

NotifyDone ==
    /\ phase = "walk"
    /\ cursor = Null
    /\ phase' = "idle"
    /\ target' = Null
    /\ next' = FramesOf(waiting)
    /\ UNCHANGED <<head, tail, objects, waiting, who, place, cursor>>

ListNext ==
    \/ \E t \in Waiter, list \in WaitList : BeginLinking(t, list)
    \/ LinkNext
    \/ BeginWait
    \/ \E t \in Waiter : CancelWaiting(t)
    \/ \E o \in Waitable : NotifyObject(o)
    \/ Visit
    \/ UnlinkNext
    \/ EndWait
    \/ NotifyDone

ListSpec == ListInit /\ [][ListNext]_listVars

-----------------------------------------------------------------------------
(* Properties.                                                             *)

\* The nodes of t's wait that are linked: all of them, or those that the loop has linked or
\* has not yet unlinked.
Placed(t) ==
    IF t = who THEN {i \in DOMAIN objects[t] : IF phase = "link" THEN i < place ELSE i >= place}
    ELSE IF t \in waiting THEN DOMAIN objects[t] ELSE {}

\* q is the list from first to last.
Joined(first, last, link, q) ==
    /\ first = IF q = <<>> THEN Null ELSE q[1]
    /\ last = IF q = <<>> THEN Null ELSE q[Len(q)]
    /\ \A k \in 1 .. Len(q) : link[q[k]] = IF k = Len(q) THEN Null ELSE q[k + 1]
    /\ \A j, k \in 1 .. Len(q) : q[j] = q[k] => j = k

\* The chain from the head of an object's list has each node once, ends with nullptr, never
\* in the stack frame of a thread that no longer waits, and at the tail that LinkNode will
\* append to.  Its nodes are those of the waits for the object, no more and no fewer, also
\* while a loop links or unlinks.
ListIntact ==
    \A o \in Waitable :
        LET c == Chain(o)
        IN  /\ Joined(head[o], tail[o], next, c)
            /\ \A t \in Waiter, i \in 1 .. MaxNodes :
                   (\E k \in DOMAIN c : c[k] = <<t, i>>) <=> i \in Placed(t) /\ objects[t][i] = o

\* The threads that leave: as soon as a loop begins to unlink them, or a walk is to reach them.
Leaving ==
    {t \in waiting : t = who \/ \E i \in DOMAIN objects[t] : objects[t][i] = target}

Settled == waiting \ Leaving

\* The order of the nodes in c of the threads in S.
OrderOf(S) ==
    [c \in Seq(Node) |->
        LET stays == {k \in DOMAIN c : c[k][1] \in S}
        IN  {<<c[p[1]], c[p[2]]>> : p \in {p \in stays \X stays : p[1] <= p[2]}}]

Queues == [o \in Waitable |-> OrderOf(Settled)[Chain(o)]]
Waits == [t \in Waiter |-> IF t \in Settled THEN objects[t] ELSE <<>>]

Q == INSTANCE WaiterQueues WITH
         Thread <- Waiter, Object <- Waitable, ObjectList <- WaitList,
         queue <- Queues, objs <- Waits, waiting <- Settled

\* The linked lists are the queues of waiters that KSynchronizationObject needs: a wait joins
\* at the end, and leaves all lists when it ends; a notification is one step, although its
\* walk goes over nodes that it unlinks and a thread may be linked twice.
ImplementsQueues == Q!QueueSpec

\* What a step of a walk may do.
WalkStep ==
    target # Null =>
        /\ cursor' # cursor =>
               \/ cursor' = head[target]
               \/ cursor' \in Node /\ cursor'[1] = cursor[1] /\ cursor'[2] > cursor[2]
        /\ waiting' # waiting => \E t \in waiting : waiting' = waiting \ {t} /\ cursor[1] = t
        /\ target' = Null => Chain(target) = <<>>

\* The walk of NotifyAvailable gets on: from a node to a later one of the same thread, or to
\* the head of what is left of the list; it wakes the thread of the node it stands on, and
\* ends when no one is left.
NotifiesExactly == [][WalkStep]_listVars
====
