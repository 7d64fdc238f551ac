---------------------------- MODULE WaiterQueues ----------------------------
(***************************************************************************)
(* What the lists of a KSynchronizationObject promise: each object has a   *)
(* queue of the nodes of its waiters, in the order in which they came; a   *)
(* wait that ends leaves all queues; a notification ends the waits of all  *)
(* threads in the object's queue, and no other.                            *)
(***************************************************************************)
EXTENDS Naturals, Sequences

CONSTANTS Thread, Object, ObjectList

VARIABLES
    queue,          \* of each object: the pairs of nodes, the first of which is not behind the second
    objs, waiting

qvars == <<queue, objs, waiting>>

Members(q) == {p[1] : p \in q}

\* The nodes of a wait of t for list that belong to o.
Entries(t, list, o) == {<<t, i>> : i \in {j \in DOMAIN list : list[j] = o}}

\* The queue q with new nodes of one thread at the end, in their order.
Extended(q, new) ==
    q \cup (Members(q) \X new) \cup {p \in new \X new : p[1][2] <= p[2][2]}

\* The queue q once the threads in S have left it.
Without(q, S) == {p \in q : p[1][1] \notin S /\ p[2][1] \notin S}

QueueInit ==
    /\ queue = [o \in Object |-> {}]
    /\ objs = [t \in Thread |-> <<>>]
    /\ waiting = {}

Join(t) ==
    /\ t \notin waiting
    /\ waiting' = waiting \cup {t}
    /\ \E list \in ObjectList :
           /\ objs' = [objs EXCEPT ![t] = list]
           /\ queue' = [o \in Object |-> Extended(queue[o], Entries(t, list, o))]

Depart(S) ==
    /\ waiting' = waiting \ S
    /\ objs' = [t \in Thread |-> IF t \in S THEN <<>> ELSE objs[t]]
    /\ queue' = [o \in Object |-> Without(queue[o], S)]

NotifyAll(o) == Depart({n[1] : n \in Members(queue[o])})

QueueNext ==
    \/ \E t \in Thread : Join(t)
    \/ \E t \in waiting : Depart({t})
    \/ \E o \in Object : NotifyAll(o)

QueueSpec == QueueInit /\ [][QueueNext]_qvars
====
