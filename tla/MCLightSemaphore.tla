-------------------------- MODULE MCLightSemaphore --------------------------
(* The address arbiter for TLC, in a process that makes bare calls, uses a *)
(* light event or uses a light semaphore.                                  *)
EXTENDS LightSemaphore, TLC

VARIABLE use

MCValue == {-3, 0, 2}
MCCount == {-1, 1, 2}

Symmetry == Permutations(Thread)

allVars == <<vars, semaphoreVars, use>>

NoEvent == autoClear = TRUE /\ pc = [t \in Thread |-> "idle"] /\ timed = {} /\ overlap = {}
NoSemaphore == count = 0 /\ acquiring = [t \in Thread |-> "none"]

OthersUnused == \A a \in Address \ {EventWord} : word[a] = 0

MCInit ==
    \/ use = "bare" /\ ArbiterInit /\ word = [a \in Address |-> 0] /\ NoEvent /\ NoSemaphore
    \/ use = "event" /\ Init /\ OthersUnused /\ NoSemaphore
    \/ use = "semaphore" /\ SemaphoreInit /\ OthersUnused /\ \A t \in Thread : priority[t] = 1

MCNext ==
    /\ \/ use = "bare" /\ ArbiterNext(Address \ {EventWord}) /\ UNCHANGED <<codeVars, overlap, semaphoreVars>>
       \/ use = "event" /\ Next /\ UNCHANGED semaphoreVars
       \/ use = "semaphore" /\ SemaphoreNext
    /\ UNCHANGED use

MCSpec == MCInit /\ [][MCNext]_allVars

=============================================================================
