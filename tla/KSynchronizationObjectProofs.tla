-------------------- MODULE KSynchronizationObjectProofs --------------------
(***************************************************************************)
(* The waits of KSynchronizationObject, proved for every set of threads    *)
(* and events and every number of objects in a wait.                       *)
(***************************************************************************)
EXTENDS KSynchronizationObject, WellFoundedInduction, TLAPS

\* Leaves are given to the SMT solver, then to Zenon, unless they name their prover.
USE MaxObjectsAssumption, ObjectsAssumption, SMTT(60), SMTT(61), ZenonT(60)

\* A non-empty set of numbers has a least element.
LEMMA Least ==
    ASSUME NEW S \in SUBSET Nat, S # {}
    PROVE  \E m \in S : \A k \in S : ~(k < m)
<1> DEFINE R == {p \in Nat \X Nat : p[1] < p[2]}
<1>1. IsWellFoundedOn(R, Nat)
  BY NatLessThanWellFounded DEF OpToRel
<1>2. \A x, y \in Nat : x < y => <<x, y>> \in R
  OBVIOUS
<1> HIDE DEF R
<1>3. \E x \in S : \A y \in S : ~(<<y, x>> \in R)
  BY ZenonT(60), <1>1, WFMin
<1> QED BY ZenonT(60), <1>2, <1>3

\* What a list of objects is.
LEMMA ListFacts ==
    ASSUME NEW list \in ObjectList
    PROVE  /\ DOMAIN list \subseteq 1 .. MaxObjects
           /\ \A i \in DOMAIN list : list[i] \in Object /\ 1 .. i - 1 \subseteq DOMAIN list
<1>1. PICK n \in 0 .. MaxObjects : list \in [1 .. n -> Object]
  BY DEF ObjectList
<1> QED BY <1>1

\* The empty list is one.
LEMMA EmptyList == <<>> \in ObjectList
<1>1. <<>> \in [1 .. 0 -> Object]
  OBVIOUS
<1> QED BY <1>1 DEF ObjectList

\* The nodes of a wait, node by node.
LEMMA InNodes ==
    ASSUME NEW t \in Thread, NEW o \in Object, NEW u \in Thread, NEW i \in 1 .. MaxObjects
    PROVE  <<u, i>> \in Nodes(t, o) <=> u = t /\ i \in DOMAIN objs[t] /\ objs[t][i] = o
  BY DEF Nodes

\* The lists after the threads in S have left, node by node.
LEMMA InUnlinked ==
    ASSUME TypeOK, NEW S \in SUBSET Thread
    PROVE  /\ Unlinked(S) \in [Object -> SUBSET (Thread \X (1 .. MaxObjects))]
           /\ \A o \in Object, t \in Thread, i \in 1 .. MaxObjects :
                 <<t, i>> \in Unlinked(S)[o]
                     <=> <<t, i>> \in linked[o]
                         /\ ~(t \in S /\ i \in DOMAIN objs[t] /\ objs[t][i] = o)
<1>1. Unlinked(S) \in [Object -> SUBSET (Thread \X (1 .. MaxObjects))]
  BY DEF Unlinked, TypeOK
<1>2. ASSUME NEW o \in Object, NEW t \in Thread, NEW i \in 1 .. MaxObjects
      PROVE  <<t, i>> \in Unlinked(S)[o]
                 <=> <<t, i>> \in linked[o]
                     /\ ~(t \in S /\ i \in DOMAIN objs[t] /\ objs[t][i] = o)
  <2>1. Unlinked(S)[o] = linked[o] \ UNION {Nodes(u, o) : u \in S}
    BY DEF Unlinked
  <2>2. <<t, i>> \in UNION {Nodes(u, o) : u \in S}
            <=> \E u \in S : <<t, i>> \in Nodes(u, o)
    OBVIOUS
  <2> QED BY <2>1, <2>2, InNodes
<1> QED BY <1>1, <1>2

\* NotifyAvailable finds exactly the threads that wait for o.
LEMMA WokenFacts ==
    ASSUME IInv, NEW o \in Object, NEW t \in Thread
    PROVE  t \in Woken(o) <=> At(t, "wait") /\ Uses(t, o)
<1>1. ASSUME t \in Woken(o)
      PROVE  At(t, "wait") /\ Uses(t, o)
  <2>1. PICK n \in linked[o] : n[1] = t /\ At(t, "wait")
    BY <1>1 DEF Woken
  <2>2. n \in Thread \X (1 .. MaxObjects)
    BY DEF IInv, TypeOK
  <2>3. n = <<t, n[2]>> /\ n[2] \in 1 .. MaxObjects
    BY <2>1, <2>2
  <2> QED BY <2>1, <2>3 DEF IInv, Linked, Uses
<1>2. ASSUME At(t, "wait"), Uses(t, o)
      PROVE  t \in Woken(o)
  <2>1. PICK i \in DOMAIN objs[t] : objs[t][i] = o
    BY <1>2 DEF Uses
  <2>2. objs[t] \in ObjectList
    BY DEF IInv, TypeOK
  <2>3. i \in 1 .. MaxObjects
    BY <2>2, ListFacts
  <2>4. <<t, i>> \in linked[o]
    BY <1>2, <2>1, <2>3 DEF IInv, Linked
  <2>5. \E n \in linked[o] : n[1] = t
    BY <2>4
  <2> QED BY <1>2, <2>5 DEF Woken
<1> QED BY <1>1, <1>2

\* The synced index is the first place where o is.
LEMMA SyncIndexFacts ==
    ASSUME TypeOK, NEW t \in Thread, NEW o, Uses(t, o)
    PROVE  /\ SyncIndex(t, o) \in DOMAIN objs[t]
           /\ SyncIndex(t, o) \in 1 .. MaxObjects
           /\ objs[t][SyncIndex(t, o)] = o
           /\ \A j \in 1 .. SyncIndex(t, o) - 1 : objs[t][j] # o
<1>1. objs[t] \in ObjectList
  BY DEF TypeOK
<1>2. /\ DOMAIN objs[t] \subseteq 1 .. MaxObjects
      /\ \A i \in DOMAIN objs[t] : 1 .. i - 1 \subseteq DOMAIN objs[t]
  BY <1>1, ListFacts
<1>3. PICK S : S = {i \in DOMAIN objs[t] : objs[t][i] = o}
  BY ZenonT(60)
<1> S \in SUBSET Nat /\ S # {}
  BY <1>2, <1>3 DEF Uses
<1>4. PICK m \in S : \A k \in S : ~(k < m)
  BY Least
<1>5. m \in DOMAIN objs[t] /\ objs[t][m] = o /\ \A j \in 1 .. m - 1 : objs[t][j] # o
  BY <1>2, <1>3, <1>4
<1>6. SyncIndex(t, o) \in DOMAIN objs[t] /\ objs[t][SyncIndex(t, o)] = o
          /\ \A j \in 1 .. SyncIndex(t, o) - 1 : objs[t][j] # o
  BY <1>5 DEF SyncIndex
<1> QED BY <1>2, <1>6

\* The lists stay right when no thread begins or ends a wait.
LEMMA LinkedKept ==
    ASSUME IInv, UNCHANGED linked,
           \A u \in Thread : /\ pc'[u] = "wait" <=> pc[u] = "wait"
                             /\ pc[u] = "wait" => objs'[u] = objs[u]
    PROVE  Linked'
<1> SUFFICES ASSUME NEW q \in Object, NEW u \in Thread, NEW i \in 1 .. MaxObjects
             PROVE  <<u, i>> \in linked'[q]
                        <=> pc'[u] = "wait" /\ i \in DOMAIN objs'[u] /\ objs'[u][i] = q
  BY ZenonT(60) DEF Linked, At
<1>1. <<u, i>> \in linked[q] <=> pc[u] = "wait" /\ i \in DOMAIN objs[u] /\ objs[u][i] = q
  BY DEF IInv, Linked, At
<1> QED BY <1>1

-----------------------------------------------------------------------------
\* The invariant holds in the initial states.
LEMMA InitIInv == Init => IInv
<1> SUFFICES ASSUME Init PROVE IInv
  OBVIOUS
<1>1. TypeOK
  BY EmptyList DEF Init, TypeOK, Place, Result, NoIndex
<1>2. Linked /\ Held /\ CancellableWaits
  BY DEF Init, Linked, Held, CancellableWaits, At
<1>3. NoMissedSignal /\ TimerLive /\ TerminatingNeverWaits
  BY DEF Init, NoMissedSignal, TimerLive, TerminatingNeverWaits, At, Waiting
<1> QED BY <1>1, <1>2, <1>3 DEF IInv

\* A notification keeps the invariant when it is given with the signal of its object.
LEMMA NotifyStep ==
    ASSUME IInv, NEW o \in Object, NEW pcs \in [Thread -> Place],
           \A t \in Thread : pcs[t] = pc[t] \/ (pc[t] = "exiting" /\ pcs[t] = "dead"),
           NotifyAvailable(o, pcs), signaled' = signaled \cup {o},
           UNCHANGED <<objs, destroyed, waitCancelled, terminating>>
    PROVE  IInv'
<1> DEFINE W == Woken(o)
<1>1. W \in SUBSET Thread
  BY DEF Woken
<1>2. \A t \in Thread : t \in W <=> At(t, "wait") /\ Uses(t, o)
  BY WokenFacts
<1>3. /\ pc' = [t \in Thread |-> IF t \in W THEN "answered" ELSE pcs[t]]
      /\ index' = [t \in Thread |-> IF t \in W THEN SyncIndex(t, o) ELSE index[t]]
      /\ result' = [t \in Thread |-> IF t \in W THEN "Success" ELSE result[t]]
      /\ linked' = Unlinked(W)
      /\ cancellable' = cancellable \ W
      /\ timer' = timer \ W
  BY DEF NotifyAvailable, Answered
<1>4. \A t \in W : SyncIndex(t, o) \in 1 .. MaxObjects
  BY <1>1, <1>2, SyncIndexFacts DEF IInv
<1> HIDE DEF W
<1>5. /\ linked' \in [Object -> SUBSET (Thread \X (1 .. MaxObjects))]
      /\ \A q \in Object, t \in Thread, i \in 1 .. MaxObjects :
            <<t, i>> \in linked'[q]
                <=> <<t, i>> \in linked[q]
                    /\ ~(t \in W /\ i \in DOMAIN objs[t] /\ objs[t][i] = q)
  BY <1>1, <1>3, InUnlinked DEF IInv
<1>6. \A t \in Thread : pc'[t] = IF t \in W THEN "answered" ELSE pcs[t]
  BY <1>3
<1>7. TypeOK'
  <2>1. pc' \in [Thread -> Place]
    BY <1>3 DEF Place
  <2>2. index' \in [Thread -> 0 .. MaxObjects]
    BY <1>3, <1>4 DEF IInv, TypeOK
  <2>3. result' \in [Thread -> Result]
    BY <1>3 DEF IInv, TypeOK, Result
  <2> QED BY <1>3, <1>5, <2>1, <2>2, <2>3 DEF IInv, TypeOK
<1>8. Linked'
  <2> SUFFICES ASSUME NEW q \in Object, NEW t \in Thread, NEW i \in 1 .. MaxObjects
               PROVE  <<t, i>> \in linked'[q]
                          <=> pc'[t] = "wait" /\ i \in DOMAIN objs'[t] /\ objs'[t][i] = q
    BY ZenonT(60) DEF Linked, At
  <2>1. <<t, i>> \in linked[q] <=> pc[t] = "wait" /\ i \in DOMAIN objs[t] /\ objs[t][i] = q
    BY DEF IInv, Linked, At
  <2> QED BY <1>2, <1>5, <1>6, <2>1 DEF At
<1>9. Held'
  BY <1>6 DEF IInv, Held, At
<1>10. CancellableWaits'
  BY <1>2, <1>3, <1>6 DEF IInv, CancellableWaits, At
<1>11. NoMissedSignal'
  BY <1>2, <1>6 DEF IInv, NoMissedSignal, At, Uses
<1>12. TimerLive'
  BY <1>2, <1>3, <1>6 DEF IInv, TimerLive, At, Waiting
<1>13. TerminatingNeverWaits'
  BY <1>6 DEF IInv, TerminatingNeverWaits, At, Waiting
<1> QED BY <1>7, <1>8, <1>9, <1>10, <1>11, <1>12, <1>13 DEF IInv

\* The early end of a wait or a sleep keeps the invariant, also when it delivers a cancellation
\* or a request to terminate.
LEMMA CancelStep ==
    ASSUME IInv, NEW t \in Thread, NEW why \in Result, CancelWait(t, why),
           waitCancelled' \in {waitCancelled, waitCancelled \ {t}},
           terminating' \in {terminating, terminating \cup {t}},
           UNCHANGED <<objs, signaled, destroyed, index>>
    PROVE  IInv'
<1>1. /\ linked' \in [Object -> SUBSET (Thread \X (1 .. MaxObjects))]
      /\ \A q \in Object, u \in Thread, i \in 1 .. MaxObjects :
            <<u, i>> \in linked'[q]
                <=> <<u, i>> \in linked[q]
                    /\ ~(u \in {t} /\ i \in DOMAIN objs[u] /\ objs[u][i] = q)
  BY InUnlinked DEF IInv, CancelWait
<1>2. /\ pc' \in [Thread -> Place]
      /\ \A u \in Thread : pc'[u] = IF u = t THEN "answered" ELSE pc[u]
  BY DEF IInv, TypeOK, CancelWait, Place
<1>3. TypeOK'
  <2>1. result' \in [Thread -> Result]
    BY DEF IInv, TypeOK, CancelWait
  <2>2. /\ cancellable' \subseteq Thread /\ timer' \subseteq Thread
        /\ terminating' \subseteq Thread /\ waitCancelled' \subseteq Thread
    BY DEF IInv, TypeOK, CancelWait
  <2> QED BY <1>1, <1>2, <2>1, <2>2 DEF IInv, TypeOK
<1>4. Linked'
  <2> SUFFICES ASSUME NEW q \in Object, NEW u \in Thread, NEW i \in 1 .. MaxObjects
               PROVE  <<u, i>> \in linked'[q]
                          <=> pc'[u] = "wait" /\ i \in DOMAIN objs'[u] /\ objs'[u][i] = q
    BY ZenonT(60) DEF Linked, At
  <2>1. <<u, i>> \in linked[q] <=> pc[u] = "wait" /\ i \in DOMAIN objs[u] /\ objs[u][i] = q
    BY DEF IInv, Linked, At
  <2> QED BY <1>1, <1>2, <2>1
<1>5. Held'
  BY <1>2 DEF IInv, Held, At
<1>6. CancellableWaits'
  <2>1. \A u \in Thread \ {t} : u \in cancellable' <=> u \in cancellable
    BY DEF CancelWait
  <2>2. t \notin cancellable'
    BY DEF CancelWait, IInv, CancellableWaits, Waiting, At
  <2> QED BY <1>2, <2>1, <2>2 DEF IInv, CancellableWaits, At
<1>7. NoMissedSignal'
  BY <1>2 DEF IInv, NoMissedSignal, At
<1>8. TimerLive'
  BY <1>2 DEF IInv, TimerLive, At, Waiting, CancelWait
<1>9. TerminatingNeverWaits'
  BY <1>2 DEF IInv, TerminatingNeverWaits, At, Waiting
<1> QED BY <1>3, <1>4, <1>5, <1>6, <1>7, <1>8, <1>9 DEF IInv

\* WaitSynchronization's entry keeps the invariant.
LEMMA CallStep ==
    ASSUME IInv, NEW t \in Thread, NEW list \in ObjectList, Call(t, list)
    PROVE  IInv'
<1>1. /\ pc' \in [Thread -> Place] /\ objs' \in [Thread -> ObjectList]
      /\ \A u \in Thread : /\ pc'[u] = IF u = t THEN "call" ELSE pc[u]
                           /\ objs'[u] = IF u = t THEN list ELSE objs[u]
      /\ pc[t] = "run"
  BY DEF IInv, TypeOK, Call, Place, At
<1> USE DEF Call, At
<1>2. TypeOK'
  BY <1>1 DEF IInv, TypeOK
<1>3. Linked'
  BY <1>1, LinkedKept
<1>4. Held'
  BY <1>1 DEF IInv, Held
<1>5. CancellableWaits' /\ NoMissedSignal'
  BY <1>1 DEF IInv, CancellableWaits, NoMissedSignal
<1>6. TimerLive' /\ TerminatingNeverWaits'
  BY <1>1 DEF IInv, TimerLive, TerminatingNeverWaits, Waiting
<1> QED BY <1>2, <1>3, <1>4, <1>5, <1>6 DEF IInv

\* An immediate answer keeps the invariant.
LEMMA AnswerStep ==
    ASSUME IInv, NEW t \in Thread, At(t, "call"), NEW why \in Result, NEW i \in 0 .. MaxObjects,
           Answer(t, why, i), waitCancelled' \in SUBSET waitCancelled
    PROVE  IInv'
<1>1. /\ pc' \in [Thread -> Place]
      /\ \A u \in Thread : pc'[u] = IF u = t THEN "answered" ELSE pc[u]
      /\ pc[t] = "call"
  BY DEF IInv, TypeOK, Answer, Place, At
<1> USE DEF Answer, At
<1>2. TypeOK'
  BY <1>1 DEF IInv, TypeOK
<1>3. Linked'
  BY <1>1, LinkedKept
<1>4. Held'
  BY <1>1 DEF IInv, Held
<1>5. CancellableWaits' /\ NoMissedSignal'
  BY <1>1 DEF IInv, CancellableWaits, NoMissedSignal
<1>6. TimerLive' /\ TerminatingNeverWaits'
  BY <1>1 DEF IInv, TimerLive, TerminatingNeverWaits, Waiting
<1> QED BY <1>2, <1>3, <1>4, <1>5, <1>6 DEF IInv

\* The start of a wait keeps the invariant.
LEMMA WaitBeginStep ==
    ASSUME IInv, NEW t \in Thread, NEW timed \in BOOLEAN, WaitBegin(t, timed)
    PROVE  IInv'
<1>1. /\ pc' \in [Thread -> Place]
      /\ \A u \in Thread : pc'[u] = IF u = t THEN "wait" ELSE pc[u]
      /\ pc[t] = "call" /\ t \notin terminating /\ t \notin waitCancelled
      /\ \A i \in DOMAIN objs[t] : objs[t][i] \notin signaled
      /\ UNCHANGED <<objs, signaled, destroyed, waitCancelled, terminating, result>>
      /\ cancellable' = cancellable \cup {t}
      /\ timer' = IF timed THEN timer \cup {t} ELSE timer
  BY DEF IInv, TypeOK, WaitBegin, NothingSignaled, Place, At
<1>2. \A o \in Object : linked'[o] = linked[o] \cup Nodes(t, o)
  BY DEF WaitBegin
<1>3. \A o \in Object : Nodes(t, o) \subseteq Thread \X (1 .. MaxObjects)
  <2>1. DOMAIN objs[t] \subseteq 1 .. MaxObjects
    <3>1. objs[t] \in ObjectList
      BY DEF IInv, TypeOK
    <3> QED BY <3>1, ListFacts
  <2> QED BY <2>1 DEF Nodes
<1>4. linked' \in [Object -> SUBSET (Thread \X (1 .. MaxObjects))]
  BY <1>3 DEF WaitBegin, IInv, TypeOK
<1>5. index' \in [Thread -> 0 .. MaxObjects]
  BY DEF WaitBegin, IInv, TypeOK, NoIndex
<1>6. timer' \subseteq Thread
  BY <1>1 DEF IInv, TypeOK
<1>7. TypeOK'
  BY <1>1, <1>4, <1>5, <1>6 DEF IInv, TypeOK
<1>8. Linked'
  <2> SUFFICES ASSUME NEW q \in Object, NEW u \in Thread, NEW i \in 1 .. MaxObjects
               PROVE  <<u, i>> \in linked'[q]
                          <=> pc'[u] = "wait" /\ i \in DOMAIN objs'[u] /\ objs'[u][i] = q
    BY ZenonT(60) DEF Linked, At
  <2>1. <<u, i>> \in linked[q] <=> pc[u] = "wait" /\ i \in DOMAIN objs[u] /\ objs[u][i] = q
    BY DEF IInv, Linked, At
  <2>2. <<u, i>> \in Nodes(t, q) <=> u = t /\ i \in DOMAIN objs[t] /\ objs[t][i] = q
    BY InNodes
  <2> QED BY <1>1, <1>2, <2>1, <2>2
<1>9. Held'
  BY <1>1 DEF IInv, Held, At
<1>10. CancellableWaits' /\ NoMissedSignal'
  BY <1>1 DEF IInv, CancellableWaits, NoMissedSignal, At
<1>11. TimerLive' /\ TerminatingNeverWaits'
  BY <1>1 DEF IInv, TimerLive, TerminatingNeverWaits, Waiting, At
<1> QED BY <1>7, <1>8, <1>9, <1>10, <1>11 DEF IInv

\* The start of a sleep keeps the invariant.
LEMMA SleepStep ==
    ASSUME IInv, NEW t \in Thread, Sleep(t)
    PROVE  IInv'
<1>1. /\ pc' \in [Thread -> Place]
      /\ \A u \in Thread : pc'[u] = IF u = t THEN "sleep" ELSE pc[u]
      /\ pc[t] = "run"
  BY DEF IInv, TypeOK, Sleep, Place, At
<1> USE DEF Sleep, At
<1>2. TypeOK'
  BY <1>1 DEF IInv, TypeOK
<1>3. Linked'
  BY <1>1, LinkedKept
<1>4. Held'
  BY <1>1 DEF IInv, Held
<1>5. CancellableWaits' /\ NoMissedSignal'
  BY <1>1 DEF IInv, CancellableWaits, NoMissedSignal
<1>6. TimerLive' /\ TerminatingNeverWaits'
  BY <1>1 DEF IInv, TimerLive, TerminatingNeverWaits, Waiting
<1> QED BY <1>2, <1>3, <1>4, <1>5, <1>6 DEF IInv

\* The return of a call keeps the invariant.
LEMMA ReturnStep ==
    ASSUME IInv, NEW t \in Thread, Return(t)
    PROVE  IInv'
<1>1. /\ pc' \in [Thread -> Place] /\ objs' \in [Thread -> ObjectList]
      /\ pc'[t] \in {"exiting", "run"}
      /\ \A u \in Thread \ {t} : pc'[u] = pc[u] /\ objs'[u] = objs[u]
      /\ pc[t] = "answered"
  BY EmptyList DEF IInv, TypeOK, Return, Place, At
<1> USE DEF Return, At
<1>2. TypeOK'
  BY <1>1 DEF IInv, TypeOK, NoIndex, Result
<1>3. Linked'
  BY <1>1, LinkedKept
<1>4. Held'
  BY <1>1 DEF IInv, Held
<1>5. CancellableWaits' /\ NoMissedSignal'
  BY <1>1 DEF IInv, CancellableWaits, NoMissedSignal
<1>6. TimerLive' /\ TerminatingNeverWaits'
  BY <1>1 DEF IInv, TimerLive, TerminatingNeverWaits, Waiting
<1> QED BY <1>2, <1>3, <1>4, <1>5, <1>6 DEF IInv

\* The beginning of an exit keeps the invariant.
LEMMA BeginExitStep ==
    ASSUME IInv, NEW t \in Thread, BeginExit(t)
    PROVE  IInv'
<1>1. /\ pc' \in [Thread -> Place]
      /\ \A u \in Thread : pc'[u] = IF u = t THEN "exiting" ELSE pc[u]
      /\ pc[t] = "run"
  BY DEF IInv, TypeOK, BeginExit, Place, At
<1> USE DEF BeginExit, At
<1>2. TypeOK'
  BY <1>1 DEF IInv, TypeOK
<1>3. Linked'
  BY <1>1, LinkedKept
<1>4. Held'
  BY <1>1 DEF IInv, Held
<1>5. CancellableWaits' /\ NoMissedSignal'
  BY <1>1 DEF IInv, CancellableWaits, NoMissedSignal
<1>6. TimerLive' /\ TerminatingNeverWaits'
  BY <1>1 DEF IInv, TimerLive, TerminatingNeverWaits, Waiting
<1> QED BY <1>2, <1>3, <1>4, <1>5, <1>6 DEF IInv

\* What only marks a thread, or changes an event nobody waits for, keeps the invariant.
LEMMA MarkStep ==
    ASSUME IInv,
           UNCHANGED <<pc, objs, linked, cancellable, index, result>>,
           signaled' \subseteq signaled, timer' = timer,
           waitCancelled' \subseteq Thread, terminating' \subseteq Thread, destroyed' \subseteq Event,
           \A t \in Thread : At(t, "wait") => t \notin waitCancelled',
           \A t \in Thread : Waiting(t) => t \notin terminating',
           \A t \in Thread : \A o \in destroyed' : o \in destroyed \/ ~Uses(t, o)
    PROVE  IInv'
<1> USE DEF At
<1>1. TypeOK'
  BY DEF IInv, TypeOK
<1>2. Linked'
  BY LinkedKept
<1>3. Held'
  BY DEF IInv, Held, Uses
<1>4. CancellableWaits' /\ NoMissedSignal'
  BY DEF IInv, CancellableWaits, NoMissedSignal
<1>5. TimerLive' /\ TerminatingNeverWaits'
  BY DEF IInv, TimerLive, TerminatingNeverWaits, Waiting
<1> QED BY <1>1, <1>2, <1>3, <1>4, <1>5 DEF IInv

\* The timer's handler keeps the invariant.
LEMMA OnTimerStep ==
    ASSUME IInv, NEW t \in Thread, OnTimer(t)
    PROVE  IInv'
<1>1. Waiting(t)
  BY DEF OnTimer, IInv, TimerLive
<1>2. CancelWait(t, "TimedOut") /\ UNCHANGED <<objs, signaled, destroyed, waitCancelled, terminating, index>>
  BY <1>1 DEF OnTimer
<1> QED BY <1>2, CancelStep DEF Result

\* CancelSynchronization keeps the invariant.
LEMMA WaitCancelStep ==
    ASSUME IInv, NEW t \in Thread, WaitCancel(t)
    PROVE  IInv'
<1>1. CASE Waiting(t) /\ t \in cancellable
  <2>1. CancelWait(t, "Cancelled") /\ waitCancelled' = waitCancelled \ {t}
            /\ UNCHANGED <<objs, signaled, destroyed, terminating, index>>
    BY <1>1 DEF WaitCancel
  <2> QED BY <2>1, CancelStep DEF Result
<1>2. CASE ~(Waiting(t) /\ t \in cancellable)
  <2>1. waitCancelled' = waitCancelled \cup {t}
            /\ UNCHANGED <<pc, result, linked, cancellable, timer, objs, signaled, destroyed,
                           terminating, index>>
    BY <1>2 DEF WaitCancel
  <2>2. ~At(t, "wait")
    BY <1>2 DEF IInv, CancellableWaits, Waiting
  <2> QED BY <2>1, <2>2, MarkStep DEF IInv, TypeOK, CancellableWaits, TerminatingNeverWaits
<1> QED BY <1>1, <1>2

\* A request to terminate keeps the invariant.
LEMMA RequestTerminateStep ==
    ASSUME IInv, NEW t \in Thread, RequestTerminate(t)
    PROVE  IInv'
<1>1. CASE Waiting(t)
  <2>1. CancelWait(t, "TerminationRequested") /\ terminating' = terminating \cup {t}
            /\ UNCHANGED <<objs, signaled, destroyed, waitCancelled, index>>
    BY <1>1 DEF RequestTerminate
  <2> QED BY <2>1, CancelStep DEF Result
<1>2. CASE ~Waiting(t)
  <2>1. terminating' = terminating \cup {t}
            /\ UNCHANGED <<pc, result, linked, cancellable, timer, objs, signaled, destroyed,
                           waitCancelled, index>>
    BY <1>2 DEF RequestTerminate
  <2> QED BY <1>2, <2>1, MarkStep DEF IInv, TypeOK, CancellableWaits, TerminatingNeverWaits
<1> QED BY <1>1, <1>2

\* Signaling an event keeps the invariant.
LEMMA SignalStep ==
    ASSUME IInv, NEW e \in Event, Signal(e)
    PROVE  IInv'
<1>1. PICK pcs \in [Thread -> Place] : pcs = pc
  BY DEF IInv, TypeOK
<1>2. NotifyAvailable(e, pcs)
  BY <1>1 DEF Signal
<1> QED BY <1>1, <1>2, NotifyStep DEF Signal, Object

\* The end of a thread keeps the invariant.
LEMMA ExitStep ==
    ASSUME IInv, NEW t \in Thread, Exit(t)
    PROVE  IInv'
<1>1. PICK pcs \in [Thread -> Place] : pcs = [pc EXCEPT ![t] = "dead"]
  BY ZenonT(60) DEF IInv, TypeOK, Place
<1>2. NotifyAvailable(t, pcs)
  BY <1>1 DEF Exit
<1>3. \A u \in Thread : pcs[u] = pc[u] \/ (pc[u] = "exiting" /\ pcs[u] = "dead")
  BY <1>1 DEF Exit, At, IInv, TypeOK
<1> QED BY <1>2, <1>3, NotifyStep DEF Exit, Object

\* Resetting an event keeps the invariant.
LEMMA ResetStep ==
    ASSUME IInv, NEW e \in Event, Reset(e)
    PROVE  IInv'
  BY MarkStep DEF Reset, IInv, TypeOK, CancellableWaits, TerminatingNeverWaits

\* Destroying the readable end of an event keeps the invariant.
LEMMA DestroyStep ==
    ASSUME IInv, NEW e \in Event, Destroy(e)
    PROVE  IInv'
  BY MarkStep DEF Destroy, IInv, TypeOK, CancellableWaits, TerminatingNeverWaits

\* The looks of Wait, and what they answer, keep the invariant.
LEMMA WaitStepStep ==
    ASSUME IInv, NEW t \in Thread, WaitStep(t)
    PROVE  IInv'
<1>1. CASE WaitRefused(t)
  BY <1>1, AnswerStep DEF WaitRefused, Result, NoIndex
<1>2. CASE \E i \in 1 .. MaxObjects : WaitSignaled(t, i)
  <2>1. PICK i \in 1 .. MaxObjects : WaitSignaled(t, i)
    BY <1>2
  <2>2. i \in 0 .. MaxObjects
    OBVIOUS
  <2> QED BY <2>1, <2>2, AnswerStep DEF WaitSignaled, Result
<1>3. CASE WaitPoll(t)
  BY <1>3, AnswerStep DEF WaitPoll, NothingSignaled, Result, NoIndex
<1>4. CASE WaitCancelled(t)
  BY <1>4, AnswerStep DEF WaitCancelled, NothingSignaled, Result, NoIndex
<1>5. CASE \E timed \in BOOLEAN : WaitBegin(t, timed)
  BY <1>5, WaitBeginStep
<1> QED BY <1>1, <1>2, <1>3, <1>4, <1>5 DEF WaitStep

\* A stuttering step keeps the invariant.
LEMMA StutterStep == IInv /\ UNCHANGED vars => IInv'
<1> SUFFICES ASSUME IInv, UNCHANGED vars PROVE IInv'
  OBVIOUS
<1> QED BY MarkStep DEF vars, IInv, TypeOK, CancellableWaits, TerminatingNeverWaits

\* Every step keeps the invariant.
LEMMA NextIInv == IInv /\ [Next]_vars => IInv'
<1> SUFFICES ASSUME IInv, [Next]_vars PROVE IInv'
  OBVIOUS
<1>1. ASSUME NEW t \in Thread, ThreadNext(t)
      PROVE  IInv'
  BY <1>1, CallStep, WaitStepStep, SleepStep, ReturnStep, OnTimerStep, WaitCancelStep,
     RequestTerminateStep, BeginExitStep, ExitStep DEF ThreadNext
<1>2. ASSUME NEW e \in Event, EventNext(e)
      PROVE  IInv'
  BY <1>2, SignalStep, ResetStep, DestroyStep DEF EventNext
<1>3. CASE UNCHANGED vars
  BY <1>3, StutterStep
<1> QED BY <1>1, <1>2, <1>3 DEF Next

\* The invariant always holds.
LEMMA Invariance == Spec => []IInv
  BY InitIInv, NextIInv, PTL DEF Spec

-----------------------------------------------------------------------------
\* Every reachable state of the waits is well typed.
THEOREM TypeCorrect == Spec => []TypeOK
  BY Invariance, PTL DEF IInv

\* The lists of the objects hold the nodes of the waits in progress and no other: no node
\* outlives the stack frame of its Wait, and no finalized event has one.
THEOREM NodesNeverDangle == Spec => []NodesLive
<1>1. IInv => NodesLive
  <2> SUFFICES ASSUME IInv, NEW o \in Object
               PROVE  /\ linked[o] = UNION {Nodes(t, o) : t \in {u \in Thread : At(u, "wait")}}
                      /\ o \in destroyed => linked[o] = {}
    BY DEF NodesLive
  <2>1. linked[o] \subseteq Thread \X (1 .. MaxObjects)
    BY DEF IInv, TypeOK
  <2>2. \A t \in Thread : DOMAIN objs[t] \subseteq 1 .. MaxObjects
    <3> TAKE t \in Thread
    <3>1. objs[t] \in ObjectList
      BY DEF IInv, TypeOK
    <3> QED BY <3>1, ListFacts
  <2>3. ASSUME NEW t \in Thread, NEW n \in Nodes(t, o)
        PROVE  n \in Thread \X (1 .. MaxObjects)
    <3>1. PICK i \in DOMAIN objs[t] : n = <<t, i>>
      BY <2>3 DEF Nodes
    <3>2. i \in 1 .. MaxObjects
      BY <2>2
    <3> QED BY <3>1, <3>2
  <2>4. ASSUME NEW n \in Thread \X (1 .. MaxObjects)
        PROVE  n \in linked[o]
                   <=> \E t \in {u \in Thread : At(u, "wait")} : n \in Nodes(t, o)
    <3>1. PICK u \in Thread, i \in 1 .. MaxObjects : n = <<u, i>>
      OBVIOUS
    <3>2. ASSUME NEW t \in Thread
          PROVE  n \in Nodes(t, o) <=> u = t /\ i \in DOMAIN objs[t] /\ objs[t][i] = o
      BY <3>1, InNodes
    <3>3. n \in linked[o] <=> At(u, "wait") /\ i \in DOMAIN objs[u] /\ objs[u][i] = o
      BY <3>1 DEF IInv, Linked
    <3> QED BY <3>2, <3>3
  <2>5. linked[o] = UNION {Nodes(t, o) : t \in {u \in Thread : At(u, "wait")}}
    BY <2>1, <2>3, <2>4
  <2>6. ASSUME o \in destroyed, NEW n \in linked[o]
        PROVE  FALSE
    <3>1. PICK u \in Thread, i \in 1 .. MaxObjects : n = <<u, i>>
      BY <2>1, <2>6
    <3>2. At(u, "wait") /\ i \in DOMAIN objs[u] /\ objs[u][i] = o
      BY <2>6, <3>1 DEF IInv, Linked
    <3> QED BY <2>6, <3>2 DEF IInv, Held
  <2> QED BY <2>5, <2>6
<1> QED BY <1>1, Invariance, PTL

\* A thread never waits for an object that is signaled.
THEOREM NoSignalMissed == Spec => []NoMissedSignal
  BY Invariance, PTL DEF IInv

\* A thread's timer task is registered only while the thread waits, and always while it
\* sleeps.
THEOREM TimersMatchWaits == Spec => []TimerLive
  BY Invariance, PTL DEF IInv

\* However a wait ends, its nodes and its timer task are gone.
THEOREM WaitsLeaveNothing == Spec => []NothingOutlivesWait
  BY NodesNeverDangle, TimersMatchWaits, PTL DEF NothingOutlivesWait

\* A thread asked to terminate never waits or sleeps.
THEOREM TerminationWins == Spec => []TerminatingNeverWaits
  BY Invariance, PTL DEF IInv

\* Who is woken by a notification is answered with the first of its signaled objects.
LEMMA NotifyAnswers ==
    ASSUME IInv, NEW o \in Object, NEW pcs \in [Thread -> Place],
           \A u \in Thread : pcs[u] = pc[u] \/ (pc[u] = "exiting" /\ pcs[u] = "dead"),
           NotifyAvailable(o, pcs), signaled' = signaled \cup {o}, NEW t \in Thread
    PROVE  AnswerFirst(t) /\ KeepSleep(t)
<1>1. /\ pc'[t] = IF t \in Woken(o) THEN "answered" ELSE pcs[t]
      /\ index'[t] = IF t \in Woken(o) THEN SyncIndex(t, o) ELSE index[t]
  BY DEF NotifyAvailable, Answered
<1>2. t \in Woken(o) <=> At(t, "wait") /\ Uses(t, o)
  BY WokenFacts
<1>3. CASE t \in Woken(o)
  <2>1. /\ SyncIndex(t, o) \in DOMAIN objs[t]
        /\ objs[t][SyncIndex(t, o)] = o
        /\ \A j \in 1 .. SyncIndex(t, o) - 1 : objs[t][j] # o
    BY <1>2, <1>3, SyncIndexFacts DEF IInv
  <2>2. objs[t] \in ObjectList
    BY DEF IInv, TypeOK
  <2>3. 1 .. SyncIndex(t, o) - 1 \subseteq DOMAIN objs[t]
    BY <2>1, <2>2, ListFacts
  <2>4. \A j \in 1 .. SyncIndex(t, o) - 1 : objs[t][j] \notin signaled
    BY <1>2, <1>3, <2>3 DEF IInv, NoMissedSignal
  <2> QED BY <1>1, <1>2, <1>3, <2>1, <2>4 DEF AnswerFirst, KeepSleep, At
<1>4. CASE t \notin Woken(o)
  BY <1>1, <1>4 DEF AnswerFirst, KeepSleep, At
<1> QED BY <1>3, <1>4

\* A thread that a step leaves where it was has nothing to show.
LEMMA Unmoved ==
    ASSUME NEW t \in Thread, pc'[t] = pc[t]
    PROVE  AnswerFirst(t) /\ KeepSleep(t)
  BY DEF AnswerFirst, KeepSleep, At

\* An early end is no success; only waits are cancelled.
LEMMA CancelAnswers ==
    ASSUME IInv, NEW t \in Thread, NEW u \in Thread, NEW why \in Result \ {"Success"},
           CancelWait(u, why), why = "Cancelled" => u \in cancellable
    PROVE  AnswerFirst(t) /\ KeepSleep(t)
<1>1. CASE t = u
  BY <1>1 DEF CancelWait, AnswerFirst, KeepSleep, At, IInv, TypeOK, CancellableWaits
<1>2. CASE t # u
  <2>1. pc'[t] = pc[t]
    BY <1>2 DEF CancelWait, IInv, TypeOK
  <2> QED BY <2>1, Unmoved
<1> QED BY <1>1, <1>2

\* Every step answers as it should, and ends a sleep for a reason.
LEMMA NextAnswers ==
    ASSUME IInv, Next, NEW t \in Thread
    PROVE  AnswerFirst(t) /\ KeepSleep(t)
<1> USE DEF IInv, TypeOK
<1>1. ASSUME NEW u \in Thread, WaitStep(u)
      PROVE  AnswerFirst(t) /\ KeepSleep(t)
  <2>1. CASE t # u
    <3>1. pc'[t] = pc[t]
      BY <1>1, <2>1 DEF WaitStep, WaitRefused, WaitSignaled, WaitPoll, WaitCancelled, WaitBegin, Answer
    <3> QED BY <3>1, Unmoved
  <2>2. CASE t = u
    <3>1. KeepSleep(t)
      BY <1>1, <2>2 DEF KeepSleep, At, WaitStep, WaitRefused, WaitSignaled, WaitPoll,
                        WaitCancelled, WaitBegin, NothingSignaled
    <3>2. CASE \E i \in 1 .. MaxObjects : WaitSignaled(t, i)
      <4>1. PICK i \in 1 .. MaxObjects : WaitSignaled(t, i)
        BY <3>2
      <4>2. index'[t] = i /\ UNCHANGED signaled /\ FirstSignaled(t, i)
        BY <4>1 DEF WaitSignaled, Answer
      <4> QED BY <3>1, <4>2 DEF AnswerFirst, FirstSignaled
    <3>3. CASE ~ \E i \in 1 .. MaxObjects : WaitSignaled(t, i)
      <4>1. pc'[t] # "answered" \/ result'[t] # "Success"
        BY <1>1, <2>2, <3>3 DEF WaitStep, WaitRefused, WaitPoll, WaitCancelled, WaitBegin, Answer
      <4> QED BY <3>1, <4>1 DEF AnswerFirst
    <3> QED BY <3>2, <3>3
  <2> QED BY <2>1, <2>2
<1>2. ASSUME NEW u \in Thread, NEW list \in ObjectList, Call(u, list)
      PROVE  AnswerFirst(t) /\ KeepSleep(t)
  BY <1>2 DEF Call, AnswerFirst, KeepSleep, At
<1>3. ASSUME NEW u \in Thread, Sleep(u) \/ Return(u) \/ BeginExit(u)
      PROVE  AnswerFirst(t) /\ KeepSleep(t)
  BY <1>3 DEF Sleep, Return, BeginExit, AnswerFirst, KeepSleep, At
<1>4. ASSUME NEW u \in Thread, OnTimer(u)
      PROVE  AnswerFirst(t) /\ KeepSleep(t)
  <2>1. CancelWait(u, "TimedOut")
    BY <1>4 DEF OnTimer, TimerLive
  <2> QED BY <2>1, CancelAnswers DEF Result
<1>5. ASSUME NEW u \in Thread, WaitCancel(u)
      PROVE  AnswerFirst(t) /\ KeepSleep(t)
  <2>1. CASE Waiting(u) /\ u \in cancellable
    BY <1>5, <2>1, CancelAnswers DEF Result, WaitCancel
  <2>2. CASE ~(Waiting(u) /\ u \in cancellable)
    BY <1>5, <2>2, Unmoved DEF WaitCancel
  <2> QED BY <2>1, <2>2
<1>6. ASSUME NEW u \in Thread, RequestTerminate(u)
      PROVE  AnswerFirst(t) /\ KeepSleep(t)
  <2>1. CASE Waiting(u)
    BY <1>6, <2>1, CancelAnswers DEF Result, RequestTerminate
  <2>2. CASE ~Waiting(u)
    BY <1>6, <2>2, Unmoved DEF RequestTerminate
  <2> QED BY <2>1, <2>2
<1>7. ASSUME NEW u \in Thread, Exit(u)
      PROVE  AnswerFirst(t) /\ KeepSleep(t)
  <2>1. PICK pcs \in [Thread -> Place] : pcs = [pc EXCEPT ![u] = "dead"]
    BY ZenonT(60) DEF Place
  <2>2. NotifyAvailable(u, pcs)
    BY <1>7, <2>1 DEF Exit
  <2>3. \A v \in Thread : pcs[v] = pc[v] \/ (pc[v] = "exiting" /\ pcs[v] = "dead")
    BY <1>7, <2>1 DEF Exit, At
  <2> QED BY <1>7, <2>2, <2>3, NotifyAnswers DEF Exit, Object
<1>8. ASSUME NEW e \in Event, Signal(e)
      PROVE  AnswerFirst(t) /\ KeepSleep(t)
  <2>1. PICK pcs \in [Thread -> Place] : pcs = pc
    OBVIOUS
  <2>2. NotifyAvailable(e, pcs)
    BY <1>8, <2>1 DEF Signal
  <2> QED BY <1>8, <2>1, <2>2, NotifyAnswers DEF Signal, Object
<1>9. ASSUME NEW e \in Event, Reset(e) \/ Destroy(e)
      PROVE  AnswerFirst(t) /\ KeepSleep(t)
  BY <1>9, Unmoved DEF Reset, Destroy
<1> QED BY <1>1, <1>2, <1>3, <1>4, <1>5, <1>6, <1>7, <1>8, <1>9 DEF Next, ThreadNext, EventNext

\* Every step keeps a cancellation that it does not deliver.
LEMMA NextKeepsCancel ==
    ASSUME IInv, Next, NEW t \in Thread
    PROVE  KeepCancel(t)
<1> USE DEF KeepCancel
<1>1. ASSUME NEW u \in Thread, WaitStep(u)
      PROVE  KeepCancel(t)
  BY <1>1 DEF WaitStep, WaitRefused, WaitSignaled, WaitPoll, WaitCancelled, NothingSignaled,
              WaitBegin, Answer, At, IInv, TypeOK
<1>2. ASSUME NEW u \in Thread, WaitCancel(u)
      PROVE  KeepCancel(t)
  BY ZenonT(60), <1>2 DEF WaitCancel, IInv, CancellableWaits
<1>3. CASE UNCHANGED waitCancelled
  BY <1>3
<1> QED BY ZenonT(60), <1>1, <1>2, <1>3 DEF Next, ThreadNext, EventNext, Call, Sleep, Return, OnTimer,
           RequestTerminate, BeginExit, Exit, Signal, Reset, Destroy

\* A successful WaitSynchronization names the first of its objects that is signaled.
THEOREM AnswerIsFirst == Spec => AnswersFirstSignaled
<1>1. IInv /\ [Next]_vars => [\A t \in Thread : AnswerFirst(t)]_vars
  BY NextAnswers
<1> QED BY <1>1, Invariance, PTL DEF Spec, AnswersFirstSignaled

\* A cancellation without a wait is kept for the next wait that blocks.
THEOREM CancellationsKept == Spec => CancelNotLost
<1>1. IInv /\ [Next]_vars => [\A t \in Thread : KeepCancel(t)]_vars
  BY NextKeepsCancel
<1> QED BY <1>1, Invariance, PTL DEF Spec, CancelNotLost

\* A cancellation never ends a sleep.
THEOREM SleepsUndisturbed == Spec => SleepNotCancelled
<1>1. IInv /\ [Next]_vars => [\A t \in Thread : KeepSleep(t)]_vars
  BY NextAnswers
<1> QED BY <1>1, Invariance, PTL DEF Spec, SleepNotCancelled
====
