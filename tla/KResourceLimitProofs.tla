------------------------ MODULE KResourceLimitProofs ------------------------
(***************************************************************************)
(* KResourceLimit's accounting and its waits, proved for every finite set  *)
(* of threads and every range of values.                                   *)
(***************************************************************************)
EXTENDS KResourceLimit, FiniteSetTheorems, TLAPS

\* Leaves are given to the SMT solver, then to Zenon, unless they name their prover.
USE ThreadAssumption, ResourceAssumption, ValueAssumption, SMTT(60), SMTT(61), ZenonT(60)

\* The threads m_waiter_count counts.
Busy == {t \in Thread : state[t] # "running"}

\* Busy is finite, and empty when m_waiter_count is 0.
LEMMA BusyFacts ==
    ASSUME IInv
    PROVE  /\ IsFiniteSet(Busy)
           /\ waiterCount = Cardinality(Busy)
           /\ waiterCount = 0 => waitList = {}
<1>1. IsFiniteSet(Busy)
  BY FS_Subset DEF Busy
<1>2. waiterCount = Cardinality(Busy)
  BY DEF Busy, IInv, WaitersCounted
<1>3. waiterCount = 0 => Busy = {}
  BY ZenonT(60), <1>1, <1>2, FS_EmptySet
<1> QED BY <1>1, <1>2, <1>3 DEF Busy, IInv, WaitersCounted

\* The invariant holds in the initial states.
LEMMA InitIInv == Init => IInv
<1> SUFFICES ASSUME Init PROVE IInv
  OBVIOUS
<1>1. TypeOK /\ RequestsKnown
  <2>1. \A r \in Resource : limit[r] < HalfRange
    BY DEF Init
  <2> QED BY <2>1 DEF Init, TypeOK, RequestsKnown
<1>2. Conservation /\ ValuesOrdered
  BY DEF Init, Conservation, ValuesOrdered
<1>3. WaitersCounted
  <2>1. {t \in Thread : state[t] # "running"} = {}
    BY DEF Init
  <2> QED BY <2>1, FS_EmptySet DEF Init, WaitersCounted
<1>4. NoMissedRelease /\ SleepersAwaitRelease
  BY DEF Init, NoMissedRelease, SleepersAwaitRelease
<1> QED BY <1>1, <1>2, <1>3, <1>4 DEF IInv

\* Wait, and the return from Reserve, keep the count: n counts the waiters other
\* than t.
LEMMA TurnCounts ==
    ASSUME IInv, NEW t \in Thread \ waitList, NEW n, n = Cardinality(Busy \ {t}),
           \/ Return(t, n)
           \/ Wait(t) /\ waiterCount' = n + 1
    PROVE  WaitersCounted' /\ waiterCount' \in Nat
<1>1. IsFiniteSet(Busy \ {t}) /\ n \in Nat
  BY BusyFacts, FS_RemoveElement, FS_CardinalityType
<1>2. CASE Return(t, n)
  <2>1. Busy' = Busy \ {t} /\ waitList' = {u \in Thread : state'[u] = "sleeping"}
    BY <1>2 DEF Return, Busy, IInv, TypeOK, WaitersCounted
  <2>2. waiterCount' = Cardinality(Busy')
    BY <1>2, <2>1 DEF Return
  <2> QED BY <1>1, <1>2, <2>1, <2>2 DEF Return, Busy, WaitersCounted
<1>3. CASE Wait(t) /\ waiterCount' = n + 1
  <2>1. Busy' = (Busy \ {t}) \cup {t} /\ waitList' = {u \in Thread : state'[u] = "sleeping"}
    BY <1>3 DEF Wait, Busy, IInv, TypeOK, WaitersCounted
  <2>2. Cardinality(Busy') = n + 1
    BY ZenonT(60), <1>1, <2>1, FS_AddElement
  <2> QED BY <1>1, <1>3, <2>1, <2>2 DEF Busy, WaitersCounted
<1> QED BY <1>2, <1>3

\* Reserve's return without a reservation keeps the invariant.
LEMMA ReturnStep ==
    ASSUME IInv, NEW t \in Thread \ waitList, NEW n, n = Cardinality(Busy \ {t}),
           Return(t, n), UNCHANGED <<limitVars, historyVars>>
    PROVE  IInv'
<1>1. WaitersCounted' /\ waiterCount' \in Nat
  BY TurnCounts
<1>2. TypeOK'
  BY <1>1 DEF Return, limitVars, historyVars, IInv, TypeOK
<1>3. RequestsKnown'
  BY DEF Return, limitVars, IInv, TypeOK, RequestsKnown
<1>4. Conservation' /\ ValuesOrdered'
  BY DEF limitVars, historyVars, IInv, Conservation, ValuesOrdered
<1>5. NoMissedRelease' /\ SleepersAwaitRelease'
  <2> SUFFICES ASSUME NEW u \in waitList
               PROVE  /\ Fits(which[u], amount[u])' => raised'[u]
                      /\ hints'[which'[u]] < current'[which'[u]]
    BY DEF Return, NoMissedRelease, SleepersAwaitRelease
  <2>1. which'[u] = which[u] /\ amount'[u] = amount[u] /\ raised'[u] = raised[u]
    BY DEF Return, IInv, TypeOK
  <2>2. UNCHANGED <<limit, current, hints>>
    BY DEF limitVars
  <2> QED BY <2>1, <2>2 DEF Fits, IInv, NoMissedRelease, SleepersAwaitRelease
<1> QED BY <1>1, <1>2, <1>3, <1>4, <1>5 DEF IInv

\* One turn of Reserve's loop keeps the invariant.
LEMMA TurnStep ==
    ASSUME IInv, NEW t \in Thread \ waitList, NEW r \in Resource, NEW v \in Value,
           NEW n, n = Cardinality(Busy \ {t}), Turn(t, r, v, n)
    PROVE  IInv'
<1>0. /\ limit[r] \in Nat /\ limit[r] < HalfRange /\ v \in Nat /\ v < HalfRange
      /\ current[r] \in Nat /\ hints[r] \in Nat /\ hints[r] <= current[r]
      /\ current[r] <= peak[r] /\ peak[r] <= limit[r] /\ peak[r] \in Nat
  BY DEF IInv, TypeOK, RequestsKnown, ValuesOrdered
<1>1. CASE Grant(t, r, v, n)
  <2>1. v > 0 /\ current[r] + v <= limit[r]
    BY <1>0, <1>1 DEF Grant, Fits, WrapSum
  <2>2. WaitersCounted' /\ waiterCount' \in Nat
    BY <1>1, TurnCounts DEF Grant
  <2>3. TypeOK'
    <3>1. current' \in [Resource -> Int] /\ hints' \in [Resource -> Int]
      BY <1>0, <1>1 DEF Grant, IInv, TypeOK
    <3>2. peak' \in [Resource -> Nat] /\ reserved' \in [Resource -> Nat]
      BY <1>0, <1>1 DEF Grant, Max2, IInv, TypeOK
    <3> QED BY <1>1, <2>2, <3>1, <3>2 DEF Grant, Return, IInv, TypeOK
  <2>4. RequestsKnown'
    BY <1>1 DEF Grant, Return, IInv, TypeOK, RequestsKnown
  <2>5. Conservation'
    BY <1>1 DEF Grant, IInv, TypeOK, Conservation
  <2>6. ValuesOrdered'
    BY <1>0, <1>1, <2>1 DEF Grant, Max2, IInv, TypeOK, ValuesOrdered
  <2>7. NoMissedRelease' /\ SleepersAwaitRelease'
    <3> SUFFICES ASSUME NEW u \in waitList
                 PROVE  /\ Fits(which[u], amount[u])' => raised'[u]
                        /\ hints'[which'[u]] < current'[which'[u]]
      BY <1>1 DEF Grant, Return, NoMissedRelease, SleepersAwaitRelease
    <3>1. u # t /\ which'[u] = which[u] /\ amount'[u] = amount[u] /\ raised'[u] = raised[u]
      BY <1>1 DEF Grant, Return, IInv, TypeOK
    <3>2. which[u] \in Resource /\ amount[u] \in Value /\ amount[u] \in Nat
      BY DEF IInv, TypeOK, WaitersCounted, RequestsKnown
    <3>3. CASE which[u] # r
      BY <1>1, <3>1, <3>2, <3>3
         DEF Grant, Fits, IInv, TypeOK, NoMissedRelease, SleepersAwaitRelease
    <3>4. CASE which[u] = r
      <4>1. /\ current'[r] = current[r] + v /\ hints'[r] = hints[r] + v
            /\ limit'[r] = limit[r]
        BY <1>1 DEF Grant, IInv, TypeOK
      <4>2. Fits(which[u], amount[u])' => Fits(which[u], amount[u])
        BY <1>0, <2>1, <3>1, <3>2, <3>4, <4>1 DEF Fits, WrapSum
      <4> QED BY <1>0, <3>1, <3>4, <4>1, <4>2 DEF IInv, NoMissedRelease, SleepersAwaitRelease
    <3> QED BY <3>3, <3>4
  <2> QED BY <2>2, <2>3, <2>4, <2>5, <2>6, <2>7 DEF IInv
<1>2. CASE Refuse(t, r, v, n)
  BY <1>2, ReturnStep DEF Refuse
<1>3. CASE Sleep(t, r, v, n)
  <2>1. WaitersCounted' /\ waiterCount' \in Nat
    BY ZenonT(60), <1>3, TurnCounts DEF Sleep
  <2>2. TypeOK'
    <3>1. which' \in [Thread -> Resource \cup {NoResource}] /\ amount' \in [Thread -> Nat]
      BY <1>0, <1>3 DEF Sleep, IInv, TypeOK
    <3>2. /\ state' \in [Thread -> {"running", "sleeping", "woken"}]
          /\ raised' \in [Thread -> BOOLEAN] /\ waitList' \subseteq Thread
      BY <1>3 DEF Sleep, Wait, IInv, TypeOK
    <3> QED BY <1>3, <2>1, <3>1, <3>2 DEF Sleep, limitVars, historyVars, IInv, TypeOK
  <2>3. RequestsKnown'
    BY <1>3 DEF Sleep, Wait, limitVars, IInv, TypeOK, RequestsKnown
  <2>4. Conservation' /\ ValuesOrdered'
    BY <1>3 DEF Sleep, limitVars, historyVars, IInv, Conservation, ValuesOrdered
  <2>5. hints[r] < current[r] /\ ~Fits(r, v)
    BY <1>0, <1>3 DEF Sleep, WorthWaiting, Fits, WrapSum
  <2>6. NoMissedRelease' /\ SleepersAwaitRelease'
    <3> SUFFICES ASSUME NEW u \in waitList'
                 PROVE  /\ Fits(which[u], amount[u])' => raised'[u]
                        /\ hints'[which'[u]] < current'[which'[u]]
      BY DEF NoMissedRelease, SleepersAwaitRelease
    <3>1. UNCHANGED <<limit, current, hints>>
      BY <1>3 DEF Sleep, limitVars
    <3>2. CASE u = t
      <4>1. which'[u] = r /\ amount'[u] = v
        BY <1>3, <3>2 DEF Sleep, IInv, TypeOK
      <4> QED BY <2>5, <3>1, <4>1 DEF Fits
    <3>3. CASE u # t
      <4>1. u \in waitList /\ u \in Thread
        BY <1>3, <3>3 DEF Sleep, Wait, IInv, TypeOK
      <4>2. which'[u] = which[u] /\ amount'[u] = amount[u] /\ raised'[u] = raised[u]
        BY <1>3, <3>3, <4>1 DEF Sleep, Wait, IInv, TypeOK
      <4> QED BY <3>1, <4>1, <4>2 DEF Fits, IInv, NoMissedRelease, SleepersAwaitRelease
    <3> QED BY <3>2, <3>3
  <2> QED BY <2>1, <2>2, <2>3, <2>4, <2>6 DEF IInv
<1> QED BY <1>1, <1>2, <1>3 DEF Turn

\* Broadcast, or its absence when no waiter is counted, leaves no one asleep and
\* the count right.
LEMMA WakeAll ==
    ASSUME IInv, UNCHANGED waiterCount,
           IF waiterCount # 0 THEN Broadcast ELSE UNCHANGED <<waitList, state>>
    PROVE  /\ waitList' = {}
           /\ WaitersCounted'
           /\ state' \in [Thread -> {"running", "sleeping", "woken"}]
           /\ \A t \in Thread : state'[t] # "running" => state[t] # "running"
<1>1. CASE waiterCount # 0
  <2>1. state' = [t \in Thread |-> IF t \in waitList THEN "woken" ELSE state[t]]
    BY <1>1 DEF Broadcast
  <2>2. \A t \in Thread : state'[t] # "sleeping" /\ (state'[t] # "running" <=> state[t] # "running")
    BY <2>1 DEF IInv, TypeOK, WaitersCounted
  <2>3. {t \in Thread : state'[t] # "running"} = {t \in Thread : state[t] # "running"}
    BY <2>2
  <2>4. waitList' = {} /\ {t \in Thread : state'[t] = "sleeping"} = {}
    BY <1>1, <2>2 DEF Broadcast
  <2>5. WaitersCounted'
    BY <2>3, <2>4 DEF IInv, WaitersCounted
  <2> QED BY <2>1, <2>2, <2>4, <2>5 DEF IInv, TypeOK
<1>2. CASE waiterCount = 0
  <2>1. UNCHANGED <<waitList, state>> /\ waitList = {}
    BY <1>2, BusyFacts
  <2> QED BY <2>1 DEF IInv, TypeOK, WaitersCounted
<1>3. waiterCount \in Nat
  BY DEF IInv, TypeOK
<1> QED BY <1>1, <1>2

\* Each form of Release keeps the invariant: v of the value and h of the hint are
\* given back, and the history says of what.
LEMMA ReleaseStep ==
    ASSUME IInv, NEW r \in Resource, NEW v \in Nat, NEW h \in Nat, NEW a \in Int, NEW b \in Int,
           Release(r, v, h),
           reserved' = [reserved EXCEPT ![r] = a], ending' = [ending EXCEPT ![r] = b],
           a >= 0, b >= 0, a = reserved[r] - h, a + b = reserved[r] + ending[r] - v
    PROVE  IInv'
<1>0. /\ current' = [current EXCEPT ![r] = current[r] - v]
      /\ hints' = [hints EXCEPT ![r] = hints[r] - h]
      /\ UNCHANGED <<limit, peak, waiterCount, which, amount, expired, terminating, raised>>
  BY DEF Release
<1>1. /\ waitList' = {} /\ WaitersCounted'
      /\ state' \in [Thread -> {"running", "sleeping", "woken"}]
      /\ \A t \in Thread : state'[t] # "running" => state[t] # "running"
  BY WakeAll DEF Release
<1>2. TypeOK'
  <2>1. current' \in [Resource -> Int] /\ hints' \in [Resource -> Int]
    BY <1>0 DEF IInv, TypeOK
  <2>2. reserved' \in [Resource -> Nat] /\ ending' \in [Resource -> Nat]
    BY DEF IInv, TypeOK
  <2> QED BY <1>0, <1>1, <2>1, <2>2 DEF IInv, TypeOK
<1>3. RequestsKnown'
  BY <1>0, <1>1 DEF IInv, RequestsKnown
<1>4. Conservation'
  BY <1>0 DEF IInv, TypeOK, Conservation
<1>5. ValuesOrdered'
  <2> SUFFICES ASSUME NEW q \in Resource
               PROVE  /\ 0 <= hints'[q] /\ hints'[q] <= current'[q]
                      /\ current'[q] <= peak'[q] /\ peak'[q] <= limit'[q]
    BY DEF ValuesOrdered
  <2>1. CASE q # r
    BY <1>0, <2>1 DEF IInv, TypeOK, ValuesOrdered
  <2>2. CASE q = r
    <3>1. hints'[r] = a /\ current'[r] = a + b
      BY <1>0 DEF IInv, TypeOK, Conservation
    <3>2. current'[r] <= current[r] /\ current[r] \in Int
      BY <1>0 DEF IInv, TypeOK
    <3> QED BY <1>0, <2>2, <3>1, <3>2 DEF IInv, TypeOK, ValuesOrdered
  <2> QED BY <2>1, <2>2
<1>6. NoMissedRelease' /\ SleepersAwaitRelease'
  BY <1>1 DEF NoMissedRelease, SleepersAwaitRelease
<1> QED BY <1>1, <1>2, <1>3, <1>4, <1>5, <1>6 DEF IInv

\* The timer and a termination request end a wait without an effect on the values.
LEMMA CancelStep ==
    ASSUME IInv, NEW t \in Thread,
           IF state[t] = "sleeping" THEN CancelWait(t) ELSE UNCHANGED <<waitList, state>>,
           UNCHANGED <<limitVars, historyVars, waiterCount, which, amount, raised>>,
           expired' \in [Thread -> BOOLEAN], terminating' \in [Thread -> BOOLEAN]
    PROVE  IInv'
<1>0. /\ UNCHANGED <<limit, current, hints, peak, reserved, ending, waiterCount>>
      /\ UNCHANGED <<which, amount, raised>>
  BY DEF limitVars, historyVars
<1>1. /\ state' \in [Thread -> {"running", "sleeping", "woken"}]
      /\ \A u \in Thread : state'[u] # "running" <=> state[u] # "running"
      /\ waitList' \subseteq waitList
      /\ waitList' = {u \in Thread : state'[u] = "sleeping"}
  BY DEF CancelWait, IInv, TypeOK, WaitersCounted
<1>2. WaitersCounted'
  <2>1. {u \in Thread : state'[u] # "running"} = {u \in Thread : state[u] # "running"}
    BY <1>1
  <2> QED BY <1>0, <1>1, <2>1 DEF IInv, WaitersCounted
<1>3. TypeOK' /\ RequestsKnown'
  BY <1>0, <1>1 DEF IInv, TypeOK, RequestsKnown
<1>4. Conservation' /\ ValuesOrdered'
  BY <1>0 DEF IInv, Conservation, ValuesOrdered
<1>5. NoMissedRelease' /\ SleepersAwaitRelease'
  BY <1>0, <1>1 DEF Fits, IInv, NoMissedRelease, SleepersAwaitRelease
<1> QED BY <1>2, <1>3, <1>4, <1>5 DEF IInv

\* SetLimitValue keeps the invariant: a waiter that fits only now is marked raised.
LEMMA SetLimitStep ==
    ASSUME IInv, NEW r \in Resource, NEW v \in LimitValue, SetLimitValue(r, v)
    PROVE  IInv'
<1>0. v \in Nat /\ v < HalfRange /\ current[r] <= v
  BY DEF SetLimitValue
<1>1. /\ limit' = [limit EXCEPT ![r] = v] /\ peak' = [peak EXCEPT ![r] = current[r]]
      /\ raised' = [t \in Thread |-> raised[t] \/ (t \in waitList /\ v > limit[r])]
      /\ UNCHANGED <<current, hints, waiterCount, waitList, state, which, amount>>
      /\ UNCHANGED <<expired, terminating, reserved, ending>>
  BY DEF SetLimitValue, historyVars
<1>2. TypeOK' /\ RequestsKnown'
  <2>1. current[r] \in Nat
    BY DEF IInv, TypeOK, Conservation
  <2>2. limit' \in [Resource -> Nat] /\ peak' \in [Resource -> Nat] /\ raised' \in [Thread -> BOOLEAN]
    BY <1>0, <1>1, <2>1 DEF IInv, TypeOK
  <2>3. TypeOK'
    BY ZenonT(60), <1>1, <2>2 DEF IInv, TypeOK
  <2>4. \A s \in Resource : limit'[s] < HalfRange
    <3>1. limit \in [Resource -> Nat] /\ \A s \in Resource : limit[s] < HalfRange
      BY DEF IInv, TypeOK, RequestsKnown
    <3> QED BY <1>0, <1>1, <3>1
  <2>5. RequestsKnown'
    BY ZenonT(60), <1>1, <2>4 DEF IInv, RequestsKnown
  <2> QED BY <2>3, <2>5
<1>u. UNCHANGED <<current, hints, waiterCount, waitList, state, which, amount, reserved, ending>>
  BY <1>1
<1>3. Conservation' /\ WaitersCounted' /\ SleepersAwaitRelease'
  <2>1. Conservation'
    BY ZenonT(60), <1>u DEF IInv, Conservation
  <2>2. WaitersCounted'
    BY ZenonT(60), <1>u DEF IInv, WaitersCounted
  <2>3. SleepersAwaitRelease'
    BY ZenonT(60), <1>u DEF IInv, SleepersAwaitRelease
  <2> QED BY <2>1, <2>2, <2>3
<1>4. ValuesOrdered'
  BY <1>0, <1>1 DEF IInv, TypeOK, ValuesOrdered
<1>5. NoMissedRelease'
  <2> SUFFICES ASSUME NEW u \in waitList, Fits(which[u], amount[u])' PROVE raised'[u]
    BY ZenonT(60), <1>1 DEF NoMissedRelease
  <2>1. u \in Thread /\ which[u] \in Resource
    BY DEF IInv, TypeOK, WaitersCounted, RequestsKnown
  <2>2. raised'[u] <=> (raised[u] \/ v > limit[r])
    BY ZenonT(60), <1>1, <2>1
  <2>3. CASE v > limit[r]
    BY <2>2, <2>3
  <2>4. CASE ~(v > limit[r])
    <3>1. limit'[which[u]] <= limit[which[u]]
      BY <1>0, <1>1, <2>1, <2>4 DEF IInv, TypeOK
    <3>2. /\ limit[which[u]] \in Nat /\ limit'[which[u]] \in Nat
          /\ current[which[u]] \in Int /\ amount[u] \in Nat
      BY <1>0, <1>1, <2>1 DEF IInv, TypeOK
    <3>3. Fits(which[u], amount[u])
      BY <1>1, <3>1, <3>2 DEF Fits, WrapSum
    <3> QED BY <2>2, <3>3 DEF IInv, NoMissedRelease
  <2> QED BY <2>3, <2>4
<1> QED BY <1>2, <1>3, <1>4, <1>5 DEF IInv

\* Add keeps the invariant: the room under the limit stays the same.
LEMMA AddStep ==
    ASSUME IInv, NEW r \in Resource, NEW v \in Value, Add(r, v)
    PROVE  IInv'
<1>0. v \in Nat /\ v > 0 /\ limit[r] + v < HalfRange
  BY DEF Add, IInv, TypeOK
<1>1. /\ limit' = [limit EXCEPT ![r] = limit[r] + v]
      /\ current' = [current EXCEPT ![r] = current[r] + v]
      /\ hints' = [hints EXCEPT ![r] = hints[r] + v]
      /\ peak' = [peak EXCEPT ![r] = Max2(peak[r], current[r] + v)]
      /\ reserved' = [reserved EXCEPT ![r] = reserved[r] + v]
      /\ UNCHANGED <<waiterCount, waitList, state, which, amount, expired, terminating, ending, raised>>
  BY DEF Add
<1>2. TypeOK' /\ RequestsKnown'
  <2>1. current[r] \in Nat
    BY DEF IInv, TypeOK, Conservation
  <2>2. limit' \in [Resource -> Nat] /\ peak' \in [Resource -> Nat] /\ reserved' \in [Resource -> Nat]
    BY <1>0, <1>1, <2>1 DEF Max2, IInv, TypeOK
  <2>3. current' \in [Resource -> Int] /\ hints' \in [Resource -> Int]
    BY <1>0, <1>1 DEF IInv, TypeOK
  <2> QED BY <1>0, <1>1, <2>2, <2>3 DEF IInv, TypeOK, RequestsKnown
<1>3. Conservation'
  BY <1>0, <1>1 DEF IInv, TypeOK, Conservation
<1>4. WaitersCounted'
  BY <1>1 DEF IInv, WaitersCounted
<1>5. ValuesOrdered'
  BY <1>0, <1>1 DEF Max2, IInv, TypeOK, ValuesOrdered
<1>6. NoMissedRelease' /\ SleepersAwaitRelease'
  <2> SUFFICES ASSUME NEW u \in waitList
               PROVE  /\ Fits(which[u], amount[u])' => raised[u]
                      /\ hints'[which[u]] < current'[which[u]]
    BY <1>1 DEF NoMissedRelease, SleepersAwaitRelease
  <2>1. which[u] \in Resource /\ amount[u] \in Nat /\ amount[u] < HalfRange
    BY DEF IInv, TypeOK, WaitersCounted, RequestsKnown
  <2>2. CASE which[u] # r
    BY <1>1, <2>1, <2>2 DEF Fits, IInv, TypeOK, NoMissedRelease, SleepersAwaitRelease
  <2>3. CASE which[u] = r
    <3>1. /\ current'[r] = current[r] + v /\ hints'[r] = hints[r] + v
          /\ limit'[r] = limit[r] + v /\ limit[r] \in Nat /\ current[r] \in Nat
          /\ hints[r] \in Nat /\ current[r] <= limit[r]
      BY <1>1 DEF IInv, TypeOK, Conservation, ValuesOrdered
    <3>2. Fits(which[u], amount[u])' => Fits(which[u], amount[u])
      BY <1>0, <1>1, <2>1, <2>3, <3>1 DEF Fits, WrapSum
    <3>3. Fits(which[u], amount[u]) => raised[u]
      BY ZenonT(60) DEF IInv, NoMissedRelease
    <3>4. hints[r] < current[r]
      BY ZenonT(60), <2>3 DEF IInv, SleepersAwaitRelease
    <3>5. hints'[which[u]] < current'[which[u]]
      BY <1>0, <2>3, <3>1, <3>4
    <3> QED BY ZenonT(60), <3>2, <3>3, <3>5
  <2> QED BY <2>2, <2>3
<1> QED BY <1>2, <1>3, <1>4, <1>5, <1>6 DEF IInv

\* Every step keeps the invariant.
LEMMA NextIInv == IInv /\ [Next]_vars => IInv'
<1> SUFFICES ASSUME IInv, [Next]_vars PROVE IInv'
  OBVIOUS
<1>1. ASSUME NEW t \in Thread, NEW r \in Resource, NEW v \in Value, Reserve(t, r, v)
      PROVE  IInv'
  <2>1. t \notin waitList /\ Busy \ {t} = Busy
    BY <1>1 DEF Reserve, Busy, IInv, WaitersCounted
  <2>2. waiterCount = Cardinality(Busy \ {t})
    BY ZenonT(60), <2>1, BusyFacts
  <2> QED BY <1>1, <2>1, <2>2, TurnStep DEF Reserve
<1>2. ASSUME NEW t \in Thread, Resume(t)
      PROVE  IInv'
  <2>1. t \notin waitList /\ t \in Busy
    BY <1>2 DEF Resume, Busy, IInv, WaitersCounted
  <2>2. waiterCount - 1 = Cardinality(Busy \ {t})
    BY ZenonT(60), <2>1, BusyFacts, FS_RemoveElement
  <2>3. which[t] \in Resource /\ amount[t] \in Value
    BY <1>2 DEF Resume, IInv, RequestsKnown
  <2>4. CASE terminating[t]
    BY <1>2, <2>1, <2>2, <2>4, ReturnStep DEF Resume
  <2>5. CASE ~terminating[t]
    BY ZenonT(60), <1>2, <2>1, <2>2, <2>3, <2>5, TurnStep DEF Resume
  <2> QED BY <2>4, <2>5
<1>3. ASSUME NEW t \in Thread, TimeOut(t) \/ RequestTerminate(t)
      PROVE  IInv'
  <2>1. expired' \in [Thread -> BOOLEAN] /\ terminating' \in [Thread -> BOOLEAN]
    BY ZenonT(60), <1>3 DEF TimeOut, RequestTerminate, IInv, TypeOK
  <2> QED BY <1>3, <2>1, CancelStep DEF TimeOut, RequestTerminate
<1>4. ASSUME NEW r \in Resource, NEW v \in Value \ {0},
             ReleaseAll(r, v) \/ ReleaseHint(r, v) \/ ReleaseValue(r, v)
      PROVE  IInv'
  <2>0. v \in Nat /\ reserved[r] \in Nat /\ ending[r] \in Nat
    BY DEF IInv, TypeOK
  <2>1. CASE ReleaseAll(r, v)
    <3>1. ending' = [ending EXCEPT ![r] = ending[r]]
      BY <2>1 DEF ReleaseAll, IInv, TypeOK
    <3>2. Release(r, v, v) /\ reserved' = [reserved EXCEPT ![r] = reserved[r] - v] /\ v <= reserved[r]
      BY <2>1 DEF ReleaseAll
    <3>3. PICK a \in Int, b \in Int : a = reserved[r] - v /\ b = ending[r]
      BY <2>0
    <3>4. /\ reserved' = [reserved EXCEPT ![r] = a] /\ ending' = [ending EXCEPT ![r] = b]
          /\ a >= 0 /\ b >= 0 /\ a + b = reserved[r] + ending[r] - v
      BY <2>0, <3>1, <3>2, <3>3
    <3> QED BY ZenonT(60), <2>0, <3>2, <3>3, <3>4, ReleaseStep
  <2>2. CASE ReleaseHint(r, v)
    <3>1. /\ Release(r, 0, v) /\ reserved' = [reserved EXCEPT ![r] = reserved[r] - v]
          /\ v <= reserved[r] /\ ending' = [ending EXCEPT ![r] = ending[r] + v]
      BY <2>2 DEF ReleaseHint
    <3>i. reserved[r] - v \in Int /\ ending[r] + v \in Int
      BY <2>0
    <3>2. PICK a \in Int, b \in Int : a = reserved[r] - v /\ b = ending[r] + v
      BY ZenonT(60), <3>i
    <3>3. /\ reserved' = [reserved EXCEPT ![r] = a] /\ ending' = [ending EXCEPT ![r] = b]
          /\ a >= 0 /\ b >= 0 /\ a + b = reserved[r] + ending[r] - 0
      BY <2>0, <3>1, <3>2
    <3> QED BY ZenonT(60), <2>0, <3>1, <3>2, <3>3, ReleaseStep
  <2>3. CASE ReleaseValue(r, v)
    <3>1. reserved' = [reserved EXCEPT ![r] = reserved[r]]
      BY <2>3 DEF ReleaseValue, IInv, TypeOK
    <3>2. Release(r, v, 0) /\ ending' = [ending EXCEPT ![r] = ending[r] - v] /\ v <= ending[r]
      BY <2>3 DEF ReleaseValue
    <3>3. PICK a \in Int, b \in Int : a = reserved[r] /\ b = ending[r] - v
      BY <2>0
    <3>4. /\ reserved' = [reserved EXCEPT ![r] = a] /\ ending' = [ending EXCEPT ![r] = b]
          /\ a >= 0 /\ b >= 0 /\ a = reserved[r] - 0 /\ a + b = reserved[r] + ending[r] - v
      BY <2>0, <3>1, <3>2, <3>3
    <3> QED BY ZenonT(60), <2>0, <3>2, <3>3, <3>4, ReleaseStep
  <2> QED BY <1>4, <2>1, <2>2, <2>3
<1>5. CASE UNCHANGED vars
  <2>1. /\ UNCHANGED <<limit, current, hints, peak, waiterCount, waitList, state>>
        /\ UNCHANGED <<which, amount, expired, terminating, reserved, ending, raised>>
    BY <1>5 DEF vars
  <2> QED BY <2>1 DEF IInv, TypeOK, RequestsKnown, Conservation, ValuesOrdered, WaitersCounted,
                      NoMissedRelease, SleepersAwaitRelease, Fits
<1> QED BY <1>1, <1>2, <1>3, <1>4, <1>5, SetLimitStep, AddStep DEF Next

\* The invariant holds in every reachable state.
LEMMA SpecIInv == Spec => []IInv
  BY InitIInv, NextIInv, PTL DEF Spec

\* KResourceLimit keeps every value in its type.
THEOREM TypeCorrect == Spec => []TypeOK
<1>1. IInv => TypeOK
  BY DEF IInv
<1> QED BY <1>1, SpecIInv, PTL

\* What KResourceLimit asserts of its values, for every order of Reserve, Release,
\* Add and SetLimitValue, sums that wrap included.
THEOREM LimitsRespected == Spec => []ValuesOrdered
<1>1. IInv => ValuesOrdered
  BY DEF IInv
<1> QED BY <1>1, SpecIInv, PTL

\* Reserve and the two-part Release of KThread account for every unit.
THEOREM Conserved == Spec => []Conservation
<1>1. IInv => Conservation
  BY DEF IInv
<1> QED BY <1>1, SpecIInv, PTL

\* m_waiter_count counts the threads in a wait of Reserve, whatever ends it.
THEOREM WaitersExact == Spec => []WaitersCounted
<1>1. IInv => WaitersCounted
  BY DEF IInv
<1> QED BY <1>1, SpecIInv, PTL

\* Release wakes every Reserve that it makes fit, and Reserve sleeps only while a
\* release is outstanding.
THEOREM WaitsJustified == Spec => []SleepersJustified
<1>1. IInv => SleepersJustified
  BY DEF IInv, SleepersJustified
<1> QED BY <1>1, SpecIInv, PTL

=============================================================================
