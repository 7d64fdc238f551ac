---------------------------- MODULE KPortProofs ----------------------------
(***************************************************************************)
(* Proofs about KPort, for any threads, sessions and limits.               *)
(***************************************************************************)
EXTENDS KPort, FiniteSetTheorems, TLAPS

\* Leaves are given to the SMT solver, then to Zenon, unless they name their prover.
USE SMTT(60), SMTT(61), ZenonT(60)

-----------------------------------------------------------------------------
(* The inductive invariant.                                                *)

\* How many members of S have a value in C.
Num(S, f, C) == Cardinality({s \in S : f[s] \in C})
Bit(p) == IF p THEN 1 ELSE 0

Places == {"idle", "reserve", "create", "expand", "add", "load", "count", "loadPeak", "peak",
           "initialize", "enqueue", "release", "return", "wait"}
Empty == {"idle", "reserve", "create", "expand", "release", "return", "wait"}
Uncounted == {"add", "load", "count"}
Raising == {"loadPeak", "peak", "initialize"}
Busy == {"new", "counted", "live", "dying", "final"}

\* The session in a thread's hands is in the phase its place tells, and in no
\* other thread's hands.
LocalOK(t) ==
    \/ pc[t] \in Empty /\ mine[t] = NoSession
    \/ pc[t] \in Uncounted /\ mine[t] \in Session /\ phase[mine[t]] = "new"
    \/ pc[t] \in Raising /\ mine[t] \in Session /\ phase[mine[t]] = "counted"
    \/ pc[t] = "enqueue" /\ mine[t] \in Session /\ phase[mine[t]] = "live"
Locals ==
    /\ \A t \in Thread : LocalOK(t)
    /\ \A t, u \in Thread : mine[t] \in Session /\ mine[t] = mine[u] => t = u

\* The count, what the loop knows of it, and those who wait for it.
Counts ==
    /\ numSessions = Num(Session, phase, {"counted", "live", "dying"})
    /\ numSessions <= MaxSessions
    /\ \A t \in Thread : /\ pc[t] = "count" => seen[t] < MaxSessions
                         /\ pc[t] = "wait" => numSessions = MaxSessions

\* The peak, and what the loop that raises it knows.
Peaks ==
    /\ numSessions <= highest
    /\ PeakExact
    /\ \A t \in Thread : /\ pc[t] \in {"loadPeak", "peak"} => new[t] <= highest
                         /\ pc[t] = "peak" => seen[t] < new[t]

Listed(s) == \E i \in 1..Len(list) : list[i] = s
InHand(s) == \E t \in Thread : pc[t] = "enqueue" /\ mine[t] = s

\* The ends of the sessions that are live, and their holders.
HeldRight(s) ==
    /\ refs[s] = Bit(s \in connected) + Bit(s \in accepted) + Bit(Listed(s)) + 2 * Bit(InHand(s))
    /\ s \in connected \/ s \in accepted \/ Listed(s) => phase[s] = "live" /\ ~InHand(s)
    /\ ~(Listed(s) /\ s \in accepted)
\* No session is listed twice.
Once(l) == \A i, j \in 1..Len(l) : l[i] = l[j] => i = j
ListRight ==
    /\ Once(list)
    /\ server # "open" => state # "Normal"
    /\ server = "closed" => list = <<>>
    /\ waiting => list = <<>>
Ends == ListRight /\ \A s \in Session : HeldRight(s)

\* The references to the client port.
PortRefs ==
    clientRefs = Bit(handle) + Num(Thread, pc, Places \ {"idle"}) + Num(Session, phase, {"live", "dying"})

\* The limit never exceeds the sessions there are, and what is reserved covers
\* those that are taken from the slab heap or about to be.
Backed ==
    ~isLight =>
      /\ limit + Num(Thread, pc, {"add"}) <= Num(Session, phase, {"free"}) + Num(Session, phase, Busy)
      /\ current + Num(Thread, pc, {"add"})
           >= Num(Thread, pc, {"create"}) + Num(Thread, pc, {"release"}) + Num(Session, phase, Busy) + owed
      /\ current <= limit

IInv == TypeOK /\ Locals /\ Counts /\ Peaks /\ Ends /\ PortRefs /\ Backed

-----------------------------------------------------------------------------
(* Counting.                                                               *)

\* A count is a natural number.
LEMMA NumNat ==
    ASSUME NEW S, IsFiniteSet(S), NEW f, NEW C
    PROVE  Num(S, f, C) \in Nat /\ IsFiniteSet({s \in S : f[s] \in C})
  BY FS_Subset, FS_CardinalityType DEF Num

\* The functions agree except at x.
AgreeBut(S, f, g, x) == \A s \in S : s # x => g[s] = f[s]

\* A change of one value changes a count by what leaves it and enters it.
LEMMA NumUpdate ==
    ASSUME NEW S, IsFiniteSet(S), NEW f, NEW g, NEW x \in S, AgreeBut(S, f, g, x), NEW C
    PROVE  Num(S, g, C) = Num(S, f, C) + Bit(g[x] \in C) - Bit(f[x] \in C)
<1> USE DEF AgreeBut
<1> DEFINE A == {s \in S : f[s] \in C}
           B == {s \in S : g[s] \in C}
<1>1. IsFiniteSet(A)
  BY NumNat
<1>2. Num(S, f, C) = Cardinality(A) /\ Num(S, g, C) = Cardinality(B)
  BY DEF Num
<1>3. Cardinality(A) \in Nat
  BY <1>1, FS_CardinalityType
<1>4. CASE g[x] \in C /\ f[x] \notin C
  <2>1. B = A \cup {x} /\ x \notin A
    BY <1>4
  <2> HIDE DEF A, B
  <2>2. Cardinality(A \cup {x}) = Cardinality(A) + 1
    BY ZenonT(60), <2>1, <1>1, FS_AddElement
  <2> QED BY <2>1, <2>2, <1>2, <1>3, <1>4 DEF Bit
<1>5. CASE g[x] \notin C /\ f[x] \in C
  <2>1. B = A \ {x} /\ x \in A
    BY <1>5
  <2> HIDE DEF A, B
  <2>2. Cardinality(A \ {x}) = Cardinality(A) - 1
    BY ZenonT(60), <2>1, <1>1, FS_RemoveElement
  <2> QED BY <2>1, <2>2, <1>2, <1>3, <1>5 DEF Bit
<1>6. CASE (g[x] \in C) <=> (f[x] \in C)
  <2>1. B = A
    BY <1>6
  <2> HIDE DEF A, B
  <2> QED BY <2>1, <1>2, <1>3, <1>6 DEF Bit
<1> QED BY <1>4, <1>5, <1>6

\* The counts of threads are natural numbers, and so are those of sessions.
LEMMA Nums == \A f, C : Num(Thread, f, C) \in Nat /\ Num(Session, f, C) \in Nat
  BY ZenonT(60), NumNat, SessionAssumption

\* A thread that goes to a label.
LEMMA PcMoves ==
    ASSUME TypeOK, NEW t \in Thread, NEW l, Goto(t, l)
    PROVE  \A C : Num(Thread, pc', C) = Num(Thread, pc, C) + Bit(l \in C) - Bit(pc[t] \in C)
<1>1. IsFiniteSet(Thread)
  BY SessionAssumption
<1>2. AgreeBut(Thread, pc, pc', t) /\ pc'[t] = l
  BY DEF TypeOK, Goto, AgreeBut
<1> TAKE C
<1>3. Num(Thread, pc', C) = Num(Thread, pc, C) + Bit(pc'[t] \in C) - Bit(pc[t] \in C)
  BY <1>1, <1>2, NumUpdate
<1> QED BY ZenonT(60), <1>2, <1>3

PhaseTo(s, p) == phase' = [phase EXCEPT ![s] = p]

\* A session that goes to a phase.
LEMMA PhaseMoves ==
    ASSUME TypeOK, NEW s \in Session, NEW p, PhaseTo(s, p)
    PROVE  \A C : Num(Session, phase', C) = Num(Session, phase, C) + Bit(p \in C) - Bit(phase[s] \in C)
<1>1. IsFiniteSet(Session)
  BY SessionAssumption
<1>2. AgreeBut(Session, phase, phase', s) /\ phase'[s] = p
  BY DEF TypeOK, PhaseTo, AgreeBut
<1> TAKE C
<1>3. Num(Session, phase', C) = Num(Session, phase, C) + Bit(phase'[s] \in C) - Bit(phase[s] \in C)
  BY <1>1, <1>2, NumUpdate
<1> QED BY ZenonT(60), <1>2, <1>3

-----------------------------------------------------------------------------
(* What a step of one thread leaves alone.                                 *)

\* The other threads stay where they are.
Keeps(t) == \A u \in Thread \ {t} : /\ pc'[u] = pc[u] /\ mine'[u] = mine[u]
                                    /\ seen'[u] = seen[u] /\ new'[u] = new[u]

\* A thread changes no session but its own, or one nobody has.
LEMMA LocalsStep ==
    ASSUME TypeOK, Locals, NEW t \in Thread, Keeps(t), LocalOK(t)',
           \A s \in Session : s # mine[t] /\ phase[s] \notin {"free", "unused"} => phase'[s] = phase[s],
           \/ mine'[t] \in {NoSession, mine[t]}
           \/ mine'[t] \in Session /\ phase[mine'[t]] \in {"free", "unused"}
    PROVE  Locals'
<1>1. ASSUME NEW u \in Thread, u # t PROVE LocalOK(u)' /\ (mine[u] \in Session => mine'[u] # mine'[t])
  <2>1. pc'[u] = pc[u] /\ mine'[u] = mine[u]
    BY <1>1 DEF Keeps
  <2>2. mine[u] \in Session => mine[u] # mine[t] /\ phase[mine[u]] \in {"new", "counted", "live"}
    BY <1>1, SessionAssumption DEF Locals, LocalOK
  <2>3. mine[u] \in Session => phase'[mine[u]] = phase[mine[u]]
    BY <2>2
  <2>4. LocalOK(u)'
    BY <2>1, <2>3 DEF Locals, LocalOK
  <2> QED BY <2>1, <2>2, <2>4, SessionAssumption
<1>2. \A u \in Thread : LocalOK(u)'
  BY <1>1
<1>3. ASSUME NEW u \in Thread, NEW v \in Thread, mine'[u] \in Session, mine'[u] = mine'[v] PROVE u = v
  <2>1. u # t => mine'[u] = mine[u]
    BY DEF Keeps
  <2>2. v # t => mine'[v] = mine[v]
    BY DEF Keeps
  <2> QED BY <2>1, <2>2, <1>1, <1>3 DEF Locals
<1> QED BY ZenonT(60), <1>2, <1>3 DEF Locals

\* The count is left alone.
LEMMA CountsStep ==
    ASSUME TypeOK, Counts, NEW t \in Thread, Keeps(t), UNCHANGED numSessions,
           Num(Session, phase', {"counted", "live", "dying"}) = Num(Session, phase, {"counted", "live", "dying"}),
           pc'[t] \notin {"count", "wait"}
    PROVE  Counts'
  BY DEF Counts, Keeps

\* The peak is left alone.
LEMMA PeaksStep ==
    ASSUME TypeOK, Peaks, NEW t \in Thread, Keeps(t), UNCHANGED <<numSessions, highest, peakSessions>>,
           pc[t] \notin {"loadPeak", "peak"}, pc'[t] \notin {"loadPeak", "peak"}
    PROVE  Peaks'
  BY DEF Peaks, PeakExact, Keeps

\* The list is left alone.
LEMMA ListStays ==
    ASSUME ListRight, UNCHANGED <<list, waiting, server>>, state' = state \/ state' # "Normal"
    PROVE  ListRight'
  BY ZenonT(60) DEF ListRight

\* The holders of a session's ends stay what they are.
LEMMA HeldStays ==
    ASSUME NEW s \in Session, HeldRight(s), refs'[s] = refs[s], phase[s] = "live" => phase'[s] = "live",
           s \in connected' <=> s \in connected, s \in accepted' <=> s \in accepted,
           Listed(s)' <=> Listed(s), InHand(s)' <=> InHand(s)
    PROVE  HeldRight(s)'
  BY DEF HeldRight, Bit

\* One of them goes, and with the last one the session may end.
LEMMA HeldDrops ==
    ASSUME NEW s \in Session, HeldRight(s), ~InHand(s), ~InHand(s)',
           refs[s] \in {1, 2}, refs'[s] = refs[s] - 1, refs[s] = 2 => phase'[s] = "live",
           \/ /\ s \in connected /\ s \notin connected'
              /\ (s \in accepted' <=> s \in accepted) /\ (Listed(s)' <=> Listed(s))
           \/ /\ s \in accepted /\ s \notin accepted'
              /\ (s \in connected' <=> s \in connected) /\ (Listed(s)' <=> Listed(s))
           \/ /\ Listed(s) /\ ~Listed(s)'
              /\ (s \in connected' <=> s \in connected) /\ (s \in accepted' <=> s \in accepted)
    PROVE  HeldRight(s)'
  BY DEF HeldRight, Bit

\* The ends are left alone, and sessions that are live.
LEMMA EndsStep ==
    ASSUME TypeOK, Ends, UNCHANGED <<list, connected, accepted, waiting, server, refs>>,
           state' = state \/ state' # "Normal",
           \A s \in Session : /\ InHand(s)' <=> InHand(s)
                              /\ phase[s] = "live" => phase'[s] = "live"
    PROVE  Ends'
<1>1. \A s \in Session : Listed(s)' <=> Listed(s)
  BY DEF Listed
<1>2. ASSUME NEW s \in Session PROVE HeldRight(s)'
  <2>1. HeldRight(s)
    BY DEF Ends
  <2> QED BY <2>1, <1>1 DEF HeldRight, Bit
<1>3. ListRight'
  BY ZenonT(60), ListStays DEF Ends
<1> QED BY ZenonT(60), <1>2, <1>3 DEF Ends

\* A thread that is not at the queue has no ends in hand.
LEMMA InHandStep ==
    ASSUME NEW t \in Thread, Keeps(t), pc[t] # "enqueue", pc'[t] # "enqueue"
    PROVE  \A s \in Session : InHand(s)' <=> InHand(s)
  BY DEF InHand, Keeps

\* A thread that has no session goes from one place to another.
LEMMA EmptyStep ==
    ASSUME IInv, NEW t \in Thread, NEW l \in Empty, pc[t] \in Empty, Goto(t, l),
           l = "wait" => numSessions >= MaxSessions,
           UNCHANGED <<mine, seen, new, phase, refs, numSessions, highest, peakSessions>>,
           UNCHANGED <<list, connected, accepted, waiting, server>>,
           state' = state \/ state' # "Normal"
    PROVE  Locals' /\ Counts' /\ Peaks' /\ Ends'
<1>1. TypeOK /\ Locals /\ Counts /\ Peaks /\ Ends
  BY ZenonT(60) DEF IInv
<1>2. Keeps(t) /\ pc'[t] = l
  BY <1>1 DEF TypeOK, Goto, Keeps
<1>3. l \notin {"count", "loadPeak", "peak", "enqueue"} /\ pc[t] \notin {"loadPeak", "peak", "enqueue"}
  BY DEF Empty
<1>4. Locals'
  <2>1. mine[t] = NoSession
    BY <1>1 DEF Locals, LocalOK, Empty, Uncounted, Raising
  <2>2. LocalOK(t)'
    BY ZenonT(60), <1>2, <2>1 DEF LocalOK
  <2> QED BY <1>1, <1>2, <2>2, LocalsStep
<1>5. Counts'
  BY <1>1, <1>2, <1>3, MaxAssumption DEF Counts, Keeps, TypeOK
<1>6. Peaks'
  BY <1>1, <1>2, <1>3, PeaksStep
<1>7. Ends'
  <2>1. \A s \in Session : InHand(s)' <=> InHand(s)
    BY <1>2, <1>3, InHandStep
  <2> QED BY ZenonT(60), <1>1, <2>1, EndsStep
<1> QED BY <1>4, <1>5, <1>6, <1>7

portSide == <<isLight, state, server, handle, clientRefs, numSessions, highest, peakSessions>>
endSide == <<list, connected, accepted, waiting, refs>>

\* The parts of the invariant that steps are shown to keep, ...
LEMMA Inv ==
    ASSUME IInv
    PROVE  TypeOK /\ Locals /\ Counts /\ Peaks /\ Ends /\ PortRefs /\ Backed
  BY ZenonT(60) DEF IInv

\* ... the types of the functions, ...
LEMMA Types ==
    ASSUME IInv
    PROVE  /\ pc \in [Thread -> Places] /\ phase \in [Session -> Phases]
           /\ mine \in [Thread -> Session \cup {NoSession}]
           /\ seen \in [Thread -> Int] /\ new \in [Thread -> Int]
           /\ refs \in [Session -> Int]
  BY ZenonT(60), Inv DEF TypeOK, Places

\* ... and those of the numbers and the list.
LEMMA Numbers ==
    ASSUME IInv
    PROVE  /\ clientRefs \in Int /\ numSessions \in Int /\ peakSessions \in Int /\ highest \in Int
           /\ current \in Int /\ limit \in Nat /\ owed \in Nat
           /\ list \in Seq(Session)
  BY ZenonT(60), Inv DEF TypeOK

\* The parts that count, and the numbers in them.
LEMMA Sums ==
    ASSUME IInv
    PROVE  /\ PortRefs /\ Backed
           /\ clientRefs \in Int /\ current \in Int /\ limit \in Nat /\ owed \in Nat
  BY ZenonT(60) DEF IInv, TypeOK

\* A thread that is about to count its session, or has none, goes from one place
\* to another; a session that is not counted yet, its own or nobody's, may change.
LEMMA HandStep ==
    ASSUME IInv, NEW t \in Thread, NEW k \in (Empty \cup Uncounted) \ {"idle"},
           NEW l \in (Empty \cup Uncounted) \ {"idle", "wait"}, pc[t] = k, Goto(t, l),
           NEW s \in Session, NEW p \in {"free", "unused", "new"}, NEW q \in {"free", "unused", "new"},
           p = phase[s], PhaseTo(s, q), Keeps(t), LocalOK(t)',
           s = mine[t] \/ p \in {"free", "unused"},
           mine'[t] \in {NoSession, mine[t]} \/ (mine'[t] = s /\ p \in {"free", "unused"}),
           l = "count" => seen'[t] < MaxSessions,
           UNCHANGED <<portSide, endSide>>
    PROVE  /\ Locals' /\ Counts' /\ Peaks' /\ Ends' /\ PortRefs'
           /\ \A C : Num(Thread, pc', C) = Num(Thread, pc, C) + Bit(l \in C) - Bit(k \in C)
           /\ \A C : Num(Session, phase', C) = Num(Session, phase, C) + Bit(q \in C) - Bit(p \in C)
<1>1. pc'[t] = l /\ phase'[s] = q /\ \A r \in Session : r # s => phase'[r] = phase[r]
  BY Types DEF Goto, PhaseTo
<1>2. /\ k \notin {"idle", "loadPeak", "peak", "enqueue"}
      /\ l \notin {"idle", "wait", "loadPeak", "peak", "enqueue"}
      /\ k \in Places /\ l \in Places
  BY DEF Empty, Uncounted, Places
<1>3. \A C : Num(Thread, pc', C) = Num(Thread, pc, C) + Bit(l \in C) - Bit(k \in C)
  BY ZenonT(60), Inv, PcMoves
<1>4. \A C : Num(Session, phase', C) = Num(Session, phase, C) + Bit(q \in C) - Bit(p \in C)
  BY ZenonT(60), Inv, PhaseMoves
<1>5. Locals'
  <2>1. \A r \in Session : r # mine[t] /\ phase[r] \notin {"free", "unused"} => phase'[r] = phase[r]
    BY <1>1
  <2>2. mine'[t] \in {NoSession, mine[t]} \/ (mine'[t] \in Session /\ phase[mine'[t]] \in {"free", "unused"})
    OBVIOUS
  <2> QED BY ZenonT(60), <2>1, <2>2, Inv, LocalsStep
<1>6. Counts'
  <2>1. Num(Session, phase', {"counted", "live", "dying"}) = Num(Session, phase, {"counted", "live", "dying"})
    BY <1>4, Nums DEF Bit
  <2>2. UNCHANGED numSessions
    BY DEF portSide
  <2>3. \A u \in Thread : /\ pc'[u] = "count" => seen'[u] < MaxSessions
                          /\ pc'[u] = "wait" => numSessions = MaxSessions
    <3>1. \A u \in Thread : /\ pc[u] = "count" => seen[u] < MaxSessions
                            /\ pc[u] = "wait" => numSessions = MaxSessions
      BY ZenonT(60), Inv DEF Counts
    <3> QED BY <1>1, <1>2, <3>1 DEF Keeps
  <2> QED BY ZenonT(60), <2>1, <2>2, <2>3, Inv DEF Counts
<1>7. Peaks'
  <2>1. /\ UNCHANGED <<numSessions, highest, peakSessions>>
        /\ pc[t] \notin {"loadPeak", "peak"} /\ pc'[t] \notin {"loadPeak", "peak"}
    BY <1>1, <1>2 DEF portSide
  <2> QED BY ZenonT(60), <2>1, Inv, PeaksStep
<1>8. Ends'
  <2>1. \A r \in Session : InHand(r)' <=> InHand(r)
    BY <1>1, <1>2, InHandStep
  <2>2. \A r \in Session : phase[r] = "live" => phase'[r] = "live"
    BY <1>1
  <2> QED BY ZenonT(60), <2>1, <2>2, Inv, EndsStep DEF portSide, endSide
<1>9. PortRefs'
  <2>1. /\ Num(Thread, pc', Places \ {"idle"}) = Num(Thread, pc, Places \ {"idle"})
        /\ Num(Session, phase', {"live", "dying"}) = Num(Session, phase, {"live", "dying"})
    BY <1>2, <1>3, <1>4, Nums DEF Bit
  <2> QED BY ZenonT(60), <2>1, Inv DEF PortRefs, portSide
<1> QED BY <1>3, <1>4, <1>5, <1>6, <1>7, <1>8, <1>9

-----------------------------------------------------------------------------
(* The threads of the client.                                              *)

\* Connect: the call takes a reference to the port.
LEMMA ConnectKeeps ==
    ASSUME IInv, NEW t \in Thread, Connect(t)
    PROVE  IInv'
<1>1. TypeOK'
  BY DEF IInv, TypeOK, Connect, Goto, portVars, countVars, endVars, resourceVars
<1>2. Locals' /\ Counts' /\ Peaks' /\ Ends'
  BY EmptyStep DEF Connect, Empty, portVars, countVars, endVars
<1>3. \A C : Num(Thread, pc', C) = Num(Thread, pc, C) + Bit("reserve" \in C) - Bit("idle" \in C)
  BY PcMoves DEF IInv, Connect
<1>4. PortRefs'
  BY <1>3, Nums DEF IInv, PortRefs, Connect, portVars, Bit, Places
<1>5. Backed'
  BY <1>3, Nums DEF IInv, Backed, Connect, portVars, resourceVars, Bit
<1> QED BY ZenonT(60), <1>1, <1>2, <1>4, <1>5 DEF IInv

\* Reserve: what is reserved stays within the limit.
LEMMA ReserveKeeps ==
    ASSUME IInv, NEW t \in Thread, Reserve(t)
    PROVE  IInv'
<1>0. pc \in [Thread -> Places] /\ current \in Int /\ limit \in Nat /\ owed \in Nat /\ Backed
  BY DEF IInv, TypeOK, Places
<1>1. /\ pc[t] = "reserve"
      /\ UNCHANGED <<isLight, state, server, handle, clientRefs, numSessions, highest, peakSessions>>
      /\ UNCHANGED <<list, connected, accepted, waiting, limit, phase, refs, owed, mine, seen, new>>
  BY ZenonT(60) DEF Reserve, portVars, countVars, endVars
<1>2. \/ /\ current < limit /\ current' = current + 1 /\ Goto(t, "create")
         /\ reserved' = [reserved EXCEPT ![t] = TRUE]
      \/ Goto(t, "expand") /\ UNCHANGED <<current, reserved>>
      \/ Goto(t, "return") /\ UNCHANGED <<current, reserved>>
  BY ZenonT(60) DEF Reserve
<1>3. TypeOK'
  <2>1. pc' \in [Thread -> Places]
    BY ZenonT(60), <1>0, <1>2 DEF Goto, Places
  <2>2. reserved' \in [Thread -> BOOLEAN]
    BY ZenonT(60), <1>2 DEF IInv, TypeOK
  <2>3. current' \in Int
    BY <1>2 DEF IInv, TypeOK
  <2> QED BY ZenonT(60), <1>1, <2>1, <2>2, <2>3 DEF IInv, TypeOK, Places
<1>4. ASSUME NEW l \in {"create", "expand", "return"}, Goto(t, l)
      PROVE  /\ Locals' /\ Counts' /\ Peaks' /\ Ends' /\ PortRefs'
             /\ \A C : Num(Thread, pc', C) = Num(Thread, pc, C) + Bit(l \in C) - Bit("reserve" \in C)
  <2>1. Locals' /\ Counts' /\ Peaks' /\ Ends'
    BY <1>1, <1>4, EmptyStep DEF Empty
  <2>2. \A C : Num(Thread, pc', C) = Num(Thread, pc, C) + Bit(l \in C) - Bit("reserve" \in C)
    BY <1>1, <1>4, PcMoves DEF IInv
  <2>3. PortRefs'
    BY <1>1, <2>2, Nums DEF IInv, PortRefs, Bit, Places
  <2> QED BY <2>1, <2>2, <2>3
<1>5. Locals' /\ Counts' /\ Peaks' /\ Ends' /\ PortRefs'
  BY ZenonT(60), <1>2, <1>4
<1>6. Backed'
  <2>1. CASE Goto(t, "create") /\ current < limit /\ current' = current + 1
    <3>1. \A C : Num(Thread, pc', C) = Num(Thread, pc, C) + Bit("create" \in C) - Bit("reserve" \in C)
      BY ZenonT(60), <2>1, <1>4
    <3> QED BY <2>1, <3>1, <1>0, <1>1, Nums DEF Backed, Bit
  <2>2. CASE Goto(t, "expand") /\ UNCHANGED current
    <3>1. \A C : Num(Thread, pc', C) = Num(Thread, pc, C) + Bit("expand" \in C) - Bit("reserve" \in C)
      BY ZenonT(60), <2>2, <1>4
    <3> QED BY <2>2, <3>1, <1>0, <1>1, Nums DEF Backed, Bit
  <2>3. CASE Goto(t, "return") /\ UNCHANGED current
    <3>1. \A C : Num(Thread, pc', C) = Num(Thread, pc, C) + Bit("return" \in C) - Bit("reserve" \in C)
      BY ZenonT(60), <2>3, <1>4
    <3> QED BY <2>3, <3>1, <1>0, <1>1, Nums DEF Backed, Bit
  <2> QED BY ZenonT(60), <2>1, <2>2, <2>3, <1>2
<1> QED BY ZenonT(60), <1>3, <1>5, <1>6 DEF IInv

\* Create: a session for the reservation, or none.
LEMMA CreateKeeps ==
    ASSUME IInv, NEW t \in Thread, Create(t)
    PROVE  IInv'
<1>1. pc[t] = "create" /\ UNCHANGED <<portSide, endSide, current, limit, owed, reserved, seen, new>>
  BY ZenonT(60) DEF Create, portVars, countVars, endVars, resourceVars, portSide, endSide
<1>0. UNCHANGED <<isLight, handle, clientRefs, current, limit, owed>>
  BY ZenonT(60), <1>1 DEF portSide
<1>2. CASE \E s \in Session : /\ phase[s] = "free" /\ PhaseTo(s, "new")
                              /\ mine' = [mine EXCEPT ![t] = s] /\ Goto(t, "load")
  <2>1. PICK s \in Session : /\ phase[s] = "free" /\ PhaseTo(s, "new")
                             /\ mine' = [mine EXCEPT ![t] = s] /\ Goto(t, "load")
    BY ZenonT(60), <1>2
  <2>2. Keeps(t) /\ pc'[t] = "load" /\ mine'[t] = s /\ phase'[s] = "new"
    BY <1>1, <2>1, Types DEF Goto, PhaseTo, Keeps
  <2>3. LocalOK(t)'
    BY <2>2 DEF LocalOK, Uncounted
  <2>4. /\ Locals' /\ Counts' /\ Peaks' /\ Ends' /\ PortRefs'
        /\ \A C : Num(Thread, pc', C) = Num(Thread, pc, C) + Bit("load" \in C) - Bit("create" \in C)
        /\ \A C : Num(Session, phase', C) = Num(Session, phase, C) + Bit("new" \in C) - Bit("free" \in C)
    BY <1>1, <2>1, <2>2, <2>3, HandStep DEF Empty, Uncounted
  <2>5. Backed'
    BY <1>0, <2>4, Sums, Nums DEF Backed, Bit, Busy
  <2>6. TypeOK'
    <3>1. /\ pc' \in [Thread -> Places] /\ phase' \in [Session -> Phases]
          /\ mine' \in [Thread -> Session \cup {NoSession}]
      BY <2>1, Types DEF Goto, PhaseTo, Places, Phases
    <3> QED BY ZenonT(60), <1>1, <3>1, Inv DEF TypeOK, Places, portSide, endSide
  <2> QED BY ZenonT(60), <2>4, <2>5, <2>6 DEF IInv
<1>3. CASE Goto(t, "release") /\ UNCHANGED <<phase, mine>>
  <2>1. Locals' /\ Counts' /\ Peaks' /\ Ends'
    BY <1>1, <1>3, EmptyStep DEF Empty, portSide, endSide
  <2>2. \A C : Num(Thread, pc', C) = Num(Thread, pc, C) + Bit("release" \in C) - Bit("create" \in C)
    BY ZenonT(60), <1>1, <1>3, Inv, PcMoves
  <2>3. PortRefs'
    BY <1>0, <1>3, <2>2, Sums, Nums DEF PortRefs, Bit, Places
  <2>4. Backed'
    BY <1>0, <1>3, <2>2, Sums, Nums DEF Backed, Bit
  <2>5. TypeOK'
    <3>1. pc' \in [Thread -> Places]
      BY <1>3, Types DEF Goto, Places
    <3> QED BY ZenonT(60), <1>1, <1>3, <3>1, Inv DEF TypeOK, Places, portSide, endSide
  <2> QED BY ZenonT(60), <2>1, <2>3, <2>4, <2>5 DEF IInv
<1> QED BY ZenonT(60), <1>2, <1>3 DEF Create, PhaseTo

\* Expand: a session from unused memory, or none.
LEMMA ExpandKeeps ==
    ASSUME IInv, NEW t \in Thread, Expand(t)
    PROVE  IInv'
<1>1. pc[t] = "expand" /\ UNCHANGED <<portSide, endSide, current, limit, owed, reserved, seen, new>>
  BY ZenonT(60) DEF Expand, portVars, countVars, endVars, resourceVars, portSide, endSide
<1>0. UNCHANGED <<isLight, handle, clientRefs, current, limit, owed>>
  BY ZenonT(60), <1>1 DEF portSide
<1>2. CASE \E s \in Session : /\ phase[s] = "unused" /\ PhaseTo(s, "new")
                              /\ mine' = [mine EXCEPT ![t] = s] /\ Goto(t, "add")
  <2>1. PICK s \in Session : /\ phase[s] = "unused" /\ PhaseTo(s, "new")
                             /\ mine' = [mine EXCEPT ![t] = s] /\ Goto(t, "add")
    BY ZenonT(60), <1>2
  <2>2. Keeps(t) /\ pc'[t] = "add" /\ mine'[t] = s /\ phase'[s] = "new"
    BY <1>1, <2>1, Types DEF Goto, PhaseTo, Keeps
  <2>3. LocalOK(t)'
    BY <2>2 DEF LocalOK, Uncounted
  <2>4. /\ Locals' /\ Counts' /\ Peaks' /\ Ends' /\ PortRefs'
        /\ \A C : Num(Thread, pc', C) = Num(Thread, pc, C) + Bit("add" \in C) - Bit("expand" \in C)
        /\ \A C : Num(Session, phase', C) = Num(Session, phase, C) + Bit("new" \in C) - Bit("unused" \in C)
    BY <1>1, <2>1, <2>2, <2>3, HandStep DEF Empty, Uncounted
  <2>5. Backed'
    BY <1>0, <2>4, Sums, Nums DEF Backed, Bit, Busy
  <2>6. TypeOK'
    <3>1. /\ pc' \in [Thread -> Places] /\ phase' \in [Session -> Phases]
          /\ mine' \in [Thread -> Session \cup {NoSession}]
      BY <2>1, Types DEF Goto, PhaseTo, Places, Phases
    <3> QED BY ZenonT(60), <1>1, <3>1, Inv DEF TypeOK, Places, portSide, endSide
  <2> QED BY ZenonT(60), <2>4, <2>5, <2>6 DEF IInv
<1>3. CASE Goto(t, "return") /\ UNCHANGED <<phase, mine>>
  <2>1. Locals' /\ Counts' /\ Peaks' /\ Ends'
    BY <1>1, <1>3, EmptyStep DEF Empty, portSide, endSide
  <2>2. \A C : Num(Thread, pc', C) = Num(Thread, pc, C) + Bit("return" \in C) - Bit("expand" \in C)
    BY ZenonT(60), <1>1, <1>3, Inv, PcMoves
  <2>3. PortRefs'
    BY <1>0, <1>3, <2>2, Sums, Nums DEF PortRefs, Bit, Places
  <2>4. Backed'
    BY <1>0, <1>3, <2>2, Sums, Nums DEF Backed, Bit
  <2>5. TypeOK'
    <3>1. pc' \in [Thread -> Places]
      BY <1>3, Types DEF Goto, Places
    <3> QED BY ZenonT(60), <1>1, <1>3, <3>1, Inv DEF TypeOK, Places, portSide, endSide
  <2> QED BY ZenonT(60), <2>1, <2>3, <2>4, <2>5 DEF IInv
<1> QED BY ZenonT(60), <1>2, <1>3 DEF Expand, PhaseTo

\* A session that is in a phase goes to it.
LEMMA PhaseStays ==
    ASSUME IInv, NEW s \in Session, UNCHANGED phase
    PROVE  PhaseTo(s, phase[s])
  BY Types DEF PhaseTo

\* A thread about to count its session has one that is new.
LEMMA NewInHand ==
    ASSUME IInv, NEW t \in Thread, pc[t] \in Uncounted
    PROVE  mine[t] \in Session /\ phase[mine[t]] = "new"
<1>1. LocalOK(t)
  BY ZenonT(60), Inv DEF Locals
<1> QED BY <1>1 DEF LocalOK, Empty, Uncounted, Raising

\* Add: the limit grows with the session, or the session joins the slab heap.
LEMMA AddKeeps ==
    ASSUME IInv, NEW t \in Thread, Add(t)
    PROVE  IInv'
<1>1. pc[t] = "add" /\ UNCHANGED <<portSide, endSide, owed, reserved, seen, new>>
  BY ZenonT(60) DEF Add, portVars, countVars, endVars, portSide, endSide
<1>0. UNCHANGED <<isLight, owed>>
  BY ZenonT(60), <1>1 DEF portSide
<1>2. mine[t] \in Session /\ phase[mine[t]] = "new"
  BY <1>1, NewInHand DEF Uncounted
<1>3. CASE limit' = limit + 1 /\ current' = current + 1 /\ Goto(t, "load") /\ UNCHANGED <<phase, mine>>
  <2>1. Keeps(t) /\ pc'[t] = "load" /\ mine'[t] = mine[t]
    BY <1>1, <1>3, Types DEF Goto, Keeps
  <2>2. LocalOK(t)' /\ PhaseTo(mine[t], "new")
    BY ZenonT(60), <1>2, <1>3, <2>1, PhaseStays DEF LocalOK, Uncounted
  <2>3. /\ Locals' /\ Counts' /\ Peaks' /\ Ends' /\ PortRefs'
        /\ \A C : Num(Thread, pc', C) = Num(Thread, pc, C) + Bit("load" \in C) - Bit("add" \in C)
    BY <1>1, <1>2, <1>3, <2>1, <2>2, HandStep DEF Empty, Uncounted
  <2>4. Backed'
    BY <1>0, <1>3, <2>3, Sums, Nums DEF Backed, Bit
  <2>5. TypeOK'
    <3>0. pc' \in [Thread -> Places]
      BY <1>3, Types DEF Goto, Places
    <3>1. pc' \in [Thread -> Places] /\ limit' \in Nat /\ current' \in Int
      BY <1>3, <3>0, Numbers
    <3> QED BY ZenonT(60), <1>1, <1>3, <3>1, Inv DEF TypeOK, Places, portSide, endSide
  <2> QED BY ZenonT(60), <2>3, <2>4, <2>5 DEF IInv
<1>4. CASE Discard(t) /\ Goto(t, "return") /\ UNCHANGED <<current, limit>>
  <2>1. /\ Keeps(t) /\ pc'[t] = "return" /\ mine'[t] = NoSession
        /\ PhaseTo(mine[t], "free")
    BY <1>1, <1>4, Types DEF Goto, Keeps, Discard, PhaseTo
  <2>2. LocalOK(t)'
    BY <2>1 DEF LocalOK, Empty
  <2>3. /\ Locals' /\ Counts' /\ Peaks' /\ Ends' /\ PortRefs'
        /\ \A C : Num(Thread, pc', C) = Num(Thread, pc, C) + Bit("return" \in C) - Bit("add" \in C)
        /\ \A C : Num(Session, phase', C) = Num(Session, phase, C) + Bit("free" \in C) - Bit("new" \in C)
    BY <1>1, <1>2, <1>4, <2>1, <2>2, HandStep DEF Empty, Uncounted
  <2>4. Backed'
    BY <1>0, <1>4, <2>3, Sums, Nums DEF Backed, Bit, Busy
  <2>5. TypeOK'
    <3>1. /\ pc' \in [Thread -> Places] /\ phase' \in [Session -> Phases]
          /\ mine' \in [Thread -> Session \cup {NoSession}]
      BY <1>2, <1>4, Types DEF Goto, Discard, Places, Phases
    <3> QED BY ZenonT(60), <1>1, <1>4, <3>1, Inv DEF TypeOK, Places, portSide, endSide
  <2> QED BY ZenonT(60), <2>3, <2>4, <2>5 DEF IInv
<1> QED BY ZenonT(60), <1>3, <1>4 DEF Add, resourceVars

\* Check: the loop goes on knowing that there is room, or gives the session up.
LEMMA CheckKeeps ==
    ASSUME IInv, NEW t \in Thread, NEW k \in {"load", "count"}, pc[t] = k, Check(t),
           UNCHANGED <<portVars, clientRefs, peakSessions, endVars, resourceVars, refs, owed, reserved>>
    PROVE  IInv'
<1>1. UNCHANGED <<portSide, endSide, current, limit, owed, reserved, new>>
  BY ZenonT(60) DEF Check, OutOfSessions, portVars, endVars, resourceVars, portSide, endSide
<1>0. UNCHANGED <<isLight, current, limit, owed>>
  BY ZenonT(60), <1>1 DEF portSide
<1>2. mine[t] \in Session /\ phase[mine[t]] = "new"
  BY NewInHand DEF Uncounted
<1>3. CASE /\ numSessions < MaxSessions /\ seen' = [seen EXCEPT ![t] = numSessions]
           /\ Goto(t, "count") /\ UNCHANGED <<phase, mine>>
  <2>1. Keeps(t) /\ pc'[t] = "count" /\ mine'[t] = mine[t] /\ seen'[t] < MaxSessions
    BY <1>1, <1>3, Types DEF Goto, Keeps
  <2>2. LocalOK(t)' /\ PhaseTo(mine[t], "new")
    <3>1. phase'[mine'[t]] = "new" /\ mine'[t] \in Session /\ PhaseTo(mine[t], "new")
      BY ZenonT(60), <1>2, <1>3, <2>1, PhaseStays
    <3> QED BY ZenonT(60), <2>1, <3>1 DEF LocalOK, Uncounted
  <2>3. /\ Locals' /\ Counts' /\ Peaks' /\ Ends' /\ PortRefs'
        /\ \A C : Num(Thread, pc', C) = Num(Thread, pc, C) + Bit("count" \in C) - Bit(k \in C)
    <3>1. /\ k \in (Empty \cup Uncounted) \ {"idle"} /\ "new" \in {"free", "unused", "new"}
          /\ "count" \in (Empty \cup Uncounted) \ {"idle", "wait"}
      BY DEF Empty, Uncounted
    <3> QED BY ZenonT(60), <1>1, <1>2, <1>3, <2>1, <2>2, <3>1, HandStep
  <2>4. Backed'
    <3>1. /\ Num(Thread, pc', {"add"}) = Num(Thread, pc, {"add"})
          /\ Num(Thread, pc', {"create"}) = Num(Thread, pc, {"create"})
          /\ Num(Thread, pc', {"release"}) = Num(Thread, pc, {"release"})
      BY <2>3, Nums DEF Bit
    <3> QED BY ZenonT(60), <1>0, <1>3, <3>1, Inv DEF Backed
  <2>5. TypeOK'
    <3>1. pc' \in [Thread -> Places] /\ seen' \in [Thread -> Int]
      BY <1>3, Types, Numbers DEF Goto, Places
    <3> QED BY ZenonT(60), <1>1, <1>3, <3>1, Inv DEF TypeOK, Places, portSide, endSide
  <2> QED BY ZenonT(60), <2>3, <2>4, <2>5 DEF IInv
<1>4. ASSUME NEW l \in {"release", "return"}, Goto(t, l), Discard(t), seen' = [seen EXCEPT ![t] = 0]
      PROVE  IInv'
  <2>1. /\ Keeps(t) /\ pc'[t] = l /\ mine'[t] = NoSession
        /\ PhaseTo(mine[t], "free")
    BY <1>1, <1>4, Types DEF Goto, Keeps, Discard, PhaseTo
  <2>2. LocalOK(t)'
    BY <2>1 DEF LocalOK, Empty
  <2>3. /\ Locals' /\ Counts' /\ Peaks' /\ Ends' /\ PortRefs'
        /\ \A C : Num(Thread, pc', C) = Num(Thread, pc, C) + Bit(l \in C) - Bit(k \in C)
        /\ \A C : Num(Session, phase', C) = Num(Session, phase, C) + Bit("free" \in C) - Bit("new" \in C)
    <3>1. /\ k \in (Empty \cup Uncounted) \ {"idle"} /\ l \in (Empty \cup Uncounted) \ {"idle", "wait"}
          /\ "new" \in {"free", "unused", "new"} /\ "free" \in {"free", "unused", "new"} /\ l # "count"
      BY <1>4 DEF Empty, Uncounted
    <3> QED BY ZenonT(60), <1>1, <1>2, <1>4, <2>1, <2>2, <3>1, HandStep
  <2>4. Backed'
    BY <1>0, <2>3, Sums, Nums DEF Backed, Bit, Busy
  <2>5. TypeOK'
    <3>1. /\ pc' \in [Thread -> Places] /\ phase' \in [Session -> Phases]
          /\ mine' \in [Thread -> Session \cup {NoSession}] /\ seen' \in [Thread -> Int]
      BY <1>2, <1>4, Types DEF Goto, Discard, Places, Phases
    <3> QED BY ZenonT(60), <1>1, <3>1, Inv DEF TypeOK, Places, portSide, endSide
  <2> QED BY ZenonT(60), <2>3, <2>4, <2>5 DEF IInv
<1>5. CASE OutOfSessions(t)
  <2>1. Goto(t, "release") \/ Goto(t, "return")
    BY ZenonT(60), <1>5 DEF OutOfSessions
  <2> QED BY ZenonT(60), <1>4, <1>5, <2>1 DEF OutOfSessions
<1> QED BY ZenonT(60), <1>3, <1>5 DEF Check

\* Load: the first look at the count.
LEMMA LoadKeeps ==
    ASSUME IInv, NEW t \in Thread, Load(t)
    PROVE  IInv'
  BY ZenonT(60), CheckKeeps DEF Load

\* Count: the compare-and-swap stores one more than what it compares with.
LEMMA CountKeeps ==
    ASSUME IInv, NEW t \in Thread, Count(t)
    PROVE  IInv'
<1>1. CASE numSessions # seen[t] /\ Check(t)
  BY ZenonT(60), <1>1, CheckKeeps DEF Count
<1>2. CASE numSessions = seen[t] /\ numSessions' = seen[t] + 1
  <2>1. /\ pc[t] = "count" /\ Goto(t, "loadPeak") /\ PhaseTo(mine[t], "counted")
        /\ highest' = (IF numSessions' > highest THEN numSessions' ELSE highest)
        /\ new' = [new EXCEPT ![t] = numSessions'] /\ seen' = [seen EXCEPT ![t] = 0]
    BY <1>2, Types DEF Count, Check, OutOfSessions, PhaseTo
  <2>2. UNCHANGED <<isLight, state, server, handle, clientRefs, peakSessions, endSide, current, limit,
                    owed, mine, reserved>>
    BY <1>2, Types DEF Count, Check, OutOfSessions, portVars, endVars, resourceVars, endSide
  <2>3. mine[t] \in Session /\ phase[mine[t]] = "new"
    BY <2>1, NewInHand DEF Uncounted
  <2>4. /\ Keeps(t) /\ pc'[t] = "loadPeak" /\ mine'[t] = mine[t] /\ new'[t] = numSessions'
        /\ phase'[mine[t]] = "counted" /\ \A s \in Session : s # mine[t] => phase'[s] = phase[s]
    BY <2>1, <2>2, <2>3, Types DEF Goto, PhaseTo, Keeps
  <2>5. /\ \A C : Num(Thread, pc', C) = Num(Thread, pc, C) + Bit("loadPeak" \in C) - Bit("count" \in C)
        /\ \A C : Num(Session, phase', C) = Num(Session, phase, C) + Bit("counted" \in C) - Bit("new" \in C)
    <3>1. pc[t] = "count" /\ Goto(t, "loadPeak") /\ phase[mine[t]] = "new" /\ PhaseTo(mine[t], "counted") /\ TypeOK
      BY ZenonT(60), <2>1, <2>3, Inv
    <3>2. \A C : Num(Thread, pc', C) = Num(Thread, pc, C) + Bit("loadPeak" \in C) - Bit("count" \in C)
      BY <3>1, PcMoves
    <3>3. \A C : Num(Session, phase', C) = Num(Session, phase, C) + Bit("counted" \in C) - Bit("new" \in C)
      BY ZenonT(60), <2>3, <3>1, PhaseMoves
    <3> QED BY ZenonT(60), <3>2, <3>3
  <2>6. numSessions < MaxSessions /\ numSessions' = numSessions + 1
    BY <1>2, <2>1, Inv, Types, Numbers DEF Counts
  <2>7. TypeOK'
    <3>1. /\ pc' \in [Thread -> Places] /\ phase' \in [Session -> Phases]
          /\ seen' \in [Thread -> Int] /\ new' \in [Thread -> Int]
          /\ numSessions' \in Int /\ highest' \in Int
      BY <2>1, <2>3, <2>6, Types DEF Goto, PhaseTo, Places, Phases
    <3> QED BY ZenonT(60), <2>2, <3>1, Inv DEF TypeOK, Places, endSide
  <2>8. Locals'
    <3>1. LocalOK(t)'
      BY <2>3, <2>4 DEF LocalOK, Raising
    <3> QED BY <2>4, <3>1, Inv, LocalsStep
  <2>9. Counts'
    <3>0. numSessions = Num(Session, phase, {"counted", "live", "dying"})
      BY ZenonT(60), Inv DEF Counts
    <3>1. numSessions' = Num(Session, phase', {"counted", "live", "dying"})
      BY <2>5, <2>6, <3>0, Nums DEF Bit
    <3>2. numSessions' <= MaxSessions
      BY <2>6, Numbers, MaxAssumption
    <3>3. \A u \in Thread : /\ pc'[u] # "wait"
                            /\ pc'[u] = "count" => seen'[u] < MaxSessions
      <4>1. numSessions # MaxSessions
        BY <2>6, Types, MaxAssumption
      <4>2. \A u \in Thread : pc[u] # "wait" /\ (pc[u] = "count" => seen[u] < MaxSessions)
        BY ZenonT(60), <4>1, Inv DEF Counts
      <4> QED BY <2>4, <4>2 DEF Keeps
    <3> QED BY ZenonT(60), <3>1, <3>2, <3>3 DEF Counts
  <2>10. Peaks'
    <3>1. /\ numSessions' <= highest' /\ highest <= highest'
          /\ highest' = highest \/ highest' = new'[t]
      BY <2>1, <2>4, <2>6, Types, Numbers
    <3>4. /\ peakSessions \in Int /\ highest \in Int /\ highest' \in Int /\ numSessions' \in Int
          /\ new \in [Thread -> Int] /\ Peaks
      BY ZenonT(60), <2>7, Inv DEF TypeOK
    <3>2. \A u \in Thread : /\ pc'[u] \in {"loadPeak", "peak"} => new'[u] <= highest'
                            /\ pc'[u] = "peak" => seen'[u] < new'[u]
      BY <2>4, <3>1, <3>4 DEF Peaks, Keeps
    <3>3. PeakExact'
      <4>0. peakSessions <= highest /\ UNCHANGED peakSessions
        BY ZenonT(60), <2>2, Inv DEF Peaks, PeakExact
      <4>1. peakSessions' <= highest' /\ peakSessions' = peakSessions
        BY <4>0, <3>1, <3>4
      <4>2. CASE highest' = new'[t]
        BY <2>4, <4>1, <4>2 DEF PeakExact
      <4>3. CASE highest' = highest /\ peakSessions < highest
        <5>1. PICK u \in Thread : pc[u] \in {"loadPeak", "peak"} /\ new[u] = highest
          BY ZenonT(60), <4>3, Inv DEF Peaks, PeakExact
        <5>2. pc'[u] = pc[u] /\ new'[u] = new[u]
          BY <2>1, <2>4, <5>1 DEF Keeps
        <5> QED BY <4>1, <4>3, <5>1, <5>2 DEF PeakExact
      <4> QED BY <3>1, <4>1, <4>2, <4>3 DEF PeakExact
    <3> QED BY ZenonT(60), <3>1, <3>2, <3>3 DEF Peaks
  <2>11. Ends'
    <3>1. \A s \in Session : /\ InHand(s)' <=> InHand(s)
                             /\ phase[s] = "live" => phase'[s] = "live"
      BY <2>1, <2>3, <2>4, InHandStep
    <3> QED BY ZenonT(60), <2>2, <3>1, Inv, EndsStep DEF endSide
  <2>12. PortRefs'
    BY <2>2, <2>5, Sums, Nums DEF PortRefs, Bit, Places
  <2>13. Backed'
    BY <2>2, <2>5, Sums, Nums DEF Backed, Bit, Busy
  <2> QED BY ZenonT(60), <2>7, <2>8, <2>9, <2>10, <2>11, <2>12, <2>13 DEF IInv
<1> QED BY ZenonT(60), <1>1, <1>2 DEF Count

\* What the loop that raises the peak leaves alone.
PeakOnly == UNCHANGED <<portVars, clientRefs, countVars, endVars, resourceVars, phase, refs, owed,
                        mine, reserved, new>>

\* A turn of the loop that raises the peak.
LEMMA RaiseStep ==
    ASSUME IInv, NEW t \in Thread, NEW k \in {"loadPeak", "peak"}, NEW l \in {"peak", "initialize"},
           pc[t] = k, Goto(t, l), NEW n \in Int, seen' = [seen EXCEPT ![t] = n],
           peakSessions' \in Int, peakSessions <= peakSessions', peakSessions' <= highest,
           l = "peak" => n < new[t], l = "initialize" => new[t] <= peakSessions', PeakOnly
    PROVE  IInv'
<1>1. /\ UNCHANGED <<isLight, state, server, handle, clientRefs, numSessions, highest, endSide>>
      /\ UNCHANGED <<current, limit, owed, phase, mine, reserved, new>>
  BY ZenonT(60) DEF PeakOnly, portVars, countVars, endVars, resourceVars, endSide
<1>2. Keeps(t) /\ pc'[t] = l /\ mine'[t] = mine[t] /\ seen'[t] = n
  <2>1. UNCHANGED <<mine, new>>
    BY ZenonT(60), <1>1
  <2> QED BY <2>1, Types DEF Goto, Keeps
<1>3. \A C : Num(Thread, pc', C) = Num(Thread, pc, C) + Bit(l \in C) - Bit(k \in C)
  BY ZenonT(60), Inv, PcMoves
<1>4. TypeOK'
  <2>1. pc' \in [Thread -> Places] /\ seen' \in [Thread -> Int]
    BY Types DEF Goto, Places
  <2> QED BY ZenonT(60), <1>1, <2>1, Inv DEF TypeOK, Places, endSide
<1>5. Locals'
  <2>1. LocalOK(t)
    BY ZenonT(60), Inv DEF Locals
  <2>2. LocalOK(t)'
    <3>1. phase' = phase /\ pc'[t] = l /\ mine'[t] = mine[t]
      BY ZenonT(60), <1>1, <1>2
    <3>2. pc[t] \in Raising /\ pc'[t] \in Raising /\ pc[t] \notin Empty /\ pc[t] \notin Uncounted
          /\ pc[t] # "enqueue"
      BY ZenonT(60), <3>1 DEF Empty, Uncounted, Raising
    <3> QED BY ZenonT(60), <2>1, <3>1, <3>2 DEF LocalOK
  <2>3. mine'[t] \in {NoSession, mine[t]} /\ \A s \in Session : phase'[s] = phase[s]
    BY ZenonT(60), <1>1, <1>2
  <2> QED BY ZenonT(60), <1>2, <2>2, <2>3, Inv, LocalsStep
<1>6. Counts'
  <2>1. /\ Num(Session, phase', {"counted", "live", "dying"}) = Num(Session, phase, {"counted", "live", "dying"})
        /\ UNCHANGED numSessions
    BY ZenonT(60), <1>1
  <2>2. pc'[t] = l
    BY ZenonT(60), <1>2
  <2>3. pc'[t] \notin {"count", "wait"}
    BY <2>2
  <2> QED BY ZenonT(60), <1>2, <2>1, <2>3, Inv, CountsStep
<1>7. Peaks'
  <2>1. /\ peakSessions \in Int /\ highest \in Int /\ new \in [Thread -> Int] /\ Peaks
        /\ UNCHANGED <<numSessions, highest, new>>
    BY ZenonT(60), <1>1, Inv, Types, Numbers
  <2>2. ASSUME NEW u \in Thread
        PROVE  /\ pc'[u] \in {"loadPeak", "peak"} => new'[u] <= highest'
               /\ pc'[u] = "peak" => seen'[u] < new'[u]
    <3>1. /\ pc[u] \in {"loadPeak", "peak"} => new[u] <= highest
          /\ pc[u] = "peak" => seen[u] < new[u]
      BY ZenonT(60), <2>1 DEF Peaks
    <3>2. new'[u] = new[u] /\ highest' = highest
      BY ZenonT(60), <2>1
    <3>3. CASE u = t
      <4>1. pc'[u] = l /\ seen'[u] = n
        BY ZenonT(60), <1>2, <3>3
      <4> QED BY <3>1, <3>2, <3>3, <4>1
    <3>4. CASE u # t
      <4>1. pc'[u] = pc[u] /\ seen'[u] = seen[u]
        BY ZenonT(60), <1>2, <3>4 DEF Keeps
      <4> QED BY ZenonT(60), <3>1, <3>2, <4>1
    <3> QED BY ZenonT(60), <3>3, <3>4
  <2>3. ASSUME peakSessions' < highest'
        PROVE  \E u \in Thread : pc'[u] \in {"loadPeak", "peak"} /\ new'[u] = highest'
    <3>1. peakSessions < highest
      BY <2>1, <2>3
    <3>2. PICK u \in Thread : pc[u] \in {"loadPeak", "peak"} /\ new[u] = highest
      BY ZenonT(60), <2>1, <3>1 DEF Peaks, PeakExact
    <3>3. pc'[u] \in {"loadPeak", "peak"}
      BY <1>2, <2>1, <2>3, <3>2 DEF Keeps
    <3> QED BY <2>1, <3>2, <3>3
  <2> QED BY ZenonT(60), <2>1, <2>2, <2>3 DEF Peaks, PeakExact
<1>8. Ends'
  <2>1. \A s \in Session : /\ InHand(s)' <=> InHand(s)
                           /\ phase[s] = "live" => phase'[s] = "live"
    <3>1. pc[t] # "enqueue" /\ pc'[t] # "enqueue"
      BY <1>2
    <3> QED BY ZenonT(60), <1>1, <1>2, <3>1, InHandStep
  <2> QED BY ZenonT(60), <1>1, <2>1, Inv, EndsStep DEF endSide
<1>9. PortRefs'
  <2>1. Num(Thread, pc', Places \ {"idle"}) = Num(Thread, pc, Places \ {"idle"})
    BY <1>3, Nums DEF Bit, Places
  <2> QED BY ZenonT(60), <1>1, <2>1, Inv DEF PortRefs
<1>10. Backed'
  <2>1. /\ Num(Thread, pc', {"add"}) = Num(Thread, pc, {"add"})
        /\ Num(Thread, pc', {"create"}) = Num(Thread, pc, {"create"})
        /\ Num(Thread, pc', {"release"}) = Num(Thread, pc, {"release"})
    BY <1>3, Nums DEF Bit
  <2> QED BY ZenonT(60), <1>1, <2>1, Inv DEF Backed
<1> QED BY ZenonT(60), <1>4, <1>5, <1>6, <1>7, <1>8, <1>9, <1>10 DEF IInv

\* CheckPeak: the loop goes on knowing that the peak is lower, or ends.
LEMMA CheckPeakKeeps ==
    ASSUME IInv, NEW t \in Thread, NEW k \in {"loadPeak", "peak"}, pc[t] = k, CheckPeak(t), PeakOnly
    PROVE  IInv'
<1>1. /\ seen' = [seen EXCEPT ![t] = peakSessions] /\ peakSessions' = peakSessions
      /\ peakSessions \in Int /\ peakSessions <= highest /\ new[t] \in Int
  BY Inv, Types, Numbers DEF CheckPeak, Peaks, PeakExact
<1>2. CASE peakSessions >= new[t]
  <2>1. Goto(t, "initialize")
    BY ZenonT(60), <1>2 DEF CheckPeak
  <2>2. peakSessions' \in Int /\ peakSessions <= peakSessions' /\ peakSessions' <= highest /\ new[t] <= peakSessions'
    BY <1>1, <1>2
  <2> QED BY ZenonT(60), <1>1, <2>1, <2>2, RaiseStep
<1>3. CASE ~(peakSessions >= new[t])
  <2>1. Goto(t, "peak")
    BY ZenonT(60), <1>3 DEF CheckPeak
  <2>2. /\ peakSessions' \in Int /\ peakSessions <= peakSessions' /\ peakSessions' <= highest
        /\ peakSessions < new[t]
    BY <1>1, <1>3
  <2> QED BY ZenonT(60), <1>1, <2>1, <2>2, RaiseStep
<1> QED BY <1>2, <1>3

\* LoadPeak: the first look at the peak.
LEMMA LoadPeakKeeps ==
    ASSUME IInv, NEW t \in Thread, LoadPeak(t)
    PROVE  IInv'
  BY ZenonT(60), CheckPeakKeeps DEF LoadPeak, PeakOnly

\* Peak: the compare-and-swap only ever raises the peak.
LEMMA PeakKeeps ==
    ASSUME IInv, NEW t \in Thread, Peak(t)
    PROVE  IInv'
<1>1. CASE peakSessions # seen[t] /\ CheckPeak(t)
  BY ZenonT(60), <1>1, CheckPeakKeeps DEF Peak, PeakOnly
<1>2. CASE peakSessions = seen[t] /\ peakSessions' = new[t] /\ Goto(t, "initialize") /\ UNCHANGED seen
  <2>1. pc[t] = "peak" /\ PeakOnly
    BY ZenonT(60) DEF Peak, PeakOnly
  <2>2. /\ seen[t] < new[t] /\ new[t] <= highest
        /\ seen[t] \in Int /\ new[t] \in Int /\ seen' = [seen EXCEPT ![t] = seen[t]]
    BY <1>2, <2>1, Inv, Types, Numbers DEF Peaks
  <2>3. /\ peakSessions' \in Int /\ peakSessions <= peakSessions' /\ peakSessions' <= highest
        /\ new[t] <= peakSessions'
    BY <1>2, <2>2
  <2> QED BY ZenonT(60), <1>2, <2>1, <2>2, <2>3, RaiseStep
<1> QED BY ZenonT(60), <1>1, <1>2 DEF Peak

\* A thread past the count has a session that is counted, or live at the queue.
LEMMA CountedInHand ==
    ASSUME IInv, NEW t \in Thread
    PROVE  /\ pc[t] = "initialize" => mine[t] \in Session /\ phase[mine[t]] = "counted"
           /\ pc[t] = "enqueue" => mine[t] \in Session /\ phase[mine[t]] = "live"
<1>1. LocalOK(t)
  BY ZenonT(60), Inv DEF Locals
<1> QED BY <1>1 DEF LocalOK, Empty, Uncounted, Raising

\* A session's ends are in the hands of its one thread only.
LEMMA HandIsOne ==
    ASSUME IInv, NEW t \in Thread, mine[t] \in Session
    PROVE  InHand(mine[t]) <=> pc[t] = "enqueue"
  BY ZenonT(60), Inv DEF Locals, InHand

\* Initialize: the session gets its two ends and its reference to the port.
LEMMA InitializeKeeps ==
    ASSUME IInv, NEW t \in Thread, Initialize(t)
    PROVE  IInv'
<1>0. pc[t] = "initialize"
  BY ZenonT(60) DEF Initialize
<1>3. PICK m \in Session : m = mine[t] /\ phase[m] = "counted"
  BY <1>0, CountedInHand
<1>1. /\ pc[t] = "initialize" /\ Goto(t, "enqueue") /\ PhaseTo(m, "live")
      /\ refs' = [refs EXCEPT ![m] = 2] /\ clientRefs' = clientRefs + 1
      /\ reserved' = [reserved EXCEPT ![t] = FALSE]
      /\ seen' = [seen EXCEPT ![t] = 0] /\ new' = [new EXCEPT ![t] = 0]
  BY ZenonT(60), <1>3 DEF Initialize, PhaseTo
<1>2. /\ UNCHANGED <<isLight, state, server, handle, numSessions, highest, peakSessions>>
      /\ UNCHANGED <<list, connected, accepted, waiting, current, limit, owed, mine>>
  BY ZenonT(60) DEF Initialize, portVars, countVars, endVars, resourceVars
<1>4. /\ Keeps(t) /\ pc'[t] = "enqueue" /\ mine'[t] = m /\ phase'[m] = "live" /\ refs'[m] = 2
      /\ \A s \in Session : s # m => phase'[s] = phase[s] /\ refs'[s] = refs[s]
  BY <1>1, <1>2, <1>3, Types DEF Goto, PhaseTo, Keeps
<1>5. /\ \A C : Num(Thread, pc', C) = Num(Thread, pc, C) + Bit("enqueue" \in C) - Bit("initialize" \in C)
      /\ \A C : Num(Session, phase', C) = Num(Session, phase, C) + Bit("live" \in C) - Bit("counted" \in C)
  <2>1. pc[t] = "initialize" /\ Goto(t, "enqueue") /\ phase[m] = "counted" /\ PhaseTo(m, "live") /\ TypeOK
    BY ZenonT(60), <1>1, <1>3, Inv
  <2>2. \A C : Num(Thread, pc', C) = Num(Thread, pc, C) + Bit("enqueue" \in C) - Bit("initialize" \in C)
    BY <2>1, PcMoves
  <2>3. \A C : Num(Session, phase', C) = Num(Session, phase, C) + Bit("live" \in C) - Bit("counted" \in C)
    BY <2>1, PhaseMoves
  <2> QED BY <2>2, <2>3
<1>6. TypeOK'
  <2>1. /\ pc' \in [Thread -> Places] /\ phase' \in [Session -> Phases]
        /\ seen' \in [Thread -> Int] /\ new' \in [Thread -> Int]
        /\ refs' \in [Session -> Int] /\ clientRefs' \in Int
    <3>1. pc' \in [Thread -> Places] /\ phase' \in [Session -> Phases] /\ refs' \in [Session -> Int]
      BY <1>1, <1>3, Types DEF Goto, PhaseTo, Places, Phases
    <3>2. seen' \in [Thread -> Int] /\ new' \in [Thread -> Int]
      BY <1>1, Types
    <3>3. clientRefs' \in Int
      BY <1>1, Numbers
    <3> QED BY ZenonT(60), <3>1, <3>2, <3>3
  <2>2. reserved' \in [Thread -> BOOLEAN]
    BY ZenonT(60), <1>1, Inv DEF TypeOK
  <2> QED BY ZenonT(60), <1>2, <2>1, <2>2, Inv DEF TypeOK, Places
<1>7. Locals'
  <2>1. LocalOK(t)'
    BY <1>3, <1>4 DEF LocalOK
  <2>2. mine'[t] \in {NoSession, mine[t]} /\ \A s \in Session : s # mine[t] => phase'[s] = phase[s]
    BY <1>3, <1>4
  <2> QED BY ZenonT(60), <1>4, <2>1, <2>2, Inv, LocalsStep
<1>8. Counts'
  <2>1. Num(Session, phase', {"counted", "live", "dying"}) = Num(Session, phase, {"counted", "live", "dying"})
    BY <1>5, Nums DEF Bit
  <2>2. pc'[t] = "enqueue"
    BY ZenonT(60), <1>4
  <2>3. pc'[t] \notin {"count", "wait"}
    BY <2>2
  <2> QED BY ZenonT(60), <1>2, <1>4, <2>1, <2>3, Inv, CountsStep
<1>9. Peaks'
  <2>1. pc'[t] = "enqueue" /\ UNCHANGED <<numSessions, highest, peakSessions>>
    BY ZenonT(60), <1>2, <1>4
  <2>2. pc[t] \notin {"loadPeak", "peak"} /\ pc'[t] \notin {"loadPeak", "peak"}
    BY <1>0, <2>1
  <2> QED BY ZenonT(60), <1>4, <2>1, <2>2, Inv, PeaksStep
<1>10. Ends'
  <2>1. \A s \in Session : Listed(s)' <=> Listed(s)
    BY ZenonT(60), <1>2 DEF Listed
  <2>2. \A s \in Session : InHand(s)' <=> InHand(s) \/ s = m
    <3>1. Keeps(t) /\ pc'[t] = "enqueue" /\ mine'[t] = m
      BY ZenonT(60), <1>4
    <3>2. pc[t] # "enqueue"
      BY <1>0
    <3> QED BY ZenonT(60), <3>1, <3>2 DEF InHand, Keeps
  <2>3. \A s \in Session : HeldRight(s)
    BY ZenonT(60), Inv DEF Ends
  <2>4. HeldRight(m)'
    <3>1. ~InHand(m) /\ m \notin connected /\ m \notin accepted /\ ~Listed(m)
      BY <1>0, <1>3, <2>3, HandIsOne DEF HeldRight
    <3>2. /\ refs'[m] = 2 /\ InHand(m)' /\ ~Listed(m)'
          /\ m \notin connected' /\ m \notin accepted'
      BY ZenonT(60), <1>2, <1>4, <2>1, <2>2, <3>1
    <3> QED BY <3>2 DEF HeldRight, Bit
  <2>5. ASSUME NEW s \in Session, s # m PROVE HeldRight(s)'
    BY ZenonT(60), <1>2, <1>4, <2>1, <2>2, <2>3, <2>5, HeldStays
  <2>6. ListRight'
    BY ZenonT(60), <1>2, Inv, ListStays DEF Ends
  <2> QED BY ZenonT(60), <2>4, <2>5, <2>6 DEF Ends
<1>11. PortRefs'
  BY <1>1, <1>2, <1>5, Sums, Nums DEF PortRefs, Bit, Places
<1>12. Backed'
  BY <1>2, <1>5, Sums, Nums DEF Backed, Bit, Busy
<1> QED BY ZenonT(60), <1>6, <1>7, <1>8, <1>9, <1>10, <1>11, <1>12 DEF IInv

\* Appending a session to the list.
LEMMA AppendListed ==
    ASSUME IInv, NEW s \in Session, list' = Append(list, s), ~Listed(s)
    PROVE  /\ list' \in Seq(Session) /\ list' # <<>>
           /\ \A r : Listed(r)' <=> Listed(r) \/ r = s
           /\ Once(list')
<1>1. list \in Seq(Session) /\ Once(list)
  BY ZenonT(60), Inv, Numbers DEF Ends, ListRight
<1>2. /\ list' \in Seq(Session) /\ Len(list') = Len(list) + 1 /\ Len(list) \in Nat
      /\ \A i \in 1..Len(list) : list'[i] = list[i]
      /\ list'[Len(list) + 1] = s
  BY <1>1
<1>3. \A r : Listed(r)' <=> Listed(r) \/ r = s
  BY <1>2 DEF Listed
<1>4. Once(list')
  BY <1>1, <1>2 DEF Listed, Once
<1>5. list' # <<>>
  BY <1>2
<1> QED BY <1>2, <1>3, <1>4, <1>5

\* Taking the first session off the list.
LEMMA TailListed ==
    ASSUME IInv, list # <<>>, list' = Tail(list)
    PROVE  /\ list' \in Seq(Session) /\ Head(list) \in Session /\ Listed(Head(list))
           /\ \A r : Listed(r)' <=> Listed(r) /\ r # Head(list)
           /\ Once(list')
<1>1. list \in Seq(Session) /\ Once(list)
  BY ZenonT(60), Inv, Numbers DEF Ends, ListRight
<1>2. /\ list' \in Seq(Session) /\ Len(list') = Len(list) - 1 /\ Len(list) \in Nat \ {0}
      /\ \A i \in 1..(Len(list) - 1) : list'[i] = list[i + 1]
      /\ Head(list) = list[1] /\ Head(list) \in Session
  BY <1>1
<1>3. Listed(Head(list))
  BY <1>2 DEF Listed
<1>4. Once(list')
  BY <1>1, <1>2 DEF Once
<1>5. ASSUME NEW r, Listed(r)' PROVE Listed(r) /\ r # Head(list)
  <2>1. PICK i \in 1..(Len(list) - 1) : list[i + 1] = r
    BY <1>2, <1>5 DEF Listed
  <2>2. i + 1 \in 1..Len(list) /\ i + 1 # 1
    BY <1>2
  <2> QED BY <1>1, <1>2, <2>1, <2>2 DEF Listed, Once
<1>6. ASSUME NEW r, Listed(r), r # Head(list) PROVE Listed(r)'
  <2>1. PICK i \in 1..Len(list) : list[i] = r
    BY <1>6 DEF Listed
  <2>2. i - 1 \in 1..(Len(list) - 1) /\ i = (i - 1) + 1
    BY <1>2, <1>6, <2>1
  <2>3. list'[i - 1] = r
    BY <1>2, <2>1, <2>2
  <2>4. i - 1 \in 1..Len(list')
    BY ZenonT(60), <1>2, <2>2
  <2> QED BY ZenonT(60), <2>3, <2>4 DEF Listed
<1> QED BY <1>2, <1>3, <1>4, <1>5, <1>6

\* Enqueue: the ends go to the client and to the list, or are closed.
LEMMA EnqueueKeeps ==
    ASSUME IInv, NEW t \in Thread, Enqueue(t)
    PROVE  IInv'
<1>0. pc[t] = "enqueue"
  BY ZenonT(60) DEF Enqueue
<1>1. PICK m \in Session : m = mine[t] /\ phase[m] = "live"
  BY <1>0, CountedInHand
<1>2. /\ Goto(t, "return") /\ mine' = [mine EXCEPT ![t] = NoSession]
      /\ UNCHANGED <<isLight, state, server, handle, clientRefs, numSessions, highest, peakSessions>>
      /\ UNCHANGED <<accepted, current, limit, owed, reserved, seen, new>>
  BY ZenonT(60) DEF Enqueue, portVars, countVars, resourceVars
<1>3. Keeps(t) /\ pc'[t] = "return" /\ mine'[t] = NoSession
  BY <1>2, Types DEF Goto, Keeps
<1>4. LocalOK(t)'
  BY <1>3 DEF LocalOK, Empty
<1>5. \A C : Num(Thread, pc', C) = Num(Thread, pc, C) + Bit("return" \in C) - Bit("enqueue" \in C)
  BY ZenonT(60), <1>0, <1>2, Inv, PcMoves
<1>6. Peaks'
  <2>1. /\ UNCHANGED <<numSessions, highest, peakSessions>>
        /\ pc[t] \notin {"loadPeak", "peak"} /\ pc'[t] \notin {"loadPeak", "peak"}
    BY <1>0, <1>2, <1>3
  <2> QED BY ZenonT(60), <1>3, <2>1, Inv, PeaksStep
<1>7. /\ ListRight /\ \A s \in Session : HeldRight(s)
      /\ m \notin connected /\ m \notin accepted /\ ~Listed(m) /\ refs[m] = 2
  <2>1. ListRight /\ \A s \in Session : HeldRight(s)
    BY ZenonT(60), Inv DEF Ends
  <2>2. InHand(m)
    BY <1>0, <1>1, HandIsOne
  <2> QED BY <2>1, <2>2 DEF HeldRight, Bit
<1>8. \A s \in Session : InHand(s)' <=> InHand(s) /\ s # m
  <2>1. \A u \in Thread : u # t => mine[u] # m
    BY <1>1, Inv DEF Locals
  <2> QED BY <1>0, <1>1, <1>3, <2>1 DEF InHand, Keeps
<1>9. CASE /\ state = "Normal" /\ list' = Append(list, m) /\ waiting' = (waiting /\ Len(list') # 1)
           /\ connected' = connected \cup {m} /\ UNCHANGED <<phase, refs>>
  <2>1. /\ list' \in Seq(Session) /\ list' # <<>>
        /\ \A r : Listed(r)' <=> Listed(r) \/ r = m
        /\ Once(list')
    BY <1>7, <1>9, AppendListed
  <2>2. ~waiting' /\ waiting' \in BOOLEAN
    <3>1. waiting => list = <<>>
      BY ZenonT(60), <1>7 DEF ListRight
    <3>2. list = <<>> => Len(list') = 1
      BY <1>9
    <3> QED BY ZenonT(60), <1>9, <3>1, <3>2
  <2>3. ListRight'
    BY ZenonT(60), <1>2, <1>7, <1>9, <2>1, <2>2 DEF ListRight
  <2>4. HeldRight(m)'
    <3>1. /\ refs'[m] = 2 /\ phase'[m] = "live" /\ ~InHand(m)' /\ Listed(m)'
          /\ m \in connected' /\ m \notin accepted'
      BY ZenonT(60), <1>1, <1>2, <1>7, <1>8, <1>9, <2>1
    <3> QED BY <3>1 DEF HeldRight, Bit
  <2>5. ASSUME NEW s \in Session, s # m PROVE HeldRight(s)'
    BY ZenonT(60), <1>2, <1>7, <1>8, <1>9, <2>1, <2>5, HeldStays
  <2>6. Ends'
    BY ZenonT(60), <2>3, <2>4, <2>5 DEF Ends
  <2>7. Locals'
    <3>1. mine'[t] \in {NoSession, mine[t]} /\ \A s \in Session : phase'[s] = phase[s]
      BY <1>3, <1>9
    <3> QED BY ZenonT(60), <1>3, <1>4, <3>1, Inv, LocalsStep
  <2>8. Counts'
    <3>1. /\ Num(Session, phase', {"counted", "live", "dying"}) = Num(Session, phase, {"counted", "live", "dying"})
          /\ UNCHANGED numSessions /\ pc'[t] \notin {"count", "wait"}
      BY <1>2, <1>3, <1>9
    <3> QED BY ZenonT(60), <1>3, <3>1, Inv, CountsStep
  <2>9. PortRefs'
    <3>1. UNCHANGED <<phase, handle, clientRefs>>
      BY ZenonT(60), <1>2, <1>9
    <3> QED BY <1>5, <3>1, Sums, Nums DEF PortRefs, Bit, Places
  <2>10. Backed'
    <3>1. UNCHANGED <<phase, isLight, current, limit, owed>>
      BY ZenonT(60), <1>2, <1>9
    <3> QED BY <1>5, <3>1, Sums, Nums DEF Backed, Bit
  <2>11. TypeOK'
    <3>1. pc' \in [Thread -> Places] /\ mine' \in [Thread -> Session \cup {NoSession}]
      BY <1>2, Types DEF Goto, Places
    <3>2. connected' \subseteq Session
      BY <1>9, Inv DEF TypeOK
    <3> QED BY ZenonT(60), <1>2, <1>9, <2>1, <2>2, <3>1, <3>2, Inv DEF TypeOK, Places
  <2> QED BY ZenonT(60), <1>6, <2>6, <2>7, <2>8, <2>9, <2>10, <2>11 DEF IInv
<1>10. CASE /\ refs' = [refs EXCEPT ![m] = 0] /\ PhaseTo(m, "dying")
            /\ UNCHANGED <<list, waiting, connected>>
  <2>1. /\ phase'[m] = "dying" /\ refs'[m] = 0
        /\ \A s \in Session : s # m => phase'[s] = phase[s] /\ refs'[s] = refs[s]
    BY <1>10, Types DEF PhaseTo
  <2>2. \A C : Num(Session, phase', C) = Num(Session, phase, C) + Bit("dying" \in C) - Bit("live" \in C)
    <3>1. phase[m] = "live" /\ PhaseTo(m, "dying") /\ TypeOK
      BY ZenonT(60), <1>1, <1>10, Inv
    <3> QED BY <3>1, PhaseMoves
  <2>3. \A s \in Session : Listed(s)' <=> Listed(s)
    BY ZenonT(60), <1>10 DEF Listed
  <2>4. HeldRight(m)'
    <3>1. /\ refs'[m] = 0 /\ ~InHand(m)' /\ ~Listed(m)'
          /\ m \notin connected' /\ m \notin accepted'
      BY ZenonT(60), <1>2, <1>7, <1>8, <1>10, <2>1, <2>3
    <3> QED BY <3>1 DEF HeldRight, Bit
  <2>5. ASSUME NEW s \in Session, s # m PROVE HeldRight(s)'
    BY ZenonT(60), <1>2, <1>7, <1>8, <1>10, <2>1, <2>3, <2>5, HeldStays
  <2>6. Ends'
    <3>1. ListRight'
      BY ZenonT(60), <1>2, <1>7, <1>10, ListStays
    <3> QED BY ZenonT(60), <2>4, <2>5, <3>1 DEF Ends
  <2>7. Locals'
    <3>1. mine'[t] \in {NoSession, mine[t]} /\ \A s \in Session : s # mine[t] => phase'[s] = phase[s]
      BY <1>1, <1>3, <2>1
    <3> QED BY ZenonT(60), <1>3, <1>4, <3>1, Inv, LocalsStep
  <2>8. Counts'
    <3>1. Num(Session, phase', {"counted", "live", "dying"}) = Num(Session, phase, {"counted", "live", "dying"})
      BY <2>2, Nums DEF Bit
    <3>2. UNCHANGED numSessions /\ pc'[t] \notin {"count", "wait"}
      BY <1>2, <1>3
    <3> QED BY ZenonT(60), <1>3, <3>1, <3>2, Inv, CountsStep
  <2>9. PortRefs'
    BY <1>2, <1>5, <2>2, Sums, Nums DEF PortRefs, Bit, Places
  <2>10. Backed'
    BY <1>2, <1>5, <2>2, Sums, Nums DEF Backed, Bit, Busy
  <2>11. TypeOK'
    <3>1. /\ pc' \in [Thread -> Places] /\ mine' \in [Thread -> Session \cup {NoSession}]
          /\ refs' \in [Session -> Int] /\ phase' \in [Session -> Phases]
      BY <1>2, <1>10, Types DEF Goto, PhaseTo, Places, Phases
    <3> QED BY ZenonT(60), <1>2, <1>10, <3>1, Inv DEF TypeOK, Places
  <2> QED BY ZenonT(60), <1>6, <2>6, <2>7, <2>8, <2>9, <2>10, <2>11 DEF IInv
<1> QED BY ZenonT(60), <1>1, <1>9, <1>10 DEF Enqueue, PhaseTo

\* Release: the reservation is given back.
LEMMA ReleaseKeeps ==
    ASSUME IInv, NEW t \in Thread, Release(t)
    PROVE  IInv'
<1>1. /\ pc[t] = "release" /\ Goto(t, "return") /\ current' = current - 1
      /\ reserved' = [reserved EXCEPT ![t] = FALSE]
      /\ UNCHANGED <<portSide, endSide, limit, owed, phase, mine, seen, new>>
  BY ZenonT(60) DEF Release, portVars, countVars, endVars, portSide, endSide
<1>2. Locals' /\ Counts' /\ Peaks' /\ Ends'
  BY <1>1, EmptyStep DEF Empty, portSide, endSide
<1>3. \A C : Num(Thread, pc', C) = Num(Thread, pc, C) + Bit("return" \in C) - Bit("release" \in C)
  BY ZenonT(60), <1>1, Inv, PcMoves
<1>4. UNCHANGED <<isLight, handle, clientRefs, limit, owed, phase>>
  BY ZenonT(60), <1>1 DEF portSide
<1>5. PortRefs'
  BY <1>3, <1>4, Sums, Nums DEF PortRefs, Bit, Places
<1>6. Backed'
  BY <1>1, <1>3, <1>4, Sums, Nums DEF Backed, Bit
<1>7. TypeOK'
  <2>1. pc' \in [Thread -> Places] /\ current' \in Int
    BY <1>1, Types DEF Goto, Places
  <2>2. reserved' \in [Thread -> BOOLEAN]
    BY ZenonT(60), <1>1, Inv DEF TypeOK
  <2> QED BY ZenonT(60), <1>1, <2>1, <2>2, Inv DEF TypeOK, Places, portSide, endSide
<1> QED BY ZenonT(60), <1>2, <1>5, <1>6, <1>7 DEF IInv

\* The client port's Close lowers its count, and may only end the port's normal state.
LEMMA ClosePort ==
    ASSUME IInv, CloseClientPort
    PROVE  /\ clientRefs' = clientRefs - 1 /\ clientRefs' \in Int
           /\ state' \in {"Normal", "ClientClosed", "ServerClosed"}
           /\ state' = state \/ state' # "Normal"
  BY DEF IInv, TypeOK, CloseClientPort

\* Return: the call gives up its reference.
LEMMA ReturnKeeps ==
    ASSUME IInv, NEW t \in Thread, Return(t)
    PROVE  IInv'
<1>1. /\ pc[t] = "return" /\ Goto(t, "idle") /\ CloseClientPort
      /\ UNCHANGED <<isLight, server, handle, numSessions, highest, peakSessions, endSide>>
      /\ UNCHANGED <<current, limit, owed, phase, mine, reserved, seen, new>>
  BY ZenonT(60) DEF Return, countVars, endVars, resourceVars, endSide
<1>2. Locals' /\ Counts' /\ Peaks' /\ Ends'
  BY <1>1, ClosePort, EmptyStep DEF Empty, endSide
<1>3. \A C : Num(Thread, pc', C) = Num(Thread, pc, C) + Bit("idle" \in C) - Bit("return" \in C)
  BY ZenonT(60), <1>1, Inv, PcMoves
<1>4. UNCHANGED <<isLight, handle, current, limit, owed, phase>>
  BY ZenonT(60), <1>1
<1>5. PortRefs'
  BY <1>1, <1>3, <1>4, ClosePort, Sums, Nums DEF PortRefs, Bit, Places
<1>6. Backed'
  BY <1>3, <1>4, Sums, Nums DEF Backed, Bit
<1>7. TypeOK'
  <2>1. pc' \in [Thread -> Places]
    BY <1>1, Types DEF Goto, Places
  <2> QED BY ZenonT(60), <1>1, <2>1, ClosePort, Inv DEF TypeOK, Places, endSide
<1> QED BY ZenonT(60), <1>2, <1>5, <1>6, <1>7 DEF IInv

\* ClientWait: a wait begins only at a port that is full.
LEMMA ClientWaitKeeps ==
    ASSUME IInv, NEW t \in Thread, ClientWait(t)
    PROVE  IInv'
<1>1. /\ pc[t] = "idle" /\ Goto(t, "wait") /\ clientRefs' = clientRefs + 1 /\ numSessions >= MaxSessions
      /\ UNCHANGED <<isLight, state, server, handle, numSessions, highest, peakSessions, endSide>>
      /\ UNCHANGED <<current, limit, owed, phase, mine, reserved, seen, new>>
  BY ZenonT(60) DEF ClientWait, portVars, countVars, endVars, resourceVars, endSide
<1>2. Locals' /\ Counts' /\ Peaks' /\ Ends'
  BY <1>1, EmptyStep DEF Empty, endSide
<1>3. \A C : Num(Thread, pc', C) = Num(Thread, pc, C) + Bit("wait" \in C) - Bit("idle" \in C)
  BY ZenonT(60), <1>1, Inv, PcMoves
<1>4. UNCHANGED <<isLight, handle, current, limit, owed, phase>>
  BY ZenonT(60), <1>1
<1>5. PortRefs'
  BY <1>1, <1>3, <1>4, Sums, Nums DEF PortRefs, Bit, Places
<1>6. Backed'
  BY <1>3, <1>4, Sums, Nums DEF Backed, Bit
<1>7. TypeOK'
  <2>1. pc' \in [Thread -> Places] /\ clientRefs' \in Int
    BY <1>1, Types DEF Goto, Places
  <2> QED BY ZenonT(60), <1>1, <2>1, Inv DEF TypeOK, Places, endSide
<1> QED BY ZenonT(60), <1>2, <1>5, <1>6, <1>7 DEF IInv

\* ClientWaitEnds: a wait that is given up.
LEMMA ClientWaitEndsKeeps ==
    ASSUME IInv, NEW t \in Thread, ClientWaitEnds(t)
    PROVE  IInv'
<1>1. /\ pc[t] = "wait" /\ Goto(t, "return")
      /\ UNCHANGED <<portSide, endSide, current, limit, owed, phase, mine, reserved, seen, new>>
  BY ZenonT(60) DEF ClientWaitEnds, portVars, countVars, endVars, resourceVars, portSide, endSide
<1>2. Locals' /\ Counts' /\ Peaks' /\ Ends'
  BY <1>1, EmptyStep DEF Empty, portSide, endSide
<1>3. \A C : Num(Thread, pc', C) = Num(Thread, pc, C) + Bit("return" \in C) - Bit("wait" \in C)
  BY ZenonT(60), <1>1, Inv, PcMoves
<1>4. UNCHANGED <<isLight, handle, clientRefs, current, limit, owed, phase>>
  BY ZenonT(60), <1>1 DEF portSide
<1>5. PortRefs'
  BY <1>3, <1>4, Sums, Nums DEF PortRefs, Bit, Places
<1>6. Backed'
  BY <1>3, <1>4, Sums, Nums DEF Backed, Bit
<1>7. TypeOK'
  <2>1. pc' \in [Thread -> Places]
    BY <1>1, Types DEF Goto, Places
  <2> QED BY ZenonT(60), <1>1, <2>1, Inv DEF TypeOK, Places, portSide, endSide
<1> QED BY ZenonT(60), <1>2, <1>5, <1>6, <1>7 DEF IInv

-----------------------------------------------------------------------------
(* The handles and the server port.                                        *)

\* The threads of the client and the sessions are left alone.
LEMMA QuietStep ==
    ASSUME IInv, UNCHANGED <<localVars, phase, numSessions, highest, peakSessions>>
    PROVE  /\ Locals' /\ Counts' /\ Peaks'
           /\ \A s \in Session : InHand(s)' <=> InHand(s)
<1>1. UNCHANGED <<pc, mine, seen, new, phase, numSessions, highest, peakSessions>>
  BY ZenonT(60) DEF localVars
<1>2. Locals'
  BY ZenonT(60), <1>1, Inv DEF Locals, LocalOK
<1>3. Counts'
  BY ZenonT(60), <1>1, Inv DEF Counts
<1>4. Peaks'
  BY ZenonT(60), <1>1, Inv DEF Peaks, PeakExact
<1>5. \A s \in Session : InHand(s)' <=> InHand(s)
  BY ZenonT(60), <1>1 DEF InHand
<1> QED BY <1>2, <1>3, <1>4, <1>5

\* The references to the port and the reservations are left alone too.
LEMMA SumsStay ==
    ASSUME IInv, UNCHANGED <<pc, phase, isLight, handle, clientRefs, current, limit, owed>>
    PROVE  PortRefs' /\ Backed'
  BY ZenonT(60), Sums DEF PortRefs, Backed

\* CloseHandle: the handle's reference goes.
LEMMA CloseHandleKeeps ==
    ASSUME IInv, CloseHandle
    PROVE  IInv'
<1>1. /\ handle /\ handle' = FALSE /\ CloseClientPort
      /\ UNCHANGED <<isLight, server, numSessions, highest, peakSessions, endSide>>
      /\ UNCHANGED <<current, limit, owed, phase, localVars>>
  BY ZenonT(60) DEF CloseHandle, countVars, endVars, resourceVars, endSide
<1>2. Locals' /\ Counts' /\ Peaks' /\ \A s \in Session : InHand(s)' <=> InHand(s)
  BY ZenonT(60), <1>1, QuietStep
<1>3. Ends'
  BY ZenonT(60), <1>1, <1>2, ClosePort, Inv, EndsStep DEF endSide
<1>4. UNCHANGED <<pc, phase, isLight, current, limit, owed>>
  BY <1>1 DEF localVars
<1>5. PortRefs'
  BY <1>1, <1>4, ClosePort, Sums, Nums DEF PortRefs, Bit
<1>6. Backed'
  BY ZenonT(60), <1>4, Sums DEF Backed
<1>7. TypeOK'
  BY ZenonT(60), <1>1, ClosePort, Inv DEF TypeOK, endSide, localVars
<1> QED BY ZenonT(60), <1>2, <1>3, <1>5, <1>6, <1>7 DEF IInv

\* ServerWait: a wait begins only at an empty list.
LEMMA ServerWaitKeeps ==
    ASSUME IInv, ServerWait
    PROVE  IInv'
<1>1. /\ waiting \/ list = <<>>
      /\ waiting' = ~waiting
      /\ UNCHANGED <<portSide, list, connected, accepted, current, limit, phase, refs, owed, localVars>>
  BY ZenonT(60) DEF ServerWait, portVars, countVars, resourceVars, portSide
<1>2. Locals' /\ Counts' /\ Peaks' /\ \A s \in Session : InHand(s)' <=> InHand(s)
  BY ZenonT(60), <1>1, QuietStep DEF portSide
<1>3. Ends'
  <2>1. ListRight'
    <3>1. (waiting' => list' = <<>>) /\ UNCHANGED <<list, server, state>>
      BY ZenonT(60), <1>1 DEF portSide
    <3>2. ListRight
      BY ZenonT(60), Inv DEF Ends
    <3> QED BY ZenonT(60), <3>1, <3>2 DEF ListRight
  <2>2. ASSUME NEW s \in Session PROVE HeldRight(s)'
    <3>1. HeldRight(s) /\ (Listed(s)' <=> Listed(s))
      BY ZenonT(60), <1>1, Inv DEF Ends, Listed
    <3> QED BY <1>1, <1>2, <3>1 DEF HeldRight, Bit
  <2> QED BY ZenonT(60), <2>1, <2>2 DEF Ends
<1>4. PortRefs' /\ Backed'
  BY ZenonT(60), <1>1, SumsStay DEF portSide, localVars
<1>5. TypeOK'
  BY ZenonT(60), <1>1, Inv DEF TypeOK, portSide, localVars
<1> QED BY ZenonT(60), <1>2, <1>3, <1>4, <1>5 DEF IInv

\* AcceptSession: an end goes from the list to the server.
LEMMA AcceptKeeps ==
    ASSUME IInv, AcceptSession
    PROVE  IInv'
<1>1. /\ list # <<>> /\ list' = Tail(list) /\ ~waiting
      /\ accepted' = accepted \cup {Head(list)}
      /\ UNCHANGED <<portSide, connected, waiting, current, limit, phase, refs, owed, localVars>>
  BY ZenonT(60) DEF AcceptSession, portVars, countVars, resourceVars, portSide
<1>2. Locals' /\ Counts' /\ Peaks' /\ \A s \in Session : InHand(s)' <=> InHand(s)
  BY ZenonT(60), <1>1, QuietStep DEF portSide
<1>3. PICK h \in Session : h = Head(list)
  BY <1>1, TailListed
<1>4. /\ list' \in Seq(Session) /\ Listed(h)
      /\ \A r : Listed(r)' <=> Listed(r) /\ r # h
      /\ Once(list')
  BY ZenonT(60), <1>1, <1>3, TailListed
<1>5. Ends'
  <2>1. ListRight'
    BY ZenonT(60), <1>1, <1>4, Inv DEF Ends, ListRight, portSide
  <2>2. ASSUME NEW s \in Session PROVE HeldRight(s)'
    <3>1. HeldRight(s) /\ (s \in accepted' <=> s \in accepted \/ s = h) /\ UNCHANGED <<refs, connected, phase>>
      BY ZenonT(60), <1>1, <1>3, Inv DEF Ends
    <3> QED BY <1>2, <1>4, <3>1 DEF HeldRight, Bit
  <2> QED BY ZenonT(60), <2>1, <2>2 DEF Ends
<1>6. PortRefs' /\ Backed'
  BY ZenonT(60), <1>1, SumsStay DEF portSide, localVars
<1>7. TypeOK'
  <2>1. accepted' \subseteq Session
    BY ZenonT(60), <1>1, <1>3, Inv DEF TypeOK
  <2> QED BY ZenonT(60), <1>1, <1>4, <2>1, Inv DEF TypeOK, portSide, localVars
<1> QED BY ZenonT(60), <1>2, <1>5, <1>6, <1>7 DEF IInv

\* CloseServerPort: a port whose server has gone is not normal.
LEMMA CloseServerPortKeeps ==
    ASSUME IInv, CloseServerPort
    PROVE  IInv'
<1>1. /\ server' = "cleanup" /\ ~waiting
      /\ state' = (IF state = "Normal" THEN "ServerClosed" ELSE state)
      /\ UNCHANGED <<isLight, handle, clientRefs, numSessions, highest, peakSessions, endSide>>
      /\ UNCHANGED <<current, limit, phase, owed, localVars>>
  BY ZenonT(60) DEF CloseServerPort, countVars, endVars, resourceVars, endSide
<1>2. Locals' /\ Counts' /\ Peaks' /\ \A s \in Session : InHand(s)' <=> InHand(s)
  BY ZenonT(60), <1>1, QuietStep
<1>3. state' # "Normal" /\ state' \in {"Normal", "ClientClosed", "ServerClosed"}
  BY <1>1 DEF IInv, TypeOK
<1>4. Ends'
  <2>1. ListRight'
    BY ZenonT(60), <1>1, <1>3, Inv DEF Ends, ListRight, endSide
  <2>2. ASSUME NEW s \in Session PROVE HeldRight(s)'
    <3>1. HeldRight(s) /\ (Listed(s)' <=> Listed(s)) /\ UNCHANGED <<refs, connected, accepted, phase>>
      BY ZenonT(60), <1>1, Inv DEF Ends, Listed, endSide
    <3> QED BY <1>2, <3>1 DEF HeldRight, Bit
  <2> QED BY ZenonT(60), <2>1, <2>2 DEF Ends
<1>5. PortRefs' /\ Backed'
  BY ZenonT(60), <1>1, SumsStay DEF localVars
<1>6. TypeOK'
  BY ZenonT(60), <1>1, <1>3, Inv DEF TypeOK, endSide, localVars
<1> QED BY ZenonT(60), <1>2, <1>4, <1>5, <1>6 DEF IInv

-----------------------------------------------------------------------------
(* The end of a session.                                                   *)

\* Sessions in a thread's hands are left alone.
LEMMA LocalsElse ==
    ASSUME IInv, UNCHANGED mine, NEW s \in Session, phase[s] \notin {"new", "counted"}, ~InHand(s),
           \A r \in Session : r # s => phase'[r] = phase[r],
           \A t \in Thread : pc'[t] = pc[t] \/ (pc[t] = "wait" /\ pc'[t] = "return")
    PROVE  Locals'
<1>1. ASSUME NEW t \in Thread PROVE LocalOK(t)'
  <2>1. LocalOK(t) /\ mine'[t] = mine[t]
    BY ZenonT(60), Inv DEF Locals
  <2>2. mine[t] # s
    BY ZenonT(60), <2>1, SessionAssumption DEF LocalOK, InHand
  <2>3. mine[t] \in Session => phase'[mine[t]] = phase[mine[t]]
    BY <2>2
  <2>4. pc'[t] = pc[t] \/ (pc[t] \in Empty \ (Uncounted \cup Raising \cup {"enqueue"}) /\ pc'[t] \in Empty)
    BY DEF Empty, Uncounted, Raising
  <2> QED BY ZenonT(60), <2>1, <2>3, <2>4 DEF LocalOK
<1> QED BY ZenonT(60), <1>1, Inv DEF Locals

\* CloseEnd: one end goes, and with the last one the session begins to die.
LEMMA CloseEndStep ==
    ASSUME IInv, NEW s \in Session, phase[s] = "live", ~InHand(s), refs[s] \in {1, 2}, CloseEnd(s),
           UNCHANGED <<isLight, handle, clientRefs, numSessions, highest, peakSessions>>,
           UNCHANGED <<current, limit, owed, localVars>>
    PROVE  /\ Locals' /\ Counts' /\ Peaks' /\ PortRefs' /\ Backed'
           /\ phase' \in [Session -> Phases] /\ refs' \in [Session -> Int]
           /\ refs'[s] = refs[s] - 1 /\ (refs[s] = 2 => phase'[s] = "live")
           /\ \A r \in Session : r # s => phase'[r] = phase[r] /\ refs'[r] = refs[r]
           /\ \A r \in Session : InHand(r)' <=> InHand(r)
<1>0. UNCHANGED <<pc, mine, seen, new>>
  BY ZenonT(60) DEF localVars
<1>1. PICK q \in {"live", "dying"} : PhaseTo(s, q) /\ (refs[s] = 2 => q = "live")
  <2>1. CASE refs[s] = 1
    <3>1. PhaseTo(s, "dying") /\ refs[s] # 2
      BY <2>1 DEF CloseEnd, PhaseTo
    <3> QED BY <3>1
  <2>2. CASE refs[s] = 2
    <3>1. UNCHANGED phase
      BY <2>2 DEF CloseEnd
    <3>2. PhaseTo(s, "live")
      BY <3>1, PhaseStays
    <3> QED BY <3>2
  <2> QED BY <2>1, <2>2
<1>2. /\ phase' \in [Session -> Phases] /\ refs' \in [Session -> Int]
      /\ refs'[s] = refs[s] - 1 /\ phase'[s] = q
      /\ \A r \in Session : r # s => phase'[r] = phase[r] /\ refs'[r] = refs[r]
  <2>1. /\ refs' \in [Session -> Int] /\ refs'[s] = refs[s] - 1
        /\ \A r \in Session : r # s => refs'[r] = refs[r]
    BY Types DEF CloseEnd
  <2>2. /\ phase' \in [Session -> Phases] /\ phase'[s] = q
        /\ \A r \in Session : r # s => phase'[r] = phase[r]
    BY <1>1, Types DEF PhaseTo, Phases
  <2> QED BY ZenonT(60), <2>1, <2>2
<1>3. \A C : Num(Session, phase', C) = Num(Session, phase, C) + Bit(q \in C) - Bit("live" \in C)
  BY ZenonT(60), <1>1, Inv, PhaseMoves
<1>4. Locals'
  <2>1. phase[s] \notin {"new", "counted"}
    OBVIOUS
  <2>2. \A t \in Thread : pc'[t] = pc[t]
    BY ZenonT(60), <1>0
  <2> QED BY ZenonT(60), <1>0, <1>2, <2>1, <2>2, LocalsElse
<1>5. Counts'
  <2>1. Num(Session, phase', {"counted", "live", "dying"}) = Num(Session, phase, {"counted", "live", "dying"})
    BY <1>3, Nums DEF Bit
  <2> QED BY ZenonT(60), <1>0, <2>1, Inv DEF Counts
<1>6. Peaks'
  BY ZenonT(60), <1>0, Inv DEF Peaks, PeakExact
<1>7. PortRefs'
  <2>1. Num(Session, phase', {"live", "dying"}) = Num(Session, phase, {"live", "dying"})
    BY <1>3, Nums DEF Bit
  <2> QED BY ZenonT(60), <1>0, <2>1, Inv DEF PortRefs
<1>8. Backed'
  <2>1. /\ Num(Session, phase', Busy) = Num(Session, phase, Busy)
        /\ Num(Session, phase', {"free"}) = Num(Session, phase, {"free"})
    BY <1>3, Nums DEF Bit, Busy
  <2> QED BY ZenonT(60), <1>0, <2>1, Inv DEF Backed
<1>9. \A r \in Session : InHand(r)' <=> InHand(r)
  BY ZenonT(60), <1>0 DEF InHand
<1> QED BY ZenonT(60), <1>1, <1>2, <1>4, <1>5, <1>6, <1>7, <1>8, <1>9

\* CloseClientSession: the client's end.
LEMMA CloseClientSessionKeeps ==
    ASSUME IInv, NEW s \in Session, CloseClientSession(s)
    PROVE  IInv'
<1>1. /\ s \in connected /\ connected' = connected \ {s} /\ CloseEnd(s)
      /\ UNCHANGED <<portSide, list, accepted, waiting, current, limit, owed, localVars>>
  BY ZenonT(60) DEF CloseClientSession, portVars, countVars, resourceVars, portSide
<1>2. HeldRight(s) /\ phase[s] = "live" /\ ~InHand(s) /\ refs[s] \in {1, 2}
  <2>1. HeldRight(s) /\ s \in connected
    BY ZenonT(60), <1>1, Inv DEF Ends
  <2> QED BY <2>1 DEF HeldRight, Bit
<1>3. /\ Locals' /\ Counts' /\ Peaks' /\ PortRefs' /\ Backed'
      /\ phase' \in [Session -> Phases] /\ refs' \in [Session -> Int]
      /\ refs'[s] = refs[s] - 1 /\ (refs[s] = 2 => phase'[s] = "live")
      /\ \A r \in Session : r # s => phase'[r] = phase[r] /\ refs'[r] = refs[r]
      /\ \A r \in Session : InHand(r)' <=> InHand(r)
  BY ZenonT(60), <1>1, <1>2, CloseEndStep DEF portSide
<1>4. Ends'
  <2>1. ListRight' /\ \A r \in Session : HeldRight(r) /\ (Listed(r)' <=> Listed(r))
    BY ZenonT(60), <1>1, Inv, ListStays DEF Ends, Listed, portSide
  <2>2. HeldRight(s)'
    BY ZenonT(60), <1>1, <1>2, <1>3, <2>1, HeldDrops
  <2>3. ASSUME NEW r \in Session, r # s PROVE HeldRight(r)'
    BY ZenonT(60), <1>1, <1>3, <2>1, <2>3, HeldStays
  <2> QED BY ZenonT(60), <2>1, <2>2, <2>3 DEF Ends
<1>5. TypeOK'
  <2>1. connected' \subseteq Session
    BY ZenonT(60), <1>1, Inv DEF TypeOK
  <2> QED BY ZenonT(60), <1>1, <1>3, <2>1, Inv DEF TypeOK, portSide, localVars
<1> QED BY ZenonT(60), <1>3, <1>4, <1>5 DEF IInv

\* CloseServerSession: the server's end.
LEMMA CloseServerSessionKeeps ==
    ASSUME IInv, NEW s \in Session, CloseServerSession(s)
    PROVE  IInv'
<1>1. /\ s \in accepted /\ accepted' = accepted \ {s} /\ CloseEnd(s)
      /\ UNCHANGED <<portSide, list, connected, waiting, current, limit, owed, localVars>>
  BY ZenonT(60) DEF CloseServerSession, portVars, countVars, resourceVars, portSide
<1>2. HeldRight(s) /\ phase[s] = "live" /\ ~InHand(s) /\ refs[s] \in {1, 2}
  <2>1. HeldRight(s) /\ s \in accepted
    BY ZenonT(60), <1>1, Inv DEF Ends
  <2> QED BY <2>1 DEF HeldRight, Bit
<1>3. /\ Locals' /\ Counts' /\ Peaks' /\ PortRefs' /\ Backed'
      /\ phase' \in [Session -> Phases] /\ refs' \in [Session -> Int]
      /\ refs'[s] = refs[s] - 1 /\ (refs[s] = 2 => phase'[s] = "live")
      /\ \A r \in Session : r # s => phase'[r] = phase[r] /\ refs'[r] = refs[r]
      /\ \A r \in Session : InHand(r)' <=> InHand(r)
  BY ZenonT(60), <1>1, <1>2, CloseEndStep DEF portSide
<1>4. Ends'
  <2>1. ListRight' /\ \A r \in Session : HeldRight(r) /\ (Listed(r)' <=> Listed(r))
    BY ZenonT(60), <1>1, Inv, ListStays DEF Ends, Listed, portSide
  <2>2. HeldRight(s)'
    BY ZenonT(60), <1>1, <1>2, <1>3, <2>1, HeldDrops
  <2>3. ASSUME NEW r \in Session, r # s PROVE HeldRight(r)'
    BY ZenonT(60), <1>1, <1>3, <2>1, <2>3, HeldStays
  <2> QED BY ZenonT(60), <2>1, <2>2, <2>3 DEF Ends
<1>5. TypeOK'
  <2>1. accepted' \subseteq Session
    BY ZenonT(60), <1>1, Inv DEF TypeOK
  <2> QED BY ZenonT(60), <1>1, <1>3, <2>1, Inv DEF TypeOK, portSide, localVars
<1> QED BY ZenonT(60), <1>3, <1>4, <1>5 DEF IInv

\* CleanupSession: the end of the first session on the list, or none is left.
LEMMA CleanupSessionKeeps ==
    ASSUME IInv, CleanupSession
    PROVE  IInv'
<1>1. /\ server = "cleanup"
      /\ UNCHANGED <<isLight, state, handle, clientRefs, numSessions, highest, peakSessions>>
      /\ UNCHANGED <<connected, accepted, waiting, current, limit, owed, localVars>>
  BY ZenonT(60) DEF CleanupSession, countVars, resourceVars
<1>2. CASE list = <<>> /\ server' = "closed" /\ UNCHANGED <<list, refs, phase>>
  <2>1. Locals' /\ Counts' /\ Peaks' /\ \A s \in Session : InHand(s)' <=> InHand(s)
    BY ZenonT(60), <1>1, <1>2, QuietStep
  <2>2. Ends'
    <3>1. ListRight'
      <4>1. state' # "Normal" /\ Once(list)
        BY <1>1, Inv DEF Ends, ListRight
      <4>2. list' = <<>> /\ list' = list
        BY <1>2
      <4>3. Once(list')
        BY ZenonT(60), <4>1, <4>2
      <4> QED BY ZenonT(60), <4>1, <4>2, <4>3 DEF ListRight
    <3>2. ASSUME NEW s \in Session PROVE HeldRight(s)'
      <4>1. HeldRight(s) /\ (Listed(s)' <=> Listed(s))
        BY ZenonT(60), <1>2, Inv DEF Ends, Listed
      <4> QED BY ZenonT(60), <1>1, <1>2, <2>1, <4>1, HeldStays
    <3> QED BY ZenonT(60), <3>1, <3>2 DEF Ends
  <2>3. PortRefs' /\ Backed'
    BY ZenonT(60), <1>1, <1>2, SumsStay DEF localVars
  <2>4. TypeOK'
    BY ZenonT(60), <1>1, <1>2, Inv DEF TypeOK, localVars
  <2> QED BY ZenonT(60), <2>1, <2>2, <2>3, <2>4 DEF IInv
<1>3. CASE list # <<>> /\ CloseEnd(Head(list)) /\ list' = Tail(list) /\ UNCHANGED server
  <2>1. PICK h \in Session : h = Head(list)
    BY <1>3, TailListed
  <2>2. /\ list' \in Seq(Session) /\ Listed(h)
        /\ \A r : Listed(r)' <=> Listed(r) /\ r # h
        /\ Once(list')
    BY ZenonT(60), <1>3, <2>1, TailListed
  <2>3. CloseEnd(h)
    BY ZenonT(60), <1>3, <2>1
  <2>4. HeldRight(h) /\ phase[h] = "live" /\ ~InHand(h) /\ refs[h] \in {1, 2}
    <3>1. HeldRight(h) /\ Listed(h)
      BY ZenonT(60), <2>2, Inv DEF Ends
    <3> QED BY <3>1 DEF HeldRight, Bit
  <2>5. /\ Locals' /\ Counts' /\ Peaks' /\ PortRefs' /\ Backed'
        /\ phase' \in [Session -> Phases] /\ refs' \in [Session -> Int]
        /\ refs'[h] = refs[h] - 1 /\ (refs[h] = 2 => phase'[h] = "live")
        /\ \A r \in Session : r # h => phase'[r] = phase[r] /\ refs'[r] = refs[r]
        /\ \A r \in Session : InHand(r)' <=> InHand(r)
    BY ZenonT(60), <1>1, <2>3, <2>4, CloseEndStep
  <2>6. Ends'
    <3>1. ListRight'
      <4>1. ~waiting /\ state # "Normal"
        BY ZenonT(60), <1>1, <1>3, Inv DEF Ends, ListRight
      <4> QED BY ZenonT(60), <1>1, <1>3, <2>2, <4>1 DEF ListRight
    <3>2. HeldRight(h)'
      BY ZenonT(60), <1>1, <2>2, <2>4, <2>5, HeldDrops
    <3>3. ASSUME NEW r \in Session, r # h PROVE HeldRight(r)'
      <4>1. /\ phase'[r] = phase[r] /\ refs'[r] = refs[r] /\ HeldRight(r)
            /\ UNCHANGED <<accepted, connected>>
        BY ZenonT(60), <1>1, <2>5, <3>3, Inv DEF Ends
      <4> QED BY ZenonT(60), <2>2, <2>5, <3>3, <4>1, HeldStays
    <3> QED BY ZenonT(60), <3>1, <3>2, <3>3 DEF Ends
  <2>7. TypeOK'
    BY ZenonT(60), <1>1, <1>3, <2>2, <2>5, Inv DEF TypeOK, localVars
  <2> QED BY ZenonT(60), <2>5, <2>6, <2>7 DEF IInv
<1> QED BY ZenonT(60), <1>2, <1>3 DEF CleanupSession

\* A session nobody is about to list: it is not live.
LEMMA NotInHand ==
    ASSUME IInv, NEW s \in Session, phase[s] # "live"
    PROVE  ~InHand(s)
<1>1. SUFFICES ASSUME NEW t \in Thread, pc[t] = "enqueue", mine[t] = s PROVE FALSE
  BY DEF InHand
<1>2. LocalOK(t)
  BY ZenonT(60), Inv DEF Locals
<1> QED BY <1>1, <1>2 DEF LocalOK, Empty, Uncounted, Raising

\* Finalize: the session gives back its place and its reference at the port.
LEMMA FinalizeKeeps ==
    ASSUME IInv, NEW s \in Session, Finalize(s)
    PROVE  IInv'
<1>1. /\ phase[s] = "dying" /\ PhaseTo(s, "final") /\ OnSessionFinalized /\ CloseClientPort
      /\ UNCHANGED <<isLight, server, handle, peakSessions, endSide>>
      /\ UNCHANGED <<current, limit, owed, mine, reserved, seen, new>>
  BY ZenonT(60) DEF Finalize, PhaseTo, endVars, resourceVars, endSide
<1>2. /\ numSessions' = numSessions - 1 /\ numSessions' \in Int /\ UNCHANGED highest
      /\ pc' \in [Thread -> Places]
      /\ \A t \in Thread : pc'[t] = (IF numSessions = MaxSessions /\ pc[t] = "wait" THEN "return" ELSE pc[t])
  BY <1>1, Types DEF OnSessionFinalized, Places
<1>3. /\ phase' \in [Session -> Phases] /\ phase'[s] = "final"
      /\ \A r \in Session : r # s => phase'[r] = phase[r]
  BY <1>1, Types DEF PhaseTo, Phases
<1>4. \A C : Num(Session, phase', C) = Num(Session, phase, C) + Bit("final" \in C) - Bit("dying" \in C)
  BY ZenonT(60), <1>1, Inv, PhaseMoves
<1>5. \A t \in Thread : pc'[t] = pc[t] \/ (pc[t] = "wait" /\ pc'[t] = "return")
  BY <1>2
<1>6. ASSUME NEW C, "wait" \in C <=> "return" \in C PROVE Num(Thread, pc', C) = Num(Thread, pc, C)
  <2>1. {t \in Thread : pc'[t] \in C} = {t \in Thread : pc[t] \in C}
    BY <1>5, <1>6
  <2> QED BY ZenonT(60), <2>1 DEF Num
<1>7. Locals'
  <2>1. ~InHand(s) /\ phase[s] \notin {"new", "counted"}
    BY ZenonT(60), <1>1, NotInHand
  <2> QED BY ZenonT(60), <1>1, <1>3, <1>5, <2>1, LocalsElse
<1>8. Counts'
  <2>1. Num(Session, phase', {"counted", "live", "dying"}) = Num(Session, phase, {"counted", "live", "dying"}) - 1
    BY <1>4, Nums DEF Bit
  <2>2. \A t \in Thread : pc'[t] # "wait" /\ (pc'[t] = "count" => pc[t] = "count")
    <3>1. \A t \in Thread : pc[t] = "wait" => numSessions = MaxSessions
      BY ZenonT(60), Inv DEF Counts
    <3>2. \A t \in Thread : pc'[t] = (IF numSessions = MaxSessions /\ pc[t] = "wait" THEN "return" ELSE pc[t])
      BY ZenonT(60), <1>2
    <3> QED BY <3>1, <3>2
  <2>3. /\ numSessions \in Int /\ numSessions <= MaxSessions /\ numSessions' = numSessions - 1
        /\ numSessions = Num(Session, phase, {"counted", "live", "dying"}) /\ UNCHANGED seen
        /\ \A t \in Thread : pc[t] = "count" => seen[t] < MaxSessions
    BY ZenonT(60), <1>1, <1>2, Inv, Numbers DEF Counts
  <2>4. numSessions' <= MaxSessions /\ numSessions' = Num(Session, phase', {"counted", "live", "dying"})
    BY <2>1, <2>3, MaxAssumption
  <2> QED BY ZenonT(60), <2>2, <2>3, <2>4 DEF Counts
<1>9. Peaks'
  <2>1. /\ Peaks /\ UNCHANGED <<peakSessions, highest, seen, new>>
        /\ numSessions \in Int /\ highest \in Int
    BY ZenonT(60), <1>1, <1>2, Inv, Numbers
  <2>2. \A t \in Thread : /\ pc'[t] \in {"loadPeak", "peak"} <=> pc[t] \in {"loadPeak", "peak"}
                          /\ pc'[t] = "peak" <=> pc[t] = "peak"
    BY <1>5
  <2>3. numSessions' <= highest'
    BY <1>2, <2>1 DEF Peaks
  <2> QED BY ZenonT(60), <2>1, <2>2, <2>3 DEF Peaks, PeakExact
<1>10. Ends'
  <2>1. \A r \in Session : /\ InHand(r)' <=> InHand(r)
                           /\ phase[r] = "live" => phase'[r] = "live"
    BY ZenonT(60), <1>1, <1>3, <1>5 DEF InHand
  <2> QED BY ZenonT(60), <1>1, <2>1, ClosePort, Inv, EndsStep DEF endSide
<1>11. PortRefs'
  <2>1. Num(Thread, pc', Places \ {"idle"}) = Num(Thread, pc, Places \ {"idle"})
    BY <1>6 DEF Places
  <2>2. Num(Session, phase', {"live", "dying"}) = Num(Session, phase, {"live", "dying"}) - 1
    BY <1>4, Nums DEF Bit
  <2> QED BY <1>1, <2>1, <2>2, ClosePort, Sums, Nums DEF PortRefs, Bit
<1>12. Backed'
  <2>1. /\ Num(Thread, pc', {"add"}) = Num(Thread, pc, {"add"})
        /\ Num(Thread, pc', {"create"}) = Num(Thread, pc, {"create"})
        /\ Num(Thread, pc', {"release"}) = Num(Thread, pc, {"release"})
    BY <1>6
  <2>2. /\ Num(Session, phase', Busy) = Num(Session, phase, Busy)
        /\ Num(Session, phase', {"free"}) = Num(Session, phase, {"free"})
    BY <1>4, Nums DEF Bit, Busy
  <2> QED BY ZenonT(60), <1>1, <2>1, <2>2, Sums DEF Backed
<1>13. TypeOK'
  <2>1. highest' \in Int
    BY <1>2, Numbers
  <2> QED BY ZenonT(60), <1>1, <1>2, <1>3, <2>1, ClosePort, Inv DEF TypeOK, Places, endSide
<1> QED BY ZenonT(60), <1>7, <1>8, <1>9, <1>10, <1>11, <1>12, <1>13 DEF IInv

\* Free: the session is in the slab heap before its place in the limit is free.
LEMMA FreeKeeps ==
    ASSUME IInv, NEW s \in Session, Free(s)
    PROVE  IInv'
<1>1. /\ phase[s] = "final" /\ PhaseTo(s, "free") /\ owed' = owed + 1
      /\ UNCHANGED <<portSide, endSide, current, limit, localVars>>
  BY ZenonT(60) DEF Free, PhaseTo, portVars, countVars, endVars, resourceVars, portSide, endSide
<1>2. /\ phase' \in [Session -> Phases] /\ phase'[s] = "free" /\ owed' \in Nat
      /\ \A r \in Session : r # s => phase'[r] = phase[r]
  BY <1>1, Types, Numbers DEF PhaseTo, Phases
<1>3. \A C : Num(Session, phase', C) = Num(Session, phase, C) + Bit("free" \in C) - Bit("final" \in C)
  BY ZenonT(60), <1>1, Inv, PhaseMoves
<1>4. UNCHANGED <<pc, mine, seen, new, reserved>>
  BY ZenonT(60), <1>1 DEF localVars
<1>5. Locals'
  <2>1. ~InHand(s) /\ phase[s] \notin {"new", "counted"}
    BY <1>1, NotInHand
  <2>2. \A t \in Thread : pc'[t] = pc[t]
    BY ZenonT(60), <1>4
  <2> QED BY ZenonT(60), <1>2, <1>4, <2>1, <2>2, LocalsElse
<1>6. Counts'
  <2>1. Num(Session, phase', {"counted", "live", "dying"}) = Num(Session, phase, {"counted", "live", "dying"})
    BY <1>3, Nums DEF Bit
  <2> QED BY ZenonT(60), <1>1, <1>4, <2>1, Inv DEF Counts, portSide
<1>7. Peaks'
  BY ZenonT(60), <1>1, <1>4, Inv DEF Peaks, PeakExact, portSide
<1>8. Ends'
  <2>1. \A r \in Session : /\ InHand(r)' <=> InHand(r)
                           /\ phase[r] = "live" => phase'[r] = "live"
    BY <1>1, <1>2, <1>4 DEF InHand
  <2> QED BY ZenonT(60), <1>1, <2>1, Inv, EndsStep DEF portSide, endSide
<1>9. PortRefs'
  <2>1. Num(Session, phase', {"live", "dying"}) = Num(Session, phase, {"live", "dying"})
    BY <1>3, Nums DEF Bit
  <2> QED BY ZenonT(60), <1>1, <1>4, <2>1, Inv DEF PortRefs, portSide
<1>10. Backed'
  <2>1. UNCHANGED <<isLight, pc, current, limit>>
    BY <1>1, <1>4 DEF portSide
  <2> QED BY <1>1, <1>3, <2>1, Sums, Nums DEF Backed, Bit, Busy
<1>11. TypeOK'
  BY ZenonT(60), <1>1, <1>2, <1>4, Inv DEF TypeOK, portSide, endSide
<1> QED BY ZenonT(60), <1>5, <1>6, <1>7, <1>8, <1>9, <1>10, <1>11 DEF IInv

\* PostDestroy: the place in the limit goes back.
LEMMA PostDestroyKeeps ==
    ASSUME IInv, PostDestroy
    PROVE  IInv'
<1>1. /\ owed > 0 /\ owed' = owed - 1 /\ current' = current - 1
      /\ UNCHANGED <<portSide, endSide, limit, phase, localVars>>
  BY ZenonT(60) DEF PostDestroy, portVars, countVars, endVars, portSide, endSide
<1>2. Locals' /\ Counts' /\ Peaks' /\ \A s \in Session : InHand(s)' <=> InHand(s)
  BY ZenonT(60), <1>1, QuietStep DEF portSide
<1>3. Ends'
  BY ZenonT(60), <1>1, <1>2, Inv, EndsStep DEF portSide, endSide
<1>4. UNCHANGED <<isLight, pc, phase, handle, clientRefs, limit>>
  BY ZenonT(60), <1>1 DEF portSide, localVars
<1>5. PortRefs'
  BY ZenonT(60), <1>4, Sums DEF PortRefs
<1>6. Backed'
  BY <1>1, <1>4, Sums, Nums DEF Backed
<1>7. TypeOK'
  <2>1. owed' \in Nat /\ current' \in Int
    BY <1>1, Numbers
  <2> QED BY ZenonT(60), <1>1, <2>1, Inv DEF TypeOK, portSide, endSide, localVars
<1> QED BY ZenonT(60), <1>2, <1>3, <1>5, <1>6, <1>7 DEF IInv

-----------------------------------------------------------------------------
(* The theorems.                                                           *)

\* Nothing to count.
LEMMA NumZero ==
    ASSUME NEW S, NEW f, NEW C, \A s \in S : f[s] \notin C
    PROVE  Num(S, f, C) = 0
<1>1. {s \in S : f[s] \in C} = {}
  OBVIOUS
<1> QED BY <1>1, FS_EmptySet DEF Num

\* The invariant holds at the start: the limit is at most the slab heap.
LEMMA InitInv == Init => IInv
<1> SUFFICES ASSUME Init PROVE IInv
  OBVIOUS
<1>1. /\ \A t \in Thread : pc[t] = "idle" /\ mine[t] = NoSession
      /\ \A s \in Session : phase[s] \in {"free", "unused"} /\ refs[s] = 0
      /\ ~isLight => \A s \in Session : phase[s] = "free" <=> s \in Slab
  BY DEF Init
<1>2. /\ Num(Thread, pc, Places \ {"idle"}) = 0 /\ Num(Thread, pc, {"add"}) = 0
      /\ Num(Thread, pc, {"create"}) = 0 /\ Num(Thread, pc, {"release"}) = 0
  BY <1>1, NumZero
<1>3. /\ Num(Session, phase, {"counted", "live", "dying"}) = 0
      /\ Num(Session, phase, {"live", "dying"}) = 0 /\ Num(Session, phase, Busy) = 0
  BY <1>1, NumZero DEF Busy
<1>4. IsFiniteSet(Slab) /\ Cardinality(Slab) \in Nat
  BY SessionAssumption, FS_Subset, FS_CardinalityType
<1>5. limit = Limit /\ limit \in Nat /\ limit <= Cardinality(Slab)
  BY <1>4, LimitAssumption DEF Init
<1>6. ~isLight => Num(Session, phase, {"free"}) = Cardinality(Slab)
  <2>1. SUFFICES ASSUME ~isLight PROVE {s \in Session : phase[s] \in {"free"}} = Slab
    BY ZenonT(60) DEF Num
  <2> QED BY <1>1, <2>1, SessionAssumption
<1>7. /\ isLight \in BOOLEAN /\ state = "Normal" /\ server = "open" /\ handle = TRUE /\ clientRefs = 1
      /\ numSessions = 0 /\ peakSessions = 0 /\ highest = 0
      /\ list = <<>> /\ connected = {} /\ accepted = {} /\ waiting = FALSE
      /\ current = 0 /\ owed = 0
  BY ZenonT(60) DEF Init
<1>8. TypeOK
  <2>1. /\ phase \in [Session -> Phases] /\ refs \in [Session -> Int]
        /\ pc \in [Thread -> Places] /\ mine \in [Thread -> Session \cup {NoSession}]
        /\ seen \in [Thread -> Int] /\ new \in [Thread -> Int]
    BY DEF Init, Phases, Places
  <2>2. reserved \in [Thread -> BOOLEAN]
    BY ZenonT(60) DEF Init
  <2>3. /\ clientRefs \in Int /\ numSessions \in Int /\ peakSessions \in Int /\ highest \in Int
        /\ current \in Int /\ owed \in Nat /\ list \in Seq(Session)
    BY <1>7
  <2> QED BY ZenonT(60), <1>5, <1>7, <2>1, <2>2, <2>3 DEF TypeOK, Places
<1>9. Locals
  BY ZenonT(60), <1>1, SessionAssumption DEF Locals, LocalOK, Empty
<1>10. Counts
  BY <1>1, <1>3, <1>7, MaxAssumption DEF Counts
<1>11. Peaks
  BY <1>1, <1>7 DEF Peaks, PeakExact
<1>12. Ends
  <2>1. ListRight
    BY <1>7 DEF ListRight, Once
  <2>2. ASSUME NEW s \in Session PROVE HeldRight(s)
    <3>1. ~Listed(s) /\ ~InHand(s)
      BY <1>1, <1>7 DEF Listed, InHand
    <3> QED BY <1>1, <1>7, <3>1 DEF HeldRight, Bit
  <2> QED BY <2>1, <2>2 DEF Ends
<1>13. PortRefs
  BY <1>2, <1>3, <1>7 DEF PortRefs, Bit
<1>14. Backed
  BY <1>2, <1>3, <1>4, <1>5, <1>6, <1>7 DEF Backed
<1> QED BY ZenonT(60), <1>8, <1>9, <1>10, <1>11, <1>12, <1>13, <1>14 DEF IInv

\* Every action keeps the invariant.
LEMMA NextInv == IInv /\ [Next]_vars => IInv'
<1> SUFFICES ASSUME IInv, [Next]_vars PROVE IInv'
  OBVIOUS
<1>1. ASSUME NEW t \in Thread, Creating(t) PROVE IInv'
  BY ZenonT(60), <1>1, ReserveKeeps, CreateKeeps, ExpandKeeps, AddKeeps, LoadKeeps, CountKeeps,
     LoadPeakKeeps, PeakKeeps, InitializeKeeps, EnqueueKeeps, ReleaseKeeps, ReturnKeeps DEF Creating
<1>2. ASSUME NEW t \in Thread, Connect(t) \/ ClientWait(t) \/ ClientWaitEnds(t) PROVE IInv'
  BY ZenonT(60), <1>2, ConnectKeeps, ClientWaitKeeps, ClientWaitEndsKeeps
<1>3. CASE CloseHandle \/ ServerWait \/ AcceptSession \/ CloseServerPort
  BY ZenonT(60), <1>3, CloseHandleKeeps, ServerWaitKeeps, AcceptKeeps, CloseServerPortKeeps
<1>4. ASSUME NEW s \in Session, CloseClientSession(s) \/ CloseServerSession(s) PROVE IInv'
  BY ZenonT(60), <1>4, CloseClientSessionKeeps, CloseServerSessionKeeps
<1>5. CASE Tearing
  BY ZenonT(60), <1>5, PostDestroyKeeps, CleanupSessionKeeps, FinalizeKeeps, FreeKeeps DEF Tearing
<1>6. CASE UNCHANGED vars
  <2>1. /\ UNCHANGED <<isLight, state, server, handle, clientRefs, numSessions, peakSessions, highest>>
        /\ UNCHANGED <<list, current, limit, phase, refs, connected, accepted, owed, waiting>>
        /\ UNCHANGED <<pc, mine, reserved, seen, new>>
    BY ZenonT(60), <1>6 DEF vars
  <2>2. Locals' /\ Counts' /\ Peaks' /\ \A s \in Session : InHand(s)' <=> InHand(s)
    BY ZenonT(60), <2>1, QuietStep DEF localVars
  <2>3. Ends'
    BY ZenonT(60), <2>1, <2>2, Inv, EndsStep
  <2>4. PortRefs' /\ Backed'
    BY ZenonT(60), <2>1, SumsStay
  <2>5. TypeOK'
    BY ZenonT(60), <2>1, Inv DEF TypeOK
  <2> QED BY ZenonT(60), <2>2, <2>3, <2>4, <2>5 DEF IInv
<1> QED BY ZenonT(60), <1>1, <1>2, <1>3, <1>4, <1>5, <1>6 DEF Next

\* The inductive invariant holds in every state.
THEOREM Invariant == Spec => []IInv
<1>1. Init => IInv
  BY InitInv
<1>2. IInv /\ [Next]_vars => IInv'
  BY NextInv
<1> QED BY <1>1, <1>2, PTL DEF Spec

\* The variables keep their types, whatever ports, sessions and threads do.
THEOREM TypeCorrect == Spec => []TypeOK
<1>1. IInv => TypeOK
  BY ZenonT(60) DEF IInv
<1> QED BY <1>1, Invariant, PTL

\* CreateSession's compare-and-swap and OnSessionFinalized keep m_num_sessions
\* equal to the sessions that have a place, at most m_max_sessions of them.
THEOREM CountIsExact == Spec => []CountExact
<1>1. IInv => CountExact
  <2>1. Num(Session, phase, {"counted", "live", "dying"}) = Cardinality(Counted)
    BY ZenonT(60) DEF Num, Counted
  <2> QED BY ZenonT(60), <2>1, Inv DEF Counts, CountExact
<1> QED BY <1>1, Invariant, PTL

\* m_peak_sessions is the most sessions there ever were, unless a thread that
\* will raise it is still in the loop of CreateSession.
THEOREM PeakIsExact == Spec => []PeakExact
<1>1. IInv => PeakExact
  BY ZenonT(60), Inv DEF Peaks
<1> QED BY <1>1, Invariant, PTL

\* No thread sleeps on a client port with room, or on a server port with a
\* session listed, although both are notified only at the edge.
THEOREM NotificationNotMissed == Spec => []NoMissedNotification
<1>1. IInv => NoMissedNotification
  BY ZenonT(60), Inv DEF Counts, Ends, ListRight, NoMissedNotification
<1> QED BY <1>1, Invariant, PTL

\* Every open end of a session has exactly one holder that will close it.
THEOREM EndsAreHeld == Spec => []EndsHeld
<1>1. ASSUME IInv, NEW s \in Session
      PROVE  Cardinality({i \in 1..Len(list) : list[i] = s}) = Bit(Listed(s))
  <2>1. CASE Listed(s)
    <3>1. PICK i \in 1..Len(list) : list[i] = s
      BY <2>1 DEF Listed
    <3>2. {j \in 1..Len(list) : list[j] = s} = {i}
      BY ZenonT(60), <1>1, <3>1, Inv DEF Ends, ListRight, Once
    <3>3. Cardinality({i}) = 1
      BY ZenonT(60), FS_Singleton
    <3>4. Bit(Listed(s)) = 1
      BY <2>1 DEF Bit
    <3> QED BY ZenonT(60), <3>2, <3>3, <3>4
  <2>2. CASE ~Listed(s)
    <3>1. {j \in 1..Len(list) : list[j] = s} = {}
      BY <2>2 DEF Listed
    <3>2. Cardinality({}) = 0 /\ Bit(Listed(s)) = 0
      BY <2>2, FS_EmptySet DEF Bit
    <3> QED BY ZenonT(60), <3>1, <3>2
  <2> QED BY <2>1, <2>2
<1>2. ASSUME IInv, NEW s \in Session
      PROVE  refs[s] = (IF s \in connected THEN 1 ELSE 0) + (IF s \in accepted THEN 1 ELSE 0)
                         + Cardinality({i \in 1..Len(list) : list[i] = s})
                         + (IF \E t \in Thread : pc[t] = "enqueue" /\ mine[t] = s THEN 2 ELSE 0)
  <2>1. HeldRight(s)
    BY ZenonT(60), <1>2, Inv DEF Ends
  <2>2. Cardinality({i \in 1..Len(list) : list[i] = s}) = Bit(Listed(s))
    BY ZenonT(60), <1>1, <1>2
  <2> QED BY <2>1, <2>2 DEF HeldRight, Bit, InHand
<1>3. IInv => EndsHeld
  BY ZenonT(60), <1>2, Inv DEF Ends, ListRight, EndsHeld
<1> QED BY <1>3, Invariant, PTL

\* The client port is destroyed by the last of its users.
THEOREM ClientPortLives == Spec => []ClientPortOutlivesUsers
<1>1. ASSUME IInv PROVE ClientPortOutlivesUsers
  <2>1. {t \in Thread : pc[t] # "idle"} = {t \in Thread : pc[t] \in Places \ {"idle"}}
    BY <1>1, Types DEF Places
  <2>2. Num(Thread, pc, Places \ {"idle"}) = Cardinality({t \in Thread : pc[t] # "idle"})
    BY ZenonT(60), <2>1 DEF Num
  <2>3. Num(Session, phase, {"live", "dying"}) = Cardinality({s \in Session : phase[s] \in {"live", "dying"}})
    BY ZenonT(60) DEF Num
  <2>4. Bit(handle) = (IF handle THEN 1 ELSE 0)
    BY DEF Bit
  <2> QED BY ZenonT(60), <1>1, <2>2, <2>3, <2>4, Inv DEF PortRefs, ClientPortOutlivesUsers
<1> QED BY <1>1, Invariant, PTL

\* A reservation of a session that is not light finds one in the slab heap.
THEOREM ReservationsAreBacked == Spec => []ReservationBacked
<1>1. ASSUME IInv PROVE ReservationBacked
  <2>1. ~isLight => Num(Thread, pc, {"create"}) <= Num(Session, phase, {"free"})
    BY <1>1, Sums, Nums DEF Backed
  <2>2. /\ {t \in Thread : pc[t] = "create"} = {t \in Thread : pc[t] \in {"create"}}
        /\ {s \in Session : phase[s] = "free"} = {s \in Session : phase[s] \in {"free"}}
    OBVIOUS
  <2>3. /\ Num(Thread, pc, {"create"}) = Cardinality({t \in Thread : pc[t] = "create"})
        /\ Num(Session, phase, {"free"}) = Cardinality({s \in Session : phase[s] = "free"})
    BY ZenonT(60), <2>2 DEF Num
  <2> QED BY ZenonT(60), <2>1, <2>3 DEF ReservationBacked
<1> QED BY <1>1, Invariant, PTL

=============================================================================
