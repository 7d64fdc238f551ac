----------------------- MODULE KServerSessionProofs -----------------------
(***************************************************************************)
(* Proofs about KServerSession, for any clients, servers and requests.     *)
(***************************************************************************)
EXTENDS KServerSession, TLAPS

\* Leaves are given to the SMT solver, then to Zenon, unless they name their prover.
USE SMTT(60), SMTT(61), ZenonT(60)

\* What appending a request to the queue does to its contents.
LEMMA AppendIn ==
    ASSUME NEW l \in Seq(Request), NEW r \in Request
    PROVE  /\ Append(l, r) \in Seq(Request)
           /\ \A q : In(q, Append(l, r)) <=> In(q, l) \/ q = r
           /\ Distinct(l) /\ ~In(r, l) => Distinct(Append(l, r))
<1>1. /\ Append(l, r) \in Seq(Request)
      /\ DOMAIN Append(l, r) = 1 .. Len(l) + 1 /\ DOMAIN l = 1 .. Len(l) /\ Len(l) \in Nat
      /\ \A i \in 1 .. Len(l) : Append(l, r)[i] = l[i]
      /\ Append(l, r)[Len(l) + 1] = r
  OBVIOUS
<1>2. \A q : In(q, Append(l, r)) <=> In(q, l) \/ q = r
  BY <1>1 DEF In
<1>3. Distinct(l) /\ ~In(r, l) => Distinct(Append(l, r))
  BY <1>1 DEF In, Distinct
<1> QED BY <1>1, <1>2, <1>3

\* What taking the first request off the queue does to its contents.
LEMMA TailIn ==
    ASSUME NEW l \in Seq(Request), l # <<>>, Distinct(l)
    PROVE  /\ Tail(l) \in Seq(Request) /\ Head(l) \in Request /\ In(Head(l), l)
           /\ \A q : In(q, Tail(l)) <=> In(q, l) /\ q # Head(l)
           /\ Distinct(Tail(l))
<1>1. /\ Tail(l) \in Seq(Request) /\ Head(l) \in Request
      /\ DOMAIN Tail(l) = 1 .. Len(l) - 1 /\ DOMAIN l = 1 .. Len(l) /\ Len(l) \in Nat \ {0}
      /\ \A i \in 1 .. Len(l) - 1 : Tail(l)[i] = l[i + 1]
      /\ Head(l) = l[1]
  OBVIOUS
<1>2. In(Head(l), l)
  BY <1>1 DEF In
<1>3. Distinct(Tail(l))
  BY <1>1 DEF Distinct
<1>4. ASSUME NEW q, In(q, Tail(l)) PROVE In(q, l) /\ q # Head(l)
  <2>1. PICK i \in 1 .. Len(l) - 1 : l[i + 1] = q
    BY <1>1, <1>4 DEF In
  <2>2. i + 1 \in 1 .. Len(l) /\ i + 1 # 1
    BY <1>1
  <2> QED BY <2>1, <2>2, <1>1 DEF In, Distinct
<1>5. ASSUME NEW q, In(q, l), q # Head(l) PROVE In(q, Tail(l))
  <2>1. PICK i \in 1 .. Len(l) : l[i] = q
    BY <1>1, <1>5 DEF In
  <2>2. i - 1 \in 1 .. Len(l) - 1 /\ i = (i - 1) + 1
    BY <2>1, <1>1, <1>5
  <2> QED BY ZenonT(60), <2>1, <2>2, <1>1 DEF In
<1> QED BY <1>1, <1>2, <1>3, <1>4, <1>5

-----------------------------------------------------------------------------
(* The initial states.                                                     *)

\* The invariant holds when the session is created.
LEMMA InitInv == Init => IInv
<1> SUFFICES ASSUME Init PROVE IInv
  OBVIOUS
<1>1. TypeOK
  BY DEF Init, TypeOK, State, ClientPlace, ServerPlace, DestroyPlace, Destroyer
<1>2. \A r : ~Queued(r)
  BY DEF Init, Queued, In
<1>3. \A r \in Request : ~Owned(r)
  BY <1>2, RequestAssumption DEF Init, Owned, InHand, Destroyer
<1>4. Places /\ Closing /\ Clears
  BY <1>2, <1>3, ActorAssumption DEF Init, Places, Closing, Clears, Destroyer, Actor,
       ServerPlace, DestroyPlace, Locked
<1>5. OnePlace
  BY <1>2 DEF Init, OnePlace, Distinct, Destroyer
<1>6. Calls
  BY <1>3 DEF Init, Calls
<1>7. RequestRefs
  BY <1>3, RequestAssumption DEF Init, RequestRefs, InCall, Visiting, Count, Actor, Destroyer
<1>8. NoMissedRequest /\ NoRequestDropped
  BY ActorAssumption DEF Init, NoMissedRequest, NoRequestDropped, Actor, Destroyer
<1> QED BY <1>1, <1>4, <1>5, <1>6, <1>7, <1>8 DEF IInv

\* A request that anybody refers to is not free.
LEMMA RefsCount ==
    ASSUME IInv, NEW r \in Request
    PROVE  /\ refs[r] = 0 => ~Owned(r) /\ ~InCall(r)
           /\ Owned(r) \/ InCall(r) \/ Visiting(r) => refs[r] \in Nat \ {0}
  BY DEF IInv, TypeOK, RequestRefs, Count

-----------------------------------------------------------------------------
(* Steps that leave every request where it is.                             *)

\* Call: the thread enters the kernel.
LEMMA CallKeeps ==
    ASSUME IInv, NEW s \in Server, Call(s)
    PROVE  IInv'
<1>1. TypeOK'
  BY DEF IInv, TypeOK, Call, Go, sessionVars, requestVars, clientVars, actorVars, State,
       ClientPlace, ServerPlace, DestroyPlace, Destroyer, Actor
<1>2. Places'
  BY ActorAssumption, RequestAssumption DEF IInv, TypeOK, Places, Destroyer, Actor, ServerPlace,
       DestroyPlace, Locked, Call, Go, sessionVars, requestVars, clientVars, actorVars
<1>3. \A r \in Request : Queued(r)' <=> Queued(r)
  BY DEF Call, Go, sessionVars, Queued, In
<1>4. \A r \in Request : /\ InHand(r)' <=> InHand(r)
                         /\ Owned(r)' <=> Owned(r)
  BY <1>3, ActorAssumption, RequestAssumption DEF IInv, TypeOK, Places, Call, Go, sessionVars,
       actorVars, Owned, InHand, Actor, Destroyer
<1>5. Closing'
  BY <1>4, ActorAssumption DEF IInv, TypeOK, Closing, Places, Call, Go, sessionVars, actorVars,
       Actor, Destroyer, State
<1>6. OnePlace'
  BY <1>3, <1>4, ActorAssumption DEF IInv, TypeOK, OnePlace, Places, Distinct, Call, Go,
       sessionVars, actorVars, Actor, Destroyer
<1>7. Calls'
  BY <1>4 DEF IInv, TypeOK, Calls, Call, Go, requestVars, clientVars
<1>8. Clears'
  BY <1>3, ActorAssumption DEF IInv, TypeOK, Clears, Places, Call, Go, sessionVars, requestVars,
       clientVars, actorVars, Actor, Destroyer
<1>9. RequestRefs'
  BY <1>4, ActorAssumption DEF IInv, TypeOK, RequestRefs, InCall, Visiting, Places, Count, Call,
       Go, requestVars, clientVars, actorVars, Actor, Destroyer
<1>10. NoMissedRequest'
  BY ActorAssumption DEF IInv, TypeOK, NoMissedRequest, Places, Closing, IsSignaledImpl, Call,
       Go, sessionVars, actorVars, Actor, Destroyer, State
<1>11. NoRequestDropped'
  BY <1>4, ActorAssumption DEF IInv, TypeOK, NoRequestDropped, Places, Closing, Call, Go,
       requestVars, clientVars, actorVars, Actor, Destroyer
<1> QED BY <1>1, <1>2, <1>5, <1>6, <1>7, <1>8, <1>9, <1>10, <1>11 DEF IInv

\* Wait: the look at the session and the start of the wait are one section.
LEMMA WaitKeeps ==
    ASSUME IInv, NEW s \in Server, Wait(s)
    PROVE  IInv'
<1>1. TypeOK'
  BY DEF IInv, TypeOK, Wait, Go, IsSignaledImpl, sessionVars, requestVars, clientVars, actorVars,
       State, ClientPlace, ServerPlace, DestroyPlace, Destroyer, Actor
<1>2. Places'
  BY ActorAssumption, RequestAssumption DEF IInv, TypeOK, Places, Destroyer, Actor, ServerPlace,
       DestroyPlace, Locked, Wait, Go, IsSignaledImpl, sessionVars, requestVars, clientVars,
       actorVars
<1>3. \A r \in Request : Queued(r)' <=> Queued(r)
  BY DEF Wait, Go, IsSignaledImpl, sessionVars, Queued, In
<1>4. \A r \in Request : /\ InHand(r)' <=> InHand(r)
                         /\ Owned(r)' <=> Owned(r)
  BY <1>3, ActorAssumption, RequestAssumption DEF IInv, TypeOK, Places, Wait, Go, IsSignaledImpl,
       sessionVars, actorVars, Owned, InHand, Actor, Destroyer
<1>5. Closing'
  BY <1>4, ActorAssumption DEF IInv, TypeOK, Closing, Places, Wait, Go, IsSignaledImpl,
       sessionVars, actorVars, Actor, Destroyer, State
<1>6. OnePlace'
  BY <1>3, <1>4, ActorAssumption DEF IInv, TypeOK, OnePlace, Places, Distinct, Wait, Go,
       IsSignaledImpl, sessionVars, actorVars, Actor, Destroyer
<1>7. Calls'
  BY <1>4 DEF IInv, TypeOK, Calls, Wait, Go, IsSignaledImpl, requestVars, clientVars
<1>8. Clears'
  BY <1>3, ActorAssumption DEF IInv, TypeOK, Clears, Places, Wait, Go, IsSignaledImpl,
       sessionVars, requestVars, clientVars, actorVars, Actor, Destroyer
<1>9. RequestRefs'
  BY <1>4, ActorAssumption DEF IInv, TypeOK, RequestRefs, InCall, Visiting, Places, Count, Wait,
       Go, IsSignaledImpl, requestVars, clientVars, actorVars, Actor, Destroyer
<1>10. NoMissedRequest'
  BY ActorAssumption DEF IInv, TypeOK, NoMissedRequest, Places, Closing, IsSignaledImpl, Wait,
       Go, IsSignaledImpl, sessionVars, actorVars, Actor, Destroyer, State
<1>11. NoRequestDropped'
  BY <1>4, ActorAssumption DEF IInv, TypeOK, NoRequestDropped, Places, Closing, Wait, Go,
       IsSignaledImpl, requestVars, clientVars, actorVars, Actor, Destroyer
<1> QED BY <1>1, <1>2, <1>5, <1>6, <1>7, <1>8, <1>9, <1>10, <1>11 DEF IInv

\* TimeOut: a wait that ends by itself.
LEMMA TimeOutKeeps ==
    ASSUME IInv, NEW s \in Server, TimeOut(s)
    PROVE  IInv'
<1>1. TypeOK'
  BY DEF IInv, TypeOK, TimeOut, Go, sessionVars, requestVars, clientVars, actorVars, State,
       ClientPlace, ServerPlace, DestroyPlace, Destroyer, Actor
<1>2. Places'
  BY ActorAssumption, RequestAssumption DEF IInv, TypeOK, Places, Destroyer, Actor, ServerPlace,
       DestroyPlace, Locked, TimeOut, Go, sessionVars, requestVars, clientVars, actorVars
<1>3. \A r \in Request : Queued(r)' <=> Queued(r)
  BY DEF TimeOut, Go, sessionVars, Queued, In
<1>4. \A r \in Request : /\ InHand(r)' <=> InHand(r)
                         /\ Owned(r)' <=> Owned(r)
  BY <1>3, ActorAssumption, RequestAssumption DEF IInv, TypeOK, Places, TimeOut, Go, sessionVars,
       actorVars, Owned, InHand, Actor, Destroyer
<1>5. Closing'
  BY <1>4, ActorAssumption DEF IInv, TypeOK, Closing, Places, TimeOut, Go, sessionVars,
       actorVars, Actor, Destroyer, State
<1>6. OnePlace'
  BY <1>3, <1>4, ActorAssumption DEF IInv, TypeOK, OnePlace, Places, Distinct, TimeOut, Go,
       sessionVars, actorVars, Actor, Destroyer
<1>7. Calls'
  BY <1>4 DEF IInv, TypeOK, Calls, TimeOut, Go, requestVars, clientVars
<1>8. Clears'
  BY <1>3, ActorAssumption DEF IInv, TypeOK, Clears, Places, TimeOut, Go, sessionVars,
       requestVars, clientVars, actorVars, Actor, Destroyer
<1>9. RequestRefs'
  BY <1>4, ActorAssumption DEF IInv, TypeOK, RequestRefs, InCall, Visiting, Places, Count,
       TimeOut, Go, requestVars, clientVars, actorVars, Actor, Destroyer
<1>10. NoMissedRequest'
  BY ActorAssumption DEF IInv, TypeOK, NoMissedRequest, Places, Closing, IsSignaledImpl, TimeOut,
       Go, sessionVars, actorVars, Actor, Destroyer, State
<1>11. NoRequestDropped'
  BY <1>4, ActorAssumption DEF IInv, TypeOK, NoRequestDropped, Places, Closing, TimeOut, Go,
       requestVars, clientVars, actorVars, Actor, Destroyer
<1> QED BY <1>1, <1>2, <1>5, <1>6, <1>7, <1>8, <1>9, <1>10, <1>11 DEF IInv

\* ReceiveNothing: the session changed since it was signaled.
LEMMA ReceiveNothingKeeps ==
    ASSUME IInv, NEW s \in Server, ReceiveNothing(s)
    PROVE  IInv'
<1>1. TypeOK'
  BY DEF IInv, TypeOK, ReceiveNothing, Go, IsClosed, LockFree, sessionVars, requestVars,
       clientVars, actorVars, State, ClientPlace, ServerPlace, DestroyPlace, Destroyer, Actor
<1>2. Places'
  BY ActorAssumption, RequestAssumption DEF IInv, TypeOK, Places, Destroyer, Actor, ServerPlace,
       DestroyPlace, Locked, ReceiveNothing, Go, IsClosed, LockFree, sessionVars, requestVars,
       clientVars, actorVars
<1>3. \A r \in Request : Queued(r)' <=> Queued(r)
  BY DEF ReceiveNothing, Go, IsClosed, LockFree, sessionVars, Queued, In
<1>4. \A r \in Request : /\ InHand(r)' <=> InHand(r)
                         /\ Owned(r)' <=> Owned(r)
  BY <1>3, ActorAssumption, RequestAssumption DEF IInv, TypeOK, Places, ReceiveNothing, Go,
       IsClosed, LockFree, sessionVars, actorVars, Owned, InHand, Actor, Destroyer
<1>5. Closing'
  BY <1>4, ActorAssumption DEF IInv, TypeOK, Closing, Places, ReceiveNothing, Go, IsClosed,
       LockFree, sessionVars, actorVars, Actor, Destroyer, State
<1>6. OnePlace'
  BY <1>3, <1>4, ActorAssumption DEF IInv, TypeOK, OnePlace, Places, Distinct, ReceiveNothing,
       Go, IsClosed, LockFree, sessionVars, actorVars, Actor, Destroyer
<1>7. Calls'
  BY <1>4 DEF IInv, TypeOK, Calls, ReceiveNothing, Go, IsClosed, LockFree, requestVars, clientVars
<1>8. Clears'
  BY <1>3, ActorAssumption DEF IInv, TypeOK, Clears, Places, ReceiveNothing, Go, IsClosed,
       LockFree, sessionVars, requestVars, clientVars, actorVars, Actor, Destroyer
<1>9. RequestRefs'
  BY <1>4, ActorAssumption DEF IInv, TypeOK, RequestRefs, InCall, Visiting, Places, Count,
       ReceiveNothing, Go, IsClosed, LockFree, requestVars, clientVars, actorVars, Actor, Destroyer
<1>10. NoMissedRequest'
  BY ActorAssumption DEF IInv, TypeOK, NoMissedRequest, Places, Closing, IsSignaledImpl,
       ReceiveNothing, Go, IsClosed, LockFree, sessionVars, actorVars, Actor, Destroyer, State
<1>11. NoRequestDropped'
  BY <1>4, ActorAssumption DEF IInv, TypeOK, NoRequestDropped, Places, Closing, ReceiveNothing,
       Go, IsClosed, LockFree, requestVars, clientVars, actorVars, Actor, Destroyer
<1> QED BY <1>1, <1>2, <1>5, <1>6, <1>7, <1>8, <1>9, <1>10, <1>11 DEF IInv

\* Destroy: no thread of the end is in a call.
LEMMA DestroyKeeps ==
    ASSUME IInv, NEW d \in Destroyer, Destroy(d)
    PROVE  IInv'
<1>1. TypeOK'
  BY DEF IInv, TypeOK, Destroy, Go, sessionVars, requestVars, clientVars, actorVars, State,
       ClientPlace, ServerPlace, DestroyPlace, Destroyer, Actor
<1>2. Places'
  BY ActorAssumption, RequestAssumption DEF IInv, TypeOK, Places, Destroyer, Actor, ServerPlace,
       DestroyPlace, Locked, Destroy, Go, sessionVars, requestVars, clientVars, actorVars
<1>3. \A r \in Request : Queued(r)' <=> Queued(r)
  BY DEF Destroy, Go, sessionVars, Queued, In
<1>4. \A r \in Request : /\ InHand(r)' <=> InHand(r)
                         /\ Owned(r)' <=> Owned(r)
  BY <1>3, ActorAssumption, RequestAssumption DEF IInv, TypeOK, Places, Destroy, Go, sessionVars,
       actorVars, Owned, InHand, Actor, Destroyer
<1>5. Closing'
  BY <1>4, ActorAssumption DEF IInv, TypeOK, Closing, Places, Destroy, Go, sessionVars,
       actorVars, Actor, Destroyer, State
<1>6. OnePlace'
  BY <1>3, <1>4, ActorAssumption DEF IInv, TypeOK, OnePlace, Places, Distinct, Destroy, Go,
       sessionVars, actorVars, Actor, Destroyer
<1>7. Calls'
  BY <1>4 DEF IInv, TypeOK, Calls, Destroy, Go, requestVars, clientVars
<1>8. Clears'
  BY <1>3, ActorAssumption DEF IInv, TypeOK, Clears, Places, Destroy, Go, sessionVars,
       requestVars, clientVars, actorVars, Actor, Destroyer
<1>9. RequestRefs'
  BY <1>4, ActorAssumption DEF IInv, TypeOK, RequestRefs, InCall, Visiting, Places, Count,
       Destroy, Go, requestVars, clientVars, actorVars, Actor, Destroyer
<1>10. NoMissedRequest'
  BY ActorAssumption DEF IInv, TypeOK, NoMissedRequest, Places, Closing, IsSignaledImpl, Destroy,
       Go, sessionVars, actorVars, Actor, Destroyer, State
<1>11. NoRequestDropped'
  BY <1>4, ActorAssumption DEF IInv, TypeOK, NoRequestDropped, Places, Closing, Destroy, Go,
       requestVars, clientVars, actorVars, Actor, Destroyer
<1> QED BY <1>1, <1>2, <1>5, <1>6, <1>7, <1>8, <1>9, <1>10, <1>11 DEF IInv

\* CheckState: the look at the state.
LEMMA CheckStateKeeps ==
    ASSUME IInv, NEW d \in Destroyer, CheckState(d)
    PROVE  IInv'
<1>1. TypeOK'
  BY DEF IInv, TypeOK, CheckState, Go, IsClosed, sessionVars, requestVars, clientVars, actorVars,
       State, ClientPlace, ServerPlace, DestroyPlace, Destroyer, Actor
<1>2. Places'
  BY ActorAssumption, RequestAssumption DEF IInv, TypeOK, Places, Destroyer, Actor, ServerPlace,
       DestroyPlace, Locked, CheckState, Go, IsClosed, sessionVars, requestVars, clientVars,
       actorVars
<1>3. \A r \in Request : Queued(r)' <=> Queued(r)
  BY DEF CheckState, Go, IsClosed, sessionVars, Queued, In
<1>4. \A r \in Request : /\ InHand(r)' <=> InHand(r)
                         /\ Owned(r)' <=> Owned(r)
  BY <1>3, ActorAssumption, RequestAssumption DEF IInv, TypeOK, Places, CheckState, Go, IsClosed,
       sessionVars, actorVars, Owned, InHand, Actor, Destroyer
<1>5. Closing'
  BY <1>4, ActorAssumption DEF IInv, TypeOK, Closing, Places, CheckState, Go, IsClosed,
       sessionVars, actorVars, Actor, Destroyer, State
<1>6. OnePlace'
  BY <1>3, <1>4, ActorAssumption DEF IInv, TypeOK, OnePlace, Places, Distinct, CheckState, Go,
       IsClosed, sessionVars, actorVars, Actor, Destroyer
<1>7. Calls'
  BY <1>4 DEF IInv, TypeOK, Calls, CheckState, Go, IsClosed, requestVars, clientVars
<1>8. Clears'
  BY <1>3, ActorAssumption DEF IInv, TypeOK, Clears, Places, CheckState, Go, IsClosed,
       sessionVars, requestVars, clientVars, actorVars, Actor, Destroyer
<1>9. RequestRefs'
  BY <1>4, ActorAssumption DEF IInv, TypeOK, RequestRefs, InCall, Visiting, Places, Count,
       CheckState, Go, IsClosed, requestVars, clientVars, actorVars, Actor, Destroyer
<1>10. NoMissedRequest'
  BY ActorAssumption DEF IInv, TypeOK, NoMissedRequest, Places, Closing, IsSignaledImpl,
       CheckState, Go, IsClosed, sessionVars, actorVars, Actor, Destroyer, State
<1>11. NoRequestDropped'
  BY <1>4, ActorAssumption DEF IInv, TypeOK, NoRequestDropped, Places, Closing, CheckState, Go,
       IsClosed, requestVars, clientVars, actorVars, Actor, Destroyer
<1> QED BY <1>1, <1>2, <1>5, <1>6, <1>7, <1>8, <1>9, <1>10, <1>11 DEF IInv

\* SetState: an end closes, perhaps over the other's mark.
LEMMA SetStateKeeps ==
    ASSUME IInv, NEW d \in Destroyer, SetState(d)
    PROVE  IInv'
<1>1. TypeOK'
  BY DEF IInv, TypeOK, SetState, Go, sessionVars, requestVars, clientVars, actorVars, State,
       ClientPlace, ServerPlace, DestroyPlace, Destroyer, Actor
<1>2. Places'
  BY ActorAssumption, RequestAssumption DEF IInv, TypeOK, Places, Destroyer, Actor, ServerPlace,
       DestroyPlace, Locked, SetState, Go, sessionVars, requestVars, clientVars, actorVars
<1>3. \A r \in Request : Queued(r)' <=> Queued(r)
  BY DEF SetState, Go, sessionVars, Queued, In
<1>4. \A r \in Request : /\ InHand(r)' <=> InHand(r)
                         /\ Owned(r)' <=> Owned(r)
  BY <1>3, ActorAssumption, RequestAssumption DEF IInv, TypeOK, Places, SetState, Go,
       sessionVars, actorVars, Owned, InHand, Actor, Destroyer
<1>5. Closing'
  BY <1>4, ActorAssumption DEF IInv, TypeOK, Closing, Places, SetState, Go, sessionVars,
       actorVars, Actor, Destroyer, State
<1>6. OnePlace'
  BY <1>3, <1>4, ActorAssumption DEF IInv, TypeOK, OnePlace, Places, Distinct, SetState, Go,
       sessionVars, actorVars, Actor, Destroyer
<1>7. Calls'
  BY <1>4 DEF IInv, TypeOK, Calls, SetState, Go, requestVars, clientVars
<1>8. Clears'
  BY <1>3, ActorAssumption DEF IInv, TypeOK, Clears, Places, SetState, Go, sessionVars,
       requestVars, clientVars, actorVars, Actor, Destroyer
<1>9. RequestRefs'
  BY <1>4, ActorAssumption DEF IInv, TypeOK, RequestRefs, InCall, Visiting, Places, Count,
       SetState, Go, requestVars, clientVars, actorVars, Actor, Destroyer
<1>10. NoMissedRequest'
  BY ActorAssumption DEF IInv, TypeOK, NoMissedRequest, Places, Closing, IsSignaledImpl,
       SetState, Go, sessionVars, actorVars, Actor, Destroyer, State
<1>11. NoRequestDropped'
  BY <1>4, ActorAssumption DEF IInv, TypeOK, NoRequestDropped, Places, Closing, SetState, Go,
       requestVars, clientVars, actorVars, Actor, Destroyer
<1> QED BY <1>1, <1>2, <1>5, <1>6, <1>7, <1>8, <1>9, <1>10, <1>11 DEF IInv

\* ClientDestroyed: every waiting thread of the server is woken.
LEMMA ClientDestroyedKeeps ==
    ASSUME IInv, ClientDestroyed
    PROVE  IInv'
<1>1. TypeOK'
  BY DEF IInv, TypeOK, ClientDestroyed, Notified, IsSignaledImpl, InLoop, Unvisited, LockFree,
       sessionVars, requestVars, clientVars, actorVars, State, ClientPlace, ServerPlace,
       DestroyPlace, Destroyer, Actor
<1>2. Places'
  BY ActorAssumption, RequestAssumption DEF IInv, TypeOK, Places, Destroyer, Actor, ServerPlace,
       DestroyPlace, Locked, ClientDestroyed, Notified, IsSignaledImpl, InLoop, Unvisited,
       LockFree, sessionVars, requestVars, clientVars, actorVars
<1>3. \A r \in Request : Queued(r)' <=> Queued(r)
  BY DEF ClientDestroyed, Notified, IsSignaledImpl, InLoop, Unvisited, LockFree, sessionVars,
       Queued, In
<1>4. \A r \in Request : /\ InHand(r)' <=> InHand(r)
                         /\ Owned(r)' <=> Owned(r)
  BY ZenonT(60), <1>3, ActorAssumption, RequestAssumption DEF IInv, TypeOK, Places, ClientDestroyed,
       Notified, IsSignaledImpl, InLoop, Unvisited, LockFree, sessionVars, actorVars, Owned,
       InHand, Actor, Destroyer
<1>5. Closing'
  BY <1>4, ActorAssumption DEF IInv, TypeOK, Closing, Places, ClientDestroyed, Notified,
       IsSignaledImpl, InLoop, Unvisited, LockFree, sessionVars, actorVars, Actor, Destroyer, State
<1>6. OnePlace'
  BY <1>3, <1>4, ActorAssumption DEF IInv, TypeOK, OnePlace, Places, Distinct, ClientDestroyed,
       Notified, IsSignaledImpl, InLoop, Unvisited, LockFree, sessionVars, actorVars, Actor,
       Destroyer
<1>7. Calls'
  BY <1>4 DEF IInv, TypeOK, Calls, ClientDestroyed, Notified, IsSignaledImpl, InLoop, Unvisited,
       LockFree, requestVars, clientVars
<1>8. Clears'
  BY <1>3, ActorAssumption DEF IInv, TypeOK, Clears, Places, ClientDestroyed, Notified,
       IsSignaledImpl, InLoop, Unvisited, LockFree, sessionVars, requestVars, clientVars,
       actorVars, Actor, Destroyer
<1>9. RequestRefs'
  BY ZenonT(60), <1>4, ActorAssumption DEF IInv, TypeOK, RequestRefs, InCall, Visiting, Places, Count,
       ClientDestroyed, Notified, IsSignaledImpl, InLoop, Unvisited, LockFree, requestVars,
       clientVars, actorVars, Actor, Destroyer
<1>10. NoMissedRequest'
  BY ActorAssumption DEF IInv, TypeOK, NoMissedRequest, Places, Closing, IsSignaledImpl,
       ClientDestroyed, Notified, IsSignaledImpl, InLoop, Unvisited, LockFree, sessionVars,
       actorVars, Actor, Destroyer, State
<1>11. NoRequestDropped'
  BY <1>4, ActorAssumption DEF IInv, TypeOK, NoRequestDropped, Places, Closing, ClientDestroyed,
       Notified, IsSignaledImpl, InLoop, Unvisited, LockFree, requestVars, clientVars, actorVars,
       Actor, Destroyer
<1> QED BY <1>1, <1>2, <1>5, <1>6, <1>7, <1>8, <1>9, <1>10, <1>11 DEF IInv

\* Refused: the request was never in the session.
LEMMA RefusedKeeps ==
    ASSUME IInv, NEW c \in Client, Refused(c)
    PROVE  IInv'
<1>1. TypeOK'
  BY DEF IInv, TypeOK, Refused, IsClosed, sessionVars, requestVars, clientVars, actorVars, State,
       ClientPlace, ServerPlace, DestroyPlace, Destroyer, Actor
<1>2. Places'
  BY ActorAssumption, RequestAssumption DEF IInv, TypeOK, Places, Destroyer, Actor, ServerPlace,
       DestroyPlace, Locked, Refused, IsClosed, sessionVars, requestVars, clientVars, actorVars
<1>3. \A r \in Request : Queued(r)' <=> Queued(r)
  BY DEF Refused, IsClosed, sessionVars, Queued, In
<1>4. \A r \in Request : /\ InHand(r)' <=> InHand(r)
                         /\ Owned(r)' <=> Owned(r)
  BY <1>3, ActorAssumption, RequestAssumption DEF IInv, TypeOK, Places, Refused, IsClosed,
       sessionVars, actorVars, Owned, InHand, Actor, Destroyer
<1>5. Closing'
  BY <1>4, ActorAssumption DEF IInv, TypeOK, Closing, Places, Refused, IsClosed, sessionVars,
       actorVars, Actor, Destroyer, State
<1>6. OnePlace'
  BY <1>3, <1>4, ActorAssumption DEF IInv, TypeOK, OnePlace, Places, Distinct, Refused, IsClosed,
       sessionVars, actorVars, Actor, Destroyer
<1>7. Calls'
  BY <1>4 DEF IInv, TypeOK, Calls, Refused, IsClosed, requestVars, clientVars
<1>8. Clears'
  BY <1>3, ActorAssumption DEF IInv, TypeOK, Clears, Places, Refused, IsClosed, sessionVars,
       requestVars, clientVars, actorVars, Actor, Destroyer
<1>9. RequestRefs'
  BY ZenonT(60), <1>4, ActorAssumption DEF IInv, TypeOK, RequestRefs, InCall, Visiting, Places, Count,
       Refused, IsClosed, requestVars, clientVars, actorVars, Actor, Destroyer
<1>10. NoMissedRequest'
  BY ActorAssumption DEF IInv, TypeOK, NoMissedRequest, Places, Closing, IsSignaledImpl, Refused,
       IsClosed, sessionVars, actorVars, Actor, Destroyer, State
<1>11. NoRequestDropped'
  BY <1>4, ActorAssumption DEF IInv, TypeOK, NoRequestDropped, Places, Closing, Refused,
       IsClosed, requestVars, clientVars, actorVars, Actor, Destroyer
<1> QED BY <1>1, <1>2, <1>5, <1>6, <1>7, <1>8, <1>9, <1>10, <1>11 DEF IInv

\* Return: the reference of the call goes.
LEMMA ReturnKeeps ==
    ASSUME IInv, NEW c \in Client, Return(c)
    PROVE  IInv'
<1>0. PICK x \in Request : /\ x = creq[c] /\ refs[x] \in Nat \ {0}
                           /\ refs' = [refs EXCEPT ![x] = refs[x] - 1]
  <2>1. PICK x \in Request : x = creq[c]
    BY RequestAssumption DEF IInv, TypeOK, Calls, Return
  <2> QED BY ZenonT(60), <2>1, RefsCount DEF Return, Close, InCall
<1>1. TypeOK'
  BY <1>0 DEF IInv, TypeOK, Return, sessionVars, actorVars, ClientPlace
<1>2. Places'
  BY ActorAssumption, RequestAssumption DEF IInv, TypeOK, Places, Destroyer, Actor, ServerPlace,
       DestroyPlace, Locked, Return, Close, sessionVars, requestVars, clientVars, actorVars
<1>3. \A r \in Request : Queued(r)' <=> Queued(r)
  BY DEF Return, Close, sessionVars, Queued, In
<1>4. \A r \in Request : /\ InHand(r)' <=> InHand(r)
                         /\ Owned(r)' <=> Owned(r)
  BY <1>3, ActorAssumption, RequestAssumption DEF IInv, TypeOK, Places, Return, Close,
       sessionVars, actorVars, Owned, InHand, Actor, Destroyer
<1>5. Closing'
  BY <1>4, ActorAssumption DEF IInv, TypeOK, Closing, Places, Return, Close, sessionVars,
       actorVars, Actor, Destroyer, State
<1>6. OnePlace'
  BY <1>3, <1>4, ActorAssumption DEF IInv, TypeOK, OnePlace, Places, Distinct, Return, Close,
       sessionVars, actorVars, Actor, Destroyer
<1>7. Calls'
  BY <1>4 DEF IInv, TypeOK, Calls, Return, Close, requestVars, clientVars
<1>8. Clears'
  BY <1>3, ActorAssumption DEF IInv, TypeOK, Clears, Places, Return, Close, sessionVars,
       requestVars, clientVars, actorVars, Actor, Destroyer
<1>9. RequestRefs'
  <2>1. \A q \in Request : InCall(q)' <=> InCall(q) /\ q # x
    BY <1>0, RequestAssumption DEF IInv, TypeOK, Calls, Return, InCall
  <2>2. InCall(x) /\ \A q \in Request : Visiting(q)' <=> Visiting(q)
    BY <1>0 DEF InCall, Return, actorVars, Visiting
  <2> QED BY <1>0, <1>4, <2>1, <2>2 DEF IInv, TypeOK, RequestRefs, Count
<1>10. NoMissedRequest'
  BY ActorAssumption DEF IInv, TypeOK, NoMissedRequest, Places, Closing, IsSignaledImpl, Return,
       Close, sessionVars, actorVars, Actor, Destroyer, State
<1>11. NoRequestDropped'
  BY <1>4, ActorAssumption DEF IInv, TypeOK, NoRequestDropped, Places, Closing, Return, Close,
       requestVars, clientVars, actorVars, Actor, Destroyer
<1> QED BY <1>1, <1>2, <1>5, <1>6, <1>7, <1>8, <1>9, <1>10, <1>11 DEF IInv

\* RequestTerminate: the wait ends, the request stays.
LEMMA RequestTerminateKeeps ==
    ASSUME IInv, NEW c \in Client, RequestTerminate(c)
    PROVE  IInv'
<1>1. TypeOK'
  BY DEF IInv, TypeOK, RequestTerminate, sessionVars, requestVars, clientVars, actorVars, State,
       ClientPlace, ServerPlace, DestroyPlace, Destroyer, Actor
<1>2. Places'
  BY ActorAssumption, RequestAssumption DEF IInv, TypeOK, Places, Destroyer, Actor, ServerPlace,
       DestroyPlace, Locked, RequestTerminate, sessionVars, requestVars, clientVars, actorVars
<1>3. \A r \in Request : Queued(r)' <=> Queued(r)
  BY DEF RequestTerminate, sessionVars, Queued, In
<1>4. \A r \in Request : /\ InHand(r)' <=> InHand(r)
                         /\ Owned(r)' <=> Owned(r)
  BY <1>3, ActorAssumption, RequestAssumption DEF IInv, TypeOK, Places, RequestTerminate,
       sessionVars, actorVars, Owned, InHand, Actor, Destroyer
<1>5. Closing'
  BY <1>4, ActorAssumption DEF IInv, TypeOK, Closing, Places, RequestTerminate, sessionVars,
       actorVars, Actor, Destroyer, State
<1>6. OnePlace'
  BY <1>3, <1>4, ActorAssumption DEF IInv, TypeOK, OnePlace, Places, Distinct, RequestTerminate,
       sessionVars, actorVars, Actor, Destroyer
<1>7. Calls'
  BY <1>4 DEF IInv, TypeOK, Calls, RequestTerminate, requestVars, clientVars
<1>8. Clears'
  BY <1>3, ActorAssumption DEF IInv, TypeOK, Clears, Places, RequestTerminate, sessionVars,
       requestVars, clientVars, actorVars, Actor, Destroyer
<1>9. RequestRefs'
  BY ZenonT(60), <1>4, ActorAssumption DEF IInv, TypeOK, RequestRefs, InCall, Visiting, Places, Count,
       RequestTerminate, requestVars, clientVars, actorVars, Actor, Destroyer
<1>10. NoMissedRequest'
  BY ActorAssumption DEF IInv, TypeOK, NoMissedRequest, Places, Closing, IsSignaledImpl,
       RequestTerminate, sessionVars, actorVars, Actor, Destroyer, State
<1>11. NoRequestDropped'
  BY <1>4, ActorAssumption DEF IInv, TypeOK, NoRequestDropped, Places, Closing, RequestTerminate,
       requestVars, clientVars, actorVars, Actor, Destroyer
<1> QED BY <1>1, <1>2, <1>5, <1>6, <1>7, <1>8, <1>9, <1>10, <1>11 DEF IInv

-----------------------------------------------------------------------------
(* Steps that make, move and answer requests.                              *)

\* SendRequest: a free request is in no other hands.
LEMMA SendRequestKeeps ==
    ASSUME IInv, NEW c \in Client, NEW r \in Request, NEW isAsync \in BOOLEAN, SendRequest(c, r, isAsync)
    PROVE  IInv'
<1>0. ~Owned(r) /\ ~InCall(r) /\ refs[r] = 0
  BY RefsCount DEF SendRequest
<1>1. TypeOK'
  BY <1>0 DEF IInv, TypeOK, SendRequest, sessionVars, requestVars, clientVars, actorVars, State,
       ClientPlace, ServerPlace, DestroyPlace, Destroyer, Actor
<1>2. Places'
  BY <1>0, ActorAssumption, RequestAssumption DEF IInv, TypeOK, Places, Destroyer, Actor,
       ServerPlace, DestroyPlace, Locked, SendRequest, sessionVars, requestVars, clientVars,
       actorVars
<1>3. \A q \in Request : Queued(q)' <=> Queued(q)
  BY <1>0 DEF SendRequest, sessionVars, Queued, In
<1>4. \A q \in Request : /\ InHand(q)' <=> InHand(q)
                         /\ Owned(q)' <=> Owned(q)
  BY <1>0, <1>3, ActorAssumption, RequestAssumption DEF IInv, TypeOK, Places, OnePlace, Locked,
       SendRequest, sessionVars, actorVars, Owned, InHand, Actor, Destroyer
<1>5. Closing'
  BY <1>0, <1>4, ActorAssumption DEF IInv, TypeOK, Closing, Places, SendRequest, sessionVars,
       actorVars, Actor, Destroyer, State
<1>6. OnePlace'
  BY <1>0, <1>3, <1>4, ActorAssumption, RequestAssumption DEF IInv, TypeOK, OnePlace, Places,
       Locked, Distinct, SendRequest, sessionVars, actorVars, Actor, Destroyer
<1>7. Calls'
  BY <1>0, <1>4, RequestAssumption DEF IInv, TypeOK, Calls, InCall, SendRequest
<1>8. Clears'
  BY <1>0, <1>3, ActorAssumption, RequestAssumption DEF IInv, TypeOK, Clears, Places,
       SendRequest, sessionVars, requestVars, clientVars, actorVars, Actor, Destroyer
<1>9. RequestRefs'
  <2>1. \A q \in Request : InCall(q)' <=> InCall(q) \/ q = r
    BY <1>0, RequestAssumption DEF IInv, TypeOK, Calls, SendRequest, InCall
  <2>2. refs' = [refs EXCEPT ![r] = 1]
    BY DEF SendRequest
  <2>3. \A q \in Request : ~Visiting(q) /\ ~Visiting(q)'
    BY DEF SendRequest, actorVars, Visiting
  <2> QED BY <2>1, <2>2, <2>3, <1>0, <1>4 DEF IInv, TypeOK, RequestRefs, Count
<1>10. NoMissedRequest'
  BY <1>0, ActorAssumption DEF IInv, TypeOK, NoMissedRequest, Places, Closing, IsSignaledImpl,
       SendRequest, sessionVars, actorVars, Actor, Destroyer, State
<1>11. NoRequestDropped'
  BY <1>0, <1>4, ActorAssumption DEF IInv, TypeOK, NoRequestDropped, Places, Closing,
       SendRequest, requestVars, clientVars, actorVars, Actor, Destroyer
<1> QED BY <1>1, <1>2, <1>5, <1>6, <1>7, <1>8, <1>9, <1>10, <1>11 DEF IInv

\* OnRequest: the session takes its reference with the place in the queue.
LEMMA OnRequestKeeps ==
    ASSUME IInv, NEW c \in Client, OnRequest(c)
    PROVE  IInv'
<1>r. creq[c] \in Request
  BY DEF IInv, TypeOK, Calls, OnRequest
<1>p. PICK r \in Request, l \in Seq(Request) : r = creq[c] /\ l = list
  BY ZenonT(60), <1>r DEF IInv, TypeOK
<1>a. ~Owned(r) /\ ~Queued(r)
  BY <1>p DEF IInv, Calls, OnRequest, Owned
<1>b. Distinct(l) /\ ~In(r, l) /\ list' = Append(l, r)
  BY ZenonT(60), <1>p, <1>a DEF IInv, OnePlace, OnRequest, Queue, Queued
<1>c. Append(l, r) # <<>>
  <2>1. Len(Append(l, r)) = Len(l) + 1 /\ Len(l) \in Nat
    OBVIOUS
  <2>2. Len(<<>>) = 0
    OBVIOUS
  <2> QED BY <2>1, <2>2
<1>0. /\ r \in Request /\ r = creq[c] /\ ~Owned(r) /\ ~Queued(r) /\ list' = Append(list, r)
      /\ list' \in Seq(Request) /\ Distinct(list') /\ list' # <<>>
      /\ \A q : In(q, list') <=> In(q, list) \/ q = r
  BY ZenonT(60), <1>p, <1>a, <1>b, <1>c, AppendIn
<1>1. TypeOK'
  BY <1>0 DEF IInv, TypeOK, OnRequest, Queue, IsClosed, IsSignaledImpl, sessionVars, requestVars,
       clientVars, actorVars, State, ClientPlace, ServerPlace, DestroyPlace, Destroyer, Actor
<1>2. Places'
  BY <1>0, ActorAssumption, RequestAssumption DEF IInv, TypeOK, Places, Destroyer, Actor,
       ServerPlace, DestroyPlace, Locked, OnRequest, Queue, IsClosed, IsSignaledImpl,
       sessionVars, requestVars, clientVars, actorVars
<1>3. \A q \in Request : Queued(q)' <=> Queued(q) \/ q = creq[c]
  BY ZenonT(60), <1>0 DEF Queued
<1>4. \A q \in Request : /\ InHand(q)' <=> InHand(q)
                         /\ Owned(q)' <=> Owned(q) \/ q = creq[c]
  BY ZenonT(60), <1>0, <1>3, ActorAssumption, RequestAssumption DEF IInv, TypeOK, Places, OnePlace, Locked,
       OnRequest, Queue, IsClosed, IsSignaledImpl, sessionVars, actorVars, Owned, InHand, Actor,
       Destroyer
<1>5. Closing'
  BY <1>0, <1>4, ActorAssumption DEF IInv, TypeOK, Closing, Places, OnRequest, Queue, IsClosed,
       IsSignaledImpl, sessionVars, actorVars, Actor, Destroyer, State
<1>6. OnePlace'
  <2>1. \A a \in Actor : (pc'[a] = pc[a] \/ (pc[a] = "wait" /\ pc'[a] = "receive")) /\ held'[a] = held[a]
    BY DEF IInv, TypeOK, OnRequest, Queue
  <2>2. current' = current /\ current # r /\ ~InHand(r)
    BY <1>0 DEF OnRequest, Owned
  <2>3. \A q \in Request : Queued(q)' => current' # q /\ ~InHand(q)'
    <3>1. \A q \in Request : Queued(q) => current # q /\ ~InHand(q)
      BY ZenonT(60) DEF IInv, OnePlace
    <3> QED BY ZenonT(60), <1>0, <1>3, <1>4, <2>2, <3>1
  <2>4. \A a \in Actor : /\ pc'[a] \in {"failed", "visit"} => current' = held'[a]
                         /\ pc'[a] = "popped" => current' = NoRequest
                         /\ pc'[a] = "answer" => current' # held'[a]
    <3>1. \A a \in Actor : pc'[a] = pc[a] \/ pc'[a] = "receive"
      BY ZenonT(60), <2>1
    <3> QED BY ZenonT(60), <2>1, <2>2, <3>1 DEF IInv, OnePlace
  <2>5. Distinct(list)'
    BY ZenonT(60), <1>0
  <2> QED BY ZenonT(60), <2>3, <2>4, <2>5 DEF OnePlace
<1>7. Calls'
  BY <1>0, <1>4, RequestAssumption DEF IInv, TypeOK, Calls, OnRequest, Queue, IsClosed,
       IsSignaledImpl, requestVars, clientVars
<1>8. Clears'
  <2>1. \A a \in Actor : (pc'[a] = pc[a] \/ (pc[a] = "wait" /\ pc'[a] = "receive")) /\ held'[a] = held[a]
    BY DEF IInv, TypeOK, OnRequest, Queue
  <2>2. UNCHANGED <<current, thread, cleared, terminating, prev>> /\ r \notin cleared
    BY <1>0 DEF OnRequest, IInv, Calls
  <2> QED BY <1>0, <1>3, <2>1, <2>2 DEF IInv, TypeOK, Clears
<1>9. RequestRefs'
  <2>1. (\A q \in Request : InCall(q)' <=> InCall(q)) /\ refs' = [refs EXCEPT ![r] = refs[r] + 1]
    BY <1>0 DEF OnRequest, InCall
  <2>2. \A q \in Request : ~Visiting(q) /\ ~Visiting(q)'
    BY DEF Visiting, IInv, TypeOK, Places, OnRequest, Queue, Actor, Destroyer
  <2> QED BY <2>1, <2>2, <1>0, <1>4 DEF IInv, TypeOK, RequestRefs, Count
<1>10. NoMissedRequest'
  BY <1>0, ActorAssumption DEF IInv, TypeOK, NoMissedRequest, Places, Closing, IsSignaledImpl,
       OnRequest, Queue, IsClosed, IsSignaledImpl, sessionVars, actorVars, Actor, Destroyer, State
<1>11. NoRequestDropped'
  BY <1>0, <1>4, ActorAssumption DEF IInv, TypeOK, NoRequestDropped, Places, Closing, OnRequest,
       Queue, IsClosed, IsSignaledImpl, requestVars, clientVars, actorVars, Actor, Destroyer
<1> QED BY <1>1, <1>2, <1>5, <1>6, <1>7, <1>8, <1>9, <1>10, <1>11 DEF IInv

\* ReceiveRequest: from the queue into the hands of the thread.
LEMMA ReceiveRequestKeeps ==
    ASSUME IInv, NEW s \in Server, ReceiveRequest(s)
    PROVE  IInv'
<1>0. PICK r \in Request : /\ r = Head(list) /\ Queued(r) /\ list' = Tail(list)
                           /\ list' \in Seq(Request) /\ Distinct(list')
                           /\ \A q : In(q, list') <=> In(q, list) /\ q # r
  BY TailIn DEF IInv, TypeOK, OnePlace, ReceiveRequest, Queued
<1>1. TypeOK'
  BY <1>0 DEF IInv, TypeOK, ReceiveRequest, Go, GoWith, IsClosed, LockFree, sessionVars,
       requestVars, clientVars, actorVars, State, ClientPlace, ServerPlace, DestroyPlace,
       Destroyer, Actor
<1>2. Places'
  BY <1>0, ActorAssumption, RequestAssumption DEF IInv, TypeOK, Places, Destroyer, Actor,
       ServerPlace, DestroyPlace, Locked, ReceiveRequest, Go, GoWith, IsClosed, LockFree,
       sessionVars, requestVars, clientVars, actorVars
<1>3. \A q \in Request : Queued(q)' <=> Queued(q) /\ q # r
  BY ZenonT(60), <1>0 DEF ReceiveRequest, Go, GoWith, IsClosed, LockFree, sessionVars, Queued, In
<1>4. \A q \in Request : /\ InHand(q)' <=> q = r
                         /\ Owned(q)' <=> Owned(q)
  BY <1>0, <1>3, ActorAssumption, RequestAssumption DEF IInv, TypeOK, Places, OnePlace, Locked,
       ReceiveRequest, Go, GoWith, IsClosed, LockFree, sessionVars, actorVars, Owned, InHand,
       Actor, Destroyer
<1>5. Closing'
  BY <1>0, <1>4, ActorAssumption DEF IInv, TypeOK, Closing, Places, ReceiveRequest, Go, GoWith,
       IsClosed, LockFree, sessionVars, actorVars, Actor, Destroyer, State
<1>6. OnePlace'
  BY <1>0, <1>3, <1>4, ActorAssumption, RequestAssumption DEF IInv, TypeOK, OnePlace, Places,
       Locked, Distinct, ReceiveRequest, Go, GoWith, IsClosed, LockFree, sessionVars, actorVars,
       Actor, Destroyer
<1>7. Calls'
  BY <1>0, <1>4, RequestAssumption DEF IInv, TypeOK, Calls, ReceiveRequest, Go, GoWith, IsClosed,
       LockFree, requestVars, clientVars
<1>8. Clears'
  BY <1>0, <1>3, ActorAssumption, RequestAssumption DEF IInv, TypeOK, Clears, Places,
       ReceiveRequest, Go, GoWith, IsClosed, LockFree, sessionVars, requestVars, clientVars,
       actorVars, Actor, Destroyer
<1>9. RequestRefs'
  BY <1>0, <1>4, ActorAssumption, RequestAssumption DEF IInv, TypeOK, RequestRefs, InCall,
       Visiting, Places, Count, ReceiveRequest, Go, GoWith, IsClosed, LockFree, requestVars,
       clientVars, actorVars, Actor, Destroyer
<1>10. NoMissedRequest'
  BY <1>0, ActorAssumption DEF IInv, TypeOK, NoMissedRequest, Places, Closing, IsSignaledImpl,
       ReceiveRequest, Go, GoWith, IsClosed, LockFree, sessionVars, actorVars, Actor, Destroyer,
       State
<1>11. NoRequestDropped'
  BY <1>0, <1>4, ActorAssumption DEF IInv, TypeOK, NoRequestDropped, Places, Closing,
       ReceiveRequest, Go, GoWith, IsClosed, LockFree, requestVars, clientVars, actorVars, Actor,
       Destroyer
<1> QED BY <1>1, <1>2, <1>5, <1>6, <1>7, <1>8, <1>9, <1>10, <1>11 DEF IInv

\* SetCurrent: from the hands of the thread to the current request.
LEMMA SetCurrentKeeps ==
    ASSUME IInv, NEW s \in Server, SetCurrent(s)
    PROVE  IInv'
<1>0. /\ held[s] \in Request /\ current' = held[s] /\ current = NoRequest
      /\ \A a \in Actor : a # s => pc[a] \notin Locked /\ pc'[a] = pc[a] /\ held'[a] = held[a]
      /\ \/ pc'[s] = "idle" /\ held'[s] = NoRequest
         \/ pc'[s] = "failed" /\ held'[s] = held[s]
  <2>1. s \in Actor /\ pc[s] = "popped" /\ pc[s] \in Locked /\ current' = held[s]
    BY ZenonT(60) DEF SetCurrent, Actor, Locked
  <2>2. held[s] \in Request /\ current = NoRequest
    <3>1. held[s] # NoRequest /\ held[s] \in Request \cup {NoRequest}
      BY ZenonT(60), <2>1 DEF IInv, Places, TypeOK
    <3> QED BY ZenonT(60), <2>1, <3>1 DEF IInv, OnePlace
  <2>3. \A a \in Actor : a # s => pc[a] \notin Locked
    BY ZenonT(60), <2>1 DEF IInv, Places
  <2>4. pc \in [Actor -> ServerPlace \cup DestroyPlace] /\ held \in [Actor -> Request \cup {NoRequest}]
    BY ZenonT(60) DEF IInv, TypeOK
  <2> QED BY ZenonT(60), <2>1, <2>2, <2>3, <2>4 DEF SetCurrent, Go, GoWith
<1>00. pc' \in [Actor -> ServerPlace \cup DestroyPlace] /\ held' \in [Actor -> Request \cup {NoRequest}]
  BY ZenonT(60), <1>0 DEF IInv, TypeOK, SetCurrent, Go, GoWith, ServerPlace
<1>1. TypeOK'
  BY <1>0, <1>00 DEF IInv, TypeOK, SetCurrent, Go, GoWith, sessionVars, requestVars, clientVars,
       actorVars, State, ClientPlace, ServerPlace, DestroyPlace, Destroyer, Actor
<1>2. Places'
  <2>1. UNCHANGED cpc
    BY ZenonT(60) DEF SetCurrent, clientVars
  <2>2. s \notin Destroyer /\ pc[s] = "popped"
    BY ZenonT(60), ActorAssumption DEF SetCurrent
  <2>3. pc'[s] \in {"idle", "failed"} /\ pc[s] \in Locked
    BY ZenonT(60), <1>0, <2>2 DEF Locked
  <2>4. \A a \in Actor : a # s => pc'[a] = pc[a]
    BY ZenonT(60), <1>0
  <2>5. \A a, b \in Actor : pc'[a] \in Locked /\ pc'[b] \in Locked => a = b
    BY ZenonT(60), <1>0
  <2>6. \A a \in Actor : held'[a] # NoRequest <=> pc'[a] \in {"popped", "failed", "answer", "visit"}
    BY <1>0, RequestAssumption DEF IInv, Places
  <2>7. /\ \A a \in Server : pc'[a] \in ServerPlace
        /\ pc["ServerDestroy"] = "open"
    BY <2>2, <2>3, <2>4 DEF IInv, Places, Actor, ServerPlace
  <2>8. \A d \in Destroyer : pc'[d] = pc[d]
    BY <2>2, <2>4 DEF Actor
  <2>9. pc'["ServerDestroy"] = "open" /\ pc'["ClientDestroy"] = pc["ClientDestroy"]
    BY <2>7, <2>8 DEF Destroyer
  <2>10. \A d \in Destroyer : pc'[d] \in DestroyPlace
    BY ZenonT(60), <2>8 DEF IInv, Places
  <2>11. pc'["ClientDestroy"] # "open" => \A c \in Client : cpc'[c] = "idle"
    BY ZenonT(60), <2>1, <2>9 DEF IInv, Places
  <2>12. "open" # "visit"
    OBVIOUS
  <2> QED BY ZenonT(60), <2>5, <2>6, <2>7, <2>9, <2>10, <2>11, <2>12 DEF Places
<1>3. \A q \in Request : Queued(q)' <=> Queued(q)
  BY <1>0, <1>00 DEF SetCurrent, Go, GoWith, sessionVars, Queued, In
<1>4. \A q \in Request : /\ InHand(q)' <=> FALSE
                         /\ Owned(q)' <=> Owned(q)
  <2>1. \A q \in Request : InHand(q) <=> q = held[s]
    BY <1>0 DEF InHand, Locked, SetCurrent, Actor
  <2>2. \A q \in Request : ~InHand(q)'
    BY <1>0 DEF InHand, Locked
  <2> QED BY <1>0, <1>3, <2>1, <2>2, RequestAssumption DEF Owned
<1>5. Closing'
  BY <1>0, <1>00, <1>4, ActorAssumption DEF IInv, TypeOK, Closing, Places, SetCurrent, Go,
       GoWith, sessionVars, actorVars, Actor, Destroyer, State
<1>6. OnePlace'
  <2>1. list' = list /\ pc[s] = "popped" /\ InHand(held[s])
    BY DEF SetCurrent, InHand, Actor
  <2>2. \A q \in Request : Queued(q) => q # held[s]
    BY <2>1, <1>0 DEF IInv, OnePlace
  <2> QED BY ZenonT(60), <1>0, <1>3, <1>4, <2>1, <2>2 DEF IInv, OnePlace, Locked
<1>7. Calls'
  BY <1>0, <1>00, <1>4, RequestAssumption DEF IInv, TypeOK, Calls, SetCurrent, Go, GoWith,
       requestVars, clientVars
<1>8. Clears'
  BY <1>0, <1>00, <1>3, ActorAssumption, RequestAssumption DEF IInv, TypeOK, Clears, Places,
       SetCurrent, Go, GoWith, sessionVars, requestVars, clientVars, actorVars, Actor, Destroyer
<1>9. RequestRefs'
  BY <1>0, <1>00, <1>4, ActorAssumption, RequestAssumption DEF IInv, TypeOK, RequestRefs, InCall,
       Visiting, Places, Count, SetCurrent, Go, GoWith, requestVars, clientVars, actorVars,
       Actor, Destroyer
<1>10. NoMissedRequest'
  BY <1>0, <1>00, ActorAssumption DEF IInv, TypeOK, NoMissedRequest, Places, Closing,
       IsSignaledImpl, SetCurrent, Go, GoWith, sessionVars, actorVars, Actor, Destroyer, State
<1>11. NoRequestDropped'
  BY <1>0, <1>00, <1>4, ActorAssumption DEF IInv, TypeOK, NoRequestDropped, Places, Closing,
       SetCurrent, Go, GoWith, requestVars, clientVars, actorVars, Actor, Destroyer
<1> QED BY <1>1, <1>2, <1>5, <1>6, <1>7, <1>8, <1>9, <1>10, <1>11 DEF IInv

\* ReceiveFailed: back into the hands of the thread.
LEMMA ReceiveFailedKeeps ==
    ASSUME IInv, NEW s \in Server, ReceiveFailed(s)
    PROVE  IInv'
<1>1. TypeOK'
  BY DEF IInv, TypeOK, ReceiveFailed, ClearCurrent, Notified, sessionVars, requestVars,
       clientVars, actorVars, State, ClientPlace, ServerPlace, DestroyPlace, Destroyer, Actor
<1>2. Places'
  BY ActorAssumption, RequestAssumption DEF IInv, TypeOK, Places, Destroyer, Actor, ServerPlace,
       DestroyPlace, Locked, ReceiveFailed, ClearCurrent, Notified, sessionVars, requestVars,
       clientVars, actorVars
<1>3. \A q \in Request : Queued(q)' <=> Queued(q)
  BY DEF ReceiveFailed, ClearCurrent, Notified, sessionVars, Queued, In
<1>4. \A q \in Request : /\ InHand(q)' <=> q = held[s]
                         /\ Owned(q)' <=> Owned(q)
  BY ZenonT(60), <1>3, ActorAssumption, RequestAssumption DEF IInv, TypeOK, Places, OnePlace, Locked,
       ReceiveFailed, ClearCurrent, Notified, sessionVars, actorVars, Owned, InHand, Actor,
       Destroyer
<1>5. Closing'
  BY <1>4, ActorAssumption DEF IInv, TypeOK, Closing, Places, ReceiveFailed, ClearCurrent,
       Notified, sessionVars, actorVars, Actor, Destroyer, State
<1>6. OnePlace'
  BY <1>3, <1>4, ActorAssumption, RequestAssumption DEF IInv, TypeOK, OnePlace, Places, Locked,
       Distinct, ReceiveFailed, ClearCurrent, Notified, sessionVars, actorVars, Actor, Destroyer
<1>7. Calls'
  BY <1>4, RequestAssumption DEF IInv, TypeOK, Calls, ReceiveFailed, ClearCurrent, Notified,
       requestVars, clientVars
<1>8. Clears'
  BY <1>3, ActorAssumption, RequestAssumption DEF IInv, TypeOK, Clears, Places, ReceiveFailed,
       ClearCurrent, Notified, sessionVars, requestVars, clientVars, actorVars, Actor, Destroyer
<1>9. RequestRefs'
  BY <1>4, ActorAssumption, RequestAssumption DEF IInv, TypeOK, RequestRefs, InCall, Visiting,
       Places, Count, ReceiveFailed, ClearCurrent, Notified, requestVars, clientVars, actorVars,
       Actor, Destroyer
<1>10. NoMissedRequest'
  BY ActorAssumption DEF IInv, TypeOK, NoMissedRequest, Places, Closing, IsSignaledImpl,
       ReceiveFailed, ClearCurrent, Notified, sessionVars, actorVars, Actor, Destroyer, State
<1>11. NoRequestDropped'
  BY <1>4, ActorAssumption DEF IInv, TypeOK, NoRequestDropped, Places, Closing, ReceiveFailed,
       ClearCurrent, Notified, requestVars, clientVars, actorVars, Actor, Destroyer
<1> QED BY <1>1, <1>2, <1>5, <1>6, <1>7, <1>8, <1>9, <1>10, <1>11 DEF IInv

\* SendReply: from the current request into the hands of the thread.
LEMMA SendReplyKeeps ==
    ASSUME IInv, NEW s \in Server, SendReply(s)
    PROVE  IInv'
<1>1. TypeOK'
  BY DEF IInv, TypeOK, SendReply, ClearCurrent, Notified, LockFree, sessionVars, requestVars,
       clientVars, actorVars, State, ClientPlace, ServerPlace, DestroyPlace, Destroyer, Actor
<1>2. Places'
  BY ActorAssumption, RequestAssumption DEF IInv, TypeOK, Places, Destroyer, Actor, ServerPlace,
       DestroyPlace, Locked, SendReply, ClearCurrent, Notified, LockFree, sessionVars,
       requestVars, clientVars, actorVars
<1>3. \A q \in Request : Queued(q)' <=> Queued(q)
  BY DEF SendReply, ClearCurrent, Notified, LockFree, sessionVars, Queued, In
<1>4. \A q \in Request : /\ InHand(q)' <=> q = current
                         /\ Owned(q)' <=> Owned(q)
  BY ZenonT(60), <1>3, ActorAssumption, RequestAssumption DEF IInv, TypeOK, Places, OnePlace, Locked,
       SendReply, ClearCurrent, Notified, LockFree, sessionVars, actorVars, Owned, InHand, Actor,
       Destroyer
<1>5. Closing'
  BY <1>4, ActorAssumption DEF IInv, TypeOK, Closing, Places, SendReply, ClearCurrent, Notified,
       LockFree, sessionVars, actorVars, Actor, Destroyer, State
<1>6. OnePlace'
  BY <1>3, <1>4, ActorAssumption, RequestAssumption DEF IInv, TypeOK, OnePlace, Places, Locked,
       Distinct, SendReply, ClearCurrent, Notified, LockFree, sessionVars, actorVars, Actor,
       Destroyer
<1>7. Calls'
  BY <1>4, RequestAssumption DEF IInv, TypeOK, Calls, SendReply, ClearCurrent, Notified,
       LockFree, requestVars, clientVars
<1>8. Clears'
  BY <1>3, ActorAssumption, RequestAssumption DEF IInv, TypeOK, Clears, Places, SendReply,
       ClearCurrent, Notified, LockFree, sessionVars, requestVars, clientVars, actorVars, Actor,
       Destroyer
<1>9. RequestRefs'
  BY <1>4, ActorAssumption, RequestAssumption DEF IInv, TypeOK, RequestRefs, InCall, Visiting,
       Places, Count, SendReply, ClearCurrent, Notified, LockFree, requestVars, clientVars,
       actorVars, Actor, Destroyer
<1>10. NoMissedRequest'
  BY ActorAssumption DEF IInv, TypeOK, NoMissedRequest, Places, Closing, IsSignaledImpl,
       SendReply, ClearCurrent, Notified, LockFree, sessionVars, actorVars, Actor, Destroyer, State
<1>11. NoRequestDropped'
  BY <1>4, ActorAssumption DEF IInv, TypeOK, NoRequestDropped, Places, Closing, SendReply,
       ClearCurrent, Notified, LockFree, requestVars, clientVars, actorVars, Actor, Destroyer
<1> QED BY <1>1, <1>2, <1>5, <1>6, <1>7, <1>8, <1>9, <1>10, <1>11 DEF IInv

\* VisitCurrent: a second reference to the current request.
LEMMA VisitCurrentKeeps ==
    ASSUME IInv, VisitCurrent
    PROVE  IInv'
<1>0. /\ current \in Request /\ UNCHANGED <<current, list, thread, async, pending, cpc, creq, terminating>>
      /\ prev' = current /\ current # prev
      /\ \A c \in Client : cpc[c] = "idle"
  BY DEF IInv, TypeOK, Places, VisitCurrent, InLoop, Unvisited, sessionVars, clientVars
<1>1. TypeOK'
  BY <1>0 DEF IInv, TypeOK, VisitCurrent, Go, GoWith, InLoop, LockFree, Unvisited, sessionVars,
       requestVars, clientVars, actorVars, State, ClientPlace, ServerPlace, DestroyPlace,
       Destroyer, Actor
<1>2. Places'
  BY <1>0, ActorAssumption, RequestAssumption DEF IInv, TypeOK, Places, Destroyer, Actor,
       ServerPlace, DestroyPlace, Locked, VisitCurrent, Go, GoWith, InLoop, LockFree, Unvisited,
       sessionVars, requestVars, clientVars, actorVars
<1>3. \A q \in Request : Queued(q)' <=> Queued(q)
  BY ZenonT(60), <1>0 DEF VisitCurrent, Go, GoWith, InLoop, LockFree, Unvisited, sessionVars, Queued, In
<1>4. \A q \in Request : /\ InHand(q)' <=> InHand(q)
                         /\ Owned(q)' <=> Owned(q)
  BY <1>0, <1>3, ActorAssumption, RequestAssumption DEF IInv, TypeOK, Places, OnePlace, Locked,
       VisitCurrent, Go, GoWith, InLoop, LockFree, Unvisited, sessionVars, actorVars, Owned,
       InHand, Actor, Destroyer
<1>5. Closing'
  BY <1>0, <1>4, ActorAssumption DEF IInv, TypeOK, Closing, Places, VisitCurrent, Go, GoWith,
       InLoop, LockFree, Unvisited, sessionVars, actorVars, Actor, Destroyer, State
<1>v. /\ pc'["ClientDestroy"] = "visit" /\ held'["ClientDestroy"] = current
      /\ \A a \in Actor : a # "ClientDestroy" =>
           pc'[a] = pc[a] /\ held'[a] = held[a] /\ pc[a] \notin Locked
  <2>1. "ClientDestroy" \in Actor /\ "ServerDestroy" # "ClientDestroy"
    BY DEF Actor, Destroyer
  <2>2. GoWith("ClientDestroy", "visit", current) /\ InLoop("ClientDestroy")
    BY ZenonT(60) DEF VisitCurrent
  <2>3. \A a \in Actor : a # "ClientDestroy" => pc[a] \notin Locked
    <3>1. "loop" \in Locked
      BY ZenonT(60) DEF Locked
    <3> QED BY ZenonT(60), <2>1, <2>2, <3>1 DEF IInv, Places, InLoop, LockFree
  <2>4. pc \in [Actor -> ServerPlace \cup DestroyPlace] /\ held \in [Actor -> Request \cup {NoRequest}]
    BY ZenonT(60) DEF IInv, TypeOK
  <2> QED BY ZenonT(60), <2>1, <2>2, <2>3, <2>4 DEF GoWith, Go
<1>6. OnePlace'
  <2>1. "visit" # "popped" /\ "visit" # "answer"
    OBVIOUS
  <2>2. \A a \in Actor : a # "ClientDestroy" => pc'[a] \notin {"failed", "visit", "popped", "answer"}
    BY ZenonT(60), <1>v DEF Locked
  <2> QED BY ZenonT(60), <1>0, <1>3, <1>4, <1>v, <2>1, <2>2 DEF IInv, OnePlace
<1>7. Calls'
  BY ZenonT(60), <1>0, <1>4 DEF IInv, Calls
<1>8. Clears'
  <2>1. \A q \in cleared' : q \in cleared \/ (q = current /\ thread[q] \in terminating)
    BY DEF VisitCurrent
  <2>2. ~Queued(current)
    BY ZenonT(60), <1>0 DEF IInv, OnePlace
  <2>3. \A a \in Actor : pc'[a] # "popped"
    BY DEF IInv, TypeOK, Places, VisitCurrent, InLoop, LockFree, Locked, GoWith, Go, Actor,
         Destroyer
  <2> QED BY ZenonT(60), <1>0, <1>3, <2>1, <2>2, <2>3 DEF IInv, TypeOK, Clears
<1>9. RequestRefs'
  <2>1. \A q \in Request : InCall(q)' <=> InCall(q)
    BY <1>0 DEF InCall
  <2>2. \A q \in Request : ~Visiting(q) /\ (Visiting(q)' <=> q = current)
    BY <1>0 DEF IInv, TypeOK, VisitCurrent, Visiting, InLoop, GoWith, Go, Actor, Destroyer
  <2>3. refs' = [refs EXCEPT ![current] = refs[current] + 1]
    BY DEF VisitCurrent
  <2> QED BY <1>0, <1>4, <2>1, <2>2, <2>3 DEF IInv, TypeOK, RequestRefs, Count
<1>10. NoMissedRequest'
  BY <1>0, ActorAssumption DEF IInv, TypeOK, NoMissedRequest, Places, Closing, IsSignaledImpl,
       VisitCurrent, Go, GoWith, InLoop, LockFree, Unvisited, sessionVars, actorVars, Actor,
       Destroyer, State
<1>11. NoRequestDropped'
  <2>1. "ServerDestroy" \in Actor /\ "ServerDestroy" # "ClientDestroy"
    BY DEF Actor, Destroyer
  <2>2. pending \subseteq Request
    BY ZenonT(60) DEF IInv, TypeOK
  <2> QED BY ZenonT(60), <1>0, <1>4, <1>v, <2>1, <2>2 DEF IInv, NoRequestDropped
<1> QED BY <1>1, <1>2, <1>5, <1>6, <1>7, <1>8, <1>9, <1>10, <1>11 DEF IInv

\* Visited: the second reference goes.
LEMMA VisitedKeeps ==
    ASSUME IInv, Visited
    PROVE  IInv'
<1>0. held["ClientDestroy"] \in Request /\ refs[held["ClientDestroy"]] \in Nat \ {0}
  BY RefsCount, RequestAssumption DEF IInv, TypeOK, Places, Visited, Visiting, Actor, Destroyer
<1>1. TypeOK'
  BY <1>0 DEF IInv, TypeOK, Visited, Go, GoWith, Close, sessionVars, requestVars, clientVars,
       actorVars, State, ClientPlace, ServerPlace, DestroyPlace, Destroyer, Actor
<1>2. Places'
  BY <1>0, ActorAssumption, RequestAssumption DEF IInv, TypeOK, Places, Destroyer, Actor,
       ServerPlace, DestroyPlace, Locked, Visited, Go, GoWith, Close, sessionVars, requestVars,
       clientVars, actorVars
<1>3. \A q \in Request : Queued(q)' <=> Queued(q)
  BY <1>0 DEF Visited, Go, GoWith, Close, sessionVars, Queued, In
<1>4. \A q \in Request : /\ InHand(q)' <=> InHand(q)
                         /\ Owned(q)' <=> Owned(q)
  BY <1>0, <1>3, ActorAssumption, RequestAssumption DEF IInv, TypeOK, Places, OnePlace, Locked,
       Visited, Go, GoWith, Close, sessionVars, actorVars, Owned, InHand, Actor, Destroyer
<1>5. Closing'
  BY <1>0, <1>4, ActorAssumption DEF IInv, TypeOK, Closing, Places, Visited, Go, GoWith, Close,
       sessionVars, actorVars, Actor, Destroyer, State
<1>6. OnePlace'
  BY <1>0, <1>3, <1>4, ActorAssumption, RequestAssumption DEF IInv, TypeOK, OnePlace, Places,
       Locked, Distinct, Visited, Go, GoWith, Close, sessionVars, actorVars, Actor, Destroyer
<1>7. Calls'
  BY <1>0, <1>4, RequestAssumption DEF IInv, TypeOK, Calls, Visited, Go, GoWith, Close,
       requestVars, clientVars
<1>8. Clears'
  BY <1>0, <1>3, ActorAssumption, RequestAssumption DEF IInv, TypeOK, Clears, Places, Visited,
       Go, GoWith, Close, sessionVars, requestVars, clientVars, actorVars, Actor, Destroyer
<1>9. RequestRefs'
  BY <1>0, <1>4, ActorAssumption, RequestAssumption DEF IInv, TypeOK, RequestRefs, InCall,
       Visiting, Places, Count, Visited, Go, GoWith, Close, requestVars, clientVars, actorVars,
       Actor, Destroyer
<1>10. NoMissedRequest'
  BY <1>0, ActorAssumption DEF IInv, TypeOK, NoMissedRequest, Places, Closing, IsSignaledImpl,
       Visited, Go, GoWith, Close, sessionVars, actorVars, Actor, Destroyer, State
<1>11. NoRequestDropped'
  BY <1>0, <1>4, ActorAssumption DEF IInv, TypeOK, NoRequestDropped, Places, Closing, Visited,
       Go, GoWith, Close, requestVars, clientVars, actorVars, Actor, Destroyer
<1> QED BY <1>1, <1>2, <1>5, <1>6, <1>7, <1>8, <1>9, <1>10, <1>11 DEF IInv

\* DiscardNext: from the queue into the hands of OnClientClosed.
LEMMA DiscardNextKeeps ==
    ASSUME IInv, DiscardNext
    PROVE  IInv'
<1>0. PICK r \in Request : /\ r = Head(list) /\ Queued(r) /\ list' = Tail(list)
                           /\ list' \in Seq(Request) /\ Distinct(list')
                           /\ \A q : In(q, list') <=> In(q, list) /\ q # r
  BY TailIn DEF IInv, TypeOK, OnePlace, DiscardNext, Queued
<1>1. TypeOK'
  BY <1>0 DEF IInv, TypeOK, DiscardNext, Go, GoWith, InLoop, LockFree, Unvisited, sessionVars,
       requestVars, clientVars, actorVars, State, ClientPlace, ServerPlace, DestroyPlace,
       Destroyer, Actor
<1>2. Places'
  BY <1>0, ActorAssumption, RequestAssumption DEF IInv, TypeOK, Places, Destroyer, Actor,
       ServerPlace, DestroyPlace, Locked, DiscardNext, Go, GoWith, InLoop, LockFree, Unvisited,
       sessionVars, requestVars, clientVars, actorVars
<1>3. \A q \in Request : Queued(q)' <=> Queued(q) /\ q # r
  BY ZenonT(60), <1>0 DEF DiscardNext, Go, GoWith, InLoop, LockFree, Unvisited, sessionVars, Queued, In
<1>4. \A q \in Request : /\ InHand(q)' <=> q = r
                         /\ Owned(q)' <=> Owned(q)
  BY <1>0, <1>3, ActorAssumption, RequestAssumption DEF IInv, TypeOK, Places, OnePlace, Locked,
       DiscardNext, Go, GoWith, InLoop, LockFree, Unvisited, sessionVars, actorVars, Owned,
       InHand, Actor, Destroyer
<1>5. Closing'
  BY <1>0, <1>4, ActorAssumption DEF IInv, TypeOK, Closing, Places, DiscardNext, Go, GoWith,
       InLoop, LockFree, Unvisited, sessionVars, actorVars, Actor, Destroyer, State
<1>6. OnePlace'
  BY <1>0, <1>3, <1>4, ActorAssumption, RequestAssumption DEF IInv, TypeOK, OnePlace, Places,
       Locked, Distinct, DiscardNext, Go, GoWith, InLoop, LockFree, Unvisited, sessionVars,
       actorVars, Actor, Destroyer
<1>7. Calls'
  BY <1>0, <1>4, RequestAssumption DEF IInv, TypeOK, Calls, DiscardNext, Go, GoWith, InLoop,
       LockFree, Unvisited, requestVars, clientVars
<1>8. Clears'
  BY <1>0, <1>3, ActorAssumption, RequestAssumption DEF IInv, TypeOK, Clears, Places,
       DiscardNext, Go, GoWith, InLoop, LockFree, Unvisited, sessionVars, requestVars,
       clientVars, actorVars, Actor, Destroyer
<1>9. RequestRefs'
  BY <1>0, <1>4, ActorAssumption, RequestAssumption DEF IInv, TypeOK, RequestRefs, InCall,
       Visiting, Places, Count, DiscardNext, Go, GoWith, InLoop, LockFree, Unvisited,
       requestVars, clientVars, actorVars, Actor, Destroyer
<1>10. NoMissedRequest'
  BY <1>0, ActorAssumption DEF IInv, TypeOK, NoMissedRequest, Places, Closing, IsSignaledImpl,
       DiscardNext, Go, GoWith, InLoop, LockFree, Unvisited, sessionVars, actorVars, Actor,
       Destroyer, State
<1>11. NoRequestDropped'
  BY <1>0, <1>4, ActorAssumption DEF IInv, TypeOK, NoRequestDropped, Places, Closing,
       DiscardNext, Go, GoWith, InLoop, LockFree, Unvisited, requestVars, clientVars, actorVars,
       Actor, Destroyer
<1> QED BY <1>1, <1>2, <1>5, <1>6, <1>7, <1>8, <1>9, <1>10, <1>11 DEF IInv

\* The actor a has answered the request it holds, and goes on to a place.
Answered(a, place) ==
    /\ pc[a] = "answer"
    /\ place \in {"idle", "look", "loop"} /\ (place = "loop" <=> a \in Destroyer)
    /\ Answer(held[a]) \/ (a = "ClientDestroy" /\ AnswerEvents(held[a]))
    /\ refs' = [refs EXCEPT ![held[a]] = refs[held[a]] - 1]
    /\ pc' = [pc EXCEPT ![a] = place] /\ held' = [held EXCEPT ![a] = NoRequest]
    /\ state' = state /\ list' = list /\ current' = current
    /\ thread' = thread /\ cleared' = cleared /\ async' = async
    /\ creq' = creq /\ terminating' = terminating /\ prev' = prev

\* Who is told of the answer to r: no request but r stops pending, r does unless
\* its thread is terminating, and no thread but the waiting sender of r is woken.
Told(r) ==
    /\ pending' \subseteq pending /\ pending \ {r} \subseteq pending'
    /\ r \in pending' => thread[r] \in terminating
    /\ r \in pending /\ r \notin pending' => r \in async \/ cpc'[thread[r]] # "wait"
    /\ cpc' \in [Client -> ClientPlace]
    /\ \A c \in Client : \/ cpc'[c] = cpc[c]
                         \/ /\ cpc[c] = "wait" /\ cpc'[c] = "return"
                            /\ c = thread[r] /\ r \notin async /\ c \notin terminating

LEMMA AnswerTells ==
    ASSUME IInv, NEW r \in Request, Owned(r),
           Answer(r) \/ (AnswerEvents(r) /\ \A c \in Client : cpc[c] = "idle")
    PROVE  Told(r)
<1>1. /\ pending \subseteq Request /\ cpc \in [Client -> ClientPlace] /\ thread[r] \in Client
      /\ "return" \in ClientPlace
  BY DEF IInv, TypeOK, ClientPlace
<1>2. r \notin async /\ thread[r] \notin terminating => cpc[thread[r]] = "wait"
  BY ZenonT(60) DEF IInv, Calls
<1>3. r \in cleared => thread[r] \in terminating
  BY ZenonT(60) DEF IInv, Clears
<1>4. CASE pending' = pending /\ cpc' = cpc /\ thread[r] \in terminating
  BY ZenonT(60), <1>1, <1>4 DEF Told
<1>5. CASE pending' = pending \ {r} /\ cpc' = cpc /\ r \in async
  BY ZenonT(60), <1>1, <1>5 DEF Told
<1>6. CASE /\ pending' = pending \ {r} /\ r \notin async /\ thread[r] \notin terminating
           /\ cpc' = [cpc EXCEPT ![thread[r]] = IF cpc[thread[r]] = "wait" THEN "return"
                                                ELSE cpc[thread[r]]]
  <2>1. cpc' = [cpc EXCEPT ![thread[r]] = "return"] /\ cpc[thread[r]] = "wait"
    BY ZenonT(60), <1>2, <1>6
  <2>2. /\ cpc' \in [Client -> ClientPlace] /\ cpc'[thread[r]] = "return"
        /\ \A c \in Client : c # thread[r] => cpc'[c] = cpc[c]
    BY <1>1, <2>1
  <2> QED BY ZenonT(60), <1>6, <2>1, <2>2 DEF Told
<1>7. "wait" # "idle"
  OBVIOUS
<1> QED BY ZenonT(60), <1>1, <1>2, <1>3, <1>4, <1>5, <1>6, <1>7
      DEF Answer, AnswerEvents, SignalEvent, EndWait, HasThread

\* The request is answered, and the session's reference to it goes.
LEMMA AnsweredKeeps ==
    ASSUME IInv, NEW a \in Actor, NEW place, Answered(a, place)
    PROVE  IInv'
<1>a. /\ pc[a] = "answer" /\ place \in {"idle", "look", "loop"} /\ (place = "loop" <=> a \in Destroyer)
      /\ pc' = [pc EXCEPT ![a] = place] /\ held' = [held EXCEPT ![a] = NoRequest]
  BY ZenonT(60) DEF Answered
<1>b. /\ state' = state /\ list' = list /\ current' = current /\ thread' = thread
      /\ cleared' = cleared /\ async' = async /\ creq' = creq
      /\ terminating' = terminating /\ prev' = prev
  BY ZenonT(60) DEF Answered
<1>t. /\ pc \in [Actor -> ServerPlace \cup DestroyPlace]
      /\ held \in [Actor -> Request \cup {NoRequest}] /\ refs \in [Request -> Nat]
  BY ZenonT(60) DEF IInv, TypeOK
<1>c. /\ pc'[a] = place /\ held'[a] = NoRequest
      /\ \A b \in Actor : b # a => pc'[b] = pc[b] /\ held'[b] = held[b]
  BY ZenonT(60), <1>a, <1>t
<1>d. \A b \in Actor : b # a => pc[b] \notin Locked
  <2>1. pc[a] \in Locked
    BY ZenonT(60), <1>a DEF Locked
  <2> QED BY ZenonT(60), <2>1 DEF IInv, Places
<1>r. PICK r \in Request : r = held[a]
  <2>1. held[a] # NoRequest
    BY ZenonT(60), <1>a DEF IInv, Places
  <2> QED BY ZenonT(60), <1>t, <2>1
<1>h. InHand(r) /\ Owned(r)
  BY ZenonT(60), <1>a, <1>r DEF InHand, Owned
<1>n. refs[r] \in Nat \ {0} /\ refs' = [refs EXCEPT ![r] = refs[r] - 1]
  BY ZenonT(60), <1>h, <1>r, RefsCount DEF Answered
<1>i. a = "ClientDestroy" => \A c \in Client : cpc[c] = "idle"
  <2>1. "answer" # "open"
    OBVIOUS
  <2> QED BY ZenonT(60), <1>a, <2>1 DEF IInv, Places
<1>w. Told(r)
  BY ZenonT(60), <1>h, <1>i, <1>r, AnswerTells DEF Answered
<1>1. TypeOK'
  <2>1. /\ pending' \subseteq Request /\ cpc' \in [Client -> ClientPlace]
    BY ZenonT(60), <1>w DEF IInv, TypeOK, Told
  <2>2. refs' \in [Request -> Nat]
    BY <1>n, <1>t
  <2>3. pc' \in [Actor -> ServerPlace \cup DestroyPlace] /\ held' \in [Actor -> Request \cup {NoRequest}]
    <3>1. place \in ServerPlace \cup DestroyPlace
      BY ZenonT(60), <1>a DEF ServerPlace, DestroyPlace
    <3> QED BY ZenonT(60), <1>a, <1>t, <3>1
  <2> QED BY ZenonT(60), <1>b, <2>1, <2>2, <2>3 DEF IInv, TypeOK
<1>2. Places'
  <2>1. \A s \in Server : pc'[s] \in ServerPlace
    <3>1. a \in Server => place \in ServerPlace
      BY ZenonT(60), <1>a, ActorAssumption DEF ServerPlace
    <3> QED BY ZenonT(60), <1>c, <3>1 DEF IInv, Places, Actor
  <2>2. \A d \in Destroyer : pc'[d] \in DestroyPlace
    <3>1. a \in Destroyer => place \in DestroyPlace
      BY ZenonT(60), <1>a DEF DestroyPlace
    <3> QED BY ZenonT(60), <1>c, <3>1 DEF IInv, Places, Actor
  <2>3. "ServerDestroy" \in Destroyer /\ "ClientDestroy" \in Destroyer /\ Destroyer \subseteq Actor
    BY ZenonT(60) DEF Destroyer, Actor
  <2>4. pc'["ServerDestroy"] # "visit" /\ \A d \in Destroyer : pc'[d] = "open" <=> pc[d] = "open"
    <3>1. /\ "answer" # "open" /\ "idle" # "open" /\ "look" # "open" /\ "loop" # "open"
          /\ "idle" # "visit" /\ "look" # "visit" /\ "loop" # "visit"
      OBVIOUS
    <3> QED BY ZenonT(60), <1>a, <1>c, <2>3, <3>1 DEF IInv, Places
  <2>5. \A b, e \in Actor : pc'[b] \in Locked /\ pc'[e] \in Locked => b = e
    BY ZenonT(60), <1>c, <1>d
  <2>6. \A b \in Actor : held'[b] # NoRequest <=> pc'[b] \in {"popped", "failed", "answer", "visit"}
    <3>1. place \notin {"popped", "failed", "answer", "visit"}
      BY ZenonT(60), <1>a
    <3> QED BY ZenonT(60), <1>c, <3>1 DEF IInv, Places
  <2>7. pc'["ServerDestroy"] # "open" => \A s \in Server : pc'[s] = "idle"
    <3>1. ASSUME pc'["ServerDestroy"] # "open" PROVE \A s \in Server : pc[s] = "idle"
      BY ZenonT(60), <2>3, <2>4, <3>1 DEF IInv, Places
    <3>2. "answer" # "idle"
      OBVIOUS
    <3> QED BY ZenonT(60), <1>a, <1>c, <3>1, <3>2 DEF Actor
  <2>8. pc'["ClientDestroy"] # "open" => \A c \in Client : cpc'[c] = "idle"
    <3>1. "wait" # "idle"
      OBVIOUS
    <3>2. pc'["ClientDestroy"] # "open" => \A c \in Client : cpc[c] = "idle"
      BY ZenonT(60), <2>3, <2>4 DEF IInv, Places
    <3> QED BY ZenonT(60), <1>w, <3>1, <3>2 DEF Told
  <2> QED BY ZenonT(60), <2>1, <2>2, <2>4, <2>5, <2>6, <2>7, <2>8 DEF Places
<1>3. \A q \in Request : Queued(q)' <=> Queued(q)
  BY ZenonT(60), <1>b DEF Queued
<1>p. place # "popped" /\ place # "answer"
  BY ZenonT(60), <1>a
<1>4. \A q \in Request : ~InHand(q)' /\ (Owned(q)' <=> Owned(q) /\ q # r)
  <2>1. \A q \in Request : ~InHand(q)'
    <3>1. \A b \in Actor : b # a => pc[b] # "popped" /\ pc[b] # "answer"
      BY ZenonT(60), <1>d DEF Locked
    <3> QED BY ZenonT(60), <1>c, <1>p, <3>1 DEF InHand
  <2>2. ~Queued(r) /\ current # r
    BY ZenonT(60), <1>a, <1>h, <1>r DEF IInv, OnePlace
  <2>3. \A q \in Request : InHand(q) <=> q = r
    <3>1. \A b \in Actor : b # a => pc[b] # "popped" /\ pc[b] # "answer"
      BY ZenonT(60), <1>d DEF Locked
    <3> QED BY ZenonT(60), <1>a, <1>r, <3>1 DEF InHand
  <2> QED BY ZenonT(60), <1>3, <1>b, <2>1, <2>2, <2>3 DEF Owned
<1>5. Closing'
  <2>1. \A d \in Destroyer : d \in Actor /\ (a = d => pc[d] = "answer" /\ pc'[d] = "loop")
                             /\ (a # d => pc'[d] = pc[d])
    BY ZenonT(60), <1>a, <1>c DEF Actor
  <2>2. "ServerDestroy" \in Destroyer /\ "ClientDestroy" \in Destroyer
    BY ZenonT(60) DEF Destroyer
  <2>3. /\ state = "ServerClosed" => pc'["ServerDestroy"] \in {"enter", "loop", "answer", "done"}
        /\ state = "ClientClosed" => pc'["ClientDestroy"] \in {"enter", "loop", "answer", "visit", "done"}
        /\ state = "Normal" => /\ pc'["ServerDestroy"] \in {"open", "check", "set"}
                               /\ pc'["ClientDestroy"] \in {"open", "check", "set"}
    BY ZenonT(60), <2>1, <2>2 DEF IInv, Closing
  <2>4. pc'["ServerDestroy"] = "done" => \A q \in Request : ~Owned(q)'
    <3>1. "loop" # "done"
      OBVIOUS
    <3> QED BY ZenonT(60), <1>4, <2>1, <2>2, <3>1 DEF IInv, Closing
  <2> QED BY ZenonT(60), <1>b, <2>3, <2>4 DEF Closing
<1>6. OnePlace'
  <2>1. place # "failed" /\ place # "visit"
    BY ZenonT(60), <1>a
  <2>2. \A b \in Actor : pc'[b] \notin {"failed", "visit", "popped", "answer"}
    BY ZenonT(60), <1>c, <1>d, <1>p, <2>1 DEF Locked
  <2> QED BY ZenonT(60), <1>3, <1>4, <1>b, <2>2 DEF IInv, OnePlace
<1>7. Calls'
  <2>0. /\ "wait" # "return" /\ "wait" # "idle" /\ "return" # "idle" /\ "return" # "send"
        /\ "wait" # "send"
    OBVIOUS
  <2>1. \A c \in Client : creq'[c] = NoRequest <=> cpc'[c] = "idle"
    BY ZenonT(60), <1>b, <1>w, <2>0 DEF IInv, Calls, Told
  <2>2. \A c \in Client : creq'[c] # NoRequest => thread'[creq'[c]] = c
    BY ZenonT(60), <1>b DEF IInv, Calls
  <2>3. ASSUME NEW c \in Client, cpc'[c] = "send"
        PROVE  creq'[c] \notin pending' /\ creq'[c] \notin cleared' /\ ~Owned(creq[c])'
    <3>1. cpc[c] = "send"
      BY ZenonT(60), <1>w, <2>0, <2>3 DEF Told
    <3>2. creq[c] \in Request
      <4>1. creq[c] # NoRequest
        BY ZenonT(60), <2>0, <3>1 DEF IInv, Calls
      <4>2. creq[c] \in Request \cup {NoRequest}
        BY ZenonT(60) DEF IInv, TypeOK
      <4> QED BY ZenonT(60), <4>1, <4>2
    <3>3. creq[c] \notin pending /\ creq[c] \notin cleared /\ ~Owned(creq[c])
      BY ZenonT(60), <3>1 DEF IInv, Calls
    <3> QED BY ZenonT(60), <1>4, <1>b, <1>w, <3>2, <3>3 DEF Told
  <2>4. ASSUME NEW c \in Client, cpc'[c] = "wait"
        PROVE  creq'[c] \in pending' /\ creq'[c] \notin async' /\ c \notin terminating'
    <3>1. cpc[c] = "wait"
      BY ZenonT(60), <1>w, <2>0, <2>4 DEF Told
    <3>2. creq[c] \in pending /\ creq[c] \notin async /\ c \notin terminating /\ creq[c] # NoRequest
      BY ZenonT(60), <2>0, <3>1 DEF IInv, Calls
    <3>3. thread[creq[c]] = c
      BY ZenonT(60), <3>2 DEF IInv, Calls
    <3> QED BY ZenonT(60), <1>b, <1>w, <2>4, <3>2, <3>3 DEF Told
  <2>5. ASSUME NEW q \in Request, Owned(q)', q \notin async', thread'[q] \notin terminating'
        PROVE  cpc'[thread'[q]] = "wait" /\ creq'[thread'[q]] = q
    <3>1. Owned(q) /\ q # r /\ q \notin async /\ thread[q] \notin terminating
      BY ZenonT(60), <1>4, <1>b, <2>5
    <3>2. cpc[thread[q]] = "wait" /\ creq[thread[q]] = q
      BY ZenonT(60), <3>1 DEF IInv, Calls
    <3>3. r \notin async /\ thread[r] \notin terminating => creq[thread[r]] = r
      BY ZenonT(60), <1>h DEF IInv, Calls
    <3>4. thread[q] \in Client
      BY ZenonT(60) DEF IInv, TypeOK
    <3>5. cpc'[thread[q]] = cpc[thread[q]] \/ (thread[q] = thread[r] /\ r \notin async)
      BY ZenonT(60), <1>w, <3>4 DEF Told
    <3>6. cpc'[thread[q]] = "wait"
      BY ZenonT(60), <3>1, <3>2, <3>3, <3>5
    <3> QED BY ZenonT(60), <1>b, <3>2, <3>6
  <2>6. \A c \in Client : creq'[c] = creq[c]
    BY ZenonT(60), <1>b
  <2> QED BY ZenonT(60), <2>1, <2>2, <2>3, <2>4, <2>5, <2>6 DEF Calls
<1>8. Clears'
  <2>1. \A b \in Actor : pc'[b] # "popped"
    BY ZenonT(60), <1>c, <1>d, <1>p DEF Locked
  <2>2. cleared \subseteq Request
    BY ZenonT(60) DEF IInv, TypeOK
  <2> QED BY ZenonT(60), <1>3, <1>b, <2>1, <2>2 DEF IInv, Clears
<1>9. RequestRefs'
  <2>1. \A q \in Request : InCall(q)' <=> InCall(q)
    BY ZenonT(60), <1>b DEF InCall
  <2>2. \A q \in Request : Visiting(q)' <=> Visiting(q)
    <3>1. /\ "answer" # "visit" /\ "idle" # "visit" /\ "look" # "visit" /\ "loop" # "visit"
          /\ "ClientDestroy" \in Actor
      BY DEF Actor, Destroyer
    <3> QED BY ZenonT(60), <1>a, <1>c, <3>1 DEF Visiting
  <2>3. \A q \in Request : refs'[q] = IF q = r THEN refs[q] - 1 ELSE refs[q]
    BY ZenonT(60), <1>n, <1>t
  <2>4. ASSUME NEW q \in Request
        PROVE  refs'[q] = Count(InCall(q)') + Count(Owned(q)') + Count(Visiting(q)')
    <3>1. refs[q] = Count(InCall(q)) + Count(Owned(q)) + Count(Visiting(q))
      BY ZenonT(60) DEF IInv, RequestRefs
    <3>2. Count(InCall(q)') = Count(InCall(q)) /\ Count(Visiting(q)') = Count(Visiting(q))
      BY ZenonT(60), <2>1, <2>2 DEF Count
    <3>3. CASE q = r
      <4>1. Count(Owned(q)) = 1 /\ Count(Owned(q)') = 0
        BY ZenonT(60), <1>4, <1>h, <3>3 DEF Count
      <4>2. Count(InCall(q)) \in Nat /\ Count(Visiting(q)) \in Nat
        BY DEF Count
      <4> QED BY <2>3, <3>1, <3>2, <3>3, <4>1, <4>2
    <3>4. CASE q # r
      <4>1. Count(Owned(q)) = Count(Owned(q)')
        BY ZenonT(60), <1>4, <3>4 DEF Count
      <4> QED BY ZenonT(60), <2>3, <3>1, <3>2, <3>4, <4>1
    <3> QED BY ZenonT(60), <3>3, <3>4
  <2> QED BY ZenonT(60), <2>4 DEF RequestRefs, Count
<1>10. NoMissedRequest'
  <2>1. \A d \in Destroyer : d \in Actor /\ (a = d => pc'[d] = "loop") /\ (a # d => pc'[d] = pc[d])
    BY ZenonT(60), <1>a, <1>c DEF Actor
  <2>2. "ClientDestroy" \in Destroyer
    BY ZenonT(60) DEF Destroyer
  <2>3. \A s \in Server : pc'[s] = "wait" => pc[s] = "wait"
    <3>1. place # "wait"
      BY ZenonT(60), <1>a
    <3> QED BY ZenonT(60), <1>c, <3>1 DEF Actor
  <2>4. IsSignaledImpl(state, list, current)' <=> IsSignaledImpl(state, list, current)
    BY ZenonT(60), <1>b DEF IsSignaledImpl
  <2> QED BY ZenonT(60), <1>b, <2>1, <2>2, <2>3, <2>4 DEF IInv, NoMissedRequest
<1>11. NoRequestDropped'
  <2>1. \A q \in pending' : q \in Request /\ q \in pending /\ (q # r \/ thread[r] \in terminating)
    BY ZenonT(60), <1>w DEF IInv, TypeOK, Told
  <2>2. pc'["ServerDestroy"] = "done" => pc["ServerDestroy"] = "done"
    <3>1. place # "done" /\ "ServerDestroy" \in Actor
      BY ZenonT(60), <1>a DEF Actor, Destroyer
    <3> QED BY ZenonT(60), <1>c, <3>1
  <2> QED BY ZenonT(60), <1>4, <1>b, <2>1, <2>2 DEF IInv, NoRequestDropped
<1> QED BY ZenonT(60), <1>1, <1>2, <1>5, <1>6, <1>7, <1>8, <1>9, <1>10, <1>11 DEF IInv

\* Reply, CleanupAnswer and Discard answer the request that they hold.
LEMMA ReplyKeeps ==
    ASSUME IInv, NEW s \in Server, Reply(s)
    PROVE  IInv'
<1>1. PICK place \in {"idle", "look"} : GoWith(s, place, NoRequest)
  BY ZenonT(60) DEF Reply
<1>2. s \in Actor /\ s \notin Destroyer /\ place \in {"idle", "look", "loop"} /\ place # "loop"
  BY ZenonT(60), ActorAssumption DEF Actor
<1>3. Answered(s, place)
  BY ZenonT(60), <1>1, <1>2 DEF Answered, Reply, GoWith, Go, Close, sessionVars
<1> QED BY ZenonT(60), <1>2, <1>3, AnsweredKeeps

LEMMA CleanupAnswerKeeps ==
    ASSUME IInv, CleanupAnswer
    PROVE  IInv'
<1>1. "ServerDestroy" \in Actor /\ "ServerDestroy" \in Destroyer
  BY ZenonT(60) DEF Actor, Destroyer
<1>2. Answered("ServerDestroy", "loop")
  BY ZenonT(60), <1>1 DEF Answered, CleanupAnswer, GoWith, Go, Close, sessionVars
<1> QED BY ZenonT(60), <1>1, <1>2, AnsweredKeeps

LEMMA DiscardKeeps ==
    ASSUME IInv, Discard
    PROVE  IInv'
<1>1. "ClientDestroy" \in Actor /\ "ClientDestroy" \in Destroyer
  BY ZenonT(60) DEF Actor, Destroyer
<1>2. Answered("ClientDestroy", "loop")
  BY ZenonT(60), <1>1 DEF Answered, Discard, GoWith, Go, Close, sessionVars
<1> QED BY ZenonT(60), <1>1, <1>2, AnsweredKeeps

\* CleanupNext: into the hands of CleanupRequests, or nothing is left.
LEMMA CleanupNextKeeps ==
    ASSUME IInv, CleanupNext
    PROVE  IInv'
<1>0. /\ UNCHANGED <<state, refs, thread, cleared, async, pending, cpc, creq, terminating, prev>>
      /\ \A a \in Actor : a # "ServerDestroy" => pc[a] \notin Locked /\ pc'[a] = pc[a] /\ held'[a] = held[a]
      /\ pc["ServerDestroy"] \in {"enter", "loop"} /\ \A s \in Server : pc[s] = "idle"
  BY DEF IInv, TypeOK, Places, CleanupNext, InLoop, LockFree, Locked, GoWith, Go, requestVars,
       clientVars, Actor, Destroyer
<1>1. \A q \in Request : ~InHand(q)
  BY ZenonT(60), <1>0 DEF InHand, Locked, Actor, Destroyer
<1>2. CASE current # NoRequest \/ list # <<>>
  <2>1. PICK r \in Request : /\ pc' = [pc EXCEPT !["ServerDestroy"] = "answer"]
                             /\ held' = [held EXCEPT !["ServerDestroy"] = r]
                             /\ \A q \in Request : Queued(q)' <=> Queued(q) /\ q # r
                             /\ \/ r = current /\ ~Queued(r)
                                \/ current = NoRequest /\ Queued(r)
                             /\ current' = NoRequest
                             /\ list' \in Seq(Request) /\ Distinct(list')
    <3>1. CASE current # NoRequest
      <4>1. ~Queued(current) /\ current \in Request
        BY <3>1 DEF IInv, OnePlace, TypeOK
      <4>2. list' = list /\ current' = NoRequest /\ GoWith("ServerDestroy", "answer", current)
        BY <3>1 DEF CleanupNext
      <4> QED BY ZenonT(60), <4>1, <4>2 DEF IInv, TypeOK, OnePlace, GoWith, Go, Queued
    <3>2. CASE current = NoRequest
      <4>1. list' = Tail(list) /\ current' = NoRequest /\ GoWith("ServerDestroy", "answer", Head(list)) /\ list # <<>>
        BY <1>2, <3>2 DEF CleanupNext
      <4>2. PICK r \in Request : /\ r = Head(list) /\ In(r, list) /\ Tail(list) \in Seq(Request)
                                 /\ Distinct(Tail(list)) /\ \A q : In(q, Tail(list)) <=> In(q, list) /\ q # r
        BY <4>1, TailIn DEF IInv, TypeOK, OnePlace
      <4> QED BY ZenonT(60), <3>2, <4>1, <4>2 DEF GoWith, Go, Queued
    <3> QED BY <3>1, <3>2
  <2>2. TypeOK'
    BY ZenonT(60), <1>0, <2>1 DEF IInv, TypeOK, DestroyPlace
  <2>3. Places'
    BY <1>0, <2>1, RequestAssumption, ActorAssumption DEF IInv, TypeOK, Places, Locked, Actor,
         Destroyer, DestroyPlace
  <2>4. \A q \in Request : /\ InHand(q)' <=> q = r
                           /\ Owned(q)' <=> Owned(q)
    BY <1>0, <1>1, <2>1, RequestAssumption DEF IInv, TypeOK, InHand, Owned, Locked, Actor, Destroyer
  <2>5. Closing'
    BY <1>0, <2>1, <2>4 DEF IInv, TypeOK, Closing, Actor, Destroyer
  <2>6. OnePlace'
    BY <1>0, <2>1, <2>4, RequestAssumption DEF IInv, TypeOK, OnePlace, Locked, Actor, Destroyer
  <2>7. Calls'
    BY <1>0, <2>4 DEF IInv, TypeOK, Calls
  <2>8. Clears'
    BY <1>0, <2>1, RequestAssumption DEF IInv, TypeOK, Clears, Locked, Actor, Destroyer
  <2>9. RequestRefs'
    BY <1>0, <2>1, <2>4 DEF IInv, TypeOK, RequestRefs, InCall, Visiting, Count, Actor, Destroyer,
         Locked
  <2>10. NoMissedRequest'
    BY ZenonT(60), <1>0, ActorAssumption DEF NoMissedRequest, Actor, Destroyer
  <2>11. NoRequestDropped'
    BY <1>0, <2>1, <2>4 DEF IInv, TypeOK, NoRequestDropped, Actor, Destroyer
  <2> QED BY <2>2, <2>3, <2>5, <2>6, <2>7, <2>8, <2>9, <2>10, <2>11 DEF IInv
<1>3. CASE current = NoRequest /\ list = <<>>
  <2>1. UNCHANGED <<list, current, held>> /\ pc' = [pc EXCEPT !["ServerDestroy"] = "done"]
    BY <1>3 DEF CleanupNext, Go
  <2>2. TypeOK'
    BY ZenonT(60), <1>0, <2>1 DEF IInv, TypeOK, DestroyPlace
  <2>3. Places'
    BY ZenonT(60), <1>0, <2>1, ActorAssumption DEF IInv, TypeOK, Places, Locked, Actor, Destroyer, DestroyPlace
  <2>4. \A q \in Request : ~Queued(q) /\ ~Queued(q)' /\ ~Owned(q) /\ ~Owned(q)' /\ ~InHand(q)'
    BY <1>0, <1>1, <1>3, <2>1, RequestAssumption DEF IInv, TypeOK, Owned, Queued, In, InHand,
         Locked, Actor, Destroyer
  <2>5. Closing'
    BY <1>0, <2>1, <2>4 DEF IInv, TypeOK, Closing, Actor, Destroyer
  <2>6. OnePlace'
    BY <1>0, <2>1, <2>4 DEF IInv, TypeOK, OnePlace, Locked, Actor, Destroyer
  <2>7. Calls'
    BY <1>0, <2>4 DEF IInv, TypeOK, Calls
  <2>8. Clears'
    BY <1>0, <2>1, <2>4 DEF IInv, TypeOK, Clears, Locked, Actor, Destroyer
  <2>9. RequestRefs'
    BY <1>0, <2>1, <2>4 DEF IInv, TypeOK, RequestRefs, InCall, Visiting, Count, Actor, Destroyer,
         Locked
  <2>10. NoMissedRequest'
    BY ZenonT(60), <1>0, ActorAssumption DEF NoMissedRequest, Actor, Destroyer
  <2>11. NoRequestDropped'
    BY <1>0, <2>1, <2>4 DEF IInv, TypeOK, NoRequestDropped
  <2> QED BY <2>2, <2>3, <2>5, <2>6, <2>7, <2>8, <2>9, <2>10, <2>11 DEF IInv
<1> QED BY <1>2, <1>3
-----------------------------------------------------------------------------
(* A step that changes nothing preserves the invariant.                    *)

LEMMA StutterKeeps ==
    ASSUME IInv, UNCHANGED vars
    PROVE  IInv'
<1>1. UNCHANGED <<state, list, current, refs, thread, cleared, async, pending, cpc, creq, terminating, pc, held, prev>>
  BY DEF vars, sessionVars, requestVars, clientVars, actorVars
<1>2. \A r \in Request : /\ Queued(r)' <=> Queued(r)
                         /\ InHand(r)' <=> InHand(r)
                         /\ InCall(r)' <=> InCall(r)
                         /\ Visiting(r)' <=> Visiting(r)
  BY <1>1 DEF Queued, InHand, InCall, Visiting
<1>3. \A r \in Request : Owned(r)' <=> Owned(r)
  BY <1>1, <1>2 DEF Owned
<1>4. TypeOK' /\ Places' /\ NoMissedRequest'
  BY ZenonT(60), <1>1 DEF IInv, TypeOK, Places, NoMissedRequest
<1>5. Closing' /\ NoRequestDropped'
  <2>1. pending \subseteq Request
    BY ZenonT(60) DEF IInv, TypeOK
  <2> QED BY ZenonT(60), <1>1, <1>3, <2>1 DEF IInv, Closing, NoRequestDropped
<1>6. OnePlace' /\ Clears'
  <2>1. cleared \subseteq Request
    BY ZenonT(60) DEF IInv, TypeOK
  <2> QED BY ZenonT(60), <1>1, <1>2, <2>1 DEF IInv, OnePlace, Clears
<1>7. Calls'
  <2>1. \A c \in Client : cpc[c] = "send" => creq[c] \in Request
    BY DEF IInv, TypeOK, Calls
  <2> QED BY ZenonT(60), <1>1, <1>3, <2>1 DEF IInv, Calls
<1>8. RequestRefs'
  BY <1>1, <1>2, <1>3 DEF IInv, RequestRefs, Count
<1> QED BY <1>4, <1>5, <1>6, <1>7, <1>8 DEF IInv

\* Every step of Next is one of the steps above.
LEMMA NextKeeps == IInv /\ [Next]_vars => IInv'
<1> SUFFICES ASSUME IInv, [Next]_vars PROVE IInv'
  OBVIOUS
<1>1. CASE \E c \in Client : ClientStep(c) \/ RequestTerminate(c)
  BY <1>1, RefusedKeeps, OnRequestKeeps, ReturnKeeps, RequestTerminateKeeps DEF ClientStep
<1>2. CASE \E c \in Client, r \in Request, isAsync \in BOOLEAN : SendRequest(c, r, isAsync)
  BY <1>2, SendRequestKeeps
<1>3. CASE \E s \in Server : ServerStep(s) \/ Call(s) \/ TimeOut(s) \/ SendReply(s)
  BY <1>3, CallKeeps, WaitKeeps, TimeOutKeeps, ReceiveNothingKeeps, ReceiveRequestKeeps,
       SetCurrentKeeps, ReceiveFailedKeeps, SendReplyKeeps, ReplyKeeps DEF ServerStep
<1>4. CASE \E d \in Destroyer : Destroy(d)
  BY <1>4, DestroyKeeps
<1>5. CASE DestroyStep
  BY <1>5, CheckStateKeeps, SetStateKeeps, CleanupNextKeeps, CleanupAnswerKeeps,
       VisitCurrentKeeps, VisitedKeeps, DiscardNextKeeps, DiscardKeeps,
       ClientDestroyedKeeps DEF DestroyStep
<1>6. CASE UNCHANGED vars
  BY <1>6, StutterKeeps
<1> QED BY <1>1, <1>2, <1>3, <1>4, <1>5, <1>6 DEF Next

\* The inductive invariant holds in every reachable state.
THEOREM Invariance == Spec => []IInv
  BY InitInv, NextKeeps, PTL DEF Spec

\* Every reachable state of the session is well typed; no reference count of a
\* request goes below zero.
THEOREM TypeCorrect == Spec => []TypeOK
<1>1. IInv => TypeOK
  BY DEF IInv
<1> QED BY <1>1, Invariance, PTL

\* KSessionRequest is freed when the last of its references goes, and no
\* pointer to a freed one is left, whatever the order of replies and closes.
THEOREM RequestsCounted == Spec => []RequestRefs
<1>1. IInv => RequestRefs
  BY DEF IInv
<1> QED BY <1>1, Invariance, PTL

\* No thread waits in ReplyAndReceive for a session that is signaled.
THEOREM RequestsNoticed == Spec => []NoMissedRequest
<1>1. IInv => NoMissedRequest
  BY DEF IInv
<1> QED BY <1>1, Invariance, PTL

\* OnRequest, ReceiveRequest, SendReply, CleanupRequests and OnClientClosed lose
\* no request between them.
THEOREM RequestsKept == Spec => []NoRequestDropped
<1>1. IInv => NoRequestDropped
  BY DEF IInv
<1> QED BY <1>1, Invariance, PTL

\* The assertions of ReceiveRequest and OnClientClosed cannot fail.
THEOREM Asserted == Spec => []AssertionsHold
<1>1. IInv => AssertionsHold
  <2> SUFFICES ASSUME IInv PROVE AssertionsHold
    OBVIOUS
  <2>1. \A s \in Server : pc[s] = "failed" => current = held[s]
    BY DEF IInv, OnePlace, Actor
  <2>2. Unvisited => HasThread(current)
    BY DEF IInv, Clears, Unvisited, HasThread
  <2>3. ASSUME NEW i \in DOMAIN list PROVE HasThread(list[i])
    BY <2>3 DEF IInv, TypeOK, Clears, HasThread, Queued, In
  <2> QED BY <2>1, <2>2, <2>3 DEF AssertionsHold
<1> QED BY <1>1, Invariance, PTL

\* EndWait reaches the client's thread only in its wait for that answer.
THEOREM AnswersMatch == Spec => AnswersReachSender
<1>1. IInv /\ [Next]_vars => [\A c \in Client : OwnAnswer(c)]_vars
  <2> SUFFICES ASSUME IInv, Next, NEW c \in Client, cpc[c] = "wait", cpc'[c] # "wait"
               PROVE  c \in terminating' \/ (creq[c] \in pending /\ creq[c] \notin pending')
    BY DEF OwnAnswer
  <2>1. ASSUME NEW r \in Request, Owned(r), Answer(r) \/ AnswerEvents(r)
        PROVE  creq[c] \in pending /\ creq[c] \notin pending'
    <3>1. thread[r] = c /\ r \notin async /\ thread[r] \notin terminating /\ pending' = pending \ {r}
      BY <2>1 DEF IInv, TypeOK, Answer, AnswerEvents, SignalEvent, EndWait
    <3>2. cpc[c] = "wait" /\ creq[c] = r
      BY ZenonT(60), <2>1, <3>1 DEF IInv, Calls
    <3>3. r \in pending
      BY ZenonT(60), <3>2 DEF IInv, Calls
    <3> QED BY ZenonT(60), <3>1, <3>2, <3>3
  <2>2. ASSUME NEW a \in Actor, pc[a] = "answer" PROVE held[a] \in Request /\ Owned(held[a])
    BY <2>2, RequestAssumption DEF IInv, TypeOK, Places, Owned, InHand
  <2>3. CASE \E b \in Client : ClientStep(b) \/ RequestTerminate(b)
    <3>0. cpc \in [Client -> ClientPlace]
      BY ZenonT(60) DEF IInv, TypeOK
    <3>1. PICK b \in Client : ClientStep(b) \/ RequestTerminate(b)
      BY ZenonT(60), <2>3
    <3>2. PICK place : cpc' = [cpc EXCEPT ![b] = place]
      BY ZenonT(60), <3>1 DEF ClientStep, Refused, OnRequest, Return, RequestTerminate
    <3>3. c = b
      BY ZenonT(60), <3>0, <3>2
    <3>4. ~ClientStep(b)
      <4>1. "wait" # "send" /\ "wait" # "return"
        OBVIOUS
      <4> QED BY ZenonT(60), <3>3, <4>1 DEF ClientStep, Refused, OnRequest, Return
    <3> QED BY ZenonT(60), <3>1, <3>3, <3>4 DEF RequestTerminate
  <2>4. CASE \E b \in Client, r \in Request, isAsync \in BOOLEAN : SendRequest(b, r, isAsync)
    BY <2>4 DEF IInv, TypeOK, SendRequest
  <2>5. CASE \E s \in Server : ServerStep(s) \/ Call(s) \/ TimeOut(s) \/ SendReply(s)
    <3>1. PICK s \in Server : ServerStep(s) \/ Call(s) \/ TimeOut(s) \/ SendReply(s)
      BY ZenonT(60), <2>5
    <3>2. Reply(s)
      BY <3>1 DEF ServerStep, Call, TimeOut, SendReply, Wait, ReceiveNothing, ReceiveRequest,
           SetCurrent, ReceiveFailed, clientVars
    <3> QED BY ZenonT(60), <2>1, <2>2, <3>2 DEF Reply, Actor
  <2>6. CASE (\E d \in Destroyer : Destroy(d)) \/ DestroyStep
    <3>1. CASE CleanupAnswer
      BY ZenonT(60), <2>1, <2>2, <3>1 DEF CleanupAnswer, Actor, Destroyer
    <3>2. CASE Discard
      BY ZenonT(60), <2>1, <2>2, <3>2 DEF Discard, Actor, Destroyer
    <3>3. CASE ~CleanupAnswer /\ ~Discard
      BY ZenonT(60), <2>6, <3>3 DEF DestroyStep, Destroy, CheckState, SetState, CleanupNext, VisitCurrent,
           Visited, DiscardNext, ClientDestroyed, clientVars
    <3> QED BY ZenonT(60), <3>1, <3>2, <3>3
  <2> QED BY ZenonT(60), <2>3, <2>4, <2>5, <2>6 DEF Next
<1> QED BY <1>1, Invariance, PTL DEF Spec, AnswersReachSender
====
