------------------------------- MODULE KPort -------------------------------
(***************************************************************************)
(* Ports (KPort with its KClientPort and KServerPort) and the life of the  *)
(* sessions that are made through them.                                    *)
(*                                                                         *)
(* A thread that connects reserves a session from its resource limit,      *)
(* takes one from the slab heap, counts it against the port by a compare-  *)
(* and-swap loop, initializes it and hands its server end to the port.     *)
(* The count falls, and the waiters of both ends are told, under the       *)
(* scheduler lock; the compare-and-swap loops run outside of it.  A light  *)
(* port differs only in the type of the sessions and in that no requests   *)
(* are allocated with a light session.                                     *)
(*                                                                         *)
(* A session that lost both ends is torn down by the thread that closed    *)
(* the second; only the session's state shows how far that thread is.      *)
(***************************************************************************)
EXTENDS Integers, Sequences, FiniteSets

CONSTANTS
    Thread,         \* the threads of the client's process
    Session,        \* the memory sessions are made of
    Slab,           \* the part of it the slab heap of KSession starts with ...
    LightSlab,      \* ... and that of KLightSession
    NoSession,
    MaxSessions,    \* m_max_sessions
    Limit,          \* the limit of LimitableResource_SessionCountMax at the start
    Expands         \* the process has the system's limit, dynamic limits are on

ASSUME SessionAssumption ==
    /\ IsFiniteSet(Session) /\ IsFiniteSet(Thread)
    /\ Slab \subseteq Session /\ LightSlab \subseteq Session
    /\ NoSession \notin Session
ASSUME MaxAssumption == MaxSessions \in Nat \ {0}
\* The system's limit is the number of sessions of the slab heap.
ASSUME LimitAssumption == Limit \in 0..Cardinality(Slab)
ASSUME ExpandsAssumption == Expands \in BOOLEAN

VARIABLES
    isLight,        \* KPort::m_is_light
    state,          \* KPort::m_state
    server,         \* the server port: "open", "cleanup" in Destroy, "closed"
    handle,         \* handles or a name refer to the client port
    clientRefs,     \* m_ref_count of the client port
    numSessions,    \* m_num_sessions
    peakSessions,   \* m_peak_sessions
    list,           \* m_session_list, or m_light_session_list
    current,        \* the resource's m_current_values ...
    limit,          \* ... and m_limit_values
    phase,          \* how far each session is in its life
    refs,           \* m_ref_count of each session: the ends not yet closed
    connected,      \* sessions whose client end was given to the client ...
    accepted,       \* ... and whose server end was given to the server
    owed,           \* sessions freed whose PostDestroy is still to come
    pc,             \* where a thread is in CreateSession
    mine,           \* its local session
    reserved,       \* its session_reservation succeeded and is not committed
    seen,           \* its local cur_sessions, then peak
    new,            \* its local new_sessions
    waiting,        \* a thread of the server waits for the server port
    highest         \* history: the most sessions that were ever counted

portVars == <<isLight, state, server, handle>>
countVars == <<numSessions, highest>>
resourceVars == <<current, limit>>
endVars == <<list, connected, accepted, waiting>>
localVars == <<pc, mine, reserved, seen, new>>
vars == <<isLight, state, server, handle, clientRefs, numSessions, peakSessions, list, current,
          limit, phase, refs, connected, accepted, owed, pc, mine, reserved, seen, new, waiting,
          highest>>

\* No memory, in the slab heap, allocated, counted, initialized, without ends,
\* and finalized.
Phases == {"unused", "free", "new", "counted", "live", "dying", "final"}

Counted == {s \in Session : phase[s] \in {"counted", "live", "dying"}}

\* KPort::Initialize; the ends are in handle tables, or the client is named.
Init ==
    /\ isLight \in BOOLEAN
    /\ state = "Normal" /\ server = "open" /\ handle = TRUE /\ clientRefs = 1
    /\ numSessions = 0 /\ peakSessions = 0 /\ highest = 0
    /\ list = <<>> /\ connected = {} /\ accepted = {} /\ waiting = FALSE
    /\ current = 0 /\ limit = Limit /\ owed = 0
    /\ phase = [s \in Session |-> IF s \in (IF isLight THEN LightSlab ELSE Slab) THEN "free" ELSE "unused"]
    /\ refs = [s \in Session |-> 0]
    /\ pc = [t \in Thread |-> "idle"]
    /\ mine = [t \in Thread |-> NoSession]
    /\ reserved = [t \in Thread |-> FALSE]
    /\ seen = [t \in Thread |-> 0]
    /\ new = [t \in Thread |-> 0]

Goto(t, label) == pc' = [pc EXCEPT ![t] = label]

\* The client port's Close; the last one is followed by KClientPort::Destroy,
\* where KPort::OnClientClosed notes the end of a port that is still normal.
CloseClientPort ==
    /\ clientRefs' = clientRefs - 1
    /\ state' = IF clientRefs = 1 /\ state = "Normal" THEN "ClientClosed" ELSE state

-----------------------------------------------------------------------------
(* Connecting: the system call finds the client port by handle or name and *)
(* holds a reference while it runs CreateSession.                          *)

Connect(t) ==
    /\ pc[t] = "idle" /\ handle
    /\ clientRefs' = clientRefs + 1
    /\ Goto(t, "reserve")
    /\ UNCHANGED <<portVars, countVars, peakSessions, endVars, resourceVars, phase, refs, owed,
                   mine, reserved, seen, new>>

\* The reservation.  Without room it waits for ten seconds at most and fails.
Reserve(t) ==
    /\ pc[t] = "reserve"
    /\ \/ /\ current < limit
          /\ current' = current + 1
          /\ reserved' = [reserved EXCEPT ![t] = TRUE]
          /\ Goto(t, "create")
       \/ /\ current >= limit
          /\ Goto(t, IF Expands THEN "expand" ELSE "return")
          /\ UNCHANGED <<current, reserved>>
    /\ UNCHANGED <<portVars, clientRefs, countVars, peakSessions, endVars, limit, phase, refs,
                   owed, mine, seen, new>>

\* KSession::Create; a slab heap without a session is ResultOutOfResource.
Create(t) ==
    /\ pc[t] = "create"
    /\ \/ \E s \in Session :
            /\ phase[s] = "free"
            /\ phase' = [phase EXCEPT ![s] = "new"]
            /\ mine' = [mine EXCEPT ![t] = s]
            /\ Goto(t, "load")
       \/ /\ \A s \in Session : phase[s] # "free"
          /\ Goto(t, "release")
          /\ UNCHANGED <<phase, mine>>
    /\ UNCHANGED <<portVars, clientRefs, countVars, peakSessions, endVars, resourceVars, refs,
                   owed, reserved, seen, new>>

\* CreateFromUnusedSlabMemory, for the session ...
Expand(t) ==
    /\ pc[t] = "expand"
    /\ \/ \E s \in Session :
            /\ phase[s] = "unused"
            /\ phase' = [phase EXCEPT ![s] = "new"]
            /\ mine' = [mine EXCEPT ![t] = s]
            /\ Goto(t, "add")
       \/ /\ \A s \in Session : phase[s] # "unused"
          /\ Goto(t, "return")
          /\ UNCHANGED <<phase, mine>>
    /\ UNCHANGED <<portVars, clientRefs, countVars, peakSessions, endVars, resourceVars, refs,
                   owed, reserved, seen, new>>

\* session->Close of a session that is not initialized: it goes to the slab heap.
Discard(t) ==
    /\ phase' = [phase EXCEPT ![mine[t]] = "free"]
    /\ mine' = [mine EXCEPT ![t] = NoSession]

\* ... and for the two requests of a session that is not light; then the
\* session is added to the limit, as one that is in use.
Add(t) ==
    /\ pc[t] = "add"
    /\ \/ /\ limit' = limit + 1
          /\ current' = current + 1
          /\ Goto(t, "load")
          /\ UNCHANGED <<phase, mine>>
       \/ /\ ~isLight
          /\ Discard(t)
          /\ Goto(t, "return")
          /\ UNCHANGED resourceVars
    /\ UNCHANGED <<portVars, clientRefs, countVars, peakSessions, endVars, refs, owed, reserved,
                   seen, new>>

\* ResultOutOfSessions: the session is closed, then the reservation released.
OutOfSessions(t) ==
    /\ Discard(t)
    /\ Goto(t, IF reserved[t] THEN "release" ELSE "return")
    /\ seen' = [seen EXCEPT ![t] = 0]
    /\ UNCHANGED <<numSessions, highest, new>>

\* cur_sessions was read; the loop goes on while there is room.
Check(t) ==
    \/ /\ numSessions < MaxSessions
       /\ seen' = [seen EXCEPT ![t] = numSessions]
       /\ Goto(t, "count")
       /\ UNCHANGED <<numSessions, highest, phase, mine, new>>
    \/ numSessions >= MaxSessions /\ OutOfSessions(t)

Load(t) ==
    /\ pc[t] = "load"
    /\ Check(t)
    /\ UNCHANGED <<portVars, clientRefs, peakSessions, endVars, resourceVars, refs, owed,
                   reserved>>

\* A mutant: the count is stored, whatever it is by now.
CountStore(t) ==
    /\ pc[t] = "count"
    /\ numSessions' = seen[t] + 1
    /\ highest' = IF numSessions' > highest THEN numSessions' ELSE highest
    /\ new' = [new EXCEPT ![t] = numSessions']
    /\ seen' = [seen EXCEPT ![t] = 0]
    /\ phase' = [phase EXCEPT ![mine[t]] = "counted"]
    /\ Goto(t, "loadPeak")
    /\ UNCHANGED <<portVars, clientRefs, peakSessions, endVars, resourceVars, refs, owed,
                   mine, reserved>>

\* The compare-and-swap.
Count(t) ==
    /\ pc[t] = "count"
    /\ \/ /\ numSessions = seen[t]
          /\ numSessions' = seen[t] + 1
          /\ highest' = IF numSessions' > highest THEN numSessions' ELSE highest
          /\ new' = [new EXCEPT ![t] = numSessions']
          /\ phase' = [phase EXCEPT ![mine[t]] = "counted"]
          /\ seen' = [seen EXCEPT ![t] = 0]
          /\ Goto(t, "loadPeak")
          /\ UNCHANGED mine
       \/ numSessions # seen[t] /\ Check(t)
    /\ UNCHANGED <<portVars, clientRefs, peakSessions, endVars, resourceVars, refs, owed,
                   reserved>>

\* The peak was read; the loop goes on while it is lower.
CheckPeak(t) ==
    /\ seen' = [seen EXCEPT ![t] = peakSessions]
    /\ Goto(t, IF peakSessions >= new[t] THEN "initialize" ELSE "peak")
    /\ UNCHANGED peakSessions

LoadPeak(t) ==
    /\ pc[t] = "loadPeak"
    /\ CheckPeak(t)
    /\ UNCHANGED <<portVars, clientRefs, countVars, endVars, resourceVars, phase, refs, owed,
                   mine, reserved, new>>

\* A mutant: the peak is stored, whatever it is by now.
PeakStore(t) ==
    /\ pc[t] = "peak"
    /\ peakSessions' = new[t]
    /\ Goto(t, "initialize")
    /\ UNCHANGED <<portVars, clientRefs, countVars, endVars, resourceVars, phase, refs, owed,
                   mine, reserved, seen, new>>

Peak(t) ==
    /\ pc[t] = "peak"
    /\ \/ /\ peakSessions = seen[t]
          /\ peakSessions' = new[t]
          /\ Goto(t, "initialize")
          /\ UNCHANGED seen
       \/ peakSessions # seen[t] /\ CheckPeak(t)
    /\ UNCHANGED <<portVars, clientRefs, countVars, endVars, resourceVars, phase, refs, owed,
                   mine, reserved, new>>

\* A mutant: the session holds no reference to the port.
InitializeNoOpen(t) ==
    /\ pc[t] = "initialize"
    /\ phase' = [phase EXCEPT ![mine[t]] = "live"]
    /\ refs' = [refs EXCEPT ![mine[t]] = 2]
    /\ reserved' = [reserved EXCEPT ![t] = FALSE]
    /\ seen' = [seen EXCEPT ![t] = 0]
    /\ new' = [new EXCEPT ![t] = 0]
    /\ Goto(t, "enqueue")
    /\ UNCHANGED <<portVars, clientRefs, countVars, peakSessions, endVars, resourceVars, owed, mine>>

\* KSession::Initialize, with a reference to the port; the reservation is
\* committed and the session registered.
Initialize(t) ==
    /\ pc[t] = "initialize"
    /\ phase' = [phase EXCEPT ![mine[t]] = "live"]
    /\ refs' = [refs EXCEPT ![mine[t]] = 2]
    /\ clientRefs' = clientRefs + 1
    /\ reserved' = [reserved EXCEPT ![t] = FALSE]
    /\ seen' = [seen EXCEPT ![t] = 0]
    /\ new' = [new EXCEPT ![t] = 0]
    /\ Goto(t, "enqueue")
    /\ UNCHANGED <<portVars, countVars, peakSessions, endVars, resourceVars, owed, mine>>

\* A mutant: the session is listed whatever state the port is in.
EnqueueAlways(t) ==
    /\ pc[t] = "enqueue"
    /\ list' = Append(list, mine[t])
    /\ waiting' = (waiting /\ Len(list') # 1)
    /\ connected' = connected \cup {mine[t]}
    /\ mine' = [mine EXCEPT ![t] = NoSession]
    /\ Goto(t, "return")
    /\ UNCHANGED <<portVars, clientRefs, countVars, peakSessions, accepted, resourceVars, owed,
                   reserved, seen, new, phase, refs>>

\* KPort::EnqueueSession, under the scheduler lock.  A port that is not normal
\* refuses the session, and both its ends are closed.
Enqueue(t) ==
    /\ pc[t] = "enqueue"
    /\ \/ /\ state = "Normal"
          /\ list' = Append(list, mine[t])
          /\ waiting' = (waiting /\ Len(list') # 1)
          /\ connected' = connected \cup {mine[t]}
          /\ UNCHANGED <<phase, refs>>
       \/ /\ state # "Normal"
          /\ refs' = [refs EXCEPT ![mine[t]] = 0]
          /\ phase' = [phase EXCEPT ![mine[t]] = "dying"]
          /\ UNCHANGED <<list, waiting, connected>>
    /\ mine' = [mine EXCEPT ![t] = NoSession]
    /\ Goto(t, "return")
    /\ UNCHANGED <<portVars, clientRefs, countVars, peakSessions, accepted, resourceVars, owed,
                   reserved, seen, new>>

\* ~KScopedResourceReservation of a reservation that was not committed.
Release(t) ==
    /\ pc[t] = "release"
    /\ current' = current - 1
    /\ reserved' = [reserved EXCEPT ![t] = FALSE]
    /\ Goto(t, "return")
    /\ UNCHANGED <<portVars, clientRefs, countVars, peakSessions, endVars, limit, phase, refs,
                   owed, mine, seen, new>>

\* The system call gives up its reference to the client port.
Return(t) ==
    /\ pc[t] = "return"
    /\ CloseClientPort
    /\ Goto(t, "idle")
    /\ UNCHANGED <<isLight, server, handle, countVars, peakSessions, endVars, resourceVars, phase, refs,
                   owed, mine, reserved, seen, new>>

\* A thread waits for the client port, which is signaled while there is room.
ClientWait(t) ==
    /\ pc[t] = "idle" /\ handle
    /\ numSessions >= MaxSessions
    /\ clientRefs' = clientRefs + 1
    /\ Goto(t, "wait")
    /\ UNCHANGED <<portVars, countVars, peakSessions, endVars, resourceVars, phase, refs, owed,
                   mine, reserved, seen, new>>

\* The wait is cancelled, or its timeout has come.
ClientWaitEnds(t) ==
    /\ pc[t] = "wait"
    /\ Goto(t, "return")
    /\ UNCHANGED <<portVars, clientRefs, countVars, peakSessions, endVars, resourceVars, phase,
                   refs, owed, mine, reserved, seen, new>>

\* The last handle to the client port is closed, or its name deleted.
CloseHandle ==
    /\ handle
    /\ handle' = FALSE
    /\ CloseClientPort
    /\ UNCHANGED <<isLight, server, countVars, peakSessions, endVars, resourceVars, phase, refs, owed,
                   localVars>>

-----------------------------------------------------------------------------
(* The server.                                                             *)

\* A thread waits for the server port, which is signaled while a session is
\* listed; the wait may time out.
ServerWait ==
    /\ server = "open"
    /\ waiting \/ list = <<>>
    /\ waiting' = ~waiting
    /\ UNCHANGED <<portVars, clientRefs, countVars, peakSessions, list, connected, accepted,
                   resourceVars, phase, refs, owed, localVars>>

\* AcceptSession, or AcceptLightSession.
AcceptSession ==
    /\ server = "open" /\ ~waiting
    /\ list # <<>>
    /\ accepted' = accepted \cup {Head(list)}
    /\ list' = Tail(list)
    /\ UNCHANGED <<portVars, clientRefs, countVars, peakSessions, connected, waiting,
                   resourceVars, phase, refs, owed, localVars>>

\* KServerPort::Destroy, when no handle and no wait refers to the server port:
\* KPort::OnServerClosed, under the scheduler lock ...
CloseServerPort ==
    /\ server = "open" /\ ~waiting
    /\ server' = "cleanup"
    /\ state' = IF state = "Normal" THEN "ServerClosed" ELSE state
    /\ UNCHANGED <<isLight, handle, clientRefs, countVars, peakSessions, endVars, resourceVars, phase,
                   refs, owed, localVars>>

\* An end of session s is closed; the second one starts the session's Destroy.
CloseEnd(s) ==
    /\ refs' = [refs EXCEPT ![s] = @ - 1]
    /\ phase' = IF refs[s] = 1 THEN [phase EXCEPT ![s] = "dying"] ELSE phase

\* ... then CleanupSessions, which takes the lock for each session it pops and
\* closes the session outside of it.
CleanupSession ==
    /\ server = "cleanup"
    /\ \/ /\ list # <<>>
          /\ CloseEnd(Head(list))
          /\ list' = Tail(list)
          /\ UNCHANGED server
       \/ /\ list = <<>>
          /\ server' = "closed"
          /\ UNCHANGED <<list, refs, phase>>
    /\ UNCHANGED <<isLight, state, handle, clientRefs, countVars, peakSessions, connected, accepted,
                   waiting, resourceVars, owed, localVars>>

-----------------------------------------------------------------------------
(* The end of a session.                                                   *)

CloseClientSession(s) ==
    /\ s \in connected
    /\ connected' = connected \ {s}
    /\ CloseEnd(s)
    /\ UNCHANGED <<portVars, clientRefs, countVars, peakSessions, list, accepted, waiting,
                   resourceVars, owed, localVars>>

CloseServerSession(s) ==
    /\ s \in accepted
    /\ accepted' = accepted \ {s}
    /\ CloseEnd(s)
    /\ UNCHANGED <<portVars, clientRefs, countVars, peakSessions, list, connected, waiting,
                   resourceVars, owed, localVars>>

\* A mutant: the count is compared after it has fallen.
OnSessionFinalizedLate ==
    /\ numSessions' = numSessions - 1
    /\ pc' = [t \in Thread |-> IF numSessions' = MaxSessions /\ pc[t] = "wait"
                                 THEN "return" ELSE pc[t]]
    /\ UNCHANGED highest

\* KClientPort::OnSessionFinalized, under the scheduler lock: a port that was
\* full tells every thread that waits for it.
OnSessionFinalized ==
    /\ numSessions' = numSessions - 1
    /\ pc' = [t \in Thread |-> IF numSessions = MaxSessions /\ pc[t] = "wait"
                                 THEN "return" ELSE pc[t]]
    /\ UNCHANGED highest

\* KSession::Finalize gives back the session's place and reference at the port.
Finalize(s) ==
    /\ phase[s] = "dying"
    /\ phase' = [phase EXCEPT ![s] = "final"]
    /\ OnSessionFinalized
    /\ CloseClientPort
    /\ UNCHANGED <<isLight, server, handle, peakSessions, endVars, resourceVars, refs, owed, mine,
                   reserved, seen, new>>

\* The session goes to the slab heap ...
Free(s) ==
    /\ phase[s] = "final"
    /\ phase' = [phase EXCEPT ![s] = "free"]
    /\ owed' = owed + 1
    /\ UNCHANGED <<portVars, clientRefs, countVars, peakSessions, endVars, resourceVars, refs,
                   localVars>>

\* A mutant: the limit may be given back before the session is freed.
PostDestroyEarly ==
    /\ owed + Cardinality({s \in Session : phase[s] = "final"}) > 0
    /\ owed' = owed - 1
    /\ current' = current - 1
    /\ UNCHANGED <<portVars, clientRefs, countVars, peakSessions, endVars, limit, phase, refs,
                   localVars>>

\* ... and then back to the resource limit.
PostDestroy ==
    /\ owed > 0
    /\ owed' = owed - 1
    /\ current' = current - 1
    /\ UNCHANGED <<portVars, clientRefs, countVars, peakSessions, endVars, limit, phase, refs,
                   localVars>>

-----------------------------------------------------------------------------
Creating(t) == Reserve(t) \/ Create(t) \/ Expand(t) \/ Add(t) \/ Load(t) \/ Count(t) \/ LoadPeak(t)
               \/ Peak(t) \/ Initialize(t) \/ Enqueue(t) \/ Release(t) \/ Return(t)

Tearing == PostDestroy \/ CleanupSession \/ \E s \in Session : Finalize(s) \/ Free(s)

Next ==
    \/ \E t \in Thread : Connect(t) \/ Creating(t) \/ ClientWait(t) \/ ClientWaitEnds(t)
    \/ CloseHandle \/ ServerWait \/ AcceptSession \/ CloseServerPort
    \/ \E s \in Session : CloseClientSession(s) \/ CloseServerSession(s)
    \/ Tearing

Spec == Init /\ [][Next]_vars

-----------------------------------------------------------------------------
TypeOK ==
    /\ isLight \in BOOLEAN
    /\ state \in {"Normal", "ClientClosed", "ServerClosed"}
    /\ server \in {"open", "cleanup", "closed"}
    /\ handle \in BOOLEAN /\ waiting \in BOOLEAN
    /\ clientRefs \in Int /\ numSessions \in Int /\ peakSessions \in Int /\ highest \in Int
    /\ current \in Int /\ limit \in Nat /\ owed \in Nat
    /\ list \in Seq(Session)
    /\ phase \in [Session -> Phases]
    /\ refs \in [Session -> Int]
    /\ connected \subseteq Session /\ accepted \subseteq Session
    /\ pc \in [Thread -> {"idle", "reserve", "create", "expand", "add", "load", "count",
                          "loadPeak", "peak", "initialize", "enqueue", "release", "return",
                          "wait"}]
    /\ mine \in [Thread -> Session \cup {NoSession}]
    /\ reserved \in [Thread -> BOOLEAN]
    /\ seen \in [Thread -> Int] /\ new \in [Thread -> Int]

\* The compare-and-swap in CreateSession and the decrement in OnSessionFinalized
\* keep m_num_sessions equal to the sessions that have a place at the port, and
\* never let in more than m_max_sessions.
CountExact == numSessions = Cardinality(Counted) /\ numSessions <= MaxSessions

\* m_peak_sessions ends up as the most sessions there ever were, once the
\* threads that are past the count have left the loop that raises it.
PeakExact ==
    /\ peakSessions <= highest
    /\ peakSessions < highest =>
         \E t \in Thread : pc[t] \in {"loadPeak", "peak"} /\ new[t] = highest

\* A thread sleeps on the client port only while the port is full, and one of
\* the server only while no session is listed: neither the notification for a
\* place, given only if the port was full, nor the one for a session, given only
\* if it is the first, leaves a waiter behind.
NoMissedNotification ==
    /\ \A t \in Thread : pc[t] = "wait" => numSessions = MaxSessions
    /\ waiting => list = <<>>

\* Whatever order ports and ends are closed in, each open end of a session is
\* held by exactly one of the thread that makes the session, its client, the
\* list of the server port and its server; a server port that is closed lists
\* none.  An end nobody holds would never be closed and keep its place for good.
EndsHeld ==
    /\ \A s \in Session :
         refs[s] = (IF s \in connected THEN 1 ELSE 0) + (IF s \in accepted THEN 1 ELSE 0)
                     + Cardinality({i \in 1..Len(list) : list[i] = s})
                     + (IF \E t \in Thread : pc[t] = "enqueue" /\ mine[t] = s THEN 2 ELSE 0)
    /\ server = "closed" => list = <<>>

\* The client port is destroyed only when no call, wait, handle or session
\* refers to it: OnSessionFinalized and CreateSession never touch a dead port.
ClientPortOutlivesUsers ==
    clientRefs = (IF handle THEN 1 ELSE 0) + Cardinality({t \in Thread : pc[t] # "idle"})
                   + Cardinality({s \in Session : phase[s] \in {"live", "dying"}})

\* A reservation that was granted finds a KSession in the slab heap: sessions are
\* freed before they are given back to the limit, on every path.  (There are
\* fewer light sessions than the limit, so a light port may be out of them.)
ReservationBacked ==
    ~isLight =>
      Cardinality({t \in Thread : pc[t] = "create"})
          <= Cardinality({s \in Session : phase[s] = "free"})

=============================================================================
