--------------------------- MODULE KServerSession ---------------------------
(***************************************************************************)
(* The requests of one session: clients send them and wait, or leave an    *)
(* event to be signaled; the server's threads receive and answer them; and *)
(* either end may close, also both at once, while requests are queued, in  *)
(* service, or in the hands of a thread.                                   *)
(*                                                                         *)
(* m_lock is held from the step that names it (LockFree) to the last step  *)
(* of the call, and an action is at most one section under the scheduler   *)
(* lock.  The contents of messages, and whether copying them succeeds, are *)
(* left open.  The server waits for this session only; that such waits are *)
(* ended as they should is the subject of KSynchronizationObject.          *)
(***************************************************************************)
EXTENDS Integers, Sequences

CONSTANTS
    Client,         \* the threads that use the client's handle
    Server,         \* the threads that use the server's handle
    Request,        \* the slab heap of KSessionRequest
    NoRequest

\* The last Close of an end runs its Destroy, on whatever thread that is.
Destroyer == {"ServerDestroy", "ClientDestroy"}
Actor == Server \cup Destroyer

ASSUME RequestAssumption == NoRequest \notin Request
ASSUME ActorAssumption == Server \cap Destroyer = {}

VARIABLES
    state,          \* KSession::m_atomic_state
    list,           \* m_request_list
    current,        \* m_current_request
    refs,           \* the reference counts of the requests, 0 if free
    thread,         \* m_thread, as Initialize set it
    cleared,        \* the requests whose m_thread and m_event were cleared
    async,          \* the requests with an m_event
    pending,        \* the requests accepted and not yet answered
    cpc,            \* where each client is
    creq,           \* the request of its call
    terminating,    \* IsTerminationRequested
    pc,             \* where each server and destroyer is
    held,           \* its local variable request
    prev            \* prev_request in OnClientClosed

sessionVars == <<state, list, current>>
requestVars == <<refs, thread, cleared, async, pending>>
clientVars == <<cpc, creq, terminating>>
actorVars == <<pc, held, prev>>
vars == <<sessionVars, requestVars, clientVars, actorVars>>

State == {"Normal", "ClientClosed", "ServerClosed"}
ClientPlace == {"idle", "send", "wait", "return"}
ServerPlace == {"idle", "look", "wait", "receive", "popped", "failed", "answer"}
DestroyPlace == {"open", "check", "set", "enter", "loop", "answer", "visit", "done"}
Locked == {"popped", "failed", "answer", "loop", "visit"}

Init ==
    /\ state = "Normal" /\ list = <<>> /\ current = NoRequest
    /\ refs = [r \in Request |-> 0]
    /\ thread \in [Request -> Client] /\ cleared = {} /\ async = {} /\ pending = {}
    /\ cpc = [c \in Client |-> "idle"] /\ creq = [c \in Client |-> NoRequest]
    /\ terminating = {}
    /\ pc = [a \in Actor |-> IF a \in Destroyer THEN "open" ELSE "idle"]
    /\ held = [a \in Actor |-> NoRequest] /\ prev = NoRequest

\* A call that forgets KScopedLightLock.
LockFreeIgnored == TRUE

LockFree == \A a \in Actor : pc[a] \notin Locked

IsClosed == state # "Normal"
Go(a, place) == pc' = [pc EXCEPT ![a] = place]
GoWith(a, place, r) == Go(a, place) /\ held' = [held EXCEPT ![a] = r]
Close(r) == refs' = [refs EXCEPT ![r] = @ - 1]

IsSignaledImpl(s, l, c) == s # "Normal" \/ (l # <<>> /\ c = NoRequest)

\* pc after actor a has gone to a place and NotifyAvailable has woken the
\* waiting threads, if the session is then signaled.
Notified(signaled, a, place) ==
    [b \in Actor |-> IF b = a THEN place
                     ELSE IF signaled /\ pc[b] = "wait" THEN "receive" ELSE pc[b]]

-----------------------------------------------------------------------------
(* The client.                                                             *)

\* Any thread with the handle: the reference to the session is held until the
\* call returns.
SendRequest(c, r, isAsync) ==
    /\ cpc[c] = "idle" /\ c \notin terminating /\ pc["ClientDestroy"] = "open"
    /\ refs[r] = 0
    /\ refs' = [refs EXCEPT ![r] = 1]
    /\ thread' = [thread EXCEPT ![r] = c]
    /\ cleared' = cleared \ {r} /\ pending' = pending \ {r}
    /\ async' = IF isAsync THEN async \cup {r} ELSE async \ {r}
    /\ cpc' = [cpc EXCEPT ![c] = "send"] /\ creq' = [creq EXCEPT ![c] = r]
    /\ UNCHANGED <<sessionVars, terminating, actorVars>>

Refused(c) ==
    /\ cpc[c] = "send" /\ (IsClosed \/ c \in terminating)
    /\ cpc' = [cpc EXCEPT ![c] = "return"]
    /\ UNCHANGED <<sessionVars, requestVars, creq, terminating, actorVars>>

\* The server is told only of the first request.
Queue(r) ==
    /\ list' = Append(list, r)
    /\ pc' = IF list = <<>> /\ IsSignaledImpl(state, list', current)
             THEN [a \in Actor |-> IF pc[a] = "wait" THEN "receive" ELSE pc[a]]
             ELSE pc

\* Accepts requests for a server that has gone.
OnRequestUnchecked(c) ==
    LET r == creq[c] IN
    /\ cpc[c] = "send" /\ c \notin terminating
    /\ refs' = [refs EXCEPT ![r] = @ + 1]
    /\ Queue(r)
    /\ pending' = pending \cup {r}
    /\ cpc' = [cpc EXCEPT ![c] = IF r \in async THEN "return" ELSE "wait"]
    /\ UNCHANGED <<state, current, thread, cleared, async, creq, terminating, held, prev>>

OnRequest(c) ==
    LET r == creq[c] IN
    /\ cpc[c] = "send" /\ ~IsClosed /\ c \notin terminating
    /\ refs' = [refs EXCEPT ![r] = @ + 1]
    /\ Queue(r)
    /\ pending' = pending \cup {r}
    /\ cpc' = [cpc EXCEPT ![c] = IF r \in async THEN "return" ELSE "wait"]
    /\ UNCHANGED <<state, current, thread, cleared, async, creq, terminating, held, prev>>

Return(c) ==
    /\ cpc[c] = "return"
    /\ Close(creq[c])
    /\ cpc' = [cpc EXCEPT ![c] = "idle"] /\ creq' = [creq EXCEPT ![c] = NoRequest]
    /\ UNCHANGED <<sessionVars, thread, cleared, async, pending, terminating, actorVars>>

\* The wait for an answer has no time-out and cannot be cancelled otherwise.
RequestTerminate(c) ==
    /\ c \notin terminating
    /\ terminating' = terminating \cup {c}
    /\ cpc' = [cpc EXCEPT ![c] = IF @ = "wait" THEN "return" ELSE @]
    /\ UNCHANGED <<sessionVars, requestVars, creq, actorVars>>

-----------------------------------------------------------------------------
(* The answer to a request, common to the calls below: an event is         *)
(* signaled, or the wait of a thread ended unless it is terminating.       *)

HasThread(r) == r \notin cleared

SignalEvent(r) == pending' = pending \ {r} /\ UNCHANGED cpc

EndWait(r) ==
    IF thread[r] \in terminating THEN UNCHANGED <<pending, cpc>>
    ELSE /\ pending' = pending \ {r}
         /\ cpc' = [cpc EXCEPT ![thread[r]] = IF @ = "wait" THEN "return" ELSE @]

Answer(r) ==
    IF ~HasThread(r) THEN UNCHANGED <<pending, cpc>>
    ELSE IF r \in async THEN SignalEvent(r)
    ELSE EndWait(r)

\* Only events are answered.
AnswerEvents(r) ==
    IF HasThread(r) /\ r \in async THEN SignalEvent(r) ELSE UNCHANGED <<pending, cpc>>

-----------------------------------------------------------------------------
(* The server.                                                             *)

\* ReplyAndReceive, by a thread with the handle, with nothing to reply to.
Call(s) ==
    /\ pc[s] = "idle" /\ pc["ServerDestroy"] = "open"
    /\ Go(s, "look")
    /\ UNCHANGED <<sessionVars, requestVars, clientVars, held, prev>>

Wait(s) ==
    /\ pc[s] = "look"
    /\ Go(s, IF IsSignaledImpl(state, list, current) THEN "receive" ELSE "wait")
    /\ UNCHANGED <<sessionVars, requestVars, clientVars, held, prev>>

TimeOut(s) ==
    /\ pc[s] = "wait"
    /\ Go(s, "idle")
    /\ UNCHANGED <<sessionVars, requestVars, clientVars, held, prev>>

\* SessionClosed ends the call, after NotFound it looks again.
ReceiveNothing(s) ==
    /\ pc[s] = "receive" /\ LockFree
    /\ IsClosed \/ current # NoRequest \/ list = <<>>
    /\ Go(s, IF IsClosed THEN "idle" ELSE "look")
    /\ UNCHANGED <<sessionVars, requestVars, clientVars, held, prev>>

ReceiveRequest(s) ==
    /\ pc[s] = "receive" /\ LockFree
    /\ ~IsClosed /\ current = NoRequest /\ list # <<>>
    /\ list' = Tail(list)
    /\ GoWith(s, "popped", Head(list))
    /\ UNCHANGED <<state, current, requestVars, clientVars, prev>>

\* Not under the scheduler lock: new requests may come before it.
SetCurrent(s) ==
    /\ pc[s] = "popped"
    /\ current' = held[s]
    /\ \/ GoWith(s, "idle", NoRequest)
       \/ Go(s, "failed") /\ UNCHANGED held
    /\ UNCHANGED <<state, list, requestVars, clientVars, prev>>

\* Requests that came meanwhile are not announced.
ClearCurrentQuietly(s) == current' = NoRequest /\ Go(s, "answer")

\* The request stays current while it is answered.
ClearCurrentNever(s) == UNCHANGED current /\ Go(s, "answer")

\* Gives up the current request, and announces the ones that wait behind it.
ClearCurrent(s) ==
    /\ current' = NoRequest
    /\ pc' = Notified(list # <<>>, s, "answer")

ReceiveFailed(s) ==
    /\ pc[s] = "failed"
    /\ ClearCurrent(s)
    /\ UNCHANGED <<state, list, requestVars, clientVars, held, prev>>

\* Any thread with the handle may reply: there is one current request.  Without
\* one, the answer is InvalidState and nothing changes.
SendReply(s) ==
    /\ pc[s] = "idle" /\ pc["ServerDestroy"] = "open" /\ LockFree
    /\ current # NoRequest
    /\ held' = [held EXCEPT ![s] = current]
    /\ ClearCurrent(s)
    /\ UNCHANGED <<state, list, requestVars, clientVars, prev>>

\* After the reply, or after NotFound, the call goes on to receive, or returns.
Reply(s) ==
    /\ pc[s] = "answer"
    /\ Answer(held[s])
    /\ Close(held[s])
    /\ \E place \in {"idle", "look"} : GoWith(s, place, NoRequest)
    /\ UNCHANGED <<sessionVars, thread, cleared, async, creq, terminating, prev>>

-----------------------------------------------------------------------------
(* The ends.  Their states are looked at and set in two steps, under no    *)
(* lock, so that each may find the session Normal while the other closes.  *)

Destroy(d) ==
    /\ pc[d] = "open"
    /\ IF d = "ServerDestroy" THEN \A s \in Server : pc[s] = "idle"
                              ELSE \A c \in Client : cpc[c] = "idle"
    /\ Go(d, "check")
    /\ UNCHANGED <<sessionVars, requestVars, clientVars, held, prev>>

\* Leaves the requests to the end that was first.
CheckStateLeave(d) ==
    /\ pc[d] = "check"
    /\ Go(d, IF ~IsClosed THEN "set" ELSE "done")
    /\ UNCHANGED <<sessionVars, requestVars, clientVars, held, prev>>

\* KServerSession::OnClientClosed is skipped if the server was first.
\* CleanupRequests never is.
CheckState(d) ==
    /\ pc[d] = "check"
    /\ Go(d, IF ~IsClosed THEN "set" ELSE IF d = "ServerDestroy" THEN "enter" ELSE "done")
    /\ UNCHANGED <<sessionVars, requestVars, clientVars, held, prev>>

SetState(d) ==
    /\ pc[d] = "set"
    /\ state' = IF d = "ServerDestroy" THEN "ServerClosed" ELSE "ClientClosed"
    /\ Go(d, "enter")
    /\ UNCHANGED <<list, current, requestVars, clientVars, held, prev>>

InLoop(d) == pc[d] = "loop" \/ (pc[d] = "enter" /\ LockFree)

\* CleanupRequests takes the current request first, then the queued ones.
CleanupNext ==
    LET d == "ServerDestroy" IN
    /\ InLoop(d)
    /\ \/ /\ current # NoRequest
          /\ current' = NoRequest /\ GoWith(d, "answer", current)
          /\ UNCHANGED list
       \/ /\ current = NoRequest /\ list # <<>>
          /\ list' = Tail(list) /\ GoWith(d, "answer", Head(list))
          /\ UNCHANGED current
       \/ /\ current = NoRequest /\ list = <<>>
          /\ Go(d, "done")
          /\ UNCHANGED <<list, current, held>>
    /\ UNCHANGED <<state, requestVars, clientVars, prev>>

CleanupAnswer ==
    LET d == "ServerDestroy" IN
    /\ pc[d] = "answer"
    /\ Answer(held[d]) /\ Close(held[d])
    /\ GoWith(d, "loop", NoRequest)
    /\ UNCHANGED <<sessionVars, thread, cleared, async, creq, terminating, prev>>

Unvisited == current # NoRequest /\ current # prev

\* OnClientClosed looks once at the current request and leaves it to the
\* server, but without its thread and event if the thread is terminating.
VisitCurrent ==
    LET d == "ClientDestroy" IN
    /\ InLoop(d) /\ Unvisited
    /\ refs' = [refs EXCEPT ![current] = @ + 1]
    /\ cleared' = IF thread[current] \in terminating THEN cleared \cup {current} ELSE cleared
    /\ prev' = current
    /\ GoWith(d, "visit", current)
    /\ UNCHANGED <<sessionVars, thread, async, pending, clientVars>>

Visited ==
    LET d == "ClientDestroy" IN
    /\ pc[d] = "visit"
    /\ Close(held[d]) /\ GoWith(d, "loop", NoRequest)
    /\ UNCHANGED <<sessionVars, thread, cleared, async, pending, clientVars, prev>>

DiscardNext ==
    LET d == "ClientDestroy" IN
    /\ InLoop(d) /\ ~Unvisited /\ list # <<>>
    /\ list' = Tail(list) /\ GoWith(d, "answer", Head(list))
    /\ UNCHANGED <<state, current, requestVars, clientVars, prev>>

\* Synchronous requests have no one to answer: their threads hold the session.
Discard ==
    LET d == "ClientDestroy" IN
    /\ pc[d] = "answer"
    /\ AnswerEvents(held[d]) /\ Close(held[d])
    /\ GoWith(d, "loop", NoRequest)
    /\ UNCHANGED <<sessionVars, thread, cleared, async, creq, terminating, prev>>

ClientDestroyed ==
    LET d == "ClientDestroy" IN
    /\ InLoop(d) /\ ~Unvisited /\ list = <<>>
    /\ pc' = Notified(IsSignaledImpl(state, list, current), d, "done")
    /\ UNCHANGED <<sessionVars, requestVars, clientVars, held, prev>>

-----------------------------------------------------------------------------
ClientStep(c) == Refused(c) \/ OnRequest(c) \/ Return(c)
ServerStep(s) ==
    Wait(s) \/ ReceiveNothing(s) \/ ReceiveRequest(s) \/ SetCurrent(s) \/ ReceiveFailed(s) \/ Reply(s)
DestroyStep ==
    \/ \E d \in Destroyer : CheckState(d) \/ SetState(d)
    \/ CleanupNext \/ CleanupAnswer
    \/ VisitCurrent \/ Visited \/ DiscardNext \/ Discard \/ ClientDestroyed

Next ==
    \/ \E c \in Client : ClientStep(c) \/ RequestTerminate(c)
    \/ \E c \in Client, r \in Request, isAsync \in BOOLEAN : SendRequest(c, r, isAsync)
    \/ \E s \in Server : ServerStep(s) \/ Call(s) \/ TimeOut(s) \/ SendReply(s)
    \/ \E d \in Destroyer : Destroy(d)
    \/ DestroyStep

Spec == Init /\ [][Next]_vars

\* A thread in the kernel goes on: m_lock is handed over in the order it was
\* asked for, and no wait under it is unbounded.  Nothing makes anybody send,
\* receive, reply or close.
Fairness ==
    /\ \A c \in Client : WF_vars(ClientStep(c))
    /\ \A s \in Server : SF_vars(ServerStep(s))
    /\ \A d \in Destroyer : WF_vars(CheckState(d) \/ SetState(d))
    /\ SF_vars(CleanupNext \/ CleanupAnswer)
    /\ SF_vars(VisitCurrent \/ Visited \/ DiscardNext \/ Discard \/ ClientDestroyed)

FairSpec == Spec /\ Fairness

-----------------------------------------------------------------------------
(* Properties.                                                             *)

\* Every variable keeps its type.
TypeOK ==
    /\ state \in State
    /\ list \in Seq(Request)
    /\ current \in Request \cup {NoRequest}
    /\ refs \in [Request -> Nat]
    /\ thread \in [Request -> Client]
    /\ cleared \subseteq Request /\ async \subseteq Request /\ pending \subseteq Request
    /\ cpc \in [Client -> ClientPlace]
    /\ creq \in [Client -> Request \cup {NoRequest}]
    /\ terminating \subseteq Client
    /\ pc \in [Actor -> ServerPlace \cup DestroyPlace]
    /\ held \in [Actor -> Request \cup {NoRequest}]
    /\ prev \in Request \cup {NoRequest}

In(r, l) == \E i \in DOMAIN l : l[i] = r
Queued(r) == In(r, list)

\* The request is in the hands of a thread that has to answer it.
InHand(r) == \E a \in Actor : pc[a] \in {"popped", "answer"} /\ held[a] = r

\* The session's one reference to the request.
Owned(r) == Queued(r) \/ current = r \/ InHand(r)

Count(b) == IF b THEN 1 ELSE 0

\* The reference of the call that sent it, and the one of OnClientClosed.
InCall(r) == \E c \in Client : creq[c] = r
Visiting(r) == pc["ClientDestroy"] = "visit" /\ held["ClientDestroy"] = r

\* The references to a request are the ones of the client's call, of the
\* session and of OnClientClosed: it is freed when, and only when, the last of
\* them has gone, in whatever order the call returns and the ends close.
RequestRefs ==
    \A r \in Request :
        refs[r] = Count(InCall(r)) + Count(Owned(r)) + Count(Visiting(r))

\* No thread of the server waits while the session is signaled, except until
\* OnClientClosed reaches its notification.
NoMissedRequest ==
    \A s \in Server :
        pc[s] = "wait" /\ IsSignaledImpl(state, list, current)
            => state = "ClientClosed" /\ pc["ClientDestroy"] \in {"enter", "loop", "answer", "visit"}

\* A request that is not answered is queued, in service or in the hands of a
\* thread, of a session whose server is still there, unless its sender was
\* asked to terminate: no close, failure to receive or reply drops one.
NoRequestDropped ==
    \A r \in pending :
        \/ Owned(r) /\ pc["ServerDestroy"] # "done"
        \/ thread[r] \in terminating

OwnAnswer(c) ==
    cpc[c] = "wait" /\ cpc'[c] # "wait"
        => c \in terminating' \/ (creq[c] \in pending /\ creq[c] \notin pending')

\* The wait of a client ends only with the answer to its request, or because
\* the thread terminates: an answer never reaches the wait for a later request.
AnswersReachSender == [][\A c \in Client : OwnAnswer(c)]_vars

\* What the code asserts or relies on: ReceiveRequest finds the request it set
\* still current, and OnClientClosed finds a thread in every request.
AssertionsHold ==
    /\ \A s \in Server : pc[s] = "failed" => current = held[s]
    /\ pc["ClientDestroy"] \in {"enter", "loop"} =>
           /\ Unvisited => HasThread(current)
           /\ \A i \in DOMAIN list : HasThread(list[i])

-----------------------------------------------------------------------------
(* The inductive invariant of the proofs.                                  *)

\* Threads are where their code is, one at a time under m_lock, and no thread
\* of an end is in a call once that end is destroyed.
Places ==
    /\ \A s \in Server : pc[s] \in ServerPlace
    /\ \A d \in Destroyer : pc[d] \in DestroyPlace
    /\ pc["ServerDestroy"] # "visit"
    /\ \A a, b \in Actor : pc[a] \in Locked /\ pc[b] \in Locked => a = b
    /\ \A a \in Actor : held[a] # NoRequest <=> pc[a] \in {"popped", "failed", "answer", "visit"}
    /\ pc["ServerDestroy"] # "open" => \A s \in Server : pc[s] = "idle"
    /\ pc["ClientDestroy"] # "open" => \A c \in Client : cpc[c] = "idle"

\* Who has closed the session.
Closing ==
    /\ state = "ServerClosed" => pc["ServerDestroy"] \in {"enter", "loop", "answer", "done"}
    /\ state = "ClientClosed" => pc["ClientDestroy"] \in {"enter", "loop", "answer", "visit", "done"}
    /\ state = "Normal" => /\ pc["ServerDestroy"] \in {"open", "check", "set"}
                           /\ pc["ClientDestroy"] \in {"open", "check", "set"}
    /\ pc["ServerDestroy"] = "done" => \A r \in Request : ~Owned(r)

\* A request is in one place.
Distinct(l) == \A i, j \in DOMAIN l : l[i] = l[j] => i = j
OnePlace ==
    /\ Distinct(list)
    /\ \A r \in Request : Queued(r) => current # r /\ ~InHand(r)
    /\ \A a \in Actor : pc[a] \in {"failed", "visit"} => current = held[a]
    /\ \A a \in Actor : pc[a] = "popped" => current = NoRequest
    /\ \A a \in Actor : pc[a] = "answer" => current # held[a]

\* The calls of the clients.
Calls ==
    /\ \A c \in Client : creq[c] = NoRequest <=> cpc[c] = "idle"
    /\ \A c \in Client : creq[c] # NoRequest => thread[creq[c]] = c
    /\ \A c \in Client : cpc[c] = "send" =>
           creq[c] \notin pending /\ creq[c] \notin cleared /\ ~Owned(creq[c])
    /\ \A c \in Client : cpc[c] = "wait" =>
           creq[c] \in pending /\ creq[c] \notin async /\ c \notin terminating
    /\ \A r \in Request : Owned(r) /\ r \notin async /\ thread[r] \notin terminating
           => cpc[thread[r]] = "wait" /\ creq[thread[r]] = r

\* Only OnClientClosed clears a request, and only while it is current.
Clears ==
    /\ \A r \in cleared : thread[r] \in terminating
    /\ \A r \in cleared : ~Queued(r)
    /\ current \in cleared => prev = current
    /\ \A a \in Actor : pc[a] = "popped" => held[a] \notin cleared

IInv ==
    TypeOK /\ Places /\ Closing /\ OnePlace /\ Calls /\ Clears
        /\ RequestRefs /\ NoMissedRequest /\ NoRequestDropped

\* Closing the server's end answers the clients that wait.
CloseAnswers ==
    \A c \in Client : pc["ServerDestroy"] # "open" /\ cpc[c] = "wait" ~> cpc[c] # "wait"
====
