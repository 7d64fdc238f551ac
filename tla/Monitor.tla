------------------------------ MODULE Monitor ------------------------------
(***************************************************************************)
(* What a mutex and a condition variable promise a program: one thread at  *)
(* a time is inside, a wait leaves the mutex and joins the waiters in one  *)
(* step, and a waiter takes the mutex again only after it left them.       *)
(***************************************************************************)

CONSTANTS Thread, Lock, NoThread

VARIABLES holder,   \* holder[l]: the thread inside l, or NoThread
          waiting   \* waiting[l]: the threads that wait on l's condition variable

monitorVars == <<holder, waiting>>

MonitorInit ==
    /\ holder = [l \in Lock |-> NoThread]
    /\ waiting = [l \in Lock |-> {}]

Enter(t, l) ==
    /\ holder[l] = NoThread
    /\ \A k \in Lock : t \notin waiting[k]
    /\ holder' = [holder EXCEPT ![l] = t]
    /\ UNCHANGED waiting

Leave(t, l) ==
    /\ holder[l] = t
    /\ holder' = [holder EXCEPT ![l] = NoThread]
    /\ UNCHANGED waiting

Wait(t, l) ==
    /\ holder[l] = t
    /\ holder' = [holder EXCEPT ![l] = NoThread]
    /\ waiting' = [waiting EXCEPT ![l] = @ \cup {t}]

Wake(t, l) ==
    /\ t \in waiting[l]
    /\ waiting' = [waiting EXCEPT ![l] = @ \ {t}]
    /\ UNCHANGED holder

MonitorNext ==
    \E t \in Thread, l \in Lock : Enter(t, l) \/ Leave(t, l) \/ Wait(t, l) \/ Wake(t, l)

MonitorSpec == MonitorInit /\ [][MonitorNext]_monitorVars

=============================================================================
