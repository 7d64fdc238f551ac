\* Two threads, which are objects too, and an event; lists of up to two objects, so that an
\* object can be given twice. Threads end and stay so: the system may stop.
SPECIFICATION FairSpec
CONSTANTS
    Thread = {t1, t2}
    Event = {e1}
    MaxObjects = 2
CHECK_DEADLOCK FALSE
INVARIANTS NothingOutlivesWait NoMissedSignal
PROPERTIES CancelNotLost TerminationEnds
