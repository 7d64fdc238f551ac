\* Two kinds of suspension at once on two threads and one lock.
SPECIFICATION Spec
CONSTANTS
    t1 = t1
    t2 = t2
    Thread = {t1, t2}
    NoThread = NoThread
    NumLocks = 1
    SuspendType = {"Thread", "Debug"}
INVARIANTS KernelWaitersKeepRunning
