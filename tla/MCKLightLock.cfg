\* Three threads, two nested locks, one kind of suspension.
SPECIFICATION Spec
CONSTANTS
    t1 = t1
    t2 = t2
    t3 = t3
    Thread = {t1, t2, t3}
    NoThread = NoThread
    NumLocks = 2
    SuspendType = {"Thread"}
SYMMETRY ThreadSymmetry
INVARIANTS SleepersWaitOnOwner WaitChainAscends SuspensionNotLost KernelWaitersKeepRunning
PROPERTIES ImplementsMutex
