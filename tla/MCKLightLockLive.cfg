\* Liveness: three threads on one lock; a suspended thread is never owed a resume.
SPECIFICATION FairSpec
CONSTANTS
    t1 = t1
    t2 = t2
    t3 = t3
    Thread = {t1, t2, t3}
    NoThread = NoThread
    NumLocks = 1
    SuspendType = {"Thread"}
PROPERTIES OwnerGivesUp
