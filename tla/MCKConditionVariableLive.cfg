\* Liveness: two threads, so that no choice of the next owner starves one.
SPECIFICATION FairSpec
CONSTANTS
    t1 = t1
    t2 = t2
    t3 = t3
    Thread = {t1, t2}
    Lock = {1, 2}
    NoThread = NoThread
    MaxTerminated = 0
CHECK_DEADLOCK FALSE
PROPERTIES LockGranted
