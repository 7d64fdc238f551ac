\* Three threads, two locks that nest, and a thread that is asked to terminate.
SPECIFICATION Spec
CONSTANTS
    t1 = t1
    t2 = t2
    t3 = t3
    Thread = {t1, t2, t3}
    Lock = {1, 2}
    NoThread = NoThread
    MaxTerminated = 1
SYMMETRY Symmetry
CHECK_DEADLOCK FALSE
INVARIANTS WaitersLinked WaiterAnnounced
PROPERTIES ImplementsMonitor
