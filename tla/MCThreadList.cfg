\* Three threads, so that a list has a middle; two objects, up to three places in a wait, so
\* that a thread can be in one list more than once, and in two lists.
CONSTANTS
    t1 = t1
    t2 = t2
    t3 = t3
    o1 = o1
    o2 = o2
    Null = Null
    Garbage = Garbage
    Waiter <- Threads
    Waitable <- Objects
    MaxNodes = 3
SPECIFICATION ListSpec
SYMMETRY Symmetry
INVARIANT ListIntact
PROPERTIES ImplementsQueues NotifiesExactly
