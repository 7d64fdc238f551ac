\* Two callers, two objects, a table of two entries whose linear ids wrap at three.
SPECIFICATION Spec
CONSTANTS
    Caller = {c1, c2}
    Object = {o1, o2}
    NoObject = NoObject
    Synchronization = {o1}
    TableSize = 2
    MaxLinearId = 3
    MaxBorrowed = 2
    Watched <- MCWatched
SYMMETRY CallerSymmetry
INVARIANTS EntriesPartitioned ResolvesIffLive LifetimesExact
PROPERTIES ReuseIsLate
