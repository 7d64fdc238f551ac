SPECIFICATION MCSpec
CONSTANTS
    Thread = {t1, t2, t3}
    Address = {e, b, u}
    EventWord = e
    Accessible = {e, b}
    Priority = {1, 2}
    Value <- MCValue
    Count <- MCCount
    HalfWord = 3
    MaxCount = 2
SYMMETRY Symmetry
CHECK_DEADLOCK FALSE
INVARIANTS TreeOrdered NewValueTells ReleaseReachesSleepers
PROPERTIES ImplementsEvent
