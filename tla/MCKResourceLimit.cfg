\* Two threads, two resources, amounts up to the one that wraps.
SPECIFICATION FairSpec
CONSTANTS
    Thread = {t1, t2}
    Resource = {r1, r2}
    Value = {0, 1, 3}
    LimitValue = {1, 2}
    MaxAdded = 2
    HalfRange = 4
    NoResource = NoResource
INVARIANTS ValuesOrdered Conservation SleepersJustified
PROPERTIES ReserveReturns
