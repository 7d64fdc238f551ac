CONSTANTS
    Thread = {t1, t2}
    Session = {s1, s2, s3}
    Slab = {s1, s2}
    LightSlab = {s1}
    NoSession = NoSession
    MaxSessions = 2
    Limit = 2
    Expands = TRUE
SPECIFICATION Spec
SYMMETRY Symmetry
CHECK_DEADLOCK FALSE
INVARIANTS
    CountExact
    PeakExact
    NoMissedNotification
    EndsHeld
    ClientPortOutlivesUsers
    ReservationBacked
