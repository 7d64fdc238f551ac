\* Two client threads, two server threads, two requests. Both ends close for good: the system
\* may stop.
SPECIFICATION FairSpec
CONSTANTS
    Client = {c1, c2}
    Server = {s1, s2}
    Request = {r1, r2}
    NoRequest = NoRequest
CHECK_DEADLOCK FALSE
INVARIANTS RequestRefs NoMissedRequest NoRequestDropped
PROPERTIES AnswersReachSender CloseAnswers
