SPECIFICATION Spec
CONSTANTS
    m1 = m1
    Member = {m1}
    Skew = 1
    RateLimit = 1
    RateWindow = 1
    Drift = {0, 1}
    MaxFraction = 1
    MaxSecond = 3
    MaxRequest = 2
    MaxVersion = 1
INVARIANTS
    HandledOnce
    ReplayWasRun
    QuotaIsOwn
    AnswerIsFresh
CHECK_DEADLOCK FALSE
