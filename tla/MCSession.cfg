\* A session, ages of 0 and 2 seconds of 4 ticks, a clock that is set and restarts.
SPECIFICATION Spec
CONSTANTS
    Users = {1}
    Secrets = {"s1", "s2"}
    Ages = {0, 2}
    TicksPerSecond = 4
    Skew = 2
    MaxTime = 20
    MaxTokens = 1
INVARIANTS
    TypeOK
    LivesItsAge
PROPERTIES
    ExpiredStaysExpired
