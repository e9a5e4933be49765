SPECIFICATION Spec
CONSTANTS
    e1 = e1
    e2 = e2
    w1 = w1
    w2 = w2
    a1 = a1
    v1 = v1
    Entries = {e1}
    NoEntry = NoEntry
    Workers = {w1, w2}
    Admins = {a1}
    Savers = {v1}
    MaxAttempts = 2
    BackoffDelays <- MCBackoff
    FirstDelay = 1
    StaleAfter = 1
    MaxRun = 2
    ConfigVisible = TRUE
    MaxMsgs = 2
    MaxFaults = 0
INVARIANT RecordedIsTrue
INVARIANT ExhaustedAtLimit
INVARIANT ProcessingIsOwned
SYMMETRY MCSymmetry
