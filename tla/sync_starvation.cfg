SPECIFICATION FairSpec
CONSTANTS
    e1 = e1
    e2 = e2
    w1 = w1
    w2 = w2
    a1 = a1
    v1 = v1
    Entries = {e1, e2}
    NoEntry = NoEntry
    Workers = {w1}
    Admins = {}
    Savers = {}
    MaxAttempts = 1
    BackoffDelays <- MCBackoff
    FirstDelay = 1
    StaleAfter = 2
    MaxRun = 0
    ConfigVisible = TRUE
    MaxMsgs = 2
    MaxFaults = 1
PROPERTY PendingIsPolled
