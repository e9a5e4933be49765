SPECIFICATION FairSpec
CONSTANTS
    p1 = p1
    p2 = p2
    v1 = v1
    v2 = v2
    s1 = s1
    d1 = d1
    w1 = w1
    Nobody = Nobody
    Payers = {p1, p2}
    Viewers = {v1}
    Syncers = {s1}
    Editors = {}
    Savers = {w1}
    Requests = {}
    ItemEdits = FALSE
    MaxPays = 3
    MaxMsgs = 2
    MaxFaults = 0
INVARIANT TypeOK
INVARIANT ApprovedPaysOrder
PROPERTY ImplementsChargeOnce
PROPERTY ApprovalSticks
