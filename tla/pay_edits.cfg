SPECIFICATION Spec
CONSTANTS
    p1 = p1
    p2 = p2
    v1 = v1
    v2 = v2
    s1 = s1
    d1 = d1
    w1 = w1
    Nobody = Nobody
    Payers = {p1}
    Viewers = {v1}
    Syncers = {s1}
    Editors = {d1}
    Savers = {w1}
    Requests = {"PENDING", "CANCELLED", "SHIPPED"}
    ItemEdits = TRUE
    MaxPays = 2
    MaxMsgs = 2
    MaxFaults = 1
INVARIANT OneCharge
INVARIANT RowMatchesGateway
INVARIANT PaidIsCharged
