SPECIFICATION FairSpec
CONSTANTS
    t1 = t1
    t2 = t2
    p1 = p1
    v1 = v1
    Tasks = {t1, t2}
    PdfTasks = {p1}
    Views = {v1}
    MaxRetries = 1
    MaxPdfRetries = 0
    MaxCrashes = 1
INVARIANT TypeOK
INVARIANT OneSubmitter
INVARIANT IssuedLeavesTrace
INVARIANT RecordedIsQueued
PROPERTY IdSticks
PROPERTY ProcessingEnds
