SPECIFICATION Spec
CONSTANTS
    th1 = th1
    th2 = th2
    o1 = o1
    o2 = o2
    ann = ann
    root = root
    Threads = {th1, th2}
    Orgs = {o1, o2}
    NoOrg = NoOrg
    Unknown = Unknown
    Users = {ann, root}
    Anonymous = Anonymous
    Superusers = {root}
    OrgOf <- MCOrgOf
INVARIANT TypeOK
INVARIANT CleanBetweenJobs
INVARIANT ReadsOwnOrg
INVARIANT ViewKeepsContext
