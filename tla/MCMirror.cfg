SPECIFICATION FairSpec
CONSTANTS
    e1 = e1
    l1 = l1
    l2 = l2
    s1 = s1
    s2 = s2
    s3 = s3
    Proc = {p1, p2}
    Env = {e1}
    Lock = {l1, l2}
    Source = {s1, s2, s3}
    Needs <- MCNeeds
    EnvName <- MCEnvName
    HostLock0 <- MCNoHostLock
    Plans <- MCPlans
    Keep = 2
    MaxRuns = 4
    Faults = {"crash", "edit"}
    NoProc = NoProc
    NoEnv = NoEnv
    NoLock = NoLock
    NoName = NoName
INVARIANTS TypeOK GateLatest
PROPERTIES AdmissionSound ReadersSeeOneMirror EveryRunEnds
