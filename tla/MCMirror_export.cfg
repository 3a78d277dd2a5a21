SPECIFICATION MirrorSpec
CONSTANTS
    e1 = e1
    l1 = l1
    l2 = l2
    s1 = s1
    s2 = s2
    s3 = s3
    Proc = {p1, p2}
    Env = {e1}
    Lock = {l1, l2}
    Source = {s1, s2, s3}
    Needs <- MCNeeds
    EnvName <- MCEnvName
    HostLock0 <- MCNoHostLock
    Plans <- MCPrune
    Keep = 2
    MaxRuns = 4
    Faults = {}
    NoProc = NoProc
    NoEnv = NoEnv
    NoLock = NoLock
    NoName = NoName
SYMMETRY MCSymmetry
PROPERTY ExportIsOwn
