SPECIFICATION BuildcacheSpec
CONSTANTS
    e1 = e1
    e2 = e2
    l1 = l1
    l2 = l2
    s1 = s1
    s2 = s2
    Proc = {p1}
    Env = {e1, e2}
    Lock = {l1, l2}
    Spec = {s1, s2}
    SpecsOf <- MCSpecsOf
    EnvName <- MCEnvName
    HostLock0 <- MCHostLock
    Commands = {"build"}
    Modes = {"local"}
    Faults = {}
    NoProc = NoProc
    NoEnv = NoEnv
    NoLock = NoLock
INVARIANTS FailedProducerNotStable
