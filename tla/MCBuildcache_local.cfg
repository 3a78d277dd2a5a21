SPECIFICATION BuildcacheSpec
CONSTANTS
    e1 = e1
    e2 = e2
    l1 = l1
    l2 = l2
    s1 = s1
    s2 = s2
    Proc = {p1, p2, p3}
    Env = {e1, e2}
    Lock = {l1, l2}
    Spec = {s1, s2}
    SpecsOf <- MCSpecsOf
    EnvName <- MCEnvName
    HostLock0 <- MCHostLock
    Commands = {"build", "resume", "verify", "auto", "only"}
    Modes = {"local"}
    Faults = {"crash"}
    NoProc = NoProc
    NoEnv = NoEnv
    NoLock = NoLock
SYMMETRY MCSymmetry
INVARIANTS TypeOK HealthyHasCoverage CoverageIsAvailable CoverageExactLock StableIsPublished RecoveryImageExists OnlyConsumerServed
PROPERTIES ReadersSeeOneStore
