SPECIFICATION PipelineSpec
CONSTANTS
    master = master
    masterFork = masterFork
    upstream = upstream
    fork = fork
    Run = {1, 2}
    Slot = {upstream, fork}
    IdentOf <- MCIdentOf
    Env = {master, masterFork}
    Fork = {masterFork}
    Workflows = {"nightly"}
    KeepMirrors = 1
    KeepImages = 2
    KeepReleases = 1
    MaxDay = 1
    MaxAttempt = 2
    MaxRetried = 1
    NoId = NoId
CHECK_DEADLOCK FALSE
INVARIANT ReleaseKeepsGreen
