SPECIFICATION FairSpec
CONSTANTS
    master = master
    masterFork = masterFork
    upstream = upstream
    fork = fork
    Run = {1, 2}
    Slot = {upstream, fork}
    IdentOf <- MCIdentOf
    Env = {master, masterFork}
    Fork = {masterFork}
    Workflows = {"nightly", "stable", "regen"}
    KeepMirrors = 1
    KeepImages = 2
    KeepReleases = 1
    MaxDay = 2
    MaxAttempt = 2
    MaxRetried = 1
    NoId = NoId
CHECK_DEADLOCK FALSE
INVARIANTS TypeOK OwnMirror OwnImage GreenInBudget GreenReleased
PROPERTIES EveryRunEnds
