SPECIFICATION EngineSpec
CONSTANTS
    Proc = {p1, p2}
    Ref = {app}
    Root = {here, there}
    MaxImage = 2
    Commands = {"build", "sif", "gc", "assets"}
    Faults = {"kill", "tag", "rm", "rebuild"}
    NoRef = NoRef
    NoRoot = NoRoot
    NoProc = NoProc
SYMMETRY MCSymmetry
INVARIANTS TypeOK ExportIsImage ExecInOwn
PROPERTIES RunningBuildKept
