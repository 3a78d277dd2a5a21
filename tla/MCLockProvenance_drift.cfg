SPECIFICATION MCSpec
CONSTANTS
    cp2k = cp2k
    sub = sub
    dev = dev
    var = var
    note = note
    one = one
    other = other
    Repo = {cp2k, sub, dev}
    Copy = {var}
    Remark = {note}
    Odd = {var}
    UrlOf <- MCUrlOf
    CopyOf <- MCCopyOf
    Commit = {c1, c2}
    Version = {v1, v2}
    None = None
    MaxChanges = 2
    Faults = {"stop"}
CHECK_DEADLOCK FALSE
INVARIANT NoDriftIsCurrent
SYMMETRY Symmetry
