SPECIFICATION Spec
CONSTANTS
    Tasks = {t1}
    Dispatches = {d1}
    Procs = {p1, p2}
    None = None
    Deps <- MCDeps
    MaxAttempts = 1
    MaxSeq = 2
    Commands <- LaunchAndReport
    Grain = "file"
    Faults = {}
SYMMETRY MCSymmetry
INVARIANTS OneReportPerDispatch
