SPECIFICATION Spec
CONSTANTS
    Tasks = {t1, t2}
    Dispatches = {d1, d2}
    Procs = {p1}
    None = None
    Deps <- MCDeps
    MaxAttempts = 2
    MaxSeq = 1
    Commands <- RetryCommands
    Grain = "command"
    Faults = {"crash"}
SYMMETRY MCSymmetry
INVARIANTS OneAuthorityPerTask DepsBeforeWork
PROPERTIES KeepsPromise CompletedIsOver SupersededNeverSettles
