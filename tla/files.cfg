SPECIFICATION Spec
CONSTANTS
    Tasks = {t1}
    Dispatches = {d1}
    Procs = {p1, p2}
    None = None
    Deps <- MCDeps
    MaxAttempts = 1
    MaxSeq = 2
    Commands = {"start", "done", "release", "doctor", "wait"}
    Grain = "file"
    Faults = {"crash"}
SYMMETRY MCSymmetry
INVARIANTS SettledHasReport CompletedHasReport DuplicateHasOriginal
