SPECIFICATION Spec
CONSTANTS
    Procs = {p1, p2}
    Dirs = {d1, d2}
    MaxOwn = 1
    Lost = Lost
    Missing = Missing
    Faults = {"crash"}
INVARIANTS TypeOK OnlyAskedFor Recoverable
