SPECIFICATION Spec
CONSTANTS
    Tasks = {t1, t2}
    Gates = {g1}
    Choices = {yes}
    Procs = {p1}
    None = None
    Commands <- AllCommands
    Atomic = TRUE
SYMMETRY MCSymmetry
INVARIANT TypeOK
