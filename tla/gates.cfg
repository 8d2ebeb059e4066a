SPECIFICATION DiligentSpec
CONSTANTS
    Tasks = {t1, t2}
    Gates = {g1, g2}
    Choices = {yes}
    Procs = {p1}
    None = None
    Commands <- PlanAndWork
    Atomic = TRUE
INVARIANTS ParkedWhileGated FreedWhenDecided
PROPERTY PlanCompletes
