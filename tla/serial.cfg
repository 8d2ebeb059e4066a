SPECIFICATION Spec
CONSTANTS
    Tasks = {t1}
    Dispatches = {d1, d2}
    Procs = {p1}
    None = None
    Deps <- MCDeps
    MaxAttempts = 2
    MaxSeq = 3
    Commands <- AllButUpdate
    Grain = "command"
    Faults = {"herdr", "pane"}
SYMMETRY MCSymmetry
INVARIANTS TypeOK OneReportPerDispatch AuthorityMatchesLive AttemptsCountWorkers
PROPERTIES FirstReportStands LegalTransitions
