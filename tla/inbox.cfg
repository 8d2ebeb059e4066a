SPECIFICATION RollingSpec
CONSTANTS
    Dispatches = {d1, d2}
    Waits = {w1}
    None = None
    MaxSeq = 2
    Scopes <- WholeRun
    Wants <- WakeTypes
    Commands = {"wait", "keep", "replay", "nudge"}
    Overlap = FALSE
    Faults = {"pane"}
INVARIANT CursorSkipsNothing
PROPERTIES DeathEndsWait RollingWaitsReceive
