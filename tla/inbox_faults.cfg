SPECIFICATION Spec
CONSTANTS
    Dispatches = {d1}
    Waits = {w1, w2}
    None = None
    MaxSeq = 2
    Scopes <- WholeRun
    Wants <- QuestionsToo
    Commands = {"wait", "wait_all", "ack"}
    Overlap = TRUE
    Faults = {"crash", "herdr"}
SYMMETRY MCSymmetry
INVARIANT TypeOK
PROPERTY AckTakesWhatItHolds
