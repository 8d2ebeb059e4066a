SPECIFICATION Spec
CONSTANTS
    Dispatches = {1, 2}
    Tasks = {t1}
    PaneIds = {0, 1, 2}
    Foreign = {0}
    Kept = {1}
    NoOne = NoOne
    Faults = {"crash"}
VIEW MCView
INVARIANTS TypeOK ForeignPanesStay TranscriptFirst
 
