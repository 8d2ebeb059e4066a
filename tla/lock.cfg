SPECIFICATION FairSpec
CONSTANTS
    Procs = {p1, p2}
    None = None
    Dead = Dead
    MaxSeq = 2
    Faults = {"crash", "pause", "doctor"}
INVARIANTS TypeOK MutualExclusion
PROPERTIES NumbersAreFresh LockRecovers
