SPECIFICATION PatientSpec
CONSTANTS
    Dispatches = {d1, d2}
    Readers = {r1}
    Owner <- OwnReader
    Clerks = {c1}
    MaxSeq = 4
    Commands = {"ask", "check", "check_all", "reply", "send"}
    Faults = {"crash", "revoke"}
INVARIANTS TypeOK
PROPERTIES CheckAcksWhatItPrints CheckPrintsOnce AnswerReachesAsker
