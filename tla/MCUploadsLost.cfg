CONSTANTS
    c1 = c1
    a1 = a1
    Call = {c1}
    Read = {a1}
    NoMaster = NoMaster
SPECIFICATION UploadsSpec
INVARIANTS
    RemovedIsOrphaned
\* At rest once the session ended and no completion is under way.
CHECK_DEADLOCK FALSE
