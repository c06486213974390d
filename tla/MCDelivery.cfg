CONSTANTS
    s1 = s1
    r1 = r1
    r2 = r2
    Send = {s1}
    Runner = {r1, r2}
    MaxAttempts = 2
    MaxTries = 1
    Events = {"REJECTED"}
    PlannedId = TRUE
    Nobody = Nobody
SPECIFICATION FairSpec
INVARIANTS
    NoDuplicateSend
    UnknownParked
PROPERTIES
    SendsOnlyWhenClear
    KeepsPromise
    StalledSendRepaired
