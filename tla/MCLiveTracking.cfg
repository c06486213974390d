CONSTANTS
    r1 = r1
    Runner = {r1}
    MaxPolls = 1
    MaxTries = 1
    Events = {"REJECTED", "LIVE", "TAKEN_DOWN"}
    CanStatus = TRUE
    CanInquire = TRUE
    Takedowns = TRUE
    Nobody = Nobody
SPECIFICATION FairSpec
INVARIANTS
    FailedIsRefusal
PROPERTIES
    NeverBackToIngesting
    ConfirmedStaysConfirmed
    OutcomeSurfaces
\* The instance is at rest once all its jobs are settled.
CHECK_DEADLOCK FALSE
