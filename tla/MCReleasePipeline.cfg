CONSTANTS
    MaxRevisions = 2
    MaxTries = 2
    MaxEpoch = 1
    MaxFaults = 1
SPECIFICATION FairSpec
\* A release withdrawn or delivered is at rest.
CHECK_DEADLOCK FALSE
INVARIANTS
    RunningHasJob
    CancelledStaysHome
PROPERTIES
    RunningSurfaces
    ReturnedStaysReturned
