CONSTANTS
    p1 = p1
    d1 = d1
    w1 = w1
    w2 = w2
    NoJob = NoJob
    Job <- MCJob
    Worker <- MCWorker
    Pipeline <- MCPipeline
    MaxAttempts = 2
    MaxResets = 1
SPECIFICATION FairSpec
\* The instance is at rest once all its jobs are settled.
CHECK_DEADLOCK FALSE
INVARIANTS QueuedIsClaimable ReportedSuccessStands DeadLetterSurfaced RunsBounded
PROPERTIES ImplementsLifecycle EventuallySettled
