CONSTANTS
    c1 = c1
    c2 = c2
    c3 = c3
    m1 = m1
    m2 = m2
    t1 = t1
    t2 = t2
    r1 = r1
    r2 = r2
    Call = {c1, c2, c3}
    Read = {m1, m2}
    NoMaster = NoMaster
    ToolCall = {m1, m2}
    Tab = {t1, t2}
    Action = {r1, r2}
    Contents = {0, 1}
SPECIFICATION MCSpec
SYMMETRY Symmetry
INVARIANTS
    MastersKept
    NoOrphans
    ConfirmedIsSubmitted
PROPERTIES
    OneOutcome
    FirstAnswerStands
    TakenBackStaysBack
    AnswersStand
\* Uploads is at rest once the session ended and no completion is under way.
CHECK_DEADLOCK FALSE
