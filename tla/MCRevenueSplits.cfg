CONSTANTS
    s1 = s1
    s2 = s2
    d1 = d1
    d2 = d2
    r1 = r1
    a1 = a1
    x = x
    y = y
    None = None
    Share = {s1, s2}
    Track = {1, 2}
    TrackOf <- MCTrackOf
    Account = {a1}
    Address = {x, y}
    Report = {r1}
    Sender = {d1, d2}
    Whole = 3
    Bps = {1, 2}
    FeeBps = 1
    Grosses <- MCGrosses
    Amounts = {14}
    MaxReceived = 14
    MaxAsks = 2
    MaxTries = 1
SPECIFICATION Spec
SYMMETRY Symmetry
\* Everything the bounds allow may have happened.
CHECK_DEADLOCK FALSE
INVARIANTS
    HeldIsUnanswered
    BooksBalance
    LinkSaysShare
PROPERTIES
    CreditedStays
    PostedOnce
