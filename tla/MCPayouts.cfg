CONSTANTS
    r1 = r1
    r2 = r2
    o1 = o1
    o2 = o2
    o3 = o3
    n1 = n1
    n2 = n2
    x1 = x1
    None = None
    Request = {r1, r2}
    Order = {o1, o2, o3}
    Notice = {n1}
    Addon = {x1}
    Amounts = {2, 3}
    AddonPrice = 1
    Credits = {4}
    MaxCredited = 4
    MaxHolds = 1
    SmallLimit = 2
    SmallFee = 1
SPECIFICATION Spec
SYMMETRY Symmetry
\* Everything the bounds allow may have happened.
CHECK_DEADLOCK FALSE
INVARIANTS
    NeverTwice
    Covered
    BooksMatchBank
    PaidOnce
    RequestFollowsOrder
