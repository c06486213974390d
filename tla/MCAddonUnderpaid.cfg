CONSTANTS
    o1 = o1
    o2 = o2
    p1 = p1
    p2 = p2
    None = None
    Order = {o1, o2}
    Payment = {p1, p2}
    Prices = {1, 2}
    Providers = {"toss", "portone", "payple"}
    MaxFaults = 1
SPECIFICATION Spec
SYMMETRY Symmetry
\* Every order may be closed and every payment used.
CHECK_DEADLOCK FALSE
INVARIANT PaidInFull
