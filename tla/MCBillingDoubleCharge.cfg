CONSTANTS
    c1 = c1
    c2 = c2
    t1 = t1
    Charges <- OneCharge
    Topups <- OneTopup
    Workers = {w1, w2}
    Amount <- SmallAmounts
    MinCharge = 1
    Quotes = {0, 2, 5}
    Seed = 3
    Limits = {2, 4}
SPECIFICATION Spec
INVARIANT NoDoubleCharge
