CONSTANTS
    c1 = c1
    c2 = c2
    t1 = t1
    Charges <- TwoCharges
    Topups <- OneTopup
    Workers = {w1, w2}
    Amount <- SmallAmounts
    MinCharge = 1
    Quotes = {0, 5}
    Seed = 3
    Limits = {4}
SPECIFICATION OverlapSpec
INVARIANT LedgerMatchesState DebitsBoundedByOvertaking BudgetEnforced TopupCreditedOnce LedgerMatchesOutbox
PROPERTY TerminalStickiness ImplementsContract
SYMMETRY WorkerSymmetry
