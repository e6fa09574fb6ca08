SPECIFICATION JudgeSpec
CONSTANTS
    Callers = {n1, n2, n3}
    Permits = 2
    Attempts = 2
    Cap = 2
    Prices = {0, 1, 3}
    MaxPrice = 3
INVARIANTS
    SpendBounded
    BudgetReasonTrue
PROPERTIES
    EveryCallEnds
