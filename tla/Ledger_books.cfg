SPECIFICATION SeedSpec
CONSTANTS
    wallet = wallet
    payable = payable
    fees = fees
    expense = expense
    Accounts = {wallet, payable, fees, expense}
    k1 = k1
    k2 = k2
    x1 = x1
    x2 = x2
    AppKeys = {k1, k2}
    AppReferences = {x1, x2}
    Keys <- MCKeys
    References <- MCReferences
    Commands <- MCCommands
    None = None
    SeedAmount = 2
    Payable = payable
    Available = wallet
    Revenue = fees
    Expense = expense
    MaxRuns = 2
CONSTRAINT Busy
SYMMETRY Interchangeable
CHECK_DEADLOCK FALSE
INVARIANT BooksBalance
INVARIANT RewardIsPosted
INVARIANT CutsHeal
