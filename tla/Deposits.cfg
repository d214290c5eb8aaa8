SPECIFICATION FairSpec
CONSTANTS
    Intents = {i1}
    Refs = {r1,r2}
    Confirmers = {c1,c2}
    Handlers = {h1,h2}
    i1 = i1
    r1 = r1
    r2 = r2
    c1 = c1
    c2 = c2
    h1 = h1
    h2 = h2
    Amounts <- MCAmounts
    FeeOf <- MCFeeOf
    MinimumDeposit = 2
    MaxFaults = 1
    None = None
CHECK_DEADLOCK FALSE
INVARIANT CreditedOnce
PROPERTY KeepsPromise
PROPERTY PaidIsCredited
