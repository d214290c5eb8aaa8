SPECIFICATION FairSpec
CONSTANTS
    b1 = b1
    b2 = b2
    Bills = {b1,b2}
    Reconcilers = {k1,k2}
    k1 = k1
    k2 = k2
    AmountOf <- MCAmountOf
    FeeOf <- MCFeeOf
    Opening <- MCOpening
    Transfers = {4}
    MaxFaults = 1
    Reversible = {b1}
CHECK_DEADLOCK FALSE
INVARIANT ReserveMatchesBills
PROPERTY KeepsEscrow
PROPERTY HeldIsResolved
