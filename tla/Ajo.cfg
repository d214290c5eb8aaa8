SPECIFICATION Spec
CONSTANTS
    N = 2
    Due = 2
    ann = ann
    ben = ben
    Members = {ann, ben}
    Admin = ann
    OwnerOf <- MCOwnerOf
    Opening <- MCOpening
    Keys = {k1}
    Intents = {i1}
    Executors = {e1}
    Swaps = {x1}
    k1 = k1
    i1 = i1
    e1 = e1
    x1 = x1
CHECK_DEADLOCK FALSE
INVARIANT PoolIsContributionsLessPayouts
INVARIANT SchedulesTellTheTruth
INVARIANT PaidOnlyWhenCollected
