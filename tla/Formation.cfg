SPECIFICATION FormationSpec
CONSTANTS
    None = None
    ada = ada
    ben = ben
    cal = cal
    Users = {ada, ben, cal}
    Creator = ada
    Terms <- MCTerms
    MaxInvitations = 2
    MaxLive = 2
SYMMETRY Interchangeable
CHECK_DEADLOCK FALSE
INVARIANT WithinTerms
INVARIANT UsesAreMembers
INVARIANT Reconciles
INVARIANT TurnsAdvance
