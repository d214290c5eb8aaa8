SPECIFICATION AccountsSpec
CONSTANTS
    None = None
    e1 = e1
    r1 = r1
    r2 = r2
    Emails = {e1}
    Requests = {r1, r2}
    MaxSessions = 2
    Budgets <- MCBudgets
    MaxTokens = 3
    MaxChallenges = 2
    MaxInvites = 2
    MaxPasswords = 2
    MaxAttempts = 2
SYMMETRY Interchangeable
CHECK_DEADLOCK FALSE
INVARIANT OneChain
INVARIANT ClientCanGoOn
INVARIANT OneOpenChallenge
INVARIANT ProofSpentOnce
INVARIANT SessionsAreVerified
