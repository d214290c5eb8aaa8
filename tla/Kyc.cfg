SPECIFICATION ApplicationsSpec
CONSTANTS
    r1 = r1
    r2 = r2
    Requests = {r1, r2}
    MaxAttempts = 1
    MaxChecks = 3
    MaxApplications = 2
SYMMETRY Interchangeable
CONSTRAINT VerificationRests
CHECK_DEADLOCK FALSE
INVARIANT RejectedStaysOut
INVARIANT AttemptsBounded
INVARIANT UnderReviewIsInQueue
INVARIANT CoordinatorIsApproved
