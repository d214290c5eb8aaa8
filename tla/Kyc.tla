-------------------------------- MODULE Kyc ---------------------------------
(***************************************************************************)
(* The staged verification of one account.                                 *)
(*                                                                         *)
(*   KycService            status, updateBasicInfo, verifyIdentity,        *)
(*                         linkBankAccount, uploadIdentityDocument,        *)
(*                         verifyAddress, sync                             *)
(*   KycReviewService      decide                                          *)
(*   kyc-facts, kyc-stage-policy, kyc-review-policy                        *)
(*                                                                         *)
(* The account is ACTIVE, as the access token guard asks.  A request keeps *)
(* what it read across the provider's answer and between the statements of *)
(* sync; a decision is one serializable transaction.  Tiers are levels: no *)
(* statement writes one without the other.  A vNIN is a NIN.               *)
(***************************************************************************)
EXTENDS Integers, Sequences, FiniteSets, SequencesExt

CONSTANTS
    Requests,     \* requests of the account's owner that may be in flight
    MaxAttempts,  \* IDENTITY_MAX_FAILED_ATTEMPTS
    MaxChecks     \* bound: checks ever made

ASSUME KycAssumption ==
    MaxAttempts \in Nat \ {0} /\ MaxChecks \in Nat /\ IsFiniteSet(Requests)

VARIABLES
    details,      \* what the account has given: "basic", "pin", "document"
    profile,      \* kyc_profiles
    checks,       \* kyc_checks of each type, in the order they were made
    request,      \* where each request is, and what it read
    rejected      \* history: a reviewer has rejected the profile

kycVars == <<details, profile, checks, request, rejected>>

Identity == {"NIN", "BVN"}
Types == Identity \cup {"ADDRESS"}
Statuses == {"absent", "NOT_STARTED", "PENDING", "REQUIRES_REVIEW", "VERIFIED", "REJECTED"}
Places == {"idle", "NIN", "BVN", "ADDRESS", "upload", "hold", "sync", "compare",
           "insert", "update", "verify", "apply", "submit"}
Idle == [at |-> "idle", level |-> 0]

KycTypeOK ==
    /\ details \subseteq {"basic", "pin", "document"}
    /\ profile \in [status: Statuses, level: 0 .. 3, restricted: BOOLEAN]
    /\ checks \in [Types -> Seq([status: {"PASSED", "PENDING", "FAILED"},
                                 failedBy: {"provider", "reviewer"}, recent: BOOLEAN])]
    /\ request \in [Requests -> [at: Places, level: 0 .. 3]]
    /\ rejected \in BOOLEAN

KycInit ==
    /\ details = {}
    /\ profile = [status |-> "absent", level |-> 0, restricted |-> FALSE]
    /\ checks = [t \in Types |-> <<>>]
    /\ request = [r \in Requests |-> Idle]
    /\ rejected = FALSE

-----------------------------------------------------------------------------
(* What the evidence supports.                                             *)

\* stateOf: one pass is enough, otherwise the latest attempt decides.
StateOf(rows) ==
    IF \E i \in DOMAIN rows : rows[i].status = "PASSED" THEN "complete"
    ELSE IF rows = <<>> THEN "missing"
    ELSE IF Last(rows).status = "FAILED" THEN "failed"
    ELSE "pending"

\* Mutant of Restricted: the status alone is looked at.
RestrictedByStatus(p) == p.status = "REJECTED"

\* restricted of readKycFacts: the status alone is not enough, because later
\* writes move it.
Restricted(p) == p.status = "REJECTED" \/ p.restricted

Given(ds, d) == IF d \in ds THEN "complete" ELSE "missing"

\* stageRequirements.
Requirements(ds, cs) == <<
    {Given(ds, "basic")},
    {Given(ds, "pin"), StateOf(cs["NIN"]), Given(ds, "document")},
    {StateOf(cs["ADDRESS"])}>>

\* completedLevel: a later stage never counts while an earlier one is open.
CompletedLevel(ds, cs, restricted) ==
    LET done(stage) == Requirements(ds, cs)[stage] = {"complete"} IN
    IF restricted \/ ~done(1) THEN 0
    ELSE IF ~done(2) THEN 1
    ELSE IF ~done(3) THEN 2
    ELSE 3

Level == CompletedLevel(details, checks, Restricted(profile))

\* describeStages: what the owner is shown of a stage.
StageStatus(stage) ==
    LET items == Requirements(details, checks)[stage] IN
    IF stage <= Level THEN "complete"
    ELSE IF stage > Level + 1 \/ Restricted(profile) THEN "locked"
    ELSE IF "pending" \in items /\ items \subseteq {"complete", "pending"} THEN "under_review"
    ELSE "in_progress"

-----------------------------------------------------------------------------
(* Requests of the owner.                                                  *)

At(r, place) == request[r].at = place
Go(r, place) == request' = [request EXCEPT ![r].at = place]
Finish(r) == request' = [request EXCEPT ![r] = Idle]

\* ensureKycProfile: the upsert that creates the profile and updates nothing.
Ensured ==
    IF profile.status = "absent" THEN [status |-> "PENDING", level |-> 1, restricted |-> FALSE]
    ELSE profile

\* The failures of the last day.
RecentFailures(types) ==
    {ti \in types \X (1 .. MaxChecks) :
        /\ ti[2] \in DOMAIN checks[ti[1]]
        /\ checks[ti[1]][ti[2]].status = "FAILED" /\ checks[ti[1]][ti[2]].recent}

\* Mutant of Exhausted: one attempt more than the limit.
ExhaustedLater(types) == Cardinality(RecentFailures(types)) > MaxAttempts

\* hasExhaustedAttempts.
Exhausted(types) == Cardinality(RecentFailures(types)) >= MaxAttempts

\* assertAttemptsRemain, on the profile ensureKycProfile returned: a refusal
\* leaves the profile with a reviewer.
Attempt(r, place, types) ==
    IF Exhausted(types)
    THEN /\ profile' = [Ensured EXCEPT !.status = "REQUIRES_REVIEW"]
         /\ UNCHANGED request
    ELSE /\ profile' = Ensured
         /\ Go(r, place)

RoomForCheck ==
    Len(checks["NIN"]) + Len(checks["BVN"]) + Len(checks["ADDRESS"])
        + Cardinality({r \in Requests : request[r].at \in Types}) < MaxChecks

\* verifyIdentity up to the provider's call.
VerifyIdentity(r, kind) ==
    /\ At(r, "idle") /\ RoomForCheck
    /\ kind = "NIN" => Level >= 1 /\ StateOf(checks["NIN"]) \notin {"complete", "pending"}
    /\ Attempt(r, kind, Identity)
    /\ UNCHANGED <<details, checks, rejected>>

Check(status) ==
    [status |-> status, failedBy |-> "provider", recent |-> status # "PASSED"]

\* What is stored of an answer: a flagged name or date of birth holds a pass.
CheckStatus(outcome) ==
    CASE outcome = "failed" -> "FAILED"
      [] outcome = "flagged" -> "PENDING"
      [] outcome = "passed" -> "PASSED"

\* A check is stored; a failure ends the request, a held check is reported
\* to the reviewers next, a pass is synced.
StoreCheck(r, type, status) ==
    /\ checks' = [checks EXCEPT ![type] = Append(@, Check(status))]
    /\ CASE status = "FAILED" -> Finish(r)
         [] status = "PENDING" -> Go(r, "hold")
         [] status = "PASSED" -> Go(r, "sync")
    /\ UNCHANGED <<details, profile, rejected>>

\* verifyIdentity once the provider has answered.
IdentityAnswered(r, outcome) ==
    /\ request[r].at \in Identity
    /\ StoreCheck(r, request[r].at, CheckStatus(outcome))

\* verifyAddress: guards, then the comparison with the address of the NIN's
\* record, which the provider may not have returned.
VerifyAddress(r) ==
    /\ At(r, "idle") /\ RoomForCheck
    /\ Level >= 2 /\ StateOf(checks["ADDRESS"]) \notin {"complete", "pending"}
    /\ Attempt(r, "ADDRESS", {"ADDRESS"})
    /\ UNCHANGED <<details, checks, rejected>>
AddressCompared(r, outcome) ==
    /\ At(r, "ADDRESS")
    /\ StoreCheck(r, "ADDRESS",
           CASE outcome = "matches" -> "PASSED"
             [] outcome = "differs" -> "FAILED"
             [] outcome = "nothing on record" -> "PENDING")

\* Mutant of HoldForReview: the profile is not put in the queue.
HoldSilently(r) ==
    /\ At(r, "hold")
    /\ Go(r, "sync")
    /\ UNCHANGED <<details, profile, checks, rejected>>

\* The write that puts a held check in front of a reviewer.
HoldForReview(r) ==
    /\ At(r, "hold")
    /\ profile' = [profile EXCEPT !.status = "REQUIRES_REVIEW"]
    /\ Go(r, "sync")
    /\ UNCHANGED <<details, checks, rejected>>

\* uploadIdentityDocument: guards, then the transaction that supersedes the
\* documents there are.
BeginUpload(r) ==
    /\ At(r, "idle")
    /\ StateOf(checks["NIN"]) \notin {"missing", "failed"} /\ Level < 2
    /\ Go(r, "upload")
    /\ UNCHANGED <<details, profile, checks, rejected>>
UploadIdentityDocument(r) ==
    /\ At(r, "upload")
    /\ details' = details \cup {"document"}
    /\ profile' = Ensured
    /\ Go(r, "sync")
    /\ UNCHANGED <<checks, rejected>>

\* updateBasicInfo and updatePersonalDetails; nothing ever takes them back.
UpdateBasicInfo(r) ==
    /\ At(r, "idle")
    /\ details' = details \cup {"basic"}
    /\ Go(r, "sync")
    /\ UNCHANGED <<profile, checks, rejected>>

\* linkBankAccount, whose check no stage rests on.
LinkBankAccount(r) ==
    /\ At(r, "idle")
    /\ profile' = Ensured
    /\ Go(r, "sync")
    /\ UNCHANGED <<details, checks, rejected>>

\* TransactionPinService.setPin, which does not sync.
SetPin ==
    /\ details' = details \cup {"pin"}
    /\ UNCHANGED <<profile, checks, request, rejected>>

-----------------------------------------------------------------------------
(* The stored level follows the evidence.                                  *)

\* VERIFIED is written over any status but the one that waits for a reviewer.
MarksVerified(level, status) == level = 3 /\ status \notin {"REQUIRES_REVIEW", "VERIFIED"}

\* sync reads the evidence...
Evidence(r) == request' = [request EXCEPT ![r] = [at |-> "compare", level |-> Level]]
SyncRead(r) ==
    /\ At(r, "sync")
    /\ Evidence(r)
    /\ UNCHANGED <<details, profile, checks, rejected>>
\* ...or takes what status read, when it differs from the profile...
Status(r) ==
    /\ At(r, "idle")
    /\ profile.status # "absent" /\ profile.level # Level
    /\ Evidence(r)
    /\ UNCHANGED <<details, profile, checks, rejected>>

\* ...reads the profile next, which may have moved since, and ends if there is
\* nothing to change...
UpToDate(level) ==
    \/ profile.status = "absent" /\ level = 0
    \/ profile.status # "absent" /\ profile.level = level /\ ~MarksVerified(level, profile.status)
SyncCompare(r) ==
    /\ At(r, "compare")
    /\ IF UpToDate(request[r].level) THEN Finish(r)
       ELSE Go(r, IF profile.status = "absent" THEN "insert"
                  ELSE IF MarksVerified(request[r].level, profile.status) THEN "verify"
                  ELSE "update")
    /\ UNCHANGED <<details, profile, checks, rejected>>

\* ...and writes what it read.  The insert fails when a profile has appeared
\* since; the update names the row only.
Synced(at, level) ==
    IF at = "insert"
    THEN IF profile.status = "absent"
         THEN [status |-> "NOT_STARTED", level |-> level, restricted |-> FALSE]
         ELSE profile
    ELSE [profile EXCEPT !.level = level, !.status = IF at = "verify" THEN "VERIFIED" ELSE @]
SyncWrite(r) ==
    /\ request[r].at \in {"insert", "update", "verify"}
    /\ profile' = Synced(request[r].at, request[r].level)
    /\ Finish(r)
    /\ UNCHANGED <<details, checks, rejected>>

-----------------------------------------------------------------------------
(* Decisions of reviewers.                                                 *)

IsReviewable(status) == status \in {"PENDING", "REQUIRES_REVIEW"}

StatusAfter(decision) ==
    CASE decision = "APPROVE" -> "VERIFIED"
      [] decision = "REJECT" -> "REJECTED"
      [] decision \in {"REQUEST_INFORMATION", "ESCALATE"} -> "REQUIRES_REVIEW"

\* canGrantTier counts what has passed and what is held for this review.
CanGrant(tier) ==
    LET has(type) == \E i \in DOMAIN checks[type] : checks[type][i].status # "FAILED" IN
    /\ tier >= 2 => has("NIN") /\ "document" \in details
    /\ tier = 3 => has("ADDRESS")
ApprovedBy(tier) == CASE tier = 1 -> {} [] tier = 2 -> {"NIN"} [] tier = 3 -> {"NIN", "ADDRESS"}

\* What a decision makes of the checks that are held.
Passed(row) == [row EXCEPT !.status = "PASSED", !.recent = FALSE]
Failed(row) == [row EXCEPT !.status = "FAILED", !.failedBy = "reviewer"]
DecidedRow(row, type, decision, tier) ==
    IF decision = "APPROVE" /\ type \in ApprovedBy(tier) THEN Passed(row)
    ELSE IF decision \in {"REJECT", "REQUEST_INFORMATION"} THEN Failed(row)
    ELSE row
Decided(decision, tier) ==
    [t \in Types |-> [i \in DOMAIN checks[t] |->
        IF checks[t][i].status = "PENDING"
        THEN DecidedRow(checks[t][i], t, decision, tier)
        ELSE checks[t][i]]]

\* The level stored with a decision: the evidence as the decision leaves it,
\* whatever tier was named.
LevelAfter(cs, decision) ==
    CompletedLevel(details, cs, Restricted(profile) \/ decision = "REJECT")

Decide(decision, tier) ==
    /\ IsReviewable(profile.status)
    /\ decision = "APPROVE" => CanGrant(tier)
    /\ checks' = Decided(decision, tier)
    /\ profile' = [status |-> StatusAfter(decision),
                   level |-> LevelAfter(checks', decision),
                   restricted |-> profile.restricted \/ decision = "REJECT"]
    /\ rejected' = (rejected \/ decision = "REJECT")
    /\ UNCHANGED <<details, request>>

\* The window of the attempts moves on.
DayPasses ==
    /\ checks' = [t \in Types |-> [i \in DOMAIN checks[t] |-> [checks[t][i] EXCEPT !.recent = FALSE]]]
    /\ UNCHANGED <<details, profile, request, rejected>>

KycNext ==
    \/ \E r \in Requests :
        \/ \E kind \in Identity : VerifyIdentity(r, kind)
        \/ \E o \in {"failed", "flagged", "passed"} : IdentityAnswered(r, o)
        \/ VerifyAddress(r)
        \/ \E o \in {"matches", "differs", "nothing on record"} : AddressCompared(r, o)
        \/ HoldForReview(r)
        \/ BeginUpload(r) \/ UploadIdentityDocument(r)
        \/ UpdateBasicInfo(r)
        \/ LinkBankAccount(r)
        \/ SyncRead(r) \/ Status(r) \/ SyncCompare(r) \/ SyncWrite(r)
    \/ SetPin
    \/ \E tier \in 1 .. 3 : Decide("APPROVE", tier)
    \/ \E d \in {"REJECT", "REQUEST_INFORMATION", "ESCALATE"} : Decide(d, 1)
    \/ DayPasses

-----------------------------------------------------------------------------
(* Properties.                                                             *)

\* An account a reviewer has rejected does nothing a stage guards, ever again,
\* whatever is written over its status afterwards: by a sync that read the
\* evidence before the decision, by a refused attempt, by a held check or by
\* another review (readKycFacts looks at restrictedAt too).
RejectedStaysOut == rejected => Level = 0

\* An account tests no more numbers a day than the budget and the requests it
\* has in flight: each one passed assertAttemptsRemain before its provider
\* answered.
AttemptsBounded ==
    \A types \in {Identity, {"ADDRESS"}} :
        Cardinality({ti \in RecentFailures(types) : checks[ti[1]][ti[2]].failedBy = "provider"})
        <= MaxAttempts - 1 + Cardinality(Requests)

\* A stage that is shown as under review is one that a reviewer may decide,
\* now or once the request that holds the check goes on: the owner, who may not
\* submit again, waits for someone.  VERIFIED is the exception: an approval of
\* a lower tier leaves a held check behind.
UnderReviewIsInQueue ==
    \A stage \in 1 .. 3 : StageStatus(stage) = "under_review" =>
        \/ IsReviewable(profile.status) \/ profile.status = "VERIFIED"
        \/ \E r \in Requests : At(r, "hold")
=============================================================================
