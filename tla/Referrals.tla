------------------------------ MODULE Referrals ------------------------------
(***************************************************************************)
(* Referral rewards: a settled deposit of a referred user may earn the     *)
(* referrer a reward, and the reversal of that deposit claws it back.      *)
(*                                                                         *)
(*   ReferralsService.onDepositSettled / awardWithin                       *)
(*   ReferralsService.onDepositReversed                                    *)
(*                                                                         *)
(* onDepositSettled reads the referral before its transaction opens;       *)
(* onDepositReversed calls LedgerService.reverse, which commits a          *)
(* transaction of its own inside the outer one.  Nothing under src/ calls  *)
(* onDepositReversed yet: Undo stands for the caller the ADR expects.      *)
(* Fraud controls, KYC tier, currency and minimum are one verdict, given   *)
(* by the environment for each deposit; the cap is modelled.               *)
(***************************************************************************)
EXTENDS Integers, FiniteSets

CONSTANTS
    Referrals,   \* referral rows, each with its referred user
    ReferrerOf,  \* referrerUserId
    Deposits,    \* payment intents of referred users
    ReferralOf,  \* the referral whose referred user made the deposit
    CampaignOf,  \* campaignId of the referral; Unbound as sign-up creates it
    Campaigns,   \* campaign versions, which come into force one after the other
    MaxRewards,  \* maximumRewards
    MaxDrops,    \* bound on crashes and failed calls
    Unbound

ASSUME ReferralAssumption ==
    /\ Campaigns \subseteq Nat
    /\ IsFiniteSet(Campaigns) /\ IsFiniteSet(Referrals)
    /\ 1 \in Campaigns
    /\ ReferralOf \in [Deposits -> Referrals]
    /\ CampaignOf \in [Referrals -> Campaigns \cup {Unbound}]
    /\ Unbound \notin Campaigns
    /\ MaxRewards \in Nat
    /\ MaxDrops \in Nat

VARIABLES
    status,         \* status of each referral
    reward,         \* referral_rewards, by idempotency key
    posting,        \* the ledger transaction of each reward
    qualification,  \* referral_qualifications, by deposit
    current,        \* the campaign in force (external)
    award,          \* local state of onDepositSettled, by deposit
    undone,         \* deposits the provider has reversed (external)
    clawback,       \* local state of onDepositReversed, by deposit
    referenceUsed,  \* whether some reversal already took the reference
    drops

referralVars == <<status, reward, posting, qualification, current, award, undone,
                  clawback, referenceUsed, drops>>

ReferralsOK ==
    /\ status \in [Referrals -> {"PENDING", "REWARDED", "REJECTED"}]
    /\ reward \in [Referrals -> [Campaigns -> {"none", "RELEASED", "REVERSED"}]]
    /\ posting \in [Referrals -> [Campaigns -> {"none", "POSTED", "REVERSED"}]]
    /\ qualification \in [Deposits -> {"none", "open", "reversed"}]
    /\ current \in Campaigns
    /\ award \in [Deposits -> [pc: {"none", "read", "award", "done"}, campaign: Campaigns]]
    /\ undone \subseteq Deposits
    /\ clawback \in [Deposits -> [pc: {"idle", "reverse", "mark"}, campaign: Campaigns]]
    /\ referenceUsed \in BOOLEAN
    /\ drops \in Nat

ReferralsInit ==
    /\ status = [r \in Referrals |-> "PENDING"]
    /\ reward = [r \in Referrals |-> [c \in Campaigns |-> "none"]]
    /\ posting = [r \in Referrals |-> [c \in Campaigns |-> "none"]]
    /\ qualification = [d \in Deposits |-> "none"]
    /\ current = 1
    /\ award = [d \in Deposits |-> [pc |-> "none", campaign |-> 1]]
    /\ undone = {}
    /\ clawback = [d \in Deposits |-> [pc |-> "idle", campaign |-> 1]]
    /\ referenceUsed = FALSE
    /\ drops = 0

-----------------------------------------------------------------------------
(* onDepositSettled.                                                       *)

\* A new version comes into force; an operator's data change.
NewCampaign ==
    /\ current + 1 \in Campaigns
    /\ current' = current + 1
    /\ UNCHANGED <<status, reward, posting, qualification, award, undone, clawback,
                   referenceUsed, drops>>

\* eligibleCampaign: the referral's own, else the one in force at occurredAt.
EligibleCampaign(r) == IF CampaignOf[r] # Unbound THEN CampaignOf[r] ELSE current

\* The deposit commits, and settleSuccessful starts onDepositSettled with
\* the time as occurredAt.
DepositSettled(d) ==
    /\ award[d].pc = "none"
    /\ award' = [award EXCEPT ![d] = [pc |-> "read", campaign |-> EligibleCampaign(ReferralOf[d])]]
    /\ UNCHANGED <<status, reward, posting, qualification, current, undone, clawback,
                   referenceUsed, drops>>

\* The referral is read outside any transaction: one that was rewarded or
\* refused is not considered again.
ReadReferral(d) ==
    /\ award[d].pc = "read"
    /\ award' = [award EXCEPT ![d].pc =
                    IF status[ReferralOf[d]] = "PENDING" THEN "award" ELSE "done"]
    /\ UNCHANGED <<status, reward, posting, qualification, current, undone, clawback,
                   referenceUsed, drops>>

\* releasedRewardCount: rewards of referrals bound to the campaign.
CountedRewards(referrer, c) ==
    {row \in Referrals \X Campaigns :
        /\ reward[row[1]][row[2]] = "RELEASED"
        /\ ReferrerOf[row[1]] = referrer
        /\ CampaignOf[row[1]] = c}

\* Mutant of IsUnderCap: off by one.
IsAtMostCap(r, c) == Cardinality(CountedRewards(ReferrerOf[r], c)) <= MaxRewards

IsUnderCap(r, c) == Cardinality(CountedRewards(ReferrerOf[r], c)) < MaxRewards

\* awardWithin, "already awarded": the reward of this referral under this
\* version exists.
AlreadyAwarded(d) ==
    /\ award[d].pc = "award"
    /\ reward[ReferralOf[d]][award[d].campaign] # "none"
    /\ award' = [award EXCEPT ![d].pc = "done"]
    /\ UNCHANGED <<status, reward, posting, qualification, current, undone, clawback,
                   referenceUsed, drops>>

\* awardWithin, a refusal: by the verdict on the deposit or by the cap.
Refuse(d) ==
    /\ award[d].pc = "award"
    /\ reward[ReferralOf[d]][award[d].campaign] = "none"
    /\ status' = [status EXCEPT ![ReferralOf[d]] = "REJECTED"]
    /\ award' = [award EXCEPT ![d].pc = "done"]
    /\ UNCHANGED <<reward, posting, qualification, current, undone, clawback,
                   referenceUsed, drops>>

\* Mutant of Grant: the reward is paid without recording what earned it.
GrantUnqualified(d) ==
    LET r == ReferralOf[d]  c == award[d].campaign IN
      /\ award[d].pc = "award"
      /\ reward[r][c] = "none"
      /\ IsUnderCap(r, c)
      /\ posting' = [posting EXCEPT ![r][c] = "POSTED"]
      /\ reward' = [reward EXCEPT ![r][c] = "RELEASED"]
      /\ status' = [status EXCEPT ![r] = "REWARDED"]
      /\ award' = [award EXCEPT ![d].pc = "done"]
      /\ UNCHANGED <<qualification, current, undone, clawback, referenceUsed, drops>>

\* awardWithin, the award: qualification, posting, reward and referral in one
\* serializable transaction.
Grant(d) ==
    LET r == ReferralOf[d]  c == award[d].campaign IN
      /\ award[d].pc = "award"
      /\ reward[r][c] = "none"
      /\ IsUnderCap(r, c)
      /\ qualification' = [qualification EXCEPT ![d] = "open"]
      /\ posting' = [posting EXCEPT ![r][c] = "POSTED"]
      /\ reward' = [reward EXCEPT ![r][c] = "RELEASED"]
      /\ status' = [status EXCEPT ![r] = "REWARDED"]
      /\ award' = [award EXCEPT ![d].pc = "done"]
      /\ UNCHANGED <<current, undone, clawback, referenceUsed, drops>>

\* The call throws or the process dies: "recorded and dropped".
AwardDropped(d) ==
    /\ award[d].pc \in {"read", "award"}
    /\ drops < MaxDrops
    /\ drops' = drops + 1
    /\ award' = [award EXCEPT ![d].pc = "done"]
    /\ UNCHANGED <<status, reward, posting, qualification, current, undone, clawback,
                   referenceUsed>>

-----------------------------------------------------------------------------
(* onDepositReversed.                                                      *)

\* The provider undoes a deposit (external).
Undo(d) ==
    /\ award[d].pc # "none"
    /\ d \notin undone
    /\ undone' = undone \cup {d}
    /\ UNCHANGED <<status, reward, posting, qualification, current, award, clawback,
                   referenceUsed, drops>>

\* The qualification is read, then a RELEASED reward of its referral.
BeginClawback(d, c) ==
    /\ d \in undone
    /\ clawback[d].pc = "idle"
    /\ qualification[d] = "open"
    /\ reward[ReferralOf[d]][c] = "RELEASED"
    /\ clawback' = [clawback EXCEPT ![d] = [pc |-> "reverse", campaign |-> c]]
    /\ UNCHANGED <<status, reward, posting, qualification, current, award, undone,
                   referenceUsed, drops>>

\* ledger.reverse, committed on its own.  It throws when the reward's
\* transaction is not POSTED, and when its reference, the same text for
\* every reward, was used before.
ReversePosting(d) ==
    LET r == ReferralOf[d]  c == clawback[d].campaign IN
      /\ clawback[d].pc = "reverse"
      /\ \/ /\ posting[r][c] = "POSTED" /\ ~referenceUsed
            /\ posting' = [posting EXCEPT ![r][c] = "REVERSED"]
            /\ referenceUsed' = TRUE
            /\ clawback' = [clawback EXCEPT ![d].pc = "mark"]
         \/ /\ posting[r][c] # "POSTED" \/ referenceUsed
            /\ clawback' = [clawback EXCEPT ![d].pc = "idle"]
            /\ UNCHANGED <<posting, referenceUsed>>
      /\ UNCHANGED <<status, reward, qualification, current, award, undone, drops>>

\* The rest of the outer transaction.
MarkReversed(d) ==
    LET r == ReferralOf[d] IN
      /\ clawback[d].pc = "mark"
      /\ reward' = [reward EXCEPT ![r][clawback[d].campaign] = "REVERSED"]
      /\ qualification' = [qualification EXCEPT ![d] = "reversed"]
      /\ status' = [status EXCEPT ![r] = "REJECTED"]
      /\ clawback' = [clawback EXCEPT ![d].pc = "idle"]
      /\ UNCHANGED <<posting, current, award, undone, referenceUsed, drops>>

\* The outer transaction rolls back after the inner one has committed, or the
\* process dies.
ClawbackFault(d) ==
    /\ clawback[d].pc # "idle"
    /\ drops < MaxDrops
    /\ drops' = drops + 1
    /\ clawback' = [clawback EXCEPT ![d].pc = "idle"]
    /\ UNCHANGED <<status, reward, posting, qualification, current, award, undone,
                   referenceUsed>>

-----------------------------------------------------------------------------
AwardStep(d) == ReadReferral(d) \/ AlreadyAwarded(d) \/ Refuse(d) \/ Grant(d)
ClawbackStep(d) ==
    \/ \E c \in Campaigns : BeginClawback(d, c)
    \/ ReversePosting(d)
    \/ MarkReversed(d)

ReferralsNext ==
    \/ NewCampaign
    \/ \E d \in Deposits : \/ DepositSettled(d) \/ AwardStep(d) \/ AwardDropped(d)
                           \/ Undo(d) \/ ClawbackStep(d) \/ ClawbackFault(d)

ReferralsSpec == ReferralsInit /\ [][ReferralsNext]_referralVars

-----------------------------------------------------------------------------
(* Properties.                                                             *)

Rewarded(referrer, c) ==
    {r \in Referrals : reward[r][c] = "RELEASED" /\ ReferrerOf[r] = referrer}

\* The cap as the code keeps it, for the referrals bound to the campaign:
\* deposits that settle at once, before or after clawbacks, never leave more
\* than maximumRewards of them standing (releasedRewardCount).
BoundCapHeld ==
    \A r \in Referrals, c \in Campaigns :
        Cardinality({s \in Rewarded(ReferrerOf[r], c) : CampaignOf[s] = c}) <= MaxRewards

\* "a reward can always be traced to the settled activity that earned it":
\* a reward that stands has a qualification that stands.
RewardsTraceable ==
    \A r \in Referrals : (\E c \in Campaigns : reward[r][c] = "RELEASED")
        => \E d \in Deposits : ReferralOf[d] = r /\ qualification[d] = "open"
=============================================================================
