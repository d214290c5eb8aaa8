------------------------------- MODULE Seeding -------------------------------
(***************************************************************************)
(* The development seed (prisma/seed): one process that writes rows one    *)
(* statement at a time, without a transaction around them, may be cut off  *)
(* between any two, and is run again.  Its ledger postings go straight to  *)
(* the tables, beside those of the application, which keeps running.       *)
(*                                                                         *)
(* A row is named for what it is; a loop runs over one representative, or  *)
(* over two where an earlier pass decides a later one.  An upsert that     *)
(* finds its row may write some of its fields again, statuses among them:  *)
(* only whether a row is there is told apart.                              *)
(***************************************************************************)
EXTENDS Ledger

CONSTANTS
    AppKeys,        \* keys the application posts under
    AppReferences,  \* references the application uses
    SeedAmount,     \* the amount of every seeded posting
    Payable, Available, Revenue, Expense,  \* accounts the seed moves money between
    MaxRuns         \* bound on how often the seed is started

VARIABLES
    rows,     \* the rows the seed has written
    todo,     \* the statements the running process has still to execute
    outcome,  \* what became of the last run
    started   \* how often the seed was started

seedVars == <<rows, todo, outcome, started>>

SeedKeys == {"adminOpening", "bisiCredit", "weekVolume", "weekFee",
             "adminFunding", "demoFunding", "demoReward"}

\* A seeded posting uses its key as its reference.
ASSUME SeedAssumption ==
    /\ AppKeys \cup SeedKeys \subseteq Keys
    /\ AppReferences \cup SeedKeys \subseteq References
    /\ SeedAmount \in Nat \ {0}
    /\ {Payable, Available, Revenue, Expense} \subseteq Accounts

\* Accounts debited and credited by each posting.
Debited(k) == CASE k = "weekFee" -> Available [] k = "demoReward" -> Expense [] OTHER -> Payable
Credited(k) == IF k = "weekFee" THEN Revenue ELSE Available

SeedInit == Init /\ rows = {} /\ todo = <<>> /\ outcome = "none" /\ started = 0

-----------------------------------------------------------------------------
(* Statements.                                                             *)

Upsert(r) == [do |-> "upsert", row |-> r]     \* or: find, and create when missing
Create(r) == [do |-> "create", row |-> r]     \* refused when the row is there
Delete(r) == [do |-> "remove", row |-> r]
Need(r) == [do |-> "need", row |-> r]         \* findUniqueOrThrow
PostOnce(k) == [do |-> "postOnce", key |-> k] \* upsert, or find by key and create
PostNew(k) == [do |-> "postNew", key |-> k]   \* refused when the key is used
If(r, there, missing) == [do |-> "if", row |-> r, there |-> there, missing |-> missing]

-----------------------------------------------------------------------------
(* The seeders.                                                            *)

SeedAccess == <<Upsert("permission"), Upsert("role"), Upsert("rolePermission")>>

SeedStaff ==
    <<Upsert("admin"), Upsert("operator"), Upsert("operatorRole"), Upsert("pendingUser"),
      Upsert("challenge"), Upsert("adminRole"), Upsert("adminKyc"), Upsert("coordinator"),
      Upsert("application")>>

SeedAccounts ==
    <<Upsert("contributionFee"), Upsert("billFee"), Need("admin"), Upsert("adminAccounts"),
      Upsert("payable"), Upsert("revenue")>>

SeedOpening == <<Need("adminAccounts"), Need("payable"), PostOnce("adminOpening"), Upsert("brand")>>

SeedFixtures ==
    <<Upsert("draftGroup"), Upsert("draftMember"), Upsert("draftSlots"), Upsert("draftProgramme"),
      Upsert("draftPackage"), Upsert("draftItems"), Upsert("rentGoal"), Upsert("rentSchedule")>>

\* Mutant of SeedAjoGroup: the members are looked at, who are written before.
SeedAjoGroupByMembers ==
    <<Upsert("group"),
      If("groupMember1",
         <<Upsert("groupMember1"), Upsert("groupMember2")>>,
         <<Upsert("groupMember1"), Create("groupSlot1"),
           Upsert("groupMember2"), Create("groupSlot2")>>)>>

\* seedAjoGroup: slots are counted once, before the members are walked through.
SeedAjoGroup ==
    <<Upsert("group"),
      If("groupSlot1",
         <<Upsert("groupMember1"), Upsert("groupMember2")>>,
         <<Upsert("groupMember1"), Create("groupSlot1"),
           Upsert("groupMember2"), Create("groupSlot2")>>)>>

SeedCycles == <<If("group", <<Upsert("cycles")>>, <<>>)>>

SeedAdminUsers ==
    <<Upsert("role"), Upsert("bisi"), Upsert("bisiRole"), Upsert("bisiProfile"), Upsert("bisiKyc"),
      Upsert("bisiWallet"), Need("bisiKyc"), Upsert("bisiChecks")>>

SeedAdminProducts ==
    <<Upsert("feesGoal"), Need("feesGoal"), Upsert("feesSchedule"), Upsert("programme"),
      Upsert("package"), Upsert("items"), Need("programme"), Need("package"), Upsert("subscription")>>

SeedAdminConsole ==
    <<Upsert("applications"), Upsert("percentageFee"), Upsert("withdrawalFee"), Upsert("catalogue"),
      Need("catalogue"), Need("bisiWallet"), Upsert("adminBills")>>

SeedAdminWallets ==
    <<Need("bisiWallet"), Upsert("bisiAvailable"), Need("payable"), PostOnce("bisiCredit"),
      Upsert("waitlist"), Upsert("inquiries")>>

SeedAdminDemo ==
    SeedAdminUsers \o SeedAdminProducts \o SeedAjoGroup \o SeedAdminConsole
      \o SeedAdminWallets \o SeedCycles

\* seedDashboardActivity, one week: nothing more is done once its fee is assessed.
SeedDashboardActivity ==
    <<Need("payable"), Need("revenue"),
      If("bisiWallet",
         <<Upsert("bisiAvailable"), PostOnce("weekVolume"),
           If("contributionFee",
              <<If("weekAssessment", <<>>, <<Create("weekAssessment"), PostOnce("weekFee")>>)>>,
              <<>>)>>,
         <<>>)>>

SeedDemoMembers ==
    <<Upsert("role"), Upsert("demo"), Upsert("demoAccounts"), Upsert("demoProfile"),
      Upsert("demoKyc"), Upsert("demoPin"), Upsert("demoIdentity"), Upsert("demoSlip"),
      Upsert("demoAddress")>>

SeedAjoDemo ==
    <<Need("demo"), Upsert("circle"), Upsert("circleMember"), Upsert("circleSlot"),
      Upsert("circleCycle"), Upsert("circleSchedule"), Upsert("circlePayout")>>

SeedAkawoDemo ==
    <<Need("demo"), Upsert("savingsGoal"), Upsert("saving"), Upsert("pool"), Upsert("poolMember"),
      Upsert("poolDue")>>

SeedFoodDemo ==
    <<Need("demo"), Upsert("basket"), Upsert("basketPackage"), Upsert("basketItems"),
      Upsert("basketSubscription")>>

SeedBillsDemo == <<Upsert("catalogue"), If("demo", <<Need("catalogue"), Upsert("demoBill")>>, <<>>)>>

\* seedWalletFunding, for a seeded wallet: accounts, then one opening balance.
FundWallet(user, accounts, k) == If(user, <<Upsert(accounts), PostOnce(k)>>, <<>>)

SeedWalletFunding ==
    <<If("payable",
         <<FundWallet("admin", "adminAccounts", "adminFunding"),
           FundWallet("demo", "demoAccounts", "demoFunding")>>,
         <<>>)>>

SeedAjoGovernance ==
    <<If("draftSlots",
         <<Upsert("version1"), Upsert("version2"), Upsert("invitation"), Upsert("referralCode"),
           Upsert("openSwap"), Upsert("doneSwap"), Upsert("swapApproval")>>,
         <<>>)>>

SeedIdentityAndCompliance ==
    <<If("admin",
         <<Upsert("consents"), Upsert("bank"), Upsert("pin"), Upsert("openReview"),
           Upsert("doneReview"), Upsert("coordinatorReview"), Upsert("auditTrail")>>,
         <<>>)>>

\* upsertTiered: the bands are deleted and written anew.
SeedFees == <<Upsert("tieredFee"), Delete("tiers"), Create("tiers")>>

SeedNotifications ==
    <<If("admin", <<Upsert("preferences"), Upsert("notification"), Upsert("delivery")>>, <<>>)>>

SeedReferrals ==
    <<If("admin",
         <<If("bisi",
              <<Upsert("campaign"), Upsert("rewarded"), Upsert("qualification"),
                Upsert("releasedReward"), Upsert("pendingReferral")>>,
              <<>>)>>,
         <<>>)>>

\* Mutant of SeedReferralsDemo: the reward row is written before its posting.
SeedRewardFirst ==
    <<Need("demo"), Upsert("demoCampaign"), Upsert("expense"), Upsert("demoReferral"),
      If("demoAccounts",
         <<If("demoReward", <<>>, <<Create("demoReward"), PostNew("demoReward")>>)>>,
         <<>>)>>

\* seedReferralsDemo: a reward that is missing is posted and then written.
SeedReferralsDemo ==
    <<Need("demo"), Upsert("demoCampaign"), Upsert("expense"), Upsert("demoReferral"),
      If("demoAccounts",
         <<If("demoReward", <<>>, <<PostNew("demoReward"), Create("demoReward")>>)>>,
         <<>>)>>

\* The order of runSeed.
Statements ==
    SeedAccess \o SeedStaff \o SeedAccounts \o SeedOpening \o SeedFixtures
      \o SeedAdminDemo \o SeedDashboardActivity
      \o SeedDemoMembers \o SeedAjoDemo \o SeedAkawoDemo \o SeedFoodDemo \o SeedBillsDemo
      \o SeedWalletFunding \o SeedAjoGovernance \o SeedIdentityAndCompliance \o SeedFees
      \o SeedNotifications \o SeedReferrals \o SeedReferralsDemo

-----------------------------------------------------------------------------
(* The process.                                                            *)

RunSeed ==
    /\ outcome # "running"
    /\ started < MaxRuns
    /\ outcome' = "running"
    /\ todo' = Statements
    /\ started' = started + 1
    /\ UNCHANGED <<rows, row>>

\* The process goes on with what follows; runSeed ends after the last.
GoOn(rest) ==
    /\ todo' = rest
    /\ outcome' = IF rest = <<>> THEN "finished" ELSE "running"

\* A statement throws: runSeed rejects and nothing is undone.
Refused ==
    /\ outcome' = "refused"
    /\ todo' = <<>>

WriteRow(s) ==
    /\ s.do \in {"upsert", "create", "remove"}
    /\ IF s.do = "create" /\ s.row \in rows
       THEN Refused /\ UNCHANGED <<rows, row>>
       ELSE /\ rows' = IF s.do = "remove" THEN rows \ {s.row} ELSE rows \cup {s.row}
            /\ GoOn(Tail(todo))
            /\ UNCHANGED row

ReadRow(s) ==
    /\ s.do \in {"need", "if"}
    /\ CASE s.do = "need" /\ s.row \notin rows -> Refused
         [] s.do = "need" /\ s.row \in rows -> GoOn(Tail(todo))
         [] s.do = "if" -> GoOn((IF s.row \in rows THEN s.there ELSE s.missing) \o Tail(todo))
    /\ UNCHANGED <<rows, row>>

SeedEntries(k) ==
    <<[account |-> Debited(k), direction |-> "DEBIT", amount |-> SeedAmount],
      [account |-> Credited(k), direction |-> "CREDIT", amount |-> SeedAmount]>>

PostRow(s) ==
    /\ s.do \in {"postOnce", "postNew"}
    /\ UNCHANGED rows
    /\ \/ /\ row[s.key].status = "none"
          /\ row' = [row EXCEPT ![s.key] = [status |-> "POSTED", reference |-> s.key,
                                            entries |-> SeedEntries(s.key), reversalOf |-> None]]
          /\ GoOn(Tail(todo))
       \/ /\ row[s.key].status # "none"
          /\ UNCHANGED row
          /\ IF s.do = "postOnce" THEN GoOn(Tail(todo)) ELSE Refused

Execute ==
    /\ outcome = "running"
    /\ UNCHANGED started
    /\ \/ WriteRow(Head(todo))
       \/ ReadRow(Head(todo))
       \/ PostRow(Head(todo))

\* The process is killed, or the database goes away.
Cut ==
    /\ outcome = "running"
    /\ outcome' = "cut"
    /\ todo' = <<>>
    /\ UNCHANGED <<rows, row, started>>

\* The application posts, and may reverse what the seed posted.
Application ==
    /\ UNCHANGED seedVars
    /\ \E k \in AppKeys, reference \in AppReferences :
         \/ \E entries \in Commands : Post(k, reference, entries)
         \/ \E original \in Keys : ReverseTransaction(original, k, reference)

SeedNext == RunSeed \/ Execute \/ Cut \/ Application

SeedSpec == SeedInit /\ [][SeedNext]_<<vars, seedVars>>

-----------------------------------------------------------------------------
(* Properties.                                                             *)

\* What a finished run has written.
SeededRows ==
    {"group", "groupMember1", "groupMember2", "groupSlot1", "groupSlot2", "cycles",
     "adminAccounts", "bisiAvailable", "demoAccounts", "weekAssessment", "poolDue",
     "basketSubscription", "demoBill", "swapApproval", "auditTrail", "tiers", "delivery",
     "pendingReferral", "demoReward"}

\* "Posted before the reward row is written, so the reward always names a
\* transaction that exists" (seedReferralsDemo), however often the seed is
\* cut off, started again and overtaken by the application's own postings.
RewardIsPosted == "demoReward" \in rows => row["demoReward"].status # "none"

\* "the seed must be safe to re-run" (prisma/seed/seeders/README.md).  What
\* a cut can leave behind for good is exactly this: a group whose later
\* members have no slot, a fee that was assessed and never posted, and a
\* reward that was posted and never written, which refuses every later run.
\* Everything else is there once a run has finished.
CutsHeal ==
    /\ outcome = "finished" =>
         /\ SeededRows \ rows \subseteq {"groupSlot2"}
         /\ {k \in SeedKeys : row[k].status = "none"} \subseteq {"weekFee"}
    /\ outcome = "refused" => row["demoReward"].status # "none" /\ "demoReward" \notin rows
    /\ started = 1 /\ outcome = "finished" =>
         SeededRows \subseteq rows /\ \A k \in SeedKeys : row[k].status # "none"
=============================================================================
