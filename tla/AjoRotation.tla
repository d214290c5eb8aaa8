---------------------------- MODULE AjoRotation ----------------------------
(***************************************************************************)
(* The money of one locked Ajo group: contributions from the members'      *)
(* wallets into the group's pool, payouts from the pool to the slot whose  *)
(* turn it is, and slot swaps, which publish a new version of the payout   *)
(* schedule.                                                               *)
(*                                                                         *)
(*   AjoSettlementService.payContribution / recordContributionWithin /     *)
(*     executePayout / settlePayout                                        *)
(*   PaymentsService.create / settleFromWallet with AjoContributionTarget  *)
(*   AjoSwapsService.create / approve / reject / execute                   *)
(*                                                                         *)
(* Slots are named by their position and cycles by their sequence.  Every  *)
(* serializable transaction is one action; the HELD status of a refused    *)
(* payout is written after its transaction rolled back, in a step of its   *)
(* own.  Members stay ACTIVE: nothing under src/ changes a membership of a *)
(* locked group.  The expiry of an intent is left to Deposits.             *)
(***************************************************************************)
EXTENDS Integers, Sequences, FiniteSets, Functions

CONSTANTS
    N,          \* slots of the group, hence cycles of the rotation
    Due,        \* contributionAmountMinor
    Members,
    Admin,      \* the GROUP_ADMIN
    OwnerOf,    \* the member holding each slot
    Opening,    \* what each member's wallet holds at first
    Keys,       \* idempotency keys of direct contributions
    Intents,    \* payment intents for a contribution
    Executors,  \* concurrent executePayout requests
    Swaps       \* swap requests ever made

Slots == 1..N
Cycles == 1..N

ASSUME GroupAssumption ==
    /\ N \in Nat /\ N >= 2
    /\ Due \in Nat \ {0}
    /\ Admin \in Members
    /\ OwnerOf \in [Slots -> Members]
    /\ Opening \in [Members -> Nat]
    /\ Keys \cap Intents = {}

VARIABLES
    collected,      \* contribution_schedules: what each slot paid per cycle
    contributions,  \* contributions
    intent,         \* payment_intents of type AJO_CONTRIBUTION
    wallet,         \* ledger balance of each member's available account
    pool,           \* ledger balance of AJO_GROUP_POOL
    rotation,       \* payout_schedules: for each version, the row of each cycle
    payouts,        \* payouts, one for each payout schedule at most
    swap,           \* swap_requests with their approvals
    executor        \* local state of executePayout requests

money == <<collected, contributions, wallet, pool>>
vars == <<collected, contributions, intent, wallet, pool, rotation, payouts, swap, executor>>

ScheduleStatus == {"PENDING", "DUE", "PARTIALLY_PAID", "PAID", "OVERDUE", "WAIVED", "CANCELLED"}
PayoutScheduleStatus == {"PENDING", "READY", "PROCESSING", "PAID", "HELD", "FAILED", "CANCELLED"}
Contribution == [cycle: Cycles, slot: Slots, key: Keys \cup Intents, amount: Nat]
Intent == [status: {"none", "REQUIRES_CONFIRMATION", "SUCCEEDED"},
           cycle: Cycles, slot: Slots, amount: Nat]
Turn == [slot: Slots, status: PayoutScheduleStatus]
Payout == [version: Nat \ {0}, cycle: Cycles, slot: Slots]
Swap == [status: {"none", "PENDING", "REJECTED", "EXPIRED", "EXECUTED"},
         from: Slots, to: Slots, version: Nat, approved: SUBSET Members, expired: BOOLEAN]
Executor == [pc: {"idle", "hold"}, version: Nat, cycle: Cycles]

TypeOK ==
    /\ collected \in [Cycles -> [Slots -> [paid: Nat, status: ScheduleStatus]]]
    /\ contributions \subseteq Contribution
    /\ intent \in [Intents -> Intent]
    /\ wallet \in [Members -> Nat]
    /\ pool \in Nat
    /\ rotation \in Seq([Cycles -> Turn])
    /\ payouts \subseteq Payout
    /\ swap \in [Swaps -> Swap]
    /\ executor \in [Executors -> Executor]

\* generateRotationSchedule: the slots take their turns in order of position.
FirstRotation == [c \in Cycles |-> [slot |-> c, status |-> "PENDING"]]

\* payoutAmountMinor.
PayoutAmount == Due * N

\* The rows AjoGroupsService.lock creates.
Init ==
    /\ collected = [c \in Cycles |-> [s \in Slots |-> [paid |-> 0, status |-> "PENDING"]]]
    /\ contributions = {}
    /\ intent = [i \in Intents |-> [status |-> "none", cycle |-> 1, slot |-> 1, amount |-> 0]]
    /\ wallet = Opening
    /\ pool = 0
    /\ rotation = <<FirstRotation>>
    /\ payouts = {}
    /\ swap = [x \in Swaps |-> [status |-> "none", from |-> 1, to |-> 1, version |-> 0,
                                approved |-> {}, expired |-> FALSE]]
    /\ executor = [e \in Executors |-> [pc |-> "idle", version |-> 1, cycle |-> 1]]

-----------------------------------------------------------------------------
(* Contributions.                                                          *)

\* contributionScheduleStatusFor; the clock decides only when nothing is paid.
StatusFor(paid) ==
    IF paid >= Due THEN "PAID" ELSE IF paid > 0 THEN "PARTIALLY_PAID" ELSE "DUE"

IsCollectable(c, s) == collected[c][s].status \notin {"CANCELLED", "WAIVED"}

\* assertContributionAmount and partialAmount.
IsOwed(c, s, a) == a > 0 /\ a <= Due - collected[c][s].paid

\* recordContributionWithin and the posting it records.
Record(c, s, k, a) ==
    /\ contributions' = contributions \cup {[cycle |-> c, slot |-> s, key |-> k, amount |-> a]}
    /\ collected' = [collected EXCEPT ![c][s] =
                        [paid |-> @.paid + a, status |-> StatusFor(@.paid + a)]]
    /\ wallet' = [wallet EXCEPT ![OwnerOf[s]] = @ - a]
    /\ pool' = pool + a

\* payContribution, by the slot's owner.  A known key returns its
\* contribution and writes nothing.
PayContribution(c, s, k, a) ==
    /\ \A d \in contributions : <<d.cycle, d.slot, d.key>> # <<c, s, k>>
    /\ IsCollectable(c, s)
    /\ IsOwed(c, s, a)
    /\ wallet[OwnerOf[s]] >= a
    /\ Record(c, s, k, a)
    /\ UNCHANGED <<intent, rotation, payouts, swap, executor>>

\* PaymentsService.create: the amount is fixed on what is owed now.
CreateIntent(i, c, s, a) ==
    /\ intent[i].status = "none"
    /\ IsCollectable(c, s)
    /\ IsOwed(c, s, a)
    /\ intent' = [intent EXCEPT ![i] =
                    [status |-> "REQUIRES_CONFIRMATION", cycle |-> c, slot |-> s, amount |-> a]]
    /\ UNCHANGED <<money, rotation, payouts, swap, executor>>

\* Mutant of ConfirmIntent: the amount is not resolved again.
ConfirmQuoted(i) ==
    /\ intent[i].status = "REQUIRES_CONFIRMATION"
    /\ LET c == intent[i].cycle  s == intent[i].slot  a == intent[i].amount IN
         /\ wallet[OwnerOf[s]] >= a
         /\ Record(c, s, i, a)
    /\ intent' = [intent EXCEPT ![i].status = "SUCCEEDED"]
    /\ UNCHANGED <<rotation, payouts, swap, executor>>

\* settleFromWallet: resolved again inside the transaction that pays.
ConfirmIntent(i) ==
    /\ intent[i].status = "REQUIRES_CONFIRMATION"
    /\ LET c == intent[i].cycle  s == intent[i].slot  a == intent[i].amount IN
         /\ IsCollectable(c, s)
         /\ IsOwed(c, s, a)
         /\ wallet[OwnerOf[s]] >= a
         /\ Record(c, s, i, a)
    /\ intent' = [intent EXCEPT ![i].status = "SUCCEEDED"]
    /\ UNCHANGED <<rotation, payouts, swap, executor>>

-----------------------------------------------------------------------------
(* Payouts.                                                                *)

IsOutstanding(status) == status \in {"PENDING", "DUE", "PARTIALLY_PAID", "OVERDUE"}

\* Mutant of IsFullyCollected: what the recipient owes is not looked at.
IsMostlyCollected(c) == \A s \in Slots \ {N} : ~IsOutstanding(collected[c][s].status)

\* isCycleFullyCollected.
IsFullyCollected(c) == \A s \in Slots : ~IsOutstanding(collected[c][s].status)

IsExecutable(v, c) ==
    /\ \A p \in payouts : <<p.version, p.cycle>> # <<v, c>>
    /\ rotation[v][c].status \in {"PENDING", "READY", "HELD"}

PayOut(v, c) ==
    LET s == rotation[v][c].slot IN
      /\ pool' = pool - PayoutAmount
      /\ wallet' = [wallet EXCEPT ![OwnerOf[s]] = @ + PayoutAmount]
      /\ payouts' = payouts \cup {[version |-> v, cycle |-> c, slot |-> s]}
      /\ rotation' = [rotation EXCEPT ![v][c].status = "PAID"]

\* Mutant of SettlePayout: the payout's key is not looked up.
SettleByStatus(v, c) ==
    /\ rotation[v][c].status \in {"PENDING", "READY", "HELD"}
    /\ IsFullyCollected(c)
    /\ pool >= PayoutAmount
    /\ PayOut(v, c)
    /\ UNCHANGED <<collected, contributions, intent, swap, executor>>

\* settlePayout.  A known payout is returned; any other status throws.
SettlePayout(v, c) ==
    /\ IsExecutable(v, c)
    /\ IsFullyCollected(c)
    /\ pool >= PayoutAmount
    /\ PayOut(v, c)
    /\ UNCHANGED <<collected, contributions, intent, swap, executor>>

\* settlePayout throws PayoutHeldError and its transaction rolls back.
RefusePayout(e, v, c) ==
    /\ executor[e].pc = "idle"
    /\ IsExecutable(v, c)
    /\ ~IsFullyCollected(c) \/ pool < PayoutAmount
    /\ executor' = [executor EXCEPT ![e] = [pc |-> "hold", version |-> v, cycle |-> c]]
    /\ UNCHANGED <<money, intent, rotation, payouts, swap>>

\* executePayout, the update after the rollback, by id alone.
Hold(e) ==
    /\ executor[e].pc = "hold"
    /\ rotation' = [rotation EXCEPT ![executor[e].version][executor[e].cycle].status = "HELD"]
    /\ executor' = [executor EXCEPT ![e].pc = "idle"]
    /\ UNCHANGED <<money, intent, payouts, swap>>

\* The process dies before the update.
HoldLost(e) ==
    /\ executor[e].pc = "hold"
    /\ executor' = [executor EXCEPT ![e].pc = "idle"]
    /\ UNCHANGED <<money, intent, rotation, payouts, swap>>

-----------------------------------------------------------------------------
(* Swaps.                                                                  *)

Version == Len(rotation)

Affects(x, s) == swap[x].status = "PENDING" /\ s \in {swap[x].from, swap[x].to}

\* assertPayoutAllowsSwap.
HasStarted(s) ==
    \E c \in Cycles : /\ rotation[Version][c].slot = s
                      /\ rotation[Version][c].status \in {"PROCESSING", "PAID", "FAILED", "CANCELLED"}

\* AjoSwapsService.create.
RequestSwap(x, m, from, to) ==
    /\ swap[x].status = "none"
    /\ from # to
    /\ m = Admin \/ m = OwnerOf[from]
    /\ \A y \in Swaps, s \in {from, to} : ~Affects(y, s)
    /\ \A s \in {from, to} : /\ ~HasStarted(s)
                             /\ \A c \in Cycles : collected[c][s].status # "OVERDUE"
    /\ swap' = [swap EXCEPT ![x] = [status |-> "PENDING", from |-> from, to |-> to,
                                    version |-> Version, approved |-> {}, expired |-> FALSE]]
    /\ UNCHANGED <<money, intent, rotation, payouts, executor>>

\* The clock passes expiresAt, 72 hours after the request.
ExpireSwap(x) ==
    /\ swap[x].status = "PENDING"
    /\ ~swap[x].expired
    /\ swap' = [swap EXCEPT ![x].expired = TRUE]
    /\ UNCHANGED <<money, intent, rotation, payouts, executor>>

\* requirePending.  For an expired request it writes EXPIRED and throws,
\* which rolls the write back: the call changes nothing.
IsPending(x) == swap[x].status = "PENDING" /\ ~swap[x].expired

Owners(x) == {OwnerOf[swap[x].from], OwnerOf[swap[x].to]}

Swapped(x, s) ==
    IF s = swap[x].from THEN swap[x].to ELSE IF s = swap[x].to THEN swap[x].from ELSE s

\* approve, while another owner's approval is missing.
Approve(x, m) ==
    /\ IsPending(x)
    /\ m \in Owners(x)
    /\ ~(Owners(x) \subseteq swap[x].approved \cup {m})
    /\ swap' = [swap EXCEPT ![x].approved = @ \cup {m}]
    /\ UNCHANGED <<money, intent, rotation, payouts, executor>>

\* approve by the last owner, with execute: the whole payout schedule is
\* copied into a new version, every row PENDING.
ExecuteSwap(x, m) ==
    /\ IsPending(x)
    /\ m \in Owners(x)
    /\ Owners(x) \subseteq swap[x].approved \cup {m}
    /\ swap[x].version = Version
    /\ rotation' = Append(rotation,
                     [c \in Cycles |-> [slot |-> Swapped(x, rotation[Version][c].slot),
                                        status |-> "PENDING"]])
    /\ swap' = [swap EXCEPT ![x].approved = @ \cup {m}, ![x].status = "EXECUTED"]
    /\ UNCHANGED <<money, intent, payouts, executor>>

Reject(x, m) ==
    /\ IsPending(x)
    /\ m \in Owners(x) \cup {Admin}
    /\ swap' = [swap EXCEPT ![x].approved = @ \ {m}, ![x].status = "REJECTED"]
    /\ UNCHANGED <<money, intent, rotation, payouts, executor>>

-----------------------------------------------------------------------------
Next ==
    \/ \E c \in Cycles, s \in Slots, a \in 1..Due :
         \/ \E k \in Keys : PayContribution(c, s, k, a)
         \/ \E i \in Intents : CreateIntent(i, c, s, a)
    \/ \E i \in Intents : ConfirmIntent(i)
    \/ \E v \in 1..Version, c \in Cycles :
         SettlePayout(v, c) \/ \E e \in Executors : RefusePayout(e, v, c)
    \/ \E e \in Executors : Hold(e) \/ HoldLost(e)
    \/ \E x \in Swaps, m \in Members :
         \/ \E from, to \in Slots : RequestSwap(x, m, from, to)
         \/ Approve(x, m) \/ ExecuteSwap(x, m) \/ Reject(x, m)
    \/ \E x \in Swaps : ExpireSwap(x)

Spec == Init /\ [][Next]_vars

-----------------------------------------------------------------------------
(* Properties.                                                             *)

Total(rows) == SumFunctionOnSet([d \in rows |-> d.amount], rows)

\* No float: the pool holds exactly the contributions not yet paid out, so no
\* payout, however often it is requested, refused, held and requested again,
\* is made twice or from money that is not there.
PoolIsContributionsLessPayouts ==
    pool = Total(contributions) - PayoutAmount * Cardinality(payouts)

\* "a schedule cannot claim to be paid while it is short": what a schedule
\* says was paid is what its contributions add up to, whichever of the two
\* routes they came by.
SchedulesTellTheTruth ==
    \A c \in Cycles, s \in Slots :
        /\ collected[c][s].paid = Total({d \in contributions : d.cycle = c /\ d.slot = s})
        /\ collected[c][s].status = "PAID" <=> collected[c][s].paid = Due

\* A payout is made only for a cycle every slot has paid in full, in every
\* version of the schedule.
PaidOnlyWhenCollected ==
    \A p \in payouts, s \in Slots : collected[p.cycle][s].status = "PAID"

\* Every version gives every slot exactly one turn, whatever swaps led to it.
EverySlotHasATurn ==
    \A v \in 1..Version : {rotation[v][c].slot : c \in Cycles} = Slots

\* A published version is never changed: its turns stay with their slots.
VersionsAreImmutable ==
    [][\A v \in 1..Version :
         /\ v \in 1..Version'
         /\ \A c \in Cycles : rotation'[v][c].slot = rotation[v][c].slot]_vars

(* The inductive strengthening.                                            *)

\* A schedule's status follows what was paid, and nobody overpays.
StatusFollowsPaid ==
    \A c \in Cycles, s \in Slots :
        /\ collected[c][s].paid <= Due
        /\ collected[c][s].status = "PAID" <=> collected[c][s].paid = Due
        /\ collected[c][s].status \in {"PENDING", "DUE", "PARTIALLY_PAID", "PAID"}

\* A refused request and a recorded payout name a row that exists.
RowsExist ==
    /\ rotation # <<>>
    /\ \A e \in Executors : executor[e].version \in 1..Version
    /\ \A p \in payouts : p.version \in 1..Version

IInv ==
    /\ TypeOK
    /\ StatusFollowsPaid
    /\ RowsExist
    /\ PaidOnlyWhenCollected
    /\ EverySlotHasATurn

\* What the totals rest on: finitely many rows, and the contribution of an
\* intent only once the intent has SUCCEEDED.
RowsCounted ==
    /\ IsFiniteSet(contributions)
    /\ IsFiniteSet(payouts)
    /\ \A d \in contributions : d.key \in Intents => intent[d.key].status = "SUCCEEDED"

BooksInv ==
    /\ RowsCounted
    /\ PoolIsContributionsLessPayouts
    /\ SchedulesTellTheTruth
=============================================================================
