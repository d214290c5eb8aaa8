---------------------------- MODULE BillPayments ----------------------------
(***************************************************************************)
(* A bill paid from the wallet: the total is reserved, the provider is     *)
(* called once the reserve has committed, and its answer, or a later       *)
(* inquiry by an operator, settles, releases or reverses the reserve.      *)
(*                                                                         *)
(*   PaymentsService.settleFromWallet with BillPaymentTarget               *)
(*   BillPaymentsService.completeIntentPayment / reconcile /               *)
(*     applyProviderResult / applyReversal / markUncertain / syncIntent    *)
(*                                                                         *)
(* A bill is named by the intent that pays for it.  A serializable         *)
(* transaction is one action; a provider call and the transaction that     *)
(* applies its answer are two, so an answer may be stale when applied.     *)
(***************************************************************************)
EXTENDS Integers, FiniteSets, Functions

CONSTANTS
    Bills,        \* bills of one payer, each with its own intent
    AmountOf,     \* amountMinor of each
    FeeOf,        \* feeMinor of each
    Opening,      \* the payer's available balance before any of them
    Transfers,    \* amounts the payer may send to another wallet
    Reversible,   \* bills the provider may undo after performing
    Reconcilers,  \* concurrent operator requests
    MaxFaults     \* bound on crashes, aborted transactions, failed inquiries

ASSUME MoneyAssumption ==
    /\ AmountOf \in [Bills -> Nat \ {0}]
    /\ FeeOf \in [Bills -> Nat]
    /\ Opening \in Nat
    /\ Transfers \subseteq Nat \ {0}
    /\ MaxFaults \in Nat
ASSUME FiniteAssumption == IsFiniteSet(Bills)

VARIABLES
    bill,        \* bill_payments
    receipts,    \* bills with a row in bill_payment_receipts
    intent,      \* status of the payment intent of each bill
    posted,      \* ledger transactions of each bill, by idempotency key
    account,     \* balances those transactions leave
    provider,    \* what the provider has done (external)
    request,     \* the payer's confirm request of each bill
    reconciler,  \* operator requests
    faults

rows == <<bill, receipts, intent, posted, account>>
vars == <<rows, provider, request, reconciler, faults>>

BillStatus == {"none", "PENDING", "RECONCILIATION_REQUIRED", "SUCCESSFUL", "FAILED", "REVERSED"}
ReconciliationState == {"NOT_REQUIRED", "PENDING", "RESOLVED"}
BillRow == [status: BillStatus, recon: ReconciliationState]
Accounts == {"available", "reserved", "payable", "revenue", "others"}
ProviderState == {"unsent", "pending", "successful", "failed", "reversed"}
Result == {"SUCCESSFUL", "FAILED", "PENDING", "UNKNOWN", "REVERSED"}

TypeOK ==
    /\ bill \in [Bills -> BillRow]
    /\ receipts \subseteq Bills
    /\ intent \in [Bills -> {"REQUIRES_CONFIRMATION", "PROCESSING", "SUCCEEDED", "FAILED"}]
    /\ posted \in [Bills -> SUBSET {"reserve", "settle", "release", "reversal"}]
    /\ account \in [Accounts -> Int]
    /\ provider \in [Bills -> ProviderState]
    /\ request \in [Bills -> [pc: {"none", "send", "apply", "done"}, result: Result]]
    /\ reconciler \in [Reconcilers -> [pc: {"idle", "query", "apply"},
                                       bill: Bills, result: Result]]
    /\ faults \in Nat

Total(b) == AmountOf[b] + FeeOf[b]

Init ==
    /\ bill = [b \in Bills |-> [status |-> "none", recon |-> "NOT_REQUIRED"]]
    /\ receipts = {}
    /\ intent = [b \in Bills |-> "REQUIRES_CONFIRMATION"]
    /\ posted = [b \in Bills |-> {}]
    /\ account = [a \in Accounts |-> IF a = "available" THEN Opening ELSE 0]
    /\ provider = [b \in Bills |-> "unsent"]
    /\ request = [b \in Bills |-> [pc |-> "none", result |-> "UNKNOWN"]]
    /\ reconciler \in [Reconcilers -> [pc: {"idle"}, bill: Bills, result: {"UNKNOWN"}]]
    /\ faults = 0

-----------------------------------------------------------------------------
(* The ledger transactions of a bill.                                      *)

\* What each transaction adds to the accounts; credits are positive.
Entries(b, kind) ==
    [a \in Accounts |->
        CASE kind = "reserve" /\ a = "available"  -> -Total(b)
          [] kind = "reserve" /\ a = "reserved"   -> Total(b)
          [] kind \in {"settle", "release"} /\ a = "reserved" -> -Total(b)
          [] kind = "settle" /\ a = "payable"     -> AmountOf[b]
          [] kind = "settle" /\ a = "revenue"     -> FeeOf[b]
          [] kind \in {"release", "reversal"} /\ a = "available" -> Total(b)
          [] kind = "reversal" /\ a = "payable"   -> -AmountOf[b]
          [] kind = "reversal" /\ a = "revenue"   -> -FeeOf[b]
          [] OTHER -> 0]

\* Mutant of PostWithin: the idempotency key is not looked up.
PostAgain(b, kind) ==
    /\ posted' = [posted EXCEPT ![b] = @ \cup {kind}]
    /\ account' = [a \in Accounts |-> account[a] + Entries(b, kind)[a]]

\* LedgerService.postWithin: a known key returns the transaction it made.
PostWithin(b, kind) ==
    IF kind \in posted[b]
    THEN UNCHANGED <<posted, account>>
    ELSE /\ posted' = [posted EXCEPT ![b] = @ \cup {kind}]
         /\ account' = [a \in Accounts |-> account[a] + Entries(b, kind)[a]]

-----------------------------------------------------------------------------
(* The payer's confirm request.                                            *)

\* settleFromWallet with recordIntentPayment: reserve, bill row, attempt and
\* intent status in one transaction.  A second request finds the intent out
\* of REQUIRES_CONFIRMATION and does not go on to the provider.
Confirm(b) ==
    /\ intent[b] = "REQUIRES_CONFIRMATION"
    /\ account["available"] >= Total(b)
    /\ PostWithin(b, "reserve")
    /\ bill' = [bill EXCEPT ![b].status = "PENDING"]
    /\ intent' = [intent EXCEPT ![b] = "PROCESSING"]
    /\ request' = [request EXCEPT ![b].pc = "send"]
    /\ UNCHANGED <<receipts, provider, reconciler, faults>>

\* WalletMovementsService.send: a transfer competes for the same balance.
Transfer(n) ==
    /\ account["available"] >= n
    /\ account' = [account EXCEPT !["available"] = @ - n, !["others"] = @ + n]
    /\ UNCHANGED <<bill, receipts, intent, posted, provider, request, reconciler, faults>>

\* What the provider answers about a bill it is asked about.
Answer(state) ==
    CASE state = "unsent"     -> "UNKNOWN"
      [] state = "pending"    -> "PENDING"
      [] state = "successful" -> "SUCCESSFUL"
      [] state = "failed"     -> "FAILED"
      [] state = "reversed"   -> "REVERSED"

\* completeIntentPayment, provider.createPayment.  The call may not arrive,
\* may be decided at once or left pending; its answer may be lost (a thrown
\* call and an UNKNOWN answer both lead to markUncertain).
Send(b, state) ==
    /\ request[b].pc = "send"
    /\ bill[b].status = "PENDING"
    /\ provider' = [provider EXCEPT ![b] = state]
    /\ \E result \in {Answer(state), "UNKNOWN"} :
         request' = [request EXCEPT ![b] = [pc |-> "apply", result |-> result]]
    /\ UNCHANGED <<rows, reconciler, faults>>

-----------------------------------------------------------------------------
(* applyProviderResult: one serializable transaction.                      *)

IsOpen(b) == bill[b].status \in {"PENDING", "RECONCILIATION_REQUIRED"}

\* syncIntent: only an intent still PROCESSING moves.
SyncIntent(b, outcome) ==
    intent' = [intent EXCEPT ![b] = IF @ = "PROCESSING" THEN outcome ELSE @]

\* SUCCESSFUL.  The receipt is unique per bill: when one exists the whole
\* transaction rolls back.
Settle(b) ==
    /\ IsOpen(b)
    /\ b \notin receipts
    /\ PostWithin(b, "settle")
    /\ bill' = [bill EXCEPT ![b] = [status |-> "SUCCESSFUL", recon |-> "NOT_REQUIRED"]]
    /\ receipts' = receipts \cup {b}
    /\ SyncIntent(b, "SUCCEEDED")

\* FAILED.  The reconciliation state is left as it was.
Release(b) ==
    /\ IsOpen(b)
    /\ PostWithin(b, "release")
    /\ bill' = [bill EXCEPT ![b].status = "FAILED"]
    /\ SyncIntent(b, "FAILED")
    /\ UNCHANGED receipts

\* applyReversal.
Reverse(b) ==
    /\ bill[b].status = "SUCCESSFUL"
    /\ PostWithin(b, "reversal")
    /\ bill' = [bill EXCEPT ![b].status = "REVERSED", ![b].recon = "RESOLVED"]
    /\ UNCHANGED <<intent, receipts>>

\* Mutant of MarkUncertain: the row is not queued for reconciliation.
MarkUncertainStatusOnly(b) ==
    /\ bill' = [bill EXCEPT ![b].status = "RECONCILIATION_REQUIRED"]
    /\ UNCHANGED <<receipts, intent, posted, account>>

\* markUncertain: unconditional.
MarkUncertain(b) ==
    /\ bill' = [bill EXCEPT ![b].status = "RECONCILIATION_REQUIRED", ![b].recon = "PENDING"]
    /\ UNCHANGED <<receipts, intent, posted, account>>

\* Early returns, the receipt's unique constraint and the Conflict for a
\* reversal of anything but a successful bill: nothing is written.
WritesNothing(b, result) ==
    \/ result \in {"SUCCESSFUL", "FAILED"} /\ ~IsOpen(b)
    \/ result = "SUCCESSFUL" /\ IsOpen(b) /\ b \in receipts
    \/ result = "REVERSED" /\ bill[b].status # "SUCCESSFUL"

\* Mutant of ApplyProviderResult: an unknown outcome is treated as a failure.
ApplyUnknownAsFailure(b, result) ==
    \/ result = "SUCCESSFUL" /\ Settle(b)
    \/ result \in {"FAILED", "UNKNOWN"} /\ Release(b)
    \/ result = "REVERSED" /\ Reverse(b)
    \/ result = "PENDING" /\ MarkUncertain(b)

ApplyProviderResult(b, result) ==
    \/ result = "SUCCESSFUL" /\ Settle(b)
    \/ result = "FAILED" /\ Release(b)
    \/ result = "REVERSED" /\ Reverse(b)
    \/ result \in {"PENDING", "UNKNOWN"} /\ MarkUncertain(b)
    \/ WritesNothing(b, result) /\ UNCHANGED rows

\* completeIntentPayment applies its answer; an exception is swallowed.
Complete(b) ==
    /\ request[b].pc = "apply"
    /\ ApplyProviderResult(b, request[b].result)
    /\ request' = [request EXCEPT ![b].pc = "done"]
    /\ UNCHANGED <<provider, reconciler, faults>>

\* The process dies, audit.record throws or a transaction aborts, once the
\* reserve has committed.
RequestFault(b) ==
    /\ request[b].pc \in {"send", "apply"}
    /\ faults < MaxFaults
    /\ faults' = faults + 1
    /\ request' = [request EXCEPT ![b].pc = "done"]
    /\ UNCHANGED <<rows, provider, reconciler>>

-----------------------------------------------------------------------------
(* reconcile, by an operator.                                              *)

Reconcile(k, b) ==
    /\ reconciler[k].pc = "idle"
    /\ bill[b].recon = "PENDING"
    /\ reconciler' = [reconciler EXCEPT ![k] = [pc |-> "query", bill |-> b, result |-> "UNKNOWN"]]
    /\ UNCHANGED <<rows, provider, request, faults>>

Query(k) ==
    /\ reconciler[k].pc = "query"
    /\ reconciler' = [reconciler EXCEPT ![k].pc = "apply",
                        ![k].result = Answer(provider[reconciler[k].bill])]
    /\ UNCHANGED <<rows, provider, request, faults>>

ApplyInquiry(k) ==
    /\ reconciler[k].pc = "apply"
    /\ ApplyProviderResult(reconciler[k].bill, reconciler[k].result)
    /\ reconciler' = [reconciler EXCEPT ![k].pc = "idle", ![k].result = "UNKNOWN"]
    /\ UNCHANGED <<provider, request, faults>>

\* The inquiry fails, the transaction aborts or the process dies.
ReconcileFault(k) ==
    /\ reconciler[k].pc # "idle"
    /\ faults < MaxFaults
    /\ faults' = faults + 1
    /\ reconciler' = [reconciler EXCEPT ![k].pc = "idle", ![k].result = "UNKNOWN"]
    /\ UNCHANGED <<rows, provider, request>>

-----------------------------------------------------------------------------
(* The provider (external).                                                *)

ProviderDecide(b, state) ==
    /\ provider[b] = "pending"
    /\ provider' = [provider EXCEPT ![b] = state]
    /\ UNCHANGED <<rows, request, reconciler, faults>>

ProviderReverse(b) ==
    /\ b \in Reversible
    /\ provider[b] = "successful"
    /\ provider' = [provider EXCEPT ![b] = "reversed"]
    /\ UNCHANGED <<rows, request, reconciler, faults>>

-----------------------------------------------------------------------------
RequestStep(b) ==
    Complete(b) \/ \E state \in ProviderState \ {"reversed"} : Send(b, state)
ProviderStep(b) == ProviderDecide(b, "successful") \/ ProviderDecide(b, "failed")

Next ==
    \/ \E b \in Bills : \/ Confirm(b) \/ RequestStep(b) \/ RequestFault(b)
                        \/ ProviderStep(b) \/ ProviderReverse(b)
    \/ \E n \in Transfers : Transfer(n)
    \/ \E k \in Reconcilers : \/ \E b \in Bills : Reconcile(k, b)
                              \/ Query(k) \/ ApplyInquiry(k) \/ ReconcileFault(k)

Spec == Init /\ [][Next]_vars

\* A started request runs on, the provider decides what it accepted, and
\* operators reconcile every bill that awaits it.
FairSpec ==
    /\ Spec
    /\ \A b \in Bills : /\ WF_vars(RequestStep(b))
                        /\ WF_vars(ProviderStep(b))
                        /\ SF_vars(\E k \in Reconcilers : Reconcile(k, b))
    /\ \A k \in Reconcilers : WF_vars(Query(k)) /\ WF_vars(ApplyInquiry(k))

-----------------------------------------------------------------------------
(* Properties.                                                             *)

Held(b) == "reserve" \in posted[b] /\ posted[b] \cap {"settle", "release"} = {}

\* The reserve account holds exactly the totals of the bills the ledger has
\* not yet decided, whatever answers are applied late or twice.
ReserveMatchesBills ==
    account["reserved"] = SumFunctionOnSet([b \in Bills |-> Total(b)], {b \in Bills : Held(b)})

\* Concurrent bills and transfers never overdraw the wallet, and reserving, settling,
\* releasing and reversing neither create nor lose money.
Solvent ==
    /\ account["available"] >= 0
    /\ account["available"] + account["reserved"] + account["payable"] + account["revenue"]
         + account["others"] = Opening

\* The payment screen tells what happened to the money: an intent is
\* SUCCEEDED, FAILED or PROCESSING exactly as its bill is settled, released
\* or still held, also when the bill's own row is reopened by a late answer.
IntentInStep ==
    \A b \in Bills :
        /\ intent[b] = "SUCCEEDED" <=> "settle" \in posted[b]
        /\ intent[b] = "FAILED" <=> "release" \in posted[b]
        /\ intent[b] = "PROCESSING" <=> Held(b)

\* A bill's final status is backed by its ledger transaction.
StatusBacked ==
    \A b \in Bills :
        /\ bill[b].status = "SUCCESSFUL" => "settle" \in posted[b] /\ b \in receipts
        /\ bill[b].status = "FAILED" => "release" \in posted[b]
        /\ bill[b].status = "REVERSED" => "reversal" \in posted[b]

\* The money of a bill goes where the provider's verdict sends it: it is paid
\* out only if the provider performed, returned only if it declined, refunded
\* only if it undid the payment, each at most once.
Place(b) == CASE "reversal" \in posted[b] -> "refunded"
              [] "reversal" \notin posted[b] /\ "settle" \in posted[b] -> "provider"
              [] posted[b] \cap {"reversal", "settle"} = {} /\ "release" \in posted[b] -> "returned"
              [] posted[b] = {"reserve"} -> "escrow"
              [] OTHER -> "payer"
Verdict(b) == CASE provider[b] \in {"unsent", "pending"} -> "open"
                [] provider[b] = "successful" -> "performed"
                [] provider[b] = "failed" -> "declined"
                [] provider[b] = "reversed" -> "undone"
Promise == INSTANCE Escrow WITH Items <- Bills,
                place <- [b \in Bills |-> Place(b)],
                verdict <- [b \in Bills |-> Verdict(b)]
KeepsEscrow == Promise!Spec

(* The inductive strengthening.                                            *)

\* The row, the intent and the postings of a bill agree on how far it is.
BillInStep(b) ==
    /\ bill[b].status = "none" <=> posted[b] = {}
    /\ intent[b] = "REQUIRES_CONFIRMATION" <=> posted[b] = {}
    /\ posted[b] # {} => "reserve" \in posted[b]
    /\ b \in receipts <=> "settle" \in posted[b]
    /\ bill[b].recon = "PENDING" => posted[b] # {}

\* Each posting is backed by the provider's verdict.
PostingsBacked(b) ==
    /\ "settle" \in posted[b] => provider[b] \in {"successful", "reversed"}
    /\ "release" \in posted[b] => provider[b] = "failed"
    /\ "reversal" \in posted[b] => "settle" \in posted[b] /\ provider[b] = "reversed"

\* An answer on its way to applyProviderResult was true when it was given,
\* and a verdict stays true.
AnswerTrue(b, result) ==
    /\ result = "SUCCESSFUL" => provider[b] \in {"successful", "reversed"}
    /\ result = "FAILED" => provider[b] = "failed"
    /\ result = "REVERSED" => provider[b] = "reversed"

RequestsKnow ==
    /\ \A b \in Bills :
         /\ request[b].pc = "none" => provider[b] = "unsent"
         /\ request[b].pc = "send" => provider[b] = "unsent"
         /\ request[b].pc # "none" <=> posted[b] # {}
         /\ request[b].pc = "apply" => AnswerTrue(b, request[b].result)
    /\ \A k \in Reconcilers : reconciler[k].pc # "idle" =>
         /\ posted[reconciler[k].bill] # {}
         /\ AnswerTrue(reconciler[k].bill, reconciler[k].result)

IInv ==
    /\ TypeOK
    /\ \A b \in Bills : BillInStep(b) /\ PostingsBacked(b)
    /\ RequestsKnow
    /\ IntentInStep
    /\ StatusBacked
    /\ Solvent

\* A reserve the provider knows about is settled or released in the end, lost
\* and stale answers notwithstanding, unless a step failed or the provider
\* undid the bill before its success was learnt.
HeldIsResolved ==
    \A b \in Bills : (Held(b) /\ provider[b] # "unsent")
                        ~> (~Held(b) \/ faults > 0 \/ provider[b] = "reversed")
=============================================================================
