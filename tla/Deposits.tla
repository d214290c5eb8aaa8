------------------------------ MODULE Deposits ------------------------------
(***************************************************************************)
(* Money entering the platform: a WALLET_TOPUP payment intent, the charge  *)
(* created for it at the payment provider, the provider's webhook and the  *)
(* ledger posting that credits the wallet.                                 *)
(*                                                                         *)
(*   PaymentsService.create / confirm / startExternal                      *)
(*   MonnifyWebhooksService.record / applyToLedger                         *)
(*   PaymentSettlementService.settleSuccessful / settleFailed              *)
(*                                                                         *)
(* A request thread keeps what the code keeps in local variables across an *)
(* await.  Every database round trip is one action; a serializable         *)
(* transaction is one action, because PostgreSQL either commits it as if   *)
(* it had run alone or aborts it.  The provider is external: it decides a  *)
(* charge once and may deliver the event late, twice or concurrently.      *)
(***************************************************************************)
EXTENDS Integers

CONSTANTS
    Intents,        \* intents, named by their (userId, idempotencyKey)
    Refs,           \* provider references; bounds the charges ever created
    Confirmers,     \* concurrent confirm requests
    Handlers,       \* concurrent webhook requests
    Amounts,        \* amounts a payer may ask for
    FeeOf,          \* FeesService.assess('DEPOSIT', amount)
    MinimumDeposit, \* MINIMUM_DEPOSIT_MINOR
    MaxFaults,      \* bound on crashes and failed database calls
    None            \* SQL NULL

ASSUME AmountsAssumption ==
    /\ Amounts \subseteq Nat \ {0}
    /\ FeeOf \in [Amounts -> Nat]
    /\ MinimumDeposit \in Nat
    /\ MaxFaults \in Nat
ASSUME NoneAssumption == None \notin Intents /\ None \notin Refs

VARIABLES
    intent,     \* payment_intents
    charge,     \* the provider's charges (external)
    event,      \* payment_webhook_events of kind TRANSACTION_COMPLETION
    ledger,     \* ledger_transactions posted by a settlement
    confirmer,  \* local state of confirm requests
    handler,    \* local state of webhook requests
    faults      \* crashes and failed calls so far

vars == <<intent, charge, event, ledger, confirmer, handler, faults>>

IntentStatus ==
    {"NONE", "REQUIRES_CONFIRMATION", "PROCESSING", "SUCCEEDED", "FAILED"}
ChargeState == {"unused", "open", "paid", "failed"}
\* AWAITING_RETRY is status PENDING with the failureReason written when the
\* ledger posting failed ("Ledger posting failed; awaiting retry").
EventStatus == {"none", "PENDING", "AWAITING_RETRY", "FAILED", "PROCESSED"}

Intent == [status: IntentStatus, expired: BOOLEAN,
           amount: Nat, fee: Nat, ref: Refs \cup {None}]
Charge == [state: ChargeState, intent: Intents \cup {None}, total: Nat]
Posting == [key: Intents \cup Refs, intent: Intents, gross: Nat, credit: Nat, fee: Nat]
Confirmer == [pc: {"idle", "charge", "store"},
              intent: Intents \cup {None}, ref: Refs \cup {None}]
Handler == [pc: {"idle", "insert", "lookup", "settle", "fail", "mark"},
            ref: Refs \cup {None}, intent: Intents \cup {None}, stale: BOOLEAN]

Idle == [pc |-> "idle", intent |-> None, ref |-> None]
IdleHandler == [pc |-> "idle", ref |-> None, intent |-> None, stale |-> FALSE]

TypeOK ==
    /\ intent \in [Intents -> Intent]
    /\ charge \in [Refs -> Charge]
    /\ event \in [Refs -> EventStatus]
    /\ ledger \subseteq Posting
    /\ confirmer \in [Confirmers -> Confirmer]
    /\ handler \in [Handlers -> Handler]
    /\ faults \in Nat

Init ==
    /\ intent = [i \in Intents |-> [status |-> "NONE", expired |-> FALSE,
                                    amount |-> 0, fee |-> 0, ref |-> None]]
    /\ charge = [r \in Refs |-> [state |-> "unused", intent |-> None, total |-> 0]]
    /\ event = [r \in Refs |-> "none"]
    /\ ledger = {}
    /\ confirmer = [c \in Confirmers |-> Idle]
    /\ handler = [h \in Handlers |-> IdleHandler]
    /\ faults = 0

-----------------------------------------------------------------------------
(* Ledger: LedgerService.postWithin and assertBalancedPosting.             *)

Posted(i) == \E p \in ledger : p.intent = i

Balanced(p) == /\ p.gross > 0
               /\ p.credit > 0
               /\ p.gross = p.credit + p.fee

\* A second posting under a known key returns the first and writes nothing.
PostWithin(p) ==
    ledger' = IF \E q \in ledger : q.key = p.key THEN ledger ELSE ledger \cup {p}

-----------------------------------------------------------------------------
(* The payer's requests.                                                   *)

\* create: an existing key returns the stored intent, so only the first
\* request under it writes; the unique constraint settles concurrent taps.
Create(i, a) ==
    /\ intent[i].status = "NONE"
    /\ a >= MinimumDeposit
    /\ intent' = [intent EXCEPT ![i] =
                    [status |-> "REQUIRES_CONFIRMATION", expired |-> FALSE,
                     amount |-> a, fee |-> FeeOf[a], ref |-> None]]
    /\ UNCHANGED <<charge, event, ledger, confirmer, handler, faults>>

\* The clock passes expiresAt.
Expire(i) ==
    /\ intent[i].status # "NONE"
    /\ ~intent[i].expired
    /\ intent' = [intent EXCEPT ![i].expired = TRUE]
    /\ UNCHANGED <<charge, event, ledger, confirmer, handler, faults>>

IsPayable(i) == intent[i].status = "REQUIRES_CONFIRMATION" /\ ~intent[i].expired

\* confirm up to verifyPin: the only place the status is looked at.
Confirm(c, i) ==
    /\ confirmer[c].pc = "idle"
    /\ IsPayable(i)
    /\ confirmer' = [confirmer EXCEPT ![c] =
                        [pc |-> "charge", intent |-> i, ref |-> None]]
    /\ UNCHANGED <<intent, charge, event, ledger, handler, faults>>

\* startExternal: provider.createTransferCharge / createCardCharge, for the
\* total, under a reference carrying fresh random bytes.
CreateCharge(c, r) ==
    /\ confirmer[c].pc = "charge"
    /\ charge[r].state = "unused"
    /\ charge' = [charge EXCEPT ![r] =
                    [state |-> "open", intent |-> confirmer[c].intent,
                     total |-> intent[confirmer[c].intent].amount
                               + intent[confirmer[c].intent].fee]]
    /\ confirmer' = [confirmer EXCEPT ![c].pc = "store", ![c].ref = r]
    /\ UNCHANGED <<intent, event, ledger, handler, faults>>

\* The provider refuses or the call times out: confirm throws.
ChargeRefused(c) ==
    /\ confirmer[c].pc = "charge"
    /\ confirmer' = [confirmer EXCEPT ![c] = Idle]
    /\ UNCHANGED <<intent, charge, event, ledger, handler, faults>>

\* startExternal: the update, by id alone.
StoreCharge(c) ==
    /\ confirmer[c].pc = "store"
    /\ intent' = [intent EXCEPT ![confirmer[c].intent].status = "PROCESSING",
                                ![confirmer[c].intent].ref = confirmer[c].ref]
    /\ confirmer' = [confirmer EXCEPT ![c] = Idle]
    /\ UNCHANGED <<charge, event, ledger, handler, faults>>

\* The process dies, or the update fails, once the charge exists.
ConfirmFault(c) ==
    /\ confirmer[c].pc = "store"
    /\ faults < MaxFaults
    /\ faults' = faults + 1
    /\ confirmer' = [confirmer EXCEPT ![c] = Idle]
    /\ UNCHANGED <<intent, charge, event, ledger, handler>>

-----------------------------------------------------------------------------
(* The provider (external): a charge is paid or fails once.                *)

Decide(r, outcome) ==
    /\ charge[r].state = "open"
    /\ charge' = [charge EXCEPT ![r].state = outcome]
    /\ UNCHANGED <<intent, event, ledger, confirmer, handler, faults>>

-----------------------------------------------------------------------------
(* The webhook handler.                                                    *)

Finish(h) == handler' = [handler EXCEPT ![h] = IdleHandler]
Goto(h, pc) == handler' = [handler EXCEPT ![h].pc = pc]

\* record, first read.  The event id is the kind and the reference, so every
\* event about one charge has the same id; a known id is acknowledged and
\* ignored.  Staleness is judged on arrival.
Deliver(h, r, stale) ==
    /\ handler[h].pc = "idle"
    /\ charge[r].state \in {"paid", "failed"}
    /\ event[r] = "none"
    /\ handler' = [handler EXCEPT ![h] =
                    [pc |-> "insert", ref |-> r, intent |-> None, stale |-> stale]]
    /\ UNCHANGED <<intent, charge, event, ledger, confirmer, faults>>

\* record, the insert and the audit entry.  The unique constraint turns the
\* loser of a race into a duplicate; a stale event is recorded and dropped.
Insert(h) ==
    /\ handler[h].pc = "insert"
    /\ LET r == handler[h].ref IN
         \/ /\ event[r] # "none"
            /\ Finish(h)
            /\ UNCHANGED event
         \/ /\ event[r] = "none"
            /\ handler[h].stale
            /\ event' = [event EXCEPT ![r] = "FAILED"]
            /\ Finish(h)
         \/ /\ event[r] = "none"
            /\ ~handler[h].stale
            /\ event' = [event EXCEPT ![r] = "PENDING"]
            /\ Goto(h, "lookup")
    /\ UNCHANGED <<intent, charge, ledger, confirmer, faults>>

\* Mutants of Lookup: the event's verdict is not looked at; a FAILED intent is
\* not matched any more.
LookupVariant(h, settles, ignored) ==
    /\ handler[h].pc = "lookup"
    /\ LET r == handler[h].ref
           matches == {i \in Intents : intent[i].ref = r /\ intent[i].status \notin ignored} IN
         \/ matches = {} /\ Goto(h, "idle")
         \/ \E i \in matches : intent[i].status = "SUCCEEDED" /\ Goto(h, "mark")
         \/ \E i \in matches :
              /\ intent[i].status # "SUCCEEDED"
              /\ handler' = [handler EXCEPT ![h].intent = i,
                               ![h].pc = IF charge[r].state \in settles
                                         THEN "settle" ELSE "fail"]
    /\ UNCHANGED <<intent, charge, event, ledger, confirmer, faults>>
LookupIgnoresFailure(h) == LookupVariant(h, {"paid", "failed"}, {})
LookupFailedIsFinal(h) == LookupVariant(h, {"paid"}, {"FAILED"})

\* settleSuccessful / settleFailed, the read outside any transaction.
Lookup(h) ==
    /\ handler[h].pc = "lookup"
    /\ LET r == handler[h].ref
           matches == {i \in Intents : intent[i].ref = r} IN
         \/ /\ matches = {}                                    \* UNMATCHED
            /\ Finish(h)
         \/ \E i \in matches :
              /\ intent[i].status = "SUCCEEDED"                \* ALREADY_SETTLED
              /\ Goto(h, "mark")
         \/ \E i \in matches :
              /\ intent[i].status # "SUCCEEDED"
              /\ handler' = [handler EXCEPT ![h].intent = i,
                               ![h].pc = IF charge[r].state = "paid"
                                         THEN "settle" ELSE "fail"]
    /\ UNCHANGED <<intent, charge, event, ledger, confirmer, faults>>

\* Mutant of SettlementKey: the key is derived from the event.
SettlementKeyFromEvent(i, r) == r

\* payment-settlement:{intentId}, derived from the intent, not the event.
SettlementKey(i, r) == i

SettlementPosting(i, r) ==
    [key |-> SettlementKey(i, r), intent |-> i,
     gross |-> intent[i].amount,
     credit |-> intent[i].amount - intent[i].fee,
     fee |-> intent[i].fee]

\* settleSuccessful, the serializable transaction.
SettleSuccessful(h) ==
    /\ handler[h].pc = "settle"
    /\ LET i == handler[h].intent IN
         \/ /\ intent[i].status = "SUCCEEDED"
            /\ UNCHANGED <<intent, ledger>>
         \/ /\ intent[i].status # "SUCCEEDED"
            /\ Balanced(SettlementPosting(i, handler[h].ref))
            /\ PostWithin(SettlementPosting(i, handler[h].ref))
            /\ intent' = [intent EXCEPT ![i].status = "SUCCEEDED"]
    /\ Goto(h, "mark")
    /\ UNCHANGED <<charge, event, confirmer, faults>>

\* settleFailed, the update, by id alone and outside any transaction.
SettleFailed(h) ==
    /\ handler[h].pc = "fail"
    /\ intent' = [intent EXCEPT ![handler[h].intent].status = "FAILED"]
    /\ Goto(h, "mark")
    /\ UNCHANGED <<charge, event, ledger, confirmer, faults>>

\* applyToLedger, the update after a settlement.
MarkProcessed(h) ==
    /\ handler[h].pc = "mark"
    /\ event' = [event EXCEPT ![handler[h].ref] = "PROCESSED"]
    /\ Finish(h)
    /\ UNCHANGED <<intent, charge, ledger, confirmer, faults>>

AwaitRetry(h) ==
    /\ event' = [event EXCEPT ![handler[h].ref] = "AWAITING_RETRY"]
    /\ Finish(h)
    /\ UNCHANGED <<intent, charge, ledger, confirmer>>

\* A posting the ledger rejects: the fee leaves nothing to credit.
PostingRejected(h) ==
    /\ handler[h].pc = "settle"
    /\ intent[handler[h].intent].status # "SUCCEEDED"
    /\ ~Balanced(SettlementPosting(handler[h].intent, handler[h].ref))
    /\ AwaitRetry(h)
    /\ UNCHANGED faults

\* A database call inside applyToLedger's try throws: a serialization
\* failure, a lost connection.  The catch notes it and the request is acked.
ApplyFault(h) ==
    /\ handler[h].pc \in {"lookup", "settle", "fail", "mark"}
    /\ faults < MaxFaults
    /\ faults' = faults + 1
    /\ AwaitRetry(h)

\* The process dies, or a call outside the try throws.
HandlerFault(h) ==
    /\ handler[h].pc # "idle"
    /\ faults < MaxFaults
    /\ faults' = faults + 1
    /\ Finish(h)
    /\ UNCHANGED <<intent, charge, event, ledger, confirmer>>

-----------------------------------------------------------------------------
ConfirmStep(c) == (\E r \in Refs : CreateCharge(c, r)) \/ ChargeRefused(c) \/ StoreCharge(c)

HandlerStep(h) == Insert(h) \/ Lookup(h) \/ SettleSuccessful(h)
                  \/ SettleFailed(h) \/ MarkProcessed(h) \/ PostingRejected(h)

Next ==
    \/ \E i \in Intents : Expire(i) \/ \E a \in Amounts : Create(i, a)
    \/ \E c \in Confirmers : \/ \E i \in Intents : Confirm(c, i)
                             \/ ConfirmStep(c)
                             \/ ConfirmFault(c)
    \/ \E r \in Refs : Decide(r, "paid") \/ Decide(r, "failed")
    \/ \E h \in Handlers : \/ \E r \in Refs, stale \in BOOLEAN : Deliver(h, r, stale)
                           \/ HandlerStep(h)
                           \/ ApplyFault(h)
                           \/ HandlerFault(h)

Spec == Init /\ [][Next]_vars

\* A request once started runs on; an event is delivered until it is
\* recorded, because Monnify retries every delivery that is not answered 2xx.
Fairness ==
    /\ \A c \in Confirmers : WF_vars(ConfirmStep(c))
    /\ \A h \in Handlers : WF_vars(HandlerStep(h))
    /\ \A r \in Refs : SF_vars(\E h \in Handlers, stale \in BOOLEAN : Deliver(h, r, stale))

FairSpec == Spec /\ Fairness

-----------------------------------------------------------------------------
(* Properties.                                                             *)

\* One deposit is credited at most once, however many charges a doubly
\* confirmed intent collects, however often their events arrive and even
\* when a late store moves a SUCCEEDED intent back to PROCESSING.
CreditedOnce == \A p, q \in ledger : p.intent = q.intent => p = q

\* An intent that reports SUCCEEDED has its ledger posting: the status and
\* the posting commit together or not at all.
SucceededIsPosted ==
    \A i \in Intents : intent[i].status = "SUCCEEDED" => Posted(i)

\* A webhook event is PROCESSED only after its money is in the ledger; an
\* event marked too early is never looked at again.
ProcessedMeansSettled ==
    \A r \in Refs : (event[r] = "PROCESSED" /\ charge[r].state = "paid")
                       => Posted(charge[r].intent)

\* The wallet only ever moves the way a depositor is promised: credited once,
\* after a payment, by the amount asked for less the fee.
Promise == INSTANCE DepositPromise WITH
    quote <- [i \in Intents |-> intent[i].amount - intent[i].fee],
    asked <- {i \in Intents : intent[i].status # "NONE"},
    paid <- {charge[r].intent : r \in {s \in Refs : charge[s].state = "paid"}},
    credits <- ledger
KeepsPromise == Promise!Spec

\* A paid charge its intent still points to is credited, unless the event was
\* recorded as stale, the ledger rejected the posting, a second confirmation
\* replaced the reference or something failed on the way.
PaidIsCredited ==
    \A r \in Refs, i \in Intents :
        (charge[r].state = "paid" /\ intent[i].ref = r /\ event[r] = "none")
            ~> \/ Posted(i)
               \/ event[r] \in {"FAILED", "AWAITING_RETRY"}
               \/ intent[i].ref # r
               \/ faults > 0

(* The inductive strengthening: what a request's local state still knows   *)
(* about the rows and charges it was read from.                            *)

\* A charge that exists belongs to an intent that exists.
ChargesOwned ==
    \A r \in Refs : charge[r].state # "unused"
        => charge[r].intent \in Intents /\ intent[charge[r].intent].status # "NONE"

\* An intent only ever stores a reference of one of its own charges.
StoredRefsOwned ==
    \A i \in Intents : intent[i].ref # None
        => /\ charge[intent[i].ref].intent = i
           /\ charge[intent[i].ref].state # "unused"

\* A confirm request knows an intent that exists and a charge made for it.
ConfirmersOwn ==
    \A c \in Confirmers : confirmer[c].pc # "idle"
        => /\ confirmer[c].intent \in Intents
           /\ intent[confirmer[c].intent].status # "NONE"
           /\ confirmer[c].pc = "store"
                => /\ confirmer[c].ref \in Refs
                   /\ charge[confirmer[c].ref].state # "unused"
                   /\ charge[confirmer[c].ref].intent = confirmer[c].intent

\* A webhook request carries a decided charge; it settles paid charges, fails
\* failed ones and marks a paid one only once its intent is posted.
HandlersKnow ==
    \A h \in Handlers : handler[h].pc # "idle"
        => /\ handler[h].ref \in Refs
           /\ charge[handler[h].ref].state \in {"paid", "failed"}
           /\ handler[h].pc \in {"settle", "fail"}
                => handler[h].intent = charge[handler[h].ref].intent
           /\ handler[h].pc = "settle" => charge[handler[h].ref].state = "paid"
           /\ handler[h].pc = "fail" => charge[handler[h].ref].state = "failed"
           /\ (handler[h].pc = "mark" /\ charge[handler[h].ref].state = "paid")
                => Posted(charge[handler[h].ref].intent)

\* An event is recorded only about a charge the provider has decided.
EventsDecided ==
    \A r \in Refs : event[r] # "none" => charge[r].state \in {"paid", "failed"}

\* A posting is keyed by its intent.
KeyedByIntent == \A p \in ledger : p.key = p.intent

\* A posting is backed by a paid charge of its intent.
CreditBacked ==
    \A p \in ledger : \E r \in Refs : charge[r].state = "paid" /\ charge[r].intent = p.intent

IInv ==
    /\ TypeOK
    /\ ChargesOwned
    /\ StoredRefsOwned
    /\ ConfirmersOwn
    /\ HandlersKnow
    /\ EventsDecided
    /\ KeyedByIntent
    /\ CreditBacked
    /\ CreditedOnce
    /\ SucceededIsPosted
    /\ ProcessedMeansSettled
=============================================================================
