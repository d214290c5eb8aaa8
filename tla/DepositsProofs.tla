--------------------------- MODULE DepositsProofs ---------------------------
(***************************************************************************)
(* Proofs about Deposits for every set of intents, references, requests    *)
(* and amounts: the invariant IInv is inductive, and every step of the     *)
(* detailed specification is a step of DepositPromise or a stutter.        *)
(* Then about Referrals, whose awards and clawbacks follow the deposits,   *)
(* for every set of referrals, deposits and campaigns.                     *)
(***************************************************************************)
EXTENDS Deposits, Referrals, FiniteSetTheorems, TLAPS

\* The empty database, before the first request, satisfies IInv.
LEMMA InitInv == Init => IInv
<1> SUFFICES ASSUME Init PROVE IInv
  OBVIOUS
<1> USE NoneAssumption DEF Init
<1>1. TypeOK
  BY DEF TypeOK, Intent, IntentStatus, Charge, ChargeState, EventStatus,
         Posting, Confirmer, Handler, Idle, IdleHandler
<1>2. /\ ChargesOwned /\ StoredRefsOwned /\ EventsDecided /\ KeyedByIntent
      /\ CreditBacked /\ CreditedOnce /\ SucceededIsPosted /\ ProcessedMeansSettled
  BY DEF ChargesOwned, StoredRefsOwned, EventsDecided, KeyedByIntent,
         CreditBacked, CreditedOnce, SucceededIsPosted, ProcessedMeansSettled
<1>3. ConfirmersOwn /\ HandlersKnow
  BY DEF ConfirmersOwn, HandlersKnow, Idle, IdleHandler
<1> QED
  BY <1>1, <1>2, <1>3 DEF IInv

\* What a webhook request's local state becomes, and that it stays well typed.
LEMMA FinishType ==
    ASSUME TypeOK, NEW h \in Handlers, Finish(h)
    PROVE  /\ handler' \in [Handlers -> Handler]
           /\ handler'[h].pc = "idle"
           /\ \A k \in Handlers \ {h} : handler'[k] = handler[k]
  BY DEF TypeOK, Finish, Handler, IdleHandler

LEMMA GotoType ==
    ASSUME TypeOK, NEW h \in Handlers,
           NEW pc \in {"idle", "insert", "lookup", "settle", "fail", "mark"},
           Goto(h, pc)
    PROVE  /\ handler' \in [Handlers -> Handler]
           /\ handler'[h].pc = pc
           /\ handler'[h].ref = handler[h].ref
           /\ handler'[h].intent = handler[h].intent
           /\ \A k \in Handlers \ {h} : handler'[k] = handler[k]
  BY DEF TypeOK, Goto, Handler

\* create: a new intent row disturbs no charge, request or posting.
LEMMA CreateInv ==
    ASSUME IInv, NEW i \in Intents, NEW a \in Amounts, Create(i, a)
    PROVE  IInv'
<1> USE NoneAssumption, AmountsAssumption DEF Create, IInv
<1>1. TypeOK'
  BY DEF TypeOK, Intent, IntentStatus
<1>2. ChargesOwned' /\ StoredRefsOwned'
  BY DEF TypeOK, Intent, Charge, ChargesOwned, StoredRefsOwned, ConfirmersOwn
<1>3. ConfirmersOwn'
  BY DEF TypeOK, Intent, Charge, ConfirmersOwn
<1>4. HandlersKnow'
  BY DEF TypeOK, Charge, HandlersKnow, Posted
<1>5. KeyedByIntent' /\ CreditBacked' /\ CreditedOnce'
  BY DEF TypeOK, Charge, KeyedByIntent, CreditBacked, CreditedOnce
<1>6. SucceededIsPosted' /\ ProcessedMeansSettled' /\ EventsDecided'
  BY DEF TypeOK, SucceededIsPosted, ProcessedMeansSettled, EventsDecided, Posted
<1> QED
  BY <1>1, <1>2, <1>3, <1>4, <1>5, <1>6

\* The clock passing expiresAt changes nothing else.
LEMMA ExpireInv ==
    ASSUME IInv, NEW i \in Intents, Expire(i)
    PROVE  IInv'
<1> USE NoneAssumption, AmountsAssumption DEF Expire, IInv
<1>1. TypeOK'
  BY DEF TypeOK, Intent, IntentStatus
<1>2. ChargesOwned' /\ StoredRefsOwned'
  BY DEF TypeOK, Intent, Charge, ChargesOwned, StoredRefsOwned, ConfirmersOwn
<1>3. ConfirmersOwn'
  BY DEF TypeOK, Intent, Charge, ConfirmersOwn
<1>4. HandlersKnow'
  BY DEF TypeOK, Charge, HandlersKnow, Posted
<1>5. KeyedByIntent' /\ CreditBacked' /\ CreditedOnce'
  BY DEF TypeOK, Charge, KeyedByIntent, CreditBacked, CreditedOnce
<1>6. SucceededIsPosted' /\ ProcessedMeansSettled' /\ EventsDecided'
  BY DEF TypeOK, SucceededIsPosted, ProcessedMeansSettled, EventsDecided, Posted
<1> QED
  BY <1>1, <1>2, <1>3, <1>4, <1>5, <1>6

\* confirm: the request remembers an intent that exists.
LEMMA ConfirmInv ==
    ASSUME IInv, NEW c \in Confirmers, NEW i \in Intents, Confirm(c, i)
    PROVE  IInv'
<1> USE NoneAssumption, AmountsAssumption DEF Confirm, IsPayable, IInv
<1>1. TypeOK'
  BY DEF TypeOK, Confirmer, Idle, Intent, IntentStatus
<1>2. ChargesOwned' /\ StoredRefsOwned'
  BY DEF TypeOK, Intent, Charge, ChargesOwned, StoredRefsOwned, ConfirmersOwn, Confirmer
<1>3. ConfirmersOwn'
  BY DEF TypeOK, Intent, Charge, ConfirmersOwn, Confirmer, Idle
<1>4. HandlersKnow'
  BY DEF TypeOK, Charge, HandlersKnow, Posted
<1>5. KeyedByIntent' /\ CreditBacked' /\ CreditedOnce'
  BY DEF TypeOK, Charge, KeyedByIntent, CreditBacked, CreditedOnce
<1>6. SucceededIsPosted' /\ ProcessedMeansSettled' /\ EventsDecided'
  BY DEF TypeOK, SucceededIsPosted, ProcessedMeansSettled, EventsDecided, Posted
<1> QED
  BY <1>1, <1>2, <1>3, <1>4, <1>5, <1>6

\* startExternal, the charge: its fresh reference is known to no row yet.
LEMMA CreateChargeInv ==
    ASSUME IInv, NEW c \in Confirmers, NEW r \in Refs, CreateCharge(c, r)
    PROVE  IInv'
<1> USE NoneAssumption, AmountsAssumption DEF CreateCharge, IInv
<1>1. TypeOK'
  <2>1. confirmer[c] \in Confirmer /\ confirmer[c].intent \in Intents
    BY DEF TypeOK, ConfirmersOwn
  <2>2. intent[confirmer[c].intent].amount \in Nat /\ intent[confirmer[c].intent].fee \in Nat
    BY <2>1 DEF TypeOK, Intent
  <2>3. charge' \in [Refs -> Charge]
    BY <2>1, <2>2 DEF TypeOK, Charge, ChargeState
  <2>4. confirmer' \in [Confirmers -> Confirmer]
    BY <2>1 DEF TypeOK, Confirmer
  <2> QED
    BY <2>3, <2>4 DEF TypeOK
<1>2. ChargesOwned' /\ StoredRefsOwned'
  BY DEF TypeOK, Intent, Charge, ChargesOwned, StoredRefsOwned, ConfirmersOwn, Confirmer
<1>3. ConfirmersOwn'
  BY DEF TypeOK, Intent, Charge, ConfirmersOwn, Confirmer, Idle
<1>4. HandlersKnow'
  BY DEF TypeOK, Charge, HandlersKnow, Posted
<1>5. KeyedByIntent' /\ CreditBacked' /\ CreditedOnce'
  BY DEF TypeOK, Charge, KeyedByIntent, CreditBacked, CreditedOnce
<1>6. SucceededIsPosted' /\ ProcessedMeansSettled' /\ EventsDecided'
  BY DEF TypeOK, SucceededIsPosted, ProcessedMeansSettled, EventsDecided, Posted
<1> QED
  BY <1>1, <1>2, <1>3, <1>4, <1>5, <1>6

\* startExternal, a refused charge leaves no trace.
LEMMA ChargeRefusedInv ==
    ASSUME IInv, NEW c \in Confirmers, ChargeRefused(c)
    PROVE  IInv'
<1> USE NoneAssumption, AmountsAssumption DEF ChargeRefused, IInv
<1>1. TypeOK'
  BY DEF TypeOK, Confirmer, Idle
<1>2. ChargesOwned' /\ StoredRefsOwned'
  BY DEF TypeOK, Intent, Charge, ChargesOwned, StoredRefsOwned, ConfirmersOwn, Confirmer
<1>3. ConfirmersOwn'
  BY DEF TypeOK, Intent, Charge, ConfirmersOwn, Confirmer, Idle
<1>4. HandlersKnow'
  BY DEF TypeOK, Charge, HandlersKnow, Posted
<1>5. KeyedByIntent' /\ CreditBacked' /\ CreditedOnce'
  BY DEF TypeOK, Charge, KeyedByIntent, CreditBacked, CreditedOnce
<1>6. SucceededIsPosted' /\ ProcessedMeansSettled' /\ EventsDecided'
  BY DEF TypeOK, SucceededIsPosted, ProcessedMeansSettled, EventsDecided, Posted
<1> QED
  BY <1>1, <1>2, <1>3, <1>4, <1>5, <1>6

\* startExternal, the update: whatever the status was, the reference stored is the
\* intent's own.
LEMMA StoreChargeInv ==
    ASSUME IInv, NEW c \in Confirmers, StoreCharge(c)
    PROVE  IInv'
<1> USE NoneAssumption, AmountsAssumption DEF StoreCharge, IInv
<1>1. TypeOK'
  <2>1. confirmer[c].intent \in Intents /\ confirmer[c].ref \in Refs
    BY DEF ConfirmersOwn
  <2>2. intent' \in [Intents -> Intent]
    BY <2>1 DEF TypeOK, Intent, IntentStatus
  <2>3. confirmer' \in [Confirmers -> Confirmer]
    BY DEF TypeOK, Confirmer, Idle
  <2> QED
    BY <2>2, <2>3 DEF TypeOK
<1>2. ChargesOwned' /\ StoredRefsOwned'
  BY DEF TypeOK, Intent, Charge, ChargesOwned, StoredRefsOwned, ConfirmersOwn, Confirmer
<1>3. ConfirmersOwn'
  BY DEF TypeOK, Intent, Charge, ConfirmersOwn, Confirmer, Idle
<1>4. HandlersKnow'
  BY DEF TypeOK, Charge, HandlersKnow, Posted
<1>5. KeyedByIntent' /\ CreditBacked' /\ CreditedOnce'
  BY DEF TypeOK, Charge, KeyedByIntent, CreditBacked, CreditedOnce
<1>6. SucceededIsPosted' /\ ProcessedMeansSettled' /\ EventsDecided'
  BY DEF TypeOK, SucceededIsPosted, ProcessedMeansSettled, EventsDecided, Posted
<1> QED
  BY <1>1, <1>2, <1>3, <1>4, <1>5, <1>6

\* A confirm request that dies leaves its charge orphaned and nothing else.
LEMMA ConfirmFaultInv ==
    ASSUME IInv, NEW c \in Confirmers, ConfirmFault(c)
    PROVE  IInv'
<1> USE NoneAssumption, AmountsAssumption DEF ConfirmFault, IInv
<1>1. TypeOK'
  BY DEF TypeOK, Confirmer, Idle
<1>2. ChargesOwned' /\ StoredRefsOwned'
  BY DEF TypeOK, Intent, Charge, ChargesOwned, StoredRefsOwned, ConfirmersOwn, Confirmer
<1>3. ConfirmersOwn'
  BY DEF TypeOK, Intent, Charge, ConfirmersOwn, Confirmer, Idle
<1>4. HandlersKnow'
  BY DEF TypeOK, Charge, HandlersKnow, Posted
<1>5. KeyedByIntent' /\ CreditBacked' /\ CreditedOnce'
  BY DEF TypeOK, Charge, KeyedByIntent, CreditBacked, CreditedOnce
<1>6. SucceededIsPosted' /\ ProcessedMeansSettled' /\ EventsDecided'
  BY DEF TypeOK, SucceededIsPosted, ProcessedMeansSettled, EventsDecided, Posted
<1> QED
  BY <1>1, <1>2, <1>3, <1>4, <1>5, <1>6

\* The provider decides only open charges, which no webhook request carries.
LEMMA DecideInv ==
    ASSUME IInv, NEW r \in Refs, NEW outcome \in {"paid", "failed"}, Decide(r, outcome)
    PROVE  IInv'
<1> USE NoneAssumption, AmountsAssumption DEF Decide, IInv
<1>1. TypeOK'
  BY DEF TypeOK, Charge, ChargeState
<1>2. ChargesOwned' /\ StoredRefsOwned'
  BY DEF TypeOK, Intent, Charge, ChargesOwned, StoredRefsOwned, ConfirmersOwn
<1>3. ConfirmersOwn'
  BY DEF TypeOK, Intent, Charge, ConfirmersOwn
<1>4. HandlersKnow'
  BY DEF TypeOK, Charge, HandlersKnow, Posted
<1>5. KeyedByIntent' /\ CreditBacked' /\ CreditedOnce'
  BY DEF TypeOK, Charge, KeyedByIntent, CreditBacked, CreditedOnce
<1>6. SucceededIsPosted' /\ ProcessedMeansSettled' /\ EventsDecided'
  BY DEF TypeOK, SucceededIsPosted, ProcessedMeansSettled, EventsDecided, Posted
<1> QED
  BY <1>1, <1>2, <1>3, <1>4, <1>5, <1>6

\* record, the first read.
LEMMA DeliverInv ==
    ASSUME IInv, NEW h \in Handlers, NEW r \in Refs, NEW stale \in BOOLEAN, Deliver(h, r, stale)
    PROVE  IInv'
<1> USE NoneAssumption, AmountsAssumption DEF Deliver, IInv
<1>1. TypeOK'
  BY DEF TypeOK, Handler, IdleHandler
<1>2. ChargesOwned' /\ StoredRefsOwned'
  BY DEF TypeOK, Intent, Charge, ChargesOwned, StoredRefsOwned, ConfirmersOwn, HandlersKnow
<1>3. ConfirmersOwn'
  BY DEF TypeOK, Intent, Charge, ConfirmersOwn
<1>4. HandlersKnow'
  BY DEF TypeOK, Charge, HandlersKnow, Posted, Handler, IdleHandler
<1>5. KeyedByIntent' /\ CreditBacked' /\ CreditedOnce'
  BY DEF TypeOK, Charge, KeyedByIntent, CreditBacked, CreditedOnce
<1>6. SucceededIsPosted' /\ ProcessedMeansSettled' /\ EventsDecided'
  BY DEF TypeOK, SucceededIsPosted, ProcessedMeansSettled, EventsDecided, Posted, HandlersKnow
<1> QED
  BY <1>1, <1>2, <1>3, <1>4, <1>5, <1>6

\* record, the insert: a new event is not PROCESSED.
LEMMA InsertInv ==
    ASSUME IInv, NEW h \in Handlers, Insert(h)
    PROVE  IInv'
<1> USE NoneAssumption, AmountsAssumption DEF IInv
<1>0. PICK pc \in {"idle", "lookup"} :
        /\ event' \in [Refs -> EventStatus]
        /\ \A r \in Refs : event'[r] = "PROCESSED" => event[r] = "PROCESSED"
        /\ \A r \in Refs \ {handler[h].ref} : event'[r] = event[r]
        /\ handler' \in [Handlers -> Handler]
        /\ handler'[h].pc = pc
        /\ pc = "lookup" => handler'[h].ref = handler[h].ref
        /\ \A k \in Handlers \ {h} : handler'[k] = handler[k]
  <2> DEFINE r == handler[h].ref
  <2>0. r \in Refs
    BY DEF HandlersKnow, Insert
  <2>1. CASE event[r] # "none" /\ Finish(h) /\ UNCHANGED event
    BY <2>1, FinishType DEF TypeOK
  <2>2. CASE /\ event[r] = "none"
             /\ event' = [event EXCEPT ![r] = "FAILED"]
             /\ Finish(h)
    BY <2>0, <2>2, FinishType DEF TypeOK, EventStatus
  <2>3. CASE /\ event[r] = "none"
             /\ event' = [event EXCEPT ![r] = "PENDING"]
             /\ Goto(h, "lookup")
    BY <2>0, <2>3, GotoType DEF TypeOK, EventStatus
  <2> QED
    BY <2>1, <2>2, <2>3 DEF Insert
<1>1. TypeOK'
  BY <1>0 DEF TypeOK, Insert
<1>2. ChargesOwned' /\ StoredRefsOwned'
  BY DEF TypeOK, Intent, Charge, ChargesOwned, StoredRefsOwned, ConfirmersOwn, HandlersKnow, Insert, Finish, Goto
<1>3. ConfirmersOwn'
  BY DEF TypeOK, Intent, Charge, ConfirmersOwn, Insert, Finish, Goto
<1>4. HandlersKnow'
  BY <1>0 DEF Insert, HandlersKnow, Posted
<1>5. KeyedByIntent' /\ CreditBacked' /\ CreditedOnce'
  BY DEF TypeOK, Charge, KeyedByIntent, CreditBacked, CreditedOnce, Insert, Finish, Goto
<1>6. SucceededIsPosted' /\ ProcessedMeansSettled' /\ EventsDecided'
  BY <1>0 DEF Insert, SucceededIsPosted, ProcessedMeansSettled, Posted, EventsDecided, HandlersKnow
<1> QED
  BY <1>1, <1>2, <1>3, <1>4, <1>5, <1>6

\* The lookup by providerReference finds the charge's own intent.
LEMMA LookupInv ==
    ASSUME IInv, NEW h \in Handlers, Lookup(h)
    PROVE  IInv'
<1> USE NoneAssumption, AmountsAssumption DEF IInv
<1>0. /\ handler' \in [Handlers -> Handler]
      /\ \A k \in Handlers \ {h} : handler'[k] = handler[k]
      /\ \/ handler'[h].pc = "idle"
         \/ /\ handler'[h].ref = handler[h].ref
            /\ \/ /\ handler'[h].pc = "mark"
                  /\ charge[handler[h].ref].state = "paid"
                        => Posted(charge[handler[h].ref].intent)
               \/ /\ handler'[h].intent = charge[handler[h].ref].intent
                  /\ \/ handler'[h].pc = "settle" /\ charge[handler[h].ref].state = "paid"
                     \/ handler'[h].pc = "fail" /\ charge[handler[h].ref].state = "failed"
  <2> DEFINE r == handler[h].ref
  <2>1. CASE Finish(h)
    BY <2>1, FinishType
  <2>2. ASSUME NEW i \in Intents, intent[i].ref = r, intent[i].status = "SUCCEEDED",
               Goto(h, "mark")
        PROVE  <1>0!:
    <3>1. charge[r].intent = i
      BY <2>2, NoneAssumption DEF StoredRefsOwned, HandlersKnow, Lookup
    <3> QED
      BY <2>2, <3>1, GotoType DEF SucceededIsPosted
  <2>3. ASSUME NEW i \in Intents, intent[i].ref = r,
               handler' = [handler EXCEPT ![h].intent = i,
                             ![h].pc = IF charge[r].state = "paid" THEN "settle" ELSE "fail"]
        PROVE  <1>0!:
    <3>1. charge[r].intent = i
      BY <2>3, NoneAssumption DEF StoredRefsOwned, HandlersKnow, Lookup
    <3>2. charge[r].state \in {"paid", "failed"}
      BY DEF HandlersKnow, Lookup
    <3>3. handler' \in [Handlers -> Handler]
      <4> DEFINE next == IF charge[r].state = "paid" THEN "settle" ELSE "fail"
      <4>1. next \in {"settle", "fail"}
        OBVIOUS
      <4>2. handler' = [handler EXCEPT ![h].intent = i, ![h].pc = next]
        BY <2>3
      <4> HIDE DEF next
      <4>3. handler[h] \in Handler /\ handler \in [Handlers -> Handler]
        BY DEF TypeOK
      <4>4. [[handler[h] EXCEPT !.intent = i] EXCEPT !.pc = next] \in Handler
        BY <4>1, <4>3 DEF Handler
      <4>5. handler' = [handler EXCEPT ![h] = [[handler[h] EXCEPT !.intent = i] EXCEPT !.pc = next]]
        BY <4>2, <4>3
      <4> QED
        BY <4>3, <4>4, <4>5
    <3>4. /\ \A k \in Handlers \ {h} : handler'[k] = handler[k]
          /\ handler'[h].ref = r /\ handler'[h].intent = i
          /\ handler'[h].pc = IF charge[r].state = "paid" THEN "settle" ELSE "fail"
      BY <2>3 DEF TypeOK, Handler
    <3> QED
      BY <3>1, <3>2, <3>3, <3>4
  <2> QED
    BY <2>1, <2>2, <2>3 DEF Lookup
<1>1. TypeOK'
  BY <1>0 DEF TypeOK, Lookup
<1>2. ChargesOwned' /\ StoredRefsOwned'
  BY DEF TypeOK, Intent, Charge, ChargesOwned, StoredRefsOwned, ConfirmersOwn, HandlersKnow, Lookup, Finish, Goto
<1>3. ConfirmersOwn'
  BY DEF TypeOK, Intent, Charge, ConfirmersOwn, Lookup, Finish, Goto
<1>4. HandlersKnow'
  BY <1>0 DEF Lookup, HandlersKnow, Posted
<1>5. KeyedByIntent' /\ CreditBacked' /\ CreditedOnce'
  BY DEF TypeOK, Charge, KeyedByIntent, CreditBacked, CreditedOnce, Lookup, Finish, Goto
<1>6. SucceededIsPosted' /\ ProcessedMeansSettled' /\ EventsDecided'
  BY DEF TypeOK, SucceededIsPosted, ProcessedMeansSettled, EventsDecided, Posted, HandlersKnow, Lookup, Finish, Goto
<1> QED
  BY <1>1, <1>2, <1>3, <1>4, <1>5, <1>6

\* settleSuccessful: the posting is unique by its key and backed by the paid charge.
LEMMA SettleSuccessfulInv ==
    ASSUME IInv, NEW h \in Handlers, SettleSuccessful(h)
    PROVE  IInv'
<1> USE NoneAssumption, AmountsAssumption DEF IInv
<1> DEFINE i == handler[h].intent
           p == SettlementPosting(i, handler[h].ref)
<1>a. /\ i \in Intents /\ handler[h].ref \in Refs
      /\ i = charge[handler[h].ref].intent
      /\ charge[handler[h].ref].state = "paid"
      /\ intent[i].status # "NONE"
  BY DEF SettleSuccessful, HandlersKnow, ChargesOwned
<1>b. /\ handler' \in [Handlers -> Handler]
      /\ handler'[h].pc = "mark"
      /\ handler'[h].ref = handler[h].ref
      /\ \A k \in Handlers \ {h} : handler'[k] = handler[k]
  BY GotoType DEF SettleSuccessful
<1>c. /\ intent' \in [Intents -> Intent]
      /\ \A j \in Intents \ {i} : intent'[j] = intent[j]
      /\ intent'[i].status = "SUCCEEDED"
      /\ intent'[i].ref = intent[i].ref
  BY <1>a DEF SettleSuccessful, TypeOK, Intent, IntentStatus
<1>d. /\ p.key = i /\ p.intent = i
      /\ intent[i].status # "SUCCEEDED" => p \in Posting
  <2>1. intent[i].amount \in Nat /\ intent[i].fee \in Nat
    BY <1>a DEF TypeOK, Intent
  <2>2. p = [key |-> i, intent |-> i, gross |-> intent[i].amount,
             credit |-> intent[i].amount - intent[i].fee, fee |-> intent[i].fee]
    BY DEF SettlementPosting, SettlementKey
  <2>3. intent[i].status # "SUCCEEDED" => p.credit > 0
    BY DEF SettleSuccessful, Balanced
  <2> HIDE DEF i, p
  <2>4. p.credit = intent[i].amount - intent[i].fee
    BY <2>2
  <2>5. intent[i].status # "SUCCEEDED" => intent[i].amount - intent[i].fee \in Nat
    BY <2>1, <2>3, <2>4
  <2> QED
    BY <1>a, <2>1, <2>2, <2>5 DEF Posting
<1>e. \/ ledger' = ledger
      \/ /\ ledger' = ledger \cup {p}
         /\ p \in Posting
         /\ \A q \in ledger : q.key # i
  BY <1>d DEF SettleSuccessful, PostWithin
<1>f. \E q \in ledger' : q.intent = i
  <2>1. CASE intent[i].status = "SUCCEEDED"
    BY <1>a, <2>1 DEF SettleSuccessful, SucceededIsPosted, Posted
  <2>2. CASE intent[i].status # "SUCCEEDED"
    BY <1>d, <2>2 DEF SettleSuccessful, PostWithin, KeyedByIntent
  <2> QED
    BY <2>1, <2>2
<1> HIDE DEF i, p
<1>1. TypeOK'
  BY <1>b, <1>c, <1>e DEF TypeOK, SettleSuccessful
<1>2. ChargesOwned' /\ StoredRefsOwned'
  BY <1>c DEF SettleSuccessful, ChargesOwned, StoredRefsOwned
<1>3. ConfirmersOwn'
  BY <1>c DEF SettleSuccessful, ConfirmersOwn
<1>4. HandlersKnow'
  BY <1>a, <1>b, <1>e, <1>f DEF SettleSuccessful, HandlersKnow, Posted
<1>5. KeyedByIntent' /\ CreditBacked' /\ CreditedOnce'
  BY <1>a, <1>d, <1>e DEF SettleSuccessful, KeyedByIntent, CreditBacked, CreditedOnce
<1>6. SucceededIsPosted' /\ ProcessedMeansSettled' /\ EventsDecided'
  BY <1>c, <1>e, <1>f DEF SettleSuccessful, SucceededIsPosted, ProcessedMeansSettled, EventsDecided, Posted
<1> QED
  BY <1>1, <1>2, <1>3, <1>4, <1>5, <1>6

\* settleFailed writes a status and posts nothing.
LEMMA SettleFailedInv ==
    ASSUME IInv, NEW h \in Handlers, SettleFailed(h)
    PROVE  IInv'
<1> USE NoneAssumption, AmountsAssumption DEF SettleFailed, Goto, IInv
<1>a. /\ handler' \in [Handlers -> Handler]
      /\ handler'[h].pc = "mark"
      /\ handler'[h].ref = handler[h].ref
      /\ \A k \in Handlers \ {h} : handler'[k] = handler[k]
  BY GotoType DEF SettleFailed
<1>b. charge[handler[h].ref].state = "failed"
  BY DEF SettleFailed, HandlersKnow
<1>1. TypeOK'
  <2> DEFINE i == handler[h].intent
  <2>0. intent \in [Intents -> Intent]
    BY DEF TypeOK
  <2>1. intent' \in [Intents -> Intent]
    <3>1. ASSUME NEW j \in Intents
          PROVE  [intent[j] EXCEPT !.status = "FAILED"] \in Intent
      BY <2>0 DEF Intent, IntentStatus
    <3>2. intent' = [j \in Intents |-> IF j = i THEN [intent[j] EXCEPT !.status = "FAILED"] ELSE intent[j]]
      BY <2>0
    <3> QED
      BY <2>0, <3>1, <3>2
  <2> QED
    BY <2>1, <1>a DEF SettleFailed, TypeOK
<1>2. ChargesOwned' /\ StoredRefsOwned'
  BY DEF TypeOK, Intent, Charge, ChargesOwned, StoredRefsOwned, ConfirmersOwn, HandlersKnow
<1>3. ConfirmersOwn'
  BY DEF TypeOK, Intent, Charge, ConfirmersOwn
<1>4. HandlersKnow'
  BY <1>a, <1>b DEF SettleFailed, HandlersKnow, Posted
<1>5. KeyedByIntent' /\ CreditBacked' /\ CreditedOnce'
  BY DEF TypeOK, Charge, KeyedByIntent, CreditBacked, CreditedOnce
<1>6. SucceededIsPosted' /\ ProcessedMeansSettled' /\ EventsDecided'
  BY DEF TypeOK, SucceededIsPosted, ProcessedMeansSettled, EventsDecided, Posted, HandlersKnow
<1> QED
  BY <1>1, <1>2, <1>3, <1>4, <1>5, <1>6

\* applyToLedger marks the event of a posted intent.
LEMMA MarkProcessedInv ==
    ASSUME IInv, NEW h \in Handlers, MarkProcessed(h)
    PROVE  IInv'
<1> USE NoneAssumption, AmountsAssumption DEF MarkProcessed, Finish, IInv
<1>1. TypeOK'
  <2>1. event' \in [Refs -> EventStatus]
    BY DEF TypeOK, EventStatus, HandlersKnow
  <2> QED
    BY <2>1, FinishType DEF TypeOK
<1>2. ChargesOwned' /\ StoredRefsOwned'
  BY DEF TypeOK, Intent, Charge, ChargesOwned, StoredRefsOwned, ConfirmersOwn, HandlersKnow
<1>3. ConfirmersOwn'
  BY DEF TypeOK, Intent, Charge, ConfirmersOwn
<1>4. HandlersKnow'
  BY DEF TypeOK, Charge, HandlersKnow, Posted, Handler, IdleHandler
<1>5. KeyedByIntent' /\ CreditBacked' /\ CreditedOnce'
  BY DEF TypeOK, Charge, KeyedByIntent, CreditBacked, CreditedOnce
<1>6. SucceededIsPosted' /\ ProcessedMeansSettled' /\ EventsDecided'
  BY DEF TypeOK, SucceededIsPosted, ProcessedMeansSettled, EventsDecided, Posted, HandlersKnow
<1> QED
  BY <1>1, <1>2, <1>3, <1>4, <1>5, <1>6

\* A posting the ledger rejects changes only the event row.
LEMMA PostingRejectedInv ==
    ASSUME IInv, NEW h \in Handlers, PostingRejected(h)
    PROVE  IInv'
<1> USE NoneAssumption, AmountsAssumption DEF PostingRejected, AwaitRetry, Finish, IInv
<1>1. TypeOK'
  <2>1. event' \in [Refs -> EventStatus]
    BY DEF TypeOK, EventStatus, HandlersKnow
  <2> QED
    BY <2>1, FinishType DEF TypeOK
<1>2. ChargesOwned' /\ StoredRefsOwned'
  BY DEF TypeOK, Intent, Charge, ChargesOwned, StoredRefsOwned, ConfirmersOwn, HandlersKnow
<1>3. ConfirmersOwn'
  BY DEF TypeOK, Intent, Charge, ConfirmersOwn
<1>4. HandlersKnow'
  BY DEF TypeOK, Charge, HandlersKnow, Posted, Handler, IdleHandler
<1>5. KeyedByIntent' /\ CreditBacked' /\ CreditedOnce'
  BY DEF TypeOK, Charge, KeyedByIntent, CreditBacked, CreditedOnce
<1>6. SucceededIsPosted' /\ ProcessedMeansSettled' /\ EventsDecided'
  BY DEF TypeOK, SucceededIsPosted, ProcessedMeansSettled, EventsDecided, Posted, HandlersKnow
<1> QED
  BY <1>1, <1>2, <1>3, <1>4, <1>5, <1>6

\* A fault inside applyToLedger changes only the event row.
LEMMA ApplyFaultInv ==
    ASSUME IInv, NEW h \in Handlers, ApplyFault(h)
    PROVE  IInv'
<1> USE NoneAssumption, AmountsAssumption DEF ApplyFault, AwaitRetry, Finish, IInv
<1>1. TypeOK'
  <2>1. event' \in [Refs -> EventStatus] /\ faults' \in Nat
    BY DEF TypeOK, EventStatus, HandlersKnow
  <2> QED
    BY <2>1, FinishType DEF TypeOK
<1>2. ChargesOwned' /\ StoredRefsOwned'
  BY DEF TypeOK, Intent, Charge, ChargesOwned, StoredRefsOwned, ConfirmersOwn, HandlersKnow
<1>3. ConfirmersOwn'
  BY DEF TypeOK, Intent, Charge, ConfirmersOwn
<1>4. HandlersKnow'
  BY DEF TypeOK, Charge, HandlersKnow, Posted, Handler, IdleHandler
<1>5. KeyedByIntent' /\ CreditBacked' /\ CreditedOnce'
  BY DEF TypeOK, Charge, KeyedByIntent, CreditBacked, CreditedOnce
<1>6. SucceededIsPosted' /\ ProcessedMeansSettled' /\ EventsDecided'
  BY DEF TypeOK, SucceededIsPosted, ProcessedMeansSettled, EventsDecided, Posted, HandlersKnow
<1> QED
  BY <1>1, <1>2, <1>3, <1>4, <1>5, <1>6

\* A webhook request that dies changes no row.
LEMMA HandlerFaultInv ==
    ASSUME IInv, NEW h \in Handlers, HandlerFault(h)
    PROVE  IInv'
<1> USE NoneAssumption, AmountsAssumption DEF HandlerFault, Finish, IInv
<1>1. TypeOK'
  BY DEF TypeOK, Handler, IdleHandler
<1>2. ChargesOwned' /\ StoredRefsOwned'
  BY DEF TypeOK, Intent, Charge, ChargesOwned, StoredRefsOwned, ConfirmersOwn, HandlersKnow
<1>3. ConfirmersOwn'
  BY DEF TypeOK, Intent, Charge, ConfirmersOwn
<1>4. HandlersKnow'
  BY DEF TypeOK, Charge, HandlersKnow, Posted, Handler, IdleHandler
<1>5. KeyedByIntent' /\ CreditBacked' /\ CreditedOnce'
  BY DEF TypeOK, Charge, KeyedByIntent, CreditBacked, CreditedOnce
<1>6. SucceededIsPosted' /\ ProcessedMeansSettled' /\ EventsDecided'
  BY DEF TypeOK, SucceededIsPosted, ProcessedMeansSettled, EventsDecided, Posted, HandlersKnow
<1> QED
  BY <1>1, <1>2, <1>3, <1>4, <1>5, <1>6

\* Every step keeps the inductive invariant.
LEMMA StepInv == IInv /\ [Next]_vars => IInv'
<1> SUFFICES ASSUME IInv, [Next]_vars PROVE IInv'
  OBVIOUS
<1>1. CASE Next
  <2>1. ASSUME NEW i \in Intents, Expire(i) \/ \E a \in Amounts : Create(i, a)
        PROVE  IInv'
    BY <2>1, ExpireInv, CreateInv
  <2>2. ASSUME NEW c \in Confirmers,
               \/ \E i \in Intents : Confirm(c, i)
               \/ ConfirmStep(c) \/ ConfirmFault(c)
        PROVE  IInv'
    BY <2>2, ConfirmInv, CreateChargeInv, ChargeRefusedInv, StoreChargeInv, ConfirmFaultInv
       DEF ConfirmStep
  <2>3. ASSUME NEW r \in Refs, Decide(r, "paid") \/ Decide(r, "failed")
        PROVE  IInv'
    BY <2>3, DecideInv
  <2>4. ASSUME NEW h \in Handlers,
               \/ \E r \in Refs, stale \in BOOLEAN : Deliver(h, r, stale)
               \/ HandlerStep(h) \/ ApplyFault(h) \/ HandlerFault(h)
        PROVE  IInv'
    BY <2>4, DeliverInv, InsertInv, LookupInv, SettleSuccessfulInv, SettleFailedInv,
       MarkProcessedInv, PostingRejectedInv, ApplyFaultInv, HandlerFaultInv
       DEF HandlerStep
  <2> QED
    BY <1>1, <2>1, <2>2, <2>3, <2>4 DEF Next
<1>2. CASE UNCHANGED vars
  BY <1>2 DEF vars, IInv, TypeOK, ChargesOwned, StoredRefsOwned, ConfirmersOwn,
     HandlersKnow, EventsDecided, KeyedByIntent, CreditBacked, CreditedOnce,
     SucceededIsPosted, ProcessedMeansSettled, Posted
<1> QED
  BY <1>1, <1>2

\* IInv holds in every reachable state, whatever the interleaving of confirm
\* requests, provider decisions, webhook deliveries and faults.
THEOREM InvariantHolds == Spec => []IInv
  BY InitInv, StepInv, PTL DEF Spec

\* Rows, charges, postings and local variables keep their types; a posting
\* never has a negative side.
THEOREM TypeCorrect == Spec => []TypeOK
<1>1. IInv => TypeOK
  BY DEF IInv
<1> QED
  BY <1>1, InvariantHolds, PTL

\* A deposit is credited at most once (settleSuccessful's derived key).
THEOREM CreditedAtMostOnce == Spec => []CreditedOnce
<1>1. IInv => CreditedOnce
  BY DEF IInv
<1> QED
  BY <1>1, InvariantHolds, PTL

\* An intent shown as SUCCEEDED has been posted (one transaction).
THEOREM SucceededImpliesPosted == Spec => []SucceededIsPosted
<1>1. IInv => SucceededIsPosted
  BY DEF IInv
<1> QED
  BY <1>1, InvariantHolds, PTL

\* An event shown as PROCESSED has had its money posted (applyToLedger).
THEOREM ProcessedImpliesSettled == Spec => []ProcessedMeansSettled
<1>1. IInv => ProcessedMeansSettled
  BY DEF IInv
<1> QED
  BY <1>1, InvariantHolds, PTL

-----------------------------------------------------------------------------
(* Deposits implements DepositPromise.                                     *)

Quote == [i \in Intents |-> intent[i].amount - intent[i].fee]
Asked == {i \in Intents : intent[i].status # "NONE"}
Paid == {charge[r].intent : r \in {s \in Refs : charge[s].state = "paid"}}

\* A step that keeps each intent's amount, fee and existence, the paid charges
\* and the ledger is invisible to the depositor.
LEMMA Invisible ==
    ASSUME TypeOK,
           \A i \in Intents : /\ intent'[i].amount = intent[i].amount
                              /\ intent'[i].fee = intent[i].fee
                              /\ intent'[i].status # "NONE" <=> intent[i].status # "NONE",
           \A r \in Refs : /\ charge'[r].state = "paid" <=> charge[r].state = "paid"
                           /\ charge[r].state = "paid" => charge'[r].intent = charge[r].intent,
           ledger' = ledger
    PROVE  UNCHANGED <<Asked, Quote, Paid, ledger>>
<1>1. Asked' = Asked
  BY DEF Asked
<1>2. Quote' = Quote
  BY DEF Quote
<1>3. Paid' = Paid
  BY DEF Paid
<1> QED
  BY <1>1, <1>2, <1>3

\* What the confirm requests do: nothing a depositor is promised changes.
LEMMA ConfirmInvisible ==
    ASSUME IInv, NEW c \in Confirmers,
           \/ \E i \in Intents : Confirm(c, i)
           \/ ConfirmStep(c) \/ ConfirmFault(c)
    PROVE  UNCHANGED <<Asked, Quote, Paid, ledger>>
<1>1. CASE \/ \E i \in Intents : Confirm(c, i)
           \/ ChargeRefused(c) \/ ConfirmFault(c)
  BY <1>1, Invisible DEF IInv, Confirm, ChargeRefused, ConfirmFault
<1>2. ASSUME NEW r \in Refs, CreateCharge(c, r)
      PROVE  UNCHANGED <<Asked, Quote, Paid, ledger>>
  <2>1. \A s \in Refs : /\ charge'[s].state = "paid" <=> charge[s].state = "paid"
                        /\ charge[s].state = "paid" => charge'[s].intent = charge[s].intent
    BY <1>2 DEF CreateCharge, IInv, TypeOK
  <2> QED
    BY <1>2, <2>1, Invisible DEF CreateCharge, IInv
<1>3. CASE StoreCharge(c)
  <2>1. \A i \in Intents : /\ intent'[i].amount = intent[i].amount
                           /\ intent'[i].fee = intent[i].fee
                           /\ intent'[i].status # "NONE" <=> intent[i].status # "NONE"
    BY <1>3 DEF StoreCharge, IInv, TypeOK, Intent, ConfirmersOwn
  <2> QED
    BY <1>3, <2>1, Invisible DEF StoreCharge, IInv
<1> QED
  BY <1>1, <1>2, <1>3 DEF ConfirmStep

\* What a webhook request does outside settleSuccessful's transaction.
LEMMA HandlerInvisible ==
    ASSUME IInv, NEW h \in Handlers,
           \/ \E r \in Refs, stale \in BOOLEAN : Deliver(h, r, stale)
           \/ Insert(h) \/ Lookup(h) \/ SettleFailed(h) \/ MarkProcessed(h)
           \/ PostingRejected(h) \/ ApplyFault(h) \/ HandlerFault(h)
    PROVE  UNCHANGED <<Asked, Quote, Paid, ledger>>
<1>1. CASE SettleFailed(h)
  <2>1. \A i \in Intents : /\ intent'[i].amount = intent[i].amount
                           /\ intent'[i].fee = intent[i].fee
                           /\ intent'[i].status # "NONE" <=> intent[i].status # "NONE"
    BY <1>1 DEF SettleFailed, IInv, TypeOK, Intent, HandlersKnow, ChargesOwned
  <2> QED
    BY <1>1, <2>1, Invisible DEF SettleFailed, IInv
<1>2. CASE ~SettleFailed(h)
  <2>1. UNCHANGED <<intent, charge, ledger>>
    BY <1>2 DEF Deliver, Insert, Lookup, MarkProcessed, PostingRejected, ApplyFault,
                HandlerFault, AwaitRetry
  <2> QED
    BY <2>1, Invisible DEF IInv
<1> QED
  BY <1>1, <1>2

\* Every step of the requests, the provider and the webhook handler is a step
\* the depositor was promised, or is invisible to the depositor.
LEMMA StepKeepsPromise ==
    ASSUME IInv, [Next]_vars
    PROVE  [Promise!Next]_(Promise!vars)
<1> SUFFICES ASSUME ~ UNCHANGED <<Asked, Quote, Paid, ledger>>
             PROVE  Promise!Next
  BY DEF Promise!vars, Asked, Quote, Paid
<1>1. ASSUME NEW i \in Intents, NEW a \in Amounts, Create(i, a)
      PROVE  Promise!Ask(i)
  <2>1. \A j \in Intents \ {i} : intent'[j] = intent[j]
    BY <1>1 DEF Create, IInv, TypeOK
  <2>2. intent'[i].status # "NONE" /\ intent[i].status = "NONE"
    BY <1>1 DEF Create, IInv, TypeOK
  <2>3. Asked' = Asked \cup {i} /\ i \notin Asked
    BY <2>1, <2>2 DEF Asked
  <2>4. Quote' = [Quote EXCEPT ![i] = Quote'[i]]
    BY <2>1 DEF Quote
  <2> QED
    BY <1>1, <2>3, <2>4 DEF Promise!Ask, Create, Asked, Quote
<1>2. ASSUME NEW r \in Refs, NEW outcome \in {"paid", "failed"}, Decide(r, outcome)
      PROVE  \E i \in Intents : Promise!Pay(i)
  <2> DEFINE i == charge[r].intent
  <2>1. i \in Asked
    BY <1>2 DEF Decide, IInv, ChargesOwned, Asked
  <2>2. \A s \in Refs \ {r} : charge'[s] = charge[s]
    BY <1>2 DEF Decide, IInv, TypeOK
  <2>3. charge'[r].state = outcome /\ charge'[r].intent = i /\ charge[r].state = "open"
    BY <1>2 DEF Decide, IInv, TypeOK, Charge
  <2>4. CASE outcome = "paid"
    <3>1. Paid' = Paid \cup {i}
      BY <2>2, <2>3, <2>4 DEF Paid
    <3>2. UNCHANGED <<Asked, Quote, ledger>>
      BY <1>2 DEF Decide, Asked, Quote
    <3>3. i \notin Paid
      BY <3>1, <3>2
    <3> QED
      BY <2>1, <3>1, <3>2, <3>3 DEF Promise!Pay, Asked, Quote, Paid
  <2>5. CASE outcome = "failed"
    BY <1>2, <2>2, <2>3, <2>5, Invisible DEF Decide, IInv
  <2> QED
    BY <2>4, <2>5
<1>3. ASSUME NEW h \in Handlers, SettleSuccessful(h)
      PROVE  \E i \in Intents : Promise!Credit(i)
  <2> DEFINE i == handler[h].intent
             p == SettlementPosting(i, handler[h].ref)
  <2>1. i \in Intents /\ i \in Paid /\ intent[i].status # "NONE"
    BY <1>3 DEF SettleSuccessful, IInv, HandlersKnow, ChargesOwned, Paid
  <2>2. /\ \A j \in Intents : /\ intent'[j].amount = intent[j].amount
                              /\ intent'[j].fee = intent[j].fee
                              /\ intent'[j].status # "NONE" <=> intent[j].status # "NONE"
        /\ charge' = charge
    BY <1>3, <2>1 DEF SettleSuccessful, IInv, TypeOK, Intent
  <2>3. UNCHANGED <<Asked, Quote, Paid>>
    BY <2>2 DEF Asked, Quote, Paid
  <2>4. ledger' # ledger
    BY <2>3
  <2>5. Balanced(p) /\ ledger' = ledger \cup {p} /\ \A q \in ledger : q.key # p.key
    BY <1>3, <2>4 DEF SettleSuccessful, PostWithin
  <2>6. p.key = i /\ p.intent = i /\ p.credit = Quote[i]
    BY <2>1 DEF SettlementPosting, SettlementKey, Quote
  <2>7. Quote[i] > 0
    BY <2>5, <2>6 DEF Balanced
  <2>8. \A q \in ledger : q.intent # i
    BY <2>5, <2>6 DEF IInv, KeyedByIntent
  <2> HIDE DEF i, p
  <2> QED
    BY <2>1, <2>3, <2>5, <2>6, <2>7, <2>8 DEF Promise!Credit, Asked, Quote, Paid
<1>4. ASSUME NEW i \in Intents, Expire(i)
      PROVE  FALSE
  <2>1. \A j \in Intents : /\ intent'[j].amount = intent[j].amount
                           /\ intent'[j].fee = intent[j].fee
                           /\ intent'[j].status = intent[j].status
    BY <1>4 DEF Expire, IInv, TypeOK, Intent
  <2> QED
    BY <1>4, <2>1, Invisible DEF Expire, IInv
<1>5. CASE UNCHANGED vars
  BY <1>5, Invisible DEF vars, IInv
<1> QED
  BY <1>1, <1>2, <1>3, <1>4, <1>5, ConfirmInvisible, HandlerInvisible
     DEF Next, HandlerStep, Promise!Next

\* The whole pipeline implements the promise: a wallet is credited once, only
\* after the provider collected money for that intent, by the quoted net.
THEOREM DepositsKeepPromise == Spec => KeepsPromise
<1>1. Init => Promise!Init
  <2> SUFFICES ASSUME Init PROVE Promise!Init
    OBVIOUS
  <2>1. Asked = {} /\ Paid = {}
    BY DEF Init, Asked, Paid
  <2>2. Quote = [i \in Intents |-> 0]
    BY DEF Init, Quote
  <2> QED
    BY <2>1, <2>2 DEF Promise!Init, Init, Asked, Paid, Quote
<1> QED
  BY <1>1, StepKeepsPromise, InvariantHolds, PTL DEF Spec, KeepsPromise, Promise!Spec

-----------------------------------------------------------------------------
(* Referrals.                                                              *)

\* A reward, standing or reversed, was granted for a deposit of its referral
\* under its campaign, and the qualification of that deposit is on record.
RewardEarned ==
    \A r \in Referrals, c \in Campaigns : reward[r][c] # "none" =>
        \E d \in Deposits : /\ ReferralOf[d] = r
                            /\ award[d].pc = "done"
                            /\ award[d].campaign = c
                            /\ qualification[d] # "none"

\* A clawback under way works on a reward that was granted.
ClawbackOfReward ==
    \A d \in Deposits : clawback[d].pc # "idle" =>
        reward[ReferralOf[d]][clawback[d].campaign] # "none"

\* The reference of a reversal is taken once: whoever took it is the only one
\* to mark its deposit, and no deposit was marked before.
MarkedAlone ==
    \A d \in Deposits : clawback[d].pc = "mark" =>
        /\ referenceUsed
        /\ \A e \in Deposits : /\ clawback[e].pc = "mark" => e = d
                               /\ qualification[e] # "reversed"

\* So at most one deposit is ever marked, and a reward of its referral is
\* reversed with it.
ReversedAlone ==
    \A d \in Deposits : qualification[d] = "reversed" =>
        /\ referenceUsed
        /\ \A e \in Deposits : qualification[e] = "reversed" => e = d
        /\ \E c \in Campaigns : reward[ReferralOf[d]][c] = "REVERSED"

ReferralsInv ==
    ReferralsOK /\ RewardEarned /\ ClawbackOfReward /\ MarkedAlone /\ ReversedAlone

LEMMA ReferralsInitInv == ReferralsInit => ReferralsInv /\ BoundCapHeld
<1> SUFFICES ASSUME ReferralsInit PROVE ReferralsInv /\ BoundCapHeld
  OBVIOUS
<1>1. ReferralsInv
  BY ReferralAssumption DEF ReferralsInit, ReferralsInv, ReferralsOK, RewardEarned,
     ClawbackOfReward, MarkedAlone, ReversedAlone
<1>2. ASSUME NEW r \in Referrals, NEW c \in Campaigns
      PROVE  Cardinality({s \in Rewarded(ReferrerOf[r], c) : CampaignOf[s] = c}) <= MaxRewards
  <2>1. {s \in Rewarded(ReferrerOf[r], c) : CampaignOf[s] = c} = {}
    BY <1>2 DEF ReferralsInit, Rewarded
  <2> QED
    BY <2>1, FS_EmptySet, ReferralAssumption
<1> QED
  BY <1>1, <1>2 DEF BoundCapHeld

\* The steps of onDepositSettled that grant nothing, the campaigns and the
\* provider's reversals leave the rewards and the qualifications alone.
LEMMA ReferralsQuietInv ==
    ASSUME ReferralsInv,
           \/ NewCampaign
           \/ \E d \in Deposits : \/ DepositSettled(d) \/ ReadReferral(d)
                                  \/ AlreadyAwarded(d) \/ Refuse(d)
                                  \/ AwardDropped(d) \/ Undo(d)
    PROVE  ReferralsInv' /\ UNCHANGED <<reward, qualification>>
<1> USE ReferralAssumption DEF ReferralsInv
<1>1. CASE NewCampaign
  BY <1>1 DEF NewCampaign, ReferralsOK, RewardEarned, ClawbackOfReward, MarkedAlone,
     ReversedAlone
<1>2. ASSUME NEW d \in Deposits, DepositSettled(d)
      PROVE  ReferralsInv' /\ UNCHANGED <<reward, qualification>>
  <2>1. ReferralsOK'
    BY <1>2 DEF DepositSettled, EligibleCampaign, ReferralsOK
  <2>2. \A e \in Deposits : award[e].pc = "done" => award'[e] = award[e]
    BY <1>2 DEF DepositSettled, ReferralsOK
  <2> QED
    BY <1>2, <2>1, <2>2 DEF DepositSettled, ReferralsOK, RewardEarned, ClawbackOfReward,
       MarkedAlone, ReversedAlone
<1>3. ASSUME NEW d \in Deposits,
             ReadReferral(d) \/ AlreadyAwarded(d) \/ Refuse(d) \/ AwardDropped(d)
      PROVE  ReferralsInv' /\ UNCHANGED <<reward, qualification>>
  <2>1. ReferralsOK'
    <3>1. CASE ReadReferral(d)
      <4> DEFINE next == IF status[ReferralOf[d]] = "PENDING" THEN "award" ELSE "done"
      <4>1. next \in {"award", "done"} /\ award' = [award EXCEPT ![d].pc = next]
        BY <3>1 DEF ReadReferral
      <4> HIDE DEF next
      <4>2. award' \in [Deposits -> [pc: {"none", "read", "award", "done"}, campaign: Campaigns]]
        BY <4>1 DEF ReferralsOK
      <4> QED
        BY <3>1, <4>2 DEF ReadReferral, ReferralsOK
    <3>2. CASE AlreadyAwarded(d)
      BY <3>2 DEF AlreadyAwarded, ReferralsOK
    <3>3. CASE Refuse(d)
      BY <3>3 DEF Refuse, ReferralsOK
    <3>4. CASE AwardDropped(d)
      <4>1. drops' \in Nat
        BY <3>4 DEF AwardDropped, ReferralsOK
      <4> QED
        BY <3>4, <4>1 DEF AwardDropped, ReferralsOK
    <3> QED
      BY <1>3, <3>1, <3>2, <3>3, <3>4
  <2>2. UNCHANGED <<reward, qualification, clawback, referenceUsed>>
    BY <1>3 DEF ReadReferral, AlreadyAwarded, Refuse, AwardDropped
  <2>3. \A e \in Deposits : award[e].pc = "done" => award'[e] = award[e]
    BY <1>3 DEF ReadReferral, AlreadyAwarded, Refuse, AwardDropped, ReferralsOK
  <2> QED
    BY <2>1, <2>2, <2>3 DEF ReferralsOK, RewardEarned, ClawbackOfReward, MarkedAlone,
       ReversedAlone
<1>4. ASSUME NEW d \in Deposits, Undo(d)
      PROVE  ReferralsInv' /\ UNCHANGED <<reward, qualification>>
  BY <1>4 DEF Undo, ReferralsOK, RewardEarned, ClawbackOfReward, MarkedAlone, ReversedAlone
<1> QED
  BY <1>1, <1>2, <1>3, <1>4

\* Grant: the reward is written with the qualification that earned it.
LEMMA GrantInv ==
    ASSUME ReferralsInv, NEW d \in Deposits, Grant(d)
    PROVE  ReferralsInv'
<1> USE ReferralAssumption DEF ReferralsInv
<1> DEFINE r0 == ReferralOf[d]
           c0 == award[d].campaign
<1>1. r0 \in Referrals /\ c0 \in Campaigns
  BY DEF ReferralsOK
<1>2. ReferralsOK'
  BY <1>1 DEF Grant, ReferralsOK
<1>3. /\ award'[d] = [pc |-> "done", campaign |-> c0]
      /\ \A e \in Deposits \ {d} : award'[e] = award[e]
      /\ qualification'[d] = "open"
      /\ \A e \in Deposits \ {d} : qualification'[e] = qualification[e]
  BY DEF Grant, ReferralsOK
<1>4. /\ reward[r0][c0] = "none"
      /\ reward'[r0][c0] = "RELEASED"
      /\ \A r \in Referrals, c \in Campaigns :
             r # r0 \/ c # c0 => reward'[r][c] = reward[r][c]
  BY <1>1 DEF Grant, ReferralsOK
<1>5. UNCHANGED <<clawback, referenceUsed>>
  BY DEF Grant
<1>6. RewardEarned'
  <2> SUFFICES ASSUME NEW r \in Referrals, NEW c \in Campaigns, reward'[r][c] # "none"
               PROVE  \E e \in Deposits : /\ ReferralOf[e] = r
                                          /\ award'[e].pc = "done"
                                          /\ award'[e].campaign = c
                                          /\ qualification'[e] # "none"
    BY DEF RewardEarned
  <2>1. CASE r = r0 /\ c = c0
    BY <1>3, <2>1
  <2>2. CASE r # r0 \/ c # c0
    <3>0. reward[r][c] # "none"
      BY <1>4, <2>2
    <3>a. \E e \in Deposits : /\ ReferralOf[e] = r
                               /\ award[e].pc = "done"
                               /\ award[e].campaign = c
                               /\ qualification[e] # "none"
      <4>1. RewardEarned
        OBVIOUS
      <4> HIDE DEF ReferralsInv
      <4> QED
        BY <3>0, <4>1 DEF RewardEarned
    <3>1. PICK e \in Deposits : /\ ReferralOf[e] = r
                                /\ award[e].pc = "done"
                                /\ award[e].campaign = c
                                /\ qualification[e] # "none"
      BY <3>a
    <3>2. e # d
      BY <3>1 DEF Grant
    <3> QED
      BY <1>3, <3>1, <3>2
  <2> QED
    BY <2>1, <2>2
<1>7. ClawbackOfReward'
  <2> SUFFICES ASSUME NEW e \in Deposits, clawback'[e].pc # "idle"
               PROVE  reward'[ReferralOf[e]][clawback'[e].campaign] # "none"
    BY DEF ClawbackOfReward
  <2> DEFINE r == ReferralOf[e]
             c == clawback[e].campaign
  <2>1. r \in Referrals /\ c \in Campaigns
    BY DEF ReferralsOK
  <2>2. reward[r][c] # "none" /\ clawback'[e] = clawback[e]
    BY <1>5 DEF ClawbackOfReward
  <2>3. reward'[r][c] # "none"
    <3> HIDE DEF r, c, r0, c0, ReferralsInv
    <3> QED BY <1>4, <2>1, <2>2
  <2> QED
    BY <2>2, <2>3
<1>8. MarkedAlone'
  BY <1>3, <1>5 DEF MarkedAlone
<1>9. ReversedAlone'
  <2> SUFFICES ASSUME NEW e \in Deposits, qualification'[e] = "reversed"
               PROVE  /\ referenceUsed'
                      /\ \A f \in Deposits : qualification'[f] = "reversed" => f = e
                      /\ \E c \in Campaigns : reward'[ReferralOf[e]][c] = "REVERSED"
    BY DEF ReversedAlone
  <2>1. e # d /\ qualification[e] = "reversed"
    BY <1>3
  <2>2. PICK c \in Campaigns : reward[ReferralOf[e]][c] = "REVERSED"
    BY <2>1 DEF ReversedAlone
  <2>3. ReferralOf[e] \in Referrals
    OBVIOUS
  <2>4. reward'[ReferralOf[e]][c] = "REVERSED"
    BY <1>4, <2>2, <2>3
  <2> QED
    BY <1>3, <1>5, <2>1, <2>4 DEF ReversedAlone
<1> QED
  BY <1>2, <1>6, <1>7, <1>8, <1>9

\* onDepositReversed up to the outer transaction's writes: only the first
\* reversal gets past the reference.
LEMMA ClawbackInv ==
    ASSUME ReferralsInv, NEW d \in Deposits,
           \/ \E c \in Campaigns : BeginClawback(d, c)
           \/ ReversePosting(d)
           \/ ClawbackFault(d)
    PROVE  ReferralsInv' /\ UNCHANGED <<reward, qualification>>
<1> USE ReferralAssumption DEF ReferralsInv
<1>1. UNCHANGED <<reward, qualification, award>>
  BY DEF BeginClawback, ReversePosting, ClawbackFault
<1>2. ReferralsOK'
  <2>1. ASSUME NEW c \in Campaigns, BeginClawback(d, c) PROVE ReferralsOK'
    BY <2>1 DEF BeginClawback, ReferralsOK
  <2>2. CASE ReversePosting(d)
    <3>1. ReferralOf[d] \in Referrals /\ clawback[d].campaign \in Campaigns
      BY DEF ReferralsOK
    <3>a. \/ clawback' = [clawback EXCEPT ![d].pc = "mark"]
          \/ clawback' = [clawback EXCEPT ![d].pc = "idle"]
      BY <2>2 DEF ReversePosting
    <3>2. clawback' \in [Deposits -> [pc: {"idle", "reverse", "mark"}, campaign: Campaigns]]
      <4>1. CASE clawback' = [clawback EXCEPT ![d].pc = "mark"]
        BY <4>1 DEF ReferralsOK
      <4>2. CASE clawback' = [clawback EXCEPT ![d].pc = "idle"]
        BY <4>2 DEF ReferralsOK
      <4> QED
        BY <3>a, <4>1, <4>2
    <3>b. \/ posting' = [posting EXCEPT ![ReferralOf[d]][clawback[d].campaign] = "REVERSED"]
          \/ posting' = posting
      BY <2>2 DEF ReversePosting
    <3>3. posting' \in [Referrals -> [Campaigns -> {"none", "POSTED", "REVERSED"}]]
      <4>1. CASE posting' = [posting EXCEPT ![ReferralOf[d]][clawback[d].campaign] = "REVERSED"]
        BY <3>1, <4>1 DEF ReferralsOK
      <4>2. CASE posting' = posting
        BY <4>2 DEF ReferralsOK
      <4> QED
        BY <3>b, <4>1, <4>2
    <3>4. referenceUsed' \in BOOLEAN
      BY <2>2 DEF ReversePosting, ReferralsOK
    <3> QED
      BY <2>2, <3>2, <3>3, <3>4 DEF ReversePosting, ReferralsOK
  <2>3. CASE ClawbackFault(d)
    <3>1. clawback' \in [Deposits -> [pc: {"idle", "reverse", "mark"}, campaign: Campaigns]]
      BY <2>3 DEF ClawbackFault, ReferralsOK
    <3>2. drops' \in Nat
      BY <2>3 DEF ClawbackFault, ReferralsOK
    <3> QED
      BY <2>3, <3>1, <3>2 DEF ClawbackFault, ReferralsOK
  <2> QED
    BY <2>1, <2>2, <2>3
<1>3. RewardEarned'
  BY <1>1 DEF RewardEarned
<1>4. \A e \in Deposits \ {d} : clawback'[e] = clawback[e]
  BY DEF BeginClawback, ReversePosting, ClawbackFault, ReferralsOK
<1>5. ClawbackOfReward'
  <2>1. clawback'[d].pc # "idle" => reward[ReferralOf[d]][clawback'[d].campaign] # "none"
    <3>1. ASSUME NEW c \in Campaigns, BeginClawback(d, c)
          PROVE  reward[ReferralOf[d]][clawback'[d].campaign] # "none"
      BY <3>1 DEF BeginClawback, ReferralsOK
    <3>2. CASE ReversePosting(d) \/ ClawbackFault(d)
      <4>1. clawback[d].pc # "idle" /\ clawback'[d].campaign = clawback[d].campaign
        BY <3>2 DEF ReversePosting, ClawbackFault, ReferralsOK
      <4> QED
        BY <4>1 DEF ClawbackOfReward
    <3> QED
      BY <3>1, <3>2
  <2> QED
    BY <1>1, <1>4, <2>1 DEF ClawbackOfReward
<1>6. /\ referenceUsed => referenceUsed'
      /\ clawback'[d].pc = "mark" => ~referenceUsed /\ referenceUsed'
  BY DEF BeginClawback, ReversePosting, ClawbackFault, ReferralsOK
<1>7. MarkedAlone'
  <2> SUFFICES ASSUME NEW e \in Deposits, clawback'[e].pc = "mark"
               PROVE  /\ referenceUsed'
                      /\ \A f \in Deposits : /\ clawback'[f].pc = "mark" => f = e
                                             /\ qualification'[f] # "reversed"
    BY DEF MarkedAlone
  <2>1. CASE e = d
    BY <1>1, <1>4, <1>6, <2>1 DEF MarkedAlone, ReversedAlone
  <2>2. CASE e # d
    BY <1>1, <1>4, <1>6, <2>2 DEF MarkedAlone, ReversedAlone
  <2> QED
    BY <2>1, <2>2
<1>8. ReversedAlone'
  BY <1>1, <1>6 DEF ReversedAlone
<1> QED
  BY <1>1, <1>2, <1>3, <1>5, <1>7, <1>8

\* The outer transaction marks the reward, the qualification and the referral
\* at once.
LEMMA MarkReversedInv ==
    ASSUME ReferralsInv, NEW d \in Deposits, MarkReversed(d)
    PROVE  ReferralsInv'
<1> USE ReferralAssumption DEF ReferralsInv
<1> DEFINE r0 == ReferralOf[d]
           c0 == clawback[d].campaign
<1>1. r0 \in Referrals /\ c0 \in Campaigns
  BY DEF ReferralsOK
<1>2. ReferralsOK'
  BY <1>1 DEF MarkReversed, ReferralsOK
<1>3. /\ clawback[d].pc = "mark"
      /\ clawback'[d].pc = "idle"
      /\ \A e \in Deposits \ {d} : clawback'[e] = clawback[e]
      /\ qualification'[d] = "reversed"
      /\ \A e \in Deposits \ {d} : qualification'[e] = qualification[e]
      /\ UNCHANGED <<award, referenceUsed>>
  BY DEF MarkReversed, ReferralsOK
<1>4. /\ reward[r0][c0] # "none"
      /\ reward'[r0][c0] = "REVERSED"
      /\ \A r \in Referrals, c \in Campaigns :
             r # r0 \/ c # c0 => reward'[r][c] = reward[r][c]
  BY <1>1 DEF MarkReversed, ReferralsOK, ClawbackOfReward
<1>5. RewardEarned'
  <2>1. \A r \in Referrals, c \in Campaigns : reward'[r][c] # "none" => reward[r][c] # "none"
    BY <1>4
  <2>2. \A e \in Deposits : qualification[e] # "none" => qualification'[e] # "none"
    BY <1>3
  <2> QED
    BY <1>3, <2>1, <2>2 DEF RewardEarned
<1>6. ClawbackOfReward'
  <2> SUFFICES ASSUME NEW e \in Deposits, clawback'[e].pc # "idle"
               PROVE  reward'[ReferralOf[e]][clawback'[e].campaign] # "none"
    BY DEF ClawbackOfReward
  <2>1. e # d /\ clawback'[e] = clawback[e]
    BY <1>3
  <2>2. ReferralOf[e] \in Referrals /\ clawback[e].campaign \in Campaigns
    BY DEF ReferralsOK
  <2>3. reward[ReferralOf[e]][clawback[e].campaign] # "none"
    BY <2>1 DEF ClawbackOfReward
  <2> QED
    BY <1>4, <2>1, <2>2, <2>3
<1>7. MarkedAlone'
  BY <1>3 DEF MarkedAlone
<1>8. ReversedAlone'
  <2>1. /\ referenceUsed'
        /\ \A e \in Deposits : qualification'[e] = "reversed" => e = d
    BY <1>3 DEF MarkedAlone
  <2>2. \E c \in Campaigns : reward'[ReferralOf[d]][c] = "REVERSED"
    BY <1>1, <1>4
  <2> QED
    BY <2>1, <2>2 DEF ReversedAlone
<1> QED
  BY <1>2, <1>5, <1>6, <1>7, <1>8
\* A grant keeps the cap: the rewards it counts are among the rows
\* releasedRewardCount counted, and it adds one.
LEMMA GrantKeepsCap ==
    ASSUME ReferralsOK, BoundCapHeld, NEW d \in Deposits, Grant(d)
    PROVE  BoundCapHeld'
<1> DEFINE r0 == ReferralOf[d]
           c0 == award[d].campaign
           Bound(r, c) == {s \in Rewarded(ReferrerOf[r], c) : CampaignOf[s] = c}
<1>1. r0 \in Referrals /\ c0 \in Campaigns
  BY ReferralAssumption DEF ReferralsOK
<1>2. /\ reward'[r0][c0] = "RELEASED"
      /\ \A r \in Referrals, c \in Campaigns :
             r # r0 \/ c # c0 => reward'[r][c] = reward[r][c]
  BY <1>1 DEF Grant, ReferralsOK
<1> SUFFICES ASSUME NEW r \in Referrals, NEW c \in Campaigns
             PROVE  Cardinality(Bound(r, c)') <= MaxRewards
  BY DEF BoundCapHeld
<1>3. Cardinality(Bound(r, c)) <= MaxRewards
  BY DEF BoundCapHeld
<1>4. IsFiniteSet(Bound(r, c)) /\ Cardinality(Bound(r, c)) \in Nat
  <2>1. Bound(r, c) \subseteq Referrals
    BY DEF Rewarded
  <2> QED
    BY <2>1, FS_Subset, FS_CardinalityType, ReferralAssumption
<1>5. CASE c = c0 /\ ReferrerOf[r] = ReferrerOf[r0] /\ CampaignOf[r0] = c0
  <2> DEFINE B == Bound(r, c)
             K == CountedRewards(ReferrerOf[r0], c0)
  <2>1. Bound(r, c)' \subseteq B \cup {r0}
    BY <1>2, <1>5 DEF Rewarded
  <2>2. IsFiniteSet(K)
    <3>1. K \subseteq Referrals \X Campaigns
      BY DEF CountedRewards
    <3> QED
      BY <3>1, FS_Product, FS_Subset, ReferralAssumption
  <2>3. Cardinality(B) <= Cardinality(K)
    <3> DEFINE f == [s \in B |-> <<s, c0>>]
    <3>1. \A s \in B : <<s, c0>> \in K
      BY <1>1, <1>5 DEF Rewarded, CountedRewards
    <3>2. f \in Injection(B, K)
      BY <3>1 DEF Injection, IsInjective
    <3> QED
      BY <2>2, <3>2, FS_Injection
  <2>4. Cardinality(K) < MaxRewards /\ Cardinality(K) \in Nat
    BY <2>2, FS_CardinalityType DEF Grant, IsUnderCap
  <2>5. /\ IsFiniteSet(B \cup {r0})
        /\ Cardinality(B \cup {r0}) <= Cardinality(B) + 1
    <3> HIDE DEF B, r0
    <3>1. IsFiniteSet(B) /\ Cardinality(B) \in Nat
      BY <1>4 DEF B
    <3>2. /\ IsFiniteSet(B \cup {r0})
          /\ Cardinality(B \cup {r0}) =
                IF r0 \in B THEN Cardinality(B) ELSE Cardinality(B) + 1
      BY <3>1, FS_AddElement
    <3> QED
      BY <3>1, <3>2
  <2>6. /\ Cardinality(Bound(r, c)') <= Cardinality(B \cup {r0})
        /\ Cardinality(Bound(r, c)') \in Nat
        /\ Cardinality(B \cup {r0}) \in Nat
    BY <2>1, <2>5, FS_Subset, FS_CardinalityType
  <2> HIDE DEF B, K
  <2> QED
    BY <1>4, <2>3, <2>4, <2>5, <2>6, ReferralAssumption DEF B
<1>6. CASE ~(c = c0 /\ ReferrerOf[r] = ReferrerOf[r0] /\ CampaignOf[r0] = c0)
  <2>1. Bound(r, c)' = Bound(r, c)
    BY <1>1, <1>2, <1>6 DEF Rewarded
  <2> QED
    BY <1>3, <2>1
<1> QED
  BY <1>5, <1>6

\* A clawback only takes rewards away, and with them room under the cap.
LEMMA MarkReversedKeepsCap ==
    ASSUME ReferralsOK, BoundCapHeld, NEW d \in Deposits, MarkReversed(d)
    PROVE  BoundCapHeld'
<1> DEFINE Bound(r, c) == {s \in Rewarded(ReferrerOf[r], c) : CampaignOf[s] = c}
<1> SUFFICES ASSUME NEW r \in Referrals, NEW c \in Campaigns
             PROVE  Cardinality(Bound(r, c)') <= MaxRewards
  BY DEF BoundCapHeld
<1>1. ReferralOf[d] \in Referrals /\ clawback[d].campaign \in Campaigns
  BY ReferralAssumption DEF ReferralsOK
<1>2. \A s \in Referrals, v \in Campaigns :
          reward'[s][v] = "RELEASED" => reward[s][v] = "RELEASED"
  BY <1>1 DEF MarkReversed, ReferralsOK
<1>3. Bound(r, c)' \subseteq Bound(r, c) /\ Bound(r, c) \subseteq Referrals
  BY <1>2 DEF Rewarded
<1>4. Cardinality(Bound(r, c)) <= MaxRewards
  BY DEF BoundCapHeld
<1> HIDE DEF Bound
<1>5. IsFiniteSet(Bound(r, c))
  BY <1>3, FS_Subset, ReferralAssumption
<1>6. /\ Cardinality(Bound(r, c)') <= Cardinality(Bound(r, c))
      /\ Cardinality(Bound(r, c)') \in Nat
      /\ Cardinality(Bound(r, c)) \in Nat
  BY <1>3, <1>5, FS_Subset, FS_CardinalityType
<1> QED
  BY <1>4, <1>6, ReferralAssumption

\* The invariant and the cap survive every step.
LEMMA ReferralsStepInv ==
    ASSUME ReferralsInv, BoundCapHeld, [ReferralsNext]_referralVars
    PROVE  ReferralsInv' /\ BoundCapHeld'
<1>0. ASSUME UNCHANGED reward PROVE BoundCapHeld'
  BY <1>0 DEF BoundCapHeld, Rewarded
<1>1. ASSUME NEW d \in Deposits, Grant(d) PROVE ReferralsInv' /\ BoundCapHeld'
  BY <1>1, GrantInv, GrantKeepsCap DEF ReferralsInv
<1>2. ASSUME NEW d \in Deposits, MarkReversed(d) PROVE ReferralsInv' /\ BoundCapHeld'
  BY <1>2, MarkReversedInv, MarkReversedKeepsCap DEF ReferralsInv
<1>3. ASSUME NEW d \in Deposits,
             \/ \E c \in Campaigns : BeginClawback(d, c)
             \/ ReversePosting(d) \/ ClawbackFault(d)
      PROVE  ReferralsInv' /\ BoundCapHeld'
  BY <1>0, <1>3, ClawbackInv
<1>4. ASSUME \/ NewCampaign
             \/ \E d \in Deposits : \/ DepositSettled(d) \/ ReadReferral(d)
                                    \/ AlreadyAwarded(d) \/ Refuse(d)
                                    \/ AwardDropped(d) \/ Undo(d)
      PROVE  ReferralsInv' /\ BoundCapHeld'
  BY <1>0, <1>4, ReferralsQuietInv
<1>5. CASE UNCHANGED referralVars
  BY <1>0, <1>5 DEF referralVars, ReferralsInv, ReferralsOK, RewardEarned, ClawbackOfReward,
     MarkedAlone, ReversedAlone
<1> QED
  BY <1>1, <1>2, <1>3, <1>4, <1>5 DEF ReferralsNext, AwardStep, ClawbackStep

\* Of the deposits that earned a referral its rewards, the one marked took a
\* reward with it: whatever reward still stands has another deposit behind it.
LEMMA StandingRewardsTraceable == ReferralsInv => RewardsTraceable
<1> SUFFICES ASSUME ReferralsInv, NEW r \in Referrals,
                    NEW c \in Campaigns, reward[r][c] = "RELEASED"
             PROVE  \E d \in Deposits : ReferralOf[d] = r /\ qualification[d] = "open"
  BY DEF RewardsTraceable
<1>1. PICK d \in Deposits : /\ ReferralOf[d] = r
                            /\ award[d].campaign = c
                            /\ qualification[d] # "none"
  BY DEF ReferralsInv, RewardEarned
<1>2. \A e \in Deposits : qualification[e] \in {"none", "open", "reversed"}
  BY DEF ReferralsInv, ReferralsOK
<1>3. CASE qualification[d] = "open"
  BY <1>1, <1>3
<1>4. CASE qualification[d] = "reversed"
  <2>1. PICK v \in Campaigns : reward[r][v] = "REVERSED"
    BY <1>1, <1>4 DEF ReferralsInv, ReversedAlone
  <2>2. PICK e \in Deposits : /\ ReferralOf[e] = r
                              /\ award[e].campaign = v
                              /\ qualification[e] # "none"
    BY <2>1 DEF ReferralsInv, RewardEarned
  <2>3. e # d
    BY <1>1, <2>1, <2>2
  <2>4. qualification[e] # "reversed"
    BY <1>4, <2>3 DEF ReferralsInv, ReversedAlone
  <2> QED
    BY <1>2, <2>2, <2>4
<1> QED
  BY <1>1, <1>2, <1>3, <1>4

\* The invariant of the referral rewards, with the cap.
THEOREM ReferralsInvariantHolds == ReferralsSpec => [](ReferralsInv /\ BoundCapHeld)
<1>1. ReferralsInv /\ BoundCapHeld /\ [ReferralsNext]_referralVars
          => (ReferralsInv /\ BoundCapHeld)'
  BY ReferralsStepInv
<1> QED
  BY <1>1, ReferralsInitInv, PTL DEF ReferralsSpec

\* However many deposits settle at once, no referrer keeps more rewards of the
\* referrals bound to a campaign than maximumRewards allows.
THEOREM CapIsKept == ReferralsSpec => []BoundCapHeld
  BY ReferralsInvariantHolds, PTL

\* A reward that stands always has a settled deposit whose qualification
\* stands, whatever was clawed back before it.
THEOREM RewardsStayTraceable == ReferralsSpec => []RewardsTraceable
  BY ReferralsInvariantHolds, StandingRewardsTraceable, PTL

\* Rewards, postings, qualifications and the local state of both handlers keep
\* their types.
THEOREM ReferralsAreTyped == ReferralsSpec => []ReferralsOK
<1>1. ReferralsInv => ReferralsOK
  BY DEF ReferralsInv
<1> QED
  BY <1>1, ReferralsInvariantHolds, PTL
=============================================================================
