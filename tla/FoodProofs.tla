----------------------------- MODULE FoodProofs -----------------------------
(***************************************************************************)
(* Proofs about FoodFulfilment for any members, packages, prices, orders   *)
(* and distributions; then about Kyc and CoordinatorApplications, which    *)
(* say who may coordinate a programme, for any number of requests in       *)
(* flight, any budget of attempts and any number of applications.          *)
(***************************************************************************)
EXTENDS FoodFulfilment, CoordinatorApplications, Sums, SequenceTheorems, TLAPS

SubscriptionRow == [status: {"none", "PENDING", "ACTIVE", "CANCELLED"}, quantity: Nat, paid: Nat]
PackageRow == [price: Prices, locked: BOOLEAN]
IntentRow == [status: {"none", "resolved", "REQUIRES_CONFIRMATION", "SUCCEEDED"},
              of: Subscriptions \cup {None}, amount: Nat]
OrderRow == [status: OrderStatus, received: BOOLEAN]
Items == Distributions \X Subscriptions

\* The part of IInv that enrolment and payment can disturb.
PInv == ProgrammeTypeOK /\ EnrolledAfterOpening /\ IntentsNamed /\ ActiveIsPaidInFull

FulfilmentTypeOK ==
    /\ order \in [Orders -> [status: OrderStatus, received: BOOLEAN]]
    /\ distribution \in [Distributions -> DistributionStatus]
    /\ item \in [Distributions -> SUBSET Subscriptions]
    /\ confirmation \in [Distributions \X Subscriptions -> Confirmation]
    /\ codes \in Nat
    /\ handed \in [Distributions \X Subscriptions -> Nat]

\* The part that buying and handing out can disturb.
FInv == FulfilmentTypeOK /\ PlannedIsBought /\ CollectedOnce /\ HandedOutIsBought

LEMMA Parts == IInv <=> PInv /\ FInv
  BY DEF IInv, PInv, FInv, TypeOK, FulfilmentTypeOK

-----------------------------------------------------------------------------
(* Enrolment and payment.                                                  *)

\* What an enrolment costs is a natural number.
LEMMA TotalIsNat ==
    ASSUME ProgrammeTypeOK, NEW s \in Subscriptions
    PROVE  Total(s) \in Nat
<1>1. package[PackageOf[s]].price \in Nat /\ subscription[s].quantity \in Nat
  BY ProgrammeAssumption DEF ProgrammeTypeOK
<1> QED
  BY <1>1 DEF Total

\* A step that rewrites one enrolment and the money, and leaves the status of
\* the programme and the packages alone.
LEMMA EnrolmentStep ==
    ASSUME PInv, NEW s \in Subscriptions, NEW row \in SubscriptionRow,
           subscription' = [subscription EXCEPT ![s] = row],
           row.status # "none", programme # "DRAFT",
           row.paid = IF row.status = "ACTIVE" THEN package[PackageOf[s]].price * row.quantity ELSE 0,
           UNCHANGED <<programme, package>>,
           intent' \in [Intents -> IntentRow],
           \A i \in Intents : intent'[i].status # "none" => intent'[i].of \in Subscriptions,
           refunded' \subseteq Subscriptions, wallet' \in [Users -> Nat], escrow' \in Int
    PROVE  PInv'
<1>1. subscription \in [Subscriptions -> SubscriptionRow]
  BY DEF PInv, ProgrammeTypeOK, SubscriptionRow
<1>2. subscription' \in [Subscriptions -> SubscriptionRow] /\ subscription'[s] = row
      /\ \A t \in Subscriptions \ {s} : subscription'[t] = subscription[t]
  BY <1>1
<1>3. ProgrammeTypeOK'
  BY <1>2 DEF PInv, ProgrammeTypeOK, SubscriptionRow, IntentRow
<1>4. EnrolledAfterOpening' /\ IntentsNamed'
  BY DEF PInv, EnrolledAfterOpening, IntentsNamed
<1>5. ASSUME NEW t \in Subscriptions
      PROVE  subscription'[t].paid
               = IF subscription'[t].status = "ACTIVE"
                 THEN package'[PackageOf[t]].price * subscription'[t].quantity ELSE 0
  <2>1. CASE t = s
    BY <2>1, <1>2
  <2>2. CASE t # s
    BY <2>2, <1>2 DEF PInv, ActiveIsPaidInFull, Total
  <2> QED
    BY <2>1, <2>2
<1>6. ActiveIsPaidInFull'
  BY <1>5 DEF ActiveIsPaidInFull, Total
<1> QED
  BY <1>3, <1>4, <1>6 DEF PInv

\* transitionProgramme keeps prices and never returns to a draft.
LEMMA TransitionInv ==
    ASSUME PInv, NEW to \in ProgrammeStatus, TransitionProgramme(to)
    PROVE  PInv' /\ \A p \in Packages : package'[p].price = package[p].price
<1>1. package \in [Packages -> PackageRow]
  BY DEF PInv, ProgrammeTypeOK, PackageRow
<1>2. ASSUME NEW p \in Packages
      PROVE  /\ [package[p] EXCEPT !.locked = TRUE] \in PackageRow
             /\ [package[p] EXCEPT !.locked = TRUE].price = package[p].price
  BY <1>1 DEF PackageRow
<1>3. package' \in [Packages -> PackageRow] /\ \A p \in Packages : package'[p].price = package[p].price
  BY <1>1, <1>2 DEF TransitionProgramme
<1>4. programme' \in ProgrammeStatus /\ programme' # "DRAFT"
  BY DEF TransitionProgramme, CanTransitionProgramme
<1>5. ProgrammeTypeOK'
  BY <1>3, <1>4 DEF PInv, ProgrammeTypeOK, PackageRow, TransitionProgramme
<1>6. EnrolledAfterOpening' /\ IntentsNamed'
  BY <1>4 DEF PInv, EnrolledAfterOpening, IntentsNamed, TransitionProgramme
<1>7. ActiveIsPaidInFull'
  BY <1>3, ProgrammeAssumption DEF PInv, ActiveIsPaidInFull, Total, TransitionProgramme
<1> QED
  BY <1>3, <1>5, <1>6, <1>7 DEF PInv

\* updatePackage changes a price only while nobody can have enrolled.
LEMMA UpdateInv ==
    ASSUME PInv, NEW p \in Packages, NEW price \in Prices, UpdatePackage(p, price)
    PROVE  PInv' /\ \A s \in Subscriptions : ~IsLive(s)
<1>1. \A s \in Subscriptions : subscription[s].status = "none"
  BY DEF PInv, EnrolledAfterOpening, UpdatePackage, IsPackageEditable
<1>2. package \in [Packages -> PackageRow]
  BY DEF PInv, ProgrammeTypeOK, PackageRow
<1> DEFINE new == [package[p] EXCEPT !.price = price]
<1>3. new \in PackageRow /\ package' = [package EXCEPT ![p] = new]
  BY <1>2 DEF PackageRow, UpdatePackage
<1> HIDE DEF new
<1>4. package' \in [Packages -> PackageRow]
  BY <1>2, <1>3
<1>5. ProgrammeTypeOK'
  BY <1>4 DEF PInv, ProgrammeTypeOK, PackageRow, UpdatePackage
<1>6. EnrolledAfterOpening' /\ IntentsNamed'
  BY DEF PInv, EnrolledAfterOpening, IntentsNamed, UpdatePackage
<1>7. ActiveIsPaidInFull'
  BY <1>1 DEF PInv, ActiveIsPaidInFull, UpdatePackage
<1> QED
  BY <1>1, <1>5, <1>6, <1>7 DEF PInv, IsLive

\* subscribe takes a row that holds no money.
LEMMA SubscribeInv ==
    ASSUME PInv, NEW s \in Subscriptions, NEW quantity \in Quantities, Subscribe(s, quantity)
    PROVE  PInv'
<1> DEFINE row == [status |-> "PENDING", quantity |-> quantity, paid |-> subscription[s].paid]
<1>1. subscription \in [Subscriptions -> SubscriptionRow]
  BY DEF PInv, ProgrammeTypeOK, SubscriptionRow
<1>2. subscription[s].paid = 0
  BY DEF PInv, ActiveIsPaidInFull, Subscribe, IsLive
<1>3. row \in SubscriptionRow /\ row.status = "PENDING" /\ row.paid = 0
  BY <1>2, ProgrammeAssumption DEF SubscriptionRow
<1>4. subscription' = [subscription EXCEPT ![s] = row]
  BY <1>1 DEF Subscribe, SubscriptionRow
<1> HIDE DEF row
<1>5. UNCHANGED <<programme, package, intent, refunded, wallet, escrow>> /\ programme # "DRAFT"
  BY DEF Subscribe
<1> QED
  BY <1>3, <1>4, <1>5, EnrolmentStep DEF PInv, ProgrammeTypeOK, IntentRow, IntentsNamed

\* cancelSubscription zeroes the row with the refund.
LEMMA CancelInv ==
    ASSUME PInv, NEW s \in Subscriptions, CancelSubscription(s)
    PROVE  PInv'
<1> DEFINE row == [status |-> "CANCELLED", quantity |-> subscription[s].quantity, paid |-> 0]
<1>1. subscription \in [Subscriptions -> SubscriptionRow]
  BY DEF PInv, ProgrammeTypeOK, SubscriptionRow
<1>2. row \in SubscriptionRow /\ row.status = "CANCELLED" /\ row.paid = 0
  BY <1>1 DEF SubscriptionRow
<1>3. subscription' = [subscription EXCEPT ![s] = row]
  BY <1>1 DEF CancelSubscription, SubscriptionRow
<1>4. subscription[s].paid \in Nat
  BY <1>1 DEF SubscriptionRow
<1>5. wallet' \in [Users -> Nat] /\ escrow' \in Int /\ refunded' \subseteq Subscriptions
  <2>1. OwnerOf[s] \in Users
    BY ProgrammeAssumption
  <2>2. wallet' = [wallet EXCEPT ![OwnerOf[s]] = @ + subscription[s].paid] /\ wallet \in [Users -> Nat]
    BY DEF CancelSubscription, PInv, ProgrammeTypeOK
  <2>3. escrow' = escrow - subscription[s].paid /\ escrow \in Int
    BY DEF CancelSubscription, PInv, ProgrammeTypeOK
  <2>4. refunded' \subseteq Subscriptions
    BY DEF CancelSubscription, PInv, ProgrammeTypeOK
  <2> QED
    BY <2>1, <2>2, <2>3, <2>4, <1>4
<1>6. programme # "DRAFT"
  BY DEF PInv, EnrolledAfterOpening, CancelSubscription, IsLive
<1> HIDE DEF row
<1>7. UNCHANGED <<programme, package, intent>>
  BY DEF CancelSubscription
<1> QED
  BY <1>2, <1>3, <1>5, <1>6, <1>7, EnrolmentStep DEF PInv, ProgrammeTypeOK, IntentRow, IntentsNamed

\* create adds an intent for an enrolment and touches nothing else.
LEMMA CreateInv ==
    ASSUME PInv, NEW i \in Intents,
           CreateIntent(i) \/ \E s \in Subscriptions : ResolveTarget(i, s)
    PROVE  PInv' /\ package' = package
<1>1. intent \in [Intents -> IntentRow]
  BY DEF PInv, ProgrammeTypeOK, IntentRow
<1>2. PICK row \in IntentRow :
        intent' = [intent EXCEPT ![i] = row] /\ row.of \in Subscriptions
  <2>1. CASE CreateIntent(i)
    <3> DEFINE new == [intent[i] EXCEPT !.status = "REQUIRES_CONFIRMATION"]
    <3>1. new \in IntentRow /\ new.of = intent[i].of
      BY <1>1 DEF IntentRow
    <3>2. intent' = [intent EXCEPT ![i] = new] /\ intent[i].of \in Subscriptions
      BY <2>1 DEF CreateIntent, PInv, IntentsNamed
    <3> QED
      BY <3>1, <3>2
  <2>2. CASE \E s \in Subscriptions : ResolveTarget(i, s)
    <3>1. PICK s \in Subscriptions : ResolveTarget(i, s)
      BY <2>2
    <3> DEFINE new == [status |-> "resolved", of |-> s, amount |-> Outstanding(s)]
    <3>2. Outstanding(s) \in Nat
      <4>1. Outstanding(s) \in Int
        BY TotalIsNat DEF Outstanding, PInv, ProgrammeTypeOK
      <4> QED
        BY <3>1, <4>1 DEF ResolveTarget, Resolves
    <3>3. new \in IntentRow /\ new.of = s
      BY <3>2 DEF IntentRow
    <3>4. intent' = [intent EXCEPT ![i] = new]
      BY <3>1 DEF ResolveTarget
    <3> QED
      BY <3>3, <3>4
  <2> QED
    BY <2>1, <2>2
<1>3. UNCHANGED <<programme, package, subscription, refunded, wallet, escrow>>
  BY DEF CreateIntent, ResolveTarget
<1>4. intent' \in [Intents -> IntentRow] /\ intent'[i] = row
      /\ \A j \in Intents \ {i} : intent'[j] = intent[j]
  BY <1>1, <1>2
<1>5. ProgrammeTypeOK'
  BY <1>3, <1>4 DEF PInv, ProgrammeTypeOK, IntentRow
<1>6. EnrolledAfterOpening' /\ IntentsNamed'
  BY <1>2, <1>3, <1>4 DEF PInv, EnrolledAfterOpening, IntentsNamed
<1>7. ActiveIsPaidInFull'
  BY <1>3 DEF PInv, ActiveIsPaidInFull, Total
<1> QED
  BY <1>3, <1>5, <1>6, <1>7 DEF PInv

\* A confirmation pays what is owed at that moment, and all of it.
LEMMA ConfirmInv ==
    ASSUME PInv, NEW i \in Intents, ConfirmIntent(i)
    PROVE  PInv' /\ package' = package
<1> DEFINE s == intent[i].of
           row == [status |-> "ACTIVE", quantity |-> subscription[s].quantity, paid |-> Total(s)]
           new == [intent[i] EXCEPT !.status = "SUCCEEDED"]
<1>1. s \in Subscriptions
  BY DEF PInv, IntentsNamed, ConfirmIntent
<1>2. subscription \in [Subscriptions -> SubscriptionRow] /\ intent \in [Intents -> IntentRow]
  BY DEF PInv, ProgrammeTypeOK, SubscriptionRow, IntentRow
<1>3. subscription[s].paid = 0 /\ subscription[s].status = "PENDING"
  BY <1>1 DEF PInv, ActiveIsPaidInFull, ConfirmIntent, Resolves
<1>4. Total(s) \in Nat
  BY <1>1, TotalIsNat DEF PInv
<1>5. intent[i].amount = Total(s)
  BY <1>3, <1>4 DEF ConfirmIntent, Outstanding
<1>6. row \in SubscriptionRow /\ row.status = "ACTIVE"
      /\ row.paid = package[PackageOf[s]].price * row.quantity
  BY <1>1, <1>2, <1>4 DEF SubscriptionRow, Total
<1>7. subscription' = [subscription EXCEPT ![s] = row]
  <2>1. subscription[s].paid + intent[i].amount = Total(s)
    BY <1>3, <1>4, <1>5
  <2> DEFINE paid == subscription[s].paid + intent[i].amount
  <2>2. subscription' = [subscription EXCEPT
                           ![s] = [status |-> IF paid >= Total(s) THEN "ACTIVE" ELSE subscription[s].status,
                                   quantity |-> subscription[s].quantity, paid |-> paid]]
    BY DEF ConfirmIntent
  <2>3. paid = Total(s) /\ paid >= Total(s)
    BY <2>1, <1>4
  <2> HIDE DEF paid
  <2> QED
    BY <2>2, <2>3
<1>8. wallet' \in [Users -> Nat] /\ escrow' \in Int
  <2>1. OwnerOf[s] \in Users
    BY <1>1, ProgrammeAssumption
  <2> QED
    BY <2>1, <1>4, <1>5 DEF PInv, ProgrammeTypeOK, ConfirmIntent
<1>9. new \in IntentRow /\ new.of = s
  BY <1>2 DEF IntentRow
<1>10. intent' = [intent EXCEPT ![i] = new] /\ UNCHANGED <<programme, package, refunded>>
  BY DEF ConfirmIntent
<1>11. programme # "DRAFT"
  BY DEF ConfirmIntent, Resolves
<1> HIDE DEF new, row, s
<1>12. intent' \in [Intents -> IntentRow]
       /\ \A j \in Intents : intent'[j].status # "none" => intent'[j].of \in Subscriptions
  BY <1>1, <1>2, <1>9, <1>10 DEF PInv, IntentsNamed
<1>13. refunded' \subseteq Subscriptions
  BY <1>10 DEF PInv, ProgrammeTypeOK
<1> QED
  BY <1>1, <1>6, <1>7, <1>8, <1>10, <1>11, <1>12, <1>13, EnrolmentStep

\* Every step of enrolment and payment keeps the first part, and the prices
\* of whoever is enrolled.
LEMMA ProgrammeStep ==
    ASSUME PInv, ProgrammeNext
    PROVE  /\ PInv'
           /\ \A s \in Subscriptions :
                IsLive(s) => package'[PackageOf[s]].price = package[PackageOf[s]].price
<1>1. ASSUME NEW to \in ProgrammeStatus, TransitionProgramme(to)
      PROVE  PInv' /\ \A p \in Packages : package'[p].price = package[p].price
  BY <1>1, TransitionInv
<1>2. ASSUME NEW p \in Packages, NEW price \in Prices, UpdatePackage(p, price)
      PROVE  PInv' /\ \A s \in Subscriptions : ~IsLive(s)
  BY <1>2, UpdateInv
<1>3. ASSUME NEW s \in Subscriptions, CancelSubscription(s) PROVE PInv' /\ package' = package
  BY <1>3, CancelInv DEF CancelSubscription
<1>4. ASSUME NEW s \in Subscriptions, NEW quantity \in Quantities, Subscribe(s, quantity)
      PROVE  PInv' /\ package' = package
  BY <1>4, SubscribeInv DEF Subscribe
<1>5. ASSUME NEW i \in Intents, CreateIntent(i) \/ \E s \in Subscriptions : ResolveTarget(i, s)
      PROVE  PInv' /\ package' = package
  BY <1>5, CreateInv
<1>6. ASSUME NEW i \in Intents, ConfirmIntent(i) PROVE PInv' /\ package' = package
  BY <1>6, ConfirmInv
<1> QED
  BY <1>1, <1>2, <1>3, <1>4, <1>5, <1>6, ProgrammeAssumption DEF ProgrammeNext

-----------------------------------------------------------------------------
(* Buying and handing out.                                                 *)

\* A step that changes nothing of it.
LEMMA FulfilmentFrame ==
    ASSUME FInv, UNCHANGED fulfilmentVars
    PROVE  FInv' /\ RecordsKept
<1>1. FulfilmentTypeOK' /\ PlannedIsBought'
  BY DEF FInv, FulfilmentTypeOK, PlannedIsBought, fulfilmentVars
<1>2. CollectedOnce' /\ HandedOutIsBought'
  BY DEF FInv, CollectedOnce, HandedOutIsBought, fulfilmentVars
<1>3. RecordsKept
  BY DEF RecordsKept, fulfilmentVars
<1> QED
  BY <1>1, <1>2, <1>3 DEF FInv

\* A step that rewrites one order that was not fulfilled yet.
LEMMA OrderStep ==
    ASSUME FInv, NEW o \in Orders, NEW row \in OrderRow,
           order' = [order EXCEPT ![o] = row], order[o].status # "FULFILLED",
           row.status = "FULFILLED" => row.received,
           UNCHANGED <<distribution, item, confirmation, codes, handed>>
    PROVE  FInv' /\ RecordsKept
<1>1. order \in [Orders -> OrderRow]
  BY DEF FInv, FulfilmentTypeOK, OrderRow
<1>2. order' \in [Orders -> OrderRow] /\ order'[o] = row /\ \A q \in Orders \ {o} : order'[q] = order[q]
  BY <1>1
<1>3. \A q \in Orders : order[q].status = "FULFILLED" => order'[q] = order[q]
  BY <1>2
<1>4. FulfilmentTypeOK'
  BY <1>2 DEF FInv, FulfilmentTypeOK, OrderRow
<1>5. PlannedIsBought'
  BY <1>2, <1>3 DEF FInv, PlannedIsBought
<1>6. CollectedOnce' /\ RecordsKept
  BY <1>3 DEF FInv, CollectedOnce, RecordsKept
<1>7. HandedOutIsBought'
  BY <1>3 DEF FInv, HandedOutIsBought
<1> QED
  BY <1>4, <1>5, <1>6, <1>7 DEF FInv

LEMMA OrdersInv ==
    ASSUME FInv, NEW o \in Orders,
           \/ CreatePurchaseOrder(o)
           \/ RecordReceipt(o)
           \/ \E to \in OrderStatus : TransitionPurchaseOrder(o, to)
    PROVE  FInv' /\ RecordsKept
<1>1. order \in [Orders -> OrderRow] /\ order[o] \in OrderRow
  BY DEF FInv, FulfilmentTypeOK, OrderRow
<1>2. ASSUME NEW to \in OrderStatus
      PROVE  /\ [order[o] EXCEPT !.status = to] \in OrderRow
             /\ [order[o] EXCEPT !.status = to].status = to
             /\ [order[o] EXCEPT !.status = to].received = order[o].received
  BY <1>1 DEF OrderRow
<1>3. CASE CreatePurchaseOrder(o)
  <2>1. order' = [order EXCEPT ![o] = [order[o] EXCEPT !.status = "DRAFT"]] /\ order[o].status = "none"
        /\ UNCHANGED <<distribution, item, confirmation, codes, handed>>
    BY <1>3 DEF CreatePurchaseOrder
  <2> QED
    BY <1>2, <2>1, OrderStep DEF OrderStatus
<1>4. CASE RecordReceipt(o)
  <2> DEFINE row == [order[o] EXCEPT !.received = TRUE]
  <2>1. order' = [order EXCEPT ![o] = row] /\ order[o].status = "CONFIRMED"
        /\ UNCHANGED <<distribution, item, confirmation, codes, handed>>
    BY <1>4 DEF RecordReceipt
  <2>2. row \in OrderRow /\ row.status = order[o].status
    BY <1>1 DEF OrderRow
  <2> HIDE DEF row
  <2> QED
    BY <2>1, <2>2, OrderStep
<1>5. ASSUME NEW to \in OrderStatus, TransitionPurchaseOrder(o, to) PROVE FInv' /\ RecordsKept
  <2> DEFINE row == [order[o] EXCEPT !.status = to]
  <2>1. /\ order' = [order EXCEPT ![o] = row] /\ order[o].status # "FULFILLED"
        /\ to = "FULFILLED" => order[o].received
        /\ UNCHANGED <<distribution, item, confirmation, codes, handed>>
    BY <1>5 DEF TransitionPurchaseOrder, CanTransitionPurchaseOrder
  <2>2. row \in OrderRow /\ row.status = to /\ row.received = order[o].received
    BY <1>2
  <2> HIDE DEF row
  <2>3. row.status = "FULFILLED" => row.received
    BY <2>1, <2>2
  <2> QED
    BY <2>1, <2>2, <2>3, OrderStep
<1> QED
  BY <1>3, <1>4, <1>5

\* createDistribution finds a fulfilled order.
LEMMA CreateDistributionInv ==
    ASSUME FInv, NEW d \in Distributions, CreateDistribution(d)
    PROVE  FInv' /\ RecordsKept
<1>1. /\ distribution \in [Distributions -> DistributionStatus] /\ distribution[d] = "none"
      /\ item \in [Distributions -> SUBSET Subscriptions]
      /\ distribution' = [distribution EXCEPT ![d] = "PLANNED"]
      /\ item' = [item EXCEPT ![d] = Live]
      /\ \E o \in Orders : order[o].status = "FULFILLED"
      /\ UNCHANGED <<order, confirmation, codes, handed>>
  BY DEF CreateDistribution, FInv, FulfilmentTypeOK
<1>2. Live \subseteq Subscriptions
  BY DEF Live
<1>3. distribution' \in [Distributions -> DistributionStatus]
      /\ \A e \in Distributions \ {d} : distribution'[e] = distribution[e]
  BY <1>1 DEF DistributionStatus
<1>4. item' \in [Distributions -> SUBSET Subscriptions]
      /\ \A e \in Distributions \ {d} : item'[e] = item[e]
  BY <1>1, <1>2
<1>5. FulfilmentTypeOK' /\ PlannedIsBought'
  BY <1>1, <1>3, <1>4 DEF FInv, FulfilmentTypeOK, PlannedIsBought
<1>6. CollectedOnce'
  BY <1>1 DEF FInv, CollectedOnce
<1>7. HandedOutIsBought'
  BY <1>1, <1>3, <1>4 DEF FInv, HandedOutIsBought
<1>8. RecordsKept
  BY <1>1, <1>3, <1>4 DEF RecordsKept
<1> QED
  BY <1>5, <1>6, <1>7, <1>8 DEF FInv

\* A distribution that hands out only completes.
LEMMA TransitionDistributionInv ==
    ASSUME FInv, NEW d \in Distributions, NEW to \in DistributionStatus, TransitionDistribution(d, to)
    PROVE  FInv' /\ RecordsKept
<1>1. /\ distribution \in [Distributions -> DistributionStatus]
      /\ distribution[d] \in {"PLANNED", "READY", "DISTRIBUTING"}
      /\ distribution[d] = "DISTRIBUTING" => to = "COMPLETED"
      /\ distribution' = [distribution EXCEPT ![d] = to]
      /\ UNCHANGED <<order, item, confirmation, codes, handed>>
  BY DEF TransitionDistribution, CanTransitionDistribution, FInv, FulfilmentTypeOK
<1>2. distribution' \in [Distributions -> DistributionStatus] /\ distribution'[d] = to
      /\ \A e \in Distributions \ {d} : distribution'[e] = distribution[e]
  BY <1>1
<1>3. FulfilmentTypeOK' /\ PlannedIsBought'
  BY <1>1, <1>2 DEF FInv, FulfilmentTypeOK, PlannedIsBought
<1>4. CollectedOnce'
  BY <1>1 DEF FInv, CollectedOnce
<1>5. HandedOutIsBought'
  BY <1>1, <1>2 DEF FInv, HandedOutIsBought
<1>6. RecordsKept
  BY <1>1, <1>2 DEF RecordsKept
<1> QED
  BY <1>3, <1>4, <1>5, <1>6 DEF FInv

\* A step that rewrites a confirmation nobody used, and leaves it unused.
LEMMA CodeStep ==
    ASSUME FInv, NEW x \in Items, NEW row \in Confirmation,
           confirmation' = [confirmation EXCEPT ![x] = row],
           confirmation[x].used => row.code = confirmation[x].code,
           row.used = confirmation[x].used,
           codes' \in Nat, UNCHANGED <<order, distribution, item, handed>>
    PROVE  FInv' /\ RecordsKept
<1>1. confirmation \in [Items -> Confirmation]
  BY DEF FInv, FulfilmentTypeOK, Items
<1>2. confirmation' \in [Items -> Confirmation] /\ confirmation'[x] = row
      /\ \A y \in Items \ {x} : confirmation'[y] = confirmation[y]
  BY <1>1
<1>3. \A y \in Items : confirmation'[y].used = confirmation[y].used
  BY <1>2
<1>4. FulfilmentTypeOK' /\ PlannedIsBought'
  BY <1>2 DEF FInv, FulfilmentTypeOK, PlannedIsBought, Items
<1>5. CollectedOnce'
  BY <1>3 DEF FInv, CollectedOnce, Items
<1>6. HandedOutIsBought'
  BY DEF FInv, HandedOutIsBought
<1>7. RecordsKept
  BY <1>2, <1>3 DEF RecordsKept, Items
<1> QED
  BY <1>4, <1>5, <1>6, <1>7 DEF FInv

\* issueCollectionCode and the clock leave who has collected alone.
LEMMA CodesInv ==
    ASSUME FInv, NEW d \in Distributions, NEW s \in Subscriptions,
           IssueCollectionCode(d, s) \/ CodeExpires(d, s)
    PROVE  FInv' /\ RecordsKept
<1> DEFINE x == <<d, s>>
<1>1. x \in Items /\ confirmation \in [Items -> Confirmation] /\ codes \in Nat
  BY DEF FInv, FulfilmentTypeOK, Items
<1>2. confirmation[x] \in Confirmation
  BY <1>1
<1>3. CASE IssueCollectionCode(d, s)
  <2> DEFINE row == [code |-> codes + 1, expired |-> FALSE, used |-> confirmation[x].used]
  <2>1. row \in Confirmation /\ row.used = confirmation[x].used
    BY <1>1, <1>2 DEF Confirmation
  <2>2. confirmation' = [confirmation EXCEPT ![x] = row]
    BY <1>3 DEF IssueCollectionCode
  <2>3. ~confirmation[x].used /\ codes' = codes + 1 /\ UNCHANGED <<order, distribution, item, handed>>
    BY <1>3 DEF IssueCollectionCode
  <2> HIDE DEF row, x
  <2>4. codes' \in Nat
    BY <1>1, <2>3
  <2> QED
    BY <1>1, <2>1, <2>2, <2>3, <2>4, CodeStep
<1>4. CASE CodeExpires(d, s)
  <2> DEFINE row == [confirmation[x] EXCEPT !.expired = TRUE]
  <2>1. row \in Confirmation /\ row.used = confirmation[x].used /\ row.code = confirmation[x].code
    BY <1>2 DEF Confirmation
  <2>2. confirmation' = [confirmation EXCEPT ![x] = row] /\ codes' = codes
        /\ UNCHANGED <<order, distribution, item, handed>>
    BY <1>4 DEF CodeExpires
  <2> HIDE DEF row, x
  <2> QED
    BY <1>1, <2>1, <2>2, CodeStep
<1> QED
  BY <1>3, <1>4

\* confirmCollection hands out, once, what is on the list of a distribution
\* that is handing out.
LEMMA ConfirmCollectionInv ==
    ASSUME FInv, NEW d \in Distributions, NEW code, ConfirmCollection(d, code)
    PROVE  FInv' /\ RecordsKept
<1>1. PICK s \in item[d] :
        /\ distribution[d] = "DISTRIBUTING"
        /\ ~confirmation[d, s].used
        /\ confirmation' = [confirmation EXCEPT ![<<d, s>>].used = TRUE]
        /\ handed' = [handed EXCEPT ![<<d, s>>] = @ + 1]
        /\ UNCHANGED <<programmeVars, order, distribution, item, codes>>
  BY DEF ConfirmCollection
<1> DEFINE x == <<d, s>>
           row == [confirmation[x] EXCEPT !.used = TRUE]
<1>2. s \in Subscriptions /\ x \in Items
  BY <1>1 DEF FInv, FulfilmentTypeOK, Items
<1>3. confirmation \in [Items -> Confirmation] /\ handed \in [Items -> Nat]
  BY DEF FInv, FulfilmentTypeOK, Items
<1>4. confirmation' = [confirmation EXCEPT ![x] = row] /\ handed' = [handed EXCEPT ![x] = handed[x] + 1]
      /\ ~confirmation[x].used
  BY <1>1
<1>5. row \in Confirmation /\ row.used = TRUE
  BY <1>2, <1>3 DEF Confirmation
<1>6. handed[x] = 0
  BY <1>2, <1>4 DEF FInv, CollectedOnce, Items
<1> HIDE DEF row
<1>7. confirmation' \in [Items -> Confirmation] /\ confirmation'[x] = row
      /\ \A y \in Items \ {x} : confirmation'[y] = confirmation[y]
  BY <1>2, <1>3, <1>4, <1>5
<1>8. handed' \in [Items -> Nat] /\ handed'[x] = 1 /\ \A y \in Items \ {x} : handed'[y] = handed[y]
  BY <1>2, <1>3, <1>4, <1>6
<1>9. FulfilmentTypeOK' /\ PlannedIsBought'
  BY <1>1, <1>7, <1>8 DEF FInv, FulfilmentTypeOK, PlannedIsBought, Items
<1>10. CollectedOnce'
  <2>1. ASSUME NEW y \in Items PROVE handed'[y] = IF confirmation'[y].used THEN 1 ELSE 0
    <3>1. CASE y = x
      BY <3>1, <1>5, <1>7, <1>8
    <3>2. CASE y # x
      BY <3>2, <1>7, <1>8 DEF FInv, CollectedOnce, Items
    <3> QED
      BY <3>1, <3>2
  <2> QED
    BY <2>1 DEF CollectedOnce, Items
<1>11. HandedOutIsBought'
  <2>1. ASSUME NEW e \in Distributions, NEW t \in Subscriptions, handed'[e, t] > 0
        PROVE  /\ t \in item[e]
               /\ distribution[e] \in {"DISTRIBUTING", "COMPLETED"}
               /\ \E o \in Orders : order[o].status = "FULFILLED" /\ order[o].received
    <3>1. CASE <<e, t>> = x
      <4>1. e = d /\ t = s
        BY <3>1
      <4>2. PICK o \in Orders : order[o].status = "FULFILLED"
        BY <1>1 DEF FInv, PlannedIsBought
      <4>3. order[o].received
        BY <4>2 DEF FInv, PlannedIsBought
      <4> QED
        BY <4>1, <4>2, <4>3, <1>1
    <3>2. CASE <<e, t>> # x
      <4>1. <<e, t>> \in Items
        BY DEF Items
      <4>2. handed[e, t] > 0
        BY <2>1, <3>2, <4>1, <1>8
      <4> QED
        BY <4>2 DEF FInv, HandedOutIsBought
    <3> QED
      BY <3>1, <3>2
  <2> QED
    BY <2>1, <1>1 DEF HandedOutIsBought
<1>12. RecordsKept
  BY <1>1, <1>4, <1>7 DEF RecordsKept, Items
<1> QED
  BY <1>9, <1>10, <1>11, <1>12 DEF FInv

\* Every step of buying and handing out keeps the second part; but for
\* completing the programme it leaves the first alone.
LEMMA FulfilmentStep ==
    ASSUME FInv, FulfilmentNext
    PROVE  FInv' /\ RecordsKept /\ (CompleteProgramme \/ UNCHANGED programmeVars)
<1>1. CASE CompleteProgramme
  <2>1. UNCHANGED fulfilmentVars
    BY <1>1 DEF CompleteProgramme
  <2> QED
    BY <1>1, <2>1, FulfilmentFrame
<1>2. ASSUME NEW o \in Orders,
             \/ CreatePurchaseOrder(o)
             \/ RecordReceipt(o)
             \/ \E to \in OrderStatus : TransitionPurchaseOrder(o, to)
      PROVE  FInv' /\ RecordsKept /\ UNCHANGED programmeVars
  BY <1>2, OrdersInv DEF CreatePurchaseOrder, RecordReceipt, TransitionPurchaseOrder
<1>3. ASSUME NEW d \in Distributions, CreateDistribution(d)
      PROVE  FInv' /\ RecordsKept /\ UNCHANGED programmeVars
  BY <1>3, CreateDistributionInv DEF CreateDistribution
<1>4. ASSUME NEW d \in Distributions, NEW to \in DistributionStatus, TransitionDistribution(d, to)
      PROVE  FInv' /\ RecordsKept /\ UNCHANGED programmeVars
  BY <1>4, TransitionDistributionInv DEF TransitionDistribution
<1>5. ASSUME NEW d \in Distributions, NEW s \in Subscriptions,
             IssueCollectionCode(d, s) \/ CodeExpires(d, s)
      PROVE  FInv' /\ RecordsKept /\ UNCHANGED programmeVars
  BY <1>5, CodesInv DEF IssueCollectionCode, CodeExpires
<1>6. ASSUME NEW d \in Distributions, NEW code, ConfirmCollection(d, code)
      PROVE  FInv' /\ RecordsKept /\ UNCHANGED programmeVars
  BY <1>6, ConfirmCollectionInv DEF ConfirmCollection
<1> QED
  BY <1>1, <1>2, <1>3, <1>4, <1>5, <1>6 DEF FulfilmentNext

-----------------------------------------------------------------------------
LEMMA InitInv == Init => IInv
<1> SUFFICES ASSUME Init PROVE PInv /\ FInv
  BY Parts
<1>1. ProgrammeTypeOK
  <2> DEFINE Row == [price: Prices, locked: BOOLEAN]
  <2>1. package \in [Packages -> Row]
    <3>1. package \in [Packages -> [price: Prices, locked: {FALSE}]]
      BY DEF Init, ProgrammeInit
    <3>2. [price: Prices, locked: {FALSE}] \subseteq Row
      OBVIOUS
    <3> HIDE DEF Row
    <3> QED
      BY <3>1, <3>2
  <2>2. subscription \in [Subscriptions -> [status: {"none", "PENDING", "ACTIVE", "CANCELLED"},
                                            quantity: Nat, paid: Nat]]
    BY DEF Init, ProgrammeInit
  <2>3. intent \in [Intents -> [status: {"none", "resolved", "REQUIRES_CONFIRMATION", "SUCCEEDED"},
                                of: Subscriptions \cup {None}, amount: Nat]]
    BY DEF Init, ProgrammeInit
  <2>4. wallet \in [Users -> Nat]
    BY ProgrammeAssumption DEF Init, ProgrammeInit
  <2>5. programme \in ProgrammeStatus /\ refunded \subseteq Subscriptions /\ escrow \in Int
    BY DEF Init, ProgrammeInit, ProgrammeStatus
  <2> QED
    BY <2>1, <2>2, <2>3, <2>4, <2>5 DEF ProgrammeTypeOK
<1>2. EnrolledAfterOpening /\ IntentsNamed /\ ActiveIsPaidInFull
  BY DEF Init, ProgrammeInit, EnrolledAfterOpening, IntentsNamed, ActiveIsPaidInFull
<1>3. FulfilmentTypeOK
  <2>1. order \in [Orders -> [status: OrderStatus, received: BOOLEAN]]
    <3>1. [status |-> "none", received |-> FALSE] \in [status: OrderStatus, received: BOOLEAN]
      BY DEF OrderStatus
    <3> QED
      BY <3>1, Zenon DEF Init
  <2>2. confirmation \in [Distributions \X Subscriptions -> Confirmation]
    <3>1. NoConfirmation \in Confirmation
      BY DEF Confirmation, NoConfirmation
    <3> QED
      BY <3>1 DEF Init
  <2>3. distribution \in [Distributions -> DistributionStatus] /\ item \in [Distributions -> SUBSET Subscriptions]
    BY DEF Init, DistributionStatus
  <2>4. codes \in Nat /\ handed \in [Distributions \X Subscriptions -> Nat]
    BY DEF Init
  <2> QED
    BY <2>1, <2>2, <2>3, <2>4 DEF FulfilmentTypeOK
<1>4. PlannedIsBought /\ CollectedOnce
  BY DEF Init, PlannedIsBought, CollectedOnce, NoConfirmation
<1>5. HandedOutIsBought
  <2>1. ASSUME NEW d \in Distributions, NEW s \in Subscriptions
        PROVE  ~(handed[<<d, s>>] > 0)
    BY DEF Init
  <2> QED
    BY <2>1 DEF HandedOutIsBought
<1> QED
  BY <1>1, <1>2, <1>3, <1>4, <1>5 DEF PInv, FInv

\* Prices of enrolled members, written for a step.
PricesKept ==
    \A s \in Subscriptions : IsLive(s) => package'[PackageOf[s]].price = package[PackageOf[s]].price

\* A step that leaves packages, enrolments, intents and money alone.
LEMMA ProgrammeFrame ==
    ASSUME PInv, UNCHANGED <<package, subscription, intent, refunded, wallet, escrow>>,
           programme' = programme \/ programme' = "COMPLETED"
    PROVE  PInv' /\ PricesKept
<1>1. ProgrammeTypeOK'
  BY DEF PInv, ProgrammeTypeOK, ProgrammeStatus
<1>2. EnrolledAfterOpening' /\ IntentsNamed'
  BY DEF PInv, EnrolledAfterOpening, IntentsNamed
<1>3. ActiveIsPaidInFull' /\ PricesKept
  BY DEF PInv, ActiveIsPaidInFull, Total, PricesKept
<1> QED
  BY <1>1, <1>2, <1>3 DEF PInv

\* Every step keeps the invariant, the records and the agreed prices.
LEMMA NextInv ==
    ASSUME IInv, [Next]_vars
    PROVE  IInv' /\ RecordsKept /\ PricesKept
<1> USE Parts
<1>1. CASE ProgrammeNext /\ UNCHANGED fulfilmentVars
  <2>1. PInv' /\ PricesKept
    BY <1>1, ProgrammeStep DEF PricesKept
  <2>2. FInv' /\ RecordsKept
    BY <1>1, FulfilmentFrame
  <2> QED
    BY <2>1, <2>2 DEF IInv, PInv, FInv, TypeOK, FulfilmentTypeOK
<1>2. CASE FulfilmentNext
  <2>1. FInv' /\ RecordsKept /\ (CompleteProgramme \/ UNCHANGED programmeVars)
    BY <1>2, FulfilmentStep
  <2>2. PInv' /\ PricesKept
    BY <2>1, ProgrammeFrame DEF CompleteProgramme, programmeVars
  <2> QED
    BY <2>1, <2>2 DEF IInv, PInv, FInv, TypeOK, FulfilmentTypeOK
<1>3. CASE UNCHANGED vars
  <2>1. FInv' /\ RecordsKept
    BY <1>3, FulfilmentFrame DEF vars
  <2>2. PInv' /\ PricesKept
    BY <1>3, ProgrammeFrame DEF vars, programmeVars
  <2> QED
    BY <2>1, <2>2 DEF IInv, PInv, FInv, TypeOK, FulfilmentTypeOK
<1> QED
  BY <1>1, <1>2, <1>3 DEF Next

\* The inductive invariant of FoodFulfilment.
THEOREM InvariantHolds == Spec => []IInv
<1>1. Init => IInv
  BY InitInv
<1>2. IInv /\ [Next]_vars => IInv'
  BY NextInv
<1> QED
  BY <1>1, <1>2, PTL DEF Spec

\* FoodFulfilment is type correct; no payment overdraws a wallet.
THEOREM TypeCorrect == Spec => []TypeOK
<1>1. IInv => TypeOK
  BY DEF IInv
<1> QED
  BY <1>1, InvariantHolds, PTL

\* settle and refundWithin: an enrolment has paid its price or nothing.
THEOREM EnrolmentsArePaidInFull == Spec => []ActiveIsPaidInFull
<1>1. IInv => ActiveIsPaidInFull
  BY DEF IInv
<1> QED
  BY <1>1, InvariantHolds, PTL

\* confirmCollection: food leaves once for each item, whatever codes exist.
THEOREM FoodLeavesOnce == Spec => []CollectedOnce
<1>1. IInv => CollectedOnce
  BY DEF IInv
<1> QED
  BY <1>1, InvariantHolds, PTL

\* Food is handed out after it was bought, and only to those on the list.
THEOREM HandOutsFollowReceipts == Spec => []HandedOutIsBought
<1>1. IInv => HandedOutIsBought
  BY DEF IInv
<1> QED
  BY <1>1, InvariantHolds, PTL

\* transitionPurchaseOrder, transitionDistribution, issueCollectionCode:
\* settled records never change.
THEOREM RecordsAreFinal == Spec => RecordsStay
<1>1. IInv /\ [Next]_vars => [RecordsKept]_vars
  BY NextInv
<1> QED
  BY <1>1, InvariantHolds, PTL DEF Spec, RecordsStay

\* updatePackage: the price of an enrolled member's package never changes.
THEOREM PricesAreAgreed == Spec => AgreedPriceStays
<1>1. IInv /\ [Next]_vars => [PricesKept]_programmeVars
  BY NextInv
<1> QED
  BY <1>1, InvariantHolds, PTL DEF Spec, AgreedPriceStays, PricesKept

-----------------------------------------------------------------------------
(* Money.                                                                  *)

Paid == [s \in Subscriptions |-> subscription[s].paid]

RowsOf(u) == {s \in Subscriptions : OwnerOf[s] = u}

\* The escrow account and the wallets as sums of one function.
LEMMA PaidAsSums ==
    /\ PaidIsInEscrow <=>
         /\ escrow = SumFunctionOnSet(Paid, Subscriptions)
         /\ \A u \in Users : wallet[u] = Opening[u] - SumFunctionOnSet(Paid, RowsOf(u))
    /\ PaidIsInEscrow' <=>
         /\ escrow' = SumFunctionOnSet(Paid', Subscriptions)
         /\ \A u \in Users : wallet'[u] = Opening[u] - SumFunctionOnSet(Paid', RowsOf(u))
  BY DEF PaidIsInEscrow, Paid, RowsOf

\* A step that moves what one row gains from its owner's wallet to the escrow.
LEMMA MoneyFollowsRow ==
    ASSUME PInv, PaidIsInEscrow, NEW s \in Subscriptions, NEW amount \in Int,
           subscription' \in [Subscriptions -> SubscriptionRow],
           \A t \in Subscriptions \ {s} : subscription'[t] = subscription[t],
           subscription'[s].paid = subscription[s].paid + amount,
           escrow' = escrow + amount,
           wallet' = [wallet EXCEPT ![OwnerOf[s]] = @ - amount]
    PROVE  PaidIsInEscrow'
<1> DEFINE before == Paid
           after == Paid'
           owner == OwnerOf[s]
<1>1. /\ \A t \in Subscriptions : before[t] \in Int /\ after[t] \in Int
      /\ \A t \in Subscriptions \ {s} : before[t] = after[t]
      /\ before[s] \in Int /\ after[s] = before[s] + amount
  BY DEF PInv, ProgrammeTypeOK, SubscriptionRow, Paid
<1>2. IsFiniteSet(Subscriptions) /\ owner \in Users /\ Opening \in [Users -> Nat]
  BY ProgrammeAssumption
<1>3. ASSUME NEW u \in Users
      PROVE  RowsOf(u) \in SUBSET Subscriptions /\ IsFiniteSet(RowsOf(u)) /\ (s \in RowsOf(u) <=> u = owner)
  <2>1. RowsOf(u) \in SUBSET Subscriptions
    BY DEF RowsOf
  <2> QED
    BY <1>2, <2>1, FS_Subset DEF RowsOf
<1>4. wallet \in [Users -> Nat] /\ escrow \in Int
  BY DEF PInv, ProgrammeTypeOK
<1>5. /\ escrow = SumFunctionOnSet(before, Subscriptions)
      /\ \A u \in Users : wallet[u] = Opening[u] - SumFunctionOnSet(before, RowsOf(u))
  BY PaidAsSums
<1> HIDE DEF before, after, owner
<1>6. escrow' = SumFunctionOnSet(after, Subscriptions)
  <2>1. SumFunctionOnSet(after, Subscriptions) = SumFunctionOnSet(before, Subscriptions) - before[s] + after[s]
    BY <1>1, <1>2, SumChange
  <2> QED
    BY <1>1, <1>4, <1>5, <2>1
<1>7. ASSUME NEW u \in Users
      PROVE  wallet'[u] = Opening[u] - SumFunctionOnSet(after, RowsOf(u))
  <2>1. SumFunctionOnSet(before, RowsOf(u)) \in Int
    BY <1>1, <1>3, SumType
  <2>2. CASE u = owner
    <3>1. s \in RowsOf(u)
      BY <1>3, <2>2
    <3>2. SumFunctionOnSet(after, RowsOf(u)) = SumFunctionOnSet(before, RowsOf(u)) - before[s] + after[s]
      BY <1>1, <1>3, <3>1, SumChange
    <3>3. wallet'[u] = wallet[u] - amount
      BY <1>4, <2>2 DEF owner
    <3> QED
      BY <1>1, <1>2, <1>5, <2>1, <3>2, <3>3
  <2>3. CASE u # owner
    <3>1. \A t \in RowsOf(u) : before[t] = after[t]
      BY <1>1, <1>3, <2>3
    <3>2. SumFunctionOnSet(after, RowsOf(u)) = SumFunctionOnSet(before, RowsOf(u))
      BY <1>3, <3>1, SumSame
    <3>3. wallet'[u] = wallet[u]
      BY <1>4, <2>3 DEF owner
    <3> QED
      BY <1>5, <3>2, <3>3
  <2> QED
    BY <2>2, <2>3
<1> QED
  BY <1>6, <1>7, PaidAsSums DEF after

\* A step after which every row says what it said before.
LEMMA MoneyFrame ==
    ASSUME PaidIsInEscrow, UNCHANGED <<wallet, escrow>>,
           \A s \in Subscriptions : subscription'[s].paid = subscription[s].paid
    PROVE  PaidIsInEscrow'
<1>1. Paid' = Paid
  BY DEF Paid
<1> QED
  BY <1>1, PaidAsSums

\* Enrolling, cancelling with a refund and paying keep the money in step.
LEMMA MoneyStep ==
    ASSUME PInv, PInv', PaidIsInEscrow, ProgrammeNext
    PROVE  PaidIsInEscrow'
<1>1. /\ subscription \in [Subscriptions -> SubscriptionRow]
      /\ subscription' \in [Subscriptions -> SubscriptionRow]
      /\ wallet \in [Users -> Nat] /\ escrow \in Int
  BY DEF PInv, ProgrammeTypeOK, SubscriptionRow
<1>2. ASSUME NEW s \in Subscriptions, CancelSubscription(s) PROVE PaidIsInEscrow'
  <2> DEFINE amount == 0 - subscription[s].paid
  <2>1. subscription[s].paid \in Nat /\ wallet[OwnerOf[s]] \in Nat
    BY <1>1, ProgrammeAssumption DEF SubscriptionRow
  <2>2. /\ \A t \in Subscriptions \ {s} : subscription'[t] = subscription[t]
        /\ subscription'[s].paid = 0
    BY <1>1, <1>2 DEF CancelSubscription
  <2>3. escrow' = escrow + amount /\ wallet' = [wallet EXCEPT ![OwnerOf[s]] = @ - amount]
    <3>1. /\ escrow' = escrow - subscription[s].paid
          /\ wallet' = [wallet EXCEPT ![OwnerOf[s]] = wallet[OwnerOf[s]] + subscription[s].paid]
      BY <1>2 DEF CancelSubscription
    <3>2. wallet[OwnerOf[s]] + subscription[s].paid = wallet[OwnerOf[s]] - amount
      BY <2>1
    <3>3. escrow - subscription[s].paid = escrow + amount
      BY <1>1, <2>1
    <3> QED
      BY <3>1, <3>2, <3>3
  <2>4. amount \in Int /\ subscription'[s].paid = subscription[s].paid + amount
    BY <2>1, <2>2
  <2> HIDE DEF amount
  <2> QED
    BY <1>1, <2>2, <2>3, <2>4, MoneyFollowsRow
<1>3. ASSUME NEW s \in Subscriptions, NEW quantity \in Quantities, Subscribe(s, quantity)
      PROVE  PaidIsInEscrow'
  <2>1. \A t \in Subscriptions : subscription'[t].paid = subscription[t].paid
    BY <1>1, <1>3 DEF Subscribe
  <2> QED
    BY <1>3, <2>1, MoneyFrame DEF Subscribe
<1>4. ASSUME NEW i \in Intents, ConfirmIntent(i) PROVE PaidIsInEscrow'
  <2> DEFINE s == intent[i].of
             amount == intent[i].amount
  <2>1. s \in Subscriptions /\ amount \in Int
    BY <1>4 DEF PInv, ProgrammeTypeOK, IntentsNamed, ConfirmIntent
  <2>2. /\ \A t \in Subscriptions \ {s} : subscription'[t] = subscription[t]
        /\ subscription'[s].paid = subscription[s].paid + amount
    BY <1>1, <1>4, <2>1 DEF ConfirmIntent
  <2>3. escrow' = escrow + amount /\ wallet' = [wallet EXCEPT ![OwnerOf[s]] = @ - amount]
    BY <1>4 DEF ConfirmIntent
  <2> HIDE DEF s, amount
  <2> QED
    BY <1>1, <2>1, <2>2, <2>3, MoneyFollowsRow
<1>5. CASE UNCHANGED <<subscription, wallet, escrow>>
  BY <1>5, MoneyFrame
<1>6. ASSUME NEW i \in Intents, CreateIntent(i) \/ \E s \in Subscriptions : ResolveTarget(i, s)
      PROVE  PaidIsInEscrow'
  BY <1>5, <1>6 DEF CreateIntent, ResolveTarget
<1>7. ASSUME NEW to \in ProgrammeStatus, TransitionProgramme(to) PROVE PaidIsInEscrow'
  BY <1>5, <1>7 DEF TransitionProgramme
<1>8. ASSUME NEW p \in Packages, NEW price \in Prices, UpdatePackage(p, price) PROVE PaidIsInEscrow'
  BY <1>5, <1>8 DEF UpdatePackage
<1> QED
  BY <1>2, <1>3, <1>4, <1>6, <1>7, <1>8 DEF ProgrammeNext

\* Payments, refunds and enrolling again: what the rows say was paid is in
\* the escrow account and has left the wallets of their owners.
THEOREM EscrowHoldsPayments == Spec => []PaidIsInEscrow
<1>1. Init => PaidIsInEscrow
  <2> SUFFICES ASSUME Init PROVE PaidIsInEscrow
    OBVIOUS
  <2>1. IsFiniteSet(Subscriptions) /\ Opening \in [Users -> Nat]
    BY ProgrammeAssumption
  <2>2. \A s \in Subscriptions : Paid[s] = 0
    BY DEF Init, ProgrammeInit, Paid
  <2>3. SumFunctionOnSet(Paid, Subscriptions) = 0
    BY <2>1, <2>2, SumZero
  <2>4. ASSUME NEW u \in Users PROVE SumFunctionOnSet(Paid, RowsOf(u)) = 0
    <3>1. RowsOf(u) \in SUBSET Subscriptions
      BY DEF RowsOf
    <3>2. IsFiniteSet(RowsOf(u))
      BY <2>1, <3>1, FS_Subset
    <3> QED
      BY <2>2, <3>1, <3>2, SumZero
  <2>5. escrow = 0 /\ wallet = Opening
    BY DEF Init, ProgrammeInit
  <2> QED
    BY <2>1, <2>3, <2>4, <2>5, PaidAsSums
<1>2. IInv /\ IInv' /\ PaidIsInEscrow /\ [Next]_vars => PaidIsInEscrow'
  <2> SUFFICES ASSUME IInv, IInv', PaidIsInEscrow, [Next]_vars PROVE PaidIsInEscrow'
    OBVIOUS
  <2>1. PInv /\ PInv'
    BY DEF IInv, PInv, TypeOK
  <2>2. CASE ProgrammeNext
    BY <2>1, <2>2, MoneyStep
  <2>3. CASE UNCHANGED <<subscription, wallet, escrow>>
    BY <2>3, MoneyFrame
  <2>4. CASE FulfilmentNext
    <3>1. CompleteProgramme \/ UNCHANGED programmeVars
      BY <2>4, FulfilmentStep, Parts
    <3> QED
      BY <2>3, <3>1 DEF CompleteProgramme, programmeVars
  <2>5. CASE UNCHANGED vars
    BY <2>3, <2>5 DEF vars, programmeVars
  <2> QED
    BY <2>2, <2>4, <2>5 DEF Next
<1> QED
  BY <1>1, <1>2, InvariantHolds, PTL DEF Spec

-----------------------------------------------------------------------------
(* Kyc.                                                                    *)

CheckRow == [status: {"PASSED", "PENDING", "FAILED"},
             failedBy: {"provider", "reviewer"}, recent: BOOLEAN]
ProfileRow == [status: Statuses, level: 0 .. 3, restricted: BOOLEAN]
RequestRow == [at: Places, level: 0 .. 3]

\* A rejection leaves its mark on a profile that exists.
RejectedIsMarked == rejected => profile.restricted /\ profile.status # "absent"

Started(status) == status \notin {"absent", "NOT_STARTED"}

\* A check that is held has put its profile in front of a reviewer, or its
\* request is about to.
HeldIsReported ==
    (\E t \in Types : \E i \in DOMAIN checks[t] : checks[t][i].status = "PENDING") =>
        Started(profile.status) \/ \E r \in Requests : At(r, "hold")

\* Failures the provider answered with, and the requests it has not answered.
ProviderFailures(types) ==
    {ti \in RecentFailures(types) : checks[ti[1]][ti[2]].failedBy = "provider"}
InFlight(types) == {r \in Requests : request[r].at \in types}

\* Every answer that may still fail is counted already.
BudgetKept ==
    \A types \in {Identity, {"ADDRESS"}} :
        Cardinality(ProviderFailures(types)) + Cardinality(InFlight(types))
        <= MaxAttempts - 1 + Cardinality(Requests)

KycInv == KycTypeOK /\ RejectedIsMarked /\ HeldIsReported /\ BudgetKept

\* The two budgets and what is counted against them are finite.
LEMMA CountsAreFinite ==
    ASSUME NEW types \in {Identity, {"ADDRESS"}}
    PROVE  /\ IsFiniteSet(RecentFailures(types)) /\ Cardinality(RecentFailures(types)) \in Nat
           /\ IsFiniteSet(ProviderFailures(types))
           /\ Cardinality(ProviderFailures(types)) \in Nat
           /\ Cardinality(ProviderFailures(types)) <= Cardinality(RecentFailures(types))
           /\ IsFiniteSet(InFlight(types)) /\ Cardinality(InFlight(types)) \in Nat
           /\ Cardinality(InFlight(types)) <= Cardinality(Requests)
           /\ Cardinality(Requests) \in Nat
<1>1. IsFiniteSet(types)
  <2>1. IsFiniteSet({"ADDRESS"}) /\ IsFiniteSet({"NIN"})
    BY FS_Singleton
  <2>2. IsFiniteSet({"NIN"} \cup {"BVN"})
    BY <2>1, FS_AddElement
  <2>3. Identity = {"NIN"} \cup {"BVN"}
    BY DEF Identity
  <2> QED
    BY <2>1, <2>2, <2>3
<1>2. IsFiniteSet(1 .. MaxChecks)
  BY FS_Interval, KycAssumption
<1>3. IsFiniteSet(types \X (1 .. MaxChecks))
  BY <1>1, <1>2, FS_Product
<1>4. RecentFailures(types) \subseteq types \X (1 .. MaxChecks)
  BY DEF RecentFailures
<1>5. IsFiniteSet(RecentFailures(types)) /\ Cardinality(RecentFailures(types)) \in Nat
  BY <1>3, <1>4, FS_Subset, FS_CardinalityType
<1>6. ProviderFailures(types) \subseteq RecentFailures(types)
  BY DEF ProviderFailures
<1>7. /\ IsFiniteSet(ProviderFailures(types)) /\ Cardinality(ProviderFailures(types)) \in Nat
      /\ Cardinality(ProviderFailures(types)) <= Cardinality(RecentFailures(types))
  BY <1>5, <1>6, FS_Subset, FS_CardinalityType
<1>8. InFlight(types) \subseteq Requests
  BY DEF InFlight
<1>9. /\ IsFiniteSet(InFlight(types)) /\ Cardinality(InFlight(types)) \in Nat
      /\ Cardinality(InFlight(types)) <= Cardinality(Requests)
      /\ Cardinality(Requests) \in Nat
  BY <1>8, FS_Subset, FS_CardinalityType, KycAssumption
<1> QED
  BY <1>5, <1>7, <1>9

\* What moving or ending a request does to it.
LEMMA GoMoves ==
    ASSUME KycTypeOK, NEW r \in Requests, NEW place \in Places, Go(r, place)
    PROVE  /\ request' \in [Requests -> RequestRow]
           /\ request'[r].at = place
           /\ \A q \in Requests \ {r} : request'[q] = request[q]
  BY DEF KycTypeOK, Go, RequestRow

LEMMA FinishEnds ==
    ASSUME KycTypeOK, NEW r \in Requests, Finish(r)
    PROVE  /\ request' \in [Requests -> RequestRow]
           /\ request'[r].at = "idle"
           /\ \A q \in Requests \ {r} : request'[q] = request[q]
  BY DEF KycTypeOK, Finish, Idle, Places, RequestRow

\* completedLevel answers with a stage, and with none for a restricted profile.
LEMMA LevelIsStage == Level \in 0 .. 3 /\ (Restricted(profile) => Level = 0)
<1> HIDE DEF Restricted
<1> QED
  BY DEF Level, CompletedLevel

\* ensureKycProfile leaves an existing profile alone.
LEMMA EnsuredKeeps ==
    ASSUME KycTypeOK
    PROVE  /\ Ensured \in ProfileRow
           /\ Ensured.status # "absent"
           /\ profile.status # "absent" => Ensured = profile
           /\ Started(profile.status) => Started(Ensured.status)
           /\ profile.status # "absent" => Ensured.restricted = profile.restricted
<1>1. profile \in ProfileRow
  BY DEF KycTypeOK, ProfileRow
<1>2. [status |-> "PENDING", level |-> 1, restricted |-> FALSE] \in ProfileRow
  BY DEF ProfileRow, Statuses
<1> QED
  BY <1>1, <1>2 DEF Ensured, Started

\* A profile that exists keeps its restriction, and one that has started stays
\* so.
ProfileGoesOn ==
    /\ profile' \in ProfileRow
    /\ profile.status # "absent" =>
           /\ profile'.status # "absent"
           /\ profile.restricted => profile'.restricted
    /\ Started(profile.status) => Started(profile'.status)

\* A step that stores no check and sends no request to the provider keeps the
\* invariant, provided that a held check is still reported.
LEMMA QuietKycInv ==
    ASSUME KycInv, UNCHANGED <<checks, rejected>>, ProfileGoesOn,
           details' \subseteq {"basic", "pin", "document"},
           request' \in [Requests -> RequestRow],
           \A q \in Requests : request'[q].at \in Types => request'[q].at = request[q].at,
           \/ Started(profile'.status)
           \/ \A q \in Requests : request[q].at = "hold" => request'[q].at = "hold"
    PROVE  KycInv'
<1> USE DEF KycInv
<1>1. KycTypeOK'
  BY DEF KycTypeOK, ProfileGoesOn, ProfileRow, RequestRow
<1>2. RejectedIsMarked'
  BY DEF RejectedIsMarked, ProfileGoesOn
<1>3. HeldIsReported'
  BY DEF HeldIsReported, ProfileGoesOn, At
<1>4. BudgetKept'
  <2> SUFFICES ASSUME NEW types \in {Identity, {"ADDRESS"}}
               PROVE  Cardinality(ProviderFailures(types)') + Cardinality(InFlight(types)')
                      <= MaxAttempts - 1 + Cardinality(Requests)
    BY DEF BudgetKept
  <2>1. ProviderFailures(types)' = ProviderFailures(types)
    BY DEF ProviderFailures, RecentFailures
  <2>2. types \subseteq Types
    BY DEF Types
  <2>3. InFlight(types)' \subseteq InFlight(types)
    BY <2>2 DEF InFlight
  <2>4. /\ Cardinality(InFlight(types)') <= Cardinality(InFlight(types))
        /\ Cardinality(InFlight(types)') \in Nat
    BY <2>3, CountsAreFinite, FS_Subset, FS_CardinalityType
  <2>5. Cardinality(ProviderFailures(types)) + Cardinality(InFlight(types))
            <= MaxAttempts - 1 + Cardinality(Requests)
    BY DEF BudgetKept
  <2>6. /\ Cardinality(ProviderFailures(types)) \in Nat
        /\ Cardinality(InFlight(types)) \in Nat /\ Cardinality(Requests) \in Nat
    BY CountsAreFinite
  <2> QED
    BY <2>1, <2>4, <2>5, <2>6, KycAssumption
<1> QED
  BY <1>1, <1>2, <1>3, <1>4
\* verifyIdentity and verifyAddress up to the provider: a request goes out
\* only while the budget has room, whoever else is waiting.
LEMMA AttemptInv ==
    ASSUME KycInv, NEW r \in Requests, NEW types \in {Identity, {"ADDRESS"}},
           NEW place \in types, Attempt(r, place, types), At(r, "idle"),
           UNCHANGED <<details, checks, rejected>>
    PROVE  KycInv'
<1>0. KycTypeOK
  BY DEF KycInv
<1>1. CASE Exhausted(types)
  <2>1. profile' = [Ensured EXCEPT !.status = "REQUIRES_REVIEW"] /\ request' = request
    BY <1>1 DEF Attempt
  <2>2. ProfileGoesOn
    BY <1>0, <2>1, EnsuredKeeps DEF ProfileGoesOn, ProfileRow, Statuses, Started
  <2>3. /\ request' \in [Requests -> RequestRow]
        /\ details' \subseteq {"basic", "pin", "document"}
        /\ \A q \in Requests : request'[q] = request[q]
    BY <1>0, <2>1 DEF KycTypeOK, RequestRow
  <2> QED
    BY <2>2, <2>3, QuietKycInv
<1>2. CASE ~Exhausted(types)
  <2>1. profile' = Ensured /\ Go(r, place)
    BY <1>2 DEF Attempt
  <2>2. ProfileGoesOn
    BY <1>0, <2>1, EnsuredKeeps DEF ProfileGoesOn
  <2>3. place \in Types /\ place \in Places
    BY DEF Types, Identity, Places
  <2>4. /\ request' \in [Requests -> RequestRow]
        /\ request'[r].at = place
        /\ \A q \in Requests \ {r} : request'[q] = request[q]
    BY <1>0, <2>1, <2>3, GoMoves
  <2>5. KycTypeOK'
    BY <1>0, <2>2, <2>4 DEF KycTypeOK, ProfileGoesOn, ProfileRow, RequestRow
  <2>6. RejectedIsMarked'
    BY <2>2 DEF KycInv, RejectedIsMarked, ProfileGoesOn
  <2>7. \A q \in Requests : request[q].at = "hold" => request'[q].at = "hold"
    BY <2>4 DEF At
  <2>8. HeldIsReported'
    BY <2>2, <2>7 DEF KycInv, HeldIsReported, ProfileGoesOn, At
  <2>9. BudgetKept'
    <3> SUFFICES ASSUME NEW ts \in {Identity, {"ADDRESS"}}
                 PROVE  Cardinality(ProviderFailures(ts)') + Cardinality(InFlight(ts)')
                        <= MaxAttempts - 1 + Cardinality(Requests)
      BY DEF BudgetKept
    <3>1. ProviderFailures(ts)' = ProviderFailures(ts)
      BY DEF ProviderFailures, RecentFailures
    <3>2. /\ Cardinality(ProviderFailures(ts)) \in Nat
          /\ Cardinality(RecentFailures(ts)) \in Nat
          /\ Cardinality(ProviderFailures(ts)) <= Cardinality(RecentFailures(ts))
          /\ IsFiniteSet(InFlight(ts)) /\ Cardinality(InFlight(ts)) \in Nat
          /\ Cardinality(Requests) \in Nat
      BY CountsAreFinite
    <3>3. CASE ts = types
      <4>1. InFlight(ts)' \subseteq Requests
        BY DEF InFlight
      <4>2. Cardinality(InFlight(ts)') <= Cardinality(Requests)
            /\ Cardinality(InFlight(ts)') \in Nat
        BY <4>1, FS_Subset, FS_CardinalityType, KycAssumption
      <4>3. Cardinality(RecentFailures(ts)) < MaxAttempts
        BY <1>2, <3>2, <3>3, KycAssumption DEF Exhausted
      <4> QED
        BY <3>1, <3>2, <4>2, <4>3, KycAssumption
    <3>4. CASE ts # types
      <4>1. place \notin ts
        BY <3>4 DEF Identity
      <4>2. InFlight(ts)' \subseteq InFlight(ts)
        BY <2>4, <4>1 DEF InFlight
      <4>3. Cardinality(InFlight(ts)') <= Cardinality(InFlight(ts))
            /\ Cardinality(InFlight(ts)') \in Nat
        BY <3>2, <4>2, FS_Subset, FS_CardinalityType
      <4>4. Cardinality(ProviderFailures(ts)) + Cardinality(InFlight(ts))
                <= MaxAttempts - 1 + Cardinality(Requests)
        BY DEF KycInv, BudgetKept
      <4> QED
        BY <3>1, <3>2, <4>3, <4>4, KycAssumption
    <3> QED
      BY <3>3, <3>4
  <2> QED
    BY <2>5, <2>6, <2>8, <2>9 DEF KycInv
<1> QED
  BY <1>1, <1>2

\* A set with one element more counts one more at most.
LEMMA OneMore ==
    ASSUME NEW S, IsFiniteSet(S), NEW x
    PROVE  IsFiniteSet(S \cup {x}) /\ Cardinality(S \cup {x}) <= Cardinality(S) + 1
<1>1. Cardinality(S) \in Nat
  BY FS_CardinalityType
<1>2. /\ IsFiniteSet(S \cup {x})
      /\ Cardinality(S \cup {x}) = IF x \in S THEN Cardinality(S) ELSE Cardinality(S) + 1
  BY FS_AddElement
<1> QED
  BY <1>1, <1>2

\* What storing an answer does: one check more, the request answered.
LEMMA StoreCheckInv ==
    ASSUME KycInv, NEW r \in Requests, NEW type \in Types,
           NEW status \in {"PASSED", "PENDING", "FAILED"},
           request[r].at = type, StoreCheck(r, type, status)
    PROVE  KycInv'
<1> DEFINE row == Check(status)
           n == Len(checks[type]) + 1
<1>0. KycTypeOK
  BY DEF KycInv
<1>1. row \in CheckRow /\ row.status = status
  BY DEF Check, CheckRow
<1>2. checks \in [Types -> Seq(CheckRow)]
  BY <1>0 DEF KycTypeOK, CheckRow
<1>3. /\ checks' \in [Types -> Seq(CheckRow)]
      /\ checks'[type] = Append(checks[type], row)
      /\ \A t \in Types \ {type} : checks'[t] = checks[t]
  <2> HIDE DEF row
  <2>1. checks' = [checks EXCEPT ![type] = Append(@, row)]
    BY DEF StoreCheck, row
  <2>2. Append(checks[type], row) \in Seq(CheckRow)
    BY <1>1, <1>2, AppendProperties
  <2> QED
    BY <1>2, <2>1, <2>2
<1>4. /\ DOMAIN checks'[type] = 1 .. n
      /\ DOMAIN checks[type] = 1 .. n - 1 /\ n \in Nat
      /\ \A i \in 1 .. n - 1 : checks'[type][i] = checks[type][i]
      /\ checks'[type][n] = row
  <2> HIDE DEF row
  <2> QED
    BY <1>1, <1>2, <1>3
<1>5. UNCHANGED <<details, profile, rejected>>
  BY DEF StoreCheck
<1>6. /\ request' \in [Requests -> RequestRow]
      /\ request'[r].at \in {"idle", "hold", "sync"}
      /\ status = "PENDING" => request'[r].at = "hold"
      /\ \A q \in Requests \ {r} : request'[q] = request[q]
  <2>1. CASE status = "FAILED"
    BY <1>0, <2>1, FinishEnds DEF StoreCheck
  <2>2. CASE status = "PENDING"
    BY <1>0, <2>2, GoMoves DEF StoreCheck, Places
  <2>3. CASE status = "PASSED"
    BY <1>0, <2>3, GoMoves DEF StoreCheck, Places
  <2> QED
    BY <2>1, <2>2, <2>3
<1> HIDE DEF row, n
<1>7. KycTypeOK'
  BY <1>0, <1>3, <1>5, <1>6 DEF KycTypeOK, CheckRow, RequestRow
<1>8. RejectedIsMarked'
  BY <1>5 DEF KycInv, RejectedIsMarked
<1>9. HeldIsReported'
  <2>1. CASE status = "PENDING"
    BY <1>6, <2>1 DEF HeldIsReported, At
  <2>2. CASE status # "PENDING"
    <3>1. \A t \in Types : \A i \in DOMAIN checks'[t] :
              checks'[t][i].status = "PENDING"
                  => i \in DOMAIN checks[t] /\ checks[t][i].status = "PENDING"
      BY <1>1, <1>3, <1>4, <2>2
    <3>2. \A q \in Requests : request[q].at = "hold" => request'[q].at = "hold"
      BY <1>6 DEF Types, Identity
    <3> QED
      BY <1>5, <3>1, <3>2 DEF KycInv, HeldIsReported, At
  <2> QED
    BY <2>1, <2>2
<1>10. BudgetKept'
  <2> SUFFICES ASSUME NEW ts \in {Identity, {"ADDRESS"}}
               PROVE  Cardinality(ProviderFailures(ts)') + Cardinality(InFlight(ts)')
                      <= MaxAttempts - 1 + Cardinality(Requests)
    BY DEF BudgetKept
  <2>1. /\ IsFiniteSet(ProviderFailures(ts)) /\ Cardinality(ProviderFailures(ts)) \in Nat
        /\ IsFiniteSet(InFlight(ts)) /\ Cardinality(InFlight(ts)) \in Nat
        /\ Cardinality(Requests) \in Nat
    BY CountsAreFinite
  <2>2. Cardinality(ProviderFailures(ts)) + Cardinality(InFlight(ts))
            <= MaxAttempts - 1 + Cardinality(Requests)
    BY DEF KycInv, BudgetKept
  <2>3. InFlight(ts)' = InFlight(ts) \ {r}
    BY <1>6 DEF InFlight, Identity
  <2>4. ts \subseteq Types
    BY DEF Types
  <2>5. CASE type \in ts
    <3>1. r \in InFlight(ts)
      BY <2>5 DEF InFlight
    <3>2. Cardinality(InFlight(ts)') = Cardinality(InFlight(ts)) - 1
      BY <2>1, <2>3, <3>1, FS_RemoveElement
    <3>3. ProviderFailures(ts)' \subseteq ProviderFailures(ts) \cup {<<type, n>>}
      BY <1>3, <1>4, <2>4 DEF ProviderFailures, RecentFailures
    <3>4. /\ IsFiniteSet(ProviderFailures(ts) \cup {<<type, n>>})
          /\ Cardinality(ProviderFailures(ts) \cup {<<type, n>>})
                <= Cardinality(ProviderFailures(ts)) + 1
      BY <2>1, OneMore
    <3>5. /\ Cardinality(ProviderFailures(ts)') <= Cardinality(ProviderFailures(ts)) + 1
          /\ Cardinality(ProviderFailures(ts)') \in Nat
      <4>1. /\ Cardinality(ProviderFailures(ts)')
                  <= Cardinality(ProviderFailures(ts) \cup {<<type, n>>})
            /\ Cardinality(ProviderFailures(ts)') \in Nat
            /\ Cardinality(ProviderFailures(ts) \cup {<<type, n>>}) \in Nat
        BY <3>3, <3>4, FS_Subset, FS_CardinalityType
      <4> QED
        BY <2>1, <3>4, <4>1
    <3> QED
      BY <2>1, <2>2, <3>2, <3>5, KycAssumption
  <2>6. CASE type \notin ts
    <3>1. ProviderFailures(ts)' = ProviderFailures(ts)
      BY <1>3, <2>4, <2>6 DEF ProviderFailures, RecentFailures
    <3>2. InFlight(ts)' = InFlight(ts)
      BY <2>3, <2>6 DEF InFlight
    <3> QED
      BY <2>2, <3>1, <3>2
  <2> QED
    BY <2>5, <2>6
<1> QED
  BY <1>7, <1>8, <1>9, <1>10 DEF KycInv
\* Rewriting the rows of the checks in place, without inventing a failure of
\* the provider or a held check, keeps the invariant.
LEMMA RewrittenChecksInv ==
    ASSUME KycInv, KycTypeOK', RejectedIsMarked', UNCHANGED request,
           Started(profile.status) => Started(profile'.status),
           \A t \in Types : DOMAIN checks'[t] = DOMAIN checks[t],
           \A t \in Types : \A i \in DOMAIN checks[t] :
               /\ checks'[t][i].status = "PENDING" => checks[t][i].status = "PENDING"
               /\ /\ checks'[t][i].status = "FAILED" /\ checks'[t][i].recent
                  /\ checks'[t][i].failedBy = "provider"
                  => /\ checks[t][i].status = "FAILED" /\ checks[t][i].recent
                     /\ checks[t][i].failedBy = "provider"
    PROVE  KycInv'
<1>1. HeldIsReported'
  BY DEF KycInv, HeldIsReported, At
<1>2. BudgetKept'
  <2> SUFFICES ASSUME NEW ts \in {Identity, {"ADDRESS"}}
               PROVE  Cardinality(ProviderFailures(ts)') + Cardinality(InFlight(ts)')
                      <= MaxAttempts - 1 + Cardinality(Requests)
    BY DEF BudgetKept
  <2>1. /\ IsFiniteSet(ProviderFailures(ts)) /\ Cardinality(ProviderFailures(ts)) \in Nat
        /\ Cardinality(InFlight(ts)) \in Nat /\ Cardinality(Requests) \in Nat
    BY CountsAreFinite
  <2>2. InFlight(ts)' = InFlight(ts)
    BY DEF InFlight
  <2>3. ts \subseteq Types
    BY DEF Types
  <2>4. ProviderFailures(ts)' \subseteq ProviderFailures(ts)
    BY <2>3 DEF ProviderFailures, RecentFailures
  <2>5. /\ Cardinality(ProviderFailures(ts)') <= Cardinality(ProviderFailures(ts))
        /\ Cardinality(ProviderFailures(ts)') \in Nat
    BY <2>1, <2>4, FS_Subset, FS_CardinalityType
  <2>6. Cardinality(ProviderFailures(ts)) + Cardinality(InFlight(ts))
            <= MaxAttempts - 1 + Cardinality(Requests)
    BY DEF KycInv, BudgetKept
  <2> QED
    BY <2>1, <2>2, <2>5, <2>6, KycAssumption
<1> QED
  BY <1>1, <1>2 DEF KycInv

\* A sequence rewritten entry by entry is a sequence of the same length.
LEMMA RewrittenSeq ==
    ASSUME NEW S, NEW s \in Seq(S), NEW f \in [DOMAIN s -> S]
    PROVE  f \in Seq(S)
<1>1. DOMAIN s = 1 .. Len(s) /\ Len(s) \in Nat
  OBVIOUS
<1> QED
  BY <1>1

\* A decision: held checks pass or fail by the reviewer's hand, and a rejection
\* restricts the profile in the same transaction.
LEMMA DecideInv ==
    ASSUME KycInv, NEW tier \in 1 .. 3,
           NEW decision \in {"APPROVE", "REJECT", "REQUEST_INFORMATION", "ESCALATE"},
           Decide(decision, tier)
    PROVE  KycInv'
<1>0. KycTypeOK
  BY DEF KycInv
<1>1. checks \in [Types -> Seq(CheckRow)]
  BY <1>0 DEF KycTypeOK, CheckRow
<1>2. \A row \in CheckRow, t \in Types :
          /\ DecidedRow(row, t, decision, tier) \in CheckRow
          /\ DecidedRow(row, t, decision, tier).status = "PENDING" => row.status = "PENDING"
          /\ DecidedRow(row, t, decision, tier).failedBy = "provider" =>
                 DecidedRow(row, t, decision, tier).status \in {"PASSED", row.status}
  BY DEF DecidedRow, Passed, Failed, CheckRow
<1>3. ASSUME NEW t \in Types
      PROVE  /\ DOMAIN checks'[t] = DOMAIN checks[t]
             /\ checks'[t] \in Seq(CheckRow)
             /\ \A i \in DOMAIN checks[t] :
                    /\ checks[t][i] \in CheckRow
                    /\ checks'[t][i] = IF checks[t][i].status = "PENDING"
                                       THEN DecidedRow(checks[t][i], t, decision, tier)
                                       ELSE checks[t][i]
  <2>1. checks'[t] = [i \in DOMAIN checks[t] |->
                          IF checks[t][i].status = "PENDING"
                          THEN DecidedRow(checks[t][i], t, decision, tier)
                          ELSE checks[t][i]]
    BY DEF Decide, Decided
  <2>2. checks[t] \in Seq(CheckRow) /\ \A i \in DOMAIN checks[t] : checks[t][i] \in CheckRow
    BY <1>1
  <2>3. checks'[t] \in [DOMAIN checks[t] -> CheckRow]
    BY <1>2, <2>1, <2>2
  <2> QED
    BY <2>1, <2>2, <2>3, RewrittenSeq
<1>4. DOMAIN checks' = Types /\ checks' \in [Types -> Seq(CheckRow)]
  <2>1. /\ DOMAIN checks' = Types
        /\ checks' = [t \in Types |-> checks'[t]]
    BY DEF Decide, Decided
  <2> QED
    BY <1>3, <2>1
<1>5. profile' \in ProfileRow /\ Started(profile'.status)
  <2>1. LevelAfter(checks', decision) \in 0 .. 3
    BY DEF LevelAfter, CompletedLevel
  <2>2. StatusAfter(decision) \in Statuses /\ Started(StatusAfter(decision))
    BY DEF StatusAfter, Statuses, Started
  <2>3. (profile.restricted \/ decision = "REJECT") \in BOOLEAN
    OBVIOUS
  <2> QED
    BY <2>1, <2>2, <2>3 DEF Decide, ProfileRow
<1>6. UNCHANGED <<details, request>>
  BY DEF Decide
<1>7. KycTypeOK'
  BY <1>0, <1>4, <1>5, <1>6 DEF KycTypeOK, CheckRow, ProfileRow, Decide
<1>8. RejectedIsMarked'
  BY <1>5 DEF KycInv, RejectedIsMarked, Decide, Started
<1>9. \A t \in Types : \A i \in DOMAIN checks[t] :
          /\ checks'[t][i].status = "PENDING" => checks[t][i].status = "PENDING"
          /\ /\ checks'[t][i].status = "FAILED" /\ checks'[t][i].recent
             /\ checks'[t][i].failedBy = "provider"
             => /\ checks[t][i].status = "FAILED" /\ checks[t][i].recent
                /\ checks[t][i].failedBy = "provider"
  BY <1>2, <1>3
<1> QED
  BY <1>3, <1>5, <1>6, <1>7, <1>8, <1>9, RewrittenChecksInv

\* The window of the attempts moves on: failures stop counting.
LEMMA DayPassesInv == ASSUME KycInv, DayPasses PROVE KycInv'
<1>0. KycTypeOK
  BY DEF KycInv
<1>1. checks \in [Types -> Seq(CheckRow)]
  BY <1>0 DEF KycTypeOK, CheckRow
<1>a. \A row \in CheckRow :
          /\ [row EXCEPT !.recent = FALSE] \in CheckRow
          /\ [row EXCEPT !.recent = FALSE].status = row.status
          /\ ~[row EXCEPT !.recent = FALSE].recent
  BY DEF CheckRow
<1>2. ASSUME NEW t \in Types
      PROVE  /\ DOMAIN checks'[t] = DOMAIN checks[t]
             /\ checks'[t] \in Seq(CheckRow)
             /\ \A i \in DOMAIN checks[t] :
                    /\ checks[t][i] \in CheckRow
                    /\ checks'[t][i] = [checks[t][i] EXCEPT !.recent = FALSE]
  <2>1. checks'[t] = [i \in DOMAIN checks[t] |-> [checks[t][i] EXCEPT !.recent = FALSE]]
    BY DEF DayPasses
  <2>2. checks[t] \in Seq(CheckRow) /\ \A i \in DOMAIN checks[t] : checks[t][i] \in CheckRow
    BY <1>1
  <2>3. checks'[t] \in [DOMAIN checks[t] -> CheckRow]
    BY <1>a, <2>1, <2>2
  <2> QED
    BY <2>1, <2>2, <2>3, RewrittenSeq
<1>3. checks' \in [Types -> Seq(CheckRow)]
  <2>1. checks' = [t \in Types |-> checks'[t]]
    BY DEF DayPasses
  <2> QED
    BY <1>2, <2>1
<1>4. UNCHANGED <<details, profile, request, rejected>>
  BY DEF DayPasses
<1>5. KycTypeOK'
  BY <1>0, <1>3, <1>4 DEF KycTypeOK, CheckRow
<1>6. RejectedIsMarked'
  BY <1>4 DEF KycInv, RejectedIsMarked
<1>7. \A t \in Types : \A i \in DOMAIN checks[t] :
          /\ checks'[t][i].status = "PENDING" => checks[t][i].status = "PENDING"
          /\ ~checks'[t][i].recent
  <2> SUFFICES ASSUME NEW t \in Types, NEW i \in DOMAIN checks[t]
               PROVE  checks'[t][i].status = checks[t][i].status /\ ~checks'[t][i].recent
    OBVIOUS
  <2>1. /\ checks[t][i] \in CheckRow
        /\ checks'[t][i] = [checks[t][i] EXCEPT !.recent = FALSE]
    BY <1>2
  <2> QED
    BY <1>a, <2>1
<1> QED
  BY <1>2, <1>4, <1>5, <1>6, <1>7, RewrittenChecksInv
\* Requests of the owner that store no check: what they wait for, what they
\* read and what sync writes later.
LEMMA OwnerStepInv ==
    ASSUME KycInv, NEW r \in Requests,
           \/ HoldForReview(r) \/ BeginUpload(r) \/ UploadIdentityDocument(r)
           \/ UpdateBasicInfo(r) \/ LinkBankAccount(r)
           \/ SyncRead(r) \/ Status(r) \/ SyncCompare(r) \/ SyncWrite(r)
    PROVE  KycInv'
<1>0. KycTypeOK /\ profile \in ProfileRow
  BY DEF KycInv, KycTypeOK, ProfileRow
<1>1. UNCHANGED <<checks, rejected>> /\ details' \subseteq {"basic", "pin", "document"}
  BY <1>0 DEF KycTypeOK, HoldForReview, BeginUpload, UploadIdentityDocument, UpdateBasicInfo,
     LinkBankAccount, SyncRead, Status, SyncCompare, SyncWrite
<1>2. ASSUME UNCHANGED profile PROVE ProfileGoesOn
  BY <1>0, <1>2 DEF ProfileGoesOn
<1>3. ASSUME profile' = Ensured PROVE ProfileGoesOn
  BY <1>0, <1>3, EnsuredKeeps DEF ProfileGoesOn
<1>4. ASSUME Evidence(r)
      PROVE  /\ request' \in [Requests -> RequestRow]
             /\ request'[r].at = "compare"
             /\ \A q \in Requests \ {r} : request'[q] = request[q]
  <2>1. [at |-> "compare", level |-> Level] \in RequestRow
    BY LevelIsStage DEF RequestRow, Places
  <2> QED
    BY <1>0, <1>4, <2>1 DEF KycTypeOK, RequestRow, Evidence
<1>5. CASE HoldForReview(r)
  <2>1. ProfileGoesOn /\ Started(profile'.status)
    BY <1>0, <1>5 DEF HoldForReview, ProfileGoesOn, ProfileRow, Statuses, Started
  <2>2. /\ request' \in [Requests -> RequestRow] /\ request'[r].at = "sync"
        /\ \A q \in Requests \ {r} : request'[q] = request[q]
    BY <1>0, <1>5, GoMoves DEF HoldForReview, Places
  <2>3. \A q \in Requests : request'[q].at \in Types => request'[q].at = request[q].at
    BY <2>2 DEF Types, Identity
  <2> QED
    BY <1>1, <2>1, <2>2, <2>3, QuietKycInv
<1>6. ASSUME ProfileGoesOn,
             /\ request' \in [Requests -> RequestRow]
             /\ request[r].at # "hold" /\ request'[r].at \notin Types
             /\ \A q \in Requests \ {r} : request'[q] = request[q]
      PROVE  KycInv'
  <2>1. \A q \in Requests : request'[q].at \in Types => request'[q].at = request[q].at
    BY <1>6
  <2>2. \A q \in Requests : request[q].at = "hold" => request'[q].at = "hold"
    BY <1>6
  <2> QED
    BY <1>1, <1>6, <2>1, <2>2, QuietKycInv
<1>7. {"idle", "hold", "sync", "compare", "upload", "insert", "verify", "update"} \cap Types = {}
  BY DEF Types, Identity
<1>8. CASE BeginUpload(r)
  <2>1. Go(r, "upload") /\ UNCHANGED profile /\ request[r].at = "idle"
    BY <1>8 DEF BeginUpload, At
  <2> QED
    BY <1>0, <1>2, <1>6, <1>7, <2>1, GoMoves DEF Places
<1>9. CASE UploadIdentityDocument(r)
  <2>1. Go(r, "sync") /\ profile' = Ensured /\ request[r].at = "upload"
    BY <1>9 DEF UploadIdentityDocument, At
  <2> QED
    BY <1>0, <1>3, <1>6, <1>7, <2>1, GoMoves DEF Places
<1>10. CASE UpdateBasicInfo(r)
  <2>1. Go(r, "sync") /\ UNCHANGED profile /\ request[r].at = "idle"
    BY <1>10 DEF UpdateBasicInfo, At
  <2> QED
    BY <1>0, <1>2, <1>6, <1>7, <2>1, GoMoves DEF Places
<1>11. CASE LinkBankAccount(r)
  <2>1. Go(r, "sync") /\ profile' = Ensured /\ request[r].at = "idle"
    BY <1>11 DEF LinkBankAccount, At
  <2> QED
    BY <1>0, <1>3, <1>6, <1>7, <2>1, GoMoves DEF Places
<1>12. CASE SyncRead(r) \/ Status(r)
  <2>1. Evidence(r) /\ UNCHANGED profile /\ request[r].at \in {"sync", "idle"}
    BY <1>12 DEF SyncRead, Status, At
  <2> QED
    BY <1>2, <1>4, <1>6, <1>7, <2>1
<1>13. CASE SyncCompare(r)
  <2>1. UNCHANGED profile /\ request[r].at = "compare"
    BY <1>13 DEF SyncCompare, At
  <2>2. Finish(r) \/ \E to \in {"insert", "verify", "update"} : Go(r, to)
    BY <1>13 DEF SyncCompare
  <2>3. {"insert", "verify", "update"} \subseteq Places
    BY DEF Places
  <2>4. CASE Finish(r)
    BY <1>0, <1>2, <1>6, <1>7, <2>1, <2>4, FinishEnds
  <2>5. ASSUME NEW to \in {"insert", "verify", "update"}, Go(r, to) PROVE KycInv'
    BY <1>0, <1>2, <1>6, <1>7, <2>1, <2>3, <2>5, GoMoves
  <2> QED
    BY <2>2, <2>4, <2>5
<1>14. CASE SyncWrite(r)
  <2>1. /\ request[r].at \in {"insert", "update", "verify"} /\ request[r].level \in 0 .. 3
        /\ profile' = Synced(request[r].at, request[r].level)
        /\ Finish(r)
    BY <1>0, <1>14 DEF SyncWrite, KycTypeOK
  <2>2. ProfileGoesOn
    <3>1. CASE request[r].at = "insert"
      BY <1>0, <2>1, <3>1 DEF Synced, ProfileGoesOn, ProfileRow, Statuses, Started
    <3>2. CASE request[r].at = "update"
      BY <1>0, <2>1, <3>2 DEF Synced, ProfileGoesOn, ProfileRow, Statuses, Started
    <3>3. CASE request[r].at = "verify"
      BY <1>0, <2>1, <3>3 DEF Synced, ProfileGoesOn, ProfileRow, Statuses, Started
    <3> QED
      BY <2>1, <3>1, <3>2, <3>3
  <2> QED
    BY <1>0, <1>6, <1>7, <2>1, <2>2, FinishEnds
<1> QED
  BY <1>5, <1>8, <1>9, <1>10, <1>11, <1>12, <1>13, <1>14

\* Every step of the verification keeps the invariant.
LEMMA KycStepInv == ASSUME KycInv, KycNext PROVE KycInv'
<1>1. ASSUME NEW r \in Requests, NEW kind \in Identity, VerifyIdentity(r, kind) PROVE KycInv'
  BY <1>1, AttemptInv DEF VerifyIdentity
<1>2. ASSUME NEW r \in Requests, VerifyAddress(r) PROVE KycInv'
  BY <1>2, AttemptInv DEF VerifyAddress
<1>3. ASSUME NEW r \in Requests, NEW o \in {"failed", "flagged", "passed"},
             IdentityAnswered(r, o)
      PROVE  KycInv'
  <2>1. request[r].at \in Types /\ CheckStatus(o) \in {"PASSED", "PENDING", "FAILED"}
    BY <1>3 DEF IdentityAnswered, Types, CheckStatus
  <2> QED
    BY <1>3, <2>1, StoreCheckInv DEF IdentityAnswered
<1>4. ASSUME NEW r \in Requests, NEW o \in {"matches", "differs", "nothing on record"},
             AddressCompared(r, o)
      PROVE  KycInv'
  <2>1. request[r].at = "ADDRESS" /\ "ADDRESS" \in Types
    BY <1>4 DEF AddressCompared, At, Types
  <2>2. PICK status \in {"PASSED", "PENDING", "FAILED"} : StoreCheck(r, "ADDRESS", status)
    BY <1>4 DEF AddressCompared
  <2> QED
    BY <2>1, <2>2, StoreCheckInv
<1>5. ASSUME SetPin PROVE KycInv'
  <2>1. ProfileGoesOn /\ request' \in [Requests -> RequestRow] /\ UNCHANGED <<checks, rejected>>
        /\ details' \subseteq {"basic", "pin", "document"}
    BY <1>5 DEF KycInv, KycTypeOK, SetPin, ProfileGoesOn, ProfileRow, RequestRow
  <2> QED
    BY <1>5, <2>1, QuietKycInv DEF SetPin
<1>6. ASSUME \/ \E tier \in 1 .. 3 : Decide("APPROVE", tier)
             \/ \E d \in {"REJECT", "REQUEST_INFORMATION", "ESCALATE"} : Decide(d, 1)
      PROVE  KycInv'
  BY <1>6, DecideInv
<1> QED
  BY <1>1, <1>2, <1>3, <1>4, <1>5, <1>6, OwnerStepInv, DayPassesInv DEF KycNext

\* A restricted profile has no level.
LEMMA RejectionIsFinal == KycInv => RejectedStaysOut
  BY LevelIsStage DEF KycInv, RejectedIsMarked, RejectedStaysOut, Restricted

\* What has been tried is within what has been tried or is under way.
LEMMA BudgetIsEnough == KycInv => AttemptsBounded
<1> SUFFICES ASSUME KycInv, NEW ts \in {Identity, {"ADDRESS"}}
             PROVE  Cardinality(ProviderFailures(ts)) <= MaxAttempts - 1 + Cardinality(Requests)
  BY DEF AttemptsBounded, ProviderFailures
<1>1. /\ Cardinality(ProviderFailures(ts)) \in Nat
      /\ Cardinality(InFlight(ts)) \in Nat /\ Cardinality(Requests) \in Nat
  BY CountsAreFinite
<1>2. Cardinality(ProviderFailures(ts)) + Cardinality(InFlight(ts))
          <= MaxAttempts - 1 + Cardinality(Requests)
  BY DEF KycInv, BudgetKept
<1> QED
  BY <1>1, <1>2, KycAssumption

\* A stage shown as under review rests on a check that is held.
LEMMA UnderReviewIsHeld == KycInv => UnderReviewIsInQueue
<1> SUFFICES ASSUME KycInv, NEW stage \in 1 .. 3, StageStatus(stage) = "under_review"
             PROVE  \/ IsReviewable(profile.status) \/ profile.status = "VERIFIED"
                    \/ \E r \in Requests : At(r, "hold")
  BY DEF UnderReviewIsInQueue
<1>1. "pending" \in Requirements(details, checks)[stage] /\ ~Restricted(profile)
  <2> DEFINE items == Requirements(details, checks)[stage]
  <2> HIDE DEF items
  <2>1. StageStatus(stage) =
            IF stage <= Level THEN "complete"
            ELSE IF stage > Level + 1 \/ Restricted(profile) THEN "locked"
            ELSE IF "pending" \in items /\ items \subseteq {"complete", "pending"}
                 THEN "under_review"
            ELSE "in_progress"
    BY DEF StageStatus, items
  <2> QED
    BY <2>1 DEF items
<1>2. \E t \in Types : StateOf(checks[t]) = "pending"
  <2>1. stage = 1 \/ stage = 2 \/ stage = 3
    OBVIOUS
  <2>2. \A d \in {"basic", "pin", "document"} : Given(details, d) # "pending"
    BY DEF Given
  <2>3. {"NIN", "ADDRESS"} \subseteq Types
    BY DEF Types, Identity
  <2> HIDE DEF StateOf, Given
  <2> QED
    BY <1>1, <2>1, <2>2, <2>3 DEF Requirements
<1>3. PICK t \in Types : StateOf(checks[t]) = "pending"
  BY <1>2
<1>4. checks[t] \in Seq(CheckRow)
  BY DEF KycInv, KycTypeOK, CheckRow
<1>5. /\ checks[t] # <<>> /\ Last(checks[t]).status # "FAILED"
      /\ \A i \in DOMAIN checks[t] : checks[t][i].status # "PASSED"
  BY <1>3 DEF StateOf
<1>6. Len(checks[t]) \in DOMAIN checks[t] /\ checks[t][Len(checks[t])] \in CheckRow
  BY <1>4, <1>5
<1>7. checks[t][Len(checks[t])].status = "PENDING"
  BY <1>5, <1>6 DEF Last, CheckRow
<1>8. Started(profile.status) \/ \E r \in Requests : At(r, "hold")
  BY <1>6, <1>7 DEF KycInv, HeldIsReported
<1>9. profile.status \in Statuses /\ profile.status # "REJECTED"
  BY <1>1 DEF KycInv, KycTypeOK, Restricted
<1> QED
  BY <1>8, <1>9 DEF Started, Statuses, IsReviewable
-----------------------------------------------------------------------------
(* CoordinatorApplications.                                                *)

Application == [status: ApplicationStatuses, ready: BOOLEAN]

ApplicationsInv ==
    /\ KycInv
    /\ applications \in Seq(Application)
    /\ editing \subseteq DOMAIN applications
    /\ coordinator \in {"absent", "VERIFIED", "REQUIRES_REVIEW"}
    /\ CoordinatorIsApproved

LEMMA ApplicationsInitInv == ApplicationsInit => ApplicationsInv
<1> SUFFICES ASSUME ApplicationsInit PROVE ApplicationsInv
  OBVIOUS
<1> USE DEF ApplicationsInit, KycInit
<1>1. KycTypeOK
  <2>1. [t \in Types |-> <<>>] \in [Types -> Seq(CheckRow)]
    OBVIOUS
  <2>2. Idle \in RequestRow
    BY DEF Idle, RequestRow, Places
  <2>3. request \in [Requests -> RequestRow] /\ checks \in [Types -> Seq(CheckRow)]
    BY <2>1, <2>2
  <2>4. profile \in ProfileRow
    BY DEF ProfileRow, Statuses
  <2>5. details \subseteq {"basic", "pin", "document"} /\ rejected \in BOOLEAN
    OBVIOUS
  <2> QED
    BY <2>3, <2>4, <2>5 DEF KycTypeOK, CheckRow, RequestRow, ProfileRow
<1>2. RejectedIsMarked
  BY DEF RejectedIsMarked
<1>3. HeldIsReported
  BY DEF HeldIsReported
<1>4. BudgetKept
  <2> SUFFICES ASSUME NEW ts \in {Identity, {"ADDRESS"}}
               PROVE  Cardinality(ProviderFailures(ts)) + Cardinality(InFlight(ts))
                      <= MaxAttempts - 1 + Cardinality(Requests)
    BY DEF BudgetKept
  <2>1. ts \subseteq Types /\ "idle" \notin ts
    BY DEF Types, Identity
  <2>2. ProviderFailures(ts) = {}
    <3>1. \A t \in ts : DOMAIN checks[t] = {}
      BY <2>1
    <3> QED
      BY <3>1 DEF ProviderFailures, RecentFailures
  <2>3. InFlight(ts) = {}
    BY <2>1 DEF InFlight, Idle
  <2>4. Cardinality(Requests) \in Nat
    BY CountsAreFinite
  <2> QED
    BY <2>2, <2>3, <2>4, FS_EmptySet, KycAssumption
<1> QED
  BY <1>1, <1>2, <1>3, <1>4 DEF KycInv, ApplicationsInv, CoordinatorIsApproved

\* The requests of the applications leave the verification alone.
LEMMA ApplicationRequestInv ==
    ASSUME KycInv, KycUnchanged, NEW r \in Requests,
           \/ At(r, "idle") /\ (Go(r, "apply") \/ Go(r, "submit"))
           \/ (At(r, "apply") \/ At(r, "submit")) /\ Finish(r)
    PROVE  KycInv'
<1>0. KycTypeOK
  BY DEF KycInv
<1>1. /\ request' \in [Requests -> RequestRow]
      /\ request'[r].at \in {"idle", "apply", "submit"}
      /\ \A q \in Requests \ {r} : request'[q] = request[q]
  BY <1>0, GoMoves, FinishEnds DEF Places
<1>2. ProfileGoesOn /\ details' \subseteq {"basic", "pin", "document"}
  BY <1>0 DEF KycTypeOK, ProfileGoesOn, ProfileRow, KycUnchanged
<1>3. \A q \in Requests : request'[q].at \in Types => request'[q].at = request[q].at
  BY <1>1 DEF Types, Identity
<1>4. \A q \in Requests : request[q].at = "hold" => request'[q].at = "hold"
  BY <1>1 DEF At
<1> QED
  BY <1>1, <1>2, <1>3, <1>4, QuietKycInv DEF KycUnchanged

LEMMA KycUndisturbed == ASSUME KycInv, KycUnchanged, UNCHANGED request PROVE KycInv'
<1>1. ProfileGoesOn /\ details' \subseteq {"basic", "pin", "document"}
      /\ request' \in [Requests -> RequestRow]
  BY DEF KycInv, KycTypeOK, ProfileGoesOn, ProfileRow, RequestRow, KycUnchanged
<1> QED
  BY <1>1, QuietKycInv DEF KycUnchanged

\* A row whose status or readiness is written keeps the others as they are.
LEMMA ApplicationMoves ==
    ASSUME applications \in Seq(Application), NEW i \in DOMAIN applications,
           NEW status \in ApplicationStatuses, Moves(i, status)
    PROVE  /\ applications' \in Seq(Application)
           /\ DOMAIN applications' = DOMAIN applications
           /\ applications'[i].status = status
           /\ \A j \in DOMAIN applications \ {i} : applications'[j] = applications[j]
<1> DEFINE row == [applications[i] EXCEPT !.status = status]
<1>1. applications \in [DOMAIN applications -> Application]
  OBVIOUS
<1>2. row \in Application /\ row.status = status
  BY <1>1 DEF Application
<1>3. applications' = [applications EXCEPT ![i] = row]
  BY DEF Moves
<1> HIDE DEF row
<1>4. /\ applications' \in [DOMAIN applications -> Application]
      /\ applications'[i] = row
      /\ \A j \in DOMAIN applications \ {i} : applications'[j] = applications[j]
  BY <1>1, <1>2, <1>3
<1> QED
  BY <1>2, <1>4, RewrittenSeq

\* The applications' side of every step: whoever is VERIFIED as coordinator
\* has an application that is APPROVED.
LEMMA ApplicationStepInv == ASSUME ApplicationsInv, ApplicationStep PROVE ApplicationsInv'
<1>0. /\ KycInv /\ applications \in Seq(Application) /\ editing \subseteq DOMAIN applications
      /\ coordinator \in {"absent", "VERIFIED", "REQUIRES_REVIEW"}
      /\ CoordinatorIsApproved
  BY DEF ApplicationsInv
<1>1. ASSUME NEW r \in Requests, BeginCreate(r) \/ BeginSubmit(r) PROVE ApplicationsInv'
  <2>1. KycInv'
    BY <1>0, <1>1, ApplicationRequestInv DEF BeginCreate, BeginSubmit
  <2> QED
    BY <1>0, <1>1, <2>1 DEF ApplicationsInv, BeginCreate, BeginSubmit, CoordinatorIsApproved
<1>2. ASSUME NEW r \in Requests, NEW ready \in BOOLEAN,
             Create(r, ready)
      PROVE  ApplicationsInv'
  <2>1. KycInv'
    BY <1>0, <1>2, ApplicationRequestInv DEF Create
  <2>2. applications' = Append(applications, [status |-> "DRAFT", ready |-> ready])
        /\ UNCHANGED <<editing, coordinator>>
    BY <1>2 DEF Create
  <2>3. [status |-> "DRAFT", ready |-> ready] \in Application
    BY DEF Application, ApplicationStatuses
  <2>4. /\ applications' \in Seq(Application)
        /\ \A i \in DOMAIN applications : /\ i \in DOMAIN applications'
                                         /\ applications'[i] = applications[i]
    BY <1>0, <2>2, <2>3
  <2> QED
    BY <1>0, <2>1, <2>2, <2>4 DEF ApplicationsInv, CoordinatorIsApproved
<1>3. ASSUME NEW r \in Requests, NEW i \in DOMAIN applications, Submit(r, i)
      PROVE  ApplicationsInv'
  <2>1. KycInv'
    BY <1>0, <1>3, ApplicationRequestInv DEF Submit
  <2>2. UNCHANGED <<editing, coordinator>>
    BY <1>3 DEF Submit
  <2>3. CASE UNCHANGED applications
    BY <1>0, <2>1, <2>2, <2>3 DEF ApplicationsInv, CoordinatorIsApproved
  <2>4. CASE Editable(applications[i]) /\ Moves(i, "AUTOMATED_REVIEW")
    <3>1. applications[i].status # "APPROVED"
      BY <2>4 DEF Editable
    <3>2. "AUTOMATED_REVIEW" \in ApplicationStatuses
      BY DEF ApplicationStatuses
    <3> QED
      BY <1>0, <2>1, <2>2, <2>4, <3>1, <3>2, ApplicationMoves
      DEF ApplicationsInv, CoordinatorIsApproved
  <2> QED
    BY <1>3, <2>3, <2>4 DEF Submit
<1>4. ASSUME NEW i \in DOMAIN applications, Update(i) PROVE ApplicationsInv'
  <2>1. KycInv'
    BY <1>0, <1>4, KycUndisturbed DEF Update
  <2>2. /\ applications' \in [DOMAIN applications -> Application]
        /\ \A j \in DOMAIN applications : applications'[j].status = applications[j].status
    <3> DEFINE row == [applications[i] EXCEPT !.ready = TRUE]
    <3>1. applications \in [DOMAIN applications -> Application]
      BY <1>0
    <3>2. row \in Application /\ row.status = applications[i].status
      BY <3>1 DEF Application
    <3>3. applications' = [applications EXCEPT ![i] = row]
      BY <1>4 DEF Update
    <3> HIDE DEF row
    <3> QED
      BY <3>1, <3>2, <3>3
  <2>3. applications' \in Seq(Application) /\ DOMAIN applications' = DOMAIN applications
    BY <1>0, <2>2, RewrittenSeq
  <2>4. UNCHANGED coordinator /\ editing' \subseteq editing
    BY <1>4 DEF Update
  <2> QED
    BY <1>0, <2>1, <2>2, <2>3, <2>4 DEF ApplicationsInv, CoordinatorIsApproved
<1>5. ASSUME NEW i \in DOMAIN applications, Approve(i) PROVE ApplicationsInv'
  <2>1. KycInv'
    BY <1>0, <1>5, KycUndisturbed DEF Approve
  <2>2. /\ "APPROVED" \in ApplicationStatuses /\ Moves(i, "APPROVED") /\ coordinator' = "VERIFIED"
        /\ UNCHANGED editing
    BY <1>5 DEF Approve, ApplicationStatuses
  <2> QED
    BY <1>0, <2>1, <2>2, ApplicationMoves DEF ApplicationsInv, CoordinatorIsApproved
<1>6. ASSUME NEW i \in DOMAIN applications, Suspend(i) PROVE ApplicationsInv'
  <2>1. KycInv'
    BY <1>0, <1>6, KycUndisturbed DEF Suspend
  <2>2. /\ "SUSPENDED" \in ApplicationStatuses /\ Moves(i, "SUSPENDED")
        /\ coordinator' \in {"absent", "REQUIRES_REVIEW"} /\ UNCHANGED editing
    BY <1>6 DEF Suspend, ApplicationStatuses
  <2> QED
    BY <1>0, <2>1, <2>2, ApplicationMoves DEF ApplicationsInv, CoordinatorIsApproved
<1>7. ASSUME NEW i \in DOMAIN applications,
             NEW to \in {"MORE_INFORMATION_REQUIRED", "REJECTED"}, ReviewTransition(i, to)
      PROVE  ApplicationsInv'
  <2>1. KycInv'
    BY <1>0, <1>7, KycUndisturbed DEF ReviewTransition
  <2>2. /\ to \in ApplicationStatuses /\ Moves(i, to) /\ UNCHANGED <<editing, coordinator>>
        /\ applications[i].status # "APPROVED"
    BY <1>7 DEF ReviewTransition, ApplicationStatuses
  <2> QED
    BY <1>0, <2>1, <2>2, ApplicationMoves DEF ApplicationsInv, CoordinatorIsApproved
<1>8. ASSUME NEW i \in DOMAIN applications, BeginUpdate(i) PROVE ApplicationsInv'
  <2>1. KycInv'
    BY <1>0, <1>8, KycUndisturbed DEF BeginUpdate
  <2> QED
    BY <1>0, <1>8, <2>1 DEF ApplicationsInv, BeginUpdate, CoordinatorIsApproved
<1> QED
  BY <1>1, <1>2, <1>3, <1>4, <1>5, <1>6, <1>7, <1>8 DEF ApplicationStep

\* The invariant of the verification and the applications together.
THEOREM ApplicationsInvariantHolds == ApplicationsSpec => []ApplicationsInv
<1>1. ASSUME ApplicationsInv, [ApplicationsNext]_applicationVars PROVE ApplicationsInv'
  <2>1. CASE KycNext /\ UNCHANGED <<applications, editing, coordinator>>
    BY <1>1, <2>1, KycStepInv DEF ApplicationsInv, CoordinatorIsApproved
  <2>2. CASE ApplicationStep
    BY <1>1, <2>2, ApplicationStepInv
  <2>3. CASE UNCHANGED applicationVars
    BY <1>1, <2>3, KycUndisturbed
    DEF applicationVars, kycVars, KycUnchanged, ApplicationsInv, CoordinatorIsApproved
  <2> QED
    BY <1>1, <2>1, <2>2, <2>3 DEF ApplicationsNext
<1> QED
  BY <1>1, ApplicationsInitInv, PTL DEF ApplicationsSpec

\* A profile a reviewer has rejected has no level, whatever is written over its
\* status: by requests that read before the decision or by later reviews.
THEOREM RejectionsAreFinal == ApplicationsSpec => []RejectedStaysOut
<1>1. ApplicationsInv => RejectedStaysOut
  BY RejectionIsFinal DEF ApplicationsInv
<1> QED
  BY <1>1, ApplicationsInvariantHolds, PTL

\* However many requests pass the check of the attempts at once, the failures of
\* a day are within the limit and the requests in flight.
THEOREM AttemptsAreBounded == ApplicationsSpec => []AttemptsBounded
<1>1. ApplicationsInv => AttemptsBounded
  BY BudgetIsEnough DEF ApplicationsInv
<1> QED
  BY <1>1, ApplicationsInvariantHolds, PTL

\* A stage shown as under review is one a reviewer may decide, now or once the
\* request that holds the check goes on.
THEOREM ReviewsAreQueued == ApplicationsSpec => []UnderReviewIsInQueue
<1>1. ApplicationsInv => UnderReviewIsInQueue
  BY UnderReviewIsHeld DEF ApplicationsInv
<1> QED
  BY <1>1, ApplicationsInvariantHolds, PTL

\* A coordinator who is VERIFIED has an application that is APPROVED.
THEOREM CoordinatorsAreApproved == ApplicationsSpec => []CoordinatorIsApproved
<1>1. ApplicationsInv => CoordinatorIsApproved
  BY DEF ApplicationsInv
<1> QED
  BY <1>1, ApplicationsInvariantHolds, PTL

\* Type correctness of the verification and the applications.
THEOREM ApplicationsAreTyped == ApplicationsSpec => []ApplicationsOK
<1>1. ApplicationsInv => ApplicationsOK
  BY DEF ApplicationsInv, ApplicationsOK, KycInv, Application
<1> QED
  BY <1>1, ApplicationsInvariantHolds, PTL
=============================================================================
