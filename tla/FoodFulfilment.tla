--------------------------- MODULE FoodFulfilment ---------------------------
(***************************************************************************)
(* A Food Ajo programme with its purchase orders and its hand-outs:        *)
(* FoodProgramme and                                                       *)
(*                                                                         *)
(*   FoodAjoCoordinatorService.createPurchaseOrder /                       *)
(*     transitionPurchaseOrder / recordReceipt / createDistribution /      *)
(*     transitionDistribution / issueCollectionCode / confirmCollection,   *)
(*     and transitionProgramme to COMPLETED                                *)
(*                                                                         *)
(* Each is one serializable transaction.  Vendors are verified by the      *)
(* platform before and never change.                                       *)
(***************************************************************************)
EXTENDS FoodProgramme

CONSTANTS
    Orders,         \* purchase_orders
    Distributions,  \* food_distributions
    MaxCodes        \* bound on the collection codes issued

ASSUME FulfilmentAssumption == MaxCodes \in Nat

VARIABLES
    order,         \* status of each purchase order, and whether it has a receipt
    distribution,  \* status of each distribution
    item,          \* the subscriptions each distribution has an item for
    confirmation,  \* distribution_confirmations, by distribution and subscription
    codes,         \* how many codes were issued; the n-th code is n
    handed         \* how often the food of an item was handed out

fulfilmentVars == <<order, distribution, item, confirmation, codes, handed>>
vars == <<programmeVars, fulfilmentVars>>

OrderStatus == {"none", "DRAFT", "SUBMITTED", "CONFIRMED", "FULFILLED", "CANCELLED"}
DistributionStatus == {"none", "PLANNED", "READY", "DISTRIBUTING", "COMPLETED", "CANCELLED"}

\* A confirmation row exists once its code is not 0.
Confirmation == [code: Nat, expired: BOOLEAN, used: BOOLEAN]
NoConfirmation == [code |-> 0, expired |-> FALSE, used |-> FALSE]

TypeOK ==
    /\ ProgrammeTypeOK
    /\ order \in [Orders -> [status: OrderStatus, received: BOOLEAN]]
    /\ distribution \in [Distributions -> DistributionStatus]
    /\ item \in [Distributions -> SUBSET Subscriptions]
    /\ confirmation \in [Distributions \X Subscriptions -> Confirmation]
    /\ codes \in Nat
    /\ handed \in [Distributions \X Subscriptions -> Nat]

Init ==
    /\ ProgrammeInit
    /\ order = [o \in Orders |-> [status |-> "none", received |-> FALSE]]
    /\ distribution = [d \in Distributions |-> "none"]
    /\ item = [d \in Distributions |-> {}]
    /\ confirmation = [x \in Distributions \X Subscriptions |-> NoConfirmation]
    /\ codes = 0
    /\ handed = [x \in Distributions \X Subscriptions |-> 0]

-----------------------------------------------------------------------------
(* Buying.                                                                 *)

CreatePurchaseOrder(o) ==
    /\ order[o].status = "none"
    /\ programme = "ACTIVE"
    /\ Portions >= 1
    /\ order' = [order EXCEPT ![o].status = "DRAFT"]
    /\ UNCHANGED <<programmeVars, distribution, item, confirmation, codes, handed>>

CanTransitionPurchaseOrder(from, to) ==
    \/ from = "DRAFT" /\ to \in {"SUBMITTED", "CANCELLED"}
    \/ from = "SUBMITTED" /\ to \in {"CONFIRMED", "CANCELLED"}
    \/ from = "CONFIRMED" /\ to = "FULFILLED"

TransitionPurchaseOrder(o, to) ==
    /\ CanTransitionPurchaseOrder(order[o].status, to)
    /\ to = "FULFILLED" => order[o].received
    /\ order' = [order EXCEPT ![o].status = to]
    /\ UNCHANGED <<programmeVars, distribution, item, confirmation, codes, handed>>

RecordReceipt(o) ==
    /\ order[o].status = "CONFIRMED"
    /\ order' = [order EXCEPT ![o].received = TRUE]
    /\ UNCHANGED <<programmeVars, distribution, item, confirmation, codes, handed>>

-----------------------------------------------------------------------------
(* Handing out.                                                            *)

\* createDistribution: an item for every live subscription, paid or not.
CreateDistribution(d) ==
    /\ distribution[d] = "none"
    /\ programme = "ACTIVE"
    /\ \E o \in Orders : order[o].status = "FULFILLED"
    /\ Live # {}
    /\ distribution' = [distribution EXCEPT ![d] = "PLANNED"]
    /\ item' = [item EXCEPT ![d] = Live]
    /\ UNCHANGED <<programmeVars, order, confirmation, codes, handed>>

CanTransitionDistribution(from, to) ==
    \/ from = "PLANNED" /\ to \in {"READY", "CANCELLED"}
    \/ from = "READY" /\ to \in {"DISTRIBUTING", "CANCELLED"}
    \/ from = "DISTRIBUTING" /\ to = "COMPLETED"

\* Items without a confirmation row: a row exists once a code was issued.
OutstandingItems(d) == {s \in item[d] : confirmation[d, s].code = 0}

TransitionDistribution(d, to) ==
    /\ CanTransitionDistribution(distribution[d], to)
    /\ to = "COMPLETED" => OutstandingItems(d) = {}
    /\ distribution' = [distribution EXCEPT ![d] = to]
    /\ UNCHANGED <<programmeVars, order, item, confirmation, codes, handed>>

\* Mutant of IssueCollectionCode: an item already collected gets a new code.
IssueAgain(d, s) ==
    /\ codes < MaxCodes
    /\ IsLive(s)
    /\ s \in item[d]
    /\ distribution[d] \in {"READY", "DISTRIBUTING"}
    /\ codes' = codes + 1
    /\ confirmation' = [confirmation EXCEPT
                          ![<<d, s>>] = [code |-> codes + 1, expired |-> FALSE, used |-> FALSE]]
    /\ UNCHANGED <<programmeVars, order, distribution, item, handed>>

\* issueCollectionCode, for any live subscription of the caller: a new code
\* replaces the previous one.
IssueCollectionCode(d, s) ==
    /\ codes < MaxCodes
    /\ IsLive(s)
    /\ s \in item[d]
    /\ ~confirmation[d, s].used
    /\ distribution[d] \in {"READY", "DISTRIBUTING"}
    /\ codes' = codes + 1
    /\ confirmation' = [confirmation EXCEPT
                          ![<<d, s>>] = [code |-> codes + 1, expired |-> FALSE, used |-> @.used]]
    /\ UNCHANGED <<programmeVars, order, distribution, item, handed>>

\* COLLECTION_CODE_TTL_MS passes.
CodeExpires(d, s) ==
    /\ confirmation[d, s].code # 0
    /\ ~confirmation[d, s].expired
    /\ confirmation' = [confirmation EXCEPT ![<<d, s>>].expired = TRUE]
    /\ UNCHANGED <<programmeVars, order, distribution, item, codes, handed>>

\* confirmCollection: a code finds the row it was last issued for.
ConfirmCollection(d, code) ==
    \E s \in item[d] :
      /\ confirmation[d, s].code = code
      /\ ~confirmation[d, s].expired
      /\ distribution[d] = "DISTRIBUTING"
      /\ ~confirmation[d, s].used
      /\ confirmation' = [confirmation EXCEPT ![<<d, s>>].used = TRUE]
      /\ handed' = [handed EXCEPT ![<<d, s>>] = @ + 1]
      /\ UNCHANGED <<programmeVars, order, distribution, item, codes>>

\* transitionProgramme to COMPLETED.
CompleteProgramme ==
    /\ CanTransitionProgramme(programme, "COMPLETED")
    /\ \A d \in Distributions : distribution[d] # "CANCELLED" => OutstandingItems(d) = {}
    /\ programme' = "COMPLETED"
    /\ UNCHANGED <<package, subscription, intent, refunded, wallet, escrow, fulfilmentVars>>

-----------------------------------------------------------------------------
FulfilmentNext ==
    \/ CompleteProgramme
    \/ \E o \in Orders : \/ CreatePurchaseOrder(o) \/ RecordReceipt(o)
                         \/ \E to \in OrderStatus : TransitionPurchaseOrder(o, to)
    \/ \E d \in Distributions :
         \/ CreateDistribution(d)
         \/ \E to \in DistributionStatus : TransitionDistribution(d, to)
         \/ \E s \in Subscriptions : IssueCollectionCode(d, s) \/ CodeExpires(d, s)
         \/ \E code \in 1..codes : ConfirmCollection(d, code)

Next == (ProgrammeNext /\ UNCHANGED fulfilmentVars) \/ FulfilmentNext

Spec == Init /\ [][Next]_vars

-----------------------------------------------------------------------------
(* Properties.                                                             *)

\* "a screenshot of an old code cannot be replayed to collect twice"
\* (confirmCollection): whatever codes were issued, replaced and presented,
\* the food of an item leaves once, and is on record when it has left.
CollectedOnce ==
    \A x \in Distributions \X Subscriptions :
        handed[x] = IF confirmation[x].used THEN 1 ELSE 0

\* Food is handed out only in a distribution that was announced, to someone
\* on its list, and only after an order was received: several operations of
\* the coordinator and the member must come in that order.
HandedOutIsBought ==
    \A d \in Distributions, s \in Subscriptions :
        handed[d, s] > 0 =>
            /\ s \in item[d]
            /\ distribution[d] \in {"DISTRIBUTING", "COMPLETED"}
            /\ \E o \in Orders : order[o].status = "FULFILLED" /\ order[o].received

\* The records a step must leave.
RecordsKept ==
    /\ \A o \in Orders : order[o].status = "FULFILLED" => order'[o] = order[o]
    /\ \A d \in Distributions :
         distribution[d] \in {"COMPLETED", "CANCELLED"} => distribution'[d] = distribution[d]
    /\ \A d \in Distributions : distribution[d] # "none" => item'[d] = item[d]
    /\ \A x \in Distributions \X Subscriptions :
         confirmation[x].used => confirmation'[x].code = confirmation[x].code /\ confirmation'[x].used

\* What was settled stays settled: a fulfilled order, a distribution that
\* completed, who is on its list and who has collected never change again.
RecordsStay == [][RecordsKept]_vars

-----------------------------------------------------------------------------
(* The inductive strengthening.                                            *)

\* Nobody enrols in a draft, and no programme becomes a draft again.
EnrolledAfterOpening ==
    \A s \in Subscriptions : subscription[s].status # "none" => programme # "DRAFT"

\* An intent was made for an enrolment.
IntentsNamed == \A i \in Intents : intent[i].status # "none" => intent[i].of \in Subscriptions

\* Whoever plans a distribution has an order that was received.
PlannedIsBought ==
    /\ \A o \in Orders : order[o].status = "FULFILLED" => order[o].received
    /\ \A d \in Distributions :
         distribution[d] # "none" => \E o \in Orders : order[o].status = "FULFILLED"

IInv ==
    /\ TypeOK
    /\ EnrolledAfterOpening
    /\ IntentsNamed
    /\ PlannedIsBought
    /\ ActiveIsPaidInFull
    /\ CollectedOnce
    /\ HandedOutIsBought
=============================================================================
