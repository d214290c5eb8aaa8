---------------------------- MODULE FoodProgramme ----------------------------
(***************************************************************************)
(* One Food Ajo programme as its members see it: packages whose prices are *)
(* locked when it opens, enrolments against a capacity, payment into the   *)
(* programme's escrow account and refunds out of it.                       *)
(*                                                                         *)
(*   FoodAjoCoordinatorService.transitionProgramme / updatePackage         *)
(*   FoodAjoProgrammesService.subscribe / cancelSubscription               *)
(*   PaymentsService.create / settleFromWallet with FoodSubscriptionTarget *)
(*                                                                         *)
(* Every operation but PaymentsService.create is one serializable          *)
(* transaction.  Buying and handing out are in FoodFulfilment.             *)
(***************************************************************************)
EXTENDS Integers, FiniteSets, Functions

CONSTANTS
    Users,
    Packages,
    Subscriptions,  \* possible rows of food_subscriptions: a user and a package
    OwnerOf,        \* the user of a row
    PackageOf,      \* the package of a row
    Prices,         \* prices a package may be given
    Quantities,     \* portions a member may ask for
    Capacity,       \* enrolmentCapacity, in portions
    Intents,        \* payment intents of type FOOD_SUBSCRIPTION
    Opening,        \* what each user's wallet holds at first
    None

ASSUME ProgrammeAssumption ==
    /\ OwnerOf \in [Subscriptions -> Users]
    /\ PackageOf \in [Subscriptions -> Packages]
    /\ Prices \subseteq Nat \ {0}
    /\ Quantities \subseteq Nat \ {0}
    /\ Capacity \in Nat \ {0}
    /\ Opening \in [Users -> Nat]
    /\ None \notin Subscriptions
    /\ IsFiniteSet(Subscriptions)

VARIABLES
    programme,     \* food_ajo_groups.status
    package,       \* food_packages
    subscription,  \* food_subscriptions
    intent,        \* payment_intents, and the requests that create them
    refunded,      \* FOOD-REFUND references the ledger holds
    wallet,        \* ledger balance of each user's available account
    escrow         \* ledger balance of FOOD_PROGRAMME_ESCROW

programmeVars == <<programme, package, subscription, intent, refunded, wallet, escrow>>

ProgrammeStatus == {"DRAFT", "OPEN", "ACTIVE", "COMPLETED", "SUSPENDED", "CANCELLED"}

ProgrammeTypeOK ==
    /\ programme \in ProgrammeStatus
    /\ package \in [Packages -> [price: Prices, locked: BOOLEAN]]
    /\ subscription \in [Subscriptions -> [status: {"none", "PENDING", "ACTIVE", "CANCELLED"},
                                           quantity: Nat, paid: Nat]]
    /\ intent \in [Intents -> [status: {"none", "resolved", "REQUIRES_CONFIRMATION", "SUCCEEDED"},
                               of: Subscriptions \cup {None}, amount: Nat]]
    /\ refunded \subseteq Subscriptions
    /\ wallet \in [Users -> Nat]
    /\ escrow \in Int

\* create: a DRAFT with priced packages.
ProgrammeInit ==
    /\ programme = "DRAFT"
    /\ package \in [Packages -> [price: Prices, locked: {FALSE}]]
    /\ subscription = [s \in Subscriptions |-> [status |-> "none", quantity |-> 0, paid |-> 0]]
    /\ intent = [i \in Intents |-> [status |-> "none", of |-> None, amount |-> 0]]
    /\ refunded = {}
    /\ wallet = Opening
    /\ escrow = 0

-----------------------------------------------------------------------------
(* The coordinator.                                                        *)

CanTransitionProgramme(from, to) ==
    \/ from = "DRAFT" /\ to \in {"OPEN", "CANCELLED"}
    \/ from = "OPEN" /\ to \in {"ACTIVE", "CANCELLED", "SUSPENDED"}
    \/ from = "ACTIVE" /\ to \in {"COMPLETED", "SUSPENDED"}
    \/ from = "SUSPENDED" /\ to \in {"OPEN", "ACTIVE", "CANCELLED"}

\* transitionProgramme, but for COMPLETED, which looks at the hand-out.
TransitionProgramme(to) ==
    /\ to # "COMPLETED"
    /\ CanTransitionProgramme(programme, to)
    /\ programme' = to
    /\ package' = IF to = "OPEN" THEN [p \in Packages |-> [package[p] EXCEPT !.locked = TRUE]]
                  ELSE package
    /\ UNCHANGED <<subscription, intent, refunded, wallet, escrow>>

IsPackageEditable(p) == programme = "DRAFT" /\ ~package[p].locked

UpdatePackage(p, price) ==
    /\ IsPackageEditable(p)
    /\ package' = [package EXCEPT ![p].price = price]
    /\ UNCHANGED <<programme, subscription, intent, refunded, wallet, escrow>>

-----------------------------------------------------------------------------
(* A member.                                                               *)

IsLive(s) == subscription[s].status \in {"PENDING", "ACTIVE"}

Live == {s \in Subscriptions : IsLive(s)}

\* The portions taken, counted for subscribe and for buying.
Portions == SumFunctionOnSet([s \in Subscriptions |-> subscription[s].quantity], Live)

HasRoom(quantity) == Portions + quantity <= Capacity

\* subscribe: a new row, or one that was withdrawn from, taken up again.
Subscribe(s, quantity) ==
    /\ programme = "OPEN"
    /\ ~IsLive(s)
    /\ HasRoom(quantity)
    /\ subscription' = [subscription EXCEPT
                          ![s] = [status |-> "PENDING", quantity |-> quantity, paid |-> @.paid]]
    /\ UNCHANGED <<programme, package, intent, refunded, wallet, escrow>>

\* Mutant of CancelSubscription: what was paid is not zeroed with the refund.
CancelKeepingPaid(s) ==
    LET paid == subscription[s].paid IN
      /\ IsLive(s)
      /\ paid > 0 => programme = "OPEN" /\ s \notin refunded
      /\ subscription' = [subscription EXCEPT ![s].status = "CANCELLED"]
      /\ refunded' = IF paid > 0 THEN refunded \cup {s} ELSE refunded
      /\ escrow' = escrow - paid
      /\ wallet' = [wallet EXCEPT ![OwnerOf[s]] = @ + paid]
      /\ UNCHANGED <<programme, package, intent>>

\* cancelSubscription with refundWithin.  The row is any one of the caller's;
\* the reference of the refund names the row alone, so a second refund of the
\* same row is refused by the ledger.
CancelSubscription(s) ==
    LET paid == subscription[s].paid IN
      /\ IsLive(s)
      /\ paid > 0 => programme = "OPEN" /\ s \notin refunded
      /\ subscription' = [subscription EXCEPT
                            ![s] = [status |-> "CANCELLED", quantity |-> @.quantity, paid |-> 0]]
      /\ refunded' = IF paid > 0 THEN refunded \cup {s} ELSE refunded
      /\ escrow' = escrow - paid
      /\ wallet' = [wallet EXCEPT ![OwnerOf[s]] = @ + paid]
      /\ UNCHANGED <<programme, package, intent>>

Total(s) == package[PackageOf[s]].price * subscription[s].quantity

Outstanding(s) == Total(s) - subscription[s].paid

\* FoodSubscriptionTarget.resolve.
Resolves(s) ==
    /\ subscription[s].status = "PENDING"
    /\ programme \in {"OPEN", "ACTIVE"}
    /\ Outstanding(s) > 0

\* PaymentsService.create, the read of what is owed; the request remembers it.
ResolveTarget(i, s) ==
    /\ intent[i].status = "none"
    /\ Resolves(s)
    /\ intent' = [intent EXCEPT ![i] = [status |-> "resolved", of |-> s, amount |-> Outstanding(s)]]
    /\ UNCHANGED <<programme, package, subscription, refunded, wallet, escrow>>

\* PaymentsService.create, the insert: the enrolment may have changed meanwhile.
CreateIntent(i) ==
    /\ intent[i].status = "resolved"
    /\ intent' = [intent EXCEPT ![i].status = "REQUIRES_CONFIRMATION"]
    /\ UNCHANGED <<programme, package, subscription, refunded, wallet, escrow>>

\* settleFromWallet and FoodSubscriptionTarget.settle.
ConfirmIntent(i) ==
    LET s == intent[i].of
        amount == intent[i].amount
        owner == OwnerOf[s]
        paid == subscription[s].paid + amount
    IN  /\ intent[i].status = "REQUIRES_CONFIRMATION"
        /\ Resolves(s)
        /\ amount = Outstanding(s)
        /\ wallet[owner] >= amount
        /\ wallet' = [wallet EXCEPT ![owner] = @ - amount]
        /\ escrow' = escrow + amount
        /\ subscription' = [subscription EXCEPT
                              ![s] = [status |-> IF paid >= Total(s) THEN "ACTIVE" ELSE @.status,
                                      quantity |-> @.quantity, paid |-> paid]]
        /\ intent' = [intent EXCEPT ![i].status = "SUCCEEDED"]
        /\ UNCHANGED <<programme, package, refunded>>

-----------------------------------------------------------------------------
ProgrammeNext ==
    \/ \E to \in ProgrammeStatus : TransitionProgramme(to)
    \/ \E p \in Packages, price \in Prices : UpdatePackage(p, price)
    \/ \E s \in Subscriptions : \/ CancelSubscription(s)
                                \/ \E quantity \in Quantities : Subscribe(s, quantity)
    \/ \E i \in Intents : \/ CreateIntent(i) \/ ConfirmIntent(i)
                          \/ \E s \in Subscriptions : ResolveTarget(i, s)

-----------------------------------------------------------------------------
(* Properties.                                                             *)

\* What the rows say was paid is in the escrow account, and has left the
\* wallet of the member it is written to: through payments, refunds,
\* enrolling again and intents quoted for an earlier quantity.
PaidIsInEscrow ==
    LET paid == [s \in Subscriptions |-> subscription[s].paid] IN
      /\ escrow = SumFunctionOnSet(paid, Subscriptions)
      /\ \A u \in Users :
           wallet[u] = Opening[u] - SumFunctionOnSet(paid, {s \in Subscriptions : OwnerOf[s] = u})

\* "an enrolment cannot become ACTIVE short" (settle), nor be charged over:
\* an ACTIVE enrolment has paid exactly its price, any other nothing.
ActiveIsPaidInFull ==
    \A s \in Subscriptions :
        subscription[s].paid = IF subscription[s].status = "ACTIVE" THEN Total(s) ELSE 0

\* "the price a member saw is the price they owe" (transitionProgramme):
\* while someone is enrolled the price of their package does not change.
AgreedPriceStays ==
    [][\A s \in Subscriptions : IsLive(s) => package'[PackageOf[s]].price = package[PackageOf[s]].price]_programmeVars
=============================================================================
