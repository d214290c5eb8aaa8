----------------------------- MODULE AkawoPools -----------------------------
(***************************************************************************)
(* One Akawo collection pool: an organiser opens it, members join with a   *)
(* code and owe one due each, dues are paid from wallets, waived, or       *)
(* their owners removed, and the pool is closed or cancelled.              *)
(*                                                                         *)
(*   AkawoPoolsService.open / close / cancel / join / removeMember /       *)
(*     waiveDue                                                            *)
(*   PaymentsService.create / settleFromWallet with AkawoPoolDueTarget     *)
(*                                                                         *)
(* join looks the pool up, and create its target, before they write; every *)
(* other operation is one serializable transaction.  A confirmation may    *)
(* be tried at any time or never, which includes the expiry of an intent.  *)
(* The pool's name, purpose, date and listing (update) are read by no      *)
(* guard modelled here and left out.                                       *)
(***************************************************************************)
EXTENDS Integers, FiniteSets

CONSTANTS
    Users,       \* those who may join
    References,  \* what members identify themselves by
    Intents,     \* payment intents of type AKAWO_POOL_DUE
    Amount,      \* amountMinor, the same for every member
    Opening,     \* what each user's wallet holds at first
    None

ASSUME PoolAssumption ==
    /\ Amount \in Nat \ {0}
    /\ Opening \in [Users -> Nat]
    /\ None \notin References
    /\ IsFiniteSet(Users)

VARIABLES
    status,    \* akawo_pools.status
    member,    \* akawo_pool_members
    due,       \* status of each member's row in akawo_pool_dues
    joiner,    \* the join request of each user
    intent,    \* payment_intents, and the requests that create them
    postings,  \* ledger transactions of settled intents
    wallet,    \* ledger balance of each user's available account
    payable,   \* what PROVIDER_PAYABLE holds for the pool
    verified   \* the organiser has finished verification (external)

people == <<member, due>>
money == <<postings, wallet, payable>>
vars == <<status, member, due, joiner, intent, postings, wallet, payable, verified>>

PoolStatus == {"DRAFT", "OPEN", "CLOSED", "CANCELLED"}
DueStatus == {"none", "PENDING", "PAID", "WAIVED"}

TypeOK ==
    /\ status \in PoolStatus
    /\ member \in [Users -> [status: {"none", "ACTIVE", "REMOVED"},
                             reference: References \cup {None}]]
    /\ due \in [Users -> DueStatus]
    /\ joiner \in [Users -> References \cup {None}]
    /\ intent \in [Intents -> [status: {"none", "resolved", "REQUIRES_CONFIRMATION", "SUCCEEDED"},
                               user: Users \cup {None}]]
    /\ postings \subseteq Intents
    /\ wallet \in [Users -> Nat]
    /\ payable \in Nat
    /\ verified \in BOOLEAN

\* create: the pool starts as a DRAFT without members.
Init ==
    /\ status = "DRAFT"
    /\ member = [u \in Users |-> [status |-> "none", reference |-> None]]
    /\ due = [u \in Users |-> "none"]
    /\ joiner = [u \in Users |-> None]
    /\ intent = [i \in Intents |-> [status |-> "none", user |-> None]]
    /\ postings = {}
    /\ wallet = Opening
    /\ payable = 0
    /\ verified = TRUE

-----------------------------------------------------------------------------
(* The organiser.                                                          *)

CanTransition(from, to) ==
    \/ from = "DRAFT" /\ to \in {"OPEN", "CANCELLED"}
    \/ from = "OPEN" /\ to \in {"CLOSED", "CANCELLED"}

PaidCount == Cardinality({u \in Users : due[u] = "PAID"})

\* open and close.
Transition(to) ==
    /\ CanTransition(status, to)
    /\ status' = to
    /\ UNCHANGED <<people, joiner, intent, money, verified>>

\* cancel: refused once a due is paid.
Cancel ==
    /\ CanTransition(status, "CANCELLED")
    /\ PaidCount = 0
    /\ status' = "CANCELLED"
    /\ UNCHANGED <<people, joiner, intent, money, verified>>

\* removeMember, in any state of the pool; the due row stays.
RemoveMember(u) ==
    /\ due[u] \in {"PENDING", "WAIVED"}
    /\ member' = [member EXCEPT ![u].status = "REMOVED"]
    /\ UNCHANGED <<status, due, joiner, intent, money, verified>>

\* Mutant of WaiveDue: a due that was paid can be waived.
WaiveAny(u) ==
    /\ due[u] # "none"
    /\ due' = [due EXCEPT ![u] = "WAIVED"]
    /\ UNCHANGED <<status, member, joiner, intent, money, verified>>

WaiveDue(u) ==
    /\ due[u] = "PENDING"
    /\ due' = [due EXCEPT ![u] = "WAIVED"]
    /\ UNCHANGED <<status, member, joiner, intent, money, verified>>

\* An operator restricts the organiser's account, or lifts the restriction.
Verification ==
    /\ verified' = ~verified
    /\ UNCHANGED <<status, people, joiner, intent, money>>

-----------------------------------------------------------------------------
(* A member.                                                               *)

\* join, the look-up by code: the only time the pool's status is looked at.
FindPool(u, ref) ==
    /\ joiner[u] = None
    /\ status = "OPEN"
    /\ joiner' = [joiner EXCEPT ![u] = ref]
    /\ UNCHANGED <<status, people, intent, money, verified>>

IsReferenceFree(ref) == \A w \in Users : member[w].reference # ref

\* join, the transaction: the membership and its due, or a refusal.
Join(u) ==
    /\ joiner[u] # None
    /\ \/ /\ verified
          /\ member[u].status = "none"
          /\ IsReferenceFree(joiner[u])
          /\ member' = [member EXCEPT ![u] = [status |-> "ACTIVE", reference |-> joiner[u]]]
          /\ due' = [due EXCEPT ![u] = "PENDING"]
       \/ /\ ~(verified /\ member[u].status = "none" /\ IsReferenceFree(joiner[u]))
          /\ UNCHANGED people
    /\ joiner' = [joiner EXCEPT ![u] = None]
    /\ UNCHANGED <<status, intent, money, verified>>

\* AkawoPoolDueTarget.resolve: neither the pool's status nor the member's is
\* looked at.
Resolves(u) == due[u] = "PENDING" /\ verified

\* PaymentsService.create, the read of the due; the request remembers it.
ResolveTarget(i, u) ==
    /\ intent[i].status = "none"
    /\ Resolves(u)
    /\ intent' = [intent EXCEPT ![i] = [status |-> "resolved", user |-> u]]
    /\ UNCHANGED <<status, people, joiner, money, verified>>

\* PaymentsService.create, the insert: the due may have changed meanwhile.
CreateIntent(i) ==
    /\ intent[i].status = "resolved"
    /\ intent' = [intent EXCEPT ![i].status = "REQUIRES_CONFIRMATION"]
    /\ UNCHANGED <<status, people, joiner, money, verified>>

\* settleFromWallet and AkawoPoolDueTarget.settle.
ConfirmIntent(i) ==
    LET u == intent[i].user IN
      /\ intent[i].status = "REQUIRES_CONFIRMATION"
      /\ Resolves(u)
      /\ wallet[u] >= Amount
      /\ postings' = postings \cup {i}
      /\ wallet' = [wallet EXCEPT ![u] = @ - Amount]
      /\ payable' = payable + Amount
      /\ due' = [due EXCEPT ![u] = "PAID"]
      /\ intent' = [intent EXCEPT ![i].status = "SUCCEEDED"]
      /\ UNCHANGED <<status, member, joiner, verified>>

-----------------------------------------------------------------------------
(* What the views add up.                                                  *)

\* Mutant of CollectedTotal: every due that is not outstanding counts as paid.
CollectedSettled == Amount * Cardinality({u \in Users : due[u] \notin {"none", "PENDING"}})

\* totals, of listOrganised, listJoined and getMemberView.
CollectedTotal == Amount * PaidCount

\* getOrganiserView: only ACTIVE members are listed and added up.
OrganiserTotal == Amount * Cardinality({u \in Users : member[u].status = "ACTIVE" /\ due[u] = "PAID"})

-----------------------------------------------------------------------------
Next ==
    \/ \E to \in {"OPEN", "CLOSED"} : Transition(to)
    \/ Cancel
    \/ Verification
    \/ \E u \in Users : \/ RemoveMember(u) \/ WaiveDue(u) \/ Join(u)
                        \/ \E ref \in References : FindPool(u, ref)
    \/ \E i \in Intents : \/ CreateIntent(i) \/ ConfirmIntent(i)
                          \/ \E u \in Users : ResolveTarget(i, u)

Spec == Init /\ [][Next]_vars

-----------------------------------------------------------------------------
(* Properties.                                                             *)

\* "A due is PAID because money arrived" (ADR-007): each due is PAID exactly
\* when one ledger transaction paid it, also when several intents were made
\* for it and while it is waived or its owner removed.
PaidIsBacked ==
    \A u \in Users :
        Cardinality({i \in postings : intent[i].user = u}) = IF due[u] = "PAID" THEN 1 ELSE 0

\* The total a pool reports as collected is what the ledger holds for it,
\* and nobody pays more than one due.
CollectedIsReceived ==
    /\ payable = CollectedTotal
    /\ OrganiserTotal <= payable
    /\ \A u \in Users : wallet[u] = Opening[u] - IF due[u] = "PAID" THEN Amount ELSE 0

\* "a membership can never exist without the obligation it implies" (join),
\* and a member's reference stays theirs, removed or not.
MembersOwe ==
    /\ \A u \in Users : member[u].status # "none" <=> due[u] # "none"
    /\ \A u, w \in Users :
         (member[u].reference # None /\ member[u].reference = member[w].reference) => u = w

\* A due that was paid or waived is never reopened, charged or waived again,
\* whatever intents are still waiting for it.
SettledDuesStay ==
    [][\A u \in Users : due[u] \in {"PAID", "WAIVED"} => due'[u] = due[u]]_vars

(* The inductive strengthening.                                            *)

\* An intent belongs to a member; a posting is that of a SUCCEEDED intent.
IntentsOwned ==
    /\ \A i \in Intents : intent[i].status # "none"
         => intent[i].user \in Users /\ due[intent[i].user] # "none"
    /\ \A i \in Intents : i \in postings <=> intent[i].status = "SUCCEEDED"

\* A due is PAID exactly when a posting paid it, and never by two.
PaidOnce ==
    /\ \A u \in Users : due[u] = "PAID" <=> \E i \in postings : intent[i].user = u
    /\ \A i, j \in postings : intent[i].user = intent[j].user => i = j

\* A member has a reference, anyone else none.
MembersNamed ==
    \A u \in Users : member[u].status = "none" <=> member[u].reference = None

IInv ==
    /\ TypeOK
    /\ IntentsOwned
    /\ PaidOnce
    /\ MembersNamed
    /\ MembersOwe
=============================================================================
