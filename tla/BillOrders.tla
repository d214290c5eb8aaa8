----------------------------- MODULE BillOrders -----------------------------
(***************************************************************************)
(* How a bill comes to be ordered.                                         *)
(*                                                                         *)
(*   syncBillCatalog, BillPaymentsService.refreshCatalogIfNeeded           *)
(*   validateCustomer, quoteForIntent, verifyIntentReference,              *)
(*   recordIntentPayment, completeIntentPayment: a bill paid by an intent  *)
(*   create: a bill paid under an idempotency key of its own               *)
(*                                                                         *)
(* One category with one biller, whose kind of reference does not change;  *)
(* every build lists the category, so that it is never retired.            *)
(* The catalogue is copied row by row, without a transaction, by whichever *)
(* server finds the copy expired or of another build than its own; during  *)
(* a deployment there are several.  What a recorded bill does to the       *)
(* wallet and what becomes of it is module BillPayments; whether the       *)
(* wallet can pay is left open here.                                       *)
(***************************************************************************)
EXTENDS Integers, FiniteSets

CONSTANTS
    Products,
    Servers,      \* processes, each with the catalogue of its build
    Catalogue,    \* of each: is the biller listed, and the terms of its products
    Spellings,    \* ways to write customers' numbers
    Normalised,   \* normaliseReference of each
    Recognised,   \* numbers the provider knows
    Prices,       \* amounts somebody may ask to pay
    Checks,       \* rows of bill_customer_validations
    Intents,      \* payment intents for bills
    BillKeys,     \* idempotency keys of direct bill payments
    Clients,      \* requests in flight
    Nothing

VARIABLES
    stored,   \* the copied catalogue
    copying,  \* how far each server's refresh is
    lone,     \* history: the refresh nothing has run beside so far
    copied,   \* history: the server whose lone refresh ended last
    checked,  \* what each check found
    intent,   \* status, check and amount of each intent
    bill,     \* bill_payments, by the intent or the key that pays
    client    \* what each request is doing

catalogueVars == <<stored, copying, lone, copied>>
orderVars == <<checked, intent, bill, client>>
ordersVars == <<catalogueVars, orderVars>>

Terms == [minimum: Nat \cup {Nothing}, maximum: Nat \cup {Nothing}, fixed: Nat \cup {Nothing}]
Listing == [biller: BOOLEAN, terms: [Products -> Terms \cup {Nothing}]]
ASSUME OrdersAssumption ==
    /\ Catalogue \in [Servers -> Listing]
    /\ Normalised \in [Spellings -> Spellings] /\ Recognised \subseteq Spellings
    /\ Prices \subseteq Nat /\ Intents \cap BillKeys = {}
    /\ Nothing \notin Checks

Numbers == {Normalised[s] : s \in Spellings}
Unchecked == [state |-> "none", product |-> Nothing, number |-> Nothing]
NoIntent == [status |-> "none", check |-> Nothing, amount |-> Nothing]
NoBill == [check |-> Nothing, amount |-> Nothing, paidFor |-> Nothing, sends |-> 0]
Away == [at |-> "away", order |-> Nothing, check |-> Nothing, number |-> Nothing,
         amount |-> Nothing]

OrdersOK ==
    /\ stored \in [build: Servers, expired: BOOLEAN, biller: BOOLEAN,
                   product: [Products -> [active: BOOLEAN, terms: Terms \cup {Nothing}]]]
    /\ copying \in [Servers -> [at: {"idle", "category", "biller", "products", "retire"},
                                left: SUBSET Products]]
    /\ lone \in Servers \cup {Nothing} /\ copied \in Servers \cup {Nothing}
    /\ checked \in [Checks -> [state: {"none", "valid", "invalid", "expired"},
                               product: Products \cup {Nothing}, number: Numbers \cup {Nothing}]]
    /\ intent \in [Intents -> [status: {"none", "open", "lapsed", "PROCESSING"},
                               check: Checks \cup {Nothing}, amount: Prices \cup {Nothing}]]
    /\ bill \in [Intents \cup BillKeys ->
                    [check: Checks \cup {Nothing}, amount: Prices \cup {Nothing},
                     paidFor: Numbers \cup {Nothing}, sends: Nat]]
    /\ client \in [Clients -> [at: {"away", "record", "send", "billed"},
                               order: Intents \cup BillKeys \cup {Nothing},
                               check: Checks \cup {Nothing},
                               number: Numbers \cup {Nothing},
                               amount: Prices \cup {Nothing}]]

\* The catalogue as a server that ran alone left it.
OrdersInit ==
    /\ \E w \in Servers : stored =
        [build |-> w, expired |-> FALSE, biller |-> Catalogue[w].biller,
         product |-> [p \in Products |-> [active |-> Catalogue[w].terms[p] # Nothing,
                                          terms |-> Catalogue[w].terms[p]]]]
    /\ copying = [w \in Servers |-> [at |-> "idle", left |-> {}]]
    /\ lone = Nothing /\ copied = Nothing
    /\ checked = [k \in Checks |-> Unchecked]
    /\ intent = [i \in Intents |-> NoIntent]
    /\ bill = [o \in Intents \cup BillKeys |-> NoBill]
    /\ client = [c \in Clients |-> Away]

-----------------------------------------------------------------------------
(* The catalogue.                                                          *)

Copy(w, place, left) == copying' = [copying EXCEPT ![w] = [at |-> place, left |-> left]]
Listed(w) == {p \in Products : Catalogue[w].terms[p] # Nothing}

\* refreshCatalogIfNeeded, when the copy is expired or of another build.
RefreshCatalogIfNeeded(w) ==
    /\ copying[w].at = "idle"
    /\ stored.expired \/ stored.build # w
    /\ Copy(w, "category", {})
    /\ lone' = IF \E v \in Servers : copying[v].at # "idle" THEN Nothing ELSE w
    /\ copied' = Nothing
    /\ UNCHANGED <<stored, orderVars>>

\* syncBillCatalog: the category first, with the build and the new expiry...
UpsertCategory(w) ==
    /\ copying[w].at = "category"
    /\ stored' = [stored EXCEPT !.build = w, !.expired = FALSE]
    /\ Copy(w, "biller", {})
    /\ UNCHANGED <<lone, copied, orderVars>>
\* ...the biller, when it is listed...
UpsertBiller(w) ==
    /\ copying[w].at = "biller"
    /\ IF Catalogue[w].biller
       THEN stored' = [stored EXCEPT !.biller = TRUE] /\ Copy(w, "products", Listed(w))
       ELSE UNCHANGED stored /\ Copy(w, "retire", {})
    /\ UNCHANGED <<lone, copied, orderVars>>
\* ...its products with their terms, one by one...
UpsertProduct(w, p) ==
    /\ p \in copying[w].left
    /\ stored' = [stored EXCEPT !.product[p] = [active |-> TRUE, terms |-> Catalogue[w].terms[p]]]
    /\ Copy(w, "products", copying[w].left \ {p})
    /\ UNCHANGED <<lone, copied, orderVars>>

\* Mutant of RetireProducts: products that are listed no more stay on sale.
KeepProducts(w) ==
    /\ copying[w].at = "products" /\ copying[w].left = {}
    /\ Copy(w, "retire", {})
    /\ UNCHANGED <<stored, lone, copied, orderVars>>

\* ...the products that are listed no more...
RetireProducts(w) ==
    /\ copying[w].at = "products" /\ copying[w].left = {}
    /\ stored' = [stored EXCEPT !.product = [p \in Products |->
                    IF p \in Listed(w) THEN @[p] ELSE [@[p] EXCEPT !.active = FALSE]]]
    /\ Copy(w, "retire", {})
    /\ UNCHANGED <<lone, copied, orderVars>>
\* ...and the biller, if it is listed no more.
RetireBillers(w) ==
    /\ copying[w].at = "retire"
    /\ stored' = [stored EXCEPT !.biller = @ /\ Catalogue[w].biller]
    /\ Copy(w, "idle", {})
    /\ copied' = IF lone = w THEN w ELSE Nothing
    /\ UNCHANGED <<lone, orderVars>>

\* A server dies in the middle of a refresh.
CopyingStops(w) ==
    /\ copying[w].at # "idle"
    /\ Copy(w, "idle", {})
    /\ UNCHANGED <<stored, lone, copied, orderVars>>
CatalogueExpires ==
    /\ stored' = [stored EXCEPT !.expired = TRUE]
    /\ UNCHANGED <<copying, lone, copied, orderVars>>

-----------------------------------------------------------------------------
(* Checking a number, quoting and paying.                                  *)

\* validateCustomer, of the biller alone or of one of its products.
ValidateCustomer(k, product, spelling) ==
    /\ checked[k].state = "none" /\ stored.biller
    /\ product # Nothing => stored.product[product].active
    /\ checked' = [checked EXCEPT ![k] =
        [state |-> IF Normalised[spelling] \in Recognised THEN "valid" ELSE "invalid",
         product |-> product, number |-> Normalised[spelling]]]
    /\ UNCHANGED <<catalogueVars, intent, bill, client>>
CheckExpires(k) ==
    /\ checked[k].state = "valid"
    /\ checked' = [checked EXCEPT ![k].state = "expired"]
    /\ UNCHANGED <<catalogueVars, intent, bill, client>>

\* assertAmount.
AssertAmount(amount, terms) ==
    /\ amount > 0
    /\ terms # Nothing =>
        /\ terms.minimum # Nothing => amount >= terms.minimum
        /\ terms.maximum # Nothing => amount <= terms.maximum
        /\ terms.fixed # Nothing => amount = terms.fixed
TermsOf(k) ==
    IF checked[k].product = Nothing THEN Nothing ELSE stored.product[checked[k].product].terms

\* quoteForIntent: a current check, of what is still sold, at an allowed amount.
Quotable(k, amount) ==
    /\ checked[k].state = "valid" /\ stored.biller
    /\ checked[k].product # Nothing => stored.product[checked[k].product].active
    /\ AssertAmount(amount, TermsOf(k))

\* PaymentsService.create for a bill; a known key returns the intent it has.
CreateIntent(i, k, amount) ==
    /\ intent[i].status = "none" /\ Quotable(k, amount)
    /\ intent' = [intent EXCEPT ![i] = [status |-> "open", check |-> k, amount |-> amount]]
    /\ UNCHANGED <<catalogueVars, checked, bill, client>>
IntentLapses(i) ==
    /\ intent[i].status = "open"
    /\ intent' = [intent EXCEPT ![i].status = "lapsed"]
    /\ UNCHANGED <<catalogueVars, checked, bill, client>>

Start(c, order, k, number, amount) ==
    client' = [client EXCEPT ![c] = [at |-> "record", order |-> order, check |-> k,
                                     number |-> number, amount |-> amount]]

\* Mutant of VerifyReference: the digest of the number is not compared.
VerifyAnyReference(k, spelling) == TRUE

\* verifyIntentReference: the number is the one that was checked.
VerifyReference(k, spelling) == Normalised[spelling] = checked[k].number

\* PaymentsService.confirm, up to the PIN.
Confirm(c, i, spelling) ==
    /\ client[c].at = "away" /\ intent[i].status = "open"
    /\ VerifyReference(intent[i].check, spelling)
    /\ Start(c, i, intent[i].check, Normalised[spelling], intent[i].amount)
    /\ UNCHANGED <<catalogueVars, checked, intent, bill>>

\* settleFromWallet with recordIntentPayment: quoted again, in one transaction.
\* An intent that has lapsed since is not noticed.
RecordIntentPayment(c) ==
    LET i == client[c].order IN
    /\ client[c].at = "record" /\ i \in Intents
    /\ intent[i].status \in {"open", "lapsed"} /\ Quotable(intent[i].check, intent[i].amount)
    /\ intent' = [intent EXCEPT ![i].status = "PROCESSING"]
    /\ bill' = [bill EXCEPT ![i].check = intent[i].check, ![i].amount = intent[i].amount]
    /\ client' = [client EXCEPT ![c].at = "send"]
    /\ UNCHANGED <<catalogueVars, checked>>

\* create, up to its transaction: a current check of the number given.
Create(c, key, k, spelling, amount) ==
    /\ client[c].at = "away"
    /\ checked[k].state = "valid" /\ VerifyReference(k, spelling)
    /\ Start(c, key, k, Normalised[spelling], amount)
    /\ UNCHANGED <<catalogueVars, checked, intent, bill>>

\* Its transaction finds no bill under the key.  The terms of the product are
\* asked for, not whether it is still sold...
RecordBill(c) ==
    LET key == client[c].order IN
    /\ client[c].at = "record" /\ key \in BillKeys /\ bill[key] = NoBill
    /\ AssertAmount(client[c].amount, TermsOf(client[c].check))
    /\ bill' = [bill EXCEPT ![key].check = client[c].check, ![key].amount = client[c].amount]
    /\ client' = [client EXCEPT ![c].at = "send"]
    /\ UNCHANGED <<catalogueVars, checked, intent>>
\* ...or it finds one: it is the answer to a request for the same bill.
SameRequest(c, key) == bill[key].check = client[c].check /\ bill[key].amount = client[c].amount
FindBill(c) ==
    LET key == client[c].order IN
    /\ client[c].at = "record" /\ key \in BillKeys /\ bill[key] # NoBill
    /\ IF SameRequest(c, key) THEN client' = [client EXCEPT ![c].at = "billed"]
       ELSE client' = [client EXCEPT ![c] = Away]
    /\ UNCHANGED <<catalogueVars, checked, intent, bill>>

\* The provider is called with the number the request gave.
Pay(c) ==
    /\ client[c].at = "send"
    /\ bill' = [bill EXCEPT ![client[c].order].paidFor = client[c].number,
                            ![client[c].order].sends = @ + 1]
    /\ client' = [client EXCEPT ![c].at = "billed"]
    /\ UNCHANGED <<catalogueVars, checked, intent>>

\* The answer is read, a check throws, the wallet cannot pay, the process dies.
Leave(c) ==
    /\ client[c].at # "away"
    /\ client' = [client EXCEPT ![c] = Away]
    /\ UNCHANGED <<catalogueVars, checked, intent, bill>>

OrdersNext ==
    \/ \E w \in Servers :
        \/ RefreshCatalogIfNeeded(w) \/ UpsertCategory(w) \/ UpsertBiller(w)
        \/ RetireProducts(w) \/ RetireBillers(w) \/ CopyingStops(w)
        \/ \E p \in Products : UpsertProduct(w, p)
    \/ CatalogueExpires
    \/ \E k \in Checks :
        \/ \E p \in Products \cup {Nothing}, s \in Spellings : ValidateCustomer(k, p, s)
        \/ CheckExpires(k)
    \/ \E i \in Intents :
        \/ \E k \in Checks, a \in Prices : CreateIntent(i, k, a)
        \/ IntentLapses(i)
    \/ \E c \in Clients :
        \/ \E i \in Intents, s \in Spellings : Confirm(c, i, s)
        \/ \E key \in BillKeys, k \in Checks, s \in Spellings, a \in Prices :
            Create(c, key, k, s, a)
        \/ RecordIntentPayment(c) \/ RecordBill(c) \/ FindBill(c) \/ Pay(c) \/ Leave(c)

OrdersSpec == OrdersInit /\ [][OrdersNext]_ordersVars

-----------------------------------------------------------------------------
(* Properties.                                                             *)

\* "The provider can only ever be paid for the number the payer was shown":
\* whatever route, spelling, retry or second request, a bill goes to the provider
\* at most once and for the number its check recognised, and whoever is told of
\* a bill asked for that bill (verifyIntentReference, create).
BilledAsChecked ==
    /\ \A o \in Intents \cup BillKeys :
        /\ bill[o].sends <= 1
        /\ bill[o].sends = 1 => /\ bill[o].paidFor = checked[bill[o].check].number
                                /\ bill[o].paidFor \in Recognised
    /\ \A c \in Clients : client[c].at = "billed" =>
        /\ bill[client[c].order].check = client[c].check
        /\ bill[client[c].order].amount = client[c].amount

\* After a refresh that no other ran beside, the copy is the catalogue of the
\* server that made it, whatever half copies servers that died or ran at the
\* same time left before: repriced and retired products included
\* (syncBillCatalog).  Products of a biller that is not listed stay as they were.
CatalogueIsCopied ==
    copied # Nothing =>
        /\ stored.build = copied
        /\ stored.biller = Catalogue[copied].biller
        /\ stored.biller => \A p \in Products :
            /\ stored.product[p].active <=> p \in Listed(copied)
            /\ stored.product[p].active => stored.product[p].terms = Catalogue[copied].terms[p]
=============================================================================
