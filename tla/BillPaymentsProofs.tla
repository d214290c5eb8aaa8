------------------------- MODULE BillPaymentsProofs -------------------------
(***************************************************************************)
(* Proofs about BillPayments for every set of bills, operators, amounts,   *)
(* fees and opening balance: the inductive invariant, what the reserve     *)
(* holds, and that the code's reserve, settle, release and reverse         *)
(* implement Escrow.                                                       *)
(*                                                                         *)
(* The second part is about Accounts and Sessions: the chain of refresh    *)
(* tokens and the ways into an account, for every number of addresses,     *)
(* concurrent requests, sessions, tokens, codes and invitations.           *)
(*                                                                         *)
(* The third is about Fees: the bands and the price floor of a fee rule.   *)
(***************************************************************************)
EXTENDS BillPayments, Accounts, Fees, Sums, TLAPS

Kinds == {"reserve", "settle", "release", "reversal"}

\* What the entries of each posting are; they cancel out.
LEMMA EntriesOf ==
    ASSUME NEW b \in Bills
    PROVE  /\ Total(b) \in Nat
           /\ Entries(b, "reserve") = [a \in Accounts |->
                CASE a = "available" -> -Total(b) [] a = "reserved" -> Total(b) [] OTHER -> 0]
           /\ \A kind \in Kinds : \A a \in Accounts : Entries(b, kind)[a] \in Int
           /\ \A kind \in Kinds : Entries(b, kind)["available"] + Entries(b, kind)["reserved"]
                + Entries(b, kind)["payable"] + Entries(b, kind)["revenue"]
                + Entries(b, kind)["others"] = 0
           /\ \A kind \in Kinds \ {"reserve"} : Entries(b, kind)["available"] >= 0
<1>0. AmountOf[b] \in Nat /\ FeeOf[b] \in Nat
  BY MoneyAssumption
<1>1. Total(b) \in Nat
  BY <1>0 DEF Total
<1>2. Entries(b, "reserve") = [a \in Accounts |->
        CASE a = "available" -> -Total(b) [] a = "reserved" -> Total(b) [] OTHER -> 0]
  BY DEF Entries, Accounts
<1>3. ASSUME NEW kind \in Kinds
      PROVE  /\ \A a \in Accounts : Entries(b, kind)[a] \in Int
             /\ Entries(b, kind)["available"] + Entries(b, kind)["reserved"]
                + Entries(b, kind)["payable"] + Entries(b, kind)["revenue"]
                + Entries(b, kind)["others"] = 0
             /\ kind # "reserve" => Entries(b, kind)["available"] >= 0
  <2>1. CASE kind = "reserve"
    BY <1>0, <1>1, <2>1 DEF Entries, Accounts, Total
  <2>2. CASE kind = "settle"
    BY <1>0, <1>1, <2>2 DEF Entries, Accounts, Total
  <2>3. CASE kind = "release"
    BY <1>0, <1>1, <2>3 DEF Entries, Accounts, Total
  <2>4. CASE kind = "reversal"
    BY <1>0, <1>1, <2>4 DEF Entries, Accounts, Total
  <2> QED
    BY <2>1, <2>2, <2>3, <2>4 DEF Kinds
<1> QED
  BY <1>1, <1>2, <1>3

\* postWithin records the key, keeps the total and, but for a reserve, never
\* lowers the available balance.
LEMMA PostWithinKeeps ==
    ASSUME TypeOK, Solvent, NEW b \in Bills, NEW kind \in Kinds, PostWithin(b, kind),
           kind = "reserve" => account["available"] >= Total(b)
    PROVE  /\ posted' = [posted EXCEPT ![b] = @ \cup {kind}]
           /\ posted' \in [Bills -> SUBSET Kinds]
           /\ account' \in [Accounts -> Int]
           /\ Solvent'
<1>1. posted' = [posted EXCEPT ![b] = @ \cup {kind}] /\ posted' \in [Bills -> SUBSET Kinds]
  BY DEF TypeOK, PostWithin, Kinds
<1>2. CASE kind \in posted[b]
  BY <1>1, <1>2 DEF PostWithin, TypeOK, Solvent
<1>3. CASE kind \notin posted[b]
  <2>1. \A a \in Accounts : /\ Entries(b, kind)[a] \in Int /\ account[a] \in Int
                            /\ account'[a] = account[a] + Entries(b, kind)[a]
    BY <1>3, EntriesOf DEF PostWithin, TypeOK
  <2>2. account' \in [Accounts -> Int]
    BY <1>3, <2>1 DEF PostWithin
  <2>3. account'["available"] >= 0
    <3>1. CASE kind = "reserve"
      <4>1. Entries(b, kind)["available"] = -Total(b) /\ Total(b) \in Nat
        BY <3>1, EntriesOf DEF Accounts
      <4> QED
        BY <2>1, <3>1, <4>1 DEF Accounts
    <3>2. CASE kind # "reserve"
      <4>1. Entries(b, kind)["available"] >= 0
        BY <3>2, EntriesOf
      <4> QED
        BY <2>1, <4>1 DEF Accounts, Solvent
    <3> QED
      BY <3>1, <3>2
  <2>4. Entries(b, kind)["available"] + Entries(b, kind)["reserved"]
          + Entries(b, kind)["payable"] + Entries(b, kind)["revenue"]
          + Entries(b, kind)["others"] = 0
    BY EntriesOf
  <2> QED
    BY <1>1, <2>1, <2>2, <2>3, <2>4, MoneyAssumption DEF Solvent, Accounts
<1> QED
  BY <1>2, <1>3

\* Updating the status, or the status and reconciliation state, of a row.
LEMMA RowUpdate ==
    ASSUME NEW f \in [Bills -> BillRow], NEW b \in Bills,
           NEW s \in BillStatus, NEW r \in ReconciliationState
    PROVE  /\ [f EXCEPT ![b].status = s] \in [Bills -> BillRow]
           /\ [f EXCEPT ![b].status = s, ![b].recon = r] \in [Bills -> BillRow]
  BY DEF BillRow

LEMMA StatusValues ==
    /\ \A s \in {"none", "PENDING", "RECONCILIATION_REQUIRED", "SUCCESSFUL", "FAILED", "REVERSED"} :
         s \in BillStatus
    /\ \A r \in {"NOT_REQUIRED", "PENDING", "RESOLVED"} : r \in ReconciliationState
  BY DEF BillStatus, ReconciliationState

\* What holds of the database rows, apart from the requests in flight.
RowsInv ==
    /\ TypeOK
    /\ \A b \in Bills : BillInStep(b) /\ PostingsBacked(b)
    /\ IntentInStep
    /\ StatusBacked
    /\ Solvent

\* applyProviderResult keeps the rows consistent, given an answer that was
\* true when the provider gave it, however late it is applied.
LEMMA ApplyKeepsRows ==
    ASSUME RowsInv, NEW b \in Bills, NEW result \in Result,
           AnswerTrue(b, result), posted[b] # {},
           ApplyProviderResult(b, result),
           UNCHANGED <<provider, faults>>,
           request' \in [Bills -> [pc: {"none", "send", "apply", "done"}, result: Result]],
           reconciler' \in [Reconcilers -> [pc: {"idle", "query", "apply"},
                                            bill: Bills, result: Result]]
    PROVE  /\ RowsInv'
           /\ \A d \in Bills : posted'[d] # {} <=> posted[d] # {}
<1> USE DEF RowsInv
<1>1. CASE result = "SUCCESSFUL" /\ Settle(b)
  <2>1. /\ posted' = [posted EXCEPT ![b] = @ \cup {"settle"}]
        /\ posted' \in [Bills -> SUBSET Kinds]
        /\ account' \in [Accounts -> Int] /\ Solvent'
    BY <1>1, PostWithinKeeps DEF Settle, Kinds
  <2>2. "settle" \notin posted[b] /\ "release" \notin posted[b] /\ intent[b] = "PROCESSING"
    BY <1>1 DEF Settle, BillInStep, PostingsBacked, AnswerTrue, IntentInStep, Held
  <2>3. TypeOK'
    BY <1>1, <2>1 DEF Settle, SyncIntent, TypeOK, BillRow, BillStatus, ReconciliationState, Kinds
  <2>4. /\ bill'[b].status = "SUCCESSFUL" /\ receipts' = receipts \cup {b} /\ bill'[b].recon = "NOT_REQUIRED"
        /\ intent'[b] = "SUCCEEDED" /\ posted'[b] = posted[b] \cup {"settle"}
        /\ \A d \in Bills \ {b} : bill'[d] = bill[d] /\ intent'[d] = intent[d] /\ posted'[d] = posted[d]
    BY <1>1, <2>1, <2>2 DEF Settle, SyncIntent, TypeOK, BillRow
  <2>5. \A d \in Bills : BillInStep(d)' /\ PostingsBacked(d)'
    BY <1>1, <2>2, <2>4 DEF BillInStep, PostingsBacked, AnswerTrue
  <2>6. IntentInStep' /\ StatusBacked'
    BY <2>2, <2>4 DEF IntentInStep, StatusBacked, Held
  <2> QED
    BY <2>1, <2>3, <2>4, <2>5, <2>6
<1>2. CASE result = "FAILED" /\ Release(b)
  <2>1. /\ posted' = [posted EXCEPT ![b] = @ \cup {"release"}]
        /\ posted' \in [Bills -> SUBSET Kinds]
        /\ account' \in [Accounts -> Int] /\ Solvent'
    BY <1>2, PostWithinKeeps DEF Release, Kinds
  <2>2. "settle" \notin posted[b] /\ intent[b] \in {"PROCESSING", "FAILED"}
    BY <1>2 DEF BillInStep, PostingsBacked, AnswerTrue, IntentInStep, Held
  <2>3. TypeOK'
    <3>1. bill' \in [Bills -> BillRow]
      BY <1>2, RowUpdate, StatusValues DEF Release, TypeOK
    <3>2. intent' \in [Bills -> {"REQUIRES_CONFIRMATION", "PROCESSING", "SUCCEEDED", "FAILED"}]
      BY <1>2 DEF Release, SyncIntent, TypeOK, BillRow
    <3> QED
      BY <1>2, <2>1, <3>1, <3>2 DEF Release, TypeOK, Kinds
  <2>4. /\ bill'[b].status = "FAILED" /\ receipts' = receipts
        /\ bill'[b].recon = bill[b].recon
        /\ intent'[b] = "FAILED" /\ posted'[b] = posted[b] \cup {"release"}
        /\ \A d \in Bills \ {b} : bill'[d] = bill[d] /\ intent'[d] = intent[d] /\ posted'[d] = posted[d]
    BY <1>2, <2>1, <2>2 DEF Release, SyncIntent, TypeOK, BillRow
  <2>5. \A d \in Bills : BillInStep(d)' /\ PostingsBacked(d)'
    BY <1>2, <2>2, <2>4 DEF BillInStep, PostingsBacked, AnswerTrue
  <2>6. IntentInStep' /\ StatusBacked'
    BY <2>2, <2>4 DEF IntentInStep, StatusBacked, Held
  <2> QED
    BY <2>1, <2>3, <2>4, <2>5, <2>6
<1>3. CASE result = "REVERSED" /\ Reverse(b)
  <2>1. /\ posted' = [posted EXCEPT ![b] = @ \cup {"reversal"}]
        /\ posted' \in [Bills -> SUBSET Kinds]
        /\ account' \in [Accounts -> Int] /\ Solvent'
    BY <1>3, PostWithinKeeps DEF Reverse, Kinds
  <2>2. "settle" \in posted[b] /\ b \in receipts
    BY <1>3 DEF Reverse, StatusBacked
  <2>3. TypeOK'
    <3>1. bill' \in [Bills -> BillRow]
      BY <1>3, RowUpdate, StatusValues DEF Reverse, TypeOK, BillRow
    <3> QED
      BY <1>3, <2>1, <3>1 DEF Reverse, TypeOK, Kinds
  <2>4. /\ bill'[b].status = "REVERSED" /\ receipts' = receipts
        /\ bill'[b].recon = "RESOLVED"
        /\ intent' = intent /\ posted'[b] = posted[b] \cup {"reversal"}
        /\ \A d \in Bills \ {b} : bill'[d] = bill[d] /\ posted'[d] = posted[d]
    BY <1>3, <2>1 DEF Reverse, TypeOK, BillRow
  <2>5. \A d \in Bills : BillInStep(d)' /\ PostingsBacked(d)'
    <3>1. BillInStep(b)' /\ PostingsBacked(b)'
      BY <1>3, <2>2, <2>4 DEF BillInStep, PostingsBacked, AnswerTrue
    <3>2. ASSUME NEW d \in Bills \ {b} PROVE BillInStep(d)' /\ PostingsBacked(d)'
      BY <2>4 DEF BillInStep, PostingsBacked
    <3> QED
      BY <3>1, <3>2
  <2>6. IntentInStep' /\ StatusBacked'
    BY <2>2, <2>4 DEF IntentInStep, StatusBacked, Held
  <2> QED
    BY <2>1, <2>3, <2>4, <2>5, <2>6
<1>4. CASE MarkUncertain(b)
  <2>1. TypeOK'
    <3>1. bill' \in [Bills -> BillRow]
      BY <1>4, RowUpdate, StatusValues DEF MarkUncertain, TypeOK
    <3> QED
      BY <1>4, <3>1 DEF MarkUncertain, TypeOK
  <2>2. /\ bill'[b].status = "RECONCILIATION_REQUIRED" /\ receipts' = receipts
        /\ \A d \in Bills \ {b} : bill'[d] = bill[d]
        /\ UNCHANGED <<receipts, intent, posted, account, provider>>
    BY <1>4 DEF MarkUncertain, TypeOK, BillRow
  <2>3. \A d \in Bills : BillInStep(d)' /\ PostingsBacked(d)'
    <3>1. BillInStep(b)' /\ PostingsBacked(b)'
      BY <1>4, <2>2 DEF MarkUncertain, BillInStep, PostingsBacked
    <3>2. ASSUME NEW d \in Bills \ {b} PROVE BillInStep(d)' /\ PostingsBacked(d)'
      BY <2>2 DEF BillInStep, PostingsBacked
    <3> QED
      BY <3>1, <3>2
  <2>4. IntentInStep' /\ StatusBacked' /\ Solvent'
    BY <1>4, <2>2 DEF MarkUncertain, IntentInStep, StatusBacked, Solvent, Held
  <2> QED
    BY <1>4, <2>1, <2>3, <2>4 DEF MarkUncertain
<1>5. CASE UNCHANGED rows
  BY <1>5 DEF rows, TypeOK, BillInStep, PostingsBacked, IntentInStep, StatusBacked, Solvent, Held
<1> QED
  BY <1>1, <1>2, <1>3, <1>4, <1>5 DEF ApplyProviderResult

RequestRow == [pc: {"none", "send", "apply", "done"}, result: Result]
ReconcilerRow == [pc: {"idle", "query", "apply"}, bill: Bills, result: Result]

\* Requests in flight stay well typed, whatever program counter and result
\* they are given.
LEMMA RequestUpdate ==
    ASSUME NEW f \in [Bills -> RequestRow], NEW b \in Bills,
           NEW pc \in {"none", "send", "apply", "done"}, NEW x \in Result
    PROVE  /\ [f EXCEPT ![b].pc = pc] \in [Bills -> RequestRow]
           /\ [f EXCEPT ![b] = [pc |-> pc, result |-> x]] \in [Bills -> RequestRow]
  BY DEF RequestRow

LEMMA ReconcilerUpdate ==
    ASSUME NEW f \in [Reconcilers -> ReconcilerRow], NEW k \in Reconcilers, NEW b \in Bills,
           NEW pc \in {"idle", "query", "apply"}, NEW x \in Result
    PROVE  /\ [f EXCEPT ![k] = [pc |-> pc, bill |-> b, result |-> x]]
                 \in [Reconcilers -> ReconcilerRow]
           /\ [f EXCEPT ![k].pc = pc, ![k].result = x] \in [Reconcilers -> ReconcilerRow]
  BY DEF ReconcilerRow

LEMMA RowsOf == IInv <=> RowsInv /\ RequestsKnow
  BY DEF IInv, RowsInv

LEMMA RequestTypes ==
    TypeOK => /\ request \in [Bills -> RequestRow]
              /\ reconciler \in [Reconcilers -> ReconcilerRow]
              /\ faults \in Nat
  BY DEF TypeOK, RequestRow, ReconcilerRow

\* A step that leaves the rows alone keeps what holds of them, provided the
\* provider only decides or undoes.
LEMMA RowsUntouched ==
    ASSUME RowsInv, UNCHANGED rows,
           provider' \in [Bills -> ProviderState],
           request' \in [Bills -> RequestRow],
           reconciler' \in [Reconcilers -> ReconcilerRow],
           faults' \in Nat,
           \A b \in Bills : \/ provider'[b] = provider[b]
                            \/ provider[b] \in {"unsent", "pending"}
                            \/ provider[b] = "successful" /\ provider'[b] = "reversed"
    PROVE  RowsInv'
<1>1. TypeOK'
  BY DEF RowsInv, TypeOK, rows, RequestRow, ReconcilerRow
<1>2. IntentInStep' /\ StatusBacked' /\ Solvent'
  BY DEF RowsInv, rows, IntentInStep, StatusBacked, Solvent, Held
<1>3. ASSUME NEW b \in Bills
      PROVE  BillInStep(b)' /\ PostingsBacked(b)'
  BY DEF RowsInv, rows, BillInStep, PostingsBacked
<1> QED
  BY <1>1, <1>2, <1>3 DEF RowsInv

\* Before any payment everything is empty and the wallet holds its opening
\* balance.
LEMMA InitInv == Init => IInv
<1> SUFFICES ASSUME Init PROVE IInv
  OBVIOUS
<1>1. TypeOK
  <2>1. account \in [Accounts -> Int]
    BY MoneyAssumption DEF Init, Accounts
  <2>2. reconciler \in [Reconcilers -> [pc: {"idle", "query", "apply"}, bill: Bills, result: Result]]
    BY DEF Init, Result
  <2> QED
    BY <2>1, <2>2 DEF Init, TypeOK, BillRow, BillStatus, ReconciliationState, ProviderState, Result
<1>2. \A b \in Bills : BillInStep(b) /\ PostingsBacked(b)
  BY DEF Init, BillInStep, PostingsBacked
<1>3. RequestsKnow
  BY DEF Init, RequestsKnow, AnswerTrue
<1>4. IntentInStep /\ StatusBacked
  BY DEF Init, IntentInStep, StatusBacked, Held
<1>5. Solvent
  BY MoneyAssumption DEF Init, Solvent, Accounts
<1> QED
  BY <1>1, <1>2, <1>3, <1>4, <1>5 DEF IInv

\* settleFromWallet: the reserve, the bill row and the intent move together.
LEMMA ConfirmInv ==
    ASSUME IInv, NEW b \in Bills, Confirm(b)
    PROVE  IInv'
<1>1. /\ posted' = [posted EXCEPT ![b] = @ \cup {"reserve"}]
      /\ posted' \in [Bills -> SUBSET Kinds]
      /\ account' \in [Accounts -> Int] /\ Solvent'
  BY PostWithinKeeps DEF IInv, Confirm, Kinds
<1>2. posted[b] = {}
  BY DEF IInv, BillInStep, Confirm
<1>3. bill' \in [Bills -> BillRow] /\ request' \in [Bills -> RequestRow]
  BY RowUpdate, StatusValues, RequestUpdate, RequestTypes DEF IInv, TypeOK, Confirm, Result
<1>4. TypeOK'
  BY <1>1, <1>3 DEF IInv, TypeOK, Confirm, Kinds, RequestRow
<1>5. /\ posted'[b] = {"reserve"} /\ bill'[b].status = "PENDING" /\ bill'[b].recon = bill[b].recon
      /\ intent'[b] = "PROCESSING" /\ request'[b].pc = "send"
      /\ \A d \in Bills \ {b} : /\ posted'[d] = posted[d] /\ bill'[d] = bill[d]
                               /\ intent'[d] = intent[d] /\ request'[d] = request[d]
      /\ UNCHANGED <<receipts, provider, reconciler>>
  BY <1>1, <1>2, RequestTypes DEF IInv, TypeOK, BillRow, RequestRow, Confirm
<1>6. ASSUME NEW d \in Bills PROVE BillInStep(d)' /\ PostingsBacked(d)'
  BY <1>2, <1>5 DEF IInv, BillInStep, PostingsBacked
<1>7. IntentInStep' /\ StatusBacked'
  BY <1>5 DEF IInv, IntentInStep, StatusBacked, Held
<1>8. RequestsKnow'
  <2>1. provider[b] = "unsent"
    BY <1>2 DEF IInv, RequestsKnow
  <2>2. ASSUME NEW k \in Reconcilers, reconciler'[k].pc # "idle"
        PROVE  /\ posted'[reconciler'[k].bill] # {}
               /\ AnswerTrue(reconciler[k].bill, reconciler[k].result)'
    BY <1>5, <2>2, RequestTypes DEF IInv, RequestsKnow, AnswerTrue, ReconcilerRow
  <2>3. ASSUME NEW d \in Bills, request'[d].pc = "apply"
        PROVE  AnswerTrue(d, request[d].result)'
    BY <1>5, <2>3 DEF IInv, RequestsKnow, AnswerTrue
  <2> QED
    BY <1>5, <2>1, <2>2, <2>3 DEF IInv, RequestsKnow, AnswerTrue
<1> QED
  BY <1>1, <1>4, <1>6, <1>7, <1>8 DEF IInv

\* A transfer to another wallet touches the balances only.
LEMMA TransferInv ==
    ASSUME IInv, NEW n \in Transfers, Transfer(n)
    PROVE  IInv'
<1>1. n \in Nat
  BY MoneyAssumption
<1>2. /\ account' \in [Accounts -> Int]
      /\ account'["available"] = account["available"] - n
      /\ account'["others"] = account["others"] + n
      /\ \A a \in {"reserved", "payable", "revenue"} : account'[a] = account[a]
      /\ \A a \in Accounts : account[a] \in Int
  BY <1>1 DEF IInv, TypeOK, Transfer, Accounts
<1>3. Solvent'
  BY <1>1, <1>2, MoneyAssumption DEF IInv, Transfer, Solvent, Accounts
<1>4. TypeOK'
  BY <1>2 DEF IInv, TypeOK, Transfer
<1>5. IntentInStep' /\ StatusBacked' /\ \A b \in Bills : BillInStep(b)' /\ PostingsBacked(b)'
  BY DEF IInv, Transfer, IntentInStep, StatusBacked, Held, BillInStep, PostingsBacked
<1>6. RequestsKnow'
  BY DEF IInv, Transfer, RequestsKnow, AnswerTrue
<1> QED
  BY <1>3, <1>4, <1>5, <1>6 DEF IInv

\* createPayment: only an unsent bill is sent, and the answer, if it comes, is
\* the provider's state.
LEMMA SendInv ==
    ASSUME IInv, NEW b \in Bills, NEW state \in ProviderState \ {"reversed"}, Send(b, state)
    PROVE  IInv'
<1>1. provider[b] = "unsent" /\ posted[b] # {}
  BY DEF IInv, RequestsKnow, Send
<1>2. PICK x \in {Answer(state), "UNKNOWN"} :
        request' = [request EXCEPT ![b] = [pc |-> "apply", result |-> x]]
  BY DEF Send
<1>3. /\ x \in Result
      /\ x = "SUCCESSFUL" => state = "successful"
      /\ x = "FAILED" => state = "failed"
      /\ x # "REVERSED"
  BY <1>2 DEF Answer, ProviderState, Result
<1>4. /\ request' \in [Bills -> RequestRow] /\ provider' \in [Bills -> ProviderState]
      /\ provider'[b] = state
      /\ request'[b] = [pc |-> "apply", result |-> x]
      /\ \A d \in Bills \ {b} : provider'[d] = provider[d] /\ request'[d] = request[d]
  BY <1>2, <1>3, RequestUpdate, RequestTypes DEF IInv, Send, TypeOK
<1>5. RowsInv'
  BY <1>1, <1>4, RowsUntouched, RowsOf, RequestTypes DEF Send, RowsInv
<1>6. RequestsKnow'
  <2>1. ASSUME NEW k \in Reconcilers, reconciler[k].pc # "idle"
        PROVE  AnswerTrue(reconciler[k].bill, reconciler[k].result)'
    BY <1>1, <1>4, <2>1 DEF IInv, RequestsKnow, AnswerTrue, Send, TypeOK
  <2>2. ASSUME NEW d \in Bills \ {b}
        PROVE  request'[d].pc = "apply" => AnswerTrue(d, request[d].result)'
    BY <1>4, <2>2 DEF IInv, RequestsKnow, AnswerTrue
  <2>3. AnswerTrue(b, x)'
    BY <1>3, <1>4 DEF AnswerTrue
  <2> QED
    BY <1>1, <1>4, <2>1, <2>2, <2>3 DEF IInv, RequestsKnow, AnswerTrue, Send, rows
<1> QED
  BY <1>5, <1>6 DEF IInv, RowsInv

\* completeIntentPayment applies the answer it got.
LEMMA CompleteInv ==
    ASSUME IInv, NEW b \in Bills, Complete(b)
    PROVE  IInv'
<1>1. /\ request[b].result \in Result /\ AnswerTrue(b, request[b].result) /\ posted[b] # {}
  BY RequestTypes DEF IInv, RequestsKnow, Complete, RequestRow
<1>2. /\ request' \in [Bills -> RequestRow]
      /\ request'[b].pc = "done"
      /\ \A d \in Bills \ {b} : request'[d] = request[d]
  <2>1. request' \in [Bills -> RequestRow]
    BY <1>1, RequestTypes, RequestUpdate DEF IInv, Complete
  <2>2. request'[b].pc = "done" /\ \A d \in Bills \ {b} : request'[d] = request[d]
    BY RequestTypes DEF IInv, Complete, RequestRow
  <2> QED
    BY <2>1, <2>2
<1>3. RowsInv' /\ \A d \in Bills : posted'[d] # {} <=> posted[d] # {}
  BY <1>1, <1>2, ApplyKeepsRows, RowsOf, RequestTypes DEF Complete, RowsInv, RequestRow, ReconcilerRow
<1>4. RequestsKnow'
  <2>1. ASSUME NEW k \in Reconcilers, reconciler'[k].pc # "idle"
        PROVE  /\ posted'[reconciler'[k].bill] # {}
               /\ AnswerTrue(reconciler[k].bill, reconciler[k].result)'
    BY <1>3, <2>1, RequestTypes DEF IInv, RequestsKnow, AnswerTrue, ReconcilerRow, Complete
  <2>2. ASSUME NEW d \in Bills, request'[d].pc = "apply"
        PROVE  AnswerTrue(d, request[d].result)'
    BY <1>2, <2>2 DEF IInv, RequestsKnow, AnswerTrue, Complete
  <2> QED
    BY <1>1, <1>2, <1>3, <2>1, <2>2 DEF IInv, RequestsKnow, AnswerTrue, Complete
<1> QED
  BY <1>3, <1>4, RowsOf DEF IInv, RowsInv

\* reconcile applies the inquiry's answer, however stale.
LEMMA ApplyInquiryInv ==
    ASSUME IInv, NEW k \in Reconcilers, ApplyInquiry(k)
    PROVE  IInv'
<1> DEFINE b == reconciler[k].bill
           x == reconciler[k].result
<1>1. b \in Bills /\ x \in Result /\ AnswerTrue(b, x) /\ posted[b] # {}
  BY RequestTypes DEF IInv, RequestsKnow, ApplyInquiry, ReconcilerRow
<1>2. /\ reconciler' \in [Reconcilers -> ReconcilerRow]
      /\ reconciler'[k].pc = "idle"
      /\ \A j \in Reconcilers \ {k} : reconciler'[j] = reconciler[j]
  <2>1. reconciler' \in [Reconcilers -> ReconcilerRow]
    <3>1. "UNKNOWN" \in Result
      BY DEF Result
    <3> QED
      BY <1>1, <3>1, RequestTypes, ReconcilerUpdate DEF IInv, ApplyInquiry
  <2>2. reconciler'[k].pc = "idle" /\ \A j \in Reconcilers \ {k} : reconciler'[j] = reconciler[j]
    BY RequestTypes DEF IInv, ApplyInquiry, ReconcilerRow
  <2> QED
    BY <2>1, <2>2
<1>3. ApplyProviderResult(b, x) /\ UNCHANGED <<provider, request, faults>>
  BY DEF ApplyInquiry
<1>4. RowsInv' /\ \A d \in Bills : posted'[d] # {} <=> posted[d] # {}
  <2> HIDE DEF b, x
  <2> QED
    BY <1>1, <1>2, <1>3, ApplyKeepsRows, RowsOf, RequestTypes DEF RowsInv, RequestRow, ReconcilerRow
<1>5. RequestsKnow'
  <2>1. ASSUME NEW j \in Reconcilers, reconciler'[j].pc # "idle"
        PROVE  /\ posted'[reconciler'[j].bill] # {}
               /\ AnswerTrue(reconciler[j].bill, reconciler[j].result)'
    <3>1. reconciler'[j] = reconciler[j] /\ provider' = provider
      BY <1>2, <1>3, <2>1
    <3>2. reconciler[j].bill \in Bills
      BY RequestTypes DEF IInv, ReconcilerRow
    <3>3. posted[reconciler[j].bill] # {} /\ AnswerTrue(reconciler[j].bill, reconciler[j].result)
      BY <2>1, <3>1 DEF IInv, RequestsKnow
    <3> QED
      BY <1>4, <3>1, <3>2, <3>3 DEF AnswerTrue
  <2> QED
    BY <1>3, <1>4, <2>1 DEF IInv, RequestsKnow, AnswerTrue
<1> QED
  BY <1>4, <1>5, RowsOf DEF IInv, RowsInv

\* A request that dies, a new inquiry, its answer, and a failed inquiry touch
\* no row.
LEMMA InFlightInv ==
    ASSUME IInv,
           \/ \E b \in Bills : RequestFault(b)
           \/ \E k \in Reconcilers : \/ \E b \in Bills : Reconcile(k, b)
                                     \/ Query(k) \/ ReconcileFault(k)
    PROVE  IInv'
<1>1. ASSUME NEW b \in Bills, RequestFault(b)
      PROVE  IInv'
  <2>1. /\ request' \in [Bills -> RequestRow] /\ faults' \in Nat
        /\ request'[b].pc = "done"
        /\ \A d \in Bills \ {b} : request'[d] = request[d]
    BY <1>1, RequestTypes, RequestUpdate DEF IInv, RequestFault, RequestRow
  <2>2. RowsInv'
    BY <1>1, <2>1, RowsUntouched, RowsOf, RequestTypes DEF RequestFault, RowsInv, TypeOK
  <2>3. RequestsKnow'
    BY <1>1, <2>1 DEF IInv, RequestsKnow, AnswerTrue, RequestFault, rows
  <2> QED
    BY <2>2, <2>3 DEF IInv, RowsInv
<1>2. ASSUME NEW k \in Reconcilers, NEW b \in Bills, NEW pc \in {"idle", "query", "apply"},
             NEW x \in Result,
             reconciler' \in [Reconcilers -> ReconcilerRow],
             pc # "idle" => posted[b] # {} /\ AnswerTrue(b, x),
             reconciler'[k].pc = pc, reconciler'[k].bill = b, reconciler'[k].result = x,
             \A j \in Reconcilers \ {k} : reconciler'[j] = reconciler[j],
             faults' \in Nat, UNCHANGED <<rows, provider, request>>
      PROVE  IInv'
  <2>1. RowsInv'
    BY <1>2, RowsUntouched, RowsOf, RequestTypes DEF RowsInv, TypeOK
  <2>2. RequestsKnow'
    BY <1>2 DEF IInv, RequestsKnow, AnswerTrue, rows
  <2> QED
    BY <2>1, <2>2 DEF IInv, RowsInv
<1>3. ASSUME NEW k \in Reconcilers, NEW b \in Bills, Reconcile(k, b)
      PROVE  IInv'
  <2>1. posted[b] # {} /\ AnswerTrue(b, "UNKNOWN") /\ "UNKNOWN" \in Result
    BY <1>3 DEF IInv, BillInStep, Reconcile, AnswerTrue, Result
  <2>2. /\ reconciler' \in [Reconcilers -> ReconcilerRow]
        /\ reconciler'[k].pc = "query" /\ reconciler'[k].bill = b
        /\ reconciler'[k].result = "UNKNOWN"
        /\ \A j \in Reconcilers \ {k} : reconciler'[j] = reconciler[j]
    BY <1>3, <2>1, RequestTypes, ReconcilerUpdate DEF IInv, Reconcile, ReconcilerRow
  <2> QED
    BY <1>2, <1>3, <2>1, <2>2, RequestTypes DEF IInv, Reconcile
<1>4. ASSUME NEW k \in Reconcilers, Query(k)
      PROVE  IInv'
  <2> DEFINE b == reconciler[k].bill
             x == Answer(provider[b])
  <2>1. b \in Bills /\ posted[b] # {} /\ provider[b] \in ProviderState
    BY <1>4, RequestTypes DEF IInv, TypeOK, RequestsKnow, Query, ReconcilerRow
  <2>2. x \in Result /\ AnswerTrue(b, x)
    BY <2>1 DEF Answer, AnswerTrue, Result, ProviderState
  <2>3. /\ reconciler' \in [Reconcilers -> ReconcilerRow]
        /\ reconciler'[k].pc = "apply" /\ reconciler'[k].bill = b
        /\ reconciler'[k].result = x
        /\ \A j \in Reconcilers \ {k} : reconciler'[j] = reconciler[j]
    BY <1>4, <2>1, <2>2, RequestTypes, ReconcilerUpdate DEF IInv, Query, ReconcilerRow
  <2>4. faults' \in Nat /\ UNCHANGED <<rows, provider, request>>
    BY <1>4, RequestTypes DEF IInv, Query
  <2> HIDE DEF b, x
  <2> QED
    BY <1>2, <2>1, <2>2, <2>3, <2>4
<1>5. ASSUME NEW k \in Reconcilers, ReconcileFault(k)
      PROVE  IInv'
  <2> DEFINE b == reconciler[k].bill
  <2>1. b \in Bills /\ "UNKNOWN" \in Result
    BY RequestTypes DEF IInv, ReconcilerRow, Result
  <2>2. /\ reconciler' \in [Reconcilers -> ReconcilerRow]
        /\ reconciler'[k].pc = "idle" /\ reconciler'[k].bill = b
        /\ reconciler'[k].result = "UNKNOWN"
        /\ \A j \in Reconcilers \ {k} : reconciler'[j] = reconciler[j]
    <3>1. reconciler' \in [Reconcilers -> ReconcilerRow]
      BY <1>5, <2>1, RequestTypes, ReconcilerUpdate DEF IInv, ReconcileFault
    <3>2. /\ reconciler'[k].pc = "idle" /\ reconciler'[k].bill = b
          /\ reconciler'[k].result = "UNKNOWN"
          /\ \A j \in Reconcilers \ {k} : reconciler'[j] = reconciler[j]
      BY <1>5, RequestTypes DEF IInv, ReconcileFault, ReconcilerRow
    <3> QED
      BY <3>1, <3>2
  <2>3. faults' \in Nat /\ UNCHANGED <<rows, provider, request>>
    BY <1>5, RequestTypes DEF IInv, ReconcileFault
  <2> HIDE DEF b
  <2> QED
    BY <1>2, <2>1, <2>2, <2>3
<1> QED
  BY <1>1, <1>3, <1>4, <1>5

\* The provider decides what is pending and undoes only what it performed.
LEMMA ProviderInv ==
    ASSUME IInv, NEW b \in Bills, ProviderStep(b) \/ ProviderReverse(b)
    PROVE  IInv'
<1>1. /\ UNCHANGED <<rows, request, reconciler, faults>>
      /\ \/ provider[b] = "pending" /\ provider'[b] \in {"successful", "failed"}
         \/ provider[b] = "successful" /\ provider'[b] = "reversed"
      /\ \A d \in Bills \ {b} : provider'[d] = provider[d]
      /\ provider' \in [Bills -> ProviderState]
  BY DEF IInv, TypeOK, ProviderStep, ProviderDecide, ProviderReverse, ProviderState
<1>2. RowsInv'
  BY <1>1, RowsUntouched, RowsOf, RequestTypes DEF RowsInv
<1>3. RequestsKnow'
  <2>1. ASSUME NEW d \in Bills, NEW x, AnswerTrue(d, x)
        PROVE  AnswerTrue(d, x)'
    BY <1>1, <2>1 DEF AnswerTrue
  <2>2. \A k \in Reconcilers : reconciler[k].bill \in Bills
    BY RequestTypes DEF IInv, ReconcilerRow
  <2> QED
    BY <1>1, <2>1, <2>2 DEF IInv, RequestsKnow, rows, AnswerTrue
<1> QED
  BY <1>2, <1>3 DEF IInv, RowsInv

\* Every step keeps the inductive invariant.
LEMMA StepInv == IInv /\ [Next]_vars => IInv'
<1> SUFFICES ASSUME IInv, [Next]_vars PROVE IInv'
  OBVIOUS
<1>1. CASE Next
  BY <1>1, ConfirmInv, TransferInv, SendInv, CompleteInv, ApplyInquiryInv, InFlightInv, ProviderInv
     DEF Next, RequestStep
<1>2. CASE UNCHANGED vars
  BY <1>2 DEF vars, rows, IInv, TypeOK, BillInStep, PostingsBacked, RequestsKnow, AnswerTrue,
     IntentInStep, StatusBacked, Solvent, Held
<1> QED
  BY <1>1, <1>2

\* IInv holds in every reachable state.
THEOREM InvariantHolds == Spec => []IInv
  BY InitInv, StepInv, PTL DEF Spec

\* Rows, postings, balances and requests in flight keep their types.
THEOREM TypeCorrect == Spec => []TypeOK
<1>1. IInv => TypeOK
  BY DEF IInv
<1> QED
  BY <1>1, InvariantHolds, PTL

\* The intent the payer sees agrees with the ledger in every state (syncIntent
\* runs in the transaction that posts).
THEOREM IntentAlwaysInStep == Spec => []IntentInStep
<1>1. IInv => IntentInStep
  BY DEF IInv
<1> QED
  BY <1>1, InvariantHolds, PTL

\* A bill's final status is backed by its ledger transaction.
THEOREM StatusAlwaysBacked == Spec => []StatusBacked
<1>1. IInv => StatusBacked
  BY DEF IInv
<1> QED
  BY <1>1, InvariantHolds, PTL

\* The wallet is never overdrawn by bills and their postings conserve money.
THEOREM AlwaysSolvent == Spec => []Solvent
<1>1. IInv => Solvent
  BY DEF IInv
<1> QED
  BY <1>1, InvariantHolds, PTL

-----------------------------------------------------------------------------
(* The reserve account.                                                    *)

HeldBills == {b \in Bills : Held(b)}
Totals == [b \in Bills |-> Total(b)]

\* A posting of one bill moves the reserve by the bill's total exactly when it
\* begins or ends holding the bill's money.
LEMMA ReserveFollows ==
    ASSUME TypeOK, ReserveMatchesBills, NEW b \in Bills,
           \A d \in Bills \ {b} : posted'[d] = posted[d],
           \/ ~Held(b) /\ Held(b)' /\ account'["reserved"] = account["reserved"] + Total(b)
           \/ Held(b) /\ ~Held(b)' /\ account'["reserved"] = account["reserved"] - Total(b)
           \/ (Held(b)' <=> Held(b)) /\ account'["reserved"] = account["reserved"]
    PROVE  ReserveMatchesBills'
<1> DEFINE before == HeldBills
           after == {d \in Bills : Held(d)'}
<1>1. /\ account["reserved"] = SumFunctionOnSet(Totals, before)
      /\ ReserveMatchesBills' <=> account'["reserved"] = SumFunctionOnSet(Totals, after)
  BY DEF ReserveMatchesBills, HeldBills, Totals, Total
<1>2. \A d \in Bills \ {b} : Held(d)' <=> Held(d)
  BY DEF Held
<1>3. /\ before \in SUBSET Bills /\ IsFiniteSet(before)
      /\ after \in SUBSET Bills /\ IsFiniteSet(after)
  BY FS_Subset, FiniteAssumption DEF HeldBills
<1>4. \A d \in Bills : Totals[d] \in Int /\ Totals[d] = Total(d)
  BY EntriesOf DEF Totals
<1>5. SumFunctionOnSet(Totals, before) \in Int /\ SumFunctionOnSet(Totals, after) \in Int
  <2> HIDE DEF before, after
  <2> QED
    BY <1>3, <1>4, SumType
<1>6. CASE ~Held(b) /\ Held(b)' /\ account'["reserved"] = account["reserved"] + Total(b)
  <2>1. after = before \cup {b} /\ b \notin before
    BY <1>2, <1>6 DEF HeldBills
  <2> HIDE DEF before, after
  <2>2. SumFunctionOnSet(Totals, after) = Totals[b] + SumFunctionOnSet(Totals, before)
    BY <1>3, <1>4, <2>1, SumInsert
  <2> QED
    BY <1>1, <1>4, <1>5, <1>6, <2>2
<1>7. CASE Held(b) /\ ~Held(b)' /\ account'["reserved"] = account["reserved"] - Total(b)
  <2>1. after = before \ {b} /\ b \in before
    BY <1>2, <1>7 DEF HeldBills
  <2> HIDE DEF before, after
  <2>2. SumFunctionOnSet(Totals, before) = Totals[b] + SumFunctionOnSet(Totals, after)
    BY <1>3, <1>4, <2>1, SumRemove
  <2> QED
    BY <1>1, <1>4, <1>5, <1>7, <2>2
<1>8. CASE (Held(b)' <=> Held(b)) /\ account'["reserved"] = account["reserved"]
  <2>1. after = before
    BY <1>2, <1>8 DEF HeldBills
  <2> QED
    BY <1>1, <1>8, <2>1
<1> QED
  BY <1>6, <1>7, <1>8

\* What postWithin does to the reserve.
LEMMA PostWithinReserve ==
    ASSUME TypeOK, NEW b \in Bills, NEW kind \in Kinds, PostWithin(b, kind), kind \notin posted[b]
    PROVE  account'["reserved"] = CASE kind = "reserve" -> account["reserved"] + Total(b)
                                    [] kind = "reversal" -> account["reserved"]
                                    [] OTHER -> account["reserved"] - Total(b)
<1>1. account'["reserved"] = account["reserved"] + Entries(b, kind)["reserved"]
      /\ account["reserved"] \in Int /\ Total(b) \in Nat
  BY EntriesOf DEF PostWithin, Accounts, TypeOK
<1>2. CASE kind = "reserve"
  BY <1>1, <1>2 DEF Entries, Accounts
<1>3. CASE kind = "reversal"
  BY <1>1, <1>3 DEF Entries, Accounts
<1>4. CASE kind \in {"settle", "release"}
  <2>1. Entries(b, kind)["reserved"] = -Total(b)
    BY <1>4 DEF Entries, Accounts
  <2> QED
    BY <1>1, <1>4, <2>1
<1> QED
  BY <1>2, <1>3, <1>4 DEF Kinds

\* applyProviderResult keeps the reserve equal to what is held.
LEMMA ApplyKeepsReserve ==
    ASSUME RowsInv, ReserveMatchesBills, NEW b \in Bills, NEW result \in Result,
           AnswerTrue(b, result), posted[b] # {}, ApplyProviderResult(b, result)
    PROVE  ReserveMatchesBills'
<1> USE DEF RowsInv
<1>1. CASE result = "SUCCESSFUL" /\ Settle(b)
  <2>1. /\ PostWithin(b, "settle") /\ "settle" \in Kinds
        /\ posted' = [posted EXCEPT ![b] = @ \cup {"settle"}]
    BY <1>1, PostWithinKeeps DEF Settle, Kinds
  <2>2. "settle" \notin posted[b] /\ Held(b)
    BY <1>1 DEF Settle, BillInStep, PostingsBacked, AnswerTrue, Held
  <2>3. account'["reserved"] = account["reserved"] - Total(b)
    BY <2>1, <2>2, PostWithinReserve
  <2>4. ~Held(b)' /\ \A d \in Bills \ {b} : posted'[d] = posted[d]
    BY <2>1 DEF Held, TypeOK
  <2> QED
    BY <2>2, <2>3, <2>4, ReserveFollows
<1>2. CASE result = "FAILED" /\ Release(b)
  <2>1. /\ PostWithin(b, "release") /\ "release" \in Kinds
        /\ posted' = [posted EXCEPT ![b] = @ \cup {"release"}]
    BY <1>2, PostWithinKeeps DEF Release, Kinds
  <2>2. CASE "release" \in posted[b]
    <3>1. UNCHANGED <<posted, account>>
      BY <2>1, <2>2 DEF PostWithin
    <3> QED
      BY <3>1 DEF ReserveMatchesBills, Held
  <2>3. CASE "release" \notin posted[b]
    <3>1. Held(b)
      BY <1>2, <2>3 DEF BillInStep, PostingsBacked, AnswerTrue, Held
    <3>2. account'["reserved"] = account["reserved"] - Total(b)
      BY <2>1, <2>3, PostWithinReserve
    <3>3. ~Held(b)' /\ \A d \in Bills \ {b} : posted'[d] = posted[d]
      BY <2>1 DEF Held, TypeOK
    <3> QED
      BY <3>1, <3>2, <3>3, ReserveFollows
  <2> QED
    BY <2>2, <2>3
<1>3. CASE result = "REVERSED" /\ Reverse(b)
  <2>1. /\ PostWithin(b, "reversal") /\ "reversal" \in Kinds
        /\ posted' = [posted EXCEPT ![b] = @ \cup {"reversal"}]
    BY <1>3, PostWithinKeeps DEF Reverse, Kinds
  <2>2. "settle" \in posted[b]
    BY <1>3 DEF Reverse, StatusBacked
  <2>3. ~Held(b) /\ ~Held(b)' /\ \A d \in Bills \ {b} : posted'[d] = posted[d]
    BY <2>1, <2>2 DEF Held, TypeOK
  <2>4. account'["reserved"] = account["reserved"]
    <3>1. CASE "reversal" \in posted[b]
      BY <2>1, <3>1 DEF PostWithin
    <3>2. CASE "reversal" \notin posted[b]
      BY <2>1, <3>2, PostWithinReserve
    <3> QED
      BY <3>1, <3>2
  <2> QED
    BY <2>3, <2>4, ReserveFollows
<1>4. CASE MarkUncertain(b)
  BY <1>4 DEF MarkUncertain, ReserveMatchesBills, Held
<1>5. CASE UNCHANGED rows
  BY <1>5 DEF rows, ReserveMatchesBills, Held
<1> QED
  BY <1>1, <1>2, <1>3, <1>4, <1>5 DEF ApplyProviderResult

\* Every step keeps the reserve equal to what is held.
LEMMA StepReserve == IInv /\ ReserveMatchesBills /\ [Next]_vars => ReserveMatchesBills'
<1> SUFFICES ASSUME IInv, ReserveMatchesBills, [Next]_vars PROVE ReserveMatchesBills'
  OBVIOUS
<1>1. ASSUME NEW b \in Bills, Confirm(b) PROVE ReserveMatchesBills'
  <2>1. PostWithin(b, "reserve") /\ posted[b] = {} /\ "reserve" \in Kinds
    BY <1>1 DEF IInv, BillInStep, Confirm, Kinds
  <2>2. account'["reserved"] = account["reserved"] + Total(b)
    BY <2>1, PostWithinReserve DEF IInv
  <2>3. posted'[b] = {"reserve"} /\ \A d \in Bills \ {b} : posted'[d] = posted[d]
    BY <2>1 DEF PostWithin, IInv, TypeOK
  <2>4. ~Held(b) /\ Held(b)'
    BY <2>1, <2>3 DEF Held
  <2> QED
    BY <2>2, <2>3, <2>4, ReserveFollows DEF IInv
<1>2. ASSUME NEW n \in Transfers, Transfer(n) PROVE ReserveMatchesBills'
  <2>1. UNCHANGED posted /\ account'["reserved"] = account["reserved"]
    BY <1>2 DEF Transfer, IInv, TypeOK, Accounts
  <2> QED
    BY <2>1 DEF ReserveMatchesBills, Held
<1>3. ASSUME NEW b \in Bills, Complete(b) PROVE ReserveMatchesBills'
  <2>1. /\ request[b].result \in Result /\ AnswerTrue(b, request[b].result) /\ posted[b] # {}
    BY <1>3, RequestTypes DEF IInv, RequestsKnow, Complete, RequestRow
  <2> QED
    BY <1>3, <2>1, ApplyKeepsReserve, RowsOf DEF Complete
<1>4. ASSUME NEW k \in Reconcilers, ApplyInquiry(k) PROVE ReserveMatchesBills'
  <2> DEFINE b == reconciler[k].bill
             x == reconciler[k].result
  <2>1. b \in Bills /\ x \in Result /\ AnswerTrue(b, x) /\ posted[b] # {}
    BY <1>4, RequestTypes DEF IInv, RequestsKnow, ApplyInquiry, ReconcilerRow
  <2>2. ApplyProviderResult(b, x)
    BY <1>4 DEF ApplyInquiry
  <2> HIDE DEF b, x
  <2> QED
    BY <2>1, <2>2, ApplyKeepsReserve, RowsOf
<1>5. ASSUME UNCHANGED rows PROVE ReserveMatchesBills'
  BY <1>5 DEF rows, ReserveMatchesBills, Held
<1>6. ASSUME NEW b \in Bills,
             \/ \E state \in ProviderState \ {"reversed"} : Send(b, state)
             \/ RequestFault(b) \/ ProviderStep(b) \/ ProviderReverse(b)
             \/ \E k \in Reconcilers : Reconcile(k, b)
      PROVE  ReserveMatchesBills'
  BY <1>5, <1>6 DEF Send, RequestFault, ProviderStep, ProviderDecide, ProviderReverse, Reconcile
<1>7. ASSUME NEW k \in Reconcilers, Query(k) \/ ReconcileFault(k)
      PROVE  ReserveMatchesBills'
  BY <1>5, <1>7 DEF Query, ReconcileFault
<1>8. CASE UNCHANGED vars
  BY <1>5, <1>8 DEF vars
<1> QED
  BY <1>1, <1>2, <1>3, <1>4, <1>6, <1>7, <1>8 DEF Next, RequestStep

\* The reserve account holds the totals of the bills that are not decided, for
\* any number of bills, operators and late or repeated answers.
THEOREM ReserveAlwaysMatches == Spec => []ReserveMatchesBills
<1>1. Init => ReserveMatchesBills
  <2> SUFFICES ASSUME Init PROVE ReserveMatchesBills
    OBVIOUS
  <2>1. {b \in Bills : Held(b)} = {} /\ account["reserved"] = 0
    BY DEF Init, Held, Accounts
  <2> QED
    BY <2>1, SumEmpty DEF ReserveMatchesBills
<1> QED
  BY <1>1, StepReserve, InvariantHolds, PTL DEF Spec

-----------------------------------------------------------------------------
(* BillPayments implements Escrow.                                         *)

PlaceOf == [b \in Bills |-> Place(b)]
VerdictOf == [b \in Bills |-> Verdict(b)]

\* Where the money is, in terms of the postings that can occur together.
LEMMA PlaceCases ==
    ASSUME IInv, NEW b \in Bills
    PROVE  /\ posted[b] = {} => Place(b) = "payer"
           /\ Held(b) => Place(b) = "escrow"
           /\ "settle" \in posted[b] /\ "reversal" \notin posted[b] => Place(b) = "provider"
           /\ "release" \in posted[b] => Place(b) = "returned"
           /\ "reversal" \in posted[b] => Place(b) = "refunded"
<1>1. posted[b] \subseteq Kinds /\ PostingsBacked(b)
  BY DEF IInv, TypeOK, Kinds
<1>2. Held(b) => posted[b] = {"reserve"}
  BY <1>1 DEF Held, Kinds, PostingsBacked
<1> QED
  BY <1>1, <1>2 DEF Place, PostingsBacked

\* Postings that do not change leave the money where it is.
LEMMA SamePlace ==
    ASSUME NEW b \in Bills, posted'[b] = posted[b]
    PROVE  Place(b)' = Place(b)
  BY DEF Place

\* applyProviderResult pays out, returns, refunds or leaves the money.
LEMMA ApplyMoves ==
    ASSUME IInv, IInv', NEW b \in Bills, NEW result \in Result,
           AnswerTrue(b, result), posted[b] # {}, ApplyProviderResult(b, result),
           provider' = provider
    PROVE  \/ UNCHANGED <<PlaceOf, VerdictOf>>
           \/ Promise!PayOut(b) \/ Promise!Return(b) \/ Promise!Refund(b)
<1>0. UNCHANGED VerdictOf
  BY DEF VerdictOf, Verdict
<1>1. ASSUME NEW kind \in Kinds, PostWithin(b, kind)
      PROVE  /\ posted' = [posted EXCEPT ![b] = @ \cup {kind}]
             /\ PlaceOf' = [PlaceOf EXCEPT ![b] = Place(b)']
             /\ kind \in posted[b] => UNCHANGED PlaceOf
  <2>1. posted' = [posted EXCEPT ![b] = @ \cup {kind}]
    BY <1>1 DEF PostWithin, IInv, TypeOK
  <2>2. \A d \in Bills \ {b} : Place(d)' = Place(d)
    BY <2>1, SamePlace DEF IInv, TypeOK
  <2>3. kind \in posted[b] => Place(b)' = Place(b)
    BY <2>1, SamePlace DEF IInv, TypeOK
  <2> QED
    BY <2>1, <2>2, <2>3 DEF PlaceOf
<1>2. CASE result = "SUCCESSFUL" /\ Settle(b)
  <2>1. posted'[b] = posted[b] \cup {"settle"} /\ PlaceOf' = [PlaceOf EXCEPT ![b] = Place(b)']
    BY <1>1, <1>2 DEF Settle, Kinds, IInv, TypeOK
  <2>2. Held(b)
    BY <1>2 DEF Settle, IInv, BillInStep, PostingsBacked, AnswerTrue, Held
  <2>3. Place(b) = "escrow"
    BY <2>2, PlaceCases
  <2>4. "reversal" \notin posted[b]
    BY <2>2 DEF IInv, PostingsBacked, Held
  <2>5. Place(b)' = "provider"
    BY <2>1, <2>4 DEF Place
  <2>6. Verdict(b) \in {"performed", "undone"}
    BY <1>2 DEF AnswerTrue, Verdict
  <2>7. Promise!PayOut(b)
    BY <1>0, <2>1, <2>3, <2>5, <2>6 DEF Promise!PayOut, Promise!Move, PlaceOf, VerdictOf
  <2> QED
    BY <2>7
<1>3. CASE result = "FAILED" /\ Release(b)
  <2>1. posted'[b] = posted[b] \cup {"release"} /\ PlaceOf' = [PlaceOf EXCEPT ![b] = Place(b)']
    BY <1>1, <1>3 DEF Release, Kinds, IInv, TypeOK
  <2>2. CASE "release" \in posted[b]
    BY <1>0, <1>1, <1>3, <2>2 DEF Release, Kinds
  <2>3. CASE "release" \notin posted[b]
    <3>1. posted[b] \cap {"settle", "reversal"} = {} /\ Held(b)
      BY <1>3, <2>3 DEF IInv, BillInStep, PostingsBacked, AnswerTrue, Held
    <3>2. Place(b) = "escrow"
      BY <3>1, PlaceCases
    <3>3. Place(b)' = "returned"
      BY <2>1, <3>1 DEF Place
    <3>4. Verdict(b) = "declined"
      BY <1>3 DEF AnswerTrue, Verdict
    <3>5. Promise!Return(b)
      BY <1>0, <2>1, <3>2, <3>3, <3>4 DEF Promise!Return, Promise!Move, PlaceOf, VerdictOf
    <3> QED
      BY <3>5
  <2> QED
    BY <2>2, <2>3
<1>4. CASE result = "REVERSED" /\ Reverse(b)
  <2>1. posted'[b] = posted[b] \cup {"reversal"} /\ PlaceOf' = [PlaceOf EXCEPT ![b] = Place(b)']
    BY <1>1, <1>4 DEF Reverse, Kinds, IInv, TypeOK
  <2>2. CASE "reversal" \in posted[b]
    BY <1>0, <1>1, <1>4, <2>2 DEF Reverse, Kinds
  <2>3. CASE "reversal" \notin posted[b]
    <3>1. "settle" \in posted[b]
      BY <1>4 DEF Reverse, IInv, StatusBacked
    <3>2. Place(b) = "provider"
      BY <2>3, <3>1, PlaceCases
    <3>3. Place(b)' = "refunded"
      BY <2>1 DEF Place
    <3>4. Verdict(b) = "undone"
      BY <1>4 DEF AnswerTrue, Verdict
    <3>5. Promise!Refund(b)
      BY <1>0, <2>1, <3>2, <3>3, <3>4 DEF Promise!Refund, Promise!Move, PlaceOf, VerdictOf
    <3> QED
      BY <3>5
  <2> QED
    BY <2>2, <2>3
<1>5. CASE MarkUncertain(b) \/ UNCHANGED rows
  BY <1>0, <1>5, SamePlace DEF MarkUncertain, rows, PlaceOf
<1> QED
  BY <1>2, <1>3, <1>4, <1>5 DEF ApplyProviderResult

\* Every step is a step of the escrow, or moves no money and changes no verdict.
LEMMA StepKeepsEscrow ==
    ASSUME IInv, [Next]_vars
    PROVE  [Promise!Next]_(Promise!vars)
<1> SUFFICES ASSUME ~ UNCHANGED <<PlaceOf, VerdictOf>>
             PROVE  Promise!Next
  BY DEF Promise!vars, PlaceOf, VerdictOf
<1>0. IInv'
  BY StepInv
<1>a. ASSUME UNCHANGED <<posted, provider>> PROVE FALSE
  BY <1>a, SamePlace DEF PlaceOf, VerdictOf, Verdict
<1>1. ASSUME NEW b \in Bills, Confirm(b)
      PROVE  Promise!Hold(b)
  <2>1. posted[b] = {} /\ posted' = [posted EXCEPT ![b] = {"reserve"}]
    BY <1>1 DEF Confirm, PostWithin, IInv, TypeOK, BillInStep
  <2>2. Place(b) = "payer" /\ Place(b)' = "escrow"
    BY <2>1 DEF Place, IInv, TypeOK
  <2>3. PlaceOf' = [PlaceOf EXCEPT ![b] = "escrow"]
    BY <2>1, <2>2, SamePlace DEF PlaceOf, IInv, TypeOK
  <2>4. VerdictOf' = VerdictOf
    BY <1>1 DEF Confirm, VerdictOf, Verdict
  <2> QED
    BY <2>2, <2>3, <2>4 DEF Promise!Hold, Promise!Move, PlaceOf, VerdictOf
<1>2. ASSUME NEW b \in Bills, NEW old \in {"unsent", "pending"}, NEW new \in ProviderState \ {"reversed"},
             provider[b] = old, provider' = [provider EXCEPT ![b] = new], UNCHANGED posted
      PROVE  Promise!Decide(b)
  <2>1. PlaceOf' = PlaceOf
    BY <1>2, SamePlace DEF PlaceOf
  <2>2. \A d \in Bills \ {b} : Verdict(d)' = Verdict(d)
    BY <1>2 DEF Verdict, IInv, TypeOK
  <2>3. VerdictOf' = [VerdictOf EXCEPT ![b] = Verdict(b)'] /\ Verdict(b)' # Verdict(b)
    <3>1. VerdictOf' = [VerdictOf EXCEPT ![b] = Verdict(b)']
      BY <2>2 DEF VerdictOf
    <3>2. Verdict(b)' = Verdict(b) => VerdictOf' = VerdictOf
      BY <2>2 DEF VerdictOf
    <3> QED
      BY <2>1, <3>1, <3>2
  <2>4. Verdict(b) = "open" /\ Verdict(b)' \in {"open", "performed", "declined"}
    BY <1>2 DEF Verdict, ProviderState, IInv, TypeOK
  <2>5. Verdict(b)' \in {"performed", "declined"}
    BY <2>3, <2>4
  <2> QED
    BY <2>1, <2>3, <2>4, <2>5 DEF Promise!Decide, PlaceOf, VerdictOf
<1>3. ASSUME NEW b \in Bills, NEW state \in ProviderState \ {"reversed"}, Send(b, state)
      PROVE  Promise!Decide(b)
  <2>1. provider[b] = "unsent"
    BY <1>3 DEF Send, IInv, RequestsKnow
  <2> QED
    BY <1>2, <1>3, <2>1 DEF Send, rows
<1>4. ASSUME NEW b \in Bills, ProviderStep(b)
      PROVE  Promise!Decide(b)
  BY <1>2, <1>4 DEF ProviderStep, ProviderDecide, rows, ProviderState
<1>5. ASSUME NEW b \in Bills, ProviderReverse(b)
      PROVE  Promise!Undo(b)
  <2>1. PlaceOf' = PlaceOf
    BY <1>5, SamePlace DEF PlaceOf, ProviderReverse, rows
  <2>2. \A d \in Bills \ {b} : Verdict(d)' = Verdict(d)
    BY <1>5 DEF Verdict, IInv, TypeOK, ProviderReverse
  <2>3. Verdict(b) = "performed" /\ Verdict(b)' = "undone"
    BY <1>5 DEF Verdict, IInv, TypeOK, ProviderReverse
  <2>4. VerdictOf' = [VerdictOf EXCEPT ![b] = "undone"]
    BY <2>2, <2>3 DEF VerdictOf
  <2> QED
    BY <2>1, <2>3, <2>4 DEF Promise!Undo, PlaceOf, VerdictOf
<1>6. ASSUME NEW b \in Bills, Complete(b)
      PROVE  Promise!Next
  <2>1. request[b].result \in Result /\ AnswerTrue(b, request[b].result) /\ posted[b] # {}
    BY <1>6, RequestTypes DEF IInv, RequestsKnow, Complete, RequestRow
  <2>2. Promise!PayOut(b) \/ Promise!Return(b) \/ Promise!Refund(b)
    BY <1>0, <1>6, <2>1, ApplyMoves DEF Complete
  <2> QED
    BY <2>2 DEF Promise!Next
<1>7. ASSUME NEW k \in Reconcilers, ApplyInquiry(k)
      PROVE  Promise!Next
  <2> DEFINE b == reconciler[k].bill
             x == reconciler[k].result
  <2>1. b \in Bills /\ x \in Result /\ AnswerTrue(b, x) /\ posted[b] # {}
    BY <1>7, RequestTypes DEF IInv, RequestsKnow, ApplyInquiry, ReconcilerRow
  <2>2. ApplyProviderResult(b, x) /\ provider' = provider
    BY <1>7 DEF ApplyInquiry
  <2> HIDE DEF b, x
  <2>3. Promise!PayOut(b) \/ Promise!Return(b) \/ Promise!Refund(b)
    BY <1>0, <2>1, <2>2, ApplyMoves
  <2> QED
    BY <2>1, <2>3 DEF Promise!Next
<1>8. ASSUME \/ \E b \in Bills : RequestFault(b)
             \/ \E n \in Transfers : Transfer(n)
             \/ \E k \in Reconcilers : \/ \E b \in Bills : Reconcile(k, b)
                                       \/ Query(k) \/ ReconcileFault(k)
             \/ UNCHANGED vars
      PROVE  FALSE
  BY <1>8, <1>a DEF RequestFault, Transfer, Reconcile, Query, ReconcileFault, rows, vars
<1> QED
  BY <1>1, <1>3, <1>4, <1>5, <1>6, <1>7, <1>8 DEF Next, RequestStep, Promise!Next

\* Bill payments keep the escrow's promise: money leaves the reserve once, in
\* the direction the provider's verdict requires.
THEOREM BillsKeepEscrow == Spec => KeepsEscrow
<1>1. Init => Promise!Init
  BY DEF Init, Promise!Init, Place, Verdict
<1> QED
  BY <1>1, StepKeepsEscrow, InvariantHolds, PTL DEF Spec, KeepsEscrow, Promise!Spec

(***************************************************************************)
(* Accounts and sessions: types.                                           *)
(***************************************************************************)
Tags == {"none", "code", "password", "google", "invite", "LOGIN", "PASSWORD_RESET"}
Proofs == Tags \X Nat
SessionRow == [user: Emails \cup {None}, status: {"none", "ACTIVE", "REVOKED", "COMPROMISED"},
               current: 0 .. MaxTokens, proof: Proofs]
TokenRow == [of: 0 .. MaxSessions, consumed: BOOLEAN, revoked: BOOLEAN, expired: BOOLEAN,
             late: BOOLEAN, next: 0 .. MaxTokens]
SessionTables ==
    /\ session \in [SessionIds -> SessionRow]
    /\ token \in [TokenIds -> TokenRow]
    /\ held \in [SessionIds -> 0 .. MaxTokens]
    /\ suspicious \in SUBSET SessionIds /\ handoff \in SUBSET SessionIds
    /\ budget \in Budgets
UserRow == [status: {"none", "PENDING_VERIFICATION", "ACTIVE", "SUSPENDED"}, verified: BOOLEAN,
            password: 0 .. MaxPasswords, google: BOOLEAN, role: {"none", "MEMBER", "STAFF"}]
ChallengeRow == [of: Emails \cup {None}, purpose: Purposes,
                 status: {"none", "open", "consumed", "invalidated"},
                 attempts: 0 .. MaxAttempts, cooling: BOOLEAN, expired: BOOLEAN]
InviteRow == [email: Emails \cup {None}, accepted: BOOLEAN, expired: BOOLEAN,
              status: {"none", "PENDING", "ACCEPTED", "REVOKED"}]
EntryRow == [at: Steps, user: Emails \cup {None}, proof: Proofs]
EntryTables ==
    /\ user \in [Emails -> UserRow]
    /\ challenge \in [ChallengeIds -> ChallengeRow]
    /\ invite \in [InviteIds -> InviteRow]
    /\ req \in [Requests -> EntryRow]

(***************************************************************************)
(* The chain of refresh tokens: a session's current token and the one its  *)
(* client holds are tokens of that session, a token is rotated into a      *)
(* token of the same session, and only the current token still works.      *)
(***************************************************************************)
SessionLinked(s) ==
    /\ session[s].status # "none" => /\ session[s].current \in TokenIds
                                     /\ token[session[s].current].of = s
    /\ held[s] # 0 => session[s].status # "none" /\ token[held[s]].of = s
    /\ s \in handoff => session[s].status # "none"
TokenLinked(t) ==
    /\ token[t].of = 0 => ~token[t].consumed /\ token[t].next = 0
    /\ token[t].of # 0 => session[token[t].of].status # "none"
    /\ token[t].next # 0 => token[token[t].next].of = token[t].of
Current(s) ==
    session[s].status = "ACTIVE" =>
        \A t \in TokenIds : token[t].of = s =>
            (~token[t].consumed /\ ~token[t].revoked <=> t = session[s].current)
GoesOn(s) ==
    (s \notin suspicious /\ session[s].status = "ACTIVE" /\ held[s] # 0) =>
        held[s] = session[s].current \/ Undelivered(held[s]) \/ token[held[s]].late
ChainInv ==
    /\ \A s \in SessionIds : SessionLinked(s)
    /\ \A t \in TokenIds : TokenLinked(t)
    /\ \A s \in SessionIds : Current(s)
    /\ \A s \in SessionIds : GoesOn(s)

\* The tokens after a rotation, one at a time.
LEMMA RotatedRows ==
    ASSUME SessionTables, NEW t \in TokenIds, NEW n \in TokenIds, token[t].of # 0, token[n].of = 0,
           token[t].next # n, token' = Rotated(t, n)
    PROVE  /\ n # t
           /\ token' \in [TokenIds -> TokenRow]
           /\ /\ token'[n].of = token[t].of /\ token'[n].next = 0
              /\ ~token'[n].consumed /\ ~token'[n].revoked
           /\ /\ token'[t].of = token[t].of /\ token'[t].next = n
              /\ token'[t].consumed /\ (token'[t].late <=> token[t].late)
           /\ \A x \in TokenIds \ {n, t} :
                /\ token'[x].of = token[x].of /\ token'[x].next = token[x].next
                /\ token'[x].consumed <=> token[x].consumed
                /\ Undelivered(t) /\ x = token[t].next => token'[x].revoked
                /\ (Undelivered(t) /\ x = token[t].next) \/ token'[x] = token[x]
<1>0. n # t /\ (Undelivered(t) => token[t].next \notin {n, t})
  BY DEF Undelivered
<1>1. DOMAIN token' = TokenIds /\ token' = [x \in TokenIds |-> token'[x]]
  BY DEF Rotated
<1>2. token'[n] = [NoToken EXCEPT !.of = token[t].of]
  BY <1>0 DEF Rotated
<1>3. token'[t] = [token[t] EXCEPT !.consumed = TRUE, !.next = n]
  BY <1>0 DEF Rotated
<1>4. ASSUME NEW x \in TokenIds \ {n, t}
      PROVE  token'[x] = IF Undelivered(t) /\ x = token[t].next
                         THEN [token[x] EXCEPT !.revoked = TRUE] ELSE token[x]
  <2>1. CASE Undelivered(t) /\ x = token[t].next
    BY <2>1 DEF Rotated
  <2>2. CASE ~(Undelivered(t) /\ x = token[t].next)
    BY <2>2 DEF Rotated
  <2> QED
    BY <2>1, <2>2
<1>5. token[t] \in TokenRow /\ n \in 0 .. MaxTokens /\ 0 \in 0 .. MaxTokens
  BY SessionBounds DEF SessionTables, TokenIds
<1>6. token'[n] \in TokenRow
  BY <1>2, <1>5 DEF TokenRow, NoToken
<1>7. token'[t] \in TokenRow
  BY <1>3, <1>5 DEF TokenRow
<1>8. ASSUME NEW x \in TokenIds \ {n, t}
      PROVE  token'[x] \in TokenRow
  <2>1. token[x] \in TokenRow
    BY DEF SessionTables
  <2> QED
    BY <1>4, <2>1 DEF TokenRow
<1>9. token' \in [TokenIds -> TokenRow]
  BY <1>1, <1>6, <1>7, <1>8
<1>10. /\ token'[n].of = token[t].of /\ token'[n].next = 0
       /\ ~token'[n].consumed /\ ~token'[n].revoked
  BY <1>2 DEF NoToken
<1>11. /\ token'[t].of = token[t].of /\ token'[t].next = n
       /\ token'[t].consumed /\ (token'[t].late <=> token[t].late)
  BY <1>3, <1>5 DEF TokenRow
<1>12. ASSUME NEW x \in TokenIds \ {n, t}
       PROVE  /\ token'[x].of = token[x].of /\ token'[x].next = token[x].next
              /\ token'[x].consumed <=> token[x].consumed
              /\ Undelivered(t) /\ x = token[t].next => token'[x].revoked
              /\ (Undelivered(t) /\ x = token[t].next) \/ token'[x] = token[x]
  <2>1. token[x] \in TokenRow
    BY DEF SessionTables
  <2>2. CASE Undelivered(t) /\ x = token[t].next
    BY <1>4, <2>1, <2>2 DEF TokenRow
  <2>3. CASE ~(Undelivered(t) /\ x = token[t].next)
    BY <1>4, <2>3
  <2> QED
    BY <2>2, <2>3
<1> QED
  BY <1>0, <1>9, <1>10, <1>11, <1>12

\* Every step on sessions and their tokens keeps the tables well formed.
LEMMA CreateTyped ==
    ASSUME SessionTables, NEW u \in Emails \cup {None}, NEW proof \in Proofs,
           NEW mobile \in BOOLEAN, CreateSession(u, proof, mobile)
    PROVE  SessionTables'
<1>1. PICK s \in SessionIds, t \in TokenIds :
        /\ session' = [session EXCEPT ![s] = [user |-> u, status |-> "ACTIVE",
                                              current |-> t, proof |-> proof]]
        /\ token' = [token EXCEPT ![t] = [NoToken EXCEPT !.of = s]]
        /\ held' = [held EXCEPT ![s] = IF mobile THEN 0 ELSE t]
        /\ handoff' = IF mobile THEN handoff \cup {s} ELSE handoff
        /\ UNCHANGED <<suspicious, budget>>
  BY DEF CreateSession
<1>2. t \in 0 .. MaxTokens /\ s \in 0 .. MaxSessions /\ 0 \in 0 .. MaxTokens
  BY SessionBounds DEF TokenIds, SessionIds
<1>3. [user |-> u, status |-> "ACTIVE", current |-> t, proof |-> proof] \in SessionRow
  BY <1>2 DEF SessionRow
<1>4. [NoToken EXCEPT !.of = s] \in TokenRow
  BY <1>2 DEF TokenRow, NoToken
<1> QED
  BY <1>1, <1>2, <1>3, <1>4 DEF SessionTables

LEMMA SessionStepTyped ==
    ASSUME SessionTables, \A t \in TokenIds : TokenLinked(t), SessionStep
    PROVE  SessionTables'
<1>0. 0 \in 0 .. MaxTokens /\ \A t \in TokenIds : t \in 0 .. MaxTokens
  BY SessionBounds DEF TokenIds
<1>1. ASSUME NEW t \in TokenIds, NEW delivered \in BOOLEAN, RefreshRotates(t, delivered)
      PROVE  SessionTables'
  <2>1. PICK n \in TokenIds :
          /\ FreeToken(n) /\ token' = Rotated(t, n)
          /\ session' = [session EXCEPT ![token[t].of].current = n]
          /\ held' = [held EXCEPT ![token[t].of] = IF delivered THEN n ELSE @]
    BY <1>1 DEF RefreshRotates
  <2>2. token[t].of # 0 /\ token[n].of = 0 /\ token[t].of \in SessionIds /\ token[t].next # n
    <3>1. token[t].of # 0 /\ token[n].of = 0 /\ token[t].of \in SessionIds
      BY <1>1, <2>1, SessionBounds
      DEF RefreshRotates, Usable, FreeToken, SessionTables, TokenRow, SessionIds
    <3>2. n # 0
      BY DEF TokenIds
    <3> QED
      BY <3>1, <3>2 DEF TokenLinked
  <2>3. token' \in [TokenIds -> TokenRow]
    BY <2>1, <2>2, RotatedRows
  <2>4. session' \in [SessionIds -> SessionRow]
    BY <1>0, <2>1, <2>2 DEF SessionTables, SessionRow
  <2>5. suspicious' \in SUBSET SessionIds /\ UNCHANGED <<handoff, budget>>
    BY <1>1, <2>2 DEF RefreshRotates, Suspect, SessionTables
  <2> QED
    BY <1>0, <2>1, <2>3, <2>4, <2>5 DEF SessionTables
<1>2. ASSUME NEW t \in TokenIds, RefreshReused(t)
      PROVE  SessionTables'
  <2>1. token[t].of # 0 /\ token[t].of \in SessionIds
    BY <1>2, SessionBounds DEF RefreshReused, Usable, SessionTables, TokenRow, SessionIds
  <2>2. session' \in [SessionIds -> SessionRow]
    BY <1>2, <2>1 DEF RefreshReused, SessionTables, SessionRow
  <2>3. token' \in [TokenIds -> TokenRow]
    BY <1>2, <2>1 DEF RefreshReused, SessionTables, TokenRow
  <2> QED
    BY <1>2, <2>1, <2>2, <2>3 DEF RefreshReused, Suspect, SessionTables
<1>3. ASSUME NEW t \in TokenIds, RefreshEnded(t)
      PROVE  SessionTables'
  <2>1. token[t].of \in SessionIds
    BY <1>3, SessionBounds DEF RefreshEnded, Usable, SessionTables, TokenRow, SessionIds
  <2>2. token' \in [TokenIds -> TokenRow]
    BY <1>3 DEF RefreshEnded, SessionTables, TokenRow
  <2> QED
    BY <1>3, <2>1, <2>2 DEF RefreshEnded, Suspect, SessionTables
<1>4. ASSUME NEW t \in TokenIds, GraceEnds(t) \/ TokenExpires(t)
      PROVE  SessionTables'
  <2>0. token \in [TokenIds -> TokenRow]
    BY DEF SessionTables
  <2>1. /\ [token[t] EXCEPT !.late = TRUE] \in TokenRow
        /\ [token[t] EXCEPT !.expired = TRUE] \in TokenRow
    BY <2>0 DEF TokenRow
  <2>2. \/ token' = [token EXCEPT ![t] = [token[t] EXCEPT !.late = TRUE]]
        \/ token' = [token EXCEPT ![t] = [token[t] EXCEPT !.expired = TRUE]]
    BY <1>4, <2>0 DEF GraceEnds, TokenExpires
  <2>3. token' \in [TokenIds -> TokenRow]
    BY <2>0, <2>1, <2>2
  <2> QED
    BY <1>4, <2>3 DEF GraceEnds, TokenExpires, SessionTables
<1>5. ASSUME NEW s \in SessionIds, RedeemHandoff(s) \/ LoseHandoff(s)
      PROVE  SessionTables'
  BY <1>5 DEF RedeemHandoff, LoseHandoff, SessionTables, SessionRow
<1>6. ASSUME NEW S, RevokeSessions(S)
      PROVE  SessionTables'
  <2>1. session' \in [SessionIds -> SessionRow]
    BY <1>6 DEF RevokeSessions, SessionTables, SessionRow
  <2>2. token' \in [TokenIds -> TokenRow]
    BY <1>6 DEF RevokeSessions, SessionTables, TokenRow
  <2> QED
    BY <1>6, <2>1, <2>2 DEF RevokeSessions, SessionTables
<1> QED
  BY <1>1, <1>2, <1>3, <1>4, <1>5, <1>6 DEF SessionStep, SessionsNext, Logout, LogoutAll

LEMMA EndTyped ==
    ASSUME SessionTables, NEW u, EndSessions(u)
    PROVE  SessionTables'
BY DEF EndSessions, SessionTables, SessionRow

\* A session whose row, whose client and whose tokens a step leaves alone is
\* as well linked after the step as before.
LEMMA SessionKept ==
    ASSUME SessionTables, ChainInv, NEW s \in SessionIds,
           session'[s] = session[s], held'[s] = held[s],
           s \in handoff' => s \in handoff, s \in suspicious => s \in suspicious',
           \A x \in TokenIds : token[x].of = s \/ token'[x].of = s => token'[x] = token[x]
    PROVE  SessionLinked(s)' /\ Current(s)' /\ GoesOn(s)'
<1>1. SessionLinked(s) /\ Current(s) /\ GoesOn(s) /\ \A t \in TokenIds : TokenLinked(t)
  BY DEF ChainInv
<1>2. held[s] # 0 => held[s] \in TokenIds
  BY SessionBounds DEF SessionTables, TokenIds
<1>3. \A t \in TokenIds : token[t].next # 0 => token[t].next \in TokenIds
  BY SessionBounds DEF SessionTables, TokenIds, TokenRow
<1>4. SessionLinked(s)'
  BY <1>1, <1>2 DEF SessionLinked
<1>5. Current(s)'
  BY <1>1 DEF Current
<1>6. GoesOn(s)'
  <2> SUFFICES ASSUME s \notin suspicious', session'[s].status = "ACTIVE", held'[s] # 0
               PROVE  \/ held'[s] = session'[s].current \/ Undelivered(held[s])'
                      \/ token'[held'[s]].late
    BY DEF GoesOn
  <2> DEFINE h == held[s]
  <2>1. h \in TokenIds /\ token[h].of = s /\ token'[h] = token[h]
    BY <1>1, <1>2 DEF SessionLinked
  <2>2. CASE Undelivered(h)
    <3>1. token[h].next \in TokenIds /\ token[token[h].next].of = s
      BY <1>1, <1>3, <2>1, <2>2 DEF Undelivered, TokenLinked
    <3> QED
      BY <2>1, <2>2, <3>1 DEF Undelivered
  <2>3. CASE h = session[s].current \/ token[h].late
    BY <2>1, <2>3
  <2> QED
    BY <1>1, <2>2, <2>3 DEF GoesOn
<1> QED
  BY <1>4, <1>5, <1>6

\* A new session begins a chain of its own.
LEMMA CreateChains ==
    ASSUME SessionTables, ChainInv, NEW u, NEW proof, NEW mobile \in BOOLEAN,
           CreateSession(u, proof, mobile)
    PROVE  ChainInv'
<1>1. PICK s \in SessionIds, t \in TokenIds :
        /\ session[s].status = "none" /\ token[t].of = 0
        /\ session' = [session EXCEPT ![s] = [user |-> u, status |-> "ACTIVE",
                                              current |-> t, proof |-> proof]]
        /\ token' = [token EXCEPT ![t] = [NoToken EXCEPT !.of = s]]
        /\ held' = [held EXCEPT ![s] = IF mobile THEN 0 ELSE t]
        /\ handoff' = IF mobile THEN handoff \cup {s} ELSE handoff
        /\ UNCHANGED <<suspicious, budget>>
  BY DEF CreateSession, FreeSession, FreeToken
<1>2. /\ s # 0 /\ t # 0
      /\ \A x \in TokenIds : token[x].next # 0 => token[x].next \in TokenIds
      /\ \A x \in TokenIds : token[x].of # 0 => token[x].of \in SessionIds
  BY SessionBounds DEF SessionIds, TokenIds, SessionTables, TokenRow
<1>3. \A x \in TokenIds : token[x].of # s /\ token[x].next # t
  BY <1>1, <1>2 DEF ChainInv, TokenLinked
<1>4. /\ token'[t] = [NoToken EXCEPT !.of = s]
      /\ \A x \in TokenIds \ {t} : token'[x] = token[x]
      /\ session'[s] = [user |-> u, status |-> "ACTIVE", current |-> t, proof |-> proof]
      /\ \A q \in SessionIds \ {s} : session'[q] = session[q] /\ held'[q] = held[q]
      /\ held'[s] = IF mobile THEN 0 ELSE t
  BY <1>1 DEF SessionTables
<1>5. /\ token'[t].of = s /\ ~token'[t].consumed /\ ~token'[t].revoked /\ token'[t].next = 0
      /\ session'[s].status = "ACTIVE" /\ session'[s].current = t
  BY <1>4 DEF NoToken
<1>6. ASSUME NEW q \in SessionIds
      PROVE  SessionLinked(q)' /\ Current(q)' /\ GoesOn(q)'
  <2>1. CASE q = s
    <3>1. SessionLinked(s)'
      BY <1>2, <1>4, <1>5 DEF SessionLinked
    <3>2. Current(s)'
      BY <1>3, <1>4, <1>5 DEF Current
    <3>3. GoesOn(s)'
      BY <1>4, <1>5 DEF GoesOn
    <3> QED
      BY <2>1, <3>1, <3>2, <3>3
  <2>2. CASE q # s
    <3>1. session'[q] = session[q] /\ held'[q] = held[q]
          /\ (q \in handoff' => q \in handoff) /\ (q \in suspicious => q \in suspicious')
      BY <1>1, <1>4, <2>2
    <3>2. \A x \in TokenIds : token[x].of = q \/ token'[x].of = q => token'[x] = token[x]
      BY <1>1, <1>2, <1>4, <1>5, <2>2 DEF SessionIds
    <3> QED
      BY <3>1, <3>2, SessionKept
  <2> QED
    BY <2>1, <2>2
<1>7. ASSUME NEW x \in TokenIds
      PROVE  TokenLinked(x)'
  <2>1. TokenLinked(x)
    BY DEF ChainInv
  <2>2. CASE x = t
    BY <1>2, <1>4, <1>5, <2>2 DEF TokenLinked
  <2>3. CASE x # t
    BY <1>2, <1>3, <1>4, <2>1, <2>3 DEF TokenLinked
  <2> QED
    BY <2>2, <2>3
<1> QED
  BY <1>6, <1>7 DEF ChainInv

\* A rotation retires the token that was current and makes the new one the
\* only token that works; the client goes on with it, or with the token it
\* presented if the answer was lost.
LEMMA RotationChains ==
    ASSUME SessionTables, ChainInv, NEW t \in TokenIds, NEW delivered \in BOOLEAN,
           RefreshRotates(t, delivered)
    PROVE  ChainInv'
<1>0. PICK s \in SessionIds : s = token[t].of /\ s # 0
  BY SessionBounds DEF RefreshRotates, Usable, SessionIds, SessionTables, TokenRow
<1>1. PICK n \in TokenIds :
        /\ token[n].of = 0 /\ token' = Rotated(t, n)
        /\ session' = [session EXCEPT ![s].current = n]
        /\ held' = [held EXCEPT ![s] = IF delivered THEN n ELSE @]
  BY <1>0 DEF RefreshRotates, FreeToken
<1>2. /\ n # 0
      /\ \A x \in TokenIds : token[x].next # 0 => token[x].next \in TokenIds
      /\ \A x \in TokenIds : token[x].of # 0 => token[x].of \in SessionIds
      /\ \A q \in SessionIds : held[q] # 0 => held[q] \in TokenIds
  BY SessionBounds DEF SessionIds, TokenIds, SessionTables, TokenRow
<1>3. \A x \in TokenIds : TokenLinked(x)
  BY DEF ChainInv
<1>4. \A x \in TokenIds : token[x].next # n
  BY <1>1, <1>2, <1>3 DEF TokenLinked
<1>5. token[t].of # 0 /\ token[n].of = 0 /\ token[t].next # n /\ token' = Rotated(t, n)
  BY <1>0, <1>1, <1>4
<1>6. /\ n # t
      /\ token'[n].of = s /\ ~token'[n].consumed /\ ~token'[n].revoked /\ token'[n].next = 0
      /\ token'[t].of = s /\ token'[t].consumed /\ token'[t].next = n
      /\ token'[t].late <=> token[t].late
  BY <1>0, <1>5, RotatedRows
<1>7. \A x \in TokenIds \ {n, t} :
        /\ token'[x].of = token[x].of /\ token'[x].next = token[x].next
        /\ token'[x].consumed <=> token[x].consumed
        /\ Undelivered(t) /\ x = token[t].next => token'[x].revoked
        /\ (Undelivered(t) /\ x = token[t].next) \/ token'[x] = token[x]
  BY <1>5, RotatedRows
<1>8. /\ session'[s].status = session[s].status /\ session'[s].current = n
      /\ \A q \in SessionIds \ {s} : session'[q] = session[q] /\ held'[q] = held[q]
      /\ held'[s] = IF delivered THEN n ELSE held[s]
      /\ \A q \in SessionIds : session'[q].status = session[q].status
  BY <1>1, <1>2 DEF SessionTables, SessionRow
<1>9. /\ session[s].status = "ACTIVE" /\ handoff' = handoff /\ suspicious' = Suspect(t)
      /\ Undelivered(t) \/ (~token[t].consumed /\ session[s].current = t)
  BY <1>0 DEF RefreshRotates
<1>10. Undelivered(t) => /\ token[t].next \in TokenIds \ {n, t} /\ token[token[t].next].of = s
                         /\ session[s].current = token[t].next
  BY <1>0, <1>2, <1>3, <1>4 DEF Undelivered, TokenLinked
<1>11. ASSUME NEW x \in TokenIds
       PROVE  TokenLinked(x)'
  <2>1. TokenLinked(x)
    BY <1>3
  <2>2. CASE x = n
    BY <1>0, <1>2, <1>6, <1>8, <1>9, <2>2 DEF TokenLinked
  <2>3. CASE x = t
    BY <1>0, <1>2, <1>6, <1>8, <1>9, <2>3 DEF TokenLinked
  <2>4. CASE x \notin {n, t}
    <3>1. token'[x].of = token[x].of /\ token'[x].next = token[x].next
          /\ (token'[x].consumed <=> token[x].consumed)
      BY <1>7, <2>4
    <3>2. token[x].next # 0 => token'[token[x].next].of = token[token[x].next].of
      BY <1>0, <1>2, <1>4, <1>6, <1>7
    <3> QED
      BY <1>2, <1>8, <2>1, <3>1, <3>2 DEF TokenLinked
  <2> QED
    BY <2>2, <2>3, <2>4
<1>12. SessionLinked(s)'
  <2>1. SessionLinked(s)
    BY <1>2 DEF ChainInv
  <2>2. held[s] # 0 => held[s] # n
    BY <1>0, <1>1, <1>2, <2>1 DEF SessionLinked
  <2> QED
    BY <1>0, <1>2, <1>6, <1>7, <1>8, <1>9, <2>1, <2>2 DEF SessionLinked
<1>13. Current(s)'
  <2>1. Current(s)
    BY <1>2 DEF ChainInv
  <2>2. ASSUME NEW x \in TokenIds, token'[x].of = s
        PROVE  ~token'[x].consumed /\ ~token'[x].revoked <=> x = n
    <3>1. CASE x \in {n, t}
      BY <1>6, <3>1
    <3>2. CASE x \notin {n, t}
      <4>1. token[x].of = s
        BY <1>7, <2>2, <3>2
      <4>2. CASE Undelivered(t) /\ x = token[t].next
        BY <1>7, <3>2, <4>2
      <4>3. CASE ~(Undelivered(t) /\ x = token[t].next)
        <5>1. token'[x] = token[x] /\ x # session[s].current
          BY <1>7, <1>9, <1>10, <3>2, <4>3
        <5> QED
          BY <1>9, <2>1, <3>2, <4>1, <5>1 DEF Current
      <4> QED
        BY <4>2, <4>3
    <3> QED
      BY <3>1, <3>2
  <2> QED
    BY <1>8, <2>2 DEF Current
<1>14. GoesOn(s)'
  <2>1. CASE s \in suspicious' \/ delivered \/ held'[s] = 0
    BY <1>8, <2>1 DEF GoesOn
  <2>2. CASE s \notin suspicious' /\ ~delivered
    <3>1. t = held[s] /\ ~token[t].late /\ held'[s] = t
      BY <1>0, <1>8, <1>9, <2>2 DEF Suspect
    <3> QED
      BY <1>0, <1>2, <1>6, <1>8, <3>1 DEF GoesOn, Undelivered
  <2> QED
    BY <2>1, <2>2
<1>15. ASSUME NEW q \in SessionIds, q # s
       PROVE  SessionLinked(q)' /\ Current(q)' /\ GoesOn(q)'
  <2>1. session'[q] = session[q] /\ held'[q] = held[q]
        /\ (q \in handoff' => q \in handoff) /\ (q \in suspicious => q \in suspicious')
    BY <1>0, <1>8, <1>9, <1>15 DEF Suspect
  <2>2. ASSUME NEW x \in TokenIds, token[x].of = q \/ token'[x].of = q
        PROVE  token'[x] = token[x]
    <3>1. x \notin {n, t} /\ token[x].of = q
      BY <1>0, <1>1, <1>2, <1>6, <1>7, <1>15, <2>2 DEF SessionIds
    <3> QED
      BY <1>7, <1>10, <1>15, <3>1
  <2> QED
    BY <2>1, <2>2, SessionKept
<1> QED
  BY <1>11, <1>12, <1>13, <1>14, <1>15 DEF ChainInv

\* What a revocation does to a token: everything but revoked stays.
RevokedOnly(x) ==
    /\ token'[x].of = token[x].of /\ token'[x].next = token[x].next
    /\ token'[x].consumed <=> token[x].consumed
    /\ token'[x].late <=> token[x].late

\* A step that ends sessions, and revokes tokens of ended sessions only,
\* leaves the chain of every session that goes on alone.
LEMMA EndingChains ==
    ASSUME SessionTables, SessionTables', ChainInv, UNCHANGED held,
           \A s \in SessionIds : s \in suspicious => s \in suspicious',
           handoff' = handoff,
           \A s \in SessionIds :
              \/ session'[s] = session[s]
              \/ /\ session[s].status # "none" /\ session'[s].status \notin {"none", "ACTIVE"}
                 /\ session'[s].current = session[s].current,
           \A x \in TokenIds : RevokedOnly(x),
           \A x \in TokenIds : \/ token'[x] = token[x]
                               \/ token[x].of # 0 /\ session'[token[x].of].status # "ACTIVE"
    PROVE  ChainInv'
<1>1. /\ \A x \in TokenIds : TokenLinked(x)
      /\ \A x \in TokenIds : token[x].of # 0 => token[x].of \in SessionIds
      /\ \A x \in TokenIds : token[x].next # 0 => token[x].next \in TokenIds
      /\ \A q \in SessionIds : held[q] # 0 => held[q] \in TokenIds
  <2>1. \A x \in TokenIds : TokenLinked(x)
    BY DEF ChainInv
  <2>2. /\ \A x \in TokenIds : token[x].of \in 0 .. MaxSessions /\ token[x].next \in 0 .. MaxTokens
        /\ \A q \in SessionIds : held[q] \in 0 .. MaxTokens
    BY DEF SessionTables, TokenRow
  <2>3. /\ \A n \in 0 .. MaxSessions : n # 0 => n \in SessionIds
        /\ \A n \in 0 .. MaxTokens : n # 0 => n \in TokenIds
    BY SessionBounds DEF SessionIds, TokenIds
  <2> QED
    BY <2>1, <2>2, <2>3
<1>2. ASSUME NEW x \in TokenIds
      PROVE  TokenLinked(x)'
  <2>1. TokenLinked(x) /\ RevokedOnly(x) /\ (token[x].next # 0 => RevokedOnly(token[x].next))
    BY <1>1
  <2>2. token[x].of # 0 => session'[token[x].of].status # "none"
    BY <1>1, <2>1 DEF TokenLinked
  <2> QED
    BY <2>1, <2>2 DEF TokenLinked, RevokedOnly
<1>3. ASSUME NEW s \in SessionIds
      PROVE  SessionLinked(s)' /\ Current(s)' /\ GoesOn(s)'
  <2>1. CASE session'[s] = session[s] /\ session[s].status = "ACTIVE"
    <3>1. \A x \in TokenIds : token[x].of = s \/ token'[x].of = s => token'[x] = token[x]
      BY <2>1 DEF RevokedOnly
    <3> QED
      BY <2>1, <3>1, SessionKept
  <2>2. CASE session'[s].status # "ACTIVE"
    <3>1. SessionLinked(s)
      BY DEF ChainInv
    <3>2. SessionLinked(s)'
      BY <1>1, <3>1 DEF SessionLinked, RevokedOnly
    <3> QED
      BY <2>2, <3>2 DEF Current, GoesOn
  <2> QED
    BY <2>1, <2>2
<1> QED
  BY <1>2, <1>3 DEF ChainInv

\* Every step on sessions keeps their chains.
LEMMA SessionStepChains ==
    ASSUME SessionTables, ChainInv, SessionStep
    PROVE  ChainInv'
<1>0. /\ \A x \in TokenIds : TokenLinked(x) /\ token[x] \in TokenRow
      /\ \A s \in SessionIds : session[s] \in SessionRow
      /\ \A x \in TokenIds : token[x].of # 0 => token[x].of \in SessionIds
      /\ \A x \in TokenIds : token[x].next # 0 => token[x].next \in TokenIds
      /\ \A q \in SessionIds : held[q] # 0 => held[q] \in TokenIds
  BY SessionBounds DEF ChainInv, SessionIds, TokenIds, SessionTables, TokenRow
<1>a. SessionTables'
  BY SessionStepTyped DEF ChainInv
<1>1. ASSUME NEW t \in TokenIds, NEW delivered \in BOOLEAN, RefreshRotates(t, delivered)
      PROVE  ChainInv'
  BY <1>1, RotationChains
<1>2. ASSUME NEW t \in TokenIds, RefreshReused(t)
      PROVE  ChainInv'
  <2>1. PICK s \in SessionIds : s = token[t].of /\ s # 0
    BY <1>0, <1>2 DEF RefreshReused, Usable
  <2>2. /\ session' = [session EXCEPT ![s].status = "COMPROMISED"]
        /\ \A x \in TokenIds : token'[x] = IF token[x].of = s THEN [token[x] EXCEPT !.revoked = TRUE]
                                           ELSE token[x]
        /\ held' = held /\ handoff' = handoff
        /\ \A q \in SessionIds : q \in suspicious => q \in suspicious'
    BY <1>2, <2>1 DEF RefreshReused, Suspect
  <2>3. session[s].status # "none"
    BY <1>0, <2>1 DEF TokenLinked
  <2>4. /\ session'[s].status = "COMPROMISED" /\ session'[s].current = session[s].current
        /\ \A q \in SessionIds \ {s} : session'[q] = session[q]
    BY <1>0, <2>2 DEF SessionTables, SessionRow
  <2>5. \A x \in TokenIds : RevokedOnly(x)
    BY <1>0, <2>2 DEF RevokedOnly, TokenRow
  <2>6. \A x \in TokenIds : \/ token'[x] = token[x]
                            \/ token[x].of # 0 /\ session'[token[x].of].status # "ACTIVE"
    BY <2>1, <2>2, <2>4
  <2> QED
    BY <1>a, <2>2, <2>3, <2>4, <2>5, <2>6, EndingChains
<1>3. ASSUME NEW t \in TokenIds, RefreshEnded(t)
      PROVE  ChainInv'
  <2>1. PICK n \in TokenIds : n = token[t].next /\ token[n].of = token[t].of /\ token[t].of # 0
    BY <1>0, <1>3 DEF RefreshEnded, Usable, Undelivered, TokenLinked
  <2>2. /\ token' = [token EXCEPT ![n].revoked = TRUE]
        /\ session' = session /\ held' = held /\ handoff' = handoff
        /\ \A q \in SessionIds : q \in suspicious => q \in suspicious'
        /\ session[token[t].of].status # "ACTIVE"
    BY <1>3, <2>1 DEF RefreshEnded, Suspect
  <2>3. \A x \in TokenIds : RevokedOnly(x) /\ (x # n => token'[x] = token[x])
    BY <1>0, <2>2 DEF RevokedOnly, TokenRow, SessionTables
  <2> QED
    BY <1>a, <2>1, <2>2, <2>3, EndingChains
<1>4. ASSUME NEW t \in TokenIds, GraceEnds(t) \/ TokenExpires(t)
      PROVE  ChainInv'
  <2>1. /\ session' = session /\ held' = held /\ handoff' = handoff /\ suspicious' = suspicious
        /\ \A x \in TokenIds :
             /\ token'[x].of = token[x].of /\ token'[x].next = token[x].next
             /\ token'[x].consumed <=> token[x].consumed
             /\ token'[x].revoked <=> token[x].revoked
             /\ token'[x].late <=> (token[x].late \/ (x = t /\ GraceEnds(t)))
    BY <1>0, <1>4 DEF GraceEnds, TokenExpires, SessionTables, TokenRow
  <2>2. ASSUME NEW x \in TokenIds
        PROVE  TokenLinked(x)'
    BY <1>0, <2>1 DEF TokenLinked
  <2>3. ASSUME NEW s \in SessionIds
        PROVE  SessionLinked(s)' /\ Current(s)' /\ GoesOn(s)'
    <3>1. SessionLinked(s) /\ Current(s) /\ GoesOn(s)
      BY DEF ChainInv
    <3>2. SessionLinked(s)'
      BY <1>0, <2>1, <3>1 DEF SessionLinked
    <3>3. Current(s)'
      BY <2>1, <3>1 DEF Current
    <3>4. GoesOn(s)'
      BY <1>0, <2>1, <3>1 DEF GoesOn, Undelivered
    <3> QED
      BY <3>2, <3>3, <3>4
  <2> QED
    BY <2>2, <2>3 DEF ChainInv
<1>5. ASSUME NEW s \in SessionIds, RedeemHandoff(s) \/ LoseHandoff(s)
      PROVE  ChainInv'
  <2>1. /\ session' = session /\ token' = token /\ suspicious' = suspicious
        /\ s \in handoff /\ handoff' = handoff \ {s}
        /\ \A q \in SessionIds \ {s} : held'[q] = held[q]
        /\ held'[s] \in {held[s], session[s].current}
    BY <1>5 DEF RedeemHandoff, LoseHandoff, SessionTables
  <2>2. ASSUME NEW x \in TokenIds
        PROVE  TokenLinked(x)'
    BY <1>0, <2>1 DEF TokenLinked
  <2>3. ASSUME NEW q \in SessionIds
        PROVE  SessionLinked(q)' /\ Current(q)' /\ GoesOn(q)'
    <3>1. SessionLinked(q) /\ Current(q) /\ GoesOn(q)
      BY DEF ChainInv
    <3>2. SessionLinked(q)'
      BY <2>1, <3>1 DEF SessionLinked
    <3>3. Current(q)'
      BY <2>1, <3>1 DEF Current
    <3>4. GoesOn(q)'
      BY <2>1, <3>1 DEF GoesOn, Undelivered
    <3> QED
      BY <3>2, <3>3, <3>4
  <2> QED
    BY <2>2, <2>3 DEF ChainInv
<1>6. ASSUME NEW S \in SUBSET SessionIds, RevokeSessions(S)
      PROVE  ChainInv'
  <2>1. PICK ids \in SUBSET SessionIds :
          /\ \A s \in ids : session[s].status = "ACTIVE"
          /\ session' = [s \in SessionIds |-> IF s \in ids THEN [session[s] EXCEPT !.status = "REVOKED"]
                                              ELSE session[s]]
          /\ token' = [t \in TokenIds |-> IF token[t].of \in ids
                                          THEN [token[t] EXCEPT !.revoked = TRUE] ELSE token[t]]
          /\ UNCHANGED <<held, suspicious, handoff>>
    BY <1>6 DEF RevokeSessions
  <2>2. \A s \in SessionIds :
          \/ session'[s] = session[s] /\ s \notin ids
          \/ /\ session[s].status # "none" /\ session'[s].status = "REVOKED"
             /\ session'[s].current = session[s].current
    BY <1>0, <2>1 DEF SessionRow
  <2>3. \A x \in TokenIds : RevokedOnly(x)
    BY <1>0, <2>1 DEF RevokedOnly, TokenRow
  <2>4. \A s \in ids : session'[s].status = "REVOKED"
    BY <1>0, <2>1 DEF SessionRow
  <2>5. \A x \in TokenIds : \/ token'[x] = token[x]
                            \/ token[x].of # 0 /\ session'[token[x].of].status # "ACTIVE"
    BY <2>1, <2>4 DEF SessionIds
  <2> QED
    BY <1>a, <2>1, <2>2, <2>3, <2>5, EndingChains
<1>7. \A s \in SessionIds : Logout(s) \/ LogoutAll(s) => \E S \in SUBSET SessionIds : RevokeSessions(S)
  BY DEF Logout, LogoutAll
<1> QED
  BY <1>1, <1>2, <1>3, <1>4, <1>5, <1>6, <1>7 DEF SessionStep, SessionsNext

LEMMA EndChains ==
    ASSUME SessionTables, ChainInv, NEW u, EndSessions(u)
    PROVE  ChainInv'
<1>1. SessionTables'
  BY EndTyped
<1>2. \A s \in SessionIds :
        \/ session'[s] = session[s]
        \/ /\ session[s].status # "none" /\ session'[s].status = "REVOKED"
           /\ session'[s].current = session[s].current
  BY DEF EndSessions, SessionTables, SessionRow
<1>3. \A x \in TokenIds : RevokedOnly(x) /\ token'[x] = token[x]
  BY DEF EndSessions, RevokedOnly
<1>4. UNCHANGED <<held, suspicious, handoff>>
  BY DEF EndSessions
<1> QED
  BY <1>1, <1>2, <1>3, <1>4, EndingChains

(***************************************************************************)
(* The ways in.  A session, and the last step before it, belongs to an     *)
(* account whose mailbox was proved; a request knows what it was told; no  *)
(* purpose has two open codes; and a proof of identity that can be spent   *)
(* has at most one holder, a session or a request on its way to one, from  *)
(* the moment it is spent.                                                 *)
(***************************************************************************)
UsersProved ==
    \A e \in Emails : /\ user[e].status = "none" => ~user[e].verified
                      /\ user[e].status = "ACTIVE" => user[e].verified
SessionsProved ==
    \A s \in SessionIds : session[s].status # "none" =>
        session[s].user \in Emails /\ user[session[s].user].verified
RequestKnows(r) ==
    /\ req[r].at # "idle" => req[r].user \in Emails
    /\ req[r].at = "session" => user[req[r].user].verified
    /\ req[r].at = "code" => /\ req[r].proof[1] \in {"LOGIN", "PASSWORD_RESET"}
                             /\ user[req[r].user].status # "none"
    /\ req[r].at \in {"link", "create"} => req[r].proof[1] = "google"
    /\ req[r].at \in {"accept", "revoke"} =>
          /\ req[r].proof[1] = "invite" /\ req[r].proof[2] \in InviteIds
          /\ invite[req[r].proof[2]].status # "none"
          /\ invite[req[r].proof[2]].email = req[r].user
ChallengesKnown ==
    \A c \in ChallengeIds : challenge[c].status # "none" =>
        challenge[c].of \in Emails /\ user[challenge[c].of].status # "none"
OnePurpose ==
    \A c, d \in ChallengeIds :
        (/\ challenge[c].status = "open" /\ challenge[d].status = "open"
         /\ challenge[c].of = challenge[d].of /\ challenge[c].purpose = challenge[d].purpose)
        => c = d
InvitesKnown ==
    \A i \in InviteIds :
        /\ invite[i].status # "none" => invite[i].email \in Emails
        /\ invite[i].accepted => /\ invite[i].status \in {"ACCEPTED", "REVOKED"}
                                 /\ user[invite[i].email].status # "none"
OneAccepted ==
    \A i, j \in InviteIds :
        (invite[i].accepted /\ invite[j].accepted /\ invite[i].email = invite[j].email) => i = j
Spendable == ({"code"} \X ChallengeIds) \cup ({"invite"} \X InviteIds)
Spent(x) ==
    \/ x[1] = "code" /\ challenge[x[2]].status = "consumed"
    \/ x[1] = "invite" /\ invite[x[2]].accepted
Holds(r, x) == req[r].at \in {"recheck", "session"} /\ req[r].proof = x
HeldOnce(x) ==
    /\ \A s, q \in SessionIds : session[s].proof = x /\ session[q].proof = x => s = q
    /\ \A r, q \in Requests : Holds(r, x) /\ Holds(q, x) => r = q
    /\ \A s \in SessionIds, r \in Requests : ~(session[s].proof = x /\ Holds(r, x))
    /\ \A s \in SessionIds : session[s].proof = x => Spent(x)
    /\ \A r \in Requests : Holds(r, x) => Spent(x)
EntryInv ==
    /\ UsersProved /\ SessionsProved /\ ChallengesKnown /\ OnePurpose
    /\ InvitesKnown /\ OneAccepted
    /\ \A r \in Requests : RequestKnows(r)
    /\ \A x \in Spendable : HeldOnce(x)

\* What no step takes back: an account exists and is verified for good, a
\* code keeps its owner and stays consumed, an invitation keeps its address
\* and stays accepted.
UsersGrow ==
    \A e \in Emails : /\ user[e].status # "none" => user'[e].status # "none"
                      /\ user[e].verified => user'[e].verified
CodesGrow ==
    \A c \in ChallengeIds :
        /\ challenge[c].status # "none" => /\ challenge'[c].status # "none"
                                           /\ challenge'[c].of = challenge[c].of
        /\ challenge[c].status = "consumed" => challenge'[c].status = "consumed"
InvitesGrow ==
    \A i \in InviteIds :
        /\ invite[i].status # "none" => /\ invite'[i].status # "none"
                                        /\ invite'[i].email = invite[i].email
        /\ invite[i].accepted => invite'[i].accepted

\* A request that a step leaves alone, or that ends, knows what it knew.
LEMMA RequestKept ==
    ASSUME EntryTables, EntryInv, UsersGrow, InvitesGrow, NEW r \in Requests,
           req'[r] = req[r] \/ req'[r] = Idle
    PROVE  RequestKnows(r)'
<1>1. CASE req'[r] = Idle
  BY <1>1 DEF RequestKnows, Idle
<1>2. CASE req'[r] = req[r]
  <2>1. RequestKnows(r)
    BY DEF EntryInv
  <2> QED
    BY <1>2, <2>1 DEF RequestKnows, UsersGrow, InvitesGrow
<1> QED
  BY <1>1, <1>2

\* Sessions that keep their users stay proved.
LEMMA SessionsStayProved ==
    ASSUME EntryInv, UsersGrow,
           \A s \in SessionIds : /\ session'[s].status # "none" => session[s].status # "none"
                                 /\ session'[s].user = session[s].user
    PROVE  SessionsProved'
BY DEF EntryInv, SessionsProved, UsersGrow

\* Nothing changes hands while no one gets a proof it did not have.
LEMMA HoldersKept ==
    ASSUME EntryInv, CodesGrow, InvitesGrow,
           \A s \in SessionIds : session'[s].proof = session[s].proof,
           \A r \in Requests, x \in Spendable : Holds(r, x)' => Holds(r, x)
    PROVE  \A x \in Spendable : HeldOnce(x)'
<1> SUFFICES ASSUME NEW x \in Spendable
             PROVE  HeldOnce(x)'
  OBVIOUS
<1>1. HeldOnce(x)
  BY DEF EntryInv
<1>2. Spent(x) => Spent(x)'
  BY DEF Spent, CodesGrow, InvitesGrow, Spendable
<1> QED
  BY <1>1, <1>2 DEF HeldOnce

\* A request that spends an unspent proof is its only holder.
LEMMA HolderBegins ==
    ASSUME EntryInv, CodesGrow, InvitesGrow, NEW y \in Spendable, NEW p \in Requests,
           ~Spent(y), Spent(y)',
           \A s \in SessionIds : session'[s].proof = session[s].proof,
           \A r \in Requests, x \in Spendable : Holds(r, x)' => Holds(r, x) \/ (r = p /\ x = y)
    PROVE  \A x \in Spendable : HeldOnce(x)'
<1> SUFFICES ASSUME NEW x \in Spendable
             PROVE  HeldOnce(x)'
  OBVIOUS
<1>1. HeldOnce(x)
  BY DEF EntryInv
<1>2. Spent(x) => Spent(x)'
  BY DEF Spent, CodesGrow, InvitesGrow, Spendable
<1>3. CASE x = y
  <2>1. /\ \A s \in SessionIds : session'[s].proof # x
        /\ \A r \in Requests : Holds(r, x)' => r = p
    BY <1>1, <1>3 DEF HeldOnce
  <2> QED
    BY <1>3, <2>1 DEF HeldOnce
<1>4. CASE x # y
  BY <1>1, <1>2, <1>4 DEF HeldOnce
<1> QED
  BY <1>3, <1>4

\* A new code: the open code of its purpose, if there is one, is closed.
LEMMA NewCode ==
    ASSUME EntryTables, EntryInv, UsersGrow, NEW e \in Emails, NEW purpose \in Purposes,
           NEW purposes, NewChallenge(e, purpose, purposes), user'[e].status # "none",
           \/ purpose \in purposes
           \/ user[e].status = "none"
    PROVE  /\ challenge' \in [ChallengeIds -> ChallengeRow]
           /\ CodesGrow /\ ChallengesKnown' /\ OnePurpose'
<1>1. PICK c \in ChallengeIds :
        /\ challenge[c].status = "none"
        /\ challenge' = [d \in ChallengeIds |->
                            IF d = c THEN [of |-> e, purpose |-> purpose, status |-> "open",
                                           attempts |-> 0, cooling |-> TRUE, expired |-> FALSE]
                            ELSE IF d \in Open(e, purposes)
                                 THEN [challenge[d] EXCEPT !.status = "invalidated"]
                                 ELSE challenge[d]]
  BY DEF NewChallenge
<1>2. challenge'[c] = [of |-> e, purpose |-> purpose, status |-> "open",
                       attempts |-> 0, cooling |-> TRUE, expired |-> FALSE]
  BY <1>1
<1>3. ASSUME NEW d \in ChallengeIds, d # c
      PROVE  /\ challenge'[d] \in ChallengeRow
             /\ challenge'[d].of = challenge[d].of /\ challenge'[d].purpose = challenge[d].purpose
             /\ challenge'[d].status = IF d \in Open(e, purposes) THEN "invalidated"
                                       ELSE challenge[d].status
  <2>1. challenge[d] \in ChallengeRow
    BY DEF EntryTables
  <2>2. CASE d \in Open(e, purposes)
    BY <1>1, <1>3, <2>1, <2>2 DEF ChallengeRow
  <2>3. CASE d \notin Open(e, purposes)
    BY <1>1, <1>3, <2>1, <2>3
  <2> QED
    BY <2>2, <2>3
<1>4. challenge' \in [ChallengeIds -> ChallengeRow]
  <2>1. 0 \in 0 .. MaxAttempts
    BY AccountBounds
  <2>2. challenge'[c] \in ChallengeRow
    BY <1>2, <2>1 DEF ChallengeRow
  <2>3. DOMAIN challenge' = ChallengeIds /\ challenge' = [d \in ChallengeIds |-> challenge'[d]]
    BY <1>1
  <2> QED
    BY <1>3, <2>2, <2>3
<1>5. CodesGrow
  BY <1>1, <1>3 DEF CodesGrow, Open
<1>6. ChallengesKnown'
  <2> SUFFICES ASSUME NEW d \in ChallengeIds, challenge'[d].status # "none"
               PROVE  challenge'[d].of \in Emails /\ user'[challenge'[d].of].status # "none"
    BY DEF ChallengesKnown
  <2>1. CASE d = c
    BY <1>2, <2>1
  <2>2. CASE d # c
    <3>1. challenge[d].status # "none" /\ challenge'[d].of = challenge[d].of
      BY <1>3, <2>2 DEF Open
    <3> QED
      BY <3>1 DEF EntryInv, ChallengesKnown, UsersGrow
  <2> QED
    BY <2>1, <2>2
<1>7. ASSUME NEW d \in ChallengeIds, d # c, challenge'[d].status = "open"
      PROVE  /\ challenge[d].status = "open" /\ challenge'[d].of = challenge[d].of
             /\ challenge'[d].purpose = challenge[d].purpose
             /\ ~(challenge[d].of = e /\ challenge[d].purpose = purpose)
  <2>1. challenge[d].status = "open" /\ d \notin Open(e, purposes)
    BY <1>3, <1>7
  <2>2. challenge[d].of = e => user[e].status # "none"
    BY <2>1 DEF EntryInv, ChallengesKnown
  <2> QED
    BY <1>3, <1>7, <2>1, <2>2 DEF Open
<1>8. OnePurpose'
  <2> SUFFICES ASSUME NEW d \in ChallengeIds, NEW f \in ChallengeIds,
                      challenge'[d].status = "open", challenge'[f].status = "open",
                      challenge'[d].of = challenge'[f].of,
                      challenge'[d].purpose = challenge'[f].purpose
               PROVE  d = f
    BY DEF OnePurpose
  <2>1. CASE d # c /\ f # c
    BY <1>7, <2>1 DEF EntryInv, OnePurpose
  <2>2. CASE d = c \/ f = c
    BY <1>2, <1>7, <2>2
  <2> QED
    BY <2>1, <2>2
<1> QED
  BY <1>4, <1>5, <1>6, <1>8

\* A step that opens no code keeps what is known of them.
LEMMA CodesKept ==
    ASSUME EntryTables, EntryInv, UsersGrow,
           challenge' \in [ChallengeIds -> ChallengeRow],
           \A c \in ChallengeIds :
              /\ challenge'[c].of = challenge[c].of /\ challenge'[c].purpose = challenge[c].purpose
              /\ \/ challenge'[c].status = challenge[c].status
                 \/ challenge[c].status = "open" /\ challenge'[c].status \in {"consumed", "invalidated"}
    PROVE  CodesGrow /\ ChallengesKnown' /\ OnePurpose'
<1>1. CodesGrow
  BY DEF CodesGrow
<1>2. ChallengesKnown'
  BY DEF EntryInv, ChallengesKnown, UsersGrow
<1>3. OnePurpose'
  BY DEF EntryInv, OnePurpose
<1> QED
  BY <1>1, <1>2, <1>3

\* Spending a code, guessing it wrong and its times open no code.
LEMMA CodeSpent ==
    ASSUME EntryTables, EntryInv, UsersGrow, NEW c \in ChallengeIds, Redeemable(c), Consume(c)
    PROVE  /\ challenge' \in [ChallengeIds -> ChallengeRow] /\ challenge'[c].status = "consumed"
           /\ challenge[c].status = "open"
           /\ CodesGrow /\ ChallengesKnown' /\ OnePurpose'
<1>1. challenge' \in [ChallengeIds -> ChallengeRow] /\ challenge'[c].status = "consumed"
  BY DEF Consume, EntryTables, ChallengeRow
<1>2. challenge[c].status = "open"
  BY DEF Redeemable
<1>3. \A d \in ChallengeIds :
        /\ challenge'[d].of = challenge[d].of /\ challenge'[d].purpose = challenge[d].purpose
        /\ \/ challenge'[d].status = challenge[d].status
           \/ challenge[d].status = "open" /\ challenge'[d].status \in {"consumed", "invalidated"}
  BY <1>1, <1>2 DEF Consume, EntryTables, ChallengeRow
<1> QED
  BY <1>1, <1>2, <1>3, CodesKept

LEMMA CodeAges ==
    ASSUME EntryTables, EntryInv, UsersGrow, NEW c \in ChallengeIds,
           WrongCode(c) \/ CooldownEnds(c) \/ CodeExpires(c)
    PROVE  /\ challenge' \in [ChallengeIds -> ChallengeRow]
           /\ CodesGrow /\ ChallengesKnown' /\ OnePurpose'
<1>0. challenge[c] \in ChallengeRow
  BY DEF EntryTables
<1>1. CASE WrongCode(c)
  <2>1. PICK n : n = challenge[c].attempts + 1
    OBVIOUS
  <2>2. n \in 0 .. MaxAttempts /\ challenge[c].status = "open"
    BY <1>0, <1>1, <2>1, AccountBounds DEF WrongCode, Redeemable, ChallengeRow
  <2>3. challenge' = [challenge EXCEPT ![c] =
          [@ EXCEPT !.attempts = n,
                    !.status = IF n >= MaxAttempts THEN "invalidated" ELSE "open"]]
    BY <1>0, <1>1, <2>1, <2>2 DEF WrongCode, EntryTables, ChallengeRow
  <2>4. challenge' \in [ChallengeIds -> ChallengeRow]
    <3> DEFINE st == IF n >= MaxAttempts THEN "invalidated" ELSE "open"
    <3>1. st \in {"invalidated", "open"}
      OBVIOUS
    <3> HIDE DEF st
    <3>2. [challenge[c] EXCEPT !.attempts = n, !.status = st] \in ChallengeRow
      BY <1>0, <2>2, <3>1 DEF ChallengeRow
    <3>3. challenge' = [challenge EXCEPT ![c] = [challenge[c] EXCEPT !.attempts = n, !.status = st]]
      BY <2>3 DEF EntryTables, st
    <3>4. challenge \in [ChallengeIds -> ChallengeRow]
      BY DEF EntryTables
    <3> QED
      BY <3>2, <3>3, <3>4
  <2>5. \A d \in ChallengeIds :
          /\ challenge'[d].of = challenge[d].of /\ challenge'[d].purpose = challenge[d].purpose
          /\ \/ challenge'[d].status = challenge[d].status
             \/ challenge[d].status = "open" /\ challenge'[d].status \in {"consumed", "invalidated"}
    BY <2>2, <2>3 DEF EntryTables, ChallengeRow
  <2> QED
    BY <2>4, <2>5, CodesKept
<1>2. CASE CooldownEnds(c) \/ CodeExpires(c)
  <2>1. challenge' \in [ChallengeIds -> ChallengeRow]
    <3>1. CASE CooldownEnds(c)
      BY <3>1 DEF CooldownEnds, EntryTables, ChallengeRow
    <3>2. CASE CodeExpires(c)
      BY <3>2 DEF CodeExpires, EntryTables, ChallengeRow
    <3> QED
      BY <1>2, <3>1, <3>2
  <2>2. \A d \in ChallengeIds :
          /\ challenge'[d].of = challenge[d].of /\ challenge'[d].purpose = challenge[d].purpose
          /\ challenge'[d].status = challenge[d].status
    BY <1>2 DEF CooldownEnds, CodeExpires, EntryTables, ChallengeRow
  <2> QED
    BY <2>1, <2>2, CodesKept
<1> QED
  BY <1>1, <1>2

\* The rows of requests after each way of moving one.
LEMMA BeginRows ==
    ASSUME EntryTables, NEW r \in Requests, NEW at \in Steps, NEW e \in Emails \cup {None},
           NEW proof \in Proofs, Begin(r, at, e, proof)
    PROVE  /\ req' \in [Requests -> EntryRow] /\ req[r] = Idle
           /\ req'[r].at = at /\ req'[r].user = e /\ req'[r].proof = proof
           /\ \A q \in Requests \ {r} : req'[q] = req[q]
<1>1. req[r] = Idle /\ req' = [req EXCEPT ![r] = [at |-> at, user |-> e, proof |-> proof]]
  BY DEF Begin
<1>2. [at |-> at, user |-> e, proof |-> proof] \in EntryRow
  BY DEF EntryRow
<1> QED
  BY <1>1, <1>2 DEF EntryTables

LEMMA ContinueRows ==
    ASSUME EntryTables, NEW r \in Requests, NEW at \in Steps, Continue(r, at)
    PROVE  /\ req' \in [Requests -> EntryRow]
           /\ req'[r].at = at /\ req'[r].user = req[r].user /\ req'[r].proof = req[r].proof
           /\ \A q \in Requests \ {r} : req'[q] = req[q]
BY DEF Continue, EntryTables, EntryRow

LEMMA FinishRows ==
    ASSUME EntryTables, NEW r \in Requests, Finish(r)
    PROVE  /\ req' \in [Requests -> EntryRow]
           /\ \A q \in Requests : req'[q] = req[q] \/ req'[q] = Idle
           /\ \A q \in Requests, x \in Spendable : Holds(q, x)' => Holds(q, x)
           /\ \A x \in Spendable : ~Holds(r, x)'
<1>1. Idle \in EntryRow /\ Idle.at = "idle"
  BY DEF Idle, EntryRow, Steps, Proofs, Tags
<1>2. /\ req' \in [Requests -> EntryRow] /\ req'[r] = Idle
      /\ \A q \in Requests \ {r} : req'[q] = req[q]
  BY <1>1 DEF Finish, EntryTables
<1> QED
  BY <1>1, <1>2 DEF Holds

\* A request that begins or goes on at a step of its own changes no other.
LEMMA OthersKept ==
    ASSUME EntryTables, EntryInv, UsersGrow, InvitesGrow, NEW r \in Requests,
           \A q \in Requests \ {r} : req'[q] = req[q], RequestKnows(r)'
    PROVE  /\ \A q \in Requests : RequestKnows(q)'
           /\ \A q \in Requests \ {r} : \A x \in Spendable : Holds(q, x)' => Holds(q, x)
<1>1. ASSUME NEW q \in Requests
      PROVE  RequestKnows(q)'
  BY RequestKept
<1>2. \A q \in Requests \ {r} : \A x \in Spendable : Holds(q, x)' => Holds(q, x)
  BY DEF Holds
<1> QED
  BY <1>1, <1>2

\* Invitations that no step accepts.
LEMMA InvitesKept ==
    ASSUME EntryTables, EntryInv, UsersGrow,
           \A i \in InviteIds :
              /\ invite'[i].accepted => invite[i].accepted /\ invite'[i].status \in {"ACCEPTED", "REVOKED"}
              /\ invite[i].accepted => invite'[i].accepted
              /\ invite[i].status # "none" => /\ invite'[i].status # "none"
                                              /\ invite'[i].email = invite[i].email
              /\ invite[i].status = "none" => \/ invite'[i].status = "none"
                                              \/ invite'[i].email \in Emails
    PROVE  InvitesGrow /\ InvitesKnown' /\ OneAccepted'
<1>1. InvitesGrow
  BY DEF InvitesGrow
<1>2. ASSUME NEW i \in InviteIds, invite'[i].accepted
      PROVE  /\ invite[i].accepted /\ invite'[i].email = invite[i].email
             /\ invite[i].email \in Emails /\ user[invite[i].email].status # "none"
             /\ invite'[i].status \in {"ACCEPTED", "REVOKED"}
  BY <1>2 DEF EntryInv, InvitesKnown
<1>3. InvitesKnown'
  BY <1>2 DEF EntryInv, InvitesKnown, UsersGrow
<1>4. OneAccepted'
  BY <1>2 DEF EntryInv, OneAccepted
<1> QED
  BY <1>1, <1>3, <1>4

\* What a step leaves alone stays as it was known.
LEMMA Still ==
    ASSUME EntryTables, EntryInv, UsersGrow
    PROVE  /\ UNCHANGED challenge => CodesGrow /\ ChallengesKnown' /\ OnePurpose'
           /\ UNCHANGED invite => InvitesGrow /\ InvitesKnown' /\ OneAccepted'
           /\ UNCHANGED session => SessionsProved'
           /\ UNCHANGED user => UsersProved'
<1>1. UNCHANGED challenge => CodesGrow /\ ChallengesKnown' /\ OnePurpose'
  BY CodesKept DEF EntryTables
<1>2. UNCHANGED invite => InvitesGrow /\ InvitesKnown' /\ OneAccepted'
  BY InvitesKept DEF EntryInv, InvitesKnown
<1>3. UNCHANGED session => SessionsProved'
  BY SessionsStayProved
<1>4. UNCHANGED user => UsersProved'
  BY DEF EntryInv, UsersProved
<1> QED
  BY <1>1, <1>2, <1>3, <1>4

LEMMA UsersStill ==
    ASSUME UNCHANGED user
    PROVE  UsersGrow
BY DEF UsersGrow

\* A request that begins to do something and holds no proof yet.
LEMMA BeginOnly ==
    ASSUME EntryTables, EntryInv, NEW r \in Requests, NEW at \in Steps, NEW e \in Emails,
           NEW tag \in Tags, NEW n \in Nat,
           Begin(r, at, e, <<tag, n>>), UNCHANGED <<sessionVars, user, challenge, invite>>,
           at # "recheck", at = "session" => tag \in {"password", "google"} /\ user[e].verified,
           at = "code" => tag \in {"LOGIN", "PASSWORD_RESET"} /\ user[e].status # "none",
           at \in {"link", "create"} => tag = "google",
           at \in {"accept", "revoke"} => /\ tag = "invite" /\ n \in InviteIds
                                          /\ invite[n].status # "none" /\ invite[n].email = e
    PROVE  EntryTables' /\ EntryInv'
<1>1. UsersGrow /\ UNCHANGED session
  BY DEF UsersGrow, sessionVars
<1>2. <<tag, n>> \in Proofs
  BY DEF Proofs
<1>3. /\ req' \in [Requests -> EntryRow]
      /\ req'[r].at = at /\ req'[r].user = e /\ req'[r].proof = <<tag, n>>
      /\ \A q \in Requests \ {r} : req'[q] = req[q]
  BY <1>2, BeginRows
<1>4. RequestKnows(r)'
  BY <1>3 DEF RequestKnows
<1>5. /\ \A q \in Requests : RequestKnows(q)'
      /\ \A q \in Requests \ {r} : \A x \in Spendable : Holds(q, x)' => Holds(q, x)
  BY <1>1, <1>3, <1>4, Still, OthersKept
<1>6. \A x \in Spendable : ~Holds(r, x)'
  BY <1>3 DEF Holds, Spendable
<1>7. \A x \in Spendable : HeldOnce(x)'
  BY <1>1, <1>5, <1>6, Still, HoldersKept
<1> QED
  BY <1>1, <1>3, <1>5, <1>7, Still DEF EntryInv, EntryTables

\* The steps that only begin a request.
LEMMA BeginSteps ==
    ASSUME EntryTables, EntryInv, NEW r \in Requests,
           \/ \E e \in Emails : \/ Login(r, e) \/ RequestCode(r, e) \/ RequestReset(r, e)
                                \/ GoogleSignIn(r, e) \/ Invite(r, e)
           \/ \E c \in ChallengeIds : ResendCode(r, c)
           \/ \E i \in InviteIds : Revoke(r, i) \/ Accept(r, i)
    PROVE  EntryTables' /\ EntryInv'
<1>0. /\ 0 \in Nat /\ \A i \in InviteIds : i \in Nat
      /\ {"session", "code", "link", "create", "invite", "revoke", "accept"} \subseteq Steps
      /\ {"password", "LOGIN", "PASSWORD_RESET", "google", "invite"} \subseteq Tags
  BY AccountBounds DEF InviteIds, Steps, Tags
<1>1. ASSUME NEW e \in Emails, Login(r, e)
      PROVE  EntryTables' /\ EntryInv'
  <2>1. user[e].verified /\ user[e].password \in Nat
    BY <1>1, AccountBounds DEF Login, EntryInv, UsersProved, EntryTables, UserRow
  <2>2. Begin(r, "session", e, <<"password", user[e].password>>)
        /\ UNCHANGED <<sessionVars, user, challenge, invite>>
    BY <1>1 DEF Login
  <2> QED
    BY <1>0, <2>1, <2>2, BeginOnly
<1>2. ASSUME NEW e \in Emails, RequestCode(r, e)
      PROVE  EntryTables' /\ EntryInv'
  <2>1. user[e].status # "none" /\ Begin(r, "code", e, <<"LOGIN", 0>>)
        /\ UNCHANGED <<sessionVars, user, challenge, invite>>
    BY <1>2 DEF RequestCode, Eligible
  <2> QED
    BY <1>0, <2>1, BeginOnly
<1>3. ASSUME NEW e \in Emails, RequestReset(r, e)
      PROVE  EntryTables' /\ EntryInv'
  <2>1. user[e].status # "none" /\ Begin(r, "code", e, <<"PASSWORD_RESET", 0>>)
        /\ UNCHANGED <<sessionVars, user, challenge, invite>>
    BY <1>3 DEF RequestReset
  <2> QED
    BY <1>0, <2>1, BeginOnly
<1>4. ASSUME NEW e \in Emails, GoogleSignIn(r, e)
      PROVE  EntryTables' /\ EntryInv'
  <2>1. PICK at \in {"session", "link", "create"} :
          /\ Begin(r, at, e, <<"google", 0>>)
          /\ UNCHANGED <<sessionVars, user, challenge, invite>>
          /\ at = "session" => user[e].google
    BY <1>4 DEF GoogleSignIn
  <2>2. at = "session" => user[e].verified
    BY <1>4, <2>1 DEF GoogleSignIn, EntryInv, UsersProved
  <2> QED
    BY <1>0, <2>1, <2>2, BeginOnly
<1>5. ASSUME NEW e \in Emails, Invite(r, e)
      PROVE  EntryTables' /\ EntryInv'
  <2>1. Begin(r, "invite", e, <<"invite", 0>>) /\ UNCHANGED <<sessionVars, user, challenge, invite>>
    BY <1>5 DEF Invite
  <2> QED
    BY <1>0, <2>1, BeginOnly
<1>6. ASSUME NEW c \in ChallengeIds, ResendCode(r, c)
      PROVE  EntryTables' /\ EntryInv'
  <2>1. PICK e \in Emails : e = challenge[c].of /\ user[e].status # "none"
    BY <1>6 DEF ResendCode, EntryInv, ChallengesKnown
  <2>2. Begin(r, "code", e, <<"LOGIN", 0>>) /\ UNCHANGED <<sessionVars, user, challenge, invite>>
    BY <1>6, <2>1 DEF ResendCode
  <2> QED
    BY <1>0, <2>1, <2>2, BeginOnly
<1>7. ASSUME NEW i \in InviteIds, Revoke(r, i) \/ Accept(r, i)
      PROVE  EntryTables' /\ EntryInv'
  <2>1. PICK e \in Emails : e = invite[i].email /\ invite[i].status # "none"
    BY <1>7 DEF Revoke, Accept, EntryInv, InvitesKnown
  <2>2. PICK at \in {"revoke", "accept"} :
          Begin(r, at, e, <<"invite", i>>) /\ UNCHANGED <<sessionVars, user, challenge, invite>>
    BY <1>7, <2>1 DEF Revoke, Accept
  <2> QED
    BY <1>0, <2>1, <2>2, BeginOnly
<1> QED
  BY <1>1, <1>2, <1>3, <1>4, <1>5, <1>6, <1>7

\* verifyEmail compares with an open code of its own user: among numbered
\* codes there is a newest one.
LEMMA VerifyTargetIsOpen ==
    ASSUME NEW e \in Emails, NEW c \in VerifyTarget(e)
    PROVE  c \in ChallengeIds /\ challenge[c].of = e /\ challenge[c].status = "open"
<1>1. PICK C \in SUBSET ChallengeIds : C = Open(e, Purposes)
  BY DEF Open
<1>2. C # {} /\ c = Newest(C)
  BY <1>1 DEF VerifyTarget
<1>3. \E m \in C : \A d \in C : d <= m
  <2>1. PICK U \in SUBSET Nat : U = {m \in Nat : \A d \in C : d <= m}
    OBVIOUS
  <2>2. \A d \in C : d \in Nat /\ d >= 1 /\ d <= MaxChallenges
    BY AccountBounds DEF ChallengeIds
  <2>3. MaxChallenges \in U
    BY <2>1, <2>2, AccountBounds
  <2>4. PICK m \in U : \A n \in U : m <= n
    BY <2>3, LeastNatural
  <2>5. m \in C
    <3> SUFFICES ASSUME m \notin C
                 PROVE  FALSE
      OBVIOUS
    <3>1. PICK d \in C : TRUE
      BY <1>2
    <3>2. m - 1 \in Nat
      BY <2>1, <2>2, <2>4, <3>1
    <3>3. \A f \in C : f <= m - 1
      BY <2>1, <2>2, <2>4
    <3> QED
      BY <2>1, <2>4, <3>2, <3>3
  <2> QED
    BY <2>1, <2>5
<1>4. c \in C
  BY <1>2, <1>3 DEF Newest
<1> QED
  BY <1>1, <1>4 DEF Open

\* The steps on codes and accounts that no request has to finish.
LEMMA TableSteps ==
    ASSUME EntryTables, EntryInv, UNCHANGED <<invite, req>>, UsersGrow, UsersProved', SessionsProved',
           user' \in [Emails -> UserRow],
           /\ challenge' \in [ChallengeIds -> ChallengeRow]
           /\ CodesGrow /\ ChallengesKnown' /\ OnePurpose',
           \A s \in SessionIds : session'[s].proof = session[s].proof
    PROVE  EntryTables' /\ EntryInv'
<1>1. InvitesGrow /\ InvitesKnown' /\ OneAccepted'
  BY Still
<1>2. \A r \in Requests : RequestKnows(r)'
  BY <1>1, RequestKept
<1>3. \A r \in Requests, x \in Spendable : Holds(r, x)' => Holds(r, x)
  BY DEF Holds
<1>4. \A x \in Spendable : HeldOnce(x)'
  BY <1>1, <1>3, HoldersKept
<1> QED
  BY <1>1, <1>2, <1>4 DEF EntryInv, EntryTables

LEMMA CodeSteps ==
    ASSUME EntryTables, EntryInv,
           \/ \E e \in Emails : Register(e) \/ VerifyEmailWrong(e) \/ ResendVerification(e) \/ Suspend(e)
           \/ \E c \in ChallengeIds : \/ VerifyCodeWrong(c) \/ CompleteResetWrong(c)
                                      \/ CooldownEnds(c) \/ CodeExpires(c)
    PROVE  EntryTables' /\ EntryInv'
<1>0. {"ACCOUNT_VERIFICATION", "LOGIN", "PASSWORD_RESET"} = Purposes
  BY DEF Purposes
<1>1. ASSUME NEW e \in Emails, Register(e)
      PROVE  EntryTables' /\ EntryInv'
  <2>1. user[e].status = "none" /\ ~user[e].verified
        /\ NewChallenge(e, "ACCOUNT_VERIFICATION", {}) /\ UNCHANGED <<session, invite, req>>
    BY <1>1 DEF Register, EntryInv, UsersProved, sessionVars
  <2>2. user' = [user EXCEPT ![e] = [status |-> "PENDING_VERIFICATION", verified |-> FALSE,
                                     password |-> 1, google |-> FALSE, role |-> "MEMBER"]]
    BY <1>1 DEF Register
  <2>3. [status |-> "PENDING_VERIFICATION", verified |-> FALSE, password |-> 1, google |-> FALSE,
         role |-> "MEMBER"] \in UserRow
    <3>1. 1 \in 0 .. MaxPasswords
      BY AccountBounds
    <3> QED
      BY <3>1 DEF UserRow
  <2>4. user' \in [Emails -> UserRow] /\ user'[e].status = "PENDING_VERIFICATION"
    BY <2>2, <2>3 DEF EntryTables
  <2>5. UsersGrow /\ UsersProved'
    BY <2>1, <2>2 DEF UsersGrow, EntryTables, EntryInv, UsersProved
  <2>6. /\ challenge' \in [ChallengeIds -> ChallengeRow]
        /\ CodesGrow /\ ChallengesKnown' /\ OnePurpose'
    BY <1>0, <2>1, <2>4, <2>5, NewCode
  <2> QED
    BY <2>1, <2>4, <2>5, <2>6, Still, TableSteps
<1>2. ASSUME NEW e \in Emails, ResendVerification(e)
      PROVE  EntryTables' /\ EntryInv'
  <2>1. user[e].status # "none" /\ NewChallenge(e, "ACCOUNT_VERIFICATION", Purposes)
        /\ UNCHANGED <<session, user, invite, req>>
    BY <1>2 DEF ResendVerification, sessionVars
  <2>2. UsersGrow
    BY <2>1, UsersStill
  <2>3. /\ challenge' \in [ChallengeIds -> ChallengeRow]
        /\ CodesGrow /\ ChallengesKnown' /\ OnePurpose'
    BY <1>0, <2>1, <2>2, NewCode
  <2> QED
    BY <2>1, <2>2, <2>3, Still, TableSteps DEF EntryTables
<1>3. ASSUME NEW e \in Emails, Suspend(e)
      PROVE  EntryTables' /\ EntryInv'
  <2>1. UNCHANGED <<session, challenge, invite, req>>
    BY <1>3 DEF Suspend, sessionVars
  <2>2. user' \in [Emails -> UserRow] /\ UsersGrow /\ UsersProved'
    BY <1>3 DEF Suspend, UsersGrow, EntryTables, EntryInv, UsersProved, UserRow
  <2> QED
    BY <2>1, <2>2, Still, TableSteps DEF EntryTables
<1>4. ASSUME NEW c \in ChallengeIds, WrongCode(c) \/ CooldownEnds(c) \/ CodeExpires(c)
      PROVE  EntryTables' /\ EntryInv'
  <2>1. UNCHANGED <<session, user, invite, req>>
    BY <1>4 DEF WrongCode, CooldownEnds, CodeExpires, sessionVars
  <2>2. UsersGrow
    BY <2>1, UsersStill
  <2>3. /\ challenge' \in [ChallengeIds -> ChallengeRow]
        /\ CodesGrow /\ ChallengesKnown' /\ OnePurpose'
    BY <1>4, <2>2, CodeAges
  <2> QED
    BY <2>1, <2>2, <2>3, Still, TableSteps DEF EntryTables
<1>5. ASSUME NEW e \in Emails, VerifyEmailWrong(e)
      PROVE  \E c \in ChallengeIds : WrongCode(c)
  <2>1. PICK c \in VerifyTarget(e) : WrongCode(c)
    BY <1>5 DEF VerifyEmailWrong
  <2>2. c \in ChallengeIds
    BY VerifyTargetIsOpen
  <2> QED
    BY <2>1, <2>2
<1> QED
  BY <1>1, <1>2, <1>3, <1>4, <1>5 DEF VerifyCodeWrong, CompleteResetWrong

\* completeReset: the code is spent, the account is proved, its sessions end.
LEMMA ResetStep ==
    ASSUME SessionTables, EntryTables, EntryInv, NEW c \in ChallengeIds, CompleteReset(c)
    PROVE  EntryTables' /\ EntryInv'
<1>1. PICK e \in Emails : e = challenge[c].of /\ challenge[c].status = "open"
  BY DEF CompleteReset, Redeemable, EntryInv, ChallengesKnown
<1>2. /\ Redeemable(c) /\ Consume(c) /\ EndSessions(e) /\ UNCHANGED <<invite, req>>
      /\ user[e].password < budget.passwords
      /\ user' = [user EXCEPT ![e].password = @ + 1, ![e].status = "ACTIVE", ![e].verified = TRUE]
  BY <1>1 DEF CompleteReset
<1>3. user[e].password + 1 \in 0 .. MaxPasswords /\ user[e] \in UserRow
  BY <1>2, AccountBounds DEF SessionTables, EntryTables, UserRow
<1>4. user' \in [Emails -> UserRow] /\ user'[e].status = "ACTIVE" /\ user'[e].verified
      /\ \A f \in Emails \ {e} : user'[f] = user[f]
  BY <1>2, <1>3 DEF EntryTables, UserRow
<1>5. UsersGrow /\ UsersProved'
  BY <1>4 DEF UsersGrow, EntryInv, UsersProved
<1>6. /\ challenge' \in [ChallengeIds -> ChallengeRow]
      /\ CodesGrow /\ ChallengesKnown' /\ OnePurpose'
  BY <1>2, <1>5, CodeSpent
<1>7. \A s \in SessionIds : /\ session'[s].status # "none" => session[s].status # "none"
                            /\ session'[s].user = session[s].user
                            /\ session'[s].proof = session[s].proof
  BY <1>2 DEF EndSessions, SessionTables, SessionRow
<1>8. SessionsProved'
  BY <1>5, <1>7, SessionsStayProved
<1> QED
  BY <1>2, <1>4, <1>5, <1>6, <1>7, <1>8, TableSteps

\* Steps on sessions leave their users and proofs alone.
LEMMA SessionSteps ==
    ASSUME SessionTables, ChainInv, EntryTables, EntryInv, SessionStep,
           UNCHANGED <<user, challenge, invite, req>>
    PROVE  EntryTables' /\ EntryInv'
<1>1. \A s \in SessionIds : /\ session'[s].status # "none" => session[s].status # "none"
                            /\ session'[s].user = session[s].user
                            /\ session'[s].proof = session[s].proof
  <2> DEFINE Same == \A s \in SessionIds : /\ session'[s].status # "none" => session[s].status # "none"
                                           /\ session'[s].user = session[s].user
                                           /\ session'[s].proof = session[s].proof
  <2>0. session \in [SessionIds -> SessionRow]
        /\ \A t \in TokenIds : Usable(t) => token[t].of \in SessionIds
    BY SessionBounds DEF SessionTables, TokenRow, SessionIds, Usable
  <2>1. ASSUME NEW t \in TokenIds, NEW delivered \in BOOLEAN, RefreshRotates(t, delivered)
        PROVE  Same
    <3>1. PICK s \in SessionIds, n \in TokenIds : session' = [session EXCEPT ![s].current = n]
      BY <2>0, <2>1 DEF RefreshRotates
    <3> QED
      BY <2>0, <3>1 DEF SessionRow
  <2>2. ASSUME NEW t \in TokenIds, RefreshReused(t)
        PROVE  Same
    <3>1. PICK s \in SessionIds : s = token[t].of
      BY <2>0, <2>2 DEF RefreshReused
    <3>2. session[s].status # "none"
      BY <3>1 DEF ChainInv, TokenLinked, SessionIds
    <3>3. session' = [session EXCEPT ![s].status = "COMPROMISED"]
      BY <2>2, <3>1 DEF RefreshReused
    <3> QED
      BY <2>0, <3>2, <3>3 DEF SessionRow
  <2>3. ASSUME NEW t \in TokenIds, RefreshEnded(t) \/ GraceEnds(t) \/ TokenExpires(t)
        PROVE  Same
    BY <2>3 DEF RefreshEnded, GraceEnds, TokenExpires
  <2>4. ASSUME NEW s \in SessionIds, RedeemHandoff(s) \/ LoseHandoff(s)
        PROVE  Same
    BY <2>4 DEF RedeemHandoff, LoseHandoff
  <2>5. ASSUME NEW S, RevokeSessions(S)
        PROVE  Same
    BY <2>0, <2>5 DEF RevokeSessions, SessionRow
  <2> HIDE DEF Same
  <2>6. Same
    BY <2>1, <2>2, <2>3, <2>4, <2>5 DEF SessionStep, SessionsNext, Logout, LogoutAll
  <2> QED
    BY <2>6 DEF Same
<1>2. UsersGrow
  BY UsersStill
<1>3. SessionsProved'
  BY <1>1, <1>2, SessionsStayProved
<1> QED
  BY <1>1, <1>2, <1>3, Still, TableSteps DEF EntryTables

\* Every code that can be spent, and every invitation, is its own proof.
LEMMA SpendableProofs ==
    /\ \A c \in ChallengeIds : <<"code", c>> \in Spendable /\ <<"code", c>> \in Proofs
    /\ \A i \in InviteIds : <<"invite", i>> \in Spendable /\ <<"invite", i>> \in Proofs
    /\ \A c \in ChallengeIds : Spent(<<"code", c>>) <=> challenge[c].status = "consumed"
    /\ \A i \in InviteIds : Spent(<<"invite", i>>) <=> invite[i].accepted
BY AccountBounds DEF Spendable, Proofs, Tags, ChallengeIds, InviteIds, Spent

\* verifyEmail and verifyCode spend the code and hold it.
LEMMA CodeEnters ==
    ASSUME EntryTables, EntryInv, NEW r \in Requests, NEW c \in ChallengeIds, NEW e \in Emails,
           NEW at \in {"session", "recheck"}, Redeemable(c), Consume(c),
           Begin(r, at, e, <<"code", c>>), UNCHANGED <<session, invite>>,
           user' \in [Emails -> UserRow], UsersGrow, UsersProved',
           at = "session" => user'[e].verified
    PROVE  EntryTables' /\ EntryInv'
<1>1. /\ challenge' \in [ChallengeIds -> ChallengeRow] /\ challenge'[c].status = "consumed"
      /\ challenge[c].status = "open"
      /\ CodesGrow /\ ChallengesKnown' /\ OnePurpose'
  BY CodeSpent
<1>2. at \in Steps /\ <<"code", c>> \in Proofs /\ <<"code", c>> \in Spendable
  BY SpendableProofs DEF Steps
<1>3. /\ req' \in [Requests -> EntryRow]
      /\ req'[r].at = at /\ req'[r].user = e /\ req'[r].proof = <<"code", c>>
      /\ \A q \in Requests \ {r} : req'[q] = req[q]
  BY <1>2, BeginRows
<1>4. RequestKnows(r)'
  BY <1>3 DEF RequestKnows
<1>5. InvitesGrow /\ InvitesKnown' /\ OneAccepted' /\ SessionsProved'
  BY Still
<1>6. /\ \A q \in Requests : RequestKnows(q)'
      /\ \A q \in Requests \ {r} : \A x \in Spendable : Holds(q, x)' => Holds(q, x)
  BY <1>3, <1>4, <1>5, OthersKept
<1>7. ~Spent(<<"code", c>>) /\ Spent(<<"code", c>>)'
  BY <1>1, SpendableProofs DEF Spent
<1>8. \A q \in Requests, x \in Spendable :
        Holds(q, x)' => Holds(q, x) \/ (q = r /\ x = <<"code", c>>)
  BY <1>3, <1>6 DEF Holds
<1>9. \A x \in Spendable : HeldOnce(x)'
  BY <1>1, <1>2, <1>5, <1>7, <1>8, HolderBegins
<1> QED
  BY <1>1, <1>3, <1>5, <1>6, <1>9 DEF EntryInv, EntryTables

LEMMA CodeEntrySteps ==
    ASSUME EntryTables, EntryInv, NEW r \in Requests,
           (\E e \in Emails : VerifyEmail(r, e)) \/ (\E c \in ChallengeIds : VerifyCode(r, c))
    PROVE  EntryTables' /\ EntryInv'
<1>1. ASSUME NEW e \in Emails, VerifyEmail(r, e)
      PROVE  EntryTables' /\ EntryInv'
  <2>1. PICK c \in VerifyTarget(e) :
          /\ Redeemable(c) /\ Consume(c) /\ Begin(r, "session", e, <<"code", c>>)
          /\ user' = [user EXCEPT ![e].status = "ACTIVE", ![e].verified = TRUE]
          /\ UNCHANGED <<sessionVars, invite>>
    BY <1>1 DEF VerifyEmail
  <2>2. c \in ChallengeIds
    BY VerifyTargetIsOpen
  <2>3. user' \in [Emails -> UserRow] /\ user'[e].status = "ACTIVE" /\ user'[e].verified
        /\ \A f \in Emails \ {e} : user'[f] = user[f]
    BY <2>1 DEF EntryTables, UserRow
  <2>4. UsersGrow /\ UsersProved'
    BY <2>3 DEF UsersGrow, EntryInv, UsersProved
  <2>5. UNCHANGED <<session, invite>>
    BY <2>1 DEF sessionVars
  <2> QED
    BY <2>1, <2>2, <2>3, <2>4, <2>5, CodeEnters
<1>2. ASSUME NEW c \in ChallengeIds, VerifyCode(r, c)
      PROVE  EntryTables' /\ EntryInv'
  <2>1. PICK e \in Emails : e = challenge[c].of
    BY <1>2 DEF VerifyCode, Redeemable, EntryInv, ChallengesKnown
  <2>2. /\ Redeemable(c) /\ Consume(c) /\ Begin(r, "recheck", e, <<"code", c>>)
        /\ UNCHANGED <<session, user, invite>>
    BY <1>2, <2>1 DEF VerifyCode, sessionVars
  <2>3. UsersGrow /\ UsersProved' /\ user' \in [Emails -> UserRow]
    BY <2>2, UsersStill, Still DEF EntryTables
  <2> QED
    BY <2>2, <2>3, CodeEnters
<1> QED
  BY <1>1, <1>2

\* A request that stops leaves the tables to the other lemmas.
LEMMA FinishSteps ==
    ASSUME EntryTables, EntryInv, NEW r \in Requests, Finish(r), UNCHANGED session,
           user' \in [Emails -> UserRow], UsersGrow, UsersProved',
           challenge' \in [ChallengeIds -> ChallengeRow], CodesGrow, ChallengesKnown', OnePurpose',
           invite' \in [InviteIds -> InviteRow], InvitesGrow, InvitesKnown', OneAccepted'
    PROVE  EntryTables' /\ EntryInv'
<1>1. /\ req' \in [Requests -> EntryRow]
      /\ \A q \in Requests : req'[q] = req[q] \/ req'[q] = Idle
      /\ \A q \in Requests, x \in Spendable : Holds(q, x)' => Holds(q, x)
  BY FinishRows
<1>2. \A q \in Requests : RequestKnows(q)'
  BY <1>1, RequestKept
<1>3. \A x \in Spendable : HeldOnce(x)'
  BY <1>1, HoldersKept
<1>4. SessionsProved'
  BY Still
<1> QED
  BY <1>1, <1>2, <1>3, <1>4 DEF EntryInv, EntryTables

\* A request that goes on to its session without spending anything.
LEMMA ContinueSteps ==
    ASSUME EntryTables, EntryInv, NEW r \in Requests, Continue(r, "session"),
           UNCHANGED <<session, challenge, invite>>,
           user' \in [Emails -> UserRow], UsersGrow, UsersProved',
           req[r].user \in Emails, user'[req[r].user].verified,
           \A x \in Spendable : req[r].proof = x => Holds(r, x)
    PROVE  EntryTables' /\ EntryInv'
<1>1. /\ req' \in [Requests -> EntryRow]
      /\ req'[r].at = "session" /\ req'[r].user = req[r].user /\ req'[r].proof = req[r].proof
      /\ \A q \in Requests \ {r} : req'[q] = req[q]
  BY ContinueRows DEF Steps
<1>2. RequestKnows(r)'
  BY <1>1 DEF RequestKnows
<1>3. /\ InvitesGrow /\ InvitesKnown' /\ OneAccepted' /\ SessionsProved'
      /\ CodesGrow /\ ChallengesKnown' /\ OnePurpose'
  BY Still
<1>4. /\ \A q \in Requests : RequestKnows(q)'
      /\ \A q \in Requests \ {r} : \A x \in Spendable : Holds(q, x)' => Holds(q, x)
  BY <1>1, <1>2, <1>3, OthersKept
<1>5. \A x \in Spendable : Holds(r, x)' => Holds(r, x)
  BY <1>1 DEF Holds
<1>6. \A x \in Spendable : HeldOnce(x)'
  BY <1>3, <1>4, <1>5, HoldersKept
<1> QED
  BY <1>1, <1>3, <1>4, <1>6 DEF EntryInv, EntryTables

\* The second half of staff sign-in, of a new code and of Google's sign-in.
LEMMA SecondSteps ==
    ASSUME EntryTables, EntryInv, NEW r \in Requests,
           Recheck(r) \/ IssueCode(r) \/ GoogleLink(r) \/ GoogleCreate(r)
    PROVE  EntryTables' /\ EntryInv'
<1>0. RequestKnows(r) /\ "session" \in Steps
  BY DEF EntryInv, Steps
<1>1. CASE Recheck(r)
  <2>1. UNCHANGED <<session, user, challenge, invite>> /\ req[r].user \in Emails
    BY <1>0, <1>1 DEF Recheck, sessionVars, RequestKnows
  <2>2. UsersGrow /\ UsersProved' /\ user' \in [Emails -> UserRow]
    BY <2>1, UsersStill, Still DEF EntryTables
  <2>3. CASE Eligible(req[r].user)
    <3>1. Continue(r, "session") /\ user[req[r].user].verified
      BY <1>1, <2>1, <2>3 DEF Recheck, Eligible, EntryInv, UsersProved
    <3>2. \A x \in Spendable : req[r].proof = x => Holds(r, x)
      BY <1>1 DEF Recheck, Holds
    <3> QED
      BY <2>1, <2>2, <3>1, <3>2, ContinueSteps
  <2>4. CASE ~Eligible(req[r].user)
    <3>1. Finish(r)
      BY <1>1, <2>4 DEF Recheck
    <3> QED
      BY <2>1, <2>2, <3>1, Still, FinishSteps DEF EntryTables
  <2> QED
    BY <2>3, <2>4
<1>2. CASE IssueCode(r)
  <2>1. PICK e \in Emails, purpose \in Purposes :
          /\ e = req[r].user /\ purpose = req[r].proof[1]
          /\ user[e].status # "none" /\ NewChallenge(e, purpose, {purpose})
    BY <1>0, <1>2 DEF IssueCode, RequestKnows, Purposes
  <2>2. Finish(r) /\ UNCHANGED <<session, user, invite>>
    BY <1>2 DEF IssueCode, sessionVars
  <2>3. UsersGrow /\ UsersProved' /\ user' \in [Emails -> UserRow]
    BY <2>2, UsersStill, Still DEF EntryTables
  <2>4. /\ challenge' \in [ChallengeIds -> ChallengeRow]
        /\ CodesGrow /\ ChallengesKnown' /\ OnePurpose'
    BY <2>1, <2>2, <2>3, NewCode
  <2> QED
    BY <2>2, <2>3, <2>4, Still, FinishSteps DEF EntryTables
<1>3. CASE GoogleLink(r)
  <2>1. PICK e \in Emails : e = req[r].user
    BY <1>0, <1>3 DEF GoogleLink, RequestKnows
  <2>2. UNCHANGED <<session, challenge, invite>> /\ req[r].proof[1] = "google"
    BY <1>0, <1>3 DEF GoogleLink, sessionVars, RequestKnows
  <2>3. CASE Finish(r) /\ UNCHANGED user
    BY <2>2, <2>3, UsersStill, Still, FinishSteps DEF EntryTables
  <2>4. CASE /\ user' = [user EXCEPT ![e].google = TRUE, ![e].status = "ACTIVE", ![e].verified = TRUE]
             /\ Continue(r, "session")
    <3>1. user' \in [Emails -> UserRow] /\ user'[e].status = "ACTIVE" /\ user'[e].verified
          /\ \A f \in Emails \ {e} : user'[f] = user[f]
      <4> DEFINE y == [user[e] EXCEPT !.google = TRUE, !.status = "ACTIVE", !.verified = TRUE]
      <4>1. user \in [Emails -> UserRow]
        BY DEF EntryTables
      <4>2. y \in UserRow /\ y.status = "ACTIVE" /\ y.verified
        BY <4>1 DEF UserRow
      <4>3. user' = [user EXCEPT ![e] = y]
        BY <2>4, <4>1
      <4> HIDE DEF y
      <4> QED
        BY <4>1, <4>2, <4>3
    <3>2. UsersGrow /\ UsersProved'
      BY <3>1 DEF UsersGrow, EntryInv, UsersProved
    <3>3. \A x \in Spendable : req[r].proof # x
      BY <2>2 DEF Spendable
    <3> QED
      BY <2>1, <2>2, <2>4, <3>1, <3>2, <3>3, ContinueSteps
  <2> QED
    BY <1>3, <2>1, <2>3, <2>4 DEF GoogleLink
<1>4. CASE GoogleCreate(r)
  <2>1. PICK e \in Emails : e = req[r].user
    BY <1>0, <1>4 DEF GoogleCreate, RequestKnows
  <2>2. UNCHANGED <<session, challenge, invite>> /\ req[r].proof[1] = "google"
    BY <1>0, <1>4 DEF GoogleCreate, sessionVars, RequestKnows
  <2>3. CASE Finish(r) /\ UNCHANGED user
    BY <2>2, <2>3, UsersStill, Still, FinishSteps DEF EntryTables
  <2>4. CASE /\ user' = [user EXCEPT ![e] = [status |-> "ACTIVE", verified |-> TRUE, password |-> 0,
                                             google |-> TRUE, role |-> "none"]]
             /\ Continue(r, "session")
    <3>0. 0 \in 0 .. MaxPasswords
      BY AccountBounds
    <3>1. user' \in [Emails -> UserRow] /\ user'[e].status = "ACTIVE" /\ user'[e].verified
          /\ \A f \in Emails \ {e} : user'[f] = user[f]
      BY <2>4, <3>0 DEF EntryTables, UserRow
    <3>2. UsersGrow /\ UsersProved'
      BY <3>1 DEF UsersGrow, EntryInv, UsersProved
    <3>3. \A x \in Spendable : req[r].proof # x
      BY <2>2 DEF Spendable
    <3> QED
      BY <2>1, <2>2, <2>4, <3>1, <3>2, <3>3, ContinueSteps
  <2> QED
    BY <1>4, <2>1, <2>3, <2>4 DEF GoogleCreate
<1> QED
  BY <1>1, <1>2, <1>3, <1>4

\* Sending, revoking and ageing an invitation accept nothing.
LEMMA InviteSteps ==
    ASSUME EntryTables, EntryInv,
           \/ \E r \in Requests : SendInvite(r) \/ WriteRevoked(r)
           \/ \E i \in InviteIds : InviteExpires(i)
    PROVE  EntryTables' /\ EntryInv'
<1>0. \A i \in InviteIds : /\ invite[i] \in InviteRow
                           /\ invite[i].accepted => invite[i].status \in {"ACCEPTED", "REVOKED"}
  BY DEF EntryTables, EntryInv, InvitesKnown
<1>1. ASSUME NEW r \in Requests, SendInvite(r)
      PROVE  EntryTables' /\ EntryInv'
  <2>1. PICK e \in Emails : e = req[r].user
    BY <1>1 DEF SendInvite, EntryInv, RequestKnows
  <2>2. Finish(r) /\ UNCHANGED <<session, user, challenge>>
    BY <1>1 DEF SendInvite, sessionVars
  <2>3. PICK i \in InviteIds :
          /\ invite[i].status = "none"
          /\ invite' = [j \in InviteIds |->
                IF j = i THEN [email |-> e, status |-> "PENDING", expired |-> FALSE, accepted |-> FALSE]
                ELSE IF invite[j].email = e /\ invite[j].status = "PENDING"
                     THEN [invite[j] EXCEPT !.status = "REVOKED"] ELSE invite[j]]
    BY <1>1, <2>1 DEF SendInvite
  <2>4. ASSUME NEW j \in InviteIds
        PROVE  /\ invite'[j] \in InviteRow
               /\ invite'[j].accepted => invite[j].accepted /\ invite'[j].status \in {"ACCEPTED", "REVOKED"}
               /\ invite[j].accepted => invite'[j].accepted
               /\ invite[j].status # "none" => /\ invite'[j].status # "none"
                                               /\ invite'[j].email = invite[j].email
               /\ invite[j].status = "none" => \/ invite'[j].status = "none"
                                               \/ invite'[j].email \in Emails
    <3>1. CASE j = i
      BY <1>0, <2>3, <3>1 DEF InviteRow
    <3>2. CASE j # i /\ invite[j].email = e /\ invite[j].status = "PENDING"
      <4>1. invite'[j] = [invite[j] EXCEPT !.status = "REVOKED"]
        BY <2>3, <3>2
      <4> QED
        BY <1>0, <3>2, <4>1 DEF InviteRow
    <3>3. CASE j # i /\ ~(invite[j].email = e /\ invite[j].status = "PENDING")
      <4>1. invite'[j] = invite[j]
        BY <2>3, <3>3
      <4> QED
        BY <1>0, <4>1
    <3> QED
      BY <3>1, <3>2, <3>3
  <2>5. invite' \in [InviteIds -> InviteRow]
    <3>1. invite' = [j \in InviteIds |-> invite'[j]]
      BY <2>3
    <3> QED
      BY <2>4, <3>1
  <2>6. UsersGrow
    BY <2>2, UsersStill
  <2>7. InvitesGrow /\ InvitesKnown' /\ OneAccepted'
    BY <2>4, <2>6, InvitesKept
  <2> QED
    BY <2>2, <2>5, <2>6, <2>7, Still, FinishSteps DEF EntryTables
<1>2. ASSUME NEW r \in Requests, WriteRevoked(r)
      PROVE  EntryTables' /\ EntryInv'
  <2>1. PICK i \in InviteIds : i = req[r].proof[2] /\ invite[i].status # "none"
    BY <1>2 DEF WriteRevoked, EntryInv, RequestKnows
  <2>2. Finish(r) /\ UNCHANGED <<session, user, challenge>>
        /\ invite' = [invite EXCEPT ![i].status = "REVOKED"]
    BY <1>2, <2>1 DEF WriteRevoked, sessionVars
  <2>3. invite' \in [InviteIds -> InviteRow]
    BY <2>2 DEF EntryTables, InviteRow
  <2>4. /\ invite'[i].status = "REVOKED" /\ invite'[i].email = invite[i].email
        /\ invite'[i].accepted <=> invite[i].accepted
        /\ \A j \in InviteIds \ {i} : invite'[j] = invite[j]
    BY <1>0, <2>2 DEF EntryTables, InviteRow
  <2>5. UsersGrow
    BY <2>2, UsersStill
  <2>6. InvitesGrow /\ InvitesKnown' /\ OneAccepted'
    BY <1>0, <2>1, <2>4, <2>5, InvitesKept
  <2> QED
    BY <2>2, <2>3, <2>5, <2>6, Still, FinishSteps DEF EntryTables
<1>3. ASSUME NEW i \in InviteIds, InviteExpires(i)
      PROVE  EntryTables' /\ EntryInv'
  <2>1. UNCHANGED <<session, user, challenge, req>> /\ invite' = [invite EXCEPT ![i].expired = TRUE]
    BY <1>3 DEF InviteExpires, sessionVars
  <2>2. invite' \in [InviteIds -> InviteRow]
    BY <2>1 DEF EntryTables, InviteRow
  <2>3. \A j \in InviteIds : /\ invite'[j].status = invite[j].status
                             /\ invite'[j].email = invite[j].email
                             /\ invite'[j].accepted <=> invite[j].accepted
    BY <1>0, <2>1 DEF EntryTables, InviteRow
  <2>4. UsersGrow
    BY <2>1, UsersStill
  <2>5. InvitesGrow /\ InvitesKnown' /\ OneAccepted'
    BY <1>0, <2>3, <2>4, InvitesKept DEF EntryInv, InvitesKnown
  <2>6. \A q \in Requests : RequestKnows(q)'
    BY <2>1, <2>4, <2>5, RequestKept
  <2>7. CodesGrow /\ ChallengesKnown' /\ OnePurpose' /\ SessionsProved' /\ UsersProved'
    BY <2>1, <2>4, Still
  <2>8. \A q \in Requests, x \in Spendable : Holds(q, x)' => Holds(q, x)
    BY <2>1 DEF Holds
  <2>9. \A x \in Spendable : HeldOnce(x)'
    BY <2>1, <2>5, <2>7, <2>8, HoldersKept
  <2> QED
    BY <2>1, <2>2, <2>5, <2>6, <2>7, <2>9 DEF EntryInv, EntryTables
<1> QED
  BY <1>1, <1>2, <1>3

\* accept: the transaction looks again, so the address has no account and no
\* accepted invitation, and this one has no holder.
LEMMA AcceptStep ==
    ASSUME EntryTables, EntryInv, NEW r \in Requests, AcceptInvite(r)
    PROVE  EntryTables' /\ EntryInv'
<1>1. PICK e \in Emails, i \in InviteIds :
        /\ e = req[r].user /\ i = req[r].proof[2] /\ req[r].proof[1] = "invite"
        /\ invite[i].email = e /\ req[r].at = "accept"
  BY DEF AcceptInvite, EntryInv, RequestKnows
<1>2. UNCHANGED <<session, challenge>> /\ req[r] \in EntryRow /\ invite[i] \in InviteRow
  BY DEF AcceptInvite, sessionVars, EntryTables
<1>3. req[r].proof = <<"invite", i>>
  BY <1>1, <1>2 DEF EntryRow, Proofs
<1>4. CASE Finish(r) /\ UNCHANGED <<user, invite>>
  BY <1>2, <1>4, UsersStill, Still, FinishSteps DEF EntryTables
<1>5. CASE /\ StillAcceptable(i)
           /\ user' = [user EXCEPT ![e] = [status |-> "ACTIVE", verified |-> TRUE, password |-> 1,
                                           google |-> FALSE, role |-> "STAFF"]]
           /\ invite' = [invite EXCEPT ![i].status = "ACCEPTED", ![i].accepted = TRUE]
           /\ Continue(r, "session")
  <2>0. 1 \in 0 .. MaxPasswords
    BY AccountBounds
  <2>1. user' \in [Emails -> UserRow] /\ user'[e].status = "ACTIVE" /\ user'[e].verified
        /\ \A f \in Emails \ {e} : user'[f] = user[f]
    BY <1>5, <2>0 DEF EntryTables, UserRow
  <2>2. UsersGrow /\ UsersProved'
    BY <2>1 DEF UsersGrow, EntryInv, UsersProved
  <2>3. user[e].status = "none" /\ invite[i].status = "PENDING" /\ ~invite[i].accepted
    BY <1>1, <1>5 DEF StillAcceptable, EntryInv, InvitesKnown
  <2>4. invite' \in [InviteIds -> InviteRow]
        /\ invite'[i].status = "ACCEPTED" /\ invite'[i].accepted /\ invite'[i].email = e
        /\ \A j \in InviteIds \ {i} : invite'[j] = invite[j]
    BY <1>1, <1>5 DEF EntryTables, InviteRow
  <2>5. \A j \in InviteIds : invite[j].accepted => invite[j].email # e
    BY <2>3 DEF EntryInv, InvitesKnown
  <2>6. InvitesGrow
    BY <1>1, <2>4 DEF InvitesGrow
  <2>7. InvitesKnown'
    <3> SUFFICES ASSUME NEW j \in InviteIds
                 PROVE  /\ invite'[j].status # "none" => invite'[j].email \in Emails
                        /\ invite'[j].accepted => /\ invite'[j].status \in {"ACCEPTED", "REVOKED"}
                                                  /\ user'[invite'[j].email].status # "none"
      BY DEF InvitesKnown
    <3>1. CASE j = i
      BY <2>1, <2>4, <3>1
    <3>2. CASE j # i
      <4>1. /\ invite[j].status # "none" => invite[j].email \in Emails
            /\ invite[j].accepted => /\ invite[j].status \in {"ACCEPTED", "REVOKED"}
                                     /\ user[invite[j].email].status # "none"
        BY DEF EntryInv, InvitesKnown
      <4> QED
        BY <2>2, <2>4, <3>2, <4>1 DEF UsersGrow
    <3> QED
      BY <3>1, <3>2
  <2>8. OneAccepted'
    BY <2>4, <2>5 DEF EntryInv, OneAccepted
  <2>9. CodesGrow /\ ChallengesKnown' /\ OnePurpose' /\ SessionsProved'
    BY <1>2, <2>2, Still
  <2>10. /\ req' \in [Requests -> EntryRow]
         /\ req'[r].at = "session" /\ req'[r].user = e /\ req'[r].proof = <<"invite", i>>
         /\ \A q \in Requests \ {r} : req'[q] = req[q]
    BY <1>1, <1>3, <1>5, ContinueRows DEF Steps
  <2>11. RequestKnows(r)'
    BY <2>1, <2>10 DEF RequestKnows
  <2>12. /\ \A q \in Requests : RequestKnows(q)'
         /\ \A q \in Requests \ {r} : \A x \in Spendable : Holds(q, x)' => Holds(q, x)
    BY <2>2, <2>6, <2>10, <2>11, OthersKept
  <2>13. ~Spent(<<"invite", i>>) /\ Spent(<<"invite", i>>)' /\ <<"invite", i>> \in Spendable
    BY <2>3, <2>4, SpendableProofs DEF Spent
  <2>14. \A q \in Requests, x \in Spendable :
           Holds(q, x)' => Holds(q, x) \/ (q = r /\ x = <<"invite", i>>)
    BY <2>10, <2>12 DEF Holds
  <2>15. \A s \in SessionIds : session'[s].proof = session[s].proof
    BY <1>2
  <2>16. \A x \in Spendable : HeldOnce(x)'
    BY <2>6, <2>9, <2>13, <2>14, <2>15, HolderBegins
  <2> QED
    BY <1>2, <2>1, <2>2, <2>4, <2>6, <2>7, <2>8, <2>9, <2>10, <2>12, <2>16
    DEF EntryInv, EntryTables
<1> QED
  BY <1>1, <1>4, <1>5 DEF AcceptInvite

\* The session takes the proof over from the request that ends.
LEMMA StartStep ==
    ASSUME SessionTables, ChainInv, EntryTables, EntryInv, NEW r \in Requests, StartSession(r)
    PROVE  SessionTables' /\ ChainInv' /\ EntryTables' /\ EntryInv'
<1>1. PICK mobile \in BOOLEAN : CreateSession(req[r].user, req[r].proof, mobile)
  BY DEF StartSession
<1>2. /\ req[r].at = "session" /\ req[r].user \in Emails /\ user[req[r].user].verified
      /\ req[r].proof \in Proofs
  BY DEF StartSession, EntryInv, RequestKnows, EntryTables, EntryRow
<1>3. SessionTables' /\ ChainInv'
  BY <1>1, <1>2, CreateTyped, CreateChains
<1>4. PICK y \in Proofs, u \in Emails, s \in SessionIds :
        /\ y = req[r].proof /\ u = req[r].user
        /\ session'[s].proof = y /\ session'[s].user = u
        /\ \A q \in SessionIds \ {s} : session'[q] = session[q]
  BY <1>1, <1>2 DEF CreateSession, SessionTables
<1>5. Finish(r) /\ UNCHANGED <<user, challenge, invite>>
  BY DEF StartSession
<1>6. UsersGrow
  BY <1>5, UsersStill
<1>7. /\ CodesGrow /\ ChallengesKnown' /\ OnePurpose'
      /\ InvitesGrow /\ InvitesKnown' /\ OneAccepted' /\ UsersProved'
  BY <1>5, <1>6, Still
<1>8. SessionsProved'
  BY <1>2, <1>4, <1>5 DEF EntryInv, SessionsProved
<1>9. /\ req' \in [Requests -> EntryRow]
      /\ \A q \in Requests : req'[q] = req[q] \/ req'[q] = Idle
      /\ \A q \in Requests, x \in Spendable : Holds(q, x)' => Holds(q, x)
      /\ \A x \in Spendable : ~Holds(r, x)'
  BY <1>5, FinishRows
<1>10. \A q \in Requests : RequestKnows(q)'
  BY <1>6, <1>7, <1>9, RequestKept
<1>11. ASSUME NEW x \in Spendable
       PROVE  HeldOnce(x)'
  <2>1. HeldOnce(x)
    BY DEF EntryInv
  <2>2. Spent(x)' <=> Spent(x)
    BY <1>5 DEF Spent
  <2>3. CASE x = y
    <3>1. Holds(r, x)
      BY <1>2, <1>4, <2>3 DEF Holds
    <3>2. /\ \A q \in SessionIds : session[q].proof # x
          /\ \A q \in Requests : Holds(q, x) => q = r
          /\ Spent(x)
      BY <2>1, <3>1 DEF HeldOnce
    <3>3. /\ \A q \in Requests : ~Holds(q, x)'
          /\ \A q \in SessionIds : session'[q].proof = x => q = s
      BY <1>4, <1>9, <3>2
    <3> QED
      BY <2>2, <3>2, <3>3 DEF HeldOnce
  <2>4. CASE x # y
    <3>1. \A q \in SessionIds : session'[q].proof = x => session[q].proof = x
      BY <1>4, <2>4
    <3> QED
      BY <1>9, <2>1, <2>2, <3>1 DEF HeldOnce
  <2> QED
    BY <2>3, <2>4
<1> QED
  BY <1>3, <1>5, <1>7, <1>8, <1>9, <1>10, <1>11 DEF EntryInv, EntryTables

(***************************************************************************)
(* The theorems about Accounts.                                            *)
(***************************************************************************)
AccountsInv == SessionTables /\ ChainInv /\ EntryTables /\ EntryInv

LEMMA AccountsStart == AccountsInit => AccountsInv
<1> SUFFICES ASSUME AccountsInit
             PROVE  AccountsInv
  OBVIOUS
<1>0. 0 \in 0 .. MaxTokens /\ 0 \in 0 .. MaxSessions /\ 0 \in 0 .. MaxPasswords /\ 0 \in 0 .. MaxAttempts
  BY SessionBounds, AccountBounds
<1>a. <<"none", 0>> \in Proofs
  BY DEF Proofs, Tags
<1>1. SessionTables
  BY <1>0, <1>a DEF AccountsInit, SessionsInit, SessionTables, NoSession, NoToken, SessionRow, TokenRow
<1>2. /\ \A s \in SessionIds : SessionLinked(s)
      /\ \A t \in TokenIds : TokenLinked(t)
      /\ \A s \in SessionIds : Current(s)
      /\ \A s \in SessionIds : GoesOn(s)
  BY DEF AccountsInit, SessionsInit, NoSession, NoToken, SessionLinked, TokenLinked, Current, GoesOn
<1>3. EntryTables
  <2>1. NoUser \in UserRow
    BY <1>0 DEF NoUser, UserRow
  <2>2. NoChallenge \in ChallengeRow
    BY <1>0 DEF NoChallenge, ChallengeRow, Purposes
  <2>3. NoInvite \in InviteRow
    BY DEF NoInvite, InviteRow
  <2>4. Idle \in EntryRow
    BY <1>a DEF Idle, EntryRow, Steps
  <2> QED
    BY <2>1, <2>2, <2>3, <2>4 DEF AccountsInit, EntryTables
<1>4. UsersProved /\ SessionsProved /\ ChallengesKnown /\ OnePurpose /\ InvitesKnown /\ OneAccepted
  BY DEF AccountsInit, SessionsInit, NoUser, NoSession, NoChallenge, NoInvite, UsersProved,
         SessionsProved, ChallengesKnown, OnePurpose, InvitesKnown, OneAccepted
<1>5. \A r \in Requests : RequestKnows(r)
  BY DEF AccountsInit, Idle, RequestKnows
<1>6. \A x \in Spendable : HeldOnce(x)
  <2>1. \A x \in Spendable : x # <<"none", 0>>
    BY DEF Spendable
  <2>2. \A s \in SessionIds : session[s].proof = <<"none", 0>>
    BY DEF AccountsInit, SessionsInit, NoSession
  <2>3. \A r \in Requests : req[r].at = "idle"
    BY DEF AccountsInit, Idle
  <2> QED
    BY <2>1, <2>2, <2>3 DEF HeldOnce, Holds
<1> QED
  BY <1>1, <1>2, <1>3, <1>4, <1>5, <1>6 DEF AccountsInv, ChainInv, EntryInv

LEMMA AccountsStep == AccountsInv /\ [AccountsNext]_accountVars => AccountsInv'
<1> SUFFICES ASSUME AccountsInv, [AccountsNext]_accountVars
             PROVE  AccountsInv'
  OBVIOUS
<1>0. SessionTables /\ ChainInv /\ EntryTables /\ EntryInv
  BY DEF AccountsInv
<1>a. UNCHANGED sessionVars => SessionTables' /\ ChainInv'
  BY <1>0 DEF sessionVars, SessionTables, ChainInv, SessionLinked, TokenLinked, Current, GoesOn, Undelivered
<1>1. CASE SessionStep /\ UNCHANGED <<user, challenge, invite, req>>
  <2>1. SessionTables' /\ ChainInv'
    BY <1>0, <1>1, SessionStepTyped, SessionStepChains DEF ChainInv
  <2> QED
    BY <1>0, <1>1, <2>1, SessionSteps DEF AccountsInv
<1>2. CASE \/ \E e \in Emails : Register(e) \/ VerifyEmailWrong(e) \/ ResendVerification(e) \/ Suspend(e)
           \/ \E c \in ChallengeIds : \/ VerifyCodeWrong(c) \/ CompleteResetWrong(c)
                                      \/ CooldownEnds(c) \/ CodeExpires(c)
  <2>1. UNCHANGED sessionVars
    BY <1>2 DEF Register, VerifyEmailWrong, ResendVerification, Suspend, VerifyCodeWrong,
                CompleteResetWrong, CooldownEnds, CodeExpires, WrongCode
  <2> QED
    BY <1>0, <1>a, <1>2, <2>1, CodeSteps DEF AccountsInv
<1>3. CASE \E c \in ChallengeIds : CompleteReset(c)
  <2>1. PICK c \in ChallengeIds : CompleteReset(c)
    BY <1>3
  <2>2. SessionTables' /\ ChainInv'
    BY <1>0, <2>1, EndTyped, EndChains DEF CompleteReset
  <2> QED
    BY <1>0, <2>1, <2>2, ResetStep DEF AccountsInv
<1>4. CASE \/ \E r \in Requests : SendInvite(r) \/ WriteRevoked(r)
           \/ \E i \in InviteIds : InviteExpires(i)
  <2>1. UNCHANGED sessionVars
    BY <1>4 DEF SendInvite, WriteRevoked, InviteExpires
  <2> QED
    BY <1>0, <1>a, <1>4, <2>1, InviteSteps DEF AccountsInv
<1>5. ASSUME NEW r \in Requests,
             \/ \E e \in Emails : \/ Login(r, e) \/ RequestCode(r, e) \/ RequestReset(r, e)
                                  \/ GoogleSignIn(r, e) \/ Invite(r, e)
             \/ \E c \in ChallengeIds : ResendCode(r, c)
             \/ \E i \in InviteIds : Revoke(r, i) \/ Accept(r, i)
      PROVE  AccountsInv'
  <2>1. UNCHANGED sessionVars
    BY <1>5 DEF Login, RequestCode, RequestReset, GoogleSignIn, Invite, ResendCode, Revoke, Accept
  <2>2. EntryTables' /\ EntryInv'
    BY <1>0, <1>5, BeginSteps
  <2> QED
    BY <1>a, <2>1, <2>2 DEF AccountsInv
<1>6. ASSUME NEW r \in Requests,
             (\E e \in Emails : VerifyEmail(r, e)) \/ (\E c \in ChallengeIds : VerifyCode(r, c))
      PROVE  AccountsInv'
  <2>1. UNCHANGED sessionVars
    BY <1>6 DEF VerifyEmail, VerifyCode
  <2>2. EntryTables' /\ EntryInv'
    BY <1>0, <1>6, CodeEntrySteps
  <2> QED
    BY <1>a, <2>1, <2>2 DEF AccountsInv
<1>7. ASSUME NEW r \in Requests, StartSession(r)
      PROVE  AccountsInv'
  BY <1>0, <1>7, StartStep DEF AccountsInv
<1>8. ASSUME NEW r \in Requests, Recheck(r) \/ IssueCode(r) \/ GoogleLink(r) \/ GoogleCreate(r)
      PROVE  AccountsInv'
  <2>1. UNCHANGED sessionVars
    BY <1>8 DEF Recheck, IssueCode, GoogleLink, GoogleCreate
  <2> QED
    BY <1>0, <1>a, <1>8, <2>1, SecondSteps DEF AccountsInv
<1>9. ASSUME NEW r \in Requests, AcceptInvite(r)
      PROVE  AccountsInv'
  <2>1. UNCHANGED sessionVars
    BY <1>9 DEF AcceptInvite
  <2> QED
    BY <1>0, <1>a, <1>9, <2>1, AcceptStep DEF AccountsInv
<1>10. CASE UNCHANGED accountVars
  <2>1. UNCHANGED sessionVars
    BY <1>10 DEF accountVars, sessionVars
  <2>2. EntryTables' /\ UsersGrow /\ UNCHANGED <<session, user, challenge, invite, req>>
    BY <1>0, <1>10 DEF accountVars, EntryTables, UsersGrow
  <2>3. SessionsProved' /\ UsersProved' /\ CodesGrow /\ ChallengesKnown' /\ OnePurpose'
    BY <1>0, <2>2, Still
  <2> QED
    BY <1>0, <1>a, <2>1, <2>2, <2>3, TableSteps DEF AccountsInv, EntryTables
<1> QED
  BY <1>1, <1>2, <1>3, <1>4, <1>5, <1>6, <1>7, <1>8, <1>9, <1>10 DEF AccountsNext

\* The inductive invariant of accounts and sessions, for every number of
\* addresses, requests, sessions, tokens, codes and invitations.
THEOREM AccountsInvariantHolds == AccountsSpec => []AccountsInv
<1> QED
  BY AccountsStart, AccountsStep, PTL DEF AccountsSpec

\* Type correctness of the account and session tables.
THEOREM AccountsAreTyped == AccountsSpec => []AccountsOK
<1>1. AccountsInv => AccountsOK
  BY DEF AccountsInv, SessionTables, EntryTables, AccountsOK, SessionsOK, SessionRow, TokenRow,
         UserRow, ChallengeRow, InviteRow, EntryRow
<1> QED
  BY <1>1, AccountsInvariantHolds, PTL

\* refresh never forks the chain: an ACTIVE session has exactly one token that
\* still works, its current one, however many rotations it went through.
THEOREM ChainNeverForks == AccountsSpec => []OneChain
<1>1. AccountsInv => OneChain
  <2> SUFFICES ASSUME AccountsInv, NEW s \in SessionIds, session[s].status = "ACTIVE"
               PROVE  {t \in TokenIds : token[t].of = s /\ ~token[t].consumed /\ ~token[t].revoked}
                        = {session[s].current}
    BY DEF OneChain
  <2>1. session[s].current \in TokenIds /\ token[session[s].current].of = s
    BY DEF AccountsInv, ChainInv, SessionLinked
  <2> QED
    BY <2>1 DEF AccountsInv, ChainInv, Current
<1> QED
  BY <1>1, AccountsInvariantHolds, PTL

\* A client that presents the last token it received is never taken for a
\* thief: undeliveredReplacement covers every response that was lost.
THEOREM ClientsGoOn == AccountsSpec => []ClientCanGoOn
<1>1. AccountsInv => ClientCanGoOn
  BY DEF AccountsInv, ChainInv, GoesOn, ClientCanGoOn
<1> QED
  BY <1>1, AccountsInvariantHolds, PTL

\* A set whose elements are all equal has at most one.
LEMMA AtMostOne ==
    ASSUME NEW S, \A a, b \in S : a = b
    PROVE  IF S = {} THEN Cardinality(S) = 0 ELSE Cardinality(S) = 1
<1>1. CASE S = {}
  BY <1>1, FS_EmptySet
<1>2. CASE S # {}
  <2>1. PICK a : S = {a}
    BY <1>2
  <2> QED
    BY <1>2, <2>1, FS_Singleton
<1> QED
  BY <1>1, <1>2

\* A user never has two open codes of one purpose.
THEOREM OneCodeIsOpen == AccountsSpec => []OneOpenChallenge
<1>1. AccountsInv => OneOpenChallenge
  <2> SUFFICES ASSUME AccountsInv, NEW e \in Emails, NEW p \in Purposes
               PROVE  Cardinality(Open(e, {p})) <= 1
    BY DEF OneOpenChallenge
  <2>1. \A c, d \in Open(e, {p}) : c = d
    BY DEF AccountsInv, EntryInv, OnePurpose, Open
  <2>2. Cardinality(Open(e, {p})) \in {0, 1}
    BY <2>1, AtMostOne
  <2> QED
    BY <2>2
<1> QED
  BY <1>1, AccountsInvariantHolds, PTL

\* A one-time code or invitation opens one session at most, and an address is
\* invited into one account, however many requests race for it.
THEOREM ProofsAreSpentOnce == AccountsSpec => []ProofSpentOnce
<1>1. AccountsInv => ProofSpentOnce
  <2> SUFFICES ASSUME AccountsInv
               PROVE  ProofSpentOnce
    OBVIOUS
  <2>1. ASSUME NEW x \in Spendable
        PROVE  Cardinality({s \in SessionIds : session[s].proof = x})
               + Cardinality({r \in Requests : req[r].at \in {"recheck", "session"}
                                               /\ req[r].proof = x}) <= 1
    <3> DEFINE A == {s \in SessionIds : session[s].proof = x}
               B == {r \in Requests : req[r].at \in {"recheck", "session"} /\ req[r].proof = x}
    <3>1. (\A a, b \in A : a = b) /\ (\A a, b \in B : a = b) /\ (A = {} \/ B = {})
      BY DEF AccountsInv, EntryInv, HeldOnce, Holds
    <3>2. Cardinality(A) = (IF A = {} THEN 0 ELSE 1) /\ Cardinality(B) = (IF B = {} THEN 0 ELSE 1)
      <4> HIDE DEF A, B
      <4> QED
        BY <3>1, AtMostOne
    <3> HIDE DEF A, B
    <3>3. Cardinality(A) + Cardinality(B) <= 1
      BY <3>1, <3>2
    <3> QED
      BY <3>3 DEF A, B
  <2>2. ASSUME NEW e \in Emails
        PROVE  Cardinality({i \in InviteIds : invite[i].email = e /\ invite[i].accepted}) <= 1
    <3> DEFINE I == {i \in InviteIds : invite[i].email = e /\ invite[i].accepted}
    <3>1. \A i, j \in I : i = j
      BY DEF AccountsInv, EntryInv, OneAccepted
    <3> HIDE DEF I
    <3>2. Cardinality(I) \in {0, 1}
      BY <3>1, AtMostOne
    <3>3. Cardinality(I) <= 1
      BY <3>2
    <3> QED
      BY <3>3 DEF I
  <2> QED
    BY <2>1, <2>2, SpendableProofs DEF ProofSpentOnce
<1> QED
  BY <1>1, AccountsInvariantHolds, PTL

\* Every session belongs to an account whose mailbox was proved.
THEOREM SessionsStayVerified == AccountsSpec => []SessionsAreVerified
<1>1. AccountsInv => SessionsAreVerified
  BY DEF AccountsInv, EntryInv, SessionsProved, SessionsAreVerified
<1> QED
  BY <1>1, AccountsInvariantHolds, PTL

-----------------------------------------------------------------------------
(* Part 3: the fee a bill carries, for every rule and every amount.        *)

Tier == [from: Int, to: Int, amount: Int]

\* The bands in another order, by their start, without gap or overlap.
Arranged(tiers, ordered, order) ==
    /\ Len(ordered) = Len(tiers) /\ Len(tiers) >= 1
    /\ \A i \in DOMAIN tiers : ordered[i] = tiers[order[i]]
    /\ \A k \in DOMAIN tiers : \E i \in DOMAIN tiers : order[i] = k
    /\ \A i, j \in DOMAIN tiers : order[i] = order[j] => i = j
    /\ \A i, j \in 1 .. Len(tiers) : i < j => ordered[i].from <= ordered[j].from
    /\ Abut(ordered)

\* What assertTiersPartitionRange accepts can be laid out from zero upwards.
LEMMA TiersInOrder ==
    ASSUME NEW tiers \in Seq(Tier), TiersPartitionRange(tiers)
    PROVE  \E ordered \in Seq(Tier), order \in [DOMAIN tiers -> DOMAIN tiers] :
            Arranged(tiers, ordered, order)
<1>1. PICK order \in Bijection(DOMAIN tiers, DOMAIN tiers) :
        InOrder(tiers, order) /\ Abut([i \in DOMAIN tiers |-> tiers[order[i]]])
  BY DEF TiersPartitionRange
<1>2. /\ order \in [DOMAIN tiers -> DOMAIN tiers]
      /\ \A k \in DOMAIN tiers : \E i \in DOMAIN tiers : order[i] = k
      /\ \A i, j \in DOMAIN tiers : order[i] = order[j] => i = j
  BY <1>1 DEF Bijection, Injection, Surjection, IsInjective
<1> DEFINE ordered == [i \in DOMAIN tiers |-> tiers[order[i]]]
<1>3. DOMAIN tiers = 1 .. Len(tiers) /\ Len(tiers) \in Nat /\ tiers # <<>>
  BY DEF TiersPartitionRange
<1>4. \A i \in 1 .. Len(tiers) : tiers[i] \in Tier
  OBVIOUS
<1>5. ordered \in Seq(Tier) /\ Len(ordered) = Len(tiers)
  BY <1>2, <1>3, <1>4
<1>6. Len(tiers) >= 1
  BY <1>3
<1>7. ASSUME NEW i \in 1 .. Len(tiers), NEW j \in 1 .. Len(tiers), i < j
      PROVE  ordered[i].from <= ordered[j].from
  <2>1. tiers[order[i]] \in Tier /\ tiers[order[j]] \in Tier
    BY <1>2, <1>3, <1>4
  <2>2. tiers[order[i]].from \in Int /\ tiers[order[j]].from \in Int
    BY <2>1 DEF Tier
  <2>3. \/ tiers[order[i]].from < tiers[order[j]].from
        \/ tiers[order[i]].from = tiers[order[j]].from
    BY <1>1, <1>3, <1>7 DEF InOrder
  <2> QED
    BY <1>3, <2>2, <2>3
<1>8. \A i \in DOMAIN tiers : ordered[i] = tiers[order[i]]
  OBVIOUS
<1>9. Abut(ordered)
  BY <1>1
<1> HIDE DEF ordered
<1> QED
  BY <1>2, <1>3, <1>5, <1>6, <1>7, <1>8, <1>9 DEF Arranged

\* assertTiersPartitionRange: bands it accepts, however many and in whatever order
\* the rows come, cover every amount exactly once. No amount is without a fee,
\* and the fee does not depend on the order of the rows.
THEOREM BandsPartitionRange ==
    ASSUME NEW tiers \in Seq(Tier), TiersPartitionRange(tiers), NEW base \in Nat
    PROVE  \E k \in DOMAIN tiers : \A j \in DOMAIN tiers : Covers(tiers[j], base) <=> j = k
<1>1. PICK ordered \in Seq(Tier), order \in [DOMAIN tiers -> DOMAIN tiers] :
            Arranged(tiers, ordered, order)
  BY TiersInOrder
<1>2. /\ Len(ordered) = Len(tiers) /\ Len(tiers) >= 1
      /\ \A i \in DOMAIN tiers : ordered[i] = tiers[order[i]]
      /\ \A k \in DOMAIN tiers : \E i \in DOMAIN tiers : order[i] = k
      /\ \A i, j \in DOMAIN tiers : order[i] = order[j] => i = j
      /\ \A i, j \in 1 .. Len(tiers) : i < j => ordered[i].from <= ordered[j].from
      /\ Abut(ordered)
  BY <1>1 DEF Arranged
<1> DEFINE n == Len(tiers)
           Later == {m \in Nat : m = n + 1 \/ (m \in 1 .. n /\ ordered[m].from > base)}
<1>3. n \in Nat /\ DOMAIN tiers = 1 .. n /\ n >= 1
  BY <1>2
<1>4. \A i \in 1 .. n : ordered[i].from \in Int /\ ordered[i].to \in Int
  <2>1. \A i \in 1 .. Len(ordered) : ordered[i] \in Tier
    OBVIOUS
  <2>2. \A x \in Tier : x.from \in Int /\ x.to \in Int
    BY DEF Tier
  <2> QED
    BY <1>2, <2>1, <2>2
<1> HIDE DEF n
<1>5. PICK m \in Later : \A l \in Later : m <= l
  <2>1. Later \subseteq Nat /\ n + 1 \in Later
    BY <1>3
  <2> QED
    BY <2>1, LeastNatural
<1>6. /\ ordered[1].from = 0 /\ ordered[n].to = NoLimit
      /\ \A i \in 1 .. n - 1 : ordered[i].to = ordered[i + 1].from
  BY <1>2 DEF Abut, n
<1>7. m # 0 /\ m # 1
  <2>1. 0 \notin Later
    BY <1>3
  <2>2. ~(ordered[1].from > base) /\ 1 # n + 1
    BY <1>3, <1>6
  <2> QED
    BY <1>5, <2>1, <2>2
<1>8. m - 1 \in 1 .. n /\ m - 1 \notin Later
  BY <1>3, <1>5, <1>7
<1>9. ordered[m - 1].from <= base
  BY <1>4, <1>8
<1>10. \A i \in 1 .. n : i >= m => ordered[i].from > base
  <2> TAKE i \in 1 .. n
  <2> HAVE i >= m
  <2>1. m \in 1 .. n /\ ordered[m].from > base
    BY <1>3, <1>5
  <2> QED
    BY <1>2, <1>4, <2>1 DEF n
<1>11. \A i \in 1 .. n - 1 : ordered[i].to >= 0
  <2> TAKE i \in 1 .. n - 1
  <2>1. i + 1 \in 1 .. n /\ 1 \in 1 .. n /\ 1 < i + 1
    BY <1>3
  <2>2. ordered[1].from <= ordered[i + 1].from
    BY <1>2, <2>1 DEF n
  <2> QED
    BY <1>4, <1>6, <2>1, <2>2
<1>12. ASSUME NEW i \in 1 .. n PROVE Covers(ordered[i], base) <=> i = m - 1
  <2>1. CASE i = n
    <3>1. Covers(ordered[i], base) <=> base >= ordered[i].from
      BY <1>6, <2>1 DEF Covers
    <3>2. CASE i = m - 1
      BY <1>4, <1>9, <3>1, <3>2
    <3>3. CASE i # m - 1
      <4>1. i >= m
        BY <1>3, <1>5, <1>8, <2>1, <3>3
      <4> QED
        BY <1>4, <1>8, <1>10, <3>1, <3>3, <4>1
    <3> QED
      BY <3>2, <3>3
  <2>2. CASE i # n
    <3>1. i \in 1 .. n - 1 /\ i + 1 \in 1 .. n
      BY <1>3, <2>2
    <3>2. Covers(ordered[i], base) <=> base >= ordered[i].from /\ base < ordered[i + 1].from
      BY <1>6, <1>11, <3>1 DEF Covers, NoLimit
    <3>3. CASE i = m - 1
      BY <1>4, <1>5, <1>9, <1>10, <3>1, <3>2, <3>3
    <3>4. CASE i >= m
      BY <1>4, <1>10, <3>2, <3>4
    <3>5. CASE i < m - 1
      <4>1. i + 1 \notin Later
        BY <1>5, <3>1, <3>5
      <4> QED
        BY <1>4, <3>1, <3>2, <3>5, <4>1
    <3> QED
      BY <1>5, <3>3, <3>4, <3>5
  <2> QED
    BY <2>1, <2>2
<1>13. ASSUME NEW j \in DOMAIN tiers PROVE Covers(tiers[j], base) <=> j = order[m - 1]
  <2>1. PICK i \in 1 .. n : order[i] = j
    BY <1>2, <1>3
  <2>2. Covers(tiers[j], base) <=> i = m - 1
    BY <1>2, <1>3, <1>12, <2>1
  <2>3. i = m - 1 <=> order[i] = order[m - 1]
    BY <1>2, <1>3, <1>8, <2>1
  <2> QED
    BY <2>1, <2>2, <2>3
<1>14. order[m - 1] \in DOMAIN tiers
  BY <1>3, <1>8
<1> QED
  BY <1>13, <1>14

\* The band that is found is one assertTiersPartitionRange has looked at, or the
\* open-ended one.
LEMMA BandNotNegative ==
    ASSUME NEW tiers \in Seq(Tier), TiersPartitionRange(tiers), NEW k \in DOMAIN tiers,
           tiers[k].to = NoLimit => tiers[k].amount >= 0
    PROVE  tiers[k].amount \in Nat
<1>1. PICK ordered \in Seq(Tier), order \in [DOMAIN tiers -> DOMAIN tiers] :
            Arranged(tiers, ordered, order)
  BY TiersInOrder
<1>2. Abut(ordered) /\ Len(ordered) = Len(tiers)
  BY <1>1 DEF Arranged
<1>3. PICK i \in DOMAIN tiers : ordered[i] = tiers[k]
  BY <1>1 DEF Arranged
<1>4. Len(ordered) \in Nat /\ DOMAIN tiers = 1 .. Len(ordered)
  BY <1>2
<1>5. tiers[k].amount \in Int
  <2>1. tiers[k] \in Tier
    OBVIOUS
  <2> QED
    BY <2>1 DEF Tier
<1>6. CASE i = Len(ordered)
  BY <1>2, <1>3, <1>5, <1>6 DEF Abut
<1>7. CASE i # Len(ordered)
  <2>1. i \in 1 .. Len(ordered) - 1
    BY <1>3, <1>4, <1>7
  <2> QED
    BY <1>2, <1>3, <1>5, <2>1 DEF Abut
<1> QED
  BY <1>6, <1>7

\* assessVersionedFee: a tiered fee that no maximum cuts is never below the
\* provider's cost nor below its own percentage, for every amount. The loop leaves
\* before it looks at the markup of the open-ended band, so that one is assumed
\* not to be negative.
THEOREM FeeCoversCost ==
    ASSUME NEW rule, NEW base \in Nat, rule.type = "TIERED", rule.tiers \in Seq(Tier),
           rule.providerRate \in Nat, rule.providerFlat \in Nat, rule.basisPoints \in Nat,
           rule.minimum \in Int, rule.maximum = NoLimit,
           TiersPartitionRange(rule.tiers),
           \A i \in DOMAIN rule.tiers : rule.tiers[i].to = NoLimit => rule.tiers[i].amount >= 0
    PROVE  /\ AssessVersionedFee(rule, base) >= ProviderCost(rule, base)
           /\ AssessVersionedFee(rule, base) >= PercentageOf(base, rule.basisPoints)
<1>1. PICK k \in DOMAIN rule.tiers :
        \A j \in DOMAIN rule.tiers : Covers(rule.tiers[j], base) <=> j = k
  BY BandsPartitionRange
<1>2. TierFor(rule.tiers, base) = rule.tiers[k]
  <2> DEFINE covering == {i \in DOMAIN rule.tiers : Covers(rule.tiers[i], base)}
  <2>1. covering = {k} /\ k \in Nat
    BY <1>1
  <2>2. (CHOOSE i \in covering : \A j \in covering : i <= j) = k
    BY <2>1
  <2> QED
    BY <2>2 DEF TierFor
<1>3. rule.tiers[k].amount \in Nat
  BY <1>1, BandNotNegative
<1> DEFINE cost == ProviderCost(rule, base)
           share == PercentageOf(base, rule.basisPoints)
           fee == Limited(rule, Raw(rule, base))
<1>4. cost \in Nat /\ share \in Nat
  <2>1. \A bp \in Nat : (base * bp) \in Nat
    OBVIOUS
  <2>2. \A x \in Nat : (x \div 10000) \in Nat
    OBVIOUS
  <2>3. \A bp \in Nat : PercentageOf(base, bp) \in Nat
    BY <2>1, <2>2 DEF PercentageOf
  <2>4. PercentageOf(base, rule.providerRate) \in Nat /\ share \in Nat
    BY <2>3
  <2> HIDE DEF share
  <2> QED
    BY <2>4 DEF ProviderCost
<1> HIDE DEF cost, share
<1>5. Raw(rule, base) = IF cost + rule.tiers[k].amount > share THEN cost + rule.tiers[k].amount ELSE share
  BY <1>2 DEF Raw, cost, share
<1>6. fee >= cost /\ fee >= share /\ fee \in Int
  <2> DEFINE raw == Raw(rule, base)
  <2>1. raw >= cost /\ raw >= share /\ raw \in Int
    BY <1>3, <1>4, <1>5
  <2> HIDE DEF raw
  <2>2. fee = IF rule.minimum # NoLimit /\ raw < rule.minimum THEN rule.minimum ELSE raw
    BY DEF Limited, raw
  <2> HIDE DEF fee
  <2> QED
    BY <1>4, <2>1, <2>2
<1>7. AssessVersionedFee(rule, base) = fee
  <2> HIDE DEF fee
  <2>1. ~(fee < 0)
    BY <1>4, <1>6
  <2> QED
    BY <2>1 DEF AssessVersionedFee, fee
<1> QED
  BY <1>6, <1>7 DEF cost, share
=============================================================================
