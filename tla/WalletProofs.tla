---------------------------- MODULE WalletProofs ----------------------------
(***************************************************************************)
(* Proofs about what a member does from the wallet: transfers, withdrawals *)
(* and the PIN (WalletMovements, TransactionPin), for any users, requests, *)
(* keys and opening balances; and bills ordered from a copied catalogue    *)
(* (BillOrders), for any servers, builds, products, checks and clients.    *)
(***************************************************************************)
EXTENDS WalletMovements, BillOrders, Sums, TLAPS

Ats == {"new", "pin", "look", "settle", "race", "audit", "store", "done"}
RequestRow == [at: Ats, user: Users \cup {None}, key: Keys \cup {None},
               answer: {"none", "moved", "failed", "error", "set"}]
CheckRow == [at: {"none", "read", "accepted", "refused"}, row: PinRows, right: BOOLEAN]

\* A request under way knows whose it is and which key it is for, answers only
\* at its end, and says moved only of a key that has moved.
Formed(x) ==
    /\ x.at \in {"look", "settle", "race", "audit"} => x.key \in Keys
    /\ x.at \in {"pin", "store"} => x.user \in Users
    /\ x.at = "audit" => x.key \in movement
    /\ x.at # "done" => x.answer = "none"
    /\ x.answer = "moved" => x.key \in movement
RequestsFormed == \A r \in Requests : Formed(req[r])

\* Every row has its posting and no posting is without its row or alike another.
PostedOnce ==
    /\ IsFiniteSet(postings)
    /\ \A k \in Keys : k \in movement => \E p \in postings : p.key = k
    /\ \A p \in postings : p.key \in movement
    /\ \A p, q \in postings : p.key = q.key => p = q

\* What a check read is no more than the wrong PINs of its user so far.
ChecksBehind ==
    \A r \in Requests :
        /\ req[r].at = "new" => check[r].at = "none"
        /\ check[r].at = "read" => /\ req[r].at = "pin"
                                   /\ check[r].row.failed <= wrong[req[r].user]

WalletInv ==
    /\ TypeOK
    /\ RequestsFormed
    /\ PostedOnce
    /\ ChecksBehind
    /\ LockIsEarned
    /\ NothingOverdrawn

-----------------------------------------------------------------------------
(* Sums of postings.                                                       *)

\* The balances are whole numbers.
LEMMA BalancesAreNumbers ==
    ASSUME TypeOK, IsFiniteSet(postings), NEW u \in Users
    PROVE  Available(u) \in Int /\ Reserved(u) \in Nat
<1> DEFINE f == [p \in postings |-> Order[p.key].amount]
<1>1. \A p \in postings : f[p] \in Nat
  BY MovementAssumption DEF TypeOK
<1>2. ASSUME NEW S \in SUBSET postings PROVE SumFunctionOnSet(f, S) \in Nat
  <2>1. IsFiniteSet(S) /\ \A p \in S : f[p] \in Nat
    BY <1>1, FS_Subset
  <2> HIDE DEF f
  <2> QED BY <2>1, SumType
<1>3. Moved(Sent(u)) \in Nat /\ Moved(Taken(u)) \in Nat /\ Moved(Held(u)) \in Nat
  BY <1>2 DEF Moved, Sent, Taken, Held
<1>4. Opening[u] \in Nat
  BY MovementAssumption
<1> QED
  BY <1>3, <1>4 DEF Available, Reserved

\* What a posting does to the balances of a user.
LEMMA PostingCounts ==
    ASSUME TypeOK, IsFiniteSet(postings), NEW p \in [key: Keys, by: Requests], p \notin postings,
           postings' = postings \cup {p}, NEW u \in Users
    PROVE  LET o == Order[p.key] IN
           /\ Available(u)' = Available(u)
                + (IF o.kind = "send" /\ o.to = u THEN o.amount ELSE 0)
                - (IF o.from = u THEN o.amount ELSE 0)
           /\ Reserved(u)' = Reserved(u)
                + (IF o.kind = "withdraw" /\ o.from = u THEN o.amount ELSE 0)
<1> DEFINE o == Order[p.key]
           f == [q \in postings |-> Order[q.key].amount]
           g == [q \in postings' |-> Order[q.key].amount]
<1>1. /\ \A q \in postings : f[q] \in Int /\ f[q] = g[q]
      /\ g[p] = o.amount /\ o.amount \in Nat
  BY MovementAssumption DEF TypeOK
<1>2. ASSUME NEW S \in SUBSET postings
      PROVE  /\ SumFunctionOnSet(f, S) \in Int
             /\ SumFunctionOnSet(g, S) = SumFunctionOnSet(f, S)
             /\ SumFunctionOnSet(g, S \cup {p}) = SumFunctionOnSet(f, S) + o.amount
  <2>1. IsFiniteSet(S) /\ p \notin S
    BY FS_Subset
  <2>2. g[p] \in Int
    BY <1>1
  <2>3. \A x \in S : f[x] \in Int
    BY <1>1
  <2>4. \A x \in S : f[x] = g[x]
    BY <1>1
  <2> HIDE DEF f, g
  <2>5. SumFunctionOnSet(f, S) \in Int
    BY <2>1, <2>3, SumType
  <2>6. SumFunctionOnSet(f, S) = SumFunctionOnSet(g, S)
    BY <2>1, <2>4, SumSame
  <2>7. \A y \in S \cup {p} : g[y] \in Int
    BY <2>2, <2>3, <2>4
  <2>8. SumFunctionOnSet(g, S \cup {p}) = g[p] + SumFunctionOnSet(g, S)
    BY <2>1, <2>7, SumInsert
  <2> QED BY <1>1, <2>5, <2>6, <2>8
<1>3. /\ Sent(u)' = IF o.kind = "send" /\ o.to = u THEN Sent(u) \cup {p} ELSE Sent(u)
      /\ Taken(u)' = IF o.from = u THEN Taken(u) \cup {p} ELSE Taken(u)
      /\ Held(u)' = IF o.kind = "withdraw" /\ o.from = u THEN Held(u) \cup {p} ELSE Held(u)
  BY DEF Sent, Taken, Held
<1>4. Sent(u) \in SUBSET postings /\ Taken(u) \in SUBSET postings /\ Held(u) \in SUBSET postings
  BY DEF Sent, Taken, Held
<1>5. /\ Moved(Sent(u)) = SumFunctionOnSet(f, Sent(u))
      /\ Moved(Taken(u)) = SumFunctionOnSet(f, Taken(u))
      /\ Moved(Held(u)) = SumFunctionOnSet(f, Held(u))
      /\ Moved(Sent(u))' = SumFunctionOnSet(g, Sent(u)')
      /\ Moved(Taken(u))' = SumFunctionOnSet(g, Taken(u)')
      /\ Moved(Held(u))' = SumFunctionOnSet(g, Held(u)')
  BY DEF Moved
<1> HIDE DEF f, g, o
<1>6. Moved(Sent(u))' = Moved(Sent(u)) + IF o.kind = "send" /\ o.to = u THEN o.amount ELSE 0
  <2>1. /\ SumFunctionOnSet(f, Sent(u)) \in Int
        /\ SumFunctionOnSet(g, Sent(u)) = SumFunctionOnSet(f, Sent(u))
        /\ SumFunctionOnSet(g, Sent(u) \cup {p}) = SumFunctionOnSet(f, Sent(u)) + o.amount
    BY <1>2, <1>4
  <2>2. CASE o.kind = "send" /\ o.to = u
    BY <1>3, <1>5, <2>1, <2>2
  <2>3. CASE ~(o.kind = "send" /\ o.to = u)
    BY <1>3, <1>5, <2>1, <2>3
  <2> QED BY <2>2, <2>3
<1>7. Moved(Taken(u))' = Moved(Taken(u)) + IF o.from = u THEN o.amount ELSE 0
  <2>1. /\ SumFunctionOnSet(f, Taken(u)) \in Int
        /\ SumFunctionOnSet(g, Taken(u)) = SumFunctionOnSet(f, Taken(u))
        /\ SumFunctionOnSet(g, Taken(u) \cup {p}) = SumFunctionOnSet(f, Taken(u)) + o.amount
    BY <1>2, <1>4
  <2>2. CASE o.from = u
    BY <1>3, <1>5, <2>1, <2>2
  <2>3. CASE ~(o.from = u)
    BY <1>3, <1>5, <2>1, <2>3
  <2> QED BY <2>2, <2>3
<1>8. Moved(Held(u))' = Moved(Held(u)) + IF o.kind = "withdraw" /\ o.from = u THEN o.amount ELSE 0
  <2>1. /\ SumFunctionOnSet(f, Held(u)) \in Int
        /\ SumFunctionOnSet(g, Held(u)) = SumFunctionOnSet(f, Held(u))
        /\ SumFunctionOnSet(g, Held(u) \cup {p}) = SumFunctionOnSet(f, Held(u)) + o.amount
    BY <1>2, <1>4
  <2>2. CASE o.kind = "withdraw" /\ o.from = u
    BY <1>3, <1>5, <2>1, <2>2
  <2>3. CASE ~(o.kind = "withdraw" /\ o.from = u)
    BY <1>3, <1>5, <2>1, <2>3
  <2> QED BY <2>2, <2>3
<1>9. /\ Moved(Sent(u)) \in Int /\ Moved(Taken(u)) \in Int /\ Moved(Held(u)) \in Int
      /\ Opening[u] \in Nat /\ o.amount \in Nat
  BY <1>1, <1>2, <1>4, <1>5, MovementAssumption
<1> QED
  BY <1>6, <1>7, <1>8, <1>9 DEF Available, Reserved, o

\* A transfer or a withdrawal that the balance covers overdraws nobody and loses
\* nothing.
LEMMA SettledKeepsMoney ==
    ASSUME TypeOK, IsFiniteSet(postings), NothingOverdrawn,
           NEW p \in [key: Keys, by: Requests], p \notin postings,
           postings' = postings \cup {p},
           Available(Order[p.key].from) >= Order[p.key].amount,
           Order[p.key].kind = "send" => Order[p.key].to # Order[p.key].from
    PROVE  NothingOverdrawn'
<1> DEFINE o == Order[p.key]
           both == [u \in Users |-> Available(u) + Reserved(u)]
           mid == [both EXCEPT ![o.from] = @ - o.amount]
           after == [u \in Users |-> (Available(u) + Reserved(u))']
<1>1. o.from \in Users /\ o.to \in Users /\ o.amount \in Nat /\ o.kind \in {"send", "withdraw"}
  BY MovementAssumption
<1>2. \A u \in Users : Available(u) \in Int /\ Reserved(u) \in Nat /\ Available(u) >= 0
  BY BalancesAreNumbers DEF NothingOverdrawn
<1>3. \A u \in Users :
        /\ Available(u)' = Available(u) + (IF o.kind = "send" /\ o.to = u THEN o.amount ELSE 0)
                                        - (IF o.from = u THEN o.amount ELSE 0)
        /\ Reserved(u)' = Reserved(u)
             + (IF o.kind = "withdraw" /\ o.from = u THEN o.amount ELSE 0)
  BY PostingCounts
<1>4. Available(o.from) >= o.amount /\ (o.kind = "send" => o.to # o.from)
  OBVIOUS
<1>5. SumFunctionOnSet(both, Users) = SumFunctionOnSet(Opening, Users)
  BY DEF NothingOverdrawn
<1> HIDE DEF o
<1>6. \A u \in Users : Available(u)' >= 0
  BY <1>1, <1>2, <1>3, <1>4
<1>7. SumFunctionOnSet(after, Users) = SumFunctionOnSet(both, Users)
  <2>1. IsFiniteSet(Users) /\ \A u \in Users : both[u] \in Int
    BY <1>2, MovementAssumption
  <2>2. CASE o.kind = "withdraw"
    <3>1. \A u \in Users : both[u] = after[u]
      BY <1>1, <1>2, <1>3, <2>2
    <3> HIDE DEF both, after
    <3> QED BY <2>1, <3>1, SumSame
  <2>3. CASE o.kind = "send"
    <3>1. /\ \A u \in Users : mid[u] \in Int
          /\ \A u \in Users \ {o.from} : both[u] = mid[u]
          /\ mid[o.from] = both[o.from] - o.amount
      BY <1>1, <2>1
    <3>2. /\ \A u \in Users \ {o.to} : mid[u] = after[u]
          /\ after[o.to] \in Int /\ after[o.to] = mid[o.to] + o.amount
      BY <1>1, <1>2, <1>3, <1>4, <2>3
    <3> HIDE DEF both, mid, after
    <3>3. SumFunctionOnSet(mid, Users) = SumFunctionOnSet(both, Users) - both[o.from] + mid[o.from]
      BY <1>1, <2>1, <3>1, SumChange
    <3>4. SumFunctionOnSet(after, Users) = SumFunctionOnSet(mid, Users) - mid[o.to] + after[o.to]
      BY <1>1, <2>1, <3>1, <3>2, SumChange
    <3>5. SumFunctionOnSet(both, Users) \in Int
      BY <2>1, SumType
    <3> QED BY <1>1, <2>1, <3>1, <3>2, <3>3, <3>4, <3>5
  <2> QED BY <1>1, <2>2, <2>3
<1> QED
  BY <1>5, <1>6, <1>7 DEF NothingOverdrawn

-----------------------------------------------------------------------------
(* The invariant.                                                          *)

\* Balances depend on the postings alone.
LEMMA SamePostings ==
    ASSUME NothingOverdrawn, postings' = postings
    PROVE  NothingOverdrawn'
BY DEF NothingOverdrawn, Available, Reserved, Moved, Sent, Taken, Held

\* Nobody has asked for anything yet.
LEMMA WalletInitInv == Init => WalletInv
<1> SUFFICES ASSUME Init PROVE WalletInv
  OBVIOUS
<1>1. TypeOK
  BY PinAssumption DEF Init, PinInit, TypeOK, PinOK, PinRows, NoCheck, NoRequest, Locks
<1>2. RequestsFormed /\ ChecksBehind
  BY DEF Init, PinInit, RequestsFormed, Formed, ChecksBehind, NoCheck, NoRequest
<1>3. PostedOnce
  BY FS_EmptySet DEF Init, PostedOnce
<1>4. LockIsEarned
  <2> SUFFICES ASSUME NEW u \in Users
               PROVE  /\ pin[u].failed <= wrong[u]
                      /\ pin[u].lock = "locked" => wrong[u] >= MaxPinAttempts
    BY DEF LockIsEarned
  <2>1. wrong[u] = 0
    BY DEF Init, PinInit
  <2>2. pin[u] \in {[version |-> v, failed |-> 0, lock |-> "none"] : v \in {0, 1}}
    BY DEF Init, PinInit
  <2>3. pin[u].failed = 0 /\ pin[u].lock = "none"
    BY <2>2
  <2> QED BY <2>1, <2>3
<1>5. NothingOverdrawn
  <2> DEFINE f == [p \in postings |-> Order[p.key].amount]
             both == [u \in Users |-> Available(u) + Reserved(u)]
  <2>1. ASSUME NEW u \in Users PROVE Available(u) = Opening[u] /\ Reserved(u) = 0
    <3>1. Sent(u) = {} /\ Taken(u) = {} /\ Held(u) = {}
      BY DEF Init, Sent, Taken, Held
    <3>2. SumFunctionOnSet(f, {}) = 0
      BY SumEmpty
    <3>3. Opening[u] \in Nat
      BY MovementAssumption
    <3> QED BY <3>1, <3>2, <3>3 DEF Available, Reserved, Moved
  <2>2. ASSUME NEW u \in Users PROVE both[u] = Opening[u] /\ Available(u) >= 0
    <3>1. Opening[u] \in Nat
      BY MovementAssumption
    <3> QED BY <2>1, <3>1
  <2>3. IsFiniteSet(Users)
    BY MovementAssumption
  <2>4. SumFunctionOnSet(both, Users) = SumFunctionOnSet(Opening, Users)
    <3> HIDE DEF both
    <3> QED BY <2>2, <2>3, SumSame
  <2> QED BY <2>2, <2>4 DEF NothingOverdrawn
<1> QED
  BY <1>1, <1>2, <1>3, <1>4, <1>5 DEF WalletInv

\* A step of one request that moves nothing.
LEMMA RequestInv ==
    ASSUME WalletInv, NEW r \in Requests, NEW row \in RequestRow,
           req' = [req EXCEPT ![r] = row], UNCHANGED <<pinVars, movement, postings>>,
           Formed(row), row.at # "new",
           check[r].at = "read" => row.at = "pin" /\ row.user = req[r].user
    PROVE  WalletInv'
<1>0. req \in [Requests -> RequestRow]
  BY DEF WalletInv, TypeOK, RequestRow, Ats
<1>1. req' \in [Requests -> RequestRow]
  BY <1>0
<1>2. TypeOK'
  BY <1>1 DEF WalletInv, TypeOK, PinOK, pinVars, RequestRow, Ats
<1>3. RequestsFormed'
  BY <1>0 DEF WalletInv, RequestsFormed, Formed
<1>4. ChecksBehind'
  BY <1>0 DEF WalletInv, ChecksBehind, pinVars
<1>5. PostedOnce' /\ LockIsEarned'
  BY DEF WalletInv, PostedOnce, LockIsEarned, pinVars
<1>6. NothingOverdrawn'
  BY SamePostings DEF WalletInv
<1> QED
  BY <1>2, <1>3, <1>4, <1>5, <1>6 DEF WalletInv

\* send and withdraw up to the PIN, setTransactionPin up to its guard.
LEMMA StartInv ==
    ASSUME WalletInv, NEW r \in Requests,
           (\E k \in Keys : Send(r, k) \/ Withdraw(r, k)) \/ \E u \in Users : SetPin(r, u)
    PROVE  WalletInv'
<1>0. req[r].at = "new" /\ check[r].at # "read"
  BY DEF Send, Withdraw, Tap, SetPin, At, WalletInv, ChecksBehind
<1>1. ASSUME NEW k \in Keys, Tap(r, k) PROVE WalletInv'
  <2> DEFINE row == [at |-> "pin", user |-> Order[k].from, key |-> k, answer |-> "none"]
  <2>1. row \in RequestRow /\ Formed(row) /\ row.at # "new"
    BY MovementAssumption DEF RequestRow, Ats, Formed
  <2>2. req' = [req EXCEPT ![r] = row] /\ UNCHANGED <<pinVars, movement, postings>>
    BY <1>1 DEF Tap
  <2> HIDE DEF row
  <2> QED BY <1>0, <2>1, <2>2, RequestInv
<1>2. ASSUME NEW u \in Users, SetPin(r, u) PROVE WalletInv'
  <2> DEFINE row == [at |-> IF pin[u].version = 0 THEN "store" ELSE "pin",
                     user |-> u, key |-> None, answer |-> "none"]
  <2>1. row \in RequestRow /\ Formed(row) /\ row.at # "new"
    BY DEF RequestRow, Ats, Formed
  <2>2. req' = [req EXCEPT ![r] = row] /\ UNCHANGED <<pinVars, movement, postings>>
    BY <1>2 DEF SetPin
  <2> HIDE DEF row
  <2> QED BY <1>0, <2>1, <2>2, RequestInv
<1> QED
  BY <1>1, <1>2 DEF Send, Withdraw

\* A step on, or an answer, of a request whose PIN is not being checked.
LEMMA GoInv ==
    ASSUME WalletInv, NEW r \in Requests, check[r].at # "read", req[r].at # "done",
           UNCHANGED <<pinVars, movement, postings>>,
           \/ \E step \in {"look", "store", "settle", "race", "audit"} :
                /\ Go(r, step)
                /\ step = "store" => req[r].user \in Users
                /\ step # "store" => req[r].key \in Keys
                /\ step = "audit" => req[r].key \in movement
           \/ \E answer \in {"moved", "failed", "error", "set"} :
                Reply(r, answer) /\ (answer = "moved" => req[r].key \in movement)
    PROVE  WalletInv'
<1>0. req \in [Requests -> RequestRow] /\ req[r] \in RequestRow /\ Formed(req[r])
  BY DEF WalletInv, TypeOK, RequestRow, Ats, RequestsFormed
<1>1. ASSUME NEW step \in {"look", "store", "settle", "race", "audit"}, Go(r, step),
             step = "store" => req[r].user \in Users,
             step # "store" => req[r].key \in Keys,
             step = "audit" => req[r].key \in movement
      PROVE  WalletInv'
  <2> DEFINE row == [req[r] EXCEPT !.at = step]
  <2>1. row \in RequestRow /\ row.at # "new"
    BY <1>0 DEF RequestRow, Ats
  <2>2. Formed(row)
    BY <1>0, <1>1 DEF RequestRow, Formed
  <2>3. req' = [req EXCEPT ![r] = row]
    BY <1>0, <1>1 DEF Go
  <2> HIDE DEF row
  <2> QED BY <2>1, <2>2, <2>3, RequestInv
<1>2. ASSUME NEW answer \in {"moved", "failed", "error", "set"}, Reply(r, answer),
             answer = "moved" => req[r].key \in movement
      PROVE  WalletInv'
  <2> DEFINE row == [req[r] EXCEPT !.at = "done", !.answer = answer]
  <2>1. row \in RequestRow /\ row.at # "new"
    BY <1>0 DEF RequestRow, Ats
  <2>2. Formed(row)
    BY <1>0, <1>2 DEF RequestRow, Formed
  <2>3. req' = [req EXCEPT ![r] = row]
    BY <1>0, <1>2 DEF Reply
  <2> HIDE DEF row
  <2> QED BY <2>1, <2>2, <2>3, RequestInv
<1> QED
  BY <1>1, <1>2

\* A check of the PIN: it reads, and later writes what it worked out from what
\* it read.
LEMMA CheckPinInv ==
    ASSUME WalletInv, NEW r \in Requests, CheckPin(r)
    PROVE  WalletInv'
<1> DEFINE u == req[r].user
<1>0. /\ req \in [Requests -> RequestRow] /\ req[r].at = "pin" /\ u \in Users
      /\ UNCHANGED <<req, movement, postings>>
  BY DEF WalletInv, TypeOK, RequestRow, Ats, RequestsFormed, Formed, CheckPin, At
<1>1. /\ pin \in [Users -> PinRows] /\ check \in [Requests -> CheckRow] /\ wrong \in [Users -> Nat]
      /\ MaxPinAttempts \in Nat
  BY PinAssumption DEF WalletInv, TypeOK, PinOK, CheckRow
<1>2. RequestsFormed' /\ PostedOnce' /\ NothingOverdrawn'
  <2>1. NothingOverdrawn'
    BY <1>0, SamePostings DEF WalletInv
  <2> QED BY <1>0, <2>1 DEF WalletInv, RequestsFormed, Formed, PostedOnce
<1>3. PinOK' => TypeOK'
  BY <1>0 DEF WalletInv, TypeOK
<1>4. CASE ReadPin(r, u) \/ NoPin(r, u)
  <2>1. PICK x \in CheckRow : /\ check' = [check EXCEPT ![r] = x]
                              /\ x.at = "read" => x.row = pin[u]
    <3>1. CASE NoPin(r, u)
      <4> DEFINE x == [check[r] EXCEPT !.at = "refused"]
      <4>1. x \in CheckRow /\ x.at = "refused" /\ check' = [check EXCEPT ![r] = x]
        BY <1>1, <3>1 DEF NoPin, CheckRow
      <4> QED BY <4>1
    <3>2. CASE ReadPin(r, u)
      <4>1. PICK right \in BOOLEAN : check' = [check EXCEPT ![r] =
              IF pin[u].lock = "locked" THEN [check[r] EXCEPT !.at = "refused"]
              ELSE [at |-> "read", row |-> pin[u], right |-> right]]
        BY <3>2, <1>1 DEF ReadPin
      <4> DEFINE x == IF pin[u].lock = "locked" THEN [check[r] EXCEPT !.at = "refused"]
                      ELSE [at |-> "read", row |-> pin[u], right |-> right]
      <4>2. x \in CheckRow /\ (x.at = "read" => x.row = pin[u])
        BY <1>0, <1>1 DEF CheckRow
      <4> QED BY <4>1, <4>2
    <3> QED BY <1>4, <3>1, <3>2
  <2>2. pin' = pin /\ wrong' = wrong
    BY <1>4 DEF ReadPin, NoPin
  <2>3. check' \in [Requests -> CheckRow]
    BY <1>1, <2>1
  <2>4. PinOK'
    BY <1>1, <2>2, <2>3 DEF PinOK, CheckRow
  <2>5. LockIsEarned'
    BY <2>2 DEF WalletInv, LockIsEarned
  <2>6. ChecksBehind'
    <3> SUFFICES ASSUME NEW q \in Requests
                 PROVE  /\ req[q].at = "new" => check'[q].at = "none"
                        /\ check'[q].at = "read" => /\ req[q].at = "pin"
                                                    /\ check'[q].row.failed <= wrong[req[q].user]
      BY <1>0, <2>2 DEF ChecksBehind
    <3>1. CASE q # r
      BY <1>1, <2>1, <3>1 DEF WalletInv, ChecksBehind
    <3>2. CASE q = r
      <4>1. check'[q] = x
        BY <1>1, <2>1, <3>2
      <4>2. pin[u].failed <= wrong[u]
        BY <1>0 DEF WalletInv, LockIsEarned
      <4> QED BY <1>0, <2>1, <3>2, <4>1, <4>2
    <3> QED BY <3>1, <3>2
  <2> QED BY <1>2, <1>3, <2>4, <2>5, <2>6 DEF WalletInv
<1>5. CASE WritePin(r, u)
  <2>1. /\ check[r].at = "read" /\ check[r].row \in PinRows /\ check[r].row.failed <= wrong[u]
        /\ check[r].right \in BOOLEAN
    BY <1>0, <1>1, <1>5 DEF WritePin, WalletInv, ChecksBehind, CheckRow
  <2>2. PICK failed \in Nat, lock \in Locks, count \in Nat :
          /\ pin' = [pin EXCEPT ![u].failed = failed, ![u].lock = lock]
          /\ wrong' = [wrong EXCEPT ![u] = count]
          /\ wrong[u] <= count
          /\ failed <= count /\ (lock = "locked" => count >= MaxPinAttempts)
    <3>1. CASE check[r].right
      <4>1. CASE check[r].row.failed # 0 \/ check[r].row.lock # "none"
        <5>1. /\ pin' = [pin EXCEPT ![u].failed = 0, ![u].lock = "none"]
              /\ wrong' = [wrong EXCEPT ![u] = wrong[u]]
          BY <1>0, <1>1, <1>5, <2>1, <3>1, <4>1 DEF WritePin, PinRows
        <5> "none" \in Locks /\ wrong[u] \in Nat
          BY <1>0, <1>1 DEF Locks
        <5> WITNESS 0 \in Nat, "none" \in Locks, wrong[u] \in Nat
        <5> QED BY <5>1
      <4>2. CASE ~(check[r].row.failed # 0 \/ check[r].row.lock # "none")
        <5>1. /\ pin' = [pin EXCEPT ![u].failed = pin[u].failed, ![u].lock = pin[u].lock]
              /\ wrong' = [wrong EXCEPT ![u] = wrong[u]]
          BY <1>0, <1>1, <1>5, <2>1, <3>1, <4>2 DEF WritePin
        <5>2. /\ pin[u].failed <= wrong[u]
              /\ pin[u].lock = "locked" => wrong[u] >= MaxPinAttempts
          BY <1>0 DEF WalletInv, LockIsEarned
        <5> wrong[u] \in Nat /\ pin[u].failed \in Nat /\ pin[u].lock \in Locks
          BY <1>0, <1>1 DEF PinRows
        <5> WITNESS pin[u].failed \in Nat, pin[u].lock \in Locks, wrong[u] \in Nat
        <5> QED BY <5>1, <5>2
      <4> QED BY <4>1, <4>2
    <3>2. CASE ~check[r].right
      <4> DEFINE n == check[r].row.failed + 1
                 l == IF n >= MaxPinAttempts THEN "locked" ELSE "none"
      <4>1. FailedAttempt(check[r].row).failed = n /\ FailedAttempt(check[r].row).lock = l
        BY <2>1 DEF FailedAttempt, PinRows
      <4>2. /\ pin' = [pin EXCEPT ![u].failed = n, ![u].lock = l]
            /\ wrong' = [wrong EXCEPT ![u] = wrong[u] + 1]
        BY <1>0, <1>1, <1>5, <3>2, <4>1 DEF WritePin
      <4>3. /\ n \in Nat /\ l \in Locks /\ wrong[u] + 1 \in Nat /\ wrong[u] <= wrong[u] + 1
            /\ n <= wrong[u] + 1 /\ (l = "locked" => wrong[u] + 1 >= MaxPinAttempts)
        BY <1>0, <1>1, <2>1 DEF PinRows, Locks
      <4> HIDE DEF n, l
      <4> QED BY <4>2, <4>3
    <3> QED BY <3>1, <3>2
  <2>3. PICK x \in CheckRow : check' = [check EXCEPT ![r] = x] /\ x.at # "read"
    <3> DEFINE x == [NoCheck EXCEPT !.at = IF check[r].right THEN "accepted" ELSE "refused"]
    <3>1. NoCheck \in CheckRow
      <4>1. [version |-> 0, failed |-> 0, lock |-> "none"] \in PinRows
        BY PinAssumption DEF PinRows, Locks
      <4> QED BY <4>1 DEF NoCheck, CheckRow
    <3>2. x \in CheckRow /\ x.at # "read"
      BY <3>1 DEF CheckRow
    <3>3. check' = [check EXCEPT ![r] = x]
      BY <1>5 DEF WritePin
    <3> HIDE DEF x
    <3> QED BY <3>2, <3>3
  <2>4. /\ pin' \in [Users -> PinRows] /\ wrong' \in [Users -> Nat]
        /\ check' \in [Requests -> CheckRow]
    BY <1>0, <1>1, <2>2, <2>3 DEF PinRows
  <2>5. PinOK'
    BY <2>4 DEF PinOK, CheckRow
  <2>6. LockIsEarned'
    <3> SUFFICES ASSUME NEW v \in Users
                 PROVE  /\ pin'[v].failed <= wrong'[v]
                        /\ pin'[v].lock = "locked" => wrong'[v] >= MaxPinAttempts
      BY DEF LockIsEarned
    <3>1. CASE v = u
      BY <1>0, <1>1, <2>2, <3>1 DEF PinRows
    <3>2. CASE v # u
      BY <1>0, <1>1, <2>2, <3>2 DEF WalletInv, LockIsEarned
    <3> QED BY <3>1, <3>2
  <2>7. \A v \in Users : wrong[v] \in Nat /\ wrong'[v] \in Nat /\ wrong[v] <= wrong'[v]
    BY <1>0, <1>1, <2>2
  <2>8. ChecksBehind'
    <3> SUFFICES ASSUME NEW q \in Requests
                 PROVE  /\ req[q].at = "new" => check'[q].at = "none"
                        /\ check'[q].at = "read" => /\ req[q].at = "pin"
                                                    /\ check'[q].row.failed <= wrong'[req[q].user]
      BY <1>0 DEF ChecksBehind
    <3>1. CASE q = r
      BY <1>0, <1>1, <2>3, <3>1
    <3>2. CASE q # r
      <4>1. check'[q] = check[q] /\ check[q] \in CheckRow
        BY <1>1, <2>3, <3>2
      <4>2. req[q].at = "pin" => req[q].user \in Users
        BY DEF WalletInv, RequestsFormed, Formed
      <4>3. check[q].row.failed \in Nat
        BY <4>1 DEF CheckRow, PinRows
      <4> QED BY <2>7, <4>1, <4>2, <4>3 DEF WalletInv, ChecksBehind
    <3> QED BY <3>1, <3>2
  <2> QED BY <1>2, <1>3, <2>5, <2>6, <2>8 DEF WalletInv
<1> QED
  BY <1>4, <1>5 DEF CheckPin

\* setPin's upsert, and a lock that has run out: the count and the lock are only
\* ever eased.
LEMMA EasedInv ==
    ASSUME WalletInv, NEW u \in Users, NEW row \in PinRows,
           pin' = [pin EXCEPT ![u] = row], UNCHANGED <<check, wrong, movement, postings>>,
           row.failed <= wrong[u], row.lock # "locked"
    PROVE  /\ LockIsEarned' /\ PostedOnce' /\ NothingOverdrawn'
           /\ PinOK'
<1>1. pin \in [Users -> PinRows]
  BY DEF WalletInv, TypeOK, PinOK
<1>2. pin' \in [Users -> PinRows]
  BY <1>1
<1>3. PinOK'
  BY <1>2 DEF WalletInv, TypeOK, PinOK
<1>4. LockIsEarned'
  BY <1>1 DEF WalletInv, LockIsEarned
<1>5. PostedOnce'
  BY DEF WalletInv, PostedOnce
<1>6. NothingOverdrawn'
  BY SamePostings DEF WalletInv
<1> QED
  BY <1>3, <1>4, <1>5, <1>6

\* A lock runs out.
LEMMA ElapsedInv ==
    ASSUME WalletInv, NEW u \in Users, LockElapses(u), UNCHANGED <<req, movement, postings>>
    PROVE  WalletInv'
<1> DEFINE row == [pin[u] EXCEPT !.lock = "elapsed"]
<1>1. pin[u] \in PinRows /\ pin \in [Users -> PinRows]
  BY DEF WalletInv, TypeOK, PinOK
<1>2. row \in PinRows /\ row.failed = pin[u].failed /\ row.lock # "locked"
  BY <1>1 DEF PinRows, Locks
<1>3. pin' = [pin EXCEPT ![u] = row]
  BY <1>1 DEF LockElapses
<1>4. pin[u].failed <= wrong[u] /\ UNCHANGED <<check, wrong>>
  BY DEF WalletInv, LockIsEarned, LockElapses
<1> HIDE DEF row
<1>5. LockIsEarned' /\ PostedOnce' /\ NothingOverdrawn' /\ PinOK'
  BY <1>2, <1>3, <1>4, EasedInv
<1>6. TypeOK' /\ RequestsFormed' /\ ChecksBehind'
  BY <1>4, <1>5 DEF WalletInv, TypeOK, RequestsFormed, Formed, ChecksBehind
<1> QED
  BY <1>5, <1>6 DEF WalletInv

\* The new PIN is stored.
LEMMA StoreInv ==
    ASSUME WalletInv, NEW r \in Requests, Store(r)
    PROVE  WalletInv'
<1> DEFINE u == req[r].user
           row == [version |-> pin[u].version + 1, failed |-> 0, lock |-> "none"]
           answered == [req[r] EXCEPT !.at = "done", !.answer = "set"]
<1>0. /\ req \in [Requests -> RequestRow] /\ req[r] \in RequestRow /\ req[r].at = "store"
      /\ u \in Users
  BY DEF WalletInv, TypeOK, RequestRow, Ats, RequestsFormed, Formed, Store, At
<1>1. pin \in [Users -> PinRows] /\ wrong[u] \in Nat
  BY <1>0 DEF WalletInv, TypeOK, PinOK
<1>2. row \in PinRows /\ row.failed <= wrong[u] /\ row.lock # "locked"
  BY <1>0, <1>1, PinAssumption DEF Store, StorePin, PinRows, Locks
<1>3. /\ pin' = [pin EXCEPT ![u] = row] /\ UNCHANGED <<check, wrong, movement, postings>>
      /\ req' = [req EXCEPT ![r] = answered]
  BY <1>0, <1>1 DEF Store, StorePin, Reply
<1>4. answered \in RequestRow /\ answered.at = "done" /\ answered.answer = "set"
  BY <1>0 DEF RequestRow, Ats
<1> HIDE DEF row, answered
<1>5. LockIsEarned' /\ PostedOnce' /\ NothingOverdrawn' /\ PinOK'
  BY <1>0, <1>2, <1>3, EasedInv
<1>6. req' \in [Requests -> RequestRow]
  BY <1>0, <1>3, <1>4
<1>7. TypeOK'
  BY <1>3, <1>5, <1>6 DEF WalletInv, TypeOK, RequestRow, Ats
<1>8. RequestsFormed'
  BY <1>0, <1>3, <1>4 DEF WalletInv, RequestsFormed, Formed
<1>9. ChecksBehind'
  BY <1>0, <1>3, <1>4 DEF WalletInv, ChecksBehind
<1> QED
  BY <1>5, <1>7, <1>8, <1>9 DEF WalletInv

\* The transaction of send or of withdraw: it moves the money, finds it moved, or
\* is refused.
LEMMA SettleInv ==
    ASSUME WalletInv, NEW r \in Requests, NEW allowed \in BOOLEAN, Settle(r, allowed),
           allowed => Available(Order[req[r].key].from) >= Order[req[r].key].amount,
           allowed /\ Order[req[r].key].kind = "send" =>
               Order[req[r].key].to # Order[req[r].key].from
    PROVE  WalletInv'
<1> DEFINE k == req[r].key
           p == [key |-> k, by |-> r]
<1>0. /\ req[r].at = "settle" /\ k \in Keys /\ check[r].at # "read" /\ UNCHANGED pinVars
      /\ req \in [Requests -> RequestRow] /\ req[r] \in RequestRow
  BY DEF WalletInv, TypeOK, RequestRow, Ats, RequestsFormed, Formed, ChecksBehind, Settle, At
<1>1. CASE k \notin movement /\ allowed
  <2>0. PICK step \in {"audit", "race"} : Go(r, step)
    BY <1>1 DEF Settle
  <2> DEFINE audited == [req[r] EXCEPT !.at = step]
  <2>1. /\ movement' = movement \cup {k} /\ postings' = postings \cup {p}
        /\ req' = [req EXCEPT ![r] = audited]
    BY <1>0, <1>1, <2>0 DEF Settle, Go
  <2>2. p \in [key: Keys, by: Requests] /\ p.key = k /\ p \notin postings
    BY <1>0, <1>1 DEF WalletInv, PostedOnce
  <2>3. /\ audited \in RequestRow /\ audited.at \in {"audit", "race"} /\ audited.key = k
        /\ audited.answer = "none"
    BY <1>0 DEF RequestRow, Ats, WalletInv, RequestsFormed, Formed
  <2> HIDE DEF p, audited
  <2>4. req' \in [Requests -> RequestRow]
    BY <1>0, <2>1, <2>3
  <2>5. TypeOK'
    BY <1>0, <2>1, <2>2, <2>4 DEF WalletInv, TypeOK, PinOK, pinVars, RequestRow, Ats
  <2>6. RequestsFormed'
    BY <1>0, <2>1, <2>3 DEF WalletInv, RequestsFormed, Formed
  <2>7. PostedOnce'
    <3>1. IsFiniteSet(postings')
      BY <2>1, FS_AddElement DEF WalletInv, PostedOnce
    <3> QED BY <1>1, <2>1, <2>2, <3>1 DEF WalletInv, PostedOnce
  <2>8. ChecksBehind' /\ LockIsEarned'
    BY <1>0, <2>1, <2>3 DEF WalletInv, ChecksBehind, LockIsEarned, pinVars
  <2>9. NothingOverdrawn'
    <3>1. TypeOK /\ IsFiniteSet(postings) /\ NothingOverdrawn
      BY DEF WalletInv, PostedOnce
    <3>2. /\ Available(Order[p.key].from) >= Order[p.key].amount
          /\ Order[p.key].kind = "send" => Order[p.key].to # Order[p.key].from
      BY <1>1, <2>2
    <3> QED BY <2>1, <2>2, <3>1, <3>2, SettledKeepsMoney
  <2> QED BY <2>5, <2>6, <2>7, <2>8, <2>9 DEF WalletInv
<1>2. CASE ~(k \notin movement /\ allowed)
  <2>1. UNCHANGED <<pinVars, movement, postings>>
    BY <1>0, <1>2 DEF Settle
  <2>2. (k \in movement /\ Go(r, "audit")) \/ Go(r, "race")
    BY <1>2 DEF Settle
  <2> QED BY <1>0, <2>1, <2>2, GoInv
<1> QED
  BY <1>1, <1>2

\* The invariant is inductive.
LEMMA WalletNextInv == WalletInv /\ [Next]_vars => WalletInv'
<1> SUFFICES ASSUME WalletInv, [Next]_vars PROVE WalletInv'
  OBVIOUS
<1>1. CASE UNCHANGED vars
  <2>1. NothingOverdrawn'
    BY <1>1, SamePostings DEF WalletInv, vars
  <2> QED
    BY <1>1, <2>1 DEF vars, WalletInv, TypeOK, PinOK, RequestsFormed, Formed, PostedOnce,
                      ChecksBehind, LockIsEarned
<1>2. ASSUME NEW r \in Requests,
             (\E k \in Keys : Send(r, k) \/ Withdraw(r, k)) \/ \E u \in Users : SetPin(r, u)
      PROVE  WalletInv'
  BY <1>2, StartInv
<1>3. ASSUME NEW r \in Requests, CheckPin(r) \/ Store(r) PROVE WalletInv'
  BY <1>3, CheckPinInv, StoreInv
<1>4. ASSUME NEW r \in Requests, PinChecked(r) PROVE WalletInv'
  <2>1. /\ req[r].at = "pin" /\ check[r].at # "read" /\ UNCHANGED <<pinVars, movement, postings>>
        /\ req[r].user \in Users /\ (req[r].key # None => req[r].key \in Keys)
    BY <1>4 DEF PinChecked, At, WalletInv, TypeOK, RequestsFormed, Formed
  <2>2. \/ Reply(r, "failed")
        \/ req[r].key = None /\ Go(r, "store")
        \/ req[r].key # None /\ Go(r, "look")
    BY <1>4 DEF PinChecked
  <2> QED BY <2>1, <2>2, GoInv
<1>5. ASSUME NEW r \in Requests, Look(r) \/ Abort(r) \/ Race(r) \/ Audit(r) PROVE WalletInv'
  <2>1. /\ req[r].at \in {"look", "settle", "race", "audit"} /\ check[r].at # "read"
        /\ UNCHANGED <<pinVars, movement, postings>> /\ req[r].key \in Keys
        /\ req[r].at = "audit" => req[r].key \in movement
    BY <1>5 DEF Look, Abort, Race, Audit, At, WalletInv, RequestsFormed, Formed, ChecksBehind
  <2>2. \/ Go(r, "settle") \/ Go(r, "race")
        \/ req[r].key \in movement /\ (Reply(r, "moved") \/ Go(r, "audit"))
        \/ Reply(r, "failed") \/ Reply(r, "error")
    BY <1>5, <2>1 DEF Look, Abort, Race, Audit, At
  <2> QED BY <2>1, <2>2, GoInv
<1>6. ASSUME NEW r \in Requests, SettleSend(r) PROVE WalletInv'
  <2> DEFINE allowed == CanSend(req[r].key)
  <2>1. allowed \in BOOLEAN
    BY DEF CanSend
  <2>2. Settle(r, allowed)
    BY <1>6 DEF SettleSend
  <2>3. /\ allowed => Available(Order[req[r].key].from) >= Order[req[r].key].amount
        /\ allowed => Order[req[r].key].to # Order[req[r].key].from
    BY DEF CanSend, Sufficient
  <2> HIDE DEF allowed
  <2> QED BY <2>1, <2>2, <2>3, SettleInv
<1>7. ASSUME NEW r \in Requests, SettleWithdraw(r) PROVE WalletInv'
  <2> DEFINE allowed == CanWithdraw(req[r].key)
  <2>1. allowed \in BOOLEAN
    BY DEF CanWithdraw, Sufficient
  <2>2. Settle(r, allowed) /\ Order[req[r].key].kind = "withdraw"
    BY <1>7 DEF SettleWithdraw
  <2>3. allowed => Available(Order[req[r].key].from) >= Order[req[r].key].amount
    BY DEF CanWithdraw, Sufficient
  <2> HIDE DEF allowed
  <2> QED BY <2>1, <2>2, <2>3, SettleInv
<1>8. ASSUME NEW u \in Users, LockElapses(u), UNCHANGED <<req, movement, postings>>
      PROVE  WalletInv'
  BY <1>8, ElapsedInv
<1> QED
  BY <1>1, <1>2, <1>3, <1>4, <1>5, <1>6, <1>7, <1>8 DEF Next

-----------------------------------------------------------------------------
(* Theorems.                                                               *)

\* The inductive invariant holds of every run of send, withdraw and setPin.
THEOREM WalletInvariantHolds == Spec => []WalletInv
<1> QED
  BY WalletInitInv, WalletNextInv, PTL DEF Spec

\* The rows of transfers, PINs and requests keep their types.
THEOREM WalletsTyped == Spec => []TypeOK
<1>1. WalletInv => TypeOK
  BY DEF WalletInv
<1> QED
  BY <1>1, WalletInvariantHolds, PTL

\* However often a key is tapped, and whatever aborts, its movement is posted
\* exactly once and answered as moved only when it is.
THEOREM MovedExactlyOnce == Spec => []MovedOnce
<1>1. WalletInv => MovedOnce
  <2> SUFFICES ASSUME WalletInv PROVE MovedOnce
    OBVIOUS
  <2>1. ASSUME NEW k \in Keys
        PROVE  Cardinality({p \in postings : p.key = k}) = IF k \in movement THEN 1 ELSE 0
    <3>1. CASE k \in movement
      <4>1. PICK q \in postings : q.key = k
        BY <3>1 DEF WalletInv, PostedOnce
      <4>2. {p \in postings : p.key = k} = {q}
        BY <4>1 DEF WalletInv, PostedOnce
      <4> QED BY <3>1, <4>2, FS_Singleton
    <3>2. CASE k \notin movement
      <4>1. {p \in postings : p.key = k} = {}
        BY <3>2 DEF WalletInv, PostedOnce
      <4> QED BY <3>2, <4>1, FS_EmptySet
    <3> QED BY <3>1, <3>2
  <2>2. \A r \in Requests : req[r].answer = "moved" => req[r].key \in movement
    BY DEF WalletInv, RequestsFormed, Formed
  <2> QED BY <2>1, <2>2 DEF MovedOnce
<1> QED
  BY <1>1, WalletInvariantHolds, PTL

\* Movements that compete for one balance never overdraw it and lose nothing.
THEOREM NothingIsOverdrawn == Spec => []NothingOverdrawn
<1>1. WalletInv => NothingOverdrawn
  BY DEF WalletInv
<1> QED
  BY <1>1, WalletInvariantHolds, PTL

\* However many checks of one PIN interleave, no lock comes before
\* MaxPinAttempts wrong PINs.
THEOREM LocksAreEarned == Spec => []LockIsEarned
<1>1. WalletInv => LockIsEarned
  BY DEF WalletInv
<1> QED
  BY <1>1, WalletInvariantHolds, PTL

\* The request behind a posting is past its transaction, under the key it moved,
\* and was not refused.
PastSettling(p) ==
    /\ req[p.by].key = p.key
    /\ req[p.by].at \in {"race", "audit", "done"}
    /\ req[p.by].answer # "failed"
MoversPast == \A p \in postings : PastSettling(p)

\* Every step of a request leaves the movers past their transactions: the one
\* that posts goes to its audit row or, unanswered, to the catch, and from the
\* catch it finds its own row.
LEMMA MoversStayPast == WalletInv /\ MoversPast /\ [Next]_vars => MoversPast'
<1> SUFFICES ASSUME WalletInv, MoversPast, [Next]_vars, NEW p \in postings'
             PROVE  PastSettling(p)'
  BY DEF MoversPast
<1>0. /\ req \in [Requests -> RequestRow]
      /\ \A r \in Requests : Formed(req[r])
      /\ \A q \in postings : q \in [key: Keys, by: Requests] /\ q.key \in movement
  BY DEF WalletInv, TypeOK, RequestRow, Ats, RequestsFormed, PostedOnce
<1>1. CASE req' = req /\ postings' = postings
  BY <1>1 DEF MoversPast, PastSettling
<1>2. CASE ~(req' = req /\ postings' = postings)
  <2>1. PICK r \in Requests :
          \/ \E k \in Keys : Tap(r, k)
          \/ \E u \in Users : SetPin(r, u)
          \/ PinChecked(r) \/ Store(r) \/ Look(r)
          \/ \E allowed \in BOOLEAN : Settle(r, allowed)
          \/ Abort(r) \/ Race(r) \/ Audit(r)
    <3>1. \A k \in Keys : CanSend(k) \in BOOLEAN /\ CanWithdraw(k) \in BOOLEAN
      BY DEF CanSend, CanWithdraw, Sufficient
    <3>2. \A r \in Requests : SettleSend(r) \/ SettleWithdraw(r) => req[r].key \in Keys
      BY <1>0 DEF SettleSend, SettleWithdraw, At, Formed
    <3> QED
      BY <1>2, <3>1, <3>2 DEF Next, vars, Send, Withdraw, CheckPin, SettleSend, SettleWithdraw
  <2>2. CASE \E allowed \in BOOLEAN : Settle(r, allowed)
    <3>1. /\ req[r].at = "settle" /\ req[r].answer = "none"
          /\ postings' \subseteq postings \cup {[key |-> req[r].key, by |-> r]}
      BY <1>0, <2>2 DEF Settle, At, Formed
    <3>2. PICK step \in {"audit", "race"} : req' = [req EXCEPT ![r].at = step]
      BY <2>2 DEF Settle, Go
    <3>3. CASE p \in postings
      BY <1>0, <3>1, <3>2, <3>3 DEF MoversPast, PastSettling, RequestRow
    <3>4. CASE p \notin postings
      <4>1. p.key = req[r].key /\ p.by = r
        BY <3>1, <3>4
      <4> QED
        BY <1>0, <3>1, <3>2, <4>1 DEF PastSettling, RequestRow
    <3> QED BY <3>3, <3>4
  <2>3. CASE Race(r) \/ Audit(r)
    <3>1. p \in postings /\ req[r].at \in {"race", "audit"} /\ req[r].answer = "none"
      BY <1>0, <2>3 DEF Race, Audit, At, Formed
    <3>2. \/ Go(r, "audit") \/ Reply(r, "moved") \/ Reply(r, "error")
          \/ req[r].key \notin movement /\ Reply(r, "failed")
      BY <2>3 DEF Race, Audit
    <3> QED
      BY <1>0, <3>1, <3>2 DEF MoversPast, PastSettling, Go, Reply, RequestRow
  <2>4. CASE ~((\E allowed \in BOOLEAN : Settle(r, allowed)) \/ Race(r) \/ Audit(r))
    <3>1. p \in postings /\ req[r].at \in {"new", "pin", "store", "look", "settle"}
      BY <2>1, <2>4 DEF Tap, SetPin, PinChecked, Store, Look, Abort, At
    <3>2. p.by # r
      BY <3>1 DEF MoversPast, PastSettling
    <3>3. \E x : req' = [req EXCEPT ![r] = x]
      <4>1. ASSUME NEW step, Go(r, step) PROVE \E x : req' = [req EXCEPT ![r] = x]
        BY <4>1 DEF Go
      <4>2. ASSUME NEW answer, Reply(r, answer) PROVE \E x : req' = [req EXCEPT ![r] = x]
        BY <4>2 DEF Reply
      <4> QED
        BY <2>1, <2>4, <4>1, <4>2 DEF Tap, SetPin, PinChecked, Store, Look, Abort
    <3> QED
      BY <1>0, <3>1, <3>2, <3>3 DEF MoversPast, PastSettling
  <2> QED BY <2>2, <2>3, <2>4
<1> QED
  BY <1>1, <1>2

\* A request that moved the money is not refused, although the answer to its
\* commit may have been lost and although others raced it under its key.
THEOREM MoversAreNotRefused == Spec => []MoverIsNotRefused
<1>1. Init => MoversPast
  BY DEF Init, MoversPast
<1>2. MoversPast => MoverIsNotRefused
  BY DEF MoversPast, PastSettling, MoverIsNotRefused
<1> QED
  BY <1>1, <1>2, MoversStayPast, WalletInvariantHolds, PTL DEF Spec

-----------------------------------------------------------------------------
(* WalletMovements implements WalletPromise.                               *)

\* What the promise sees of the balances.
Purses == [u \in Users |-> Available(u)]
Reserves == [u \in Users |-> Reserved(u)]

\* Nothing is posted: the balances are as they were.
LEMMA BalancesRest ==
    ASSUME postings' = postings
    PROVE  Purses' = Purses /\ Reserves' = Reserves
BY DEF Purses, Reserves, Available, Reserved, Moved, Sent, Taken, Held

\* A request goes on, or is answered: only moved is told.
LEMMA RequestTells ==
    ASSUME WalletInv, NEW r \in Requests, NEW x, req' = [req EXCEPT ![r] = x],
           req[r].answer # "moved"
    PROVE  /\ x.answer # "moved" => Told' = Told
           /\ x.answer = "moved" => Told' = Told \cup {x.key}
<1>1. req \in [Requests -> RequestRow]
  BY DEF WalletInv, TypeOK, RequestRow, Ats
<1>2. req'[r] = x /\ \A q \in Requests \ {r} : req'[q] = req[q]
  BY <1>1
<1>3. Told' = {req'[q].key : q \in {s \in Requests : req'[s].answer = "moved"}}
  BY DEF Told
<1>4. ASSUME x.answer # "moved" PROVE Told' = Told
  <2>1. \A q \in Requests : /\ req'[q].answer = "moved" <=> req[q].answer = "moved"
                            /\ req[q].answer = "moved" => req'[q].key = req[q].key
    BY <1>2, <1>4
  <2> QED
    BY <1>3, <2>1 DEF Told
<1>5. ASSUME x.answer = "moved" PROVE Told' = Told \cup {x.key}
  <2>1. \A q \in Requests : /\ req'[q].answer = "moved" <=> (req[q].answer = "moved" \/ q = r)
                            /\ req[q].answer = "moved" => req'[q].key = req[q].key
                            /\ req'[r].key = x.key
    BY <1>2, <1>5
  <2>2. \A k : k \in Told' <=> \E q \in Requests : req'[q].answer = "moved" /\ k = req'[q].key
    BY <1>3
  <2>3. \A k : k \in Told <=> \E q \in Requests : req[q].answer = "moved" /\ k = req[q].key
    BY DEF Told
  <2>4. \A k : k \in Told' <=> k \in Told \/ k = x.key
    BY <2>1, <2>2, <2>3
  <2> QED
    BY <2>4
<1> QED
  BY <1>4, <1>5

\* A step on, or an answer, that moves nothing: the balances rest, and what is
\* told has moved.
LEMMA AnswerIsPromised ==
    ASSUME WalletInv, NEW r \in Requests, req[r].at # "done", UNCHANGED <<movement, postings>>,
           \/ \E step : Go(r, step)
           \/ \E answer : Reply(r, answer) /\ (answer = "moved" => req[r].key \in movement)
    PROVE  [Promised!Next]_(Promised!vars)
<1>0. req \in [Requests -> RequestRow] /\ req[r] \in RequestRow /\ req[r].answer = "none"
  BY DEF WalletInv, TypeOK, RequestRow, Ats, RequestsFormed, Formed
<1>1. Purses' = Purses /\ Reserves' = Reserves
  BY BalancesRest
<1>2. ASSUME Told' = Told PROVE UNCHANGED Promised!vars
  BY <1>1, <1>2 DEF Promised!vars, Purses, Reserves
<1>3. ASSUME NEW step, Go(r, step) PROVE Told' = Told
  <2>1. req' = [req EXCEPT ![r] = [req[r] EXCEPT !.at = step]]
    BY <1>3 DEF Go
  <2>2. [req[r] EXCEPT !.at = step].answer = "none"
    BY <1>0 DEF RequestRow
  <2> QED
    BY <1>0, <2>1, <2>2, RequestTells
<1>4. ASSUME NEW answer, Reply(r, answer), answer = "moved" => req[r].key \in movement
      PROVE  [Promised!Next]_(Promised!vars)
  <2> DEFINE x == [req[r] EXCEPT !.at = "done", !.answer = answer]
  <2>1. req' = [req EXCEPT ![r] = x]
    BY <1>0, <1>4 DEF Reply
  <2>2. x.answer = answer /\ x.key = req[r].key
    BY <1>0 DEF RequestRow
  <2> HIDE DEF x
  <2>3. CASE answer # "moved"
    BY <1>0, <1>2, <2>1, <2>2, <2>3, RequestTells
  <2>4. CASE answer = "moved" /\ req[r].key \in Told
    <3>1. Told' = Told \cup {req[r].key}
      BY <1>0, <2>1, <2>2, <2>4, RequestTells
    <3>2. Told' = Told
      BY <2>4, <3>1
    <3> QED
      BY <1>2, <3>2
  <2>5. CASE answer = "moved" /\ req[r].key \notin Told
    <3>1. Told' = Told \cup {req[r].key}
      BY <1>0, <2>1, <2>2, <2>5, RequestTells
    <3>2. req[r].key \in movement /\ req[r].key \in Keys
      BY <1>4, <2>5 DEF WalletInv, TypeOK
    <3>3. Promised!Tell(req[r].key)
      BY <1>1, <2>5, <3>1, <3>2 DEF Promised!Tell, Purses, Reserves
    <3> QED
      BY <3>2, <3>3 DEF Promised!Next
  <2> QED
    BY <2>3, <2>4, <2>5
<1> QED
  BY <1>2, <1>3, <1>4

\* The transaction of send or of withdraw: one transfer, one reservation, or
\* nothing at all.
LEMMA SettleIsPromised ==
    ASSUME WalletInv, NEW r \in Requests, NEW allowed \in BOOLEAN, Settle(r, allowed),
           allowed => Available(Order[req[r].key].from) >= Order[req[r].key].amount,
           allowed /\ Order[req[r].key].kind = "send" =>
               /\ Order[req[r].key].to # Order[req[r].key].from
               /\ {Order[req[r].key].from, Order[req[r].key].to} \subseteq Configured,
           allowed /\ Order[req[r].key].kind = "withdraw" => Order[req[r].key].from \in Configured
    PROVE  [Promised!Next]_(Promised!vars)
<1> DEFINE k == req[r].key
           p == [key |-> k, by |-> r]
           o == Order[k]
<1>0. /\ req[r].at = "settle" /\ k \in Keys
      /\ req \in [Requests -> RequestRow] /\ req[r] \in RequestRow /\ req[r].answer = "none"
  BY DEF WalletInv, TypeOK, RequestRow, Ats, RequestsFormed, Formed, Settle, At
<1>1. CASE ~(k \notin movement /\ allowed)
  <2>1. UNCHANGED <<movement, postings>> /\ \E step : Go(r, step)
    BY <1>1 DEF Settle
  <2> QED
    BY <1>0, <2>1, AnswerIsPromised
<1>2. CASE k \notin movement /\ allowed
  <2>0. PICK step \in {"audit", "race"} : Go(r, step)
    BY <1>2 DEF Settle
  <2>1. /\ movement' = movement \cup {k} /\ postings' = postings \cup {p}
        /\ req' = [req EXCEPT ![r] = [req[r] EXCEPT !.at = step]]
    BY <1>0, <1>2, <2>0 DEF Settle, Go
  <2>2. p \in [key: Keys, by: Requests] /\ p.key = k /\ p \notin postings
    BY <1>0, <1>2 DEF WalletInv, PostedOnce
  <2>3. Told' = Told
    <3>1. [req[r] EXCEPT !.at = step].answer = "none"
      BY <1>0 DEF RequestRow
    <3> QED
      BY <1>0, <2>1, <3>1, RequestTells
  <2>4. o.from \in Users /\ o.to \in Users /\ o.amount \in Nat /\ o.kind \in {"send", "withdraw"}
    BY <1>0, MovementAssumption
  <2>5. TypeOK /\ IsFiniteSet(postings)
    BY DEF WalletInv, PostedOnce
  <2>6. \A u \in Users : Available(u) \in Int /\ Reserved(u) \in Nat
    BY <2>5, BalancesAreNumbers
  <2>7. \A u \in Users :
          /\ Available(u)' = Available(u) + (IF o.kind = "send" /\ o.to = u THEN o.amount ELSE 0)
                                          - (IF o.from = u THEN o.amount ELSE 0)
          /\ Reserved(u)' = Reserved(u)
               + (IF o.kind = "withdraw" /\ o.from = u THEN o.amount ELSE 0)
    <3> HIDE DEF p
    <3> QED
      BY <2>1, <2>2, <2>5, PostingCounts
  <2>8. /\ Purses' = [u \in Users |-> Available(u)'] /\ Purses = [u \in Users |-> Available(u)]
        /\ Reserves' = [u \in Users |-> Reserved(u)'] /\ Reserves = [u \in Users |-> Reserved(u)]
    BY DEF Purses, Reserves
  <2>9. Purses[o.from] >= o.amount
    BY <1>2, <2>4, <2>8
  <2>10. CASE o.kind = "send"
    <3>1. o.from # o.to /\ {o.from, o.to} \subseteq Configured
      BY <1>2, <2>10
    <3> HIDE DEF o
    <3>2. Purses' = [Purses EXCEPT ![o.from] = @ - o.amount, ![o.to] = @ + o.amount]
      BY <2>4, <2>6, <2>7, <2>8, <2>10, <3>1
    <3>3. Reserves' = Reserves
      BY <2>4, <2>6, <2>7, <2>8, <2>10
    <3>4. Promised!Transfer(k)
      BY <1>0, <1>2, <2>1, <2>3, <2>9, <2>10, <3>1, <3>2, <3>3
         DEF Promised!Transfer, Promised!Covered, Purses, Reserves, o
    <3> QED
      BY <1>0, <3>4 DEF Promised!Next
  <2>11. CASE o.kind = "withdraw"
    <3>1. o.from \in Configured
      BY <1>2, <2>11
    <3> HIDE DEF o
    <3>2. Purses' = [Purses EXCEPT ![o.from] = @ - o.amount]
      BY <2>4, <2>6, <2>7, <2>8, <2>11
    <3>3. Reserves' = [Reserves EXCEPT ![o.from] = @ + o.amount]
      BY <2>4, <2>6, <2>7, <2>8, <2>11
    <3>4. Promised!Reserve(k)
      BY <1>0, <1>2, <2>1, <2>3, <2>9, <2>11, <3>1, <3>2, <3>3
         DEF Promised!Reserve, Promised!Covered, Purses, Reserves, o
    <3> QED
      BY <1>0, <3>4 DEF Promised!Next
  <2> QED
    BY <2>4, <2>10, <2>11
<1> QED
  BY <1>1, <1>2

\* Every step of the requests is a step the member was promised, or is not
\* seen by the member.
LEMMA StepIsPromised == WalletInv /\ [Next]_vars => [Promised!Next]_(Promised!vars)
<1> SUFFICES ASSUME WalletInv, [Next]_vars PROVE [Promised!Next]_(Promised!vars)
  OBVIOUS
<1>0. ASSUME UNCHANGED <<req, movement, postings>> PROVE UNCHANGED Promised!vars
  <2>1. Purses' = Purses /\ Reserves' = Reserves
    BY <1>0, BalancesRest
  <2>2. Told' = Told
    BY <1>0 DEF Told
  <2> QED
    BY <1>0, <2>1, <2>2 DEF Promised!vars, Purses, Reserves
<1>1. CASE UNCHANGED vars
  BY <1>0, <1>1 DEF vars
<1>2. ASSUME NEW r \in Requests,
             (\E k \in Keys : Send(r, k) \/ Withdraw(r, k)) \/ \E u \in Users : SetPin(r, u)
      PROVE  UNCHANGED Promised!vars
  <2>1. req[r].at = "new" /\ req[r].answer = "none" /\ UNCHANGED <<movement, postings>>
    BY <1>2 DEF Send, Withdraw, Tap, SetPin, At, WalletInv, RequestsFormed, Formed
  <2>2. \E x : req' = [req EXCEPT ![r] = x] /\ x.answer = "none"
    <3>1. ASSUME NEW k \in Keys, Tap(r, k)
          PROVE  \E x : req' = [req EXCEPT ![r] = x] /\ x.answer = "none"
      <4> WITNESS [at |-> "pin", user |-> Order[k].from, key |-> k, answer |-> "none"]
      <4> QED
        BY <3>1 DEF Tap
    <3>2. ASSUME NEW u \in Users, SetPin(r, u)
          PROVE  \E x : req' = [req EXCEPT ![r] = x] /\ x.answer = "none"
      <4> WITNESS [at |-> IF pin[u].version = 0 THEN "store" ELSE "pin",
                   user |-> u, key |-> None, answer |-> "none"]
      <4> QED
        BY <3>2 DEF SetPin
    <3> QED
      BY <1>2, <3>1, <3>2 DEF Send, Withdraw
  <2>3. Told' = Told
    BY <2>1, <2>2, RequestTells
  <2>4. Purses' = Purses /\ Reserves' = Reserves
    BY <2>1, BalancesRest
  <2> QED
    BY <2>1, <2>3, <2>4 DEF Promised!vars, Purses, Reserves
<1>3. ASSUME NEW r \in Requests, CheckPin(r) PROVE UNCHANGED Promised!vars
  BY <1>0, <1>3 DEF CheckPin
<1>4. ASSUME NEW r \in Requests,
             PinChecked(r) \/ Store(r) \/ Look(r) \/ Abort(r) \/ Race(r) \/ Audit(r)
      PROVE  [Promised!Next]_(Promised!vars)
  <2>1. /\ req[r].at # "done" /\ UNCHANGED <<movement, postings>>
        /\ req[r].at = "audit" => req[r].key \in movement
    BY <1>4 DEF PinChecked, Store, Look, Abort, Race, Audit, At, WalletInv, RequestsFormed, Formed
  <2>2. \/ \E step : Go(r, step)
        \/ \E answer : Reply(r, answer) /\ (answer = "moved" => req[r].key \in movement)
    BY <1>4, <2>1 DEF PinChecked, Store, Look, Abort, Race, Audit, At
  <2> QED
    BY <2>1, <2>2, AnswerIsPromised
<1>5. ASSUME NEW r \in Requests, SettleSend(r) PROVE [Promised!Next]_(Promised!vars)
  <2> DEFINE allowed == CanSend(req[r].key)
  <2>1. allowed \in BOOLEAN
    BY DEF CanSend
  <2>2. Settle(r, allowed) /\ Order[req[r].key].kind = "send"
    BY <1>5 DEF SettleSend
  <2>3. /\ allowed => Available(Order[req[r].key].from) >= Order[req[r].key].amount
        /\ allowed => /\ Order[req[r].key].to # Order[req[r].key].from
                      /\ {Order[req[r].key].from, Order[req[r].key].to} \subseteq Configured
    BY DEF CanSend, Sufficient
  <2> HIDE DEF allowed
  <2> QED
    BY <2>1, <2>2, <2>3, SettleIsPromised
<1>6. ASSUME NEW r \in Requests, SettleWithdraw(r) PROVE [Promised!Next]_(Promised!vars)
  <2> DEFINE allowed == CanWithdraw(req[r].key)
  <2>1. allowed \in BOOLEAN
    BY DEF CanWithdraw, Sufficient
  <2>2. Settle(r, allowed) /\ Order[req[r].key].kind = "withdraw"
    BY <1>6 DEF SettleWithdraw
  <2>3. /\ allowed => Available(Order[req[r].key].from) >= Order[req[r].key].amount
        /\ allowed => Order[req[r].key].from \in Configured
    BY DEF CanWithdraw, Sufficient
  <2> HIDE DEF allowed
  <2> QED
    BY <2>1, <2>2, <2>3, SettleIsPromised
<1>7. ASSUME NEW u \in Users, LockElapses(u), UNCHANGED <<req, movement, postings>>
      PROVE  UNCHANGED Promised!vars
  BY <1>0, <1>7
<1> QED
  BY <1>1, <1>2, <1>3, <1>4, <1>5, <1>6, <1>7 DEF Next

\* send and withdraw, with everything that may interleave, abort or be tapped
\* again, implement the promise: each movement is one instant in which the
\* balances change by its order, and only of a movement that happened is anyone
\* told.
THEOREM MovementsKeepPromise == Spec => MovesAsPromised
<1>1. Init => Promised!Init
  <2> SUFFICES ASSUME Init PROVE Promised!Init
    OBVIOUS
  <2>1. ASSUME NEW u \in Users PROVE Available(u) = Opening[u] /\ Reserved(u) = 0
    <3> DEFINE f == [p \in postings |-> Order[p.key].amount]
    <3>1. Sent(u) = {} /\ Taken(u) = {} /\ Held(u) = {}
      BY DEF Init, Sent, Taken, Held
    <3>2. SumFunctionOnSet(f, {}) = 0
      BY SumEmpty
    <3>3. Opening[u] \in Nat
      BY MovementAssumption
    <3> QED
      BY <3>1, <3>2, <3>3 DEF Available, Reserved, Moved
  <2>2. Purses = Opening /\ Reserves = [u \in Users |-> 0]
    BY <2>1, MovementAssumption DEF Purses, Reserves
  <2>3. Told = {} /\ movement = {}
    BY DEF Init, Told, NoRequest
  <2> QED
    BY <2>2, <2>3 DEF Promised!Init, Purses, Reserves
<1> QED
  BY <1>1, StepIsPromised, WalletInvariantHolds, PTL DEF Spec, MovesAsPromised, Promised!Spec

-----------------------------------------------------------------------------
(* The copied catalogue.                                                   *)

StoredRow == [build: Servers, expired: BOOLEAN, biller: BOOLEAN,
              product: [Products -> [active: BOOLEAN, terms: Terms \cup {Nothing}]]]
CopyRow == [at: {"idle", "category", "biller", "products", "retire"}, left: SUBSET Products]

CatalogueTyped ==
    /\ stored \in StoredRow
    /\ copying \in [Servers -> CopyRow]
    /\ lone \in Servers \cup {Nothing} /\ copied \in Servers \cup {Nothing}

\* Nothing runs beside the lone refresh, and nothing since the one that ended.
RunsAlone ==
    /\ \A w \in Servers : copying[w].at # "products" => copying[w].left = {}
    /\ lone # Nothing => \A v \in Servers \ {lone} : copying[v].at = "idle"
    /\ copied # Nothing => \A v \in Servers : copying[v].at = "idle"

Sold(w, p) == stored.product[p].active /\ stored.product[p].terms = Catalogue[w].terms[p]
OnSale(w) ==
    \A p \in Products : /\ stored.product[p].active <=> p \in Listed(w)
                        /\ stored.product[p].active => Sold(w, p)

\* How far the lone refresh has come.
HalfCopied(w) ==
    /\ copying[w].at \in {"biller", "products", "retire"} => stored.build = w
    /\ copying[w].at = "products" =>
        /\ Catalogue[w].biller /\ stored.biller /\ copying[w].left \subseteq Listed(w)
        /\ \A p \in Listed(w) \ copying[w].left : Sold(w, p)
    /\ copying[w].at = "retire" /\ Catalogue[w].biller => stored.biller /\ OnSale(w)

CopyInv ==
    /\ CatalogueTyped
    /\ RunsAlone
    /\ lone # Nothing => HalfCopied(lone)
    /\ CatalogueIsCopied

\* A refresh steps to another place: what the invariant asks of the step.
LEMMA CopyStep ==
    ASSUME CopyInv, NEW w \in Servers, NEW x \in CopyRow, copying[w].at # "idle",
           copying' = [copying EXCEPT ![w] = x], lone' = lone,
           stored' \in StoredRow, copied' \in {copied, Nothing},
           x.at # "products" => x.left = {},
           lone = w /\ w # Nothing => HalfCopied(w)'
    PROVE  CopyInv'
<1>0. copying \in [Servers -> CopyRow] /\ copied = Nothing
  BY DEF CopyInv, CatalogueTyped, RunsAlone
<1>1. CatalogueTyped'
  BY <1>0 DEF CopyInv, CatalogueTyped
<1>2. RunsAlone'
  BY <1>0 DEF CopyInv, RunsAlone, CatalogueTyped
<1>3. lone' # Nothing => HalfCopied(lone)'
  BY DEF CopyInv, RunsAlone
<1>4. CatalogueIsCopied'
  BY <1>0 DEF CatalogueIsCopied
<1> QED
  BY <1>1, <1>2, <1>3, <1>4 DEF CopyInv

\* The catalogue as a lone server left it.
LEMMA CopyInitInv == OrdersInit => CopyInv
<1> SUFFICES ASSUME OrdersInit PROVE CopyInv
  OBVIOUS
<1>1. stored \in StoredRow
  <2>1. PICK w \in Servers : stored =
          [build |-> w, expired |-> FALSE, biller |-> Catalogue[w].biller,
           product |-> [p \in Products |-> [active |-> Catalogue[w].terms[p] # Nothing,
                                            terms |-> Catalogue[w].terms[p]]]]
    BY DEF OrdersInit
  <2>2. Catalogue[w].biller \in BOOLEAN /\ Catalogue[w].terms \in [Products -> Terms \cup {Nothing}]
    BY OrdersAssumption DEF Listing
  <2>3. \A p \in Products : (Catalogue[w].terms[p] # Nothing) \in BOOLEAN
    OBVIOUS
  <2> QED BY <2>1, <2>2, <2>3, Zenon DEF StoredRow
<1>2. CatalogueTyped /\ RunsAlone
  BY <1>1 DEF OrdersInit, CatalogueTyped, RunsAlone, CopyRow
<1>3. lone = Nothing /\ copied = Nothing
  BY DEF OrdersInit
<1> QED
  BY <1>2, <1>3 DEF CopyInv, CatalogueIsCopied

\* refreshCatalogIfNeeded starts.
LEMMA RefreshInv ==
    ASSUME CopyInv, NEW w \in Servers, RefreshCatalogIfNeeded(w)
    PROVE  CopyInv'
<1> DEFINE x == [at |-> "category", left |-> {}]
<1>0. /\ copying \in [Servers -> CopyRow] /\ copying' = [copying EXCEPT ![w] = x]
      /\ stored' = stored /\ copied' = Nothing
      /\ lone' = IF \E v \in Servers : copying[v].at # "idle" THEN Nothing ELSE w
  BY DEF CopyInv, CatalogueTyped, RefreshCatalogIfNeeded, Copy
<1>1. x \in CopyRow
  BY DEF CopyRow
<1>2. CatalogueTyped'
  BY <1>0, <1>1 DEF CopyInv, CatalogueTyped
<1>3. RunsAlone'
  BY <1>0 DEF CopyInv, RunsAlone
<1>4. lone' # Nothing => HalfCopied(lone)'
  BY <1>0 DEF HalfCopied
<1> QED
  BY <1>0, <1>2, <1>3, <1>4 DEF CopyInv, CatalogueIsCopied

\* The rows of the catalogue have their types.
LEMMA ListingOf ==
    ASSUME NEW w \in Servers
    PROVE  /\ Catalogue[w].biller \in BOOLEAN
           /\ Catalogue[w].terms \in [Products -> Terms \cup {Nothing}]
           /\ Listed(w) \in SUBSET Products
BY OrdersAssumption DEF Listing, Listed

\* The category, and the biller.
LEMMA UpsertInv ==
    ASSUME CopyInv, NEW w \in Servers, UpsertCategory(w) \/ UpsertBiller(w)
    PROVE  CopyInv'
<1>0. /\ copying \in [Servers -> CopyRow] /\ stored \in StoredRow /\ lone' = lone /\ copied' = copied
      /\ copying[w].at # "idle"
  BY DEF CopyInv, CatalogueTyped, UpsertCategory, UpsertBiller
<1>1. CASE UpsertCategory(w)
  <2> DEFINE x == [at |-> "biller", left |-> {}]
  <2>1. x \in CopyRow /\ copying' = [copying EXCEPT ![w] = x]
    BY <1>1 DEF UpsertCategory, Copy, CopyRow
  <2>2. stored' = [stored EXCEPT !.build = w, !.expired = FALSE]
    BY <1>1 DEF UpsertCategory
  <2>3. stored' \in StoredRow /\ stored'.build = w
    BY <1>0, <2>2 DEF StoredRow
  <2>4. HalfCopied(w)'
    BY <1>0, <2>1, <2>3 DEF HalfCopied
  <2> QED BY <1>0, <2>1, <2>3, <2>4, CopyStep
<1>2. CASE UpsertBiller(w) /\ Catalogue[w].biller
  <2> DEFINE x == [at |-> "products", left |-> Listed(w)]
  <2>1. x \in CopyRow /\ copying' = [copying EXCEPT ![w] = x]
    BY <1>2, ListingOf DEF UpsertBiller, Copy, CopyRow
  <2>2. stored' = [stored EXCEPT !.biller = TRUE]
    BY <1>2 DEF UpsertBiller
  <2>3. stored' \in StoredRow /\ stored'.biller /\ stored'.build = stored.build
    BY <1>0, <2>2 DEF StoredRow
  <2>4. lone = w /\ w # Nothing => stored.build = w
    BY <1>2 DEF CopyInv, HalfCopied, UpsertBiller, CatalogueTyped
  <2>5. lone = w /\ w # Nothing => HalfCopied(w)'
    BY <1>0, <1>2, <2>1, <2>3, <2>4 DEF HalfCopied, Listed
  <2> QED BY <1>0, <2>1, <2>3, <2>5, CopyStep
<1>3. CASE UpsertBiller(w) /\ ~Catalogue[w].biller
  <2> DEFINE x == [at |-> "retire", left |-> {}]
  <2>1. x \in CopyRow /\ copying' = [copying EXCEPT ![w] = x] /\ stored' = stored
    BY <1>3 DEF UpsertBiller, Copy, CopyRow
  <2>2. lone = w /\ w # Nothing => stored.build = w
    BY <1>3 DEF CopyInv, HalfCopied, UpsertBiller, CatalogueTyped
  <2>3. lone = w /\ w # Nothing => HalfCopied(w)'
    BY <1>0, <1>3, <2>1, <2>2 DEF HalfCopied
  <2> QED BY <1>0, <2>1, <2>3, CopyStep
<1> QED
  BY <1>1, <1>2, <1>3

\* One product and its terms.
LEMMA ProductInv ==
    ASSUME CopyInv, NEW w \in Servers, NEW p \in Products, UpsertProduct(w, p)
    PROVE  CopyInv'
<1> DEFINE row == [active |-> TRUE, terms |-> Catalogue[w].terms[p]]
           x == [at |-> "products", left |-> copying[w].left \ {p}]
<1>0. /\ copying \in [Servers -> CopyRow] /\ stored \in StoredRow /\ lone' = lone /\ copied' = copied
      /\ copying[w].at = "products" /\ p \in copying[w].left
  BY DEF CopyInv, CatalogueTyped, RunsAlone, UpsertProduct
<1>1. x \in CopyRow /\ copying' = [copying EXCEPT ![w] = x]
  BY <1>0 DEF UpsertProduct, Copy, CopyRow
<1>2. row \in [active: BOOLEAN, terms: Terms \cup {Nothing}]
  BY ListingOf
<1>3. stored' = [stored EXCEPT !.product[p] = row]
  BY DEF UpsertProduct
<1>4. /\ stored'.build = stored.build /\ stored'.biller = stored.biller
      /\ stored'.product = [stored.product EXCEPT ![p] = row]
      /\ stored.product \in [Products -> [active: BOOLEAN, terms: Terms \cup {Nothing}]]
  BY <1>0, <1>3 DEF StoredRow
<1>5. stored' \in StoredRow
  <2> HIDE DEF row
  <2> QED BY <1>0, <1>2, <1>3 DEF StoredRow
<1>6. ASSUME lone = w, w # Nothing PROVE HalfCopied(w)'
  <2>1. HalfCopied(w)
    BY <1>6 DEF CopyInv, CatalogueTyped
  <2>2. \A q \in Listed(w) \ (copying[w].left \ {p}) : Sold(w, q)'
    <3> SUFFICES ASSUME NEW q \in Listed(w) \ (copying[w].left \ {p}) PROVE Sold(w, q)'
      OBVIOUS
    <3>0. q \in Products
      BY DEF Listed
    <3>1. CASE q = p
      BY <1>4, <3>1, <3>0 DEF Sold
    <3>2. CASE q # p
      BY <1>0, <1>4, <2>1, <3>0, <3>2 DEF Sold, HalfCopied
    <3> QED BY <3>1, <3>2
  <2> QED BY <1>0, <1>1, <1>4, <2>1, <2>2 DEF HalfCopied, Listed
<1> QED
  BY <1>0, <1>1, <1>5, <1>6, CopyStep

\* The products that are listed no more.
LEMMA RetireProductsInv ==
    ASSUME CopyInv, NEW w \in Servers, RetireProducts(w)
    PROVE  CopyInv'
<1> DEFINE rows == [p \in Products |-> IF p \in Listed(w) THEN stored.product[p]
                                       ELSE [stored.product[p] EXCEPT !.active = FALSE]]
           x == [at |-> "retire", left |-> {}]
<1>0. /\ copying \in [Servers -> CopyRow] /\ stored \in StoredRow /\ lone' = lone /\ copied' = copied
      /\ copying[w].at = "products" /\ copying[w].left = {}
  BY DEF CopyInv, CatalogueTyped, RetireProducts
<1>1. x \in CopyRow /\ copying' = [copying EXCEPT ![w] = x]
  BY <1>0 DEF RetireProducts, Copy, CopyRow
<1>2. stored' = [stored EXCEPT !.product = rows]
  BY DEF RetireProducts
<1>3. rows \in [Products -> [active: BOOLEAN, terms: Terms \cup {Nothing}]]
  BY <1>0 DEF StoredRow
<1>4. /\ stored' \in StoredRow /\ stored'.build = stored.build /\ stored'.biller = stored.biller
      /\ stored'.product = rows
  <2> HIDE DEF rows
  <2> QED BY <1>0, <1>2, <1>3 DEF StoredRow
<1>5. ASSUME lone = w, w # Nothing PROVE HalfCopied(w)'
  <2>1. HalfCopied(w)
    BY <1>5 DEF CopyInv, CatalogueTyped
  <2>2. /\ stored.build = w /\ stored.biller
        /\ \A p \in Listed(w) : Sold(w, p)
    BY <1>0, <2>1 DEF HalfCopied
  <2>3. ASSUME NEW p \in Products
        PROVE  /\ rows[p].active <=> p \in Listed(w)
               /\ rows[p].active => rows[p].terms = Catalogue[w].terms[p]
    <3>1. stored.product[p] \in [active: BOOLEAN, terms: Terms \cup {Nothing}]
      BY <1>0 DEF StoredRow
    <3>2. CASE p \in Listed(w)
      BY <2>2, <3>2 DEF Sold
    <3>3. CASE p \notin Listed(w)
      BY <3>1, <3>3
    <3> QED BY <3>2, <3>3
  <2>4. OnSale(w)'
    <3> HIDE DEF rows
    <3> QED BY <1>4, <2>3 DEF OnSale, Sold, Listed
  <2> QED BY <1>0, <1>1, <1>4, <2>2, <2>4 DEF HalfCopied
<1> QED
  BY <1>0, <1>1, <1>4, <1>5, CopyStep

\* The last statement of syncBillCatalog: a refresh that ran alone has copied the
\* catalogue.
LEMMA RetireBillersInv ==
    ASSUME CopyInv, NEW w \in Servers, RetireBillers(w)
    PROVE  CopyInv'
<1> DEFINE x == [at |-> "idle", left |-> {}]
           listed == stored.biller /\ Catalogue[w].biller
<1>0. /\ copying \in [Servers -> CopyRow] /\ stored \in StoredRow /\ lone' = lone
      /\ copying[w].at = "retire" /\ copied' = IF lone = w THEN w ELSE Nothing
      /\ lone \in Servers \cup {Nothing}
  BY DEF CopyInv, CatalogueTyped, RetireBillers
<1>1. x \in CopyRow /\ copying' = [copying EXCEPT ![w] = x]
  BY <1>0 DEF RetireBillers, Copy, CopyRow
<1>2. stored' = [stored EXCEPT !.biller = listed] /\ listed \in BOOLEAN
  BY DEF RetireBillers
<1>3. /\ stored' \in StoredRow /\ stored'.build = stored.build /\ stored'.biller = listed
      /\ stored'.product = stored.product
  <2> HIDE DEF listed
  <2> QED BY <1>0, <1>2 DEF StoredRow
<1>4. CatalogueTyped'
  BY <1>0, <1>1, <1>3 DEF CatalogueTyped
<1>5. RunsAlone'
  BY <1>0, <1>1 DEF CopyInv, RunsAlone
<1>6. lone' # Nothing => HalfCopied(lone)'
  <2>1. lone # Nothing => copying'[lone].at = "idle"
    BY <1>0, <1>1 DEF CopyInv, RunsAlone
  <2> QED BY <1>0, <2>1 DEF HalfCopied
<1>7. CatalogueIsCopied'
  <2> SUFFICES ASSUME copied' # Nothing PROVE CatalogueIsCopied'
    BY DEF CatalogueIsCopied
  <2>1. lone = w /\ copied' = w /\ HalfCopied(w)
    BY <1>0 DEF CopyInv
  <2>2. stored'.build = w
    BY <1>0, <1>3, <2>1 DEF HalfCopied
  <2>3. CASE Catalogue[w].biller
    <3>1. stored.biller /\ OnSale(w)
      BY <1>0, <2>1, <2>3 DEF HalfCopied
    <3>2. listed = TRUE /\ Catalogue[w].biller = TRUE
      BY <2>3, <3>1, ListingOf
    <3>3. OnSale(w)'
      BY <1>3, <3>1 DEF OnSale, Sold, Listed
    <3>4. stored'.biller = Catalogue[w].biller
      BY <1>3, <3>2
    <3> HIDE DEF listed
    <3> QED BY <2>1, <2>2, <3>3, <3>4 DEF CatalogueIsCopied, OnSale, Sold, Listed
  <2>4. CASE ~Catalogue[w].biller
    <3>1. listed = FALSE /\ Catalogue[w].biller = FALSE
      BY <2>4, ListingOf
    <3>2. stored'.biller = FALSE
      BY <1>3, <3>1
    <3> HIDE DEF listed
    <3> QED BY <2>1, <2>2, <3>1, <3>2 DEF CatalogueIsCopied
  <2> QED BY <2>3, <2>4
<1> QED
  BY <1>4, <1>5, <1>6, <1>7 DEF CopyInv

\* A server dies, the copy expires, or something happens to orders.
LEMMA CopyFrameInv ==
    ASSUME CopyInv,
           (\E w \in Servers : CopyingStops(w)) \/ CatalogueExpires \/ UNCHANGED catalogueVars
    PROVE  CopyInv'
<1>1. ASSUME NEW w \in Servers, CopyingStops(w) PROVE CopyInv'
  <2> DEFINE x == [at |-> "idle", left |-> {}]
  <2>1. x \in CopyRow /\ copying' = [copying EXCEPT ![w] = x] /\ copying[w].at # "idle"
        /\ lone' = lone /\ copied' = copied /\ stored' = stored
    BY <1>1 DEF CopyingStops, Copy, CopyRow
  <2>2. stored' \in StoredRow /\ copying \in [Servers -> CopyRow]
    BY <2>1 DEF CopyInv, CatalogueTyped
  <2>3. HalfCopied(w)'
    BY <2>1, <2>2 DEF HalfCopied
  <2> QED BY <2>1, <2>2, <2>3, CopyStep
<1>2. CASE CatalogueExpires
  <2>1. /\ stored' = [stored EXCEPT !.expired = TRUE] /\ UNCHANGED <<copying, lone, copied>>
        /\ stored \in StoredRow
    BY <1>2 DEF CatalogueExpires, CopyInv, CatalogueTyped
  <2>2. /\ stored' \in StoredRow /\ stored'.build = stored.build
        /\ stored'.biller = stored.biller /\ stored'.product = stored.product
    BY <2>1 DEF StoredRow
  <2>3. CatalogueTyped' /\ RunsAlone'
    BY <2>1, <2>2 DEF CopyInv, CatalogueTyped, RunsAlone
  <2>4. lone' # Nothing => HalfCopied(lone)'
    BY <2>1, <2>2 DEF CopyInv, HalfCopied, OnSale, Sold, Listed
  <2>5. CatalogueIsCopied'
    BY <2>1, <2>2 DEF CopyInv, CatalogueIsCopied, Listed
  <2> QED BY <2>3, <2>4, <2>5 DEF CopyInv
<1>3. CASE UNCHANGED catalogueVars
  BY <1>3 DEF catalogueVars, CopyInv, CatalogueTyped, RunsAlone, HalfCopied, OnSale, Sold,
              Listed, CatalogueIsCopied
<1> QED
  BY <1>1, <1>2, <1>3

\* What the catalogue promises, whatever the orders do.
LEMMA CopyNextInv == CopyInv /\ [OrdersNext]_ordersVars => CopyInv'
<1> SUFFICES ASSUME CopyInv, [OrdersNext]_ordersVars PROVE CopyInv'
  OBVIOUS
<1>1. CASE UNCHANGED ordersVars
  BY <1>1, CopyFrameInv DEF ordersVars
<1>2. ASSUME NEW w \in Servers,
             \/ RefreshCatalogIfNeeded(w) \/ UpsertCategory(w) \/ UpsertBiller(w)
             \/ RetireProducts(w) \/ RetireBillers(w) \/ CopyingStops(w)
             \/ \E p \in Products : UpsertProduct(w, p)
      PROVE  CopyInv'
  BY <1>2, RefreshInv, UpsertInv, RetireProductsInv, RetireBillersInv, CopyFrameInv, ProductInv
<1>3. CASE CatalogueExpires
  BY <1>3, CopyFrameInv
<1>4. ASSUME NEW k \in Checks,
             \/ \E p \in Products \cup {Nothing}, s \in Spellings : ValidateCustomer(k, p, s)
             \/ CheckExpires(k)
      PROVE  CopyInv'
  BY <1>4, CopyFrameInv DEF ValidateCustomer, CheckExpires
<1>5. ASSUME NEW i \in Intents,
             (\E k \in Checks, a \in Prices : CreateIntent(i, k, a)) \/ IntentLapses(i)
      PROVE  CopyInv'
  BY <1>5, CopyFrameInv DEF CreateIntent, IntentLapses
<1>6. ASSUME NEW c \in Clients,
             \/ \E i \in Intents, s \in Spellings : Confirm(c, i, s)
             \/ \E key \in BillKeys, k \in Checks, s \in Spellings, a \in Prices :
                 Create(c, key, k, s, a)
             \/ RecordIntentPayment(c) \/ RecordBill(c) \/ FindBill(c) \/ Pay(c) \/ Leave(c)
      PROVE  CopyInv'
  BY <1>6, CopyFrameInv DEF Confirm, Create, RecordIntentPayment, RecordBill, FindBill, Pay, Leave
<1> QED
  BY <1>1, <1>2, <1>3, <1>4, <1>5, <1>6 DEF OrdersNext

-----------------------------------------------------------------------------
(* Orders of bills.                                                        *)

CheckedRow == [state: {"none", "valid", "invalid", "expired"},
               product: Products \cup {Nothing}, number: Numbers \cup {Nothing}]
IntentRow == [status: {"none", "open", "lapsed", "PROCESSING"},
              check: Checks \cup {Nothing}, amount: Prices \cup {Nothing}]
BillRow == [check: Checks \cup {Nothing}, amount: Prices \cup {Nothing},
            paidFor: Numbers \cup {Nothing}, sends: Nat]
ClientRow == [at: {"away", "record", "send", "billed"},
              order: Intents \cup BillKeys \cup {Nothing}, check: Checks \cup {Nothing},
              number: Numbers \cup {Nothing}, amount: Prices \cup {Nothing}]

OrdersTyped ==
    /\ checked \in [Checks -> CheckedRow]
    /\ intent \in [Intents -> IntentRow]
    /\ bill \in [Intents \cup BillKeys -> BillRow]
    /\ client \in [Clients -> ClientRow]

\* A check the provider recognised, current or not.
Known(k) == k \in Checks /\ checked[k].state \in {"valid", "expired"}
ChecksFormed == \A k \in Checks : Known(k) => checked[k].number \in Numbers \cap Recognised

\* An intent is for a known check.
IntentsFormed ==
    \A i \in Intents : intent[i].status # "none" => /\ Known(intent[i].check)
                                                    /\ intent[i].amount \in Prices

\* The bill of an intent, or of a key, has been written.
Recorded(o) == IF o \in Intents THEN intent[o].status = "PROCESSING" ELSE bill[o].check \in Checks
BillFormed(o) ==
    /\ ~Recorded(o) => bill[o] = NoBill
    /\ bill[o].sends <= 1
    /\ bill[o].sends = 1 => /\ Known(bill[o].check)
                            /\ bill[o].paidFor = checked[bill[o].check].number
                            /\ bill[o].paidFor \in Recognised
BillsFormed == \A o \in Intents \cup BillKeys : BillFormed(o)

\* A request under way is for a known check and its number, and past its
\* transaction for the bill that is recorded.
ClientFormed(x) ==
    x.at # "away" =>
        /\ x.order \in Intents \cup BillKeys
        /\ Known(x.check) /\ x.number = checked[x.check].number /\ x.amount \in Prices
        /\ x.order \in Intents => /\ intent[x.order].status # "none"
                                  /\ x.check = intent[x.order].check
                                  /\ x.amount = intent[x.order].amount
        /\ x.at \in {"send", "billed"} => /\ Recorded(x.order)
                                          /\ bill[x.order].check = x.check
                                          /\ bill[x.order].amount = x.amount
        /\ x.at = "send" => bill[x.order].sends = 0
ClientsFormed == \A c \in Clients : ClientFormed(client[c])

\* One request at most is about to call the provider for a bill.
OneSender ==
    \A c, d \in Clients :
        client[c].at = "send" /\ client[d].at = "send" /\ client[c].order = client[d].order => c = d

OrderInv ==
    /\ OrdersTyped
    /\ ChecksFormed /\ IntentsFormed /\ BillsFormed
    /\ ClientsFormed /\ OneSender

\* Nothing is checked or ordered yet.
LEMMA OrderInitInv == OrdersInit => OrderInv
<1> SUFFICES ASSUME OrdersInit PROVE OrderInv
  OBVIOUS
<1>1. OrdersTyped
  BY DEF OrdersInit, OrdersTyped, CheckedRow, IntentRow, BillRow, ClientRow, Unchecked, NoIntent,
         NoBill, Away
<1>2. ChecksFormed /\ IntentsFormed
  BY DEF OrdersInit, ChecksFormed, Known, IntentsFormed, Unchecked, NoIntent
<1>3. BillsFormed
  BY DEF OrdersInit, BillsFormed, BillFormed, NoBill
<1>4. ClientsFormed /\ OneSender
  BY DEF OrdersInit, ClientsFormed, ClientFormed, OneSender, Away
<1> QED
  BY <1>1, <1>2, <1>3, <1>4 DEF OrderInv

\* A check is filled in once, and then only expires: nothing known is forgotten.
LEMMA CheckInv ==
    ASSUME OrderInv, NEW k \in Checks,
           \/ \E p \in Products \cup {Nothing}, s \in Spellings : ValidateCustomer(k, p, s)
           \/ CheckExpires(k)
    PROVE  OrderInv'
<1>0. checked \in [Checks -> CheckedRow] /\ UNCHANGED <<intent, bill, client>>
  BY DEF OrderInv, OrdersTyped, ValidateCustomer, CheckExpires
<1>1. PICK x \in CheckedRow :
        /\ checked' = [checked EXCEPT ![k] = x]
        /\ Known(k) => x.state \in {"valid", "expired"} /\ x.number = checked[k].number
        /\ x.state \in {"valid", "expired"} => x.number \in Numbers \cap Recognised
  <2>1. ASSUME NEW p \in Products \cup {Nothing}, NEW s \in Spellings, ValidateCustomer(k, p, s)
        PROVE  \E x \in CheckedRow :
                 /\ checked' = [checked EXCEPT ![k] = x]
                 /\ Known(k) => x.state \in {"valid", "expired"} /\ x.number = checked[k].number
                 /\ x.state \in {"valid", "expired"} => x.number \in Numbers \cap Recognised
    <3> DEFINE x == [state |-> IF Normalised[s] \in Recognised THEN "valid" ELSE "invalid",
                     product |-> p, number |-> Normalised[s]]
    <3>1. x \in CheckedRow
      BY DEF CheckedRow, Numbers
    <3>2. /\ checked' = [checked EXCEPT ![k] = x] /\ ~Known(k)
          /\ x.state \in {"valid", "expired"} => x.number \in Numbers \cap Recognised
      BY <2>1 DEF ValidateCustomer, Known, Numbers
    <3> QED BY <3>1, <3>2
  <2>2. ASSUME CheckExpires(k)
        PROVE  \E x \in CheckedRow :
                 /\ checked' = [checked EXCEPT ![k] = x]
                 /\ Known(k) => x.state \in {"valid", "expired"} /\ x.number = checked[k].number
                 /\ x.state \in {"valid", "expired"} => x.number \in Numbers \cap Recognised
    <3> DEFINE x == [checked[k] EXCEPT !.state = "expired"]
    <3>1. x \in CheckedRow /\ x.state = "expired" /\ x.number = checked[k].number
      BY <1>0 DEF CheckedRow
    <3>2. checked' = [checked EXCEPT ![k] = x] /\ Known(k)
      BY <1>0, <2>2 DEF CheckExpires, Known
    <3>3. checked[k].number \in Numbers \cap Recognised
      BY <3>2 DEF OrderInv, ChecksFormed
    <3> HIDE DEF x
    <3> QED BY <3>1, <3>2, <3>3
  <2> QED BY <2>1, <2>2
<1>2. \A j : Known(j) => Known(j)' /\ checked'[j].number = checked[j].number
  BY <1>0, <1>1 DEF Known
<1>3. OrdersTyped'
  BY <1>0, <1>1 DEF OrderInv, OrdersTyped
<1>4. ChecksFormed'
  BY <1>0, <1>1 DEF OrderInv, ChecksFormed, Known
<1>5. IntentsFormed'
  BY <1>0, <1>2 DEF OrderInv, IntentsFormed
<1>6. BillsFormed'
  BY <1>0, <1>2 DEF OrderInv, BillsFormed, BillFormed, Recorded
<1>7. ClientsFormed' /\ OneSender'
  BY <1>0, <1>2 DEF OrderInv, ClientsFormed, ClientFormed, Recorded, OneSender
<1> QED
  BY <1>3, <1>4, <1>5, <1>6, <1>7 DEF OrderInv

\* An intent is created for a current check, or lapses.
LEMMA IntentInv ==
    ASSUME OrderInv, NEW i \in Intents,
           (\E k \in Checks, a \in Prices : CreateIntent(i, k, a)) \/ IntentLapses(i)
    PROVE  OrderInv'
<1>0. intent \in [Intents -> IntentRow] /\ UNCHANGED <<checked, bill, client>>
  BY DEF OrderInv, OrdersTyped, CreateIntent, IntentLapses
<1>1. PICK x \in IntentRow :
        /\ intent' = [intent EXCEPT ![i] = x]
        /\ x.status \in {"open", "lapsed"} /\ intent[i].status # "PROCESSING"
        /\ Known(x.check) /\ x.amount \in Prices
        /\ intent[i].status # "none" => x.check = intent[i].check /\ x.amount = intent[i].amount
  <2>1. ASSUME NEW k \in Checks, NEW a \in Prices, CreateIntent(i, k, a)
        PROVE  \E x \in IntentRow :
                /\ intent' = [intent EXCEPT ![i] = x]
                /\ x.status \in {"open", "lapsed"} /\ intent[i].status # "PROCESSING"
                /\ Known(x.check) /\ x.amount \in Prices
                /\ intent[i].status # "none" => x.check = intent[i].check /\ x.amount = intent[i].amount
    <3> DEFINE x == [status |-> "open", check |-> k, amount |-> a]
    <3>1. x \in IntentRow /\ x.status = "open" /\ x.check = k /\ x.amount = a
      BY DEF IntentRow
    <3>2. intent' = [intent EXCEPT ![i] = x] /\ intent[i].status = "none" /\ Known(k)
      BY <2>1 DEF CreateIntent, Quotable, Known
    <3> HIDE DEF x
    <3> QED BY <3>1, <3>2
  <2>2. ASSUME IntentLapses(i)
        PROVE  \E x \in IntentRow :
                /\ intent' = [intent EXCEPT ![i] = x]
                /\ x.status \in {"open", "lapsed"} /\ intent[i].status # "PROCESSING"
                /\ Known(x.check) /\ x.amount \in Prices
                /\ intent[i].status # "none" => x.check = intent[i].check /\ x.amount = intent[i].amount
    <3> DEFINE x == [intent[i] EXCEPT !.status = "lapsed"]
    <3>1. /\ x \in IntentRow /\ x.status = "lapsed" /\ x.check = intent[i].check
          /\ x.amount = intent[i].amount
      BY <1>0 DEF IntentRow
    <3>2. intent' = [intent EXCEPT ![i] = x] /\ intent[i].status = "open"
      BY <1>0, <2>2 DEF IntentLapses
    <3>3. Known(intent[i].check) /\ intent[i].amount \in Prices
      BY <3>2 DEF OrderInv, IntentsFormed
    <3> HIDE DEF x
    <3> QED BY <3>1, <3>2, <3>3
  <2> QED BY <2>1, <2>2
<1>2. \A o \in Intents \cup BillKeys : Recorded(o)' <=> Recorded(o)
  BY <1>0, <1>1 DEF Recorded
<1>3. OrdersTyped'
  BY <1>0, <1>1 DEF OrderInv, OrdersTyped
<1>4. ChecksFormed' /\ \A k : Known(k)' <=> Known(k)
  BY <1>0 DEF OrderInv, ChecksFormed, Known
<1>5. IntentsFormed'
  BY <1>0, <1>1, <1>4 DEF OrderInv, IntentsFormed
<1>6. BillsFormed'
  BY <1>0, <1>2, <1>4 DEF OrderInv, BillsFormed, BillFormed
<1>7. ClientsFormed' /\ OneSender'
  BY <1>0, <1>1, <1>2, <1>4 DEF OrderInv, ClientsFormed, ClientFormed, OneSender
<1> QED
  BY <1>3, <1>4, <1>5, <1>6, <1>7 DEF OrderInv

\* A request that comes, is answered or goes without writing.
LEMMA ClientStep ==
    ASSUME OrderInv, NEW c \in Clients, NEW x \in ClientRow, ClientFormed(x), x.at # "send",
           client' = [client EXCEPT ![c] = x], UNCHANGED <<checked, intent, bill>>
    PROVE  OrderInv'
<1>0. client \in [Clients -> ClientRow]
  BY DEF OrderInv, OrdersTyped
<1>1. OrdersTyped'
  BY <1>0 DEF OrderInv, OrdersTyped
<1>2. ChecksFormed' /\ IntentsFormed' /\ BillsFormed'
  BY DEF OrderInv, ChecksFormed, IntentsFormed, BillsFormed, BillFormed, Known, Recorded
<1>3. ClientsFormed'
  BY <1>0 DEF OrderInv, ClientsFormed, ClientFormed, Known, Recorded
<1>4. OneSender'
  BY <1>0 DEF OrderInv, OneSender
<1> QED
  BY <1>1, <1>2, <1>3, <1>4 DEF OrderInv

\* confirm and create up to their transactions, an answer from a known key, and
\* a request that ends.
LEMMA ComeAndGoInv ==
    ASSUME OrderInv, NEW c \in Clients,
           \/ \E i \in Intents, s \in Spellings : Confirm(c, i, s)
           \/ \E key \in BillKeys, k \in Checks, s \in Spellings, a \in Prices :
               Create(c, key, k, s, a)
           \/ FindBill(c) \/ Leave(c)
    PROVE  OrderInv'
<1>0. client \in [Clients -> ClientRow] /\ UNCHANGED <<checked, intent, bill>>
  BY DEF OrderInv, OrdersTyped, Confirm, Create, FindBill, Leave
<1>1. Away \in ClientRow /\ ClientFormed(Away) /\ Away.at # "send"
  BY DEF Away, ClientRow, ClientFormed
<1>2. ASSUME NEW i \in Intents, NEW s \in Spellings, Confirm(c, i, s) PROVE OrderInv'
  <2> DEFINE x == [at |-> "record", order |-> i, check |-> intent[i].check,
                   number |-> Normalised[s], amount |-> intent[i].amount]
  <2>1. /\ client' = [client EXCEPT ![c] = x] /\ intent[i].status = "open"
        /\ Normalised[s] = checked[intent[i].check].number
    BY <1>2 DEF Confirm, Start, VerifyReference
  <2>2. Known(intent[i].check) /\ intent[i].check \in Checks /\ intent[i].amount \in Prices
    BY <2>1 DEF OrderInv, IntentsFormed, Known
  <2>3. x \in ClientRow /\ x.at # "send"
    BY <2>2 DEF ClientRow, Numbers
  <2>4. ClientFormed(x)
    BY <2>1, <2>2 DEF ClientFormed
  <2> HIDE DEF x
  <2> QED BY <1>0, <2>1, <2>3, <2>4, ClientStep
<1>3. ASSUME NEW key \in BillKeys, NEW k \in Checks, NEW s \in Spellings, NEW a \in Prices,
             Create(c, key, k, s, a)
      PROVE  OrderInv'
  <2> DEFINE x == [at |-> "record", order |-> key, check |-> k,
                   number |-> Normalised[s], amount |-> a]
  <2>1. /\ client' = [client EXCEPT ![c] = x] /\ Known(k)
        /\ Normalised[s] = checked[k].number
    BY <1>3 DEF Create, Start, VerifyReference, Known
  <2>2. x \in ClientRow /\ x.at # "send"
    BY DEF ClientRow, Numbers
  <2>3. ClientFormed(x)
    BY <2>1, OrdersAssumption DEF ClientFormed
  <2> HIDE DEF x
  <2> QED BY <1>0, <2>1, <2>2, <2>3, ClientStep
<1>4. CASE FindBill(c) /\ SameRequest(c, client[c].order)
  <2> DEFINE x == [client[c] EXCEPT !.at = "billed"]
             key == client[c].order
  <2>1. /\ client' = [client EXCEPT ![c] = x] /\ client[c].at = "record" /\ key \in BillKeys
        /\ bill[key].check = client[c].check /\ bill[key].amount = client[c].amount
    BY <1>0, <1>4 DEF FindBill, SameRequest
  <2>2. x \in ClientRow /\ x = [client[c] EXCEPT !.at = "billed"] /\ x.at = "billed"
        /\ x.order = key /\ x.check = client[c].check /\ x.amount = client[c].amount
        /\ x.number = client[c].number
    BY <1>0 DEF ClientRow
  <2>3. ClientFormed(client[c]) /\ client[c].at # "away"
    BY <2>1 DEF OrderInv, ClientsFormed
  <2>4. Recorded(key)
    BY <2>1, <2>3, OrdersAssumption DEF Recorded, ClientFormed, Known
  <2> HIDE DEF x
  <2>5. ClientFormed(x)
    BY <2>1, <2>2, <2>3, <2>4 DEF ClientFormed
  <2> QED BY <1>0, <2>1, <2>2, <2>5, ClientStep
<1>5. CASE (FindBill(c) /\ ~SameRequest(c, client[c].order)) \/ Leave(c)
  <2>1. client' = [client EXCEPT ![c] = Away]
    BY <1>5 DEF FindBill, Leave
  <2> QED BY <1>0, <1>1, <2>1, ClientStep
<1> QED
  BY <1>2, <1>3, <1>4, <1>5

\* The transaction that writes a bill: the request that wrote it is the one that
\* will call the provider.
LEMMA RecordInv ==
    ASSUME OrderInv, NEW c \in Clients, RecordIntentPayment(c) \/ RecordBill(c)
    PROVE  OrderInv'
<1> PICK o : o = client[c].order
  OBVIOUS
<1> PICK x : x = [client[c] EXCEPT !.at = "send"]
  OBVIOUS
<1> PICK b : b = [bill[o] EXCEPT !.check = client[c].check, !.amount = client[c].amount]
  OBVIOUS
<1>0. /\ client \in [Clients -> ClientRow] /\ bill \in [Intents \cup BillKeys -> BillRow]
      /\ intent \in [Intents -> IntentRow] /\ checked' = checked
  BY DEF OrderInv, OrdersTyped, RecordIntentPayment, RecordBill
<1>1. client[c].at = "record" /\ ClientFormed(client[c])
  BY DEF RecordIntentPayment, RecordBill, OrderInv, ClientsFormed
<1>2. o \in Intents \cup BillKeys /\ Known(client[c].check) /\ client[c].amount \in Prices
  BY <1>1 DEF ClientFormed
<1>3. ~Recorded(o) /\ bill[o] = NoBill
  <2>1. ~Recorded(o)
    <3>1. CASE RecordIntentPayment(c)
      BY <3>1 DEF RecordIntentPayment, Recorded
    <3>2. CASE RecordBill(c)
      BY <3>2, OrdersAssumption DEF RecordBill, Recorded, NoBill
    <3> QED BY <3>1, <3>2
  <2> QED BY <1>2, <2>1 DEF OrderInv, BillsFormed, BillFormed
<1>4. bill' = [bill EXCEPT ![o] = b] /\ client' = [client EXCEPT ![c] = x]
  <2>1. CASE RecordIntentPayment(c)
    <3>1. client[c].check = intent[o].check /\ client[c].amount = intent[o].amount
      BY <1>1, <2>1 DEF ClientFormed, RecordIntentPayment
    <3> QED BY <1>0, <1>2, <2>1, <3>1 DEF RecordIntentPayment
  <2>2. CASE RecordBill(c)
    BY <1>0, <1>2, <2>2 DEF RecordBill
  <2> QED BY <2>1, <2>2
<1>5. /\ intent' \in [Intents -> IntentRow]
      /\ \A i \in Intents : /\ intent'[i].check = intent[i].check
                            /\ intent'[i].amount = intent[i].amount
                            /\ intent'[i].status # "none" <=> intent[i].status # "none"
                            /\ i # o => intent'[i] = intent[i]
      /\ o \in Intents => intent'[o].status = "PROCESSING"
  <2>1. CASE RecordIntentPayment(c)
    <3> DEFINE y == [intent[o] EXCEPT !.status = "PROCESSING"]
    <3>1. o \in Intents /\ intent[o].status \in {"open", "lapsed"}
      BY <2>1 DEF RecordIntentPayment
    <3>2. /\ y \in IntentRow /\ y.status = "PROCESSING" /\ y.check = intent[o].check
          /\ y.amount = intent[o].amount
      BY <1>0, <3>1 DEF IntentRow
    <3>3. intent' = [intent EXCEPT ![o] = y]
      BY <1>0, <2>1, <3>1 DEF RecordIntentPayment
    <3> HIDE DEF y
    <3> QED BY <1>0, <3>1, <3>2, <3>3
  <2>2. CASE RecordBill(c)
    BY <1>0, <2>2, OrdersAssumption DEF RecordBill
  <2> QED BY <2>1, <2>2
<1>6. /\ b \in BillRow /\ b.check = client[c].check /\ b.amount = client[c].amount
      /\ b.sends = 0
  <2>1. bill[o] \in BillRow /\ client[c].check \in Checks /\ bill[o].sends = 0
    BY <1>0, <1>2, <1>3 DEF NoBill, Known
  <2> QED BY <1>2, <2>1 DEF BillRow
<1>7. /\ x \in ClientRow /\ x.at = "send" /\ x.order = o /\ x.check = client[c].check
      /\ x.amount = client[c].amount /\ x.number = client[c].number
  BY <1>0 DEF ClientRow
<1>8. OrdersTyped'
  BY <1>0, <1>2, <1>4, <1>5, <1>6, <1>7 DEF OrderInv, OrdersTyped
<1>9. ChecksFormed' /\ \A k : Known(k)' <=> Known(k)
  BY <1>0 DEF OrderInv, ChecksFormed, Known
<1>10. IntentsFormed'
  BY <1>5, <1>9 DEF OrderInv, IntentsFormed
<1>11. /\ \A q \in Intents \cup BillKeys : Recorded(q)' <=> (Recorded(q) \/ q = o)
       /\ \A q \in (Intents \cup BillKeys) \ {o} : bill'[q] = bill[q]
  BY <1>0, <1>2, <1>4, <1>5, <1>6 DEF Recorded, Known
<1>12. bill'[o] = b
  BY <1>0, <1>2, <1>4
<1>13. BillsFormed'
  <2> SUFFICES ASSUME NEW q \in Intents \cup BillKeys PROVE BillFormed(q)'
    BY DEF BillsFormed
  <2>1. CASE q = o
    <3>1. Recorded(q)' /\ bill'[q].sends = 0
      BY <1>6, <1>11, <1>12, <2>1
    <3> QED BY <3>1 DEF BillFormed
  <2>2. CASE q # o
    <3>1. BillFormed(q)
      BY DEF OrderInv, BillsFormed
    <3>2. bill'[q] = bill[q] /\ (Recorded(q)' <=> Recorded(q)) /\ checked' = checked
      BY <1>0, <1>11, <2>2
    <3> QED BY <3>1, <3>2 DEF BillFormed, Known
  <2> QED BY <2>1, <2>2
<1>14. ASSUME NEW d \in Clients, d # c
       PROVE  /\ client'[d] = client[d] /\ ClientFormed(client[d])'
              /\ client[d].at = "send" => client[d].order # o
  <2>1. client'[d] = client[d] /\ ClientFormed(client[d])
    BY <1>0, <1>4, <1>14 DEF OrderInv, ClientsFormed
  <2>2. client[d].at \in {"send", "billed"} => client[d].order # o
    BY <1>3, <2>1 DEF ClientFormed
  <2> QED BY <1>0, <1>5, <1>9, <1>11, <2>1, <2>2 DEF ClientFormed
<1>15. client'[c] = x /\ ClientFormed(x)'
  BY <1>0, <1>1, <1>4, <1>5, <1>6, <1>7, <1>9, <1>11, <1>12 DEF ClientFormed
<1>16. ClientsFormed' /\ OneSender'
  <2>1. ClientsFormed'
    <3> SUFFICES ASSUME NEW d \in Clients PROVE ClientFormed(client[d])'
      BY DEF ClientsFormed
    <3> QED BY <1>14, <1>15
  <2>2. OneSender'
    <3> SUFFICES ASSUME NEW d \in Clients, NEW e \in Clients, client'[d].at = "send",
                        client'[e].at = "send", client'[d].order = client'[e].order
                 PROVE  d = e
      BY DEF OneSender
    <3>0. client'[c].order = o
      BY <1>7, <1>15
    <3>1. CASE d # c /\ e # c
      <4>1. client'[d] = client[d] /\ client'[e] = client[e]
        BY <1>14, <3>1
      <4> QED BY <4>1 DEF OrderInv, OneSender
    <3>2. CASE d = c /\ e # c
      BY <1>14, <3>0, <3>2
    <3>3. CASE d # c /\ e = c
      BY <1>14, <3>0, <3>3
    <3> QED BY <3>1, <3>2, <3>3
  <2> QED BY <2>1, <2>2
<1> QED
  BY <1>8, <1>9, <1>10, <1>13, <1>16 DEF OrderInv

\* The provider is called.
LEMMA PayInv ==
    ASSUME OrderInv, NEW c \in Clients, Pay(c)
    PROVE  OrderInv'
<1> PICK o : o = client[c].order
  OBVIOUS
<1> PICK x : x = [client[c] EXCEPT !.at = "billed"]
  OBVIOUS
<1> PICK b : b = [bill[o] EXCEPT !.paidFor = client[c].number, !.sends = 1]
  OBVIOUS
<1>0. /\ client \in [Clients -> ClientRow] /\ bill \in [Intents \cup BillKeys -> BillRow]
      /\ UNCHANGED <<checked, intent>> /\ client[c].at = "send"
  BY DEF OrderInv, OrdersTyped, Pay
<1>1. /\ ClientFormed(client[c]) /\ o \in Intents \cup BillKeys /\ Known(client[c].check)
      /\ client[c].number = checked[client[c].check].number
      /\ Recorded(o) /\ bill[o].check = client[c].check /\ bill[o].amount = client[c].amount
      /\ bill[o].sends = 0
  BY <1>0 DEF OrderInv, ClientsFormed, ClientFormed
<1>2. bill' = [bill EXCEPT ![o] = b] /\ client' = [client EXCEPT ![c] = x]
  <2>1. bill' = [bill EXCEPT ![o].paidFor = client[c].number, ![o].sends = bill[o].sends + 1]
    BY DEF Pay
  <2>2. bill[o].sends + 1 = 1
    BY <1>1
  <2> QED BY <1>0, <1>1, <2>1, <2>2 DEF Pay
<1>3. client[c].number \in Numbers \cap Recognised
  BY <1>1 DEF OrderInv, ChecksFormed, Known
<1>4. /\ b \in BillRow /\ b.check = client[c].check /\ b.amount = client[c].amount
      /\ b.sends = 1 /\ b.paidFor = client[c].number
  BY <1>0, <1>1, <1>3 DEF BillRow
<1>5. /\ x \in ClientRow /\ x.at = "billed" /\ x.order = o /\ x.check = client[c].check
      /\ x.amount = client[c].amount /\ x.number = client[c].number
  BY <1>0 DEF ClientRow
<1>6. OrdersTyped'
  BY <1>0, <1>1, <1>2, <1>4, <1>5 DEF OrderInv, OrdersTyped
<1>7. ChecksFormed' /\ IntentsFormed' /\ \A k : Known(k)' <=> Known(k)
  BY <1>0 DEF OrderInv, ChecksFormed, IntentsFormed, Known
<1>8. bill'[o] = b /\ \A q \in (Intents \cup BillKeys) \ {o} : bill'[q] = bill[q]
  BY <1>0, <1>1, <1>2
<1>9. \A q \in Intents \cup BillKeys : Recorded(q)' <=> Recorded(q)
  BY <1>0, <1>1, <1>4, <1>8 DEF Recorded
<1>10. BillsFormed'
  <2> SUFFICES ASSUME NEW q \in Intents \cup BillKeys PROVE BillFormed(q)'
    BY DEF BillsFormed
  <2>1. CASE q = o
    <3>1. Recorded(q)'
      BY <1>1, <1>9, <2>1
    <3>2. /\ bill'[q].sends = 1 /\ bill'[q].check = client[c].check
          /\ bill'[q].paidFor = client[c].number
      BY <1>4, <1>8, <2>1
    <3>3. Known(bill[q].check)'
      BY <1>0, <1>1, <3>2 DEF Known
    <3> QED BY <1>0, <1>1, <1>3, <3>1, <3>2, <3>3 DEF BillFormed
  <2>2. CASE q # o
    <3>1. BillFormed(q)
      BY DEF OrderInv, BillsFormed
    <3>2. bill'[q] = bill[q] /\ (Recorded(q)' <=> Recorded(q)) /\ checked' = checked
      BY <1>0, <1>8, <1>9, <2>2
    <3> QED BY <3>1, <3>2 DEF BillFormed, Known
  <2> QED BY <2>1, <2>2
<1>11. ASSUME NEW d \in Clients, d # c PROVE client'[d] = client[d] /\ ClientFormed(client[d])'
  <2>1. client'[d] = client[d] /\ ClientFormed(client[d])
    BY <1>0, <1>2, <1>11 DEF OrderInv, ClientsFormed
  <2>2. client[d].at = "send" => client[d].order # o
    BY <1>0, <1>11 DEF OrderInv, OneSender
  <2>3. client[d].order \in Intents \cup BillKeys =>
          /\ bill'[client[d].order].check = bill[client[d].order].check
          /\ bill'[client[d].order].amount = bill[client[d].order].amount
          /\ client[d].at = "send" => bill'[client[d].order] = bill[client[d].order]
    BY <1>1, <1>4, <1>8, <2>2
  <2> QED BY <1>0, <1>7, <1>9, <2>1, <2>3 DEF ClientFormed
<1>12. client'[c] = x /\ ClientFormed(x)'
  BY <1>0, <1>1, <1>2, <1>4, <1>5, <1>7, <1>8, <1>9 DEF ClientFormed
<1>13. ClientsFormed' /\ OneSender'
  <2>1. ClientsFormed'
    <3> SUFFICES ASSUME NEW d \in Clients PROVE ClientFormed(client[d])'
      BY DEF ClientsFormed
    <3> QED BY <1>11, <1>12
  <2>2. OneSender'
    <3> SUFFICES ASSUME NEW d \in Clients, NEW e \in Clients, client'[d].at = "send",
                        client'[e].at = "send", client'[d].order = client'[e].order
                 PROVE  d = e
      BY DEF OneSender
    <3>1. d # c /\ e # c
      BY <1>5, <1>12
    <3>2. client'[d] = client[d] /\ client'[e] = client[e]
      BY <1>11, <3>1
    <3> QED BY <3>2 DEF OrderInv, OneSender
  <2> QED BY <2>1, <2>2
<1> QED
  BY <1>6, <1>7, <1>10, <1>13 DEF OrderInv

\* The invariant of the orders is inductive; the catalogue is read only by guards.
LEMMA OrderNextInv == OrderInv /\ [OrdersNext]_ordersVars => OrderInv'
<1> SUFFICES ASSUME OrderInv, [OrdersNext]_ordersVars PROVE OrderInv'
  OBVIOUS
<1>1. ASSUME UNCHANGED orderVars PROVE OrderInv'
  BY <1>1 DEF orderVars, OrderInv, OrdersTyped, ChecksFormed, IntentsFormed, BillsFormed,
              BillFormed, ClientsFormed, ClientFormed, OneSender, Known, Recorded
<1>2. ASSUME NEW w \in Servers,
             \/ RefreshCatalogIfNeeded(w) \/ UpsertCategory(w) \/ UpsertBiller(w)
             \/ RetireProducts(w) \/ RetireBillers(w) \/ CopyingStops(w)
             \/ \E p \in Products : UpsertProduct(w, p)
      PROVE  OrderInv'
  BY <1>1, <1>2 DEF RefreshCatalogIfNeeded, UpsertCategory, UpsertBiller, RetireProducts,
                    RetireBillers, CopyingStops, UpsertProduct
<1>3. CASE CatalogueExpires \/ UNCHANGED ordersVars
  BY <1>1, <1>3 DEF CatalogueExpires, ordersVars
<1>4. ASSUME NEW c \in Clients,
             \/ \E i \in Intents, s \in Spellings : Confirm(c, i, s)
             \/ \E key \in BillKeys, k \in Checks, s \in Spellings, a \in Prices :
                 Create(c, key, k, s, a)
             \/ RecordIntentPayment(c) \/ RecordBill(c) \/ FindBill(c) \/ Pay(c) \/ Leave(c)
      PROVE  OrderInv'
  BY <1>4, ComeAndGoInv, RecordInv, PayInv
<1> QED
  BY <1>2, <1>3, <1>4, CheckInv, IntentInv DEF OrdersNext

-----------------------------------------------------------------------------
(* Theorems.                                                               *)

\* Both invariants hold of every run of the catalogue and of the orders.
THEOREM OrdersInvariantsHold == OrdersSpec => [](CopyInv /\ OrderInv)
<1> QED
  BY CopyInitInv, CopyNextInv, OrderInitInv, OrderNextInv, PTL DEF OrdersSpec

\* The rows of the catalogue, checks, intents and bills keep their types.
THEOREM OrdersAreTyped == OrdersSpec => []OrdersOK
<1>1. CopyInv /\ OrderInv => OrdersOK
  BY DEF CopyInv, OrderInv, CatalogueTyped, OrdersTyped, OrdersOK, StoredRow, CopyRow, CheckedRow,
         IntentRow, BillRow, ClientRow
<1> QED
  BY <1>1, OrdersInvariantsHold, PTL

\* A bill goes to the provider at most once, for the number its check recognised,
\* by whatever route, spelling, retry or second request.
THEOREM BillsAreAsChecked == OrdersSpec => []BilledAsChecked
<1>1. OrderInv => BilledAsChecked
  BY DEF OrderInv, BillsFormed, BillFormed, ClientsFormed, ClientFormed, BilledAsChecked
<1> QED
  BY <1>1, OrdersInvariantsHold, PTL

\* After a refresh that none ran beside, the copy is that server's catalogue,
\* whatever servers that died or ran at once left before.
THEOREM CataloguesAreCopied == OrdersSpec => []CatalogueIsCopied
<1>1. CopyInv => CatalogueIsCopied
  BY DEF CopyInv
<1> QED
  BY <1>1, OrdersInvariantsHold, PTL
=============================================================================
