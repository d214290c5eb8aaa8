-------------------------- MODULE WalletMovements --------------------------
(***************************************************************************)
(* Transfers between wallets and withdrawal requests.                      *)
(*                                                                         *)
(*   WalletMovementsService.send / withdraw / withIdempotencyRace          *)
(*   WalletsService.summary, wallet-policy                                 *)
(*   AuthController.setTransactionPin, through TransactionPin              *)
(*                                                                         *)
(* A request checks the PIN, looks its key up, settles in one serializable *)
(* transaction and writes an audit row; a transaction may abort.  Balances *)
(* are what summary computes from the posted entries.  A key stands for    *)
(* one tap of one user with one body; a repeated tap is another request    *)
(* under the same key.                                                     *)
(***************************************************************************)
EXTENDS TransactionPin, Integers, FiniteSets, Functions

CONSTANTS
    Keys,       \* idempotency keys
    Order,      \* what each key asks for
    Opening,    \* opening balance of each wallet
    Configured, \* users whose wallet has its two ledger accounts
    None

ASSUME MovementAssumption ==
    /\ None \notin Keys /\ None \notin Users
    /\ IsFiniteSet(Users)
    /\ Opening \in [Users -> Nat]
    /\ Configured \subseteq Users
    /\ Order \in [Keys -> [kind: {"send", "withdraw"}, from: Users, to: Users, amount: Nat]]

VARIABLES
    req,       \* the requests: [at, key, answer]
    movement,  \* transfers and withdrawals: the keys that have a row
    postings   \* ledger transactions: [key, by]

vars == <<pin, check, wrong, req, movement, postings>>

NoRequest == [at |-> "new", user |-> None, key |-> None, answer |-> "none"]

\* Type correctness; a posting names the request that made it.
TypeOK ==
    /\ PinOK
    /\ req \in [Requests -> [at: {"new", "pin", "look", "settle", "race", "audit", "store", "done"},
                             user: Users \cup {None}, key: Keys \cup {None},
                             answer: {"none", "moved", "failed", "error", "set"}]]
    /\ movement \subseteq Keys
    /\ postings \subseteq [key: Keys, by: Requests]

Init ==
    /\ PinInit
    /\ req = [r \in Requests |-> NoRequest]
    /\ movement = {}
    /\ postings = {}

\* summary: credits less debits of an account over the posted entries.
Moved(rows) == SumFunctionOnSet([p \in postings |-> Order[p.key].amount], rows)
Sent(u) == {p \in postings : Order[p.key].kind = "send" /\ Order[p.key].to = u}
Taken(u) == {p \in postings : Order[p.key].from = u}
Held(u) == {p \in postings : Order[p.key].kind = "withdraw" /\ Order[p.key].from = u}
Available(u) == Opening[u] + Moved(Sent(u)) - Moved(Taken(u))
Reserved(u) == Moved(Held(u))

At(r, step) == req[r].at = step
Go(r, step) == req' = [req EXCEPT ![r].at = step]
Reply(r, answer) == req' = [req EXCEPT ![r].at = "done", ![r].answer = answer]

\* A tap, with a payable amount, whose PIN is checked first.
Tap(r, k) ==
    /\ At(r, "new") /\ Order[k].amount > 0
    /\ req' = [req EXCEPT ![r] = [at |-> "pin", user |-> Order[k].from, key |-> k,
                                  answer |-> "none"]]
    /\ UNCHANGED <<pinVars, movement, postings>>

Send(r, k) == Order[k].kind = "send" /\ Tap(r, k)
Withdraw(r, k) == Order[k].kind = "withdraw" /\ Tap(r, k)

\* setPin: a first PIN needs no proof, a change needs the current one.
SetPin(r, u) ==
    /\ At(r, "new")
    /\ req' = [req EXCEPT ![r] = [at |-> IF pin[u].version = 0 THEN "store" ELSE "pin",
                                  user |-> u, key |-> None, answer |-> "none"]]
    /\ UNCHANGED <<pinVars, movement, postings>>

CheckPin(r) ==
    /\ At(r, "pin")
    /\ ReadPin(r, req[r].user) \/ NoPin(r, req[r].user) \/ WritePin(r, req[r].user)
    /\ UNCHANGED <<req, movement, postings>>

\* verifyPin returns or throws.
PinChecked(r) ==
    /\ At(r, "pin") /\ check[r].at \in {"accepted", "refused"}
    /\ IF check[r].at = "refused" THEN Reply(r, "failed")
       ELSE Go(r, IF req[r].key = None THEN "store" ELSE "look")
    /\ UNCHANGED <<pinVars, movement, postings>>

Store(r) ==
    /\ At(r, "store")
    /\ StorePin(req[r].user)
    /\ Reply(r, "set")
    /\ UNCHANGED <<movement, postings>>

\* The lookup before the transaction answers a retried tap.
Look(r) ==
    /\ At(r, "look")
    /\ IF req[r].key \in movement THEN Reply(r, "moved") ELSE Go(r, "settle")
    /\ UNCHANGED <<pinVars, movement, postings>>

\* Mutant of Sufficient: any balance that is not empty will do.
SufficientAny(k) == Available(Order[k].from) > 0

\* assertSufficientFunds, in the transaction that posts.
Sufficient(k) == Available(Order[k].from) >= Order[k].amount

\* account: the ledger accounts a movement needs; assertDifferentWallets.
CanSend(k) ==
    /\ {Order[k].from, Order[k].to} \subseteq Configured
    /\ Order[k].to # Order[k].from
    /\ Sufficient(k)
CanWithdraw(k) == Order[k].from \in Configured /\ Sufficient(k)

\* Mutant of Settle: the key is not looked up again in the transaction.
SettleIgnoresKey(r, allowed) ==
    LET k == req[r].key IN
    /\ At(r, "settle")
    /\ IF allowed
       THEN /\ movement' = movement \cup {k}
            /\ postings' = postings \cup {[key |-> k, by |-> r]}
            /\ Go(r, "audit")
       ELSE Go(r, "race") /\ UNCHANGED <<movement, postings>>
    /\ UNCHANGED pinVars

\* What both transactions do: look again, then check, post and write the row,
\* or roll back into the catch.  The answer to a commit may be lost with the
\* connection: the transaction stands and the catch runs all the same.
Settle(r, allowed) ==
    LET k == req[r].key IN
    /\ At(r, "settle")
    /\ IF k \notin movement /\ allowed
       THEN /\ movement' = movement \cup {k}
            /\ postings' = postings \cup {[key |-> k, by |-> r]}
       ELSE UNCHANGED <<movement, postings>>
    /\ \E answered \in BOOLEAN :
        Go(r, IF answered /\ (k \in movement \/ allowed) THEN "audit" ELSE "race")
    /\ UNCHANGED pinVars

\* The serializable transactions of send and of withdraw.
SettleSend(r) ==
    At(r, "settle") /\ Order[req[r].key].kind = "send" /\ Settle(r, CanSend(req[r].key))
SettleWithdraw(r) ==
    At(r, "settle") /\ Order[req[r].key].kind = "withdraw" /\ Settle(r, CanWithdraw(req[r].key))

\* The transaction is aborted: a serialization failure, the unique key, a
\* timeout.
Abort(r) ==
    /\ At(r, "settle")
    /\ Go(r, "race")
    /\ UNCHANGED <<pinVars, movement, postings>>

\* Mutant of Race: the error is thrown without looking for a winner.
RaceGivesUp(r) ==
    /\ At(r, "race")
    /\ Reply(r, "failed")
    /\ UNCHANGED <<pinVars, movement, postings>>

\* withIdempotencyRace: whatever went wrong, a winner's row is the answer; the
\* read for it may go wrong in its turn.
Race(r) ==
    /\ At(r, "race")
    /\ \/ req[r].key \in movement /\ Go(r, "audit")
       \/ req[r].key \notin movement /\ Reply(r, "failed")
       \/ Reply(r, "error")
    /\ UNCHANGED <<pinVars, movement, postings>>

\* The audit row is outside the transaction: if it cannot be written the
\* caller sees an error for a movement that stands.
Audit(r) ==
    /\ At(r, "audit")
    /\ Reply(r, "moved") \/ Reply(r, "error")
    /\ UNCHANGED <<pinVars, movement, postings>>

Next ==
    \/ \E r \in Requests :
        \/ \E k \in Keys : Send(r, k) \/ Withdraw(r, k)
        \/ \E u \in Users : SetPin(r, u)
        \/ CheckPin(r) \/ PinChecked(r) \/ Store(r) \/ Look(r)
        \/ SettleSend(r) \/ SettleWithdraw(r)
        \/ Abort(r) \/ Race(r) \/ Audit(r)
    \/ \E u \in Users : LockElapses(u) /\ UNCHANGED <<req, movement, postings>>

Spec == Init /\ [][Next]_vars

\* Every movement is exactly one posting, however often its key is tapped,
\* and what is answered as moved has moved.
MovedOnce ==
    /\ \A k \in Keys : Cardinality({p \in postings : p.key = k}) = IF k \in movement THEN 1 ELSE 0
    /\ \A r \in Requests : req[r].answer = "moved" => req[r].key \in movement

\* The keys that were answered as moved.
Told == {req[r].key : r \in {q \in Requests : req[q].answer = "moved"}}

\* However taps, retries, aborted transactions and PIN checks interleave, a
\* movement is one instant in which the balances change by exactly its order,
\* no step besides changes a balance, and nobody is told of a movement before.
Promised == INSTANCE WalletPromise WITH
    moved <- movement,
    available <- [u \in Users |-> Available(u)],
    reserved <- [u \in Users |-> Reserved(u)],
    told <- Told
MovesAsPromised == Promised!Spec

\* Transfers and withdrawals that compete for one balance never overdraw it,
\* and what leaves it is in another wallet or reserved.
NothingOverdrawn ==
    /\ \A u \in Users : Available(u) >= 0
    /\ SumFunctionOnSet([u \in Users |-> Available(u) + Reserved(u)], Users)
         = SumFunctionOnSet(Opening, Users)

\* Whoever moved the money is never refused: when the answer to its commit is
\* lost, or a transaction of the same key fails beside it, the catch of
\* withIdempotencyRace finds the row.  Its caller may be left without an answer
\* ("error"), never with a refusal of what was done.
MoverIsNotRefused == \A p \in postings : req[p.by].answer # "failed"
============================================================================
