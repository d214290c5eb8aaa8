--------------------------- MODULE TransactionPin ---------------------------
(***************************************************************************)
(* The PIN that confirms a movement of money.                              *)
(*                                                                         *)
(*   TransactionPinService.setPin / verifyPin / assertCurrentPinMatches    *)
(*   transaction-pin-policy: registerFailedAttempt, isPinLocked            *)
(*                                                                         *)
(* A check reads the row, compares slowly, and then writes what it works   *)
(* out from the row it read: nothing ties the two together, so checks of   *)
(* one user interleave.  A PIN is its version number; an entered PIN is    *)
(* right or wrong; the rules on weak PINs are input validation.            *)
(***************************************************************************)
EXTENDS Naturals

CONSTANTS
    Users,
    Requests,        \* one request each
    MaxPinAttempts,  \* TRANSACTION_PIN_MAX_ATTEMPTS
    MaxPins          \* bound: PINs ever set by one user

ASSUME PinAssumption == MaxPinAttempts \in Nat \ {0} /\ MaxPins \in Nat \ {0}

VARIABLES
    pin,    \* transaction_pins; version 0 is no row
    check,  \* what each request's check has read
    wrong   \* wrong PINs each user ever entered

pinVars == <<pin, check, wrong>>

Locks == {"none", "locked", "elapsed"}
PinRows == [version: 0 .. MaxPins, failed: Nat, lock: Locks]
NoCheck == [at |-> "none", row |-> [version |-> 0, failed |-> 0, lock |-> "none"], right |-> FALSE]

PinOK ==
    /\ pin \in [Users -> PinRows]
    /\ check \in [Requests -> [at: {"none", "read", "accepted", "refused"}, row: PinRows,
                               right: BOOLEAN]]
    /\ wrong \in [Users -> Nat]

\* A user has a PIN or has not set one yet.
PinInit ==
    /\ pin \in [Users -> {[version |-> v, failed |-> 0, lock |-> "none"] : v \in {0, 1}}]
    /\ check = [r \in Requests |-> NoCheck]
    /\ wrong = [u \in Users |-> 0]

\* Mutant of FailedAttempt: one wrong PIN counts for two.
FailedAttemptTwice(row) ==
    [row EXCEPT !.failed = @ + 2,
                !.lock = IF row.failed + 2 >= MaxPinAttempts THEN "locked" ELSE "none"]

\* registerFailedAttempt, from the count that was read.
FailedAttempt(row) ==
    [row EXCEPT !.failed = @ + 1,
                !.lock = IF row.failed + 1 >= MaxPinAttempts THEN "locked" ELSE "none"]

\* The read and the guards of assertCurrentPinMatches.
ReadPin(r, u) ==
    /\ check[r].at = "none"
    /\ pin[u].version # 0
    /\ \E right \in BOOLEAN :
          check' = [check EXCEPT ![r] =
              IF pin[u].lock = "locked" THEN [@ EXCEPT !.at = "refused"]
              ELSE [at |-> "read", row |-> pin[u], right |-> right]]
    /\ UNCHANGED <<pin, wrong>>

\* Without a row there is nothing to match.
NoPin(r, u) ==
    /\ check[r].at = "none" /\ pin[u].version = 0
    /\ check' = [check EXCEPT ![r].at = "refused"]
    /\ UNCHANGED <<pin, wrong>>

\* The write after the comparison: only the count and the lock are written,
\* and after a right PIN only when the row that was read had some.
WritePin(r, u) ==
    LET row == check[r].row
        next == IF ~check[r].right THEN FailedAttempt(row)
                ELSE IF row.failed # 0 \/ row.lock # "none"
                     THEN [row EXCEPT !.failed = 0, !.lock = "none"]
                     ELSE pin[u] IN
    /\ check[r].at = "read"
    /\ pin' = [pin EXCEPT ![u].failed = next.failed, ![u].lock = next.lock]
    /\ check' = [check EXCEPT ![r] = [NoCheck EXCEPT
                    !.at = IF check[r].right THEN "accepted" ELSE "refused"]]
    /\ wrong' = [wrong EXCEPT ![u] = IF check[r].right THEN @ ELSE @ + 1]

\* The upsert of setPin, whatever the row has become meanwhile.
StorePin(u) ==
    /\ pin[u].version < MaxPins
    /\ pin' = [pin EXCEPT ![u] = [version |-> @.version + 1, failed |-> 0, lock |-> "none"]]
    /\ UNCHANGED <<check, wrong>>

\* Fifteen minutes pass.
LockElapses(u) ==
    /\ pin[u].lock = "locked"
    /\ pin' = [pin EXCEPT ![u].lock = "elapsed"]
    /\ UNCHANGED <<check, wrong>>

\* However checks interleave, the count never runs ahead of the wrong PINs
\* entered: nobody is locked out before MaxPinAttempts of them.
LockIsEarned ==
    \A u \in Users : /\ pin[u].failed <= wrong[u]
                     /\ pin[u].lock = "locked" => wrong[u] >= MaxPinAttempts
=============================================================================
