---------------------------- MODULE WalletPromise ----------------------------
(***************************************************************************)
(* What transfers and withdrawals promise the member, without PINs, taps,  *)
(* lookups, transactions or retries: an order is carried out at one        *)
(* instant, once, when the balance covers it and the wallets have their    *)
(* accounts; its amount goes to the other wallet or into reserve; and only *)
(* of an order that was carried out is anyone told that it was.            *)
(***************************************************************************)
EXTENDS Integers

CONSTANTS Users, Keys, Order, Opening, Configured

VARIABLES
    moved,      \* the orders that were carried out
    available,  \* what each member can spend
    reserved,   \* what is set aside for withdrawals
    told        \* the orders somebody was told have moved

vars == <<moved, available, reserved, told>>

Init ==
    /\ moved = {}
    /\ available = Opening
    /\ reserved = [u \in Users |-> 0]
    /\ told = {}

\* An order that is still open and that its wallet covers.
Covered(k) == k \in Keys \ moved /\ available[Order[k].from] >= Order[k].amount

\* The amount leaves one wallet and is in the other.
Transfer(k) ==
    LET o == Order[k] IN
    /\ Covered(k) /\ o.kind = "send"
    /\ o.from # o.to /\ {o.from, o.to} \subseteq Configured
    /\ moved' = moved \cup {k}
    /\ available' = [available EXCEPT ![o.from] = @ - o.amount, ![o.to] = @ + o.amount]
    /\ UNCHANGED <<reserved, told>>

\* The amount leaves the wallet and is set aside.
Reserve(k) ==
    LET o == Order[k] IN
    /\ Covered(k) /\ o.kind = "withdraw" /\ o.from \in Configured
    /\ moved' = moved \cup {k}
    /\ available' = [available EXCEPT ![o.from] = @ - o.amount]
    /\ reserved' = [reserved EXCEPT ![o.from] = @ + o.amount]
    /\ UNCHANGED told

Tell(k) ==
    /\ k \in moved \ told
    /\ told' = told \cup {k}
    /\ UNCHANGED <<moved, available, reserved>>

Next == \E k \in Keys : Transfer(k) \/ Reserve(k) \/ Tell(k)

Spec == Init /\ [][Next]_vars
=============================================================================
