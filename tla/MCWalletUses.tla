---------------------------- MODULE MCWalletUses ----------------------------
(* What a member does from the wallet on their own, for TLC: module          *)
(* WalletMovements beside module BillOrders.                                 *)
(*                                                                           *)
(* Movements: a transfer and a withdrawal that one balance cannot both       *)
(* cover, and a transfer to a wallet without ledger accounts; three          *)
(* requests, so that a key may be tapped twice beside another movement or a  *)
(* change of PIN.                                                            *)
(*                                                                           *)
(* Bills: a product that the newer build sells at another price and one it   *)
(* retires, a number with two spellings and one the provider does not know,  *)
(* two requests that may use one key.                                        *)
EXTENDS WalletMovements, BillOrders, TLC

CONSTANTS ann, ben, goo, k1, k2, k3, old, airtime, bundle, local, abroad, typo

MCOrder ==
    [k \in Keys |->
        CASE k = k1 -> [kind |-> "send", from |-> ann, to |-> ben, amount |-> 2]
          [] k = k2 -> [kind |-> "withdraw", from |-> ann, to |-> ann, amount |-> 3]
          [] k = k3 -> [kind |-> "send", from |-> ann, to |-> goo, amount |-> 1]]
MCOpening == [u \in Users |-> IF u = ann THEN 4 ELSE 0]

Between(least, most) == [minimum |-> least, maximum |-> most, fixed |-> Nothing]
Price(n) == [minimum |-> Nothing, maximum |-> Nothing, fixed |-> n]
MCCatalogue ==
    [w \in Servers |->
        IF w = old
        THEN [biller |-> TRUE,
              terms |-> [p \in Products |-> IF p = airtime THEN Between(1, 2) ELSE Price(2)]]
        ELSE [biller |-> TRUE,
              terms |-> [p \in Products |-> IF p = airtime THEN Price(1) ELSE Nothing]]]
MCNormalised == [s \in Spellings |-> IF s = abroad THEN local ELSE s]

Interchangeable == Permutations(Requests) \cup Permutations(Clients)

\* Movements and orders share no variable and no property reads both, so one of
\* them rests while the other runs.
MovementsRest == req = [r \in Requests |-> NoRequest]
MCNext ==
    \/ OrdersInit /\ Next /\ UNCHANGED ordersVars
    \/ MovementsRest /\ OrdersNext /\ UNCHANGED vars
MCInit == Init /\ OrdersInit
MCSpec == MCInit /\ [][MCNext]_<<vars, ordersVars>>

\* The catalogue expires, and the older build copies, only before the first
\* number is checked.
OneDeployment ==
    (\E k \in Checks : checked[k].state # "none") =>
        copying[old].at = "idle" /\ ~stored.expired
\* A bill of an intent and a bill of a key share nothing but the check, which
\* neither writes: one of the two ways is taken at a time.
OneRoute ==
    \/ intent = [i \in Intents |-> NoIntent]
    \/ /\ \A k \in BillKeys : bill[k] = NoBill
       /\ \A c \in Clients : client[c].order \notin BillKeys
=============================================================================
