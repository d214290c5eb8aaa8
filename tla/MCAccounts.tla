----------------------------- MODULE MCAccounts -----------------------------
(* An instance of Accounts for TLC: one address that may register, be      *)
(* invited or come from Google, and two interchangeable requests.  Each    *)
(* budget stresses one part: rotation, resets, codes, staff.               *)
EXTENDS Accounts, TLC

Budget(s, t, c, i, p, r) ==
    [sessions |-> s, tokens |-> t, challenges |-> c, invites |-> i, passwords |-> p, requests |-> r]

MCBudgets == {
    Budget(2, 3, 1, 0, 1, 1),
    Budget(1, 2, 2, 0, 2, 1),
    Budget(1, 1, 2, 0, 2, 2),
    Budget(1, 1, 2, 1, 1, 2),
    Budget(1, 1, 1, 2, 1, 2)}

Interchangeable == Permutations(Requests)
=============================================================================
