----------------------------- MODULE MCDeposits -----------------------------
(* Instances of Deposits for TLC.                                          *)
EXTENDS Deposits

MCAmounts == {1, 2, 4}
\* A flat fee a small deposit cannot bear: 2 is above the minimum and leaves
\* nothing to credit; 1 is below the minimum.
MCFeeOf == [a \in MCAmounts |-> CASE a = 1 -> 0 [] a = 2 -> 3 [] a = 4 -> 1]
=============================================================================
