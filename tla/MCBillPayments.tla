--------------------------- MODULE MCBillPayments ---------------------------
(* Instances of BillPayments for TLC: both bills can be afforded, or one   *)
(* bill and a transfer of 4.  Their fees are what module Fees assesses.    *)
EXTENDS BillPayments, Fees

CONSTANTS b1, b2

Band(from, to, amount) == [from |-> from, to |-> to, amount |-> amount]
Tiered(tiers, rate, basisPoints) ==
    [type |-> "TIERED", tiers |-> tiers, providerRate |-> rate, providerFlat |-> 0,
     basisPoints |-> basisPoints, amount |-> 0, minimum |-> NoLimit, maximum |-> NoLimit]
BillPaymentFee ==
    {[version |-> v, isActive |-> v < 3, effectiveAt |-> v, expiresAt |-> NoLimit,
      rule |-> Tiered(<<Band(0, 3, v - 1), Band(3, NoLimit, 0)>>, 0, 0)] : v \in 1 .. 3}

MCAmountOf == [b \in Bills |-> IF b = b1 THEN 2 ELSE 3]
MCFeeOf == [b \in Bills |-> Assess(BillPaymentFee, 5, MCAmountOf[b])]
MCOpening == 7

-----------------------------------------------------------------------------
(* fee-rule.ts against what its comments promise, on every list of up to   *)
(* three bands in any order.                                               *)
Bases == 0 .. 4
Bands == {Band(from, to, 1) : from \in 0 .. 2, to \in {NoLimit, 1, 2, 3}}
Lists == UNION {[1 .. n -> Bands] : n \in 0 .. 3}

\* Bands that are accepted cover every amount exactly once, so that no amount is
\* without a fee and the fee does not depend on the order of the rows.
ASSUME AcceptedBandsPartition ==
    \A tiers \in Lists : TiersPartitionRange(tiers) =>
        \A base \in Bases : Cardinality({i \in DOMAIN tiers : Covers(tiers[i], base)}) = 1

\* "The platform never sells below the provider's own cost", nor below its own
\* percentage, as long as no maximum cuts the fee.
ASSUME NeverBelowCost ==
    \A rate, share \in {0, 5000, 20000}, base \in Bases :
        LET rule == Tiered(<<Band(0, 2, 1), Band(2, NoLimit, 0)>>, rate, share) IN
        /\ AssessVersionedFee(rule, base) >= ProviderCost(rule, base)
        /\ AssessVersionedFee(rule, base) >= PercentageOf(base, share)

\* A maximum below the cost does cut it.
ASSUME MaximumCutsBelowCost ==
    LET rule == [Tiered(<<Band(0, NoLimit, 1)>>, 10000, 0) EXCEPT !.maximum = 2]
    IN AssessVersionedFee(rule, 4) < ProviderCost(rule, 4)
=============================================================================
