-------------------------------- MODULE Fees --------------------------------
(***************************************************************************)
(* fee-rule.ts and FeesService: what a payment costs the payer.            *)
(*                                                                         *)
(* A rule is a record; a field that is null in the row is NoLimit here     *)
(* (only minima, maxima and the end of a band may be) or zero.  A refusal  *)
(* of the code, which throws, is Refused.                                  *)
(***************************************************************************)
EXTENDS Integers, Sequences, Functions

NoLimit == -1
Refused == -2

\* percentageOf.
PercentageOf(base, basisPoints) == (base * basisPoints) \div 10000

\* providerCostMinor.
ProviderCost(rule, base) == PercentageOf(base, rule.providerRate) + rule.providerFlat

Covers(tier, base) == base >= tier.from /\ (tier.to = NoLimit \/ base < tier.to)

\* tierFor: the first band of the list that covers the amount.
TierFor(tiers, base) ==
    LET covering == {i \in DOMAIN tiers : Covers(tiers[i], base)}
    IN tiers[CHOOSE i \in covering : \A j \in covering : i <= j]

\* sort: the bands by their start, those that start together as they were.
InOrder(tiers, order) ==
    \A i, j \in DOMAIN tiers : i < j =>
        \/ tiers[order[i]].from < tiers[order[j]].from
        \/ tiers[order[i]].from = tiers[order[j]].from /\ order[i] < order[j]

\* The loop of assertTiersPartitionRange: each band ends where the next starts.
Abut(ordered) ==
    /\ ordered[1].from = 0
    /\ ordered[Len(ordered)].to = NoLimit
    /\ \A i \in 1 .. Len(ordered) - 1 :
        ordered[i].to = ordered[i + 1].from /\ ordered[i].amount >= 0

\* assertTiersPartitionRange.
TiersPartitionRange(tiers) ==
    /\ tiers # <<>>
    /\ \E order \in Bijection(DOMAIN tiers, DOMAIN tiers) :
        InOrder(tiers, order) /\ Abut([i \in DOMAIN tiers |-> tiers[order[i]]])

\* The fee before its limits: a fixed amount, a share, or cost plus the band's
\* markup with a share as its floor.
Raw(rule, base) ==
    CASE rule.type = "FIXED" -> rule.amount
      [] rule.type = "PERCENTAGE" -> PercentageOf(base, rule.basisPoints)
      [] rule.type = "TIERED" ->
            LET costPlus == ProviderCost(rule, base) + TierFor(rule.tiers, base).amount
                floor == PercentageOf(base, rule.basisPoints)
            IN IF costPlus > floor THEN costPlus ELSE floor

Limited(rule, fee) ==
    LET atLeast == IF rule.minimum # NoLimit /\ fee < rule.minimum THEN rule.minimum ELSE fee
    IN IF rule.maximum # NoLimit /\ atLeast > rule.maximum THEN rule.maximum ELSE atLeast

\* assessVersionedFee.
AssessVersionedFee(rule, base) ==
    IF rule.type = "TIERED" /\ ~TiersPartitionRange(rule.tiers) THEN Refused
    ELSE LET fee == Limited(rule, Raw(rule, base)) IN IF fee < 0 THEN Refused ELSE fee

\* FeesService.activeDefinition: of a code's definitions, the newest version that
\* is active and in force.
ActiveDefinition(definitions, now) ==
    LET inForce == {d \in definitions : /\ d.isActive /\ d.effectiveAt <= now
                                        /\ d.expiresAt = NoLimit \/ d.expiresAt > now}
    IN {d \in inForce : \A other \in inForce : other.version <= d.version}

\* FeesService.assess: no definition costs nothing.
Assess(definitions, now, base) ==
    LET active == ActiveDefinition(definitions, now)
    IN IF active = {} THEN 0 ELSE AssessVersionedFee((CHOOSE d \in active : TRUE).rule, base)
=============================================================================
