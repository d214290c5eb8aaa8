--------------------------- MODULE MCAjoRotation ---------------------------
(* Instances of AjoRotation for TLC: two slots of two members; the first   *)
(* owns enough for both cycles, the second depends on a payout or is one   *)
(* short of its last contribution.                                         *)
EXTENDS AjoRotation

CONSTANTS ann, ben

MCOwnerOf == <<ann, ben>>
MCOpening == [m \in Members |-> IF m = ann THEN 4 ELSE 3]
=============================================================================
