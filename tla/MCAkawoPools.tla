---------------------------- MODULE MCAkawoPools ----------------------------
(* Instances of AkawoPools for TLC: three users for two references; one    *)
(* could pay two dues, one a single due, one none.  Intents and references *)
(* are interchangeable.                                                    *)
EXTENDS AkawoPools, TLC

CONSTANTS ann, ben, cam

MCOpening == [u \in Users |-> IF u = ann THEN 4 ELSE IF u = ben THEN 2 ELSE 1]

Interchangeable == Permutations(Intents) \cup Permutations(References)
=============================================================================
