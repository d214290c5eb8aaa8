-------------------------- MODULE MCFoodFulfilment --------------------------
(* Instances of FoodFulfilment for TLC: two members enrol in one package,  *)
(* one of them able to pay for two portions, the other for one.  Intents   *)
(* are interchangeable.                                                    *)
EXTENDS FoodFulfilment, TLC

CONSTANTS ann, ben, annRice, benRice, rice

MCOwnerOf == [s \in Subscriptions |-> IF s = annRice THEN ann ELSE ben]
MCPackageOf == [s \in Subscriptions |-> rice]
MCOpening == [u \in Users |-> IF u = ann THEN 4 ELSE 2]

Interchangeable == Permutations(Intents)
=============================================================================
