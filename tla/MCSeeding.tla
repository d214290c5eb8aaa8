------------------------------ MODULE MCSeeding ------------------------------
(* An instance of Seeding, and with it of Ledger, for TLC.  The            *)
(* application is at its busiest before the seed is started again.         *)
EXTENDS Seeding, TLC

CONSTANTS wallet, payable, fees, expense

E(a, d, n) == [account |-> a, direction |-> d, amount |-> n]

\* Two balanced lists, one with three entries, and the three ways a list can
\* be refused: one entry, an empty amount, sides that differ.
MCCommands ==
    { <<E(wallet, "DEBIT", 2), E(payable, "CREDIT", 2)>>,
      <<E(payable, "DEBIT", 3), E(wallet, "CREDIT", 2), E(fees, "CREDIT", 1)>>,
      <<E(wallet, "DEBIT", 1)>>,
      <<E(wallet, "DEBIT", 0), E(payable, "CREDIT", 0)>>,
      <<E(wallet, "DEBIT", 2), E(payable, "CREDIT", 1)>> }

MCKeys == AppKeys \cup SeedKeys
MCReferences == AppReferences \cup SeedKeys

\* What the application has posted, against how often the seed was started.
Busy == Cardinality({k \in AppKeys : row[k].status # "none"}) + started <= 3

Interchangeable == Permutations(AppKeys) \cup Permutations(AppReferences)
=============================================================================
