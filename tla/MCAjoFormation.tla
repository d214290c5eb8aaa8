--------------------------- MODULE MCAjoFormation ---------------------------
(* An instance of AjoFormation for TLC: three users, two of them            *)
(* interchangeable; a monthly group from the 31st, where months are short, *)
(* and a weekly one whose dates leave room for three turns only.           *)
EXTENDS AjoFormation, TLC

MCTerms == {
    [start |-> [month |-> 1, day |-> 31], end |-> [month |-> 4, day |-> 30],
     frequency |-> "MONTHLY", maxMembers |-> 3, maxSlots |-> 4, min |-> 1, max |-> 2, unit |-> 5],
    [start |-> [month |-> 12, day |-> 20], end |-> [month |-> 13, day |-> 3],
     frequency |-> "WEEKLY", maxMembers |-> 2, maxSlots |-> 4, min |-> 1, max |-> 3, unit |-> 2],
    [start |-> [month |-> 2, day |-> 27], end |-> [month |-> 3, day |-> 2],
     frequency |-> "DAILY", maxMembers |-> 3, maxSlots |-> 3, min |-> 1, max |-> 1, unit |-> 1]}

Interchangeable == Permutations(Users \ {Creator})
=============================================================================
