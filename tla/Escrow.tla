------------------------------- MODULE Escrow -------------------------------
(***************************************************************************)
(* What a bill payment promises the payer: the money waits in escrow, is   *)
(* paid out only if the provider performed, returned only if it declined   *)
(* and refunded only if it undid what it had performed.                    *)
(***************************************************************************)
CONSTANT Items

VARIABLES
    place,      \* where each item's money is
    verdict     \* what the provider did

vars == <<place, verdict>>

Init == /\ place = [i \in Items |-> "payer"]
        /\ verdict = [i \in Items |-> "open"]

Move(i, from, to) == /\ place[i] = from
                     /\ place' = [place EXCEPT ![i] = to]
                     /\ UNCHANGED verdict

Hold(i) == Move(i, "payer", "escrow")
PayOut(i) == verdict[i] \in {"performed", "undone"} /\ Move(i, "escrow", "provider")
Return(i) == verdict[i] = "declined" /\ Move(i, "escrow", "returned")
Refund(i) == verdict[i] = "undone" /\ Move(i, "provider", "refunded")

Decide(i) ==
    /\ verdict[i] = "open"
    /\ \E v \in {"performed", "declined"} : verdict' = [verdict EXCEPT ![i] = v]
    /\ UNCHANGED place

Undo(i) ==
    /\ verdict[i] = "performed"
    /\ verdict' = [verdict EXCEPT ![i] = "undone"]
    /\ UNCHANGED place

Next == \E i \in Items :
    Hold(i) \/ PayOut(i) \/ Return(i) \/ Refund(i) \/ Decide(i) \/ Undo(i)

Spec == Init /\ [][Next]_vars
=============================================================================
