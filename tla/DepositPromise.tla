--------------------------- MODULE DepositPromise ---------------------------
(***************************************************************************)
(* What a deposit promises the depositor, without requests, webhooks or    *)
(* retries: an intent is asked for and fixes what it will credit, its      *)
(* payment arrives at the provider, and then the wallet is credited, once. *)
(***************************************************************************)
EXTENDS Integers

CONSTANT Intents

VARIABLES
    asked,      \* the intents that exist
    quote,      \* the net amount each will credit
    paid,       \* the intents the provider collected money for
    credits     \* the postings that credit a wallet

vars == <<asked, quote, paid, credits>>

Init == /\ asked = {}
        /\ quote = [i \in Intents |-> 0]
        /\ paid = {}
        /\ credits = {}

\* The intent is created; its amount and fee never change afterwards.
Ask(i) ==
    /\ i \in Intents \ asked
    /\ asked' = asked \cup {i}
    /\ quote' = [quote EXCEPT ![i] = quote'[i]]
    /\ UNCHANGED <<paid, credits>>

\* The provider collects the money of an intent that exists.
Pay(i) ==
    /\ i \in asked \ paid
    /\ paid' = paid \cup {i}
    /\ UNCHANGED <<asked, quote, credits>>

\* The wallet is credited: only after payment, never twice, never by nothing
\* and by exactly what was quoted.
Credit(i) ==
    /\ i \in paid
    /\ \A p \in credits : p.intent # i
    /\ quote[i] > 0
    /\ \E p \in credits' : /\ p.intent = i
                           /\ p.credit = quote[i]
                           /\ credits' = credits \cup {p}
    /\ UNCHANGED <<asked, quote, paid>>

Next == \E i \in Intents : Ask(i) \/ Pay(i) \/ Credit(i)

Spec == Init /\ [][Next]_vars
=============================================================================
