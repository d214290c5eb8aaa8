------------------------------- MODULE Ledger -------------------------------
(***************************************************************************)
(* LedgerService: balanced, idempotent postings and their reversal.        *)
(*                                                                         *)
(*   post / postWithin / assertBalancedPosting                             *)
(*   accountBalanceWithin                                                  *)
(*   reverse                                                               *)
(*                                                                         *)
(* A transaction row is named by its idempotency key.  Each call is one    *)
(* serializable transaction, hence one action; the calls that throw leave  *)
(* the database as it was.                                                 *)
(***************************************************************************)
EXTENDS Integers, Sequences, FiniteSets, Functions

CONSTANTS
    Accounts,    \* financial accounts
    Keys,        \* idempotency keys callers use
    References,  \* references callers use, unique in the table
    Commands,    \* entry lists callers ask to post, valid or not
    None

Directions == {"DEBIT", "CREDIT"}
\* What a caller may ask for, and what a row may hold.
Entry == [account: Accounts, direction: Directions, amount: Int]
PostedEntry == [account: Accounts, direction: Directions, amount: Nat \ {0}]

ASSUME CommandsAssumption == Commands \subseteq Seq(Entry)
ASSUME FiniteAssumption == IsFiniteSet(Accounts) /\ IsFiniteSet(Keys)
ASSUME NoneAssumption == None \notin Keys /\ None \notin References

VARIABLE row    \* ledger_transactions with their entries, by key

vars == row

Absent == [status |-> "none", reference |-> None, entries |-> <<>>, reversalOf |-> None]

TypeOK ==
    row \in [Keys -> [status: {"none", "POSTED", "REVERSED"},
                      reference: References \cup {None},
                      entries: Seq(PostedEntry),
                      reversalOf: Keys \cup {None}]]

Init == row = [k \in Keys |-> Absent]

-----------------------------------------------------------------------------
\* Total of one side of an entry list.
SideTotal(entries, direction) ==
    SumFunctionOnSet([n \in 1..Len(entries) |->
                        IF entries[n].direction = direction THEN entries[n].amount ELSE 0],
                     1..Len(entries))

\* Mutant of IsBalanced: the two totals are not compared.
IsPositive(entries) ==
    /\ Len(entries) >= 2
    /\ \A n \in 1..Len(entries) : entries[n].amount > 0

\* assertBalancedPosting.
IsBalanced(entries) ==
    /\ Len(entries) >= 2
    /\ \A n \in 1..Len(entries) : entries[n].amount > 0
    /\ SideTotal(entries, "DEBIT") = SideTotal(entries, "CREDIT")

IsFresh(k, reference) ==
    /\ row[k].status = "none"
    /\ \A j \in Keys : row[j].reference # reference

\* post / postWithin.  A known key returns the existing row; a used reference
\* under a new key violates the unique constraint: neither writes.
Post(k, reference, entries) ==
    /\ IsBalanced(entries)
    /\ IsFresh(k, reference)
    /\ row' = [row EXCEPT ![k] = [status |-> "POSTED", reference |-> reference,
                                  entries |-> entries, reversalOf |-> None]]

Opposite(direction) == IF direction = "DEBIT" THEN "CREDIT" ELSE "DEBIT"

Flip(entries) ==
    [n \in 1..Len(entries) |-> [entries[n] EXCEPT !.direction = Opposite(@)]]

\* reverse: only a POSTED original, a new row with opposite directions, and
\* the original marked REVERSED.
ReverseTransaction(original, k, reference) ==
    /\ row[original].status = "POSTED"
    /\ IsFresh(k, reference)
    /\ row' = [row EXCEPT ![k] = [status |-> "POSTED", reference |-> reference,
                                  entries |-> Flip(row[original].entries),
                                  reversalOf |-> original],
                          ![original].status = "REVERSED"]

Next ==
    \E k \in Keys, reference \in References :
        \/ \E entries \in Commands : Post(k, reference, entries)
        \/ \E original \in Keys : ReverseTransaction(original, k, reference)

Spec == Init /\ [][Next]_vars

-----------------------------------------------------------------------------
(* Balances and properties.                                                *)

Signed(entry) == IF entry.direction = "CREDIT" THEN entry.amount ELSE -entry.amount

\* What the entries of one list add to an account.
Effect(entries, a) ==
    SumFunctionOnSet([n \in 1..Len(entries) |->
                        IF entries[n].account = a THEN Signed(entries[n]) ELSE 0],
                     1..Len(entries))

\* accountBalanceWithin: the entries of rows that are POSTED.
AccountBalance(a) ==
    SumFunctionOnSet([k \in Keys |-> Effect(row[k].entries, a)],
                     {k \in Keys : row[k].status = "POSTED"})

\* Double entry: the balances of all accounts add up to zero, through any mix
\* of postings and reversals, although reversed rows drop out of the sums.
BooksBalance == SumFunctionOnSet([a \in Accounts |-> AccountBalance(a)], Accounts) = 0

\* Append only: a row that was written keeps its reference, entries and
\* origin for ever; only its status may change, and only to REVERSED.
AppendOnly ==
    [][\A k \in Keys : row[k].status # "none"
         => /\ row'[k].reference = row[k].reference
            /\ row'[k].entries = row[k].entries
            /\ row'[k].reversalOf = row[k].reversalOf
            /\ row'[k].status \in {row[k].status, "REVERSED"}]_vars

\* A row is REVERSED exactly when one other row reverses it, with the same
\* amounts on the opposite sides.
ReversalsPaired ==
    \A k \in Keys :
        /\ row[k].status = "REVERSED" <=> \E j \in Keys : row[j].reversalOf = k
        /\ \A j \in Keys : row[j].reversalOf = k => row[j].entries = Flip(row[k].entries)
        /\ \A i, j \in Keys : (row[i].reversalOf = k /\ row[j].reversalOf = k) => i = j
=============================================================================
