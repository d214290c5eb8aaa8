---------------------------- MODULE LedgerProofs ----------------------------
(***************************************************************************)
(* Proofs about Ledger for any accounts, keys, references and entry lists, *)
(* and about the books of Seeding and what its runs leave behind, for any  *)
(* number of runs and cuts.                                                *)
(***************************************************************************)
EXTENDS Seeding, Sums, TLAPS

\* assertBalancedPosting lets only positive amounts through.
LEMMA BalancedArePosted ==
    ASSUME NEW entries \in Commands, IsBalanced(entries)
    PROVE  entries \in Seq(PostedEntry)
<1>1. entries \in Seq(Entry)
  BY CommandsAssumption
<1>2. ASSUME NEW n \in 1..Len(entries) PROVE entries[n] \in PostedEntry
  <2>1. entries[n] \in Entry /\ entries[n].amount > 0
    BY <1>1 DEF IsBalanced
  <2> QED
    BY <2>1 DEF Entry, PostedEntry
<1> QED
  BY <1>1, <1>2

\* The flipped entries of a row are entries a row may hold.
LEMMA FlipKeepsType ==
    ASSUME NEW entries \in Seq(PostedEntry)
    PROVE  Flip(entries) \in Seq(PostedEntry)
<1>1. ASSUME NEW n \in 1..Len(entries)
      PROVE  [entries[n] EXCEPT !.direction = Opposite(@)] \in PostedEntry
  <2>1. entries[n] \in PostedEntry
    OBVIOUS
  <2> QED
    BY <2>1 DEF PostedEntry, Opposite, Directions
<1> QED
  BY <1>1 DEF Flip

\* A row that does not exist yet has no origin, and nothing reverses it.
AbsentIsEmpty == \A k \in Keys : row[k].status = "none" => row[k].reversalOf = None

IInv == TypeOK /\ AbsentIsEmpty /\ ReversalsPaired

Row == [status: {"none", "POSTED", "REVERSED"}, reference: References \cup {None},
        entries: Seq(PostedEntry), reversalOf: Keys \cup {None}]

\* postWithin keeps the invariant and touches no row that was written.
LEMMA PostKeeps ==
    ASSUME IInv, NEW k \in Keys, NEW reference \in References, NEW entries \in Commands,
           Post(k, reference, entries)
    PROVE  /\ IInv'
           /\ row[k].status = "none"
           /\ \A j \in Keys \ {k} : row'[j] = row[j]
<1> DEFINE new == [status |-> "POSTED", reference |-> reference,
                   entries |-> entries, reversalOf |-> None]
<1>1. row \in [Keys -> Row] /\ row[k].status = "none" /\ row' = [row EXCEPT ![k] = new]
  BY DEF IInv, TypeOK, Row, Post, IsFresh
<1>2. new \in Row
  BY BalancedArePosted DEF Row, Post
<1>3. new.status = "POSTED" /\ new.reversalOf = None
  OBVIOUS
<1> HIDE DEF new
<1>4. row' \in [Keys -> Row] /\ row'[k] = new /\ \A j \in Keys \ {k} : row'[j] = row[j]
  BY <1>1, <1>2
<1>5. TypeOK'
  BY <1>4 DEF TypeOK, Row
<1>6. AbsentIsEmpty'
  BY <1>3, <1>4 DEF IInv, AbsentIsEmpty
<1>7. \A j \in Keys : row[j].reversalOf # k
  BY <1>1 DEF IInv, ReversalsPaired
<1>8. ASSUME NEW i \in Keys
      PROVE  /\ row'[i].status = "REVERSED" <=> \E j \in Keys : row'[j].reversalOf = i
             /\ \A j \in Keys : row'[j].reversalOf = i => row'[j].entries = Flip(row'[i].entries)
             /\ \A h, j \in Keys : (row'[h].reversalOf = i /\ row'[j].reversalOf = i) => h = j
  <2>1. \A j \in Keys : row'[j].reversalOf = i <=> (j # k /\ row[j].reversalOf = i)
    BY <1>3, <1>4, NoneAssumption
  <2>2. CASE i = k
    BY <1>3, <1>4, <1>7, <2>1, <2>2
  <2>3. CASE i # k
    <3>1. row[k].reversalOf # i
      BY <1>1, NoneAssumption DEF IInv, AbsentIsEmpty
    <3> QED
      BY <1>4, <2>1, <2>3, <3>1 DEF IInv, ReversalsPaired
  <2> QED
    BY <2>2, <2>3
<1>9. ReversalsPaired'
  BY <1>8 DEF ReversalsPaired
<1> QED
  BY <1>1, <1>4, <1>5, <1>6, <1>9 DEF IInv

\* reverse keeps the invariant, writes one new row and, of the original,
\* changes the status alone.
LEMMA ReverseKeeps ==
    ASSUME IInv, NEW original \in Keys, NEW k \in Keys, NEW reference \in References,
           ReverseTransaction(original, k, reference)
    PROVE  /\ IInv'
           /\ row[k].status = "none"
           /\ row'[original] = [row[original] EXCEPT !.status = "REVERSED"]
           /\ \A j \in Keys \ {k, original} : row'[j] = row[j]
<1> DEFINE new == [status |-> "POSTED", reference |-> reference,
                   entries |-> Flip(row[original].entries), reversalOf |-> original]
           old == [row[original] EXCEPT !.status = "REVERSED"]
<1>1. /\ row \in [Keys -> Row] /\ row[k].status = "none" /\ row[original].status = "POSTED"
      /\ row' = [row EXCEPT ![k] = new, ![original].status = "REVERSED"]
  BY DEF IInv, TypeOK, Row, ReverseTransaction, IsFresh
<1>2. k # original
  BY <1>1
<1>3. new \in Row
  BY <1>1, FlipKeepsType DEF Row
<1>4. old \in Row /\ old.status = "REVERSED" /\ old.entries = row[original].entries
      /\ old.reversalOf = row[original].reversalOf
  BY <1>1 DEF Row
<1>5. /\ new.status = "POSTED" /\ new.reversalOf = original
      /\ new.entries = Flip(row[original].entries)
  OBVIOUS
<1>6. /\ row'[k] = new /\ row'[original] = old
      /\ \A j \in Keys \ {k, original} : row'[j] = row[j]
  BY <1>1, <1>2
<1>7. row' \in [Keys -> Row]
  BY <1>1, <1>3, <1>4
<1> HIDE DEF new, old
<1>8. TypeOK'
  BY <1>7 DEF TypeOK, Row
<1>9. AbsentIsEmpty'
  BY <1>4, <1>5, <1>6 DEF IInv, AbsentIsEmpty
<1>10. \A j \in Keys : row[j].reversalOf # k /\ row[j].reversalOf # original
  BY <1>1 DEF IInv, ReversalsPaired
<1>11. \A j \in Keys \ {k} : row'[j].reversalOf = row[j].reversalOf /\ row'[j].entries = row[j].entries
  BY <1>4, <1>6
<1>12. row[k].reversalOf \notin Keys
  BY <1>1, NoneAssumption DEF IInv, AbsentIsEmpty
<1>13. ASSUME NEW i \in Keys
      PROVE  /\ row'[i].status = "REVERSED" <=> \E j \in Keys : row'[j].reversalOf = i
             /\ \A j \in Keys : row'[j].reversalOf = i => row'[j].entries = Flip(row'[i].entries)
             /\ \A h, j \in Keys : (row'[h].reversalOf = i /\ row'[j].reversalOf = i) => h = j
  <2>1. CASE i = original
    <3>1. \A j \in Keys : row'[j].reversalOf = i <=> j = k
      BY <1>5, <1>6, <1>10, <1>11, <2>1
    <3> QED
      BY <1>4, <1>5, <1>6, <2>1, <3>1
  <2>2. CASE i = k
    <3>1. \A j \in Keys : row'[j].reversalOf # i
      BY <1>2, <1>5, <1>6, <1>10, <1>11, <2>2
    <3> QED
      BY <1>5, <1>6, <2>2, <3>1
  <2>3. CASE i # original /\ i # k
    <3>1. row'[i] = row[i]
      BY <1>6, <2>3
    <3>2. \A j \in Keys : row'[j].reversalOf = i <=> (j # k /\ row[j].reversalOf = i)
      BY <1>5, <1>6, <1>11, <2>3
    <3> QED
      BY <1>11, <1>12, <3>1, <3>2 DEF IInv, ReversalsPaired
  <2> QED
    BY <2>1, <2>2, <2>3
<1>14. ReversalsPaired'
  BY <1>13 DEF ReversalsPaired
<1> QED
  BY <1>1, <1>6, <1>8, <1>9, <1>14 DEF IInv, old

\* A step keeps the invariant and appends.
LEMMA NextKeeps ==
    ASSUME IInv, [Next]_vars
    PROVE  /\ IInv'
           /\ \A k \in Keys : row[k].status # "none"
                => /\ row'[k].reference = row[k].reference
                   /\ row'[k].entries = row[k].entries
                   /\ row'[k].reversalOf = row[k].reversalOf
                   /\ row'[k].status \in {row[k].status, "REVERSED"}
<1> DEFINE Appends == \A k \in Keys : row[k].status # "none"
                => /\ row'[k].reference = row[k].reference
                   /\ row'[k].entries = row[k].entries
                   /\ row'[k].reversalOf = row[k].reversalOf
                   /\ row'[k].status \in {row[k].status, "REVERSED"}
<1>1. ASSUME NEW k \in Keys, NEW reference \in References, NEW entries \in Commands,
             Post(k, reference, entries)
      PROVE  IInv' /\ Appends
  <2>1. IInv' /\ row[k].status = "none" /\ \A j \in Keys \ {k} : row'[j] = row[j]
    BY <1>1, PostKeeps
  <2> QED
    BY <2>1
<1>2. ASSUME NEW k \in Keys, NEW reference \in References, NEW original \in Keys,
             ReverseTransaction(original, k, reference)
      PROVE  IInv' /\ Appends
  <2>1. /\ IInv' /\ row[k].status = "none"
        /\ row'[original] = [row[original] EXCEPT !.status = "REVERSED"]
        /\ \A j \in Keys \ {k, original} : row'[j] = row[j]
    BY <1>2, ReverseKeeps
  <2>2. row[original] \in Row
    BY DEF IInv, TypeOK, Row
  <2>3. /\ row'[original].reference = row[original].reference
        /\ row'[original].entries = row[original].entries
        /\ row'[original].reversalOf = row[original].reversalOf
        /\ row'[original].status = "REVERSED"
    BY <2>1, <2>2 DEF Row
  <2> QED
    BY <2>1, <2>3
<1>3. ASSUME UNCHANGED vars PROVE IInv' /\ Appends
  BY <1>3 DEF vars, IInv, TypeOK, AbsentIsEmpty, ReversalsPaired
<1> HIDE DEF Appends
<1>4. ASSUME Next PROVE IInv' /\ Appends
  BY <1>1, <1>2, <1>4 DEF Next
<1> QED
  BY <1>3, <1>4 DEF Appends

\* The inductive invariant holds in every reachable state.
THEOREM InvariantHolds == Spec => []IInv
<1>1. Init => IInv
  <2> SUFFICES ASSUME Init PROVE IInv
    OBVIOUS
  <2>1. \A k \in Keys : row[k] = Absent
    BY DEF Init
  <2>2. \A k \in Keys : row[k].status = "none" /\ row[k].reversalOf = None
    BY <2>1 DEF Absent
  <2>3. TypeOK
    BY DEF Init, TypeOK, Absent
  <2>4. ReversalsPaired
    BY <2>2, NoneAssumption DEF ReversalsPaired
  <2> QED
    BY <2>2, <2>3, <2>4 DEF IInv, AbsentIsEmpty
<1>2. IInv /\ [Next]_vars => IInv'
  BY NextKeeps
<1> QED
  BY <1>1, <1>2, PTL DEF Spec

\* Every row keeps its type: what is stored is positive and well formed.
THEOREM TypeCorrect == Spec => []TypeOK
<1>1. IInv => TypeOK
  BY DEF IInv
<1> QED
  BY <1>1, InvariantHolds, PTL

\* A transaction is REVERSED exactly when one mirror image of it exists.
THEOREM ReversalsArePaired == Spec => []ReversalsPaired
<1>1. IInv => ReversalsPaired
  BY DEF IInv
<1> QED
  BY <1>1, InvariantHolds, PTL

\* No call changes or removes what the ledger holds.
THEOREM LedgerIsAppendOnly == Spec => AppendOnly
<1>1. IInv /\ [Next]_vars =>
        [\A k \in Keys : row[k].status # "none"
           => /\ row'[k].reference = row[k].reference
              /\ row'[k].entries = row[k].entries
              /\ row'[k].reversalOf = row[k].reversalOf
              /\ row'[k].status \in {row[k].status, "REVERSED"}]_vars
  BY NextKeeps
<1> QED
  BY <1>1, InvariantHolds, PTL DEF Spec, AppendOnly

-----------------------------------------------------------------------------
(* Double entry.                                                           *)

\* Both sides of a list have the same total.
Even(entries) == SideTotal(entries, "DEBIT") = SideTotal(entries, "CREDIT")

\* What one side of a list adds up, entry by entry.
Side(entries, direction) ==
    [n \in 1..Len(entries) |-> IF entries[n].direction = direction THEN entries[n].amount ELSE 0]

\* The positions of a list are finitely many, their entries well formed.
LEMMA Positions ==
    ASSUME NEW entries \in Seq(PostedEntry)
    PROVE  /\ IsFiniteSet(1..Len(entries))
           /\ \A n \in 1..Len(entries) :
                /\ entries[n].account \in Accounts /\ entries[n].amount \in Nat
                /\ entries[n].direction \in Directions
<1>1. Len(entries) \in Nat
  OBVIOUS
<1>2. IsFiniteSet(1..Len(entries))
  BY <1>1, FS_Interval
<1>3. \A n \in 1..Len(entries) : entries[n] \in PostedEntry
  OBVIOUS
<1> QED
  BY <1>2, <1>3 DEF PostedEntry

\* A reversal has the totals of its original, on the other sides.
LEMMA FlipIsEven ==
    ASSUME NEW entries \in Seq(PostedEntry), Even(entries)
    PROVE  Even(Flip(entries))
<1> DEFINE flipped == Flip(entries)
<1>1. Len(flipped) = Len(entries) /\ \A n \in 1..Len(entries) :
        /\ flipped[n].amount = entries[n].amount
        /\ flipped[n].direction = Opposite(entries[n].direction)
  <2>1. \A n \in 1..Len(entries) : entries[n] \in PostedEntry
    OBVIOUS
  <2>2. \A n \in 1..Len(entries) : flipped[n] = [entries[n] EXCEPT !.direction = Opposite(@)]
    BY DEF Flip
  <2>3. Len(flipped) = Len(entries)
    BY DEF Flip
  <2> HIDE DEF flipped
  <2> QED
    BY <2>1, <2>2, <2>3 DEF PostedEntry
<1> HIDE DEF flipped
<1>2. ASSUME NEW direction \in Directions
      PROVE  SideTotal(flipped, direction) = SideTotal(entries, Opposite(direction))
  <2> DEFINE f == Side(flipped, direction)
             g == Side(entries, Opposite(direction))
             S == 1..Len(entries)
  <2>1. \A n \in S : f[n] = g[n]
    BY <1>1, Positions DEF Side, Opposite, Directions
  <2>2. IsFiniteSet(S)
    BY Positions
  <2>3. /\ SideTotal(flipped, direction) = SumFunctionOnSet(f, S)
        /\ SideTotal(entries, Opposite(direction)) = SumFunctionOnSet(g, S)
    BY <1>1 DEF SideTotal, Side
  <2> HIDE DEF f, g, S
  <2> QED
    BY <2>1, <2>2, <2>3, SumSame
<1>3. /\ SideTotal(flipped, "DEBIT") = SideTotal(entries, "CREDIT")
      /\ SideTotal(flipped, "CREDIT") = SideTotal(entries, "DEBIT")
  BY <1>2 DEF Directions, Opposite
<1> QED
  BY <1>3 DEF Even, flipped

\* What a list with equal sides adds to all accounts together is nothing:
\* the table of accounts and entries is added up by entries.
LEMMA EvenAddsNothing ==
    ASSUME NEW entries \in Seq(PostedEntry), Even(entries)
    PROVE  /\ \A a \in Accounts : Effect(entries, a) \in Int
           /\ SumFunctionOnSet([a \in Accounts |-> Effect(entries, a)], Accounts) = 0
<1> DEFINE S == 1..Len(entries)
           F == [a \in Accounts |-> [n \in S |-> IF entries[n].account = a THEN Signed(entries[n]) ELSE 0]]
           signed == [n \in S |-> Signed(entries[n])]
           debit == Side(entries, "DEBIT")
           credit == Side(entries, "CREDIT")
           column(n) == [a \in Accounts |-> F[a][n]]
<1>1. IsFiniteSet(S) /\ IsFiniteSet(Accounts)
  BY Positions, FiniteAssumption
<1>2. \A n \in S : signed[n] \in Int /\ debit[n] \in Int /\ credit[n] = signed[n] + debit[n]
  BY Positions DEF Signed, Side, Directions
<1>3. \A a \in Accounts, n \in S : F[a][n] \in Int
  BY Positions DEF Signed, Directions
<1>4. \A a \in Accounts : Effect(entries, a) = SumFunctionOnSet(F[a], S)
  BY DEF Effect
<1>5. SumFunctionOnSet(debit, S) = SumFunctionOnSet(credit, S)
  BY DEF Even, SideTotal, Side
<1>6. SumFunctionOnSet(signed, S) = 0
  <2> HIDE DEF S, signed, debit, credit
  <2>1. SumFunctionOnSet(credit, S) = SumFunctionOnSet(signed, S) + SumFunctionOnSet(debit, S)
    BY <1>1, <1>2, SumPlus
  <2>2. SumFunctionOnSet(signed, S) \in Int /\ SumFunctionOnSet(debit, S) \in Int
    BY <1>1, <1>2, SumType
  <2> QED
    BY <1>5, <2>1, <2>2
<1>7. \A n \in S : SumFunctionOnSet(column(n), Accounts) = signed[n]
  <2> TAKE n \in S
  <2> DEFINE c == column(n)
             a == entries[n].account
  <2>1. a \in Accounts
    BY Positions
  <2>2. c[a] = signed[n] /\ \A b \in Accounts \ {a} : c[b] = 0
    BY <2>1
  <2> HIDE DEF c, a, S, signed
  <2>3. SumFunctionOnSet(c, Accounts) = c[a]
    BY <1>1, <1>2, <2>1, <2>2, SumOne
  <2> QED
    BY <2>2, <2>3 DEF c
<1> DEFINE rowsum == [a \in Accounts |-> SumFunctionOnSet(F[a], S)]
           colsum == [n \in S |-> SumFunctionOnSet(column(n), Accounts)]
<1>8. SumFunctionOnSet(rowsum, Accounts) = SumFunctionOnSet(colsum, S)
  <2> DEFINE G == [n \in S |-> column(n)]
  <2>1. \A a \in Accounts, n \in S : G[n][a] = F[a][n]
    OBVIOUS
  <2>2. \A a \in Accounts : rowsum[a] = SumFunctionOnSet(F[a], S)
    OBVIOUS
  <2>3. \A n \in S : colsum[n] = SumFunctionOnSet(G[n], Accounts)
    OBVIOUS
  <2> HIDE DEF F, G, S, rowsum, colsum
  <2>4. IsTable(F, G, rowsum, colsum, Accounts, S)
    BY <1>1, <1>3, <2>1, <2>2, <2>3 DEF IsTable
  <2> QED
    BY <2>4, SumTable
<1>9. SumFunctionOnSet(colsum, S) = 0
  <2>1. \A n \in S : colsum[n] = signed[n]
    BY <1>7
  <2> HIDE DEF colsum, signed, S
  <2> QED
    BY <1>1, <1>6, <2>1, SumSame
<1>10. [a \in Accounts |-> Effect(entries, a)] = rowsum
  BY <1>4
<1>11. \A a \in Accounts : SumFunctionOnSet(F[a], S) \in Int
  <2> HIDE DEF F, S
  <2> QED
    BY <1>1, <1>3, SumType
<1> QED
  BY <1>4, <1>8, <1>9, <1>10, <1>11

\* Rows with equal sides, whichever of them count.
RowsEven ==
    /\ row \in [Keys -> Row]
    /\ \A k \in Keys : Even(row[k].entries)

\* The balances add up to zero: the table of accounts and rows is added up
\* by rows.
LEMMA EvenRowsBalance ==
    ASSUME RowsEven
    PROVE  BooksBalance
<1> DEFINE S == {k \in Keys : row[k].status = "POSTED"}
           F == [a \in Accounts |-> [k \in Keys |-> Effect(row[k].entries, a)]]
           column(k) == [a \in Accounts |-> F[a][k]]
<1>1. IsFiniteSet(Accounts) /\ S \in SUBSET Keys /\ IsFiniteSet(S)
  BY FiniteAssumption, FS_Subset
<1>2. ASSUME NEW k \in Keys
      PROVE  /\ \A a \in Accounts : F[a][k] \in Int
             /\ SumFunctionOnSet(column(k), Accounts) = 0
  <2>1. row[k].entries \in Seq(PostedEntry) /\ Even(row[k].entries)
    BY DEF RowsEven, Row
  <2>2. /\ \A a \in Accounts : Effect(row[k].entries, a) \in Int
        /\ SumFunctionOnSet([a \in Accounts |-> Effect(row[k].entries, a)], Accounts) = 0
    BY <2>1, EvenAddsNothing
  <2>3. column(k) = [a \in Accounts |-> Effect(row[k].entries, a)]
    OBVIOUS
  <2> QED
    BY <2>2, <2>3
<1> DEFINE rowsum == [a \in Accounts |-> SumFunctionOnSet(F[a], S)]
           colsum == [k \in S |-> SumFunctionOnSet(column(k), Accounts)]
<1>3. SumFunctionOnSet(rowsum, Accounts) = SumFunctionOnSet(colsum, S)
  <2> DEFINE G == [k \in S |-> column(k)]
  <2>1. \A a \in Accounts, k \in S : F[a][k] \in Int
    BY <1>1, <1>2
  <2>2. \A a \in Accounts, k \in S : G[k][a] = F[a][k]
    OBVIOUS
  <2>3. \A a \in Accounts : rowsum[a] = SumFunctionOnSet(F[a], S)
    OBVIOUS
  <2>4. \A k \in S : colsum[k] = SumFunctionOnSet(G[k], Accounts)
    OBVIOUS
  <2> HIDE DEF F, G, S, rowsum, colsum
  <2>5. IsTable(F, G, rowsum, colsum, Accounts, S)
    BY <1>1, <2>1, <2>2, <2>3, <2>4 DEF IsTable
  <2> QED
    BY <2>5, SumTable
<1>4. SumFunctionOnSet(colsum, S) = 0
  <2>1. \A k \in S : colsum[k] = 0
    BY <1>1, <1>2
  <2> HIDE DEF colsum, S
  <2> QED
    BY <1>1, <2>1, SumZero
<1>5. [a \in Accounts |-> AccountBalance(a)] = rowsum
  BY DEF AccountBalance
<1> QED
  BY <1>3, <1>4, <1>5 DEF BooksBalance

\* An empty ledger.
LEMMA InitEven == Init => RowsEven
<1> SUFFICES ASSUME Init PROVE RowsEven
  OBVIOUS
<1>1. Absent \in Row /\ Absent.entries = <<>>
  BY DEF Absent, Row
<1>2. Even(<<>>)
  <2>1. 1..Len(<<>>) = {}
    OBVIOUS
  <2>2. ASSUME NEW direction PROVE SideTotal(<<>>, direction) = 0
    BY <2>1, SumEmpty DEF SideTotal
  <2> QED
    BY <2>2 DEF Even
<1> QED
  BY <1>1, <1>2 DEF Init, RowsEven

\* assertBalancedPosting lets only lists with equal sides through, and a
\* reversal copies a list that was let through.
LEMMA StepEven ==
    ASSUME RowsEven, NEW k \in Keys, NEW reference \in References,
           \/ \E entries \in Commands : Post(k, reference, entries)
           \/ \E original \in Keys : ReverseTransaction(original, k, reference)
    PROVE  RowsEven'
<1>1. row \in [Keys -> Row]
  BY DEF RowsEven
<1>2. CASE \E entries \in Commands : Post(k, reference, entries)
  <2>1. PICK entries \in Commands : Post(k, reference, entries)
    BY <1>2
  <2> DEFINE new == [status |-> "POSTED", reference |-> reference,
                     entries |-> entries, reversalOf |-> None]
  <2>2. new \in Row /\ new.entries = entries /\ row' = [row EXCEPT ![k] = new]
    BY <2>1, BalancedArePosted DEF Row, Post
  <2>3. Even(entries)
    BY <2>1 DEF Post, IsBalanced, Even
  <2> HIDE DEF new
  <2> QED
    BY <1>1, <2>2, <2>3 DEF RowsEven
<1>3. CASE \E original \in Keys : ReverseTransaction(original, k, reference)
  <2>1. PICK original \in Keys : ReverseTransaction(original, k, reference)
    BY <1>3
  <2> DEFINE new == [status |-> "POSTED", reference |-> reference,
                     entries |-> Flip(row[original].entries), reversalOf |-> original]
             old == [row[original] EXCEPT !.status = "REVERSED"]
  <2>2. row[original].entries \in Seq(PostedEntry) /\ Even(row[original].entries)
    BY DEF RowsEven, Row
  <2>3. new \in Row /\ Even(new.entries)
    BY <2>2, FlipKeepsType, FlipIsEven DEF Row
  <2>4. old \in Row /\ Even(old.entries)
    BY <1>1, <2>2 DEF Row
  <2>5. original # k /\ row' = [row EXCEPT ![k] = new, ![original].status = "REVERSED"]
    BY <2>1 DEF ReverseTransaction, IsFresh
  <2>6. row' = [j \in Keys |-> IF j = original THEN old ELSE IF j = k THEN new ELSE row[j]]
    BY <1>1, <2>5
  <2> HIDE DEF new, old
  <2> QED
    BY <1>1, <2>3, <2>4, <2>6 DEF RowsEven
<1> QED
  BY <1>2, <1>3

\* post and reverse: all balances together stay zero, for any accounts and
\* any history.
THEOREM BooksAlwaysBalance == Spec => []BooksBalance
<1>1. Init => RowsEven
  BY InitEven
<1>2. RowsEven /\ [Next]_vars => RowsEven'
  <2>1. RowsEven /\ UNCHANGED vars => RowsEven'
    BY DEF RowsEven, vars
  <2> QED
    BY <2>1, StepEven DEF Next
<1>3. RowsEven => BooksBalance
  BY EvenRowsBalance
<1> QED
  BY <1>1, <1>2, <1>3, PTL DEF Spec

-----------------------------------------------------------------------------
(* The seed beside the application.  A list of statements asks for facts   *)
(* (a row is there, a key is posted) and brings others; a statement with   *)
(* branches has a contract, and each branch that can be taken keeps it.    *)
(* The list a run has still to execute asks only for what is there or is   *)
(* brought before, and leaves what a finished run must have written.       *)

\* What the seed posts has one entry a side.
LEMMA SeedEntriesEven ==
    ASSUME NEW k
    PROVE  SeedEntries(k) \in Seq(PostedEntry) /\ Even(SeedEntries(k))
<1> DEFINE d == [account |-> Debited(k), direction |-> "DEBIT", amount |-> SeedAmount]
           c == [account |-> Credited(k), direction |-> "CREDIT", amount |-> SeedAmount]
<1>1. Debited(k) \in Accounts /\ Credited(k) \in Accounts /\ SeedAmount \in Nat \ {0}
  BY SeedAssumption DEF Debited, Credited
<1>2. d \in PostedEntry /\ c \in PostedEntry
  BY <1>1 DEF PostedEntry, Directions
<1>3. /\ d.direction = "DEBIT" /\ d.amount = SeedAmount
      /\ c.direction = "CREDIT" /\ c.amount = SeedAmount
  OBVIOUS
<1>4. SeedEntries(k) = <<d, c>>
  BY DEF SeedEntries
<1> HIDE DEF d, c
<1>5. SeedEntries(k) \in Seq(PostedEntry) /\ Len(SeedEntries(k)) = 2
  BY <1>2, <1>4
<1>6. SeedEntries(k)[1] = d /\ SeedEntries(k)[2] = c
  BY <1>4
<1>7. IsFiniteSet({1, 2}) /\ 1..2 = {1, 2}
  <2>1. 1..2 = {1, 2}
    OBVIOUS
  <2>2. {1, 2} = {1} \cup {2}
    OBVIOUS
  <2>3. IsFiniteSet({1})
    BY FS_Singleton
  <2>4. IsFiniteSet({1} \cup {2})
    BY <2>3, FS_AddElement
  <2> QED
    BY <2>1, <2>2, <2>4
<1> DEFINE f == Side(SeedEntries(k), "DEBIT")
           g == Side(SeedEntries(k), "CREDIT")
<1>8. f[1] = SeedAmount /\ f[2] = 0 /\ g[1] = 0 /\ g[2] = SeedAmount
  BY <1>3, <1>5, <1>6 DEF Side
<1>9. /\ SideTotal(SeedEntries(k), "DEBIT") = SumFunctionOnSet(f, {1, 2})
      /\ SideTotal(SeedEntries(k), "CREDIT") = SumFunctionOnSet(g, {1, 2})
  BY <1>5, <1>7 DEF SideTotal, Side
<1> HIDE DEF f, g
<1>10. SumFunctionOnSet(f, {1, 2}) = f[1]
  BY <1>1, <1>7, <1>8, SumOne
<1>11. SumFunctionOnSet(g, {1, 2}) = g[2]
  BY <1>1, <1>7, <1>8, SumOne
<1> QED
  BY <1>5, <1>8, <1>9, <1>10, <1>11 DEF Even

\* What is known of the database: a row is there, a key is posted.
RowIn(r) == <<"row", r>>
KeyIn(k) == <<"key", k>>
Posted == {k \in SeedKeys : row[k].status # "none"}
FactsOf(rs, ks) == {RowIn(r) : r \in rs} \cup {KeyIn(k) : k \in ks}
Facts == FactsOf(rows, Posted)

\* The statements with branches, the inner ones too.
TestGroup == SeedAjoGroup[2]
TestCycles == SeedCycles[1]
TestWeek == SeedDashboardActivity[3]
TestAssess == If("weekAssessment", <<>>, <<Create("weekAssessment"), PostOnce("weekFee")>>)
TestCharge == If("contributionFee", <<TestAssess>>, <<>>)
TestBills == SeedBillsDemo[2]
TestFunding == SeedWalletFunding[1]
FundAdmin == FundWallet("admin", "adminAccounts", "adminFunding")
FundDemo == FundWallet("demo", "demoAccounts", "demoFunding")
TestGovernance == SeedAjoGovernance[1]
TestCompliance == SeedIdentityAndCompliance[1]
TestNotifications == SeedNotifications[1]
TestReferrals == SeedReferrals[1]
TestBisi == If("bisi", <<Upsert("campaign"), Upsert("rewarded"), Upsert("qualification"),
                         Upsert("releasedReward"), Upsert("pendingReferral")>>, <<>>)
TestAccounts == SeedReferralsDemo[5]
TestReward == If("demoReward", <<>>, <<PostNew("demoReward"), Create("demoReward")>>)

\* What each of them relies on, and what is there when its branch is done.
Contract(s, asks, brings) == [statement |-> s, asks |-> asks, brings |-> brings]
Contracts ==
    { Contract(TestGroup, {}, {RowIn("groupMember1"), RowIn("groupMember2"), RowIn("groupSlot1")}),
      Contract(TestCycles, {RowIn("group")}, {RowIn("cycles")}),
      Contract(TestWeek, {RowIn("bisiWallet"), RowIn("contributionFee")},
               {KeyIn("weekVolume"), RowIn("weekAssessment")}),
      Contract(TestCharge, {RowIn("contributionFee")}, {RowIn("weekAssessment")}),
      Contract(TestAssess, {}, {RowIn("weekAssessment")}),
      Contract(TestBills, {RowIn("demo"), RowIn("catalogue")}, {RowIn("demoBill")}),
      Contract(TestFunding, {RowIn("payable"), RowIn("admin"), RowIn("demo")},
               {KeyIn("adminFunding"), KeyIn("demoFunding")}),
      Contract(FundAdmin, {RowIn("admin")}, {KeyIn("adminFunding")}),
      Contract(FundDemo, {RowIn("demo")}, {KeyIn("demoFunding")}),
      Contract(TestGovernance, {RowIn("draftSlots")}, {RowIn("swapApproval")}),
      Contract(TestCompliance, {RowIn("admin")}, {RowIn("auditTrail")}),
      Contract(TestNotifications, {RowIn("admin")}, {RowIn("delivery")}),
      Contract(TestReferrals, {RowIn("admin"), RowIn("bisi")}, {RowIn("pendingReferral")}),
      Contract(TestBisi, {RowIn("bisi")}, {RowIn("pendingReferral")}),
      Contract(TestAccounts, {RowIn("demoAccounts")}, {RowIn("demoReward")}),
      Contract(TestReward, {}, {RowIn("demoReward")}) }
Tests == {c.statement : c \in Contracts}
Of(s) == {c \in Contracts : c.statement = s}

\* What a statement relies on when it is reached, and what it brings.
Asks(s) ==
    CASE s.do = "need" -> {RowIn(s.row)}
      [] s.do = "if" -> UNION {c.asks : c \in Of(s)}
      [] s = Create("groupSlot2") -> {RowIn("groupSlot1")}
      [] s = Create("demoReward") -> {KeyIn("demoReward")}
      [] OTHER -> {}
Brings(s) ==
    CASE s.do \in {"upsert", "create"} -> {RowIn(s.row)}
      [] s.do \in {"postOnce", "postNew"} -> {KeyIn(s.key)}
      [] s.do = "if" -> UNION {c.brings : c \in Of(s)}
      [] OTHER -> {}

\* The rows the seed writes or looks for, but for those that are only
\* ever created.
RowNames ==
    {"permission", "role", "rolePermission", "admin", "operator", "operatorRole",
     "pendingUser", "challenge", "adminRole", "adminKyc", "coordinator", "application",
     "contributionFee", "billFee", "adminAccounts", "payable", "revenue", "brand",
     "draftGroup", "draftMember", "draftSlots", "draftProgramme", "draftPackage",
     "draftItems", "rentGoal", "rentSchedule", "group", "groupMember1", "groupMember2",
     "cycles", "bisi", "bisiRole", "bisiProfile",
     "bisiKyc", "bisiWallet", "bisiChecks", "feesGoal", "feesSchedule", "programme",
     "package", "items", "subscription", "applications", "percentageFee",
     "withdrawalFee", "catalogue", "adminBills", "bisiAvailable", "waitlist",
     "inquiries", "demo", "demoAccounts", "demoProfile", "demoKyc",
     "demoPin", "demoIdentity", "demoSlip", "demoAddress", "circle", "circleMember",
     "circleSlot", "circleCycle", "circleSchedule", "circlePayout", "savingsGoal",
     "saving", "pool", "poolMember", "poolDue", "basket", "basketPackage",
     "basketItems", "basketSubscription", "demoBill", "version1", "version2",
     "invitation", "referralCode", "openSwap", "doneSwap", "swapApproval", "consents",
     "bank", "pin", "openReview", "doneReview", "coordinatorReview", "auditTrail",
     "tieredFee", "preferences", "notification", "delivery", "campaign",
     "rewarded", "qualification", "releasedReward", "pendingReferral", "demoCampaign",
     "expense", "demoReferral"}

\* The rows that are written by a create alone.
Created == {"groupSlot1", "groupSlot2", "weekAssessment", "demoReward", "tiers"}

\* Statements that can be executed in every state in which what they ask for
\* is there, and the others.
Calm == [do: {"upsert", "need"}, row: RowNames] \cup [do: {"postOnce"}, key: SeedKeys] \cup Tests
Risky == {Create(r) : r \in Created} \cup {Delete("tiers"), PostNew("demoReward")}
Statement == Calm \cup Risky

\* Everything a list asks for is there or brought by an earlier statement.
Brought(list) == UNION {Brings(list[i]) : i \in 1 .. Len(list)}
Ordered(known, list) ==
    \A i \in 1 .. Len(list) : \A f \in Asks(list[i]) :
        f \in known \/ \E j \in 1 .. i - 1 : f \in Brings(list[j])
Works(known, list, done) == Ordered(known, list) /\ done \subseteq known \cup Brought(list)

\* A create is executed while its row is missing: behind the statement that
\* removes it, or with nothing but writes of other rows before it.
Fresh(known, list) ==
    \A i \in 1 .. Len(list) :
        /\ list[i].do = "create" =>
             \/ i > 1 /\ list[i - 1] = Delete(list[i].row)
             \/ /\ RowIn(list[i].row) \notin known
                /\ \A j \in 1 .. i - 1 : /\ list[j] \notin Tests
                                         /\ list[j].do = "create" => list[j].row # list[i].row
        /\ list[i].do = "postNew" => i = 1 /\ RowIn("demoReward") \notin known

\* Statements that never come without a later one.
Pairs == { <<Create("groupSlot1"), Create("groupSlot2")>>,
           <<Create("weekAssessment"), PostOnce("weekFee")>>,
           <<Delete("tiers"), Create("tiers")>> }
Paired(list) ==
    \A p \in Pairs : \A i \in 1 .. Len(list) :
        list[i] = p[1] => \E j \in i + 1 .. Len(list) : list[j] = p[2]

\* What a run leaves, whatever was there before it, and what the first run
\* leaves besides.
Lasting == {RowIn(r) : r \in SeededRows \ {"groupSlot2"}}
             \cup {KeyIn(k) : k \in SeedKeys \ {"weekFee", "demoReward"}}
In(s, list) == \E i \in 1 .. Len(list) : list[i] = s
SlotsCome(known, list) ==
    \/ RowIn("groupSlot2") \in known \/ In(Create("groupSlot2"), list)
    \/ In(TestGroup, list) /\ RowIn("groupSlot1") \notin known
FeeComes(known, list) ==
    \/ KeyIn("weekFee") \in known \/ In(PostOnce("weekFee"), list)
    \/ /\ In(TestWeek, list) \/ In(TestCharge, list) \/ In(TestAssess, list)
       /\ RowIn("weekAssessment") \notin known
FirstRun(known, list) == SlotsCome(known, list) /\ FeeComes(known, list)

\* A list that can be executed to its end.
Underway(known, list) ==
    /\ list \in Seq(Statement)
    /\ Works(known, list, Lasting)
    /\ Fresh(known, list)
    /\ Paired(list)

SeedInv ==
    /\ RowsEven
    /\ RewardIsPosted
    /\ "groupSlot2" \in rows => "groupSlot1" \in rows
    /\ started \in Nat
    /\ started = 0 => rows = {} /\ outcome = "none"
    /\ outcome = "running" => todo # <<>>
    /\ outcome = "finished" => todo = <<>>
    /\ outcome \in {"running", "finished"} =>
         Underway(Facts, todo) /\ (started = 1 => FirstRun(Facts, todo))
    /\ outcome = "refused" => row["demoReward"].status # "none" /\ "demoReward" \notin rows

\* Asks and Brings, one kind of statement at a time.
LEMMA AsksAndBrings ==
    /\ \A r : Asks(Upsert(r)) = {} /\ Brings(Upsert(r)) = {RowIn(r)}
    /\ \A r : Asks(Need(r)) = {RowIn(r)} /\ Brings(Need(r)) = {}
    /\ \A k : Asks(PostOnce(k)) = {} /\ Brings(PostOnce(k)) = {KeyIn(k)}
    /\ \A k : Asks(PostNew(k)) = {} /\ Brings(PostNew(k)) = {KeyIn(k)}
    /\ \A r : Asks(Delete(r)) = {} /\ Brings(Delete(r)) = {}
    /\ \A r : Brings(Create(r)) = {RowIn(r)}
    /\ Asks(Create("groupSlot1")) = {} /\ Asks(Create("weekAssessment")) = {}
    /\ Asks(Create("tiers")) = {}
    /\ Asks(Create("groupSlot2")) = {RowIn("groupSlot1")}
    /\ Asks(Create("demoReward")) = {KeyIn("demoReward")}
    /\ \A r, there, missing :
         /\ Asks(If(r, there, missing)) = UNION {c.asks : c \in Of(If(r, there, missing))}
         /\ Brings(If(r, there, missing)) = UNION {c.brings : c \in Of(If(r, there, missing))}
  BY DEF Asks, Brings, Upsert, Need, PostOnce, PostNew, Delete, Create, If

\* The lists.
LEMMA OrderedTail ==
    ASSUME NEW S, NEW list \in Seq(S), list # <<>>, NEW known, Ordered(known, list)
    PROVE  /\ Asks(Head(list)) \subseteq known
           /\ Ordered(known \cup Brings(Head(list)), Tail(list))
           /\ Brought(list) = Brings(Head(list)) \cup Brought(Tail(list))
<1>1. /\ Len(list) \in Nat /\ Len(list) >= 1 /\ Head(list) = list[1]
      /\ Len(Tail(list)) = Len(list) - 1
      /\ \A i \in 1 .. Len(list) - 1 : Tail(list)[i] = list[i + 1]
  OBVIOUS
<1>2. Asks(Head(list)) \subseteq known
  BY <1>1 DEF Ordered
<1>3. ASSUME NEW i \in 1 .. Len(Tail(list)), NEW f \in Asks(Tail(list)[i])
      PROVE  \/ f \in known \cup Brings(Head(list))
             \/ \E j \in 1 .. i - 1 : f \in Brings(Tail(list)[j])
  <2>1. i + 1 \in 1 .. Len(list) /\ f \in Asks(list[i + 1])
    BY <1>1, <1>3
  <2>2. f \in known \/ \E j \in 1 .. i : f \in Brings(list[j])
    BY <1>1, <2>1 DEF Ordered
  <2>3. ASSUME NEW j \in 1 .. i, f \in Brings(list[j])
        PROVE  f \in Brings(Head(list)) \/ \E m \in 1 .. i - 1 : f \in Brings(Tail(list)[m])
    <3>1. CASE j = 1
      BY <1>1, <2>3, <3>1
    <3>2. CASE j # 1
      <4>1. j - 1 \in 1 .. i - 1 /\ j - 1 \in 1 .. Len(list) - 1
        BY <1>1, <1>3, <3>2
      <4>2. Tail(list)[j - 1] = list[j]
        BY <1>1, <4>1
      <4> QED
        BY <2>3, <4>1, <4>2
    <3> QED
      BY <3>1, <3>2
  <2> QED
    BY <2>2, <2>3
<1>4. ASSUME NEW i \in 1 .. Len(list)
      PROVE  Brings(list[i]) \subseteq Brings(Head(list)) \cup Brought(Tail(list))
  <2>1. CASE i = 1
    BY <1>1, <2>1
  <2>2. CASE i # 1
    <3>1. i - 1 \in 1 .. Len(Tail(list)) /\ Tail(list)[i - 1] = list[i]
      BY <1>1, <2>2
    <3> QED
      BY <3>1 DEF Brought
  <2> QED
    BY <2>1, <2>2
<1>5. ASSUME NEW i \in 1 .. Len(Tail(list))
      PROVE  Brings(Tail(list)[i]) \subseteq Brought(list)
  <2>1. i + 1 \in 1 .. Len(list) /\ Tail(list)[i] = list[i + 1]
    BY <1>1
  <2> QED
    BY <2>1 DEF Brought
<1>6. Brings(Head(list)) \subseteq Brought(list)
  <2>1. 1 \in 1 .. Len(list)
    BY <1>1
  <2> QED
    BY <1>1, <2>1 DEF Brought
<1>7. Brought(list) = Brings(Head(list)) \cup Brought(Tail(list))
  <2>1. Brought(list) \subseteq Brings(Head(list)) \cup Brought(Tail(list))
    BY <1>4 DEF Brought
  <2>2. Brought(Tail(list)) \subseteq Brought(list)
    <3>1. Brought(Tail(list)) = UNION {Brings(Tail(list)[i]) : i \in 1 .. Len(Tail(list))}
      BY DEF Brought
    <3> QED
      BY <1>5, <3>1
  <2> QED
    BY <1>6, <2>1, <2>2
<1> QED
  BY <1>2, <1>3, <1>7 DEF Ordered

\* More may be known.
LEMMA OrderedMore ==
    ASSUME NEW list, NEW known, Ordered(known, list), NEW more, known \subseteq more
    PROVE  Ordered(more, list)
  BY DEF Ordered

\* One list after another.
LEMMA JoinLists ==
    ASSUME NEW S, NEW s \in Seq(S), NEW t \in Seq(S), NEW known, Ordered(known, s),
           Ordered(known \cup Brought(s), t)
    PROVE  Ordered(known, s \o t) /\ Brought(s \o t) = Brought(s) \cup Brought(t)
<1> DEFINE n == Len(s)
           m == Len(t)
<1>1. /\ n \in Nat /\ m \in Nat /\ Len(s \o t) = n + m
      /\ \A i \in 1 .. n : (s \o t)[i] = s[i]
      /\ \A i \in n + 1 .. n + m : (s \o t)[i] = t[i - n]
  OBVIOUS
<1>2. \A i \in 1 .. m : i + n \in n + 1 .. n + m /\ (s \o t)[i + n] = t[i]
  BY <1>1
<1> DEFINE u == s \o t
<1> HIDE DEF n, m, u
<1>3. ASSUME NEW i \in 1 .. n + m, NEW f \in Asks(u[i])
      PROVE  f \in known \/ \E j \in 1 .. i - 1 : f \in Brings(u[j])
  <2>1. CASE i \in 1 .. n
    <3>1. f \in known \/ \E j \in 1 .. i - 1 : f \in Brings(s[j])
      BY <1>1, <1>3, <2>1 DEF Ordered, n, u
    <3>2. \A j \in 1 .. i - 1 : u[j] = s[j]
      BY <1>1, <2>1 DEF u
    <3> QED
      BY <3>1, <3>2
  <2>2. CASE i \in n + 1 .. n + m
    <3>1. i - n \in 1 .. m /\ u[i] = t[i - n]
      BY <1>1, <2>2 DEF u
    <3>2. \/ f \in known \cup Brought(s)
          \/ \E j \in 1 .. (i - n) - 1 : f \in Brings(t[j])
      BY <1>3, <3>1 DEF Ordered, m
    <3>3. CASE f \in Brought(s)
      <4>1. PICK j \in 1 .. n : f \in Brings(s[j])
        BY <3>3 DEF Brought, n
      <4>2. j \in 1 .. i - 1 /\ u[j] = s[j]
        BY <1>1, <2>2 DEF u
      <4> QED
        BY <4>1, <4>2
    <3>4. ASSUME NEW j \in 1 .. (i - n) - 1, f \in Brings(t[j])
          PROVE  \E k \in 1 .. i - 1 : f \in Brings(u[k])
      <4>1. j + n \in 1 .. i - 1 /\ j \in 1 .. m
        BY <1>1, <2>2, <3>4
      <4>2. u[j + n] = t[j]
        BY <1>2, <4>1 DEF u
      <4> QED
        BY <3>4, <4>1, <4>2
    <3> QED
      BY <3>2, <3>3, <3>4
  <2> QED
    BY <1>1, <1>3, <2>1, <2>2
<1>4. \A i \in 1 .. n + m : i \in 1 .. n \/ (i - n \in 1 .. m /\ u[i] = t[i - n])
  BY <1>1 DEF u
<1>5. ASSUME NEW f
      PROVE  f \in Brought(u) <=> f \in Brought(s) \cup Brought(t)
  <2>1. f \in Brought(u) <=> \E i \in 1 .. n + m : f \in Brings(u[i])
    BY <1>1 DEF Brought, u
  <2>2. f \in Brought(s) <=> \E i \in 1 .. n : f \in Brings(s[i])
    BY DEF Brought, n
  <2>3. f \in Brought(t) <=> \E i \in 1 .. m : f \in Brings(t[i])
    BY DEF Brought, m
  <2>4. \A i \in 1 .. n : i \in 1 .. n + m /\ u[i] = s[i]
    BY <1>1 DEF u
  <2>5. \A i \in 1 .. m : i + n \in 1 .. n + m /\ u[i + n] = t[i]
    BY <1>1, <1>2 DEF u
  <2>6. ASSUME NEW i \in 1 .. n + m, f \in Brings(u[i])
        PROVE  f \in Brought(s) \cup Brought(t)
    <3>1. CASE i \in 1 .. n
      BY <2>2, <2>4, <2>6, <3>1
    <3>2. CASE i - n \in 1 .. m /\ u[i] = t[i - n]
      BY <2>3, <2>6, <3>2
    <3> QED
      BY <1>4, <3>1, <3>2
  <2> QED
    BY <2>1, <2>2, <2>3, <2>4, <2>5, <2>6
<1>6. Ordered(known, u)
  BY <1>1, <1>3 DEF Ordered, u
<1>7. Brought(u) = Brought(s) \cup Brought(t)
  BY <1>5
<1> QED
  BY <1>6, <1>7 DEF u

\* A list in two parts works when the first leaves what the second relies on.
LEMMA WorksOn ==
    ASSUME NEW S, NEW s \in Seq(S), NEW t \in Seq(S), NEW known, NEW half, NEW done,
           Works(known, s, half), Works(half, t, done)
    PROVE  Works(known, s \o t, known \cup half \cup done)
<1>1. Ordered(known, s) /\ half \subseteq known \cup Brought(s)
  BY DEF Works
<1>2. Ordered(half, t) /\ done \subseteq half \cup Brought(t)
  BY DEF Works
<1>3. Ordered(known \cup Brought(s), t)
  BY <1>1, <1>2, OrderedMore
<1>4. Ordered(known, s \o t) /\ Brought(s \o t) = Brought(s) \cup Brought(t)
  BY <1>1, <1>3, JoinLists
<1> QED
  BY <1>1, <1>2, <1>4 DEF Works

\* A list works as well when more is known.
LEMMA WorksWithMore ==
    ASSUME NEW list, NEW known, NEW done, Works(known, list, done), NEW more, known \subseteq more
    PROVE  Works(more, list, more \cup done)
<1>1. Ordered(more, list)
  BY OrderedMore DEF Works
<1> QED
  BY <1>1 DEF Works

\* A list that asks for nothing, and brings what one of its statements brings.
LEMMA WorksAlone ==
    ASSUME NEW list, \A i \in 1 .. Len(list) : Asks(list[i]) = {}, NEW known, NEW done,
           \A f \in done : f \in known \/ \E i \in 1 .. Len(list) : f \in Brings(list[i])
    PROVE  Works(known, list, done)
  BY DEF Works, Ordered, Brought

\* Statements that are calm.
LEMMA CalmStatements ==
    /\ \A r \in RowNames : Upsert(r) \in Calm /\ Need(r) \in Calm
    /\ \A k \in SeedKeys : PostOnce(k) \in Calm
    /\ Tests \subseteq Calm
  BY DEF Calm, Upsert, Need, PostOnce

\* The branch of a contract: no statement in it may be refused, and it brings
\* what the contract says.
Kept(c) ==
    /\ c.statement.do = "if"
    /\ c.statement.there \in Seq(Calm)
    /\ Works(c.asks \cup {RowIn(c.statement.row)}, c.statement.there, c.brings)
    /\ RowIn(c.statement.row) \in c.asks \/ c.statement \in {TestGroup, TestAssess, TestReward}

\* A contract is kept by the branch of its statement.
LEMMA KeptBy ==
    ASSUME NEW r, NEW there \in Seq(Calm), NEW missing, NEW asks, NEW brings,
           Works(asks \cup {RowIn(r)}, there, brings),
           \/ RowIn(r) \in asks
           \/ If(r, there, missing) \in {TestGroup, TestAssess, TestReward}
    PROVE  Kept(Contract(If(r, there, missing), asks, brings))
  BY DEF Kept, Contract, If

\* The statements with branches, written out.
LEMMA TestsAre ==
    /\ TestGroup = If("groupSlot1", <<Upsert("groupMember1"), Upsert("groupMember2")>>,
                                    <<Upsert("groupMember1"), Create("groupSlot1"),
                                      Upsert("groupMember2"), Create("groupSlot2")>>)
    /\ TestCycles = If("group", <<Upsert("cycles")>>, <<>>)
    /\ TestWeek = If("bisiWallet", <<Upsert("bisiAvailable"), PostOnce("weekVolume"), TestCharge>>, <<>>)
    /\ TestCharge = If("contributionFee", <<TestAssess>>, <<>>)
    /\ TestAssess = If("weekAssessment", <<>>, <<Create("weekAssessment"), PostOnce("weekFee")>>)
    /\ TestBills = If("demo", <<Need("catalogue"), Upsert("demoBill")>>, <<>>)
    /\ TestFunding = If("payable", <<FundAdmin, FundDemo>>, <<>>)
    /\ FundAdmin = If("admin", <<Upsert("adminAccounts"), PostOnce("adminFunding")>>, <<>>)
    /\ FundDemo = If("demo", <<Upsert("demoAccounts"), PostOnce("demoFunding")>>, <<>>)
    /\ TestGovernance = If("draftSlots", <<Upsert("version1"), Upsert("version2"),
                                           Upsert("invitation"), Upsert("referralCode"),
                                           Upsert("openSwap"), Upsert("doneSwap"),
                                           Upsert("swapApproval")>>, <<>>)
    /\ TestCompliance = If("admin", <<Upsert("consents"), Upsert("bank"), Upsert("pin"),
                                      Upsert("openReview"), Upsert("doneReview"),
                                      Upsert("coordinatorReview"), Upsert("auditTrail")>>, <<>>)
    /\ TestNotifications = If("admin", <<Upsert("preferences"), Upsert("notification"),
                                         Upsert("delivery")>>, <<>>)
    /\ TestReferrals = If("admin", <<TestBisi>>, <<>>)
    /\ TestBisi = If("bisi", <<Upsert("campaign"), Upsert("rewarded"), Upsert("qualification"),
                               Upsert("releasedReward"), Upsert("pendingReferral")>>, <<>>)
    /\ TestAccounts = If("demoAccounts", <<TestReward>>, <<>>)
    /\ TestReward = If("demoReward", <<>>, <<PostNew("demoReward"), Create("demoReward")>>)
  BY DEF FundAdmin, FundDemo, FundWallet, SeedAjoGovernance, SeedAjoGroup, SeedBillsDemo, SeedCycles,
         SeedDashboardActivity, SeedIdentityAndCompliance, SeedNotifications, SeedReferrals,
         SeedReferralsDemo, SeedWalletFunding, TestAccounts, TestAssess, TestBills, TestBisi,
         TestCharge, TestCompliance, TestCycles, TestFunding, TestGovernance, TestGroup,
         TestNotifications, TestReferrals, TestReward, TestWeek

\* No two of them are alike.
LEMMA TestsDiffer ==
    /\ TestGroup.do = "if" /\ TestGroup.row = "groupSlot1"
    /\ TestCycles.do = "if" /\ TestCycles.row = "group"
    /\ TestWeek.do = "if" /\ TestWeek.row = "bisiWallet"
    /\ TestCharge.do = "if" /\ TestCharge.row = "contributionFee"
    /\ TestAssess.do = "if" /\ TestAssess.row = "weekAssessment"
    /\ TestBills.do = "if" /\ TestBills.row = "demo"
    /\ TestFunding.do = "if" /\ TestFunding.row = "payable"
    /\ FundAdmin.do = "if" /\ FundAdmin.row = "admin" /\ Len(FundAdmin.there) = 2
    /\ FundDemo.do = "if" /\ FundDemo.row = "demo"
    /\ TestGovernance.do = "if" /\ TestGovernance.row = "draftSlots"
    /\ TestCompliance.do = "if" /\ TestCompliance.row = "admin" /\ Len(TestCompliance.there) = 7
    /\ TestNotifications.do = "if" /\ TestNotifications.row = "admin" /\ Len(TestNotifications.there) = 3
    /\ TestReferrals.do = "if" /\ TestReferrals.row = "admin" /\ Len(TestReferrals.there) = 1
    /\ TestBisi.do = "if" /\ TestBisi.row = "bisi"
    /\ TestAccounts.do = "if" /\ TestAccounts.row = "demoAccounts"
    /\ TestReward.do = "if" /\ TestReward.row = "demoReward"
    /\ TestBills.there[1].do = "need" /\ FundDemo.there[1].do = "upsert"
  BY TestsAre DEF If, Need, Upsert

\* What they ask for and bring.
LEMMA TestAsks ==
    /\ Asks(TestGroup) = {}
    /\ Brings(TestGroup) = {RowIn("groupMember1"), RowIn("groupMember2"), RowIn("groupSlot1")}
    /\ Asks(TestCycles) = {RowIn("group")} /\ Brings(TestCycles) = {RowIn("cycles")}
    /\ Asks(TestWeek) = {RowIn("bisiWallet"), RowIn("contributionFee")}
    /\ Brings(TestWeek) = {KeyIn("weekVolume"), RowIn("weekAssessment")}
    /\ Asks(TestCharge) = {RowIn("contributionFee")}
    /\ Brings(TestCharge) = {RowIn("weekAssessment")}
    /\ Asks(TestAssess) = {} /\ Brings(TestAssess) = {RowIn("weekAssessment")}
    /\ Asks(TestBills) = {RowIn("demo"), RowIn("catalogue")}
    /\ Brings(TestBills) = {RowIn("demoBill")}
    /\ Asks(TestFunding) = {RowIn("payable"), RowIn("admin"), RowIn("demo")}
    /\ Brings(TestFunding) = {KeyIn("adminFunding"), KeyIn("demoFunding")}
    /\ Asks(FundAdmin) = {RowIn("admin")} /\ Brings(FundAdmin) = {KeyIn("adminFunding")}
    /\ Asks(FundDemo) = {RowIn("demo")} /\ Brings(FundDemo) = {KeyIn("demoFunding")}
    /\ Asks(TestGovernance) = {RowIn("draftSlots")}
    /\ Brings(TestGovernance) = {RowIn("swapApproval")}
    /\ Asks(TestCompliance) = {RowIn("admin")} /\ Brings(TestCompliance) = {RowIn("auditTrail")}
    /\ Asks(TestNotifications) = {RowIn("admin")} /\ Brings(TestNotifications) = {RowIn("delivery")}
    /\ Asks(TestReferrals) = {RowIn("admin"), RowIn("bisi")}
    /\ Brings(TestReferrals) = {RowIn("pendingReferral")}
    /\ Asks(TestBisi) = {RowIn("bisi")} /\ Brings(TestBisi) = {RowIn("pendingReferral")}
    /\ Asks(TestAccounts) = {RowIn("demoAccounts")} /\ Brings(TestAccounts) = {RowIn("demoReward")}
    /\ Asks(TestReward) = {} /\ Brings(TestReward) = {RowIn("demoReward")}
<1>1. Of(TestGroup) = {Contract(TestGroup, {},
                                       {RowIn("groupMember1"), RowIn("groupMember2"), RowIn("groupSlot1")})}
  BY TestsDiffer DEF Of, Contracts, Contract
<1>2. Of(TestCycles) = {Contract(TestCycles, {RowIn("group")},
                                         {RowIn("cycles")})}
  BY TestsDiffer DEF Of, Contracts, Contract
<1>3. Of(TestWeek) = {Contract(TestWeek, {RowIn("bisiWallet"), RowIn("contributionFee")},
                                     {KeyIn("weekVolume"), RowIn("weekAssessment")})}
  BY TestsDiffer DEF Of, Contracts, Contract
<1>4. Of(TestCharge) = {Contract(TestCharge, {RowIn("contributionFee")},
                                         {RowIn("weekAssessment")})}
  BY TestsDiffer DEF Of, Contracts, Contract
<1>5. Of(TestAssess) = {Contract(TestAssess, {},
                                         {RowIn("weekAssessment")})}
  BY TestsDiffer DEF Of, Contracts, Contract
<1>6. Of(TestBills) = {Contract(TestBills, {RowIn("demo"), RowIn("catalogue")},
                                       {RowIn("demoBill")})}
  <2>1. TestBills \notin {TestGroup, TestCycles, TestWeek, TestCharge, TestAssess, TestFunding,
                         FundAdmin, FundDemo, TestGovernance, TestCompliance, TestNotifications,
                         TestReferrals, TestBisi, TestAccounts, TestReward}
    BY TestsDiffer
  <2> QED
    BY <2>1 DEF Of, Contracts, Contract
<1>7. Of(TestFunding) = {Contract(TestFunding, {RowIn("payable"), RowIn("admin"), RowIn("demo")},
                                           {KeyIn("adminFunding"), KeyIn("demoFunding")})}
  BY TestsDiffer DEF Of, Contracts, Contract
<1>8. Of(FundAdmin) = {Contract(FundAdmin, {RowIn("admin")},
                                       {KeyIn("adminFunding")})}
  <2>1. FundAdmin \notin {TestGroup, TestCycles, TestWeek, TestCharge, TestAssess, TestBills,
                         TestFunding, FundDemo, TestGovernance, TestCompliance, TestNotifications,
                         TestReferrals, TestBisi, TestAccounts, TestReward}
    BY TestsDiffer
  <2> QED
    BY <2>1 DEF Of, Contracts, Contract
<1>9. Of(FundDemo) = {Contract(FundDemo, {RowIn("demo")},
                                     {KeyIn("demoFunding")})}
  <2>1. FundDemo \notin {TestGroup, TestCycles, TestWeek, TestCharge, TestAssess, TestBills,
                        TestFunding, FundAdmin, TestGovernance, TestCompliance, TestNotifications,
                        TestReferrals, TestBisi, TestAccounts, TestReward}
    BY TestsDiffer
  <2> QED
    BY <2>1 DEF Of, Contracts, Contract
<1>10. Of(TestGovernance) = {Contract(TestGovernance, {RowIn("draftSlots")},
                                                  {RowIn("swapApproval")})}
  BY TestsDiffer DEF Of, Contracts, Contract
<1>11. Of(TestCompliance) = {Contract(TestCompliance, {RowIn("admin")},
                                                  {RowIn("auditTrail")})}
  <2>1. TestCompliance \notin {TestGroup, TestCycles, TestWeek, TestCharge, TestAssess, TestBills,
                              TestFunding, FundAdmin, FundDemo, TestGovernance, TestNotifications,
                              TestReferrals, TestBisi, TestAccounts, TestReward}
    BY TestsDiffer
  <2> QED
    BY <2>1 DEF Of, Contracts, Contract
<1>12. Of(TestNotifications) = {Contract(TestNotifications, {RowIn("admin")},
                                                        {RowIn("delivery")})}
  <2>1. TestNotifications \notin {TestGroup, TestCycles, TestWeek, TestCharge, TestAssess, TestBills,
                                 TestFunding, FundAdmin, FundDemo, TestGovernance, TestCompliance,
                                 TestReferrals, TestBisi, TestAccounts, TestReward}
    BY TestsDiffer
  <2> QED
    BY <2>1 DEF Of, Contracts, Contract
<1>13. Of(TestReferrals) = {Contract(TestReferrals, {RowIn("admin"), RowIn("bisi")},
                                                {RowIn("pendingReferral")})}
  <2>1. TestReferrals \notin {TestGroup, TestCycles, TestWeek, TestCharge, TestAssess, TestBills,
                             TestFunding, FundAdmin, FundDemo, TestGovernance, TestCompliance,
                             TestNotifications, TestBisi, TestAccounts, TestReward}
    BY TestsDiffer
  <2> QED
    BY <2>1 DEF Of, Contracts, Contract
<1>14. Of(TestBisi) = {Contract(TestBisi, {RowIn("bisi")},
                                      {RowIn("pendingReferral")})}
  BY TestsDiffer DEF Of, Contracts, Contract
<1>15. Of(TestAccounts) = {Contract(TestAccounts, {RowIn("demoAccounts")},
                                              {RowIn("demoReward")})}
  BY TestsDiffer DEF Of, Contracts, Contract
<1>16. Of(TestReward) = {Contract(TestReward, {},
                                          {RowIn("demoReward")})}
  BY TestsDiffer DEF Of, Contracts, Contract
<1>17. \A s, asks, brings :
         s.do = "if" /\ Of(s) = {Contract(s, asks, brings)} => Asks(s) = asks /\ Brings(s) = brings
  <2> TAKE s, asks, brings
  <2> HAVE s.do = "if" /\ Of(s) = {Contract(s, asks, brings)}
  <2>1. s # Create("groupSlot2") /\ s # Create("demoReward")
    BY DEF Create
  <2>2. Asks(s) = UNION {c.asks : c \in Of(s)} /\ Brings(s) = UNION {c.brings : c \in Of(s)}
    BY <2>1 DEF Asks, Brings
  <2> QED
    BY <2>2 DEF Contract
<1> QED
  BY <1>1, <1>2, <1>3, <1>4, <1>5, <1>6, <1>7, <1>8, <1>9, <1>10, <1>11, <1>12, <1>13, <1>14, <1>15,
     <1>16, <1>17,
     TestsDiffer

\* Every branch that is taken over a row that is there keeps its contract.
LEMMA AllKept == \A c \in Contracts : Kept(c)
<1>0. /\ TestCharge \in Calm /\ TestAssess \in Calm /\ TestReward \in Calm
      /\ FundAdmin \in Calm /\ FundDemo \in Calm /\ TestBisi \in Calm
  BY CalmStatements DEF Tests, Contracts, Contract
<1>1. Kept(Contract(TestGroup, {},
                    {RowIn("groupMember1"), RowIn("groupMember2"), RowIn("groupSlot1")}))
  <2> DEFINE there == <<Upsert("groupMember1"), Upsert("groupMember2")>>
  <2>1. \E missing : TestGroup = If("groupSlot1", there, missing)
    BY TestsAre
  <2>2. there \in Seq(Calm)
    BY CalmStatements DEF RowNames, SeedKeys
  <2>3. Works({} \cup {RowIn("groupSlot1")}, there,
              {RowIn("groupMember1"), RowIn("groupMember2"), RowIn("groupSlot1")})
    <3>1. Len(there) = 2
          /\ there[1] = Upsert("groupMember1") /\ there[2] = Upsert("groupMember2")
      OBVIOUS
    <3> HIDE DEF there
    <3>2. \A i \in 1 .. Len(there) : Asks(there[i]) = {}
      BY <3>1, AsksAndBrings
    <3> QED
      BY <3>1, <3>2, AsksAndBrings, WorksAlone
  <2> HIDE DEF there
  <2> QED
    BY <2>1, <2>2, <2>3, KeptBy
<1>2. Kept(Contract(TestCycles, {RowIn("group")},
                    {RowIn("cycles")}))
  <2> DEFINE there == <<Upsert("cycles")>>
  <2>1. \E missing : TestCycles = If("group", there, missing)
    BY TestsAre
  <2>2. there \in Seq(Calm)
    BY CalmStatements DEF RowNames, SeedKeys
  <2>3. Works({RowIn("group")} \cup {RowIn("group")}, there,
              {RowIn("cycles")})
    <3>1. Len(there) = 1
          /\ there[1] = Upsert("cycles")
      OBVIOUS
    <3> HIDE DEF there
    <3>2. \A i \in 1 .. Len(there) : Asks(there[i]) = {}
      BY <3>1, AsksAndBrings
    <3> QED
      BY <3>1, <3>2, AsksAndBrings, WorksAlone
  <2> HIDE DEF there
  <2> QED
    BY <2>1, <2>2, <2>3, KeptBy
<1>3. Kept(Contract(TestWeek, {RowIn("bisiWallet"), RowIn("contributionFee")},
                    {KeyIn("weekVolume"), RowIn("weekAssessment")}))
  <2> DEFINE there == <<Upsert("bisiAvailable"), PostOnce("weekVolume"), TestCharge>>
  <2>1. \E missing : TestWeek = If("bisiWallet", there, missing)
    BY TestsAre
  <2>2. there \in Seq(Calm)
    BY <1>0, CalmStatements DEF RowNames, SeedKeys
  <2>3. Works({RowIn("bisiWallet"), RowIn("contributionFee")} \cup {RowIn("bisiWallet")}, there,
              {KeyIn("weekVolume"), RowIn("weekAssessment")})
    <3>1. Len(there) = 3
          /\ there[1] = Upsert("bisiAvailable") /\ there[2] = PostOnce("weekVolume") /\
             there[3] = TestCharge
      OBVIOUS
    <3> HIDE DEF there
    <3> QED
      BY <3>1, AsksAndBrings, TestAsks DEF Works, Ordered, Brought
  <2> HIDE DEF there
  <2> QED
    BY <2>1, <2>2, <2>3, KeptBy
<1>4. Kept(Contract(TestCharge, {RowIn("contributionFee")},
                    {RowIn("weekAssessment")}))
  <2> DEFINE there == <<TestAssess>>
  <2>1. \E missing : TestCharge = If("contributionFee", there, missing)
    BY TestsAre
  <2>2. there \in Seq(Calm)
    BY <1>0, CalmStatements DEF RowNames, SeedKeys
  <2>3. Works({RowIn("contributionFee")} \cup {RowIn("contributionFee")}, there,
              {RowIn("weekAssessment")})
    <3>1. Len(there) = 1
          /\ there[1] = TestAssess
      OBVIOUS
    <3> HIDE DEF there
    <3> QED
      BY <3>1, AsksAndBrings, TestAsks DEF Works, Ordered, Brought
  <2> HIDE DEF there
  <2> QED
    BY <2>1, <2>2, <2>3, KeptBy
<1>5. Kept(Contract(TestAssess, {},
                    {RowIn("weekAssessment")}))
  <2> DEFINE there == <<>>
  <2>1. \E missing : TestAssess = If("weekAssessment", there, missing)
    BY TestsAre
  <2>2. there \in Seq(Calm)
    OBVIOUS
  <2>3. Works({} \cup {RowIn("weekAssessment")}, there,
              {RowIn("weekAssessment")})
    BY WorksAlone
  <2> HIDE DEF there
  <2> QED
    BY <2>1, <2>2, <2>3, KeptBy
<1>6. Kept(Contract(TestBills, {RowIn("demo"), RowIn("catalogue")},
                    {RowIn("demoBill")}))
  <2> DEFINE there == <<Need("catalogue"), Upsert("demoBill")>>
  <2>1. \E missing : TestBills = If("demo", there, missing)
    BY TestsAre
  <2>2. there \in Seq(Calm)
    BY CalmStatements DEF RowNames, SeedKeys
  <2>3. Works({RowIn("demo"), RowIn("catalogue")} \cup {RowIn("demo")}, there,
              {RowIn("demoBill")})
    <3>1. Len(there) = 2
          /\ there[1] = Need("catalogue") /\ there[2] = Upsert("demoBill")
      OBVIOUS
    <3> HIDE DEF there
    <3> QED
      BY <3>1, AsksAndBrings DEF Works, Ordered, Brought
  <2> HIDE DEF there
  <2> QED
    BY <2>1, <2>2, <2>3, KeptBy
<1>7. Kept(Contract(TestFunding, {RowIn("payable"), RowIn("admin"), RowIn("demo")},
                    {KeyIn("adminFunding"), KeyIn("demoFunding")}))
  <2> DEFINE there == <<FundAdmin, FundDemo>>
  <2>1. \E missing : TestFunding = If("payable", there, missing)
    BY TestsAre
  <2>2. there \in Seq(Calm)
    BY <1>0, CalmStatements DEF RowNames, SeedKeys
  <2>3. Works({RowIn("payable"), RowIn("admin"), RowIn("demo")} \cup {RowIn("payable")}, there,
              {KeyIn("adminFunding"), KeyIn("demoFunding")})
    <3>1. Len(there) = 2
          /\ there[1] = FundAdmin /\ there[2] = FundDemo
      OBVIOUS
    <3> HIDE DEF there
    <3> QED
      BY <3>1, AsksAndBrings, TestAsks DEF Works, Ordered, Brought
  <2> HIDE DEF there
  <2> QED
    BY <2>1, <2>2, <2>3, KeptBy
<1>8. Kept(Contract(FundAdmin, {RowIn("admin")},
                    {KeyIn("adminFunding")}))
  <2> DEFINE there == <<Upsert("adminAccounts"), PostOnce("adminFunding")>>
  <2>1. \E missing : FundAdmin = If("admin", there, missing)
    BY TestsAre
  <2>2. there \in Seq(Calm)
    BY CalmStatements DEF RowNames, SeedKeys
  <2>3. Works({RowIn("admin")} \cup {RowIn("admin")}, there,
              {KeyIn("adminFunding")})
    <3>1. Len(there) = 2
          /\ there[1] = Upsert("adminAccounts") /\ there[2] = PostOnce("adminFunding")
      OBVIOUS
    <3> HIDE DEF there
    <3>2. \A i \in 1 .. Len(there) : Asks(there[i]) = {}
      BY <3>1, AsksAndBrings
    <3> QED
      BY <3>1, <3>2, AsksAndBrings, WorksAlone
  <2> HIDE DEF there
  <2> QED
    BY <2>1, <2>2, <2>3, KeptBy
<1>9. Kept(Contract(FundDemo, {RowIn("demo")},
                    {KeyIn("demoFunding")}))
  <2> DEFINE there == <<Upsert("demoAccounts"), PostOnce("demoFunding")>>
  <2>1. \E missing : FundDemo = If("demo", there, missing)
    BY TestsAre
  <2>2. there \in Seq(Calm)
    BY CalmStatements DEF RowNames, SeedKeys
  <2>3. Works({RowIn("demo")} \cup {RowIn("demo")}, there,
              {KeyIn("demoFunding")})
    <3>1. Len(there) = 2
          /\ there[1] = Upsert("demoAccounts") /\ there[2] = PostOnce("demoFunding")
      OBVIOUS
    <3> HIDE DEF there
    <3>2. \A i \in 1 .. Len(there) : Asks(there[i]) = {}
      BY <3>1, AsksAndBrings
    <3> QED
      BY <3>1, <3>2, AsksAndBrings, WorksAlone
  <2> HIDE DEF there
  <2> QED
    BY <2>1, <2>2, <2>3, KeptBy
<1>10. Kept(Contract(TestGovernance, {RowIn("draftSlots")},
                     {RowIn("swapApproval")}))
  <2> DEFINE there == <<Upsert("version1"), Upsert("version2"), Upsert("invitation"),
                       Upsert("referralCode"), Upsert("openSwap"), Upsert("doneSwap"),
                       Upsert("swapApproval")>>
  <2>1. \E missing : TestGovernance = If("draftSlots", there, missing)
    BY TestsAre
  <2>2. there \in Seq(Calm)
    BY CalmStatements DEF RowNames, SeedKeys
  <2>3. Works({RowIn("draftSlots")} \cup {RowIn("draftSlots")}, there,
              {RowIn("swapApproval")})
    <3>1. Len(there) = 7
          /\ there[1] = Upsert("version1") /\ there[2] = Upsert("version2") /\
             there[3] = Upsert("invitation") /\ there[4] = Upsert("referralCode") /\
             there[5] = Upsert("openSwap") /\ there[6] = Upsert("doneSwap") /\
             there[7] = Upsert("swapApproval")
      OBVIOUS
    <3> HIDE DEF there
    <3>2. \A i \in 1 .. Len(there) : Asks(there[i]) = {}
      BY <3>1, AsksAndBrings
    <3> QED
      BY <3>1, <3>2, AsksAndBrings, WorksAlone
  <2> HIDE DEF there
  <2> QED
    BY <2>1, <2>2, <2>3, KeptBy
<1>11. Kept(Contract(TestCompliance, {RowIn("admin")},
                     {RowIn("auditTrail")}))
  <2> DEFINE there == <<Upsert("consents"), Upsert("bank"), Upsert("pin"), Upsert("openReview"),
                       Upsert("doneReview"), Upsert("coordinatorReview"), Upsert("auditTrail")>>
  <2>1. \E missing : TestCompliance = If("admin", there, missing)
    BY TestsAre
  <2>2. there \in Seq(Calm)
    BY CalmStatements DEF RowNames, SeedKeys
  <2>3. Works({RowIn("admin")} \cup {RowIn("admin")}, there,
              {RowIn("auditTrail")})
    <3>1. Len(there) = 7
          /\ there[1] = Upsert("consents") /\ there[2] = Upsert("bank") /\ there[3] = Upsert("pin") /\
             there[4] = Upsert("openReview") /\ there[5] = Upsert("doneReview") /\
             there[6] = Upsert("coordinatorReview") /\ there[7] = Upsert("auditTrail")
      OBVIOUS
    <3> HIDE DEF there
    <3>2. \A i \in 1 .. Len(there) : Asks(there[i]) = {}
      BY <3>1, AsksAndBrings
    <3> QED
      BY <3>1, <3>2, AsksAndBrings, WorksAlone
  <2> HIDE DEF there
  <2> QED
    BY <2>1, <2>2, <2>3, KeptBy
<1>12. Kept(Contract(TestNotifications, {RowIn("admin")},
                     {RowIn("delivery")}))
  <2> DEFINE there == <<Upsert("preferences"), Upsert("notification"), Upsert("delivery")>>
  <2>1. \E missing : TestNotifications = If("admin", there, missing)
    BY TestsAre
  <2>2. there \in Seq(Calm)
    BY CalmStatements DEF RowNames, SeedKeys
  <2>3. Works({RowIn("admin")} \cup {RowIn("admin")}, there,
              {RowIn("delivery")})
    <3>1. Len(there) = 3
          /\ there[1] = Upsert("preferences") /\ there[2] = Upsert("notification") /\
             there[3] = Upsert("delivery")
      OBVIOUS
    <3> HIDE DEF there
    <3>2. \A i \in 1 .. Len(there) : Asks(there[i]) = {}
      BY <3>1, AsksAndBrings
    <3> QED
      BY <3>1, <3>2, AsksAndBrings, WorksAlone
  <2> HIDE DEF there
  <2> QED
    BY <2>1, <2>2, <2>3, KeptBy
<1>13. Kept(Contract(TestReferrals, {RowIn("admin"), RowIn("bisi")},
                     {RowIn("pendingReferral")}))
  <2> DEFINE there == <<TestBisi>>
  <2>1. \E missing : TestReferrals = If("admin", there, missing)
    BY TestsAre
  <2>2. there \in Seq(Calm)
    BY <1>0, CalmStatements DEF RowNames, SeedKeys
  <2>3. Works({RowIn("admin"), RowIn("bisi")} \cup {RowIn("admin")}, there,
              {RowIn("pendingReferral")})
    <3>1. Len(there) = 1
          /\ there[1] = TestBisi
      OBVIOUS
    <3> HIDE DEF there
    <3> QED
      BY <3>1, AsksAndBrings, TestAsks DEF Works, Ordered, Brought
  <2> HIDE DEF there
  <2> QED
    BY <2>1, <2>2, <2>3, KeptBy
<1>14. Kept(Contract(TestBisi, {RowIn("bisi")},
                     {RowIn("pendingReferral")}))
  <2> DEFINE there == <<Upsert("campaign"), Upsert("rewarded"), Upsert("qualification"),
                       Upsert("releasedReward"), Upsert("pendingReferral")>>
  <2>1. \E missing : TestBisi = If("bisi", there, missing)
    BY TestsAre
  <2>2. there \in Seq(Calm)
    BY CalmStatements DEF RowNames, SeedKeys
  <2>3. Works({RowIn("bisi")} \cup {RowIn("bisi")}, there,
              {RowIn("pendingReferral")})
    <3>1. Len(there) = 5
          /\ there[1] = Upsert("campaign") /\ there[2] = Upsert("rewarded") /\
             there[3] = Upsert("qualification") /\ there[4] = Upsert("releasedReward") /\
             there[5] = Upsert("pendingReferral")
      OBVIOUS
    <3> HIDE DEF there
    <3>2. \A i \in 1 .. Len(there) : Asks(there[i]) = {}
      BY <3>1, AsksAndBrings
    <3> QED
      BY <3>1, <3>2, AsksAndBrings, WorksAlone
  <2> HIDE DEF there
  <2> QED
    BY <2>1, <2>2, <2>3, KeptBy
<1>15. Kept(Contract(TestAccounts, {RowIn("demoAccounts")},
                     {RowIn("demoReward")}))
  <2> DEFINE there == <<TestReward>>
  <2>1. \E missing : TestAccounts = If("demoAccounts", there, missing)
    BY TestsAre
  <2>2. there \in Seq(Calm)
    BY <1>0, CalmStatements DEF RowNames, SeedKeys
  <2>3. Works({RowIn("demoAccounts")} \cup {RowIn("demoAccounts")}, there,
              {RowIn("demoReward")})
    <3>1. Len(there) = 1
          /\ there[1] = TestReward
      OBVIOUS
    <3> HIDE DEF there
    <3> QED
      BY <3>1, AsksAndBrings, TestAsks DEF Works, Ordered, Brought
  <2> HIDE DEF there
  <2> QED
    BY <2>1, <2>2, <2>3, KeptBy
<1>16. Kept(Contract(TestReward, {},
                     {RowIn("demoReward")}))
  <2> DEFINE there == <<>>
  <2>1. \E missing : TestReward = If("demoReward", there, missing)
    BY TestsAre
  <2>2. there \in Seq(Calm)
    OBVIOUS
  <2>3. Works({} \cup {RowIn("demoReward")}, there,
              {RowIn("demoReward")})
    BY WorksAlone
  <2> HIDE DEF there
  <2> QED
    BY <2>1, <2>2, <2>3, KeptBy
<1> QED
  BY <1>1, <1>2, <1>3, <1>4, <1>5, <1>6, <1>7, <1>8, <1>9, <1>10, <1>11, <1>12, <1>13, <1>14, <1>15,
     <1>16
     DEF Contracts

\* What each seeder relies on and leaves.
LEMMA SeedersWork ==
    /\ SeedAccess \in Seq(Calm) /\ Works({}, SeedAccess, {})
    /\ SeedStaff \in Seq(Calm) /\ Works({}, SeedStaff, {RowIn("admin")})
    /\ SeedAccounts \in Seq(Calm)
    /\ Works({RowIn("admin")}, SeedAccounts,
              {RowIn("contributionFee"), RowIn("adminAccounts"), RowIn("payable"), RowIn("revenue")})
    /\ SeedOpening \in Seq(Calm)
    /\ Works({RowIn("adminAccounts"), RowIn("payable")}, SeedOpening, {KeyIn("adminOpening")})
    /\ SeedFixtures \in Seq(Calm) /\ Works({}, SeedFixtures, {RowIn("draftSlots")})
    /\ SeedAdminUsers \in Seq(Calm)
    /\ Works({}, SeedAdminUsers, {RowIn("bisi"), RowIn("bisiWallet")})
    /\ SeedAdminProducts \in Seq(Calm) /\ Works({}, SeedAdminProducts, {})
    /\ SeedAjoGroup \in Seq(Calm)
    /\ Works({}, SeedAjoGroup,
              {RowIn("group"), RowIn("groupMember1"), RowIn("groupMember2"), RowIn("groupSlot1")})
    /\ SeedAdminConsole \in Seq(Calm) /\ Works({RowIn("bisiWallet")}, SeedAdminConsole, {})
    /\ SeedAdminWallets \in Seq(Calm)
    /\ Works({RowIn("bisiWallet"), RowIn("payable")}, SeedAdminWallets,
              {RowIn("bisiAvailable"), KeyIn("bisiCredit")})
    /\ SeedCycles \in Seq(Calm) /\ Works({RowIn("group")}, SeedCycles, {RowIn("cycles")})
    /\ SeedDashboardActivity \in Seq(Calm)
    /\ Works({RowIn("payable"), RowIn("revenue"), RowIn("bisiWallet"), RowIn("contributionFee")}, SeedDashboardActivity,
              {KeyIn("weekVolume"), RowIn("weekAssessment")})
    /\ SeedDemoMembers \in Seq(Calm)
    /\ Works({}, SeedDemoMembers, {RowIn("demo"), RowIn("demoAccounts")})
    /\ SeedAjoDemo \in Seq(Calm) /\ Works({RowIn("demo")}, SeedAjoDemo, {})
    /\ SeedAkawoDemo \in Seq(Calm) /\ Works({RowIn("demo")}, SeedAkawoDemo, {RowIn("poolDue")})
    /\ SeedFoodDemo \in Seq(Calm)
    /\ Works({RowIn("demo")}, SeedFoodDemo, {RowIn("basketSubscription")})
    /\ SeedBillsDemo \in Seq(Calm) /\ Works({RowIn("demo")}, SeedBillsDemo, {RowIn("demoBill")})
    /\ SeedWalletFunding \in Seq(Calm)
    /\ Works({RowIn("payable"), RowIn("admin"), RowIn("demo")}, SeedWalletFunding,
              {KeyIn("adminFunding"), KeyIn("demoFunding")})
    /\ SeedAjoGovernance \in Seq(Calm)
    /\ Works({RowIn("draftSlots")}, SeedAjoGovernance, {RowIn("swapApproval")})
    /\ SeedIdentityAndCompliance \in Seq(Calm)
    /\ Works({RowIn("admin")}, SeedIdentityAndCompliance, {RowIn("auditTrail")})
    /\ SeedFees \in Seq(Statement) /\ Works({}, SeedFees, {RowIn("tiers")})
    /\ SeedNotifications \in Seq(Calm)
    /\ Works({RowIn("admin")}, SeedNotifications, {RowIn("delivery")})
    /\ SeedReferrals \in Seq(Calm)
    /\ Works({RowIn("admin"), RowIn("bisi")}, SeedReferrals, {RowIn("pendingReferral")})
    /\ SeedReferralsDemo \in Seq(Calm)
    /\ Works({RowIn("demo"), RowIn("demoAccounts")}, SeedReferralsDemo, {RowIn("demoReward")})
<1>0. /\ TestGroup \in Calm /\ TestCycles \in Calm /\ TestWeek \in Calm /\ TestBills \in Calm
      /\ TestFunding \in Calm /\ TestGovernance \in Calm /\ TestCompliance \in Calm
      /\ TestNotifications \in Calm /\ TestReferrals \in Calm /\ TestAccounts \in Calm
  BY CalmStatements DEF Tests, Contracts, Contract
<1>1. /\ SeedAccess \in Seq(Calm)
      /\ Works({}, SeedAccess, {})
  <2>1. SeedAccess = <<Upsert("permission"), Upsert("role"), Upsert("rolePermission")>>
    BY DEF SeedAccess
  <2>2. SeedAccess \in Seq(Calm)
    BY <2>1, CalmStatements DEF RowNames
  <2>3. /\ Len(SeedAccess) = 3
        /\ SeedAccess[1] = Upsert("permission") /\ SeedAccess[2] = Upsert("role") /\
           SeedAccess[3] = Upsert("rolePermission")
    BY <2>1
  <2>4. \A i \in 1 .. Len(SeedAccess) : Asks(SeedAccess[i]) = {}
    BY <2>3, AsksAndBrings
  <2> QED
    BY <2>2, <2>3, <2>4, AsksAndBrings, WorksAlone
<1>2. /\ SeedStaff \in Seq(Calm)
      /\ Works({}, SeedStaff, {RowIn("admin")})
  <2>1. SeedStaff = <<Upsert("admin"), Upsert("operator"), Upsert("operatorRole"),
                      Upsert("pendingUser"), Upsert("challenge"), Upsert("adminRole"),
                      Upsert("adminKyc"), Upsert("coordinator"), Upsert("application")>>
    BY DEF SeedStaff
  <2>2. SeedStaff \in Seq(Calm)
    BY <2>1, CalmStatements DEF RowNames
  <2>3. /\ Len(SeedStaff) = 9
        /\ SeedStaff[1] = Upsert("admin") /\ SeedStaff[2] = Upsert("operator") /\
           SeedStaff[3] = Upsert("operatorRole") /\ SeedStaff[4] = Upsert("pendingUser") /\
           SeedStaff[5] = Upsert("challenge") /\ SeedStaff[6] = Upsert("adminRole") /\
           SeedStaff[7] = Upsert("adminKyc") /\ SeedStaff[8] = Upsert("coordinator") /\
           SeedStaff[9] = Upsert("application")
    BY <2>1
  <2>4. \A i \in 1 .. Len(SeedStaff) : Asks(SeedStaff[i]) = {}
    BY <2>3, AsksAndBrings
  <2> QED
    BY <2>2, <2>3, <2>4, AsksAndBrings, WorksAlone
<1>3. /\ SeedAccounts \in Seq(Calm)
      /\ Works({RowIn("admin")}, SeedAccounts,
                {RowIn("contributionFee"), RowIn("adminAccounts"), RowIn("payable"), RowIn("revenue")})
  <2>1. SeedAccounts = <<Upsert("contributionFee"), Upsert("billFee"), Need("admin"),
                         Upsert("adminAccounts"), Upsert("payable"), Upsert("revenue")>>
    BY DEF SeedAccounts
  <2>2. SeedAccounts \in Seq(Calm)
    BY <2>1, CalmStatements DEF RowNames
  <2>3. /\ Len(SeedAccounts) = 6
        /\ SeedAccounts[1] = Upsert("contributionFee") /\ SeedAccounts[2] = Upsert("billFee") /\
           SeedAccounts[3] = Need("admin") /\ SeedAccounts[4] = Upsert("adminAccounts") /\
           SeedAccounts[5] = Upsert("payable") /\ SeedAccounts[6] = Upsert("revenue")
    BY <2>1
  <2>4. Ordered({RowIn("admin")}, SeedAccounts)
    BY <2>3, AsksAndBrings DEF Ordered
  <2>5. {RowIn("contributionFee"), RowIn("adminAccounts"), RowIn("payable"), RowIn("revenue")} \subseteq {RowIn("admin")} \cup Brought(SeedAccounts)
    BY <2>3, AsksAndBrings DEF Brought
  <2> QED
    BY <2>2, <2>4, <2>5 DEF Works
<1>4. /\ SeedOpening \in Seq(Calm)
      /\ Works({RowIn("adminAccounts"), RowIn("payable")}, SeedOpening, {KeyIn("adminOpening")})
  <2>1. SeedOpening = <<Need("adminAccounts"), Need("payable"), PostOnce("adminOpening"),
                        Upsert("brand")>>
    BY DEF SeedOpening
  <2>2. SeedOpening \in Seq(Calm)
    BY <2>1, CalmStatements DEF RowNames, SeedKeys
  <2>3. /\ Len(SeedOpening) = 4
        /\ SeedOpening[1] = Need("adminAccounts") /\ SeedOpening[2] = Need("payable") /\
           SeedOpening[3] = PostOnce("adminOpening") /\ SeedOpening[4] = Upsert("brand")
    BY <2>1
  <2>4. Ordered({RowIn("adminAccounts"), RowIn("payable")}, SeedOpening)
    BY <2>3, AsksAndBrings DEF Ordered
  <2>5. {KeyIn("adminOpening")} \subseteq {RowIn("adminAccounts"), RowIn("payable")} \cup Brought(SeedOpening)
    BY <2>3, AsksAndBrings DEF Brought
  <2> QED
    BY <2>2, <2>4, <2>5 DEF Works
<1>5. /\ SeedFixtures \in Seq(Calm)
      /\ Works({}, SeedFixtures, {RowIn("draftSlots")})
  <2>1. SeedFixtures = <<Upsert("draftGroup"), Upsert("draftMember"), Upsert("draftSlots"),
                         Upsert("draftProgramme"), Upsert("draftPackage"), Upsert("draftItems"),
                         Upsert("rentGoal"), Upsert("rentSchedule")>>
    BY DEF SeedFixtures
  <2>2. SeedFixtures \in Seq(Calm)
    BY <2>1, CalmStatements DEF RowNames
  <2>3. /\ Len(SeedFixtures) = 8
        /\ SeedFixtures[1] = Upsert("draftGroup") /\ SeedFixtures[2] = Upsert("draftMember") /\
           SeedFixtures[3] = Upsert("draftSlots") /\
           SeedFixtures[4] = Upsert("draftProgramme") /\
           SeedFixtures[5] = Upsert("draftPackage") /\
           SeedFixtures[6] = Upsert("draftItems") /\ SeedFixtures[7] = Upsert("rentGoal") /\
           SeedFixtures[8] = Upsert("rentSchedule")
    BY <2>1
  <2>4. \A i \in 1 .. Len(SeedFixtures) : Asks(SeedFixtures[i]) = {}
    BY <2>3, AsksAndBrings
  <2> QED
    BY <2>2, <2>3, <2>4, AsksAndBrings, WorksAlone
<1>6. /\ SeedAdminUsers \in Seq(Calm)
      /\ Works({}, SeedAdminUsers, {RowIn("bisi"), RowIn("bisiWallet")})
  <2>1. SeedAdminUsers = <<Upsert("role"), Upsert("bisi"), Upsert("bisiRole"),
                           Upsert("bisiProfile"), Upsert("bisiKyc"), Upsert("bisiWallet"),
                           Need("bisiKyc"), Upsert("bisiChecks")>>
    BY DEF SeedAdminUsers
  <2>2. SeedAdminUsers \in Seq(Calm)
    BY <2>1, CalmStatements DEF RowNames
  <2>3. /\ Len(SeedAdminUsers) = 8
        /\ SeedAdminUsers[1] = Upsert("role") /\ SeedAdminUsers[2] = Upsert("bisi") /\
           SeedAdminUsers[3] = Upsert("bisiRole") /\
           SeedAdminUsers[4] = Upsert("bisiProfile") /\
           SeedAdminUsers[5] = Upsert("bisiKyc") /\ SeedAdminUsers[6] = Upsert("bisiWallet") /\
           SeedAdminUsers[7] = Need("bisiKyc") /\ SeedAdminUsers[8] = Upsert("bisiChecks")
    BY <2>1
  <2>4. Ordered({}, SeedAdminUsers)
    BY <2>3, AsksAndBrings DEF Ordered
  <2>5. {RowIn("bisi"), RowIn("bisiWallet")} \subseteq {} \cup Brought(SeedAdminUsers)
    BY <2>3, AsksAndBrings DEF Brought
  <2> QED
    BY <2>2, <2>4, <2>5 DEF Works
<1>7. /\ SeedAdminProducts \in Seq(Calm)
      /\ Works({}, SeedAdminProducts, {})
  <2>1. SeedAdminProducts = <<Upsert("feesGoal"), Need("feesGoal"), Upsert("feesSchedule"),
                              Upsert("programme"), Upsert("package"), Upsert("items"),
                              Need("programme"), Need("package"), Upsert("subscription")>>
    BY DEF SeedAdminProducts
  <2>2. SeedAdminProducts \in Seq(Calm)
    BY <2>1, CalmStatements DEF RowNames
  <2>3. /\ Len(SeedAdminProducts) = 9
        /\ SeedAdminProducts[1] = Upsert("feesGoal") /\ SeedAdminProducts[2] = Need("feesGoal") /\
           SeedAdminProducts[3] = Upsert("feesSchedule") /\
           SeedAdminProducts[4] = Upsert("programme") /\
           SeedAdminProducts[5] = Upsert("package") /\
           SeedAdminProducts[6] = Upsert("items") /\
           SeedAdminProducts[7] = Need("programme") /\
           SeedAdminProducts[8] = Need("package") /\
           SeedAdminProducts[9] = Upsert("subscription")
    BY <2>1
  <2>4. Ordered({}, SeedAdminProducts)
    BY <2>3, AsksAndBrings DEF Ordered
  <2> QED
    BY <2>2, <2>4 DEF Works
<1>8. /\ SeedAjoGroup \in Seq(Calm)
      /\ Works({}, SeedAjoGroup,
                {RowIn("group"), RowIn("groupMember1"), RowIn("groupMember2"), RowIn("groupSlot1")})
  <2>1. SeedAjoGroup = <<Upsert("group"), TestGroup>>
    BY DEF SeedAjoGroup, TestGroup
  <2>2. SeedAjoGroup \in Seq(Calm)
    BY <2>1, <1>0, CalmStatements DEF RowNames
  <2>3. /\ Len(SeedAjoGroup) = 2
        /\ SeedAjoGroup[1] = Upsert("group") /\ SeedAjoGroup[2] = TestGroup
    BY <2>1
  <2>4. Ordered({}, SeedAjoGroup)
    BY <2>3, AsksAndBrings, TestAsks DEF Ordered
  <2>5. {RowIn("group"), RowIn("groupMember1"), RowIn("groupMember2"), RowIn("groupSlot1")} \subseteq {} \cup Brought(SeedAjoGroup)
    BY <2>3, AsksAndBrings, TestAsks DEF Brought
  <2> QED
    BY <2>2, <2>4, <2>5 DEF Works
<1>9. /\ SeedAdminConsole \in Seq(Calm)
      /\ Works({RowIn("bisiWallet")}, SeedAdminConsole, {})
  <2>1. SeedAdminConsole = <<Upsert("applications"), Upsert("percentageFee"),
                             Upsert("withdrawalFee"), Upsert("catalogue"), Need("catalogue"),
                             Need("bisiWallet"), Upsert("adminBills")>>
    BY DEF SeedAdminConsole
  <2>2. SeedAdminConsole \in Seq(Calm)
    BY <2>1, CalmStatements DEF RowNames
  <2>3. /\ Len(SeedAdminConsole) = 7
        /\ SeedAdminConsole[1] = Upsert("applications") /\
           SeedAdminConsole[2] = Upsert("percentageFee") /\
           SeedAdminConsole[3] = Upsert("withdrawalFee") /\
           SeedAdminConsole[4] = Upsert("catalogue") /\
           SeedAdminConsole[5] = Need("catalogue") /\
           SeedAdminConsole[6] = Need("bisiWallet") /\
           SeedAdminConsole[7] = Upsert("adminBills")
    BY <2>1
  <2>4. Ordered({RowIn("bisiWallet")}, SeedAdminConsole)
    BY <2>3, AsksAndBrings DEF Ordered
  <2> QED
    BY <2>2, <2>4 DEF Works
<1>10. /\ SeedAdminWallets \in Seq(Calm)
       /\ Works({RowIn("bisiWallet"), RowIn("payable")}, SeedAdminWallets,
                 {RowIn("bisiAvailable"), KeyIn("bisiCredit")})
  <2>1. SeedAdminWallets = <<Need("bisiWallet"), Upsert("bisiAvailable"), Need("payable"),
                             PostOnce("bisiCredit"), Upsert("waitlist"), Upsert("inquiries")>>
    BY DEF SeedAdminWallets
  <2>2. SeedAdminWallets \in Seq(Calm)
    BY <2>1, CalmStatements DEF RowNames, SeedKeys
  <2>3. /\ Len(SeedAdminWallets) = 6
        /\ SeedAdminWallets[1] = Need("bisiWallet") /\ SeedAdminWallets[2] = Upsert("bisiAvailable") /\
           SeedAdminWallets[3] = Need("payable") /\
           SeedAdminWallets[4] = PostOnce("bisiCredit") /\
           SeedAdminWallets[5] = Upsert("waitlist") /\ SeedAdminWallets[6] = Upsert("inquiries")
    BY <2>1
  <2>4. Ordered({RowIn("bisiWallet"), RowIn("payable")}, SeedAdminWallets)
    BY <2>3, AsksAndBrings DEF Ordered
  <2>5. {RowIn("bisiAvailable"), KeyIn("bisiCredit")} \subseteq {RowIn("bisiWallet"), RowIn("payable")} \cup Brought(SeedAdminWallets)
    BY <2>3, AsksAndBrings DEF Brought
  <2> QED
    BY <2>2, <2>4, <2>5 DEF Works
<1>11. /\ SeedCycles \in Seq(Calm)
       /\ Works({RowIn("group")}, SeedCycles, {RowIn("cycles")})
  <2>1. SeedCycles = <<TestCycles>>
    BY DEF SeedCycles, TestCycles
  <2>2. SeedCycles \in Seq(Calm)
    BY <2>1, <1>0, CalmStatements DEF RowNames
  <2>3. /\ Len(SeedCycles) = 1
        /\ SeedCycles[1] = TestCycles
    BY <2>1
  <2>4. Ordered({RowIn("group")}, SeedCycles)
    BY <2>3, AsksAndBrings, TestAsks DEF Ordered
  <2>5. {RowIn("cycles")} \subseteq {RowIn("group")} \cup Brought(SeedCycles)
    BY <2>3, AsksAndBrings, TestAsks DEF Brought
  <2> QED
    BY <2>2, <2>4, <2>5 DEF Works
<1>12. /\ SeedDashboardActivity \in Seq(Calm)
       /\ Works({RowIn("payable"), RowIn("revenue"), RowIn("bisiWallet"), RowIn("contributionFee")}, SeedDashboardActivity,
                 {KeyIn("weekVolume"), RowIn("weekAssessment")})
  <2>1. SeedDashboardActivity = <<Need("payable"), Need("revenue"), TestWeek>>
    BY DEF SeedDashboardActivity, TestWeek
  <2>2. SeedDashboardActivity \in Seq(Calm)
    BY <2>1, <1>0, CalmStatements DEF RowNames
  <2>3. /\ Len(SeedDashboardActivity) = 3
        /\ SeedDashboardActivity[1] = Need("payable") /\ SeedDashboardActivity[2] = Need("revenue") /\
           SeedDashboardActivity[3] = TestWeek
    BY <2>1
  <2>4. Ordered({RowIn("payable"), RowIn("revenue"), RowIn("bisiWallet"), RowIn("contributionFee")}, SeedDashboardActivity)
    BY <2>3, AsksAndBrings, TestAsks DEF Ordered
  <2>5. {KeyIn("weekVolume"), RowIn("weekAssessment")} \subseteq {RowIn("payable"), RowIn("revenue"), RowIn("bisiWallet"), RowIn("contributionFee")} \cup Brought(SeedDashboardActivity)
    BY <2>3, AsksAndBrings, TestAsks DEF Brought
  <2> QED
    BY <2>2, <2>4, <2>5 DEF Works
<1>13. /\ SeedDemoMembers \in Seq(Calm)
       /\ Works({}, SeedDemoMembers, {RowIn("demo"), RowIn("demoAccounts")})
  <2>1. SeedDemoMembers = <<Upsert("role"), Upsert("demo"), Upsert("demoAccounts"),
                            Upsert("demoProfile"), Upsert("demoKyc"), Upsert("demoPin"),
                            Upsert("demoIdentity"), Upsert("demoSlip"), Upsert("demoAddress")>>
    BY DEF SeedDemoMembers
  <2>2. SeedDemoMembers \in Seq(Calm)
    BY <2>1, CalmStatements DEF RowNames
  <2>3. /\ Len(SeedDemoMembers) = 9
        /\ SeedDemoMembers[1] = Upsert("role") /\ SeedDemoMembers[2] = Upsert("demo") /\
           SeedDemoMembers[3] = Upsert("demoAccounts") /\
           SeedDemoMembers[4] = Upsert("demoProfile") /\
           SeedDemoMembers[5] = Upsert("demoKyc") /\ SeedDemoMembers[6] = Upsert("demoPin") /\
           SeedDemoMembers[7] = Upsert("demoIdentity") /\
           SeedDemoMembers[8] = Upsert("demoSlip") /\ SeedDemoMembers[9] = Upsert("demoAddress")
    BY <2>1
  <2>4. \A i \in 1 .. Len(SeedDemoMembers) : Asks(SeedDemoMembers[i]) = {}
    BY <2>3, AsksAndBrings
  <2> QED
    BY <2>2, <2>3, <2>4, AsksAndBrings, WorksAlone
<1>14. /\ SeedAjoDemo \in Seq(Calm)
       /\ Works({RowIn("demo")}, SeedAjoDemo, {})
  <2>1. SeedAjoDemo = <<Need("demo"), Upsert("circle"), Upsert("circleMember"),
                        Upsert("circleSlot"), Upsert("circleCycle"), Upsert("circleSchedule"),
                        Upsert("circlePayout")>>
    BY DEF SeedAjoDemo
  <2>2. SeedAjoDemo \in Seq(Calm)
    BY <2>1, CalmStatements DEF RowNames
  <2>3. /\ Len(SeedAjoDemo) = 7
        /\ SeedAjoDemo[1] = Need("demo") /\ SeedAjoDemo[2] = Upsert("circle") /\
           SeedAjoDemo[3] = Upsert("circleMember") /\ SeedAjoDemo[4] = Upsert("circleSlot") /\
           SeedAjoDemo[5] = Upsert("circleCycle") /\
           SeedAjoDemo[6] = Upsert("circleSchedule") /\ SeedAjoDemo[7] = Upsert("circlePayout")
    BY <2>1
  <2>4. Ordered({RowIn("demo")}, SeedAjoDemo)
    BY <2>3, AsksAndBrings DEF Ordered
  <2> QED
    BY <2>2, <2>4 DEF Works
<1>15. /\ SeedAkawoDemo \in Seq(Calm)
       /\ Works({RowIn("demo")}, SeedAkawoDemo, {RowIn("poolDue")})
  <2>1. SeedAkawoDemo = <<Need("demo"), Upsert("savingsGoal"), Upsert("saving"), Upsert("pool"),
                          Upsert("poolMember"), Upsert("poolDue")>>
    BY DEF SeedAkawoDemo
  <2>2. SeedAkawoDemo \in Seq(Calm)
    BY <2>1, CalmStatements DEF RowNames
  <2>3. /\ Len(SeedAkawoDemo) = 6
        /\ SeedAkawoDemo[1] = Need("demo") /\ SeedAkawoDemo[2] = Upsert("savingsGoal") /\
           SeedAkawoDemo[3] = Upsert("saving") /\ SeedAkawoDemo[4] = Upsert("pool") /\
           SeedAkawoDemo[5] = Upsert("poolMember") /\ SeedAkawoDemo[6] = Upsert("poolDue")
    BY <2>1
  <2>4. Ordered({RowIn("demo")}, SeedAkawoDemo)
    BY <2>3, AsksAndBrings DEF Ordered
  <2>5. {RowIn("poolDue")} \subseteq {RowIn("demo")} \cup Brought(SeedAkawoDemo)
    BY <2>3, AsksAndBrings DEF Brought
  <2> QED
    BY <2>2, <2>4, <2>5 DEF Works
<1>16. /\ SeedFoodDemo \in Seq(Calm)
       /\ Works({RowIn("demo")}, SeedFoodDemo, {RowIn("basketSubscription")})
  <2>1. SeedFoodDemo = <<Need("demo"), Upsert("basket"), Upsert("basketPackage"),
                         Upsert("basketItems"), Upsert("basketSubscription")>>
    BY DEF SeedFoodDemo
  <2>2. SeedFoodDemo \in Seq(Calm)
    BY <2>1, CalmStatements DEF RowNames
  <2>3. /\ Len(SeedFoodDemo) = 5
        /\ SeedFoodDemo[1] = Need("demo") /\ SeedFoodDemo[2] = Upsert("basket") /\
           SeedFoodDemo[3] = Upsert("basketPackage") /\
           SeedFoodDemo[4] = Upsert("basketItems") /\
           SeedFoodDemo[5] = Upsert("basketSubscription")
    BY <2>1
  <2>4. Ordered({RowIn("demo")}, SeedFoodDemo)
    BY <2>3, AsksAndBrings DEF Ordered
  <2>5. {RowIn("basketSubscription")} \subseteq {RowIn("demo")} \cup Brought(SeedFoodDemo)
    BY <2>3, AsksAndBrings DEF Brought
  <2> QED
    BY <2>2, <2>4, <2>5 DEF Works
<1>17. /\ SeedBillsDemo \in Seq(Calm)
       /\ Works({RowIn("demo")}, SeedBillsDemo, {RowIn("demoBill")})
  <2>1. SeedBillsDemo = <<Upsert("catalogue"), TestBills>>
    BY DEF SeedBillsDemo, TestBills
  <2>2. SeedBillsDemo \in Seq(Calm)
    BY <2>1, <1>0, CalmStatements DEF RowNames
  <2>3. /\ Len(SeedBillsDemo) = 2
        /\ SeedBillsDemo[1] = Upsert("catalogue") /\ SeedBillsDemo[2] = TestBills
    BY <2>1
  <2>4. Ordered({RowIn("demo")}, SeedBillsDemo)
    BY <2>3, AsksAndBrings, TestAsks DEF Ordered
  <2>5. {RowIn("demoBill")} \subseteq {RowIn("demo")} \cup Brought(SeedBillsDemo)
    BY <2>3, AsksAndBrings, TestAsks DEF Brought
  <2> QED
    BY <2>2, <2>4, <2>5 DEF Works
<1>18. /\ SeedWalletFunding \in Seq(Calm)
       /\ Works({RowIn("payable"), RowIn("admin"), RowIn("demo")}, SeedWalletFunding,
                 {KeyIn("adminFunding"), KeyIn("demoFunding")})
  <2>1. SeedWalletFunding = <<TestFunding>>
    BY DEF SeedWalletFunding, TestFunding
  <2>2. SeedWalletFunding \in Seq(Calm)
    BY <2>1, <1>0, CalmStatements DEF RowNames
  <2>3. /\ Len(SeedWalletFunding) = 1
        /\ SeedWalletFunding[1] = TestFunding
    BY <2>1
  <2>4. Ordered({RowIn("payable"), RowIn("admin"), RowIn("demo")}, SeedWalletFunding)
    BY <2>3, AsksAndBrings, TestAsks DEF Ordered
  <2>5. {KeyIn("adminFunding"), KeyIn("demoFunding")} \subseteq {RowIn("payable"), RowIn("admin"), RowIn("demo")} \cup Brought(SeedWalletFunding)
    BY <2>3, AsksAndBrings, TestAsks DEF Brought
  <2> QED
    BY <2>2, <2>4, <2>5 DEF Works
<1>19. /\ SeedAjoGovernance \in Seq(Calm)
       /\ Works({RowIn("draftSlots")}, SeedAjoGovernance, {RowIn("swapApproval")})
  <2>1. SeedAjoGovernance = <<TestGovernance>>
    BY DEF SeedAjoGovernance, TestGovernance
  <2>2. SeedAjoGovernance \in Seq(Calm)
    BY <2>1, <1>0, CalmStatements DEF RowNames
  <2>3. /\ Len(SeedAjoGovernance) = 1
        /\ SeedAjoGovernance[1] = TestGovernance
    BY <2>1
  <2>4. Ordered({RowIn("draftSlots")}, SeedAjoGovernance)
    BY <2>3, AsksAndBrings, TestAsks DEF Ordered
  <2>5. {RowIn("swapApproval")} \subseteq {RowIn("draftSlots")} \cup Brought(SeedAjoGovernance)
    BY <2>3, AsksAndBrings, TestAsks DEF Brought
  <2> QED
    BY <2>2, <2>4, <2>5 DEF Works
<1>20. /\ SeedIdentityAndCompliance \in Seq(Calm)
       /\ Works({RowIn("admin")}, SeedIdentityAndCompliance, {RowIn("auditTrail")})
  <2>1. SeedIdentityAndCompliance = <<TestCompliance>>
    BY DEF SeedIdentityAndCompliance, TestCompliance
  <2>2. SeedIdentityAndCompliance \in Seq(Calm)
    BY <2>1, <1>0, CalmStatements DEF RowNames
  <2>3. /\ Len(SeedIdentityAndCompliance) = 1
        /\ SeedIdentityAndCompliance[1] = TestCompliance
    BY <2>1
  <2>4. Ordered({RowIn("admin")}, SeedIdentityAndCompliance)
    BY <2>3, AsksAndBrings, TestAsks DEF Ordered
  <2>5. {RowIn("auditTrail")} \subseteq {RowIn("admin")} \cup Brought(SeedIdentityAndCompliance)
    BY <2>3, AsksAndBrings, TestAsks DEF Brought
  <2> QED
    BY <2>2, <2>4, <2>5 DEF Works
<1>21. /\ SeedFees \in Seq(Statement)
       /\ Works({}, SeedFees, {RowIn("tiers")})
  <2>1. SeedFees = <<Upsert("tieredFee"), Delete("tiers"), Create("tiers")>>
    BY DEF SeedFees
  <2>2. SeedFees \in Seq(Statement)
    BY <2>1, CalmStatements DEF Statement, Risky, Created, RowNames
  <2>3. /\ Len(SeedFees) = 3
        /\ SeedFees[1] = Upsert("tieredFee") /\ SeedFees[2] = Delete("tiers") /\
           SeedFees[3] = Create("tiers")
    BY <2>1
  <2>4. \A i \in 1 .. Len(SeedFees) : Asks(SeedFees[i]) = {}
    BY <2>3, AsksAndBrings
  <2> QED
    BY <2>2, <2>3, <2>4, AsksAndBrings, WorksAlone
<1>22. /\ SeedNotifications \in Seq(Calm)
       /\ Works({RowIn("admin")}, SeedNotifications, {RowIn("delivery")})
  <2>1. SeedNotifications = <<TestNotifications>>
    BY DEF SeedNotifications, TestNotifications
  <2>2. SeedNotifications \in Seq(Calm)
    BY <2>1, <1>0, CalmStatements DEF RowNames
  <2>3. /\ Len(SeedNotifications) = 1
        /\ SeedNotifications[1] = TestNotifications
    BY <2>1
  <2>4. Ordered({RowIn("admin")}, SeedNotifications)
    BY <2>3, AsksAndBrings, TestAsks DEF Ordered
  <2>5. {RowIn("delivery")} \subseteq {RowIn("admin")} \cup Brought(SeedNotifications)
    BY <2>3, AsksAndBrings, TestAsks DEF Brought
  <2> QED
    BY <2>2, <2>4, <2>5 DEF Works
<1>23. /\ SeedReferrals \in Seq(Calm)
       /\ Works({RowIn("admin"), RowIn("bisi")}, SeedReferrals, {RowIn("pendingReferral")})
  <2>1. SeedReferrals = <<TestReferrals>>
    BY DEF SeedReferrals, TestReferrals
  <2>2. SeedReferrals \in Seq(Calm)
    BY <2>1, <1>0, CalmStatements DEF RowNames
  <2>3. /\ Len(SeedReferrals) = 1
        /\ SeedReferrals[1] = TestReferrals
    BY <2>1
  <2>4. Ordered({RowIn("admin"), RowIn("bisi")}, SeedReferrals)
    BY <2>3, AsksAndBrings, TestAsks DEF Ordered
  <2>5. {RowIn("pendingReferral")} \subseteq {RowIn("admin"), RowIn("bisi")} \cup Brought(SeedReferrals)
    BY <2>3, AsksAndBrings, TestAsks DEF Brought
  <2> QED
    BY <2>2, <2>4, <2>5 DEF Works
<1>24. /\ SeedReferralsDemo \in Seq(Calm)
       /\ Works({RowIn("demo"), RowIn("demoAccounts")}, SeedReferralsDemo, {RowIn("demoReward")})
  <2>1. SeedReferralsDemo = <<Need("demo"), Upsert("demoCampaign"), Upsert("expense"),
                              Upsert("demoReferral"), TestAccounts>>
    BY DEF SeedReferralsDemo, TestAccounts
  <2>2. SeedReferralsDemo \in Seq(Calm)
    BY <2>1, <1>0, CalmStatements DEF RowNames
  <2>3. /\ Len(SeedReferralsDemo) = 5
        /\ SeedReferralsDemo[1] = Need("demo") /\ SeedReferralsDemo[2] = Upsert("demoCampaign") /\
           SeedReferralsDemo[3] = Upsert("expense") /\
           SeedReferralsDemo[4] = Upsert("demoReferral") /\ SeedReferralsDemo[5] = TestAccounts
    BY <2>1
  <2>4. Ordered({RowIn("demo"), RowIn("demoAccounts")}, SeedReferralsDemo)
    BY <2>3, AsksAndBrings, TestAsks DEF Ordered
  <2>5. {RowIn("demoReward")} \subseteq {RowIn("demo"), RowIn("demoAccounts")} \cup Brought(SeedReferralsDemo)
    BY <2>3, AsksAndBrings, TestAsks DEF Brought
  <2> QED
    BY <2>2, <2>4, <2>5 DEF Works
<1> QED
  BY <1>1, <1>2, <1>3, <1>4, <1>5, <1>6, <1>7, <1>8, <1>9, <1>10, <1>11, <1>12, <1>13, <1>14, <1>15,
     <1>16, <1>17, <1>18, <1>19, <1>20, <1>21, <1>22, <1>23, <1>24

\* A statement is of one of these kinds.
LEMMA StatementKinds ==
    ASSUME NEW s \in Statement
    PROVE  \/ \E r \in RowNames : s = Upsert(r)
           \/ \E r \in RowNames : s = Need(r)
           \/ \E k \in SeedKeys : s = PostOnce(k)
           \/ s \in Tests
           \/ \E r \in Created : s = Create(r)
           \/ s = Delete("tiers")
           \/ s = PostNew("demoReward")
<1>1. ASSUME s \in [do: {"upsert", "need"}, row: RowNames]
      PROVE  \E r \in RowNames : s = Upsert(r) \/ s = Need(r)
  <2>1. s = [do |-> s.do, row |-> s.row] /\ s.do \in {"upsert", "need"} /\ s.row \in RowNames
    BY <1>1
  <2> QED
    BY <2>1 DEF Upsert, Need
<1>2. ASSUME s \in [do: {"postOnce"}, key: SeedKeys]
      PROVE  \E k \in SeedKeys : s = PostOnce(k)
  <2>1. s = [do |-> "postOnce", key |-> s.key] /\ s.key \in SeedKeys
    BY <1>2
  <2> QED
    BY <2>1 DEF PostOnce
<1> QED
  BY <1>1, <1>2 DEF Statement, Calm, Risky

\* The kinds, by what they do.
LEMMA TestsDo == \A s \in Tests : s.do = "if"
  BY AllKept DEF Tests, Kept

\* Calm statements neither create nor remove, and no posting of theirs is refused.
LEMMA CalmDo == \A s \in Calm : s.do \notin {"create", "remove", "postNew"}
<1>1. \A s \in [do: {"upsert", "need"}, row: RowNames] : s.do \in {"upsert", "need"}
  OBVIOUS
<1>2. \A s \in [do: {"postOnce"}, key: SeedKeys] : s.do = "postOnce"
  OBVIOUS
<1> QED
  BY <1>1, <1>2, TestsDo DEF Calm

\* Two lists, one after the other.
LEMMA Joined ==
    ASSUME NEW S, NEW s \in Seq(S), NEW t \in Seq(S)
    PROVE  /\ s \o t \in Seq(S)
           /\ Len(s) \in Nat /\ Len(t) \in Nat /\ Len(s \o t) = Len(s) + Len(t)
           /\ \A i \in 1 .. Len(s) : (s \o t)[i] = s[i]
           /\ \A i \in 1 .. Len(t) : (s \o t)[Len(s) + i] = t[i]
           /\ \A i \in 1 .. Len(s \o t) :
                i \notin 1 .. Len(s) => i - Len(s) \in 1 .. Len(t) /\ (s \o t)[i] = t[i - Len(s)]
  OBVIOUS

\* Every create directly behind the statement that removes its row, and no
\* posting that may be refused.
Settled(list) ==
    \A i \in 1 .. Len(list) :
        /\ list[i].do = "create" => i > 1 /\ list[i - 1] = Delete(list[i].row)
        /\ list[i].do # "postNew"

\* A settled list may be executed whatever is there.
LEMMA SettledIsFresh ==
    ASSUME NEW list, Settled(list), NEW known
    PROVE  Fresh(known, list)
  BY DEF Settled, Fresh

\* A settled list may follow another.
LEMMA SettledJoin ==
    ASSUME NEW s \in Seq(Statement), NEW t \in Seq(Statement), Settled(t)
    PROVE  /\ Settled(s) => Settled(s \o t)
           /\ \A known : Fresh(known, s) => Fresh(known, s \o t)
<1> DEFINE u == s \o t
           n == Len(s)
<1>1. /\ n \in Nat /\ Len(u) = n + Len(t) /\ Len(t) \in Nat
      /\ \A i \in 1 .. n : u[i] = s[i]
      /\ \A i \in 1 .. Len(t) : u[n + i] = t[i]
      /\ \A i \in 1 .. Len(u) : i \notin 1 .. n => i - n \in 1 .. Len(t) /\ u[i] = t[i - n]
  BY Joined
<1> HIDE DEF u, n
<1>2. ASSUME NEW i \in 1 .. Len(u), i \notin 1 .. n
      PROVE  /\ u[i].do = "create" => i > 1 /\ u[i - 1] = Delete(u[i].row)
             /\ u[i].do # "postNew"
  <2>1. i - n \in 1 .. Len(t) /\ u[i] = t[i - n]
    BY <1>1, <1>2
  <2>2. u[i].do # "postNew"
    BY <2>1 DEF Settled
  <2>3. ASSUME u[i].do = "create"
        PROVE  i > 1 /\ u[i - 1] = Delete(u[i].row)
    <3>1. (i - n) > 1 /\ t[(i - n) - 1] = Delete(t[i - n].row)
      BY <2>1, <2>3 DEF Settled
    <3>2. (i - n) - 1 \in 1 .. Len(t) /\ n + ((i - n) - 1) = i - 1
      BY <1>1, <2>1, <3>1
    <3>3. u[i - 1] = t[(i - n) - 1]
      BY <1>1, <3>2
    <3> QED
      BY <1>1, <2>1, <3>1, <3>3
  <2> QED
    BY <2>2, <2>3
<1>3. ASSUME NEW i \in 1 .. n
      PROVE  /\ u[i] = s[i]
             /\ \A j \in 1 .. i - 1 : u[j] = s[j]
             /\ i > 1 => u[i - 1] = s[i - 1]
  BY <1>1
<1>4. ASSUME Settled(s)
      PROVE  Settled(u)
  <2>1. ASSUME NEW i \in 1 .. n
        PROVE  /\ u[i].do = "create" => i > 1 /\ u[i - 1] = Delete(u[i].row)
               /\ u[i].do # "postNew"
    BY <1>3, <1>4, <2>1 DEF Settled, n
  <2> QED
    BY <1>2, <2>1 DEF Settled
<1>5. ASSUME NEW known, Fresh(known, s)
      PROVE  Fresh(known, u)
  <2>1. ASSUME NEW i \in 1 .. n
        PROVE  /\ u[i].do = "create" =>
                    \/ i > 1 /\ u[i - 1] = Delete(u[i].row)
                    \/ /\ RowIn(u[i].row) \notin known
                       /\ \A j \in 1 .. i - 1 : /\ u[j] \notin Tests
                                                /\ u[j].do = "create" => u[j].row # u[i].row
               /\ u[i].do = "postNew" => i = 1 /\ RowIn("demoReward") \notin known
    BY <1>3, <1>5, <2>1 DEF Fresh, n
  <2> QED
    BY <1>2, <2>1 DEF Fresh
<1> QED
  BY <1>4, <1>5 DEF u

\* Both parts keep their pairs.
LEMMA PairedJoin ==
    ASSUME NEW s \in Seq(Statement), NEW t \in Seq(Statement), Paired(s), Paired(t)
    PROVE  Paired(s \o t)
<1> DEFINE u == s \o t
           n == Len(s)
<1>1. /\ n \in Nat /\ Len(u) = n + Len(t) /\ Len(t) \in Nat
      /\ \A i \in 1 .. n : u[i] = s[i]
      /\ \A i \in 1 .. Len(t) : u[n + i] = t[i]
      /\ \A i \in 1 .. Len(u) : i \notin 1 .. n => i - n \in 1 .. Len(t) /\ u[i] = t[i - n]
  BY Joined
<1> HIDE DEF u, n
<1>2. ASSUME NEW p \in Pairs, NEW i \in 1 .. Len(u), u[i] = p[1]
      PROVE  \E j \in i + 1 .. Len(u) : u[j] = p[2]
  <2>1. CASE i \in 1 .. n
    <3>0. i \in 1 .. Len(s) /\ s[i] = p[1]
      BY <1>1, <1>2, <2>1 DEF n
    <3>1. PICK j \in i + 1 .. n : s[j] = p[2]
      BY <3>0 DEF Paired, n
    <3>2. j \in i + 1 .. Len(u) /\ u[j] = s[j]
      BY <1>1, <2>1
    <3> QED
      BY <3>1, <3>2
  <2>2. CASE i \notin 1 .. n
    <3>1. i - n \in 1 .. Len(t) /\ t[i - n] = p[1]
      BY <1>1, <1>2, <2>2
    <3>2. PICK j \in (i - n) + 1 .. Len(t) : t[j] = p[2]
      BY <3>1 DEF Paired
    <3>3. n + j \in i + 1 .. Len(u) /\ j \in 1 .. Len(t)
      BY <1>1, <3>1
    <3> QED
      BY <1>1, <3>2, <3>3
  <2> QED
    BY <2>1, <2>2
<1> QED
  BY <1>2 DEF Paired, u

\* A statement of either part is in the whole.
LEMMA InJoin ==
    ASSUME NEW s \in Seq(Statement), NEW t \in Seq(Statement), NEW x
    PROVE  In(x, s) \/ In(x, t) => In(x, s \o t)
<1> DEFINE u == s \o t
           n == Len(s)
<1>1. /\ n \in Nat /\ Len(u) = n + Len(t) /\ Len(t) \in Nat
      /\ \A i \in 1 .. n : u[i] = s[i]
      /\ \A i \in 1 .. Len(t) : u[n + i] = t[i]
  BY Joined
<1> HIDE DEF u, n
<1>2. ASSUME NEW i \in 1 .. n
      PROVE  i \in 1 .. Len(u) /\ u[i] = s[i]
  BY <1>1
<1>3. ASSUME NEW i \in 1 .. Len(t)
      PROVE  n + i \in 1 .. Len(u) /\ u[n + i] = t[i]
  BY <1>1
<1> QED
  BY <1>2, <1>3 DEF In, u, n

\* A list of calm statements.
LEMMA CalmLists ==
    ASSUME NEW list \in Seq(Calm)
    PROVE  list \in Seq(Statement) /\ Settled(list) /\ Paired(list)
<1>1. list \in Seq(Statement)
  BY DEF Statement
<1>2. \A i \in 1 .. Len(list) : list[i].do \notin {"create", "remove", "postNew"}
  BY CalmDo
<1>3. \A p \in Pairs : p[1].do \in {"create", "remove"}
  BY DEF Pairs, Create, Delete
<1> QED
  BY <1>1, <1>2, <1>3 DEF Settled, Paired

\* A list that is sound in itself and leaves what it says.
Sound(known, list, done) ==
    /\ list \in Seq(Statement)
    /\ Settled(list)
    /\ Paired(list)
    /\ Works(known, list, done)

\* Calm statements are sound wherever they work.
LEMMA SoundCalm ==
    ASSUME NEW list \in Seq(Calm), NEW known, NEW done, Works(known, list, done)
    PROVE  Sound(known, list, done)
  BY CalmLists DEF Sound

\* A seeder behind those before it.
LEMMA SoundJoin ==
    ASSUME NEW s, NEW t, NEW known, NEW half, NEW asks, NEW done,
           Sound(known, s, half), Sound(asks, t, done), asks \subseteq half
    PROVE  Sound(known, s \o t, half \cup done)
<1>1. /\ s \in Seq(Statement) /\ t \in Seq(Statement) /\ Settled(s) /\ Settled(t)
      /\ Paired(s) /\ Paired(t) /\ Works(known, s, half) /\ Works(asks, t, done)
  BY DEF Sound
<1>2. s \o t \in Seq(Statement)
  BY <1>1
<1>3. Settled(s \o t) /\ Paired(s \o t)
  BY <1>1, SettledJoin, PairedJoin
<1>4. Works(half, t, half \cup done)
  BY <1>1, WorksWithMore
<1>5. Works(known, s \o t, known \cup half \cup (half \cup done))
  BY <1>1, <1>4, WorksOn
<1>6. Works(known, s \o t, half \cup done)
  BY <1>5 DEF Works
<1> QED
  BY <1>2, <1>3, <1>6 DEF Sound

\* seedFees: the one seeder that removes rows, and writes them anew.
LEMMA FeesSound == Sound({}, SeedFees, {RowIn("tiers")})
<1>1. SeedFees = <<Upsert("tieredFee"), Delete("tiers"), Create("tiers")>>
  BY DEF SeedFees
<1>2. /\ Len(SeedFees) = 3 /\ SeedFees[1] = Upsert("tieredFee")
      /\ SeedFees[2] = Delete("tiers") /\ SeedFees[3] = Create("tiers")
  BY <1>1
<1>3. /\ Upsert("tieredFee").do = "upsert" /\ Delete("tiers").do = "remove"
      /\ Create("tiers").do = "create" /\ Create("tiers").row = "tiers"
  BY DEF Upsert, Delete, Create
<1>4. Settled(SeedFees)
  <2>1. \A i \in 1 .. 3 : i = 1 \/ i = 2 \/ i = 3
    OBVIOUS
  <2> QED
    BY <1>2, <1>3, <2>1 DEF Settled
<1>5. Paired(SeedFees)
  <2>1. /\ Create("groupSlot1") \notin {Upsert("tieredFee"), Delete("tiers"), Create("tiers")}
        /\ Create("weekAssessment") \notin {Upsert("tieredFee"), Delete("tiers"), Create("tiers")}
        /\ Delete("tiers") \notin {Upsert("tieredFee"), Create("tiers")}
    BY DEF Upsert, Delete, Create
  <2>2. ASSUME NEW i \in 1 .. Len(SeedFees), NEW p \in Pairs, SeedFees[i] = p[1]
        PROVE  \E j \in i + 1 .. Len(SeedFees) : SeedFees[j] = p[2]
    <3>1. i = 1 \/ i = 2 \/ i = 3
      BY <1>2
    <3>2. p[1] = Delete("tiers") /\ p[2] = Create("tiers") /\ i = 2
      BY <1>2, <2>1, <2>2, <3>1 DEF Pairs
    <3> QED
      BY <1>2, <3>2
  <2> QED
    BY <2>2 DEF Paired
<1> QED
  BY <1>4, <1>5, SeedersWork DEF Sound

\* seedAdminDemo.
LEMMA AdminDemoSound ==
    /\ Sound({RowIn("payable")}, SeedAdminDemo,
             {RowIn("payable"), RowIn("bisi"), RowIn("bisiWallet"), RowIn("group"),
              RowIn("groupMember1"), RowIn("groupMember2"), RowIn("groupSlot1"),
              RowIn("bisiAvailable"), KeyIn("bisiCredit"), RowIn("cycles")})
    /\ In(TestGroup, SeedAdminDemo)
<1> DEFINE K1 == {RowIn("payable"), RowIn("bisi"), RowIn("bisiWallet")}
           K2 == K1 \cup {}
           K3 == K2 \cup {RowIn("group"), RowIn("groupMember1"), RowIn("groupMember2"), RowIn("groupSlot1")}
           K4 == K3 \cup {}
           K5 == K4 \cup {RowIn("bisiAvailable"), KeyIn("bisiCredit")}
           K6 == K5 \cup {RowIn("cycles")}
           L2 == SeedAdminUsers \o SeedAdminProducts
           L3 == L2 \o SeedAjoGroup
           L4 == L3 \o SeedAdminConsole
           L5 == L4 \o SeedAdminWallets
           L6 == L5 \o SeedCycles
<1>0. In(TestGroup, SeedAjoGroup)
  <2>1. SeedAjoGroup = <<Upsert("group"), TestGroup>>
    BY DEF SeedAjoGroup, TestGroup
  <2>2. Len(SeedAjoGroup) = 2 /\ SeedAjoGroup[2] = TestGroup
    BY <2>1
  <2> QED
    BY <2>2 DEF In
<1>1. Sound({RowIn("payable")}, SeedAdminUsers, K1)
  <2>0. Works({}, SeedAdminUsers, {RowIn("bisi"), RowIn("bisiWallet")}) /\ {} \subseteq {RowIn("payable")}
    BY SeedersWork
  <2>1. Ordered({RowIn("payable")}, SeedAdminUsers)
    BY <2>0, OrderedMore DEF Works
  <2>2. Works({RowIn("payable")}, SeedAdminUsers, K1)
    BY <2>0, <2>1 DEF Works
  <2> QED
    BY <2>2, SeedersWork, SoundCalm
<1>2. Sound({RowIn("payable")}, L2, K2)
  <2>1. Sound({}, SeedAdminProducts, {})
    BY SeedersWork, SoundCalm
  <2> HIDE DEF K1
  <2> QED
    BY <1>1, <2>1, SoundJoin
<1>3. Sound({RowIn("payable")}, L3, K3) /\ In(TestGroup, L3)
  <2>1. Sound({}, SeedAjoGroup, {RowIn("group"), RowIn("groupMember1"), RowIn("groupMember2"), RowIn("groupSlot1")})
    BY SeedersWork, SoundCalm
  <2> HIDE DEF K2, L2
  <2>2. Sound({RowIn("payable")}, L3, K3)
    BY <1>2, <2>1, SoundJoin
  <2>3. In(TestGroup, L3)
    BY <1>0, <1>2, <2>1, InJoin DEF Sound
  <2> QED
    BY <2>2, <2>3
<1>4. Sound({RowIn("payable")}, L4, K4) /\ In(TestGroup, L4)
  <2>1. Sound({RowIn("bisiWallet")}, SeedAdminConsole, {})
    BY SeedersWork, SoundCalm
  <2>2. {RowIn("bisiWallet")} \subseteq K3
    OBVIOUS
  <2> HIDE DEF K3, L3
  <2>3. Sound({RowIn("payable")}, L4, K4)
    BY <1>3, <2>1, <2>2, SoundJoin
  <2>4. In(TestGroup, L4)
    BY <1>3, <2>1, InJoin DEF Sound
  <2> QED
    BY <2>3, <2>4
<1>5. Sound({RowIn("payable")}, L5, K5) /\ In(TestGroup, L5)
  <2>1. Sound({RowIn("bisiWallet"), RowIn("payable")}, SeedAdminWallets, {RowIn("bisiAvailable"), KeyIn("bisiCredit")})
    BY SeedersWork, SoundCalm
  <2>2. {RowIn("bisiWallet"), RowIn("payable")} \subseteq K4
    OBVIOUS
  <2> HIDE DEF K4, L4
  <2>3. Sound({RowIn("payable")}, L5, K5)
    BY <1>4, <2>1, <2>2, SoundJoin
  <2>4. In(TestGroup, L5)
    BY <1>4, <2>1, InJoin DEF Sound
  <2> QED
    BY <2>3, <2>4
<1>6. Sound({RowIn("payable")}, L6, K6) /\ In(TestGroup, L6)
  <2>1. Sound({RowIn("group")}, SeedCycles, {RowIn("cycles")})
    BY SeedersWork, SoundCalm
  <2>2. {RowIn("group")} \subseteq K5
    OBVIOUS
  <2> HIDE DEF K5, L5
  <2>3. Sound({RowIn("payable")}, L6, K6)
    BY <1>5, <2>1, <2>2, SoundJoin
  <2>4. In(TestGroup, L6)
    BY <1>5, <2>1, InJoin DEF Sound
  <2> QED
    BY <2>3, <2>4
<1>7. SeedAdminDemo = L6
  BY DEF SeedAdminDemo
<1>8. K6 = {RowIn("payable"), RowIn("bisi"), RowIn("bisiWallet"), RowIn("group"),
            RowIn("groupMember1"), RowIn("groupMember2"), RowIn("groupSlot1"),
            RowIn("bisiAvailable"), KeyIn("bisiCredit"), RowIn("cycles")}
  OBVIOUS
<1> HIDE DEF K6, L6
<1> QED
  BY <1>6, <1>7, <1>8

\* runSeed: the whole list can be executed from any state, and leaves what
\* it says; the two statements that write only on a first run are in it.
LEMMA StatementsSound ==
    Sound({}, Statements, Lasting) /\ In(TestGroup, Statements) /\ In(TestWeek, Statements)
<1> DEFINE K1 == {}
           K2 == K1 \cup {RowIn("admin")}
           K3 == K2 \cup {RowIn("contributionFee"), RowIn("adminAccounts"), RowIn("payable"), RowIn("revenue")}
           K4 == K3 \cup {KeyIn("adminOpening")}
           K5 == K4 \cup {RowIn("draftSlots")}
           K6 == K5 \cup {RowIn("payable"), RowIn("bisi"), RowIn("bisiWallet"), RowIn("group"),
                       RowIn("groupMember1"), RowIn("groupMember2"), RowIn("groupSlot1"),
                       RowIn("bisiAvailable"), KeyIn("bisiCredit"), RowIn("cycles")}
           K7 == K6 \cup {KeyIn("weekVolume"), RowIn("weekAssessment")}
           K8 == K7 \cup {RowIn("demo"), RowIn("demoAccounts")}
           K9 == K8 \cup {}
           K10 == K9 \cup {RowIn("poolDue")}
           K11 == K10 \cup {RowIn("basketSubscription")}
           K12 == K11 \cup {RowIn("demoBill")}
           K13 == K12 \cup {KeyIn("adminFunding"), KeyIn("demoFunding")}
           K14 == K13 \cup {RowIn("swapApproval")}
           K15 == K14 \cup {RowIn("auditTrail")}
           K16 == K15 \cup {RowIn("tiers")}
           K17 == K16 \cup {RowIn("delivery")}
           K18 == K17 \cup {RowIn("pendingReferral")}
           K19 == K18 \cup {RowIn("demoReward")}
           L1 == SeedAccess
           L2 == L1 \o SeedStaff
           L3 == L2 \o SeedAccounts
           L4 == L3 \o SeedOpening
           L5 == L4 \o SeedFixtures
           L6 == L5 \o SeedAdminDemo
           L7 == L6 \o SeedDashboardActivity
           L8 == L7 \o SeedDemoMembers
           L9 == L8 \o SeedAjoDemo
           L10 == L9 \o SeedAkawoDemo
           L11 == L10 \o SeedFoodDemo
           L12 == L11 \o SeedBillsDemo
           L13 == L12 \o SeedWalletFunding
           L14 == L13 \o SeedAjoGovernance
           L15 == L14 \o SeedIdentityAndCompliance
           L16 == L15 \o SeedFees
           L17 == L16 \o SeedNotifications
           L18 == L17 \o SeedReferrals
           L19 == L18 \o SeedReferralsDemo
<1>0. In(TestWeek, SeedDashboardActivity)
  <2>1. SeedDashboardActivity = <<Need("payable"), Need("revenue"), TestWeek>>
    BY DEF SeedDashboardActivity, TestWeek
  <2>2. Len(SeedDashboardActivity) = 3 /\ SeedDashboardActivity[3] = TestWeek
    BY <2>1
  <2> QED
    BY <2>2 DEF In
<1>1. Sound({}, L1, K1)
  BY SeedersWork, SoundCalm
<1>2. Sound({}, L2, K2)
  <2>1. Sound({}, SeedStaff, {RowIn("admin")})
    BY SeedersWork, SoundCalm
  <2>2. {} \subseteq K1
    OBVIOUS
  <2> HIDE DEF K1, L1
  <2>3. Sound({}, L2, K2)
    BY <1>1, <2>1, <2>2, SoundJoin
  <2> QED
    BY <2>3
<1>3. Sound({}, L3, K3)
  <2>1. Sound({RowIn("admin")}, SeedAccounts, {RowIn("contributionFee"), RowIn("adminAccounts"), RowIn("payable"), RowIn("revenue")})
    BY SeedersWork, SoundCalm
  <2>2. {RowIn("admin")} \subseteq K2
    OBVIOUS
  <2> HIDE DEF K2, L2
  <2>3. Sound({}, L3, K3)
    BY <1>2, <2>1, <2>2, SoundJoin
  <2> QED
    BY <2>3
<1>4. Sound({}, L4, K4)
  <2>1. Sound({RowIn("adminAccounts"), RowIn("payable")}, SeedOpening, {KeyIn("adminOpening")})
    BY SeedersWork, SoundCalm
  <2>2. {RowIn("adminAccounts"), RowIn("payable")} \subseteq K3
    OBVIOUS
  <2> HIDE DEF K3, L3
  <2>3. Sound({}, L4, K4)
    BY <1>3, <2>1, <2>2, SoundJoin
  <2> QED
    BY <2>3
<1>5. Sound({}, L5, K5)
  <2>1. Sound({}, SeedFixtures, {RowIn("draftSlots")})
    BY SeedersWork, SoundCalm
  <2>2. {} \subseteq K4
    OBVIOUS
  <2> HIDE DEF K4, L4
  <2>3. Sound({}, L5, K5)
    BY <1>4, <2>1, <2>2, SoundJoin
  <2> QED
    BY <2>3
<1>6. Sound({}, L6, K6) /\ In(TestGroup, L6)
  <2>1. Sound({RowIn("payable")}, SeedAdminDemo, {RowIn("payable"), RowIn("bisi"), RowIn("bisiWallet"), RowIn("group"),
                       RowIn("groupMember1"), RowIn("groupMember2"), RowIn("groupSlot1"),
                       RowIn("bisiAvailable"), KeyIn("bisiCredit"), RowIn("cycles")})
    BY AdminDemoSound
  <2>2. {RowIn("payable")} \subseteq K5
    OBVIOUS
  <2> HIDE DEF K5, L5
  <2>3. Sound({}, L6, K6)
    BY <1>5, <2>1, <2>2, SoundJoin
  <2>4. In(TestGroup, L6)
    BY <1>5, AdminDemoSound, <2>1, InJoin DEF Sound
  <2> QED
    BY <2>3, <2>4
<1>7. Sound({}, L7, K7) /\ In(TestGroup, L7) /\ In(TestWeek, L7)
  <2>1. Sound({RowIn("payable"), RowIn("revenue"), RowIn("bisiWallet"), RowIn("contributionFee")}, SeedDashboardActivity, {KeyIn("weekVolume"), RowIn("weekAssessment")})
    BY SeedersWork, SoundCalm
  <2>2. {RowIn("payable"), RowIn("revenue"), RowIn("bisiWallet"), RowIn("contributionFee")} \subseteq K6
    OBVIOUS
  <2> HIDE DEF K6, L6
  <2>3. Sound({}, L7, K7)
    BY <1>6, <2>1, <2>2, SoundJoin
  <2>4. In(TestGroup, L7) /\ In(TestWeek, L7)
    BY <1>6, <1>0, <2>1, InJoin DEF Sound
  <2> QED
    BY <2>3, <2>4
<1>8. Sound({}, L8, K8) /\ In(TestGroup, L8) /\ In(TestWeek, L8)
  <2>1. Sound({}, SeedDemoMembers, {RowIn("demo"), RowIn("demoAccounts")})
    BY SeedersWork, SoundCalm
  <2>2. {} \subseteq K7
    OBVIOUS
  <2> HIDE DEF K7, L7
  <2>3. Sound({}, L8, K8)
    BY <1>7, <2>1, <2>2, SoundJoin
  <2>4. In(TestGroup, L8) /\ In(TestWeek, L8)
    BY <1>7, <2>1, InJoin DEF Sound
  <2> QED
    BY <2>3, <2>4
<1>9. Sound({}, L9, K9) /\ In(TestGroup, L9) /\ In(TestWeek, L9)
  <2>1. Sound({RowIn("demo")}, SeedAjoDemo, {})
    BY SeedersWork, SoundCalm
  <2>2. {RowIn("demo")} \subseteq K8
    OBVIOUS
  <2> HIDE DEF K8, L8
  <2>3. Sound({}, L9, K9)
    BY <1>8, <2>1, <2>2, SoundJoin
  <2>4. In(TestGroup, L9) /\ In(TestWeek, L9)
    BY <1>8, <2>1, InJoin DEF Sound
  <2> QED
    BY <2>3, <2>4
<1>10. Sound({}, L10, K10) /\ In(TestGroup, L10) /\ In(TestWeek, L10)
  <2>1. Sound({RowIn("demo")}, SeedAkawoDemo, {RowIn("poolDue")})
    BY SeedersWork, SoundCalm
  <2>2. {RowIn("demo")} \subseteq K9
    OBVIOUS
  <2> HIDE DEF K9, L9
  <2>3. Sound({}, L10, K10)
    BY <1>9, <2>1, <2>2, SoundJoin
  <2>4. In(TestGroup, L10) /\ In(TestWeek, L10)
    BY <1>9, <2>1, InJoin DEF Sound
  <2> QED
    BY <2>3, <2>4
<1>11. Sound({}, L11, K11) /\ In(TestGroup, L11) /\ In(TestWeek, L11)
  <2>1. Sound({RowIn("demo")}, SeedFoodDemo, {RowIn("basketSubscription")})
    BY SeedersWork, SoundCalm
  <2>2. {RowIn("demo")} \subseteq K10
    OBVIOUS
  <2> HIDE DEF K10, L10
  <2>3. Sound({}, L11, K11)
    BY <1>10, <2>1, <2>2, SoundJoin
  <2>4. In(TestGroup, L11) /\ In(TestWeek, L11)
    BY <1>10, <2>1, InJoin DEF Sound
  <2> QED
    BY <2>3, <2>4
<1>12. Sound({}, L12, K12) /\ In(TestGroup, L12) /\ In(TestWeek, L12)
  <2>1. Sound({RowIn("demo")}, SeedBillsDemo, {RowIn("demoBill")})
    BY SeedersWork, SoundCalm
  <2>2. {RowIn("demo")} \subseteq K11
    OBVIOUS
  <2> HIDE DEF K11, L11
  <2>3. Sound({}, L12, K12)
    BY <1>11, <2>1, <2>2, SoundJoin
  <2>4. In(TestGroup, L12) /\ In(TestWeek, L12)
    BY <1>11, <2>1, InJoin DEF Sound
  <2> QED
    BY <2>3, <2>4
<1>13. Sound({}, L13, K13) /\ In(TestGroup, L13) /\ In(TestWeek, L13)
  <2>1. Sound({RowIn("payable"), RowIn("admin"), RowIn("demo")}, SeedWalletFunding, {KeyIn("adminFunding"), KeyIn("demoFunding")})
    BY SeedersWork, SoundCalm
  <2>2. {RowIn("payable"), RowIn("admin"), RowIn("demo")} \subseteq K12
    OBVIOUS
  <2> HIDE DEF K12, L12
  <2>3. Sound({}, L13, K13)
    BY <1>12, <2>1, <2>2, SoundJoin
  <2>4. In(TestGroup, L13) /\ In(TestWeek, L13)
    BY <1>12, <2>1, InJoin DEF Sound
  <2> QED
    BY <2>3, <2>4
<1>14. Sound({}, L14, K14) /\ In(TestGroup, L14) /\ In(TestWeek, L14)
  <2>1. Sound({RowIn("draftSlots")}, SeedAjoGovernance, {RowIn("swapApproval")})
    BY SeedersWork, SoundCalm
  <2>2. {RowIn("draftSlots")} \subseteq K13
    OBVIOUS
  <2> HIDE DEF K13, L13
  <2>3. Sound({}, L14, K14)
    BY <1>13, <2>1, <2>2, SoundJoin
  <2>4. In(TestGroup, L14) /\ In(TestWeek, L14)
    BY <1>13, <2>1, InJoin DEF Sound
  <2> QED
    BY <2>3, <2>4
<1>15. Sound({}, L15, K15) /\ In(TestGroup, L15) /\ In(TestWeek, L15)
  <2>1. Sound({RowIn("admin")}, SeedIdentityAndCompliance, {RowIn("auditTrail")})
    BY SeedersWork, SoundCalm
  <2>2. {RowIn("admin")} \subseteq K14
    OBVIOUS
  <2> HIDE DEF K14, L14
  <2>3. Sound({}, L15, K15)
    BY <1>14, <2>1, <2>2, SoundJoin
  <2>4. In(TestGroup, L15) /\ In(TestWeek, L15)
    BY <1>14, <2>1, InJoin DEF Sound
  <2> QED
    BY <2>3, <2>4
<1>16. Sound({}, L16, K16) /\ In(TestGroup, L16) /\ In(TestWeek, L16)
  <2>1. Sound({}, SeedFees, {RowIn("tiers")})
    BY FeesSound
  <2>2. {} \subseteq K15
    OBVIOUS
  <2> HIDE DEF K15, L15
  <2>3. Sound({}, L16, K16)
    BY <1>15, <2>1, <2>2, SoundJoin
  <2>4. In(TestGroup, L16) /\ In(TestWeek, L16)
    BY <1>15, <2>1, InJoin DEF Sound
  <2> QED
    BY <2>3, <2>4
<1>17. Sound({}, L17, K17) /\ In(TestGroup, L17) /\ In(TestWeek, L17)
  <2>1. Sound({RowIn("admin")}, SeedNotifications, {RowIn("delivery")})
    BY SeedersWork, SoundCalm
  <2>2. {RowIn("admin")} \subseteq K16
    OBVIOUS
  <2> HIDE DEF K16, L16
  <2>3. Sound({}, L17, K17)
    BY <1>16, <2>1, <2>2, SoundJoin
  <2>4. In(TestGroup, L17) /\ In(TestWeek, L17)
    BY <1>16, <2>1, InJoin DEF Sound
  <2> QED
    BY <2>3, <2>4
<1>18. Sound({}, L18, K18) /\ In(TestGroup, L18) /\ In(TestWeek, L18)
  <2>1. Sound({RowIn("admin"), RowIn("bisi")}, SeedReferrals, {RowIn("pendingReferral")})
    BY SeedersWork, SoundCalm
  <2>2. {RowIn("admin"), RowIn("bisi")} \subseteq K17
    OBVIOUS
  <2> HIDE DEF K17, L17
  <2>3. Sound({}, L18, K18)
    BY <1>17, <2>1, <2>2, SoundJoin
  <2>4. In(TestGroup, L18) /\ In(TestWeek, L18)
    BY <1>17, <2>1, InJoin DEF Sound
  <2> QED
    BY <2>3, <2>4
<1>19. Sound({}, L19, K19) /\ In(TestGroup, L19) /\ In(TestWeek, L19)
  <2>1. Sound({RowIn("demo"), RowIn("demoAccounts")}, SeedReferralsDemo, {RowIn("demoReward")})
    BY SeedersWork, SoundCalm
  <2>2. {RowIn("demo"), RowIn("demoAccounts")} \subseteq K18
    OBVIOUS
  <2> HIDE DEF K18, L18
  <2>3. Sound({}, L19, K19)
    BY <1>18, <2>1, <2>2, SoundJoin
  <2>4. In(TestGroup, L19) /\ In(TestWeek, L19)
    BY <1>18, <2>1, InJoin DEF Sound
  <2> QED
    BY <2>3, <2>4
<1>20. Statements = L19
  BY DEF Statements
<1>21. Lasting \subseteq K19
  BY DEF Lasting, SeededRows, SeedKeys
<1> HIDE DEF K19, L19
<1>22. Works({}, Statements, Lasting)
  BY <1>19, <1>20, <1>21 DEF Sound, Works
<1> QED
  BY <1>19, <1>20, <1>22 DEF Sound

\* A run that was started has something to do.
LEMMA SomethingToDo == Statements # <<>>
<1>1. Len(<<>>) = 0
  OBVIOUS
<1> QED
  BY <1>1, StatementsSound DEF In

-----------------------------------------------------------------------------
(* One statement of a list that can be executed.                           *)

\* The head of a list and the rest of it.
LEMMA HeadAndTail ==
    ASSUME NEW S, NEW list \in Seq(S), list # <<>>
    PROVE  /\ Head(list) \in S /\ Head(list) = list[1] /\ Tail(list) \in Seq(S)
           /\ Len(list) \in Nat /\ Len(list) >= 1 /\ Len(Tail(list)) = Len(list) - 1
           /\ \A i \in 1 .. Len(Tail(list)) : Tail(list)[i] = list[i + 1]
           /\ \A i \in 2 .. Len(list) : i - 1 \in 1 .. Len(Tail(list)) /\ Tail(list)[i - 1] = list[i]
  OBVIOUS

\* The pair of the first statement is still to come.
LEMMA PairedTail ==
    ASSUME NEW list \in Seq(Statement), list # <<>>, Paired(list)
    PROVE  /\ Paired(Tail(list))
           /\ \A p \in Pairs : Head(list) = p[1] => In(p[2], Tail(list))
<1>1. /\ Head(list) = list[1] /\ Len(list) \in Nat /\ Len(list) >= 1
      /\ Len(Tail(list)) = Len(list) - 1
      /\ \A i \in 1 .. Len(Tail(list)) : Tail(list)[i] = list[i + 1]
      /\ \A i \in 2 .. Len(list) : i - 1 \in 1 .. Len(Tail(list)) /\ Tail(list)[i - 1] = list[i]
  BY HeadAndTail
<1> DEFINE rest == Tail(list)
<1> HIDE DEF rest
<1>2. ASSUME NEW p \in Pairs, NEW i \in 1 .. Len(rest), rest[i] = p[1]
      PROVE  \E j \in i + 1 .. Len(rest) : rest[j] = p[2]
  <2>1. i + 1 \in 1 .. Len(list) /\ list[i + 1] = p[1]
    BY <1>1, <1>2 DEF rest
  <2>2. PICK j \in (i + 1) + 1 .. Len(list) : list[j] = p[2]
    BY <2>1 DEF Paired
  <2>3. j \in 2 .. Len(list) /\ j - 1 \in i + 1 .. Len(rest)
    BY <1>1 DEF rest
  <2> QED
    BY <1>1, <2>2, <2>3 DEF rest
<1>3. ASSUME NEW p \in Pairs, list[1] = p[1]
      PROVE  In(p[2], rest)
  <2>1. 1 \in 1 .. Len(list)
    BY <1>1
  <2>2. PICK j \in 1 + 1 .. Len(list) : list[j] = p[2]
    BY <1>3, <2>1 DEF Paired
  <2>3. j \in 2 .. Len(list)
    BY <1>1
  <2>4. j - 1 \in 1 .. Len(rest) /\ rest[j - 1] = p[2]
    BY <1>1, <2>2, <2>3 DEF rest
  <2> QED
    BY <2>4 DEF In
<1> QED
  BY <1>1, <1>2, <1>3 DEF Paired, rest

\* A statement of a list is its first, or behind it.
LEMMA InTail ==
    ASSUME NEW list \in Seq(Statement), list # <<>>, NEW x, In(x, list)
    PROVE  x = Head(list) \/ In(x, Tail(list))
<1>1. /\ Head(list) = list[1] /\ Len(list) \in Nat /\ Len(list) >= 1
      /\ \A i \in 2 .. Len(list) : i - 1 \in 1 .. Len(Tail(list)) /\ Tail(list)[i - 1] = list[i]
  BY HeadAndTail
<1>2. PICK i \in 1 .. Len(list) : list[i] = x
  BY DEF In
<1>3. CASE i = 1
  BY <1>1, <1>2, <1>3
<1>4. CASE i # 1
  <2>1. i \in 2 .. Len(list)
    BY <1>1, <1>4
  <2> QED
    BY <1>1, <1>2, <2>1 DEF In
<1> QED
  BY <1>3, <1>4

\* What is created later is still missing, whatever the first statement writes.
LEMMA FreshTail ==
    ASSUME NEW list \in Seq(Statement), list # <<>>, NEW known, Fresh(known, list), NEW after,
           Head(list) \notin Tests,
           \A r \in Created : RowIn(r) \in after =>
              /\ RowIn(r) \in known \/ (Head(list).do = "create" /\ Head(list).row = r)
              /\ Head(list) # Delete(r)
    PROVE  Fresh(after, Tail(list))
<1>1. /\ Head(list) = list[1] /\ Len(list) \in Nat /\ Len(list) >= 1
      /\ Len(Tail(list)) = Len(list) - 1
      /\ \A i \in 1 .. Len(Tail(list)) : Tail(list)[i] = list[i + 1]
      /\ Tail(list) \in Seq(Statement)
  BY HeadAndTail
<1> DEFINE rest == Tail(list)
<1>2. \A i \in 1 .. Len(rest) : i + 1 \in 1 .. Len(list) /\ rest[i] = list[i + 1] /\ rest[i] \in Statement
  BY <1>1
<1> HIDE DEF rest
<1>3. ASSUME NEW i \in 1 .. Len(rest), rest[i].do = "create"
      PROVE  \/ i > 1 /\ rest[i - 1] = Delete(rest[i].row)
             \/ /\ RowIn(rest[i].row) \notin after
                /\ \A j \in 1 .. i - 1 : /\ rest[j] \notin Tests
                                         /\ rest[j].do = "create" => rest[j].row # rest[i].row
  <2> DEFINE r == rest[i].row
  <2>1. r \in Created
    <3>1. /\ \A x : Upsert(x).do # "create" /\ Need(x).do # "create" /\ Delete(x).do # "create"
          /\ \A x : PostOnce(x).do # "create" /\ PostNew(x).do # "create" /\ Create(x).row = x
      BY DEF Upsert, Need, Delete, PostOnce, PostNew, Create
    <3> QED
      BY <1>2, <1>3, <3>1, StatementKinds, TestsDo
  <2>2. list[i + 1].do = "create" /\ list[i + 1].row = r /\ i + 1 \in 1 .. Len(list)
    BY <1>2, <1>3
  <2>3. \/ list[i] = Delete(r)
        \/ /\ RowIn(r) \notin known
           /\ \A j \in 1 .. i : /\ list[j] \notin Tests
                                /\ list[j].do = "create" => list[j].row # r
    <3>1. (i + 1) - 1 = i
      OBVIOUS
    <3> QED
      BY <2>2, <3>1 DEF Fresh
  <2> HIDE DEF r
  <2>4. CASE list[i] = Delete(r)
    <3>1. CASE i = 1
      <4>1. RowIn(r) \notin after
        BY <1>1, <2>1, <2>4, <3>1
      <4> QED
        BY <3>1, <4>1 DEF r
    <3>2. CASE i > 1
      <4>1. i - 1 \in 1 .. Len(rest) /\ (i - 1) + 1 = i
        BY <1>1, <3>2 DEF rest
      <4>2. rest[i - 1] = list[i]
        BY <1>2, <4>1
      <4> QED
        BY <2>4, <3>2, <4>2 DEF r
    <3> QED
      BY <3>1, <3>2
  <2>5. CASE /\ RowIn(r) \notin known
             /\ \A j \in 1 .. i : list[j] \notin Tests /\ (list[j].do = "create" => list[j].row # r)
    <3>1. 1 \in 1 .. i
      OBVIOUS
    <3>2. RowIn(r) \notin after
      BY <1>1, <2>1, <2>5, <3>1
    <3>3. \A j \in 1 .. i - 1 : j + 1 \in 1 .. i /\ j \in 1 .. Len(rest) /\ rest[j] = list[j + 1]
      BY <1>1, <1>2 DEF rest
    <3> QED
      BY <2>5, <3>2, <3>3 DEF r
  <2> QED
    BY <2>3, <2>4, <2>5
<1>4. ASSUME NEW i \in 1 .. Len(rest), rest[i].do = "postNew"
      PROVE  FALSE
  <2>1. i + 1 \in 1 .. Len(list) /\ list[i + 1].do = "postNew" /\ i + 1 # 1
    BY <1>2, <1>4
  <2> QED
    BY <2>1 DEF Fresh
<1> QED
  BY <1>3, <1>4 DEF Fresh, rest

\* Behind a test, every create has its delete.
LEMMA SettledTail ==
    ASSUME NEW list \in Seq(Statement), list # <<>>, NEW known, Fresh(known, list),
           Head(list) \in Tests
    PROVE  Settled(Tail(list))
<1>1. /\ Head(list) = list[1] /\ Len(list) \in Nat /\ Len(list) >= 1
      /\ Len(Tail(list)) = Len(list) - 1
      /\ \A i \in 1 .. Len(Tail(list)) : Tail(list)[i] = list[i + 1]
  BY HeadAndTail
<1> DEFINE rest == Tail(list)
<1>2. \A i \in 1 .. Len(rest) : i + 1 \in 1 .. Len(list) /\ rest[i] = list[i + 1]
  BY <1>1
<1>3. list[1].do = "if"
  BY <1>1, TestsDo
<1> HIDE DEF rest
<1>4. ASSUME NEW i \in 1 .. Len(rest), rest[i].do = "create"
      PROVE  i > 1 /\ rest[i - 1] = Delete(rest[i].row)
  <2>1. /\ i + 1 \in 1 .. Len(list) /\ list[i + 1].do = "create" /\ list[i + 1].row = rest[i].row
        /\ (i + 1) - 1 = i /\ 1 \in 1 .. i
    BY <1>2, <1>4
  <2>2. list[i] = Delete(rest[i].row)
    BY <1>1, <2>1 DEF Fresh
  <2>3. i # 1
    BY <1>3, <2>2 DEF Delete
  <2>4. i - 1 \in 1 .. Len(rest) /\ (i - 1) + 1 = i
    BY <1>1, <2>3 DEF rest
  <2> QED
    BY <1>2, <2>2, <2>3, <2>4
<1>5. ASSUME NEW i \in 1 .. Len(rest), rest[i].do = "postNew"
      PROVE  FALSE
  <2>1. i + 1 \in 1 .. Len(list) /\ list[i + 1].do = "postNew" /\ i + 1 # 1
    BY <1>2, <1>5
  <2> QED
    BY <2>1 DEF Fresh
<1> QED
  BY <1>4, <1>5 DEF Settled, rest

\* The rows and keys of facts.
LEMMA FactsDiffer ==
    /\ \A r, k : RowIn(r) # KeyIn(k)
    /\ \A r, q : RowIn(r) = RowIn(q) => r = q
    /\ \A j, k : KeyIn(j) = KeyIn(k) => j = k
  BY DEF RowIn, KeyIn

\* The kinds of statements, by what they do.
LEMMA KindsDo ==
    /\ \A x : Upsert(x).do = "upsert" /\ Need(x).do = "need" /\ Delete(x).do = "remove"
    /\ \A x : PostOnce(x).do = "postOnce" /\ PostNew(x).do = "postNew" /\ Create(x).do = "create"
    /\ \A x : Upsert(x).row = x /\ Need(x).row = x /\ Delete(x).row = x /\ Create(x).row = x
    /\ \A x : PostOnce(x).key = x /\ PostNew(x).key = x
  BY DEF Upsert, Need, Delete, PostOnce, PostNew, Create

\* A row that is only ever created is brought by its create alone.
LEMMA OnlyCreated ==
    ASSUME NEW s \in Statement, s \notin Tests, NEW r \in Created, RowIn(r) \in Brings(s)
    PROVE  s = Create(r)
<1>1. Created \cap RowNames = {}
  BY DEF Created, RowNames
<1> QED
  BY <1>1, StatementKinds, AsksAndBrings, FactsDiffer

\* The bands are never asked for.
LEMMA TiersNotAsked == \A s \in Statement : RowIn("tiers") \notin Asks(s)
<1> SUFFICES ASSUME NEW s \in Statement PROVE RowIn("tiers") \notin Asks(s)
  OBVIOUS
<1>1. "tiers" \notin RowNames /\ "tiers" # "groupSlot1"
  BY DEF RowNames
<1>2. CASE s \in Tests
  BY <1>2, TestAsks, FactsDiffer DEF Tests, Contracts, Contract
<1>3. CASE s \notin Tests
  <2>1. ASSUME NEW r \in Created, s = Create(r)
        PROVE  Asks(s) \subseteq {RowIn("groupSlot1"), KeyIn("demoReward")}
    BY <2>1, AsksAndBrings DEF Created
  <2> QED
    BY <1>1, <1>3, <2>1, StatementKinds, AsksAndBrings, FactsDiffer
<1> QED
  BY <1>2, <1>3

\* A statement with branches asks for and brings what its contracts say.
LEMMA ContractsTell ==
    ASSUME NEW s \in Tests
    PROVE  /\ Of(s) # {}
           /\ Asks(s) = UNION {c.asks : c \in Of(s)}
           /\ Brings(s) = UNION {c.brings : c \in Of(s)}
<1>1. Of(s) # {}
  BY DEF Of, Tests
<1>2. s.do = "if" /\ s # Create("groupSlot2") /\ s # Create("demoReward")
  BY TestsDo, KindsDo
<1>3. Asks(s) = UNION {c.asks : c \in Of(s)}
  BY <1>2 DEF Asks
<1>4. Brings(s) = UNION {c.brings : c \in Of(s)}
  BY <1>2 DEF Brings
<1> QED
  BY <1>1, <1>3, <1>4

\* A write, a posting or a read that is not refused.
LEMMA Pop ==
    ASSUME NEW list, NEW known, Underway(known, list), list # <<>>, Head(list) \notin Tests,
           Head(list) # Delete("tiers")
    PROVE  /\ Asks(Head(list)) \subseteq known
           /\ Underway(known \cup Brings(Head(list)), Tail(list))
           /\ FirstRun(known, list) => FirstRun(known \cup Brings(Head(list)), Tail(list))
<1> DEFINE h == Head(list)
           rest == Tail(list)
           after == known \cup Brings(h)
<1>1. list \in Seq(Statement) /\ h \in Statement /\ rest \in Seq(Statement)
  BY HeadAndTail DEF Underway
<1>2. Asks(h) \subseteq known /\ Ordered(after, rest) /\ Brought(list) = Brings(h) \cup Brought(rest)
  BY <1>1, OrderedTail DEF Underway, Works
<1>3. Works(after, rest, Lasting)
  BY <1>2 DEF Underway, Works
<1>4. ASSUME NEW r \in Created, RowIn(r) \in after
      PROVE  /\ RowIn(r) \in known \/ (h.do = "create" /\ h.row = r)
             /\ h # Delete(r)
  <2>1. RowIn(r) \in known \/ h = Create(r)
    BY <1>1, <1>4, OnlyCreated
  <2>2. h # Delete(r)
    BY <1>1, StatementKinds, TestsDo, KindsDo
  <2> QED
    BY <2>1, <2>2, KindsDo
<1>5. Fresh(after, rest)
  <2> HIDE DEF after
  <2> QED
    BY <1>1, <1>4, FreshTail DEF Underway
<1>6. Paired(rest) /\ \A p \in Pairs : h = p[1] => In(p[2], rest)
  BY <1>1, PairedTail DEF Underway
<1>7. TestGroup \in Tests /\ TestWeek \in Tests /\ TestCharge \in Tests /\ TestAssess \in Tests
  BY DEF Tests, Contracts, Contract
<1>8. \A x : In(x, list) => x = h \/ In(x, rest)
  BY <1>1, InTail
<1>9. /\ h = Create("groupSlot1") => In(Create("groupSlot2"), rest)
      /\ h = Create("weekAssessment") => In(PostOnce("weekFee"), rest)
  BY <1>6 DEF Pairs
<1>10. "groupSlot1" \in Created /\ "weekAssessment" \in Created
  BY DEF Created
<1>11. SlotsCome(known, list) => SlotsCome(after, rest)
  <2>1. RowIn("groupSlot2") \in known => RowIn("groupSlot2") \in after
    OBVIOUS
  <2>2. h = Create("groupSlot2") => RowIn("groupSlot2") \in after
    BY AsksAndBrings
  <2>3. RowIn("groupSlot1") \notin known /\ h # Create("groupSlot1") => RowIn("groupSlot1") \notin after
    BY <1>1, <1>10, OnlyCreated
  <2> HIDE DEF after, h, rest
  <2> QED
    BY <1>7, <1>8, <1>9, <2>1, <2>2, <2>3 DEF SlotsCome, h
<1>12. FeeComes(known, list) => FeeComes(after, rest)
  <2>1. KeyIn("weekFee") \in known => KeyIn("weekFee") \in after
    OBVIOUS
  <2>2. h = PostOnce("weekFee") => KeyIn("weekFee") \in after
    BY AsksAndBrings
  <2>3. RowIn("weekAssessment") \notin known /\ h # Create("weekAssessment") => RowIn("weekAssessment") \notin after
    BY <1>1, <1>10, OnlyCreated
  <2> HIDE DEF after, h, rest
  <2> QED
    BY <1>7, <1>8, <1>9, <2>1, <2>2, <2>3 DEF FeeComes, h
<1> HIDE DEF after
<1> QED
  BY <1>1, <1>2, <1>3, <1>5, <1>6, <1>11, <1>12 DEF Underway, FirstRun, after

\* The bands are deleted: nothing asks for them, and they are written anew.
LEMMA Drop ==
    ASSUME NEW list, NEW known, Underway(known, list), list # <<>>, Head(list) = Delete("tiers")
    PROVE  /\ Underway(known \ {RowIn("tiers")}, Tail(list))
           /\ FirstRun(known, list) => FirstRun(known \ {RowIn("tiers")}, Tail(list))
<1> DEFINE h == Head(list)
           rest == Tail(list)
           after == known \ {RowIn("tiers")}
<1>1. list \in Seq(Statement) /\ h \in Statement /\ rest \in Seq(Statement)
  BY HeadAndTail DEF Underway
<1>2. Ordered(known \cup Brings(h), rest) /\ Brought(list) = Brings(h) \cup Brought(rest)
  BY <1>1, OrderedTail DEF Underway, Works
<1>3. Brings(h) = {} /\ h.do = "remove"
  BY AsksAndBrings, KindsDo
<1>4. Ordered(after, rest)
  <2>1. Ordered(known, rest)
    BY <1>2, <1>3
  <2>2. \A i \in 1 .. Len(rest) : rest[i] \in Statement
    BY <1>1
  <2> HIDE DEF rest
  <2> QED
    BY <2>1, <2>2, TiersNotAsked DEF Ordered
<1>5. Paired(rest) /\ In(Create("tiers"), rest)
  BY <1>1, PairedTail DEF Underway, Pairs
<1>6. RowIn("tiers") \in Brought(rest)
  <2>1. RowIn("tiers") \in Brings(Create("tiers"))
    BY AsksAndBrings
  <2> HIDE DEF rest
  <2> QED
    BY <1>5, <2>1 DEF In, Brought
<1>7. Works(after, rest, Lasting)
  BY <1>2, <1>3, <1>4, <1>6 DEF Underway, Works
<1>8. h \notin Tests /\ h.do # "create"
  BY <1>3, TestsDo
<1>9. \A r : h = Delete(r) => r = "tiers"
  BY KindsDo
<1>10. Fresh(after, rest)
  BY <1>1, <1>8, <1>9, FreshTail DEF Underway
<1>11. \A x : In(x, list) => x = h \/ In(x, rest)
  BY <1>1, InTail
<1>12. h \notin {Create("groupSlot2"), PostOnce("weekFee"), TestGroup, TestWeek, TestCharge, TestAssess}
  BY <1>3, <1>8, KindsDo DEF Tests, Contracts, Contract
<1>13. /\ RowIn("groupSlot2") \in known => RowIn("groupSlot2") \in after
       /\ KeyIn("weekFee") \in known => KeyIn("weekFee") \in after
  BY FactsDiffer
<1>14. after \subseteq known
  OBVIOUS
<1>15. FirstRun(known, list) => FirstRun(after, rest)
  <2> HIDE DEF after, h, rest
  <2> QED
    BY <1>11, <1>12, <1>13, <1>14 DEF FirstRun, SlotsCome, FeeComes
<1> QED
  BY <1>1, <1>5, <1>7, <1>10, <1>15 DEF Underway

\* A test: its branch takes its place.
LEMMA Expand ==
    ASSUME NEW list, NEW known, Underway(known, list), list # <<>>, Head(list) \in Tests,
           NEW branch \in Seq(Statement), Works(known, branch, Brings(Head(list))),
           Fresh(known, branch), Paired(branch)
    PROVE  Underway(known, branch \o Tail(list))
<1> DEFINE h == Head(list)
           rest == Tail(list)
<1>1. list \in Seq(Statement) /\ rest \in Seq(Statement)
  BY HeadAndTail DEF Underway
<1>2. Ordered(known \cup Brings(h), rest) /\ Brought(list) = Brings(h) \cup Brought(rest)
  BY <1>1, OrderedTail DEF Underway, Works
<1>3. Ordered(known, branch) /\ Brings(h) \subseteq known \cup Brought(branch)
  BY DEF Works
<1>4. Ordered(known \cup Brought(branch), rest)
  BY <1>2, <1>3, OrderedMore
<1>5. Ordered(known, branch \o rest) /\ Brought(branch \o rest) = Brought(branch) \cup Brought(rest)
  <2> HIDE DEF rest
  <2> QED
    BY <1>1, <1>3, <1>4, JoinLists
<1>6. Works(known, branch \o rest, Lasting)
  BY <1>2, <1>3, <1>5 DEF Underway, Works
<1>7. Fresh(known, branch \o rest)
  BY <1>1, SettledTail, SettledJoin DEF Underway
<1>8. Paired(branch \o rest)
  BY <1>1, PairedTail, PairedJoin DEF Underway
<1>9. branch \o rest \in Seq(Statement)
  BY <1>1
<1> QED
  BY <1>6, <1>7, <1>8, <1>9 DEF Underway

\* What a first run brings besides is not lost when a test is replaced.
LEMMA ExpandFirst ==
    ASSUME NEW list \in Seq(Statement), list # <<>>, NEW known, NEW branch \in Seq(Statement),
           FirstRun(known, list),
           Head(list) = TestGroup => RowIn("groupSlot1") \in known \/ In(Create("groupSlot2"), branch),
           Head(list) = TestWeek => In(TestCharge, branch),
           Head(list) = TestCharge => In(TestAssess, branch),
           Head(list) = TestAssess => RowIn("weekAssessment") \in known \/ In(PostOnce("weekFee"), branch),
           Head(list) \in Tests
    PROVE  FirstRun(known, branch \o Tail(list))
<1> DEFINE h == Head(list)
           rest == Tail(list)
           u == branch \o rest
<1>1. rest \in Seq(Statement)
  BY HeadAndTail
<1>2. \A x : In(x, list) => x = h \/ In(x, rest)
  BY InTail
<1>3. \A x : In(x, branch) \/ In(x, rest) => In(x, u)
  BY <1>1, InJoin
<1>4. h.do = "if" /\ Create("groupSlot2").do = "create" /\ PostOnce("weekFee").do = "postOnce"
  BY TestsDo, KindsDo
<1> HIDE DEF u, rest
<1>5. SlotsCome(known, u)
  BY <1>2, <1>3, <1>4 DEF FirstRun, SlotsCome
<1>6. FeeComes(known, u)
  BY <1>2, <1>3, <1>4 DEF FirstRun, FeeComes
<1> QED
  BY <1>5, <1>6 DEF FirstRun, u, rest

\* The row is there: the branch is calm and keeps the contract.
LEMMA ExpandThere ==
    ASSUME NEW list, NEW known, Underway(known, list), list # <<>>, Head(list) \in Tests,
           RowIn(Head(list).row) \in known
    PROVE  /\ Underway(known, Head(list).there \o Tail(list))
           /\ FirstRun(known, list) => FirstRun(known, Head(list).there \o Tail(list))
<1> DEFINE h == Head(list)
<1>1. h.do = "if" /\ h.there \in Seq(Calm)
  BY AllKept DEF Kept, Tests
<1>2. \A c \in Of(h) : Works(c.asks \cup {RowIn(h.row)}, h.there, c.brings)
  BY AllKept DEF Kept, Of
<1>3. list \in Seq(Statement)
  BY DEF Underway
<1>4. Asks(h) \subseteq known
  BY <1>3, OrderedTail DEF Underway, Works
<1>5. /\ Asks(h) = UNION {c.asks : c \in Of(h)} /\ Brings(h) = UNION {c.brings : c \in Of(h)}
      /\ Of(h) # {}
  BY ContractsTell
<1>6. h.there \in Seq(Statement) /\ Settled(h.there) /\ Paired(h.there)
  BY <1>1, CalmLists
<1>7. Works(known, h.there, Brings(h))
  <2>1. \A c \in Of(h) : c.asks \cup {RowIn(h.row)} \subseteq known
    BY <1>4, <1>5
  <2>2. \A c \in Of(h) : /\ Ordered(c.asks \cup {RowIn(h.row)}, h.there)
                         /\ c.brings \subseteq (c.asks \cup {RowIn(h.row)}) \cup Brought(h.there)
    BY <1>2 DEF Works
  <2>3. Ordered(known, h.there)
    <3>1. PICK c \in Of(h) : TRUE
      BY <1>5
    <3>2. Ordered(c.asks \cup {RowIn(h.row)}, h.there) /\ c.asks \cup {RowIn(h.row)} \subseteq known
      BY <2>1, <2>2
    <3> QED
      BY <3>2, OrderedMore
  <2>4. \A c \in Of(h) : c.brings \subseteq known \cup Brought(h.there)
    BY <2>1, <2>2
  <2>5. Brings(h) \subseteq known \cup Brought(h.there)
    BY <1>5, <2>4
  <2> QED
    BY <2>3, <2>5 DEF Works
<1>8. Underway(known, h.there \o Tail(list))
  BY <1>6, <1>7, SettledIsFresh, Expand
<1>9. h = TestGroup => RowIn("groupSlot1") \in known
  BY TestsDiffer
<1>10. h = TestAssess => RowIn("weekAssessment") \in known
  BY TestsDiffer
<1>11. h = TestWeek => In(TestCharge, h.there)
  <2>1. TestWeek.there = <<Upsert("bisiAvailable"), PostOnce("weekVolume"), TestCharge>>
    BY TestsAre DEF If
  <2>2. Len(TestWeek.there) = 3 /\ TestWeek.there[3] = TestCharge
    BY <2>1
  <2> QED
    BY <2>2 DEF In
<1>12. h = TestCharge => In(TestAssess, h.there)
  <2>1. TestCharge.there = <<TestAssess>>
    BY TestsAre DEF If
  <2>2. Len(TestCharge.there) = 1 /\ TestCharge.there[1] = TestAssess
    BY <2>1
  <2> QED
    BY <2>2 DEF In
<1>13. FirstRun(known, list) => FirstRun(known, h.there \o Tail(list))
  <2> SUFFICES ASSUME FirstRun(known, list) PROVE FirstRun(known, h.there \o Tail(list))
    OBVIOUS
  <2> QED
    BY <1>3, <1>6, <1>9, <1>10, <1>11, <1>12, ExpandFirst
<1> QED
  BY <1>8, <1>13

\* The branches that are taken while their row is missing.
LEMMA MissingBranches ==
    /\ TestGroup.missing = <<Upsert("groupMember1"), Create("groupSlot1"),
                             Upsert("groupMember2"), Create("groupSlot2")>>
    /\ TestAssess.missing = <<Create("weekAssessment"), PostOnce("weekFee")>>
    /\ TestReward.missing = <<PostNew("demoReward"), Create("demoReward")>>
  BY TestsAre DEF If

\* seedAjoGroup with no slot yet: both are created, the second behind the first.
LEMMA GroupBranch ==
    ASSUME NEW known, RowIn("groupSlot1") \notin known, RowIn("groupSlot2") \notin known
    PROVE  LET b == TestGroup.missing IN
           /\ b \in Seq(Statement) /\ Works(known, b, Brings(TestGroup))
           /\ Fresh(known, b) /\ Paired(b) /\ In(Create("groupSlot2"), b)
<1> DEFINE b == TestGroup.missing
<1>1. b = <<Upsert("groupMember1"), Create("groupSlot1"), Upsert("groupMember2"), Create("groupSlot2")>>
  BY MissingBranches
<1>2. b \in Seq(Statement)
  BY <1>1, CalmStatements DEF Statement, Risky, Created, RowNames
<1>3. /\ Len(b) = 4 /\ b[1] = Upsert("groupMember1") /\ b[2] = Create("groupSlot1")
      /\ b[3] = Upsert("groupMember2") /\ b[4] = Create("groupSlot2")
  BY <1>1
<1> HIDE DEF b
<1>4. \A i \in 1 .. 4 : i = 1 \/ i = 2 \/ i = 3 \/ i = 4
  OBVIOUS
<1>5. Ordered(known, b)
  BY <1>3, AsksAndBrings DEF Ordered
<1>6. Brings(TestGroup) \subseteq known \cup Brought(b)
  BY <1>3, AsksAndBrings, TestAsks DEF Brought
<1>7. Fresh(known, b)
  <2>1. b[1] \notin Tests /\ b[2] \notin Tests /\ b[3] \notin Tests
    BY <1>3, TestsDo, KindsDo
  <2> QED
    BY <1>3, <1>4, <2>1, KindsDo DEF Fresh
<1>8. Paired(b)
  <2>1. /\ Create("groupSlot2") # Create("groupSlot1")
        /\ Create("weekAssessment") \notin {b[1], b[2], b[3], b[4]}
        /\ Delete("tiers") \notin {b[1], b[2], b[3], b[4]}
        /\ Create("groupSlot1") \notin {b[1], b[3], b[4]}
    BY <1>3, KindsDo
  <2>2. ASSUME NEW p \in Pairs, NEW i \in 1 .. Len(b), b[i] = p[1]
        PROVE  \E j \in i + 1 .. Len(b) : b[j] = p[2]
    <3>1. p[1] = Create("groupSlot1") /\ p[2] = Create("groupSlot2") /\ i = 2
      BY <1>3, <1>4, <2>1, <2>2 DEF Pairs
    <3> QED
      BY <1>3, <3>1
  <2> QED
    BY <2>2 DEF Paired
<1>9. In(Create("groupSlot2"), b)
  BY <1>3 DEF In
<1> QED
  BY <1>2, <1>5, <1>6, <1>7, <1>8, <1>9 DEF Works, b

\* seedDashboardActivity with no assessment yet: it is created, then its fee posted.
LEMMA AssessBranch ==
    ASSUME NEW known, RowIn("weekAssessment") \notin known
    PROVE  LET b == TestAssess.missing IN
           /\ b \in Seq(Statement) /\ Works(known, b, Brings(TestAssess))
           /\ Fresh(known, b) /\ Paired(b) /\ In(PostOnce("weekFee"), b)
<1> DEFINE b == TestAssess.missing
<1>1. b = <<Create("weekAssessment"), PostOnce("weekFee")>>
  BY MissingBranches
<1>2. b \in Seq(Statement)
  BY <1>1, CalmStatements DEF Statement, Risky, Created, SeedKeys
<1>3. Len(b) = 2 /\ b[1] = Create("weekAssessment") /\ b[2] = PostOnce("weekFee")
  BY <1>1
<1> HIDE DEF b
<1>4. \A i \in 1 .. 2 : i = 1 \/ i = 2
  OBVIOUS
<1>5. Ordered(known, b)
  BY <1>3, AsksAndBrings DEF Ordered
<1>6. Brings(TestAssess) \subseteq known \cup Brought(b)
  BY <1>3, AsksAndBrings, TestAsks DEF Brought
<1>7. Fresh(known, b)
  BY <1>3, <1>4, KindsDo DEF Fresh
<1>8. Paired(b)
  <2>1. /\ Create("groupSlot1") \notin {b[1], b[2]}
        /\ Delete("tiers") \notin {b[1], b[2]}
        /\ Create("weekAssessment") # b[2]
    BY <1>3, KindsDo
  <2>2. ASSUME NEW p \in Pairs, NEW i \in 1 .. Len(b), b[i] = p[1]
        PROVE  \E j \in i + 1 .. Len(b) : b[j] = p[2]
    <3>1. p[1] = Create("weekAssessment") /\ p[2] = PostOnce("weekFee") /\ i = 1
      BY <1>3, <1>4, <2>1, <2>2 DEF Pairs
    <3> QED
      BY <1>3, <3>1
  <2> QED
    BY <2>2 DEF Paired
<1>9. In(PostOnce("weekFee"), b)
  BY <1>3 DEF In
<1> QED
  BY <1>2, <1>5, <1>6, <1>7, <1>8, <1>9 DEF Works, b

\* seedReferralsDemo with no reward yet: it is posted, then written.
LEMMA RewardBranch ==
    ASSUME NEW known, RowIn("demoReward") \notin known
    PROVE  LET b == TestReward.missing IN
           /\ b \in Seq(Statement) /\ Works(known, b, Brings(TestReward))
           /\ Fresh(known, b) /\ Paired(b)
<1> DEFINE b == TestReward.missing
<1>1. b = <<PostNew("demoReward"), Create("demoReward")>>
  BY MissingBranches
<1>2. b \in Seq(Statement)
  BY <1>1 DEF Statement, Risky, Created
<1>3. Len(b) = 2 /\ b[1] = PostNew("demoReward") /\ b[2] = Create("demoReward")
  BY <1>1
<1> HIDE DEF b
<1>4. \A i \in 1 .. 2 : i = 1 \/ i = 2
  OBVIOUS
<1>5. Ordered(known, b)
  BY <1>3, AsksAndBrings DEF Ordered
<1>6. Brings(TestReward) \subseteq known \cup Brought(b)
  BY <1>3, AsksAndBrings, TestAsks DEF Brought
<1>7. Fresh(known, b)
  <2>1. b[1] \notin Tests
    BY <1>3, TestsDo, KindsDo
  <2> QED
    BY <1>3, <1>4, <2>1, KindsDo DEF Fresh
<1>8. Paired(b)
  <2>1. \A p \in Pairs : p[1] \notin {b[1], b[2]}
    BY <1>3, KindsDo DEF Pairs
  <2> QED
    BY <1>3, <1>4, <2>1 DEF Paired
<1> QED
  BY <1>2, <1>5, <1>6, <1>7, <1>8 DEF Works, b

\* The row is missing: only the slots, the assessment and the reward are ever
\* missing when they are looked for.
LEMMA ExpandMissing ==
    ASSUME NEW list, NEW known, Underway(known, list), list # <<>>, Head(list) \in Tests,
           RowIn(Head(list).row) \notin known,
           RowIn("groupSlot2") \in known => RowIn("groupSlot1") \in known
    PROVE  /\ Underway(known, Head(list).missing \o Tail(list))
           /\ FirstRun(known, list) => FirstRun(known, Head(list).missing \o Tail(list))
<1> DEFINE h == Head(list)
           b == h.missing
<1>1. PICK c \in Contracts : c.statement = h
  BY DEF Tests
<1>2. RowIn(h.row) \in c.asks \/ h \in {TestGroup, TestAssess, TestReward}
  BY <1>1, AllKept DEF Kept
<1>3. list \in Seq(Statement)
  BY DEF Underway
<1>4. Asks(h) \subseteq known
  BY <1>3, OrderedTail DEF Underway, Works
<1>5. c.asks \subseteq Asks(h)
  <2>1. c \in Of(h)
    BY <1>1 DEF Of
  <2> QED
    BY <2>1, ContractsTell
<1>6. h \in {TestGroup, TestAssess, TestReward}
  BY <1>2, <1>4, <1>5
<1>7. /\ b \in Seq(Statement) /\ Works(known, b, Brings(h)) /\ Fresh(known, b) /\ Paired(b)
      /\ h = TestGroup => In(Create("groupSlot2"), b)
      /\ h = TestAssess => In(PostOnce("weekFee"), b)
  <2>1. CASE h = TestGroup
    <3>1. RowIn("groupSlot1") \notin known /\ h # TestAssess
      BY <2>1, TestsDiffer
    <3> QED
      BY <2>1, <3>1, GroupBranch
  <2>2. CASE h = TestAssess
    <3>1. RowIn("weekAssessment") \notin known /\ h # TestGroup
      BY <2>2, TestsDiffer
    <3> QED
      BY <2>2, <3>1, AssessBranch
  <2>3. CASE h = TestReward
    <3>1. RowIn("demoReward") \notin known /\ h # TestGroup /\ h # TestAssess
      BY <2>3, TestsDiffer
    <3> QED
      BY <2>3, <3>1, RewardBranch
  <2> QED
    BY <1>6, <2>1, <2>2, <2>3
<1>8. h # TestWeek /\ h # TestCharge
  BY <1>6, TestsDiffer
<1>9. Underway(known, b \o Tail(list))
  BY <1>7, Expand
<1>10. FirstRun(known, list) => FirstRun(known, b \o Tail(list))
  <2> SUFFICES ASSUME FirstRun(known, list) PROVE FirstRun(known, b \o Tail(list))
    OBVIOUS
  <2> QED
    BY <1>3, <1>7, <1>8, ExpandFirst
<1> QED
  BY <1>9, <1>10

\* Keys that are posted meanwhile only help.
LEMMA Grow ==
    ASSUME NEW list, NEW known, Underway(known, list), NEW more, known \subseteq more,
           \A r : RowIn(r) \in more => RowIn(r) \in known
    PROVE  Underway(more, list) /\ (FirstRun(known, list) => FirstRun(more, list))
<1>1. Ordered(more, list)
  BY OrderedMore DEF Underway, Works
<1>2. Works(more, list, Lasting)
  BY <1>1 DEF Underway, Works
<1>3. Fresh(more, list)
  BY DEF Underway, Fresh
<1>4. FirstRun(known, list) => FirstRun(more, list)
  BY DEF FirstRun, SlotsCome, FeeComes
<1> QED
  BY <1>2, <1>3, <1>4 DEF Underway

-----------------------------------------------------------------------------
(* The steps of the seed and of the application.                           *)

\* What the facts say of rows and keys, and how they change with them.
LEMMA FactsTell ==
    ASSUME NEW rs, NEW ks
    PROVE  /\ \A r : RowIn(r) \in FactsOf(rs, ks) <=> r \in rs
           /\ \A k : KeyIn(k) \in FactsOf(rs, ks) <=> k \in ks
           /\ \A r : FactsOf(rs \cup {r}, ks) = FactsOf(rs, ks) \cup {RowIn(r)}
           /\ \A r : FactsOf(rs \ {r}, ks) = FactsOf(rs, ks) \ {RowIn(r)}
           /\ \A k : FactsOf(rs, ks \cup {k}) = FactsOf(rs, ks) \cup {KeyIn(k)}
           /\ \A more : ks \subseteq more => FactsOf(rs, ks) \subseteq FactsOf(rs, more)
<1>1. /\ \A r : RowIn(r) \in FactsOf(rs, ks) <=> r \in rs
      /\ \A k : KeyIn(k) \in FactsOf(rs, ks) <=> k \in ks
  BY FactsDiffer DEF FactsOf
<1>2. \A r : FactsOf(rs \cup {r}, ks) = FactsOf(rs, ks) \cup {RowIn(r)}
  BY DEF FactsOf
<1>3. \A r : FactsOf(rs \ {r}, ks) = FactsOf(rs, ks) \ {RowIn(r)}
  BY FactsDiffer DEF FactsOf
<1>4. \A k : FactsOf(rs, ks \cup {k}) = FactsOf(rs, ks) \cup {KeyIn(k)}
  BY DEF FactsOf
<1>5. \A more : ks \subseteq more => FactsOf(rs, ks) \subseteq FactsOf(rs, more)
  BY DEF FactsOf
<1> QED
  BY <1>1, <1>2, <1>3, <1>4, <1>5

\* The seed posts under its own key, and both sides of what it posts agree.
LEMMA PostRowEven ==
    ASSUME RowsEven, NEW s, s.key \in SeedKeys, PostRow(s), s.do = "postOnce" \/ row[s.key].status = "none"
    PROVE  RowsEven' /\ UNCHANGED rows /\ GoOn(Tail(todo)) /\ Posted' = Posted \cup {s.key}
<1>1. s.key \in Keys /\ s.key \in References /\ row \in [Keys -> Row] /\ UNCHANGED rows /\ SeedKeys \subseteq Keys
  BY SeedAssumption DEF RowsEven, PostRow
<1>2. CASE row[s.key].status = "none"
  <2> DEFINE new == [status |-> "POSTED", reference |-> s.key,
                     entries |-> SeedEntries(s.key), reversalOf |-> None]
  <2>1. row' = [row EXCEPT ![s.key] = new] /\ GoOn(Tail(todo))
    BY <1>2 DEF PostRow
  <2>2. new \in Row /\ Even(new.entries) /\ new.status = "POSTED"
    BY <1>1, SeedEntriesEven DEF Row
  <2> HIDE DEF new
  <2>3. RowsEven'
    BY <1>1, <2>1, <2>2 DEF RowsEven
  <2>4. Posted' = Posted \cup {s.key}
    BY <1>1, <2>1, <2>2 DEF Posted
  <2> QED
    BY <1>1, <2>1, <2>3, <2>4
<1>3. CASE row[s.key].status # "none"
  <2>1. UNCHANGED row /\ GoOn(Tail(todo))
    BY <1>3 DEF PostRow
  <2>2. RowsEven'
    BY <2>1 DEF RowsEven
  <2>3. Posted' = Posted \cup {s.key}
    BY <1>3, <2>1 DEF Posted
  <2> QED
    BY <1>1, <2>1, <2>2, <2>3
<1> QED
  BY <1>2, <1>3

\* The process goes on: what is left can be executed in the new state.
LEMMA GoesOn ==
    ASSUME SeedInv, outcome = "running", UNCHANGED started, RowsEven', NEW rest, GoOn(rest),
           "demoReward" \in rows' => "demoReward" \in rows \/ "demoReward" \in Posted',
           Posted \subseteq Posted',
           "groupSlot2" \in rows' => "groupSlot1" \in rows',
           Underway(Facts', rest), FirstRun(Facts, todo) => FirstRun(Facts', rest)
    PROVE  SeedInv'
<1>1. "demoReward" \in SeedKeys
  BY DEF SeedKeys
<1>2. RewardIsPosted'
  BY <1>1 DEF SeedInv, RewardIsPosted, Posted
<1>3. todo' = rest /\ outcome' = IF rest = <<>> THEN "finished" ELSE "running"
  BY DEF GoOn
<1>4. /\ started \in Nat /\ started # 0
      /\ started = 1 => FirstRun(Facts, todo)
  BY DEF SeedInv
<1>5. /\ outcome' = "running" => todo' # <<>>
      /\ outcome' = "finished" => todo' = <<>>
      /\ outcome' # "refused"
  BY <1>3
<1>6. Underway(Facts', todo') /\ (started' = 1 => FirstRun(Facts', todo'))
  BY <1>3, <1>4
<1> HIDE DEF Underway, FirstRun, Facts
<1> QED
  BY <1>2, <1>4, <1>5, <1>6 DEF SeedInv

\* One statement of the running process.
LEMMA ExecuteKeeps ==
    ASSUME SeedInv, Execute
    PROVE  SeedInv'
<1> DEFINE h == Head(todo)
           rest == Tail(todo)
<1>1. /\ outcome = "running" /\ todo # <<>> /\ Underway(Facts, todo) /\ UNCHANGED started
      /\ RowsEven /\ RewardIsPosted
  BY DEF SeedInv, Execute
<1>2. todo \in Seq(Statement) /\ h \in Statement /\ rest \in Seq(Statement) /\ h = todo[1] /\ Len(todo) >= 1
  BY <1>1, HeadAndTail DEF Underway
<1>3. WriteRow(h) \/ ReadRow(h) \/ PostRow(h)
  BY DEF Execute
<1>4. /\ \A r : RowIn(r) \in Facts <=> r \in rows
      /\ \A k : KeyIn(k) \in Facts <=> k \in Posted
  BY FactsTell DEF Facts
<1>5. ASSUME UNCHANGED row
      PROVE  RowsEven' /\ Posted' = Posted
  BY <1>1, <1>5 DEF RowsEven, Posted
<1>6. "groupSlot2" \in rows => "groupSlot1" \in rows
  BY DEF SeedInv
<1>7. Facts' = FactsOf(rows', Posted')
  BY DEF Facts
<1>8. h \notin Tests /\ h # Delete("tiers") =>
        /\ Asks(h) \subseteq Facts /\ Underway(Facts \cup Brings(h), rest)
        /\ FirstRun(Facts, todo) => FirstRun(Facts \cup Brings(h), rest)
  BY <1>1, Pop
<1> HIDE DEF h, rest
<1>9. ASSUME NEW r, h = Upsert(r) \/ h = Create(r),
             r \in RowNames \/ (r \in Created /\ h = Create(r))
      PROVE  SeedInv'
  <2>1. h.do \in {"upsert", "create"} /\ h.row = r /\ h \notin Tests /\ h # Delete("tiers")
    BY <1>9, KindsDo, TestsDo
  <2>2. Brings(h) = {RowIn(r)}
    BY <1>9, AsksAndBrings
  <2>3. WriteRow(h)
    BY <1>3, <2>1 DEF ReadRow, PostRow
  <2>4. h.do = "create" => r \notin rows
    <3>1. h.do = "create" => RowIn(r) \notin Facts
      <4>1. 1 \in 1 .. Len(todo) /\ ~(1 > 1)
        BY <1>2
      <4> QED
        BY <1>1, <1>2, <2>1, <4>1 DEF Underway, Fresh
    <3> QED
      BY <1>4, <3>1
  <2>5. rows' = rows \cup {r} /\ GoOn(rest) /\ UNCHANGED row
    BY <2>1, <2>3, <2>4 DEF WriteRow, rest
  <2>6. Facts' = Facts \cup Brings(h)
    BY <1>5, <1>7, <2>2, <2>5, FactsTell DEF Facts
  <2>7. Underway(Facts', rest) /\ (FirstRun(Facts, todo) => FirstRun(Facts', rest))
    BY <1>8, <2>1, <2>6
  <2>8. "demoReward" \in rows' => "demoReward" \in rows \/ "demoReward" \in Posted'
    <3>1. CASE r = "demoReward"
      <4>1. h = Create("demoReward")
        BY <1>9, <3>1 DEF RowNames
      <4>2. KeyIn("demoReward") \in Facts
        BY <1>8, <2>1, <4>1, AsksAndBrings
      <4> QED
        BY <1>4, <1>5, <2>5, <4>2
    <3>2. CASE r # "demoReward"
      BY <2>5, <3>2
    <3> QED
      BY <3>1, <3>2
  <2>9. "groupSlot2" \in rows' => "groupSlot1" \in rows'
    <3>1. CASE r = "groupSlot2"
      <4>1. h = Create("groupSlot2")
        BY <1>9, <3>1 DEF RowNames
      <4>2. RowIn("groupSlot1") \in Facts
        BY <1>8, <2>1, <4>1, AsksAndBrings
      <4> QED
        BY <1>4, <2>5, <4>2
    <3>2. CASE r # "groupSlot2"
      BY <1>6, <2>5, <3>2
    <3> QED
      BY <3>1, <3>2
  <2> QED
    BY <1>1, <1>5, <2>5, <2>7, <2>8, <2>9, GoesOn
<1>10. ASSUME h = Delete("tiers")
       PROVE  SeedInv'
  <2>1. h.do = "remove" /\ h.row = "tiers"
    BY <1>10, KindsDo
  <2>2. WriteRow(h)
    BY <1>3, <2>1 DEF ReadRow, PostRow
  <2>3. rows' = rows \ {"tiers"} /\ GoOn(rest) /\ UNCHANGED row
    BY <2>1, <2>2 DEF WriteRow, rest
  <2>4. Facts' = Facts \ {RowIn("tiers")}
    BY <1>5, <1>7, <2>3, FactsTell DEF Facts
  <2>5. Underway(Facts', rest) /\ (FirstRun(Facts, todo) => FirstRun(Facts', rest))
    BY <1>1, <1>10, <2>4, Drop DEF h, rest
  <2>6. "groupSlot2" \in rows' => "groupSlot1" \in rows'
    BY <1>6, <2>3
  <2>7. "demoReward" \in rows' => "demoReward" \in rows
    BY <2>3
  <2> QED
    BY <1>1, <1>5, <2>3, <2>5, <2>6, <2>7, GoesOn
<1>11. ASSUME NEW r, h = Need(r)
       PROVE  SeedInv'
  <2>1. h.do = "need" /\ h.row = r /\ h \notin Tests /\ h # Delete("tiers")
    BY <1>11, KindsDo, TestsDo
  <2>2. ReadRow(h)
    BY <1>3, <2>1 DEF WriteRow, PostRow
  <2>3. Asks(h) = {RowIn(r)} /\ Brings(h) = {}
    BY <1>11, AsksAndBrings
  <2>4. r \in rows
    BY <1>4, <1>8, <2>1, <2>3
  <2>5. GoOn(rest) /\ UNCHANGED <<rows, row>>
    BY <2>1, <2>2, <2>4 DEF ReadRow, rest
  <2>6. Facts' = Facts \cup Brings(h)
    BY <1>5, <1>7, <2>3, <2>5 DEF Facts
  <2>7. Underway(Facts', rest) /\ (FirstRun(Facts, todo) => FirstRun(Facts', rest))
    BY <1>8, <2>1, <2>6
  <2> QED
    BY <1>1, <1>5, <1>6, <2>5, <2>7, GoesOn
<1>12. ASSUME h \in Tests
       PROVE  SeedInv'
  <2> DEFINE branch == IF h.row \in rows THEN h.there ELSE h.missing
  <2>1. h.do = "if"
    BY <1>12, TestsDo
  <2>2. ReadRow(h)
    BY <1>3, <2>1 DEF WriteRow, PostRow
  <2>3. GoOn(branch \o rest) /\ UNCHANGED <<rows, row>>
    BY <2>1, <2>2 DEF ReadRow, rest
  <2>4. Facts' = Facts
    BY <1>5, <1>7, <2>3 DEF Facts
  <2>5. /\ Underway(Facts, branch \o rest)
        /\ FirstRun(Facts, todo) => FirstRun(Facts, branch \o rest)
    <3>1. CASE h.row \in rows
      <4>1. RowIn(h.row) \in Facts /\ branch = h.there
        BY <1>4, <3>1
      <4> QED
        BY <1>1, <1>12, <4>1, ExpandThere DEF h, rest
    <3>2. CASE h.row \notin rows
      <4>1. RowIn(h.row) \notin Facts /\ branch = h.missing
        BY <1>4, <3>2
      <4>2. RowIn("groupSlot2") \in Facts => RowIn("groupSlot1") \in Facts
        BY <1>4, <1>6
      <4> QED
        BY <1>1, <1>12, <4>1, <4>2, ExpandMissing DEF h, rest
    <3> QED
      BY <3>1, <3>2
  <2> HIDE DEF branch
  <2>6. Underway(Facts', branch \o rest) /\ (FirstRun(Facts, todo) => FirstRun(Facts', branch \o rest))
    BY <2>4, <2>5
  <2> QED
    BY <1>1, <1>5, <1>6, <2>3, <2>6, GoesOn
<1>13. ASSUME NEW k \in SeedKeys, h = PostOnce(k) \/ (h = PostNew(k) /\ row[k].status = "none")
       PROVE  SeedInv'
  <2>1. h.do \in {"postOnce", "postNew"} /\ h.key = k /\ h \notin Tests /\ h # Delete("tiers")
    BY <1>13, KindsDo, TestsDo
  <2>2. PostRow(h) /\ (h.do = "postOnce" \/ row[k].status = "none")
    BY <1>3, <1>13, <2>1, KindsDo DEF WriteRow, ReadRow
  <2>3. RowsEven' /\ UNCHANGED rows /\ GoOn(rest) /\ Posted' = Posted \cup {k}
    BY <1>1, <2>1, <2>2, PostRowEven DEF rest
  <2>4. Brings(h) = {KeyIn(k)}
    BY <1>13, AsksAndBrings
  <2>5. Facts' = Facts \cup Brings(h)
    BY <1>7, <2>3, <2>4, FactsTell DEF Facts
  <2>6. Underway(Facts', rest) /\ (FirstRun(Facts, todo) => FirstRun(Facts', rest))
    BY <1>8, <2>1, <2>5
  <2>7. Posted \subseteq Posted'
    BY <2>3
  <2> QED
    BY <1>1, <1>6, <2>3, <2>6, <2>7, GoesOn
<1>14. ASSUME h = PostNew("demoReward"), row["demoReward"].status # "none"
       PROVE  SeedInv'
  <2>1. h.do = "postNew" /\ h.key = "demoReward"
    BY <1>14, KindsDo
  <2>2. PostRow(h)
    BY <1>3, <2>1 DEF WriteRow, ReadRow
  <2>3. UNCHANGED <<rows, row>> /\ outcome' = "refused"
    BY <1>14, <2>1, <2>2 DEF PostRow, Refused
  <2>4. RowIn("demoReward") \notin Facts
    <3>1. 1 \in 1 .. Len(todo)
      BY <1>2
    <3> QED
      BY <1>1, <1>2, <2>1, <3>1 DEF Underway, Fresh
  <2>5. "demoReward" \notin rows
    BY <1>4, <2>4
  <2>6. started \in Nat /\ started # 0
    BY <1>1 DEF SeedInv
  <2> QED
    BY <1>1, <1>5, <1>6, <1>14, <2>3, <2>5, <2>6 DEF SeedInv, RewardIsPosted
<1>15. "demoReward" \in SeedKeys
  BY DEF SeedKeys
<1> QED
  BY <1>2, <1>9, <1>10, <1>11, <1>12, <1>13, <1>14, <1>15, StatementKinds

\* The application posts and reverses beside the seed: what was posted stays
\* posted.
LEMMA ApplicationKeeps ==
    ASSUME SeedInv, Application
    PROVE  SeedInv'
<1>1. SeedKeys \subseteq Keys /\ "demoReward" \in SeedKeys /\ row \in [Keys -> Row]
  BY SeedAssumption DEF SeedKeys, SeedInv, RowsEven
<1>2. PICK k \in Keys, reference \in References :
        \/ \E entries \in Commands : Post(k, reference, entries)
        \/ \E original \in Keys : ReverseTransaction(original, k, reference)
  BY SeedAssumption DEF Application
<1>3. RowsEven'
  BY <1>2, StepEven DEF SeedInv
<1>4. \A j \in Keys : row[j].status # "none" => row'[j].status # "none"
  <2>1. CASE \E entries \in Commands : Post(k, reference, entries)
    BY <1>1, <2>1 DEF Post, IsFresh
  <2>2. CASE \E original \in Keys : ReverseTransaction(original, k, reference)
    <3>1. PICK original \in Keys : ReverseTransaction(original, k, reference)
      BY <2>2
    <3>2. row[k].status = "none" /\ original # k
      BY <3>1 DEF ReverseTransaction, IsFresh
    <3>3. /\ row'[original] = [row[original] EXCEPT !.status = "REVERSED"]
          /\ \A j \in Keys \ {k, original} : row'[j] = row[j]
      BY <1>1, <3>1, <3>2 DEF ReverseTransaction
    <3>4. row'[original].status = "REVERSED"
      BY <1>1, <3>3 DEF Row
    <3> QED
      BY <3>2, <3>3, <3>4
  <2> QED
    BY <1>2, <2>1, <2>2
<1>5. UNCHANGED <<rows, todo, outcome, started>>
  BY DEF Application, seedVars
<1>6. Posted \subseteq Posted'
  BY <1>1, <1>4 DEF Posted
<1>7. Facts \subseteq Facts' /\ \A r : RowIn(r) \in Facts' => RowIn(r) \in Facts
  BY <1>5, <1>6, FactsTell DEF Facts
<1>8. Underway(Facts, todo) => /\ Underway(Facts', todo)
                               /\ FirstRun(Facts, todo) => FirstRun(Facts', todo)
  BY <1>7, Grow
<1>9. RewardIsPosted'
  BY <1>1, <1>4, <1>5 DEF SeedInv, RewardIsPosted
<1>10. outcome' = "refused" => row'["demoReward"].status # "none" /\ "demoReward" \notin rows'
  BY <1>1, <1>4, <1>5 DEF SeedInv
<1> QED
  BY <1>3, <1>5, <1>8, <1>9, <1>10 DEF SeedInv

\* A run is started over whatever the runs before it have left.
LEMMA RunSeedKeeps ==
    ASSUME SeedInv, RunSeed
    PROVE  SeedInv'
<1>1. /\ UNCHANGED <<rows, row>> /\ todo' = Statements /\ outcome' = "running"
      /\ started' = started + 1 /\ started \in Nat
  BY DEF RunSeed, SeedInv
<1>2. RowsEven' /\ RewardIsPosted' /\ ("groupSlot2" \in rows' => "groupSlot1" \in rows') /\ Facts' = Facts
  BY <1>1 DEF SeedInv, RowsEven, RewardIsPosted, Facts, Posted
<1>3. /\ Statements \in Seq(Statement) /\ Settled(Statements) /\ Paired(Statements)
      /\ Works({}, Statements, Lasting) /\ In(TestGroup, Statements) /\ In(TestWeek, Statements)
  BY StatementsSound DEF Sound
<1>4. Works(Facts, Statements, Lasting)
  <2>1. Ordered(Facts, Statements)
    BY <1>3, OrderedMore DEF Works
  <2> QED
    BY <1>3, <2>1 DEF Works
<1>5. Underway(Facts, Statements)
  BY <1>3, <1>4, SettledIsFresh DEF Underway
<1>6. ASSUME started' = 1
      PROVE  FirstRun(Facts, Statements)
  <2>1. rows = {}
    BY <1>1, <1>6 DEF SeedInv
  <2>2. RowIn("groupSlot1") \notin Facts /\ RowIn("weekAssessment") \notin Facts
    BY <2>1, FactsTell DEF Facts
  <2> QED
    BY <1>3, <2>2 DEF FirstRun, SlotsCome, FeeComes
<1>7. started' \in Nat /\ started' # 0
  BY <1>1
<1> QED
  BY <1>1, <1>2, <1>5, <1>6, <1>7, SomethingToDo DEF SeedInv

\* Every step of the seed or of the application keeps the invariant.
LEMMA SeedKeeps ==
    ASSUME SeedInv, [SeedNext]_<<vars, seedVars>>
    PROVE  SeedInv'
<1>1. CASE RunSeed
  BY <1>1, RunSeedKeeps
<1>2. CASE Execute
  BY <1>2, ExecuteKeeps
<1>3. CASE Cut
  <2>1. UNCHANGED <<row, rows, started>> /\ outcome' = "cut" /\ outcome = "running"
    BY <1>3 DEF Cut
  <2> QED
    BY <2>1 DEF SeedInv, RowsEven, RewardIsPosted
<1>4. CASE Application
  BY <1>4, ApplicationKeeps
<1>5. CASE UNCHANGED <<vars, seedVars>>
  <2>1. UNCHANGED <<row, rows, todo, outcome, started>>
    BY <1>5 DEF vars, seedVars
  <2>2. RowsEven' <=> RowsEven
    BY <2>1 DEF RowsEven
  <2>3. Facts' = Facts
    BY <2>1 DEF Facts, Posted
  <2> QED
    BY <2>1, <2>2, <2>3 DEF SeedInv, RewardIsPosted
<1> QED
  BY <1>1, <1>2, <1>3, <1>4, <1>5 DEF SeedNext

\* The inductive invariant of Seeding.
THEOREM SeedInvariantHolds == SeedSpec => []SeedInv
<1>1. SeedInit => SeedInv
  <2> SUFFICES ASSUME SeedInit PROVE SeedInv
    OBVIOUS
  <2>1. RowsEven
    BY InitEven DEF SeedInit
  <2>2. todo = <<>> /\ outcome = "none" /\ rows = {} /\ started = 0
    BY DEF SeedInit
  <2> QED
    BY <2>1, <2>2 DEF SeedInv, RewardIsPosted
<1>2. SeedInv /\ [SeedNext]_<<vars, seedVars>> => SeedInv'
  BY SeedKeeps
<1> QED
  BY <1>1, <1>2, PTL DEF SeedSpec

\* seedReferralsDemo: however often the seed is cut off and started again,
\* and whatever the application posts or reverses meanwhile, the reward it
\* writes names a transaction that exists.
THEOREM RewardsArePosted == SeedSpec => []RewardIsPosted
<1>1. SeedInv => RewardIsPosted
  BY DEF SeedInv
<1> QED
  BY <1>1, SeedInvariantHolds, PTL

\* The books balance with the seed's postings beside the application's.
THEOREM SeededBooksBalance == SeedSpec => []BooksBalance
<1>1. SeedInv => BooksBalance
  BY EvenRowsBalance DEF SeedInv
<1> QED
  BY <1>1, SeedInvariantHolds, PTL

\* runSeed: for any number of runs and cuts, and whatever the application
\* posts beside them, a finished run has written everything but the later
\* slots of a group and a fee that was assessed, the first run these too, and
\* a run is refused only over a reward that was posted and never written.
THEOREM CutsAlwaysHeal == SeedSpec => []CutsHeal
<1>1. SeedInv => CutsHeal
  <2> SUFFICES ASSUME SeedInv PROVE CutsHeal
    OBVIOUS
  <2>1. outcome = "refused" => row["demoReward"].status # "none" /\ "demoReward" \notin rows
    BY DEF SeedInv
  <2>2. ASSUME outcome = "finished"
        PROVE  /\ SeededRows \ rows \subseteq {"groupSlot2"}
               /\ {k \in SeedKeys : row[k].status = "none"} \subseteq {"weekFee"}
               /\ started = 1 => SeededRows \subseteq rows /\ \A k \in SeedKeys : row[k].status # "none"
    <3>1. todo = <<>> /\ Underway(Facts, todo) /\ (started = 1 => FirstRun(Facts, todo)) /\ RewardIsPosted
      BY <2>2 DEF SeedInv
    <3>2. Len(todo) = 0
      BY <3>1
    <3>3. Lasting \subseteq Facts
      <4>1. Brought(todo) = {}
        BY <3>2 DEF Brought
      <4> QED
        BY <3>1, <4>1 DEF Underway, Works
    <3>4. /\ \A r : RowIn(r) \in Facts <=> r \in rows
          /\ \A k : KeyIn(k) \in Facts <=> k \in Posted
      BY FactsTell DEF Facts
    <3>5. \A r \in SeededRows \ {"groupSlot2"} : r \in rows
      BY <3>3, <3>4 DEF Lasting
    <3>6. \A k \in SeedKeys \ {"weekFee", "demoReward"} : row[k].status # "none"
      BY <3>3, <3>4 DEF Lasting, Posted
    <3>7. row["demoReward"].status # "none"
      <4>1. "demoReward" \in SeededRows \ {"groupSlot2"}
        BY DEF SeededRows
      <4> QED
        BY <3>1, <3>5, <4>1 DEF RewardIsPosted
    <3>8. \A x : ~In(x, todo)
      BY <3>2 DEF In
    <3>9. started = 1 => "groupSlot2" \in rows /\ row["weekFee"].status # "none"
      BY <3>1, <3>4, <3>8 DEF FirstRun, SlotsCome, FeeComes, Posted
    <3> QED
      BY <3>5, <3>6, <3>7, <3>9
  <2> QED
    BY <2>1, <2>2 DEF CutsHeal
<1> QED
  BY <1>1, SeedInvariantHolds, PTL
=============================================================================
