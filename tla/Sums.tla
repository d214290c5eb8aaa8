-------------------------------- MODULE Sums --------------------------------
(***************************************************************************)
(* Facts about sums over finite sets.  The models add up money with        *)
(* SumFunctionOnSet of the community modules, a fold that takes the        *)
(* elements in an arbitrary order; the ledger's balances and the totals of *)
(* the services (reduce, aggregate _sum) do not depend on the order, and   *)
(* this module shows that neither does the fold.                           *)
(*                                                                         *)
(* The induction principles of the library quantify over operators.  Here  *)
(* a property of the numbers or subsets is the set of those that have it.  *)
(***************************************************************************)
EXTENDS FiniteSetTheorems, TLAPS

(* Induction.                                                              *)

\* A set of naturals that is not empty has a least element.
LEMMA LeastNatural ==
  ASSUME NEW T \in SUBSET Nat, T # {}
  PROVE  \E n \in T : \A m \in T : n <= m
  <1> DEFINE R == {ss \in Nat \X Nat : ss[1] < ss[2]}
  <1>1. IsWellFoundedOn(R, Nat)
    BY NatLessThanWellFounded DEF OpToRel
  <1>2. PICK n \in T : \A m \in T : <<m, n>> \notin R
    <2> HIDE DEF R
    <2> QED BY <1>1, WFMin
  <1>3. ASSUME NEW m \in T
        PROVE  n <= m
    <2>1. <<m, n>> \notin R
      BY <1>2
    <2>2. m \in Nat /\ n \in Nat
      OBVIOUS
    <2>3. QED
      BY <2>1, <2>2
  <1>4. QED
    BY <1>3

\* A set with 0 and with every successor of its elements is all of Nat.
LEMMA InductionOnNat ==
  ASSUME NEW G, 0 \in G, \A n \in Nat : n \in G => n + 1 \in G
  PROVE  Nat \subseteq G
  <1> DEFINE Bad == Nat \ G
  <1> SUFFICES ASSUME Bad # {} PROVE FALSE
    OBVIOUS
  <1>1. PICK n \in Bad : \A m \in Bad : n <= m
    BY LeastNatural
  <1>2. n - 1 \in Nat /\ n - 1 \notin Bad
    BY <1>1
  <1>3. (n - 1) + 1 \in G
    BY <1>2
  <1>4. QED
    BY <1>3

\* Taking one of n + 1 elements leaves n.
LEMMA CardinalityRemove ==
  ASSUME NEW T, IsFiniteSet(T), NEW x \in T, NEW n \in Nat, Cardinality(T) = n + 1
  PROVE  Cardinality(T \ {x}) = n
  <1>1. Cardinality(T \ {x}) = Cardinality(T) - 1
    BY FS_RemoveElement
  <1>2. QED
    BY <1>1

\* A set with {} that one more element never leaves has every subset of a finite set.
LEMMA InductionOnSubsets ==
  ASSUME NEW S, IsFiniteSet(S), NEW G, {} \in G,
         \A T \in SUBSET S : T \in G => \A x \in S \ T : T \cup {x} \in G
  PROVE  SUBSET S \subseteq G
  <1> DEFINE H == {n \in Nat : \A T \in SUBSET S : Cardinality(T) = n => T \in G}
  <1>1. \A T \in SUBSET S : IsFiniteSet(T) /\ Cardinality(T) \in Nat
    BY FS_Subset, FS_CardinalityType
  <1>2. 0 \in H
    BY <1>1, FS_EmptySet
  <1>3. ASSUME NEW n \in Nat, n \in H
        PROVE  n + 1 \in H
    <2> SUFFICES ASSUME NEW T \in SUBSET S, Cardinality(T) = n + 1
                 PROVE  T \in G
      OBVIOUS
    <2>1. T # {}
      BY FS_EmptySet
    <2>2. PICK x \in T : TRUE
      BY <2>1
    <2>3. Cardinality(T \ {x}) = n
      BY <1>1, CardinalityRemove
    <2>4. T \ {x} \in G
      BY <1>3, <2>3
    <2>5. T = (T \ {x}) \cup {x} /\ x \in S \ (T \ {x}) /\ T \ {x} \in SUBSET S
      OBVIOUS
    <2>6. QED
      BY <2>4, <2>5
  <1> HIDE DEF H
  <1>4. Nat \subseteq H
    BY <1>2, <1>3, InductionOnNat
  <1>5. QED
    BY <1>1, <1>4 DEF H

-----------------------------------------------------------------------------
(* The fold as a recursive function on the subsets.                        *)

Chosen(T) == CHOOSE x \in T : TRUE

Unfolds(f, S, g) ==
    g = [T \in SUBSET S |-> IF T = {} THEN 0 ELSE f[Chosen(T)] + g[T \ {Chosen(T)}]]

\* The element the fold takes next is one of the set.
LEMMA ChosenIsElement ==
  ASSUME NEW T, T # {}
  PROVE  Chosen(T) \in T
  BY DEF Chosen

\* What SumFunctionOnSet is by definition.
LEMMA SumIsUnfolding ==
  ASSUME NEW f, NEW S
  PROVE  SumFunctionOnSet(f, S) = (CHOOSE g : Unfolds(f, S, g))[S]
  BY DEF SumFunctionOnSet, FoldFunctionOnSet, MapThenFoldSet, Unfolds, Chosen

\* The recursion is well founded: subsets of at most n elements first.
LEMMA UnfoldingExists ==
  ASSUME NEW f, NEW S, IsFiniteSet(S)
  PROVE  \E g : Unfolds(f, S, g)
  <1> DEFINE Small(n) == {T \in SUBSET S : Cardinality(T) <= n}
             Def(g, T) == IF T = {} THEN 0 ELSE f[Chosen(T)] + g[T \ {Chosen(T)}]
             Good(n) == \E g : g = [T \in Small(n) |-> Def(g, T)]
             G == {n \in Nat : Good(n)}
  <1>1. \A T \in SUBSET S : IsFiniteSet(T) /\ Cardinality(T) \in Nat
    BY FS_Subset, FS_CardinalityType
  <1>2. Good(0)
    <2> DEFINE g == [T \in Small(0) |-> 0]
    <2>1. \A T \in Small(0) : T = {}
      BY <1>1, FS_EmptySet
    <2>2. g = [T \in Small(0) |-> Def(g, T)]
      BY <2>1
    <2>3. QED
      BY <2>2
  <1>3. ASSUME NEW n \in Nat, Good(n)
        PROVE  Good(n + 1)
    <2>1. PICK g : g = [T \in Small(n) |-> Def(g, T)]
      BY <1>3
    <2> DEFINE h == [T \in Small(n + 1) |-> Def(g, T)]
    <2>2. \A T \in Small(n + 1) : T # {} => T \ {Chosen(T)} \in Small(n)
      BY <1>1, FS_RemoveElement, ChosenIsElement
    <2>3. \A T \in Small(n) : T \in Small(n + 1)
      BY <1>1
    <2>4. \A T \in Small(n) : h[T] = g[T]
      BY <2>1, <2>3
    <2>5. \A T \in Small(n + 1) : Def(g, T) = Def(h, T)
      BY <2>2, <2>4
    <2>6. h = [T \in Small(n + 1) |-> Def(h, T)]
      BY <2>5
    <2>7. QED
      BY <2>6
  <1> HIDE DEF Good
  <1>4. Nat \subseteq G
    <2>1. 0 \in G /\ \A n \in Nat : n \in G => n + 1 \in G
      BY <1>2, <1>3
    <2>2. QED
      BY <2>1, InductionOnNat
  <1> USE DEF Good
  <1>5. Good(Cardinality(S))
    BY <1>1, <1>4
  <1>6. Small(Cardinality(S)) = SUBSET S
    BY FS_Subset
  <1>7. QED
    BY <1>5, <1>6 DEF Unfolds

\* Two unfoldings agree wherever both are defined.
LEMMA UnfoldingsAgree ==
  ASSUME NEW f, NEW S, IsFiniteSet(S), NEW T \in SUBSET S,
         NEW g, NEW h, Unfolds(f, S, g), Unfolds(f, T, h)
  PROVE  \A U \in SUBSET T : g[U] = h[U]
  <1> DEFINE G == {n \in Nat : \A U \in SUBSET T : Cardinality(U) = n => g[U] = h[U]}
  <1>1. \A U \in SUBSET T : IsFiniteSet(U) /\ Cardinality(U) \in Nat
    BY FS_Subset, FS_CardinalityType
  <1>a. \A U \in SUBSET T : g[U] = IF U = {} THEN 0 ELSE f[Chosen(U)] + g[U \ {Chosen(U)}]
    BY DEF Unfolds
  <1>b. \A U \in SUBSET T : h[U] = IF U = {} THEN 0 ELSE f[Chosen(U)] + h[U \ {Chosen(U)}]
    BY DEF Unfolds
  <1>2. 0 \in G
    BY <1>1, <1>a, <1>b, FS_EmptySet
  <1>3. ASSUME NEW n \in Nat, n \in G
        PROVE  n + 1 \in G
    <2> SUFFICES ASSUME NEW U \in SUBSET T, Cardinality(U) = n + 1
                 PROVE  g[U] = h[U]
      OBVIOUS
    <2>1. U # {}
      BY FS_EmptySet
    <2>2. Cardinality(U \ {Chosen(U)}) = n
      BY <1>1, <2>1, ChosenIsElement, CardinalityRemove
    <2>3. g[U \ {Chosen(U)}] = h[U \ {Chosen(U)}]
      BY <1>3, <2>2
    <2>4. QED
      BY <1>a, <1>b, <2>1, <2>3
  <1> HIDE DEF G
  <1>4. Nat \subseteq G
    BY <1>2, <1>3, InductionOnNat
  <1>5. QED
    BY <1>1, <1>4 DEF G

\* The empty sum.
LEMMA SumEmpty ==
  ASSUME NEW f
  PROVE  SumFunctionOnSet(f, {}) = 0
  <1>1. PICK h : Unfolds(f, {}, h)
    BY UnfoldingExists, FS_EmptySet
  <1>2. Unfolds(f, {}, CHOOSE g : Unfolds(f, {}, g))
    BY <1>1
  <1>3. (CHOOSE g : Unfolds(f, {}, g))[{}] = 0
    BY <1>2 DEF Unfolds
  <1>4. QED
    BY <1>3, SumIsUnfolding

\* One step of the fold.
LEMMA SumUnfold ==
  ASSUME NEW f, NEW S, IsFiniteSet(S), S # {}
  PROVE  SumFunctionOnSet(f, S) = f[Chosen(S)] + SumFunctionOnSet(f, S \ {Chosen(S)})
  <1> DEFINE T == S \ {Chosen(S)}
             g == CHOOSE g : Unfolds(f, S, g)
             h == CHOOSE h : Unfolds(f, T, h)
  <1>1. IsFiniteSet(T) /\ T \in SUBSET S
    BY FS_RemoveElement
  <1>2. Unfolds(f, S, g)
    BY UnfoldingExists
  <1>3. Unfolds(f, T, h)
    BY UnfoldingExists, <1>1
  <1>4. g[S] = f[Chosen(S)] + g[T]
    BY <1>2 DEF Unfolds
  <1>5. g[T] = h[T]
    <2> HIDE DEF T, g, h
    <2> QED BY <1>1, <1>2, <1>3, UnfoldingsAgree
  <1>6. QED
    BY <1>4, <1>5, SumIsUnfolding

-----------------------------------------------------------------------------
(* What the models use.                                                    *)

\* A sum of integers is an integer, a sum of naturals a natural.
LEMMA SumType ==
  ASSUME NEW f, NEW S, IsFiniteSet(S)
  PROVE  /\ (\A x \in S : f[x] \in Int) => SumFunctionOnSet(f, S) \in Int
         /\ (\A x \in S : f[x] \in Nat) => SumFunctionOnSet(f, S) \in Nat
  <1>1. ASSUME NEW R \in {Nat, Int}, \A x \in S : f[x] \in R
        PROVE  SumFunctionOnSet(f, S) \in R
    <2> DEFINE G == {n \in Nat : \A T \in SUBSET S : Cardinality(T) = n => SumFunctionOnSet(f, T) \in R}
    <2>1. \A T \in SUBSET S : IsFiniteSet(T) /\ Cardinality(T) \in Nat
      BY FS_Subset, FS_CardinalityType
    <2>2. 0 \in G
      BY <2>1, FS_EmptySet, SumEmpty
    <2>3. ASSUME NEW n \in Nat, n \in G
          PROVE  n + 1 \in G
      <3> SUFFICES ASSUME NEW T \in SUBSET S, Cardinality(T) = n + 1
                   PROVE  SumFunctionOnSet(f, T) \in R
        OBVIOUS
      <3>1. T # {}
        BY FS_EmptySet
      <3>2. SumFunctionOnSet(f, T) = f[Chosen(T)] + SumFunctionOnSet(f, T \ {Chosen(T)})
        BY <2>1, <3>1, SumUnfold
      <3>3. Cardinality(T \ {Chosen(T)}) = n
        BY <2>1, <3>1, ChosenIsElement, CardinalityRemove
      <3>4. SumFunctionOnSet(f, T \ {Chosen(T)}) \in R
        BY <2>3, <3>3
      <3>5. f[Chosen(T)] \in R
        BY <1>1, <3>1, ChosenIsElement
      <3>6. QED
        BY <3>2, <3>4, <3>5
    <2> HIDE DEF G
    <2>4. Nat \subseteq G
      BY <2>2, <2>3, InductionOnNat
    <2>5. QED
      BY <2>1, <2>4 DEF G
  <1>2. QED
    BY <1>1

\* Any element may be taken out of the sum first.
LEMMA SumRemove ==
  ASSUME NEW f, NEW S, IsFiniteSet(S), \A y \in S : f[y] \in Int, NEW x \in S
  PROVE  SumFunctionOnSet(f, S) = f[x] + SumFunctionOnSet(f, S \ {x})
  <1> DEFINE G == {n \in Nat : \A T \in SUBSET S : \A y \in T : Cardinality(T) = n =>
                      SumFunctionOnSet(f, T) = f[y] + SumFunctionOnSet(f, T \ {y})}
  <1>1. \A T \in SUBSET S : IsFiniteSet(T) /\ Cardinality(T) \in Nat
    BY FS_Subset, FS_CardinalityType
  <1>2. 0 \in G
    BY <1>1, FS_EmptySet
  <1>3. ASSUME NEW n \in Nat, n \in G
        PROVE  n + 1 \in G
    <2> SUFFICES ASSUME NEW T \in SUBSET S, NEW y \in T, Cardinality(T) = n + 1
                 PROVE  SumFunctionOnSet(f, T) = f[y] + SumFunctionOnSet(f, T \ {y})
      OBVIOUS
    <2> DEFINE c == Chosen(T)
    <2>1. c \in T
      BY ChosenIsElement
    <2>2. SumFunctionOnSet(f, T) = f[c] + SumFunctionOnSet(f, T \ {c})
      BY <1>1, SumUnfold
    <2>3. CASE y = c
      BY <2>2, <2>3
    <2>4. CASE y # c
      <3> HIDE DEF c
      <3>1. Cardinality(T \ {c}) = n /\ Cardinality(T \ {y}) = n
        BY <1>1, <2>1, CardinalityRemove
      <3>2. SumFunctionOnSet(f, T \ {c}) = f[y] + SumFunctionOnSet(f, (T \ {c}) \ {y})
        BY <1>3, <2>4, <3>1
      <3>3. SumFunctionOnSet(f, T \ {y}) = f[c] + SumFunctionOnSet(f, (T \ {y}) \ {c})
        BY <1>3, <2>1, <2>4, <3>1
      <3>4. (T \ {c}) \ {y} = (T \ {y}) \ {c}
        OBVIOUS
      <3>5. SumFunctionOnSet(f, (T \ {y}) \ {c}) \in Int /\ f[c] \in Int /\ f[y] \in Int
        BY <1>1, <2>1, SumType
      <3> DEFINE r == SumFunctionOnSet(f, (T \ {y}) \ {c})
      <3>6. /\ SumFunctionOnSet(f, T) = f[c] + (f[y] + r)
            /\ SumFunctionOnSet(f, T \ {y}) = f[c] + r
        BY <2>2, <3>2, <3>3, <3>4
      <3>7. QED
        BY <3>5, <3>6
    <2>5. QED
      BY <2>3, <2>4
  <1> HIDE DEF G
  <1>4. Nat \subseteq G
    BY <1>2, <1>3, InductionOnNat
  <1>5. QED
    BY <1>1, <1>4 DEF G

\* One element more.
LEMMA SumInsert ==
  ASSUME NEW f, NEW S, IsFiniteSet(S), NEW x, x \notin S,
         \A y \in S \cup {x} : f[y] \in Int
  PROVE  SumFunctionOnSet(f, S \cup {x}) = f[x] + SumFunctionOnSet(f, S)
  <1>1. IsFiniteSet(S \cup {x}) /\ (S \cup {x}) \ {x} = S
    BY FS_AddElement
  <1>2. QED
    BY <1>1, SumRemove

\* Only the values on the set matter.
LEMMA SumSame ==
  ASSUME NEW f, NEW g, NEW S, IsFiniteSet(S), \A x \in S : f[x] = g[x]
  PROVE  SumFunctionOnSet(f, S) = SumFunctionOnSet(g, S)
  <1> DEFINE G == {n \in Nat : \A T \in SUBSET S : Cardinality(T) = n =>
                      SumFunctionOnSet(f, T) = SumFunctionOnSet(g, T)}
  <1>1. \A T \in SUBSET S : IsFiniteSet(T) /\ Cardinality(T) \in Nat
    BY FS_Subset, FS_CardinalityType
  <1>2. 0 \in G
    BY <1>1, FS_EmptySet, SumEmpty
  <1>3. ASSUME NEW n \in Nat, n \in G
        PROVE  n + 1 \in G
    <2> SUFFICES ASSUME NEW T \in SUBSET S, Cardinality(T) = n + 1
                 PROVE  SumFunctionOnSet(f, T) = SumFunctionOnSet(g, T)
      OBVIOUS
    <2>1. T # {}
      BY FS_EmptySet
    <2>2. /\ SumFunctionOnSet(f, T) = f[Chosen(T)] + SumFunctionOnSet(f, T \ {Chosen(T)})
          /\ SumFunctionOnSet(g, T) = g[Chosen(T)] + SumFunctionOnSet(g, T \ {Chosen(T)})
      BY <1>1, <2>1, SumUnfold
    <2>3. Cardinality(T \ {Chosen(T)}) = n
      BY <1>1, <2>1, ChosenIsElement, CardinalityRemove
    <2>4. SumFunctionOnSet(f, T \ {Chosen(T)}) = SumFunctionOnSet(g, T \ {Chosen(T)})
      BY <1>3, <2>3
    <2>5. f[Chosen(T)] = g[Chosen(T)]
      BY <2>1, ChosenIsElement
    <2>6. QED
      BY <2>2, <2>4, <2>5
  <1> HIDE DEF G
  <1>4. Nat \subseteq G
    BY <1>2, <1>3, InductionOnNat
  <1>5. QED
    BY <1>1, <1>4 DEF G

\* One value changed.
LEMMA SumChange ==
  ASSUME NEW f, NEW g, NEW S, IsFiniteSet(S), NEW x \in S,
         \A y \in S : f[y] \in Int, g[x] \in Int,
         \A y \in S \ {x} : f[y] = g[y]
  PROVE  SumFunctionOnSet(g, S) = SumFunctionOnSet(f, S) - f[x] + g[x]
  <1>1. SumFunctionOnSet(f, S) = f[x] + SumFunctionOnSet(f, S \ {x})
    BY SumRemove
  <1>2. SumFunctionOnSet(g, S) = g[x] + SumFunctionOnSet(g, S \ {x})
    <2>1. \A y \in S : g[y] \in Int
      OBVIOUS
    <2>2. QED
      BY <2>1, SumRemove
  <1>3. IsFiniteSet(S \ {x})
    BY FS_RemoveElement
  <1>4. SumFunctionOnSet(f, S \ {x}) = SumFunctionOnSet(g, S \ {x})
    BY <1>3, SumSame
  <1>5. SumFunctionOnSet(f, S \ {x}) \in Int
    BY <1>3, SumType
  <1>6. QED
    BY <1>1, <1>2, <1>4, <1>5

\* Two sums over one set.
LEMMA SumPlus ==
  ASSUME NEW f, NEW g, NEW h, NEW S, IsFiniteSet(S),
         \A x \in S : f[x] \in Int /\ g[x] \in Int /\ h[x] = f[x] + g[x]
  PROVE  SumFunctionOnSet(h, S) = SumFunctionOnSet(f, S) + SumFunctionOnSet(g, S)
  <1> DEFINE G == {T \in SUBSET S : SumFunctionOnSet(h, T) =
                      SumFunctionOnSet(f, T) + SumFunctionOnSet(g, T)}
  <1>1. {} \in G
    BY SumEmpty
  <1>2. ASSUME NEW T \in SUBSET S, T \in G, NEW x \in S \ T
        PROVE  T \cup {x} \in G
    <2>1. IsFiniteSet(T)
      BY FS_Subset
    <2>2. /\ SumFunctionOnSet(f, T \cup {x}) = f[x] + SumFunctionOnSet(f, T)
          /\ SumFunctionOnSet(g, T \cup {x}) = g[x] + SumFunctionOnSet(g, T)
          /\ SumFunctionOnSet(h, T \cup {x}) = h[x] + SumFunctionOnSet(h, T)
      <3>1. \A y \in T \cup {x} : f[y] \in Int /\ g[y] \in Int /\ h[y] \in Int
        OBVIOUS
      <3>2. QED
        BY <2>1, <3>1, SumInsert
    <2>3. SumFunctionOnSet(f, T) \in Int /\ SumFunctionOnSet(g, T) \in Int
      BY <2>1, SumType
    <2>4. SumFunctionOnSet(h, T) = SumFunctionOnSet(f, T) + SumFunctionOnSet(g, T)
      BY <1>2
    <2>5. f[x] \in Int /\ g[x] \in Int /\ h[x] = f[x] + g[x]
      OBVIOUS
    <2> HIDE DEF G
    <2>6. SumFunctionOnSet(h, T \cup {x}) =
            SumFunctionOnSet(f, T \cup {x}) + SumFunctionOnSet(g, T \cup {x})
      BY <2>2, <2>3, <2>4, <2>5
    <2>7. QED
      BY <2>6 DEF G
  <1> HIDE DEF G
  <1>3. SUBSET S \subseteq G
    BY <1>1, <1>2, InductionOnSubsets
  <1>4. QED
    BY <1>3 DEF G

\* Nothing to add up.
LEMMA SumZero ==
  ASSUME NEW f, NEW S, IsFiniteSet(S), \A x \in S : f[x] = 0
  PROVE  SumFunctionOnSet(f, S) = 0
  <1>1. \A x \in S : f[x] \in Int /\ f[x] = f[x] + f[x]
    OBVIOUS
  <1>2. SumFunctionOnSet(f, S) = SumFunctionOnSet(f, S) + SumFunctionOnSet(f, S)
    BY <1>1, SumPlus
  <1>3. SumFunctionOnSet(f, S) \in Int
    BY <1>1, SumType
  <1>4. \A n \in Int : n = n + n => n = 0
    OBVIOUS
  <1>5. QED
    BY <1>2, <1>3, <1>4

\* One value that counts.
LEMMA SumOne ==
  ASSUME NEW f, NEW S, IsFiniteSet(S), NEW x \in S, f[x] \in Int, \A y \in S \ {x} : f[y] = 0
  PROVE  SumFunctionOnSet(f, S) = f[x]
  <1>1. \A y \in S : f[y] \in Int
    OBVIOUS
  <1>2. SumFunctionOnSet(f, S) = f[x] + SumFunctionOnSet(f, S \ {x})
    BY <1>1, SumRemove
  <1>3. IsFiniteSet(S \ {x})
    BY FS_RemoveElement
  <1>4. SumFunctionOnSet(f, S \ {x}) = 0
    BY <1>3, SumZero
  <1>5. QED
    BY <1>2, <1>4

\* A part of a sum of naturals is at most the whole.
LEMMA SumOfPart ==
  ASSUME NEW f, NEW S, IsFiniteSet(S), NEW T \in SUBSET S, \A x \in S : f[x] \in Nat
  PROVE  SumFunctionOnSet(f, T) <= SumFunctionOnSet(f, S)
  <1> DEFINE G == {U \in SUBSET S :
                     SumFunctionOnSet(f, T) <= SumFunctionOnSet(f, T \cup U)}
  <1>1. IsFiniteSet(T) /\ SumFunctionOnSet(f, T) \in Nat
    BY FS_Subset, SumType
  <1>2. {} \in G
    BY <1>1
  <1>3. ASSUME NEW U \in SUBSET S, U \in G, NEW x \in S \ U
        PROVE  U \cup {x} \in G
    <2>1. IsFiniteSet(T \cup U) /\ T \cup U \in SUBSET S
      <3>1. T \cup U \in SUBSET S
        OBVIOUS
      <3>2. QED
        BY <3>1, FS_Subset
    <2>2. CASE x \in T
      <3>1. T \cup (U \cup {x}) = T \cup U
        BY <2>2
      <3>2. QED
        BY <1>3, <3>1
    <2>3. CASE x \notin T
      <3>1. T \cup (U \cup {x}) = (T \cup U) \cup {x} /\ x \notin T \cup U
        BY <2>3
      <3>2. SumFunctionOnSet(f, (T \cup U) \cup {x}) = f[x] + SumFunctionOnSet(f, T \cup U)
        BY <2>1, <3>1, SumInsert
      <3>3. SumFunctionOnSet(f, T \cup U) \in Nat /\ f[x] \in Nat
        BY <2>1, SumType
      <3>4. SumFunctionOnSet(f, T) <= SumFunctionOnSet(f, T \cup U)
        BY <1>3
      <3>5. SumFunctionOnSet(f, T) <= f[x] + SumFunctionOnSet(f, T \cup U)
        BY <1>1, <3>3, <3>4
      <3>6. QED
        BY <3>1, <3>2, <3>5
    <2>4. QED
      BY <2>2, <2>3
  <1> HIDE DEF G
  <1>4. SUBSET S \subseteq G
    BY <1>2, <1>3, InductionOnSubsets
  <1>5. T \cup S = S
    OBVIOUS
  <1>6. QED
    BY <1>4, <1>5 DEF G

\* A table with rows A and columns B: F and G hold it by rows and by columns,
\* r and c their sums.
IsTable(F, G, r, c, A, B) ==
    /\ IsFiniteSet(A) /\ IsFiniteSet(B)
    /\ \A a \in A, b \in B : F[a][b] \in Int /\ G[b][a] = F[a][b]
    /\ \A a \in A : r[a] = SumFunctionOnSet(F[a], B)
    /\ \A b \in B : c[b] = SumFunctionOnSet(G[b], A)

\* A table may be added up by rows or by columns.
LEMMA SumTable ==
  ASSUME NEW F, NEW G, NEW r, NEW c, NEW A, NEW B, IsTable(F, G, r, c, A, B)
  PROVE  SumFunctionOnSet(r, A) = SumFunctionOnSet(c, B)
  <1> DEFINE cols(T) == [b \in B |-> SumFunctionOnSet(G[b], T)]
             P == {T \in SUBSET A : SumFunctionOnSet(r, T) = SumFunctionOnSet(cols(T), B)}
  <1>1. /\ IsFiniteSet(A) /\ IsFiniteSet(B)
        /\ \A a \in A, b \in B : F[a][b] \in Int /\ G[b][a] = F[a][b]
        /\ \A a \in A : r[a] = SumFunctionOnSet(F[a], B)
        /\ \A b \in B : c[b] = SumFunctionOnSet(G[b], A)
        /\ \A T \in SUBSET A : IsFiniteSet(T)
    BY FS_Subset DEF IsTable
  <1>2. \A T \in SUBSET A, b \in B : SumFunctionOnSet(G[b], T) \in Int
    BY <1>1, SumType
  <1>3. \A a \in A : r[a] \in Int
    BY <1>1, SumType
  <1>4. {} \in P
    <2>1. \A b \in B : cols({})[b] = 0
      BY SumEmpty
    <2>2. SumFunctionOnSet(cols({}), B) = 0
      <3> HIDE DEF cols
      <3> QED BY <1>1, <2>1, SumZero
    <2>3. QED
      BY <2>2, SumEmpty
  <1>5. ASSUME NEW T \in SUBSET A, T \in P, NEW x \in A \ T
        PROVE  T \cup {x} \in P
    <2>1. SumFunctionOnSet(r, T \cup {x}) = r[x] + SumFunctionOnSet(r, T)
      BY <1>1, <1>3, SumInsert
    <2>2. \A b \in B : cols(T \cup {x})[b] = F[x][b] + cols(T)[b]
      <3> SUFFICES ASSUME NEW b \in B
                   PROVE  SumFunctionOnSet(G[b], T \cup {x}) =
                            F[x][b] + SumFunctionOnSet(G[b], T)
        OBVIOUS
      <3>1. \A a \in T \cup {x} : G[b][a] \in Int
        BY <1>1
      <3>2. G[b][x] = F[x][b]
        BY <1>1
      <3>3. QED
        BY <1>1, <3>1, <3>2, SumInsert
    <2>3. \A b \in B : cols(T)[b] \in Int
      BY <1>2
    <2>4. SumFunctionOnSet(cols(T \cup {x}), B) = r[x] + SumFunctionOnSet(cols(T), B)
      <3> DEFINE u == F[x]
                 v == cols(T)
                 w == cols(T \cup {x})
      <3> HIDE DEF cols
      <3>1. \A b \in B : u[b] \in Int /\ v[b] \in Int /\ w[b] = u[b] + v[b]
        BY <1>1, <2>2, <2>3
      <3> HIDE DEF u, v, w
      <3>2. SumFunctionOnSet(w, B) = SumFunctionOnSet(u, B) + SumFunctionOnSet(v, B)
        BY <1>1, <3>1, SumPlus
      <3>3. QED
        BY <1>1, <3>2 DEF u, v, w
    <2>5. SumFunctionOnSet(r, T) = SumFunctionOnSet(cols(T), B)
      BY <1>5
    <2> HIDE DEF cols
    <2>6. QED
      BY <2>1, <2>4, <2>5
  <1>6. SUBSET A \subseteq P
    <2> HIDE DEF P
    <2> QED BY <1>1, <1>4, <1>5, InductionOnSubsets
  <1>7. SumFunctionOnSet(r, A) = SumFunctionOnSet(cols(A), B)
    BY <1>6
  <1>8. SumFunctionOnSet(cols(A), B) = SumFunctionOnSet(c, B)
    <2>1. \A b \in B : cols(A)[b] = c[b]
      BY <1>1
    <2> HIDE DEF cols
    <2>2. QED
      BY <1>1, <2>1, SumSame
  <1>9. QED
    BY <1>7, <1>8

\* A common factor.
LEMMA SumScale ==
  ASSUME NEW f, NEW h, NEW c \in Int, NEW S, IsFiniteSet(S),
         \A x \in S : f[x] \in Int /\ h[x] = c * f[x]
  PROVE  SumFunctionOnSet(h, S) = c * SumFunctionOnSet(f, S)
  <1> DEFINE G == {T \in SUBSET S : SumFunctionOnSet(h, T) = c * SumFunctionOnSet(f, T)}
  <1>1. {} \in G
    BY SumEmpty
  <1>2. ASSUME NEW T \in SUBSET S, T \in G, NEW x \in S \ T
        PROVE  T \cup {x} \in G
    <2>1. IsFiniteSet(T)
      BY FS_Subset
    <2>2. \A y \in S : h[y] \in Int
      OBVIOUS
    <2>3. /\ SumFunctionOnSet(f, T \cup {x}) = f[x] + SumFunctionOnSet(f, T)
          /\ SumFunctionOnSet(h, T \cup {x}) = h[x] + SumFunctionOnSet(h, T)
      BY <2>1, <2>2, SumInsert
    <2>4. SumFunctionOnSet(f, T) \in Int /\ f[x] \in Int
      BY <2>1, SumType
    <2>5. c * f[x] + c * SumFunctionOnSet(f, T) = c * (f[x] + SumFunctionOnSet(f, T))
      BY <2>4
    <2> QED
      BY <1>2, <2>3, <2>5
  <1> HIDE DEF G
  <1>3. SUBSET S \subseteq G
    BY <1>1, <1>2, InductionOnSubsets
  <1> QED
    BY <1>3 DEF G

\* The same value everywhere.
LEMMA SumConst ==
  ASSUME NEW h, NEW c \in Int, NEW S, IsFiniteSet(S), \A x \in S : h[x] = c
  PROVE  SumFunctionOnSet(h, S) = c * Cardinality(S)
  <1> DEFINE G == {T \in SUBSET S : SumFunctionOnSet(h, T) = c * Cardinality(T)}
  <1>1. {} \in G
    BY SumEmpty, FS_EmptySet
  <1>2. ASSUME NEW T \in SUBSET S, T \in G, NEW x \in S \ T
        PROVE  T \cup {x} \in G
    <2>1. IsFiniteSet(T) /\ Cardinality(T) \in Nat
      BY FS_Subset, FS_CardinalityType
    <2>2. Cardinality(T \cup {x}) = Cardinality(T) + 1
      BY <2>1, FS_AddElement
    <2>3. SumFunctionOnSet(h, T \cup {x}) = c + SumFunctionOnSet(h, T)
      <3>1. \A y \in T \cup {x} : h[y] \in Int
        OBVIOUS
      <3> QED
        BY <2>1, <3>1, SumInsert
    <2>4. c + c * Cardinality(T) = c * (Cardinality(T) + 1)
      BY <2>1
    <2> QED
      BY <1>2, <2>2, <2>3, <2>4
  <1> HIDE DEF G
  <1>3. SUBSET S \subseteq G
    BY <1>1, <1>2, InductionOnSubsets
  <1> QED
    BY <1>3 DEF G
=============================================================================
