------------------------ MODULE EncounterViewProofs -------------------------
(***************************************************************************)
(* What the operators of EncounterView make of a combat, for every set of  *)
(* combatants: the sort is a permutation by initiative that keeps equals   *)
(* in order, and what is shown of it are the entries that are not hidden.  *)
(*                                                                         *)
(* Induction is over a set of numbers: the facts proved of a recursive     *)
(* function are those of the numbers in it.                                *)
(***************************************************************************)
EXTENDS EncounterView, Integers, FiniteSetTheorems, WellFoundedInduction, TLAPS

LEMMA LeastNat ==
  ASSUME NEW T, T \subseteq Nat, T # {}
  PROVE  \E x \in T : \A y \in T : x <= y
<1>1. IsWellFoundedOn(OpToRel(<, Nat), Nat)
  BY NatLessThanWellFounded
<1>2. PICK x \in T : \A y \in T : ~ (<<y, x>> \in OpToRel(<, Nat))
  BY <1>1, WFMin
<1>3. \A y \in T : ~(y < x)
  BY <1>2 DEF OpToRel
<1>4. QED
  BY <1>3

LEMMA Induction ==
  ASSUME NEW S, 0 \in S, \A n \in Nat : n \in S => n + 1 \in S
  PROVE  Nat \subseteq S
<1> SUFFICES ASSUME Nat \ S # {} PROVE FALSE
  OBVIOUS
<1>1. PICK x \in Nat \ S : \A y \in Nat \ S : x <= y
  BY LeastNat
<1>2. x - 1 \in Nat /\ x - 1 \notin Nat \ S
  BY <1>1
<1>3. QED
  BY <1>2

----------------------------------------------------------------------------
(* The sort.                                                               *)

\* The numbers up to n, and without one of them.
LEMMA Numbers ==
  ASSUME NEW n \in Nat
  PROVE  /\ IsFiniteSet(1..n) /\ Cardinality(1..n) = n
         /\ IsFiniteSet(0..(n - 1)) /\ Cardinality(0..(n - 1)) = n
BY FS_Interval

LEMMA OneLess ==
  ASSUME NEW n \in Nat, NEW S, IsFiniteSet(S), Cardinality(S) = n, NEW x \in S
  PROVE  IsFiniteSet(S \ {x}) /\ Cardinality(S \ {x}) = n - 1
BY FS_RemoveElement

\* The lists of combatants in question.
Roll(list) == list \in Seq(Combatants)

Before(list, i) == {j \in DOMAIN list : Precedes(list, j, i)}
Rank(list, i) == Cardinality(Before(list, i))

\* Of two entries one precedes the other, and the order is transitive.
LEMMA PrecedesOrders ==
  ASSUME NEW list, Roll(list)
  PROVE  /\ \A i, j \in DOMAIN list : i # j => Precedes(list, i, j) \/ Precedes(list, j, i)
         /\ \A i \in DOMAIN list : ~Precedes(list, i, i)
         /\ \A i, j, k \in DOMAIN list : Precedes(list, i, j) /\ Precedes(list, j, k) => Precedes(list, i, k)
<1>1. \A i \in DOMAIN list : Initiative[list[i]] \in Nat /\ i \in Nat
  BY EncounterViewAssumption DEF Roll
<1>2. QED
  BY <1>1 DEF Precedes

LEMMA RankType ==
  ASSUME NEW list, Roll(list), NEW i \in DOMAIN list
  PROVE  /\ IsFiniteSet(Before(list, i)) /\ Rank(list, i) \in 0..(Len(list) - 1)
<1>1. Len(list) \in Nat /\ DOMAIN list = 1..Len(list)
  BY DEF Roll
<1>2. IsFiniteSet(1..Len(list)) /\ Cardinality(1..Len(list)) = Len(list)
  BY <1>1, Numbers
<1>3. IsFiniteSet((1..Len(list)) \ {i}) /\ Cardinality((1..Len(list)) \ {i}) = Len(list) - 1
  BY <1>1, <1>2, OneLess
<1>4. Before(list, i) \in SUBSET ((1..Len(list)) \ {i})
  BY <1>1, PrecedesOrders DEF Before
<1>5. IsFiniteSet(Before(list, i)) /\ Cardinality(Before(list, i)) <= Len(list) - 1
  BY <1>3, <1>4, FS_Subset
<1>6. Cardinality(Before(list, i)) \in Nat
  BY <1>5, FS_CardinalityType
<1>7. QED
  BY <1>1, <1>5, <1>6 DEF Rank

\* What precedes has the smaller rank.
LEMMA RankGrows ==
  ASSUME NEW list, Roll(list), NEW i \in DOMAIN list, NEW j \in DOMAIN list, Precedes(list, i, j)
  PROVE  Rank(list, i) < Rank(list, j)
<1>1. Before(list, i) \in SUBSET Before(list, j) /\ i \in Before(list, j) /\ i \notin Before(list, i)
  BY PrecedesOrders DEF Before
<1>2. IsFiniteSet(Before(list, j)) /\ Rank(list, i) \in Nat /\ Rank(list, j) \in Nat
  BY RankType
<1>3. /\ Cardinality(Before(list, i)) <= Cardinality(Before(list, j))
      /\ Cardinality(Before(list, j)) = Cardinality(Before(list, i)) => Before(list, j) = Before(list, i)
  BY <1>1, <1>2, FS_Subset
<1>4. QED
  BY <1>1, <1>2, <1>3 DEF Rank

\* Every rank is some entry's, and no other's.
LEMMA RankHit ==
  ASSUME NEW list, Roll(list), NEW k \in DOMAIN list
  PROVE  /\ \E i \in DOMAIN list : Rank(list, i) = k - 1
         /\ \A i, j \in DOMAIN list : Rank(list, i) = Rank(list, j) => i = j
<1>1. Len(list) \in Nat /\ DOMAIN list = 1..Len(list)
  BY DEF Roll
<1>2. \A i, j \in DOMAIN list : Rank(list, i) = Rank(list, j) => i = j
  <2>1. ASSUME NEW i \in DOMAIN list, NEW j \in DOMAIN list, Rank(list, i) = Rank(list, j), i # j PROVE FALSE
    <3>1. Rank(list, i) \in Nat /\ Rank(list, j) \in Nat
      BY <1>1, RankType
    <3>2. Rank(list, i) < Rank(list, j) \/ Rank(list, j) < Rank(list, i)
      BY <2>1, PrecedesOrders, RankGrows
    <3>3. QED
      BY <2>1, <3>1, <3>2
  <2>2. QED
    BY <2>1
<1>3. ASSUME \A i \in DOMAIN list : Rank(list, i) # k - 1 PROVE FALSE
  <2> DEFINE T == (0..(Len(list) - 1)) \ {k - 1}
             f == [i \in 1..Len(list) |-> Rank(list, i)]
  <2>1. IsFiniteSet(1..Len(list)) /\ Cardinality(1..Len(list)) = Len(list)
    BY <1>1, Numbers
  <2>2. IsFiniteSet(0..(Len(list) - 1)) /\ Cardinality(0..(Len(list) - 1)) = Len(list)
    BY <1>1, Numbers
  <2>3. IsFiniteSet(T) /\ Cardinality(T) = Len(list) - 1
    <3>1. k - 1 \in 0..(Len(list) - 1)
      BY <1>1
    <3>2. QED
      BY <1>1, <2>2, <3>1, OneLess
  <2>4. f \in [1..Len(list) -> T]
    BY <1>1, <1>3, RankType
  <2>5. Cardinality(T) < Cardinality(1..Len(list))
    BY <1>1, <2>1, <2>3
  <2> HIDE DEF T, f
  <2>6. \E i, j \in 1..Len(list) : i # j /\ f[i] = f[j]
    BY <2>1, <2>3, <2>4, <2>5, FS_PigeonHole
  <2>7. QED
    BY <1>1, <1>2, <2>6 DEF f
<1>4. QED
  BY <1>2, <1>3

\* The place in the list of the k-th entry of the sorted list.
Place(list, k) == CHOOSE i \in DOMAIN list : Rank(list, i) = k - 1

\* sort() permutes the list; the higher initiative comes first, and equals stay
\* in the document's order (byInitiativeDesc).
LEMMA SortedPermutes ==
  ASSUME NEW list, Roll(list)
  PROVE  /\ Roll(Sorted(list)) /\ Len(Sorted(list)) = Len(list) /\ DOMAIN Sorted(list) = DOMAIN list
         /\ \A k \in DOMAIN list : Place(list, k) \in DOMAIN list /\ Sorted(list)[k] = list[Place(list, k)]
         /\ \A i \in DOMAIN list : \E k \in DOMAIN list : Place(list, k) = i
         /\ \A k, l \in DOMAIN list : k < l => Precedes(list, Place(list, k), Place(list, l))
<1>1. Len(list) \in Nat /\ DOMAIN list = 1..Len(list)
  BY DEF Roll
<1>2. \A k \in DOMAIN list : Place(list, k) \in DOMAIN list /\ Rank(list, Place(list, k)) = k - 1
  BY RankHit DEF Place
<1>3. \A k \in DOMAIN list : Sorted(list)[k] = list[Place(list, k)]
  BY DEF Sorted, Place, Rank, Before
<1>4. DOMAIN Sorted(list) = DOMAIN list
  BY DEF Sorted
<1>5. Roll(Sorted(list)) /\ Len(Sorted(list)) = Len(list)
  <2>1. \A k \in 1..Len(list) : Sorted(list)[k] \in Combatants
    BY <1>1, <1>2, <1>3 DEF Roll
  <2>2. Sorted(list) = [k \in 1..Len(list) |-> Sorted(list)[k]]
    BY <1>1 DEF Sorted
  <2>3. Sorted(list) \in [1..Len(list) -> Combatants]
    BY <2>1, <2>2
  <2>4. QED
    BY <1>1, <2>3 DEF Roll
<1>6. ASSUME NEW i \in DOMAIN list PROVE \E k \in DOMAIN list : Place(list, k) = i
  <2>1. Rank(list, i) \in 0..(Len(list) - 1)
    BY RankType
  <2>2. Rank(list, i) + 1 \in DOMAIN list
    BY <1>1, <2>1
  <2>3. Rank(list, Place(list, Rank(list, i) + 1)) = Rank(list, i)
    BY <1>2, <2>1, <2>2
  <2>4. Place(list, Rank(list, i) + 1) = i
    BY <1>2, <2>2, <2>3, RankHit
  <2>5. QED
    BY <2>2, <2>4
<1>7. ASSUME NEW k \in DOMAIN list, NEW l \in DOMAIN list, k < l
      PROVE  Precedes(list, Place(list, k), Place(list, l))
  <2>1. Place(list, k) # Place(list, l)
    BY <1>1, <1>2, <1>7
  <2>2. CASE Precedes(list, Place(list, l), Place(list, k))
    <3>1. Rank(list, Place(list, l)) < Rank(list, Place(list, k))
      BY <1>2, <2>2, RankGrows
    <3>2. l - 1 < k - 1
      BY <1>2, <3>1
    <3>3. QED
      BY <1>1, <1>7, <3>2
  <2>3. QED
    BY <1>2, <2>1, <2>2, PrecedesOrders
<1>8. QED
  BY <1>2, <1>3, <1>4, <1>5, <1>6, <1>7

----------------------------------------------------------------------------
(* The filter.                                                             *)

\* F tells what is kept of the first i entries, for each i up to n.
Keeps(F, list, hidden, n) ==
  F = [i \in 0..n |-> IF i = 0 THEN <<>>
                      ELSE IF list[i] \in hidden THEN F[i - 1]
                      ELSE Append(F[i - 1], list[i])]

LEMMA KeepsSomething ==
  ASSUME NEW list, NEW hidden, NEW n \in Nat
  PROVE  \E F : Keeps(F, list, hidden, n)
<1> DEFINE S == {j \in Nat : \E F : Keeps(F, list, hidden, j)}
<1>1. 0 \in S
  <2>1. Keeps([i \in 0..0 |-> <<>>], list, hidden, 0)
    BY DEF Keeps
  <2>2. QED
    BY <2>1
<1>2. ASSUME NEW j \in Nat, j \in S PROVE j + 1 \in S
  <2>1. PICK F : Keeps(F, list, hidden, j)
    BY <1>2
  <2> DEFINE next == IF list[j + 1] \in hidden THEN F[j] ELSE Append(F[j], list[j + 1])
             G == [i \in 0..(j + 1) |-> IF i = j + 1 THEN next ELSE F[i]]
  <2>2. \A i \in 0..j : F[i] = IF i = 0 THEN <<>> ELSE IF list[i] \in hidden THEN F[i - 1]
                                                      ELSE Append(F[i - 1], list[i])
    BY <2>1 DEF Keeps
  <2>3. \A i \in 0..(j + 1) : i # 0 => G[i - 1] = F[i - 1]
    OBVIOUS
  <2>4. \A i \in 0..(j + 1) : i # j + 1 => G[i] = F[i] /\ i \in 0..j
    OBVIOUS
  <2>5. G[j + 1] = next
    OBVIOUS
  <2> HIDE DEF next
  <2>6. ASSUME NEW i \in 0..(j + 1)
        PROVE  G[i] = IF i = 0 THEN <<>> ELSE IF list[i] \in hidden THEN G[i - 1] ELSE Append(G[i - 1], list[i])
    <3>1. CASE i = j + 1
      <4>1. i # 0 /\ G[i] = next /\ G[i - 1] = F[j]
        BY <2>3, <2>5, <3>1
      <4>2. QED
        BY <3>1, <4>1 DEF next
    <3>2. CASE i # j + 1
      BY <2>2, <2>3, <2>4, <3>2
    <3>3. QED
      BY <3>1, <3>2
  <2>7. Keeps(G, list, hidden, j + 1)
    BY <2>6 DEF Keeps
  <2>8. QED
    BY <2>7
<1> HIDE DEF S
<1>3. n \in S
  BY <1>1, <1>2, Induction
<1>4. QED
  BY <1>3 DEF S

\* Two of them agree where both are defined.
LEMMA KeepsTheSame ==
  ASSUME NEW list, NEW hidden, NEW n \in Nat, NEW m \in Nat, NEW F, NEW G,
         Keeps(F, list, hidden, n), Keeps(G, list, hidden, m), NEW k \in Nat, k <= n, k <= m
  PROVE  F[k] = G[k]
<1> DEFINE S == {j \in Nat : j <= n /\ j <= m => F[j] = G[j]}
<1>1. 0 \in S
  BY DEF Keeps
<1>2. ASSUME NEW j \in Nat, j \in S PROVE j + 1 \in S
  <2> SUFFICES ASSUME j + 1 <= n, j + 1 <= m PROVE F[j + 1] = G[j + 1]
    OBVIOUS
  <2>1. F[j] = G[j]
    BY <1>2
  <2>2. j + 1 \in 0..n /\ j + 1 \in 0..m /\ j + 1 # 0 /\ (j + 1) - 1 = j
    OBVIOUS
  <2>3. /\ F[j + 1] = IF list[j + 1] \in hidden THEN F[j] ELSE Append(F[j], list[j + 1])
        /\ G[j + 1] = IF list[j + 1] \in hidden THEN G[j] ELSE Append(G[j], list[j + 1])
    BY <2>2 DEF Keeps
  <2>4. QED
    BY <2>1, <2>3
<1> HIDE DEF S
<1>3. k \in S
  BY <1>1, <1>2, Induction
<1>4. QED
  BY <1>3 DEF S

\* And there is one for all numbers, which is what the filter goes through.
KeepsAll(F, list, hidden) ==
  F = [i \in Nat |-> IF i = 0 THEN <<>>
                     ELSE IF list[i] \in hidden THEN F[i - 1]
                     ELSE Append(F[i - 1], list[i])]

LEMMA KeepsToTheEnd ==
  ASSUME NEW list, NEW hidden
  PROVE  \E F : KeepsAll(F, list, hidden)
<1> DEFINE H(n) == CHOOSE F : Keeps(F, list, hidden, n)
           G == [i \in Nat |-> H(i)[i]]
<1>1. \A n \in Nat : Keeps(H(n), list, hidden, n)
  BY KeepsSomething
<1> HIDE DEF H
<1>2. ASSUME NEW i \in Nat
      PROVE  G[i] = IF i = 0 THEN <<>> ELSE IF list[i] \in hidden THEN G[i - 1] ELSE Append(G[i - 1], list[i])
  <2>1. H(i)[i] = IF i = 0 THEN <<>> ELSE IF list[i] \in hidden THEN H(i)[i - 1] ELSE Append(H(i)[i - 1], list[i])
    <3>1. i \in 0..i /\ Keeps(H(i), list, hidden, i)
      BY <1>1
    <3>2. QED
      BY <3>1 DEF Keeps
  <2>2. CASE i = 0
    BY <2>1, <2>2
  <2>3. CASE i # 0
    <3>1. i - 1 \in Nat /\ i - 1 <= i /\ i - 1 <= i - 1
      BY <2>3
    <3>2. H(i)[i - 1] = H(i - 1)[i - 1]
      BY <1>1, <3>1, KeepsTheSame
    <3>3. G[i] = H(i)[i] /\ G[i - 1] = H(i - 1)[i - 1]
      BY <3>1
    <3> HIDE DEF G
    <3>4. QED
      BY <2>1, <2>3, <3>2, <3>3
  <2>4. QED
    BY <2>2, <2>3
<1>3. KeepsAll(G, list, hidden)
  BY <1>2 DEF KeepsAll
<1>4. QED
  BY <1>3

\* v are the entries of the first n that are not hidden, in order: the k-th is
\* at the place q[k] of the list.
Picks(q, v, list, hidden, n) ==
  /\ Roll(v) /\ q \in [1..Len(v) -> 1..n]
  /\ \A k \in 1..Len(v) : v[k] = list[q[k]] /\ v[k] \notin hidden
  /\ \A k, l \in 1..Len(v) : k < l => q[k] < q[l]
  /\ \A i \in 1..n : list[i] \notin hidden => \E k \in 1..Len(v) : q[k] = i

\* One more entry is hidden, or is kept.
LEMMA PicksNext ==
  ASSUME NEW list, Roll(list), NEW hidden, NEW n \in Nat, n + 1 \in DOMAIN list,
         NEW v, NEW q, Picks(q, v, list, hidden, n),
         NEW w, w = IF list[n + 1] \in hidden THEN v ELSE Append(v, list[n + 1])
  PROVE  \E p : Picks(p, w, list, hidden, n + 1)
<1>1. /\ Len(v) \in Nat /\ Roll(v) /\ q \in [1..Len(v) -> 1..n]
      /\ \A k \in 1..Len(v) : v[k] = list[q[k]] /\ v[k] \notin hidden
      /\ \A k, l \in 1..Len(v) : k < l => q[k] < q[l]
      /\ \A i \in 1..n : list[i] \notin hidden => \E k \in 1..Len(v) : q[k] = i
  BY DEF Picks, Roll
<1>2. \A i \in 1..(n + 1) : i \in 1..n \/ i = n + 1
  OBVIOUS
<1>3. CASE list[n + 1] \in hidden
  <2>1. w = v
    BY <1>3
  <2>2. q \in [1..Len(v) -> 1..(n + 1)]
    BY <1>1
  <2>3. Picks(q, v, list, hidden, n + 1)
    BY <1>1, <1>2, <1>3, <2>2 DEF Picks
  <2>4. QED
    BY <2>1, <2>3
<1>4. CASE list[n + 1] \notin hidden
  <2> DEFINE m == Len(v)
             p == [k \in 1..(m + 1) |-> IF k = m + 1 THEN n + 1 ELSE q[k]]
  <2>1. list[n + 1] \in Combatants
    BY DEF Roll
  <2>2. /\ Roll(w) /\ Len(w) = m + 1 /\ w[m + 1] = list[n + 1]
        /\ \A k \in 1..m : w[k] = v[k]
    BY <1>1, <1>4, <2>1 DEF Roll
  <2>3. \A k \in 1..(m + 1) : k \in 1..m \/ k = m + 1
    BY <1>1
  <2>4. /\ p[m + 1] = n + 1 /\ \A k \in 1..m : p[k] = q[k] /\ q[k] \in 1..n
        /\ p \in [1..(m + 1) -> 1..(n + 1)]
    <3>1. m \in Nat /\ m + 1 \in 1..(m + 1) /\ \A k \in 1..m : k \in 1..(m + 1) /\ k # m + 1
      BY <1>1
    <3>2. \A k \in 1..m : q[k] \in 1..n /\ q[k] \in 1..(n + 1)
      BY <1>1
    <3>3. p[m + 1] = n + 1 /\ \A k \in 1..m : p[k] = q[k]
      BY <3>1
    <3>4. \A k \in 1..(m + 1) : p[k] \in 1..(n + 1)
      <4>1. n + 1 \in 1..(n + 1)
        OBVIOUS
      <4>2. QED
        BY <2>3, <3>2, <3>3, <4>1
    <3>5. p \in [1..(m + 1) -> 1..(n + 1)]
      BY <3>4
    <3>6. QED
      BY <3>2, <3>3, <3>5
  <2>5. m \in Nat /\ m + 1 \in 1..(m + 1) /\ \A k \in 1..m : k \in 1..(m + 1)
    BY <1>1
  <2> HIDE DEF p, m
  <2>6. \A k \in 1..(m + 1) : w[k] = list[p[k]] /\ w[k] \notin hidden
    BY <1>1, <1>4, <2>2, <2>3, <2>4 DEF m
  <2>7. ASSUME NEW k \in 1..(m + 1), NEW l \in 1..(m + 1), k < l PROVE p[k] < p[l]
    <3>1. k \in 1..m
      BY <2>3, <2>5, <2>7
    <3>2. CASE l = m + 1
      BY <2>4, <3>1, <3>2
    <3>3. CASE l \in 1..m
      BY <1>1, <2>4, <2>7, <3>1, <3>3 DEF m
    <3>4. QED
      BY <2>3, <3>2, <3>3
  <2>8. \A i \in 1..(n + 1) : list[i] \notin hidden => \E k \in 1..(m + 1) : p[k] = i
    BY <1>1, <1>2, <2>4, <2>5 DEF m
  <2>9. Picks(p, w, list, hidden, n + 1)
    BY <2>2, <2>4, <2>6, <2>7, <2>8 DEF Picks
  <2>10. QED
    BY <2>9
<1>5. QED
  BY <1>3, <1>4

\* filter() keeps the entries that are not hidden, all of them and in order.
LEMMA VisiblePicks ==
  ASSUME NEW list, Roll(list), NEW hidden
  PROVE  \E q : Picks(q, Visible(list, hidden), list, hidden, Len(list))
<1> DEFINE F == CHOOSE F : KeepsAll(F, list, hidden)
           S == {i \in Nat : i <= Len(list) => \E q : Picks(q, F[i], list, hidden, i)}
<1>1. Len(list) \in Nat /\ DOMAIN list = 1..Len(list)
  BY DEF Roll
<1>2. KeepsAll(F, list, hidden)
  BY KeepsToTheEnd
<1>3. Visible(list, hidden) = F[Len(list)]
  BY DEF Visible, KeepsAll
<1> HIDE DEF F
<1>4. \A i \in Nat : F[i] = IF i = 0 THEN <<>> ELSE IF list[i] \in hidden THEN F[i - 1]
                                                           ELSE Append(F[i - 1], list[i])
  BY <1>2 DEF KeepsAll
<1>5. 0 \in S
  <2>1. F[0] = <<>>
    BY <1>1, <1>4
  <2>2. Picks(<<>>, <<>>, list, hidden, 0)
    <3>1. Roll(<<>>) /\ Len(<<>>) = 0 /\ 1..0 = {}
      BY DEF Roll
    <3>2. <<>> \in [1..Len(<<>>) -> 1..0]
      BY <3>1
    <3>3. QED
      BY <3>1, <3>2 DEF Picks
  <2>3. QED
    BY <2>1, <2>2
<1>6. ASSUME NEW i \in Nat, i \in S PROVE i + 1 \in S
  <2> SUFFICES ASSUME i + 1 <= Len(list) PROVE \E p : Picks(p, F[i + 1], list, hidden, i + 1)
    OBVIOUS
  <2>1. PICK q : Picks(q, F[i], list, hidden, i)
    BY <1>1, <1>6
  <2>2. i + 1 \in Nat /\ i + 1 # 0 /\ (i + 1) - 1 = i /\ i + 1 \in DOMAIN list
    BY <1>1
  <2>3. F[i + 1] = IF list[i + 1] \in hidden THEN F[i] ELSE Append(F[i], list[i + 1])
    BY <1>4, <2>2
  <2>4. QED
    BY <2>1, <2>2, <2>3, PicksNext
<1> HIDE DEF S
<1>7. Len(list) \in S
  BY <1>1, <1>5, <1>6, Induction
<1>8. QED
  BY <1>1, <1>3, <1>7 DEF S

----------------------------------------------------------------------------
(* What is shown of a combat.                                              *)

\* The k-th combatant shown is the one at place p[k] of the document's list.
Shows(p, v, list, hidden) ==
  /\ Roll(v) /\ p \in [1..Len(v) -> DOMAIN list]
  /\ \A k \in 1..Len(v) : v[k] = list[p[k]] /\ v[k] \notin hidden
  /\ \A k, l \in 1..Len(v) : k < l => Precedes(list, p[k], p[l])
  /\ \A i \in DOMAIN list : list[i] \notin hidden => \E k \in 1..Len(v) : p[k] = i

LEMMA ShownPicks ==
  ASSUME NEW m, Roll(m.list)
  PROVE  \E p : Shows(p, Shown(m), m.list, m.hidden)
<1> DEFINE list == m.list  s == Sorted(list)  v == Shown(m)
<1>1. /\ Roll(s) /\ Len(s) = Len(list) /\ DOMAIN list = 1..Len(list) /\ DOMAIN s = 1..Len(list)
      /\ \A k \in 1..Len(list) : Place(list, k) \in 1..Len(list) /\ s[k] = list[Place(list, k)]
      /\ \A i \in 1..Len(list) : \E k \in 1..Len(list) : Place(list, k) = i
      /\ \A k, l \in 1..Len(list) : k < l => Precedes(list, Place(list, k), Place(list, l))
  <2>1. DOMAIN list = 1..Len(list)
    BY DEF Roll
  <2>2. QED
    BY <2>1, SortedPermutes
<1>2. PICK q : Picks(q, v, s, m.hidden, Len(s))
  BY <1>1, VisiblePicks DEF Shown
<1> HIDE DEF list, s, v
<1>3. /\ Roll(v) /\ q \in [1..Len(v) -> 1..Len(list)]
      /\ \A k \in 1..Len(v) : v[k] = s[q[k]] /\ v[k] \notin m.hidden
      /\ \A k, l \in 1..Len(v) : k < l => q[k] < q[l]
      /\ \A i \in 1..Len(list) : s[i] \notin m.hidden => \E k \in 1..Len(v) : q[k] = i
  BY <1>1, <1>2 DEF Picks
<1> DEFINE p == [k \in 1..Len(v) |-> Place(list, q[k])]
<1>4. p \in [1..Len(v) -> DOMAIN list]
  BY <1>1, <1>3
<1>5. \A k \in 1..Len(v) : p[k] = Place(list, q[k]) /\ q[k] \in 1..Len(list)
  BY <1>3
<1> HIDE DEF p
<1>6. \A k \in 1..Len(v) : v[k] = list[p[k]] /\ v[k] \notin m.hidden
  BY <1>1, <1>3, <1>5
<1>7. ASSUME NEW k \in 1..Len(v), NEW l \in 1..Len(v), k < l PROVE Precedes(list, p[k], p[l])
  <2>1. q[k] < q[l] /\ q[k] \in 1..Len(list) /\ q[l] \in 1..Len(list)
    BY <1>3, <1>7
  <2>2. QED
    BY <1>1, <1>5, <2>1
<1>8. ASSUME NEW i \in DOMAIN list, list[i] \notin m.hidden PROVE \E k \in 1..Len(v) : p[k] = i
  <2>1. PICK j \in 1..Len(list) : Place(list, j) = i
    BY <1>1
  <2>2. PICK k \in 1..Len(v) : q[k] = j
    BY <1>1, <1>3, <1>8, <2>1
  <2>3. QED
    BY <1>5, <2>1, <2>2
<1>9. Shows(p, v, list, m.hidden)
  BY <1>3, <1>4, <1>6, <1>7, <1>8 DEF Shows
<1>10. QED
  BY <1>9 DEF list, v

\* The combatants shown are those that are not hidden.
LEMMA ShownEntries ==
  ASSUME NEW m, Roll(m.list)
  PROVE  /\ Roll(Shown(m))
         /\ Entries(Shown(m)) = Entries(m.list) \ m.hidden
<1> DEFINE v == Shown(m)
<1>1. PICK p : Shows(p, v, m.list, m.hidden)
  BY ShownPicks
<1> HIDE DEF v
<1>2. /\ Roll(v) /\ p \in [1..Len(v) -> DOMAIN m.list] /\ DOMAIN v = 1..Len(v)
      /\ \A k \in 1..Len(v) : v[k] = m.list[p[k]] /\ v[k] \notin m.hidden
      /\ \A i \in DOMAIN m.list : m.list[i] \notin m.hidden => \E k \in 1..Len(v) : p[k] = i
  BY <1>1 DEF Shows, Roll
<1>3. Entries(v) \subseteq Entries(m.list) \ m.hidden
  BY <1>2 DEF Entries
<1>4. Entries(m.list) \ m.hidden \subseteq Entries(v)
  <2>1. ASSUME NEW i \in DOMAIN m.list, m.list[i] \notin m.hidden PROVE m.list[i] \in Entries(v)
    <3>1. PICK k \in 1..Len(v) : p[k] = i
      BY <1>2, <2>1
    <3>2. m.list[i] = v[k] /\ k \in DOMAIN v
      BY <1>2, <3>1
    <3>3. QED
      BY <3>2 DEF Entries
  <2>2. QED
    BY <2>1 DEF Entries
<1>5. QED
  BY <1>2, <1>3, <1>4 DEF v
=============================================================================
