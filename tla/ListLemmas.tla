----------------------------- MODULE ListLemmas -----------------------------
(***************************************************************************)
(* Facts about lists that the proofs of the screens need: sorted lists of  *)
(* a finite set exist, lists defined by recursion on their length have     *)
(* their type, and what a queue's operations do to its places.             *)
(*                                                                         *)
(* The library's induction theorems take an operator; here induction is by *)
(* the least element of a set of numbers (Least).                          *)
(***************************************************************************)
EXTENDS Integers, Sequences, FiniteSets, FiniteSetTheorems, WellFoundedInduction, TLAPS

(* A set of natural numbers that is not empty has a least element.         *)
LEMMA LeastNumber ==
    ASSUME NEW S \in SUBSET Nat, S # {}
    PROVE  \E n \in S : \A m \in S : n <= m
<1>1. PICK n \in S : \A m \in S : <<m, n>> \notin OpToRel(<, Nat)
  BY NatLessThanWellFounded, WFMin
<1>2. \A m \in S : ~(m < n)
  BY <1>1 DEF OpToRel
<1> QED
  BY <1>2

(* What holds of 0, and of a number if it holds of the one before, holds   *)
(* of all numbers up to n.                                                 *)
LEMMA UpToN ==
    ASSUME NEW n \in Nat, NEW S,
           0 \in S, \A i \in 1 .. n : i - 1 \in S => i \in S
    PROVE  0 .. n \subseteq S
<1> DEFINE Out == {i \in 0 .. n : i \notin S}
<1>1. SUFFICES ASSUME Out # {} PROVE FALSE
  OBVIOUS
<1>2. PICK i \in Out : \A j \in Out : i <= j
  <2>1. Out \in SUBSET Nat
    OBVIOUS
  <2> HIDE DEF Out
  <2> QED
    BY <1>1, <2>1, LeastNumber
<1>3. i \in 0 .. n /\ i \notin S /\ i # 0
  OBVIOUS
<1>4. i \in 1 .. n /\ i - 1 \in 0 .. n /\ i - 1 < i
  BY <1>3
<1>5. i - 1 \notin Out
  BY <1>2, <1>4
<1> QED
  BY <1>3, <1>4, <1>5

-----------------------------------------------------------------------------
(* Recursion on the natural numbers up to n.                               *)

(* g starts with b and goes on by F up to n.                               *)
Follows(g, n, V, b, F) ==
    /\ g \in [0 .. n -> V] /\ g[0] = b
    /\ \A i \in 1 .. n : g[i] = F[<<g[i - 1], i>>]

LEMMA RecursionExists ==
    ASSUME NEW n \in Nat, NEW V, NEW b \in V, NEW F \in [V \X (1 .. n) -> V]
    PROVE  \E g : Follows(g, n, V, b, F)
<1> DEFINE Done == {m \in 0 .. n : \E g : Follows(g, m, V, b, F)}
<1>1. 0 \in Done
  <2> DEFINE g == [i \in 0 .. 0 |-> b]
  <2>1. Follows(g, 0, V, b, F)
    BY DEF Follows
  <2>2. \E f : Follows(f, 0, V, b, F)
    BY <2>1
  <2>3. 0 \in 0 .. n
    OBVIOUS
  <2> QED
    BY <2>2, <2>3
<1>2. ASSUME NEW m \in 1 .. n, m - 1 \in Done PROVE m \in Done
  <2>1. PICK g : Follows(g, m - 1, V, b, F)
    BY <1>2
  <2> USE <2>1 DEF Follows
  <2> DEFINE h == [i \in 0 .. m |-> IF i = m THEN F[<<g[m - 1], m>>] ELSE g[i]]
  <2>2. h \in [0 .. m -> V]
    <3>1. F[<<g[m - 1], m>>] \in V
      OBVIOUS
    <3>2. \A i \in 0 .. m : i # m => i \in 0 .. m - 1
      OBVIOUS
    <3> QED
      BY <3>1, <3>2
  <2>3. h[0] = b
    <3>1. g[0] = b /\ 0 # m /\ 0 \in 0 .. m
      BY <2>1
    <3> QED
      BY <3>1
  <2>4. ASSUME NEW i \in 1 .. m PROVE h[i] = F[<<h[i - 1], i>>]
    <3>1. i - 1 \in 0 .. m - 1 /\ h[i - 1] = g[i - 1]
      OBVIOUS
    <3>2. CASE i = m
      <4>1. h[m] = F[<<g[m - 1], m>>]
        OBVIOUS
      <4> QED
        BY <3>1, <3>2, <4>1
    <3>3. CASE i # m
      <4>1. i \in 1 .. m - 1 /\ h[i] = g[i]
        BY <3>3
      <4> QED
        BY <2>1, <3>1, <4>1
    <3> QED
      BY <3>2, <3>3
  <2>5. Follows(h, m, V, b, F)
    BY <2>2, <2>3, <2>4
  <2> HIDE DEF h, Follows
  <2> QED
    BY <2>5
<1> HIDE DEF Done
<1>3. 0 .. n \subseteq Done
  BY <1>1, <1>2, UpToN
<1>4. n \in Done
  BY <1>3
<1> QED
  BY <1>4 DEF Done

-----------------------------------------------------------------------------
(* Sorted lists.                                                           *)

(* R is a strict total order of S.                                         *)
StrictOrder(R, S) ==
    /\ \A x \in S : <<x, x>> \notin R
    /\ \A x, y, z \in S : <<x, y>> \in R /\ <<y, z>> \in R => <<x, z>> \in R
    /\ \A x, y \in S : x = y \/ <<x, y>> \in R \/ <<y, x>> \in R

(* A list of as many members of S as there are, in ascending order.        *)
Ascends(list, S, R) ==
    /\ list \in [1 .. Cardinality(S) -> S]
    /\ \A i, j \in 1 .. Cardinality(S) : i < j => <<list[i], list[j]>> \in R

(* Every member stands at the place that its smaller ones leave to it.     *)
LEMMA SortedExists ==
    ASSUME NEW S, IsFiniteSet(S), NEW R, StrictOrder(R, S)
    PROVE  \E list : Ascends(list, S, R)
<1> DEFINE n == Cardinality(S)
           Below(x) == {y \in S : <<y, x>> \in R}
           rank == [x \in S |-> Cardinality(Below(x)) + 1]
<1>1. n \in Nat
  BY FS_CardinalityType
<1>2. \A x \in S : IsFiniteSet(Below(x)) /\ Cardinality(Below(x)) \in Nat
  BY FS_Subset, FS_CardinalityType
<1>3. ASSUME NEW x \in S, NEW y \in S, <<x, y>> \in R PROVE rank[x] < rank[y]
  <2>1. Below(x) \cup {x} \in SUBSET Below(y) /\ x \notin Below(x)
    BY <1>3 DEF StrictOrder
  <2>2. Cardinality(Below(x) \cup {x}) = Cardinality(Below(x)) + 1
    BY <1>2, <2>1, FS_AddElement
  <2>3. Cardinality(Below(x) \cup {x}) <= Cardinality(Below(y))
    BY <1>2, <2>1, FS_Subset
  <2> HIDE DEF Below
  <2> QED
    BY <1>2, <2>2, <2>3
<1>4. ASSUME NEW x \in S PROVE rank[x] \in 1 .. n
  <2>1. Below(x) \cup {x} \in SUBSET S /\ x \notin Below(x)
    BY DEF StrictOrder
  <2>2. Cardinality(Below(x) \cup {x}) = Cardinality(Below(x)) + 1
    BY <1>2, <2>1, FS_AddElement
  <2>3. Cardinality(Below(x) \cup {x}) <= n
    BY <2>1, FS_Subset
  <2> HIDE DEF Below, n
  <2> QED
    BY <1>1, <1>2, <2>2, <2>3
<1>5. rank \in Injection(S, 1 .. n)
  <2>1. rank \in [S -> 1 .. n]
    BY <1>4
  <2>2. ASSUME NEW x \in S, NEW y \in S, rank[x] = rank[y] PROVE x = y
    <3>1. rank[x] \in Int /\ ~(rank[x] < rank[y]) /\ ~(rank[y] < rank[x])
      BY <1>4, <2>2
    <3> HIDE DEF rank
    <3> QED
      BY <1>3, <3>1 DEF StrictOrder
  <2> HIDE DEF rank
  <2> QED
    BY <2>1, <2>2 DEF Injection, IsInjective
<1>6. rank \in Surjection(S, 1 .. n)
  <2>1. IsFiniteSet(1 .. n) /\ Cardinality(1 .. n) = n
    BY <1>1, FS_Interval
  <2> HIDE DEF rank
  <2> QED
    BY <1>5, <2>1, FS_Injection
<1> DEFINE list == [k \in 1 .. n |-> CHOOSE x \in S : rank[x] = k]
<1>7. ASSUME NEW k \in 1 .. n PROVE list[k] \in S /\ rank[list[k]] = k
  <2>1. \E x \in S : rank[x] = k
    BY <1>6 DEF Surjection
  <2> HIDE DEF rank
  <2> QED
    BY <2>1
<1>8. ASSUME NEW i \in 1 .. n, NEW j \in 1 .. n, i < j PROVE <<list[i], list[j]>> \in R
  <2>1. list[i] \in S /\ list[j] \in S /\ rank[list[i]] = i /\ rank[list[j]] = j
    BY <1>7
  <2> HIDE DEF rank, list
  <2>2. ~(rank[list[j]] < rank[list[i]]) /\ list[i] # list[j]
    BY <1>8, <2>1
  <2> QED
    BY <1>3, <2>1, <2>2 DEF StrictOrder
<1>9. list \in [1 .. n -> S]
  BY <1>7
<1> HIDE DEF list
<1> QED
  BY <1>8, <1>9 DEF Ascends

(* Nothing is missing in it, and nothing is in it twice.                   *)
LEMMA SortedCovers ==
    ASSUME NEW S, IsFiniteSet(S), NEW R, StrictOrder(R, S), NEW list, Ascends(list, S, R)
    PROVE  /\ Cardinality(S) \in Nat
           /\ list \in Seq(S) /\ Len(list) = Cardinality(S)
           /\ \A x \in S : \E i \in 1 .. Len(list) : list[i] = x
           /\ \A i, j \in 1 .. Len(list) : list[i] = list[j] => i = j
<1>1. Cardinality(S) \in Nat
  BY FS_CardinalityType
<1>2. list \in Seq(S) /\ Len(list) = Cardinality(S)
  BY <1>1 DEF Ascends
<1>3. ASSUME NEW i \in 1 .. Len(list), NEW j \in 1 .. Len(list), list[i] = list[j] PROVE i = j
  <2>1. ~(i < j) /\ ~(j < i)
    BY <1>2, <1>3 DEF Ascends, StrictOrder
  <2> QED
    BY <1>1, <1>2, <2>1
<1>4. list \in Injection(1 .. Len(list), S)
  BY <1>2, <1>3 DEF Injection, IsInjective, Ascends
<1>5. Cardinality(1 .. Len(list)) = Cardinality(S)
  BY <1>1, <1>2, FS_Interval
<1>6. list \in Surjection(1 .. Len(list), S)
  BY <1>4, <1>5, FS_Injection
<1> QED
  BY <1>1, <1>2, <1>3, <1>6 DEF Surjection

(* A finite set of integers that is not empty has a least member and a     *)
(* greatest one.                                                           *)
LEMMA Extremes ==
    ASSUME NEW S \in SUBSET Int, IsFiniteSet(S), S # {}
    PROVE  (\E x \in S : \A y \in S : x <= y) /\ (\E x \in S : \A y \in S : x >= y)
<1> DEFINE R == {p \in S \X S : p[1] < p[2]}
<1>1. \A x, y \in S : <<x, y>> \in R <=> x < y
  OBVIOUS
<1> HIDE DEF R
<1>2. StrictOrder(R, S)
  BY <1>1 DEF StrictOrder
<1>3. PICK list : Ascends(list, S, R)
  BY <1>2, SortedExists
<1>4. /\ Len(list) \in Nat /\ \A i \in 1 .. Len(list) : list[i] \in S
      /\ Len(list) = Cardinality(S)
      /\ \A x \in S : \E i \in 1 .. Len(list) : list[i] = x
  BY <1>2, <1>3, SortedCovers
<1>5. \A i, j \in 1 .. Len(list) : i < j => list[i] < list[j]
  BY <1>1, <1>3, <1>4 DEF Ascends
<1>6. 1 \in 1 .. Len(list) /\ Len(list) \in 1 .. Len(list)
  <2>1. PICK i \in 1 .. Len(list) : TRUE
    BY <1>4
  <2> QED
    BY <1>4, <2>1
<1>7. \A i \in 1 .. Len(list) : list[1] <= list[i] /\ list[i] <= list[Len(list)]
  <2> TAKE i \in 1 .. Len(list)
  <2>1. list[1] \in Int /\ list[i] \in Int /\ list[Len(list)] \in Int
    BY <1>4, <1>6
  <2>2. i = 1 \/ list[1] < list[i]
    BY <1>4, <1>5, <1>6
  <2>3. i = Len(list) \/ list[i] < list[Len(list)]
    BY <1>4, <1>5, <1>6
  <2> QED
    BY <2>1, <2>2, <2>3
<1>8. \A y \in S : list[1] <= y /\ list[Len(list)] >= y
  BY <1>4, <1>6, <1>7
<1> QED
  BY <1>4, <1>6, <1>8

-----------------------------------------------------------------------------
(* Queues.                                                                 *)

LEMMA TailFacts ==
    ASSUME NEW B, NEW s \in Seq(B), s # <<>>
    PROVE  /\ Head(s) = s[1] /\ s[1] \in B /\ 1 \in 1 .. Len(s)
           /\ Tail(s) \in Seq(B) /\ Len(Tail(s)) = Len(s) - 1
           /\ \A i \in 1 .. Len(Tail(s)) : i + 1 \in 1 .. Len(s) /\ Tail(s)[i] = s[i + 1]
           /\ \A i \in 1 .. Len(s) :
                  i = 1 \/ (i > 1 /\ i - 1 \in 1 .. Len(Tail(s)) /\ Tail(s)[i - 1] = s[i])
<1>1. Len(s) \in Nat /\ Len(s) >= 1 /\ Head(s) = s[1]
  OBVIOUS
<1>2. Tail(s) \in Seq(B) /\ Len(Tail(s)) = Len(s) - 1
  OBVIOUS
<1>3. \A i \in 1 .. Len(s) - 1 : Tail(s)[i] = s[i + 1]
  OBVIOUS
<1>4. ASSUME NEW i \in 1 .. Len(s), i # 1
      PROVE  i > 1 /\ i - 1 \in 1 .. Len(Tail(s)) /\ Tail(s)[i - 1] = s[i]
  <2>1. i > 1 /\ i - 1 \in 1 .. Len(s) - 1 /\ (i - 1) + 1 = i
    BY <1>1, <1>4
  <2> QED
    BY <1>2, <1>3, <2>1
<1>5. s[1] \in B
  BY <1>1
<1> QED
  BY <1>1, <1>2, <1>3, <1>4, <1>5

LEMMA AppendFacts ==
    ASSUME NEW B, NEW s \in Seq(B), NEW b \in B
    PROVE  /\ Append(s, b) \in Seq(B) /\ Len(Append(s, b)) = Len(s) + 1
           /\ \A i \in 1 .. Len(s) : i \in 1 .. Len(Append(s, b)) /\ Append(s, b)[i] = s[i]
           /\ Append(s, b)[Len(s) + 1] = b /\ Len(s) + 1 \in 1 .. Len(Append(s, b))
           /\ \A i \in 1 .. Len(Append(s, b)) :
                  i \in 1 .. Len(s) \/ (i = Len(s) + 1 /\ Append(s, b)[i] = b)
OBVIOUS

(* Does a block of one of the kinds wait?                                  *)
Has(s, kinds) == \E i \in 1 .. Len(s) : s[i].what \in kinds

LEMMA HasTail ==
    ASSUME NEW B, NEW s \in Seq(B), s # <<>>, NEW kinds
    PROVE  Has(s, kinds) <=> Head(s).what \in kinds \/ Has(Tail(s), kinds)
<1>1. ASSUME NEW i \in 1 .. Len(s), s[i].what \in kinds
      PROVE  Head(s).what \in kinds \/ Has(Tail(s), kinds)
  BY <1>1, TailFacts DEF Has
<1>2. ASSUME NEW i \in 1 .. Len(Tail(s)), Tail(s)[i].what \in kinds PROVE Has(s, kinds)
  BY <1>2, TailFacts DEF Has
<1>3. Head(s).what \in kinds => Has(s, kinds)
  BY TailFacts DEF Has
<1> QED
  BY <1>1, <1>2, <1>3 DEF Has

LEMMA HasAppend ==
    ASSUME NEW B, NEW s \in Seq(B), NEW b \in B, NEW kinds
    PROVE  Has(Append(s, b), kinds) <=> Has(s, kinds) \/ b.what \in kinds
<1>1. ASSUME NEW i \in 1 .. Len(Append(s, b)), Append(s, b)[i].what \in kinds
      PROVE  Has(s, kinds) \/ b.what \in kinds
  BY <1>1, AppendFacts DEF Has
<1>2. ASSUME NEW i \in 1 .. Len(s), s[i].what \in kinds PROVE Has(Append(s, b), kinds)
  BY <1>2, AppendFacts DEF Has
<1>3. b.what \in kinds => Has(Append(s, b), kinds)
  BY AppendFacts DEF Has
<1> QED
  BY <1>1, <1>2, <1>3 DEF Has
-----------------------------------------------------------------------------
(* Sums over a finite set: g[s] is the sum of f over the subset s of S,    *)
(* taken one by one as CHOOSE does.                                        *)
First(s) == CHOOSE x \in s : TRUE

Sums(g, S, f) ==
    /\ g \in [SUBSET S -> Int] /\ g[{}] = 0
    /\ \A s \in SUBSET S : s # {} => g[s] = f[First(s)] + g[s \ {First(s)}]

LEMMA WithoutFirst ==
    ASSUME NEW s, IsFiniteSet(s), s # {}, NEW x \in s
    PROVE  /\ First(s) \in s /\ Cardinality(s) \in Nat \ {0}
           /\ IsFiniteSet(s \ {x}) /\ Cardinality(s \ {x}) = Cardinality(s) - 1
<1>1. First(s) \in s
  BY DEF First
<1>2. Cardinality(s) \in Nat /\ Cardinality(s) # 0
  BY FS_CardinalityType, FS_EmptySet
<1>3. IsFiniteSet(s \ {x}) /\ Cardinality(s \ {x}) = Cardinality(s) - 1
  BY FS_RemoveElement
<1> QED
  BY <1>1, <1>2, <1>3

(* What holds of the empty set, and of a set if it holds of all with one   *)
(* element less, holds of every subset of S.                               *)
LEMMA SetInduction ==
    ASSUME NEW S, IsFiniteSet(S), NEW G, {} \in G,
           \A s \in SUBSET S : s # {} /\ (\A x \in s : s \ {x} \in G) => s \in G
    PROVE  SUBSET S \subseteq G
<1> DEFINE n == Cardinality(S)
           Good == {m \in 0 .. n : \A s \in SUBSET S : Cardinality(s) = m => s \in G}
<1>1. n \in Nat
  BY FS_CardinalityType
<1>2. \A s \in SUBSET S : IsFiniteSet(s) /\ Cardinality(s) \in 0 .. n
  BY <1>1, FS_Subset, FS_CardinalityType
<1>3. 0 \in Good
  <2>1. \A s \in SUBSET S : Cardinality(s) = 0 => s = {}
    BY <1>2, FS_EmptySet
  <2>2. \A s \in SUBSET S : Cardinality(s) = 0 => s \in G
    BY <2>1
  <2>3. 0 \in 0 .. n
    BY <1>1
  <2> QED
    BY <2>2, <2>3
<1>4. ASSUME NEW m \in 1 .. n, m - 1 \in Good PROVE m \in Good
  <2>1. SUFFICES ASSUME NEW s \in SUBSET S, Cardinality(s) = m PROVE s \in G
    BY <1>1
  <2>2. IsFiniteSet(s) /\ s # {}
    <3>1. IsFiniteSet(s)
      BY <1>2
    <3>2. m # 0
      BY <1>1
    <3> QED
      BY <3>1, <3>2, <2>1, FS_EmptySet
  <2>3. ASSUME NEW x \in s PROVE s \ {x} \in G
    <3>1. Cardinality(s \ {x}) = m - 1
      BY <2>1, <2>2, WithoutFirst
    <3>2. s \ {x} \in SUBSET S
      OBVIOUS
    <3> QED
      BY <1>4, <3>1, <3>2
  <2> QED
    BY <2>2, <2>3
<1> HIDE DEF Good
<1>5. 0 .. n \subseteq Good
  BY <1>1, <1>3, <1>4, UpToN
<1> QED
  BY <1>2, <1>5 DEF Good

(* There is such a function.                                               *)
SumsTo(g, S, f, T) ==
    /\ g \in [T -> Int] /\ {} \in T /\ g[{}] = 0
    /\ \A s \in T : s # {} => s \ {First(s)} \in T /\ g[s] = f[First(s)] + g[s \ {First(s)}]

LEMMA SumsExist ==
    ASSUME NEW S, IsFiniteSet(S), NEW f \in [S -> Int]
    PROVE  \E g : Sums(g, S, f)
<1> DEFINE n == Cardinality(S)
           Small(m) == {s \in SUBSET S : Cardinality(s) <= m}
           Good == {m \in 0 .. n : \E g : SumsTo(g, S, f, Small(m))}
<1>1. n \in Nat
  BY FS_CardinalityType
<1>2. \A s \in SUBSET S : IsFiniteSet(s) /\ Cardinality(s) \in 0 .. n
  BY <1>1, FS_Subset, FS_CardinalityType
<1>3. Cardinality({}) = 0 /\ {} \in SUBSET S
  BY FS_EmptySet
<1>4. 0 \in Good
  <2> DEFINE g == [s \in Small(0) |-> 0]
  <2>1. \A s \in Small(0) : s = {}
    BY <1>2, FS_EmptySet
  <2>2. {} \in Small(0)
    BY <1>3
  <2>3. SumsTo(g, S, f, Small(0))
    BY <2>1, <2>2 DEF SumsTo
  <2> HIDE DEF g
  <2>4. \E k : SumsTo(k, S, f, Small(0))
    BY <2>3
  <2>5. 0 \in 0 .. n
    BY <1>1
  <2> QED
    BY <2>4, <2>5
<1>5. ASSUME NEW m \in 1 .. n, m - 1 \in Good PROVE m \in Good
  <2>1. PICK g : SumsTo(g, S, f, Small(m - 1))
    BY <1>5
  <2> DEFINE h == [s \in Small(m) |-> IF s = {} THEN 0
                                      ELSE f[First(s)] + g[s \ {First(s)}]]
  <2>2. ASSUME NEW s \in Small(m), s # {}
        PROVE  /\ First(s) \in S /\ s \ {First(s)} \in Small(m - 1)
               /\ s \ {First(s)} \in Small(m)
    <3>1. s \in SUBSET S /\ IsFiniteSet(s) /\ Cardinality(s) <= m
      BY <1>2
    <3>2. First(s) \in s
      BY <2>2 DEF First
    <3>3. Cardinality(s) \in Nat /\ Cardinality(s \ {First(s)}) = Cardinality(s) - 1
      BY <2>2, <3>1, <3>2, WithoutFirst
    <3> QED
      BY <1>1, <3>1, <3>2, <3>3
  <2>3. \A s \in Small(m - 1) : s \in Small(m)
    BY <1>1, <1>2
  <2>4. {} \in Small(m) /\ {} \in Small(m - 1)
    BY <1>1, <1>3
  <2> HIDE DEF Small
  <2>5. h \in [Small(m) -> Int]
    BY <2>1, <2>2 DEF SumsTo
  <2>6. \A s \in Small(m - 1) : h[s] = g[s]
    BY <2>1, <2>3 DEF SumsTo
  <2>7. SumsTo(h, S, f, Small(m))
    <3>1. h[{}] = 0
      BY <2>4
    <3>2. ASSUME NEW s \in Small(m), s # {}
          PROVE  s \ {First(s)} \in Small(m) /\ h[s] = f[First(s)] + h[s \ {First(s)}]
      <4>1. h[s] = f[First(s)] + g[s \ {First(s)}]
        BY <3>2
      <4> HIDE DEF h
      <4> QED
        BY <2>2, <2>6, <3>2, <4>1
    <3> HIDE DEF h
    <3> QED
      BY <2>4, <2>5, <3>1, <3>2 DEF SumsTo
  <2> HIDE DEF h
  <2>8. \E k : SumsTo(k, S, f, Small(m))
    BY <2>7
  <2>9. m \in 0 .. n
    BY <1>1
  <2> QED
    BY <2>8, <2>9
<1> HIDE DEF Good
<1>6. n \in Good
  <2>1. 0 .. n \subseteq Good
    BY <1>1, <1>4, <1>5, UpToN
  <2> QED
    BY <1>1, <2>1
<1>7. PICK g : SumsTo(g, S, f, Small(n))
  BY <1>6 DEF Good
<1>8. Small(n) = SUBSET S
  BY <1>1, <1>2
<1>9. Sums(g, S, f)
  BY <1>7, <1>8 DEF SumsTo, Sums
<1> QED
  BY <1>9

(* The order does not matter.                                              *)
LEMMA SumsAnyOrder ==
    ASSUME NEW S, IsFiniteSet(S), NEW f \in [S -> Int], NEW g, Sums(g, S, f),
           NEW t \in SUBSET S, NEW y \in t
    PROVE  g[t] = f[y] + g[t \ {y}]
<1> DEFINE G == {s \in SUBSET S : \A x \in s : g[s] = f[x] + g[s \ {x}]}
<1>1. {} \in G
  OBVIOUS
<1>2. ASSUME NEW s \in SUBSET S, s # {}, \A x \in s : s \ {x} \in G
      PROVE  s \in G
  <2>1. SUFFICES ASSUME NEW x \in s PROVE g[s] = f[x] + g[s \ {x}]
    OBVIOUS
  <2>2. PICK p \in s : g[s] = f[p] + g[s \ {p}]
    <3>1. First(s) \in s
      BY <1>2 DEF First
    <3> QED
      BY <1>2, <3>1 DEF Sums
  <2>3. CASE x = p
    BY <2>2, <2>3
  <2>4. CASE x # p
    <3> DEFINE r == (s \ {p}) \ {x}
    <3>1. g[s \ {p}] = f[x] + g[r]
      BY <1>2, <2>4
    <3>2. g[s \ {x}] = f[p] + g[(s \ {x}) \ {p}]
      BY <1>2, <2>4
    <3>3. r = (s \ {x}) \ {p} /\ r \in SUBSET S
      OBVIOUS
    <3> HIDE DEF r
    <3>4. f[x] \in Int /\ f[p] \in Int /\ g[r] \in Int
      BY <3>3 DEF Sums
    <3>5. g[s \ {x}] = f[p] + g[r]
      BY <3>2, <3>3
    <3>6. g[s] = f[p] + (f[x] + g[r])
      BY <2>2, <3>1
    <3> QED
      BY <3>4, <3>5, <3>6
  <2> QED
    BY <2>3, <2>4
<1> HIDE DEF G
<1>3. SUBSET S \subseteq G
  BY <1>1, <1>2, SetInduction
<1> QED
  BY <1>3 DEF G

(* Two functions that agree on a set have the same sum over it.            *)
LEMMA SumsAgree ==
    ASSUME NEW S, IsFiniteSet(S), NEW f \in [S -> Int], NEW e \in [S -> Int],
           NEW g, Sums(g, S, f), NEW h, Sums(h, S, e),
           NEW t \in SUBSET S, \A x \in t : f[x] = e[x]
    PROVE  g[t] = h[t]
<1> DEFINE G == {s \in SUBSET S : s \subseteq t => g[s] = h[s]}
<1>1. {} \in G
  BY DEF Sums
<1>2. ASSUME NEW s \in SUBSET S, s # {}, \A x \in s : s \ {x} \in G
      PROVE  s \in G
  <2>1. First(s) \in s
    BY <1>2 DEF First
  <2>2. /\ g[s] = f[First(s)] + g[s \ {First(s)}]
        /\ h[s] = e[First(s)] + h[s \ {First(s)}]
    BY <1>2 DEF Sums
  <2>3. s \subseteq t => g[s \ {First(s)}] = h[s \ {First(s)}]
    BY <1>2, <2>1
  <2>4. s \subseteq t => f[First(s)] = e[First(s)]
    BY <2>1
  <2> QED
    BY <2>2, <2>3, <2>4
<1> HIDE DEF G
<1>3. SUBSET S \subseteq G
  BY <1>1, <1>2, SetInduction
<1> QED
  BY <1>3 DEF G

(* Two elements may be taken first.                                        *)
LEMMA SumsTwo ==
    ASSUME NEW S, IsFiniteSet(S), NEW f \in [S -> Int], NEW g, Sums(g, S, f),
           NEW a \in S, NEW b \in S \ {a}
    PROVE  /\ g[S] = f[a] + (f[b] + g[(S \ {a}) \ {b}])
           /\ g[(S \ {a}) \ {b}] \in Int
<1>1. g[S] = f[a] + g[S \ {a}]
  BY SumsAnyOrder
<1>2. g[S \ {a}] = f[b] + g[(S \ {a}) \ {b}]
  BY SumsAnyOrder
<1>3. (S \ {a}) \ {b} \in SUBSET S
  OBVIOUS
<1> QED
  BY <1>1, <1>2, <1>3 DEF Sums

(* e is f with n moved from a to b.                                        *)
Moves(f, e, S, a, b, n) ==
    /\ f \in [S -> Int] /\ e \in [S -> Int]
    /\ a \in S /\ b \in S /\ a # b /\ n \in Int
    /\ e[a] = f[a] - n /\ e[b] = f[b] + n
    /\ \A x \in S \ {a, b} : e[x] = f[x]

(* The sum stays the same then ...                                         *)
LEMMA SumsMove ==
    ASSUME NEW S, IsFiniteSet(S), NEW f, NEW e, NEW a, NEW b, NEW n,
           Moves(f, e, S, a, b, n), NEW g, Sums(g, S, f), NEW h, Sums(h, S, e)
    PROVE  g[S] = h[S]
<1> USE DEF Moves
<1> DEFINE rest == (S \ {a}) \ {b}
<1>0. f \in [S -> Int] /\ e \in [S -> Int] /\ a \in S /\ b \in S \ {a}
  OBVIOUS
<1>1. g[S] = f[a] + (f[b] + g[rest]) /\ g[rest] \in Int
  BY <1>0, SumsTwo
<1>2. h[S] = e[a] + (e[b] + h[rest]) /\ h[rest] \in Int
  BY <1>0, SumsTwo
<1>3. rest \in SUBSET S /\ \A x \in rest : f[x] = e[x]
  OBVIOUS
<1> HIDE DEF rest
<1>4. g[rest] = h[rest]
  BY <1>3, SumsAgree
<1> QED
  BY <1>1, <1>2, <1>4

(* ... and is what is at a if there is nothing elsewhere.                  *)
LEMMA SumsSingle ==
    ASSUME NEW S, IsFiniteSet(S), NEW f \in [S -> Int], NEW g, Sums(g, S, f),
           NEW a \in S, \A x \in S \ {a} : f[x] = 0
    PROVE  g[S] = f[a]
<1> DEFINE zero == [x \in S |-> 0]
           none == [s \in SUBSET S |-> 0]
<1>1. Sums(none, S, zero) /\ zero \in [S -> Int]
  <2>1. none \in [SUBSET S -> Int] /\ none[{}] = 0
    OBVIOUS
  <2>2. ASSUME NEW s \in SUBSET S, s # {}
        PROVE  none[s] = zero[First(s)] + none[s \ {First(s)}]
    <3>1. First(s) \in S
      BY <2>2 DEF First
    <3> QED
      BY <3>1
  <2>3. zero \in [S -> Int]
    OBVIOUS
  <2> HIDE DEF none, zero
  <2> QED
    BY <2>1, <2>2, <2>3 DEF Sums
<1>2. g[S] = f[a] + g[S \ {a}]
  BY SumsAnyOrder
<1>3. \A x \in S \ {a} : f[x] = zero[x]
  OBVIOUS
<1>4. none[S \ {a}] = 0
  OBVIOUS
<1> HIDE DEF none, zero
<1>5. g[S \ {a}] = 0
  BY <1>1, <1>3, <1>4, SumsAgree
<1> QED
  BY <1>2, <1>5
=============================================================================
