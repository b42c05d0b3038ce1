--------------------------- MODULE PhoneMaskProofs ---------------------------
(***************************************************************************)
(* Theorems of PhoneMask, for any mask that ends in a digit, any alphabet  *)
(* and any texts typed or pasted.                                          *)
(***************************************************************************)
EXTENDS PhoneMask, ListLemmas

-----------------------------------------------------------------------------
(* Counting the members of a set of numbers from below.                    *)

(* How many members of S there are up to i.                                *)
CountTo(S, i) == Cardinality({p \in S : p <= i})

LEMMA Counting ==
    ASSUME NEW n \in Nat, NEW S \in SUBSET (1 .. n)
    PROVE  /\ \A i \in 0 .. n : CountTo(S, i) \in Nat
           /\ CountTo(S, 0) = 0 /\ CountTo(S, n) = Cardinality(S)
           /\ \A i \in 1 .. n : CountTo(S, i) = CountTo(S, i - 1) + (IF i \in S THEN 1 ELSE 0)
           /\ \A i, j \in 0 .. n : i <= j => CountTo(S, i) <= CountTo(S, j)
           /\ \A i, j \in 0 .. n : i < j /\ j \in S => CountTo(S, i) < CountTo(S, j)
<1> DEFINE Upto(i) == {p \in S : p <= i}
<1>1. \A p \in S : p \in Nat /\ 1 <= p /\ p <= n
  OBVIOUS
<1>2. IsFiniteSet(S)
  <2>1. IsFiniteSet(1 .. n)
    BY FS_Interval
  <2> QED
    BY <2>1, FS_Subset
<1>3. \A i \in 0 .. n : IsFiniteSet(Upto(i)) /\ Cardinality(Upto(i)) \in Nat
  <2> TAKE i \in 0 .. n
  <2>1. Upto(i) \in SUBSET S
    OBVIOUS
  <2> HIDE DEF Upto
  <2>2. IsFiniteSet(Upto(i))
    BY <1>2, <2>1, FS_Subset
  <2> QED
    BY <2>2, FS_CardinalityType
<1>4. Upto(0) = {} /\ Upto(n) = S
  <2>1. \A p \in S : ~(p <= 0)
    BY <1>1
  <2> QED
    BY <1>1, <2>1
<1>5. \A i \in 1 .. n : Upto(i) = IF i \in S THEN Upto(i - 1) \cup {i} ELSE Upto(i - 1)
  <2> TAKE i \in 1 .. n
  <2>1. \A p \in S : p <= i <=> p <= i - 1 \/ p = i
    BY <1>1
  <2>2. CASE i \in S
    BY <2>1, <2>2
  <2>3. CASE i \notin S
    BY <2>1, <2>3
  <2> QED
    BY <2>2, <2>3
<1>6. \A i \in 1 .. n : i \in 0 .. n /\ i - 1 \in 0 .. n /\ i \notin Upto(i - 1)
  BY <1>1
<1>7. ASSUME NEW i \in 0 .. n, NEW j \in 0 .. n, i <= j PROVE Upto(i) \in SUBSET Upto(j)
  <2>1. \A p \in S : p <= i => p <= j
    BY <1>1, <1>7
  <2> QED
    BY <2>1
<1>8. \A i : CountTo(S, i) = Cardinality(Upto(i))
  BY DEF CountTo
<1> HIDE DEF Upto
<1>9. \A i \in 0 .. n : CountTo(S, i) \in Nat
  BY <1>3, <1>8
<1>10. CountTo(S, 0) = 0 /\ CountTo(S, n) = Cardinality(S)
  BY <1>4, <1>8, FS_EmptySet
<1>11. ASSUME NEW i \in 1 .. n
       PROVE  CountTo(S, i) = CountTo(S, i - 1) + (IF i \in S THEN 1 ELSE 0)
  <2> DEFINE U == Upto(i - 1)
  <2>1. IsFiniteSet(U) /\ Cardinality(U) \in Nat /\ i \notin U
    BY <1>3, <1>6
  <2>2. /\ CountTo(S, i - 1) = Cardinality(U)
        /\ CountTo(S, i) = Cardinality(IF i \in S THEN U \cup {i} ELSE U)
    BY <1>5, <1>8
  <2> HIDE DEF U
  <2>3. Cardinality(U \cup {i}) = Cardinality(U) + 1
    BY <2>1, FS_AddElement
  <2> QED
    BY <2>1, <2>2, <2>3
<1>12. ASSUME NEW i \in 0 .. n, NEW j \in 0 .. n, i <= j PROVE CountTo(S, i) <= CountTo(S, j)
  <2>1. Upto(i) \in SUBSET Upto(j) /\ IsFiniteSet(Upto(j))
    BY <1>3, <1>7, <1>12
  <2> QED
    BY <1>8, <2>1, FS_Subset
<1>13. ASSUME NEW i \in 0 .. n, NEW j \in 0 .. n, i < j, j \in S
       PROVE  CountTo(S, i) < CountTo(S, j)
  <2>1. j \in 1 .. n /\ j - 1 \in 0 .. n /\ i <= j - 1
    BY <1>13
  <2>2. CountTo(S, j) = CountTo(S, j - 1) + 1
    BY <1>11, <1>13, <2>1
  <2>3. CountTo(S, i) <= CountTo(S, j - 1)
    BY <1>12, <2>1
  <2>4. CountTo(S, i) \in Nat /\ CountTo(S, j - 1) \in Nat
    BY <1>9, <2>1
  <2> QED
    BY <2>2, <2>3, <2>4
<1> QED
  BY <1>9, <1>10, <1>11, <1>12, <1>13

LEMMA MaskFacts ==
    /\ Mask \in Seq(STRING) /\ Len(Mask) \in Nat /\ DOMAIN Mask = 1 .. Len(Mask)
    /\ Len(Mask) \in Places /\ Places \subseteq 1 .. Len(Mask)
    /\ \A i \in 1 .. Len(Mask) : Mask[i] \in STRING /\ Mask[i] \notin Digits
<1>1. Mask \in Seq(STRING) /\ Mask # <<>>
  BY PhoneMaskAssumption, MaskFits
<1>2. Len(Mask) \in Nat /\ DOMAIN Mask = 1 .. Len(Mask) /\ Len(Mask) \in 1 .. Len(Mask)
  BY <1>1
<1>3. \A i \in 1 .. Len(Mask) : Mask[i] \in STRING /\ Mask[i] \notin Digits
  BY <1>1, <1>2, PhoneMaskAssumption
<1> QED
  BY <1>1, <1>2, <1>3, MaskFits DEF Places

(* A place has room for one digit more.                                    *)
LEMMA BeforeFacts ==
    /\ \A i \in 0 .. Len(Mask) : Before(i) \in Nat
    /\ Before(0) = 0 /\ Before(Len(Mask)) = Room
    /\ \A i \in 1 .. Len(Mask) : Before(i) = Before(i - 1) + (IF i \in Places THEN 1 ELSE 0)
    /\ \A i, j \in 0 .. Len(Mask) : i <= j => Before(i) <= Before(j)
    /\ \A i, j \in 0 .. Len(Mask) : i < j /\ j \in Places => Before(i) < Before(j)
<1> DEFINE n == Len(Mask)
<1>1. n \in Nat /\ Places \in SUBSET (1 .. n)
  BY MaskFacts
<1>2. Room = Cardinality(Places) /\ \A i : Before(i) = CountTo(Places, i)
  BY DEF Before, CountTo, Room
<1> HIDE DEF n
<1>3. /\ \A i \in 0 .. n : CountTo(Places, i) \in Nat
      /\ CountTo(Places, 0) = 0 /\ CountTo(Places, n) = Cardinality(Places)
      /\ \A i \in 1 .. n :
             CountTo(Places, i) = CountTo(Places, i - 1) + (IF i \in Places THEN 1 ELSE 0)
      /\ \A i, j \in 0 .. n : i <= j => CountTo(Places, i) <= CountTo(Places, j)
      /\ \A i, j \in 0 .. n : i < j /\ j \in Places => CountTo(Places, i) < CountTo(Places, j)
  BY <1>1, Counting
<1> QED
  BY <1>2, <1>3 DEF n

-----------------------------------------------------------------------------
(* Clean.                                                                  *)

DigitsAt(t) == {i \in 1 .. Len(t) : t[i] \in Digits}

LEMMA CleanLoop ==
    ASSUME NEW number \in Seq(STRING)
    PROVE  \E kept :
               /\ Clean(number) = kept[Len(number)] /\ kept[0] = <<>>
               /\ \A i \in 1 .. Len(number) :
                      kept[i] = IF number[i] \in Digits THEN Append(kept[i - 1], number[i])
                                ELSE kept[i - 1]
               /\ \A i \in 0 .. Len(number) : kept[i] \in Seq(Digits)
<1> DEFINE n == Len(number)
           next(a, i) == IF number[i] \in Digits THEN Append(a, number[i]) ELSE a
           body(s) == [i \in 0 .. n |-> IF i = 0 THEN <<>> ELSE next(s[i - 1], i)]
           F == [p \in Seq(Digits) \X (1 .. n) |-> next(p[1], p[2])]
           kept == CHOOSE s : s = body(s)
<1>1. n \in Nat
  OBVIOUS
<1>2. Clean(number) = kept[n]
  BY Zenon DEF Clean, next
<1>3. \A a \in Seq(Digits), i \in 1 .. n : next(a, i) \in Seq(Digits)
  OBVIOUS
<1> HIDE DEF next, n
<1>4. F \in [Seq(Digits) \X (1 .. n) -> Seq(Digits)]
  BY <1>3
<1>5. \A a \in Seq(Digits), i \in 1 .. n : F[<<a, i>>] = next(a, i)
  OBVIOUS
<1> HIDE DEF F
<1>6. PICK g : Follows(g, n, Seq(Digits), <<>>, F)
  <2>1. <<>> \in Seq(Digits)
    OBVIOUS
  <2> QED
    BY <1>1, <1>4, <2>1, RecursionExists
<1>7. /\ g \in [0 .. n -> Seq(Digits)] /\ g[0] = <<>>
      /\ \A i \in 1 .. n : g[i] = F[<<g[i - 1], i>>]
  BY <1>6 DEF Follows
<1>8. \A i \in 1 .. n : g[i] = next(g[i - 1], i)
  <2> TAKE i \in 1 .. n
  <2>1. i - 1 \in 0 .. n
    BY <1>1
  <2> QED
    BY <1>5, <1>7, <2>1
<1>9. g = body(g)
  <2>1. \A i \in 0 .. n : g[i] = IF i = 0 THEN <<>> ELSE next(g[i - 1], i)
    BY <1>1, <1>7, <1>8
  <2> QED
    BY <1>7, <2>1
<1>10. kept = body(kept)
  <2> HIDE DEF body
  <2> QED
    BY <1>9
<1> HIDE DEF kept
<1>11. kept[0] = <<>> /\ \A i \in 1 .. n : kept[i] = next(kept[i - 1], i)
  BY <1>1, <1>10
<1>12. \A i \in 0 .. n : kept[i] \in Seq(Digits)
  <2> DEFINE S == {i \in 0 .. n : kept[i] \in Seq(Digits)}
  <2>1. 0 \in S
    <3>1. <<>> \in Seq(Digits) /\ 0 \in 0 .. n
      BY <1>1
    <3> QED
      BY <1>11, <3>1
  <2>2. \A i \in 1 .. n : i - 1 \in S => i \in S
    BY <1>1, <1>3, <1>11
  <2>3. 0 .. n \subseteq S
    <3> HIDE DEF S
    <3> QED
      BY <1>1, <2>1, <2>2, UpToN
  <2> QED
    BY <2>3
<1> QED
  BY <1>2, <1>11, <1>12 DEF next, n

(* The digits of a text, as many as it has and in their order.             *)
LEMMA CleanFacts ==
    ASSUME NEW number \in Seq(STRING)
    PROVE  /\ Clean(number) \in Seq(Digits)
           /\ Len(Clean(number)) = Cardinality(DigitsAt(number))
           /\ \A k \in DigitsAt(number) :
                  Clean(number)[CountTo(DigitsAt(number), k)] = number[k]
<1> DEFINE n == Len(number)
           S == DigitsAt(number)
<1>1. n \in Nat /\ S \in SUBSET (1 .. n)
  BY DEF DigitsAt
<1>2. \A i \in 1 .. n : i \in S <=> number[i] \in Digits
  BY DEF DigitsAt
<1>3. PICK kept :
          /\ Clean(number) = kept[n] /\ kept[0] = <<>>
          /\ \A i \in 1 .. n :
                 kept[i] = IF number[i] \in Digits THEN Append(kept[i - 1], number[i])
                           ELSE kept[i - 1]
          /\ \A i \in 0 .. n : kept[i] \in Seq(Digits)
  BY CleanLoop
<1> HIDE DEF n, S
<1>4. /\ \A i \in 0 .. n : CountTo(S, i) \in Nat
      /\ CountTo(S, 0) = 0 /\ CountTo(S, n) = Cardinality(S)
      /\ \A i \in 1 .. n : CountTo(S, i) = CountTo(S, i - 1) + (IF i \in S THEN 1 ELSE 0)
      /\ \A i, j \in 0 .. n : i <= j => CountTo(S, i) <= CountTo(S, j)
      /\ \A i, j \in 0 .. n : i < j /\ j \in S => CountTo(S, i) < CountTo(S, j)
  BY <1>1, Counting
<1> DEFINE InOrder(i) == /\ Len(kept[i]) = CountTo(S, i)
                         /\ \A k \in S : k <= i => kept[i][CountTo(S, k)] = number[k]
           T == {i \in 0 .. n : InOrder(i)}
<1>5. 0 \in T
  <2>1. Len(kept[0]) = 0 /\ 0 \in 0 .. n
    BY <1>1, <1>3
  <2>2. \A k \in S : ~(k <= 0)
    BY <1>1
  <2> QED
    BY <1>4, <2>1, <2>2
<1>6. ASSUME NEW i \in 1 .. n, i - 1 \in T PROVE i \in T
  <2>1. /\ i \in 0 .. n /\ i - 1 \in 0 .. n /\ kept[i - 1] \in Seq(Digits)
        /\ Len(kept[i - 1]) = CountTo(S, i - 1)
        /\ \A k \in S : k <= i - 1 => kept[i - 1][CountTo(S, k)] = number[k]
    BY <1>1, <1>3, <1>6
  <2>2. CASE number[i] \in Digits
    <3> PICK x, l : x = number[i] /\ l = kept[i - 1]
      OBVIOUS
    <3> DEFINE m == Len(l)
    <3>1. x \in Digits /\ l \in Seq(Digits) /\ kept[i] = Append(l, x)
      BY <1>3, <2>1, <2>2
    <3>2. /\ Len(kept[i]) = m + 1 /\ kept[i][m + 1] = x /\ m \in Nat
          /\ \A j \in 1 .. m : kept[i][j] = l[j]
      BY <3>1
    <3> HIDE DEF m
    <3>3. CountTo(S, i) = m + 1 /\ CountTo(S, i - 1) = m
      BY <1>2, <1>4, <2>1, <2>2 DEF m
    <3>4. ASSUME NEW k \in S, k <= i PROVE kept[i][CountTo(S, k)] = number[k]
      <4>1. k \in 1 .. n /\ k \in 0 .. n /\ 0 \in 0 .. n /\ 0 < k
        BY <1>1
      <4>2. CASE k = i
        BY <3>2, <3>3, <4>2
      <4>3. CASE k # i
        <5>1. k <= i - 1
          BY <3>4, <4>1, <4>3
        <5>2. CountTo(S, k) <= m /\ CountTo(S, 0) < CountTo(S, k) /\ CountTo(S, k) \in Nat
          BY <1>4, <2>1, <3>3, <4>1, <5>1
        <5>3. CountTo(S, k) \in 1 .. m
          BY <1>4, <3>2, <5>2
        <5> QED
          BY <2>1, <3>2, <5>1, <5>3
      <4> QED
        BY <4>2, <4>3
    <3> QED
      BY <2>1, <3>2, <3>3, <3>4
  <2>3. CASE number[i] \notin Digits
    <3>1. kept[i] = kept[i - 1] /\ CountTo(S, i) = CountTo(S, i - 1) /\ i \notin S
      BY <1>2, <1>3, <1>4, <2>1, <2>3
    <3>2. \A k \in S : k <= i => k <= i - 1
      BY <1>1, <3>1
    <3> QED
      BY <2>1, <3>1, <3>2
  <2> QED
    BY <2>2, <2>3
<1>7. n \in T
  <2> HIDE DEF T
  <2>1. 0 .. n \subseteq T
    BY <1>1, <1>5, <1>6, UpToN
  <2> QED
    BY <1>1, <2>1
<1>8. Len(kept[n]) = CountTo(S, n) /\ kept[n] \in Seq(Digits)
  BY <1>1, <1>3, <1>7
<1>9. \A k \in S : kept[n][CountTo(S, k)] = number[k]
  BY <1>1, <1>7
<1> QED
  BY <1>3, <1>4, <1>8, <1>9 DEF S

-----------------------------------------------------------------------------
(* FormattedNumber.                                                        *)

Filling == [result : Seq(STRING), left : Seq(Digits)]

LEMMA FillTypes ==
    ASSUME NEW f \in Filling, NEW ch \in STRING
    PROVE  Fill(f, ch) \in Filling
<1>1. f.result \in Seq(STRING) /\ f.left \in Seq(Digits) /\ f \in [{"result", "left"} -> {f.result, f.left}]
  BY DEF Filling
<1>2. CASE f.left = <<>>
  BY <1>2 DEF Fill
<1>3. CASE f.left # <<>> /\ ch = "X"
  <2>1. Head(f.left) \in STRING /\ Tail(f.left) \in Seq(Digits)
    BY <1>1, <1>3, PhoneMaskAssumption
  <2>2. Append(f.result, Head(f.left)) \in Seq(STRING)
    BY <1>1, <2>1
  <2> QED
    BY <1>3, <2>1, <2>2 DEF Fill, Filling
<1>4. CASE f.left # <<>> /\ ch # "X"
  <2>1. Append(f.result, ch) \in Seq(STRING)
    BY <1>1
  <2>2. Fill(f, ch) = [f EXCEPT !.result = Append(f.result, ch)]
    BY <1>4 DEF Fill
  <2> QED
    BY <2>1, <2>2 DEF Filling
<1> QED
  BY <1>2, <1>3, <1>4

LEMMA FilledLoop ==
    ASSUME NEW number \in Seq(STRING)
    PROVE  \E after :
               /\ Filled(number) = after[Len(Mask)] /\ after[0] = Unfilled(number)
               /\ \A i \in 1 .. Len(Mask) : after[i] = Fill(after[i - 1], Mask[i])
               /\ \A i \in 0 .. Len(Mask) : after[i] \in Filling
<1> DEFINE n == Len(Mask)
           b == Unfilled(number)
           next(f, i) == Fill(f, Mask[i])
           body(s) == [i \in 0 .. n |-> IF i = 0 THEN b ELSE next(s[i - 1], i)]
           F == [p \in Filling \X (1 .. n) |-> next(p[1], p[2])]
           after == CHOOSE s : s = body(s)
<1>1. n \in Nat
  BY MaskFacts
<1>2. Filled(number) = after[n]
  BY Zenon DEF Filled
<1>3. \A f \in Filling, i \in 1 .. n : next(f, i) \in Filling
  BY MaskFacts, FillTypes
<1>4. b \in Filling
  <2>1. Clean(number) \in Seq(Digits) /\ <<>> \in Seq(STRING)
    BY CleanFacts
  <2> QED
    BY <2>1 DEF Unfilled, Filling
<1> HIDE DEF next, n, b
<1>5. F \in [Filling \X (1 .. n) -> Filling]
  BY <1>3
<1>6. \A f \in Filling, i \in 1 .. n : F[<<f, i>>] = next(f, i)
  OBVIOUS
<1> HIDE DEF F
<1>7. PICK g : Follows(g, n, Filling, b, F)
  BY <1>1, <1>4, <1>5, RecursionExists
<1>8. /\ g \in [0 .. n -> Filling] /\ g[0] = b
      /\ \A i \in 1 .. n : g[i] = F[<<g[i - 1], i>>]
  BY <1>7 DEF Follows
<1>9. \A i \in 1 .. n : g[i] = next(g[i - 1], i)
  <2> TAKE i \in 1 .. n
  <2>1. i - 1 \in 0 .. n
    BY <1>1
  <2> QED
    BY <1>6, <1>8, <2>1
<1>10. g = body(g)
  <2>1. \A i \in 0 .. n : g[i] = IF i = 0 THEN b ELSE next(g[i - 1], i)
    BY <1>1, <1>8, <1>9
  <2> QED
    BY <1>8, <2>1
<1>11. after = body(after)
  <2> HIDE DEF body
  <2> QED
    BY <1>10
<1> HIDE DEF after
<1>12. after[0] = b /\ \A i \in 1 .. n : after[i] = next(after[i - 1], i)
  BY <1>1, <1>11
<1>13. \A i \in 0 .. n : after[i] \in Filling
  <2> DEFINE S == {i \in 0 .. n : after[i] \in Filling}
  <2>1. 0 \in S
    BY <1>1, <1>4, <1>12
  <2>2. \A i \in 1 .. n : i - 1 \in S => i \in S
    BY <1>1, <1>3, <1>12
  <2>3. 0 .. n \subseteq S
    <3> HIDE DEF S
    <3> QED
      BY <1>1, <2>1, <2>2, UpToN
  <2> QED
    BY <2>3
<1> QED
  BY <1>2, <1>12, <1>13 DEF next, n, b

(* The character that the mask makes of digits at place k.                 *)
At(digits, k) == IF k \in Places THEN digits[Before(k)] ELSE Mask[k]

(* What the loop has made of digits after i characters of the mask: all of *)
(* them, if digits are left, or those up to the place of the last digit.   *)
HasMade(f, digits, i, len) ==
    /\ Len(f.result) = len /\ \A k \in 1 .. len : f.result[k] = At(digits, k)
    /\ \/ /\ len = i /\ Len(f.left) = Len(digits) - Before(i) /\ Len(f.left) > 0
          /\ \A k \in 1 .. Len(f.left) : f.left[k] = digits[Before(i) + k]
       \/ f.left = <<>> /\ len \in {0} \cup Places /\ Before(len) = Len(digits)

LEMMA FillStep ==
    ASSUME NEW digits \in Seq(Digits), NEW i \in 1 .. Len(Mask), NEW f \in Filling,
           NEW len \in 0 .. i - 1, HasMade(f, digits, i - 1, len)
    PROVE  \E l \in 0 .. i : HasMade(Fill(f, Mask[i]), digits, i, l)
<1>1. /\ f.result \in Seq(STRING) /\ f.left \in Seq(Digits) /\ Len(f.left) \in Nat
      /\ Len(f.result) \in Nat
  BY DEF Filling
<1>2. Len(digits) \in Nat /\ i - 1 \in 0 .. Len(Mask) /\ i \in 0 .. Len(Mask)
  BY MaskFacts
<1>3. /\ Before(i) \in Nat /\ Before(i - 1) \in Nat
      /\ Before(i) = Before(i - 1) + (IF i \in Places THEN 1 ELSE 0)
  BY <1>2, BeforeFacts
<1>4. Len(f.result) = len /\ \A k \in 1 .. len : f.result[k] = At(digits, k)
  BY DEF HasMade
<1>5. Mask[i] \in STRING /\ (i \in Places <=> Mask[i] = "X")
  BY MaskFacts DEF Places
<1>6. CASE f.left = <<>>
  <2>1. Fill(f, Mask[i]) = f
    BY <1>6 DEF Fill
  <2>2. len \in {0} \cup Places /\ Before(len) = Len(digits)
    BY <1>1, <1>6 DEF HasMade
  <2>3. HasMade(f, digits, i, len)
    BY <1>4, <1>6, <2>2 DEF HasMade
  <2>4. len \in 0 .. i
    BY <1>2
  <2> QED
    BY <2>1, <2>3, <2>4
<1>7. CASE f.left # <<>>
  <2>1. /\ len = i - 1 /\ Len(f.left) = Len(digits) - Before(i - 1) /\ Len(f.left) > 0
        /\ \A k \in 1 .. Len(f.left) : f.left[k] = digits[Before(i - 1) + k]
    BY <1>7 DEF HasMade
  <2>2. CASE i \in Places
    <3> DEFINE h == Fill(f, Mask[i])
    <3>1. h = [result |-> Append(f.result, Head(f.left)), left |-> Tail(f.left)]
      BY <1>5, <1>7, <2>2 DEF Fill
    <3>2. h.result = Append(f.result, Head(f.left)) /\ h.left = Tail(f.left)
      BY <3>1
    <3> HIDE DEF h
    <3>3. Head(f.left) = At(digits, i) /\ Head(f.left) \in STRING
      <4>1. Head(f.left) = f.left[1] /\ Head(f.left) \in Digits /\ 1 \in 1 .. Len(f.left)
        BY <1>1, <1>7, <2>1
      <4>2. Head(f.left) = digits[Before(i)]
        BY <1>3, <2>1, <2>2, <4>1
      <4> QED
        BY <2>2, <4>1, <4>2, PhoneMaskAssumption DEF At
    <3>4. Len(h.result) = i /\ \A k \in 1 .. i : h.result[k] = At(digits, k)
      <4>1. /\ Len(h.result) = Len(f.result) + 1
            /\ \A k \in 1 .. Len(f.result) : h.result[k] = f.result[k]
            /\ h.result[Len(f.result) + 1] = Head(f.left)
        BY <1>1, <3>2, <3>3
      <4>2. Len(f.result) = i - 1 /\ \A k \in 1 .. i : k = i \/ k \in 1 .. i - 1
        BY <1>2, <1>4, <2>1
      <4>3. ASSUME NEW k \in 1 .. i PROVE h.result[k] = At(digits, k)
        <5>1. CASE k = i
          <6>1. Len(f.result) + 1 = i
            BY <1>2, <4>2
          <6> QED
            BY <3>3, <4>1, <5>1, <6>1
        <5>2. CASE k \in 1 .. i - 1
          BY <1>4, <2>1, <4>1, <4>2, <5>2
        <5> QED
          BY <4>2, <5>1, <5>2
      <4>4. Len(h.result) = i
        BY <1>2, <4>1, <4>2
      <4> QED
        BY <4>3, <4>4
    <3>5. /\ Len(h.left) = Len(f.left) - 1 /\ h.left \in Seq(Digits)
          /\ \A k \in 1 .. Len(h.left) : h.left[k] = f.left[k + 1]
      BY <1>1, <1>7, <3>2
    <3>6. Len(h.left) = Len(digits) - Before(i)
      BY <1>2, <1>3, <2>1, <2>2, <3>5
    <3>7. ASSUME NEW k \in 1 .. Len(h.left) PROVE h.left[k] = digits[Before(i) + k]
      <4>1. Len(h.left) \in Nat /\ k \in Nat /\ k <= Len(h.left) /\ 1 <= k
        BY <3>5
      <4>2. k + 1 \in 1 .. Len(f.left)
        BY <1>1, <3>5, <4>1
      <4>3. Before(i - 1) + (k + 1) = Before(i) + k
        BY <1>3, <2>2, <4>1
      <4> QED
        BY <2>1, <3>5, <4>2, <4>3
    <3>8. HasMade(h, digits, i, i)
      <4>1. CASE Len(h.left) = 0
        <5>1. h.left = <<>> /\ Before(i) = Len(digits)
          BY <1>2, <1>3, <3>5, <3>6, <4>1
        <5> QED
          BY <2>2, <3>4, <5>1 DEF HasMade
      <4>2. CASE Len(h.left) # 0
        <5>1. Len(h.left) > 0
          BY <1>1, <2>1, <3>5, <4>2
        <5> QED
          BY <3>4, <3>6, <3>7, <5>1 DEF HasMade
      <4> QED
        BY <4>1, <4>2
    <3> QED
      BY <1>2, <3>8 DEF h
  <2>3. CASE i \notin Places
    <3> DEFINE h == Fill(f, Mask[i])
    <3>1. h = [f EXCEPT !.result = Append(f.result, Mask[i])]
      BY <1>5, <1>7, <2>3 DEF Fill
    <3>2. h.result = Append(f.result, Mask[i]) /\ h.left = f.left
      BY <3>1 DEF Filling
    <3> HIDE DEF h
    <3>3. Len(h.result) = i /\ \A k \in 1 .. i : h.result[k] = At(digits, k)
      <4>1. /\ Len(h.result) = Len(f.result) + 1
            /\ \A k \in 1 .. Len(f.result) : h.result[k] = f.result[k]
            /\ h.result[Len(f.result) + 1] = Mask[i]
        BY <1>1, <1>5, <3>2
      <4>2. Len(f.result) = i - 1 /\ \A k \in 1 .. i : k = i \/ k \in 1 .. i - 1
        BY <1>2, <1>4, <2>1
      <4>3. At(digits, i) = Mask[i]
        BY <2>3 DEF At
      <4>4. ASSUME NEW k \in 1 .. i PROVE h.result[k] = At(digits, k)
        <5>1. CASE k = i
          <6>1. Len(f.result) + 1 = i
            BY <1>2, <4>2
          <6> QED
            BY <4>3, <4>1, <5>1, <6>1
        <5>2. CASE k \in 1 .. i - 1
          BY <1>4, <2>1, <4>1, <4>2, <5>2
        <5> QED
          BY <4>2, <5>1, <5>2
      <4>5. Len(h.result) = i
        BY <1>2, <4>1, <4>2
      <4> QED
        BY <4>4, <4>5
    <3>4. Before(i) = Before(i - 1)
      BY <1>3, <2>3
    <3>5. HasMade(h, digits, i, i)
      BY <2>1, <3>2, <3>3, <3>4 DEF HasMade
    <3> QED
      BY <1>2, <3>5 DEF h
  <2> QED
    BY <2>2, <2>3
<1> QED
  BY <1>6, <1>7

(* The loop ends with HasMade.                                             *)
LEMMA FilledFacts ==
    ASSUME NEW number \in Seq(STRING)
    PROVE  /\ Filled(number) \in Filling
           /\ \E len \in 0 .. Len(Mask) :
                  HasMade(Filled(number), Clean(number), Len(Mask), len)
<1> DEFINE n == Len(Mask)
           digits == Clean(number)
<1>1. n \in Nat /\ digits \in Seq(Digits)
  BY MaskFacts, CleanFacts
<1>2. PICK after :
          /\ Filled(number) = after[n] /\ after[0] = Unfilled(number)
          /\ \A i \in 1 .. n : after[i] = Fill(after[i - 1], Mask[i])
          /\ \A i \in 0 .. n : after[i] \in Filling
  BY FilledLoop
<1> DEFINE S == {i \in 0 .. n : \E len \in 0 .. i : HasMade(after[i], digits, i, len)}
<1>3. 0 \in S
  <2>1. after[0].result = <<>> /\ after[0].left = digits
    BY <1>2 DEF Unfilled
  <2>2. Len(<<>>) = 0 /\ Before(0) = 0 /\ Len(digits) \in Nat
    BY <1>1, BeforeFacts
  <2> HIDE DEF digits
  <2>3. HasMade(after[0], digits, 0, 0)
    <3>1. CASE digits = <<>>
      BY <2>1, <2>2, <3>1 DEF HasMade
    <3>2. CASE digits # <<>>
      <4>1. Len(digits) > 0 /\ \A k \in 1 .. Len(digits) : 0 + k = k
        BY <1>1, <3>2
      <4> QED
        BY <2>1, <2>2, <4>1 DEF HasMade
    <3> QED
      BY <3>1, <3>2
  <2>4. 0 \in 0 .. n /\ 0 \in 0 .. 0
    BY <1>1
  <2> QED
    BY <2>3, <2>4
<1> HIDE DEF digits
<1>4. ASSUME NEW i \in 1 .. n, i - 1 \in S PROVE i \in S
  <2>1. i \in 0 .. n /\ after[i - 1] \in Filling /\ after[i] = Fill(after[i - 1], Mask[i])
    BY <1>1, <1>2, <1>4
  <2>2. PICK len \in 0 .. i - 1 : HasMade(after[i - 1], digits, i - 1, len)
    BY <1>4
  <2>3. \E l \in 0 .. i : HasMade(after[i], digits, i, l)
    BY <1>1, <2>1, <2>2, FillStep
  <2> QED
    BY <2>1, <2>3
<1> HIDE DEF S
<1>5. 0 .. n \subseteq S
  BY <1>1, <1>3, <1>4, UpToN
<1>6. n \in S /\ n \in 0 .. n
  BY <1>1, <1>5
<1> QED
  BY <1>2, <1>6 DEF S, digits

(* Two places leave room for different numbers of digits.                  *)
LEMMA PlacesDiffer ==
    ASSUME NEW i \in {0} \cup Places, NEW j \in {0} \cup Places, Before(i) = Before(j)
    PROVE  i = j
<1>1. i \in 0 .. Len(Mask) /\ j \in 0 .. Len(Mask) /\ (i > 0 => i \in Places) /\ (j > 0 => j \in Places)
  BY MaskFacts
<1>2. CASE i < j
  <2>1. j \in Places
    BY <1>1, <1>2
  <2>2. Before(i) < Before(j) /\ Before(i) \in Nat
    BY <1>1, <1>2, <2>1, BeforeFacts
  <2> QED
    BY <2>2
<1>3. CASE j < i
  <2>1. i \in Places
    BY <1>1, <1>3
  <2>2. Before(j) < Before(i) /\ Before(j) \in Nat
    BY <1>1, <1>3, <2>1, BeforeFacts
  <2> QED
    BY <2>2
<1> QED
  BY <1>1, <1>2, <1>3

(* The code's loop and the definition by counting agree, ...               *)
LEMMA FormattedFacts ==
    ASSUME NEW number \in Seq(STRING), NEW t, t = FormattedNumber(number)
    PROVE  /\ t = Masked(Clean(number)) /\ t \in Seq(STRING) /\ Len(t) \in {0} \cup Places
           /\ Before(Len(t)) = IF Len(Clean(number)) < Room THEN Len(Clean(number)) ELSE Room
           /\ \A k \in 1 .. Len(t) :
                  t[k] = At(Clean(number), k) /\ (t[k] \in Digits <=> k \in Places)
<1> DEFINE n == Len(Mask)
           digits == Clean(number)
           m == Len(digits)
           count == IF m < Room THEN m ELSE Room
<1>1. n \in Nat /\ n \in Places /\ Places \subseteq 1 .. n /\ n \in 0 .. n
  BY MaskFacts
<1>2. digits \in Seq(Digits) /\ m \in Nat
  BY CleanFacts
<1>3. PICK len \in 0 .. n : HasMade(Filled(number), digits, n, len)
  BY FilledFacts
<1>4. t \in Seq(STRING) /\ Len(t) = len /\ \A k \in 1 .. len : t[k] = At(digits, k)
  BY <1>3, FilledFacts DEF HasMade, FormattedNumber, Filling
<1>5. /\ Room \in Nat /\ Before(n) = Room /\ Before(len) \in Nat /\ Before(len) <= Room
      /\ \A k \in 0 .. n : Before(k) \in Nat
  BY <1>1, BeforeFacts
<1>6. len \in {0} \cup Places /\ Before(len) = count
  <2>1. CASE len = n /\ Len(Filled(number).left) = m - Before(n) /\ Len(Filled(number).left) > 0
    BY <1>1, <1>2, <1>5, <2>1
  <2>2. CASE len \in {0} \cup Places /\ Before(len) = m
    BY <1>2, <1>5, <2>2
  <2> QED
    BY <1>3, <2>1, <2>2 DEF HasMade
<1> HIDE DEF n
<1>7. Masked(digits) = [k \in 1 .. len |-> At(digits, k)]
  <2>1. \A j \in {0} \cup Places : Before(j) = count => j = len
    BY <1>6, PlacesDiffer
  <2>2. len = CHOOSE i \in {0} \cup Places : Before(i) = count
    BY <1>6, <2>1
  <2> QED
    BY <2>2 DEF Masked, At
<1>8. t = Masked(digits)
  <2>1. t \in [1 .. len -> STRING]
    BY <1>4
  <2> QED
    BY <1>4, <1>7, <2>1
<1>9. ASSUME NEW k \in 1 .. len PROVE t[k] \in Digits <=> k \in Places
  <2>1. k \in 1 .. n /\ k \in 0 .. n /\ 0 \in 0 .. n /\ 0 < k /\ k <= len
    BY <1>1
  <2>2. CASE k \in Places
    <3>1. Before(0) < Before(k) /\ Before(k) <= Before(len) /\ Before(0) = 0
      BY <2>1, <2>2, BeforeFacts DEF n
    <3>2. Before(len) <= m
      BY <1>2, <1>5, <1>6
    <3>3. Before(k) \in 1 .. m
      BY <1>2, <1>5, <2>1, <3>1, <3>2
    <3>4. t[k] = digits[Before(k)]
      BY <1>4, <2>2 DEF At
    <3> QED
      BY <1>2, <2>2, <3>3, <3>4
  <2>3. CASE k \notin Places
    BY <1>4, <2>1, <2>3, MaskFacts DEF At, n
  <2> QED
    BY <2>2, <2>3
<1> QED
  BY <1>4, <1>6, <1>8, <1>9

(* ... so the formatted text has as many digits as places.                 *)
LEMMA FormattedDigits ==
    ASSUME NEW number \in Seq(STRING), NEW t, t = FormattedNumber(number), NEW l \in 0 .. Len(t)
    PROVE  /\ SubSeq(t, 1, l) \in Seq(STRING) /\ Len(SubSeq(t, 1, l)) = l
           /\ Len(Clean(SubSeq(t, 1, l))) = Before(l)
<1> DEFINE s == SubSeq(t, 1, l)
<1>1. /\ t \in Seq(STRING) /\ Len(t) \in {0} \cup Places
      /\ \A k \in 1 .. Len(t) : t[k] \in Digits <=> k \in Places
  BY FormattedFacts
<1>2. s \in Seq(STRING) /\ Len(s) = l /\ \A k \in 1 .. l : s[k] = t[k]
  BY <1>1
<1> HIDE DEF s
<1>3. DigitsAt(s) = {p \in Places : p <= l}
  <2>1. Len(t) \in Nat /\ l \in Nat /\ \A k : k \in 1 .. l => k \in 1 .. Len(t)
    BY <1>1
  <2>2. \A k : k \in Places => k \in Nat /\ 1 <= k
    BY MaskFacts
  <2>3. \A k \in 1 .. l : s[k] \in Digits <=> k \in Places
    BY <1>1, <1>2, <2>1
  <2>4. DigitsAt(s) = {k \in 1 .. l : s[k] \in Digits}
    BY <1>2 DEF DigitsAt
  <2>5. \A k : k \in Places /\ k <= l <=> k \in Places /\ k \in 1 .. l
    BY <2>1, <2>2
  <2> QED
    BY <2>3, <2>4, <2>5
<1>4. Len(Clean(s)) = Before(l)
  BY <1>2, <1>3, CleanFacts DEF Before
<1> QED
  BY <1>2, <1>4 DEF s

(* Formatting what is formatted changes nothing: an edit that puts back    *)
(* what it takes leaves the field of the phone dialog as it was.           *)
THEOREM FormattingIsStable ==
    \A number \in Seq(STRING) :
        FormattedNumber(FormattedNumber(number)) = FormattedNumber(number)
<1> SUFFICES ASSUME NEW number \in Seq(STRING)
             PROVE  FormattedNumber(FormattedNumber(number)) = FormattedNumber(number)
  OBVIOUS
<1> DEFINE t == FormattedNumber(number)
           again == FormattedNumber(t)
           digits == Clean(number)
           least(n) == IF n < Room THEN n ELSE Room
<1>1. /\ t = Masked(digits) /\ t \in Seq(STRING) /\ Len(t) \in {0} \cup Places
      /\ Before(Len(t)) = least(Len(digits))
      /\ \A k \in 1 .. Len(t) : t[k] = At(digits, k) /\ (t[k] \in Digits <=> k \in Places)
  BY FormattedFacts
<1> HIDE DEF t
<1>2. /\ again = Masked(Clean(t)) /\ again \in Seq(STRING) /\ Len(again) \in {0} \cup Places
      /\ Before(Len(again)) = least(Len(Clean(t)))
      /\ \A k \in 1 .. Len(again) : again[k] = At(Clean(t), k)
  BY <1>1, FormattedFacts
<1> HIDE DEF again
<1>3. Len(Clean(t)) = Before(Len(t))
  <2>1. SubSeq(t, 1, Len(t)) = t /\ Len(t) \in 0 .. Len(t)
    BY <1>1
  <2>2. Len(Clean(SubSeq(t, 1, Len(t)))) = Before(Len(t))
    BY <2>1, FormattedDigits DEF t
  <2> QED
    BY <2>1, <2>2
<1>4. Len(digits) \in Nat /\ Room \in Nat
  BY CleanFacts, MaskFacts, BeforeFacts
<1>5. Len(again) = Len(t)
  <2>1. Before(Len(again)) = Before(Len(t))
    BY <1>1, <1>2, <1>3, <1>4
  <2> QED
    BY <1>1, <1>2, <2>1, PlacesDiffer
<1>6. ASSUME NEW k \in 1 .. Len(t) PROVE again[k] = t[k]
  <2>1. again[k] = At(Clean(t), k)
    BY <1>2, <1>5
  <2>2. t[k] = At(digits, k)
    BY <1>1
  <2>3. CASE k \in Places
    <3>1. k \in DigitsAt(t)
      BY <1>1, <2>3 DEF DigitsAt
    <3>2. CountTo(DigitsAt(t), k) = Before(k)
      <4>1. {p \in DigitsAt(t) : p <= k} = {p \in Places : p <= k}
        <5>1. Len(t) \in Nat /\ Places \subseteq 1 .. Len(Mask) /\ Len(Mask) \in Nat
          BY <1>1, MaskFacts
        <5>2. \A p \in Places : p <= k => p \in 1 .. Len(t)
          BY <5>1
        <5> QED
          BY <1>1, <5>2 DEF DigitsAt
      <4> QED
        BY <4>1 DEF CountTo, Before
    <3>3. Clean(t)[CountTo(DigitsAt(t), k)] = t[k]
      BY <1>1, <3>1, CleanFacts
    <3> QED
      BY <2>1, <2>3, <3>2, <3>3 DEF At
  <2>4. CASE k \notin Places
    BY <2>1, <2>2, <2>4 DEF At
  <2> QED
    BY <2>3, <2>4
<1>7. again = t
  <2>1. again \in [1 .. Len(t) -> STRING] /\ t \in [1 .. Len(t) -> STRING]
    BY <1>1, <1>2, <1>5
  <2> QED
    BY <1>6, <2>1
<1> QED
  BY <1>7 DEF again, t

-----------------------------------------------------------------------------
(* The invariant.                                                          *)

(* The field is what the last edit was formatted to, and the answer is by  *)
(* its length.                                                             *)
MaskInv ==
    /\ edited \in Seq(STRING) /\ text = FormattedNumber(edited)
    /\ answer \in {"none", "saved", "refused"}
    /\ answer = "saved" => Len(text) = Complete
    /\ answer = "refused" => Len(text) # Complete

LEMMA MaskInit == Init => MaskInv
<1> SUFFICES ASSUME Init PROVE MaskInv
  OBVIOUS
<1> DEFINE t == FormattedNumber(<<>>)
<1>1. <<>> \in Seq(STRING)
  OBVIOUS
<1>2. Len(Clean(<<>>)) = 0
  <2>1. DigitsAt(<<>>) = {}
    BY DEF DigitsAt
  <2> QED
    BY <1>1, <2>1, CleanFacts, FS_EmptySet
<1>3. t \in Seq(STRING) /\ Len(t) \in {0} \cup Places /\ Before(Len(t)) = 0
  <2>1. Room \in Nat
    BY MaskFacts, BeforeFacts
  <2>2. /\ t \in Seq(STRING) /\ Len(t) \in {0} \cup Places
        /\ Before(Len(t)) = IF Len(Clean(<<>>)) < Room THEN Len(Clean(<<>>)) ELSE Room
    BY <1>1, FormattedFacts
  <2> QED
    BY <1>2, <2>1, <2>2
<1> HIDE DEF t
<1>4. Len(t) = 0
  BY <1>3, PlacesDiffer, BeforeFacts
<1>5. t = <<>>
  BY <1>3, <1>4
<1> QED
  BY <1>1, <1>5 DEF Init, MaskInv, t

(* Every edit leaves a text.                                               *)
LEMMA EditedFacts ==
    ASSUME MaskInv, NEW from \in 0 .. Len(text), NEW to \in from .. Len(text),
           NEW string \in Pastes
    PROVE  SubSeq(text, 1, from) \o string \o SubSeq(text, to + 1, Len(text)) \in Seq(STRING)
<1>1. text \in Seq(STRING) /\ string \in Seq(STRING) /\ Len(text) \in Nat
  BY FormattedFacts, PhoneMaskAssumption DEF MaskInv
<1>2. SubSeq(text, 1, from) \in Seq(STRING) /\ SubSeq(text, to + 1, Len(text)) \in Seq(STRING)
  BY <1>1
<1> QED
  BY <1>1, <1>2

LEMMA MaskStep ==
    ASSUME MaskInv, [Next]_vars
    PROVE  MaskInv'
<1>1. ASSUME NEW from \in 0 .. Len(text), NEW to \in from .. Len(text), NEW string \in Pastes,
             Edit(from, to, string)
      PROVE  MaskInv'
  BY <1>1, EditedFacts DEF Edit, MaskInv
<1>2. CASE CheckPhone
  BY <1>2 DEF CheckPhone, MaskInv
<1>3. CASE UNCHANGED vars
  BY <1>3 DEF vars, MaskInv
<1> QED
  BY <1>1, <1>2, <1>3 DEF Next

LEMMA MaskAlways == Spec => []MaskInv
<1> QED
  BY MaskInit, MaskStep, PTL DEF Spec

-----------------------------------------------------------------------------
(* The theorems.                                                           *)

(* formattedNumber never lengthens the field beyond the mask, and the      *)
(* field only ever holds a text.                                           *)
THEOREM MaskTypes == Spec => []TypeOK
<1>1. ASSUME MaskInv PROVE TypeOK
  <2>1. text \in Seq(STRING) /\ Len(text) \in {0} \cup Places
    BY <1>1, FormattedFacts DEF MaskInv
  <2>2. Len(text) <= Len(Mask)
    BY <2>1, MaskFacts
  <2> QED
    BY <1>1, <2>1, <2>2 DEF MaskInv, TypeOK
<1> QED
  BY <1>1, MaskAlways, PTL

(* Whatever is typed, deleted or pasted, and wherever, the field holds the *)
(* shortest beginning of the mask with room for the digits; checkPhone     *)
(* saves a phone exactly if all places are filled.                         *)
THEOREM MaskTheorem == Spec => []PhoneIsMasked
<1>1. ASSUME MaskInv PROVE PhoneIsMasked
  <2>1. /\ text = Masked(Clean(edited)) /\ text \in Seq(STRING)
        /\ Len(text) \in {0} \cup Places /\ Len(text) \in Nat
    BY <1>1, FormattedFacts DEF MaskInv
  <2>2. Len(Clean(text)) = Before(Len(text))
    <3>1. SubSeq(text, 1, Len(text)) = text /\ Len(text) \in 0 .. Len(text)
      BY <2>1
    <3>2. Len(Clean(SubSeq(text, 1, Len(text)))) = Before(Len(text))
      BY <1>1, <3>1, FormattedDigits DEF MaskInv
    <3> QED
      BY <3>1, <3>2
  <2>3. Len(text) = Complete => Len(Clean(text)) = Room
    BY <2>2, BeforeFacts, MaskFits
  <2>4. Len(text) # Complete => Len(Clean(text)) < Room
    <3>1. ASSUME Len(text) # Len(Mask) PROVE Before(Len(text)) < Before(Len(Mask))
      <4>1. Len(text) \in 0 .. Len(Mask) /\ Len(Mask) \in 0 .. Len(Mask) /\ Len(text) < Len(Mask)
        BY <2>1, <3>1, MaskFacts
      <4> QED
        BY <4>1, MaskFacts, BeforeFacts
    <3> QED
      BY <2>2, <3>1, BeforeFacts, MaskFits
  <2> QED
    BY <1>1, <2>1, <2>3, <2>4 DEF MaskInv, PhoneIsMasked, TextIsMasked, SavedIsComplete
<1> QED
  BY <1>1, MaskAlways, PTL

(* The field never ends in a character that formattedNumber would put back *)
(* after it was deleted.                                                   *)
THEOREM DeletingTheorem == Spec => DeletingDeletes
<1> DEFINE Deletes ==
        text # <<>> /\ edited' = Front(text) /\ edited' # edited
            => Len(Clean(text')) = Len(Clean(text)) - 1
<1>1. ASSUME MaskInv, [Next]_vars, text # <<>>, edited' = Front(text), edited' # edited
      PROVE  Len(Clean(text')) = Len(Clean(text)) - 1
  <2> DEFINE l == Len(text)
  <2>1. /\ text' = FormattedNumber(edited')
    BY <1>1 DEF Next, Edit, CheckPhone, vars
  <2>2. text \in Seq(STRING) /\ l \in Places /\ l \in Nat /\ l # 0
    <3>1. text \in Seq(STRING) /\ l \in {0} \cup Places
      BY <1>1, FormattedFacts DEF MaskInv
    <3> QED
      BY <1>1, <3>1
  <2>3. l \in 0 .. Len(text) /\ l - 1 \in 0 .. Len(text) /\ l \in 1 .. Len(Mask)
    BY <2>2, MaskFacts
  <2>4. SubSeq(text, 1, l) = text /\ edited' = SubSeq(text, 1, l - 1)
    BY <1>1, <2>2 DEF Front
  <2>5. edited \in Seq(STRING) /\ text = FormattedNumber(edited)
    BY <1>1 DEF MaskInv
  <2> HIDE DEF l
  <2>6. Len(Clean(text)) = Before(l)
    <3>1. Len(Clean(SubSeq(text, 1, l))) = Before(l)
      BY <2>3, <2>5, FormattedDigits
    <3> QED
      BY <2>4, <3>1
  <2>7. edited' \in Seq(STRING) /\ Len(Clean(edited')) = Before(l - 1)
    <3>1. /\ SubSeq(text, 1, l - 1) \in Seq(STRING)
          /\ Len(Clean(SubSeq(text, 1, l - 1))) = Before(l - 1)
      BY <2>3, <2>5, FormattedDigits
    <3> QED
      BY <2>4, <3>1
  <2>8. /\ Before(l) = Before(l - 1) + 1 /\ Before(l) <= Room
        /\ Before(l) \in Nat /\ Before(l - 1) \in Nat /\ Room \in Nat
    <3>1. l \in 0 .. Len(Mask) /\ l - 1 \in 0 .. Len(Mask) /\ Len(Mask) \in 0 .. Len(Mask) /\ l <= Len(Mask)
      BY <2>3, MaskFacts
    <3> QED
      BY <2>2, <2>3, <3>1, BeforeFacts
  <2>9. text' \in Seq(STRING) /\ Len(text') \in Nat /\ Before(Len(text')) = Before(l - 1)
    BY <2>1, <2>7, <2>8, FormattedFacts
  <2>10. Len(Clean(text')) = Before(Len(text'))
    <3>1. SubSeq(text', 1, Len(text')) = text' /\ Len(text') \in 0 .. Len(text')
      BY <2>9
    <3>2. Len(Clean(SubSeq(text', 1, Len(text')))) = Before(Len(text'))
      BY <2>1, <2>7, <3>1, FormattedDigits
    <3> QED
      BY <3>1, <3>2
  <2> QED
    BY <2>6, <2>8, <2>9, <2>10
<1>2. MaskInv /\ [Next]_vars => [Deletes]_vars
  BY <1>1
<1> QED
  BY <1>2, MaskAlways, PTL DEF Spec, DeletingDeletes
=============================================================================
