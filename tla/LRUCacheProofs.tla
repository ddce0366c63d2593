---------------------------- MODULE LRUCacheProofs ----------------------------
(***************************************************************************)
(* Proofs about LRUCache, for every set of keys and contents, any sizes,   *)
(* any limit and any time to live.                                         *)
(*                                                                         *)
(* The sum of the sizes is a recursive function and the eviction loop is   *)
(* another.  What they compute is shown by induction over sets of natural  *)
(* numbers (UpTo): that such a function exists (Recursion), what erasing   *)
(* and pushing do to a sum (SumsErased, SumsCons), and that the loop stops *)
(* at the longest beginning of the list that leaves room (EvictionLoop).   *)
(***************************************************************************)
EXTENDS LRUCache, SequenceTheorems, WellFoundedInduction, TLAPS

-------------------------------------------------------------------------------
(* Lists *)

\* What is true of 0 and handed on by every number below n is true up to n.
LEMMA UpTo ==
  ASSUME NEW n \in Nat, NEW S, 0 \in S, \A i \in 0..n : i < n /\ i \in S => i + 1 \in S
  PROVE  \A i \in 0..n : i \in S
<1> DEFINE T == {i \in 0..n : i \notin S}
<1>1. SUFFICES ASSUME T # {} PROVE FALSE
  OBVIOUS
<1>2. T \subseteq Nat
  OBVIOUS
<1>3. PICK m \in T : \A i \in T : ~(<<i, m>> \in OpToRel(<, Nat))
  BY <1>1, <1>2, NatLessThanWellFounded, WFMin, Zenon
<1>4. m \in Nat /\ m # 0 /\ m <= n
  OBVIOUS
<1>5. m - 1 \notin T
  <2>1. <<m - 1, m>> \in Nat \X Nat /\ <<m - 1, m>>[1] = m - 1 /\ <<m - 1, m>>[2] = m
    BY <1>4
  <2> QED
    BY <1>3, <1>4, <2>1 DEF OpToRel
<1> QED
  BY <1>4, <1>5

\* What g makes of a in n rounds: round i makes step[i][x] of x.
Rounds(g, n, A, a, step) ==
  /\ g \in [0..n -> A]
  /\ g[0] = a
  /\ \A i \in 1..n : g[i] = step[i][g[i-1]]

\* A recursion of n rounds has a result.
LEMMA Recursion ==
  ASSUME NEW A, NEW a \in A, NEW n \in Nat, NEW step \in [1..n -> [A -> A]]
  PROVE  \E g : Rounds(g, n, A, a, step)
<1> DEFINE S == {m \in 0..n : \E g : Rounds(g, m, A, a, step)}
<1>1. 0 \in S
  <2> DEFINE g == [i \in 0..0 |-> a]
  <2>1. g \in [0..0 -> A] /\ g[0] = a /\ \A i \in 1..0 : FALSE
    OBVIOUS
  <2>2. Rounds(g, 0, A, a, step)
    BY <2>1 DEF Rounds
  <2> HIDE DEF g
  <2> QED
    BY <2>2
<1>2. ASSUME NEW m \in 0..n, m < n, m \in S PROVE m + 1 \in S
  <2>1. PICK g : Rounds(g, m, A, a, step)
    BY <1>2
  <2> DEFINE h == [i \in 0..(m+1) |-> IF i = m + 1 THEN step[m+1][g[m]] ELSE g[i]]
  <2>2. m \in Nat /\ m + 1 \in 1..n /\ g[m] \in A /\ g \in [0..m -> A]
    BY <1>2, <2>1 DEF Rounds
  <2>3. step[m+1][g[m]] \in A
    BY <2>2
  <2>4. h \in [0..(m+1) -> A]
    BY <2>2, <2>3
  <2>5. h[0] = a
    BY <2>1, <2>2 DEF Rounds
  <2>6. ASSUME NEW i \in 1..(m+1) PROVE h[i] = step[i][h[i-1]]
    <3>1. h[i-1] = g[i-1]
      BY <2>2
    <3>2. CASE i = m + 1
      <4>1. h[i] = step[m+1][g[m]] /\ i - 1 = m
        BY <3>2, <2>2
      <4> QED
        BY <4>1, <3>1, <3>2
    <3>3. CASE i # m + 1
      <4>1. i \in 1..m /\ h[i] = g[i]
        BY <2>2, <3>3
      <4> QED
        BY <4>1, <3>1, <2>1 DEF Rounds
    <3> QED
      BY <3>2, <3>3
  <2>7. Rounds(h, m+1, A, a, step)
    BY <2>4, <2>5, <2>6 DEF Rounds
  <2>8. m + 1 \in 0..n
    BY <2>2
  <2>9. \E f : Rounds(f, m+1, A, a, step)
    BY <2>7
  <2> HIDE DEF h
  <2> QED
    BY <2>8, <2>9
<1>3. n \in S
  <2> HIDE DEF S
  <2> QED
    <3>1. \A i \in 0..n : i \in S
      BY <1>1, <1>2, UpTo
    <3>2. n \in 0..n
      OBVIOUS
    <3> QED
      BY <3>1, <3>2
<1> QED
  BY <1>3

\* The sums of a list of numbers.
LEMMA SumsOf ==
  ASSUME NEW w \in Seq(Nat)
  PROVE  /\ Sums(w) \in [0..Len(w) -> Nat]
         /\ Sums(w)[0] = 0
         /\ \A i \in 1..Len(w) : Sums(w)[i] = Sums(w)[i-1] + w[i]
<1> DEFINE step == [i \in 1..Len(w) |-> [x \in Nat |-> x + w[i]]]
           Sum(f) == f = [i \in 0..Len(w) |-> IF i = 0 THEN 0 ELSE f[i-1] + w[i]]
<1>1. Len(w) \in Nat /\ \A i \in 1..Len(w) : w[i] \in Nat
  OBVIOUS
<1>2. step \in [1..Len(w) -> [Nat -> Nat]]
  BY <1>1
<1>3. \A i \in 1..Len(w), x \in Nat : step[i][x] = x + w[i]
  BY <1>1
<1> HIDE DEF step
<1>4. PICK g : Rounds(g, Len(w), Nat, 0, step)
  <2>1. \A a \in Nat : \E g : Rounds(g, Len(w), Nat, a, step)
    BY <1>1, <1>2, Recursion, Zenon
  <2> QED
    BY <2>1
<1>5. g \in [0..Len(w) -> Nat] /\ g[0] = 0
      /\ \A i \in 1..Len(w) : g[i] = step[i][g[i-1]]
  BY <1>4 DEF Rounds
<1>6. ASSUME NEW i \in 1..Len(w) PROVE g[i-1] \in Nat /\ g[i] = g[i-1] + w[i]
  <2>1. i - 1 \in 0..Len(w)
    BY <1>1
  <2>2. g[i-1] \in Nat
    BY <1>5, <2>1
  <2>3. g[i] = step[i][g[i-1]]
    BY <1>5
  <2>4. step[i][g[i-1]] = g[i-1] + w[i]
    BY <2>2, <1>3
  <2> QED
    BY <2>2, <2>3, <2>4
<1>7. Sum(g)
  BY <1>1, <1>5, <1>6
<1>8. Sum(Sums(w))
  <2>1. Sums(w) = CHOOSE f : Sum(f)
    BY DEF Sums
  <2> HIDE DEF Sum
  <2> QED
    BY <1>7, <2>1, Zenon
<1>9. DOMAIN Sums(w) = 0..Len(w) /\ Sums(w)[0] = 0
      /\ \A i \in 1..Len(w) : Sums(w)[i] = Sums(w)[i-1] + w[i]
  BY <1>1, <1>8
<1>10. \A i \in 0..Len(w) : Sums(w)[i] = g[i]
  <2> DEFINE S == {i \in 0..Len(w) : Sums(w)[i] = g[i]}
  <2>1. 0 \in S
    BY <1>1, <1>5, <1>9
  <2>2. ASSUME NEW i \in 0..Len(w), i < Len(w), i \in S PROVE i + 1 \in S
    BY <1>1, <1>6, <1>9, <2>2
  <2> HIDE DEF S
  <2>3. \A i \in 0..Len(w) : i \in S
    BY <1>1, <2>1, <2>2, UpTo
  <2> QED
    BY <2>3 DEF S
<1>11. Sums(w) = [i \in 0..Len(w) |-> Sums(w)[i]]
  BY <1>8
<1> QED
  BY <1>5, <1>9, <1>10, <1>11

\* Sums of numbers only grow.
LEMMA SumsGrow ==
  ASSUME NEW w \in Seq(Nat), NEW i \in 0..Len(w), NEW j \in 0..Len(w), i <= j
  PROVE  Sums(w)[i] <= Sums(w)[j]
<1> DEFINE S == {m \in 0..Len(w) : i <= m => Sums(w)[i] <= Sums(w)[m]}
<1>1. Len(w) \in Nat /\ \A m \in 1..Len(w) : w[m] \in Nat
  OBVIOUS
<1>2. /\ \A m \in 0..Len(w) : Sums(w)[m] \in Nat
      /\ \A m \in 1..Len(w) : Sums(w)[m] = Sums(w)[m-1] + w[m]
  BY SumsOf
<1>3. 0 \in S
  BY <1>1, <1>2
<1>4. ASSUME NEW m \in 0..Len(w), m < Len(w), m \in S PROVE m + 1 \in S
  <2>1. m + 1 \in 1..Len(w) /\ m + 1 \in 0..Len(w)
    BY <1>1, <1>4
  <2>2. Sums(w)[m+1] = Sums(w)[m] + w[m+1] /\ w[m+1] \in Nat
        /\ Sums(w)[m] \in Nat /\ Sums(w)[i] \in Nat
    BY <1>1, <1>2, <2>1
  <2> QED
    BY <1>4, <2>1, <2>2
<1> HIDE DEF S
<1>5. \A m \in 0..Len(w) : m \in S
  BY <1>1, <1>3, <1>4, UpTo
<1> QED
  BY <1>5 DEF S

\* The sums of a list with x put in front.
LEMMA SumsCons ==
  ASSUME NEW w \in Seq(Nat), NEW v \in Seq(Nat), Len(v) = Len(w) + 1,
         \A i \in 1..Len(w) : v[i+1] = w[i]
  PROVE  \A i \in 0..Len(w) : Sums(v)[i+1] = v[1] + Sums(w)[i]
<1> DEFINE S == {i \in 0..Len(w) : Sums(v)[i+1] = v[1] + Sums(w)[i]}
<1>1. Len(w) \in Nat /\ v[1] \in Nat /\ \A i \in 1..Len(w) : w[i] \in Nat
  OBVIOUS
<1>2. /\ \A i \in 0..Len(w) : Sums(w)[i] \in Nat
      /\ Sums(w)[0] = 0 /\ Sums(v)[0] = 0
      /\ \A i \in 1..Len(w) : Sums(w)[i] = Sums(w)[i-1] + w[i]
      /\ \A i \in 1..Len(v) : Sums(v)[i] = Sums(v)[i-1] + v[i]
  BY SumsOf
<1>3. 0 \in S
  BY <1>1, <1>2
<1>4. ASSUME NEW i \in 0..Len(w), i < Len(w), i \in S PROVE i + 1 \in S
  <2> DEFINE j == i + 1
  <2>1. i \in Nat /\ j \in 1..Len(w) /\ j \in 0..Len(w) /\ j + 1 \in 1..Len(v) /\ j - 1 = i
    BY <1>1, <1>4
  <2>2. Sums(v)[i+1] = v[1] + Sums(w)[i]
    BY <1>4
  <2> HIDE DEF j, S
  <2>3. Sums(v)[j+1] = Sums(v)[j] + v[j+1]
    BY <1>2, <2>1
  <2>4. Sums(w)[j] = Sums(w)[i] + w[j] /\ Sums(w)[i] \in Nat /\ w[j] \in Nat /\ v[j+1] = w[j]
    BY <1>1, <1>2, <1>4, <2>1
  <2>5. Sums(v)[j] = v[1] + Sums(w)[i]
    BY <2>2 DEF j
  <2>6. Sums(v)[j+1] = v[1] + Sums(w)[j]
    BY <1>1, <2>3, <2>4, <2>5
  <2> QED
    BY <2>1, <2>6 DEF S, j
<1> HIDE DEF S
<1>5. \A i \in 0..Len(w) : i \in S
  BY <1>1, <1>3, <1>4, UpTo
<1> QED
  BY <1>5 DEF S

\* List m is list without its p-th element.
Erased(m, list, p) ==
  /\ Len(m) = Len(list) - 1
  /\ \A i \in 1..Len(m) : (i < p => m[i] = list[i]) /\ (i >= p => m[i] = list[i+1])

\* The sum of a list with one element taken out.
LEMMA SumsErased ==
  ASSUME NEW w \in Seq(Nat), NEW v \in Seq(Nat), NEW p \in 1..Len(w), Erased(v, w, p)
  PROVE  Sums(v)[Len(v)] + w[p] = Sums(w)[Len(w)]
<1> DEFINE T(i) == /\ i < p => Sums(v)[i] = Sums(w)[i]
                   /\ i >= p => Sums(v)[i] + w[p] = Sums(w)[i+1]
           S == {i \in 0..Len(v) : T(i)}
<1>1. Len(w) \in Nat /\ Len(v) \in Nat /\ Len(v) = Len(w) - 1 /\ p \in Nat
      /\ \A i \in 1..Len(w) : w[i] \in Nat
  BY DEF Erased
<1>2. /\ \A i \in 0..Len(w) : Sums(w)[i] \in Nat
      /\ \A i \in 0..Len(v) : Sums(v)[i] \in Nat
      /\ Sums(w)[0] = 0 /\ Sums(v)[0] = 0
      /\ \A i \in 1..Len(w) : Sums(w)[i] = Sums(w)[i-1] + w[i]
      /\ \A i \in 1..Len(v) : Sums(v)[i] = Sums(v)[i-1] + v[i]
  BY SumsOf
<1>3. 0 \in S
  BY <1>1, <1>2
<1>4. ASSUME NEW i \in 0..Len(v), i < Len(v), i \in S PROVE i + 1 \in S
  <2> DEFINE j == i + 1
  <2>1. T(i) /\ i \in 0..Len(v) /\ i < Len(v)
    BY <1>4
  <2> HIDE DEF T, S
  <2>2. /\ i \in Nat /\ j \in Nat /\ j \in 1..Len(v) /\ j \in 1..Len(w) /\ j - 1 = i
        /\ j \in 0..Len(v) /\ i \in 0..Len(w) /\ j \in 0..Len(w)
        /\ j + 1 \in 1..Len(w) /\ (j + 1) - 1 = j /\ j + 1 \in 0..Len(w)
    <3>1. Len(w) \in Nat /\ Len(v) = Len(w) - 1 /\ i \in Nat /\ i < Len(v)
      BY <1>1, <2>1
    <3>2. j \in Nat /\ j - 1 = i /\ (j + 1) - 1 = j /\ j \in 1..Len(v) /\ j \in 0..Len(v)
      BY <3>1
    <3>3. i \in 0..Len(w) /\ j \in 1..Len(w) /\ j \in 0..Len(w)
      BY <3>1
    <3>4. j + 1 \in 1..Len(w) /\ j + 1 \in 0..Len(w)
      BY <3>1
    <3> QED
      BY <3>1, <3>2, <3>3, <3>4
  <2> HIDE DEF j
  <2>3. Sums(v)[j] = Sums(v)[i] + v[j] /\ Sums(v)[i] \in Nat
    BY <1>2, <2>1, <2>2
  <2>4. Sums(w)[j] = Sums(w)[i] + w[j] /\ Sums(w)[i] \in Nat /\ w[j] \in Nat
    BY <1>1, <1>2, <2>2
  <2>5. Sums(w)[j+1] = Sums(w)[j] + w[j+1] /\ w[j+1] \in Nat /\ w[p] \in Nat
    BY <1>1, <1>2, <2>2
  <2>6. (j < p => v[j] = w[j]) /\ (j >= p => v[j] = w[j+1])
    BY <2>2 DEF Erased
  <2>7. /\ i < p => Sums(v)[i] = Sums(w)[i]
        /\ i >= p => Sums(v)[i] + w[p] = Sums(w)[j]
    BY <2>1 DEF T, j
  <2>8. CASE j < p
    <3>1. Sums(v)[j] = Sums(w)[j]
      BY <1>1, <2>2, <2>3, <2>4, <2>6, <2>7, <2>8
    <3> QED
      BY <1>1, <2>2, <2>8, <3>1 DEF T, S, j
  <2>9. CASE j >= p
    <3>1. ASSUME i < p PROVE Sums(v)[j] + w[p] = Sums(w)[j+1]
      <4>1. j = p
        BY <1>1, <2>2, <2>9, <3>1
      <4>2. Sums(v)[j] = Sums(w)[i] + w[j+1] /\ w[p] = w[j]
        BY <2>2, <2>3, <2>6, <2>7, <2>9, <3>1, <4>1
      <4> QED
        BY <2>4, <2>5, <4>2
    <3>2. ASSUME i >= p PROVE Sums(v)[j] + w[p] = Sums(w)[j+1]
      <4>1. v[j] = w[j+1] /\ Sums(v)[i] + w[p] = Sums(w)[j]
        BY <1>1, <2>2, <2>6, <2>7, <2>9, <3>2
      <4> QED
        BY <2>3, <2>5, <4>1
    <3>3. Sums(v)[j] + w[p] = Sums(w)[j+1]
      BY <1>1, <2>2, <3>1, <3>2
    <3> QED
      BY <1>1, <2>2, <2>9, <3>3 DEF T, S, j
  <2> QED
    BY <1>1, <2>2, <2>8, <2>9
<1>5. T(Len(v))
  <2> HIDE DEF S
  <2>1. \A i \in 0..Len(v) : i \in S
    BY <1>1, <1>3, <1>4, UpTo
  <2> QED
    BY <1>1, <2>1 DEF S
<1>6. CASE p = Len(w)
  BY <1>1, <1>2, <1>5, <1>6
<1>7. CASE p # Len(w)
  BY <1>1, <1>2, <1>5, <1>7
<1> QED
  BY <1>6, <1>7

\* A list and its beginning have the same sums, as far as the beginning goes.
LEMMA SumsPrefix ==
  ASSUME NEW w \in Seq(Nat), NEW v \in Seq(Nat), Len(v) <= Len(w),
         \A i \in 1..Len(v) : v[i] = w[i]
  PROVE  \A i \in 0..Len(v) : Sums(v)[i] = Sums(w)[i]
<1> DEFINE S == {i \in 0..Len(v) : Sums(v)[i] = Sums(w)[i]}
<1>1. Len(w) \in Nat /\ Len(v) \in Nat /\ Len(v) <= Len(w)
  OBVIOUS
<1>2. /\ Sums(w)[0] = 0 /\ Sums(v)[0] = 0
      /\ \A i \in 1..Len(w) : Sums(w)[i] = Sums(w)[i-1] + w[i]
      /\ \A i \in 1..Len(v) : Sums(v)[i] = Sums(v)[i-1] + v[i]
  BY SumsOf
<1>3. 0 \in S
  BY <1>1, <1>2
<1>4. ASSUME NEW i \in 0..Len(v), i < Len(v), i \in S PROVE i + 1 \in S
  <2> DEFINE j == i + 1
  <2>1. i \in Nat /\ j \in 1..Len(v) /\ j \in 1..Len(w) /\ j \in 0..Len(v) /\ j - 1 = i
    BY <1>1, <1>4
  <2>2. Sums(v)[i] = Sums(w)[i]
    BY <1>4
  <2> HIDE DEF j, S
  <2>3. Sums(v)[j] = Sums(w)[j]
    BY <1>2, <2>1, <2>2
  <2> QED
    BY <2>1, <2>3 DEF S, j
<1> HIDE DEF S
<1>5. \A i \in 0..Len(v) : i \in S
  BY <1>1, <1>3, <1>4, UpTo
<1> QED
  BY <1>5 DEF S

-------------------------------------------------------------------------------
(* Lists of keys *)

\* Removing the node at position p.
LEMMA RemoveAtErases ==
  ASSUME NEW list \in Seq(Keys), NEW p \in 1..Len(list)
  PROVE  RemoveAt(list, p) \in Seq(Keys) /\ Erased(RemoveAt(list, p), list, p)
<1>1. Len(list) \in Nat /\ p \in Nat /\ p <= Len(list) /\ 1 <= p
  OBVIOUS
<1> DEFINE a == SubSeq(list, 1, p - 1)
           b == SubSeq(list, p + 1, Len(list))
<1>2. a \in Seq(Keys) /\ Len(a) = p - 1 /\ \A i \in 1..(p-1) : a[i] = list[i]
  BY <1>1
<1>3. b \in Seq(Keys) /\ Len(b) = Len(list) - p /\ \A i \in 1..(Len(list)-p) : b[i] = list[p+i]
  BY <1>1
<1> HIDE DEF a, b
<1> DEFINE m == a \o b
<1>4. m \in Seq(Keys) /\ Len(m) = Len(list) - 1
      /\ \A i \in 1..Len(m) : m[i] = IF i <= p - 1 THEN a[i] ELSE b[i - (p - 1)]
  <2>1. m \in Seq(Keys) /\ Len(m) = Len(a) + Len(b)
        /\ \A i \in 1..(Len(a) + Len(b)) : m[i] = IF i <= Len(a) THEN a[i] ELSE b[i - Len(a)]
    BY <1>2, <1>3, ConcatProperties
  <2> HIDE DEF m
  <2> QED
    BY <1>1, <1>2, <1>3, <2>1
<1>5. ASSUME NEW i \in 1..Len(m) PROVE (i < p => m[i] = list[i]) /\ (i >= p => m[i] = list[i+1])
  <2>1. i \in Nat /\ i >= 1 /\ i <= Len(list) - 1
    BY <1>1, <1>4
  <2>2. ASSUME i < p PROVE m[i] = list[i]
    BY <1>1, <1>2, <1>4, <2>1, <2>2
  <2>3. ASSUME i >= p PROVE m[i] = list[i+1]
    <3>1. i - (p - 1) \in 1..(Len(list) - p) /\ p + (i - (p - 1)) = i + 1 /\ ~(i <= p - 1)
      BY <1>1, <2>1, <2>3
    <3>2. m[i] = b[i - (p - 1)]
      BY <1>4, <3>1
    <3> QED
      BY <1>3, <3>1, <3>2
  <2> QED
    BY <2>2, <2>3
<1>6. RemoveAt(list, p) = m
  BY DEF RemoveAt, a, b
<1> QED
  BY <1>4, <1>5, <1>6 DEF Erased

\* What a list without one of its keys holds, and in which order.
LEMMA ErasedList ==
  ASSUME NEW list \in Seq(Keys), IsInjective(list), NEW p \in 1..Len(list),
         NEW m \in Seq(Keys), Erased(m, list, p)
  PROVE  /\ IsInjective(m)
         /\ Range(m) = Range(list) \ {list[p]}
         /\ \A k, l : Before(m, k, l) <=> Before(list, k, l) /\ k # list[p] /\ l # list[p]
<1> DEFINE From(i) == IF i < p THEN i ELSE i + 1
           To(i) == IF i < p THEN i ELSE i - 1
<1>1. Len(list) \in Nat /\ p \in Nat /\ Len(m) = Len(list) - 1
      /\ DOMAIN list = 1..Len(list) /\ DOMAIN m = 1..Len(m)
  BY DEF Erased
<1>2. \A i \in 1..Len(m) : From(i) \in 1..Len(list) /\ From(i) # p /\ m[i] = list[From(i)]
  BY <1>1 DEF Erased
<1>3. \A i \in 1..Len(list) : i # p =>
        To(i) \in 1..Len(m) /\ m[To(i)] = list[i]
  BY <1>1 DEF Erased
<1>4. \A i, j \in 1..Len(m) : i < j <=> From(i) < From(j)
  BY <1>1
<1>5. \A i, j \in 1..Len(list) : i # p /\ j # p /\ i < j => To(i) < To(j)
  BY <1>1
<1> HIDE DEF From, To
<1>6. \A i, j \in 1..Len(list) : list[i] = list[j] => i = j
  BY <1>1 DEF IsInjective
<1>7. IsInjective(m)
  <2>1. SUFFICES ASSUME NEW i \in 1..Len(m), NEW j \in 1..Len(m), m[i] = m[j] PROVE i = j
    BY <1>1 DEF IsInjective
  <2>2. From(i) = From(j)
    BY <1>2, <1>6, <2>1
  <2>3. ~(i < j) /\ ~(j < i)
    BY <1>1, <1>2, <1>4, <2>2
  <2> QED
    BY <1>1, <2>3
<1>8. Range(m) = Range(list) \ {list[p]}
  <2>1. ASSUME NEW i \in 1..Len(m) PROVE m[i] \in Range(list) /\ m[i] # list[p]
    BY <1>1, <1>2, <1>6 DEF Range
  <2>2. ASSUME NEW i \in 1..Len(list), list[i] # list[p] PROVE list[i] \in Range(m)
    BY <1>1, <1>3, <2>2 DEF Range
  <2>3. \A x \in Range(m) : \E i \in 1..Len(m) : x = m[i]
    BY <1>1 DEF Range
  <2>4. \A x \in Range(list) : \E i \in 1..Len(list) : x = list[i]
    BY <1>1 DEF Range
  <2> QED
    BY <2>1, <2>2, <2>3, <2>4
<1>9. ASSUME NEW k, NEW l, Before(m, k, l) PROVE Before(list, k, l) /\ k # list[p] /\ l # list[p]
  <2>1. PICK i, j \in 1..Len(m) : i < j /\ m[i] = k /\ m[j] = l
    BY <1>1, <1>9 DEF Before
  <2>2. From(i) < From(j) /\ list[From(i)] = k /\ list[From(j)] = l
        /\ From(i) \in DOMAIN list /\ From(j) \in DOMAIN list /\ From(i) # p /\ From(j) # p
    BY <1>1, <1>2, <1>4, <2>1
  <2> QED
    BY <1>1, <1>6, <2>2 DEF Before
<1>10. ASSUME NEW k, NEW l, Before(list, k, l), k # list[p], l # list[p] PROVE Before(m, k, l)
  <2>1. PICK i, j \in 1..Len(list) : i < j /\ list[i] = k /\ list[j] = l
    BY <1>1, <1>10 DEF Before
  <2>2. To(i) < To(j) /\ m[To(i)] = k /\ m[To(j)] = l /\ To(i) \in DOMAIN m /\ To(j) \in DOMAIN m
    BY <1>1, <1>3, <1>5, <1>10, <2>1
  <2> QED
    BY <2>2 DEF Before
<1> QED
  BY <1>7, <1>8, <1>9, <1>10

\* List m is list with key in front.
Consed(m, key, list) ==
  /\ Len(m) = Len(list) + 1 /\ m[1] = key
  /\ \A i \in 1..Len(list) : m[i+1] = list[i]

\* Pushing a key the list does not have to the front keeps the list free of repetitions.
LEMMA ConsList ==
  ASSUME NEW list \in Seq(Keys), IsInjective(list), NEW key \in Keys, key \notin Range(list)
  PROVE  LET m == <<key>> \o list
         IN  /\ m \in Seq(Keys) /\ Consed(m, key, list)
             /\ IsInjective(m)
             /\ Range(m) = Range(list) \cup {key}
             /\ \A k, l : Before(m, k, l) <=> Before(list, k, l) \/ (k = key /\ l \in Range(list))
<1> DEFINE m == <<key>> \o list
<1>1. Len(list) \in Nat /\ DOMAIN list = 1..Len(list)
  OBVIOUS
<1>2. m \in Seq(Keys) /\ Len(m) = Len(list) + 1 /\ m[1] = key
      /\ \A i \in 1..Len(list) : m[i+1] = list[i]
  BY <1>1
<1> HIDE DEF m
<1>3. /\ DOMAIN m = 1..(Len(list)+1)
      /\ \A i \in DOMAIN m : i = 1 \/ (i - 1 \in 1..Len(list) /\ m[i] = list[i-1])
  <2>1. DOMAIN m = 1..(Len(list)+1)
    BY <1>1, <1>2
  <2>2. ASSUME NEW i \in 1..(Len(list)+1), i # 1
        PROVE  i - 1 \in 1..Len(list) /\ (i - 1) + 1 = i
    BY <1>1, <2>2
  <2> QED
    BY <1>2, <2>1, <2>2
<1>4. \A i \in 1..Len(list) : list[i] # key /\ \A j \in 1..Len(list) : list[i] = list[j] => i = j
  BY <1>1 DEF IsInjective, Range
<1>5. IsInjective(m)
  <2>1. SUFFICES ASSUME NEW i \in DOMAIN m, NEW j \in DOMAIN m, m[i] = m[j] PROVE i = j
    BY DEF IsInjective
  <2>2. i \in Nat /\ j \in Nat
    BY <1>1, <1>3
  <2> QED
    BY <1>2, <1>3, <1>4, <2>1, <2>2
<1>6. Range(m) = Range(list) \cup {key}
  <2>1. \A i \in DOMAIN m : m[i] \in Range(list) \cup {key}
    BY <1>1, <1>2, <1>3 DEF Range
  <2>2. \A i \in 1..Len(list) : i + 1 \in DOMAIN m
    BY <1>1, <1>3
  <2>3. 1 \in DOMAIN m
    BY <1>1, <1>3
  <2>4. \A x \in Range(list) : \E i \in 1..Len(list) : x = list[i]
    BY <1>1 DEF Range
  <2>5. \A x \in Range(list) : x \in Range(m)
    BY <1>2, <2>2, <2>4 DEF Range
  <2>6. key \in Range(m)
    BY <1>2, <2>3 DEF Range
  <2>7. \A x \in Range(m) : \E i \in DOMAIN m : x = m[i]
    BY DEF Range
  <2> QED
    BY <2>1, <2>5, <2>6, <2>7
<1>7. ASSUME NEW k, NEW l, Before(m, k, l)
      PROVE  Before(list, k, l) \/ (k = key /\ l \in Range(list))
  <2>1. PICK i, j \in DOMAIN m : i < j /\ m[i] = k /\ m[j] = l
    BY <1>7 DEF Before
  <2>2. j - 1 \in 1..Len(list) /\ m[j] = list[j-1] /\ i \in Nat /\ j \in Nat
    BY <1>1, <1>3, <2>1
  <2>3. CASE i = 1
    BY <1>1, <1>2, <2>1, <2>2, <2>3 DEF Range
  <2>4. CASE i # 1
    <3>1. i - 1 \in DOMAIN list /\ j - 1 \in DOMAIN list /\ i - 1 < j - 1
          /\ list[i-1] = k /\ list[j-1] = l
      BY <1>1, <1>3, <2>1, <2>2, <2>4
    <3> QED
      BY <3>1 DEF Before
  <2> QED
    BY <2>3, <2>4
<1>8. ASSUME NEW k, NEW l, Before(list, k, l) PROVE Before(m, k, l)
  <2>1. PICK i, j \in 1..Len(list) : i < j /\ list[i] = k /\ list[j] = l
    BY <1>1, <1>8 DEF Before
  <2>2. i + 1 \in DOMAIN m /\ j + 1 \in DOMAIN m /\ i + 1 < j + 1 /\ m[i+1] = k /\ m[j+1] = l
    BY <1>1, <1>2, <1>3, <2>1
  <2> QED
    BY <2>2 DEF Before
<1>9. ASSUME NEW l \in Range(list) PROVE Before(m, key, l)
  <2>1. PICK j \in 1..Len(list) : list[j] = l
    BY <1>1 DEF Range
  <2>2. 1 \in DOMAIN m /\ j + 1 \in DOMAIN m /\ 1 < j + 1 /\ m[1] = key /\ m[j+1] = l
    BY <1>1, <1>2, <1>3, <2>1
  <2> QED
    BY <2>2 DEF Before
<1>10. \A k, l : Before(m, k, l) <=> Before(list, k, l) \/ (k = key /\ l \in Range(list))
  BY <1>7, <1>8, <1>9
<1> QED
  BY <1>2, <1>5, <1>6, <1>10 DEF m, Consed

\* A list of distinct keys without one of them.
LEMMA WithoutList ==
  ASSUME NEW list \in Seq(Keys), IsInjective(list), NEW key
  PROVE  LET m == Without(list, key)
         IN  /\ m \in Seq(Keys) /\ IsInjective(m)
             /\ Range(m) = Range(list) \ {key}
             /\ \A k, l : Before(m, k, l) <=> Before(list, k, l) /\ k # key /\ l # key
             /\ key \in Range(list) => \E p \in 1..Len(list) : list[p] = key /\ Erased(m, list, p)
<1>1. DOMAIN list = 1..Len(list)
  OBVIOUS
<1>2. CASE key \in Range(list)
  <2> DEFINE p == NodeOf(list, key)
             m == RemoveAt(list, p)
  <2>1. \E i \in DOMAIN list : list[i] = key
    BY <1>2 DEF Range
  <2>2. p \in 1..Len(list) /\ list[p] = key
    BY <1>1, <2>1 DEF NodeOf
  <2>3. Without(list, key) = m
    BY <1>2 DEF Without
  <2> HIDE DEF p
  <2>4. m \in Seq(Keys) /\ Erased(m, list, p)
    BY <2>2, RemoveAtErases
  <2> HIDE DEF m
  <2>5. /\ IsInjective(m)
        /\ Range(m) = Range(list) \ {list[p]}
        /\ \A k, l : Before(m, k, l) <=> Before(list, k, l) /\ k # list[p] /\ l # list[p]
    BY <2>2, <2>4, ErasedList
  <2> QED
    BY <2>2, <2>3, <2>4, <2>5
<1>3. CASE key \notin Range(list)
  <2>1. Without(list, key) = list
    BY <1>3 DEF Without
  <2>2. \A k, l : Before(list, k, l) => k \in Range(list) /\ l \in Range(list)
    BY DEF Before, Range
  <2> QED
    BY <1>3, <2>1, <2>2
<1> QED
  BY <1>2, <1>3

\* A key that is used comes to the front; the others keep their order.
LEMMA ToFrontList ==
  ASSUME NEW list \in Seq(Keys), IsInjective(list), NEW key \in Keys
  PROVE  LET m == ToFront(list, key)
         IN  /\ m \in Seq(Keys) /\ IsInjective(m)
             /\ Range(m) = Range(list) \cup {key}
             /\ \A k, l : Before(m, k, l) <=> \/ Before(list, k, l) /\ k # key /\ l # key
                                              \/ k = key /\ l \in Range(list) \ {key}
             /\ Consed(m, key, Without(list, key))
<1> DEFINE n == Without(list, key)
           m == <<key>> \o n
<1>1. /\ n \in Seq(Keys) /\ IsInjective(n)
      /\ Range(n) = Range(list) \ {key}
      /\ \A k, l : Before(n, k, l) <=> Before(list, k, l) /\ k # key /\ l # key
  BY WithoutList
<1> HIDE DEF n
<1>2. key \notin Range(n)
  BY <1>1
<1>3. /\ m \in Seq(Keys) /\ Consed(m, key, n)
      /\ IsInjective(m)
      /\ Range(m) = Range(n) \cup {key}
      /\ \A k, l : Before(m, k, l) <=> Before(n, k, l) \/ (k = key /\ l \in Range(n))
  BY <1>1, <1>2, ConsList
<1>4. ToFront(list, key) = m
  BY DEF ToFront, n
<1> HIDE DEF m
<1>5. Range(m) = Range(list) \cup {key}
  BY <1>1, <1>3
<1>6. \A k, l : Before(m, k, l) <=> \/ Before(list, k, l) /\ k # key /\ l # key
                                    \/ k = key /\ l \in Range(list) \ {key}
  BY <1>1, <1>3
<1> QED
  BY <1>3, <1>4, <1>5, <1>6 DEF n

-------------------------------------------------------------------------------
(* The sizes of the entries of a list *)

Weights(c, list) == [i \in DOMAIN list |-> SizeOf[c[list[i]].data]]

Total(c, list) == Sums(Weights(c, list))[Len(list)]

\* Every key of the list has contents.
Filled(c, list) == \A k \in Range(list) : c[k].data \in Data

\* The weights of a list are the sizes of its entries, place by place.
LEMMA WeightsOf ==
  ASSUME NEW list \in Seq(Keys), NEW c, Filled(c, list)
  PROVE  /\ Weights(c, list) \in Seq(Nat) /\ Len(Weights(c, list)) = Len(list)
         /\ \A i \in 1..Len(list) : Weights(c, list)[i] = SizeOf[c[list[i]].data]
         /\ Total(c, list) \in Nat
<1>1. Len(list) \in Nat /\ DOMAIN list = 1..Len(list)
  OBVIOUS
<1>2. \A i \in 1..Len(list) : SizeOf[c[list[i]].data] \in Nat
  BY <1>1, CacheAssumption DEF Filled, Range
<1>3. Weights(c, list) = [i \in 1..Len(list) |-> SizeOf[c[list[i]].data]]
  BY <1>1 DEF Weights
<1>4. Weights(c, list) \in Seq(Nat) /\ Len(Weights(c, list)) = Len(list)
  BY <1>1, <1>2, <1>3
<1>5. Total(c, list) \in Nat
  BY <1>1, <1>4, SumsOf DEF Total
<1> QED
  BY <1>3, <1>4, <1>5

\* Pushing a key to the front adds the size of its entry to the total.
LEMMA TotalCons ==
  ASSUME NEW list \in Seq(Keys), NEW c, Filled(c, list), NEW key \in Keys, c[key].data \in Data,
         NEW m \in Seq(Keys), Consed(m, key, list)
  PROVE  Total(c, m) = SizeOf[c[key].data] + Total(c, list)
<1> DEFINE w == Weights(c, list)
           v == Weights(c, m)
<1>1. Len(list) \in Nat /\ Len(m) = Len(list) + 1 /\ m[1] = key
      /\ \A i \in 1..Len(list) : m[i+1] = list[i]
  BY DEF Consed
<1>2. Filled(c, m)
  <2>1. DOMAIN m = 1..(Len(list)+1) /\ DOMAIN list = 1..Len(list)
    BY <1>1
  <2>2. ASSUME NEW i \in DOMAIN m, i # 1 PROVE i - 1 \in 1..Len(list) /\ (i - 1) + 1 = i
    BY <1>1, <2>1, <2>2
  <2>3. \A i \in DOMAIN m : m[i] = key \/ m[i] \in Range(list)
    BY <1>1, <2>1, <2>2 DEF Range
  <2> QED
    BY <2>3 DEF Filled, Range
<1>3. w \in Seq(Nat) /\ v \in Seq(Nat) /\ Len(w) = Len(list) /\ Len(v) = Len(m)
      /\ \A i \in 1..Len(list) : w[i] = SizeOf[c[list[i]].data]
  BY <1>2, WeightsOf
<1>4. \A i \in 1..Len(m) : v[i] = SizeOf[c[m[i]].data]
  BY <1>2, WeightsOf
<1> HIDE DEF w, v
<1>5. Len(v) = Len(w) + 1 /\ v[1] = SizeOf[c[key].data]
  <2>1. 1 \in 1..Len(m)
    BY <1>1
  <2>2. ASSUME NEW i \in 1..Len(m), i = 1 PROVE v[i] = SizeOf[c[key].data]
    <3>1. v[i] = SizeOf[c[m[i]].data]
      BY <1>4
    <3>2. m[i] = key
      BY <1>1, <2>2
    <3> QED
      BY <3>1, <3>2
  <2> QED
    BY <1>1, <1>3, <2>2
<1>6. \A i \in 1..Len(w) : v[i+1] = w[i]
  <2>1. SUFFICES ASSUME NEW i \in 1..Len(list) PROVE v[i+1] = w[i]
    BY <1>3
  <2> DEFINE j == i + 1
  <2>2. j \in 1..Len(m) /\ m[j] = list[i]
    BY <1>1
  <2> HIDE DEF j
  <2>3. v[j] = SizeOf[c[m[j]].data]
    BY <1>4, <2>2
  <2>4. w[i] = SizeOf[c[list[i]].data]
    BY <1>3
  <2> QED
    BY <2>2, <2>3, <2>4 DEF j
<1>7. \A i \in 0..Len(w) : Sums(v)[i+1] = v[1] + Sums(w)[i]
  BY <1>3, <1>5, <1>6, SumsCons
<1>8. Sums(v)[Len(w)+1] = v[1] + Sums(w)[Len(w)]
  BY <1>1, <1>3, <1>7
<1> QED
  BY <1>1, <1>3, <1>5, <1>8 DEF Total, w, v

\* Erasing a key takes the size of its entry from the total.
LEMMA TotalWithout ==
  ASSUME NEW list \in Seq(Keys), IsInjective(list), NEW c, Filled(c, list), NEW key \in Range(list)
  PROVE  Total(c, Without(list, key)) + SizeOf[c[key].data] = Total(c, list)
<1> DEFINE m == Without(list, key)
           w == Weights(c, list)
           v == Weights(c, m)
<1>1. /\ m \in Seq(Keys) /\ Range(m) = Range(list) \ {key}
      /\ \E p \in 1..Len(list) : list[p] = key /\ Erased(m, list, p)
  BY WithoutList
<1>2. PICK p \in 1..Len(list) : list[p] = key /\ Erased(m, list, p)
  BY <1>1
<1>3. Filled(c, m)
  BY <1>1 DEF Filled
<1> HIDE DEF m
<1>4. /\ w \in Seq(Nat) /\ v \in Seq(Nat) /\ Len(w) = Len(list) /\ Len(v) = Len(m)
      /\ \A i \in 1..Len(list) : w[i] = SizeOf[c[list[i]].data]
      /\ \A i \in 1..Len(m) : v[i] = SizeOf[c[m[i]].data]
  BY <1>1, <1>3, WeightsOf
<1> HIDE DEF w, v
<1>5. Len(list) \in Nat /\ p \in Nat /\ Len(m) = Len(list) - 1 /\ p \in 1..Len(w)
      /\ w[p] = SizeOf[c[key].data]
  BY <1>2, <1>4 DEF Erased
<1>6. Erased(v, w, p)
  <2>1. ASSUME NEW i \in 1..Len(m)
        PROVE  i \in 1..Len(list) /\ i + 1 \in 1..Len(list)
               /\ (i < p => m[i] = list[i]) /\ (i >= p => m[i] = list[i+1])
    BY <1>2, <1>5 DEF Erased
  <2>2. ASSUME NEW i \in 1..Len(m)
        PROVE  (i < p => v[i] = w[i]) /\ (i >= p => v[i] = w[i+1])
    <3>1. v[i] = SizeOf[c[m[i]].data] /\ w[i] = SizeOf[c[list[i]].data]
          /\ w[i+1] = SizeOf[c[list[i+1]].data]
      BY <1>4, <2>1
    <3> QED
      BY <2>1, <3>1
  <2>3. Len(v) = Len(w) - 1 /\ Len(v) = Len(m)
    BY <1>4, <1>5
  <2> QED
    BY <2>2, <2>3 DEF Erased
<1>7. Sums(v)[Len(v)] + w[p] = Sums(w)[Len(w)]
  BY <1>4, <1>5, <1>6, SumsErased
<1> QED
  BY <1>4, <1>5, <1>7 DEF Total, w, v, m

\* Splicing a key to the front (get, put of a cached key) leaves the total alone.
LEMMA TotalToFront ==
  ASSUME NEW list \in Seq(Keys), IsInjective(list), NEW c, NEW key \in Keys,
         Filled(c, Without(list, key)), c[key].data \in Data
  PROVE  Total(c, ToFront(list, key)) = SizeOf[c[key].data] + Total(c, Without(list, key))
<1>1. Without(list, key) \in Seq(Keys)
  BY WithoutList
<1>2. ToFront(list, key) \in Seq(Keys) /\ Consed(ToFront(list, key), key, Without(list, key))
  BY ToFrontList
<1> QED
  BY <1>1, <1>2, TotalCons

\* Only the contents of the listed keys count.
LEMMA TotalSame ==
  ASSUME NEW list \in Seq(Keys), NEW c, NEW d, \A k \in Range(list) : c[k].data = d[k].data
  PROVE  Total(c, list) = Total(d, list)
<1>1. Weights(c, list) = Weights(d, list)
  BY DEF Weights, Range
<1> QED
  BY <1>1 DEF Total

-------------------------------------------------------------------------------
(* The inductive invariant *)

\* The listed keys are in the history; without that, a key that comes to the
\* front of both could have no place behind it in the history.
HistoryInv == Range(lru_list) \subseteq Range(recency)

IInv == CacheTypeOK /\ ListMatchesMap /\ ListIsLruOrder /\ SizeIsExact /\ HistoryInv

\* What the invariant says of the sizes.
LEMMA SizesOf ==
  ASSUME IInv
  PROVE  /\ Filled(cache, lru_list)
         /\ \A k \in Keys : cache[k] # NoEntry => cache[k] \in Entries
         /\ \A k \in Range(lru_list) : k \in Keys /\ cache[k] \in Entries
         /\ Weights(cache, lru_list) \in Seq(Nat)
         /\ Len(Weights(cache, lru_list)) = Len(lru_list)
         /\ \A n \in 0..Len(lru_list) : SizeUpTo(n) \in Nat
         /\ SizeUpTo(0) = 0
         /\ \A n \in 1..Len(lru_list) :
              /\ SizeUpTo(n) = SizeUpTo(n-1) + SizeOf[cache[lru_list[n]].data]
              /\ SizeOf[cache[lru_list[n]].data] \in Nat
         /\ \A i, j \in 0..Len(lru_list) : i <= j => SizeUpTo(i) <= SizeUpTo(j)
         /\ current_size = SizeUpTo(Len(lru_list))
         /\ current_size = Total(cache, lru_list)
<1> DEFINE w == Weights(cache, lru_list)
<1>1. lru_list \in Seq(Keys) /\ DOMAIN lru_list = 1..Len(lru_list) /\ Len(lru_list) \in Nat
  BY DEF IInv, CacheTypeOK
<1>2. \A k \in Keys : cache[k] # NoEntry => cache[k] \in Entries
  BY DEF IInv, CacheTypeOK
<1>3. \A k \in Range(lru_list) : k \in Keys /\ cache[k] \in Entries
  BY <1>2 DEF IInv, ListMatchesMap, Cached
<1>4. Filled(cache, lru_list)
  BY <1>3 DEF Filled, Entries
<1>5. w \in Seq(Nat) /\ Len(w) = Len(lru_list)
  BY <1>1, <1>4, WeightsOf
<1>6. \A i \in 1..Len(lru_list) : w[i] = SizeOf[cache[lru_list[i]].data]
  BY <1>1, <1>4, WeightsOf
<1>7. \A n : SizeUpTo(n) = Sums(w)[n]
  BY DEF SizeUpTo, Weights
<1> HIDE DEF w
<1>8. /\ \A n \in 0..Len(w) : Sums(w)[n] \in Nat
      /\ Sums(w)[0] = 0
      /\ \A n \in 1..Len(w) : Sums(w)[n] = Sums(w)[n-1] + w[n] /\ w[n] \in Nat
  <2>1. \A n \in 1..Len(w) : w[n] \in Nat
    BY <1>5
  <2> QED
    BY <1>5, <2>1, SumsOf
<1>9. \A i, j \in 0..Len(w) : i <= j => Sums(w)[i] <= Sums(w)[j]
  BY <1>5, SumsGrow
<1>10. current_size = SizeUpTo(Len(lru_list))
  BY DEF IInv, SizeIsExact
<1>11. current_size = Total(cache, lru_list)
  BY <1>7, <1>10 DEF Total, w
<1>12. \A n \in 1..Len(lru_list) :
         /\ SizeUpTo(n) = SizeUpTo(n-1) + SizeOf[cache[lru_list[n]].data]
         /\ SizeOf[cache[lru_list[n]].data] \in Nat
  BY <1>5, <1>6, <1>7, <1>8
<1>13. /\ \A n \in 0..Len(lru_list) : SizeUpTo(n) \in Nat
       /\ SizeUpTo(0) = 0
       /\ \A i, j \in 0..Len(lru_list) : i <= j => SizeUpTo(i) <= SizeUpTo(j)
  BY <1>5, <1>7, <1>8, <1>9
<1> QED
  BY <1>2, <1>3, <1>4, <1>5, <1>10, <1>11, <1>12, <1>13 DEF w

-------------------------------------------------------------------------------
(* The eviction loop *)

\* The state of the loop with the first m entries of the list left.
Kept(m) ==
  [list |-> SubSeq(lru_list, 1, m),
   size |-> SizeUpTo(m),
   gone |-> {lru_list[i] : i \in (m+1)..Len(lru_list)}]

\* One round evicts the last entry that is left.
LEMMA EvictOne ==
  ASSUME IInv, NEW m \in 1..Len(lru_list)
  PROVE  evict_lru(Kept(m)) = Kept(m-1)
<1>1. lru_list \in Seq(Keys) /\ Len(lru_list) \in Nat /\ m \in Nat /\ 1 <= m /\ m <= Len(lru_list)
  BY DEF IInv, CacheTypeOK
<1> DEFINE l == SubSeq(lru_list, 1, m)
<1>2. l \in Seq(Keys) /\ Len(l) = m /\ \A i \in 1..m : l[i] = lru_list[i]
  BY <1>1
<1>3. l[m] = lru_list[m]
  BY <1>1, <1>2
<1>4. SubSeq(l, 1, m - 1) = SubSeq(lru_list, 1, m - 1)
  <2>1. /\ SubSeq(l, 1, m-1) \in Seq(Keys) /\ Len(SubSeq(l, 1, m-1)) = m - 1
        /\ \A i \in 1..(m-1) : SubSeq(l, 1, m-1)[i] = l[i]
    BY <1>1, <1>2
  <2>2. /\ SubSeq(lru_list, 1, m-1) \in Seq(Keys) /\ Len(SubSeq(lru_list, 1, m-1)) = m - 1
        /\ \A i \in 1..(m-1) : SubSeq(lru_list, 1, m-1)[i] = lru_list[i]
    BY <1>1
  <2>3. \A i \in 1..(m-1) : SubSeq(l, 1, m-1)[i] = SubSeq(lru_list, 1, m-1)[i]
    BY <1>1, <1>2, <2>1, <2>2
  <2> QED
    BY <1>1, <2>1, <2>2, <2>3, SeqEqual
<1>5. SizeUpTo(m) - SizeOf[cache[lru_list[m]].data] = SizeUpTo(m-1)
  <2>1. SizeUpTo(m) = SizeUpTo(m-1) + SizeOf[cache[lru_list[m]].data]
        /\ SizeOf[cache[lru_list[m]].data] \in Nat
    BY SizesOf
  <2>2. SizeUpTo(m-1) \in Nat
    BY <1>1, SizesOf
  <2> QED
    BY <2>1, <2>2
<1>6. {lru_list[i] : i \in (m+1)..Len(lru_list)} \cup {lru_list[m]}
        = {lru_list[i] : i \in ((m-1)+1)..Len(lru_list)}
  <2>1. ((m-1)+1)..Len(lru_list) = ((m+1)..Len(lru_list)) \cup {m}
    BY <1>1
  <2> QED
    BY <2>1
<1> HIDE DEF l
<1>7. Kept(m).list = l /\ Kept(m).size = SizeUpTo(m)
      /\ Kept(m).gone = {lru_list[i] : i \in (m+1)..Len(lru_list)}
  BY DEF Kept, l
<1> QED
  BY <1>2, <1>3, <1>4, <1>5, <1>6, <1>7 DEF evict_lru, Kept

\* What the loop leaves: the longest beginning of the list that fits beside the
\* new contents, or nothing.
LEMMA EvictionLoop ==
  ASSUME IInv, NEW bytes \in Nat
  PROVE  \E m \in 0..Len(lru_list) :
           /\ EvictFor(bytes) = Kept(m)
           /\ m = 0 \/ SizeUpTo(m) + bytes <= MaxSize
           /\ \A j \in (m+1)..Len(lru_list) : SizeUpTo(j) + bytes > MaxSize
<1> DEFINE n == Len(lru_list)
           A == {Kept(m) : m \in 0..n}
           Round(x) == IF x.size + bytes > MaxSize /\ x.list # <<>> THEN evict_lru(x) ELSE x
           step == [i \in 1..n |-> [x \in A |-> Round(x)]]
           start == [list |-> lru_list, size |-> current_size, gone |-> {}]
           Loop(f) == f = [i \in 0..n |-> IF i = 0 THEN start
                                          ELSE IF f[i-1].size + bytes > MaxSize /\ f[i-1].list # <<>>
                                               THEN evict_lru(f[i-1])
                                               ELSE f[i-1]]
<1>1. lru_list \in Seq(Keys) /\ n \in Nat /\ MaxSize \in Nat
  BY CacheAssumption DEF IInv, CacheTypeOK
<1>2. start = Kept(n)
  <2>1. SubSeq(lru_list, 1, n) = lru_list
    BY <1>1
  <2>2. {lru_list[i] : i \in (n+1)..n} = {}
    BY <1>1
  <2> QED
    BY <2>1, <2>2, SizesOf DEF Kept
<1>3. ASSUME NEW m \in 0..n
      PROVE  /\ SizeUpTo(m) + bytes > MaxSize /\ m > 0 => Round(Kept(m)) = Kept(m-1)
             /\ ~(SizeUpTo(m) + bytes > MaxSize /\ m > 0) => Round(Kept(m)) = Kept(m)
  <2>1. SubSeq(lru_list, 1, m) # <<>> <=> m > 0
    BY <1>1
  <2>2. Kept(m).size = SizeUpTo(m) /\ Kept(m).list = SubSeq(lru_list, 1, m)
    BY DEF Kept
  <2>3. m > 0 => evict_lru(Kept(m)) = Kept(m-1)
    BY <1>1, EvictOne
  <2> QED
    BY <2>1, <2>2, <2>3
<1>4. ASSUME NEW x \in A PROVE Round(x) \in A
  <2>1. PICK m \in 0..n : x = Kept(m)
    OBVIOUS
  <2>2. m > 0 => m - 1 \in 0..n
    BY <1>1
  <2> HIDE DEF Round
  <2> QED
    BY <1>3, <2>1, <2>2
<1>5. step \in [1..n -> [A -> A]]
  BY <1>4
<1>6. \A i \in 1..n, x \in A : step[i][x] = Round(x)
  OBVIOUS
<1>7. Kept(n) \in A
  BY <1>1
<1> HIDE DEF A, step
<1>8. PICK g : Rounds(g, n, A, Kept(n), step)
  BY <1>1, <1>5, <1>7, Recursion
<1>9. g \in [0..n -> A] /\ g[0] = Kept(n) /\ \A i \in 1..n : g[i] = step[i][g[i-1]]
  BY <1>8 DEF Rounds
<1>10. ASSUME NEW i \in 1..n PROVE g[i] = Round(g[i-1])
  <2>1. i - 1 \in 0..n
    BY <1>1
  <2> HIDE DEF Round, n
  <2> QED
    BY <1>6, <1>9, <2>1
<1>11. Loop(g)
  <2>1. g = [i \in 0..n |-> g[i]]
    BY <1>9
  <2> QED
    BY <1>1, <1>2, <1>9, <1>10, <2>1, SMTT(30)
<1> DEFINE f == CHOOSE h : Loop(h)
<1>12. Loop(f)
  <2> HIDE DEF Loop
  <2> QED
    BY <1>11, Zenon
<1>13. EvictFor(bytes) = f[n]
  BY DEF EvictFor
<1> HIDE DEF f
<1>14. f[0] = Kept(n) /\ \A i \in 1..n : f[i] = Round(f[i-1])
  <2>1. f[0] = start
    BY <1>1, <1>12
  <2>2. ASSUME NEW i \in 1..n PROVE f[i] = Round(f[i-1])
    <3>1. i \in 0..n /\ i # 0
      BY <1>1
    <3>2. \A j \in 0..n : f[j] = IF j = 0 THEN start
                                 ELSE IF f[j-1].size + bytes > MaxSize /\ f[j-1].list # <<>>
                                      THEN evict_lru(f[j-1])
                                      ELSE f[j-1]
      BY <1>12, Zenon
    <3> HIDE DEF start, Loop
    <3> QED
      BY <3>1, <3>2, Zenon
  <2> QED
    BY <1>2, <2>1, <2>2
<1> HIDE DEF Loop, Round, start
\* After i rounds: i entries are gone, or the loop has come to its end.
<1> DEFINE Done(m, i) == /\ f[i] = Kept(m)
                         /\ m = n - i \/ m = 0 \/ SizeUpTo(m) + bytes <= MaxSize
                         /\ \A j \in (m+1)..n : SizeUpTo(j) + bytes > MaxSize
           S == {i \in 0..n : \E m \in 0..n : Done(m, i)}
<1>15. 0 \in S
  <2>1. Done(n, 0)
    BY <1>1, <1>14
  <2> HIDE DEF Done
  <2> QED
    BY <1>1, <2>1
<1>16. ASSUME NEW i \in 0..n, i < n, i \in S PROVE i + 1 \in S
  <2>1. PICK m \in 0..n : Done(m, i)
    BY <1>16
  <2> DEFINE k == i + 1
  <2>2. i \in Nat /\ k \in 1..n /\ k - 1 = i /\ k \in 0..n /\ m \in Nat
    BY <1>1, <1>16
  <2>3. f[k] = Round(f[i])
    BY <1>14, <2>2
  <2> HIDE DEF k
  <2>4. CASE SizeUpTo(m) + bytes > MaxSize /\ m > 0
    <3>1. f[k] = Kept(m-1) /\ m = n - i
      BY <1>3, <2>1, <2>3, <2>4, SizesOf, <1>1
    <3>2. m - 1 \in 0..n /\ m - 1 = n - k
      BY <1>1, <2>2, <2>4, <3>1
    <3>3. \A j \in ((m-1)+1)..n : j = m \/ j \in (m+1)..n
      BY <2>2
    <3>4. Done(m-1, k)
      BY <2>1, <2>4, <3>1, <3>2, <3>3
    <3> HIDE DEF Done
    <3> QED
      BY <2>2, <3>2, <3>4 DEF k
  <2>5. CASE ~(SizeUpTo(m) + bytes > MaxSize /\ m > 0)
    <3>1. f[k] = Kept(m)
      BY <1>3, <2>1, <2>3, <2>5
    <3>2. m = 0 \/ SizeUpTo(m) + bytes <= MaxSize
      BY <1>1, <2>2, <2>5, SizesOf
    <3>3. Done(m, k)
      BY <2>1, <3>1, <3>2
    <3> HIDE DEF Done
    <3> QED
      BY <2>2, <3>3 DEF k
  <2> QED
    BY <2>4, <2>5
<1>17. n \in S
  <2> HIDE DEF S
  <2>1. \A i \in 0..n : i \in S
    BY <1>1, <1>15, <1>16, UpTo
  <2> QED
    BY <1>1, <2>1
<1>18. PICK m \in 0..n : Done(m, n)
  BY <1>17
<1> QED
  BY <1>1, <1>13, <1>18

-------------------------------------------------------------------------------
(* The operations *)

\* The order of a list within the history.
InOrder(list, history) ==
  /\ IsInjective(list) /\ IsInjective(history)
  /\ Range(list) \subseteq Range(history)
  /\ \A k, l \in Keys : Before(list, k, l) => Before(history, k, l)

\* The invariant, from what an operation leaves behind.
LEMMA Established ==
  ASSUME cache' \in [Keys -> Entries \cup {NoEntry}],
         lru_list' \in Seq(Keys), recency' \in Seq(Keys),
         Range(lru_list') = {k \in Keys : cache'[k] # NoEntry},
         InOrder(lru_list', recency'),
         current_size' = Total(cache', lru_list')
  PROVE  IInv'
<1>1. Filled(cache', lru_list')
  BY DEF Filled, Entries
<1>2. Total(cache', lru_list') \in Nat
  BY <1>1, WeightsOf
<1>3. CacheTypeOK'
  BY <1>2 DEF CacheTypeOK
<1>4. ListMatchesMap'
  BY DEF ListMatchesMap, Cached, InOrder
<1>5. ListIsLruOrder'
  BY DEF ListIsLruOrder, InOrder
<1>6. SizeIsExact'
  BY DEF SizeIsExact, SizeUpTo, Total, Weights
<1>7. HistoryInv'
  BY DEF HistoryInv, InOrder
<1> QED
  BY <1>3, <1>4, <1>5, <1>6, <1>7 DEF IInv

\* And what it says now.
LEMMA Given ==
  ASSUME IInv
  PROVE  /\ cache \in [Keys -> Entries \cup {NoEntry}]
         /\ lru_list \in Seq(Keys) /\ recency \in Seq(Keys)
         /\ Range(lru_list) = {k \in Keys : cache[k] # NoEntry}
         /\ InOrder(lru_list, recency)
         /\ current_size = Total(cache, lru_list)
         /\ Filled(cache, lru_list)
  BY SizesOf DEF IInv, CacheTypeOK, ListMatchesMap, ListIsLruOrder, HistoryInv, InOrder, Cached

\* A list that lost keys is still in order, and so is one with a key put in
\* front that is the last one used.
LEMMA OrderKept ==
  ASSUME NEW list \in Seq(Keys), NEW history \in Seq(Keys), InOrder(list, history),
         NEW part \in Seq(Keys), IsInjective(part), Range(part) \subseteq Range(list),
         \A k, l \in Keys : Before(part, k, l) => Before(list, k, l)
  PROVE  /\ InOrder(part, history)
         /\ \A key \in Keys : /\ InOrder(ToFront(part, key), ToFront(history, key))
                              /\ ToFront(history, key) \in Seq(Keys)
<1>1. InOrder(part, history)
  BY DEF InOrder
<1>2. ASSUME NEW key \in Keys
      PROVE  /\ InOrder(ToFront(part, key), ToFront(history, key))
             /\ ToFront(history, key) \in Seq(Keys)
  <2> DEFINE p == ToFront(part, key)
             h == ToFront(history, key)
  <2>1. /\ p \in Seq(Keys) /\ IsInjective(p) /\ Range(p) = Range(part) \cup {key}
        /\ \A k, l : Before(p, k, l) <=> \/ Before(part, k, l) /\ k # key /\ l # key
                                         \/ k = key /\ l \in Range(part) \ {key}
    BY ToFrontList
  <2>2. IsInjective(history)
    BY DEF InOrder
  <2>3. /\ h \in Seq(Keys) /\ IsInjective(h) /\ Range(h) = Range(history) \cup {key}
        /\ \A k, l : Before(h, k, l) <=> \/ Before(history, k, l) /\ k # key /\ l # key
                                         \/ k = key /\ l \in Range(history) \ {key}
    BY <2>2, ToFrontList
  <2> HIDE DEF p, h
  <2>4. \A k, l \in Keys : Before(p, k, l) => Before(h, k, l)
    BY <1>1, <2>1, <2>3 DEF InOrder
  <2>5. Range(p) \subseteq Range(h)
    BY <1>1, <2>1, <2>3 DEF InOrder
  <2>6. InOrder(p, h) /\ h \in Seq(Keys)
    BY <2>1, <2>3, <2>4, <2>5 DEF InOrder
  <2> QED
    BY <2>6 DEF p, h
<1> QED
  BY <1>1, <1>2

\* remove, and get of an expired entry: the entry leaves map, list and books.
LEMMA DropStep ==
  ASSUME IInv, NEW key \in Keys, cache[key] # NoEntry,
         lru_list' = Without(lru_list, key),
         current_size' = current_size - SizeOf[cache[key].data],
         cache' = [cache EXCEPT ![key] = NoEntry], recency' = recency
  PROVE  IInv'
<1> USE Given
<1> DEFINE m == Without(lru_list, key)
<1>1. key \in Range(lru_list) /\ IsInjective(lru_list)
  BY DEF InOrder
<1>2. /\ m \in Seq(Keys) /\ IsInjective(m) /\ Range(m) = Range(lru_list) \ {key}
      /\ \A k, l : Before(m, k, l) <=> Before(lru_list, k, l) /\ k # key /\ l # key
  BY <1>1, WithoutList
<1>3. Total(cache, m) + SizeOf[cache[key].data] = Total(cache, lru_list)
  BY <1>1, TotalWithout
<1>4. lru_list' = m
  OBVIOUS
<1> HIDE DEF m
<1>5. InOrder(m, recency)
  BY <1>2, OrderKept
<1>6. cache' \in [Keys -> Entries \cup {NoEntry}]
      /\ \A k \in Keys : cache'[k] = IF k = key THEN NoEntry ELSE cache[k]
  OBVIOUS
<1>7. Range(m) = {k \in Keys : cache'[k] # NoEntry}
  BY <1>2, <1>6
<1>8. Total(cache', m) = Total(cache, m)
  <2>1. \A k \in Range(m) : cache'[k].data = cache[k].data
    BY <1>2, <1>6
  <2> QED
    BY <1>2, <2>1, TotalSame
<1>9. Total(cache, m) \in Nat /\ Total(cache, lru_list) \in Nat /\ SizeOf[cache[key].data] \in Nat
  <2>1. Filled(cache, m)
    BY <1>2 DEF Filled
  <2>2. Filled(cache, lru_list)
    OBVIOUS
  <2>3. cache[key].data \in Data
    BY <1>1, <2>2 DEF Filled
  <2> QED
    BY <1>2, <2>1, <2>2, <2>3, WeightsOf, CacheAssumption
<1>10. current_size' = Total(cache', m)
  BY <1>3, <1>8, <1>9
<1> QED
  BY <1>2, <1>4, <1>5, <1>6, <1>7, <1>10, Established

\* get of an entry that is there, and put of one: the key comes to the front and
\* its contents may be replaced.
LEMMA UseStep ==
  ASSUME IInv, NEW key \in Keys, cache[key] # NoEntry, NEW entry \in Entries,
         lru_list' = ToFront(lru_list, key),
         current_size' = current_size - SizeOf[cache[key].data] + SizeOf[entry.data],
         cache' = [cache EXCEPT ![key] = entry],
         recency' = ToFront(recency, key)
  PROVE  IInv'
<1> USE Given
<1> DEFINE m == Without(lru_list, key)
           t == ToFront(lru_list, key)
<1>1. key \in Range(lru_list) /\ IsInjective(lru_list)
  BY DEF InOrder
<1>2. m \in Seq(Keys) /\ Range(m) = Range(lru_list) \ {key}
  BY <1>1, WithoutList
<1>3. t \in Seq(Keys) /\ Range(t) = Range(lru_list) \cup {key}
  BY <1>1, ToFrontList
<1>4. InOrder(t, ToFront(recency, key)) /\ ToFront(recency, key) \in Seq(Keys)
  BY <1>1, OrderKept
<1>5. cache' \in [Keys -> Entries \cup {NoEntry}]
      /\ \A k \in Keys : cache'[k] = IF k = key THEN entry ELSE cache[k]
  OBVIOUS
<1>6. NoEntry \notin Entries
  BY CacheAssumption DEF Entries
<1>7. Range(t) = {k \in Keys : cache'[k] # NoEntry}
  BY <1>1, <1>3, <1>5, <1>6
<1>8. Total(cache, m) + SizeOf[cache[key].data] = Total(cache, lru_list)
  BY <1>1, TotalWithout
<1>9. Total(cache', m) = Total(cache, m)
  <2>1. \A k \in Range(m) : cache'[k].data = cache[k].data
    BY <1>2, <1>5
  <2> QED
    BY <1>2, <2>1, TotalSame
<1>10. Filled(cache', m) /\ cache'[key].data \in Data /\ Filled(cache, m)
  <2>1. Filled(cache, m)
    BY <1>2 DEF Filled
  <2>2. Filled(cache', m)
    BY <2>1, <1>2, <1>5 DEF Filled
  <2>3. cache'[key].data \in Data
    BY <1>5 DEF Entries
  <2> QED
    BY <2>1, <2>2, <2>3
<1>11. Total(cache', t) = SizeOf[entry.data] + Total(cache', m)
  <2>1. Total(cache', t) = SizeOf[cache'[key].data] + Total(cache', m)
    BY <1>1, <1>10, TotalToFront
  <2> QED
    BY <1>5, <2>1
<1>12. Total(cache, m) \in Nat /\ Total(cache, lru_list) \in Nat
       /\ SizeOf[cache[key].data] \in Nat /\ SizeOf[entry.data] \in Nat
  <2>1. Filled(cache, lru_list)
    OBVIOUS
  <2>2. cache[key].data \in Data /\ entry.data \in Data
    BY <1>1, <2>1 DEF Filled, Entries
  <2> QED
    BY <1>2, <1>10, <2>1, <2>2, WeightsOf, CacheAssumption
<1>13. lru_list' = t
  OBVIOUS
<1> HIDE DEF m, t
<1>14. current_size' = Total(cache', t)
  BY <1>8, <1>9, <1>11, <1>12, SMTT(30)
<1> QED
  BY <1>3, <1>4, <1>5, <1>7, <1>13, <1>14, Established

\* The beginning of the list that the eviction loop leaves.
LEMMA KeptList ==
  ASSUME IInv, NEW m \in 0..Len(lru_list)
  PROVE  /\ Kept(m).list \in Seq(Keys) /\ IsInjective(Kept(m).list)
         /\ Range(Kept(m).list) = {lru_list[i] : i \in 1..m}
         /\ Range(Kept(m).list) = Range(lru_list) \ Kept(m).gone
         /\ \A k, l : Before(Kept(m).list, k, l) => Before(lru_list, k, l)
         /\ Total(cache, Kept(m).list) = SizeUpTo(m)
         /\ Kept(m).size = SizeUpTo(m)
<1> USE Given
<1> DEFINE n == Len(lru_list)
           l == SubSeq(lru_list, 1, m)
<1>1. n \in Nat /\ m \in Nat /\ m <= n /\ DOMAIN lru_list = 1..n
  OBVIOUS
<1>2. l \in Seq(Keys) /\ Len(l) = m /\ DOMAIN l = 1..m /\ \A i \in 1..m : l[i] = lru_list[i]
  BY <1>1
<1> HIDE DEF l
<1>3. \A i, j \in 1..n : lru_list[i] = lru_list[j] => i = j
  BY <1>1 DEF InOrder, IsInjective
<1>4. \A i \in 1..m : i \in 1..n
  BY <1>1
<1>5. IsInjective(l)
  BY <1>2, <1>3, <1>4 DEF IsInjective
<1>6. Range(l) = {lru_list[i] : i \in 1..m}
  BY <1>2 DEF Range
<1>7. Range(l) = Range(lru_list) \ {lru_list[i] : i \in (m+1)..n}
  <2>1. \A i \in 1..n : i \in 1..m \/ i \in (m+1)..n
    BY <1>1
  <2>2. \A i \in (m+1)..n : i \in 1..n /\ i \notin 1..m
    BY <1>1
  <2>3. \A i \in 1..m : i \notin (m+1)..n
    BY <1>1
  <2>4. Range(lru_list) = {lru_list[i] : i \in 1..n}
    BY <1>1 DEF Range
  <2> QED
    BY <1>3, <1>4, <1>6, <2>1, <2>2, <2>3, <2>4
<1>8. \A k, k2 : Before(l, k, k2) => Before(lru_list, k, k2)
  BY <1>1, <1>2, <1>4 DEF Before
<1>9. Total(cache, l) = SizeUpTo(m)
  <2> DEFINE w == Weights(cache, lru_list)
             v == Weights(cache, l)
  <2>1. Filled(cache, l)
    BY <1>7 DEF Filled
  <2>2. w \in Seq(Nat) /\ Len(w) = n /\ \A i \in 1..n : w[i] = SizeOf[cache[lru_list[i]].data]
    BY WeightsOf
  <2>3. v \in Seq(Nat) /\ Len(v) = m /\ \A i \in 1..m : v[i] = SizeOf[cache[l[i]].data]
    BY <1>2, <2>1, WeightsOf, SMTT(30)
  <2>4. SizeUpTo(m) = Sums(w)[m]
    BY DEF SizeUpTo, Weights
  <2>5. Total(cache, l) = Sums(v)[m]
    BY <1>2 DEF Total
  <2> HIDE DEF w, v
  <2>6. \A i \in 1..m : v[i] = w[i]
    BY <1>2, <1>4, <2>2, <2>3, SMTT(30)
  <2>7. \A i \in 0..m : Sums(v)[i] = Sums(w)[i]
    BY <1>1, <2>2, <2>3, <2>6, SumsPrefix
  <2> QED
    BY <1>1, <2>4, <2>5, <2>7
<1>10. Kept(m).list = l /\ Kept(m).size = SizeUpTo(m)
       /\ Kept(m).gone = {lru_list[i] : i \in (m+1)..n}
  BY DEF Kept, l
<1> QED
  BY <1>2, <1>5, <1>6, <1>7, <1>8, <1>9, <1>10

\* put of a new key.
LEMMA InsertStep ==
  ASSUME IInv, NEW key \in Keys, NEW data \in Data, PutInsert(key, data)
  PROVE  IInv'
<1> USE Given
<1> DEFINE bytes == SizeOf[data]
<1>1. bytes \in Nat
  BY CacheAssumption
<1>2. PICK m \in 0..Len(lru_list) : EvictFor(bytes) = Kept(m)
  BY <1>1, EvictionLoop
<1> DEFINE s == Kept(m)
           t == ToFront(s.list, key)
<1>3. /\ s.list \in Seq(Keys) /\ IsInjective(s.list)
      /\ Range(s.list) = Range(lru_list) \ s.gone
      /\ \A k, l : Before(s.list, k, l) => Before(lru_list, k, l)
      /\ Total(cache, s.list) = s.size
  BY KeptList
<1>4. /\ cache[key] = NoEntry
      /\ lru_list' = <<key>> \o s.list
      /\ cache' = [k \in Keys |-> IF k = key THEN NewEntry(data)
                                  ELSE IF k \in s.gone THEN NoEntry ELSE cache[k]]
      /\ current_size' = s.size + bytes
      /\ recency' = ToFront(recency, key)
  BY <1>2 DEF PutInsert, ToFront
<1> HIDE DEF s
<1>5. key \notin Range(lru_list) /\ key \notin Range(s.list)
  BY <1>3, <1>4
<1>6. Without(s.list, key) = s.list
  BY <1>5 DEF Without
<1>7. lru_list' = t
  BY <1>4, <1>6 DEF ToFront
<1>8. t \in Seq(Keys) /\ Range(t) = Range(s.list) \cup {key}
  BY <1>3, ToFrontList
<1>9. InOrder(t, ToFront(recency, key)) /\ ToFront(recency, key) \in Seq(Keys)
  <2>1. Range(s.list) \subseteq Range(lru_list)
    BY <1>3
  <2> HIDE DEF t
  <2> QED
    BY <1>3, <2>1, OrderKept DEF t
<1>10. NewEntry(data) \in Entries /\ NewEntry(data).data = data /\ NoEntry \notin Entries
  BY CacheAssumption DEF NewEntry, Entries
<1>11. cache' \in [Keys -> Entries \cup {NoEntry}]
  BY <1>4, <1>10
<1>12. Range(t) = {k \in Keys : cache'[k] # NoEntry}
  BY <1>3, <1>4, <1>8, <1>10
<1>13. \A k \in Range(s.list) : cache'[k].data = cache[k].data
  BY <1>3, <1>4, <1>5
<1>14. Filled(cache', s.list) /\ cache'[key].data = data
  <2>1. \A k \in Range(s.list) : cache[k].data \in Data
    BY <1>3 DEF Filled
  <2>2. cache'[key].data = data
    BY <1>4, <1>10
  <2> QED
    BY <1>13, <2>1, <2>2 DEF Filled
<1>15. Total(cache', s.list) = s.size
  <2>1. Total(cache', s.list) = Total(cache, s.list)
    BY <1>3, <1>13, TotalSame
  <2> QED
    BY <1>3, <2>1
<1>16. Total(cache', t) = bytes + Total(cache', s.list)
  <2>1. Total(cache', t) = SizeOf[cache'[key].data] + Total(cache', Without(s.list, key))
    BY <1>3, <1>6, <1>14, TotalToFront
  <2> QED
    BY <1>6, <1>14, <2>1
<1>17. Total(cache', s.list) \in Nat
  BY <1>3, <1>14, WeightsOf
<1> HIDE DEF t, bytes
<1>18. current_size' = Total(cache', t)
  BY <1>1, <1>4, <1>15, <1>16, <1>17
<1> QED
  BY <1>4, <1>7, <1>8, <1>9, <1>11, <1>12, <1>18, Established

\* put of contents that are larger than the cache.
LEMMA TooLargeStep ==
  ASSUME IInv, NEW key \in Keys, NEW data \in Data, PutTooLarge(key, data)
  PROVE  IInv'
<1> USE Given
<1>1. SizeOf[data] \in Nat
  BY CacheAssumption
<1>2. PICK m \in 0..Len(lru_list) : EvictFor(SizeOf[data]) = Kept(m)
  BY <1>1, EvictionLoop
<1> DEFINE s == Kept(m)
<1>3. /\ s.list \in Seq(Keys) /\ IsInjective(s.list)
      /\ Range(s.list) = Range(lru_list) \ s.gone
      /\ \A k, l : Before(s.list, k, l) => Before(lru_list, k, l)
      /\ Total(cache, s.list) = s.size
  BY KeptList
<1>4. /\ lru_list' = s.list
      /\ cache' = [k \in Keys |-> IF k \in s.gone THEN NoEntry ELSE cache[k]]
      /\ current_size' = s.size
      /\ recency' = recency
  BY <1>2 DEF PutTooLarge
<1> HIDE DEF s
<1>5. InOrder(s.list, recency)
  BY <1>3, OrderKept
<1>6. cache' \in [Keys -> Entries \cup {NoEntry}]
  BY <1>4
<1>7. Range(s.list) = {k \in Keys : cache'[k] # NoEntry}
  BY <1>3, <1>4
<1>8. Total(cache', s.list) = Total(cache, s.list)
  <2>1. \A k \in Range(s.list) : cache'[k].data = cache[k].data
    BY <1>3, <1>4
  <2> QED
    BY <1>3, <2>1, TotalSame
<1> QED
  BY <1>3, <1>4, <1>5, <1>6, <1>7, <1>8, Established

\* clear.
LEMMA EmptyCache ==
  ASSUME cache' = [k \in Keys |-> NoEntry], lru_list' = <<>>, current_size' = 0,
         recency' \in Seq(Keys), IsInjective(recency')
  PROVE  IInv'
<1> DEFINE e == <<>>
<1>1. e \in Seq(Keys) /\ Len(e) = 0 /\ DOMAIN e = {}
  OBVIOUS
<1>2. Range(e) = {} /\ IsInjective(e) /\ \A k, l : ~Before(e, k, l)
  BY <1>1 DEF Range, IsInjective, Before
<1>3. Weights(cache', e) \in Seq(Nat) /\ Len(Weights(cache', e)) = 0
  BY <1>1, <1>2, WeightsOf DEF Filled
<1>4. Total(cache', e) = 0
  BY <1>1, <1>3, SumsOf DEF Total
<1>5. cache' \in [Keys -> Entries \cup {NoEntry}] /\ {k \in Keys : cache'[k] # NoEntry} = {}
  OBVIOUS
<1>6. InOrder(e, recency')
  BY <1>2 DEF InOrder
<1>7. lru_list' = e
  OBVIOUS
<1> HIDE DEF e
<1> QED
  BY <1>1, <1>2, <1>4, <1>5, <1>6, <1>7, Established

\* Entries that grow older.
LEMMA TickStep ==
  ASSUME IInv, Tick
  PROVE  IInv'
<1> USE Given
<1>1. NoEntry \notin Entries /\ TTL \in Nat
  BY CacheAssumption DEF Entries
<1>2. ASSUME NEW k \in Keys
      PROVE  /\ cache'[k] \in Entries \cup {NoEntry}
             /\ cache'[k] # NoEntry <=> cache[k] # NoEntry
             /\ cache'[k].data = cache[k].data
  <2>1. CASE cache[k] # NoEntry /\ cache[k].age < TTL
    <3>1. cache'[k] = [cache[k] EXCEPT !.age = @ + 1]
      BY <2>1 DEF Tick
    <3>2. cache[k] \in Entries
      BY <2>1
    <3> QED
      BY <1>1, <2>1, <3>1, <3>2 DEF Entries
  <2>2. CASE ~(cache[k] # NoEntry /\ cache[k].age < TTL)
    <3>1. cache'[k] = cache[k]
      BY <2>2 DEF Tick
    <3> QED
      BY <3>1
  <2> QED
    BY <2>1, <2>2
<1>3. cache' \in [Keys -> Entries \cup {NoEntry}]
  <2>1. cache' = [k \in Keys |-> cache'[k]]
    BY DEF Tick
  <2> QED
    BY <1>2, <2>1
<1>4. lru_list' = lru_list /\ current_size' = current_size /\ recency' = recency
  BY DEF Tick
<1>5. Total(cache', lru_list) = Total(cache, lru_list)
  <2>1. \A k \in Range(lru_list) : cache'[k].data = cache[k].data
    BY <1>2
  <2> QED
    BY <2>1, TotalSame
<1>6. Range(lru_list) = {k \in Keys : cache'[k] # NoEntry}
  BY <1>2
<1> QED
  BY <1>3, <1>4, <1>5, <1>6, Established

\* A step that leaves the variables alone keeps the invariant.
LEMMA Unchanged ==
  ASSUME IInv, UNCHANGED cacheVars
  PROVE  IInv'
<1> USE Given
<1>1. cache' = cache /\ lru_list' = lru_list /\ current_size' = current_size /\ recency' = recency
  BY DEF cacheVars
<1> QED
  BY <1>1, Established

\* LRUCache::get keeps the invariant: a hit moves its key to the front, an expired
\* entry is erased from map, list and size together.
LEMMA GetStep ==
  ASSUME IInv, NEW key \in Keys, get(key)
  PROVE  IInv'
<1>1. CASE UNCHANGED cacheVars
  BY <1>1, Unchanged
<1>2. CASE /\ cache[key] # NoEntry
           /\ lru_list' = Without(lru_list, key)
           /\ current_size' = current_size - SizeOf[cache[key].data]
           /\ cache' = [cache EXCEPT ![key] = NoEntry]
           /\ UNCHANGED recency
  BY <1>2, DropStep
<1>3. CASE /\ Hit(key)
           /\ lru_list' = ToFront(lru_list, key)
           /\ recency' = <<key>> \o Without(recency, key)
           /\ UNCHANGED <<cache, current_size>>
  <2>1. cache[key] # NoEntry /\ cache[key] \in Entries /\ cache \in [Keys -> Entries \cup {NoEntry}]
    BY <1>3, Given DEF Hit
  <2>2. SizeOf[cache[key].data] \in Nat /\ current_size \in Nat
    BY <2>1, CacheAssumption DEF Entries, IInv, CacheTypeOK
  <2>3. recency' = ToFront(recency, key) /\ lru_list' = ToFront(lru_list, key)
    BY <1>3 DEF ToFront
  <2>4. cache' = [cache EXCEPT ![key] = cache[key]]
    BY <1>3, <2>1
  <2>5. current_size' = current_size - SizeOf[cache[key].data] + SizeOf[cache[key].data]
    BY <1>3, <2>2
  <2> QED
    BY <2>1, <2>3, <2>4, <2>5, UseStep
<1> QED
  BY <1>1, <1>2, <1>3 DEF get

\* LRUCache::put keeps the invariant, whichever of its three outcomes it has.
LEMMA PutStep ==
  ASSUME IInv, NEW key \in Keys, NEW data \in Data, put(key, data)
  PROVE  IInv'
<1>1. CASE UNCHANGED cacheVars
  BY <1>1, Unchanged
<1>2. CASE PutReplace(key, data)
  <2>1. NewEntry(data) \in Entries /\ NewEntry(data).data = data
    BY CacheAssumption DEF NewEntry, Entries
  <2>2. /\ cache[key] # NoEntry
        /\ current_size' = current_size - SizeOf[cache[key].data] + SizeOf[NewEntry(data).data]
        /\ cache' = [cache EXCEPT ![key] = NewEntry(data)]
        /\ lru_list' = ToFront(lru_list, key)
        /\ recency' = ToFront(recency, key)
    BY <1>2, <2>1 DEF PutReplace, ToFront
  <2> QED
    BY <2>1, <2>2, UseStep
<1>3. CASE PutInsert(key, data)
  BY <1>3, InsertStep
<1>4. CASE PutTooLarge(key, data)
  BY <1>4, TooLargeStep
<1> QED
  BY <1>1, <1>2, <1>3, <1>4 DEF put

\* LRUCache::remove keeps the invariant.
LEMMA RemoveStep ==
  ASSUME IInv, NEW key \in Keys, remove(key)
  PROVE  IInv'
<1>1. CASE UNCHANGED cacheVars
  BY <1>1, Unchanged
<1>2. CASE /\ cache[key] # NoEntry
           /\ current_size' = current_size - SizeOf[cache[key].data]
           /\ lru_list' = Without(lru_list, key)
           /\ cache' = [cache EXCEPT ![key] = NoEntry]
           /\ UNCHANGED recency
  BY <1>2, DropStep
<1> QED
  BY <1>1, <1>2 DEF remove

\* LRUCache::clear keeps the invariant.
LEMMA ClearStep ==
  ASSUME IInv, clear
  PROVE  IInv'
<1>1. recency' \in Seq(Keys) /\ IsInjective(recency')
  BY Given DEF clear, InOrder
<1> QED
  BY <1>1, EmptyCache DEF clear

-------------------------------------------------------------------------------
(* Theorems *)

\* The empty cache satisfies the invariant.
LEMMA CacheInit == Init => IInv
<1> SUFFICES ASSUME Init PROVE IInv
  OBVIOUS
<1>1. lru_list = <<>> /\ recency = <<>> /\ current_size = 0 /\ cache = [k \in Keys |-> NoEntry]
  BY DEF Init
<1> DEFINE e == <<>>
<1>2. e \in Seq(Keys) /\ Len(e) = 0 /\ DOMAIN e = {}
  OBVIOUS
<1>3. Range(e) = {} /\ IsInjective(e) /\ \A k, l : ~Before(e, k, l)
  BY <1>2 DEF Range, IsInjective, Before
<1>4. Weights(cache, e) \in Seq(Nat) /\ Len(Weights(cache, e)) = 0
  BY <1>2, <1>3, WeightsOf DEF Filled
<1>5. Total(cache, e) = 0
  BY <1>2, <1>4, SumsOf DEF Total
<1>6. lru_list = e /\ recency = e
  BY <1>1
<1> HIDE DEF e
<1>7. CacheTypeOK
  BY <1>1, <1>2, <1>6 DEF CacheTypeOK
<1>8. ListMatchesMap
  BY <1>1, <1>3, <1>6 DEF ListMatchesMap, Cached
<1>9. ListIsLruOrder
  BY <1>3, <1>6 DEF ListIsLruOrder
<1>10. SizeIsExact
  BY <1>1, <1>5, <1>6 DEF SizeIsExact, SizeUpTo, Total, Weights
<1>11. HistoryInv
  BY <1>3, <1>6 DEF HistoryInv
<1> QED
  BY <1>7, <1>8, <1>9, <1>10, <1>11 DEF IInv

\* Every operation of the cache, and time, keep the invariant.
LEMMA CacheNext == IInv /\ [Next]_cacheVars => IInv'
<1> SUFFICES ASSUME IInv, [Next]_cacheVars PROVE IInv'
  OBVIOUS
<1>1. ASSUME NEW k \in Keys, get(k) PROVE IInv'
  BY <1>1, GetStep
<1>2. ASSUME NEW k \in Keys, remove(k) PROVE IInv'
  BY <1>2, RemoveStep
<1>3. ASSUME NEW k \in Keys, NEW d \in Data, put(k, d) PROVE IInv'
  BY <1>3, PutStep
<1>4. CASE clear
  BY <1>4, ClearStep
<1>5. CASE Tick
  BY <1>5, TickStep
<1>6. CASE UNCHANGED cacheVars
  BY <1>6, Unchanged
<1> QED
  BY <1>1, <1>2, <1>3, <1>4, <1>5, <1>6 DEF Next

\* The invariant of all of the following.
THEOREM CacheInvariance == Spec => []IInv
  BY CacheInit, CacheNext, PTL DEF Spec

\* Entries, list and size keep their types; current_size_ never wraps below zero.
THEOREM CacheTypes == Spec => []CacheTypeOK
<1>1. IInv => CacheTypeOK
  BY DEF IInv
<1> QED
  BY <1>1, CacheInvariance, PTL

\* cache_ and lru_list_ hold the same keys, so no iterator in the map dangles
\* and evict_lru finds its victim in the map.
THEOREM ListAndMapAgree == Spec => []ListMatchesMap
<1>1. IInv => ListMatchesMap
  BY DEF IInv
<1> QED
  BY <1>1, CacheInvariance, PTL

\* lru_list_ is in order of last use, whatever was replaced, removed, evicted or
\* expired in between.
THEOREM ListInOrder == Spec => []ListIsLruOrder
<1>1. IInv => ListIsLruOrder
  BY DEF IInv
<1> QED
  BY <1>1, CacheInvariance, PTL

\* current_size_ is the sum of the sizes of the contents.
THEOREM SizeStaysExact == Spec => []SizeIsExact
<1>1. IInv => SizeIsExact
  BY DEF IInv
<1> QED
  BY <1>1, CacheInvariance, PTL

\* An insertion evicts the least recently used entries, as many as it must.
LEMMA InsertEvicts ==
  ASSUME IInv, NEW key \in Keys, NEW data \in Data, PutInsert(key, data)
  PROVE  /\ cache'[key].data = data
         /\ \A k \in Keys : cache[k] = NoEntry /\ cache'[k] # NoEntry => k = key
         /\ \A i \in DOMAIN lru_list :
              cache'[lru_list[i]] # NoEntry <=> SizeUpTo(i) + SizeOf[data] <= MaxSize
         /\ current_size' <= MaxSize
<1> DEFINE n == Len(lru_list)
           bytes == SizeOf[data]
<1>1. bytes \in Nat /\ n \in Nat /\ MaxSize \in Nat /\ DOMAIN lru_list = 1..n /\ bytes <= MaxSize
  BY CacheAssumption, Given DEF PutInsert
<1>2. PICK m \in 0..n :
        /\ EvictFor(bytes) = Kept(m)
        /\ m = 0 \/ SizeUpTo(m) + bytes <= MaxSize
        /\ \A j \in (m+1)..n : SizeUpTo(j) + bytes > MaxSize
  BY <1>1, EvictionLoop
<1>3. /\ cache[key] = NoEntry
      /\ cache' = [k \in Keys |-> IF k = key THEN NewEntry(data)
                                  ELSE IF k \in Kept(m).gone THEN NoEntry ELSE cache[k]]
      /\ current_size' = Kept(m).size + bytes
  BY <1>2 DEF PutInsert
<1>4. /\ Range(Kept(m).list) = {lru_list[i] : i \in 1..m}
      /\ Range(Kept(m).list) = Range(lru_list) \ Kept(m).gone
      /\ Kept(m).size = SizeUpTo(m)
      /\ Kept(m).gone = {lru_list[i] : i \in (m+1)..n}
  BY KeptList DEF Kept
<1>5. Range(lru_list) = {k \in Keys : cache[k] # NoEntry}
  BY Given
<1>6. /\ \A i \in 0..n : SizeUpTo(i) \in Nat
      /\ SizeUpTo(0) = 0
      /\ \A i, j \in 0..n : i <= j => SizeUpTo(i) <= SizeUpTo(j)
  BY SizesOf
<1>7. SizeUpTo(m) + bytes <= MaxSize
  <2>1. CASE m = 0
    BY <1>1, <1>6, <2>1
  <2> QED
    BY <1>2, <2>1
<1> HIDE DEF bytes, n
<1>8. ASSUME NEW i \in 1..n
      PROVE  cache'[lru_list[i]] # NoEntry <=> SizeUpTo(i) + bytes <= MaxSize
  <2>1. lru_list[i] \in Range(lru_list)
    BY <1>1 DEF Range
  <2>2. lru_list[i] \in Keys /\ cache[lru_list[i]] # NoEntry /\ lru_list[i] # key
    BY <1>3, <1>5, <2>1
  <2>3. cache'[lru_list[i]] # NoEntry <=> lru_list[i] \notin Kept(m).gone
    BY <1>3, <2>2
  <2>4. CASE i <= m
    <3>1. i \in 1..m /\ i \in 0..n /\ m \in 0..n
      BY <1>1, <2>4
    <3>2. lru_list[i] \in {lru_list[j] : j \in 1..m}
      BY <3>1
    <3>3. lru_list[i] \notin Kept(m).gone
      BY <1>4, <3>2
    <3>4. SizeUpTo(i) <= SizeUpTo(m) /\ SizeUpTo(i) \in Nat /\ SizeUpTo(m) \in Nat
      BY <1>6, <2>4, <3>1
    <3>5. SizeUpTo(i) + bytes <= MaxSize
      BY <1>1, <1>7, <3>4
    <3> QED
      BY <2>3, <3>3, <3>5
  <2>5. CASE i > m
    <3>1. i \in (m+1)..n /\ i \in 0..n
      BY <1>1, <2>5
    <3>2. lru_list[i] \in Kept(m).gone
      BY <1>4, <3>1
    <3>3. SizeUpTo(i) + bytes > MaxSize /\ SizeUpTo(i) \in Nat
      BY <1>2, <1>6, <3>1
    <3>4. ~(SizeUpTo(i) + bytes <= MaxSize)
      BY <1>1, <3>3
    <3> QED
      BY <2>3, <3>2, <3>4
  <2> QED
    BY <1>1, <2>4, <2>5
<1>9. cache'[key].data = data
  BY <1>3 DEF NewEntry
<1>10. \A k \in Keys : cache[k] = NoEntry /\ cache'[k] # NoEntry => k = key
  BY <1>3
<1> QED
  BY <1>1, <1>3, <1>4, <1>7, <1>8, <1>9, <1>10 DEF bytes

\* What a step of any kind does about a key that was not cached.
LEMMA NewKeys ==
  ASSUME IInv, [Next]_cacheVars, NEW k \in Keys, cache[k] = NoEntry, cache'[k] # NoEntry,
         NEW i \in DOMAIN lru_list
  PROVE  cache'[lru_list[i]] # NoEntry <=> SizeUpTo(i) + SizeOf[cache'[k].data] <= MaxSize
<1> USE Given
<1>1. ASSUME NEW key \in Keys, get(key) \/ remove(key) PROVE FALSE
  <2>1. cache' = cache \/ cache' = [cache EXCEPT ![key] = NoEntry]
    BY <1>1 DEF get, remove, cacheVars
  <2> QED
    BY <2>1
<1>2. ASSUME NEW key \in Keys, NEW data \in Data, put(key, data)
      PROVE  cache'[lru_list[i]] # NoEntry <=> SizeUpTo(i) + SizeOf[cache'[k].data] <= MaxSize
  <2>1. CASE PutInsert(key, data)
    <3>1. k = key
      BY <2>1, InsertEvicts
    <3> QED
      BY <2>1, <3>1, InsertEvicts
  <2>2. ~PutReplace(key, data)
    BY DEF PutReplace
  <2>3. ~PutTooLarge(key, data)
    <3>1. ASSUME PutTooLarge(key, data)
          PROVE  \E gone : cache' = [x \in Keys |-> IF x \in gone THEN NoEntry ELSE cache[x]]
      BY <3>1 DEF PutTooLarge
    <3> QED
      BY <3>1
  <2>4. ~(UNCHANGED cacheVars)
    BY DEF cacheVars
  <2> QED
    BY <1>2, <2>1, <2>2, <2>3, <2>4 DEF put
<1>3. ~clear
  BY DEF clear
<1>4. ~Tick
  BY DEF Tick
<1>5. ~(UNCHANGED cacheVars)
  BY DEF cacheVars
<1> QED
  BY <1>1, <1>2, <1>3, <1>4, <1>5 DEF Next

\* put keeps exactly the most recently used entries that fit beside a new one.
THEOREM EvictionIsMinimal == Spec => EvictsLeastRecentlyUsed
<1>1. IInv /\ [Next]_cacheVars =>
        [\A k \in Keys :
           cache[k] = NoEntry /\ cache'[k] # NoEntry =>
             \A i \in DOMAIN lru_list :
               cache'[lru_list[i]] # NoEntry <=>
                 SizeUpTo(i) + SizeOf[cache'[k].data] <= MaxSize]_cacheVars
  BY NewKeys
<1> QED
  BY <1>1, CacheInvariance, PTL DEF Spec, EvictsLeastRecentlyUsed
===============================================================================
