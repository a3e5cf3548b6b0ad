----------------------------- MODULE TypeProofs -----------------------------
(***************************************************************************)
(* Proofs about SimpleDataLayout, for all types, about StructLayout, for   *)
(* structs of any length, and about TSTypeBuilder, for all declarations.   *)
(*                                                                         *)
(* The functions of the layout recur over the fields of a struct and over  *)
(* the types of fields.  That they are defined, and what they compute, is  *)
(* shown by induction, which here is about sets of numbers: the least      *)
(* number outside a set would have a predecessor inside.                   *)
(***************************************************************************)
EXTENDS TSTypeBuilder, StructLayout, FiniteSetTheorems, SequenceTheorems, WellFoundedInduction, TLAPS

-----------------------------------------------------------------------------
(* Induction and recursion *)

\* A set of numbers that is not empty has a least element.
LEMMA LeastNumber ==
  ASSUME NEW T \in SUBSET Nat, T # {}
  PROVE  \E m \in T : \A k \in T : m <= k
<1> DEFINE R == OpToRel(<, Nat)
<1>1. IsWellFoundedOn(R, Nat)
  BY NatLessThanWellFounded
<1>2. \A x, y \in Nat : x < y => <<x, y>> \in R
  BY DEF OpToRel
<1> HIDE DEF R
<1>3. PICK m \in T : \A k \in T : <<k, m>> \notin R
  BY <1>1, WFMin
<1>4. SUFFICES ASSUME NEW k \in T PROVE m <= k
  BY <1>3
<1>5. m \in Nat /\ k \in Nat /\ ~(k < m)
  BY <1>2, <1>3
<1>6. QED
  BY <1>5

\* A set that holds 0 and with each number the next holds all.
LEMMA Induction ==
  ASSUME NEW S, 0 \in S, \A n \in Nat : n \in S => n + 1 \in S
  PROVE  \A n \in Nat : n \in S
<1> SUFFICES ASSUME Nat \ S # {} PROVE FALSE
  OBVIOUS
<1>1. PICK m \in Nat \ S : \A k \in Nat \ S : m <= k
  BY LeastNumber
<1>2. m # 0 /\ m - 1 \in Nat /\ m - 1 \in S
  BY <1>1
<1>3. QED
  BY <1>1, <1>2

\* A set that holds each thing when it holds all things of less height holds all.
LEMMA HeightInduction ==
  ASSUME NEW S, NEW H \in [S -> Nat], NEW P,
         \A x \in S : (\A y \in S : H[y] < H[x] => y \in P) => x \in P
  PROVE  S \subseteq P
<1> DEFINE Below == {n \in Nat : \A x \in S : H[x] < n => x \in P}
<1>1. 0 \in Below
  <2>1. \A x \in S : H[x] \in Nat
    OBVIOUS
  <2>2. QED
    BY <2>1
<1>2. ASSUME NEW n \in Nat, n \in Below PROVE n + 1 \in Below
  <2>1. ASSUME NEW x \in S, H[x] < n + 1 PROVE x \in P
    <3>1. \A y \in S : H[y] < H[x] => H[y] < n
      BY <2>1
    <3>2. QED
      BY <1>2, <3>1
  <2>2. QED
    BY <2>1
<1>3. \A n \in Nat : n \in Below
  <2> HIDE DEF Below
  <2> QED BY <1>1, <1>2, Induction
<1>4. ASSUME NEW x \in S PROVE x \in P
  <2>1. H[x] + 1 \in Nat /\ H[x] < H[x] + 1
    OBVIOUS
  <2>2. H[x] + 1 \in Below
    BY <1>3, <2>1
  <2>3. QED
    BY <2>1, <2>2
<1>5. QED
  BY <1>4

LEMMA NextBelow == \A m, n \in Nat : m < n + 1 => m = n \/ m < n
OBVIOUS

\* What Step makes of x and a function depends on the function below x alone.
LooksBelow(S, H, V, Step) ==
  \A x \in S : \A g, h \in [S -> V] :
    (\A y \in S : H[y] < H[x] => g[y] = h[y]) => Step[<<x, g>>] = Step[<<x, h>>]
Solves(f, S, V, Step) == f \in [S -> V] /\ \A x \in S : f[x] = Step[<<x, f>>]

\* So a function may be defined by recursion on the height of its argument.
LEMMA Recursion ==
  ASSUME NEW S, NEW H \in [S -> Nat], NEW V, V # {},
         NEW Step \in [S \X [S -> V] -> V], LooksBelow(S, H, V, Step)
  PROVE  \E f : Solves(f, S, V, Step)
<1> USE DEF LooksBelow
<1> DEFINE Good(g, n) == \A x \in S : H[x] < n => g[x] = Step[<<x, g>>]
<1>1. ASSUME NEW n \in Nat, NEW g \in [S -> V], NEW h \in [S -> V], Good(g, n), Good(h, n)
      PROVE  \A x \in S : H[x] < n => g[x] = h[x]
  <2> DEFINE P == {x \in S : H[x] < n => g[x] = h[x]}
  <2>1. ASSUME NEW x \in S, \A y \in S : H[y] < H[x] => y \in P
        PROVE  x \in P
    <3>1. SUFFICES ASSUME H[x] < n PROVE g[x] = h[x]
      OBVIOUS
    <3>2. \A y \in S : H[y] < H[x] => H[y] < n
      <4>1. ASSUME NEW y \in S, H[y] < H[x] PROVE H[y] < n
        <5>1. H[y] \in Nat /\ H[x] \in Nat
          OBVIOUS
        <5>2. QED
          BY <3>1, <4>1, <5>1
      <4>2. QED
        BY <4>1
    <3>3. \A y \in S : H[y] < H[x] => g[y] = h[y]
      BY <2>1, <3>2
    <3>4. Step[<<x, g>>] = Step[<<x, h>>]
      BY <3>3
    <3>5. QED
      BY <1>1, <3>1, <3>4
  <2>2. S \subseteq P
    <3> HIDE DEF P
    <3> QED BY <2>1, HeightInduction
  <2>3. QED
    BY <2>2
<1>2. \A n \in Nat : \E g \in [S -> V] : Good(g, n)
  <2> DEFINE Reached == {n \in Nat : \E g \in [S -> V] : Good(g, n)}
  <2>1. 0 \in Reached
    <3>1. PICK v \in V : TRUE
      OBVIOUS
    <3>2. [x \in S |-> v] \in [S -> V]
      OBVIOUS
    <3>3. \A x \in S : ~(H[x] < 0)
      <4>1. \A x \in S : H[x] \in Nat
        OBVIOUS
      <4>2. QED
        BY <4>1
    <3>4. QED
      BY <3>2, <3>3
  <2>2. ASSUME NEW n \in Nat, n \in Reached PROVE n + 1 \in Reached
    <3>1. PICK g \in [S -> V] : Good(g, n)
      BY <2>2
    <3> DEFINE h == [x \in S |-> IF H[x] = n THEN Step[<<x, g>>] ELSE g[x]]
    <3>2. h \in [S -> V]
      <4>1. \A x \in S : Step[<<x, g>>] \in V /\ g[x] \in V
        OBVIOUS
      <4>2. QED
        BY <4>1
    <3>3. ASSUME NEW x \in S, H[x] < n + 1 PROVE h[x] = Step[<<x, h>>]
      <4>1. H[x] \in Nat /\ \A y \in S : H[y] \in Nat
        OBVIOUS
      <4>2. \A y \in S : H[y] < H[x] => g[y] = h[y]
        BY <3>3, <4>1
      <4>3. Step[<<x, g>>] = Step[<<x, h>>]
        <5> HIDE DEF h
        <5> QED BY <3>2, <4>2
      <4>4. h[x] = Step[<<x, g>>]
        <5>1. CASE H[x] = n
          BY <5>1
        <5>2. CASE H[x] # n
          <6>1. H[x] < n
            <7>1. H[x] \in Nat
              BY <4>1
            <7>2. QED
              BY <3>3, <5>2, <7>1, NextBelow
          <6>2. QED
            BY <3>1, <5>2, <6>1
        <5>3. QED
          BY <5>1, <5>2
      <4>5. QED
        BY <4>3, <4>4
    <3>4. Good(h, n + 1)
      <4> HIDE DEF h
      <4> QED BY <3>3
    <3>5. QED
      <4> HIDE DEF h, Good
      <4> QED BY <3>2, <3>4
  <2>3. QED
    <3>1. \A n \in Nat : n \in Reached
      <4> HIDE DEF Reached
      <4> QED BY <2>1, <2>2, Induction
    <3>2. QED
      BY <3>1
<1> DEFINE Best(x) == CHOOSE g \in [S -> V] : Good(g, H[x] + 1)
           f == [x \in S |-> Best(x)[x]]
<1>3. \A x \in S : Best(x) \in [S -> V] /\ Good(Best(x), H[x] + 1)
  <2> SUFFICES ASSUME NEW x \in S PROVE Best(x) \in [S -> V] /\ Good(Best(x), H[x] + 1)
    OBVIOUS
  <2>1. H[x] + 1 \in Nat
    OBVIOUS
  <2>2. \E g \in [S -> V] : Good(g, H[x] + 1)
    BY <1>2, <2>1
  <2>3. QED
    <3> HIDE DEF Good
    <3> QED BY <2>2
<1>4. ASSUME NEW x \in S, NEW y \in S, H[y] <= H[x] PROVE f[y] = Best(x)[y]
  <2>1. H[x] \in Nat /\ H[y] \in Nat /\ \A z \in S : H[z] \in Nat
    OBVIOUS
  <2>2. Good(Best(x), H[y] + 1)
    <3>1. Good(Best(x), H[x] + 1)
      BY <1>3
    <3>2. \A z \in S : H[z] < H[y] + 1 => H[z] < H[x] + 1
      BY <1>4, <2>1
    <3> HIDE DEF Best
    <3>3. QED
      BY <3>1, <3>2
  <2>3. Best(y)[y] = Best(x)[y]
    <3>1. H[y] + 1 \in Nat /\ H[y] < H[y] + 1
      BY <2>1
    <3> HIDE DEF Best, Good
    <3>2. QED
      BY <1>1, <1>3, <2>2, <3>1
  <2>4. QED
    <3> HIDE DEF Best
    <3> QED BY <2>3
<1>5. f \in [S -> V]
  <2> HIDE DEF Best
  <2> QED BY <1>3
<1>6. ASSUME NEW x \in S PROVE f[x] = Step[<<x, f>>]
  <2>1. H[x] \in Nat /\ \A y \in S : H[y] \in Nat
    OBVIOUS
  <2> HIDE DEF f, Best
  <2>2. \A y \in S : H[y] < H[x] => f[y] = Best(x)[y]
    BY <1>4, <2>1
  <2>3. f[x] = Best(x)[x]
    BY <1>4, <2>1
  <2>4. Step[<<x, f>>] = Step[<<x, Best(x)>>]
    BY <1>3, <1>5, <2>2
  <2>5. Best(x)[x] = Step[<<x, Best(x)>>]
    <3>1. H[x] < H[x] + 1
      BY <2>1
    <3>2. QED
      BY <1>3, <3>1
  <2>6. QED
    BY <2>3, <2>4, <2>5
<1>7. Solves(f, S, V, Step)
  <2> HIDE DEF f
  <2> QED BY <1>5, <1>6 DEF Solves
<1>8. QED
  BY <1>7

-----------------------------------------------------------------------------
(* Rounding up *)

LEMMA Division ==
  ASSUME NEW n \in Nat, NEW a \in Nat \ {0}
  PROVE  /\ n \div a \in Nat /\ n % a \in 0..(a - 1)
         /\ n = a * (n \div a) + (n % a)
OBVIOUS

\* Two multiples of a number that are less than it apart are one.
LEMMA MultiplesApart ==
  ASSUME NEW a \in Nat \ {0}, NEW p \in Nat, NEW q \in Nat, a * p < a * q + a, a * q < a * p + a
  PROVE  p = q
<1>1. a * (q + 1) = a * q + a /\ a * (p + 1) = a * p + a
  OBVIOUS
<1>2. CASE p > q
  <2>1. p >= q + 1 /\ a * p >= a * (q + 1)
    BY <1>2
  <2>2. QED
    BY <1>1, <2>1
<1>3. CASE q > p
  <2>1. q >= p + 1 /\ a * q >= a * (p + 1)
    BY <1>3
  <2>2. QED
    BY <1>1, <2>1
<1>4. QED
  BY <1>2, <1>3

LEMMA Multiple ==
  ASSUME NEW q \in Nat, NEW a \in Nat \ {0}
  PROVE  (a * q) % a = 0 /\ (a * q) \div a = q
<1>1. a * q \in Nat
  OBVIOUS
<1> DEFINE d == (a * q) \div a
           r == (a * q) % a
<1>2. d \in Nat /\ r \in 0..(a - 1) /\ a * q = a * d + r
  BY <1>1, Division
<1> HIDE DEF d, r
<1>3. a * d \in Nat
  BY <1>2
<1>4. d = q
  <2>1. a * d < a * q + a /\ a * q < a * d + a
    BY <1>1, <1>2, <1>3
  <2>2. QED
    BY <1>2, <2>1, MultiplesApart
<1>5. r = 0
  BY <1>1, <1>2, <1>4
<1>6. QED
  BY <1>4, <1>5 DEF d, r

\* alignTo yields the least multiple of the alignment that is not below the offset.
LEMMA AlignToUp ==
  ASSUME NEW n \in Nat, NEW a \in Nat \ {0}
  PROVE  /\ AlignTo(n, a) \in n..(n + a - 1)
         /\ AlignTo(n, a) % a = 0
<1> DEFINE d == (n + a - 1) \div a
           r == (n + a - 1) % a
<1>1. n + a - 1 \in Nat
  OBVIOUS
<1>2. d \in Nat /\ r \in 0..(a - 1) /\ n + a - 1 = a * d + r
  BY <1>1, Division
<1>3. AlignTo(n, a) = d * a
  BY DEF AlignTo
<1> HIDE DEF d, r
<1>4. d * a = a * d /\ a * d \in Nat
  BY <1>2
<1>5. a * d \in n..(n + a - 1)
  BY <1>2, <1>4
<1>6. (a * d) % a = 0
  BY <1>2, Multiple
<1>7. QED
  BY <1>3, <1>4, <1>5, <1>6

\* So it is the psABI's, and there is but one such multiple.
LEMMA AlignToNext ==
  ASSUME NEW n \in Nat, NEW a \in Nat \ {0}
  PROVE  NextMultiple(n, a) = AlignTo(n, a)
<1>1. /\ AlignTo(n, a) \in n..(n + a - 1)
      /\ AlignTo(n, a) % a = 0
  BY AlignToUp
<1> DEFINE m == NextMultiple(n, a)
           k == AlignTo(n, a)
<1>2. m \in n..(n + a - 1) /\ m % a = 0
  BY <1>1 DEF NextMultiple
<1> HIDE DEF m, k
<1>3. m \in Nat /\ k \in Nat
  BY <1>1, <1>2 DEF k
<1>4. m = a * (m \div a) /\ m \div a \in Nat
  <2>1. m = a * (m \div a) + (m % a) /\ m \div a \in Nat
    BY <1>3, Division
  <2>2. a * (m \div a) \in Nat
    BY <2>1
  <2>3. QED
    BY <1>2, <2>1, <2>2
<1>5. k = a * (k \div a) /\ k \div a \in Nat
  <2>1. k = a * (k \div a) + (k % a) /\ k \div a \in Nat
    BY <1>3, Division
  <2>2. a * (k \div a) \in Nat
    BY <2>1
  <2>3. QED
    BY <1>1, <2>1, <2>2 DEF k
<1>6. m < k + a /\ k < m + a
  BY <1>1, <1>2, <1>3 DEF k
<1>7. m \div a = k \div a
  BY <1>4, <1>5, <1>6, MultiplesApart
<1>8. QED
  BY <1>4, <1>5, <1>7 DEF m, k

LEMMA NextMultipleTyped ==
  ASSUME NEW n \in Nat, NEW a \in Nat \ {0}
  PROVE  NextMultiple(n, a) \in Nat /\ NextMultiple(n, a) >= n
<1>1. AlignTo(n, a) \in n..(n + a - 1)
  BY AlignToUp
<1>2. QED
  BY <1>1, AlignToNext

LEMMA AlignToMonotone ==
  ASSUME NEW m \in Nat, NEW n \in Nat, m <= n, NEW a \in Nat \ {0}
  PROVE  AlignTo(m, a) <= NextMultiple(n, a)
<1> DEFINE p == (m + a - 1) \div a
           q == (n + a - 1) \div a
<1>1. /\ p \in Nat /\ (m + a - 1) % a \in 0..(a - 1) /\ m + a - 1 = a * p + ((m + a - 1) % a)
      /\ q \in Nat /\ (n + a - 1) % a \in 0..(a - 1) /\ n + a - 1 = a * q + ((n + a - 1) % a)
  <2>1. m + a - 1 \in Nat /\ n + a - 1 \in Nat
    OBVIOUS
  <2>2. QED
    BY <2>1, Division
<1>2. AlignTo(m, a) = p * a /\ AlignTo(n, a) = q * a
  BY DEF AlignTo
<1> HIDE DEF p, q
<1>3. p * a = a * p /\ q * a = a * q /\ a * p \in Nat /\ a * q \in Nat
  BY <1>1
<1>4. a * p < a * q + a
  BY <1>1, <1>3
<1>5. p <= q
  <2>1. CASE p > q
    <3>1. p >= q + 1 /\ a * (q + 1) = a * q + a
      BY <1>1, <2>1
    <3>2. a * p >= a * (q + 1)
      BY <1>1, <3>1
    <3>3. QED
      BY <1>3, <1>4, <3>1, <3>2
  <2>2. QED
    BY <1>1, <2>1
<1>6. a * p <= a * q
  BY <1>1, <1>5
<1>7. QED
  BY <1>2, <1>3, <1>6, AlignToNext

-----------------------------------------------------------------------------
(* Loops over the fields of a struct *)

Runs(f, m, k, V, start, Turn) ==
  /\ f \in [m..k -> V]
  /\ f[m] = start /\ \A i \in m..k : i # m => f[i] = Turn[<<i, f[i - 1]>>]

\* A loop from m to k takes its values one after the other.
LEMMA Iteration ==
  ASSUME NEW m \in Nat, NEW k \in Nat, m <= k, NEW V, NEW start \in V,
         NEW Turn \in [(m..k) \X V -> V]
  PROVE  \E f : Runs(f, m, k, V, start, Turn)
<1> DEFINE S == m..k
           H == [i \in S |-> i]
           Step == [p \in S \X [S -> V] |->
                      IF p[1] = m THEN start ELSE Turn[<<p[1], p[2][p[1] - 1]>>]]
<1>1. H \in [S -> Nat] /\ V # {}
  OBVIOUS
<1>2. ASSUME NEW i \in S, NEW g \in [S -> V]
      PROVE  /\ Step[<<i, g>>] = IF i = m THEN start ELSE Turn[<<i, g[i - 1]>>]
             /\ Step[<<i, g>>] \in V
             /\ i # m => i - 1 \in S /\ i - 1 < i
  <2>1. <<i, g>> \in S \X [S -> V] /\ <<i, g>>[1] = i /\ <<i, g>>[2] = g
    OBVIOUS
  <2>2. i # m => i - 1 \in S /\ i - 1 < i
    OBVIOUS
  <2>3. Step[<<i, g>>] = IF i = m THEN start ELSE Turn[<<i, g[i - 1]>>]
    <3> HIDE DEF S
    <3> QED BY <2>1
  <2>4. i # m => g[i - 1] \in V /\ Turn[<<i, g[i - 1]>>] \in V
    <3>1. SUFFICES ASSUME i # m PROVE g[i - 1] \in V /\ Turn[<<i, g[i - 1]>>] \in V
      OBVIOUS
    <3>2. g[i - 1] \in V
      <4> HIDE DEF S
      <4> QED BY <2>2, <3>1
    <3>3. <<i, g[i - 1]>> \in (m..k) \X V
      BY <2>2, <3>1, <3>2
    <3>4. QED
      BY <3>2, <3>3
  <2> HIDE DEF Step
  <2>5. QED
    BY <2>2, <2>3, <2>4
<1>3. Step \in [S \X [S -> V] -> V]
  <2>1. ASSUME NEW p \in S \X [S -> V] PROVE Step[p] \in V
    <3>1. p = <<p[1], p[2]>> /\ p[1] \in S /\ p[2] \in [S -> V]
      OBVIOUS
    <3> HIDE DEF Step, S
    <3>2. QED
      BY <1>2, <3>1
  <2>2. QED
    <3> HIDE DEF S
    <3>1. \A p \in S \X [S -> V] :
            Step[p] = IF p[1] = m THEN start ELSE Turn[<<p[1], p[2][p[1] - 1]>>]
      OBVIOUS
    <3>2. \A p \in S \X [S -> V] :
            (IF p[1] = m THEN start ELSE Turn[<<p[1], p[2][p[1] - 1]>>]) \in V
      <4> HIDE DEF Step
      <4> QED BY <2>1, <3>1
    <3>3. QED
      BY <3>2
<1>4. ASSUME NEW i \in S, NEW g \in [S -> V], NEW h \in [S -> V],
             \A j \in S : H[j] < H[i] => g[j] = h[j]
      PROVE  Step[<<i, g>>] = Step[<<i, h>>]
  <2>1. \A j \in S : j < i => g[j] = h[j]
    BY <1>4
  <2> HIDE DEF Step, S
  <2>2. i # m => g[i - 1] = h[i - 1]
    BY <1>2, <2>1
  <2>3. /\ Step[<<i, g>>] = IF i = m THEN start ELSE Turn[<<i, g[i - 1]>>]
        /\ Step[<<i, h>>] = IF i = m THEN start ELSE Turn[<<i, h[i - 1]>>]
    BY <1>2
  <2>4. QED
    BY <2>2, <2>3
<1>5. PICK f \in [S -> V] : \A i \in S : f[i] = Step[<<i, f>>]
  <2> HIDE DEF Step, S, H
  <2>1. LooksBelow(S, H, V, Step)
    BY <1>4 DEF LooksBelow
  <2>2. PICK f : Solves(f, S, V, Step)
    BY <1>1, <1>3, <2>1, Recursion
  <2>3. QED
    BY <2>2 DEF Solves
<1>6. m \in S
  OBVIOUS
<1>7. f[m] = start /\ \A i \in S : i # m => f[i] = Turn[<<i, f[i - 1]>>]
  <2> HIDE DEF Step, S
  <2> QED BY <1>2, <1>5, <1>6
<1>8. QED
  BY <1>5, <1>7 DEF Runs

\* Two loops that start alike and step alike go alike.
StepAlike(f, g, m, n) == \A i \in m..n : i # m /\ f[i - 1] = g[i - 1] => f[i] = g[i]
Alike(f, g, m, n) == \A i \in m..n : f[i] = g[i]
LEMMA SameIteration ==
  ASSUME NEW m \in Nat, NEW n \in Nat, NEW f, NEW g, f[m] = g[m], StepAlike(f, g, m, n)
  PROVE  Alike(f, g, m, n)
<1> USE DEF StepAlike, Alike
<1> DEFINE P == {d \in Nat : m + d <= n => f[m + d] = g[m + d]}
<1>1. 0 \in P
  OBVIOUS
<1>2. ASSUME NEW d \in Nat, d \in P PROVE d + 1 \in P
  <2>1. CASE m + d + 1 <= n
    <3>1. m + d + 1 \in m..n /\ m + d + 1 # m /\ m + d + 1 - 1 = m + d /\ m + (d + 1) = m + d + 1
      BY <2>1
    <3>2. f[m + d] = g[m + d]
      BY <1>2, <2>1
    <3>3. QED
      BY <3>1, <3>2
  <2>2. CASE ~(m + d + 1 <= n)
    <3>1. ~(m + (d + 1) <= n)
      BY <2>2
    <3>2. QED
      BY <3>1
  <2>3. QED
    BY <2>1, <2>2
<1>3. \A d \in Nat : d \in P
  <2> HIDE DEF P
  <2> QED BY <1>1, <1>2, Induction
<1>4. ASSUME NEW i \in m..n PROVE f[i] = g[i]
  <2>1. i - m \in Nat /\ m + (i - m) = i
    OBVIOUS
  <2>2. QED
    BY <1>3, <2>1
<1>5. QED
  BY <1>4

\* What the loop over the fields adds to the offset at a field.
PassField(sizes, alignments, i, offset) ==
  IF i < Len(sizes) THEN AlignTo(offset + sizes[i], alignments[i + 1]) ELSE offset + sizes[i]

LEMMA PassFieldStays ==
  ASSUME NEW sizes \in Seq(Nat), NEW alignments \in Seq(Nat \ {0}), Len(alignments) = Len(sizes),
         NEW i \in 1..Len(sizes), NEW offset \in Nat
  PROVE  /\ PassField(sizes, alignments, i, offset) \in Nat
         /\ PassField(sizes, alignments, i, offset) >= offset + sizes[i]
<1>1. sizes[i] \in Nat /\ offset + sizes[i] \in Nat
  OBVIOUS
<1>2. CASE i < Len(sizes)
  <2>1. i + 1 \in 1..Len(alignments) /\ alignments[i + 1] \in Nat \ {0}
    BY <1>2
  <2>2. AlignTo(offset + sizes[i], alignments[i + 1])
          \in (offset + sizes[i])..(offset + sizes[i] + alignments[i + 1] - 1)
    BY <1>1, <2>1, AlignToUp
  <2>3. QED
    BY <1>1, <1>2, <2>1, <2>2 DEF PassField
<1>3. CASE ~(i < Len(sizes))
  BY <1>1, <1>3 DEF PassField
<1>4. QED
  BY <1>2, <1>3

\* PassFields is that loop.
LEMMA PassFieldsLoop ==
  ASSUME NEW sizes \in Seq(Nat), NEW alignments \in Seq(Nat \ {0}), Len(alignments) = Len(sizes)
  PROVE  /\ PassFields(sizes, alignments, 0) = 0
         /\ \A n \in 0..Len(sizes) : PassFields(sizes, alignments, n) \in Nat
         /\ \A n \in 1..Len(sizes) :
              PassFields(sizes, alignments, n)
                = PassField(sizes, alignments, n, PassFields(sizes, alignments, n - 1))
<1> DEFINE k == Len(sizes)
           Turn == [p \in (0..k) \X Nat |->
                      IF p[1] = 0 THEN 0 ELSE PassField(sizes, alignments, p[1], p[2])]
<1>1. k \in Nat /\ 0 <= k
  OBVIOUS
<1>2. ASSUME NEW i \in 1..k, NEW offset \in Nat
      PROVE  Turn[<<i, offset>>] = PassField(sizes, alignments, i, offset)
  <2>1. <<i, offset>> \in (0..k) \X Nat /\ i # 0 /\ <<i, offset>>[1] = i /\ <<i, offset>>[2] = offset
    OBVIOUS
  <2> HIDE DEF k
  <2>2. QED
    BY <2>1
<1>3. Turn \in [(0..k) \X Nat -> Nat]
  <2>1. ASSUME NEW p \in (0..k) \X Nat, p[1] # 0
        PROVE  PassField(sizes, alignments, p[1], p[2]) \in Nat
    <3>1. p[1] \in 1..k /\ p[2] \in Nat
      BY <2>1
    <3>2. QED
      BY <3>1, PassFieldStays
  <2> HIDE DEF k
  <2>2. QED
    BY <2>1
<1>4. PICK f \in [0..k -> Nat] : f[0] = 0 /\ \A i \in 0..k : i # 0 => f[i] = Turn[<<i, f[i - 1]>>]
  <2> HIDE DEF Turn, k
  <2>1. PICK f : Runs(f, 0, k, Nat, 0, Turn)
    BY <1>1, <1>3, Iteration
  <2>2. QED
    BY <2>1 DEF Runs
<1>5. ASSUME NEW i \in 1..k
      PROVE  f[i - 1] \in Nat /\ f[i] = PassField(sizes, alignments, i, f[i - 1])
  <2>1. i - 1 \in 0..k /\ i \in 0..k /\ i # 0
    OBVIOUS
  <2> HIDE DEF Turn, k
  <2>2. QED
    BY <1>2, <1>4, <2>1
<1>6. ASSUME NEW n \in 0..k PROVE PassFields(sizes, alignments, n) = f[n]
  <2> DEFINE Loop(o) == o = [i \in 0..n |->
                IF i = 0 THEN 0
                ELSE LET end == o[i - 1] + sizes[i]
                     IN  IF i < Len(sizes) THEN AlignTo(end, alignments[i + 1]) ELSE end]
             offset == CHOOSE o : Loop(o)
             short == [i \in 0..n |-> f[i]]
  <2>1. PassFields(sizes, alignments, n) = offset[n]
    BY DEF PassFields
  <2>2. \A o : Loop(o) => /\ o[0] = 0
                          /\ \A i \in 1..n : o[i] = PassField(sizes, alignments, i, o[i - 1])
    <3> SUFFICES ASSUME NEW o, Loop(o)
                 PROVE  /\ o[0] = 0
                        /\ \A i \in 1..n : o[i] = PassField(sizes, alignments, i, o[i - 1])
      OBVIOUS
    <3> DEFINE e(i) == IF i = 0 THEN 0 ELSE PassField(sizes, alignments, i, o[i - 1])
    <3>1. o = [i \in 0..n |-> e(i)]
      BY DEF PassField
    <3> HIDE DEF e
    <3>2. \A i \in 0..n : o[i] = e(i)
      BY <3>1
    <3>3. 0 \in 0..n /\ \A i \in 1..n : i \in 0..n /\ i # 0
      OBVIOUS
    <3>4. QED
      BY <3>2, <3>3 DEF e
  <2>3. Loop(short)
    <3>1. ASSUME NEW i \in 0..n
          PROVE  short[i] = IF i = 0 THEN 0 ELSE PassField(sizes, alignments, i, short[i - 1])
      <4>1. i # 0 => i - 1 \in 0..n /\ i \in 1..k
        OBVIOUS
      <4>2. QED
        BY <1>4, <1>5, <4>1
    <3>2. short = [i \in 0..n |-> IF i = 0 THEN 0 ELSE PassField(sizes, alignments, i, short[i - 1])]
      BY <3>1
    <3> HIDE DEF short
    <3>3. QED
      BY <3>2 DEF PassField
  <2>4. Loop(offset)
    <3> HIDE DEF Loop, short
    <3> QED BY <2>3
  <2> HIDE DEF offset, Loop
  <2>5. offset[0] = f[0]
    BY <1>4, <2>2, <2>4
  <2>6. ASSUME NEW i \in 1..n, offset[i - 1] = f[i - 1] PROVE offset[i] = f[i]
    <3>1. i \in 1..k
      OBVIOUS
    <3>2. offset[i] = PassField(sizes, alignments, i, offset[i - 1])
      BY <2>2, <2>4
    <3>3. QED
      BY <1>5, <2>6, <3>1, <3>2
  <2>7. n \in Nat /\ n \in 0..n
    OBVIOUS
  <2>8. offset[n] = f[n]
    <3>1. StepAlike(offset, f, 0, n)
      BY <2>6 DEF StepAlike
    <3> HIDE DEF k
    <3>2. Alike(offset, f, 0, n)
      BY <2>5, <2>7, <3>1, SameIteration
    <3>3. QED
      BY <2>7, <3>2 DEF Alike
  <2>9. QED
    BY <2>1, <2>8
<1>7. ASSUME NEW n \in 1..k PROVE n \in 0..k /\ n - 1 \in 0..k
  OBVIOUS
<1>8. 0 \in 0..k
  OBVIOUS
<1>9. QED
  <2> HIDE DEF Turn
  <2> QED BY <1>4, <1>5, <1>6, <1>7, <1>8

-----------------------------------------------------------------------------
(* Alignments *)

LEMMA TypeFacts ==
  ASSUME NEW ty \in Types
  PROVE  /\ ty.kind \in {"int", "ptr", "other", "struct", "array"}
         /\ ty.bytes \in Nat /\ ty.fields \in Seq(Types) /\ Depth \in [Types -> Nat]
         /\ \A i \in DOMAIN ty.fields : ty.fields[i] \in Types /\ Depth[ty.fields[i]] < Depth[ty]
         /\ ty.kind = "array" => ty.elem[1] \in Types /\ Depth[ty.elem[1]] < Depth[ty]
<1>1. ty \in [kind : {"int", "ptr", "other", "struct", "array"}, name : STRING,
              bytes : Nat, fields : Seq(Types), elem : Seq(Types)]
  BY TypeAssumption
<1>2. ty.fields \in Seq(Types) /\ ty.elem \in Seq(Types)
  BY <1>1
<1>3. \A i \in DOMAIN ty.fields : ty.fields[i] \in Types
  BY <1>2
<1>4. ty.kind = "array" => ty.elem[1] \in Types
  BY <1>2, TypeAssumption
<1>5. QED
  BY <1>1, <1>2, <1>3, <1>4, TypeAssumption

\* What is computed of a type from its parts: values in V for parts with values in V,
\* and the same from what is the same of the parts.
PartsIn(ty, g, V) ==
  /\ \A i \in DOMAIN ty.fields : g[ty.fields[i]] \in V
  /\ ty.kind = "array" => g[ty.elem[1]] \in V
PartsAgree(ty, g, h) ==
  /\ \A i \in DOMAIN ty.fields : g[ty.fields[i]] = h[ty.fields[i]]
  /\ ty.kind = "array" => g[ty.elem[1]] = h[ty.elem[1]]
OverFields(ty, g) == [i \in DOMAIN ty.fields |-> g[ty.fields[i]]]

LEMMA OverFieldsTyped ==
  ASSUME NEW ty \in Types, NEW g, NEW V, PartsIn(ty, g, V)
  PROVE  /\ OverFields(ty, g) \in Seq(V)
         /\ Len(OverFields(ty, g)) = Len(ty.fields)
<1>1. ty.fields \in Seq(Types)
  BY TypeFacts
<1>2. PICK n \in Nat : DOMAIN ty.fields = 1..n /\ Len(ty.fields) = n
  BY <1>1
<1>3. \A i \in 1..n : g[ty.fields[i]] \in V
  BY <1>2 DEF PartsIn
<1>4. OverFields(ty, g) = [i \in 1..n |-> g[ty.fields[i]]]
  BY <1>2 DEF OverFields
<1>5. QED
  BY <1>2, <1>3, <1>4

LEMMA OverFieldsAgree ==
  ASSUME NEW ty, NEW g, NEW h, PartsAgree(ty, g, h)
  PROVE  OverFields(ty, g) = OverFields(ty, h)
BY DEF OverFields, PartsAgree

LEMMA Bounded ==
  ASSUME NEW s \in Seq(Nat)
  PROVE  \E b \in Nat : \A i \in DOMAIN s : s[i] <= b
<1> DEFINE P == {d \in Nat : \E b \in Nat : \A i \in DOMAIN s : i <= d => s[i] <= b}
<1>1. 0 \in P
  OBVIOUS
<1>2. ASSUME NEW d \in Nat, d \in P PROVE d + 1 \in P
  <2>1. PICK b \in Nat : \A i \in DOMAIN s : i <= d => s[i] <= b
    BY <1>2
  <2>2. PICK e \in Nat : b <= e /\ (d + 1 \in DOMAIN s => s[d + 1] <= e)
    <3>1. CASE d + 1 \in DOMAIN s /\ s[d + 1] > b
      <4>1. s[d + 1] \in Nat
        BY <3>1
      <4>2. QED
        BY <3>1, <4>1
    <3>2. CASE ~(d + 1 \in DOMAIN s /\ s[d + 1] > b)
      <4>1. d + 1 \in DOMAIN s => s[d + 1] \in Nat
        OBVIOUS
      <4>2. QED
        BY <3>2, <4>1
    <3>3. QED
      BY <3>1, <3>2
  <2>3. ASSUME NEW i \in DOMAIN s, i <= d + 1 PROVE s[i] <= e
    <3>1. i \in Nat /\ s[i] \in Nat /\ (i <= d \/ i = d + 1)
      BY <2>3
    <3>2. QED
      BY <2>1, <2>2, <3>1
  <2>4. QED
    BY <2>3
<1>3. \A d \in Nat : d \in P
  <2> HIDE DEF P
  <2> QED BY <1>1, <1>2, Induction
<1>4. Len(s) \in Nat /\ \A i \in DOMAIN s : i <= Len(s)
  OBVIOUS
<1>5. QED
  BY <1>3, <1>4

LEMMA StrictestTyped ==
  ASSUME NEW s \in Seq(Nat \ {0})
  PROVE  Strictest(s) \in Nat \ {0}
<1> DEFINE T == {1} \cup Range(s)
           Above == {u \in Nat : \A t \in T : t <= u}
<1>1. T \subseteq Nat \ {0}
  BY DEF Range
<1>2. Above # {}
  <2>1. PICK b \in Nat : \A i \in DOMAIN s : s[i] <= b
    <3>1. s \in Seq(Nat)
      OBVIOUS
    <3>2. QED
      BY <3>1, Bounded
  <2>2. \A t \in T : t = 1 \/ t <= b
    BY <2>1 DEF Range
  <2>3. b + 1 \in Above
    BY <1>1, <2>2
  <2>4. QED
    BY <2>3
<1>3. PICK u \in Above : \A k \in Above : u <= k
  BY <1>2, LeastNumber
<1>4. u \in T
  <2>1. SUFFICES ASSUME u \notin T PROVE FALSE
    OBVIOUS
  <2>2. \A t \in T : t <= u - 1
    BY <1>1, <1>3, <2>1
  <2>3. 1 \in T /\ u - 1 \in Nat
    BY <1>3, <2>2
  <2>4. u - 1 \in Above /\ u \in Nat
    BY <1>3, <2>2, <2>3
  <2>5. u <= u - 1
    <3> HIDE DEF Above, T
    <3> QED BY <1>3, <2>4
  <2>6. QED
    BY <2>4, <2>5
<1>5. u \in T /\ \A t \in T : u >= t
  BY <1>1, <1>3, <1>4
<1> HIDE DEF T
<1>6. Max(T) \in T
  BY <1>5 DEF Max
<1>7. QED
  BY <1>1, <1>6 DEF Strictest, T

AlignmentOf(ty, g) ==
  IF ty.kind = "struct" THEN Strictest(OverFields(ty, g))
  ELSE IF ty.kind = "array" THEN g[ty.elem[1]]
  ELSE BasicAlignment(ty)

LEMMA AlignmentOfTyped ==
  ASSUME NEW ty \in Types, NEW g, PartsIn(ty, g, Nat \ {0})
  PROVE  AlignmentOf(ty, g) \in Nat \ {0}
<1>1. ty.kind \in {"int", "ptr", "other", "struct", "array"} /\ ty.bytes \in Nat
  BY TypeFacts
<1>2. Strictest(OverFields(ty, g)) \in Nat \ {0}
  BY OverFieldsTyped, StrictestTyped
<1>3. ty.kind = "array" => g[ty.elem[1]] \in Nat \ {0}
  BY DEF PartsIn
<1>4. ty.bytes # 0 => Smaller(ty.bytes, 8) \in Nat \ {0}
  BY <1>1 DEF Smaller
<1>5. QED
  BY <1>1, <1>2, <1>3, <1>4 DEF AlignmentOf, BasicAlignment

LEMMA AlignmentOfAgrees ==
  ASSUME NEW ty \in Types, NEW g, NEW h, PartsAgree(ty, g, h)
  PROVE  AlignmentOf(ty, g) = AlignmentOf(ty, h)
<1>1. ty.kind \in {"int", "ptr", "other", "struct", "array"}
  BY TypeFacts
<1>2. OverFields(ty, g) = OverFields(ty, h)
  BY OverFieldsAgree
<1>3. ty.kind = "array" => g[ty.elem[1]] = h[ty.elem[1]]
  BY DEF PartsAgree
<1>4. QED
  BY <1>1, <1>2, <1>3 DEF AlignmentOf

\* A function that is computed from parts in this way looks only below.
LEMMA FromParts ==
  ASSUME NEW V, V # {}, NEW Step \in [Types \X [Types -> V] -> V],
         \A ty \in Types : \A g, h \in [Types -> V] :
           PartsAgree(ty, g, h) => Step[<<ty, g>>] = Step[<<ty, h>>]
  PROVE  \E f : Solves(f, Types, V, Step)
<1>1. ASSUME NEW ty \in Types, NEW g \in [Types -> V], NEW h \in [Types -> V],
             \A y \in Types : Depth[y] < Depth[ty] => g[y] = h[y]
      PROVE  Step[<<ty, g>>] = Step[<<ty, h>>]
  <2>1. PartsAgree(ty, g, h)
    BY <1>1, TypeFacts DEF PartsAgree
  <2>2. QED
    BY <2>1
<1>2. LooksBelow(Types, Depth, V, Step)
  BY <1>1 DEF LooksBelow
<1>3. Depth \in [Types -> Nat]
  BY TypeAssumption
<1>4. QED
  BY <1>2, <1>3, Recursion

\* What holds of each type that it holds of the parts of holds of all.
LEMMA TypeInduction ==
  ASSUME NEW P, \A ty \in Types :
           (\A i \in DOMAIN ty.fields : ty.fields[i] \in P) /\ (ty.kind = "array" => ty.elem[1] \in P) => ty \in P
  PROVE  Types \subseteq P
<1>1. ASSUME NEW ty \in Types, \A y \in Types : Depth[y] < Depth[ty] => y \in P
      PROVE  ty \in P
  BY <1>1, TypeFacts
<1>2. Depth \in [Types -> Nat]
  BY TypeAssumption
<1>3. QED
  BY <1>1, <1>2, HeightInduction

LEMMA AlignmentRecurs ==
  /\ GetTypeAlignment \in [Types -> Nat \ {0}]
  /\ \A ty \in Types : GetTypeAlignment[ty] = AlignmentOf(ty, GetTypeAlignment)
<1> DEFINE V == Nat \ {0}
           Step == [p \in Types \X [Types -> V] |-> AlignmentOf(p[1], p[2])]
           Defines(f) == f = [ty \in Types |-> AlignmentOf(ty, f)]
<1>1. ASSUME NEW ty \in Types, NEW g \in [Types -> V]
      PROVE  Step[<<ty, g>>] = AlignmentOf(ty, g) /\ AlignmentOf(ty, g) \in V
  <2>1. PartsIn(ty, g, V)
    BY TypeFacts DEF PartsIn
  <2>2. <<ty, g>> \in Types \X [Types -> V] /\ <<ty, g>>[1] = ty /\ <<ty, g>>[2] = g
    OBVIOUS
  <2> HIDE DEF V
  <2>3. Step[<<ty, g>>] = AlignmentOf(ty, g)
    BY <2>2
  <2>4. QED
    BY <2>1, <2>3, AlignmentOfTyped DEF V
<1>2. Step \in [Types \X [Types -> V] -> V]
  <2>1. ASSUME NEW p \in Types \X [Types -> V] PROVE AlignmentOf(p[1], p[2]) \in V
    BY <1>1
  <2> HIDE DEF V
  <2>2. QED
    BY <2>1
<1>3. \A ty \in Types : \A g, h \in [Types -> V] :
        PartsAgree(ty, g, h) => Step[<<ty, g>>] = Step[<<ty, h>>]
  <2> HIDE DEF Step, V
  <2> QED BY <1>1, AlignmentOfAgrees
<1>4. PICK f : Solves(f, Types, V, Step)
  <2>1. V # {}
    OBVIOUS
  <2> HIDE DEF Step, V
  <2>2. QED
    BY <1>2, <1>3, <2>1, FromParts
<1>5. Defines(f)
  <2> HIDE DEF Step, V
  <2>1. f \in [Types -> V] /\ \A ty \in Types : f[ty] = AlignmentOf(ty, f)
    BY <1>1, <1>4 DEF Solves
  <2>2. QED
    BY <2>1
<1>6. Defines(GetTypeAlignment)
  <2>1. GetTypeAlignment = CHOOSE g : Defines(g)
    BY DEF GetTypeAlignment, AlignmentOf, OverFields
  <2> HIDE DEF Defines
  <2>2. QED
    BY <1>5, <2>1
<1>7. \A ty \in Types : GetTypeAlignment[ty] = AlignmentOf(ty, GetTypeAlignment)
  <2> DEFINE e(ty) == AlignmentOf(ty, GetTypeAlignment)
  <2>1. GetTypeAlignment = [ty \in Types |-> e(ty)]
    BY <1>6
  <2> HIDE DEF e
  <2>2. \A ty \in Types : GetTypeAlignment[ty] = e(ty)
    BY <2>1
  <2>3. QED
    BY <2>2 DEF e
<1>8. Types \subseteq {ty \in Types : GetTypeAlignment[ty] \in V}
  <2> DEFINE P == {ty \in Types : GetTypeAlignment[ty] \in V}
  <2>1. ASSUME NEW ty \in Types, \A i \in DOMAIN ty.fields : ty.fields[i] \in P,
               ty.kind = "array" => ty.elem[1] \in P
        PROVE  ty \in P
    <3>1. PartsIn(ty, GetTypeAlignment, V)
      BY <2>1 DEF PartsIn
    <3>2. QED
      BY <1>7, <3>1, AlignmentOfTyped
  <2> HIDE DEF P
  <2>2. Types \subseteq P
    BY <2>1, TypeInduction
  <2>3. QED
    BY <2>2 DEF P
<1>9. QED
  <2> HIDE DEF V
  <2>1. \A ty \in Types : GetTypeAlignment[ty] \in V
    BY <1>8
  <2>2. DOMAIN GetTypeAlignment = Types /\ GetTypeAlignment = [ty \in Types |-> GetTypeAlignment[ty]]
    BY <1>6, <1>7
  <2>3. GetTypeAlignment \in [Types -> V]
    BY <2>1, <2>2
  <2>4. QED
    BY <1>7, <2>3 DEF V

AbiAlignOf(ty, g) ==
  IF ty.kind = "struct" THEN Strictest(OverFields(ty, g))
  ELSE IF ty.kind = "array" THEN g[ty.elem[1]]
  ELSE Greater(ty.bytes, 1)

LEMMA AbiAlignOfTyped ==
  ASSUME NEW ty \in Types, NEW g, PartsIn(ty, g, Nat \ {0})
  PROVE  AbiAlignOf(ty, g) \in Nat \ {0}
<1>1. ty.bytes \in Nat
  BY TypeFacts
<1>2. Strictest(OverFields(ty, g)) \in Nat \ {0}
  BY OverFieldsTyped, StrictestTyped
<1>3. ty.kind = "array" => g[ty.elem[1]] \in Nat \ {0}
  BY DEF PartsIn
<1>4. Greater(ty.bytes, 1) \in Nat \ {0}
  BY <1>1 DEF Greater
<1>5. QED
  BY <1>2, <1>3, <1>4 DEF AbiAlignOf

LEMMA AbiAlignOfAgrees ==
  ASSUME NEW ty \in Types, NEW g, NEW h, PartsAgree(ty, g, h)
  PROVE  AbiAlignOf(ty, g) = AbiAlignOf(ty, h)
<1>1. OverFields(ty, g) = OverFields(ty, h)
  BY OverFieldsAgree
<1>2. ty.kind = "array" => g[ty.elem[1]] = h[ty.elem[1]]
  BY DEF PartsAgree
<1>3. QED
  BY <1>1, <1>2 DEF AbiAlignOf

LEMMA AbiAlignRecurs ==
  /\ AbiAlign \in [Types -> Nat \ {0}]
  /\ \A ty \in Types : AbiAlign[ty] = AbiAlignOf(ty, AbiAlign)
<1> DEFINE V == Nat \ {0}
           Step == [p \in Types \X [Types -> V] |-> AbiAlignOf(p[1], p[2])]
           Defines(f) == f = [ty \in Types |-> AbiAlignOf(ty, f)]
<1>1. ASSUME NEW ty \in Types, NEW g \in [Types -> V]
      PROVE  Step[<<ty, g>>] = AbiAlignOf(ty, g) /\ AbiAlignOf(ty, g) \in V
  <2>1. PartsIn(ty, g, V)
    BY TypeFacts DEF PartsIn
  <2>2. <<ty, g>> \in Types \X [Types -> V] /\ <<ty, g>>[1] = ty /\ <<ty, g>>[2] = g
    OBVIOUS
  <2> HIDE DEF V
  <2>3. Step[<<ty, g>>] = AbiAlignOf(ty, g)
    BY <2>2
  <2>4. QED
    BY <2>1, <2>3, AbiAlignOfTyped DEF V
<1>2. Step \in [Types \X [Types -> V] -> V]
  <2>1. ASSUME NEW p \in Types \X [Types -> V] PROVE AbiAlignOf(p[1], p[2]) \in V
    BY <1>1
  <2> HIDE DEF V
  <2>2. QED
    BY <2>1
<1>3. \A ty \in Types : \A g, h \in [Types -> V] :
        PartsAgree(ty, g, h) => Step[<<ty, g>>] = Step[<<ty, h>>]
  <2> HIDE DEF Step, V
  <2> QED BY <1>1, AbiAlignOfAgrees
<1>4. PICK f : Solves(f, Types, V, Step)
  <2>1. V # {}
    OBVIOUS
  <2> HIDE DEF Step, V
  <2>2. QED
    BY <1>2, <1>3, <2>1, FromParts
<1>5. Defines(f)
  <2> HIDE DEF Step, V
  <2>1. f \in [Types -> V] /\ \A ty \in Types : f[ty] = AbiAlignOf(ty, f)
    BY <1>1, <1>4 DEF Solves
  <2>2. QED
    BY <2>1
<1>6. Defines(AbiAlign)
  <2>1. AbiAlign = CHOOSE g : Defines(g)
    BY DEF AbiAlign, AbiAlignOf, OverFields
  <2> HIDE DEF Defines
  <2>2. QED
    BY <1>5, <2>1
<1>7. \A ty \in Types : AbiAlign[ty] = AbiAlignOf(ty, AbiAlign)
  <2> DEFINE e(ty) == AbiAlignOf(ty, AbiAlign)
  <2>1. AbiAlign = [ty \in Types |-> e(ty)]
    BY <1>6
  <2> HIDE DEF e
  <2>2. \A ty \in Types : AbiAlign[ty] = e(ty)
    BY <2>1
  <2>3. QED
    BY <2>2 DEF e
<1>8. Types \subseteq {ty \in Types : AbiAlign[ty] \in V}
  <2> DEFINE P == {ty \in Types : AbiAlign[ty] \in V}
  <2>1. ASSUME NEW ty \in Types, \A i \in DOMAIN ty.fields : ty.fields[i] \in P,
               ty.kind = "array" => ty.elem[1] \in P
        PROVE  ty \in P
    <3>1. PartsIn(ty, AbiAlign, V)
      BY <2>1 DEF PartsIn
    <3>2. QED
      BY <1>7, <3>1, AbiAlignOfTyped
  <2> HIDE DEF P
  <2>2. Types \subseteq P
    BY <2>1, TypeInduction
  <2>3. QED
    BY <2>2 DEF P
<1>9. QED
  <2> HIDE DEF V
  <2>1. \A ty \in Types : AbiAlign[ty] \in V
    BY <1>8
  <2>2. DOMAIN AbiAlign = Types /\ AbiAlign = [ty \in Types |-> AbiAlign[ty]]
    BY <1>6, <1>7
  <2>3. AbiAlign \in [Types -> V]
    BY <2>1, <2>2
  <2>4. QED
    BY <1>7, <2>3 DEF V


-----------------------------------------------------------------------------
(* Sizes *)

SizeOf(ty, g) ==
  IF ty.kind = "struct" THEN PassFields(OverFields(ty, g), Alignments(ty.fields), Len(ty.fields))
  ELSE IF ty.kind = "array" THEN IF ty.bytes # 0 THEN ty.bytes ELSE g[ty.elem[1]]
  ELSE BasicSize(ty)

LEMMA AlignmentsTyped ==
  ASSUME NEW ty \in Types
  PROVE  Alignments(ty.fields) \in Seq(Nat \ {0}) /\ Len(Alignments(ty.fields)) = Len(ty.fields)
<1>1. PartsIn(ty, GetTypeAlignment, Nat \ {0})
  BY TypeFacts, AlignmentRecurs DEF PartsIn
<1>2. Alignments(ty.fields) = OverFields(ty, GetTypeAlignment)
  BY DEF Alignments, OverFields
<1>3. QED
  BY <1>1, <1>2, OverFieldsTyped

LEMMA AbiAlignsTyped ==
  ASSUME NEW ty \in Types
  PROVE  AbiAligns(ty.fields) \in Seq(Nat \ {0}) /\ Len(AbiAligns(ty.fields)) = Len(ty.fields)
<1>1. PartsIn(ty, AbiAlign, Nat \ {0})
  BY TypeFacts, AbiAlignRecurs DEF PartsIn
<1>2. AbiAligns(ty.fields) = OverFields(ty, AbiAlign)
  BY DEF AbiAligns, OverFields
<1>3. QED
  BY <1>1, <1>2, OverFieldsTyped

LEMMA SizeOfTyped ==
  ASSUME NEW ty \in Types, NEW g, PartsIn(ty, g, Nat)
  PROVE  SizeOf(ty, g) \in Nat
<1>1. ty.kind \in {"int", "ptr", "other", "struct", "array"} /\ ty.bytes \in Nat
  BY TypeFacts
<1>2. OverFields(ty, g) \in Seq(Nat) /\ Len(OverFields(ty, g)) = Len(ty.fields)
  BY OverFieldsTyped
<1>3. PassFields(OverFields(ty, g), Alignments(ty.fields), Len(ty.fields)) \in Nat
  BY <1>2, AlignmentsTyped, PassFieldsLoop
<1>4. ty.kind = "array" => g[ty.elem[1]] \in Nat
  BY DEF PartsIn
<1>5. QED
  BY <1>1, <1>3, <1>4 DEF SizeOf, BasicSize

LEMMA SizeOfAgrees ==
  ASSUME NEW ty \in Types, NEW g, NEW h, PartsAgree(ty, g, h)
  PROVE  SizeOf(ty, g) = SizeOf(ty, h)
<1>1. OverFields(ty, g) = OverFields(ty, h)
  BY OverFieldsAgree
<1>2. ty.kind = "array" => g[ty.elem[1]] = h[ty.elem[1]]
  BY DEF PartsAgree
<1>3. QED
  BY <1>1, <1>2 DEF SizeOf

LEMMA SizeRecurs ==
  /\ GetTypeSize \in [Types -> Nat]
  /\ \A ty \in Types : GetTypeSize[ty] = SizeOf(ty, GetTypeSize)
<1> DEFINE V == Nat
           Step == [p \in Types \X [Types -> V] |-> SizeOf(p[1], p[2])]
           Defines(f) == f = [ty \in Types |-> SizeOf(ty, f)]
<1>1. ASSUME NEW ty \in Types, NEW g \in [Types -> V]
      PROVE  Step[<<ty, g>>] = SizeOf(ty, g) /\ SizeOf(ty, g) \in V
  <2>1. PartsIn(ty, g, V)
    BY TypeFacts DEF PartsIn
  <2>2. <<ty, g>> \in Types \X [Types -> V] /\ <<ty, g>>[1] = ty /\ <<ty, g>>[2] = g
    OBVIOUS
  <2> HIDE DEF V
  <2>3. Step[<<ty, g>>] = SizeOf(ty, g)
    BY <2>2
  <2>4. QED
    BY <2>1, <2>3, SizeOfTyped DEF V
<1>2. Step \in [Types \X [Types -> V] -> V]
  <2>1. ASSUME NEW p \in Types \X [Types -> V] PROVE SizeOf(p[1], p[2]) \in V
    BY <1>1
  <2> HIDE DEF V
  <2>2. QED
    BY <2>1
<1>3. \A ty \in Types : \A g, h \in [Types -> V] :
        PartsAgree(ty, g, h) => Step[<<ty, g>>] = Step[<<ty, h>>]
  <2> HIDE DEF Step, V
  <2> QED BY <1>1, SizeOfAgrees
<1>4. PICK f : Solves(f, Types, V, Step)
  <2>1. V # {}
    OBVIOUS
  <2> HIDE DEF Step, V
  <2>2. QED
    BY <1>2, <1>3, <2>1, FromParts
<1>5. Defines(f)
  <2> HIDE DEF Step, V
  <2>1. f \in [Types -> V] /\ \A ty \in Types : f[ty] = SizeOf(ty, f)
    BY <1>1, <1>4 DEF Solves
  <2>2. QED
    BY <2>1
<1>6. Defines(GetTypeSize)
  <2>1. GetTypeSize = CHOOSE g : Defines(g)
    BY DEF GetTypeSize, SizeOf, OverFields
  <2> HIDE DEF Defines
  <2>2. QED
    BY <1>5, <2>1
<1>7. \A ty \in Types : GetTypeSize[ty] = SizeOf(ty, GetTypeSize)
  <2> DEFINE e(ty) == SizeOf(ty, GetTypeSize)
  <2>1. GetTypeSize = [ty \in Types |-> e(ty)]
    BY <1>6
  <2> HIDE DEF e
  <2>2. \A ty \in Types : GetTypeSize[ty] = e(ty)
    BY <2>1
  <2>3. QED
    BY <2>2 DEF e
<1>8. Types \subseteq {ty \in Types : GetTypeSize[ty] \in V}
  <2> DEFINE P == {ty \in Types : GetTypeSize[ty] \in V}
  <2>1. ASSUME NEW ty \in Types, \A i \in DOMAIN ty.fields : ty.fields[i] \in P,
               ty.kind = "array" => ty.elem[1] \in P
        PROVE  ty \in P
    <3>1. PartsIn(ty, GetTypeSize, V)
      BY <2>1 DEF PartsIn
    <3>2. QED
      BY <1>7, <3>1, SizeOfTyped
  <2> HIDE DEF P
  <2>2. Types \subseteq P
    BY <2>1, TypeInduction
  <2>3. QED
    BY <2>2 DEF P
<1>9. QED
  <2> HIDE DEF V
  <2>1. \A ty \in Types : GetTypeSize[ty] \in V
    BY <1>8
  <2>2. DOMAIN GetTypeSize = Types /\ GetTypeSize = [ty \in Types |-> GetTypeSize[ty]]
    BY <1>6, <1>7
  <2>3. GetTypeSize \in [Types -> V]
    BY <2>1, <2>2
  <2>4. QED
    BY <1>7, <2>3 DEF V


LEMMA SumNatural == \A a, b \in Nat : a + b \in Nat
OBVIOUS

\* The psABI's loop.
LEMMA AbiOffsetLoop ==
  ASSUME NEW sizes \in Seq(Nat), NEW aligns \in Seq(Nat \ {0}), Len(aligns) = Len(sizes)
  PROVE  /\ Len(sizes) # 0 => AbiOffset(sizes, aligns, 1) = 0
         /\ \A n \in 1..Len(sizes) : AbiOffset(sizes, aligns, n) \in Nat
         /\ \A n \in 1..Len(sizes) : n # 1 =>
              AbiOffset(sizes, aligns, n)
                = NextMultiple(AbiOffset(sizes, aligns, n - 1) + sizes[n - 1], aligns[n])
<1> SUFFICES ASSUME Len(sizes) # 0
             PROVE  /\ AbiOffset(sizes, aligns, 1) = 0
                    /\ \A n \in 1..Len(sizes) : AbiOffset(sizes, aligns, n) \in Nat
                    /\ \A n \in 1..Len(sizes) : n # 1 =>
                         AbiOffset(sizes, aligns, n)
                           = NextMultiple(AbiOffset(sizes, aligns, n - 1) + sizes[n - 1], aligns[n])
  OBVIOUS
<1> DEFINE k == Len(sizes)
           Turn == [p \in (1..k) \X Nat |->
                      IF p[1] = 1 THEN 0 ELSE NextMultiple(p[2] + sizes[p[1] - 1], aligns[p[1]])]
<1>1. k \in Nat /\ 1 <= k
  OBVIOUS
<1>2. ASSUME NEW i \in 1..k, i # 1, NEW offset \in Nat
      PROVE  NextMultiple(offset + sizes[i - 1], aligns[i]) \in Nat
  <2>1. i - 1 \in 1..Len(sizes) /\ i \in 1..Len(aligns)
    BY <1>2
  <2>2. offset + sizes[i - 1] \in Nat /\ aligns[i] \in Nat \ {0}
    <3>1. sizes[i - 1] \in Nat
      BY <2>1, ElementOfSeq
    <3>2. aligns[i] \in Nat \ {0}
      BY <2>1, ElementOfSeq
    <3>3. QED
      BY <3>1, <3>2, SumNatural, Zenon
  <2>3. QED
    BY <2>2, NextMultipleTyped
<1>3. ASSUME NEW i \in 1..k, i # 1, NEW offset \in Nat
      PROVE  Turn[<<i, offset>>] = NextMultiple(offset + sizes[i - 1], aligns[i])
  <2>1. <<i, offset>> \in (1..k) \X Nat /\ <<i, offset>>[1] = i /\ <<i, offset>>[2] = offset
    OBVIOUS
  <2> HIDE DEF k
  <2>2. QED
    BY <1>3, <2>1
<1>4. Turn \in [(1..k) \X Nat -> Nat]
  <2>1. ASSUME NEW p \in (1..k) \X Nat, p[1] # 1
        PROVE  NextMultiple(p[2] + sizes[p[1] - 1], aligns[p[1]]) \in Nat
    <3>1. p[1] \in 1..k /\ p[2] \in Nat
      OBVIOUS
    <3> HIDE DEF k
    <3>2. QED
      BY <1>2, <2>1, <3>1
  <2> HIDE DEF k
  <2>2. QED
    BY <2>1
<1>5. PICK f \in [1..k -> Nat] : f[1] = 0 /\ \A i \in 1..k : i # 1 => f[i] = Turn[<<i, f[i - 1]>>]
  <2> HIDE DEF Turn, k
  <2>1. PICK f : Runs(f, 1, k, Nat, 0, Turn)
    BY <1>1, <1>4, Iteration
  <2>2. QED
    BY <2>1 DEF Runs
<1>6. ASSUME NEW i \in 1..k, i # 1
      PROVE  f[i - 1] \in Nat /\ f[i] = NextMultiple(f[i - 1] + sizes[i - 1], aligns[i])
  <2>1. i - 1 \in 1..k
    BY <1>6
  <2> HIDE DEF Turn, k
  <2>2. QED
    BY <1>3, <1>5, <1>6, <2>1
<1>7. ASSUME NEW n \in 1..k PROVE AbiOffset(sizes, aligns, n) = f[n]
  <2> DEFINE Loop(o) == o = [i \in 1..n |->
                IF i = 1 THEN 0 ELSE NextMultiple(o[i - 1] + sizes[i - 1], aligns[i])]
             offset == CHOOSE o : Loop(o)
             short == [i \in 1..n |-> f[i]]
  <2>1. AbiOffset(sizes, aligns, n) = offset[n]
    BY DEF AbiOffset
  <2>2. \A o : Loop(o) => /\ o[1] = 0
                          /\ \A i \in 1..n : i # 1 => o[i] = NextMultiple(o[i - 1] + sizes[i - 1], aligns[i])
    <3> SUFFICES ASSUME NEW o, Loop(o)
                 PROVE  /\ o[1] = 0
                        /\ \A i \in 1..n : i # 1 => o[i] = NextMultiple(o[i - 1] + sizes[i - 1], aligns[i])
      OBVIOUS
    <3> DEFINE e(i) == IF i = 1 THEN 0 ELSE NextMultiple(o[i - 1] + sizes[i - 1], aligns[i])
    <3>1. o = [i \in 1..n |-> e(i)]
      OBVIOUS
    <3> HIDE DEF e
    <3>2. \A i \in 1..n : o[i] = e(i)
      BY <3>1
    <3>3. 1 \in 1..n
      OBVIOUS
    <3>4. QED
      BY <3>2, <3>3 DEF e
  <2>3. Loop(short)
    <3>1. ASSUME NEW i \in 1..n
          PROVE  short[i] = IF i = 1 THEN 0 ELSE NextMultiple(short[i - 1] + sizes[i - 1], aligns[i])
      <4>1. (i # 1 => i - 1 \in 1..n) /\ i \in 1..k
        OBVIOUS
      <4>2. QED
        BY <1>5, <1>6, <4>1
    <3>2. short = [i \in 1..n |-> IF i = 1 THEN 0 ELSE NextMultiple(short[i - 1] + sizes[i - 1], aligns[i])]
      BY <3>1
    <3> HIDE DEF short
    <3>3. QED
      BY <3>2
  <2>4. Loop(offset)
    <3> HIDE DEF Loop, short
    <3> QED BY <2>3
  <2> HIDE DEF offset, Loop
  <2>5. offset[1] = f[1]
    BY <1>5, <2>2, <2>4
  <2>6. ASSUME NEW i \in 1..n, i # 1, offset[i - 1] = f[i - 1] PROVE offset[i] = f[i]
    <3>1. i \in 1..k
      OBVIOUS
    <3>2. offset[i] = NextMultiple(offset[i - 1] + sizes[i - 1], aligns[i])
      BY <2>2, <2>4, <2>6
    <3>3. QED
      BY <1>6, <2>6, <3>1, <3>2
  <2>7. n \in Nat /\ n \in 1..n
    OBVIOUS
  <2>8. offset[n] = f[n]
    <3>1. StepAlike(offset, f, 1, n)
      BY <2>6 DEF StepAlike
    <3> HIDE DEF k
    <3>2. Alike(offset, f, 1, n)
      BY <2>5, <2>7, <3>1, SameIteration
    <3>3. QED
      BY <2>7, <3>2 DEF Alike
  <2>9. QED
    BY <2>1, <2>8
<1>8. ASSUME NEW n \in 1..k, n # 1 PROVE n - 1 \in 1..k
  BY <1>8
<1>9. 1 \in 1..k
  BY <1>1
<1>10. QED
  <2> HIDE DEF Turn
  <2> QED BY <1>5, <1>6, <1>7, <1>8, <1>9

LEMMA ElementsTyped == \A ty \in Types : ty.kind = "array" => Elements(ty) \in Nat
<1> SUFFICES ASSUME NEW ty \in Types, ty.kind = "array" PROVE Elements(ty) \in Nat
  OBVIOUS
<1>1. ty.bytes \in Nat /\ GetTypeSize[ty.elem[1]] \in Nat
  BY TypeFacts, SizeRecurs
<1>2. GetTypeSize[ty.elem[1]] # 0 => ty.bytes \div GetTypeSize[ty.elem[1]] \in Nat
  BY <1>1, Division
<1>3. QED
  BY <1>2 DEF Elements

AbiSizeOf(ty, g) ==
  IF ty.kind = "array" THEN Elements(ty) * g[ty.elem[1]]
  ELSE IF ty.kind # "struct" \/ ty.fields = <<>> THEN ty.bytes
  ELSE NextMultiple(AbiEnd(OverFields(ty, g), AbiAligns(ty.fields)), AbiAlign[ty])

LEMMA AbiEndTyped ==
  ASSUME NEW sizes \in Seq(Nat), NEW aligns \in Seq(Nat \ {0}), Len(aligns) = Len(sizes), Len(sizes) # 0
  PROVE  AbiEnd(sizes, aligns) \in Nat
<1>1. Len(sizes) \in 1..Len(sizes) /\ Last(sizes) = sizes[Len(sizes)] /\ sizes[Len(sizes)] \in Nat
  BY DEF Last
<1>2. AbiOffset(sizes, aligns, Len(sizes)) \in Nat
  BY <1>1, AbiOffsetLoop
<1>3. QED
  BY <1>1, <1>2 DEF AbiEnd

LEMMA AbiSizeOfTyped ==
  ASSUME NEW ty \in Types, NEW g, PartsIn(ty, g, Nat)
  PROVE  AbiSizeOf(ty, g) \in Nat
<1>1. ty.bytes \in Nat /\ AbiAlign[ty] \in Nat \ {0}
  BY TypeFacts, AbiAlignRecurs
<1>2. OverFields(ty, g) \in Seq(Nat) /\ Len(OverFields(ty, g)) = Len(ty.fields)
  BY OverFieldsTyped
<1>4. ty.kind = "array" => Elements(ty) * g[ty.elem[1]] \in Nat
  <2>1. ty.kind = "array" => Elements(ty) \in Nat /\ g[ty.elem[1]] \in Nat
    BY ElementsTyped DEF PartsIn
  <2>2. QED
    BY <2>1
<1>3. CASE ty.fields # <<>>
  <2>1. Len(ty.fields) # 0
    BY <1>3, TypeFacts
  <2>2. AbiEnd(OverFields(ty, g), AbiAligns(ty.fields)) \in Nat
    BY <1>2, <2>1, AbiAlignsTyped, AbiEndTyped
  <2>3. NextMultiple(AbiEnd(OverFields(ty, g), AbiAligns(ty.fields)), AbiAlign[ty]) \in Nat
    BY <1>1, <2>2, NextMultipleTyped
  <2>4. QED
    BY <1>1, <1>4, <2>3 DEF AbiSizeOf
<1>5. QED
  BY <1>1, <1>3, <1>4 DEF AbiSizeOf

LEMMA AbiSizeOfAgrees ==
  ASSUME NEW ty \in Types, NEW g, NEW h, PartsAgree(ty, g, h)
  PROVE  AbiSizeOf(ty, g) = AbiSizeOf(ty, h)
<1>1. OverFields(ty, g) = OverFields(ty, h)
  BY OverFieldsAgree
<1>2. ty.kind = "array" => g[ty.elem[1]] = h[ty.elem[1]]
  BY DEF PartsAgree
<1>3. QED
  BY <1>1, <1>2 DEF AbiSizeOf

LEMMA AbiSizeRecurs ==
  /\ AbiSize \in [Types -> Nat]
  /\ \A ty \in Types : AbiSize[ty] = AbiSizeOf(ty, AbiSize)
<1> DEFINE V == Nat
           Step == [p \in Types \X [Types -> V] |-> AbiSizeOf(p[1], p[2])]
           Defines(f) == f = [ty \in Types |-> AbiSizeOf(ty, f)]
<1>1. ASSUME NEW ty \in Types, NEW g \in [Types -> V]
      PROVE  Step[<<ty, g>>] = AbiSizeOf(ty, g) /\ AbiSizeOf(ty, g) \in V
  <2>1. PartsIn(ty, g, V)
    BY TypeFacts DEF PartsIn
  <2>2. <<ty, g>> \in Types \X [Types -> V] /\ <<ty, g>>[1] = ty /\ <<ty, g>>[2] = g
    OBVIOUS
  <2> HIDE DEF V
  <2>3. Step[<<ty, g>>] = AbiSizeOf(ty, g)
    BY <2>2
  <2>4. QED
    BY <2>1, <2>3, AbiSizeOfTyped DEF V
<1>2. Step \in [Types \X [Types -> V] -> V]
  <2>1. ASSUME NEW p \in Types \X [Types -> V] PROVE AbiSizeOf(p[1], p[2]) \in V
    BY <1>1
  <2> HIDE DEF V
  <2>2. QED
    BY <2>1
<1>3. \A ty \in Types : \A g, h \in [Types -> V] :
        PartsAgree(ty, g, h) => Step[<<ty, g>>] = Step[<<ty, h>>]
  <2> HIDE DEF Step, V
  <2> QED BY <1>1, AbiSizeOfAgrees
<1>4. PICK f : Solves(f, Types, V, Step)
  <2>1. V # {}
    OBVIOUS
  <2> HIDE DEF Step, V
  <2>2. QED
    BY <1>2, <1>3, <2>1, FromParts
<1>5. Defines(f)
  <2> HIDE DEF Step, V
  <2>1. f \in [Types -> V] /\ \A ty \in Types : f[ty] = AbiSizeOf(ty, f)
    BY <1>1, <1>4 DEF Solves
  <2>2. QED
    BY <2>1
<1>6. Defines(AbiSize)
  <2>1. AbiSize = CHOOSE g : Defines(g)
    BY DEF AbiSize, AbiSizeOf, OverFields
  <2> HIDE DEF Defines
  <2>2. QED
    BY <1>5, <2>1
<1>7. \A ty \in Types : AbiSize[ty] = AbiSizeOf(ty, AbiSize)
  <2> DEFINE e(ty) == AbiSizeOf(ty, AbiSize)
  <2>1. AbiSize = [ty \in Types |-> e(ty)]
    BY <1>6
  <2> HIDE DEF e
  <2>2. \A ty \in Types : AbiSize[ty] = e(ty)
    BY <2>1
  <2>3. QED
    BY <2>2 DEF e
<1>8. Types \subseteq {ty \in Types : AbiSize[ty] \in V}
  <2> DEFINE P == {ty \in Types : AbiSize[ty] \in V}
  <2>1. ASSUME NEW ty \in Types, \A i \in DOMAIN ty.fields : ty.fields[i] \in P,
               ty.kind = "array" => ty.elem[1] \in P
        PROVE  ty \in P
    <3>1. PartsIn(ty, AbiSize, V)
      BY <2>1 DEF PartsIn
    <3>2. QED
      BY <1>7, <3>1, AbiSizeOfTyped
  <2> HIDE DEF P
  <2>2. Types \subseteq P
    BY <2>1, TypeInduction
  <2>3. QED
    BY <2>2 DEF P
<1>9. QED
  <2> HIDE DEF V
  <2>1. \A ty \in Types : AbiSize[ty] \in V
    BY <1>8
  <2>2. DOMAIN AbiSize = Types /\ AbiSize = [ty \in Types |-> AbiSize[ty]]
    BY <1>6, <1>7
  <2>3. AbiSize \in [Types -> V]
    BY <2>1, <2>2
  <2>4. QED
    BY <1>7, <2>3 DEF V

-----------------------------------------------------------------------------
(* Types without padding at the end of a struct *)

UnpaddedOf(ty, g) ==
  IF ty.kind = "struct"
  THEN /\ AbiSize[ty] = AbiEnd(AbiSizes(ty.fields), AbiAligns(ty.fields))
       /\ \A i \in DOMAIN ty.fields : g[ty.fields[i]]
  ELSE IF ty.kind = "array" THEN g[ty.elem[1]]
  ELSE TRUE

LEMMA UnpaddedOfTyped ==
  ASSUME NEW ty \in Types, NEW g, PartsIn(ty, g, BOOLEAN)
  PROVE  UnpaddedOf(ty, g) \in BOOLEAN
<1>1. ty.kind = "array" => g[ty.elem[1]] \in BOOLEAN
  BY DEF PartsIn
<1>2. QED
  BY <1>1, Zenon DEF UnpaddedOf

LEMMA UnpaddedOfAgrees ==
  ASSUME NEW ty \in Types, NEW g, NEW h, PartsAgree(ty, g, h)
  PROVE  UnpaddedOf(ty, g) = UnpaddedOf(ty, h)
<1>1. (\A i \in DOMAIN ty.fields : g[ty.fields[i]]) = (\A i \in DOMAIN ty.fields : h[ty.fields[i]])
  BY Zenon DEF PartsAgree
<1>2. ty.kind = "array" => g[ty.elem[1]] = h[ty.elem[1]]
  BY DEF PartsAgree
<1>3. QED
  BY <1>1, <1>2, Zenon DEF UnpaddedOf

LEMMA UnpaddedRecurs ==
  /\ Unpadded \in [Types -> BOOLEAN]
  /\ \A ty \in Types : Unpadded[ty] = UnpaddedOf(ty, Unpadded)
<1> DEFINE V == BOOLEAN
           Step == [p \in Types \X [Types -> V] |-> UnpaddedOf(p[1], p[2])]
           Defines(f) == f = [ty \in Types |-> UnpaddedOf(ty, f)]
<1>1. ASSUME NEW ty \in Types, NEW g \in [Types -> V]
      PROVE  Step[<<ty, g>>] = UnpaddedOf(ty, g) /\ UnpaddedOf(ty, g) \in V
  <2>1. PartsIn(ty, g, V)
    BY TypeFacts DEF PartsIn
  <2>2. <<ty, g>> \in Types \X [Types -> V] /\ <<ty, g>>[1] = ty /\ <<ty, g>>[2] = g
    OBVIOUS
  <2> HIDE DEF V
  <2>3. Step[<<ty, g>>] = UnpaddedOf(ty, g)
    BY <2>2
  <2>4. QED
    BY <2>1, <2>3, UnpaddedOfTyped DEF V
<1>2. Step \in [Types \X [Types -> V] -> V]
  <2>1. ASSUME NEW p \in Types \X [Types -> V] PROVE UnpaddedOf(p[1], p[2]) \in V
    BY <1>1
  <2> HIDE DEF V
  <2>2. QED
    BY <2>1
<1>3. \A ty \in Types : \A g, h \in [Types -> V] :
        PartsAgree(ty, g, h) => Step[<<ty, g>>] = Step[<<ty, h>>]
  <2> HIDE DEF Step, V
  <2> QED BY <1>1, UnpaddedOfAgrees
<1>4. PICK f : Solves(f, Types, V, Step)
  <2>1. V # {}
    OBVIOUS
  <2> HIDE DEF Step, V
  <2>2. QED
    BY <1>2, <1>3, <2>1, FromParts
<1>5. Defines(f)
  <2> HIDE DEF Step, V
  <2>1. f \in [Types -> V] /\ \A ty \in Types : f[ty] = UnpaddedOf(ty, f)
    BY <1>1, <1>4 DEF Solves
  <2>2. QED
    BY <2>1
<1>6. Defines(Unpadded)
  <2>1. Unpadded = CHOOSE g : Defines(g)
    BY DEF Unpadded, UnpaddedOf, OverFields
  <2> HIDE DEF Defines
  <2>2. QED
    BY <1>5, <2>1
<1>7. \A ty \in Types : Unpadded[ty] = UnpaddedOf(ty, Unpadded)
  <2> DEFINE e(ty) == UnpaddedOf(ty, Unpadded)
  <2>1. Unpadded = [ty \in Types |-> e(ty)]
    BY <1>6
  <2> HIDE DEF e
  <2>2. \A ty \in Types : Unpadded[ty] = e(ty)
    BY <2>1
  <2>3. QED
    BY <2>2 DEF e
<1>8. Types \subseteq {ty \in Types : Unpadded[ty] \in V}
  <2> DEFINE P == {ty \in Types : Unpadded[ty] \in V}
  <2>1. ASSUME NEW ty \in Types, \A i \in DOMAIN ty.fields : ty.fields[i] \in P,
               ty.kind = "array" => ty.elem[1] \in P
        PROVE  ty \in P
    <3>1. PartsIn(ty, Unpadded, V)
      BY <2>1 DEF PartsIn
    <3>2. QED
      BY <1>7, <3>1, UnpaddedOfTyped
  <2> HIDE DEF P
  <2>2. Types \subseteq P
    BY <2>1, TypeInduction
  <2>3. QED
    BY <2>2 DEF P
<1>9. QED
  <2> HIDE DEF V
  <2>1. \A ty \in Types : Unpadded[ty] \in V
    BY <1>8
  <2>2. DOMAIN Unpadded = Types /\ Unpadded = [ty \in Types |-> Unpadded[ty]]
    BY <1>6, <1>7
  <2>3. Unpadded \in [Types -> V]
    BY <2>1, <2>2
  <2>4. QED
    BY <1>7, <2>3 DEF V

-----------------------------------------------------------------------------
(* The two loops *)

LEMMA SumBelow ==
  ASSUME NEW a \in Nat, NEW b \in Nat, NEW m \in Nat, NEW n \in Nat, a <= b, m <= n
  PROVE  a + m \in Nat /\ b + n \in Nat /\ a + m <= b + n
OBVIOUS

\* The loop of getTypeSize passes no field behind the place where the psABI has it begin,
\* and ends no later, as long as no size is above that of the psABI; it passes it there,
\* and ends there, where the sizes before are those of the psABI.
LEMMA LoopFollowsAbi ==
  ASSUME NEW sizes \in Seq(Nat), NEW abi \in Seq(Nat), NEW aligns \in Seq(Nat \ {0}),
         Len(abi) = Len(sizes), Len(aligns) = Len(sizes),
         \A j \in 1..Len(sizes) : sizes[j] <= abi[j]
  PROVE  /\ \A n \in 1..Len(sizes) :
              /\ PassFields(sizes, aligns, n - 1) <= AbiOffset(abi, aligns, n)
              /\ (\A j \in 1..(n - 1) : sizes[j] = abi[j]) =>
                   PassFields(sizes, aligns, n - 1) = AbiOffset(abi, aligns, n)
         /\ Len(sizes) # 0 =>
              /\ PassFields(sizes, aligns, Len(sizes)) <= AbiEnd(abi, aligns)
              /\ (\A j \in 1..Len(sizes) : sizes[j] = abi[j]) =>
                   PassFields(sizes, aligns, Len(sizes)) = AbiEnd(abi, aligns)
<1> DEFINE k == Len(sizes)
           f(n) == PassFields(sizes, aligns, n - 1)
           g(n) == AbiOffset(abi, aligns, n)
           Same(n) == \A j \in 1..(n - 1) : sizes[j] = abi[j]
           Behind(n) == f(n) <= g(n) /\ (Same(n) => f(n) = g(n))
           P == {d \in Nat : d + 1 <= k => Behind(d + 1)}
<1>1. k \in Nat
  OBVIOUS
<1>2. \A n \in 1..k : f(n) \in Nat /\ g(n) \in Nat
  <2>1. \A n \in 1..k : n - 1 \in 0..Len(sizes)
    BY <1>1
  <2>2. QED
    BY <2>1, PassFieldsLoop, AbiOffsetLoop
<1>3. 0 \in P
  <2>1. SUFFICES ASSUME 1 <= k PROVE Behind(1)
    BY <1>1
  <2>2. f(1) = 0
    BY PassFieldsLoop
  <2>3. g(1) = 0
    BY <2>1, AbiOffsetLoop
  <2>4. QED
    BY <2>2, <2>3
<1>4. ASSUME NEW d \in Nat, d \in P PROVE d + 1 \in P
  <2>1. SUFFICES ASSUME d + 2 <= k PROVE Behind(d + 2)
    BY <1>1
  <2> DEFINE n == d + 1
             m == d + 2
  <2>2. n \in 1..k /\ m \in 1..k /\ m # 1 /\ m - 1 = n /\ n + 1 = m /\ n < Len(sizes) /\ n <= k
    BY <1>1, <2>1
  <2>3. Behind(n)
    BY <1>4, <2>2
  <2>4. f(m) = AlignTo(f(n) + sizes[n], aligns[m])
    <3>1. f(m) = PassField(sizes, aligns, n, f(n))
      BY <2>2, PassFieldsLoop
    <3>2. QED
      BY <2>2, <3>1 DEF PassField
  <2>5. g(m) = NextMultiple(g(n) + abi[n], aligns[m])
    BY <2>2, AbiOffsetLoop
  <2>6. sizes[n] \in Nat /\ abi[n] \in Nat /\ aligns[m] \in Nat \ {0} /\ sizes[n] <= abi[n]
    <3>1. n \in 1..Len(sizes) /\ n \in 1..Len(abi) /\ m \in 1..Len(aligns)
      BY <2>2
    <3>2. sizes[n] <= abi[n]
      BY <3>1
    <3> HIDE DEF f, g, n, m, k, P
    <3>3. sizes[n] \in Nat
      BY <3>1, ElementOfSeq
    <3>4. abi[n] \in Nat
      BY <3>1, ElementOfSeq
    <3>5. aligns[m] \in Nat \ {0}
      BY <3>1, ElementOfSeq
    <3>6. QED
      BY <3>2, <3>3, <3>4, <3>5
  <2>7. f(n) \in Nat /\ g(n) \in Nat /\ f(n) <= g(n)
    BY <1>2, <2>2, <2>3
  <2> HIDE DEF f, g, n, m, k, P
  <2>8. f(m) <= g(m)
    <3>1. f(n) + sizes[n] \in Nat /\ g(n) + abi[n] \in Nat /\ f(n) + sizes[n] <= g(n) + abi[n]
      BY <2>6, <2>7, SumBelow
    <3>2. QED
      BY <2>4, <2>5, <2>6, <3>1, AlignToMonotone
  <2>9. ASSUME Same(m) PROVE f(m) = g(m)
    <3>1. sizes[n] = abi[n] /\ Same(n)
      BY <2>2, <2>9 DEF k, n
    <3>2. f(n) + sizes[n] = g(n) + abi[n] /\ f(n) + sizes[n] \in Nat
      BY <2>3, <2>6, <2>7, <3>1
    <3>3. QED
      BY <2>4, <2>5, <2>6, <3>2, AlignToNext
  <2>10. QED
    BY <2>8, <2>9 DEF m
<1>5. \A n \in 1..k : Behind(n)
  <2>1. \A d \in Nat : d \in P
    <3> HIDE DEF P
    <3> QED BY <1>3, <1>4, Induction
  <2>2. ASSUME NEW n \in 1..k PROVE Behind(n)
    <3>1. n - 1 \in Nat /\ (n - 1) + 1 = n /\ n <= k
      BY <1>1
    <3> HIDE DEF Behind, k
    <3>2. QED
      BY <2>1, <3>1
  <2>3. QED
    BY <2>2
<1>6. ASSUME k # 0
      PROVE  /\ PassFields(sizes, aligns, k) <= AbiEnd(abi, aligns)
             /\ (\A j \in 1..k : sizes[j] = abi[j]) => PassFields(sizes, aligns, k) = AbiEnd(abi, aligns)
  <2>1. k \in 1..k /\ ~(k < k)
    BY <1>1, <1>6
  <2>2. PassFields(sizes, aligns, k) = f(k) + sizes[k]
    <3>1. PassFields(sizes, aligns, k) = PassField(sizes, aligns, k, f(k))
      BY <2>1, PassFieldsLoop
    <3>2. QED
      BY <2>1, <3>1 DEF PassField
  <2>3. AbiEnd(abi, aligns) = g(k) + abi[k]
    BY DEF AbiEnd, Last
  <2>4. sizes[k] \in Nat /\ abi[k] \in Nat /\ sizes[k] <= abi[k] /\ f(k) \in Nat /\ g(k) \in Nat
    <3>1. sizes[k] \in Nat /\ abi[k] \in Nat /\ sizes[k] <= abi[k]
      BY <2>1
    <3>2. QED
      BY <1>2, <2>1, <3>1
  <2>5. f(k) <= g(k) /\ (Same(k) => f(k) = g(k))
    <3>1. Behind(k)
      <4> HIDE DEF Behind
      <4> QED BY <1>5, <2>1
    <3>2. QED
      BY <3>1
  <2>6. ASSUME \A j \in 1..k : sizes[j] = abi[j] PROVE Same(k) /\ sizes[k] = abi[k]
    BY <1>1, <2>1, <2>6
  <2>7. f(k) + sizes[k] <= g(k) + abi[k]
    <3> HIDE DEF f, g, k, Same
    <3> QED BY <2>4, <2>5, SumBelow
  <2>8. ASSUME \A j \in 1..k : sizes[j] = abi[j] PROVE f(k) + sizes[k] = g(k) + abi[k]
    <3>1. Same(k) /\ sizes[k] = abi[k]
      BY <2>6, <2>8
    <3> HIDE DEF f, g, k, Same
    <3>2. QED
      BY <2>5, <3>1
  <2> HIDE DEF f, g, k, Same
  <2>9. QED
    BY <2>2, <2>3, <2>7, <2>8
<1>7. QED
  BY <1>5, <1>6

\* getTypeAlignment agrees with the psABI on a type, and getTypeSize is never above it, and
\* agrees with it where no struct in the type ends with padding.
FollowsAbi(ty) ==
  /\ GetTypeAlignment[ty] = AbiAlign[ty]
  /\ GetTypeSize[ty] \in Nat \ {0} /\ GetTypeSize[ty] <= AbiSize[ty]
  /\ Unpadded[ty] => GetTypeSize[ty] = AbiSize[ty]

LEMMA ArrayFollowsAbi ==
  ASSUME NEW ty \in Types, ty.kind = "array", FollowsAbi(ty.elem[1]),
         NEW n \in Nat \ {0}, ty.bytes = n * GetTypeSize[ty.elem[1]]
  PROVE  FollowsAbi(ty)
<1> DEFINE elem == ty.elem[1]
           size == GetTypeSize[elem]
           abi == AbiSize[elem]
<1>1. GetTypeAlignment[ty] = GetTypeAlignment[elem] /\ AbiAlign[ty] = AbiAlign[elem]
  BY AlignmentRecurs, AbiAlignRecurs DEF AlignmentOf, AbiAlignOf
<1>2. size \in Nat \ {0} /\ abi \in Nat /\ size <= abi
  BY TypeFacts, AbiSizeRecurs DEF FollowsAbi
<1>3. AbiSize[ty] = Elements(ty) * abi
  BY AbiSizeRecurs DEF AbiSizeOf
<1>4. Unpadded[ty] = Unpadded[elem]
  BY UnpaddedRecurs DEF UnpaddedOf
<1>5. GetTypeSize[ty] = IF ty.bytes # 0 THEN ty.bytes ELSE size
  BY SizeRecurs DEF SizeOf
<1>6. ty.bytes = n * size /\ Elements(ty) = IF size = 0 THEN 0 ELSE ty.bytes \div size
  BY DEF Elements
<1> HIDE DEF size, abi
<1>7. Elements(ty) = n
  <2>1. (size * n) \div size = n
    BY <1>2, Multiple
  <2>2. n * size = size * n
    BY <1>2
  <2>3. QED
    BY <1>2, <1>6, <2>1, <2>2
<1>8. n * size \in Nat \ {0} /\ n * size <= n * abi
  BY <1>2
<1>9. GetTypeSize[ty] = n * size
  BY <1>5, <1>6, <1>8
<1>10. Unpadded[ty] => size = abi
  BY <1>4 DEF FollowsAbi, size, abi
<1>11. QED
  BY <1>1, <1>3, <1>7, <1>8, <1>9, <1>10 DEF FollowsAbi

LEMMA StructFollowsAbi ==
  ASSUME NEW ty \in Types, ty.kind = "struct", ty.fields # <<>>,
         \A i \in DOMAIN ty.fields : FollowsAbi(ty.fields[i])
  PROVE  FollowsAbi(ty)
<1>1. GetTypeAlignment[ty] = AbiAlign[ty]
  <2>1. PartsAgree(ty, GetTypeAlignment, AbiAlign)
    BY DEF FollowsAbi, PartsAgree
  <2>2. OverFields(ty, GetTypeAlignment) = OverFields(ty, AbiAlign)
    BY <2>1, OverFieldsAgree
  <2>3. QED
    BY <2>2, AlignmentRecurs, AbiAlignRecurs DEF AlignmentOf, AbiAlignOf
<1> DEFINE sizes == OverFields(ty, GetTypeSize)
           abi == OverFields(ty, AbiSize)
           aligns == Alignments(ty.fields)
           k == Len(ty.fields)
<1>2. sizes \in Seq(Nat) /\ Len(sizes) = k /\ abi \in Seq(Nat) /\ Len(abi) = k
  <2>1. PartsIn(ty, GetTypeSize, Nat) /\ PartsIn(ty, AbiSize, Nat)
    BY TypeFacts, SizeRecurs, AbiSizeRecurs DEF PartsIn
  <2>2. QED
    BY <2>1, OverFieldsTyped
<1>3. aligns \in Seq(Nat \ {0}) /\ Len(aligns) = k
  BY AlignmentsTyped
<1>4. aligns = AbiAligns(ty.fields) /\ abi = AbiSizes(ty.fields)
  BY DEF FollowsAbi, OverFields, Alignments, AbiAligns, AbiSizes
<1>5. k \in Nat \ {0} /\ DOMAIN ty.fields = 1..k
  BY TypeFacts
<1>6. GetTypeSize[ty] = PassFields(sizes, aligns, k)
  BY SizeRecurs DEF SizeOf
<1>7. AbiSize[ty] = NextMultiple(AbiEnd(abi, aligns), AbiAlign[ty])
  BY <1>4, AbiSizeRecurs DEF AbiSizeOf
<1>8. \A j \in 1..k : sizes[j] \in Nat \ {0} /\ sizes[j] <= abi[j]
  BY <1>5 DEF FollowsAbi, OverFields
<1>9. ASSUME Unpadded[ty]
      PROVE  AbiSize[ty] = AbiEnd(abi, aligns) /\ \A j \in 1..k : sizes[j] = abi[j]
  <2>1. UnpaddedOf(ty, Unpadded)
    BY <1>9, UnpaddedRecurs
  <2>2. /\ AbiSize[ty] = AbiEnd(AbiSizes(ty.fields), AbiAligns(ty.fields))
        /\ \A i \in DOMAIN ty.fields : Unpadded[ty.fields[i]]
    BY <2>1 DEF UnpaddedOf
  <2>3. \A j \in 1..k : GetTypeSize[ty.fields[j]] = AbiSize[ty.fields[j]]
    BY <1>5, <2>2 DEF FollowsAbi
  <2>4. \A j \in 1..k : sizes[j] = abi[j]
    BY <1>5, <2>3 DEF OverFields
  <2>5. QED
    BY <1>4, <2>2, <2>4
<1> HIDE DEF sizes, abi, aligns, k
<1>10. /\ PassFields(sizes, aligns, k) <= AbiEnd(abi, aligns)
       /\ (\A j \in 1..k : sizes[j] = abi[j]) => PassFields(sizes, aligns, k) = AbiEnd(abi, aligns)
  <2>1. \A j \in 1..Len(sizes) : sizes[j] <= abi[j]
    BY <1>2, <1>8
  <2>2. Len(sizes) # 0 /\ Len(abi) = Len(sizes) /\ Len(aligns) = Len(sizes)
    BY <1>2, <1>3, <1>5
  <2>3. /\ PassFields(sizes, aligns, Len(sizes)) <= AbiEnd(abi, aligns)
        /\ (\A j \in 1..Len(sizes) : sizes[j] = abi[j]) =>
             PassFields(sizes, aligns, Len(sizes)) = AbiEnd(abi, aligns)
    BY <1>2, <1>3, <2>1, <2>2, LoopFollowsAbi
  <2>4. QED
    BY <1>2, <2>3
<1>11. GetTypeSize[ty] \in Nat \ {0}
  <2>1. k \in 1..Len(sizes) /\ k - 1 \in 0..Len(sizes) /\ k \in 0..Len(sizes)
    BY <1>2, <1>5
  <2>2. PassFields(sizes, aligns, k - 1) \in Nat
    BY <1>2, <1>3, <2>1, PassFieldsLoop
  <2>3. PassFields(sizes, aligns, k) = PassField(sizes, aligns, k, PassFields(sizes, aligns, k - 1))
    BY <1>2, <1>3, <2>1, PassFieldsLoop
  <2>4. /\ PassField(sizes, aligns, k, PassFields(sizes, aligns, k - 1)) \in Nat
        /\ PassField(sizes, aligns, k, PassFields(sizes, aligns, k - 1))
             >= PassFields(sizes, aligns, k - 1) + sizes[k]
    BY <1>2, <1>3, <2>1, <2>2, PassFieldStays
  <2>5. sizes[k] \in Nat \ {0}
    BY <1>5, <1>8
  <2>6. QED
    BY <1>6, <2>2, <2>3, <2>4, <2>5
<1>12. AbiEnd(abi, aligns) \in Nat /\ AbiEnd(abi, aligns) <= AbiSize[ty] /\ AbiSize[ty] \in Nat
  <2>1. AbiEnd(abi, aligns) \in Nat
    BY <1>2, <1>3, <1>5, AbiEndTyped
  <2>2. AbiAlign[ty] \in Nat \ {0}
    BY AbiAlignRecurs
  <2>3. QED
    BY <1>7, <2>1, <2>2, NextMultipleTyped
<1>13. GetTypeSize[ty] <= AbiSize[ty]
  BY <1>6, <1>10, <1>11, <1>12
<1>14. Unpadded[ty] => GetTypeSize[ty] = AbiSize[ty]
  BY <1>6, <1>9, <1>10
<1>15. QED
  BY <1>1, <1>11, <1>13, <1>14 DEF FollowsAbi

LEMMA FieldTypesFollowAbi == \A ty \in FieldTypes : FollowsAbi(ty)
<1> DEFINE P == {ty \in Types : ty \in FieldTypes => FollowsAbi(ty)}
<1>1. ASSUME NEW ty \in Types, \A i \in DOMAIN ty.fields : ty.fields[i] \in P,
             ty.kind = "array" => ty.elem[1] \in P
      PROVE  ty \in P
  <2>1. SUFFICES ASSUME ty \in FieldTypes PROVE FollowsAbi(ty)
    BY <1>1
  <2>2. Stored(ty) /\ ty.bytes \in Nat /\ ty.kind \in {"int", "ptr", "other", "struct", "array"}
    BY <2>1, FieldAssumption, TypeFacts
  <2>3. CASE ty.kind \in {"int", "ptr", "other"}
    <3>1. ty.bytes \in 1..8
      BY <2>2, <2>3 DEF Stored
    <3>2. GetTypeAlignment[ty] = BasicAlignment(ty) /\ AbiAlign[ty] = Greater(ty.bytes, 1)
      BY <2>3, AlignmentRecurs, AbiAlignRecurs DEF AlignmentOf, AbiAlignOf
    <3>3. GetTypeSize[ty] = BasicSize(ty) /\ AbiSize[ty] = ty.bytes
      BY <2>3, SizeRecurs, AbiSizeRecurs DEF SizeOf, AbiSizeOf
    <3>4. BasicAlignment(ty) = ty.bytes /\ BasicSize(ty) = ty.bytes /\ Greater(ty.bytes, 1) = ty.bytes
      BY <2>2, <2>3, <3>1 DEF Stored, BasicAlignment, BasicSize, Smaller, Greater
    <3>5. QED
      BY <3>1, <3>2, <3>3, <3>4 DEF FollowsAbi
  <2>4. CASE ty.kind = "array"
    <3>1. ty.elem[1] \in FieldTypes /\ \E n \in 1..ty.bytes : ty.bytes = n * GetTypeSize[ty.elem[1]]
      BY <2>2, <2>4 DEF Stored
    <3>2. FollowsAbi(ty.elem[1])
      BY <1>1, <2>4, <3>1
    <3>3. PICK n \in Nat \ {0} : ty.bytes = n * GetTypeSize[ty.elem[1]]
      BY <2>2, <3>1
    <3>4. QED
      BY <2>4, <3>2, <3>3, ArrayFollowsAbi
  <2>5. CASE ty.kind = "struct"
    <3>1. ty.fields \in Seq(FieldTypes) /\ ty.fields # <<>>
      BY <2>2, <2>5 DEF Stored
    <3>2. \A i \in DOMAIN ty.fields : FollowsAbi(ty.fields[i])
      BY <1>1, <3>1
    <3>3. QED
      BY <2>5, <3>1, <3>2, StructFollowsAbi
  <2>6. QED
    BY <2>2, <2>3, <2>4, <2>5
<1>2. Types \subseteq P
  <2> HIDE DEF P
  <2> QED BY <1>1, TypeInduction
<1>3. QED
  BY <1>2, FieldAssumption

-----------------------------------------------------------------------------
(* The struct that grows by one field at a time *)

FieldsTyped == fields \in Seq(FieldTypes)
LEMMA FieldsStayTyped == LayoutSpec => []FieldsTyped
<1>1. LayoutInit => FieldsTyped
  BY DEF LayoutInit, FieldsTyped
<1>2. FieldsTyped /\ [LayoutNext]_fields => FieldsTyped'
  BY DEF LayoutNext, AddField, FieldsTyped
<1>3. QED
  BY <1>1, <1>2, PTL DEF LayoutSpec

LEMMA LayoutOfFields ==
  ASSUME FieldsTyped
  PROVE  /\ Sizes(fields) \in Seq(Nat) /\ Len(Sizes(fields)) = Len(fields)
         /\ AbiSizes(fields) \in Seq(Nat) /\ Len(AbiSizes(fields)) = Len(fields)
         /\ AbiAligns(fields) \in Seq(Nat \ {0}) /\ Len(AbiAligns(fields)) = Len(fields)
         /\ Alignments(fields) = AbiAligns(fields)
         /\ \A j \in 1..Len(fields) :
              /\ Sizes(fields)[j] <= AbiSizes(fields)[j]
              /\ Unpadded[fields[j]] => Sizes(fields)[j] = AbiSizes(fields)[j]
<1>1. \A i \in DOMAIN fields : fields[i] \in FieldTypes /\ fields[i] \in Types
  BY FieldAssumption DEF FieldsTyped
<1>2. PICK n \in Nat : n = Len(fields) /\ DOMAIN fields = 1..n
  BY DEF FieldsTyped
<1>3. \A i \in 1..n : /\ AbiSize[fields[i]] \in Nat /\ AbiAlign[fields[i]] \in Nat \ {0}
                      /\ GetTypeSize[fields[i]] \in Nat
  BY <1>1, <1>2, AbiSizeRecurs, AbiAlignRecurs, SizeRecurs
<1>4. /\ AbiSizes(fields) = [i \in 1..n |-> AbiSize[fields[i]]]
      /\ AbiAligns(fields) = [i \in 1..n |-> AbiAlign[fields[i]]]
      /\ Sizes(fields) = [i \in 1..n |-> GetTypeSize[fields[i]]]
  BY <1>2 DEF AbiSizes, AbiAligns, Sizes
<1>5. Alignments(fields) = AbiAligns(fields)
  BY <1>1, FieldTypesFollowAbi DEF FollowsAbi, Alignments, AbiAligns
<1>6. \A j \in 1..n : /\ GetTypeSize[fields[j]] <= AbiSize[fields[j]]
                      /\ Unpadded[fields[j]] => GetTypeSize[fields[j]] = AbiSize[fields[j]]
  BY <1>1, <1>2, FieldTypesFollowAbi DEF FollowsAbi
<1>7. QED
  BY <1>2, <1>3, <1>4, <1>5, <1>6

\* getFieldByteOffset places no field of any struct behind the place where the psABI has
\* it, and places it there when no field before it ends with padding, or has a struct in it
\* that does (SimpleDataLayout.cpp, getFieldByteOffset and getTypeSize), however many
\* fields there are and however deep their types nest.
THEOREM LayoutFollowsAbi == LayoutSpec => []OffsetsFollowAbi
<1>1. ASSUME FieldsTyped PROVE OffsetsFollowAbi
  <2>1. SUFFICES ASSUME NEW i \in DOMAIN fields
                 PROVE  /\ GetFieldByteOffset(TheStruct, i - 1) <= AbiOffsetOf(i)
                        /\ (\A j \in 1..(i - 1) : Unpadded[fields[j]]) =>
                             GetFieldByteOffset(TheStruct, i - 1) = AbiOffsetOf(i)
    BY DEF OffsetsFollowAbi
  <2>2. TheStruct.fields = fields
    BY DEF TheStruct, StructType, Type
  <2>3. Smaller(i - 1, Len(fields)) = i - 1 /\ i \in 1..Len(fields) /\ Len(fields) \in Nat
    BY <1>1 DEF Smaller, FieldsTyped
  <2> DEFINE sizes == Sizes(fields)
             abi == AbiSizes(fields)
             aligns == AbiAligns(fields)
  <2>4. /\ GetFieldByteOffset(TheStruct, i - 1) = PassFields(sizes, aligns, i - 1)
        /\ AbiOffsetOf(i) = AbiOffset(abi, aligns, i)
    BY <1>1, <2>2, <2>3, LayoutOfFields DEF GetFieldByteOffset, OffsetIn, AbiOffsetOf
  <2>5. /\ sizes \in Seq(Nat) /\ Len(sizes) = Len(fields) /\ abi \in Seq(Nat) /\ Len(abi) = Len(fields)
        /\ aligns \in Seq(Nat \ {0}) /\ Len(aligns) = Len(fields)
        /\ \A j \in 1..Len(fields) : /\ sizes[j] <= abi[j]
                                     /\ Unpadded[fields[j]] => sizes[j] = abi[j]
    BY <1>1, LayoutOfFields
  <2> HIDE DEF sizes, abi, aligns
  <2>6. /\ PassFields(sizes, aligns, i - 1) <= AbiOffset(abi, aligns, i)
        /\ (\A j \in 1..(i - 1) : sizes[j] = abi[j]) =>
             PassFields(sizes, aligns, i - 1) = AbiOffset(abi, aligns, i)
    <3>1. /\ Len(abi) = Len(sizes) /\ Len(aligns) = Len(sizes) /\ i \in 1..Len(sizes)
          /\ \A j \in 1..Len(sizes) : sizes[j] <= abi[j]
      BY <2>3, <2>5
    <3>2. QED
      BY <2>5, <3>1, LoopFollowsAbi
  <2>7. ASSUME \A j \in 1..(i - 1) : Unpadded[fields[j]] PROVE \A j \in 1..(i - 1) : sizes[j] = abi[j]
    <3>1. \A j \in 1..(i - 1) : j \in 1..Len(fields)
      BY <2>3
    <3>2. QED
      BY <2>5, <2>7, <3>1
  <2>8. QED
    BY <2>4, <2>6, <2>7
<1>2. QED
  BY <1>1, FieldsStayTyped, PTL

-----------------------------------------------------------------------------
(* The leaves of a type *)

\* The first n of a sequence of sequences, one behind the other.
Joined(s, n) == FlattenSeq(SubSeq(s, 1, n))

LEMMA FlattenLoop ==
  ASSUME NEW V, NEW s \in Seq(Seq(V))
  PROVE  /\ Joined(s, 0) = <<>>
         /\ \A n \in 0..Len(s) : Joined(s, n) \in Seq(V)
         /\ \A n \in 1..Len(s) : Joined(s, n) = Joined(s, n - 1) \o s[n]
<1> DEFINE k == Len(s)
           W == Seq(V)
           Turn == [p \in (0..k) \X W |-> IF p[1] = 0 THEN <<>> ELSE p[2] \o s[p[1]]]
<1>1. k \in Nat /\ 0 <= k /\ <<>> \in W
  OBVIOUS
<1>2. ASSUME NEW i \in 1..k, NEW u \in W
      PROVE  Turn[<<i, u>>] = u \o s[i] /\ u \o s[i] \in W
  <2>1. <<i, u>> \in (0..k) \X W /\ i # 0 /\ <<i, u>>[1] = i /\ <<i, u>>[2] = u
    OBVIOUS
  <2>2. s[i] \in Seq(V)
    OBVIOUS
  <2>3. u \o s[i] \in W
    BY <2>2
  <2> HIDE DEF k, W
  <2>4. QED
    BY <2>1, <2>3
<1>3. Turn \in [(0..k) \X W -> W]
  <2>1. ASSUME NEW p \in (0..k) \X W, p[1] # 0 PROVE p[2] \o s[p[1]] \in W
    <3>1. p[1] \in 1..k /\ p[2] \in W
      BY <2>1
    <3> HIDE DEF k, W
    <3>2. QED
      BY <1>2, <3>1
  <2> HIDE DEF k, W
  <2>2. QED
    BY <1>1, <2>1
<1>4. PICK f \in [0..k -> W] : f[0] = <<>> /\ \A i \in 0..k : i # 0 => f[i] = Turn[<<i, f[i - 1]>>]
  <2> HIDE DEF Turn, k, W
  <2>1. PICK f : Runs(f, 0, k, W, <<>>, Turn)
    BY <1>1, <1>3, Iteration
  <2>2. QED
    BY <2>1 DEF Runs
<1>5. ASSUME NEW i \in 1..k PROVE f[i - 1] \in W /\ f[i] = f[i - 1] \o s[i]
  <2>1. i - 1 \in 0..k /\ i \in 0..k /\ i # 0
    OBVIOUS
  <2> HIDE DEF Turn, k, W
  <2>2. QED
    BY <1>2, <1>4, <2>1
<1>6. Joined(s, 0) = f[0]
  <2>1. SubSeq(s, 1, 0) = <<>>
    BY SubSeqEmpty
  <2>2. QED
    BY <1>4, <2>1 DEF Joined, FlattenSeq
<1>7. ASSUME NEW n \in 1..k PROVE Joined(s, n) = f[n]
  <2> DEFINE t == SubSeq(s, 1, n)
             Loop(o) == o = [i \in 1..n |-> IF i = 1 THEN t[i] ELSE o[i - 1] \o t[i]]
             flatten == CHOOSE o : Loop(o)
             short == [i \in 1..n |-> f[i]]
  <2>1. Len(t) = n /\ n # 0 /\ \A i \in 1..n : t[i] = s[i] /\ i \in 1..k
    BY <1>1
  <2> HIDE DEF t
  <2>2. Joined(s, n) = flatten[n]
    BY <2>1 DEF Joined, FlattenSeq, t
  <2>3. f[1] = t[1]
    <3>1. 1 \in 1..n /\ 1 \in 1..k /\ s[1] \in Seq(V) /\ 1 - 1 = 0
      OBVIOUS
    <3>2. f[1] = <<>> \o s[1]
      <4>1. f[1] = f[1 - 1] \o s[1]
        BY <1>5, <3>1
      <4> HIDE DEF k, W, Turn
      <4>2. QED
        BY <1>4, <3>1, <4>1
    <3>3. <<>> \o s[1] = s[1]
      BY <3>1, ConcatEmptySeq
    <3>4. QED
      BY <2>1, <3>1, <3>2, <3>3
  <2>4. Loop(short)
    <3>1. ASSUME NEW i \in 1..n PROVE short[i] = IF i = 1 THEN t[i] ELSE short[i - 1] \o t[i]
      <4>1. (i # 1 => i - 1 \in 1..n) /\ i \in 1..k /\ t[i] = s[i]
        BY <2>1
      <4>2. QED
        BY <1>5, <2>3, <4>1
    <3>2. short = [i \in 1..n |-> IF i = 1 THEN t[i] ELSE short[i - 1] \o t[i]]
      BY <3>1
    <3> HIDE DEF short
    <3>3. QED
      BY <3>2
  <2>5. Loop(flatten)
    <3> HIDE DEF Loop, short
    <3> QED BY <2>4
  <2>6. ASSUME NEW o, Loop(o)
        PROVE  o[1] = t[1] /\ \A i \in 1..n : i # 1 => o[i] = o[i - 1] \o t[i]
    <3> DEFINE e(i) == IF i = 1 THEN t[i] ELSE o[i - 1] \o t[i]
    <3>1. o = [i \in 1..n |-> e(i)]
      BY <2>6
    <3> HIDE DEF e
    <3>2. \A i \in 1..n : o[i] = e(i)
      BY <3>1
    <3>3. 1 \in 1..n
      OBVIOUS
    <3>4. QED
      BY <3>2, <3>3 DEF e
  <2> HIDE DEF flatten, Loop
  <2>7. flatten[1] = f[1]
    BY <2>3, <2>5, <2>6
  <2>8. ASSUME NEW i \in 1..n, i # 1, flatten[i - 1] = f[i - 1] PROVE flatten[i] = f[i]
    <3>1. flatten[i] = flatten[i - 1] \o t[i]
      BY <2>5, <2>6, <2>8
    <3>2. i \in 1..k /\ t[i] = s[i]
      BY <2>1
    <3>3. QED
      BY <1>5, <2>8, <3>1, <3>2
  <2>9. n \in Nat /\ n \in 1..n
    OBVIOUS
  <2>10. flatten[n] = f[n]
    <3>1. StepAlike(flatten, f, 1, n)
      BY <2>8 DEF StepAlike
    <3> HIDE DEF k, W
    <3>2. Alike(flatten, f, 1, n)
      BY <2>7, <2>9, <3>1, SameIteration
    <3>3. QED
      BY <2>9, <3>2 DEF Alike
  <2>11. QED
    BY <2>2, <2>10
<1>8. \A n \in 0..k : Joined(s, n) = f[n]
  <2>1. \A n \in 0..k : n = 0 \/ n \in 1..k
    OBVIOUS
  <2> HIDE DEF Turn, k, W
  <2>2. QED
    BY <1>6, <1>7, <2>1
<1>9. \A n \in 1..k : n \in 0..k /\ n - 1 \in 0..k
  OBVIOUS
<1>10. \A n \in 0..k : Joined(s, n) \in W
  <2> HIDE DEF k, W, Turn
  <2> QED BY <1>4, <1>8
<1>11. \A n \in 1..k : Joined(s, n) = Joined(s, n - 1) \o s[n]
  <2> HIDE DEF k, W, Turn
  <2> QED BY <1>5, <1>8, <1>9
<1>12. QED
  BY <1>4, <1>6, <1>10, <1>11

\* What is joined of the first is the begin of what is joined of all.
Begins(u, v) == Len(u) <= Len(v) /\ SubSeq(v, 1, Len(u)) = u
LEMMA BeginOfConcat ==
  ASSUME NEW V, NEW v \in Seq(V), NEW w \in Seq(V), NEW u \in Seq(V), Begins(u, v)
  PROVE  Begins(u, v \o w)
<1>0. Len(u) <= Len(v) /\ SubSeq(v, 1, Len(u)) = u /\ Len(u) <= Len(v \o w)
  BY DEF Begins
<1>1. CASE u = <<>>
  BY <1>0, <1>1, SubSeqEmpty DEF Begins
<1>2. CASE u # <<>>
  <2>1. Len(u) \in Nat \ {0}
    BY <1>2
  <2>2. 1 \in 1..Len(v) /\ Len(u) \in 1..Len(v)
    BY <1>0, <2>1
  <2>3. QED
    BY <1>0, <2>2, SubSeqOfConcat1 DEF Begins
<1>3. QED
  BY <1>1, <1>2

LEMMA JoinedBegins ==
  ASSUME NEW V, NEW s \in Seq(Seq(V)), NEW n \in 0..Len(s)
  PROVE  Begins(Joined(s, n), Joined(s, Len(s)))
<1> DEFINE P == {d \in Nat : n + d <= Len(s) => Begins(Joined(s, n), Joined(s, n + d))}
<1>1. Joined(s, n) \in Seq(V)
  BY FlattenLoop
<1>2. 0 \in P
  BY <1>1, SubSeqFull DEF Begins
<1>3. ASSUME NEW d \in Nat, d \in P PROVE d + 1 \in P
  <2>1. SUFFICES ASSUME n + d + 1 <= Len(s)
                 PROVE  Begins(Joined(s, n), Joined(s, n + d + 1))
    BY <1>3
  <2> DEFINE u == Joined(s, n)
             v == Joined(s, n + d)
             w == s[n + d + 1]
  <2>2. n + d + 1 \in 1..Len(s) /\ n + d \in 0..Len(s) /\ (n + d + 1) - 1 = n + d
    BY <2>1
  <2>3. Joined(s, n + d + 1) = v \o w
    BY <2>2, FlattenLoop
  <2>4. v \in Seq(V)
    BY <2>2, FlattenLoop
  <2>5. w \in Seq(V)
    BY <2>2
  <2>6. Begins(u, v)
    BY <1>3, <2>1
  <2> HIDE DEF u, v, w
  <2>7. Begins(u, v \o w)
    BY <1>1, <2>4, <2>5, <2>6, BeginOfConcat DEF u
  <2>8. QED
    BY <2>3, <2>7 DEF u
<1>4. \A d \in Nat : d \in P
  <2> HIDE DEF P
  <2> QED BY <1>2, <1>3, Induction
<1>5. Len(s) - n \in Nat /\ n + (Len(s) - n) = Len(s) /\ Len(s) <= Len(s)
  OBVIOUS
<1>6. Len(s) - n \in P
  BY <1>4, <1>5
<1>7. QED
  BY <1>5, <1>6
LEMMA JoinedAll ==
  ASSUME NEW V, NEW s \in Seq(Seq(V))
  PROVE  FlattenFields(s) = Joined(s, Len(s)) /\ FlattenFields(s) \in Seq(V)
<1>1. SubSeq(s, 1, Len(s)) = s
  BY SubSeqFull
<1>2. Len(s) \in 0..Len(s)
  OBVIOUS
<1>3. QED
  BY <1>1, <1>2, FlattenLoop DEF FlattenFields, Joined

FlattenOf(ty, g) ==
  IF ty.kind = "struct" THEN FlattenFields(OverFields(ty, g))
  ELSE IF ty.kind = "array" THEN g[ty.elem[1]]
  ELSE <<ty>>

LEMMA FlattenOfTyped ==
  ASSUME NEW ty \in Types, NEW g, PartsIn(ty, g, Seq(Types))
  PROVE  FlattenOf(ty, g) \in Seq(Types)
<1>1. FlattenFields(OverFields(ty, g)) \in Seq(Types)
  BY OverFieldsTyped, JoinedAll
<1>2. ty.kind = "array" => g[ty.elem[1]] \in Seq(Types)
  BY DEF PartsIn
<1>3. <<ty>> \in Seq(Types)
  OBVIOUS
<1>4. QED
  BY <1>1, <1>2, <1>3 DEF FlattenOf

LEMMA FlattenOfAgrees ==
  ASSUME NEW ty \in Types, NEW g, NEW h, PartsAgree(ty, g, h)
  PROVE  FlattenOf(ty, g) = FlattenOf(ty, h)
<1>1. OverFields(ty, g) = OverFields(ty, h)
  BY OverFieldsAgree
<1>2. ty.kind = "array" => g[ty.elem[1]] = h[ty.elem[1]]
  BY DEF PartsAgree
<1>3. QED
  BY <1>1, <1>2 DEF FlattenOf

LEMMA FlattenRecurs ==
  /\ Flatten \in [Types -> Seq(Types)]
  /\ \A ty \in Types : Flatten[ty] = FlattenOf(ty, Flatten)
<1> DEFINE V == Seq(Types)
           Step == [p \in Types \X [Types -> V] |-> FlattenOf(p[1], p[2])]
           Defines(f) == f = [ty \in Types |-> FlattenOf(ty, f)]
<1>1. ASSUME NEW ty \in Types, NEW g \in [Types -> V]
      PROVE  Step[<<ty, g>>] = FlattenOf(ty, g) /\ FlattenOf(ty, g) \in V
  <2>1. PartsIn(ty, g, V)
    BY TypeFacts DEF PartsIn
  <2>2. <<ty, g>> \in Types \X [Types -> V] /\ <<ty, g>>[1] = ty /\ <<ty, g>>[2] = g
    OBVIOUS
  <2> HIDE DEF V
  <2>3. Step[<<ty, g>>] = FlattenOf(ty, g)
    BY <2>2
  <2>4. QED
    BY <2>1, <2>3, FlattenOfTyped DEF V
<1>2. Step \in [Types \X [Types -> V] -> V]
  <2>1. ASSUME NEW p \in Types \X [Types -> V] PROVE FlattenOf(p[1], p[2]) \in V
    BY <1>1
  <2> HIDE DEF V
  <2>2. QED
    BY <2>1
<1>3. \A ty \in Types : \A g, h \in [Types -> V] :
        PartsAgree(ty, g, h) => Step[<<ty, g>>] = Step[<<ty, h>>]
  <2> HIDE DEF Step, V
  <2> QED BY <1>1, FlattenOfAgrees
<1>4. PICK f : Solves(f, Types, V, Step)
  <2>1. V # {}
    <3>1. <<>> \in V
      OBVIOUS
    <3> HIDE DEF V
    <3>2. QED
      BY <3>1
  <2> HIDE DEF Step, V
  <2>2. QED
    BY <1>2, <1>3, <2>1, FromParts
<1>5. Defines(f)
  <2> HIDE DEF Step, V
  <2>1. f \in [Types -> V] /\ \A ty \in Types : f[ty] = FlattenOf(ty, f)
    BY <1>1, <1>4 DEF Solves
  <2>2. QED
    BY <2>1
<1>6. Defines(Flatten)
  <2>1. Flatten = CHOOSE g : Defines(g)
    BY DEF Flatten, FlattenOf, OverFields
  <2> HIDE DEF Defines
  <2>2. QED
    BY <1>5, <2>1
<1>7. \A ty \in Types : Flatten[ty] = FlattenOf(ty, Flatten)
  <2> DEFINE e(ty) == FlattenOf(ty, Flatten)
  <2>1. Flatten = [ty \in Types |-> e(ty)]
    BY <1>6
  <2> HIDE DEF e
  <2>2. \A ty \in Types : Flatten[ty] = e(ty)
    BY <2>1
  <2>3. QED
    BY <2>2 DEF e
<1>8. Types \subseteq {ty \in Types : Flatten[ty] \in V}
  <2> DEFINE P == {ty \in Types : Flatten[ty] \in V}
  <2>1. ASSUME NEW ty \in Types, \A i \in DOMAIN ty.fields : ty.fields[i] \in P,
               ty.kind = "array" => ty.elem[1] \in P
        PROVE  ty \in P
    <3>1. PartsIn(ty, Flatten, V)
      BY <2>1 DEF PartsIn
    <3>2. QED
      BY <1>7, <3>1, FlattenOfTyped
  <2> HIDE DEF P
  <2>2. Types \subseteq P
    BY <2>1, TypeInduction
  <2>3. QED
    BY <2>2 DEF P
<1>9. QED
  <2> HIDE DEF V
  <2>1. \A ty \in Types : Flatten[ty] \in V
    BY <1>8
  <2>2. DOMAIN Flatten = Types /\ Flatten = [ty \in Types |-> Flatten[ty]]
    BY <1>6, <1>7
  <2>3. Flatten \in [Types -> V]
    BY <2>1, <2>2
  <2>4. QED
    BY <1>7, <2>3 DEF V

\* The leaves of a type are neither structs nor arrays, and there is one at least.
Basic == {ty \in Types : ty.kind \notin {"struct", "array"}}
HasLeaves(ty) == Flatten[ty] \in Seq(Basic) /\ Flatten[ty] # <<>>

LEMMA StructHasLeaves ==
  ASSUME NEW ty \in Types, ty.kind = "struct", ty.fields # <<>>,
         \A i \in DOMAIN ty.fields : HasLeaves(ty.fields[i])
  PROVE  HasLeaves(ty)
<1> DEFINE s == OverFields(ty, Flatten)
           k == Len(ty.fields)
<1>1. s \in Seq(Seq(Basic)) /\ Len(s) = k
  <2>1. PartsIn(ty, Flatten, Seq(Basic))
    BY DEF PartsIn, HasLeaves
  <2>2. QED
    BY <2>1, OverFieldsTyped
<1>2. k \in Nat \ {0} /\ DOMAIN ty.fields = 1..k
  BY TypeFacts
<1>3. s[k] # <<>>
  <2>1. k \in DOMAIN ty.fields
    BY <1>2
  <2>2. QED
    BY <2>1 DEF HasLeaves, OverFields
<1>4. Flatten[ty] = FlattenFields(s)
  BY FlattenRecurs DEF FlattenOf
<1> HIDE DEF s, k
<1>5. FlattenFields(s) \in Seq(Basic) /\ FlattenFields(s) = Joined(s, k)
  BY <1>1, JoinedAll
<1>6. Joined(s, k) # <<>>
  <2>1. k \in 1..Len(s) /\ k - 1 \in 0..Len(s)
    BY <1>1, <1>2
  <2>2. Joined(s, k) = Joined(s, k - 1) \o s[k] /\ Joined(s, k - 1) \in Seq(Basic)
    BY <1>1, <2>1, FlattenLoop
  <2>3. s[k] \in Seq(Basic)
    BY <1>1, <2>1
  <2>4. QED
    BY <1>3, <2>2, <2>3, ConcatEqualIffEmpty
<1>7. QED
  BY <1>4, <1>5, <1>6 DEF HasLeaves

LEMMA FieldTypesHaveLeaves == \A ty \in FieldTypes : HasLeaves(ty)
<1> DEFINE P == {ty \in Types : ty \in FieldTypes => HasLeaves(ty)}
<1>1. ASSUME NEW ty \in Types, \A i \in DOMAIN ty.fields : ty.fields[i] \in P,
             ty.kind = "array" => ty.elem[1] \in P
      PROVE  ty \in P
  <2>1. SUFFICES ASSUME ty \in FieldTypes PROVE HasLeaves(ty)
    BY <1>1
  <2>2. Stored(ty)
    BY <2>1, FieldAssumption
  <2>3. CASE ty.kind \notin {"struct", "array"}
    <3>1. Flatten[ty] = <<ty>>
      BY <2>3, FlattenRecurs DEF FlattenOf
    <3>2. ty \in Basic
      BY <2>3 DEF Basic
    <3>3. QED
      BY <3>1, <3>2 DEF HasLeaves
  <2>4. CASE ty.kind = "array"
    <3>1. Flatten[ty] = Flatten[ty.elem[1]]
      BY <2>4, FlattenRecurs DEF FlattenOf
    <3>2. ty.elem[1] \in FieldTypes
      BY <2>2, <2>4 DEF Stored
    <3>3. HasLeaves(ty.elem[1])
      BY <1>1, <2>4, <3>2
    <3>4. QED
      BY <3>1, <3>3 DEF HasLeaves
  <2>5. CASE ty.kind = "struct"
    <3>1. ty.fields \in Seq(FieldTypes) /\ ty.fields # <<>>
      BY <2>2, <2>5 DEF Stored
    <3>2. \A i \in DOMAIN ty.fields : HasLeaves(ty.fields[i])
      BY <1>1, <3>1
    <3>3. QED
      BY <2>5, <3>1, <3>2, StructHasLeaves
  <2>6. QED
    BY <2>3, <2>4, <2>5
<1>2. Types \subseteq P
  <2> HIDE DEF P
  <2> QED BY <1>1, TypeInduction
<1>3. QED
  BY <1>2, FieldAssumption

\* buildStInfo's flatten loses no field, and the leaves of a field lie together, behind
\* those of the fields before it (TSTypeBuilder.cpp, buildStInfo).
THEOREM FlattenKeepsOrder == LayoutSpec => []LeavesInOrder
<1>1. ASSUME FieldsTyped PROVE LeavesInOrder
  <2> DEFINE s == Leaves(fields)
             k == Len(fields)
  <2>1. \A i \in DOMAIN fields : fields[i] \in FieldTypes /\ fields[i] \in Types
    BY <1>1, FieldAssumption DEF FieldsTyped
  <2>2. fields \in Seq(FieldTypes) /\ k \in Nat /\ DOMAIN fields = 1..k
    BY <1>1 DEF FieldsTyped
  <2>3. s = [i \in 1..k |-> Flatten[fields[i]]]
    BY <2>2 DEF Leaves
  <2>4. s \in Seq(Seq(Types)) /\ Len(s) = k
    <3>1. \A i \in 1..k : Flatten[fields[i]] \in Seq(Types)
      BY <2>1, <2>2, FlattenRecurs
    <3> HIDE DEF k, s
    <3>2. QED
      BY <2>2, <2>3, <3>1
  <2>5. SUFFICES ASSUME NEW n \in DOMAIN fields
                 PROVE  LET before == FlattenFields(Leaves(SubSeq(fields, 1, n - 1)))
                            here == Flatten[fields[n]]
                            all == FlattenFields(Leaves(fields))
                        IN  /\ here # <<>> /\ \A i \in DOMAIN here : here[i].kind \notin {"struct", "array"}
                            /\ IsPrefix(before \o here, all)
    BY DEF LeavesInOrder
  <2> DEFINE before == FlattenFields(Leaves(SubSeq(fields, 1, n - 1)))
             here == Flatten[fields[n]]
             all == FlattenFields(Leaves(fields))
  <2>6. here # <<>> /\ \A i \in DOMAIN here : here[i].kind \notin {"struct", "array"}
    <3>1. here \in Seq(Basic) /\ here # <<>>
      BY <2>1, FieldTypesHaveLeaves DEF HasLeaves
    <3> HIDE DEF here
    <3>2. \A i \in DOMAIN here : here[i] \in Basic
      BY <3>1
    <3>3. QED
      BY <3>1, <3>2 DEF Basic
  <2>7. n \in 1..k /\ n - 1 \in 0..k /\ n \in 0..k /\ n \in Nat /\ n - 1 \in Nat
    BY <2>2
  <2>8. Leaves(SubSeq(fields, 1, n - 1)) = SubSeq(s, 1, n - 1)
    <3>1. /\ SubSeq(fields, 1, n - 1) = [i \in 1..(n - 1) |-> fields[i]]
          /\ SubSeq(s, 1, n - 1) = [i \in 1..(n - 1) |-> s[i]]
      BY <2>2, <2>4, <2>7
    <3>2. \A i \in 1..(n - 1) : i \in 1..k
      BY <2>2, <2>7
    <3>3. DOMAIN SubSeq(fields, 1, n - 1) = 1..(n - 1)
      BY <3>1
    <3> HIDE DEF s, k
    <3>4. \A i \in 1..(n - 1) : s[i] = Flatten[fields[i]] /\ SubSeq(fields, 1, n - 1)[i] = fields[i]
      BY <2>3, <3>1, <3>2
    <3>5. QED
      BY <3>1, <3>3, <3>4 DEF Leaves
  <2>9. before \in Seq(Types) /\ before = Joined(s, n - 1)
    <3> HIDE DEF s, k
    <3>1. SubSeq(s, 1, n - 1) \in Seq(Seq(Types))
      BY <2>4, <2>7
    <3>2. QED
      BY <2>8, <3>1, JoinedAll DEF Joined, FlattenFields
  <2>10. here \in Seq(Types) /\ here = s[n]
    BY <2>1, <2>2, <2>3, <2>7, FlattenRecurs
  <2>11. all = Joined(s, k)
    <3> HIDE DEF k
    <3> QED BY <2>4, JoinedAll
  <2>12. Joined(s, n) = before \o here
    <3> HIDE DEF s, k, before, here
    <3> QED BY <2>4, <2>7, <2>9, <2>10, FlattenLoop
  <2>13. Begins(before \o here, all)
    <3> HIDE DEF s, k, before, here, all
    <3> QED BY <2>4, <2>7, <2>11, <2>12, JoinedBegins
  <2>14. IsPrefix(before \o here, all)
    <3> HIDE DEF before, here, all
    <3>1. before \o here \in Seq(Types)
      BY <2>9, <2>10, ConcatProperties
    <3> DEFINE w == before \o here
    <3> HIDE DEF w
    <3>2. SubSeq(w, 1, Len(w)) = w
      BY <3>1, SubSeqFull DEF w
    <3>3. Begins(w, all)
      BY <2>13 DEF w
    <3>4. IsPrefix(w, all)
      BY <3>2, <3>3 DEF Begins, IsPrefix
    <3>5. QED
      BY <3>4 DEF w
  <2>15. QED
    BY <2>6, <2>14
<1>2. QED
  BY <1>1, FieldsStayTyped, PTL

-----------------------------------------------------------------------------
(* TSTypeBuilder: the registry *)

\* What keeps its length when something is appended.
IsSeq(s) == \E S : s \in Seq(S)
LEMMA AppendStaysSeq ==
  ASSUME NEW s, NEW e, IsSeq(s)
  PROVE  IsSeq(Append(s, e)) /\ Len(s) \in Nat /\ Len(Append(s, e)) = Len(s) + 1
<1>1. PICK S : s \in Seq(S)
  BY DEF IsSeq
<1> DEFINE T == S \cup {e}
<1>2. s \in Seq(T) /\ e \in T
  BY <1>1
<1> HIDE DEF T
<1>3. Append(s, e) \in Seq(T) /\ Len(Append(s, e)) = Len(s) + 1 /\ Len(s) \in Nat
  BY <1>2
<1>4. QED
  BY <1>3 DEF IsSeq

LEMMA PutGets ==
  ASSUME NEW m, NEW k, NEW v
  PROVE  /\ DOMAIN Put(m, k, v) = DOMAIN m \cup {k} /\ Put(m, k, v)[k] = v
         /\ \A x \in DOMAIN m : x # k => Put(m, k, v)[x] = m[x]
BY DEF Put

\* The registry knows each struct by its name, and the structs without a tag by as many
\* names as the source has shown, all below the next number.
Given(next) == {AnonymousName(n) : n \in {m \in 108..MaxTypeId : m < next}}
RegistryOk(s, next, shown) ==
  /\ \A name \in DOMAIN s : s[name] = StructType(name, <<>>)
  /\ next \in Nat /\ next >= 108 /\ shown \in Nat
  /\ DOMAIN s \ Tags \subseteq Given(next)
  /\ IsFiniteSet(DOMAIN s \ Tags) /\ Cardinality(DOMAIN s \ Tags) = shown
Reg(s, next) == [structs |-> s, next |-> next]

LEMMA NameFacts ==
  /\ MaxTypeId \in Nat /\ "" \notin Tags
  /\ \A m \in 108..MaxTypeId : AnonymousName(m) \notin Tags
  /\ \A m, n \in 108..MaxTypeId : AnonymousName(m) = AnonymousName(n) => m = n
BY SpecifierAssumption, Zenon

\* A struct that is asked for by a tag or for want of one.
LEMMA KnownStruct ==
  ASSUME NEW s, NEW next, NEW name, name \in DOMAIN s
  PROVE  GetOrCreateStructType(name, Reg(s, next)) = Known(s[name], Reg(s, next))
BY DEF GetOrCreateStructType, Reg, Known

LEMMA NewStruct ==
  ASSUME NEW s, NEW next, NEW name, name \notin DOMAIN s
  PROVE  GetOrCreateStructType(name, Reg(s, next))
           = Known(StructType(name, <<>>), Reg(Put(s, name, StructType(name, <<>>)), next + 1))
BY DEF GetOrCreateStructType, Reg, Known

LEMMA NumberFits ==
  ASSUME NEW s, NEW next, NEW shown, RegistryOk(s, next, shown), next < MaxTypeId
  PROVE  next \in 108..MaxTypeId /\ \A m \in 108..MaxTypeId : m < next => m # next
<1>1. next \in Nat /\ next >= 108 /\ MaxTypeId \in Nat
  BY NameFacts DEF RegistryOk
<1>2. QED
  BY <1>1

\* Adding a struct of this name keeps the registry in order.
LEMMA AddStruct ==
  ASSUME NEW s, NEW next, NEW shown, NEW name, RegistryOk(s, next, shown), next < MaxTypeId,
         name \notin DOMAIN s, name \in Tags \/ name = AnonymousName(next)
  PROVE  RegistryOk(Put(s, name, StructType(name, <<>>)), next + 1,
                    IF name \in Tags THEN shown ELSE shown + 1)
<1> DEFINE t == Put(s, name, StructType(name, <<>>))
           N == DOMAIN s \ Tags
<1>1. next \in 108..MaxTypeId /\ next + 1 \in Nat /\ next + 1 >= 108 /\ shown \in Nat
  <2>1. next \in Nat /\ next >= 108 /\ shown \in Nat /\ MaxTypeId \in Nat
    BY NameFacts DEF RegistryOk
  <2>2. QED
    BY <2>1
<1>2. /\ DOMAIN t = DOMAIN s \cup {name} /\ t[name] = StructType(name, <<>>)
      /\ \A x \in DOMAIN s : t[x] = s[x]
  <2>1. /\ DOMAIN t = DOMAIN s \cup {name} /\ t[name] = StructType(name, <<>>)
        /\ \A x \in DOMAIN s : x # name => t[x] = s[x]
    <3> DEFINE v == StructType(name, <<>>)
    <3> SUFFICES /\ DOMAIN Put(s, name, v) = DOMAIN s \cup {name} /\ Put(s, name, v)[name] = v
                 /\ \A x \in DOMAIN s : x # name => Put(s, name, v)[x] = s[x]
      OBVIOUS
    <3> HIDE DEF v
    <3> QED BY DEF Put
  <2> HIDE DEF t
  <2>2. \A x \in DOMAIN s : x # name
    OBVIOUS
  <2>3. QED
    BY <2>1, <2>2
<1> HIDE DEF t
<1>3. \A x \in DOMAIN t : t[x] = StructType(x, <<>>)
  BY <1>2 DEF RegistryOk
<1>4. Given(next) \subseteq Given(next + 1) /\ AnonymousName(next) \in Given(next + 1)
  <2>1. \A m \in 108..MaxTypeId : m < next => m < next + 1
    BY <1>1
  <2>2. next < next + 1
    BY <1>1
  <2>3. QED
    BY <1>1, <2>1, <2>2 DEF Given
<1>5. N \subseteq Given(next + 1) /\ IsFiniteSet(N) /\ Cardinality(N) = shown
  BY <1>4 DEF RegistryOk
<1>6. CASE name \in Tags
  <2>1. DOMAIN t \ Tags = N
    BY <1>2, <1>6
  <2> HIDE DEF N
  <2>2. QED
    BY <1>1, <1>3, <1>5, <1>6, <2>1 DEF RegistryOk, t
<1>7. CASE name \notin Tags
  <2>1. DOMAIN t \ Tags = N \cup {name} /\ name \notin N /\ name \in Given(next + 1)
    BY <1>2, <1>4, <1>7
  <2> HIDE DEF N
  <2>2. IsFiniteSet(N \cup {name}) /\ Cardinality(N \cup {name}) = shown + 1
    BY <1>5, <2>1, FS_AddElement
  <2>3. DOMAIN t \ Tags \subseteq Given(next + 1)
    BY <1>5, <2>1
  <2>4. shown + 1 \in Nat
    BY <1>1
  <2>5. QED
    BY <1>1, <1>3, <1>7, <2>1, <2>2, <2>3, <2>4 DEF RegistryOk, t
<1>8. QED
  BY <1>6, <1>7

\* What a specifier makes of the registry and of the number of structs shown.
Grown(spec, s, p, shown) ==
  /\ RegistryOk(p.reg.structs, p.reg.next, IF spec = AnonymousStruct THEN shown + 1 ELSE shown)
  /\ DOMAIN s \subseteq DOMAIN p.reg.structs

LEMMA CreateKeeps ==
  ASSUME NEW s, NEW next, NEW shown, NEW tag, tag \in Tags \/ tag = "",
         RegistryOk(s, next, shown), next < MaxTypeId
  PROVE  LET name == NameOf(tag, Reg(s, next))
             p == GetOrCreateStructType(name, Reg(s, next))
         IN  /\ p.ty = StructType(name, <<>>) /\ name \in DOMAIN p.reg.structs
             /\ Grown(Struct(tag), s, p, shown)
<1> DEFINE name == NameOf(tag, Reg(s, next))
           p == GetOrCreateStructType(name, Reg(s, next))
<1> SUFFICES /\ p.ty = StructType(name, <<>>) /\ name \in DOMAIN p.reg.structs
             /\ Grown(Struct(tag), s, p, shown)
  OBVIOUS
<1>1. Struct(tag) = AnonymousStruct <=> tag = ""
  <2>1. Struct(tag).name = tag /\ AnonymousStruct.name = ""
    BY DEF Struct, AnonymousStruct, StructWithBody, Specifier
  <2>2. QED
    BY <2>1 DEF AnonymousStruct
<1>2. next \in 108..MaxTypeId /\ \A m \in 108..MaxTypeId : m < next => m # next
  BY NumberFits
<1>3. name = IF tag = "" THEN AnonymousName(next) ELSE tag
  BY DEF NameOf, Reg
<1>4. name \in Tags <=> tag # ""
  BY <1>2, <1>3, NameFacts
<1> HIDE DEF name
<1>5. CASE name \in DOMAIN s
  <2>1. tag # ""
    <3>1. SUFFICES ASSUME tag = "" PROVE FALSE
      OBVIOUS
    <3>2. name \in Given(next)
      BY <1>4, <1>5, <3>1 DEF RegistryOk
    <3>3. PICK m \in 108..MaxTypeId : m < next /\ name = AnonymousName(m)
      BY <3>2 DEF Given
    <3>4. m = next
      BY <1>2, <1>3, <3>1, <3>3, NameFacts
    <3>5. QED
      BY <1>2, <3>3, <3>4
  <2> HIDE DEF p
  <2>2. p = Known(s[name], Reg(s, next))
    BY <1>5, KnownStruct DEF p
  <2>3. p.ty = s[name] /\ p.reg.structs = s /\ p.reg.next = next
    BY <2>2 DEF Known, Reg
  <2>4. s[name] = StructType(name, <<>>)
    BY <1>5 DEF RegistryOk
  <2>5. QED
    BY <1>1, <1>5, <2>1, <2>3, <2>4 DEF Grown
<1>6. CASE name \notin DOMAIN s
  <2> DEFINE t == Put(s, name, StructType(name, <<>>))
  <2> HIDE DEF p
  <2>1. p = Known(StructType(name, <<>>), Reg(t, next + 1))
    BY <1>6, NewStruct DEF p
  <2> HIDE DEF t
  <2>2. p.ty = StructType(name, <<>>) /\ p.reg.structs = t /\ p.reg.next = next + 1
    BY <2>1 DEF Known, Reg
  <2>3. RegistryOk(t, next + 1, IF name \in Tags THEN shown ELSE shown + 1)
    BY <1>3, <1>4, <1>6, AddStruct DEF t
  <2>4. DOMAIN t = DOMAIN s \cup {name}
    BY PutGets DEF t
  <2>5. QED
    BY <1>1, <1>4, <2>2, <2>3, <2>4 DEF Grown
<1>7. QED
  BY <1>5, <1>6

-----------------------------------------------------------------------------
(* TSTypeBuilder: what a specifier names *)

LEMMA IntTypes ==
  /\ GetIntType(1) = IntType(1) /\ GetIntType(2) = IntType(2)
  /\ GetIntType(4) = IntType(4) /\ GetIntType(8) = IntType(8)
<1> DEFINE least(n) == CHOOSE w \in {1, 2, 4, 8} :
              w >= n /\ \A v \in {1, 2, 4, 8} : v >= n => w <= v
<1>1. least(1) = 1 /\ least(2) = 2 /\ least(4) = 4 /\ least(8) = 8
  OBVIOUS
<1>2. ASSUME NEW n \in {1, 2, 4, 8} PROVE GetIntType(n) = IntType(least(n))
  <2>1. n \in 1..8
    OBVIOUS
  <2>2. QED
    BY <2>1 DEF GetIntType
<1> HIDE DEF least
<1>3. QED
  BY <1>1, <1>2

LEMMA KeywordTypes ==
  /\ IntType(1) \in Builtin /\ IntType(2) \in Builtin /\ IntType(4) \in Builtin /\ IntType(8) \in Builtin
  /\ DoubleType \in Builtin /\ FloatType \in Builtin /\ VoidType \in Builtin
BY DEF Builtin

LEMMA NamedTypes ==
  ASSUME NEW name \in DOMAIN NamedSize \cup {"long double"}, NEW bytes
  PROVE  OtherType(name, bytes) \notin Builtin /\ OtherType(name, bytes).kind = "other"
<1> DEFINE ty == OtherType(name, bytes)
<1>1. ty.kind = "other" /\ ty.name = name
  BY DEF OtherType, Type
<1>2. name \notin {"void", "float", "double"}
  BY DEF NamedSize
<1>3. \A w : IntType(w).kind = "int"
  BY DEF IntType, Type
<1>4. /\ PointerType.kind = "ptr" /\ VoidType.name = "void" /\ FloatType.name = "float"
      /\ DoubleType.name = "double"
  BY DEF PointerType, VoidType, FloatType, DoubleType, OtherType, Type
<1> HIDE DEF ty
<1>5. ty \notin Builtin
  BY <1>1, <1>2, <1>3, <1>4 DEF Builtin
<1>6. QED
  BY <1>1, <1>5 DEF ty

\* A keyword's type is the same for C and for the registry, or of a size of its own.
LEMMA PrimitiveTypes ==
  ASSUME NEW words, "bool" \in words => words = {"bool"}
  PROVE  /\ ParsePrimitive(words) \in Builtin /\ CPrimitive(words).kind # "struct"
         /\ CPrimitive(words) \in Builtin => CPrimitive(words) = ParsePrimitive(words)
<1>1. ParsePrimitive(words) \in Builtin
  BY KeywordTypes, IntTypes DEF ParsePrimitive
<1>2. CASE words \cap DOMAIN NamedSize # {}
  <2> DEFINE name == CHOOSE n \in DOMAIN NamedSize : n \in words
  <2>1. name \in DOMAIN NamedSize /\ CPrimitive(words) = OtherType(name, NamedSize[name])
    BY <1>2 DEF CPrimitive
  <2> HIDE DEF name
  <2>2. QED
    BY <1>1, <2>1, NamedTypes
<1>3. CASE words \cap DOMAIN NamedSize = {} /\ {"long", "double"} \subseteq words
                                          /\ words \cap {"char", "bool", "short"} = {}
  <2>1. CPrimitive(words) = OtherType("long double", 16)
    BY <1>3 DEF CPrimitive
  <2>2. QED
    BY <1>1, <2>1, NamedTypes
<1>4. CASE words \cap DOMAIN NamedSize = {} /\ ~({"long", "double"} \subseteq words
                                          /\ words \cap {"char", "bool", "short"} = {})
  <2>1. words \cap {"char8_t", "char16_t", "char32_t"} = {}
    BY <1>4 DEF NamedSize
  <2>2. CPrimitive(words) = ParsePrimitive(words)
    <3>1. CASE "bool" \in words
      <4>1. words = {"bool"}
        BY <3>1
      <4>2. CPrimitive(words) = IntType(1)
        BY <1>4, <4>1 DEF CPrimitive
      <4>3. ParsePrimitive(words) = GetIntType(1)
        BY <4>1 DEF ParsePrimitive
      <4>4. QED
        BY <4>2, <4>3, IntTypes
    <3>2. CASE "bool" \notin words
      <4>1. CPrimitive(words) =
              IF "char" \in words THEN IntType(1)
              ELSE IF "short" \in words THEN IntType(2)
              ELSE IF words \cap {"long", "long long"} # {} THEN IntType(8)
              ELSE IF "double" \in words THEN DoubleType
              ELSE IF "float" \in words THEN FloatType
              ELSE IF "void" \in words THEN VoidType
              ELSE IntType(4)
        BY <1>4, <3>2 DEF CPrimitive
      <4>2. words \cap {"char", "char8_t", "char16_t", "char32_t"} # {} <=> "char" \in words
        BY <2>1
      <4>3. QED
        BY <3>2, <4>1, <4>2, IntTypes DEF ParsePrimitive
    <3>3. QED
      BY <3>1, <3>2
  <2>3. \A w : IntType(w).kind = "int"
    BY DEF IntType, Type
  <2>4. DoubleType.kind = "other" /\ FloatType.kind = "other" /\ VoidType.kind = "other"
    BY DEF DoubleType, FloatType, VoidType, OtherType, Type
  <2>5. ParsePrimitive(words).kind # "struct"
    BY <2>3, <2>4, IntTypes DEF ParsePrimitive
  <2>6. QED
    BY <1>1, <2>2, <2>5
<1>5. QED
  BY <1>2, <1>3, <1>4

\* What C says of a type, and what the registry makes of it: a pointer may be a typedef
\* whose star is lost.
Agrees(ct, ty) ==
  \/ ct = PointerType
  \/ ct = ty /\ ct.kind = "struct" /\ ty = StructType(ty.name, <<>>)
  \/ ct.kind # "struct" /\ ty \in Builtin /\ (ct \in Builtin => ct = ty)
TypedefsAgree ==
  /\ DOMAIN meaning = DOMAIN typedefs
  /\ \A alias \in DOMAIN typedefs : Agrees(meaning[alias], typedefs[alias])

LEMMA StructFacts ==
  ASSUME NEW name, NEW members_
  PROVE  LET st == StructType(name, members_)
         IN  st.kind = "struct" /\ st.name = name /\ st.fields = members_
BY DEF StructType, Type

LEMMA SpecifierNames ==
  ASSUME NEW spec \in Specifiers \cup MemberTypes, Writable(spec),
         RegistryOk(structs, nextTypeId, anonymous), TypedefsAgree
  PROVE  LET p == ParseTypeFromNode(spec, Registry)
         IN  Agrees(Meaning(spec, p.ty), p.ty) /\ Grown(spec, structs, p, anonymous)
<1> DEFINE p == ParseTypeFromNode(spec, Registry)
<1> SUFFICES Agrees(Meaning(spec, p.ty), p.ty) /\ Grown(spec, structs, p, anonymous)
  OBVIOUS
<1>1. /\ spec.kind \in {"primitive_type", "type_identifier", "struct_specifier", "enum_specifier"}
      /\ "bool" \in spec.words => spec.words = {"bool"}
      /\ spec.kind = "struct_specifier" => spec.name \in Tags \cup {""}
      /\ spec.shown # <<>> => spec.name # ""
      /\ spec.kind = "struct_specifier" => spec = StructWithBody(spec.name, spec.shown)
  BY SpecifierAssumption
<1>2. Registry = Reg(structs, nextTypeId)
  BY DEF Registry, Reg
<1>3. ASSUME spec.kind # "struct_specifier", p.reg = Registry
      PROVE  Grown(spec, structs, p, anonymous)
  <2>1. spec # AnonymousStruct
    <3>1. AnonymousStruct.kind = "struct_specifier"
      BY DEF AnonymousStruct, Struct, StructWithBody, Specifier
    <3>2. QED
      BY <1>3, <3>1
  <2>2. p.reg.structs = structs /\ p.reg.next = nextTypeId
    BY <1>3 DEF Registry
  <2> HIDE DEF p
  <2>3. QED
    BY <2>1, <2>2 DEF Grown
<1>4. CASE spec.kind = "primitive_type"
  <2>1. p = Known(ParsePrimitive(spec.words), Registry)
    BY <1>4 DEF ParseTypeFromNode
  <2> HIDE DEF p
  <2>2. p.ty = ParsePrimitive(spec.words) /\ p.reg = Registry
    BY <2>1 DEF Known
  <2>3. Meaning(spec, p.ty) = CPrimitive(spec.words)
    BY <1>4 DEF Meaning
  <2>4. Agrees(Meaning(spec, p.ty), p.ty)
    BY <1>1, <2>2, <2>3, PrimitiveTypes DEF Agrees
  <2>5. QED
    BY <1>3, <1>4, <2>2, <2>4
<1>5. CASE spec.kind = "type_identifier"
  <2>1. spec.name \in DOMAIN typedefs
    BY <1>5 DEF Writable
  <2>2. p = Known(typedefs[spec.name], Registry)
    BY <1>5, <2>1 DEF ParseTypeFromNode
  <2> HIDE DEF p
  <2>3. p.ty = typedefs[spec.name] /\ p.reg = Registry
    BY <2>2 DEF Known
  <2>4. Meaning(spec, p.ty) = meaning[spec.name]
    BY <1>5 DEF Meaning
  <2>5. Agrees(Meaning(spec, p.ty), p.ty)
    BY <2>1, <2>3, <2>4 DEF TypedefsAgree
  <2>6. QED
    BY <1>3, <1>5, <2>3, <2>5
<1>6. CASE spec.kind = "struct_specifier"
  <2> DEFINE tag == spec.name
  <2>1. tag \in Tags \cup {""} /\ (spec = AnonymousStruct <=> Struct(tag) = AnonymousStruct)
    <3>1. /\ Struct(tag).name = tag /\ AnonymousStruct.name = ""
          /\ tag = "" => spec = Struct(tag) /\ spec = AnonymousStruct
      BY <1>1, <1>6 DEF Struct, AnonymousStruct, StructWithBody, Specifier
    <3>2. QED
      BY <1>1, <1>6, <3>1
  <2>2. spec.name = tag
    OBVIOUS
  <2> HIDE DEF tag
  <2> DEFINE name == NameOf(tag, Registry)
  <2>3. p = GetOrCreateStructType(name, Registry)
    BY <1>6, <2>2 DEF ParseTypeFromNode
  <2>4. nextTypeId < MaxTypeId
    BY DEF Writable
  <2>5. p.ty = StructType(name, <<>>) /\ Grown(Struct(tag), structs, p, anonymous)
    BY <1>2, <2>1, <2>3, <2>4, CreateKeeps
  <2>6. p.ty.name = name /\ p.ty.kind = "struct"
    <3> HIDE DEF p, name
    <3>1. StructType(name, <<>>).name = name /\ StructType(name, <<>>).kind = "struct"
      BY StructFacts
    <3>2. QED
      BY <2>5, <3>1
  <2> HIDE DEF p
  <2>7. Meaning(spec, p.ty) = StructType(IF tag = "" THEN p.ty.name ELSE tag, <<>>)
    BY <1>6, <2>2 DEF Meaning
  <2>8. tag # "" => name = tag
    BY DEF NameOf
  <2> HIDE DEF name
  <2>9. Meaning(spec, p.ty) = p.ty /\ p.ty = StructType(p.ty.name, <<>>)
    BY <2>5, <2>6, <2>7, <2>8
  <2>10. Grown(spec, structs, p, anonymous)
    BY <2>1, <2>5 DEF Grown
  <2>11. QED
    BY <2>6, <2>9, <2>10 DEF Agrees
<1>7. CASE spec.kind = "enum_specifier"
  <2>1. p = Known(GetIntType(4), Registry)
    BY <1>7 DEF ParseTypeFromNode
  <2> HIDE DEF p
  <2>2. p.ty = IntType(4) /\ p.reg = Registry
    BY <2>1, IntTypes DEF Known
  <2>3. Meaning(spec, p.ty) = IntType(4)
    BY <1>7 DEF Meaning
  <2>4. IntType(4) \in Builtin /\ IntType(4).kind # "struct"
    BY DEF Builtin, IntType, Type
  <2>5. QED
    BY <1>3, <1>7, <2>2, <2>3, <2>4 DEF Agrees
<1>8. QED
  BY <1>1, <1>4, <1>5, <1>6, <1>7

-----------------------------------------------------------------------------
(* TSTypeBuilder: its invariant *)

\* A struct with a StInfo has a field to each of its field declarations, which are as many
\* as its members when it is plain.
StInfoOk(info, ms, pl) ==
  /\ \A ty \in Builtin : ty \in DOMAIN info /\ Len(info[ty]) = 1
  /\ \A name \in DOMAIN ms : ms[name] \in Nat
  /\ \A name : StructType(name, <<>>) \in DOMAIN info =>
       name \in DOMAIN ms /\ Len(info[StructType(name, <<>>)]) \in 0..ms[name]
  /\ \A name \in pl : /\ StructType(name, <<>>) \in DOMAIN info
                      /\ Len(info[StructType(name, <<>>)]) = ms[name]
ObjectOk(o, ms, pl) ==
  ~(o.ctype = PointerType /\ ~o.star) =>
    IF o.ctype.kind # "struct" THEN o.fields = 1
    ELSE /\ o.ctype.name \in DOMAIN ms
         /\ o.ctype.name \in pl => o.fields = ms[o.ctype.name]
         /\ o.ctype.name \notin pl => o.fields <= Greater(ms[o.ctype.name], 1)
Body(tag, fs, count) == <<[tag |-> tag, fields |-> fs, members |-> count]>>
BodyAgrees ==
  body # <<>> =>
    /\ body = Body(body[1].tag, body[1].fields, body[1].members)
    /\ body[1].tag \in DOMAIN structs /\ body[1].tag \notin DOMAIN members
    /\ IsSeq(body[1].fields) /\ body[1].members \in Nat
    /\ Len(body[1].fields) \in 0..body[1].members
TypesInv ==
  /\ RegistryOk(structs, nextTypeId, anonymous)
  /\ TypedefsAgree
  /\ StInfoOk(stInfo, members, plain)
  /\ BodyAgrees
  /\ ObjectOk(object, members, plain)
  /\ ScalarSize

LEMMA BuiltinFacts ==
  ASSUME NEW ty \in Builtin
  PROVE  ty.kind \notin {"struct", "array"} /\ GetTypeSize[ty] = AbiSize[ty]
<1>1. /\ ty.kind \in {"ptr", "int", "other"}
      /\ ty.kind = "ptr" => ty.bytes = 8
      /\ ty.kind = "int" => ty.bytes # 0
  <2>1. CASE \E w \in {1, 2, 4, 8} : ty = IntType(w)
    <3>1. PICK w \in {1, 2, 4, 8} : ty = IntType(w)
      BY <2>1
    <3>2. ty.kind = "int" /\ ty.bytes = w
      BY <3>1 DEF IntType, Type
    <3>3. QED
      BY <3>2
  <2>2. CASE ty = PointerType
    <3>1. ty.kind = "ptr" /\ ty.bytes = 8
      BY <2>2 DEF PointerType, Type
    <3>2. QED
      BY <3>1
  <2>3. CASE ty \in {VoidType, FloatType, DoubleType}
    <3>1. ty.kind = "other"
      BY <2>3 DEF VoidType, FloatType, DoubleType, OtherType, Type
    <3>2. QED
      BY <3>1
  <2>4. QED
    BY <2>1, <2>2, <2>3 DEF Builtin
<1>2. ty \in Types
  BY SpecifierAssumption
<1>3. GetTypeSize[ty] = BasicSize(ty)
  BY <1>1, <1>2, SizeRecurs DEF SizeOf
<1>4. AbiSize[ty] = ty.bytes
  BY <1>1, <1>2, AbiSizeRecurs DEF AbiSizeOf
<1>5. BasicSize(ty) = ty.bytes
  BY <1>1 DEF BasicSize
<1>6. QED
  BY <1>1, <1>3, <1>4, <1>5

LEMMA BuiltinPointer == PointerType \in Builtin /\ PointerType.kind = "ptr"
BY DEF Builtin, PointerType, Type

\* The object that is made for a type is what C says of the type.
LEMMA ObjectMade ==
  ASSUME NEW ct, NEW ty, NEW star \in BOOLEAN, NEW ms, NEW pl, StInfoOk(stInfo, ms, pl),
         Agrees(ct, ty), star => ct = PointerType /\ ty = PointerType,
         ct.kind = "struct" => ct.name \in DOMAIN ms,
         NEW o, o = [fields |-> IF ty \in DOMAIN stInfo THEN Len(stInfo[ty]) ELSE 1,
                     bytes |-> GetTypeSize[ty], ctype |-> ct, star |-> star]
  PROVE  /\ ObjectOk(o, ms, pl)
         /\ o.ctype \in Builtin /\ ~(o.ctype = PointerType /\ ~o.star) => o.bytes = AbiSize[o.ctype]
<1>1. /\ o.fields = IF ty \in DOMAIN stInfo THEN Len(stInfo[ty]) ELSE 1
      /\ o.bytes = GetTypeSize[ty] /\ o.ctype = ct /\ o.star = star
  OBVIOUS
<1>2. CASE ct = PointerType /\ ~star
  <2>1. PointerType.kind # "struct"
    BY BuiltinPointer
  <2>2. QED
    BY <1>1, <1>2, <2>1 DEF ObjectOk
<1>3. CASE ct # PointerType /\ ct.kind = "struct"
  <2>1. ct = ty /\ ty = StructType(ty.name, <<>>) /\ ct.name \in DOMAIN ms
    BY <1>3 DEF Agrees
  <2>2. ct \notin Builtin
    BY <1>3, BuiltinFacts
  <2> DEFINE n == ct.name
  <2>3. ms[n] \in Nat
    BY <2>1 DEF StInfoOk
  <2>4. StructType(n, <<>>) = ty
    BY <2>1
  <2>5. ty \in DOMAIN stInfo => Len(stInfo[ty]) \in 0..ms[n]
    BY <2>4 DEF StInfoOk
  <2>6. n \in pl => ty \in DOMAIN stInfo /\ Len(stInfo[ty]) = ms[n]
    BY <2>4 DEF StInfoOk
  <2>7. o.fields <= Greater(ms[n], 1)
    BY <1>1, <2>3, <2>5 DEF Greater
  <2>8. QED
    BY <1>1, <1>3, <2>1, <2>2, <2>6, <2>7 DEF ObjectOk
<1>4. CASE ct.kind # "struct" /\ (ct = PointerType => star)
  <2>1. ty \in Builtin /\ (ct \in Builtin => ct = ty)
    BY <1>4, BuiltinPointer DEF Agrees
  <2>2. ty \in DOMAIN stInfo /\ Len(stInfo[ty]) = 1
    BY <2>1 DEF StInfoOk
  <2>3. GetTypeSize[ty] = AbiSize[ty]
    BY <2>1, BuiltinFacts
  <2>4. QED
    BY <1>1, <1>4, <2>1, <2>2, <2>3 DEF ObjectOk
<1>5. QED
  BY <1>2, <1>3, <1>4, BuiltinPointer

\* What becomes known of another struct leaves what was known as it is.
LEMMA KnowMore ==
  ASSUME NEW info, NEW o, NEW ms, NEW pl, NEW tag, NEW n \in Nat, tag \notin DOMAIN ms,
         StInfoOk(info, ms, pl), ObjectOk(o, ms, pl)
  PROVE  StInfoOk(info, Put(ms, tag, n), pl) /\ ObjectOk(o, Put(ms, tag, n), pl)
<1> DEFINE more == Put(ms, tag, n)
<1> HIDE DEF more
<1>1. /\ DOMAIN more = DOMAIN ms \cup {tag} /\ more[tag] = n
      /\ \A name \in DOMAIN ms : more[name] = ms[name]
  BY DEF more, Put
<1>2. StInfoOk(info, more, pl)
  <2>1. \A name \in DOMAIN more : more[name] \in Nat
    BY <1>1 DEF StInfoOk
  <2>2. \A name \in pl : name \in DOMAIN ms
    BY DEF StInfoOk
  <2>3. QED
    BY <1>1, <2>1, <2>2 DEF StInfoOk
<1>3. ObjectOk(o, more, pl)
  BY <1>1 DEF ObjectOk
<1>4. QED
  BY <1>2, <1>3 DEF more

LEMMA BehindSpecifier ==
  ASSUME TypesInv, NEW spec \in Specifiers \cup MemberTypes, Writable(spec)
  PROVE  /\ StInfoOk(stInfo, MembersBehind(spec), plain)
         /\ ObjectOk(object, MembersBehind(spec), plain)
         /\ body # <<>> => body[1].tag \notin DOMAIN MembersBehind(spec)
<1>1. CASE spec.shown = <<>>
  <2>1. MembersBehind(spec) = members
    BY <1>1 DEF MembersBehind
  <2>2. QED
    BY <2>1 DEF TypesInv, BodyAgrees
<1>2. CASE spec.shown # <<>>
  <2> DEFINE n == spec.shown[1]
  <2>1. n \in Nat
    <3>1. spec.shown \in Seq(Nat)
      BY SpecifierAssumption
    <3>2. QED
      BY <1>2, <3>1
  <2>2. MembersBehind(spec) = Put(members, spec.name, n)
    BY <1>2 DEF MembersBehind
  <2>3. spec.name \notin DOMAIN members /\ (body # <<>> => spec.name # body[1].tag)
    BY <1>2 DEF Writable
  <2> HIDE DEF n
  <2>4. StInfoOk(stInfo, MembersBehind(spec), plain) /\ ObjectOk(object, MembersBehind(spec), plain)
    BY <2>1, <2>2, <2>3, KnowMore DEF TypesInv
  <2>5. DOMAIN MembersBehind(spec) = DOMAIN members \cup {spec.name}
    BY <2>2 DEF Put
  <2>6. QED
    BY <2>3, <2>4, <2>5 DEF TypesInv, BodyAgrees
<1>3. QED
  BY <1>1, <1>2

LEMMA TypesInit == Init => TypesInv
<1> SUFFICES ASSUME Init PROVE TypesInv
  OBVIOUS
<1>1. RegistryOk(structs, nextTypeId, anonymous)
  <2>1. DOMAIN structs = {} /\ DOMAIN structs \ Tags = {} /\ nextTypeId = 108 /\ anonymous = 0
    BY DEF Init, Empty
  <2>2. IsFiniteSet({}) /\ Cardinality({}) = 0
    BY FS_EmptySet
  <2>3. QED
    BY <2>1, <2>2 DEF RegistryOk
<1>2. TypedefsAgree
  BY DEF Init, Empty, TypedefsAgree
<1>3. StInfoOk(stInfo, members, plain)
  <2>1. stInfo = [ty \in Builtin |-> BuildStInfo(ty)] /\ DOMAIN members = {} /\ plain = {}
    BY DEF Init, Empty
  <2>2. ASSUME NEW ty \in Builtin PROVE BuildStInfo(ty) = <<ty>>
    BY BuiltinFacts DEF BuildStInfo
  <2>3. \A ty \in Builtin : stInfo[ty] = <<ty>>
    BY <2>1, <2>2
  <2>4. \A name : StructType(name, <<>>) \notin Builtin
    BY BuiltinFacts, StructFacts
  <2>5. QED
    BY <2>1, <2>3, <2>4 DEF StInfoOk
<1>4. BodyAgrees
  BY DEF Init, BodyAgrees
<1>5. ObjectOk(object, members, plain) /\ ScalarSize
  <2>1. object.fields = 1 /\ object.bytes = 8 /\ object.ctype = PointerType
    BY DEF Init, NoObject
  <2>2. PointerType \in Builtin /\ PointerType \in Types
    BY SpecifierAssumption DEF Builtin
  <2>3. PointerType.kind = "ptr" /\ PointerType.bytes = 8
    BY DEF PointerType, Type
  <2>4. AbiSize[PointerType] = 8
    BY <2>2, <2>3, AbiSizeRecurs DEF AbiSizeOf
  <2>5. QED
    BY <2>1, <2>3, <2>4 DEF ObjectOk, ScalarSize
<1>6. QED
  BY <1>1, <1>2, <1>3, <1>4, <1>5 DEF TypesInv

\* What Learn makes of the registry.
LEMMA LearnKeeps ==
  ASSUME NEW spec, NEW p, Learn(spec, p), Grown(spec, structs, p, anonymous)
  PROVE  RegistryOk(structs', nextTypeId', anonymous') /\ DOMAIN structs \subseteq DOMAIN structs'
BY DEF Learn, Grown

LEMMA VisitStructKeeps ==
  ASSUME TypesInv, NEW tag \in Tags, VisitStructSpecifier(tag)
  PROVE  TypesInv'
<1>1. tag # "" /\ NameOf(tag, Registry) = tag /\ nextTypeId < MaxTypeId
  BY NameFacts DEF NameOf, VisitStructSpecifier
<1>2. Registry = Reg(structs, nextTypeId)
  BY DEF Registry, Reg
<1> DEFINE p == GetOrCreateStructType(tag, Registry)
<1>3. tag \in DOMAIN p.reg.structs /\ Grown(Struct(tag), structs, p, anonymous)
  BY <1>1, <1>2, CreateKeeps DEF TypesInv
<1>4. /\ Learn(Struct(tag), p) /\ tag \notin DOMAIN members
      /\ body' = Body(tag, <<>>, 0)
      /\ UNCHANGED <<typedefs, stInfo, object, plain, meaning>>
  BY DEF VisitStructSpecifier, Body
<1>5. members' = members
  <2>1. Struct(tag).shown = <<>>
    BY DEF Struct, StructWithBody, Specifier
  <2> HIDE DEF p
  <2>2. QED
    BY <1>4, <2>1 DEF Learn, MembersBehind
<1> HIDE DEF p
<1>6. RegistryOk(structs', nextTypeId', anonymous') /\ tag \in DOMAIN structs'
  BY <1>3, <1>4, LearnKeeps DEF Learn
<1>7. BodyAgrees'
  <2>1. body'[1].tag = tag /\ body'[1].fields = <<>> /\ body'[1].members = 0
    BY <1>4 DEF Body
  <2>2. IsSeq(<<>>) /\ Len(<<>>) \in 0..0
    <3>1. <<>> \in Seq({}) /\ Len(<<>>) = 0
      OBVIOUS
    <3>2. QED
      BY <3>1 DEF IsSeq
  <2>3. QED
    BY <1>4, <1>5, <1>6, <2>1, <2>2 DEF BodyAgrees
<1>8. /\ TypedefsAgree' /\ StInfoOk(stInfo', members', plain') /\ ObjectOk(object', members', plain')
      /\ ScalarSize'
  BY <1>4, <1>5 DEF TypesInv, TypedefsAgree, ScalarSize, ThroughPointerTypedef
<1>9. QED
  BY <1>6, <1>7, <1>8 DEF TypesInv

LEMMA ParseInterfaceKeeps ==
  ASSUME TypesInv, NEW spec \in Specifiers, ParseInterface(spec)
  PROVE  TypesInv'
<1> DEFINE p == ParseTypeFromNode(spec, Registry)
<1>1. Writable(spec) /\ Learn(spec, p) /\ UNCHANGED <<typedefs, stInfo, object, body, plain, meaning>>
      /\ body = <<>>
  BY DEF ParseInterface
<1>2. Grown(spec, structs, p, anonymous)
  BY <1>1, SpecifierNames DEF TypesInv
<1> HIDE DEF p
<1>3. RegistryOk(structs', nextTypeId', anonymous')
  BY <1>1, <1>2, LearnKeeps
<1>4. members' = MembersBehind(spec)
  BY <1>1 DEF Learn
<1>5. StInfoOk(stInfo', members', plain') /\ ObjectOk(object', members', plain')
  BY <1>1, <1>4, BehindSpecifier
<1>6. TypedefsAgree' /\ BodyAgrees' /\ ScalarSize'
  BY <1>1 DEF TypesInv, TypedefsAgree, BodyAgrees, ScalarSize, ThroughPointerTypedef
<1>7. QED
  BY <1>3, <1>5, <1>6 DEF TypesInv

LEMMA AddTypedefKeeps ==
  ASSUME TypesInv, NEW alias, NEW spec \in Specifiers, NEW star \in BOOLEAN,
         AddTypedef(alias, spec, star)
  PROVE  TypesInv'
<1> DEFINE p == ParseTypeFromNode(spec, Registry)
           ct == IF star THEN PointerType ELSE Meaning(spec, p.ty)
<1>1. /\ Writable(spec) /\ Learn(spec, p) /\ UNCHANGED <<stInfo, object, body, plain>>
      /\ body = <<>>
      /\ typedefs' = Put(typedefs, alias, p.ty) /\ meaning' = Put(meaning, alias, ct)
  BY DEF AddTypedef
<1>2. Grown(spec, structs, p, anonymous) /\ Agrees(ct, p.ty)
  <2>1. Grown(spec, structs, p, anonymous) /\ Agrees(Meaning(spec, p.ty), p.ty)
    BY <1>1, SpecifierNames DEF TypesInv
  <2> HIDE DEF p
  <2>2. QED
    BY <2>1 DEF Agrees
<1> HIDE DEF p, ct
<1>3. RegistryOk(structs', nextTypeId', anonymous')
  BY <1>1, <1>2, LearnKeeps
<1>4. TypedefsAgree'
  <2>1. DOMAIN meaning = DOMAIN typedefs /\ \A a \in DOMAIN typedefs : Agrees(meaning[a], typedefs[a])
    BY DEF TypesInv, TypedefsAgree
  <2>2. DOMAIN typedefs' = DOMAIN typedefs \cup {alias} /\ DOMAIN meaning' = DOMAIN meaning \cup {alias}
    BY <1>1 DEF Put
  <2>3. ASSUME NEW a \in DOMAIN typedefs' PROVE Agrees(meaning'[a], typedefs'[a])
    <3>1. CASE a = alias
      <4>1. meaning'[a] = ct /\ typedefs'[a] = p.ty
        BY <1>1, <3>1 DEF Put
      <4>2. QED
        BY <1>2, <4>1
    <3>2. CASE a # alias
      <4>1. a \in DOMAIN typedefs /\ meaning'[a] = meaning[a] /\ typedefs'[a] = typedefs[a]
        BY <1>1, <2>1, <2>2, <3>2 DEF Put
      <4>2. QED
        BY <2>1, <4>1
    <3>3. QED
      BY <3>1, <3>2
  <2>4. QED
    BY <2>1, <2>2, <2>3 DEF TypedefsAgree, Agrees
<1>5. members' = MembersBehind(spec)
  BY <1>1 DEF Learn
<1>6. StInfoOk(stInfo', members', plain') /\ ObjectOk(object', members', plain')
  BY <1>1, <1>5, BehindSpecifier
<1>7. QED
  BY <1>1, <1>3, <1>4, <1>6 DEF TypesInv, BodyAgrees, ScalarSize, ThroughPointerTypedef

LEMMA VisitFieldKeeps ==
  ASSUME TypesInv, NEW spec \in MemberTypes, NEW n \in 1..MaxMembers, NEW stars \in [1..n -> BOOLEAN],
         VisitField(spec, stars)
  PROVE  TypesInv'
<1> DEFINE p == ParseTypeFromNode(spec, Registry)
           ty == IF stars[1] THEN PointerType ELSE p.ty
<1>1. /\ body # <<>> /\ Writable(spec) /\ Learn(spec, p)
      /\ body' = Body(body[1].tag, Append(body[1].fields, ty), body[1].members + Len(stars))
      /\ UNCHANGED <<typedefs, stInfo, object, plain, meaning>>
  BY DEF VisitField, Body
<1>2. Grown(spec, structs, p, anonymous)
  BY <1>1, SpecifierNames DEF TypesInv
<1> HIDE DEF p, ty
<1>3. RegistryOk(structs', nextTypeId', anonymous') /\ DOMAIN structs \subseteq DOMAIN structs'
  BY <1>1, <1>2, LearnKeeps
<1> DEFINE tag == body[1].tag
           fs == body[1].fields
           count == body[1].members
<1>4. /\ body = Body(tag, fs, count) /\ tag \in DOMAIN structs
      /\ IsSeq(fs) /\ count \in Nat /\ Len(fs) \in 0..count
  BY <1>1 DEF TypesInv, BodyAgrees
<1>5. body' = Body(tag, Append(fs, ty), count + Len(stars)) /\ Len(stars) \in Nat /\ Len(stars) >= 1
  <2>1. MaxMembers \in Nat
    BY SpecifierAssumption, Zenon
  <2>2. n \in Nat /\ n >= 1 /\ Len(stars) = n
    BY <2>1
  <2>3. QED
    BY <1>1, <2>2
<1>6. members' = MembersBehind(spec) /\ tag \notin DOMAIN MembersBehind(spec)
  BY <1>1, BehindSpecifier DEF Learn
<1> HIDE DEF tag, fs, count
<1>7. BodyAgrees'
  <2> DEFINE fs2 == Append(fs, ty)
             count2 == count + Len(stars)
  <2>1. IsSeq(fs2) /\ Len(fs2) = Len(fs) + 1
    BY <1>4, AppendStaysSeq
  <2>2. count2 \in Nat /\ Len(fs) + 1 \in 0..count2
    BY <1>4, <1>5
  <2> HIDE DEF fs2, count2
  <2>3. body' = Body(tag, fs2, count2)
    BY <1>5 DEF fs2, count2
  <2>4. body'[1].tag = tag /\ body'[1].fields = fs2 /\ body'[1].members = count2
    BY <2>3 DEF Body
  <2>5. QED
    BY <1>3, <1>4, <1>6, <2>1, <2>2, <2>3, <2>4 DEF BodyAgrees
<1>8. StInfoOk(stInfo', members', plain') /\ ObjectOk(object', members', plain')
  BY <1>1, <1>6, BehindSpecifier
<1>9. TypedefsAgree' /\ ScalarSize'
  BY <1>1 DEF TypesInv, TypedefsAgree, ScalarSize, ThroughPointerTypedef
<1>10. QED
  BY <1>3, <1>7, <1>8, <1>9 DEF TypesInv

\* The StInfo of a struct whose body ends.
LEMMA BodyEnds ==
  ASSUME NEW info, NEW o, NEW ms, NEW pl, NEW tag, NEW fs, NEW n \in Nat, tag \notin DOMAIN ms,
         Len(fs) \in 0..n, StInfoOk(info, ms, pl), ObjectOk(o, ms, pl)
  PROVE  LET more == IF Len(fs) = n THEN pl \cup {tag} ELSE pl
         IN  /\ StInfoOk(Put(info, StructType(tag, <<>>), fs), Put(ms, tag, n), more)
             /\ ObjectOk(o, Put(ms, tag, n), more)
<1> DEFINE st == StructType(tag, <<>>)
           info2 == Put(info, st, fs)
           ms2 == Put(ms, tag, n)
           pl2 == IF Len(fs) = n THEN pl \cup {tag} ELSE pl
<1> SUFFICES StInfoOk(info2, ms2, pl2) /\ ObjectOk(o, ms2, pl2)
  OBVIOUS
<1>1. st.kind = "struct" /\ st.name = tag
  BY StructFacts
<1> HIDE DEF st, ms2, info2
<1>2. StInfoOk(info, ms2, pl) /\ ObjectOk(o, ms2, pl)
  BY KnowMore DEF ms2
<1>3. DOMAIN ms2 = DOMAIN ms \cup {tag} /\ ms2[tag] = n
  BY DEF ms2, Put
<1>4. \A name : name # tag => StructType(name, <<>>) # st
  BY <1>1, StructFacts
<1>5. DOMAIN info2 = DOMAIN info \cup {st} /\ info2[st] = fs
      /\ \A ty \in DOMAIN info : ty # st => info2[ty] = info[ty]
  BY DEF info2, Put
<1>6. \A name \in pl : name \in DOMAIN ms
  BY DEF StInfoOk
<1>7. ObjectOk(o, ms2, pl2)
  <2>1. o.ctype.name \in DOMAIN ms => (o.ctype.name \in pl2 <=> o.ctype.name \in pl)
    OBVIOUS
  <2> HIDE DEF pl2
  <2>2. QED
    BY <1>2, <2>1 DEF ObjectOk
<1>8. ASSUME NEW ty \in Builtin PROVE ty \in DOMAIN info2 /\ Len(info2[ty]) = 1
  <2>1. ty # st
    BY <1>1, BuiltinFacts
  <2>2. QED
    BY <1>5, <2>1 DEF StInfoOk
<1>9. ASSUME NEW name, StructType(name, <<>>) \in DOMAIN info2
      PROVE  /\ name \in DOMAIN ms2 /\ Len(info2[StructType(name, <<>>)]) \in 0..ms2[name]
             /\ name \in pl2 => Len(info2[StructType(name, <<>>)]) = ms2[name]
  <2> DEFINE other == StructType(name, <<>>)
  <2>1. CASE name = tag
    <3>1. other = st
      BY <2>1 DEF st
    <3>2. tag \in pl2 => Len(fs) = n
      BY <1>6
    <3> HIDE DEF other, pl2
    <3>3. other \in DOMAIN info2 /\ info2[other] = fs /\ ms2[name] = n /\ name \in DOMAIN ms2
      BY <1>3, <1>5, <2>1, <3>1
    <3>4. Len(info2[other]) \in 0..ms2[name] /\ (name \in pl2 => Len(info2[other]) = ms2[name])
      BY <2>1, <3>2, <3>3
    <3>5. QED
      BY <3>3, <3>4 DEF other
  <2>2. CASE name # tag
    <3>1. other # st /\ other \in DOMAIN info2
      BY <1>4, <1>9, <2>2
    <3>2. name \in pl2 => name \in pl
      BY <2>2
    <3> HIDE DEF pl2, other
    <3>3. other \in DOMAIN info /\ info2[other] = info[other]
      BY <1>5, <3>1
    <3> USE DEF other
    <3>4. name \in DOMAIN ms2 /\ Len(info[other]) \in 0..ms2[name]
      BY <1>2, <3>3 DEF StInfoOk
    <3>5. name \in pl => Len(info[other]) = ms2[name]
      BY <1>2 DEF StInfoOk
    <3>6. QED
      BY <3>2, <3>3, <3>4, <3>5
  <2>3. QED
    BY <2>1, <2>2
<1>10. \A name \in pl2 : StructType(name, <<>>) \in DOMAIN info2
  <2>1. \A name \in pl : StructType(name, <<>>) \in DOMAIN info
    BY DEF StInfoOk
  <2>2. QED
    BY <1>5, <2>1 DEF st
<1>11. \A name \in DOMAIN ms2 : ms2[name] \in Nat
  BY <1>2 DEF StInfoOk
<1> HIDE DEF pl2
<1>12. StInfoOk(info2, ms2, pl2)
  BY <1>8, <1>9, <1>10, <1>11 DEF StInfoOk
<1>13. QED
  BY <1>7, <1>12

LEMMA EndStructKeeps ==
  ASSUME TypesInv, EndStructSpecifier
  PROVE  TypesInv'
<1> DEFINE tag == body[1].tag
           fs == body[1].fields
           n == body[1].members
<1>1. /\ body # <<>>
      /\ stInfo' = Put(stInfo, structs[tag], fs) /\ members' = Put(members, tag, n)
      /\ plain' = (IF Len(fs) = n THEN plain \cup {tag} ELSE plain)
      /\ body' = <<>> /\ UNCHANGED <<structs, typedefs, nextTypeId, object, meaning, anonymous>>
  BY DEF EndStructSpecifier
<1>2. tag \in DOMAIN structs /\ tag \notin DOMAIN members /\ n \in Nat /\ Len(fs) \in 0..n
  BY <1>1 DEF TypesInv, BodyAgrees
<1> HIDE DEF tag, fs, n
<1>3. structs[tag] = StructType(tag, <<>>)
  BY <1>2 DEF TypesInv, RegistryOk
<1>4. StInfoOk(stInfo', members', plain') /\ ObjectOk(object', members', plain')
  BY <1>1, <1>2, <1>3, BodyEnds DEF TypesInv
<1>5. BodyAgrees'
  BY <1>1 DEF BodyAgrees
<1>6. QED
  BY <1>1, <1>4, <1>5 DEF TypesInv, TypedefsAgree, ScalarSize, ThroughPointerTypedef

LEMMA DeclareKeeps ==
  ASSUME TypesInv, NEW spec \in Specifiers, NEW star \in BOOLEAN, Declare(spec, star)
  PROVE  TypesInv'
<1> DEFINE p == ParseTypeFromNode(spec, Registry)
           ct == IF star THEN PointerType ELSE Meaning(spec, p.ty)
           ty == IF star THEN PointerType ELSE p.ty
<1>1. /\ body = <<>> /\ Writable(spec) /\ Learn(spec, p) /\ Complete(spec, ct)
      /\ object' = [fields |-> IF ty \in DOMAIN stInfo THEN Len(stInfo[ty]) ELSE 1,
                    bytes |-> GetTypeSize[ty], ctype |-> ct, star |-> star]
      /\ UNCHANGED <<typedefs, stInfo, body, plain, meaning>>
  BY DEF Declare
<1>2. Grown(spec, structs, p, anonymous) /\ Agrees(ct, ty)
  <2>1. Grown(spec, structs, p, anonymous) /\ Agrees(Meaning(spec, p.ty), p.ty)
    BY <1>1, SpecifierNames DEF TypesInv
  <2> HIDE DEF p
  <2>2. QED
    BY <2>1 DEF Agrees
<1>3. star => ct = PointerType /\ ty = PointerType
  OBVIOUS
<1> HIDE DEF p, ct, ty
<1>4. RegistryOk(structs', nextTypeId', anonymous')
  BY <1>1, <1>2, LearnKeeps
<1>5. /\ members' = MembersBehind(spec) /\ StInfoOk(stInfo, MembersBehind(spec), plain)
      /\ ct.kind = "struct" => ct.name \in DOMAIN MembersBehind(spec)
  BY <1>1, BehindSpecifier DEF Learn, Complete
<1>6. /\ ObjectOk(object', MembersBehind(spec), plain)
      /\ object'.ctype \in Builtin /\ ~(object'.ctype = PointerType /\ ~object'.star)
           => object'.bytes = AbiSize[object'.ctype]
  BY <1>1, <1>2, <1>3, <1>5, ObjectMade
<1>7. StInfoOk(stInfo', members', plain') /\ ObjectOk(object', members', plain')
  BY <1>1, <1>5, <1>6
<1>8. ScalarSize'
  BY <1>6 DEF ScalarSize, ThroughPointerTypedef
<1>9. TypedefsAgree' /\ BodyAgrees'
  BY <1>1 DEF TypesInv, TypedefsAgree, BodyAgrees
<1>10. QED
  BY <1>4, <1>7, <1>8, <1>9 DEF TypesInv

LEMMA TypesStep == TypesInv /\ [Next]_vars => TypesInv'
<1> SUFFICES ASSUME TypesInv, [Next]_vars PROVE TypesInv'
  OBVIOUS
<1>1. CASE \E spec \in Specifiers : ParseInterface(spec)
  BY <1>1, ParseInterfaceKeeps
<1>2. CASE \E alias \in Aliases, spec \in Specifiers, star \in BOOLEAN : AddTypedef(alias, spec, star)
  BY <1>2, AddTypedefKeeps
<1>3. CASE \E tag \in Tags : VisitStructSpecifier(tag)
  BY <1>3, VisitStructKeeps
<1>4. CASE \E spec \in MemberTypes, n \in 1..MaxMembers :
             \E stars \in [1..n -> BOOLEAN] : VisitField(spec, stars)
  BY <1>4, VisitFieldKeeps
<1>5. CASE EndStructSpecifier
  BY <1>5, EndStructKeeps
<1>6. CASE \E spec \in Specifiers, star \in BOOLEAN : Declare(spec, star)
  BY <1>6, DeclareKeeps
<1>7. CASE UNCHANGED vars
  BY <1>7 DEF vars, c, TypesInv, TypedefsAgree, BodyAgrees, ScalarSize, ThroughPointerTypedef
<1>8. QED
  BY <1>1, <1>2, <1>3, <1>4, <1>5, <1>6, <1>7 DEF Next

\* The registry, what C knows of the same types, and how the two stay related in every
\* order of declarations (TSTypeBuilder.cpp; TSIRBuilder.cpp, visitTopLevelDecl): a
\* StInfo holds as many fields as the struct has field declarations.
THEOREM TypesHold == Spec => []TypesInv
BY TypesInit, TypesStep, PTL DEF Spec

\* The object of a variable declared with a plain struct has a field for each member of
\* the struct, that of another struct never more, and a scalar's has one (TSTypeBuilder.cpp,
\* parseTypeFromNode and buildStInfo; TSIRBuilder.cpp:128), in every order of declarations,
\* struct definitions and typedefs.
THEOREM ObjectsHaveTheirMembers == Spec => []ObjectHasItsMembers
<1>1. TypesInv => ObjectHasItsMembers
  BY DEF TypesInv, ObjectOk, ObjectHasItsMembers, ThroughPointerTypedef
<1>2. QED
  BY <1>1, TypesHold, PTL

\* Structs without a tag are never taken for one another (TSTypeBuilder.cpp:105).
THEOREM AnonymousStructsStayDistinct == Spec => []AnonymousStructsDistinct
<1>1. TypesInv => AnonymousStructsDistinct
  BY DEF TypesInv, RegistryOk, AnonymousStructsDistinct
<1>2. QED
  BY <1>1, TypesHold, PTL

\* The object of a variable whose type is a pointer, an enum or one of C's keywords other
\* than long double has the size of LP64 (TSTypeBuilder.cpp:87-97), also through typedefs
\* that are not pointers.
THEOREM ScalarsHaveTheirSize == Spec => []ScalarSize
<1>1. TypesInv => ScalarSize
  BY DEF TypesInv
<1>2. QED
  BY <1>1, TypesHold, PTL
=============================================================================
