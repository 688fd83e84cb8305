--------------------------- MODULE IntegerLemmas ---------------------------
(***************************************************************************)
(* Facts about integers that the proofs of several components need: that   *)
(* bounded sets of integers have a least and a greatest element, induction *)
(* over a set of numbers, and that a function defined by recursion on the  *)
(* numbers exists.  All of them rest on the order of the natural numbers   *)
(* being well founded.                                                     *)
(***************************************************************************)
EXTENDS Integers, WellFoundedInduction, TLAPS

(***************************************************************************)
(* Every set of numbers that has an element has a least one.               *)
(***************************************************************************)
LEMMA LeastNatural ==
    ASSUME NEW S, S \subseteq Nat, S # {}
    PROVE  \E m \in S : \A n \in S : m <= n
<1>. DEFINE R == OpToRel(<, Nat)
<1>1. \E x \in S : \A y \in S : ~ (<<y, x>> \in R)
  <2>1. IsWellFoundedOn(R, Nat)
    BY NatLessThanWellFounded
  <2>. HIDE DEF R
  <2>. QED  BY <2>1, WFMin
<1>2. PICK m \in S : \A y \in S : ~ (<<y, m>> \in R)
  BY <1>1
<1>3. ASSUME NEW n \in S  PROVE m <= n
  <2>1. <<n, m>> \notin R
    BY <1>2
  <2>2. ~ (n < m)
    BY <2>1 DEF OpToRel
  <2>. QED  BY <2>2
<1>. QED  BY <1>3

(***************************************************************************)
(* Induction: a set with zero and the successor of each of its numbers has *)
(* them all.                                                               *)
(***************************************************************************)
LEMMA SetInduction ==
    ASSUME NEW S, 0 \in S, \A n \in Nat : n \in S => n + 1 \in S
    PROVE  \A n \in Nat : n \in S
<1>. DEFINE T == Nat \ S
<1>1. SUFFICES ASSUME T # {}  PROVE FALSE
  OBVIOUS
<1>2. PICK m \in T : \A n \in T : m <= n
  BY <1>1, LeastNatural
<1>3. m # 0 /\ m \in Nat /\ m - 1 \in Nat
  OBVIOUS
<1>4. m - 1 \in S
  BY <1>2, <1>3
<1>5. (m - 1) + 1 \in S
  BY <1>3, <1>4
<1>. QED  BY <1>3, <1>5

(***************************************************************************)
(* A set of integers with a lower bound has a least element, one with an   *)
(* upper bound a greatest.                                                 *)
(***************************************************************************)
LEMMA LeastInteger ==
    ASSUME NEW S, S \subseteq Int, S # {}, NEW b \in Int, \A x \in S : b <= x
    PROVE  \E m \in S : \A x \in S : m <= x
<1>. DEFINE T == {x - b : x \in S}
<1>1. T \subseteq Nat /\ T # {}
  <2>1. \A x \in S : x \in Int /\ x - b \in Nat
    OBVIOUS
  <2>. QED  BY <2>1
<1>2. PICK t \in T : \A u \in T : t <= u
  BY <1>1, LeastNatural
<1>3. PICK m \in S : t = m - b
  OBVIOUS
<1>4. ASSUME NEW x \in S  PROVE m <= x
  <2>1. x - b \in T
    OBVIOUS
  <2>2. m - b <= x - b
    BY <1>2, <1>3, <2>1
  <2>3. m \in Int /\ x \in Int
    OBVIOUS
  <2>. HIDE DEF T
  <2>. QED  BY <2>2, <2>3
<1>. QED  BY <1>4

(***************************************************************************)
(* The same of sets bounded from above and their greatest element.         *)
(***************************************************************************)
LEMMA GreatestInteger ==
    ASSUME NEW S, S \subseteq Int, S # {}, NEW b \in Int, \A x \in S : x <= b
    PROVE  \E m \in S : \A x \in S : x <= m
<1>. DEFINE T == {b - x : x \in S}
<1>1. T \subseteq Nat /\ T # {}
  <2>1. \A x \in S : x \in Int /\ b - x \in Nat
    OBVIOUS
  <2>. QED  BY <2>1
<1>2. PICK t \in T : \A u \in T : t <= u
  BY <1>1, LeastNatural
<1>3. PICK m \in S : t = b - m
  OBVIOUS
<1>4. ASSUME NEW x \in S  PROVE x <= m
  <2>1. b - x \in T
    OBVIOUS
  <2>2. b - m <= b - x
    BY <1>2, <1>3, <2>1
  <2>3. m \in Int /\ x \in Int
    OBVIOUS
  <2>. HIDE DEF T
  <2>. QED  BY <2>2, <2>3
<1>. QED  BY <1>4

(***************************************************************************)
(* Quotient and remainder, and that no others satisfy their equation.      *)
(***************************************************************************)
LEMMA Division ==
    ASSUME NEW d \in Nat \ {0}, NEW a \in Int
    PROVE  /\ a \div d \in Int /\ (a % d) \in 0 .. d - 1
           /\ a = d * (a \div d) + (a % d)
  BY Z3

(***************************************************************************)
(* Quotient and remainder are the only ones.                               *)
(***************************************************************************)
LEMMA DivisionUnique ==
    ASSUME NEW d \in Nat \ {0}, NEW q \in Int, NEW r \in 0 .. d - 1
    PROVE  (d * q + r) \div d = q /\ (d * q + r) % d = r
  BY Z3

(***************************************************************************)
(* Recursion on the numbers defines a function: the value at zero and the  *)
(* step from one number to the next, which may depend on the number, give  *)
(* the value at every number.                                              *)
(***************************************************************************)
Recursive(g, D, first, step) ==
  \A n \in D : g[n] = IF n = 0 THEN first ELSE step[<<n, g[n - 1]>>]

(***************************************************************************)
(* Up to every number there is a function with the recursion,              *)
(***************************************************************************)
LEMMA RecursiveUpTo ==
    ASSUME NEW V, NEW first \in V, NEW step \in [Nat \X V -> V]
    PROVE  \A N \in Nat : \E g \in [0 .. N -> V] : Recursive(g, 0 .. N, first, step)
<1>. DEFINE S == {N \in Nat : \E g \in [0 .. N -> V] : Recursive(g, 0 .. N, first, step)}
<1>1. 0 \in S
  <2>. DEFINE g == [n \in 0 .. 0 |-> first]
  <2>1. g \in [0 .. 0 -> V]
    OBVIOUS
  <2>2. Recursive(g, 0 .. 0, first, step)
    BY DEF Recursive
  <2>. QED  BY <2>1, <2>2
<1>2. ASSUME NEW N \in Nat, N \in S  PROVE N + 1 \in S
  <2>1. PICK g \in [0 .. N -> V] : Recursive(g, 0 .. N, first, step)
    BY <1>2
  <2>. DEFINE h == [n \in 0 .. N + 1 |-> IF n = N + 1 THEN step[<<N + 1, g[N]>>] ELSE g[n]]
  <2>2. N \in 0 .. N /\ \A n \in 0 .. N + 1 : n \in 0 .. N \/ n = N + 1
    OBVIOUS
  <2>3. g[N] \in V
    BY <2>2
  <2>3a. <<N + 1, g[N]>> \in Nat \X V
    BY <2>3
  <2>4. step[<<N + 1, g[N]>>] \in V
    BY <2>3a
  <2>5. h \in [0 .. N + 1 -> V]
    BY <2>2, <2>4
  <2>6. ASSUME NEW n \in 0 .. N + 1
        PROVE  h[n] = IF n = 0 THEN first ELSE step[<<n, h[n - 1]>>]
    <3>1. CASE n = N + 1
      <4>1. n # 0 /\ n - 1 = N /\ N # N + 1 /\ N \in 0 .. N + 1
        BY <3>1
      <4>2. h[n - 1] = g[N]
        BY <4>1
      <4>. QED  BY <3>1, <4>1, <4>2
    <3>2. CASE n # N + 1
      <4>1. n \in 0 .. N
        BY <3>2
      <4>2. g[n] = IF n = 0 THEN first ELSE step[<<n, g[n - 1]>>]
        BY <2>1, <4>1 DEF Recursive
      <4>3. h[n] = g[n]
        BY <3>2
      <4>4. CASE n = 0
        BY <4>2, <4>3, <4>4
      <4>5. CASE n # 0
        <5>1. n - 1 \in 0 .. N + 1 /\ n - 1 # N + 1
          BY <4>1, <4>5
        <5>2. h[n - 1] = g[n - 1]
          BY <5>1
        <5>. QED  BY <4>2, <4>3, <4>5, <5>2
      <4>. QED  BY <4>4, <4>5
    <3>. QED  BY <3>1, <3>2
  <2>7. Recursive(h, 0 .. N + 1, first, step)
    BY <2>6 DEF Recursive
  <2>. HIDE DEF h
  <2>. QED  BY <2>5, <2>7
<1>. HIDE DEF S
<1>3. \A N \in Nat : N \in S
  BY <1>1, <1>2, SetInduction
<1>. QED  BY <1>3 DEF S

(***************************************************************************)
(* two of them agree where both are defined,                               *)
(***************************************************************************)
LEMMA RecursiveUnique ==
    ASSUME NEW first, NEW step, NEW M \in Nat, NEW N \in Nat, NEW g, NEW h,
           Recursive(g, 0 .. M, first, step), Recursive(h, 0 .. N, first, step)
    PROVE  \A n \in Nat : n <= M /\ n <= N => g[n] = h[n]
<1>. DEFINE S == {n \in Nat : n <= M /\ n <= N => g[n] = h[n]}
<1>1. 0 \in S
  <2>1. 0 \in 0 .. M /\ 0 \in 0 .. N
    OBVIOUS
  <2>2. g[0] = first /\ h[0] = first
    BY <2>1 DEF Recursive
  <2>. QED  BY <2>2
<1>2. ASSUME NEW n \in Nat, n \in S  PROVE n + 1 \in S
  <2>1. SUFFICES ASSUME n + 1 <= M, n + 1 <= N  PROVE g[n + 1] = h[n + 1]
    OBVIOUS
  <2>2. n + 1 \in 0 .. M /\ n + 1 \in 0 .. N /\ n + 1 # 0 /\ (n + 1) - 1 = n
    BY <2>1
  <2>3. g[n] = h[n]
    BY <1>2, <2>1
  <2>4. g[n + 1] = step[<<n + 1, g[(n + 1) - 1]>>] /\ h[n + 1] = step[<<n + 1, h[(n + 1) - 1]>>]
    BY <2>2 DEF Recursive
  <2>. QED  BY <2>2, <2>3, <2>4
<1>. HIDE DEF S
<1>3. \A n \in Nat : n \in S
  BY <1>1, <1>2, SetInduction
<1>. QED  BY <1>3 DEF S

(***************************************************************************)
(* and so there is one on all of the numbers.                              *)
(***************************************************************************)
LEMMA RecursiveExists ==
    ASSUME NEW V, NEW first \in V, NEW step \in [Nat \X V -> V]
    PROVE  \E g \in [Nat -> V] : Recursive(g, Nat, first, step)
<1>. DEFINE upTo(N) == CHOOSE g \in [0 .. N -> V] : Recursive(g, 0 .. N, first, step)
            f == [n \in Nat |-> upTo(n)[n]]
<1>1. ASSUME NEW N \in Nat
      PROVE  upTo(N) \in [0 .. N -> V] /\ Recursive(upTo(N), 0 .. N, first, step)
  <2>1. \E g \in [0 .. N -> V] : Recursive(g, 0 .. N, first, step)
    BY RecursiveUpTo
  <2>. QED  BY <2>1
<1>. HIDE DEF upTo
<1>2. ASSUME NEW n \in Nat  PROVE f[n] = upTo(n)[n] /\ f[n] \in V
  <2>1. n \in 0 .. n
    OBVIOUS
  <2>. QED  BY <1>1, <2>1
<1>3. ASSUME NEW n \in Nat
      PROVE  f[n] = IF n = 0 THEN first ELSE step[<<n, f[n - 1]>>]
  <2>1. n \in 0 .. n
    OBVIOUS
  <2>2. upTo(n)[n] = IF n = 0 THEN first ELSE step[<<n, upTo(n)[n - 1]>>]
    BY <1>1, <2>1 DEF Recursive
  <2>3. CASE n = 0
    BY <1>2, <2>2, <2>3
  <2>4. CASE n # 0
    <3>1. n - 1 \in Nat /\ n - 1 <= n - 1 /\ n - 1 <= n
      BY <2>4
    <3>2. Recursive(upTo(n), 0 .. n, first, step) /\ Recursive(upTo(n - 1), 0 .. n - 1, first, step)
      BY <1>1, <3>1
    <3>3. upTo(n)[n - 1] = upTo(n - 1)[n - 1]
      BY <3>1, <3>2, RecursiveUnique
    <3>4. f[n - 1] = upTo(n)[n - 1]
      BY <1>2, <3>1, <3>3
    <3>. QED  BY <1>2, <2>2, <2>4, <3>4
  <2>. QED  BY <2>3, <2>4
<1>4. f \in [Nat -> V]
  BY <1>2
<1>5. Recursive(f, Nat, first, step)
  BY <1>3 DEF Recursive
<1>. HIDE DEF f
<1>. QED  BY <1>4, <1>5
=============================================================================
