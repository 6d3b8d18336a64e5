----------------------------- MODULE RoundProofs ----------------------------
(***************************************************************************)
(* What the arithmetic of a round returns, for pools of every size: locks  *)
(* are never more than deposits, a start moves USDC from deposits to       *)
(* locks without creating or losing any, and a settlement takes from the   *)
(* positions exactly what it says was spent.                               *)
(*                                                                         *)
(* The first part is the algebra of Sum, for every n.  The provers cannot  *)
(* instantiate an induction theorem with a predicate, so each induction is *)
(* made by the least counterexample: a set of naturals that is not empty   *)
(* has a least member (NatMin), and the lemma holds just below it.         *)
(***************************************************************************)
EXTENDS RoundMath, FiniteSetTheorems, WellFoundedInduction, TLAPS

\* A set of naturals that is not empty has a least member.
LEMMA NatMin ==
  ASSUME NEW T \in SUBSET Nat, T # {}
  PROVE  \E x \in T : \A y \in T : x =< y
<1> DEFINE R == {ss \in Nat \X Nat : ss[1] < ss[2]}
<1>1. IsWellFoundedOn(R, Nat)
  BY NatLessThanWellFounded DEF OpToRel
<1> HIDE DEF R
<1>2. PICK x \in T : \A y \in T : ~ (<<y, x>> \in R)
  BY <1>1, WFMin
<1>3. ASSUME NEW y \in T
      PROVE  x =< y
  <2>1. <<y, x>> \notin R
    BY <1>2
  <2>2. <<y, x>> \in Nat \X Nat
    OBVIOUS
  <2>3. ~ (y < x)
    BY <2>1, <2>2 DEF R
  <2> QED BY <2>3
<1> QED BY <1>3

\* g holds the prefix sums of f up to n.
IsPrefix(f, g, n) == g[0] = 0 /\ \A i \in Nat : 0 < i /\ i =< n => g[i] = g[i - 1] + f[i]

\* Every f has prefix sums up to every n.
LEMMA PrefixExists ==
  ASSUME NEW f, NEW n \in Nat
  PROVE  \E g : IsPrefix(f, g, n)
<1> DEFINE Bad == {m \in Nat : ~ \E g : IsPrefix(f, g, m)}
<1> SUFFICES ASSUME Bad # {}
             PROVE  FALSE
  OBVIOUS
<1>1. PICK m \in Bad : \A y \in Bad : m =< y
  BY NatMin
<1>2. CASE m = 0
  <2> DEFINE g == [i \in Nat |-> 0]
  <2>1. IsPrefix(f, g, 0)
    BY DEF IsPrefix
  <2> QED BY <1>2, <2>1
<1>3. CASE m # 0
  <2>1. m - 1 \in Nat /\ m - 1 \notin Bad
    BY <1>1, <1>3
  <2>2. PICK g : IsPrefix(f, g, m - 1)
    BY <2>1
  <2> DEFINE h == [i \in Nat |-> IF i = m THEN g[m - 1] + f[m] ELSE g[i]]
  <2>3. h[0] = 0
    BY <1>3, <2>2 DEF IsPrefix
  <2>4. ASSUME NEW i \in Nat, 0 < i, i =< m
        PROVE  h[i] = h[i - 1] + f[i]
    <3>1. h[i - 1] = g[i - 1]
      BY <2>4
    <3>2. CASE i = m
      BY <3>1, <3>2
    <3>3. CASE i # m
      <4>1. i =< m - 1
        BY <2>4, <3>3
      <4>2. g[i] = g[i - 1] + f[i]
        BY <4>1, <2>2, <2>4 DEF IsPrefix
      <4> QED BY <3>1, <3>3, <4>2
    <3> QED BY <3>2, <3>3
  <2>5. IsPrefix(f, h, m)
    <3> HIDE DEF h
    <3> QED BY <2>3, <2>4 DEF IsPrefix
  <2> QED BY <2>5
<1> QED BY <1>2, <1>3

\* Prefix sums are unique.
LEMMA PrefixUnique ==
  ASSUME NEW f, NEW g, NEW h, NEW n \in Nat, NEW m \in Nat,
         IsPrefix(f, g, n), IsPrefix(f, h, m),
         NEW i \in Nat, i =< n, i =< m
  PROVE  g[i] = h[i]
<1> DEFINE Bad == {j \in Nat : j =< n /\ j =< m /\ g[j] # h[j]}
<1> SUFFICES ASSUME Bad # {}
             PROVE  FALSE
  OBVIOUS
<1>1. PICK j \in Bad : \A y \in Bad : j =< y
  BY NatMin
<1>2. j # 0
  BY DEF IsPrefix
<1>3. j - 1 \in Nat /\ j - 1 \notin Bad
  BY <1>1, <1>2
<1>4. g[j - 1] = h[j - 1]
  BY <1>3
<1>5. g[j] = g[j - 1] + f[j] /\ h[j] = h[j - 1] + f[j]
  BY <1>2 DEF IsPrefix
<1> QED BY <1>4, <1>5

\* PrefixSum satisfies its recursive definition.
LEMMA PrefixSumDef ==
  ASSUME NEW f
  PROVE  PrefixSum(f) = [i \in Nat |-> IF i = 0 THEN 0 ELSE PrefixSum(f)[i - 1] + f[i]]
<1> DEFINE G(i) == CHOOSE g : IsPrefix(f, g, i)
           s == [i \in Nat |-> G(i)[i]]
           t == [i \in Nat |-> IF i = 0 THEN 0 ELSE s[i - 1] + f[i]]
<1>1. ASSUME NEW i \in Nat PROVE IsPrefix(f, G(i), i)
  BY PrefixExists
<1>2. ASSUME NEW i \in Nat PROVE s[i] = t[i]
  <2>1. CASE i = 0
    BY <1>1, <2>1 DEF IsPrefix
  <2>2. CASE i # 0
    <3>1. i - 1 \in Nat /\ i - 1 =< i /\ i - 1 =< i - 1
      BY <2>2
    <3>2. IsPrefix(f, G(i), i) /\ IsPrefix(f, G(i - 1), i - 1)
      BY <1>1, <3>1
    <3> HIDE DEF G
    <3>3. G(i)[i - 1] = G(i - 1)[i - 1]
      BY <3>1, <3>2, PrefixUnique
    <3>4. G(i)[i] = G(i)[i - 1] + f[i]
      BY <2>2, <3>2 DEF IsPrefix
    <3> QED BY <2>2, <3>1, <3>3, <3>4
  <2> QED BY <2>1, <2>2
<1>3. s = t
  <2> HIDE DEF G
  <2> QED BY <1>2
<1>4. \E x : x = [i \in Nat |-> IF i = 0 THEN 0 ELSE x[i - 1] + f[i]]
  BY <1>3
<1> QED BY <1>4 DEF PrefixSum

\* Sum by its first and its last term.
LEMMA SumZero ==
  ASSUME NEW f
  PROVE  Sum(f, 0) = 0
BY PrefixSumDef DEF Sum

LEMMA SumStep ==
  ASSUME NEW f, NEW n \in Nat, n # 0
  PROVE  Sum(f, n) = Sum(f, n - 1) + f[n]
BY PrefixSumDef DEF Sum

\* A sum of integers is an integer, of naturals a natural.
LEMMA SumInt ==
  ASSUME NEW f, NEW n \in Nat, \A i \in 1 .. n : f[i] \in Int
  PROVE  Sum(f, n) \in Int
<1> DEFINE Bad == {m \in Nat : m =< n /\ Sum(f, m) \notin Int}
<1> SUFFICES ASSUME Bad # {}
             PROVE  FALSE
  OBVIOUS
<1>1. PICK m \in Bad : \A y \in Bad : m =< y
  BY NatMin
<1>2. m # 0
  BY SumZero
<1>3. m - 1 \in Nat /\ m - 1 \notin Bad
  BY <1>1, <1>2
<1>4. Sum(f, m - 1) \in Int
  BY <1>3
<1>5. Sum(f, m) = Sum(f, m - 1) + f[m] /\ f[m] \in Int
  BY <1>2, SumStep
<1> QED BY <1>4, <1>5

LEMMA SumNat ==
  ASSUME NEW f, NEW n \in Nat, \A i \in 1 .. n : f[i] \in Nat
  PROVE  Sum(f, n) \in Nat
<1> DEFINE Bad == {m \in Nat : m =< n /\ Sum(f, m) \notin Nat}
<1> SUFFICES ASSUME Bad # {}
             PROVE  FALSE
  OBVIOUS
<1>1. PICK m \in Bad : \A y \in Bad : m =< y
  BY NatMin
<1>2. m # 0
  BY SumZero
<1>3. m - 1 \in Nat /\ m - 1 \notin Bad
  BY <1>1, <1>2
<1>4. Sum(f, m - 1) \in Nat
  BY <1>3
<1>5. Sum(f, m) = Sum(f, m - 1) + f[m] /\ f[m] \in Nat
  BY <1>2, SumStep
<1> QED BY <1>4, <1>5

\* The sum depends on the terms only.
LEMMA SumEqual ==
  ASSUME NEW f, NEW g, NEW n \in Nat, \A i \in 1 .. n : f[i] = g[i]
  PROVE  Sum(f, n) = Sum(g, n)
<1> DEFINE Bad == {m \in Nat : m =< n /\ Sum(f, m) # Sum(g, m)}
<1> SUFFICES ASSUME Bad # {}
             PROVE  FALSE
  OBVIOUS
<1>1. PICK m \in Bad : \A y \in Bad : m =< y
  BY NatMin
<1>2. m # 0
  BY SumZero
<1>3. m - 1 \in Nat /\ m - 1 \notin Bad
  BY <1>1, <1>2
<1>4. Sum(f, m - 1) = Sum(g, m - 1)
  BY <1>3
<1>5. Sum(f, m) = Sum(f, m - 1) + f[m] /\ Sum(g, m) = Sum(g, m - 1) + g[m]
  BY <1>2, SumStep
<1>6. f[m] = g[m]
  BY <1>2
<1> QED BY <1>4, <1>5, <1>6

\* The sum of termwise sums.
LEMMA SumAdd ==
  ASSUME NEW f, NEW g, NEW h, NEW n \in Nat,
         \A i \in 1 .. n : f[i] \in Int /\ g[i] \in Int /\ h[i] = f[i] + g[i]
  PROVE  Sum(h, n) = Sum(f, n) + Sum(g, n)
<1> DEFINE Bad == {m \in Nat : m =< n /\ Sum(h, m) # Sum(f, m) + Sum(g, m)}
<1> SUFFICES ASSUME Bad # {}
             PROVE  FALSE
  OBVIOUS
<1>1. PICK m \in Bad : \A y \in Bad : m =< y
  BY NatMin
<1>2. m # 0
  BY SumZero
<1>3. m - 1 \in Nat /\ m - 1 \notin Bad
  BY <1>1, <1>2
<1>4. Sum(h, m - 1) = Sum(f, m - 1) + Sum(g, m - 1)
  BY <1>3
<1>5. /\ Sum(f, m) = Sum(f, m - 1) + f[m]
      /\ Sum(g, m) = Sum(g, m - 1) + g[m]
      /\ Sum(h, m) = Sum(h, m - 1) + h[m]
  BY <1>2, SumStep
<1>6. f[m] \in Int /\ g[m] \in Int /\ h[m] = f[m] + g[m]
  BY <1>2
<1>7. Sum(f, m - 1) \in Int /\ Sum(g, m - 1) \in Int
  BY <1>3, SumInt
<1> QED BY <1>4, <1>5, <1>6, <1>7

\* A sum whose terms are zero but for one.
LEMMA SumSingle ==
  ASSUME NEW f, NEW n \in Nat, NEW j \in 1 .. n, NEW d \in Int,
         \A i \in 1 .. n : f[i] = IF i = j THEN d ELSE 0
  PROVE  Sum(f, n) = d
<1> DEFINE Bad == {m \in Nat : m =< n /\ Sum(f, m) # IF j =< m THEN d ELSE 0}
<1> SUFFICES ASSUME Bad # {}
             PROVE  FALSE
  OBVIOUS
<1>1. PICK m \in Bad : \A y \in Bad : m =< y
  BY NatMin
<1>2. m # 0
  BY SumZero
<1>3. m - 1 \in Nat /\ m - 1 \notin Bad
  BY <1>1, <1>2
<1>4. Sum(f, m - 1) = IF j =< m - 1 THEN d ELSE 0
  BY <1>3
<1>5. Sum(f, m) = Sum(f, m - 1) + f[m]
  BY <1>2, SumStep
<1>6. f[m] = IF m = j THEN d ELSE 0
  BY <1>2
<1> QED BY <1>4, <1>5, <1>6

\* A sum of zeros.
LEMMA SumZeros ==
  ASSUME NEW f, NEW n \in Nat, \A i \in 1 .. n : f[i] = 0
  PROVE  Sum(f, n) = 0
<1>1. Sum(f, n) \in Int
  BY SumInt
<1>2. Sum(f, n) = Sum(f, n) + Sum(f, n)
  BY SumAdd
<1>3. \A x \in Int : x = x + x => x = 0
  OBVIOUS
<1> QED BY ONLY <1>1, <1>2, <1>3

\* One term changes by d: the sum changes by d.
LEMMA SumUpdate ==
  ASSUME NEW f, NEW g, NEW n \in Nat, NEW j \in 1 .. n, NEW d \in Int,
         \A i \in 1 .. n : f[i] \in Int,
         \A i \in 1 .. n : g[i] = IF i = j THEN f[i] + d ELSE f[i]
  PROVE  Sum(g, n) = Sum(f, n) + d
<1> DEFINE u == [i \in 1 .. n |-> IF i = j THEN d ELSE 0]
<1>1. Sum(u, n) = d
  BY SumSingle
<1>2. \A i \in 1 .. n : u[i] \in Int /\ g[i] = f[i] + u[i]
  OBVIOUS
<1> HIDE DEF u
<1>3. Sum(g, n) = Sum(f, n) + Sum(u, n)
  BY <1>2, SumAdd
<1> QED BY <1>1, <1>3

\* Sums are monotone.
LEMMA SumMonotone ==
  ASSUME NEW f, NEW g, NEW n \in Nat,
         \A i \in 1 .. n : f[i] \in Int /\ g[i] \in Int /\ f[i] =< g[i]
  PROVE  Sum(f, n) =< Sum(g, n)
<1> DEFINE u == [i \in 1 .. n |-> g[i] - f[i]]
<1>1. \A i \in 1 .. n : f[i] \in Int /\ u[i] \in Nat /\ g[i] = f[i] + u[i]
  OBVIOUS
<1> HIDE DEF u
<1>2. Sum(g, n) = Sum(f, n) + Sum(u, n)
  BY <1>1, SumAdd
<1>3. Sum(u, n) \in Nat /\ Sum(f, n) \in Int
  BY <1>1, SumNat, SumInt
<1> QED BY <1>2, <1>3

\* A term of a sum of naturals is at most the sum.
LEMMA SumTerm ==
  ASSUME NEW f, NEW n \in Nat, NEW j \in 1 .. n, \A i \in 1 .. n : f[i] \in Nat
  PROVE  f[j] =< Sum(f, n)
<1> DEFINE u == [i \in 1 .. n |-> IF i = j THEN f[j] ELSE 0]
<1>1. Sum(u, n) = f[j]
  <2>1. f[j] \in Int /\ \A i \in 1 .. n : u[i] = IF i = j THEN f[j] ELSE 0
    OBVIOUS
  <2> HIDE DEF u
  <2> QED BY <2>1, SumSingle
<1>2. \A i \in 1 .. n : u[i] \in Int /\ f[i] \in Int /\ u[i] =< f[i]
  OBVIOUS
<1> HIDE DEF u
<1>3. Sum(u, n) =< Sum(f, n)
  BY <1>2, SumMonotone
<1> QED BY <1>1, <1>3

\* Clearing a term takes it off the sum.
LEMMA SumClear ==
  ASSUME NEW f, NEW g, NEW n \in Nat, NEW c \in 1 .. n,
         \A i \in 1 .. n : f[i] \in Int,
         \A i \in 1 .. n : g[i] = IF i = c THEN 0 ELSE f[i]
  PROVE  Sum(g, n) = Sum(f, n) - f[c]
<1>1. PICK e \in Int : e = 0 - f[c]
  OBVIOUS
<1>2. \A i \in 1 .. n : g[i] = IF i = c THEN f[i] + e ELSE f[i]
  BY <1>1
<1>3. Sum(g, n) = Sum(f, n) + e
  BY <1>2, SumUpdate, ZenonT(30)
<1>4. Sum(f, n) \in Int /\ f[c] \in Int
  BY SumInt
<1> QED BY <1>1, <1>3, <1>4

\* Swap-remove: the term at c moves to j and c becomes zero.
LEMMA SumSwapRemove ==
  ASSUME NEW f, NEW g, NEW n \in Nat, NEW j \in 1 .. n, NEW c \in 1 .. n,
         \A i \in 1 .. n : f[i] \in Int,
         \A i \in 1 .. n : g[i] = IF i = c THEN 0 ELSE IF i = j THEN f[c] ELSE f[i]
  PROVE  Sum(g, n) = Sum(f, n) - f[j]
<1> DEFINE h == [i \in 1 .. n |-> IF i = j THEN f[c] ELSE f[i]]
           d == f[c] - f[j]
<1>1. d \in Int /\ f[j] \in Int /\ f[c] \in Int /\ h[c] = f[c]
  OBVIOUS
<1>2. \A i \in 1 .. n : h[i] = IF i = j THEN f[i] + d ELSE f[i]
  OBVIOUS
<1>3. \A i \in 1 .. n : h[i] \in Int
  OBVIOUS
<1>4. \A i \in 1 .. n : g[i] = IF i = c THEN 0 ELSE h[i]
  OBVIOUS
<1>5. Sum(h, n) = Sum(f, n) + d
  <2> HIDE DEF h, d
  <2> QED BY <1>1, <1>2, SumUpdate, ZenonT(30)
<1> HIDE DEF h
<1>6. Sum(g, n) = Sum(h, n) - h[c]
  BY <1>3, <1>4, SumClear
<1>7. Sum(f, n) \in Int
  BY SumInt
<1> QED BY <1>1, <1>5, <1>6, <1>7

\* A factor that the terms have in common.
LEMMA SumScale ==
  ASSUME NEW f, NEW g, NEW n \in Nat, NEW c \in Int,
         \A i \in 1 .. n : f[i] \in Int /\ g[i] = c * f[i]
  PROVE  Sum(g, n) = c * Sum(f, n)
<1> DEFINE Bad == {m \in Nat : m =< n /\ Sum(g, m) # c * Sum(f, m)}
<1> SUFFICES ASSUME Bad # {}
             PROVE  FALSE
  OBVIOUS
<1>1. PICK m \in Bad : \A y \in Bad : m =< y
  BY NatMin
<1>2. m # 0
  BY SumZero
<1>3. m - 1 \in Nat /\ m - 1 \notin Bad
  BY <1>1, <1>2
<1>4. Sum(g, m - 1) = c * Sum(f, m - 1)
  BY <1>3
<1>5. Sum(f, m) = Sum(f, m - 1) + f[m] /\ Sum(g, m) = Sum(g, m - 1) + g[m]
  BY <1>2, SumStep
<1>6. f[m] \in Int /\ g[m] = c * f[m] /\ Sum(f, m - 1) \in Int
  BY <1>2, <1>3, SumInt
<1>7. \A x, y \in Int : c * x + c * y = c * (x + y)
  OBVIOUS
<1> QED BY <1>4, <1>5, <1>6, <1>7

\* f[1], ..., f[n] belong to the owners 1 .. K, but for zeros: h[k] holds the terms
\* of owner k, g[k] is their sum.
ByOwner(f, g, h, own, K, n) ==
  /\ K \in Nat /\ n \in Nat
  /\ \A i \in 1 .. n : f[i] \in Int
  /\ \A i \in 1 .. n : own[i] \in 1 .. K \/ f[i] = 0
  /\ \A k \in 1 .. K, i \in 1 .. n : h[k][i] = IF own[i] = k THEN f[i] ELSE 0
  /\ \A k \in 1 .. K : g[k] = Sum(h[k], n)

\* A sum can be taken owner by owner.
LEMMA SumByOwner ==
  ASSUME NEW f, NEW g, NEW h, NEW own, NEW K, NEW n, ByOwner(f, g, h, own, K, n)
  PROVE  Sum(g, K) = Sum(f, n)
<1> USE DEF ByOwner
<1> DEFINE G(m) == [k \in 1 .. K |-> Sum(h[k], m)]
           Bad == {m \in Nat : m =< n /\ Sum(G(m), K) # Sum(f, m)}
<1>1. Bad = {}
  <2> SUFFICES ASSUME Bad # {}
               PROVE  FALSE
    OBVIOUS
  <2>1. PICK m \in Bad : \A y \in Bad : m =< y
    <3>1. Bad \in SUBSET Nat
      OBVIOUS
    <3> QED BY <3>1, NatMin
  <2>2. m \in Nat /\ m =< n /\ Sum(G(m), K) # Sum(f, m)
    OBVIOUS
  <2>3. CASE m = 0
    <3>1. \A k \in 1 .. K : G(m)[k] = 0
      BY <2>3, SumZero
    <3> HIDE DEF G
    <3> QED BY <2>2, <2>3, <3>1, SumZero, SumZeros
  <2>4. CASE m # 0
    <3>1. m - 1 \in Nat /\ m - 1 =< n /\ m \in 1 .. n
      BY <2>2, <2>4
    <3>2. Sum(G(m - 1), K) = Sum(f, m - 1)
      BY <2>1, <2>2, <3>1
    <3> DEFINE u == [k \in 1 .. K |-> h[k][m]]
    <3>3. \A k \in 1 .. K : u[k] = IF own[m] = k THEN f[m] ELSE 0
      BY <3>1
    <3>4. Sum(u, K) = f[m]
      <4> HIDE DEF u
      <4>1. f[m] \in Int
        BY <3>1
      <4>2. CASE own[m] \in 1 .. K
        <5>1. PICK j \in 1 .. K, d \in Int : j = own[m] /\ d = f[m]
          BY <4>1, <4>2
        <5>2. \A k \in 1 .. K : u[k] = IF k = j THEN d ELSE 0
          BY <3>3, <5>1
        <5>3. K \in Nat /\ j \in 1 .. K /\ d \in Int
          OBVIOUS
        <5>4. Sum(u, K) = d
          BY ONLY <5>2, <5>3, SumSingle
        <5> QED BY <5>1, <5>4
      <4>3. CASE f[m] = 0
        <5>1. \A k \in 1 .. K : u[k] = 0
          BY <3>3, <4>3
        <5> QED BY <4>3, <5>1, SumZeros
      <4> QED BY <3>1, <4>2, <4>3
    <3>5. ASSUME NEW k \in 1 .. K
          PROVE  /\ G(m - 1)[k] \in Int /\ u[k] \in Int
                 /\ G(m)[k] = G(m - 1)[k] + u[k]
      <4>1. \A i \in 1 .. (m - 1) : h[k][i] \in Int
        BY <3>1
      <4>2. Sum(h[k], m - 1) \in Int
        BY <3>1, <4>1, SumInt
      <4>3. Sum(h[k], m) = Sum(h[k], m - 1) + h[k][m]
        BY <2>2, <2>4, SumStep
      <4>4. h[k][m] \in Int
        BY <3>1
      <4> QED BY <4>2, <4>3, <4>4
    <3> HIDE DEF G, u
    <3>6. Sum(G(m), K) = Sum(G(m - 1), K) + Sum(u, K)
      BY <3>5, SumAdd
    <3>7. Sum(f, m) = Sum(f, m - 1) + f[m]
      BY <2>2, <2>4, SumStep
    <3> QED BY <2>2, <3>2, <3>4, <3>6, <3>7
  <2> QED BY <2>3, <2>4
<1>2. Sum(G(n), K) = Sum(f, n)
  BY <1>1
<1>3. \A k \in 1 .. K : g[k] = G(n)[k]
  OBVIOUS
<1> HIDE DEF G
<1>4. Sum(g, K) = Sum(G(n), K)
  BY <1>3, SumEqual
<1> QED BY <1>2, <1>4

-----------------------------------------------------------------------------
\* The arithmetic of a round

\* The numeric fields of a pool are naturals.
PoolOfNats(inv) ==
  \A i \in Slots : /\ inv[i].usdc_deposited \in Nat
                   /\ inv[i].usdc_locked_current_round \in Nat
                   /\ inv[i].usdc_committed \in Nat
                   /\ inv[i].waln_purchased_total \in Nat
                   /\ inv[i].aat_volume \in Nat

\* Deposited plus locked, slot by slot.
PositionsOf(inv) ==
  [i \in Slots |-> inv[i].usdc_deposited + inv[i].usdc_locked_current_round]

\* Integer division of naturals.
LEMMA DivNat ==
  ASSUME NEW a \in Nat, NEW b \in Nat, b > 0
  PROVE  a \div b \in Nat
OBVIOUS

LEMMA UsdcForNat ==
  ASSUME NEW w \in Nat, NEW p \in Nat
  PROVE  UsdcFor(w, p) \in Nat
<1>1. w * p \in Nat
  OBVIOUS
<1> QED BY <1>1, DivNat, RoundMathAssumption DEF UsdcFor

LEMMA WalnForNat ==
  ASSUME NEW u \in Nat, NEW p \in Nat, p > 0
  PROVE  WalnFor(u, p) \in Nat
<1>1. u * waln_scale \in Nat
  BY RoundMathAssumption
<1> QED BY <1>1, DivNat DEF WalnFor

\* Sums of naturals over a set of slots.
LEMMA SumOverNat ==
  ASSUME NEW E, NEW f, \A i \in Slots : f[i] \in Nat
  PROVE  SumOver(E, f) \in Nat
<1> DEFINE g == [i \in Slots |-> IF i \in E THEN f[i] ELSE 0]
<1>1. \A i \in 1 .. MAX_INVESTORS : g[i] \in Nat
  BY DEF Slots
<1> HIDE DEF g
<1>2. Sum(g, MAX_INVESTORS) \in Nat
  BY <1>1, SumNat, RoundMathAssumption
<1> QED BY <1>2 DEF g, SumOver

\* A participant's share is a natural number.
LEMMA RequiredLockNat ==
  ASSUME NEW inv, PoolOfNats(inv), NEW E, NEW cap \in Nat, NEW i \in Slots,
         SumOver(E, Volumes(inv)) > 0
  PROVE  required_lock(inv, E, cap, i) \in Nat
<1>1. \A j \in Slots : Volumes(inv)[j] \in Nat
  BY DEF Volumes, PoolOfNats
<1>2. SumOver(E, Volumes(inv)) \in Nat
  BY <1>1, SumOverNat
<1>3. cap * inv[i].aat_volume \in Nat
  BY DEF PoolOfNats
<1> QED BY <1>2, <1>3, DivNat DEF required_lock

\* A share that is locked is covered by the deposit.
LEMMA BaseLocksBound ==
  ASSUME NEW inv, PoolOfNats(inv), NEW E, NEW cap \in Nat,
         SumOver(E, Volumes(inv)) > 0
  PROVE  \A i \in Slots : BaseLocks(inv, E, cap)[i] \in 0 .. inv[i].usdc_deposited
<1> TAKE i \in Slots
<1>1. required_lock(inv, E, cap, i) \in Nat
  BY RequiredLockNat
<1>2. inv[i].usdc_deposited \in Nat
  BY DEF PoolOfNats
<1> QED BY <1>1, <1>2 DEF BaseLocks, Least

\* The locks of a new round are covered by the deposits.
LEMMA NewLocksBound ==
  ASSUME NEW inv, PoolOfNats(inv), NEW cnt, NEW size \in Nat, NEW price \in Nat,
         RoundCanStart(inv, cnt, size, price)
  PROVE  \A i \in Slots : NewLocks(inv, cnt, size, price)[i] \in 0 .. inv[i].usdc_deposited
<1> DEFINE cap  == round_cap_usdc(size, price)
           E    == Participants(inv, cnt, cap)
           base == BaseLocks(inv, E, cap)
           gap  == Greatest(0, cap - Sum(base, MAX_INVESTORS))
<1>1. cap \in Nat
  BY UsdcForNat DEF round_cap_usdc
<1>2. SumOver(E, Volumes(inv)) > 0
  BY DEF RoundCanStart
<1>3. \A i \in Slots : base[i] \in 0 .. inv[i].usdc_deposited
  BY <1>1, <1>2, BaseLocksBound
<1>4. \A i \in Slots : inv[i].usdc_deposited \in Nat
  BY DEF PoolOfNats
<1>5. Sum(base, MAX_INVESTORS) \in Nat
  <2>1. \A i \in 1 .. MAX_INVESTORS : base[i] \in Nat
    BY <1>3, <1>4 DEF Slots
  <2> HIDE DEF base
  <2> QED BY <2>1, SumNat, RoundMathAssumption
<1>6. gap \in Nat
  <2> HIDE DEF base, cap
  <2> QED BY <1>1, <1>5 DEF Greatest
<1> TAKE i \in Slots
<1>7. \/ GapLocks(inv, E, cap)[i] = 0
      \/ GapLocks(inv, E, cap)[i] = gap /\ inv[i].usdc_deposited - base[i] >= gap
  <2> HIDE DEF E, cap
  <2> QED BY DEF GapLocks
<1>8. NewLocks(inv, cnt, size, price)[i] = base[i] + GapLocks(inv, E, cap)[i]
  BY DEF NewLocks
<1> HIDE DEF base, gap, E, cap
<1> QED BY <1>3, <1>4, <1>6, <1>7, <1>8

-----------------------------------------------------------------------------
\* Division

\* A quotient is the largest number whose product with the divisor fits.
LEMMA DivBounds ==
  ASSUME NEW a \in Nat, NEW b \in Nat, b > 0
  PROVE  /\ b * (a \div b) =< a
         /\ a < b * (a \div b) + b
OBVIOUS

LEMMA DivLargest ==
  ASSUME NEW a \in Nat, NEW b \in Nat, b > 0, NEW q \in Nat, b * q =< a
  PROVE  q =< a \div b
<1>1. a \div b \in Nat
  BY DivNat
<1>2. a < b * (a \div b) + b
  BY DivBounds
<1>3. \A x \in Nat : x < q => b * x + b =< b * q
  <2> TAKE x \in Nat
  <2> HAVE x < q
  <2>1. PICK y \in Nat : q = x + 1 + y
    BY q - x - 1 \in Nat
  <2>2. b * (x + 1 + y) = b * x + b + b * y
    OBVIOUS
  <2>3. b * y \in Nat /\ b * x \in Nat
    OBVIOUS
  <2> QED BY <2>1, <2>2, <2>3
<1>4. \A x \in Nat : b * x \in Nat
  OBVIOUS
<1> QED BY <1>1, <1>2, <1>3, <1>4

\* What two divisions lose, one of the sum may keep.
LEMMA DivAdd ==
  ASSUME NEW a \in Nat, NEW c \in Nat, NEW b \in Nat, b > 0
  PROVE  (a \div b) + (c \div b) =< (a + c) \div b
<1>1. /\ a \div b \in Nat /\ b * (a \div b) =< a
      /\ c \div b \in Nat /\ b * (c \div b) =< c
  BY DivNat, DivBounds
<1>2. \A x, y \in Nat : b * x \in Nat /\ b * (x + y) = b * x + b * y
  OBVIOUS
<1>3. b * ((a \div b) + (c \div b)) =< a + c
  BY <1>1, <1>2
<1>4. (a \div b) + (c \div b) \in Nat /\ a + c \in Nat
  BY <1>1
<1> QED BY <1>3, <1>4, DivLargest

-----------------------------------------------------------------------------
\* The participants of a round

\* The size of a set of slots, as a sum.
Indicator(E) == [i \in Slots |-> IF i \in E THEN 1 ELSE 0]

LEMMA SlotSets ==
  ASSUME NEW E \in SUBSET Slots
  PROVE  IsFiniteSet(E) /\ Cardinality(E) \in 0 .. MAX_INVESTORS
<1>1. IsFiniteSet(Slots) /\ Cardinality(Slots) = MAX_INVESTORS
  BY FS_Interval, RoundMathAssumption DEF Slots
<1>2. IsFiniteSet(E) /\ Cardinality(E) =< Cardinality(Slots)
  BY <1>1, FS_Subset
<1>3. Cardinality(E) \in Nat
  BY <1>2, FS_CardinalityType
<1> QED BY <1>1, <1>2, <1>3, RoundMathAssumption

LEMMA CardSum ==
  ASSUME NEW E \in SUBSET Slots
  PROVE  Cardinality(E) = Sum(Indicator(E), MAX_INVESTORS)
<1> DEFINE Upto(m) == {i \in E : i =< m}
           Bad == {m \in Nat : m =< MAX_INVESTORS /\ Cardinality(Upto(m)) # Sum(Indicator(E), m)}
<1>0. \A i \in E : i \in Nat /\ 0 < i /\ i =< MAX_INVESTORS
  BY RoundMathAssumption DEF Slots
<1>1. Upto(MAX_INVESTORS) = E
  BY <1>0
<1>2. ASSUME Bad # {} PROVE FALSE
  <2>1. PICK m \in Bad : \A y \in Bad : m =< y
    BY <1>2, NatMin
  <2>2. m # 0
    <3>1. Upto(0) = {}
      <4>1. \A i \in E : ~ (i =< 0)
        BY <1>0
      <4> QED BY <4>1
    <3>2. Cardinality(Upto(0)) = 0
      BY <3>1, FS_EmptySet
    <3> QED BY <3>2, SumZero
  <2>3. m - 1 \in Nat /\ m - 1 \notin Bad
    BY <2>1, <2>2
  <2>4. Cardinality(Upto(m - 1)) = Sum(Indicator(E), m - 1)
    BY <2>3, RoundMathAssumption
  <2>5. Sum(Indicator(E), m) = Sum(Indicator(E), m - 1) + Indicator(E)[m]
    BY <2>2, SumStep
  <2>6. Upto(m - 1) \in SUBSET Slots
    OBVIOUS
  <2>7. IsFiniteSet(Upto(m - 1)) /\ Cardinality(Upto(m - 1)) \in Nat
    BY <2>6, SlotSets, RoundMathAssumption
  <2>8. m \in Slots
    BY <2>2 DEF Slots
  <2>9. CASE m \in E
    <3>1. Upto(m) = Upto(m - 1) \cup {m} /\ m \notin Upto(m - 1)
      <4>1. \A i \in E : i =< m <=> i =< m - 1 \/ i = m
        BY <1>0
      <4>2. ~ (m =< m - 1)
        OBVIOUS
      <4> QED BY <2>9, <4>1, <4>2
    <3>2. Cardinality(Upto(m)) = Cardinality(Upto(m - 1)) + 1
      BY <2>7, <3>1, FS_AddElement
    <3>3. Indicator(E)[m] = 1
      BY <2>8, <2>9 DEF Indicator
    <3> QED BY <2>4, <2>5, <3>2, <3>3
  <2>10. CASE m \notin E
    <3>1. Upto(m) = Upto(m - 1)
      <4>1. \A i \in E : i =< m <=> i =< m - 1
        BY <1>0, <2>10
      <4> QED BY <4>1
    <3>2. Indicator(E)[m] = 0
      BY <2>8, <2>10 DEF Indicator
    <3>3. Cardinality(Upto(m)) = Sum(Indicator(E), m)
      <4> HIDE DEF Upto, Bad
      <4> QED BY <2>4, <2>5, <2>7, <3>1, <3>2
    <3> QED BY <3>3
  <2> QED BY <2>9, <2>10
<1>3. MAX_INVESTORS \in Nat /\ MAX_INVESTORS \notin Bad
  BY <1>2, RoundMathAssumption
<1> QED BY <1>1, <1>3

\* g holds the participants after each of the first n turns of the loop.
IsTurns(inv, cnt, cap, g, n) ==
  /\ g[0] = eligible(inv, cnt, cap)
  /\ \A i \in Nat : 0 < i /\ i =< n => g[i] = Affording(inv, g[i - 1], cap)

LEMMA TurnsExist ==
  ASSUME NEW inv, NEW cnt, NEW cap, NEW n \in Nat
  PROVE  \E g : IsTurns(inv, cnt, cap, g, n)
<1> DEFINE Bad == {m \in Nat : ~ \E g : IsTurns(inv, cnt, cap, g, m)}
<1> SUFFICES ASSUME Bad # {}
             PROVE  FALSE
  OBVIOUS
<1>1. PICK m \in Bad : \A y \in Bad : m =< y
  BY NatMin
<1>2. CASE m = 0
  <2> DEFINE g == [i \in Nat |-> eligible(inv, cnt, cap)]
  <2>1. IsTurns(inv, cnt, cap, g, 0)
    BY DEF IsTurns
  <2> QED BY <1>2, <2>1
<1>3. CASE m # 0
  <2>1. m - 1 \in Nat /\ m - 1 \notin Bad
    BY <1>1, <1>3
  <2>2. PICK g : IsTurns(inv, cnt, cap, g, m - 1)
    BY <2>1
  <2> DEFINE h == [i \in Nat |-> IF i = m THEN Affording(inv, g[m - 1], cap) ELSE g[i]]
  <2>3. h[0] = eligible(inv, cnt, cap)
    BY <1>3, <2>2 DEF IsTurns
  <2>4. ASSUME NEW i \in Nat, 0 < i, i =< m
        PROVE  h[i] = Affording(inv, h[i - 1], cap)
    <3>1. h[i - 1] = g[i - 1]
      BY <2>4
    <3>2. CASE i = m
      BY <3>1, <3>2
    <3>3. CASE i # m
      <4>1. i =< m - 1
        BY <2>4, <3>3
      <4>2. g[i] = Affording(inv, g[i - 1], cap)
        BY <4>1, <2>2, <2>4 DEF IsTurns
      <4> QED BY <3>1, <3>3, <4>2
    <3> QED BY <3>2, <3>3
  <2>5. IsTurns(inv, cnt, cap, h, m)
    <3> HIDE DEF h
    <3> QED BY <2>3, <2>4 DEF IsTurns
  <2> QED BY <2>5
<1> QED BY <1>2, <1>3

LEMMA TurnsUnique ==
  ASSUME NEW inv, NEW cnt, NEW cap, NEW g, NEW h, NEW n \in Nat, NEW m \in Nat,
         IsTurns(inv, cnt, cap, g, n), IsTurns(inv, cnt, cap, h, m),
         NEW i \in Nat, i =< n, i =< m
  PROVE  g[i] = h[i]
<1> DEFINE Bad == {j \in Nat : j =< n /\ j =< m /\ g[j] # h[j]}
<1> SUFFICES ASSUME Bad # {}
             PROVE  FALSE
  OBVIOUS
<1>1. PICK j \in Bad : \A y \in Bad : j =< y
  BY NatMin
<1>2. j # 0
  BY DEF IsTurns
<1>3. j - 1 \in Nat /\ j - 1 \notin Bad
  BY <1>1, <1>2
<1>4. g[j - 1] = h[j - 1]
  BY <1>3
<1>5. g[j] = Affording(inv, g[j - 1], cap) /\ h[j] = Affording(inv, h[j - 1], cap)
  BY <1>2 DEF IsTurns
<1> QED BY <1>4, <1>5

\* The loop of execute_round_start ends: Participants is the last of its turns.
LEMMA ParticipantsTurn ==
  ASSUME NEW inv, NEW cnt, NEW cap
  PROVE  \E g : /\ IsTurns(inv, cnt, cap, g, MAX_INVESTORS)
                /\ Participants(inv, cnt, cap) = g[MAX_INVESTORS]
<1> DEFINE G(i) == CHOOSE g : IsTurns(inv, cnt, cap, g, i)
           s == [i \in Nat |-> G(i)[i]]
           t == [i \in Nat |-> IF i = 0 THEN eligible(inv, cnt, cap)
                               ELSE Affording(inv, s[i - 1], cap)]
           turn == CHOOSE x : x = [n \in Nat |-> IF n = 0 THEN eligible(inv, cnt, cap)
                                                 ELSE Affording(inv, x[n - 1], cap)]
<1>1. ASSUME NEW i \in Nat PROVE IsTurns(inv, cnt, cap, G(i), i)
  BY TurnsExist
<1>2. ASSUME NEW i \in Nat PROVE s[i] = t[i]
  <2>1. CASE i = 0
    BY <1>1, <2>1 DEF IsTurns
  <2>2. CASE i # 0
    <3>1. i - 1 \in Nat /\ i - 1 =< i /\ i - 1 =< i - 1
      BY <2>2
    <3>2. IsTurns(inv, cnt, cap, G(i), i) /\ IsTurns(inv, cnt, cap, G(i - 1), i - 1)
      BY <1>1, <3>1
    <3> HIDE DEF G
    <3>3. G(i)[i - 1] = G(i - 1)[i - 1]
      BY <3>1, <3>2, TurnsUnique
    <3>4. G(i)[i] = Affording(inv, G(i)[i - 1], cap)
      BY <2>2, <3>2 DEF IsTurns
    <3> QED BY <2>2, <3>1, <3>3, <3>4
  <2> QED BY <2>1, <2>2
<1>3. s = t
  <2> HIDE DEF G
  <2> QED BY <1>2
<1>4. \E x : x = [n \in Nat |-> IF n = 0 THEN eligible(inv, cnt, cap)
                                ELSE Affording(inv, x[n - 1], cap)]
  BY <1>3
<1>5. turn = [n \in Nat |-> IF n = 0 THEN eligible(inv, cnt, cap)
                            ELSE Affording(inv, turn[n - 1], cap)]
  BY <1>4
<1>6. Participants(inv, cnt, cap) = turn[MAX_INVESTORS]
  BY DEF Participants
<1> HIDE DEF turn
<1>7. \A i \in Nat : turn[i] = IF i = 0 THEN eligible(inv, cnt, cap)
                               ELSE Affording(inv, turn[i - 1], cap)
  BY <1>5
<1>8. IsTurns(inv, cnt, cap, turn, MAX_INVESTORS)
  BY <1>7 DEF IsTurns
<1> QED BY <1>6, <1>8

\* The last turn dropped nobody: every turn that changes the set drops a slot, so
\* after as many turns as there are slots the set is stable or empty.
LEMMA ParticipantsFixed ==
  ASSUME NEW inv, NEW cnt, NEW cap
  PROVE  LET P == Participants(inv, cnt, cap)
         IN  /\ P \subseteq eligible(inv, cnt, cap)
             /\ P \subseteq Slots
             /\ Affording(inv, P, cap) = P
<1>1. PICK g : /\ IsTurns(inv, cnt, cap, g, MAX_INVESTORS)
               /\ Participants(inv, cnt, cap) = g[MAX_INVESTORS]
  BY ParticipantsTurn
<1> DEFINE A(E) == Affording(inv, E, cap)
           Good(m) == /\ g[m] \subseteq eligible(inv, cnt, cap)
                      /\ A(g[m]) = g[m] \/ Cardinality(g[m]) + m =< MAX_INVESTORS
           Bad == {m \in Nat : m =< MAX_INVESTORS /\ ~ Good(m)}
<1>2. eligible(inv, cnt, cap) \in SUBSET Slots
  BY DEF eligible
<1>3. \A E : A(E) \subseteq E
  BY DEF Affording
<1> HIDE DEF A
<1>4. MAX_INVESTORS \in Nat
  BY RoundMathAssumption
<1>5. ASSUME Bad # {} PROVE FALSE
  <2>1. PICK m \in Bad : \A y \in Bad : m =< y
    BY <1>5, NatMin
  <2>2. m # 0
    <3>1. g[0] = eligible(inv, cnt, cap)
      BY <1>1 DEF IsTurns
    <3>2. Cardinality(g[0]) \in 0 .. MAX_INVESTORS
      BY <1>2, <3>1, SlotSets
    <3>3. Good(0)
      BY <1>4, <3>1, <3>2
    <3> HIDE DEF Good
    <3> QED BY <3>3
  <2>3. m - 1 \in Nat /\ m - 1 \notin Bad /\ m - 1 =< MAX_INVESTORS
    BY <1>4, <2>1, <2>2
  <2>4. Good(m - 1)
    <3> HIDE DEF Good
    <3> QED BY <2>3
  <2>5. g[m] = A(g[m - 1])
    BY <1>1, <2>2 DEF IsTurns, A
  <2>6. g[m] \subseteq g[m - 1] /\ g[m] \subseteq eligible(inv, cnt, cap)
    BY <1>3, <2>4, <2>5
  <2>7. CASE g[m] = g[m - 1]
    BY <2>5, <2>6, <2>7
  <2>8. CASE g[m] # g[m - 1]
    <3>1. Cardinality(g[m - 1]) + (m - 1) =< MAX_INVESTORS
      BY <2>4, <2>5, <2>8
    <3>2. g[m - 1] \in SUBSET Slots /\ g[m] \in SUBSET g[m - 1] /\ g[m] \in SUBSET Slots
      BY <1>2, <2>4, <2>6
    <3>3. /\ IsFiniteSet(g[m - 1]) /\ Cardinality(g[m - 1]) \in Nat
          /\ Cardinality(g[m]) \in Nat
      BY <1>4, <3>2, SlotSets
    <3>4. /\ Cardinality(g[m]) =< Cardinality(g[m - 1])
          /\ Cardinality(g[m]) # Cardinality(g[m - 1])
      BY <2>8, <3>2, <3>3, FS_Subset
    <3>5. Cardinality(g[m]) + m =< MAX_INVESTORS
      BY <1>4, <3>1, <3>3, <3>4
    <3> QED BY <2>6, <3>5
  <2> QED BY <2>7, <2>8
<1>6. Good(MAX_INVESTORS)
  <2> HIDE DEF Good
  <2> QED BY <1>4, <1>5
<1>7. g[MAX_INVESTORS] \in SUBSET Slots
  BY <1>2, <1>6
<1>8. A(g[MAX_INVESTORS]) = g[MAX_INVESTORS]
  <2>1. CASE Cardinality(g[MAX_INVESTORS]) + MAX_INVESTORS =< MAX_INVESTORS
    <3>1. /\ IsFiniteSet(g[MAX_INVESTORS])
          /\ Cardinality(g[MAX_INVESTORS]) \in 0 .. MAX_INVESTORS
      BY <1>7, SlotSets
    <3>2. Cardinality(g[MAX_INVESTORS]) = 0
      BY <1>4, <2>1, <3>1
    <3>3. g[MAX_INVESTORS] = {}
      BY <3>1, <3>2, FS_EmptySet
    <3> QED BY <1>3, <3>3
  <2> QED BY <1>6, <2>1
<1> QED BY <1>1, <1>6, <1>7, <1>8 DEF A

\* Where two sums of quotients leave the whole: V times the rest is at most what
\* the N divisions lost.
LEMMA RestBound ==
  ASSUME NEW V \in Nat, V > 0, NEW N \in Nat, N > 0, NEW cap \in Nat, NEW Q \in Nat,
         V * Q =< cap * V, cap * V =< V * Q + (V - 1) * N
  PROVE  cap - Q \in 0 .. (N - 1)
<1>1. Q =< cap
  <2> SUFFICES ASSUME Q > cap PROVE FALSE
    OBVIOUS
  <2>1. PICK y \in Nat : Q = cap + 1 + y
    BY Q - cap - 1 \in Nat
  <2>2. V * (cap + 1 + y) = cap * V + V + V * y
    OBVIOUS
  <2>3. V * y \in Nat /\ cap * V \in Nat
    OBVIOUS
  <2> QED BY <2>1, <2>2, <2>3
<1>2. PICK D \in Nat : cap = Q + D
  BY <1>1, cap - Q \in Nat
<1>3. (Q + D) * V = V * Q + V * D /\ (V - 1) * N = V * N - N
  OBVIOUS
<1>4. V * D =< V * N - N
  <2>1. V * Q \in Nat /\ V * D \in Nat /\ V * N \in Nat
    OBVIOUS
  <2> QED BY <1>2, <1>3, <2>1
<1>5. D < N
  <2> SUFFICES ASSUME D >= N PROVE FALSE
    OBVIOUS
  <2>1. PICK y \in Nat : D = N + y
    BY D - N \in Nat
  <2>2. V * (N + y) = V * N + V * y
    OBVIOUS
  <2>3. V * y \in Nat /\ V * N \in Nat
    OBVIOUS
  <2> QED BY <1>4, <2>1, <2>2, <2>3
<1> QED BY <1>2, <1>5

\* The share of the cap of each slot of E, and zero elsewhere.
SharesIn(inv, E, cap) ==
  [i \in Slots |-> IF i \in E THEN required_lock(inv, E, cap, i) ELSE 0]

\* The shares of a set of slots add up to the cap, less fewer units than slots.
LEMMA ShareSums ==
  ASSUME NEW inv, PoolOfNats(inv), NEW E \in SUBSET Slots, NEW cap \in Nat,
         SumOver(E, Volumes(inv)) > 0
  PROVE  /\ E # {}
         /\ Sum(SharesIn(inv, E, cap), MAX_INVESTORS) \in Nat
         /\ cap - Sum(SharesIn(inv, E, cap), MAX_INVESTORS) \in 0 .. (Cardinality(E) - 1)
<1> DEFINE V == SumOver(E, Volumes(inv))
           f == [i \in Slots |-> IF i \in E THEN Volumes(inv)[i] ELSE 0]
           q == SharesIn(inv, E, cap)
           capf == [i \in Slots |-> cap * f[i]]
           Vq == [i \in Slots |-> V * q[i]]
           ind == Indicator(E)
           lost == [i \in Slots |-> (V - 1) * ind[i]]
           most == [i \in Slots |-> Vq[i] + lost[i]]
           M == MAX_INVESTORS
<1>1. M \in Nat /\ Slots = 1 .. M
  BY RoundMathAssumption DEF Slots
<1>2. \A i \in Slots : Volumes(inv)[i] \in Nat
  BY DEF Volumes, PoolOfNats
<1>3. V \in Nat /\ V > 0 /\ V = Sum(f, M)
  BY <1>2, SumOverNat DEF SumOver
<1>4. E # {}
  <2> SUFFICES ASSUME E = {} PROVE FALSE
    OBVIOUS
  <2>1. \A i \in 1 .. M : f[i] = 0
    BY <1>1
  <2> HIDE DEF f, V, M
  <2>2. Sum(f, M) = 0
    BY <1>1, <2>1, SumZeros
  <2> QED BY <1>3, <2>2
<1>5. ASSUME NEW i \in Slots
      PROVE  /\ f[i] \in Nat /\ q[i] \in Nat /\ ind[i] \in {0, 1}
             /\ V * q[i] =< cap * f[i]
             /\ cap * f[i] =< V * q[i] + (V - 1) * ind[i]
  <2>1. CASE i \in E
    <3> DEFINE v == inv[i].aat_volume
    <3>1. v \in Nat /\ f[i] = v /\ ind[i] = 1
      BY <2>1, <1>2 DEF Volumes, Indicator
    <3>2. q[i] = (cap * v) \div V
      BY <2>1 DEF SharesIn, required_lock
    <3>3. cap * v \in Nat
      BY <3>1
    <3> HIDE DEF v, V, f, q, ind
    <3>4. PICK a \in Nat : a = cap * v
      BY <3>3
    <3>5. q[i] \in Nat /\ V * q[i] =< a /\ a < V * q[i] + V
      BY <1>3, <3>2, <3>4, DivNat, DivBounds
    <3>6. PICK b \in Nat : b = V * q[i]
      BY <1>3, <3>5
    <3>7. (V - 1) * 1 = V - 1
      BY <1>3
    <3> QED BY <1>3, <3>1, <3>4, <3>5, <3>6, <3>7
  <2>2. CASE i \notin E
    <3>1. f[i] = 0 /\ q[i] = 0 /\ ind[i] = 0
      BY <2>2 DEF SharesIn, Indicator
    <3> HIDE DEF V, f, q, ind
    <3>2. V * 0 = 0 /\ cap * 0 = 0 /\ (V - 1) * 0 = 0
      BY <1>3
    <3> QED BY <3>1, <3>2
  <2> QED BY <2>1, <2>2
<1>6. Cardinality(E) = Sum(ind, M) /\ Cardinality(E) \in Nat /\ Cardinality(E) > 0
  <2>1. IsFiniteSet(E) /\ Cardinality(E) \in Nat
    BY <1>1, SlotSets
  <2>2. Cardinality(E) # 0
    BY <1>4, <2>1, FS_EmptySet
  <2> QED BY <2>1, <2>2, CardSum
<1> HIDE DEF V, f, q, ind, M
<1>7. \A i \in 1 .. M : /\ f[i] \in Int /\ q[i] \in Nat /\ ind[i] \in Int
                        /\ capf[i] = cap * f[i] /\ capf[i] \in Int
                        /\ Vq[i] = V * q[i] /\ Vq[i] \in Int
                        /\ lost[i] = (V - 1) * ind[i] /\ lost[i] \in Int
                        /\ most[i] = Vq[i] + lost[i] /\ most[i] \in Int
                        /\ Vq[i] =< capf[i] /\ capf[i] =< most[i]
  BY <1>1, <1>3, <1>5
<1> HIDE DEF capf, Vq, lost, most
<1>8. V - 1 \in Int /\ V \in Int /\ cap \in Int
  BY <1>3
<1>9. /\ Sum(capf, M) = cap * V
      /\ Sum(Vq, M) = V * Sum(q, M)
      /\ Sum(lost, M) = (V - 1) * Cardinality(E)
      /\ Sum(q, M) \in Nat
  <2>1. Sum(capf, M) = cap * Sum(f, M)
    BY <1>1, <1>7, <1>8, SumScale
  <2>2. \A i \in 1 .. M : q[i] \in Int
    BY <1>7
  <2>3. Sum(Vq, M) = V * Sum(q, M)
    BY <1>1, <1>7, <1>8, <2>2, SumScale
  <2>4. Sum(lost, M) = (V - 1) * Sum(ind, M)
    BY <1>1, <1>7, <1>8, SumScale
  <2>5. Sum(q, M) \in Nat
    BY <1>1, <1>7, SumNat
  <2> QED BY <1>3, <1>6, <2>1, <2>3, <2>4, <2>5
<1>10. Sum(Vq, M) =< Sum(capf, M) /\ Sum(capf, M) =< Sum(most, M)
  BY <1>1, <1>7, SumMonotone
<1>11. Sum(most, M) = Sum(Vq, M) + Sum(lost, M)
  BY <1>1, <1>7, SumAdd
<1>12. V * Sum(q, M) =< cap * V /\ cap * V =< V * Sum(q, M) + (V - 1) * Cardinality(E)
  BY <1>9, <1>10, <1>11
<1>13. cap - Sum(q, M) \in 0 .. (Cardinality(E) - 1)
  BY <1>3, <1>6, <1>9, <1>12, RestBound
<1> QED BY <1>4, <1>9, <1>13 DEF q, M

-----------------------------------------------------------------------------
\* The locks of a new round

\* The locks of a pool are the pro-rata shares of a cap, one of them may hold the
\* rounding gap too, and fewer units than locks are missing.
LocksShare(inv, cap) ==
  LET E == {i \in Slots : IsParticipant(inv, i)}
      Extra(i) == inv[i].usdc_locked_current_round - required_lock(inv, E, cap, i)
  IN  /\ E # {}
      /\ \A i \in E : Extra(i) >= 0
      /\ \A i, j \in E : Extra(i) > 0 /\ Extra(j) > 0 => i = j
      /\ cap - Sum(Locks(inv), MAX_INVESTORS) \in 0 .. (Cardinality(E) - 1)

\* A participant locks its share.
LEMMA BaseIsShare ==
  ASSUME NEW inv, PoolOfNats(inv), NEW E \in SUBSET Slots, NEW cap \in Nat,
         SumOver(E, Volumes(inv)) > 0, Affording(inv, E, cap) = E
  PROVE  /\ BaseLocks(inv, E, cap) = SharesIn(inv, E, cap)
         /\ \A i \in Slots : /\ SharesIn(inv, E, cap)[i] \in Nat
                             /\ SharesIn(inv, E, cap)[i] > 0 <=> i \in E
<1>1. ASSUME NEW i \in Slots
      PROVE  /\ BaseLocks(inv, E, cap)[i] = SharesIn(inv, E, cap)[i]
             /\ SharesIn(inv, E, cap)[i] \in Nat
             /\ SharesIn(inv, E, cap)[i] > 0 <=> i \in E
  <2>1. required_lock(inv, E, cap, i) \in Nat /\ inv[i].usdc_deposited \in Nat
    BY RequiredLockNat DEF PoolOfNats
  <2>2. i \in E => /\ required_lock(inv, E, cap, i) # 0
                   /\ inv[i].usdc_deposited >= required_lock(inv, E, cap, i)
    BY DEF Affording
  <2> QED BY <2>1, <2>2 DEF BaseLocks, SharesIn, Least
<1>2. BaseLocks(inv, E, cap) = SharesIn(inv, E, cap)
  BY <1>1 DEF BaseLocks, SharesIn
<1> QED BY <1>1, <1>2

\* At most one slot takes the gap.
LEMMA GapTaken ==
  ASSUME NEW inv, NEW E \in SUBSET Slots, NEW cap
  PROVE  LET gap == Greatest(0, cap - Sum(BaseLocks(inv, E, cap), MAX_INVESTORS))
         IN  \/ \A i \in Slots : GapLocks(inv, E, cap)[i] = 0
             \/ \E j \in E : \A i \in Slots :
                  GapLocks(inv, E, cap)[i] = IF i = j THEN gap ELSE 0
<1> DEFINE base == BaseLocks(inv, E, cap)
           gap == Greatest(0, cap - Sum(base, MAX_INVESTORS))
           HasGap(i) == i \in E /\ inv[i].usdc_deposited - base[i] >= gap
           First(i) == HasGap(i) /\ \A j \in Slots : j < i => ~ HasGap(j)
<1>1. \A i \in Slots : GapLocks(inv, E, cap)[i] = IF gap > 0 /\ First(i) THEN gap ELSE 0
  BY DEF GapLocks
<1>2. CASE ~ \E j \in Slots : gap > 0 /\ First(j)
  <2> HIDE DEF gap, First
  <2> QED BY <1>1, <1>2 DEF gap, base
<1>3. CASE \E j \in Slots : gap > 0 /\ First(j)
  <2>1. PICK j \in Slots : gap > 0 /\ First(j)
    BY <1>3
  <2>2. j \in E
    BY <2>1
  <2>3. \A i \in Slots : First(i) => i = j
    <3> HIDE DEF HasGap
    <3>1. \A i \in Slots : i < j \/ j < i \/ i = j
      BY DEF Slots
    <3> QED BY <2>1, <3>1
  <2> HIDE DEF gap, First
  <2>4. \A i \in Slots : GapLocks(inv, E, cap)[i] = IF i = j THEN gap ELSE 0
    BY <1>1, <2>1, <2>3
  <2> QED BY <2>2, <2>4 DEF gap, base
<1> QED BY <1>2, <1>3

\* What a start locks: a share for each participant, the gap for one of them at
\* most, and all of the cap but fewer units than participants.
LEMMA NewLocksShare ==
  ASSUME NEW inv, PoolOfNats(inv), NEW cnt, NEW size \in Nat, NEW price \in Nat,
         RoundCanStart(inv, cnt, size, price)
  PROVE  LET cap   == round_cap_usdc(size, price)
             P     == Participants(inv, cnt, cap)
             locks == NewLocks(inv, cnt, size, price)
         IN  /\ cap \in Nat /\ P \in SUBSET Slots /\ P # {}
             /\ \A i \in Slots : /\ locks[i] \in Nat
                                 /\ locks[i] > 0 <=> i \in P
                                 /\ required_lock(inv, P, cap, i) \in Nat
             /\ \A i \in P : locks[i] >= required_lock(inv, P, cap, i)
             /\ \A i, j \in P : /\ locks[i] > required_lock(inv, P, cap, i)
                                /\ locks[j] > required_lock(inv, P, cap, j)
                                => i = j
             /\ cap - Sum(locks, MAX_INVESTORS) \in 0 .. (Cardinality(P) - 1)
<1> DEFINE cap   == round_cap_usdc(size, price)
           P     == Participants(inv, cnt, cap)
           locks == NewLocks(inv, cnt, size, price)
           base  == BaseLocks(inv, P, cap)
           extra == GapLocks(inv, P, cap)
           share == SharesIn(inv, P, cap)
           M     == MAX_INVESTORS
           gap   == Greatest(0, cap - Sum(base, M))
<1>1. cap \in Nat /\ SumOver(P, Volumes(inv)) > 0
  BY UsdcForNat DEF round_cap_usdc, RoundCanStart
<1>2. M \in Nat /\ Slots = 1 .. M
  BY RoundMathAssumption DEF Slots
<1>3. P \in SUBSET Slots /\ Affording(inv, P, cap) = P
  BY ParticipantsFixed
<1>4. \A i \in Slots : locks[i] = base[i] + extra[i]
  BY DEF NewLocks
<1> HIDE DEF cap, P, locks
<1>5. /\ base = share
      /\ \A i \in Slots : share[i] \in Nat /\ (share[i] > 0 <=> i \in P)
  BY <1>1, <1>3, BaseIsShare
<1>6. /\ P # {} /\ Sum(share, M) \in Nat
      /\ cap - Sum(share, M) \in 0 .. (Cardinality(P) - 1)
  BY <1>1, <1>3, ShareSums
<1>7. Cardinality(P) \in Nat
  BY <1>2, <1>3, SlotSets
<1>8. \/ \A i \in Slots : extra[i] = 0
      \/ \E j \in P : \A i \in Slots : extra[i] = IF i = j THEN gap ELSE 0
  BY <1>3, GapTaken
<1>9. \A i \in Slots : required_lock(inv, P, cap, i) \in Nat
  BY <1>1, RequiredLockNat
<1>10. \A i \in P : share[i] = required_lock(inv, P, cap, i)
  BY <1>3 DEF SharesIn
<1>11. gap \in Nat /\ gap = cap - Sum(share, M)
  <2> HIDE DEF share, M, base
  <2> QED BY <1>1, <1>5, <1>6, <1>7 DEF Greatest
<1> HIDE DEF share, M, base, extra, gap
<1>12. CASE \A i \in Slots : extra[i] = 0
  <2>1. \A i \in Slots : locks[i] = share[i]
    BY <1>4, <1>5, <1>12
  <2>2. Sum(locks, M) = Sum(share, M)
    BY <1>2, <2>1, SumEqual
  <2> QED BY <1>1, <1>3, <1>5, <1>6, <1>9, <1>10, <2>1, <2>2 DEF cap, P, locks, M
<1>13. CASE \E j \in P : \A i \in Slots : extra[i] = IF i = j THEN gap ELSE 0
  <2>1. PICK j \in P : \A i \in Slots : extra[i] = IF i = j THEN gap ELSE 0
    BY <1>13
  <2>2. \A i \in Slots : locks[i] = IF i = j THEN share[i] + gap ELSE share[i]
    BY <1>4, <1>5, <1>11, <2>1
  <2>3. Sum(locks, M) = Sum(share, M) + gap
    <3>1. j \in 1 .. M /\ gap \in Int /\ \A i \in 1 .. M : share[i] \in Int
      BY <1>2, <1>3, <1>5, <1>11
    <3> QED BY <1>2, <2>2, <3>1, SumUpdate
  <2>4. cap - Sum(locks, M) \in 0 .. (Cardinality(P) - 1)
    BY <1>1, <1>6, <1>7, <1>11, <2>3
  <2>5. \A i \in Slots : locks[i] \in Nat /\ (locks[i] > 0 <=> i \in P)
    BY <1>5, <1>11, <2>2
  <2>6. \A i \in P : locks[i] >= required_lock(inv, P, cap, i)
    BY <1>3, <1>5, <1>10, <1>11, <2>2
  <2>7. \A i \in P : locks[i] > required_lock(inv, P, cap, i) => i = j
    BY <1>3, <1>5, <1>10, <2>2
  <2> QED BY <1>1, <1>3, <1>6, <1>9, <2>4, <2>5, <2>6, <2>7 DEF cap, P, locks, M
<1> QED BY <1>8, <1>12, <1>13

-----------------------------------------------------------------------------
\* Prices

\* Two sales pay no more than one sale of both amounts.
LEMMA UsdcForAdd ==
  ASSUME NEW a \in Nat, NEW b \in Nat, NEW price \in Nat
  PROVE  UsdcFor(a, price) + UsdcFor(b, price) =< UsdcFor(a + b, price)
<1>1. a * price \in Nat /\ b * price \in Nat /\ (a + b) * price = a * price + b * price
  OBVIOUS
<1>2. waln_scale \in Nat /\ waln_scale > 0
  BY RoundMathAssumption
<1> QED BY <1>1, <1>2, DivAdd DEF UsdcFor

LEMMA UsdcForZero ==
  ASSUME NEW price \in Nat
  PROVE  UsdcFor(0, price) = 0
<1>1. 0 * price = 0
  OBVIOUS
<1>2. 0 \div waln_scale = 0
  BY RoundMathAssumption
<1> QED BY <1>1, <1>2 DEF UsdcFor

\* What the parts of an amount buy is no more than what the whole buys.
LEMMA SumWalnFor ==
  ASSUME NEW f, NEW g, NEW n \in Nat, NEW price \in Nat, price > 0,
         \A i \in 1 .. n : f[i] \in Nat /\ g[i] = WalnFor(f[i], price)
  PROVE  Sum(g, n) =< WalnFor(Sum(f, n), price)
<1> DEFINE Bad == {m \in Nat : m =< n /\ ~ (Sum(g, m) =< WalnFor(Sum(f, m), price))}
<1> SUFFICES ASSUME Bad # {}
             PROVE  FALSE
  OBVIOUS
<1>1. PICK m \in Bad : \A y \in Bad : m =< y
  BY NatMin
<1>2. m # 0
  <2>1. WalnFor(0, price) \in Nat
    BY WalnForNat
  <2> QED BY <2>1, SumZero
<1>3. m - 1 \in Nat /\ m - 1 \notin Bad
  BY <1>1, <1>2
<1>4. Sum(g, m - 1) =< WalnFor(Sum(f, m - 1), price)
  BY <1>3
<1>5. Sum(f, m) = Sum(f, m - 1) + f[m] /\ Sum(g, m) = Sum(g, m - 1) + g[m]
  BY <1>2, SumStep
<1>6. f[m] \in Nat /\ g[m] = WalnFor(f[m], price)
  BY <1>2
<1>7. \A i \in 1 .. n : g[i] \in Nat
  BY WalnForNat
<1>8. Sum(f, m - 1) \in Nat /\ Sum(g, m - 1) \in Nat
  BY <1>3, <1>7, SumNat
<1>9. WalnFor(Sum(f, m - 1), price) + WalnFor(f[m], price)
        =< WalnFor(Sum(f, m - 1) + f[m], price)
  <2>1. PICK s \in Nat : s = Sum(f, m - 1)
    BY <1>8
  <2>2. s * waln_scale \in Nat /\ f[m] * waln_scale \in Nat
    BY <1>6, RoundMathAssumption
  <2>3. (s + f[m]) * waln_scale = s * waln_scale + f[m] * waln_scale
    BY <1>6, RoundMathAssumption
  <2> QED BY <2>1, <2>2, <2>3, DivAdd DEF WalnFor
<1>10. /\ WalnFor(Sum(f, m - 1), price) \in Nat /\ WalnFor(f[m], price) \in Nat
       /\ WalnFor(Sum(f, m), price) \in Nat
  BY <1>5, <1>6, <1>8, WalnForNat
<1>11. Sum(g, m) =< WalnFor(Sum(f, m), price)
  BY <1>4, <1>5, <1>6, <1>8, <1>9, <1>10
<1> QED BY <1>11

\* An amount up to the cap buys no more wALN than the round holds.
LEMMA WalnWithinSize ==
  ASSUME NEW size \in Nat, NEW price \in Nat, price > 0, NEW u \in Nat,
         u =< UsdcFor(size, price)
  PROVE  WalnFor(u, price) =< size
<1> DEFINE c == UsdcFor(size, price)
           a == size * price
<1>1. waln_scale \in Nat /\ waln_scale > 0 /\ a \in Nat
  BY RoundMathAssumption
<1>2. c \in Nat /\ waln_scale * c =< a /\ u =< c
  BY <1>1, UsdcForNat, DivBounds DEF UsdcFor
<1> HIDE DEF c
<1>3. u * waln_scale =< a
  <2>1. PICK y \in Nat : c = u + y
    BY <1>2, c - u \in Nat
  <2>2. waln_scale * (u + y) = u * waln_scale + waln_scale * y
    BY <1>1
  <2>3. waln_scale * y \in Nat /\ u * waln_scale \in Nat
    BY <1>1
  <2> HIDE DEF a
  <2> QED BY <1>1, <1>2, <2>1, <2>2, <2>3
<1>4. u * waln_scale \in Nat
  BY <1>1
<1>5. WalnFor(u, price) \in Nat /\ price * WalnFor(u, price) =< u * waln_scale
  BY <1>4, DivNat, DivBounds DEF WalnFor
<1>6. PICK w \in Nat : w = WalnFor(u, price)
  BY <1>5
<1>7. price * w =< size * price
  <2>1. PICK x \in Nat : x = u * waln_scale
    BY <1>4
  <2>2. price * w \in Nat
    OBVIOUS
  <2> QED BY <1>1, <1>3, <1>5, <1>6, <2>1, <2>2
<1>8. w =< size
  <2> SUFFICES ASSUME w > size PROVE FALSE
    OBVIOUS
  <2>1. PICK y \in Nat : w = size + 1 + y
    BY w - size - 1 \in Nat
  <2>2. price * (size + 1 + y) = size * price + price + price * y
    OBVIOUS
  <2>3. price * y \in Nat /\ size * price \in Nat
    OBVIOUS
  <2> QED BY <1>7, <2>1, <2>2, <2>3
<1> QED BY <1>6, <1>8

-----------------------------------------------------------------------------
\* What loops over the slots count and add up

\* How many members of X a loop has passed when it is at slot m.
Passed(X, m) == Cardinality({j \in X : j < m})

\* The count goes up at the members of X, one slot at a time.
LEMMA CountSteps ==
  ASSUME NEW X \in SUBSET Slots, NEW m \in Slots
  PROVE  /\ Passed(X, m) \in Nat
         /\ Passed(X, m + 1) = Passed(X, m) + IF m \in X THEN 1 ELSE 0
<1> DEFINE B == {j \in X : j < m}
           C == {j \in X : j < m + 1}
<1>1. \A j \in X : j \in Int /\ m \in Int
  BY DEF Slots
<1>2. B \in SUBSET Slots
  OBVIOUS
<1>3. IsFiniteSet(B) /\ Cardinality(B) \in Nat
  BY <1>2, SlotSets, RoundMathAssumption
<1>4. C = (IF m \in X THEN B \cup {m} ELSE B) /\ m \notin B
  BY <1>1
<1> HIDE DEF B, C
<1>5. Cardinality(C) = Cardinality(B) + IF m \in X THEN 1 ELSE 0
  BY <1>3, <1>4, FS_AddElement
<1>6. Passed(X, m) = Cardinality(B) /\ Passed(X, m + 1) = Cardinality(C)
  BY DEF B, C, Passed
<1> QED BY <1>3, <1>5, <1>6

\* Before the first slot it is zero, after the last slot it is the size of X.
LEMMA CountEnds ==
  ASSUME NEW X \in SUBSET Slots
  PROVE  /\ Passed(X, 1) = 0 /\ Passed(X, MAX_INVESTORS + 1) = Cardinality(X)
         /\ Cardinality(X) \in Nat
<1>1. \A j \in X : j \in Int /\ j >= 1 /\ j =< MAX_INVESTORS
  BY RoundMathAssumption DEF Slots
<1>2. {j \in X : j < 1} = {}
  BY <1>1
<1>3. {j \in X : j < MAX_INVESTORS + 1} = X
  BY <1>1, RoundMathAssumption
<1>4. Cardinality(X) \in Nat
  BY SlotSets, RoundMathAssumption
<1> QED BY <1>2, <1>3, <1>4, FS_EmptySet DEF Passed

\* It reaches the size of X at the last member of X.
LEMMA CountLast ==
  ASSUME NEW X \in SUBSET Slots, NEW m \in X
  PROVE  Passed(X, m) + 1 = Cardinality(X) <=> \A j \in Slots : j > m => j \notin X
<1> DEFINE C == {j \in X : j < m + 1}
<1>1. m \in Slots /\ \A j \in Slots : j \in Int
  BY DEF Slots
<1>2. Cardinality(C) = Passed(X, m) + 1
  BY <1>1, CountSteps DEF Passed
<1>3. C \in SUBSET X /\ IsFiniteSet(X)
  BY SlotSets
<1>4. C = X <=> \A j \in Slots : j > m => j \notin X
  BY <1>1
<1> HIDE DEF C
<1>5. Cardinality(C) = Cardinality(X) <=> C = X
  BY <1>3, FS_Subset
<1> QED BY <1>2, <1>4, <1>5

\* A total that grows by f[m] at slot m.
LEMMA TotalSteps ==
  ASSUME NEW f, \A j \in Slots : f[j] \in Nat, NEW m \in Slots
  PROVE  LET before == SumOver({j \in Slots : j < m}, f)
         IN  /\ before \in Nat
             /\ SumOver({j \in Slots : j < m + 1}, f) = before + f[m]
             /\ before =< Sum(f, MAX_INVESTORS)
<1> DEFINE F == [s \in Slots |-> IF s \in {j \in Slots : j < m} THEN f[s] ELSE 0]
           G == [s \in Slots |-> IF s \in {j \in Slots : j < m + 1} THEN f[s] ELSE 0]
<1>1. \A s \in 1 .. MAX_INVESTORS : /\ F[s] \in Nat /\ F[s] \in Int /\ F[s] =< f[s] /\ f[s] \in Int
                                    /\ G[s] = IF s = m THEN F[s] + f[m] ELSE F[s]
  BY RoundMathAssumption DEF Slots
<1>2. MAX_INVESTORS \in Nat /\ m \in 1 .. MAX_INVESTORS /\ f[m] \in Int
  BY RoundMathAssumption DEF Slots
<1> HIDE DEF F, G
<1>3. Sum(F, MAX_INVESTORS) \in Nat
  BY <1>1, <1>2, SumNat
<1>4. Sum(G, MAX_INVESTORS) = Sum(F, MAX_INVESTORS) + f[m]
  <2>1. PICK d \in Int : d = f[m]
    BY <1>2
  <2>2. \A s \in 1 .. MAX_INVESTORS : /\ F[s] \in Int
                                      /\ G[s] = IF s = m THEN F[s] + d ELSE F[s]
    BY <1>1, <2>1
  <2> QED BY <1>2, <2>1, <2>2, SumUpdate
<1>5. Sum(F, MAX_INVESTORS) =< Sum(f, MAX_INVESTORS)
  BY <1>1, <1>2, SumMonotone
<1> QED BY <1>3, <1>4, <1>5 DEF SumOver, F, G

LEMMA TotalEnds ==
  ASSUME NEW f
  PROVE  SumOver({j \in Slots : j < 1}, f) = 0
<1> DEFINE F == [s \in Slots |-> IF s \in {j \in Slots : j < 1} THEN f[s] ELSE 0]
<1>1. \A s \in 1 .. MAX_INVESTORS : F[s] = 0
  BY RoundMathAssumption DEF Slots
<1> HIDE DEF F
<1>2. Sum(F, MAX_INVESTORS) = 0
  BY <1>1, SumZeros, RoundMathAssumption
<1> QED BY <1>2 DEF SumOver, F

\* An amount divided pro rata to the weights w, each part rounded down: the parts
\* are no more than the amount, and less than one unit per part is left.
LEMMA PartsFit ==
  ASSUME NEW w, \A j \in Slots : w[j] \in Nat,
         Sum(w, MAX_INVESTORS) > 0, NEW amount \in Nat,
         NEW q, \A j \in Slots : q[j] = (amount * w[j]) \div Sum(w, MAX_INVESTORS)
  PROVE  /\ \A j \in Slots : q[j] \in Nat /\ (w[j] = 0 => q[j] = 0)
         /\ Sum(q, MAX_INVESTORS) \in Nat
         /\ amount - Sum(q, MAX_INVESTORS) \in 0 .. (Cardinality({j \in Slots : w[j] > 0}) - 1)
<1> DEFINE V == Sum(w, MAX_INVESTORS)
           P == {j \in Slots : w[j] > 0}
           inv == [s \in Slots |->
                     [usdc_deposited |-> 0, usdc_locked_current_round |-> 0,
                      usdc_committed |-> 0, waln_purchased_total |-> 0,
                      aat_volume |-> w[s]]]
           f == [s \in Slots |-> IF s \in P THEN Volumes(inv)[s] ELSE 0]
<1>1. PoolOfNats(inv)
  BY DEF PoolOfNats
<1>2. MAX_INVESTORS \in Nat /\ Slots = 1 .. MAX_INVESTORS /\ P \in SUBSET Slots
  BY RoundMathAssumption DEF Slots
<1>3. V \in Nat /\ V > 0
  BY <1>2, SumNat
<1>4. \A s \in 1 .. MAX_INVESTORS : f[s] = w[s]
  BY <1>2 DEF Volumes
<1>5. SumOver(P, Volumes(inv)) = V
  <2> HIDE DEF f, inv, P
  <2>1. Sum(f, MAX_INVESTORS) = Sum(w, MAX_INVESTORS)
    BY <1>2, <1>4, SumEqual
  <2> QED BY <2>1 DEF SumOver, f
<1>6. \A s \in Slots : inv[s].aat_volume = w[s]
  OBVIOUS
<1>7. ASSUME NEW j \in Slots
      PROVE  q[j] \in Nat /\ (w[j] = 0 => q[j] = 0)
  <2>1. amount * w[j] \in Nat /\ (w[j] = 0 => amount * w[j] = 0) /\ 0 \div V = 0
    BY <1>3
  <2> HIDE DEF V
  <2> QED BY <1>3, <2>1, DivNat DEF V
<1> HIDE DEF inv, V
<1>8. \A s \in 1 .. MAX_INVESTORS : q[s] = SharesIn(inv, P, amount)[s]
  <2> SUFFICES ASSUME NEW s \in Slots PROVE q[s] = SharesIn(inv, P, amount)[s]
    BY <1>2
  <2>1. s \in P => SharesIn(inv, P, amount)[s] = (amount * w[s]) \div V
    BY <1>5, <1>6 DEF SharesIn, required_lock
  <2>2. s \notin P => SharesIn(inv, P, amount)[s] = 0 /\ w[s] = 0
    BY DEF SharesIn
  <2> HIDE DEF P
  <2> QED BY <1>7, <2>1, <2>2 DEF V
<1> HIDE DEF P
<1>9. Sum(q, MAX_INVESTORS) = Sum(SharesIn(inv, P, amount), MAX_INVESTORS)
  BY <1>2, <1>8, SumEqual
<1>10. /\ Sum(q, MAX_INVESTORS) \in Nat
       /\ amount - Sum(q, MAX_INVESTORS) \in 0 .. (Cardinality(P) - 1)
  BY <1>1, <1>2, <1>3, <1>5, <1>9, ShareSums
<1> QED BY <1>7, <1>10 DEF P

LEMMA DivBelow ==
  ASSUME NEW a \in Nat, NEW b \in Nat, b > 0, NEW c \in Nat
  PROVE  /\ a < b * c => a \div b < c
         /\ a =< b * c => a \div b =< c
<1> DEFINE q == a \div b
<1>1. q \in Nat /\ b * q =< a
  BY DivNat, DivBounds
<1> HIDE DEF q
<1>2. ASSUME q > c PROVE b * q > b * c
  <2>1. PICK y \in Nat : q = c + 1 + y
    BY <1>1, <1>2, q - c - 1 \in Nat
  <2>2. b * (c + 1 + y) = b * c + b + b * y
    OBVIOUS
  <2>3. b * y \in Nat /\ b * c \in Nat
    OBVIOUS
  <2> QED BY <2>1, <2>2, <2>3
<1>3. b * q \in Nat /\ b * c \in Nat
  BY <1>1
<1>4. a =< b * c => q =< c
  BY <1>1, <1>2, <1>3
<1>5. ASSUME a < b * c PROVE q < c
  <2>1. q # c
    BY <1>1, <1>3, <1>5
  <2> QED BY <1>1, <1>3, <1>4, <1>5, <2>1
<1> QED BY <1>4, <1>5 DEF q

\* What a forced close charges before the remainder is within the locks, and there
\* are enough participants to charge the remainder to, one unit each.
LEMMA SpentFits ==
  ASSUME NEW inv, PoolOfNats(inv), NEW paid \in Nat,
         Sum(Locks(inv), MAX_INVESTORS) > 0, paid =< Sum(Locks(inv), MAX_INVESTORS)
  PROVE  LET base == base_usdc_spent(inv, paid)
             more == {s \in Slots : base[s] < inv[s].usdc_locked_current_round}
         IN  /\ \A s \in Slots : /\ base[s] \in Nat
                                 /\ base[s] =< inv[s].usdc_locked_current_round
             /\ Sum(base, MAX_INVESTORS) \in Nat
             /\ paid - Sum(base, MAX_INVESTORS) \in 0 .. Cardinality(more)
<1> DEFINE base == base_usdc_spent(inv, paid)
           more == {s \in Slots : base[s] < inv[s].usdc_locked_current_round}
           w == Locks(inv)
           L == Sum(w, MAX_INVESTORS)
           P == {j \in Slots : w[j] > 0}
<1>1. MAX_INVESTORS \in Nat /\ Slots = 1 .. MAX_INVESTORS
  BY RoundMathAssumption DEF Slots
<1>2. \A s \in Slots : w[s] \in Nat /\ w[s] = inv[s].usdc_locked_current_round
  BY DEF Locks, PoolOfNats
<1>3. \A s \in Slots : base[s] = (paid * w[s]) \div L
  BY DEF base_usdc_spent, Locks
<1> HIDE DEF base, w
<1>4. L \in Nat /\ L > 0
  BY <1>1, <1>2, SumNat DEF w
<1>5. /\ \A s \in Slots : base[s] \in Nat
      /\ Sum(base, MAX_INVESTORS) \in Nat
      /\ paid - Sum(base, MAX_INVESTORS) \in 0 .. (Cardinality(P) - 1)
  BY <1>2, <1>3, PartsFit DEF w
<1> HIDE DEF L
<1>6. paid =< L
  BY DEF L, w
<1>7. ASSUME NEW s \in Slots
      PROVE  /\ base[s] =< w[s]
             /\ paid < L /\ w[s] > 0 => base[s] < w[s]
             /\ paid = L => base[s] = w[s]
  <2>1. PICK y \in Nat : L = paid + y
    BY <1>4, <1>6, L - paid \in Nat
  <2>2. (paid + y) * w[s] = paid * w[s] + y * w[s]
    BY <1>2
  <2>3. paid * w[s] \in Nat /\ y * w[s] \in Nat /\ L * w[s] \in Nat
    BY <1>2, <1>4
  <2>4. paid * w[s] =< L * w[s]
    BY <2>1, <2>2, <2>3
  <2>5. base[s] =< w[s]
    BY <1>2, <1>3, <1>4, <2>3, <2>4, DivBelow
  <2>6. ASSUME y > 0, w[s] > 0 PROVE base[s] < w[s]
    <3>1. y * w[s] > 0
      BY <1>2, <2>6
    <3>2. paid * w[s] < L * w[s]
      BY <2>1, <2>2, <2>3, <3>1
    <3> QED BY <1>2, <1>3, <1>4, <2>3, <3>2, DivBelow
  <2>7. ASSUME paid = L PROVE base[s] = w[s]
    <3>1. w[s] =< (paid * w[s]) \div L
      BY <1>2, <1>4, <2>3, <2>7, DivLargest
    <3> QED BY <1>2, <1>3, <1>5, <2>5, <3>1
  <2> QED BY <2>1, <2>5, <2>6, <2>7
<1>8. CASE paid < L
  <2>1. more = P
    BY <1>2, <1>5, <1>7, <1>8
  <2>2. Cardinality(P) \in Nat
    BY <1>1, CountEnds
  <2> HIDE DEF more, P
  <2> QED BY <1>2, <1>5, <1>7, <2>1, <2>2 DEF base, more
<1>9. CASE paid = L
  <2>1. Sum(base, MAX_INVESTORS) = Sum(w, MAX_INVESTORS)
    BY <1>1, <1>7, <1>9, SumEqual
  <2>2. paid - Sum(base, MAX_INVESTORS) = 0
    BY <1>4, <1>9, <2>1 DEF L
  <2>3. more \in SUBSET Slots
    OBVIOUS
  <2>4. Cardinality(more) \in Nat
    <3> HIDE DEF more
    <3> QED BY <2>3, CountEnds
  <2> HIDE DEF more
  <2> QED BY <1>2, <1>5, <1>7, <2>2, <2>4 DEF base, more
<1> QED BY <1>4, <1>6, <1>8, <1>9

\* The selection has reached the participants when a turn drops nobody.
LEMMA TurnsStay ==
  ASSUME NEW inv, NEW cnt, NEW cap, NEW g, NEW n \in Nat, IsTurns(inv, cnt, cap, g, n),
         NEW m \in Nat, m =< n, Affording(inv, g[m], cap) = g[m]
  PROVE  g[n] = g[m]
<1> DEFINE Bad == {k \in Nat : m =< k /\ k =< n /\ g[k] # g[m]}
<1> SUFFICES ASSUME Bad # {}
             PROVE  FALSE
  OBVIOUS
<1>1. PICK k \in Bad : \A y \in Bad : k =< y
  BY NatMin
<1>2. k # m /\ k > 0
  BY <1>1
<1>3. k - 1 \in Nat /\ m =< k - 1 /\ k - 1 =< n /\ k - 1 \notin Bad
  BY <1>1, <1>2
<1>4. g[k - 1] = g[m]
  BY <1>3
<1>5. g[k] = Affording(inv, g[k - 1], cap)
  BY <1>1, <1>2 DEF IsTurns
<1> QED BY <1>1, <1>4, <1>5

LEMMA TurnsFixed ==
  ASSUME NEW inv, NEW cnt, NEW cap, NEW g, NEW n \in Nat, IsTurns(inv, cnt, cap, g, n),
         Affording(inv, g[n], cap) = g[n]
  PROVE  g[n] = Participants(inv, cnt, cap)
<1>1. PICK h : /\ IsTurns(inv, cnt, cap, h, MAX_INVESTORS)
               /\ Participants(inv, cnt, cap) = h[MAX_INVESTORS]
  BY ParticipantsTurn
<1>2. MAX_INVESTORS \in Nat
  BY RoundMathAssumption
<1>3. CASE n =< MAX_INVESTORS
  <2>1. g[n] = h[n]
    BY <1>1, <1>2, <1>3, TurnsUnique
  <2>2. h[MAX_INVESTORS] = h[n]
    BY <1>1, <1>2, <1>3, <2>1, TurnsStay
  <2> QED BY <1>1, <2>1, <2>2
<1>4. CASE n > MAX_INVESTORS
  <2>1. MAX_INVESTORS =< n
    BY <1>2, <1>4
  <2>2. g[MAX_INVESTORS] = h[MAX_INVESTORS]
    BY <1>1, <1>2, <2>1, TurnsUnique
  <2>3. Affording(inv, g[MAX_INVESTORS], cap) = g[MAX_INVESTORS]
    BY <1>1, <2>2, ParticipantsFixed
  <2>4. g[n] = g[MAX_INVESTORS]
    BY <1>2, <2>1, <2>3, TurnsStay
  <2> QED BY <1>1, <2>2, <2>4
<1> QED BY <1>2, <1>3, <1>4

LEMMA DivAntitone ==
  ASSUME NEW a \in Nat, NEW b \in Nat, b > 0, NEW c \in Nat, b =< c
  PROVE  a \div c =< a \div b
<1> DEFINE q == a \div c
<1>1. q \in Nat /\ c * q =< a
  BY DivNat, DivBounds
<1> HIDE DEF q
<1>2. PICK y \in Nat : c = b + y
  BY c - b \in Nat
<1>3. (b + y) * q = b * q + y * q
  BY <1>1
<1>4. b * q \in Nat /\ y * q \in Nat
  BY <1>1
<1>5. b * q =< a
  BY <1>1, <1>2, <1>3, <1>4
<1> QED BY <1>1, <1>5, DivLargest DEF q

\* A share is larger in a smaller group.
LEMMA ShareGrows ==
  ASSUME NEW inv, PoolOfNats(inv), NEW X \in SUBSET Slots, NEW S \in SUBSET X,
         NEW cap \in Nat, NEW s \in S, \A j \in X : inv[j].aat_volume > 0
  PROVE  /\ SumOver(S, Volumes(inv)) > 0 /\ SumOver(X, Volumes(inv)) > 0
         /\ required_lock(inv, X, cap, s) \in Nat /\ required_lock(inv, S, cap, s) \in Nat
         /\ required_lock(inv, X, cap, s) =< required_lock(inv, S, cap, s)
<1> DEFINE f == [j \in Slots |-> IF j \in S THEN Volumes(inv)[j] ELSE 0]
           g == [j \in Slots |-> IF j \in X THEN Volumes(inv)[j] ELSE 0]
<1>1. MAX_INVESTORS \in Nat /\ Slots = 1 .. MAX_INVESTORS /\ s \in Slots
  BY RoundMathAssumption DEF Slots
<1>2. \A j \in Slots : /\ Volumes(inv)[j] \in Nat /\ Volumes(inv)[j] = inv[j].aat_volume
                       /\ inv[j].aat_volume \in Nat
  BY DEF Volumes, PoolOfNats
<1>3. \A j \in 1 .. MAX_INVESTORS : /\ f[j] \in Nat /\ g[j] \in Nat /\ f[j] =< g[j]
                                    /\ f[j] \in Int /\ g[j] \in Int
  BY <1>1, <1>2
<1>4. f[s] > 0 /\ f[s] \in Nat
  BY <1>1, <1>2
<1> HIDE DEF f, g
<1>5. Sum(f, MAX_INVESTORS) =< Sum(g, MAX_INVESTORS) /\ f[s] =< Sum(f, MAX_INVESTORS)
  BY <1>1, <1>3, SumMonotone, SumTerm
<1>6. Sum(f, MAX_INVESTORS) \in Nat /\ Sum(g, MAX_INVESTORS) \in Nat
  BY <1>1, <1>3, SumNat
<1>7. /\ SumOver(S, Volumes(inv)) \in Nat /\ SumOver(X, Volumes(inv)) \in Nat
      /\ SumOver(S, Volumes(inv)) > 0
      /\ SumOver(S, Volumes(inv)) =< SumOver(X, Volumes(inv))
  BY <1>4, <1>5, <1>6 DEF SumOver, f, g
<1>8. cap * inv[s].aat_volume \in Nat
  BY <1>1, <1>2
<1> QED BY <1>7, <1>8, DivNat, DivAntitone DEF required_lock
=============================================================================
