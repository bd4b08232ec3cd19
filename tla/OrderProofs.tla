---------------------------- MODULE OrderProofs ----------------------------
(***************************************************************************)
(* What InOrder contains, for every order and every set: induction over    *)
(* the natural numbers, with a set for the induction hypothesis, gives the *)
(* recursive function a value, and that value its content.                 *)
(***************************************************************************)
EXTENDS FixedOrder, SequencesExt, FiniteSetTheorems, TLAPS

\* Every nonempty set of natural numbers has a least element.
LEMMA LeastElement ==
  ASSUME NEW T, T \subseteq Nat, T # {}
  PROVE  \E x \in T : \A y \in T : x <= y
<1>1. PICK x \in T : \A y \in T : ~(<<y, x>> \in OpToRel(<, Nat))
  BY WFMin, NatLessThanWellFounded
<1>2. \A y \in T : ~(y < x)
  BY <1>1, Zenon DEF OpToRel
<1>3. \A y \in T : x <= y
  BY <1>2
<1> QED BY <1>3

\* Induction for a set.
LEMMA InductionSet ==
  ASSUME NEW T, 0 \in T, \A n \in Nat : n \in T => n + 1 \in T
  PROVE  Nat \subseteq T
<1> SUFFICES ASSUME Nat \ T # {} PROVE FALSE
  OBVIOUS
<1> DEFINE U == Nat \ T
<1>1. U \subseteq Nat /\ U # {}
  OBVIOUS
<1> HIDE DEF U
<1>2. PICK x \in U : \A y \in U : x <= y
  BY <1>1, LeastElement
<1> USE DEF U
<1>3. x # 0 /\ x - 1 \in Nat /\ x - 1 \in T
  BY <1>2
<1> QED BY <1>2, <1>3

\* One step of the pass.
PassTo(F, order, S, n) ==
  IF n = 0 THEN <<>>
  ELSE IF order[n] \in S THEN Append(F[n - 1], order[n])
  ELSE F[n - 1]

\* A function that satisfies the recursion exists up to every bound.
LEMMA PassExists ==
  ASSUME NEW order, NEW S
  PROVE  \A n \in Nat : \E F : F = [i \in 0..n |-> PassTo(F, order, S, i)]
<1> DEFINE T == {n \in Nat : \E F : F = [i \in 0..n |-> PassTo(F, order, S, i)]}
<1>1. 0 \in T
  <2> DEFINE F == [i \in 0..0 |-> <<>>]
  <2>1. F = [i \in 0..0 |-> PassTo(F, order, S, i)]
    BY DEF PassTo
  <2> QED BY <2>1
<1>2. ASSUME NEW n \in Nat, n \in T PROVE n + 1 \in T
  <2>1. PICK F : F = [i \in 0..n |-> PassTo(F, order, S, i)]
    BY <1>2
  <2> DEFINE G == [i \in 0..n + 1 |-> IF i = n + 1 THEN PassTo(F, order, S, n + 1) ELSE F[i]]
  <2>2. ASSUME NEW i \in 0..n + 1 PROVE G[i] = PassTo(G, order, S, i)
    <3>1. i # 0 => i - 1 \in 0..n + 1 /\ i - 1 # n + 1 /\ G[i - 1] = F[i - 1]
      OBVIOUS
    <3>2. PassTo(F, order, S, i) = PassTo(G, order, S, i)
      BY <3>1 DEF PassTo
    <3>3. i # n + 1 => i \in 0..n /\ F[i] = PassTo(F, order, S, i)
      BY <2>1
    <3> QED BY <3>2, <3>3
  <2>3. G = [i \in 0..n + 1 |-> G[i]]
    OBVIOUS
  <2>4. G = [i \in 0..n + 1 |-> PassTo(G, order, S, i)]
    BY <2>2, <2>3
  <2>5. n + 1 \in Nat
    OBVIOUS
  <2> HIDE DEF G
  <2> QED BY <2>4, <2>5
<1> HIDE DEF T
<1>3. Nat \subseteq T
  BY <1>1, <1>2, InductionSet
<1> QED BY <1>3 DEF T

\* InOrder is the last value of a function that satisfies its recursion.
LEMMA InOrderUnfolds ==
  ASSUME NEW E, NEW order \in Seq(E), NEW S
  PROVE  \E F : /\ InOrder(order, S) = F[Len(order)]
                /\ F[0] = <<>>
                /\ \A n \in 1..Len(order) :
                     F[n] = IF order[n] \in S THEN Append(F[n - 1], order[n]) ELSE F[n - 1]
<1> DEFINE F == CHOOSE F : F = [i \in 0..Len(order) |-> PassTo(F, order, S, i)]
<1>1. Len(order) \in Nat
  OBVIOUS
<1>2. F = [i \in 0..Len(order) |-> PassTo(F, order, S, i)]
  BY <1>1, PassExists
<1>3. InOrder(order, S) = F[Len(order)]
  BY DEF InOrder, PassTo
<1> HIDE DEF F
<1>4. F[0] = PassTo(F, order, S, 0)
  BY <1>1, <1>2
<1>5. \A n \in 1..Len(order) : F[n] = PassTo(F, order, S, n)
  BY <1>1, <1>2
<1> QED BY <1>3, <1>4, <1>5 DEF PassTo

\* The sequence s selects the members of S among the first n of the order: position k of s
\* is taken from position p[k], all such positions are taken, and p increases.
Selects(s, p, order, S, n) ==
  /\ p \in [1..Len(s) -> 1..n]
  /\ \A k \in 1..Len(s) : s[k] = order[p[k]] /\ order[p[k]] \in S
  /\ \A j, k \in 1..Len(s) : j < k => p[j] < p[k]
  /\ \A i \in 1..n : order[i] \in S => \E k \in 1..Len(s) : p[k] = i

LEMMA SelectsMore ==
  ASSUME NEW E, NEW order \in Seq(E), NEW S, NEW n \in Nat, n + 1 <= Len(order),
         NEW s \in Seq(E), NEW p, Selects(s, p, order, S, n),
         NEW t, t = IF order[n + 1] \in S THEN Append(s, order[n + 1]) ELSE s
  PROVE  t \in Seq(E) /\ \E q : Selects(t, q, order, S, n + 1)
<1>1. Len(s) \in Nat /\ n + 1 \in 1..Len(order) /\ order[n + 1] \in E
  OBVIOUS
<1>2. CASE order[n + 1] \notin S
  <2>1. p \in [1..Len(s) -> 1..n + 1]
    BY <1>1 DEF Selects
  <2>2. \A i \in 1..n + 1 : order[i] \in S => i \in 1..n
    BY <1>2
  <2>3. Selects(t, p, order, S, n + 1)
    BY <1>2, <2>1, <2>2 DEF Selects
  <2> QED BY <1>2, <2>3
<1>3. CASE order[n + 1] \in S
  <2> DEFINE m == Len(s)
             q == [k \in 1..m + 1 |-> IF k = m + 1 THEN n + 1 ELSE p[k]]
  <2>1. t = Append(s, order[n + 1])
    BY <1>3
  <2>2. /\ t \in Seq(E) /\ Len(t) = m + 1
        /\ t[m + 1] = order[n + 1]
        /\ \A k \in 1..m : t[k] = s[k]
    BY <1>1, <2>1
  <2>3. \A k \in 1..m : p[k] \in 1..n
    BY DEF Selects
  <2>4. q \in [1..m + 1 -> 1..n + 1]
    BY <1>1, <2>3
  <2>5. /\ q[m + 1] = n + 1
        /\ \A k \in 1..m : q[k] = p[k]
        /\ \A k \in 1..m + 1 : k # m + 1 => k \in 1..m
    BY <1>1
  <2> HIDE DEF q
  <2>6. \A k \in 1..m + 1 : t[k] = order[q[k]] /\ order[q[k]] \in S
    BY <1>3, <2>2, <2>5 DEF Selects
  <2>7. \A j, k \in 1..m + 1 : j < k => q[j] < q[k]
    <3> SUFFICES ASSUME NEW j \in 1..m + 1, NEW k \in 1..m + 1, j < k PROVE q[j] < q[k]
      OBVIOUS
    <3>1. j \in 1..m
      BY <1>1
    <3>2. CASE k = m + 1
      BY <2>3, <2>5, <3>1, <3>2
    <3>3. CASE k # m + 1
      BY <2>5, <3>1, <3>3 DEF Selects
    <3> QED BY <3>2, <3>3
  <2>8. ASSUME NEW i \in 1..n + 1, order[i] \in S PROVE \E k \in 1..m + 1 : q[k] = i
    <3>1. CASE i = n + 1
      BY <1>1, <2>5, <3>1
    <3>2. CASE i # n + 1
      <4>1. i \in 1..n
        BY <3>2
      <4>2. PICK k \in 1..m : p[k] = i
        BY <2>8, <4>1 DEF Selects
      <4> QED BY <1>1, <2>5, <4>2
    <3> QED BY <3>1, <3>2
  <2>9. Selects(t, q, order, S, n + 1)
    BY <2>2, <2>4, <2>6, <2>7, <2>8 DEF Selects
  <2> QED BY <2>2, <2>9
<1> QED BY <1>2, <1>3

\* One pass over a fixed order, as validate_assessment_request makes over its fields and
\* _review_markdown over the stored findings and records, selects exactly the members of S,
\* each position once and in the order.
THEOREM InOrderSelects ==
  ASSUME NEW E, NEW order \in Seq(E), NEW S
  PROVE  /\ InOrder(order, S) \in Seq(E)
         /\ \E p : Selects(InOrder(order, S), p, order, S, Len(order))
<1>1. PICK F : /\ InOrder(order, S) = F[Len(order)]
               /\ F[0] = <<>>
               /\ \A n \in 1..Len(order) :
                    F[n] = IF order[n] \in S THEN Append(F[n - 1], order[n]) ELSE F[n - 1]
  BY InOrderUnfolds
<1> DEFINE Good(n) == F[n] \in Seq(E) /\ \E p : Selects(F[n], p, order, S, n)
           T == {n \in Nat : n <= Len(order) => Good(n)}
<1>2. 0 \in T
  <2> DEFINE none == [k \in 1..0 |-> 0]
  <2>1. F[0] \in Seq(E) /\ Len(F[0]) = 0
    BY <1>1
  <2>2. Selects(F[0], none, order, S, 0)
    BY <2>1 DEF Selects
  <2>3. Good(0)
    BY <2>1, <2>2
  <2> HIDE DEF Good
  <2> QED BY <2>3
<1>3. ASSUME NEW n \in Nat, n \in T PROVE n + 1 \in T
  <2> SUFFICES ASSUME n + 1 <= Len(order) PROVE Good(n + 1)
    OBVIOUS
  <2>1. Good(n)
    BY <1>3
  <2>2. PICK p : Selects(F[n], p, order, S, n)
    BY <2>1
  <2>3. F[n + 1] = IF order[n + 1] \in S THEN Append(F[n], order[n + 1]) ELSE F[n]
    <3>1. n + 1 \in 1..Len(order) /\ (n + 1) - 1 = n
      OBVIOUS
    <3> QED BY <1>1, <3>1
  <2> QED BY <2>1, <2>2, <2>3, SelectsMore
<1> HIDE DEF T
<1>4. Len(order) \in T
  BY <1>2, <1>3, InductionSet
<1>5. Good(Len(order))
  BY <1>4 DEF T
<1> QED BY <1>1, <1>5

\* What is selected is what was asked for, and it is empty exactly if nothing was.
LEMMA InOrderContents ==
  ASSUME NEW E, NEW order \in Seq(E), NEW S, S \subseteq ToSet(order)
  PROVE  /\ ToSet(InOrder(order, S)) = S
         /\ InOrder(order, S) = <<>> <=> S = {}
<1> DEFINE s == InOrder(order, S)
<1>1. s \in Seq(E) /\ \E p : Selects(s, p, order, S, Len(order))
  BY InOrderSelects
<1>2. PICK p : Selects(s, p, order, S, Len(order))
  BY <1>1
<1>3. DOMAIN s = 1..Len(s) /\ Len(s) \in Nat /\ DOMAIN order = 1..Len(order)
  BY <1>1
<1> HIDE DEF s
<1>4. ASSUME NEW k \in 1..Len(s) PROVE s[k] \in S
  BY <1>2 DEF Selects
<1>5. ASSUME NEW x \in S PROVE \E k \in 1..Len(s) : s[k] = x
  <2>1. PICK i \in 1..Len(order) : order[i] = x
    BY <1>3 DEF ToSet
  <2>2. PICK k \in 1..Len(s) : p[k] = i
    BY <1>2, <2>1 DEF Selects
  <2> QED BY <1>2, <2>1, <2>2 DEF Selects
<1>6. ToSet(s) = S
  BY <1>3, <1>4, <1>5 DEF ToSet
<1>7. s = <<>> <=> S = {}
  BY <1>1, <1>3, <1>6 DEF ToSet
<1> QED BY <1>6, <1>7 DEF s

\* An order without repetition gives a list without repetition.
LEMMA InOrderLength ==
  ASSUME NEW E, NEW order \in Seq(E), NEW S, S \subseteq ToSet(order),
         \A i, j \in 1..Len(order) : order[i] = order[j] => i = j
  PROVE  Cardinality(S) = Len(InOrder(order, S))
<1> DEFINE s == InOrder(order, S)
<1>1. s \in Seq(E) /\ \E p : Selects(s, p, order, S, Len(order))
  BY InOrderSelects
<1>2. PICK p : Selects(s, p, order, S, Len(order))
  BY <1>1
<1>3. ToSet(s) = S /\ DOMAIN s = 1..Len(s) /\ Len(s) \in Nat
  BY <1>1, InOrderContents
<1> HIDE DEF s
<1>4. s = [k \in 1..Len(s) |-> s[k]] /\ \A k \in 1..Len(s) : s[k] \in S
  BY <1>1, <1>3 DEF ToSet
<1>5. s \in [1..Len(s) -> S]
  BY <1>4
<1>6. \A x \in S : \E k \in 1..Len(s) : s[k] = x
  BY <1>3 DEF ToSet
<1>7. ASSUME NEW j \in 1..Len(s), NEW k \in 1..Len(s), s[j] = s[k] PROVE j = k
  <2>1. p[j] \in 1..Len(order) /\ p[k] \in 1..Len(order) /\ p[j] = p[k]
    BY <1>2, <1>7 DEF Selects
  <2>2. ~(p[j] < p[k]) /\ ~(p[k] < p[j])
    BY <2>1
  <2> QED BY <1>2, <1>3, <2>2 DEF Selects
<1>8. ExistsBijection(1..Len(s), S)
  BY <1>5, <1>6, <1>7 DEF ExistsBijection, Bijection, Injection, Surjection, IsInjective
<1>9. Cardinality(S) = Len(s)
  BY <1>3, <1>8, FS_CountingElements
<1> QED BY <1>9 DEF s
=============================================================================
