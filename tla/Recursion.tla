------------------------------ MODULE Recursion ------------------------------
(***************************************************************************)
(* Induction over data.  A recursive function of TLA+ is a CHOOSE: nothing *)
(* is known of it until a function that satisfies its equation is known to *)
(* exist.  The lemmas say so of the recursions over a bounded interval     *)
(* that the modules use, and give induction with a set of numbers in place *)
(* of a predicate, so that a proof can cite them.                          *)
(***************************************************************************)
EXTENDS Naturals, Sequences, WellFoundedInduction, TLAPS

\* A set of natural numbers has a least member.
LEMMA LeastNatural ==
    ASSUME NEW S \in SUBSET Nat, S # {}
    PROVE  \E n \in S : \A m \in S : n <= m
<1> DEFINE R == OpToRel(<, Nat)
<1>1. IsWellFoundedOn(R, Nat)
  BY NatLessThanWellFounded
<1>2. \A m, n \in Nat : m < n => <<m, n>> \in R
  BY DEF OpToRel
<1> HIDE DEF R
<1>3. \E n \in S : \A m \in S : ~ (<<m, n>> \in R)
  BY <1>1, WFMin
<1>4. \E n \in S : \A m \in S : ~ (m < n)
  BY <1>2, <1>3, Zenon
<1> QED
  BY <1>4

\* Induction over the natural numbers.
LEMMA SetInduction ==
    ASSUME NEW S \in SUBSET Nat, 0 \in S, \A n \in S : n + 1 \in S
    PROVE  S = Nat
<1> SUFFICES ASSUME Nat \ S # {} PROVE FALSE
  OBVIOUS
<1>1. PICK n \in Nat \ S : \A m \in Nat \ S : n <= m
  BY LeastNatural
<1>2. n # 0 /\ n - 1 \in Nat /\ n - 1 \notin Nat \ S
  BY <1>1
<1> QED
  BY <1>2

\* Induction up to a bound.
LEMMA BoundedInduction ==
    ASSUME NEW N \in Nat, NEW S, 0 \in S,
           \A n \in 1 .. N : n - 1 \in S => n \in S
    PROVE  \A n \in 0 .. N : n \in S
<1> DEFINE U == { n \in Nat : n <= N => n \in S }
<1>1. 0 \in U
  OBVIOUS
<1>2. ASSUME NEW n \in U
      PROVE  n + 1 \in U
  <2>1. CASE n + 1 <= N
    <3>1. n + 1 \in 1 .. N /\ (n + 1) - 1 \in S
      BY <2>1
    <3> QED
      BY <3>1
  <2> QED
    BY <2>1
<1>3. U \in SUBSET Nat
  OBVIOUS
<1>4. U = Nat
  <2> HIDE DEF U
  <2> QED
    BY <1>1, <1>2, <1>3, SetInduction
<1> QED
  BY <1>4

\* A recursive definition over 0 .. N: step n makes a value of the one
\* before.
Steps(V, N) == [1 .. N -> [V -> V]]

FollowsSteps(f, V, N, first, step) ==
    /\ f \in [0 .. N -> V]
    /\ f[0] = first
    /\ \A n \in 1 .. N : f[n] = step[n][f[n - 1]]

\* There is a function that satisfies it.
LEMMA RecursiveFunctionExists ==
    ASSUME NEW V, NEW N \in Nat, NEW first \in V, NEW step \in Steps(V, N)
    PROVE  \E f : FollowsSteps(f, V, N, first, step)
<1> DEFINE Good(n, f) == f[0] = first /\ \A i \in 1 .. n : f[i] = step[i][f[i - 1]]
           S == { n \in 0 .. N : \E f \in [0 .. n -> V] : Good(n, f) }
<1>0. step \in [1 .. N -> [V -> V]]
  BY DEF Steps
<1>1. 0 \in S
  <2> DEFINE g == [i \in 0 .. 0 |-> first]
  <2>1. g \in [0 .. 0 -> V] /\ Good(0, g)
    OBVIOUS
  <2> HIDE DEF g, Good
  <2> QED
    BY <2>1
<1>2. ASSUME NEW n \in 1 .. N, n - 1 \in S
      PROVE  n \in S
  <2>1. PICK f \in [0 .. n - 1 -> V] : Good(n - 1, f)
    BY <1>2
  <2> DEFINE g == [i \in 0 .. n |-> IF i = n THEN step[n][f[n - 1]] ELSE f[i]]
  <2>2. n - 1 \in 0 .. n - 1 /\ f[n - 1] \in V /\ step[n] \in [V -> V]
    BY <1>0
  <2>3. g \in [0 .. n -> V]
    BY <2>2
  <2>4. g[0] = first
    BY <2>1
  <2>5. ASSUME NEW i \in 1 .. n
        PROVE  g[i] = step[i][g[i - 1]]
    <3>1. CASE i = n
      BY <2>2, <3>1
    <3>2. CASE i # n
      <4>1. i \in 1 .. n - 1 /\ i - 1 \in 0 .. n /\ i - 1 # n /\ i \in 0 .. n
        BY <3>2
      <4> QED
        BY <2>1, <3>2, <4>1
    <3> QED
      BY <3>1, <3>2
  <2> HIDE DEF g
  <2>6. Good(n, g)
    BY <2>4, <2>5
  <2> HIDE DEF Good
  <2> QED
    BY <2>3, <2>6
<1> HIDE DEF S
<1>3. \A n \in 0 .. N : n \in S
  BY <1>1, <1>2, BoundedInduction
<1>4. N \in S
  BY <1>3
<1> QED
  BY <1>4 DEF S, FollowsSteps

\* Induction over the size of things.
LEMMA SizeInduction ==
    ASSUME NEW T, NEW size \in [T -> Nat], NEW S,
           \A x \in T : (\A t \in T : size[t] < size[x] => t \in S) => x \in S
    PROVE  T \subseteq S
<1> DEFINE Sizes == { k \in Nat : \E t \in T : size[t] = k /\ t \notin S }
<1> SUFFICES ASSUME NEW y \in T, y \notin S PROVE FALSE
  OBVIOUS
<1>1. Sizes \in SUBSET Nat /\ size[y] \in Sizes
  OBVIOUS
<1>2. PICK m \in Sizes : \A k \in Sizes : m <= k
  <2> HIDE DEF Sizes
  <2> QED
    BY <1>1, LeastNatural
<1>3. PICK x \in T : size[x] = m /\ x \notin S
  BY <1>2
<1>4. PICK t \in T : size[t] < size[x] /\ t \notin S
  BY <1>3
<1>5. size[t] \in Sizes
  BY <1>4
<1>6. m <= size[t] /\ size[t] \in Nat /\ m \in Nat
  BY <1>2, <1>5
<1> QED
  BY <1>3, <1>4, <1>6

\* G makes of a function another one, whose value at x needs only what the
\* first one has at smaller places.
Descends(G, T, V, size) ==
    /\ V # {}
    /\ size \in [T -> Nat]
    /\ G \in [[T -> V] -> [T -> V]]
    /\ \A f, g \in [T -> V], x \in T :
         (\A t \in T : size[t] < size[x] => f[t] = g[t]) => G[f][x] = G[g][x]

\* Then some function is what G makes of it.
LEMMA RecursionExists ==
    ASSUME NEW T, NEW V, NEW size, NEW G, Descends(G, T, V, size)
    PROVE  \E f \in [T -> V] : f = G[f]
<1>0. V # {} /\ size \in [T -> Nat] /\ G \in [[T -> V] -> [T -> V]]
  BY DEF Descends
<1> USE <1>0
<1> DEFINE F == [T -> V]
           Good(n, f) == \A t \in T : size[t] < n => f[t] = G[f][t]
           S == { n \in Nat : \E f \in F : Good(n, f) }
<1>1. ASSUME NEW n \in Nat, NEW f \in F, NEW g \in F, Good(n, f), Good(n, g)
      PROVE  \A t \in T : size[t] < n => f[t] = g[t]
  <2> DEFINE Same == { t \in T : size[t] < n => f[t] = g[t] }
  <2>1. ASSUME NEW x \in T, \A t \in T : size[t] < size[x] => t \in Same
        PROVE  x \in Same
    <3> SUFFICES ASSUME size[x] < n PROVE f[x] = g[x]
      OBVIOUS
    <3>1. \A t \in T : size[t] < size[x] => f[t] = g[t]
      <4>1. \A t \in T : size[t] < size[x] => size[t] < n
        <5>1. \A t \in T : size[t] \in Nat
          OBVIOUS
        <5> QED
          BY <5>1
      <4> QED
        BY <2>1, <4>1
    <3>2. G[f][x] = G[g][x]
      BY <3>1 DEF Descends
    <3> QED
      BY <1>1, <3>2
  <2> HIDE DEF Same
  <2>2. T \subseteq Same
    BY <2>1, SizeInduction
  <2> QED
    BY <2>2 DEF Same
<1>2. 0 \in S
  <2>1. PICK v \in V : TRUE
    OBVIOUS
  <2>2. [t \in T |-> v] \in F
    OBVIOUS
  <2>3. \A f : Good(0, f)
    OBVIOUS
  <2> HIDE DEF F, Good
  <2> QED
    BY <2>2, <2>3
<1>3. ASSUME NEW n \in S PROVE n + 1 \in S
  <2>1. PICK f \in F : Good(n, f)
    BY <1>3
  <2>2. G[f] \in F
    OBVIOUS
  <2>3. ASSUME NEW x \in T, size[x] < n + 1
        PROVE  G[f][x] = G[G[f]][x]
    <3>1. \A t \in T : size[t] < size[x] => f[t] = G[f][t]
      BY <2>1, <2>3
    <3> QED
      BY <2>2, <3>1 DEF Descends
  <2> QED
    BY <2>2, <2>3
<1>4. S = Nat
  <2>1. S \in SUBSET Nat
    OBVIOUS
  <2> HIDE DEF S
  <2> QED
    BY <1>2, <1>3, <2>1, SetInduction
<1> DEFINE Upto(n) == CHOOSE f \in F : Good(n, f)
           h == [t \in T |-> Upto(size[t] + 1)[t]]
<1>5. \A n \in Nat : Upto(n) \in F /\ Good(n, Upto(n))
  <2> SUFFICES ASSUME NEW n \in Nat PROVE Upto(n) \in F /\ Good(n, Upto(n))
    OBVIOUS
  <2>1. \E f \in F : Good(n, f)
    BY <1>4
  <2> HIDE DEF F, Good
  <2> QED
    BY <2>1
<1>6. h \in F
  <2>1. \A t \in T : size[t] + 1 \in Nat
    OBVIOUS
  <2>2. \A t \in T : Upto(size[t] + 1) \in [T -> V]
    <3> HIDE DEF Good, Upto
    <3> QED
      BY <1>5, <2>1
  <2> HIDE DEF Upto
  <2> QED
    BY <2>2
<1>7. ASSUME NEW x \in T PROVE h[x] = G[h][x]
  <2> DEFINE f == Upto(size[x] + 1)
  <2>1. f \in F /\ Good(size[x] + 1, f)
    <3>1. size[x] + 1 \in Nat
      OBVIOUS
    <3> HIDE DEF F, Good, Upto
    <3> QED
      BY <1>5, <3>1
  <2>2. ASSUME NEW t \in T, size[t] <= size[x] PROVE h[t] = f[t]
    <3>1. size[t] + 1 \in Nat /\ size[t] < size[t] + 1 /\ size[x] \in Nat
      OBVIOUS
    <3>2. Good(size[t] + 1, f)
      BY <2>1, <2>2, <3>1
    <3> HIDE DEF f
    <3>3. Upto(size[t] + 1)[t] = f[t]
      <4>1. Upto(size[t] + 1) \in F /\ Good(size[t] + 1, Upto(size[t] + 1))
        BY <1>5, <3>1
      <4> HIDE DEF Upto
      <4> QED
        BY <1>1, <2>1, <3>1, <3>2, <4>1
    <3> QED
      BY <3>3
  <2> HIDE DEF f, h
  <2>3. G[h][x] = G[f][x]
    <3>1. \A t \in T : size[t] < size[x] => h[t] = f[t]
      BY <2>2
    <3> QED
      BY <1>6, <2>1, <3>1 DEF Descends
  <2>4. f[x] = G[f][x] /\ h[x] = f[x]
    BY <2>1, <2>2
  <2> QED
    BY <2>3, <2>4
<1>8. h = G[h]
  <2>1. h \in [T -> V] /\ G[h] \in [T -> V]
    BY <1>6
  <2> HIDE DEF h
  <2> QED
    BY <1>7, <2>1
<1> QED
  BY <1>6, <1>8

==============================================================================
