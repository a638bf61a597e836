----------------------------- MODULE Recursion -----------------------------
(***************************************************************************)
(* What the proofs about recursive functions, folds and least elements     *)
(* need: the least number of a set of numbers, induction over numbers, a   *)
(* recursion theorem, and the steps a fold goes through.                   *)
(*                                                                         *)
(* The recursive functions of the specifications are chosen:               *)
(* f[x \in D] == e(f, x) is some f with f = [x \in D |-> e(f, x)], if      *)
(* there is one.  Everything is stated with sets and functions, an         *)
(* induction by the set it is about and a recursion by the function G that *)
(* takes f to [x \in D |-> e(f, x)], so that each fact is first-order.  So *)
(* is a fold by the function Step that takes what there is so far, and the *)
(* place of the next element, to what there is then.                       *)
(***************************************************************************)
EXTENDS Naturals, FiniteSets, FiniteSetsExt, FiniteSetTheorems, WellFoundedInduction, TLAPS

\* A set of numbers has a least one: of the intervals that end in them, one is
\* minimal.
LEMMA LeastNumber ==
  ASSUME NEW S \in SUBSET Nat, S # {}
  PROVE  \E n \in S : \A m \in S : n <= m
<1> DEFINE Upto == {1 .. n : n \in S}
           R == StrictSubsetOrdering(Nat)
<1>1. Upto \subseteq FiniteSubsetsOf(Nat) /\ Upto # {}
  <2>1. \A n \in S : IsFiniteSet(1 .. n) /\ 1 .. n \subseteq Nat
    BY FS_Interval
  <2> QED
    BY <2>1 DEF FiniteSubsetsOf
<1>2. IsWellFoundedOn(R, FiniteSubsetsOf(Nat))
  BY FS_StrictSubsetOrderingWellFounded
<1> HIDE DEF R
<1>3. \E x \in Upto : \A y \in Upto : ~ (<<y, x>> \in R)
  <2> HIDE DEF Upto
  <2> QED
    BY <1>1, <1>2, WFMin, Zenon
<1>4. PICK n \in S : \A m \in S : ~ (<<1 .. m, 1 .. n>> \in R)
  BY <1>3
<1>5. ASSUME NEW m \in S PROVE n <= m
  <2>0. n \in Nat /\ m \in Nat
    OBVIOUS
  <2> SUFFICES ASSUME m < n PROVE FALSE
    BY <2>0
  <2>1. 1 .. m \subseteq 1 .. n /\ n \in 1 .. n /\ n \notin 1 .. m
    BY <2>0
  <2>2. 1 .. m # 1 .. n
    BY <2>1
  <2>3. 1 .. m \in SUBSET Nat /\ 1 .. n \in SUBSET Nat
    BY <2>0
  <2>4. <<1 .. m, 1 .. n>> \in R
    BY <2>1, <2>2, <2>3 DEF R, StrictSubsetOrdering
  <2> QED
    BY <1>4, <2>4
<1> QED
  BY <1>5

\* A bounded set of numbers has a greatest one.
LEMMA GreatestNumber ==
  ASSUME NEW k \in Nat, NEW S \in SUBSET (0 .. k), S # {}
  PROVE  \E n \in S : \A m \in S : m <= n
<1> DEFINE T == {k - n : n \in S}
<1>1. T \in SUBSET Nat /\ T # {}
  <2>1. \A n \in S : k - n \in Nat
    OBVIOUS
  <2> QED
    BY <2>1
<1>2. PICK t \in T : \A u \in T : t <= u
  <2> HIDE DEF T
  <2> QED
    BY <1>1, LeastNumber
<1>3. PICK n \in S : t = k - n
  OBVIOUS
<1>4. ASSUME NEW m \in S PROVE m <= n
  BY <1>2, <1>3
<1> QED
  BY <1>4

\* Induction over numbers: the set of those it holds of.
LEMMA EveryNumber ==
  ASSUME NEW S, 0 \in S, \A n \in Nat : n \in S => n + 1 \in S
  PROVE  \A n \in Nat : n \in S
<1> DEFINE B == Nat \ S
<1> SUFFICES ASSUME B # {} PROVE FALSE
  OBVIOUS
<1>1. PICK n \in B : \A m \in B : n <= m
  BY LeastNumber
<1>2. n # 0 /\ n \in Nat
  OBVIOUS
<1>3. n - 1 \in Nat /\ n - 1 \notin B
  BY <1>1, <1>2
<1> QED
  BY <1>2, <1>3

\* Numbers are well founded by their order.
Below == {p \in Nat \X Nat : p[1] < p[2]}

LEMMA BelowIsWellFounded == IsWellFoundedOn(Below, Nat)
<1>1. ASSUME NEW T \in SUBSET Nat, T # {}
      PROVE  \E x \in T : \A y \in T : ~ (<<y, x>> \in Below)
  <2>1. PICK n \in T : \A m \in T : n <= m
    BY <1>1, LeastNumber
  <2> QED
    BY <2>1 DEF Below
<1> QED
  BY <1>1, MinWF

-----------------------------------------------------------------------------
(* The recursion theorem *)

\* f follows G at x and at everything before x.
Follows(f, x, D, R, G) == \A y \in D : y = x \/ <<y, x>> \in R => f[y] = G[f][y]

IsTransitive(R, D) == \A x, y, z \in D : <<x, y>> \in R /\ <<y, z>> \in R => <<x, z>> \in R

\* What G makes of f at x depends only on f before x.
LooksBack(G, D, R, V) ==
  /\ G \in [[D -> V] -> [D -> V]]
  /\ \A f, g \in [D -> V] : \A x \in D :
       (\A y \in D : <<y, x>> \in R => f[y] = g[y]) => G[f][x] = G[g][x]

Fixpoints(G, D, V) == {f \in [D -> V] : f = G[f]}

\* There is an f that G makes of itself.
LEMMA RecursionExists ==
  ASSUME NEW D, NEW V, V # {}, NEW R, IsWellFoundedOn(R, D), IsTransitive(R, D),
         NEW G, LooksBack(G, D, R, V)
  PROVE  Fixpoints(G, D, V) # {}
<1> USE DEF IsTransitive, LooksBack, Fixpoints
<1> DEFINE A(f, x) == Follows(f, x, D, R, G)
<1>1. ASSUME NEW B \in SUBSET D, B # {}
      PROVE  \E x \in B : \A y \in B : ~ (<<y, x>> \in R)
  BY <1>1, WFMin, SMT
<1>2. \A x \in D : ~ (<<x, x>> \in R)
  <2> TAKE x \in D
  <2>1. {x} \in SUBSET D /\ {x} # {}
    OBVIOUS
  <2> QED
    BY <1>1, <2>1
<1>3. \A f \in [D -> V], x, y \in D : A(f, x) /\ <<y, x>> \in R => A(f, y)
  BY DEF Follows
<1>4. \A x \in D, f, g \in [D -> V] : A(f, x) /\ A(g, x) => f[x] = g[x]
  <2> DEFINE B == {x \in D : \E f, g \in [D -> V] : A(f, x) /\ A(g, x) /\ f[x] # g[x]}
  <2> SUFFICES ASSUME B # {} PROVE FALSE
    OBVIOUS
  <2>1. PICK x \in B : \A y \in B : ~ (<<y, x>> \in R)
    BY <1>1
  <2>2. PICK f \in [D -> V], g \in [D -> V] : A(f, x) /\ A(g, x) /\ f[x] # g[x]
    OBVIOUS
  <2>3. \A y \in D : <<y, x>> \in R => f[y] = g[y]
    BY <1>3, <2>1, <2>2
  <2>4. f[x] = G[f][x] /\ g[x] = G[g][x]
    BY <2>2 DEF Follows
  <2>5. x \in D
    OBVIOUS
  <2>6. G[f][x] = G[g][x]
    BY <2>3, <2>5
  <2> QED
    BY <2>2, <2>4, <2>6
<1> DEFINE Has(y) == \E f \in [D -> V] : A(f, y)
           F == [y \in D |-> IF Has(y) THEN (CHOOSE f \in [D -> V] : A(f, y))[y] ELSE CHOOSE v \in V : TRUE]
<1>5. F \in [D -> V]
  OBVIOUS
<1>6. \A y \in D, h \in [D -> V] : A(h, y) => F[y] = h[y]
  <2> SUFFICES ASSUME NEW y \in D, NEW h \in [D -> V], A(h, y) PROVE F[y] = h[y]
    OBVIOUS
  <2>1. PICK g \in [D -> V] : A(g, y) /\ F[y] = g[y]
    OBVIOUS
  <2> QED
    BY <1>4, <2>1
<1> HIDE DEF F
<1>7. \A y \in D : Has(y) => F[y] = G[F][y]
  <2> SUFFICES ASSUME NEW y \in D, Has(y) PROVE F[y] = G[F][y]
    OBVIOUS
  <2>1. PICK h \in [D -> V] : A(h, y)
    OBVIOUS
  <2>2. \A z \in D : <<z, y>> \in R => F[z] = h[z]
    BY <1>3, <1>6, <2>1
  <2>3. F[y] = h[y] /\ h[y] = G[h][y]
    BY <1>6, <2>1 DEF Follows
  <2> QED
    BY <1>5, <2>2, <2>3
<1>8. \A x \in D : Has(x)
  <2> DEFINE B == {x \in D : ~Has(x)}
  <2> SUFFICES ASSUME B # {} PROVE FALSE
    OBVIOUS
  <2>1. PICK x \in B : \A y \in B : ~ (<<y, x>> \in R)
    BY <1>1
  <2>2. \A y \in D : <<y, x>> \in R => F[y] = G[F][y] /\ y # x
    BY <1>2, <1>7, <2>1
  <2> DEFINE f == [F EXCEPT ![x] = G[F][x]]
  <2>3. f \in [D -> V] /\ f[x] = G[F][x] /\ \A y \in D : y # x => f[y] = F[y]
    BY <1>5
  <2> HIDE DEF f
  <2>4. \A y \in D : y = x \/ <<y, x>> \in R => \A z \in D : <<z, y>> \in R => f[z] = F[z]
    BY <1>2, <2>3
  <2>5. \A y \in D : y = x \/ <<y, x>> \in R => G[f][y] = G[F][y]
    BY <1>5, <2>3, <2>4
  <2>6. A(f, x)
    BY <2>2, <2>3, <2>5 DEF Follows
  <2> QED
    BY <2>3, <2>6
<1>9. F = G[F]
  BY <1>5, <1>7, <1>8
<1> QED
  BY <1>5, <1>9
-----------------------------------------------------------------------------
(* Folds: FoldLeft goes through the sets of places, from the whole back to *)
(* the empty one by their greatest element                                 *)

\* A set of places of a list has a greatest one; without it, a smaller set is left.
LEMMA GreatestPlace ==
  ASSUME NEW n \in Nat, NEW s \in SUBSET (1 .. n), s # {}
  PROVE  Max(s) \in s /\ s \ {Max(s)} \in SUBSET (1 .. n)
<1>1. s \in SUBSET (0 .. n)
  OBVIOUS
<1>2. \E m \in s : \A k \in s : m >= k
  BY <1>1, GreatestNumber
<1> QED
  BY <1>2 DEF Max

LEMMA LastPlace ==
  ASSUME NEW n \in Nat, NEW i \in 1 .. n
  PROVE  Max(1 .. i) = i /\ (1 .. i) \ {Max(1 .. i)} = 1 .. i - 1
<1>1. Max(1 .. i) \in 1 .. i /\ \A k \in 1 .. i : Max(1 .. i) >= k
  <2>1. \E m \in 1 .. i : \A k \in 1 .. i : m >= k
    OBVIOUS
  <2> QED
    BY <2>1 DEF Max
<1>2. Max(1 .. i) = i
  BY <1>1
<1> QED
  BY <1>2

\* h is the fold of a step, over the sets of places: for all of them, or as far as
\* it stays in V.
IsFold(h, n, b, Step) ==
  h = [s \in SUBSET (1 .. n) |-> IF s = {} THEN b ELSE Step[<<h[s \ {Max(s)}], Max(s)>>]]

FoldsIn(h, n, V, b, Step) ==
  /\ h[{}] = b
  /\ \A s \in SUBSET (1 .. n) :
       s # {} /\ h[s \ {Max(s)}] \in V => h[s] = Step[<<h[s \ {Max(s)}], Max(s)>>]

\* f takes a step at a time, and ends as the fold does.
Takes(f, n, b, Step) == f[0] = b /\ \A i \in 1 .. n : f[i] = Step[<<f[i - 1], i>>]
EndsAs(f, n, h) == f[n] = h[1 .. n]

LEMMA FoldExists ==
  ASSUME NEW n \in Nat, NEW V, NEW b \in V, NEW Step \in [V \X (1 .. n) -> V]
  PROVE  \E h \in [SUBSET (1 .. n) -> V] : IsFold(h, n, b, Step)
<1> DEFINE D == SUBSET (1 .. n)
           R == StrictSubsetOrdering(1 .. n)
           Made(h) == [s \in D |-> IF s = {} THEN b ELSE Step[<<h[s \ {Max(s)}], Max(s)>>]]
           G == [h \in [D -> V] |-> Made(h)]
<1>1. D = FiniteSubsetsOf(1 .. n)
  <2>1. IsFiniteSet(1 .. n)
    BY FS_Interval
  <2>2. \A s \in D : IsFiniteSet(s)
    BY <2>1, FS_Subset
  <2> QED
    BY <2>2 DEF FiniteSubsetsOf
<1>2. IsWellFoundedOn(R, D)
  BY <1>1, FS_StrictSubsetOrderingWellFounded
<1>3. IsTransitive(R, D)
  BY DEF IsTransitive, StrictSubsetOrdering
<1>4. G \in [[D -> V] -> [D -> V]]
  <2> SUFFICES ASSUME NEW h \in [D -> V], NEW s \in D, s # {}
               PROVE  Step[<<h[s \ {Max(s)}], Max(s)>>] \in V
    OBVIOUS
  <2>1. Max(s) \in 1 .. n /\ s \ {Max(s)} \in D
    BY GreatestPlace
  <2> QED
    BY <2>1
<1>5. \A h \in [D -> V], x \in D : G[h][x] = IF x = {} THEN b ELSE Step[<<h[x \ {Max(x)}], Max(x)>>]
  OBVIOUS
<1>6. ASSUME NEW f \in [D -> V], NEW g \in [D -> V], NEW x \in D,
             \A y \in D : <<y, x>> \in R => f[y] = g[y]
      PROVE  G[f][x] = G[g][x]
  <2>1. CASE x = {}
    BY <1>5, <2>1
  <2>2. CASE x # {}
    <3>1. Max(x) \in x /\ x \ {Max(x)} \in D
      BY <2>2, GreatestPlace
    <3>2. <<x \ {Max(x)}, x>> \in R
      BY <3>1 DEF StrictSubsetOrdering
    <3>3. f[x \ {Max(x)}] = g[x \ {Max(x)}]
      BY <1>6, <3>1, <3>2
    <3>4. G[f][x] = Step[<<f[x \ {Max(x)}], Max(x)>>] /\ G[g][x] = Step[<<g[x \ {Max(x)}], Max(x)>>]
      BY <2>2, <1>5
    <3> QED
      BY <3>3, <3>4, Zenon
  <2> QED
    BY <2>1, <2>2
<1>7. LooksBack(G, D, R, V)
  BY <1>4, <1>6 DEF LooksBack
<1> HIDE DEF R, G
<1>8. Fixpoints(G, D, V) # {}
  BY <1>2, <1>3, <1>7, RecursionExists
<1>9. PICK h \in [D -> V] : h = G[h]
  BY <1>8 DEF Fixpoints
<1>10. h = Made(h)
  BY <1>9 DEF G
<1> QED
  BY <1>10 DEF IsFold

\* Such a function takes the steps in turn.
LEMMA FoldSteps ==
  ASSUME NEW n \in Nat, NEW V, NEW b \in V, NEW Step \in [V \X (1 .. n) -> V],
         NEW h, FoldsIn(h, n, V, b, Step)
  PROVE  \E f \in [0 .. n -> V] : Takes(f, n, b, Step) /\ EndsAs(f, n, h)
<1> USE DEF FoldsIn
<1> DEFINE f == [i \in 0 .. n |-> h[1 .. i]]
<1>1. f[0] = b
  <2>1. 1 .. 0 = {}
    OBVIOUS
  <2> QED
    BY <2>1
<1>2. \A i \in 1 .. n : f[i - 1] \in V => f[i] = Step[<<f[i - 1], i>>]
  <2> SUFFICES ASSUME NEW i \in 1 .. n, f[i - 1] \in V
               PROVE  f[i] = Step[<<f[i - 1], i>>]
    OBVIOUS
  <2>1. 1 .. i \in SUBSET (1 .. n) /\ i - 1 \in 0 .. n /\ i \in 0 .. n /\ i \in 1 .. i
    OBVIOUS
  <2>2. Max(1 .. i) = i /\ (1 .. i) \ {Max(1 .. i)} = 1 .. i - 1
    BY LastPlace
  <2>3. h[1 .. i - 1] \in V
    BY <2>1
  <2>4. h[1 .. i] = Step[<<h[1 .. i - 1], i>>]
    BY <2>1, <2>2, <2>3
  <2> QED
    BY <2>1, <2>4
<1>3. f[n] = h[1 .. n]
  OBVIOUS
<1> HIDE DEF f
<1>4. \A i \in Nat : i \in {k \in Nat : k <= n => f[k] \in V}
  <2> DEFINE S == {k \in Nat : k <= n => f[k] \in V}
  <2>1. 0 \in S
    BY <1>1
  <2>2. ASSUME NEW i \in Nat, i \in S PROVE i + 1 \in S
    <3> SUFFICES ASSUME i + 1 <= n PROVE f[i + 1] \in V
      OBVIOUS
    <3>1. i + 1 \in 1 .. n /\ i + 1 - 1 = i /\ f[i] \in V
      BY <2>2
    <3>2. f[i + 1] = Step[<<f[i], i + 1>>]
      BY <1>2, <3>1
    <3> QED
      BY <3>1, <3>2
  <2> HIDE DEF S
  <2>3. \A i \in Nat : i \in S
    BY <2>1, <2>2, EveryNumber
  <2> QED
    BY <2>3 DEF S
<1>5. \A i \in 0 .. n : f[i] \in V
  BY <1>4
<1>6. f \in [0 .. n -> V]
  BY <1>5 DEF f
<1> QED
  BY <1>1, <1>2, <1>3, <1>5, <1>6 DEF Takes, EndsAs
=============================================================================
