------------------------------ MODULE Recursion ------------------------------
(***************************************************************************)
(* Induction over the natural numbers and over finite sets, and the        *)
(* existence of functions defined by recursion over either, of folds over  *)
(* a sequence and of recursion that moves up its places, stated for sets   *)
(* and functions instead of predicates and operators.                      *)
(***************************************************************************)
EXTENDS Integers, FiniteSetsExt, FiniteSetTheorems, TLAPS

\* A set of numbers that is not empty has a least element.
LEMMA LeastElement ==
  ASSUME NEW T \in SUBSET Nat, T # {}
  PROVE  \E n \in T : \A m \in T : n <= m
<1>1. PICK n \in T : \A m \in T : ~ (<<m, n>> \in OpToRel(<, Nat))
  BY NatLessThanWellFounded, WFMin
<1>2. \A m \in T : ~ (m < n)
  BY <1>1 DEF OpToRel
<1> QED
  BY <1>2

\* Induction over numbers.
LEMMA Induction ==
  ASSUME NEW S, 0 \in S, \A n \in Nat : n \in S => n + 1 \in S
  PROVE  Nat \subseteq S
<1> SUFFICES ASSUME Nat \ S # {} PROVE FALSE
  OBVIOUS
<1>1. PICK n \in Nat \ S : \A m \in Nat \ S : n <= m
  BY LeastElement
<1>2. n # 0
  OBVIOUS
<1>3. n - 1 \in Nat /\ ~ (n <= n - 1)
  BY <1>2
<1>4. n - 1 \in S
  BY <1>1, <1>3
<1>5. n - 1 + 1 \in S /\ n - 1 + 1 = n
  BY <1>3, <1>4
<1> QED
  BY <1>5

\* A set of numbers up to n that is not empty has a greatest element.
LEMMA GreatestElement ==
  ASSUME NEW n \in Nat, NEW T \in SUBSET (0 .. n), T # {}
  PROVE  \E x \in T : \A y \in T : x >= y
<1> DEFINE D == {n - t : t \in T}
<1>1. D \in SUBSET Nat /\ D # {}
  <2>1. \A t \in T : n - t \in Nat
    OBVIOUS
  <2> QED
    BY <2>1
<1>2. PICK d \in D : \A e \in D : d <= e
  BY <1>1, LeastElement
<1>3. PICK x \in T : d = n - x
  BY <1>2
<1>4. ASSUME NEW y \in T PROVE x >= y
  <2>1. n - y \in D
    OBVIOUS
  <2>2. n - x <= n - y
    BY <1>2, <1>3, <2>1
  <2> QED
    BY <2>2
<1> QED
  BY <1>4

\* What a recursion over numbers does with n and the value at n.
NatSteps(V) == [Nat \X V -> V]

\* g is defined by its first value and F.
NatRecursive(g, first, F) ==
  g[0] = first /\ \A n \in Nat : g[n + 1] = F[<<n, g[n]>>]

\* A function of numbers may be defined from its value at 0 and, at n + 1, from
\* n and its value at n.
LEMMA NatRecursion ==
  ASSUME NEW V, NEW v0 \in V, NEW F \in NatSteps(V)
  PROVE  \E g \in [Nat -> V] : NatRecursive(g, v0, F)
<1> USE DEF NatSteps
<1> DEFINE Part(n) == {h \in [0 .. n -> V] :
                         h[0] = v0 /\ \A m \in 0 .. n - 1 : h[m + 1] = F[<<m, h[m]>>]}
<1>1. \A n \in Nat : Part(n) # {}
  <2> DEFINE S == {n \in Nat : Part(n) # {}}
  <2>1. 0 \in S
    <3>1. [m \in 0 .. 0 |-> v0] \in Part(0)
      OBVIOUS
    <3> QED
      BY <3>1
  <2>2. ASSUME NEW n \in Nat, n \in S PROVE n + 1 \in S
    <3>1. PICK h \in Part(n) : TRUE
      BY <2>2
    <3> DEFINE j == [m \in 0 .. n + 1 |-> IF m = n + 1 THEN F[<<n, h[n]>>] ELSE h[m]]
    <3>2. /\ h \in [0 .. n -> V] /\ h[0] = v0
          /\ \A m \in 0 .. n - 1 : h[m + 1] = F[<<m, h[m]>>]
      BY <3>1
    <3>3. \A m \in 0 .. n : j[m] = h[m] /\ h[m] \in V
      BY <3>2
    <3>4. j[n + 1] = F[<<n, h[n]>>] /\ F[<<n, h[n]>>] \in V
      BY <3>3
    <3>5. j \in [0 .. n + 1 -> V]
      BY <3>3, <3>4
    <3>6. ASSUME NEW m \in 0 .. n + 1 - 1 PROVE j[m + 1] = F[<<m, j[m]>>]
      <4>1. CASE m = n
        <5>1. j[n] = h[n] /\ n \in 0 .. n
          BY <3>3
        <5> HIDE DEF j
        <5> QED
          BY <3>4, <4>1, <5>1
      <4>2. CASE m # n
        <5>1. m \in 0 .. n - 1 /\ m + 1 \in 0 .. n
          BY <4>2
        <5> HIDE DEF j
        <5> QED
          BY <3>2, <3>3, <5>1
      <4> QED
        BY <4>1, <4>2
    <3>7. j[0] = v0
      BY <3>2, <3>3
    <3> HIDE DEF j
    <3>8. j \in Part(n + 1)
      BY <3>5, <3>6, <3>7
    <3> QED
      BY <3>8
  <2> HIDE DEF S
  <2>3. Nat \subseteq S
    BY <2>1, <2>2, Induction
  <2> QED
    BY <2>3 DEF S
<1> HIDE DEF Part
<1>2. \A m \in Nat : \A n, k \in Nat : \A h \in Part(n), j \in Part(k) :
        m <= n /\ m <= k => h[m] = j[m]
  <2> DEFINE S == {m \in Nat : \A n, k \in Nat : \A h \in Part(n), j \in Part(k) :
                     m <= n /\ m <= k => h[m] = j[m]}
  <2>1. 0 \in S
    BY DEF Part
  <2>2. ASSUME NEW m \in Nat, m \in S PROVE m + 1 \in S
    <3> SUFFICES ASSUME NEW n \in Nat, NEW k \in Nat, NEW h \in Part(n), NEW j \in Part(k),
                        m + 1 <= n, m + 1 <= k
                 PROVE  h[m + 1] = j[m + 1]
      OBVIOUS
    <3>1. m \in 0 .. n - 1 /\ m \in 0 .. k - 1
      OBVIOUS
    <3>2. h[m] = j[m]
      BY <2>2, <3>1
    <3>3. h[m + 1] = F[<<m, h[m]>>] /\ j[m + 1] = F[<<m, j[m]>>]
      BY <3>1 DEF Part
    <3> QED
      BY <3>2, <3>3
  <2> HIDE DEF S
  <2>3. Nat \subseteq S
    BY <2>1, <2>2, Induction
  <2> QED
    BY <2>3 DEF S
<1> DEFINE Last(n) == (CHOOSE h \in Part(n) : TRUE)[n]
           g == [n \in Nat |-> Last(n)]
<1>3. \A n \in Nat : \E h \in Part(n) : Last(n) = h[n]
  BY <1>1
<1>4. ASSUME NEW n \in Nat PROVE g[n] \in V /\ g[n + 1] = F[<<n, g[n]>>]
  <2>1. PICK h \in Part(n) : Last(n) = h[n]
    BY <1>3
  <2>2. PICK j \in Part(n + 1) : Last(n + 1) = j[n + 1]
    <3>1. n + 1 \in Nat
      OBVIOUS
    <3> HIDE DEF Last
    <3> QED
      BY <1>3, <3>1
  <2>3. h[n] = j[n]
    <3>1. n + 1 \in Nat /\ n <= n /\ n <= n + 1
      OBVIOUS
    <3> QED
      BY <1>2, <3>1
  <2> HIDE DEF Last
  <2>4. g[n] = h[n] /\ g[n + 1] = j[n + 1]
    BY <2>1, <2>2
  <2>5. h[n] \in V /\ j[n + 1] = F[<<n, j[n]>>]
    BY <2>1, <2>2 DEF Part
  <2> QED
    BY <2>3, <2>4, <2>5
<1>5. g[0] = v0
  <2>1. PICK h \in Part(0) : Last(0) = h[0]
    BY <1>3
  <2> QED
    BY <2>1 DEF Part
<1> HIDE DEF Last
<1>6. g \in [Nat -> V]
  BY <1>4
<1> QED
  BY <1>4, <1>5, <1>6 DEF NatRecursive

-----------------------------------------------------------------------------
(* Finite sets whose elements are taken out one by one, C[s] being the one   *)
(* that is taken out of s.                                                   *)

Chooses(C, S) ==
  /\ C \in [(SUBSET S) \ {{}} -> S]
  /\ \A s \in (SUBSET S) \ {{}} : C[s] \in s

\* Induction over the subsets of a finite set.
LEMMA SetInduction ==
  ASSUME NEW S, IsFiniteSet(S), NEW C, Chooses(C, S), NEW G,
         {} \in G, \A s \in (SUBSET S) \ {{}} : s \ {C[s]} \in G => s \in G
  PROVE  SUBSET S \subseteq G
<1> DEFINE N == {n \in Nat : \A s \in SUBSET S : Cardinality(s) = n => s \in G}
<1>1. \A s \in SUBSET S : IsFiniteSet(s) /\ Cardinality(s) \in Nat
  BY FS_Subset, FS_CardinalityType
<1>2. 0 \in N
  BY <1>1, FS_EmptySet
<1>3. ASSUME NEW n \in Nat, n \in N PROVE n + 1 \in N
  <2> SUFFICES ASSUME NEW s \in SUBSET S, Cardinality(s) = n + 1 PROVE s \in G
    OBVIOUS
  <2>1. s # {}
    BY FS_EmptySet
  <2>2. C[s] \in s /\ s \ {C[s]} \in SUBSET S
    BY <2>1 DEF Chooses
  <2>3. Cardinality(s \ {C[s]}) = n
    <3>1. Cardinality(s \ {C[s]}) = Cardinality(s) - 1
      BY <1>1, <2>2, FS_RemoveElement
    <3> QED
      BY <3>1
  <2> QED
    BY <1>3, <2>1, <2>2, <2>3
<1> HIDE DEF N
<1>4. Nat \subseteq N
  BY <1>2, <1>3, Induction
<1> QED
  BY <1>1, <1>4 DEF N

\* What a recursion over the subsets of S does with the element taken out and
\* the value for the rest.
SetSteps(S, V) == [S \X V -> V]

\* g is defined by its value for {}, C and F.
SetRecursive(g, S, C, first, F) ==
  g = [s \in SUBSET S |-> IF s = {} THEN first ELSE F[<<C[s], g[s \ {C[s]}]>>]]

\* A function of the subsets of a finite set may be defined from its value at
\* {} and, at s, from C[s] and its value at s without C[s].
LEMMA SetRecursion ==
  ASSUME NEW S, IsFiniteSet(S), NEW C, Chooses(C, S),
         NEW V, NEW v0 \in V, NEW F \in SetSteps(S, V)
  PROVE  \E g \in [SUBSET S -> V] : SetRecursive(g, S, C, v0, F)
<1> USE DEF SetSteps
<1> DEFINE W == [SUBSET S -> V]
           Step(h) == [s \in SUBSET S |-> IF s = {} THEN v0 ELSE F[<<C[s], h[s \ {C[s]}]>>]]
           Steps == [p \in Nat \X W |-> Step(p[2])]
           first == [s \in SUBSET S |-> v0]
<1>1. \A s \in SUBSET S : IsFiniteSet(s) /\ Cardinality(s) \in Nat
  BY FS_Subset, FS_CardinalityType
<1>2. \A s \in (SUBSET S) \ {{}} : C[s] \in s /\ C[s] \in S /\ s \ {C[s]} \in SUBSET S
  BY DEF Chooses
<1>3. \A h \in W : Step(h) \in W
  BY <1>2
<1>4. first \in W
  OBVIOUS
<1> HIDE DEF W, Step, first
<1>5. Steps \in NatSteps(W)
  BY <1>3 DEF NatSteps
<1>6. PICK a \in [Nat -> W] :
        a[0] = first /\ \A n \in Nat : a[n + 1] = Steps[<<n, a[n]>>]
  <2> HIDE DEF Steps
  <2> QED
    BY <1>4, <1>5, NatRecursion DEF NatRecursive
<1>7. \A n \in Nat : a[n + 1] = Step(a[n])
  BY <1>6
<1> HIDE DEF Steps
<1> DEFINE g == [s \in SUBSET S |-> a[Cardinality(s)][s]]
<1>8. \A n \in Nat : a[n] \in [SUBSET S -> V]
  BY <1>6 DEF W
<1>9. g \in [SUBSET S -> V]
  BY <1>1, <1>8
<1>10. ASSUME NEW s \in SUBSET S
       PROVE  g[s] = IF s = {} THEN v0 ELSE F[<<C[s], g[s \ {C[s]}]>>]
  <2>1. CASE s = {}
    <3>1. Cardinality(s) = 0
      BY <2>1, FS_EmptySet
    <3>2. g[s] = a[0][s]
      BY <3>1
    <3>3. a[0][s] = v0
      BY <1>6 DEF first
    <3> HIDE DEF g
    <3> QED
      BY <2>1, <3>2, <3>3
  <2>2. CASE s # {}
    <3>1. C[s] \in s /\ s \ {C[s]} \in SUBSET S
      BY <1>2, <2>2
    <3>2. PICK n \in Nat : Cardinality(s) = n + 1
      <4>1. Cardinality(s) # 0 /\ Cardinality(s) \in Nat
        BY <1>1, <2>2, FS_EmptySet
      <4> QED
        BY <4>1
    <3>3. Cardinality(s \ {C[s]}) = n
      BY <1>1, <3>1, <3>2, FS_RemoveElement
    <3>4. g[s] = a[n + 1][s] /\ g[s \ {C[s]}] = a[n][s \ {C[s]}]
      BY <3>1, <3>2, <3>3
    <3>5. a[n + 1][s] = F[<<C[s], a[n][s \ {C[s]}]>>]
      BY <1>7, <2>2 DEF Step
    <3> QED
      BY <2>2, <3>4, <3>5
  <2> QED
    BY <2>1, <2>2
<1> HIDE DEF g
<1> DEFINE body(s) == IF s = {} THEN v0 ELSE F[<<C[s], g[s \ {C[s]}]>>]
<1>11. \A s \in SUBSET S : g[s] = body(s)
  BY <1>10
<1>12. g = [s \in SUBSET S |-> IF s = {} THEN v0 ELSE F[<<C[s], g[s \ {C[s]}]>>]]
  <2> HIDE DEF body
  <2>1. g = [s \in SUBSET S |-> body(s)]
    BY <1>9, <1>11
  <2> QED
    BY <2>1 DEF body
<1> QED
  BY <1>9, <1>12 DEF SetRecursive

\* The greatest of a bounded set of places is one of them.
LEMMA MaxOfPlaces ==
  ASSUME NEW n \in Nat, NEW T \in SUBSET (0 .. n), T # {}
  PROVE  Max(T) \in T /\ \A y \in T : Max(T) >= y
<1>1. \E x \in T : \A y \in T : x >= y
  BY GreatestElement
<1> QED
  BY <1>1 DEF Max

\* So is the least of any set of places.
LEMMA MinOfPlaces ==
  ASSUME NEW T \in SUBSET Nat, T # {}
  PROVE  Min(T) \in T /\ \A y \in T : Min(T) <= y
<1>1. \E x \in T : \A y \in T : x <= y
  BY LeastElement
<1> QED
  BY <1>1 DEF Min

-----------------------------------------------------------------------------
(* Folds over a sequence of n elements, which take the last place first.     *)

\* The choice that such a fold makes.
LastPlace(n) == [s \in (SUBSET (1 .. n)) \ {{}} |-> Max(s)]

\* It is one.
LEMMA LastPlaceChooses ==
  ASSUME NEW n \in Nat
  PROVE  /\ Chooses(LastPlace(n), 1 .. n) /\ IsFiniteSet(1 .. n)
         /\ \A s \in (SUBSET (1 .. n)) \ {{}} : Max(s) \in s /\ \A y \in s : Max(s) >= y
<1>1. \A s \in (SUBSET (1 .. n)) \ {{}} : Max(s) \in s /\ \A y \in s : Max(s) >= y
  <2>1. \A s \in SUBSET (1 .. n) : s \in SUBSET (0 .. n)
    OBVIOUS
  <2> QED
    BY <2>1, MaxOfPlaces
<1>2. IsFiniteSet(1 .. n)
  BY FS_Interval
<1>3. Chooses(LastPlace(n), 1 .. n)
  <2> DEFINE S == 1 .. n
  <2>1. \A s \in (SUBSET S) \ {{}} : Max(s) \in s /\ Max(s) \in S
    BY <1>1
  <2> HIDE DEF S
  <2>2. LastPlace(n) = [s \in (SUBSET S) \ {{}} |-> Max(s)]
    BY DEF LastPlace, S
  <2>3. Chooses(LastPlace(n), S)
    BY <2>1, <2>2 DEF Chooses
  <2> QED
    BY <2>3 DEF S
<1> QED
  BY <1>1, <1>2, <1>3

\* The function that a fold is defined by exists.
LEMMA FoldExists ==
  ASSUME NEW n \in Nat, NEW V, NEW v0 \in V, NEW F \in SetSteps(1 .. n, V)
  PROVE  \E h \in [SUBSET (1 .. n) -> V] : SetRecursive(h, 1 .. n, LastPlace(n), v0, F)
BY LastPlaceChooses, SetRecursion

\* The values of a fold: for a set of places, F of the last and of the value
\* for the others.
FoldOf(it, n, V, first, F) ==
  /\ it[{}] = first
  /\ \A s \in (SUBSET (1 .. n)) \ {{}} :
       it[s \ {Max(s)}] \in V => it[s] = F[<<Max(s), it[s \ {Max(s)}]>>]

\* A fold by its steps: g[k] is the value after k elements.
FoldSteps(g, n, first, F) ==
  g[0] = first /\ \A k \in 1 .. n : g[k] = F[<<k, g[k - 1]>>]

\* A fold can be followed step by step.
LEMMA FoldBySteps ==
  ASSUME NEW n \in Nat, NEW V, NEW v0 \in V, NEW F \in SetSteps(1 .. n, V),
         NEW it, FoldOf(it, n, V, v0, F)
  PROVE  \E g \in [0 .. n -> V] : FoldSteps(g, n, v0, F) /\ it[1 .. n] = g[n]
<1> USE DEF SetSteps
<1> DEFINE g == [k \in 0 .. n |-> it[1 .. k]]
<1>1. g[0] = v0
  <2>1. 1 .. 0 = {} /\ 0 \in 0 .. n
    OBVIOUS
  <2> QED
    BY <2>1 DEF FoldOf
<1>0. \A s \in (SUBSET (1 .. n)) \ {{}} : Max(s) \in s /\ \A y \in s : Max(s) >= y
  BY LastPlaceChooses
<1>2. ASSUME NEW k \in 1 .. n PROVE g[k - 1] \in V => g[k] = F[<<k, g[k - 1]>>] /\ g[k] \in V
  <2>1. 1 .. k \in (SUBSET (1 .. n)) \ {{}} /\ k \in 1 .. n /\ k - 1 \in 0 .. n /\ k \in 0 .. n
    OBVIOUS
  <2>2. Max(1 .. k) = k
    <3> DEFINE s == 1 .. k
               x == Max(s)
    <3>1. s \in (SUBSET (1 .. n)) \ {{}} /\ k \in s /\ k \in Nat
      BY <2>1
    <3>2. x \in s /\ x >= k
      <4> HIDE DEF s
      <4> QED
        BY <1>0, <3>1
    <3> HIDE DEF x
    <3>3. x = k
      BY <3>1, <3>2
    <3> QED
      BY <3>3 DEF x
  <2>3. (1 .. k) \ {k} = 1 .. k - 1
    OBVIOUS
  <2>4. it[1 .. k - 1] \in V => it[1 .. k] = F[<<k, it[1 .. k - 1]>>]
    BY <2>1, <2>2, <2>3 DEF FoldOf
  <2> QED
    BY <2>1, <2>4
<1> HIDE DEF g
<1>3. \A k \in 0 .. n : g[k] \in V
  <2> DEFINE S == {k \in Nat : k <= n => g[k] \in V}
  <2>1. 0 \in S
    BY <1>1
  <2>2. ASSUME NEW k \in Nat, k \in S PROVE k + 1 \in S
    <3> SUFFICES ASSUME k + 1 <= n PROVE g[k + 1] \in V
      OBVIOUS
    <3> DEFINE kk == k + 1
    <3>1. kk \in 1 .. n /\ kk - 1 = k /\ g[k] \in V
      BY <2>2
    <3> HIDE DEF kk
    <3>2. g[kk] \in V
      BY <1>2, <3>1
    <3> QED
      BY <3>2 DEF kk
  <2> HIDE DEF S
  <2>3. Nat \subseteq S
    BY <2>1, <2>2, Induction
  <2> QED
    BY <2>3 DEF S
<1>4. \A k \in 1 .. n : g[k] = F[<<k, g[k - 1]>>]
  BY <1>2, <1>3
<1>5. g \in [0 .. n -> V] /\ it[1 .. n] = g[n]
  BY <1>3 DEF g
<1> QED
  BY <1>1, <1>4, <1>5 DEF FoldSteps

-----------------------------------------------------------------------------
(* Recursion that moves up the places 1, 2, ... and stops behind place n.    *)

\* Places in a sequence and behind it.
Places == Nat \ {0}

\* The steps of such a recursion.
UpSteps(V) == [Places \X V -> V]

\* f is base where it stops, and elsewhere defined by its value at next.
UpRecursive(f, Stop, base, next, F) ==
  f = [q \in Places |-> IF q \in Stop THEN base[q] ELSE F[<<q, f[next[q]]>>]]

\* next moves up until it stops.
MovesUp(next, Stop, n) ==
  /\ next \in [Places -> Places]
  /\ \A q \in Places : q > n => q \in Stop
  /\ \A q \in Places \ Stop : next[q] > q

\* A function defined by such a recursion exists.
LEMMA UpRecursion ==
  ASSUME NEW n \in Nat, NEW V, NEW Stop, NEW base \in [Places -> V], NEW next,
         MovesUp(next, Stop, n), NEW F \in UpSteps(V)
  PROVE  \E f \in [Places -> V] : UpRecursive(f, Stop, base, next, F)
<1> USE DEF UpSteps
<1> DEFINE W == [Places -> V]
           Step(h) == [q \in Places |-> IF q \in Stop THEN base[q] ELSE F[<<q, h[next[q]]>>]]
           Steps == [p \in Nat \X W |-> Step(p[2])]
<1>1. \A h \in W : Step(h) \in W
  BY DEF MovesUp
<1>2. base \in W
  OBVIOUS
<1> HIDE DEF W, Step
<1>3. Steps \in NatSteps(W)
  BY <1>1 DEF NatSteps
<1>4. PICK a \in [Nat -> W] : a[0] = base /\ \A k \in Nat : a[k + 1] = Steps[<<k, a[k]>>]
  <2> HIDE DEF Steps
  <2> QED
    BY <1>2, <1>3, NatRecursion DEF NatRecursive
<1>5. \A k \in Nat : a[k + 1] = Step(a[k])
  BY <1>4
<1> HIDE DEF Steps
<1>6. \A k \in Nat : \A q \in Places : q + k > n => a[k + 1][q] = a[k][q]
  <2> DEFINE S == {k \in Nat : \A q \in Places : q + k > n => a[k + 1][q] = a[k][q]}
  <2>1. 0 \in S
    <3>1. ASSUME NEW q \in Places, q + 0 > n PROVE a[0 + 1][q] = a[0][q]
      <4>1. q > n /\ 0 \in Nat
        BY <3>1 DEF Places
      <4>2. a[0 + 1] = Step(a[0]) /\ q \in Stop
        BY <1>5, <4>1 DEF MovesUp
      <4>3. a[0 + 1][q] = base[q]
        BY <4>2 DEF Step
      <4> QED
        BY <1>4, <4>3
    <3> QED
      BY <3>1
  <2>2. ASSUME NEW k \in Nat, k \in S PROVE k + 1 \in S
    <3> SUFFICES ASSUME NEW q \in Places, q + (k + 1) > n PROVE a[k + 1 + 1][q] = a[k + 1][q]
      OBVIOUS
    <3>1. a[k + 1 + 1] = Step(a[k + 1]) /\ a[k + 1] = Step(a[k])
      BY <1>5
    <3>2. CASE q \in Stop
      BY <3>1, <3>2 DEF Step
    <3>3. CASE q \notin Stop
      <4>1. next[q] \in Places /\ next[q] > q
        BY <3>3 DEF MovesUp
      <4>2. next[q] + k > n
        BY <4>1 DEF Places
      <4>3. a[k + 1][next[q]] = a[k][next[q]]
        <5>1. \A p \in Places : p + k > n => a[k + 1][p] = a[k][p]
          BY <2>2
        <5> QED
          BY <4>1, <4>2, <5>1
      <4>4. /\ a[k + 1 + 1][q] = F[<<q, a[k + 1][next[q]]>>]
            /\ a[k + 1][q] = F[<<q, a[k][next[q]]>>]
        BY <3>1, <3>3 DEF Step
      <4> QED
        BY <4>3, <4>4
    <3> QED
      BY <3>2, <3>3
  <2> HIDE DEF S
  <2>3. Nat \subseteq S
    BY <2>1, <2>2, Induction
  <2> QED
    BY <2>3 DEF S
<1> DEFINE f == a[n]
<1>7. f \in W /\ Step(f) = a[n + 1]
  BY <1>4, <1>5
<1>8. Step(f) = f
  <2>1. \A q \in Places : a[n + 1][q] = a[n][q]
    BY <1>6 DEF Places
  <2>2. Step(f) \in [Places -> V] /\ f \in [Places -> V]
    BY <1>1, <1>7 DEF W
  <2> QED
    BY <1>7, <2>1, <2>2
<1> HIDE DEF f
<1>9. f \in [Places -> V] /\ UpRecursive(f, Stop, base, next, F)
  BY <1>7, <1>8 DEF W, Step, UpRecursive
<1> QED
  BY <1>9
=============================================================================
