-------------------------- MODULE CheckTraceProofs --------------------------
(***************************************************************************)
(* The verdict of the checker is right, for histories of any length and    *)
(* any number of threads, for every object and both properties.            *)
(*                                                                         *)
(* The invariant says that the interleavings rejected so far are those of  *)
(* the sequences of threads that come before the present one in the        *)
(* lexicographic order. The sorted sequence is the first of all,           *)
(* next_permutation leaves none out, and one without a rise is the last;   *)
(* and the orders of calls the definition asks about are the interleavings *)
(* of such sequences. The lemmas come first: the place of a number in a    *)
(* set, the interleavings that sequences of threads stand for, the sorted  *)
(* sequence they begin with and std::next_permutation.                     *)
(***************************************************************************)
EXTENDS CheckTrace, FiniteSetTheorems, SequenceTheorems, TLAPS

-----------------------------------------------------------------------------
(* Least and greatest numbers, and how many there are.                     *)

LEMMA Least ==
  ASSUME NEW T, T \subseteq Nat, T # {}
  PROVE  \E x \in T : \A y \in T : x <= y
<1> DEFINE R == {ss \in Nat \X Nat : ss[1] < ss[2]}
<1>1. IsWellFoundedOn(R, Nat)
  BY NatLessThanWellFounded DEF OpToRel
<1>2. \A x, y \in Nat : y < x => <<y, x>> \in R
  OBVIOUS
<1> HIDE DEF R
<1>3. PICK x \in T : \A y \in T : ~ (<<y, x>> \in R)
  BY <1>1, WFMin
<1>4. x \in Nat /\ T \subseteq Nat
  OBVIOUS
<1>5. ASSUME NEW y \in T PROVE x <= y
  <2>1. y \in Nat
    BY <1>4
  <2>2. ~ (y < x)
    BY <1>2, <1>3, <1>4, <2>1, Zenon
  <2>3. QED
    BY <2>1, <2>2, <1>4
<1>6. QED
  BY <1>5

LEMMA Greatest ==
  ASSUME NEW T, IsFiniteSet(T), T \subseteq Nat, T # {}
  PROVE  \E x \in T : \A y \in T : y <= x
<1> DEFINE NoMax(S) == /\ IsFiniteSet(S) /\ S \subseteq Nat /\ S # {}
                       /\ ~ \E x \in S : \A y \in S : y <= x
           Sizes == {n \in Nat : \E S : NoMax(S) /\ Cardinality(S) = n}
<1>1. SUFFICES ASSUME NoMax(T) PROVE FALSE
  OBVIOUS
<1>2. Cardinality(T) \in Sizes /\ Sizes \subseteq Nat
  BY <1>1, FS_CardinalityType
<1>3. PICK n \in Sizes : \A m \in Sizes : n <= m
  BY <1>2, Least
<1>4. PICK S : NoMax(S) /\ Cardinality(S) = n
  OBVIOUS
<1>5. PICK x : x \in S
  BY <1>4
<1>6. IsFiniteSet(S \ {x}) /\ Cardinality(S \ {x}) = n - 1 /\ n \in Nat
  BY <1>4, <1>5, FS_RemoveElement, FS_CardinalityType
<1>7. S \ {x} # {}
  BY <1>4, <1>5
<1>8. ~ NoMax(S \ {x})
  <2>1. SUFFICES ASSUME NoMax(S \ {x}) PROVE FALSE
    OBVIOUS
  <2>2. n - 1 \in Sizes
    BY <1>6, <2>1, FS_CardinalityType
  <2>3. QED
    BY <1>3, <1>6, <2>2
<1>9. PICK m \in S \ {x} : \A y \in S \ {x} : y <= m
  BY <1>4, <1>6, <1>7, <1>8
<1>10. m \in Nat /\ x \in Nat /\ S \subseteq Nat
  BY <1>4, <1>5, <1>9
<1>11. CASE x <= m
  BY <1>4, <1>9, <1>11
<1>12. CASE ~ (x <= m)
  <2>1. m <= x
    BY <1>10, <1>12
  <2>2. ASSUME NEW y \in S PROVE y <= x
    <3>1. y \in Nat
      BY <1>10
    <3>2. CASE y = x
      BY <1>10, <3>2
    <3>3. CASE y # x
      BY <1>9, <1>10, <2>1, <3>1, <3>3
    <3>4. QED
      BY <3>2, <3>3
  <2>3. QED
    BY <1>4, <1>5, <2>2
<1>13. QED
  BY <1>11, <1>12

LEMMA MaxIs ==
  ASSUME NEW T, IsFiniteSet(T), T \subseteq Nat, T # {}
  PROVE  Max(T) \in T /\ \A y \in T : y <= Max(T)
<1>1. PICK x \in T : \A y \in T : y <= x
  BY Greatest
<1>2. \A y \in T : y \in Nat
  OBVIOUS
<1>3. \A y \in T : x >= y
  BY <1>1, <1>2
<1>4. Max(T) \in T /\ \A y \in T : Max(T) >= y
  BY <1>3 DEF Max
<1>5. QED
  BY <1>2, <1>4

LEMMA MinIs ==
  ASSUME NEW T, T \subseteq Nat, T # {}
  PROVE  Min(T) \in T /\ \A y \in T : Min(T) <= y
<1>1. PICK x \in T : \A y \in T : x =< y
  BY Least
<1>2. QED
  BY <1>1 DEF Min

LEMMA MoreIn ==
  ASSUME NEW S, NEW T, IsFiniteSet(S), T \subseteq S
  PROVE  /\ IsFiniteSet(T) /\ Cardinality(T) \in Nat /\ Cardinality(S) \in Nat
         /\ Cardinality(T) <= Cardinality(S)
         /\ T # S => Cardinality(T) < Cardinality(S)
<1>1. IsFiniteSet(T) /\ Cardinality(T) <= Cardinality(S) /\ (Cardinality(S) = Cardinality(T) => S = T)
  BY FS_Subset
<1>2. Cardinality(S) \in Nat /\ Cardinality(T) \in Nat
  BY <1>1, FS_CardinalityType
<1>3. QED
  BY <1>1, <1>2

-----------------------------------------------------------------------------
(* The place of a number in a set of numbers.                              *)

Upto(S, k) == {j \in S : j <= k}
Place(S, k) == Cardinality(Upto(S, k))

LEMMA PlaceType ==
  ASSUME NEW S, IsFiniteSet(S), S \subseteq Nat, NEW k \in S
  PROVE  Place(S, k) \in 1 .. Cardinality(S) /\ Place(S, k) \in Nat /\ Cardinality(S) \in Nat
<1>1. Upto(S, k) \subseteq S /\ Upto(S, k) # {}
  <2>1. k \in Nat
    OBVIOUS
  <2>2. k \in Upto(S, k)
    BY <2>1 DEF Upto
  <2>3. QED
    BY <2>2 DEF Upto
<1>2. IsFiniteSet(Upto(S, k)) /\ Place(S, k) \in Nat /\ Cardinality(S) \in Nat
      /\ Place(S, k) <= Cardinality(S)
  BY <1>1, MoreIn DEF Place
<1>3. Place(S, k) # 0
  BY <1>1, <1>2, FS_EmptySet DEF Place
<1>4. QED
  BY <1>2, <1>3

LEMMA PlaceGrows ==
  ASSUME NEW S, IsFiniteSet(S), S \subseteq Nat, NEW k \in S, NEW m \in S, k < m
  PROVE  Place(S, k) < Place(S, m)
<1>1. \A j \in S : j \in Nat
  OBVIOUS
<1>2. k \in Nat /\ m \in Nat /\ m <= m /\ ~ (m <= k)
  BY <1>1
<1>3. \A j \in S : j <= k => j <= m
  BY <1>1, <1>2
<1>4. Upto(S, k) \subseteq Upto(S, m) /\ m \in Upto(S, m) /\ m \notin Upto(S, k)
      /\ Upto(S, m) \subseteq S
  BY <1>2, <1>3 DEF Upto
<1>5. IsFiniteSet(Upto(S, m)) /\ Upto(S, k) # Upto(S, m)
  BY <1>4, MoreIn
<1>6. QED
  BY <1>4, <1>5, MoreIn DEF Place

LEMMA PlaceIsUnique ==
  ASSUME NEW S, IsFiniteSet(S), S \subseteq Nat, NEW k \in S, NEW m \in S,
         Place(S, k) = Place(S, m)
  PROVE  k = m
<1>1. Place(S, k) \in Nat /\ Place(S, m) \in Nat
  BY PlaceType
<1>2. k \in Nat /\ m \in Nat
  OBVIOUS
<1>3. ASSUME k < m PROVE FALSE
  <2>1. Place(S, k) < Place(S, m)
    BY <1>3, PlaceGrows
  <2>2. QED
    BY <1>1, <2>1
<1>4. ASSUME m < k PROVE FALSE
  <2>1. Place(S, m) < Place(S, k)
    BY <1>4, PlaceGrows
  <2>2. QED
    BY <1>1, <2>1
<1>5. QED
  BY <1>2, <1>3, <1>4

LEMMA PlaceExists ==
  ASSUME NEW S, IsFiniteSet(S), S \subseteq Nat, NEW i \in 1 .. Cardinality(S)
  PROVE  \E k \in S : Place(S, k) = i
<1> DEFINE T == {k \in S : Place(S, k) >= i}
<1>1. Cardinality(S) \in Nat /\ i \in Nat /\ i >= 1 /\ i <= Cardinality(S)
  BY FS_CardinalityType
<1>2. S # {}
  BY <1>1, FS_EmptySet
<1>3. \A j \in S : j \in Nat
  OBVIOUS
<1>4. PICK x \in S : \A y \in S : y <= x
  BY <1>2, Greatest
<1>5. Upto(S, x) = S
  BY <1>4 DEF Upto
<1>6. T \subseteq Nat /\ T # {}
  <2>1. Place(S, x) >= i
    BY <1>1, <1>5 DEF Place
  <2>2. QED
    BY <1>3, <2>1
<1>7. PICK k \in T : \A y \in T : k <= y
  BY <1>6, Least
<1>8. k \in S /\ k \in Nat /\ Place(S, k) >= i /\ Place(S, k) \in Nat
  <2>1. k \in S /\ Place(S, k) >= i
    BY <1>7
  <2>2. QED
    BY <1>3, <2>1, PlaceType
<1>9. CASE Place(S, k) # i
  <2> DEFINE B == {j \in S : j < k}
  <2>1. Upto(S, k) = B \cup {k} /\ k \notin B
    <3>1. \A j \in S : j <= k <=> j < k \/ j = k
      BY <1>3, <1>8
    <3>2. ~ (k < k)
      BY <1>8
    <3>3. QED
      BY <1>8, <3>1, <3>2 DEF Upto
  <2>2. IsFiniteSet(B) /\ Cardinality(B) \in Nat /\ B \subseteq Nat
    BY <1>3, MoreIn
  <2>3. Place(S, k) = Cardinality(B) + 1
    BY <2>1, <2>2, FS_AddElement DEF Place
  <2>4. Cardinality(B) >= i
    BY <1>1, <1>8, <1>9, <2>2, <2>3
  <2>5. B # {}
    BY <1>1, <2>4, FS_EmptySet
  <2>6. PICK m \in B : \A y \in B : y <= m
    BY <2>2, <2>5, Greatest
  <2>7. m \in S /\ m < k /\ m \in Nat
    BY <1>3
  <2>8. Upto(S, m) = B
    <3>1. \A j \in S : j <= m => j < k
      BY <1>3, <1>8, <2>7
    <3>2. QED
      BY <2>6, <3>1 DEF Upto
  <2>9. m \in T
    BY <2>4, <2>7, <2>8 DEF Place
  <2>10. QED
    BY <1>7, <1>8, <2>7, <2>9
<1>10. QED
  BY <1>8, <1>9

LEMMA NthIs ==
  ASSUME NEW S, IsFiniteSet(S), S \subseteq Nat, NEW i \in 1 .. Cardinality(S)
  PROVE  Nth(S, i) \in S /\ Place(S, Nth(S, i)) = i
<1>1. \E k \in S : Place(S, k) = i
  BY PlaceExists
<1>2. QED
  BY <1>1 DEF Nth, Place, Upto

LEMMA NthOfPlace ==
  ASSUME NEW S, IsFiniteSet(S), S \subseteq Nat, NEW k \in S
  PROVE  Nth(S, Place(S, k)) = k
<1>1. Place(S, k) \in 1 .. Cardinality(S)
  BY PlaceType
<1>2. Nth(S, Place(S, k)) \in S /\ Place(S, Nth(S, Place(S, k))) = Place(S, k)
  BY <1>1, NthIs
<1>3. QED
  BY <1>2, PlaceIsUnique

LEMMA NthGrows ==
  ASSUME NEW S, IsFiniteSet(S), S \subseteq Nat,
         NEW i \in 1 .. Cardinality(S), NEW j \in 1 .. Cardinality(S), i < j
  PROVE  Nth(S, i) < Nth(S, j)
<1>1. /\ Nth(S, i) \in S /\ Place(S, Nth(S, i)) = i
      /\ Nth(S, j) \in S /\ Place(S, Nth(S, j)) = j
  BY NthIs
<1>2. Nth(S, i) \in Nat /\ Nth(S, j) \in Nat /\ i \in Nat /\ j \in Nat
  <2>1. Cardinality(S) \in Nat
    BY FS_CardinalityType
  <2>2. i \in Nat /\ j \in Nat
    BY <2>1
  <2>3. QED
    BY <1>1, <2>2
<1>3. Nth(S, j) < Nth(S, i) => j < i
  BY <1>1, PlaceGrows
<1>4. Nth(S, i) # Nth(S, j)
  BY <1>1, <1>2
<1>5. QED
  BY <1>2, <1>3, <1>4

LEMMA Numbers ==
  ASSUME NEW n \in Nat
  PROVE  /\ IsFiniteSet(1 .. n) /\ Cardinality(1 .. n) = n
         /\ \A i \in 1 .. n : i \in Nat
<1>1. 1 \in Int /\ n \in Int
  OBVIOUS
<1>2. IsFiniteSet(1 .. n) /\ Cardinality(1 .. n) = IF 1 > n THEN 0 ELSE n - 1 + 1
  BY <1>1, FS_Interval
<1>3. QED
  BY <1>2

LEMMA ImageSize ==
  ASSUME NEW S, IsFiniteSet(S), NEW f, \A x, y \in S : f[x] = f[y] => x = y
  PROVE  /\ IsFiniteSet({f[x] : x \in S})
         /\ Cardinality({f[x] : x \in S}) = Cardinality(S)
<1> DEFINE T == {f[x] : x \in S}
           g == [x \in S |-> f[x]]
<1>1. g \in [S -> T] /\ (\A x, y \in S : g[x] = g[y] => x = y) /\ \A v \in T : \E x \in S : g[x] = v
  OBVIOUS
<1>2. g \in Bijection(S, T)
  BY <1>1 DEF Bijection, Injection, Surjection, IsInjective
<1>3. ExistsBijection(S, T)
  BY <1>2 DEF ExistsBijection
<1>4. QED
  BY <1>3, FS_Bijection

-----------------------------------------------------------------------------
(* Sequences of threads and the interleavings they stand for.              *)

(* The places of v in w.                                                   *)
In(w, v) == {k \in DOMAIN w : w[k] = v}

(* w has as many places for a thread as the thread has calls in C.         *)
Fits(w, C) ==
  /\ w \in [DOMAIN C -> Thread]
  /\ \A t \in Thread : Cardinality(In(w, t)) = Cardinality(Of(C, t))

(* p lists the calls of each thread in their order.                        *)
InOrder(p, C) ==
  \A i, j \in DOMAIN C : i < j /\ C[p[i]].thread = C[p[j]].thread => p[i] < p[j]

LEMMA InterleavingIs ==
  ASSUME NEW n \in Nat, NEW C, DOMAIN C = 1 .. n, NEW w, Fits(w, C)
  PROVE  /\ Interleaving(C, w) \in Bijection(DOMAIN C, DOMAIN C)
         /\ \A i \in DOMAIN C : C[Interleaving(C, w)[i]].thread = w[i]
         /\ InOrder(Interleaving(C, w), C)
<1> DEFINE p == Interleaving(C, w)
<1>1. IsFiniteSet(1 .. n) /\ \A i \in 1 .. n : i \in Nat
  BY Numbers
<1>2. w \in [1 .. n -> Thread] /\ DOMAIN w = 1 .. n
  BY DEF Fits
<1>3. ASSUME NEW t
      PROVE  /\ IsFiniteSet(In(w, t)) /\ In(w, t) \subseteq Nat /\ In(w, t) \subseteq 1 .. n
             /\ IsFiniteSet(Of(C, t)) /\ Of(C, t) \subseteq Nat /\ Of(C, t) \subseteq 1 .. n
  <2>1. In(w, t) \subseteq 1 .. n /\ Of(C, t) \subseteq 1 .. n
    BY <1>2 DEF In, Of
  <2>2. QED
    BY <1>1, <2>1, MoreIn
<1>4. ASSUME NEW i \in 1 .. n
      PROVE  /\ w[i] \in Thread /\ i \in In(w, w[i])
             /\ Place(In(w, w[i]), i) \in 1 .. Cardinality(Of(C, w[i]))
             /\ p[i] = Nth(Of(C, w[i]), Place(In(w, w[i]), i))
             /\ p[i] \in Of(C, w[i])
  <2>1. w[i] \in Thread /\ i \in In(w, w[i])
    BY <1>2 DEF In
  <2>2. Place(In(w, w[i]), i) \in 1 .. Cardinality(Of(C, w[i]))
    BY <1>3, <2>1, PlaceType DEF Fits
  <2>3. {k \in 1 .. i : w[k] = w[i]} = Upto(In(w, w[i]), i)
    <3>1. \A k : k \in 1 .. i <=> k \in 1 .. n /\ k <= i
      BY <1>1
    <3>2. QED
      BY <1>2, <3>1 DEF In, Upto
  <2>4. p[i] = Nth(Of(C, w[i]), Place(In(w, w[i]), i))
    BY <1>2, <2>3 DEF Interleaving, Place
  <2>5. p[i] \in Of(C, w[i])
    BY <1>3, <2>2, <2>4, NthIs
  <2>6. QED
    BY <2>1, <2>2, <2>4, <2>5
<1>5. \A i \in 1 .. n : C[p[i]].thread = w[i] /\ p[i] \in 1 .. n
  BY <1>4 DEF Of
<1>6. ASSUME NEW i \in 1 .. n, NEW j \in 1 .. n, i < j, w[i] = w[j]
      PROVE  p[i] < p[j]
  <2>1. Place(In(w, w[i]), i) < Place(In(w, w[i]), j)
    BY <1>3, <1>4, <1>6, PlaceGrows
  <2>2. QED
    BY <1>3, <1>4, <1>6, <2>1, NthGrows
<1>7. p \in [1 .. n -> 1 .. n]
  BY <1>2, <1>5 DEF Interleaving
<1>8. ASSUME NEW i \in 1 .. n, NEW j \in 1 .. n, p[i] = p[j]
      PROVE  i = j
  <2>1. w[i] = w[j]
    BY <1>5, <1>8
  <2>2. i \in Nat /\ j \in Nat /\ p[i] \in Nat
    BY <1>1, <1>7
  <2>3. ~ (i < j) /\ ~ (j < i)
    BY <1>6, <1>8, <2>1, <2>2
  <2>4. QED
    BY <2>2, <2>3
<1>9. p \in Injection(1 .. n, 1 .. n)
  BY <1>7, <1>8 DEF Injection, IsInjective
<1>10. p \in Bijection(1 .. n, 1 .. n)
  BY <1>1, <1>9, FS_Injection DEF Bijection
<1>11. InOrder(p, C)
  BY <1>5, <1>6 DEF InOrder
<1>12. QED
  BY <1>5, <1>10, <1>11

LEMMA InterleavingOf ==
  ASSUME NEW n \in Nat, NEW C, DOMAIN C = 1 .. n, \A i \in 1 .. n : C[i].thread \in Thread,
         NEW p \in Bijection(1 .. n, 1 .. n), InOrder(p, C)
  PROVE  LET w == [i \in 1 .. n |-> C[p[i]].thread]
         IN  Fits(w, C) /\ Interleaving(C, w) = p
<1> DEFINE w == [i \in 1 .. n |-> C[p[i]].thread]
<1>1. IsFiniteSet(1 .. n) /\ \A i \in 1 .. n : i \in Nat
  BY Numbers
<1>2. /\ p \in [1 .. n -> 1 .. n]
      /\ \A i, j \in 1 .. n : p[i] = p[j] => i = j
      /\ \A k \in 1 .. n : \E i \in 1 .. n : p[i] = k
  BY DEF Bijection, Injection, Surjection, IsInjective
<1>3. w \in [1 .. n -> Thread] /\ DOMAIN w = 1 .. n /\ \A i \in 1 .. n : w[i] = C[p[i]].thread
  BY <1>2
<1> HIDE DEF w
<1>4. ASSUME NEW t
      PROVE  /\ IsFiniteSet(In(w, t)) /\ In(w, t) \subseteq 1 .. n
             /\ IsFiniteSet(Of(C, t)) /\ Of(C, t) \subseteq Nat /\ Of(C, t) \subseteq 1 .. n
  <2>1. In(w, t) \subseteq 1 .. n /\ Of(C, t) \subseteq 1 .. n
    BY <1>3 DEF In, Of
  <2>2. QED
    BY <1>1, <2>1, MoreIn
<1>5. ASSUME NEW t
      PROVE  Of(C, t) = {p[k] : k \in In(w, t)}
  <2>1. ASSUME NEW m \in Of(C, t) PROVE m \in {p[k] : k \in In(w, t)}
    <3>1. m \in 1 .. n /\ C[m].thread = t
      BY DEF Of
    <3>2. PICK k \in 1 .. n : p[k] = m
      BY <1>2, <3>1
    <3>3. k \in In(w, t)
      BY <1>3, <3>1, <3>2 DEF In
    <3>4. QED
      BY <3>2, <3>3
  <2>2. ASSUME NEW k \in In(w, t) PROVE p[k] \in Of(C, t)
    BY <1>2, <1>3 DEF In, Of
  <2>3. QED
    BY <2>1, <2>2
<1>6. ASSUME NEW t \in Thread
      PROVE  Cardinality(In(w, t)) = Cardinality(Of(C, t))
  <2>1. \A x, y \in In(w, t) : p[x] = p[y] => x = y
    BY <1>2, <1>4
  <2>2. QED
    BY <1>4, <1>5, <2>1, ImageSize
<1>7. Fits(w, C)
  BY <1>3, <1>6 DEF Fits
<1>8. ASSUME NEW i \in 1 .. n
      PROVE  Interleaving(C, w)[i] = p[i]
  <2> DEFINE t == w[i]
  <2>1. i \in In(w, t) /\ p[i] \in Of(C, t) /\ i \in Nat /\ p[i] \in Nat
    BY <1>1, <1>2, <1>3 DEF In, Of
  <2>2. ASSUME NEW k \in In(w, t) PROVE k <= i <=> p[k] <= p[i]
    <3>1. k \in 1 .. n /\ w[k] = w[i]
      BY <1>3 DEF In
    <3>2. k \in Nat /\ p[k] \in Nat /\ C[p[k]].thread = C[p[i]].thread
      BY <1>1, <1>2, <1>3, <3>1
    <3>3. (k < i => p[k] < p[i]) /\ (i < k => p[i] < p[k])
      BY <3>1, <3>2 DEF InOrder
    <3>4. QED
      BY <2>1, <3>2, <3>3
  <2>3. Upto(Of(C, t), p[i]) = {p[k] : k \in Upto(In(w, t), i)}
    <3>1. ASSUME NEW m \in Upto(Of(C, t), p[i])
          PROVE  m \in {p[k] : k \in Upto(In(w, t), i)}
      <4>1. m \in Of(C, t) /\ m <= p[i]
        BY DEF Upto
      <4>2. PICK k \in In(w, t) : m = p[k]
        BY <1>5, <4>1
      <4>3. k \in Upto(In(w, t), i)
        BY <2>2, <4>1, <4>2 DEF Upto
      <4>4. QED
        BY <4>2, <4>3
    <3>2. ASSUME NEW k \in Upto(In(w, t), i)
          PROVE  p[k] \in Upto(Of(C, t), p[i])
      <4>1. k \in In(w, t) /\ k <= i
        BY DEF Upto
      <4>2. QED
        BY <1>5, <2>2, <4>1 DEF Upto
    <3>3. QED
      BY <3>1, <3>2
  <2>4. Upto(In(w, t), i) \subseteq In(w, t)
    BY DEF Upto
  <2>5. \A x, y \in Upto(In(w, t), i) : p[x] = p[y] => x = y
    BY <1>2, <1>4, <2>4
  <2>6. IsFiniteSet(Upto(In(w, t), i))
    BY <1>4, <2>4, MoreIn
  <2>7. Place(Of(C, t), p[i]) = Place(In(w, t), i)
    BY <2>3, <2>5, <2>6, ImageSize DEF Place
  <2>8. Nth(Of(C, t), Place(In(w, t), i)) = p[i]
    BY <1>4, <2>1, <2>7, NthOfPlace
  <2>9. {k \in 1 .. i : w[k] = w[i]} = Upto(In(w, t), i)
    <3>1. \A k : k \in 1 .. i <=> k \in 1 .. n /\ k <= i
      BY <1>1
    <3>2. QED
      BY <1>3, <3>1 DEF In, Upto
  <2>10. QED
    BY <1>3, <2>8, <2>9 DEF Interleaving, Place
<1>9. Interleaving(C, w) = p
  <2>1. Interleaving(C, w) = [i \in 1 .. n |-> Interleaving(C, w)[i]]
    BY <1>3 DEF Interleaving
  <2>2. QED
    BY <1>2, <1>8, <2>1
<1>10. QED
  BY <1>7, <1>9 DEF w

-----------------------------------------------------------------------------
(* The sorted sequence.                                                    *)

LEMMA Threads ==
  \A t \in Thread : t \in Nat
BY CallsAssumption

(* The calls of threads up to t, those of threads before t, and the threads *)
(* that may stand in place i of the sorted sequence.                       *)
AtMost(C, t) == {k \in DOMAIN C : C[k].thread <= t}
Under(C, t) == {k \in DOMAIN C : C[k].thread < t}
Enough(C, i) == {t \in Thread : Cardinality(AtMost(C, t)) >= i}

LEMMA SortedIs ==
  ASSUME NEW n \in Nat, NEW C, DOMAIN C = 1 .. n, \A i \in 1 .. n : C[i].thread \in Thread
  PROVE  /\ Fits(SortedThreads(C), C)
         /\ \A i, j \in 1 .. n : i <= j => SortedThreads(C)[i] <= SortedThreads(C)[j]
<1> DEFINE s == SortedThreads(C)
<1>1. IsFiniteSet(1 .. n) /\ Cardinality(1 .. n) = n /\ \A i \in 1 .. n : i \in Nat
  BY Numbers
<1>2. s = [i \in 1 .. n |-> Min(Enough(C, i))]
  BY DEF SortedThreads, Enough, AtMost
<1>3. ASSUME NEW t \in Thread
      PROVE  /\ IsFiniteSet(AtMost(C, t)) /\ Cardinality(AtMost(C, t)) \in 0 .. n
             /\ IsFiniteSet(Under(C, t)) /\ Cardinality(Under(C, t)) \in Nat
             /\ AtMost(C, t) = Under(C, t) \cup Of(C, t) /\ Under(C, t) \cap Of(C, t) = {}
             /\ IsFiniteSet(Of(C, t)) /\ Cardinality(Of(C, t)) \in Nat
  <2>1. AtMost(C, t) \subseteq 1 .. n /\ Under(C, t) \subseteq 1 .. n /\ Of(C, t) \subseteq 1 .. n
    BY DEF Of, AtMost, Under
  <2>2. \A k \in 1 .. n : /\ C[k].thread \in Nat /\ t \in Nat
                          /\ C[k].thread <= t <=> C[k].thread < t \/ C[k].thread = t
                          /\ ~ (C[k].thread < t /\ C[k].thread = t)
    BY Threads
  <2>3. AtMost(C, t) = Under(C, t) \cup Of(C, t) /\ Under(C, t) \cap Of(C, t) = {}
    BY <2>1, <2>2 DEF Of, AtMost, Under
  <2>4. /\ IsFiniteSet(AtMost(C, t)) /\ Cardinality(AtMost(C, t)) \in Nat /\ Cardinality(AtMost(C, t)) <= n
        /\ IsFiniteSet(Under(C, t)) /\ Cardinality(Under(C, t)) \in Nat
        /\ IsFiniteSet(Of(C, t)) /\ Cardinality(Of(C, t)) \in Nat
    BY <1>1, <2>1, MoreIn
  <2>5. QED
    BY <2>3, <2>4
<1>4. ASSUME NEW K, K \subseteq 1 .. n, K # {}
      PROVE  \E m \in K : \A k \in K : C[k].thread <= C[m].thread
  <2> DEFINE T == {C[k].thread : k \in K}
             f == [k \in K |-> C[k].thread]
  <2>1. IsFiniteSet(K)
    BY <1>1, <1>4, MoreIn
  <2>2. f \in Surjection(K, T)
    BY DEF Surjection
  <2>3. IsFiniteSet(T)
    BY <2>1, <2>2, FS_Surjection
  <2>4. T \subseteq Nat /\ T # {}
    BY <1>4, Threads
  <2>5. PICK t \in T : \A u \in T : u <= t
    BY <2>3, <2>4, Greatest
  <2>6. QED
    BY <2>5
<1>5. ASSUME NEW i \in 1 .. n
      PROVE  Enough(C, i) # {} /\ Enough(C, i) \subseteq Nat
  <2>1. 1 .. n # {} /\ 1 .. n \subseteq 1 .. n
    OBVIOUS
  <2>2. PICK m \in 1 .. n : \A k \in 1 .. n : C[k].thread <= C[m].thread
    BY <1>4, <2>1
  <2>3. AtMost(C, C[m].thread) = 1 .. n
    BY <2>2 DEF AtMost
  <2>4. Cardinality(AtMost(C, C[m].thread)) = n /\ n >= i
    BY <1>1, <2>3
  <2>5. C[m].thread \in Enough(C, i)
    BY <2>4 DEF Enough
  <2>6. QED
    BY <2>5, Threads DEF Enough
<1>6. ASSUME NEW i \in 1 .. n
      PROVE  /\ s[i] \in Enough(C, i) /\ s[i] \in Thread /\ s[i] \in Nat
             /\ \A t \in Enough(C, i) : s[i] <= t
  <2>1. Min(Enough(C, i)) \in Enough(C, i) /\ \A t \in Enough(C, i) : Min(Enough(C, i)) <= t
    BY <1>5, MinIs
  <2>2. QED
    BY <1>2, <2>1, Threads DEF Enough
<1> HIDE DEF s
<1>7. ASSUME NEW i \in 1 .. n, NEW j \in 1 .. n, i <= j
      PROVE  s[i] <= s[j]
  <2>1. Cardinality(AtMost(C, s[j])) >= j /\ Cardinality(AtMost(C, s[j])) \in Nat
    BY <1>3, <1>6 DEF Enough
  <2>2. Cardinality(AtMost(C, s[j])) >= i
    <3>1. i \in Nat /\ j \in Nat
      BY <1>1
    <3>2. QED
      BY <1>7, <2>1, <3>1
  <2>3. s[j] \in Enough(C, i)
    BY <1>6, <2>2 DEF Enough
  <2>4. QED
    BY <1>6, <2>3
<1>8. ASSUME NEW t \in Thread
      PROVE  Cardinality(In(s, t)) = Cardinality(Of(C, t))
  <2> DEFINE a == Cardinality(Under(C, t))
             b == Cardinality(AtMost(C, t))
  <2>1. a \in Nat /\ b \in 0 .. n /\ b = a + Cardinality(Of(C, t)) /\ Cardinality(Of(C, t)) \in Nat
    <3>1. Cardinality(Under(C, t) \cup Of(C, t))
            = a + Cardinality(Of(C, t)) - Cardinality(Under(C, t) \cap Of(C, t))
      BY <1>3, FS_Union
    <3>2. Cardinality(Under(C, t) \cap Of(C, t)) = 0
      BY <1>3, FS_EmptySet
    <3>3. b = Cardinality(Under(C, t) \cup Of(C, t))
      BY <1>3
    <3>4. QED
      BY <1>3, <3>1, <3>2, <3>3
  <2>2. ASSUME NEW i \in 1 .. n, s[i] = t
        PROVE  i \in a + 1 .. b
    <3>1. b >= i
      BY <1>6, <2>2 DEF Enough
    <3>2. ASSUME a >= i PROVE FALSE
      <4>1. Under(C, t) # {}
        BY <1>3, <2>1, <3>2, FS_EmptySet
      <4>2. PICK m \in Under(C, t) : \A k \in Under(C, t) : C[k].thread <= C[m].thread
        BY <1>4, <4>1 DEF Under
      <4>3. C[m].thread \in Thread /\ C[m].thread < t /\ C[m].thread \in Nat /\ t \in Nat
        BY <4>2, Threads DEF Under
      <4>4. \A k \in Under(C, t) : k \in AtMost(C, C[m].thread)
        BY <4>2 DEF Under, AtMost
      <4>5. Under(C, t) \subseteq AtMost(C, C[m].thread)
        BY <4>4
      <4>6. Cardinality(AtMost(C, C[m].thread)) >= a /\ Cardinality(AtMost(C, C[m].thread)) \in Nat
        BY <1>3, <4>3, <4>5, MoreIn
      <4>7. Cardinality(AtMost(C, C[m].thread)) >= i
        BY <1>1, <2>1, <3>2, <4>6
      <4>8. s[i] <= C[m].thread
        BY <1>6, <4>3, <4>7 DEF Enough
      <4>9. QED
        BY <2>2, <4>3, <4>8
    <3>3. QED
      BY <2>1, <3>1, <3>2
  <2>3. ASSUME NEW i \in a + 1 .. b
        PROVE  i \in 1 .. n /\ s[i] = t
    <3>1. i \in 1 .. n /\ i \in Nat
      BY <2>1
    <3>2. t \in Enough(C, i) /\ s[i] <= t /\ s[i] \in Nat /\ t \in Nat
      BY <1>6, <2>1, <3>1, Threads DEF Enough
    <3>3. ASSUME s[i] < t PROVE FALSE
      <4>1. \A k \in AtMost(C, s[i]) : C[k].thread < t
        <5>1. \A k \in AtMost(C, s[i]) : C[k].thread \in Thread /\ C[k].thread <= s[i]
          BY DEF AtMost
        <5>2. \A k \in AtMost(C, s[i]) : C[k].thread \in Nat
          BY <5>1, Threads
        <5>3. QED
          BY <3>2, <3>3, <5>1, <5>2
      <4>2. AtMost(C, s[i]) \subseteq Under(C, t)
        BY <4>1 DEF AtMost, Under
      <4>3. Cardinality(AtMost(C, s[i])) <= a /\ Cardinality(AtMost(C, s[i])) \in Nat
        BY <1>3, <4>2, MoreIn
      <4>4. Cardinality(AtMost(C, s[i])) >= i
        BY <1>6, <3>1 DEF Enough
      <4>5. QED
        BY <2>1, <3>1, <4>3, <4>4
    <3>4. QED
      BY <3>1, <3>2, <3>3
  <2>4. In(s, t) = a + 1 .. b
    <3>1. DOMAIN s = 1 .. n
      BY <1>2
    <3>2. QED
      BY <2>2, <2>3, <3>1 DEF In
  <2> HIDE DEF a, b
  <2>5. Cardinality(a + 1 .. b) = IF a + 1 > b THEN 0 ELSE b - (a + 1) + 1
    <3>1. a + 1 \in Int /\ b \in Int
      BY <2>1
    <3>2. QED
      BY <3>1, FS_Interval
  <2>6. QED
    BY <2>1, <2>4, <2>5
<1>9. s \in [1 .. n -> Thread]
  <2>1. s = [i \in 1 .. n |-> s[i]]
    BY <1>2
  <2>2. QED
    BY <1>6, <2>1
<1>10. QED
  BY <1>7, <1>8, <1>9 DEF Fits, s

-----------------------------------------------------------------------------
(* Lexicographic order.                                                    *)

(* s and w have the same threads, each as often.                           *)
Same(s, w) == \A t \in Thread : Cardinality(In(s, t)) = Cardinality(In(w, t))

LEMMA FirstDifference ==
  ASSUME NEW n \in Nat, NEW s \in [1 .. n -> Thread], NEW w \in [1 .. n -> Thread], s # w
  PROVE  \E d \in 1 .. n : s[d] # w[d] /\ \A i \in 1 .. d - 1 : s[i] = w[i]
<1> DEFINE D == {d \in 1 .. n : s[d] # w[d]}
<1>1. D \subseteq Nat /\ D # {}
  <2>1. \A d \in 1 .. n : d \in Nat
    BY Numbers
  <2>2. QED
    BY <2>1
<1>2. PICK d \in D : \A e \in D : d <= e
  BY <1>1, Least
<1>3. ASSUME NEW i \in 1 .. d - 1
      PROVE  s[i] = w[i]
  <2>1. i \in 1 .. n /\ i < d /\ i \in Nat /\ d \in Nat
    OBVIOUS
  <2>2. i \notin D
    BY <1>2, <2>1
  <2>3. QED
    BY <2>1, <2>2
<1>4. QED
  BY <1>3

LEMMA Trichotomy ==
  ASSUME NEW n \in Nat, NEW s \in [1 .. n -> Thread], NEW w \in [1 .. n -> Thread], s # w
  PROVE  Later(s, w) \/ Later(w, s)
<1>1. PICK d \in 1 .. n : s[d] # w[d] /\ \A i \in 1 .. d - 1 : s[i] = w[i]
  BY FirstDifference
<1>2. s[d] \in Nat /\ w[d] \in Nat
  BY Threads
<1>3. s[d] > w[d] \/ w[d] > s[d]
  BY <1>1, <1>2
<1>4. QED
  BY <1>1, <1>3 DEF Later

(* What comes next in w after a common beginning comes in s too.           *)
LEMMA ComesLater ==
  ASSUME NEW n \in Nat, NEW s \in [1 .. n -> Thread], NEW w \in [1 .. n -> Thread], Same(s, w),
         NEW d \in 1 .. n, \A i \in 1 .. d - 1 : s[i] = w[i]
  PROVE  \E k \in d .. n : s[k] = w[d]
<1>1. SUFFICES ASSUME \A k \in d .. n : s[k] # w[d] PROVE FALSE
  OBVIOUS
<1>2. IsFiniteSet(1 .. n) /\ \A i \in 1 .. n : i \in Nat
  BY Numbers
<1>3. w[d] \in Thread /\ d \in In(w, w[d]) /\ In(w, w[d]) \subseteq 1 .. n
  BY DEF In
<1>4. ASSUME NEW k \in In(s, w[d])
      PROVE  k \in In(w, w[d]) /\ k # d
  <2>1. k \in 1 .. n /\ s[k] = w[d] /\ k \in Nat /\ d \in Nat
    BY <1>2 DEF In
  <2>2. ~ (k \in d .. n)
    BY <1>1, <2>1
  <2>3. k \in 1 .. d - 1
    BY <2>1, <2>2
  <2>4. QED
    BY <2>1, <2>3 DEF In
<1>5. In(s, w[d]) \subseteq In(w, w[d]) /\ In(s, w[d]) # In(w, w[d]) /\ IsFiniteSet(In(w, w[d]))
  BY <1>2, <1>3, <1>4, MoreIn
<1>6. Cardinality(In(s, w[d])) < Cardinality(In(w, w[d])) /\ Cardinality(In(s, w[d])) \in Nat
  BY <1>5, MoreIn
<1>7. QED
  BY <1>3, <1>6 DEF Same

LEMMA SortedIsFirst ==
  ASSUME NEW n \in Nat, NEW s \in [1 .. n -> Thread], NEW w \in [1 .. n -> Thread], Same(s, w),
         \A i, j \in 1 .. n : i <= j => s[i] <= s[j]
  PROVE  ~ Later(s, w)
<1>1. SUFFICES ASSUME Later(s, w) PROVE FALSE
  OBVIOUS
<1>2. PICK d \in 1 .. n : s[d] > w[d] /\ \A i \in 1 .. d - 1 : s[i] = w[i]
  BY <1>1 DEF Later
<1>3. PICK k \in d .. n : s[k] = w[d]
  BY <1>2, ComesLater
<1>4. d <= k /\ k \in 1 .. n
  OBVIOUS
<1>5. s[d] <= s[k] /\ s[d] \in Nat /\ s[k] \in Nat
  BY <1>4, Threads
<1>6. QED
  BY <1>2, <1>3, <1>5

-----------------------------------------------------------------------------
(* std::next_permutation.                                                  *)

LEMMA Falling ==
  ASSUME NEW n \in Nat, NEW s \in [1 .. n -> Thread], NEW q \in Nat, q >= 1,
         \A i \in q .. n - 1 : ~ (s[i] < s[i + 1])
  PROVE  \A i, j \in q .. n : i <= j => s[j] <= s[i]
<1>1. SUFFICES ASSUME NEW i \in q .. n
               PROVE  {j \in i .. n : ~ (s[j] <= s[i])} = {}
  <2>1. ASSUME NEW i \in q .. n, NEW j \in q .. n, i <= j
        PROVE  j \in i .. n
    BY <2>1
  <2>2. QED
    BY <1>1, <2>1
<1> DEFINE D == {j \in i .. n : ~ (s[j] <= s[i])}
<1>2. SUFFICES ASSUME D # {} PROVE FALSE
  OBVIOUS
<1>3. D \subseteq Nat
  OBVIOUS
<1>4. PICK j \in D : \A k \in D : j <= k
  BY <1>2, <1>3, Least
<1>5. j \in i .. n /\ ~ (s[j] <= s[i])
  OBVIOUS
<1>6. \A k \in 1 .. n : s[k] \in Nat
  BY Threads
<1>7. i \in 1 .. n /\ j \in 1 .. n /\ i \in Nat /\ j \in Nat
  BY <1>5
<1>8. j # i
  BY <1>5, <1>6, <1>7
<1>9. j - 1 \in i .. n /\ j - 1 \in q .. n - 1 /\ j - 1 \in 1 .. n /\ (j - 1) + 1 = j
  BY <1>5, <1>7, <1>8
<1>10. ~ (s[j - 1] < s[j])
  BY <1>9
<1>11. s[j - 1] <= s[i]
  BY <1>4, <1>7, <1>9
<1>12. s[j] \in Nat /\ s[j - 1] \in Nat /\ s[i] \in Nat
  BY <1>6, <1>7, <1>9
<1>13. QED
  BY <1>5, <1>10, <1>11, <1>12

LEMMA LenIs ==
  ASSUME NEW n \in Nat, NEW s \in [1 .. n -> Thread]
  PROVE  Len(s) = n
<1>1. s \in Seq(Thread)
  BY SeqDef
<1>2. Len(s) \in Nat /\ DOMAIN s = 1 .. Len(s) /\ DOMAIN s = 1 .. n
  BY <1>1, LenProperties
<1>3. IsFiniteSet(1 .. n) /\ Cardinality(1 .. n) = n /\ Cardinality(1 .. Len(s)) = Len(s)
  BY <1>2, Numbers
<1>4. QED
  BY <1>2, <1>3

LastRise(s) == Max(Rises(s))
Exchange(s) == Max({k \in LastRise(s) + 1 .. Len(s) : s[k] > s[LastRise(s)]})

LEMMA RiseIs ==
  ASSUME NEW n \in Nat, NEW s \in [1 .. n -> Thread], Rises(s) # {}
  PROVE  /\ LastRise(s) \in 1 .. n - 1
         /\ s[LastRise(s)] < s[LastRise(s) + 1]
         /\ \A i, j \in LastRise(s) + 1 .. n : i <= j => s[j] <= s[i]
<1> DEFINE p == LastRise(s)
<1>1. Rises(s) = {i \in 1 .. n - 1 : s[i] < s[i + 1]}
  BY LenIs DEF Rises
<1>2. Rises(s) \subseteq 1 .. n /\ IsFiniteSet(1 .. n) /\ \A i \in 1 .. n : i \in Nat
  <2>1. 1 .. n - 1 \subseteq 1 .. n
    OBVIOUS
  <2>2. QED
    BY <1>1, <2>1, Numbers
<1>3. IsFiniteSet(Rises(s)) /\ Rises(s) \subseteq Nat
  BY <1>2, MoreIn
<1>4. p \in Rises(s) /\ \A i \in Rises(s) : i <= p
  BY <1>3, MaxIs DEF LastRise
<1> HIDE DEF p
<1>5. p \in 1 .. n - 1 /\ s[p] < s[p + 1] /\ p + 1 \in Nat /\ p + 1 >= 1
  BY <1>1, <1>4
<1>6. ASSUME NEW i \in p + 1 .. n - 1
      PROVE  ~ (s[i] < s[i + 1])
  <2>1. i \in 1 .. n - 1 /\ ~ (i <= p)
    BY <1>5
  <2>2. QED
    BY <1>1, <1>4, <2>1
<1>7. \A i, j \in p + 1 .. n : i <= j => s[j] <= s[i]
  BY <1>5, <1>6, Falling
<1>8. QED
  BY <1>5, <1>7 DEF p

LEMMA ExchangeIs ==
  ASSUME NEW n \in Nat, NEW s \in [1 .. n -> Thread], Rises(s) # {}
  PROVE  /\ Exchange(s) \in LastRise(s) + 1 .. n
         /\ s[Exchange(s)] > s[LastRise(s)]
         /\ \A k \in Exchange(s) + 1 .. n : s[k] <= s[LastRise(s)]
<1> DEFINE p == LastRise(s)
           K == {k \in p + 1 .. n : s[k] > s[p]}
<1>1. p \in 1 .. n - 1 /\ s[p] < s[p + 1]
  BY RiseIs
<1>2. Exchange(s) = Max(K)
  BY LenIs DEF Exchange
<1> HIDE DEF p
<1>3. \A k \in 1 .. n : s[k] \in Nat
  BY Threads
<1>4. K \subseteq 1 .. n /\ IsFiniteSet(1 .. n) /\ \A i \in 1 .. n : i \in Nat
  <2>1. p + 1 .. n \subseteq 1 .. n
    BY <1>1
  <2>2. QED
    BY <2>1, Numbers
<1>5. p + 1 \in K
  <2>1. p + 1 \in p + 1 .. n /\ p \in 1 .. n /\ p + 1 \in 1 .. n
    BY <1>1
  <2>2. s[p + 1] > s[p]
    BY <1>1, <1>3, <2>1
  <2>3. QED
    BY <2>1, <2>2
<1>6. IsFiniteSet(K) /\ K \subseteq Nat /\ K # {}
  BY <1>4, <1>5, MoreIn
<1>7. Max(K) \in K /\ \A k \in K : k <= Max(K)
  BY <1>6, MaxIs
<1> DEFINE r == Max(K)
<1>8. r \in p + 1 .. n /\ s[r] > s[p] /\ \A k \in K : k <= r
  BY <1>7
<1> HIDE DEF r
<1>9. ASSUME NEW k \in r + 1 .. n
      PROVE  s[k] <= s[p]
  <2>1. k \in p + 1 .. n /\ ~ (k <= r) /\ k \in 1 .. n /\ p \in 1 .. n
    BY <1>1, <1>8
  <2>2. k \notin K
    BY <1>8, <2>1
  <2>3. ~ (s[k] > s[p]) /\ s[k] \in Nat /\ s[p] \in Nat
    BY <1>3, <2>1, <2>2
  <2>4. QED
    BY <2>3
<1>10. QED
  BY <1>2, <1>8, <1>9 DEF p, r

(* Where the thread that next_permutation puts into place i stood before.  *)
Origin(s, n, i) ==
  IF i < LastRise(s) THEN i
  ELSE IF i = LastRise(s) THEN Exchange(s)
  ELSE IF n + LastRise(s) + 1 - i = Exchange(s) THEN LastRise(s)
  ELSE n + LastRise(s) + 1 - i

LEMMA NextForm ==
  ASSUME NEW n \in Nat, NEW s \in [1 .. n -> Thread], Rises(s) # {}
  PROVE  /\ DOMAIN NextPermutation(s) = 1 .. n
         /\ \A i \in 1 .. n : /\ NextPermutation(s)[i] = s[Origin(s, n, i)]
                              /\ Origin(s, n, i) \in 1 .. n
         /\ \A i, j \in 1 .. n : Origin(s, n, i) = Origin(s, n, j) => i = j
<1> DEFINE p == LastRise(s)
           r == Exchange(s)
           swapped == [s EXCEPT ![p] = s[r], ![r] = s[p]]
<1>1. p \in 1 .. n - 1 /\ r \in p + 1 .. n
  BY RiseIs, ExchangeIs
<1>2. NextPermutation(s)
        = [i \in 1 .. n |-> IF i <= p THEN swapped[i] ELSE swapped[n + p + 1 - i]]
  BY LenIs DEF NextPermutation, LastRise, Exchange
<1>3. \A i : Origin(s, n, i) = IF i < p THEN i ELSE IF i = p THEN r
                               ELSE IF n + p + 1 - i = r THEN p ELSE n + p + 1 - i
  BY DEF Origin
<1> HIDE DEF p, r
<1>4. \A i \in 1 .. n : i \in Nat
  BY Numbers
<1>5. p \in 1 .. n /\ r \in 1 .. n /\ p # r
  BY <1>1
<1>6. \A i \in 1 .. n : swapped[i] = IF i = r THEN s[p] ELSE IF i = p THEN s[r] ELSE s[i]
  BY <1>5
<1> HIDE DEF swapped
<1>7. ASSUME NEW i \in 1 .. n
      PROVE  NextPermutation(s)[i] = s[Origin(s, n, i)] /\ Origin(s, n, i) \in 1 .. n
  <2>1. CASE i <= p
    <3>1. i # r
      BY <1>1, <2>1
    <3>2. NextPermutation(s)[i] = IF i = p THEN s[r] ELSE s[i]
      BY <1>2, <1>6, <2>1, <3>1
    <3>3. Origin(s, n, i) = IF i = p THEN r ELSE i
      BY <1>1, <1>3, <2>1
    <3>4. QED
      BY <1>5, <3>2, <3>3
  <2>2. CASE ~ (i <= p)
    <3> DEFINE m == n + p + 1 - i
    <3>1. m \in p + 1 .. n /\ m \in 1 .. n /\ m # p /\ ~ (i < p) /\ i # p
      BY <1>1, <2>2
    <3>2. NextPermutation(s)[i] = IF m = r THEN s[p] ELSE s[m]
      BY <1>2, <1>6, <2>2, <3>1
    <3>3. Origin(s, n, i) = IF m = r THEN p ELSE m
      BY <1>3, <3>1
    <3>4. QED
      BY <1>5, <3>1, <3>2, <3>3
  <2>3. QED
    BY <2>1, <2>2
<1>8. ASSUME NEW i \in 1 .. n, NEW j \in 1 .. n, Origin(s, n, i) = Origin(s, n, j)
      PROVE  i = j
  BY <1>1, <1>3, <1>8, SMTT(30)
<1>9. QED
  BY <1>2, <1>7, <1>8

LEMMA NextIsSame ==
  ASSUME NEW n \in Nat, NEW s \in [1 .. n -> Thread], Rises(s) # {}
  PROVE  NextPermutation(s) \in [1 .. n -> Thread] /\ Same(NextPermutation(s), s)
<1> DEFINE u == NextPermutation(s)
           o == [i \in 1 .. n |-> Origin(s, n, i)]
<1>1. /\ DOMAIN u = 1 .. n
      /\ \A i \in 1 .. n : u[i] = s[o[i]] /\ o[i] \in 1 .. n
      /\ \A i, j \in 1 .. n : o[i] = o[j] => i = j
  BY NextForm
<1>2. IsFiniteSet(1 .. n)
  BY Numbers
<1>3. o \in [1 .. n -> 1 .. n]
  BY <1>1
<1> HIDE DEF o
<1>4. o \in Injection(1 .. n, 1 .. n)
  BY <1>1, <1>3 DEF Injection, IsInjective
<1>5. \A k \in 1 .. n : \E i \in 1 .. n : o[i] = k
  <2>1. o \in Surjection(1 .. n, 1 .. n)
    BY <1>2, <1>4, FS_Injection
  <2>2. QED
    BY <2>1 DEF Surjection
<1>6. u = [i \in 1 .. n |-> u[i]]
  BY LenIs, <1>1 DEF NextPermutation
<1> HIDE DEF u
<1>7. u \in [1 .. n -> Thread]
  BY <1>1, <1>6
<1>8. ASSUME NEW t \in Thread
      PROVE  Cardinality(In(u, t)) = Cardinality(In(s, t))
  <2>1. In(u, t) \subseteq 1 .. n
    BY <1>1 DEF In
  <2>2. IsFiniteSet(In(u, t)) /\ \A x, y \in In(u, t) : o[x] = o[y] => x = y
    BY <1>1, <1>2, <2>1, MoreIn
  <2>3. In(s, t) = {o[i] : i \in In(u, t)}
    <3>1. ASSUME NEW k \in In(s, t) PROVE k \in {o[i] : i \in In(u, t)}
      <4>1. k \in 1 .. n /\ s[k] = t
        BY DEF In
      <4>2. PICK i \in 1 .. n : o[i] = k
        BY <1>5, <4>1
      <4>3. i \in In(u, t)
        BY <1>1, <4>1, <4>2 DEF In
      <4>4. QED
        BY <4>2, <4>3
    <3>2. ASSUME NEW i \in In(u, t) PROVE o[i] \in In(s, t)
      BY <1>1 DEF In
    <3>3. QED
      BY <3>1, <3>2
  <2>4. QED
    BY <2>2, <2>3, ImageSize
<1>9. QED
  BY <1>7, <1>8 DEF Same, u

(* Up to the last rise, next_permutation keeps the sequence; there it puts *)
(* the least thread that may stand there next, and the rest in order.      *)
LEMMA NextIs ==
  ASSUME NEW n \in Nat, NEW s \in [1 .. n -> Thread], Rises(s) # {}
  PROVE  LET p == LastRise(s)
             u == NextPermutation(s)
         IN  /\ p \in 1 .. n - 1
             /\ \A i \in 1 .. p - 1 : u[i] = s[i]
             /\ u[p] > s[p]
             /\ \A k \in p + 1 .. n : s[k] > s[p] => u[p] <= s[k]
             /\ \A i, j \in p + 1 .. n : i <= j => u[i] <= u[j]
<1> DEFINE p == LastRise(s)
           r == Exchange(s)
           u == NextPermutation(s)
<1>1. /\ p \in 1 .. n - 1
      /\ \A i, j \in p + 1 .. n : i <= j => s[j] <= s[i]
  BY RiseIs
<1>2. /\ r \in p + 1 .. n /\ s[r] > s[p]
      /\ \A k \in r + 1 .. n : s[k] <= s[p]
  BY ExchangeIs
<1>3. \A i \in 1 .. n : u[i] = s[Origin(s, n, i)] /\ Origin(s, n, i) \in 1 .. n
  BY NextForm
<1>4. \A i : Origin(s, n, i) = IF i < p THEN i ELSE IF i = p THEN r
                               ELSE IF n + p + 1 - i = r THEN p ELSE n + p + 1 - i
  BY DEF Origin
<1>5. \A k \in 1 .. n : k \in Nat /\ s[k] \in Nat
  BY Numbers, Threads
<1> HIDE DEF p, r, u
<1>6. \A i \in 1 .. p - 1 : u[i] = s[i]
  <2>1. ASSUME NEW i \in 1 .. p - 1 PROVE u[i] = s[i]
    <3>1. i < p /\ i \in 1 .. n
      BY <1>1
    <3>2. Origin(s, n, i) = i
      BY <1>4, <3>1
    <3>3. QED
      BY <1>3, <3>1, <3>2
  <2>2. QED
    BY <2>1
<1>7. u[p] = s[r]
  <2>1. ~ (p < p) /\ p \in 1 .. n
    BY <1>1
  <2>2. Origin(s, n, p) = r
    BY <1>4, <2>1
  <2>3. QED
    BY <1>3, <2>1, <2>2
<1>8. ASSUME NEW k \in p + 1 .. n, s[k] > s[p]
      PROVE  u[p] <= s[k]
  <2>1. k \in 1 .. n /\ r \in 1 .. n /\ p \in 1 .. n
    BY <1>1, <1>2
  <2>2. s[k] \in Nat /\ s[p] \in Nat /\ s[r] \in Nat /\ k \in Nat /\ r \in Nat
    BY <1>5, <2>1
  <2>3. ~ (k \in r + 1 .. n)
    BY <1>2, <1>8, <2>2
  <2>4. k <= r
    BY <1>2, <2>2, <2>3
  <2>5. QED
    BY <1>1, <1>2, <1>7, <2>4
<1>9. ASSUME NEW i \in p + 1 .. n, NEW j \in p + 1 .. n, i <= j
      PROVE  u[i] <= u[j]
  <2> DEFINE a == n + p + 1 - i
             b == n + p + 1 - j
  <2>1. /\ a \in p + 1 .. n /\ b \in p + 1 .. n /\ b <= a
        /\ i \in 1 .. n /\ j \in 1 .. n /\ a \in 1 .. n /\ b \in 1 .. n
        /\ ~ (i < p) /\ i # p /\ ~ (j < p) /\ j # p /\ p \in 1 .. n /\ r \in 1 .. n
    BY <1>1, <1>2, <1>9
  <2>2. u[i] = (IF a = r THEN s[p] ELSE s[a]) /\ u[j] = (IF b = r THEN s[p] ELSE s[b])
    <3>1. Origin(s, n, i) = (IF a = r THEN p ELSE a) /\ Origin(s, n, j) = (IF b = r THEN p ELSE b)
      BY <1>4, <2>1
    <3>2. QED
      BY <1>3, <2>1, <3>1
  <2> HIDE DEF a, b
  <2>3. s[a] <= s[b] /\ s[a] \in Nat /\ s[b] \in Nat /\ s[p] \in Nat /\ a \in Nat /\ b \in Nat
        /\ r \in Nat /\ s[r] \in Nat
    BY <1>1, <1>5, <2>1
  <2>4. CASE a = r /\ b = r
    BY <2>2, <2>3, <2>4
  <2>5. CASE a = r /\ b # r
    BY <1>2, <2>2, <2>3, <2>5
  <2>6. CASE a # r /\ b = r
    <3>1. a \in r + 1 .. n
      BY <2>1, <2>3, <2>6
    <3>2. QED
      BY <1>2, <2>2, <2>6, <3>1
  <2>7. CASE a # r /\ b # r
    BY <2>2, <2>3, <2>7
  <2>8. QED
    BY <2>4, <2>5, <2>6, <2>7
<1>10. u[p] > s[p]
  BY <1>2, <1>7
<1>11. QED
  BY <1>1, <1>6, <1>8, <1>9, <1>10 DEF p, u

LEMMA NextIsLater ==
  ASSUME NEW n \in Nat, NEW s \in [1 .. n -> Thread], Rises(s) # {}
  PROVE  Later(NextPermutation(s), s)
<1>1. /\ LastRise(s) \in 1 .. n /\ NextPermutation(s)[LastRise(s)] > s[LastRise(s)]
      /\ \A i \in 1 .. LastRise(s) - 1 : NextPermutation(s)[i] = s[i]
  <2>1. /\ LastRise(s) \in 1 .. n - 1 /\ NextPermutation(s)[LastRise(s)] > s[LastRise(s)]
        /\ \A i \in 1 .. LastRise(s) - 1 : NextPermutation(s)[i] = s[i]
    BY NextIs
  <2>2. QED
    BY <2>1
<1>2. QED
  BY <1>1 DEF Later

(* No rearrangement lies between a sequence and the next one.              *)
LEMMA NextIsNext ==
  ASSUME NEW n \in Nat, NEW s \in [1 .. n -> Thread], Rises(s) # {},
         NEW w \in [1 .. n -> Thread], Same(s, w), Later(NextPermutation(s), w)
  PROVE  w = s \/ Later(s, w)
<1> DEFINE p == LastRise(s)
           u == NextPermutation(s)
<1>1. SUFFICES ASSUME w # s, ~ Later(s, w) PROVE FALSE
  OBVIOUS
<1>2. Later(w, s)
  BY <1>1, Trichotomy
<1>3. PICK d \in 1 .. n : w[d] > s[d] /\ \A i \in 1 .. d - 1 : w[i] = s[i]
  BY <1>2 DEF Later
<1>4. PICK e \in 1 .. n : u[e] > w[e] /\ \A i \in 1 .. e - 1 : u[i] = w[i]
  BY DEF Later
<1>5. /\ p \in 1 .. n - 1
      /\ \A i \in 1 .. p - 1 : u[i] = s[i]
      /\ u[p] > s[p]
      /\ \A k \in p + 1 .. n : s[k] > s[p] => u[p] <= s[k]
      /\ \A i, j \in p + 1 .. n : i <= j => u[i] <= u[j]
  BY NextIs
<1>6. \A i, j \in p + 1 .. n : i <= j => s[j] <= s[i]
  BY RiseIs
<1>7. u \in [1 .. n -> Thread] /\ Same(u, s)
  BY NextIsSame
<1> HIDE DEF p, u
<1>8. \A k \in 1 .. n : k \in Nat /\ s[k] \in Nat /\ w[k] \in Nat /\ u[k] \in Nat
  BY <1>7, Numbers, Threads
<1>9. PICK k \in d .. n : s[k] = w[d]
  BY <1>3, ComesLater
<1>10. d \in Nat /\ e \in Nat /\ p \in Nat /\ k \in 1 .. n /\ k \in Nat /\ d <= k /\ p \in 1 .. n
  BY <1>5, <1>8, <1>9
<1>11. ASSUME d > p PROVE FALSE
  <2>1. d \in p + 1 .. n /\ k \in p + 1 .. n
    BY <1>10, <1>11
  <2>2. s[k] <= s[d]
    BY <1>6, <1>10, <2>1
  <2>3. QED
    BY <1>3, <1>8, <1>9, <1>10, <2>2
<1>12. ASSUME d < p PROVE FALSE
  <2>1. d \in 1 .. p - 1 /\ u[d] = s[d]
    BY <1>5, <1>10, <1>12
  <2>2. CASE e < d
    <3>1. e \in 1 .. d - 1 /\ e \in 1 .. p - 1
      BY <1>10, <1>12, <2>2
    <3>2. u[e] = s[e] /\ w[e] = s[e]
      BY <1>3, <1>5, <3>1
    <3>3. QED
      BY <1>4, <1>8, <3>2
  <2>3. CASE e = d
    BY <1>3, <1>4, <1>8, <2>1, <2>3
  <2>4. CASE e > d
    <3>1. d \in 1 .. e - 1
      BY <1>10, <2>4
    <3>2. u[d] = w[d]
      BY <1>4, <3>1
    <3>3. QED
      BY <1>3, <1>8, <2>1, <3>2
  <2>5. QED
    BY <1>10, <2>2, <2>3, <2>4
<1>13. ASSUME d = p PROVE FALSE
  <2>1. k # p
    BY <1>3, <1>8, <1>9, <1>10, <1>13
  <2>2. k \in p + 1 .. n
    BY <1>10, <1>13, <2>1
  <2>3. u[p] <= w[p]
    BY <1>3, <1>5, <1>9, <1>13, <2>2
  <2>4. CASE e < p
    <3>1. e \in 1 .. p - 1 /\ e \in 1 .. d - 1
      BY <1>10, <1>13, <2>4
    <3>2. u[e] = s[e] /\ w[e] = s[e]
      BY <1>3, <1>5, <3>1
    <3>3. QED
      BY <1>4, <1>8, <3>2
  <2>5. CASE e = p
    BY <1>4, <1>8, <2>3, <2>5
  <2>6. CASE e > p
    <3>1. Same(u, w)
      BY <1>7 DEF Same
    <3>2. PICK m \in e .. n : u[m] = w[e]
      BY <1>4, <1>7, <3>1, ComesLater
    <3>3. m \in p + 1 .. n /\ e \in p + 1 .. n /\ e <= m /\ m \in 1 .. n
      BY <1>10, <2>6
    <3>4. u[e] <= u[m]
      BY <1>5, <3>3
    <3>5. QED
      BY <1>4, <1>8, <3>2, <3>3, <3>4
  <2>7. QED
    BY <1>10, <2>4, <2>5, <2>6
<1>14. QED
  BY <1>10, <1>11, <1>12, <1>13

(* Without a rise, a sequence is the last one.                             *)
LEMMA LastIsLast ==
  ASSUME NEW n \in Nat, NEW s \in [1 .. n -> Thread], Rises(s) = {},
         NEW w \in [1 .. n -> Thread], Same(s, w)
  PROVE  w = s \/ Later(s, w)
<1>1. SUFFICES ASSUME Later(w, s) PROVE FALSE
  BY Trichotomy
<1>2. PICK d \in 1 .. n : w[d] > s[d] /\ \A i \in 1 .. d - 1 : w[i] = s[i]
  BY <1>1 DEF Later
<1>3. PICK k \in d .. n : s[k] = w[d]
  BY <1>2, ComesLater
<1>4. \A i \in 1 .. n - 1 : ~ (s[i] < s[i + 1])
  BY LenIs DEF Rises
<1>5. \A i, j \in 1 .. n : i <= j => s[j] <= s[i]
  <2>1. 1 \in Nat /\ 1 >= 1
    OBVIOUS
  <2>2. QED
    BY <1>4, <2>1, Falling
<1>6. k \in 1 .. n /\ d <= k
  OBVIOUS
<1>7. s[k] <= s[d] /\ s[k] \in Nat /\ s[d] \in Nat /\ w[d] \in Nat
  BY <1>5, <1>6, Threads
<1>8. QED
  BY <1>2, <1>3, <1>7

-----------------------------------------------------------------------------
(* The invariant.                                                          *)

Event == [type : {"CALL_FUNC", "RETURN_FUNC"}, func : Methods, thread : Thread, val : Int]

(* A return follows its thread's call, with no event of it in between.     *)
HistoryOK ==
  /\ trace_rec \in Seq(Event)
  /\ \A t \in Thread : \A r \in Events(t) :
        trace_rec[r].type = "RETURN_FUNC" =>
          \E c \in Events(t) : /\ c < r /\ trace_rec[c].type = "CALL_FUNC"
                              /\ \A k \in Events(t) : k < r => k <= c

(* The tests of checkHistory on interleaving p of the calls C.             *)
Keeps(C, p) ==
  \A i, j \in DOMAIN p :
     i < j => Overlap(C[p[i]], C[p[j]]) \/ ~ (C[p[i]].call > C[p[j]].call)
Explains(C, prog, prop, p) ==
  (prop = "LIN" => Keeps(C, p)) /\ Run(prog, [i \in DOMAIN p |-> C[p[i]]]).ok

Explanation(w) ==
  Explains(init_perm, programToCheck, Property, Interleaving(init_perm, w))

Listed ==
  check # "recording" =>
    /\ init_perm = Completed
    /\ Fits(thread_perm, init_perm)
    /\ curr_perm = Interleaving(init_perm, thread_perm)

Tried ==
  /\ check = "checking" =>
       \A w : Fits(w, init_perm) /\ Later(thread_perm, w) => ~ Explanation(w)
  /\ check = "failed" => \A w : Fits(w, init_perm) => ~ Explanation(w)
  /\ check = "succeeded" => Explanation(thread_perm)

CInv ==
  /\ programToCheck \in Checked /\ Property \in Asked
  /\ check \in {"recording", "checking"} \cup Verdict
  /\ HistoryOK /\ Listed /\ Tried

-----------------------------------------------------------------------------
(* The list of completed calls.                                            *)

LEMMA EventNumbers ==
  ASSUME HistoryOK
  PROVE  /\ Len(trace_rec) \in Nat /\ DOMAIN trace_rec = 1 .. Len(trace_rec)
         /\ \A k \in DOMAIN trace_rec : k \in Nat /\ trace_rec[k] \in Event
         /\ \A t : /\ IsFiniteSet(Events(t)) /\ Events(t) \subseteq Nat
                   /\ Events(t) \subseteq DOMAIN trace_rec
         /\ IsFiniteSet(Returns) /\ Returns \subseteq Nat /\ Returns \subseteq DOMAIN trace_rec
         /\ Cardinality(Returns) \in Nat
<1>1. /\ Len(trace_rec) \in Nat /\ DOMAIN trace_rec = 1 .. Len(trace_rec)
      /\ \A k \in DOMAIN trace_rec : trace_rec[k] \in Event
  BY LenProperties DEF HistoryOK
<1>2. IsFiniteSet(DOMAIN trace_rec) /\ \A k \in DOMAIN trace_rec : k \in Nat
  BY <1>1, Numbers
<1>3. Returns \subseteq DOMAIN trace_rec /\ \A t : Events(t) \subseteq DOMAIN trace_rec
  BY DEF Returns, Events
<1>4. \A t : IsFiniteSet(Events(t)) /\ Events(t) \subseteq Nat
  BY <1>2, <1>3, MoreIn
<1>5. IsFiniteSet(Returns) /\ Cardinality(Returns) \in Nat /\ Returns \subseteq Nat
  BY <1>2, <1>3, MoreIn
<1>6. QED
  BY <1>1, <1>2, <1>3, <1>4, <1>5

LEMMA CallOfIs ==
  ASSUME HistoryOK, NEW r \in Returns
  PROVE  /\ CallOf(r) \in Events(trace_rec[r].thread) /\ CallOf(r) < r /\ CallOf(r) \in Nat
         /\ trace_rec[CallOf(r)].type = "CALL_FUNC"
         /\ \A k \in Events(trace_rec[r].thread) : k < r => k <= CallOf(r)
<1> DEFINE K == {k \in Events(trace_rec[r].thread) : k < r}
<1>1. PICK c \in Events(trace_rec[r].thread) :
              /\ c < r /\ trace_rec[c].type = "CALL_FUNC"
              /\ \A k \in Events(trace_rec[r].thread) : k < r => k <= c
  <2>1. r \in DOMAIN trace_rec /\ trace_rec[r] \in Event /\ trace_rec[r].type = "RETURN_FUNC"
    BY EventNumbers DEF Returns
  <2>2. trace_rec[r].thread \in Thread /\ r \in Events(trace_rec[r].thread)
    BY <2>1 DEF Event, Events
  <2>3. QED
    BY <2>1, <2>2 DEF HistoryOK
<1>2. IsFiniteSet(Events(trace_rec[r].thread)) /\ Events(trace_rec[r].thread) \subseteq Nat
  BY EventNumbers
<1>3. K \subseteq Events(trace_rec[r].thread) /\ c \in K
  BY <1>1
<1>4. IsFiniteSet(K) /\ K \subseteq Nat /\ K # {}
  BY <1>2, <1>3, MoreIn
<1>5. Max(K) \in K /\ \A k \in K : k <= Max(K)
  BY <1>4, MaxIs
<1>6. Max(K) = c
  <2>1. Max(K) <= c /\ c <= Max(K)
    BY <1>1, <1>3, <1>5
  <2>2. Max(K) \in Nat /\ c \in Nat
    BY <1>3, <1>4, <1>5
  <2>3. QED
    BY <2>1, <2>2
<1>7. CallOf(r) = c
  BY <1>6 DEF CallOf
<1>8. QED
  BY <1>1, <1>2, <1>7

LEMMA CompletedIs ==
  ASSUME HistoryOK, NEW C, C = Completed, NEW n, n = Cardinality(Returns)
  PROVE  /\ n \in Nat /\ DOMAIN C = 1 .. n
         /\ \A i \in 1 .. n : /\ C[i].thread \in Thread
                              /\ C[i].call \in Nat /\ C[i].ret \in Nat /\ C[i].call < C[i].ret
                              /\ C[i].call \notin Returns /\ C[i].ret \in Returns
         /\ \A i, j \in 1 .. n : i < j => C[i].ret < C[j].ret
         /\ \A i, j \in 1 .. n : i < j /\ C[i].thread = C[j].thread => C[i].ret < C[j].call
<1>1. n \in Nat /\ IsFiniteSet(Returns) /\ Returns \subseteq Nat
  BY EventNumbers
<1>2. DOMAIN C = 1 .. n
  BY DEF Completed
<1>3. ASSUME NEW i \in 1 .. n
      PROVE  /\ C[i].ret = Nth(Returns, i) /\ C[i].ret \in Returns
             /\ C[i].thread = trace_rec[C[i].ret].thread
             /\ C[i].call = CallOf(C[i].ret)
  <2>1. Nth(Returns, i) \in Returns
    BY <1>1, NthIs
  <2>2. QED
    BY <2>1 DEF Completed
<1>4. ASSUME NEW i \in 1 .. n
      PROVE  /\ C[i].thread \in Thread
             /\ C[i].call \in Nat /\ C[i].ret \in Nat /\ C[i].call < C[i].ret
             /\ C[i].call \notin Returns /\ C[i].ret \in Returns
  <2>1. /\ C[i].call \in Nat /\ C[i].call < C[i].ret
        /\ trace_rec[C[i].call].type = "CALL_FUNC"
    BY <1>3, CallOfIs
  <2>2. C[i].call \notin Returns
    BY <2>1 DEF Returns
  <2>3. C[i].ret \in Nat /\ trace_rec[C[i].ret] \in Event
    BY <1>3, EventNumbers
  <2>4. C[i].thread \in Thread
    BY <1>3, <2>3 DEF Event
  <2>5. QED
    BY <1>3, <2>1, <2>2, <2>3, <2>4
<1>5. ASSUME NEW i \in 1 .. n, NEW j \in 1 .. n, i < j
      PROVE  C[i].ret < C[j].ret
  BY <1>1, <1>3, <1>5, NthGrows
<1>6. ASSUME NEW i \in 1 .. n, NEW j \in 1 .. n, i < j, C[i].thread = C[j].thread
      PROVE  C[i].ret < C[j].call
  <2>1. C[i].ret < C[j].ret
    BY <1>5, <1>6
  <2>2. C[i].ret \in Events(trace_rec[C[j].ret].thread)
    <3>1. C[i].ret \in DOMAIN trace_rec
      BY <1>3, EventNumbers
    <3>2. QED
      BY <1>3, <1>6, <3>1 DEF Events
  <2>3. C[i].ret <= C[j].call
    BY <1>3, <2>1, <2>2, CallOfIs
  <2>4. C[i].ret # C[j].call
    BY <1>4
  <2>5. QED
    BY <1>4, <2>3, <2>4
<1>7. QED
  BY <1>1, <1>2, <1>4, <1>5, <1>6

-----------------------------------------------------------------------------
(* The orders of the definition are those of the interleavings.            *)

LEMMA OrdersAreInterleavings ==
  ASSUME HistoryOK, NEW C, C = Completed
  PROVE  Explicable(C)
           <=> \E w : Fits(w, C) /\ Explains(C, programToCheck, Property, Interleaving(C, w))
<1> DEFINE n == Cardinality(Returns)
           N == 1 .. n
           kept(p) == \A i, j \in N : i < j => ~ Precedes(C[p[j]], C[p[i]])
<1>1. /\ n \in Nat /\ DOMAIN C = N
      /\ \A i \in N : /\ C[i].thread \in Thread
                      /\ C[i].call \in Nat /\ C[i].ret \in Nat /\ C[i].call < C[i].ret
                      /\ C[i].call \notin Returns /\ C[i].ret \in Returns
      /\ \A i, j \in N : i < j /\ C[i].thread = C[j].thread => C[i].ret < C[j].call
  BY CompletedIs
<1> HIDE DEF n
<1>2. IsFiniteSet(N) /\ \A i \in N : i \in Nat
  BY <1>1, Numbers
<1> HIDE DEF N
<1>3. Explicable(C) <=> \E p \in [N -> N] : /\ Range(p) = N /\ kept(p)
                                            /\ Run(programToCheck, [i \in N |-> C[p[i]]]).ok
  BY <1>1 DEF Explicable
<1>4. ASSUME NEW p \in [N -> N], Range(p) = N, kept(p),
             Run(programToCheck, [i \in N |-> C[p[i]]]).ok
      PROVE  \E w : Fits(w, C) /\ Explains(C, programToCheck, Property, Interleaving(C, w))
  <2>1. p \in Surjection(N, N)
    BY <1>4 DEF Range, Surjection
  <2>2. p \in Bijection(N, N)
    BY <1>2, <2>1, FS_SurjSameCardinalityImpliesInj DEF Bijection
  <2>3. \A i, j \in N : p[i] = p[j] => i = j
    BY <2>2 DEF Bijection, Injection, IsInjective
  <2>4. ASSUME NEW i \in N, NEW j \in N, i < j, C[p[i]].thread = C[p[j]].thread
        PROVE  p[i] < p[j]
    <3>1. p[i] \in N /\ p[j] \in N /\ i \in Nat /\ j \in Nat /\ p[i] \in Nat /\ p[j] \in Nat
      BY <1>2
    <3>2. p[i] # p[j]
      BY <2>3, <2>4, <3>1
    <3>3. ~ Precedes(C[p[j]], C[p[i]])
      BY <1>4, <2>4
    <3>4. ~ (p[j] < p[i])
      BY <1>1, <2>4, <3>1, <3>3 DEF Precedes
    <3>5. QED
      BY <3>1, <3>2, <3>4
  <2>5. InOrder(p, C)
    BY <1>1, <2>4 DEF InOrder
  <2> DEFINE w == [i \in N |-> C[p[i]].thread]
  <2>6. Fits(w, C) /\ Interleaving(C, w) = p
    BY <1>1, <2>2, <2>5, InterleavingOf DEF N
  <2>7. ASSUME Property = "LIN", NEW i \in N, NEW j \in N, i < j
        PROVE  Overlap(C[p[i]], C[p[j]]) \/ ~ (C[p[i]].call > C[p[j]].call)
    <3>1. p[i] \in N /\ p[j] \in N
      BY <1>2
    <3>2. ~ Precedes(C[p[j]], C[p[i]])
      BY <1>4, <2>7
    <3>3. ~ (C[p[j]].ret < C[p[i]].call)
      BY <2>7, <3>2 DEF Precedes
    <3>4. C[p[j]].ret # C[p[i]].call /\ C[p[j]].ret \in Nat /\ C[p[i]].call \in Nat
      BY <1>1, <3>1
    <3>5. QED
      BY <3>3, <3>4 DEF Overlap
  <2>8. DOMAIN p = N
    OBVIOUS
  <2>9. Explains(C, programToCheck, Property, p)
    BY <1>4, <2>7, <2>8 DEF Explains, Keeps
  <2>10. QED
    BY <2>6, <2>9
<1>5. ASSUME NEW w, Fits(w, C), Explains(C, programToCheck, Property, Interleaving(C, w))
      PROVE  Explicable(C)
  <2> DEFINE p == Interleaving(C, w)
  <2>1. p \in Bijection(N, N) /\ InOrder(p, C)
    BY <1>1, <1>5, InterleavingIs DEF N
  <2> HIDE DEF p
  <2>2. p \in [N -> N] /\ DOMAIN p = N /\ Range(p) = N
    BY <2>1 DEF Bijection, Surjection, Range
  <2>3. ASSUME NEW i \in N, NEW j \in N, i < j, Precedes(C[p[j]], C[p[i]])
        PROVE  FALSE
    <3>1. p[i] \in N /\ p[j] \in N
      BY <2>2
    <3>2. /\ C[p[i]].call \in Nat /\ C[p[i]].ret \in Nat /\ C[p[i]].call < C[p[i]].ret
          /\ C[p[j]].call \in Nat /\ C[p[j]].ret \in Nat /\ C[p[j]].call < C[p[j]].ret
          /\ C[p[j]].ret < C[p[i]].call
      BY <1>1, <2>3, <3>1 DEF Precedes
    <3>3. CASE C[p[i]].thread = C[p[j]].thread
      <4>1. p[i] < p[j]
        BY <1>1, <2>1, <2>3, <3>3 DEF InOrder
      <4>2. C[p[i]].ret < C[p[j]].call
        BY <1>1, <3>1, <3>3, <4>1
      <4>3. QED
        BY <3>2, <4>2
    <3>4. CASE Property = "LIN"
      <4>1. Overlap(C[p[i]], C[p[j]]) \/ ~ (C[p[i]].call > C[p[j]].call)
        BY <1>5, <2>2, <2>3, <3>4 DEF Explains, Keeps, p
      <4>2. QED
        BY <3>2, <4>1 DEF Overlap
    <3>5. QED
      BY <2>3, <3>3, <3>4 DEF Precedes
  <2>4. Run(programToCheck, [i \in N |-> C[p[i]]]).ok
    BY <1>5, <2>2 DEF Explains, p
  <2>5. kept(p)
    BY <2>3
  <2>6. QED
    BY <1>3, <2>2, <2>4, <2>5
<1>6. QED
  BY <1>3, <1>4, <1>5

-----------------------------------------------------------------------------
(* The recorded program.                                                   *)

LEMMA EmptyHistory ==
  ASSUME trace_rec = <<>> PROVE HistoryOK
<1>1. trace_rec \in Seq(Event)
  OBVIOUS
<1>2. \A t : Events(t) = {}
  BY DEF Events
<1>3. QED
  BY <1>1, <1>2 DEF HistoryOK

(* What a new event changes.                                               *)
LEMMA NewEvent ==
  ASSUME HistoryOK, NEW e \in Event, trace_rec' = Append(trace_rec, e),
         UNCHANGED programToCheck, NEW n, n = Len(trace_rec)
  PROVE  /\ n \in Nat /\ DOMAIN trace_rec = 1 .. n /\ DOMAIN trace_rec' = 1 .. n + 1
         /\ trace_rec' \in Seq(Event)'
         /\ \A k \in 1 .. n : trace_rec'[k] = trace_rec[k] /\ k < n + 1 /\ ~ (n + 1 < k)
         /\ trace_rec'[n + 1] = e /\ n + 1 \notin 1 .. n
         /\ \A t : /\ Events(t) \subseteq 1 .. n
                   /\ Events(t)' = Events(t) \cup (IF e.thread = t THEN {n + 1} ELSE {})
<1>1. trace_rec \in Seq(Event)
  BY DEF HistoryOK
<1>2. n \in Nat /\ DOMAIN trace_rec = 1 .. n
  BY <1>1, LenProperties
<1>3. /\ trace_rec' \in Seq(Event) /\ DOMAIN trace_rec' = 1 .. n + 1
      /\ \A k \in 1 .. n : trace_rec'[k] = trace_rec[k]
      /\ trace_rec'[n + 1] = e
  BY <1>1, <1>2, AppendProperties, LenProperties
<1>4. \A k : k \in 1 .. n + 1 <=> k \in 1 .. n \/ k = n + 1
  BY <1>2
<1>5. \A k \in 1 .. n : k < n + 1 /\ ~ (n + 1 < k)
  BY <1>2
<1>6. n + 1 \notin 1 .. n
  BY <1>2
<1>7. Event' = Event
  BY DEF Event, Methods
<1>8. ASSUME NEW t
      PROVE  /\ Events(t) \subseteq 1 .. n
             /\ Events(t)' = Events(t) \cup (IF e.thread = t THEN {n + 1} ELSE {})
  <2>1. Events(t)' = {k \in 1 .. n + 1 : trace_rec'[k].thread = t}
    BY <1>3 DEF Events
  <2>2. Events(t) = {k \in 1 .. n : trace_rec[k].thread = t}
    BY <1>2 DEF Events
  <2>3. QED
    BY <2>1, <2>2, <1>3, <1>4, <1>6
<1>9. QED
  BY <1>2, <1>3, <1>5, <1>6, <1>7, <1>8

(* It follows its thread's open call, or is a call.                        *)
LEMMA NewEventKeeps ==
  ASSUME HistoryOK, NEW e \in Event, trace_rec' = Append(trace_rec, e),
         UNCHANGED programToCheck,
         e.type = "RETURN_FUNC" =>
           \E c \in Events(e.thread) : /\ trace_rec[c].type = "CALL_FUNC"
                                       /\ \A k \in Events(e.thread) : k <= c
  PROVE  HistoryOK'
<1> DEFINE n == Len(trace_rec)
<1>1. /\ n \in Nat
      /\ trace_rec' \in Seq(Event)'
      /\ \A k \in 1 .. n : trace_rec'[k] = trace_rec[k] /\ k < n + 1 /\ ~ (n + 1 < k)
      /\ trace_rec'[n + 1] = e /\ n + 1 \notin 1 .. n
      /\ \A t : /\ Events(t) \subseteq 1 .. n
                /\ Events(t)' = Events(t) \cup (IF e.thread = t THEN {n + 1} ELSE {})
  BY NewEvent
<1>2. PICK m : m = n + 1
  OBVIOUS
<1>3. ~ (m < m)
  BY <1>1, <1>2
<1> HIDE DEF n
<1>4. ASSUME NEW t \in Thread, NEW r \in Events(t)', trace_rec'[r].type = "RETURN_FUNC"
      PROVE  \E c \in Events(t)' : /\ c < r /\ trace_rec'[c].type = "CALL_FUNC"
                                   /\ \A k \in Events(t)' : k < r => k <= c
  <2>1. CASE r \in Events(t)
    <3>1. r \in 1 .. n /\ trace_rec[r].type = "RETURN_FUNC"
      BY <1>1, <1>4, <2>1
    <3>2. PICK c \in Events(t) : /\ c < r /\ trace_rec[c].type = "CALL_FUNC"
                                 /\ \A k \in Events(t) : k < r => k <= c
      BY <2>1, <3>1 DEF HistoryOK
    <3>3. c \in Events(t)' /\ trace_rec'[c].type = "CALL_FUNC"
      BY <1>1, <3>2
    <3>4. \A k \in Events(t)' : k < r => k <= c
      BY <1>1, <3>1, <3>2
    <3>5. QED
      BY <3>2, <3>3, <3>4
  <2>2. CASE r \notin Events(t)
    <3>1. r = m /\ e.thread = t /\ e.type = "RETURN_FUNC"
      BY <1>1, <1>2, <1>4, <2>2
    <3>2. PICK c \in Events(t) : /\ trace_rec[c].type = "CALL_FUNC"
                                 /\ \A k \in Events(t) : k <= c
      BY <3>1
    <3>3. c \in Events(t)' /\ trace_rec'[c].type = "CALL_FUNC" /\ c < r
      BY <1>1, <1>2, <3>1, <3>2
    <3>4. \A k \in Events(t)' : k < r => k <= c
      BY <1>1, <1>2, <1>3, <3>1, <3>2
    <3>5. QED
      BY <3>3, <3>4
  <2>3. QED
    BY <2>1, <2>2
<1>5. QED
  BY <1>1, <1>4 DEF HistoryOK

LEMMA InvokeKeeps ==
  ASSUME HistoryOK, NEW t \in Thread, Invoke(t)
  PROVE  HistoryOK'
<1>1. PICK f \in Methods, x \in Task :
              trace_rec' = Append(trace_rec, [type |-> "CALL_FUNC", func |-> f, thread |-> t, val |-> x])
  BY DEF Invoke
<1> DEFINE e == [type |-> "CALL_FUNC", func |-> f, thread |-> t, val |-> x]
<1>2. e \in Event
  BY CallsAssumption DEF Event
<1>3. trace_rec' = Append(trace_rec, e) /\ UNCHANGED programToCheck
  BY <1>1 DEF Invoke, params
<1>4. e.type # "RETURN_FUNC"
  OBVIOUS
<1> HIDE DEF e
<1>5. QED
  BY <1>2, <1>3, <1>4, NewEventKeeps

LEMMA RespondKeeps ==
  ASSUME HistoryOK, NEW t \in Thread, Respond(t)
  PROVE  HistoryOK'
<1> DEFINE c == Max(Events(t))
<1>1. IsFiniteSet(Events(t)) /\ Events(t) \subseteq Nat /\ Events(t) # {}
      /\ Events(t) \subseteq DOMAIN trace_rec
      /\ \A k \in DOMAIN trace_rec : trace_rec[k] \in Event
  BY EventNumbers DEF Respond, Open
<1>2. c \in Events(t) /\ \A k \in Events(t) : k <= c
  BY <1>1, MaxIs
<1>3. PICK v \in Results(trace_rec[c].func) :
              trace_rec' = Append(trace_rec, [type |-> "RETURN_FUNC", func |-> trace_rec[c].func,
                                              thread |-> t, val |-> v])
  BY DEF Respond
<1>4. trace_rec[c].type = "CALL_FUNC" /\ UNCHANGED programToCheck
  BY DEF Respond, Open, params
<1> HIDE DEF c
<1>5. trace_rec[c].func \in Methods
  BY <1>1, <1>2 DEF Event
<1>6. v \in Int
  BY <1>3, CallsAssumption DEF Results, EMPTY
<1> DEFINE e == [type |-> "RETURN_FUNC", func |-> trace_rec[c].func, thread |-> t, val |-> v]
<1>7. e \in Event /\ e.thread = t
  BY <1>5, <1>6 DEF Event
<1>8. trace_rec' = Append(trace_rec, e)
  BY <1>3
<1> HIDE DEF e
<1>9. QED
  BY <1>2, <1>4, <1>7, <1>8, NewEventKeeps

-----------------------------------------------------------------------------
(* The checker.                                                            *)

LEMMA HistoryStays ==
  ASSUME UNCHANGED <<trace_rec, programToCheck>>
  PROVE  /\ HistoryOK => HistoryOK'
         /\ Completed' = Completed
<1>1. Event' = Event /\ \A t : Events(t)' = Events(t)
  BY DEF Event, Methods, Events
<1>2. HistoryOK => HistoryOK'
  BY <1>1 DEF HistoryOK
<1>3. Returns' = Returns /\ \A r : CallOf(r)' = CallOf(r)
  BY DEF Returns, CallOf, Events
<1>4. Completed' = Completed
  BY <1>3 DEF Completed
<1>5. QED
  BY <1>2, <1>4

(* The completed calls and the sequences of threads that fit them.         *)
LEMMA CallsAndThreads ==
  ASSUME HistoryOK, NEW C, C = Completed
  PROVE  \E n \in Nat :
           /\ DOMAIN C = 1 .. n /\ \A i \in 1 .. n : C[i].thread \in Thread
           /\ \A s, w : Fits(s, C) /\ Fits(w, C) =>
                 s \in [1 .. n -> Thread] /\ w \in [1 .. n -> Thread] /\ Same(s, w)
           /\ \A s, w : Fits(s, C) /\ w \in [1 .. n -> Thread] /\ Same(w, s) => Fits(w, C)
<1> DEFINE n == Cardinality(Returns)
<1>1. n \in Nat /\ DOMAIN C = 1 .. n /\ \A i \in 1 .. n : C[i].thread \in Thread
  BY CompletedIs
<1> HIDE DEF n
<1>2. \A s, w : Fits(s, C) /\ Fits(w, C) =>
                  s \in [1 .. n -> Thread] /\ w \in [1 .. n -> Thread] /\ Same(s, w)
  BY <1>1 DEF Fits, Same
<1>3. \A s, w : Fits(s, C) /\ w \in [1 .. n -> Thread] /\ Same(w, s) => Fits(w, C)
  BY <1>1 DEF Fits, Same
<1>4. QED
  BY <1>1, <1>2, <1>3

LEMMA GenInitKeeps ==
  ASSUME CInv, GenInit
  PROVE  Listed' /\ Tried'
<1>1. PICK C : C = Completed
  OBVIOUS
<1>2. HistoryOK /\ Completed' = C
  BY <1>1, HistoryStays DEF CInv, GenInit, params
<1>3. PICK n \in Nat :
           /\ DOMAIN C = 1 .. n /\ \A i \in 1 .. n : C[i].thread \in Thread
           /\ \A s, w : Fits(s, C) /\ Fits(w, C) =>
                 s \in [1 .. n -> Thread] /\ w \in [1 .. n -> Thread] /\ Same(s, w)
  BY <1>1, <1>2, CallsAndThreads
<1>4. PICK s : s = SortedThreads(C)
  OBVIOUS
<1>5. init_perm' = C /\ thread_perm' = s /\ curr_perm' = Interleaving(C, s) /\ check' = "checking"
  BY <1>1, <1>4 DEF GenInit
<1>6. Fits(s, C) /\ \A i, j \in 1 .. n : i <= j => s[i] <= s[j]
  BY <1>3, <1>4, SortedIs
<1>7. Listed'
  BY <1>2, <1>5, <1>6 DEF Listed
<1>8. ASSUME NEW w, Fits(w, C) PROVE ~ Later(s, w)
  <2>1. s \in [1 .. n -> Thread] /\ w \in [1 .. n -> Thread] /\ Same(s, w)
    BY <1>3, <1>6, <1>8
  <2>2. QED
    BY <1>6, <2>1, SortedIsFirst
<1>9. Tried'
  BY <1>5, <1>8 DEF Tried
<1>10. QED
  BY <1>7, <1>9

(* What the checker tests is whether the present sequence is one that      *)
(* explains the history.                                                   *)
LEMMA ExplainedIs ==
  ASSUME CInv, check = "checking"
  PROVE  Explained <=> Explanation(thread_perm)
<1>1. curr_perm = Interleaving(init_perm, thread_perm)
  BY DEF CInv, Listed
<1>2. checkPermutation <=> Run(programToCheck, [i \in DOMAIN curr_perm |-> init_perm[curr_perm[i]]]).ok
  BY DEF checkPermutation
<1>3. isRealTimeOrderPreserved <=> Keeps(init_perm, curr_perm)
  BY DEF isRealTimeOrderPreserved, Keeps
<1>4. Explained <=> Explains(init_perm, programToCheck, Property, curr_perm)
  BY <1>2, <1>3 DEF Explained, Explains
<1>5. QED
  BY <1>1, <1>4 DEF Explanation

LEMMA GenNextKeeps ==
  ASSUME CInv, GenNext
  PROVE  Listed' /\ Tried'
<1>1. PICK C, s : C = init_perm /\ s = thread_perm
  OBVIOUS
<1>2. /\ HistoryOK /\ C = Completed /\ Fits(s, C) /\ check = "checking" /\ ~ Explanation(s)
      /\ \A w : Fits(w, C) /\ Later(s, w) => ~ Explanation(w)
  BY <1>1, ExplainedIs DEF CInv, Listed, Tried, GenNext
<1>3. PICK n \in Nat :
           /\ \A r, w : Fits(r, C) /\ Fits(w, C) =>
                 r \in [1 .. n -> Thread] /\ w \in [1 .. n -> Thread] /\ Same(r, w)
           /\ \A r, w : Fits(r, C) /\ w \in [1 .. n -> Thread] /\ Same(w, r) => Fits(w, C)
  BY <1>2, CallsAndThreads
<1>4. PICK u : u = NextPermutation(s)
  OBVIOUS
<1>5. /\ thread_perm' = u /\ curr_perm' = Interleaving(C, u) /\ init_perm' = C
      /\ check' = "checking" /\ Rises(s) # {} /\ Completed' = C
      /\ programToCheck' = programToCheck /\ Property' = Property
  BY <1>1, <1>2, <1>4, HistoryStays DEF GenNext, params
<1>6. s \in [1 .. n -> Thread]
  BY <1>2, <1>3
<1>7. Fits(u, C)
  BY <1>2, <1>3, <1>4, <1>5, <1>6, NextIsSame
<1>8. Listed'
  BY <1>5, <1>7 DEF Listed
<1>9. ASSUME NEW w, Fits(w, C), Later(u, w)
      PROVE  ~ Explanation(w)
  <2>1. w \in [1 .. n -> Thread] /\ Same(s, w)
    BY <1>2, <1>3, <1>9
  <2>2. w = s \/ Later(s, w)
    BY <1>4, <1>5, <1>6, <1>9, <2>1, NextIsNext
  <2>3. QED
    BY <1>2, <1>9, <2>2
<1>10. \A w : Explanation(w)' <=> Explanation(w)
  BY <1>1, <1>5 DEF Explanation
<1>11. Tried'
  BY <1>5, <1>9, <1>10 DEF Tried
<1>12. QED
  BY <1>8, <1>11

LEMMA VerdictKeeps ==
  ASSUME CInv, Accept \/ Reject
  PROVE  Listed' /\ Tried'
<1>1. PICK C, s : C = init_perm /\ s = thread_perm
  OBVIOUS
<1>2. /\ HistoryOK /\ C = Completed /\ Fits(s, C) /\ check = "checking"
      /\ curr_perm = Interleaving(C, s)
      /\ \A w : Fits(w, C) /\ Later(s, w) => ~ Explanation(w)
  BY <1>1 DEF CInv, Listed, Tried, Accept, Reject
<1>3. Explained <=> Explanation(s)
  BY <1>1, <1>2, ExplainedIs
<1>4. /\ thread_perm' = s /\ curr_perm' = curr_perm /\ init_perm' = C /\ Completed' = C
      /\ programToCheck' = programToCheck /\ Property' = Property
  BY <1>1, <1>2, HistoryStays DEF Accept, Reject, params, perms
<1>5. \A w : Explanation(w)' <=> Explanation(w)
  BY <1>1, <1>4 DEF Explanation
<1>6. Listed'
  BY <1>2, <1>4 DEF Listed
<1>7. CASE Accept
  <2>1. check' = "succeeded" /\ Explanation(s)
    BY <1>3, <1>7 DEF Accept
  <2>2. QED
    BY <1>4, <1>5, <1>6, <2>1 DEF Tried
<1>8. CASE Reject
  <2>1. check' = "failed" /\ ~ Explanation(s) /\ Rises(s) = {}
    BY <1>1, <1>3, <1>8 DEF Reject
  <2>2. ASSUME NEW w, Fits(w, C) PROVE ~ Explanation(w)
    <3>1. PICK n \in Nat : s \in [1 .. n -> Thread] /\ w \in [1 .. n -> Thread] /\ Same(s, w)
      BY <1>2, <2>2, CallsAndThreads
    <3>2. w = s \/ Later(s, w)
      BY <2>1, <3>1, LastIsLast
    <3>3. QED
      BY <1>2, <2>1, <2>2, <3>2
  <2>3. QED
    BY <1>4, <1>5, <1>6, <2>1, <2>2 DEF Tried
<1>9. QED
  BY <1>7, <1>8

-----------------------------------------------------------------------------
(* The invariant.                                                          *)

LEMMA InitHolds == Init => CInv
<1>1. SUFFICES ASSUME Init PROVE CInv
  OBVIOUS
<1>2. HistoryOK
  BY <1>1, EmptyHistory DEF Init
<1>3. QED
  BY <1>1, <1>2 DEF CInv, Init, Listed, Tried

LEMMA NextKeeps == CInv /\ [Next]_vars => CInv'
<1>1. SUFFICES ASSUME CInv, [Next]_vars PROVE CInv'
  OBVIOUS
<1>2. CASE \E t \in Thread : Invoke(t) \/ Respond(t)
  <2>1. PICK t \in Thread : Invoke(t) \/ Respond(t)
    BY <1>2
  <2>2. HistoryOK'
    BY <1>1, <2>1, InvokeKeeps, RespondKeeps DEF CInv
  <2>3. check' = "recording" /\ UNCHANGED params
    BY <2>1 DEF Invoke, Respond
  <2>4. QED
    BY <1>1, <2>2, <2>3 DEF CInv, Listed, Tried, params
<1>3. CASE GenInit \/ GenNext \/ Accept \/ Reject
  <2>1. HistoryOK'
    BY <1>1, <1>3, HistoryStays DEF CInv, GenInit, GenNext, Accept, Reject, params
  <2>2. UNCHANGED params /\ check' \in {"checking"} \cup Verdict
    BY <1>3 DEF GenInit, GenNext, Accept, Reject, Verdict
  <2>3. Listed' /\ Tried'
    BY <1>1, <1>3, GenInitKeeps, GenNextKeeps, VerdictKeeps
  <2>4. QED
    BY <1>1, <2>1, <2>2, <2>3 DEF CInv, params, Verdict
<1>4. CASE UNCHANGED vars
  <2>1. /\ UNCHANGED <<programToCheck, Property, trace_rec, check>>
        /\ UNCHANGED <<init_perm, thread_perm, curr_perm>>
    BY <1>4 DEF vars
  <2>2. HistoryOK' /\ Completed' = Completed
    BY <1>1, <2>1, HistoryStays DEF CInv
  <2>3. \A w : Explanation(w)' <=> Explanation(w)
    BY <2>1 DEF Explanation
  <2>4. Listed' /\ Tried'
    BY <1>1, <2>1, <2>2, <2>3 DEF CInv, Listed, Tried
  <2>5. QED
    BY <1>1, <2>1, <2>2, <2>4 DEF CInv, Verdict
<1>5. QED
  BY <1>1, <1>2, <1>3, <1>4 DEF Next

LEMMA Invariant == Spec => []CInv
BY InitHolds, NextKeeps, PTL DEF Spec

LEMMA TypesHold ==
  ASSUME CInv PROVE TypeOK
<1>1. ASSUME NEW k \in DOMAIN trace_rec
      PROVE  trace_rec[k].func \in Methods /\ trace_rec[k].thread \in Thread
  <2>1. trace_rec[k] \in Event
    BY EventNumbers DEF CInv
  <2>2. QED
    BY <2>1 DEF Event
<1>2. ASSUME check # "recording"
      PROVE  /\ DOMAIN thread_perm = DOMAIN init_perm /\ DOMAIN curr_perm = DOMAIN init_perm
             /\ \A i \in DOMAIN curr_perm : init_perm[curr_perm[i]].thread = thread_perm[i]
  <2>1. /\ HistoryOK /\ init_perm = Completed /\ Fits(thread_perm, init_perm)
        /\ curr_perm = Interleaving(init_perm, thread_perm)
    BY <1>2 DEF CInv, Listed
  <2>2. PICK n \in Nat : DOMAIN init_perm = 1 .. n
    BY <2>1, CallsAndThreads
  <2>3. /\ curr_perm \in Bijection(DOMAIN init_perm, DOMAIN init_perm)
        /\ \A i \in DOMAIN init_perm : init_perm[curr_perm[i]].thread = thread_perm[i]
    BY <2>1, <2>2, InterleavingIs
  <2>4. DOMAIN curr_perm = DOMAIN init_perm
    BY <2>3 DEF Bijection, Injection
  <2>5. DOMAIN thread_perm = DOMAIN init_perm
    BY <2>1 DEF Fits
  <2>6. QED
    BY <2>3, <2>4, <2>5
<1>3. QED
  BY <1>1, <1>2 DEF CInv, TypeOK

LEMMA VerdictHolds ==
  ASSUME CInv PROVE VerdictIsRight
<1>1. SUFFICES ASSUME check \in Verdict
               PROVE  check = "succeeded" <=> Explicable(Completed)
  BY DEF VerdictIsRight
<1>2. check # "recording" /\ (check = "succeeded" \/ check = "failed")
  BY <1>1 DEF Verdict
<1>3. HistoryOK /\ init_perm = Completed /\ Fits(thread_perm, init_perm)
  BY <1>2 DEF CInv, Listed
<1>4. Explicable(Completed) <=> \E w : Fits(w, init_perm) /\ Explanation(w)
  BY <1>3, OrdersAreInterleavings DEF Explanation
<1>5. /\ check = "failed" => \A w : Fits(w, init_perm) => ~ Explanation(w)
      /\ check = "succeeded" => Explanation(thread_perm)
  BY DEF CInv, Tried
<1>6. QED
  BY <1>2, <1>3, <1>4, <1>5

LEMMA StepAdvances ==
  ASSUME CInv, [Next]_vars, check = "checking", check' = "checking", vars' # vars
  PROVE  /\ Later(thread_perm', thread_perm)
         /\ \A t \in Thread : Occurrences(thread_perm', t) = Occurrences(thread_perm, t)
<1>1. GenNext
  BY DEF Next, Invoke, Respond, GenInit, Accept, Reject
<1>2. PICK s : s = thread_perm
  OBVIOUS
<1>3. Rises(s) # {} /\ thread_perm' = NextPermutation(s)
  BY <1>1, <1>2 DEF GenNext
<1>4. PICK n \in Nat : s \in [1 .. n -> Thread]
  BY <1>2, CallsAndThreads DEF CInv, Listed
<1>5. Later(NextPermutation(s), s) /\ Same(NextPermutation(s), s)
  BY <1>3, <1>4, NextIsLater, NextIsSame
<1>6. \A r : \A t \in Thread : Occurrences(r, t) = Cardinality(In(r, t))
  BY DEF Occurrences, In
<1>7. QED
  BY <1>2, <1>3, <1>5, <1>6 DEF Same

-----------------------------------------------------------------------------
(* Theorems.                                                               *)

(* The variables of the checker keep their types: the interleaving and its *)
(* threads go with the completed calls (checkHistory, gen_init_sc_perm,    *)
(* gen_next_sc_perm).                                                      *)
THEOREM CheckerTypes == Spec => []TypeOK
<1>1. CInv => TypeOK
  BY TypesHold
<1>2. QED
  BY <1>1, Invariant, PTL

(* The checker succeeds just when some order of the completed calls that   *)
(* keeps what must be kept is a run of the sequential specification: it    *)
(* neither misses an explanation nor takes what is none (checkHistory,     *)
(* gen_next_sc_perm, isRealTimeOrderPreserved, checkPermutation).          *)
THEOREM CheckerIsRight == Spec => []VerdictIsRight
<1>1. CInv => VerdictIsRight
  BY VerdictHolds
<1>2. QED
  BY <1>1, Invariant, PTL

(* Each interleaving tried rearranges the one before and comes later in    *)
(* the lexicographic order, so none is tried twice (gen_next_sc_perm).     *)
THEOREM PermutationsGoOn == Spec => PermutationsAdvance
<1> DEFINE A == check = "checking" /\ check' = "checking" =>
                  /\ Later(thread_perm', thread_perm)
                  /\ \A t \in Thread : Occurrences(thread_perm', t) = Occurrences(thread_perm, t)
<1>1. CInv /\ [Next]_vars => [A]_vars
  BY StepAdvances
<1>2. Spec => [][A]_vars
  BY <1>1, Invariant, PTL DEF Spec
<1>3. QED
  BY <1>2 DEF PermutationsAdvance
=============================================================================
