----------------------------- MODULE Books_proofs -----------------------------
(* Safety of the nightly emission, of the votes and of the credit for every   *)
(* set of contributors, platforms, voters and harnesses.                      *)
EXTENDS Books, FiniteSetTheorems, SequenceTheorems, WellFoundedInduction, TLAPS

-----------------------------------------------------------------------------
(* Sums over finite sets.                                                    *)

(* A set of natural numbers has a least element. *)
LEMMA Least ==
  ASSUME NEW T, T \subseteq Nat, T # {}
  PROVE  \E n \in T : \A m \in T : n <= m
<1> DEFINE R == OpToRel(<, Nat)
<1>1. IsWellFoundedOn(R, Nat)
  BY NatLessThanWellFounded
<1>2. \A m, n \in Nat : m < n => <<m, n>> \in R
  BY DEF OpToRel
<1> HIDE DEF R
<1>3. PICK n \in T : \A m \in T : ~ (<<m, n>> \in R)
  BY <1>1, WFMin
<1>4. ASSUME NEW m \in T PROVE n <= m
  <2>1. ~ (m < n)
    BY <1>2, <1>3
  <2>2. m \in Nat /\ n \in Nat
    OBVIOUS
  <2>3. QED
    BY <2>1, <2>2
<1>5. QED
  BY <1>4

(* Induction on the subsets of a finite set: C holds all of them when it holds *)
(* each one whose subsets with one element less it holds.                    *)
LEMMA SetInduction ==
  ASSUME NEW S, IsFiniteSet(S), NEW C,
         \A s \in SUBSET S : (\A x \in s : s \ {x} \in C) => s \in C
  PROVE  SUBSET S \subseteq C
<1> DEFINE Bad == (SUBSET S) \ C
           T == {Cardinality(s) : s \in Bad}
<1>1. \A s \in SUBSET S : IsFiniteSet(s) /\ Cardinality(s) \in Nat
  BY FS_Subset, FS_CardinalityType
<1>2. SUFFICES ASSUME Bad # {} PROVE FALSE
  OBVIOUS
<1>3. PICK n \in T : \A m \in T : n <= m
  <2>1. T \subseteq Nat /\ T # {}
    BY <1>1, <1>2
  <2> HIDE DEF T
  <2>2. QED
    BY <2>1, Least
<1>4. PICK s \in Bad : n = Cardinality(s)
  BY <1>3
<1>5. ASSUME NEW x \in s PROVE s \ {x} \in C
  <2>1. Cardinality(s \ {x}) = Cardinality(s) - 1
    BY <1>1, FS_RemoveElement
  <2>2. ~ (Cardinality(s) <= Cardinality(s \ {x}))
    BY <1>1, <2>1
  <2>3. CASE s \ {x} \in Bad
    BY <1>3, <1>4, <2>2, <2>3
  <2>4. QED
    BY <2>3
<1>6. QED
  BY <1>5

(* The element that MapThenSumSet takes off a set first. *)
Pick(s) == CHOOSE x \in s : TRUE

(* The function by which MapThenSumSet adds up the weights w over a set. *)
Sums(g, w, S) ==
  g = [s \in SUBSET S |-> IF s = {} THEN 0 ELSE w[Pick(s)] + g[s \ {Pick(s)}]]

(* Two such functions agree where both are defined. *)
LEMMA SumsAgree ==
  ASSUME NEW w, NEW S, NEW T, NEW g, NEW f, IsFiniteSet(S), Sums(g, w, S), Sums(f, w, T)
  PROVE  \A s \in SUBSET S : s \in SUBSET T => g[s] = f[s]
<1> DEFINE C == {s \in SUBSET S : s \in SUBSET T => g[s] = f[s]}
<1>1. ASSUME NEW s \in SUBSET S, \A x \in s : s \ {x} \in C PROVE s \in C
  <2>1. CASE s \in SUBSET T /\ s # {}
    <3>1. Pick(s) \in s
      BY <2>1 DEF Pick
    <3>2. g[s \ {Pick(s)}] = f[s \ {Pick(s)}]
      BY <1>1, <2>1, <3>1
    <3>3. g[s] = w[Pick(s)] + g[s \ {Pick(s)}] /\ f[s] = w[Pick(s)] + f[s \ {Pick(s)}]
      BY <2>1 DEF Sums
    <3>4. QED
      BY <3>2, <3>3
  <2>2. CASE s = {}
    BY <2>2 DEF Sums
  <2>3. QED
    BY <2>1, <2>2
<1> HIDE DEF C
<1>2. SUBSET S \subseteq C
  BY <1>1, SetInduction
<1>3. QED
  BY <1>2 DEF C

(* There is one for every finite set. *)
LEMMA SumsExist ==
  ASSUME NEW S, IsFiniteSet(S), NEW w, \A c \in S : w[c] \in Nat
  PROVE  \E g : Sums(g, w, S)
<1> DEFINE C == {s \in SUBSET S : \E g : Sums(g, w, s)}
<1>1. ASSUME NEW s \in SUBSET S, \A x \in s : s \ {x} \in C PROVE s \in C
  <2>1. CASE s = {}
    <3> DEFINE g == [t \in SUBSET s |-> 0]
    <3>1. Sums(g, w, s)
      BY <2>1 DEF Sums
    <3>2. QED
      BY <3>1
  <2>2. CASE s # {}
    <3> DEFINE F == [x \in s |-> CHOOSE g : Sums(g, w, s \ {x})]
               g == [t \in SUBSET s |->
                      IF t = s THEN w[Pick(s)] + F[Pick(s)][s \ {Pick(s)}]
                      ELSE F[Pick(s \ t)][t]]
    <3>1. \A x \in s : Sums(F[x], w, s \ {x})
      BY <1>1
    <3> HIDE DEF F
    <3>2. ASSUME NEW x \in s, NEW y \in s, NEW t \in SUBSET (s \ {x}), y \notin t PROVE F[x][t] = F[y][t]
      <4>1. IsFiniteSet(s \ {x})
        BY FS_Subset
      <4>2. Sums(F[x], w, s \ {x}) /\ Sums(F[y], w, s \ {y})
        BY <3>1
      <4>3. t \in SUBSET (s \ {y})
        BY <3>2
      <4>4. QED
        BY <4>1, <4>2, <4>3, SumsAgree
    <3>3. Pick(s) \in s
      BY <2>2 DEF Pick
    <3>4. ASSUME NEW t \in SUBSET s
          PROVE  g[t] = IF t = {} THEN 0 ELSE w[Pick(t)] + g[t \ {Pick(t)}]
      <4>1. CASE t = s
        <5>1. g[t] = w[Pick(s)] + F[Pick(s)][s \ {Pick(s)}]
          BY <4>1
        <5>2. Pick(s \ (s \ {Pick(s)})) = Pick(s)
          <6>1. s \ (s \ {Pick(s)}) = {Pick(s)}
            BY <3>3
          <6>2. QED
            BY <6>1 DEF Pick
        <5>3. g[s \ {Pick(s)}] = F[Pick(s)][s \ {Pick(s)}]
          BY <3>3, <5>2
        <5>4. QED
          BY <2>2, <4>1, <5>1, <5>3
      <4>2. CASE t # s
        <5>1. Pick(s \ t) \in s \ t
          BY <4>2 DEF Pick
        <5> DEFINE x == Pick(s \ t)
        <5>2. g[t] = F[x][t] /\ Sums(F[x], w, s \ {x}) /\ t \in SUBSET (s \ {x})
          BY <3>1, <4>2, <5>1
        <5> HIDE DEF x
        <5>3. CASE t = {}
          BY <5>2, <5>3 DEF Sums
        <5>4. CASE t # {}
          <6>1. Pick(t) \in t
            BY <5>4 DEF Pick
          <6> DEFINE u == t \ {Pick(t)}
                     y == Pick(s \ u)
          <6>2. g[t] = w[Pick(t)] + F[x][u]
            BY <5>2, <5>4 DEF Sums
          <6>3. y \in s \ u
            BY <6>1 DEF Pick
          <6>4. u \in SUBSET s /\ u # s /\ u \in SUBSET (s \ {x})
            BY <5>2, <6>1
          <6>5. g[u] = F[y][u]
            BY <6>4
          <6>6. F[x][u] = F[y][u]
            BY <5>1, <6>3, <6>4, <3>2 DEF x
          <6>7. QED
            BY <5>4, <6>2, <6>5, <6>6
        <5>5. QED
          BY <5>3, <5>4
      <4>3. QED
        BY <4>1, <4>2
    <3>5. Sums(g, w, s)
      BY <3>4 DEF Sums
    <3>6. QED
      BY <3>5
  <2>3. QED
    BY <2>1, <2>2
<1> HIDE DEF C
<1>2. SUBSET S \subseteq C
  BY <1>1, SetInduction
<1>3. QED
  BY <1>2 DEF C

(* The sum of the weights w over S, as the model writes it. *)
SumOver(w, S) == MapThenSumSet(LAMBDA c : w[c], S)

(* Its values are natural numbers. *)
LEMMA SumsType ==
  ASSUME NEW S, IsFiniteSet(S), NEW w, \A c \in S : w[c] \in Nat, NEW g, Sums(g, w, S)
  PROVE  g \in [SUBSET S -> Nat]
<1> DEFINE C == {s \in SUBSET S : g[s] \in Nat}
<1>1. ASSUME NEW s \in SUBSET S, \A x \in s : s \ {x} \in C PROVE s \in C
  <2>1. CASE s = {}
    BY <2>1 DEF Sums
  <2>2. CASE s # {}
    <3>1. Pick(s) \in s
      BY <2>2 DEF Pick
    <3>2. g[s] = w[Pick(s)] + g[s \ {Pick(s)}]
      BY <2>2 DEF Sums
    <3>3. g[s \ {Pick(s)}] \in Nat /\ w[Pick(s)] \in Nat
      BY <1>1, <3>1
    <3>4. QED
      BY <3>2, <3>3
  <2>3. QED
    BY <2>1, <2>2
<1> HIDE DEF C
<1>2. SUBSET S \subseteq C
  BY <1>1, SetInduction
<1>3. QED
  BY <1>2 DEF C, Sums

(* Taking any element away takes its weight away, not only the chosen one. *)
LEMMA SumsRemove ==
  ASSUME NEW S, IsFiniteSet(S), NEW w, \A c \in S : w[c] \in Nat, NEW g, Sums(g, w, S)
  PROVE  \A s \in SUBSET S : \A x \in s : g[s] = w[x] + g[s \ {x}]
<1> DEFINE C == {s \in SUBSET S : \A x \in s : g[s] = w[x] + g[s \ {x}]}
<1>1. ASSUME NEW s \in SUBSET S, \A x \in s : s \ {x} \in C PROVE s \in C
  <2>1. ASSUME NEW x \in s PROVE g[s] = w[x] + g[s \ {x}]
    <3> DEFINE y == Pick(s)
    <3>1. y \in s
      BY DEF Pick
    <3>2. g[s] = w[y] + g[s \ {y}]
      BY <3>1 DEF Sums
    <3> HIDE DEF y
    <3>3. CASE x = y
      BY <3>2, <3>3
    <3>4. CASE x # y
      <4>1. x \in s \ {y} /\ y \in s \ {x} /\ (s \ {y}) \ {x} = (s \ {x}) \ {y}
        BY <3>1, <3>4
      <4> DEFINE z == g[(s \ {x}) \ {y}]
      <4>2. g[s \ {y}] = w[x] + z
        BY <1>1, <3>1, <4>1
      <4>3. g[s \ {x}] = w[y] + z
        BY <1>1, <4>1
      <4>4. z \in Nat
        <5>1. g \in [SUBSET S -> Nat]
          BY SumsType
        <5>2. (s \ {x}) \ {y} \in SUBSET S
          OBVIOUS
        <5>3. QED
          BY <5>1, <5>2
      <4> HIDE DEF z
      <4>5. w[x] \in Nat /\ w[y] \in Nat
        BY <3>1
      <4>6. w[y] + (w[x] + z) = w[x] + (w[y] + z)
        BY <4>4, <4>5
      <4>7. QED
        BY <3>2, <4>2, <4>3, <4>6
    <3>5. QED
      BY <3>3, <3>4
  <2>2. QED
    BY <2>1
<1> HIDE DEF C
<1>2. SUBSET S \subseteq C
  BY <1>1, SetInduction
<1>3. QED
  BY <1>2 DEF C

(* The sum is the value of one of them. *)
LEMMA SumsChosen ==
  ASSUME NEW S, IsFiniteSet(S), NEW w, \A c \in S : w[c] \in Nat
  PROVE  \E g : Sums(g, w, S) /\ SumOver(w, S) = g[S]
<1>1. SumOver(w, S) = (CHOOSE g : Sums(g, w, S))[S]
  BY DEF SumOver, MapThenSumSet, MapThenFoldSet, Sums, Pick
<1>2. Sums(CHOOSE g : Sums(g, w, S), w, S)
  BY SumsExist
<1>3. QED
  BY <1>1, <1>2

(* What the proofs below use of sums. A sum is a natural number. *)
LEMMA SumType ==
  ASSUME NEW S, IsFiniteSet(S), NEW w, \A c \in S : w[c] \in Nat
  PROVE  SumOver(w, S) \in Nat
<1>1. PICK g : Sums(g, w, S) /\ SumOver(w, S) = g[S]
  BY SumsChosen
<1>2. g \in [SUBSET S -> Nat]
  BY <1>1, SumsType
<1>3. QED
  BY <1>1, <1>2

(* The sum over nothing. *)
LEMMA SumEmpty ==
  ASSUME NEW w
  PROVE  SumOver(w, {}) = 0
<1>1. PICK g : Sums(g, w, {}) /\ SumOver(w, {}) = g[{}]
  BY FS_EmptySet, SumsChosen
<1>2. QED
  BY <1>1 DEF Sums

(* An element's weight is in the sum once. *)
LEMMA SumRemove ==
  ASSUME NEW S, IsFiniteSet(S), NEW w, \A c \in S : w[c] \in Nat, NEW x \in S
  PROVE  SumOver(w, S) = w[x] + SumOver(w, S \ {x})
<1>1. PICK g : Sums(g, w, S) /\ SumOver(w, S) = g[S]
  BY SumsChosen
<1>2. IsFiniteSet(S \ {x})
  BY FS_Subset
<1>3. PICK f : Sums(f, w, S \ {x}) /\ SumOver(w, S \ {x}) = f[S \ {x}]
  BY <1>2, SumsChosen
<1>4. f[S \ {x}] = g[S \ {x}]
  BY <1>1, <1>2, <1>3, SumsAgree
<1>5. g[S] = w[x] + g[S \ {x}]
  BY <1>1, SumsRemove
<1>6. QED
  BY <1>1, <1>3, <1>4, <1>5

(* Only the weights of the set's elements count. *)
LEMMA SumSame ==
  ASSUME NEW S, IsFiniteSet(S), NEW w, NEW v, \A c \in S : w[c] \in Nat /\ w[c] = v[c]
  PROVE  SumOver(w, S) = SumOver(v, S)
<1>1. PICK g : Sums(g, w, S) /\ SumOver(w, S) = g[S]
  BY SumsChosen
<1>2. PICK f : Sums(f, v, S) /\ SumOver(v, S) = f[S]
  BY SumsChosen
<1>3. Sums(f, w, S)
  <2>1. \A s \in SUBSET S : s # {} => Pick(s) \in s
    BY DEF Pick
  <2>2. ASSUME NEW s \in SUBSET S
        PROVE  f[s] = IF s = {} THEN 0 ELSE w[Pick(s)] + f[s \ {Pick(s)}]
    BY <1>2, <2>1 DEF Sums
  <2>3. f = [s \in SUBSET S |-> f[s]]
    BY <1>2 DEF Sums
  <2>4. QED
    BY <2>2, <2>3 DEF Sums
<1>4. QED
  BY <1>1, <1>2, <1>3, SumsAgree

(* No weight exceeds the sum. *)
LEMMA SumMember ==
  ASSUME NEW S, IsFiniteSet(S), NEW w, \A c \in S : w[c] \in Nat, NEW x \in S
  PROVE  w[x] <= SumOver(w, S)
<1>1. IsFiniteSet(S \ {x})
  BY FS_Subset
<1>2. SumOver(w, S \ {x}) \in Nat
  BY <1>1, SumType
<1>3. QED
  BY <1>2, SumRemove

(* An inequality between multiples of the weights holds of the sums. *)
LEMMA SumScale ==
  ASSUME NEW S, IsFiniteSet(S), NEW m \in Nat, NEW n \in Nat,
         NEW w, \A c \in S : w[c] \in Nat,
         NEW v, \A c \in S : v[c] \in Nat,
         \A c \in S : m * w[c] <= n * v[c]
  PROVE  m * SumOver(w, S) <= n * SumOver(v, S)
<1> DEFINE C == {s \in SUBSET S : m * SumOver(w, s) <= n * SumOver(v, s)}
<1>1. ASSUME NEW s \in SUBSET S, \A x \in s : s \ {x} \in C PROVE s \in C
  <2>1. CASE s = {}
    <3>1. SumOver(w, s) = 0 /\ SumOver(v, s) = 0
      BY <2>1, SumEmpty
    <3>2. QED
      BY <3>1
  <2>2. CASE s # {}
    <3>1. PICK x \in s : TRUE
      BY <2>2
    <3> DEFINE a == SumOver(w, s \ {x})
               b == SumOver(v, s \ {x})
    <3>2. IsFiniteSet(s) /\ IsFiniteSet(s \ {x})
      BY FS_Subset
    <3>3. SumOver(w, s) = w[x] + a /\ SumOver(v, s) = v[x] + b
      BY <3>2, SumRemove
    <3>4. a \in Nat /\ b \in Nat
      BY <3>2, SumType
    <3>5. m * a <= n * b
      BY <1>1, <3>1
    <3> HIDE DEF a, b
    <3>6. w[x] \in Nat /\ v[x] \in Nat /\ m * w[x] <= n * v[x]
      OBVIOUS
    <3>7. m * (w[x] + a) = m * w[x] + m * a /\ n * (v[x] + b) = n * v[x] + n * b
      BY <3>4, <3>6
    <3>8. QED
      BY <3>3, <3>4, <3>5, <3>6, <3>7
  <2>3. QED
    BY <2>1, <2>2
<1> HIDE DEF C
<1>2. SUBSET S \subseteq C
  BY <1>1, SetInduction
<1>3. QED
  BY <1>2 DEF C

(* When one weight changes, the sum changes by the difference. *)
LEMMA SumUpdate ==
  ASSUME NEW S, IsFiniteSet(S), NEW w, NEW v, NEW x \in S,
         \A c \in S : w[c] \in Nat /\ v[c] \in Nat /\ (c # x => w[c] = v[c])
  PROVE  SumOver(v, S) + w[x] = SumOver(w, S) + v[x]
<1> DEFINE T == S \ {x}
<1>1. IsFiniteSet(T)
  BY FS_Subset
<1>2. SumOver(w, T) = SumOver(v, T) /\ SumOver(w, T) \in Nat
  BY <1>1, SumSame, SumType
<1>3. SumOver(w, S) = w[x] + SumOver(w, T) /\ SumOver(v, S) = v[x] + SumOver(v, T)
  BY SumRemove
<1> HIDE DEF T
<1>4. w[x] \in Nat /\ v[x] \in Nat
  OBVIOUS
<1>5. QED
  BY <1>2, <1>3, <1>4

(* Greater weights have the greater sum. *)
LEMMA SumMonotone ==
  ASSUME NEW S, IsFiniteSet(S), NEW w, NEW v,
         \A c \in S : w[c] \in Nat /\ v[c] \in Nat /\ w[c] <= v[c]
  PROVE  SumOver(w, S) <= SumOver(v, S)
<1> DEFINE C == {s \in SUBSET S : SumOver(w, s) <= SumOver(v, s)}
<1>1. ASSUME NEW s \in SUBSET S, \A x \in s : s \ {x} \in C PROVE s \in C
  <2>1. CASE s = {}
    BY <2>1, SumEmpty
  <2>2. CASE s # {}
    <3>1. PICK x \in s : TRUE
      BY <2>2
    <3> DEFINE a == SumOver(w, s \ {x})
               b == SumOver(v, s \ {x})
    <3>2. IsFiniteSet(s) /\ IsFiniteSet(s \ {x})
      BY FS_Subset
    <3>3. SumOver(w, s) = w[x] + a /\ SumOver(v, s) = v[x] + b
      BY <3>2, SumRemove
    <3>4. a \in Nat /\ b \in Nat
      BY <3>2, SumType
    <3>5. a <= b
      BY <1>1, <3>1
    <3> HIDE DEF a, b
    <3>6. w[x] \in Nat /\ v[x] \in Nat /\ w[x] <= v[x]
      OBVIOUS
    <3>7. QED
      BY <3>3, <3>4, <3>5, <3>6
  <2>3. QED
    BY <2>1, <2>2
<1> HIDE DEF C
<1>2. SUBSET S \subseteq C
  BY <1>1, SetInduction
<1>3. QED
  BY <1>2 DEF C

(* The sum is at most the greatest weight, once for each element that has any. *)
LEMMA SumBound ==
  ASSUME NEW S, IsFiniteSet(S), NEW Z, NEW r \in Nat, NEW w,
         \A c \in S : w[c] \in 0..r /\ (c \in Z => w[c] = 0)
  PROVE  Cardinality(S \ Z) \in Nat /\ SumOver(w, S) <= Cardinality(S \ Z) * r
<1> DEFINE C == {s \in SUBSET S : SumOver(w, s) <= Cardinality(s \ Z) * r}
<1>1. ASSUME NEW s \in SUBSET S, \A x \in s : s \ {x} \in C PROVE s \in C
  <2>1. CASE s = {}
    BY <2>1, SumEmpty, FS_EmptySet
  <2>2. CASE s # {}
    <3>1. PICK x \in s : TRUE
      BY <2>2
    <3> DEFINE a == SumOver(w, s \ {x})
               n == Cardinality(s \ Z)
               k == Cardinality((s \ {x}) \ Z)
    <3>2. IsFiniteSet(s) /\ IsFiniteSet(s \ {x}) /\ IsFiniteSet(s \ Z)
      BY FS_Subset
    <3>3. SumOver(w, s) = w[x] + a /\ a \in Nat
      BY <3>2, SumRemove, SumType
    <3>4. a <= k * r
      BY <1>1, <3>1
    <3>5. n \in Nat
      BY <3>2, FS_CardinalityType
    <3>6. w[x] \in 0..r
      OBVIOUS
    <3>7. CASE x \in Z
      <4>1. (s \ {x}) \ Z = s \ Z
        BY <3>7
      <4>2. w[x] = 0 /\ k = n
        BY <3>7, <4>1
      <4> HIDE DEF a, n, k
      <4>3. SumOver(w, s) <= n * r
        BY <3>3, <3>4, <4>2
      <4>4. QED
        BY <4>3 DEF n
    <3>8. CASE x \notin Z
      <4>1. (s \ {x}) \ Z = (s \ Z) \ {x} /\ x \in s \ Z
        BY <3>8
      <4>2. k = n - 1 /\ k \in Nat
        <5>1. k = Cardinality((s \ Z) \ {x})
          BY <4>1
        <5>2. IsFiniteSet((s \ Z) \ {x})
          BY <3>2, FS_Subset
        <5>3. Cardinality((s \ Z) \ {x}) = Cardinality(s \ Z) - 1
          BY <3>2, <4>1, FS_RemoveElement
        <5>4. Cardinality((s \ Z) \ {x}) \in Nat
          BY <5>2, FS_CardinalityType
        <5>5. QED
          BY <5>1, <5>3, <5>4
      <4> HIDE DEF a, n, k
      <4>3. n = k + 1
        BY <3>5, <4>2
      <4>4. n * r = k * r + r /\ k * r \in Nat
        BY <4>2, <4>3
      <4>5. SumOver(w, s) <= n * r
        BY <3>3, <3>4, <3>6, <4>4
      <4>6. QED
        BY <4>5 DEF n
    <3>9. QED
      BY <3>7, <3>8
  <2>3. QED
    BY <2>1, <2>2
<1> HIDE DEF C
<1>2. SUBSET S \subseteq C
  BY <1>1, SetInduction
<1>3. IsFiniteSet(S \ Z)
  BY FS_Subset
<1>4. QED
  BY <1>2, <1>3, FS_CardinalityType DEF C

-----------------------------------------------------------------------------
(* The inductive invariants.                                                 *)

(* Every award is the share of a contributor with points in contributions a   *)
(* run of that day has read; a run at work pays from contributions it read,   *)
(* and owes only contributors with points in them.                            *)
AwardsAreShares ==
  \A d \in Day, c \in Contributor : awarded[d][c] # None =>
    \E points \in read[d] : c \in Earners(points) /\ awarded[d][c] = Share(c, points)

RunsPayWhatTheyRead ==
  \A p \in Platform : run[p].at = "pay" =>
    /\ run[p].points \in read[run[p].day]
    /\ run[p].due \subseteq Earners(run[p].points) /\ run[p].due # {}

EmissionInv ==
  /\ TypeOK /\ AwardsAreShares /\ RunsPayWhatTheyRead
  /\ \A d \in Day : IsFiniteSet(read[d])

(* A vote is recorded between its two statements or after them; one that is   *)
(* about to be counted is recorded, unless its INSERT failed; one that went   *)
(* astray had chosen its side.                                                *)
VotesInv ==
  /\ IsFiniteSet(votes)
  /\ \A v \in Vote :
       /\ v \in votes => req[v].at \in {"tally", "over"}
       /\ req[v].at = "tally" => v \in votes \cup strayed
       /\ v \in strayed => req[v].at # "new"

GovernanceInv == G!TypeOK /\ TallyIsVotes /\ VotesInv

-----------------------------------------------------------------------------
(* The operators of the model.                                               *)

(* The smallest of some contributors, the one Pay pays. *)
LEMMA FirstDue ==
  ASSUME NEW due, due \subseteq Contributor, due # {}
  PROVE  Min(due) \in due /\ \A c \in due : Min(due) <= c
<1>1. \E n \in due : \A m \in due : n <= m
  BY ContributorAssumption, Least
<1>2. QED
  BY <1>1 DEF Min

(* The points of a day add up to a natural number, and no contributor has     *)
(* more.                                                                      *)
LEMMA PointsSum ==
  ASSUME NEW points \in Logged
  PROVE  /\ Sum(points) = SumOver(points, Contributor)
         /\ Sum(points) \in Nat
         /\ \A c \in Contributor : points[c] \in Nat /\ points[c] <= Sum(points)
<1>1. IsFiniteSet(Contributor)
  BY ContributorAssumption
<1>2. \A c \in Contributor : points[c] \in Nat
  BY BoundAssumption DEF Logged
<1>3. Sum(points) = SumOver(points, Contributor)
  BY DEF Sum, SumOver
<1>4. QED
  BY <1>1, <1>2, <1>3, SumType, SumMember

(* The bounds of a division. *)
LEMMA Quotient ==
  ASSUME NEW a \in Nat, NEW n \in Nat \ {0}
  PROVE  a \div n \in Nat /\ n * (a \div n) <= a
OBVIOUS

(* The share of a contributor with points is within the pool, and in          *)
(* proportion to the points.                                                  *)
LEMMA ShareIsBounded ==
  ASSUME NEW points \in Logged, NEW c \in Earners(points)
  PROVE  /\ Share(c, points) \in Tokens
         /\ Sum(points) * Share(c, points) <= Pool * points[c]
<1> DEFINE a == points[c]
           n == Sum(points)
           q == (a * Pool) \div n
<1>1. c \in Contributor /\ a > 0
  BY DEF Earners
<1>2. a \in Nat /\ n \in Nat /\ a <= n
  BY <1>1, PointsSum
<1>3. Pool \in Nat
  BY PoolAssumption
<1>4. Share(c, points) = q
  BY DEF Share
<1> HIDE DEF a, n
<1>5. n \in Nat \ {0} /\ a * Pool \in Nat
  BY <1>1, <1>2, <1>3
<1>6. q \in Nat /\ n * q <= a * Pool
  BY <1>5, Quotient
<1> HIDE DEF q
<1>7. a * Pool <= n * Pool
  BY <1>2, <1>3
<1>8. q <= Pool
  <2>1. ~ (q > Pool)
    <3> SUFFICES ASSUME q >= Pool + 1 PROVE FALSE
      BY <1>3, <1>6
    <3>1. n * q >= n * (Pool + 1)
      BY <1>3, <1>5, <1>6
    <3>2. n * (Pool + 1) = n * Pool + n
      BY <1>3, <1>5
    <3>3. n * Pool \in Nat /\ n * q \in Nat
      BY <1>3, <1>5, <1>6
    <3>4. QED
      BY <1>5, <1>6, <1>7, <3>1, <3>2, <3>3
  <2>2. QED
    BY <2>1, <1>3, <1>6
<1>9. QED
  BY <1>2, <1>3, <1>4, <1>6, <1>8 DEF Tokens, a, n

-----------------------------------------------------------------------------
(* The emission.                                                             *)

LEMMA InitEmission == Init => EmissionInv
<1> SUFFICES ASSUME Init PROVE EmissionInv
  OBVIOUS
<1>1. [c \in Contributor |-> 0] \in Logged /\ 0 \in Day
  BY BoundAssumption DEF Logged, Day
<1>2. Asleep \in Scheduler
  BY <1>1 DEF Asleep, Scheduler
<1>3. TypeOK
  BY <1>1, <1>2, BoundAssumption DEF Init, TypeOK
<1>4. AwardsAreShares /\ RunsPayWhatTheyRead
  BY DEF Init, AwardsAreShares, RunsPayWhatTheyRead, Asleep
<1>5. \A d \in Day : IsFiniteSet(read[d])
  BY FS_EmptySet DEF Init
<1>6. QED
  BY <1>3, <1>4, <1>5 DEF EmissionInv

(* Rows of contributions grow with the clock standing still. *)
LEMMA ContributeKeeps ==
  ASSUME EmissionInv, NEW c \in Contributor, NEW pts \in Points, Contribute(c, pts)
  PROVE  EmissionInv'
<1>1. logged' \in [Day -> Logged]
  <2>1. logged[today] \in Logged /\ logged[today][c] \in Nat /\ pts \in Nat
    BY PointsAssumption, BoundAssumption DEF EmissionInv, TypeOK, Logged
  <2>2. logged[today][c] + pts \in 0..MaxLogged
    BY <2>1, BoundAssumption DEF Contribute
  <2>3. QED
    BY <2>1, <2>2 DEF Contribute, EmissionInv, TypeOK, Logged
<1>2. UNCHANGED <<today, awarded, run, read, faults>>
  BY DEF Contribute
<1>3. QED
  BY <1>1, <1>2 DEF EmissionInv, TypeOK, AwardsAreShares, RunsPayWhatTheyRead

(* What a step may do to the schedulers while the tables stand still: one     *)
(* goes to another state that has its type and pays from what was read.       *)
LEMMA RunKeeps ==
  ASSUME EmissionInv, UNCHANGED <<logged, awarded, read>>,
         today' \in Day, faults' \in 0..FaultBudget, run' \in [Platform -> Scheduler],
         \A p \in Platform : run'[p].at = "pay" =>
           /\ run[p].at = "pay" /\ run'[p].day = run[p].day /\ run'[p].points = run[p].points
           /\ run'[p].due \subseteq run[p].due /\ run'[p].due # {}
  PROVE  EmissionInv'
<1>1. TypeOK'
  BY DEF EmissionInv, TypeOK
<1>2. AwardsAreShares'
  BY DEF EmissionInv, AwardsAreShares
<1>3. RunsPayWhatTheyRead'
  BY DEF EmissionInv, RunsPayWhatTheyRead
<1>4. QED
  BY <1>1, <1>2, <1>3 DEF EmissionInv

(* A state with nothing to pay. *)
LEMMA Idle ==
  /\ Asleep \in Scheduler /\ Asleep.at # "pay"
  /\ Down \in Scheduler /\ Down.at # "pay"
  /\ \A d \in Day : LET woken == [Asleep EXCEPT !.at = "query", !.day = d]
                    IN  woken \in Scheduler /\ woken.at # "pay"
<1>1. [c \in Contributor |-> 0] \in Logged /\ 0 \in Day
  BY BoundAssumption DEF Logged, Day
<1>2. QED
  BY <1>1 DEF Asleep, Down, Scheduler

LEMMA MidnightKeeps == EmissionInv /\ Midnight => EmissionInv'
<1> SUFFICES ASSUME EmissionInv, Midnight PROVE EmissionInv'
  OBVIOUS
<1>1. today' = today + 1 /\ today + 1 \in Day /\ UNCHANGED <<logged, awarded, read, faults>>
  BY BoundAssumption DEF Midnight, EmissionInv, TypeOK, Day
<1> DEFINE woken == [Asleep EXCEPT !.at = "query", !.day = today + 1]
<1>2. woken \in Scheduler /\ woken.at # "pay"
  BY <1>1, Idle
<1>3. run' = [p \in Platform |-> IF run[p].at = "asleep" THEN woken ELSE run[p]]
  BY DEF Midnight
<1> HIDE DEF woken
<1>4. run' \in [Platform -> Scheduler] /\ faults' \in 0..FaultBudget
  BY <1>1, <1>2, <1>3 DEF EmissionInv, TypeOK
<1>5. ASSUME NEW p \in Platform, run'[p].at = "pay"
      PROVE  run'[p] = run[p] /\ run[p].due # {}
  BY <1>2, <1>3, <1>5 DEF EmissionInv, RunsPayWhatTheyRead
<1>6. QED
  BY <1>1, <1>4, <1>5, RunKeeps

(* A run that ends, breaks off or dies, and a process that starts. *)
LEMMA RestKeeps ==
  ASSUME EmissionInv, NEW p \in Platform, NEW r \in {Asleep, Down},
         run' = [run EXCEPT ![p] = r], UNCHANGED <<today, logged, awarded, read>>,
         faults' \in 0..FaultBudget
  PROVE  EmissionInv'
<1>1. r \in Scheduler /\ r.at # "pay"
  BY Idle
<1>2. today' \in Day /\ run' \in [Platform -> Scheduler]
  BY <1>1 DEF EmissionInv, TypeOK
<1>3. ASSUME NEW q \in Platform, run'[q].at = "pay"
      PROVE  run'[q] = run[q] /\ run[q].due # {}
  BY <1>1, <1>3 DEF EmissionInv, TypeOK, RunsPayWhatTheyRead
<1>4. QED
  BY <1>2, <1>3, RunKeeps

LEMMA FaultsType ==
  ASSUME faults \in 0..FaultBudget, Fine \/ Fault
  PROVE  faults' \in 0..FaultBudget
BY BoundAssumption DEF Fine, Fault

LEMMA QueryKeeps ==
  ASSUME EmissionInv, NEW p \in Platform, Query(p)
  PROVE  EmissionInv'
<1> DEFINE d == run[p].day
           pays == [at |-> "pay", day |-> d, due |-> Earners(logged[d]), points |-> logged[d]]
<1>1. d \in Day /\ logged[d] \in Logged /\ UNCHANGED <<today, logged, awarded>>
  BY DEF Query, EmissionInv, TypeOK, Scheduler
<1>2. faults' \in 0..FaultBudget
  BY FaultsType DEF Query, EmissionInv, TypeOK
<1>3. CASE Fault /\ run' = [run EXCEPT ![p] = Asleep] /\ UNCHANGED read
  BY <1>1, <1>2, <1>3, RestKeeps
<1>4. CASE /\ read' = [read EXCEPT ![d] = @ \cup {logged[d]}]
           /\ run' = [run EXCEPT ![p] = IF Earners(logged[d]) = {} THEN Asleep ELSE pays]
  <2>1. pays \in Scheduler
    BY <1>1 DEF Scheduler, Earners
  <2> HIDE DEF d
  <2>2. run' \in [Platform -> Scheduler]
    BY <1>4, <2>1, Idle DEF EmissionInv, TypeOK
  <2>3. TypeOK'
    BY <1>1, <1>2, <1>4, <2>2 DEF EmissionInv, TypeOK
  <2>4. \A e \in Day : read[e] \subseteq read'[e]
    BY <1>4 DEF EmissionInv, TypeOK
  <2>5. AwardsAreShares'
    BY <1>1, <2>4 DEF EmissionInv, AwardsAreShares
  <2>6. RunsPayWhatTheyRead'
    <3> SUFFICES ASSUME NEW q \in Platform, run'[q].at = "pay"
                 PROVE  /\ run'[q].points \in read'[run'[q].day]
                        /\ run'[q].due \subseteq Earners(run'[q].points) /\ run'[q].due # {}
      BY DEF RunsPayWhatTheyRead
    <3>1. CASE q = p
      <4>1. run'[p] = pays /\ Earners(logged[d]) # {}
        BY <1>4, <3>1, Idle DEF EmissionInv, TypeOK
      <4>2. logged[d] \in read'[d]
        BY <1>1, <1>4 DEF EmissionInv, TypeOK
      <4>3. QED
        BY <3>1, <4>1, <4>2
    <3>2. CASE q # p
      <4>1. run'[q] = run[q] /\ run[q].day \in Day
        BY <1>4, <3>2 DEF EmissionInv, TypeOK, Scheduler
      <4>2. QED
        BY <2>4, <4>1 DEF EmissionInv, RunsPayWhatTheyRead
    <3>3. QED
      BY <3>1, <3>2
  <2>7. \A e \in Day : IsFiniteSet(read'[e])
    <3> SUFFICES ASSUME NEW e \in Day PROVE IsFiniteSet(read'[e])
      OBVIOUS
    <3>1. IsFiniteSet(read[e]) /\ IsFiniteSet(read[e] \cup {logged[d]})
      BY FS_AddElement DEF EmissionInv
    <3>2. read'[e] \in {read[e], read[e] \cup {logged[d]}}
      BY <1>4 DEF EmissionInv, TypeOK
    <3>3. QED
      BY <3>1, <3>2
  <2>8. QED
    BY <2>3, <2>5, <2>6, <2>7 DEF EmissionInv
<1>5. QED
  BY <1>3, <1>4 DEF Query

(* What Pay writes when it writes: the share of the first contributor due,    *)
(* who has no award for the day.                                              *)
LEMMA PayWrites ==
  ASSUME EmissionInv, NEW p \in Platform, Pay(p), awarded' # awarded
  PROVE  \E d \in Day, c \in Contributor :
           /\ d = run[p].day /\ c \in run[p].due /\ c \in Earners(run[p].points)
           /\ awarded[d][c] = None
           /\ awarded' = [awarded EXCEPT ![d][c] = Share(c, run[p].points)]
           /\ run' = [run EXCEPT ![p] = Paid(p, c)]
           /\ Share(c, run[p].points) \in Tokens
<1> DEFINE d == run[p].day
           c == Min(run[p].due)
<1>1. run[p].at = "pay"
  BY DEF Pay
<1>2. /\ run[p].points \in Logged /\ d \in Day
      /\ run[p].due \subseteq Contributor /\ run[p].due # {}
      /\ run[p].due \subseteq Earners(run[p].points)
  BY <1>1 DEF EmissionInv, TypeOK, Scheduler, RunsPayWhatTheyRead
<1>3. c \in run[p].due /\ c \in Contributor /\ c \in Earners(run[p].points)
  BY <1>2, FirstDue
<1>4. /\ Insertable(d, c)
      /\ awarded' = [awarded EXCEPT ![d][c] = Share(c, run[p].points)]
      /\ run' = [run EXCEPT ![p] = Paid(p, c)]
  BY DEF Pay
<1>5. Share(c, run[p].points) \in Tokens
  BY <1>2, <1>3, ShareIsBounded
<1> HIDE DEF d, c
<1>6. QED
  BY <1>2, <1>3, <1>4, <1>5 DEF Insertable, d

LEMMA PayKeeps ==
  ASSUME EmissionInv, NEW p \in Platform, Pay(p)
  PROVE  EmissionInv'
<1>1. UNCHANGED <<today, logged, read>> /\ faults' \in 0..FaultBudget
  BY FaultsType DEF Pay, EmissionInv, TypeOK
<1>2. CASE run' = [run EXCEPT ![p] = Asleep] /\ UNCHANGED awarded
  BY <1>1, <1>2, RestKeeps
<1>3. ASSUME NEW c \in run[p].due, run' = [run EXCEPT ![p] = Paid(p, c)], run[p].at = "pay"
      PROVE  /\ run' \in [Platform -> Scheduler]
             /\ \A q \in Platform : run'[q].at = "pay" =>
                  /\ run[q].at = "pay" /\ run'[q].day = run[q].day
                  /\ run'[q].points = run[q].points
                  /\ run'[q].due \subseteq run[q].due /\ run'[q].due # {}
  <2>1. run[p] \in Scheduler
    BY DEF EmissionInv, TypeOK
  <2>2. \/ Paid(p, c) = Asleep
        \/ /\ Paid(p, c) = [run[p] EXCEPT !.due = run[p].due \ {c}]
           /\ run[p].due \ {c} # {}
    BY DEF Paid
  <2>3. /\ Paid(p, c) \in Scheduler
        /\ Paid(p, c).at = "pay" =>
             /\ Paid(p, c).day = run[p].day /\ Paid(p, c).points = run[p].points
             /\ Paid(p, c).due \subseteq run[p].due /\ Paid(p, c).due # {}
    <3>1. CASE Paid(p, c) = Asleep
      BY <3>1, Idle
    <3>2. ASSUME NEW r \in Scheduler, NEW due \in SUBSET r.due
          PROVE  LET q == [r EXCEPT !.due = due]
                 IN  q \in Scheduler /\ q.day = r.day /\ q.points = r.points /\ q.due = due
      BY DEF Scheduler
    <3>3. ASSUME Paid(p, c) # Asleep
          PROVE  /\ Paid(p, c) \in Scheduler
                 /\ Paid(p, c).day = run[p].day /\ Paid(p, c).points = run[p].points
                 /\ Paid(p, c).due \subseteq run[p].due /\ Paid(p, c).due # {}
      <4> DEFINE r == run[p]
                 due == run[p].due \ {c}
      <4>1. r \in Scheduler /\ due \in SUBSET r.due /\ due # {}
        BY <2>1, <2>2, <3>3
      <4>2. Paid(p, c) = [r EXCEPT !.due = due]
        BY <2>2, <3>3
      <4> HIDE DEF r, due
      <4>3. QED
        BY <3>2, <4>1, <4>2 DEF r
    <3>4. QED
      BY <3>1, <3>3
  <2>5. ASSUME NEW q \in Platform, run'[q].at = "pay"
        PROVE  /\ run[q].at = "pay" /\ run'[q].day = run[q].day
               /\ run'[q].points = run[q].points
               /\ run'[q].due \subseteq run[q].due /\ run'[q].due # {}
    <3>1. CASE q = p
      BY <1>3, <2>3, <2>5, <3>1 DEF EmissionInv, TypeOK
    <3>2. CASE q # p
      BY <1>3, <2>5, <3>2 DEF EmissionInv, TypeOK, RunsPayWhatTheyRead
    <3>3. QED
      BY <3>1, <3>2
  <2>6. QED
    BY <1>3, <2>3, <2>5 DEF EmissionInv, TypeOK
<1>4. CASE awarded' # awarded
  <2>1. PICK d \in Day, c \in Contributor :
           /\ d = run[p].day /\ c \in run[p].due /\ c \in Earners(run[p].points)
           /\ awarded[d][c] = None
           /\ awarded' = [awarded EXCEPT ![d][c] = Share(c, run[p].points)]
           /\ run' = [run EXCEPT ![p] = Paid(p, c)]
           /\ Share(c, run[p].points) \in Tokens
    BY <1>4, PayWrites
  <2>2. run[p].at = "pay" /\ run[p].points \in read[d]
    BY <2>1 DEF Pay, EmissionInv, RunsPayWhatTheyRead
  <2>3. run' \in [Platform -> Scheduler]
    BY <1>3, <2>1, <2>2
  <2>4. TypeOK'
    BY <1>1, <2>1, <2>3 DEF EmissionInv, TypeOK
  <2>5. AwardsAreShares'
    <3> SUFFICES ASSUME NEW e \in Day, NEW b \in Contributor, awarded'[e][b] # None
                 PROVE  \E points \in read[e] :
                          b \in Earners(points) /\ awarded'[e][b] = Share(b, points)
      BY <1>1 DEF AwardsAreShares
    <3>1. CASE e = d /\ b = c
      <4>1. awarded'[e][b] = Share(c, run[p].points)
        BY <2>1, <3>1 DEF EmissionInv, TypeOK
      <4>2. QED
        BY <2>1, <2>2, <3>1, <4>1
    <3>2. CASE ~ (e = d /\ b = c)
      <4>1. awarded'[e][b] = awarded[e][b]
        BY <2>1, <3>2 DEF EmissionInv, TypeOK
      <4>2. QED
        BY <4>1 DEF EmissionInv, AwardsAreShares
    <3>3. QED
      BY <3>1, <3>2
  <2>6. RunsPayWhatTheyRead'
    <3>1. \A q \in Platform : run'[q].at = "pay" =>
            /\ run[q].at = "pay" /\ run'[q].day = run[q].day
            /\ run'[q].points = run[q].points
            /\ run'[q].due \subseteq run[q].due /\ run'[q].due # {}
      BY <1>3, <2>1, <2>2
    <3>2. QED
      BY <1>1, <3>1 DEF EmissionInv, RunsPayWhatTheyRead
  <2>7. QED
    BY <1>1, <2>4, <2>5, <2>6 DEF EmissionInv
<1>5. CASE UNCHANGED awarded /\ run' # [run EXCEPT ![p] = Asleep]
  <2>1. run[p].at = "pay" /\ run' = [run EXCEPT ![p] = Paid(p, Min(run[p].due))]
    BY <1>5 DEF Pay
  <2>2. Min(run[p].due) \in run[p].due
    BY <2>1, FirstDue DEF EmissionInv, TypeOK, Scheduler, RunsPayWhatTheyRead
  <2>3. today' \in Day
    BY <1>1 DEF EmissionInv, TypeOK
  <2>4. QED
    BY <1>1, <1>3, <1>5, <2>1, <2>2, <2>3, RunKeeps
<1>6. QED
  BY <1>2, <1>4, <1>5 DEF Pay

(* Every step of the emission keeps its invariant. *)
LEMMA EmissionKeeps == EmissionInv /\ Next => EmissionInv'
<1> SUFFICES ASSUME EmissionInv, Next PROVE EmissionInv'
  OBVIOUS
<1>1. CASE \E c \in Contributor, pts \in Points : Contribute(c, pts)
  BY <1>1, ContributeKeeps
<1>2. CASE Midnight
  BY <1>2, MidnightKeeps
<1>3. CASE \E p \in Platform : Query(p)
  BY <1>3, QueryKeeps
<1>4. CASE \E p \in Platform : Pay(p)
  BY <1>4, PayKeeps
<1>5. ASSUME NEW p \in Platform, Crash(p) \/ Restart(p) PROVE EmissionInv'
  <2>1. faults' \in 0..FaultBudget
    BY <1>5, FaultsType DEF Crash, Restart, EmissionInv, TypeOK, Fine
  <2>2. PICK r \in {Asleep, Down} : run' = [run EXCEPT ![p] = r]
    BY <1>5 DEF Crash, Restart
  <2>3. QED
    BY <1>5, <2>1, <2>2, RestKeeps DEF Crash, Restart
<1>6. QED
  BY <1>1, <1>2, <1>3, <1>4, <1>5 DEF Next

(* A step that leaves the emission alone, but for the count of faults. *)
LEMMA EmissionRests ==
  ASSUME EmissionInv, UNCHANGED emission, faults' \in 0..FaultBudget
  PROVE  EmissionInv'
BY DEF EmissionInv, TypeOK, AwardsAreShares, RunsPayWhatTheyRead, emission

(* The awards of a day as weights. *)
Awards(d) == [c \in Contributor |-> IF awarded[d][c] = None THEN 0 ELSE awarded[d][c]]

LEMMA TotalIsSum ==
  ASSUME NEW d \in Day, TypeOK
  PROVE  /\ Total(d) = SumOver(Awards(d), Contributor)
         /\ \A c \in Contributor : Awards(d)[c] \in Nat
<1> DEFINE w == Awards(d)
           T(g) == g = [s \in SUBSET Contributor |->
                          IF s = {} THEN 0
                          ELSE (IF awarded[d][Pick(s)] = None THEN 0 ELSE awarded[d][Pick(s)])
                               + g[s \ {Pick(s)}]]
<1>1. \A c \in Contributor : w[c] \in Nat
  BY PoolAssumption DEF TypeOK, Tokens, Awards
<1>2. Total(d) = (CHOOSE g : T(g))[Contributor]
  BY DEF Total, MapThenSumSet, MapThenFoldSet, Pick
<1>3. ASSUME NEW g PROVE T(g) <=> Sums(g, w, Contributor)
  <2>1. \A s \in SUBSET Contributor : s # {} =>
          w[Pick(s)] = IF awarded[d][Pick(s)] = None THEN 0 ELSE awarded[d][Pick(s)]
    <3>1. \A s \in SUBSET Contributor : s # {} => Pick(s) \in Contributor
      BY DEF Pick
    <3>2. QED
      BY <3>1 DEF Awards
  <2> HIDE DEF w
  <2>2. [s \in SUBSET Contributor |-> IF s = {} THEN 0
           ELSE (IF awarded[d][Pick(s)] = None THEN 0 ELSE awarded[d][Pick(s)])
                + g[s \ {Pick(s)}]]
        = [s \in SUBSET Contributor |-> IF s = {} THEN 0 ELSE w[Pick(s)] + g[s \ {Pick(s)}]]
    BY <2>1
  <2>3. QED
    BY <2>2 DEF Sums
<1> HIDE DEF T, w
<1>4. PICK f : Sums(f, w, Contributor) /\ SumOver(w, Contributor) = f[Contributor]
  BY <1>1, ContributorAssumption, SumsChosen
<1>5. T(CHOOSE g : T(g))
  BY <1>3, <1>4
<1>6. (CHOOSE g : T(g))[Contributor] = f[Contributor]
  BY <1>3, <1>4, <1>5, ContributorAssumption, SumsAgree
<1>7. QED
  BY <1>1, <1>2, <1>4, <1>6 DEF w

(* Shares of one set of contributions fit in the pool. *)
LEMMA OneReadFits ==
  ASSUME EmissionInv, NEW d \in Day, Cardinality(read[d]) <= 1
  PROVE  Total(d) <= Pool
<1> DEFINE w == Awards(d)
<1>1. IsFiniteSet(Contributor) /\ Pool \in Nat
  BY ContributorAssumption, PoolAssumption
<1>2. Total(d) = SumOver(w, Contributor) /\ \A c \in Contributor : w[c] \in Nat
  BY TotalIsSum DEF EmissionInv
<1>3. Total(d) \in Nat
  BY <1>1, <1>2, SumType
<1>4. CASE \A c \in Contributor : awarded[d][c] = None
  <2>1. \A c \in Contributor : 1 * w[c] <= 0 * w[c]
    BY <1>4 DEF Awards
  <2> HIDE DEF w
  <2>2. 1 * SumOver(w, Contributor) <= 0 * SumOver(w, Contributor)
    BY <1>1, <1>2, <2>1, SumScale
  <2>3. QED
    BY <1>1, <1>2, <1>3, <2>2
<1>5. CASE \E c \in Contributor : awarded[d][c] # None
  <2>1. PICK b \in Contributor, points \in read[d] : b \in Earners(points)
    BY <1>5 DEF EmissionInv, AwardsAreShares
  <2>2. read[d] = {points}
    <3>1. IsFiniteSet(read[d])
      BY DEF EmissionInv
    <3>2. Cardinality(read[d]) = 1
      <4>1. Cardinality(read[d]) \in Nat /\ Cardinality(read[d]) # 0
        BY <2>1, <3>1, FS_CardinalityType, FS_EmptySet
      <4>2. QED
        BY <4>1
    <3>3. QED
      BY <2>1, <3>1, <3>2, FS_Singleton
  <2>3. points \in Logged
    BY <2>1 DEF EmissionInv, TypeOK
  <2> DEFINE n == Sum(points)
  <2>4. /\ n = SumOver(points, Contributor) /\ n \in Nat
        /\ \A c \in Contributor : points[c] \in Nat
        /\ n > 0
    <3>1. points[b] > 0
      BY <2>1 DEF Earners
    <3>2. QED
      BY <2>3, <3>1, PointsSum
  <2>5. ASSUME NEW c \in Contributor PROVE n * w[c] <= Pool * points[c]
    <3>1. CASE awarded[d][c] = None
      <4>1. w[c] = 0
        BY <3>1 DEF Awards
      <4> HIDE DEF w, n
      <4>2. QED
        BY <1>1, <2>4, <4>1
    <3>2. CASE awarded[d][c] # None
      <4>1. c \in Earners(points) /\ awarded[d][c] = Share(c, points)
        BY <2>2, <3>2 DEF EmissionInv, AwardsAreShares
      <4>2. w[c] = Share(c, points)
        BY <3>2, <4>1 DEF Awards
      <4>3. QED
        BY <2>3, <4>1, <4>2, ShareIsBounded
    <3>3. QED
      BY <3>1, <3>2
  <2> HIDE DEF w, n
  <2>6. n * SumOver(w, Contributor) <= Pool * SumOver(points, Contributor)
    BY <1>1, <1>2, <2>4, <2>5, SumScale
  <2>7. n * Total(d) <= Pool * n
    BY <1>2, <2>4, <2>6
  <2>8. ~ (Total(d) >= Pool + 1)
    <3> SUFFICES ASSUME Total(d) >= Pool + 1 PROVE FALSE
      OBVIOUS
    <3>1. n * Total(d) >= n * (Pool + 1)
      BY <1>1, <1>3, <2>4
    <3>2. n * (Pool + 1) = Pool * n + n /\ Pool * n \in Nat /\ n * Total(d) \in Nat
      BY <1>1, <1>3, <2>4
    <3>3. QED
      BY <2>4, <2>7, <3>1, <3>2
  <2>9. QED
    BY <1>1, <1>3, <2>8
<1>6. QED
  BY <1>4, <1>5

(* The refinement of the ledger: the tables start empty, and a step awards or *)
(* leaves the awards alone.                                                   *)
LEMMA InitLedger == Init => Ledger!Init
BY DEF Init, Ledger!Init

LEMMA StepLedger == EmissionInv /\ Next => [Ledger!Next]_awarded
<1> SUFFICES ASSUME EmissionInv, Next, awarded' # awarded PROVE Ledger!Next
  OBVIOUS
<1>1. PICK p \in Platform : Pay(p)
  BY DEF Next, Contribute, Midnight, Query, Crash, Restart
<1>2. PICK d \in Day, c \in Contributor :
        /\ awarded[d][c] = None
        /\ awarded' = [awarded EXCEPT ![d][c] = Share(c, run[p].points)]
        /\ Share(c, run[p].points) \in Tokens
  BY <1>1, PayWrites
<1>3. QED
  BY <1>2 DEF Ledger!Next, Ledger!Award, Tokens

-----------------------------------------------------------------------------
(* The votes.                                                                *)

(* The recorded votes that are counted on side s, as the tally adds them.     *)
CountedVotes(s) == {v \in Vote : req[v].support = s /\ req[v].at = "over" /\ v \in votes}
Weights == [v \in Vote |-> req[v].weight]
VoteSum(s) == SumOver(Weights, CountedVotes(s))

LEMMA VoteSumIsSum ==
  ASSUME NEW s \in BOOLEAN, G!TypeOK, IsFiniteSet(votes)
  PROVE  /\ G!MapThenSumSet(LAMBDA v : req[v].weight,
              {v \in Vote : req[v].support = s /\ req[v].at = "over" /\ v \in votes}) = VoteSum(s)
         /\ IsFiniteSet(CountedVotes(s))
         /\ \A v \in Vote : Weights[v] \in Nat /\ Weights[v] = req[v].weight
<1> DEFINE S == CountedVotes(s)
           w == Weights
           T(g) == g = [u \in SUBSET S |->
                          IF u = {} THEN 0 ELSE req[Pick(u)].weight + g[u \ {Pick(u)}]]
<1>1. \A v \in Vote : w[v] \in Nat /\ w[v] = req[v].weight
  BY DEF G!TypeOK, G!Request, Weights
<1>2. IsFiniteSet(S) /\ S \subseteq Vote
  BY FS_Subset DEF CountedVotes
<1>3. G!MapThenSumSet(LAMBDA v : req[v].weight,
        {v \in Vote : req[v].support = s /\ req[v].at = "over" /\ v \in votes})
      = (CHOOSE g : T(g))[S]
  BY DEF G!MapThenSumSet, G!MapThenFoldSet, Pick, CountedVotes
<1> HIDE DEF w, S
<1>4. ASSUME NEW g PROVE T(g) <=> Sums(g, w, S)
  <2>1. \A u \in SUBSET S : u # {} => w[Pick(u)] = req[Pick(u)].weight
    <3>1. \A u \in SUBSET S : u # {} => Pick(u) \in Vote
      BY <1>2 DEF Pick
    <3>2. QED
      BY <1>1, <3>1
  <2>2. [u \in SUBSET S |-> IF u = {} THEN 0 ELSE req[Pick(u)].weight + g[u \ {Pick(u)}]]
        = [u \in SUBSET S |-> IF u = {} THEN 0 ELSE w[Pick(u)] + g[u \ {Pick(u)}]]
    BY <2>1
  <2>3. QED
    BY <2>2 DEF Sums
<1> HIDE DEF T
<1>5. \A v \in S : w[v] \in Nat
  BY <1>1, <1>2
<1>6. PICK f : Sums(f, w, S) /\ SumOver(w, S) = f[S]
  BY <1>2, <1>5, SumsChosen
<1>7. T(CHOOSE g : T(g))
  BY <1>4, <1>6
<1>8. (CHOOSE g : T(g))[S] = f[S]
  BY <1>2, <1>4, <1>6, <1>7, SumsAgree
<1>9. QED
  BY <1>1, <1>2, <1>3, <1>6, <1>8 DEF w, S, VoteSum

(* The property in these words. *)
TallyInv ==
  \A s \in BOOLEAN : tally[s] = VoteSum(s) \/ \E v \in strayed : req[v].support = s

LEMMA TallyInWords ==
  G!TypeOK /\ IsFiniteSet(votes) => (TallyIsVotes <=> TallyInv)
BY VoteSumIsSum DEF TallyIsVotes, G!TallyIsVotes, TallyInv

LEMMA TallyInWordsNext ==
  G!TypeOK' /\ IsFiniteSet(votes)' => (TallyIsVotes' <=> TallyInv')
BY TallyInWords, PTL

(* A side whose counted votes stay, with their weights, keeps its sum. *)
LEMMA SameSum ==
  ASSUME NEW s \in BOOLEAN, G!TypeOK, G!TypeOK', IsFiniteSet(votes), IsFiniteSet(votes'),
         CountedVotes(s)' = CountedVotes(s),
         \A v \in CountedVotes(s) : req'[v].weight = req[v].weight
  PROVE  VoteSum(s)' = VoteSum(s)
<1>1. IsFiniteSet(CountedVotes(s))
  BY VoteSumIsSum
<1>2. \A v \in Vote : /\ Weights[v] \in Nat /\ Weights[v] = req[v].weight
                      /\ Weights'[v] = req'[v].weight
  BY DEF G!TypeOK, G!Request, Weights
<1>3. CountedVotes(s) \subseteq Vote
  BY DEF CountedVotes
<1>4. \A v \in CountedVotes(s) : Weights[v] \in Nat /\ Weights[v] = Weights'[v]
  BY <1>2, <1>3
<1>5. SumOver(Weights, CountedVotes(s)) = SumOver(Weights', CountedVotes(s))
  BY <1>1, <1>4, SumSame
<1>6. QED
  BY <1>5 DEF VoteSum

(* A vote that comes to be counted adds its weight. *)
LEMMA OneMoreVote ==
  ASSUME NEW s \in BOOLEAN, NEW x \in Vote, G!TypeOK, G!TypeOK',
         IsFiniteSet(votes), IsFiniteSet(votes'),
         x \notin CountedVotes(s), CountedVotes(s)' = CountedVotes(s) \cup {x},
         \A v \in Vote : req'[v].weight = req[v].weight
  PROVE  VoteSum(s)' = VoteSum(s) + req[x].weight
<1>1. IsFiniteSet(CountedVotes(s)) /\ IsFiniteSet(CountedVotes(s) \cup {x})
  BY VoteSumIsSum, FS_AddElement
<1>2. \A v \in Vote : Weights[v] \in Nat /\ Weights[v] = req[v].weight
  BY DEF G!TypeOK, G!Request, Weights
<1>3. Weights' = Weights
  BY DEF Weights
<1>4. CountedVotes(s) \cup {x} \subseteq Vote /\ (CountedVotes(s) \cup {x}) \ {x} = CountedVotes(s)
  BY DEF CountedVotes
<1>5. \A v \in CountedVotes(s) \cup {x} : Weights[v] \in Nat
  BY <1>2, <1>4
<1>6. SumOver(Weights, CountedVotes(s) \cup {x}) = Weights[x] + SumOver(Weights, CountedVotes(s))
  BY <1>1, <1>4, <1>5, SumRemove
<1>7. SumOver(Weights, CountedVotes(s)) \in Nat
  BY <1>1, <1>5, SumType
<1>8. VoteSum(s)' = SumOver(Weights, CountedVotes(s) \cup {x})
  BY <1>3 DEF VoteSum
<1>9. QED
  BY <1>2, <1>6, <1>7, <1>8 DEF VoteSum

LEMMA InitGovernance == G!Init => GovernanceInv
<1> SUFFICES ASSUME G!Init PROVE GovernanceInv
  OBVIOUS
<1>1. IsFiniteSet(votes)
  BY FS_EmptySet DEF G!Init
<1>2. req \in [Vote -> G!Request] /\ \A v \in Vote : req[v].at = "new"
  BY DEF G!Init, G!Request
<1>3. G!TypeOK
  <2>1. /\ status \in G!Status \cup {"none"} /\ past \in BOOLEAN
        /\ votes \subseteq Vote /\ strayed \subseteq Vote
    BY DEF G!Init
  <2>2. checks \in Seq([gate : Gate, passed : BOOLEAN])
    BY EmptySeq DEF G!Init
  <2>3. tally \in [BOOLEAN -> Nat] /\ faults \in 0..FaultBudget
    BY BoundAssumption DEF G!Init
  <2>4. QED
    BY <1>2, <2>1, <2>2, <2>3 DEF G!TypeOK
<1>4. TallyInv
  <2>1. \A s \in BOOLEAN : CountedVotes(s) = {} /\ tally[s] = 0
    BY DEF G!Init, CountedVotes
  <2>2. \A s \in BOOLEAN : VoteSum(s) = 0
    BY <2>1, SumEmpty DEF VoteSum
  <2>3. QED
    BY <2>1, <2>2 DEF TallyInv
<1>5. VotesInv
  BY <1>1, <1>2 DEF VotesInv, G!Init
<1>6. QED
  BY <1>1, <1>3, <1>4, <1>5, TallyInWords DEF GovernanceInv

LEMMA GovernanceFaults ==
  ASSUME faults \in 0..FaultBudget, G!Fine \/ G!Fault
  PROVE  faults' \in 0..FaultBudget
BY BoundAssumption DEF G!Fine, G!Fault

(* A step of the proposal or its gates. *)
LEMMA VotesRest ==
  ASSUME GovernanceInv, G!TypeOK', UNCHANGED <<tally, votes, req, strayed>>
  PROVE  GovernanceInv'
<1>1. TallyInv
  BY TallyInWords DEF GovernanceInv, VotesInv
<1>2. \A s \in BOOLEAN : VoteSum(s)' = VoteSum(s)
  BY DEF VoteSum, Weights, CountedVotes
<1>3. TallyInv'
  BY <1>1, <1>2 DEF TallyInv
<1>4. VotesInv'
  BY DEF GovernanceInv, VotesInv
<1>5. QED
  BY <1>3, <1>4, TallyInWordsNext DEF GovernanceInv, VotesInv

LEMMA ProposalKeeps ==
  ASSUME GovernanceInv,
         \/ G!Create \/ G!DeadlinePasses \/ \E to \in G!Status : G!Move(to)
         \/ \E g \in Gate, passed \in BOOLEAN : G!Check(g, passed)
  PROVE  GovernanceInv'
<1>1. UNCHANGED <<tally, votes, req, strayed>>
  BY DEF G!Create, G!DeadlinePasses, G!Move, G!Check
<1>2. faults' \in 0..FaultBudget
  BY GovernanceFaults
  DEF G!Create, G!DeadlinePasses, G!Move, G!Check, G!Fine, GovernanceInv, G!TypeOK
<1>3. checks' \in Seq([gate : Gate, passed : BOOLEAN])
  <2>1. CASE UNCHANGED checks
    BY <2>1 DEF GovernanceInv, G!TypeOK
  <2>2. ASSUME NEW g \in Gate, NEW passed \in BOOLEAN, G!Check(g, passed)
        PROVE  checks' \in Seq([gate : Gate, passed : BOOLEAN])
    BY <2>2 DEF G!Check, GovernanceInv, G!TypeOK
  <2>3. QED
    BY <2>1, <2>2 DEF G!Create, G!DeadlinePasses, G!Move
<1>4. status' \in G!Status \cup {"none"} /\ past' \in BOOLEAN
  BY DEF G!Create, G!DeadlinePasses, G!Move, G!Check, GovernanceInv, G!TypeOK, G!Status
<1>5. G!TypeOK'
  BY <1>1, <1>2, <1>3, <1>4 DEF GovernanceInv, G!TypeOK
<1>6. QED
  BY <1>1, <1>5, VotesRest

(* A step of a request that counts no vote and takes none back: it may go     *)
(* astray on the side it has chosen.                                          *)
LEMMA RequestKeeps ==
  ASSUME GovernanceInv, NEW x \in Vote, NEW r \in G!Request,
         req' = [req EXCEPT ![x] = r],
         UNCHANGED <<status, past, tally, checks>>, faults' \in 0..FaultBudget,
         votes' \in {votes, votes \cup {x}}, strayed' \in {strayed, strayed \cup {x}},
         req[x].at = "new" \/ r.support = req[x].support,
         req[x].at # "over", r.at = "over" => x \notin votes' \/ x \in strayed',
         x \in votes' => r.at \in {"tally", "over"},
         r.at = "tally" => x \in votes' \cup strayed',
         x \in strayed' => r.at # "new"
  PROVE  GovernanceInv'
<1>1. req \in [Vote -> G!Request] /\ IsFiniteSet(votes) /\ IsFiniteSet(votes')
  BY FS_AddElement DEF GovernanceInv, VotesInv, G!TypeOK
<1>2. req' \in [Vote -> G!Request]
      /\ req'[x] = r /\ \A v \in Vote \ {x} : req'[v] = req[v]
  BY <1>1
<1>3. G!TypeOK'
  BY <1>2 DEF GovernanceInv, G!TypeOK
<1>4. VotesInv'
  BY <1>1, <1>2 DEF GovernanceInv, VotesInv
<1>5. TallyInv
  BY TallyInWords DEF GovernanceInv, VotesInv
<1>6. ASSUME NEW s \in BOOLEAN
      PROVE  tally'[s] = VoteSum(s)' \/ \E v \in strayed' : req'[v].support = s
  <2>1. CASE \E v \in strayed : req[v].support = s
    <3>1. PICK v \in strayed : req[v].support = s
      BY <2>1
    <3>2. v \in Vote /\ req[v].at # "new"
      BY <3>1 DEF GovernanceInv, G!TypeOK, VotesInv
    <3>3. QED
      BY <1>2, <3>1, <3>2
  <2>2. CASE x \in strayed' /\ r.support = s
    BY <1>2, <2>2
  <2>3. CASE /\ tally[s] = VoteSum(s)
             /\ ~ (x \in strayed' /\ r.support = s)
    <3>1. x \notin CountedVotes(s)
      BY DEF CountedVotes
    <3>2. x \notin CountedVotes(s)'
      BY <1>2, <2>3 DEF CountedVotes
    <3>3. CountedVotes(s)' = CountedVotes(s)
      BY <1>2, <3>1, <3>2 DEF CountedVotes
    <3>4. \A v \in CountedVotes(s) : req'[v].weight = req[v].weight
      BY <1>2, <3>1 DEF CountedVotes
    <3>5. VoteSum(s)' = VoteSum(s)
      BY <1>1, <1>3, <3>3, <3>4, SameSum DEF GovernanceInv
    <3>6. QED
      BY <2>3, <3>5
  <2>4. QED
    BY <1>5, <2>1, <2>2, <2>3 DEF TallyInv
<1>7. TallyIsVotes'
  <2>1. TallyInv'
    BY <1>6 DEF TallyInv
  <2>2. QED
    BY <1>1, <1>3, <2>1, TallyInWordsNext
<1>8. QED
  BY <1>3, <1>4, <1>7 DEF GovernanceInv

LEMMA WeighKeeps ==
  ASSUME GovernanceInv, NEW x \in Vote, NEW s \in BOOLEAN, G!Weigh(x, s)
  PROVE  GovernanceInv'
<1>1. req[x] \in G!Request /\ req[x].at = "new" /\ x \notin votes /\ x \notin strayed
  BY DEF G!Weigh, GovernanceInv, G!TypeOK, VotesInv
<1>2. faults' \in 0..FaultBudget
  BY GovernanceFaults DEF G!Weigh, GovernanceInv, G!TypeOK
<1>3. UNCHANGED <<status, past, tally, votes, checks, strayed>>
  BY DEF G!Weigh
<1>4. PICK r \in G!Request : req' = [req EXCEPT ![x] = r] /\ r.at \in {"look", "over"}
  <2>1. CASE G!Goto(x, "over")
    <3>1. [req[x] EXCEPT !.at = "over"] \in G!Request
      BY <1>1 DEF G!Request
    <3>2. req' = [req EXCEPT ![x] = [req[x] EXCEPT !.at = "over"]]
      BY <2>1 DEF G!Goto, GovernanceInv, G!TypeOK
    <3>3. [req[x] EXCEPT !.at = "over"].at = "over"
      BY <1>1 DEF G!Request
    <3>4. QED
      BY <3>1, <3>2, <3>3
  <2>2. ASSUME NEW weight \in {Stake[x], DefaultWeight},
               req' = [req EXCEPT ![x] = [at |-> "look", support |-> s, weight |-> weight]]
        PROVE  \E r \in G!Request : req' = [req EXCEPT ![x] = r] /\ r.at \in {"look", "over"}
    <3>1. weight \in Nat
      BY StakeAssumption
    <3>2. [at |-> "look", support |-> s, weight |-> weight] \in G!Request
      BY <3>1 DEF G!Request
    <3>3. QED
      BY <2>2, <3>2
  <2>3. QED
    BY <2>1, <2>2 DEF G!Weigh
<1>5. QED
  BY <1>1, <1>2, <1>3, <1>4, RequestKeeps

(* A request goes on to another step. *)
LEMMA GoneTo ==
  ASSUME GovernanceInv, NEW x \in Vote, NEW step \in {"insert", "tally", "over"}, G!Goto(x, step)
  PROVE  \E r \in G!Request :
           /\ req' = [req EXCEPT ![x] = r] /\ r.at = step
           /\ r.support = req[x].support /\ r.weight = req[x].weight
<1> DEFINE r == [req[x] EXCEPT !.at = step]
<1>1. req[x] \in G!Request
  BY DEF GovernanceInv, G!TypeOK
<1>2. r \in G!Request /\ r.at = step /\ r.support = req[x].support /\ r.weight = req[x].weight
  BY <1>1 DEF G!Request
<1>3. req' = [req EXCEPT ![x] = r]
  BY DEF G!Goto
<1>4. QED
  BY <1>2, <1>3

LEMMA LookKeeps ==
  ASSUME GovernanceInv, NEW x \in Vote, G!Look(x)
  PROVE  GovernanceInv'
<1>1. req[x].at = "look" /\ UNCHANGED <<status, past, tally, votes, checks, strayed>>
  BY DEF G!Look
<1>2. faults' \in 0..FaultBudget
  BY GovernanceFaults DEF G!Look, GovernanceInv, G!TypeOK
<1>3. PICK step \in {"insert", "over"} : G!Goto(x, step)
  BY DEF G!Look
<1>4. PICK r \in G!Request : /\ req' = [req EXCEPT ![x] = r] /\ r.at = step
                             /\ r.support = req[x].support
  BY <1>3, GoneTo
<1>5. x \notin votes
  BY <1>1 DEF GovernanceInv, VotesInv
<1>6. QED
  BY <1>1, <1>2, <1>4, <1>5, RequestKeeps

LEMMA InsertKeeps ==
  ASSUME GovernanceInv, NEW x \in Vote, G!InsertVote(x)
  PROVE  GovernanceInv'
<1>1. req[x].at = "insert" /\ UNCHANGED <<status, past, tally, checks>>
  BY DEF G!InsertVote
<1>2. faults' \in 0..FaultBudget
  BY GovernanceFaults DEF G!InsertVote, GovernanceInv, G!TypeOK
<1>3. PICK r \in G!Request : /\ req' = [req EXCEPT ![x] = r] /\ r.at = "tally"
                             /\ r.support = req[x].support
  BY GoneTo DEF G!InsertVote
<1>4. \/ votes' = votes \cup {x} /\ strayed' = strayed
      \/ votes' = votes /\ strayed' = strayed \cup {x}
  BY DEF G!InsertVote
<1>5. QED
  BY <1>1, <1>2, <1>3, <1>4, RequestKeeps

LEMMA CutKeeps ==
  ASSUME GovernanceInv, NEW x \in Vote, G!Cut(x)
  PROVE  GovernanceInv'
<1>1. /\ req[x].at \in {"look", "insert", "tally"}
      /\ UNCHANGED <<status, past, tally, votes, checks>> /\ strayed' = strayed \cup {x}
  BY DEF G!Cut
<1>2. faults' \in 0..FaultBudget
  BY GovernanceFaults DEF G!Cut, GovernanceInv, G!TypeOK
<1>3. PICK r \in G!Request : /\ req' = [req EXCEPT ![x] = r] /\ r.at = "over"
                             /\ r.support = req[x].support
  BY GoneTo DEF G!Cut
<1>4. QED
  BY <1>1, <1>2, <1>3, RequestKeeps

(* A vote is added to the tally of its side, or its request goes astray. *)
LEMMA CountKeeps ==
  ASSUME GovernanceInv, NEW x \in Vote, G!CountVote(x)
  PROVE  GovernanceInv'
<1>1. req[x].at = "tally" /\ UNCHANGED <<status, past, votes, checks>>
  BY DEF G!CountVote
<1>2. faults' \in 0..FaultBudget
  BY GovernanceFaults DEF G!CountVote, GovernanceInv, G!TypeOK
<1>3. PICK r \in G!Request : /\ req' = [req EXCEPT ![x] = r] /\ r.at = "over"
                             /\ r.support = req[x].support /\ r.weight = req[x].weight
  BY GoneTo DEF G!CountVote
<1>4. CASE strayed' = strayed \cup {x} /\ UNCHANGED tally
  BY <1>1, <1>2, <1>3, <1>4, RequestKeeps
<1>5. CASE tally' = G!Counted(x) /\ UNCHANGED strayed
  <2>1. /\ req \in [Vote -> G!Request] /\ IsFiniteSet(votes) /\ G!TypeOK
        /\ req[x].support \in BOOLEAN /\ req[x].weight \in Nat /\ tally \in [BOOLEAN -> Nat]
    BY DEF GovernanceInv, VotesInv, G!TypeOK, G!Request
  <2>2. /\ req' \in [Vote -> G!Request] /\ req'[x] = r
        /\ \A v \in Vote \ {x} : req'[v] = req[v]
    BY <1>3, <2>1
  <2>3. /\ tally' \in [BOOLEAN -> Nat]
        /\ tally'[req[x].support] = tally[req[x].support] + req[x].weight
        /\ \A s \in BOOLEAN \ {req[x].support} : tally'[s] = tally[s]
    BY <1>5, <2>1 DEF G!Counted
  <2>4. G!TypeOK'
    BY <1>1, <1>2, <1>5, <2>1, <2>2, <2>3 DEF G!TypeOK
  <2>5. VotesInv'
    BY <1>1, <1>3, <1>5, <2>2 DEF GovernanceInv, VotesInv
  <2>6. TallyInv
    BY <2>1, TallyInWords DEF GovernanceInv
  <2>7. ASSUME NEW s \in BOOLEAN
        PROVE  tally'[s] = VoteSum(s)' \/ \E v \in strayed' : req'[v].support = s
    <3>1. CASE \E v \in strayed : req[v].support = s
      <4>1. PICK v \in strayed : req[v].support = s
        BY <3>1
      <4>2. v \in Vote
        BY DEF GovernanceInv, G!TypeOK
      <4>3. QED
        BY <1>3, <1>5, <2>2, <4>1, <4>2
    <3>2. CASE tally[s] = VoteSum(s) /\ s = req[x].support /\ x \in votes
      <4>1. x \notin CountedVotes(s)
        BY <1>1 DEF CountedVotes
      <4>2. x \in CountedVotes(s)'
        BY <1>1, <1>3, <2>2, <3>2 DEF CountedVotes
      <4>3. \A v \in Vote \ {x} : v \in CountedVotes(s)' <=> v \in CountedVotes(s)
        BY <1>1, <2>2 DEF CountedVotes
      <4>4. CountedVotes(s)' = CountedVotes(s) \cup {x}
        <5>1. CountedVotes(s) \subseteq Vote /\ CountedVotes(s)' \subseteq Vote
          BY DEF CountedVotes
        <5>2. QED
          BY <4>1, <4>2, <4>3, <5>1
      <4>5. \A v \in Vote : req'[v].weight = req[v].weight
        BY <1>3, <2>2
      <4>6. IsFiniteSet(votes')
        BY <1>1, <2>1
      <4>7. VoteSum(s)' = VoteSum(s) + req[x].weight
        BY <2>1, <2>4, <4>1, <4>4, <4>5, <4>6, OneMoreVote
      <4>8. QED
        BY <2>3, <3>2, <4>7
    <3>3. CASE s = req[x].support /\ x \notin votes
      <4>1. x \in strayed
        BY <1>1, <3>3 DEF GovernanceInv, VotesInv
      <4>2. QED
        BY <3>1, <3>3, <4>1
    <3>4. CASE tally[s] = VoteSum(s) /\ s # req[x].support
      <4>1. CountedVotes(s)' = CountedVotes(s)
        BY <1>1, <1>3, <2>2, <3>4 DEF CountedVotes
      <4>2. \A v \in CountedVotes(s) : req'[v].weight = req[v].weight
        BY <1>3, <2>2 DEF CountedVotes
      <4>3. IsFiniteSet(votes')
        BY <1>1, <2>1
      <4>4. VoteSum(s)' = VoteSum(s)
        BY <2>1, <2>4, <4>1, <4>2, <4>3, SameSum
      <4>5. QED
        BY <2>3, <3>4, <4>4
    <3>5. QED
      BY <2>6, <3>1, <3>2, <3>3, <3>4 DEF TallyInv
  <2>8. TallyIsVotes'
    <3>1. TallyInv' /\ IsFiniteSet(votes')
      BY <1>1, <2>1, <2>7 DEF TallyInv
    <3>2. QED
      BY <2>4, <3>1, TallyInWordsNext
  <2>9. QED
    BY <2>4, <2>5, <2>8 DEF GovernanceInv
<1>6. QED
  BY <1>4, <1>5 DEF G!CountVote

(* Every step of the proposal and its votes keeps its invariant. *)
LEMMA GovernanceKeeps == GovernanceInv /\ G!Next => GovernanceInv'
<1> SUFFICES ASSUME GovernanceInv, G!Next PROVE GovernanceInv'
  OBVIOUS
<1>1. CASE \/ G!Create \/ G!DeadlinePasses \/ \E to \in G!Status : G!Move(to)
           \/ \E g \in Gate, passed \in BOOLEAN : G!Check(g, passed)
  BY <1>1, ProposalKeeps
<1>2. CASE \E x \in Vote : \E s \in BOOLEAN : G!Weigh(x, s)
  BY <1>2, WeighKeeps
<1>3. CASE \E x \in Vote : G!Look(x) \/ G!InsertVote(x) \/ G!CountVote(x) \/ G!Cut(x)
  BY <1>3, LookKeeps, InsertKeeps, CountKeeps, CutKeeps
<1>4. QED
  BY <1>1, <1>2, <1>3 DEF G!Next

LEMMA GovernanceRests ==
  ASSUME GovernanceInv, UNCHANGED governance, faults' \in 0..FaultBudget
  PROVE  GovernanceInv'
<1>1. UNCHANGED <<status, past, tally, votes, req, checks, strayed>>
  BY DEF governance
<1>2. G!TypeOK'
  BY <1>1 DEF GovernanceInv, G!TypeOK
<1>3. QED
  BY <1>1, <1>2, VotesRest

(* A row that comes after all the others leaves each gate's first check the   *)
(* first.                                                                     *)
LEMMA FirstCheckStays ==
  ASSUME NEW g, NEW rows \in Seq([gate : Gate, passed : BOOLEAN]),
         NEW row \in [gate : Gate, passed : BOOLEAN], G!Of(g, rows) # {}
  PROVE  /\ G!Of(g, Append(rows, row)) # {}
         /\ G!ShownCheck(g, Append(rows, row)) = G!ShownCheck(g, rows)
         /\ Append(rows, row)[G!ShownCheck(g, rows)] = rows[G!ShownCheck(g, rows)]
<1> DEFINE S == G!Of(g, rows)
           T == G!Of(g, Append(rows, row))
           n == Len(rows)
<1>1. /\ n \in Nat /\ DOMAIN rows = 1..n /\ DOMAIN Append(rows, row) = 1..(n + 1)
      /\ \A i \in 1..n : Append(rows, row)[i] = rows[i]
  OBVIOUS
<1>2. S \subseteq 1..n /\ S \subseteq T /\ T \subseteq S \cup {n + 1}
  BY <1>1 DEF G!Of
<1> HIDE DEF n
<1>3. PICK i \in S : \A j \in S : i <= j
  <2>1. S \subseteq Nat /\ S # {}
    BY <1>1, <1>2
  <2> HIDE DEF S
  <2>2. QED
    BY <2>1, Least
<1> HIDE DEF S, T
<1>4. i \in 1..n /\ i \in T /\ \A j \in T : i <= j
  BY <1>1, <1>2, <1>3
<1>5. G!Min(S) = i
  <2>1. \A k \in S : (\A j \in S : k <= j) => k = i
    BY <1>1, <1>2, <1>3
  <2>2. QED
    BY <1>3, <2>1 DEF G!Min
<1>6. G!Min(T) = i
  <2>1. \A k \in T : (\A j \in T : k <= j) => k = i
    BY <1>1, <1>2, <1>3, <1>4
  <2>2. QED
    BY <1>4, <2>1 DEF G!Min
<1>7. QED
  BY <1>1, <1>4, <1>5, <1>6 DEF G!ShownCheck, S, T

LEMMA VerdictStays ==
  ASSUME G!TypeOK, G!Next, NEW g \in Gate, G!Verdict(g, checks) # "unchecked"
  PROVE  G!Verdict(g, checks)' = G!Verdict(g, checks)
<1>1. G!Of(g, checks) # {}
  BY DEF G!Verdict
<1>2. CASE UNCHANGED checks
  BY <1>2 DEF G!Verdict, G!Of, G!ShownCheck, G!Min
<1>3. ASSUME NEW h \in Gate, NEW passed \in BOOLEAN, G!Check(h, passed)
      PROVE  G!Verdict(g, checks)' = G!Verdict(g, checks)
  <2> DEFINE row == [gate |-> h, passed |-> passed]
  <2>1. /\ checks \in Seq([gate : Gate, passed : BOOLEAN])
        /\ row \in [gate : Gate, passed : BOOLEAN] /\ checks' = Append(checks, row)
    BY <1>3 DEF G!Check, G!TypeOK
  <2> HIDE DEF row
  <2>2. /\ G!Of(g, checks') # {}
        /\ G!ShownCheck(g, checks') = G!ShownCheck(g, checks)
        /\ checks'[G!ShownCheck(g, checks)] = checks[G!ShownCheck(g, checks)]
    BY <1>1, <2>1, FirstCheckStays
  <2>3. G!Verdict(g, checks') = G!Verdict(g, checks)
    BY <1>1, <2>2 DEF G!Verdict
  <2>4. QED
    BY <2>3
<1>4. QED
  BY <1>2, <1>3 DEF G!Next, G!Create, G!Move, G!DeadlinePasses, G!Weigh, G!Look,
                    G!InsertVote, G!CountVote, G!Cut

-----------------------------------------------------------------------------
(* The credit gate: what a harness spends late.                              *)

(* What the first invariant needs of the types.                              *)
CreditTypes ==
  /\ balance \in Nat /\ deducted \in Nat
  /\ pc \in [Harness -> {"poll", "run", "report", "deduct"}]
  /\ allowed \in [Harness -> BOOLEAN]
  /\ spent \in [Harness -> 0..Rate]
  /\ late \in [Harness -> Nat]

(* An interval starts with nothing spent. While the gate is open nothing is  *)
(* late; what is late was spent in the running interval or in one before the *)
(* harness learnt that the gate is closed.                                   *)
LateInv ==
  \A h \in Harness :
    /\ pc[h] = "poll" => spent[h] = 0
    /\ Credit!GateOpen => late[h] = 0
    /\ late[h] <= Rate
    /\ pc[h] # "poll" /\ allowed[h] => late[h] <= spent[h]

CreditInv == CreditTypes /\ Credit!BalanceIsCreditLessUsage /\ LateInv

LEMMA CreditInitInv == Credit!Init => CreditInv
<1> SUFFICES ASSUME Credit!Init PROVE CreditInv
  OBVIOUS
<1>1. CreditTypes
  BY SpendAssumption DEF Credit!Init, CreditTypes
<1>2. Credit!BalanceIsCreditLessUsage
  BY SpendAssumption DEF Credit!Init, Credit!BalanceIsCreditLessUsage, Credit!PositivePart
<1>3. LateInv
  BY SpendAssumption DEF Credit!Init, LateInv
<1>4. QED
  BY <1>1, <1>2, <1>3 DEF CreditInv

(* The gate, spelled out. *)
LEMMA GateInWords ==
  Credit!GateOpen <=> subscription \notin Credit!BlockingStatuses /\ ~(balance <= 0)
BY DEF Credit!GateOpen, Credit!AllowSharedBedrock, Credit!GateReason

(* A report takes a natural number from the balance, or nothing. *)
LEMMA ReportKept ==
  ASSUME CreditInv, NEW h \in Harness, Credit!StoreReport(h) \/ Credit!Deduct(h)
  PROVE  CreditInv'
<1> USE DEF CreditTypes
<1>1. Credit!SharedCost(h) \in Nat
  BY SpendAssumption DEF CreditInv, Credit!SharedCost
<1>2. UNCHANGED <<subscription, allowed, late>>
  BY DEF Credit!StoreReport, Credit!Deduct
<1>3. \/ spent' = spent /\ Credit!Goto(h, "deduct") /\ pc[h] # "poll"
      \/ spent' = [spent EXCEPT ![h] = 0] /\ Credit!Goto(h, "poll")
  BY DEF Credit!StoreReport, Credit!Deduct, Credit!ReportLost
<1>4. \/ UNCHANGED <<balance, deducted>>
      \/ balance' = Credit!Take(balance, Credit!SharedCost(h)) /\ deducted' = deducted + Credit!SharedCost(h)
  BY DEF Credit!StoreReport, Credit!Deduct, Credit!ReportLost
<1>5. balance' \in Nat /\ balance' <= balance /\ deducted' \in Nat
  BY <1>1, <1>4 DEF CreditInv, Credit!Take, Credit!PositivePart
<1>6. CreditTypes'
  BY <1>2, <1>3, <1>5, SpendAssumption DEF CreditInv, Credit!Goto
<1>7. Credit!BalanceIsCreditLessUsage'
  BY <1>1, <1>4, SpendAssumption
     DEF CreditInv, Credit!BalanceIsCreditLessUsage, Credit!Take, Credit!PositivePart
<1>8. Credit!GateOpen' => Credit!GateOpen
  BY <1>2, <1>5, GateInWords DEF CreditInv, Credit!GateOpen, Credit!AllowSharedBedrock, Credit!GateReason
<1>9. LateInv'
  <2>1. /\ pc \in [Harness -> {"poll", "run", "report", "deduct"}]
        /\ spent \in [Harness -> 0..Rate] /\ late \in [Harness -> Nat]
    BY DEF CreditInv
  <2>2. QED
    BY <1>2, <1>3, <1>8, <2>1, SpendAssumption DEF CreditInv, LateInv, Credit!Goto
<1>10. QED
  BY <1>6, <1>7, <1>9 DEF CreditInv

LEMMA HarnessKept ==
  ASSUME CreditInv, NEW h \in Harness, Credit!GetBalance(h) \/ Credit!Spend(h) \/ Credit!SendReport(h)
  PROVE  CreditInv'
<1>1. UNCHANGED <<balance, subscription, deducted>>
  BY DEF Credit!GetBalance, Credit!Spend, Credit!SendReport
<1>2. Credit!BalanceIsCreditLessUsage' /\ (Credit!GateOpen' <=> Credit!GateOpen)
  BY <1>1 DEF CreditInv, Credit!BalanceIsCreditLessUsage, Credit!GateOpen
<1>3. CreditTypes /\ LateInv
  BY DEF CreditInv
<1>4. CASE Credit!GetBalance(h)
  <2>1. allowed' = [allowed EXCEPT ![h] = Credit!GateOpen] /\ Credit!Goto(h, "run") /\ pc[h] = "poll"
    BY <1>4 DEF Credit!GetBalance, Credit!Allow, Credit!GateOpen
  <2>2. UNCHANGED <<spent, late>> /\ Credit!GateOpen \in BOOLEAN
    BY <1>4, GateInWords DEF Credit!GetBalance, Credit!GateOpen, Credit!AllowSharedBedrock
  <2>3. CreditTypes'
    BY <1>1, <1>3, <2>1, <2>2 DEF CreditTypes, Credit!Goto
  <2>4. LateInv'
    BY <1>2, <1>3, <2>1, <2>2, SpendAssumption DEF CreditTypes, LateInv, Credit!Goto
  <2>5. QED
    BY <1>2, <2>3, <2>4 DEF CreditInv
<1>5. CASE Credit!Spend(h)
  <2>1. pc[h] = "run" /\ UNCHANGED <<pc, allowed>> /\ spent[h] < Rate
        /\ spent' = [spent EXCEPT ![h] = @ + 1]
    BY <1>5 DEF Credit!Spend
  <2>2. late' = late \/ (allowed[h] /\ ~Credit!GateOpen /\ late' = [late EXCEPT ![h] = @ + 1])
    BY <1>5 DEF Credit!Spend
  <2>3. CreditTypes'
    BY <1>1, <1>3, <2>1, <2>2, SpendAssumption DEF CreditTypes
  <2>4. LateInv'
    BY <1>2, <1>3, <2>1, <2>2, SpendAssumption DEF CreditTypes, LateInv
  <2>5. QED
    BY <1>2, <2>3, <2>4 DEF CreditInv
<1>6. CASE Credit!SendReport(h)
  <2>1. pc[h] = "run" /\ Credit!Goto(h, "report") /\ UNCHANGED <<allowed, spent, late>>
    BY <1>6 DEF Credit!SendReport
  <2>2. CreditTypes' /\ LateInv'
    BY <1>1, <1>2, <1>3, <2>1 DEF CreditTypes, LateInv, Credit!Goto
  <2>3. QED
    BY <1>2, <2>2 DEF CreditInv
<1>7. QED
  BY <1>4, <1>5, <1>6

LEMMA WebhookKept ==
  ASSUME CreditInv, Credit!CreditReset \/ Credit!StatusChange
  PROVE  CreditInv'
<1>1. UNCHANGED <<pc, allowed, spent>> /\ Credit!SinceClosed
  BY DEF Credit!CreditReset, Credit!StatusChange
<1>2. \/ balance' = Grant /\ deducted' = 0
      \/ UNCHANGED <<balance, deducted>>
  BY DEF Credit!CreditReset, Credit!StatusChange
<1>3. late' = [h \in Harness |-> 0] \/ (late' = late /\ (Credit!GateOpen' => Credit!GateOpen))
  BY <1>1 DEF Credit!SinceClosed
<1>4. CreditTypes'
  BY <1>1, <1>2, <1>3, SpendAssumption DEF CreditInv, CreditTypes
<1>5. Credit!BalanceIsCreditLessUsage'
  BY <1>2, SpendAssumption DEF CreditInv, Credit!BalanceIsCreditLessUsage, Credit!PositivePart
<1>6. LateInv'
  BY <1>1, <1>3, SpendAssumption DEF CreditInv, CreditTypes, LateInv
<1>7. QED
  BY <1>4, <1>5, <1>6 DEF CreditInv

-----------------------------------------------------------------------------
(* What the tenant spends beyond its credit.                                 *)

(* What reports carry when the harnesses have spent sp on the shared backend. *)
Cost(sp) == [h \in Harness |-> IF h \in Byok THEN 0 ELSE sp[h]]

(* What a harness may still have deducted for the interval it is in: in the  *)
(* interval whatever it can spend, after it what it spent.                   *)
Pot(p, a, sp) ==
  [h \in Harness |->
     IF h \in Byok \/ p[h] = "poll" THEN 0 ELSE IF p[h] = "run" /\ a[h] THEN Rate ELSE sp[h]]

Slack == Cardinality(Harness \ Byok) * Rate

(* Every unit the tenant spent has been deducted, lost, or is still to be    *)
(* reported; and a harness that was let in added at most one interval to a   *)
(* credit that was not used up: the deductions and everything that may still *)
(* become one stay within the credit and one interval of every harness.      *)
Accounted == used = deducted + lost + SumOver(Cost(spent), Harness)
PotBounded == deducted + SumOver(Pot(pc, allowed, spent), Harness) <= Grant + Slack

SpendInv == Credit!TypeOK /\ Accounted /\ PotBounded

LEMMA SlackType == Slack \in Nat
<1>1. IsFiniteSet(Harness \ Byok)
  BY SpendAssumption, FS_Subset
<1>2. Cardinality(Harness \ Byok) \in Nat
  BY <1>1, FS_CardinalityType
<1>3. QED
  BY <1>2, SpendAssumption DEF Slack

(* What CreditReset takes for the new credit is that sum. *)
LEMMA UnreportedIsSum ==
  ASSUME spent \in [Harness -> 0..Rate]
  PROVE  Credit!Unreported = SumOver(Cost(spent), Harness)
<1> DEFINE P(g) == g = [s \in SUBSET Harness |->
                      IF s = {} THEN 0
                      ELSE (IF Pick(s) \in Byok THEN 0 ELSE spent[Pick(s)]) + g[s \ {Pick(s)}]]
<1>1. Credit!Unreported = (CHOOSE g : P(g))[Harness]
  BY DEF Credit!Unreported, Credit!MapThenSumSet, Credit!MapThenFoldSet, Pick
<1>2. \A c \in Harness : Cost(spent)[c] \in Nat
  BY SpendAssumption DEF Cost
<1>3. ASSUME NEW g PROVE P(g) <=> Sums(g, Cost(spent), Harness)
  <2>1. \A s \in SUBSET Harness : s # {} =>
          Cost(spent)[Pick(s)] = IF Pick(s) \in Byok THEN 0 ELSE spent[Pick(s)]
    BY DEF Cost, Pick
  <2>2. QED
    BY <2>1 DEF Sums
<1> HIDE DEF P
<1>4. PICK f : Sums(f, Cost(spent), Harness) /\ SumOver(Cost(spent), Harness) = f[Harness]
  BY <1>2, SpendAssumption, SumsChosen
<1>5. P(CHOOSE g : P(g))
  BY <1>3, <1>4
<1>6. Sums(CHOOSE g : P(g), Cost(spent), Harness)
  BY <1>3, <1>5
<1>7. QED
  BY <1>1, <1>2, <1>4, <1>6, SpendAssumption, SumsAgree

(* The weights the two sums add up. *)
LEMMA WeightTypes ==
  ASSUME Credit!TypeOK, NEW h \in Harness
  PROVE  /\ Cost(spent)[h] \in 0..Rate
         /\ Pot(pc, allowed, spent)[h] \in 0..Rate
         /\ h \in Byok => Pot(pc, allowed, spent)[h] = 0
         /\ Credit!SharedCost(h) = Cost(spent)[h]
BY SpendAssumption DEF Credit!TypeOK, Cost, Pot, Credit!SharedCost

(* What may still be deducted is at most one interval of every harness. *)
LEMMA PotIsOneInterval ==
  ASSUME Credit!TypeOK
  PROVE  /\ SumOver(Pot(pc, allowed, spent), Harness) \in Nat
         /\ SumOver(Pot(pc, allowed, spent), Harness) <= Slack
         /\ SumOver(Cost(spent), Harness) \in Nat
<1>1. \A h \in Harness :
        /\ Pot(pc, allowed, spent)[h] \in 0..Rate
        /\ h \in Byok => Pot(pc, allowed, spent)[h] = 0
        /\ Cost(spent)[h] \in Nat
  BY WeightTypes
<1>2. SumOver(Pot(pc, allowed, spent), Harness) <= Slack
  BY <1>1, SpendAssumption, SumBound DEF Slack
<1>3. QED
  BY <1>1, <1>2, SpendAssumption, SumType

LEMMA SpendInit == Credit!Init => SpendInv
<1> SUFFICES ASSUME Credit!Init PROVE SpendInv
  OBVIOUS
<1>1. Credit!TypeOK
  BY SpendAssumption, BoundAssumption DEF Credit!Init, Credit!TypeOK, Credit!Statuses
<1>2. \A h \in Harness : Cost(spent)[h] = 0 /\ Pot(pc, allowed, spent)[h] = 0
  BY DEF Credit!Init, Cost, Pot
<1>3. SumOver(Cost(spent), Harness) <= 0 /\ SumOver(Pot(pc, allowed, spent), Harness) <= 0
  <2>1. Cardinality(Harness \ {}) \in Nat /\ Cardinality(Harness \ {}) * 0 = 0
    BY SpendAssumption, FS_CardinalityType
  <2>2. \A w : (\A h \in Harness : w[h] = 0) => SumOver(w, Harness) <= 0
    <3> SUFFICES ASSUME NEW w, \A h \in Harness : w[h] = 0 PROVE SumOver(w, Harness) <= 0
      OBVIOUS
    <3>1. \A h \in Harness : w[h] \in 0..0 /\ (h \in {} => w[h] = 0)
      OBVIOUS
    <3>2. SumOver(w, Harness) <= Cardinality(Harness \ {}) * 0
      BY <3>1, SpendAssumption, SumBound
    <3>3. QED
      BY <2>1, <3>2
  <2>3. QED
    BY <1>2, <2>2
<1>4. Accounted
  BY <1>1, <1>3, PotIsOneInterval DEF Credit!Init, Accounted
<1>5. PotBounded
  BY <1>1, <1>3, PotIsOneInterval, SlackType, SpendAssumption DEF Credit!Init, PotBounded
<1>6. QED
  BY <1>1, <1>4, <1>5 DEF SpendInv

(* One harness's change, in numbers: n is used, d deducted, l lost. *)
LEMMA ShiftUsed ==
  ASSUME NEW h \in Harness, NEW u, NEW v,
         \A c \in Harness : u[c] \in Nat /\ v[c] \in Nat /\ (c # h => u[c] = v[c]),
         NEW n \in Nat, NEW d \in Nat, NEW l \in Nat,
         NEW m \in Nat, NEW e \in Nat, NEW k \in Nat,
         n = d + l + SumOver(u, Harness), m + d + l + u[h] = n + e + k + v[h]
  PROVE  m = e + k + SumOver(v, Harness)
<1> DEFINE U == SumOver(u, Harness)
           V == SumOver(v, Harness)
<1>1. V + u[h] = U + v[h]
  BY SpendAssumption, SumUpdate
<1>2. U \in Nat /\ V \in Nat
  BY SpendAssumption, SumType
<1>3. u[h] \in Nat /\ v[h] \in Nat /\ n = d + l + U
  OBVIOUS
<1> HIDE DEF U, V
<1>4. m = e + k + V
  BY <1>1, <1>2, <1>3
<1>5. QED
  BY <1>4 DEF V

LEMMA ShiftPot ==
  ASSUME NEW h \in Harness, NEW p, NEW q,
         \A c \in Harness : p[c] \in Nat /\ q[c] \in Nat /\ (c # h => p[c] = q[c]),
         NEW d \in Nat, NEW e \in Nat, NEW top \in Nat,
         d + SumOver(p, Harness) <= top, e + q[h] <= d + p[h]
  PROVE  e + SumOver(q, Harness) <= top
<1> DEFINE P == SumOver(p, Harness)
           Q == SumOver(q, Harness)
<1>1. Q + p[h] = P + q[h]
  BY SpendAssumption, SumUpdate
<1>2. P \in Nat /\ Q \in Nat
  BY SpendAssumption, SumType
<1>3. p[h] \in Nat /\ q[h] \in Nat /\ d + P <= top
  OBVIOUS
<1> HIDE DEF P, Q
<1>4. e + Q <= top
  BY <1>1, <1>2, <1>3
<1>5. QED
  BY <1>4 DEF Q

(* A step of one harness changes its own weights only; what it takes out of   *)
(* the one sum goes into the deductions or the losses, and what is deducted   *)
(* comes out of the other.                                                   *)
LEMMA SpendFrame ==
  ASSUME SpendInv, Credit!TypeOK', NEW h \in Harness,
         \A x \in Harness \ {h} :
           pc'[x] = pc[x] /\ allowed'[x] = allowed[x] /\ spent'[x] = spent[x],
         used' + deducted + lost + Cost(spent)[h]
           = used + deducted' + lost' + Cost(spent')[h],
         \/ deducted' + Pot(pc', allowed', spent')[h] <= deducted + Pot(pc, allowed, spent)[h]
         \/ deducted' <= Grant
  PROVE  SpendInv'
<1>1. Credit!TypeOK
  BY DEF SpendInv
<1>2. PICK u, v, p, q :
        /\ u = Cost(spent) /\ v = Cost(spent')
        /\ p = Pot(pc, allowed, spent) /\ q = Pot(pc', allowed', spent')
  OBVIOUS
<1>3. \A c \in Harness : u[c] \in Nat /\ p[c] \in Nat
  BY <1>1, <1>2, WeightTypes, SpendAssumption
<1>4. \A c \in Harness : v[c] \in Nat /\ q[c] \in 0..Rate /\ (c \in Byok => q[c] = 0)
  BY <1>2, SpendAssumption DEF Credit!TypeOK, Cost, Pot
<1>5. \A c \in Harness : c # h => u[c] = v[c] /\ p[c] = q[c]
  BY <1>2 DEF Cost, Pot
<1>6. \A c \in Harness : q[c] \in Nat
  BY <1>4, SpendAssumption
<1>7. PICK n \in Nat, d \in Nat, l \in Nat : n = used /\ d = deducted /\ l = lost
  BY <1>1 DEF Credit!TypeOK
<1>8. PICK m \in Nat, e \in Nat, k \in Nat : m = used' /\ e = deducted' /\ k = lost'
  BY DEF Credit!TypeOK
<1>9. m = e + k + SumOver(v, Harness)
  <2>1. n = d + l + SumOver(u, Harness)
    BY <1>2, <1>7 DEF SpendInv, Accounted
  <2>2. m + d + l + u[h] = n + e + k + v[h]
    BY <1>2, <1>7, <1>8
  <2>3. \A c \in Harness : u[c] \in Nat /\ v[c] \in Nat /\ (c # h => u[c] = v[c])
    BY <1>3, <1>4, <1>5
  <2>4. QED
    BY <1>7, <1>8, <2>1, <2>2, <2>3, ShiftUsed
<1>10. e + SumOver(q, Harness) <= Grant + Slack
  <2>1. CASE e <= Grant
    <3>1. SumOver(q, Harness) <= Slack /\ SumOver(q, Harness) \in Nat
      BY <1>4, <1>6, SpendAssumption, SumBound, SumType DEF Slack
    <3>2. QED
      BY <2>1, <3>1, SlackType, SpendAssumption
  <2>2. CASE e + q[h] <= d + p[h]
    <3>1. d + SumOver(p, Harness) <= Grant + Slack
      BY <1>2, <1>7 DEF SpendInv, PotBounded
    <3>2. PICK top \in Nat : top = Grant + Slack
      BY SlackType, SpendAssumption
    <3>3. QED
      BY <1>3, <1>5, <1>6, <2>2, <3>1, <3>2, ShiftPot
  <2>3. QED
    BY <1>2, <1>7, <1>8, <2>1, <2>2
<1>11. Accounted' /\ PotBounded'
  BY <1>2, <1>8, <1>9, <1>10 DEF Accounted, PotBounded, Slack
<1>12. QED
  BY <1>11 DEF SpendInv

LEMMA HarnessSpends ==
  ASSUME CreditInv, SpendInv, NEW h \in Harness,
         \/ Credit!GetBalance(h) \/ Credit!Spend(h) \/ Credit!SendReport(h)
         \/ Credit!StoreReport(h) \/ Credit!Deduct(h)
  PROVE  SpendInv'
<1>1. Credit!TypeOK /\ LateInv /\ Credit!BalanceIsCreditLessUsage
  BY DEF SpendInv, CreditInv
<1>2. Cost(spent)[h] \in 0..Rate /\ Credit!SharedCost(h) = Cost(spent)[h]
  BY <1>1, WeightTypes
<1> DEFINE c == Cost(spent)[h]
<1>3. CASE Credit!GetBalance(h)
  <2>1. Credit!TypeOK'
    <3>1. Credit!Allow(balance, subscription) \in BOOLEAN
      BY DEF Credit!Allow, Credit!AllowSharedBedrock
    <3>2. QED
      BY <1>1, <1>3, <3>1, SpendAssumption DEF Credit!GetBalance, Credit!Goto, Credit!TypeOK, Credit!bounds
  <2>2. UNCHANGED <<spent, used, deducted, lost>> /\ Credit!Goto(h, "run") /\ pc[h] = "poll"
        /\ allowed' = [allowed EXCEPT ![h] = Credit!Allow(balance, subscription)]
    BY <1>3 DEF Credit!GetBalance
  <2>3. \A x \in Harness \ {h} :
          pc'[x] = pc[x] /\ allowed'[x] = allowed[x] /\ spent'[x] = spent[x]
    BY <1>1, <2>2 DEF Credit!TypeOK, Credit!Goto
  <2>4. used' + deducted + lost + Cost(spent)[h] = used + deducted' + lost' + Cost(spent')[h]
    BY <1>1, <1>2, <2>2 DEF Credit!TypeOK
  <2>5. CASE Credit!Allow(balance, subscription)
    <3>1. balance > 0
      BY <1>1, <2>5 DEF Credit!Allow, Credit!AllowSharedBedrock, Credit!GateReason, Credit!TypeOK
    <3>2. deducted' <= Grant
      BY <1>1, <2>2, <3>1, SpendAssumption
         DEF Credit!BalanceIsCreditLessUsage, Credit!PositivePart, Credit!TypeOK
    <3>3. QED
      BY <2>1, <2>3, <2>4, <3>2, SpendFrame
  <2>6. CASE ~Credit!Allow(balance, subscription)
    <3>1. spent[h] = 0 /\ ~allowed'[h]
      BY <1>1, <2>2, <2>6 DEF LateInv, Credit!TypeOK
    <3>2. Pot(pc', allowed', spent')[h] = 0 /\ Pot(pc, allowed, spent)[h] = 0
      BY <1>1, <2>2, <3>1 DEF Pot, Credit!TypeOK, Credit!Goto
    <3>3. deducted' + Pot(pc', allowed', spent')[h] <= deducted + Pot(pc, allowed, spent)[h]
      BY <1>1, <2>2, <3>2 DEF Credit!TypeOK
    <3>4. QED
      BY <2>1, <2>3, <2>4, <3>3, SpendFrame
  <2>7. QED
    BY <2>5, <2>6
<1>4. CASE Credit!Spend(h)
  <2>1. pc[h] = "run" /\ spent[h] < Rate /\ spent' = [spent EXCEPT ![h] = @ + 1]
        /\ UNCHANGED <<pc, allowed, deducted, lost>>
    BY <1>4 DEF Credit!Spend
  <2>2. \/ h \in Byok /\ used' = used /\ late' = late
        \/ /\ h \notin Byok /\ allowed[h] /\ used' = used + 1
           /\ late' = late \/ late' = [late EXCEPT ![h] = @ + 1]
    BY <1>4 DEF Credit!Spend
  <2>3. Credit!TypeOK'
    <3>1. UNCHANGED <<balance, subscription, pc, allowed, deducted, lost, Credit!bounds>>
      BY <1>4 DEF Credit!Spend
    <3>2. spent' \in [Harness -> 0..Rate]
      BY <1>1, <2>1, SpendAssumption DEF Credit!TypeOK
    <3>3. used' \in Nat /\ late' \in [Harness -> Nat]
      BY <1>1, <2>2 DEF Credit!TypeOK
    <3>4. QED
      BY <1>1, <3>1, <3>2, <3>3 DEF Credit!TypeOK, Credit!bounds
  <2>4. used' + c = used + Cost(spent')[h]
    BY <1>1, <2>1, <2>2, SpendAssumption DEF Credit!TypeOK, Cost
  <2>5. Pot(pc', allowed', spent')[h] = Pot(pc, allowed, spent)[h]
    BY <1>1, <2>1, <2>2 DEF Credit!TypeOK, Pot
  <2>6. Cost(spent')[h] \in Nat /\ Pot(pc, allowed, spent)[h] \in Nat
    BY <1>1, <2>3, WeightTypes, SpendAssumption DEF Credit!TypeOK, Cost
  <2>7. QED
    <3>1. used' + deducted + lost + c = used + deducted' + lost' + Cost(spent')[h]
      BY <1>1, <1>2, <2>1, <2>3, <2>4, <2>6 DEF Credit!TypeOK
    <3>2. \A x \in Harness \ {h} :
            pc'[x] = pc[x] /\ allowed'[x] = allowed[x] /\ spent'[x] = spent[x]
      BY <1>1, <2>1 DEF Credit!TypeOK
    <3>3. deducted' + Pot(pc', allowed', spent')[h] <= deducted + Pot(pc, allowed, spent)[h]
      BY <1>1, <2>1, <2>5, <2>6 DEF Credit!TypeOK
    <3>4. QED
      BY <2>3, <3>1, <3>2, <3>3, SpendFrame
<1>5. CASE Credit!SendReport(h)
  <2>1. pc[h] = "run" /\ Credit!Goto(h, "report") /\ UNCHANGED <<allowed, spent, used, deducted, lost>>
    BY <1>5 DEF Credit!SendReport
  <2>2. Credit!TypeOK'
    BY <1>1, <1>5 DEF Credit!SendReport, Credit!Goto, Credit!TypeOK, Credit!bounds
  <2>3. Pot(pc', allowed', spent')[h] <= Pot(pc, allowed, spent)[h]
    BY <1>1, <2>1, SpendAssumption DEF Credit!TypeOK, Pot, Credit!Goto
  <2>4. Pot(pc, allowed, spent)[h] \in Nat /\ Pot(pc', allowed', spent')[h] \in Nat
    BY <1>1, <2>2, SpendAssumption DEF Credit!TypeOK, Pot
  <2>5. deducted' + Pot(pc', allowed', spent')[h] <= deducted + Pot(pc, allowed, spent)[h]
    BY <1>1, <2>1, <2>3, <2>4 DEF Credit!TypeOK
  <2>6. \A x \in Harness \ {h} :
          pc'[x] = pc[x] /\ allowed'[x] = allowed[x] /\ spent'[x] = spent[x]
    BY <1>1, <2>1 DEF Credit!TypeOK, Credit!Goto
  <2>7. used' + deducted + lost + Cost(spent)[h] = used + deducted' + lost' + Cost(spent')[h]
    BY <1>1, <1>2, <2>1 DEF Credit!TypeOK
  <2>8. QED
    BY <2>2, <2>5, <2>6, <2>7, SpendFrame
<1>6. CASE /\ Credit!StoreReport(h) /\ Credit!Goto(h, "deduct")
           /\ UNCHANGED <<balance, spent, deducted, lost, faults>>
  <2>1. pc[h] = "report" /\ UNCHANGED <<allowed, used>>
    BY <1>6 DEF Credit!StoreReport
  <2>2. Credit!TypeOK'
    BY <1>1, <1>6 DEF Credit!StoreReport, Credit!Goto, Credit!TypeOK
  <2>3. Pot(pc', allowed', spent')[h] = Pot(pc, allowed, spent)[h]
    BY <1>1, <1>6, <2>1 DEF Credit!TypeOK, Pot, Credit!Goto
  <2>4. Pot(pc, allowed, spent)[h] \in Nat
    BY <1>1, WeightTypes, SpendAssumption
  <2>5. deducted' + Pot(pc', allowed', spent')[h] <= deducted + Pot(pc, allowed, spent)[h]
    BY <1>1, <1>6, <2>3, <2>4 DEF Credit!TypeOK
  <2>6. \A x \in Harness \ {h} :
          pc'[x] = pc[x] /\ allowed'[x] = allowed[x] /\ spent'[x] = spent[x]
    BY <1>1, <1>6, <2>1 DEF Credit!TypeOK, Credit!Goto
  <2>7. used' + deducted + lost + Cost(spent)[h] = used + deducted' + lost' + Cost(spent')[h]
    BY <1>1, <1>2, <1>6, <2>1 DEF Credit!TypeOK
  <2>8. QED
    BY <2>2, <2>5, <2>6, <2>7, SpendFrame
<1>7. CASE /\ (Credit!StoreReport(h) /\ Credit!ReportLost(h)) \/ Credit!Deduct(h)
  <2>1. /\ pc[h] # "poll" /\ pc[h] # "run"
        /\ spent' = [spent EXCEPT ![h] = 0] /\ Credit!Goto(h, "poll") /\ UNCHANGED <<allowed, used>>
    BY <1>7 DEF Credit!StoreReport, Credit!Deduct, Credit!ReportLost
  <2>2. \/ deducted' = deducted + c /\ lost' = lost
        \/ deducted' = deducted /\ lost' = lost + c
    BY <1>2, <1>7 DEF Credit!StoreReport, Credit!Deduct, Credit!ReportLost
  <2>3. Credit!TypeOK'
    <3>1. balance' \in Nat
      BY <1>1, <1>2, <1>7, SpendAssumption
         DEF Credit!StoreReport, Credit!Deduct, Credit!ReportLost, Credit!Take,
             Credit!PositivePart, Credit!TypeOK
    <3>2. faults' \in 0..FaultBudget
      BY <1>1, <1>7, BoundAssumption DEF Credit!StoreReport, Credit!Deduct, Credit!ReportLost, Credit!TypeOK
    <3>3. UNCHANGED <<subscription, allowed, used, late, periods, changes>>
      BY <1>7 DEF Credit!StoreReport, Credit!Deduct
    <3>4. deducted' \in Nat /\ lost' \in Nat
      BY <1>1, <1>2, <2>2 DEF Credit!TypeOK
    <3>5. spent' \in [Harness -> 0..Rate] /\ pc' \in [Harness -> {"poll", "run", "report", "deduct"}]
      BY <1>1, <2>1, SpendAssumption DEF Credit!TypeOK, Credit!Goto
    <3>6. QED
      BY <1>1, <3>1, <3>2, <3>3, <3>4, <3>5 DEF Credit!TypeOK
  <2>4. Cost(spent')[h] = 0 /\ Pot(pc', allowed', spent')[h] = 0
    BY <1>1, <2>1 DEF Credit!TypeOK, Cost, Pot, Credit!Goto
  <2>5. Pot(pc, allowed, spent)[h] = c
    BY <1>1, <2>1 DEF Credit!TypeOK, Cost, Pot
  <2>6. used' + deducted + lost + c = used + deducted' + lost' + Cost(spent')[h]
    BY <1>1, <1>2, <2>1, <2>2, <2>4 DEF Credit!TypeOK
  <2>7. deducted' + Pot(pc', allowed', spent')[h] <= deducted + Pot(pc, allowed, spent)[h]
    BY <1>1, <1>2, <2>2, <2>4, <2>5 DEF Credit!TypeOK
  <2>8. \A x \in Harness \ {h} :
          pc'[x] = pc[x] /\ allowed'[x] = allowed[x] /\ spent'[x] = spent[x]
    BY <1>1, <2>1 DEF Credit!TypeOK, Credit!Goto
  <2>9. QED
    BY <2>3, <2>6, <2>7, <2>8, SpendFrame
<1>8. QED
  BY <1>3, <1>4, <1>5, <1>6, <1>7 DEF Credit!StoreReport

(* A reset starts a new credit with the intervals that run; a change of the  *)
(* status touches none of it.                                                *)
LEMMA WebhookSpends ==
  ASSUME SpendInv, Credit!CreditReset \/ Credit!StatusChange
  PROVE  SpendInv'
<1>1. Credit!TypeOK
  BY DEF SpendInv
<1>2. UNCHANGED <<pc, allowed, spent>>
  BY DEF Credit!CreditReset, Credit!StatusChange
<1>3. SumOver(Cost(spent), Harness) \in Nat /\ SumOver(Pot(pc, allowed, spent), Harness) \in Nat
      /\ SumOver(Pot(pc, allowed, spent), Harness) <= Slack
  BY <1>1, PotIsOneInterval
<1>4. late' \in [Harness -> Nat]
  BY <1>1 DEF Credit!CreditReset, Credit!StatusChange, Credit!SinceClosed, Credit!TypeOK
<1>5. CASE Credit!CreditReset
  <2>1. used' = SumOver(Cost(spent), Harness) /\ deducted' = 0 /\ lost' = 0
    BY <1>1, <1>5, UnreportedIsSum DEF Credit!CreditReset, Credit!TypeOK
  <2>2. balance' \in Nat /\ subscription' \in Credit!Statuses /\ periods' \in 0..MaxPeriods
        /\ UNCHANGED <<changes, faults>>
    BY <1>1, <1>5, SpendAssumption DEF Credit!CreditReset, Credit!TypeOK, Credit!Statuses
  <2>3. Credit!TypeOK'
    BY <1>1, <1>2, <1>3, <1>4, <2>1, <2>2 DEF Credit!TypeOK
  <2>4. Accounted'
    BY <1>2, <1>3, <2>1 DEF Accounted
  <2>5. PotBounded'
    BY <1>2, <1>3, <2>1, SlackType, SpendAssumption DEF PotBounded, Slack
  <2>6. QED
    BY <2>3, <2>4, <2>5 DEF SpendInv
<1>6. CASE Credit!StatusChange
  <2>1. UNCHANGED <<used, deducted, lost>>
    BY <1>6 DEF Credit!StatusChange
  <2>2. balance' \in Nat /\ subscription' \in Credit!Statuses /\ changes' \in 0..MaxChanges
        /\ UNCHANGED <<periods, faults>>
    BY <1>1, <1>6, SpendAssumption DEF Credit!StatusChange, Credit!TypeOK
  <2>3. Credit!TypeOK'
    BY <1>1, <1>2, <1>4, <2>1, <2>2 DEF Credit!TypeOK
  <2>4. Accounted' /\ PotBounded'
    BY <1>2, <2>1 DEF SpendInv, Accounted, PotBounded, Slack
  <2>5. QED
    BY <2>3, <2>4 DEF SpendInv
<1>7. QED
  BY <1>5, <1>6

-----------------------------------------------------------------------------
(* The specification.                                                        *)

(* A part that rests keeps its invariant, whatever failures the one that moves *)
(* has: they share the bound on faults alone.                                *)
LEMMA CreditMoves ==
  ASSUME CreditInv, SpendInv, Credit!Next
  PROVE  CreditInv' /\ SpendInv'
BY ReportKept, HarnessKept, WebhookKept, HarnessSpends, WebhookSpends DEF Credit!Next

LEMMA CreditRests ==
  ASSUME CreditInv, SpendInv, UNCHANGED credit, faults' \in 0..FaultBudget
  PROVE  CreditInv' /\ SpendInv'
<1>1. UNCHANGED <<balance, subscription, pc, allowed, spent, used, deducted, lost, late, periods, changes>>
  BY DEF credit
<1>2. CreditInv'
  BY <1>1 DEF CreditInv, CreditTypes, Credit!BalanceIsCreditLessUsage, LateInv, Credit!GateOpen
<1>3. SpendInv'
  BY <1>1 DEF SpendInv, Credit!TypeOK, Accounted, PotBounded
<1>4. QED
  BY <1>2, <1>3

IInv == EmissionInv /\ GovernanceInv /\ CreditInv /\ SpendInv

LEMMA BooksInitInv == BooksInit => IInv
BY InitEmission, InitGovernance, CreditInitInv, SpendInit DEF BooksInit, IInv

LEMMA BooksStepInv ==
  IInv /\ [BooksNext]_<<part, emission, governance, credit, faults>> => IInv'
<1> SUFFICES ASSUME IInv, [BooksNext]_<<part, emission, governance, credit, faults>> PROVE IInv'
  OBVIOUS
<1>1. CASE Next /\ UNCHANGED <<governance, credit>>
  <2>1. EmissionInv'
    BY <1>1, EmissionKeeps DEF IInv
  <2>2. faults' \in 0..FaultBudget
    BY <2>1 DEF EmissionInv, TypeOK
  <2>3. QED
    BY <1>1, <2>1, <2>2, GovernanceRests, CreditRests DEF IInv
<1>2. CASE G!Next /\ UNCHANGED <<emission, credit>>
  <2>1. GovernanceInv'
    BY <1>2, GovernanceKeeps DEF IInv
  <2>2. faults' \in 0..FaultBudget
    BY <2>1 DEF GovernanceInv, G!TypeOK
  <2>3. QED
    BY <1>2, <2>1, <2>2, EmissionRests, CreditRests DEF IInv
<1>3. CASE Credit!Next /\ UNCHANGED <<emission, governance>>
  <2>1. CreditInv' /\ SpendInv'
    BY <1>3, CreditMoves DEF IInv
  <2>2. faults' \in 0..FaultBudget
    BY <2>1 DEF SpendInv, Credit!TypeOK
  <2>3. QED
    BY <1>3, <2>1, <2>2, EmissionRests, GovernanceRests DEF IInv
<1>4. CASE UNCHANGED <<part, emission, governance, credit, faults>>
  <2>1. /\ UNCHANGED emission /\ UNCHANGED governance /\ UNCHANGED credit
        /\ faults' \in 0..FaultBudget
    BY <1>4 DEF IInv, EmissionInv, TypeOK
  <2>2. QED
    BY <2>1, EmissionRests, GovernanceRests, CreditRests DEF IInv
<1>5. QED
  BY <1>1, <1>2, <1>3, <1>4 DEF BooksNext

(* The inductive invariant of the three parts. *)
THEOREM Invariant == BooksSpec => []IInv
<1>1. QED
  BY BooksInitInv, BooksStepInv, PTL DEF BooksSpec

(* The tables and the schedulers, the proposal and its requests hold what the *)
(* code stores in them.                                                       *)
THEOREM TypesCorrect == BooksSpec => [](TypeOK /\ G!TypeOK /\ Credit!TypeOK)
<1>1. IInv => TypeOK /\ G!TypeOK /\ Credit!TypeOK
  BY DEF IInv, EmissionInv, GovernanceInv, SpendInv
<1>2. QED
  BY <1>1, Invariant, PTL

(* A day's awards stay within its emission, for any number of contributors    *)
(* and platforms, when its runs read the same contributions                   *)
(* (calculate_daily_rewards, record_emission_reward).                         *)
THEOREM PoolIsAlwaysKept == BooksSpec => []PoolIsKept
<1>1. IInv => PoolIsKept
  BY OneReadFits DEF IInv, PoolIsKept
<1>2. QED
  BY <1>1, Invariant, PTL

(* The nightly runs implement EmissionLedger: each contributor is awarded at  *)
(* most once for a day, a part of the pool, and for good.                     *)
THEOREM EmissionImplementsLedger == BooksSpec => OneAwardPerDay
<1>1. BooksInit => Ledger!Init
  BY InitLedger DEF BooksInit
<1>2. IInv /\ [BooksNext]_<<part, emission, governance, credit, faults>> => [Ledger!Next]_awarded
  <2> SUFFICES ASSUME IInv, [BooksNext]_<<part, emission, governance, credit, faults>>
               PROVE  [Ledger!Next]_awarded
    OBVIOUS
  <2>1. CASE Next
    BY <2>1, StepLedger DEF IInv
  <2>2. CASE UNCHANGED emission
    BY <2>2 DEF emission
  <2>3. QED
    BY <2>1, <2>2 DEF BooksNext
<1>3. QED
  BY <1>1, <1>2, Invariant, PTL DEF BooksSpec, OneAwardPerDay, Ledger!Spec

(* The tally of each side is the sum of its recorded votes, for any number of *)
(* voters and stakes, but for the votes whose request failed (cast_vote).     *)
THEOREM TallyIsAlwaysVotes == BooksSpec => []TallyIsVotes
<1>1. IInv => TallyIsVotes
  BY DEF IInv, GovernanceInv
<1>2. QED
  BY <1>1, Invariant, PTL

(* The first check of a gate is its answer for good (get_gates).              *)
THEOREM VerdictsAreFrozen == BooksSpec => GateVerdictIsFrozen
<1>1. IInv /\ [BooksNext]_<<part, emission, governance, credit, faults>> =>
        [\A g \in Gate : G!Verdict(g, checks) # "unchecked" =>
           G!Verdict(g, checks)' = G!Verdict(g, checks)]_G!vars
  <2> SUFFICES ASSUME IInv, [BooksNext]_<<part, emission, governance, credit, faults>>,
                      ~ UNCHANGED G!vars, NEW g \in Gate, G!Verdict(g, checks) # "unchecked"
               PROVE  G!Verdict(g, checks)' = G!Verdict(g, checks)
    OBVIOUS
  <2>1. CASE G!Next
    BY <2>1, VerdictStays DEF IInv, GovernanceInv
  <2>2. CASE UNCHANGED governance
    <3>1. UNCHANGED checks
      BY <2>2 DEF governance
    <3>2. QED
      BY <3>1 DEF G!Verdict, G!Of, G!ShownCheck, G!Min
  <2>3. QED
    BY <2>1, <2>2 DEF BooksNext
<1>2. QED
  BY <1>1, Invariant, PTL DEF BooksSpec, GateVerdictIsFrozen, G!GateVerdictIsFrozen

(* receive_activity: however many reports of however many harnesses arrive   *)
(* in whatever order, the balance is the credit less what they took, and     *)
(* never negative.                                                           *)
THEOREM BalanceFollowsUsage == BooksSpec => []Credit!BalanceIsCreditLessUsage
<1>1. IInv => Credit!BalanceIsCreditLessUsage
  BY DEF IInv, CreditInv
<1>2. QED
  BY Invariant, <1>1, PTL

(* The circuit breaker: a harness spends at most one sync interval's worth   *)
(* after the gate has closed, for any number of harnesses, lost reports and  *)
(* changes of the subscription.                                              *)
THEOREM BreakerBoundsEachHarness == BooksSpec => []LateSpendingIsBounded
<1>1. IInv => LateSpendingIsBounded
  BY DEF IInv, CreditInv, LateInv, LateSpendingIsBounded, Credit!LateSpendingIsBounded
<1>2. QED
  BY Invariant, <1>1, PTL

(* receive_activity, "The worst-case overrun is bounded by one sync interval": *)
(* for any number of harnesses that share one balance, and however their     *)
(* reports, losses and credit resets interleave, the spending of a credit    *)
(* exceeds it by at most one interval of every harness and what was lost.    *)
THEOREM OverrunIsAlwaysBounded == BooksSpec => []OverrunIsBounded
<1>1. IInv => OverrunIsBounded
  <2> SUFFICES ASSUME IInv PROVE OverrunIsBounded
    OBVIOUS
  <2> DEFINE p == Pot(pc, allowed, spent)
             u == Cost(spent)
  <2>1. Credit!TypeOK /\ LateInv
    BY DEF IInv, SpendInv, CreditInv
  <2>2. \A h \in Harness : u[h] \in Nat /\ p[h] \in Nat
    BY <2>1, WeightTypes, SpendAssumption
  <2>3. \A h \in Harness : u[h] <= p[h]
    BY <2>1, SpendAssumption DEF Credit!TypeOK, LateInv, Cost, Pot
  <2>4. SumOver(p, Harness) \in Nat /\ SumOver(u, Harness) \in Nat
    BY <2>1, PotIsOneInterval
  <2>5. used = deducted + lost + SumOver(u, Harness)
    BY DEF IInv, SpendInv, Accounted
  <2>6. deducted + SumOver(p, Harness) <= Grant + Slack
    BY DEF IInv, SpendInv, PotBounded
  <2> HIDE DEF p, u
  <2>7. SumOver(u, Harness) <= SumOver(p, Harness)
    BY <2>2, <2>3, SpendAssumption, SumMonotone
  <2>8. used <= Grant + Slack + lost
    BY <2>1, <2>4, <2>5, <2>6, <2>7, SlackType, SpendAssumption DEF Credit!TypeOK
  <2>9. Credit!Cardinality(Harness \ Byok) = Cardinality(Harness \ Byok)
    BY DEF Credit!Cardinality, Cardinality
  <2>10. QED
    BY <2>8, <2>9 DEF OverrunIsBounded, Credit!OverrunIsBounded, Slack
<1>2. QED
  BY Invariant, <1>1, PTL
=============================================================================
