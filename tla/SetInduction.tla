---------------------------- MODULE SetInduction ----------------------------
(***************************************************************************)
(* Lemmas the proofs of several parts need: induction over the naturals in *)
(* the form of the set of numbers for which a fact holds, what selecting   *)
(* positions of a sequence leaves, and parts of a sequence that grows.     *)
(***************************************************************************)
EXTENDS Selections, FiniteSetTheorems, FunctionTheorems, WellFoundedInduction, TLAPS

\* A non-empty set of naturals has a least element.
LEMMA LeastNatural ==
  ASSUME NEW T \in SUBSET Nat, T # {}
  PROVE  \E m \in T : \A k \in T : m <= k
  <1>1. IsWellFoundedOn(OpToRel(<, Nat), Nat)
    BY NatLessThanWellFounded
  <1>2. PICK m \in T : \A k \in T : <<k, m>> \notin OpToRel(<, Nat)
    BY <1>1, WFMin
  <1>3. \A k \in T : ~(k < m)
    BY <1>2 DEF OpToRel
  <1> QED
    BY <1>3

\* A set of naturals that holds 0 and every successor holds them all.
LEMMA NatSetInduction ==
  ASSUME NEW T \in SUBSET Nat, 0 \in T, \A k \in T : k + 1 \in T
  PROVE  T = Nat
  <1>1. SUFFICES ASSUME Nat \ T # {} PROVE FALSE
    OBVIOUS
  <1>2. PICK m \in Nat \ T : \A k \in Nat \ T : m <= k
    BY <1>1, LeastNatural
  <1>3. m # 0 /\ m \in Nat
    BY <1>2
  <1>4. m - 1 \in Nat /\ ~(m <= m - 1)
    BY <1>3
  <1>5. m - 1 \in T
    BY <1>2, <1>4
  <1>6. (m - 1) + 1 = m
    BY <1>3
  <1> QED
    BY <1>2, <1>5, <1>6

\* A union of finitely many finite sets is finite.
LEMMA FiniteUnion ==
  ASSUME NEW S, IsFiniteSet(S), NEW f, \A x \in S : IsFiniteSet(f[x])
  PROVE  IsFiniteSet(UNION {f[x] : x \in S})
  <1> DEFINE n == Cardinality(S)
  <1>1. n \in Nat /\ \E b : b \in Bijection(1 .. n, S)
    BY FS_CardinalityType DEF ExistsBijection
  <1>2. PICK b : b \in Bijection(1 .. n, S)
    BY <1>1
  <1>3. (\A i \in 1 .. n : b[i] \in S) /\ \A x \in S : \E i \in 1 .. n : b[i] = x
    BY <1>2 DEF Bijection, Injection, Surjection
  <1> DEFINE U(k) == UNION {f[b[i]] : i \in 1 .. k}
             T == {k \in Nat : k <= n => IsFiniteSet(U(k))}
  <1> HIDE DEF n
  <1>4. 0 \in T
    <2>1. U(0) = {}
      OBVIOUS
    <2> QED
      BY <2>1, FS_EmptySet
  <1>5. ASSUME NEW k \in T PROVE k + 1 \in T
    <2>1. CASE k + 1 <= n
      <3>1. k \in Nat /\ k <= n /\ k + 1 \in 1 .. n
        BY <1>1, <2>1
      <3>2. IsFiniteSet(U(k)) /\ IsFiniteSet(f[b[k + 1]])
        BY <1>3, <3>1
      <3>3. \A i \in 1 .. k + 1 : i \in 1 .. k \/ i = k + 1
        BY <3>1
      <3>4. 1 .. k \subseteq 1 .. k + 1 /\ k + 1 \in 1 .. k + 1
        BY <3>1
      <3>5. U(k + 1) = U(k) \union f[b[k + 1]]
        <4>1. ASSUME NEW y \in U(k + 1) PROVE y \in U(k) \union f[b[k + 1]]
          BY <3>3, <4>1
        <4>2. ASSUME NEW y \in U(k) \union f[b[k + 1]] PROVE y \in U(k + 1)
          BY <3>4, <4>2
        <4> QED
          BY <4>1, <4>2
      <3>6. IsFiniteSet(U(k) \union f[b[k + 1]])
        <4> HIDE DEF U
        <4> QED
          BY <3>2, FS_Union
      <3>7. IsFiniteSet(U(k + 1))
        BY <3>5, <3>6
      <3> QED
        BY <3>1, <3>7
    <2> QED
      BY <2>1
  <1>6. T = Nat
    <2> HIDE DEF T
    <2>1. T \in SUBSET Nat
      BY DEF T
    <2> QED
      BY <1>4, <1>5, <2>1, NatSetInduction
  <1>7. IsFiniteSet(U(n))
    BY <1>1, <1>6
  <1>8. U(n) = UNION {f[x] : x \in S}
    BY <1>3
  <1> QED
    BY <1>7, <1>8

\* A set of positions has an n-th element for every n up to its size.
LEMMA NthElement ==
  ASSUME NEW N \in Nat, NEW K \in SUBSET (1 .. N), NEW n \in 1 .. Cardinality(K)
  PROVE  \E i \in K : Cardinality({j \in K : j < i}) = n - 1
  <1> DEFINE Below(m) == {j \in K : j < m}
             T == {m \in 0 .. N + 1 : Cardinality(Below(m)) >= n}
  <1>1. IsFiniteSet(K) /\ Cardinality(K) \in Nat
    <2>1. IsFiniteSet(1 .. N)
      BY FS_Interval
    <2> QED
      BY <2>1, FS_Subset, FS_CardinalityType
  <1>2. \A m : IsFiniteSet(Below(m)) /\ Cardinality(Below(m)) \in Nat
    BY <1>1, FS_Subset, FS_CardinalityType
  <1>a. \A j \in K : j \in Nat /\ 1 <= j /\ j <= N
    OBVIOUS
  <1>b. \A j \in K : j < N + 1 /\ ~(j < 0)
    BY <1>a
  <1>3. Below(N + 1) = K /\ Below(0) = {}
    BY <1>b
  <1>c. \A m : Below(m) \subseteq K /\ \A j \in K : j \in Below(m) <=> j < m
    OBVIOUS
  <1>d. \A i \in K : Below(i) = {j \in K : j < i}
    OBVIOUS
  <1> HIDE DEF Below
  <1>4. N + 1 \in T /\ T \in SUBSET Nat
    <2>1. Cardinality(Below(N + 1)) >= n /\ N + 1 \in 0 .. N + 1
      BY <1>1, <1>3
    <2> QED
      BY <2>1
  <1>5. PICK m \in T : \A k \in T : m <= k
    BY <1>4, LeastNatural
  <1>6. Cardinality(Below(0)) = 0
    BY <1>3, FS_EmptySet
  <1>7. m \in 1 .. N + 1
    <2>1. Cardinality(Below(m)) >= n /\ n >= 1 /\ m \in 0 .. N + 1
      BY <1>1
    <2>2. m # 0
      BY <2>1, <1>6
    <2> QED
      BY <2>1, <2>2
  <1>8. m - 1 \in 0 .. N + 1 /\ m - 1 \notin T
    BY <1>5, <1>7
  <1>9. Cardinality(Below(m - 1)) < n /\ Cardinality(Below(m)) >= n
    BY <1>2, <1>8, <1>1
  <1>10. CASE m - 1 \notin K
    <2>1. \A j \in K : j < m <=> j < m - 1
      BY <1>7, <1>10, <1>a
    <2>2. Below(m) = Below(m - 1)
      BY <2>1 DEF Below
    <2> QED
      BY <1>2, <1>9, <2>2
  <1>11. CASE m - 1 \in K
    <2>0. \A j \in K : j < m <=> j < m - 1 \/ j = m - 1
      BY <1>7, <1>a
    <2>a. m - 1 < m /\ ~(m - 1 < m - 1)
      BY <1>7
    <2>1. Below(m) = Below(m - 1) \union {m - 1} /\ m - 1 \notin Below(m - 1)
      BY <1>c, <1>11, <2>0, <2>a
    <2>2. Cardinality(Below(m)) = Cardinality(Below(m - 1)) + 1
      BY <1>2, <2>1, FS_AddElement
    <2>3. Cardinality(Below(m - 1)) = n - 1
      BY <1>2, <1>9, <2>2, <1>1
    <2>4. Cardinality({j \in K : j < m - 1}) = n - 1
      BY <1>d, <1>11, <2>3
    <2> QED
      BY <1>11, <2>4
  <1> QED
    BY <1>10, <1>11

-----------------------------------------------------------------------------
(* Positions of a sequence.                                                *)

\* Two positions with as many below them are the same position.
LEMMA SameRank ==
  ASSUME NEW N \in Nat, NEW K \in SUBSET (1 .. N), NEW a \in K, NEW b \in K,
         Cardinality({j \in K : j < a}) = Cardinality({j \in K : j < b})
  PROVE  a = b
  <1>1. IsFiniteSet(K)
    <2>1. IsFiniteSet(1 .. N)
      BY FS_Interval
    <2> QED
      BY <2>1, FS_Subset
  <1>2. ASSUME NEW x \in K, NEW y \in K, x < y
        PROVE  Cardinality({j \in K : j < x}) # Cardinality({j \in K : j < y})
    <2> DEFINE X == {j \in K : j < x}
               Y == {j \in K : j < y}
    <2>1. x \in Int /\ y \in Int /\ \A j \in K : j \in Int
      OBVIOUS
    <2>2. X \subseteq Y /\ x \in Y /\ x \notin X
      <3>1. \A j \in K : j < x => j < y
        BY <1>2, <2>1
      <3>2. x < y /\ ~(x < x)
        BY <1>2, <2>1
      <3> QED
        BY <3>1, <3>2
    <2>3. IsFiniteSet(Y)
      BY <1>1, FS_Subset
    <2> HIDE DEF X, Y
    <2>4. Cardinality(X) < Cardinality(Y)
      <3>1. Cardinality(X) <= Cardinality(Y) /\ (Cardinality(X) = Cardinality(Y) => X = Y)
        BY <2>2, <2>3, FS_Subset
      <3>2. Cardinality(X) \in Nat /\ Cardinality(Y) \in Nat
        BY <2>2, <2>3, FS_Subset, FS_CardinalityType
      <3> QED
        BY <2>2, <3>1, <3>2
    <2>5. Cardinality(X) # Cardinality(Y)
      <3>1. Cardinality(X) \in Nat /\ Cardinality(Y) \in Nat
        BY <2>2, <2>3, FS_Subset, FS_CardinalityType
      <3> QED
        BY <2>4, <3>1
    <2> QED
      BY <2>5 DEF X, Y
  <1>3. a \in Int /\ b \in Int
    OBVIOUS
  <1>4. a < b \/ b < a \/ a = b
    BY <1>3
  <1> QED
    BY <1>2, <1>4

\* The positions of a set, in order.
LEMMA Positions ==
  ASSUME NEW N \in Nat, NEW K \in SUBSET (1 .. N)
  PROVE  /\ Cardinality(K) \in Nat
         /\ \A n \in 1 .. Cardinality(K) :
              /\ PositionOf(K, n) \in K
              /\ Cardinality({j \in K : j < PositionOf(K, n)}) = n - 1
         /\ \A i \in K : \E n \in 1 .. Cardinality(K) : PositionOf(K, n) = i
         /\ \A m, n \in 1 .. Cardinality(K) : m < n => PositionOf(K, m) < PositionOf(K, n)
  <1>1. IsFiniteSet(K) /\ Cardinality(K) \in Nat
    <2>1. IsFiniteSet(1 .. N)
      BY FS_Interval
    <2> QED
      BY <2>1, FS_Subset, FS_CardinalityType
  <1>2. ASSUME NEW n \in 1 .. Cardinality(K)
        PROVE  /\ PositionOf(K, n) \in K
               /\ Cardinality({j \in K : j < PositionOf(K, n)}) = n - 1
    <2>1. \E i \in K : Cardinality({j \in K : j < i}) = n - 1
      BY NthElement
    <2> QED
      BY <2>1 DEF PositionOf
  <1>3. ASSUME NEW i \in K PROVE \E n \in 1 .. Cardinality(K) : PositionOf(K, n) = i
    <2> DEFINE X == {j \in K : j < i}
    <2>1. X \subseteq K /\ i \notin X
      OBVIOUS
    <2> HIDE DEF X
    <2>2. Cardinality(X) \in Nat /\ Cardinality(X) <= Cardinality(K)
          /\ (Cardinality(X) = Cardinality(K) => X = K)
      BY <1>1, <2>1, FS_Subset, FS_CardinalityType
    <2>3. Cardinality(X) + 1 \in 1 .. Cardinality(K)
      BY <1>1, <2>1, <2>2
    <2> DEFINE n == Cardinality(X) + 1
    <2>4. PositionOf(K, n) \in K /\ Cardinality({j \in K : j < PositionOf(K, n)}) = n - 1
      BY <1>2, <2>3
    <2>5. n - 1 = Cardinality(X)
      BY <2>2
    <2>6. Cardinality({j \in K : j < PositionOf(K, n)}) = Cardinality({j \in K : j < i})
      BY <2>4, <2>5 DEF X
    <2> HIDE DEF n
    <2>7. PositionOf(K, n) = i
      BY <2>4, <2>6, SameRank
    <2> QED
      BY <2>3, <2>7 DEF n
  <1>4. ASSUME NEW m \in 1 .. Cardinality(K), NEW n \in 1 .. Cardinality(K), m < n
        PROVE  PositionOf(K, m) < PositionOf(K, n)
    <2> DEFINE a == PositionOf(K, m)
               b == PositionOf(K, n)
    <2>1. /\ a \in K /\ Cardinality({j \in K : j < a}) = m - 1
          /\ b \in K /\ Cardinality({j \in K : j < b}) = n - 1
      BY <1>2
    <2> HIDE DEF a, b
    <2>2. SUFFICES ASSUME ~(a < b) PROVE FALSE
      BY DEF a, b
    <2>3. {j \in K : j < b} \subseteq {j \in K : j < a}
      <3>1. a \in Int /\ b \in Int /\ \A j \in K : j \in Int
        BY <2>1
      <3>2. \A j \in K : j < b => j < a
        BY <2>2, <3>1
      <3> QED
        BY <3>2
    <2>4. n - 1 <= m - 1
      <3>1. IsFiniteSet({j \in K : j < a})
        BY <1>1, FS_Subset
      <3> QED
        BY <2>1, <2>3, <3>1, FS_Subset
    <2> QED
      BY <1>4, <2>4, <1>1
  <1> QED
    BY <1>1, <1>2, <1>3, <1>4

\* Whatever lists a set of positions in order lists them as PositionOf does.
LEMMA Listing ==
  ASSUME NEW N \in Nat, NEW K \in SUBSET (1 .. N), NEW m \in Nat, NEW g \in [1 .. m -> K],
         \A a, b \in 1 .. m : a < b => g[a] < g[b],
         \A i \in K : \E n \in 1 .. m : g[n] = i
  PROVE  m = Cardinality(K) /\ \A n \in 1 .. m : PositionOf(K, n) = g[n]
  <1>1. IsFiniteSet(K)
    <2>1. IsFiniteSet(1 .. N)
      BY FS_Interval
    <2> QED
      BY <2>1, FS_Subset
  <1>2. ASSUME NEW n \in 1 .. m PROVE Cardinality({j \in K : j < g[n]}) = n - 1
    <2> DEFINE X == {j \in K : j < g[n]}
               h == [k \in 1 .. n - 1 |-> g[k]]
    <2>1. \A k \in 1 .. m : g[k] \in Int /\ g[k] \in K
      <3>1. \A k \in 1 .. m : g[k] \in K
        OBVIOUS
      <3>2. \A i \in K : i \in Int
        OBVIOUS
      <3> QED
        BY <3>1, <3>2
    <2>2. \A k \in 1 .. m : k < n <=> g[k] < g[n]
      <3> SUFFICES ASSUME NEW k \in 1 .. m PROVE k < n <=> g[k] < g[n]
        OBVIOUS
      <3>1. k < n \/ k = n \/ n < k
        OBVIOUS
      <3>2. n < k => g[n] < g[k]
        OBVIOUS
      <3>3. k < n => g[k] < g[n]
        OBVIOUS
      <3>4. k = n => g[k] = g[n]
        OBVIOUS
      <3> QED
        BY <2>1, <3>1, <3>2, <3>3, <3>4
    <2>3. h \in Bijection(1 .. n - 1, X)
      <3>1. h \in [1 .. n - 1 -> X]
        BY <2>1, <2>2
      <3>2. \A a, b \in 1 .. n - 1 : h[a] = h[b] => a = b
        <4> SUFFICES ASSUME NEW a \in 1 .. n - 1, NEW b \in 1 .. n - 1, g[a] = g[b] PROVE a = b
          OBVIOUS
        <4>1. a \in 1 .. m /\ b \in 1 .. m
          OBVIOUS
        <4>2. a < b => g[a] < g[b]
          BY <4>1
        <4>3. b < a => g[b] < g[a]
          BY <4>1
        <4>4. ~(g[a] < g[b]) /\ ~(g[b] < g[a])
          BY <2>1, <4>1
        <4> QED
          BY <4>1, <4>2, <4>3, <4>4
      <3>3. \A x \in X : \E a \in 1 .. n - 1 : h[a] = x
        <4> SUFFICES ASSUME NEW x \in X PROVE \E a \in 1 .. n - 1 : h[a] = x
          OBVIOUS
        <4>1. PICK a \in 1 .. m : g[a] = x
          OBVIOUS
        <4>2. a < n
          BY <2>2, <4>1
        <4>3. a \in 1 .. n - 1
          BY <4>2
        <4> QED
          BY <4>1, <4>3
      <3> HIDE DEF h, X
      <3> QED
        BY <3>1, <3>2, <3>3, Fun_IsBij
    <2>4. IsFiniteSet(X)
      BY <1>1, FS_Subset
    <2>5. n - 1 \in Nat
      OBVIOUS
    <2>6. IsFiniteSet(1 .. n - 1) /\ Cardinality(1 .. n - 1) = n - 1
      BY <2>5, FS_Interval
    <2> HIDE DEF X, h
    <2>7. Cardinality(X) = n - 1
      BY <2>3, <2>6, FS_Bijection DEF ExistsBijection
    <2> QED
      BY <2>7 DEF X
  <1>3. m = Cardinality(K)
    <2>1. g \in Bijection(1 .. m, K)
      <3>1. \A a, b \in 1 .. m : g[a] = g[b] => a = b
        <4> SUFFICES ASSUME NEW a \in 1 .. m, NEW b \in 1 .. m, g[a] = g[b] PROVE a = b
          OBVIOUS
        <4>1. (a < b => g[a] < g[b]) /\ (b < a => g[b] < g[a])
          OBVIOUS
        <4>2. g[a] \in Int /\ g[b] \in Int
          <5>1. g[a] \in K /\ g[b] \in K
            OBVIOUS
          <5>2. \A i \in K : i \in Int
            OBVIOUS
          <5> QED
            BY <5>1, <5>2
        <4> QED
          BY <4>1, <4>2
      <3> QED
        BY <3>1, Fun_IsBij
    <2>2. IsFiniteSet(1 .. m) /\ Cardinality(1 .. m) = m
      BY FS_Interval
    <2> QED
      BY <2>1, <2>2, FS_Bijection DEF ExistsBijection
  <1>4. ASSUME NEW n \in 1 .. m PROVE PositionOf(K, n) = g[n]
    <2>1. /\ PositionOf(K, n) \in K
          /\ Cardinality({j \in K : j < PositionOf(K, n)}) = n - 1
      BY <1>3, Positions
    <2>2. g[n] \in K /\ Cardinality({j \in K : j < g[n]}) = n - 1
      BY <1>2
    <2> DEFINE p == PositionOf(K, n)
               q == g[n]
    <2>3. p \in K /\ q \in K /\ Cardinality({j \in K : j < p}) = Cardinality({j \in K : j < q})
      BY <2>1, <2>2
    <2> HIDE DEF p, q
    <2>4. \A a, b \in K :
            Cardinality({j \in K : j < a}) = Cardinality({j \in K : j < b}) => a = b
      BY SameRank
    <2>5. p = q
      BY <2>3, <2>4
    <2> QED
      BY <2>5 DEF p, q
  <1> QED
    BY <1>3, <1>4

-----------------------------------------------------------------------------
(* Selections of a sequence.                                               *)

LEMMA AppendType ==
  ASSUME NEW S, NEW s \in Seq(S), NEW x \in S
  PROVE  /\ Append(s, x) \in Seq(S) /\ Len(Append(s, x)) = Len(s) + 1
         /\ DOMAIN Append(s, x) = 1 .. Len(s) + 1 /\ Append(s, x)[Len(s) + 1] = x
         /\ \A i \in 1 .. Len(s) : Append(s, x)[i] = s[i]
  OBVIOUS

LEMMA SuffixType ==
  ASSUME NEW S, NEW s \in Seq(S), NEW d \in 0 .. Len(s)
  PROVE  /\ SubSeq(s, d + 1, Len(s)) \in Seq(S) /\ Len(SubSeq(s, d + 1, Len(s))) = Len(s) - d
         /\ DOMAIN SubSeq(s, d + 1, Len(s)) = 1 .. Len(s) - d
         /\ \A i \in 1 .. Len(s) - d : SubSeq(s, d + 1, Len(s))[i] = s[i + d]
  OBVIOUS

LEMMA SelectedType ==
  ASSUME NEW S, NEW s \in Seq(S), NEW K \in SUBSET (1 .. Len(s))
  PROVE  /\ Selected(s, K) \in Seq(S) /\ Len(Selected(s, K)) = Cardinality(K)
         /\ \A n \in 1 .. Cardinality(K) :
              PositionOf(K, n) \in K /\ Selected(s, K)[n] = s[PositionOf(K, n)]
         /\ \A i \in K : \E n \in 1 .. Cardinality(K) : Selected(s, K)[n] = s[i]
  <1>1. Len(s) \in Nat /\ \A i \in 1 .. Len(s) : s[i] \in S
    OBVIOUS
  <1>2. /\ Cardinality(K) \in Nat
        /\ \A n \in 1 .. Cardinality(K) : PositionOf(K, n) \in K
        /\ \A i \in K : \E n \in 1 .. Cardinality(K) : PositionOf(K, n) = i
    BY <1>1, Positions
  <1>3. \A n \in 1 .. Cardinality(K) : s[PositionOf(K, n)] \in S
    BY <1>1, <1>2
  <1> DEFINE t == [n \in 1 .. Cardinality(K) |-> s[PositionOf(K, n)]]
  <1>4. t \in Seq(S) /\ Len(t) = Cardinality(K)
        /\ \A n \in 1 .. Cardinality(K) : t[n] = s[PositionOf(K, n)]
    BY <1>2, <1>3
  <1>5. Selected(s, K) = t
    BY DEF Selected
  <1> HIDE DEF t
  <1> QED
    BY <1>2, <1>4, <1>5

\* What the n-th position of a set is follows from any listing of the set.
LEMMA SelectedListing ==
  ASSUME NEW S, NEW s \in Seq(S), NEW K \in SUBSET (1 .. Len(s)), NEW m \in Nat,
         NEW g \in [1 .. m -> K], \A a, b \in 1 .. m : a < b => g[a] < g[b],
         \A i \in K : \E n \in 1 .. m : g[n] = i
  PROVE  Selected(s, K) = [n \in 1 .. m |-> s[g[n]]]
  <1>1. Len(s) \in Nat
    OBVIOUS
  <1>2. m = Cardinality(K) /\ \A n \in 1 .. m : PositionOf(K, n) = g[n]
    BY <1>1, Listing
  <1> QED
    BY <1>2 DEF Selected

LEMMA SelectedAppend ==
  ASSUME NEW S, NEW s \in Seq(S), NEW x \in S, NEW K \in SUBSET (1 .. Len(s))
  PROVE  /\ Selected(Append(s, x), K) = Selected(s, K)
         /\ Selected(Append(s, x), K \cup {Len(s) + 1}) = Append(Selected(s, K), x)
  <1> DEFINE n == Len(s)
             m == Cardinality(K)
             w == Append(s, x)
             J == K \cup {n + 1}
             g == [k \in 1 .. m + 1 |-> IF k <= m THEN PositionOf(K, k) ELSE n + 1]
  <1>1. /\ n \in Nat /\ w \in Seq(S) /\ Len(w) = n + 1 /\ w[n + 1] = x
        /\ \A i \in 1 .. n : w[i] = s[i]
    OBVIOUS
  <1>2. /\ m \in Nat
        /\ \A k \in 1 .. m : PositionOf(K, k) \in K
        /\ \A i \in K : \E k \in 1 .. m : PositionOf(K, k) = i
        /\ \A a, b \in 1 .. m : a < b => PositionOf(K, a) < PositionOf(K, b)
    BY <1>1, Positions
  <1>3. \A i \in K : i \in 1 .. n /\ i < n + 1
    OBVIOUS
  <1>4. Selected(w, K) = Selected(s, K)
    <2>1. \A k \in 1 .. m : w[PositionOf(K, k)] = s[PositionOf(K, k)]
      BY <1>1, <1>2, <1>3
    <2> QED
      BY <2>1 DEF Selected
  <1>5. \A k \in 1 .. m : k \in 1 .. m + 1 /\ g[k] = PositionOf(K, k)
    BY <1>2
  <1>6. m + 1 \in 1 .. m + 1 /\ g[m + 1] = n + 1 /\ \A k \in 1 .. m + 1 : k = m + 1 \/ k \in 1 .. m
    BY <1>2
  <1> HIDE DEF n, m, w
  <1>7. J \in SUBSET (1 .. Len(w))
    BY <1>1, <1>3
  <1>8. g \in [1 .. m + 1 -> J]
    <2>1. \A k \in 1 .. m + 1 : g[k] \in J
      BY <1>2, <1>5, <1>6
    <2> QED
      BY <2>1
  <1>9. \A a, b \in 1 .. m + 1 : a < b => g[a] < g[b]
    <2> SUFFICES ASSUME NEW a \in 1 .. m + 1, NEW b \in 1 .. m + 1, a < b PROVE g[a] < g[b]
      OBVIOUS
    <2>1. a \in 1 .. m /\ g[a] \in K /\ g[a] = PositionOf(K, a)
      <3>1. a # m + 1
        BY <1>2
      <3> QED
        BY <1>2, <1>5, <1>6, <3>1
    <2>2. CASE b = m + 1
      BY <1>3, <1>6, <2>1, <2>2
    <2>3. CASE b \in 1 .. m
      <3>1. g[b] = PositionOf(K, b)
        BY <1>5, <2>3
      <3> QED
        BY <1>2, <2>1, <2>3, <3>1
    <2> QED
      BY <1>6, <2>2, <2>3
  <1>10. \A i \in J : \E k \in 1 .. m + 1 : g[k] = i
    BY <1>2, <1>5, <1>6
  <1>11. m + 1 \in Nat
    BY <1>2
  <1>12. Selected(w, J) = [k \in 1 .. m + 1 |-> w[g[k]]]
    <2> HIDE DEF g, J
    <2>1. \A M \in Nat : \A G \in [1 .. M -> J] :
            (/\ \A a, b \in 1 .. M : a < b => G[a] < G[b]
             /\ \A i \in J : \E k \in 1 .. M : G[k] = i)
              => Selected(w, J) = [k \in 1 .. M |-> w[G[k]]]
      BY SMTT(30), <1>1, <1>7, SelectedListing
    <2> QED
      BY <2>1, <1>8, <1>9, <1>10, <1>11
  <1>13. Selected(s, K) \in Seq(S) /\ Len(Selected(s, K)) = m
         /\ \A k \in 1 .. m : Selected(s, K)[k] = s[PositionOf(K, k)]
    BY SelectedType DEF m
  <1>14. \A k \in 1 .. m + 1 : w[g[k]] = IF k \in 1 .. m THEN Selected(s, K)[k] ELSE x
    <2> SUFFICES ASSUME NEW k \in 1 .. m + 1
                 PROVE  w[g[k]] = IF k \in 1 .. m THEN Selected(s, K)[k] ELSE x
      OBVIOUS
    <2>1. CASE k \in 1 .. m
      <3>1. g[k] = PositionOf(K, k) /\ g[k] \in 1 .. n
        BY <1>2, <1>3, <1>5, <2>1
      <3> QED
        BY <1>1, <1>13, <2>1, <3>1
    <2>2. CASE k = m + 1
      <3>1. g[k] = n + 1 /\ k \notin 1 .. m
        BY <1>2, <1>6, <2>2
      <3> QED
        BY <1>1, <3>1
    <2> QED
      BY <1>6, <2>1, <2>2
  <1>15. Append(Selected(s, K), x) = [k \in 1 .. m + 1 |-> IF k \in 1 .. m THEN Selected(s, K)[k] ELSE x]
    <2> DEFINE q == Selected(s, K)
    <2>1. q \in Seq(S) /\ Len(q) = m /\ m \in Nat
      BY <1>2, <1>13
    <2> HIDE DEF q
    <2> DEFINE u == Append(q, x)
               v == [k \in 1 .. m + 1 |-> IF k \in 1 .. m THEN q[k] ELSE x]
    <2>2. u \in Seq(S) /\ Len(u) = m + 1 /\ u[m + 1] = x /\ \A k \in 1 .. m : u[k] = q[k]
      BY <2>1
    <2>3. \A k \in 1 .. m + 1 : v[k] = IF k \in 1 .. m THEN q[k] ELSE x
      OBVIOUS
    <2>4. m + 1 \in Nat /\ m + 1 \notin 1 .. m /\ \A k \in 1 .. m + 1 : k = m + 1 \/ k \in 1 .. m
      BY <1>2
    <2> HIDE DEF u
    <2>5. u = [k \in 1 .. m + 1 |-> u[k]]
      <3>1. u \in [1 .. Len(u) -> S]
        BY <2>2
      <3> QED
        BY <2>2, <3>1
    <2>6. \A k \in 1 .. m + 1 : u[k] = IF k \in 1 .. m THEN q[k] ELSE x
      BY <2>2, <2>4
    <2>7. Append(q, x) = v
      BY <2>5, <2>6 DEF u
    <2> QED
      BY <2>7 DEF q
  <1>16. Selected(w, J) = Append(Selected(s, K), x)
    <2> HIDE DEF g
    <2> QED
      BY <1>12, <1>14, <1>15
  <1> QED
    BY <1>4, <1>16 DEF w, n

\* Selecting from a selection.
Within(s, Y) == {i \in DOMAIN s : s[i] \in Y}

LEMMA SelectedTwice ==
  ASSUME NEW S, NEW s \in Seq(S), NEW K \in SUBSET (1 .. Len(s)), NEW Y
  PROVE  Selected(Selected(s, K), Within(Selected(s, K), Y)) = Selected(s, K \cap Within(s, Y))
  <1> DEFINE m == Cardinality(K)
             t == Selected(s, K)
             L == {n \in 1 .. m : t[n] \in Y}
             J == K \cap Within(s, Y)
             r == Cardinality(L)
             g == [k \in 1 .. r |-> PositionOf(K, PositionOf(L, k))]
  <1>1. Len(s) \in Nat
    OBVIOUS
  <1>2. /\ m \in Nat
        /\ \A k \in 1 .. m : PositionOf(K, k) \in K
        /\ \A i \in K : \E k \in 1 .. m : PositionOf(K, k) = i
        /\ \A a, b \in 1 .. m : a < b => PositionOf(K, a) < PositionOf(K, b)
    BY <1>1, Positions
  <1>3. t \in Seq(S) /\ Len(t) = m /\ \A k \in 1 .. m : t[k] = s[PositionOf(K, k)]
    BY SelectedType
  <1>4. L \in SUBSET (1 .. m) /\ \A k \in 1 .. m : k \in L <=> t[k] \in Y
    OBVIOUS
  <1>5. J \in SUBSET (1 .. Len(s)) /\ \A i \in K : i \in J <=> s[i] \in Y
    <2>1. DOMAIN s = 1 .. Len(s)
      OBVIOUS
    <2> QED
      BY <2>1 DEF Within
  <1>6. \A i \in J : i \in K
    OBVIOUS
  <1> HIDE DEF m, t, L, J
  <1>7. /\ r \in Nat
        /\ \A k \in 1 .. r : PositionOf(L, k) \in L
        /\ \A i \in L : \E k \in 1 .. r : PositionOf(L, k) = i
        /\ \A a, b \in 1 .. r : a < b => PositionOf(L, a) < PositionOf(L, b)
    BY <1>2, <1>4, Positions
  <1>8. \A k \in 1 .. r : g[k] = PositionOf(K, PositionOf(L, k))
    OBVIOUS
  <1> HIDE DEF r
  <1>9. \A k \in L : k \in 1 .. m /\ PositionOf(K, k) \in J
    <2> SUFFICES ASSUME NEW k \in L PROVE k \in 1 .. m /\ PositionOf(K, k) \in J
      OBVIOUS
    <2>1. k \in 1 .. m
      BY <1>4
    <2>2. s[PositionOf(K, k)] \in Y /\ PositionOf(K, k) \in K
      BY <1>2, <1>3, <1>4, <2>1
    <2> QED
      BY <1>5, <2>1, <2>2
  <1>10. g \in [1 .. r -> J]
    BY <1>7, <1>9
  <1>11. \A a, b \in 1 .. r : a < b => g[a] < g[b]
    BY <1>2, <1>4, <1>7, <1>8
  <1>12. \A i \in J : \E k \in 1 .. r : g[k] = i
    <2> SUFFICES ASSUME NEW i \in J PROVE \E k \in 1 .. r : g[k] = i
      OBVIOUS
    <2>1. i \in K /\ s[i] \in Y
      BY <1>5, <1>6
    <2>2. PICK n \in 1 .. m : PositionOf(K, n) = i
      BY <1>2, <2>1
    <2>3. n \in L
      BY <1>3, <1>4, <2>1, <2>2
    <2>4. PICK k \in 1 .. r : PositionOf(L, k) = n
      BY <1>7, <2>3
    <2> QED
      BY <1>8, <2>2, <2>4
  <1>13. Selected(s, J) = [k \in 1 .. r |-> s[g[k]]]
    <2> HIDE DEF g
    <2>1. \A M \in Nat : \A G \in [1 .. M -> J] :
            (/\ \A a, b \in 1 .. M : a < b => G[a] < G[b]
             /\ \A i \in J : \E k \in 1 .. M : G[k] = i)
              => Selected(s, J) = [k \in 1 .. M |-> s[G[k]]]
      BY <1>5, SelectedListing
    <2> QED
      BY <2>1, <1>5, <1>7, <1>10, <1>11, <1>12
  <1>14. Selected(t, L) = [k \in 1 .. r |-> t[PositionOf(L, k)]]
    BY DEF Selected, r
  <1>15. \A k \in 1 .. r : t[PositionOf(L, k)] = s[g[k]]
    BY <1>3, <1>7, <1>8, <1>9
  <1>16. Selected(t, L) = Selected(s, J)
    <2> HIDE DEF g
    <2> QED
      BY <1>13, <1>14, <1>15
  <1>17. L = Within(t, Y)
    BY <1>3 DEF L, Within
  <1> QED
    BY <1>16, <1>17 DEF t, J

\* Selecting from what is left when a sequence loses its first d elements.
LEMMA SelectedSuffix ==
  ASSUME NEW S, NEW s \in Seq(S), NEW d \in 0 .. Len(s), NEW K \in SUBSET (d + 1 .. Len(s))
  PROVE  Selected(SubSeq(s, d + 1, Len(s)), {i \in 1 .. Len(s) - d : i + d \in K}) = Selected(s, K)
  <1> DEFINE n == Len(s)
             t == SubSeq(s, d + 1, n)
             L == {i \in 1 .. n - d : i + d \in K}
             r == Cardinality(L)
             g == [k \in 1 .. r |-> PositionOf(L, k) + d]
  <1>1. n \in Nat /\ d \in Nat /\ d <= n
    OBVIOUS
  <1>2. /\ \A i \in 1 .. n - d : t[i] = s[i + d]
        /\ n - d \in Nat
    OBVIOUS
  <1>3. L \in SUBSET (1 .. n - d) /\ \A i \in 1 .. n - d : i \in L <=> i + d \in K
    OBVIOUS
  <1>4. \A i \in K : i \in d + 1 .. n
    OBVIOUS
  <1> HIDE DEF n, t, L
  <1>5. /\ r \in Nat
        /\ \A k \in 1 .. r : PositionOf(L, k) \in L
        /\ \A i \in L : \E k \in 1 .. r : PositionOf(L, k) = i
        /\ \A a, b \in 1 .. r : a < b => PositionOf(L, a) < PositionOf(L, b)
    BY <1>2, <1>3, Positions
  <1>6. \A k \in 1 .. r : g[k] = PositionOf(L, k) + d
    OBVIOUS
  <1> HIDE DEF r
  <1>7. \A i \in L : i \in 1 .. n - d /\ i \in Int /\ i + d \in K
    BY <1>1, <1>3
  <1>8. g \in [1 .. r -> K]
    BY <1>5, <1>7
  <1>9. \A a, b \in 1 .. r : a < b => g[a] < g[b]
    <2> SUFFICES ASSUME NEW a \in 1 .. r, NEW b \in 1 .. r, a < b PROVE g[a] < g[b]
      OBVIOUS
    <2>1. PositionOf(L, a) < PositionOf(L, b) /\ PositionOf(L, a) \in Int /\ PositionOf(L, b) \in Int
      BY <1>5, <1>7
    <2> QED
      BY <1>1, <1>6, <2>1
  <1>10. \A i \in K : \E k \in 1 .. r : g[k] = i
    <2> SUFFICES ASSUME NEW i \in K PROVE \E k \in 1 .. r : g[k] = i
      OBVIOUS
    <2>1. i - d \in 1 .. n - d /\ (i - d) + d = i
      BY <1>1, <1>4
    <2>2. i - d \in L
      BY <1>3, <2>1
    <2>3. PICK k \in 1 .. r : PositionOf(L, k) = i - d
      BY <1>5, <2>2
    <2> QED
      BY <1>6, <2>1, <2>3
  <1>11. K \in SUBSET (1 .. Len(s))
    BY <1>1, <1>4 DEF n
  <1>12. Selected(s, K) = [k \in 1 .. r |-> s[g[k]]]
    <2> HIDE DEF g
    <2>1. \A M \in Nat : \A G \in [1 .. M -> K] :
            (/\ \A a, b \in 1 .. M : a < b => G[a] < G[b]
             /\ \A i \in K : \E k \in 1 .. M : G[k] = i)
              => Selected(s, K) = [k \in 1 .. M |-> s[G[k]]]
      BY <1>11, SelectedListing
    <2> QED
      BY <2>1, <1>5, <1>8, <1>9, <1>10, <1>11
  <1>13. Selected(t, L) = [k \in 1 .. r |-> t[PositionOf(L, k)]]
    BY DEF Selected, r
  <1>14. \A k \in 1 .. r : t[PositionOf(L, k)] = s[g[k]]
    BY <1>2, <1>5, <1>6, <1>7
  <1>15. Selected(t, L) = Selected(s, K)
    <2> HIDE DEF g
    <2> QED
      BY <1>12, <1>13, <1>14
  <1> QED
    BY <1>15 DEF n, t, L

\* One more position, past the others.
LEMMA PositionsGrow ==
  ASSUME NEW N \in Nat, NEW K \in SUBSET (1 .. N)
  PROVE  /\ Cardinality(K) \in Nat /\ Cardinality(K \cup {N + 1}) = Cardinality(K) + 1
         /\ \A k \in 1 .. Cardinality(K) :
              PositionOf(K, k) \in K /\ PositionOf(K \cup {N + 1}, k) = PositionOf(K, k)
         /\ PositionOf(K \cup {N + 1}, Cardinality(K) + 1) = N + 1
<1> DEFINE id == [i \in 1 .. N |-> i]
           all == Append(id, N + 1)
           J == K \cup {N + 1}
<1>1. /\ id \in Seq(Nat) /\ Len(id) = N /\ all \in Seq(Nat) /\ Len(all) = N + 1
      /\ \A i \in 1 .. N : id[i] = i
      /\ \A i \in 1 .. N + 1 : all[i] = i
    OBVIOUS
<1>2. K \in SUBSET (1 .. Len(id)) /\ N + 1 \in Nat /\ J \in SUBSET (1 .. Len(all))
    BY <1>1
<1>4. Selected(all, J) = Append(Selected(id, K), N + 1)
    <2>1. id \in Seq(Nat) /\ K \in SUBSET (1 .. Len(id)) /\ N + 1 \in Nat /\ Len(id) = N
        BY <1>1, <1>2
    <2> HIDE DEF id
    <2>2. \A X \in SUBSET (1 .. Len(id)), x \in Nat :
            Selected(Append(id, x), X \cup {Len(id) + 1}) = Append(Selected(id, X), x)
        BY SMTT(30), <2>1, SelectedAppend
    <2> QED
        BY <2>1, <2>2
<1>12. (\A i \in K : i \in 1 .. N) /\ \A i \in J : i \in 1 .. N + 1
    BY <1>1, <1>2
<1> HIDE DEF id, all, J
<1>5. /\ Selected(id, K) \in Seq(Nat) /\ Len(Selected(id, K)) = Cardinality(K)
      /\ \A n \in 1 .. Cardinality(K) :
           PositionOf(K, n) \in K /\ Selected(id, K)[n] = id[PositionOf(K, n)]
    BY <1>1, <1>2, SelectedType
<1>6. /\ Selected(all, J) \in Seq(Nat) /\ Len(Selected(all, J)) = Cardinality(J)
      /\ \A n \in 1 .. Cardinality(J) :
           PositionOf(J, n) \in J /\ Selected(all, J)[n] = all[PositionOf(J, n)]
    BY <1>1, <1>2, SelectedType
<1> DEFINE q == Selected(id, K)
           m == Cardinality(K)
<1>7. q \in Seq(Nat) /\ Len(q) = m /\ m \in Nat
    BY <1>5
<1>8. Len(Append(q, N + 1)) = m + 1 /\ Append(q, N + 1)[m + 1] = N + 1
      /\ \A k \in 1 .. m : Append(q, N + 1)[k] = q[k]
    <2> HIDE DEF q, m
    <2> QED
        BY <1>7
<1>9. Cardinality(J) = m + 1
    BY <1>4, <1>6, <1>8
<1>10. \A k \in 1 .. m : PositionOf(J, k) = PositionOf(K, k)
    <2> SUFFICES ASSUME NEW k \in 1 .. m PROVE PositionOf(J, k) = PositionOf(K, k)
        OBVIOUS
    <2>3. k \in 1 .. m + 1 /\ k \in 1 .. Cardinality(K) /\ k \in 1 .. Cardinality(J)
        BY <1>7, <1>9
    <2>1. k \in 1 .. m + 1 /\ PositionOf(J, k) \in 1 .. N + 1 /\ PositionOf(K, k) \in 1 .. N
        BY <1>5, <1>6, <1>12, <2>3
    <2>2. all[PositionOf(J, k)] = id[PositionOf(K, k)]
        BY <1>4, <1>5, <1>6, <1>8, <1>9, <2>1
    <2> QED
        BY <1>1, <2>1, <2>2
<1>11. PositionOf(J, m + 1) = N + 1
    <2>1. m + 1 \in 1 .. m + 1 /\ PositionOf(J, m + 1) \in 1 .. N + 1
        BY <1>6, <1>7, <1>9, <1>12
    <2> QED
        BY <1>1, <1>4, <1>6, <1>8, <1>9, <2>1
<1> QED
    BY <1>5, <1>7, <1>9, <1>10, <1>11 DEF J

\* Sequences with the same elements in the same places are one.
LEMMA SameElements ==
  ASSUME NEW S, NEW s \in Seq(S), NEW t \in Seq(S), Len(s) = Len(t),
         \A i \in 1 .. Len(t) : s[i] = t[i]
  PROVE  s = t
<1>1. s \in [1 .. Len(s) -> S] /\ t \in [1 .. Len(t) -> S]
    OBVIOUS
<1>2. s = [i \in 1 .. Len(t) |-> s[i]] /\ t = [i \in 1 .. Len(t) |-> t[i]]
    BY <1>1
<1> QED
    BY <1>2

\* A part of a sequence before its new last element, and one up to it.
LEMMA PartsGrow ==
  ASSUME NEW S, NEW s \in Seq(S), NEW x \in S, NEW a \in 0 .. Len(s)
  PROVE  /\ \A c \in 0 .. Len(s) : SubSeq(Append(s, x), a + 1, c) = SubSeq(s, a + 1, c)
         /\ SubSeq(Append(s, x), a + 1, Len(s) + 1) = Append(SubSeq(s, a + 1, Len(s)), x)
         /\ SubSeq(Append(s, x), Len(s) + 2, Len(s) + 1) = <<>>
<1> DEFINE w == Append(s, x)
<1>1. w \in Seq(S) /\ Len(w) = Len(s) + 1 /\ w[Len(s) + 1] = x /\ \A i \in 1 .. Len(s) : w[i] = s[i]
    OBVIOUS
<1> HIDE DEF w
<1>2. ASSUME NEW c \in 0 .. Len(s) PROVE SubSeq(w, a + 1, c) = SubSeq(s, a + 1, c)
    BY <1>1
<1>3. SubSeq(w, a + 1, Len(s) + 1) = Append(SubSeq(s, a + 1, Len(s)), x)
    <2> DEFINE t == SubSeq(s, a + 1, Len(s))
    <2>1. t \in Seq(S) /\ Len(t) = Len(s) - a /\ \A i \in 1 .. Len(s) - a : t[i] = s[i + a]
        BY SuffixType
    <2>2. /\ SubSeq(w, a + 1, Len(w)) \in Seq(S) /\ Len(SubSeq(w, a + 1, Len(w))) = Len(w) - a
          /\ \A i \in 1 .. Len(w) - a : SubSeq(w, a + 1, Len(w))[i] = w[i + a]
        BY <1>1, SuffixType
    <2> HIDE DEF t
    <2>3. Append(t, x) \in Seq(S) /\ Len(Append(t, x)) = Len(t) + 1 /\ Append(t, x)[Len(t) + 1] = x
          /\ \A i \in 1 .. Len(t) : Append(t, x)[i] = t[i]
        BY <2>1, AppendType
    <2>4. Len(SubSeq(w, a + 1, Len(w))) = Len(Append(t, x))
        BY <1>1, <2>1, <2>2, <2>3
    <2>5. \A i \in 1 .. Len(Append(t, x)) : SubSeq(w, a + 1, Len(w))[i] = Append(t, x)[i]
        <3> SUFFICES ASSUME NEW i \in 1 .. Len(s) - a + 1
                     PROVE  SubSeq(w, a + 1, Len(w))[i] = Append(t, x)[i]
            BY <2>1, <2>3
        <3>1. SubSeq(w, a + 1, Len(w))[i] = w[i + a]
            BY <1>1, <2>2
        <3>2. CASE i = Len(s) - a + 1
            BY <1>1, <2>1, <2>3, <3>1, <3>2
        <3>3. CASE i \in 1 .. Len(s) - a
            BY <1>1, <2>1, <2>3, <3>1, <3>3
        <3>4. i = Len(s) - a + 1 \/ i \in 1 .. Len(s) - a
            OBVIOUS
        <3> QED
            BY <3>2, <3>3, <3>4
    <2>6. SubSeq(w, a + 1, Len(w)) = Append(t, x)
        BY <2>2, <2>3, <2>4, <2>5, SameElements
    <2> QED
        BY <1>1, <2>6 DEF t
<1>4. SubSeq(w, Len(s) + 2, Len(s) + 1) = <<>>
    BY <1>1
<1> QED
    BY <1>2, <1>3, <1>4 DEF w

\* The first c elements of a sequence.
LEMMA PrefixType ==
  ASSUME NEW S, NEW s \in Seq(S), NEW c \in 0 .. Len(s)
  PROVE  /\ SubSeq(s, 1, c) \in Seq(S) /\ Len(SubSeq(s, 1, c)) = c
         /\ \A i \in 1 .. c : SubSeq(s, 1, c)[i] = s[i]
  OBVIOUS

\* The least element is the one chosen.
LEMMA LeastIs ==
  ASSUME NEW T \in SUBSET Nat, NEW p \in T, \A i \in T : p <= i
  PROVE  (CHOOSE i \in T : \A j \in T : i <= j) = p
<1>1. \A i \in T : (\A j \in T : i <= j) => i = p
    OBVIOUS
<1> QED
    BY <1>1
=============================================================================
