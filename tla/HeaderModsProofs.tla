-------------------------- MODULE HeaderModsProofs --------------------------
(***************************************************************************)
(* The header modifications, for headers and indices of any size: however  *)
(* a header is split in two lists, what is done to the two is what is      *)
(* documented for the one.                                                 *)
(***************************************************************************)
EXTENDS HeaderMods, FiniteSetTheorems, SequenceTheorems, TLAPS

----------------------------------------------------------------------------
(* The j-th number of a set *)

Below(T, i) == {x \in T : x <= i}

LEMMA FiniteOf ==
  ASSUME NEW n \in Nat, NEW T \in SUBSET (1 .. n)
  PROVE  IsFiniteSet(T) /\ Cardinality(T) \in Nat
  <1>1. IsFiniteSet(1 .. n)
    BY FS_Interval
  <1>2. IsFiniteSet(T)
    BY <1>1, FS_Subset
  <1> QED
    BY <1>2, FS_CardinalityType

LEMMA BelowSize ==
  ASSUME NEW n \in Nat, NEW T \in SUBSET (1 .. n), NEW i \in T
  PROVE  /\ IsFiniteSet(T) /\ IsFiniteSet(Below(T, i)) /\ Cardinality(T) \in Nat
         /\ Cardinality(Below(T, i)) \in 1 .. Cardinality(T)
  <1>1. IsFiniteSet(T)
    BY FiniteOf
  <1>2. Below(T, i) \in SUBSET T /\ i \in Below(T, i)
    BY DEF Below
  <1>3. IsFiniteSet(Below(T, i)) /\ Cardinality(Below(T, i)) <= Cardinality(T)
    BY <1>1, <1>2, FS_Subset
  <1>4. Cardinality(T) \in Nat /\ Cardinality(Below(T, i)) \in Nat
    BY <1>1, <1>3, FS_CardinalityType
  <1>5. Cardinality(Below(T, i)) # 0
    BY <1>2, <1>3, FS_EmptySet
  <1> QED
    BY <1>1, <1>3, <1>4, <1>5

\* No two numbers of T have as many below them.
LEMMA BelowTells ==
  ASSUME NEW n \in Nat, NEW T \in SUBSET (1 .. n), NEW i \in T, NEW k \in T,
         Cardinality(Below(T, i)) = Cardinality(Below(T, k))
  PROVE  i = k
  <1>1. ASSUME NEW a \in T, NEW b \in T, a < b,
               Cardinality(Below(T, a)) = Cardinality(Below(T, b))
        PROVE  FALSE
    <2>0. a \in Int /\ b \in Int /\ \A x \in T : x \in Int /\ (x <= a => x <= b)
      BY <1>1
    <2>A. Below(T, a) \in SUBSET Below(T, b)
      BY <2>0 DEF Below
    <2>B. b \in Below(T, b) /\ b \notin Below(T, a)
      BY <1>1, <2>0 DEF Below
    <2>1. Below(T, a) \in SUBSET Below(T, b) /\ b \in Below(T, b) /\ b \notin Below(T, a)
      BY <2>A, <2>B
    <2>2. IsFiniteSet(Below(T, b))
      BY BelowSize
    <2>3. Below(T, b) = Below(T, a)
      BY <1>1, <2>1, <2>2, FS_Subset
    <2> QED
      BY <2>1, <2>3
  <1>2. i \in Int /\ k \in Int
    OBVIOUS
  <1>3. i < k \/ k < i \/ i = k
    BY <1>2
  <1> QED
    BY <1>1, <1>3

LEMMA NthOf ==
  ASSUME NEW n \in Nat, NEW T \in SUBSET (1 .. n), NEW i \in T
  PROVE  Nth(T, Cardinality(Below(T, i))) = i
  <1> DEFINE j == Cardinality(Below(T, i))
  <1>1. \A k \in T : Cardinality(Below(T, k)) = j => k = i
    BY BelowTells
  <1>2. Nth(T, j) = CHOOSE k \in T : Cardinality(Below(T, k)) = j
    BY DEF Nth, Below
  <1> QED
    BY <1>1, <1>2

LEMMA NthIs ==
  ASSUME NEW n \in Nat, NEW T \in SUBSET (1 .. n), NEW j \in 1 .. Cardinality(T)
  PROVE  Nth(T, j) \in T /\ Cardinality(Below(T, Nth(T, j))) = j
  <1> DEFINE f == [i \in T |-> Cardinality(Below(T, i))]
  <1>1. IsFiniteSet(T) /\ Cardinality(T) \in Nat
    BY FiniteOf
  <1>2. f \in Injection(T, 1 .. Cardinality(T))
    <2>1. f \in [T -> 1 .. Cardinality(T)]
      BY BelowSize
    <2>2. \A a, b \in T : f[a] = f[b] => a = b
      BY BelowTells
    <2> QED
      BY <2>1, <2>2 DEF Injection, IsInjective
  <1>3. IsFiniteSet(1 .. Cardinality(T)) /\ Cardinality(1 .. Cardinality(T)) = Cardinality(T)
    BY <1>1, FS_Interval
  <1> HIDE DEF f
  <1>4. f \in Surjection(T, 1 .. Cardinality(T))
    BY <1>2, <1>3, FS_Injection
  <1>5. PICK i \in T : f[i] = j
    BY <1>4 DEF Surjection
  <1>6. Cardinality(Below(T, i)) = j
    BY <1>5 DEF f
  <1> QED
    BY <1>6, NthOf
----------------------------------------------------------------------------
(* Two lists, one behind the other *)

Shifted(n, B) == {n + x : x \in B}

Ranks == Nat \ {0}

LEMMA ShiftedSize ==
  ASSUME NEW n \in Nat, NEW B \in SUBSET Ranks, IsFiniteSet(B)
  PROVE  /\ \A x \in Shifted(n, B) : x \in Nat /\ n < x
         /\ IsFiniteSet(Shifted(n, B)) /\ Cardinality(Shifted(n, B)) = Cardinality(B)
  <1> DEFINE f == [x \in B |-> n + x]
  <1>1. \A x \in Shifted(n, B) : x \in Nat /\ n < x
    BY DEF Shifted, Ranks
  <1>2. f \in [B -> Shifted(n, B)] /\ \A y \in Shifted(n, B) : \E x \in B : f[x] = y
    BY DEF Shifted
  <1>3. \A a, b \in B : f[a] = f[b] => a = b
    BY DEF Ranks
  <1> HIDE DEF f
  <1>4. f \in Bijection(B, Shifted(n, B))
    BY <1>2, <1>3 DEF Bijection, Injection, Surjection, IsInjective
  <1>5. ExistsBijection(B, Shifted(n, B))
    BY <1>4 DEF ExistsBijection
  <1> QED
    BY <1>1, <1>5, FS_Bijection

LEMMA JoinedSize ==
  ASSUME NEW n \in Nat, NEW A \in SUBSET (1 .. n), NEW B \in SUBSET Ranks, IsFiniteSet(B),
         NEW T, T = A \union Shifted(n, B)
  PROVE  Cardinality(T) = Cardinality(A) + Cardinality(B)
  <1>1. /\ \A x \in Shifted(n, B) : x \in Nat /\ n < x
        /\ IsFiniteSet(Shifted(n, B)) /\ Cardinality(Shifted(n, B)) = Cardinality(B)
    BY ShiftedSize
  <1>2. A \cap Shifted(n, B) = {}
    BY <1>1
  <1>3. IsFiniteSet(A) /\ Cardinality(A) \in Nat
    BY FiniteOf
  <1>4. Cardinality(A \union Shifted(n, B)) =
          Cardinality(A) + Cardinality(Shifted(n, B)) - Cardinality({})
    BY <1>1, <1>2, <1>3, FS_Union
  <1>5. Cardinality({}) = 0 /\ Cardinality(B) \in Nat
    BY FS_EmptySet, FS_CardinalityType
  <1> QED
    BY <1>1, <1>3, <1>4, <1>5

LEMMA JoinedPlaces ==
  ASSUME NEW n \in Nat, NEW m \in Nat, NEW A \in SUBSET (1 .. n), NEW B \in SUBSET (1 .. m)
  PROVE  /\ A \union Shifted(n, B) \in SUBSET (1 .. n + m)
         /\ B \in SUBSET Ranks /\ IsFiniteSet(B)
  <1>1. B \in SUBSET Ranks
    BY DEF Ranks
  <1>2. \A x \in B : n + x \in 1 .. n + m
    OBVIOUS
  <1>3. \A x \in 1 .. n : x \in 1 .. n + m
    OBVIOUS
  <1>4. IsFiniteSet(B)
    BY FiniteOf
  <1> QED
    BY <1>1, <1>2, <1>3, <1>4 DEF Shifted

LEMMA NthJoined ==
  ASSUME NEW n \in Nat, NEW m \in Nat, NEW A \in SUBSET (1 .. n), NEW B \in SUBSET (1 .. m)
  PROVE  /\ \A j \in 1 .. Cardinality(A) : Nth(A \union Shifted(n, B), j) = Nth(A, j)
         /\ \A j \in 1 .. Cardinality(B) :
              Nth(A \union Shifted(n, B), Cardinality(A) + j) = n + Nth(B, j)
  <1> DEFINE T == A \union Shifted(n, B)
  <1>1. n + m \in Nat
    OBVIOUS
  <1>0. T \in SUBSET (1 .. n + m)
    BY JoinedPlaces
  <1>2. ASSUME NEW j \in 1 .. Cardinality(A)
        PROVE  Nth(T, j) = Nth(A, j)
    <2> DEFINE i == Nth(A, j)
    <2>1. i \in A /\ Cardinality(Below(A, i)) = j
      BY NthIs
    <2> HIDE DEF i
    <2>2. \A x \in B : ~(n + x <= i)
      BY <2>1
    <2>3. Below(T, i) = Below(A, i)
      BY <2>2 DEF Below, Shifted
    <2>4. Nth(T, Cardinality(Below(T, i))) = i
      BY <1>0, <1>1, <2>1, NthOf
    <2> QED
      BY <2>1, <2>3, <2>4 DEF i
  <1>3. ASSUME NEW j \in 1 .. Cardinality(B)
        PROVE  Nth(T, Cardinality(A) + j) = n + Nth(B, j)
    <2> DEFINE i == Nth(B, j)
    <2>1. i \in B /\ Cardinality(Below(B, i)) = j
      BY NthIs
    <2> HIDE DEF i
    <2>2. n + i \in T
      BY <2>1 DEF Shifted
    <2>3. i \in Nat /\ \A x \in A : x <= n + i
      BY <2>1
    <2>4. \A x \in B : n + x <= n + i <=> x <= i
      BY <2>3
    <2>5. Below(T, n + i) = A \union Shifted(n, Below(B, i))
      BY <2>3, <2>4 DEF Below, Shifted
    <2>6. Below(B, i) \in SUBSET Ranks /\ IsFiniteSet(Below(B, i))
      <3>1. B \in SUBSET Ranks /\ IsFiniteSet(B)
        BY JoinedPlaces
      <3>2. Below(B, i) \in SUBSET B
        BY DEF Below
      <3> QED
        BY <3>1, <3>2, FS_Subset
    <2>7. Cardinality(Below(T, n + i)) = Cardinality(A) + j
      <3> DEFINE C == Below(B, i)
                 D == Below(T, n + i)
      <3>1. C \in SUBSET Ranks /\ IsFiniteSet(C) /\ D = A \union Shifted(n, C)
        BY <2>5, <2>6
      <3> HIDE DEF C, D, T
      <3>2. Cardinality(D) = Cardinality(A) + Cardinality(C)
        BY <3>1, JoinedSize
      <3> QED
        BY <2>1, <3>2 DEF C, D
    <2>8. Nth(T, Cardinality(Below(T, n + i))) = n + i
      BY <1>0, <1>1, <2>2, NthOf
    <2> QED
      BY <2>7, <2>8 DEF i
  <1> QED
    BY <1>2, <1>3

\* What a list has at some of its places.
LEMMA SelectIs ==
  ASSUME NEW S, NEW s \in Seq(S), NEW T \in SUBSET (DOMAIN s)
  PROVE  /\ T \in SUBSET (1 .. Len(s)) /\ Cardinality(T) \in Nat
         /\ Select(s, T) \in Seq(S) /\ Len(Select(s, T)) = Cardinality(T)
         /\ \A j \in 1 .. Cardinality(T) : Nth(T, j) \in T /\ Select(s, T)[j] = s[Nth(T, j)]
  <1>1. DOMAIN s = 1 .. Len(s) /\ Len(s) \in Nat /\ \A i \in 1 .. Len(s) : s[i] \in S
    OBVIOUS
  <1>2. Cardinality(T) \in Nat
    BY <1>1, FiniteOf
  <1>3. \A j \in 1 .. Cardinality(T) : Nth(T, j) \in T
    BY <1>1, NthIs
  <1>4. \A j \in 1 .. Cardinality(T) : s[Nth(T, j)] \in S
    BY <1>1, <1>3
  <1> QED
    BY <1>1, <1>2, <1>3, <1>4 DEF Select

LEMMA SelectJoined ==
  ASSUME NEW S, NEW a \in Seq(S), NEW b \in Seq(S),
         NEW A \in SUBSET (DOMAIN a), NEW B \in SUBSET (DOMAIN b),
         NEW C, C = A \union Shifted(Len(a), B)
  PROVE  Select(a \o b, C) = Select(a, A) \o Select(b, B)
  <1> DEFINE n == Len(a)
             m == Len(b)
             T == A \union Shifted(n, B)
             p == Cardinality(A)
             q == Cardinality(B)
             u == Select(a, A)
             v == Select(b, B)
             w == Select(a \o b, T)
  <1>1. /\ n \in Nat /\ m \in Nat /\ DOMAIN a = 1 .. n /\ DOMAIN b = 1 .. m
        /\ A \in SUBSET (1 .. n) /\ B \in SUBSET (1 .. m) /\ p \in Nat /\ q \in Nat
    BY SelectIs
  <1>2. /\ a \o b \in Seq(S) /\ DOMAIN (a \o b) = 1 .. n + m
        /\ \A i \in 1 .. n : (a \o b)[i] = a[i]
        /\ \A i \in 1 .. m : (a \o b)[n + i] = b[i]
    BY <1>1, ConcatProperties
  <1>3. /\ u \in Seq(S) /\ Len(u) = p
        /\ \A j \in 1 .. p : Nth(A, j) \in A /\ u[j] = a[Nth(A, j)]
    BY SelectIs
  <1>4. /\ v \in Seq(S) /\ Len(v) = q
        /\ \A j \in 1 .. q : Nth(B, j) \in B /\ v[j] = b[Nth(B, j)]
    BY SelectIs
  <1>5. T \in SUBSET (1 .. n + m) /\ Cardinality(T) = p + q
    <2>1. T \in SUBSET (1 .. n + m) /\ B \in SUBSET Ranks /\ IsFiniteSet(B)
      BY <1>1, JoinedPlaces
    <2> HIDE DEF n, m, T
    <2>2. T = A \union Shifted(n, B)
      BY DEF T
    <2>3. Cardinality(T) = p + q
      BY <1>1, <2>1, <2>2, JoinedSize
    <2> QED
      BY <2>1, <2>3
  <1>6. /\ \A j \in 1 .. p : Nth(T, j) = Nth(A, j)
        /\ \A j \in 1 .. q : Nth(T, p + j) = n + Nth(B, j)
    BY <1>1, NthJoined
  <1>7. w \in Seq(S) /\ Len(w) = p + q /\ \A j \in 1 .. p + q : w[j] = (a \o b)[Nth(T, j)]
    <2> DEFINE c == a \o b
    <2>1. c \in Seq(S) /\ T \in SUBSET (DOMAIN c)
      BY <1>2, <1>5
    <2> HIDE DEF c, T
    <2>2. /\ Select(c, T) \in Seq(S) /\ Len(Select(c, T)) = Cardinality(T)
          /\ \A j \in 1 .. Cardinality(T) : Select(c, T)[j] = c[Nth(T, j)]
      BY <2>1, SelectIs
    <2> QED
      BY <1>5, <2>2 DEF c
  <1> HIDE DEF T, p, q, u, v, w, n, m
  <1>8. ASSUME NEW j \in 1 .. p PROVE w[j] = u[j]
    <2>1. j \in 1 .. p + q
      BY <1>1
    <2>2. Nth(A, j) \in 1 .. n
      BY <1>1, <1>3
    <2> QED
      BY <1>2, <1>3, <1>6, <1>7, <2>1, <2>2
  <1>9. ASSUME NEW j \in 1 .. q PROVE w[p + j] = v[j]
    <2>1. p + j \in 1 .. p + q
      BY <1>1
    <2>2. Nth(B, j) \in 1 .. m
      BY <1>1, <1>4
    <2> QED
      BY <1>2, <1>4, <1>6, <1>7, <2>1, <2>2
  <1>10. w = u \o v
    <2>1. u \o v \in Seq(S) /\ Len(u \o v) = p + q
      BY <1>1, <1>3, <1>4, ConcatProperties
    <2>2. ASSUME NEW j \in 1 .. p + q PROVE w[j] = (u \o v)[j]
      <3>1. CASE j <= p
        <4>1. j \in 1 .. p
          BY <1>1, <3>1
        <4> QED
          BY <1>1, <1>3, <1>4, <1>8, <3>1, <4>1, ConcatProperties
      <3>2. CASE ~(j <= p)
        <4>1. j - p \in 1 .. q /\ p + (j - p) = j
          BY <1>1, <3>2
        <4>2. (u \o v)[j] = v[j - p]
          BY <1>1, <1>3, <1>4, <3>2, ConcatProperties
        <4> QED
          BY <1>9, <4>1, <4>2
      <3> QED
        BY <3>1, <3>2
    <2> QED
      BY <1>1, <1>7, <2>1, <2>2
  <1> QED
    BY <1>10 DEF T, u, v, w, n

\* Which places of the whole carry a key: those of the first list, then those of
\* the second.
LEMMA PlacesJoined ==
  ASSUME NEW S, NEW a \in Seq(S), NEW b \in Seq(S), NEW k
  PROVE  /\ Places(a, k) \in SUBSET (1 .. Len(a)) /\ Places(b, k) \in SUBSET (1 .. Len(b))
         /\ Places(a \o b, k) = Places(a, k) \union Shifted(Len(a), Places(b, k))
  <1>1. /\ Len(a) \in Nat /\ Len(b) \in Nat /\ DOMAIN a = 1 .. Len(a) /\ DOMAIN b = 1 .. Len(b)
        /\ a \o b \in Seq(S) /\ Len(a \o b) = Len(a) + Len(b)
        /\ \A i \in 1 .. Len(a) + Len(b) :
             (a \o b)[i] = IF i <= Len(a) THEN a[i] ELSE b[i - Len(a)]
    BY ConcatProperties
  <1>2. DOMAIN (a \o b) = 1 .. Len(a) + Len(b)
    BY <1>1
  <1>3. ASSUME NEW i \in Places(a \o b, k)
        PROVE  i \in Places(a, k) \union Shifted(Len(a), Places(b, k))
    <2>1. i \in 1 .. Len(a) + Len(b) /\ (a \o b)[i].key = k
      BY <1>2 DEF Places
    <2>2. CASE i <= Len(a)
      BY <1>1, <2>1, <2>2 DEF Places
    <2>3. CASE ~(i <= Len(a))
      <3>1. i - Len(a) \in Places(b, k) /\ i = Len(a) + (i - Len(a))
        BY <1>1, <2>1, <2>3 DEF Places
      <3> QED
        BY <3>1 DEF Shifted
    <2> QED
      BY <2>2, <2>3
  <1>4. ASSUME NEW i \in Places(a, k) PROVE i \in Places(a \o b, k)
    BY <1>1, <1>2 DEF Places
  <1>5. ASSUME NEW i \in Places(b, k) PROVE Len(a) + i \in Places(a \o b, k)
    <2>1. i \in 1 .. Len(b) /\ b[i].key = k
      BY <1>1 DEF Places
    <2>2. Len(a) + i \in 1 .. Len(a) + Len(b) /\ ~(Len(a) + i <= Len(a)) /\ (Len(a) + i) - Len(a) = i
      BY <1>1, <2>1
    <2> QED
      BY <1>1, <1>2, <2>1, <2>2 DEF Places
  <1>6. Shifted(Len(a), Places(b, k)) \subseteq Places(a \o b, k)
    BY <1>5 DEF Shifted
  <1>7. Places(a, k) \in SUBSET (1 .. Len(a)) /\ Places(b, k) \in SUBSET (1 .. Len(b))
    BY <1>1 DEF Places
  <1> QED
    BY <1>3, <1>4, <1>6, <1>7

\* So many are there, and the j-th of them is there.
LEMMA TotalJoined ==
  ASSUME NEW S, NEW a \in Seq(S), NEW b \in Seq(S), NEW k
  PROVE  /\ Total(a, k) \in Nat /\ Total(b, k) \in Nat /\ Len(a) \in Nat
         /\ Total(a \o b, k) = Total(a, k) + Total(b, k)
         /\ \A j \in 1 .. Total(a, k) :
              /\ Nth(Places(a, k), j) \in 1 .. Len(a)
              /\ Nth(Places(a \o b, k), j) = Nth(Places(a, k), j)
         /\ \A j \in 1 .. Total(b, k) :
              /\ Nth(Places(b, k), j) \in 1 .. Len(b)
              /\ Nth(Places(a \o b, k), Total(a, k) + j) = Len(a) + Nth(Places(b, k), j)
  <1> DEFINE A == Places(a, k)
             B == Places(b, k)
  <1>1. /\ Len(a) \in Nat /\ Len(b) \in Nat
        /\ A \in SUBSET (1 .. Len(a)) /\ B \in SUBSET (1 .. Len(b))
        /\ Places(a \o b, k) = A \union Shifted(Len(a), B)
    BY PlacesJoined
  <1> HIDE DEF A, B
  <1>2. ASSUME NEW n \in Nat, NEW m \in Nat, n = Len(a), m = Len(b)
        PROVE  /\ Cardinality(A \union Shifted(n, B)) = Cardinality(A) + Cardinality(B)
               /\ \A j \in 1 .. Cardinality(A) : Nth(A \union Shifted(n, B), j) = Nth(A, j)
               /\ \A j \in 1 .. Cardinality(B) :
                    Nth(A \union Shifted(n, B), Cardinality(A) + j) = n + Nth(B, j)
    <2>1. A \in SUBSET (1 .. n) /\ B \in SUBSET (1 .. m)
      BY <1>1, <1>2
    <2>0. B \in SUBSET Ranks /\ IsFiniteSet(B)
      BY <2>1, JoinedPlaces
    <2>2. Cardinality(A \union Shifted(n, B)) = Cardinality(A) + Cardinality(B)
      BY <2>0, <2>1, JoinedSize
    <2>3. /\ \A j \in 1 .. Cardinality(A) : Nth(A \union Shifted(n, B), j) = Nth(A, j)
          /\ \A j \in 1 .. Cardinality(B) :
               Nth(A \union Shifted(n, B), Cardinality(A) + j) = n + Nth(B, j)
      BY <2>1, NthJoined
    <2> QED
      BY <2>2, <2>3
  <1>3. Cardinality(A) \in Nat /\ Cardinality(B) \in Nat
    BY <1>1, FiniteOf
  <1>4. \A j \in 1 .. Cardinality(A) : Nth(A, j) \in A
    BY <1>1, NthIs
  <1>5. \A j \in 1 .. Cardinality(B) : Nth(B, j) \in B
    BY <1>1, NthIs
  <1> QED
    BY <1>1, <1>2, <1>3, <1>4, <1>5 DEF Total, A, B

\* The fields with other keys: those of the first list, then those of the second.
LEMMA OthersJoined ==
  ASSUME NEW S, NEW a \in Seq(S), NEW b \in Seq(S), NEW ks
  PROVE  Others(a \o b, ks) = Others(a, ks) \o Others(b, ks)
  <1> DEFINE A == {i \in DOMAIN a : a[i].key \notin ks}
             B == {i \in DOMAIN b : b[i].key \notin ks}
             C == {i \in DOMAIN (a \o b) : (a \o b)[i].key \notin ks}
  <1>1. /\ Len(a) \in Nat /\ Len(b) \in Nat /\ DOMAIN a = 1 .. Len(a) /\ DOMAIN b = 1 .. Len(b)
        /\ a \o b \in Seq(S) /\ Len(a \o b) = Len(a) + Len(b)
        /\ \A i \in 1 .. Len(a) + Len(b) :
             (a \o b)[i] = IF i <= Len(a) THEN a[i] ELSE b[i - Len(a)]
    BY ConcatProperties
  <1>2. DOMAIN (a \o b) = 1 .. Len(a) + Len(b)
    BY <1>1
  <1>3. ASSUME NEW i \in C PROVE i \in A \union Shifted(Len(a), B)
    <2>1. i \in 1 .. Len(a) + Len(b) /\ (a \o b)[i].key \notin ks
      BY <1>2
    <2>2. CASE i <= Len(a)
      BY <1>1, <2>1, <2>2
    <2>3. CASE ~(i <= Len(a))
      <3>1. i - Len(a) \in B /\ i = Len(a) + (i - Len(a))
        BY <1>1, <2>1, <2>3
      <3> QED
        BY <3>1 DEF Shifted
    <2> QED
      BY <2>2, <2>3
  <1>4. ASSUME NEW i \in A PROVE i \in C
    BY <1>1, <1>2
  <1>5. ASSUME NEW i \in B PROVE Len(a) + i \in C
    <2>1. i \in 1 .. Len(b) /\ b[i].key \notin ks
      BY <1>1
    <2>2. Len(a) + i \in 1 .. Len(a) + Len(b) /\ ~(Len(a) + i <= Len(a)) /\ (Len(a) + i) - Len(a) = i
      BY <1>1, <2>1
    <2> QED
      BY <1>1, <1>2, <2>1, <2>2
  <1> HIDE DEF A, B, C
  <1>6. C = A \union Shifted(Len(a), B)
    BY <1>3, <1>4, <1>5 DEF Shifted
  <1>7. A \in SUBSET (DOMAIN a) /\ B \in SUBSET (DOMAIN b)
    BY DEF A, B
  <1>8. Select(a \o b, C) = Select(a, A) \o Select(b, B)
    BY <1>6, <1>7, SelectJoined
  <1> QED
    BY <1>8 DEF Others, A, B, C

\* They are fields, none with one of the keys.
LEMMA OthersAre ==
  ASSUME NEW S, NEW s \in Seq(S), NEW ks
  PROVE  /\ Others(s, ks) \in Seq(S)
         /\ \A i \in 1 .. Len(Others(s, ks)) : Others(s, ks)[i].key \notin ks
  <1> DEFINE T == {i \in DOMAIN s : s[i].key \notin ks}
  <1>1. T \in SUBSET (DOMAIN s) /\ \A i \in T : s[i].key \notin ks
    OBVIOUS
  <1>2. Others(s, ks) = Select(s, T)
    BY DEF Others
  <1> HIDE DEF T
  <1>3. /\ Select(s, T) \in Seq(S) /\ Len(Select(s, T)) = Cardinality(T)
        /\ \A j \in 1 .. Cardinality(T) : Nth(T, j) \in T /\ Select(s, T)[j] = s[Nth(T, j)]
    BY <1>1, SelectIs
  <1> QED
    BY <1>1, <1>2, <1>3

----------------------------------------------------------------------------
(* Edits of a list are cuts *)

LEMMA CutIs ==
  ASSUME NEW S, NEW s \in Seq(S), NEW n \in 0 .. Len(s)
  PROVE  /\ Upto(s, n) \in Seq(S) /\ Len(Upto(s, n)) = n
         /\ \A i \in 1 .. n : Upto(s, n)[i] = s[i]
         /\ Rest(s, n) \in Seq(S) /\ Len(Rest(s, n)) = Len(s) - n
         /\ \A i \in 1 .. Len(s) - n : Rest(s, n)[i] = s[n + i]
  <1>1. Len(s) \in Nat /\ n \in Int /\ n + 1 \in Int /\ \A i \in 1 .. Len(s) : s[i] \in S
    OBVIOUS
  <1>2. /\ SubSeq(s, 1, n) \in Seq(S) /\ Len(SubSeq(s, 1, n)) = n
        /\ \A i \in 1 .. n : SubSeq(s, 1, n)[i] = s[i]
    <2>1. \A i \in 1 .. n : s[i] \in S
      BY <1>1
    <2>2. /\ SubSeq(s, 1, n) \in Seq(S) /\ Len(SubSeq(s, 1, n)) = IF 1 <= n THEN n - 1 + 1 ELSE 0
          /\ \A i \in 1 .. n - 1 + 1 : SubSeq(s, 1, n)[i] = s[1 + i - 1]
      BY <1>1, <2>1, SubSeqProperties
    <2> QED
      BY <1>1, <2>2
  <1>3. /\ SubSeq(s, n + 1, Len(s)) \in Seq(S) /\ Len(SubSeq(s, n + 1, Len(s))) = Len(s) - n
        /\ \A i \in 1 .. Len(s) - n : SubSeq(s, n + 1, Len(s))[i] = s[n + i]
    <2>1. \A i \in n + 1 .. Len(s) : s[i] \in S
      BY <1>1
    <2> DEFINE l == Len(s)
               p == n + 1
    <2>2. l \in Int /\ p \in Int /\ \A i \in p .. l : s[i] \in S
      BY <1>1, <2>1
    <2> HIDE DEF l, p
    <2>3. /\ SubSeq(s, p, l) \in Seq(S) /\ Len(SubSeq(s, p, l)) = IF p <= l THEN l - p + 1 ELSE 0
          /\ \A i \in 1 .. l - p + 1 : SubSeq(s, p, l)[i] = s[p + i - 1]
      BY <2>2, SubSeqProperties
    <2>4. l - p + 1 = Len(s) - n /\ (IF p <= l THEN l - p + 1 ELSE 0) = Len(s) - n
      BY <1>1 DEF l, p
    <2>5. \A i \in 1 .. Len(s) - n : p + i - 1 = n + i
      BY <1>1 DEF p
    <2> QED
      BY <2>3, <2>4, <2>5 DEF l, p
  <1> QED
    BY <1>2, <1>3 DEF Upto, Rest

\* A cut of two lists is a cut of one of them.
LEMMA CutJoined ==
  ASSUME NEW S, NEW a \in Seq(S), NEW b \in Seq(S)
  PROVE  /\ \A n \in 0 .. Len(a) : /\ Upto(a \o b, n) = Upto(a, n)
                                   /\ Rest(a \o b, n) = Rest(a, n) \o b
         /\ \A n \in 0 .. Len(b) : /\ Upto(a \o b, Len(a) + n) = a \o Upto(b, n)
                                   /\ Rest(a \o b, Len(a) + n) = Rest(b, n)
  <1> DEFINE c == a \o b
  <1>1. /\ Len(a) \in Nat /\ Len(b) \in Nat /\ c \in Seq(S) /\ Len(c) = Len(a) + Len(b)
        /\ \A i \in 1 .. Len(a) + Len(b) : c[i] = IF i <= Len(a) THEN a[i] ELSE b[i - Len(a)]
    BY ConcatProperties
  <1> HIDE DEF c
  <1>2. ASSUME NEW n \in 0 .. Len(a)
        PROVE  Upto(c, n) = Upto(a, n) /\ Rest(c, n) = Rest(a, n) \o b
    <2>1. n \in 0 .. Len(c)
      BY <1>1
    <2> DEFINE uc == Upto(c, n)
               ua == Upto(a, n)
               rc == Rest(c, n)
               ra == Rest(a, n)
    <2>2. /\ uc \in Seq(S) /\ Len(uc) = n /\ \A i \in 1 .. n : uc[i] = c[i]
          /\ rc \in Seq(S) /\ Len(rc) = Len(c) - n /\ \A i \in 1 .. Len(c) - n : rc[i] = c[n + i]
      BY <1>1, <2>1, CutIs
    <2>3. /\ ua \in Seq(S) /\ Len(ua) = n /\ \A i \in 1 .. n : ua[i] = a[i]
          /\ ra \in Seq(S) /\ Len(ra) = Len(a) - n /\ \A i \in 1 .. Len(a) - n : ra[i] = a[n + i]
      BY CutIs
    <2> HIDE DEF uc, ua, rc, ra
    <2>4. ASSUME NEW i \in 1 .. n PROVE c[i] = a[i]
      <3>1. i \in 1 .. Len(a) + Len(b) /\ i <= Len(a)
        BY <1>1
      <3> QED
        BY <1>1, <3>1
    <2>5. uc = ua
      BY <2>2, <2>3, <2>4, SeqEqual
    <2>6. /\ ra \o b \in Seq(S) /\ Len(ra \o b) = Len(c) - n
          /\ \A i \in 1 .. Len(c) - n :
               (ra \o b)[i] = IF i <= Len(a) - n THEN ra[i] ELSE b[i - (Len(a) - n)]
      <3>1. /\ ra \o b \in Seq(S) /\ Len(ra \o b) = Len(ra) + Len(b)
            /\ \A i \in 1 .. Len(ra) + Len(b) :
                 (ra \o b)[i] = IF i <= Len(ra) THEN ra[i] ELSE b[i - Len(ra)]
        BY <2>3, ConcatProperties
      <3>2. Len(ra) + Len(b) = Len(c) - n
        BY <1>1, <2>3
      <3> QED
        BY <2>3, <3>1, <3>2
    <2>7. ASSUME NEW i \in 1 .. Len(c) - n PROVE rc[i] = (ra \o b)[i]
      <3>1. n + i \in 1 .. Len(a) + Len(b) /\ rc[i] = c[n + i]
        BY <1>1, <2>2
      <3>2. CASE i <= Len(a) - n
        <4>1. n + i <= Len(a) /\ i \in 1 .. Len(a) - n
          BY <1>1, <3>2
        <4> QED
          BY <1>1, <2>3, <2>6, <3>1, <3>2, <4>1
      <3>3. CASE ~(i <= Len(a) - n)
        <4>1. ~(n + i <= Len(a)) /\ (n + i) - Len(a) = i - (Len(a) - n)
          BY <1>1, <3>3
        <4>2. c[n + i] = b[i - (Len(a) - n)]
          BY <1>1, <3>1, <4>1
        <4> QED
          BY <2>6, <3>1, <3>3, <4>2
      <3> QED
        BY <3>2, <3>3
    <2>8. rc = ra \o b
      BY <2>2, <2>6, <2>7, SeqEqual
    <2> QED
      BY <2>5, <2>8 DEF uc, ua, rc, ra
  <1>3. ASSUME NEW n \in 0 .. Len(b)
        PROVE  Upto(c, Len(a) + n) = a \o Upto(b, n) /\ Rest(c, Len(a) + n) = Rest(b, n)
    <2> DEFINE m == Len(a) + n
    <2>1. m \in 0 .. Len(c) /\ m = Len(a) + n /\ Len(c) - m = Len(b) - n
      BY <1>1
    <2> HIDE DEF m
    <2> DEFINE uc == Upto(c, m)
               ub == Upto(b, n)
               rc == Rest(c, m)
               rb == Rest(b, n)
    <2>2. /\ uc \in Seq(S) /\ Len(uc) = m /\ \A i \in 1 .. m : uc[i] = c[i]
          /\ rc \in Seq(S) /\ Len(rc) = Len(c) - m /\ \A i \in 1 .. Len(c) - m : rc[i] = c[m + i]
      BY <1>1, <2>1, CutIs
    <2>3. /\ ub \in Seq(S) /\ Len(ub) = n /\ \A i \in 1 .. n : ub[i] = b[i]
          /\ rb \in Seq(S) /\ Len(rb) = Len(b) - n /\ \A i \in 1 .. Len(b) - n : rb[i] = b[n + i]
      BY CutIs
    <2> HIDE DEF uc, ub, rc, rb
    <2>4. ASSUME NEW i \in 1 .. Len(b) - n PROVE rc[i] = rb[i]
      <3>1. /\ m + i \in 1 .. Len(a) + Len(b) /\ ~(m + i <= Len(a)) /\ (m + i) - Len(a) = n + i
        BY <1>1, <2>1
      <3> QED
        BY <1>1, <2>1, <2>2, <2>3, <3>1
    <2>5. rc = rb
      BY <2>1, <2>2, <2>3, <2>4, SeqEqual
    <2>6. /\ a \o ub \in Seq(S) /\ Len(a \o ub) = m
          /\ \A i \in 1 .. m : (a \o ub)[i] = IF i <= Len(a) THEN a[i] ELSE ub[i - Len(a)]
      BY <2>1, <2>3, ConcatProperties
    <2>7. ASSUME NEW i \in 1 .. m PROVE uc[i] = (a \o ub)[i]
      <3>1. i \in 1 .. Len(a) + Len(b)
        BY <1>1, <2>1
      <3>2. CASE i <= Len(a)
        BY <1>1, <2>2, <2>6, <3>1, <3>2
      <3>3. CASE ~(i <= Len(a))
        <4>1. i - Len(a) \in 1 .. n
          BY <1>1, <2>1, <3>3
        <4> QED
          BY <1>1, <2>2, <2>3, <2>6, <3>1, <3>3, <4>1
      <3> QED
        BY <3>2, <3>3
    <2>8. uc = a \o ub
      BY <2>2, <2>6, <2>7, SeqEqual
    <2> QED
      BY <2>5, <2>8 DEF uc, ub, rc, rb, m
  <1> QED
    BY <1>2, <1>3 DEF c

\* Concatenation; its definition is only used in the next few lemmas.
Cat(s, t) == s \o t

LEMMA CatType ==
  ASSUME NEW S, NEW s \in Seq(S), NEW t \in Seq(S)
  PROVE  Cat(s, t) \in Seq(S)
  BY ConcatProperties DEF Cat

LEMMA CatLen ==
  ASSUME NEW S, NEW s \in Seq(S), NEW t \in Seq(S)
  PROVE  Len(s) \in Nat /\ Len(t) \in Nat /\ Len(Cat(s, t)) = Len(s) + Len(t)
  BY ConcatProperties DEF Cat

LEMMA CatAssoc ==
  ASSUME NEW S, NEW s \in Seq(S), NEW t \in Seq(S), NEW u \in Seq(S)
  PROVE  Cat(Cat(s, t), u) = Cat(s, Cat(t, u))
  BY ConcatAssociative DEF Cat

LEMMA CutInFirst ==
  ASSUME NEW S, NEW a \in Seq(S), NEW b \in Seq(S), NEW n \in 0 .. Len(a)
  PROVE  Upto(Cat(a, b), n) = Upto(a, n) /\ Rest(Cat(a, b), n) = Cat(Rest(a, n), b)
  BY CutJoined DEF Cat

LEMMA CutInSecond ==
  ASSUME NEW S, NEW a \in Seq(S), NEW b \in Seq(S), NEW n \in 0 .. Len(b)
  PROVE  /\ Upto(Cat(a, b), Len(a) + n) = Cat(a, Upto(b, n))
         /\ Rest(Cat(a, b), Len(a) + n) = Rest(b, n)
  BY CutJoined DEF Cat

\* What appending, removing, inserting and replacing leave.
LEMMA AppendIsCut ==
  ASSUME NEW S, NEW s \in Seq(S), NEW e \in S
  PROVE  <<e>> \in Seq(S) /\ Append(s, e) = Cat(s, <<e>>)
  <1>1. <<e>> \in Seq(S)
    OBVIOUS
  <1>2. Append(s, e) = Cat(s, <<e>>)
    BY AppendIsConcat DEF Cat
  <1> QED
    BY <1>1, <1>2

LEMMA RemoveIsCut ==
  ASSUME NEW S, NEW s \in Seq(S), NEW i \in 1 .. Len(s)
  PROVE  RemoveAt(s, i) = Cat(Upto(s, i - 1), Rest(s, i))
  BY DEF RemoveAt, Upto, Rest, Cat

LEMMA InsertIsCut ==
  ASSUME NEW S, NEW s \in Seq(S), NEW e \in S, NEW n \in 0 .. Len(s)
  PROVE  InsertAt(s, n + 1, e) = Cat(Cat(Upto(s, n), <<e>>), Rest(s, n))
  <1> DEFINE m == n + 1
  <1>1. m - 1 = n
    OBVIOUS
  <1>2. Rest(s, n) = SubSeq(s, m, Len(s))
    BY DEF Rest
  <1> HIDE DEF m
  <1>3. InsertAt(s, m, e) = SubSeq(s, 1, m - 1) \o <<e>> \o SubSeq(s, m, Len(s))
    BY DEF InsertAt
  <1>4. InsertAt(s, m, e) = Cat(Cat(Upto(s, n), <<e>>), Rest(s, n))
    BY <1>1, <1>2, <1>3 DEF Upto, Cat
  <1> QED
    BY <1>4 DEF m

LEMMA ReplaceIsCut ==
  ASSUME NEW S, NEW s \in Seq(S), NEW e \in S, NEW i \in 1 .. Len(s)
  PROVE  [s EXCEPT ![i] = e] = Cat(Cat(Upto(s, i - 1), <<e>>), Rest(s, i))
  <1>l. Len(s) \in Nat
    OBVIOUS
  <1> DEFINE u == Upto(s, i - 1)
             o == <<e>>
             r == Rest(s, i)
             t == [s EXCEPT ![i] = e]
  <1>0. i - 1 \in 0 .. Len(s) /\ i \in 0 .. Len(s)
    BY <1>l
  <1>1. /\ u \in Seq(S) /\ Len(u) = i - 1 /\ \A j \in 1 .. i - 1 : u[j] = s[j]
    BY <1>0, CutIs
  <1>2. /\ r \in Seq(S) /\ Len(r) = Len(s) - i /\ \A j \in 1 .. Len(s) - i : r[j] = s[i + j]
    BY <1>0, CutIs
  <1>3. o \in Seq(S) /\ Len(o) = 1 /\ o[1] = e
    OBVIOUS
  <1>4. t \in Seq(S) /\ Len(t) = Len(s) /\ \A j \in 1 .. Len(s) : t[j] = IF j = i THEN e ELSE s[j]
    BY ExceptSeq
  <1> HIDE DEF u, o, r, t
  <1>5. /\ u \o o \in Seq(S) /\ Len(u \o o) = i
        /\ \A j \in 1 .. i : (u \o o)[j] = IF j <= i - 1 THEN u[j] ELSE o[j - (i - 1)]
    <2>1. /\ u \o o \in Seq(S) /\ Len(u \o o) = Len(u) + Len(o)
          /\ \A j \in 1 .. Len(u) + Len(o) :
               (u \o o)[j] = IF j <= Len(u) THEN u[j] ELSE o[j - Len(u)]
      BY <1>1, <1>3, ConcatProperties
    <2>2. Len(u) + Len(o) = i
      BY <1>1, <1>3
    <2> QED
      BY <1>1, <2>1, <2>2
  <1> DEFINE w == u \o o
  <1> HIDE DEF w
  <1>6. /\ w \in Seq(S) /\ Len(w) = i
        /\ \A j \in 1 .. i : w[j] = IF j <= i - 1 THEN u[j] ELSE o[j - (i - 1)]
    BY <1>5 DEF w
  <1>7. /\ w \o r \in Seq(S) /\ Len(w \o r) = Len(s)
        /\ \A j \in 1 .. Len(s) : (w \o r)[j] = IF j <= i THEN w[j] ELSE r[j - i]
    <2>1. /\ w \o r \in Seq(S) /\ Len(w \o r) = Len(w) + Len(r)
          /\ \A j \in 1 .. Len(w) + Len(r) :
               (w \o r)[j] = IF j <= Len(w) THEN w[j] ELSE r[j - Len(w)]
      BY <1>2, <1>6, ConcatProperties
    <2>2. Len(w) + Len(r) = Len(s)
      BY <1>l, <1>2, <1>6
    <2> QED
      BY <1>6, <2>1, <2>2
  <1>8. ASSUME NEW j \in 1 .. Len(s) PROVE t[j] = (w \o r)[j]
    <2>1. CASE j < i
      <3>1. j \in 1 .. i /\ j <= i /\ j <= i - 1 /\ j \in 1 .. i - 1 /\ j # i
        BY <1>l, <2>1
      <3> QED
        BY <1>1, <1>4, <1>6, <1>7, <3>1
    <2>2. CASE j = i
      <3>1. j \in 1 .. i /\ j <= i /\ ~(j <= i - 1) /\ j - (i - 1) = 1
        BY <1>l, <2>2
      <3> QED
        BY <1>3, <1>4, <1>6, <1>7, <2>2, <3>1
    <2>3. CASE j > i
      <3>1. ~(j <= i) /\ j # i /\ j - i \in 1 .. Len(s) - i /\ i + (j - i) = j
        BY <1>l, <2>3
      <3> QED
        BY <1>2, <1>4, <1>7, <3>1
    <2>4. j < i \/ j = i \/ j > i
      BY <1>l
    <2> QED
      BY <2>1, <2>2, <2>3, <2>4
  <1>9. t = w \o r
    BY <1>4, <1>7, <1>8, SeqEqual
  <1> QED
    BY <1>9 DEF t, w, u, o, r, Cat

\* An edit of two lists is an edit of one of them; what is moved from the second
\* to the end of the first stays where it was in the whole.
LEMMA RemoveType ==
  ASSUME NEW S, NEW s \in Seq(S), NEW i \in 1 .. Len(s)
  PROVE  /\ Len(s) \in Nat /\ i - 1 \in 0 .. Len(s) /\ i \in 0 .. Len(s)
         /\ Upto(s, i - 1) \in Seq(S) /\ Rest(s, i) \in Seq(S)
         /\ RemoveAt(s, i) \in Seq(S)
  <1>1. Len(s) \in Nat
    OBVIOUS
  <1>2. i - 1 \in 0 .. Len(s) /\ i \in 0 .. Len(s)
    BY <1>1
  <1>3. Upto(s, i - 1) \in Seq(S) /\ Rest(s, i) \in Seq(S)
    BY <1>2, CutIs
  <1>4. RemoveAt(s, i) \in Seq(S)
    BY <1>3, RemoveIsCut, CatType
  <1> QED
    BY <1>1, <1>2, <1>3, <1>4

LEMMA RemoveInFirst ==
  ASSUME NEW S, NEW a \in Seq(S), NEW b \in Seq(S), NEW i \in 1 .. Len(a)
  PROVE  RemoveAt(Cat(a, b), i) = Cat(RemoveAt(a, i), b)
  <1> DEFINE u == Upto(a, i - 1)
             r == Rest(a, i)
             c == Cat(a, b)
  <1>c. c \in Seq(S)
    BY CatType
  <1>l. Len(a) \in Nat /\ Len(b) \in Nat /\ Len(c) = Len(a) + Len(b)
    BY CatLen
  <1>1. i - 1 \in 0 .. Len(a) /\ i \in 0 .. Len(a) /\ i \in 1 .. Len(c)
    BY <1>l
  <1>2. u \in Seq(S) /\ r \in Seq(S)
    BY <1>1, CutIs
  <1>3. Upto(c, i - 1) = u /\ Rest(c, i) = Cat(r, b)
    BY <1>1, CutInFirst
  <1>4. RemoveAt(a, i) = Cat(u, r)
    BY RemoveIsCut
  <1> HIDE DEF c
  <1>5. RemoveAt(c, i) = Cat(Upto(c, i - 1), Rest(c, i))
    BY <1>1, <1>c, RemoveIsCut
  <1>6. RemoveAt(c, i) = Cat(u, Cat(r, b))
    BY <1>3, <1>5
  <1> HIDE DEF u, r
  <1>7. Cat(u, Cat(r, b)) = Cat(Cat(u, r), b)
    BY <1>2, CatAssoc
  <1> QED
    BY <1>4, <1>6, <1>7 DEF c

Replaced(s, i, e) == [s EXCEPT ![i] = e]

LEMMA ReplaceInFirst ==
  ASSUME NEW S, NEW a \in Seq(S), NEW b \in Seq(S), NEW e \in S, NEW i \in 1 .. Len(a)
  PROVE  Replaced(Cat(a, b), i, e) = Cat(Replaced(a, i, e), b)
  <1> DEFINE u == Upto(a, i - 1)
             r == Rest(a, i)
             o == <<e>>
             c == Cat(a, b)
  <1>c. c \in Seq(S)
    BY CatType
  <1>l. Len(a) \in Nat /\ Len(b) \in Nat /\ Len(c) = Len(a) + Len(b)
    BY CatLen
  <1>1. i - 1 \in 0 .. Len(a) /\ i \in 0 .. Len(a) /\ i \in 1 .. Len(c)
    BY <1>l
  <1>2. u \in Seq(S) /\ r \in Seq(S) /\ o \in Seq(S)
    BY <1>1, CutIs, AppendIsCut
  <1>3. Upto(c, i - 1) = u /\ Rest(c, i) = Cat(r, b)
    BY <1>1, CutInFirst
  <1>4. [a EXCEPT ![i] = e] = Cat(Cat(u, o), r)
    BY ReplaceIsCut
  <1> HIDE DEF c
  <1>5. [c EXCEPT ![i] = e] = Cat(Cat(Upto(c, i - 1), <<e>>), Rest(c, i))
    BY <1>1, <1>c, ReplaceIsCut
  <1>6. [c EXCEPT ![i] = e] = Cat(Cat(u, o), Cat(r, b))
    BY <1>3, <1>5
  <1> HIDE DEF u, r, o
  <1>7. Cat(Cat(u, o), Cat(r, b)) = Cat(Cat(Cat(u, o), r), b)
    BY <1>2, CatType, CatAssoc
  <1> QED
    BY <1>4, <1>6, <1>7 DEF c, Replaced

LEMMA InsertInFirst ==
  ASSUME NEW S, NEW a \in Seq(S), NEW b \in Seq(S), NEW e \in S, NEW n \in 0 .. Len(a)
  PROVE  InsertAt(Cat(a, b), n + 1, e) = Cat(InsertAt(a, n + 1, e), b)
  <1> DEFINE u == Upto(a, n)
             r == Rest(a, n)
             o == <<e>>
             c == Cat(a, b)
  <1>c. c \in Seq(S)
    BY CatType
  <1>l. Len(a) \in Nat /\ Len(b) \in Nat /\ Len(c) = Len(a) + Len(b)
    BY CatLen
  <1>1. n \in 0 .. Len(c) /\ c \in Seq(S)
    BY <1>c, <1>l
  <1>2. u \in Seq(S) /\ r \in Seq(S) /\ o \in Seq(S)
    BY CutIs, AppendIsCut
  <1>3. Upto(c, n) = u /\ Rest(c, n) = Cat(r, b)
    BY CutInFirst
  <1>4. InsertAt(a, n + 1, e) = Cat(Cat(u, o), r)
    BY InsertIsCut
  <1> HIDE DEF c
  <1>5. InsertAt(c, n + 1, e) = Cat(Cat(Upto(c, n), <<e>>), Rest(c, n))
    BY <1>1, InsertIsCut
  <1>6. InsertAt(c, n + 1, e) = Cat(Cat(u, o), Cat(r, b))
    BY <1>3, <1>5
  <1> HIDE DEF u, r, o
  <1>7. Cat(Cat(u, o), Cat(r, b)) = Cat(Cat(Cat(u, o), r), b)
    BY <1>2, CatType, CatAssoc
  <1> QED
    BY <1>4, <1>6, <1>7 DEF c

LEMMA RemoveInSecond ==
  ASSUME NEW S, NEW a \in Seq(S), NEW b \in Seq(S), NEW i \in 1 .. Len(b)
  PROVE  RemoveAt(Cat(a, b), Len(a) + i) = Cat(a, RemoveAt(b, i))
  <1> DEFINE m == Len(a) + i
             u == Upto(b, i - 1)
             r == Rest(b, i)
             c == Cat(a, b)
  <1>c. c \in Seq(S)
    BY CatType
  <1>l. Len(a) \in Nat /\ Len(b) \in Nat /\ Len(c) = Len(a) + Len(b)
    BY CatLen
  <1>1. /\ i - 1 \in 0 .. Len(b) /\ i \in 0 .. Len(b)
        /\ m \in 1 .. Len(c) /\ m - 1 = Len(a) + (i - 1)
    BY <1>l
  <1>2. u \in Seq(S) /\ r \in Seq(S)
    BY <1>1, CutIs
  <1>3. Upto(c, Len(a) + (i - 1)) = Cat(a, u) /\ Rest(c, m) = r
    BY <1>1, CutInSecond
  <1>4. RemoveAt(b, i) = Cat(u, r)
    BY RemoveIsCut
  <1> HIDE DEF c, m
  <1>5. RemoveAt(c, m) = Cat(Upto(c, m - 1), Rest(c, m))
    BY <1>1, <1>c, RemoveIsCut
  <1>6. RemoveAt(c, m) = Cat(Cat(a, u), r)
    BY <1>1, <1>3, <1>5
  <1> HIDE DEF u, r
  <1>7. Cat(Cat(a, u), r) = Cat(a, Cat(u, r))
    BY <1>2, CatAssoc
  <1> QED
    BY <1>4, <1>6, <1>7 DEF c, m

LEMMA ReplaceInSecond ==
  ASSUME NEW S, NEW a \in Seq(S), NEW b \in Seq(S), NEW e \in S, NEW i \in 1 .. Len(b)
  PROVE  [Cat(a, b) EXCEPT ![Len(a) + i] = e] =
           Cat(Append(Cat(a, Upto(b, i - 1)), e), Rest(b, i))
  <1> DEFINE m == Len(a) + i
             u == Upto(b, i - 1)
             r == Rest(b, i)
             c == Cat(a, b)
             v == Cat(a, u)
  <1>c. c \in Seq(S)
    BY CatType
  <1>l. Len(a) \in Nat /\ Len(b) \in Nat /\ Len(c) = Len(a) + Len(b)
    BY CatLen
  <1>1. /\ i - 1 \in 0 .. Len(b) /\ i \in 0 .. Len(b)
        /\ m \in 1 .. Len(c) /\ m - 1 = Len(a) + (i - 1)
    BY <1>l
  <1>2. u \in Seq(S) /\ r \in Seq(S)
    BY <1>1, CutIs
  <1>3. Upto(c, Len(a) + (i - 1)) = v /\ Rest(c, m) = r
    BY <1>1, CutInSecond
  <1> HIDE DEF c, m, v
  <1>4. [c EXCEPT ![m] = e] = Cat(Cat(Upto(c, m - 1), <<e>>), Rest(c, m))
    BY <1>1, <1>c, ReplaceIsCut
  <1> HIDE DEF u, r
  <1>5. Append(v, e) = Cat(v, <<e>>)
    BY <1>2, CatType, AppendIsCut DEF v
  <1>6. [c EXCEPT ![m] = e] = Cat(Append(v, e), r)
    BY <1>1, <1>3, <1>4, <1>5 DEF u, r
  <1> QED
    BY <1>6 DEF c, m, v, u, r

LEMMA InsertInSecond ==
  ASSUME NEW S, NEW a \in Seq(S), NEW b \in Seq(S), NEW e \in S, NEW n \in 0 .. Len(b)
  PROVE  InsertAt(Cat(a, b), Len(a) + n + 1, e) = Cat(Append(Cat(a, Upto(b, n)), e), Rest(b, n))
  <1> DEFINE m == Len(a) + n
             u == Upto(b, n)
             r == Rest(b, n)
             c == Cat(a, b)
             v == Cat(a, u)
  <1>c. c \in Seq(S)
    BY CatType
  <1>l. Len(a) \in Nat /\ Len(b) \in Nat /\ Len(c) = Len(a) + Len(b)
    BY CatLen
  <1>1. c \in Seq(S) /\ m \in 0 .. Len(c)
    BY <1>c, <1>l
  <1>2. u \in Seq(S) /\ r \in Seq(S)
    BY CutIs
  <1>3. Upto(c, m) = v /\ Rest(c, m) = r
    BY CutInSecond
  <1> HIDE DEF c, m, v
  <1>4. InsertAt(c, m + 1, e) = Cat(Cat(Upto(c, m), <<e>>), Rest(c, m))
    BY <1>1, InsertIsCut
  <1> HIDE DEF u, r
  <1>5. Append(v, e) = Cat(v, <<e>>)
    BY <1>2, CatType, AppendIsCut DEF v
  <1> QED
    BY <1>3, <1>4, <1>5 DEF c, m, v, u, r
LEMMA TotalType ==
  ASSUME NEW S, NEW s \in Seq(S), NEW k
  PROVE  Places(s, k) \in SUBSET (1 .. Len(s)) /\ Total(s, k) \in Nat
  <1>1. Len(s) \in Nat /\ DOMAIN s = 1 .. Len(s)
    OBVIOUS
  <1>2. Places(s, k) \in SUBSET (1 .. Len(s))
    BY <1>1 DEF Places
  <1> QED
    BY <1>1, <1>2, FiniteOf DEF Total

LEMMA TotalCat ==
  ASSUME NEW S, NEW a \in Seq(S), NEW b \in Seq(S), NEW k
  PROVE  /\ Total(a, k) \in Nat /\ Total(b, k) \in Nat
         /\ Total(Cat(a, b), k) = Total(a, k) + Total(b, k)
  BY TotalJoined DEF Cat

LEMMA NthInFirst ==
  ASSUME NEW S, NEW a \in Seq(S), NEW b \in Seq(S), NEW k, NEW j \in 1 .. Total(a, k)
  PROVE  /\ Nth(Places(a, k), j) \in 1 .. Len(a)
         /\ Nth(Places(Cat(a, b), k), j) = Nth(Places(a, k), j)
  BY TotalJoined DEF Cat

LEMMA NthInSecond ==
  ASSUME NEW S, NEW a \in Seq(S), NEW b \in Seq(S), NEW k, NEW j \in 1 .. Total(b, k)
  PROVE  /\ Nth(Places(b, k), j) \in 1 .. Len(b)
         /\ Nth(Places(Cat(a, b), k), Total(a, k) + j) = Len(a) + Nth(Places(b, k), j)
  BY TotalJoined DEF Cat

LEMMA OthersCat ==
  ASSUME NEW S, NEW a \in Seq(S), NEW b \in Seq(S), NEW ks
  PROVE  /\ Others(a, ks) \in Seq(S) /\ Others(b, ks) \in Seq(S)
         /\ Others(Cat(a, b), ks) = Cat(Others(a, ks), Others(b, ks))
  <1>1. Others(a, ks) \in Seq(S) /\ Others(b, ks) \in Seq(S)
    BY OthersAre
  <1>2. Others(Cat(a, b), ks) = Cat(Others(a, ks), Others(b, ks))
    BY OthersJoined DEF Cat
  <1> QED
    BY <1>1, <1>2

----------------------------------------------------------------------------
(* HeaderMod.Transform on the two lists *)

LEMMA HeaderIs ==
  ASSUME NEW m \in Lists
  PROVE  /\ m.lhdrs \in Seq(Fields) /\ m.hdr \in Seq(Fields)
         /\ Header(m) = Cat(m.lhdrs, m.hdr) /\ Header(m) \in Seq(Fields)
  <1>1. m.lhdrs \in Seq(Fields) /\ m.hdr \in Seq(Fields)
    BY DEF Lists
  <1>2. Header(m) = Cat(m.lhdrs, m.hdr)
    BY DEF Header, Cat
  <1> QED
    BY <1>1, <1>2, CatType

\* Removing from the two lists removes from the whole what the index names there.
LEMMA RemoveIs ==
  ASSUME NEW m \in Lists, NEW k, NEW i \in Int, NEW h, h = Header(m),
         NEW n, n = Total(h, k), NEW p, p = Position(i, n)
  PROVE  /\ RemoveHeader(m, k, i) \in Lists
         /\ Header(RemoveHeader(m, k, i)) =
              IF i = 0 THEN Without(h, k)
              ELSE IF p \in 1 .. n THEN RemoveAt(h, Nth(Places(h, k), p)) ELSE h
  <1> DEFINE a == m.lhdrs
             b == m.hdr
             na == Total(a, k)
             nb == Total(b, k)
             r == RemoveHeader(m, k, i)
  <1>1. a \in Seq(Fields) /\ b \in Seq(Fields) /\ h = Cat(a, b) /\ m = [lhdrs |-> a, hdr |-> b]
    BY HeaderIs DEF Lists
  <1>2. na \in Nat /\ nb \in Nat /\ n = na + nb
    BY <1>1, TotalCat
  <1>3. p \in Int
    BY <1>2 DEF Position
  <1>4. r = IF i = 0 THEN [lhdrs |-> Without(a, k), hdr |-> Without(b, k)]
            ELSE IF p \notin 1 .. n THEN m
            ELSE IF p <= na THEN [m EXCEPT !.lhdrs = RemoveAt(a, Nth(Places(a, k), p))]
            ELSE [m EXCEPT !.hdr = RemoveAt(b, Nth(Places(b, k), p - na))]
    BY <1>2 DEF RemoveHeader
  <1> HIDE DEF a, b, na, nb, r
  <1>5. CASE i = 0
    <2>1. r = [lhdrs |-> Without(a, k), hdr |-> Without(b, k)]
      BY <1>4, <1>5
    <2>2. /\ Without(a, k) \in Seq(Fields) /\ Without(b, k) \in Seq(Fields)
          /\ Without(h, k) = Cat(Without(a, k), Without(b, k))
      BY <1>1, OthersCat DEF Without
    <2>3. r \in Lists
      BY <2>1, <2>2 DEF Lists
    <2>4. Header(r) = Without(h, k)
      BY <2>1, <2>2 DEF Header, Cat
    <2> QED
      BY <1>5, <2>3, <2>4 DEF r
  <1>6. CASE i # 0 /\ p \notin 1 .. n
    BY <1>4, <1>6 DEF r
  <1>7. CASE i # 0 /\ p \in 1 .. n /\ p <= na
    <2> DEFINE q == Nth(Places(a, k), p)
    <2>1. p \in 1 .. na
      BY <1>2, <1>7
    <2>2. q \in 1 .. Len(a) /\ Nth(Places(h, k), p) = q
      BY <1>1, <2>1, NthInFirst DEF na
    <2>3. r = [lhdrs |-> RemoveAt(a, q), hdr |-> b]
      BY <1>1, <1>4, <1>7
    <2> HIDE DEF q
    <2>4. RemoveAt(a, q) \in Seq(Fields) /\ RemoveAt(h, q) = Cat(RemoveAt(a, q), b)
      BY <1>1, <2>2, RemoveType, RemoveInFirst
    <2>6. r \in Lists /\ Header(r) = RemoveAt(h, q)
      BY <1>1, <2>3, <2>4 DEF Lists, Header, Cat
    <2> QED
      BY <1>7, <2>2, <2>6 DEF r
  <1>8. CASE i # 0 /\ p \in 1 .. n /\ ~(p <= na)
    <2> DEFINE j == p - na
               q == Nth(Places(b, k), j)
    <2>1. j \in 1 .. nb /\ na + j = p
      BY <1>2, <1>8
    <2>2. r = [lhdrs |-> a, hdr |-> RemoveAt(b, q)]
      BY <1>1, <1>4, <1>8
    <2> HIDE DEF j
    <2>3. q \in 1 .. Len(b) /\ Nth(Places(h, k), p) = Len(a) + q
      BY <1>1, <2>1, NthInSecond DEF na, nb
    <2> HIDE DEF q
    <2>4. RemoveAt(b, q) \in Seq(Fields) /\ RemoveAt(h, Len(a) + q) = Cat(a, RemoveAt(b, q))
      BY <1>1, <2>3, RemoveType, RemoveInSecond
    <2>6. r \in Lists /\ Header(r) = RemoveAt(h, Len(a) + q)
      BY <1>1, <2>2, <2>4 DEF Lists, Header, Cat
    <2> QED
      BY <1>8, <2>3, <2>6 DEF r
  <1> QED
    BY <1>5, <1>6, <1>7, <1>8

\* Where mailInsertHeader puts a field among n.
At(n, i) == LET j == IF i < 0 THEN i + n ELSE i IN IF j < 0 \/ j > n THEN n ELSE j

LEMMA AtIs == ASSUME NEW n \in Nat, NEW i \in Int PROVE At(n, i) \in 0 .. n
  BY DEF At

\* Moving fields behind lhdrs leaves the whole as it is.
LEMMA MovedIs ==
  ASSUME NEW m \in Lists, NEW n \in 0 .. Len(m.hdr)
  PROVE  Moved(m, n) \in Lists /\ Header(Moved(m, n)) = Header(m)
  <1> DEFINE a == m.lhdrs
             b == m.hdr
             u == Upto(b, n)
             r == Rest(b, n)
  <1>1. a \in Seq(Fields) /\ b \in Seq(Fields) /\ Header(m) = Cat(a, b)
    BY HeaderIs
  <1>2. u \in Seq(Fields) /\ r \in Seq(Fields)
    BY <1>1, CutIs
  <1>3. Cat(u, r) = b
    <2>1. Len(b) \in Nat /\ n \in 0 .. Len(b)
      BY <1>1, LenProperties
    <2>2. b = SubSeq(b, 1, Len(b))
      BY <1>1, SubSeqFull
    <2>3. SubSeq(b, 1, n) \o SubSeq(b, n + 1, Len(b)) = SubSeq(b, 1, Len(b))
      <3>1. 1 \in 1 .. Len(b) + 1 /\ n \in 1 - 1 .. Len(b) /\ Len(b) \in n .. Len(b)
        BY <2>1
      <3> HIDE DEF b
      <3> QED
        BY <1>1, <3>1, ConcatAdjacentSubSeq
    <2> QED
      BY <2>2, <2>3 DEF Cat, Upto, Rest
  <1>4. Moved(m, n) = [lhdrs |-> Cat(a, u), hdr |-> r]
    BY DEF Moved, Cat
  <1> HIDE DEF a, b, u, r
  <1>5. Header(Moved(m, n)) = Cat(Cat(a, u), r)
    BY <1>4 DEF Header, Cat
  <1>6. Cat(Cat(a, u), r) = Cat(a, Cat(u, r))
    BY <1>1, <1>2, CatAssoc
  <1>7. Moved(m, n) \in Lists
    BY <1>1, <1>2, <1>4, CatType DEF Lists
  <1> QED
    BY <1>1, <1>3, <1>5, <1>6, <1>7

\* Inserting in one of the two lists inserts at that place of the whole.
LEMMA InsertIs ==
  ASSUME NEW m \in Lists, NEW f \in Fields, NEW i \in Int, NEW h, h = Header(m),
         NEW p, p = At(Len(h), i)
  PROVE  /\ InsertHeader(m, f, i) \in Lists /\ p \in 0 .. Len(h)
         /\ Header(InsertHeader(m, f, i)) = InsertAt(h, p + 1, f)
  <1> DEFINE a == m.lhdrs
             b == m.hdr
             r == InsertHeader(m, f, i)
             la == Len(a)
             lb == Len(b)
  <1>1. /\ a \in Seq(Fields) /\ b \in Seq(Fields) /\ h = Cat(a, b) /\ h \in Seq(Fields)
        /\ m = [lhdrs |-> a, hdr |-> b]
    BY HeaderIs DEF Lists
  <1>2. la \in Nat /\ lb \in Nat /\ Len(h) = la + lb
    BY <1>1, CatLen
  <1>3. p \in 0 .. Len(h)
    <2>1. Len(h) \in Nat
      BY <1>1, LenProperties
    <2> QED
      BY <2>1, AtIs
  <1>4. r = IF p >= la
            THEN [Moved(m, p - la) EXCEPT !.lhdrs = Append(@, f)]
            ELSE [m EXCEPT !.lhdrs = InsertAt(a, p + 1, f)]
    BY DEF InsertHeader, At
  <1> HIDE DEF a, b, la, lb, r
  <1>5. CASE p >= la
    <2> DEFINE n == p - la
               u == Upto(b, n)
               t == Rest(b, n)
               v == Append(Cat(a, u), f)
    <2>1. n \in 0 .. Len(b) /\ la + n = p
      BY <1>2, <1>3, <1>5 DEF lb
    <2>2. Moved(m, n) = [lhdrs |-> Cat(a, u), hdr |-> t]
      BY DEF Moved, Cat, a, b
    <2>3. r = [lhdrs |-> v, hdr |-> t]
      <3>1. r = [Moved(m, n) EXCEPT !.lhdrs = Append(@, f)]
        BY <1>4, <1>5
      <3> HIDE DEF n, u, t
      <3> QED
        BY <2>2, <3>1
    <2> HIDE DEF n
    <2>4. u \in Seq(Fields) /\ t \in Seq(Fields)
      BY <1>1, <2>1, CutIs
    <2>5. v \in Seq(Fields)
      BY <1>1, <2>4, CatType, AppendProperties
    <2>6. InsertAt(h, la + n + 1, f) = Cat(v, t)
      BY <1>1, <2>1, InsertInSecond DEF la
    <2>7. r \in Lists /\ Header(r) = Cat(v, t)
      BY <2>3, <2>4, <2>5 DEF Lists, Header, Cat
    <2> QED
      BY <1>3, <2>1, <2>6, <2>7 DEF r
  <1>6. CASE ~(p >= la)
    <2> DEFINE v == InsertAt(a, p + 1, f)
    <2>1. p \in 0 .. Len(a)
      BY <1>2, <1>3, <1>6 DEF la
    <2>2. r = [lhdrs |-> v, hdr |-> b]
      BY <1>1, <1>4, <1>6
    <2>3. InsertAt(h, p + 1, f) = Cat(v, b)
      BY <1>1, <2>1, InsertInFirst
    <2>4. v \in Seq(Fields)
      <3>1. /\ Upto(a, p) \in Seq(Fields) /\ <<f>> \in Seq(Fields) /\ Rest(a, p) \in Seq(Fields)
            /\ v = Cat(Cat(Upto(a, p), <<f>>), Rest(a, p))
        BY <1>1, <2>1, CutIs, AppendIsCut, InsertIsCut
      <3>2. Cat(Upto(a, p), <<f>>) \in Seq(Fields)
        BY <3>1, CatType
      <3>3. Cat(Cat(Upto(a, p), <<f>>), Rest(a, p)) \in Seq(Fields)
        BY <3>1, <3>2, CatType
      <3> QED
        BY <3>1, <3>3
    <2> HIDE DEF v
    <2>5. r \in Lists /\ Header(r) = Cat(v, b)
      BY <1>1, <2>2, <2>4 DEF Lists, Header, Cat
    <2> QED
      BY <1>3, <2>3, <2>5 DEF r, v
  <1> QED
    BY <1>5, <1>6

\* Adding is inserting behind the last.
LEMMA AddIs ==
  ASSUME NEW m \in Lists, NEW f \in Fields
  PROVE  AddHeader(m, f) \in Lists /\ Header(AddHeader(m, f)) = Append(Header(m), f)
  <1> DEFINE h == Header(m)
             n == Len(h)
  <1>1. h \in Seq(Fields) /\ n \in Nat
    BY HeaderIs, LenProperties
  <1>2. n = At(n, n) /\ n \in Int
    BY <1>1 DEF At
  <1>3. AddHeader(m, f) = InsertHeader(m, f, n)
    BY DEF AddHeader
  <1> HIDE DEF h, n
  <1>4. AddHeader(m, f) \in Lists /\ Header(AddHeader(m, f)) = InsertAt(h, n + 1, f)
    <2>1. h = Header(m) /\ n = At(Len(h), n)
      BY <1>2 DEF h, n
    <2>2. InsertHeader(m, f, n) \in Lists /\ Header(InsertHeader(m, f, n)) = InsertAt(h, n + 1, f)
      BY <1>2, <2>1, InsertIs
    <2> QED
      BY <1>3, <2>2
  <1>5. InsertAt(h, n + 1, f) = Append(h, f)
    <2>1. n \in 0 .. Len(h) /\ Len(h) = n
      BY <1>1 DEF n
    <2>2. InsertAt(h, n + 1, f) = Cat(Cat(Upto(h, n), <<f>>), Rest(h, n))
      BY <1>1, <2>1, InsertIsCut
    <2>3. Upto(h, n) = h
      BY <1>1, <2>1, SubSeqFull DEF Upto
    <2>4. Rest(h, n) = <<>>
      <3>1. n + 1 \in Int /\ n \in Int /\ n < n + 1
        BY <1>1
      <3> QED
        BY <2>1, <3>1, SubSeqEmpty DEF Rest
    <2>5. Append(h, f) = Cat(h, <<f>>) /\ <<f>> \in Seq(Fields)
      BY <1>1, AppendIsCut
    <2>6. Cat(Cat(h, <<f>>), <<>>) = Cat(h, <<f>>)
      <3> DEFINE v == Cat(h, <<f>>)
      <3>1. v \in Seq(Fields)
        BY <1>1, <2>5, CatType
      <3> HIDE DEF v
      <3>2. Cat(v, <<>>) = v
        BY <3>1, ConcatEmptySeq DEF Cat
      <3> QED
        BY <3>2 DEF v
    <2> QED
      BY <2>2, <2>3, <2>4, <2>5, <2>6
  <1> QED
    BY <1>4, <1>5 DEF h

\* Replacing in the two lists replaces in the whole what the index names there;
\* when it names nothing the field is added or nothing happens.
LEMMA ChangeIs ==
  ASSUME NEW m \in Lists, NEW f \in Fields, NEW i \in Nat \ {0}, NEW h, h = Header(m),
         NEW n, n = Total(h, f.key)
  PROVE  /\ ChangeHeader(m, f, i) \in Lists
         /\ i \in 1 .. n =>
              Header(ChangeHeader(m, f, i)) = [h EXCEPT ![Nth(Places(h, f.key), i)] = f]
         /\ i \notin 1 .. n => Header(ChangeHeader(m, f, i)) \in {h, Append(h, f)}
  <1> DEFINE a == m.lhdrs
             b == m.hdr
             k == f.key
             na == Total(a, k)
             nb == Total(b, k)
             j == i - na
             q == Nth(Places(b, k), j)
             r == ChangeHeader(m, f, i)
  <1>1. /\ a \in Seq(Fields) /\ b \in Seq(Fields) /\ h = Cat(a, b) /\ h \in Seq(Fields)
        /\ m = [lhdrs |-> a, hdr |-> b]
    BY HeaderIs DEF Lists
  <1>2. na \in Nat /\ nb \in Nat /\ n = na + nb
    BY <1>1, TotalCat
  <1>3. r = IF j <= 0 THEN [m EXCEPT !.lhdrs[Nth(Places(a, k), i)] = f]
            ELSE IF ~Has(b, k) THEN AddHeader(m, f)
            ELSE IF j > nb THEN Moved(m, Len(b))
            ELSE [lhdrs |-> Append(a \o Upto(b, q - 1), f), hdr |-> Rest(b, q)]
    BY DEF ChangeHeader
  <1>4. j \in Int /\ na + j = i
    BY <1>2
  <1>5. ~Has(b, k) => nb = 0
    BY FS_EmptySet DEF Has, Total
  <1> HIDE DEF a, b, k, na, nb, j, q, r
  <1>6. CASE j <= 0
    <2> DEFINE x == Nth(Places(a, k), i)
    <2>1. i \in 1 .. na /\ i \in 1 .. n
      BY <1>2, <1>4, <1>6
    <2>2. x \in 1 .. Len(a) /\ Nth(Places(h, k), i) = x
      BY <1>1, <2>1, NthInFirst DEF na
    <2>3. r = [lhdrs |-> [a EXCEPT ![x] = f], hdr |-> b]
      BY <1>1, <1>3, <1>6
    <2> HIDE DEF x
    <2>4. [a EXCEPT ![x] = f] \in Seq(Fields)
      BY <1>1, <2>2, ExceptSeq
    <2>5. [h EXCEPT ![x] = f] = Cat([a EXCEPT ![x] = f], b)
      <3>1. a \in Seq(Fields) /\ b \in Seq(Fields) /\ f \in Fields /\ x \in 1 .. Len(a)
        BY <1>1, <2>2
      <3>2. Replaced(Cat(a, b), x, f) = Cat(Replaced(a, x, f), b)
        BY <3>1, ReplaceInFirst
      <3> QED
        BY <1>1, <3>2 DEF Replaced
    <2>6. r \in Lists /\ Header(r) = [h EXCEPT ![x] = f]
      BY <1>1, <2>3, <2>4, <2>5 DEF Lists, Header, Cat
    <2> QED
      BY <2>1, <2>2, <2>6 DEF r, k
  <1>7. CASE j > 0 /\ ~Has(b, k)
    <2>1. i \notin 1 .. n
      BY <1>2, <1>4, <1>5, <1>7
    <2>2. r = AddHeader(m, f)
      BY <1>3, <1>4, <1>7
    <2>3. r \in Lists /\ Header(r) = Append(h, f)
      BY <2>2, AddIs
    <2> QED
      BY <2>1, <2>3 DEF r
  <1>8. CASE j > nb /\ Has(b, k)
    <2>1. i \notin 1 .. n /\ ~(j <= 0)
      BY <1>2, <1>4, <1>8
    <2>2. r = Moved(m, Len(b))
      BY <1>3, <1>8, <2>1
    <2>3. Len(m.hdr) \in 0 .. Len(m.hdr)
      BY <1>1, LenProperties DEF b
    <2>4. r \in Lists /\ Header(r) = h
      BY <2>2, <2>3, MovedIs DEF b
    <2> QED
      BY <2>1, <2>4 DEF r
  <1>9. CASE j > 0 /\ ~(j > nb) /\ Has(b, k)
    <2> DEFINE u == Upto(b, q - 1)
               t == Rest(b, q)
               v == Append(Cat(a, u), f)
    <2>1. j \in 1 .. nb /\ i \in 1 .. n /\ ~(j <= 0)
      BY <1>2, <1>4, <1>9
    <2>2. q \in 1 .. Len(b) /\ Nth(Places(h, k), i) = Len(a) + q
      <3>1. q \in 1 .. Len(b) /\ Nth(Places(Cat(a, b), k), na + j) = Len(a) + q
        BY <1>1, <2>1, NthInSecond DEF na, nb, q
      <3> QED
        BY <1>1, <1>4, <3>1
    <2>3. r = [lhdrs |-> v, hdr |-> t]
      BY <1>3, <1>9, <2>1 DEF Cat
    <2>4. u \in Seq(Fields) /\ t \in Seq(Fields)
      BY <1>1, <2>2, RemoveType
    <2>5. [h EXCEPT ![Len(a) + q] = f] = Cat(v, t)
      BY <1>1, <2>2, ReplaceInSecond
    <2> HIDE DEF u, t
    <2>6. v \in Seq(Fields)
      BY <1>1, <2>4, CatType, AppendProperties
    <2>7. r \in Lists /\ Header(r) = [h EXCEPT ![Len(a) + q] = f]
      BY <2>3, <2>4, <2>5, <2>6 DEF Lists, Header, Cat
    <2> QED
      BY <2>1, <2>2, <2>7 DEF r, k
  <1> QED
    BY <1>2, <1>4, <1>6, <1>7, <1>8, <1>9

ModTypes == ModsOf({"remove", "change", "add", "insert"})

\* Every modification that is not refused does to the whole header what is
\* documented, however the header is split (HeaderMod.Transform).
THEOREM TransformAsDocumented ==
  ASSUME NEW m \in Lists, NEW op \in ModTypes, ~Refused(op)
  PROVE  Transform(m, op) \in Lists /\ Header(Transform(m, op)) \in Documented(Header(m), op)
  <1> DEFINE h == Header(m)
             f == Field(op.key, op.value)
             n == Total(h, op.key)
             r == Transform(m, op)
  <1>1. /\ op.op \in {"remove", "change", "add", "insert"} /\ op.index \in Int
        /\ f \in Fields /\ f.key = op.key
    BY DEF ModTypes, ModsOf, Field, Fields
  <1>2. h \in Seq(Fields) /\ Len(h) \in Nat
    BY HeaderIs, LenProperties
  <1>3. CASE op.op = "remove"
    <2> DEFINE p == Position(op.index, n)
               i == IF op.index > 0 THEN op.index ELSE n + 1 + op.index
    <2>1. r = RemoveHeader(m, op.key, op.index)
      BY <1>3 DEF Transform
    <2>2. /\ r \in Lists
          /\ Header(r) = IF op.index = 0 THEN Without(h, op.key)
                         ELSE IF p \in 1 .. n THEN RemoveAt(h, Nth(Places(h, op.key), p)) ELSE h
      BY <1>1, <2>1, RemoveIs
    <2>3. n \in Nat
      BY <1>2, TotalType
    <2>4. p = i
      BY <1>1, <2>3 DEF Position
    <2>5. Documented(h, op) =
            IF op.index = 0 THEN {Without(h, op.key)}
            ELSE IF i \in 1 .. n THEN {RemoveAt(h, Nth(Places(h, op.key), i))} ELSE {h}
      BY <1>3 DEF Documented
    <2> HIDE DEF p, i, n, h, r
    <2> QED
      BY <2>2, <2>4, <2>5 DEF h, r
  <1>4. CASE op.op = "change"
    <2>1. r = ChangeHeader(m, f, op.index)
      BY <1>4 DEF Transform
    <2>2. op.index \in Nat \ {0} /\ op.index > 0
      BY <1>1, <1>4 DEF Refused
    <2>3. /\ r \in Lists
          /\ op.index \in 1 .. n => Header(r) = [h EXCEPT ![Nth(Places(h, op.key), op.index)] = f]
          /\ op.index \notin 1 .. n => Header(r) \in {h, Append(h, f)}
      BY <1>1, <2>1, <2>2, ChangeIs
    <2>4. Documented(h, op) =
            IF op.index \in 1 .. n THEN {[h EXCEPT ![Nth(Places(h, op.key), op.index)] = f]}
            ELSE {h, Append(h, f)}
      BY <1>4, <2>2 DEF Documented
    <2> HIDE DEF n, h, r, f
    <2> QED
      BY <2>3, <2>4 DEF h, r
  <1>5. CASE op.op = "add"
    <2>1. r = AddHeader(m, f) /\ Documented(h, op) = {Append(h, f)}
      BY <1>5 DEF Transform, Documented
    <2> QED
      BY <1>1, <2>1, AddIs
  <1>6. CASE op.op = "insert"
    <2> DEFINE p == At(Len(h), op.index)
               d == IF op.index \in 0 .. Len(h) THEN op.index
                    ELSE IF -op.index \in 1 .. Len(h) THEN Len(h) + op.index ELSE Len(h)
    <2>1. r = InsertHeader(m, f, op.index) /\ Documented(h, op) = {InsertAt(h, d + 1, f)}
      BY <1>6 DEF Transform, Documented
    <2>2. r \in Lists /\ Header(r) = InsertAt(h, p + 1, f)
      <3> DEFINE i == op.index
                 g == f
      <3>1. h = Header(m) /\ p = At(Len(h), i) /\ i \in Int /\ g \in Fields
        BY <1>1
      <3> HIDE DEF p, h, r, i, g
      <3>a. InsertHeader(m, g, i) \in Lists
        BY <3>1, InsertIs
      <3>b. Header(InsertHeader(m, g, i)) = InsertAt(h, p + 1, g)
        BY <3>1, InsertIs
      <3>2. /\ InsertHeader(m, f, op.index) \in Lists
            /\ Header(InsertHeader(m, f, op.index)) = InsertAt(h, p + 1, f)
        BY <3>a, <3>b DEF i, g
      <3> QED
        BY <2>1, <3>2
    <2>3. p = d
      BY <1>1, <1>2 DEF At
    <2> HIDE DEF p, d, h, r
    <2> QED
      BY <2>1, <2>2, <2>3 DEF h, r
  <1> QED
    BY <1>1, <1>3, <1>4, <1>5, <1>6
----------------------------------------------------------------------------
(* Types *)

LEMMA OursIs == \A x \in Ours : x \in Text
  BY HeaderModsConstants

LEMMA FieldType == ASSUME NEW k \in Text, NEW v \in Text PROVE Field(k, v) \in Fields
  BY DEF Field, Fields

LEMMA OneType == ASSUME NEW S, NEW e \in S PROVE <<e>> \in Seq(S)
  OBVIOUS

LEMMA SetFieldIs ==
  ASSUME NEW s \in Seq(Fields), NEW k \in Text, NEW v \in Text
  PROVE  /\ <<Field(k, v)>> \in Seq(Fields) /\ Without(s, k) \in Seq(Fields)
         /\ SetField(s, k, v) = Cat(<<Field(k, v)>>, Without(s, k))
         /\ SetField(s, k, v) \in Seq(Fields)
  <1>1. Field(k, v) \in Fields
    BY FieldType
  <1>2. <<Field(k, v)>> \in Seq(Fields)
    BY <1>1, OneType
  <1>3. Without(s, k) \in Seq(Fields)
    BY OthersAre DEF Without
  <1>4. SetField(s, k, v) = Cat(<<Field(k, v)>>, Without(s, k))
    BY DEF SetField, Cat
  <1> QED
    BY <1>2, <1>3, <1>4, CatType

\* The scan's removals, on the two lists and on the whole.
LEMMA RemovalsAre ==
  ASSUME NEW m \in Lists, NEW ks
  PROVE  Removals(m, ks) \in Lists /\ Header(Removals(m, ks)) = Others(Header(m), ks)
  <1> DEFINE a == m.lhdrs
             b == m.hdr
  <1>1. a \in Seq(Fields) /\ b \in Seq(Fields) /\ Header(m) = Cat(a, b)
    BY HeaderIs
  <1>2. Removals(m, ks) = [lhdrs |-> Others(a, ks), hdr |-> Others(b, ks)]
    BY DEF Removals
  <1> HIDE DEF a, b
  <1>3. /\ Others(a, ks) \in Seq(Fields) /\ Others(b, ks) \in Seq(Fields)
        /\ Others(Cat(a, b), ks) = Cat(Others(a, ks), Others(b, ks))
    BY <1>1, OthersCat
  <1> QED
    BY <1>1, <1>2, <1>3 DEF Lists, Header, Cat

LEMMA MarkSpamIs ==
  ASSUME NEW m \in Lists, NEW v \in Text
  PROVE  /\ MarkSpam(m, v) \in Lists
         /\ Header(MarkSpam(m, v)) = Append(Without(Header(m), "X-Spam"), Field("X-Spam", v))
  <1> DEFINE k == "X-Spam"
             i == 0
             f == Field(k, v)
             r == RemoveHeader(m, k, i)
             h == Header(m)
             n == Total(h, k)
             p == Position(i, n)
  <1>0. f \in Fields
    <2>1. k \in Text
      BY OursIs DEF Ours
    <2> HIDE DEF k
    <2> QED
      BY <2>1, FieldType
  <1>1. i = 0 /\ i \in Int /\ h = Header(m) /\ n = Total(h, k) /\ p = Position(i, n)
    OBVIOUS
  <1>2. MarkSpam(m, v) = AddHeader(r, f)
    BY DEF MarkSpam, Mark
  <1> HIDE DEF k, i, f, h, n, p
  <1>3. r \in Lists
    BY <1>1, RemoveIs
  <1>4. Header(r) = IF i = 0 THEN Without(h, k)
                    ELSE IF p \in 1 .. n THEN RemoveAt(h, Nth(Places(h, k), p)) ELSE h
    BY <1>1, RemoveIs
  <1> HIDE DEF r
  <1>5. AddHeader(r, f) \in Lists /\ Header(AddHeader(r, f)) = Append(Header(r), f)
    BY <1>0, <1>3, AddIs
  <1> QED
    BY <1>1, <1>2, <1>4, <1>5 DEF f, k, h

LEMMA ScanTypes ==
  /\ \A op \in Mods : op \in ModTypes
  /\ \A S \in SUBSET ModsOf({"add", "insert"}) : S \subseteq ModTypes
  /\ \A r \in Scans : r.add \in SUBSET ModsOf({"add", "insert"}) /\ r.spam \in BOOLEAN
  /\ Recipient \in Text \union {None} /\ None \notin Text
  BY HeaderModsConstants DEF ModTypes, ModsOf
\* What is put in front of the whole before it is written.
LEMMA FrontIs ==
  ASSUME NEW m \in Lists, NEW f \in Fields
  PROVE  /\ InsertHeader(m, f, 0) \in Lists /\ <<f>> \in Seq(Fields)
         /\ Header(InsertHeader(m, f, 0)) = Cat(<<f>>, Header(m))
  <1> DEFINE h == Header(m)
             i == 0
             p == At(Len(h), i)
             r == InsertHeader(m, f, i)
  <1>1. h \in Seq(Fields) /\ Len(h) \in Nat
    BY HeaderIs, LenProperties
  <1>2. p = 0
    BY <1>1 DEF At
  <1>i. h = Header(m) /\ i \in Int /\ p = At(Len(h), i)
    OBVIOUS
  <1> HIDE DEF h, i, p, r
  <1>a. InsertHeader(m, f, i) \in Lists
    BY <1>i, InsertIs
  <1>b. Header(InsertHeader(m, f, i)) = InsertAt(h, p + 1, f)
    BY <1>i, InsertIs
  <1>3. InsertAt(h, p + 1, f) = Cat(Cat(Upto(h, p), <<f>>), Rest(h, p))
    <2>1. p \in 0 .. Len(h)
      BY <1>1, <1>2
    <2> QED
      BY <1>1, <2>1, InsertIsCut
  <1>4. Upto(h, 0) = <<>>
    BY <1>1, SubSeqEmpty DEF Upto
  <1>5. Rest(h, 0) = h
    BY <1>1, SubSeqFull DEF Rest
  <1>6. <<f>> \in Seq(Fields)
    BY OneType
  <1> DEFINE g == <<f>>
  <1> HIDE DEF g
  <1>7. Cat(<<>>, g) = g
    BY <1>6, ConcatEmptySeq DEF Cat, g
  <1>8. InsertAt(h, p + 1, f) = Cat(g, h)
    BY <1>2, <1>3, <1>4, <1>5, <1>7 DEF g
  <1> QED
    BY <1>a, <1>b, <1>6, <1>8 DEF h, i, g

\* Originals: the recipient and the sender's return path in front, if there are any.
LEMMA OriginalsAre ==
  ASSUME mail \in Lists, return \in Text \union {None}
  PROVE  /\ Originals \in Lists
         /\ return # None => \E s \in Seq(Fields) :
              Header(Originals) = Cat(<<Field("X-Original-Return-Path", return)>>, s)
  <1> DEFINE to == IF Recipient = None THEN mail
                   ELSE InsertHeader(mail, Field("X-Original-To", Recipient), 0)
             f == Field("X-Original-Return-Path", return)
  <1>1. to \in Lists
    <2>1. CASE Recipient = None
      BY <2>1
    <2>2. CASE Recipient # None
      <3>1. Field("X-Original-To", Recipient) \in Fields
        BY <2>2, ScanTypes, OursIs DEF Field, Fields, Ours
      <3> QED
        BY <2>2, <3>1, FrontIs
    <2> QED
      BY <2>1, <2>2
  <1>2. Originals = IF return = None THEN to ELSE InsertHeader(to, f, 0)
    BY DEF Originals
  <1> HIDE DEF to
  <1>3. CASE return = None
    BY <1>1, <1>2, <1>3
  <1>4. CASE return # None
    <2>1. f \in Fields
      BY <1>4, OursIs DEF Field, Fields, Ours
    <2> HIDE DEF f
    <2>2. InsertHeader(to, f, 0) \in Lists /\ Header(InsertHeader(to, f, 0)) = Cat(<<f>>, Header(to))
      BY <1>1, <2>1, FrontIs
    <2>3. Header(to) \in Seq(Fields)
      BY <1>1, HeaderIs
    <2> QED
      BY <1>2, <1>4, <2>2, <2>3 DEF f
  <1> QED
    BY <1>3, <1>4

\* The lists stay lists of fields, the fields that are to be added what rspamd asked
\* for, and the goroutine is in one of its five places, whatever the modifications.
THEOREM TypeCorrect == Spec => []TypeOK
  <1>0. MaxMods \in Nat
    BY HeaderModsConstants
  <1>1. Init => TypeOK
    <2> SUFFICES ASSUME Init PROVE TypeOK
      OBVIOUS
    <2>1. PICK s \in Mails : mail = [lhdrs |-> <<>>, hdr |-> s]
      BY DEF Init
    <2>2. s \in Seq(Fields) /\ <<>> \in Seq(Fields)
      BY HeaderModsConstants
    <2>3. mail \in Lists
      BY <2>1, <2>2 DEF Lists
    <2>4. count \in 0..MaxMods
      BY <1>0 DEF Init
    <2>5. todo \in SUBSET ModsOf({"add", "insert"}) /\ spam \in BOOLEAN
      BY DEF Init
    <2> QED
      BY <2>3, <2>4, <2>5 DEF Init, TypeOK
  <1>2. TypeOK /\ [Next]_vars => TypeOK'
    <2> SUFFICES ASSUME TypeOK, [Next]_vars PROVE TypeOK'
      OBVIOUS
    <2>1. CASE Prepare
      <3> DEFINE h == mail.hdr
                 g == <<Field("Received", "sesrcvr")>>
                 k == "Return-Path"
                 w == Without(h, k)
                 ps == Places(h, k)
      <3>1. h \in Seq(Fields) /\ mail.lhdrs \in Seq(Fields)
        BY DEF TypeOK, Lists
      <3>2. w \in Seq(Fields)
        BY <3>1, OthersAre DEF Without
      <3>3. g \in Seq(Fields)
        <4>1. Field("Received", "sesrcvr") \in Fields
          BY OursIs DEF Field, Fields, Ours
        <4> QED
          BY <4>1, OneType
      <3>4. mail' = [mail EXCEPT !.hdr = g \o w]
        BY <2>1 DEF Prepare
      <3>5. return' \in Text \union {None}
        <4>1. return' = IF ~Has(h, k) THEN None ELSE h[Nth(ps, 1)].value
          BY <2>1 DEF Prepare
        <4> HIDE DEF h, k
        <4>2. CASE Has(h, k)
          <5>1. ps \in SUBSET (1 .. Len(h)) /\ Total(h, k) \in Nat /\ Len(h) \in Nat
            BY <3>1, TotalType, LenProperties
          <5>2. Total(h, k) # 0
            <6>1. IsFiniteSet(ps) /\ ps # {}
              BY <4>2, <5>1, FiniteOf DEF Has
            <6> QED
              BY <6>1, FS_EmptySet DEF Total
          <5>3. 1 \in 1 .. Cardinality(ps)
            BY <5>1, <5>2 DEF Total
          <5>4. Nth(ps, 1) \in ps
            BY <5>1, <5>3, NthIs
          <5>5. h[Nth(ps, 1)] \in Fields
            BY <3>1, <5>1, <5>4, ElementOfSeq
          <5> QED
            BY <4>1, <4>2, <5>5 DEF Fields
        <4> QED
          BY <4>1, <4>2
      <3> HIDE DEF h, g, k, w
      <3>6. g \o w \in Seq(Fields)
        BY <3>2, <3>3, ConcatProperties
      <3> DEFINE c == g \o w
      <3> HIDE DEF c
      <3>7. mail' = [mail EXCEPT !.hdr = c] /\ c \in Seq(Fields)
        BY <3>4, <3>6 DEF c
      <3>8. mail' \in Lists
        BY <3>7 DEF TypeOK, Lists
      <3> QED
        BY <2>1, <3>5, <3>8 DEF Prepare, TypeOK
    <2>2. CASE Verdict
      <3>1. mail' = IF spam THEN MarkSpam(mail, "Yes") ELSE mail
        BY <2>2 DEF Verdict
      <3>2. mail' \in Lists
        <4>1. "Yes" \in Text
          BY OursIs DEF Ours
        <4> QED
          BY <3>1, <4>1, MarkSpamIs DEF TypeOK
      <3> QED
        BY <2>2, <3>2 DEF Verdict, TypeOK
    <2>3. CASE Refuse
      BY <2>3 DEF Refuse, TypeOK
    <2>4. CASE Write
      <3> DEFINE all == Header(Originals)
                 mime == IF Has(all, "Mime-Version") THEN all
                         ELSE SetField(all, "Mime-Version", "1.0")
                 out == SetField(mime, "Return-Path", "<>")
      <3>1. Originals \in Lists
        BY OriginalsAre DEF TypeOK
      <3>2. all \in Seq(Fields)
        BY <3>1, HeaderIs
      <3> HIDE DEF all
      <3>3. mime \in Seq(Fields)
        <4>1. SetField(all, "Mime-Version", "1.0") \in Seq(Fields)
          <5>1. "Mime-Version" \in Text /\ "1.0" \in Text
            BY OursIs DEF Ours
          <5> QED
            BY <3>2, <5>1, SetFieldIs
        <4> QED
          BY <3>2, <4>1
      <3> HIDE DEF mime
      <3>4. out \in Seq(Fields)
        <4>1. "Return-Path" \in Text /\ "<>" \in Text
          BY OursIs DEF Ours
        <4> QED
          BY <3>3, <4>1, SetFieldIs
      <3>5. mail' = [lhdrs |-> <<>>, hdr |-> out]
        BY <2>4 DEF Write, all, mime
      <3>6. mail' \in Lists
        BY <3>4, <3>5 DEF Lists
      <3> QED
        BY <2>4, <3>6 DEF Write, TypeOK
    <2>5. CASE \E op \in Mods : Modify(op)
      <3>1. PICK op \in Mods : Modify(op)
        BY <2>5
      <3>2. mail' \in Lists
        <4>1. op \in ModTypes /\ ~Refused(op) /\ mail' = Transform(mail, op)
          BY <3>1, ScanTypes DEF Modify
        <4> QED
          BY <4>1, TransformAsDocumented DEF TypeOK
      <3> QED
        BY <1>0, <3>1, <3>2 DEF Modify, TypeOK
    <2>6. CASE \E r \in Scans : Scan(r)
      <3>1. PICK r \in Scans : Scan(r)
        BY <2>6
      <3>2. mail' \in Lists
        BY <3>1, RemovalsAre DEF Scan, TypeOK
      <3>3. r.add \in SUBSET ModsOf({"add", "insert"}) /\ r.spam \in BOOLEAN
        BY <3>1, ScanTypes
      <3> QED
        BY <1>0, <3>1, <3>2, <3>3 DEF Scan, TypeOK
    <2>7. CASE \E op \in todo : Add(op)
      <3>1. PICK op \in todo : Add(op)
        BY <2>7
      <3>2. mail' \in Lists
        <4>1. op \in ModTypes
          BY <3>1, ScanTypes DEF TypeOK
        <4>2. ~Refused(op) /\ mail' = Transform(mail, op)
          BY <3>1 DEF Add
        <4> QED
          BY <4>1, <4>2, TransformAsDocumented DEF TypeOK
      <3> QED
        BY <3>1, <3>2 DEF Add, TypeOK
    <2>8. CASE UNCHANGED vars
      BY <2>8 DEF vars, TypeOK
    <2> QED
      BY <2>1, <2>2, <2>3, <2>4, <2>5, <2>6, <2>7, <2>8 DEF Next
  <1> QED
    BY <1>1, <1>2, PTL DEF Spec

\* Whatever modification is applied, by the template or by rspamd, the whole of the
\* header becomes what the comment of its function says.
THEOREM EditsAsDocumented == Spec => AsDocumented
  <1> DEFINE Edits == /\ \A op \in Mods : Modify(op) => Header(mail') \in Documented(Header(mail), op)
                      /\ \A op \in todo : Add(op) => Header(mail') \in Documented(Header(mail), op)
  <1>1. TypeOK => Edits
    <2> SUFFICES ASSUME TypeOK PROVE Edits
      OBVIOUS
    <2>1. ASSUME NEW op \in Mods, Modify(op)
          PROVE  Header(mail') \in Documented(Header(mail), op)
      <3>1. op \in ModTypes /\ ~Refused(op) /\ mail' = Transform(mail, op) /\ mail \in Lists
        BY <2>1, ScanTypes DEF Modify, TypeOK
      <3> QED
        BY <3>1, TransformAsDocumented
    <2>2. ASSUME NEW op \in todo, Add(op)
          PROVE  Header(mail') \in Documented(Header(mail), op)
      <3>1. op \in ModTypes /\ mail \in Lists
        BY ScanTypes DEF TypeOK
      <3>2. ~Refused(op) /\ mail' = Transform(mail, op)
        BY <2>2 DEF Add
      <3> QED
        BY <3>1, <3>2, TransformAsDocumented
    <2> QED
      BY <2>1, <2>2
  <1> HIDE DEF Edits
  <1>2. TypeOK => [Edits]_vars
    BY <1>1
  <1>3. [][Edits]_vars => AsDocumented
    BY DEF Edits, AsDocumented
  <1> QED
    BY <1>2, <1>3, TypeCorrect, PTL

\* A mail that rspamd takes for spam has one X-Spam field, the last, after the verdict.
THEOREM SpamIsMarkedOnce == Spec => SpamMarkedOnce
  <1> DEFINE Marked == Verdict /\ spam =>
        /\ Header(mail') = Append(Without(Header(mail), "X-Spam"), Field("X-Spam", "Yes"))
        /\ Places(Header(mail'), "X-Spam") = {Len(Header(mail'))}
  <1>1. TypeOK => Marked
    <2> SUFFICES ASSUME TypeOK, Verdict, spam PROVE Marked
      OBVIOUS
    <2> DEFINE k == "X-Spam"
               f == Field(k, "Yes")
               w == Without(Header(mail), k)
               h == Header(mail')
    <2>1. h = Append(w, f)
      <3>1. "Yes" \in Text
        BY OursIs DEF Ours
      <3> QED
        BY <3>1, MarkSpamIs DEF Verdict, TypeOK
    <2>2. Header(mail) \in Seq(Fields) /\ f.key = k
      BY HeaderIs DEF TypeOK, Field
    <2>3. f \in Fields
      BY OursIs DEF Field, Fields, Ours
    <2>4. w \in Seq(Fields) /\ \A i \in 1 .. Len(w) : w[i].key # k
      BY <2>2, OthersAre DEF Without
    <2> HIDE DEF k, f, w, h
    <2>5. /\ h \in Seq(Fields) /\ Len(h) = Len(w) + 1 /\ Len(w) \in Nat
          /\ \A i \in 1 .. Len(w) : h[i] = w[i]
          /\ h[Len(w) + 1] = f
      BY <2>1, <2>3, <2>4, AppendProperties, LenProperties
    <2>6. DOMAIN h = 1 .. Len(w) + 1
      BY <2>5, LenProperties
    <2>7. Places(h, k) = {Len(w) + 1}
      BY <2>2, <2>4, <2>5, <2>6 DEF Places
    <2> QED
      BY <2>1, <2>5, <2>7 DEF k, f, w, h
  <1> HIDE DEF Marked
  <1>2. TypeOK => [Marked]_vars
    BY <1>1
  <1>3. [][Marked]_vars => SpamMarkedOnce
    BY DEF Marked, SpamMarkedOnce
  <1> QED
    BY <1>2, <1>3, TypeCorrect, PTL
----------------------------------------------------------------------------
(* What is written *)

\* v is the first value of k in s.
Leads(s, k, v) ==
  \E u \in Seq(Fields), w \in Seq(Fields) :
    /\ s = Cat(Cat(u, <<Field(k, v)>>), w)
    /\ \A i \in 1 .. Len(u) : u[i].key # k

LEMMA OthersFrom ==
  ASSUME NEW S, NEW s \in Seq(S), NEW ks
  PROVE  \A i \in 1 .. Len(Others(s, ks)) : \E j \in 1 .. Len(s) : Others(s, ks)[i] = s[j]
  <1> DEFINE T == {i \in DOMAIN s : s[i].key \notin ks}
  <1>1. T \in SUBSET (DOMAIN s) /\ DOMAIN s = 1 .. Len(s)
    OBVIOUS
  <1>2. Others(s, ks) = Select(s, T)
    BY DEF Others
  <1> HIDE DEF T
  <1>3. /\ Len(Select(s, T)) = Cardinality(T)
        /\ \A j \in 1 .. Cardinality(T) : Nth(T, j) \in T /\ Select(s, T)[j] = s[Nth(T, j)]
    BY <1>1, SelectIs
  <1> QED
    BY <1>1, <1>2, <1>3

LEMMA OthersOfOne ==
  ASSUME NEW f \in Fields, NEW k, f.key # k
  PROVE  <<f>> \in Seq(Fields) /\ Without(<<f>>, k) = <<f>>
  <1> DEFINE o == <<f>>
             T == {1}
             r == Without(o, k)
  <1>1. o \in Seq(Fields) /\ Len(o) = 1 /\ DOMAIN o = {1} /\ o[1] = f
    OBVIOUS
  <1>2. {i \in DOMAIN o : o[i].key \notin {k}} = T
    BY <1>1
  <1>3. r = Select(o, T)
    BY <1>2 DEF Without, Others
  <1>4. Cardinality(T) = 1
    BY FS_Singleton
  <1>5. /\ Select(o, T) \in Seq(Fields) /\ Len(Select(o, T)) = Cardinality(T)
        /\ \A j \in 1 .. Cardinality(T) : Nth(T, j) \in T /\ Select(o, T)[j] = o[Nth(T, j)]
    <2>1. T \in SUBSET (DOMAIN o)
      BY <1>1
    <2> HIDE DEF o, T
    <2> QED
      BY <1>1, <2>1, SelectIs
  <1>6. Nth(T, 1) = 1 /\ r[1] = f /\ Len(r) = 1 /\ r \in Seq(Fields)
    BY <1>1, <1>3, <1>4, <1>5
  <1>7. r = o
    <2> HIDE DEF o, r, T
    <2>1. Len(r) = Len(o) /\ \A i \in 1 .. Len(r) : r[i] = o[i]
      BY <1>1, <1>6
    <2> QED
      BY <1>1, <1>6, <2>1, SeqEqual
  <1> QED
    BY <1>1, <1>7

\* A field set is the only one of its key, and the first of all.
LEMMA SetFirst ==
  ASSUME NEW s \in Seq(Fields), NEW k \in Text, NEW v \in Text
  PROVE  Places(SetField(s, k, v), k) = {1} /\ SetField(s, k, v)[1] = Field(k, v)
  <1> DEFINE f == Field(k, v)
             o == <<f>>
             w == Without(s, k)
             r == SetField(s, k, v)
  <1>1. o \in Seq(Fields) /\ w \in Seq(Fields) /\ r = o \o w
    BY SetFieldIs DEF Cat
  <1>2. \A i \in 1 .. Len(w) : w[i].key # k
    BY OthersAre DEF Without
  <1>3. Len(o) = 1 /\ o[1] = f /\ f.key = k
    BY DEF Field
  <1> HIDE DEF f, o, w, r
  <1>4. /\ r \in Seq(Fields) /\ Len(r) = Len(o) + Len(w) /\ Len(w) \in Nat
        /\ \A i \in 1 .. Len(o) + Len(w) : r[i] = IF i <= Len(o) THEN o[i] ELSE w[i - Len(o)]
    BY <1>1, ConcatProperties, LenProperties
  <1>5. DOMAIN r = 1 .. 1 + Len(w) /\ r[1] = f
    BY <1>3, <1>4, LenProperties
  <1>6. \A i \in 2 .. 1 + Len(w) : r[i].key # k
    <2> SUFFICES ASSUME NEW i \in 2 .. 1 + Len(w) PROVE r[i].key # k
      OBVIOUS
    <2>1. i - 1 \in 1 .. Len(w) /\ ~(i <= 1) /\ i \in 1 .. 1 + Len(w)
      BY <1>4
    <2>2. r[i] = w[i - 1]
      BY <1>3, <1>4, <2>1
    <2> QED
      BY <1>2, <2>1, <2>2
  <1>7. Places(r, k) = {1}
    BY <1>3, <1>4, <1>5, <1>6 DEF Places
  <1> QED
    BY <1>5, <1>7 DEF f, r

\* Setting another field does not change what leads.
LEMMA LeadsKept ==
  ASSUME NEW s \in Seq(Fields), NEW k \in Text, NEW v \in Text,
         NEW l \in Text, NEW x \in Text, k # l, Leads(s, k, v)
  PROVE  Leads(SetField(s, l, x), k, v)
  <1> DEFINE f == Field(k, v)
             o == <<f>>
             g == <<Field(l, x)>>
  <1>1. PICK u \in Seq(Fields), w \in Seq(Fields) :
          s = Cat(Cat(u, o), w) /\ \A i \in 1 .. Len(u) : u[i].key # k
    BY DEF Leads
  <1> DEFINE nu == Without(u, l)
             nw == Without(w, l)
             p == Cat(g, nu)
  <1>2. f \in Fields /\ f.key # l
    BY DEF Field, Fields
  <1>3. g \in Seq(Fields) /\ SetField(s, l, x) = Cat(g, Without(s, l))
    BY SetFieldIs
  <1>4. o \in Seq(Fields) /\ Without(o, l) = o
    <2> HIDE DEF f
    <2> QED
      BY <1>2, OthersOfOne
  <1>n. Len(g) = 1 /\ g[1].key # k
    BY DEF Field
  <1> HIDE DEF f, o, g
  <1>5. nu \in Seq(Fields) /\ nw \in Seq(Fields) /\ Without(s, l) = Cat(Cat(nu, o), nw)
    <2>1. Cat(u, o) \in Seq(Fields)
      BY <1>1, <1>4, CatType
    <2> DEFINE c == Cat(u, o)
    <2> HIDE DEF c
    <2>2. Without(Cat(c, w), l) = Cat(Without(c, l), nw) /\ nw \in Seq(Fields)
      BY <1>1, <2>1, OthersCat DEF Without, c
    <2>3. Without(c, l) = Cat(nu, Without(o, l)) /\ nu \in Seq(Fields)
      BY <1>1, <1>4, OthersCat DEF Without, c
    <2> QED
      BY <1>1, <1>4, <2>2, <2>3 DEF c
  <1>6. \A i \in 1 .. Len(nu) : nu[i].key # k
    BY <1>1, OthersFrom DEF Without
  <1> HIDE DEF nu, nw
  <1>7. p \in Seq(Fields) /\ Cat(g, Cat(Cat(nu, o), nw)) = Cat(Cat(p, o), nw)
    <2>1. Cat(nu, o) \in Seq(Fields) /\ p \in Seq(Fields)
      BY <1>3, <1>4, <1>5, CatType
    <2> DEFINE c == Cat(nu, o)
    <2> HIDE DEF c
    <2>2. Cat(g, Cat(c, nw)) = Cat(Cat(g, c), nw)
      BY <1>3, <1>5, <2>1, CatAssoc DEF c
    <2>3. Cat(g, Cat(nu, o)) = Cat(Cat(g, nu), o)
      BY <1>3, <1>4, <1>5, CatAssoc
    <2> QED
      BY <2>1, <2>2, <2>3 DEF c
  <1>8. \A i \in 1 .. Len(p) : p[i].key # k
    <2>1. /\ Len(p) = Len(g) + Len(nu) /\ Len(nu) \in Nat
          /\ \A i \in 1 .. Len(g) + Len(nu) : p[i] = IF i <= Len(g) THEN g[i] ELSE nu[i - Len(g)]
      BY <1>3, <1>5, ConcatProperties, LenProperties DEF Cat
    <2> HIDE DEF p
    <2> SUFFICES ASSUME NEW i \in 1 .. Len(p) PROVE p[i].key # k
      OBVIOUS
    <2>2. CASE i <= 1
      <3>1. i = 1 /\ i <= Len(g)
        BY <1>n, <2>1, <2>2
      <3> QED
        BY <1>n, <2>1, <3>1
    <2>3. CASE ~(i <= 1)
      <3>1. i - 1 \in 1 .. Len(nu) /\ ~(i <= Len(g))
        BY <1>n, <2>1, <2>3
      <3>2. p[i] = nu[i - 1]
        BY <1>n, <2>1, <3>1
      <3> QED
        BY <1>6, <3>1, <3>2
    <2> QED
      BY <2>2, <2>3
  <1> HIDE DEF p
  <1>9. SetField(s, l, x) = Cat(Cat(p, o), nw)
    BY <1>3, <1>5, <1>7
  <1> QED
    BY <1>5, <1>7, <1>8, <1>9 DEF Leads, o, f

\* What leads is what Header.Get returns.
LEMMA LeadsFirst ==
  ASSUME NEW s, NEW k \in Text, NEW v \in Text, Leads(s, k, v)
  PROVE  Places(s, k) # {} /\ s[Nth(Places(s, k), 1)].value = v
  <1> DEFINE f == Field(k, v)
             o == <<f>>
  <1>1. PICK u \in Seq(Fields), w \in Seq(Fields) :
          s = Cat(Cat(u, o), w) /\ \A i \in 1 .. Len(u) : u[i].key # k
    BY DEF Leads
  <1> DEFINE c == Cat(u, o)
             n == Len(u) + 1
  <1>2. f \in Fields /\ f.key = k /\ f.value = v
    BY DEF Field, Fields
  <1>3. o \in Seq(Fields) /\ Len(o) = 1 /\ o[1] = f /\ DOMAIN o = {1}
    <2> HIDE DEF f
    <2> QED
      BY <1>2
  <1>4. Places(o, k) = {1}
    BY <1>2, <1>3 DEF Places
  <1>5. Total(o, k) = 1 /\ 1 \in 1 .. Total(o, k)
    <2>1. Cardinality({1}) = 1
      BY FS_Singleton
    <2>2. Total(o, k) = 1
      BY <1>4, <2>1 DEF Total
    <2> QED
      BY <2>2
  <1>6. Total(u, k) = 0
    <2>1. DOMAIN u = 1 .. Len(u)
      BY <1>1, LenProperties
    <2>2. Places(u, k) = {}
      BY <1>1, <2>1 DEF Places
    <2> QED
      BY <2>2, FS_EmptySet DEF Total
  <1> HIDE DEF f, o
  <1>7. c \in Seq(Fields) /\ Len(c) = n /\ Len(u) \in Nat
    BY <1>1, <1>3, CatType, CatLen
  <1>8. c[n] = f
    <2>1. \A i \in 1 .. Len(u) + Len(o) : c[i] = IF i <= Len(u) THEN u[i] ELSE o[i - Len(u)]
      BY <1>1, <1>3, ConcatProperties DEF Cat
    <2>2. n \in 1 .. Len(u) + Len(o) /\ ~(n <= Len(u)) /\ n - Len(u) = 1
      BY <1>3, <1>7
    <2> QED
      BY <1>3, <2>1, <2>2
  <1>9. Nth(Places(o, k), 1) = 1
    <2>1. Nth(Places(o, k), 1) \in 1 .. Len(o)
      BY <1>3, <1>5, NthInFirst
    <2> QED
      BY <1>3, <2>1
  <1>10. Nth(Places(c, k), 1) = n
    <2>1. Nth(Places(c, k), Total(u, k) + 1) = Len(u) + Nth(Places(o, k), 1)
      BY <1>1, <1>3, <1>5, NthInSecond
    <2>2. Total(u, k) + 1 = 1
      BY <1>6
    <2> HIDE DEF c
    <2> QED
      BY <1>9, <2>1, <2>2
  <1>11. Total(c, k) = 1
    <2>1. Total(c, k) = Total(u, k) + Total(o, k)
      BY <1>1, <1>3, TotalCat
    <2> QED
      BY <1>5, <1>6, <2>1
  <1> HIDE DEF c, n
  <1>s. s = Cat(c, w)
    BY <1>1 DEF c
  <1>12. Nth(Places(s, k), 1) = n
    <2>1. 1 \in 1 .. Total(c, k)
      BY <1>11
    <2>2. Nth(Places(Cat(c, w), k), 1) = Nth(Places(c, k), 1)
      BY <1>1, <1>7, <2>1, NthInFirst
    <2> QED
      BY <1>10, <1>s, <2>2
  <1>13. /\ Len(s) = Len(c) + Len(w) /\ Len(w) \in Nat /\ s \in Seq(Fields)
         /\ \A i \in 1 .. Len(c) + Len(w) : s[i] = IF i <= Len(c) THEN c[i] ELSE w[i - Len(c)]
    BY <1>1, <1>7, <1>s, ConcatProperties, LenProperties DEF Cat
  <1>14. n \in 1 .. Len(s) /\ s[n] = f
    <2>1. n \in 1 .. Len(c) + Len(w) /\ n <= Len(c)
      BY <1>7, <1>13 DEF n
    <2> QED
      BY <1>8, <1>13, <2>1
  <1>15. n \in Places(s, k)
    BY <1>2, <1>13, <1>14, LenProperties DEF Places
  <1> QED
    BY <1>2, <1>12, <1>14, <1>15

\* A mail that is written has the empty Return-Path, in front, and the sender's as
\* its first X-Original-Return-Path.
THEOREM WrittenReturnPath == Spec => []ReturnPathIsOurs
  <1>1. Init => ReturnPathIsOurs
    BY DEF Init, ReturnPathIsOurs
  <1>2. TypeOK /\ ReturnPathIsOurs /\ [Next]_vars => ReturnPathIsOurs'
    <2> SUFFICES ASSUME TypeOK, ReturnPathIsOurs, [Next]_vars PROVE ReturnPathIsOurs'
      OBVIOUS
    <2>1. CASE Write
      <3> DEFINE k == "Return-Path"
                 l == "Mime-Version"
                 x == "X-Original-Return-Path"
                 e == "<>"
                 o == "1.0"
                 all == Header(Originals)
                 mime == IF Has(all, l) THEN all ELSE SetField(all, l, o)
                 out == SetField(mime, k, e)
      <3>1. k \in Text /\ l \in Text /\ x \in Text /\ e \in Text /\ o \in Text
        BY OursIs DEF Ours
      <3>2. k # x /\ l # x
        OBVIOUS
      <3>3. Originals \in Lists
        BY OriginalsAre DEF TypeOK
      <3>4. mail'.hdr = out /\ return' = return
        BY <2>1 DEF Write
      <3>5. return # None => return \in Text /\ Leads(all, x, return)
        <4> SUFFICES ASSUME return # None PROVE return \in Text /\ Leads(all, x, return)
          OBVIOUS
        <4>1. return \in Text
          BY DEF TypeOK
        <4>2. PICK s \in Seq(Fields) : all = Cat(<<Field(x, return)>>, s)
          BY OriginalsAre DEF TypeOK
        <4> DEFINE u == <<>>
                   g == <<Field(x, return)>>
        <4>3. u \in Seq(Fields) /\ Len(u) = 0
          OBVIOUS
        <4>4. g \in Seq(Fields)
          BY <3>1, <4>1, FieldType, OneType
        <4> HIDE DEF g
        <4>5. Cat(u, g) = g
          BY <4>4, ConcatEmptySeq DEF Cat
        <4>6. all = Cat(Cat(u, g), s)
          BY <4>2, <4>5 DEF g
        <4>7. \A i \in 1 .. Len(u) : u[i].key # x
          BY <4>3
        <4> HIDE DEF u, all, x
        <4> QED
          BY <4>1, <4>3, <4>6, <4>7 DEF Leads, g
      <3>6. all \in Seq(Fields)
        BY <3>3, HeaderIs
      <3> HIDE DEF k, l, x, e, o, all
      <3>7. mime \in Seq(Fields) /\ (return # None => Leads(mime, x, return))
        <4>1. CASE Has(all, l)
          BY <3>5, <3>6, <4>1
        <4>2. CASE ~Has(all, l)
          <5>1. SetField(all, l, o) \in Seq(Fields)
            BY <3>1, <3>6, SetFieldIs
          <5>2. return # None => Leads(SetField(all, l, o), x, return)
            BY <3>1, <3>2, <3>5, <3>6, LeadsKept
          <5> QED
            BY <4>2, <5>1, <5>2
        <4> QED
          BY <4>1, <4>2
      <3> HIDE DEF mime
      <3>8. Places(out, k) = {1} /\ out[1] = Field(k, e)
        BY <3>1, <3>7, SetFirst
      <3>9. return # None => Leads(out, x, return)
        BY <3>1, <3>2, <3>5, <3>7, LeadsKept
      <3>10. return # None => Places(out, x) # {} /\ out[Nth(Places(out, x), 1)].value = return
        BY <3>1, <3>5, <3>9, LeadsFirst
      <3>11. Field(k, e).value = e
        BY DEF Field
      <3> HIDE DEF out
      <3> QED
        BY <3>4, <3>8, <3>10, <3>11 DEF ReturnPathIsOurs, k, x, e
    <2>2. CASE Prepare
      BY <2>2 DEF Prepare, ReturnPathIsOurs
    <2>3. CASE Verdict
      BY <2>3 DEF Verdict, ReturnPathIsOurs
    <2>4. CASE Refuse
      BY <2>4 DEF Refuse, ReturnPathIsOurs
    <2>5. CASE \E op \in Mods : Modify(op)
      BY <2>5 DEF Modify, ReturnPathIsOurs
    <2>6. CASE \E r \in Scans : Scan(r)
      BY <2>6 DEF Scan, ReturnPathIsOurs
    <2>7. CASE \E op \in todo : Add(op)
      BY <2>7 DEF Add, ReturnPathIsOurs
    <2>8. CASE UNCHANGED vars
      BY <2>8 DEF vars, ReturnPathIsOurs
    <2> QED
      BY <2>1, <2>2, <2>3, <2>4, <2>5, <2>6, <2>7, <2>8 DEF Next
  <1> QED
    BY <1>1, <1>2, TypeCorrect, PTL DEF Spec

=============================================================================
