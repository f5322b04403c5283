------------------------- MODULE SessionViewsProofs -------------------------
(***************************************************************************)
(* Proofs about reading debug sessions, for any number of readers, any     *)
(* rows, any page limit, and any order of the statements of a request and  *)
(* of what the capture does meanwhile.  First, lemmas about Only: it is    *)
(* the one sequence that enumerates, in order, the elements of a sequence  *)
(* that belong to a set.                                                   *)
(***************************************************************************)
EXTENDS SessionViews, FiniteSetTheorems, SequenceTheorems, TLAPS

-----------------------------------------------------------------------------
(* Ranges and repetitions *)

\* Appending an element adds it to the elements.
LEMMA RangeOfAppend ==
    ASSUME NEW R, NEW seq \in Seq(R), NEW e \in R
    PROVE  Range(Append(seq, e)) = Range(seq) \cup {e}
<1> DEFINE u == Append(seq, e)
           m == Len(seq) + 1
<1>1. /\ u \in Seq(R) /\ Len(u) = m
      /\ \A i \in 1 .. Len(seq) : u[i] = seq[i]
      /\ u[m] = e
  BY AppendProperties
<1>2. DOMAIN seq = 1 .. Len(seq) /\ Len(seq) \in Nat /\ DOMAIN u = 1 .. m
  BY <1>1, LenProperties
<1>3. m \in 1 .. m /\ \A i \in 1 .. m : i = m \/ i \in 1 .. Len(seq)
  BY <1>2
<1>4. \A i \in 1 .. Len(seq) : i \in 1 .. m
  BY <1>2
<1> HIDE DEF u, m
<1> QED
  BY <1>1, <1>2, <1>3, <1>4 DEF Range, u

\* Two sequences with nothing twice and nothing in common have nothing twice
\* when they are concatenated.
LEMMA ConcatInjective ==
    ASSUME NEW R, NEW u \in Seq(R), NEW v \in Seq(R),
           IsInjective(u), IsInjective(v), \A x \in Range(v) : x \notin Range(u)
    PROVE  IsInjective(u \o v)
<1> DEFINE w == u \o v
           m == Len(u)
           n == Len(v)
<1>1. /\ m \in Nat /\ n \in Nat /\ DOMAIN u = 1 .. m /\ DOMAIN v = 1 .. n
      /\ w \in Seq(R) /\ Len(w) = m + n
      /\ \A i \in 1 .. m + n : w[i] = IF i <= m THEN u[i] ELSE v[i - m]
  BY LenProperties, ConcatProperties
<1> HIDE DEF w, m, n
<1>2. DOMAIN w = 1 .. m + n
  BY <1>1, LenProperties
<1>3. ASSUME NEW i \in 1 .. m + n
      PROVE  \/ i \in DOMAIN u /\ w[i] = u[i]
             \/ i - m \in DOMAIN v /\ w[i] = v[i - m]
  BY <1>1
<1>4. ASSUME NEW i \in 1 .. m + n, NEW j \in 1 .. m + n, w[i] = w[j]
      PROVE  i = j
  <2>1. CASE i \in DOMAIN u /\ w[i] = u[i] /\ j \in DOMAIN u /\ w[j] = u[j]
    BY <1>4, <2>1 DEF IsInjective
  <2>2. CASE i - m \in DOMAIN v /\ w[i] = v[i - m] /\ j - m \in DOMAIN v /\ w[j] = v[j - m]
    <3>1. i - m = j - m
      BY <1>4, <2>2 DEF IsInjective
    <3> QED
      BY <1>1, <3>1
  <2>3. ASSUME NEW a \in DOMAIN u, NEW b \in DOMAIN v PROVE u[a] # v[b]
    BY DEF Range
  <2> QED
    BY <1>3, <1>4, <2>1, <2>2, <2>3
<1> QED
  BY <1>2, <1>4 DEF IsInjective, w

\* Each of two sequences has no repetitions, and they share nothing, when their
\* concatenation has none.
LEMMA SplitInjective ==
    ASSUME NEW R, NEW u \in Seq(R), NEW v \in Seq(R), IsInjective(u \o v)
    PROVE  IsInjective(u) /\ IsInjective(v) /\ \A x \in Range(v) : x \notin Range(u)
<1> DEFINE w == u \o v
           m == Len(u)
           n == Len(v)
<1>1. /\ m \in Nat /\ n \in Nat /\ DOMAIN u = 1 .. m /\ DOMAIN v = 1 .. n
      /\ w \in Seq(R) /\ Len(w) = m + n
      /\ \A i \in 1 .. m + n : w[i] = IF i <= m THEN u[i] ELSE v[i - m]
  BY LenProperties, ConcatProperties
<1>2. IsInjective(w)
  OBVIOUS
<1> HIDE DEF w, m, n
<1>3. DOMAIN w = 1 .. m + n
  BY <1>1, LenProperties
<1>4. ASSUME NEW i \in DOMAIN u
      PROVE  i \in DOMAIN w /\ w[i] = u[i] /\ i <= m
  BY <1>1, <1>3
<1>5. ASSUME NEW j \in DOMAIN v
      PROVE  m + j \in DOMAIN w /\ w[m + j] = v[j] /\ j \in Nat /\ ~(m + j <= m)
  <2> DEFINE i == m + j
  <2>1. i \in 1 .. m + n /\ ~(i <= m) /\ i - m = j /\ j \in Nat
    BY <1>1
  <2> HIDE DEF i
  <2>2. i \in DOMAIN w /\ w[i] = v[j]
    BY <1>1, <1>3, <2>1
  <2> QED
    BY <2>1, <2>2 DEF i
<1>6. IsInjective(u)
  BY <1>2, <1>4 DEF IsInjective
<1>7. ASSUME NEW i \in DOMAIN v, NEW j \in DOMAIN v, v[i] = v[j]
      PROVE  i = j
  <2>1. w[m + i] = w[m + j] /\ m + i \in DOMAIN w /\ m + j \in DOMAIN w /\ i \in Nat /\ j \in Nat
    BY <1>5, <1>7
  <2>2. m + i = m + j
    BY <1>2, <2>1 DEF IsInjective
  <2> QED
    BY <1>1, <2>1, <2>2
<1>8. ASSUME NEW i \in DOMAIN u, NEW j \in DOMAIN v
      PROVE  u[i] # v[j]
  <2>1. i # m + j
    BY <1>4, <1>5
  <2> QED
    BY <1>2, <1>4, <1>5, <2>1 DEF IsInjective
<1> QED
  BY <1>6, <1>7, <1>8 DEF IsInjective, Range

-----------------------------------------------------------------------------
(* Ranks *)

\* A set of positions of a sequence is finite.
LEMMA PlacesFinite ==
    ASSUME NEW m \in Nat, NEW K \in SUBSET (1 .. m)
    PROVE  IsFiniteSet(K) /\ Cardinality(K) \in Nat
<1>1. IsFiniteSet(1 .. m)
  BY FS_Interval
<1>2. IsFiniteSet(K)
  BY <1>1, FS_Subset
<1> QED
  BY <1>2, FS_CardinalityType

\* Ranks grow with the positions and count up to the number of positions.
LEMMA RankGrows ==
    ASSUME NEW m \in Nat, NEW K \in SUBSET (1 .. m), NEW i \in K
    PROVE  /\ Rank(K, i) \in 1 .. Cardinality(K)
           /\ \A k \in K : i < k => Rank(K, i) < Rank(K, k)
<1> DEFINE upTo(j) == {k \in K : k <= j}
<1>0. K \subseteq Nat
  OBVIOUS
<1>1. IsFiniteSet(K) /\ Cardinality(K) \in Nat
  BY PlacesFinite
<1>2. ASSUME NEW j \in K
      PROVE  IsFiniteSet(upTo(j)) /\ Cardinality(upTo(j)) \in Nat
  <2>1. upTo(j) \in SUBSET (1 .. m)
    OBVIOUS
  <2> QED
    BY <2>1, PlacesFinite
<1>3. Cardinality(upTo(i)) <= Cardinality(K)
  <2>1. upTo(i) \in SUBSET K
    OBVIOUS
  <2> QED
    BY <1>1, <2>1, FS_Subset
<1>4. Cardinality(upTo(i)) # 0
  <2>1. i \in upTo(i)
    OBVIOUS
  <2> QED
    BY <1>2, <2>1, FS_EmptySet
<1>5. ASSUME NEW k \in K, i < k
      PROVE  Cardinality(upTo(i)) < Cardinality(upTo(k))
  <2>1. upTo(i) \in SUBSET upTo(k) /\ k \in upTo(k) /\ k \notin upTo(i)
    <3>1. i \in Nat /\ k \in Nat
      BY <1>0
    <3>2. \A j \in K : j <= i => j <= k
      BY <1>0, <1>5, <3>1
    <3>3. k <= k /\ ~(k <= i)
      BY <1>5, <3>1
    <3> QED
      BY <3>2, <3>3
  <2>2. IsFiniteSet(upTo(k)) /\ Cardinality(upTo(k)) \in Nat /\ Cardinality(upTo(i)) \in Nat
    BY <1>2
  <2> HIDE DEF upTo
  <2>3. /\ Cardinality(upTo(i)) <= Cardinality(upTo(k))
        /\ Cardinality(upTo(k)) = Cardinality(upTo(i)) => upTo(k) = upTo(i)
    BY <2>1, <2>2, FS_Subset
  <2> QED
    BY <2>1, <2>2, <2>3
<1> QED
  BY <1>1, <1>2, <1>3, <1>4, <1>5 DEF Rank

\* Every rank is that of one position.
LEMMA RankIsTaken ==
    ASSUME NEW m \in Nat, NEW K \in SUBSET (1 .. m), NEW n \in 1 .. Cardinality(K)
    PROVE  \E i \in K : Rank(K, i) = n
<1> DEFINE f == [i \in K |-> Rank(K, i)]
           T == 1 .. Cardinality(K)
<1>1. IsFiniteSet(K) /\ Cardinality(K) \in Nat
  BY PlacesFinite
<1>2. IsFiniteSet(T) /\ Cardinality(T) = Cardinality(K)
  BY <1>1, FS_Interval
<1>3. f \in [K -> T]
  BY RankGrows
<1>4. ASSUME NEW i \in K, NEW k \in K, f[i] = f[k]
      PROVE  i = k
  <2>1. f[i] \in Nat /\ f[k] \in Nat
    BY <1>1, <1>3
  <2>2. ~(i < k)
    <3>1. i < k => Rank(K, i) < Rank(K, k)
      BY RankGrows
    <3> QED
      BY <1>4, <2>1, <3>1
  <2>3. ~(k < i)
    <3>1. k < i => Rank(K, k) < Rank(K, i)
      BY RankGrows
    <3> QED
      BY <1>4, <2>1, <3>1
  <2>4. i \in Nat /\ k \in Nat
    OBVIOUS
  <2> HIDE DEF f
  <2> QED
    BY <2>2, <2>3, <2>4
<1>5. f \in Injection(K, T)
  BY <1>3, <1>4 DEF Injection, IsInjective
<1>6. f \in Surjection(K, T)
  <2> HIDE DEF f, T
  <2> QED
    BY <1>2, <1>5, FS_Injection
<1> QED
  BY <1>6 DEF Surjection

\* The positions K one after the other, in order.
Enumerates(place, l, K) ==
    /\ place \in [1 .. l -> K]
    /\ \A a, b \in 1 .. l : a < b => place[a] < place[b]
    /\ \A i \in K : \E a \in 1 .. l : place[a] = i

\* Whatever enumerates positions counts them.
LEMMA OrderIsRank ==
    ASSUME NEW m \in Nat, NEW K \in SUBSET (1 .. m), NEW l \in Nat,
           NEW place, Enumerates(place, l, K)
    PROVE  /\ l = Cardinality(K)
           /\ \A a \in 1 .. l : Rank(K, place[a]) = a
<1> USE DEF Enumerates
<1>0. K \subseteq Nat /\ \A a \in 1 .. l : place[a] \in Nat
  <2>1. K \subseteq Nat
    OBVIOUS
  <2> QED
    BY <2>1
<1>1. ASSUME NEW a \in 1 .. l, NEW b \in 1 .. l, place[a] = place[b]
      PROVE  a = b
  <2>1. place[a] \in Nat /\ a \in Nat /\ b \in Nat
    BY <1>0
  <2>2. ~(a < b) /\ ~(b < a)
    BY <1>1, <2>1
  <2> QED
    BY <2>1, <2>2
<1>2. l = Cardinality(K)
  <2>1. place \in Bijection(1 .. l, K)
    BY <1>1 DEF Bijection, Injection, Surjection, IsInjective
  <2>2. ExistsBijection(1 .. l, K)
    BY <2>1 DEF ExistsBijection
  <2> QED
    BY <2>2, FS_CountingElements
<1>3. ASSUME NEW a \in 1 .. l
      PROVE  Rank(K, place[a]) = a
  <2> DEFINE U == {k \in K : k <= place[a]}
             g == [b \in 1 .. a |-> place[b]]
  <2>1. g \in [1 .. a -> U]
    <3>1. ASSUME NEW b \in 1 .. a PROVE place[b] \in K /\ place[b] <= place[a]
      <4>1. b \in 1 .. l /\ (b = a \/ b < a)
        OBVIOUS
      <4>2. place[b] \in K /\ place[b] \in Nat /\ place[a] \in Nat
        BY <1>0, <4>1
      <4> QED
        BY <4>1, <4>2
    <3> QED
      BY <3>1
  <2>2. \A k \in U : \E b \in 1 .. a : g[b] = k
    <3> SUFFICES ASSUME NEW k \in U PROVE \E b \in 1 .. a : g[b] = k
      OBVIOUS
    <3>1. PICK b \in 1 .. l : place[b] = k
      OBVIOUS
    <3>2. ~(a < b)
      <4>1. place[a] \in Nat /\ place[b] \in Nat /\ place[b] <= place[a]
        BY <1>0, <3>1
      <4> QED
        BY <4>1
    <3>3. b \in 1 .. a
      BY <3>2
    <3> QED
      BY <3>1, <3>3
  <2>3. \A b, c \in 1 .. a : g[b] = g[c] => b = c
    BY <1>1
  <2>4. ExistsBijection(1 .. a, U)
    <3> HIDE DEF g, U
    <3>1. g \in Bijection(1 .. a, U)
      BY <2>1, <2>2, <2>3 DEF Bijection, Injection, Surjection, IsInjective
    <3> QED
      BY <3>1 DEF ExistsBijection
  <2>5. Cardinality(U) = a
    <3> HIDE DEF U
    <3> QED
      BY <2>4, FS_CountingElements
  <2> QED
    BY <2>5 DEF Rank
<1> QED
  BY <1>2, <1>3

-----------------------------------------------------------------------------
(* What Only is *)

\* The places of a sequence are positions of it.
LEMMA PlacesType ==
    ASSUME NEW R, NEW seq \in Seq(R), NEW S
    PROVE  /\ Len(seq) \in Nat
           /\ Places(seq, S) \in SUBSET (1 .. Len(seq))
           /\ \A i \in Places(seq, S) : seq[i] \in R /\ seq[i] \in S
           /\ \A i \in 1 .. Len(seq) : seq[i] \in S => i \in Places(seq, S)
  BY LenProperties DEF Places

\* t consists of the elements of seq that are in S, in order, each from its place.
Selects(place, t, seq, S) ==
    /\ Enumerates(place, Len(t), Places(seq, S))
    /\ \A a \in 1 .. Len(t) : t[a] = seq[place[a]]

\* Only enumerates, in order, the places that a sequence has for a set.
LEMMA OnlyInOrder ==
    ASSUME NEW R, NEW seq \in Seq(R), NEW S
    PROVE  /\ Only(seq, S) \in Seq(R \cap S)
           /\ Only(seq, S) \in Seq(R)
           /\ \E place : Selects(place, Only(seq, S), seq, S)
<1> DEFINE K == Places(seq, S)
           m == Len(seq)
           l == Cardinality(K)
           place == [n \in 1 .. l |-> CHOOSE i \in K : Rank(K, i) = n]
           only == [n \in 1 .. l |-> seq[CHOOSE i \in K : Rank(K, i) = n]]
<1>1. /\ m \in Nat /\ K \in SUBSET (1 .. m)
      /\ \A i \in K : seq[i] \in R /\ seq[i] \in S
  BY PlacesType
<1>2. Only(seq, S) = only
  BY DEF Only
<1> HIDE DEF K, m
<1>3. l \in Nat
  BY <1>1, PlacesFinite
<1>4. ASSUME NEW n \in 1 .. l
      PROVE  /\ place[n] \in K /\ Rank(K, place[n]) = n
             /\ only[n] = seq[place[n]]
  <2>1. \E i \in K : Rank(K, i) = n
    BY <1>1, RankIsTaken
  <2> QED
    BY <2>1
<1>5. only \in Seq(R \cap S) /\ only \in Seq(R) /\ Len(only) = l
  <2>1. \A n \in 1 .. l : only[n] \in R \cap S
    BY <1>1, <1>4
  <2>2. only \in [1 .. l -> R \cap S] /\ only \in [1 .. l -> R]
    <3>1. only = [n \in 1 .. l |-> only[n]]
      OBVIOUS
    <3> HIDE DEF only
    <3> QED
      BY <2>1, <3>1
  <2>3. only \in Seq(R \cap S) /\ only \in Seq(R)
    <3> HIDE DEF only, l
    <3> QED
      BY <1>3, <2>2, SeqDef
  <2>4. DOMAIN only = 1 .. Len(only) /\ Len(only) \in Nat
    <3> HIDE DEF only, l
    <3> QED
      BY <2>3, LenProperties
  <2>5. DOMAIN only = 1 .. l
    OBVIOUS
  <2> QED
    <3> HIDE DEF only, l
    <3>1. \A i \in Nat : i \in 1 .. l <=> i \in 1 .. Len(only)
      BY <2>4, <2>5
    <3>2. l <= Len(only) /\ Len(only) <= l
      <4>1. l \in 1 .. l <=> l \in 1 .. Len(only)
        BY <1>3, <3>1
      <4>2. Len(only) \in 1 .. l <=> Len(only) \in 1 .. Len(only)
        BY <2>4, <3>1
      <4> QED
        BY <1>3, <2>4, <4>1, <4>2
    <3>3. Len(only) = l
      <4> DEFINE q == Len(only)
      <4>1. q \in Nat /\ l \in Nat /\ q <= l /\ l <= q
        BY <1>3, <2>4, <3>2
      <4> HIDE DEF q
      <4>2. q = l
        BY <4>1
      <4> QED
        BY <4>2 DEF q
    <3> QED
      BY <2>3, <3>3
<1>6. ASSUME NEW a \in 1 .. l, NEW b \in 1 .. l, a < b
      PROVE  place[a] < place[b]
  <2>1. /\ place[a] \in K /\ Rank(K, place[a]) = a
        /\ place[b] \in K /\ Rank(K, place[b]) = b
    BY <1>4
  <2>2. place[a] \in Nat /\ place[b] \in Nat
    <3>1. K \subseteq Nat
      BY <1>1
    <3> QED
      BY <2>1, <3>1
  <2> HIDE DEF place, l
  <2>3. ~(place[b] < place[a])
    <3>1. place[b] < place[a] => Rank(K, place[b]) < Rank(K, place[a])
      BY <1>1, <2>1, RankGrows
    <3> QED
      BY <1>3, <1>6, <2>1, <3>1
  <2>4. place[a] # place[b]
    BY <1>3, <1>6, <2>1
  <2> QED
    BY <2>2, <2>3, <2>4
<1>7. ASSUME NEW i \in K
      PROVE  \E a \in 1 .. l : place[a] = i
  <2> DEFINE a == Rank(K, i)
  <2>1. a \in 1 .. l
    BY <1>1, RankGrows
  <2>2. place[a] \in K /\ Rank(K, place[a]) = a
    BY <1>4, <2>1
  <2>3. place[a] = i
    <3> HIDE DEF place, l
    <3>1. K \subseteq Nat
      BY <1>1
    <3>2. i < place[a] => Rank(K, i) < Rank(K, place[a])
      BY <1>1, RankGrows, <2>2
    <3>3. place[a] < i => Rank(K, place[a]) < Rank(K, i)
      BY <1>1, RankGrows, <2>2
    <3>4. Rank(K, i) \in Nat
      BY <1>3, <2>1
    <3>5. ~(i < place[a]) /\ ~(place[a] < i)
      BY <2>2, <3>2, <3>3, <3>4
    <3>6. i \in Nat /\ place[a] \in Nat
      BY <2>2, <3>1
    <3> HIDE DEF a
    <3> QED
      BY <3>5, <3>6
  <2> QED
    BY <2>1, <2>3
<1>8. place \in [1 .. l -> K]
  BY <1>4
<1> QED
  <2> HIDE DEF place, only, l
  <2>1. Selects(place, only, seq, S)
    BY <1>4, <1>5, <1>6, <1>7, <1>8 DEF K, Selects, Enumerates
  <2> QED
    BY <1>2, <1>5, <2>1

\* Whatever selects the elements in order is Only.
LEMMA OnlyIsUnique ==
    ASSUME NEW R, NEW seq \in Seq(R), NEW S, NEW t \in Seq(R),
           NEW place, Selects(place, t, seq, S)
    PROVE  t = Only(seq, S)
<1> DEFINE K == Places(seq, S)
           u == Only(seq, S)
           m == Len(seq)
           l == Len(t)
           k == Len(u)
<1>1. m \in Nat /\ K \in SUBSET (1 .. m)
  BY PlacesType
<1>2. PICK other : Selects(other, u, seq, S)
  BY OnlyInOrder
<1>3. u \in Seq(R) /\ l \in Nat /\ k \in Nat
  <2>1. u \in Seq(R)
    BY OnlyInOrder
  <2> QED
    BY <2>1, LenProperties
<1>4. /\ Enumerates(place, l, K) /\ \A a \in 1 .. l : t[a] = seq[place[a]]
      /\ Enumerates(other, k, K) /\ \A a \in 1 .. k : u[a] = seq[other[a]]
  BY <1>2 DEF Selects
<1> HIDE DEF K, u, m, l, k
<1>5. l = Cardinality(K) /\ \A a \in 1 .. l : Rank(K, place[a]) = a
  BY <1>1, <1>3, <1>4, OrderIsRank
<1>6. k = Cardinality(K) /\ \A a \in 1 .. k : Rank(K, other[a]) = a
  BY <1>1, <1>3, <1>4, OrderIsRank
<1>7. ASSUME NEW i \in K, NEW j \in K, Rank(K, i) = Rank(K, j)
      PROVE  i = j
  <2>1. i \in Nat /\ j \in Nat
    <3>1. K \subseteq Nat
      BY <1>1
    <3> QED
      BY <3>1
  <2>2. Rank(K, i) \in Nat
    <3>1. Rank(K, i) \in 1 .. Cardinality(K)
      BY <1>1, RankGrows
    <3> QED
      BY <1>3, <1>5, <3>1
  <2>3. (i < j => Rank(K, i) < Rank(K, j)) /\ (j < i => Rank(K, j) < Rank(K, i))
    BY <1>1, RankGrows
  <2> QED
    BY <1>7, <2>1, <2>2, <2>3
<1>8. ASSUME NEW a \in 1 .. l
      PROVE  t[a] = u[a]
  <2>1. a \in 1 .. k
    BY <1>5, <1>6
  <2>2. place[a] \in K /\ other[a] \in K
    BY <1>4, <2>1 DEF Enumerates
  <2>3. place[a] = other[a]
    <3>1. Rank(K, place[a]) = Rank(K, other[a])
      BY <1>5, <1>6, <2>1
    <3> HIDE <1>4
    <3> QED
      BY <1>7, <2>2, <3>1
  <2> QED
    BY <1>4, <2>1, <2>3
<1> QED
  <2>1. t = u
    BY <1>3, <1>5, <1>6, <1>8, SeqEqual DEF l, k
  <2> QED
    BY <2>1 DEF u

-----------------------------------------------------------------------------
(* What Only preserves *)

\* What is left is a sequence of the same elements.
LEMMA OnlyType ==
    ASSUME NEW R, NEW seq \in Seq(R), NEW S
    PROVE  Only(seq, S) \in Seq(R)
  BY OnlyInOrder

\* What is left are the elements that belong to the set.
LEMMA OnlyRange ==
    ASSUME NEW R, NEW seq \in Seq(R), NEW S
    PROVE  Range(Only(seq, S)) = Range(seq) \cap S
<1> DEFINE u == Only(seq, S)
<1>1. u \in Seq(R) /\ DOMAIN u = 1 .. Len(u) /\ DOMAIN seq = 1 .. Len(seq)
  <2>1. u \in Seq(R)
    BY OnlyInOrder
  <2> QED
    BY <2>1, LenProperties
<1>2. PICK place : Selects(place, u, seq, S)
  BY OnlyInOrder
<1>3. /\ Places(seq, S) \subseteq DOMAIN seq
      /\ \A i \in Places(seq, S) : seq[i] \in S
      /\ \A i \in DOMAIN seq : seq[i] \in S => i \in Places(seq, S)
  BY DEF Places
<1> HIDE DEF u
<1>4. ASSUME NEW a \in DOMAIN u
      PROVE  u[a] \in Range(seq) \cap S
  <2>1. place[a] \in Places(seq, S) /\ u[a] = seq[place[a]]
    BY <1>1, <1>2 DEF Selects, Enumerates
  <2> QED
    BY <1>3, <2>1 DEF Range
<1>5. ASSUME NEW i \in DOMAIN seq, seq[i] \in S
      PROVE  \E a \in DOMAIN u : u[a] = seq[i]
  <2>1. i \in Places(seq, S)
    BY <1>3, <1>5
  <2>2. PICK a \in 1 .. Len(u) : place[a] = i
    BY <1>2, <2>1 DEF Selects, Enumerates
  <2> QED
    BY <1>1, <1>2, <2>2 DEF Selects
<1> QED
  BY <1>4, <1>5 DEF Range, u

\* What occurs once in a sequence occurs once in what is left of it.
LEMMA OnlyInjective ==
    ASSUME NEW R, NEW seq \in Seq(R), NEW S, IsInjective(seq)
    PROVE  IsInjective(Only(seq, S))
<1> DEFINE u == Only(seq, S)
           l == Len(u)
<1>1. u \in Seq(R) /\ DOMAIN u = 1 .. l /\ l \in Nat /\ DOMAIN seq = 1 .. Len(seq)
  <2>1. u \in Seq(R)
    BY OnlyInOrder
  <2> QED
    BY <2>1, LenProperties
<1>2. PICK place : Selects(place, u, seq, S)
  BY OnlyInOrder
<1>3. Places(seq, S) \subseteq DOMAIN seq /\ DOMAIN seq \subseteq Nat
  BY <1>1 DEF Places
<1>4. /\ \A a \in 1 .. l : place[a] \in Places(seq, S)
      /\ \A a, b \in 1 .. l : a < b => place[a] < place[b]
      /\ \A a \in 1 .. l : u[a] = seq[place[a]]
  BY <1>2 DEF Selects, Enumerates
<1> HIDE DEF u, l
<1>5. ASSUME NEW a \in 1 .. l, NEW b \in 1 .. l, u[a] = u[b]
      PROVE  a = b
  <2>1. place[a] = place[b]
    <3>1. seq[place[a]] = seq[place[b]]
      BY <1>4, <1>5
    <3>2. place[a] \in DOMAIN seq /\ place[b] \in DOMAIN seq
      BY <1>3, <1>4
    <3> QED
      BY <3>1, <3>2 DEF IsInjective
  <2>2. place[a] \in Nat /\ a \in Nat /\ b \in Nat
    BY <1>1, <1>3, <1>4
  <2>3. ~(a < b) /\ ~(b < a)
    BY <1>4, <2>1, <2>2
  <2> QED
    BY <2>2, <2>3
<1> QED
  BY <1>1, <1>5 DEF IsInjective, u

\* Nothing is left of a sequence without elements of the set.
LEMMA OnlyNone ==
    ASSUME NEW R, NEW seq \in Seq(R), NEW S, Range(seq) \cap S = {}
    PROVE  Only(seq, S) = <<>>
<1> DEFINE u == Only(seq, S)
<1>1. u \in Seq(R) /\ Range(u) = {}
  BY OnlyInOrder, OnlyRange
<1> HIDE DEF u
<1>2. DOMAIN u = {} /\ DOMAIN u = 1 .. Len(u) /\ Len(u) \in Nat
  <2>1. DOMAIN u = {}
    BY <1>1 DEF Range
  <2> QED
    BY <1>1, <2>1, LenProperties
<1>3. Len(u) = 0
  <2>1. Len(u) # 0 => 1 \in 1 .. Len(u)
    BY <1>2
  <2> QED
    BY <1>2, <2>1
<1> QED
  BY <1>1, <1>3, EmptySeq DEF u

\* Rows that are added are selected, or not, by themselves.
LEMMA OnlyConcat ==
    ASSUME NEW R, NEW s \in Seq(R), NEW t \in Seq(R), NEW S
    PROVE  Only(s \o t, S) = Only(s, S) \o Only(t, S)
<1> DEFINE u == Only(s, S)
           v == Only(t, S)
           w == s \o t
           x == u \o v
           k == Len(u)
           l == Len(v)
           m == Len(s)
<1>1. u \in Seq(R) /\ v \in Seq(R) /\ k \in Nat /\ l \in Nat /\ m \in Nat /\ Len(t) \in Nat
  <2>1. u \in Seq(R) /\ v \in Seq(R)
    BY OnlyInOrder
  <2> QED
    BY <2>1, LenProperties
<1>2. PICK f : Selects(f, u, s, S)
  BY OnlyInOrder
<1>3. PICK g : Selects(g, v, t, S)
  BY OnlyInOrder
<1>4. /\ Places(s, S) \subseteq 1 .. m
      /\ \A i \in Places(s, S) : s[i] \in S
      /\ \A i \in 1 .. m : s[i] \in S => i \in Places(s, S)
      /\ Places(t, S) \subseteq 1 .. Len(t)
      /\ \A i \in Places(t, S) : t[i] \in S
      /\ \A i \in 1 .. Len(t) : t[i] \in S => i \in Places(t, S)
  BY PlacesType
<1>5. /\ \A a \in 1 .. k : f[a] \in Places(s, S) /\ u[a] = s[f[a]]
      /\ \A a, b \in 1 .. k : a < b => f[a] < f[b]
      /\ \A i \in Places(s, S) : \E a \in 1 .. k : f[a] = i
      /\ \A a \in 1 .. l : g[a] \in Places(t, S) /\ v[a] = t[g[a]]
      /\ \A a, b \in 1 .. l : a < b => g[a] < g[b]
      /\ \A i \in Places(t, S) : \E a \in 1 .. l : g[a] = i
  BY <1>2, <1>3 DEF Selects, Enumerates
<1> HIDE DEF u, v
<1>6. /\ w \in Seq(R) /\ Len(w) = m + Len(t) /\ DOMAIN w = 1 .. m + Len(t)
      /\ \A i \in 1 .. m + Len(t) : w[i] = IF i <= m THEN s[i] ELSE t[i - m]
  <2>1. w \in Seq(R) /\ Len(w) = m + Len(t)
    BY ConcatProperties
  <2>2. DOMAIN w = 1 .. Len(w)
    <3> HIDE DEF w
    <3> QED
      BY <2>1, LenProperties
  <2> QED
    BY <2>1, <2>2, ConcatProperties
<1>7. /\ x \in Seq(R) /\ Len(x) = k + l
      /\ \A a \in 1 .. k + l : x[a] = IF a <= k THEN u[a] ELSE v[a - k]
  BY <1>1, ConcatProperties
<1> HIDE DEF w, x, k, l, m
<1> DEFINE K == Places(w, S)
           place == [a \in 1 .. k + l |-> IF a <= k THEN f[a] ELSE m + g[a - k]]
<1>8. ASSUME NEW i \in 1 .. m
      PROVE  i \in K <=> i \in Places(s, S)
  <2>1. i \in 1 .. m + Len(t) /\ w[i] = s[i]
    BY <1>1, <1>6
  <2> QED
    BY <1>4, <1>6, <2>1 DEF Places
<1>9. ASSUME NEW i \in 1 .. Len(t)
      PROVE  m + i \in K <=> i \in Places(t, S)
  <2> DEFINE j == m + i
  <2>1. j \in 1 .. m + Len(t) /\ ~(j <= m) /\ j - m = i
    BY <1>1
  <2> HIDE DEF j
  <2>2. w[j] = t[i]
    BY <1>6, <2>1
  <2>3. j \in K <=> i \in Places(t, S)
    BY <1>4, <1>6, <2>1, <2>2 DEF Places
  <2> QED
    BY <2>3 DEF j
<1>10. ASSUME NEW a \in 1 .. k
       PROVE  /\ a \in 1 .. k + l /\ place[a] = f[a] /\ f[a] \in 1 .. m
              /\ place[a] \in K /\ x[a] = w[place[a]]
  <2>1. a \in 1 .. k + l /\ a <= k
    BY <1>1
  <2>2. f[a] \in 1 .. m /\ place[a] = f[a]
    BY <1>4, <1>5, <2>1
  <2>3. f[a] \in 1 .. m + Len(t) /\ f[a] <= m
    BY <1>1, <2>2
  <2>4. x[a] = s[f[a]] /\ w[f[a]] = s[f[a]]
    BY <1>5, <1>6, <1>7, <2>1, <2>3
  <2>5. f[a] \in K
    BY <1>5, <1>8, <2>2
  <2> QED
    BY <2>1, <2>2, <2>4, <2>5
<1>11. ASSUME NEW a \in 1 .. l
       PROVE  /\ k + a \in 1 .. k + l /\ place[k + a] = m + g[a] /\ g[a] \in 1 .. Len(t)
              /\ place[k + a] \in K /\ x[k + a] = w[place[k + a]]
  <2> DEFINE b == k + a
             j == m + g[a]
  <2>1. b \in 1 .. k + l /\ ~(b <= k) /\ b - k = a
    BY <1>1
  <2>2. g[a] \in Places(t, S) /\ v[a] = t[g[a]] /\ g[a] \in 1 .. Len(t)
    BY <1>4, <1>5
  <2>3. j \in 1 .. m + Len(t) /\ ~(j <= m) /\ j - m = g[a]
    BY <1>1, <2>2
  <2> HIDE DEF b
  <2>4. place[b] = j
    BY <2>1
  <2>5. j \in K
    BY <1>9, <2>2
  <2> HIDE DEF j, place
  <2>6. x[b] = t[g[a]] /\ w[j] = t[g[a]]
    BY <1>6, <1>7, <2>1, <2>2, <2>3
  <2>7. /\ b \in 1 .. k + l /\ place[b] = j /\ g[a] \in 1 .. Len(t)
        /\ place[b] \in K /\ x[b] = w[place[b]]
    BY <2>1, <2>2, <2>4, <2>5, <2>6
  <2> QED
    BY <2>7 DEF b, j
<1>12. ASSUME NEW a \in 1 .. k + l
       PROVE  a \in 1 .. k \/ \E b \in 1 .. l : a = k + b
  <2>1. a \notin 1 .. k => a - k \in 1 .. l /\ a = k + (a - k)
    BY <1>1
  <2> QED
    BY <2>1
<1>13. place \in [1 .. k + l -> K] /\ \A a \in 1 .. k + l : x[a] = w[place[a]]
  <2>1. \A a \in 1 .. k + l : place[a] \in K /\ x[a] = w[place[a]]
    <3> HIDE DEF place
    <3> QED
      BY <1>10, <1>11, <1>12
  <2>2. place = [a \in 1 .. k + l |-> place[a]]
    OBVIOUS
  <2> HIDE DEF place
  <2> QED
    BY <2>1, <2>2
<1>14. ASSUME NEW a \in 1 .. k + l, NEW b \in 1 .. k + l, a < b
       PROVE  place[a] < place[b]
  <2> HIDE DEF place
  <2>1. CASE b \in 1 .. k
    <3>1. a \in 1 .. k
      BY <1>1, <1>14, <2>1
    <3> QED
      BY <1>5, <1>10, <1>14, <2>1, <3>1
  <2>2. ASSUME NEW d \in 1 .. l, b = k + d, a \in 1 .. k
        PROVE  place[a] < place[b]
    <3>1. place[a] \in 1 .. m /\ place[b] = m + g[d] /\ g[d] \in 1 .. Len(t)
      BY <1>10, <1>11, <2>2
    <3> QED
      BY <1>1, <3>1
  <2>3. ASSUME NEW d \in 1 .. l, b = k + d, NEW c \in 1 .. l, a = k + c
        PROVE  place[a] < place[b]
    <3>1. /\ place[a] = m + g[c] /\ g[c] \in 1 .. Len(t)
          /\ place[b] = m + g[d] /\ g[d] \in 1 .. Len(t)
      BY <1>11, <2>3
    <3>2. c < d
      BY <1>1, <1>14, <2>3
    <3>3. g[c] < g[d]
      BY <1>5, <3>2
    <3> QED
      BY <1>1, <3>1, <3>3
  <2> QED
    BY <1>12, <2>1, <2>2, <2>3
<1>15. ASSUME NEW i \in K
       PROVE  \E a \in 1 .. k + l : place[a] = i
  <2> HIDE DEF place
  <2>1. i \in 1 .. m + Len(t)
    BY <1>6 DEF Places
  <2>2. CASE i \in 1 .. m
    <3>1. i \in Places(s, S)
      BY <1>8, <2>2
    <3>2. PICK a \in 1 .. k : f[a] = i
      BY <1>5, <3>1
    <3> QED
      BY <1>10, <3>2
  <2>3. CASE i \notin 1 .. m
    <3>1. i - m \in 1 .. Len(t) /\ i = m + (i - m)
      BY <1>1, <2>1, <2>3
    <3>2. i - m \in Places(t, S)
      BY <1>9, <3>1
    <3>3. PICK a \in 1 .. l : g[a] = i - m
      BY <1>5, <3>2
    <3>4. k + a \in 1 .. k + l /\ place[k + a] = m + g[a]
      BY <1>11
    <3>5. place[k + a] = i
      BY <3>1, <3>3, <3>4
    <3> QED
      BY <3>4, <3>5
  <2> QED
    BY <2>2, <2>3
<1>16. Selects(place, x, w, S)
  <2> HIDE DEF place
  <2> QED
    BY <1>7, <1>13, <1>14, <1>15 DEF Selects, Enumerates
<1>17. x = Only(w, S)
  <2> HIDE DEF place
  <2> QED
    BY <1>6, <1>7, <1>16, OnlyIsUnique
<1> QED
  BY <1>17 DEF w, x, u, v

\* What a first test keeps is all that a narrower second one needs.
LEMMA OnlyOfOnly ==
    ASSUME NEW R, NEW seq \in Seq(R), NEW T, NEW S,
           \A r \in R : r \in S => r \in T
    PROVE  Only(Only(seq, T), S) = Only(seq, S)
<1> DEFINE u == Only(seq, T)
           v == Only(u, S)
           k == Len(u)
           l == Len(v)
<1>1. u \in Seq(R) /\ k \in Nat /\ DOMAIN u = 1 .. k /\ DOMAIN seq = 1 .. Len(seq)
  <2>1. u \in Seq(R)
    BY OnlyInOrder
  <2> QED
    BY <2>1, LenProperties
<1>2. PICK f : Selects(f, u, seq, T)
  BY OnlyInOrder
<1> HIDE DEF u
<1>3. v \in Seq(R) /\ l \in Nat
  <2>1. v \in Seq(R)
    BY <1>1, OnlyInOrder
  <2> QED
    BY <2>1, LenProperties
<1>4. PICK g : Selects(g, v, u, S)
  BY <1>1, OnlyInOrder
<1>5. /\ Places(seq, T) \subseteq 1 .. Len(seq)
      /\ \A i \in Places(seq, S) : i \in Places(seq, T)
      /\ \A i \in Places(seq, T) : seq[i] \in S => i \in Places(seq, S)
      /\ \A i \in Places(seq, S) : seq[i] \in S
      /\ Places(u, S) \subseteq 1 .. k
      /\ \A i \in Places(u, S) : u[i] \in S
      /\ \A i \in 1 .. k : u[i] \in S => i \in Places(u, S)
  BY <1>1, PlacesType DEF Places
<1>6. /\ \A a \in 1 .. k : f[a] \in Places(seq, T) /\ u[a] = seq[f[a]]
      /\ \A a, b \in 1 .. k : a < b => f[a] < f[b]
      /\ \A i \in Places(seq, T) : \E a \in 1 .. k : f[a] = i
      /\ \A a \in 1 .. l : g[a] \in Places(u, S) /\ v[a] = u[g[a]]
      /\ \A a, b \in 1 .. l : a < b => g[a] < g[b]
      /\ \A i \in Places(u, S) : \E a \in 1 .. l : g[a] = i
  BY <1>2, <1>4 DEF Selects, Enumerates
<1> HIDE DEF v, k, l
<1> DEFINE place == [a \in 1 .. l |-> f[g[a]]]
<1>7. ASSUME NEW a \in 1 .. l
      PROVE  /\ place[a] = f[g[a]] /\ g[a] \in 1 .. k
             /\ place[a] \in Places(seq, S) /\ v[a] = seq[place[a]]
  <2>1. place[a] = f[g[a]] /\ g[a] \in Places(u, S) /\ g[a] \in 1 .. k
    BY <1>5, <1>6
  <2>2. v[a] = seq[f[g[a]]] /\ u[g[a]] \in S /\ u[g[a]] = seq[f[g[a]]]
    BY <1>5, <1>6, <2>1
  <2> QED
    BY <1>5, <1>6, <2>1, <2>2
<1>8. place \in [1 .. l -> Places(seq, S)]
  BY <1>7
<1> HIDE DEF place
<1>9. ASSUME NEW a \in 1 .. l, NEW b \in 1 .. l, a < b
      PROVE  place[a] < place[b]
  BY <1>6, <1>7, <1>9
<1>10. ASSUME NEW i \in Places(seq, S)
       PROVE  \E a \in 1 .. l : place[a] = i
  <2>1. PICK c \in 1 .. k : f[c] = i
    BY <1>5, <1>6
  <2>2. c \in Places(u, S)
    BY <1>5, <1>6, <2>1
  <2>3. PICK a \in 1 .. l : g[a] = c
    BY <1>6, <2>2
  <2> QED
    BY <1>7, <2>1, <2>3
<1>11. Selects(place, v, seq, S)
  BY <1>7, <1>8, <1>9, <1>10 DEF Selects, Enumerates, l
<1>12. v = Only(seq, S)
  BY <1>3, <1>11, OnlyIsUnique
<1> QED
  BY <1>12 DEF u, v

-----------------------------------------------------------------------------
(* Pages *)

\* The page at an offset of the first n rows, newest first.
PageAt(all, n, offset) == Cut(Reverse(SubSeq(all, 1, n)), offset)

\* The positions, among the first n, of the rows that page shows.
Window(n, offset) == {p \in 1 .. n : n - offset - Limit < p /\ p <= n - offset}

\* A page holds the rows of its window, and no more than the limit.
LEMMA PageIsWindow ==
    ASSUME NEW R, NEW all \in Seq(R), NEW n \in 0 .. Len(all), NEW offset \in Nat
    PROVE  /\ PageAt(all, n, offset) \in Seq(R)
           /\ Len(PageAt(all, n, offset)) <= Limit
           /\ Range(PageAt(all, n, offset)) = {all[p] : p \in Window(n, offset)}
<1> DEFINE first == SubSeq(all, 1, n)
           back == Reverse(first)
           l == IF n < offset + Limit THEN n ELSE offset + Limit
           page == SubSeq(back, offset + 1, l)
<1> USE LimitAssumption
<1>1. n \in Nat /\ Len(all) \in Nat
  BY LenProperties
<1>2. first \in Seq(R) /\ Len(first) = n /\ \A i \in 1 .. n : first[i] = all[i]
  <2>1. \A i \in 1 .. n : all[i] \in R
    BY ElementOfSeq, <1>1
  <2> QED
    BY <1>1, <2>1, SubSeqProperties
<1> HIDE DEF first
<1>3. Len(back) = n /\ \A i \in 1 .. n : back[i] = all[n - i + 1] /\ back[i] \in R
  <2>1. Len(back) = n /\ \A i \in 1 .. n : back[i] = first[n - i + 1]
    BY <1>1, <1>2 DEF Reverse
  <2>2. ASSUME NEW i \in 1 .. n
        PROVE  n - i + 1 \in 1 .. n
    BY <1>1
  <2>3. \A i \in 1 .. n : first[i] \in R
    BY <1>2, ElementOfSeq
  <2> QED
    BY <1>2, <2>1, <2>2, <2>3
<1> HIDE DEF back
<1>4. PageAt(all, n, offset) = page
  BY <1>3 DEF PageAt, Cut, first, back
<1>5. l \in Nat /\ l <= n /\ l <= offset + Limit
  BY <1>1
<1>6. /\ page \in Seq(R)
      /\ Len(page) = IF offset + 1 <= l THEN l - offset ELSE 0
      /\ \A i \in 1 .. l - offset : page[i] = back[offset + i]
  <2>1. \A i \in offset + 1 .. l : back[i] \in R
    <3>1. \A i \in offset + 1 .. l : i \in 1 .. n
      BY <1>1, <1>5
    <3> QED
      BY <1>3, <3>1
  <2> HIDE DEF l
  <2>2. /\ page \in Seq(R)
        /\ Len(page) = IF offset + 1 <= l THEN l - (offset + 1) + 1 ELSE 0
        /\ \A i \in 1 .. l - (offset + 1) + 1 : page[i] = back[offset + 1 + i - 1]
    BY <1>5, <2>1, SubSeqProperties
  <2>3. l - (offset + 1) + 1 = l - offset /\ \A i \in Nat : offset + 1 + i - 1 = offset + i
    BY <1>5
  <2>4. \A i \in 1 .. l - offset : i \in Nat
    OBVIOUS
  <2> QED
    BY <2>2, <2>3, <2>4
<1> HIDE DEF page
<1>7. Len(page) \in Nat /\ Len(page) <= Limit /\ DOMAIN page = 1 .. Len(page)
  <2>1. DOMAIN page = 1 .. Len(page)
    BY <1>6, LenProperties
  <2> QED
    BY <1>1, <1>5, <1>6, <2>1
<1>8. ASSUME NEW i \in 1 .. Len(page)
      PROVE  \E p \in Window(n, offset) : page[i] = all[p]
  <2> DEFINE j == offset + i
             p == n - j + 1
  <2>1. i \in 1 .. l - offset /\ j \in 1 .. n
    BY <1>1, <1>5, <1>6
  <2>2. page[i] = back[j] /\ back[j] = all[p]
    <3> HIDE DEF p, l
    <3>1. page[i] = back[j]
      BY <1>6, <2>1
    <3> HIDE DEF j
    <3> QED
      BY <1>3, <2>1, <3>1 DEF p
  <2>3. p \in Window(n, offset)
    BY <1>1, <1>5, <2>1 DEF Window
  <2> QED
    BY <2>2, <2>3
<1>9. ASSUME NEW p \in Window(n, offset)
      PROVE  \E i \in 1 .. Len(page) : page[i] = all[p]
  <2> DEFINE j == n - p + 1
             i == j - offset
  <2>1. p \in 1 .. n /\ n - offset - Limit < p /\ p <= n - offset
    BY DEF Window
  <2>2. /\ j \in 1 .. n /\ n - j + 1 = p
        /\ i \in 1 .. l - offset /\ i \in 1 .. Len(page) /\ offset + i = j
    BY <1>1, <1>6, <2>1
  <2> HIDE DEF i, j, l
  <2>3. page[i] = back[j] /\ back[j] = all[p]
    BY <1>3, <1>6, <2>2
  <2> QED
    BY <2>2, <2>3
<1>10. Range(page) = {all[p] : p \in Window(n, offset)}
  <2> HIDE DEF l
  <2>1. \A i \in DOMAIN page : \E p \in Window(n, offset) : page[i] = all[p]
    BY <1>7, <1>8
  <2>2. \A p \in Window(n, offset) : \E i \in DOMAIN page : page[i] = all[p]
    BY <1>7, <1>9
  <2> QED
    BY <2>1, <2>2 DEF Range
<1> QED
  BY <1>4, <1>6, <1>7, <1>10

-----------------------------------------------------------------------------
(* The store *)

Statuses == {"absent", "active", "completed", "deleted"}

\* Rows belong to the sessions that are there, and each is there once.
StoreInv ==
    /\ status \in [Sessions -> Statuses]
    /\ claims \in [Sessions -> SUBSET Peers]
    /\ rows \in Seq(Records)
    /\ IsInjective(rows)
    /\ \A row \in Range(rows) : Belongs(row)

\* A batch of the bounded sequences is a sequence.
LEMMA BatchIsSeq ==
    ASSUME NEW R, NEW n \in Nat, NEW batch \in BoundedSeq(R, n)
    PROVE  batch \in Seq(R)
<1>1. PICK m \in 0 .. n : batch \in [1 .. m -> R]
  BY DEF BoundedSeq, SeqOf
<1> QED
  BY <1>1, SeqDef

\* The rows of a session and kind are rows, each once and of that session.
LEMMA RowsOfType ==
    ASSUME StoreInv, NEW s, NEW kind
    PROVE  /\ RowsOf(s, kind) \in Seq(Records)
           /\ Len(RowsOf(s, kind)) \in Nat
           /\ DOMAIN RowsOf(s, kind) = 1 .. Len(RowsOf(s, kind))
           /\ IsInjective(RowsOf(s, kind))
           /\ Range(RowsOf(s, kind)) \subseteq Range(rows)
           /\ \A row \in Range(RowsOf(s, kind)) :
                 row \in Records /\ row.session = s /\ Belongs(row)
<1> DEFINE S == {r \in Records : r.session = s /\ r.kind = kind}
<1>1. rows \in Seq(Records) /\ IsInjective(rows)
  BY DEF StoreInv
<1>2. RowsOf(s, kind) = Only(rows, S)
  BY DEF RowsOf
<1>3. \A row \in S : row \in Records /\ row.session = s
  OBVIOUS
<1> HIDE DEF S
<1>4. Only(rows, S) \in Seq(Records)
  BY <1>1, OnlyInOrder
<1>5. IsInjective(Only(rows, S))
  BY <1>1, OnlyInjective
<1>6. Range(Only(rows, S)) = Range(rows) \cap S
  BY <1>1, OnlyRange
<1>7. Len(Only(rows, S)) \in Nat /\ DOMAIN Only(rows, S) = 1 .. Len(Only(rows, S))
  BY <1>4, LenProperties
<1> QED
  BY <1>2, <1>3, <1>4, <1>5, <1>6, <1>7 DEF StoreInv

\* Whatever the capture does, the store stays well formed.
LEMMA StoreStep ==
    ASSUME StoreInv, [NextStore]_store
    PROVE  StoreInv'
<1> USE DEF StoreInv, Statuses
<1>1. rows \in Seq(Records)
  OBVIOUS
<1>2. \A row \in Range(rows) : row \in Records /\ row.session \in Sessions
  <2>1. Range(rows) \subseteq Records
    BY <1>1, RangeOfSeq
  <2> QED
    BY <2>1, RecordsAssumption
<1>3. ASSUME NEW s \in Sessions, NEW P \in SUBSET Peers, Create(s, P)
      PROVE  StoreInv'
  <2>1. status' \in [Sessions -> Statuses] /\ claims' \in [Sessions -> SUBSET Peers]
    BY <1>3 DEF Create
  <2>2. ASSUME NEW row \in Range(rows) PROVE Belongs(row)'
    <3>1. Belongs(row) /\ row.session \in Sessions
      BY <1>2
    <3>2. row.session # s
      BY <1>3, <3>1 DEF Create, Belongs, Exists
    <3> QED
      BY <1>3, <3>1, <3>2 DEF Create, Belongs, Exists
  <2> QED
    BY <1>3, <2>1, <2>2 DEF Create
<1>4. ASSUME NEW s \in Sessions, End(s)
      PROVE  StoreInv'
  <2>1. status' \in [Sessions -> Statuses]
    BY <1>4 DEF End
  <2>2. ASSUME NEW row \in Range(rows) PROVE Belongs(row)'
    <3>1. Belongs(row) /\ row.session \in Sessions
      BY <1>2
    <3> QED
      BY <1>4, <3>1 DEF End, Belongs, Exists
  <2> QED
    BY <1>4, <2>1, <2>2 DEF End
<1>5. ASSUME NEW S \in SUBSET Sessions, Purge(S)
      PROVE  StoreInv'
  <2> DEFINE K == {r \in Records : r.session \notin S}
  <2>1. status' \in [Sessions -> Statuses] /\ claims' \in [Sessions -> SUBSET Peers]
    BY <1>5 DEF Purge
  <2>2. rows' = Only(rows, K) /\ \A row \in K : row.session \notin S
    BY <1>5 DEF Purge
  <2> HIDE DEF K
  <2>3. rows' \in Seq(Records) /\ IsInjective(rows') /\ Range(rows') = Range(rows) \cap K
    BY <1>1, <2>2, OnlyInOrder, OnlyInjective, OnlyRange
  <2>4. ASSUME NEW row \in Range(rows') PROVE Belongs(row)'
    <3>1. Belongs(row) /\ row.session \in Sessions /\ row.session \notin S
      BY <1>2, <2>2, <2>3
    <3>2. status'[row.session] = status[row.session] /\ claims'[row.session] = claims[row.session]
      BY <1>5, <3>1 DEF Purge
    <3> QED
      BY <3>1, <3>2 DEF Belongs, Exists
  <2> QED
    BY <2>1, <2>3, <2>4
<1>6. ASSUME NEW batch \in BoundedSeq(Records, MaxBatch), Store(batch)
      PROVE  StoreInv'
  <2>1. batch \in Seq(Records)
    BY MaxBatchAssumption, BatchIsSeq
  <2>2. rows' = rows \o batch /\ UNCHANGED <<status, claims>>
    BY <1>6 DEF Store
  <2>3. rows \o batch \in Seq(Records) /\ Range(rows \o batch) = Range(rows) \cup Range(batch)
    BY <1>1, <2>1, ConcatProperties, RangeConcatenation
  <2>4. IsInjective(rows \o batch)
    BY <1>1, <1>6, <2>1, ConcatInjective DEF Store
  <2>5. ASSUME NEW row \in Range(rows \o batch) PROVE Belongs(row)'
    <3>1. Belongs(row)
      BY <1>6, <2>3 DEF Store
    <3> QED
      BY <2>2, <3>1 DEF Belongs, Exists
  <2> QED
    BY <2>2, <2>3, <2>4, <2>5
<1>7. CASE UNCHANGED store
  BY <1>7 DEF store, Belongs, Exists
<1> QED
  BY <1>3, <1>4, <1>5, <1>6, <1>7 DEF NextStore

\* The rows of a session only grow at the end until it is purged; it is never
\* shown with other peers than it has, and once purged it stays so.
LEMMA SessionStep ==
    ASSUME StoreInv, [NextStore]_store, NEW s \in Sessions
    PROVE  /\ status[s] = "deleted" => status'[s] = "deleted"
           /\ status[s] # "absent" =>
                 /\ status'[s] # "absent"
                 /\ claims'[s] = claims[s] \/ status'[s] = "deleted"
           /\ \A kind :
                 \/ status'[s] = "deleted"
                 \/ \E more \in Seq(Records) :
                       RowsOf(s, kind)' = RowsOf(s, kind) \o more
<1> USE DEF StoreInv, Statuses
<1>0. rows \in Seq(Records) /\ StoreInv
  OBVIOUS
<1>1. ASSUME UNCHANGED rows, NEW kind
      PROVE  \E more \in Seq(Records) : RowsOf(s, kind)' = RowsOf(s, kind) \o more
  <2>1. RowsOf(s, kind)' = RowsOf(s, kind)
    BY <1>1 DEF RowsOf
  <2>2. RowsOf(s, kind) \in Seq(Records)
    BY <1>0, RowsOfType
  <2>3. <<>> \in Seq(Records) /\ RowsOf(s, kind) \o <<>> = RowsOf(s, kind)
    BY <2>2, EmptySeq, ConcatEmptySeq
  <2> QED
    BY <2>1, <2>3
<1>2. ASSUME NEW t \in Sessions, NEW P \in SUBSET Peers, Create(t, P)
      PROVE  /\ status[s] = "deleted" => status'[s] = "deleted"
             /\ status[s] # "absent" => status'[s] # "absent" /\ claims'[s] = claims[s]
             /\ UNCHANGED rows
  BY <1>2 DEF Create
<1>3. ASSUME NEW t \in Sessions, End(t)
      PROVE  /\ status[s] = "deleted" => status'[s] = "deleted"
             /\ status[s] # "absent" => status'[s] # "absent" /\ claims'[s] = claims[s]
             /\ UNCHANGED rows
  BY <1>3 DEF End
<1>4. ASSUME NEW S \in SUBSET Sessions, Purge(S)
      PROVE  /\ status[s] = "deleted" => status'[s] = "deleted"
             /\ status[s] # "absent" =>
                   /\ status'[s] # "absent"
                   /\ claims'[s] = claims[s] \/ status'[s] = "deleted"
             /\ \A kind : \/ status'[s] = "deleted"
                          \/ RowsOf(s, kind)' = RowsOf(s, kind)
  <2>1. /\ status'[s] = IF s \in S THEN "deleted" ELSE status[s]
        /\ claims'[s] = IF s \in S THEN {} ELSE claims[s]
    BY <1>4 DEF Purge
  <2>2. ASSUME NEW kind, s \notin S
        PROVE  RowsOf(s, kind)' = RowsOf(s, kind)
    <3> DEFINE K == {r \in Records : r.session \notin S}
               W == {r \in Records : r.session = s /\ r.kind = kind}
    <3>1. rows' = Only(rows, K)
      BY <1>4 DEF Purge
    <3>2. RowsOf(s, kind) = Only(rows, W) /\ RowsOf(s, kind)' = Only(rows', W)
      BY DEF RowsOf
    <3>3. \A r \in Records : r \in W => r \in K
      BY <2>2
    <3> HIDE DEF K, W
    <3>4. Only(Only(rows, K), W) = Only(rows, W)
      BY <1>0, <3>3, OnlyOfOnly
    <3> QED
      BY <3>1, <3>2, <3>4
  <2> QED
    BY <2>1, <2>2
<1>5. ASSUME NEW batch \in BoundedSeq(Records, MaxBatch), Store(batch)
      PROVE  /\ UNCHANGED <<status, claims>>
             /\ \A kind : \E more \in Seq(Records) :
                   RowsOf(s, kind)' = RowsOf(s, kind) \o more
  <2>1. batch \in Seq(Records)
    BY MaxBatchAssumption, BatchIsSeq
  <2>2. rows' = rows \o batch /\ UNCHANGED <<status, claims>>
    BY <1>5 DEF Store
  <2>3. ASSUME NEW kind
        PROVE  \E more \in Seq(Records) : RowsOf(s, kind)' = RowsOf(s, kind) \o more
    <3> DEFINE W == {r \in Records : r.session = s /\ r.kind = kind}
    <3>1. RowsOf(s, kind) = Only(rows, W) /\ RowsOf(s, kind)' = Only(rows', W)
      BY DEF RowsOf
    <3> HIDE DEF W
    <3>2. Only(rows \o batch, W) = Only(rows, W) \o Only(batch, W)
      BY <1>0, <2>1, OnlyConcat
    <3>3. Only(batch, W) \in Seq(Records)
      BY <2>1, OnlyInOrder
    <3> QED
      BY <2>2, <3>1, <3>2, <3>3
  <2> QED
    BY <2>2, <2>3
<1>6. CASE UNCHANGED store
  BY <1>1, <1>6 DEF store
<1>7. CASE \E t \in Sessions, P \in SUBSET Peers : Create(t, P)
  BY <1>1, <1>2, <1>7
<1>8. CASE \E t \in Sessions : End(t)
  BY <1>1, <1>3, <1>8
<1>9. CASE \E S \in SUBSET Sessions : Purge(S)
  <2>1. PICK S \in SUBSET Sessions : Purge(S)
    BY <1>9
  <2>2. \A kind : RowsOf(s, kind) \in Seq(Records) /\ <<>> \in Seq(Records)
    BY <1>0, RowsOfType, EmptySeq
  <2>3. \A kind : RowsOf(s, kind) = RowsOf(s, kind) \o <<>>
    BY <2>2, ConcatEmptySeq
  <2>4. \A kind : RowsOf(s, kind)' = RowsOf(s, kind) =>
           \E more \in Seq(Records) : RowsOf(s, kind)' = RowsOf(s, kind) \o more
    BY <2>2, <2>3
  <2> QED
    BY <1>4, <2>1, <2>4
<1>10. CASE \E batch \in BoundedSeq(Records, MaxBatch) : Store(batch)
  BY <1>5, <1>10
<1> QED
  BY <1>6, <1>7, <1>8, <1>9, <1>10 DEF NextStore

-----------------------------------------------------------------------------
(* Type correctness *)

Results == [query : Queries, total : Nat, items : Pages]
Answers ==
    [step : {"asking", "counted"}, what : Questions, left : SUBSET Sessions,
     shown : UNION {[S -> SUBSET Peers] : S \in SUBSET Sessions},
     queries : Seq(Queries), total : Nat, results : Seq(Results)]

\* Exactly the readers that wait for an answer hold one under way.
LEMMA AnswerFields ==
    ASSUME TypeOK, NEW r \in Readers
    PROVE  /\ Answering(r) <=> view[r] \in Answers
           /\ Answering(r) \/ view[r] \in {Unasked, NotFound, Failed}
           /\ view[r].step \in {"asking", "counted"} => view[r] \in Answers
<1>1. view[r] \in {Unasked, NotFound, Failed} \/ view[r] \in Answers
  BY DEF TypeOK, Answers, Results
<1>2. view[r] \in Answers => Answering(r)
  BY DEF Answers, Answering
<1>3. view[r] \in {Unasked, NotFound, Failed} => ~Answering(r)
  BY DEF Unasked, NotFound, Failed, Answering
<1> QED
  BY <1>1, <1>2, <1>3 DEF Answering

\* A reader changes nothing but its own view.
OnlyViews(r) ==
    /\ UNCHANGED store
    /\ DOMAIN view' = Readers
    /\ \A q \in Readers : q # r => view'[q] = view[q]

\* An answer that has just been begun.
IsNew(w, what, left, queries) ==
    /\ w.step = "asking" /\ w.what = what /\ w.left = left /\ w.queries = queries
    /\ w.shown = <<>> /\ w.results = <<>> /\ w.total = 0

\* What begins an answer begins a well-typed one.
LEMMA AskingIsNew ==
    ASSUME NEW what \in Questions, NEW left \in SUBSET Sessions, NEW queries \in Seq(Queries)
    PROVE  /\ Asking(what, left, queries) \in Answers
           /\ IsNew(Asking(what, left, queries), what, left, queries)
<1>1. <<>> \in [{} -> SUBSET Peers] /\ <<>> \in Seq(Results)
  BY EmptySeq
<1>2. <<>> \in UNION {[S -> SUBSET Peers] : S \in SUBSET Sessions}
  <2>1. {} \in SUBSET Sessions
    OBVIOUS
  <2> QED
    BY <1>1, <2>1
<1> QED
  BY <1>1, <1>2 DEF Asking, Answers, IsNew

\* The queries of the detail page.
LEMMA DetailQueries ==
    ASSUME NEW s \in Sessions
    PROVE  /\ [i \in DOMAIN Kinds |-> Query(s, Kinds[i], 0)] \in Seq(Queries)
           /\ \A q \in Range([i \in DOMAIN Kinds |-> Query(s, Kinds[i], 0)]) : q.session = s
<1> DEFINE qs == [i \in DOMAIN Kinds |-> Query(s, Kinds[i], 0)]
<1>1. DOMAIN Kinds = 1 .. 3
  BY DEF Kinds
<1>2. \A i \in 1 .. 3 : Query(s, Kinds[i], 0) \in Queries
  BY <1>1 DEF Query, Queries, Range
<1>3. qs \in [1 .. 3 -> Queries]
  BY <1>1, <1>2
<1>4. \A i \in DOMAIN qs : qs[i].session = s
  BY DEF Query
<1> HIDE DEF qs
<1>5. qs \in Seq(Queries)
  BY <1>3, SeqDef
<1> QED
  BY <1>4, <1>5 DEF Range, qs

\* A query that returned is moved, with its result, to the end of the results.
LEMMA ReturnMoves ==
    ASSUME TypeOK, NEW r \in Readers, view[r] \in Answers, view[r].queries # <<>>,
           NEW total \in Nat, NEW items \in Pages, Return(r, total, items),
           UNCHANGED store
    PROVE  /\ OnlyViews(r)
           /\ view'[r] \in Answers
           /\ view'[r].step = "asking" /\ view'[r].total = 0
           /\ view'[r].what = view[r].what
           /\ view'[r].left = view[r].left /\ view'[r].shown = view[r].shown
           /\ view'[r].queries = Tail(view[r].queries)
           /\ view'[r].results =
                 Append(view[r].results, Result(Head(view[r].queries), total, items))
           /\ Result(Head(view[r].queries), total, items) \in Results
           /\ Head(view[r].queries) \in Queries
<1> DEFINE v == view[r]
           res == Result(Head(v.queries), total, items)
           w == [v EXCEPT !.step = "asking", !.total = 0, !.queries = Tail(v.queries),
                          !.results = Append(v.results, res)]
<1>1. DOMAIN view = Readers
  BY DEF TypeOK
<1>2. view' = [view EXCEPT ![r] = w]
  BY <1>1 DEF Return
<1>3. v \in Answers /\ v.queries \in Seq(Queries) /\ v.results \in Seq(Results)
  BY DEF Answers
<1>4. Head(v.queries) \in Queries /\ Tail(v.queries) \in Seq(Queries)
  BY <1>3, HeadTailProperties
<1>5. res \in Results
  BY <1>4 DEF Result, Results
<1>6. Append(v.results, res) \in Seq(Results)
  <2> HIDE DEF res
  <2> QED
    BY <1>3, <1>5, AppendProperties
<1>7. view'[r] = w /\ OnlyViews(r)
  BY <1>1, <1>2 DEF OnlyViews
<1> HIDE DEF res
<1>8. w \in Answers
  BY <1>3, <1>4, <1>6 DEF Answers
<1>9. /\ w.step = "asking" /\ w.total = 0 /\ w.what = v.what /\ w.left = v.left
      /\ w.shown = v.shown /\ w.queries = Tail(v.queries) /\ w.results = Append(v.results, res)
  BY <1>3 DEF Answers
<1> QED
  BY <1>4, <1>5, <1>7, <1>8, <1>9 DEF res

\* A page is a page of what its session has at that moment.
LEMMA PageOfIsPage ==
    ASSUME StoreInv, NEW query \in Queries
    PROVE  LET all == RowsOf(query.session, query.kind)
           IN  PageOf(query) = PageAt(all, Len(all), query.offset) /\ PageOf(query) \in Pages
<1> DEFINE all == RowsOf(query.session, query.kind)
           n == Len(all)
<1>1. all \in Seq(Records) /\ n \in 0 .. Len(all) /\ query.offset \in Nat
  BY RowsOfType DEF Queries
<1>2. SubSeq(all, 1, n) = all
  BY <1>1, SubSeqFull
<1>3. PageOf(query) = PageAt(all, n, query.offset)
  BY <1>2 DEF PageOf, PageAt
<1> HIDE DEF all, n
<1>4. PageAt(all, n, query.offset) \in Seq(Records) /\ Len(PageAt(all, n, query.offset)) <= Limit
  BY <1>1, PageIsWindow
<1> QED
  BY <1>3, <1>4 DEF Pages, all, n

-----------------------------------------------------------------------------
(* The steps of a reader *)

\* Peers are read first, then telemetry; a count is followed by its page.
StagesInOrder ==
    \A r \in Readers : Answering(r) =>
        /\ view[r].step = "counted" => view[r].left = {} /\ view[r].queries # <<>>
        /\ view[r].left # {} => view[r].results = <<>>
        /\ view[r].what = "pages" /\ view[r].queries = <<>> => view[r].results # <<>>

\* What a step makes of the answer v of a reader: a new answer w, ...
Begins(w) ==
    \E what \in Questions, left \in SUBSET Sessions, queries \in Seq(Queries) :
        /\ IsNew(w, what, left, queries)
        /\ \A s \in left : Exists(s)
        /\ what = "detail" => \A q \in Range(queries) : q.session \in left
        /\ what = "pages" => \E q \in Queries : q.offset = 0 /\ queries = <<q>>

\* ... one with the peers of one more session, ...
ShowsPeers(w, v) ==
    \E s \in v.left :
        /\ v.step = "asking" /\ w.step = "asking" /\ w.what = v.what
        /\ w.left = v.left \ {s}
        /\ w.shown = WithPeers(v.shown, s, claims[s])
        /\ w.queries = v.queries /\ w.total = v.total /\ w.results = v.results

\* ... one with a count, ...
Counts(w, v) ==
    /\ v.step = "asking" /\ v.left = {} /\ v.queries # <<>>
    /\ w.step = "counted"
    /\ w.total = Len(RowsOf(Head(v.queries).session, Head(v.queries).kind))
    /\ w.what = v.what /\ w.left = v.left /\ w.shown = v.shown
    /\ w.queries = v.queries /\ w.results = v.results

\* ... one with one more result, ...
Gets(w, v, total, items) ==
    /\ v.left = {} /\ v.queries # <<>>
    /\ w.step = "asking" /\ w.total = 0
    /\ w.what = v.what /\ w.left = v.left /\ w.shown = v.shown
    /\ w.queries = Tail(v.queries)
    /\ w.results = Append(v.results, Result(Head(v.queries), total, items))
    /\ Result(Head(v.queries), total, items) \in Results
    /\ Head(v.queries) \in Queries

\* ... or one with one more query.
AsksMore(w, v) ==
    /\ v.step = "asking" /\ v.what = "pages" /\ v.queries = <<>>
    /\ w.queries = <<[Last(v.results).query EXCEPT !.offset = @ + Limit]>>
    /\ w.step = v.step /\ w.total = v.total /\ w.what = v.what /\ w.left = v.left
    /\ w.shown = v.shown /\ w.results = v.results

\* What a step makes of an answer that is under way.
Continues(w, v) ==
    \/ ShowsPeers(w, v)
    \/ Counts(w, v)
    \/ v.step = "counted" /\ Gets(w, v, v.total, PageOf(Head(v.queries)))
    \/ v.what = "detail" /\ Gets(w, v, 0, <<>>)
    \/ AsksMore(w, v)

\* The answers of a reader before and after each of its steps.
Moves(w, v) ==
    \/ w \in {Unasked, NotFound, Failed}
    \/ w \in Answers /\ Begins(w)
    \/ v \in Answers /\ w \in Answers /\ Continues(w, v)

\* A step of a reader is one of these, and leaves the rest alone.
LEMMA ReadingMoves ==
    ASSUME TypeOK, StoreInv, StagesInOrder, NEW r \in Readers, Reading(r)
    PROVE  OnlyViews(r) /\ Moves(view'[r], view[r])
<1> DEFINE v == view[r]
           w == view'[r]
<1>0. DOMAIN view = Readers
  BY DEF TypeOK
<1>1. v.step \in {"asking", "counted"} => v \in Answers
  BY AnswerFields
<1>2. v \in Answers =>
         /\ v.queries \in Seq(Queries) /\ v.results \in Seq(Results) /\ v.total \in Nat
         /\ v.left \in SUBSET Sessions
         /\ v.shown \in UNION {[S -> SUBSET Peers] : S \in SUBSET Sessions}
  BY DEF Answers
<1>3. CASE SelectAll(r)
  <2> DEFINE left == {s \in Sessions : Exists(s)}
  <2>1. w = Asking("list", left, <<>>) /\ OnlyViews(r)
    BY <1>0, <1>3 DEF SelectAll, OnlyViews
  <2>2. "list" \in Questions /\ left \in SUBSET Sessions /\ <<>> \in Seq(Queries)
    BY EmptySeq DEF Questions
  <2>3. \A s \in left : Exists(s)
    OBVIOUS
  <2> HIDE DEF left
  <2>4. w \in Answers /\ IsNew(w, "list", left, <<>>)
    BY <2>1, <2>2, AskingIsNew
  <2>5. Begins(w)
    BY <2>2, <2>3, <2>4 DEF Begins
  <2> QED
    BY <2>1, <2>4, <2>5 DEF Moves
<1>4. ASSUME NEW s \in Sessions, NEW what \in {"session", "detail"}, SelectOne(r, s, what)
      PROVE  OnlyViews(r) /\ Moves(w, v)
  <2> DEFINE qs == IF what = "session" THEN <<>>
                   ELSE [i \in DOMAIN Kinds |-> Query(s, Kinds[i], 0)]
  <2>1. /\ OnlyViews(r)
        /\ w = IF ~Exists(s) THEN NotFound ELSE Asking(what, {s}, qs)
    BY <1>0, <1>4 DEF SelectOne, OnlyViews
  <2>2. CASE ~Exists(s)
    BY <2>1, <2>2 DEF Moves
  <2>3. CASE Exists(s)
    <3>1. qs \in Seq(Queries) /\ \A q \in Range(qs) : q.session = s
      <4>1. CASE what = "session"
        <5>1. qs = <<>> /\ <<>> \in Seq(Queries) /\ Range(<<>>) = {}
          BY <4>1, EmptySeq DEF Range
        <5> QED
          BY <5>1
      <4>2. CASE what # "session"
        BY <4>2, DetailQueries
      <4> QED
        BY <4>1, <4>2
    <3>2. what \in Questions /\ {s} \in SUBSET Sessions /\ what # "pages"
      BY DEF Questions
    <3> HIDE DEF qs
    <3>3. w \in Answers /\ IsNew(w, what, {s}, qs)
      BY <2>1, <2>3, <3>1, <3>2, AskingIsNew
    <3>4. Begins(w)
      BY <2>3, <3>1, <3>2, <3>3 DEF Begins
    <3> QED
      BY <2>1, <3>3, <3>4 DEF Moves
  <2> QED
    BY <2>2, <2>3
<1>5. CASE SelectPeers(r)
  <2>1. v.step = "asking" /\ v \in Answers
    BY <1>1, <1>5 DEF SelectPeers
  <2>2. PICK s \in v.left :
           view' = [view EXCEPT ![r].left = @ \ {s}, ![r].shown = WithPeers(@, s, claims[s])]
    BY <1>5 DEF SelectPeers
  <2> DEFINE new == WithPeers(v.shown, s, claims[s])
  <2>3. new \in UNION {[S -> SUBSET Peers] : S \in SUBSET Sessions}
    <3>1. PICK S \in SUBSET Sessions : v.shown \in [S -> SUBSET Peers]
      BY <1>2, <2>1
    <3>2. s \in Sessions /\ claims[s] \in SUBSET Peers
      BY <1>2, <2>1 DEF StoreInv
    <3>3. new \in [S \cup {s} -> SUBSET Peers] /\ S \cup {s} \in SUBSET Sessions
      BY <3>1, <3>2 DEF WithPeers
    <3> QED
      BY <3>3
  <2>4. /\ w = [v EXCEPT !.left = v.left \ {s}, !.shown = new]
        /\ OnlyViews(r)
    BY <1>0, <1>5, <2>2 DEF OnlyViews, SelectPeers
  <2> HIDE DEF new
  <2>5. w \in Answers
    BY <1>2, <2>1, <2>3, <2>4 DEF Answers
  <2>6. ShowsPeers(w, v)
    BY <2>1, <2>4 DEF ShowsPeers, Answers, new
  <2> QED
    BY <2>1, <2>4, <2>5, <2>6 DEF Moves, Continues
<1>6. CASE SelectFails(r) \/ Leave(r)
  BY <1>0, <1>6 DEF SelectFails, Leave, OnlyViews, Moves
<1>7. ASSUME NEW s \in Sessions, NEW kind \in Range(Kinds), AskPage(r, s, kind)
      PROVE  OnlyViews(r) /\ Moves(w, v)
  <2> DEFINE q == Query(s, kind, 0)
  <2>1. w = Asking("pages", {}, <<q>>) /\ OnlyViews(r)
    BY <1>0, <1>7 DEF AskPage, OnlyViews
  <2>2. q \in Queries /\ q.offset = 0
    BY DEF Query, Queries
  <2> HIDE DEF q
  <2>3. "pages" \in Questions /\ {} \in SUBSET Sessions /\ <<q>> \in Seq(Queries)
    BY <2>2 DEF Questions
  <2>4. w \in Answers /\ IsNew(w, "pages", {}, <<q>>)
    BY <2>1, <2>3, AskingIsNew
  <2>5. Begins(w)
    BY <2>2, <2>3, <2>4 DEF Begins
  <2> QED
    BY <2>1, <2>4, <2>5 DEF Moves
<1>8. CASE Count(r)
  <2>1. v.step = "asking" /\ v \in Answers /\ v.left = {} /\ v.queries # <<>>
    BY <1>1, <1>8 DEF Count
  <2> DEFINE n == Len(RowsOf(Head(v.queries).session, Head(v.queries).kind))
  <2>2. n \in Nat
    BY RowsOfType
  <2>3. w = [v EXCEPT !.step = "counted", !.total = n] /\ OnlyViews(r)
    BY <1>0, <1>8 DEF Count, OnlyViews
  <2> HIDE DEF n
  <2>4. w \in Answers
    BY <1>2, <2>1, <2>2, <2>3 DEF Answers
  <2>5. Counts(w, v)
    BY <2>1, <2>3 DEF Counts, Answers, n
  <2> QED
    BY <2>1, <2>3, <2>4, <2>5 DEF Moves, Continues
<1>9. CASE SelectPage(r)
  <2>1. v.step = "counted" /\ v \in Answers
    BY <1>1, <1>9 DEF SelectPage
  <2>2. v.left = {} /\ v.queries # <<>>
    BY <2>1 DEF StagesInOrder, Answering
  <2>3. Head(v.queries) \in Queries /\ v.total \in Nat
    BY <1>2, <2>1, <2>2, HeadTailProperties
  <2> DEFINE page == PageOf(Head(v.queries))
  <2>4. page \in Pages
    BY <2>3, PageOfIsPage
  <2>5. Return(r, v.total, page) /\ UNCHANGED store
    BY <1>9 DEF SelectPage
  <2> HIDE DEF page
  <2>6. OnlyViews(r) /\ w \in Answers /\ Gets(w, v, v.total, page)
    BY <2>1, <2>2, <2>3, <2>4, <2>5, ReturnMoves DEF Gets
  <2> QED
    BY <2>1, <2>6 DEF Moves, Continues, page
<1>10. CASE QueryFails(r)
  <2>1. v \in Answers /\ v.left = {} /\ v.queries # <<>>
    BY <1>1, <1>10 DEF QueryFails, StagesInOrder, Answering
  <2>2. CASE v.what = "detail"
    <3>1. Return(r, 0, <<>>) /\ UNCHANGED store
      BY <1>10, <2>2 DEF QueryFails
    <3>2. <<>> \in Pages
      BY EmptySeq, LimitAssumption DEF Pages
    <3>3. OnlyViews(r) /\ w \in Answers /\ Gets(w, v, 0, <<>>)
      BY <2>1, <3>1, <3>2, ReturnMoves DEF Gets
    <3> QED
      BY <2>1, <2>2, <3>3 DEF Moves, Continues
  <2>3. CASE v.what # "detail"
    BY <1>0, <1>10, <2>3 DEF QueryFails, OnlyViews, Moves
  <2> QED
    BY <2>2, <2>3
<1>11. CASE AskNextPage(r)
  <2>1. v.step = "asking" /\ v.what = "pages" /\ v.queries = <<>> /\ v \in Answers
    BY <1>1, <1>11 DEF AskNextPage
  <2>2. v.results # <<>>
    BY <2>1 DEF StagesInOrder, Answering
  <2> DEFINE q == [Last(v.results).query EXCEPT !.offset = @ + Limit]
  <2>3. q \in Queries
    <3>1. Len(v.results) \in 1 .. Len(v.results)
      BY <1>2, <2>1, <2>2, EmptySeq
    <3>2. Last(v.results) \in Results
      BY <1>2, <2>1, <3>1, ElementOfSeq DEF Last
    <3> QED
      BY <3>2, LimitAssumption DEF Results, Queries
  <2>4. w = [v EXCEPT !.queries = <<q>>] /\ OnlyViews(r)
    BY <1>0, <1>11 DEF AskNextPage, OnlyViews
  <2> HIDE DEF q
  <2>5. <<q>> \in Seq(Queries)
    BY <2>3
  <2>6. w \in Answers
    BY <1>2, <2>1, <2>4, <2>5 DEF Answers
  <2>7. AsksMore(w, v)
    BY <2>1, <2>4 DEF AsksMore, Answers, q
  <2> QED
    BY <2>1, <2>4, <2>6, <2>7 DEF Moves, Continues
<1> QED
  BY <1>3, <1>4, <1>5, <1>6, <1>7, <1>8, <1>9, <1>10, <1>11 DEF Reading

\* Every step is one of the capture or one of a reader.
LEMMA StepsOfViews ==
    ASSUME TypeOK, StoreInv, StagesInOrder, [NextViews]_vars
    PROVE  /\ [NextStore]_store
           /\ \/ UNCHANGED view
              \/ \E r \in Readers : OnlyViews(r) /\ Moves(view'[r], view[r])
<1>1. CASE Capturing
  BY <1>1 DEF Capturing
<1>2. ASSUME NEW r \in Readers, Reading(r)
      PROVE  OnlyViews(r) /\ Moves(view'[r], view[r])
  BY <1>2, ReadingMoves
<1>3. CASE UNCHANGED vars
  BY <1>3 DEF vars
<1> QED
  BY <1>1, <1>2, <1>3 DEF NextViews, OnlyViews

\* Every step keeps the types.
LEMMA TypeStep ==
    ASSUME TypeOK, StoreInv, StagesInOrder, [NextViews]_vars
    PROVE  TypeOK'
<1>1. StoreInv'
  BY StepsOfViews, StoreStep
<1>2. DOMAIN view' = Readers
  BY StepsOfViews DEF OnlyViews, TypeOK
<1>3. ASSUME NEW q \in Readers
      PROVE  view'[q] \in {Unasked, NotFound, Failed} \/ view'[q] \in Answers
  <2>1. view[q] \in {Unasked, NotFound, Failed} \/ view[q] \in Answers
    BY AnswerFields
  <2>2. CASE UNCHANGED view
    BY <2>1, <2>2
  <2>3. ASSUME NEW r \in Readers, OnlyViews(r), Moves(view'[r], view[r])
        PROVE  view'[q] \in {Unasked, NotFound, Failed} \/ view'[q] \in Answers
    BY <2>1, <2>3 DEF OnlyViews, Moves
  <2> QED
    BY <2>2, <2>3, StepsOfViews
<1> QED
  BY <1>1, <1>2, <1>3 DEF TypeOK, StoreInv, Statuses, Answers, Results

\* A reader that waits for an answer after a step waited for it before, or has
\* just moved while the store stayed as it is.
LEMMA ReaderStep ==
    ASSUME TypeOK, StoreInv, StagesInOrder, [NextViews]_vars, NEW q \in Readers, Answering(q)'
    PROVE  \/ Answering(q) /\ view[q] \in Answers /\ view'[q] = view[q]
           \/ /\ UNCHANGED store /\ view'[q] \in Answers
              /\ \/ Begins(view'[q])
                 \/ Answering(q) /\ view[q] \in Answers /\ Continues(view'[q], view[q])
<1>1. CASE view'[q] = view[q]
  BY <1>1, AnswerFields DEF Answering
<1>2. CASE view'[q] # view[q]
  <2>1. UNCHANGED store /\ Moves(view'[q], view[q])
    BY <1>2, StepsOfViews DEF OnlyViews
  <2>2. view'[q] \notin {Unasked, NotFound, Failed}
    BY DEF Answering, Unasked, NotFound, Failed
  <2>3. view[q] \in Answers => Answering(q)
    BY AnswerFields
  <2> QED
    BY <2>1, <2>2, <2>3 DEF Moves
<1> QED
  BY <1>1, <1>2

\* Every step keeps a request's stages in order.
LEMMA StagesStep ==
    ASSUME TypeOK, StoreInv, StagesInOrder, [NextViews]_vars
    PROVE  StagesInOrder'
<1> DEFINE Ordered(v) ==
        /\ v.step = "counted" => v.left = {} /\ v.queries # <<>>
        /\ v.left # {} => v.results = <<>>
        /\ v.what = "pages" /\ v.queries = <<>> => v.results # <<>>
<1>1. ASSUME NEW w, Begins(w)
      PROVE  Ordered(w)
  <2>1. \A q : <<q>> # <<>>
    OBVIOUS
  <2> QED
    BY <1>1, <2>1 DEF Begins, IsNew
<1>2. ASSUME NEW v \in Answers, NEW w \in Answers, Ordered(v), Continues(w, v)
      PROVE  Ordered(w)
  <2>1. CASE ShowsPeers(w, v)
    BY <1>2, <2>1 DEF ShowsPeers
  <2>2. CASE Counts(w, v)
    BY <1>2, <2>2 DEF Counts
  <2>3. ASSUME NEW total, NEW items, Gets(w, v, total, items)
        PROVE  Ordered(w)
    <3> DEFINE res == Result(Head(v.queries), total, items)
    <3>1. v.results \in Seq(Results) /\ res \in Results
      BY <2>3 DEF Gets, Answers
    <3> HIDE DEF res
    <3>2. Append(v.results, res) # <<>>
      BY <3>1, AppendProperties
    <3>3. w.results # <<>> /\ w.step = "asking" /\ w.left = {}
      BY <2>3, <3>2 DEF Gets, res
    <3> QED
      BY <3>3
  <2>4. CASE AsksMore(w, v)
    <3>1. w.step = "asking" /\ w.left = v.left /\ w.results = v.results
      BY <2>4 DEF AsksMore
    <3>2. v.results # <<>>
      BY <1>2, <2>4 DEF AsksMore
    <3> QED
      BY <3>1, <3>2, <1>2
  <2> HIDE DEF Ordered
  <2> QED
    BY <1>2, <2>1, <2>2, <2>3, <2>4 DEF Continues
<1>3. ASSUME NEW q \in Readers, Answering(q)'
      PROVE  Ordered(view'[q])
  <2>1. Answering(q) => Ordered(view[q])
    BY DEF StagesInOrder
  <2> HIDE DEF Ordered
  <2> QED
    BY <1>1, <1>2, <1>3, <2>1, ReaderStep
<1> QED
  BY <1>3 DEF StagesInOrder

-----------------------------------------------------------------------------
(* Sessions are shown with their peers *)

\* Nobody asks for the peers of a session that has yet to be created.
AskedSessionsExisted ==
    \A r \in Readers : Answering(r) =>
        \A s \in view[r].left \cup DOMAIN view[r].shown : status[s] # "absent"

\* The sessions of an answer are sessions.
LEMMA AskedSessions ==
    ASSUME NEW v \in Answers
    PROVE  v.left \cup DOMAIN v.shown \subseteq Sessions
<1>1. PICK S \in SUBSET Sessions : v.shown \in [S -> SUBSET Peers]
  BY DEF Answers
<1> QED
  BY <1>1 DEF Answers

\* Every step keeps what is shown of a session what it is, or was.
LEMMA PeersStep ==
    ASSUME TypeOK, StoreInv, StagesInOrder, AskedSessionsExisted, ShownWithItsPeers,
           [NextViews]_vars
    PROVE  AskedSessionsExisted' /\ ShownWithItsPeers'
<1> DEFINE Right(v, st, cl) == \A s \in v.left \cup DOMAIN v.shown :
        /\ st[s] # "absent"
        /\ s \in DOMAIN v.shown => v.shown[s] = cl[s] \/ st[s] = "deleted"
<1>1. ASSUME NEW q \in Readers, Answering(q)
      PROVE  Right(view[q], status, claims)
  BY <1>1 DEF AskedSessionsExisted, ShownWithItsPeers
<1>2. ASSUME NEW v \in Answers, Right(v, status, claims)
      PROVE  Right(v, status', claims')
  <2>1. [NextStore]_store
    BY StepsOfViews
  <2>2. ASSUME NEW s \in v.left \cup DOMAIN v.shown
        PROVE  /\ status'[s] # "absent"
               /\ claims'[s] = claims[s] \/ status'[s] = "deleted"
               /\ status[s] = "deleted" => status'[s] = "deleted"
    <3>1. s \in Sessions /\ status[s] # "absent"
      BY <1>2, AskedSessions
    <3> QED
      BY <2>1, <3>1, SessionStep
  <2> QED
    BY <1>2, <2>2
<1>3. ASSUME NEW w, Begins(w)
      PROVE  Right(w, status, claims)
  <2>1. w.shown = <<>> /\ \A s \in w.left : Exists(s)
    BY <1>3 DEF Begins, IsNew
  <2> QED
    BY <2>1 DEF Exists
<1>4. ASSUME NEW v \in Answers, NEW w \in Answers, Right(v, status, claims), Continues(w, v)
      PROVE  Right(w, status, claims)
  <2>1. CASE ShowsPeers(w, v)
    <3>1. PICK s \in v.left : w.left = v.left \ {s} /\ w.shown = WithPeers(v.shown, s, claims[s])
      BY <2>1 DEF ShowsPeers
    <3>2. /\ DOMAIN w.shown = DOMAIN v.shown \cup {s}
          /\ \A t \in DOMAIN w.shown : w.shown[t] = IF t = s THEN claims[s] ELSE v.shown[t]
      BY <3>1 DEF WithPeers
    <3> QED
      BY <1>4, <3>1, <3>2
  <2>2. CASE w.left = v.left /\ w.shown = v.shown
    BY <1>4, <2>2
  <2> HIDE DEF Right
  <2> QED
    BY <1>4, <2>1, <2>2 DEF Continues, Counts, Gets, AsksMore
<1>5. ASSUME NEW q \in Readers, Answering(q)'
      PROVE  Right(view'[q], status', claims')
  <2> HIDE DEF Right
  <2> QED
    BY <1>1, <1>2, <1>3, <1>4, <1>5, ReaderStep DEF store
<1> QED
  BY <1>5 DEF AskedSessionsExisted, ShownWithItsPeers

-----------------------------------------------------------------------------
(* The detail page shows rows of the peers that it shows *)

\* What the detail page still has to query is of the session it shows.
DetailAsksShown ==
    \A r \in Readers : Answering(r) /\ view[r].what = "detail" =>
        \A q \in Range(view[r].queries) : q.session \in view[r].left \cup DOMAIN view[r].shown

\* Moving the first query of a list to a list of results.
LEMMA RangesOfReturn ==
    ASSUME NEW v \in Answers, v.queries # <<>>, NEW res \in Results
    PROVE  /\ Head(v.queries) \in Range(v.queries)
           /\ Range(Tail(v.queries)) \subseteq Range(v.queries)
           /\ Range(Append(v.results, res)) = Range(v.results) \cup {res}
<1> DEFINE s == v.queries
           t == v.results
<1>1. s \in Seq(Queries) /\ t \in Seq(Results)
  BY DEF Answers
<1>2. DOMAIN s = 1 .. Len(s) /\ DOMAIN t = 1 .. Len(t) /\ Len(s) \in Nat /\ Len(t) \in Nat
  BY <1>1, LenProperties
<1>3. Len(s) # 0
  BY <1>1, EmptySeq
<1> HIDE DEF s, t
<1>4. Head(s) = s[1] /\ 1 \in DOMAIN s
  BY <1>2, <1>3
<1>5. ASSUME NEW i \in DOMAIN Tail(s) PROVE Tail(s)[i] \in Range(s)
  <2>1. Tail(s) \in Seq(Queries) /\ Len(Tail(s)) = Len(s) - 1
        /\ \A k \in 1 .. Len(Tail(s)) : Tail(s)[k] = s[k + 1]
    BY <1>1, <1>3, HeadTailProperties, EmptySeq
  <2>2. i \in 1 .. Len(Tail(s))
    BY <2>1, LenProperties
  <2> DEFINE k == i + 1
  <2>3. k \in DOMAIN s /\ Tail(s)[i] = s[k]
    BY <1>2, <2>1, <2>2
  <2> QED
    BY <2>3 DEF Range
<1>6. Range(Append(t, res)) = Range(t) \cup {res}
  BY <1>1, RangeOfAppend
<1> QED
  BY <1>4, <1>5, <1>6 DEF s, t, Range

\* A page shows rows of its query.
LEMMA RowsOfPage ==
    ASSUME StoreInv, NEW query \in Queries, NEW row \in Range(PageOf(query))
    PROVE  row \in Records /\ row.session = query.session /\ Belongs(row)
<1> DEFINE all == RowsOf(query.session, query.kind)
           n == Len(all)
<1>1. all \in Seq(Records) /\ n \in Nat /\ DOMAIN all = 1 .. n /\ query.offset \in Nat
  BY RowsOfType DEF Queries
<1>2. PageOf(query) = PageAt(all, n, query.offset)
  BY PageOfIsPage
<1>3. \A x \in Range(all) : x \in Records /\ x.session = query.session /\ Belongs(x)
  BY RowsOfType
<1> HIDE DEF all
<1>4. n \in 0 .. Len(all)
  BY <1>1
<1>5. Range(PageOf(query)) = {all[p] : p \in Window(n, query.offset)}
  BY <1>1, <1>2, <1>4, PageIsWindow
<1>6. Window(n, query.offset) \subseteq DOMAIN all
  BY <1>1 DEF Window
<1> QED
  BY <1>3, <1>5, <1>6 DEF Range

\* Every step keeps the rows of the detail page those of peers that it shows.
LEMMA DetailStep ==
    ASSUME TypeOK, StoreInv, StagesInOrder, ShownWithItsPeers, DetailAsksShown,
           RowsComeFromShownPeers, [NextViews]_vars
    PROVE  DetailAsksShown' /\ RowsComeFromShownPeers'
<1> DEFINE Shows(res, v) == \A row \in Range(res.items) :
        row.session = res.query.session /\ row.peer \in v.shown[row.session]
           Right(v) == v.what = "detail" =>
        /\ \A q \in Range(v.queries) : q.session \in v.left \cup DOMAIN v.shown
        /\ \A res \in Range(v.results) : Shows(res, v)
<1>1. ASSUME NEW w, Begins(w)
      PROVE  Right(w)
  <2>1. Range(<<>>) = {}
    BY DEF Range
  <2>2. w.results = <<>> /\ (w.what = "detail" => \A q \in Range(w.queries) : q.session \in w.left)
    BY <1>1 DEF Begins, IsNew
  <2> QED
    BY <2>1, <2>2
<1>2. ASSUME NEW v \in Answers, NEW w \in Answers, Right(v), Continues(w, v),
             v.left # {} => v.results = <<>>,
             \A s \in DOMAIN v.shown : v.shown[s] = claims[s] \/ status[s] = "deleted"
      PROVE  Right(w)
  <2>1. CASE ShowsPeers(w, v)
    <3>1. PICK s \in v.left : w.left = v.left \ {s} /\ w.shown = WithPeers(v.shown, s, claims[s])
      BY <2>1 DEF ShowsPeers
    <3>2. DOMAIN w.shown = DOMAIN v.shown \cup {s}
      BY <3>1 DEF WithPeers
    <3>3. w.what = v.what /\ w.queries = v.queries /\ w.results = v.results
      BY <2>1 DEF ShowsPeers
    <3>4. Range(w.results) = {}
      BY <1>2, <3>1, <3>3 DEF Range
    <3> HIDE DEF Shows
    <3> QED
      BY <1>2, <3>1, <3>2, <3>3, <3>4
  <2>2. ASSUME NEW total, NEW items, Gets(w, v, total, items), v.what = "detail",
               items = <<>> \/ items = PageOf(Head(v.queries))
        PROVE  Right(w)
    <3> DEFINE q == Head(v.queries)
               res == Result(q, total, items)
    <3>1. /\ v.left = {} /\ v.queries # <<>> /\ w.left = v.left /\ w.shown = v.shown
          /\ w.queries = Tail(v.queries) /\ w.results = Append(v.results, res)
          /\ res \in Results /\ q \in Queries
      BY <2>2 DEF Gets
    <3>2. res.query = q /\ res.items = items
      BY DEF Result
    <3> HIDE DEF res
    <3>3. /\ q \in Range(v.queries) /\ Range(w.queries) \subseteq Range(v.queries)
          /\ Range(w.results) = Range(v.results) \cup {res}
      BY <3>1, RangesOfReturn
    <3>4. q.session \in DOMAIN v.shown
      BY <1>2, <2>2, <3>1, <3>3
    <3>5. ASSUME NEW row \in Range(items)
          PROVE  row.session = q.session /\ row.peer \in v.shown[row.session]
      <4>1. items = PageOf(q)
        <5>1. Range(<<>>) = {}
          BY DEF Range
        <5> QED
          BY <2>2, <3>5, <5>1
      <4>2. row.session = q.session /\ Belongs(row)
        BY <3>1, <4>1, <3>5, RowsOfPage
      <4>3. v.shown[q.session] = claims[q.session]
        BY <1>2, <3>4, <4>2 DEF Belongs, Exists
      <4> QED
        BY <4>2, <4>3 DEF Belongs
    <3>6. Shows(res, w)
      BY <3>1, <3>2, <3>5
    <3>7. \A x \in Range(v.results) : Shows(x, w)
      BY <1>2, <2>2, <3>1
    <3> HIDE DEF Shows, q
    <3> QED
      BY <1>2, <2>2, <3>1, <3>3, <3>6, <3>7
  <2>3. CASE /\ w.what = v.what /\ w.left = v.left /\ w.shown = v.shown
             /\ w.queries = v.queries /\ w.results = v.results
    BY <1>2, <2>3
  <2>4. CASE AsksMore(w, v)
    BY <2>4 DEF AsksMore
  <2>5. CASE v.what # "detail" /\ w.what = v.what
    BY <2>5
  <2> HIDE DEF Right
  <2>6. CASE v.step = "counted" /\ Gets(w, v, v.total, PageOf(Head(v.queries)))
    <3>1. w.what = v.what
      BY <2>6 DEF Gets
    <3> QED
      BY <2>2, <2>5, <2>6, <3>1
  <2> QED
    BY <1>2, <2>1, <2>2, <2>3, <2>4, <2>6 DEF Continues, Counts
<1>3. ASSUME NEW q \in Readers, Answering(q)'
      PROVE  Right(view'[q])
  <2>1. Answering(q) =>
           /\ Right(view[q])
           /\ view[q].left # {} => view[q].results = <<>>
           /\ \A s \in DOMAIN view[q].shown :
                 view[q].shown[s] = claims[s] \/ status[s] = "deleted"
    BY DEF DetailAsksShown, RowsComeFromShownPeers, ShownWithItsPeers, StagesInOrder
  <2> HIDE DEF Right
  <2> QED
    BY <1>1, <1>2, <1>3, <2>1, ReaderStep
<1> QED
  BY <1>3 DEF DetailAsksShown, RowsComeFromShownPeers

-----------------------------------------------------------------------------
(* Counts and pages *)

\* A count is of a moment no later than now, until the session is purged.
CountIsPast ==
    \A r \in Readers : view[r].step = "counted" =>
        LET query == Head(view[r].queries)
        IN  \/ status[query.session] = "deleted"
            \/ view[r].total <= Len(RowsOf(query.session, query.kind))

\* The rows of a session are those before and more, until it is purged.
Grows(s, kind) ==
    \/ status'[s] = "deleted"
    \/ \E more \in Seq(Records) : RowsOf(s, kind)' = RowsOf(s, kind) \o more

\* What the first rows of a session are does not change as more are added.
LEMMA PagesStay ==
    ASSUME NEW R, NEW all \in Seq(R), NEW more \in Seq(R)
    PROVE  /\ all \o more \in Seq(R)
           /\ Len(all) \in Nat /\ Len(all \o more) \in Nat
           /\ Len(all) <= Len(all \o more)
           /\ DOMAIN all = 1 .. Len(all) /\ DOMAIN (all \o more) = 1 .. Len(all \o more)
           /\ \A i \in DOMAIN all : (all \o more)[i] = all[i]
           /\ \A n \in 0 .. Len(all), offset \in Nat :
                 PageAt(all \o more, n, offset) = PageAt(all, n, offset)
<1>1. /\ all \o more \in Seq(R) /\ Len(all \o more) = Len(all) + Len(more)
      /\ Len(all) \in Nat /\ Len(more) \in Nat /\ Len(all \o more) \in Nat
      /\ Len(all) <= Len(all \o more)
      /\ \A i \in 1 .. Len(all) + Len(more) :
            (all \o more)[i] = IF i <= Len(all) THEN all[i] ELSE more[i - Len(all)]
  BY ConcatProperties, LenProperties
<1>2. DOMAIN all = 1 .. Len(all) /\ DOMAIN (all \o more) = 1 .. Len(all \o more)
  BY <1>1, LenProperties
<1>3. \A i \in DOMAIN all : (all \o more)[i] = all[i]
  BY <1>1, <1>2
<1>4. ASSUME NEW n \in 0 .. Len(all)
      PROVE  SubSeq(all \o more, 1, n) = SubSeq(all, 1, n)
  <2>1. CASE n = 0
    <3>1. SubSeq(all \o more, 1, 0) = <<>> /\ SubSeq(all, 1, 0) = <<>>
      BY SubSeqEmpty
    <3> QED
      BY <2>1, <3>1
  <2>2. CASE n # 0
    <3>1. n \in 1 .. Len(all) /\ 1 \in 1 .. Len(all)
      BY <1>1, <2>2
    <3> QED
      BY <3>1, SubSeqOfConcat1
  <2> QED
    BY <2>1, <2>2
<1>5. \A n \in 0 .. Len(all), offset \in Nat :
         PageAt(all \o more, n, offset) = PageAt(all, n, offset)
  BY <1>4 DEF PageAt
<1> QED
  BY <1>1, <1>2, <1>3, <1>5

\* A page of no rows is empty.
LEMMA PageOfNothing ==
    ASSUME NEW all \in Seq(Records), NEW offset \in Nat
    PROVE  PageAt(all, 0, offset) = <<>>
<1>1. 0 \in 0 .. Len(all)
  BY LenProperties
<1> DEFINE page == PageAt(all, 0, offset)
<1>2. page \in Seq(Records) /\ Range(page) = {all[p] : p \in Window(0, offset)}
  BY <1>1, PageIsWindow
<1>3. Window(0, offset) = {}
  BY DEF Window
<1> HIDE DEF page
<1>4. DOMAIN page = {}
  BY <1>2, <1>3 DEF Range
<1>5. DOMAIN page = 1 .. Len(page) /\ Len(page) \in Nat
  BY <1>2, LenProperties
<1>6. Len(page) = 0
  BY <1>4, <1>5
<1> QED
  BY <1>2, <1>6, EmptySeq DEF page

\* Every step keeps a result one of a moment, and a count one of the past.
LEMMA MomentStep ==
    ASSUME TypeOK, StoreInv, StagesInOrder, CountIsPast, PageIsOfOneMoment, [NextViews]_vars
    PROVE  CountIsPast' /\ PageIsOfOneMoment'
<1> DEFINE OfMoment(res, st, all) ==
        \/ st[res.query.session] = "deleted"
        \/ \E n \in res.total .. Len(all) : res.items = PageAt(all, n, res.query.offset)
           Past(q, total, st, all) == st[q.session] = "deleted" \/ total <= Len(all)
           Rows(q) == RowsOf(q.session, q.kind)
           Right(v) ==
               /\ v.step = "counted" =>
                     Past(Head(v.queries), v.total, status, Rows(Head(v.queries)))
               /\ \A res \in Range(v.results) : OfMoment(res, status, Rows(res.query))
           RowsNext(q) == Only(rows', {r \in Records : r.session = q.session /\ r.kind = q.kind})
           RightNext(v) ==
               /\ v.step = "counted" =>
                     Past(Head(v.queries), v.total, status', RowsNext(Head(v.queries)))
               /\ \A res \in Range(v.results) : OfMoment(res, status', RowsNext(res.query))
<1>0. ASSUME NEW q
      PROVE  RowsNext(q) = RowsOf(q.session, q.kind)'
  BY DEF RowsOf
<1>1. [NextStore]_store
  BY StepsOfViews
<1>2. ASSUME NEW q \in Queries
      PROVE  /\ status[q.session] = "deleted" => status'[q.session] = "deleted"
             /\ Grows(q.session, q.kind)
             /\ Rows(q) \in Seq(Records)
             /\ q.session \in Sessions /\ q.offset \in Nat
  <2>1. q.session \in Sessions /\ q.offset \in Nat
    BY DEF Queries
  <2> QED
    BY <1>1, <2>1, SessionStep, RowsOfType DEF Grows
<1>3. ASSUME NEW q \in Queries, NEW total \in Nat, Past(q, total, status, Rows(q))
      PROVE  Past(q, total, status', RowsNext(q))
  <2>1. CASE status'[q.session] = "deleted"
    BY <2>1
  <2>2. ASSUME NEW more \in Seq(Records), RowsNext(q) = Rows(q) \o more,
               status'[q.session] # "deleted"
        PROVE  total <= Len(RowsNext(q))
    <3>1. total <= Len(Rows(q)) /\ Rows(q) \in Seq(Records)
      BY <1>2, <1>3, <2>2
    <3> DEFINE all == Rows(q)
    <3>2. RowsNext(q) = all \o more /\ all \in Seq(Records) /\ total <= Len(all)
      BY <2>2, <3>1
    <3> HIDE DEF all
    <3>3. Len(all) \in Nat /\ Len(all \o more) \in Nat /\ Len(all) <= Len(all \o more)
      BY <3>2, PagesStay
    <3> QED
      BY <3>2, <3>3
  <2> QED
    BY <1>0, <1>2, <2>1, <2>2 DEF Grows
<1>4. ASSUME NEW res \in Results, OfMoment(res, status, Rows(res.query))
      PROVE  OfMoment(res, status', RowsNext(res.query))
  <2> DEFINE q == res.query
  <2>1. q \in Queries /\ res.total \in Nat
    BY DEF Results
  <2>2. CASE status'[q.session] = "deleted"
    BY <2>2
  <2>3. ASSUME NEW more \in Seq(Records), RowsNext(q) = Rows(q) \o more,
               status'[q.session] # "deleted"
        PROVE  \E n \in res.total .. Len(RowsNext(q)) : res.items = PageAt(RowsNext(q), n, q.offset)
    <3> DEFINE all == Rows(q)
    <3>1. PICK n \in res.total .. Len(all) : res.items = PageAt(all, n, q.offset)
      BY <1>2, <1>4, <2>1, <2>3
    <3>2. RowsNext(q) = all \o more /\ all \in Seq(Records) /\ q.offset \in Nat
      BY <1>2, <2>1, <2>3
    <3> HIDE DEF all, q
    <3>3. /\ Len(all) \in Nat /\ Len(all \o more) \in Nat /\ Len(all) <= Len(all \o more)
          /\ \A m \in 0 .. Len(all), offset \in Nat :
                PageAt(all \o more, m, offset) = PageAt(all, m, offset)
      BY <3>2, PagesStay
    <3>4. n \in 0 .. Len(all) /\ n \in res.total .. Len(all \o more)
      BY <2>1, <3>3
    <3>5. PageAt(all \o more, n, q.offset) = PageAt(all, n, q.offset)
      BY <3>2, <3>3, <3>4
    <3> QED
      BY <3>1, <3>2, <3>4, <3>5
  <2> QED
    BY <1>0, <1>2, <2>1, <2>2, <2>3 DEF Grows
<1>5. ASSUME NEW v \in Answers, Right(v), v.step = "counted" => v.queries # <<>>
      PROVE  RightNext(v)
  <2>1. \A res \in Range(v.results) : res \in Results
    BY RangeOfSeq DEF Answers
  <2>2. v.total \in Nat /\ (v.step = "counted" => Head(v.queries) \in Queries)
    BY <1>5, HeadTailProperties DEF Answers
  <2>3. v.step = "counted" => Past(Head(v.queries), v.total, status', RowsNext(Head(v.queries)))
    <3> HIDE DEF Past, RowsNext, Rows
    <3> QED
      BY <1>3, <1>5, <2>2
  <2>4. \A res \in Range(v.results) : OfMoment(res, status', RowsNext(res.query))
    <3> HIDE DEF OfMoment, RowsNext, Rows
    <3> QED
      BY <1>4, <1>5, <2>1
  <2> QED
    BY <2>3, <2>4
<1>6. ASSUME NEW w, Begins(w)
      PROVE  Right(w)
  <2>1. Range(<<>>) = {}
    BY DEF Range
  <2> QED
    BY <1>6, <2>1 DEF Begins, IsNew
<1>7. ASSUME NEW v \in Answers, NEW w \in Answers, Right(v), Continues(w, v)
      PROVE  Right(w)
  <2>1. CASE ShowsPeers(w, v)
    BY <1>7, <2>1 DEF ShowsPeers
  <2>2. CASE Counts(w, v)
    <3>1. v.queries # <<>> /\ v.queries \in Seq(Queries)
      BY <2>2 DEF Counts, Answers
    <3>2. Head(v.queries) \in Queries
      BY <3>1, HeadTailProperties
    <3>3. w.total = Len(Rows(Head(v.queries))) /\ w.total \in Nat
      BY <2>2 DEF Counts, Answers
    <3>4. Past(Head(v.queries), w.total, status, Rows(Head(v.queries)))
      BY <3>3
    <3> HIDE DEF Past, OfMoment, Rows
    <3> QED
      BY <1>7, <2>2, <3>4 DEF Counts
  <2>3. ASSUME NEW total \in Nat, NEW items, Gets(w, v, total, items),
               OfMoment(Result(Head(v.queries), total, items), status, Rows(Head(v.queries)))
        PROVE  Right(w)
    <3> DEFINE q == Head(v.queries)
               res == Result(q, total, items)
    <3>1. /\ v.queries # <<>> /\ w.results = Append(v.results, res) /\ w.step = "asking"
          /\ res \in Results /\ res.query = q
      BY <2>3 DEF Gets, Result
    <3>2. OfMoment(res, status, Rows(res.query))
      BY <2>3, <3>1
    <3> HIDE DEF res, OfMoment, Past, Rows
    <3>3. Range(w.results) = Range(v.results) \cup {res}
      BY <3>1, RangesOfReturn
    <3> QED
      BY <1>7, <3>1, <3>2, <3>3
  <2>4. ASSUME NEW total \in Nat, NEW items, Gets(w, v, total, items),
               \/ v.step = "counted" /\ total = v.total /\ items = PageOf(Head(v.queries))
               \/ total = 0 /\ items = <<>>
        PROVE  OfMoment(Result(Head(v.queries), total, items), status, Rows(Head(v.queries)))
    <3> DEFINE q == Head(v.queries)
               all == Rows(q)
    <3>1. q \in Queries /\ all \in Seq(Records) /\ Len(all) \in Nat /\ q.offset \in Nat
      BY <1>2, <2>4, LenProperties DEF Gets
    <3>2. ASSUME v.step = "counted", total = v.total, items = PageOf(q),
                 status[q.session] # "deleted"
          PROVE  Len(all) \in total .. Len(all) /\ items = PageAt(all, Len(all), q.offset)
      <4>1. items = PageAt(all, Len(all), q.offset)
        BY <3>1, <3>2, PageOfIsPage
      <4>2. total <= Len(all)
        BY <1>7, <3>2
      <4> QED
        BY <3>1, <4>1, <4>2
    <3>3. ASSUME total = 0, items = <<>>
          PROVE  0 \in total .. Len(all) /\ items = PageAt(all, 0, q.offset)
      <4> HIDE DEF all
      <4>1. PageAt(all, 0, q.offset) = <<>>
        BY <3>1, PageOfNothing
      <4> QED
        BY <3>1, <3>3, <4>1
    <3> HIDE DEF all
    <3>4. \/ status[q.session] = "deleted"
          \/ \E n \in total .. Len(all) : items = PageAt(all, n, q.offset)
      BY <2>4, <3>2, <3>3
    <3> QED
      BY <3>4 DEF Result, all
  <2>5. CASE AsksMore(w, v)
    BY <1>7, <2>5 DEF AsksMore
  <2> HIDE DEF Right, OfMoment
  <2>6. v.total \in Nat /\ 0 \in Nat
    BY DEF Answers
  <2> QED
    BY <1>7, <2>1, <2>2, <2>3, <2>4, <2>5, <2>6 DEF Continues
<1>8. ASSUME UNCHANGED store, NEW w
      PROVE  Right(w) => RightNext(w)
  BY <1>8 DEF store, RowsOf
<1>9. ASSUME NEW q \in Readers
      PROVE  Answering(q) => /\ Right(view[q])
                             /\ view[q].step = "counted" => view[q].queries # <<>>
  BY DEF CountIsPast, PageIsOfOneMoment, PageAt, StagesInOrder
<1>10. ASSUME NEW q \in Readers, Answering(q)'
       PROVE  RightNext(view'[q])
  <2> HIDE DEF Right, RightNext
  <2> QED
    BY <1>5, <1>6, <1>7, <1>8, <1>9, <1>10, ReaderStep
<1> QED
  BY <1>10 DEF CountIsPast, PageIsOfOneMoment, PageAt, Answering, RowsOf

-----------------------------------------------------------------------------
(* No row is skipped *)

\* The pages of a series are of one query, each at the offset after the one before.
SeriesInOrder ==
    \A r \in Readers : Answering(r) /\ view[r].what = "pages" =>
        LET results == view[r].results
            queries == view[r].queries
            OfFirst(q) == LET first == Head(results).query
                          IN  q.session = first.session /\ q.kind = first.kind
        IN  /\ \A res \in Range(results) : OfFirst(res.query)
            /\ \/ queries = <<>>
               \/ \E q \in Range(queries) :
                     /\ queries = <<q>>
                     /\ IF results = <<>> THEN q.offset = 0
                        ELSE OfFirst(q) /\ q.offset = Last(results).query.offset + Limit

\* Of the rows all that are there, a series of pages that showed first on its first
\* page, and went on to the page at an offset of the first n rows, has seen those
\* between any row it saw, or the lower end of that page, and a row of first.
Covers(all, seen, first, n, offset) ==
    /\ first \subseteq Range(all)
    /\ \A j, k \in DOMAIN all :
          n - offset - Limit < j /\ j < k /\ all[k] \in first => all[j] \in seen
    /\ \A i, j, k \in DOMAIN all :
          i < j /\ j < k /\ all[i] \in seen /\ all[k] \in first => all[j] \in seen

\* What the pages of a list of results show.
Seen(results) == UNION {Range(res.items) : res \in Range(results)}

\* Every series covers the rows down from its first page in this way, until the
\* session is purged.
SeriesCover ==
    \A r \in Readers : Answering(r) /\ view[r].what = "pages" =>
        LET results == view[r].results
            query == Head(results).query
            all == RowsOf(query.session, query.kind)
        IN  \/ results = <<>>
            \/ status[query.session] = "deleted"
            \/ \E n \in 0 .. Len(all) :
                  Covers(all, Seen(results), Range(Head(results).items), n,
                         Last(results).query.offset)

\* Results do not change where the series began and say where it goes on.
LEMMA EndsOfResults ==
    ASSUME NEW results \in Seq(Results), NEW res \in Results
    PROVE  /\ Head(Append(results, res)) = IF results = <<>> THEN res ELSE Head(results)
           /\ Last(Append(results, res)) = res
           /\ Append(results, res) # <<>>
           /\ results # <<>> => /\ Head(results) \in Results /\ Head(results) \in Range(results)
                                /\ Last(results) \in Results /\ Last(results) \in Range(results)
           /\ Range(Append(results, res)) = Range(results) \cup {res}
           /\ Seen(Append(results, res)) = Seen(results) \cup Range(res.items)
<1>1. Head(Append(results, res)) = IF results = <<>> THEN res ELSE Head(results)
  BY HeadTailAppend
<1>2. /\ Append(results, res) \in Seq(Results) /\ Append(results, res) # <<>>
      /\ Len(Append(results, res)) = Len(results) + 1
      /\ \A i \in 1 .. Len(results) : Append(results, res)[i] = results[i]
      /\ Append(results, res)[Len(results) + 1] = res
      /\ Len(results) \in Nat /\ DOMAIN results = 1 .. Len(results)
  BY AppendProperties, LenProperties
<1>3. Last(Append(results, res)) = res
  BY <1>2 DEF Last
<1>4. ASSUME results # <<>>
      PROVE  /\ Head(results) \in Results /\ Head(results) \in Range(results)
             /\ Last(results) \in Results /\ Last(results) \in Range(results)
  <2>1. Len(results) # 0
    BY <1>4, EmptySeq
  <2>2. 1 \in DOMAIN results /\ Len(results) \in DOMAIN results
    BY <1>2, <2>1
  <2>3. Head(results) = results[1] /\ Last(results) = results[Len(results)]
    BY <1>4 DEF Last
  <2>4. \A i \in DOMAIN results : results[i] \in Results
    BY <1>2, ElementOfSeq
  <2> QED
    BY <2>2, <2>3, <2>4 DEF Range
<1>5. Range(Append(results, res)) = Range(results) \cup {res}
  BY RangeOfAppend
<1>6. Seen(Append(results, res)) = Seen(results) \cup Range(res.items)
  BY <1>5 DEF Seen
<1> QED
  BY <1>1, <1>2, <1>3, <1>4, <1>5, <1>6

\* Every step keeps the queries of a series in order.
LEMMA SeriesStep ==
    ASSUME TypeOK, StoreInv, StagesInOrder, SeriesInOrder, [NextViews]_vars
    PROVE  SeriesInOrder'
<1> DEFINE OfFirst(q, results) == LET first == Head(results).query
                                  IN  q.session = first.session /\ q.kind = first.kind
           Next(q, results) == IF results = <<>> THEN q.offset = 0
                               ELSE /\ OfFirst(q, results)
                                    /\ q.offset = Last(results).query.offset + Limit
           Right(v) == v.what = "pages" =>
               /\ \A res \in Range(v.results) : OfFirst(res.query, v.results)
               /\ \/ v.queries = <<>>
                  \/ \E q \in Range(v.queries) : v.queries = <<q>> /\ Next(q, v.results)
<1>1. ASSUME NEW w, Begins(w)
      PROVE  Right(w)
  <2>1. Range(<<>>) = {} /\ \A q : q \in Range(<<q>>)
    BY DEF Range
  <2> QED
    BY <1>1, <2>1 DEF Begins, IsNew
<1>2. ASSUME NEW v \in Answers, NEW w \in Answers, Right(v), Continues(w, v),
             v.what = "pages" /\ v.queries = <<>> => v.results # <<>>
      PROVE  Right(w)
  <2>0. v.results \in Seq(Results)
    BY DEF Answers
  <2>1. CASE w.what = v.what /\ w.queries = v.queries /\ w.results = v.results
    BY <1>2, <2>1
  <2>2. ASSUME NEW total, NEW items, Gets(w, v, total, items)
        PROVE  Right(w)
    <3> SUFFICES ASSUME v.what = "pages"
                 PROVE  /\ \A res \in Range(w.results) : OfFirst(res.query, w.results)
                        /\ w.queries = <<>>
      BY <2>2 DEF Gets
    <3>1. PICK q \in Range(v.queries) : v.queries = <<q>> /\ Next(q, v.results)
      BY <1>2, <2>2 DEF Gets
    <3> DEFINE res == Result(q, total, items)
    <3>2. Head(v.queries) = q /\ Tail(v.queries) = <<>>
      BY <3>1
    <3>3. /\ w.queries = <<>> /\ w.results = Append(v.results, res)
          /\ res \in Results /\ res.query = q
      BY <2>2, <3>2 DEF Gets, Result
    <3> HIDE DEF res
    <3>4. /\ Head(w.results) = IF v.results = <<>> THEN res ELSE Head(v.results)
          /\ Range(w.results) = Range(v.results) \cup {res}
      BY <2>0, <3>3, EndsOfResults
    <3>5. CASE v.results = <<>>
      <4>1. Range(v.results) = {}
        BY <3>5 DEF Range
      <4> QED
        BY <3>4, <3>3, <3>5, <4>1
    <3>6. CASE v.results # <<>>
      <4>1. OfFirst(q, w.results) /\ \A x \in Range(v.results) : OfFirst(x.query, w.results)
        BY <1>2, <3>1, <3>4, <3>6
      <4> QED
        BY <3>3, <3>4, <4>1
    <3> QED
      BY <3>5, <3>6
  <2>3. CASE AsksMore(w, v)
    <3> DEFINE last == Last(v.results).query
               q == [last EXCEPT !.offset = @ + Limit]
    <3>1. v.results # <<>> /\ v.what = "pages" /\ w.what = v.what
      BY <1>2, <2>3 DEF AsksMore
    <3>2. w.queries = <<q>> /\ w.results = v.results /\ q \in Range(w.queries)
      BY <2>3 DEF AsksMore, Range
    <3>3. Last(v.results) \in Range(v.results) /\ Last(v.results) \in Results
      BY <2>0, <3>1, EndsOfResults
    <3>4. last \in Queries /\ OfFirst(last, v.results)
      BY <1>2, <3>1, <3>3 DEF Results
    <3>5. q.session = last.session /\ q.kind = last.kind /\ q.offset = last.offset + Limit
      BY <3>4 DEF Queries
    <3>6. Next(q, w.results)
      BY <3>1, <3>2, <3>4, <3>5
    <3> HIDE DEF Next, q
    <3>7. \A res \in Range(w.results) : OfFirst(res.query, w.results)
      BY <1>2, <3>1, <3>2
    <3> QED
      BY <3>2, <3>6, <3>7
  <2> HIDE DEF Right
  <2> QED
    BY <1>2, <2>1, <2>2, <2>3 DEF Continues, ShowsPeers, Counts
<1>3. ASSUME NEW q \in Readers, Answering(q)'
      PROVE  Right(view'[q])
  <2>1. Answering(q) =>
           /\ Right(view[q])
           /\ view[q].what = "pages" /\ view[q].queries = <<>> => view[q].results # <<>>
    BY DEF SeriesInOrder, StagesInOrder
  <2> HIDE DEF Right
  <2> QED
    BY <1>1, <1>2, <1>3, <2>1, ReaderStep
<1> QED
  BY <1>3 DEF SeriesInOrder

\* Rows that are added do not come between those that were there.
LEMMA CoversMore ==
    ASSUME NEW R, NEW all \in Seq(R), NEW more \in Seq(R), IsInjective(all \o more),
           NEW seen, NEW first, NEW n \in Nat, NEW offset \in Nat,
           Covers(all, seen, first, n, offset)
    PROVE  Covers(all \o more, seen, first, n, offset)
<1> DEFINE both == all \o more
<1>1. /\ DOMAIN all = 1 .. Len(all) /\ DOMAIN both = 1 .. Len(both)
      /\ Len(all) \in Nat /\ Len(both) \in Nat /\ Len(all) <= Len(both)
      /\ \A i \in DOMAIN all : both[i] = all[i]
  BY PagesStay
<1> HIDE DEF both
<1>2. DOMAIN all \subseteq DOMAIN both
  BY <1>1
<1>3. first \subseteq Range(both)
  BY <1>1, <1>2 DEF Covers, Range
<1>4. ASSUME NEW k \in DOMAIN both, both[k] \in first
      PROVE  k \in DOMAIN all
  <2>1. PICK p \in DOMAIN all : all[p] = both[k]
    BY <1>4 DEF Covers, Range
  <2> QED
    BY <1>1, <1>2, <2>1 DEF IsInjective, both
<1>5. ASSUME NEW j \in DOMAIN both, NEW k \in DOMAIN all, j < k
      PROVE  j \in DOMAIN all
  BY <1>1, <1>5
<1>6. ASSUME NEW j \in DOMAIN both, NEW k \in DOMAIN both,
             n - offset - Limit < j, j < k, both[k] \in first
      PROVE  both[j] \in seen
  <2>1. j \in DOMAIN all /\ k \in DOMAIN all
    BY <1>4, <1>5, <1>6
  <2> QED
    BY <1>1, <1>6, <2>1 DEF Covers
<1>7. ASSUME NEW i \in DOMAIN both, NEW j \in DOMAIN both, NEW k \in DOMAIN both,
             i < j, j < k, both[i] \in seen, both[k] \in first
      PROVE  both[j] \in seen
  <2>1. j \in DOMAIN all /\ k \in DOMAIN all
    BY <1>4, <1>5, <1>7
  <2>2. i \in DOMAIN all
    BY <1>5, <1>7, <2>1
  <2> QED
    BY <1>1, <1>7, <2>1, <2>2 DEF Covers
<1> QED
  BY <1>3, <1>6, <1>7 DEF Covers, both

\* A page at the next offset, of as many rows or more, leaves no gap.
LEMMA CoversPage ==
    ASSUME NEW R, NEW all \in Seq(R), IsInjective(all), NEW seen, NEW first,
           NEW n \in 0 .. Len(all), NEW offset \in Nat,
           Covers(all, seen, first, n, offset)
    PROVE  LET next == offset + Limit
           IN  Covers(all, seen \cup Range(PageAt(all, Len(all), next)), first, Len(all), next)
<1> DEFINE next == offset + Limit
           m == Len(all)
           page == Range(PageAt(all, m, next))
<1>0. m \in Nat /\ m \in 0 .. m /\ DOMAIN all = 1 .. m /\ next \in Nat /\ n \in Nat /\ n <= m
  BY LenProperties, LimitAssumption
<1>1. page = {all[p] : p \in Window(m, next)}
  BY <1>0, PageIsWindow
<1>2. \A p \in Window(m, next) : p \in DOMAIN all /\ m - next - Limit < p
  BY <1>0 DEF Window
<1>3. \A p \in DOMAIN all : m - next - Limit < p /\ p <= m - next => p \in Window(m, next)
  BY <1>0 DEF Window
<1> HIDE DEF page
<1>4. ASSUME NEW j \in DOMAIN all, NEW k \in DOMAIN all,
             m - next - Limit < j, j < k, all[k] \in first
      PROVE  all[j] \in seen \cup page
  <2>1. CASE j <= m - next
    BY <1>1, <1>3, <1>4, <2>1
  <2>2. CASE ~(j <= m - next)
    <3>1. n - offset - Limit < j
      BY <1>0, <2>2, LimitAssumption
    <3> QED
      BY <1>4, <3>1 DEF Covers
  <2> QED
    BY <2>1, <2>2
<1>5. ASSUME NEW i \in DOMAIN all, NEW j \in DOMAIN all, NEW k \in DOMAIN all,
             i < j, j < k, all[i] \in seen \cup page, all[k] \in first
      PROVE  all[j] \in seen \cup page
  <2>1. CASE all[i] \in seen
    BY <1>5, <2>1 DEF Covers
  <2>2. CASE all[i] \in page
    <3>1. PICK p \in Window(m, next) : all[p] = all[i]
      BY <1>1, <2>2
    <3>2. i = p
      BY <1>2, <3>1 DEF IsInjective
    <3>3. m - next - Limit < j
      BY <1>0, <1>2, <1>5, <3>2, LimitAssumption
    <3> QED
      BY <1>4, <1>5, <3>3
  <2> QED
    BY <1>5, <2>1, <2>2
<1> QED
  BY <1>4, <1>5 DEF Covers, page

\* The first page of a series leaves no gap.
LEMMA CoversFirst ==
    ASSUME NEW R, NEW all \in Seq(R), IsInjective(all)
    PROVE  LET page == Range(PageAt(all, Len(all), 0))
           IN  Covers(all, page, page, Len(all), 0)
<1> DEFINE m == Len(all)
           page == Range(PageAt(all, m, 0))
<1>0. m \in Nat /\ m \in 0 .. m /\ DOMAIN all = 1 .. m /\ Limit \in Nat
  BY LenProperties, LimitAssumption
<1>1. page = {all[p] : p \in Window(m, 0)}
  BY <1>0, PageIsWindow
<1>2. \A p \in DOMAIN all : p \in Window(m, 0) <=> m - 0 - Limit < p
  BY <1>0 DEF Window
<1>3. \A p \in Window(m, 0) : p \in DOMAIN all
  BY <1>0 DEF Window
<1> HIDE DEF page
<1>4. page \subseteq Range(all)
  BY <1>1, <1>3 DEF Range
<1>5. \A j \in DOMAIN all : m - 0 - Limit < j => all[j] \in page
  BY <1>1, <1>2
<1>6. ASSUME NEW i \in DOMAIN all, NEW j \in DOMAIN all, i < j, all[i] \in page
      PROVE  all[j] \in page
  <2>1. PICK p \in Window(m, 0) : all[p] = all[i]
    BY <1>1, <1>6
  <2>2. i = p
    BY <1>3, <2>1 DEF IsInjective
  <2>3. m - 0 - Limit < j
    BY <1>0, <1>2, <1>6, <2>2
  <2> QED
    BY <1>5, <2>3
<1> QED
  BY <1>4, <1>5, <1>6 DEF Covers, page

\* Every step keeps a series free of gaps.
LEMMA CoverStep ==
    ASSUME TypeOK, StoreInv, StagesInOrder, SeriesInOrder, SeriesCover, [NextViews]_vars
    PROVE  SeriesCover'
<1> DEFINE Covered(results, st, all) ==
               \/ st[Head(results).query.session] = "deleted"
               \/ \E n \in 0 .. Len(all) :
                     Covers(all, Seen(results), Range(Head(results).items), n,
                            Last(results).query.offset)
           Rows(q) == RowsOf(q.session, q.kind)
           RowsNext(q) == Only(rows', {r \in Records : r.session = q.session /\ r.kind = q.kind})
           Right(v) == v.what = "pages" =>
               v.results = <<>> \/ Covered(v.results, status, Rows(Head(v.results).query))
           RightNext(v) == v.what = "pages" =>
               v.results = <<>> \/ Covered(v.results, status', RowsNext(Head(v.results).query))
<1>0. ASSUME NEW q
      PROVE  RowsNext(q) = RowsOf(q.session, q.kind)'
  BY DEF RowsOf
<1>1. [NextStore]_store /\ StoreInv'
  BY StepsOfViews, StoreStep
<1>2. ASSUME NEW q \in Queries
      PROVE  /\ status[q.session] = "deleted" => status'[q.session] = "deleted"
             /\ Grows(q.session, q.kind)
             /\ Rows(q) \in Seq(Records) /\ IsInjective(Rows(q))
             /\ Len(Rows(q)) \in Nat
             /\ IsInjective(RowsOf(q.session, q.kind)')
  <2>1. q.session \in Sessions
    BY DEF Queries
  <2>2. Rows(q) \in Seq(Records) /\ IsInjective(Rows(q)) /\ Len(Rows(q)) \in Nat
    BY RowsOfType
  <2>3. IsInjective(RowsOf(q.session, q.kind)')
    <3>1. rows' \in Seq(Records) /\ IsInjective(rows')
      BY <1>1 DEF StoreInv
    <3> QED
      BY <3>1, OnlyInjective DEF RowsOf
  <2> QED
    BY <1>1, <2>1, <2>2, <2>3, SessionStep DEF Grows
<1>3. ASSUME NEW v \in Answers, Right(v)
      PROVE  RightNext(v)
  <2> SUFFICES ASSUME v.what = "pages", v.results # <<>>
               PROVE  Covered(v.results, status', RowsNext(Head(v.results).query))
    OBVIOUS
  <2> DEFINE q == Head(v.results).query
             seen == Seen(v.results)
             first == Range(Head(v.results).items)
             offset == Last(v.results).query.offset
  <2>1. q \in Queries /\ offset \in Nat
    <3>1. v.results \in Seq(Results)
      BY DEF Answers
    <3>2. Head(v.results) \in Results /\ Last(v.results) \in Results
      BY <3>1, EndsOfResults
    <3> QED
      BY <3>2 DEF Results, Queries
  <2>2. CASE status'[q.session] = "deleted"
    BY <2>2
  <2>3. ASSUME NEW more \in Seq(Records), Rows(q)' = Rows(q) \o more,
               status'[q.session] # "deleted"
        PROVE  \E n \in 0 .. Len(RowsNext(q)) : Covers(RowsNext(q), seen, first, n, offset)
    <3> DEFINE all == Rows(q)
    <3>1. PICK n \in 0 .. Len(all) : Covers(all, seen, first, n, offset)
      BY <1>2, <1>3, <2>1, <2>3
    <3>2. RowsNext(q) = all \o more /\ all \in Seq(Records) /\ IsInjective(all \o more)
      BY <1>0, <1>2, <2>1, <2>3
    <3> HIDE DEF all, q, seen, first, offset
    <3>3. Len(all) \in Nat /\ Len(all \o more) \in Nat /\ Len(all) <= Len(all \o more)
      BY <3>2, PagesStay
    <3>4. n \in Nat /\ n \in 0 .. Len(all \o more)
      BY <3>3
    <3>5. Covers(all \o more, seen, first, n, offset)
      BY <2>1, <3>1, <3>2, <3>4, CoversMore
    <3> HIDE DEF RowsNext
    <3> QED
      BY <3>2, <3>4, <3>5
  <2>4. Grows(q.session, q.kind)
    BY <1>2, <2>1
  <2> HIDE DEF q, seen, first, offset, RowsNext
  <2>5. Covered(v.results, status', RowsNext(q))
    BY <2>2, <2>3, <2>4 DEF Grows, q, seen, first, offset
  <2> QED
    BY <2>5 DEF q
<1>4. ASSUME NEW w, Begins(w)
      PROVE  Right(w)
  BY <1>4 DEF Begins, IsNew
<1>5. ASSUME NEW v \in Answers, NEW w \in Answers, Right(v), Continues(w, v),
             v.what = "pages" =>
                /\ v.results # <<>> =>
                      Last(v.results).query.session = Head(v.results).query.session
                /\ \/ v.queries = <<>>
                   \/ \E q \in Range(v.queries) :
                         /\ v.queries = <<q>>
                         /\ IF v.results = <<>> THEN q.offset = 0
                            ELSE /\ q.session = Head(v.results).query.session
                                 /\ q.kind = Head(v.results).query.kind
                                 /\ q.offset = Last(v.results).query.offset + Limit
      PROVE  Right(w)
  <2>1. CASE w.what = v.what /\ w.results = v.results
    BY <1>5, <2>1
  <2>2. CASE v.what # "pages" /\ w.what = v.what
    BY <2>2
  <2>3. ASSUME v.what = "pages", v.step = "counted",
               Gets(w, v, v.total, PageOf(Head(v.queries)))
        PROVE  Right(w)
    <3>1. PICK q \in Range(v.queries) :
             /\ v.queries = <<q>>
             /\ IF v.results = <<>> THEN q.offset = 0
                ELSE /\ q.session = Head(v.results).query.session
                     /\ q.kind = Head(v.results).query.kind
                     /\ q.offset = Last(v.results).query.offset + Limit
      BY <1>5, <2>3 DEF Gets
    <3> DEFINE page == PageOf(q)
               res == Result(q, v.total, page)
               all == Rows(q)
               m == Len(all)
    <3>2. Head(v.queries) = q
      BY <3>1
    <3>3. /\ w.results = Append(v.results, res) /\ res \in Results /\ q \in Queries
          /\ res.query = q /\ res.items = page
      BY <2>3, <3>2 DEF Gets, Result
    <3>4. /\ all \in Seq(Records) /\ IsInjective(all) /\ m \in Nat /\ m \in 0 .. m
          /\ page = PageAt(all, m, q.offset)
      BY <1>2, <3>3, PageOfIsPage
    <3>5. v.results \in Seq(Results)
      BY DEF Answers
    <3> HIDE DEF res, page, all
    <3>6. /\ Head(w.results) = IF v.results = <<>> THEN res ELSE Head(v.results)
          /\ Last(w.results) = res
          /\ Seen(w.results) = Seen(v.results) \cup Range(page)
      BY <3>3, <3>5, EndsOfResults
    <3>7. CASE v.results = <<>>
      <4>1. Seen(v.results) = {}
        BY <3>7 DEF Seen, Range
      <4>2. Covers(all, Range(page), Range(page), m, 0) /\ q.offset = 0
        BY <3>1, <3>4, <3>7, CoversFirst
      <4>3. Covers(all, Seen(w.results), Range(Head(w.results).items), m,
                   Last(w.results).query.offset)
        BY <3>3, <3>6, <3>7, <4>1, <4>2
      <4>4. Rows(Head(w.results).query) = all
        BY <3>3, <3>6, <3>7 DEF all
      <4> QED
        BY <3>4, <4>3, <4>4
    <3>8. CASE v.results # <<>>
      <4> DEFINE first == Range(Head(v.results).items)
                 offset == Last(v.results).query.offset
      <4>1. /\ Rows(Head(w.results).query) = all /\ Rows(Head(v.results).query) = all
            /\ Head(w.results) = Head(v.results)
        BY <3>1, <3>6, <3>8 DEF all
      <4>2. CASE status[Head(v.results).query.session] = "deleted"
        BY <4>1, <4>2
      <4>3. CASE status[Head(v.results).query.session] # "deleted"
        <5>1. PICK n \in 0 .. m : Covers(all, Seen(v.results), first, n, offset)
          BY <1>5, <2>3, <3>8, <4>1, <4>3
        <5>2. offset \in Nat /\ q.offset = offset + Limit
          <6>1. Last(v.results) \in Results
            BY <3>3, <3>5, <3>8, EndsOfResults
          <6> QED
            BY <3>1, <3>8, <6>1 DEF Results, Queries
        <5> HIDE DEF offset, first
        <5>3. Covers(all, Seen(v.results) \cup Range(PageAt(all, m, offset + Limit)),
                     first, m, offset + Limit)
          BY <3>4, <5>1, <5>2, CoversPage
        <5>4. Covers(all, Seen(w.results), first, m, q.offset)
          BY <3>4, <3>6, <5>2, <5>3
        <5>5. Covers(all, Seen(w.results), Range(Head(w.results).items), m,
                     Last(w.results).query.offset)
          BY <3>3, <3>6, <4>1, <5>4 DEF first
        <5> QED
          BY <3>4, <4>1, <5>5
      <4> QED
        BY <4>2, <4>3
    <3> QED
      BY <3>7, <3>8
  <2>4. Gets(w, v, v.total, PageOf(Head(v.queries))) \/ Gets(w, v, 0, <<>>) => w.what = v.what
    BY DEF Gets
  <2> HIDE DEF Right
  <2> QED
    BY <1>5, <2>1, <2>2, <2>3, <2>4 DEF Continues, ShowsPeers, Counts, AsksMore
<1>6. ASSUME UNCHANGED store, NEW w, Right(w)
      PROVE  RightNext(w)
  BY <1>6 DEF store, RowsOf
<1>7. ASSUME NEW q \in Readers, Answering(q)
      PROVE  /\ Right(view[q])
             /\ view[q].what = "pages" =>
                /\ view[q].results # <<>> =>
                      Last(view[q].results).query.session = Head(view[q].results).query.session
                /\ \/ view[q].queries = <<>>
                   \/ \E p \in Range(view[q].queries) :
                         /\ view[q].queries = <<p>>
                         /\ IF view[q].results = <<>> THEN p.offset = 0
                            ELSE /\ p.session = Head(view[q].results).query.session
                                 /\ p.kind = Head(view[q].results).query.kind
                                 /\ p.offset = Last(view[q].results).query.offset + Limit
  <2>1. Right(view[q])
    BY <1>7 DEF SeriesCover
  <2>2. view[q] \in Answers
    BY <1>7, AnswerFields
  <2>3. view[q].results # <<>> => Last(view[q].results) \in Range(view[q].results)
    <3>1. view[q].results \in Seq(Results)
      BY <2>2 DEF Answers
    <3>2. ASSUME NEW results \in Seq(Results), results # <<>>
          PROVE  Last(results) \in Range(results)
      <4>1. Len(results) \in DOMAIN results
        BY <3>2, LenProperties, EmptySeq
      <4> QED
        BY <3>2, <4>1 DEF Last, Range
    <3> QED
      BY <3>1, <3>2
  <2> QED
    BY <1>7, <2>1, <2>3 DEF SeriesInOrder
<1>8. ASSUME NEW q \in Readers, Answering(q)'
      PROVE  RightNext(view'[q])
  <2> HIDE DEF Right, RightNext
  <2> QED
    BY <1>3, <1>4, <1>5, <1>6, <1>7, <1>8, ReaderStep
<1> QED
  BY <1>8 DEF SeriesCover, RowsOf

-----------------------------------------------------------------------------
(* Theorems *)

\* What holds whenever a reader or the capture takes a step.
ViewsInv ==
    /\ TypeOK /\ StoreInv /\ StagesInOrder
    /\ AskedSessionsExisted /\ ShownWithItsPeers
    /\ DetailAsksShown /\ RowsComeFromShownPeers
    /\ CountIsPast /\ PageIsOfOneMoment
    /\ SeriesInOrder /\ SeriesCover

\* It holds before anything was captured or read.
LEMMA ViewsInit == InitViews => ViewsInv
<1> SUFFICES ASSUME InitViews PROVE ViewsInv
  OBVIOUS
<1>1. rows = <<>> /\ <<>> \in Seq(Records) /\ Range(<<>>) = {} /\ IsInjective(<<>>)
  BY EmptySeq DEF InitViews, Init, Range, IsInjective
<1>2. StoreInv
  BY <1>1 DEF InitViews, Init, StoreInv, Statuses
<1>3. DOMAIN view = Readers /\ \A r \in Readers : view[r] = Unasked
  BY DEF InitViews
<1>4. \A r \in Readers : ~Answering(r) /\ view[r].step # "counted"
  BY <1>3 DEF Answering, Unasked
<1>5. TypeOK
  BY <1>2, <1>3 DEF TypeOK, StoreInv, Statuses
<1> QED
  BY <1>2, <1>4, <1>5 DEF ViewsInv, StagesInOrder, AskedSessionsExisted, ShownWithItsPeers,
     DetailAsksShown, RowsComeFromShownPeers, CountIsPast, PageIsOfOneMoment, SeriesInOrder,
     SeriesCover

\* Every step of a reader or of the capture keeps it.
LEMMA ViewsStep == ViewsInv /\ [NextViews]_vars => ViewsInv'
<1> SUFFICES ASSUME ViewsInv, [NextViews]_vars PROVE ViewsInv'
  OBVIOUS
<1> USE DEF ViewsInv
<1>1. TypeOK' /\ StagesInOrder'
  BY TypeStep, StagesStep
<1>2. StoreInv'
  BY StepsOfViews, StoreStep
<1>3. AskedSessionsExisted' /\ ShownWithItsPeers'
  BY PeersStep
<1>4. DetailAsksShown' /\ RowsComeFromShownPeers'
  BY DetailStep
<1>5. CountIsPast' /\ PageIsOfOneMoment'
  BY MomentStep
<1>6. SeriesInOrder' /\ SeriesCover'
  BY SeriesStep, CoverStep
<1> QED
  BY <1>1, <1>2, <1>3, <1>4, <1>5, <1>6

\* It holds whatever the requests and the capture do, and in whatever order.
THEOREM ViewsInvariant == SpecViews => []ViewsInv
  BY ViewsInit, ViewsStep, PTL DEF SpecViews

\* Every variable keeps its type, and no page is longer than the limit.
THEOREM TypeCorrect == SpecViews => []TypeOK
<1>1. ViewsInv => TypeOK
  BY DEF ViewsInv
<1> QED
  BY <1>1, ViewsInvariant, PTL

\* Though session and peers are two reads, a session is shown with the peers it
\* claims, or it is already purged (db::debug_sessions::get_debug_session).
THEOREM ShownRight == SpecViews => []ShownWithItsPeers
<1>1. ViewsInv => ShownWithItsPeers
  BY DEF ViewsInv
<1> QED
  BY <1>1, ViewsInvariant, PTL

\* The detail page never shows a row of a peer that it does not list.
THEOREM RowsOfShownPeers == SpecViews => []RowsComeFromShownPeers
<1>1. ViewsInv => RowsComeFromShownPeers
  BY DEF ViewsInv
<1> QED
  BY <1>1, ViewsInvariant, PTL

\* Every page is one of a single moment, and its total promises no rows that were
\* not there then, until the session is purged (db::telemetry::query_spans).
THEOREM PagesOfOneMoment == SpecViews => []PageIsOfOneMoment
<1>1. ViewsInv => PageIsOfOneMoment
  BY DEF ViewsInv
<1> QED
  BY <1>1, ViewsInvariant, PTL

\* A client that pages through a session while rows are added misses none between
\* a row of its first page and one that it sees later, whatever the page limit
\* and however many rows come in between two of its pages.
THEOREM PagesMissNothing == SpecViews => []NoRowSkipped
<1>1. ViewsInv => NoRowSkipped
  BY DEF ViewsInv, SeriesCover, NoRowSkipped, Covers, Seen
<1> QED
  BY <1>1, ViewsInvariant, PTL
=============================================================================
