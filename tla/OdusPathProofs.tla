--------------------------- MODULE OdusPathProofs ---------------------------
(***************************************************************************)
(* Every path that the code compares with a rule or hands to execve is     *)
(* canonical, canonicalising it once more changes nothing, and it leads    *)
(* where the path it was written as leads.                                 *)
(***************************************************************************)
EXTENDS OdusPath, FiniteSetTheorems, SequenceTheorems, WellFoundedInduction, TLAPS

\* A set of natural numbers has a smallest one.
LEMMA Smallest ==
    ASSUME NEW T, T \subseteq Nat, T # {}
    PROVE  \E x \in T : \A y \in T : x <= y
<1>1. IsWellFoundedOn(OpToRel(<, Nat), Nat)
    BY NatLessThanWellFounded, Zenon
<1>2. PICK x \in T : \A y \in T : ~ (<<y, x>> \in OpToRel(<, Nat))
    BY <1>1, WFMin, Zenon
<1>3. ASSUME NEW y \in T PROVE ~ (y < x)
  <2>1. <<y, x>> \in Nat \X Nat
      OBVIOUS
  <2>2. <<y, x>>[1] = y /\ <<y, x>>[2] = x
      OBVIOUS
  <2>3. ~ (<<y, x>>[1] < <<y, x>>[2])
      BY <1>2, <2>1, Zenon DEF OpToRel
  <2> QED BY <2>2, <2>3
<1>4. x \in Nat /\ T \subseteq Nat
    OBVIOUS
<1> QED BY <1>3, <1>4

-----------------------------------------------------------------------------
(* Pick *)

\* Sets of indices of a path are finite.
LEMMA NumbersFinite ==
    ASSUME NEW L \in Nat, NEW K, K \subseteq 1..L
    PROVE  IsFiniteSet(K) /\ Cardinality(K) \in Nat
<1>1. IsFiniteSet(1..L)
    BY FS_Interval
<1>2. IsFiniteSet(K)
    BY <1>1, FS_Subset
<1> QED BY <1>2, FS_CardinalityType

\* There are k indices up to k.
LEMMA CountTo == \A k \in Nat : Cardinality(1..k) = k
<1> TAKE k \in Nat
<1>1. Cardinality(1..k) = IF 1 > k THEN 0 ELSE k - 1 + 1
    BY FS_Interval
<1> QED BY <1>1

\* How many members of K are at most k.
AtMost(K, k) == {j \in K : j <= k}

\* The count of chosen indices grows by one at each chosen one.
LEMMA CountNext ==
    ASSUME NEW L \in Nat, NEW K, K \subseteq 1..L, NEW k \in 1..L
    PROVE  /\ k \notin K => AtMost(K, k) = AtMost(K, k - 1)
           /\ k \in K => Cardinality(AtMost(K, k)) = Cardinality(AtMost(K, k - 1)) + 1
<1>1. \A j \in 1..L : j <= k /\ j # k <=> j <= k - 1
    OBVIOUS
<1>2. AtMost(K, k) \ {k} = AtMost(K, k - 1)
  <2>1. \A j : j \in K => (j <= k /\ j # k <=> j <= k - 1)
      BY <1>1
  <2> QED BY <2>1, Zenon DEF AtMost
<1>3. k \notin K => AtMost(K, k) = AtMost(K, k - 1)
    BY <1>2 DEF AtMost
<1>4. k \notin AtMost(K, k - 1)
    BY DEF AtMost
<1>5. k \in K => AtMost(K, k) = AtMost(K, k - 1) \cup {k}
  <2>1. k \in K => k \in AtMost(K, k)
      BY DEF AtMost
  <2> QED BY <1>2, <2>1
<1>6. IsFiniteSet(AtMost(K, k - 1))
  <2>1. AtMost(K, k - 1) \subseteq 1..L
      BY DEF AtMost
  <2> QED BY <2>1, NumbersFinite
<1>7. k \in K => Cardinality(AtMost(K, k)) = Cardinality(AtMost(K, k - 1)) + 1
    BY <1>4, <1>5, <1>6, FS_AddElement
<1> QED BY <1>3, <1>7

\* A finite set of numbers has an n-th smallest for each n up to its size: the
\* smallest k that has n of them at or below it.
LEMMA NthIn ==
    ASSUME NEW L \in Nat, NEW K, K \subseteq 1..L, NEW n \in 1..Cardinality(K)
    PROVE  Nth(K, n) \in K /\ Cardinality(AtMost(K, Nth(K, n))) = n
<1> DEFINE T == {k \in 1..L : Cardinality(AtMost(K, k)) >= n}
<1>1. IsFiniteSet(K) /\ Cardinality(K) \in Nat
    BY NumbersFinite
<1>2. \A k \in 0..L : Cardinality(AtMost(K, k)) \in Nat
  <2> TAKE k \in 0..L
  <2>1. AtMost(K, k) \subseteq 1..L
      BY DEF AtMost
  <2> QED BY <2>1, NumbersFinite
<1>3. L \in T
  <2>1. K # {}
      BY <1>1, FS_EmptySet
  <2>2. L \in 1..L
    <3>1. PICK j \in K : TRUE
        BY <2>1
    <3>2. j \in 1..L
        BY <3>1
    <3> QED BY <3>2
  <2>3. AtMost(K, L) = K
    <3>1. \A j : j \in K => j <= L
      <4>1. \A j \in 1..L : j <= L
          OBVIOUS
      <4> QED BY <4>1
    <3> QED BY <3>1, Zenon DEF AtMost
  <2> QED BY <1>1, <2>2, <2>3
<1>4. T \subseteq Nat /\ T # {}
    BY <1>3
<1> HIDE DEF T
<1>5. PICK k \in T : \A y \in T : k <= y
    BY <1>4, Smallest
<1>6. k \in 1..L /\ Cardinality(AtMost(K, k)) >= n
    BY <1>5 DEF T
<1>7. Cardinality(AtMost(K, k - 1)) < n
  <2>1. CASE k = 1
    <3>1. AtMost(K, 0) = {}
      <4>1. \A j \in 1..L : ~ (j <= 0)
          OBVIOUS
      <4>2. \A j : j \in K => ~ (j <= 0)
          BY <4>1
      <4> QED BY <4>2, Zenon DEF AtMost
    <3>2. Cardinality(AtMost(K, 0)) = 0
        BY <3>1, FS_EmptySet
    <3>3. k - 1 = 0
        BY <2>1
    <3> QED BY <3>2, <3>3
  <2>2. CASE k # 1
    <3>1. k - 1 \in 1..L /\ ~ (k <= k - 1)
        BY <1>6, <2>2
    <3>2. k - 1 \notin T
        BY <1>5, <3>1
    <3> QED BY <1>2, <3>1, <3>2 DEF T
  <2> QED BY <2>1, <2>2
<1>8. k \in 0..L /\ k - 1 \in 0..L
    BY <1>6
<1>9. k \in K /\ Cardinality(AtMost(K, k)) = Cardinality(AtMost(K, k - 1)) + 1
  <2>1. /\ k \notin K => AtMost(K, k) = AtMost(K, k - 1)
        /\ k \in K => Cardinality(AtMost(K, k)) = Cardinality(AtMost(K, k - 1)) + 1
      BY <1>6, CountNext
  <2>2. AtMost(K, k) # AtMost(K, k - 1)
    <3>1. Cardinality(AtMost(K, k)) \in Nat /\ Cardinality(AtMost(K, k - 1)) \in Nat
        BY <1>2, <1>8
    <3> QED BY <1>6, <1>7, <3>1
  <2> QED BY <2>1, <2>2
<1>10. Cardinality(AtMost(K, k)) = n
  <2>1. Cardinality(AtMost(K, k)) \in Nat /\ Cardinality(AtMost(K, k - 1)) \in Nat
      BY <1>2, <1>8
  <2> QED BY <1>6, <1>7, <1>9, <2>1
<1> QED BY <1>9, <1>10 DEF Nth, AtMost

\* Pick gives a sequence of elements of s at the given places.
LEMMA PickIn ==
    ASSUME NEW S, NEW s \in Seq(S), NEW K, K \subseteq DOMAIN s
    PROVE  /\ Cardinality(K) \in Nat
           /\ Pick(s, K) \in Seq(S)
           /\ DOMAIN Pick(s, K) = 1..Cardinality(K)
           /\ \A n \in DOMAIN Pick(s, K) : \E k \in K : Pick(s, K)[n] = s[k]
<1>1. Len(s) \in Nat /\ DOMAIN s = 1..Len(s)
    OBVIOUS
<1>2. Cardinality(K) \in Nat
    BY <1>1, NumbersFinite
<1>3. \A n \in 1..Cardinality(K) : Nth(K, n) \in K
    BY <1>1, NthIn
<1>4. \A n \in 1..Cardinality(K) : s[Nth(K, n)] \in S
    BY <1>1, <1>3
<1>5. Pick(s, K) \in Seq(S)
    BY <1>2, <1>4, IsASeq DEF Pick
<1> QED BY <1>2, <1>3, <1>5 DEF Pick

\* Picking all of a sequence gives the sequence.
LEMMA PickAll ==
    ASSUME NEW S, NEW s \in Seq(S)
    PROVE  Pick(s, DOMAIN s) = s
<1>1. Len(s) \in Nat /\ DOMAIN s = 1..Len(s) /\ s = [n \in 1..Len(s) |-> s[n]]
    OBVIOUS
<1>2. Cardinality(1..Len(s)) = Len(s)
    BY <1>1, CountTo
<1>3. ASSUME NEW n \in 1..Len(s) PROVE Nth(1..Len(s), n) = n
  <2>1. \A k \in 1..Len(s) : Cardinality({j \in 1..Len(s) : j <= k}) = k
    <3> TAKE k \in 1..Len(s)
    <3>1. {j \in 1..Len(s) : j <= k} = 1..k
        BY <1>1
    <3>2. k \in Nat
        OBVIOUS
    <3> QED BY <3>1, <3>2, CountTo
  <2> QED BY <2>1 DEF Nth
<1>4. Pick(s, 1..Len(s)) = [m \in 1..Len(s) |-> s[m]]
    BY <1>2, <1>3 DEF Pick
<1> QED BY <1>1, <1>4

\* Nothing is picked by no indices.
LEMMA PickNone ==
    ASSUME NEW S, NEW s \in Seq(S)
    PROVE  Pick(s, {}) = <<>>
<1>1. {} \subseteq DOMAIN s
    OBVIOUS
<1>2. Pick(s, {}) \in Seq(S) /\ DOMAIN Pick(s, {}) = 1..Cardinality({})
    BY <1>1, PickIn
<1>3. Len(Pick(s, {})) = 0
    BY <1>2, FS_EmptySet
<1> QED BY <1>2, <1>3, EmptySeq

\* Only one member of a set of numbers has n of them at or below it.
LEMMA NthOnly ==
    ASSUME NEW L \in Nat, NEW K, K \subseteq 1..L, NEW m \in K
    PROVE  /\ Cardinality(AtMost(K, m)) \in 1..Cardinality(K)
           /\ Nth(K, Cardinality(AtMost(K, m))) = m
<1> DEFINE n == Cardinality(AtMost(K, m))
           x == Nth(K, n)
<1>1. IsFiniteSet(K) /\ Cardinality(K) \in Nat
    BY NumbersFinite
<1>2. \A k \in K : IsFiniteSet(AtMost(K, k)) /\ Cardinality(AtMost(K, k)) \in Nat
  <2> TAKE k \in K
  <2>1. AtMost(K, k) \subseteq 1..L
      BY DEF AtMost
  <2> QED BY <2>1, NumbersFinite
<1>3. m \in AtMost(K, m) /\ AtMost(K, m) \in SUBSET K
  <2>1. m \in 1..L
      OBVIOUS
  <2>2. m <= m
      BY <2>1
  <2> QED BY <2>2 DEF AtMost
<1>4. n \in 1..Cardinality(K)
  <2>1. n <= Cardinality(K)
      BY <1>1, <1>3, FS_Subset
  <2>2. n # 0
      BY <1>2, <1>3, FS_EmptySet
  <2> QED BY <1>1, <1>2, <2>1, <2>2
<1> HIDE DEF n
<1>5. x \in K /\ Cardinality(AtMost(K, x)) = n
    BY <1>4, NthIn
<1> HIDE DEF x
<1>6. \A a, b \in K : a < b => Cardinality(AtMost(K, a)) # Cardinality(AtMost(K, b))
  <2> TAKE a, b \in K
  <2> HAVE a < b
  <2>0. a \in 1..L /\ b \in 1..L
      OBVIOUS
  <2>1. AtMost(K, a) \in SUBSET AtMost(K, b)
    <3>1. \A j \in 1..L : j <= a => j <= b
        BY <2>0
    <3> QED BY <3>1 DEF AtMost
  <2>2. b \in AtMost(K, b) /\ b \notin AtMost(K, a)
      BY <2>0 DEF AtMost
  <2> QED BY <1>2, <2>1, <2>2, FS_Subset
<1>7. x \in 1..L /\ m \in 1..L
    BY <1>5
<1>8. ~(x < m) /\ ~(m < x)
    BY <1>5, <1>6 DEF n
<1>9. x = m
    BY <1>7, <1>8
<1> QED BY <1>4, <1>9 DEF n, x

\* Picking up to k what is chosen: one more element when k is chosen, and
\* nothing more when it is not.
LEMMA PickNext ==
    ASSUME NEW S, NEW s \in Seq(S), NEW K, K \subseteq DOMAIN s, NEW k \in DOMAIN s
    PROVE  /\ k \notin K => Pick(s, AtMost(K, k)) = Pick(s, AtMost(K, k - 1))
           /\ k \in K =>
                 Pick(s, AtMost(K, k)) = Append(Pick(s, AtMost(K, k - 1)), s[k])
<1> DEFINE J == AtMost(K, k)
           I == AtMost(K, k - 1)
<1>1. Len(s) \in Nat /\ DOMAIN s = 1..Len(s)
    OBVIOUS
<1>2. /\ k \notin K => J = I
      /\ k \in K => Cardinality(J) = Cardinality(I) + 1
    BY <1>1, CountNext
<1>3. I \subseteq 1..Len(s) /\ J \subseteq 1..Len(s) /\ I \subseteq J
  <2>1. \A j \in 1..Len(s) : j <= k - 1 => j <= k
      BY <1>1
  <2> QED BY <1>1, <2>1 DEF AtMost
<1>4. CASE k \notin K
    BY <1>2, <1>4
<1>5. CASE k \in K
  <2>1. Cardinality(I) \in Nat /\ Cardinality(J) = Cardinality(I) + 1
      BY <1>1, <1>2, <1>3, <1>5, NumbersFinite
  <2>2. Nth(J, Cardinality(I) + 1) = k
    <3>1. k \in J
        BY <1>1, <1>5 DEF AtMost
    <3>2. AtMost(J, k) = J
        BY DEF AtMost
    <3> HIDE DEF I, J
    <3> QED BY <1>1, <1>3, <2>1, <3>1, <3>2, NthOnly
  <2>3. ASSUME NEW n \in 1..Cardinality(I) PROVE Nth(J, n) = Nth(I, n)
    <3> DEFINE m == Nth(I, n)
    <3>1. m \in I /\ Cardinality(AtMost(I, m)) = n
      <4> HIDE DEF I
      <4> QED BY <1>1, <1>3, NthIn
    <3> HIDE DEF m
    <3>2. AtMost(J, m) = AtMost(I, m)
      <4>1. m \in 1..Len(s) /\ m <= k - 1
          BY <1>3, <3>1 DEF AtMost
      <4>2. \A j \in 1..Len(s) : j <= m => (j <= k /\ j <= k - 1)
          BY <1>1, <4>1
      <4>3. K \subseteq 1..Len(s)
          BY <1>1
      <4> QED BY <4>2, <4>3 DEF AtMost
    <3>3. m \in J
        BY <1>3, <3>1
    <3>4. Nth(J, Cardinality(AtMost(J, m))) = m
      <4> HIDE DEF J
      <4> QED BY <1>1, <1>3, <3>3, NthOnly
    <3> QED BY <3>1, <3>2, <3>4 DEF m
  <2> DEFINE c == Cardinality(I)
             front == Pick(s, I)
  <2>4. front \in Seq(S) /\ Len(front) = c /\ front = [n \in 1..c |-> s[Nth(I, n)]]
    <3>1. front \in Seq(S) /\ DOMAIN front = 1..c
      <4> HIDE DEF I
      <4> QED BY <1>1, <1>3, PickIn
    <3>2. Len(front) = c
        BY <2>1, <3>1
    <3> QED BY <3>1, <3>2 DEF Pick
  <2>5. s[k] \in S
      BY <1>1
  <2>6. Pick(s, J) = [n \in 1..(c + 1) |-> s[Nth(J, n)]]
      BY <2>1 DEF Pick
  <2> HIDE DEF I, J, c, front
  <2> DEFINE all == Append(front, s[k])
  <2>7. /\ all = [n \in 1..(c + 1) |-> all[n]]
        /\ \A n \in 1..c : all[n] = front[n]
        /\ all[c + 1] = s[k]
    <3> DEFINE e == s[k]
    <3>1. front \in Seq(S) /\ e \in S /\ Len(front) = c
        BY <2>4, <2>5
    <3> HIDE DEF e
    <3>2. /\ Append(front, e) \in Seq(S)
          /\ Len(Append(front, e)) = Len(front) + 1
          /\ \A n \in 1..Len(front) : Append(front, e)[n] = front[n]
          /\ Append(front, e)[Len(front) + 1] = e
        BY <3>1, AppendProperties
    <3>3. all = Append(front, e)
        BY DEF e
    <3> HIDE DEF all
    <3>4. all \in Seq(S) /\ Len(all) = c + 1
        BY <3>1, <3>2, <3>3
    <3>5. all = [n \in 1..(c + 1) |-> all[n]]
        BY <3>4
    <3> QED BY <3>1, <3>2, <3>3, <3>5 DEF e
  <2>8. c \in Nat
      BY <2>1 DEF c
  <2> HIDE DEF all
  <2>9. ASSUME NEW n \in 1..(c + 1)
        PROVE  s[Nth(J, n)] = all[n]
    <3>1. CASE n = c + 1
        BY <2>2, <2>7, <3>1 DEF c
    <3>2. CASE n # c + 1
      <4>1. n \in 1..c
          BY <2>8, <3>2
      <4>2. Nth(J, n) = Nth(I, n)
          BY <2>3, <4>1 DEF c
      <4> QED BY <2>4, <2>7, <4>1, <4>2
    <3> QED BY <3>1, <3>2
  <2>10. Pick(s, J) = all
      BY <2>6, <2>7, <2>9
  <2> QED BY <1>5, <2>10 DEF I, J, front, all
<1> QED BY <1>4, <1>5

-----------------------------------------------------------------------------
(* Paths *)

\* What a path is made of.
LEMMA PathFacts ==
    ASSUME NEW t \in Paths
    PROVE  /\ t.abs \in BOOLEAN /\ t = [abs |-> t.abs, parts |-> t.parts]
           /\ t.parts \in Seq(Parts) /\ t.parts # <<>>
           /\ Len(t.parts) \in Nat \ {0} /\ DOMAIN t.parts = 1..Len(t.parts)
           /\ ~t.abs /\ Len(t.parts) > 1 => t.parts[1] # ""
<1>1. t \in [abs : BOOLEAN, parts : Seq(Parts) \ {<<>>}]
    BY DEF Paths
<1>2. t.parts \in Seq(Parts) /\ t.parts # <<>>
    BY <1>1
<1>3. Len(t.parts) \in Nat \ {0}
    BY <1>2, EmptySeq, LenProperties
<1>4. ~t.abs /\ Len(t.parts) > 1 => t.parts[1] # ""
    BY DEF Paths
<1>5. t.abs \in BOOLEAN /\ t = [abs |-> t.abs, parts |-> t.parts]
    BY <1>1
<1>6. DOMAIN t.parts = 1..Len(t.parts)
    BY <1>2
<1> QED BY <1>2, <1>3, <1>4, <1>5, <1>6

\* Segments after a leading slash make a path.
LEMMA AbsolutePath ==
    ASSUME NEW parts \in Seq(Parts), parts # <<>>
    PROVE  Absolute(parts) \in Paths
BY DEF Absolute, Paths

\* The root, and an absolute path of names only, are canonical.
LEMMA AbsoluteCanonical ==
    ASSUME NEW parts, parts = <<"">> \/ \A i \in DOMAIN parts : parts[i] \in Names
    PROVE  Canonical(Absolute(parts))
<1>1. Absolute(parts).abs = TRUE /\ Absolute(parts).parts = parts
    BY DEF Absolute
<1> QED BY <1>1, Zenon DEF Canonical

\* The root as segments.
LEMMA Root == <<"">> \in Seq(Parts) /\ <<"">> # <<>>
BY DEF Parts

\* The components of a path that is not rejected are names.
LEMMA ComponentNames ==
    ASSUME NEW t \in Paths, NormalizeAbsolutePath(t) # Error
    PROVE  LET names == Pick(t.parts, Components(t)) IN
           /\ t.abs /\ \A i \in Components(t) : t.parts[i] # ".."
           /\ names \in Seq(Parts)
           /\ \A n \in DOMAIN names : names[n] \in Names
           /\ NormalizeAbsolutePath(t) = Absolute(IF names = <<>> THEN <<"">> ELSE names)
<1> DEFINE names == Pick(t.parts, Components(t))
<1>1. t.abs = TRUE /\ \A i \in Components(t) : t.parts[i] # ".."
    BY PathFacts DEF NormalizeAbsolutePath
<1>2. NormalizeAbsolutePath(t) = Absolute(IF names = <<>> THEN <<"">> ELSE names)
    BY <1>1 DEF NormalizeAbsolutePath
<1>3. Components(t) \subseteq DOMAIN t.parts
    BY DEF Components
<1>4. \A i \in Components(t) : t.parts[i] \in Names
  <2> TAKE i \in Components(t)
  <2>1. t.parts[i] \in Parts
      BY <1>3, PathFacts, ElementOfSeq
  <2> QED BY <1>1, <2>1 DEF Components, Parts
<1>5. /\ names \in Seq(Parts)
      /\ \A n \in DOMAIN names : \E k \in Components(t) : names[n] = t.parts[k]
  <2>1. t.parts \in Seq(Parts)
      BY PathFacts
  <2> QED BY <1>3, <2>1, PickIn
<1> HIDE DEF names
<1>6. \A n \in DOMAIN names : names[n] \in Names
    BY <1>4, <1>5
<1> QED BY <1>1, <1>2, <1>5, <1>6 DEF names

\* What is not rejected becomes a canonical path.
LEMMA NormalizeCanonical ==
    ASSUME NEW t \in Paths, NormalizeAbsolutePath(t) # Error
    PROVE  NormalizeAbsolutePath(t) \in Paths /\ Canonical(NormalizeAbsolutePath(t))
<1> DEFINE names == Pick(t.parts, Components(t))
<1>1. /\ names \in Seq(Parts)
      /\ \A n \in DOMAIN names : names[n] \in Names
      /\ NormalizeAbsolutePath(t) = Absolute(IF names = <<>> THEN <<"">> ELSE names)
    BY ComponentNames
<1> HIDE DEF names
<1>2. CASE names = <<>>
  <2>1. NormalizeAbsolutePath(t) = Absolute(<<"">>)
      BY <1>1, <1>2
  <2> QED BY <2>1, Root, AbsolutePath, AbsoluteCanonical
<1>3. CASE names # <<>>
  <2>1. NormalizeAbsolutePath(t) = Absolute(names)
      BY <1>1, <1>3
  <2> QED BY <1>1, <1>3, <2>1, AbsolutePath, AbsoluteCanonical
<1> QED BY <1>2, <1>3

\* The components of a canonical path are its segments, and the root has none.
LEMMA CanonicalNames ==
    ASSUME NEW t \in Paths, Canonical(t)
    PROVE  /\ t.abs /\ t = Absolute(t.parts)
           /\ \A i \in Components(t) : t.parts[i] # ".."
           /\ t.parts = <<"">> => Pick(t.parts, Components(t)) = <<>>
           /\ t.parts # <<"">> => Pick(t.parts, Components(t)) = t.parts
<1>1. t.abs = TRUE /\ t = Absolute(t.parts)
    BY PathFacts DEF Canonical, Absolute
<1>2. CASE t.parts = <<"">>
  <2>1. Components(t) = {}
    <3>1. Len(<<"">>) = 1 /\ <<"">>[1] = ""
        OBVIOUS
    <3>2. DOMAIN t.parts = 1..1
        BY <1>2, <3>1, PathFacts
    <3>3. \A i \in 1..1 : i = 1
        OBVIOUS
    <3> QED BY <1>2, <3>1, <3>2, <3>3 DEF Components
  <2>2. Pick(t.parts, {}) = <<>>
      BY PathFacts, PickNone
  <2> QED BY <1>1, <1>2, <2>1, <2>2
<1>3. CASE t.parts # <<"">>
  <2>1. \A i \in DOMAIN t.parts : t.parts[i] \in Names
      BY <1>3 DEF Canonical
  <2>2. \A i \in DOMAIN t.parts : t.parts[i] \notin {"", ".", ".."}
      BY <2>1, NamesAssumption
  <2>3. Components(t) = DOMAIN t.parts
      BY <2>2 DEF Components
  <2>4. Pick(t.parts, Components(t)) = t.parts
      BY <2>3, PathFacts, PickAll
  <2> QED BY <1>1, <1>3, <2>2, <2>3, <2>4
<1> QED BY <1>2, <1>3

\* A canonical path comes out of normalize_absolute_path as it went in: the
\* second resolution, in run_as_root, cannot change the command that was
\* prepared (exec.rs:73).
THEOREM NormalizeIdempotent ==
    ASSUME NEW t \in Paths, Canonical(t)
    PROVE  NormalizeAbsolutePath(t) = t
<1>1. t.parts # <<>>
    BY PathFacts
<1> QED BY <1>1, CanonicalNames DEF NormalizeAbsolutePath

\* The name a bare command is looked up by is the first segment of its word.
LEMMA BareName ==
    ASSUME NEW t \in Paths, ~t.abs, IsBare(t)
    PROVE  ValidateRelativeCommand(t) = t.parts[1] /\ t.parts[1] \in Names
<1>1. PICK i \in DOMAIN t.parts : Components(t) = {i} /\ t.parts[i] \in Names
    BY DEF IsBare
<1>2. Len(t.parts) \in Nat /\ DOMAIN t.parts = 1..Len(t.parts)
    BY PathFacts
<1>3. t.parts[1] # ""
  <2>1. CASE i = 1
      BY <1>1, <2>1, NamesAssumption
  <2>2. CASE i # 1
    <3>1. Len(t.parts) > 1
        BY <1>2, <2>2
    <3> QED BY <3>1, PathFacts
  <2> QED BY <2>1, <2>2
<1>4. 1 \in DOMAIN t.parts
    BY <1>2
<1>5. 1 \in Components(t)
    BY <1>3, <1>4 DEF Components
<1>6. i = 1 /\ (CHOOSE j \in Components(t) : TRUE) = 1
    BY <1>1, <1>5
<1> QED BY <1>1, <1>6 DEF ValidateRelativeCommand

\* A name in a canonical directory is canonical.
LEMMA CandidateCanonical ==
    ASSUME NEW d \in Paths, Canonical(d), NEW n \in Names
    PROVE  Candidate(d, n) \in Paths /\ Canonical(Candidate(d, n))
<1>1. n \in Parts
    BY DEF Parts
<1>2. CASE d.parts = <<"">>
  <2>1. <<n>> \in Seq(Parts) /\ <<n>> # <<>>
      BY <1>1
  <2>2. Candidate(d, n) = Absolute(<<n>>)
      BY <1>2 DEF Candidate
  <2>3. \A i \in DOMAIN <<n>> : <<n>>[i] \in Names
      OBVIOUS
  <2> QED BY <2>1, <2>2, <2>3, AbsolutePath, AbsoluteCanonical
<1>3. CASE d.parts # <<"">>
  <2> DEFINE parts == Append(d.parts, n)
  <2>1. Candidate(d, n) = Absolute(parts)
      BY <1>3 DEF Candidate
  <2>2. d.parts \in Seq(Parts) /\ Len(d.parts) \in Nat
      BY PathFacts
  <2>3. /\ parts \in Seq(Parts) /\ parts # <<>> /\ DOMAIN parts = 1..(Len(d.parts) + 1)
        /\ \A i \in 1..Len(d.parts) : parts[i] = d.parts[i]
        /\ parts[Len(d.parts) + 1] = n
      BY <1>1, <2>2, AppendProperties
  <2>4. \A i \in 1..Len(d.parts) : d.parts[i] \in Names
      BY <1>3, PathFacts DEF Canonical
  <2> HIDE DEF parts
  <2>5. \A i \in DOMAIN parts : parts[i] \in Names
      BY <2>2, <2>3, <2>4
  <2> QED BY <2>1, <2>3, <2>5, AbsolutePath, AbsoluteCanonical
<1> QED BY <1>2, <1>3

\* The directories that bare names are looked for in are canonical.
LEMMA SecureCanonical ==
    ASSUME NEW value, value # Other => value \in Seq(Paths \cup {Other}),
           LoadSecurePaths(value) # Error
    PROVE  \A i \in DOMAIN LoadSecurePaths(value) :
               LoadSecurePaths(value)[i] \in Paths /\ Canonical(LoadSecurePaths(value)[i])
<1> DEFINE raw == IF value = Other THEN DefaultSecurePath
                  ELSE Pick(value, {i \in DOMAIN value : value[i] # Other})
           dirs == [i \in DOMAIN raw |-> NormalizeAbsolutePath(raw[i])]
<1>1. LoadSecurePaths(value) = dirs /\ \A i \in DOMAIN raw : dirs[i] # Error
    BY DEF LoadSecurePaths
<1>2. \A i \in DOMAIN raw : raw[i] \in Paths
  <2>1. CASE value = Other
    <3>1. {"usr", "bin", "sbin", "local"} \subseteq Parts
        BY NamesAssumption DEF Parts
    <3>2. /\ <<"usr", "bin">> \in Seq(Parts) /\ <<"bin">> \in Seq(Parts)
          /\ <<"usr", "sbin">> \in Seq(Parts) /\ <<"sbin">> \in Seq(Parts)
          /\ <<"usr", "local", "bin">> \in Seq(Parts)
          /\ <<"usr", "local", "sbin">> \in Seq(Parts)
        BY <3>1
    <3>3. /\ Absolute(<<"usr", "bin">>) \in Paths /\ Absolute(<<"bin">>) \in Paths
          /\ Absolute(<<"usr", "sbin">>) \in Paths /\ Absolute(<<"sbin">>) \in Paths
          /\ Absolute(<<"usr", "local", "bin">>) \in Paths
          /\ Absolute(<<"usr", "local", "sbin">>) \in Paths
        BY <3>2, AbsolutePath
    <3>4. DefaultSecurePath \in Seq(Paths)
        BY <3>3 DEF DefaultSecurePath
    <3> QED BY <2>1, <3>4, ElementOfSeq
  <2>2. CASE value # Other
    <3> DEFINE K == {i \in DOMAIN value : value[i] # Other}
    <3>1. value \in Seq(Paths \cup {Other}) /\ raw = Pick(value, K)
        BY <2>2
    <3>2. \A k \in K : value[k] \in Paths
        BY <3>1, ElementOfSeq
    <3>3. \A i \in DOMAIN Pick(value, K) : \E k \in K : Pick(value, K)[i] = value[k]
      <4>1. K \subseteq DOMAIN value
          OBVIOUS
      <4> HIDE DEF K
      <4> QED BY <3>1, <4>1, PickIn
    <3> HIDE DEF K
    <3> QED BY <3>1, <3>2, <3>3
  <2> QED BY <2>1, <2>2
<1> HIDE DEF raw
<1>3. \A i \in DOMAIN raw : dirs[i] \in Paths /\ Canonical(dirs[i])
    BY <1>1, <1>2, NormalizeCanonical
<1> QED BY <1>1, <1>3

\* What load_secure_paths accepts is a list with numbered entries.
LEMMA SecureSeq ==
    ASSUME NEW value, value # Other => value \in Seq(Paths \cup {Other}),
           LoadSecurePaths(value) # Error
    PROVE  /\ Len(LoadSecurePaths(value)) \in Nat
           /\ DOMAIN LoadSecurePaths(value) = 1..Len(LoadSecurePaths(value))
<1> DEFINE raw == IF value = Other THEN DefaultSecurePath
                  ELSE Pick(value, {i \in DOMAIN value : value[i] # Other})
           dirs == [i \in DOMAIN raw |-> NormalizeAbsolutePath(raw[i])]
<1>1. LoadSecurePaths(value) = dirs
    BY DEF LoadSecurePaths
<1>2. \E n \in Nat : DOMAIN raw = 1..n
  <2>1. CASE value = Other
    <3>1. DOMAIN DefaultSecurePath = 1..6
        BY DEF DefaultSecurePath
    <3> QED BY <2>1, <3>1
  <2>2. CASE value # Other
    <3> DEFINE K == {i \in DOMAIN value : value[i] # Other}
    <3>1. value \in Seq(Paths \cup {Other}) /\ K \subseteq DOMAIN value
        BY <2>2
    <3> HIDE DEF K
    <3>2. Cardinality(K) \in Nat /\ DOMAIN Pick(value, K) = 1..Cardinality(K)
        BY <3>1, PickIn
    <3>3. raw = Pick(value, K)
        BY <2>2 DEF K
    <3> QED BY <3>2, <3>3
  <2> QED BY <2>1, <2>2
<1> HIDE DEF raw
<1>3. PICK n \in Nat : DOMAIN raw = 1..n
    BY <1>2
<1> DEFINE S == {NormalizeAbsolutePath(raw[i]) : i \in 1..n}
<1>4. dirs \in Seq(S) /\ DOMAIN dirs = 1..n
  <2>1. dirs = [i \in 1..n |-> NormalizeAbsolutePath(raw[i])]
      BY <1>3
  <2>2. \A i \in 1..n : NormalizeAbsolutePath(raw[i]) \in S
      OBVIOUS
  <2> HIDE DEF S
  <2>3. [i \in 1..n |-> NormalizeAbsolutePath(raw[i])] \in Seq(S)
      BY <2>2, IsASeq
  <2> QED BY <2>1, <2>3
<1> QED BY <1>1, <1>4

-----------------------------------------------------------------------------
(* Walk *)

\* A path without ".." is walked by entering its components one by one.
LEMMA WalkComponents ==
    ASSUME NEW t \in Paths, t.abs, \A i \in Components(t) : t.parts[i] # ".."
    PROVE  Walk(t) = Pick(t.parts, Components(t))
<1> DEFINE s == t.parts
           L == Len(s)
           C == Components(t)
           Rec(f) == [i \in 0..L |-> IF i = 0 THEN <<>> ELSE Enter(f[i - 1], s[i])]
           g == [i \in 0..L |-> Pick(s, AtMost(C, i))]
           dir == CHOOSE f : f = Rec(f)
<1>1. s \in Seq(Parts) /\ L \in Nat /\ DOMAIN s = 1..L /\ C \subseteq DOMAIN s
    BY PathFacts DEF Components
<1>2. Walk(t) = dir[L]
    BY Zenon DEF Walk
<1>3. \A i \in 1..L : (i \in C <=> s[i] \notin {"", "."}) /\ s[i] # ".."
    BY <1>1 DEF Components
<1> HIDE DEF C
<1>4. AtMost(C, 0) = {} /\ AtMost(C, L) = C
  <2>1. \A i \in 1..L : ~(i <= 0) /\ i <= L
      BY <1>1
  <2> QED BY <1>1, <2>1 DEF AtMost
<1> HIDE DEF s, L
<1>5. g[0] = <<>>
  <2>1. 0 \in 0..L
      BY <1>1
  <2> QED BY <1>1, <1>4, <2>1, PickNone
<1>6. ASSUME NEW i \in 1..L PROVE g[i] = Enter(g[i - 1], s[i])
  <2>1. i \in 0..L /\ i - 1 \in 0..L
      BY <1>1
  <2>2. g[i] = Pick(s, AtMost(C, i)) /\ g[i - 1] = Pick(s, AtMost(C, i - 1))
      BY <2>1
  <2> HIDE DEF g
  <2>3. g[i] = IF i \in C THEN Append(g[i - 1], s[i]) ELSE g[i - 1]
    <3>1. i \in DOMAIN s
        BY <1>1
    <3>2. /\ i \notin C => Pick(s, AtMost(C, i)) = Pick(s, AtMost(C, i - 1))
          /\ i \in C => Pick(s, AtMost(C, i)) = Append(Pick(s, AtMost(C, i - 1)), s[i])
        BY <1>1, <3>1, PickNext
    <3> QED BY <2>2, <3>2
  <2> QED BY <1>3, <2>3 DEF Enter
<1>7. g = Rec(g)
  <2> DEFINE R(i) == IF i = 0 THEN <<>> ELSE Enter(g[i - 1], s[i])
  <2>1. ASSUME NEW i \in 0..L PROVE g[i] = R(i)
    <3>1. CASE i = 0
        BY <1>5, <3>1
    <3>2. CASE i # 0
      <4>1. i \in 1..L
          BY <1>1, <3>2
      <4> HIDE DEF g
      <4> QED BY <1>6, <3>2, <4>1
    <3> QED BY <3>1, <3>2
  <2>2. g = [i \in 0..L |-> g[i]]
      OBVIOUS
  <2> HIDE DEF g, R
  <2>3. g = [i \in 0..L |-> R(i)]
      BY <2>1, <2>2
  <2> QED BY <2>3 DEF R
<1> HIDE DEF g
<1>8. dir = Rec(dir)
    BY <1>7, Zenon
<1> HIDE DEF dir
<1>9. \A i \in 0..L : dir[i] = IF i = 0 THEN <<>> ELSE Enter(dir[i - 1], s[i])
    BY <1>8, Zenon
<1> DEFINE T == {i \in 0..L : dir[i] # g[i]}
<1>10. T = {}
  <2> SUFFICES ASSUME T # {} PROVE FALSE
      OBVIOUS
  <2>1. T \subseteq Nat
      BY <1>1
  <2> HIDE DEF T
  <2>2. PICK x \in T : \A y \in T : x <= y
      BY <2>1, Smallest
  <2>3. x \in 0..L /\ dir[x] # g[x]
      BY <2>2 DEF T
  <2>4. x # 0
      BY <1>5, <1>9, <2>3
  <2>5. x \in 1..L /\ x - 1 \in 0..L /\ ~(x <= x - 1)
      BY <1>1, <2>3, <2>4
  <2>6. dir[x - 1] = g[x - 1]
      BY <2>2, <2>5 DEF T
  <2>7. dir[x] = Enter(dir[x - 1], s[x])
      BY <1>9, <2>3, <2>4
  <2> QED BY <1>6, <2>3, <2>5, <2>6, <2>7
<1>11. dir[L] = g[L]
  <2>1. L \in 0..L
      BY <1>1
  <2> QED BY <1>10, <2>1
<1>12. g[L] = Pick(s, C)
  <2>1. L \in 0..L
      BY <1>1
  <2> QED BY <1>4, <2>1 DEF g
<1> QED BY <1>2, <1>11, <1>12 DEF C, s, dir, L

\* A path that normalize_absolute_path accepts comes out as another way to write
\* the same place: walked from the root, segment by segment, both end where the
\* other does.  Rules are matched with the one and execve would be given the other.
THEOREM NormalizeFaithful ==
    ASSUME NEW t \in Paths, NormalizeAbsolutePath(t) # Error
    PROVE  Walk(NormalizeAbsolutePath(t)) = Walk(t)
<1> DEFINE names == Pick(t.parts, Components(t))
           r == NormalizeAbsolutePath(t)
<1>1. /\ t.abs /\ \A i \in Components(t) : t.parts[i] # ".."
      /\ \A n \in DOMAIN names : names[n] \in Names
      /\ r = Absolute(IF names = <<>> THEN <<"">> ELSE names)
    BY ComponentNames
<1>2. Walk(t) = names
    BY <1>1, WalkComponents
<1>3. r \in Paths /\ Canonical(r)
    BY NormalizeCanonical
<1> HIDE DEF names, r
<1>4. r.parts = IF names = <<>> THEN <<"">> ELSE names
    BY <1>1 DEF Absolute
<1>5. Walk(r) = Pick(r.parts, Components(r))
    BY <1>3, CanonicalNames, WalkComponents
<1>6. CASE names = <<>>
    BY <1>2, <1>3, <1>4, <1>5, <1>6, CanonicalNames DEF r
<1>7. CASE names # <<>>
  <2>1. names # <<"">>
    <3>1. 1 \in DOMAIN <<"">> /\ <<"">>[1] = ""
        OBVIOUS
    <3> QED BY <1>1, <3>1, NamesAssumption
  <2> QED BY <1>2, <1>3, <1>4, <1>5, <1>7, <2>1, CanonicalNames DEF r
<1> QED BY <1>6, <1>7
=============================================================================
