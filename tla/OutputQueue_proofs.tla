------------------------ MODULE OutputQueue_proofs ------------------------
(***************************************************************************)
(* What holds of a playback queue of any length, with any tracks and with  *)
(* every operation: each entry has exactly one place in the playing order, *)
(* and no edit takes the current track away from under the player.  Of a   *)
(* queue that has only grown, with no call interrupted by the end of a     *)
(* track: the player is in step with it.                                   *)
(***************************************************************************)
EXTENDS MC_OutputQueue, FiniteSetTheorems, SequenceTheorems, TLAPS

\* An item of m_entries.
Entry == [track : Tracks, played : BOOLEAN]

\* The orders in which n items can be played.
Orders(n) == {s \in Seq(1..n) : Len(s) = n /\ \A i, j \in 1..n : s[i] = s[j] => i = j}

\* No track is queued twice.
OneOfEach == \A i, j \in 1..Size : entries[i].track = entries[j].track => i = j

\* The current index is that of an item, or the first one behind them all.
NearTheEnd == cur <= Size + (IF undefined THEN 2 ELSE 1)

IInv == TypeOK /\ Size <= MaxEntries /\ order \in Orders(Size) /\ OneOfEach /\ NearTheEnd
-----------------------------------------------------------------------------
\* Each item is in the playing order.
LEMMA OrdersAreOnto ==
  ASSUME NEW n \in Nat, NEW s \in Orders(n)
  PROVE  Range(s) = 1..n
<1> DEFINE T == 1..n
<1>1. s \in [T -> T] /\ DOMAIN s = T
  BY LenProperties DEF Orders
<1>2. \A i, j \in T : s[i] = s[j] => i = j
  BY DEF Orders
<1>3. IsFiniteSet(T)
  BY FS_Interval
<1> HIDE DEF T
<1>4. s \in Injection(T, T)
  BY <1>1, <1>2 DEF Injection, IsInjective
<1>5. s \in Surjection(T, T)
  BY <1>3, <1>4, FS_Injection
<1>6. \A t \in T : \E i \in T : s[i] = t
  BY <1>5 DEF Surjection
<1> QED  BY <1>1, <1>6 DEF Range, T

\* An item put into a sequence.
LEMMA Inserted ==
  ASSUME NEW S, NEW s \in Seq(S), NEW p \in 1..(Len(s) + 1), NEW e \in S
  PROVE  /\ InsertAt(s, p, e) \in Seq(S) /\ Len(InsertAt(s, p, e)) = Len(s) + 1
         /\ \A i \in 1..(Len(s) + 1) : InsertAt(s, p, e)[i] =
              IF i < p THEN s[i] ELSE IF i = p THEN e ELSE s[i - 1]
<1> DEFINE n == Len(s)
           a == SubSeq(s, 1, p - 1)
           b == SubSeq(s, p, n)
           c == a \o <<e>>
           d == c \o b
<1>1. n \in Nat /\ p \in Int /\ p >= 1 /\ p <= n + 1 /\ \A i \in 1..n : s[i] \in S
  OBVIOUS
<1> HIDE DEF n
<1>2. a \in Seq(S) /\ Len(a) = p - 1 /\ \A i \in 1..(p - 1) : a[i] = s[i]
  <2>1. /\ a \in Seq(S) /\ Len(a) = IF 1 <= p - 1 THEN p - 1 - 1 + 1 ELSE 0
        /\ \A i \in 1..(p - 1 - 1 + 1) : a[i] = s[1 + i - 1]
    <3>1. 1 \in Int /\ p - 1 \in Int /\ \A i \in 1..(p - 1) : s[i] \in S  BY <1>1
    <3> QED  BY <3>1, SubSeqProperties
  <2> QED  BY <1>1, <2>1
<1>3. b \in Seq(S) /\ Len(b) = n - p + 1 /\ \A i \in 1..(n - p + 1) : b[i] = s[p + i - 1]
  <2>1. /\ b \in Seq(S) /\ Len(b) = IF p <= n THEN n - p + 1 ELSE 0
        /\ \A i \in 1..(n - p + 1) : b[i] = s[p + i - 1]
    <3>1. p \in Int /\ n \in Int /\ \A i \in p..n : s[i] \in S  BY <1>1
    <3> QED  BY <3>1, SubSeqProperties
  <2> QED  BY <1>1, <2>1
<1>4. <<e>> \in Seq(S) /\ Len(<<e>>) = 1 /\ <<e>>[1] = e
  OBVIOUS
<1> HIDE DEF a, b
<1>5. /\ c \in Seq(S) /\ Len(c) = p
      /\ \A i \in 1..p : c[i] = IF i < p THEN s[i] ELSE e
  <2>1. /\ c \in Seq(S) /\ Len(c) = Len(a) + Len(<<e>>)
        /\ \A i \in 1..(Len(a) + Len(<<e>>)) : c[i] = IF i <= Len(a) THEN a[i] ELSE <<e>>[i - Len(a)]
    BY <1>2, <1>4, ConcatProperties
  <2>2. Len(c) = p
    BY <1>1, <1>2, <1>4, <2>1
  <2>3. ASSUME NEW i \in 1..p  PROVE c[i] = IF i < p THEN s[i] ELSE e
    <3>1. i \in 1..(Len(a) + Len(<<e>>)) /\ (i <= Len(a) <=> i < p) /\ (i >= p => i - Len(a) = 1)
      BY <1>1, <1>2, <1>4
    <3>2. i < p => i \in 1..(p - 1)  BY <1>1
    <3>3. c[i] = IF i <= Len(a) THEN a[i] ELSE <<e>>[i - Len(a)]  BY <2>1, <3>1
    <3> QED  BY <1>1, <1>2, <1>4, <3>1, <3>2, <3>3
  <2> QED  BY <2>1, <2>2, <2>3
<1> HIDE DEF c
<1>6. /\ d \in Seq(S) /\ Len(d) = n + 1
      /\ \A i \in 1..(n + 1) : d[i] = IF i < p THEN s[i] ELSE IF i = p THEN e ELSE s[i - 1]
  <2>1. /\ d \in Seq(S) /\ Len(d) = Len(c) + Len(b)
        /\ \A i \in 1..(Len(c) + Len(b)) : d[i] = IF i <= Len(c) THEN c[i] ELSE b[i - Len(c)]
    BY <1>3, <1>5, ConcatProperties
  <2>2. Len(d) = n + 1 /\ Len(c) + Len(b) = n + 1
    BY <1>1, <1>3, <1>5, <2>1
  <2>3. ASSUME NEW i \in 1..(n + 1)
        PROVE  d[i] = IF i < p THEN s[i] ELSE IF i = p THEN e ELSE s[i - 1]
    <3>1. d[i] = IF i <= p THEN c[i] ELSE b[i - p]
      BY <1>5, <2>1, <2>2
    <3>2. i <= p => i \in 1..p
      BY <1>1
    <3>3. ASSUME i > p  PROVE b[i - p] = s[i - 1]
      <4> DEFINE k == i - p
      <4>1. k \in 1..(n - p + 1) /\ p + k - 1 = i - 1  BY <1>1, <3>3
      <4> HIDE DEF k
      <4>2. b[k] = s[p + k - 1]  BY <1>3, <4>1
      <4> QED  BY <4>1, <4>2 DEF k
    <3> QED  BY <1>1, <1>5, <3>1, <3>2, <3>3
  <2> QED  BY <2>1, <2>2, <2>3
<1>7. InsertAt(s, p, e) = d
  BY DEF InsertAt, a, b, c, n
<1> QED  BY <1>6, <1>7 DEF n

\* A new item put into a playing order of the others.
LEMMA InsertedOrder ==
  ASSUME NEW n \in Nat, NEW p \in 1..(n + 1), NEW q \in 1..(n + 1),
         NEW s \in Seq(1..(n + 1)), Len(s) = n,
         \A i \in 1..n : s[i] # p,
         \A i, j \in 1..n : s[i] = s[j] => i = j
  PROVE  InsertAt(s, q, p) \in Orders(n + 1)
<1> DEFINE T == 1..(n + 1)
           t == InsertAt(s, q, p)
<1>1. s \in Seq(T) /\ q \in 1..(Len(s) + 1) /\ p \in T
  OBVIOUS
<1> HIDE DEF T, t
<1>2. /\ t \in Seq(T) /\ Len(t) = Len(s) + 1
      /\ \A i \in 1..(Len(s) + 1) : t[i] = IF i < q THEN s[i] ELSE IF i = q THEN p ELSE s[i - 1]
  BY ONLY <1>1, Inserted DEF t
<1>3. Len(t) = n + 1 /\ \A i \in 1..(n + 1) : t[i] = IF i < q THEN s[i] ELSE IF i = q THEN p ELSE s[i - 1]
  BY <1>2
<1>4. ASSUME NEW i \in 1..(n + 1), NEW j \in 1..(n + 1), t[i] = t[j]  PROVE i = j
  <2>1. t[i] = IF i < q THEN s[i] ELSE IF i = q THEN p ELSE s[i - 1]  BY <1>3
  <2>2. t[j] = IF j < q THEN s[j] ELSE IF j = q THEN p ELSE s[j - 1]  BY <1>3
  <2> DEFINE a == IF i < q THEN i ELSE i - 1
             b == IF j < q THEN j ELSE j - 1
  <2>3. CASE i # q /\ j # q
    <3>1. a \in 1..n /\ b \in 1..n /\ t[i] = s[a] /\ t[j] = s[b]  BY <2>1, <2>2, <2>3
    <3> HIDE DEF a, b
    <3>2. a = b  BY <1>4, <3>1
    <3> QED  BY <2>3, <3>2 DEF a, b
  <2>4. CASE i = q /\ j # q
    <3>1. b \in 1..n /\ t[j] = s[b] /\ t[i] = p  BY <2>1, <2>2, <2>4
    <3> HIDE DEF a, b
    <3> QED  BY <1>4, <3>1
  <2>5. CASE i # q /\ j = q
    <3>1. a \in 1..n /\ t[i] = s[a] /\ t[j] = p  BY <2>1, <2>2, <2>5
    <3> HIDE DEF a, b
    <3> QED  BY <1>4, <3>1
  <2>6. CASE i = q /\ j = q
    BY <2>6
  <2> QED  BY <2>3, <2>4, <2>5, <2>6
<1> QED  BY <1>2, <1>3, <1>4 DEF Orders, T, t

\* The survivors of a range move up, and keep their order.
LEMMA MovedFacts ==
  ASSUME NEW n \in Nat, NEW gone \in SUBSET (1..n)
  PROVE  LET m == n - Cardinality(gone)
         IN  /\ m \in Nat /\ Cardinality(gone) \in Nat
             /\ \A j \in (1..n) \ gone : Moved(j, gone) \in 1..m
             /\ \A i, j \in (1..n) \ gone : i < j => Moved(i, gone) < Moved(j, gone)
             /\ \A k \in 1..m : \E j \in (1..n) \ gone : Moved(j, gone) = k
<1> DEFINE K == (1..n) \ gone
           m == n - Cardinality(gone)
           B(j) == (1..j) \ gone
<1>1. IsFiniteSet(1..n) /\ Cardinality(1..n) = n
  BY FS_Interval
<1>2. IsFiniteSet(gone) /\ Cardinality(gone) \in Nat /\ (1..n) \cap gone = gone
  BY <1>1, FS_Subset, FS_CardinalityType
<1>3. IsFiniteSet(K) /\ Cardinality(K) = m /\ m \in Nat
  <2>1. IsFiniteSet(K) /\ Cardinality(K) = Cardinality(1..n) - Cardinality((1..n) \cap gone)
    BY <1>1, FS_Difference
  <2>2. Cardinality(K) = m
    BY <1>1, <1>2, <2>1
  <2> QED  BY <2>1, <2>2, FS_CardinalityType
<1> HIDE DEF m
<1>4. ASSUME NEW j \in K
      PROVE  IsFiniteSet(B(j)) /\ B(j) \subseteq K /\ j \in B(j) /\ Cardinality(B(j)) \in 1..m
  <2>1. B(j) \subseteq K /\ j \in B(j)
    OBVIOUS
  <2> HIDE DEF B, K
  <2>2. IsFiniteSet(B(j)) /\ Cardinality(B(j)) <= m
    BY <1>3, <2>1, FS_Subset
  <2>3. Cardinality(B(j)) \in Nat /\ Cardinality(B(j)) # 0
    BY <2>1, <2>2, FS_CardinalityType, FS_EmptySet
  <2> QED  BY <1>3, <2>1, <2>2, <2>3
<1>5. ASSUME NEW i \in K, NEW j \in K, i < j
      PROVE  Cardinality(B(i)) < Cardinality(B(j))
  <2>1. B(i) \subseteq B(j) /\ j \in B(j) /\ j \notin B(i)
    BY <1>5
  <2>2. IsFiniteSet(B(i)) /\ IsFiniteSet(B(j)) /\ Cardinality(B(i)) \in Nat /\ Cardinality(B(j)) \in Nat
    BY <1>4
  <2> HIDE DEF B, K
  <2>3. Cardinality(B(i)) <= Cardinality(B(j)) /\ (Cardinality(B(j)) = Cardinality(B(i)) => B(j) = B(i))
    BY <2>1, <2>2, FS_Subset
  <2> QED  BY <2>1, <2>2, <2>3
<1>6. ASSUME NEW k \in 1..m  PROVE \E j \in K : Cardinality(B(j)) = k
  <2> DEFINE f == [j \in K |-> Cardinality(B(j))]
             T == 1..m
  <2>1. IsFiniteSet(T) /\ Cardinality(T) = m
    BY <1>3, FS_Interval
  <2>2. f \in [K -> T]
    BY <1>4
  <2>3. \A i, j \in K : f[i] = f[j] => i = j
    <3> SUFFICES ASSUME NEW i \in K, NEW j \in K, f[i] = f[j], i # j PROVE FALSE
      OBVIOUS
    <3>1. i < j \/ j < i  OBVIOUS
    <3>2. Cardinality(B(i)) = Cardinality(B(j)) /\ Cardinality(B(i)) \in 1..m  BY <1>4
    <3>3. ~(Cardinality(B(i)) < Cardinality(B(j))) /\ ~(Cardinality(B(j)) < Cardinality(B(i)))  BY <1>3, <3>2
    <3> QED  BY <1>5, <3>1, <3>3
  <2>4. \A j \in K : f[j] = Cardinality(B(j))
    OBVIOUS
  <2>5. k \in T
    OBVIOUS
  <2> HIDE DEF f, T, B, K
  <2>6. f \in Injection(K, T)
    BY <2>2, <2>3 DEF Injection, IsInjective
  <2>7. f \in Surjection(K, T)
    BY <1>3, <2>1, <2>6, FS_Injection
  <2> QED  BY <2>4, <2>5, <2>7 DEF Surjection
<1> QED  BY <1>2, <1>3, <1>4, <1>5, <1>6 DEF Moved, m

\* A survivor is where it has moved to.
LEMMA WithoutFacts ==
  ASSUME NEW S, NEW s \in Seq(S), NEW gone \in SUBSET (1..Len(s))
  PROVE  /\ Without(s, gone) \in Seq(S)
         /\ Len(Without(s, gone)) = Len(s) - Cardinality(gone)
         /\ \A j \in (1..Len(s)) \ gone : Without(s, gone)[Moved(j, gone)] = s[j]
<1> DEFINE n == Len(s)
           m == n - Cardinality(gone)
           K == (1..n) \ gone
           At1(i) == CHOOSE j \in K : Moved(j, gone) = i
           w == Without(s, gone)
<1>1. n \in Nat /\ DOMAIN s = 1..n /\ \A i \in 1..n : s[i] \in S
  BY LenProperties
<1>2. w = [i \in 1..m |-> s[At1(i)]]
  BY <1>1 DEF Without, Moved
<1> HIDE DEF n, w
<1>3. /\ m \in Nat
      /\ \A j \in K : Moved(j, gone) \in 1..m
      /\ \A i, j \in K : i < j => Moved(i, gone) < Moved(j, gone)
      /\ \A k \in 1..m : \E j \in K : Moved(j, gone) = k
  <2>1. gone \in SUBSET (1..n)  BY DEF n
  <2> QED  BY <1>1, <2>1, MovedFacts
<1> HIDE DEF m
<1>4. \A i \in 1..m : At1(i) \in K /\ Moved(At1(i), gone) = i
  BY <1>3
<1>5. \A i \in 1..m : s[At1(i)] \in S
  BY <1>1, <1>4
<1>6. ASSUME NEW j \in K  PROVE At1(Moved(j, gone)) = j
  <2> DEFINE i == Moved(j, gone)
             a == At1(i)
  <2>1. i \in 1..m  BY <1>3
  <2>2. a \in K /\ Moved(a, gone) = i  BY <1>4, <2>1
  <2>3. j \in Int  BY <1>1
  <2>4. a \in Int  BY <1>1, <2>2
  <2>5. i \in Int  BY <1>3, <2>1
  <2> HIDE DEF a, At1
  <2>6. ~(a < j) /\ ~(j < a)
    <3>1. a < j => Moved(a, gone) < i  BY <1>3, <2>2
    <3>2. j < a => i < Moved(a, gone)  BY <1>3, <2>2
    <3> HIDE DEF i
    <3> QED  BY <2>2, <2>5, <3>1, <3>2
  <2> QED  BY <2>3, <2>4, <2>6 DEF a
<1> HIDE DEF At1
<1>7. w \in [1..m -> S]
  BY <1>2, <1>5
<1>8. w \in Seq(S) /\ Len(w) = m
  BY <1>3, <1>7
<1>9. ASSUME NEW j \in K  PROVE w[Moved(j, gone)] = s[j]
  <2>1. Moved(j, gone) \in 1..m  BY <1>3
  <2> QED  BY <1>2, <1>6, <2>1
<1> QED  BY <1>8, <1>9 DEF n, m, w

\* What is left of a playing order without the items gone, and without the entries dead.
Cut(s, gone, dead) == LET left == Without(s, gone)
                      IN  [i \in DOMAIN left |-> Moved(left[i], dead)]

\* The entries of the items at some places.
EntriesAt(s, at) == {s[i] : i \in at}

\* The items that are left are a playing order of the entries that are left.
LEMMA CutOrder ==
  ASSUME NEW n \in Nat, NEW s \in Orders(n), NEW gone \in SUBSET (1..n),
         NEW dead, dead = EntriesAt(s, gone)
  PROVE  LET m == n - Cardinality(dead)
         IN  /\ dead \in SUBSET (1..n) /\ m \in Nat /\ Cardinality(dead) = Cardinality(gone)
             /\ Cut(s, gone, dead) \in Orders(m)
             /\ \A j \in (1..n) \ gone :
                  /\ s[j] \in (1..n) \ dead
                  /\ Moved(j, gone) \in 1..m
                  /\ Cut(s, gone, dead)[Moved(j, gone)] = Moved(s[j], dead)
<1> DEFINE K == (1..n) \ gone
           m == n - Cardinality(dead)
           t == Cut(s, gone, dead)
           left == Without(s, gone)
<1>1. /\ s \in Seq(1..n) /\ Len(s) = n /\ DOMAIN s = 1..n
      /\ \A i \in 1..n : s[i] \in 1..n
      /\ \A i, j \in 1..n : s[i] = s[j] => i = j
  BY LenProperties DEF Orders
<1>2. /\ \A d \in dead : \E i \in gone : s[i] = d
      /\ \A i \in gone : s[i] \in dead
  BY DEF EntriesAt
<1>3. dead \in SUBSET (1..n) /\ \A j \in K : s[j] \in (1..n) \ dead
  BY <1>1, <1>2
<1>4. Cardinality(dead) = Cardinality(gone)
  <2> DEFINE f == [i \in gone |-> s[i]]
  <2>1. IsFiniteSet(dead)
    BY <1>3, FS_Interval, FS_Subset
  <2>2. f \in [gone -> dead] /\ \A i, j \in gone : f[i] = f[j] => i = j
    BY <1>1, <1>2
  <2>3. \A d \in dead : \E i \in gone : f[i] = d
    BY <1>2
  <2> HIDE DEF f
  <2>4. f \in Injection(gone, dead) /\ f \in Surjection(gone, dead)
    BY <2>2, <2>3 DEF Injection, IsInjective, Surjection
  <2> QED  BY <2>1, <2>4, FS_Injection
<1> DEFINE Mg == n - Cardinality(gone)
<1>5. /\ Mg \in Nat
      /\ \A j \in K : Moved(j, gone) \in 1..Mg
      /\ \A k \in 1..Mg : \E j \in K : Moved(j, gone) = k
  BY MovedFacts
<1>6. m = Mg
  BY <1>4
<1>7. /\ \A e \in (1..n) \ dead : Moved(e, dead) \in 1..m
      /\ \A d, e \in (1..n) \ dead : d < e => Moved(d, dead) < Moved(e, dead)
  BY <1>3, MovedFacts
<1>8. left \in Seq(1..n) /\ Len(left) = Mg /\ \A j \in K : left[Moved(j, gone)] = s[j]
  <2> DEFINE T == 1..n
  <2>1. s \in Seq(T) /\ gone \in SUBSET (1..Len(s))  BY <1>1
  <2> HIDE DEF T
  <2>2. /\ left \in Seq(T) /\ Len(left) = Len(s) - Cardinality(gone)
        /\ \A j \in (1..Len(s)) \ gone : left[Moved(j, gone)] = s[j]
    BY ONLY <2>1, WithoutFacts
  <2> QED  BY <1>1, <2>2 DEF T
<1> HIDE DEF m, Mg, left
<1>9. t = [i \in 1..m |-> Moved(left[i], dead)]
  BY <1>6, <1>8, LenProperties DEF Cut, left
<1> HIDE DEF t
<1>10. ASSUME NEW i \in 1..m
       PROVE  \E j \in K : Moved(j, gone) = i /\ left[i] = s[j] /\ t[i] = Moved(s[j], dead)
  <2>1. PICK j \in K : Moved(j, gone) = i
    BY <1>5, <1>6
  <2> QED  BY <1>8, <1>9, <2>1
<1>11. \A i \in 1..m : t[i] \in 1..m
  BY <1>3, <1>7, <1>10
<1>12. ASSUME NEW i \in 1..m, NEW j \in 1..m, t[i] = t[j]  PROVE i = j
  <2>1. PICK a \in K : Moved(a, gone) = i /\ t[i] = Moved(s[a], dead)
    BY <1>10
  <2>2. PICK b \in K : Moved(b, gone) = j /\ t[j] = Moved(s[b], dead)
    BY <1>10
  <2> DEFINE d == s[a]
             e == s[b]
  <2>3. d \in (1..n) \ dead /\ e \in (1..n) \ dead
    BY <1>3
  <2> HIDE DEF d, e
  <2>4. Moved(d, dead) = Moved(e, dead) /\ Moved(d, dead) \in 1..m
    BY <1>7, <1>12, <2>1, <2>2, <2>3 DEF d, e
  <2>5. d = e
    <3>1. d \in Int /\ e \in Int /\ Moved(d, dead) \in Int  BY <2>3, <2>4
    <3>2. (d < e => Moved(d, dead) < Moved(e, dead)) /\ (e < d => Moved(e, dead) < Moved(d, dead))
      BY <1>7, <2>3
    <3> QED  BY <2>4, <3>1, <3>2
  <2>6. a = b
    BY <1>1, <2>5 DEF d, e
  <2> QED  BY <2>1, <2>2, <2>6
<1>13. t \in Orders(m)
  <2>1. m \in Nat  BY <1>5, <1>6
  <2>2. t \in [1..m -> 1..m]  BY <1>9, <1>11
  <2>3. t \in Seq(1..m) /\ Len(t) = m  BY <2>1, <2>2
  <2> QED  BY <1>12, <2>3 DEF Orders
<1>14. \A j \in K : t[Moved(j, gone)] = Moved(s[j], dead)
  BY <1>5, <1>6, <1>8, <1>9
<1> QED  BY <1>3, <1>4, <1>5, <1>6, <1>13, <1>14 DEF m, t

\* What EditsRespectPlayback says of one step.
KeepsCurrentOnRemoval ==
  Len(entries') < Size /\ CurrentTrack \in {e.track : e \in Range(entries')}
    => CurrentTrack' = CurrentTrack /\ ~Starting

NeverSkips ==
  Len(entries') > Size /\ CurrentTrack # None
    => \/ CurrentTrack' = CurrentTrack
       \/ CurrentTrack' \notin Queued /\ Starting

KeepsCurrentOnShuffle == shuffled' # shuffled => CurrentTrack' = CurrentTrack

Bipartite ==
  shuffled' /\ ~shuffled /\ Size > 1 /\ ~undefined' =>
    \A i \in DOMAIN order' : /\ i < cur' => entries'[order'[i]].played
                             /\ i > cur' => ~entries'[order'[i]].played

Respects == KeepsCurrentOnRemoval /\ NeverSkips /\ KeepsCurrentOnShuffle /\ Bipartite

Holds == IInv' /\ Respects

\* What TypeOK says of the variables that are not the queue's.
Others ==
  /\ {expected, expectedNext, url, nextUrl} \subseteq Optional
  /\ {state, playing, last} \subseteq States
  /\ job \in [Threads -> Seq(Steps)]
  /\ got \in [Threads -> Optional]
  /\ firing \in Threads \cup {None}
  /\ restarted \in BOOLEAN

\* What the invariant says of positions.
LEMMA Shapes ==
  ASSUME IInv
  PROVE  /\ entries \in Seq(Entry) /\ Size \in Nat /\ Size <= MaxEntries /\ MaxEntries \in Nat
         /\ DOMAIN entries = 1..Size /\ DOMAIN order = 1..Size /\ Len(order) = Size
         /\ order \in Orders(Size) /\ order \in Seq(1..Size) /\ order \in [1..Size -> 1..Size]
         /\ \A i \in 1..Size : order[i] \in 1..Size /\ entries[i] \in Entry
         /\ \A i, j \in 1..Size : order[i] = order[j] => i = j
         /\ cur \in Nat /\ cur >= 1 /\ (~undefined => cur <= Size + 1)
         /\ Others /\ OneOfEach
<1>1. entries \in Seq(Entry) /\ Size \in Nat /\ DOMAIN entries = 1..Size /\ \A i \in 1..Size : entries[i] \in Entry
  <2>1. entries \in Seq(Entry)
    BY DEF IInv, TypeOK, Entry
  <2> HIDE DEF Entry
  <2> QED  BY <2>1 DEF Size
<1>2. order \in Seq(1..Size) /\ Len(order) = Size
  BY DEF IInv, Orders
<1>3. DOMAIN order = 1..Size /\ order \in [1..Size -> 1..Size]
  BY <1>1, <1>2
<1>4. \A i \in 1..Size : order[i] \in 1..Size
  BY <1>3
<1>5. \A i, j \in 1..Size : order[i] = order[j] => i = j
  BY DEF IInv, Orders
<1>6. cur \in Nat /\ cur >= 1 /\ (~undefined => cur <= Size + 1)
  BY QueueAssumption, <1>1 DEF IInv, TypeOK, NearTheEnd
<1>7. MaxEntries \in Nat /\ Size <= MaxEntries /\ OneOfEach /\ order \in Orders(Size)
  BY QueueAssumption DEF IInv
<1>8. Others
  BY DEF IInv, TypeOK, Others
<1> QED  BY <1>1, <1>2, <1>3, <1>4, <1>5, <1>6, <1>7, <1>8

\* What is left to show of a step that changes the queue.
LEMMA EditKeepsInvariant ==
  ASSUME IInv, Others', shuffled' \in BOOLEAN, undefined' \in BOOLEAN,
         entries' \in Seq(Entry), Len(entries') <= MaxEntries, OneOfEach',
         order' \in Orders(Len(entries')), cur' \in Nat, cur' >= 1,
         cur' <= Len(entries') + (IF undefined' THEN 2 ELSE 1)
  PROVE  IInv'
<1> DEFINE n == Len(entries')
<1>1. n \in Nat /\ MaxEntries \in Nat /\ n <= MaxEntries
  BY QueueAssumption
<1>2. order' \in Seq(1..n)
  BY DEF Orders
<1> HIDE DEF n
<1>3. 1..n \subseteq 1..MaxEntries
  BY <1>1
<1>4. order' \in Seq(1..MaxEntries)
  <2> DEFINE T == 1..n
             U == 1..MaxEntries
             s == order'
  <2>1. s \in Seq(T) /\ T \subseteq U  BY <1>2, <1>3
  <2> HIDE DEF T, U, s
  <2>2. s \in Seq(U)  BY <2>1
  <2> QED  BY <2>2 DEF s, U
<1>5. cur' \in 1..(MaxEntries + 3)
  BY <1>1 DEF n
<1>6. TypeOK'
  BY <1>4, <1>5 DEF TypeOK, Others, Entry
<1> QED  BY <1>6 DEF IInv, Size, NearTheEnd

\* A step that is neither an edit nor a shuffle.
LEMMA NotAnEdit ==
  ASSUME IInv, Len(entries') = Size, shuffled' = shuffled
  PROVE  Respects
<1>1. Size \in Nat
  BY Shapes
<1>2. ~(Len(entries') < Size) /\ ~(Len(entries') > Size)
  BY <1>1
<1> QED  BY <1>2 DEF Respects, KeepsCurrentOnRemoval, NeverSkips, KeepsCurrentOnShuffle, Bipartite

\* A step that does not touch the queue.
LEMMA QueueUntouched ==
  ASSUME IInv, UNCHANGED queueVars, UNCHANGED undefined, Others'
  PROVE  Holds
<1>1. IInv'
  <2>1. TypeOK'
    BY DEF IInv, TypeOK, Others, queueVars
  <2> QED  BY <2>1 DEF IInv, Size, OneOfEach, NearTheEnd, queueVars
<1>2. Respects
  BY NotAnEdit DEF queueVars, Size
<1> QED  BY <1>1, <1>2 DEF Holds

\* The calls that a thread makes.
LEMMA Calls ==
  /\ SetURL \in Seq(Steps) /\ SetNextURL \in Seq(Steps) /\ Play \in Seq(Steps)
  /\ \A s \in States : s \in Steps /\ <<s>> \in Seq(Steps) /\ PlayStateCalls(s) \in Seq(Steps)
  /\ \A a, b \in BOOLEAN : Refresh(a, b) \in Seq(Steps)
  /\ <<"add:check">> \in Seq(Steps) /\ <<"seek:state">> \in Seq(Steps)
  /\ <<"fired">> \in Seq(Steps) /\ <<"url:fire">> \in Seq(Steps) /\ <<>> \in Seq(Steps)
<1>1. SetURL \in Seq(Steps) /\ SetNextURL \in Seq(Steps)
  BY DEF SetURL, SetNextURL, Steps, Range
<1>2. \A s \in States \cup {"fired", "add:check", "seek:state"} : s \in Steps
  BY DEF Steps
<1>3. "url:fire" \in Steps
  BY DEF Steps, SetURL, Range
<1>4. \A s \in States : s \in Steps /\ <<s>> \in Seq(Steps)
  BY <1>2
<1>5. /\ <<"add:check">> \in Seq(Steps) /\ <<"seek:state">> \in Seq(Steps)
      /\ <<"fired">> \in Seq(Steps) /\ <<"url:fire">> \in Seq(Steps) /\ <<>> \in Seq(Steps)
  BY <1>2, <1>3
<1>6. Play \in Seq(Steps)
  <2>1. "PLAY" \in States  BY DEF States
  <2>2. <<"PLAY">> \in Seq(Steps)  BY <1>4, <2>1
  <2> HIDE DEF Steps, SetURL, SetNextURL
  <2>3. (SetURL \o SetNextURL) \o <<"PLAY">> \in Seq(Steps)
    BY <1>1, <2>2
  <2> QED  BY <1>5, <2>3 DEF Play
<1>7. \A s \in States : PlayStateCalls(s) \in Seq(Steps)
  BY <1>4, <1>6 DEF PlayStateCalls
<1>8. \A a, b \in BOOLEAN : Refresh(a, b) \in Seq(Steps)
  BY <1>1, <1>5 DEF Refresh
<1> QED  BY <1>1, <1>4, <1>5, <1>6, <1>7, <1>8

\* A call asked for by the user interface.
LEMMA ThenTypes ==
  ASSUME IInv, NEW calls \in Seq(Steps), Then(calls)
  PROVE  Others'
BY Shapes DEF Then, Others, expectVars, playerVars, Threads

\* A call that has made a step.
LEMMA RestTypes ==
  ASSUME IInv, NEW t \in Threads, NEW step, At(t, step)
  PROVE  Rest(t) \in Seq(Steps) /\ [job EXCEPT ![t] = Rest(t)] \in [Threads -> Seq(Steps)]
<1>1. job \in [Threads -> Seq(Steps)]
  BY Shapes DEF Others
<1>2. job[t] \in Seq(Steps) /\ job[t] # <<>>
  BY <1>1 DEF At
<1>3. Rest(t) \in Seq(Steps)
  BY <1>2 DEF Rest
<1> QED  BY <1>1, <1>3
-----------------------------------------------------------------------------
\* The steps that leave the queue alone.
LEMMA AddCheckKeeps == ASSUME IInv, AddCheck PROVE Holds
<1>1. PICK calls : calls \in Seq(Steps) /\ Then(calls)
  BY Calls DEF AddCheck
<1> QED  BY <1>1, ThenTypes, QueueUntouched DEF AddCheck

LEMMA SeekStateKeeps == ASSUME IInv, SeekState PROVE Holds
<1>1. state \in States
  BY Shapes DEF Others
<1> DEFINE a == PlayStateCalls(state)
           calls == (SetURL \o SetNextURL) \o a
<1>2. SetURL \in Seq(Steps) /\ SetNextURL \in Seq(Steps) /\ a \in Seq(Steps)
  BY <1>1, Calls
<1> HIDE DEF a
<1>3. calls \in Seq(Steps)
  BY <1>2
<1>4. Then(calls)
  BY DEF SeekState, a
<1> HIDE DEF calls
<1> QED  BY <1>3, <1>4, ThenTypes, QueueUntouched DEF SeekState

LEMMA SetPlayStateKeeps == ASSUME IInv, NEW s \in Commands, SetPlayState(s) PROVE Holds
<1>1. s \in States
  BY QueueAssumption DEF States
<1>2. PlayStateCalls(s) \in Seq(Steps)
  BY <1>1, Calls
<1> QED  BY <1>2, ThenTypes, QueueUntouched DEF SetPlayState

LEMMA ReadItemKeeps ==
  ASSUME IInv, NEW t \in Threads, NEW step, NEW i \in Nat, i >= 1, NEW calls \in Nat,
         ReadItem(t, step, i, calls)
  PROVE  Holds
<1>1. Others /\ job[t] \in Seq(Steps) /\ At(t, step)
  BY Shapes DEF Others, ReadItem
<1>2. [job EXCEPT ![t] = Rest(t)] \in [Threads -> Seq(Steps)]
  BY <1>1, RestTypes
<1>3. SubSeq(job[t], calls + 1, Len(job[t])) \in Seq(Steps)
  <2> DEFINE j == job[t]
             m == calls + 1
             n == Len(j)
  <2>1. j \in Seq(Steps) /\ m \in Int /\ n \in Int /\ m >= 1  BY <1>1
  <2>2. \A k \in m..n : j[k] \in Steps  BY <2>1
  <2> HIDE DEF j, m, n, Steps
  <2>3. SubSeq(j, m, n) \in Seq(Steps)  BY ONLY <2>1, <2>2, SubSeqProperties
  <2> QED  BY <2>3 DEF j, m, n
<1>4. i <= Size => TrackAt(i) \in Optional
  <2> SUFFICES ASSUME i <= Size PROVE TrackAt(i) \in Optional  OBVIOUS
  <2>1. i \in 1..Size  BY Shapes
  <2>2. entries[order[i]] \in Entry  BY <2>1, Shapes
  <2> QED  BY <2>2 DEF TrackAt, Entry, Optional
<1>5. Others'
  <2>1. CASE i > Size
    BY <1>1, <1>3, <2>1 DEF ReadItem, Others, expectVars, playerVars
  <2>2. CASE ~(i > Size)
    <3>1. i <= Size  BY <2>2, Shapes
    <3>2. [got EXCEPT ![t] = TrackAt(i)] \in [Threads -> Optional]
      BY <1>1, <1>4, <3>1 DEF Others
    <3> QED  BY <1>1, <1>2, <2>2, <3>2 DEF ReadItem, Others, expectVars, playerVars
  <2> QED  BY <2>1, <2>2
<1> QED  BY <1>5, QueueUntouched DEF ReadItem

LEMMA ReadURLKeeps == ASSUME IInv, NEW t \in Threads, ReadURL(t) PROVE Holds
<1>1. Len(SetURL) \in Nat  BY DEF SetURL
<1> QED  BY <1>1, Shapes, ReadItemKeeps DEF ReadURL

LEMMA ReadNextKeeps == ASSUME IInv, NEW t \in Threads, ReadNext(t) PROVE Holds
<1>1. Len(SetNextURL) \in Nat  BY DEF SetNextURL
<1>2. NextPosition \in Nat /\ NextPosition >= 1  BY Shapes DEF NextPosition
<1> HIDE DEF NextPosition
<1> QED  BY <1>1, <1>2, ReadItemKeeps DEF ReadNext

LEMMA ExpectKeeps == ASSUME IInv, NEW t \in Threads, Expect(t) PROVE Holds
<1>1. Others /\ got[t] \in Optional
  BY Shapes DEF Others
<1>2. job' \in [Threads -> Seq(Steps)]
  BY RestTypes DEF Expect
<1>3. Others'
  BY <1>1, <1>2 DEF Expect, Others, playerVars
<1> QED  BY <1>3, QueueUntouched DEF Expect

LEMMA TellKeeps == ASSUME IInv, NEW t \in Threads, Tell(t) PROVE Holds
<1>1. Others /\ got[t] \in Optional
  BY Shapes DEF Others
<1>2. job' \in [Threads -> Seq(Steps)]
  BY RestTypes DEF Tell
<1>3. nextUrl' \in Optional /\ url' \in Optional /\ restarted' \in BOOLEAN /\ playing' \in States
  <2>1. "PLAY" \in States  BY DEF States
  <2> QED  BY <1>1, <2>1 DEF Tell, Others, Optional
<1>4. Others'
  BY <1>1, <1>2, <1>3 DEF Tell, Others, expectVars
<1> QED  BY <1>4, QueueUntouched DEF Tell

LEMMA FiredKeeps == ASSUME IInv, NEW t \in Threads, Fired(t) PROVE Holds
<1>1. Others /\ job' \in [Threads -> Seq(Steps)]
  BY Shapes, RestTypes DEF Fired
<1>2. Others'
  BY <1>1 DEF Fired, Others, expectVars, playerVars
<1> QED  BY <1>2, QueueUntouched DEF Fired

LEMMA AboutToFinishKeeps == ASSUME IInv, AboutToFinish PROVE Holds
<1>1. Others /\ <<"url:fire">> \in Seq(Steps)
  BY Shapes, Calls
<1>2. job' \in [Threads -> Seq(Steps)] /\ url' \in Optional /\ nextUrl' \in Optional
      /\ playing' \in States /\ restarted' \in BOOLEAN
  BY <1>1 DEF AboutToFinish, Others, Threads, States, Optional
<1>3. Others'
  BY <1>1, <1>2 DEF AboutToFinish, Others, expectVars
<1> QED  BY <1>3, QueueUntouched DEF AboutToFinish

LEMMA OnPlayStateKeeps == ASSUME IInv, OnPlayState PROVE Holds
<1>1. Others /\ Reported \in States
  BY Shapes DEF Others, Reported, States
<1>2. Others'
  BY <1>1 DEF OnPlayState, Others, threadVars
<1> QED  BY <1>2, QueueUntouched DEF OnPlayState

LEMMA SeekKeeps == ASSUME IInv, ~undefined, NEW i \in 1..(Size + 1), Seek(i) PROVE Holds
<1>1. Others'
  BY Calls, ThenTypes DEF Seek
<1>2. cur' \in Nat /\ cur' >= 1 /\ cur' <= Size + 1
  BY Shapes DEF Seek
<1>3. IInv'
  <2>1. TypeOK  BY DEF IInv
  <2>2. OneOfEach'  BY DEF IInv, OneOfEach, Size, Seek
  <2>3. order' \in Orders(Len(entries')) /\ entries' \in Seq(Entry) /\ Len(entries') <= MaxEntries /\ Len(entries') = Size
    BY Shapes DEF Seek, Size
  <2>4. cur' <= Len(entries') + (IF undefined' THEN 2 ELSE 1)
    BY <1>2, <2>3, Shapes
  <2> QED  BY <1>1, <1>2, <2>1, <2>2, <2>3, <2>4, EditKeepsInvariant DEF TypeOK, Seek
<1>4. Respects
  BY NotAnEdit DEF Seek, Size
<1> QED  BY <1>3, <1>4 DEF Holds

\* A track is marked as played.
LEMMA SetPlayedFacts ==
  ASSUME IInv, NEW i \in 1..Size, SetPlayed(i)
  PROVE  /\ entries' \in Seq(Entry) /\ Len(entries') = Size /\ OneOfEach'
         /\ \A j \in 1..Size : entries'[j].track = entries[j].track
<1> DEFINE k == order[i]
           e == [entries EXCEPT ![k].played = TRUE]
<1>1. /\ entries \in Seq(Entry) /\ Size \in Nat /\ DOMAIN entries = 1..Size /\ k \in 1..Size
      /\ \A j \in 1..Size : entries[j] \in Entry
  BY Shapes
<1>2. entries' = e
  BY DEF SetPlayed
<1> HIDE DEF k
<1>3. ASSUME NEW j \in 1..Size  PROVE e[j] \in Entry /\ e[j].track = entries[j].track
  <2>1. entries[j] \in Entry  BY <1>1
  <2>2. e[j] = IF j = k THEN [entries[j] EXCEPT !.played = TRUE] ELSE entries[j]
    BY <1>1
  <2> HIDE DEF e
  <2> QED  BY <2>1, <2>2 DEF Entry
<1>4. DOMAIN e = 1..Size
  BY <1>1
<1>4a. e \in [1..Size -> Entry]
  <2>1. e = [j \in 1..Size |-> e[j]]  BY <1>1
  <2> HIDE DEF e
  <2> QED  BY <1>3, <2>1
<1> HIDE DEF e
<1>5. e \in Seq(Entry) /\ Len(e) = Size
  BY <1>1, <1>4a
<1>6. OneOfEach'
  <2>1. OneOfEach  BY Shapes
  <2> QED  BY <1>2, <1>3, <1>5, <2>1 DEF OneOfEach, Size
<1> QED  BY <1>2, <1>3, <1>5, <1>6

\* The player says what it plays.
LEMMA FireOnURLKeeps == ASSUME IInv, ~undefined, NEW t \in Threads, FireOnURL(t) PROVE Holds
<1>1. /\ Others /\ job[t] \in Seq(Steps) /\ Size \in Nat /\ cur \in Nat /\ cur >= 1 /\ cur <= Size + 1
      /\ DOMAIN order = 1..Size /\ undefined \in BOOLEAN
  BY Shapes DEF Others, IInv, TypeOK
<1>2. At(t, "url:fire") /\ UNCHANGED <<order, shuffled, playerVars, got>>
  BY DEF FireOnURL
<1>3. Rest(t) \in Seq(Steps) /\ [job EXCEPT ![t] = Rest(t)] \in [Threads -> Seq(Steps)]
  BY <1>2, RestTypes
<1>4. SetNextURL \o <<"fired">> \o Rest(t) \in Seq(Steps)
  <2> DEFINE r == Rest(t)
             f == <<"fired">>
             n == SetNextURL
  <2>1. r \in Seq(Steps) /\ f \in Seq(Steps) /\ n \in Seq(Steps)
    BY <1>3, Calls
  <2> HIDE DEF r, f, n, Steps
  <2>2. (n \o f) \o r \in Seq(Steps)  BY <2>1
  <2> QED  BY <2>2 DEF r, f, n
<1>5. /\ {expected', expectedNext', url', nextUrl'} \subseteq Optional
      /\ {state', playing', last'} \subseteq States
      /\ got' \in [Threads -> Optional] /\ restarted' \in BOOLEAN
      /\ firing' \in Threads \cup {None}
  BY <1>1, <1>2 DEF FireOnURL, Others, playerVars, expectVars, Optional, States
<1>6. job' \in [Threads -> Seq(Steps)]
  BY <1>1, <1>3, <1>4 DEF FireOnURL, Others
<1>7. Others'
  BY <1>5, <1>6 DEF Others
<1>8. /\ entries' \in Seq(Entry) /\ Len(entries') = Size /\ OneOfEach' /\ undefined' \in BOOLEAN
      /\ cur' \in Nat /\ cur' >= 1 /\ cur' <= Size + (IF undefined' THEN 2 ELSE 1)
  <2> DEFINE Same == entries' \in Seq(Entry) /\ Len(entries') = Size /\ OneOfEach'
  <2>1. UNCHANGED entries => Same
    BY Shapes DEF OneOfEach, Size
  <2>2. \A i \in 1..Size : SetPlayed(i) => Same
    BY SetPlayedFacts
  <2> HIDE DEF Same
  <2>3. CASE url = expected
    <3>1. /\ IF cur \in DOMAIN order THEN SetPlayed(cur) /\ UNCHANGED undefined
                                     ELSE undefined' = TRUE /\ UNCHANGED entries
          /\ UNCHANGED cur
      BY <2>3 DEF FireOnURL
    <3>2. Same /\ undefined' \in BOOLEAN
      BY <1>1, <2>1, <2>2, <3>1
    <3> QED  BY <1>1, <3>1, <3>2 DEF Same
  <2>4. CASE url # expected /\ url = expectedNext
    <3>1. /\ IF Advance \in DOMAIN order THEN SetPlayed(Advance) /\ UNCHANGED undefined
                                         ELSE undefined' = TRUE /\ UNCHANGED entries
          /\ cur' = Advance
      BY <2>4 DEF FireOnURL
    <3>2. Advance = cur + 1
      BY DEF Advance
    <3> HIDE DEF Advance
    <3>3. Same /\ undefined' \in BOOLEAN
      BY <1>1, <2>1, <2>2, <3>1
    <3>4. cur' <= Size + (IF undefined' THEN 2 ELSE 1)
      <4>1. CASE Advance \in 1..Size
        BY <1>1, <3>1, <3>2, <4>1
      <4>2. CASE Advance \notin 1..Size
        BY <1>1, <3>1, <3>2, <4>2
      <4> QED  BY <4>1, <4>2
    <3> QED  BY <1>1, <3>1, <3>2, <3>3, <3>4 DEF Same
  <2>5. CASE url # expected /\ url # expectedNext
    <3>1. UNCHANGED <<entries, cur, undefined>>
      BY <2>5 DEF FireOnURL
    <3> QED  BY <1>1, <2>1, <3>1 DEF Same
  <2> QED  BY <2>3, <2>4, <2>5
<1>9. IInv'
  <2>1. order' \in Orders(Len(entries')) /\ shuffled' \in BOOLEAN
    BY <1>2, <1>8, Shapes DEF IInv, TypeOK
  <2>2. Len(entries') <= MaxEntries
    BY <1>8, Shapes
  <2>3. cur' <= Len(entries') + (IF undefined' THEN 2 ELSE 1)
    BY <1>8
  <2> QED  BY <1>7, <1>8, <2>1, <2>2, <2>3, EditKeepsInvariant
<1>10. Respects
  BY <1>2, <1>8, NotAnEdit
<1> QED  BY <1>9, <1>10 DEF Holds

-----------------------------------------------------------------------------
\* The playing order with the entries from p on moved up.
MakingRoom(p) == [i \in DOMAIN order |-> IF order[i] >= p THEN order[i] + 1 ELSE order[i]]

\* Where the items of the playing order are when one was inserted at q.
Place(i, q) == IF i >= q THEN i + 1 ELSE i

\* A track becomes entry p, and number q of the playing order.
Inserts(t, p, q) ==
  /\ NewTrack(t) /\ p \in 1..(Size + 1) /\ q \in 1..(Size + 1)
  /\ entries' = InsertAt(entries, p, Fresh(t))
  /\ order' = InsertAt(MakingRoom(p), q, p)

LEMMA NewTrackFacts ==
  ASSUME IInv, NEW t, NewTrack(t)
  PROVE  /\ t \in Tracks /\ t \notin Queued /\ Size + 1 <= MaxEntries
         /\ Fresh(t) \in Entry /\ Fresh(t).track = t
         /\ \A i \in 1..Size : entries[i].track # t
<1>1. Size \in Nat /\ MaxEntries \in Nat /\ DOMAIN entries = 1..Size
  BY Shapes
<1>2. t \in Tracks /\ t \notin Queued /\ Size + 1 <= MaxEntries
  BY <1>1 DEF NewTrack
<1>3. \A i \in 1..Size : entries[i].track # t
  BY <1>1, <1>2 DEF Queued, Range
<1> QED  BY <1>2, <1>3 DEF Fresh, Entry

LEMMA InsertFacts ==
  ASSUME IInv, NEW t, NEW p, NEW q, Inserts(t, p, q)
  PROVE  /\ entries' \in Seq(Entry) /\ Len(entries') = Size + 1 /\ Size + 1 <= MaxEntries /\ OneOfEach'
         /\ order' \in Orders(Size + 1) /\ DOMAIN order' = 1..(Size + 1)
         /\ \A i \in 1..Size : /\ Place(i, q) \in 1..(Size + 1)
                               /\ entries'[order'[Place(i, q)]] = entries[order[i]]
         /\ entries'[order'[q]].track = t /\ t \notin Queued
<1> DEFINE n == Size
           f == Fresh(t)
           r == MakingRoom(p)
<1>1. /\ entries \in Seq(Entry) /\ n \in Nat /\ Len(entries) = n /\ DOMAIN order = 1..n
      /\ \A i \in 1..n : order[i] \in 1..n /\ entries[i] \in Entry
      /\ \A i, j \in 1..n : order[i] = order[j] => i = j
      /\ \A i, j \in 1..n : entries[i].track = entries[j].track => i = j
  BY Shapes DEF Size, OneOfEach
<1>2. /\ f \in Entry /\ f.track = t /\ \A i \in 1..n : entries[i].track # t
      /\ t \notin Queued /\ n + 1 <= MaxEntries
  BY NewTrackFacts DEF Inserts
<1>3. p \in 1..(n + 1) /\ q \in 1..(n + 1)
  BY DEF Inserts
<1>4. /\ entries' \in Seq(Entry) /\ Len(entries') = n + 1
      /\ \A i \in 1..(n + 1) : entries'[i] = IF i < p THEN entries[i] ELSE IF i = p THEN f ELSE entries[i - 1]
  <2> DEFINE s == entries
             d == InsertAt(s, p, f)
             E == Entry
  <2>1. s \in Seq(E) /\ p \in 1..(Len(s) + 1) /\ f \in E
    BY <1>1, <1>2, <1>3
  <2> HIDE DEF s, d, f, n, E
  <2>2. /\ d \in Seq(E) /\ Len(d) = Len(s) + 1
        /\ \A i \in 1..(Len(s) + 1) : d[i] = IF i < p THEN s[i] ELSE IF i = p THEN f ELSE s[i - 1]
    BY ONLY <2>1, Inserted DEF d
  <2>3. entries' = d
    BY DEF Inserts, d, s, f
  <2> QED  BY <1>1, <2>2, <2>3 DEF s, E
<1> HIDE DEF n, f
<1>5. /\ r \in Seq(1..(n + 1)) /\ Len(r) = n
      /\ \A i \in 1..n : r[i] = IF order[i] >= p THEN order[i] + 1 ELSE order[i]
  <2>1. r = [i \in 1..n |-> IF order[i] >= p THEN order[i] + 1 ELSE order[i]]
    BY <1>1 DEF MakingRoom
  <2>2. \A i \in 1..n : r[i] \in 1..(n + 1)
    BY <1>1, <1>3, <2>1
  <2>3. r \in [1..n -> 1..(n + 1)]
    <3>1. r = [i \in 1..n |-> r[i]]  BY <2>1
    <3> HIDE DEF r
    <3> QED  BY <2>2, <3>1
  <2> HIDE DEF r
  <2> QED  BY <1>1, <2>1, <2>3
<1> HIDE DEF r
<1>6. \A i \in 1..n : r[i] \in 1..(n + 1) /\ r[i] # p
  <2> SUFFICES ASSUME NEW i \in 1..n PROVE r[i] \in 1..(n + 1) /\ r[i] # p
    OBVIOUS
  <2> DEFINE o == order[i]
  <2>1. o \in 1..n /\ r[i] = IF o >= p THEN o + 1 ELSE o
    BY <1>1, <1>5
  <2> HIDE DEF o
  <2> QED  BY <1>1, <1>3, <2>1
<1>7. \A i, j \in 1..n : r[i] = r[j] => i = j
  <2> SUFFICES ASSUME NEW i \in 1..n, NEW j \in 1..n, r[i] = r[j] PROVE i = j
    OBVIOUS
  <2> DEFINE a == order[i]
             b == order[j]
  <2>1. a \in Int /\ b \in Int /\ p \in Int  BY <1>1, <1>3
  <2>2. r[i] = IF a >= p THEN a + 1 ELSE a  BY <1>5
  <2>3. r[j] = IF b >= p THEN b + 1 ELSE b  BY <1>5
  <2> HIDE DEF a, b
  <2>4. (IF a >= p THEN a + 1 ELSE a) = (IF b >= p THEN b + 1 ELSE b)  BY <2>2, <2>3
  <2>5. a = b  BY ONLY <2>1, <2>4
  <2> QED  BY <1>1, <2>5 DEF a, b
<1>8. order' = InsertAt(r, q, p)
  BY DEF Inserts, r
<1>9. order' \in Orders(n + 1)
  <2>1. InsertAt(r, q, p) \in Orders(n + 1)
    BY ONLY <1>1, <1>3, <1>5, <1>6, <1>7, InsertedOrder
  <2> QED  BY <1>8, <2>1
<1>10. DOMAIN order' = 1..(n + 1)
       /\ \A i \in 1..(n + 1) : order'[i] = IF i < q THEN r[i] ELSE IF i = q THEN p ELSE r[i - 1]
  <2> DEFINE T == 1..(n + 1)
  <2>1. r \in Seq(T) /\ q \in 1..(Len(r) + 1) /\ p \in T
    BY <1>3, <1>5
  <2> HIDE DEF T
  <2>2. /\ order' \in Seq(T) /\ Len(order') = Len(r) + 1
        /\ \A i \in 1..(Len(r) + 1) : order'[i] = IF i < q THEN r[i] ELSE IF i = q THEN p ELSE r[i - 1]
    BY ONLY <2>1, <1>8, Inserted
  <2> QED  BY <1>5, <2>2
<1>11. OneOfEach'
  <2>1. Size' = n + 1
    BY <1>4 DEF Size
  <2>2. ASSUME NEW i \in 1..(n + 1), NEW j \in 1..(n + 1), entries'[i].track = entries'[j].track  PROVE i = j
    <3> DEFINE a == IF i < p THEN i ELSE i - 1
               b == IF j < p THEN j ELSE j - 1
    <3>1. entries'[i] = IF i < p THEN entries[i] ELSE IF i = p THEN f ELSE entries[i - 1]  BY <1>4
    <3>2. entries'[j] = IF j < p THEN entries[j] ELSE IF j = p THEN f ELSE entries[j - 1]  BY <1>4
    <3>3. i # p => a \in 1..n /\ entries'[i] = entries[a]  BY <1>1, <1>3, <3>1
    <3>4. j # p => b \in 1..n /\ entries'[j] = entries[b]  BY <1>1, <1>3, <3>2
    <3>5. i = p => entries'[i].track = t  BY <1>2, <1>3, <3>1
    <3>6. j = p => entries'[j].track = t  BY <1>2, <1>3, <3>2
    <3>7. CASE i # p /\ j # p
      <4> HIDE DEF a, b
      <4>1. a = b  BY <1>1, <2>2, <3>3, <3>4, <3>7
      <4> QED  BY <1>3, <3>7, <4>1 DEF a, b
    <3>8. CASE i = p /\ j # p
      <4> HIDE DEF a, b
      <4> QED  BY <1>2, <2>2, <3>4, <3>5, <3>8
    <3>9. CASE i # p /\ j = p
      <4> HIDE DEF a, b
      <4> QED  BY <1>2, <2>2, <3>3, <3>6, <3>9
    <3> QED  BY <3>7, <3>8, <3>9
  <2> QED  BY <2>1, <2>2 DEF OneOfEach
<1>12. ASSUME NEW i \in 1..n
       PROVE  Place(i, q) \in 1..(n + 1) /\ entries'[order'[Place(i, q)]] = entries[order[i]]
  <2> DEFINE k == Place(i, q)
             o == order[i]
  <2>1. k \in 1..(n + 1) /\ k # q /\ (k < q => k = i) /\ (~(k < q) => k - 1 = i)
    BY <1>1, <1>3 DEF Place
  <2> HIDE DEF k
  <2>2. order'[k] = r[i]
    BY <1>10, <2>1
  <2>3. o \in 1..n /\ r[i] = IF o >= p THEN o + 1 ELSE o
    BY <1>1, <1>5
  <2> HIDE DEF o
  <2>4. entries'[r[i]] = entries[o]
    <3> DEFINE m == IF o >= p THEN o + 1 ELSE o
    <3>1. m \in 1..(n + 1) /\ m # p /\ (m < p => m = o) /\ (~(m < p) => m - 1 = o)
      BY <1>1, <1>3, <2>3
    <3>2. r[i] = m  BY <2>3
    <3> HIDE DEF m
    <3> QED  BY <1>4, <3>1, <3>2
  <2> QED  BY <2>1, <2>2, <2>4 DEF k, o
<1>13. entries'[order'[q]].track = t
  <2>1. order'[q] = p  BY <1>1, <1>3, <1>10
  <2>2. entries'[p] = f  BY <1>1, <1>3, <1>4
  <2> QED  BY <1>2, <2>1, <2>2
<1> QED  BY <1>2, <1>4, <1>9, <1>10, <1>11, <1>12, <1>13 DEF n

\* An insert, seen from the item that is played.
LEMMA InsertKeeps ==
  ASSUME IInv, ~undefined, NEW t, NEW p, NEW q, Inserts(t, p, q),
         \/ cur' = Place(cur, q)
         \/ cur = q /\ cur' = q /\ (CurrentTrack # None => Starting),
         Others', UNCHANGED <<shuffled, undefined>>
  PROVE  Holds
<1>1. /\ entries' \in Seq(Entry) /\ Len(entries') = Size + 1 /\ Size + 1 <= MaxEntries /\ OneOfEach'
      /\ order' \in Orders(Size + 1) /\ DOMAIN order' = 1..(Size + 1)
      /\ \A i \in 1..Size : /\ Place(i, q) \in 1..(Size + 1)
                            /\ entries'[order'[Place(i, q)]] = entries[order[i]]
      /\ entries'[order'[q]].track = t /\ t \notin Queued
  BY InsertFacts
<1>2. Size \in Nat /\ cur \in Nat /\ cur >= 1 /\ cur <= Size + 1 /\ DOMAIN order = 1..Size
  BY Shapes
<1>3. q \in 1..(Size + 1)
  BY DEF Inserts
<1>4. cur' \in Nat /\ cur' >= 1 /\ cur' <= Size + 2
  BY <1>2, <1>3 DEF Place
<1>5. IInv'
  <2>1. shuffled' \in BOOLEAN /\ undefined' \in BOOLEAN /\ ~undefined'
    BY DEF IInv, TypeOK
  <2>2. cur' <= Len(entries') + (IF undefined' THEN 2 ELSE 1)
    BY <1>1, <1>2, <1>4, <2>1
  <2> QED  BY <1>1, <1>4, <2>1, <2>2, EditKeepsInvariant
<1>6. ASSUME CurrentTrack # None
      PROVE  CurrentTrack' = CurrentTrack \/ (CurrentTrack' \notin Queued /\ Starting)
  <2>1. cur \in 1..Size /\ CurrentTrack = entries[order[cur]].track
    BY <1>2, <1>6 DEF CurrentTrack, TrackAt
  <2>2. CASE cur' = Place(cur, q)
    <3>1. cur' \in DOMAIN order' /\ entries'[order'[cur']] = entries[order[cur]]
      BY <1>1, <2>1, <2>2
    <3>2. CurrentTrack' = entries'[order'[cur']].track
      BY <3>1 DEF CurrentTrack, TrackAt
    <3> QED  BY <2>1, <3>1, <3>2
  <2>3. CASE cur' = q /\ Starting
    <3>1. CurrentTrack' = t
      BY <1>1, <1>3, <2>3 DEF CurrentTrack, TrackAt
    <3> QED  BY <1>1, <2>3, <3>1
  <2> QED  BY <1>6, <2>2, <2>3
<1>7. NeverSkips
  BY <1>6 DEF NeverSkips
<1>8. ~(Len(entries') < Size) /\ shuffled' = shuffled
  BY <1>1, <1>2
<1>9. Respects
  BY <1>7, <1>8 DEF Respects, KeepsCurrentOnRemoval, KeepsCurrentOnShuffle, Bipartite
<1> QED  BY <1>5, <1>9 DEF Holds

\* The calls after an edit start the current track if it was asked for.
LEMMA RefreshStarts ==
  ASSUME IInv, NEW a \in BOOLEAN, NEW b \in BOOLEAN, Then(Refresh(a, b))
  PROVE  Starting <=> a
<1>1. job \in [Threads -> Seq(Steps)] /\ "ui" \in Threads
  BY Shapes DEF Others, Threads
<1>2. job'["ui"] = Refresh(a, b)
  BY <1>1 DEF Then
<1>3. a => Refresh(a, b)[1] = "url:read" /\ 1 \in DOMAIN Refresh(a, b)
  <2> SUFFICES ASSUME a PROVE Refresh(a, b)[1] = "url:read" /\ 1 \in DOMAIN Refresh(a, b)
    OBVIOUS
  <2> DEFINE u == SetURL
             w == IF b THEN SetNextURL ELSE <<>>
  <2>1. u \in Seq(Steps) /\ w \in Seq(Steps) /\ Len(u) = 4 /\ u[1] = "url:read"
    BY Calls DEF SetURL
  <2>2. Refresh(a, b) = u \o w
    BY DEF Refresh
  <2> HIDE DEF u, w, Steps
  <2>3. (u \o w)[1] = u[1] /\ Len(u \o w) >= 1 /\ u \o w \in Seq(Steps)
    BY <2>1, ConcatProperties
  <2>4. 1 \in DOMAIN (u \o w)
    BY <2>3
  <2> QED  BY <2>1, <2>2, <2>3, <2>4
<1>4. ~a => \A i \in DOMAIN Refresh(a, b) : Refresh(a, b)[i] # "url:read"
  <2>1. <<>> \o SetNextURL = SetNextURL /\ <<>> \o <<>> = <<>>
    BY DEF SetNextURL
  <2> QED  BY <2>1 DEF Refresh, SetNextURL
<1> QED  BY <1>2, <1>3, <1>4 DEF Starting

LEMMA AppendIsInsert ==
  ASSUME NEW S, NEW s \in Seq(S), NEW e \in S
  PROVE  Append(s, e) = InsertAt(s, Len(s) + 1, e)
<1> DEFINE n == Len(s)
           a == Append(s, e)
           b == InsertAt(s, n + 1, e)
<1>1. n \in Nat /\ n + 1 \in 1..(n + 1)
  OBVIOUS
<1>2. a \in Seq(S) /\ Len(a) = n + 1 /\ \A i \in 1..(n + 1) : a[i] = IF i = n + 1 THEN e ELSE s[i]
  OBVIOUS
<1> HIDE DEF a, b
<1>3. /\ b \in Seq(S) /\ Len(b) = n + 1
      /\ \A i \in 1..(n + 1) : b[i] = IF i < n + 1 THEN s[i] ELSE IF i = n + 1 THEN e ELSE s[i - 1]
  BY <1>1, Inserted DEF b
<1> HIDE DEF n
<1>4. \A i \in 1..(n + 1) : a[i] = b[i]
  BY <1>1, <1>2, <1>3
<1> QED  BY <1>2, <1>3, <1>4, SeqEqual DEF a, b, n

\* At the end, nothing has to be moved.
LEMMA RoomAtTheEnd == ASSUME IInv PROVE MakingRoom(Size + 1) = order
<1>1. /\ Size \in Nat /\ order \in [1..Size -> 1..Size] /\ DOMAIN order = 1..Size
      /\ \A i \in 1..Size : order[i] \in 1..Size
  BY Shapes
<1>2. order = [i \in 1..Size |-> order[i]]
  BY <1>1
<1>3. \A i \in 1..Size : ~(order[i] >= Size + 1)
  BY <1>1
<1> QED  BY <1>1, <1>2, <1>3 DEF MakingRoom

LEMMA QueueInsertInserts ==
  ASSUME IInv, NEW t \in Tracks, NewTrack(t), NEW p \in 1..(Size + 1),
         entries' = Append(entries, Fresh(t)), order' = InsertAt(order, p, Size + 1)
  PROVE  Inserts(t, Size + 1, p)
<1>1. entries \in Seq(Entry) /\ Size \in Nat /\ Fresh(t) \in Entry
  BY Shapes, NewTrackFacts
<1>2. entries' = InsertAt(entries, Size + 1, Fresh(t))
  BY <1>1, AppendIsInsert DEF Size
<1> QED  BY <1>1, <1>2, RoomAtTheEnd DEF Inserts

LEMMA AddInserts ==
  ASSUME IInv, NEW t \in Tracks, Add(t)
  PROVE  Inserts(t, Size + 1, Size + 1)
<1> DEFINE T == 1..(Size + 1)
           s == order
           e == Size + 1
<1>1. Size \in Nat /\ order \in Seq(1..Size) /\ Len(order) = Size
  BY Shapes
<1>2. s \in Seq(T) /\ e \in T /\ Len(s) + 1 = e
  <2>1. \A i \in 1..Size : order[i] \in T
    BY <1>1
  <2> QED  BY <1>1, <2>1
<1> HIDE DEF T, s, e
<1>3. Append(s, e) = InsertAt(s, Len(s) + 1, e)
  BY <1>2, AppendIsInsert
<1>4. order' = InsertAt(order, Size + 1, Size + 1)
  BY <1>2, <1>3 DEF s, e, Add
<1>5. Size + 1 \in 1..(Size + 1)
  BY <1>1
<1> QED  BY <1>4, <1>5, QueueInsertInserts DEF Add

LEMMA AddKeeps == ASSUME IInv, ~undefined, NEW t \in Tracks, Add(t) PROVE Holds
<1>1. Inserts(t, Size + 1, Size + 1)
  BY AddInserts
<1>2. Size \in Nat /\ cur \in Nat /\ cur <= Size + 1 /\ DOMAIN order = 1..Size
  BY Shapes
<1>3. \/ cur' = Place(cur, Size + 1)
      \/ cur = Size + 1 /\ cur' = Size + 1 /\ CurrentTrack = None
  BY <1>2 DEF Add, Place, CurrentTrack
<1>4. Others'
  BY Calls, ThenTypes DEF Add
<1> QED  BY <1>1, <1>3, <1>4, InsertKeeps DEF Add

LEMMA QueueInsertKeeps ==
  ASSUME IInv, ~undefined, NEW t \in Tracks, NEW p \in 1..(Size + 1), QueueInsert(t, p)
  PROVE  Holds
<1>1. Inserts(t, Size + 1, p)
  BY QueueInsertInserts DEF QueueInsert
<1>2. cur' = Place(cur, p)
  BY DEF QueueInsert, CurrentAfterInsert, Place
<1>3. Others'
  BY Calls, ThenTypes DEF QueueInsert
<1> QED  BY <1>1, <1>2, <1>3, InsertKeeps DEF QueueInsert

LEMMA EntryInsertKeeps ==
  ASSUME IInv, ~undefined, NEW t \in Tracks, NEW p \in 1..(Size + 1), EntryInsert(t, p)
  PROVE  Holds
<1>1. CASE InsertPositions(p) = {}
  <2>1. undefined' = TRUE /\ UNCHANGED <<queueVars, expectVars, playerVars, threadVars>>
    BY <1>1 DEF EntryInsert
  <2>2. Others'
    BY <2>1, Shapes DEF Others, expectVars, playerVars, threadVars
  <2>3. OneOfEach' /\ Size' = Size /\ shuffled' \in BOOLEAN
    BY <2>1 DEF IInv, TypeOK, OneOfEach, Size, queueVars
  <2>4. /\ entries' \in Seq(Entry) /\ Len(entries') = Size /\ Size <= MaxEntries /\ order' \in Orders(Size)
        /\ cur' \in Nat /\ cur' >= 1 /\ cur' <= Size + 1 /\ Size \in Nat
    BY <2>1, <2>3, Shapes DEF Size, queueVars
  <2>5. cur' <= Len(entries') + (IF undefined' THEN 2 ELSE 1)
    BY <2>1, <2>4
  <2>6. IInv'
    BY <2>1, <2>2, <2>3, <2>4, <2>5, EditKeepsInvariant
  <2>7. Respects
    BY <2>1, <2>4, NotAnEdit DEF queueVars
  <2> QED  BY <2>6, <2>7 DEF Holds
<1>2. CASE InsertPositions(p) # {}
  <2>1. PICK q \in InsertPositions(p) :
          /\ entries' = InsertAt(entries, p, Fresh(t))
          /\ order' = InsertAt(MakingRoom(p), q, p)
          /\ cur' = IF cur > q THEN cur + 1 ELSE cur
          /\ Then(Refresh(q = cur, cur = q - 1))
          /\ UNCHANGED <<shuffled, undefined>>
    BY <1>2 DEF EntryInsert, MakingRoom
  <2>2. Size \in Nat /\ cur \in Nat /\ cur >= 1
    BY Shapes
  <2>3. q \in 1..(Size + 1)
    BY <2>2 DEF InsertPositions, FirstAvailable
  <2>4. Inserts(t, p, q)
    BY <2>1, <2>3 DEF Inserts, EntryInsert
  <2>5. (q = cur) \in BOOLEAN /\ (cur = q - 1) \in BOOLEAN
    OBVIOUS
  <2>6. Starting <=> (q = cur)
    BY <2>1, <2>5, RefreshStarts
  <2>7. \/ cur' = Place(cur, q)
        \/ cur = q /\ cur' = q /\ Starting
    BY <2>1, <2>2, <2>3, <2>6 DEF Place
  <2>8. Others'
    BY <2>1, <2>5, Calls, ThenTypes
  <2> QED  BY <2>1, <2>4, <2>7, <2>8, InsertKeeps
<1> QED  BY <1>1, <1>2

-----------------------------------------------------------------------------
\* How far an item outside a removed range moves up.
LEMMA MovedOutOfRange ==
  ASSUME NEW a \in Nat, NEW b \in Nat, a >= 1, a <= b, NEW i \in Nat
  PROVE  /\ i < a => Moved(i, a..b) = i
         /\ i > b => Moved(i, a..b) = i - (b - a + 1)
         /\ Cardinality(a..b) = b - a + 1
<1>1. IsFiniteSet(1..i) /\ Cardinality(1..i) = i
  BY FS_Interval
<1>2. IsFiniteSet(a..b) /\ Cardinality(a..b) = b - a + 1
  BY FS_Interval
<1>3. i < a => (1..i) \ (a..b) = 1..i
  OBVIOUS
<1>4. i > b => (1..i) \cap (a..b) = a..b
  OBVIOUS
<1>5. Cardinality((1..i) \ (a..b)) = Cardinality(1..i) - Cardinality((1..i) \cap (a..b))
  BY <1>1, FS_Difference
<1>6. i < a => Moved(i, a..b) = i
  BY <1>1, <1>3 DEF Moved
<1>7. i > b => Moved(i, a..b) = i - (b - a + 1)
  BY <1>1, <1>2, <1>4, <1>5 DEF Moved
<1> QED  BY <1>2, <1>6, <1>7

\* What is left of the entries.
LEMMA Survivors ==
  ASSUME IInv, NEW dead \in SUBSET (1..Size), entries' = Without(entries, dead)
  PROVE  /\ entries' \in Seq(Entry) /\ Len(entries') = Size - Cardinality(dead)
         /\ \A e \in (1..Size) \ dead : entries'[Moved(e, dead)] = entries[e]
         /\ \A k \in 1..Len(entries') : \E e \in (1..Size) \ dead :
               k = Moved(e, dead) /\ entries'[k] = entries[e]
         /\ OneOfEach'
<1> DEFINE s == entries
           E == Entry
           n == Len(s)
           m == n - Cardinality(dead)
<1>1. s \in Seq(E) /\ n \in Nat /\ dead \in SUBSET (1..Len(s)) /\ n = Size /\ entries' = Without(s, dead)
  BY Shapes DEF Size
<1> HIDE DEF s, E
<1>2. /\ entries' \in Seq(E) /\ Len(entries') = m
      /\ \A e \in (1..n) \ dead : entries'[Moved(e, dead)] = s[e]
  BY ONLY <1>1, WithoutFacts
<1> HIDE DEF n
<1>3. \A k \in 1..m : \E e \in (1..n) \ dead : Moved(e, dead) = k
  <2>1. dead \in SUBSET (1..n)  BY <1>1 DEF n
  <2> QED  BY <1>1, <2>1, MovedFacts
<1> HIDE DEF m
<1>4. \A k \in 1..m : \E e \in (1..n) \ dead : k = Moved(e, dead) /\ entries'[k] = s[e]
  BY <1>2, <1>3
<1>5. OneOfEach'
  <2>1. \A i, j \in 1..n : s[i].track = s[j].track => i = j
    BY <1>1, Shapes DEF OneOfEach, s
  <2>2. Size' = m
    BY <1>2 DEF Size
  <2>3. ASSUME NEW i \in 1..m, NEW j \in 1..m, entries'[i].track = entries'[j].track  PROVE i = j
    <3>1. PICK d \in (1..n) \ dead : i = Moved(d, dead) /\ entries'[i] = s[d]
      BY <1>4
    <3>2. PICK e \in (1..n) \ dead : j = Moved(e, dead) /\ entries'[j] = s[e]
      BY <1>4
    <3>3. d = e
      BY <2>1, <2>3, <3>1, <3>2
    <3> QED  BY <3>1, <3>2, <3>3
  <2> QED  BY <2>2, <2>3 DEF OneOfEach
<1> QED  BY <1>1, <1>2, <1>4, <1>5 DEF s, E, m

\* A removal, seen from the item that is played.
LEMMA RemoveKeeps ==
  ASSUME IInv, ~undefined, NEW gone \in SUBSET (1..Size), gone # {},
         NEW dead, dead = EntriesAt(order, gone),
         entries' = Without(entries, dead), order' = Cut(order, gone, dead),
         cur \in (1..Size) \ gone => cur' = Moved(cur, gone),
         cur' \in 1..(Size - Cardinality(gone) + 1),
         NEW b \in BOOLEAN, Then(Refresh(cur \in gone, b)), UNCHANGED <<shuffled, undefined>>
  PROVE  Holds /\ Len(entries') < Size
<1> DEFINE n == Size
           m == n - Cardinality(dead)
<1>1. /\ n \in Nat /\ n <= MaxEntries /\ MaxEntries \in Nat /\ order \in Orders(n) /\ DOMAIN order = 1..n
      /\ cur \in Nat /\ cur >= 1
      /\ \A i \in 1..n : order[i] \in 1..n /\ entries[i] \in Entry
      /\ \A i, j \in 1..n : entries[i].track = entries[j].track => i = j
  BY Shapes DEF OneOfEach
<1>2. /\ dead \in SUBSET (1..n) /\ m \in Nat /\ Cardinality(dead) = Cardinality(gone)
      /\ order' \in Orders(m)
      /\ \A j \in (1..n) \ gone : /\ order[j] \in (1..n) \ dead
                                  /\ Moved(j, gone) \in 1..m
                                  /\ order'[Moved(j, gone)] = Moved(order[j], dead)
  BY <1>1, CutOrder
<1>3. Cardinality(gone) \in Nat /\ Cardinality(gone) # 0
  <2>1. IsFiniteSet(1..n)  BY <1>1, FS_Interval
  <2> DEFINE T == 1..n
  <2>2. IsFiniteSet(T) /\ gone \subseteq T  BY <2>1
  <2> HIDE DEF T
  <2>3. IsFiniteSet(gone)  BY <2>2, FS_Subset
  <2> QED  BY <2>3, FS_EmptySet, FS_CardinalityType
<1>4. /\ entries' \in Seq(Entry) /\ Len(entries') = m
      /\ \A e \in (1..n) \ dead : entries'[Moved(e, dead)] = entries[e]
      /\ \A k \in 1..m : \E e \in (1..n) \ dead : entries'[k] = entries[e]
      /\ OneOfEach'
  BY <1>2, Survivors
<1>5. Len(entries') < Size /\ m <= MaxEntries
  BY <1>1, <1>2, <1>3, <1>4
<1>6. cur' \in Nat /\ cur' >= 1 /\ cur' <= m + 1
  <2>1. cur' \in 1..(m + 1)  BY <1>2
  <2> HIDE DEF m
  <2> QED  BY <1>2, <2>1
<1>7. (cur \in gone) \in BOOLEAN /\ Refresh(cur \in gone, b) \in Seq(Steps)
  <2>1. (cur \in gone) \in BOOLEAN  OBVIOUS
  <2>2. \A x, y \in BOOLEAN : Refresh(x, y) \in Seq(Steps)  BY Calls
  <2> QED  BY <2>1, <2>2
<1>8. Others'
  BY <1>7, ThenTypes
<1>9. IInv'
  <2>1. shuffled' \in BOOLEAN /\ undefined' \in BOOLEAN /\ ~undefined'
    BY DEF IInv, TypeOK
  <2> HIDE DEF m
  <2>2. cur' <= Len(entries') + (IF undefined' THEN 2 ELSE 1)
    BY <1>4, <1>6, <2>1
  <2> QED  BY <1>2, <1>4, <1>5, <1>6, <1>8, <2>1, <2>2, EditKeepsInvariant
<1> HIDE DEF m
<1>10. ASSUME CurrentTrack \in {e.track : e \in Range(entries')}
       PROVE  CurrentTrack' = CurrentTrack /\ ~Starting
  <2>1. DOMAIN entries' = 1..m  BY <1>4
  <2>2. PICK k \in 1..m : CurrentTrack = entries'[k].track
    BY <1>10, <2>1 DEF Range
  <2>3. PICK e \in (1..n) \ dead : CurrentTrack = entries[e].track
    BY <1>4, <2>2
  <2>4. CurrentTrack # None
    BY <1>1, <2>3, QueueAssumption DEF Entry
  <2>5. cur \in 1..n /\ CurrentTrack = entries[order[cur]].track
    BY <1>1, <2>4 DEF CurrentTrack, TrackAt
  <2>6. order[cur] = e
    BY <1>1, <2>3, <2>5
  <2>7. cur \notin gone
    BY <2>6 DEF EntriesAt
  <2>8. cur' \in 1..m /\ order'[cur'] = Moved(order[cur], dead)
    BY <1>2, <2>5, <2>7
  <2>9. entries'[order'[cur']] = entries[order[cur]]
    BY <1>4, <2>6, <2>8
  <2>10. cur' \in DOMAIN order'
    <3>1. DOMAIN order' = 1..m  BY <1>2, LenProperties DEF Orders
    <3> QED  BY <2>8, <3>1
  <2>11. CurrentTrack' = CurrentTrack
    BY <2>5, <2>9, <2>10 DEF CurrentTrack, TrackAt
  <2>12. ~Starting
    BY <1>7, <2>7, RefreshStarts
  <2> QED  BY <2>11, <2>12
<1>11. Respects
  BY <1>1, <1>2, <1>4, <1>5, <1>10 DEF Respects, KeepsCurrentOnRemoval, NeverSkips, KeepsCurrentOnShuffle, Bipartite
<1> QED  BY <1>5, <1>9, <1>11 DEF Holds

LEMMA QueueRemoveKeeps ==
  ASSUME IInv, ~undefined, NEW a \in 1..Size, NEW b \in 1..Size, a <= b, QueueRemove(a, b)
  PROVE  Holds /\ Len(entries') < Size
<1> DEFINE gone == a..b
           left == Without(order, gone)
           wants == cur \in (a - 1)..b
<1>1. PICK dead : dead = EntriesAt(order, gone)
  OBVIOUS
<1>2. /\ Size \in Nat /\ DOMAIN order = 1..Size /\ order \in Seq(1..Size) /\ Len(order) = Size
      /\ cur \in Nat /\ cur >= 1 /\ cur <= Size + 1
  BY Shapes
<1>3. a \in Nat /\ b \in Nat /\ a >= 1 /\ b <= Size /\ gone \in SUBSET (1..Size) /\ gone # {}
  <2>1. a \in Nat /\ b \in Nat /\ a >= 1 /\ b <= Size  BY <1>2
  <2>2. a \in a..b  BY <2>1
  <2>3. \A i \in a..b : i \in 1..Size  BY <1>2, <2>1
  <2> QED  BY <2>1, <2>2, <2>3
<1>4. /\ Cardinality(gone) = b - a + 1
      /\ cur < a => Moved(cur, gone) = cur
      /\ cur > b => Moved(cur, gone) = cur - (b - a + 1)
  BY <1>2, <1>3, MovedOutOfRange
<1>5. Len(left) = Size - (b - a + 1)
  <2> DEFINE T == 1..Size
             s == order
  <2>1. s \in Seq(T) /\ gone \in SUBSET (1..Len(s))  BY <1>2, <1>3
  <2> HIDE DEF T, s, gone
  <2>2. Len(Without(s, gone)) = Len(s) - Cardinality(gone)
    BY ONLY <2>1, WithoutFacts
  <2> QED  BY <1>2, <1>4, <2>2 DEF s
<1>6. /\ entries' = Without(entries, dead)
      /\ order' = Cut(order, gone, dead)
      /\ cur' = CurrentAfterCut(a, b, Len(left))
      /\ Then(Refresh(cur \in gone, wants))
      /\ UNCHANGED <<shuffled, undefined>>
  BY <1>1 DEF QueueRemove, EntriesAt, Cut
<1>7. /\ cur > b => cur' = cur - (b - a + 1)
      /\ cur \in a..b => cur' = 1 \/ cur' = a
      /\ cur < a => cur' = cur
  <2> HIDE DEF left
  <2> QED  BY <1>2, <1>3, <1>6 DEF CurrentAfterCut
<1>8. cur \in (1..Size) \ gone => cur' = Moved(cur, gone)
  BY <1>2, <1>3, <1>4, <1>7
<1>9. cur' \in 1..(Size - Cardinality(gone) + 1)
  <2>1. cur > b \/ cur \in a..b \/ cur < a
    BY <1>2, <1>3
  <2>2. Size - Cardinality(gone) = Size - (b - a + 1)
    BY <1>4
  <2> HIDE DEF gone
  <2>3. cur' \in Nat /\ cur' >= 1 /\ cur' <= Size - (b - a + 1) + 1
    BY <1>2, <1>3, <1>7, <2>1
  <2> QED  BY <1>2, <1>3, <2>2, <2>3
<1>10. wants \in BOOLEAN
  OBVIOUS
<1> HIDE DEF wants, gone, left
<1> QED  BY <1>1, <1>3, <1>6, <1>8, <1>9, <1>10, RemoveKeeps

LEMMA EntryRemoveKeeps ==
  ASSUME IInv, ~undefined, NEW a \in 1..Size, NEW b \in 1..Size, a <= b, EntryRemove(a, b)
  PROVE  Holds /\ Len(entries') < Size
<1> DEFINE keep == {i \in DOMAIN order : order[i] \notin a..b}
<1>1. PICK kept : kept = keep
  OBVIOUS
<1>2. PICK gone : gone = DOMAIN order \ kept
  OBVIOUS
<1> DEFINE left == Without(order, gone)
           nextEntry == IF cur < Len(order) THEN order[cur + 1] ELSE 1
           wants == nextEntry \in a..b
           at == IF cur \in DOMAIN order THEN CurrentAfterPurge(kept, cur) ELSE 1
<1>3. /\ Size \in Nat /\ DOMAIN order = 1..Size /\ order \in Seq(1..Size) /\ Len(order) = Size
      /\ order \in Orders(Size) /\ cur \in Nat /\ cur >= 1
  BY Shapes
<1>4. Range(order) = 1..Size
  BY <1>3, OrdersAreOnto
<1>5. /\ kept \in SUBSET (1..Size) /\ gone \in SUBSET (1..Size)
      /\ \A i \in 1..Size : /\ i \in kept <=> order[i] \notin a..b
                            /\ i \in gone <=> order[i] \in a..b
                            /\ i \in gone <=> i \notin kept
  BY <1>1, <1>2, <1>3
<1>6. a..b = EntriesAt(order, gone)
  <2>1. \A e \in 1..Size : \E i \in 1..Size : order[i] = e
    BY <1>3, <1>4 DEF Range
  <2>2. \A e \in a..b : e \in 1..Size
    BY <1>3
  <2> QED  BY <1>5, <2>1, <2>2 DEF EntriesAt
<1>7. gone # {}
  <2>1. a \in a..b  OBVIOUS
  <2> QED  BY <1>6, <2>1 DEF EntriesAt
<1>8. Len(left) = Size - Cardinality(gone) /\ Len(left) \in Nat
  <2> DEFINE T == 1..Size
             s == order
  <2>1. s \in Seq(T) /\ gone \in SUBSET (1..Len(s))  BY <1>3, <1>5
  <2> HIDE DEF T, s
  <2>2. Len(Without(s, gone)) = Len(s) - Cardinality(gone) /\ Without(s, gone) \in Seq(T)
    BY ONLY <2>1, WithoutFacts
  <2> QED  BY <1>3, <2>2 DEF s
<1>9. /\ entries' = Without(entries, a..b)
      /\ order' = Cut(order, gone, a..b)
      /\ cur' = IF at > Len(left) THEN 1 ELSE at
      /\ Then(Refresh(cur \in gone, wants))
      /\ UNCHANGED <<shuffled, undefined>>
  BY <1>1, <1>2 DEF EntryRemove, Cut
<1>10. ASSUME cur \in 1..Size
       PROVE  /\ at \in Nat /\ at >= 1
              /\ cur \notin gone => at = Moved(cur, gone) /\ at <= Len(left)
  <2> DEFINE B == {j \in kept : j < cur}
             C == (1..cur) \ gone
  <2>1. at = 1 + Cardinality(B)
    BY <1>3, <1>10 DEF CurrentAfterPurge
  <2>2. IsFiniteSet(B) /\ Cardinality(B) \in Nat
    <3>1. B \subseteq 1..Size  BY <1>5
    <3>2. IsFiniteSet(1..Size)  BY <1>3, FS_Interval
    <3> HIDE DEF B
    <3> QED  BY <3>1, <3>2, FS_Subset, FS_CardinalityType
  <2>3. ASSUME cur \notin gone  PROVE at = Moved(cur, gone) /\ at <= Len(left)
    <3>1. C = B \cup {cur} /\ cur \notin B
      <4>1. ASSUME NEW i  PROVE i \in C <=> i \in B \cup {cur}
        <5>1. i \in C <=> i \in 1..cur /\ i \notin gone  OBVIOUS
        <5>2. i \in B <=> i \in kept /\ i < cur  OBVIOUS
        <5>3. i \in 1..Size => (i \in gone <=> i \notin kept)  BY <1>5
        <5>4. i \in kept => i \in 1..Size  BY <1>5
        <5>5. i \in 1..cur => i \in 1..Size /\ (i < cur \/ i = cur)  BY <1>3, <1>10
        <5>6. i \in 1..Size /\ i < cur => i \in 1..cur  BY <1>3, <1>10
        <5> HIDE DEF B, C
        <5> QED  BY <1>3, <1>10, <2>3, <5>1, <5>2, <5>3, <5>4, <5>5, <5>6
      <4>2. cur \notin B  BY <1>3
      <4> HIDE DEF B, C
      <4> QED  BY <4>1, <4>2
    <3> HIDE DEF B, C, at, left
    <3>2. Cardinality(C) = Cardinality(B) + 1
      BY <2>2, <3>1, FS_AddElement
    <3>3. Moved(cur, gone) = Cardinality(C)
      BY DEF Moved, C
    <3>4. Moved(cur, gone) \in 1..(Size - Cardinality(gone))
      BY <1>3, <1>5, <1>10, <2>3, MovedFacts
    <3> QED  BY <1>8, <2>1, <2>2, <3>2, <3>3, <3>4
  <2> HIDE DEF at, B
  <2> QED  BY <2>1, <2>2, <2>3
<1>11. cur \notin 1..Size => at = 1
  BY <1>3
<1> HIDE DEF at, left
<1>12. cur \in (1..Size) \ gone => cur' = Moved(cur, gone)
  BY <1>8, <1>9, <1>10
<1>13. cur' \in 1..(Size - Cardinality(gone) + 1)
  BY <1>8, <1>9, <1>10, <1>11
<1>14. wants \in BOOLEAN
  OBVIOUS
<1> HIDE DEF wants
<1>15. PICK dead : dead = a..b
  OBVIOUS
<1> QED  BY <1>5, <1>6, <1>7, <1>9, <1>12, <1>13, <1>14, <1>15, RemoveKeeps

-----------------------------------------------------------------------------
\* A listing of a set has each element once.
LEMMA Listing ==
  ASSUME NEW S, IsFiniteSet(S), NEW b \in SetToSeqs(S)
  PROVE  /\ b \in Seq(S) /\ Len(b) = Cardinality(S) /\ Cardinality(S) \in Nat
         /\ \A i \in 1..Len(b) : b[i] \in S
         /\ \A i, j \in 1..Len(b) : b[i] = b[j] => i = j
<1> DEFINE n == Cardinality(S)
<1>1. n \in Nat
  BY FS_CardinalityType
<1>2. b \in [1..n -> S] /\ \A i, j \in 1..n : i # j => b[i] # b[j]
  BY DEF SetToSeqs
<1> HIDE DEF n
<1>3. b \in Seq(S) /\ Len(b) = n /\ \A i \in 1..n : b[i] \in S
  BY <1>1, <1>2
<1> QED  BY <1>1, <1>2, <1>3 DEF n

\* What is neither the current entry nor behind it.
Ahead(n, c, B) == (1..n) \ ({c} \cup B)

\* A playing order has c as number k, the entries of B behind it and those of A ahead.
Around(d, n, k, c, B, A) ==
  /\ d \in Orders(n) /\ k \in 1..n /\ d[k] = c
  /\ \A i \in 1..n : (i < k => d[i] \in B) /\ (i > k => d[i] \in A)

\* The entries behind the current one, then it, then those ahead.
LEMMA ShuffledOrder ==
  ASSUME NEW n \in Nat, NEW c \in 1..n, NEW B \in SUBSET ((1..n) \ {c}),
         NEW A, A = Ahead(n, c, B), NEW b \in SetToSeqs(B), NEW f \in SetToSeqs(A)
  PROVE  Around(b \o <<c>> \o f, n, Len(b) + 1, c, B, A)
<1> DEFINE T == 1..n
           a == b \o <<c>>
           d == a \o f
           k == Len(b)
           m == Len(f)
<1>1. IsFiniteSet(T) /\ Cardinality(T) = n
  BY FS_Interval
<1>2. B \subseteq T /\ A \subseteq T /\ c \in T /\ c \notin B /\ c \notin A /\ B \cap A = {}
  BY DEF Ahead
<1>3. T \ B = A \cup {c} /\ T \cap B = B
  BY DEF Ahead
<1> HIDE DEF T
<1>4. IsFiniteSet(B) /\ IsFiniteSet(A) /\ Cardinality(A) \in Nat /\ Cardinality(B) \in Nat
  BY <1>1, <1>2, FS_Subset, FS_CardinalityType
<1>5. Cardinality(T \ B) = Cardinality(T) - Cardinality(T \cap B)
  BY <1>1, FS_Difference
<1>6. Cardinality(A \cup {c}) = Cardinality(A) + 1
  BY <1>2, <1>4, FS_AddElement
<1>7. Cardinality(B) + 1 + Cardinality(A) = n
  <2>1. Cardinality(T \ B) = Cardinality(A) + 1
    BY <1>3, <1>6
  <2>2. Cardinality(T \ B) = n - Cardinality(B)
    BY <1>1, <1>3, <1>5
  <2> QED  BY <1>4, <2>1, <2>2
<1>8. /\ b \in Seq(B) /\ k = Cardinality(B) /\ \A i \in 1..k : b[i] \in B
      /\ \A i, j \in 1..k : b[i] = b[j] => i = j
  BY <1>4, Listing
<1>9. /\ f \in Seq(A) /\ m = Cardinality(A) /\ \A i \in 1..m : f[i] \in A
      /\ \A i, j \in 1..m : f[i] = f[j] => i = j
  BY <1>4, Listing
<1>10. k \in Nat /\ m \in Nat /\ k + 1 + m = n
  BY <1>4, <1>7, <1>8, <1>9
<1>11. b \in Seq(T) /\ f \in Seq(T) /\ <<c>> \in Seq(T) /\ Len(<<c>>) = 1 /\ <<c>>[1] = c
  <2>1. b \in [1..k -> T] /\ f \in [1..m -> T]
    <3>1. b \in [1..k -> B] /\ f \in [1..m -> A]  BY <1>8, <1>9
    <3> QED  BY <1>2, <3>1
  <2> QED  BY <1>2, <1>10, <2>1
<1> HIDE DEF a, d, k, m
<1>12. /\ a \in Seq(T) /\ Len(a) = k + 1
       /\ \A i \in 1..(k + 1) : a[i] = IF i <= k THEN b[i] ELSE c
  <2>1. /\ a \in Seq(T) /\ Len(a) = Len(b) + Len(<<c>>)
        /\ \A i \in 1..(Len(b) + Len(<<c>>)) : a[i] = IF i <= Len(b) THEN b[i] ELSE <<c>>[i - Len(b)]
    BY <1>11, ConcatProperties DEF a
  <2> QED  BY <1>10, <1>11, <2>1 DEF k
<1>13. /\ d \in Seq(T) /\ Len(d) = n
       /\ \A i \in 1..n : d[i] = IF i <= k THEN b[i] ELSE IF i = k + 1 THEN c ELSE f[i - (k + 1)]
  <2>1. /\ d \in Seq(T) /\ Len(d) = Len(a) + Len(f)
        /\ \A i \in 1..(Len(a) + Len(f)) : d[i] = IF i <= Len(a) THEN a[i] ELSE f[i - Len(a)]
    <3>1. a \in Seq(T) /\ f \in Seq(T)  BY <1>11, <1>12
    <3> QED  BY ONLY <3>1, ConcatProperties DEF d
  <2>2. Len(a) + Len(f) = n
    BY <1>10, <1>12 DEF m
  <2>3. \A i \in 1..n : d[i] = IF i <= k + 1 THEN a[i] ELSE f[i - (k + 1)]
    BY <1>12, <2>1, <2>2
  <2> QED  BY <1>10, <1>12, <2>1, <2>2, <2>3
<1>14. ASSUME NEW i \in 1..n
       PROVE  /\ i < k + 1 => i \in 1..k /\ d[i] = b[i] /\ d[i] \in B
              /\ i = k + 1 => d[i] = c
              /\ i > k + 1 => i - (k + 1) \in 1..m /\ d[i] = f[i - (k + 1)] /\ d[i] \in A
  <2>1. d[i] = IF i <= k THEN b[i] ELSE IF i = k + 1 THEN c ELSE f[i - (k + 1)]
    BY <1>13
  <2>2. i < k + 1 => i \in 1..k /\ i <= k
    BY <1>10
  <2>3. i > k + 1 => i - (k + 1) \in 1..m
    BY <1>10
  <2>4. i > k + 1 => f[i - (k + 1)] \in A
    BY <1>9, <2>3
  <2> QED  BY <1>8, <1>10, <2>1, <2>2, <2>3, <2>4
<1>15. ASSUME NEW i \in 1..n, NEW j \in 1..n, d[i] = d[j]  PROVE i = j
  <2>1. i < k + 1 \/ i = k + 1 \/ i > k + 1
    BY <1>10
  <2>2. j < k + 1 \/ j = k + 1 \/ j > k + 1
    BY <1>10
  <2>3. CASE i < k + 1 /\ j < k + 1
    BY <1>8, <1>14, <1>15, <2>3
  <2>4. CASE i > k + 1 /\ j > k + 1
    <3> DEFINE x == i - (k + 1)
               y == j - (k + 1)
    <3>1. x \in 1..m /\ y \in 1..m /\ f[x] = f[y]
      BY <1>14, <1>15, <2>4
    <3> HIDE DEF x, y
    <3>2. x = y  BY <1>9, <3>1
    <3> QED  BY <1>10, <3>2 DEF x, y
  <2>5. CASE i = k + 1 /\ j = k + 1
    BY <2>5
  <2>6. (i < k + 1 => d[i] \in B) /\ (i = k + 1 => d[i] = c) /\ (i > k + 1 => d[i] \in A)
    BY <1>14
  <2>7. (j < k + 1 => d[j] \in B) /\ (j = k + 1 => d[j] = c) /\ (j > k + 1 => d[j] \in A)
    BY <1>14
  <2> QED  BY <1>2, <1>15, <2>1, <2>2, <2>3, <2>4, <2>5, <2>6, <2>7
<1>16. d \in Orders(n)
  BY <1>13, <1>15 DEF Orders, T
<1>17. k + 1 \in 1..n
  BY <1>10
<1>18. \A i \in 1..n : (i < k + 1 => d[i] \in B) /\ (i = k + 1 => d[i] = c) /\ (i > k + 1 => d[i] \in A)
  BY <1>14
<1>19. d[k + 1] = c
  BY <1>14, <1>17
<1> QED  BY <1>16, <1>17, <1>18, <1>19 DEF d, a, k, Around

\* Around the current entry, in the order of entry or shuffled.
LEMMA Reordered ==
  ASSUME IInv, ~undefined, NEW whether \in BOOLEAN, SetShuffle(whether), Size > 1, cur \in 1..Size
  PROVE  /\ order' \in Orders(Size) /\ cur' \in 1..Size /\ order'[cur'] = order[cur]
         /\ whether => \A i \in 1..Size : /\ i < cur' => entries[order'[i]].played
                                          /\ i > cur' => ~entries[order'[i]].played
<1>1. /\ Size \in Nat /\ DOMAIN entries = 1..Size /\ DOMAIN order = 1..Size
      /\ \A i \in 1..Size : order[i] \in 1..Size
  BY Shapes
<1>2. order[cur] \in 1..Size
  BY <1>1
<1>3. CASE whether
  <2>1. PICK c : c = order[cur]
    OBVIOUS
  <2>2. PICK B : B = Behind(c)
    OBVIOUS
  <2>3. PICK A : A = DOMAIN entries \ ({c} \cup B)
    OBVIOUS
  <2>4. PICK b \in SetToSeqs(B), f \in SetToSeqs(A) : order' = b \o <<c>> \o f /\ cur' = Len(b) + 1
    <3>1. LET e == order[cur]
              ahead == DOMAIN entries \ ({e} \cup Behind(e))
          IN  \E b \in SetToSeqs(Behind(e)), f \in SetToSeqs(ahead) :
                 order' = b \o <<e>> \o f /\ cur' = Len(b) + 1
      <4>1. cur \in DOMAIN order /\ ~(Size <= 1)  BY <1>1
      <4> QED  BY <1>3, <4>1 DEF SetShuffle
    <3> QED  BY <2>1, <2>2, <2>3, <3>1
  <2>5. PICK n : n = Size
    OBVIOUS
  <2>6. /\ n \in Nat /\ c \in 1..n /\ B \in SUBSET ((1..n) \ {c}) /\ A = Ahead(n, c, B)
        /\ \A e \in B : entries[e].played
        /\ \A e \in A : ~entries[e].played
    BY <1>1, <1>2, <2>1, <2>2, <2>3, <2>5 DEF Behind, Ahead
  <2>7. PICK d : d = b \o <<c>> \o f
    OBVIOUS
  <2>8. /\ d \in Orders(n) /\ Len(b) + 1 \in 1..n /\ d[Len(b) + 1] = c
        /\ \A i \in 1..n : /\ i < Len(b) + 1 => d[i] \in B
                           /\ i > Len(b) + 1 => d[i] \in A
    <3>1. Around(b \o <<c>> \o f, n, Len(b) + 1, c, B, A)
      <4>1. n \in Nat /\ c \in 1..n /\ B \in SUBSET ((1..n) \ {c}) /\ A = Ahead(n, c, B)
            /\ b \in SetToSeqs(B) /\ f \in SetToSeqs(A)
        BY <2>4, <2>6
      <4> QED  BY ONLY <4>1, ShuffledOrder
    <3> QED  BY <2>7, <3>1 DEF Around
  <2> QED  BY <2>1, <2>4, <2>5, <2>6, <2>7, <2>8
<1>4. CASE ~whether
  <2>1. order' = [i \in 1..Size |-> i] /\ cur' = order[cur]
    BY <1>1, <1>4 DEF SetShuffle, CurrentUnshuffled
  <2>2. order' \in Orders(Size)
    <3>1. order' \in [1..Size -> 1..Size] /\ \A i \in 1..Size : order'[i] = i  BY <2>1
    <3>2. order' \in Seq(1..Size) /\ Len(order') = Size  BY <1>1, <3>1
    <3> QED  BY <3>1, <3>2 DEF Orders
  <2> QED  BY <1>2, <1>4, <2>1, <2>2
<1> QED  BY <1>3, <1>4

LEMMA SetShuffleKeeps ==
  ASSUME IInv, ~undefined, NEW whether \in BOOLEAN, SetShuffle(whether)
  PROVE  Holds
<1>1. /\ entries \in Seq(Entry) /\ Size \in Nat /\ Size <= MaxEntries /\ Len(entries) = Size
      /\ DOMAIN order = 1..Size /\ order \in Orders(Size)
      /\ \A i \in 1..Size : order[i] \in 1..Size /\ entries[i] \in Entry
      /\ cur \in Nat /\ cur >= 1 /\ cur <= Size + 1
      /\ Others /\ OneOfEach
  BY Shapes DEF Size
<1>2. shuffled' \in BOOLEAN /\ entries' = entries /\ shuffled' = whether /\ undefined \in BOOLEAN
  BY DEF SetShuffle, IInv, TypeOK
<1>3. OneOfEach' /\ Size' = Size /\ entries' \in Seq(Entry) /\ Len(entries') = Size /\ Len(entries') <= MaxEntries
  BY <1>1, <1>2 DEF OneOfEach, Size
<1>4. ASSUME order' \in Orders(Size), cur' \in Nat, cur' >= 1, cur' <= Size + 1, undefined' \in BOOLEAN, Others',
             CurrentTrack' = CurrentTrack,
             whether /\ Size > 1 /\ ~undefined' =>
               \A i \in 1..Size : /\ i < cur' => entries[order'[i]].played
                                  /\ i > cur' => ~entries[order'[i]].played
      PROVE  Holds
  <2>1. cur' <= Len(entries') + (IF undefined' THEN 2 ELSE 1)
    BY <1>1, <1>3, <1>4
  <2>2. IInv'
    BY <1>2, <1>3, <1>4, <2>1, EditKeepsInvariant
  <2>3. DOMAIN order' = 1..Size
    BY <1>1, <1>4, LenProperties DEF Orders
  <2>4. Bipartite
    BY <1>2, <1>4, <2>3 DEF Bipartite
  <2>5. ~(Len(entries') < Size) /\ ~(Len(entries') > Size)
    BY <1>1, <1>3
  <2> QED  BY <1>4, <2>2, <2>4, <2>5 DEF Holds, Respects, KeepsCurrentOnRemoval, NeverSkips, KeepsCurrentOnShuffle
<1>5. CASE Size > 1 /\ cur \notin DOMAIN order
  <2>1. undefined' = TRUE /\ UNCHANGED <<entries, order, cur, expectVars, playerVars, threadVars>>
    BY <1>5 DEF SetShuffle
  <2>2. Others'
    BY <1>1, <2>1 DEF Others, expectVars, playerVars, threadVars
  <2>3. CurrentTrack' = CurrentTrack
    BY <2>1 DEF CurrentTrack, TrackAt
  <2> QED  BY <1>1, <1>4, <2>1, <2>2, <2>3
<1>6. CASE Size <= 1
  <2>1. UNCHANGED <<entries, order, cur, expectedNext, nextUrl, got, expected, state, url, playing, last, restarted, job, firing, undefined>>
    BY <1>1, <1>6 DEF SetShuffle
  <2>2. Others'
    BY <1>1, <2>1 DEF Others
  <2>3. CurrentTrack' = CurrentTrack
    BY <2>1 DEF CurrentTrack, TrackAt
  <2>4. ~(Size > 1)
    BY <1>1, <1>6
  <2> QED  BY <1>1, <1>2, <1>4, <2>1, <2>2, <2>3, <2>4
<1>7. CASE Size > 1 /\ cur \in 1..Size
  <2>1. /\ order' \in Orders(Size) /\ cur' \in 1..Size /\ order'[cur'] = order[cur]
        /\ whether => \A i \in 1..Size : /\ i < cur' => entries[order'[i]].played
                                         /\ i > cur' => ~entries[order'[i]].played
    BY <1>7, Reordered
  <2>2. /\ NextURLLocked(order', cur')
        /\ UNCHANGED <<entries, expected, state, url, playing, last, restarted, job, firing, undefined>>
    BY <1>1, <1>7 DEF SetShuffle
  <2>3. /\ DOMAIN order' = 1..Size
        /\ \A i \in 1..Size : order'[i] \in 1..Size
    <3>1. PICK o, n : o = order' /\ n = Size
      OBVIOUS
    <3>2. n \in Nat /\ o \in Seq(1..n) /\ Len(o) = n
      BY <1>1, <2>1, <3>1 DEF Orders
    <3>3. DOMAIN o = 1..n /\ \A i \in 1..n : o[i] \in 1..n
      BY <3>2, LenProperties
    <3> QED  BY <3>1, <3>3
  <2>4. expectedNext' \in Optional /\ nextUrl' \in Optional /\ got' \in [Threads -> Optional]
    <3>1. CASE cur' >= Size
      BY <1>1, <2>2, <3>1 DEF NextURLLocked, Others
    <3>2. CASE ~(cur' >= Size)
      <4> DEFINE x == entries[order'[cur' + 1]].track
      <4>1. cur' + 1 \in 1..Size
        <5>1. PICK k, n : k = cur' /\ n = Size  OBVIOUS
        <5>2. n \in Nat /\ k \in 1..n /\ ~(k >= n)  BY <1>1, <2>1, <3>2, <5>1
        <5>3. k + 1 \in 1..n  BY ONLY <5>2
        <5> QED  BY <5>1, <5>3
      <4>2. entries[order'[cur' + 1]] \in Entry
        BY <1>1, <2>3, <4>1
      <4>3. x \in Optional
        BY <4>2 DEF Entry, Optional
      <4>4. expectedNext' = x /\ nextUrl' = x /\ got' = [got EXCEPT !["ui"] = x]
        BY <2>2, <3>2 DEF NextURLLocked
      <4> HIDE DEF x
      <4> QED  BY <1>1, <4>3, <4>4 DEF Others, Threads
    <3> QED  BY <3>1, <3>2
  <2>5. Others'
    BY <1>1, <2>2, <2>4 DEF Others
  <2>6. CurrentTrack' = CurrentTrack
    BY <1>1, <1>2, <1>7, <2>1, <2>3 DEF CurrentTrack, TrackAt
  <2>7. cur' \in Nat /\ cur' >= 1 /\ cur' <= Size + 1 /\ undefined' \in BOOLEAN
    BY <1>1, <1>2, <2>1, <2>2
  <2> QED  BY <1>4, <2>1, <2>5, <2>6, <2>7
<1> QED  BY <1>1, <1>5, <1>6, <1>7
-----------------------------------------------------------------------------
LEMMA InitOk == Init => IInv
<1> SUFFICES ASSUME Init PROVE IInv
  OBVIOUS
<1>1. /\ entries \in Seq([track : Tracks, played : BOOLEAN])
      /\ order \in Seq(1..MaxEntries) /\ Len(entries) = 0
  BY DEF Init
<1>2. Size = 0 /\ MaxEntries \in Nat
  BY <1>1, QueueAssumption DEF Size
<1>3. order \in Orders(Size)
  BY <1>2 DEF Init, Orders
<1>4. OneOfEach /\ NearTheEnd
  BY <1>2 DEF Init, OneOfEach, NearTheEnd
<1>5. TypeOK
  <2>1. cur \in 1..(MaxEntries + 3)  BY <1>2 DEF Init
  <2>2. job \in [Threads -> Seq(Steps)] /\ got \in [Threads -> Optional] /\ firing \in Threads \cup {None}
    BY Calls DEF Init, Optional
  <2>3. {expected, expectedNext, url, nextUrl} \subseteq Optional /\ {state, playing, last} \subseteq States
    BY DEF Init, Optional, States
  <2>4. shuffled \in BOOLEAN /\ {restarted, undefined} \subseteq BOOLEAN
    BY DEF Init
  <2> QED  BY <1>1, <2>1, <2>2, <2>3, <2>4 DEF TypeOK
<1> QED  BY <1>2, <1>3, <1>4, <1>5 DEF IInv

\* What every step keeps.
LEMMA StepOk == ASSUME IInv, [Next]_vars PROVE Holds
<1>1. CASE UNCHANGED vars
  BY <1>1, QueueUntouched, Shapes DEF vars, queueVars, expectVars, playerVars, threadVars, Others
<1>2. ASSUME ~undefined, Edit  PROVE Holds
  BY <1>2, AddKeeps, QueueInsertKeeps, EntryInsertKeeps, QueueRemoveKeeps, EntryRemoveKeeps DEF Edit
<1>3. ASSUME ~undefined, Control  PROVE Holds
  BY <1>3, SetShuffleKeeps, SeekKeeps, SetPlayStateKeeps DEF Control
<1>4. ASSUME ~undefined, NEW t \in Threads, Call(t)  PROVE Holds
  BY <1>4, ReadURLKeeps, ReadNextKeeps, ExpectKeeps, TellKeeps, FireOnURLKeeps, FiredKeeps DEF Call
<1> QED
  BY <1>1, <1>2, <1>3, <1>4, AddCheckKeeps, SeekStateKeeps, AboutToFinishKeeps, OnPlayStateKeeps DEF Next

LEMMA AlwaysIInv == Spec => []IInv
<1>1. IInv /\ [Next]_vars => IInv'
  BY StepOk DEF Holds
<1> QED  BY InitOk, <1>1, PTL DEF Spec

\* Every entry is in the playing order exactly once, through any sequence of
\* inserts, removals and shuffles of a queue of any length (the check of
\* m_queue against m_entries in the test of queue.cpp).
THEOREM QueueAlwaysPermutation == Spec => []QueueIsPermutation
<1>1. IInv => QueueIsPermutation
  <2> SUFFICES ASSUME IInv PROVE QueueIsPermutation
    OBVIOUS
  <2>1. Size \in Nat /\ order \in Orders(Size) /\ Len(order) = Size
    BY Shapes
  <2>2. Range(order) = 1..Size
    BY <2>1, OrdersAreOnto
  <2> QED  BY <2>1, <2>2 DEF QueueIsPermutation, IInv
<1> QED  BY AlwaysIInv, <1>1, PTL

\* No removal interrupts a track that stays, no insert skips the current one,
\* no shuffle changes it, and a shuffle leaves behind it exactly what has been
\* played: for every queue, with the calls of both threads at any point
\* (Queue::QueueRemove, EntryRemove, QueueInsert, EntryInsert, SetShuffle).
THEOREM EditsAlwaysRespectPlayback == Spec => EditsRespectPlayback
<1>1. IInv /\ [Next]_vars => [KeepsCurrentOnRemoval]_vars
  BY StepOk DEF Holds, Respects
<1>2. IInv /\ [Next]_vars => [NeverSkips]_vars
  BY StepOk DEF Holds, Respects
<1>3. IInv /\ [Next]_vars => [KeepsCurrentOnShuffle]_vars
  BY StepOk DEF Holds, Respects
<1>4. IInv /\ [Next]_vars => [Bipartite]_vars
  BY StepOk DEF Holds, Respects
<1>5. Spec => [][KeepsCurrentOnRemoval]_vars /\ [][NeverSkips]_vars
                /\ [][KeepsCurrentOnShuffle]_vars /\ [][Bipartite]_vars
  BY AlwaysIInv, <1>1, <1>2, <1>3, <1>4, PTL DEF Spec
<1> QED
  BY <1>5, PTL DEF EditsRespectPlayback, RemovalKeepsCurrent, InsertNeverSkips, ShuffleKeepsCurrent,
    ShuffleIsBipartite, KeepsCurrentOnRemoval, NeverSkips, KeepsCurrentOnShuffle, Bipartite

-----------------------------------------------------------------------------
(***************************************************************************)
(* While it is calm, one thread at most is in a call, and at each of its   *)
(* steps it is known how far the player is from the queue.                 *)
(***************************************************************************)

NextTrack == IF cur < Size THEN TrackAt(cur + 1) ELSE None

\* The player plays the current track, or has been given nothing yet.
OnCurrent == url = expected /\ url \in {None, CurrentTrack}

\* It goes on to the next track, or stops.
Prepared == nextUrl \in {None, NextTrack} /\ (nextUrl # None => nextUrl = expectedNext)

InStep == OnCurrent /\ Prepared

\* What is known when the next step of thread t is s.
Stage(t, s) ==
  /\ s \in {"url:read", "seek:state"} /\ CurrentTrack = None
       => url = None /\ expected = None /\ nextUrl = None
  /\ s \in {"url:expect", "url:tell"} => CurrentTrack # None /\ got[t] = CurrentTrack
  /\ s = "url:tell" => expected = got[t]
  /\ s = "url:fire" => nextUrl = None
  /\ s = "url:fire" /\ t = "ui" => CurrentTrack # None /\ url = expected /\ url = CurrentTrack
  /\ s = "url:fire" /\ t = "audio" => /\ NextTrack # None /\ url = expectedNext /\ url = NextTrack
                                      /\ expected \in {None, CurrentTrack}
  /\ s \in {"next:read", "next:expect", "next:tell"} => OnCurrent
  /\ s = "next:read" /\ NextTrack = None => nextUrl = None
  /\ s \in {"next:expect", "next:tell"} => NextTrack # None /\ got[t] = NextTrack
  /\ s = "next:tell" => expectedNext = got[t]
  /\ s \in {"fired", "add:check"} \cup States => InStep

\* Where the calls begin, and the steps they do not end with.
Starts == {"url:read", "next:read", "fired", "add:check", "seek:state"} \cup States
Inside == {"url:read", "url:expect", "url:tell", "next:read", "next:expect"}

After(s) == CASE s = "url:read"    -> {"url:expect"}
              [] s = "url:expect"  -> {"url:tell"}
              [] s = "url:tell"    -> {"url:fire"}
              [] s = "next:read"   -> {"next:expect"}
              [] s = "next:expect" -> {"next:tell"}
              [] OTHER             -> Starts

\* What is left of one call, and whole calls behind it.
Whole(j) == \A i \in 1..Len(j) : IF i < Len(j) THEN j[i + 1] \in After(j[i]) ELSE j[i] \notin Inside

\* Whole calls.
Good(j) == j \in Seq(Steps) /\ Whole(j) /\ (j # <<>> => j[1] \in Starts)

\* The player's own thread only says what it plays, and prepares the next track.
Audios(j) == \/ Len(j) = 1 /\ j[1] = "url:fire"
             \/ \A i \in 1..Len(j) : j[i] \in {"next:read", "next:expect", "next:tell", "fired"}

Calm ==
  /\ ~shuffled /\ ~undefined
  /\ \E t \in Threads : Idle(t)
  /\ \A t \in Threads : Whole(job[t])
  /\ Audios(job["audio"])
  /\ Quiet => InStep
  /\ \A t \in Threads : ~Idle(t) => Stage(t, Head(job[t]))

CalmInv == IInv /\ calm \in BOOLEAN /\ (calm => Calm)

\* What must be known for thread t to go on with j.
Follows(t, j) == IF j = <<>> THEN InStep ELSE Stage(t, Head(j))

\* What is left of whole calls behind their k-th step.
LEMMA DropFacts ==
  ASSUME NEW j \in Seq(Steps), Whole(j), NEW k \in Nat, k >= 1, k <= Len(j),
         NEW d, d = SubSeq(j, k + 1, Len(j))
  PROVE  /\ d \in Seq(Steps) /\ Len(d) = Len(j) - k /\ \A i \in 1..Len(d) : d[i] = j[i + k]
         /\ Whole(d) /\ (Audios(j) => Audios(d))
<1> DEFINE m == k + 1
           n == Len(j)
<1>1. /\ n \in Nat /\ m \in Int /\ n \in Int /\ \A i \in m..n : j[i] \in Steps
      /\ d = SubSeq(j, m, n)
  OBVIOUS
<1> HIDE DEF m, n
<1>2. /\ d \in Seq(Steps) /\ Len(d) = IF m <= n THEN n - m + 1 ELSE 0
      /\ \A i \in 1..(n - m + 1) : d[i] = j[m + i - 1]
  <2> HIDE DEF Steps
  <2> QED  BY ONLY <1>1, SubSeqProperties
<1>3. Len(d) = n - k /\ n - m + 1 = n - k
  BY <1>1, <1>2 DEF m, n
<1>4. ASSUME NEW i \in 1..Len(d)
      PROVE  d[i] = j[i + k] /\ i + k \in 1..n /\ (i + k < n <=> i < Len(d))
  <2>1. m + i - 1 = i + k  BY <1>3 DEF m
  <2>2. i \in 1..(n - m + 1)  BY <1>3
  <2> QED  BY <1>1, <1>2, <1>3, <2>1, <2>2
<1>5. Whole(d)
  <2> SUFFICES ASSUME NEW i \in 1..Len(d)
               PROVE  IF i < Len(d) THEN d[i + 1] \in After(d[i]) ELSE d[i] \notin Inside
    BY DEF Whole
  <2>1. IF i + k < n THEN j[i + k + 1] \in After(j[i + k]) ELSE j[i + k] \notin Inside
    BY <1>4 DEF Whole, n
  <2>2. i < Len(d) => d[i + 1] = j[i + k + 1]
    <3>1. i < Len(d) => i + 1 \in 1..Len(d)  BY <1>2
    <3>2. i < Len(d) => d[i + 1] = j[(i + 1) + k]  BY <1>4, <3>1
    <3>3. (i + 1) + k = i + k + 1  OBVIOUS
    <3> QED  BY <3>2, <3>3
  <2> QED  BY <1>4, <2>1, <2>2
<1>6. ASSUME Audios(j)  PROVE Audios(d)
  <2>1. CASE Len(j) = 1
    <3>1. Len(d) = 0  BY <1>1, <1>3, <2>1 DEF n
    <3> QED  BY <3>1 DEF Audios
  <2>2. CASE Len(j) # 1
    BY <1>4, <1>6, <2>2 DEF Audios, n
  <2> QED  BY <2>1, <2>2
<1> QED  BY <1>2, <1>3, <1>4, <1>5, <1>6 DEF n

\* Behind a step there is the next one of its call, or whole calls.
LEMMA TailFacts ==
  ASSUME NEW j \in Seq(Steps), Whole(j), j # <<>>, NEW d, d = Tail(j)
  PROVE  /\ d \in Seq(Steps) /\ Whole(d) /\ (Audios(j) => Audios(d))
         /\ Head(j) \in Inside => d # <<>> /\ Head(d) \in After(Head(j))
         /\ Head(j) \notin Inside => Good(d)
<1>1. Len(j) \in Nat /\ 1 <= Len(j) /\ Head(j) = j[1]
  OBVIOUS
<1>2. d = SubSeq(j, 1 + 1, Len(j))
  <2> DEFINE m == 2
             n == Len(j)
             e == SubSeq(j, m, n)
  <2>1. m \in Int /\ n \in Int /\ \A i \in m..n : j[i] \in Steps
    OBVIOUS
  <2> HIDE DEF m, n
  <2>2. /\ e \in Seq(Steps) /\ Len(e) = IF m <= n THEN n - m + 1 ELSE 0
        /\ \A i \in 1..(n - m + 1) : e[i] = j[m + i - 1]
    <3> HIDE DEF Steps
    <3> QED  BY ONLY <2>1, SubSeqProperties
  <2>3. d \in Seq(Steps) /\ Len(d) = n - 1 /\ \A i \in 1..(n - 1) : d[i] = j[i + 1]
    BY <1>1 DEF n
  <2>4. Len(e) = n - 1 /\ \A i \in 1..(n - 1) : e[i] = j[i + 1]
    <3>1. n - m + 1 = n - 1 /\ \A i \in Int : m + i - 1 = i + 1  BY <2>1 DEF m
    <3> QED  BY <1>1, <2>2, <3>1 DEF n, m
  <2>5. d = e
    <3> HIDE DEF e
    <3> QED  BY <2>2, <2>3, <2>4, SeqEqual
  <2> QED  BY <2>5 DEF m, n
<1>3. /\ d \in Seq(Steps) /\ Len(d) = Len(j) - 1 /\ \A i \in 1..Len(d) : d[i] = j[i + 1]
      /\ Whole(d) /\ (Audios(j) => Audios(d))
  <2>1. PICK k : k = 1
    OBVIOUS
  <2>2. k \in Nat /\ k >= 1 /\ k <= Len(j) /\ d = SubSeq(j, k + 1, Len(j))
    BY <1>1, <1>2, <2>1
  <2>3. /\ d \in Seq(Steps) /\ Len(d) = Len(j) - k /\ \A i \in 1..Len(d) : d[i] = j[i + k]
        /\ Whole(d) /\ (Audios(j) => Audios(d))
    BY <2>2, DropFacts
  <2> QED  BY <2>1, <2>3
<1>4. IF 1 < Len(j) THEN j[1 + 1] \in After(j[1]) ELSE j[1] \notin Inside
  <2>1. 1 \in 1..Len(j)  BY <1>1
  <2> QED  BY <2>1 DEF Whole
<1>5. d # <<>> <=> 1 < Len(j)
  <2>1. d # <<>> <=> Len(d) # 0  BY ONLY <1>3, EmptySeq
  <2> QED  BY <1>1, <1>3, <2>1
<1>6. d # <<>> => Head(d) = d[1] /\ d[1] = j[1 + 1]
  BY <1>1, <1>3
<1>7. Head(j) \notin Inside => After(j[1]) = Starts
  BY <1>1 DEF After, Inside
<1> QED  BY <1>1, <1>3, <1>4, <1>5, <1>6, <1>7 DEF Good

\* Two calls one after the other.
LEMMA JoinIsGood ==
  ASSUME NEW a, NEW b, Good(a), Good(b), NEW d, d = a \o b
  PROVE  Good(d) /\ (a # <<>> => d # <<>> /\ d[1] = a[1])
<1>1. a \in Seq(Steps) /\ b \in Seq(Steps) /\ Len(a) \in Nat /\ Len(b) \in Nat
  BY DEF Good
<1>2. /\ d \in Seq(Steps) /\ Len(d) = Len(a) + Len(b)
      /\ \A i \in 1..(Len(a) + Len(b)) : d[i] = IF i <= Len(a) THEN a[i] ELSE b[i - Len(a)]
  <2> HIDE DEF Steps
  <2> QED  BY ONLY <1>1, d = a \o b, ConcatProperties
<1>3. /\ (a # <<>> <=> Len(a) >= 1) /\ (b # <<>> <=> Len(b) >= 1) /\ (d # <<>> <=> Len(d) >= 1)
  BY <1>1, <1>2
<1>4. \A s : s \notin Inside => After(s) = Starts
  BY DEF After, Inside
<1>5. Whole(d)
  <2> SUFFICES ASSUME NEW i \in 1..Len(d)
               PROVE  IF i < Len(d) THEN d[i + 1] \in After(d[i]) ELSE d[i] \notin Inside
    BY DEF Whole
  <2>1. CASE i < Len(a)
    <3>1. i \in 1..Len(a) /\ d[i] = a[i] /\ d[i + 1] = a[i + 1] /\ i < Len(d)
      BY <1>1, <1>2, <2>1
    <3> QED  BY <2>1, <3>1 DEF Good, Whole
  <2>2. CASE i = Len(a)
    <3>1. i \in 1..Len(a) /\ d[i] = a[i] /\ ~(i < Len(a))
      BY <1>1, <1>2, <2>2
    <3>2. a[i] \notin Inside
      BY <3>1 DEF Good, Whole
    <3>3. i < Len(d) => Len(b) >= 1 /\ d[i + 1] = b[1]
      <4>1. i < Len(d) => i + 1 \in 1..(Len(a) + Len(b)) /\ ~(i + 1 <= Len(a)) /\ (i + 1) - Len(a) = 1 /\ Len(b) >= 1
        BY <1>1, <1>2, <2>2
      <4> QED  BY <1>2, <4>1
    <3> QED  BY <1>3, <1>4, <3>1, <3>2, <3>3 DEF Good
  <2>3. CASE i > Len(a)
    <3> DEFINE k == i - Len(a)
    <3>1. k \in 1..Len(b) /\ d[i] = b[k] /\ (i < Len(d) <=> k < Len(b))
      BY <1>1, <1>2, <2>3
    <3>2. i < Len(d) => d[i + 1] = b[k + 1]
      <4>1. i < Len(d) => i + 1 \in 1..(Len(a) + Len(b)) /\ ~(i + 1 <= Len(a)) /\ (i + 1) - Len(a) = k + 1
        BY <1>1, <1>2, <2>3
      <4> QED  BY <1>2, <4>1
    <3> HIDE DEF k
    <3>3. IF k < Len(b) THEN b[k + 1] \in After(b[k]) ELSE b[k] \notin Inside
      BY <3>1 DEF Good, Whole
    <3> QED  BY <3>1, <3>2, <3>3
  <2> QED  BY <1>1, <1>2, <2>1, <2>2, <2>3
<1>6. a # <<>> => d # <<>> /\ d[1] = a[1]
  BY <1>1, <1>2, <1>3
<1>7. a = <<>> /\ d # <<>> => b # <<>> /\ d[1] = b[1]
  <2>1. a = <<>> => Len(a) = 0  OBVIOUS
  <2>2. a = <<>> /\ d # <<>> => 1 \in 1..(Len(a) + Len(b)) /\ ~(1 <= Len(a)) /\ 1 - Len(a) = 1 /\ Len(b) >= 1
    BY <1>1, <1>2, <1>3, <2>1
  <2> QED  BY <1>2, <1>3, <2>2
<1> QED  BY <1>2, <1>5, <1>6, <1>7 DEF Good

\* What the user interface calls are whole calls.
LEMMA CallsAreGood ==
  /\ Good(<<>>) /\ Good(SetURL) /\ Good(SetNextURL)
  /\ SetURL # <<>> /\ SetURL[1] = "url:read" /\ SetNextURL # <<>> /\ SetNextURL[1] = "next:read"
  /\ \A s \in States \cup {"add:check", "seek:state", "fired"} : Good(<<s>>)
<1>1. Good(<<>>)
  BY DEF Good, Whole
<1>2. Good(SetURL)
  <2>1. SetURL \in Seq(Steps) /\ Len(SetURL) = 4  BY Calls DEF SetURL
  <2>2. Whole(SetURL)
    <3> SUFFICES ASSUME NEW i \in 1..4
                 PROVE  IF i < 4 THEN SetURL[i + 1] \in After(SetURL[i]) ELSE SetURL[i] \notin Inside
      BY <2>1 DEF Whole
    <3>1. i = 1 \/ i = 2 \/ i = 3 \/ i = 4  OBVIOUS
    <3> QED  BY <3>1 DEF SetURL, After, Inside
  <2> QED  BY <2>1, <2>2 DEF Good, SetURL, Starts
<1>3. Good(SetNextURL)
  <2>1. SetNextURL \in Seq(Steps) /\ Len(SetNextURL) = 3  BY Calls DEF SetNextURL
  <2>2. Whole(SetNextURL)
    <3> SUFFICES ASSUME NEW i \in 1..3
                 PROVE  IF i < 3 THEN SetNextURL[i + 1] \in After(SetNextURL[i]) ELSE SetNextURL[i] \notin Inside
      BY <2>1 DEF Whole
    <3>1. i = 1 \/ i = 2 \/ i = 3  OBVIOUS
    <3> QED  BY <3>1 DEF SetNextURL, After, Inside
  <2> QED  BY <2>1, <2>2 DEF Good, SetNextURL, Starts
<1>4. ASSUME NEW s \in States \cup {"add:check", "seek:state", "fired"}  PROVE Good(<<s>>)
  <2>1. s \in Steps /\ s \in Starts /\ s \notin Inside  BY DEF Steps, Starts, Inside, States
  <2>2. <<s>> \in Seq(Steps) /\ Len(<<s>>) = 1 /\ <<s>>[1] = s  BY <2>1
  <2> QED  BY <2>1, <2>2 DEF Good, Whole
<1> QED  BY <1>1, <1>2, <1>3, <1>4 DEF SetURL, SetNextURL

LEMMA CombinedAreGood ==
  /\ \A a, b \in BOOLEAN : /\ Good(Refresh(a, b))
                           /\ a => Refresh(a, b) # <<>> /\ Refresh(a, b)[1] = "url:read"
                           /\ ~a /\ b => Refresh(a, b) # <<>> /\ Refresh(a, b)[1] = "next:read"
                           /\ Refresh(a, b) = <<>> => ~a /\ ~b
  /\ Good(Play) /\ (Size # 0 => Play # <<>> /\ Play[1] = "url:read")
<1>1. /\ Good(<<>>) /\ Good(SetURL) /\ Good(SetNextURL) /\ Good(<<"PLAY">>)
      /\ SetURL # <<>> /\ SetURL[1] = "url:read" /\ SetNextURL # <<>> /\ SetNextURL[1] = "next:read"
  BY CallsAreGood DEF States
<1>2. ASSUME NEW a \in BOOLEAN, NEW b \in BOOLEAN
      PROVE  /\ Good(Refresh(a, b))
             /\ a => Refresh(a, b) # <<>> /\ Refresh(a, b)[1] = "url:read"
             /\ ~a /\ b => Refresh(a, b) # <<>> /\ Refresh(a, b)[1] = "next:read"
             /\ Refresh(a, b) = <<>> => ~a /\ ~b
  <2> DEFINE u == IF a THEN SetURL ELSE <<>>
             w == IF b THEN SetNextURL ELSE <<>>
  <2>1. /\ Good(u) /\ Good(w) /\ (a => u # <<>> /\ u[1] = "url:read") /\ (~a => u = <<>>)
        /\ (b => w # <<>> /\ w[1] = "next:read")
    BY <1>1
  <2>2. PICK d : d = u \o w
    OBVIOUS
  <2>3. Refresh(a, b) = d
    BY <2>2 DEF Refresh
  <2> HIDE DEF u, w
  <2>4. Good(d) /\ (u # <<>> => d # <<>> /\ d[1] = u[1])
    BY <2>1, <2>2, JoinIsGood
  <2>5. u = <<>> => d = w
    BY <2>1, <2>2 DEF Good
  <2> QED  BY <2>1, <2>3, <2>4, <2>5
<1>3. Good(Play) /\ (Size # 0 => Play # <<>> /\ Play[1] = "url:read")
  <2>1. PICK d, e : d = SetURL \o SetNextURL /\ e = d \o <<"PLAY">>
    OBVIOUS
  <2>2. Good(d) /\ d # <<>> /\ d[1] = "url:read"
    BY <1>1, <2>1, JoinIsGood
  <2>3. Good(e) /\ e # <<>> /\ e[1] = "url:read"
    BY <1>1, <2>1, <2>2, JoinIsGood
  <2> QED  BY <1>1, <2>1, <2>3 DEF Play
<1> QED  BY <1>2, <1>3

-----------------------------------------------------------------------------
\* The current track and the next are two, if they are there.
TracksAreApart ==
  /\ CurrentTrack \in Optional /\ NextTrack \in Optional
  /\ CurrentTrack # None <=> cur <= Size
  /\ NextTrack # None <=> cur < Size
  /\ cur <= Size => CurrentTrack = TrackAt(cur)
  /\ NextTrack # None => CurrentTrack # None /\ NextTrack # CurrentTrack

LEMMA TrackFacts == IInv => TracksAreApart
<1> SUFFICES ASSUME IInv PROVE TracksAreApart
  OBVIOUS
<1>1. /\ Size \in Nat /\ cur \in Nat /\ cur >= 1 /\ DOMAIN order = 1..Size
      /\ \A i \in 1..Size : order[i] \in 1..Size /\ entries[i] \in Entry
      /\ \A i, j \in 1..Size : order[i] = order[j] => i = j
      /\ \A i, j \in 1..Size : entries[i].track = entries[j].track => i = j
  BY Shapes DEF OneOfEach
<1>2. \A i \in 1..Size : TrackAt(i) \in Tracks /\ TrackAt(i) # None
  BY <1>1, QueueAssumption DEF TrackAt, Entry
<1>3. \A i, j \in 1..Size : TrackAt(i) = TrackAt(j) => i = j
  BY <1>1 DEF TrackAt
<1>4. CurrentTrack = IF cur \in 1..Size THEN TrackAt(cur) ELSE None
  BY <1>1 DEF CurrentTrack
<1>5. cur <= Size <=> cur \in 1..Size
  BY <1>1
<1>6. cur < Size => cur \in 1..Size /\ cur + 1 \in 1..Size /\ cur # cur + 1
  BY <1>1
<1> QED  BY <1>2, <1>3, <1>4, <1>5, <1>6 DEF TracksAreApart, NextTrack, Optional

LEMMA TrackFactsNext == IInv' => TracksAreApart'
BY TrackFacts, PTL

\* In step, any call may begin.
LEMMA AnyStart == IInv /\ InStep => \A t \in Threads, s \in Starts : Stage(t, s)
<1> SUFFICES ASSUME IInv, InStep, NEW t \in Threads, NEW s \in Starts PROVE Stage(t, s)
  OBVIOUS
<1>1. CurrentTrack = None => NextTrack = None
  BY TrackFacts DEF TracksAreApart
<1> QED  BY <1>1 DEF Stage, Starts, States, InStep, OnCurrent, Prepared

LEMMA AnyStartNext == IInv' /\ InStep' => (\A t \in Threads, s \in Starts : Stage(t, s))'
BY AnyStart, PTL

LEMMA GoodFollows ==
  ASSUME IInv', InStep', NEW t \in Threads, NEW j, Good(j)
  PROVE  Follows(t, j)'
<1>1. j # <<>> => Head(j) \in Starts
  <2>1. j # <<>> => Head(j) = j[1]  BY DEF Good
  <2> QED  BY <2>1 DEF Good
<1>2. \A s \in Starts : Stage(t, s)'
  BY AnyStartNext
<1> QED  BY <1>1, <1>2 DEF Follows

\* The tracks stay where the queue does.
LEMMA SameTracks ==
  ASSUME UNCHANGED queueVars
  PROVE  CurrentTrack' = CurrentTrack /\ NextTrack' = NextTrack
BY DEF queueVars, CurrentTrack, NextTrack, TrackAt, Size

\* One thread goes on, while the other is in no call.
LEMMA GoOn ==
  ASSUME IInv, Calm, ~shuffled', ~undefined', NEW t \in Threads, NEW j,
         job' = [job EXCEPT ![t] = j], Whole(j), t = "audio" => Audios(j),
         ~Idle(t) \/ \A u \in Threads \ {t} : Idle(u),
         Follows(t, j)'
  PROVE  Calm'
<1>1. job \in [Threads -> Seq(Steps)]
  BY Shapes DEF Others
<1>2. job'[t] = j /\ \A u \in Threads \ {t} : job'[u] = job[u]
  BY <1>1
<1>3. \A u \in Threads \ {t} : Idle(u)
  BY DEF Calm, Threads
<1>4. PICK u \in Threads : u # t
  BY DEF Threads
<1>5. \A v \in Threads : v = t \/ v = u
  BY <1>4 DEF Threads
<1>6. job'[u] = <<>> /\ job'[u] = job[u]
  BY <1>2, <1>3, <1>4 DEF Idle
<1>7. \A v \in Threads : Whole(job'[v])
  BY <1>2, <1>4, <1>5, <1>6 DEF Calm
<1>8. Audios(job'["audio"])
  <2>1. "audio" \in Threads  BY DEF Threads
  <2> QED  BY <1>2, <1>5, <1>6, <2>1 DEF Calm
<1>9. Quiet' => InStep'
  BY <1>2 DEF Quiet, Idle, Follows
<1>10. \A v \in Threads : ~(job'[v] = <<>>) => Stage(v, Head(job[v]))'
  <2>1. ~(job'[t] = <<>>) => Stage(t, Head(job[t]))'
    BY <1>2 DEF Follows
  <2> QED  BY <1>5, <1>6, <2>1
<1>11. \E v \in Threads : Idle(v)'
  BY <1>4, <1>6 DEF Idle
<1> QED  BY <1>7, <1>8, <1>9, <1>10, <1>11 DEF Calm, Idle

\* Nothing of it has changed.
LEMMA SameCalm ==
  ASSUME Calm, CurrentTrack' = CurrentTrack, NextTrack' = NextTrack,
         UNCHANGED <<shuffled, expected, expectedNext, url, nextUrl, job, got, undefined>>
  PROVE  Calm'
<1>1. InStep' = InStep /\ OnCurrent' = OnCurrent
  BY DEF InStep, OnCurrent, Prepared
<1>2. \A t \in Threads : Idle(t)' <=> Idle(t)
  BY DEF Idle
<1>3. \A t \in Threads : Stage(t, Head(job[t])) => Stage(t, Head(job[t]))'
  BY <1>1 DEF Stage
<1>4. Quiet' <=> Quiet
  BY <1>2 DEF Quiet
<1>5. job' = job
  OBVIOUS
<1> QED  BY <1>1, <1>2, <1>3, <1>4, <1>5 DEF Calm

\* What is known of the thread that makes a step.
LEMMA RestFacts ==
  ASSUME IInv, Calm, NEW t \in Threads, NEW step, At(t, step), NEW r, r = Rest(t)
  PROVE  /\ job[t] \in Seq(Steps) /\ job[t] # <<>> /\ Whole(job[t]) /\ step = Head(job[t]) /\ Stage(t, step) /\ ~Idle(t)
         /\ r \in Seq(Steps) /\ Whole(r) /\ (t = "audio" => Audios(job[t]) /\ Audios(r))
         /\ step \in Inside => r # <<>> /\ Head(r) \in After(step)
         /\ step \notin Inside => Good(r)
<1>1. PICK j : j = job[t]
  OBVIOUS
<1>2. j \in Seq(Steps) /\ j # <<>> /\ Whole(j) /\ step = Head(j) /\ r = Tail(j) /\ (t = "audio" => Audios(j))
  BY <1>1, Shapes DEF Others, At, Rest, Calm
<1>3. Stage(t, step) /\ ~Idle(t)
  BY <1>1, <1>2 DEF Calm, Idle
<1>4. /\ r \in Seq(Steps) /\ Whole(r) /\ (Audios(j) => Audios(r))
      /\ Head(j) \in Inside => r # <<>> /\ Head(r) \in After(Head(j))
      /\ Head(j) \notin Inside => Good(r)
  BY <1>2, TailFacts
<1> QED  BY <1>1, <1>2, <1>3, <1>4

\* A step that goes on to the next one of its thread.
LEMMA StepOn ==
  ASSUME IInv, IInv', Calm, NEW t \in Threads, NEW step, At(t, step),
         job' = [job EXCEPT ![t] = Rest(t)], UNCHANGED <<shuffled, undefined>>,
         step \in Inside => \A s \in After(step) : Stage(t, s)',
         step \notin Inside => InStep'
  PROVE  Calm'
<1>1. PICK r : r = Rest(t)
  OBVIOUS
<1>2. /\ ~Idle(t) /\ r \in Seq(Steps) /\ Whole(r) /\ (t = "audio" => Audios(r))
      /\ step \in Inside => r # <<>> /\ Head(r) \in After(step)
      /\ step \notin Inside => Good(r)
  BY <1>1, RestFacts
<1>3. Follows(t, r)'
  <2>1. CASE step \in Inside
    BY <1>2, <2>1 DEF Follows
  <2>2. CASE step \notin Inside
    BY <1>2, <2>2, GoodFollows
  <2> QED  BY <2>1, <2>2
<1>4. ~shuffled' /\ ~undefined'
  BY DEF Calm
<1> QED  BY <1>1, <1>2, <1>3, <1>4, GoOn

LEMMA ExpectCalm == ASSUME IInv, IInv', Calm, NEW t \in Threads, Expect(t) PROVE Calm'
<1>1. CurrentTrack' = CurrentTrack /\ NextTrack' = NextTrack
  BY SameTracks DEF Expect
<1>2. CASE At(t, "url:expect") /\ expected' = got[t]
  <2>1. Stage(t, "url:expect")
    BY <1>2, RestFacts
  <2>2. Stage(t, "url:tell")'
    BY <1>1, <1>2, <2>1 DEF Stage, Expect, States
  <2> QED  BY <1>2, <2>2, StepOn DEF Expect, queueVars, Inside, After
<1>3. CASE At(t, "next:expect") /\ expectedNext' = got[t] /\ UNCHANGED expected
  <2>1. Stage(t, "next:expect")
    BY <1>3, RestFacts
  <2>2. Stage(t, "next:tell")'
    BY <1>1, <1>3, <2>1 DEF Stage, Expect, States, OnCurrent, playerVars
  <2> QED  BY <1>3, <2>2, StepOn DEF Expect, queueVars, Inside, After
<1> QED  BY <1>2, <1>3 DEF Expect

LEMMA TellCalm == ASSUME IInv, IInv', Calm, NEW t \in Threads, Tell(t) PROVE Calm'
<1>1. CurrentTrack' = CurrentTrack /\ NextTrack' = NextTrack
  BY SameTracks DEF Tell
<1>2. CASE At(t, "url:tell") /\ url' = got[t] /\ nextUrl' = None
  <2>1. Stage(t, "url:tell")
    BY <1>2, RestFacts
  <2>2. t = "ui"
    <3>1. job[t] \in Seq(Steps) /\ job[t] # <<>> /\ Head(job[t]) = "url:tell" /\ (t = "audio" => Audios(job[t]))
      BY <1>2, RestFacts
    <3>2. job[t][1] = "url:tell" /\ 1 \in 1..Len(job[t])
      BY <3>1
    <3>3. ~Audios(job[t])
      BY <3>2 DEF Audios
    <3> QED  BY <3>1, <3>3 DEF Threads
  <2>3. Stage(t, "url:fire")'
    BY <1>1, <1>2, <2>1, <2>2 DEF Stage, Tell, States, expectVars
  <2> QED  BY <1>2, <2>3, StepOn DEF Tell, queueVars, Inside, After
<1>3. CASE At(t, "next:tell") /\ nextUrl' = got[t] /\ UNCHANGED <<url, playing, restarted>>
  <2>1. Stage(t, "next:tell")
    BY <1>3, RestFacts
  <2>2. InStep'
    BY <1>1, <1>3, <2>1 DEF Stage, Tell, States, expectVars, InStep, OnCurrent, Prepared
  <2> QED  BY <1>3, <2>2, StepOn DEF Tell, queueVars, Inside
<1>4. ASSUME NEW s \in States, At(t, s), UNCHANGED <<url, nextUrl, restarted>>  PROVE Calm'
  <2>1. Stage(t, s)
    BY <1>4, RestFacts
  <2>2. InStep'
    BY <1>1, <1>4, <2>1 DEF Stage, Tell, expectVars, InStep, OnCurrent, Prepared
  <2>3. s \notin Inside
    BY DEF States, Inside
  <2> QED  BY <1>4, <2>2, <2>3, StepOn DEF Tell, queueVars
<1> QED  BY <1>2, <1>3, <1>4 DEF Tell

LEMMA FiredCalm == ASSUME IInv, IInv', Calm, NEW t \in Threads, Fired(t) PROVE Calm'
<1>1. CurrentTrack' = CurrentTrack /\ NextTrack' = NextTrack /\ At(t, "fired")
  BY SameTracks DEF Fired
<1>2. Stage(t, "fired")
  BY <1>1, RestFacts
<1>3. InStep'
  BY <1>1, <1>2 DEF Stage, Fired, expectVars, playerVars, InStep, OnCurrent, Prepared
<1> QED  BY <1>1, <1>3, StepOn DEF Fired, queueVars, Inside

\* The length of a call that may have nothing to hand over.
IsCall(s, k) == (s = "url:read" /\ k = 4) \/ (s = "next:read" /\ k = 3)

\* What is left behind a call that has nothing to hand over.
LEMMA SkipFacts ==
  ASSUME NEW j \in Seq(Steps), Whole(j), j # <<>>, NEW k \in Nat, IsCall(j[1], k),
         NEW r, r = SubSeq(j, k + 1, Len(j))
  PROVE  Good(r) /\ (Audios(j) => Audios(r))
<1>1. Len(j) \in Nat /\ Len(j) >= 1
  OBVIOUS
<1>2. \A i \in 1..Len(j) : IF i < Len(j) THEN j[i + 1] \in After(j[i]) ELSE j[i] \notin Inside
  BY DEF Whole
<1>3. /\ 1 < Len(j) => j[2] \in After(j[1])
      /\ 2 < Len(j) => j[3] \in After(j[2])
      /\ 3 < Len(j) => j[4] \in After(j[3])
      /\ 4 < Len(j) => j[5] \in After(j[4])
  <2>1. 1 < Len(j) => 1 \in 1..Len(j) /\ 1 + 1 = 2  BY <1>1
  <2>2. 2 < Len(j) => 2 \in 1..Len(j) /\ 2 + 1 = 3  BY <1>1
  <2>3. 3 < Len(j) => 3 \in 1..Len(j) /\ 3 + 1 = 4  BY <1>1
  <2>4. 4 < Len(j) => 4 \in 1..Len(j) /\ 4 + 1 = 5  BY <1>1
  <2> QED  BY <1>2, <2>1, <2>2, <2>3, <2>4
<1>4. /\ j[1] \in Inside => 1 < Len(j)
      /\ 2 <= Len(j) /\ j[2] \in Inside => 2 < Len(j)
      /\ 3 <= Len(j) /\ j[3] \in Inside => 3 < Len(j)
  BY <1>1, <1>2
<1>5. k <= Len(j) /\ (k < Len(j) => j[k + 1] \in Starts)
  <2>1. CASE j[1] = "url:read" /\ k = 4
    <3>1. 1 < Len(j) /\ j[2] = "url:expect"  BY <1>3, <1>4, <2>1 DEF Inside, After
    <3>2. 2 < Len(j) /\ j[3] = "url:tell"  BY <1>1, <1>3, <1>4, <3>1 DEF Inside, After
    <3>3. 3 < Len(j) /\ j[4] = "url:fire"  BY <1>1, <1>3, <1>4, <3>2 DEF Inside, After
    <3>4. After("url:fire") = Starts  BY DEF After
    <3> QED  BY <1>1, <1>3, <2>1, <3>3, <3>4
  <2>2. CASE j[1] = "next:read" /\ k = 3
    <3>1. 1 < Len(j) /\ j[2] = "next:expect"  BY <1>3, <1>4, <2>2 DEF Inside, After
    <3>2. 2 < Len(j) /\ j[3] = "next:tell"  BY <1>1, <1>3, <1>4, <3>1 DEF Inside, After
    <3>3. After("next:tell") = Starts  BY DEF After
    <3> QED  BY <1>1, <1>3, <2>2, <3>2, <3>3
  <2> QED  BY <2>1, <2>2 DEF IsCall
<1>6. k >= 1
  BY DEF IsCall
<1>7. /\ r \in Seq(Steps) /\ Len(r) = Len(j) - k /\ \A i \in 1..Len(r) : r[i] = j[i + k]
      /\ Whole(r) /\ (Audios(j) => Audios(r))
  <2>1. j \in Seq(Steps) /\ Whole(j) /\ k \in Nat /\ k >= 1 /\ k <= Len(j) /\ r = SubSeq(j, k + 1, Len(j))
    BY <1>5, <1>6
  <2> QED  BY <2>1, DropFacts
<1>8. r # <<>> => r[1] \in Starts
  <2>1. r # <<>> <=> Len(r) # 0  BY ONLY <1>7, EmptySeq
  <2>2. r # <<>> => 1 \in 1..Len(r) /\ k < Len(j) /\ 1 + k = k + 1  BY <1>1, <1>5, <1>7, <2>1
  <2> QED  BY <1>5, <1>7, <2>2
<1> QED  BY <1>7, <1>8 DEF Good

LEMMA ReadCalm ==
  ASSUME IInv, IInv', Calm, NEW t \in Threads, ReadURL(t) \/ ReadNext(t)
  PROVE  Calm'
<1>1. CurrentTrack' = CurrentTrack /\ NextTrack' = NextTrack
  BY SameTracks DEF ReadURL, ReadNext, ReadItem
<1>2. UNCHANGED <<queueVars, expectVars, playerVars, undefined>>
  BY DEF ReadURL, ReadNext, ReadItem
<1>3. TracksAreApart /\ Size \in Nat /\ cur \in Nat /\ job \in [Threads -> Seq(Steps)] /\ got \in [Threads -> Optional]
  BY TrackFacts, Shapes DEF Others
<1>4. ~shuffled' /\ ~undefined'
  BY <1>2 DEF Calm, queueVars
<1>5. ASSUME NEW k \in Nat, NEW step, At(t, step), IsCall(step, k),
             job' = [job EXCEPT ![t] = SubSeq(@, k + 1, Len(@))], InStep
      PROVE  Calm'
  <2>1. PICK j, r : j = job[t] /\ r = SubSeq(j, k + 1, Len(j))
    OBVIOUS
  <2>2. /\ j \in Seq(Steps) /\ j # <<>> /\ Whole(j) /\ ~Idle(t) /\ (t = "audio" => Audios(j))
        /\ step = j[1]
    <3>1. PICK r2 : r2 = Rest(t)  OBVIOUS
    <3> QED  BY <1>5, <2>1, <3>1, RestFacts
  <2>3. Good(r) /\ (Audios(j) => Audios(r))
    <3>1. /\ j \in Seq(Steps) /\ j # <<>> /\ Whole(j) /\ r = SubSeq(j, k + 1, Len(j))
          /\ IsCall(j[1], k)
      BY <1>5, <2>1, <2>2
    <3> QED  BY <3>1, SkipFacts
  <2>4. InStep'
    BY <1>1, <1>2, <1>5 DEF InStep, OnCurrent, Prepared, expectVars, playerVars
  <2>5. Follows(t, r)'
    BY <2>3, <2>4, GoodFollows
  <2>6. job' = [job EXCEPT ![t] = r] /\ Whole(r)
    BY <1>5, <2>1, <2>3 DEF Good
  <2> QED  BY <1>4, <2>2, <2>3, <2>5, <2>6, GoOn
<1>6. CASE ReadURL(t)
  <2>1. At(t, "url:read") /\ Stage(t, "url:read")
    BY <1>6, RestFacts DEF ReadURL, ReadItem
  <2>2. CASE cur > Size
    <3>1. CurrentTrack = None /\ NextTrack = None
      BY <1>3, <2>2 DEF TracksAreApart
    <3>2. InStep
      BY <2>1, <3>1 DEF Stage, InStep, OnCurrent, Prepared
    <3>3. Len(SetURL) = 4
      BY DEF SetURL
    <3>4. job' = [job EXCEPT ![t] = SubSeq(@, 4 + 1, Len(@))]
      BY <1>6, <2>2, <3>3 DEF ReadURL, ReadItem
    <3> QED  BY <1>5, <2>1, <3>2, <3>4 DEF IsCall
  <2>3. CASE ~(cur > Size)
    <3>1. job' = [job EXCEPT ![t] = Rest(t)] /\ got' = [got EXCEPT ![t] = TrackAt(cur)]
      BY <1>6, <2>3 DEF ReadURL, ReadItem
    <3>2. CurrentTrack # None /\ CurrentTrack = TrackAt(cur)
      BY <1>3, <2>3 DEF TracksAreApart
    <3>3. got'[t] = CurrentTrack
      BY <1>3, <3>1, <3>2
    <3>4. Stage(t, "url:expect")'
      BY <1>1, <3>2, <3>3 DEF Stage, States
    <3> QED  BY <1>2, <2>1, <3>1, <3>4, StepOn DEF queueVars, Inside, After
  <2> QED  BY <2>2, <2>3
<1>7. CASE ReadNext(t)
  <2>1. At(t, "next:read") /\ Stage(t, "next:read")
    BY <1>7, RestFacts DEF ReadNext, ReadItem
  <2>2. CASE cur + 1 > Size
    <3>1. NextTrack = None
      BY <1>3, <2>2 DEF TracksAreApart
    <3>2. InStep
      BY <2>1, <3>1 DEF Stage, InStep, Prepared
    <3>3. Len(SetNextURL) = 3
      BY DEF SetNextURL
    <3>4. job' = [job EXCEPT ![t] = SubSeq(@, 3 + 1, Len(@))]
      BY <1>7, <2>2, <3>3 DEF ReadNext, ReadItem, NextPosition
    <3> QED  BY <1>5, <2>1, <3>2, <3>4 DEF IsCall
  <2>3. CASE ~(cur + 1 > Size)
    <3>1. job' = [job EXCEPT ![t] = Rest(t)] /\ got' = [got EXCEPT ![t] = TrackAt(cur + 1)]
      BY <1>7, <2>3 DEF ReadNext, ReadItem, NextPosition
    <3>2. NextTrack # None /\ NextTrack = TrackAt(cur + 1)
      BY <1>3, <2>3 DEF TracksAreApart, NextTrack
    <3>3. got'[t] = NextTrack
      BY <1>3, <3>1, <3>2
    <3>4. OnCurrent'
      BY <1>1, <1>2, <2>1 DEF Stage, OnCurrent, expectVars, playerVars
    <3>5. Stage(t, "next:expect")'
      BY <1>1, <3>2, <3>3, <3>4 DEF Stage, States
    <3> QED  BY <1>2, <2>1, <3>1, <3>5, StepOn DEF queueVars, Inside, After
  <2> QED  BY <2>2, <2>3
<1> QED  BY <1>6, <1>7

\* The other thread is idle when this one is in a call.
LEMMA AddCheckCalm == ASSUME IInv, IInv', Calm, AddCheck PROVE Calm'
<1>1. "ui" \in Threads /\ At("ui", "add:check")
  BY DEF Threads, AddCheck
<1>2. Stage("ui", "add:check") /\ ~Idle("ui")
  <2>1. PICK r : r = Rest("ui")  OBVIOUS
  <2> QED  BY <1>1, <2>1, RestFacts
<1>3. CurrentTrack' = CurrentTrack /\ NextTrack' = NextTrack
  BY SameTracks DEF AddCheck
<1>4. InStep'
  BY <1>2, <1>3 DEF Stage, AddCheck, Then, expectVars, playerVars, InStep, OnCurrent, Prepared
<1>5. PICK j : j = IF cur = Size - 1 THEN SetNextURL ELSE <<>>
  OBVIOUS
<1>6. Good(j) /\ job' = [job EXCEPT !["ui"] = j]
  BY <1>5, CallsAreGood DEF AddCheck, Then
<1>7. Follows("ui", j)'
  BY <1>1, <1>4, <1>6, GoodFollows
<1>8. ~shuffled' /\ ~undefined'
  BY DEF Calm, AddCheck, queueVars
<1> QED  BY <1>1, <1>2, <1>6, <1>7, <1>8, GoOn DEF Good

LEMMA SeekStateCalm == ASSUME IInv, IInv', Calm, SeekState PROVE Calm'
<1>1. "ui" \in Threads /\ At("ui", "seek:state") /\ state \in States
  BY Shapes DEF Threads, SeekState, Others
<1>2. Stage("ui", "seek:state") /\ ~Idle("ui")
  <2>1. PICK r : r = Rest("ui")  OBVIOUS
  <2> QED  BY <1>1, <2>1, RestFacts
<1>3. CurrentTrack' = CurrentTrack /\ NextTrack' = NextTrack
  BY SameTracks DEF SeekState
<1>4. PICK a, c, j : a = PlayStateCalls(state) /\ c = SetURL \o SetNextURL /\ j = c \o a
  OBVIOUS
<1>5. Good(a)
  BY <1>1, <1>4, CallsAreGood, CombinedAreGood DEF PlayStateCalls
<1>6. Good(c) /\ c # <<>> /\ c[1] = "url:read"
  BY <1>4, CallsAreGood, JoinIsGood
<1>7. Good(j) /\ j # <<>> /\ j[1] = "url:read"
  BY <1>4, <1>5, <1>6, JoinIsGood
<1>8. job' = [job EXCEPT !["ui"] = j]
  BY <1>4 DEF SeekState, Then
<1>9. Stage("ui", "url:read")'
  BY <1>2, <1>3 DEF Stage, SeekState, Then, expectVars, playerVars, States
<1>10. Follows("ui", j)'
  <2>1. Head(j) = "url:read"  BY <1>7 DEF Good
  <2> QED  BY <1>7, <1>9, <2>1 DEF Follows
<1>11. ~shuffled' /\ ~undefined'
  BY DEF Calm, SeekState, queueVars
<1> QED  BY <1>1, <1>2, <1>7, <1>8, <1>10, <1>11, GoOn DEF Good

LEMMA OnPlayStateCalm == ASSUME Calm, OnPlayState PROVE Calm'
<1>1. CurrentTrack' = CurrentTrack /\ NextTrack' = NextTrack
  BY SameTracks DEF OnPlayState
<1> QED  BY <1>1, SameCalm DEF OnPlayState, queueVars, threadVars

LEMMA AboutToFinishCalm == ASSUME IInv, IInv', Calm, AboutToFinish, Calmly PROVE Calm'
<1>1. CurrentTrack' = CurrentTrack /\ NextTrack' = NextTrack
  BY SameTracks DEF AboutToFinish
<1>2. CASE nextUrl = None
  BY <1>1, <1>2, SameCalm DEF AboutToFinish, queueVars, expectVars
<1>3. CASE nextUrl # None
  <2>1. PICK j : j = <<"url:fire">>
    OBVIOUS
  <2>2. /\ url' = nextUrl /\ nextUrl' = None /\ job' = [job EXCEPT !["audio"] = j]
        /\ UNCHANGED <<queueVars, expectVars, last, got, firing, undefined>> /\ Idle("audio")
    BY <1>3, <2>1 DEF AboutToFinish
  <2>3. j \in Seq(Steps) /\ Len(j) = 1 /\ j[1] = "url:fire" /\ Head(j) = "url:fire" /\ j # <<>>
    BY <2>1, Calls
  <2>4. Whole(j) /\ Audios(j)
    BY <2>3 DEF Whole, Audios, Inside
  <2>5. job \in [Threads -> Seq(Steps)]
    BY Shapes DEF Others
  <2>6. Idle("ui")
    <3>1. job'["audio"] # <<>> /\ job'["ui"] = job["ui"]
      BY <2>2, <2>3, <2>5 DEF Threads
    <3> QED  BY <3>1 DEF Calmly, Threads, Idle
  <2>7. InStep
    BY <2>2, <2>6 DEF Calm, Quiet, Threads
  <2>8. Stage("audio", "url:fire")'
    BY <1>1, <1>3, <2>2, <2>7 DEF Stage, InStep, OnCurrent, Prepared, expectVars, States
  <2>9. Follows("audio", j)'
    BY <2>3, <2>8 DEF Follows
  <2>10. ~shuffled' /\ ~undefined'
    BY <2>2 DEF Calm, queueVars
  <2>11. "audio" \in Threads /\ \A u \in Threads \ {"audio"} : Idle(u)
    BY <2>6 DEF Threads
  <2> QED  BY <2>2, <2>4, <2>9, <2>10, <2>11, GoOn
<1> QED  BY <1>2, <1>3

LEMMA FireOnURLCalm ==
  ASSUME IInv, IInv', Calm, NEW t \in Threads, FireOnURL(t)
  PROVE  Calm'
<1>1. At(t, "url:fire") /\ UNCHANGED <<order, shuffled, playerVars, got>>
  BY DEF FireOnURL
<1>2. PICK r : r = Rest(t)
  OBVIOUS
<1>3. /\ Stage(t, "url:fire") /\ job[t] \in Seq(Steps) /\ job[t] # <<>> /\ Head(job[t]) = "url:fire" /\ ~Idle(t)
      /\ r = Tail(job[t]) /\ Good(r) /\ (t = "audio" => Audios(job[t]))
  <2>1. "url:fire" \notin Inside
    BY DEF Inside
  <2> QED  BY <1>1, <1>2, <2>1, RestFacts DEF Rest
<1>4. /\ TracksAreApart /\ Size \in Nat /\ cur \in Nat /\ cur >= 1 /\ DOMAIN order = 1..Size
      /\ \A i \in 1..Size : order[i] \in 1..Size
  BY TrackFacts, Shapes
<1>5. t = "ui" \/ t = "audio"
  BY DEF Threads
<1>6. ASSUME NEW i \in 1..Size, SetPlayed(i)
      PROVE  Size' = Size /\ \A k \in 1..Size : TrackAt(k)' = TrackAt(k)
  <2>1. Len(entries') = Size /\ \A j \in 1..Size : entries'[j].track = entries[j].track
    BY <1>6, SetPlayedFacts
  <2> QED  BY <1>1, <1>4, <2>1 DEF TrackAt, Size
<1>7. CASE t = "ui"
  <2>1. CurrentTrack # None /\ url = expected /\ url = CurrentTrack /\ nextUrl = None
    BY <1>3, <1>7 DEF Stage
  <2>2. cur \in 1..Size
    BY <1>4, <2>1 DEF TracksAreApart
  <2>3. /\ job' = [job EXCEPT ![t] = Rest(t)] /\ SetPlayed(cur) /\ UNCHANGED <<undefined, cur, expectVars>>
    BY <1>4, <2>1, <2>2 DEF FireOnURL
  <2>4. Size' = Size /\ \A k \in 1..Size : TrackAt(k)' = TrackAt(k)
    BY <1>6, <2>2, <2>3
  <2>5. CurrentTrack' = CurrentTrack
    BY <1>1, <1>4, <2>2, <2>3, <2>4 DEF CurrentTrack, TrackAt
  <2>6. InStep'
    BY <1>1, <2>1, <2>3, <2>5 DEF InStep, OnCurrent, Prepared, playerVars, expectVars
  <2> QED  BY <1>1, <2>3, <2>6, StepOn DEF Inside
<1>8. CASE t = "audio"
  <2>1. /\ NextTrack # None /\ url = expectedNext /\ url = NextTrack /\ nextUrl = None
        /\ expected \in {None, CurrentTrack}
    BY <1>3, <1>8 DEF Stage
  <2>2. cur + 1 \in 1..Size /\ NextTrack = TrackAt(cur + 1)
    BY <1>4, <2>1 DEF TracksAreApart, NextTrack
  <2>3. url # expected
    BY <1>4, <2>1 DEF TracksAreApart
  <2>4. PICK f, c, j : f = <<"fired">> /\ c = SetNextURL \o f /\ j = c \o r
    OBVIOUS
  <2>5. /\ cur' = cur + 1 /\ expected' = expectedNext /\ expectedNext' = None
        /\ job' = [job EXCEPT ![t] = j] /\ SetPlayed(cur + 1) /\ UNCHANGED undefined
    BY <1>2, <1>4, <2>1, <2>2, <2>3, <2>4 DEF FireOnURL, Advance
  <2>6. Size' = Size /\ \A k \in 1..Size : TrackAt(k)' = TrackAt(k)
    BY <1>6, <2>2, <2>5
  <2>7. CurrentTrack' = NextTrack
    BY <1>1, <1>4, <2>2, <2>5, <2>6 DEF CurrentTrack, TrackAt
  <2>8. OnCurrent' /\ nextUrl' = None
    BY <1>1, <2>1, <2>5, <2>7 DEF OnCurrent, playerVars
  <2>9. Stage(t, "next:read")'
    BY <2>8 DEF Stage, States
  <2>10. r = <<>>
    <3>1. Len(job[t]) = 1
      <4>1. job[t][1] = "url:fire" /\ 1 \in 1..Len(job[t])  BY <1>3
      <4> QED  BY <1>3, <1>8, <4>1 DEF Audios
    <3> QED  BY <1>3, <3>1
  <2>11. Good(f) /\ Len(f) = 1 /\ f[1] = "fired" /\ Good(SetNextURL) /\ SetNextURL # <<>> /\ SetNextURL[1] = "next:read"
    BY <2>4, CallsAreGood
  <2>12. Good(c) /\ c # <<>> /\ c[1] = "next:read"
    BY <2>4, <2>11, JoinIsGood
  <2>13. j = c
    BY <2>4, <2>10, <2>12 DEF Good
  <2>14. Audios(c)
    <3>1. SetNextURL \in Seq(Steps) /\ f \in Seq(Steps) /\ Len(SetNextURL) = 3
      BY <2>11 DEF Good, SetNextURL
    <3>2. \A i \in 1..3 : SetNextURL[i] \in {"next:read", "next:expect", "next:tell"}
      <4>1. \A i \in 1..3 : i = 1 \/ i = 2 \/ i = 3  OBVIOUS
      <4> QED  BY <4>1 DEF SetNextURL
    <3> DEFINE n == SetNextURL
    <3>3. n \in Seq(Steps) /\ f \in Seq(Steps) /\ c = n \o f /\ Len(n) = 3  BY <2>4, <3>1
    <3> HIDE DEF n, Steps
    <3>4. /\ Len(c) = Len(n) + Len(f)
          /\ \A i \in 1..(Len(n) + Len(f)) : c[i] = IF i <= Len(n) THEN n[i] ELSE f[i - Len(n)]
      BY ONLY <3>3, ConcatProperties
    <3>5. ASSUME NEW i \in 1..Len(c)  PROVE c[i] \in {"next:read", "next:expect", "next:tell", "fired"}
      <4>1. c[i] = IF i <= 3 THEN n[i] ELSE f[i - 3]  BY <2>11, <3>3, <3>4
      <4>2. i <= 3 => i \in 1..3  OBVIOUS
      <4>3. ~(i <= 3) => i - 3 = 1  BY <2>11, <3>3, <3>4
      <4> QED  BY <2>11, <3>2, <4>1, <4>2, <4>3 DEF n
    <3> QED  BY <3>5 DEF Audios
  <2>15. Head(c) = "next:read"
    BY <2>12 DEF Good
  <2>16. Follows(t, c)'
    BY <2>9, <2>12, <2>15 DEF Follows
  <2>17. ~shuffled' /\ ~undefined'
    BY <1>1, <2>5 DEF Calm
  <2> QED  BY <1>3, <2>5, <2>12, <2>13, <2>14, <2>16, <2>17, GoOn DEF Good
<1> QED  BY <1>5, <1>7, <1>8

-----------------------------------------------------------------------------
\* An operation of the user interface: it asks for nothing, or the player's
\* thread is in no call.
LEMMA Asked ==
  ASSUME IInv, IInv', Calm, Calmly, Idle("ui"), NEW calls, Good(calls), Then(calls),
         UNCHANGED <<shuffled, undefined>>,
         calls = <<>> => CurrentTrack' = CurrentTrack /\ NextTrack' = NextTrack,
         calls # <<>> /\ InStep => Follows("ui", calls)'
  PROVE  Calm'
<1>1. job \in [Threads -> Seq(Steps)] /\ "ui" \in Threads /\ "audio" \in Threads
  BY Shapes DEF Others, Threads
<1>2. job' = [job EXCEPT !["ui"] = calls] /\ UNCHANGED <<expectVars, playerVars, got>>
  BY DEF Then
<1>3. CASE calls = <<>>
  <2>1. job' = job
    BY <1>1, <1>2, <1>3 DEF Idle
  <2> QED  BY <1>2, <1>3, <2>1, SameCalm DEF expectVars, playerVars
<1>4. CASE calls # <<>>
  <2>1. job'["ui"] # <<>> /\ job'["audio"] = job["audio"]
    BY <1>1, <1>2, <1>4
  <2>2. Idle("audio")
    BY <2>1 DEF Calmly, Threads, Idle
  <2>3. InStep
    BY <2>2 DEF Calm, Quiet, Threads
  <2>4. \A u \in Threads \ {"ui"} : Idle(u)
    BY <2>2 DEF Threads
  <2>5. ~shuffled' /\ ~undefined'
    BY DEF Calm
  <2> QED  BY <1>1, <1>2, <1>4, <2>3, <2>4, <2>5, GoOn DEF Good
<1> QED  BY <1>3, <1>4

\* What an insert makes of the current track and the next.
LEMMA InsertTracks ==
  ASSUME IInv, ~undefined, NEW t, NEW p, NEW q, Inserts(t, p, q)
  PROVE  /\ t # None
         /\ cur' = Place(cur, q) /\ q # cur + 1 => CurrentTrack' = CurrentTrack /\ NextTrack' = NextTrack
         /\ cur' = cur /\ q = cur + 1 => CurrentTrack' = CurrentTrack /\ NextTrack' = t
         /\ cur' = q => CurrentTrack' = t
<1> DEFINE n == Size
<1>1. /\ n \in Nat /\ cur \in Nat /\ cur >= 1 /\ cur <= n + 1 /\ DOMAIN order = 1..n
      /\ CurrentTrack = IF cur \in 1..n THEN TrackAt(cur) ELSE None
  BY Shapes DEF CurrentTrack
<1>2. q \in 1..(n + 1) /\ t \in Tracks /\ t # None
  BY NewTrackFacts, QueueAssumption DEF Inserts
<1>3. /\ Size' = n + 1 /\ DOMAIN order' = 1..(n + 1)
      /\ \A i \in 1..n : Place(i, q) \in 1..(n + 1) /\ TrackAt(Place(i, q))' = TrackAt(i)
      /\ TrackAt(q)' = t
  BY InsertFacts DEF TrackAt, Size
<1>4. PICK m : m = cur'
  OBVIOUS
<1>5. CurrentTrack' = IF m \in 1..(n + 1) THEN TrackAt(m)' ELSE None
  BY <1>3, <1>4 DEF CurrentTrack, TrackAt
<1>6. NextTrack' = IF m < n + 1 THEN TrackAt(m + 1)' ELSE None
  BY <1>3, <1>4 DEF NextTrack, TrackAt
<1>7. NextTrack = IF cur < n THEN TrackAt(cur + 1) ELSE None
  BY DEF NextTrack
<1> HIDE DEF n
<1>8. PICK c : c = cur
  OBVIOUS
<1>9. c \in Nat /\ c >= 1 /\ c <= n + 1 /\ (c <= n <=> c \in 1..n)
  BY <1>1, <1>8
<1>10. ASSUME m = Place(c, q)  PROVE CurrentTrack' = CurrentTrack
  <2>1. CASE c <= n
    <3>1. c \in 1..n  BY <1>9, <2>1
    <3>2. m \in 1..(n + 1) /\ TrackAt(m)' = TrackAt(c)  BY <1>3, <1>10, <3>1
    <3> QED  BY <1>1, <1>5, <1>8, <3>1, <3>2
  <2>2. CASE c = n + 1
    <3>1. m \notin 1..(n + 1) /\ c \notin 1..n  BY <1>1, <1>2, <1>9, <1>10, <2>2 DEF Place
    <3> QED  BY <1>1, <1>5, <1>8, <3>1
  <2> QED  BY <1>1, <1>9, <2>1, <2>2
<1>11. ASSUME m = Place(c, q), q # c + 1  PROVE NextTrack' = NextTrack
  <2>1. CASE c < n
    <3>1. c + 1 \in 1..n /\ Place(c + 1, q) = m + 1
      BY <1>1, <1>2, <1>9, <1>11, <2>1 DEF Place
    <3>2. Place(c + 1, q) \in 1..(n + 1) /\ TrackAt(Place(c + 1, q))' = TrackAt(c + 1)
      BY <1>3, <3>1
    <3>3. m + 1 \in 1..(n + 1) /\ TrackAt(m + 1)' = TrackAt(c + 1)
      BY <3>1, <3>2
    <3>4. m < n + 1
      BY <1>1, <1>2, <1>9, <1>11, <3>3 DEF Place
    <3> QED  BY <1>6, <1>7, <1>8, <2>1, <3>3, <3>4
  <2>2. CASE ~(c < n)
    <3>1. ~(m < n + 1)
      BY <1>1, <1>2, <1>9, <1>11, <2>2 DEF Place
    <3> QED  BY <1>6, <1>7, <1>8, <2>2, <3>1
  <2> QED  BY <2>1, <2>2
<1>12. ASSUME m = c, q = c + 1  PROVE CurrentTrack' = CurrentTrack /\ NextTrack' = t
  <2>1. m = Place(c, q) /\ m < n + 1 /\ m + 1 = q
    BY <1>1, <1>2, <1>9, <1>12 DEF Place
  <2> QED  BY <1>3, <1>6, <1>10, <2>1
<1>13. m = q => CurrentTrack' = t
  BY <1>2, <1>3, <1>5
<1> QED  BY <1>2, <1>4, <1>8, <1>10, <1>11, <1>12, <1>13

LEMMA AddCalm ==
  ASSUME IInv, IInv', ~undefined, Calm, Calmly, NEW t \in Tracks, Add(t)
  PROVE  Calm'
<1>1. Inserts(t, Size + 1, Size + 1)
  BY AddInserts
<1>2. PICK q, calls : q = Size + 1 /\ calls = <<"add:check">>
  OBVIOUS
<1>3. /\ Size \in Nat /\ cur \in Nat /\ cur >= 1 /\ cur <= Size + 1 /\ cur' = cur /\ TracksAreApart
      /\ Idle("ui") /\ Then(calls) /\ UNCHANGED <<shuffled, undefined>>
  BY <1>2, Shapes, TrackFacts DEF Add, May
<1>4. /\ cur' = Place(cur, q) /\ q # cur + 1 => CurrentTrack' = CurrentTrack /\ NextTrack' = NextTrack
      /\ cur' = cur /\ q = cur + 1 => CurrentTrack' = CurrentTrack /\ NextTrack' = t
      /\ cur' = q => CurrentTrack' = t
  BY <1>1, <1>2, InsertTracks
<1>5. /\ cur < Size => CurrentTrack' = CurrentTrack /\ NextTrack' = NextTrack
      /\ cur = Size => CurrentTrack' = CurrentTrack
  BY <1>2, <1>3, <1>4 DEF Place
<1>6. /\ cur >= Size => NextTrack = None
      /\ cur = Size + 1 => CurrentTrack = None
      /\ cur < Size \/ cur = Size \/ cur = Size + 1
  BY <1>3 DEF TracksAreApart
<1>7. InStep => InStep'
  <2> SUFFICES ASSUME InStep PROVE InStep'
    OBVIOUS
  <2>1. UNCHANGED <<url, nextUrl, expected, expectedNext>>
    BY <1>3 DEF Then, expectVars, playerVars
  <2>2. CASE cur < Size
    BY <1>5, <2>1, <2>2 DEF InStep, OnCurrent, Prepared
  <2>3. CASE cur = Size
    <3>1. nextUrl = None
      BY <1>3, <1>6, <2>3 DEF InStep, Prepared
    <3> QED  BY <1>5, <2>1, <2>3, <3>1 DEF InStep, OnCurrent, Prepared
  <2>4. CASE cur = Size + 1
    <3>1. nextUrl = None /\ url = None
      BY <1>3, <1>6, <2>4 DEF InStep, OnCurrent, Prepared
    <3> QED  BY <2>1, <3>1 DEF InStep, OnCurrent, Prepared
  <2> QED  BY <1>6, <2>2, <2>3, <2>4
<1>8. Good(calls) /\ calls # <<>>
  BY <1>2, CallsAreGood
<1>9. InStep => Follows("ui", calls)'
  BY <1>7, <1>8, GoodFollows DEF Threads
<1> QED  BY <1>3, <1>8, <1>9, Asked

LEMMA QueueInsertCalm ==
  ASSUME IInv, IInv', ~undefined, Calm, Calmly, NEW t \in Tracks, NEW p \in 1..(Size + 1), QueueInsert(t, p)
  PROVE  Calm'
<1>1. Inserts(t, Size + 1, p)
  BY QueueInsertInserts DEF QueueInsert
<1>2. PICK a \in BOOLEAN, b \in BOOLEAN :
        a = (Size = 0) /\ b = (cur = p - 1) /\ (a <=> Size = 0) /\ (b <=> cur = p - 1)
  OBVIOUS
<1>3. PICK calls : calls = Refresh(a, b)
  OBVIOUS
<1>4. /\ Size \in Nat /\ p \in Int /\ cur \in Nat /\ cur >= 1 /\ cur <= Size + 1 /\ TracksAreApart
      /\ cur' = Place(cur, p) /\ Idle("ui") /\ Then(calls) /\ UNCHANGED <<shuffled, undefined>>
  BY <1>2, <1>3, Shapes, TrackFacts DEF QueueInsert, May, CurrentAfterInsert, Place
<1>5. UNCHANGED <<url, nextUrl, expected, expectedNext>>
  BY <1>4 DEF Then, expectVars, playerVars
<1>6. /\ t # None
      /\ p # cur + 1 => CurrentTrack' = CurrentTrack /\ NextTrack' = NextTrack
      /\ cur' = cur /\ p = cur + 1 => CurrentTrack' = CurrentTrack /\ NextTrack' = t
  BY <1>1, <1>4, InsertTracks
<1>7. /\ Good(calls)
      /\ a => calls # <<>> /\ calls[1] = "url:read"
      /\ ~a /\ b => calls # <<>> /\ calls[1] = "next:read"
      /\ calls = <<>> => ~a /\ ~b
  BY <1>3, CombinedAreGood
<1>8. b <=> p = cur + 1
  BY <1>2, <1>4
<1>9. ~b => CurrentTrack' = CurrentTrack /\ NextTrack' = NextTrack
  BY <1>6, <1>8
<1>10. ASSUME calls # <<>>, InStep  PROVE Follows("ui", calls)'
  <2>1. Head(calls) = calls[1]
    BY <1>7, <1>10 DEF Good
  <2>2. CASE a
    <3>1. CurrentTrack = None /\ NextTrack = None
      BY <1>2, <1>4, <2>2 DEF TracksAreApart
    <3>2. url = None /\ expected = None /\ nextUrl = None
      BY <1>10, <3>1 DEF InStep, OnCurrent, Prepared
    <3>3. Stage("ui", "url:read")'
      BY <1>5, <3>2 DEF Stage, States
    <3> QED  BY <1>7, <1>10, <2>1, <2>2, <3>3 DEF Follows
  <2>3. CASE ~a /\ b
    <3>1. cur' = cur
      BY <1>4, <1>8, <2>3 DEF Place
    <3>2. CurrentTrack' = CurrentTrack /\ NextTrack' # None
      BY <1>6, <1>8, <2>3, <3>1
    <3>3. OnCurrent'
      BY <1>5, <1>10, <3>2 DEF InStep, OnCurrent
    <3>4. Stage("ui", "next:read")'
      BY <3>2, <3>3 DEF Stage, States
    <3> QED  BY <1>7, <1>10, <2>1, <2>3, <3>4 DEF Follows
  <2>4. CASE ~a /\ ~b
    <3>1. Refresh(a, b) = <<>>
      <4>1. <<>> \o <<>> = <<>>  OBVIOUS
      <4> QED  BY <2>4, <4>1 DEF Refresh
    <3> QED  BY <1>3, <1>10, <3>1
  <2> QED  BY <2>2, <2>3, <2>4
<1> QED  BY <1>4, <1>7, <1>9, <1>10, Asked

LEMMA EntryInsertCalm ==
  ASSUME IInv, IInv', ~undefined, Calm, Calmly, NEW t \in Tracks, NEW p \in 1..(Size + 1), EntryInsert(t, p)
  PROVE  Calm'
<1>1. InsertPositions(p) = {p}
  BY DEF InsertPositions, Calm
<1>2. PICK a \in BOOLEAN, b \in BOOLEAN :
        a = (p = cur) /\ b = (cur = p - 1) /\ (a <=> p = cur) /\ (b <=> cur = p - 1)
  OBVIOUS
<1>3. PICK calls : calls = Refresh(a, b)
  OBVIOUS
<1>4. /\ entries' = InsertAt(entries, p, Fresh(t)) /\ order' = InsertAt(MakingRoom(p), p, p)
      /\ cur' = (IF cur > p THEN cur + 1 ELSE cur)
      /\ Then(calls) /\ UNCHANGED <<shuffled, undefined>> /\ NewTrack(t) /\ Idle("ui")
  BY <1>1, <1>2, <1>3 DEF EntryInsert, MakingRoom, May
<1>5. Inserts(t, p, p)
  BY <1>4 DEF Inserts
<1>6. /\ Size \in Nat /\ p \in Int /\ cur \in Nat /\ cur >= 1 /\ cur <= Size + 1
  BY Shapes
<1>7. UNCHANGED <<url, nextUrl, expected, expectedNext>>
  BY <1>4 DEF Then, expectVars, playerVars
<1>8. /\ t # None
      /\ cur' = Place(cur, p) /\ p # cur + 1 => CurrentTrack' = CurrentTrack /\ NextTrack' = NextTrack
      /\ cur' = cur /\ p = cur + 1 => CurrentTrack' = CurrentTrack /\ NextTrack' = t
      /\ cur' = p => CurrentTrack' = t
  BY <1>5, InsertTracks
<1>9. /\ Good(calls)
      /\ a => calls # <<>> /\ calls[1] = "url:read"
      /\ ~a /\ b => calls # <<>> /\ calls[1] = "next:read"
      /\ calls = <<>> => ~a /\ ~b
  BY <1>3, CombinedAreGood
<1>10. (b <=> p = cur + 1) /\ (a <=> p = cur)
  BY <1>2, <1>6
<1>11. ~a /\ ~b => CurrentTrack' = CurrentTrack /\ NextTrack' = NextTrack
  <2>1. ~a => cur' = Place(cur, p)
    BY <1>4, <1>6, <1>10 DEF Place
  <2> QED  BY <1>8, <1>10, <2>1
<1>12. ASSUME calls # <<>>, InStep  PROVE Follows("ui", calls)'
  <2>1. Head(calls) = calls[1]
    BY <1>9, <1>12 DEF Good
  <2>2. CASE a
    <3>1. CurrentTrack' # None
      BY <1>4, <1>6, <1>8, <1>10, <2>2
    <3>2. Stage("ui", "url:read")'
      BY <3>1 DEF Stage, States
    <3> QED  BY <1>9, <1>12, <2>1, <2>2, <3>2 DEF Follows
  <2>3. CASE ~a /\ b
    <3>1. cur' = cur
      BY <1>4, <1>6, <1>10, <2>3
    <3>2. CurrentTrack' = CurrentTrack /\ NextTrack' # None
      BY <1>8, <1>10, <2>3, <3>1
    <3>3. OnCurrent'
      BY <1>7, <1>12, <3>2 DEF InStep, OnCurrent
    <3>4. Stage("ui", "next:read")'
      BY <3>2, <3>3 DEF Stage, States
    <3> QED  BY <1>9, <1>12, <2>1, <2>3, <3>4 DEF Follows
  <2>4. CASE ~a /\ ~b
    <3>1. Refresh(a, b) = <<>>
      <4>1. <<>> \o <<>> = <<>>  OBVIOUS
      <4> QED  BY <2>4, <4>1 DEF Refresh
    <3> QED  BY <1>3, <1>12, <3>1
  <2> QED  BY <2>2, <2>3, <2>4
<1> QED  BY <1>4, <1>9, <1>11, <1>12, Asked

LEMMA SeekCalm ==
  ASSUME IInv, IInv', Calm, Calmly, NEW i \in 1..(Size + 1), Seek(i)
  PROVE  Calm'
<1>1. PICK calls : calls = <<"seek:state">>
  OBVIOUS
<1>2. Good(calls) /\ calls # <<>> /\ calls[1] = "seek:state" /\ Head(calls) = "seek:state"
  BY <1>1, CallsAreGood
<1>3. /\ TracksAreApart /\ TracksAreApart' /\ Size' = Size /\ Size \in Nat /\ UNCHANGED <<entries, order>>
      /\ cur' = IF i <= Size THEN i ELSE cur
  BY TrackFacts, TrackFactsNext, Shapes DEF Seek, Size
<1>4. UNCHANGED <<url, nextUrl, expected, expectedNext>> /\ Idle("ui")
      /\ Then(calls) /\ UNCHANGED <<shuffled, undefined>>
  BY <1>1 DEF Seek, May, Then, expectVars, playerVars
<1>5. CurrentTrack' = None => CurrentTrack = None
  BY <1>3 DEF TracksAreApart
<1>6. ASSUME InStep  PROVE Stage("ui", "seek:state")'
  <2>1. CurrentTrack = None => url = None /\ expected = None /\ nextUrl = None
    BY <1>3, <1>6 DEF InStep, OnCurrent, Prepared, TracksAreApart
  <2> QED  BY <1>4, <1>5, <2>1 DEF Stage, States
<1>7. InStep => Follows("ui", calls)'
  BY <1>2, <1>6 DEF Follows
<1> QED  BY <1>2, <1>4, <1>7, Asked

LEMMA SetPlayStateCalm ==
  ASSUME IInv, IInv', Calm, Calmly, NEW s \in Commands, SetPlayState(s)
  PROVE  Calm'
<1>1. PICK calls : calls = PlayStateCalls(s)
  OBVIOUS
<1>2. Good(calls)
  <2>1. s \in States  BY QueueAssumption DEF States
  <2> QED  BY <1>1, <2>1, CallsAreGood, CombinedAreGood DEF PlayStateCalls
<1>3. /\ CurrentTrack' = CurrentTrack /\ NextTrack' = NextTrack
      /\ Idle("ui") /\ Then(calls) /\ UNCHANGED <<shuffled, undefined>>
  BY <1>1, SameTracks DEF SetPlayState, May, queueVars
<1>4. InStep => InStep'
  BY <1>3 DEF Then, expectVars, playerVars, InStep, OnCurrent, Prepared
<1>5. InStep => Follows("ui", calls)'
  BY <1>2, <1>4, GoodFollows DEF Threads
<1> QED  BY <1>2, <1>3, <1>5, Asked

LEMMA CalmStep ==
  ASSUME IInv, IInv', Calm, Calmly, Next
  PROVE  Calm'
<1> USE DEF Next
<1>1. Size \in Nat /\ ~(Len(entries') < Size) /\ shuffled' = shuffled
  BY Shapes DEF Calmly, IInv, TypeOK
<1>2. CASE Edit
  BY <1>1, <1>2, AddCalm, QueueInsertCalm, EntryInsertCalm, QueueRemoveKeeps, EntryRemoveKeeps DEF Edit
<1>3. CASE Control
  BY <1>1, <1>3, SeekCalm, SetPlayStateCalm DEF Control, SetShuffle
<1>4. ASSUME NEW t \in Threads, Call(t)  PROVE Calm'
  BY <1>4, ReadCalm, ExpectCalm, TellCalm, FireOnURLCalm, FiredCalm DEF Call
<1> QED
  BY <1>2, <1>3, <1>4, AddCheckCalm, SeekStateCalm, AboutToFinishCalm, OnPlayStateCalm

LEMMA CalmInitOk == MCInit => CalmInv
<1> SUFFICES ASSUME MCInit PROVE CalmInv
  OBVIOUS
<1>1. IInv /\ calm = TRUE /\ Init
  BY InitOk DEF MCInit
<1>2. \A t \in Threads : Idle(t) /\ Whole(job[t])
  BY <1>1 DEF Init, Idle, Whole
<1>3. InStep
  BY <1>1 DEF Init, InStep, OnCurrent, Prepared
<1>4. Audios(job["audio"])
  BY <1>1 DEF Init, Audios, Threads
<1>5. \E t \in Threads : Idle(t)
  BY <1>2 DEF Threads
<1> QED  BY <1>1, <1>2, <1>3, <1>4, <1>5 DEF CalmInv, Calm, Init

LEMMA CalmStepOk == CalmInv /\ [MCNext]_<<vars, calm>> => CalmInv'
<1> SUFFICES ASSUME CalmInv, [MCNext]_<<vars, calm>> PROVE CalmInv'
  OBVIOUS
<1>1. IInv /\ calm \in BOOLEAN /\ (calm => Calm)
  BY DEF CalmInv
<1>2. IInv'
  BY <1>1, StepOk DEF MCNext, Holds
<1>3. CASE UNCHANGED <<vars, calm>>
  <2>1. Calm => Calm'
    BY <1>3, SameCalm, SameTracks DEF vars, queueVars, expectVars, playerVars, threadVars
  <2> QED  BY <1>1, <1>2, <1>3, <2>1 DEF CalmInv
<1>4. CASE MCNext
  <2>1. Next /\ calm' = (calm /\ Calmly)
    BY <1>4 DEF MCNext
  <2>2. Calm /\ Calmly => Calm'
    BY <1>1, <1>2, <2>1, CalmStep
  <2> QED  BY <1>1, <1>2, <2>1, <2>2 DEF CalmInv
<1> QED  BY <1>3, <1>4

\* As long as nothing was removed or shuffled and no call was interrupted, the
\* player plays the current track or nothing, goes on to the next one or stops,
\* and no index goes wrong: for queues of any length, between the calls of
\* Queue, OnURL and the player (queue.cpp, gstreamer.cpp).
THEOREM PlayerAlwaysInStep == MCSpec => []PlayerInStep
<1>1. CalmInv => PlayerInStep
  <2> SUFFICES ASSUME CalmInv, calm PROVE PlayerOnCurrent /\ NextIsNext /\ ~undefined
    BY DEF PlayerInStep
  <2>1. IInv /\ Calm /\ TracksAreApart
    BY TrackFacts DEF CalmInv
  <2>2. Quiet => InStep
    BY <2>1 DEF Calm
  <2>3. PlayerOnCurrent
    BY <2>2 DEF PlayerOnCurrent, InStep, OnCurrent
  <2>4. NextIsNext
    <3> SUFFICES ASSUME Quiet, nextUrl # None
                 PROVE  nextUrl = expectedNext /\ cur < Len(order) /\ nextUrl = TrackAt(cur + 1)
      BY DEF NextIsNext
    <3>1. nextUrl = expectedNext /\ nextUrl = NextTrack /\ NextTrack # None
      BY <2>2 DEF InStep, Prepared
    <3>2. Len(order) = Size
      BY <2>1, Shapes
    <3> QED  BY <2>1, <3>1, <3>2 DEF TracksAreApart, NextTrack
  <2> QED  BY <2>1, <2>3, <2>4 DEF Calm
<1> QED  BY CalmInitOk, CalmStepOk, <1>1, PTL DEF MCSpec
=============================================================================
