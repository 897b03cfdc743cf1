------------------------------ MODULE EomLemmas -----------------------------
(***************************************************************************)
(* Lemmas that the proofs share: on sequences that are queues, on          *)
(* sequences put one after the other, and the algebra of EomTransform.     *)
(***************************************************************************)
EXTENDS EomTransform, Sequences, SequencesExt, SequenceTheorems, FiniteSetTheorems,
        WellFoundedInduction, TLAPS

\* RemoveAt (g_queue_delete_link) leaves the other elements, in order.
LEMMA RemoveAtElements ==
  ASSUME NEW S, NEW s \in Seq(S), NEW i \in 1 .. Len(s)
  PROVE  /\ RemoveAt(s, i) \in Seq(S)
         /\ Len(RemoveAt(s, i)) = Len(s) - 1
         /\ \A k \in 1 .. Len(s) - 1 :
              RemoveAt(s, i)[k] = IF k < i THEN s[k] ELSE s[k + 1]
<1> DEFINE a == SubSeq(s, 1, i - 1)
           b == SubSeq(s, i + 1, Len(s))
<1>1. /\ a \in Seq(S) /\ Len(a) = i - 1
      /\ \A k \in 1 .. i - 1 : a[k] = s[k]
  BY SubSeqProperties, LenProperties
<1>2. /\ b \in Seq(S) /\ Len(b) = Len(s) - i
      /\ \A k \in 1 .. Len(s) - i : b[k] = s[i + k]
  <2>1. CASE i = Len(s)
    BY <2>1
  <2>2. CASE i < Len(s)
    BY <2>2, SubSeqProperties, LenProperties
  <2> QED BY <2>1, <2>2, LenProperties
<1> HIDE DEF a, b
<1>3. /\ a \o b \in Seq(S) /\ Len(a \o b) = Len(s) - 1
      /\ \A k \in 1 .. Len(a) + Len(b) :
           (a \o b)[k] = IF k <= Len(a) THEN a[k] ELSE b[k - Len(a)]
  <2>1. a \in Seq(S) /\ b \in Seq(S) /\ Len(a) + Len(b) = Len(s) - 1
    BY <1>1, <1>2, LenProperties
  <2> QED BY <2>1, ConcatProperties
<1>4. \A k \in 1 .. Len(s) - 1 : (a \o b)[k] = IF k < i THEN s[k] ELSE s[k + 1]
  BY <1>1, <1>2, <1>3, LenProperties
<1>5. RemoveAt(s, i) = a \o b
  BY DEF RemoveAt, a, b
<1> QED BY <1>3, <1>4, <1>5

\* InsertAt (gtk_list_store_insert) puts an element before the i-th one.
LEMMA InsertAtElements ==
  ASSUME NEW S, NEW s \in Seq(S), NEW i \in 1 .. Len(s), NEW e \in S,
         NEW r, r = InsertAt(s, i, e)
  PROVE  /\ r \in Seq(S)
         /\ Len(r) = Len(s) + 1
         /\ \A k \in 1 .. Len(s) + 1 :
              r[k] = IF k < i THEN s[k] ELSE IF k = i THEN e ELSE s[k - 1]
<1> DEFINE a == SubSeq(s, 1, i - 1)
           b == SubSeq(s, i, Len(s))
           c == a \o <<e>>
<1>1. /\ a \in Seq(S) /\ Len(a) = i - 1
      /\ \A k \in 1 .. i - 1 : a[k] = s[k]
  BY SubSeqProperties, LenProperties
<1>2. /\ b \in Seq(S) /\ Len(b) = Len(s) + 1 - i
      /\ \A k \in 1 .. Len(s) + 1 - i : b[k] = s[i + k - 1]
  BY SubSeqProperties, LenProperties
<1> HIDE DEF a, b
<1>3. /\ <<e>> \in Seq(S) /\ Len(<<e>>) = 1 /\ <<e>>[1] = e
  OBVIOUS
<1>4. /\ c \in Seq(S) /\ Len(c) = i
      /\ \A k \in 1 .. i : c[k] = IF k < i THEN s[k] ELSE e
  BY <1>1, <1>3, ConcatProperties, LenProperties
<1> HIDE DEF c
<1>5. /\ c \o b \in Seq(S) /\ Len(c \o b) = Len(s) + 1
      /\ \A k \in 1 .. Len(c) + Len(b) : (c \o b)[k] = IF k <= Len(c) THEN c[k] ELSE b[k - Len(c)]
  <2>1. c \in Seq(S) /\ b \in Seq(S) /\ Len(c) + Len(b) = Len(s) + 1
    BY <1>2, <1>4, LenProperties
  <2> QED BY <2>1, ConcatProperties
<1>6. \A k \in 1 .. Len(s) + 1 :
        (c \o b)[k] = IF k < i THEN s[k] ELSE IF k = i THEN e ELSE s[k - 1]
  BY <1>2, <1>4, <1>5, LenProperties
<1>7. r = c \o b
  BY DEF InsertAt, a, b, c
<1> QED BY <1>5, <1>6, <1>7

\* Tail (g_queue_pop_head) moves each element one place forward.
LEMMA TailElements ==
  ASSUME NEW S, NEW s \in Seq(S), s # <<>>
  PROVE  /\ Head(s) \in S /\ Head(s) = s[1]
         /\ Len(s) \in Nat \ {0} /\ DOMAIN s = 1 .. Len(s)
         /\ Tail(s) \in Seq(S) /\ Len(Tail(s)) = Len(s) - 1
         /\ DOMAIN Tail(s) = 1 .. Len(s) - 1
         /\ \A k \in 1 .. Len(s) - 1 : Tail(s)[k] = s[k + 1]
  BY HeadTailProperties, LenProperties, EmptySeq

\* Taking the head of a queue without duplicates takes that element only.
LEMMA TailContains ==
  ASSUME NEW S, NEW s \in Seq(S), s # <<>>, IsInjective(s)
  PROVE  /\ IsInjective(Tail(s))
         /\ Contains(s, Head(s))
         /\ \A x : Contains(Tail(s), x) <=> Contains(s, x) /\ x # Head(s)
<1>1. IsInjective(Tail(s))
  BY TailElements DEF IsInjective
<1>2. Contains(s, Head(s))
  BY TailElements DEF Contains
<1>3. ASSUME NEW x, Contains(Tail(s), x) PROVE Contains(s, x) /\ x # Head(s)
  <2>1. PICK k \in 1 .. Len(s) - 1 : Tail(s)[k] = x
    BY <1>3, TailElements DEF Contains
  <2>2. k + 1 \in 1 .. Len(s) /\ s[k + 1] = x /\ 1 \in 1 .. Len(s) /\ k + 1 # 1
    BY <2>1, TailElements
  <2>3. x # s[1]
    BY <2>2, TailElements DEF IsInjective
  <2> QED BY <2>2, <2>3, TailElements DEF Contains
<1>4. ASSUME NEW x, Contains(s, x), x # Head(s) PROVE Contains(Tail(s), x)
  <2>1. PICK k \in 1 .. Len(s) : s[k] = x
    BY <1>4, TailElements DEF Contains
  <2>2. k - 1 \in 1 .. Len(s) - 1 /\ Tail(s)[k - 1] = x
    BY <2>1, <1>4, TailElements
  <2> QED BY <2>2, TailElements DEF Contains
<1> QED BY <1>1, <1>2, <1>3, <1>4

\* Deleting a link of a queue without duplicates takes that element only.
LEMMA RemoveAtContains ==
  ASSUME NEW S, NEW s \in Seq(S), NEW i \in 1 .. Len(s), IsInjective(s)
  PROVE  /\ IsInjective(RemoveAt(s, i))
         /\ \A x : Contains(RemoveAt(s, i), x) <=> Contains(s, x) /\ x # s[i]
<1> DEFINE r == RemoveAt(s, i)
<1>1. /\ r \in Seq(S) /\ Len(r) = Len(s) - 1 /\ Len(s) \in Nat
      /\ DOMAIN r = 1 .. Len(s) - 1 /\ DOMAIN s = 1 .. Len(s)
      /\ \A k \in 1 .. Len(s) - 1 : r[k] = IF k < i THEN s[k] ELSE s[k + 1]
  BY RemoveAtElements, LenProperties
<1> HIDE DEF r
<1>2. IsInjective(r)
  <2>1. SUFFICES ASSUME NEW a \in 1 .. Len(s) - 1, NEW b \in 1 .. Len(s) - 1, r[a] = r[b]
                 PROVE  a = b
    BY <1>1 DEF IsInjective
  <2>2. PICK c \in 1 .. Len(s) : c = IF a < i THEN a ELSE a + 1
    BY <1>1
  <2>3. PICK d \in 1 .. Len(s) : d = IF b < i THEN b ELSE b + 1
    BY <1>1
  <2>4. s[c] = r[a] /\ s[d] = r[b]
    BY <1>1, <2>2, <2>3
  <2>5. c = d
    BY <1>1, <2>1, <2>4 DEF IsInjective
  <2> QED BY <1>1, <2>2, <2>3, <2>5
<1>3. ASSUME NEW x, Contains(r, x) PROVE Contains(s, x) /\ x # s[i]
  <2>1. PICK k \in 1 .. Len(s) - 1 : r[k] = x
    BY <1>3, <1>1 DEF Contains
  <2>2. PICK m \in 1 .. Len(s) : s[m] = x /\ m # i
    <3>1. CASE k < i
      BY <3>1, <2>1, <1>1
    <3>2. CASE ~(k < i)
      <4>1. k + 1 \in 1 .. Len(s) /\ s[k + 1] = x /\ k + 1 # i
        BY <3>2, <2>1, <1>1
      <4> QED BY <4>1
    <3> QED BY <3>1, <3>2
  <2>3. x # s[i]
    BY <2>2, <1>1 DEF IsInjective
  <2> QED BY <2>2, <2>3 DEF Contains
<1>4. ASSUME NEW x, Contains(s, x), x # s[i] PROVE Contains(r, x)
  <2>1. PICK k \in 1 .. Len(s) : s[k] = x
    BY <1>4 DEF Contains
  <2>2. CASE k < i
    <3>1. k \in 1 .. Len(s) - 1 /\ r[k] = x
      BY <2>1, <2>2, <1>1
    <3> QED BY <3>1, <1>1 DEF Contains
  <2>3. CASE k > i
    <3>1. k - 1 \in 1 .. Len(s) - 1 /\ r[k - 1] = x
      BY <2>1, <2>3, <1>1
    <3> QED BY <3>1, <1>1 DEF Contains
  <2> QED BY <2>1, <2>2, <2>3, <1>4
<1> QED BY <1>2, <1>3, <1>4 DEF r

\* Append (g_queue_push_tail) adds one element behind the others.
LEMMA AppendElements ==
  ASSUME NEW S, NEW s \in Seq(S), NEW e \in S
  PROVE  /\ Append(s, e) \in Seq(S) /\ Len(Append(s, e)) = Len(s) + 1
         /\ Len(s) \in Nat /\ DOMAIN s = 1 .. Len(s)
         /\ DOMAIN Append(s, e) = 1 .. Len(s) + 1
         /\ Append(s, e)[Len(s) + 1] = e
         /\ \A k \in 1 .. Len(s) : Append(s, e)[k] = s[k]
  BY AppendProperties, LenProperties

LEMMA AppendContains ==
  ASSUME NEW S, NEW s \in Seq(S), NEW e \in S
  PROVE  /\ \A x : Contains(Append(s, e), x) <=> Contains(s, x) \/ x = e
         /\ IsInjective(s) /\ ~Contains(s, e) => IsInjective(Append(s, e))
<1>1. ASSUME NEW x, Contains(Append(s, e), x) PROVE Contains(s, x) \/ x = e
  BY <1>1, AppendElements DEF Contains
<1>2. ASSUME NEW x, Contains(s, x) PROVE Contains(Append(s, e), x)
  BY <1>2, AppendElements DEF Contains
<1>3. Contains(Append(s, e), e)
  BY AppendElements DEF Contains
<1>4. ASSUME IsInjective(s), ~Contains(s, e) PROVE IsInjective(Append(s, e))
  BY <1>4, AppendElements DEF IsInjective, Contains
<1> QED BY <1>1, <1>2, <1>3, <1>4
-----------------------------------------------------------------------------
(* The least of some numbers *)

\* The place of the first element that is looked for is a minimum (SelectInSeq).
LEMMA LeastIs ==
  ASSUME NEW S \in SUBSET Nat, S # {}
  PROVE  Min(S) \in S /\ \A y \in S : Min(S) <= y
<1>1. PICK R : R = {ss \in Nat \X Nat : ss[1] < ss[2]}
  OBVIOUS
<1>2. IsWellFoundedOn(R, Nat)
  BY <1>1, NatLessThanWellFounded, Zenon DEF OpToRel
<1>3. PICK x \in S : \A y \in S : ~ (<<y, x>> \in R)
  BY <1>2, WFMin
<1>4. ASSUME NEW y \in S PROVE x <= y
  <2>1. <<y, x>> \in R <=> <<y, x>>[1] < <<y, x>>[2]
    BY <1>1
  <2>2. x \in Nat /\ y \in Nat /\ ~(y < x)
    BY <1>3, <2>1
  <2> QED BY <2>2
<1> QED BY <1>4 DEF Min

-----------------------------------------------------------------------------
(* The elements of a set in their order *)

\* How many of the numbers in S are not above i
Place(S, i) == Cardinality({k \in S : k <= i})

LEMMA PlaceIs ==
  ASSUME NEW S, S \subseteq Int, IsFiniteSet(S), NEW i \in S
  PROVE  /\ Place(S, i) \in 1 .. Cardinality(S)
         /\ \A j \in S : i < j => Place(S, i) < Place(S, j)
<1>1. IsFiniteSet({k \in S : k <= i}) /\ Cardinality({k \in S : k <= i}) <= Cardinality(S)
  BY FS_Subset
<1>2. Cardinality(S) \in Nat /\ Cardinality({k \in S : k <= i}) \in Nat
  BY <1>1, FS_CardinalityType
<1>3. Cardinality({k \in S : k <= i}) # 0
  <2>1. i \in {k \in S : k <= i}
    OBVIOUS
  <2> QED BY <1>1, <2>1, FS_EmptySet
<1>4. ASSUME NEW j \in S, i < j PROVE Place(S, i) < Place(S, j)
  <2> DEFINE a == {k \in S : k <= i}
             b == {k \in S : k <= j}
  <2>1. i \in Int /\ j \in Int /\ \A k \in S : k \in Int
    OBVIOUS
  <2>2. (\A k \in a : k \in b) /\ j \in b /\ j \notin a
    BY <1>4, <2>1
  <2>3. IsFiniteSet(b)
    BY FS_Subset
  <2> HIDE DEF a, b
  <2>4. a \in SUBSET b
    BY <2>2
  <2>5. IsFiniteSet(a) /\ Cardinality(a) <= Cardinality(b) /\ Cardinality(a) # Cardinality(b)
    BY <2>2, <2>3, <2>4, FS_Subset
  <2>6. Cardinality(a) \in Nat /\ Cardinality(b) \in Nat
    BY <2>3, <2>5, FS_CardinalityType
  <2> QED BY <2>5, <2>6 DEF a, b, Place
<1> QED BY <1>1, <1>2, <1>3, <1>4 DEF Place

\* A finite set of numbers can be put in order.
LEMMA OrderExists ==
  ASSUME NEW S, S \subseteq Int, IsFiniteSet(S)
  PROVE  \E s \in SetToSeqs(S) : \A x, y \in DOMAIN s : x < y => s[x] < s[y]
<1> DEFINE n == Cardinality(S)
           r == [i \in S |-> Place(S, i)]
<1>1. n \in Nat /\ IsFiniteSet(1 .. n) /\ Cardinality(1 .. n) = n
  BY FS_CardinalityType, FS_Interval
<1>2. r \in [S -> 1 .. n] /\ \A i, j \in S : i < j => r[i] < r[j]
  BY PlaceIs
<1>3. \A i, j \in S : r[i] = r[j] => i = j
  <2> HIDE DEF r
  <2> SUFFICES ASSUME NEW i \in S, NEW j \in S, i # j PROVE r[i] # r[j]
    OBVIOUS
  <2>1. i < j \/ j < i
    OBVIOUS
  <2>2. r[i] \in 1 .. n /\ r[j] \in 1 .. n
    BY <1>2
  <2> QED BY <1>1, <1>2, <2>1, <2>2
<1> HIDE DEF r
<1>4. r \in Surjection(S, 1 .. n)
  <2>1. r \in Injection(S, 1 .. n)
    BY <1>2, <1>3 DEF Injection, IsInjective
  <2> HIDE DEF n
  <2>2. Cardinality(S) = Cardinality(1 .. n)
    BY <1>1 DEF n
  <2> QED BY <1>1, <2>1, <2>2, FS_Injection
<1> DEFINE s == [x \in 1 .. n |-> CHOOSE i \in S : r[i] = x]
<1> HIDE DEF n
<1>5. \A x \in 1 .. n : s[x] \in S /\ r[s[x]] = x
  BY <1>4 DEF Surjection
<1>6. s \in [1 .. n -> S]
  BY <1>5
<1> HIDE DEF s
<1>7. \A x, y \in 1 .. n : x # y => s[x] # s[y]
  BY <1>5
<1>8. \A x, y \in 1 .. n : x < y => s[x] < s[y]
  <2> SUFFICES ASSUME NEW x \in 1 .. n, NEW y \in 1 .. n, x < y PROVE s[x] < s[y]
    OBVIOUS
  <2>1. s[x] \in S /\ s[y] \in S /\ r[s[x]] = x /\ r[s[y]] = y /\ s[x] # s[y]
    BY <1>5, <1>7
  <2>2. s[y] < s[x] => y < x
    BY <1>2, <2>1
  <2>3. s[x] \in Int /\ s[y] \in Int
    BY <2>1
  <2>4. x \in Int /\ y \in Int
    BY <1>1
  <2> QED BY <2>1, <2>2, <2>3, <2>4
<1> QED BY <1>6, <1>7, <1>8 DEF SetToSeqs, n

\* Such a sequence has all of the set's elements.
LEMMA OrderElements ==
  ASSUME NEW S, IsFiniteSet(S), NEW s \in SetToSeqs(S)
  PROVE  s \in Seq(S) /\ ToSet(s) = S
<1> DEFINE n == Cardinality(S)
<1>1. n \in Nat
  BY FS_CardinalityType
<1>2. s \in [1 .. n -> S] /\ \A x, y \in 1 .. n : x # y => s[x] # s[y]
  BY DEF SetToSeqs
<1>3. s \in Seq(S)
  BY <1>1, <1>2
<1>4. s \in Surjection(1 .. n, S)
  <2>1. s \in Injection(1 .. n, S)
    BY <1>2 DEF Injection, IsInjective
  <2>2. Cardinality(1 .. n) = n /\ IsFiniteSet(1 .. n)
    BY <1>1, FS_Interval
  <2>3. Cardinality(1 .. n) = Cardinality(S)
    BY <2>2
  <2> HIDE DEF n
  <2> QED BY <2>1, <2>2, <2>3, FS_Injection
<1>5. ToSet(s) = S
  BY <1>2, <1>4 DEF ToSet, Surjection
<1> QED BY <1>3, <1>5
-----------------------------------------------------------------------------
(* Sequences put one after the other (FlattenSeq) *)

\* c is a, of length m, and b, of length n, put together.
PutTogether(c, a, b, m, n) ==
  /\ Len(c) = m + n /\ m \in Nat /\ n \in Nat
  /\ \A i \in 1 .. m : c[i] = a[i]
  /\ \A i \in 1 .. n : c[m + i] = b[i]

\* Their elements are those of the one and then of the other.
LEMMA ConcatElements ==
  ASSUME NEW S, NEW a \in Seq(S), NEW b \in Seq(S), NEW m, m = Len(a), NEW n, n = Len(b),
         NEW c, c = a \o b
  PROVE  c \in Seq(S) /\ PutTogether(c, a, b, m, n)
<1>1. m \in Nat /\ n \in Nat
  BY LenProperties
<1>2. /\ a \o b \in Seq(S) /\ Len(a \o b) = Len(a) + Len(b)
      /\ \A i \in 1 .. Len(a) + Len(b) :
           (a \o b)[i] = IF i <= Len(a) THEN a[i] ELSE b[i - Len(a)]
  BY ConcatProperties
<1>3. /\ c \in Seq(S) /\ Len(c) = m + n
      /\ \A i \in 1 .. m + n : c[i] = IF i <= m THEN a[i] ELSE b[i - m]
  BY <1>2
<1>4. \A i \in 1 .. m : c[i] = a[i]
  BY <1>1, <1>3
<1>5. ASSUME NEW i \in 1 .. n PROVE c[m + i] = b[i]
  <2>1. m + i \in 1 .. m + n /\ ~(m + i <= m) /\ (m + i) - m = i
    BY <1>1
  <2> QED BY <1>3, <2>1
<1> QED BY <1>1, <1>3, <1>4, <1>5 DEF PutTogether

\* A set of numbers that has the first one, and with each the next, has them all.
LEMMA Upwards ==
  ASSUME NEW n \in Nat, NEW S, 0 \in S, \A i \in 0 .. n : i \in S /\ i < n => i + 1 \in S
  PROVE  \A i \in 0 .. n : i \in S
<1> SUFFICES ASSUME NEW j \in 0 .. n, j \notin S PROVE FALSE
  OBVIOUS
<1>1. PICK T : T = {i \in 0 .. n : i \notin S}
  OBVIOUS
<1>2. T \in SUBSET Nat /\ T # {}
  BY <1>1
<1>3. PICK m : m \in T /\ \A y \in T : m <= y
  BY <1>2, LeastIs
<1>4. m \in 0 .. n /\ m \notin S /\ m # 0
  BY <1>1, <1>3
<1>5. m - 1 \in 0 .. n /\ m - 1 \notin T /\ m - 1 < n
  BY <1>1, <1>2, <1>3, <1>4
<1>6. m - 1 \in S /\ (m - 1) + 1 = m
  BY <1>1, <1>4, <1>5
<1> QED BY <1>4, <1>5, <1>6

Flattens(f, seqs, n) == f = [i \in 1 .. n |-> IF i = 1 THEN seqs[i] ELSE f[i - 1] \o seqs[i]]

Begins(g, f, n) == \A i \in 1 .. n : g[i] = f[i]

\* The recursive function there is one of.
LEMMA FlattensExists ==
  ASSUME NEW seqs, NEW n \in Nat
  PROVE  \E f : Flattens(f, seqs, n)
<1>1. PICK S : S = {m \in 0 .. n : \E f : Flattens(f, seqs, m)}
  OBVIOUS
<1>2. 0 \in S
  <2>1. PICK f : f = [i \in 1 .. 0 |-> 0]
    OBVIOUS
  <2>2. Flattens(f, seqs, 0)
    BY <2>1 DEF Flattens
  <2> QED BY <1>1, <2>2
<1>3. ASSUME NEW m \in 0 .. n, m \in S, m < n PROVE m + 1 \in S
  <2>1. PICK f : Flattens(f, seqs, m)
    BY <1>1, <1>3
  <2>2. PICK g : g = [i \in 1 .. m + 1 |->
                        IF i <= m THEN f[i] ELSE IF m = 0 THEN seqs[1] ELSE f[m] \o seqs[m + 1]]
    OBVIOUS
  <2>3. \A i \in 1 .. m : f[i] = IF i = 1 THEN seqs[i] ELSE f[i - 1] \o seqs[i]
    BY <2>1 DEF Flattens
  <2>4. ASSUME NEW i \in 1 .. m + 1
        PROVE  g[i] = IF i = 1 THEN seqs[i] ELSE g[i - 1] \o seqs[i]
    <3>1. CASE i <= m
      <4>1. i \in 1 .. m /\ g[i] = f[i] /\ (i # 1 => g[i - 1] = f[i - 1])
        BY <2>2, <3>1
      <4> QED BY <2>3, <4>1
    <3>2. CASE ~(i <= m)
      <4>1. i = m + 1
        BY <3>2
      <4>2. g[i] = IF m = 0 THEN seqs[1] ELSE f[m] \o seqs[m + 1]
        BY <2>2, <3>2
      <4>3. m # 0 => g[i - 1] = f[m]
        BY <2>2, <4>1
      <4> QED BY <4>1, <4>2, <4>3
    <3> QED BY <3>1, <3>2
  <2>5. g = [i \in 1 .. m + 1 |-> IF i = 1 THEN seqs[i] ELSE g[i - 1] \o seqs[i]]
    BY <2>2, <2>4
  <2>6. Flattens(g, seqs, m + 1)
    BY <2>5 DEF Flattens
  <2> QED BY <1>1, <1>3, <2>6
<1>4. \A i \in 0 .. n : i \in S
  BY <1>2, <1>3, Upwards
<1> QED BY <1>1, <1>4

\* And of a beginning it is the beginning.
LEMMA FlattensBegins ==
  ASSUME NEW seqs, NEW n \in Nat, NEW f, Flattens(f, seqs, n),
         NEW begin, NEW m \in 0 .. n, NEW g, Flattens(g, begin, m),
         Begins(begin, seqs, m)
  PROVE  Begins(g, f, m)
<1>1. \A i \in 1 .. n : f[i] = IF i = 1 THEN seqs[i] ELSE f[i - 1] \o seqs[i]
  BY DEF Flattens
<1>2. \A i \in 1 .. m : g[i] = IF i = 1 THEN begin[i] ELSE g[i - 1] \o begin[i]
  BY DEF Flattens
<1>3. PICK S : S = {i \in 0 .. m : i = 0 \/ g[i] = f[i]}
  OBVIOUS
<1>4. 0 \in S
  BY <1>3
<1>5. ASSUME NEW i \in 0 .. m, i \in S, i < m PROVE i + 1 \in S
  <2>1. i + 1 \in 1 .. m /\ i + 1 \in 1 .. n /\ (i + 1) - 1 = i
    BY <1>5
  <2>2. CASE i = 0
    BY <1>1, <1>2, <1>3, <2>1, <2>2 DEF Begins
  <2>3. CASE i # 0
    <3>1. g[i] = f[i] /\ begin[i + 1] = seqs[i + 1]
      BY <1>3, <1>5, <2>1, <2>3 DEF Begins
    <3>2. g[i + 1] = f[i + 1]
      BY <1>1, <1>2, <2>1, <2>3, <3>1
    <3> QED BY <1>3, <2>1, <3>2
  <2> QED BY <2>2, <2>3
<1>6. \A i \in 0 .. m : i \in S
  BY <1>4, <1>5, Upwards
<1> QED BY <1>3, <1>6 DEF Begins

\* What FlattenSeq chooses is one of these functions.
LEMMA FlattenIs ==
  ASSUME NEW seqs, Len(seqs) \in Nat \ {0}
  PROVE  \E f : Flattens(f, seqs, Len(seqs)) /\ FlattenSeq(seqs) = f[Len(seqs)]
<1>1. PICK f : Flattens(f, seqs, Len(seqs))
  BY FlattensExists
<1>2. PICK g : g = CHOOSE h : Flattens(h, seqs, Len(seqs))
  OBVIOUS
<1>3. Flattens(g, seqs, Len(seqs))
  BY <1>1, <1>2
<1>4. FlattenSeq(seqs) = g[Len(seqs)]
  BY <1>2 DEF FlattenSeq, Flattens
<1> QED BY <1>3, <1>4

\* The sequences from the first to the k-th, one after the other
Joined(seqs, k) == FlattenSeq([n \in 1 .. k |-> seqs[n]])

\* Sequences are joined one by one.
LEMMA JoinedIs ==
  ASSUME NEW S, NEW seqs \in Seq(Seq(S))
  PROVE  /\ Joined(seqs, 0) \in Seq(S) /\ Len(Joined(seqs, 0)) = 0 /\ Joined(seqs, Len(seqs)) = FlattenSeq(seqs)
         /\ \A k \in 1 .. Len(seqs) : /\ Joined(seqs, k) = Joined(seqs, k - 1) \o seqs[k]
                                      /\ Joined(seqs, k) \in Seq(S)
<1>0. PICK last : last = Len(seqs)
  OBVIOUS
<1>1. last \in Nat /\ seqs = [n \in 1 .. last |-> seqs[n]]
      /\ \A k \in 1 .. last : seqs[k] \in Seq(S)
  BY <1>0, LenProperties, ElementOfSeq
<1>2. PICK all : Flattens(all, seqs, last)
  BY <1>1, FlattensExists
<1>3. \A i \in 1 .. last : all[i] = IF i = 1 THEN seqs[i] ELSE all[i - 1] \o seqs[i]
  BY <1>2 DEF Flattens
<1>4. PICK none : none = Joined(seqs, 0) /\ none = <<>> /\ none \in Seq(S) /\ Len(none) = 0
  <2>1. PICK s : s = [n \in 1 .. 0 |-> seqs[n]]
    OBVIOUS
  <2>2. s = <<>> /\ Len(s) = 0
    BY <2>1
  <2>3. Joined(seqs, 0) = FlattenSeq(s)
    BY <2>1 DEF Joined
  <2>4. FlattenSeq(s) = s
    BY <2>2 DEF FlattenSeq
  <2>5. s \in Seq(S)
    BY <2>2
  <2> QED BY <2>2, <2>3, <2>4, <2>5
<1>5. ASSUME NEW k \in 1 .. last PROVE Joined(seqs, k) = all[k]
  <2>1. PICK s : s = [n \in 1 .. k |-> seqs[n]]
    OBVIOUS
  <2>2. Len(s) = k /\ k \in Nat \ {0} /\ k \in 0 .. last /\ Len(s) \in Nat \ {0}
    BY <1>1, <2>1
  <2>3. PICK f : Flattens(f, s, Len(s)) /\ FlattenSeq(s) = f[Len(s)]
    BY <2>2, FlattenIs
  <2>4. Begins(s, seqs, k)
    BY <2>1 DEF Begins
  <2>5. Flattens(f, s, k)
    BY <2>2, <2>3
  <2>6. Begins(f, all, k)
    <3>1. last \in Nat /\ k \in 0 .. last
      BY <1>1, <2>2
    <3> QED BY <1>2, <2>4, <2>5, <3>1, FlattensBegins
  <2>7. FlattenSeq(s) = f[k] /\ f[k] = all[k]
    BY <2>2, <2>3, <2>6 DEF Begins
  <2> QED BY <2>1, <2>7 DEF Joined
<1>6. ASSUME NEW k \in 1 .. last
      PROVE  Joined(seqs, k) = Joined(seqs, k - 1) \o seqs[k]
  <2>1. CASE k = 1
    <3>1. Joined(seqs, 1) = seqs[1]
      BY <1>3, <1>5, <2>1
    <3>2. none \o seqs[1] = seqs[1]
      <4>1. PICK first : first = seqs[1]
        OBVIOUS
      <4>2. first \in Seq(S)
        BY <1>1, <2>1, <4>1
      <4>3. none \o first = first
        BY <1>4, <4>2
      <4> QED BY <4>1, <4>3
    <3>3. Joined(seqs, k - 1) = none
      BY <1>4, <2>1
    <3> QED BY <2>1, <3>1, <3>2, <3>3
  <2>2. CASE k # 1
    <3>1. k - 1 \in 1 .. last
      BY <1>1, <2>2
    <3>2. Joined(seqs, k - 1) = all[k - 1] /\ Joined(seqs, k) = all[k]
      BY <1>5, <3>1
    <3> QED BY <1>3, <2>2, <3>2
  <2> QED BY <2>1, <2>2
<1>7. PICK T : T = {i \in 0 .. last : Joined(seqs, i) \in Seq(S)}
  OBVIOUS
<1>8. 0 \in T
  BY <1>1, <1>4, <1>7
<1>9. ASSUME NEW i \in 0 .. last, i \in T, i < last PROVE i + 1 \in T
  <2>1. i + 1 \in 1 .. last /\ (i + 1) - 1 = i /\ i + 1 \in 0 .. last
    BY <1>1, <1>9
  <2>2. PICK a, b : a = Joined(seqs, i) /\ b = seqs[i + 1]
    OBVIOUS
  <2>3. a \in Seq(S) /\ b \in Seq(S) /\ Joined(seqs, i + 1) = a \o b
    BY <1>1, <1>6, <1>7, <1>9, <2>1, <2>2
  <2>4. a \o b \in Seq(S)
    BY <2>3, ConcatProperties
  <2> QED BY <1>7, <2>1, <2>3, <2>4
<1>10. \A i \in 0 .. last : i \in T
  BY <1>1, <1>8, <1>9, Upwards
<1>11. Joined(seqs, last) = FlattenSeq(seqs)
  BY <1>0, <1>1 DEF Joined
<1>12. ASSUME NEW k \in 1 .. last
       PROVE  Joined(seqs, k) = Joined(seqs, k - 1) \o seqs[k] /\ Joined(seqs, k) \in Seq(S)
  <2>1. k \in 0 .. last
    BY <1>1
  <2> QED BY <1>6, <1>7, <1>10, <2>1
<1>13. Joined(seqs, 0) \in Seq(S) /\ Len(Joined(seqs, 0)) = 0
  BY <1>4
<1> QED BY <1>0, <1>11, <1>12, <1>13

\* The sequences are one after the other in all.
Placed(seqs, all) ==
  /\ Len(Joined(seqs, Len(seqs))) = Len(all)
  /\ \A k \in 1 .. Len(seqs) :
       /\ Len(Joined(seqs, k - 1)) \in Nat
       /\ Len(Joined(seqs, k)) = Len(Joined(seqs, k - 1)) + Len(seqs[k])
       /\ Len(Joined(seqs, k)) <= Len(all)
       /\ \A n \in 1 .. Len(seqs[k]) : all[Len(Joined(seqs, k - 1)) + n] = seqs[k][n]

\* What has been put together stays, and each sequence is where its predecessors end.
LEMMA JoinedKeeps ==
  ASSUME NEW S, NEW seqs \in Seq(Seq(S)), NEW all, all = FlattenSeq(seqs)
  PROVE  all \in Seq(S) /\ Placed(seqs, all)
<1>0. PICK last : last = Len(seqs)
  OBVIOUS
<1>1. last \in Nat /\ \A k \in 1 .. last : seqs[k] \in Seq(S)
  BY <1>0, LenProperties, ElementOfSeq
<1>2. PICK j : j = [k \in 0 .. last |-> Joined(seqs, k)]
  OBVIOUS
<1>3. /\ j[0] \in Seq(S) /\ Len(j[0]) = 0 /\ j[last] = all
      /\ \A k \in 1 .. last : j[k] = j[k - 1] \o seqs[k] /\ j[k] \in Seq(S)
  <2>1. /\ Joined(seqs, 0) \in Seq(S) /\ Len(Joined(seqs, 0)) = 0
        /\ Joined(seqs, Len(seqs)) = FlattenSeq(seqs)
        /\ \A k \in 1 .. Len(seqs) : /\ Joined(seqs, k) = Joined(seqs, k - 1) \o seqs[k]
                                     /\ Joined(seqs, k) \in Seq(S)
    BY JoinedIs
  <2>2. \A k \in 0 .. last : j[k] = Joined(seqs, k)
    BY <1>2
  <2>3. 0 \in 0 .. last /\ last \in 0 .. last
        /\ \A k \in 1 .. last : k \in 0 .. last /\ k - 1 \in 0 .. last
    BY <1>1
  <2> QED BY <1>0, <2>1, <2>2, <2>3
<1>4. \A k \in 0 .. last : j[k] \in Seq(S) /\ Len(j[k]) \in Nat
  <2>1. \A k \in 0 .. last : k = 0 \/ k \in 1 .. last
    BY <1>1
  <2> QED BY <1>3, <2>1, LenProperties
<1>5. ASSUME NEW k \in 1 .. last
      PROVE  /\ Len(j[k]) = Len(j[k - 1]) + Len(seqs[k])
             /\ \A n \in 1 .. Len(j[k - 1]) : j[k][n] = j[k - 1][n]
             /\ \A n \in 1 .. Len(seqs[k]) : j[k][Len(j[k - 1]) + n] = seqs[k][n]
             /\ Len(seqs[k]) \in Nat /\ Len(j[k - 1]) \in Nat
  <2>1. PICK a, b : a = j[k - 1] /\ b = seqs[k]
    OBVIOUS
  <2>2. k - 1 \in 0 .. last
    BY <1>1
  <2>3. a \in Seq(S) /\ b \in Seq(S) /\ j[k] = a \o b
    BY <1>1, <1>3, <1>4, <2>1, <2>2
  <2>4. Len(a) \in Nat /\ Len(b) \in Nat
    BY <2>3, LenProperties
  <2>5. /\ Len(a \o b) = Len(a) + Len(b)
        /\ \A n \in 1 .. Len(a) + Len(b) :
             (a \o b)[n] = IF n <= Len(a) THEN a[n] ELSE b[n - Len(a)]
    BY <2>3, ConcatProperties
  <2>6. \A n \in 1 .. Len(a) : (a \o b)[n] = a[n]
    BY <2>4, <2>5
  <2>7. \A n \in 1 .. Len(b) : (a \o b)[Len(a) + n] = b[n]
    <3>1. ASSUME NEW n \in 1 .. Len(b) PROVE (a \o b)[Len(a) + n] = b[n]
      <4>1. Len(a) + n \in 1 .. Len(a) + Len(b) /\ ~(Len(a) + n <= Len(a))
            /\ (Len(a) + n) - Len(a) = n
        BY <2>4
      <4> QED BY <2>5, <4>1
    <3> QED BY <3>1
  <2> QED BY <2>1, <2>3, <2>4, <2>5, <2>6, <2>7
<1>6. ASSUME NEW k \in 0 .. last
      PROVE  Len(j[k]) <= Len(all) /\ \A n \in 1 .. Len(j[k]) : all[n] = j[k][n]
  <2>1. PICK T : T = {i \in 0 .. last : i >= k => /\ Len(j[k]) <= Len(j[i])
                                                  /\ \A n \in 1 .. Len(j[k]) : j[i][n] = j[k][n]}
    OBVIOUS
  <2>2. 0 \in T
    <3>1. 0 >= k => k = 0
      BY <1>1
    <3>2. 0 \in 0 .. last
      BY <1>1
    <3> QED BY <1>4, <2>1, <3>1, <3>2
  <2>3. ASSUME NEW i \in 0 .. last, i \in T, i < last PROVE i + 1 \in T
    <3>1. i + 1 \in 1 .. last /\ i + 1 \in 0 .. last /\ (i + 1) - 1 = i
      BY <1>1, <2>3
    <3>2. CASE i + 1 > k
      <4>1. i >= k
        BY <1>1, <3>2
      <4>2. Len(j[k]) <= Len(j[i]) /\ \A n \in 1 .. Len(j[k]) : j[i][n] = j[k][n]
        BY <2>1, <2>3, <4>1
      <4>3. PICK m \in 1 .. last : m = i + 1 /\ m - 1 = i
        BY <3>1
      <4>4. PICK a, b, c : a = j[k] /\ b = j[i] /\ c = j[m]
        OBVIOUS
      <4>5. PICK x, y, z, more : x = Len(a) /\ y = Len(b) /\ z = Len(c) /\ more = Len(seqs[m])
        OBVIOUS
      <4>6. z = y + more /\ more \in Nat /\ y \in Nat /\ \A n \in 1 .. y : c[n] = b[n]
        BY <1>5, <4>3, <4>4, <4>5, ZenonT(30)
      <4>7. x \in Nat /\ x <= y /\ \A n \in 1 .. x : b[n] = a[n]
        BY <1>4, <4>2, <4>4, <4>5
      <4>8. x <= z /\ \A n \in 1 .. x : c[n] = a[n]
        BY <4>6, <4>7
      <4>9. Len(j[k]) <= Len(j[m]) /\ \A n \in 1 .. Len(j[k]) : j[m][n] = j[k][n]
        BY <4>4, <4>5, <4>8
      <4> QED BY <2>1, <3>1, <4>3, <4>9
    <3>3. CASE ~(i + 1 > k)
      <4>1. i + 1 >= k => i + 1 = k
        BY <1>1, <3>3
      <4> QED BY <1>4, <2>1, <3>1, <4>1
    <3> QED BY <3>2, <3>3
  <2>4. \A i \in 0 .. last : i \in T
    BY <1>1, <2>2, <2>3, Upwards
  <2>5. last \in T /\ last >= k
    BY <1>1, <2>4
  <2> QED BY <1>3, <2>1, <2>5
<1>7. all \in Seq(S)
  <2>1. last \in 0 .. last
    BY <1>1
  <2> QED BY <1>3, <1>4, <2>1
<1>8. \A k \in 0 .. last : j[k] = Joined(seqs, k)
  BY <1>2
<1>9. ASSUME NEW k \in 1 .. last
      PROVE  /\ Len(Joined(seqs, k - 1)) \in Nat
             /\ Len(Joined(seqs, k)) = Len(Joined(seqs, k - 1)) + Len(seqs[k])
             /\ Len(Joined(seqs, k)) <= Len(all)
             /\ \A n \in 1 .. Len(seqs[k]) : all[Len(Joined(seqs, k - 1)) + n] = seqs[k][n]
  <2>1. k \in 0 .. last /\ k - 1 \in 0 .. last
    BY <1>1
  <2>2. j[k] = Joined(seqs, k) /\ j[k - 1] = Joined(seqs, k - 1)
    BY <1>8, <2>1
  <2>3. Len(j[k]) = Len(j[k - 1]) + Len(seqs[k]) /\ Len(seqs[k]) \in Nat /\ Len(j[k - 1]) \in Nat
    BY <1>5
  <2>4. Len(j[k]) <= Len(all) /\ \A n \in 1 .. Len(j[k]) : all[n] = j[k][n]
    BY <1>6, <2>1
  <2>5. ASSUME NEW n \in 1 .. Len(seqs[k]) PROVE all[Len(j[k - 1]) + n] = seqs[k][n]
    <3>1. PICK x, y, z : x = Len(j[k - 1]) /\ y = Len(seqs[k]) /\ z = Len(j[k])
      OBVIOUS
    <3>2. x + n \in 1 .. z
      <4>1. x \in Nat /\ y \in Nat /\ z = x + y /\ n \in 1 .. y
        BY <2>3, <2>5, <3>1
      <4> QED BY <4>1
    <3>3. j[k][x + n] = seqs[k][n]
      BY <1>5, <3>1
    <3> QED BY <2>4, <3>1, <3>2, <3>3
  <2> QED BY <2>2, <2>3, <2>4, <2>5
<1>10. Len(Joined(seqs, Len(seqs))) = Len(all)
  <2>1. last \in 0 .. last
    BY <1>1
  <2> QED BY <1>0, <1>3, <1>8, <2>1
<1> QED BY <1>0, <1>7, <1>9, <1>10 DEF Placed

-----------------------------------------------------------------------------
(* The algebra of EomTransform: the eight types are a group, so whatever   *)
(* the user does has a type; and that type is found.                       *)

(* The eight matrices, written out. *)
LEMMA NewMatrices ==
  /\ New("NONE") = Matrix(1, 0, 0, 1)
  /\ New("ROT_90") = Matrix(0, 1, -1, 0)
  /\ New("ROT_180") = Matrix(-1, 0, 0, -1)
  /\ New("ROT_270") = Matrix(0, -1, 1, 0)
  /\ New("FLIP_HORIZONTAL") = Matrix(-1, 0, 0, 1)
  /\ New("FLIP_VERTICAL") = Matrix(1, 0, 0, -1)
  /\ New("TRANSPOSE") = Matrix(0, 1, 1, 0)
  /\ New("TRANSVERSE") = Matrix(0, -1, -1, 0)
  BY DEF New, Matrix, Identity, Rotate, FlipNew, Flip, Compose, Multiply

(* A unit has one entry 1 or -1 in each row and column. *)
Diagonal == {Matrix(a, 0, 0, b) : a \in {-1, 1}, b \in {-1, 1}}
Antidiagonal == {Matrix(0, a, b, 0) : a \in {-1, 1}, b \in {-1, 1}}

LEMMA UnitsAre == Units = Diagonal \cup Antidiagonal
  <1>1. Units \subseteq Diagonal \cup Antidiagonal
    BY NewMatrices DEF Units, Types, Diagonal, Antidiagonal
  <1>2. Diagonal \subseteq Units
    BY NewMatrices DEF Units, Types, Diagonal
  <1>3. Antidiagonal \subseteq Units
    BY NewMatrices DEF Units, Types, Antidiagonal
  <1> QED BY <1>1, <1>2, <1>3

LEMMA MatrixProducts ==
  ASSUME NEW a \in Int, NEW b \in Int, NEW c \in Int, NEW d \in Int
  PROVE  /\ Multiply(Matrix(a, 0, 0, b), Matrix(c, 0, 0, d)) = Matrix(a * c, 0, 0, b * d)
         /\ Multiply(Matrix(a, 0, 0, b), Matrix(0, c, d, 0)) = Matrix(0, a * c, b * d, 0)
         /\ Multiply(Matrix(0, a, b, 0), Matrix(c, 0, 0, d)) = Matrix(0, a * d, b * c, 0)
         /\ Multiply(Matrix(0, a, b, 0), Matrix(0, c, d, 0)) = Matrix(a * d, 0, 0, b * c)
  BY DEF Multiply, Matrix

LEMMA SignTimesSign ==
  ASSUME NEW a \in {-1, 1}, NEW b \in {-1, 1}
  PROVE  a * b \in {-1, 1}
  OBVIOUS

(* Closure: a composition of transforms is one of the eight. *)
LEMMA ComposeUnits ==
  ASSUME NEW s \in Units, NEW t \in Units
  PROVE  Compose(s, t) \in Units
  <1>1. CASE s \in Diagonal
    <2>1. PICK a \in {-1, 1}, b \in {-1, 1} : s = Matrix(a, 0, 0, b)
      BY <1>1 DEF Diagonal
    <2>2. CASE t \in Diagonal
      <3>1. PICK c \in {-1, 1}, d \in {-1, 1} : t = Matrix(c, 0, 0, d)
        BY <2>2 DEF Diagonal
      <3>2. Compose(s, t) = Matrix(a * c, 0, 0, b * d)
        BY <2>1, <3>1, MatrixProducts DEF Compose
      <3> QED BY <3>2, SignTimesSign, UnitsAre DEF Diagonal
    <2>3. CASE t \in Antidiagonal
      <3>1. PICK c \in {-1, 1}, d \in {-1, 1} : t = Matrix(0, c, d, 0)
        BY <2>3 DEF Antidiagonal
      <3>2. Compose(s, t) = Matrix(0, a * c, b * d, 0)
        BY <2>1, <3>1, MatrixProducts DEF Compose
      <3> QED BY <3>2, SignTimesSign, UnitsAre DEF Antidiagonal
    <2> QED BY <2>2, <2>3, UnitsAre
  <1>2. CASE s \in Antidiagonal
    <2>1. PICK a \in {-1, 1}, b \in {-1, 1} : s = Matrix(0, a, b, 0)
      BY <1>2 DEF Antidiagonal
    <2>2. CASE t \in Diagonal
      <3>1. PICK c \in {-1, 1}, d \in {-1, 1} : t = Matrix(c, 0, 0, d)
        BY <2>2 DEF Diagonal
      <3>2. Compose(s, t) = Matrix(0, a * d, b * c, 0)
        BY <2>1, <3>1, MatrixProducts DEF Compose
      <3> QED BY <3>2, SignTimesSign, UnitsAre DEF Antidiagonal
    <2>3. CASE t \in Antidiagonal
      <3>1. PICK c \in {-1, 1}, d \in {-1, 1} : t = Matrix(0, c, d, 0)
        BY <2>3 DEF Antidiagonal
      <3>2. Compose(s, t) = Matrix(a * d, 0, 0, b * c)
        BY <2>1, <3>1, MatrixProducts DEF Compose
      <3> QED BY <3>2, SignTimesSign, UnitsAre DEF Diagonal
    <2> QED BY <2>2, <2>3, UnitsAre
  <1> QED BY <1>1, <1>2, UnitsAre

(* Inverses: the reverse of a transform is one of the eight and undoes it. *)
LEMMA ReverseUnits ==
  ASSUME NEW t \in Units
  PROVE  /\ Reversed(t) \in Units
         /\ Compose(t, Reversed(t)) = Identity
         /\ Compose(Reversed(t), t) = Identity
  BY UnitsAre DEF Diagonal, Antidiagonal, Reversed, Invert, Det, Compose,
     Multiply, Matrix, Identity

(* The type of each of the eight matrices names the matrix. *)
LEMMA TypeOfUnit ==
  ASSUME NEW type \in Types
  PROVE  TransformType(New(type)) = type
  BY NewMatrices DEF Types, TransformType, Rotate, Flip, Identity, Multiply, Matrix

LEMMA AutorotateUnits ==
  ASSUME NEW o \in 1 .. 8
  PROVE  New(AutorotateType(o)) \in Units
  <1>1. AutorotateType(o) \in Types
    BY DEF AutorotateType, Types
  <1> QED BY <1>1 DEF Units

LEMMA ComposeAssociative ==
  ASSUME NEW s \in Units, NEW t \in Units, NEW u \in Units
  PROVE  Compose(Compose(s, t), u) = Compose(s, Compose(t, u))
  <1> DEFINE Entries(m) == /\ m.xx \in Int /\ m.yx \in Int /\ m.xy \in Int /\ m.yy \in Int
                           /\ m = Matrix(m.xx, m.yx, m.xy, m.yy)
  <1>1. \A m \in Units : m \in {Matrix(1, 0, 0, 1), Matrix(0, 1, -1, 0), Matrix(-1, 0, 0, -1),
                                Matrix(0, -1, 1, 0), Matrix(-1, 0, 0, 1), Matrix(1, 0, 0, -1),
                                Matrix(0, 1, 1, 0), Matrix(0, -1, -1, 0)}
    BY NewMatrices DEF Units, Types
  <1>2. \A m \in Units : Entries(m)
    BY <1>1 DEF Matrix
  <1> QED BY <1>2 DEF Compose, Multiply, Matrix

LEMMA ComposeIdentity ==
  ASSUME NEW t \in Units
  PROVE  Compose(t, Identity) = t /\ Compose(Identity, t) = t
  BY UnitsAre DEF Diagonal, Antidiagonal, Compose, Multiply, Matrix, Identity

LEMMA IdentityIsUnit == Identity \in Units
  BY DEF Units, Types, New
=============================================================================
