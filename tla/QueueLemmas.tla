----------------------------- MODULE QueueLemmas -----------------------------
(***************************************************************************)
(* What the sequence operations that the queue commands are built from     *)
(* return: element by element, and as members of Seq(S).  And that a set   *)
(* of numbers has a least element, which stands in for induction.          *)
(***************************************************************************)
EXTENDS SequencesExt, Integers, WellFoundedInduction, TLAPS

\* A sequence, an element and a sequence, one after the other.
LEMMA AroundProperties ==
  ASSUME NEW S, NEW e \in S, NEW a \in Seq(S), NEW c \in Seq(S)
  PROVE  /\ (a \o <<e>>) \o c \in Seq(S)
         /\ Len((a \o <<e>>) \o c) = Len(a) + 1 + Len(c)
         /\ \A j \in 1..Len(a) + 1 + Len(c) : ((a \o <<e>>) \o c)[j] =
              IF j <= Len(a) THEN a[j]
              ELSE IF j = Len(a) + 1 THEN e ELSE c[j - Len(a) - 1]
<1>1. a \o <<e>> \in Seq(S) /\ Len(a \o <<e>>) = Len(a) + 1
  OBVIOUS
<1>2. \A j \in 1..Len(a) + 1 : (a \o <<e>>)[j] = IF j <= Len(a) THEN a[j] ELSE e
  OBVIOUS
<1> QED BY <1>1, <1>2

\* InsertAt makes room for e at index i (VecDeque::insert).
LEMMA InsertAtProperties ==
  ASSUME NEW S, NEW q \in Seq(S), NEW e \in S, NEW i \in 1..Len(q) + 1
  PROVE  /\ InsertAt(q, i, e) \in Seq(S)
         /\ Len(InsertAt(q, i, e)) = Len(q) + 1
         /\ \A j \in 1..Len(q) + 1 :
              InsertAt(q, i, e)[j] = IF j < i THEN q[j]
                                     ELSE IF j = i THEN e ELSE q[j - 1]
<1> DEFINE a == SubSeq(q, 1, i - 1)
           c == SubSeq(q, i, Len(q))
<1>a. a \in Seq(S) /\ c \in Seq(S)
  OBVIOUS
<1>l. Len(a) = i - 1 /\ Len(c) = Len(q) - i + 1
  OBVIOUS
<1>1. \A j \in 1..i - 1 : a[j] = q[j]
  OBVIOUS
<1>2. \A j \in 1..Len(q) - i + 1 : c[j] = q[i + j - 1]
  OBVIOUS
<1>3. InsertAt(q, i, e) = (a \o <<e>>) \o c
  BY DEF InsertAt
<1> HIDE DEF a, c
<1>4. /\ InsertAt(q, i, e) \in Seq(S) /\ Len(InsertAt(q, i, e)) = Len(q) + 1
      /\ \A j \in 1..Len(q) + 1 : InsertAt(q, i, e)[j] =
           IF j <= Len(a) THEN a[j]
           ELSE IF j = Len(a) + 1 THEN e ELSE c[j - Len(a) - 1]
  BY <1>a, <1>l, <1>3, AroundProperties
<1>5. ASSUME NEW j \in 1..Len(q) + 1
      PROVE  InsertAt(q, i, e)[j] = IF j < i THEN q[j]
                                    ELSE IF j = i THEN e ELSE q[j - 1]
  <2>1. CASE j < i
    BY <2>1, <1>4, <1>l, <1>1
  <2>2. CASE j = i
    BY <2>2, <1>4, <1>l
  <2>3. CASE j > i
    BY <2>3, <1>4, <1>l, <1>2
  <2> QED BY <2>1, <2>2, <2>3
<1> QED BY <1>4, <1>5

\* Cutting the elements b+1 .. e out of q (VecDeque::drain).
LEMMA CutProperties ==
  ASSUME NEW S, NEW q \in Seq(S), NEW b \in 0..Len(q), NEW e \in b..Len(q)
  PROVE  LET r == SubSeq(q, 1, b) \o SubSeq(q, e + 1, Len(q))
         IN /\ r \in Seq(S)
            /\ Len(r) = Len(q) - (e - b)
            /\ \A j \in 1..Len(r) : r[j] = IF j <= b THEN q[j] ELSE q[j + (e - b)]
<1> DEFINE a == SubSeq(q, 1, b)
           c == SubSeq(q, e + 1, Len(q))
           r == a \o c
<1>a. a \in Seq(S) /\ c \in Seq(S)
  OBVIOUS
<1>l. Len(a) = b /\ Len(c) = Len(q) - e
  OBVIOUS
<1>1. \A j \in 1..b : a[j] = q[j]
  OBVIOUS
<1>2. \A j \in 1..Len(q) - e : c[j] = q[e + j]
  OBVIOUS
<1> HIDE DEF a, c
<1>3. /\ r \in Seq(S) /\ Len(r) = Len(a) + Len(c)
      /\ \A j \in 1..Len(a) + Len(c) : r[j] = IF j <= Len(a) THEN a[j] ELSE c[j - Len(a)]
  BY <1>a
<1> HIDE DEF r
<1>4. ASSUME NEW j \in 1..Len(r)
      PROVE  r[j] = IF j <= b THEN q[j] ELSE q[j + (e - b)]
  <2>1. CASE j <= b
    BY <2>1, <1>3, <1>l, <1>1
  <2>2. CASE j > b
    <3>1. j - b \in 1..Len(q) - e /\ e + (j - b) = j + (e - b)
      BY <2>2, <1>3, <1>l
    <3>2. c[j - b] = q[j + (e - b)]
      BY <3>1, <1>2
    <3>3. r[j] = c[j - b]
      BY <2>2, <1>3, <1>l
    <3> QED BY <2>2, <3>2, <3>3
  <2> QED BY <2>1, <2>2
<1>5. r \in Seq(S) /\ Len(r) = Len(q) - (e - b)
  BY <1>3, <1>l
<1> QED BY <1>4, <1>5 DEF a, c, r

\* RemoveAt closes the gap at index i (VecDeque::remove).
LEMMA RemoveAtProperties ==
  ASSUME NEW S, NEW q \in Seq(S), NEW i \in 1..Len(q)
  PROVE  /\ RemoveAt(q, i) \in Seq(S)
         /\ Len(RemoveAt(q, i)) = Len(q) - 1
         /\ \A j \in 1..Len(q) - 1 :
              RemoveAt(q, i)[j] = IF j < i THEN q[j] ELSE q[j + 1]
<1> DEFINE b == i - 1
           r == SubSeq(q, 1, b) \o SubSeq(q, i + 1, Len(q))
<1>1. b \in 0..Len(q) /\ i \in b..Len(q)
  OBVIOUS
<1>2. RemoveAt(q, i) = r
  BY DEF RemoveAt
<1> HIDE DEF b
<1>3. /\ r \in Seq(S) /\ Len(r) = Len(q) - (i - b)
      /\ \A j \in 1..Len(r) : r[j] = IF j <= b THEN q[j] ELSE q[j + (i - b)]
  BY <1>1, CutProperties
<1> HIDE DEF r
<1> QED BY <1>2, <1>3 DEF b

-----------------------------------------------------------------------------
\* By the library's theorem on well-founded relations.
LEMMA Least ==
    ASSUME NEW T \in SUBSET Nat, NEW k \in T
    PROVE  \E m \in T : \A n \in T : m <= n
<1> DEFINE R == OpToRel(<, Nat)
<1>1. IsWellFoundedOn(R, Nat)
  BY NatLessThanWellFounded
<1>2. PICK m \in T : \A n \in T : ~ (<<n, m>> \in R)
  <2> HIDE DEF R
  <2> QED BY <1>1, WFMin
<1>3. \A n \in T : n < m => <<n, m>> \in R
  BY DEF OpToRel
<1>4. \A n \in T : ~(n < m)
  BY <1>2, <1>3
<1> QED BY <1>4

LEMMA MinIsLeast ==
    ASSUME NEW T \in SUBSET Nat, T # {}
    PROVE  Min(T) \in T /\ \A n \in T : Min(T) <= n
<1>1. \E m \in T : \A n \in T : m <= n
  BY Least
<1> QED BY <1>1 DEF Min

LEMMA MaxIsGreatest ==
    ASSUME NEW b \in Nat, NEW T \in SUBSET (0..b), T # {}
    PROVE  Max(T) \in T /\ \A n \in T : n <= Max(T)
<1> DEFINE U == {k \in 0..b : b - k \in T}
<1>1. PICK n \in T : TRUE
  OBVIOUS
<1>2. b - n \in U
  OBVIOUS
<1>3. PICK m \in U : \A k \in U : m <= k
  <2>1. U \in SUBSET Nat
    OBVIOUS
  <2> HIDE DEF U
  <2> QED BY <1>2, <2>1, Least
<1>4. b - m \in T
  OBVIOUS
<1>5. ASSUME NEW k \in T PROVE k <= b - m
  <2>1. b - k \in U
    OBVIOUS
  <2> QED BY <1>3, <2>1
<1>6. \E x \in T : \A k \in T : x >= k
  BY <1>4, <1>5
<1> QED BY <1>6 DEF Max
=============================================================================
