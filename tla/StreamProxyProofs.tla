------------------------- MODULE StreamProxyProofs -------------------------
(***************************************************************************)
(* Theorems about the streaming proxy, for every window, every order of    *)
(* providers and every way to cut an answer into lines, about the risk of  *)
(* an answer, whatever its phrases and what the other stores say, and      *)
(* about the match of a text, whatever the threat feed.                    *)
(***************************************************************************)
EXTENDS StreamProxy, RiskDecisions, ThreatMatch, FiniteSetTheorems, SequenceTheorems, WellFoundedInduction, TLAPS

-----------------------------------------------------------------------------
(* Pieces of a text.                                                       *)

(* The first n letters of a text, and the others.                          *)
LEMMA PieceFacts ==
    ASSUME NEW S, NEW s \in Seq(S), NEW n \in 0 .. Len(s)
    PROVE  /\ Before(s, n) \in Seq(S) /\ Len(Before(s, n)) = n
           /\ \A i \in 1 .. n : Before(s, n)[i] = s[i]
           /\ From(s, n) \in Seq(S) /\ Len(From(s, n)) = Len(s) - n
           /\ \A i \in 1 .. Len(s) - n : From(s, n)[i] = s[n + i]
           /\ Before(s, n) \o From(s, n) = s
<1>1. Len(s) \in Nat /\ \A i \in 1 .. Len(s) : s[i] \in S
  BY LenProperties
<1>2. /\ Before(s, n) \in Seq(S) /\ Len(Before(s, n)) = n
      /\ \A i \in 1 .. n : Before(s, n)[i] = s[i]
  <2>1. \A i \in 1 .. n : s[i] \in S
    BY <1>1
  <2>2. /\ SubSeq(s, 1, n) \in Seq(S) /\ Len(SubSeq(s, 1, n)) = IF 1 <= n THEN n - 1 + 1 ELSE 0
        /\ \A i \in 1 .. n - 1 + 1 : SubSeq(s, 1, n)[i] = s[1 + i - 1]
    BY <2>1, SubSeqProperties
  <2> QED
    BY <1>1, <2>2 DEF Before
<1>3. /\ From(s, n) \in Seq(S) /\ Len(From(s, n)) = Len(s) - n
      /\ \A i \in 1 .. Len(s) - n : From(s, n)[i] = s[n + i]
  <2>1. \A i \in n + 1 .. Len(s) : s[i] \in S
    BY <1>1
  <2>2. n + 1 \in Int /\ Len(s) \in Int
    BY <1>1
  <2>3. /\ SubSeq(s, n + 1, Len(s)) \in Seq(S)
        /\ Len(SubSeq(s, n + 1, Len(s))) = IF n + 1 <= Len(s) THEN Len(s) - (n + 1) + 1 ELSE 0
        /\ \A i \in 1 .. Len(s) - (n + 1) + 1 : SubSeq(s, n + 1, Len(s))[i] = s[(n + 1) + i - 1]
    BY <2>1, <2>2, SubSeqProperties
  <2> QED
    BY <1>1, <2>3 DEF From
<1>4. Before(s, n) \o From(s, n) = s
  <2> DEFINE b == Before(s, n)
             f == From(s, n)
  <2>1. /\ b \o f \in Seq(S) /\ Len(b \o f) = Len(b) + Len(f)
        /\ \A i \in 1 .. Len(b) + Len(f) : (b \o f)[i] = IF i <= Len(b) THEN b[i] ELSE f[i - Len(b)]
    BY <1>2, <1>3, ConcatProperties
  <2>2. Len(b \o f) = Len(s)
    BY <1>1, <1>2, <1>3, <2>1
  <2>3. ASSUME NEW i \in 1 .. Len(s) PROVE (b \o f)[i] = s[i]
    <3>1. CASE i <= n
      <4>1. i \in 1 .. n /\ i \in 1 .. Len(b) + Len(f) /\ i <= Len(b)
        BY <1>1, <1>2, <1>3, <3>1
      <4>2. (b \o f)[i] = b[i] /\ b[i] = s[i]
        BY <1>2, <2>1, <4>1
      <4> QED
        BY <4>2
    <3>2. CASE ~(i <= n)
      <4>1. /\ i \in 1 .. Len(b) + Len(f) /\ ~(i <= Len(b)) /\ i - Len(b) = i - n
            /\ i - n \in 1 .. Len(s) - n /\ n + (i - n) = i
        BY <1>1, <1>2, <1>3, <3>2
      <4>2. (b \o f)[i] = f[i - n] /\ f[i - n] = s[n + (i - n)]
        BY <1>3, <2>1, <4>1
      <4> QED
        BY <4>1, <4>2
    <3> QED
      BY <3>1, <3>2
  <2> HIDE DEF b, f
  <2> QED
    BY <2>1, <2>2, <2>3, SeqEqual DEF b, f
<1> QED
  BY <1>2, <1>3, <1>4

(* Whatever is cut off a text is made of its letters.                      *)
LEMMA RestIsText ==
    ASSUME NEW S, NEW s \in Seq(S), NEW n \in Nat PROVE From(s, n) \in Seq(S)
<1>1. Len(s) \in Nat /\ \A i \in n + 1 .. Len(s) : s[i] \in S
  BY LenProperties
<1> QED
  BY <1>1, SubSeqProperties DEF From

(* A prefix, letter by letter, and what follows it.                        *)
LEMMA PrefixFacts ==
    ASSUME NEW S, NEW s \in Seq(S), NEW t \in Seq(S)
    PROVE  /\ PrefixOf(s, t) <=> Len(s) <= Len(t) /\ \A i \in 1 .. Len(s) : t[i] = s[i]
           /\ PrefixOf(s, t) => s \o From(t, Len(s)) = t
<1>1. Len(s) \in Nat /\ Len(t) \in Nat
  BY LenProperties
<1>2. ASSUME Len(s) <= Len(t)
      PROVE  Before(t, Len(s)) = s <=> \A i \in 1 .. Len(s) : t[i] = s[i]
  <2>1. /\ Before(t, Len(s)) \in Seq(S) /\ Len(Before(t, Len(s))) = Len(s)
        /\ \A i \in 1 .. Len(s) : Before(t, Len(s))[i] = t[i]
    <3>1. Len(s) \in 0 .. Len(t)
      BY <1>1, <1>2
    <3> QED
      BY <3>1, PieceFacts
  <2>2. ASSUME \A i \in 1 .. Len(s) : t[i] = s[i] PROVE Before(t, Len(s)) = s
    BY <2>1, <2>2, SeqEqual
  <2> QED
    BY <2>1, <2>2
<1>3. ASSUME PrefixOf(s, t) PROVE s \o From(t, Len(s)) = t
  <2>1. Len(s) \in 0 .. Len(t) /\ Before(t, Len(s)) = s
    BY <1>1, <1>3 DEF PrefixOf
  <2> QED
    BY <2>1, PieceFacts
<1> QED
  BY <1>2, <1>3 DEF PrefixOf

(* A text is a prefix of itself and of what is appended to it.             *)
LEMMA PrefixOfLonger ==
    ASSUME NEW S, NEW s \in Seq(S), NEW t \in Seq(S)
    PROVE  /\ s \o t \in Seq(S) /\ Len(s \o t) = Len(s) + Len(t)
           /\ PrefixOf(s, s) /\ PrefixOf(s, s \o t)
<1>1. Len(s) \in Nat /\ Len(t) \in Nat
  BY LenProperties
<1>2. /\ s \o t \in Seq(S) /\ Len(s \o t) = Len(s) + Len(t)
      /\ \A i \in 1 .. Len(s) + Len(t) : (s \o t)[i] = IF i <= Len(s) THEN s[i] ELSE t[i - Len(s)]
  BY ConcatProperties
<1>3. PrefixOf(s, s)
  BY <1>1, PrefixFacts
<1>4. Len(s) <= Len(s \o t) /\ \A i \in 1 .. Len(s) : (s \o t)[i] = s[i]
  BY <1>1, <1>2
<1>5. PrefixOf(s, s \o t)
  BY <1>2, <1>4, PrefixFacts
<1> QED
  BY <1>2, <1>3, <1>5

(* A match of the normalised text that lies in a prefix is one of the      *)
(* prefix: what follows can only glue to it.                               *)
LEMMA SpanOfPrefix ==
    ASSUME NEW S, NEW s \in Seq(S), NEW t \in Seq(S), PrefixOf(s, t),
           NEW a \in Nat \ {0}, NEW c \in Nat \ {0}, c <= Len(s), MatchSpans(t, a, c)
    PROVE  a < c /\ MatchSpans(s, a, c)
<1>1. Len(s) \in Nat /\ Len(t) \in Nat /\ Len(s) <= Len(t) /\ \A j \in 1 .. Len(s) : t[j] = s[j]
  BY LenProperties, PrefixFacts
<1>2. PICK b \in a + 1 .. c - 1 : t[b] = "q" /\ Glued(t, a, b) /\ Glued(t, b, c)
  BY DEF MatchSpans
<1>3. a < c /\ a \in 1 .. Len(s) /\ b \in 1 .. Len(s) /\ c \in 1 .. Len(s)
  BY <1>1, <1>2
<1>4. \A i, j \in 1 .. Len(s) : Glued(t, i, j) <=> Glued(s, i, j)
  <2> SUFFICES ASSUME NEW i \in 1 .. Len(s), NEW j \in 1 .. Len(s) PROVE Glued(t, i, j) <=> Glued(s, i, j)
    OBVIOUS
  <2>1. \A k \in i + 1 .. j - 1 : t[k] = s[k]
    <3>1. \A k \in i + 1 .. j - 1 : k \in 1 .. Len(s)
      BY <1>1
    <3> QED
      BY <1>1, <3>1
  <2> QED
    BY <2>1 DEF Glued
<1>5. s[a] = "p" /\ s[c] = "q" /\ s[b] = "q" /\ Glued(s, a, b) /\ Glued(s, b, c)
  BY <1>1, <1>2, <1>3, <1>4 DEF MatchSpans
<1>6. \A j \in 1 .. Len(s) : s[j] \in Word => ~Glued(s, j, a) /\ ~Glued(s, c, j)
  <2>1. \A j \in 1 .. Len(s) : j \in 1 .. Len(t) /\ s[j] = t[j]
    BY <1>1
  <2>2. \A j \in 1 .. Len(t) : t[j] \in Word => ~Glued(t, j, a) /\ ~Glued(t, c, j)
    BY DEF MatchSpans
  <2> QED
    BY <1>3, <1>4, <2>1, <2>2
<1> QED
  BY <1>2, <1>3, <1>5, <1>6 DEF MatchSpans

-----------------------------------------------------------------------------
(* The letters that redaction keeps, and their places.                     *)

(* How many members of a set of positions there are up to a position.      *)
LEMMA RankFacts ==
    ASSUME NEW n \in Nat, NEW S \in SUBSET (1 .. n)
    PROVE  /\ Cardinality(S) \in 0 .. n /\ IsFiniteSet(S)
           /\ \A m \in Nat : Rank(S, m) \in 0 .. Cardinality(S)
           /\ Rank(S, 0) = 0 /\ Rank(S, n) = Cardinality(S)
           /\ \A m \in Nat : Rank(S, m + 1) = IF m + 1 \in S THEN Rank(S, m) + 1 ELSE Rank(S, m)
           /\ \A m, k \in Nat : m < k => /\ Rank(S, m) <= Rank(S, k)
                                         /\ k \in S => Rank(S, m) < Rank(S, k)
<1> DEFINE Upto(m) == {k \in S : k <= m}
<1>0. \A k \in S : k \in Nat /\ 1 <= k /\ k <= n
  OBVIOUS
<1>1. IsFiniteSet(1 .. n) /\ Cardinality(1 .. n) = n
  <2>1. IsFiniteSet(1 .. n) /\ Cardinality(1 .. n) = IF 1 > n THEN 0 ELSE n - 1 + 1
    BY FS_Interval
  <2> QED
    BY <2>1
<1>2. IsFiniteSet(S) /\ Cardinality(S) <= n
  BY <1>1, FS_Subset
<1>3. Cardinality(S) \in Nat
  BY <1>2, FS_CardinalityType
<1>4. ASSUME NEW m \in Nat
      PROVE  IsFiniteSet(Upto(m)) /\ Cardinality(Upto(m)) \in 0 .. Cardinality(S)
  <2>1. Upto(m) \in SUBSET S
    OBVIOUS
  <2> HIDE DEF Upto
  <2>2. IsFiniteSet(Upto(m)) /\ Cardinality(Upto(m)) <= Cardinality(S)
    BY <1>2, <2>1, FS_Subset
  <2>3. Cardinality(Upto(m)) \in Nat
    BY <2>2, FS_CardinalityType
  <2> QED
    BY <1>3, <2>2, <2>3
<1>5. Upto(0) = {} /\ Upto(n) = S
  <2>1. \A k \in S : ~(k <= 0) /\ k <= n
    BY <1>0
  <2> QED
    BY <2>1
<1>6. Cardinality(Upto(0)) = 0 /\ Cardinality(Upto(n)) = Cardinality(S)
  BY <1>5, FS_EmptySet
<1>7. ASSUME NEW m \in Nat
      PROVE  Cardinality(Upto(m + 1)) = IF m + 1 \in S THEN Cardinality(Upto(m)) + 1
                                                       ELSE Cardinality(Upto(m))
  <2>1. CASE m + 1 \in S
    <3>1. Upto(m + 1) = Upto(m) \cup {m + 1} /\ m + 1 \notin Upto(m)
      <4>1. \A k \in S : k <= m + 1 <=> k <= m \/ k = m + 1
        BY <1>0
      <4>2. ~(m + 1 <= m) /\ m + 1 <= m + 1
        OBVIOUS
      <4> QED
        BY <2>1, <4>1, <4>2
    <3> HIDE DEF Upto
    <3> QED
      BY <1>4, <2>1, <3>1, FS_AddElement
  <2>2. CASE m + 1 \notin S
    <3>1. \A k \in S : k <= m + 1 <=> k <= m
      BY <1>0, <2>2
    <3>2. Upto(m + 1) = Upto(m)
      BY <3>1
    <3> HIDE DEF Upto
    <3> QED
      BY <2>2, <3>2
  <2> QED
    BY <2>1, <2>2
<1>8. ASSUME NEW m \in Nat, NEW k \in Nat, m < k
      PROVE  /\ Cardinality(Upto(m)) <= Cardinality(Upto(k))
             /\ k \in S => Cardinality(Upto(m)) < Cardinality(Upto(k))
  <2>1. Upto(m) \in SUBSET Upto(k) /\ (k \in S => k \in Upto(k) /\ k \notin Upto(m))
    <3>1. \A l \in S : l <= m => l <= k
      BY <1>0, <1>8
    <3>2. k <= k /\ ~(k <= m)
      BY <1>8
    <3> QED
      BY <3>1, <3>2
  <2> HIDE DEF Upto
  <2>2. /\ Cardinality(Upto(m)) <= Cardinality(Upto(k))
        /\ Cardinality(Upto(m)) = Cardinality(Upto(k)) => Upto(m) = Upto(k)
    BY <1>4, <2>1, FS_Subset
  <2>3. Cardinality(Upto(m)) \in Nat /\ Cardinality(Upto(k)) \in Nat
    BY <1>3, <1>4
  <2> QED
    BY <2>1, <2>2, <2>3
<1>9. \A m : Rank(S, m) = Cardinality(Upto(m))
  BY DEF Rank
<1> HIDE DEF Upto
<1> QED
  BY <1>2, <1>3, <1>4, <1>6, <1>7, <1>8, <1>9

(* A set of naturals that is not empty has a first member.                 *)
LEMMA FirstOfSome ==
    ASSUME NEW D, D \subseteq Nat, D # {}
    PROVE  \E d \in D : \A e \in D : d <= e
<1> DEFINE less == OpToRel(<, Nat)
<1>1. \E d \in D : \A e \in D : ~(<<e, d>> \in less)
  <2> HIDE DEF less
  <2>1. IsWellFoundedOn(less, Nat)
    BY NatLessThanWellFounded DEF less
  <2> QED
    BY <2>1, WFMin, Zenon
<1>2. \A d, e \in Nat : e < d => <<e, d>> \in less
  BY DEF OpToRel
<1>3. PICK d \in D : \A e \in D : ~(<<e, d>> \in less)
  BY <1>1
<1> HIDE DEF less
<1>4. \A e \in D : ~(e < d)
  BY <1>2, <1>3
<1> QED
  BY <1>4

(* The j-th of some positions.                                             *)
LEMMA PlaceFacts ==
    ASSUME NEW n \in Nat, NEW S \in SUBSET (1 .. n), NEW j \in 1 .. Cardinality(S)
    PROVE  /\ Place(S, j) \in S /\ Rank(S, Place(S, j)) = j
           /\ \A i \in S : Rank(S, i) = j => i = Place(S, j)
<1> DEFINE D == {m \in Nat : Rank(S, m) >= j}
<1>1. /\ Cardinality(S) \in Nat /\ Rank(S, 0) = 0 /\ Rank(S, n) = Cardinality(S)
      /\ \A m \in Nat : Rank(S, m) \in Nat
      /\ \A m \in Nat : Rank(S, m + 1) = IF m + 1 \in S THEN Rank(S, m) + 1 ELSE Rank(S, m)
      /\ \A m, k \in Nat : m < k /\ k \in S => Rank(S, m) < Rank(S, k)
  <2>1. /\ Cardinality(S) \in 0 .. n
        /\ \A m \in Nat : Rank(S, m) \in 0 .. Cardinality(S)
        /\ Rank(S, 0) = 0 /\ Rank(S, n) = Cardinality(S)
        /\ \A m \in Nat : Rank(S, m + 1) = IF m + 1 \in S THEN Rank(S, m) + 1 ELSE Rank(S, m)
        /\ \A m, k \in Nat : m < k => /\ Rank(S, m) <= Rank(S, k)
                                      /\ k \in S => Rank(S, m) < Rank(S, k)
    BY RankFacts
  <2>2. Cardinality(S) \in Nat /\ \A m \in Nat : Rank(S, m) \in Nat
    BY <2>1
  <2> QED
    BY <2>1, <2>2
<1>2. D \subseteq Nat /\ n \in D
  BY <1>1
<1>3. PICK d \in D : \A e \in D : d <= e
  <2> HIDE DEF D
  <2> QED
    BY <1>2, FirstOfSome
<1>4. d \in Nat /\ Rank(S, d) >= j /\ d # 0
  BY <1>1, <1>3
<1>5. d - 1 \in Nat /\ ~(Rank(S, d - 1) >= j) /\ (d - 1) + 1 = d
  BY <1>3, <1>4
<1>6. d \in S /\ Rank(S, d) = j
  <2>1. Rank(S, (d - 1) + 1) = IF (d - 1) + 1 \in S THEN Rank(S, d - 1) + 1 ELSE Rank(S, d - 1)
    BY <1>1, <1>5
  <2>2. Rank(S, d) = IF d \in S THEN Rank(S, d - 1) + 1 ELSE Rank(S, d - 1)
    BY <1>5, <2>1
  <2>3. Rank(S, d) \in Nat /\ Rank(S, d - 1) \in Nat
    BY <1>1, <1>4, <1>5
  <2> QED
    BY <1>4, <1>5, <2>2, <2>3
<1>7. Place(S, j) \in S /\ Rank(S, Place(S, j)) = j
  BY <1>6 DEF Place
<1>8. ASSUME NEW i \in S, Rank(S, i) = j PROVE i = Place(S, j)
  <2>1. i \in Nat /\ Place(S, j) \in Nat
    <3>1. \A k \in S : k \in Nat
      OBVIOUS
    <3> QED
      BY <1>7, <3>1
  <2>2. /\ i < Place(S, j) => Rank(S, i) < Rank(S, Place(S, j))
        /\ Place(S, j) < i => Rank(S, Place(S, j)) < Rank(S, i)
    BY <1>1, <1>7, <1>8, <2>1, Zenon
  <2>3. ~(j < j)
    OBVIOUS
  <2>4. ~(i < Place(S, j)) /\ ~(Place(S, j) < i)
    BY <1>7, <1>8, <2>2, <2>3, Zenon
  <2> QED
    BY <2>1, <2>4
<1> QED
  BY <1>7, <1>8

(* The j-th of some positions is the j-th of those up to a bound.          *)
LEMMA PlaceOfPart ==
    ASSUME NEW n \in Nat, NEW S \in SUBSET (1 .. n), NEW m \in 0 .. n
    PROVE  /\ Cardinality(S \cap (1 .. m)) <= Cardinality(S)
           /\ \A j \in 1 .. Cardinality(S \cap (1 .. m)) : Place(S \cap (1 .. m), j) = Place(S, j)
<1> DEFINE T == S \cap (1 .. m)
<1>1. T \in SUBSET S /\ T \in SUBSET (1 .. n)
  OBVIOUS
<1>2. ASSUME NEW i \in T PROVE i \in S /\ Rank(T, i) = Rank(S, i)
  <2>1. i \in Nat /\ i <= m /\ \A k \in S : k \in Nat /\ 1 <= k
    OBVIOUS
  <2>2. \A k \in S : k <= i => k \in T
    BY <2>1
  <2>3. {k \in T : k <= i} = {k \in S : k <= i}
    BY <1>1, <2>2
  <2> QED
    BY <1>1, <2>3 DEF Rank
<1> HIDE DEF T
<1>3. Cardinality(T) <= Cardinality(S) /\ Cardinality(S) \in Nat /\ Cardinality(T) \in Nat
  <2>1. IsFiniteSet(S) /\ Cardinality(S) \in Nat /\ Cardinality(T) \in Nat
    BY <1>1, RankFacts
  <2> QED
    BY <1>1, <2>1, FS_Subset
<1>4. ASSUME NEW j \in 1 .. Cardinality(T) PROVE Place(T, j) = Place(S, j)
  <2>1. Place(T, j) \in T /\ Rank(T, Place(T, j)) = j
    BY <1>1, PlaceFacts
  <2>2. j \in 1 .. Cardinality(S)
    BY <1>3
  <2>3. \A i \in S : Rank(S, i) = j => i = Place(S, j)
    BY <2>2, PlaceFacts
  <2> QED
    BY <1>2, <2>1, <2>3
<1> QED
  BY <1>3, <1>4 DEF T

(* The first n letters of the text t have the matches that t has there.    *)
CleanCut(t, n) == \A i \in 1 .. n : MatchAt(Before(t, n), i) <=> MatchAt(t, i)

(* A redacted text is no longer than the text.                             *)
LEMMA RedactFacts ==
    ASSUME NEW s \in Seq(Letters)
    PROVE  /\ Kept(s) \in SUBSET (1 .. Len(s)) /\ Cardinality(Kept(s)) \in 0 .. Len(s)
           /\ Redact(s) \in Seq(Shown) /\ Len(Redact(s)) = Cardinality(Kept(s))
           /\ \A j \in 1 .. Cardinality(Kept(s)) :
                /\ Place(Kept(s), j) \in 1 .. Len(s)
                /\ Redact(s)[j] = IF MatchAt(s, Place(Kept(s), j)) THEN "R" ELSE s[Place(Kept(s), j)]
<1> DEFINE K == Kept(s)
           c == Cardinality(K)
           Letter(i) == IF MatchAt(s, i) THEN "R" ELSE s[i]
           R == [j \in 1 .. c |-> Letter(Place(K, j))]
<1>1. Len(s) \in Nat /\ \A i \in 1 .. Len(s) : s[i] \in Letters
  BY LenProperties
<1>2. K \in SUBSET (1 .. Len(s))
  BY DEF Kept
<1>3. Redact(s) = R
  BY DEF Redact
<1> HIDE DEF K
<1>4. c \in 0 .. Len(s) /\ c \in Nat
  <2>1. c \in 0 .. Len(s)
    BY <1>1, <1>2, RankFacts
  <2> QED
    BY <1>1, <2>1
<1> HIDE DEF c
<1>5. ASSUME NEW j \in 1 .. c PROVE Place(K, j) \in 1 .. Len(s) /\ Letter(Place(K, j)) \in Shown
  <2>1. Place(K, j) \in K
    BY <1>1, <1>2, PlaceFacts DEF c
  <2>2. Place(K, j) \in 1 .. Len(s)
    BY <1>2, <2>1
  <2> QED
    BY <1>1, <2>2 DEF Shown
<1> HIDE DEF Letter
<1>6. R \in [1 .. c -> Shown]
  BY <1>5
<1>7. R \in Seq(Shown)
  BY <1>4, <1>6, SeqDef
<1>8. Len(R) = c
  BY <1>4, <1>7, LenProperties
<1>9. \A j \in 1 .. c : R[j] = Letter(Place(K, j))
  OBVIOUS
<1> HIDE DEF R
<1> QED
  BY <1>2, <1>3, <1>4, <1>5, <1>7, <1>8, <1>9 DEF K, c, Letter

(* A cut that is clean keeps of the prefix what it keeps of the text.      *)
LEMMA KeptOfPrefix ==
    ASSUME NEW s \in Seq(Letters), NEW t \in Seq(Letters), PrefixOf(s, t), CleanCut(t, Len(s))
    PROVE  /\ Kept(s) = Kept(t) \cap (1 .. Len(s))
           /\ \A i \in 1 .. Len(s) : MatchAt(s, i) <=> MatchAt(t, i)
<1>1. Len(s) \in Nat /\ Len(t) \in Nat /\ Len(s) <= Len(t)
  BY LenProperties DEF PrefixOf
<1>2. ASSUME NEW i \in 1 .. Len(s) PROVE MatchAt(s, i) <=> MatchAt(t, i)
  <2>1. Before(t, Len(s)) = s
    BY DEF PrefixOf
  <2> QED
    BY <2>1 DEF CleanCut
<1>3. ASSUME NEW i \in 1 .. Len(s), NEW d \in {1, 2}, i > d
      PROVE  MatchAt(s, i - d) <=> MatchAt(t, i - d)
  <2>1. i - d \in 1 .. Len(s)
    BY <1>1, <1>3
  <2> QED
    BY <1>2, <2>1
<1>4. \A i \in 1 .. Len(s) : i \in Kept(s) <=> i \in Kept(t)
  <2>1. \A i \in 1 .. Len(s) : i \in 1 .. Len(t)
    BY <1>1
  <2> QED
    BY <1>3, <2>1 DEF Kept
<1>5. Kept(s) \subseteq 1 .. Len(s)
  BY DEF Kept
<1>6. Kept(s) = Kept(t) \cap (1 .. Len(s))
  BY <1>4, <1>5
<1> QED
  BY <1>2, <1>6

(* At a clean cut the redaction of the prefix is a prefix of the redaction.*)
LEMMA RedactOfPrefix ==
    ASSUME NEW s \in Seq(Letters), NEW t \in Seq(Letters), PrefixOf(s, t), CleanCut(t, Len(s))
    PROVE  PrefixOf(Redact(s), Redact(t))
<1>1. Len(s) \in Nat /\ Len(t) \in Nat /\ Len(s) \in 0 .. Len(t) /\ \A i \in 1 .. Len(s) : t[i] = s[i]
  <2>1. Len(s) \in Nat /\ Len(t) \in Nat /\ Len(s) <= Len(t) /\ \A i \in 1 .. Len(s) : t[i] = s[i]
    BY LenProperties, PrefixFacts
  <2> QED
    BY <2>1
<1>2. /\ Kept(s) = Kept(t) \cap (1 .. Len(s))
      /\ \A i \in 1 .. Len(s) : MatchAt(s, i) <=> MatchAt(t, i)
  BY KeptOfPrefix
<1>3. /\ Kept(t) \in SUBSET (1 .. Len(t)) /\ Cardinality(Kept(t)) \in 0 .. Len(t)
      /\ Redact(t) \in Seq(Shown) /\ Len(Redact(t)) = Cardinality(Kept(t))
      /\ \A j \in 1 .. Cardinality(Kept(t)) :
           Redact(t)[j] = IF MatchAt(t, Place(Kept(t), j)) THEN "R" ELSE t[Place(Kept(t), j)]
  BY RedactFacts
<1>4. /\ Redact(s) \in Seq(Shown) /\ Len(Redact(s)) = Cardinality(Kept(s))
      /\ Cardinality(Kept(s)) \in 0 .. Len(s)
      /\ \A j \in 1 .. Cardinality(Kept(s)) :
           /\ Place(Kept(s), j) \in 1 .. Len(s)
           /\ Redact(s)[j] = IF MatchAt(s, Place(Kept(s), j)) THEN "R" ELSE s[Place(Kept(s), j)]
  BY RedactFacts
<1>5. /\ Cardinality(Kept(s)) <= Cardinality(Kept(t))
      /\ \A j \in 1 .. Cardinality(Kept(s)) : Place(Kept(s), j) = Place(Kept(t), j)
  <2> DEFINE K == Kept(t)
             P == K \cap (1 .. Len(s))
  <2>1. K \in SUBSET (1 .. Len(t)) /\ Kept(s) = P
    BY <1>2, <1>3
  <2> HIDE DEF K
  <2>2. Cardinality(P) <= Cardinality(K) /\ \A j \in 1 .. Cardinality(P) : Place(P, j) = Place(K, j)
    BY <1>1, <2>1, PlaceOfPart
  <2> HIDE DEF P
  <2> QED
    BY <2>1, <2>2 DEF K
<1>6. \A j \in 1 .. Cardinality(Kept(s)) : Redact(t)[j] = Redact(s)[j]
  <2> SUFFICES ASSUME NEW j \in 1 .. Cardinality(Kept(s)) PROVE Redact(t)[j] = Redact(s)[j]
    OBVIOUS
  <2> DEFINE i == Place(Kept(s), j)
  <2>1. i \in 1 .. Len(s) /\ i = Place(Kept(t), j) /\ j \in 1 .. Cardinality(Kept(t))
    BY <1>1, <1>3, <1>4, <1>5
  <2>2. Redact(s)[j] = IF MatchAt(s, i) THEN "R" ELSE s[i]
    BY <1>4
  <2>3. Redact(t)[j] = IF MatchAt(t, i) THEN "R" ELSE t[i]
    BY <1>3, <2>1
  <2> HIDE DEF i
  <2> QED
    BY <1>1, <1>2, <2>1, <2>2, <2>3
<1> QED
  BY <1>3, <1>4, <1>5, <1>6, PrefixFacts

(* What the client is shown of a text and of a prefix of it.               *)
LEMMA ForClientFacts ==
    ASSUME NEW s \in Seq(Letters)
    PROVE  /\ ForClient(s) \in Seq(Shown) /\ Len(ForClient(s)) \in 0 .. Len(s)
           /\ \A t \in Seq(Letters) :
                PrefixOf(s, t) /\ (mode = "block" \/ CleanCut(t, Len(s))) =>
                  /\ PrefixOf(ForClient(s), ForClient(t))
                  /\ ForClient(s) \o From(ForClient(t), Len(ForClient(s))) = ForClient(t)
<1>1. ASSUME NEW u \in Seq(Letters)
      PROVE  ForClient(u) \in Seq(Shown) /\ Len(ForClient(u)) \in 0 .. Len(u)
  <2>1. u \in Seq(Shown) /\ Len(u) \in Nat
    BY SeqMonotonic, LenProperties DEF Shown
  <2>2. Redact(u) \in Seq(Shown) /\ Len(Redact(u)) \in 0 .. Len(u)
    BY RedactFacts
  <2> QED
    BY <2>1, <2>2 DEF ForClient
<1>2. ASSUME NEW t \in Seq(Letters), PrefixOf(s, t), mode = "block" \/ CleanCut(t, Len(s))
      PROVE  PrefixOf(ForClient(s), ForClient(t))
  <2>1. CASE mode = "block"
    BY <1>2, <2>1 DEF ForClient
  <2>2. CASE mode # "block"
    BY <1>2, <2>2, RedactOfPrefix DEF ForClient
  <2> QED
    BY <2>1, <2>2
<1>3. \A t \in Seq(Letters) : PrefixOf(ForClient(s), ForClient(t)) =>
                              ForClient(s) \o From(ForClient(t), Len(ForClient(s))) = ForClient(t)
  BY <1>1, PrefixFacts
<1> QED
  BY <1>1, <1>2, <1>3

-----------------------------------------------------------------------------
(* The request.                                                            *)

(* Steps that leave the text alone, one by one: the type of what they      *)
(* change and how far the request came.                                    *)
LEMMA GatesKeepStages ==
    ASSUME StreamAssumption, TypeOK, StagesCoherent, RecordedUnlessRefused,
           Deny \/ Admit \/ StorePrompt \/ ExpirePrompt \/ ExpireFails \/ ReserveUsage \/ Connect
    PROVE  /\ TypeOK' /\ StagesCoherent' /\ RecordedUnlessRefused'
           /\ UNCHANGED <<mode, piiBlocks, text>> /\ outcome # "delivered" /\ outcome' # "delivered"
           /\ point # "chunk" \/ point' = "chunk"
<1> USE DEF TypeOK, StagesCoherent, RecordedUnlessRefused, PromptsExpire, text, given,
            Decide, Move, Finish
<1>1. CASE Deny
  BY <1>1 DEF Deny
<1>2. CASE Admit
  BY <1>2 DEF Admit
<1>3. CASE StorePrompt
  BY <1>3 DEF StorePrompt
<1>4. CASE ExpirePrompt
  BY <1>4 DEF ExpirePrompt
<1>5. CASE ExpireFails
  BY <1>5 DEF ExpireFails
<1>6. CASE ReserveUsage
  BY <1>6 DEF ReserveUsage
<1>7. CASE Connect
  BY <1>7 DEF Connect
<1> QED
  BY <1>1, <1>2, <1>3, <1>4, <1>5, <1>6, <1>7

(* The same of the steps that fail, decide, account, record and refuse.    *)
LEMMA DecisionsKeepStages ==
    ASSUME StreamAssumption, TypeOK, StagesCoherent, RecordedUnlessRefused,
           ProviderFails \/ Fail \/ JudgeWhole \/ FinalizeUsage \/ FinalizeFails \/ Record
             \/ RecordRefused \/ Refuse \/ Notice \/ Leave
    PROVE  /\ TypeOK' /\ StagesCoherent' /\ RecordedUnlessRefused'
           /\ UNCHANGED <<mode, piiBlocks, text>>
           /\ stage # "over" /\ outcome # "delivered" /\ outcome' # "delivered"
           /\ point # "chunk" \/ point' = "chunk"
<1> USE DEF TypeOK, StagesCoherent, RecordedUnlessRefused, PromptsExpire, text, given,
            Decide, Move, Finish
<1>1. CASE ProviderFails
  <2>1. left - 1 \in 0 .. Providers /\ (left > 1 => left - 1 >= 1)
    BY <1>1 DEF ProviderFails, StreamAssumption
  <2>2. CASE left > 1
    BY <1>1, <2>1, <2>2 DEF ProviderFails, KeepText
  <2>3. CASE ~(left > 1)
    BY <1>1, <2>1, <2>3 DEF ProviderFails, KeepText
  <2> QED
    BY <2>2, <2>3
<1>2. CASE Fail
  BY <1>2 DEF Fail
<1>3. CASE JudgeWhole
  BY <1>3 DEF JudgeWhole
<1>4. CASE FinalizeUsage
  BY <1>4 DEF FinalizeUsage
<1>5. CASE FinalizeFails
  BY <1>5 DEF FinalizeFails
<1>6. CASE Record
  <2>1. recorded = << >> /\ decision \in {"DENY", "BLOCK", "PASS"}
    BY <1>6 DEF Record
  <2>2. recorded' = <<decision>> /\ Len(recorded') = 1 /\ recorded'[1] = decision
        /\ recorded' \in Seq({"DENY", "BLOCK", "PASS"}) /\ recorded' # << >>
    BY <1>6, <2>1 DEF Record, Entry
  <2>3. /\ point = "preflight" => decision = "DENY"
        /\ point # "preflight" => usage = "final"
        /\ point = "chunk" => decision = "BLOCK"
    BY <1>6 DEF Record
  <2> QED
    BY <1>6, <2>2, <2>3 DEF Record
<1>7. CASE RecordRefused
  BY <1>7 DEF RecordRefused
<1>8. CASE Refuse
  BY <1>8 DEF Refuse
<1>9. CASE Notice
  BY <1>9 DEF Notice
<1>10. CASE Leave
  BY <1>10 DEF Leave
<1> QED
  BY <1>1, <1>2, <1>3, <1>4, <1>5, <1>6, <1>7, <1>8, <1>9, <1>10

(* A step that leaves the text alone leaves it as coherent as it was.      *)
LEMMA TextStays ==
    ASSUME TextCoherent, UNCHANGED <<mode, piiBlocks, text>>,
           outcome # "delivered", outcome' # "delivered", point # "chunk" \/ point' = "chunk"
    PROVE  TextCoherent'
BY DEF TextCoherent, text, ForClient, Uncut

(* The start of a request, and a step that changes nothing.                *)
LEMMA StreamStarts == ASSUME StreamAssumption, Init PROVE StreamInv
<1>1. << >> \in Seq(Letters) /\ << >> \in Seq(Shown) /\ Len(<< >>) = 0
      /\ << >> \in Seq({"DENY", "BLOCK", "PASS"})
  OBVIOUS
<1>2. TypeOK /\ StagesCoherent /\ RecordedUnlessRefused
  <2>1. TypeOK
    <3>1. {raw, tail, received} \subseteq Seq(Letters) /\ {streamed, out} \subseteq Seq(Shown)
      BY <1>1 DEF Init
    <3>2. recorded \in Seq({"DENY", "BLOCK", "PASS"}) /\ Len(recorded) <= 1
      BY <1>1 DEF Init
    <3>3. left \in 0 .. Providers
      BY DEF Init, StreamAssumption
    <3> QED
      BY <3>1, <3>2, <3>3 DEF Init, TypeOK
  <2>2. StagesCoherent
    BY DEF Init, StagesCoherent, StreamAssumption
  <2>3. RecordedUnlessRefused
    BY DEF Init, RecordedUnlessRefused, PromptsExpire
  <2> QED
    BY <2>1, <2>2, <2>3
<1>3. ForClient(<< >>) = << >>
  <2>1. ForClient(<< >>) \in Seq(Shown) /\ Len(ForClient(<< >>)) \in 0 .. Len(<< >>)
    BY <1>1, ForClientFacts
  <2>2. Len(ForClient(<< >>)) = 0
    BY <1>1, <2>1
  <2> QED
    BY <2>1, <2>2, EmptySeq
<1>4. << >> \o << >> = << >> /\ PrefixOf(<< >>, << >>) /\ ~HasMatch(<< >>)
  <2>1. << >> \o << >> = << >> /\ PrefixOf(<< >>, << >>)
    BY <1>1, ConcatEmptySeq, PrefixOfLonger
  <2>2. ~HasMatch(<< >>)
    BY <1>1 DEF HasMatch
  <2> QED
    BY <2>1, <2>2
<1>5. Cut(0) = 0
  BY DEF Cut, StreamAssumption
<1>6. TextCoherent
  BY <1>1, <1>3, <1>4, <1>5 DEF Init, TextCoherent
<1> QED
  BY <1>2, <1>6 DEF StreamInv

(* What is held back of a text and what is cut off it grow with it.        *)
LEMMA CutFacts ==
    ASSUME StreamAssumption, NEW n \in Nat
    PROVE  /\ Cut(n) \in 0 .. n /\ Cut(n) \in Nat /\ n - Cut(n) = (IF n < Window THEN n ELSE Window)
           /\ \A m \in Nat : m <= n => Cut(m) <= Cut(n)
BY DEF Cut, StreamAssumption

(* What TypeOK and TextCoherent say of the texts, in one place.            *)
LEMMA TextFacts ==
    ASSUME StreamInv
    PROVE  /\ raw \in Seq(Letters) /\ tail \in Seq(Letters) /\ received \in Seq(Letters)
           /\ streamed \in Seq(Shown) /\ out \in Seq(Shown)
           /\ raw \o tail \in Seq(Letters) /\ Len(raw \o tail) = Len(raw) + Len(tail)
           /\ Len(raw) \in Nat /\ Len(tail) \in Nat /\ Len(raw) = Cut(Len(raw \o tail))
           /\ PrefixOf(raw, raw \o tail) /\ PrefixOf(raw \o tail, received)
           /\ streamed = ForClient(raw)
<1>1. /\ raw \in Seq(Letters) /\ tail \in Seq(Letters) /\ received \in Seq(Letters)
      /\ streamed \in Seq(Shown) /\ out \in Seq(Shown)
  BY DEF StreamInv, TypeOK
<1>2. raw \o tail \in Seq(Letters) /\ Len(raw \o tail) = Len(raw) + Len(tail) /\ PrefixOf(raw, raw \o tail)
  BY <1>1, PrefixOfLonger
<1>3. Len(raw) \in Nat /\ Len(tail) \in Nat
  BY <1>1, LenProperties
<1> QED
  BY <1>1, <1>2, <1>3 DEF StreamInv, TextCoherent

(* The committed prefix has the matches of a longer text that no commit    *)
(* has cut, and no earlier commit has cut the prefix.                      *)
LEMMA CommittedCleanly ==
    ASSUME StreamInv, NEW t \in Seq(Letters), PrefixOf(raw, t), Uncut(t)
    PROVE  CleanCut(t, Len(raw)) /\ Uncut(raw)
<1>1. raw = << >> \/ Len(raw) \in commits
  BY DEF StreamInv, TextCoherent
<1>2. CleanCut(t, Len(raw))
  <2>1. CASE raw = << >>
    <3>1. Len(raw) = 0
      BY <2>1
    <3> QED
      BY <3>1 DEF CleanCut
  <2>2. CASE Len(raw) \in commits
    BY <2>2 DEF Uncut, CleanCut
  <2> QED
    BY <1>1, <2>1, <2>2
<1>3. /\ raw \in Seq(Letters) /\ Len(raw) \in Nat /\ Len(t) \in Nat /\ Len(raw) <= Len(t)
      /\ \A j \in 1 .. Len(raw) : t[j] = raw[j]
  <2>1. raw \in Seq(Letters)
    BY TextFacts
  <2> QED
    BY <2>1, LenProperties, PrefixFacts
<1>4. ASSUME NEW n \in commits, NEW i \in 1 .. n PROVE MatchAt(Before(raw, n), i) <=> MatchAt(raw, i)
  <2>1. n \in 0 .. Len(raw) /\ n \in 0 .. Len(t) /\ i \in 1 .. Len(raw)
    <3>1. n \in Nat /\ n <= Len(raw)
      BY DEF StreamInv, TypeOK, TextCoherent
    <3> QED
      BY <1>3, <3>1
  <2>2. Before(raw, n) = Before(t, n)
    <3>1. /\ Before(raw, n) \in Seq(Letters) /\ Len(Before(raw, n)) = n
          /\ \A j \in 1 .. n : Before(raw, n)[j] = raw[j]
      BY <1>3, <2>1, PieceFacts
    <3>2. /\ Before(t, n) \in Seq(Letters) /\ Len(Before(t, n)) = n
          /\ \A j \in 1 .. n : Before(t, n)[j] = t[j]
      BY <1>3, <2>1, PieceFacts
    <3>3. \A j \in 1 .. n : raw[j] = t[j]
      BY <1>3, <2>1
    <3> QED
      BY <3>1, <3>2, <3>3, SeqEqual
  <2>3. MatchAt(Before(t, n), i) <=> MatchAt(t, i)
    BY DEF Uncut
  <2>4. MatchAt(Before(t, Len(raw)), i) <=> MatchAt(t, i)
    BY <1>2, <2>1 DEF CleanCut
  <2>5. Before(t, Len(raw)) = raw
    BY DEF PrefixOf
  <2> QED
    BY <2>2, <2>3, <2>4, <2>5
<1> QED
  BY <1>2, <1>4 DEF Uncut

(* The client is caught up with the committed prefix: what a commit or the *)
(* end adds makes it the redaction of the longer text.                     *)
LEMMA CatchesUp ==
    ASSUME StreamInv, outcome # "delivered", NEW t \in Seq(Letters), PrefixOf(raw, t),
           mode = "block" \/ Uncut(t)
    PROVE  out \o From(ForClient(t), Len(streamed)) = ForClient(t)
<1>1. mode = "block" \/ (CleanCut(t, Len(raw)) /\ Uncut(raw))
  BY CommittedCleanly
<1>2. out = ForClient(raw) /\ streamed = ForClient(raw) /\ raw \in Seq(Letters)
  BY <1>1, TextFacts DEF StreamInv, TextCoherent
<1> QED
  BY <1>1, <1>2, ForClientFacts

(* What the client gets is text.                                           *)
LEMMA SentIsText ==
    ASSUME StreamInv, NEW t \in Seq(Letters)
    PROVE  out \o From(ForClient(t), Len(streamed)) \in Seq(Shown)
<1>1. out \in Seq(Shown) /\ Len(streamed) \in Nat /\ ForClient(t) \in Seq(Shown)
  BY TextFacts, ForClientFacts, LenProperties
<1> QED
  BY <1>1, RestIsText, ConcatProperties

(* The end of an answer sends the tail.                                    *)
LEMMA SendTailKeeps == ASSUME StreamAssumption, StreamInv, SendTail PROVE StreamInv'
<1> DEFINE t == raw \o tail
           sent == out \o From(ForClient(t), Len(streamed))
<1>1. /\ TypeOK /\ StagesCoherent /\ RecordedUnlessRefused /\ TextCoherent
      /\ stage = "send" /\ point = "end" /\ outcome # "delivered"
      /\ t \in Seq(Letters) /\ PrefixOf(raw, t)
  BY TextFacts DEF StreamInv, SendTail, StagesCoherent
<1>2. /\ out' = sent /\ outcome' = "delivered" /\ stage' = "over" /\ point' = point
      /\ decision' = decision
      /\ UNCHANGED <<mode, piiBlocks, failing, prompts, left, usage, recorded, refused,
                     raw, streamed, tail, received, commits>>
  BY DEF SendTail, Finish, given
<1>3. sent \in Seq(Shown)
  BY <1>1, SentIsText
<1>4. TypeOK'
  BY <1>1, <1>2, <1>3 DEF TypeOK
<1>5. StagesCoherent' /\ RecordedUnlessRefused'
  BY <1>1, <1>2 DEF StagesCoherent, RecordedUnlessRefused, PromptsExpire
<1>6. mode = "block" \/ Uncut(t) => sent = ForClient(t)
  BY <1>1, CatchesUp
<1> HIDE DEF sent
<1>7. TextCoherent'
  BY <1>1, <1>2, <1>6 DEF TextCoherent, ForClient, Uncut
<1> QED
  BY <1>4, <1>5, <1>7 DEF StreamInv

(* A line of the response that is let through: all but the window of the   *)
(* text is committed and the client gets what that adds.                   *)
LEMMA CommitKeeps ==
    ASSUME StreamAssumption, StreamInv, NEW d \in Deltas, Delta(d), stage' = "stream"
    PROVE  StreamInv'
<1> DEFINE t == raw \o tail
           c == t \o d
           n == Cut(Len(c))
           head == Before(c, n)
           shown == ForClient(head)
           sent == out \o From(shown, Len(streamed))
<1>1. /\ TypeOK /\ StagesCoherent /\ RecordedUnlessRefused /\ TextCoherent
      /\ stage = "stream" /\ point = "preflight" /\ outcome = "none" /\ left >= 1
      /\ t = received /\ d \in Seq(Letters)
  BY DEF StreamInv, Delta, StagesCoherent, TextCoherent, StreamAssumption
<1>2. /\ raw \in Seq(Letters) /\ t \in Seq(Letters) /\ Len(t) \in Nat /\ Len(raw) = Cut(Len(t))
      /\ PrefixOf(raw, t) /\ streamed = ForClient(raw)
  BY TextFacts, LenProperties
<1>3. /\ received' = c /\ Len(received) + Len(d) <= MaxText
      /\ raw' = head /\ tail' = From(c, n) /\ streamed' = shown /\ out' = sent
      /\ commits' = commits \cup {n}
      /\ UNCHANGED <<stage, point, decision, outcome, mode, piiBlocks, failing, prompts, left, usage,
                     recorded, refused>>
  BY <1>1 DEF Delta, Decide, Commit, control, given
<1>4. /\ c \in Seq(Letters) /\ Len(c) = Len(t) + Len(d) /\ PrefixOf(t, c)
      /\ Len(c) \in Nat /\ Len(d) \in Nat /\ Len(c) <= MaxText /\ MaxText \in Nat
  <2>1. c \in Seq(Letters) /\ Len(c) = Len(t) + Len(d) /\ PrefixOf(t, c)
    BY <1>1, <1>2, PrefixOfLonger
  <2>2. Len(c) \in Nat /\ Len(d) \in Nat
    BY <1>1, <2>1, LenProperties
  <2> QED
    BY <1>1, <1>3, <2>1, <2>2 DEF StreamAssumption
<1> HIDE DEF t, c
<1>5. n \in 0 .. Len(c) /\ n \in Nat /\ n <= MaxText /\ Len(raw) <= n
  BY <1>2, <1>4, CutFacts
<1> HIDE DEF n
<1>6. /\ head \in Seq(Letters) /\ Len(head) = n /\ \A i \in 1 .. n : head[i] = c[i]
      /\ From(c, n) \in Seq(Letters) /\ Len(From(c, n)) = Len(c) - n
      /\ head \o From(c, n) = c
  <2>1. c \in Seq(Letters) /\ n \in 0 .. Len(c)
    BY <1>4, <1>5
  <2> QED
    BY <2>1, PieceFacts, Zenon
<1> HIDE DEF head
<1>7. shown \in Seq(Shown) /\ sent \in Seq(Shown)
  BY <1>6, ForClientFacts, SentIsText
<1> HIDE DEF sent, shown
<1>8. TypeOK'
  <2>1. {raw', tail', received'} \subseteq Seq(Letters) /\ {streamed', out'} \subseteq Seq(Shown)
    BY <1>3, <1>4, <1>6, <1>7
  <2>2. commits' \subseteq 0 .. MaxText
    BY <1>1, <1>3, <1>4, <1>5 DEF TypeOK
  <2> QED
    BY <1>1, <1>3, <2>1, <2>2 DEF TypeOK
<1>9. StagesCoherent' /\ RecordedUnlessRefused'
  BY <1>1, <1>3 DEF StagesCoherent, RecordedUnlessRefused, PromptsExpire
<1>10. PrefixOf(head, c) /\ PrefixOf(raw, head) /\ PrefixOf(c, c)
  <2>1. PrefixOf(head, c) /\ PrefixOf(c, c)
    BY <1>4, <1>5, <1>6, PrefixFacts
  <2>2. Len(raw) \in Nat /\ Len(raw) <= Len(t) /\ \A i \in 1 .. Len(raw) : t[i] = raw[i]
    BY <1>2, PrefixFacts, LenProperties
  <2>3. Len(t) <= Len(c) /\ \A i \in 1 .. Len(t) : c[i] = t[i]
    BY <1>2, <1>4, PrefixFacts
  <2>4. Len(raw) <= Len(head) /\ \A i \in 1 .. Len(raw) : head[i] = raw[i]
    BY <1>2, <1>5, <1>6, <2>2, <2>3
  <2> QED
    BY <1>2, <1>6, <2>1, <2>4, PrefixFacts
<1>11. ASSUME mode = "block" \/ Uncut(head) PROVE sent = shown
  BY <1>1, <1>6, <1>10, <1>11, CatchesUp DEF sent, shown
<1>12. piiBlocks => ~HasMatch(c)
  BY <1>1 DEF Delta, Decide, Flagged, c, t
<1>13. TextCoherent'
  <2>1. raw' \o tail' = c /\ received' = c
    BY <1>3, <1>6
  <2>2. shown = ForClient(head)
    BY DEF shown
  <2>3. Uncut(raw)' => Uncut(head)
    BY <1>3 DEF Uncut
  <2>4. Len(raw') \in commits' /\ Len(raw') = Cut(Len(raw') + Len(tail'))
    <3>1. Len(raw') = n /\ Len(raw') + Len(tail') = Len(c)
      BY <1>3, <1>4, <1>5, <1>6
    <3> QED
      BY <1>3, <3>1 DEF n
  <2>5. streamed' = ForClient(raw)'
    BY <1>3, <2>2 DEF ForClient
  <2>6. mode' = "block" \/ Uncut(raw)' => out' = streamed'
    BY <1>3, <1>11, <2>3
  <2>7. \A m \in commits' : m <= Len(raw')
    <3>1. Len(raw) \in Nat /\ \A m \in commits : m \in Nat /\ m <= Len(raw)
      BY <1>1, <1>2, LenProperties DEF TypeOK, TextCoherent
    <3>2. \A m \in commits \cup {n} : m <= n
      BY <1>5, <3>1
    <3> QED
      BY <1>3, <1>6, <3>2
  <2>8. outcome' = "none" /\ point' = "preflight" /\ mode' = mode /\ piiBlocks' = piiBlocks
    BY <1>1, <1>3
  <2>9. PrefixOf(raw' \o tail', received') /\ (piiBlocks' => ~HasMatch(raw' \o tail'))
    BY <1>10, <1>12, <2>1, <2>8
  <2> HIDE DEF sent, shown, head, n, c, t
  <2> QED
    BY <2>1, <2>4, <2>5, <2>6, <2>7, <2>8, <2>9 DEF TextCoherent
<1> QED
  BY <1>8, <1>9, <1>13 DEF StreamInv

(* A line that takes the answer over a threshold: nothing of it is kept.   *)
LEMMA BlockKeeps ==
    ASSUME StreamAssumption, StreamInv, NEW d \in Deltas, Delta(d), stage' # "stream"
    PROVE  StreamInv'
<1>1. /\ TypeOK /\ StagesCoherent /\ RecordedUnlessRefused /\ TextCoherent
      /\ stage = "stream" /\ point = "preflight" /\ outcome = "none" /\ left >= 1
      /\ raw \o tail = received /\ d \in Seq(Letters)
  BY DEF StreamInv, Delta, StagesCoherent, TextCoherent, StreamAssumption
<1>2. /\ received' = received \o d
      /\ point' = "chunk" /\ decision' = "BLOCK" /\ stage' = "account" /\ outcome' = outcome
      /\ UNCHANGED <<raw, streamed, tail, commits, out, mode, piiBlocks, failing, prompts, left, usage,
                     recorded, refused>>
  BY DEF Delta, Decide, control, given
<1>3. received \in Seq(Letters) /\ received' \in Seq(Letters) /\ PrefixOf(received, received')
  BY <1>1, <1>2, TextFacts, PrefixOfLonger
<1>4. TypeOK'
  BY <1>1, <1>2, <1>3 DEF TypeOK
<1>5. StagesCoherent' /\ RecordedUnlessRefused'
  BY <1>1, <1>2 DEF StagesCoherent, RecordedUnlessRefused, PromptsExpire
<1>6. TextCoherent'
  BY <1>1, <1>2, <1>3 DEF TextCoherent, ForClient, Uncut
<1> QED
  BY <1>4, <1>5, <1>6 DEF StreamInv

(* Every step keeps what the properties rest on.                           *)
LEMMA StreamInductive ==
    /\ Init => StreamInv
    /\ StreamInv /\ [Next]_vars => StreamInv'
<1>1. StreamAssumption
  BY StreamAssumption
<1>2. Init => StreamInv
  BY <1>1, StreamStarts
<1>3. ASSUME StreamInv,
             \/ Deny \/ Admit \/ StorePrompt \/ ExpirePrompt \/ ExpireFails \/ ReserveUsage \/ Connect
             \/ ProviderFails \/ Fail \/ JudgeWhole \/ FinalizeUsage \/ FinalizeFails \/ Record
             \/ RecordRefused \/ Refuse \/ Notice \/ Leave
      PROVE  StreamInv'
  <2>1. TypeOK /\ StagesCoherent /\ RecordedUnlessRefused /\ TextCoherent
    BY <1>3 DEF StreamInv
  <2>2. /\ TypeOK' /\ StagesCoherent' /\ RecordedUnlessRefused'
        /\ UNCHANGED <<mode, piiBlocks, text>> /\ outcome # "delivered" /\ outcome' # "delivered"
        /\ point # "chunk" \/ point' = "chunk"
    BY <1>1, <1>3, <2>1, GatesKeepStages, DecisionsKeepStages, Zenon
  <2> QED
    BY <2>1, <2>2, TextStays DEF StreamInv
<1>4. ASSUME StreamInv, NEW d \in Deltas, Delta(d) PROVE StreamInv'
  BY <1>1, <1>4, CommitKeeps, BlockKeeps
<1>5. ASSUME StreamInv, UNCHANGED vars PROVE StreamInv'
  <2>1. UNCHANGED <<stage, mode, piiBlocks, failing, prompts, raw, streamed, tail, left, usage, point,
                    decision, outcome, recorded, received, commits, refused, out>>
    BY <1>5 DEF vars, given
  <2>2. TypeOK' /\ StagesCoherent'
    BY <1>5, <2>1 DEF StreamInv, TypeOK, StagesCoherent
  <2>3. RecordedUnlessRefused'
    BY <1>5, <2>1 DEF StreamInv, RecordedUnlessRefused, PromptsExpire
  <2>4. TextCoherent'
    BY <1>5, <2>1 DEF StreamInv, TextCoherent, ForClient, Uncut
  <2> QED
    BY <2>2, <2>3, <2>4 DEF StreamInv
<1>6. ASSUME StreamInv, Next PROVE StreamInv'
  BY <1>1, <1>3, <1>4, <1>6, SendTailKeeps DEF Next
<1> QED
  BY <1>2, <1>5, <1>6

(* The invariant holds of every request.                                   *)
LEMMA StreamHolds == Spec => []StreamInv
BY StreamInductive, PTL DEF Spec

(* streaming_runtime.py, lines 166 to 251: while an answer comes in, over  *)
(* however many providers, the proxy holds back the last STREAM_WINDOW     *)
(* characters and nothing else, and no text is lost or sent twice.         *)
THEOREM WindowHeldBack == Spec => []HoldsBackWindow
<1>1. StreamInv => HoldsBackWindow
  <2> SUFFICES ASSUME StreamInv, stage = "stream"
               PROVE  /\ raw \o tail = received
                      /\ Len(tail) = (IF Len(received) < Window THEN Len(received) ELSE Window)
                      /\ mode = "block" => out = raw
    BY DEF HoldsBackWindow
  <2>1. raw \o tail = received /\ outcome = "none"
    BY DEF StreamInv, StagesCoherent, TextCoherent
  <2>2. /\ Len(received) = Len(raw) + Len(tail) /\ Len(raw) = Cut(Len(received))
        /\ Len(raw) \in Nat /\ Len(tail) \in Nat
    BY <2>1, TextFacts
  <2>3. Len(received) - Cut(Len(received)) = (IF Len(received) < Window THEN Len(received) ELSE Window)
    <3>1. Len(received) \in Nat /\ StreamAssumption
      BY <2>2, StreamAssumption
    <3> QED
      BY <3>1, CutFacts
  <2>4. mode = "block" => out = raw
    BY <2>1 DEF StreamInv, TextCoherent, ForClient
  <2> QED
    BY <2>1, <2>2, <2>3, <2>4
<1> QED
  BY <1>1, StreamHolds, PTL

(* streaming_runtime.py, lines 202 to 330: what is judged is the           *)
(* normalised text of all that came, and it is longer by the window than   *)
(* what is sent, so a match in it stops the stream before any of it went,  *)
(* if it spans no more than the window and a character.                    *)
THEOREM MatchesStayInside == Spec => []NoPartOfMatchSent
<1>1. StreamInv => NoPartOfMatchSent
  <2> SUFFICES ASSUME StreamInv, piiBlocks,
                      NEW a \in 1 .. Len(received), NEW c \in 1 .. Len(received),
                      MatchSpans(received, a, c)
               PROVE  /\ outcome # "delivered"
                      /\ c - a <= Window => /\ Len(raw) < a
                                            /\ mode = "block" => Len(out) < a
    BY DEF NoPartOfMatchSent
  <2> DEFINE t == raw \o tail
  <2>1. /\ t \in Seq(Letters) /\ received \in Seq(Letters) /\ raw \in Seq(Letters)
        /\ Len(t) \in Nat /\ Len(raw) \in Nat /\ Len(raw) = Cut(Len(t))
        /\ PrefixOf(t, received) /\ streamed = ForClient(raw) /\ Len(received) \in Nat
    BY TextFacts, LenProperties
  <2>2. ~HasMatch(t) /\ (outcome = "delivered" => t = received)
    BY DEF StreamInv, TextCoherent
  <2> HIDE DEF t
  <2>3. c > Len(t)
    <3> SUFFICES ASSUME c <= Len(t) PROVE FALSE
      BY <2>1
    <3>1. a \in Nat \ {0} /\ c \in Nat \ {0}
      BY <2>1
    <3>2. a < c /\ MatchSpans(t, a, c)
      BY <2>1, <3>1, SpanOfPrefix
    <3>3. a \in 1 .. Len(t) /\ c \in 1 .. Len(t)
      BY <2>1, <3>1, <3>2
    <3> QED
      BY <2>2, <3>2, <3>3 DEF HasMatch
  <2>4. outcome # "delivered"
    BY <2>1, <2>2, <2>3
  <2>5. ASSUME c - a <= Window PROVE Len(raw) < a
    BY <2>1, <2>3, <2>5, StreamAssumption DEF Cut, StreamAssumption
  <2>6. mode = "block" => out = raw
    BY <2>1, <2>4 DEF StreamInv, TextCoherent, ForClient
  <2> QED
    BY <2>4, <2>5, <2>6
<1> QED
  BY <1>1, StreamHolds, PTL

(* However an answer is cut into lines, what the client sees of it is its  *)
(* redaction as long as every prefix that was committed has the matches    *)
(* the answer has there: redact_pii, taken of every prefix anew, is then   *)
(* taken of the whole.                                                     *)
THEOREM RedactionIsWhole == Spec => []RedactedUnlessCut
<1>1. StreamInv => RedactedUnlessCut
  <2> SUFFICES ASSUME StreamInv, Uncut(received)
               PROVE  /\ PrefixOf(out, ForClient(received))
                      /\ outcome = "delivered" => out = ForClient(received)
    BY DEF RedactedUnlessCut
  <2>1. /\ raw \in Seq(Letters) /\ raw \o tail \in Seq(Letters) /\ received \in Seq(Letters)
        /\ PrefixOf(raw, raw \o tail) /\ PrefixOf(raw \o tail, received)
        /\ streamed = ForClient(raw) /\ ForClient(received) \in Seq(Shown)
    BY TextFacts, ForClientFacts
  <2>2. PrefixOf(raw, received)
    <3>1. /\ Len(raw) \in Nat /\ Len(raw) <= Len(raw \o tail)
          /\ \A i \in 1 .. Len(raw) : (raw \o tail)[i] = raw[i]
      BY <2>1, PrefixFacts, LenProperties
    <3>2. /\ Len(raw \o tail) \in Nat /\ Len(received) \in Nat /\ Len(raw \o tail) <= Len(received)
          /\ \A i \in 1 .. Len(raw \o tail) : received[i] = (raw \o tail)[i]
      BY <2>1, PrefixFacts, LenProperties
    <3>3. Len(raw) <= Len(received) /\ \A i \in 1 .. Len(raw) : received[i] = raw[i]
      BY <3>1, <3>2
    <3> QED
      BY <2>1, <3>3, PrefixFacts
  <2>3. CASE outcome = "delivered"
    <3>1. raw \o tail = received
      BY <2>3 DEF StreamInv, TextCoherent
    <3>2. out = ForClient(received)
      BY <2>3, <3>1 DEF StreamInv, TextCoherent
    <3> QED
      BY <2>1, <3>2, PrefixFacts, LenProperties
  <2>4. CASE outcome # "delivered"
    <3>1. CleanCut(received, Len(raw)) /\ Uncut(raw)
      BY <2>1, <2>2, CommittedCleanly
    <3>2. out = ForClient(raw)
      BY <2>4, <3>1 DEF StreamInv, TextCoherent
    <3> QED
      BY <2>1, <2>2, <2>4, <3>1, <3>2, ForClientFacts
  <2> QED
    BY <2>3, <2>4
<1> QED
  BY <1>1, StreamHolds, PTL

(* A request that was denied, blocked or answered is in the ledger with    *)
(* that decision unless the ledger or the accounting refused, and leaves   *)
(* no prompt without an end but for a failed EXPIRE or a client that left  *)
(* between RPUSH and EXPIRE.                                               *)
THEOREM DecisionsRecorded == Spec => []RecordedUnlessRefused
<1>1. StreamInv => RecordedUnlessRefused
  BY DEF StreamInv
<1> QED
  BY <1>1, StreamHolds, PTL

-----------------------------------------------------------------------------
(* The risk of an answer.                                                *)

(* Of some finite sets one has the fewest elements, and no set smaller by  *)
(* one element is among them.                                              *)
LEMMA SmallestSet ==
    ASSUME NEW D, D # {}, \A s \in D : IsFiniteSet(s)
    PROVE  \E s \in D : \A x \in s : s \ {x} \notin D
<1> DEFINE N == {Cardinality(s) : s \in D}
<1>1. N \subseteq Nat /\ N # {}
  BY FS_CardinalityType
<1>2. PICK d \in N : \A e \in N : d <= e
  <2> HIDE DEF N
  <2> QED
    BY <1>1, FirstOfSome, Zenon
<1>3. PICK s \in D : d = Cardinality(s)
  BY <1>2
<1>4. ASSUME NEW x \in s, s \ {x} \in D PROVE FALSE
  <2>1. Cardinality(s \ {x}) = Cardinality(s) - 1 /\ Cardinality(s) \in Nat
    BY <1>3, <1>4, FS_RemoveElement, FS_CardinalityType
  <2>2. d <= Cardinality(s \ {x})
    BY <1>2, <1>4
  <2> QED
    BY <1>3, <2>1, <2>2
<1> QED
  BY <1>3, <1>4

(* The recursion of a sum over the subsets of S.                           *)
Chosen(s) == CHOOSE x \in s : TRUE
SumsUp(weight, S, f) ==
    f = [s \in SUBSET S |-> IF s = {} THEN 0 ELSE weight[Chosen(s)] + f[s \ {Chosen(s)}]]

(* ... has a solution: one on the sets of n elements extends to those of   *)
(* n + 1.                                                                  *)
LEMMA FoldsExist ==
    ASSUME NEW weight, NEW S, IsFiniteSet(S) PROVE \E f : SumsUp(weight, S, f)
<1> DEFINE Upto(n) == {s \in SUBSET S : Cardinality(s) <= n}
           Solves(n, f) == f = [s \in Upto(n) |-> IF s = {} THEN 0 ELSE weight[Chosen(s)] + f[s \ {Chosen(s)}]]
           D == {n \in Nat : ~\E f : Solves(n, f)}
<1>0. \A s \in SUBSET S : IsFiniteSet(s) /\ Cardinality(s) \in Nat /\ Cardinality(s) <= Cardinality(S)
  BY FS_Subset, FS_CardinalityType
<1>a. \A s \in SUBSET S : s # {} => /\ Chosen(s) \in s /\ s \ {Chosen(s)} \in SUBSET S
                                    /\ Cardinality(s \ {Chosen(s)}) = Cardinality(s) - 1
                                    /\ Cardinality(s) # 0
  <2>1. SUFFICES ASSUME NEW s \in SUBSET S, s # {}
                 PROVE  /\ Chosen(s) \in s /\ s \ {Chosen(s)} \in SUBSET S
                        /\ Cardinality(s \ {Chosen(s)}) = Cardinality(s) - 1 /\ Cardinality(s) # 0
    OBVIOUS
  <2>2. Chosen(s) \in s
    BY <2>1 DEF Chosen
  <2> QED
    BY <1>0, <2>1, <2>2, FS_RemoveElement, FS_EmptySet
<1>1. ASSUME D # {} PROVE FALSE
  <2>1. PICK d \in D : \A e \in D : d <= e
    <3>1. D \subseteq Nat
      OBVIOUS
    <3> HIDE DEF D
    <3> QED
      BY <1>1, <3>1, FirstOfSome, Zenon
  <2>2. CASE d = 0
    <3> DEFINE f == [s \in Upto(0) |-> 0]
    <3>1. \A s \in Upto(0) : s = {}
      <4>1. SUFFICES ASSUME NEW s \in SUBSET S, Cardinality(s) <= 0 PROVE s = {}
        OBVIOUS
      <4>2. IsFiniteSet(s) /\ Cardinality(s) \in Nat
        BY <1>0
      <4>3. Cardinality(s) = 0
        BY <4>1, <4>2
      <4> QED
        BY <4>2, <4>3, FS_EmptySet
    <3>2. f = [s \in Upto(0) |-> IF s = {} THEN 0 ELSE weight[Chosen(s)] + f[s \ {Chosen(s)}]]
      BY <3>1
    <3>3. Solves(0, f)
      <4> HIDE DEF Upto
      <4> QED
        BY <3>2
    <3>4. 0 \notin D
      BY <3>3, Zenon
    <3> QED
      BY <2>1, <2>2, <3>4
  <2>3. CASE d # 0
    <3>1. d - 1 \in Nat /\ d - 1 \notin D /\ d \in Nat
      <4>1. D \subseteq Nat
        OBVIOUS
      <4> HIDE DEF D
      <4> QED
        BY <2>1, <2>3, <4>1
    <3>2. PICK g : Solves(d - 1, g)
      BY <3>1
    <3>3. \A s \in Upto(d - 1) : g[s] = IF s = {} THEN 0 ELSE weight[Chosen(s)] + g[s \ {Chosen(s)}]
      <4> HIDE DEF Upto
      <4>1. g = [s \in Upto(d - 1) |-> IF s = {} THEN 0 ELSE weight[Chosen(s)] + g[s \ {Chosen(s)}]]
        BY <3>2
      <4> DEFINE body(s) == IF s = {} THEN 0 ELSE weight[Chosen(s)] + g[s \ {Chosen(s)}]
                 h == [s \in Upto(d - 1) |-> body(s)]
      <4>2. \A s \in Upto(d - 1) : h[s] = body(s)
        <5> HIDE DEF body
        <5> QED
          OBVIOUS
      <4>3. h = g
        BY <4>1
      <4> HIDE DEF h
      <4> QED
        BY <4>2, <4>3, Zenon
    <3> DEFINE f == [s \in Upto(d) |-> IF s \in Upto(d - 1) THEN g[s]
                                       ELSE weight[Chosen(s)] + g[s \ {Chosen(s)}]]
    <3>4. ASSUME NEW s \in Upto(d)
          PROVE  f[s] = IF s = {} THEN 0 ELSE weight[Chosen(s)] + f[s \ {Chosen(s)}]
      <4>1. CASE s = {}
        <5>1. s \in Upto(d - 1)
          BY <3>1, <4>1, FS_EmptySet
        <5>2. f[s] = g[s]
          BY <3>4, <5>1, Zenon
        <5> QED
          BY <3>3, <4>1, <5>1, <5>2, Zenon
      <4>2. CASE s # {}
        <5>1. s \in SUBSET S /\ Cardinality(s) <= d
          BY <3>4
        <5>2. s \ {Chosen(s)} \in SUBSET S /\ Cardinality(s \ {Chosen(s)}) = Cardinality(s) - 1 /\ Cardinality(s) \in Nat
          BY <1>0, <1>a, <4>2, <5>1
        <5>3. s \ {Chosen(s)} \in Upto(d - 1) /\ s \ {Chosen(s)} \in Upto(d)
          BY <3>1, <5>1, <5>2
        <5>4. f[s \ {Chosen(s)}] = g[s \ {Chosen(s)}]
          BY <5>3, Zenon
        <5>5. f[s] = weight[Chosen(s)] + g[s \ {Chosen(s)}]
          <6>1. CASE s \in Upto(d - 1)
            <7>1. f[s] = g[s]
              BY <3>4, <6>1, Zenon
            <7> QED
              BY <3>3, <4>2, <6>1, <7>1, Zenon
          <6>2. CASE s \notin Upto(d - 1)
            BY <3>4, <6>2, Zenon
          <6> QED
            BY <6>1, <6>2
        <5> QED
          BY <4>2, <5>4, <5>5, Zenon
      <4> QED
        BY <4>1, <4>2
    <3>5. Solves(d, f)
      <4>1. [s \in Upto(d) |-> IF s = {} THEN 0 ELSE weight[Chosen(s)] + f[s \ {Chosen(s)}]]
            = [s \in Upto(d) |-> f[s]]
        BY <3>4, Zenon
      <4>2. f = [s \in Upto(d) |-> f[s]]
        <5> DEFINE T == Upto(d)
                   body(s) == IF s \in Upto(d - 1) THEN g[s] ELSE weight[Chosen(s)] + g[s \ {Chosen(s)}]
        <5> HIDE DEF T, body, Upto
        <5>1. f = [s \in T |-> body(s)]
          BY DEF T, body
        <5>2. \A s \in T : f[s] = body(s)
          BY <5>1
        <5> QED
          BY <5>1, <5>2 DEF T
      <4> QED
        BY <4>1, <4>2
    <3>6. d \notin D
      BY <3>5, Zenon
    <3> QED
      BY <2>1, <3>6
  <2> QED
    BY <2>2, <2>3
<1>2. Cardinality(S) \in Nat /\ Cardinality(S) \notin D
  BY <1>1, FS_CardinalityType
<1>3. Upto(Cardinality(S)) = SUBSET S
  BY <1>0
<1>4. PICK f : Solves(Cardinality(S), f)
  BY <1>2
<1>5. f = [s \in SUBSET S |-> IF s = {} THEN 0 ELSE weight[Chosen(s)] + f[s \ {Chosen(s)}]]
  BY <1>3, <1>4, Zenon
<1> QED
  BY <1>5, Zenon DEF SumsUp


(* What Sum is: Fold is a solution of the recursion on the text.           *)
LEMMA SumIsFold ==
    ASSUME NEW part, NEW weight, IsFiniteSet(DOMAIN weight)
    PROVE  \E f : SumsUp(weight, part \cap DOMAIN weight, f) /\ Sum(part, weight) = f[part \cap DOMAIN weight]
<1> DEFINE S == part \cap DOMAIN weight
           fold == CHOOSE f : SumsUp(weight, S, f)
<1>1. IsFiniteSet(S)
  BY FS_Subset
<1>2. SumsUp(weight, S, fold)
  <2> HIDE DEF S
  <2> QED
    BY <1>1, FoldsExist, Zenon
<1>3. Sum(part, weight) = fold[S]
  BY Zenon DEF Sum, MapThenSumSet, MapThenFoldSet, SumsUp, Chosen
<1> HIDE DEF fold
<1> QED
  BY <1>2, <1>3, Zenon

LEMMA FoldStep ==
    ASSUME NEW weight, NEW S, NEW f, SumsUp(weight, S, f)
    PROVE  \A s \in SUBSET S :
             /\ s = {} => f[s] = 0
             /\ s # {} => Chosen(s) \in s /\ f[s] = weight[Chosen(s)] + f[s \ {Chosen(s)}]
<1> SUFFICES ASSUME NEW s \in SUBSET S
             PROVE  /\ s = {} => f[s] = 0
                    /\ s # {} => Chosen(s) \in s /\ f[s] = weight[Chosen(s)] + f[s \ {Chosen(s)}]
  OBVIOUS
<1> DEFINE body(t) == IF t = {} THEN 0 ELSE weight[Chosen(t)] + f[t \ {Chosen(t)}]
           h == [t \in SUBSET S |-> body(t)]
<1>1. h = f
  BY DEF SumsUp
<1>2. h[s] = body(s)
  <2> HIDE DEF body
  <2> QED
    OBVIOUS
<1>3. f[s] = body(s)
  <2> HIDE DEF h, body
  <2> QED
    BY <1>1, <1>2, Zenon
<1>4. s = {} => f[s] = 0
  BY <1>3
<1>5. s # {} => f[s] = weight[Chosen(s)] + f[s \ {Chosen(s)}]
  BY <1>3
<1>6. s # {} => Chosen(s) \in s
  BY DEF Chosen
<1> QED
  BY <1>4, <1>5, <1>6

(* Two solutions agree where both are defined.                             *)
LEMMA FoldsAgree ==
    ASSUME NEW weight, NEW S, NEW T, IsFiniteSet(S), S \subseteq T, NEW f, NEW g,
           SumsUp(weight, S, f), SumsUp(weight, T, g)
    PROVE  f[S] = g[S]
<1> DEFINE D == {s \in SUBSET S : f[s] # g[s]}
<1>1. ASSUME D # {} PROVE FALSE
  <2>a. \A s \in D : IsFiniteSet(s)
    BY FS_Subset
  <2>2. PICK s \in D : \A x \in s : s \ {x} \notin D
    <3> HIDE DEF D
    <3> QED
      BY <1>1, <2>a, SmallestSet, Zenon
  <2>0. s \in SUBSET S /\ s \in SUBSET T /\ f[s] # g[s]
    BY <2>2
  <2>1. /\ s = {} => f[s] = 0
        /\ s # {} => Chosen(s) \in s /\ f[s] = weight[Chosen(s)] + f[s \ {Chosen(s)}]
    <3>1. s \in SUBSET S
      BY <2>0
    <3> HIDE DEF D
    <3> QED
      BY <3>1, FoldStep
  <2>3. /\ s = {} => g[s] = 0
        /\ s # {} => Chosen(s) \in s /\ g[s] = weight[Chosen(s)] + g[s \ {Chosen(s)}]
    <3>1. s \in SUBSET T
      BY <2>0
    <3> HIDE DEF D
    <3> QED
      BY <3>1, FoldStep
  <2>4. s # {}
    BY <2>0, <2>1, <2>3
  <2>5. Chosen(s) \in s
    BY <2>1, <2>4
  <2>6. f[s \ {Chosen(s)}] = g[s \ {Chosen(s)}]
    BY <2>2, <2>5
  <2> HIDE DEF D
  <2> QED
    BY <2>0, <2>1, <2>3, <2>4, <2>6
<1> QED
  BY <1>1

Natural(weight, S) == \A x \in S : weight[x] \in Nat

(* A solution for natural weights: numbers, any element may be taken out   *)
(* first, and a larger set has no smaller sum.                             *)
LEMMA FoldFacts ==
    ASSUME NEW weight, NEW S, IsFiniteSet(S), NEW f, SumsUp(weight, S, f), Natural(weight, S)
    PROVE  /\ \A s \in SUBSET S : f[s] \in Nat
           /\ \A s \in SUBSET S : \A x \in s : f[s] = weight[x] + f[s \ {x}]
           /\ \A s \in SUBSET S : f[s] <= f[S]
<1>0. \A s \in SUBSET S :
        /\ s = {} => f[s] = 0
        /\ s # {} => Chosen(s) \in s /\ f[s] = weight[Chosen(s)] + f[s \ {Chosen(s)}]
  BY FoldStep
<1>n. \A x \in S : weight[x] \in Nat
  BY DEF Natural
<1>1. \A s \in SUBSET S : f[s] \in Nat
  <2> DEFINE D == {s \in SUBSET S : f[s] \notin Nat}
  <2>1. ASSUME D # {} PROVE FALSE
    <3>1. \A s \in D : IsFiniteSet(s)
      BY FS_Subset
    <3>2. PICK s \in D : \A x \in s : s \ {x} \notin D
      <4> HIDE DEF D
      <4> QED
        BY <2>1, <3>1, SmallestSet, Zenon
    <3>3. s \in SUBSET S /\ f[s] \notin Nat
      BY <3>2
    <3>a. /\ s = {} => f[s] = 0
          /\ s # {} => Chosen(s) \in s /\ f[s] = weight[Chosen(s)] + f[s \ {Chosen(s)}]
      BY <1>0, <3>3
    <3>4. s # {}
      BY <3>a, <3>3
    <3>5. f[s \ {Chosen(s)}] \in Nat /\ weight[Chosen(s)] \in Nat
      BY <1>n, <3>a, <3>2, <3>3, <3>4
    <3> HIDE DEF D
    <3> QED
      BY <3>a, <3>3, <3>4, <3>5
  <2> QED
    BY <2>1
<1>2. \A s \in SUBSET S : \A x \in s : f[s] = weight[x] + f[s \ {x}]
  <2> DEFINE D == {s \in SUBSET S : \E x \in s : f[s] # weight[x] + f[s \ {x}]}
  <2>1. ASSUME D # {} PROVE FALSE
    <3>1. \A s \in D : IsFiniteSet(s)
      BY FS_Subset
    <3>2. PICK s \in D : \A x \in s : s \ {x} \notin D
      <4> HIDE DEF D
      <4> QED
        BY <2>1, <3>1, SmallestSet, Zenon
    <3>3. PICK x \in s : f[s] # weight[x] + f[s \ {x}]
      BY <3>2
    <3>4. PICK y \in s : f[s] = weight[y] + f[s \ {y}]
      BY <1>0, <3>2, <3>3
    <3>5. x # y /\ y \in s \ {x} /\ x \in s \ {y} /\ s \in SUBSET S
      BY <3>2, <3>3, <3>4
    <3>6. f[s \ {x}] = weight[y] + f[(s \ {x}) \ {y}] /\ f[s \ {y}] = weight[x] + f[(s \ {y}) \ {x}]
      <4>1. s \ {x} \in SUBSET S /\ s \ {y} \in SUBSET S /\ s \ {x} \notin D /\ s \ {y} \notin D
        BY <3>2, <3>5
      <4> QED
        BY <3>5, <4>1
    <3>7. (s \ {x}) \ {y} = (s \ {y}) \ {x}
      OBVIOUS
    <3>8. /\ weight[x] \in Nat /\ weight[y] \in Nat /\ f[s] \in Nat
          /\ f[s \ {x}] \in Nat /\ f[s \ {y}] \in Nat /\ f[(s \ {x}) \ {y}] \in Nat
      BY <1>1, <1>n, <3>5
    <3> HIDE DEF D
    <3> QED
      BY <3>3, <3>4, <3>6, <3>7, <3>8
  <2> QED
    BY <2>1
<1>3. \A s \in SUBSET S : f[s] <= f[S]
  <2>0. SUFFICES ASSUME NEW t \in SUBSET S PROVE f[t] <= f[S]
    OBVIOUS
  <2> DEFINE D == {s \in SUBSET S : t \subseteq s /\ ~(f[t] <= f[s])}
  <2>1. ASSUME D # {} PROVE FALSE
    <3>1. \A s \in D : IsFiniteSet(s)
      BY FS_Subset
    <3>2. PICK s \in D : \A x \in s : s \ {x} \notin D
      <4> HIDE DEF D
      <4> QED
        BY <2>1, <3>1, SmallestSet, Zenon
    <3>3. s \in SUBSET S /\ t \subseteq s /\ ~(f[t] <= f[s]) /\ f[t] \in Nat /\ f[s] \in Nat
      BY <1>1, <3>2
    <3>4. PICK x \in s : x \notin t
      BY <3>3
    <3>5. f[t] <= f[s \ {x}] /\ f[s \ {x}] \in Nat /\ weight[x] \in Nat
      BY <1>1, <1>n, <3>2, <3>3, <3>4
    <3>6. f[s] = weight[x] + f[s \ {x}]
      BY <1>2, <3>3
    <3> QED
      BY <3>3, <3>5, <3>6
  <2> QED
    BY <2>1
<1> QED
  BY <1>1, <1>2, <1>3

(* A longer text has no smaller sum.                                       *)
LEMMA SumFacts ==
    ASSUME NEW weight, IsFiniteSet(DOMAIN weight), \A p \in DOMAIN weight : weight[p] \in Nat,
           NEW part, NEW more, part \subseteq more
    PROVE  Sum(part, weight) \in Nat /\ Sum(more, weight) \in Nat /\ Sum(part, weight) <= Sum(more, weight)
<1> DEFINE S == part \cap DOMAIN weight
           T == more \cap DOMAIN weight
<1>1. IsFiniteSet(S) /\ IsFiniteSet(T) /\ S \subseteq T
  BY FS_Subset
<1>2. PICK f : SumsUp(weight, S, f) /\ Sum(part, weight) = f[S]
  BY SumIsFold, Zenon
<1>3. PICK g : SumsUp(weight, T, g) /\ Sum(more, weight) = g[T]
  BY SumIsFold, Zenon
<1>4. Natural(weight, T)
  BY DEF Natural
<1> HIDE DEF S, T
<1>5. f[S] = g[S]
  <2>1. SumsUp(weight, S, f) /\ SumsUp(weight, T, g)
    BY <1>2, <1>3
  <2> QED
    BY <1>1, <2>1, FoldsAgree
<1>6. /\ \A s \in SUBSET T : g[s] \in Nat
      /\ \A s \in SUBSET T : g[s] <= g[T]
  BY <1>1, <1>3, <1>4, FoldFacts, Zenon
<1> QED
  BY <1>1, <1>2, <1>3, <1>5, <1>6


-----------------------------------------------------------------------------
(* The lists of the source have few phrases.                               *)
LEMMA FiveAreFinite ==
    ASSUME NEW a, NEW b, NEW c, NEW d, NEW e PROVE IsFiniteSet({a, b, c, d, e})
<1>1. IsFiniteSet({a, b})
  <2>1. IsFiniteSet({a})
    BY FS_Singleton
  <2>2. IsFiniteSet({a} \cup {b})
    BY <2>1, FS_AddElement
  <2>3. {a} \cup {b} = {a, b}
    OBVIOUS
  <2> QED
    BY <2>2, <2>3
<1>2. IsFiniteSet({a, b, c})
  BY <1>1, FS_AddElement, {a, b, c} = {a, b} \cup {c}
<1>3. IsFiniteSet({a, b, c, d})
  BY <1>2, FS_AddElement, {a, b, c, d} = {a, b, c} \cup {d}
<1> QED
  BY <1>3, FS_AddElement, {a, b, c, d, e} = {a, b, c, d} \cup {e}

LEMMA TermsFinite ==
    IsFiniteSet(PiiPatterns) /\ IsFiniteSet(JailbreakTerms) /\ IsFiniteSet(GroomingTerms) /\ IsFiniteSet(ToxicTerms)
<1>1. IsFiniteSet({"email", "phone", "phone", "phone", "phone"})
  BY FiveAreFinite, Zenon
<1>2. IsFiniteSet({"ignore_previous_instructions", "system_prompt", "dan", "dan", "dan"})
  BY FiveAreFinite, Zenon
<1>3. IsFiniteSet({"how_old_are_you", "how_old_are_you", "how_old_are_you", "how_old_are_you", "how_old_are_you"})
  BY FiveAreFinite, Zenon
<1>4. IsFiniteSet({"idiot", "kill_yourself", "kill_yourself", "kill_yourself", "kill_yourself"})
  BY FiveAreFinite, Zenon
<1> QED
  BY <1>1, <1>2, <1>3, <1>4 DEF PiiPatterns, JailbreakTerms, GroomingTerms, ToxicTerms

LEMMA WeightsNatural ==
    /\ IsFiniteSet(DOMAIN DlpWeight) /\ \A p \in DOMAIN DlpWeight : DlpWeight[p] \in Nat
<1>1. DOMAIN DlpWeight = {"insider", "wire_transfer", "password", "malware", "how_old_are_you"}
  BY DEF DlpWeight
<1>2. IsFiniteSet({"insider", "wire_transfer", "password", "malware", "how_old_are_you"})
  BY FiveAreFinite, Zenon
<1>3. IsFiniteSet(DOMAIN DlpWeight)
  BY <1>1, <1>2, Zenon
<1>4. \A p \in DOMAIN DlpWeight : DlpWeight[p] \in Nat
  BY DEF DlpWeight
<1> QED
  BY <1>3, <1>4

(* The axes of a longer text are no lower.                                 *)
Below(x, y) ==
    /\ x.pii <= y.pii /\ x.jailbreak <= y.jailbreak /\ x.grooming <= y.grooming
    /\ x.toxicity <= y.toxicity /\ x.dlp <= y.dlp /\ x.semantic <= y.semantic
    /\ x.drift <= y.drift /\ x.context <= y.context
AxisType == [pii : Nat, jailbreak : Nat, grooming : Nat, toxicity : Nat, dlp : Nat,
             semantic : Nat, drift : Nat, context : {0, 1000}]

LEMMA CountFacts ==
    ASSUME NEW terms, IsFiniteSet(terms), NEW each \in Nat, NEW part, NEW more, part \subseteq more
    PROVE  /\ Count(part, terms, each) \in Nat /\ Count(more, terms, each) \in Nat
           /\ Count(part, terms, each) <= Count(more, terms, each)
<1> DEFINE m == Cardinality(part \cap terms)
           n == Cardinality(more \cap terms)
<1>1. m \in Nat /\ n \in Nat /\ m <= n
  <2>1. IsFiniteSet(more \cap terms) /\ part \cap terms \in SUBSET (more \cap terms)
    BY FS_Subset
  <2> QED
    BY <2>1, FS_Subset, FS_CardinalityType
<1> HIDE DEF m, n
<1>2. each * m \in Nat /\ each * n \in Nat /\ each * m <= each * n
  <2>1. PICK k \in Nat : n = m + k
    <3>1. n - m \in Nat /\ n = m + (n - m)
      BY <1>1
    <3> QED
      BY <3>1
  <2>2. each * n = each * m + each * k /\ each * k \in Nat /\ each * m \in Nat
    BY <1>1, <2>1
  <2> QED
    BY <2>2
<1>3. Clamp(each * m) \in Nat /\ Clamp(each * n) \in Nat /\ Clamp(each * m) <= Clamp(each * n)
  BY <1>2 DEF Clamp
<1> QED
  BY <1>3 DEF Count, m, n

LEMMA DlpFacts ==
    ASSUME NEW part, NEW more, part \subseteq more
    PROVE  Dlp(part) \in Nat /\ Dlp(more) \in Nat /\ Dlp(part) <= Dlp(more)
<1> DEFINE m == Sum(part, DlpWeight)
           n == Sum(more, DlpWeight)
<1>1. m \in Nat /\ n \in Nat /\ m <= n
  BY WeightsNatural, SumFacts
<1> HIDE DEF m, n
<1>2. Contains(part, Steps) => Contains(more, Steps)
  BY DEF Contains
<1>3. /\ m <= (m * 115) \div 100 /\ (m * 115) \div 100 <= (n * 115) \div 100
      /\ (m * 115) \div 100 \in Nat /\ (n * 115) \div 100 \in Nat
  BY <1>1
<1>4. Dlp(part) = Clamp(IF Contains(part, Steps) THEN (m * 115) \div 100 ELSE m)
  BY Zenon DEF Dlp, m
<1>5. Dlp(more) = Clamp(IF Contains(more, Steps) THEN (n * 115) \div 100 ELSE n)
  BY Zenon DEF Dlp, n
<1> QED
  BY <1>1, <1>2, <1>3, <1>4, <1>5 DEF Clamp

LEMMA AxesFacts ==
    ASSUME NEW part, NEW more, part \subseteq more,
           NEW f \in [intel : 0 .. 1000, semantic : 0 .. 1000, drift : 0 .. 1000]
    PROVE  Axes(part, f) \in AxisType /\ Axes(more, f) \in AxisType /\ Below(Axes(part, f), Axes(more, f))
<1>1. /\ Count(part, PiiPatterns, 350) \in Nat /\ Count(more, PiiPatterns, 350) \in Nat
      /\ Count(part, PiiPatterns, 350) <= Count(more, PiiPatterns, 350)
  BY CountFacts, TermsFinite
<1>2. /\ Count(part, JailbreakTerms, 250) \in Nat /\ Count(more, JailbreakTerms, 250) \in Nat
      /\ Count(part, JailbreakTerms, 250) <= Count(more, JailbreakTerms, 250)
  BY CountFacts, TermsFinite
<1>3. /\ Count(part, GroomingTerms, 250) \in Nat /\ Count(more, GroomingTerms, 250) \in Nat
      /\ Count(part, GroomingTerms, 250) <= Count(more, GroomingTerms, 250)
  BY CountFacts, TermsFinite
<1>4. /\ Count(part, ToxicTerms, 350) \in Nat /\ Count(more, ToxicTerms, 350) \in Nat
      /\ Count(part, ToxicTerms, 350) <= Count(more, ToxicTerms, 350)
  BY CountFacts, TermsFinite
<1>5. Dlp(part) \in Nat /\ Dlp(more) \in Nat /\ Dlp(part) <= Dlp(more)
  BY DlpFacts
<1>6. f.intel \in Nat /\ f.semantic \in Nat /\ f.drift \in Nat
  <2>1. f.intel \in Nat
    OBVIOUS
  <2>2. f.semantic \in Nat
    OBVIOUS
  <2>3. f.drift \in Nat
    OBVIOUS
  <2> QED
    BY <2>1, <2>2, <2>3
<1>7. "long" \in part => "long" \in more
  OBVIOUS
<1>8. Axes(part, f) \in AxisType /\ Axes(more, f) \in AxisType
  BY <1>1, <1>2, <1>3, <1>4, <1>5, <1>6 DEF Axes, AxisType, Larger
<1>9. Below(Axes(part, f), Axes(more, f))
  BY <1>1, <1>2, <1>3, <1>4, <1>5, <1>6, <1>7 DEF Axes, Below, Larger
<1> QED
  BY <1>8, <1>9


(* What the policies ask for.                                              *)
WeightType == [pii : Nat, jailbreak : Nat, grooming : Nat, toxicity : Nat, drift : Nat, dlp : Nat, semantic : Nat]

LEMMA ProductFacts ==
    ASSUME NEW a \in Nat, NEW b \in Nat, NEW w \in Nat, a <= b
    PROVE  a * w \in Nat /\ b * w \in Nat /\ a * w <= b * w
<1>1. PICK k \in Nat : b = a + k
  <2>1. b - a \in Nat /\ b = a + (b - a)
    OBVIOUS
  <2> QED
    BY <2>1
<1>2. b * w = a * w + k * w /\ k * w \in Nat /\ a * w \in Nat
  BY <1>1
<1> QED
  BY <1>2

LEMMA MultipliedFacts ==
    ASSUME NEW m \in Nat, NEW n \in Nat, m <= n, NEW c \in {0, 1000}, NEW d \in {0, 1000}, c <= d
    PROVE  /\ Multiplied(m, c) \in Nat /\ Multiplied(n, d) \in Nat
           /\ Multiplied(m, c) <= Multiplied(n, d) /\ m <= Multiplied(m, c)
<1>1. /\ (m * (1000 + 0)) \div 1000 = m /\ (n * (1000 + 0)) \div 1000 = n
      /\ m <= (m * (1000 + 200)) \div 1000 /\ (m * (1000 + 200)) \div 1000 <= (n * (1000 + 200)) \div 1000
      /\ (m * (1000 + 200)) \div 1000 \in Nat /\ (n * (1000 + 200)) \div 1000 \in Nat
  OBVIOUS
<1>2. 0 \div 5 = 0 /\ 1000 \div 5 = 200
  OBVIOUS
<1>3. \A p, q \in Nat : p <= q => /\ p <= (p * 1751) \div 1000 /\ (p * 1751) \div 1000 <= (q * 1751) \div 1000
                                  /\ (p * 1751) \div 1000 \in Nat /\ (q * 1751) \div 1000 \in Nat
  OBVIOUS
<1> DEFINE p == (m * (1000 + c \div 5)) \div 1000
           q == (n * (1000 + d \div 5)) \div 1000
<1>4. p \in Nat /\ q \in Nat /\ p <= q /\ m <= p
  BY <1>1, <1>2
<1>5. Multiplied(m, c) = (p * 1751) \div 1000 /\ Multiplied(n, d) = (q * 1751) \div 1000
  BY DEF Multiplied
<1> HIDE DEF p, q
<1> QED
  BY <1>3, <1>4, <1>5

(* The total of a weighted sum.                                            *)
Severity(x, w) ==
    (x.pii * w.pii + x.jailbreak * w.jailbreak + x.grooming * w.grooming
                + x.toxicity * w.toxicity + x.drift * w.drift + x.dlp * w.dlp
                + x.semantic * w.semantic) \div 100

LEMMA TonyFacts ==
    ASSUME NEW w \in WeightType, NEW x \in AxisType, NEW y \in AxisType, Below(x, y)
    PROVE  /\ Tony(x, w) \in Nat /\ Tony(y, w) \in Nat /\ Tony(x, w) <= Tony(y, w)
           /\ (x.jailbreak * w.jailbreak + x.toxicity * w.toxicity) \div 100 <= Tony(x, w)
<1>0. /\ x.pii <= y.pii /\ x.jailbreak <= y.jailbreak /\ x.grooming <= y.grooming
      /\ x.toxicity <= y.toxicity /\ x.dlp <= y.dlp /\ x.semantic <= y.semantic
      /\ x.drift <= y.drift /\ x.context <= y.context
  BY DEF Below
<1>a. /\ x.pii \in Nat /\ x.jailbreak \in Nat /\ x.grooming \in Nat /\ x.toxicity \in Nat
      /\ x.drift \in Nat /\ x.dlp \in Nat /\ x.semantic \in Nat /\ x.context \in {0, 1000}
  BY DEF AxisType
<1>b. /\ y.pii \in Nat /\ y.jailbreak \in Nat /\ y.grooming \in Nat /\ y.toxicity \in Nat
      /\ y.drift \in Nat /\ y.dlp \in Nat /\ y.semantic \in Nat /\ y.context \in {0, 1000}
  BY DEF AxisType
<1>c. /\ w.pii \in Nat /\ w.jailbreak \in Nat /\ w.grooming \in Nat /\ w.toxicity \in Nat
      /\ w.drift \in Nat /\ w.dlp \in Nat /\ w.semantic \in Nat
  BY DEF WeightType
<1>1. x.pii * w.pii \in Nat /\ y.pii * w.pii \in Nat /\ x.pii * w.pii <= y.pii * w.pii
  BY <1>0, <1>a, <1>b, <1>c, ProductFacts
<1>2. x.jailbreak * w.jailbreak \in Nat /\ y.jailbreak * w.jailbreak \in Nat
      /\ x.jailbreak * w.jailbreak <= y.jailbreak * w.jailbreak
  BY <1>0, <1>a, <1>b, <1>c, ProductFacts
<1>3. x.grooming * w.grooming \in Nat /\ y.grooming * w.grooming \in Nat
      /\ x.grooming * w.grooming <= y.grooming * w.grooming
  BY <1>0, <1>a, <1>b, <1>c, ProductFacts
<1>4. x.toxicity * w.toxicity \in Nat /\ y.toxicity * w.toxicity \in Nat
      /\ x.toxicity * w.toxicity <= y.toxicity * w.toxicity
  BY <1>0, <1>a, <1>b, <1>c, ProductFacts
<1>5. x.drift * w.drift \in Nat /\ y.drift * w.drift \in Nat /\ x.drift * w.drift <= y.drift * w.drift
  BY <1>0, <1>a, <1>b, <1>c, ProductFacts
<1>6. x.dlp * w.dlp \in Nat /\ y.dlp * w.dlp \in Nat /\ x.dlp * w.dlp <= y.dlp * w.dlp
  BY <1>0, <1>a, <1>b, <1>c, ProductFacts
<1>7. x.semantic * w.semantic \in Nat /\ y.semantic * w.semantic \in Nat
      /\ x.semantic * w.semantic <= y.semantic * w.semantic
  BY <1>0, <1>a, <1>b, <1>c, ProductFacts
<1>8. /\ Severity(x, w) \in Nat /\ Severity(y, w) \in Nat /\ Severity(x, w) <= Severity(y, w)
      /\ (x.jailbreak * w.jailbreak + x.toxicity * w.toxicity) \div 100 <= Severity(x, w)
  <2>1. \A m, n \in Nat : m <= n => m \div 100 \in Nat /\ n \div 100 \in Nat /\ m \div 100 <= n \div 100
    OBVIOUS
  <2> DEFINE a == x.pii * w.pii + x.jailbreak * w.jailbreak + x.grooming * w.grooming
                + x.toxicity * w.toxicity + x.drift * w.drift + x.dlp * w.dlp + x.semantic * w.semantic
             b == y.pii * w.pii + y.jailbreak * w.jailbreak + y.grooming * w.grooming
                + y.toxicity * w.toxicity + y.drift * w.drift + y.dlp * w.dlp + y.semantic * w.semantic
             c == x.jailbreak * w.jailbreak + x.toxicity * w.toxicity
  <2>2. a \in Nat /\ b \in Nat /\ c \in Nat /\ a <= b /\ c <= a
    BY <1>1, <1>2, <1>3, <1>4, <1>5, <1>6, <1>7
  <2>3. Severity(x, w) = a \div 100 /\ Severity(y, w) = b \div 100
    BY Zenon DEF Severity
  <2>4. /\ Severity(x, w) \in Nat /\ Severity(y, w) \in Nat /\ Severity(x, w) <= Severity(y, w)
        /\ c \div 100 <= Severity(x, w)
    <3> HIDE DEF a, b, c
    <3> QED
      BY <2>1, <2>2, <2>3
  <2> QED
    BY <2>4
<1>9. Tony(x, w) = Multiplied(Severity(x, w), x.context) /\ Tony(y, w) = Multiplied(Severity(y, w), y.context)
  BY Zenon DEF Tony, Severity
<1>10. /\ Multiplied(Severity(x, w), x.context) \in Nat /\ Multiplied(Severity(y, w), y.context) \in Nat
       /\ Multiplied(Severity(x, w), x.context) <= Multiplied(Severity(y, w), y.context)
       /\ Severity(x, w) <= Multiplied(Severity(x, w), x.context)
  BY <1>0, <1>a, <1>b, <1>8, MultipliedFacts
<1>11. (x.jailbreak * w.jailbreak + x.toxicity * w.toxicity) \div 100 \in Nat
  BY <1>2, <1>4
<1> DEFINE j == (x.jailbreak * w.jailbreak + x.toxicity * w.toxicity) \div 100
<1> HIDE DEF j
<1>12. j \in Nat /\ j <= Severity(x, w)
  BY <1>8, <1>11 DEF j
<1>13. j <= Tony(x, w)
  BY <1>8, <1>9, <1>10, <1>12
<1> QED
  BY <1>9, <1>10, <1>13 DEF j

LEMMA TemplateFacts ==
    ASSUME NEW p \in Templates
    PROVE  /\ p.weights \in WeightType /\ p.unified \in Nat /\ p.unified <= 750
           /\ p.weights.jailbreak >= 70 /\ p.weights.toxicity >= 50
           /\ DOMAIN p.thresholds = {"pii", "jailbreak", "grooming", "toxicity", "dlp"}
           /\ \A a \in DOMAIN p.thresholds : p.thresholds[a] \in Nat
BY DEF Templates, DefaultPolicy, FinancePolicy, DadbotPolicy, BaselineWeights, Thresholds, WeightType

(* What the neural classifier may answer.                                  *)
NeuralType == [injection : Nat, toxicity : Nat]

SidecarType == [injection : 0 .. 1000, toxicity : 0 .. 1000]

LEMMA SidecarIsNeural == SidecarType \subseteq NeuralType
<1>1. 0 .. 1000 \subseteq Nat
  OBVIOUS
<1> QED
  BY <1>1, SMTT(30) DEF NeuralType, SidecarType

LEMMA SidecarsAreNeural == SidecarScores \subseteq NeuralType
<1>1. SidecarScores \subseteq SidecarType
  BY RiskAssumption DEF SidecarType
<1> QED
  BY <1>1, SidecarIsNeural, Zenon

LEMMA LocalFacts == ASSUME NEW part PROVE Local(part) \in NeuralType
<1>1. IsFiniteSet({"ignore_previous_instructions", "system_prompt"}) /\ IsFiniteSet({"idiot", "kill_yourself"})
  <2>1. IsFiniteSet({"ignore_previous_instructions", "system_prompt", "system_prompt", "system_prompt", "system_prompt"})
    BY FiveAreFinite, Zenon
  <2>2. IsFiniteSet({"idiot", "kill_yourself", "kill_yourself", "kill_yourself", "kill_yourself"})
    BY FiveAreFinite, Zenon
  <2> QED
    BY <2>1, <2>2
<1>2. /\ DOMAIN InjectionWeight = {"ignore_previous_instructions", "system_prompt"}
      /\ \A p \in DOMAIN InjectionWeight : InjectionWeight[p] \in Nat
  BY DEF InjectionWeight
<1>3. /\ DOMAIN ToxicityWeight = {"idiot", "kill_yourself"}
      /\ \A p \in DOMAIN ToxicityWeight : ToxicityWeight[p] \in Nat
  BY DEF ToxicityWeight
<1>4. IsFiniteSet(DOMAIN InjectionWeight) /\ IsFiniteSet(DOMAIN ToxicityWeight)
  BY <1>1, <1>2, <1>3, Zenon
<1>5. Sum(part, InjectionWeight) \in Nat
  BY <1>2, <1>4, SumFacts
<1>6. Sum(part, ToxicityWeight) \in Nat
  BY <1>3, <1>4, SumFacts
<1>7. \A n \in Nat : Clamp(n) \in Nat /\ Clamp(n + 150) \in Nat /\ Clamp(n + 0) \in Nat /\ Larger(n, 900) \in Nat
  BY DEF Clamp, Larger
<1>8. Local(part).injection \in Nat /\ Local(part).toxicity \in Nat
  BY <1>5, <1>6, <1>7 DEF Local
<1> QED
  BY <1>8 DEF Local, NeuralType

(* Changing two of the axes.                                               *)
LEMMA TwoAxes ==
    ASSUME NEW x \in AxisType, NEW j, NEW t
    PROVE  [x EXCEPT !.jailbreak = j, !.toxicity = t]
           = [pii |-> x.pii, jailbreak |-> j, grooming |-> x.grooming, toxicity |-> t,
              dlp |-> x.dlp, semantic |-> x.semantic, drift |-> x.drift, context |-> x.context]
<1> DEFINE y == [x EXCEPT !.jailbreak = j, !.toxicity = t]
           z == [pii |-> x.pii, jailbreak |-> j, grooming |-> x.grooming, toxicity |-> t,
                 dlp |-> x.dlp, semantic |-> x.semantic, drift |-> x.drift, context |-> x.context]
<1>0. DOMAIN x = {"pii", "jailbreak", "grooming", "toxicity", "dlp", "semantic", "drift", "context"}
  BY DEF AxisType
<1>1. DOMAIN y = DOMAIN x /\ DOMAIN x = DOMAIN z
  BY <1>0
<1>2. \A i \in DOMAIN x : y[i] = z[i]
  <2>1. y.pii = z.pii /\ y.jailbreak = z.jailbreak /\ y.grooming = z.grooming /\ y.toxicity = z.toxicity
    BY <1>0
  <2>2. y.dlp = z.dlp /\ y.semantic = z.semantic /\ y.drift = z.drift /\ y.context = z.context
    BY <1>0
  <2> HIDE DEF y, z
  <2> QED
    BY <1>0, <2>1, <2>2
<1>3. y = [i \in DOMAIN x |-> y[i]]
  BY Zenon
<1>4. z = [i \in DOMAIN z |-> z[i]]
  OBVIOUS
<1> HIDE DEF y, z
<1>5. y = z
  BY <1>1, <1>2, <1>3, <1>4
<1> QED
  BY <1>5 DEF y, z

(* The neural scores of one axis and the other take the larger.            *)
LEMMA NeuralFacts ==
    ASSUME NEW x \in AxisType, NEW n \in NeuralType
    PROVE  /\ WithNeural(x, n) \in AxisType
           /\ WithNeural(x, n).jailbreak >= n.injection /\ WithNeural(x, n).toxicity >= n.toxicity
           /\ ~(n.injection > x.jailbreak) /\ ~(n.toxicity > x.toxicity) => WithNeural(x, n) = x
<1>1. x.jailbreak \in Nat /\ x.toxicity \in Nat /\ n.injection \in Nat /\ n.toxicity \in Nat
  BY DEF AxisType, NeuralType
<1>2. /\ Larger(x.jailbreak, n.injection) \in Nat /\ Larger(x.toxicity, n.toxicity) \in Nat
      /\ Larger(x.jailbreak, n.injection) >= n.injection /\ Larger(x.toxicity, n.toxicity) >= n.toxicity
      /\ ~(n.injection > x.jailbreak) => Larger(x.jailbreak, n.injection) = x.jailbreak
      /\ ~(n.toxicity > x.toxicity) => Larger(x.toxicity, n.toxicity) = x.toxicity
  BY <1>1 DEF Larger
<1> DEFINE j == Larger(x.jailbreak, n.injection)
           t == Larger(x.toxicity, n.toxicity)
<1>3. WithNeural(x, n) = [x EXCEPT !.jailbreak = j, !.toxicity = t]
  BY DEF WithNeural
<1> HIDE DEF j, t
<1>4. j \in Nat /\ t \in Nat
  BY <1>2 DEF j, t
<1>5. x = [pii |-> x.pii, jailbreak |-> x.jailbreak, grooming |-> x.grooming, toxicity |-> x.toxicity,
           dlp |-> x.dlp, semantic |-> x.semantic, drift |-> x.drift, context |-> x.context]
  BY DEF AxisType
<1>6. /\ x.pii \in Nat /\ x.grooming \in Nat /\ x.dlp \in Nat /\ x.semantic \in Nat /\ x.drift \in Nat
      /\ x.context \in {0, 1000}
  BY DEF AxisType
<1>7. [x EXCEPT !.jailbreak = j, !.toxicity = t]
      = [pii |-> x.pii, jailbreak |-> j, grooming |-> x.grooming, toxicity |-> t,
         dlp |-> x.dlp, semantic |-> x.semantic, drift |-> x.drift, context |-> x.context]
  BY TwoAxes, Zenon
<1> DEFINE y == [pii |-> x.pii, jailbreak |-> j, grooming |-> x.grooming, toxicity |-> t,
                 dlp |-> x.dlp, semantic |-> x.semantic, drift |-> x.drift, context |-> x.context]
<1>8. y \in AxisType
  BY <1>4, <1>6 DEF AxisType
<1>9. y.jailbreak = j /\ y.toxicity = t
  OBVIOUS
<1>10. j = x.jailbreak /\ t = x.toxicity => y = x
  BY <1>5
<1>11. WithNeural(x, n) = y
  BY <1>3, <1>7
<1> HIDE DEF y
<1> QED
  BY <1>2, <1>8, <1>9, <1>10, <1>11 DEF j, t

(* What an assessment says of an answer: nothing but the neural scores     *)
(* sets it apart from the last decision, and scores that say the worst     *)
(* block it.                                                               *)
LEMMA AssessmentFacts ==
    ASSUME NEW part, NEW p \in Templates, NEW n \in NeuralType,
           NEW f \in [intel : 0 .. 1000, semantic : 0 .. 1000, drift : 0 .. 1000],
           NEW a, a = UnifiedRisk(part, f, p, n)
    PROVE  /\ /\ a.decision = "BLOCK"
              /\ ~(n.injection > Axes(part, f).jailbreak) /\ ~(n.toxicity > Axes(part, f).toxicity)
              => Decision(part, f, p) = "BLOCK"
           /\ a.neural = n
           /\ a.tier = 2 /\ n = Everything => a.decision = "BLOCK"
<1> DEFINE x == Axes(part, f)
           y == WithNeural(x, n)
<1>1. x \in AxisType
  BY AxesFacts
<1>2. p.weights \in WeightType /\ p.unified \in Nat /\ p.unified <= 750
      /\ p.weights.jailbreak >= 70 /\ p.weights.toxicity >= 50
  BY TemplateFacts
<1>3. Decision(part, f, p) = IF p.mode = "block" /\ x.pii >= p.thresholds.pii THEN "BLOCK" ELSE EvaluateRisk(x, p)
  BY DEF Decision
<1>4. /\ a.decision = "BLOCK" => ~(Tony(y, p.weights) < p.unified)
      /\ a.tier = 2 /\ ~(Tony(y, p.weights) < p.unified) => a.decision = "BLOCK"
      /\ a.neural = n
  BY DEF UnifiedRisk
<1> HIDE DEF x
<1>5. /\ y \in AxisType /\ y.jailbreak >= n.injection /\ y.toxicity >= n.toxicity
      /\ ~(n.injection > x.jailbreak) /\ ~(n.toxicity > x.toxicity) => y = x
  BY <1>1, NeuralFacts
<1> HIDE DEF y
<1>6. Tony(x, p.weights) \in Nat /\ Tony(y, p.weights) \in Nat
      /\ (y.jailbreak * p.weights.jailbreak + y.toxicity * p.weights.toxicity) \div 100 <= Tony(y, p.weights)
  <2>1. Below(x, x) /\ Below(y, y)
    BY <1>1, <1>5 DEF Below, AxisType
  <2> QED
    BY <1>1, <1>2, <1>5, <2>1, TonyFacts
<1>7. n = Everything => ~(Tony(y, p.weights) < p.unified)
  <2>1. SUFFICES ASSUME n = Everything PROVE ~(Tony(y, p.weights) < p.unified)
    OBVIOUS
  <2>2. y.jailbreak >= 1000 /\ y.toxicity >= 1000 /\ y.jailbreak \in Nat /\ y.toxicity \in Nat
    BY <1>5, <2>1 DEF Everything, AxisType
  <2>3. p.weights.jailbreak \in Nat /\ p.weights.toxicity \in Nat
    BY <1>2 DEF WeightType
  <2>4. 1000 * p.weights.jailbreak <= y.jailbreak * p.weights.jailbreak /\ y.jailbreak * p.weights.jailbreak \in Nat
    BY <2>2, <2>3, ProductFacts
  <2>5. 1000 * p.weights.toxicity <= y.toxicity * p.weights.toxicity /\ y.toxicity * p.weights.toxicity \in Nat
    BY <2>2, <2>3, ProductFacts
  <2> DEFINE u == y.jailbreak * p.weights.jailbreak
             v == y.toxicity * p.weights.toxicity
  <2>6. u >= 70000 /\ v >= 50000 /\ u \in Nat /\ v \in Nat
    BY <1>2, <2>3, <2>4, <2>5
  <2>7. (u + v) \div 100 <= Tony(y, p.weights)
    BY <1>6
  <2> HIDE DEF u, v
  <2>8. (u + v) \div 100 >= 1200
    BY <2>6
  <2>9. (u + v) \div 100 \in Nat
    BY <2>6
  <2> QED
    BY <1>2, <1>6, <2>7, <2>8, <2>9
<1>8. ~(Tony(x, p.weights) < p.unified) => Decision(part, f, p) = "BLOCK"
  <2>1. ~(Tony(x, p.weights) < p.unified) => Tony(x, p.weights) >= p.unified
    BY <1>2, <1>6
  <2> QED
    BY <1>3, <2>1 DEF EvaluateRisk
<1>9. /\ a.decision = "BLOCK"
      /\ ~(n.injection > x.jailbreak) /\ ~(n.toxicity > x.toxicity)
      => Decision(part, f, p) = "BLOCK"
  BY <1>4, <1>5, <1>8
<1>10. a.tier = 2 /\ n = Everything => a.decision = "BLOCK"
  BY <1>4, <1>7
<1> QED
  BY <1>4, <1>9, <1>10 DEF x

-----------------------------------------------------------------------------
(* The verdict is the decision on the answer as it was judged; an          *)
(* assessment is one of that answer, and the stream that has one was not   *)
(* cut.                                                                    *)
RiskInv ==
    /\ facts \in Facts /\ judgedOn \in Facts
    /\ policyRead \in Templates /\ policyInForce \in Templates
    /\ verdict \in {"none", "PASS", "BLOCK"}
    /\ verdict # "none" => verdict = Decision(answer, judgedOn, policyRead)
    /\ assessed # NotAssessed =>
         /\ verdict # "BLOCK"
         /\ \E n \in NeuralType : assessed = UnifiedRisk(answer, facts, policyInForce, n)

LEMMA RiskStarts == RiskInit => RiskInv
BY DEF RiskInit, RiskInv

LEMMA DecisionType == ASSUME NEW part, NEW f, NEW p PROVE Decision(part, f, p) \in {"PASS", "BLOCK"}
BY DEF Decision, EvaluateRisk

LEMMA RiskStays == ASSUME RiskInv, [RiskNext]_riskVars PROVE RiskInv'
<1>1. ASSUME NEW heard \in Facts, NEW part, Judge(part, heard) PROVE RiskInv'
  <2>1. assessed = NotAssessed /\ assessed' = NotAssessed
    BY <1>1 DEF Judge, Streaming
  <2>2. verdict' = Decision(answer', judgedOn', policyRead) /\ judgedOn' = heard /\ policyRead' = policyRead
    BY <1>1 DEF Judge
  <2>3. verdict' = Decision(answer', judgedOn', policyRead') /\ verdict' \in {"PASS", "BLOCK"}
    BY <2>2, DecisionType
  <2>4. /\ facts' \in Facts /\ judgedOn' \in Facts /\ policyRead' \in Templates /\ policyInForce' \in Templates
    BY <1>1, <2>2 DEF Judge, RiskInv
  <2> QED
    BY <2>1, <2>3, <2>4 DEF RiskInv
<1>2. CASE FactsChange
  BY <1>2 DEF FactsChange, Streaming, RiskInv
<1>3. CASE PolicyChanges
  BY <1>3 DEF PolicyChanges, Streaming, RiskInv
<1>4. CASE Assess
  <2>1. PICK n \in {Local(answer), Fallback(answer)} \cup SidecarScores :
             assessed' = UnifiedRisk(answer, facts, policyInForce, n)
    BY <1>4 DEF Assess
  <2>2. n \in NeuralType
    <3>1. Local(answer) \in NeuralType
      BY LocalFacts
    <3>2. Nothing \in NeuralType /\ Everything \in NeuralType
      BY DEF Nothing, Everything, NeuralType
    <3>3. Fallback(answer) \in NeuralType
      BY <3>1, <3>2 DEF Fallback
    <3>4. SidecarScores \subseteq NeuralType
      BY SidecarsAreNeural, Zenon
    <3> QED
      BY <3>1, <3>3, <3>4
  <2>3. verdict # "BLOCK" /\ UNCHANGED <<answer, facts, judgedOn, policyRead, policyInForce, verdict>>
    BY <1>4 DEF Assess, Streaming
  <2>4. assessed' = UnifiedRisk(answer', facts', policyInForce', n)
    BY <2>1, <2>3
  <2> QED
    BY <2>2, <2>3, <2>4 DEF RiskInv
<1>5. CASE UNCHANGED riskVars
  BY <1>5 DEF riskVars, RiskInv
<1> QED
  BY <1>1, <1>2, <1>3, <1>4, <1>5 DEF RiskNext

LEMMA RiskSuffices == ASSUME RiskAssumption, RiskInv PROVE RiskCoherent
<1>0. facts \in [intel : 0 .. 1000, semantic : 0 .. 1000, drift : 0 .. 1000]
  BY DEF RiskAssumption, RiskInv
<1>1. CASE assessed = NotAssessed
  <2>1. assessed.decision # "BLOCK" /\ assessed.tier # 2
    BY <1>1 DEF NotAssessed
  <2> QED
    BY <2>1 DEF RiskCoherent
<1>2. CASE assessed # NotAssessed
  <2>1. PICK n \in NeuralType : assessed = UnifiedRisk(answer, facts, policyInForce, n)
    BY <1>2 DEF RiskInv
  <2>2. policyInForce \in Templates
    BY DEF RiskInv
  <2>3. /\ /\ assessed.decision = "BLOCK"
           /\ ~(n.injection > Axes(answer, facts).jailbreak) /\ ~(n.toxicity > Axes(answer, facts).toxicity)
           => Decision(answer, facts, policyInForce) = "BLOCK"
        /\ assessed.neural = n
        /\ assessed.tier = 2 /\ n = Everything => assessed.decision = "BLOCK"
    BY <1>0, <2>1, <2>2, AssessmentFacts
  <2>4. verdict # "none" /\ judgedOn = facts /\ policyRead = policyInForce =>
          Decision(answer, facts, policyInForce) # "BLOCK"
    BY <1>2 DEF RiskInv
  <2> QED
    <3>1. assessed.decision = "BLOCK" =>
            \/ verdict = "none"
            \/ judgedOn # facts \/ policyRead # policyInForce
            \/ assessed.neural.injection > Axes(answer, facts).jailbreak
            \/ assessed.neural.toxicity > Axes(answer, facts).toxicity
      BY <2>3, <2>4
    <3>2. assessed.tier = 2 /\ assessed.neural = Everything => assessed.decision = "BLOCK"
      BY <2>3
    <3> QED
      BY <3>1, <3>2 DEF RiskCoherent
<1> QED
  BY <1>1, <1>2

(* The two assessments of one text agree, for any phrases, stores and      *)
(* scores of the sidecar: where its chunk passed (stream_llm_with_risk,    *)
(* evaluate_risk), compute_unified_risk records a block only if something  *)
(* told it more, and a sidecar that fails closed blocks.                   *)
THEOREM AssessmentsAgree == RiskSpec => []RiskCoherent
<1>1. RiskInit => RiskInv
  BY RiskStarts
<1>2. RiskInv /\ [RiskNext]_riskVars => RiskInv'
  BY RiskStays, RiskAssumption
<1>3. RiskInv => RiskCoherent
  BY RiskSuffices, RiskAssumption
<1> QED
  BY <1>1, <1>2, <1>3, PTL DEF RiskSpec

-----------------------------------------------------------------------------
(* The match of a text against a feed.  All visits add to the match: what  *)
(* was hit stays hit, and the best score and the budget spent grow.        *)

LEMMA StepByStep ==
    ASSUME NEW n \in Nat, NEW S, 0 \in S, \A k \in 1 .. n : k - 1 \in S => k \in S
    PROVE  \A k \in 0 .. n : k \in S
<1> DEFINE D == {k \in 0 .. n : k \notin S}
<1>1. ASSUME D # {} PROVE FALSE
  <2>1. D \subseteq Nat
    OBVIOUS
  <2>2. PICK d \in D : \A e \in D : d <= e
    BY <1>1, <2>1, FirstOfSome
  <2>3. d \in 1 .. n /\ d - 1 \in 0 .. n /\ d - 1 \notin D
    BY <2>2
  <2> QED
    BY <2>2, <2>3
<1> QED
  BY <1>1

LEMMA StepsBack ==
    ASSUME NEW n \in Nat, NEW S, n \in S, \A k \in 1 .. n : k \in S => k - 1 \in S
    PROVE  \A k \in 0 .. n : k \in S
<1> DEFINE T == {k \in Nat : n - k \in S}
<1>1. 0 \in T
  OBVIOUS
<1>2. ASSUME NEW k \in 1 .. n, k - 1 \in T PROVE k \in T
  <2>1. n - (k - 1) \in 1 .. n /\ n - (k - 1) \in S /\ n - (k - 1) - 1 = n - k
    BY <1>2
  <2>2. n - (k - 1) - 1 \in S
    BY <2>1
  <2> QED
    BY <2>1, <2>2
<1> HIDE DEF T
<1>3. \A k \in 0 .. n : k \in T
  BY <1>1, <1>2, StepByStep
<1>4. ASSUME NEW k \in 0 .. n PROVE k \in S
  <2>1. n - k \in 0 .. n /\ n - (n - k) = k
    OBVIOUS
  <2>2. n - k \in T
    BY <1>3, <2>1
  <2> QED
    BY <2>1, <2>2 DEF T
<1> QED
  BY <1>4

(* A fold over the numbers up to n exists, whatever a step does to a set.  *)
IsFold(f, S, start, step, n) ==
    f \in [0 .. n -> S] /\ f[0] = start /\ \A i \in 1 .. n : f[i] = step[i][f[i - 1]]

LEMMA FoldExists ==
    ASSUME NEW S, NEW start \in S, NEW n \in Nat, NEW step \in [1 .. n -> [S -> S]]
    PROVE  \E f : IsFold(f, S, start, step, n)
<1> DEFINE T == {i \in Nat : \E f : IsFold(f, S, start, step, i)}
<1>1. 0 \in T
  <2> DEFINE f == [k \in 0 .. 0 |-> start]
  <2>1. IsFold(f, S, start, step, 0)
    BY DEF IsFold
  <2> QED
    BY <2>1
<1>2. ASSUME NEW i \in 1 .. n, i - 1 \in T PROVE i \in T
  <2>1. PICK g : IsFold(g, S, start, step, i - 1)
    BY <1>2
  <2> DEFINE f == [k \in 0 .. i |-> IF k = i THEN step[i][g[i - 1]] ELSE g[k]]
  <2>2. g \in [0 .. i - 1 -> S] /\ g[0] = start /\ \A k \in 1 .. i - 1 : g[k] = step[k][g[k - 1]]
    BY <2>1 DEF IsFold
  <2>3. step[i] \in [S -> S] /\ g[i - 1] \in S
    BY <2>2
  <2>4. f \in [0 .. i -> S]
    <3>1. ASSUME NEW k \in 0 .. i PROVE f[k] \in S
      <4>1. CASE k = i
        BY <2>3, <4>1
      <4>2. CASE k # i
        <5>1. k \in 0 .. i - 1
          BY <4>2
        <5> QED
          BY <2>2, <4>2, <5>1
      <4> QED
        BY <4>1, <4>2
    <3> QED
      BY <3>1
  <2>5. f[0] = start
    BY <2>2
  <2>6. ASSUME NEW k \in 1 .. i PROVE f[k] = step[k][f[k - 1]]
    <3>1. k - 1 \in 0 .. i /\ k - 1 # i
      OBVIOUS
    <3>2. f[k - 1] = g[k - 1]
      BY <3>1
    <3>3. CASE k = i
      BY <3>2, <3>3
    <3>4. CASE k # i
      <4>1. k \in 1 .. i - 1
        BY <3>4
      <4>2. f[k] = g[k]
        BY <3>4
      <4> QED
        BY <2>2, <3>2, <4>1, <4>2
    <3> QED
      BY <3>3, <3>4
  <2>7. IsFold(f, S, start, step, i)
    <3> HIDE DEF f
    <3> QED
      BY <2>4, <2>5, <2>6 DEF IsFold
  <2> QED
    BY <2>7
<1> HIDE DEF T
<1>3. \A k \in 0 .. n : k \in T
  BY <1>1, <1>2, StepByStep
<1>4. n \in T
  BY <1>3
<1> QED
  BY <1>4 DEF T

Solves(f, S, start, step, n) ==
    f \in [0 .. n -> S] /\ f = [k \in 0 .. n |-> IF k = 0 THEN start ELSE step[k][f[k - 1]]]

LEMMA FoldSolved ==
    ASSUME NEW S, NEW start \in S, NEW n \in Nat, NEW step \in [1 .. n -> [S -> S]]
    PROVE  \E f : Solves(f, S, start, step, n)
<1>1. PICK f : IsFold(f, S, start, step, n)
  BY FoldExists
<1>2. f \in [0 .. n -> S] /\ f[0] = start /\ \A k \in 1 .. n : f[k] = step[k][f[k - 1]]
  BY <1>1, Zenon DEF IsFold
<1>3. \A k \in 0 .. n : k = 0 \/ k \in 1 .. n
  OBVIOUS
<1>4. \A k \in 0 .. n : f[k] = IF k = 0 THEN start ELSE step[k][f[k - 1]]
  BY <1>2, <1>3
<1>5. f = [k \in 0 .. n |-> IF k = 0 THEN start ELSE step[k][f[k - 1]]]
  BY <1>2, <1>4
<1> QED
  BY <1>2, <1>5, Zenon DEF Solves

-----------------------------------------------------------------------------
(* What is typed, what is there, and what a match in progress may say.     *)
MatchTypeOK == feed \in Seq(Rules) /\ said \in Seq(Characters) /\ late \in BOOLEAN

(* The parts of a match that are counted.                                  *)
HitCount(m) == Len(m.hits)
Best(m)  == m.best
Spend(m) == m.checked

There       == {p \in 1 .. Len(feed) : Live(feed[p]) /\ Occurs(feed[p])}
HashedThere == {p \in There : feed[p].hashed}

Honest ==
    {m \in [checked : Nat, hits : Seq(There), best : 0 .. 100, stop : BOOLEAN] :
        /\ Best(m) # 0 => \E p \in There : feed[p].score = Best(m)
        /\ m.stop => Full(m)}

(* While the hashed rules are visited, a check is a hit and none is double. *)
HonestHashed ==
    {m \in Honest : /\ Spend(m) = HitCount(m)
                    /\ \A h \in 1 .. HitCount(m) : m.hits[h] \in HashedThere
                    /\ \A g, h \in 1 .. HitCount(m) : g # h => m.hits[g] # m.hits[h]}

Grows(a, b) ==
    /\ HitCount(a) <= HitCount(b) /\ \A h \in 1 .. HitCount(a) : b.hits[h] = a.hits[h]
    /\ Best(a) <= Best(b) /\ Spend(a) <= Spend(b)

Covered(m, p) == Seen(m, p) \/ Full(m) \/ Spent(m)

LEMMA RuleFacts ==
    ASSUME MatchAssumption, MatchTypeOK, NEW p \in 1 .. Len(feed)
    PROVE  /\ feed[p] \in Rules /\ feed[p].score \in 0 .. 100 /\ feed[p].hashed \in BOOLEAN
           /\ feed[p].phrase \in Seq(Characters) /\ feed[p].phrase # <<>>
<1>1. feed[p] \in Rules
  BY DEF MatchTypeOK
<1> QED
  BY <1>1 DEF MatchAssumption, RuleOK

LEMMA LengthFacts ==
    ASSUME MatchAssumption, MatchTypeOK
    PROVE  /\ Len(feed) \in Nat /\ Len(said) \in Nat
           /\ MaxChecked \in Nat /\ MaxChecked > 0 /\ MaxHits \in Nat /\ MaxHits > 0 /\ MaxGrams \in Nat
<1>1. Len(feed) \in Nat /\ Len(said) \in Nat
  BY LenProperties DEF MatchTypeOK
<1>2. MaxChecked \in Nat \ {0} /\ MaxHits \in Nat \ {0} /\ MaxGrams \in Nat
  BY DEF MatchAssumption
<1> QED
  BY <1>1, <1>2

LEMMA HonestFacts ==
    ASSUME NEW m \in Honest
    PROVE  /\ Spend(m) \in Nat /\ m.hits \in Seq(There) /\ Best(m) \in 0 .. 100 /\ m.stop \in BOOLEAN
           /\ HitCount(m) \in Nat /\ \A h \in 1 .. HitCount(m) : m.hits[h] \in There
           /\ Best(m) # 0 => \E p \in There : feed[p].score = Best(m)
           /\ m.stop => Full(m)
<1>1. /\ m \in [checked : Nat, hits : Seq(There), best : 0 .. 100, stop : BOOLEAN]
      /\ Best(m) # 0 => \E p \in There : feed[p].score = Best(m)
      /\ m.stop => Full(m)
  BY Zenon DEF Honest
<1>2. m.hits \in Seq(There) /\ Spend(m) \in Nat /\ Best(m) \in 0 .. 100 /\ m.stop \in BOOLEAN
  BY <1>1 DEF Best, Spend
<1>3. HitCount(m) \in Nat /\ \A h \in 1 .. HitCount(m) : m.hits[h] \in There
  BY <1>2, LenProperties DEF HitCount
<1> QED
  BY <1>1, <1>2, <1>3, Zenon

LEMMA HonestRecord ==
    ASSUME NEW m \in Honest
    PROVE  m \in [checked : Nat, hits : Seq(There), best : 0 .. 100, stop : BOOLEAN]
BY Zenon DEF Honest

LEMMA FullFacts ==
    ASSUME NEW m
    PROVE  /\ Full(m) <=> HitCount(m) >= MaxHits /\ Best(m) >= 99
           /\ Spent(m) <=> Spend(m) >= MaxChecked
BY Zenon DEF Full, Spent, HitCount, Best, Spend

LEMMA GrowsFacts ==
    ASSUME NEW a \in Honest
    PROVE  /\ Grows(a, a)
           /\ \A b \in Honest : \A c \in Honest : Grows(a, b) /\ Grows(b, c) => Grows(a, c)
<1>1. HitCount(a) \in Nat /\ Best(a) \in 0 .. 100 /\ Spend(a) \in Nat
  BY HonestFacts
<1>2. Grows(a, a)
  BY <1>1 DEF Grows
<1>3. ASSUME NEW b \in Honest, NEW c \in Honest, Grows(a, b), Grows(b, c) PROVE Grows(a, c)
  <2>1. /\ HitCount(b) \in Nat /\ Best(b) \in 0 .. 100 /\ Spend(b) \in Nat
        /\ HitCount(c) \in Nat /\ Best(c) \in 0 .. 100 /\ Spend(c) \in Nat
    BY HonestFacts
  <2>2. ASSUME NEW h \in 1 .. HitCount(a) PROVE c.hits[h] = a.hits[h]
    <3>1. h \in 1 .. HitCount(b)
      BY <1>1, <1>3, <2>1 DEF Grows
    <3> QED
      BY <1>3, <3>1 DEF Grows
  <2>3. HitCount(a) <= HitCount(c)
    BY <1>1, <1>3, <2>1 DEF Grows
  <2>4. Best(a) <= Best(c)
    BY <1>1, <1>3, <2>1 DEF Grows
  <2>5. Spend(a) <= Spend(c)
    BY <1>1, <1>3, <2>1 DEF Grows
  <2> QED
    BY <2>2, <2>3, <2>4, <2>5, Zenon DEF Grows
<1> QED
  BY <1>2, <1>3

LEMMA GrowsKeeps ==
    ASSUME MatchAssumption, MatchTypeOK, NEW a \in Honest, NEW b \in Honest, Grows(a, b)
    PROVE  /\ \A p : Seen(a, p) => Seen(b, p)
           /\ Full(a) => Full(b)
           /\ Spent(a) => Spent(b)
           /\ \A p : Covered(a, p) => Covered(b, p)
<1>1. /\ HitCount(a) \in Nat /\ Best(a) \in 0 .. 100 /\ Spend(a) \in Nat
      /\ HitCount(b) \in Nat /\ Best(b) \in 0 .. 100 /\ Spend(b) \in Nat
  BY HonestFacts
<1>2. MaxChecked \in Nat /\ MaxHits \in Nat
  BY LengthFacts
<1>3. ASSUME NEW p, Seen(a, p) PROVE Seen(b, p)
  <2>1. PICK h \in 1 .. HitCount(a) : feed[a.hits[h]].id = feed[p].id
    BY <1>3, Zenon DEF Seen, HitCount
  <2>2. h \in 1 .. HitCount(b) /\ b.hits[h] = a.hits[h]
    BY <1>1 DEF Grows
  <2> QED
    BY <2>1, <2>2, Zenon DEF Seen, HitCount
<1>4. Full(a) => Full(b)
  <2>1. HitCount(a) <= HitCount(b) /\ Best(a) <= Best(b)
    BY Zenon DEF Grows
  <2>2. HitCount(a) >= MaxHits /\ Best(a) >= 99 => HitCount(b) >= MaxHits /\ Best(b) >= 99
    BY <1>1, <1>2, <2>1
  <2> QED
    BY <2>2, FullFacts, Zenon
<1>5. Spent(a) => Spent(b)
  <2>1. Spend(a) <= Spend(b)
    BY Zenon DEF Grows
  <2>2. Spend(a) >= MaxChecked => Spend(b) >= MaxChecked
    BY <1>1, <1>2, <2>1
  <2> QED
    BY <2>2, FullFacts, Zenon
<1> QED
  BY <1>3, <1>4, <1>5, Zenon DEF Covered

(* Along a fold whose steps grow, everything grows up to its end.          *)
LEMMA GrowsAlong ==
    ASSUME NEW n \in Nat, NEW f, \A k \in 0 .. n : f[k] \in Honest,
           \A k \in 1 .. n : Grows(f[k - 1], f[k])
    PROVE  \A k \in 0 .. n : Grows(f[k], f[n])
<1> DEFINE S == {k \in 0 .. n : Grows(f[k], f[n])}
<1>1. n \in S
  <2>1. f[n] \in Honest
    OBVIOUS
  <2> QED
    BY <2>1, GrowsFacts
<1>2. ASSUME NEW k \in 1 .. n, k \in S PROVE k - 1 \in S
  <2>1. k - 1 \in 0 .. n /\ k \in 0 .. n /\ n \in 0 .. n
    OBVIOUS
  <2>2. f[k - 1] \in Honest /\ f[k] \in Honest /\ f[n] \in Honest
    BY <2>1
  <2>3. Grows(f[k - 1], f[k]) /\ Grows(f[k], f[n])
    BY <1>2
  <2> QED
    BY <2>1, <2>2, <2>3, GrowsFacts
<1> HIDE DEF S
<1>3. \A k \in 0 .. n : k \in S
  BY <1>1, <1>2, StepsBack
<1> QED
  BY <1>3 DEF S

LEMMA FoldRuns ==
    ASSUME NEW S, S \subseteq Honest, NEW n \in Nat, NEW f, f[0] \in S,
           \A k \in 1 .. n : f[k - 1] \in S => f[k] \in S /\ Grows(f[k - 1], f[k])
    PROVE  \A k \in 0 .. n : f[k] \in S /\ f[k] \in Honest /\ f[n] \in S /\ Grows(f[k], f[n])
<1> DEFINE T == {k \in 0 .. n : f[k] \in S}
<1>1. \A k \in 0 .. n : k \in T
  <2>1. 0 \in T
    OBVIOUS
  <2>2. ASSUME NEW k \in 1 .. n, k - 1 \in T PROVE k \in T
    <3>1. f[k - 1] \in S /\ k \in 0 .. n
      BY <2>2
    <3> QED
      BY <3>1
  <2> HIDE DEF T
  <2> QED
    BY <2>1, <2>2, StepByStep
<1>2. \A k \in 0 .. n : f[k] \in S /\ f[k] \in Honest
  BY <1>1
<1>3. ASSUME NEW k \in 1 .. n PROVE Grows(f[k - 1], f[k])
  <2>1. k - 1 \in 0 .. n
    OBVIOUS
  <2> QED
    BY <1>2, <2>1
<1>4. \A k \in 0 .. n : Grows(f[k], f[n])
  BY <1>2, <1>3, GrowsAlong
<1>5. n \in 0 .. n
  OBVIOUS
<1> QED
  BY <1>2, <1>4, <1>5

-----------------------------------------------------------------------------
(* A hit, and a check more.                                                *)
LEMMA HitFacts ==
    ASSUME MatchAssumption, MatchTypeOK, NEW m \in Honest, NEW p \in There
    PROVE  /\ Hit(m, p) \in Honest /\ Grows(m, Hit(m, p))
           /\ Best(Hit(m, p)) >= feed[p].score /\ Seen(Hit(m, p), p)
           /\ Spend(Hit(m, p)) = Spend(m) /\ Hit(m, p).hits = Append(m.hits, p)
<1> DEFINE w == Hit(m, p)
<1>1. p \in 1 .. Len(feed)
  BY DEF There
<1>2. feed[p].score \in 0 .. 100
  BY <1>1, RuleFacts
<1>3. /\ Spend(m) \in Nat /\ m.hits \in Seq(There) /\ Best(m) \in 0 .. 100 /\ m.stop \in BOOLEAN
      /\ HitCount(m) \in Nat
      /\ Best(m) # 0 => \E q \in There : feed[q].score = Best(m)
  BY HonestFacts
<1>4. /\ Append(m.hits, p) \in Seq(There) /\ Len(Append(m.hits, p)) = HitCount(m) + 1
      /\ \A h \in 1 .. HitCount(m) : Append(m.hits, p)[h] = m.hits[h]
      /\ Append(m.hits, p)[HitCount(m) + 1] = p
  BY <1>3, AppendProperties DEF HitCount
<1> DEFINE hits == Append(m.hits, p)
           best == IF feed[p].score > Best(m) THEN feed[p].score ELSE Best(m)
           stop == Len(hits) >= MaxHits /\ best >= 99
<1>5. w = [m EXCEPT !.hits = hits, !.best = best, !.stop = stop]
  BY Zenon DEF Hit, Best
<1>6. best \in 0 .. 100 /\ best >= Best(m) /\ best >= feed[p].score
  <2>1. Best(m) \in 0 .. 100
    BY <1>3
  <2>2. PICK score \in 0 .. 100, old \in 0 .. 100 : feed[p].score = score /\ Best(m) = old
    BY <1>2, <2>1, Zenon
  <2>3. best = IF score > old THEN score ELSE old
    BY <2>2, Zenon
  <2> HIDE DEF hits, stop, w, best
  <2>4. best \in 0 .. 100 /\ best >= old /\ best >= score
    BY <2>3
  <2> QED
    BY <2>2, <2>4, Zenon
<1>7. stop \in BOOLEAN /\ hits \in Seq(There)
  BY <1>4
<1> HIDE DEF hits, best, stop, w
<1>8. /\ w.hits = hits /\ Best(w) = best /\ w.stop = stop /\ Spend(w) = Spend(m)
      /\ w \in [checked : Nat, hits : Seq(There), best : 0 .. 100, stop : BOOLEAN]
  BY <1>5, <1>6, <1>7, HonestRecord DEF Best, Spend
<1>9. Best(w) # 0 => \E q \in There : feed[q].score = Best(w)
  BY <1>3, <1>8 DEF best
<1>10. w.stop => Full(w)
  BY <1>8, Zenon DEF stop, Full, Best
<1>11. w \in Honest
  BY <1>8, <1>9, <1>10, Zenon DEF Honest
<1>12. Grows(m, w)
  <2>1. HitCount(w) = HitCount(m) + 1 /\ \A h \in 1 .. HitCount(m) : w.hits[h] = m.hits[h]
    BY <1>4, <1>8, Zenon DEF HitCount, hits
  <2>2. HitCount(m) <= HitCount(w) /\ Best(m) <= Best(w) /\ Spend(m) <= Spend(w)
    BY <1>3, <1>6, <1>8, <2>1
  <2>3. \A h \in 1 .. HitCount(m) : w.hits[h] = m.hits[h]
    BY <1>3, <1>6, <1>8, <2>1, Zenon
  <2> QED
    BY <2>2, <2>3, Zenon DEF Grows
<1>13. Seen(w, p)
  <2>1. HitCount(w) = HitCount(m) + 1 /\ w.hits[HitCount(m) + 1] = p
    BY <1>4, <1>8, Zenon DEF hits, HitCount
  <2>2. HitCount(m) + 1 \in 1 .. HitCount(w)
    BY <1>3, <2>1
  <2>3. feed[w.hits[HitCount(m) + 1]].id = feed[p].id
    BY <2>1, Zenon
  <2> QED
    BY <2>2, <2>3, Zenon DEF Seen, HitCount
<1> QED
  BY <1>6, <1>8, <1>11, <1>12, <1>13 DEF w, hits

LEMMA CheckFacts ==
    ASSUME NEW m \in Honest, NEW c \in Nat, Spend(m) <= c
    PROVE  LET a == [m EXCEPT !.checked = c]
           IN  a \in Honest /\ Grows(m, a) /\ Spend(a) = c /\ a.hits = m.hits /\ Best(a) = Best(m)
<1> DEFINE a == [m EXCEPT !.checked = c]
<1>1. /\ Spend(m) \in Nat /\ m.hits \in Seq(There) /\ Best(m) \in 0 .. 100 /\ m.stop \in BOOLEAN
      /\ HitCount(m) \in Nat
      /\ Best(m) # 0 => \E q \in There : feed[q].score = Best(m)
      /\ m.stop => Full(m)
  BY HonestFacts
<1>2. /\ Spend(a) = c /\ a.hits = m.hits /\ Best(a) = Best(m) /\ a.stop = m.stop
      /\ a \in [checked : Nat, hits : Seq(There), best : 0 .. 100, stop : BOOLEAN]
  BY HonestRecord DEF Best, Spend
<1> HIDE DEF a
<1>3. a.stop => Full(a)
  BY <1>1, <1>2, Zenon DEF Full, Best
<1>4. a \in Honest
  BY <1>1, <1>2, <1>3, Zenon DEF Honest
<1>5. Grows(m, a)
  <2>1. HitCount(a) = HitCount(m)
    BY <1>2, Zenon DEF HitCount
  <2>2. HitCount(m) <= HitCount(a) /\ Best(m) <= Best(a) /\ Spend(m) <= Spend(a)
    <3>1. HitCount(m) \in Nat /\ Best(m) \in 0 .. 100 /\ Spend(m) \in Nat
      BY <1>1
    <3>2. Spend(a) = c /\ Best(a) = Best(m)
      BY <1>2
    <3> QED
      BY <2>1, <3>1, <3>2
  <2>3. \A h \in 1 .. HitCount(m) : a.hits[h] = m.hits[h]
    BY <1>1, <1>2, <2>1, Zenon
  <2> QED
    BY <2>2, <2>3, Zenon DEF Grows
<1> QED
  BY <1>2, <1>4, <1>5 DEF a

-----------------------------------------------------------------------------
(* The hashed rules.                                                       *)
LEMMA VisitHashedFacts ==
    ASSUME MatchAssumption, MatchTypeOK, NEW m \in HonestHashed,
           NEW p \in 1 .. Len(feed), NEW n, NEW i \in 1 .. Len(said), InBucket(p, n, i)
    PROVE  /\ VisitHashed(m, p) \in HonestHashed /\ Grows(m, VisitHashed(m, p))
           /\ p \in There => Covered(VisitHashed(m, p), p)
<1>1. /\ m \in Honest /\ Spend(m) = HitCount(m)
      /\ \A h \in 1 .. HitCount(m) : m.hits[h] \in HashedThere
      /\ \A g, h \in 1 .. HitCount(m) : g # h => m.hits[g] # m.hits[h]
  BY Zenon DEF HonestHashed
<1>2. Live(feed[p]) => p \in HashedThere
  <2>1. feed[p].hashed /\ WordsAt(feed[p].phrase, i)
    BY Zenon DEF InBucket
  <2>2. Occurs(feed[p])
    BY <2>1, Zenon DEF Occurs
  <2> QED
    BY <2>1, <2>2, Zenon DEF There, HashedThere
<1>3. CASE Spent(m) \/ m.stop \/ ~Live(feed[p]) \/ Seen(m, p)
  <2>1. VisitHashed(m, p) = m
    BY <1>3, Zenon DEF VisitHashed
  <2>2. Grows(m, m)
    BY <1>1, GrowsFacts
  <2>3. m.stop => Full(m)
    BY <1>1, HonestFacts
  <2>4. p \in There => Covered(m, p)
    <3>1. p \in There => Live(feed[p])
      BY Zenon DEF There
    <3> QED
      BY <1>3, <2>3, <3>1, Zenon DEF Covered
  <2> QED
    BY <2>1, <2>2, <2>4, Zenon
<1>4. CASE ~(Spent(m) \/ m.stop \/ ~Live(feed[p]) \/ Seen(m, p))
  <2> DEFINE w == Hit(m, p)
             v == [w EXCEPT !.checked = Spend(m) + 1]
  <2>1. VisitHashed(m, p) = v
    BY <1>4, Zenon DEF VisitHashed, Spend
  <2>2. p \in HashedThere /\ p \in There /\ ~Seen(m, p)
    BY <1>2, <1>4, Zenon DEF HashedThere
  <2>3. /\ w \in Honest /\ Grows(m, w) /\ Seen(w, p)
        /\ Spend(w) = Spend(m) /\ w.hits = Append(m.hits, p)
    BY <1>1, <2>2, HitFacts
  <2>4. Spend(m) \in Nat /\ m.hits \in Seq(There) /\ HitCount(m) \in Nat
    BY <1>1, HonestFacts
  <2>5. Spend(m) + 1 \in Nat /\ Spend(w) <= Spend(m) + 1
    BY <2>3, <2>4
  <2> HIDE DEF w
  <2>6. v \in Honest /\ Grows(w, v) /\ Spend(v) = Spend(m) + 1 /\ v.hits = w.hits /\ Best(v) = Best(w)
    BY <2>3, <2>5, CheckFacts
  <2> HIDE DEF v
  <2>7. Grows(m, v)
    BY <1>1, <2>3, <2>6, GrowsFacts
  <2>8. /\ HitCount(v) = HitCount(m) + 1
        /\ \A h \in 1 .. HitCount(m) : v.hits[h] = m.hits[h]
        /\ v.hits[HitCount(m) + 1] = p
    <3>1. /\ Len(Append(m.hits, p)) = Len(m.hits) + 1
          /\ \A h \in 1 .. Len(m.hits) : Append(m.hits, p)[h] = m.hits[h]
          /\ Append(m.hits, p)[Len(m.hits) + 1] = p
      BY <2>2, <2>4, AppendProperties
    <3> QED
      BY <2>3, <2>6, <3>1, Zenon DEF HitCount
  <2>9. Spend(v) = HitCount(v)
    BY <1>1, <2>6, <2>8
  <2>10. \A h \in 1 .. HitCount(v) : v.hits[h] \in HashedThere
    <3>1. SUFFICES ASSUME NEW h \in 1 .. HitCount(v) PROVE v.hits[h] \in HashedThere
      OBVIOUS
    <3>2. h = HitCount(m) + 1 \/ h \in 1 .. HitCount(m)
      BY <2>4, <2>8
    <3> QED
      BY <1>1, <2>2, <2>8, <3>2, Zenon
  <2>11. \A h \in 1 .. HitCount(m) : m.hits[h] # p
    BY <2>2, Zenon DEF Seen, HitCount
  <2>12. ASSUME NEW g \in 1 .. HitCount(v), NEW h \in 1 .. HitCount(v), g # h PROVE v.hits[g] # v.hits[h]
    <3>1. /\ g = HitCount(m) + 1 \/ g \in 1 .. HitCount(m)
          /\ h = HitCount(m) + 1 \/ h \in 1 .. HitCount(m)
      BY <2>4, <2>8
    <3> QED
      BY <1>1, <2>8, <2>11, <2>12, <3>1, Zenon
  <2>13. v \in HonestHashed
    BY <2>6, <2>9, <2>10, <2>12, Zenon DEF HonestHashed
  <2>14. Covered(v, p)
    <3>1. Seen(v, p)
      BY <2>3, <2>6, Zenon DEF Seen
    <3> QED
      BY <3>1, Zenon DEF Covered
  <2> QED
    BY <2>1, <2>7, <2>13, <2>14, Zenon
<1> QED
  BY <1>3, <1>4, Zenon

(* One window: the rules in the bucket of its hash.                        *)
WindowFold(f, m, n, i) ==
    f = [p \in 0 .. Len(feed) |->
            IF p = 0 THEN [m EXCEPT !.stop = FALSE]
            ELSE IF InBucket(p, n, i) THEN VisitHashed(f[p - 1], p) ELSE f[p - 1]]

LEMMA NotStopped ==
    ASSUME MatchAssumption, MatchTypeOK, NEW m \in HonestHashed
    PROVE  [m EXCEPT !.stop = FALSE] \in HonestHashed /\ Grows(m, [m EXCEPT !.stop = FALSE])
<1> DEFINE a == [m EXCEPT !.stop = FALSE]
<1>1. /\ m \in Honest /\ Spend(m) = HitCount(m)
      /\ \A h \in 1 .. HitCount(m) : m.hits[h] \in HashedThere
      /\ \A g, h \in 1 .. HitCount(m) : g # h => m.hits[g] # m.hits[h]
  BY Zenon DEF HonestHashed
<1>2. /\ Spend(m) \in Nat /\ Best(m) \in 0 .. 100 /\ HitCount(m) \in Nat
      /\ Best(m) # 0 => \E q \in There : feed[q].score = Best(m)
  BY <1>1, HonestFacts
<1>3. /\ Spend(a) = Spend(m) /\ a.hits = m.hits /\ Best(a) = Best(m) /\ ~a.stop
      /\ a \in [checked : Nat, hits : Seq(There), best : 0 .. 100, stop : BOOLEAN]
  BY <1>1, HonestRecord DEF Best, Spend
<1> HIDE DEF a
<1>4. a \in Honest
  BY <1>2, <1>3, Zenon DEF Honest
<1>5. a \in HonestHashed
  <2>1. HitCount(a) = HitCount(m)
    BY <1>3, Zenon DEF HitCount
  <2> QED
    BY <1>1, <1>3, <1>4, <2>1, Zenon DEF HonestHashed
<1>6. Grows(m, a)
  <2>1. HitCount(a) = HitCount(m)
    BY <1>3, Zenon DEF HitCount
  <2>2. HitCount(m) <= HitCount(a) /\ Best(m) <= Best(a) /\ Spend(m) <= Spend(a)
    <3>1. HitCount(m) \in Nat /\ Best(m) \in 0 .. 100 /\ Spend(m) \in Nat
      BY <1>2
    <3>2. Spend(a) = Spend(m) /\ Best(a) = Best(m)
      BY <1>3
    <3> QED
      BY <2>1, <3>1, <3>2
  <2>3. \A h \in 1 .. HitCount(m) : a.hits[h] = m.hits[h]
    BY <1>2, <1>3, <2>1, Zenon
  <2> QED
    BY <2>2, <2>3, Zenon DEF Grows
<1> QED
  BY <1>5, <1>6 DEF a

LEMMA WindowExists ==
    ASSUME MatchAssumption, MatchTypeOK, NEW m \in HonestHashed, NEW n, NEW i \in 1 .. Len(said)
    PROVE  \E f : WindowFold(f, m, n, i)
<1> DEFINE S == HonestHashed
           N == Len(feed)
           start == [m EXCEPT !.stop = FALSE]
           visit(p, a) == IF InBucket(p, n, i) THEN VisitHashed(a, p) ELSE a
           step == [p \in 1 .. N |-> [a \in S |-> visit(p, a)]]
<1>1. \A p \in 1 .. N : \A a \in S : visit(p, a) \in S
  <2>1. SUFFICES ASSUME NEW p \in 1 .. Len(feed), NEW a \in S PROVE visit(p, a) \in S
    OBVIOUS
  <2>2. CASE InBucket(p, n, i)
    BY <2>2, VisitHashedFacts
  <2>3. CASE ~InBucket(p, n, i)
    BY <2>3
  <2> QED
    BY <2>2, <2>3
<1>2. start \in S /\ N \in Nat
  BY NotStopped, LengthFacts
<1> HIDE DEF visit, N, S, start
<1>3. step \in [1 .. N -> [S -> S]] /\ \A p \in 1 .. N : \A a \in S : step[p][a] = visit(p, a)
  BY <1>1
<1> HIDE DEF step
<1>4. PICK f : Solves(f, S, start, step, N)
  BY <1>2, <1>3, FoldSolved
<1>5. /\ f \in [0 .. N -> S]
      /\ f = [p \in 0 .. N |-> IF p = 0 THEN start ELSE step[p][f[p - 1]]]
  BY <1>4, Zenon DEF Solves
<1>6. f = [p \in 0 .. N |-> IF p = 0 THEN start ELSE visit(p, f[p - 1])]
  <2>1. \A p \in 0 .. N : p # 0 => p \in 1 .. N /\ p - 1 \in 0 .. N
    BY <1>2
  <2>2. \A p \in 0 .. N : p # 0 => step[p][f[p - 1]] = visit(p, f[p - 1])
    BY <1>3, <1>5, <2>1
  <2> QED
    BY <1>5, <2>2
<1>7. WindowFold(f, m, n, i)
  BY <1>6, Zenon DEF WindowFold, visit, start, N
<1> QED
  BY <1>7

LEMMA MatchWindowFacts ==
    ASSUME MatchAssumption, MatchTypeOK, NEW m \in HonestHashed, NEW n, NEW i \in 1 .. Len(said)
    PROVE  /\ MatchWindow(m, n, i) \in HonestHashed /\ Grows(m, MatchWindow(m, n, i))
           /\ \A p \in There : InBucket(p, n, i) => Covered(MatchWindow(m, n, i), p)
<1> DEFINE f == CHOOSE g : WindowFold(g, m, n, i)
           start == [m EXCEPT !.stop = FALSE]
           N == Len(feed)
<1>1. MatchWindow(m, n, i) = f[N]
  BY Zenon DEF MatchWindow, WindowFold
<1>2. WindowFold(f, m, n, i)
  BY WindowExists, Zenon
<1>3. \A p \in 0 .. N : f[p] = IF p = 0 THEN start
                               ELSE IF InBucket(p, n, i) THEN VisitHashed(f[p - 1], p) ELSE f[p - 1]
  BY <1>2, Zenon DEF WindowFold
<1>4. N \in Nat
  BY LengthFacts
<1>5. start \in HonestHashed /\ Grows(m, start)
  BY NotStopped
<1> HIDE DEF f, start, N
<1>6. f[0] = start /\ 0 \in 0 .. N
  BY <1>3, <1>4
<1>7. ASSUME NEW p \in 1 .. N
      PROVE  f[p] = IF InBucket(p, n, i) THEN VisitHashed(f[p - 1], p) ELSE f[p - 1]
  <2>1. p \in 0 .. N /\ p # 0
    BY <1>4
  <2> QED
    BY <1>3, <2>1, Zenon
<1>8. ASSUME NEW p \in 1 .. N, f[p - 1] \in HonestHashed
      PROVE  /\ f[p] \in HonestHashed /\ Grows(f[p - 1], f[p])
             /\ p \in There /\ InBucket(p, n, i) => Covered(f[p], p)
  <2>1. CASE InBucket(p, n, i)
    <3>1. p \in 1 .. Len(feed) /\ f[p] = VisitHashed(f[p - 1], p)
      BY <1>7, <2>1 DEF N
    <3> QED
      BY <1>8, <2>1, <3>1, VisitHashedFacts
  <2>2. CASE ~InBucket(p, n, i)
    <3>1. f[p] = f[p - 1]
      BY <1>7, <2>2
    <3>2. f[p - 1] \in Honest
      BY <1>8 DEF HonestHashed
    <3> QED
      BY <1>8, <2>2, <3>1, <3>2, GrowsFacts
  <2> QED
    BY <2>1, <2>2
<1>10. \A p \in 0 .. N : f[p] \in HonestHashed /\ f[p] \in Honest /\ Grows(f[p], f[N])
  <2>1. HonestHashed \subseteq Honest
    BY DEF HonestHashed
  <2>2. \A p \in 1 .. N : f[p - 1] \in HonestHashed => f[p] \in HonestHashed /\ Grows(f[p - 1], f[p])
    BY <1>8
  <2> QED
    BY <1>4, <1>5, <1>6, <2>1, <2>2, FoldRuns
<1>11. ASSUME NEW p \in 1 .. N, p \in There, InBucket(p, n, i) PROVE Covered(f[p], p)
  <2>1. p - 1 \in 0 .. N
    BY <1>4
  <2> QED
    BY <1>8, <1>10, <1>11, <2>1
<1>13. N \in 0 .. N
  BY <1>4
<1>14. m \in Honest /\ start \in Honest
  BY <1>5 DEF HonestHashed
<1>15. Grows(m, f[N])
  <2>1. Grows(start, f[N])
    BY <1>6, <1>10
  <2>2. f[N] \in Honest
    BY <1>10, <1>13
  <2> QED
    BY <1>5, <1>14, <2>1, <2>2, GrowsFacts
<1>16. ASSUME NEW p \in There, InBucket(p, n, i) PROVE Covered(f[N], p)
  <2>1. p \in 1 .. N /\ p \in 0 .. N
    BY <1>4 DEF There, N
  <2>2. Covered(f[p], p)
    BY <1>11, <1>16, <2>1
  <2>3. f[p] \in Honest /\ f[N] \in Honest /\ Grows(f[p], f[N])
    BY <1>10, <1>13, <2>1
  <2> QED
    BY <2>2, <2>3, GrowsKeeps
<1> QED
  BY <1>1, <1>10, <1>13, <1>15, <1>16

(* All windows of a number of words.                                       *)
WindowsFold(f, m, n) ==
    f = [i \in 0 .. Len(said) |-> IF i = 0 THEN m ELSE MatchWindow(f[i - 1], n, i)]

LEMMA WindowsExist ==
    ASSUME MatchAssumption, MatchTypeOK, NEW m \in HonestHashed, NEW n
    PROVE  \E f : WindowsFold(f, m, n)
<1> DEFINE S == HonestHashed
           N == Len(said)
           step == [i \in 1 .. N |-> [a \in S |-> MatchWindow(a, n, i)]]
<1>1. \A i \in 1 .. N : \A a \in S : MatchWindow(a, n, i) \in S
  BY MatchWindowFacts
<1>2. m \in S /\ N \in Nat
  BY LengthFacts
<1> HIDE DEF N, S
<1>3. step \in [1 .. N -> [S -> S]] /\ \A i \in 1 .. N : \A a \in S : step[i][a] = MatchWindow(a, n, i)
  BY <1>1
<1> HIDE DEF step
<1>4. PICK f : Solves(f, S, m, step, N)
  BY <1>2, <1>3, FoldSolved
<1>5. /\ f \in [0 .. N -> S]
      /\ f = [i \in 0 .. N |-> IF i = 0 THEN m ELSE step[i][f[i - 1]]]
  BY <1>4, Zenon DEF Solves
<1>6. f = [i \in 0 .. N |-> IF i = 0 THEN m ELSE MatchWindow(f[i - 1], n, i)]
  <2>1. \A i \in 0 .. N : i # 0 => i \in 1 .. N /\ i - 1 \in 0 .. N
    BY <1>2
  <2>2. \A i \in 0 .. N : i # 0 => step[i][f[i - 1]] = MatchWindow(f[i - 1], n, i)
    BY <1>3, <1>5, <2>1
  <2> QED
    BY <1>5, <2>2
<1>7. WindowsFold(f, m, n)
  BY <1>6, Zenon DEF WindowsFold, N
<1> QED
  BY <1>7

LEMMA MatchWindowsFacts ==
    ASSUME MatchAssumption, MatchTypeOK, NEW m \in HonestHashed, NEW n
    PROVE  /\ MatchWindows(m, n) \in HonestHashed /\ Grows(m, MatchWindows(m, n))
           /\ \A p \in There : \A i \in 1 .. Len(said) :
                 InBucket(p, n, i) => Covered(MatchWindows(m, n), p)
<1> DEFINE f == CHOOSE g : WindowsFold(g, m, n)
           N == Len(said)
<1>1. MatchWindows(m, n) = f[N]
  BY Zenon DEF MatchWindows, WindowsFold
<1>2. WindowsFold(f, m, n)
  BY WindowsExist, Zenon
<1>3. \A i \in 0 .. N : f[i] = IF i = 0 THEN m ELSE MatchWindow(f[i - 1], n, i)
  BY <1>2, Zenon DEF WindowsFold
<1>4. N \in Nat
  BY LengthFacts
<1> HIDE DEF f, N
<1>5. f[0] = m /\ 0 \in 0 .. N /\ N \in 0 .. N
  BY <1>3, <1>4
<1>6. \A i \in 1 .. N : f[i] = MatchWindow(f[i - 1], n, i)
  <2>1. \A i \in 1 .. N : i \in 0 .. N /\ i # 0
    BY <1>4
  <2> QED
    BY <1>3, <2>1, Zenon
<1>7. ASSUME NEW i \in 1 .. N, f[i - 1] \in HonestHashed
      PROVE  /\ f[i] \in HonestHashed /\ Grows(f[i - 1], f[i])
             /\ \A p \in There : InBucket(p, n, i) => Covered(f[i], p)
  BY <1>6, <1>7, MatchWindowFacts, Zenon DEF N
<1>8. \A i \in 0 .. N : f[i] \in HonestHashed /\ f[i] \in Honest /\ Grows(f[i], f[N])
  <2>1. HonestHashed \subseteq Honest
    BY DEF HonestHashed
  <2>2. \A i \in 1 .. N : f[i - 1] \in HonestHashed => f[i] \in HonestHashed /\ Grows(f[i - 1], f[i])
    BY <1>7
  <2> QED
    BY <1>4, <1>5, <2>1, <2>2, FoldRuns
<1>9. ASSUME NEW p \in There, NEW i \in 1 .. N, InBucket(p, n, i) PROVE Covered(f[N], p)
  <2>1. i - 1 \in 0 .. N /\ i \in 0 .. N
    BY <1>4
  <2>2. Covered(f[i], p)
    BY <1>7, <1>8, <1>9, <2>1
  <2> QED
    BY <1>5, <1>8, <2>1, <2>2, GrowsKeeps
<1> QED
  BY <1>1, <1>5, <1>8, <1>9 DEF N

(* All hashed rules.                                                       *)
HashedFold(f) ==
    f = [p \in 0 .. Len(feed) |->
            IF p = 0 THEN Start
            ELSE IF Leads(p) THEN MatchWindows(f[p - 1], Words(feed[p].phrase)) ELSE f[p - 1]]

LEMMA StartHonest == Start \in HonestHashed
<1>1. /\ Start.checked = 0 /\ Start.hits = <<>> /\ Start.best = 0 /\ Start.stop = FALSE
      /\ Start \in [checked : Nat, hits : Seq(There), best : 0 .. 100, stop : BOOLEAN]
  <2>1. <<>> \in Seq(There)
    OBVIOUS
  <2> QED
    BY <2>1 DEF Start
<1>2. Start \in Honest
  BY <1>1, Zenon DEF Honest, Best
<1>3. Spend(Start) = 0 /\ HitCount(Start) = 0
  BY <1>1 DEF Spend, HitCount
<1>4. \A h \in 1 .. 0 : FALSE
  OBVIOUS
<1> QED
  BY <1>2, <1>3, <1>4, Zenon DEF HonestHashed

LEMMA HashedExists == ASSUME MatchAssumption, MatchTypeOK PROVE \E f : HashedFold(f)
<1> DEFINE S == HonestHashed
           N == Len(feed)
           visit(p, a) == IF Leads(p) THEN MatchWindows(a, Words(feed[p].phrase)) ELSE a
           step == [p \in 1 .. N |-> [a \in S |-> visit(p, a)]]
<1>1. \A p \in 1 .. N : \A a \in S : visit(p, a) \in S
  BY MatchWindowsFacts
<1>2. Start \in S /\ N \in Nat
  BY StartHonest, LengthFacts
<1> HIDE DEF visit, N, S
<1>3. step \in [1 .. N -> [S -> S]] /\ \A p \in 1 .. N : \A a \in S : step[p][a] = visit(p, a)
  BY <1>1
<1> HIDE DEF step
<1>4. PICK f : Solves(f, S, Start, step, N)
  BY <1>2, <1>3, FoldSolved
<1>5. /\ f \in [0 .. N -> S]
      /\ f = [p \in 0 .. N |-> IF p = 0 THEN Start ELSE step[p][f[p - 1]]]
  BY <1>4, Zenon DEF Solves
<1>6. f = [p \in 0 .. N |-> IF p = 0 THEN Start ELSE visit(p, f[p - 1])]
  <2>1. \A p \in 0 .. N : p # 0 => p \in 1 .. N /\ p - 1 \in 0 .. N
    BY <1>2
  <2>2. \A p \in 0 .. N : p # 0 => step[p][f[p - 1]] = visit(p, f[p - 1])
    BY <1>3, <1>5, <2>1
  <2> QED
    BY <1>5, <2>2
<1>7. HashedFold(f)
  BY <1>6, Zenon DEF HashedFold, visit, N
<1> QED
  BY <1>7

LEMMA HashedFacts ==
    ASSUME MatchAssumption, MatchTypeOK
    PROVE  Hashed \in HonestHashed /\ \A p \in HashedThere : Covered(Hashed, p)
<1> DEFINE f == CHOOSE g : HashedFold(g)
           N == Len(feed)
<1>1. Hashed = f[N]
  BY Zenon DEF Hashed, HashedFold
<1>2. HashedFold(f)
  BY HashedExists, Zenon
<1>3. \A p \in 0 .. N : f[p] = IF p = 0 THEN Start
                               ELSE IF Leads(p) THEN MatchWindows(f[p - 1], Words(feed[p].phrase)) ELSE f[p - 1]
  BY <1>2, Zenon DEF HashedFold
<1>4. N \in Nat
  BY LengthFacts
<1> HIDE DEF f, N
<1>5. f[0] = Start /\ 0 \in 0 .. N /\ N \in 0 .. N
  BY <1>3, <1>4
<1>6. \A p \in 1 .. N : f[p] = IF Leads(p) THEN MatchWindows(f[p - 1], Words(feed[p].phrase)) ELSE f[p - 1]
  <2>1. \A p \in 1 .. N : p \in 0 .. N /\ p # 0
    BY <1>4
  <2> QED
    BY <1>3, <2>1, Zenon
<1>7. ASSUME NEW k \in 1 .. N, f[k - 1] \in HonestHashed
      PROVE  /\ f[k] \in HonestHashed /\ Grows(f[k - 1], f[k])
             /\ Leads(k) => \A p \in There : \A i \in 1 .. Len(said) :
                   InBucket(p, Words(feed[k].phrase), i) => Covered(f[k], p)
  <2>1. CASE Leads(k)
    <3>1. f[k] = MatchWindows(f[k - 1], Words(feed[k].phrase))
      BY <1>6, <2>1, Zenon
    <3> QED
      BY <1>7, <3>1, MatchWindowsFacts, Zenon
  <2>2. CASE ~Leads(k)
    <3>1. f[k] = f[k - 1]
      BY <1>6, <2>2, Zenon
    <3>2. f[k - 1] \in Honest
      BY <1>7, Zenon DEF HonestHashed
    <3>3. Grows(f[k - 1], f[k - 1])
      BY <3>2, GrowsFacts
    <3> QED
      BY <1>7, <2>2, <3>1, <3>3, Zenon
  <2> QED
    BY <2>1, <2>2, Zenon
<1>8. \A k \in 0 .. N : f[k] \in HonestHashed /\ f[k] \in Honest /\ Grows(f[k], f[N])
  <2>1. HonestHashed \subseteq Honest
    BY DEF HonestHashed
  <2>2. \A k \in 1 .. N : f[k - 1] \in HonestHashed => f[k] \in HonestHashed /\ Grows(f[k - 1], f[k])
    BY <1>7, Zenon
  <2>3. f[0] \in HonestHashed
    BY <1>5, StartHonest
  <2> QED
    BY <1>4, <2>1, <2>2, <2>3, FoldRuns
<1>9. ASSUME NEW p \in HashedThere PROVE Covered(f[N], p)
  <2>1. p \in There /\ feed[p].hashed /\ Occurs(feed[p])
    BY Zenon DEF HashedThere, There
  <2>2. PICK i \in 1 .. Len(said) : WordsAt(feed[p].phrase, i)
    BY <2>1, Zenon DEF Occurs
  <2> DEFINE L == {q \in 1 .. N : feed[q].hashed /\ Words(feed[q].phrase) = Words(feed[p].phrase)}
  <2>3. p \in L
    BY <2>1 DEF There, N
  <2>4. L \subseteq Nat
    OBVIOUS
  <2>5. PICK k \in L : \A q \in L : k <= q
    BY <2>3, <2>4, FirstOfSome
  <2>6. k \in 1 .. N /\ feed[k].hashed /\ Words(feed[k].phrase) = Words(feed[p].phrase)
    BY <2>5
  <2>7. ASSUME NEW q \in 1 .. k - 1, feed[q].hashed PROVE Words(feed[q].phrase) # Words(feed[k].phrase)
    <3>1. q \in 1 .. N /\ ~(k <= q)
      BY <1>4, <2>6
    <3>2. q \notin L
      BY <2>5, <3>1
    <3> QED
      BY <2>6, <2>7, <3>1, <3>2
  <2>8. Leads(k)
    BY <2>6, <2>7, Zenon DEF Leads
  <2>9. InBucket(p, Words(feed[k].phrase), i)
    BY <2>1, <2>2, <2>6, Zenon DEF InBucket
  <2>10. k - 1 \in 0 .. N /\ k \in 0 .. N
    BY <1>4, <2>6
  <2>11. Covered(f[k], p)
    BY <1>7, <1>8, <2>1, <2>6, <2>8, <2>9, <2>10, Zenon
  <2> QED
    BY <1>5, <1>8, <2>10, <2>11, GrowsKeeps
<1> QED
  BY <1>1, <1>5, <1>8, <1>9

(* The hits among the hashed rules are different rules that are there.     *)
LEMMA HitsCounted ==
    ASSUME MatchAssumption, MatchTypeOK, NEW m \in HonestHashed
    PROVE  /\ IsFiniteSet(HashedThere) /\ Cardinality(HashedThere) \in Nat
           /\ HitCount(m) <= Cardinality(HashedThere)
           /\ \A p \in HashedThere : ~Seen(m, p) => HitCount(m) < Cardinality(HashedThere)
<1>1. IsFiniteSet(HashedThere) /\ Cardinality(HashedThere) \in Nat
  <2>1. IsFiniteSet(1 .. Len(feed))
    BY LengthFacts, FS_Interval
  <2>2. HashedThere \in SUBSET (1 .. Len(feed))
    BY DEF HashedThere, There
  <2>3. IsFiniteSet(HashedThere)
    BY <2>1, <2>2, FS_Subset
  <2> QED
    BY <2>3, FS_CardinalityType
<1>2. /\ m \in Honest
      /\ \A h \in 1 .. HitCount(m) : m.hits[h] \in HashedThere
      /\ \A g, h \in 1 .. HitCount(m) : g # h => m.hits[g] # m.hits[h]
  BY Zenon DEF HonestHashed
<1>3. PICK n \in Nat : HitCount(m) = n
  BY <1>2, HonestFacts
<1>4. ASSUME NEW T, IsFiniteSet(T), \A h \in 1 .. n : m.hits[h] \in T PROVE n <= Cardinality(T)
  <2> DEFINE f == [h \in 1 .. n |-> m.hits[h]]
  <2>1. f \in [1 .. n -> T]
    BY <1>4
  <2>2. \A g, h \in 1 .. n : f[g] = f[h] => g = h
    BY <1>2, <1>3
  <2>3. f \in Injection(1 .. n, T)
    BY <2>1, <2>2 DEF Injection, IsInjective
  <2>4. Cardinality(1 .. n) <= Cardinality(T)
    BY <1>4, <2>3, FS_Injection
  <2>5. Cardinality(1 .. n) = n
    <3>1. Cardinality(1 .. n) = IF 1 > n THEN 0 ELSE n - 1 + 1
      BY FS_Interval
    <3> QED
      BY <3>1
  <2> QED
    BY <2>4, <2>5
<1>5. n <= Cardinality(HashedThere)
  BY <1>1, <1>2, <1>3, <1>4
<1>6. ASSUME NEW p \in HashedThere, ~Seen(m, p) PROVE n < Cardinality(HashedThere)
  <2>1. \A h \in 1 .. n : m.hits[h] # p
    BY <1>3, <1>6, Zenon DEF Seen, HitCount
  <2>2. \A h \in 1 .. n : m.hits[h] \in HashedThere \ {p}
    BY <1>2, <1>3, <2>1
  <2>3. IsFiniteSet(HashedThere \ {p}) /\ Cardinality(HashedThere \ {p}) = Cardinality(HashedThere) - 1
    BY <1>1, FS_RemoveElement
  <2>4. n <= Cardinality(HashedThere \ {p})
    BY <1>4, <2>2, <2>3
  <2> QED
    BY <1>1, <2>3, <2>4
<1> QED
  BY <1>1, <1>3, <1>5, <1>6

-----------------------------------------------------------------------------
(* The order of the candidates is strict and total, so their ranks differ. *)
LEMMA SharedFacts ==
    ASSUME MatchAssumption, MatchTypeOK, NEW p
    PROVE  /\ IsFiniteSet(Shared(p)) /\ Cardinality(Shared(p)) \in Nat
           /\ Shared(p) # {} => Earliest(p) \in Nat
<1>1. Shared(p) \in SUBSET (1 .. Len(said) - 2) /\ Shared(p) \subseteq Nat
  BY DEF Shared, Grams, Starts
<1>2. Len(said) - 2 \in Int /\ 1 \in Int
  BY LengthFacts
<1>3. IsFiniteSet(1 .. Len(said) - 2)
  BY <1>2, FS_Interval
<1>4. IsFiniteSet(Shared(p))
  BY <1>1, <1>3, FS_Subset
<1>5. ASSUME Shared(p) # {} PROVE Earliest(p) \in Nat
  <2>1. \E i \in Shared(p) : \A j \in Shared(p) : i <= j
    BY <1>1, <1>5, FirstOfSome
  <2>2. Earliest(p) \in Shared(p)
    BY <2>1, Zenon DEF Earliest
  <2> QED
    BY <1>1, <2>2
<1> QED
  BY <1>4, <1>5, FS_CardinalityType

LEMMA RanksFacts ==
    ASSUME MatchAssumption, MatchTypeOK, NEW p \in 1 .. Len(feed), NEW q \in 1 .. Len(feed),
           Shared(p) # {}, Shared(q) # {}
    PROVE  /\ ~Ranks(p, p)
           /\ p # q => Ranks(p, q) \/ Ranks(q, p)
           /\ \A r \in 1 .. Len(feed) : Shared(r) # {} /\ Ranks(r, p) /\ Ranks(p, q) => Ranks(r, q)
<1> DEFINE card(r) == Cardinality(Shared(r))
<1>1. \A r, t : Ranks(r, t) <=> \/ card(r) > card(t)
                                \/ card(r) = card(t) /\ Earliest(r) < Earliest(t)
                                \/ card(r) = card(t) /\ Earliest(r) = Earliest(t) /\ r < t
  BY Zenon DEF Ranks, More
<1>2. \A r : card(r) \in Nat /\ (Shared(r) # {} => Earliest(r) \in Nat)
  BY SharedFacts
<1> HIDE DEF card
<1>3. p \in Nat /\ q \in Nat /\ \A r \in 1 .. Len(feed) : r \in Nat
  OBVIOUS
<1>4. card(p) \in Nat /\ card(q) \in Nat /\ Earliest(p) \in Nat /\ Earliest(q) \in Nat
  BY <1>2
<1>5. ~Ranks(p, p)
  BY <1>1, <1>3, <1>4
<1>6. p # q => Ranks(p, q) \/ Ranks(q, p)
  BY <1>1, <1>3, <1>4
<1>7. ASSUME NEW r \in 1 .. Len(feed), Shared(r) # {}, Ranks(r, p), Ranks(p, q) PROVE Ranks(r, q)
  <2>1. card(r) \in Nat /\ Earliest(r) \in Nat /\ r \in Nat
    BY <1>2, <1>3, <1>7
  <2> QED
    BY <1>1, <1>3, <1>4, <1>7, <2>1
<1> QED
  BY <1>5, <1>6, <1>7

Above(p) == {q \in 1 .. Len(feed) : Candidate(q) /\ Ranks(q, p)}

LEMMA AboveFacts ==
    ASSUME MatchAssumption, MatchTypeOK, NEW p
    PROVE  IsFiniteSet(Above(p)) /\ Cardinality(Above(p)) \in Nat
<1>1. Above(p) \in SUBSET (1 .. Len(feed))
  BY DEF Above
<1>2. Len(feed) \in Int /\ 1 \in Int
  BY LengthFacts
<1>3. IsFiniteSet(1 .. Len(feed))
  BY <1>2, FS_Interval
<1>4. IsFiniteSet(Above(p))
  BY <1>1, <1>3, FS_Subset
<1> QED
  BY <1>4, FS_CardinalityType

LEMMA FewerAbove ==
    ASSUME MatchAssumption, MatchTypeOK, ~Small, NEW p \in 1 .. Len(feed), NEW q \in 1 .. Len(feed),
           Candidate(p), Candidate(q), Ranks(p, q)
    PROVE  Cardinality(Above(p)) < Cardinality(Above(q))
<1>1. Shared(p) # {} /\ Shared(q) # {}
  BY Zenon DEF Candidate
<1>2. p \notin Above(p)
  <2>1. ~Ranks(p, p)
    BY <1>1, RanksFacts
  <2> QED
    BY <2>1, Zenon DEF Above
<1>3. Above(p) \cup {p} \subseteq Above(q)
  <2>1. ASSUME NEW r \in Above(p) PROVE r \in Above(q)
    <3>1. r \in 1 .. Len(feed) /\ Candidate(r) /\ Ranks(r, p) /\ Shared(r) # {}
      BY <2>1, Zenon DEF Above, Candidate
    <3>2. Ranks(r, q)
      BY <1>1, <3>1, RanksFacts
    <3> QED
      BY <3>1, <3>2, Zenon DEF Above
  <2>2. p \in Above(q)
    BY Zenon DEF Above
  <2> QED
    BY <2>1, <2>2
<1>4. IsFiniteSet(Above(p)) /\ IsFiniteSet(Above(q))
      /\ Cardinality(Above(p)) \in Nat /\ Cardinality(Above(q)) \in Nat
  BY AboveFacts
<1>5. Cardinality(Above(p) \cup {p}) = Cardinality(Above(p)) + 1
  BY <1>2, <1>4, FS_AddElement
<1>6. Cardinality(Above(p) \cup {p}) <= Cardinality(Above(q))
  BY <1>3, <1>4, FS_Subset
<1> QED
  BY <1>4, <1>5, <1>6

LEMMA OneOfARank ==
    ASSUME MatchAssumption, MatchTypeOK, NEW k, NEW p \in Ranked(k), NEW q \in Ranked(k)
    PROVE  p = q
<1>1. /\ p \in 1 .. Len(feed) /\ Candidate(p) /\ RankOf(p) = k
      /\ q \in 1 .. Len(feed) /\ Candidate(q) /\ RankOf(q) = k
  BY Zenon DEF Ranked
<1>2. CASE Small
  BY <1>1, <1>2, Zenon DEF RankOf
<1>3. CASE ~Small
  <2>1. 1 + Cardinality(Above(p)) = 1 + Cardinality(Above(q))
    BY <1>1, <1>3, Zenon DEF RankOf, Above
  <2>2. Cardinality(Above(p)) \in Nat /\ Cardinality(Above(q)) \in Nat
    BY AboveFacts
  <2>3. ~(Cardinality(Above(p)) < Cardinality(Above(q))) /\ ~(Cardinality(Above(q)) < Cardinality(Above(p)))
    BY <2>1, <2>2
  <2>4. ~Ranks(p, q) /\ ~Ranks(q, p)
    BY <1>1, <1>3, <2>3, FewerAbove
  <2>5. Shared(p) # {} /\ Shared(q) # {}
    BY <1>1, <1>3, Zenon DEF Candidate
  <2> QED
    BY <1>1, <2>4, <2>5, RanksFacts
<1> QED
  BY <1>2, <1>3

-----------------------------------------------------------------------------
(* The plaintext rules, by rank.                                           *)
LEMMA VisitPlainFacts ==
    ASSUME MatchAssumption, MatchTypeOK, NEW m \in Honest, NEW p \in 1 .. Len(feed)
    PROVE  /\ VisitPlain(m, p) \in Honest /\ Grows(m, VisitPlain(m, p))
           /\ Spend(VisitPlain(m, p)) = Spend(m) + 1
           /\ p \in There /\ ~feed[p].hashed => Best(VisitPlain(m, p)) >= feed[p].score
<1> DEFINE c == Spend(m) + 1
           a == [m EXCEPT !.checked = c]
<1>1. Spend(m) \in Nat
  BY HonestFacts
<1>2. c \in Nat /\ Spend(m) <= c
  BY <1>1
<1>3. VisitPlain(m, p) = IF Live(feed[p]) /\ ~feed[p].hashed /\ Occurs(feed[p]) THEN Hit(a, p) ELSE a
  BY Zenon DEF VisitPlain, Spend
<1> HIDE DEF c
<1>4. a \in Honest /\ Grows(m, a) /\ Spend(a) = c
  BY <1>2, CheckFacts
<1> HIDE DEF a
<1>5. CASE Live(feed[p]) /\ ~feed[p].hashed /\ Occurs(feed[p])
  <2>1. p \in There
    BY <1>5, Zenon DEF There
  <2>2. /\ Hit(a, p) \in Honest /\ Grows(a, Hit(a, p)) /\ Best(Hit(a, p)) >= feed[p].score
        /\ Spend(Hit(a, p)) = Spend(a)
    BY <1>4, <2>1, HitFacts
  <2>3. Grows(m, Hit(a, p))
    BY <1>4, <2>2, GrowsFacts
  <2>4. VisitPlain(m, p) = Hit(a, p)
    BY <1>3, <1>5, Zenon
  <2> QED
    BY <1>4, <2>2, <2>3, <2>4, Zenon DEF c
<1>6. CASE ~(Live(feed[p]) /\ ~feed[p].hashed /\ Occurs(feed[p]))
  <2>1. VisitPlain(m, p) = a
    BY <1>3, <1>6, Zenon
  <2>2. ~(p \in There /\ ~feed[p].hashed)
    BY <1>6, Zenon DEF There
  <2> QED
    BY <1>4, <2>1, <2>2, Zenon DEF c
<1> QED
  BY <1>5, <1>6, Zenon

LEMMA VisitRankFacts ==
    ASSUME MatchAssumption, MatchTypeOK, NEW m \in Honest, NEW k
    PROVE  /\ VisitRank(m, k) \in Honest /\ Grows(m, VisitRank(m, k))
           /\ Spend(VisitRank(m, k)) <= Spend(m) + 1
           /\ \A p \in There : p \in Ranked(k) /\ ~feed[p].hashed =>
                 Spent(m) \/ Full(VisitRank(m, k)) \/ Best(VisitRank(m, k)) >= feed[p].score
<1>1. Spend(m) \in Nat /\ Spend(m) <= Spend(m) + 1
  <2>1. Spend(m) \in Nat
    BY HonestFacts
  <2> QED
    BY <2>1
<1>2. Grows(m, m)
  BY GrowsFacts
<1>3. CASE Spent(m) \/ Full(m)
  <2>1. VisitRank(m, k) = m
    BY <1>3, Zenon DEF VisitRank
  <2> QED
    BY <1>1, <1>2, <1>3, <2>1, Zenon
<1>4. CASE ~(Spent(m) \/ Full(m)) /\ Ranked(k) = {}
  <2>1. VisitRank(m, k) = m
    BY <1>4, Zenon DEF VisitRank
  <2> QED
    BY <1>1, <1>2, <1>4, <2>1, Zenon
<1>5. CASE ~(Spent(m) \/ Full(m)) /\ Ranked(k) # {}
  <2> DEFINE r == CHOOSE p \in Ranked(k) : TRUE
  <2>1. VisitRank(m, k) = VisitPlain(m, r)
    BY <1>5, Zenon DEF VisitRank
  <2>2. r \in Ranked(k)
    BY <1>5, Zenon
  <2> HIDE DEF r
  <2>3. r \in 1 .. Len(feed)
    BY <2>2, Zenon DEF Ranked
  <2>4. /\ VisitPlain(m, r) \in Honest /\ Grows(m, VisitPlain(m, r))
        /\ Spend(VisitPlain(m, r)) = Spend(m) + 1
        /\ r \in There /\ ~feed[r].hashed => Best(VisitPlain(m, r)) >= feed[r].score
    BY <2>3, VisitPlainFacts
  <2>5. \A p \in Ranked(k) : p = r
    BY <2>2, OneOfARank
  <2>6. Spend(VisitPlain(m, r)) <= Spend(m) + 1
    BY <1>1, <2>4
  <2> QED
    BY <2>1, <2>4, <2>5, <2>6, Zenon
<1> QED
  BY <1>3, <1>4, <1>5, Zenon

PlainFold(f, h) ==
    f = [k \in 0 .. MaxChecked |-> IF k = 0 THEN h ELSE VisitRank(f[k - 1], k)]

LEMMA PlainExists ==
    ASSUME MatchAssumption, MatchTypeOK, NEW h \in Honest PROVE \E f : PlainFold(f, h)
<1> DEFINE S == Honest
           N == MaxChecked
           step == [k \in 1 .. N |-> [a \in S |-> VisitRank(a, k)]]
<1>1. \A k \in 1 .. N : \A a \in S : VisitRank(a, k) \in S
  BY VisitRankFacts
<1>2. h \in S /\ N \in Nat
  BY LengthFacts
<1> HIDE DEF N, S
<1>3. step \in [1 .. N -> [S -> S]] /\ \A k \in 1 .. N : \A a \in S : step[k][a] = VisitRank(a, k)
  BY <1>1
<1> HIDE DEF step
<1>4. PICK f : Solves(f, S, h, step, N)
  BY <1>2, <1>3, FoldSolved
<1>5. /\ f \in [0 .. N -> S]
      /\ f = [k \in 0 .. N |-> IF k = 0 THEN h ELSE step[k][f[k - 1]]]
  BY <1>4, Zenon DEF Solves
<1>6. f = [k \in 0 .. N |-> IF k = 0 THEN h ELSE VisitRank(f[k - 1], k)]
  <2>1. \A k \in 0 .. N : k # 0 => k \in 1 .. N /\ k - 1 \in 0 .. N
    BY <1>2
  <2>2. \A k \in 0 .. N : k # 0 => step[k][f[k - 1]] = VisitRank(f[k - 1], k)
    BY <1>3, <1>5, <2>1
  <2> QED
    BY <1>5, <2>2
<1>7. PlainFold(f, h)
  BY <1>6, Zenon DEF PlainFold, N
<1> QED
  BY <1>7

LEMMA PlainAfterFacts ==
    ASSUME MatchAssumption, MatchTypeOK, NEW h \in Honest
    PROVE  /\ PlainAfter(h) \in Honest /\ Grows(h, PlainAfter(h))
           /\ \A p \in There : \A k \in 1 .. MaxChecked : p \in Ranked(k) /\ ~feed[p].hashed =>
                 \/ Full(PlainAfter(h)) \/ Best(PlainAfter(h)) >= feed[p].score
                 \/ Spend(h) + k - 1 >= MaxChecked
<1> DEFINE f == CHOOSE g : PlainFold(g, h)
           N == MaxChecked
<1>1. PlainAfter(h) = f[N]
  BY Zenon DEF PlainAfter, PlainFold
<1>2. PlainFold(f, h)
  BY PlainExists, Zenon
<1>3. \A k \in 0 .. N : f[k] = IF k = 0 THEN h ELSE VisitRank(f[k - 1], k)
  BY <1>2, Zenon DEF PlainFold
<1>4. N \in Nat
  BY LengthFacts
<1> HIDE DEF f, N
<1>5. f[0] = h /\ 0 \in 0 .. N /\ N \in 0 .. N
  BY <1>3, <1>4
<1>6. \A k \in 1 .. N : f[k] = VisitRank(f[k - 1], k)
  <2>1. \A k \in 1 .. N : k \in 0 .. N /\ k # 0
    BY <1>4
  <2> QED
    BY <1>3, <2>1, Zenon
<1>7. \A k \in 0 .. N : f[k] \in Honest /\ Grows(f[k], f[N])
  <2>1. \A k \in 1 .. N : f[k - 1] \in Honest => f[k] \in Honest /\ Grows(f[k - 1], f[k])
    BY <1>6, VisitRankFacts
  <2> QED
    BY <1>4, <1>5, <2>1, FoldRuns
<1>8. Spend(h) \in Nat
  BY HonestFacts
<1>9. \A k \in 0 .. N : Spend(f[k]) <= Spend(h) + k
  <2> DEFINE T == {k \in 0 .. N : Spend(f[k]) <= Spend(h) + k}
  <2>1. 0 \in T
    BY <1>5, <1>8
  <2>2. ASSUME NEW k \in 1 .. N, k - 1 \in T PROVE k \in T
    <3>1. k - 1 \in 0 .. N /\ k \in 0 .. N /\ Spend(f[k - 1]) <= Spend(h) + (k - 1)
      BY <1>4, <2>2
    <3>2. f[k - 1] \in Honest /\ f[k] \in Honest
      BY <1>7, <3>1
    <3>3. Spend(f[k]) <= Spend(f[k - 1]) + 1
      BY <1>6, <3>2, VisitRankFacts
    <3>4. Spend(f[k - 1]) \in Nat /\ Spend(f[k]) \in Nat
      BY <3>2, HonestFacts
    <3> QED
      BY <1>8, <3>1, <3>3, <3>4
  <2> HIDE DEF T
  <2>3. \A k \in 0 .. N : k \in T
    BY <1>4, <2>1, <2>2, StepByStep
  <2> QED
    BY <2>3 DEF T
<1>10. ASSUME NEW p \in There, NEW k \in 1 .. N, p \in Ranked(k), ~feed[p].hashed
       PROVE  Full(f[N]) \/ Best(f[N]) >= feed[p].score \/ Spend(h) + k - 1 >= MaxChecked
  <2>1. k - 1 \in 0 .. N /\ k \in 0 .. N
    BY <1>4
  <2>2. f[k - 1] \in Honest /\ f[k] \in Honest /\ f[N] \in Honest /\ Grows(f[k], f[N])
    BY <1>5, <1>7, <2>1
  <2>3. Spent(f[k - 1]) \/ Full(f[k]) \/ Best(f[k]) >= feed[p].score
    BY <1>6, <1>10, <2>2, VisitRankFacts
  <2>4. CASE Spent(f[k - 1])
    <3>1. Spend(f[k - 1]) >= MaxChecked
      BY <2>4, FullFacts
    <3>2. Spend(f[k - 1]) <= Spend(h) + (k - 1) /\ Spend(f[k - 1]) \in Nat
      BY <1>9, <2>1, <2>2, HonestFacts
    <3> QED
      BY <1>4, <1>8, <3>1, <3>2 DEF N
  <2>5. CASE Full(f[k])
    BY <2>2, <2>5, GrowsKeeps
  <2>6. CASE Best(f[k]) >= feed[p].score
    <3>1. Best(f[k]) <= Best(f[N])
      BY <2>2, Zenon DEF Grows
    <3>2. Best(f[k]) \in 0 .. 100 /\ Best(f[N]) \in 0 .. 100
      BY <2>2, HonestFacts
    <3>3. feed[p].score \in 0 .. 100
      <4>1. p \in 1 .. Len(feed)
        BY Zenon DEF There
      <4> QED
        BY <4>1, RuleFacts
    <3>4. \A x, y, z \in 0 .. 100 : x >= z /\ x <= y => y >= z
      OBVIOUS
    <3>5. Best(f[N]) >= feed[p].score
      BY <2>6, <3>1, <3>2, <3>3, <3>4, Zenon
    <3> QED
      BY <3>5
  <2> QED
    BY <2>3, <2>4, <2>5, <2>6
<1>11. f[N] \in Honest /\ Grows(h, f[N])
  BY <1>5, <1>7
<1> QED
  BY <1>1, <1>10, <1>11 DEF N

-----------------------------------------------------------------------------
(* In a large feed a rule of three characters that occurs shares a trigram *)
(* with the text, unless the text has too many.                            *)
LEMMA GramFacts ==
    ASSUME NEW S, NEW s \in Seq(S), NEW i \in 1 .. Len(s) - 2
    PROVE  /\ GramAt(s, i) \in Seq(S) /\ Len(GramAt(s, i)) = 3
           /\ \A k \in 1 .. 3 : GramAt(s, i)[k] = s[i + k - 1]
<1>1. Len(s) \in Nat /\ \A j \in 1 .. Len(s) : s[j] \in S
  BY LenProperties
<1>2. i \in Int /\ i + 2 \in Int /\ i <= i + 2 /\ i >= 1 /\ i + 2 <= Len(s)
  BY <1>1
<1>3. \A j \in i .. i + 2 : s[j] \in S
  BY <1>1, <1>2
<1>4. /\ SubSeq(s, i, i + 2) \in Seq(S)
      /\ Len(SubSeq(s, i, i + 2)) = IF i <= i + 2 THEN (i + 2) - i + 1 ELSE 0
      /\ \A k \in 1 .. (i + 2) - i + 1 : SubSeq(s, i, i + 2)[k] = s[i + k - 1]
  BY <1>2, <1>3, SubSeqProperties
<1>5. (i + 2) - i + 1 = 3
  BY <1>2
<1> QED
  BY <1>2, <1>4, <1>5 DEF GramAt

LEMMA FirstGram ==
    ASSUME MatchAssumption, MatchTypeOK, NEW s \in Seq(Characters), Len(s) >= 3,
           NEW i \in 1 .. Len(said), At(s, i)
    PROVE  i \in 1 .. Len(said) - 2 /\ GramAt(s, 1) = GramAt(said, i) /\ GramAt(s, 1) \in GramsOf(s)
<1>1. said \in Seq(Characters) /\ Len(said) \in Nat /\ Len(s) \in Nat
  BY LenProperties DEF MatchTypeOK
<1>2. i + Len(s) - 1 <= Len(said) /\ SubSeq(said, i, i + Len(s) - 1) = s
  BY Zenon DEF At
<1>3. PICK n \in Nat, z \in Nat : Len(s) = n /\ Len(said) = z
  BY <1>1
<1>4. n >= 3 /\ i \in 1 .. z /\ i + n - 1 <= z
  BY <1>2, <1>3
<1>5. i \in 1 .. z - 2 /\ 1 \in 1 .. n - 2
  BY <1>4
<1>6. \A k \in 1 .. n : s[k] = said[i + k - 1]
  <2>1. \A j \in 1 .. z : said[j] \in Characters
    BY <1>1, <1>3, LenProperties
  <2>2. \A j \in i .. i + n - 1 : said[j] \in Characters
    BY <1>4, <2>1
  <2>3. i \in Int /\ i + n - 1 \in Int /\ (i + n - 1) - i + 1 = n
    BY <1>4
  <2>4. \A k \in 1 .. (i + n - 1) - i + 1 : SubSeq(said, i, i + n - 1)[k] = said[i + k - 1]
    BY <2>2, <2>3, SubSeqProperties
  <2>5. SubSeq(said, i, i + n - 1) = s
    BY <1>2, <1>3, Zenon
  <2> QED
    BY <2>3, <2>4, <2>5
<1>7. /\ GramAt(s, 1) \in Seq(Characters) /\ Len(GramAt(s, 1)) = 3
      /\ \A k \in 1 .. 3 : GramAt(s, 1)[k] = s[1 + k - 1]
  BY <1>3, <1>5, GramFacts
<1>8. /\ GramAt(said, i) \in Seq(Characters) /\ Len(GramAt(said, i)) = 3
      /\ \A k \in 1 .. 3 : GramAt(said, i)[k] = said[i + k - 1]
  BY <1>1, <1>3, <1>5, GramFacts
<1>9. \A k \in 1 .. 3 : GramAt(s, 1)[k] = GramAt(said, i)[k]
  <2>1. \A k \in 1 .. 3 : k \in 1 .. n /\ 1 + k - 1 = k
    BY <1>4
  <2> QED
    BY <1>6, <1>7, <1>8, <2>1
<1>10. GramAt(s, 1) = GramAt(said, i)
  BY <1>7, <1>8, <1>9, SeqEqual
<1>11. GramAt(s, 1) \in GramsOf(s)
  BY <1>3, <1>5, Zenon DEF GramsOf
<1> QED
  BY <1>3, <1>5, <1>10, <1>11

LEMMA SharesOne ==
    ASSUME MatchAssumption, MatchTypeOK, NEW p \in There, ~feed[p].hashed,
           Len(feed[p].phrase) >= 3, ~(Cardinality(Starts) > MaxGrams)
    PROVE  Shared(p) # {}
<1> DEFINE s == feed[p].phrase
           z == Len(said) - 2
<1>1. p \in 1 .. Len(feed) /\ Occurs(feed[p])
  BY Zenon DEF There
<1>2. s \in Seq(Characters)
  BY <1>1, RuleFacts
<1>3. PICK i \in 1 .. Len(said) : At(s, i)
  BY <1>1, Zenon DEF Occurs
<1>4. i \in 1 .. z /\ GramAt(s, 1) = GramAt(said, i) /\ GramAt(s, 1) \in GramsOf(s)
  BY <1>2, <1>3, FirstGram
<1>5. z \in Int
  BY LengthFacts
<1> DEFINE J == {j \in 1 .. z : GramAt(said, j) = GramAt(said, i)}
<1> HIDE DEF z
<1>6. J # {} /\ J \subseteq Nat
  BY <1>4
<1>7. PICK j \in J : \A k \in J : j <= k
  BY <1>6, FirstOfSome
<1>8. j \in 1 .. z /\ GramAt(said, j) = GramAt(said, i)
  BY <1>7
<1>9. ASSUME NEW k \in 1 .. j - 1 PROVE GramAt(said, k) # GramAt(said, j)
  <2>1. k \in 1 .. z /\ ~(j <= k)
    BY <1>5, <1>8
  <2>2. k \notin J
    BY <1>7, <2>1
  <2> QED
    BY <1>8, <2>1, <2>2
<1>10. j \in Starts
  BY <1>8, <1>9, Zenon DEF Starts, z
<1>11. j \in Grams
  <2>1. IsFiniteSet(1 .. z)
    BY <1>5, FS_Interval
  <2>2. Starts \in SUBSET (1 .. z)
    BY DEF Starts, z
  <2>3. IsFiniteSet(Starts)
    BY <2>1, <2>2, FS_Subset
  <2> DEFINE earlier == {k \in Starts : k < j}
  <2>4. earlier \subseteq Starts /\ j \notin earlier
    BY <1>8
  <2>5. IsFiniteSet(earlier)
    BY <2>3, <2>4, FS_Subset
  <2>6. Cardinality(earlier \cup {j}) = Cardinality(earlier) + 1
    BY <2>4, <2>5, FS_AddElement
  <2>7. Cardinality(earlier \cup {j}) <= Cardinality(Starts)
    BY <1>10, <2>3, <2>4, FS_Subset
  <2>8. Cardinality(Starts) \in Nat /\ Cardinality(earlier) \in Nat
    BY <2>3, <2>5, FS_CardinalityType
  <2>9. MaxGrams \in Nat
    BY LengthFacts
  <2>10. Cardinality(earlier) < MaxGrams
    BY <2>6, <2>7, <2>8, <2>9
  <2> QED
    BY <1>10, <2>10, Zenon DEF Grams, earlier
<1>12. GramAt(said, j) \in GramsOf(s)
  BY <1>4, <1>8, Zenon
<1> QED
  BY <1>11, <1>12, Zenon DEF Shared, s

-----------------------------------------------------------------------------
(* The answer.                                                             *)
LEMMA RankedWhere ==
    ASSUME MatchAssumption, MatchTypeOK, NEW p \in 1 .. Len(feed), Candidate(p)
    PROVE  /\ RankOf(p) \in Nat /\ RankOf(p) >= 1
           /\ RankOf(p) <= MaxChecked => p \in Ranked(RankOf(p)) /\ RankOf(p) \in 1 .. MaxChecked
           /\ Small => RankOf(p) = p /\ RankOf(p) <= MaxChecked
           /\ ~Small => RankOf(p) = 1 + Cardinality(Above(p))
<1>1. ~Small => RankOf(p) = 1 + Cardinality(Above(p))
  BY Zenon DEF RankOf, Above
<1>2. Small => RankOf(p) = p
  BY Zenon DEF RankOf
<1>3. Cardinality(Above(p)) \in Nat
  BY AboveFacts
<1>4. Len(feed) \in Nat /\ MaxChecked \in Nat
  BY LengthFacts
<1>5. Small => p <= MaxChecked
  <2>1. Small => Len(feed) <= MaxChecked
    BY Zenon DEF Small
  <2> QED
    BY <1>4, <2>1
<1>6. RankOf(p) \in Nat /\ RankOf(p) >= 1
  BY <1>1, <1>2, <1>3
<1>7. p \in Ranked(RankOf(p))
  BY Zenon DEF Ranked
<1> QED
  BY <1>1, <1>2, <1>4, <1>5, <1>6, <1>7

(* Those above a rule are among those that share as many trigrams.         *)
Rivals(p) == {q \in 1 .. Len(feed) \ {p} :
                 Shared(q) # {} /\ Cardinality(Shared(q)) >= Cardinality(Shared(p))}

LEMMA AboveAreRivals ==
    ASSUME MatchAssumption, MatchTypeOK, ~Small, NEW p \in 1 .. Len(feed), Candidate(p)
    PROVE  Cardinality(Above(p)) <= Cardinality(Rivals(p)) /\ Cardinality(Rivals(p)) \in Nat
<1>1. Rivals(p) \in SUBSET (1 .. Len(feed))
  BY DEF Rivals
<1>2. Len(feed) \in Int /\ 1 \in Int
  BY LengthFacts
<1>3. IsFiniteSet(1 .. Len(feed))
  BY <1>2, FS_Interval
<1>4. IsFiniteSet(Rivals(p))
  BY <1>1, <1>3, FS_Subset
<1>5. ASSUME NEW q \in Above(p) PROVE q \in Rivals(p)
  <2>1. q \in 1 .. Len(feed) /\ Shared(q) # {} /\ Shared(p) # {} /\ Ranks(q, p)
    BY <1>5, Zenon DEF Above, Candidate
  <2>2. q # p
    BY <2>1, RanksFacts
  <2>3. Cardinality(Shared(q)) \in Nat /\ Cardinality(Shared(p)) \in Nat
    BY SharedFacts
  <2>4. Cardinality(Shared(q)) > Cardinality(Shared(p)) \/ Cardinality(Shared(q)) = Cardinality(Shared(p))
    BY <2>1, Zenon DEF Ranks, More
  <2>5. Cardinality(Shared(q)) >= Cardinality(Shared(p))
    BY <2>3, <2>4
  <2> QED
    BY <2>1, <2>2, <2>5, Zenon DEF Rivals
<1>6. Above(p) \in SUBSET Rivals(p)
  BY <1>5
<1> QED
  BY <1>4, <1>6, FS_Subset, FS_CardinalityType

(* Which rules may be worse than what the match reports.                   *)
PassedOver(m, p) ==
    IF feed[p].hashed THEN Seen(m, p) \/ Cardinality(HashedThere) > MaxChecked
    ELSE IF Small THEN Cardinality(HashedThere) + p > MaxChecked
    ELSE \/ Len(feed[p].phrase) < 3 \/ Cardinality(Starts) > MaxGrams
         \/ Cardinality(HashedThere) + Cardinality(Rivals(p)) >= MaxChecked

LEMMA PlainCovers ==
    ASSUME MatchAssumption, MatchTypeOK, NEW p \in There
    PROVE  \/ Full(PlainAfter(Hashed)) \/ feed[p].score <= Best(PlainAfter(Hashed))
           \/ PassedOver(PlainAfter(Hashed), p)
<1> DEFINE h == Hashed
           m == PlainAfter(h)
           c == Cardinality(HashedThere)
<1>1. h \in HonestHashed /\ h \in Honest /\ \A q \in HashedThere : Covered(h, q)
  BY HashedFacts DEF HonestHashed
<1>2. m \in Honest /\ Grows(h, m)
  BY <1>1, PlainAfterFacts
<1>3. p \in 1 .. Len(feed) /\ feed[p].score \in 0 .. 100 /\ feed[p].hashed \in BOOLEAN
  <2>1. p \in 1 .. Len(feed)
    BY Zenon DEF There
  <2> QED
    BY <2>1, RuleFacts
<1>4. /\ c \in Nat /\ HitCount(h) <= c
      /\ \A q \in HashedThere : ~Seen(h, q) => HitCount(h) < c
  BY <1>1, HitsCounted
<1>5. Spend(h) = HitCount(h) /\ HitCount(h) \in Nat /\ MaxChecked \in Nat
  <2>1. Spend(h) = HitCount(h)
    BY <1>1, Zenon DEF HonestHashed
  <2> QED
    BY <1>1, <2>1, HonestFacts, LengthFacts
<1>6. Best(m) \in 0 .. 100
  BY <1>2, HonestFacts
<1> HIDE DEF h, m, c
<1>7. CASE feed[p].hashed
  <2>1. p \in HashedThere
    BY <1>7, Zenon DEF HashedThere
  <2>2. CASE Seen(h, p)
    <3>1. Seen(m, p)
      BY <1>1, <1>2, <2>2, GrowsKeeps
    <3> QED
      BY <1>7, <3>1, Zenon DEF PassedOver, m, h
  <2>3. CASE Full(h)
    <3>1. Full(m)
      BY <1>1, <1>2, <2>3, GrowsKeeps
    <3> QED
      BY <3>1, Zenon DEF m, h
  <2>4. CASE ~Seen(h, p) /\ Spent(h)
    <3>1. Spend(h) >= MaxChecked
      BY <2>4, FullFacts
    <3>2. HitCount(h) < c
      BY <1>4, <2>1, <2>4
    <3>3. c > MaxChecked
      BY <1>4, <1>5, <3>1, <3>2
    <3> QED
      BY <1>7, <3>3, Zenon DEF PassedOver, c
  <2> QED
    BY <1>1, <2>1, <2>2, <2>3, <2>4, Zenon DEF Covered
<1>8. CASE ~feed[p].hashed /\ Candidate(p)
  <2> DEFINE k == RankOf(p)
  <2>1. /\ k \in Nat /\ k >= 1
        /\ k <= MaxChecked => p \in Ranked(k) /\ k \in 1 .. MaxChecked
        /\ Small => k = p /\ k <= MaxChecked
        /\ ~Small => k = 1 + Cardinality(Above(p))
    BY <1>3, <1>8, RankedWhere
  <2> HIDE DEF k
  <2>2. k <= MaxChecked => Full(m) \/ Best(m) >= feed[p].score \/ Spend(h) + k - 1 >= MaxChecked
    BY <1>1, <1>8, <2>1, PlainAfterFacts, Zenon DEF m
  <2>3. Best(m) >= feed[p].score => feed[p].score <= Best(m)
    <3>1. \A x, y \in 0 .. 100 : x >= y => y <= x
      OBVIOUS
    <3> QED
      BY <1>3, <1>6, <3>1, Zenon
  <2>4. ASSUME Small, Spend(h) + k - 1 >= MaxChecked PROVE c + p > MaxChecked
    <3>1. p \in Nat /\ k = p
      BY <1>3, <2>1, <2>4
    <3> QED
      BY <1>4, <1>5, <2>4, <3>1
  <2>5. ASSUME ~Small, ~(k <= MaxChecked) \/ Spend(h) + k - 1 >= MaxChecked
        PROVE  c + Cardinality(Rivals(p)) >= MaxChecked
    <3>1. Cardinality(Above(p)) <= Cardinality(Rivals(p)) /\ Cardinality(Rivals(p)) \in Nat
      BY <1>3, <1>8, <2>5, AboveAreRivals
    <3>2. Cardinality(Above(p)) \in Nat /\ k = 1 + Cardinality(Above(p))
      BY <2>1, <2>5, AboveFacts
    <3> QED
      BY <1>4, <1>5, <2>1, <2>5, <3>1, <3>2
  <2>6. CASE Small
    BY <1>8, <2>1, <2>2, <2>3, <2>4, <2>6, Zenon DEF PassedOver, m, h, c
  <2>7. CASE ~Small
    BY <1>8, <2>1, <2>2, <2>3, <2>5, <2>7, Zenon DEF PassedOver, m, h, c
  <2> QED
    BY <2>6, <2>7
<1>9. CASE ~feed[p].hashed /\ ~Candidate(p)
  <2>1. ~Small /\ Shared(p) = {}
    BY <1>9, Zenon DEF Candidate
  <2>2. ~(Len(feed[p].phrase) >= 3) \/ Cardinality(Starts) > MaxGrams
    BY <1>9, <2>1, SharesOne
  <2>3. Len(feed[p].phrase) \in Nat
    <3>1. feed[p].phrase \in Seq(Characters)
      BY <1>3, RuleFacts
    <3> QED
      BY <3>1, LenProperties
  <2>4. Len(feed[p].phrase) < 3 \/ Cardinality(Starts) > MaxGrams
    BY <2>2, <2>3
  <2> QED
    BY <1>9, <2>1, <2>4, Zenon DEF PassedOver
<1> QED
  BY <1>7, <1>8, <1>9

(* What Match says is honest, and complete up to the rules passed over.    *)
LEMMA MatchFacts ==
    ASSUME MatchAssumption, MatchTypeOK
    PROVE  /\ \A i \in 1 .. Len(Match.hits) : Match.hits[i] \in There
           /\ Match.best # 0 => \E p \in There : feed[p].score = Match.best
           /\ Full(Match) \/ \A p \in There : feed[p].score <= Match.best \/ PassedOver(Match, p)
<1>1. Hashed \in Honest
  BY HashedFacts DEF HonestHashed
<1>2. CASE Full(Hashed)
  <2> DEFINE h == Hashed
             n == MaxHits
             m == [h EXCEPT !.hits = SubSeq(h.hits, 1, n)]
  <2>1. Match = m
    BY <1>2, Zenon DEF Match
  <2>2. /\ h \in [checked : Nat, hits : Seq(There), best : 0 .. 100, stop : BOOLEAN]
        /\ h.hits \in Seq(There) /\ HitCount(h) \in Nat /\ \A i \in 1 .. HitCount(h) : h.hits[i] \in There
        /\ Best(h) # 0 => \E p \in There : feed[p].score = Best(h)
    BY <1>1, HonestFacts, HonestRecord
  <2>3. HitCount(h) >= n /\ Best(h) >= 99 /\ n \in Nat /\ n > 0
    BY <1>2, FullFacts, LengthFacts
  <2>4. m.hits = SubSeq(h.hits, 1, n) /\ m.best = h.best
    BY <2>2
  <2> HIDE DEF m, h, n
  <2>5. PICK z \in Nat : HitCount(h) = z
    BY <2>2
  <2>6. \A i \in 1 .. n : h.hits[i] \in There
    BY <2>2, <2>3, <2>5
  <2>7. /\ SubSeq(h.hits, 1, n) \in Seq(There)
        /\ Len(SubSeq(h.hits, 1, n)) = IF 1 <= n THEN n - 1 + 1 ELSE 0
        /\ \A i \in 1 .. n - 1 + 1 : SubSeq(h.hits, 1, n)[i] = h.hits[1 + i - 1]
    BY <2>3, <2>6, SubSeqProperties
  <2>8. Len(m.hits) = n
    <3>1. (IF 1 <= n THEN n - 1 + 1 ELSE 0) = n
      BY <2>3
    <3> QED
      BY <2>4, <2>7, <3>1, Zenon
  <2>9. \A i \in 1 .. Len(m.hits) : m.hits[i] \in There
    <3>1. \A i \in 1 .. n : i \in 1 .. n - 1 + 1 /\ 1 + i - 1 = i
      BY <2>3
    <3>2. \A i \in 1 .. n : m.hits[i] \in There
      BY <2>4, <2>6, <2>7, <3>1
    <3> QED
      BY <2>8, <3>2, Zenon
  <2>10. m.best # 0 => \E p \in There : feed[p].score = m.best
    BY <2>2, <2>4, Zenon DEF Best
  <2>11. Full(m)
    <3>1. HitCount(m) >= MaxHits
      <4>1. n >= n
        BY <2>3
      <4> QED
        BY <2>8, <4>1, Zenon DEF HitCount, n
    <3>2. Best(m) >= 99
      BY <2>3, <2>4, Zenon DEF Best
    <3> QED
      BY <3>1, <3>2, FullFacts
  <2> QED
    BY <2>1, <2>9, <2>10, <2>11, Zenon
<1>3. CASE ~Full(Hashed)
  <2> DEFINE m == PlainAfter(Hashed)
  <2>1. Match = m
    BY <1>3, Zenon DEF Match
  <2>2. m \in Honest
    BY <1>1, PlainAfterFacts
  <2>3. \A p \in There : Full(m) \/ feed[p].score <= Best(m) \/ PassedOver(m, p)
    BY PlainCovers
  <2> HIDE DEF m
  <2>4. /\ \A i \in 1 .. HitCount(m) : m.hits[i] \in There
        /\ Best(m) # 0 => \E p \in There : feed[p].score = Best(m)
    BY <2>2, HonestFacts
  <2> QED
    BY <2>1, <2>3, <2>4, Zenon DEF Best, HitCount
<1> QED
  BY <1>2, <1>3, Zenon

LEMMA MatchSuffices == ASSUME MatchAssumption, MatchTypeOK PROVE MatchesAreBest
BY MatchFacts, Zenon DEF MatchesAreBest, There, HashedThere, PassedOver, Rivals

LEMMA MatchTyped == MatchSpec => []MatchTypeOK
<1>1. MatchInit => MatchTypeOK
  <2>1. <<>> \in Seq(Rules) /\ <<>> \in Seq(Characters) /\ FALSE \in BOOLEAN
    OBVIOUS
  <2> QED
    BY <2>1, Zenon DEF MatchInit, MatchTypeOK
<1>2. MatchTypeOK /\ [MatchNext]_matchVars => MatchTypeOK'
  <2> SUFFICES ASSUME MatchTypeOK, [MatchNext]_matchVars PROVE MatchTypeOK'
    OBVIOUS
  <2>1. ASSUME NEW r \in Rules, AppendRule(r) PROVE MatchTypeOK'
    <3>1. feed' = Append(feed, r) /\ said' = said /\ late' = late
      BY <2>1, Zenon DEF AppendRule
    <3> QED
      BY <3>1, AppendProperties DEF MatchTypeOK
  <2>2. ASSUME NEW c \in Characters, Say(c) PROVE MatchTypeOK'
    <3>1. said' = Append(said, c) /\ feed' = feed /\ late' = late
      BY <2>2, Zenon DEF Say
    <3> QED
      BY <3>1, AppendProperties DEF MatchTypeOK
  <2>3. CASE Expire
    BY <2>3 DEF Expire, MatchTypeOK
  <2>4. CASE UNCHANGED matchVars
    BY <2>4 DEF matchVars, MatchTypeOK
  <2> QED
    BY <2>1, <2>2, <2>3, <2>4, Zenon DEF MatchNext
<1> QED
  BY <1>1, <1>2, PTL DEF MatchSpec

(* Whatever the feed and the text, what a match reports is there, and what *)
(* is there is not worse than reported, but for what its id, the early     *)
(* stop or the budget pass over: MatchesAreBest.                           *)
THEOREM MatchesHold == MatchSpec => []MatchesAreBest
<1>1. MatchTypeOK => MatchesAreBest
  BY MatchSuffices, MatchAssumption
<1> QED
  BY <1>1, MatchTyped, PTL
=============================================================================
