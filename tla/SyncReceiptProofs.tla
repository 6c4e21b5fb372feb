------------------------- MODULE SyncReceiptProofs -------------------------
(***************************************************************************)
(* Proofs about SyncReceipt, for any largest sequence, limit and batch.    *)
(*                                                                         *)
(* Least and greatest members, which the merge and the scan choose, exist  *)
(* because the order of the naturals is well-founded (WFMin): the one      *)
(* induction that the proofs need.                                         *)
(***************************************************************************)
EXTENDS SyncReceipt, FiniteSetTheorems, WellFoundedInduction, TLAPS

(* The sequences of an interval of the list.                               *)
Interval(r) == r[1] .. r[2]

(* The intervals are in order, and between two of them there is a gap.     *)
Sorted(list) ==
    /\ list \in Seq(Sequence \X Sequence)
    /\ \A i \in 1 .. Len(list) : list[i][1] <= list[i][2]
    /\ \A i, j \in 1 .. Len(list) : i < j => list[i][2] + 1 < list[j][1]

(* The list has a sequence.                                                *)
Has(list, s) == \E i \in 1 .. Len(list) : s \in Interval(list[i])

Exact(list, S) == \A s \in Sequence : Has(list, s) <=> s \in S

Types ==
    /\ known \in SUBSET Sequence
    /\ phase \in {"collect", "scan", "done"}
    /\ rows \in SUBSET Sequence
    /\ asked \in SUBSET rows
    /\ cursor \in 0 .. MaxSequence
    /\ page \in SUBSET (rows \ known)
    /\ Cardinality(page) <= Limit

(* The cursor has left behind what is in the page, and no row that is      *)
(* missing, but for those of the page.                                     *)
Behind ==
    /\ phase = "collect" => page = {}
    /\ \A s \in page : s <= cursor
    /\ phase # "collect" => \A s \in asked \ known : s <= cursor => s \in page

IInv == Sorted(ranges) /\ Exact(ranges, known) /\ Types /\ Behind /\ PageIsComplete

-----------------------------------------------------------------------------
(* Least and greatest members                                              *)

(* A set of naturals has a least member.                                   *)
LEMMA LeastMember ==
    ASSUME NEW S \in SUBSET Nat, S # {}
    PROVE  \E m \in S : \A s \in S : m <= s
<1>1. PICK m \in S : \A s \in S : ~(<<s, m>> \in OpToRel(<, Nat))
  BY NatLessThanWellFounded, WFMin
<1>2. \A s \in S : ~(s < m)
  BY <1>1 DEF OpToRel
<1> QED
  BY <1>2

(* A bounded one has a greatest member.                                    *)
LEMMA GreatestMember ==
    ASSUME NEW n \in Nat, NEW S \in SUBSET (0 .. n), S # {}
    PROVE  \E m \in S : \A s \in S : s <= m
<1> DEFINE D == {d \in 0 .. n : n - d \in S}
<1>1. \A s \in S : n - s \in D
  BY DEF D
<1>2. D # {} /\ D \in SUBSET Nat
  <2>1. PICK s : s \in S
    OBVIOUS
  <2>2. n - s \in D
    BY <1>1, <2>1
  <2>3. \A d \in D : d \in Nat
    BY DEF D
  <2> QED
    BY <2>2, <2>3
<1>3. PICK d \in D : \A c \in D : d <= c
  <2> HIDE DEF D
  <2> QED  BY <1>2, LeastMember
<1>4. n - d \in S /\ d \in 0 .. n
  BY <1>3 DEF D
<1>5. \A s \in S : s <= n - d
  BY <1>1, <1>3, <1>4
<1> QED
  BY <1>4, <1>5

(* Max and Min are what their names say.                                   *)
LEMMA MaxFacts ==
    ASSUME NEW n \in Nat, NEW S \in SUBSET (0 .. n), S # {}
    PROVE  Max(S) \in S /\ \A s \in S : s <= Max(S)
<1>1. \E m \in S : \A s \in S : m >= s
  BY GreatestMember
<1>2. Max(S) \in S /\ \A s \in S : Max(S) >= s
  BY <1>1 DEF Max
<1> QED
  BY <1>2

(* The least member, likewise.                                             *)
LEMMA MinFacts ==
    ASSUME NEW S \in SUBSET Nat, S # {}
    PROVE  Min(S) \in S /\ \A s \in S : Min(S) <= s
<1>1. \E m \in S : \A s \in S : m =< s
  BY LeastMember
<1> QED
  BY <1>1 DEF Min

(* What a monotone test counts in 1 .. n is where it ends to hold.         *)
LEMMA InitialSegment ==
    ASSUME NEW n \in Nat, NEW K \in SUBSET (1 .. n),
           \A i \in K, j \in 1 .. n : j <= i => j \in K
    PROVE  Cardinality(K) \in 0 .. n /\ K = 1 .. Cardinality(K)
<1>1. CASE K = 1 .. n
  <2>1. Cardinality(1 .. n) = n
    BY FS_Interval
  <2> QED
    BY <1>1, <2>1
<1>2. CASE K # 1 .. n
  <2> DEFINE R == (1 .. n) \ K
  <2>1. R # {} /\ R \in SUBSET Nat
    <3>1. \A r \in 1 .. n : r \in Nat
      OBVIOUS
    <3>2. R \subseteq Nat
      BY <3>1
    <3> QED
      BY <1>2, <3>2
  <2>2. PICK m \in R : \A r \in R : m <= r
    <3> HIDE DEF R
    <3> QED  BY <2>1, LeastMember
  <2>3. m \in 1 .. n /\ m \notin K
    OBVIOUS
  <2>4. K = 1 .. (m - 1)
    <3>1. ASSUME NEW i \in 1 .. n PROVE i \in K <=> i < m
      BY <2>2, <2>3, <3>1
    <3>2. \A i : i \in K => i \in 1 .. n
      OBVIOUS
    <3>3. \A i : i \in 1 .. (m - 1) <=> i \in 1 .. n /\ i < m
      BY <2>3
    <3> QED
      BY <3>1, <3>2, <3>3
  <2>5. Cardinality(1 .. (m - 1)) = m - 1
    BY <2>3, FS_Interval
  <2> QED
    BY <2>3, <2>4, <2>5
<1> QED
  BY <1>1, <1>2

-----------------------------------------------------------------------------
(* Sequences are numbers, and there are finitely many of them.             *)
LEMMA SequenceFacts ==
    /\ MaxSequence \in Nat \ {0}
    /\ \A s \in Sequence : s \in Nat /\ s # 0 /\ s <= MaxSequence /\ s \in 0 .. MaxSequence
    /\ \A S \in SUBSET Sequence : IsFiniteSet(S) /\ S \in SUBSET Nat /\ S \in SUBSET (0 .. MaxSequence)
<1>1. MaxSequence \in Nat \ {0}
  BY ReceiptAssumption
<1>2. \A s \in Sequence : s \in Nat /\ s # 0 /\ s <= MaxSequence /\ s \in 0 .. MaxSequence
  BY <1>1 DEF Sequence
<1>3. IsFiniteSet(Sequence)
  BY <1>1, FS_Interval DEF Sequence
<1> QED
  BY <1>1, <1>2, <1>3, FS_Subset

(* The first members of a set                                              *)

(* They are members, and with one of them come all the smaller ones.       *)
LEMMA FirstIsPrefix ==
    ASSUME NEW S \in SUBSET Sequence, NEW n \in Nat
    PROVE  /\ First(S, n) \in SUBSET S
           /\ \A s \in First(S, n), t \in S : t <= s => t \in First(S, n)
<1> SUFFICES ASSUME NEW s \in First(S, n), NEW t \in S, t <= s
             PROVE  t \in First(S, n)
  BY DEF First
<1>1. s \in S /\ Cardinality({q \in S : q < s}) < n
  BY DEF First
<1>2. IsFiniteSet({q \in S : q < s}) /\ IsFiniteSet({q \in S : q < t})
  <2>1. IsFiniteSet(S)
    BY SequenceFacts
  <2> QED
    BY <2>1, FS_Subset
<1>3. {q \in S : q < t} \subseteq {q \in S : q < s}
  BY <1>1, SequenceFacts
<1>4. Cardinality({q \in S : q < t}) <= Cardinality({q \in S : q < s})
  BY <1>2, <1>3, FS_Subset
<1> QED
  BY <1>1, <1>2, <1>4, FS_CardinalityType DEF First

(* There are at most n of them, and n if they are not all.                 *)
LEMMA FirstIsFull ==
    ASSUME NEW S \in SUBSET Sequence, NEW n \in Nat
    PROVE  /\ IsFiniteSet(First(S, n))
           /\ Cardinality(First(S, n)) <= n
           /\ First(S, n) # S => Cardinality(First(S, n)) = n
<1> DEFINE F == First(S, n)
<1>1. /\ IsFiniteSet(S) /\ F \in SUBSET S /\ IsFiniteSet(F) /\ Cardinality(F) \in Nat
  <2>1. IsFiniteSet(S)
    BY SequenceFacts
  <2>2. F \in SUBSET S
    BY FirstIsPrefix
  <2> QED
    BY <2>1, <2>2, FS_Subset, FS_CardinalityType
<1>2. Cardinality(F) <= n
  <2>1. CASE F = {}
    BY <2>1, FS_EmptySet
  <2>2. CASE F # {}
    <3>1. PICK m \in F : \A s \in F : s <= m
      <4>1. F \in SUBSET (0 .. MaxSequence) /\ MaxSequence \in Nat
        BY <1>1, SequenceFacts
      <4> HIDE DEF F
      <4> QED  BY <4>1, <2>2, GreatestMember
    <3> DEFINE B == {q \in S : q < m}
    <3>2. m \in S /\ Cardinality(B) < n
      BY DEF First
    <3>3. IsFiniteSet(B) /\ Cardinality(B) \in Nat
      BY <1>1, FS_Subset, FS_CardinalityType
    <3>4. F \subseteq B \cup {m}
      BY <1>1, <3>1, <3>2, SequenceFacts
    <3>5. m \notin B
      BY <3>2, SequenceFacts
    <3> HIDE DEF F, B
    <3>6. IsFiniteSet(B \cup {m}) /\ Cardinality(B \cup {m}) = Cardinality(B) + 1
      BY <3>3, <3>5, FS_AddElement
    <3>7. Cardinality(F) <= Cardinality(B \cup {m})
      BY <3>4, <3>6, FS_Subset
    <3> QED
      BY <1>1, <3>2, <3>3, <3>6, <3>7
  <2> QED
    BY <2>1, <2>2
<1>3. F # S => Cardinality(F) >= n
  <2> SUFFICES ASSUME F # S PROVE Cardinality(F) >= n
    OBVIOUS
  <2> DEFINE R == S \ F
  <2>1. PICK m \in R : \A r \in R : m <= r
    <3>1. R # {} /\ R \in SUBSET Nat
      BY <1>1, SequenceFacts
    <3> HIDE DEF R
    <3> QED  BY <3>1, LeastMember
  <2> DEFINE B == {q \in S : q < m}
  <2>2. m \in S /\ ~(Cardinality(B) < n)
    BY DEF First
  <2>3. B \subseteq F
    <3>1. \A q \in B : q \in S /\ ~(q \in R)
      BY <2>1, <2>2, SequenceFacts
    <3> QED  BY <3>1
  <2> HIDE DEF F, B
  <2>4. IsFiniteSet(B) /\ Cardinality(B) \in Nat /\ Cardinality(B) <= Cardinality(F)
    BY <1>1, <2>3, FS_Subset, FS_CardinalityType
  <2> QED
    BY <1>1, <2>2, <2>4
<1> QED
  BY <1>1, <1>2, <1>3

-----------------------------------------------------------------------------
(* The list of intervals                                                   *)

(* The ends of an interval are sequences.                                  *)
LEMMA EndsFacts ==
    ASSUME NEW list, Sorted(list)
    PROVE  /\ Len(list) \in Nat /\ DOMAIN list = 1 .. Len(list)
           /\ \A i \in 1 .. Len(list) :
                 /\ list[i] \in Sequence \X Sequence
                 /\ list[i][1] \in Sequence /\ list[i][1] \in Nat /\ list[i][1] # 0
                 /\ list[i][2] \in Sequence /\ list[i][2] \in Nat /\ list[i][2] <= MaxSequence
                 /\ list[i][1] <= list[i][2]
<1>1. list \in Seq(Sequence \X Sequence)
  BY DEF Sorted
<1>2. \A i \in 1 .. Len(list) : list[i] \in Sequence \X Sequence
  BY <1>1
<1>3. Len(list) \in Nat /\ DOMAIN list = 1 .. Len(list)
  BY <1>1
<1>4. \A i \in 1 .. Len(list) : list[i][1] \in Sequence /\ list[i][2] \in Sequence
  BY <1>2
<1>5. \A i \in 1 .. Len(list) : list[i][1] <= list[i][2]
  BY DEF Sorted
<1> QED
  BY <1>2, <1>3, <1>4, <1>5, SequenceFacts

(* The partition point by end: the intervals up to it end before a, with a *)
(* gap.                                                                    *)
LEMMA BeforeGapFacts ==
    ASSUME Sorted(ranges), NEW a \in Sequence
    PROVE  /\ BeforeGap(a) \in 0 .. Len(ranges)
           /\ \A i \in 1 .. Len(ranges) : i <= BeforeGap(a) <=> ranges[i][2] + 1 < a
<1> DEFINE n == Len(ranges)
           K == {i \in DOMAIN ranges : Successor(ranges[i][2]) < a}
<1>1. \A i \in 1 .. n : Successor(ranges[i][2]) < a <=> ranges[i][2] + 1 < a
  BY EndsFacts, SequenceFacts DEF Successor
<1>2. n \in Nat /\ K \in SUBSET (1 .. n)
  BY EndsFacts
<1>3. \A i \in K, j \in 1 .. n : j <= i => j \in K
  <2> SUFFICES ASSUME NEW i \in K, NEW j \in 1 .. n, j < i PROVE j \in K
    BY <1>2
  <2>1. i \in 1 .. n /\ ranges[i][2] + 1 < a
    BY <1>1, <1>2
  <2>2. ranges[j][2] + 1 < ranges[i][1] /\ ranges[i][1] <= ranges[i][2]
    BY <2>1 DEF Sorted
  <2>3. ranges[j][2] + 1 < a
    BY <2>1, <2>2, EndsFacts, SequenceFacts
  <2> QED
    BY <1>1, <2>3, EndsFacts
<1>4. BeforeGap(a) = Cardinality(K)
  BY DEF BeforeGap
<1>5. \A i \in 1 .. n : i \in K <=> ranges[i][2] + 1 < a
  BY <1>1, EndsFacts
<1> HIDE DEF K
<1>6. Cardinality(K) \in 0 .. n /\ K = 1 .. Cardinality(K)
  BY <1>2, <1>3, InitialSegment
<1>7. \A i \in 1 .. n : i \in K <=> i <= Cardinality(K)
  BY <1>2, <1>6
<1> QED
  BY <1>4, <1>5, <1>6, <1>7

(* The partition point by start.                                           *)
LEMMA StartingByFacts ==
    ASSUME Sorted(ranges), NEW s \in Nat
    PROVE  /\ StartingBy(s) \in 0 .. Len(ranges)
           /\ \A i \in 1 .. Len(ranges) : i <= StartingBy(s) <=> ranges[i][1] <= s
<1> DEFINE n == Len(ranges)
           K == {i \in DOMAIN ranges : ranges[i][1] <= s}
<1>1. \A i \in 1 .. n : i \in K <=> ranges[i][1] <= s
  BY EndsFacts
<1>2. n \in Nat /\ K \in SUBSET (1 .. n)
  BY EndsFacts
<1>3. \A i \in K, j \in 1 .. n : j <= i => j \in K
  <2> SUFFICES ASSUME NEW i \in K, NEW j \in 1 .. n, j < i PROVE j \in K
    BY <1>2
  <2>1. i \in 1 .. n /\ ranges[i][1] <= s
    BY <1>1, <1>2
  <2>2. ranges[j][2] + 1 < ranges[i][1] /\ ranges[j][1] <= ranges[j][2]
    BY <2>1 DEF Sorted
  <2>3. ranges[j][1] <= s
    BY <2>1, <2>2, EndsFacts
  <2> QED
    BY <1>1, <2>3
<1>4. StartingBy(s) = Cardinality(K)
  BY DEF StartingBy
<1> HIDE DEF K
<1>6. Cardinality(K) \in 0 .. n /\ K = 1 .. Cardinality(K)
  BY <1>2, <1>3, InitialSegment
<1>7. \A i \in 1 .. n : i \in K <=> i <= Cardinality(K)
  BY <1>2, <1>6
<1> QED
  BY <1>1, <1>4, <1>6, <1>7

(* The interval at the partition point of s is the only one that can have s. *)
LEMMA ContainsFacts ==
    ASSUME Sorted(ranges), NEW s \in Sequence
    PROVE  ContainsSequence(s) <=> Has(ranges, s)
<1> DEFINE k == StartingBy(s)
<1>1. s \in Nat
  BY SequenceFacts
<1>2. k \in 0 .. Len(ranges) /\ \A i \in 1 .. Len(ranges) : i <= k <=> ranges[i][1] <= s
  BY <1>1, StartingByFacts
<1>3. ContainsSequence(s) <=> k > 0 /\ s <= ranges[k][2]
  BY DEF ContainsSequence
<1> HIDE DEF k
<1>4. ASSUME k > 0, s <= ranges[k][2] PROVE Has(ranges, s)
  <2>1. k \in 1 .. Len(ranges)
    BY <1>2, <1>4, EndsFacts
  <2>2. ranges[k][1] <= s
    BY <1>2, <2>1
  <2>3. s \in Interval(ranges[k])
    BY <1>1, <1>4, <2>1, <2>2, EndsFacts DEF Interval
  <2> QED
    BY <2>1, <2>3 DEF Has
<1>5. ASSUME Has(ranges, s) PROVE k > 0 /\ s <= ranges[k][2]
  <2>1. PICK i \in 1 .. Len(ranges) : s \in Interval(ranges[i])
    BY <1>5 DEF Has
  <2>2. ranges[i][1] <= s /\ s <= ranges[i][2]
    BY <1>1, <2>1, EndsFacts DEF Interval
  <2>3. i <= k /\ k \in 1 .. Len(ranges)
    BY <1>2, <2>2, EndsFacts
  <2>4. i = k
    <3>1. ASSUME i < k PROVE FALSE
      <4>1. ranges[i][2] + 1 < ranges[k][1]
        BY <2>3, <3>1 DEF Sorted
      <4>2. ranges[k][1] <= s
        BY <1>2, <2>3
      <4> QED
        BY <1>1, <2>2, <2>3, <4>1, <4>2, EndsFacts
    <3> QED
      BY <2>3, <3>1, EndsFacts
  <2> QED
    BY <2>2, <2>3, <2>4
<1> QED
  BY <1>3, <1>4, <1>5

-----------------------------------------------------------------------------
(* The merge of observeRange                                               *)

(* The merged end is one of the ends, and none is larger.                  *)
LEMMA MergedEndFacts ==
    ASSUME Sorted(ranges), NEW b \in Sequence,
           NEW first \in 0 .. Len(ranges), NEW last \in 0 .. Len(ranges)
    PROVE  LET e == MergedEnd(b, first, last)
           IN  /\ e \in Sequence /\ e \in Nat /\ b <= e
               /\ e = b \/ \E i \in first + 1 .. last : e = ranges[i][2]
               /\ \A i \in first + 1 .. last : ranges[i][2] <= e
<1> DEFINE S == {b} \cup {ranges[i][2] : i \in first + 1 .. last}
<1>1. \A i \in first + 1 .. last : i \in 1 .. Len(ranges)
  BY EndsFacts
<1>2. S \in SUBSET Sequence
  BY <1>1, EndsFacts
<1>3. /\ b \in S /\ \A i \in first + 1 .. last : ranges[i][2] \in S
      /\ \A e \in S : e = b \/ \E i \in first + 1 .. last : e = ranges[i][2]
  OBVIOUS
<1>4. MergedEnd(b, first, last) = Max(S)
  BY DEF MergedEnd
<1> HIDE DEF S
<1>5. S \in SUBSET (0 .. MaxSequence) /\ MaxSequence \in Nat /\ S # {}
  BY <1>2, <1>3, SequenceFacts
<1>6. Max(S) \in S /\ \A e \in S : e <= Max(S)
  BY <1>5, MaxFacts
<1> QED
  BY <1>2, <1>3, <1>4, <1>6, SequenceFacts

(* The merged start is one of the starts, and none is smaller.             *)
LEMMA MergedStartFacts ==
    ASSUME Sorted(ranges), NEW a \in Sequence,
           NEW first \in 0 .. Len(ranges), NEW last \in 0 .. Len(ranges)
    PROVE  LET f == MergedStart(a, first, last)
           IN  /\ f \in Sequence /\ f \in Nat /\ f <= a
               /\ f = a \/ \E i \in first + 1 .. last : f = ranges[i][1]
               /\ \A i \in first + 1 .. last : f <= ranges[i][1]
<1> DEFINE S == {a} \cup {ranges[i][1] : i \in first + 1 .. last}
<1>1. \A i \in first + 1 .. last : i \in 1 .. Len(ranges)
  BY EndsFacts
<1>2. S \in SUBSET Sequence
  BY <1>1, EndsFacts
<1>3. /\ a \in S /\ \A i \in first + 1 .. last : ranges[i][1] \in S
      /\ \A f \in S : f = a \/ \E i \in first + 1 .. last : f = ranges[i][1]
  OBVIOUS
<1>4. MergedStart(a, first, last) = Min(S)
  BY DEF MergedStart
<1> HIDE DEF S
<1>5. S \in SUBSET Nat /\ S # {}
  BY <1>2, <1>3, SequenceFacts
<1>6. Min(S) \in S /\ \A f \in S : Min(S) <= f
  BY <1>5, MinFacts
<1> QED
  BY <1>2, <1>3, <1>4, <1>6, SequenceFacts

(* The loop stops: each interval it absorbs touches what was merged before *)
(* it, and the next one does not.                                          *)
LEMMA LastAbsorbedFacts ==
    ASSUME Sorted(ranges), NEW b \in Sequence, NEW first \in 0 .. Len(ranges)
    PROVE  LET last == LastAbsorbed(b, first)
           IN  /\ last \in first .. Len(ranges)
               /\ \A i \in first + 1 .. last : ranges[i][1] <= Successor(MergedEnd(b, first, i - 1))
               /\ last < Len(ranges) => ranges[last + 1][1] > Successor(MergedEnd(b, first, last))
<1> DEFINE n == Len(ranges)
           Stops(l) == l < n => ranges[l + 1][1] > Successor(MergedEnd(b, first, l))
           Goes(l) == ranges[l + 1][1] <= Successor(MergedEnd(b, first, l))
           T == {l \in first .. n : Stops(l)}
<1>1. n \in Nat /\ first \in Nat
  BY EndsFacts
<1>2. T # {} /\ T \in SUBSET Nat
  <2>1. n \in T
    BY <1>1
  <2>2. \A l \in T : l \in Nat
    BY <1>1
  <2> QED
    BY <2>1, <2>2
<1>3. PICK m \in T : \A l \in T : m <= l
  <2> HIDE DEF T
  <2> QED  BY <1>2, LeastMember
<1>4. m \in first .. n /\ Stops(m)
  OBVIOUS
<1>5. \A l \in first .. n : l < m => Goes(l)
  <2> SUFFICES ASSUME NEW l \in first .. n, l < m PROVE Goes(l)
    OBVIOUS
  <2>1. l < n
    BY <1>1, <1>4
  <2>2. l \notin T
    <3> HIDE DEF T
    <3> QED  BY <1>1, <1>3, <1>4
  <2>3. ~Stops(l)
    BY <2>2
  <2>4. l \in 0 .. n /\ l + 1 \in 1 .. n
    BY <1>1, <2>1
  <2>5. MergedEnd(b, first, l) \in Nat
    BY <2>4, MergedEndFacts
  <2>6. Successor(MergedEnd(b, first, l)) \in Nat
    BY <2>5, SequenceFacts DEF Successor
  <2>7. ranges[l + 1][1] \in Nat
    BY <2>4, EndsFacts
  <2> QED
    BY <2>3, <2>6, <2>7
<1>6. \A i \in first + 1 .. m : ranges[i][1] <= Successor(MergedEnd(b, first, i - 1))
  <2> TAKE i \in first + 1 .. m
  <2>1. i - 1 \in first .. n /\ i - 1 < m /\ (i - 1) + 1 = i
    BY <1>1, <1>4
  <2>2. Goes(i - 1)
    BY <1>5, <2>1
  <2> QED
    BY <2>1, <2>2
<1> QED
  BY <1>4, <1>6 DEF LastAbsorbed

(* splice: a new member in the place of some consecutive ones.             *)
Splice(list, first, last, x) == SubSeq(list, 1, first) \o <<x>> \o SubSeq(list, last + 1, Len(list))

LEMMA SpliceFacts ==
    ASSUME NEW T, NEW list \in Seq(T), NEW x \in T,
           NEW first \in 0 .. Len(list), NEW last \in first .. Len(list)
    PROVE  LET new == Splice(list, first, last, x)
           IN  /\ new \in Seq(T)
               /\ Len(new) = first + 1 + (Len(list) - last)
               /\ \A i \in 1 .. first : new[i] = list[i]
               /\ new[first + 1] = x
               /\ \A i \in first + 2 .. Len(new) : new[i] = list[i - first - 1 + last]
<1> DEFINE n == Len(list)
           p == SubSeq(list, 1, first)
           q == SubSeq(list, last + 1, n)
<1>1. n \in Nat /\ first \in Nat /\ last \in Nat /\ first <= n /\ last <= n
  OBVIOUS
<1>2. p \in Seq(T) /\ Len(p) = first /\ \A i \in 1 .. first : p[i] = list[i]
  <2>1. \A i \in 1 .. first : list[i] \in T
    BY <1>1
  <2> QED
    BY <1>1, <2>1
<1>3. q \in Seq(T) /\ Len(q) = n - last /\ \A i \in 1 .. n - last : q[i] = list[last + i]
  <2>1. \A i \in last + 1 .. n : list[i] \in T
    BY <1>1
  <2>2. q \in Seq(T)
    BY <1>1, <2>1
  <2>3. Len(q) = n - last
    BY <1>1
  <2>4. \A i \in 1 .. n - last : q[i] = list[last + i]
    BY <1>1
  <2> QED
    BY <2>2, <2>3, <2>4
<1> DEFINE r == p \o <<x>>
<1> HIDE DEF p, q
<1>4. /\ r \in Seq(T) /\ Len(r) = first + 1
      /\ \A i \in 1 .. first : r[i] = list[i]
      /\ r[first + 1] = x
  <2>1. <<x>> \in Seq(T) /\ Len(<<x>>) = 1 /\ <<x>>[1] = x
    OBVIOUS
  <2> QED
    BY <1>1, <1>2, <2>1
<1> DEFINE new == r \o q
<1> HIDE DEF r
<1>5. new \in Seq(T) /\ Len(new) = first + 1 + (n - last)
  <2>1. r \in Seq(T) /\ q \in Seq(T)
    BY <1>3, <1>4
  <2>2. new \in Seq(T) /\ Len(new) = Len(r) + Len(q)
    BY <2>1
  <2> HIDE DEF new
  <2> QED
    BY <1>3, <1>4, <2>2
<1>6. \A i \in 1 .. first + 1 : new[i] = r[i]
  BY <1>1, <1>3, <1>4
<1>7. \A i \in first + 2 .. first + 1 + (n - last) : new[i] = list[i - first - 1 + last]
  <2> TAKE i \in first + 2 .. first + 1 + (n - last)
  <2>1. new[i] = q[i - (first + 1)]
    BY <1>1, <1>3, <1>4
  <2>2. i - (first + 1) \in 1 .. n - last /\ last + (i - (first + 1)) = i - first - 1 + last
    BY <1>1
  <2> HIDE DEF new
  <2> QED
    BY <1>3, <2>1, <2>2
<1>8. new = Splice(list, first, last, x)
  BY DEF r, p, q, Splice
<1> HIDE DEF new
<1>9. /\ \A i \in 1 .. first : new[i] = list[i]
      /\ new[first + 1] = x
  BY <1>1, <1>4, <1>6
<1> QED
  BY <1>5, <1>7, <1>8, <1>9

(* The merged interval has what was observed and what it absorbed, and no  *)
(* other sequence; it keeps its distance from the intervals around it.     *)
LEMMA MergedFacts ==
    ASSUME Sorted(ranges), NEW a \in Sequence, NEW b \in Sequence, a <= b
    PROVE  LET first == BeforeGap(a)
               last == LastAbsorbed(b, first)
               f == MergedStart(a, first, last)
               e == MergedEnd(b, first, last)
           IN  /\ first \in 0 .. Len(ranges) /\ last \in first .. Len(ranges)
               /\ f \in Sequence /\ e \in Sequence /\ f <= e
               /\ \A i \in 1 .. first : ranges[i][2] + 1 < f
               /\ \A i \in last + 1 .. Len(ranges) : e + 1 < ranges[i][1]
               /\ \A s \in Sequence : s \in f .. e <=>
                     s \in a .. b \/ \E i \in first + 1 .. last : s \in Interval(ranges[i])
<1> DEFINE n == Len(ranges)
           first == BeforeGap(a)
           last == LastAbsorbed(b, first)
           f == MergedStart(a, first, last)
           e == MergedEnd(b, first, last)
<1>1. /\ first \in 0 .. n
      /\ \A i \in 1 .. n : i <= first <=> ranges[i][2] + 1 < a
  BY BeforeGapFacts
<1> HIDE DEF first
<1>2. /\ last \in first .. n
      /\ \A i \in first + 1 .. last : ranges[i][1] <= Successor(MergedEnd(b, first, i - 1))
      /\ last < n => ranges[last + 1][1] > Successor(e)
  BY <1>1, LastAbsorbedFacts
<1> HIDE DEF last
<1>3. /\ n \in Nat /\ first \in Nat /\ last \in Nat /\ last \in 0 .. n
      /\ \A i \in first + 1 .. last : i \in 1 .. n
      /\ a \in Nat /\ b \in Nat
  BY <1>1, <1>2, EndsFacts, SequenceFacts
<1>4. /\ f \in Sequence /\ f \in Nat /\ f <= a
      /\ f = a \/ \E i \in first + 1 .. last : f = ranges[i][1]
      /\ \A i \in first + 1 .. last : f <= ranges[i][1]
  BY <1>1, <1>3, MergedStartFacts
<1>5. /\ e \in Sequence /\ e \in Nat /\ b <= e
      /\ e = b \/ \E i \in first + 1 .. last : e = ranges[i][2]
      /\ \A i \in first + 1 .. last : ranges[i][2] <= e
  BY <1>1, <1>3, MergedEndFacts
<1> HIDE DEF f, e
<1>6. f <= e
  BY <1>3, <1>4, <1>5
<1>7. \A i \in 1 .. first : ranges[i][2] + 1 < f
  <2> TAKE i \in 1 .. first
  <2>1. i \in 1 .. n /\ ranges[i][2] + 1 < a
    BY <1>1, <1>3
  <2>2. CASE f = a
    BY <2>1, <2>2
  <2>3. ASSUME NEW k \in first + 1 .. last, f = ranges[k][1] PROVE ranges[i][2] + 1 < f
    BY <1>3, <2>1, <2>3 DEF Sorted
  <2> QED
    BY <1>4, <2>2, <2>3
<1>8. \A i \in last + 1 .. n : e + 1 < ranges[i][1]
  <2> TAKE i \in last + 1 .. n
  <2>1. last + 1 \in 1 .. n /\ i \in 1 .. n /\ last < n
    BY <1>3
  <2>2. ranges[last + 1][1] > e + 1
    <3>1. ranges[last + 1][1] > Successor(e) /\ ranges[last + 1][1] \in Nat /\ ranges[last + 1][1] <= MaxSequence
      BY <1>2, <2>1, EndsFacts, SequenceFacts
    <3> QED
      BY <1>5, <3>1, SequenceFacts DEF Successor
  <2>3. ranges[last + 1][1] <= ranges[i][1]
    <3>1. CASE i = last + 1
      BY <2>1, <3>1, EndsFacts
    <3>2. CASE i # last + 1
      <4>1. ranges[last + 1][2] + 1 < ranges[i][1] /\ ranges[last + 1][1] <= ranges[last + 1][2]
        BY <1>3, <2>1, <3>2 DEF Sorted
      <4> QED
        BY <2>1, <4>1, EndsFacts
    <3> QED
      BY <3>1, <3>2
  <2> QED
    BY <1>5, <2>1, <2>2, <2>3, EndsFacts
<1>9. ASSUME NEW s \in Sequence, s \in a .. b \/ \E i \in first + 1 .. last : s \in Interval(ranges[i])
      PROVE  s \in f .. e
  <2>1. s \in Nat
    BY SequenceFacts
  <2>2. CASE s \in a .. b
    BY <1>3, <1>4, <1>5, <2>1, <2>2
  <2>3. ASSUME NEW i \in first + 1 .. last, s \in Interval(ranges[i]) PROVE s \in f .. e
    BY <1>3, <1>4, <1>5, <2>1, <2>3, EndsFacts DEF Interval
  <2> QED
    BY <1>9, <2>2, <2>3
<1>10. ASSUME NEW s \in Sequence, s \in f .. e, s < a
       PROVE  \E i \in first + 1 .. last : s \in Interval(ranges[i])
  <2>1. s \in Nat /\ f <= s
    BY <1>4, <1>5, <1>10, SequenceFacts
  <2>2. PICK k \in first + 1 .. last : f = ranges[k][1]
    BY <1>3, <1>4, <1>10, <2>1
  <2>3. k \in 1 .. n /\ ~(ranges[k][2] + 1 < a)
    BY <1>1, <1>3
  <2>4. ranges[k][1] <= s /\ s <= ranges[k][2]
    BY <1>3, <1>10, <2>1, <2>2, <2>3, EndsFacts
  <2> QED
    BY <2>1, <2>3, <2>4, EndsFacts DEF Interval
<1>11. ASSUME NEW s \in Sequence, s \in f .. e, b < s
       PROVE  \E i \in first + 1 .. last : s \in Interval(ranges[i])
  <2> DEFINE R == {i \in first + 1 .. last : s <= ranges[i][2]}
  <2>1. s \in Nat /\ s <= e
    BY <1>4, <1>5, <1>11, SequenceFacts
  <2>2. R # {} /\ R \in SUBSET Nat
    <3>1. PICK i \in first + 1 .. last : e = ranges[i][2]
      BY <1>3, <1>5, <1>11, <2>1
    <3>2. i \in R
      BY <2>1, <3>1
    <3>3. \A j \in R : j \in Nat
      BY <1>3
    <3> QED
      BY <3>2, <3>3
  <2>3. PICK k \in R : \A i \in R : k <= i
    <3> HIDE DEF R
    <3> QED  BY <2>2, LeastMember
  <2>4. k \in first + 1 .. last /\ k \in 1 .. n /\ s <= ranges[k][2]
    BY <1>3
  <2>5. \A i \in first + 1 .. k - 1 : ranges[i][2] < s
    <3> TAKE i \in first + 1 .. k - 1
    <3>1. i \in first + 1 .. last /\ ~(k <= i)
      BY <1>3, <2>4
    <3>2. i \notin R
      <4> HIDE DEF R
      <4> QED  BY <2>3, <3>1
    <3> QED
      BY <1>3, <2>1, <3>1, <3>2, EndsFacts
  <2> DEFINE g == MergedEnd(b, first, k - 1)
  <2>6. /\ g \in Nat /\ g \in Sequence
        /\ g = b \/ \E i \in first + 1 .. k - 1 : g = ranges[i][2]
    <3>1. k - 1 \in 0 .. n
      BY <1>3, <2>4
    <3> QED
      BY <1>1, <3>1, MergedEndFacts
  <2>7. ranges[k][1] <= Successor(g)
    BY <1>2, <2>4
  <2> HIDE DEF g
  <2>8. g < s
    BY <1>11, <2>5, <2>6
  <2>9. Successor(g) <= s
    BY <2>1, <2>6, <2>8, SequenceFacts DEF Successor
  <2>10. ranges[k][1] <= s
    BY <2>1, <2>4, <2>6, <2>7, <2>9, EndsFacts, SequenceFacts DEF Successor
  <2> QED
    BY <2>1, <2>4, <2>10, EndsFacts DEF Interval
<1>12. \A s \in Sequence : s \in f .. e <=>
          s \in a .. b \/ \E i \in first + 1 .. last : s \in Interval(ranges[i])
  <2> TAKE s \in Sequence
  <2>1. s \in Nat
    BY SequenceFacts
  <2>2. s < a \/ b < s \/ s \in a .. b
    BY <1>3, <2>1
  <2> QED
    BY <1>9, <1>10, <1>11, <2>2
<1> QED
  BY <1>1, <1>2, <1>4, <1>5, <1>6, <1>7, <1>8, <1>12 DEF first, last, f, e

(* observeRange: the list stays in order, and has what was observed too.   *)
LEMMA WithRangeFacts ==
    ASSUME Sorted(ranges), NEW a \in Sequence, NEW b \in Sequence, a <= b
    PROVE  /\ Sorted(WithRange(a, b))
           /\ \A s \in Sequence : Has(WithRange(a, b), s) <=> Has(ranges, s) \/ s \in a .. b
<1> DEFINE n == Len(ranges)
           first == BeforeGap(a)
           last == LastAbsorbed(b, first)
           f == MergedStart(a, first, last)
           e == MergedEnd(b, first, last)
           x == <<f, e>>
           new == Splice(ranges, first, last, x)
           m == first + 1 + (n - last)
<1>1. /\ first \in 0 .. n /\ last \in first .. n
      /\ f \in Sequence /\ e \in Sequence /\ f <= e
      /\ \A i \in 1 .. first : ranges[i][2] + 1 < f
      /\ \A i \in last + 1 .. n : e + 1 < ranges[i][1]
      /\ \A s \in Sequence : s \in f .. e <=>
            s \in a .. b \/ \E i \in first + 1 .. last : s \in Interval(ranges[i])
  BY MergedFacts
<1>2. WithRange(a, b) = new
  BY DEF WithRange, Splice
<1> HIDE DEF first, last, f, e
<1>3. x \in Sequence \X Sequence /\ x[1] = f /\ x[2] = e
  BY <1>1
<1> HIDE DEF x
<1>4. /\ new \in Seq(Sequence \X Sequence)
      /\ Len(new) = m
      /\ \A i \in 1 .. first : new[i] = ranges[i]
      /\ new[first + 1] = x
      /\ \A i \in first + 2 .. Len(new) : new[i] = ranges[i - first - 1 + last]
  <2>1. ranges \in Seq(Sequence \X Sequence)
    BY DEF Sorted
  <2>2. first \in 0 .. Len(ranges) /\ last \in first .. Len(ranges)
    BY <1>1
  <2> DEFINE P == Sequence \X Sequence
  <2>3. ranges \in Seq(P) /\ x \in P
    BY <1>3, <2>1
  <2> HIDE DEF P
  <2>4. /\ new \in Seq(P)
        /\ Len(new) = m
        /\ \A i \in 1 .. first : new[i] = ranges[i]
        /\ new[first + 1] = x
        /\ \A i \in first + 2 .. Len(new) : new[i] = ranges[i - first - 1 + last]
    BY <2>2, <2>3, SpliceFacts
  <2> HIDE DEF new, m
  <2> QED
    BY <2>4 DEF P
<1> HIDE DEF new
<1>5. /\ n \in Nat /\ first \in Nat /\ last \in Nat /\ first <= last /\ last <= n
      /\ f \in Nat /\ e \in Nat /\ m \in Nat
  BY <1>1, EndsFacts, SequenceFacts
<1> DEFINE Low(i) == i \in 1 .. first /\ i \in 1 .. n /\ new[i] = ranges[i]
           Here(i) == i = first + 1 /\ new[i][1] = f /\ new[i][2] = e
           Old(i) == i - first - 1 + last
           High(i) == i \in first + 2 .. m /\ Old(i) \in last + 1 .. n /\ Old(i) \in 1 .. n
                        /\ new[i] = ranges[Old(i)]
<1>6. \A i \in 1 .. m : Low(i) \/ Here(i) \/ High(i)
  <2> TAKE i \in 1 .. m
  <2>1. CASE i <= first
    BY <1>4, <1>5, <2>1, SMTT(30)
  <2>2. CASE i = first + 1
    BY <1>3, <1>4, <2>2
  <2>3. CASE i > first + 1
    <3>1. i \in first + 2 .. m /\ Old(i) \in last + 1 .. n /\ Old(i) \in 1 .. n
      BY <1>5, <2>3
    <3> QED
      BY <1>4, <3>1
  <2> QED
    BY <1>5, <2>1, <2>2, <2>3
<1>7. \A i \in 1 .. Len(new) : new[i][1] <= new[i][2]
  <2> TAKE i \in 1 .. Len(new)
  <2>1. Low(i) \/ Here(i) \/ High(i)
    BY <1>4, <1>6
  <2>2. CASE Low(i)
    BY <2>2, EndsFacts
  <2>3. CASE Here(i)
    BY <1>1, <2>3
  <2>4. CASE High(i)
    BY <2>4, EndsFacts
  <2> QED
    BY <2>1, <2>2, <2>3, <2>4
<1>8. \A i, j \in 1 .. Len(new) : i < j => new[i][2] + 1 < new[j][1]
  <2> SUFFICES ASSUME NEW i \in 1 .. m, NEW j \in 1 .. m, i < j PROVE new[i][2] + 1 < new[j][1]
    BY <1>4
  <2>1. CASE Low(i) /\ Low(j)
    BY <2>1 DEF Sorted
  <2>2. CASE Low(i) /\ Here(j)
    BY <1>1, <2>2
  <2>3. CASE Low(i) /\ High(j)
    <3>1. i < Old(j)
      BY <1>5, <2>3
    <3> QED
      BY <2>3, <3>1 DEF Sorted
  <2>4. CASE Here(i) /\ High(j)
    BY <1>1, <2>4
  <2>5. CASE High(i) /\ High(j)
    <3>1. Old(i) < Old(j)
      BY <1>5
    <3> HIDE DEF Old
    <3> QED
      BY <2>5, <3>1 DEF Sorted
  <2>6. ~(Here(i) /\ Here(j)) /\ ~(Here(i) /\ Low(j)) /\ ~(High(i) /\ Low(j)) /\ ~(High(i) /\ Here(j))
    BY <1>5
  <2>7. (Low(i) \/ Here(i) \/ High(i)) /\ (Low(j) \/ Here(j) \/ High(j))
    BY <1>6
  <2> HIDE DEF Low, Here, High
  <2> QED
    BY <2>1, <2>2, <2>3, <2>4, <2>5, <2>6, <2>7
<1>9. Sorted(new)
  BY <1>4, <1>7, <1>8 DEF Sorted
<1>10. ASSUME NEW s \in Sequence, Has(new, s) PROVE Has(ranges, s) \/ s \in a .. b
  <2>1. PICK i \in 1 .. m : s \in Interval(new[i])
    BY <1>4, <1>10 DEF Has
  <2>2. CASE Low(i)
    BY <2>1, <2>2 DEF Has
  <2>3. CASE Here(i)
    <3>1. s \in f .. e
      BY <2>1, <2>3 DEF Interval
    <3>2. s \in a .. b \/ \E k \in first + 1 .. last : s \in Interval(ranges[k])
      BY <1>1, <3>1
    <3>3. \A k \in first + 1 .. last : k \in 1 .. n
      BY <1>5
    <3> QED
      BY <3>2, <3>3 DEF Has
  <2>4. CASE High(i)
    BY <2>1, <2>4 DEF Has
  <2> HIDE DEF Low, Here, High
  <2> QED
    BY <1>6, <2>2, <2>3, <2>4
<1>11. first + 1 \in 1 .. m
  BY <1>5
<1>12. ASSUME NEW s \in Sequence, s \in f .. e PROVE Has(new, s)
  <2>1. s \in Interval(new[first + 1])
    BY <1>3, <1>4, <1>12 DEF Interval
  <2> QED
    BY <1>4, <1>11, <2>1 DEF Has
<1>13. ASSUME NEW s \in Sequence, Has(ranges, s) PROVE Has(new, s)
  <2>1. PICK k \in 1 .. n : s \in Interval(ranges[k])
    BY <1>13 DEF Has
  <2>2. CASE k <= first
    <3>1. k \in 1 .. m /\ new[k] = ranges[k]
      BY <1>4, <1>5, <2>2
    <3> QED
      BY <1>4, <2>1, <3>1 DEF Has
  <2>3. CASE k \in first + 1 .. last
    BY <1>1, <1>12, <2>1, <2>3
  <2>4. CASE k > last
    <3> DEFINE i == k - last + first + 1
    <3>1. i \in 1 .. m /\ i \in first + 2 .. m /\ i - first - 1 + last = k
      BY <1>5, <2>4
    <3>2. new[i] = ranges[k]
      BY <1>4, <3>1
    <3> QED
      BY <1>4, <2>1, <3>1, <3>2 DEF Has
  <2> QED
    BY <1>5, <2>2, <2>3, <2>4
<1> QED
  BY <1>1, <1>2, <1>9, <1>10, <1>12, <1>13

(* A list in order is one that validate accepts.                           *)
LEMMA SortedIsValid == Sorted(ranges) => Valid
<1> SUFFICES ASSUME Sorted(ranges), NEW i \in DOMAIN ranges
             PROVE  /\ ranges[i][1] > (IF i = 1 THEN 0 ELSE ranges[i - 1][2])
                    /\ ranges[i][1] <= ranges[i][2]
  BY DEF Valid
<1>1. i \in 1 .. Len(ranges) /\ Len(ranges) \in Nat
  BY EndsFacts
<1>2. CASE i = 1
  BY <1>1, <1>2, EndsFacts
<1>3. CASE i # 1
  <2>1. i - 1 \in 1 .. Len(ranges) /\ i - 1 < i
    BY <1>1, <1>3
  <2>2. ranges[i - 1][2] + 1 < ranges[i][1]
    BY <1>1, <2>1 DEF Sorted
  <2> QED
    BY <1>1, <1>3, <2>1, <2>2, EndsFacts
<1> QED
  BY <1>2, <1>3

-----------------------------------------------------------------------------
(* The cursor                                                              *)

(* The list has the prefix that sequenceFor names.                         *)
LEMMA PrefixFacts ==
    ASSUME Sorted(ranges)
    PROVE  /\ SequenceFor \in 0 .. MaxSequence
           /\ \A s \in Sequence : s <= SequenceFor => Has(ranges, s)
<1>1. CASE ranges # <<>> /\ ranges[1][1] = 1
  <2>1. 1 \in 1 .. Len(ranges)
    <3>1. ranges \in Seq(Sequence \X Sequence)
      BY DEF Sorted
    <3> QED
      BY <1>1, <3>1
  <2>2. SequenceFor = ranges[1][2] /\ ranges[1][2] \in 0 .. MaxSequence
    BY <1>1, <2>1, EndsFacts, SequenceFacts DEF SequenceFor
  <2>3. ASSUME NEW s \in Sequence, s <= ranges[1][2] PROVE s \in Interval(ranges[1])
    BY <1>1, <2>2, <2>3, SequenceFacts DEF Interval
  <2> QED
    BY <2>1, <2>2, <2>3 DEF Has
<1>2. CASE ~(ranges # <<>> /\ ranges[1][1] = 1)
  BY <1>2, SequenceFacts DEF SequenceFor
<1> QED
  BY <1>1, <1>2

(* The list has whatever nextMissingSequence passes over.                  *)
LEMMA NextMissingFacts ==
    ASSUME Sorted(ranges), NEW c \in 0 .. MaxSequence
    PROVE  LET next == NextMissingSequence(c)
           IN  /\ next \in Nat
               /\ next # None => c < next
               /\ \A s \in Sequence : c < s /\ (next = None \/ s < next) => Has(ranges, s)
<1> DEFINE n == CheckedSuccessor(c)
           k == StartingBy(n)
           next == NextMissingSequence(c)
<1>1. c \in Nat /\ c <= MaxSequence /\ n \in Nat
  BY SequenceFacts DEF CheckedSuccessor, None
<1>2. CASE n = None
  <2>1. next = None /\ c = MaxSequence
    BY <1>1, <1>2 DEF NextMissingSequence, CheckedSuccessor, None
  <2> QED
    BY <2>1, SequenceFacts DEF None
<1>3. CASE n # None
  <2>1. n = c + 1 /\ c < MaxSequence
    BY <1>1, <1>3, SequenceFacts DEF CheckedSuccessor
  <2>2. k \in 0 .. Len(ranges) /\ \A i \in 1 .. Len(ranges) : i <= k <=> ranges[i][1] <= n
    BY <1>1, StartingByFacts
  <2>3. next = IF n # None /\ k > 0 /\ n <= ranges[k][2] THEN CheckedSuccessor(ranges[k][2]) ELSE n
    BY DEF NextMissingSequence
  <2> HIDE DEF n, k, next
  <2>4. CASE k > 0 /\ n <= ranges[k][2]
    <3>1. k \in 1 .. Len(ranges) /\ ranges[k][1] <= n
      BY <2>2, <2>4, EndsFacts
    <3>2. next = CheckedSuccessor(ranges[k][2])
      BY <1>3, <2>3, <2>4
    <3>3. ASSUME NEW s \in Sequence, c < s, next = None \/ s < next PROVE s \in Interval(ranges[k])
      <4>1. s \in Nat /\ s <= MaxSequence
        BY SequenceFacts
      <4>2. s <= ranges[k][2]
        BY <3>1, <3>2, <3>3, <4>1, EndsFacts, SequenceFacts DEF CheckedSuccessor, None
      <4>3. ranges[k][1] <= s
        BY <1>1, <2>1, <3>1, <3>3, <4>1, EndsFacts
      <4> QED
        BY <3>1, <4>1, <4>2, <4>3, EndsFacts DEF Interval
    <3>4. next \in Nat /\ (next # None => c < next)
      BY <1>1, <2>1, <2>4, <3>1, <3>2, EndsFacts DEF CheckedSuccessor, None
    <3> QED
      BY <3>1, <3>3, <3>4 DEF Has, next
  <2>5. CASE ~(k > 0 /\ n <= ranges[k][2])
    <3>1. next = n
      BY <2>3, <2>5
    <3>2. \A s \in Sequence : ~(c < s /\ (next = None \/ s < next))
      BY <1>1, <1>3, <2>1, <3>1, SequenceFacts
    <3> QED
      BY <1>1, <2>1, <3>1, <3>2 DEF next
  <2> QED
    BY <2>4, <2>5
<1> QED
  BY <1>2, <1>3

-----------------------------------------------------------------------------
(* The steps                                                               *)

(* An empty receipt and no scan.                                           *)
LEMMA InitIInv == Init => IInv
<1> SUFFICES ASSUME Init PROVE IInv
  OBVIOUS
<1>1. ranges = <<>> /\ Len(ranges) = 0 /\ 1 .. Len(ranges) = {}
  BY DEF Init
<1>2. Sorted(ranges)
  BY <1>1 DEF Sorted
<1>3. Exact(ranges, known)
  BY <1>1 DEF Exact, Has, Init
<1>4. Cardinality({}) = 0
  BY FS_EmptySet
<1>5. Types /\ Behind /\ PageIsComplete
  BY <1>4, ReceiptAssumption DEF Types, Behind, PageIsComplete, Init
<1> QED
  BY <1>2, <1>3, <1>5 DEF IInv

(* An observation, while the receipt is collected.                         *)
LEMMA ObserveRangeKeeps ==
    ASSUME IInv, NEW a \in Sequence, NEW b \in Sequence, ObserveRange(a, b)
    PROVE  IInv'
<1>1. /\ phase = "collect" /\ a <= b /\ ranges' = WithRange(a, b) /\ known' = known \cup a .. b
      /\ UNCHANGED <<phase, rows, asked, cursor, page>>
  BY DEF ObserveRange
<1>2. /\ Sorted(WithRange(a, b))
      /\ \A s \in Sequence : Has(WithRange(a, b), s) <=> Has(ranges, s) \/ s \in a .. b
  BY <1>1, WithRangeFacts DEF IInv
<1>3. Sorted(ranges')
  BY <1>1, <1>2
<1>4. Exact(ranges', known')
  BY <1>1, <1>2 DEF Exact, IInv
<1>5. \A s \in a .. b : s \in Sequence
  BY <1>1, SequenceFacts DEF Sequence
<1>6. page = {}
  BY <1>1 DEF IInv, Behind
<1>7. Types'
  BY <1>1, <1>5, <1>6 DEF IInv, Types
<1>8. Behind' /\ PageIsComplete'
  BY <1>1, <1>6 DEF IInv, Behind, PageIsComplete
<1>9. Sorted(ranges)' /\ Exact(ranges, known)'
  BY <1>3, <1>4 DEF Sorted, Exact, Has, Interval
<1> QED
  BY <1>7, <1>8, <1>9 DEF IInv

(* The scan begins behind the known prefix.                                *)
LEMMA ExportKeeps ==
    ASSUME IInv, NEW stored \in SUBSET Sequence, ExportWithBudget(stored)
    PROVE  IInv'
<1>1. /\ phase = "collect" /\ phase' = "scan" /\ rows' = stored /\ asked' = stored /\ cursor' = SequenceFor
      /\ UNCHANGED <<ranges, known, page>>
  BY DEF ExportWithBudget
<1>2. page = {} /\ page' = {}
  BY <1>1 DEF IInv, Behind
<1>3. SequenceFor \in 0 .. MaxSequence /\ \A s \in Sequence : s <= SequenceFor => s \in known
  BY PrefixFacts DEF IInv, Exact
<1>4. Types'
  BY <1>1, <1>2, <1>3 DEF IInv, Types
<1>5. Behind' /\ PageIsComplete'
  BY <1>1, <1>2, <1>3 DEF Behind, PageIsComplete
<1>6. Sorted(ranges)' /\ Exact(ranges, known)'
  BY <1>1 DEF IInv, Sorted, Exact, Has, Interval
<1> QED
  BY <1>4, <1>5, <1>6 DEF IInv

(* A late row is none of the rows the scan is asked for.                   *)
LEMMA StoreLateKeeps ==
    ASSUME IInv, NEW s \in Sequence, StoreLate(s)
    PROVE  IInv'
<1>1. phase = "scan" /\ rows' = rows \cup {s} /\ UNCHANGED <<ranges, known, phase, asked, cursor, page>>
  BY DEF StoreLate
<1>2. Types' /\ Behind' /\ PageIsComplete'
  BY <1>1 DEF IInv, Types, Behind, PageIsComplete
<1>3. Sorted(ranges)' /\ Exact(ranges, known)'
  BY <1>1 DEF IInv, Sorted, Exact, Has, Interval
<1> QED
  BY <1>2, <1>3 DEF IInv

(* A query and its pass: what is missing up to the new cursor is in the    *)
(* page, which is never longer than it may be.                             *)
LEMMA ReadRowsKeeps ==
    ASSUME IInv, ReadRows
    PROVE  IInv'
<1> DEFINE next == NextMissingSequence(cursor)
           S == {s \in rows : next # None /\ s >= next}
           n == Min({Limit, Batch})
           batch == First(S, n)
           L == {s \in batch : ~ContainsSequence(s)}
           room == Limit - Cardinality(page)
           found == First(L, room)
<1>1. /\ phase = "scan" /\ Cardinality(page) < Limit /\ batch # {}
      /\ page' = page \cup found
      /\ cursor' = IF Cardinality(page \cup found) = Limit THEN Max(found) ELSE Max(batch)
      /\ UNCHANGED <<ranges, known, phase, rows, asked>>
  BY DEF ReadRows, Query, Found, CursorAfter
<1>2. /\ rows \in SUBSET Sequence /\ cursor \in 0 .. MaxSequence /\ cursor \in Nat
      /\ page \in SUBSET Sequence /\ IsFiniteSet(page) /\ Cardinality(page) \in Nat
      /\ Limit \in Nat /\ n \in Nat /\ room \in Nat
  <2>1. rows \in SUBSET Sequence /\ cursor \in 0 .. MaxSequence /\ page \in SUBSET Sequence
    BY DEF IInv, Types
  <2>2. IsFiniteSet(page) /\ Cardinality(page) \in Nat
    BY <2>1, SequenceFacts, FS_CardinalityType
  <2>3. Limit \in Nat /\ Batch \in Nat
    BY ReceiptAssumption
  <2>4. {Limit, Batch} \in SUBSET Nat /\ {Limit, Batch} # {}
    BY <2>3
  <2>5. n \in Nat
    BY <2>4, MinFacts
  <2> QED
    BY <1>1, <2>1, <2>2, <2>3, <2>5, SequenceFacts
<1>3. /\ next \in Nat /\ (next # None => cursor < next)
      /\ \A s \in Sequence : cursor < s /\ (next = None \/ s < next) => s \in known
  BY <1>2, NextMissingFacts DEF IInv, Exact
<1>4. \A s \in Sequence : ContainsSequence(s) <=> s \in known
  BY ContainsFacts DEF IInv, Exact
<1> HIDE DEF next
<1>5. S \in SUBSET Sequence /\ S \in SUBSET rows /\ \A s \in S : cursor < s
  <2>1. \A s \in S : s \in rows /\ next # None /\ s >= next
    OBVIOUS
  <2> QED
    BY <1>2, <1>3, <2>1, SequenceFacts
<1>6. \A s \in rows : cursor < s /\ s \notin known => s \in S
  <2> SUFFICES ASSUME NEW s \in rows, cursor < s, s \notin known PROVE s \in S
    OBVIOUS
  <2>1. s \in Sequence /\ s \in Nat
    BY <1>2, SequenceFacts
  <2>2. next # None /\ ~(s < next)
    BY <1>3, <2>1
  <2> QED
    BY <1>3, <2>1, <2>2
<1> HIDE DEF S, n
<1>7. /\ batch \in SUBSET S
      /\ \A s \in batch, t \in S : t <= s => t \in batch
  BY <1>2, <1>5, FirstIsPrefix
<1>8. batch \in SUBSET Sequence /\ \A s \in batch : cursor < s
  BY <1>5, <1>7
<1> HIDE DEF batch
<1>9. L \in SUBSET batch /\ L \in SUBSET Sequence /\ \A s \in batch : s \in L <=> s \notin known
  BY <1>4, <1>8
<1> HIDE DEF L, room
<1>10. /\ found \in SUBSET L
       /\ \A s \in found, t \in L : t <= s => t \in found
       /\ IsFiniteSet(found) /\ Cardinality(found) \in Nat /\ Cardinality(found) <= room
       /\ found # L => Cardinality(found) = room
  BY <1>2, <1>9, FirstIsPrefix, FirstIsFull, FS_CardinalityType
<1> HIDE DEF found
<1>11. /\ found \in SUBSET Sequence /\ found \in SUBSET batch /\ found \in SUBSET rows
       /\ \A s \in found : s \notin known /\ cursor < s
  BY <1>5, <1>7, <1>8, <1>9, <1>10
<1>12. Cardinality(page \cup found) = Cardinality(page) + Cardinality(found)
  <2>1. page \cap found = {}
    <3>1. \A s \in page : s <= cursor /\ s \in Nat
      BY <1>2, SequenceFacts DEF IInv, Behind
    <3>2. \A s \in found : ~(s <= cursor)
      BY <1>2, <1>11, SequenceFacts
    <3> QED
      BY <3>1, <3>2
  <2>2. Cardinality(page \cap found) = 0
    BY <2>1, FS_EmptySet
  <2>3. Cardinality(page \cup found) = Cardinality(page) + Cardinality(found) - Cardinality(page \cap found)
    BY <1>2, <1>10, FS_Union
  <2> QED
    BY <1>2, <1>10, <2>2, <2>3
<1>13. room = Limit - Cardinality(page)
  BY DEF room
<1>14. Cardinality(page \cup found) <= Limit
  BY <1>2, <1>10, <1>12, <1>13
<1>15. /\ Max(batch) \in batch /\ \A s \in batch : s <= Max(batch)
       /\ found # {} => Max(found) \in found /\ \A s \in found : s <= Max(found)
  <2>1. MaxSequence \in Nat /\ batch \in SUBSET (0 .. MaxSequence) /\ found \in SUBSET (0 .. MaxSequence)
    BY <1>8, <1>11, SequenceFacts
  <2> QED
    BY <1>1, <2>1, MaxFacts
<1>16. /\ cursor' \in batch /\ cursor' \in Sequence
       /\ \A s \in found : s <= cursor'
       /\ \A s \in L : s <= cursor' => s \in found
  <2>1. CASE Cardinality(page \cup found) = Limit
    <3>1. found # {}
      <4>1. found = {} => Cardinality(found) = 0
        BY FS_EmptySet
      <4> QED
        BY <1>1, <1>2, <1>12, <2>1, <4>1
    <3>2. cursor' = Max(found)
      BY <1>1, <2>1
    <3> QED
      BY <1>10, <1>11, <1>15, <3>1, <3>2
  <2>2. CASE Cardinality(page \cup found) # Limit
    <3>1. found = L
      BY <1>2, <1>10, <1>12, <1>13, <2>2
    <3>2. cursor' = Max(batch)
      BY <1>1, <2>2
    <3> QED
      BY <1>8, <1>11, <1>15, <3>1, <3>2
  <2> QED
    BY <2>1, <2>2
<1>17. Types'
  <2>1. cursor' \in 0 .. MaxSequence
    BY <1>16, SequenceFacts
  <2>2. page' \in SUBSET (rows' \ known')
    BY <1>1, <1>11 DEF IInv, Types
  <2> QED
    BY <1>1, <1>14, <2>1, <2>2 DEF IInv, Types
<1>18. \A s \in page' : s <= cursor'
  <2>1. cursor < cursor' /\ cursor' \in Nat
    BY <1>8, <1>16, SequenceFacts
  <2>2. \A s \in page : s <= cursor /\ s \in Nat
    BY <1>2, SequenceFacts DEF IInv, Behind
  <2> QED
    BY <1>1, <1>2, <1>16, <2>1, <2>2
<1>19. ASSUME NEW s \in asked \ known, s <= cursor' PROVE s \in page \cup found
  <2>1. s \in rows /\ s \in Sequence /\ s \in Nat
    BY <1>2, SequenceFacts DEF IInv, Types
  <2>2. CASE s <= cursor
    BY <1>1, <2>2 DEF IInv, Behind
  <2>3. CASE cursor < s
    <3>1. s \in S
      BY <1>6, <2>1, <2>3
    <3>2. s \in batch
      BY <1>7, <1>16, <1>19, <3>1
    <3>3. s \in L
      BY <1>9, <3>2
    <3> QED
      BY <1>16, <1>19, <3>3
  <2> QED
    BY <1>2, <2>1, <2>2, <2>3
<1>20. Behind'
  BY <1>1, <1>18, <1>19 DEF Behind
<1>21. PageIsComplete'
  BY <1>1 DEF PageIsComplete
<1>22. Sorted(ranges)' /\ Exact(ranges, known)'
  BY <1>1 DEF IInv, Sorted, Exact, Has, Interval
<1> QED
  BY <1>17, <1>20, <1>21, <1>22 DEF IInv

(* The scan ends with a full page, or when nothing missing is left.        *)
LEMMA EndScanKeeps ==
    ASSUME IInv, EndScan
    PROVE  IInv'
<1> DEFINE next == NextMissingSequence(cursor)
           S == {s \in rows : next # None /\ s >= next}
           n == Min({Limit, Batch})
<1>1. /\ phase = "scan" /\ phase' = "done"
      /\ Cardinality(page) = Limit \/ First(S, n) = {}
      /\ UNCHANGED <<ranges, known, rows, asked, cursor, page>>
  BY DEF EndScan, Query
<1>2. /\ rows \in SUBSET Sequence /\ cursor \in 0 .. MaxSequence /\ cursor \in Nat
      /\ asked \in SUBSET rows /\ page \in SUBSET (rows \ known)
  BY SequenceFacts DEF IInv, Types
<1>3. /\ next \in Nat
      /\ \A s \in Sequence : cursor < s /\ (next = None \/ s < next) => s \in known
  BY <1>2, NextMissingFacts DEF IInv, Exact
<1>4. n \in Nat \ {0}
  <2>1. Limit \in Nat \ {0} /\ Batch \in Nat \ {0}
    BY ReceiptAssumption
  <2>2. {Limit, Batch} \in SUBSET Nat /\ {Limit, Batch} # {}
    BY <2>1
  <2>3. n \in {Limit, Batch}
    BY <2>2, MinFacts
  <2> HIDE DEF n
  <2> QED
    BY <2>1, <2>3
<1> HIDE DEF next, n
<1>5. \A s \in page : s <= cursor /\ s \in Nat
  BY <1>2, SequenceFacts DEF IInv, Behind
<1>6. \A s \in asked \ known : s <= cursor => s \in page
  BY <1>1 DEF IInv, Behind
<1>7. ASSUME NEW s \in (asked \ known) \ page
      PROVE  Cardinality(page) = Limit /\ \A t \in page : t < s
  <2>1. s \in rows /\ s \in Sequence /\ s \in Nat
    BY <1>2, SequenceFacts
  <2>2. cursor < s
    BY <1>2, <1>6, <2>1
  <2>3. s \in S
    <3>1. next # None /\ ~(s < next)
      BY <1>3, <2>1, <2>2
    <3> QED
      BY <1>3, <2>1, <3>1
  <2>4. S \in SUBSET Sequence
    BY <1>2
  <2> HIDE DEF S
  <2>5. First(S, n) # {}
    <3>1. ASSUME First(S, n) = {} PROVE FALSE
      <4>1. Cardinality(First(S, n)) = 0
        BY <3>1, FS_EmptySet
      <4>2. First(S, n) # S => Cardinality(First(S, n)) = n
        BY <1>4, <2>4, FirstIsFull
      <4> QED
        BY <1>4, <2>3, <3>1, <4>1, <4>2
    <3> QED
      BY <3>1
  <2> QED
    BY <1>1, <1>2, <1>5, <2>1, <2>2, <2>5
<1>8. PageIsComplete'
  BY <1>1, <1>2, <1>7 DEF PageIsComplete
<1>9. Types' /\ Behind'
  BY <1>1 DEF IInv, Types, Behind
<1>10. Sorted(ranges)' /\ Exact(ranges, known)'
  BY <1>1 DEF IInv, Sorted, Exact, Has, Interval
<1> QED
  BY <1>8, <1>9, <1>10 DEF IInv

(* Every step keeps the invariant.                                         *)
LEMMA NextIInv == IInv /\ [Next]_vars => IInv'
<1> SUFFICES ASSUME IInv, [Next]_vars PROVE IInv'
  OBVIOUS
<1>1. ASSUME NEW a \in Sequence, NEW b \in Sequence, ObserveRange(a, b) PROVE IInv'
  BY <1>1, ObserveRangeKeeps
<1>2. ASSUME NEW stored \in SUBSET Sequence, ExportWithBudget(stored) PROVE IInv'
  BY <1>2, ExportKeeps
<1>3. CASE ReadRows
  BY <1>3, ReadRowsKeeps
<1>4. CASE EndScan
  BY <1>4, EndScanKeeps
<1>5. ASSUME NEW s \in Sequence, StoreLate(s) PROVE IInv'
  BY <1>5, StoreLateKeeps
<1>6. CASE UNCHANGED vars
  BY <1>6 DEF vars, IInv, Sorted, Exact, Has, Interval, Types, Behind, PageIsComplete
<1> QED
  BY <1>1, <1>2, <1>3, <1>4, <1>5, <1>6 DEF Next

(* The inductive invariant.                                                *)
LEMMA Invariant == Spec => []IInv
  BY InitIInv, NextIInv, PTL DEF Spec

-----------------------------------------------------------------------------
(* observeRange, containsSequence: whatever is observed, in any order and  *)
(* up to the largest sequence, the receipt has exactly that.               *)
THEOREM ReceiptHasTheObserved == Spec => []ReceiptIsExact
<1>1. IInv => ReceiptIsExact
  BY ContainsFacts DEF IInv, Exact, ReceiptIsExact
<1> QED
  BY Invariant, <1>1, PTL

(* observeRange, validate: the receiving device accepts every receipt.     *)
THEOREM ReceiptIsValid == Spec => []ReceiptIsAccepted
<1>1. IInv => ReceiptIsAccepted
  BY SortedIsValid DEF IInv, ReceiptIsAccepted
<1> QED
  BY Invariant, <1>1, PTL

(* exportWithBudget: the scan leaves no missing row out, except behind the *)
(* end of a full page, whatever is stored between its queries.             *)
THEOREM NoRowLeftOut == Spec => []PageIsComplete
<1>1. IInv => PageIsComplete
  BY DEF IInv
<1> QED
  BY Invariant, <1>1, PTL

=============================================================================
