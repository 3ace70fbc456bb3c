--------------------------- MODULE RaftLogProofs ---------------------------
(***************************************************************************)
(* Lemmas on the log operations: what they return on well-formed logs.     *)
(***************************************************************************)
EXTENDS RaftLog, TLAPS, SequenceTheorems, WellFoundedInduction

\* A nonempty set of naturals has a least element, and Min returns it.
LEMMA MinProperties ==
    ASSUME NEW S \in SUBSET Nat, S # {}
    PROVE  Min(S) \in S /\ \A j \in S : Min(S) <= j
<1>1. PICK x \in S : \A y \in S : ~ (<<y, x>> \in OpToRel(<, Nat))
    BY NatLessThanWellFounded, WFMin, Zenon
<1>2. \A y, z \in Nat : y < z => <<y, z>> \in OpToRel(<, Nat)
    BY Zenon DEF OpToRel
<1>3. \A y \in S : x <= y
  <2> TAKE y \in S
  <2>1. ~ (y < x) BY <1>1, <1>2, Zenon
  <2> QED BY <2>1, SMT
<1> QED BY <1>3, Zenon DEF Min

\* A nonempty set of naturals with an upper bound has a greatest element, and
\* Max returns it.
LEMMA MaxProperties ==
    ASSUME NEW b \in Nat, NEW S \in SUBSET (0..b), S # {}
    PROVE  Max(S) \in S /\ \A j \in S : j <= Max(S)
<1> DEFINE R == {b - i : i \in S}
<1>1. R \in SUBSET Nat /\ R # {}
  <2>1. \A i \in S : b - i \in Nat BY SMT
  <2> QED BY <2>1, Zenon
<1>2. Min(R) \in R /\ \A j \in R : Min(R) <= j
  <2> HIDE DEF R
  <2> QED BY <1>1, MinProperties, Zenon
<1>3. PICK x \in S : Min(R) = b - x BY <1>2, Zenon
<1>4. \A y \in S : x >= y
  <2> TAKE y \in S
  <2>1. b - x <= b - y BY <1>2, <1>3, Zenon
  <2> QED BY <2>1, SMT
<1>5. Max(S) \in S /\ \A j \in S : Max(S) >= j BY <1>4, Zenon DEF Max
<1> QED BY <1>5, SMT

\* SubSeq of a sequence is a sequence over the same set, wherever it starts,
\* as long as it ends within the sequence.
LEMMA SubSeqType ==
    ASSUME NEW S, NEW s \in Seq(S), NEW a \in Nat \ {0}, NEW b \in Int, b <= Len(s)
    PROVE  /\ SubSeq(s, a, b) \in Seq(S)
           /\ Len(SubSeq(s, a, b)) = (IF a <= b THEN b - a + 1 ELSE 0)
           /\ \A i \in 1..Len(SubSeq(s, a, b)) : SubSeq(s, a, b)[i] = s[a + i - 1]
<1>1. CASE a > b
  <2>1. SubSeq(s, a, b) = << >> BY <1>1, SubSeqEmpty
  <2> QED BY <1>1, <2>1
<1>2. CASE a <= b
  <2>1. a \in 1..Len(s)+1 /\ b \in a-1 .. Len(s) BY <1>2, LenProperties
  <2> QED BY <1>2, <2>1, SubSeqProperties
<1> QED BY <1>1, <1>2

\* A term of 0 tells exactly the indices outside the log.
LEMMA TermAtType ==
    ASSUME NEW lg \in Seq(Entry), NEW i \in Int
    PROVE  /\ TermAt(lg, i) \in Nat
           /\ i \in 1..Len(lg) <=> TermAt(lg, i) # 0
<1>1. CASE i \in 1..Len(lg)
  <2>1. lg[i] \in Entry BY <1>1, ElementOfSeq
  <2> QED BY <1>1, <2>1 DEF TermAt, Entry
<1>2. CASE i \notin 1..Len(lg)
  BY <1>2 DEF TermAt
<1> QED BY <1>1, <1>2

\* A slice is a log, and empty when it starts beyond the end.
LEMMA SliceType ==
    ASSUME NEW lg \in Seq(Entry), NEW a \in Nat \ {0}, NEW b \in Nat
    PROVE  /\ Slice(lg, a, b) \in Seq(Entry)
           /\ a > Len(lg) => Slice(lg, a, b) = << >>
           /\ \A i \in 1..Len(Slice(lg, a, b)) :
                 a + i - 1 \in 1..Len(lg) /\ Slice(lg, a, b)[i] = lg[a + i - 1]
<1>1. Len(lg) \in Nat BY LenProperties
<1>2. Lesser(b, Len(lg)) \in Nat /\ Lesser(b, Len(lg)) <= Len(lg) BY <1>1 DEF Lesser
<1>3. /\ Slice(lg, a, b) \in Seq(Entry)
      /\ Len(Slice(lg, a, b)) = (IF a <= Lesser(b, Len(lg)) THEN Lesser(b, Len(lg)) - a + 1 ELSE 0)
      /\ \A i \in 1..Len(Slice(lg, a, b)) : Slice(lg, a, b)[i] = lg[a + i - 1]
  BY <1>2, SubSeqType DEF Slice
<1>4. a > Len(lg) => Slice(lg, a, b) = << >> BY <1>1, <1>2, <1>3, EmptySeq
<1> QED BY <1>1, <1>2, <1>3, <1>4

\* The append loop turns a log into a log: where it keeps a prefix, that prefix
\* is within the log.
LEMMA MergeType ==
    ASSUME NEW lg \in Seq(Entry), NEW es \in Seq(Entry), NEW prev \in Nat,
           prev <= Len(lg) \/ es = << >>
    PROVE  Merge(lg, prev, es) \in Seq(Entry)
<1>1. CASE Fresh(lg, prev, es) = {}
  BY <1>1 DEF Merge
<1>2. CASE Fresh(lg, prev, es) # {}
  <2> DEFINE k == Min(Fresh(lg, prev, es))
  <2>1. Fresh(lg, prev, es) \in SUBSET Nat BY LenProperties DEF Fresh
  <2>2. k \in Fresh(lg, prev, es) /\ \A j \in Fresh(lg, prev, es) : k <= j
    BY <1>2, <2>1, MinProperties
  <2> HIDE DEF k
  <2>3. k \in 1..Len(es) BY <2>2 DEF Fresh
  <2>4. Len(lg) \in Nat /\ Len(es) \in Nat BY LenProperties
  <2>5. es # << >> BY <2>3
  <2>6. prev <= Len(lg) BY <2>5
  <2>7. prev + k - 1 <= Len(lg)
    <3>1. CASE k = 1 BY <3>1, <2>6, <2>4
    <3>2. CASE k # 1
      <4>1. k - 1 \in 1..Len(es) /\ k - 1 \notin Fresh(lg, prev, es) BY <3>2, <2>2, <2>3, <2>4
      <4>2. TermAt(lg, prev + (k - 1)) = es[k - 1].term BY <4>1 DEF Fresh
      <4>3. es[k - 1].term # 0
        <5>1. es[k - 1] \in Entry BY <4>1, ElementOfSeq, Zenon
        <5> QED BY <5>1, SMT DEF Entry
      <4>4. TermAt(lg, prev + (k - 1)) # 0 BY <4>2, <4>3
      <4>5. prev + (k - 1) \in Int BY <4>1, <2>4
      <4>6. prev + (k - 1) \in 1..Len(lg) BY <4>4, <4>5, TermAtType, Zenon
      <4> QED BY <4>6, <2>3, <2>4
    <3> QED BY <3>1, <3>2
  <2>8. SubSeq(lg, 1, prev + k - 1) \in Seq(Entry) BY <2>7, <2>3, <2>4, SubSeqType
  <2>9. SubSeq(es, k, Len(es)) \in Seq(Entry) BY <2>3, <2>4, SubSeqType
  <2>10. Merge(lg, prev, es) = SubSeq(lg, 1, prev + k - 1) \o SubSeq(es, k, Len(es))
    BY <1>2, Zenon DEF Merge, k
  <2> QED BY <2>8, <2>9, <2>10, ConcatProperties
<1> QED BY <1>1, <1>2

\* What is applied is a sequence of entries that only grows.
LEMMA ApplyType ==
    ASSUME NEW done \in Seq(Entry), NEW lg \in Seq(Entry), NEW ci \in Nat
    PROVE  Apply(done, lg, ci) \in Seq(Entry)
<1>1. Len(done) + 1 \in Nat \ {0} /\ Len(lg) \in Nat BY LenProperties
<1>2. Lesser(ci, Len(lg)) \in Nat /\ Lesser(ci, Len(lg)) <= Len(lg) BY <1>1 DEF Lesser
<1>3. SubSeq(lg, Len(done) + 1, Lesser(ci, Len(lg))) \in Seq(Entry)
  BY <1>1, <1>2, SubSeqType
<1> QED BY <1>3, ConcatProperties DEF Apply
=============================================================================
