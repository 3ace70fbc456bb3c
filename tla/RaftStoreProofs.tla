-------------------------- MODULE RaftStoreProofs --------------------------
(***************************************************************************)
(* The record that a save appends to the WAL takes the state before the    *)
(* save to the state saved, if the two logs match.                         *)
(***************************************************************************)
EXTENDS RaftStore, RaftLogProofs

\* Log matching between two logs: where their terms agree, so do they up to
\* there.
Matching(a, b) ==
    \A i \in 1..Lesser(Len(a), Len(b)) :
        a[i].term = b[i].term => \A j \in 1..i : a[j] = b[j]

\* The states that Raft asks its driver to save, for given voters.
State(Voter) == [term : Nat, voted_for : Voter, log : Seq(Entry)]

\* common_prefix is within both logs, and they agree up to it.
LEMMA CommonPrefix ==
    ASSUME NEW a \in Seq(Entry), NEW b \in Seq(Entry), Matching(a, b)
    PROVE  LET k == common_prefix(a, b) IN
           /\ k \in Nat /\ k <= Len(a) /\ k <= Len(b)
           /\ \A j \in 1..k : a[j] = b[j]
<1> DEFINE n == Lesser(Len(a), Len(b))
           agree == {i \in 1..n : a[i].term = b[i].term}
           k == common_prefix(a, b)
<1>1. Len(a) \in Nat /\ Len(b) \in Nat
  BY LenProperties
<1>2. n \in Nat /\ n <= Len(a) /\ n <= Len(b)
  BY <1>1 DEF Lesser
<1>3. CASE agree = {}
  <2>1. k = 0
    BY <1>3 DEF common_prefix
  <2> QED
    BY <1>1, <2>1
<1>4. CASE agree # {}
  <2>1. k = Max(agree)
    BY <1>4 DEF common_prefix
  <2>2. agree \in SUBSET (0..n)
    BY <1>2
  <2>3. k \in agree
    <3> HIDE DEF agree, n
    <3> QED
      BY <1>2, <1>4, <2>1, <2>2, MaxProperties, Zenon
  <2>4. k \in 1..n /\ a[k].term = b[k].term
    BY <2>3
  <2>5. \A j \in 1..k : a[j] = b[j]
    BY <2>4 DEF Matching
  <2> HIDE DEF k, n
  <2> QED
    BY <1>1, <1>2, <2>4, <2>5 DEF k
<1> QED
  BY <1>3, <1>4

\* A common prefix of a, followed by the rest of b, is b.
LEMMA Rejoin ==
    ASSUME NEW a \in Seq(Entry), NEW b \in Seq(Entry), NEW k \in Nat,
           k <= Len(a), k <= Len(b), \A j \in 1..k : a[j] = b[j]
    PROVE  SubSeq(a, 1, k) \o Slice(b, k + 1, Len(b)) = b
<1> DEFINE p == SubSeq(a, 1, k)
           q == SubSeq(b, k + 1, Len(b))
<1>1. Len(a) \in Nat /\ Len(b) \in Nat
  BY LenProperties
<1>2. Slice(b, k + 1, Len(b)) = q
  BY <1>1 DEF Slice, Lesser
<1>3. p \in Seq(Entry) /\ Len(p) = k /\ \A i \in 1..k : p[i] = a[i]
  <2>1. /\ p \in Seq(Entry)
        /\ Len(p) = (IF 1 <= k THEN k - 1 + 1 ELSE 0)
        /\ \A i \in 1..Len(p) : p[i] = a[1 + i - 1]
    BY SubSeqType
  <2> HIDE DEF p
  <2> QED
    BY <2>1
<1>4. q \in Seq(Entry) /\ Len(q) = Len(b) - k /\ \A i \in 1..Len(b) - k : q[i] = b[k + i]
  <2>1. /\ q \in Seq(Entry)
        /\ Len(q) = (IF k + 1 <= Len(b) THEN Len(b) - (k + 1) + 1 ELSE 0)
        /\ \A i \in 1..Len(q) : q[i] = b[(k + 1) + i - 1]
    BY <1>1, SubSeqType
  <2> HIDE DEF q
  <2> QED
    BY <1>1, <2>1
<1> HIDE DEF p, q
<1>5. p \o q \in Seq(Entry) /\ Len(p \o q) = Len(b)
  BY <1>1, <1>3, <1>4, ConcatProperties
<1>6. ASSUME NEW i \in 1..Len(b) PROVE (p \o q)[i] = b[i]
  <2>1. (p \o q)[i] = IF i <= k THEN p[i] ELSE q[i - k]
    BY <1>1, <1>3, <1>4, ConcatProperties
  <2>2. CASE i <= k
    <3>1. i \in 1..k
      BY <1>1, <2>2
    <3> QED
      BY <1>3, <2>1, <2>2, <3>1
  <2>3. CASE i > k
    <3>1. i - k \in 1..Len(b) - k /\ k + (i - k) = i /\ ~(i <= k)
      BY <1>1, <2>3
    <3>2. q[i - k] = b[k + (i - k)]
      BY <1>4, <3>1
    <3> QED
      BY <2>1, <3>1, <3>2
  <2>4. i <= k \/ i > k
    BY <1>1
  <2> QED
    BY <2>2, <2>3, <2>4, Zenon
<1>7. p \o q = b
  BY <1>5, <1>6, SeqEqual, Zenon
<1> QED
  BY <1>2, <1>7 DEF p

\* A save is exact: recovery accepts the record and rebuilds the state saved,
\* term, vote and log, for logs of any length that match. (RaftStore::save and
\* apply_delta; common_prefix compares terms only.)
THEOREM SaveIsExact ==
    ASSUME NEW Voter, NEW old \in State(Voter), NEW current \in State(Voter),
           Matching(old.log, current.log), old.term <= current.term
    PROVE  /\ Applicable(old, Delta(old, current))
           /\ apply_delta(old, Delta(old, current)) = current
<1> DEFINE k == common_prefix(old.log, current.log)
<1>1. old.log \in Seq(Entry) /\ current.log \in Seq(Entry)
  BY DEF State
<1>2. /\ k \in Nat /\ k <= Len(old.log) /\ k <= Len(current.log)
      /\ \A j \in 1..k : old.log[j] = current.log[j]
  BY <1>1, CommonPrefix
<1>3. Delta(old, current) =
        [term |-> current.term, voted_for |-> current.voted_for, truncate_after |-> k,
         entries |-> Slice(current.log, k + 1, Len(current.log))]
  BY DEF Delta
<1> HIDE DEF k
<1>4. SubSeq(old.log, 1, k) \o Slice(current.log, k + 1, Len(current.log)) = current.log
  BY <1>1, <1>2, Rejoin, Zenon
<1>5. apply_delta(old, Delta(old, current)) =
        [term |-> current.term, voted_for |-> current.voted_for, log |-> current.log]
  <2> DEFINE d == Delta(old, current)
             es == Slice(current.log, k + 1, Len(current.log))
  <2>1. /\ d.term = current.term /\ d.voted_for = current.voted_for
        /\ d.truncate_after = k /\ d.entries = es
    <3> HIDE DEF es
    <3> QED
      BY <1>3 DEF es
  <2>2. SubSeq(old.log, 1, d.truncate_after) \o d.entries = current.log
    BY <1>4, <2>1, Zenon
  <2> HIDE DEF d
  <2>3. apply_delta(old, d) =
          [term |-> current.term, voted_for |-> current.voted_for, log |-> current.log]
    BY <2>1, <2>2, Zenon DEF apply_delta
  <2> QED
    BY <2>3 DEF d
<1>6. apply_delta(old, Delta(old, current)) = current
  BY <1>5 DEF State
<1>7. Applicable(old, Delta(old, current))
  BY <1>2, <1>3 DEF Applicable, State
<1> QED
  BY <1>6, <1>7
=============================================================================
