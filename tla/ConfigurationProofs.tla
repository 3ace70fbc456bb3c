------------------------ MODULE ConfigurationProofs ------------------------
(***************************************************************************)
(* Why a configuration may take effect as soon as it is in the log: every  *)
(* quorum of a configuration meets every quorum of the one that replaces   *)
(* it, whatever the size of the cluster.                                   *)
(***************************************************************************)
EXTENDS Configurations, FiniteSetTheorems, TLAPS

\* Two voter sets that differ by at most one node: a majority of the one meets a
\* majority of the other.  With V = W, two majorities of one set meet.
LEMMA NeighboursMeet ==
    ASSUME NEW V, NEW W, IsFiniteSet(V), IsFiniteSet(W),
           Cardinality(V \ W) + Cardinality(W \ V) <= 1,
           NEW p, NEW q, Majority(V, p), Majority(W, q)
    PROVE  p \cap q # {}
<1> DEFINE A == V \cap p
           B == W \cap q
<1> SUFFICES ASSUME p \cap q = {} PROVE FALSE OBVIOUS
<1>1. IsFiniteSet(A) /\ IsFiniteSet(B) BY FS_Intersection, Zenon
<1>2. IsFiniteSet(V \ W) /\ IsFiniteSet(W \ V) /\ IsFiniteSet(V \cap W)
  BY FS_Difference, FS_Intersection, Zenon
<1>3. IsFiniteSet(A \cup B) /\ Cardinality(A \cup B) = Cardinality(A) + Cardinality(B)
  <2>1. A \cap B = {} OBVIOUS
  <2>2. IsFiniteSet(A \cup B)
        /\ Cardinality(A \cup B) = Cardinality(A) + Cardinality(B) - Cardinality(A \cap B)
    BY <1>1, FS_Union, Zenon
  <2>3. Cardinality(A) \in Nat /\ Cardinality(B) \in Nat BY <1>1, FS_CardinalityType
  <2>4. Cardinality(A \cap B) = 0 BY <2>1, FS_EmptySet, Zenon
  <2> HIDE DEF A, B
  <2> QED BY <2>2, <2>3, <2>4
<1>4. IsFiniteSet(V \cup W)
      /\ Cardinality(V \cup W) = Cardinality(V) + Cardinality(W) - Cardinality(V \cap W)
  BY FS_Union
<1>5. Cardinality(A \cup B) <= Cardinality(V \cup W)
  <2>1. A \cup B \in SUBSET (V \cup W) OBVIOUS
  <2> HIDE DEF A, B
  <2> QED BY <2>1, <1>4, FS_Subset
<1>6. Cardinality(V \ W) = Cardinality(V) - Cardinality(V \cap W) BY FS_Difference, Zenon
<1>7. Cardinality(W \ V) = Cardinality(W) - Cardinality(V \cap W)
  <2>1. W \cap V = V \cap W OBVIOUS
  <2>2. Cardinality(W \ V) = Cardinality(W) - Cardinality(W \cap V) BY FS_Difference, Zenon
  <2> QED BY <2>1, <2>2, Zenon
<1>8. /\ Cardinality(V) \in Nat /\ Cardinality(W) \in Nat /\ Cardinality(V \cap W) \in Nat
      /\ Cardinality(A) \in Nat /\ Cardinality(B) \in Nat
  BY <1>1, <1>2, FS_CardinalityType
<1>9. 2 * Cardinality(A) > Cardinality(V) /\ 2 * Cardinality(B) > Cardinality(W)
  BY DEF Majority
<1> HIDE DEF A, B
<1> QED BY <1>3, <1>4, <1>5, <1>6, <1>7, <1>8, <1>9

\* Two majorities of one set of voters meet.
LEMMA MajoritiesMeet ==
    ASSUME NEW V, IsFiniteSet(V), NEW p, NEW q, Majority(V, p), Majority(V, q)
    PROVE  p \cap q # {}
<1>1. V \ V = {} OBVIOUS
<1>2. Cardinality(V \ V) + Cardinality(V \ V) <= 1 BY <1>1, FS_EmptySet
<1> QED BY <1>2, NeighboursMeet

\* Adding a node to a set, or taking one away, leaves a neighbour.
LEMMA OneNodeApart ==
    ASSUME NEW V, IsFiniteSet(V), NEW x
    PROVE  /\ IsFiniteSet(V \cup {x}) /\ IsFiniteSet(V \ {x})
           /\ Cardinality(V \ (V \cup {x})) + Cardinality((V \cup {x}) \ V) <= 1
           /\ Cardinality(V \ (V \ {x})) + Cardinality((V \ {x}) \ V) <= 1
<1>1. IsFiniteSet(V \cup {x}) /\ IsFiniteSet(V \ {x}) BY FS_AddElement, FS_RemoveElement
<1>2. V \ (V \cup {x}) = {} /\ (V \ {x}) \ V = {} OBVIOUS
<1>3. ASSUME NEW S \in SUBSET {x} PROVE Cardinality(S) <= 1 /\ Cardinality(S) \in Nat
  <2>1. IsFiniteSet({x}) /\ Cardinality({x}) = 1 BY FS_Singleton
  <2> QED BY <1>3, <2>1, FS_Subset, FS_CardinalityType
<1>4. (V \cup {x}) \ V \in SUBSET {x} /\ V \ (V \ {x}) \in SUBSET {x} OBVIOUS
<1> QED BY <1>1, <1>2, <1>3, <1>4, FS_EmptySet, SMTT(60)

\* Two quorums of the configuration in force share a node, joint or not: what an
\* election and a commit under one configuration rest on (Configuration::has_quorum).
THEOREM QuorumsMeet ==
    ASSUME IsFiniteSet(Server), NEW c \in Configuration, NEW p, NEW q,
           has_quorum(c, p), has_quorum(c, q)
    PROVE  p \cap q # {}
<1>1. IsFiniteSet(c.old) BY FS_Subset DEF Configuration
<1> QED BY <1>1, MajoritiesMeet DEF has_quorum

\* The completion of a joint configuration: a quorum of C_new meets every quorum of
\* C_old,new (Configuration::transition_target).
THEOREM TransitionOverlaps ==
    ASSUME IsFiniteSet(Server), NEW c \in Configuration, NEW p, NEW q,
           has_quorum(c, p), has_quorum(transition_target(c), q)
    PROVE  p \cap q # {}
<1>1. IsFiniteSet(c.new) BY FS_Subset DEF Configuration
<1>2. Majority(c.new, p) /\ Majority(c.new, q)
  BY DEF has_quorum, transition_target, simple_with_learners
<1> QED BY <1>1, <1>2, MajoritiesMeet

\* Whatever change validate lets through, in either mode, a quorum of the
\* configuration that apply makes meets every quorum of the one it starts from.
THEOREM ChangeOverlaps ==
    ASSUME IsFiniteSet(Server), NEW c \in Configuration, NEW ch \in ConfigChange,
           NEW md \in {"SingleServer", "JointConsensus"}, validate(ch, c, md),
           NEW p, NEW q, has_quorum(c, p), has_quorum(apply(ch, c, md), q)
    PROVE  p \cap q # {}
<1> DEFINE d == apply(ch, c, md)
<1>1. IsFiniteSet(c.old) /\ IsFiniteSet(c.new) BY FS_Subset DEF Configuration
<1>2. c.old = c.new BY DEF validate, is_joint
<1>3. Majority(c.new, p) BY DEF has_quorum
<1>4. Majority(d.old, q) /\ Majority(d.new, q) BY DEF has_quorum
<1>5. CASE ch.kind = "AddVoter"
  <2>1. d.new = c.new \cup {ch.id} BY <1>5 DEF apply, simple_with_learners
  <2>2. /\ IsFiniteSet(c.new \cup {ch.id})
        /\ Cardinality(c.new \ (c.new \cup {ch.id})) + Cardinality((c.new \cup {ch.id}) \ c.new) <= 1
    BY <1>1, OneNodeApart, Zenon
  <2> HIDE DEF d
  <2>3. IsFiniteSet(d.new) /\ Cardinality(c.new \ d.new) + Cardinality(d.new \ c.new) <= 1
    BY <2>1, <2>2, Zenon
  <2> QED BY <1>1, <1>3, <1>4, <2>3, NeighboursMeet, Zenon
<1>6. CASE ch.kind = "RemoveVoter"
  <2>1. d.new = c.new \ {ch.id} BY <1>6 DEF apply, simple_with_learners
  <2>2. /\ IsFiniteSet(c.new \ {ch.id})
        /\ Cardinality(c.new \ (c.new \ {ch.id})) + Cardinality((c.new \ {ch.id}) \ c.new) <= 1
    BY <1>1, OneNodeApart, Zenon
  <2> HIDE DEF d
  <2>3. IsFiniteSet(d.new) /\ Cardinality(c.new \ d.new) + Cardinality(d.new \ c.new) <= 1
    BY <2>1, <2>2, Zenon
  <2> QED BY <1>1, <1>3, <1>4, <2>3, NeighboursMeet, Zenon
<1>7. CASE ch.kind \in {"AddLearner", "RemoveLearner"}
  <2>1. d.new = c.new BY <1>7 DEF apply, simple_with_learners
  <2> QED BY <1>1, <1>3, <1>4, <2>1, MajoritiesMeet
<1>8. CASE ch.kind = "SetMembers" /\ md = "JointConsensus"
  <2>1. d.old = c.new BY <1>8 DEF apply
  <2> QED BY <1>1, <1>3, <1>4, <2>1, MajoritiesMeet
<1>9. CASE ch.kind = "SetMembers" /\ md = "SingleServer"
  <2>1. d.new = ch.voters BY <1>9 DEF apply, simple_with_learners
  <2>2. ch.voters \in SUBSET Server BY <1>9 DEF ConfigChange
  <2>3. IsFiniteSet(ch.voters) BY <2>2, FS_Subset
  <2>4. Cardinality(ch.voters \ c.new) + Cardinality(c.new \ ch.voters) <= 1
    BY <1>2, <1>9 DEF validate
  <2>5. Cardinality(ch.voters \ c.new) \in Nat /\ Cardinality(c.new \ ch.voters) \in Nat
    BY <1>1, <2>3, FS_Difference, FS_CardinalityType, Zenon
  <2>6. Cardinality(c.new \ ch.voters) + Cardinality(ch.voters \ c.new) <= 1 BY <2>4, <2>5
  <2> QED BY <1>1, <1>3, <1>4, <2>1, <2>3, <2>6, NeighboursMeet
<1> QED BY <1>5, <1>6, <1>7, <1>8, <1>9 DEF ConfigChange

\* An accepted change leaves voters in charge, and nobody both a voter and a learner:
\* the cluster cannot be configured to have no quorum (ConfigChange::validate).
THEOREM ChangeKeepsWellFormed ==
    ASSUME IsFiniteSet(Server), NEW c \in Configuration, WellFormed(c),
           NEW ch \in ConfigChange, NEW md \in {"SingleServer", "JointConsensus"},
           validate(ch, c, md)
    PROVE  /\ apply(ch, c, md) \in Configuration
           /\ WellFormed(apply(ch, c, md))
           /\ WellFormed(transition_target(apply(ch, c, md)))
<1> DEFINE d == apply(ch, c, md)
<1>1. c.old = c.new BY DEF validate, is_joint
<1>2. CASE ch.kind = "RemoveVoter"
  <2>1. ch.id \in c.new /\ Cardinality(c.new) # 1 BY <1>1, <1>2 DEF validate
  <2>2. c.new # {ch.id} BY <2>1, FS_Singleton, Zenon
  <2>3. d = [old |-> c.new \ {ch.id}, new |-> c.new \ {ch.id}, learners |-> c.learners]
    BY <1>2 DEF apply, simple_with_learners
  <2> QED BY <2>1, <2>2, <2>3
      DEF WellFormed, Configuration, transition_target, simple_with_learners
<1>3. CASE ch.kind = "AddVoter"
  <2>1. ch.id \in Server BY <1>3 DEF ConfigChange
  <2>2. d = [old |-> c.new \cup {ch.id}, new |-> c.new \cup {ch.id},
             learners |-> c.learners \ {ch.id}]
    BY <1>3 DEF apply, simple_with_learners
  <2> QED BY <2>1, <2>2 DEF WellFormed, Configuration, transition_target, simple_with_learners
<1>4. CASE ch.kind = "AddLearner"
  <2>1. ch.id \in Server /\ ch.id \notin c.new BY <1>1, <1>4 DEF ConfigChange, validate
  <2>2. d = [old |-> c.new, new |-> c.new, learners |-> c.learners \cup {ch.id}]
    BY <1>4 DEF apply, simple_with_learners
  <2> QED BY <2>1, <2>2 DEF WellFormed, Configuration, transition_target, simple_with_learners
<1>5. CASE ch.kind = "RemoveLearner"
  <2>1. d = [old |-> c.new, new |-> c.new, learners |-> c.learners \ {ch.id}]
    BY <1>5 DEF apply, simple_with_learners
  <2> QED BY <2>1 DEF WellFormed, Configuration, transition_target, simple_with_learners
<1>6. CASE ch.kind = "SetMembers"
  <2>1. ch.voters \in SUBSET Server /\ ch.learners \in SUBSET Server BY <1>6 DEF ConfigChange
  <2>2. ch.voters # {} /\ ch.voters \cap ch.learners = {} BY <1>6 DEF validate
  <2>3. d.new = ch.voters /\ d.learners = ch.learners /\ d.old \in {c.new, ch.voters}
        /\ d \in Configuration
    BY <1>6, <2>1 DEF apply, simple_with_learners, Configuration
  <2> QED BY <2>2, <2>3 DEF WellFormed, transition_target, simple_with_learners
<1> QED BY <1>2, <1>3, <1>4, <1>5, <1>6 DEF ConfigChange
=============================================================================
