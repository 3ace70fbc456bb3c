--------------------------- MODULE Configurations ---------------------------
(***************************************************************************)
(* Who votes: the configurations of a cluster, the quorums they ask for    *)
(* and the changes from one to the next.                                   *)
(***************************************************************************)
EXTENDS Naturals, FiniteSets

CONSTANT Server

\* Configuration.  A simple one is written as a joint one whose two voter sets
\* are the same: every question below then has one answer for both.
Configuration == [old : SUBSET Server, new : SUBSET Server, learners : SUBSET Server]

simple_with_learners(vs, ls) == [old |-> vs, new |-> vs, learners |-> ls]

WellFormed(c) == c.old # {} /\ c.new # {} /\ c.new \cap c.learners = {}

voters(c) == c.old \cup c.new

is_joint(c) == c.old # c.new

all_nodes(c) == voters(c) \cup c.learners

replication_peers(c, me) == all_nodes(c) \ {me}

Majority(vs, acks) == 2 * Cardinality(vs \cap acks) > Cardinality(vs)

\* Mutant: during a transition the majority of either set is enough.
has_quorum_either(c, acks) == Majority(c.old, acks) \/ Majority(c.new, acks)

has_quorum(c, acks) == Majority(c.old, acks) /\ Majority(c.new, acks)

transition_target(c) == simple_with_learners(c.new, c.learners)

ConfigChange ==
    [kind : {"AddVoter", "RemoveVoter", "AddLearner", "RemoveLearner"}, id : Server]
    \cup [kind : {"SetMembers"}, voters : SUBSET Server, learners : SUBSET Server]

\* ConfigChange::validate.
validate(ch, c, md) ==
    LET vs == c.old IN
    /\ ~is_joint(c)
    /\ CASE ch.kind = "AddVoter" -> ch.id \notin vs /\ ch.id \in c.learners
         [] ch.kind = "RemoveVoter" -> ch.id \in vs /\ Cardinality(vs) # 1
         [] ch.kind = "AddLearner" -> ch.id \notin vs \cup c.learners
         [] ch.kind = "RemoveLearner" -> ch.id \in c.learners
         [] ch.kind = "SetMembers" ->
              /\ <<ch.voters, ch.learners>> # <<vs, c.learners>>
              /\ md = "SingleServer" =>
                    Cardinality(ch.voters \ vs) + Cardinality(vs \ ch.voters) <= 1
              /\ ch.voters # {}
              /\ ch.voters \cap ch.learners = {}

\* Mutant: a learner that is promoted stays a learner.
applyKeepLearner(ch, c, md) ==
    CASE ch.kind = "AddVoter" -> simple_with_learners(c.new \cup {ch.id}, c.learners)
      [] ch.kind = "RemoveVoter" -> simple_with_learners(c.new \ {ch.id}, c.learners)
      [] ch.kind = "AddLearner" -> simple_with_learners(c.new, c.learners \cup {ch.id})
      [] ch.kind = "RemoveLearner" -> simple_with_learners(c.new, c.learners \ {ch.id})
      [] OTHER -> [old |-> c.new, new |-> ch.voters, learners |-> ch.learners]

\* ConfigChange::apply, to a simple configuration.
apply(ch, c, md) ==
    LET vs == c.new
        ls == c.learners
    IN  CASE ch.kind = "AddVoter" -> simple_with_learners(vs \cup {ch.id}, ls \ {ch.id})
          [] ch.kind = "RemoveVoter" -> simple_with_learners(vs \ {ch.id}, ls)
          [] ch.kind = "AddLearner" -> simple_with_learners(vs, ls \cup {ch.id})
          [] ch.kind = "RemoveLearner" -> simple_with_learners(vs, ls \ {ch.id})
          [] ch.kind = "SetMembers" ->
               IF md = "JointConsensus"
               THEN [old |-> vs, new |-> ch.voters, learners |-> ch.learners]
               ELSE simple_with_learners(ch.voters, ch.learners)
=============================================================================
