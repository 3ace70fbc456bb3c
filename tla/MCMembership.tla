---------------------------- MODULE MCMembership ----------------------------
(***************************************************************************)
(* Small clusters that change their configuration.                         *)
(***************************************************************************)
EXTENDS Membership

CONSTANTS n1, n2, n3

Voter(kind, n) == [kind |-> kind, id |-> n]

SetMembers(vs, ls) == [kind |-> "SetMembers", voters |-> vs, learners |-> ls]

MCChange == {Voter("AddLearner", n3), Voter("RemoveLearner", n3), Voter("AddVoter", n3),
             Voter("RemoveVoter", n1), SetMembers({n2, n3}, {}), SetMembers({n3}, {n1})}
=============================================================================
