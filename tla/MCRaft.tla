------------------------------- MODULE MCRaft -------------------------------
(***************************************************************************)
(* Small clusters of Raft for TLC.                                         *)
(***************************************************************************)
EXTENDS Raft, TLC

\* Nodes with the same bounds on their timeouts and crashes are interchangeable.
Symmetry ==
    Permutations(Campaigners \cap Crashers) \cup
    Permutations(Campaigners \ Crashers) \cup
    Permutations(Crashers \ Campaigners) \cup
    Permutations(Server \ (Campaigners \cup Crashers))
=============================================================================
