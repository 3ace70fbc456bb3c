----------------------------- MODULE MCRuntime -----------------------------
\* Instances of Runtime for TLC.
EXTENDS Runtime, TLC

\* Nodes and writing clients are interchangeable; readers are not permuted.
Symmetric == Permutations(Node) \cup Permutations(Writers)
=============================================================================
