--------------------------- MODULE MCReplication ---------------------------
(***************************************************************************)
(* Small instances of a leader and a follower: logs of at most three       *)
(* entries, from terms 1 to 3.                                             *)
(***************************************************************************)
EXTENDS Replication

CONSTANT c

\* The log whose entries have the given terms.
Logs(terms) == [i \in DOMAIN terms |-> [term |-> terms[i], command |-> c]]

OneLog == {Logs(<<1, 1>>)}

Prefixes == {Logs(<<>>), Logs(<<1>>), Logs(<<1, 1>>)}

Diverged == {Logs(<<1, 2>>)}
=============================================================================
