------------------------------- MODULE MCWal -------------------------------
(***************************************************************************)
(* Small instances of the write-ahead log: a record of one unit and one of *)
(* two, in segments of three units.                                        *)
(***************************************************************************)
EXTENDS Wal

CONSTANTS short, long

MCRecord == {short, long}

MCSize(r) == IF r = long THEN 2 ELSE 1
===========================================================================
