----------------------------- MODULE DurableLog -----------------------------
(***************************************************************************)
(* What the write-ahead log promises its caller, without segments, system  *)
(* calls or bytes: a sequence of records that only grows, of which a crash *)
(* of the process takes nothing and a power failure nothing that a sync    *)
(* covered.                                                                *)
(***************************************************************************)
EXTENDS Naturals, Sequences

CONSTANT Item   \* what can be appended

VARIABLES
    up,         \* is the log open?
    log,        \* the records the caller was told are appended
    durable     \* those of them that a sync covered

vars == <<up, log, durable>>

\* s is the beginning of t.
Starts(s, t) == Len(s) <= Len(t) /\ \A i \in 1..Len(s) : s[i] = t[i]

Init == up = TRUE /\ log = <<>> /\ durable = <<>>

\* append returns Ok.
AppendItem(r) == up /\ log' = Append(log, r) /\ UNCHANGED <<up, durable>>

\* sync returns Ok.
SyncAll == up /\ durable' = log /\ UNCHANGED <<up, log>>

\* The log, and perhaps the record of an append that had not returned yet.
OnePast == {log} \cup {Append(log, r) : r \in Item}

\* The process stops.
Stop == up /\ up' = FALSE /\ log' \in OnePast /\ UNCHANGED durable

\* The power fails: the end that no sync covered may be lost, but never from the middle.
LosePower ==
    /\ up' = FALSE
    /\ \E full \in (IF up THEN OnePast ELSE {log}) : Starts(log', full)
    /\ Starts(durable, log')
    /\ UNCHANGED durable

\* The log is opened again, with all that is left of it.
Reopen == ~up /\ up' = TRUE /\ UNCHANGED <<log, durable>>

Next == (\E r \in Item : AppendItem(r)) \/ SyncAll \/ Stop \/ LosePower \/ Reopen

Spec == Init /\ [][Next]_vars
=============================================================================
