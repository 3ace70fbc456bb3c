----------------------------- MODULE RaftStore -----------------------------
(***************************************************************************)
(* What RaftStore writes for a save and reads back: the changed suffix of  *)
(* the log with the term and the vote.  A persistent state is a record     *)
(* with fields term, voted_for and log.                                    *)
(***************************************************************************)
EXTENDS RaftLog

\* Mutant: the logs are taken to agree as far as both reach.
common_length(durable_log, current_log) == Lesser(Len(durable_log), Len(current_log))

\* The highest index that both logs reach and at which their terms agree; 0 if
\* there is none.  Lower indices are not looked at.
common_prefix(durable_log, current_log) ==
    LET agree == {i \in 1..Lesser(Len(durable_log), Len(current_log)) :
                    durable_log[i].term = current_log[i].term}
    IN  IF agree = {} THEN 0 ELSE Max(agree)

\* RaftStore::save: the record that takes the durable state to the current one.
Delta(old, current) ==
    LET k == common_prefix(old.log, current.log) IN
    [term |-> current.term, voted_for |-> current.voted_for,
     truncate_after |-> k, entries |-> Slice(current.log, k + 1, Len(current.log))]

\* The conditions under which recovery accepts a record.  An entry's index is
\* its position here, so the entries are contiguous.
Applicable(state, delta) ==
    /\ delta.term >= state.term
    /\ delta.truncate_after <= Len(state.log)

\* RaftStore::recover, one record.
apply_delta(state, delta) ==
    [term |-> delta.term, voted_for |-> delta.voted_for,
     log |-> SubSeq(state.log, 1, delta.truncate_after) \o delta.entries]
=============================================================================
