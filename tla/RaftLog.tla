------------------------------ MODULE RaftLog ------------------------------
(***************************************************************************)
(* The replicated log of a node that never compacts, and the operations    *)
(* Raft performs on it.  A log is the sequence of its entries: the entry   *)
(* at position i has index i, so snapshot_index is 0 throughout.           *)
(***************************************************************************)
EXTENDS Naturals, Sequences, FiniteSets, FiniteSetsExt

CONSTANTS
    Command,        \* what clients propose
    Pipelining,     \* Config.pipelining
    MaxEntries      \* Config.max_entries_per_msg

\* Entry: a proposed command and the term of the leader that proposed it.
Entry == [term : Nat \ {0}, command : Command]

\* a.min(b) of the Rust code.
Lesser(a, b) == IF a < b THEN a ELSE b

\* a.max(b) of the Rust code.
Greater(a, b) == IF a < b THEN b ELSE a

\* Term of the entry at index i; 0 outside the log.
TermAt(lg, i) == IF i \in 1..Len(lg) THEN lg[i].term ELSE 0

LastTerm(lg) == TermAt(lg, Len(lg))

\* Is a candidate whose log ends at (index, lterm) at least as up to date as lg?
UpToDate(lg, lterm, index) ==
    \/ lterm > LastTerm(lg)
    \/ lterm = LastTerm(lg) /\ index >= Len(lg)

\* Entries from..to, both inclusive, clamped to the log.
Slice(lg, from, to) == SubSeq(lg, from, Lesser(to, Len(lg)))

\* Mutant: only the length is compared.
ConsistentLength(lg, prev, pterm) == prev <= Len(lg)

\* The consistency check of AppendEntries.
Consistent(lg, prev, pterm) == prev = 0 \/ TermAt(lg, prev) = pterm

\* Positions in es of entries that the log, from prev on, lacks or contradicts.
Fresh(lg, prev, es) ==
    {k \in 1..Len(es) : TermAt(lg, prev + k) # es[k].term}

\* The append loop: walk es, truncate at the first conflict, append from there
\* on.  Entries whose term already agrees are left as they are.
Merge(lg, prev, es) ==
    IF Fresh(lg, prev, es) = {} THEN lg
    ELSE LET k == Min(Fresh(lg, prev, es))
         IN  SubSeq(lg, 1, prev + k - 1) \o SubSeq(es, k, Len(es))

\* What is applied after done once the commit index is ci: the entries from
\* last_applied + 1 to the commit index that the log has.
Apply(done, lg, ci) == done \o SubSeq(lg, Len(done) + 1, Lesser(ci, Len(lg)))

\* send_append_to: the entries from next on.  The slice is inclusive at both ends.
EntriesFrom(lg, next) == Slice(lg, next, Lesser(next + MaxEntries, Len(lg) + 1))

\* send_append_to: where next_index stands once that message is sent.
NextAfterSend(lg, next) ==
    IF Pipelining THEN next + Len(EntriesFrom(lg, next)) ELSE next

\* Mutant: the retry skips the entry after the last one known to match.
NextAfterRejectFar(last, match) == Greater(last + 1, match + 2)

\* handle_append_response, failure: back to the follower's last index, but with
\* pipelining not behind what it is known to hold.
NextAfterReject(last, match) ==
    IF Pipelining THEN Greater(last + 1, match + 1) ELSE last + 1
=============================================================================
