---------------------------- MODULE Replication ----------------------------
(***************************************************************************)
(* A leader just elected and one follower, with the log each starts from,  *)
(* until the term ends: the catching up that Raft.tla leaves to chance.    *)
(* The third voter of their cluster has elected the leader and stopped, so *)
(* the two are the quorum.  Messages are lost and reordered until the      *)
(* network calms down; each is delivered at most once, for PeerTransport   *)
(* posts a message one time and does not retry.  Log and snapshot are one  *)
(* sequence here, the entries they stand for; those up to snapshot_index   *)
(* are there no more, and only the snapshot tells of them.                 *)
(***************************************************************************)
EXTENDS RaftLog

CONSTANTS
    Term,           \* the leader's term
    LeaderLogs,     \* the logs it may start with
    FollowerLogs,   \* the logs the follower may start with
    Snapshots,      \* the indices its log may be compacted to
    ParallelWrite,  \* Config.parallel_disk_write
    MaxLog,         \* bound: no proposal is made to a log this long
    MaxInFlight     \* MAX_IN_FLIGHT_PER_PEER, for both directions

ASSUME ReplicationAssumption ==
    /\ Term \in Nat \ {0} /\ MaxEntries \in Nat /\ MaxLog \in Nat
    /\ MaxInFlight \in Nat \ {0}
    /\ LeaderLogs \cup FollowerLogs \subseteq Seq(Entry)
    /\ Snapshots \subseteq Nat /\ ParallelWrite \in BOOLEAN

VARIABLES
    log,            \* the leader's
    snapshot_index, \* how far it is compacted; nothing is compacted while it leads
    disk,           \* how much of its log is on its disk
    written,        \* the leader's own match index
    next_index, match_index, commit_index,
    follower_log, follower_snapshot, follower_commit,
    messages,       \* under way, oldest first
    calm            \* from now on nothing is lost or overtaken

progress == <<written, next_index, match_index, commit_index>>
leader == <<log, snapshot_index, disk, progress>>
follower == <<follower_log, follower_snapshot, follower_commit>>
vars == <<leader, follower, messages, calm>>

\* Log::term_at of a log compacted to snap.
term_at(lg, snap, i) == IF i < snap THEN 0 ELSE TermAt(lg, i)

\* send_append_to: the request for the entries from next on.
Request(lg, next, ci) ==
    [type |-> "AppendRequest", prev |-> next - 1, prev_term |-> TermAt(lg, next - 1),
     entries |-> EntriesFrom(lg, next), commit |-> ci]

Response(success, last) ==
    [type |-> "AppendResponse", success |-> success, last |-> last]

\* The InstallSnapshotRequest that SendSnapshot asks the I/O layer for: the snapshot
\* stands for the entries it covers.
SnapshotRequest(lg) ==
    [type |-> "InstallSnapshotRequest", covers |-> SubSeq(lg, 1, snapshot_index)]

SnapshotResponse(success, last) ==
    [type |-> "InstallSnapshotResponse", success |-> success, last |-> last]

\* PeerTransport::send: a message that finds no free permit is dropped.
Post(ms, m) == IF Len(ms) < MaxInFlight THEN Append(ms, m) ELSE ms

\* The messages under way but the i-th.
Without(i) == SubSeq(messages, 1, i - 1) \o SubSeq(messages, i + 1, Len(messages))

\* send_append_to: entries that are compacted are sent as the snapshot, which does
\* not move next_index.
SendFrom(lg, next, ci, ms) ==
    IF next <= snapshot_index
    THEN messages' = Post(ms, SnapshotRequest(lg)) /\ next_index' = next
    ELSE /\ messages' = Post(ms, Request(lg, next, ci))
         /\ next_index' = NextAfterSend(lg, next)

\* maybe_commit: leader and follower are the quorum.
CommitIndex(lg, own, match) ==
    LET i == Lesser(own, Lesser(match, Len(lg)))
    IN  IF i > commit_index /\ TermAt(lg, i) = Term THEN i ELSE commit_index

\* Leader::new, with its first heartbeat.  With parallel_disk_write it waits to be
\* told even of what it has on disk.
Init ==
    /\ log \in LeaderLogs /\ follower_log \in FollowerLogs
    /\ snapshot_index \in {s \in Snapshots : s <= Len(log)} /\ follower_snapshot = 0
    /\ disk = Len(log)
    /\ written = (IF ParallelWrite THEN 0 ELSE Len(log))
    /\ next_index = Len(log) + 1 /\ match_index = 0
    /\ commit_index = 0 /\ follower_commit = 0
    /\ messages = <<Request(log, next_index, 0)>> /\ calm = FALSE

\* handle_tick of the leader past its heartbeat deadline.
Heartbeat ==
    /\ SendFrom(log, next_index, commit_index, messages)
    /\ UNCHANGED <<log, snapshot_index, disk, written, match_index, commit_index, follower>>

\* Leader::propose, with the maybe_commit that comes before the entry is sent.
Propose(c) ==
    /\ Len(log) < MaxLog
    /\ log' = Append(log, [term |-> Term, command |-> c])
    /\ disk' = IF ParallelWrite THEN disk ELSE Len(log')
    /\ written' = IF ParallelWrite THEN written ELSE Len(log')
    /\ commit_index' = CommitIndex(log', written', match_index)
    /\ SendFrom(log', next_index, commit_index', messages)
    /\ UNCHANGED <<snapshot_index, match_index, follower>>

\* handle_disk_write_complete: entries up to i have reached the leader's disk.
DiskWriteComplete(i) ==
    /\ i > written
    /\ disk' = Greater(disk, i) /\ written' = i
    /\ commit_index' = CommitIndex(log, i, match_index)
    /\ UNCHANGED <<log, snapshot_index, next_index, match_index, follower, messages>>

\* Mutant: a heartbeat without entries does not carry the commit index over.
FollowerAppendSilent(m, rest) ==
    LET ok == m.prev = 0 \/ term_at(follower_log, follower_snapshot, m.prev) = m.prev_term
        lg == IF ok THEN Merge(follower_log, m.prev, m.entries) ELSE follower_log
    IN
    /\ m.type = "AppendRequest"
    /\ follower_log' = lg
    /\ follower_commit' = IF ok /\ m.entries # <<>> /\ m.commit > follower_commit
                          THEN Lesser(m.commit, Len(lg)) ELSE follower_commit
    /\ messages' = Post(rest, Response(ok, Len(lg)))
    /\ UNCHANGED <<leader, follower_snapshot>>

\* Mutant: an overtaken heartbeat takes the commit index back.
FollowerAppendBackward(m, rest) ==
    LET ok == m.prev = 0 \/ term_at(follower_log, follower_snapshot, m.prev) = m.prev_term
        lg == IF ok THEN Merge(follower_log, m.prev, m.entries) ELSE follower_log
    IN
    /\ m.type = "AppendRequest"
    /\ follower_log' = lg
    /\ follower_commit' = IF ok THEN Lesser(m.commit, Len(lg)) ELSE follower_commit
    /\ messages' = Post(rest, Response(ok, Len(lg)))
    /\ UNCHANGED <<leader, follower_snapshot>>

\* Follower::handle_append_request.
FollowerAppend(m, rest) ==
    LET ok == m.prev = 0 \/ term_at(follower_log, follower_snapshot, m.prev) = m.prev_term
        lg == IF ok THEN Merge(follower_log, m.prev, m.entries) ELSE follower_log
    IN
    /\ m.type = "AppendRequest"
    /\ follower_log' = lg
    /\ follower_commit' = IF ok /\ m.commit > follower_commit
                          THEN Lesser(m.commit, Len(lg)) ELSE follower_commit
    /\ messages' = Post(rest, Response(ok, Len(lg)))
    /\ UNCHANGED <<leader, follower_snapshot>>

\* Mutant: every snapshot is installed, as new as it may be.
InstallableAny(s) == TRUE

\* handle_install_snapshot: a snapshot is refused if it is not newer than the last
\* one, or covers less than is committed and something else.
Installable(s) ==
    /\ Len(s) > follower_snapshot
    /\ Len(s) < follower_commit =>
          term_at(follower_log, follower_snapshot, Len(s)) = LastTerm(s)

\* Log::install_snapshot: what follows is kept if the log agrees with the snapshot
\* at its end.
WithSnapshot(s) ==
    IF Len(s) > follower_snapshot /\ term_at(follower_log, follower_snapshot, Len(s)) = LastTerm(s)
    THEN s \o SubSeq(follower_log, Len(s) + 1, Len(follower_log))
    ELSE s

\* Follower::handle_install_snapshot.
InstallSnapshot(m, rest) ==
    /\ m.type = "InstallSnapshotRequest"
    /\ \/ /\ Installable(m.covers)
          /\ follower_log' = WithSnapshot(m.covers)
          /\ follower_snapshot' = Len(m.covers)
          /\ follower_commit' = Greater(follower_commit, Len(m.covers))
       \/ ~ Installable(m.covers) /\ UNCHANGED follower
    /\ messages' = Post(rest, SnapshotResponse(Installable(m.covers), Len(m.covers)))
    /\ UNCHANGED leader

\* Leader::handle_append_response, success, and maybe_commit.
AppendAccepted(m, rest) ==
    /\ m.type = "AppendResponse" /\ m.success
    /\ match_index' = m.last
    /\ next_index' = IF Pipelining THEN next_index ELSE m.last + 1
    /\ commit_index' = CommitIndex(log, written, m.last)
    /\ messages' = rest
    /\ UNCHANGED <<log, snapshot_index, disk, written, follower>>

\* Leader::handle_append_response, failure: the request is sent again at once.
AppendRejected(m, rest) ==
    /\ m.type = "AppendResponse" /\ ~ m.success
    /\ SendFrom(log, NextAfterReject(m.last, match_index), commit_index, rest)
    /\ UNCHANGED <<log, snapshot_index, disk, written, match_index, commit_index, follower>>

\* Leader::handle_install_snapshot_response: a refusal, and what is known already,
\* change nothing.
SnapshotAnswered(m, rest) ==
    /\ m.type = "InstallSnapshotResponse"
    /\ IF m.success /\ m.last > match_index
       THEN /\ match_index' = m.last /\ next_index' = m.last + 1
            /\ commit_index' = CommitIndex(log, written, m.last)
       ELSE UNCHANGED <<match_index, next_index, commit_index>>
    /\ messages' = rest
    /\ UNCHANGED <<log, snapshot_index, disk, written, follower>>

\* Message i arrives.
Deliver(i) ==
    /\ calm => i = 1
    /\ \/ FollowerAppend(messages[i], Without(i))
       \/ AppendAccepted(messages[i], Without(i))
       \/ AppendRejected(messages[i], Without(i))
       \/ InstallSnapshot(messages[i], Without(i))
       \/ SnapshotAnswered(messages[i], Without(i))
    /\ UNCHANGED calm

\* The connection fails or times out.
Lose(i) ==
    /\ ~ calm
    /\ messages' = Without(i)
    /\ UNCHANGED <<leader, follower, calm>>

\* The network recovers.
CalmDown ==
    /\ calm' = TRUE
    /\ UNCHANGED <<leader, follower, messages>>

Next ==
    \/ Heartbeat /\ UNCHANGED calm
    \/ \E c \in Command : Propose(c) /\ UNCHANGED calm
    \/ \E i \in DOMAIN log : DiskWriteComplete(i) /\ UNCHANGED calm
    \/ \E i \in DOMAIN messages : Deliver(i) \/ Lose(i)
    \/ CalmDown

\* The leader keeps beating (RaftRuntime::run ticks for ever), what it writes gets to
\* its disk, messages arrive, and the network does not stay faulty for ever.
Fairness ==
    /\ WF_vars(Heartbeat /\ UNCHANGED calm)
    /\ WF_vars(DiskWriteComplete(Len(log)) /\ UNCHANGED calm)
    /\ WF_vars(\E i \in DOMAIN messages : Deliver(i))
    /\ WF_vars(CalmDown)

Spec == Init /\ [][Next]_vars /\ Fairness

-----------------------------------------------------------------------------
CaughtUp == follower_log = log /\ match_index = Len(log)

\* The answer to a snapshot was lost: the leader goes on sending it, for it is where
\* next_index is, and the follower goes on refusing it, for it is not newer.
Refused == next_index <= snapshot_index /\ snapshot_index <= follower_snapshot

\* A follower ends up holding the leader's log, and the leader ends up knowing it,
\* whatever is lost on the way but the answer to a snapshot.
Converges == <>[](CaughtUp \/ Refused)

\* What the leader proposed in its term is committed on both sides in the end.
CommitSpreads ==
    (LastTerm(log) = Term) ~>
        (Refused \/ (follower_commit = Len(log) /\ commit_index = Len(log)))

\* The leader counts the follower for an index only if it holds the leader's
\* entries up to it, and commits only what both have on disk, also when its own disk
\* is slower than the follower (handle_disk_write_complete).
MatchIsTrue ==
    LET i == Greater(match_index, commit_index) IN
    /\ i <= Len(log) /\ i <= Len(follower_log)
    /\ SubSeq(follower_log, 1, i) = SubSeq(log, 1, i)
    /\ commit_index <= disk

\* Nothing that the follower knows to be committed is taken from it, by a snapshot or
\* by an append, and it never unlearns that it is committed.
CommittedKept ==
    [][/\ follower_commit' >= follower_commit
       /\ SubSeq(follower_log', 1, follower_commit) = SubSeq(follower_log, 1, follower_commit)]_vars
=============================================================================
