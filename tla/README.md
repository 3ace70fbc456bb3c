# BasisDB in TLA+

BasisDB is a replicated key-value store. Its heart is a deterministic Raft
automaton (`consensus/basisdb-raft`): a `RaftNode` takes one event at a time
and returns the effects its driver must carry out. `basisdb-node` drives it: it
saves the persistent state to a write-ahead log (`basisdb-wal`), posts the
messages to the peers over HTTP, applies committed commands to a session-checked
key-value state machine, and answers the clients that wait for them. This
directory models those parts in TLA+, with the parts of the Raft library that the
node does not use yet (membership changes, snapshots, leader reads, parallel disk
writes, the session tracker) and the record panel of the web console, checks them
with TLC on small instances, and proves the results that matter most with TLAPS for
every instance.

Paths below are relative to `src/`; `raft/` stands for
`consensus/basisdb-raft/src/raft/`.

## The system

| part | source | state | operations that change it |
|---|---|---|---|
| Raft core | `raft/{mod,core,log,follower,precandidate,candidate,leader,event}.rs` | term, vote, log; role and its data; progress per peer; commit index; applied index | `tick`, `step(message)`, `propose`, `transfer_leadership`, `restore` |
| Persistent store | `basisdb-node/src/store.rs` | the last state saved | `save` (writes a delta), `recover` (replays them) |
| Write-ahead log | `basisdb-wal/src/{wal,segment,format}.rs` | segment files, active segment, lengths, poisoned | `open`, `append` (with rotation), `sync` |
| Key-value machine | `basisdb-node/src/command.rs` | entries, generation counter, client counter, sessions | `RegisterSession`, `Mutate` (put, delete), `ReadBarrier` |
| Runtime | `basisdb-node/src/runtime.rs` | the machine behind a mutex, the state, `failed`, the map of waiters | `run`, `tick_once`, `step`, `propose`, `read_barrier`, `handle_effects`, `apply_committed` |
| KV service | `basisdb-node/src/service.rs` | none of its own | `register_session`, `put`, `delete`, `get`, `head`, `list` |
| Peer transport | `basisdb-node/src/transport.rs` | permits per peer | `send`, `receive_raft` |
| Membership | `raft/membership.rs` and the configuration entries of the core | the configurations in the log | `propose_config_change`, completion of a joint one, step-down and automatic transfer |
| Snapshots | `InstallSnapshot` in the core, `Log::install_snapshot` | snapshot index | send, install, answer |
| Leader reads | `ReadIndex` in `raft/leader.rs`, `consensus/basisdb-raft-io/src/read_index.rs` | the pending read, the confirmed index | request, acknowledge |
| Session tracker | `consensus/basisdb-raft-io/src/session.rs` | sessions | `register_client`, `check_duplicate`, `record_completion`, `expire_session` |
| Console | `console/src/{RecordPanel,App}.tsx`, `draft.ts`, `writes.ts` | the panel, its draft, the writer's session and number | open, edit, reload, save, retry, leave |
| Browse, authentication, configuration, command line, core utilities, protocol definitions, engine stub, Jepsen tests | see `components` in PROJECT.json | none that interleaves | |

How they interact. A call (`tick_once`, `receive_raft`, `propose`) takes the
machine's mutex, steps the node, and hands the effects to `handle_effects`,
which saves first if the step asked for it, then sends, then applies what is
committed. A proposal leaves a waiter under its log index; applying the entry
at that index completes it. A read proposes a `ReadBarrier` entry and reads the
state once the barrier is applied. After a restart the node is rebuilt from the
WAL: the log comes back, the commit index and the key-value state do not and
are built again as the leader's commit index arrives.

What makes it hard, and where the hazards in PROJECT.json come from:

* nodes that time out, vote, crash and answer late, over a network that loses,
  repeats and reorders;
* the save between a step and its messages, which can fail or be cut by a crash;
* progress reports that arrive out of order, or describe a log that is not the
  leader's;
* a deposed leader that still believes it leads, with clients waiting at it;
* futures that are dropped at an await while they work on behalf of others;
* timeouts of clients that race the completion of what they asked for, and their
  retries;
* segments, lengths and counters at their limits, and files that a crash cuts;
* nodes that disagree on who votes, because a configuration is in force as soon as
  it is in a log and no longer once it is cut off;
* a panel that is closed while its call is under way, and drafts that the record
  moves away from.

## Modules

| module | models | source |
|---|---|---|
| `RaftLog` | pure operations on a log: consistency check, merge, slice to send, next index after a send or a rejection | `raft/log.rs`, parts of `follower.rs`, `leader.rs` |
| `RaftStore` | the delta a save writes and what recovery makes of it | `store.rs` |
| `Raft` | a cluster of voters: every handler of every role, crash and recovery | the Raft core |
| `Replication` | a leader and one follower in one term: entries, snapshots, parallel disk writes, with liveness | `leader.rs`, `follower.rs`, `log.rs`, `transport.rs` |
| `Configurations` | quorums, validation and result of a configuration change | `membership.rs` |
| `Membership` | a cluster that changes its configuration, and the reads its leaders confirm | `core.rs`, `leader.rs`, `candidate.rs`, `follower.rs` |
| `Driver` | the calls of one runtime at its mutex | `runtime.rs` |
| `Runtime` | proposals, waiters and reads of clients across nodes, over what consensus promises | `runtime.rs`, `service.rs` |
| `Kv` | the key-value state machine | `command.rs` |
| `Sessions` | the library's session tracker beside `Kv` | `session.rs` |
| `Console` | the record panel and its writer, over `Sessions` and so over `Kv` | `RecordPanel.tsx`, `App.tsx`, `draft.ts`, `writes.ts`, parts of `service.rs` |
| `Wal` | the write-ahead log and the file system under it | `basisdb-wal` |
| `DurableLog` | what the write-ahead log promises, which `Wal` implements | |
| `MC*` | the instances TLC checks | |
| `RaftLogProofs`, `RaftStoreProofs`, `RaftProofs`, `RaftElectionProofs`, `ConfigurationProofs`, `DriverProofs`, `KvProofs`, `KvHistoryProofs` | theorems | |

How they are composed. `Raft` extends `RaftStore`, which extends `RaftLog`;
`Replication` extends `RaftLog` and uses the same operators, so that what is proved
or mutated there is what both use. `Membership` extends `Configurations`. `Console`
extends `Sessions`, which extends `Kv`: panel, tracker and state machine run
together. `Wal` instantiates `DurableLog`. `Runtime` does not instantiate `Raft`: it
assumes what the core is meant to give (a sequence of chosen entries that every
leader elected later holds). Where the core fails to give it (see `commit_flaw`) the
results about `Runtime` are about the runtime alone.

### Raft

One variable per field, as functions of the node: `term`, `voted_for`, `log`
(the persistent state) and `durable` (what is on disk); `role`, `leader`,
`contact` (has a leader been heard from within the minimum election timeout);
`votes`; `next_index`, `match_index`; `commit_index` and `applied`; and
`messages`, the set of messages under way. An action is one call of `tick`,
`step`, `propose` or `transfer_leadership` with its whole effect: the
transition, the messages, the save, and the entries handed to the state machine.

* Time is abstracted: a timeout may fire whenever the role allows it. The guard
  that refuses votes shortly after a leader was heard from is the Boolean
  `contact`: a vote may be refused when it holds, and never has to be.
* A message stays in `messages` after delivery, so it may be delivered again;
  `Lose` removes it. This is more than the deployed transport does, which posts
  a message once; the core is written for any transport.
* `Restart` reads the node from `durable` and forgets the rest.
* The configuration is fixed, as it is in the deployed node. Configuration entries,
  learners and `ReadIndex` are the subject of `Membership`, snapshots and parallel
  disk writes that of `Replication`.
* `Campaigners`, `Crashers`, `MaxTerm`, `MaxLog` and `MaxInFlight` bound what TLC
  explores. They stand in guards, so the theorems hold for every value of them,
  and so for every number of terms, entries and messages.

### Replication

A leader just elected and one follower, with the two logs they start from. The
network loses and reorders until it becomes `calm`. Messages are a sequence and
are delivered once, as `PeerTransport` posts them; one that finds no permit is
dropped (`Post`). `next_index` moves with every send when pipelining is on.

The leader may have compacted its log up to `snapshot_index`: `send_append_to` then
sends the snapshot instead of entries, and `handle_install_snapshot` decides whether
the follower takes it and what of its log it keeps. Log and snapshot are one sequence
in the model, the entries they stand for; `term_at` answers 0 below the snapshot as
`Log::term_at` does. With `parallel_disk_write` the leader counts itself only for
what `DiskWriteComplete` reported (`written`), and a report may cover several entries at
once; `disk` is how much of its log really is on its disk. `Propose` tries to commit
before it sends, as `Leader::propose` does.

### Configurations and Membership

`Configurations` writes a simple configuration as a joint one whose two voter sets
are equal, so that `has_quorum`, `voters` and `transition_target` each have one
definition; `apply` makes a joint configuration only when the voter sets differ, as
the code does, so nothing is confused by it.

`Membership` has one record per node. The configuration of a node is the last one of
its log (`effective_config`), so cutting the log takes a configuration back without
another action. A request and its answer are one step: a lost message is a step not
taken, and what late and repeated messages do is examined in `Raft`. `Commit` is
`maybe_commit` with everything it does: the commit index, the entry that completes a
joint configuration, and, if a committed configuration is without the leader, the
step-down with the `TimeoutNow` to a voter that holds the whole log.

`RequestRead` and `AnswerRead` are `request_read_index` and the acknowledgements,
counted against the configuration the read started under.

`gaps` is a history variable. It records three things the code does and Raft's
arguments exclude (they are described under Observations): a change proposed before
an entry of the leader's own term is committed, a configuration that decides although
a later one has replaced it, and an acknowledgement that counts a stale tail. The
constraint `Orderly` stops a behaviour at the first of them. Every property of
`Membership` speaks of behaviours up to there and says nothing of what follows: the
hazards of an early change and of a late decision are listed without a property.

### Driver

`memory` counts the changes to the persistent state, `stored` those on disk,
`sent` those the last messages were based on. A call is `idle`, `queued` at the
mutex, or `applying`. `Step` is the step of the node with its save and its
sends: between them nothing else can run, for the mutex is held and there is no
await. `Apply` is one turn of the loop in `apply_committed`, from one await to
the next, and `Cancel` drops a request at any of its awaits. A call that fails makes
`run()` return (`Stop`), and makes every later call return at once (`Enter`). A send fails only
for a peer that is not in the configuration, which is fixed and checked by
`open`, so `SaveFails` is the only way a call fails.

### Runtime

`chosen` is what a majority stores. `Elect` makes a node that holds it a leader;
the one before goes on in `leading` until it hears of the new term. `task` is
the request of a client from `propose` to its answer; `waiters` the map from
indices to pending proposals. An entry is its bytes: a mutation names its client,
a read barrier is the same bytes whoever asks. Terms are left out, so `Merged` lets an
append cut a log that begins with the same bytes too, as the follower does when it has
them from another term, except where it has applied them.

### Kv

`entries`, `next_generation`, `next_client_id` and `sessions` as in `KvState`,
with `executed`, the history of what was executed and not answered from a
session's cache. An ETag is the generation it is made from (`etag_for` is
injective). The counters stop at `MaxU64`, as `checked_add` does. `LastChange` and
`LiveBefore` read off the history what the store should hold; the properties compare.

### Sessions

The `SessionTracker` is told of every registration and of every mutation that
`KvState` carried out, in the same step, and may forget a client (`expire_session`).
`TrackerAgrees` compares the two verdicts for every mutation there is.

### Console

`panel` is the component's state: mode, draft, operation and whether the last one was
refused; `cache` what the last `get` returned, which survives the panel; `writer` the
session and the number of the last operation; `call` the operation being executed.
A call the panel made stays in `sent` and may be committed at any later time, again
and again, also after its answer was given up and the panel closed. `origin` is the
record the text of the draft was taken from; it is history and decides nothing. The
panel is told what `Kv` answers, or that the node does not lead or is full, or
nothing. The run starts with one of two worlds: clients alone, without a bound on
what they do, or the console (`Register`) beside clients that write without
conditions.

### Wal

A segment is the records it holds, how many of them are stable, whether its name
is, and what follows the last record: nothing, a part of a record, or bytes that
are no record. `append` is split at its system calls. `Kill` leaves what was
written to the operating system; `PowerFailure` leaves any part of what is not
stable. Checksums are abstracted to the kind of the tail. A write that fails leaves a
part of the record, or nothing of it. A kill while a new segment has no stable name
(`HalfRotated`: inside a rotation, or after its `sync_dir` failed) is apart from the
others, as `"rotation"`.

`DurableLog` is the log its caller sees: records that only grow while the process
runs, of which a kill takes nothing that was appended and a power failure nothing
that a sync covered. `Implements` maps `Wal` to it: the log is what `append`
acknowledged while the handle is open, and what the files hold while it is not.

## Runs

Every run finishes with two workers in less than four minutes.

| run | instance | checks | states |
|---|---|---|---|
| `election` | 3 nodes, all campaign and crash; pre-vote and transfers; 2 terms, 3 messages | `TypeOK`, `ElectionSafety`, `PersistedBeforeSend`, `OneVotePerTerm` | 324,414 |
| `replication` | 2 campaigners of 3 nodes, 2 terms, 2 entries, 3 messages | `LogMatching`, `LeaderHoldsItsTerm`, `AppliedOnQuorum`, `DeltaExact` | 827,115 |
| `commit_flaw` | 2 campaigners, 3 terms, 1 entry per log | `LeaderCompleteness`: violated | |
| `catchup` | the follower's log is a prefix of the leader's, which is whole or compacted; pipelining as deployed, parallel disk writes | `MatchIsTrue`, `CommittedKept`, `Converges`, `CommitSpreads` | 63,826 |
| `diverged` | the follower's last entry differs | `Converges`: violated | 548 |
| `membership` | voters `{n1, n2}`, spare `n3`; six changes, simple and joint; 2 terms, 3 entries, 2 reads, `n2` restarts | `TypeOK`, `ElectionSafety`, `LeaderCompleteness`, `ChangesOverlap`, `HeirFit`, `ReadsCoverCommitted`, `RemovedStayOut` | 230,111 |
| `turns` | the tick and 2 requests, 3 changes | `AppliedInOrder`, `SavedWhileHealthy`, `EventuallyApplied`, `FailureComesToRest` | 2,662 |
| `requests` | 2 nodes, 2 writers, 1 reader, 2 entries | `WaitersAttended`, `AcknowledgedIsChosen`, `ReadsCurrent` | 404,421 |
| `reads` | 2 nodes, 1 writer, 2 readers | `ReadsCurrent`: violated | |
| `kv` | 1 name, 2 bodies, 2 clients, 2 sequence numbers, counters up to 3; the tracker; the console | `TypeOK`, `AtMostOnce`, `RepliesAreTrue`, `CompareAndSwap`, `EntriesMatchHistory`, `TrackerAgrees`, `SavesWhatWasSeen`, `GivenUpIsFinal`, `NumbersNameOneRequest` | 199,457 |
| `wal` | records of 1 and 2 units, segments of 3, log of 7; kills, power failures, every call may fail | `TypeOK`, `SyncedSurvive`, `Reopens`, `OldSegmentsStable`, `Implements` | 14,350 |
| `wal_rotation` | the same with a kill inside a rotation | `SyncedSurvive`: violated | |

What the properties say that is easy to miss:

* `AppliedOnQuorum` speaks of the states in which all entries are of one term, a
  second leader elected or not. Across terms it does not hold (`commit_flaw`).
* The properties of `membership` are about the time before the first gap (see above).
  `RemovedStayOut` asks in addition that no log goes beyond the committed configuration,
  and leaves out elections for a term that is past.
* `FailureComesToRest` says that the calls which had passed `ensure_healthy` when a save
  failed are the last ones. What they send until then may be based on state that is not
  saved; `SavedWhileHealthy` ends with the failure.
* `Reopens` names the two ways in which a log can refuse to open: bytes that a power
  failure spoiled, and a record cut short in a segment whose successor a failed
  `sync_dir` left behind.
* `MatchIsTrue` and `CommittedKept` hold whatever is lost or overtaken; `Converges`
  and `CommitSpreads` hold but for `Refused`: the answer to an installed snapshot was
  lost, and the follower refuses the same snapshot for the rest of the term.
* `ChangesOverlap` quantifies over every split of the nodes, so it is about quorums
  that could form, not only those that did.
* `ReadsCoverCommitted` leaves out a read whose index had been confirmed for an
  earlier read (`held`), which the code calls ready at once.
* `SavesWhatWasSeen` and `GivenUpIsFinal` are about late copies: a save that arrives
  after the panel moved on replaces only the record it was made from, and what the
  panel lets the user send anew under another number has no effect any more.

Why the bounds are enough for what is asked:

* Three nodes are the smallest cluster in which two quorums differ. Two terms let
  two leaders meet, three let a third find what the first two left; two entries
  let logs agree, conflict and be cut. `max_entries_per_msg` is 1, so that a
  message can carry less than a whole log (the code sends one more than the
  limit, and so does the model). Three messages at a time are enough for a late
  or repeated message to cross a new one.
* `Replication` starts from every prefix of the leader's log, and lets up to
  three messages be lost or overtaken in every order. The leader's log is compacted
  whole or not at all, and one more entry can be proposed after it, so a snapshot
  meets followers that hold nothing, a part and all of what it covers.
* In `Membership` two voters and a node that is none are enough for a learner to be
  promoted, for the leader to be removed, and for a joint configuration whose halves
  share one node (`{n1, n2}` to `{n2, n3}`) or none (`{n1, n2}` to `{n3}`). Three entries
  hold a joint configuration, its completion and a command or another change.
* Two nodes are enough in `Runtime`, where a majority is not counted but given:
  one is elected while the other goes on believing it leads.
* In `Kv` one name suffices, for names do not interact; two clients with two
  sequence numbers give retries, skipped and reused numbers; a counter of three is
  used up after two puts, and the next is refused. The console's session has two
  operations, so that the second can meet late copies of the first. Only client 2 may
  be expired in the tracker: to the tracker clients differ by name alone.
* In `Wal` a segment holds one record of each size or three short ones, and the
  log three segments, so rotations happen with a record that fits exactly and with
  one that does not, and an old segment has an older one before it.

Deadlock is checked in `turns`, `kv`, `wal` and `catchup`. It is not in the
cluster runs, in `membership` and in `requests`: with every node at the term and log
bounds, and every client answered, nothing is left to do. Symmetry is used among
nodes with the same bounds, among writers and among bodies, and never in a run with a
liveness property.

Fairness. `Driver`: `run()` calls `tick_once` until one fails, tokio's mutex is
handed over in order of arrival, and a call that holds it goes on unless it is dropped,
so `Enter(Tick)`, `Stop` and the steps of each holder are weakly fair; requests need
not come. `Replication`: the leader's heartbeat is weakly fair (it is driven by the
tick), what it writes reaches its disk, the network delivers, and it becomes calm
in the end. Nothing is assumed
about a network that stays faulty. No other module has a liveness property.

### What the violated properties show

* `commit_flaw` (`raft/leader.rs:424`). A follower acknowledges with its own last
  index, whatever the request covered, and the leader takes it as `match_index`.
  A tail of an earlier term on the follower then counts as a copy of the leader's
  entries: the leader commits an entry that its followers do not hold, and the
  next leader lacks it. Where no such tail exists, while all entries are of one term,
  `replication` shows that what is applied is on a quorum.
* `diverged` (`raft/leader.rs:440`). A rejection moves `next_index` to the
  follower's last index + 1. If the follower's log is as long as the leader's and
  differs at its end, the same request is sent and refused for ever.
* `reads` (`basisdb-node/src/runtime.rs:66`). A waiter is recognised by index and
  bytes. All read barriers have the same bytes, so the barrier of a read at a
  deposed leader is completed by another read's barrier at the same index, before
  the deposed leader has what was acknowledged in between. With one reader
  (`requests`) the read is current.
* `wal_rotation` (`basisdb-wal/src/segment.rs:12`). If the process dies after it
  created a segment and before it synced the directory, recovery goes on in that
  segment without syncing its name, and a power failure may take it with every
  record synced into it. While every segment has a stable name a kill is harmless (`wal`).

## Observations

Smaller disagreements met while reading, which the models reproduce but no run
is spent on:

* `RegisterSession` entries have the same bytes too, so the `reads` scenario
  gives two clients one client id.
* `step`, `tick_once` and `propose` check `failed` before they wait for the mutex
  and not after (`runtime.rs:137`): calls that were queued when a save failed go
  on, and a step that changes nothing sends. Hence `SavedWhileHealthy` speaks of
  a runtime that has not failed.
* `Wal::open` hands out records that a killed process wrote and never synced,
  without syncing them (`segment.rs:24`); a power failure may still lose them.
* If `sync_dir` fails in a rotation, the handle is not poisoned and stays on the
  old segment, with an empty one behind it (`wal.rs:184`); a record cut in the
  old segment then makes the log refuse to open. The run `wal` has this failure
  among its faults, and `Reopens` names the outcome as an exception.
* `send_append_to` sends `max_entries_per_msg` + 1 entries (`leader.rs:733`).
* A late success lowers `match_index` (`leader.rs:424`).
* A follower that adopts a term from a candidate keeps the leader of the term
  before as its hint (`follower.rs:78`).
* A candidate that times out campaigns again without a pre-vote
  (`candidate.rs:152`).
* A new leader may propose a configuration change before an entry of its own term is
  committed. With four voters in single-server mode, two leaders that each remove a
  different node this way end up with quorums that do not meet; on that instance
  `LeaderCompleteness` of `Membership` fails. The run `membership` ends a behaviour
  at the proposal (`"early change"`), so none of its properties covers what follows.
* A leader that finds a joint configuration already committed when it is elected
  never appends the configuration that completes it, for `process_committed_configs`
  looks at newly committed entries only; every later change is answered with
  `ChangeInProgress`.
* After a restart the commit index is 0, and a leader that commits again walks over
  old configurations: it completes a joint one again, or steps down because of one that
  leaves it out, although the log has gone on (`"late decision"`).
* A commit index can exceed the log, through the acknowledgement of a stale tail
  (`commit_flaw`), against the assertion at `core.rs:235`.
* With nothing committed in its term a leader refuses proposals once
  `max_uncommitted_entries` are uncommitted (`core.rs:233`). After a restart of all
  nodes the commit index is 0 and leaders append no entry of their own, so a log at
  least that long refuses every proposal, and nothing else can raise the index.
* `read_index_ready` compares the index of a read with the highest index confirmed so
  far, so a second read at a confirmed index is ready before anyone is asked
  (`leader.rs:62` describes a confirmation for each); `can_serve_reads` likewise.
* `ReadIndexCoordinator::record_ack` does not say which round an acknowledgement
  belongs to, and `request_read` joins a round that has begun; a caller has to see to
  both.
* If the answer to an installed snapshot is lost the follower refuses the snapshot
  from then on, and the leader goes on sending it (`Refused` in `Replication`).
* The comment on `SetMembers` says it is only valid in joint mode; `validate` accepts
  it in single-server mode when at most one voter changes.
* To the `SessionTracker` an expired client is new, so its retry is carried out a
  second time; a number that is used again for another request gets the first one's
  answer; its counter is not checked for overflow. `KvState` differs in all three.
* `onSaved` of a call whose panel was left closes whichever panel is open then
  (`Saved` in `Console`). The buttons Delete and Retry send the operation that is
  held again, whichever of them made it. A failure that is neither a refusal nor an
  invalid argument leaves the panel locked to Retry and Close.

## Proofs

What is proved holds for every finite set of servers, every command set, with or
without pre-vote, pipelining and transfers, and for every value of the bounds.
The only assumptions are `ServerAssumption` (the servers are finitely many and
`Nil` is not one), `ConfigAssumption` (the types of the options),
`DriverAssumption` and `KvAssumption` (client ids and sequence numbers are positive,
which `KvState` checks, and `MaxU64` is not 0); TLC evaluates them in the runs.

* `RaftProofs!TypeCorrect`: `Spec => []TypeOK`. `TypeOK` is not inductive by
  itself. `send_append_to` may send a request whose previous index lies beyond
  the leader's log, with term 0; a follower may find it consistent, and merging
  entries there would leave a gap. `AppendShape` says that such a request is
  empty. `ElectedLater` says that candidates and leaders have a term above 0, so
  that entries do. `TypeInv` is the three together.
* `RaftElectionProofs!ElectionsSafe`: `Spec => []ElectionSafety`, with
  `Persistence` (`PersistedBeforeSend`) and `VotesKept` (`OneVotePerTerm`) on the
  way. The strengthening is `ElectionInv`: a vote of `q` for `c` in term `t`
  leaves a trace in the voter (`Cast`), in the network (`Granted`) or at the
  candidate (`Counted`); all traces of one voter and term name one candidate
  (`VotesAgree`); a leader has counted a quorum (`LeadersElected`); whoever sent
  an AppendRequest was elected for good by a quorum that can no longer vote for
  another (`AppendsElected`, `OneSender`), which is needed once the leader itself
  has moved on. Every action is first shown to be an `ElectionStep`, a short
  relation that says all an action may do to votes and to the messages of
  leaders; `ElectionStepKeeps` then proves the invariant once for all of them.
  Quorums meet because they are majorities (`QuorumsMeet`).
* `RaftStoreProofs!SaveIsExact`: if two logs match (where their terms agree, so
  do they up to there), the delta written by `save` is accepted by `apply_delta`
  and rebuilds exactly the state saved. Without the hypothesis it is false, since
  `common_prefix` compares terms only. The run `replication` checks `DeltaExact`,
  the same statement about the saves of a cluster, where log matching provides
  the hypothesis.
* `DriverProofs!DriverAppliesInOrder` and `DriverSavesFirst`: for any number of
  callers, entries are applied once and in order, and until a save fails nothing
  is sent that is not on disk. The strengthening `DriverInv` adds that a runtime
  that has not failed has `stored = memory`.
* `ConfigurationProofs`: for finite sets of any size, two quorums of one
  configuration meet (`QuorumsMeet`), a quorum of a joint configuration meets those of
  the configuration it leads to (`TransitionOverlaps`), and whatever `validate`
  accepts, in either mode, leads to a configuration whose quorums meet those of the
  one before (`ChangeOverlaps`) and which has voters, none of them a learner
  (`ChangeKeepsWellFormed`). All rest on `NeighboursMeet`: majorities of two sets that
  differ in one node share a node, by counting. `ChangesOverlap` of the run is the
  same about the logs of a cluster.
* `KvProofs`: `Spec => []AtMostOnce` and `Spec => []RepliesAreTrue`, for any names,
  values, clients and numbers, and any length of the log. `AtMostOnce` is not
  inductive: that a new number is above every number carried out before has to be
  read off the session, which `Numbered` says; that no registration resets a session
  needs `IdsBelow`; and `Remembered` ties what a session caches to the history. The
  step is proved once for `Settle` (`SettleKeeps`) and used by the three ways a
  mutation ends; `NewIsLater` says what `cached_mutation` lets through.
* `KvHistoryProofs`: `Spec => []EntriesMatchHistory` and `Spec => []CompareAndSwap`.
  The strengthening `HistoryInv` adds that generations are given out once and in
  order (`Generations`), that ETags follow them (`EtagsFollow`), and that
  `LastChange` stays a position of the history (`Bounded`), which stands in for the
  induction that the largest element of a finite set would need. A mutation that
  passes `Precondition` is then compared with the history before it (`NewSwap`), and
  a longer history leaves what was said of its positions alone (`SwapsKept`).
* `RaftLogProofs` holds the lemmas on the log operations.

Only model-checked: liveness (`Converges`, `CommitSpreads`, `EventuallyApplied`,
`FailureComesToRest`), since the prover does not reason about fairness and `ENABLED`; log matching and
what depends on it; `Membership` beyond its quorums; `Sessions`, `Console`,
`Runtime`, `Replication` and `Wal` with its refinement of `DurableLog`.

## What is not modelled

* `ReadIndexCoordinator`: nothing in the repository calls it, and what it guarantees
  depends on a caller (see Observations).
* How a snapshot is taken, streamed and saved: the runtime and the store refuse
  snapshots, so there is no such code; `Log::compact` only gives `Replication` the
  logs it starts from.
* Browse: paging over the names of one state, a pure function.
* Authentication (an HMAC over bytes), configuration values, the command line, core
  utilities, generated code, the engine stub and the Jepsen tests have no state that
  interleaves.
* Of the console the lists, the node view and the value encodings.
* Lengths of names and bodies, encodings and gRPC status codes, except where the
  console tells answers apart by them: a request refused for its length changes
  nothing. The lock file of the WAL: one process opens a directory. The byte limit of
  uncommitted proposals: the limit in entries stands for both.
* Ticks as numbers: a deadline passes whenever the role allows it.

## What would come next

1. Proofs of `LogMatching` and `LeaderHoldsItsTerm` for `Raft`, which discharge the
   hypothesis of `SaveIsExact`, and of `WaitersAttended` for `Runtime`.
2. An abstract replicated log, which `Raft` implements while no tail of an earlier
   term is acknowledged, in place of what `Runtime` assumes.
3. The runtime's use of snapshots and of `ReadIndex`, once the node has it.
