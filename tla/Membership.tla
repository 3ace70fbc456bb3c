----------------------------- MODULE Membership -----------------------------
(***************************************************************************)
(* A cluster whose configuration changes through its own log, and the      *)
(* reads its leaders confirm.  A request and its answer are one step here: *)
(* a message that is lost is a step not taken, and late and repeated ones  *)
(* are the subject of Raft.  A configuration is in force on a node as soon *)
(* as it is in its log, and no longer once it is cut off.                  *)
(***************************************************************************)
EXTENDS Configurations, Naturals, Sequences, FiniteSetsExt

CONSTANTS
    Bootstrap,      \* the voters of the bootstrap configuration
    Mode,           \* Config.membership_mode, the same on all nodes
    Change,         \* the changes an operator may ask for
    Crashers,       \* the nodes that may stop and start again
    Nil,            \* no node
    MaxTerm,        \* bound: no node campaigns beyond this term
    MaxLog,         \* bound: nothing is proposed to a log this long
    MaxReads        \* bound: this many reads are asked for

ASSUME MembershipAssumption ==
    /\ Bootstrap \subseteq Server /\ Bootstrap # {} /\ Nil \notin Server
    /\ IsFiniteSet(Server) /\ Mode \in {"SingleServer", "JointConsensus"}
    /\ Change \subseteq ConfigChange
    /\ {MaxTerm, MaxLog, MaxReads} \subseteq Nat

VARIABLES
    node,           \* RaftNode: persistent and volatile state of each node
    timeout_now,    \* the TimeoutNow messages under way
    reads,          \* history: the reads asked for, and what was committed then
    committed,      \* history: the longest log a leader ever knew to be committed
    gaps            \* history: what happened that the rules of Raft exclude

vars == <<node, timeout_now, reads, committed, gaps>>

-----------------------------------------------------------------------------
\* An entry is a command, of which only that it is none matters, or a configuration.
Command == [old |-> {}, new |-> {}, learners |-> {}]

Entry == [term : Nat \ {0}, payload : Configuration]

is_config(e) == e.payload # Command

ConfigIndices(lg) == {i \in DOMAIN lg : is_config(lg[i])}

LastConfig(lg) == IF ConfigIndices(lg) = {} THEN 0 ELSE Max(ConfigIndices(lg))

\* effective_config: the latest configuration of the log, committed or not.
effective_config(lg) ==
    IF LastConfig(lg) = 0 THEN simple_with_learners(Bootstrap, {})
    ELSE lg[LastConfig(lg)].payload

\* has_pending_config: is there a configuration above the commit index?
has_pending_config(lg, ci) == LastConfig(lg) > ci

TermAt(lg, i) == IF i \in DOMAIN lg THEN lg[i].term ELSE 0

log_is_up_to_date(lg, lterm, index) ==
    \/ lterm > TermAt(lg, Len(lg))
    \/ lterm = TermAt(lg, Len(lg)) /\ index >= Len(lg)

\* The append loop of handle_append_request.
Merge(lg, prev, es) ==
    LET fresh == {k \in DOMAIN es : TermAt(lg, prev + k) # es[k].term}
    IN  IF fresh = {} THEN lg
        ELSE SubSeq(lg, 1, prev + Min(fresh) - 1) \o SubSeq(es, Min(fresh), Len(es))

\* How much of its beginning lg shares with the leader's log.
Shared(lg, llg) ==
    Max({i \in 0..Len(lg) : i <= Len(llg) /\ SubSeq(lg, 1, i) = SubSeq(llg, 1, i)})

-----------------------------------------------------------------------------
NoProgress == [v \in Server |-> 0]

\* PendingReadIndex, or none.  No two reads are pending at once, and the answers to
\* one never reach another, so it needs no id.
Pending == [index : Nat, config : Configuration, acks : SUBSET Server]

NoRead == [index |-> 0, config |-> Command, acks |-> {}]

\* Core and role of a node in one record: votes are a candidate's, match, pending
\* and confirmed a leader's.
Node == [term : Nat, voted_for : Server \cup {Nil}, log : Seq(Entry),
         role : {"Follower", "Candidate", "Leader"}, votes : SUBSET Server,
         match : [Server -> Nat], pending : Pending, confirmed : Nat, commit : Nat]

Config(x) == effective_config(x.log)

\* Follower::new after maybe_update_term(t).
AsFollower(x, t) ==
    [x EXCEPT !.term = t, !.voted_for = IF t > x.term THEN Nil ELSE @,
              !.role = "Follower", !.votes = {}, !.match = NoProgress,
              !.pending = NoRead, !.confirmed = 0]

\* A candidate with the votes vs; Leader::new once they are a quorum.
WithVotes(x, n, vs) ==
    IF has_quorum(Config(x), vs)
    THEN [x EXCEPT !.role = "Leader", !.votes = {},
                   !.match = [NoProgress EXCEPT ![n] = Len(x.log)]]
    ELSE [x EXCEPT !.role = "Candidate", !.votes = vs]

\* Candidate::new: a node outside its own configuration may campaign, but has no
\* vote.
AsCandidate(x, n, t) ==
    LET own == {n} \cap voters(Config(x))
    IN  WithVotes([x EXCEPT !.term = t, !.voted_for = IF own = {} THEN Nil ELSE n,
                            !.match = NoProgress], n, own)

\* The election deadline passes.
ElectionTimeout(n) ==
    /\ node[n].role # "Leader" /\ node[n].term < MaxTerm
    /\ node' = [node EXCEPT ![n] = AsCandidate(@, n, @.term + 1)]
    /\ UNCHANGED <<timeout_now, reads, committed, gaps>>

\* TimeoutNow arrives: a follower campaigns at once, and so does a candidate of
\* the same term; one of an earlier term only learns of the new one.  Leaders and
\* nodes of a later term ignore it.
TimeoutNow(m) ==
    LET x == node[m.to] IN
    /\ x.role # "Leader" /\ m.term >= x.term /\ m.term < MaxTerm
    /\ node' = [node EXCEPT ![m.to] =
            IF x.role = "Candidate" /\ m.term > x.term THEN AsFollower(x, m.term)
            ELSE AsCandidate(x, m.to, m.term + 1)]
    /\ timeout_now' = timeout_now \ {m}
    /\ UNCHANGED <<reads, committed, gaps>>

\* Mutant: whoever asks is given the vote, in the configuration or not.
GrantsAnyone(x, y, c) ==
    /\ x.term < y.term \/ x.voted_for \in {Nil, c}
    /\ log_is_up_to_date(x.log, TermAt(y.log, Len(y.log)), Len(y.log))

\* Mutant: a second candidate of a term may have the vote as well.
GrantsAgain(x, y, c) ==
    /\ c \in voters(Config(x))
    /\ log_is_up_to_date(x.log, TermAt(y.log, Len(y.log)), Len(y.log))

\* Mutant: the logs are not compared.
GrantsBlind(x, y, c) ==
    /\ c \in voters(Config(x))
    /\ x.term < y.term \/ x.voted_for \in {Nil, c}

\* handle_vote_request of follower x, for candidate c in state y.
Grants(x, y, c) ==
    /\ c \in voters(Config(x))
    /\ x.term < y.term \/ x.voted_for \in {Nil, c}
    /\ log_is_up_to_date(x.log, TermAt(y.log, Len(y.log)), Len(y.log))

\* A VoteRequest of candidate c reaches v, and v's answer c.  A node of an earlier
\* term takes over the term even if it gives no vote.
Vote(c, v) ==
    LET x == node[v]
        y == node[c]
        granted == x.term <= y.term /\ x.role = "Follower" /\ Grants(x, y, c)
    IN  /\ y.role = "Candidate" /\ v \in voters(Config(y)) \ {c}
        /\ \/ /\ x.term > y.term
              /\ node' = [node EXCEPT ![c] = AsFollower(y, x.term)]
           \/ /\ x.term < y.term /\ ~granted
              /\ node' = [node EXCEPT ![v] = AsFollower(x, y.term)]
           \/ /\ granted
              /\ node' = [node EXCEPT ![v].term = y.term, ![v].voted_for = c,
                                      ![c] = WithVotes(y, c, y.votes \cup {v})]
        /\ UNCHANGED <<timeout_now, reads, committed, gaps>>

-----------------------------------------------------------------------------
\* advance_commit_index: the highest entry of the current term that a quorum of
\* the configuration in force has.
advance_commit_index(x) ==
    LET stored == {i \in (x.commit + 1)..Len(x.log) :
            /\ x.log[i].term = x.term
            /\ has_quorum(Config(x), {v \in Server : x.match[v] >= i})}
    IN  IF stored = {} THEN x.commit ELSE Max(stored)

\* The leader's log and progress with one more entry: propose,
\* append_transition_target and reinit_progress.
Appended(x, n, payload) ==
    [x EXCEPT !.log = Append(@, [term |-> x.term, payload |-> payload]),
              !.match[n] = Len(x.log) + 1]

\* process_committed_configs: the first newly committed configuration that
\* removes the leader or is joint decides; those after it are passed over.
Decisive(x, n, upto) ==
    {i \in ConfigIndices(x.log) \cap (x.commit + 1)..upto :
        n \notin voters(x.log[i].payload) \/ is_joint(x.log[i].payload)}

\* What process_committed_configs makes of the configuration at index i, the first that
\* decides: the leader steps down, or appends C_new.  late is history: a later
\* configuration has replaced it already.
Decided(y, n, i) ==
    [state |-> IF n \in voters(y.log[i].payload)
               THEN Appended(y, n, transition_target(y.log[i].payload)) ELSE y,
     out |-> IF n \in voters(y.log[i].payload) THEN "Continue" ELSE "StepDown",
     config |-> y.log[i].payload,
     late |-> LastConfig(y.log) > i]

process_committed_configs(y, n, found) ==
    IF found = {} THEN [state |-> y, out |-> "Done", late |-> FALSE]
    ELSE Decided(y, n, Min(found))

\* The commit index moves on to i, past the configurations it had not reached.
Advanced(x, n, i) ==
    process_committed_configs([x EXCEPT !.commit = i], n, Decisive(x, n, i))

\* One round of maybe_commit.
Round(x, n) == Advanced(x, n, advance_commit_index(x))

\* Another round follows only if C_new was appended, and is the last, for C_new is
\* simple.
NextRound(r, n) ==
    IF r.out = "Continue" THEN [Round(r.state, n) EXCEPT !.late = r.late \/ @] ELSE r

maybe_commit(x, n) == NextRound(Round(x, n), n)

\* Mutant: anyone the leader replicates to will do.
TransferTargetsPeer(x, n, c) == {v \in Server \ {n} : x.match[v] >= Len(x.log)}

\* try_auto_transfer: the voters of the configuration that removed the leader
\* which are known to hold its whole log; the code takes the first.
TransferTargets(x, n, c) == {v \in voters(c) \ {n} : x.match[v] >= Len(x.log)}

\* Leader l of term t is left by maybe_commit with the result r: it steps down if a
\* committed configuration is without it.  The other nodes are as in others.
Settle(l, t, r, others, more) ==
    /\ node' = [others EXCEPT ![l] =
                   IF r.out = "StepDown" THEN AsFollower(r.state, t) ELSE r.state]
    /\ committed' = IF r.state.commit > Len(committed)
                    THEN SubSeq(r.state.log, 1, r.state.commit) ELSE committed
    /\ gaps' = gaps \cup more \cup (IF r.late THEN {"late decision"} ELSE {})
    /\ \E targets \in {IF r.out = "StepDown" THEN TransferTargets(r.state, l, r.config) ELSE {}} :
          \/ targets = {} /\ UNCHANGED timeout_now
          \/ \E v \in targets : timeout_now' = timeout_now \cup {[to |-> v, term |-> t]}
    /\ UNCHANGED reads

\* Leader l, in state x, commits what it can.
Commit(l, x, others, more) == Settle(l, x.term, maybe_commit(x, l), others, more)

\* Leader::propose.
Propose(l) ==
    LET x == node[l] IN
    /\ x.role = "Leader" /\ Len(x.log) < MaxLog
    /\ Commit(l, Appended(x, l, Command), node, {})

\* Leader::propose_config_change.  A leader does not wait for an entry of its own
\* term to be committed first; gaps records it.
ProposeConfig(l, ch) ==
    LET x == node[l]
        c == Config(x)
    IN  /\ x.role = "Leader" /\ Len(x.log) < MaxLog
        /\ validate(ch, c, Mode)
        /\ ch.kind = "AddVoter" => x.match[ch.id] >= Len(x.log)
        /\ ~has_pending_config(x.log, x.commit)
        /\ Commit(l, Appended(x, l, apply(ch, c, Mode)), node,
                  IF \E i \in 1..x.commit : x.log[i].term = x.term THEN {} ELSE {"early change"})

\* An AppendRequest of leader l reaches n, and n's answer l: the request that
\* starts where the two logs last agree, whichever next_index led there.  n answers
\* with its own last index, which a tail left over from an earlier leader makes
\* too high; gaps records it.
Replicate(l, n) ==
    LET x == node[l]
        y == node[n]
        prev == Max({i \in 0..Len(x.log) : TermAt(y.log, i) = TermAt(x.log, i)})
        lg == Merge(y.log, prev, SubSeq(x.log, prev + 1, Len(x.log)))
        z == [AsFollower(y, x.term) EXCEPT !.log = lg,
                 !.commit = IF x.commit > @ THEN Min({x.commit, Len(lg)}) ELSE @]
    IN  /\ x.role = "Leader" /\ n \in replication_peers(Config(x), l)
        /\ y.term <= x.term /\ y.role = "Follower"
        /\ Commit(l, [x EXCEPT !.match[n] = Len(lg)], [node EXCEPT ![n] = z],
                  IF Shared(lg, x.log) < Len(lg) THEN {"stale tail"} ELSE {})

\* An AppendRequest of leader l reaches a candidate of its term, or a candidate or a
\* leader of an earlier one, which becomes a follower and lets the request fall.
Yield(l, n) ==
    LET x == node[l]
        y == node[n]
    IN  /\ x.role = "Leader" /\ n \in replication_peers(Config(x), l)
        /\ y.role # "Follower" /\ y.term <= x.term
        /\ node' = [node EXCEPT ![n] = AsFollower(y, x.term)]
        /\ UNCHANGED <<timeout_now, reads, committed, gaps>>

\* A node of a later term answers a request of leader l.
StepDown(l, n) ==
    /\ node[l].role = "Leader" /\ n \in replication_peers(Config(node[l]), l)
    /\ node[n].term > node[l].term
    /\ node' = [node EXCEPT ![l] = AsFollower(@, node[n].term)]
    /\ UNCHANGED <<timeout_now, reads, committed, gaps>>

-----------------------------------------------------------------------------
\* current_term_commit_index: has an entry of the leader's own term been committed?
TermCommitted(x) == TermAt(x.log, x.commit) = x.term

\* The leader x with the pending read p: confirmed once a quorum of the
\* configuration it started under has answered.
WithRead(x, p) ==
    IF has_quorum(p.config, p.acks)
    THEN [x EXCEPT !.pending = NoRead, !.confirmed = Max({@, p.index})]
    ELSE [x EXCEPT !.pending = p]

\* Mutant: a leader that has committed nothing in its term yet takes its commit index
\* for current.
RequestReadEarly(l) ==
    LET x == node[l] IN
    /\ x.role = "Leader" /\ Cardinality(reads) < MaxReads
    /\ x.pending = NoRead
    /\ node' = [node EXCEPT ![l] =
            WithRead(x, [index |-> x.commit, config |-> Config(x), acks |-> {l}])]
    /\ reads' = reads \cup {[leader |-> l, term |-> x.term, index |-> x.commit,
                            floor |-> Len(committed), held |-> x.confirmed >= x.commit]}
    /\ UNCHANGED <<timeout_now, committed, gaps>>

\* Leader::request_read_index.  held is history: an earlier read was confirmed at
\* this index or above it.
RequestRead(l) ==
    LET x == node[l] IN
    /\ x.role = "Leader" /\ Cardinality(reads) < MaxReads
    /\ x.pending = NoRead /\ TermCommitted(x)
    /\ node' = [node EXCEPT ![l] =
            WithRead(x, [index |-> x.commit, config |-> Config(x), acks |-> {l}])]
    /\ reads' = reads \cup {[leader |-> l, term |-> x.term, index |-> x.commit,
                            floor |-> Len(committed), held |-> x.confirmed >= x.commit]}
    /\ UNCHANGED <<timeout_now, committed, gaps>>

\* A ReadIndexRequest of leader l reaches the follower v, and v's answer l.
AnswerRead(l, v) ==
    LET x == node[l]
        y == node[v]
    IN  /\ x.role = "Leader" /\ x.pending # NoRead
        /\ v \in voters(x.pending.config) \ x.pending.acks
        /\ y.role = "Follower" /\ y.term <= x.term
        /\ node' = [node EXCEPT ![v] = AsFollower(y, x.term),
                                ![l] = WithRead(x, [x.pending EXCEPT !.acks = @ \cup {v}])]
        /\ UNCHANGED <<timeout_now, reads, committed, gaps>>

\* RaftNode::restore: only what is persistent is left.
Restart(n) ==
    /\ n \in Crashers
    /\ node' = [node EXCEPT ![n] = [AsFollower(@, @.term) EXCEPT !.commit = 0]]
    /\ UNCHANGED <<timeout_now, reads, committed, gaps>>

Init ==
    /\ node = [n \in Server |-> [term |-> 0, voted_for |-> Nil, log |-> <<>>,
            role |-> "Follower", votes |-> {}, match |-> NoProgress,
            pending |-> NoRead, confirmed |-> 0, commit |-> 0]]
    /\ timeout_now = {} /\ reads = {} /\ committed = <<>> /\ gaps = {}

Next ==
    \/ \E n \in Server : ElectionTimeout(n) \/ Restart(n) \/ Propose(n) \/ RequestRead(n)
    \/ \E m \in timeout_now : TimeoutNow(m)
    \/ \E n, v \in Server : Vote(n, v) \/ Replicate(n, v) \/ Yield(n, v) \/ StepDown(n, v)
    \/ \E l, v \in Server : AnswerRead(l, v)
    \/ \E l \in Server, ch \in Change : ProposeConfig(l, ch)

Spec == Init /\ [][Next]_vars

-----------------------------------------------------------------------------
\* Behaviours are of interest until the first gap. What follows one is not covered by
\* the properties below, all of which are stated for Orderly states.
Orderly == gaps = {}

\* The nodes keep their types, the commit index stays within the log, and every
\* configuration has voters, none of them a learner as well.
TypeOK ==
    Orderly =>
        /\ node \in [Server -> Node]
        /\ \A n \in Server :
             /\ node[n].commit <= Len(node[n].log)
             /\ \A i \in ConfigIndices(node[n].log) : WellFormed(node[n].log[i].payload)
        /\ timeout_now \subseteq [to : Server, term : Nat]
        /\ reads \subseteq [leader : Server, term : Nat, index : Nat, floor : Nat, held : BOOLEAN]
        /\ committed \in Seq(Entry)

Leads(n) == node[n].role = "Leader"

\* No node has heard of a later term than t.
Latest(t) == \A n \in Server : node[n].term <= t

\* lg begins with the entries of beg.
Starts(beg, lg) == Len(beg) <= Len(lg) /\ \A i \in DOMAIN beg : beg[i] = lg[i]

\* A term has one leader, although its voters may disagree on who votes.
ElectionSafety ==
    Orderly => \A n, m \in Server :
        Leads(n) /\ Leads(m) /\ node[n].term = node[m].term => n = m

\* As long as no gap is met, whoever leads the latest term holds all that was committed
\* by the leaders before it, under the configurations they had, joint ones included,
\* and whether or not nodes restarted in between. Past a gap (a stale tail counted, a
\* change by a leader that has committed nothing in its term, a decision by a
\* configuration that is replaced) this is not claimed: an early change breaks it.
LeaderCompleteness ==
    Orderly => \A l \in Server :
        Leads(l) /\ Latest(node[l].term) => Starts(committed, node[l].log)

\* No split of the nodes gives one side a quorum of the configuration a leader works
\* with and the other a quorum of the one before it in its log.
ChangesOverlap ==
    Orderly => \A l \in Server : Leads(l) /\ LastConfig(node[l].log) # 0 =>
        LET c == Config(node[l])
            d == effective_config(SubSeq(node[l].log, 1, LastConfig(node[l].log) - 1))
        IN  \A side \in SUBSET Server : ~(has_quorum(c, side) /\ has_quorum(d, Server \ side))

\* While no log goes beyond the committed configuration, a node that it leaves out is
\* not elected, unless for a term that is past already.
RemovedStayOut ==
    [][Orderly => \A n \in Server :
        /\ ~Leads(n) /\ Leads(n)' /\ Latest(node[n].term)'
        /\ \A m \in Server : LastConfig(node[m].log) <= Len(committed)
        => n \in voters(effective_config(committed))]_vars

\* read_index_ready, for a read asked for at index i: applied is taken to follow the
\* commit index.
read_index_ready(n, i) == Leads(n) /\ node[n].confirmed >= i /\ node[n].commit >= i

\* A read that is ready shows everything that had been committed, by whichever
\* leader, when it was asked for, unless its index was confirmed for a read before it.
ReadsCoverCommitted ==
    Orderly => \A r \in reads :
        read_index_ready(r.leader, r.index) /\ ~r.held => node[r.leader].commit >= r.floor

\* A node told to take over votes in the committed configuration, and holds
\* everything that was committed.
HeirFit ==
    Orderly => \A m \in timeout_now : Latest(m.term) =>
        /\ m.to \in voters(effective_config(committed))
        /\ Starts(committed, node[m.to].log)
=============================================================================
