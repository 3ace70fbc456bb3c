-------------------------------- MODULE Raft --------------------------------
(***************************************************************************)
(* A cluster of RaftNodes with a fixed set of voters, each driven the way  *)
(* the deployed node drives it: one event at a time, then the persistent   *)
(* state is saved if the step asked for it, then its messages are sent,    *)
(* then what is committed is applied.  One action is one such step.        *)
(*                                                                         *)
(* Ticks are abstracted: a node's election timeout may expire and a leader *)
(* may beat at any step, and a node that has heard from a leader may have  *)
(* heard from it recently (within the minimum election timeout) or not.    *)
(***************************************************************************)
EXTENDS RaftStore

CONSTANTS
    Server,         \* the voters
    Nil,            \* no node: an absent vote or leader
    Prevote,        \* Config.prevote
    MaxUncommitted, \* Config.max_uncommitted_entries
    Transfers,      \* may the application call transfer_leadership?
    Campaigners,    \* bound: the nodes whose election timeout may expire
    Crashers,       \* bound: the nodes that may crash and restart
    MaxTerm,        \* bound: no election starts in this term or later
    MaxLog,         \* bound: no proposal is made to a log this long
    MaxInFlight     \* bound: messages in the network

ASSUME ServerAssumption == IsFiniteSet(Server) /\ Nil \notin Server

ASSUME ConfigAssumption ==
    /\ {Prevote, Pipelining, Transfers} \subseteq BOOLEAN
    /\ Campaigners \cup Crashers \subseteq Server
    /\ {MaxEntries, MaxUncommitted, MaxTerm, MaxLog, MaxInFlight} \subseteq Nat

VARIABLES
    term, voted_for, log,       \* Persistent, in memory
    durable,                    \* Persistent, as the store would recover it
    role,                       \* which variant of RoleState
    leader,                     \* RaftNode::leader()
    contact,                    \* is there a last contact with a leader?
    votes,                      \* (pre-)votes gathered; a leader keeps the ones
                                \* that elected it, which the code forgets
    next_index, match_index,    \* a leader's progress per peer
    commit_index,
    applied,                    \* the entries the state machine has applied
    messages                    \* the network

persistent == <<term, voted_for, log>>
progress == <<next_index, match_index>>
roles == <<role, leader, contact, votes, progress>>
machine == <<commit_index, applied>>
vars == <<persistent, durable, roles, machine, messages>>

Role == {"Follower", "PreCandidate", "Candidate", "Leader"}

Peers(n) == Server \ {n}

\* Mutant: half of the voters is enough.
HasQuorumHalf(S) == Cardinality(S \cap Server) >= Cardinality(Server) \div 2

\* Configuration::has_quorum of a Simple configuration.
HasQuorum(S) == Cardinality(S \cap Server) > Cardinality(Server) \div 2

-----------------------------------------------------------------------------
(* Messages *)

VoteRequest(n, p, t, lg) ==
    [type |-> "VoteRequest", from |-> n, to |-> p, term |-> t,
     last_log_index |-> Len(lg), last_log_term |-> LastTerm(lg)]

VoteResponse(n, p, t, granted) ==
    [type |-> "VoteResponse", from |-> n, to |-> p, term |-> t,
     granted |-> granted]

PreVoteRequest(n, p, t, lg) ==
    [type |-> "PreVoteRequest", from |-> n, to |-> p, term |-> t,
     next_term |-> t + 1,
     last_log_index |-> Len(lg), last_log_term |-> LastTerm(lg)]

\* resp_term is the term in the payload, t the one in the envelope.
PreVoteResponse(n, p, t, resp_term, granted) ==
    [type |-> "PreVoteResponse", from |-> n, to |-> p, term |-> t,
     resp_term |-> resp_term, granted |-> granted]

AppendResponse(n, p, t, success, last) ==
    [type |-> "AppendResponse", from |-> n, to |-> p, term |-> t,
     success |-> success, last_log_index |-> last]

TimeoutNow(n, p, t) ==
    [type |-> "TimeoutNow", from |-> n, to |-> p, term |-> t]

\* Mutant: the entries are said to follow the index before the last one.
AppendRequestShort(n, p, t, lg, next, ci) ==
    [type |-> "AppendRequest", from |-> n, to |-> p, term |-> t,
     prev_log_index |-> next - 2, prev_log_term |-> TermAt(lg, next - 2),
     entries |-> EntriesFrom(lg, next), leader_commit |-> ci]

\* send_append_to: the entries from next on, and the index before them.
AppendRequest(n, p, t, lg, next, ci) ==
    [type |-> "AppendRequest", from |-> n, to |-> p, term |-> t,
     prev_log_index |-> next - 1, prev_log_term |-> TermAt(lg, next - 1),
     entries |-> EntriesFrom(lg, next), leader_commit |-> ci]

\* A message stays in the network until it is lost, so it may be delivered at
\* any time, in any order, again, or never.
Send(ms) == messages' = messages \cup ms

-----------------------------------------------------------------------------
(* Pieces of the handlers *)

\* Mutant: the store saves the term and the log but not the vote.
PersistNoVote(n) ==
    durable' = [durable EXCEPT ![n] = [@ EXCEPT !.term = term'[n], !.log = log'[n]]]

\* Effects.persist: the store saves the persistent state of n.
Persist(n) ==
    durable' = [durable EXCEPT ![n] =
        [term |-> term'[n], voted_for |-> voted_for'[n], log |-> log'[n]]]

\* Core::maybe_update_term with a term known to be higher.
AdoptTerm(n, t) ==
    /\ term' = [term EXCEPT ![n] = t]
    /\ voted_for' = [voted_for EXCEPT ![n] = Nil]
    /\ UNCHANGED log

\* Leaving the leader's role drops its progress.
ForgetProgress(n) ==
    /\ next_index' = [next_index EXCEPT ![n] = [p \in Server |-> 1]]
    /\ match_index' = [match_index EXCEPT ![n] = [p \in Server |-> 0]]

\* Transition::ToFollower and ToFollowerAfterContact.
BecomeFollower(n, l, heard) ==
    /\ role' = [role EXCEPT ![n] = "Follower"]
    /\ leader' = [leader EXCEPT ![n] = l]
    /\ contact' = [contact EXCEPT ![n] = heard]
    /\ votes' = [votes EXCEPT ![n] = {}]
    /\ ForgetProgress(n)

\* Transition::ToLeader: the first heartbeat goes to every peer, from the end
\* of the log.
BecomeLeader(n, t) ==
    LET last == Len(log[n]) IN
    /\ role' = [role EXCEPT ![n] = "Leader"]
    /\ leader' = [leader EXCEPT ![n] = n]
    /\ contact' = [contact EXCEPT ![n] = FALSE]
    /\ next_index' = [next_index EXCEPT ![n] = [p \in Server |-> last + 1]]
    /\ match_index' = [match_index EXCEPT ![n] =
                          [p \in Server |-> IF p = n THEN last ELSE 0]]
    /\ Send({AppendRequest(n, p, t, log[n], last + 1, commit_index[n]) : p \in Peers(n)})

\* Transition::ToCandidate at term t; a node that is a quorum by itself leads
\* at once.  boot: the process is younger than the minimum election timeout, and
\* the new candidate behaves as if it had just heard from a leader.
BecomeCandidate(n, t, boot) ==
    /\ term' = [term EXCEPT ![n] = t]
    /\ voted_for' = [voted_for EXCEPT ![n] = n]
    /\ votes' = [votes EXCEPT ![n] = {n}]
    /\ IF HasQuorum({n})
       THEN BecomeLeader(n, t)
       ELSE /\ role' = [role EXCEPT ![n] = "Candidate"]
            /\ leader' = [leader EXCEPT ![n] = Nil]
            /\ contact' = [contact EXCEPT ![n] = boot]
            /\ Send({VoteRequest(n, p, t, log[n]) : p \in Peers(n)})
            /\ UNCHANGED progress
    /\ UNCHANGED <<log, machine>>
    /\ Persist(n)

\* Transition::ToPreCandidate of a node that needs the votes of others.
BecomePreCandidate(n) ==
    /\ role' = [role EXCEPT ![n] = "PreCandidate"]
    /\ leader' = [leader EXCEPT ![n] = Nil]
    /\ contact' = [contact EXCEPT ![n] = FALSE]
    /\ votes' = [votes EXCEPT ![n] = {n}]
    /\ Send({PreVoteRequest(n, p, term[n], log[n]) : p \in Peers(n)})
    /\ UNCHANGED <<persistent, durable, progress, machine>>

\* Mutant: a peer one entry short of an index counts for it.
CommitIndexShort(lg, t, ci, mi) ==
    LET ready == {i \in (ci + 1)..Len(lg) :
                    lg[i].term = t /\ HasQuorum({p \in Server : mi[p] + 1 >= i})}
    IN  IF ready = {} THEN ci ELSE Max(ready)

\* maybe_commit: the highest index of the current term that the progress mi
\* shows on a quorum, or else the present commit index.
CommitIndex(lg, t, ci, mi) ==
    LET ready == {i \in (ci + 1)..Len(lg) :
                    lg[i].term = t /\ HasQuorum({p \in Server : mi[p] >= i})}
    IN  IF ready = {} THEN ci ELSE Max(ready)

-----------------------------------------------------------------------------
(* Ticks, calls and crashes *)

\* handle_tick of a follower, pre-candidate or candidate past its deadline.
ElectionTimeout(n) ==
    /\ n \in Campaigners
    /\ role[n] # "Leader"
    /\ term[n] < MaxTerm
    /\ IF Prevote /\ role[n] # "Candidate" /\ ~ HasQuorum({n})
       THEN BecomePreCandidate(n)
       ELSE BecomeCandidate(n, term[n] + 1, FALSE)

\* broadcast_append with log lg and commit index ci.
Broadcast(n, lg, ci) ==
    /\ next_index' = [next_index EXCEPT ![n] =
          [p \in Server |-> IF p = n THEN @[p] ELSE NextAfterSend(lg, @[p])]]
    /\ Send({AppendRequest(n, p, term[n], lg, next_index[n][p], ci) : p \in Peers(n)})

\* handle_tick of a leader past its heartbeat deadline.
Heartbeat(n) ==
    /\ role[n] = "Leader"
    /\ Broadcast(n, log[n], commit_index[n])
    /\ UNCHANGED <<persistent, durable, role, leader, contact, votes, match_index, machine>>

\* Core::proposal_limit_exceeded, of the number of entries; their bytes do not count.
proposal_limit_exceeded(n) == Len(log[n]) - commit_index[n] >= MaxUncommitted

\* RaftNode::propose; a call that is throttled, or that fails the assertion
\* commit_index <= last_index, changes nothing.
Propose(n, c) ==
    LET lg == Append(log[n], [term |-> term[n], command |-> c])
        mi == [match_index[n] EXCEPT ![n] = Len(lg)]
        ci == CommitIndex(lg, term[n], commit_index[n], mi)
    IN
    /\ role[n] = "Leader"
    /\ Len(log[n]) < MaxLog
    /\ commit_index[n] <= Len(log[n])
    /\ ~ proposal_limit_exceeded(n)
    /\ log' = [log EXCEPT ![n] = lg]
    /\ match_index' = [match_index EXCEPT ![n] = mi]
    /\ commit_index' = [commit_index EXCEPT ![n] = ci]
    /\ applied' = [applied EXCEPT ![n] = Apply(@, lg, ci)]
    /\ Broadcast(n, lg, ci)
    /\ UNCHANGED <<term, voted_for, role, leader, contact, votes>>
    /\ Persist(n)

\* RaftNode::transfer_leadership.
TransferLeadership(n, p) ==
    /\ Transfers
    /\ role[n] = "Leader"
    /\ p # n
    /\ match_index[n][p] >= Len(log[n])
    /\ Send({TimeoutNow(n, p, term[n])})
    /\ UNCHANGED <<persistent, durable, roles, machine>>

\* The process dies and RaftNode::restore starts from what the store recovers.
Restart(n) ==
    /\ n \in Crashers
    /\ term' = [term EXCEPT ![n] = durable[n].term]
    /\ voted_for' = [voted_for EXCEPT ![n] = durable[n].voted_for]
    /\ log' = [log EXCEPT ![n] = durable[n].log]
    /\ BecomeFollower(n, Nil, FALSE)
    /\ commit_index' = [commit_index EXCEPT ![n] = 0]
    /\ applied' = [applied EXCEPT ![n] = <<>>]
    /\ UNCHANGED <<durable, messages>>

-----------------------------------------------------------------------------
(* Message handlers; n is always the addressee m.to. *)

IsVoteSolicitation(m) == m.type \in {"VoteRequest", "PreVoteRequest"}

\* The guard against disruptive elections may stop m: its addressee does not
\* lead and has heard from a leader, possibly recently.
MayGuard(m) == IsVoteSolicitation(m) /\ role[m.to] # "Leader" /\ contact[m.to]

\* The addressee has a stake of its own in the election of its term.
Engaged(m) == m.term = term[m.to] /\ role[m.to] # "Follower"

\* A refusal that changes nothing: the guard, a stale request, or a request to
\* a node that already has a stake in the election of its term.
RefuseVote(m) ==
    LET n == m.to IN
    /\ m.type = "VoteRequest"
    /\ \/ MayGuard(m)
       \/ m.term < term[n]
       \/ Engaged(m)
    /\ Send({VoteResponse(n, m.from, term[n], FALSE)})
    /\ UNCHANGED <<persistent, durable, roles, machine>>

\* Core::can_vote_for, with the vote ballot in the current term.
can_vote_for(ballot, c) == ballot \in {Nil, c}

\* Follower::handle_vote_request, after the term update of Follower::step.
FollowerVote(m) ==
    LET n == m.to
        newer == m.term > term[n]
        ballot == IF newer THEN Nil ELSE voted_for[n]
        granted == /\ can_vote_for(ballot, m.from)
                   /\ UpToDate(log[n], m.last_log_term, m.last_log_index)
    IN
    /\ m.type = "VoteRequest"
    /\ role[n] = "Follower"
    /\ m.term >= term[n]
    /\ term' = [term EXCEPT ![n] = m.term]
    /\ voted_for' = [voted_for EXCEPT ![n] = IF granted THEN m.from ELSE ballot]
    /\ Send({VoteResponse(n, m.from, m.term, granted)})
    /\ UNCHANGED <<log, roles, machine>>
    /\ IF newer \/ granted THEN Persist(n) ELSE UNCHANGED durable

\* Candidate::handle_vote_response.
CountVote(m) ==
    LET n == m.to
        won == votes[n] \cup {m.from}
    IN
    /\ m.type = "VoteResponse"
    /\ role[n] = "Candidate"
    /\ m.term = term[n]
    /\ m.granted
    /\ votes' = [votes EXCEPT ![n] = won]
    /\ IF HasQuorum(won)
       THEN BecomeLeader(n, term[n])
       ELSE UNCHANGED <<role, leader, contact, progress, messages>>
    /\ UNCHANGED <<persistent, durable, machine>>

\* Refusing a pre-vote outright: the guard, or a leader.
RefusePreVote(m) ==
    LET n == m.to IN
    /\ m.type = "PreVoteRequest"
    /\ MayGuard(m) \/ role[n] = "Leader"
    /\ Send({PreVoteResponse(n, m.from, term[n], term[n], FALSE)})
    /\ UNCHANGED <<persistent, durable, roles, machine>>

\* Would n vote for the sender of m, were the election held?
PreVoteGranted(n, m) ==
    /\ m.next_term > term[n]
    /\ UpToDate(log[n], m.last_log_term, m.last_log_index)

\* handle_prevote_request of the other roles: the answer carries the term of
\* the request in its envelope and changes nothing here.
AnswerPreVote(m) ==
    LET n == m.to IN
    /\ m.type = "PreVoteRequest"
    /\ role[n] # "Leader"
    /\ role[n] = "PreCandidate" => m.term <= term[n]
    /\ Send({PreVoteResponse(n, m.from, m.term, term[n], PreVoteGranted(n, m))})
    /\ UNCHANGED <<persistent, durable, roles, machine>>

\* PreCandidate::handle_prevote_response: a pre-vote of this term counts.
CountPreVote(m) ==
    LET n == m.to
        won == votes[n] \cup {m.from}
    IN
    /\ m.type = "PreVoteResponse"
    /\ role[n] = "PreCandidate"
    /\ m.term <= term[n] /\ m.resp_term = term[n]
    /\ m.granted
    /\ term[n] < MaxTerm
    /\ IF HasQuorum(won)
       THEN BecomeCandidate(n, term[n] + 1, FALSE)
       ELSE /\ votes' = [votes EXCEPT ![n] = won]
            /\ UNCHANGED <<persistent, durable, role, leader, contact, progress>>
            /\ UNCHANGED <<machine, messages>>

\* PreCandidate::handle_prevote_response: the voter is in a later term.
PreVoteBehind(m) ==
    LET n == m.to IN
    /\ m.type = "PreVoteResponse"
    /\ role[n] = "PreCandidate"
    /\ m.term <= term[n] /\ m.resp_term > term[n]
    /\ AdoptTerm(n, m.resp_term)
    /\ BecomeFollower(n, Nil, FALSE)
    /\ UNCHANGED <<machine, messages>>
    /\ Persist(n)

\* A later term ends any role but the follower's; the message is not looked at
\* further.  Candidates and leaders answer pre-votes of any term instead.
StepDown(m) ==
    LET n == m.to IN
    /\ role[n] # "Follower"
    /\ m.term > term[n]
    /\ m.type = "PreVoteRequest" => role[n] = "PreCandidate"
    /\ AdoptTerm(n, m.term)
    /\ BecomeFollower(n, IF m.type = "AppendRequest" THEN m.from ELSE Nil, FALSE)
    /\ UNCHANGED <<machine, messages>>
    /\ Persist(n)

\* A response of a later term tells a follower nothing but the term.
FollowerAdoptTerm(m) ==
    LET n == m.to IN
    /\ role[n] = "Follower"
    /\ m.type \in {"VoteResponse", "PreVoteResponse", "AppendResponse"}
    /\ m.term > term[n]
    /\ AdoptTerm(n, m.term)
    /\ UNCHANGED <<roles, machine, messages>>
    /\ Persist(n)

\* reject_stale; a pre-candidate does not check for stale terms.
RefuseAppend(m) ==
    LET n == m.to IN
    /\ m.type = "AppendRequest"
    /\ role[n] # "PreCandidate"
    /\ m.term < term[n]
    /\ Send({AppendResponse(n, m.from, term[n], FALSE, Len(log[n]))})
    /\ UNCHANGED <<persistent, durable, roles, machine>>

\* handle_append_request of a (pre-)candidate: it gives way, and the entries
\* are neither looked at nor acknowledged.
YieldToLeader(m) ==
    LET n == m.to IN
    /\ m.type = "AppendRequest"
    /\ \/ role[n] = "PreCandidate" /\ m.term <= term[n]
       \/ role[n] = "Candidate" /\ m.term = term[n]
    /\ BecomeFollower(n, m.from, TRUE)
    /\ UNCHANGED <<persistent, durable, machine, messages>>

\* Follower::handle_append_request, after the term update of Follower::step.
FollowerAppend(m) ==
    LET n == m.to
        newer == m.term > term[n]
        ok == Consistent(log[n], m.prev_log_index, m.prev_log_term)
        lg == IF ok THEN Merge(log[n], m.prev_log_index, m.entries) ELSE log[n]
        ci == IF ok /\ m.leader_commit > commit_index[n]
              THEN Lesser(m.leader_commit, Len(lg)) ELSE commit_index[n]
    IN
    /\ m.type = "AppendRequest"
    /\ role[n] = "Follower"
    /\ m.term >= term[n]
    /\ term' = [term EXCEPT ![n] = m.term]
    /\ voted_for' = [voted_for EXCEPT ![n] = IF newer THEN Nil ELSE @]
    /\ log' = [log EXCEPT ![n] = lg]
    /\ leader' = [leader EXCEPT ![n] = m.from]
    /\ contact' = [contact EXCEPT ![n] = TRUE]
    /\ commit_index' = [commit_index EXCEPT ![n] = ci]
    /\ applied' = [applied EXCEPT ![n] = Apply(@, lg, ci)]
    /\ Send({AppendResponse(n, m.from, m.term, ok, Len(lg))})
    /\ UNCHANGED <<role, votes, progress>>
    /\ IF newer \/ lg # log[n] THEN Persist(n) ELSE UNCHANGED durable

\* Leader::handle_append_response, success.
AppendAccepted(m) ==
    LET n == m.to
        mi == [match_index[n] EXCEPT ![m.from] = m.last_log_index]
        ci == CommitIndex(log[n], term[n], commit_index[n], mi)
    IN
    /\ m.type = "AppendResponse" /\ m.success
    /\ role[n] = "Leader"
    /\ m.term = term[n]
    /\ match_index' = [match_index EXCEPT ![n] = mi]
    /\ next_index' = IF Pipelining THEN next_index
                     ELSE [next_index EXCEPT ![n][m.from] = m.last_log_index + 1]
    /\ commit_index' = [commit_index EXCEPT ![n] = ci]
    /\ applied' = [applied EXCEPT ![n] = Apply(@, log[n], ci)]
    /\ UNCHANGED <<persistent, durable, role, leader, contact, votes, messages>>

\* Leader::handle_append_response, failure: back up to the hint and send again.
AppendRejected(m) ==
    LET n == m.to
        next == NextAfterReject(m.last_log_index, match_index[n][m.from])
    IN
    /\ m.type = "AppendResponse" /\ ~ m.success
    /\ role[n] = "Leader"
    /\ m.term = term[n]
    /\ next_index' = [next_index EXCEPT ![n][m.from] = NextAfterSend(log[n], next)]
    /\ Send({AppendRequest(n, m.from, term[n], log[n], next, commit_index[n])})
    /\ UNCHANGED <<persistent, durable, role, leader, contact, votes, match_index, machine>>

\* TimeoutNow: campaign at once, whatever the clock says.
CampaignNow(m, boot) ==
    LET n == m.to
        t == Greater(term[n], m.term)
    IN
    /\ m.type = "TimeoutNow"
    /\ \/ role[n] = "Follower" /\ m.term >= term[n]
       \/ role[n] = "PreCandidate" /\ m.term <= term[n]
       \/ role[n] = "Candidate" /\ m.term = term[n]
    /\ t < MaxTerm
    /\ BecomeCandidate(n, t + 1, boot)

\* The network loses m.
Lose(m) ==
    /\ messages' = messages \ {m}
    /\ UNCHANGED <<persistent, durable, roles, machine>>

-----------------------------------------------------------------------------
Init ==
    /\ term = [n \in Server |-> 0]
    /\ voted_for = [n \in Server |-> Nil]
    /\ log = [n \in Server |-> <<>>]
    /\ durable = [n \in Server |-> [term |-> 0, voted_for |-> Nil, log |-> <<>>]]
    /\ role = [n \in Server |-> "Follower"]
    /\ leader = [n \in Server |-> Nil]
    /\ contact = [n \in Server |-> FALSE]
    /\ votes = [n \in Server |-> {}]
    /\ next_index = [n \in Server |-> [p \in Server |-> 1]]
    /\ match_index = [n \in Server |-> [p \in Server |-> 0]]
    /\ commit_index = [n \in Server |-> 0]
    /\ applied = [n \in Server |-> <<>>]
    /\ messages = {}

Receive(m) ==
    \/ RefuseVote(m)
    \/ FollowerVote(m)
    \/ CountVote(m)
    \/ RefusePreVote(m)
    \/ AnswerPreVote(m)
    \/ CountPreVote(m)
    \/ PreVoteBehind(m)
    \/ StepDown(m)
    \/ FollowerAdoptTerm(m)
    \/ RefuseAppend(m)
    \/ YieldToLeader(m)
    \/ FollowerAppend(m)
    \/ AppendAccepted(m)
    \/ AppendRejected(m)
    \/ \E boot \in BOOLEAN : CampaignNow(m, boot)

Step ==
    \/ \E n \in Server : ElectionTimeout(n)
    \/ \E n \in Server : Heartbeat(n)
    \/ \E n \in Server, c \in Command : Propose(n, c)
    \/ \E n \in Server, p \in Server : TransferLeadership(n, p)
    \/ \E n \in Server : Restart(n)
    \/ \E m \in messages : Receive(m)
    \/ \E m \in messages : Lose(m)

Next == Step /\ Cardinality(messages') <= MaxInFlight

Spec == Init /\ [][Next]_vars

-----------------------------------------------------------------------------
(* Properties *)

\* Every record a node can send.
Message ==
    [type : {"VoteRequest"}, from : Server, to : Server, term : Nat,
            last_log_index : Nat, last_log_term : Nat]
    \cup [type : {"VoteResponse"}, from : Server, to : Server, term : Nat,
            granted : BOOLEAN]
    \cup [type : {"PreVoteRequest"}, from : Server, to : Server, term : Nat,
            next_term : Nat, last_log_index : Nat, last_log_term : Nat]
    \cup [type : {"PreVoteResponse"}, from : Server, to : Server, term : Nat,
            resp_term : Nat, granted : BOOLEAN]
    \cup [type : {"AppendRequest"}, from : Server, to : Server, term : Nat,
            prev_log_index : Nat, prev_log_term : Nat, entries : Seq(Entry),
            leader_commit : Nat]
    \cup [type : {"AppendResponse"}, from : Server, to : Server, term : Nat,
            success : BOOLEAN, last_log_index : Nat]
    \cup [type : {"TimeoutNow"}, from : Server, to : Server, term : Nat]

\* Every variable keeps its type.
TypeOK ==
    /\ term \in [Server -> Nat]
    /\ voted_for \in [Server -> Server \cup {Nil}]
    /\ log \in [Server -> Seq(Entry)]
    /\ durable \in [Server -> [term : Nat, voted_for : Server \cup {Nil}, log : Seq(Entry)]]
    /\ role \in [Server -> Role]
    /\ leader \in [Server -> Server \cup {Nil}]
    /\ contact \in [Server -> BOOLEAN]
    /\ votes \in [Server -> SUBSET Server]
    /\ next_index \in [Server -> [Server -> Nat \ {0}]]
    /\ match_index \in [Server -> [Server -> Nat]]
    /\ commit_index \in [Server -> Nat]
    /\ applied \in [Server -> Seq(Entry)]
    /\ messages \subseteq Message

\* The terms l is known to have led: the one it leads now and those of its
\* AppendRequests that are still about.
LedTerms(l) ==
    {t \in {term[l]} : role[l] = "Leader"} \cup
    {m.term : m \in {x \in messages : x.type = "AppendRequest" /\ x.from = l}}

\* Election safety (Core::vote_for, Candidate::has_quorum): no term has two
\* leaders, neither at once nor one after the other, restarts included.
ElectionSafety ==
    \A k, l \in Server : k # l => LedTerms(k) \cap LedTerms(l) = {}

\* Log matching (Follower::handle_append_request): two logs that agree on the
\* term at an index hold the same entries up to it.
LogMatching ==
    \A k, l \in Server : \A i \in 1..Lesser(Len(log[k]), Len(log[l])) :
        log[k][i].term = log[l][i].term => SubSeq(log[k], 1, i) = SubSeq(log[l], 1, i)

\* The leader of a term holds every entry of that term that is in any log
\* (Leader::propose appends, a leader's log is never truncated).
LeaderHoldsItsTerm ==
    \A l, p \in Server : role[l] = "Leader" =>
        \A i \in 1..Len(log[p]) :
            log[p][i].term = term[l] => i <= Len(log[l]) /\ log[l][i] = log[p][i]

\* Every step that changes term, vote or log asks for it to be persisted before
\* its messages leave (Effects::with_persist): what a crash brings back is what
\* the peers were told.
PersistedBeforeSend ==
    \A n \in Server :
        durable[n] = [term |-> term[n], voted_for |-> voted_for[n], log |-> log[n]]

\* No step, a crash and recovery included, takes a node back to an earlier term
\* or changes the vote it cast in its term (Core::vote_for, Core::can_vote_for).
OneVotePerTerm ==
    [][\A n \in Server :
        /\ term'[n] >= term[n]
        /\ term'[n] = term[n] /\ voted_for[n] # Nil => voted_for'[n] = voted_for[n]]_vars

\* The terms that entries have, on the nodes that hold or applied them.
EntryTerms ==
    UNION {{TermAt(log[n], i) : i \in DOMAIN log[n]} : n \in Server} \cup
    UNION {{TermAt(applied[n], i) : i \in DOMAIN applied[n]} : n \in Server}

\* While only one leader's entries are about, what a node has applied is in the durable
\* log of a quorum (Leader::advance_commit_index counts match_index).
AppliedOnQuorum ==
    Cardinality(EntryTerms) <= 1 =>
        \A n \in Server : \A i \in 1..Len(applied[n]) :
            HasQuorum({p \in Server : /\ Len(durable[p].log) >= i
                                      /\ durable[p].log[i] = applied[n][i]})

\* A leader's log starts with everything that a node of its term or an earlier
\* one has applied (the up-to-date check of Core::log_is_up_to_date).
LeaderCompleteness ==
    \A l, n \in Server : role[l] = "Leader" /\ term[n] <= term[l] =>
        /\ Len(applied[n]) <= Len(log[l])
        /\ applied[n] = SubSeq(log[l], 1, Len(applied[n]))

\* What RaftStore appends to the WAL when it saves is enough: replayed onto the
\* state before the save it is accepted and gives exactly the state saved, so a
\* restart recovers it.  This rests on log matching: common_prefix compares only
\* terms.
DeltaExact ==
    [][\A n \in Server : durable'[n] # durable[n] =>
          LET delta == Delta(durable[n], durable'[n]) IN
          /\ Applicable(durable[n], delta)
          /\ apply_delta(durable[n], delta) = durable'[n]]_vars
=============================================================================
