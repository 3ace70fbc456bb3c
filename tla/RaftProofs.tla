----------------------------- MODULE RaftProofs -----------------------------
(***************************************************************************)
(* Type correctness of Raft for every cluster and every bound.             *)
(***************************************************************************)
EXTENDS Raft, RaftLogProofs, FiniteSetTheorems

\* An AppendRequest whose previous index is beyond the sender's log (its term
\* is then 0) carries no entries, so the consistency check of the follower,
\* which it may pass, lets nothing be appended past the end of a log.
AppendShape ==
    \A m \in messages :
        m.type = "AppendRequest" /\ m.prev_log_index > 0 /\ m.prev_log_term = 0
        => m.entries = << >>

\* Term 0 is the term before any election: no entry is proposed in it.
ElectedLater ==
    \A n \in Server : role[n] \in {"Candidate", "Leader"} => term[n] # 0

TypeInv == TypeOK /\ AppendShape /\ ElectedLater

\* What send_append_to builds is a message of the right shape, and next_index
\* stays positive.
LEMMA AppendRequestType ==
    ASSUME NEW n \in Server, NEW p \in Server, NEW t \in Nat, NEW lg \in Seq(Entry),
           NEW next \in Nat \ {0}, NEW ci \in Nat
    PROVE  LET m == AppendRequest(n, p, t, lg, next, ci) IN
           /\ m \in Message
           /\ m.prev_log_index > 0 /\ m.prev_log_term = 0 => m.entries = << >>
           /\ NextAfterSend(lg, next) \in Nat \ {0}
<1>1. Len(lg) \in Nat BY LenProperties
<1>2. Lesser(next + MaxEntries, Len(lg) + 1) \in Nat
  BY <1>1, ConfigAssumption DEF Lesser
<1>3. EntriesFrom(lg, next) \in Seq(Entry) BY <1>2, SliceType DEF EntriesFrom
<1>4. next > Len(lg) => EntriesFrom(lg, next) = << >> BY <1>2, SliceType DEF EntriesFrom
<1>5. /\ next - 1 \in Nat
      /\ TermAt(lg, next - 1) \in Nat
      /\ next - 1 \in 1..Len(lg) <=> TermAt(lg, next - 1) # 0
  BY TermAtType
<1>6. NextAfterSend(lg, next) \in Nat \ {0}
  BY <1>3, LenProperties DEF NextAfterSend
<1>7. AppendRequest(n, p, t, lg, next, ci) \in Message
  BY <1>3, <1>5 DEF AppendRequest, Message
<1>8. next - 1 > 0 /\ TermAt(lg, next - 1) = 0 => EntriesFrom(lg, next) = << >>
  BY <1>1, <1>4, <1>5
<1> QED BY <1>6, <1>7, <1>8 DEF AppendRequest

\* The commit index stays a natural number and does not move back.
LEMMA CommitIndexType ==
    ASSUME NEW lg \in Seq(Entry), NEW t \in Nat, NEW ci \in Nat, NEW mi \in [Server -> Nat]
    PROVE  CommitIndex(lg, t, ci, mi) \in Nat /\ CommitIndex(lg, t, ci, mi) >= ci
<1> DEFINE ready == {i \in (ci + 1)..Len(lg) :
                      lg[i].term = t /\ HasQuorum({p \in Server : mi[p] >= i})}
<1>1. CASE ready = {} BY <1>1 DEF CommitIndex
<1>2. CASE ready # {}
  <2>1. Len(lg) \in Nat BY LenProperties
  <2>2. ready \in SUBSET (0..Len(lg)) BY <2>1
  <2>3. ready \in SUBSET ((ci + 1)..Len(lg)) OBVIOUS
  <2>4. CommitIndex(lg, t, ci, mi) = Max(ready) BY <1>2, Zenon DEF CommitIndex
  <2> HIDE DEF ready
  <2>5. Max(ready) \in ready BY <1>2, <2>1, <2>2, MaxProperties, Zenon
  <2>6. Max(ready) \in (ci + 1)..Len(lg) BY <2>3, <2>5, Zenon
  <2> QED BY <2>1, <2>4, <2>6
<1> QED BY <1>1, <1>2, Zenon

\* The types hold initially.
LEMMA TypeInit == Init => TypeInv
<1> SUFFICES ASSUME Init PROVE TypeInv OBVIOUS
<1>1. << >> \in Seq(Entry) BY EmptySeq
<1>2. TypeOK BY <1>1, ServerAssumption DEF Init, TypeOK, Role
<1> QED BY <1>2 DEF Init, TypeInv, AppendShape, ElectedLater

\* Adding well-formed messages keeps the network well formed.
LEMMA SendType ==
    ASSUME TypeInv, NEW ms, Send(ms), ms \subseteq Message,
           \A m \in ms : m.type = "AppendRequest" /\ m.prev_log_index > 0 /\ m.prev_log_term = 0
                         => m.entries = << >>
    PROVE  messages' \subseteq Message /\ AppendShape'
BY DEF TypeInv, TypeOK, Send, AppendShape

\* The heartbeats of Leader::new.
LEMMA BecomeLeaderType ==
    ASSUME TypeInv, NEW n \in Server, NEW t \in Nat, BecomeLeader(n, t)
    PROVE  /\ role' \in [Server -> Role]
           /\ leader' \in [Server -> Server \cup {Nil}]
           /\ contact' \in [Server -> BOOLEAN]
           /\ next_index' \in [Server -> [Server -> Nat \ {0}]]
           /\ match_index' \in [Server -> [Server -> Nat]]
           /\ messages' \subseteq Message
           /\ AppendShape'
<1>1. log[n] \in Seq(Entry) /\ Len(log[n]) \in Nat /\ commit_index[n] \in Nat
  BY LenProperties DEF TypeInv, TypeOK
<1>2. /\ role' \in [Server -> Role]
      /\ leader' \in [Server -> Server \cup {Nil}]
      /\ contact' \in [Server -> BOOLEAN]
  BY DEF TypeInv, TypeOK, BecomeLeader, Role
<1>3. next_index' \in [Server -> [Server -> Nat \ {0}]]
  <2>1. [p \in Server |-> Len(log[n]) + 1] \in [Server -> Nat \ {0}] BY <1>1
  <2> QED BY <2>1 DEF TypeInv, TypeOK, BecomeLeader
<1>4. match_index' \in [Server -> [Server -> Nat]]
  <2>1. [p \in Server |-> IF p = n THEN Len(log[n]) ELSE 0] \in [Server -> Nat] BY <1>1
  <2> QED BY <2>1 DEF TypeInv, TypeOK, BecomeLeader
<1> DEFINE ms == {AppendRequest(n, p, t, log[n], Len(log[n]) + 1, commit_index[n]) : p \in Peers(n)}
<1>5. \A m \in ms : /\ m \in Message
                    /\ m.prev_log_index > 0 /\ m.prev_log_term = 0 => m.entries = << >>
  <2> SUFFICES ASSUME NEW p \in Peers(n)
               PROVE  LET m == AppendRequest(n, p, t, log[n], Len(log[n]) + 1, commit_index[n]) IN
                      /\ m \in Message
                      /\ m.prev_log_index > 0 /\ m.prev_log_term = 0 => m.entries = << >>
    OBVIOUS
  <2>1. p \in Server BY DEF Peers
  <2> DEFINE lg == log[n]  next == Len(log[n]) + 1  ci == commit_index[n]
  <2>2. lg \in Seq(Entry) /\ next \in Nat \ {0} /\ ci \in Nat BY <1>1
  <2> HIDE DEF lg, next, ci
  <2>3. LET m == AppendRequest(n, p, t, lg, next, ci) IN
        /\ m \in Message
        /\ m.prev_log_index > 0 /\ m.prev_log_term = 0 => m.entries = << >>
    BY <2>1, <2>2, AppendRequestType
  <2> QED BY <2>3 DEF lg, next, ci
<1>6. Send(ms) BY DEF BecomeLeader
<1>7. messages' \subseteq Message /\ AppendShape'
  <2> HIDE DEF ms
  <2> QED BY <1>5, <1>6, SendType
<1> QED BY <1>2, <1>3, <1>4, <1>7

\* Candidate::new, with an immediate win of a node that is a quorum by itself.
LEMMA BecomeCandidateType ==
    ASSUME TypeInv, NEW n \in Server, NEW t \in Nat \ {0}, NEW boot \in BOOLEAN,
           BecomeCandidate(n, t, boot)
    PROVE  TypeInv'
<1>1. /\ term' \in [Server -> Nat]
      /\ voted_for' \in [Server -> Server \cup {Nil}]
      /\ votes' \in [Server -> SUBSET Server]
      /\ log' = log /\ commit_index' = commit_index /\ applied' = applied
  BY DEF TypeInv, TypeOK, BecomeCandidate, machine
<1>2. durable' \in [Server -> [term : Nat, voted_for : Server \cup {Nil}, log : Seq(Entry)]]
  BY <1>1 DEF TypeInv, TypeOK, BecomeCandidate, Persist
<1>3. /\ role' \in [Server -> Role]
      /\ leader' \in [Server -> Server \cup {Nil}]
      /\ contact' \in [Server -> BOOLEAN]
      /\ next_index' \in [Server -> [Server -> Nat \ {0}]]
      /\ match_index' \in [Server -> [Server -> Nat]]
      /\ messages' \subseteq Message
      /\ AppendShape'
  <2>1. CASE HasQuorum({n})
    BY <2>1, BecomeLeaderType DEF BecomeCandidate
  <2>2. CASE ~ HasQuorum({n})
    <3> DEFINE ms == {VoteRequest(n, p, t, log[n]) : p \in Peers(n)}
    <3>1. Len(log[n]) \in Nat /\ LastTerm(log[n]) \in Nat
      BY LenProperties, TermAtType DEF TypeInv, TypeOK, LastTerm
    <3>2. \A m \in ms : m \in Message /\ m.type = "VoteRequest"
      BY <3>1 DEF VoteRequest, Message, Peers
    <3>3. Send(ms) BY <2>2 DEF BecomeCandidate
    <3>4. messages' \subseteq Message /\ AppendShape'
      <4> HIDE DEF ms
      <4> QED BY <3>2, <3>3, SendType
    <3>5. /\ role' \in [Server -> Role]
          /\ leader' \in [Server -> Server \cup {Nil}]
          /\ contact' \in [Server -> BOOLEAN]
      BY <2>2, Zenon DEF TypeInv, TypeOK, BecomeCandidate, Role
    <3>6. next_index' = next_index /\ match_index' = match_index
      BY <2>2 DEF BecomeCandidate, progress
    <3> QED BY <3>4, <3>5, <3>6 DEF TypeInv, TypeOK
  <2> QED BY <2>1, <2>2
<1>4. term'[n] = t /\ \A k \in Server \ {n} : role'[k] = role[k] /\ term'[k] = term[k]
  BY SMTT(60) DEF BecomeCandidate, BecomeLeader, TypeInv, TypeOK
<1> QED BY <1>1, <1>2, <1>3, <1>4, Zenon DEF TypeInv, TypeOK, ElectedLater

\* Stepping down changes only the role.
LEMMA BecomeFollowerType ==
    ASSUME TypeInv, NEW n \in Server, NEW l \in Server \cup {Nil}, NEW heard \in BOOLEAN,
           BecomeFollower(n, l, heard)
    PROVE  /\ role' \in [Server -> Role]
           /\ leader' \in [Server -> Server \cup {Nil}]
           /\ contact' \in [Server -> BOOLEAN]
           /\ votes' \in [Server -> SUBSET Server]
           /\ next_index' \in [Server -> [Server -> Nat \ {0}]]
           /\ match_index' \in [Server -> [Server -> Nat]]
<1>1. /\ [p \in Server |-> 1] \in [Server -> Nat \ {0}]
      /\ [p \in Server |-> 0] \in [Server -> Nat]
  OBVIOUS
<1> QED BY <1>1 DEF TypeInv, TypeOK, BecomeFollower, ForgetProgress, Role

\* Saving well-typed persistent state leaves well-typed durable state.
LEMMA PersistType ==
    ASSUME TypeInv, NEW n \in Server, Persist(n), term' \in [Server -> Nat],
           voted_for' \in [Server -> Server \cup {Nil}], log' \in [Server -> Seq(Entry)]
    PROVE  durable' \in [Server -> [term : Nat, voted_for : Server \cup {Nil}, log : Seq(Entry)]]
BY Zenon DEF TypeInv, TypeOK, Persist

\* A step that only sends a well-formed message.
LEMMA ReplyType ==
    ASSUME TypeInv, NEW r \in Message, r.type # "AppendRequest", Send({r}),
           UNCHANGED <<persistent, durable, roles, machine>>
    PROVE  TypeInv'
<1>1. messages' \subseteq Message /\ AppendShape' BY SendType
<1> QED BY <1>1 DEF TypeInv, TypeOK, ElectedLater, persistent, roles, progress, machine

\* broadcast_append, for a heartbeat or a proposal.
LEMMA BroadcastType ==
    ASSUME TypeInv, NEW n \in Server, NEW lg \in Seq(Entry), NEW ci \in Nat,
           Broadcast(n, lg, ci)
    PROVE  /\ next_index' \in [Server -> [Server -> Nat \ {0}]]
           /\ messages' \subseteq Message
           /\ AppendShape'
<1>1. term[n] \in Nat /\ \A p \in Server : next_index[n][p] \in Nat \ {0}
  BY DEF TypeInv, TypeOK
<1>2. \A p \in Server : NextAfterSend(lg, next_index[n][p]) \in Nat \ {0}
  BY <1>1, AppendRequestType
<1>3. [p \in Server |-> IF p = n THEN next_index[n][p]
                        ELSE NextAfterSend(lg, next_index[n][p])] \in [Server -> Nat \ {0}]
  BY <1>1, <1>2
<1>4. next_index' \in [Server -> [Server -> Nat \ {0}]]
  BY <1>3 DEF TypeInv, TypeOK, Broadcast
<1> DEFINE ms == {AppendRequest(n, p, term[n], lg, next_index[n][p], ci) : p \in Peers(n)}
<1>5. \A m \in ms : /\ m \in Message
                    /\ m.prev_log_index > 0 /\ m.prev_log_term = 0 => m.entries = << >>
  <2> SUFFICES ASSUME NEW p \in Peers(n)
               PROVE  LET m == AppendRequest(n, p, term[n], lg, next_index[n][p], ci) IN
                      /\ m \in Message
                      /\ m.prev_log_index > 0 /\ m.prev_log_term = 0 => m.entries = << >>
    OBVIOUS
  <2>1. p \in Server BY DEF Peers
  <2>2. next_index[n][p] \in Nat \ {0} BY <1>1, <2>1
  <2> QED BY <1>1, <2>1, <2>2, AppendRequestType, SMTT(60)
<1>6. Send(ms) BY DEF Broadcast
<1>7. messages' \subseteq Message /\ AppendShape'
  <2> HIDE DEF ms
  <2> QED BY <1>5, <1>6, SendType
<1> QED BY <1>4, <1>7

\* The envelope of a message in the network, and the payloads by type.
LEMMA MessageFields ==
    ASSUME TypeInv, NEW m \in messages
    PROVE  /\ m \in Message
           /\ m.from \in Server /\ m.to \in Server /\ m.term \in Nat
           /\ m.type \in {"VoteRequest", "PreVoteRequest"} =>
                m.last_log_index \in Nat /\ m.last_log_term \in Nat
           /\ m.type = "PreVoteRequest" => m.next_term \in Nat
           /\ m.type = "PreVoteResponse" => m.resp_term \in Nat
           /\ m.type = "AppendRequest" =>
                /\ m.prev_log_index \in Nat /\ m.prev_log_term \in Nat
                /\ m.entries \in Seq(Entry) /\ m.leader_commit \in Nat
           /\ m.type = "AppendResponse" => m.last_log_index \in Nat
<1>1. m \in Message BY DEF TypeInv, TypeOK
<1> QED BY <1>1 DEF Message

\* Adopting a later term as a follower or on stepping down.
LEMMA AdoptTermType ==
    ASSUME TypeInv, NEW n \in Server, NEW t \in Nat, AdoptTerm(n, t)
    PROVE  /\ term' \in [Server -> Nat]
           /\ voted_for' \in [Server -> Server \cup {Nil}]
           /\ log' = log /\ log' \in [Server -> Seq(Entry)]
BY DEF TypeInv, TypeOK, AdoptTerm

\* A later term makes a node a follower (StepDown, PreVoteBehind).
LEMMA StepDownType ==
    ASSUME TypeInv, NEW n \in Server, NEW t \in Nat, NEW l \in Server \cup {Nil},
           AdoptTerm(n, t), BecomeFollower(n, l, FALSE), Persist(n),
           UNCHANGED <<machine, messages>>
    PROVE  TypeInv'
<1>1. /\ term' \in [Server -> Nat]
      /\ voted_for' \in [Server -> Server \cup {Nil}]
      /\ log' = log /\ log' \in [Server -> Seq(Entry)]
  BY AdoptTermType
<1>2. durable' \in [Server -> [term : Nat, voted_for : Server \cup {Nil}, log : Seq(Entry)]]
  BY <1>1, PersistType, Zenon
<1>3. /\ role' \in [Server -> Role]
      /\ leader' \in [Server -> Server \cup {Nil}]
      /\ contact' \in [Server -> BOOLEAN]
      /\ votes' \in [Server -> SUBSET Server]
      /\ next_index' \in [Server -> [Server -> Nat \ {0}]]
      /\ match_index' \in [Server -> [Server -> Nat]]
  BY BecomeFollowerType, Zenon
<1>4. ElectedLater'
  BY DEF BecomeFollower, AdoptTerm, TypeInv, TypeOK, ElectedLater
<1> QED BY <1>1, <1>2, <1>3, <1>4, Zenon DEF TypeInv, TypeOK, AppendShape, machine

\* Handling a message preserves the types.
LEMMA ReceiveType == ASSUME TypeInv, NEW m \in messages, Receive(m) PROVE TypeInv'
<1> DEFINE n == m.to
<1>a. /\ m \in Message
      /\ m.from \in Server /\ n \in Server /\ m.term \in Nat
      /\ m.type \in {"VoteRequest", "PreVoteRequest"} =>
           m.last_log_index \in Nat /\ m.last_log_term \in Nat
      /\ m.type = "PreVoteRequest" => m.next_term \in Nat
      /\ m.type = "PreVoteResponse" => m.resp_term \in Nat
      /\ m.type = "AppendRequest" =>
           /\ m.prev_log_index \in Nat /\ m.prev_log_term \in Nat
           /\ m.entries \in Seq(Entry) /\ m.leader_commit \in Nat
      /\ m.type = "AppendResponse" => m.last_log_index \in Nat
  BY MessageFields
<1>b. term[n] \in Nat /\ log[n] \in Seq(Entry) /\ Len(log[n]) \in Nat
  BY <1>a, LenProperties DEF TypeInv, TypeOK
<1>1. CASE RefuseVote(m)
  <2> DEFINE r == VoteResponse(n, m.from, term[n], FALSE)
  <2>1. r \in Message /\ r.type # "AppendRequest" BY <1>a, <1>b DEF VoteResponse, Message
  <2> QED BY <1>1, <2>1, ReplyType, Zenon DEF RefuseVote
<1>2. CASE FollowerVote(m)
  <2> DEFINE ballot == IF m.term > term[n] THEN Nil ELSE voted_for[n]
             g == /\ ballot \in {Nil, m.from}
                  /\ UpToDate(log[n], m.last_log_term, m.last_log_index)
             r == VoteResponse(n, m.from, m.term, g)
  <2>1. /\ role[n] = "Follower"
        /\ term' = [term EXCEPT ![n] = m.term]
        /\ voted_for' = [voted_for EXCEPT ![n] = IF g THEN m.from ELSE ballot]
        /\ Send({r})
        /\ UNCHANGED <<log, roles, machine>>
        /\ Persist(n) \/ UNCHANGED durable
    BY <1>2, Zenon DEF FollowerVote, can_vote_for
  <2>2. ballot \in Server \cup {Nil} BY <1>a, Zenon DEF TypeInv, TypeOK
  <2>3. r \in Message /\ r.type # "AppendRequest"
    <3>1. g \in BOOLEAN OBVIOUS
    <3> HIDE DEF g
    <3> QED BY <1>a, <3>1 DEF VoteResponse, Message
  <2> HIDE DEF g, r, ballot
  <2>4. /\ term' \in [Server -> Nat]
        /\ voted_for' \in [Server -> Server \cup {Nil}]
        /\ log' \in [Server -> Seq(Entry)]
    BY <2>1, <2>2, <1>a, Zenon DEF TypeInv, TypeOK
  <2>5. durable' \in [Server -> [term : Nat, voted_for : Server \cup {Nil}, log : Seq(Entry)]]
    <3>1. CASE Persist(n) BY <3>1, <2>4, <1>a, PersistType, Zenon
    <3>2. CASE UNCHANGED durable BY <3>2 DEF TypeInv, TypeOK
    <3> QED BY <2>1, <3>1, <3>2
  <2>6. messages' \subseteq Message /\ AppendShape' BY <2>1, <2>3, SendType
  <2>7. ElectedLater' BY <2>1, <1>a, Zenon DEF TypeInv, TypeOK, ElectedLater, roles
  <2> QED BY <2>1, <2>4, <2>5, <2>6, <2>7, Zenon
          DEF TypeInv, TypeOK, roles, progress, machine
<1>3. CASE CountVote(m)
  <2>1. votes' \in [Server -> SUBSET Server] BY <1>3, <1>a, Zenon DEF CountVote, TypeInv, TypeOK
  <2>2. UNCHANGED <<persistent, durable, machine>> /\ role[n] = "Candidate" BY <1>3 DEF CountVote
  <2>3. CASE HasQuorum(votes[n] \cup {m.from})
    <3>1. BecomeLeader(n, term[n]) BY <1>3, <2>3 DEF CountVote
    <3>2. /\ role' \in [Server -> Role]
          /\ leader' \in [Server -> Server \cup {Nil}]
          /\ contact' \in [Server -> BOOLEAN]
          /\ next_index' \in [Server -> [Server -> Nat \ {0}]]
          /\ match_index' \in [Server -> [Server -> Nat]]
          /\ messages' \subseteq Message
          /\ AppendShape'
      BY <3>1, <1>a, <1>b, BecomeLeaderType
    <3>3. ElectedLater'
      BY <1>a, <2>2, <3>1, Zenon DEF BecomeLeader, ElectedLater, TypeInv, TypeOK, persistent
    <3> QED BY <2>1, <2>2, <3>2, <3>3, Zenon DEF TypeInv, TypeOK, persistent, machine
  <2>4. CASE ~ HasQuorum(votes[n] \cup {m.from})
    <3>1. UNCHANGED <<role, leader, contact, progress, messages>> BY <1>3, <2>4 DEF CountVote
    <3>2. TypeOK' BY <2>1, <2>2, <3>1, Zenon DEF TypeInv, TypeOK, persistent, progress, machine
    <3>3. AppendShape' /\ ElectedLater'
      BY <2>2, <3>1 DEF TypeInv, AppendShape, ElectedLater, persistent
    <3> QED BY <3>2, <3>3 DEF TypeInv
  <2> QED BY <2>3, <2>4
<1>4. CASE RefusePreVote(m)
  <2> DEFINE r == PreVoteResponse(n, m.from, term[n], term[n], FALSE)
  <2>1. r \in Message /\ r.type # "AppendRequest" BY <1>a, <1>b, Zenon DEF PreVoteResponse, Message
  <2> QED BY <1>4, <2>1, ReplyType, Zenon DEF RefusePreVote
<1>5. CASE AnswerPreVote(m)
  <2> DEFINE g == /\ m.next_term > term[n]
                  /\ UpToDate(log[n], m.last_log_term, m.last_log_index)
             r == PreVoteResponse(n, m.from, m.term, term[n], g)
  <2>1. g \in BOOLEAN OBVIOUS
  <2>2. r \in Message /\ r.type # "AppendRequest"
    <3> HIDE DEF g
    <3> QED BY <1>a, <1>b, <2>1, Zenon DEF PreVoteResponse, Message
  <2>3. Send({r}) /\ UNCHANGED <<persistent, durable, roles, machine>>
    BY <1>5, Zenon DEF AnswerPreVote, PreVoteGranted
  <2> QED
    <3> HIDE DEF r
    <3> QED BY <2>2, <2>3, ReplyType
<1>6. CASE CountPreVote(m)
  <2>1. CASE HasQuorum(votes[n] \cup {m.from})
    <3>1. BecomeCandidate(n, term[n] + 1, FALSE) BY <1>6, <2>1, Zenon DEF CountPreVote
    <3>2. term[n] + 1 \in Nat \ {0} BY <1>b
    <3> QED BY <3>1, <3>2, <1>a, BecomeCandidateType, Zenon
  <2>2. CASE ~ HasQuorum(votes[n] \cup {m.from})
    <3>1. /\ votes' = [votes EXCEPT ![n] = votes[n] \cup {m.from}]
          /\ UNCHANGED <<persistent, durable, role, leader, contact, progress, machine, messages>>
      BY <1>6, <2>2, Zenon DEF CountPreVote
    <3>2. votes' \in [Server -> SUBSET Server] BY <3>1, <1>a, Zenon DEF TypeInv, TypeOK
    <3> QED BY <3>1, <3>2, Zenon
            DEF TypeInv, TypeOK, AppendShape, ElectedLater, persistent, progress, machine
  <2> QED BY <2>1, <2>2
<1>7. CASE PreVoteBehind(m)
  BY <1>7, <1>a, StepDownType, Zenon DEF PreVoteBehind
<1>8. CASE StepDown(m)
  <2> DEFINE l == IF m.type = "AppendRequest" THEN m.from ELSE Nil
  <2>1. l \in Server \cup {Nil} BY <1>a
  <2>2. AdoptTerm(n, m.term) /\ BecomeFollower(n, l, FALSE) /\ Persist(n)
        /\ UNCHANGED <<machine, messages>>
    BY <1>8, Zenon DEF StepDown
  <2> HIDE DEF l
  <2> QED BY <1>a, <2>1, <2>2, StepDownType, Zenon
<1>9. CASE FollowerAdoptTerm(m)
  <2>1. AdoptTerm(n, m.term) /\ Persist(n) /\ UNCHANGED <<roles, machine, messages>>
        /\ role[n] = "Follower"
    BY <1>9 DEF FollowerAdoptTerm
  <2>2. /\ term' \in [Server -> Nat]
        /\ voted_for' \in [Server -> Server \cup {Nil}]
        /\ log' = log /\ log' \in [Server -> Seq(Entry)]
    BY <2>1, <1>a, AdoptTermType, Zenon
  <2>3. durable' \in [Server -> [term : Nat, voted_for : Server \cup {Nil}, log : Seq(Entry)]]
    BY <2>1, <2>2, <1>a, PersistType
  <2>4. ElectedLater'
    BY <2>1, <1>a, Zenon DEF AdoptTerm, TypeInv, TypeOK, ElectedLater, roles
  <2> QED BY <2>1, <2>2, <2>3, <2>4, Zenon
          DEF TypeInv, TypeOK, AppendShape, roles, progress, machine
<1>10. CASE RefuseAppend(m)
  <2> DEFINE r == AppendResponse(n, m.from, term[n], FALSE, Len(log[n]))
  <2>1. r \in Message /\ r.type # "AppendRequest" BY <1>a, <1>b, Zenon DEF AppendResponse, Message
  <2> QED BY <1>10, <2>1, ReplyType, Zenon DEF RefuseAppend
<1>11. CASE YieldToLeader(m)
  <2>1. BecomeFollower(n, m.from, TRUE) /\ UNCHANGED <<persistent, durable, machine, messages>>
    BY <1>11, Zenon DEF YieldToLeader
  <2>2. /\ role' \in [Server -> Role]
        /\ leader' \in [Server -> Server \cup {Nil}]
        /\ contact' \in [Server -> BOOLEAN]
        /\ votes' \in [Server -> SUBSET Server]
        /\ next_index' \in [Server -> [Server -> Nat \ {0}]]
        /\ match_index' \in [Server -> [Server -> Nat]]
    BY <2>1, <1>a, BecomeFollowerType, Zenon
  <2>3. ElectedLater'
    BY <2>1, <1>a, Zenon DEF BecomeFollower, TypeInv, TypeOK, ElectedLater, persistent
  <2> QED BY <2>1, <2>2, <2>3, Zenon DEF TypeInv, TypeOK, AppendShape, persistent, machine
<1>12. CASE FollowerAppend(m)
  <2> DEFINE ok == Consistent(log[n], m.prev_log_index, m.prev_log_term)
             lg == IF ok THEN Merge(log[n], m.prev_log_index, m.entries) ELSE log[n]
             ci == IF ok /\ m.leader_commit > commit_index[n]
                   THEN Lesser(m.leader_commit, Len(lg)) ELSE commit_index[n]
             r == AppendResponse(n, m.from, m.term, ok, Len(lg))
  <2>1. /\ m.type = "AppendRequest"
        /\ role[n] = "Follower"
        /\ term' = [term EXCEPT ![n] = m.term]
        /\ voted_for' = [voted_for EXCEPT ![n] = IF m.term > term[n] THEN Nil ELSE @]
        /\ log' = [log EXCEPT ![n] = lg]
        /\ leader' = [leader EXCEPT ![n] = m.from]
        /\ contact' = [contact EXCEPT ![n] = TRUE]
        /\ commit_index' = [commit_index EXCEPT ![n] = ci]
        /\ applied' = [applied EXCEPT ![n] = Apply(@, lg, ci)]
        /\ Send({r})
        /\ UNCHANGED <<role, votes, progress>>
        /\ Persist(n) \/ UNCHANGED durable
    BY <1>12, Zenon DEF FollowerAppend
  <2>2. lg \in Seq(Entry)
    <3>1. CASE ok
      <4>1. m.prev_log_index <= Len(log[n]) \/ m.entries = << >>
        <5>1. \/ m.prev_log_index = 0
              \/ TermAt(log[n], m.prev_log_index) = m.prev_log_term
          BY <3>1 DEF Consistent
        <5>0. m.prev_log_index \in Nat BY <1>a, <2>1, Zenon
        <5>2. m.prev_log_index \in 1..Len(log[n]) <=> TermAt(log[n], m.prev_log_index) # 0
          <6>1. m.prev_log_index \in Int BY <5>0
          <6>2. log[n] \in Seq(Entry) BY <1>b
          <6> QED BY <6>1, <6>2, TermAtType, Zenon
        <5>3. m.prev_log_index > 0 /\ m.prev_log_term = 0 => m.entries = << >>
          BY <2>1, Zenon DEF TypeInv, AppendShape
        <5>4. Len(log[n]) \in Nat BY <1>b
        <5> HIDE DEF n
        <5> QED BY <5>0, <5>1, <5>2, <5>3, <5>4, SMTT(60)
      <4>2. /\ m.prev_log_index \in Nat /\ m.entries \in Seq(Entry)
            /\ log[n] \in Seq(Entry)
        BY <1>a, <1>b, <2>1, Zenon
      <4>3. Merge(log[n], m.prev_log_index, m.entries) \in Seq(Entry)
        BY <4>1, <4>2, MergeType, Zenon
      <4> QED BY <3>1, <4>3
    <3>2. CASE ~ ok BY <1>b, <3>2
    <3> QED BY <3>1, <3>2, Zenon
  <2>3. ok \in BOOLEAN BY DEF Consistent
  <2> HIDE DEF ok, lg
  <2>4. Len(lg) \in Nat BY <2>2, LenProperties
  <2>5. ci \in Nat BY <1>a, <2>1, <2>4, Zenon DEF Lesser, TypeInv, TypeOK
  <2>6. r \in Message /\ r.type # "AppendRequest"
    BY <1>a, <2>3, <2>4, Zenon DEF AppendResponse, Message
  <2> HIDE DEF ci, r
  <2>7. /\ term' \in [Server -> Nat]
        /\ voted_for' \in [Server -> Server \cup {Nil}]
        /\ log' \in [Server -> Seq(Entry)]
        /\ leader' \in [Server -> Server \cup {Nil}]
        /\ contact' \in [Server -> BOOLEAN]
        /\ commit_index' \in [Server -> Nat]
    BY <2>1, <2>2, <2>5, <1>a, Zenon DEF TypeInv, TypeOK
  <2>8. applied' \in [Server -> Seq(Entry)]
    <3>1. applied[n] \in Seq(Entry) BY <1>a, Zenon DEF TypeInv, TypeOK
    <3>2. Apply(applied[n], lg, ci) \in Seq(Entry) BY <3>1, <2>2, <2>5, ApplyType, Zenon
    <3> QED BY <3>2, <2>1, Zenon DEF TypeInv, TypeOK
  <2>9. durable' \in [Server -> [term : Nat, voted_for : Server \cup {Nil}, log : Seq(Entry)]]
    <3>1. CASE Persist(n) BY <3>1, <2>7, <1>a, PersistType, Zenon
    <3>2. CASE UNCHANGED durable BY <3>2 DEF TypeInv, TypeOK
    <3> QED BY <2>1, <3>1, <3>2, Zenon
  <2>10. messages' \subseteq Message /\ AppendShape' BY <2>1, <2>6, SendType
  <2>11. ElectedLater' BY <2>1, <1>a, Zenon DEF TypeInv, TypeOK, ElectedLater
  <2> QED BY <2>1, <2>7, <2>8, <2>9, <2>10, <2>11, Zenon DEF TypeInv, TypeOK, progress
<1>13. CASE AppendAccepted(m)
  <2> DEFINE mi == [match_index[n] EXCEPT ![m.from] = m.last_log_index]
             ci == CommitIndex(log[n], term[n], commit_index[n], mi)
  <2>1. /\ m.type = "AppendResponse"
        /\ match_index' = [match_index EXCEPT ![n] = mi]
        /\ \/ next_index' = next_index
           \/ next_index' = [next_index EXCEPT ![n][m.from] = m.last_log_index + 1]
        /\ commit_index' = [commit_index EXCEPT ![n] = ci]
        /\ applied' = [applied EXCEPT ![n] = Apply(@, log[n], ci)]
        /\ UNCHANGED <<persistent, durable, role, leader, contact, votes, messages>>
    BY <1>13, Zenon DEF AppendAccepted
  <2>2. mi \in [Server -> Nat] BY <1>a, <2>1, Zenon DEF TypeInv, TypeOK
  <2>3. ci \in Nat
    <3> HIDE DEF mi
    <3>1. commit_index[n] \in Nat BY <1>a, Zenon DEF TypeInv, TypeOK
    <3> QED BY <1>b, <2>2, <3>1, CommitIndexType, Zenon
  <2> HIDE DEF mi, ci
  <2>4. match_index' \in [Server -> [Server -> Nat]] BY <2>1, <2>2, Zenon DEF TypeInv, TypeOK
  <2>5. next_index' \in [Server -> [Server -> Nat \ {0}]]
    <3>1. m.last_log_index + 1 \in Nat \ {0} BY <1>a, <2>1
    <3>2. CASE next_index' = next_index BY <3>2 DEF TypeInv, TypeOK
    <3>3. CASE next_index' = [next_index EXCEPT ![n][m.from] = m.last_log_index + 1]
      <4> DEFINE k == m.last_log_index + 1
      <4>1. next_index' = [next_index EXCEPT ![n][m.from] = k] BY <3>3
      <4>2. k \in Nat \ {0} BY <3>1
      <4> HIDE DEF k
      <4> QED BY <4>1, <4>2, <1>a, Zenon DEF TypeInv, TypeOK
    <3> QED BY <2>1, <3>2, <3>3
  <2>6. commit_index' \in [Server -> Nat] BY <2>1, <2>3, Zenon DEF TypeInv, TypeOK
  <2>7. applied' \in [Server -> Seq(Entry)]
    <3>1. applied[n] \in Seq(Entry) BY <1>a, Zenon DEF TypeInv, TypeOK
    <3>2. Apply(applied[n], log[n], ci) \in Seq(Entry) BY <3>1, <1>b, <2>3, ApplyType, Zenon
    <3> QED BY <3>2, <2>1, Zenon DEF TypeInv, TypeOK
  <2> QED BY <2>1, <2>4, <2>5, <2>6, <2>7, Zenon
          DEF TypeInv, TypeOK, AppendShape, ElectedLater, persistent
<1>14. CASE AppendRejected(m)
  <2> DEFINE next == NextAfterReject(m.last_log_index, match_index[n][m.from])
             r == AppendRequest(n, m.from, term[n], log[n], next, commit_index[n])
  <2>1. /\ m.type = "AppendResponse"
        /\ next_index' = [next_index EXCEPT ![n][m.from] = NextAfterSend(log[n], next)]
        /\ Send({r})
        /\ UNCHANGED <<persistent, durable, role, leader, contact, votes, match_index, machine>>
    BY <1>14 DEF AppendRejected
  <2>2. next \in Nat \ {0}
    <3>1. match_index[n][m.from] \in Nat /\ m.last_log_index \in Nat
      BY <1>a, <2>1, Zenon DEF TypeInv, TypeOK
    <3> QED BY <3>1 DEF Greater, NextAfterReject
  <2> HIDE DEF next
  <2>3. /\ r \in Message
        /\ r.prev_log_index > 0 /\ r.prev_log_term = 0 => r.entries = << >>
        /\ NextAfterSend(log[n], next) \in Nat \ {0}
    <3>1. commit_index[n] \in Nat BY <1>a, Zenon DEF TypeInv, TypeOK
    <3> QED BY <1>a, <1>b, <2>2, <3>1, AppendRequestType, Zenon
  <2>4. messages' \subseteq Message /\ AppendShape'
    <3> HIDE DEF r
    <3> QED BY <2>1, <2>3, SendType
  <2>5. next_index' \in [Server -> [Server -> Nat \ {0}]]
    BY <2>1, <2>3, Zenon DEF TypeInv, TypeOK
  <2> QED BY <2>1, <2>4, <2>5, Zenon DEF TypeInv, TypeOK, ElectedLater, persistent, machine
<1>15. ASSUME NEW boot \in BOOLEAN, CampaignNow(m, boot) PROVE TypeInv'
  <2>1. Greater(term[n], m.term) + 1 \in Nat \ {0} BY <1>a, <1>b DEF Greater
  <2>2. BecomeCandidate(n, Greater(term[n], m.term) + 1, boot) BY <1>15 DEF CampaignNow
  <2> QED BY <2>1, <2>2, <1>a, BecomeCandidateType
<1> QED
  BY <1>1, <1>2, <1>3, <1>4, <1>5, <1>6, <1>7, <1>8, <1>9, <1>10, <1>11, <1>12,
     <1>13, <1>14, <1>15 DEF Receive

\* Every step preserves the types.
LEMMA TypeStep == TypeInv /\ Next => TypeInv'
<1> SUFFICES ASSUME TypeInv, Step PROVE TypeInv' BY DEF Next
<1>1. ASSUME NEW n \in Server, ElectionTimeout(n) PROVE TypeInv'
  <2>1. CASE Prevote /\ role[n] # "Candidate" /\ ~ HasQuorum({n})
    <3>1. BecomePreCandidate(n) BY <1>1, <2>1 DEF ElectionTimeout
    <3> DEFINE ms == {PreVoteRequest(n, p, term[n], log[n]) : p \in Peers(n)}
    <3>2. Len(log[n]) \in Nat /\ LastTerm(log[n]) \in Nat /\ term[n] \in Nat
      BY LenProperties, TermAtType DEF TypeInv, TypeOK, LastTerm
    <3>3. \A m \in ms : m \in Message /\ m.type = "PreVoteRequest"
      BY <3>2 DEF PreVoteRequest, Message, Peers
    <3>4. Send(ms) BY <3>1 DEF BecomePreCandidate
    <3>5. messages' \subseteq Message /\ AppendShape'
      <4> HIDE DEF ms
      <4> QED BY <3>3, <3>4, SendType
    <3> QED BY <3>1, <3>5, Zenon
          DEF BecomePreCandidate, TypeInv, TypeOK, ElectedLater, Role, persistent, progress, machine
  <2>2. CASE ~ (Prevote /\ role[n] # "Candidate" /\ ~ HasQuorum({n}))
    <3>1. BecomeCandidate(n, term[n] + 1, FALSE) BY <1>1, <2>2, Zenon DEF ElectionTimeout
    <3>2. term[n] + 1 \in Nat \ {0} BY DEF TypeInv, TypeOK
    <3> QED BY <3>1, <3>2, BecomeCandidateType, Zenon
  <2> QED BY <2>1, <2>2
<1>2. ASSUME NEW n \in Server, Heartbeat(n) PROVE TypeInv'
  <2>1. log[n] \in Seq(Entry) /\ commit_index[n] \in Nat BY DEF TypeInv, TypeOK
  <2>2. Broadcast(n, log[n], commit_index[n]) BY <1>2, Zenon DEF Heartbeat
  <2>3. /\ next_index' \in [Server -> [Server -> Nat \ {0}]]
        /\ messages' \subseteq Message
        /\ AppendShape'
    BY <2>1, <2>2, BroadcastType
  <2> QED BY <1>2, <2>3, Zenon DEF Heartbeat, TypeInv, TypeOK, ElectedLater, persistent, machine
<1>3. ASSUME NEW n \in Server, NEW c \in Command, Propose(n, c) PROVE TypeInv'
  <2> DEFINE lg == Append(log[n], [term |-> term[n], command |-> c])
             mi == [match_index[n] EXCEPT ![n] = Len(lg)]
             ci == CommitIndex(lg, term[n], commit_index[n], mi)
  <2>1. term[n] \in Nat \ {0} BY <1>3, Zenon DEF Propose, TypeInv, TypeOK, ElectedLater
  <2>2. lg \in Seq(Entry)
    <3>1. [term |-> term[n], command |-> c] \in Entry BY <2>1 DEF Entry
    <3> QED BY <3>1, AppendProperties DEF TypeInv, TypeOK
  <2>3. mi \in [Server -> Nat] BY <2>2, LenProperties DEF TypeInv, TypeOK
  <2>4. ci \in Nat
    <3> HIDE DEF lg, mi
    <3> QED BY <2>1, <2>2, <2>3, CommitIndexType DEF TypeInv, TypeOK
  <2>5. Apply(applied[n], lg, ci) \in Seq(Entry)
    <3> HIDE DEF lg, ci
    <3> QED BY <2>2, <2>4, ApplyType DEF TypeInv, TypeOK
  <2>6. /\ Broadcast(n, lg, ci)
        /\ log' = [log EXCEPT ![n] = lg]
        /\ match_index' = [match_index EXCEPT ![n] = mi]
        /\ commit_index' = [commit_index EXCEPT ![n] = ci]
        /\ applied' = [applied EXCEPT ![n] = Apply(@, lg, ci)]
        /\ UNCHANGED <<term, voted_for, role, leader, contact, votes>>
        /\ Persist(n)
    BY <1>3 DEF Propose
  <2> HIDE DEF lg, mi, ci
  <2>7. /\ next_index' \in [Server -> [Server -> Nat \ {0}]]
        /\ messages' \subseteq Message
        /\ AppendShape'
    BY <2>2, <2>4, <2>6, BroadcastType
  <2>8. /\ log' \in [Server -> Seq(Entry)]
        /\ match_index' \in [Server -> [Server -> Nat]]
        /\ commit_index' \in [Server -> Nat]
        /\ applied' \in [Server -> Seq(Entry)]
    BY <2>2, <2>3, <2>4, <2>5, <2>6 DEF TypeInv, TypeOK
  <2>9. durable' \in [Server -> [term : Nat, voted_for : Server \cup {Nil}, log : Seq(Entry)]]
    BY <2>6, <2>8, PersistType, Zenon DEF TypeInv, TypeOK
  <2> QED BY <2>6, <2>7, <2>8, <2>9, Zenon DEF TypeInv, TypeOK, ElectedLater
<1>4. ASSUME NEW n \in Server, NEW p \in Server, TransferLeadership(n, p) PROVE TypeInv'
  <2>1. TimeoutNow(n, p, term[n]) \in Message BY Zenon DEF TimeoutNow, Message, TypeInv, TypeOK
  <2>2. TimeoutNow(n, p, term[n]).type # "AppendRequest" BY DEF TimeoutNow
  <2> QED BY <1>4, <2>1, <2>2, ReplyType, Zenon DEF TransferLeadership
<1>5. ASSUME NEW n \in Server, Restart(n) PROVE TypeInv'
  <2>1. /\ role' \in [Server -> Role]
        /\ leader' \in [Server -> Server \cup {Nil}]
        /\ contact' \in [Server -> BOOLEAN]
        /\ votes' \in [Server -> SUBSET Server]
        /\ next_index' \in [Server -> [Server -> Nat \ {0}]]
        /\ match_index' \in [Server -> [Server -> Nat]]
    BY <1>5, BecomeFollowerType, Zenon DEF Restart
  <2>2. /\ term' \in [Server -> Nat]
        /\ voted_for' \in [Server -> Server \cup {Nil}]
        /\ log' \in [Server -> Seq(Entry)]
        /\ commit_index' \in [Server -> Nat]
    BY <1>5, Zenon DEF Restart, TypeInv, TypeOK
  <2>3. applied' \in [Server -> Seq(Entry)]
    <3>1. << >> \in Seq(Entry) BY EmptySeq
    <3> QED BY <1>5, <3>1 DEF Restart, TypeInv, TypeOK
  <2>4. ElectedLater' BY <1>5 DEF Restart, BecomeFollower, TypeInv, TypeOK, ElectedLater
  <2>5. durable' = durable /\ messages' = messages /\ AppendShape'
    BY <1>5, Zenon DEF Restart, TypeInv, AppendShape
  <2> QED BY <2>1, <2>2, <2>3, <2>4, <2>5, Zenon DEF TypeInv, TypeOK
<1>6. ASSUME NEW m \in messages, Lose(m) PROVE TypeInv'
  BY <1>6, Zenon DEF Lose, TypeInv, TypeOK, AppendShape, ElectedLater,
              persistent, roles, progress, machine
<1>7. ASSUME NEW m \in messages, Receive(m) PROVE TypeInv'
  BY <1>7, ReceiveType
<1> QED
  BY <1>1, <1>2, <1>3, <1>4, <1>5, <1>6, <1>7 DEF Step

\* The types hold along every behaviour; AppendShape is what makes the log a
\* sequence whatever AppendRequest reaches it, in whatever order.
THEOREM TypesHold == Spec => []TypeInv
<1>1. TypeInv /\ [Next]_vars => TypeInv'
  <2>1. TypeInv /\ UNCHANGED vars => TypeInv'
    BY Zenon DEF TypeInv, TypeOK, AppendShape, ElectedLater, vars, persistent, roles, progress, machine
  <2> QED BY <2>1, TypeStep
<1> QED BY <1>1, TypeInit, PTL DEF Spec

\* Every variable of Raft keeps its type (TypeOK), for every cluster and bound.
THEOREM TypeCorrect == Spec => []TypeOK
<1>1. TypeInv => TypeOK BY DEF TypeInv
<1> QED BY <1>1, TypesHold, PTL
=============================================================================
