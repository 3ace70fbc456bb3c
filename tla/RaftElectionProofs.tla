------------------------- MODULE RaftElectionProofs -------------------------
(***************************************************************************)
(* Election safety of Raft, for every cluster and every bound, from what   *)
(* the votes of a term leave behind: in the voter, in the network and at   *)
(* the candidate.                                                          *)
(***************************************************************************)
EXTENDS RaftProofs

\* The present vote of q is for c, in term t.
Cast(q, c, t) == term[q] = t /\ voted_for[q] = c

\* A vote of q for c in term t is on its way.
Granted(q, c, t) ==
    \E m \in messages : /\ m.type = "VoteResponse" /\ m.granted
                        /\ m.from = q /\ m.to = c /\ m.term = t

\* c counts a vote of q in its present term t.
Counted(q, c, t) ==
    role[c] \in {"Candidate", "Leader"} /\ term[c] = t /\ q \in votes[c]

Supports(q, c, t) == Cast(q, c, t) \/ Granted(q, c, t) \/ Counted(q, c, t)

\* q can no longer support anyone but c in term t.
Past(q, c, t) == t < term[q] \/ Cast(q, c, t)
Sealed(q, c, t) == Past(q, c, t) /\ \A d \in Server : Supports(q, d, t) => d = c

Quorums == {Q \in SUBSET Server : HasQuorum(Q)}

\* The traces of a vote agree with the voter, and with each other.
VotesAgree ==
    \A q, c \in Server : \A t \in Nat : Supports(q, c, t) =>
        Past(q, c, t) /\ \A d \in Server : Supports(q, d, t) => d = c

\* A leader has counted a quorum.
LeadersElected == \A c \in Server : role[c] = "Leader" => votes[c] \in Quorums

\* Whoever sent an AppendRequest was elected for good in its term.
AppendsElected ==
    \A m \in messages : m.type = "AppendRequest" =>
        \E Q \in Quorums : \A q \in Q : Sealed(q, m.from, m.term)

\* The AppendRequests of a term have one sender.
OneSender ==
    \A m, k \in messages :
        m.type = "AppendRequest" /\ k.type = "AppendRequest" /\ m.term = k.term
        => m.from = k.from

ElectionInv ==
    /\ TypeInv
    /\ PersistedBeforeSend
    /\ VotesAgree
    /\ LeadersElected
    /\ AppendsElected
    /\ OneSender

\* What OneVotePerTerm asks of a step.
VoteKept ==
    \A n \in Server :
        /\ term'[n] >= term[n]
        /\ term'[n] = term[n] /\ voted_for[n] # Nil => voted_for'[n] = voted_for[n]

\* What any step of the cluster may do to votes and to the messages of leaders.
ElectionStep ==
    /\ VoteKept
    /\ \A m \in messages' \ messages : m.type = "VoteResponse" /\ m.granted =>
          Cast(m.from, m.to, m.term)'
    /\ \A q, c \in Server : Counted(q, c, term[c])' =>
          Cast(q, c, term[c])' \/ Granted(q, c, term'[c]) \/ Counted(q, c, term'[c])
    /\ LeadersElected'
    /\ \A m \in messages' \ messages : m.type = "AppendRequest" =>
          role'[m.from] = "Leader" /\ term'[m.from] = m.term

\* Two quorums share a voter.
LEMMA QuorumsMeet ==
    ASSUME NEW P \in Quorums, NEW Q \in Quorums
    PROVE  \E q \in Server : q \in P /\ q \in Q
<1>1. /\ IsFiniteSet(Server) /\ P \subseteq Server /\ Q \subseteq Server
      /\ P \cap Server = P /\ Q \cap Server = Q
  BY ServerAssumption DEF Quorums
<1>2. /\ IsFiniteSet(P) /\ IsFiniteSet(Q)
      /\ Cardinality(P) \in Nat /\ Cardinality(Q) \in Nat /\ Cardinality(Server) \in Nat
  BY <1>1, FS_Subset, FS_CardinalityType
<1>3. /\ Cardinality(P) > Cardinality(Server) \div 2
      /\ Cardinality(Q) > Cardinality(Server) \div 2
  BY <1>1 DEF Quorums, HasQuorum
<1>4. Cardinality(P) + Cardinality(Q) > Cardinality(Server)
  BY <1>2, <1>3
<1>5. P \cap Q # {}
  BY <1>1, <1>4, FS_MajoritiesIntersect
<1> QED BY <1>1, <1>5

\* A vote that a step leaves behind was there before or was cast by it, by a
\* voter that had none in that term.
LEMMA SupportKept ==
    ASSUME TypeInv, TypeInv', ElectionStep, NEW q \in Server, NEW c \in Server, NEW t \in Nat,
           Supports(q, c, t)'
    PROVE  \/ Supports(q, c, t)
           \/ /\ Cast(q, c, t)'
              /\ term[q] < t \/ (term[q] = t /\ voted_for[q] = Nil)
<1>1. term[q] \in Nat /\ term'[q] \in Nat BY DEF TypeInv, TypeOK
<1>2. ASSUME Cast(q, c, t)'
      PROVE  Cast(q, c, t) \/ term[q] < t \/ (term[q] = t /\ voted_for[q] = Nil)
  <2>1. term'[q] = t /\ voted_for'[q] = c BY <1>2 DEF Cast
  <2>2. term'[q] >= term[q] /\ (term'[q] = term[q] /\ voted_for[q] # Nil => voted_for'[q] = voted_for[q])
    BY DEF ElectionStep, VoteKept
  <2> QED BY <1>1, <2>1, <2>2 DEF Cast
<1>3. ASSUME Cast(q, c, t)'
      PROVE  \/ Supports(q, c, t)
             \/ /\ Cast(q, c, t)'
                /\ term[q] < t \/ (term[q] = t /\ voted_for[q] = Nil)
  <2>1. Cast(q, c, t) => Supports(q, c, t) BY DEF Supports
  <2> QED BY <1>2, <1>3, <2>1, Zenon
<1>4. ASSUME Granted(q, c, t)' PROVE Supports(q, c, t) \/ Cast(q, c, t)'
  <2>1. PICK m \in messages' : /\ m.type = "VoteResponse" /\ m.granted
                               /\ m.from = q /\ m.to = c /\ m.term = t
    BY <1>4 DEF Granted
  <2>2. CASE m \in messages
    <3>1. Granted(q, c, t) BY <2>1, <2>2 DEF Granted
    <3> QED BY <3>1 DEF Supports
  <2>3. CASE m \notin messages BY <2>1, <2>3 DEF ElectionStep
  <2> QED BY <2>2, <2>3
<1>5. ASSUME Counted(q, c, t)' PROVE Supports(q, c, t) \/ Cast(q, c, t)'
  <2>1. t = term'[c] BY <1>5 DEF Counted
  <2>2. Counted(q, c, term[c])' BY <1>5 DEF Counted
  <2>3. Cast(q, c, term[c])' \/ Granted(q, c, t) \/ Counted(q, c, t)
    BY <2>1, <2>2 DEF ElectionStep
  <2>4. Cast(q, c, term[c])' => Cast(q, c, t)' BY <2>1 DEF Cast
  <2>5. Granted(q, c, t) \/ Counted(q, c, t) => Supports(q, c, t) BY DEF Supports
  <2> QED BY <2>3, <2>4, <2>5, Zenon
<1>6. Cast(q, c, t)' \/ Granted(q, c, t)' \/ Counted(q, c, t)' BY DEF Supports
<1> QED BY <1>3, <1>4, <1>5, <1>6, Zenon

\* What a voter has settled stays settled.
LEMMA PastKept ==
    ASSUME TypeInv, TypeInv', VoteKept, NEW q \in Server, NEW c \in Server, NEW t \in Nat,
           Past(q, c, t)
    PROVE  Past(q, c, t)'
<1>1. term[q] \in Nat /\ term'[q] \in Nat /\ c # Nil
  BY ServerAssumption DEF TypeInv, TypeOK
<1> QED BY <1>1 DEF Past, Cast, VoteKept

\* Any step that does no more than ElectionStep keeps the traces of votes and
\* the elections they decided.
LEMMA ElectionStepKeeps ==
    ASSUME ElectionInv, TypeInv', ElectionStep
    PROVE  VotesAgree' /\ LeadersElected' /\ AppendsElected' /\ OneSender'
<1> USE DEF ElectionInv
<1>1. \A q, c \in Server : \A t \in Nat : Supports(q, c, t)' => Past(q, c, t)'
  <2> SUFFICES ASSUME NEW q \in Server, NEW c \in Server, NEW t \in Nat, Supports(q, c, t)'
               PROVE  Past(q, c, t)'
    OBVIOUS
  <2>1. CASE Supports(q, c, t)
    <3>1. Past(q, c, t) BY <2>1 DEF VotesAgree
    <3> QED BY <3>1, PastKept DEF ElectionStep
  <2>2. CASE Cast(q, c, t)' BY <2>2 DEF Past
  <2> QED BY <2>1, <2>2, SupportKept
<1>2. \A q, c \in Server : \A t \in Nat : Sealed(q, c, t) => Sealed(q, c, t)'
  <2> SUFFICES ASSUME NEW q \in Server, NEW c \in Server, NEW t \in Nat, Sealed(q, c, t)
               PROVE  Sealed(q, c, t)'
    OBVIOUS
  <2>1. Past(q, c, t)' BY PastKept DEF Sealed, ElectionStep
  <2>2. ASSUME NEW d \in Server, Supports(q, d, t)' PROVE d = c
    <3>1. term[q] \in Nat /\ c # Nil BY ServerAssumption DEF TypeInv, TypeOK
    <3>2. ~ (term[q] < t \/ (term[q] = t /\ voted_for[q] = Nil))
      BY <3>1 DEF Sealed, Past, Cast
    <3>3. Supports(q, d, t) BY <2>2, <3>2, SupportKept
    <3> QED BY <3>3 DEF Sealed
  <2> QED BY <2>1, <2>2 DEF Sealed
<1>3. VotesAgree'
  <2> SUFFICES ASSUME NEW q \in Server, NEW c \in Server, NEW t \in Nat, Supports(q, c, t)',
                      NEW d \in Server, Supports(q, d, t)'
               PROVE  d = c
    BY <1>1 DEF VotesAgree
  <2>1. term[q] \in Nat /\ c # Nil /\ d # Nil BY ServerAssumption, Zenon DEF TypeInv, TypeOK
  <2>2. CASE Supports(q, c, t)
    <3>1. Sealed(q, c, t) BY <2>2 DEF VotesAgree, Sealed
    <3>2. Sealed(q, c, t)' BY <1>2, <3>1
    <3> QED BY <3>2 DEF Sealed
  <2>3. CASE Supports(q, d, t)
    <3>1. Sealed(q, d, t) BY <2>3 DEF VotesAgree, Sealed
    <3>2. Sealed(q, d, t)' BY <1>2, <3>1
    <3> QED BY <3>2 DEF Sealed
  <2>4. CASE Cast(q, c, t)' /\ Cast(q, d, t)' BY <2>4 DEF Cast
  <2> QED BY <2>2, <2>3, <2>4, SupportKept
<1>4. LeadersElected' BY DEF ElectionStep
<1>5. ASSUME NEW m \in messages', m.type = "AppendRequest", m \notin messages
      PROVE  /\ m.from \in Server /\ m.term \in Nat
             /\ votes'[m.from] \in Quorums
             /\ \A q \in votes'[m.from] :
                   q \in Server /\ Supports(q, m.from, m.term)' /\ Sealed(q, m.from, m.term)'
  <2>1. role'[m.from] = "Leader" /\ term'[m.from] = m.term BY <1>5 DEF ElectionStep
  <2>2. m.from \in Server /\ m.term \in Nat BY <1>5, Zenon DEF TypeInv, TypeOK, Message
  <2>3. votes'[m.from] \in Quorums BY <1>4, <2>1, <2>2 DEF LeadersElected
  <2>4. \A q \in votes'[m.from] : q \in Server /\ Supports(q, m.from, m.term)'
    BY <2>1, <2>3 DEF Supports, Counted, Quorums
  <2> QED BY <1>3, <2>2, <2>3, <2>4 DEF VotesAgree, Sealed
<1>6. AppendsElected'
  <2> SUFFICES ASSUME NEW m \in messages', m.type = "AppendRequest"
               PROVE  \E Q \in Quorums : \A q \in Q : Sealed(q, m.from, m.term)'
    BY DEF AppendsElected
  <2>1. CASE m \in messages
    <3>1. PICK Q \in Quorums : \A q \in Q : Sealed(q, m.from, m.term)
      BY <2>1 DEF AppendsElected
    <3>2. m.from \in Server /\ m.term \in Nat /\ Q \subseteq Server
      BY <2>1, Zenon DEF TypeInv, TypeOK, Message, Quorums
    <3> QED BY <1>2, <3>1, <3>2
  <2>2. CASE m \notin messages BY <1>5, <2>2
  <2> QED BY <2>1, <2>2
<1>7. ASSUME NEW m \in messages', NEW k \in messages', m \notin messages,
             m.type = "AppendRequest", k.type = "AppendRequest", m.term = k.term
      PROVE  m.from = k.from
  <2>1. PICK Q \in Quorums : \A q \in Q : Sealed(q, k.from, k.term)'
    BY <1>6, <1>7 DEF AppendsElected
  <2>2. PICK q \in Server : q \in Q /\ q \in votes'[m.from]
    BY <1>5, <1>7, QuorumsMeet
  <2>3. Supports(q, m.from, k.term)' /\ m.from \in Server BY <1>5, <1>7, <2>2
  <2> QED BY <2>1, <2>2, <2>3 DEF Sealed
<1>8. OneSender'
  BY <1>7 DEF OneSender
<1> QED BY <1>3, <1>4, <1>6, <1>8

\* Everything a leader sends its peers is in its own name and term.
LEMMA AppendSigned ==
    \A n, p, t, lg, next, ci :
        LET m == AppendRequest(n, p, t, lg, next, ci) IN
        m.type = "AppendRequest" /\ m.from = n /\ m.term = t
BY DEF AppendRequest

\* A step that leaves terms, votes and roles alone, grants no vote and sends
\* AppendRequests for a leader only.
LEMMA Quiet ==
    ASSUME ElectionInv, UNCHANGED <<term, voted_for, role, votes>>,
           \A m \in messages' \ messages :
              /\ ~ (m.type = "VoteResponse" /\ m.granted)
              /\ m.type = "AppendRequest" => role[m.from] = "Leader" /\ term[m.from] = m.term
    PROVE  ElectionStep
<1>1. VoteKept BY DEF VoteKept, ElectionInv, TypeInv, TypeOK
<1>2. \A q, c \in Server : Counted(q, c, term[c])' => Counted(q, c, term'[c])
  BY DEF Counted
<1>3. LeadersElected' BY DEF LeadersElected, ElectionInv, Quorums, HasQuorum
<1> QED BY <1>1, <1>2, <1>3 DEF ElectionStep

\* A step after which n has no stake in the election of its term, while its
\* peers stay as they were.
LEMMA NoStake ==
    ASSUME ElectionInv, VoteKept, NEW n \in Server,
           role'[n] \in {"Follower", "PreCandidate"},
           \A k \in Server \ {n} : /\ term'[k] = term[k] /\ role'[k] = role[k]
                                   /\ votes'[k] = votes[k],
           \A m \in messages' \ messages :
              /\ m.type = "VoteResponse" /\ m.granted => Cast(m.from, m.to, m.term)'
              /\ m.type # "AppendRequest"
    PROVE  ElectionStep
<1>1. \A q, c \in Server : Counted(q, c, term[c])' => Counted(q, c, term'[c])
  BY DEF Counted
<1>2. LeadersElected'
  BY Zenon DEF LeadersElected, ElectionInv, Quorums, HasQuorum
<1> QED BY <1>1, <1>2 DEF ElectionStep

\* A new candidate has its own vote, in a term it never voted in.
LEMMA Candidacy ==
    ASSUME ElectionInv, NEW n \in Server, NEW t \in Nat, t > term[n], NEW boot \in BOOLEAN,
           BecomeCandidate(n, t, boot)
    PROVE  ElectionStep /\ PersistedBeforeSend'
<1>1. /\ term' = [term EXCEPT ![n] = t]
      /\ voted_for' = [voted_for EXCEPT ![n] = n]
      /\ votes' = [votes EXCEPT ![n] = {n}]
      /\ log' = log
      /\ Persist(n)
  BY DEF BecomeCandidate
<1>t. /\ term \in [Server -> Nat] /\ voted_for \in [Server -> Server \cup {Nil}]
      /\ votes \in [Server -> SUBSET Server] /\ role \in [Server -> Role]
  BY DEF ElectionInv, TypeInv, TypeOK
<1>r. \E r \in {"Leader", "Candidate"} : role' = [role EXCEPT ![n] = r]
  BY Zenon DEF BecomeCandidate, BecomeLeader
<1>2. /\ term'[n] = t /\ voted_for'[n] = n /\ votes'[n] = {n}
      /\ \A k \in Server \ {n} : /\ term'[k] = term[k] /\ voted_for'[k] = voted_for[k]
                                /\ votes'[k] = votes[k] /\ role'[k] = role[k]
  BY <1>1, <1>t, <1>r
<1>3. VoteKept
  <2>1. \A k \in Server \ {n} : term'[k] >= term[k] BY <1>2, <1>t
  <2>2. term'[n] > term[n] /\ term[n] \in Nat BY <1>2, <1>t
  <2>3. term'[n] >= term[n] /\ term'[n] # term[n] BY <2>2, <1>2
  <2> QED BY <1>2, <2>1, <2>3, Zenon DEF VoteKept
<1>4. PersistedBeforeSend'
  BY <1>1, <1>2, Zenon DEF Persist, PersistedBeforeSend, ElectionInv, TypeInv, TypeOK
<1>5. \A q, c \in Server : Counted(q, c, term[c])' =>
          Cast(q, c, term[c])' \/ Counted(q, c, term'[c])
  BY <1>2 DEF Counted, Cast
<1>6. CASE HasQuorum({n})
  <2>1. BecomeLeader(n, t) BY <1>6 DEF BecomeCandidate
  <2>2. role'[n] = "Leader" BY <2>1 DEF BecomeLeader, ElectionInv, TypeInv, TypeOK
  <2>3. \A m \in messages' \ messages :
           m.type = "AppendRequest" /\ m.from = n /\ m.term = t
    <3>1. \A m \in messages' \ messages : \E p \in Peers(n) :
             m = AppendRequest(n, p, t, log[n], Len(log[n]) + 1, commit_index[n])
      BY <2>1, Zenon DEF BecomeLeader, Send
    <3> QED BY <3>1, AppendSigned
  <2>4. LeadersElected'
    BY <1>2, <1>6, Zenon DEF LeadersElected, ElectionInv, Quorums, HasQuorum
  <2> QED BY <1>2, <1>3, <1>4, <1>5, <2>2, <2>3, <2>4 DEF ElectionStep
<1>7. CASE ~ HasQuorum({n})
  <2>1. role'[n] = "Candidate" BY <1>7 DEF BecomeCandidate, ElectionInv, TypeInv, TypeOK
  <2>2. \A m \in messages' \ messages : m.type = "VoteRequest"
    BY <1>7 DEF BecomeCandidate, Send, VoteRequest
  <2>3. LeadersElected'
    BY <1>2, <2>1, Zenon DEF LeadersElected, ElectionInv, Quorums, HasQuorum
  <2> QED BY <1>3, <1>4, <1>5, <2>2, <2>3 DEF ElectionStep
<1> QED BY <1>6, <1>7

\* Two facts of arithmetic, for steps whose other facts are many.
LEMMA Later == \A a, b \in Nat : a > b => a >= b /\ a # b
OBVIOUS

LEMMA NoLater == \A a, b \in Nat : (a >= b /\ ~ (a > b)) \/ a = b => a = b /\ a >= b
OBVIOUS

\* A step of n alone that keeps its vote keeps every vote.
LEMMA OwnVoteKept ==
    ASSUME ElectionInv, NEW n \in Server, term'[n] >= term[n],
           term'[n] = term[n] /\ voted_for[n] # Nil => voted_for'[n] = voted_for[n],
           \A k \in Server \ {n} : term'[k] = term[k] /\ voted_for'[k] = voted_for[k]
    PROVE  VoteKept
<1>1. \A k \in Server : term[k] \in Nat BY DEF ElectionInv, TypeInv, TypeOK
<1> QED BY <1>1 DEF VoteKept

\* A step that leaves every term and every vote alone.
LEMMA SameVotes ==
    ASSUME TypeInv, \A k \in Server : term'[k] = term[k] /\ voted_for'[k] = voted_for[k]
    PROVE  VoteKept
<1>1. \A k \in Server : term[k] \in Nat BY Zenon DEF TypeInv, TypeOK
<1> HIDE DEF TypeInv
<1>2. \A k \in Server : term'[k] >= term[k] BY <1>1, NoLater, Zenon
<1> QED BY <1>2, Zenon DEF VoteKept

\* Adopting a later term and saving it.
LEMMA Adoption ==
    ASSUME ElectionInv, NEW n \in Server, NEW t \in Nat, t > term[n], AdoptTerm(n, t), Persist(n)
    PROVE  /\ VoteKept /\ PersistedBeforeSend'
           /\ \A k \in Server \ {n} : term'[k] = term[k]
<1>1. \A k \in Server \ {n} : term'[k] = term[k] /\ voted_for'[k] = voted_for[k]
  BY DEF AdoptTerm, ElectionInv, TypeInv, TypeOK
<1>2. term'[n] = t /\ log' = log BY DEF AdoptTerm, ElectionInv, TypeInv, TypeOK
<1>t. term[n] \in Nat BY Zenon DEF ElectionInv, TypeInv, TypeOK
<1>3. VoteKept
  <2>1. term'[n] >= term[n] /\ term'[n] # term[n] BY <1>2, <1>t, Later, Zenon
  <2> QED BY <1>1, <2>1, OwnVoteKept, Zenon
<1> QED BY <1>1, <1>2, <1>3, Zenon DEF Persist, PersistedBeforeSend, ElectionInv, TypeInv, TypeOK

\* Saving what changed leaves nothing unsaved.
LEMMA Saved ==
    ASSUME ElectionInv, NEW n \in Server, Persist(n),
           \A k \in Server \ {n} : /\ term'[k] = term[k] /\ voted_for'[k] = voted_for[k]
                                   /\ log'[k] = log[k]
    PROVE  PersistedBeforeSend'
<1>1. \A k \in Server \ {n} : durable'[k] = durable[k]
  BY Zenon DEF Persist, ElectionInv, TypeInv, TypeOK
<1>2. durable'[n] = [term |-> term'[n], voted_for |-> voted_for'[n], log |-> log'[n]]
  BY DEF Persist, ElectionInv, TypeInv, TypeOK
<1> QED BY <1>1, <1>2, Zenon DEF PersistedBeforeSend, ElectionInv

\* A step that changes nothing has nothing to save.
LEMMA NothingToSave ==
    ASSUME ElectionInv, durable' = durable,
           \A k \in Server : /\ term'[k] = term[k] /\ voted_for'[k] = voted_for[k]
                             /\ log'[k] = log[k]
    PROVE  PersistedBeforeSend'
BY DEF PersistedBeforeSend, ElectionInv

\* Handling a message is such a step, and leaves nothing unsaved.
LEMMA ReceiveElection ==
    ASSUME ElectionInv, NEW m \in messages, Receive(m)
    PROVE  ElectionStep /\ PersistedBeforeSend'
<1> DEFINE n == m.to
<1> USE DEF ElectionInv
<1>a. /\ m.from \in Server /\ n \in Server /\ m.term \in Nat
      /\ m.type = "PreVoteResponse" => m.resp_term \in Nat
  BY MessageFields
<1>b. term[n] \in Nat BY <1>a DEF TypeInv, TypeOK
<1>1. CASE RefuseVote(m)
  <2>1. \A r \in messages' \ messages : r.type = "VoteResponse" /\ ~ r.granted
    BY <1>1 DEF RefuseVote, Send, VoteResponse
  <2> QED BY <1>1, <2>1, Quiet, Zenon DEF RefuseVote, persistent, roles, PersistedBeforeSend
<1>2. CASE FollowerVote(m)
  <2> DEFINE ballot == IF m.term > term[n] THEN Nil ELSE voted_for[n]
             g == /\ ballot \in {Nil, m.from}
                  /\ UpToDate(log[n], m.last_log_term, m.last_log_index)
  <2>1. /\ role[n] = "Follower"
        /\ m.term >= term[n]
        /\ term' = [term EXCEPT ![n] = m.term]
        /\ voted_for' = [voted_for EXCEPT ![n] = IF g THEN m.from ELSE ballot]
        /\ Send({VoteResponse(n, m.from, m.term, g)})
        /\ UNCHANGED <<log, roles, machine>>
        /\ (IF m.term > term[n] \/ g THEN Persist(n) ELSE UNCHANGED durable)
    BY <1>2, Zenon DEF FollowerVote, can_vote_for
  <2>2. g => ballot \in {Nil, m.from} OBVIOUS
  <2> HIDE DEF g
  <2>3. /\ \A k \in Server \ {n} : term'[k] = term[k] /\ voted_for'[k] = voted_for[k]
        /\ term'[n] = m.term
        /\ voted_for'[n] = IF g THEN m.from ELSE ballot
    BY <2>1, <1>a, Zenon DEF TypeInv, TypeOK
  <2>4. VoteKept
    <3>1. m.term = term[n] /\ voted_for[n] # Nil => voted_for'[n] = voted_for[n]
      BY <1>b, <2>2, <2>3
    <3>2. term'[n] >= term[n] BY <2>1, <2>3
    <3> QED BY <1>a, <2>3, <3>1, <3>2, OwnVoteKept, Zenon
  <2>5. PersistedBeforeSend'
    <3>1. CASE m.term > term[n] \/ g
      <4>1. Persist(n) /\ log' = log BY <2>1, <3>1
      <4> QED BY <1>a, <2>3, <4>1, Saved, Zenon
    <3>2. CASE ~ (m.term > term[n] \/ g)
      <4>1. durable' = durable /\ log' = log /\ m.term = term[n] /\ ~ g
        BY <1>a, <1>b, <2>1, <3>2
      <4>2. voted_for'[n] = voted_for[n] BY <1>b, <2>3, <4>1
      <4> QED BY <1>a, <2>3, <4>1, <4>2, NothingToSave
    <3> QED BY <3>1, <3>2
  <2>6. \A r \in messages' \ messages :
          /\ r.type = "VoteResponse"
          /\ r.granted => Cast(r.from, r.to, r.term)'
    BY <2>1, <2>3 DEF Send, VoteResponse, Cast
  <2>7. role' = role /\ votes' = votes BY <2>1, Zenon DEF roles
  <2> QED BY <1>a, <2>1, <2>3, <2>4, <2>5, <2>6, <2>7, NoStake, Zenon
<1>3. CASE CountVote(m)
  <2> DEFINE won == votes[n] \cup {m.from}
  <2>1. /\ role[n] = "Candidate" /\ m.term = term[n]
        /\ Granted(m.from, n, term[n])
        /\ votes' = [votes EXCEPT ![n] = won]
        /\ term' = term /\ voted_for' = voted_for /\ log' = log /\ durable' = durable
    BY <1>3, Zenon DEF CountVote, persistent, Granted
  <2>2. PersistedBeforeSend' BY <2>1 DEF PersistedBeforeSend
  <2>3. VoteKept BY <2>1, SMTT(60) DEF VoteKept, TypeInv, TypeOK
  <2>4. /\ \A k \in Server \ {n} : votes'[k] = votes[k] /\ role'[k] = role[k]
        /\ votes'[n] = won
    BY <1>3, <2>1, <1>a, ZenonT(60) DEF CountVote, BecomeLeader, TypeInv, TypeOK
  <2>5. \A q, c \in Server : Counted(q, c, term[c])' =>
            Granted(q, c, term'[c]) \/ Counted(q, c, term'[c])
    BY <2>1, <2>4 DEF Counted
  <2>6. CASE HasQuorum(won)
    <3>1. BecomeLeader(n, term[n]) BY <1>3, <2>6, Zenon DEF CountVote
    <3>2. role'[n] = "Leader" BY <1>a, <3>1, Zenon DEF BecomeLeader, TypeInv, TypeOK
    <3>3. \A r \in messages' \ messages :
            r.type = "AppendRequest" /\ r.from = n /\ r.term = term[n]
      BY <3>1, AppendSigned, SMTT(60) DEF BecomeLeader, Send
    <3>4. won \in Quorums BY <1>a, <2>6 DEF Quorums, TypeInv, TypeOK
    <3>5. LeadersElected'
      BY <2>4, <3>4, Zenon DEF LeadersElected, Quorums, HasQuorum
    <3> QED BY <2>1, <2>2, <2>3, <2>5, <3>2, <3>3, <3>5, Zenon DEF ElectionStep
  <2>7. CASE ~ HasQuorum(won)
    <3>1. role' = role /\ messages' = messages BY <1>3, <2>7, Zenon DEF CountVote
    <3>2. LeadersElected'
      BY <2>1, <2>4, <3>1, Zenon DEF LeadersElected, Quorums, HasQuorum
    <3> QED BY <2>2, <2>3, <2>5, <3>1, <3>2 DEF ElectionStep
  <2> QED BY <2>6, <2>7
<1>4. CASE RefusePreVote(m)
  <2>1. \A r \in messages' \ messages : r.type = "PreVoteResponse"
    BY <1>4 DEF RefusePreVote, Send, PreVoteResponse
  <2> QED BY <1>4, <2>1, Quiet, Zenon DEF RefusePreVote, persistent, roles, PersistedBeforeSend
<1>5. CASE AnswerPreVote(m)
  <2>1. \A r \in messages' \ messages : r.type = "PreVoteResponse"
    BY <1>5 DEF AnswerPreVote, Send, PreVoteResponse
  <2> QED BY <1>5, <2>1, Quiet, Zenon DEF AnswerPreVote, persistent, roles, PersistedBeforeSend
<1>6. CASE CountPreVote(m)
  <2>1. CASE HasQuorum(votes[n] \cup {m.from})
    <3>1. BecomeCandidate(n, term[n] + 1, FALSE) BY <1>6, <2>1, Zenon DEF CountPreVote
    <3>2. term[n] + 1 \in Nat /\ term[n] + 1 > term[n] BY <1>b
    <3> QED BY <3>1, <3>2, <1>a, Candidacy, Zenon
  <2>2. CASE ~ HasQuorum(votes[n] \cup {m.from})
    <3>1. /\ role[n] = "PreCandidate"
          /\ votes' = [votes EXCEPT ![n] = votes[n] \cup {m.from}]
          /\ UNCHANGED <<persistent, durable, role, messages>>
      BY <1>6, <2>2 DEF CountPreVote
    <3>2. VoteKept BY <3>1 DEF VoteKept, persistent, TypeInv, TypeOK
    <3>3. \A k \in Server \ {n} : votes'[k] = votes[k] BY <3>1 DEF TypeInv, TypeOK
    <3>4. ElectionStep BY <1>a, <3>1, <3>2, <3>3, NoStake DEF persistent
    <3> QED BY <3>1, <3>4 DEF persistent, PersistedBeforeSend
  <2> QED BY <2>1, <2>2
<1>7. CASE PreVoteBehind(m)
  <2>1. m.resp_term \in Nat /\ m.resp_term > term[n] BY <1>7, <1>a DEF PreVoteBehind
  <2>2. AdoptTerm(n, m.resp_term) /\ BecomeFollower(n, Nil, FALSE) /\ Persist(n) /\ messages' = messages
    BY <1>7, Zenon DEF PreVoteBehind
  <2>3. VoteKept /\ PersistedBeforeSend' /\ \A k \in Server \ {n} : term'[k] = term[k]
    BY <2>1, <2>2, <1>a, Adoption
  <2>4. role'[n] = "Follower" /\ \A k \in Server \ {n} : role'[k] = role[k] /\ votes'[k] = votes[k]
    BY <1>a, <2>2 DEF BecomeFollower, TypeInv, TypeOK
  <2> QED BY <1>a, <2>2, <2>3, <2>4, NoStake
<1>8. CASE StepDown(m)
  <2>1. /\ m.term > term[n] /\ AdoptTerm(n, m.term) /\ Persist(n) /\ messages' = messages
        /\ BecomeFollower(n, IF m.type = "AppendRequest" THEN m.from ELSE Nil, FALSE)
    BY <1>8, Zenon DEF StepDown
  <2>2. VoteKept /\ PersistedBeforeSend' /\ \A k \in Server \ {n} : term'[k] = term[k]
    BY <2>1, <1>a, Adoption, Zenon
  <2>3. role'[n] = "Follower" /\ \A k \in Server \ {n} : role'[k] = role[k] /\ votes'[k] = votes[k]
    BY <1>a, <2>1, Zenon DEF BecomeFollower, TypeInv, TypeOK
  <2> QED BY <1>a, <2>1, <2>2, <2>3, NoStake, Zenon
<1>9. CASE FollowerAdoptTerm(m)
  <2>1. /\ role[n] = "Follower"
        /\ m.term > term[n] /\ AdoptTerm(n, m.term) /\ Persist(n) /\ messages' = messages
        /\ role' = role /\ votes' = votes
    BY <1>9 DEF FollowerAdoptTerm, roles
  <2>2. VoteKept /\ PersistedBeforeSend' /\ \A k \in Server \ {n} : term'[k] = term[k]
    BY <2>1, <1>a, Adoption, Zenon
  <2> QED BY <1>a, <2>1, <2>2, NoStake
<1>10. CASE RefuseAppend(m)
  <2>1. \A r \in messages' \ messages : r.type = "AppendResponse"
    BY <1>10 DEF RefuseAppend, Send, AppendResponse
  <2> QED BY <1>10, <2>1, Quiet, Zenon DEF RefuseAppend, persistent, roles, PersistedBeforeSend
<1>11. CASE YieldToLeader(m)
  <2>1. BecomeFollower(n, m.from, TRUE) /\ UNCHANGED <<persistent, durable, messages>>
    BY <1>11, Zenon DEF YieldToLeader
  <2>2. role'[n] = "Follower" /\ \A k \in Server \ {n} : role'[k] = role[k] /\ votes'[k] = votes[k]
    BY <1>a, <2>1, Zenon DEF BecomeFollower, TypeInv, TypeOK
  <2>3. VoteKept BY <2>1 DEF VoteKept, persistent, TypeInv, TypeOK
  <2>4. ElectionStep BY <1>a, <2>1, <2>2, <2>3, NoStake, Zenon DEF persistent
  <2> QED BY <2>1, <2>4 DEF persistent, PersistedBeforeSend
<1>12. CASE FollowerAppend(m)
  <2> DEFINE ok == Consistent(log[n], m.prev_log_index, m.prev_log_term)
             lg == IF ok THEN Merge(log[n], m.prev_log_index, m.entries) ELSE log[n]
  <2>1. /\ role[n] = "Follower"
        /\ m.term >= term[n]
        /\ term' = [term EXCEPT ![n] = m.term]
        /\ voted_for' = [voted_for EXCEPT ![n] = IF m.term > term[n] THEN Nil ELSE @]
        /\ log' = [log EXCEPT ![n] = lg]
        /\ Send({AppendResponse(n, m.from, m.term, ok, Len(lg))})
        /\ UNCHANGED <<role, votes>>
        /\ (IF m.term > term[n] \/ lg # log[n] THEN Persist(n) ELSE UNCHANGED durable)
    BY <1>12, Zenon DEF FollowerAppend
  <2> HIDE DEF ok, lg
  <2>2. /\ \A k \in Server \ {n} : /\ term'[k] = term[k] /\ voted_for'[k] = voted_for[k]
                                  /\ log'[k] = log[k]
        /\ term'[n] = m.term /\ log'[n] = lg
        /\ voted_for'[n] = IF m.term > term[n] THEN Nil ELSE voted_for[n]
    BY <2>1, <1>a, Zenon DEF TypeInv, TypeOK
  <2>3. VoteKept
    <3>1. m.term = term[n] => voted_for'[n] = voted_for[n] BY <1>b, <2>2
    <3>2. term'[n] >= term[n] BY <2>1, <2>2, Zenon
    <3> QED BY <1>a, <2>2, <3>1, <3>2, OwnVoteKept, Zenon
  <2>4. PersistedBeforeSend'
    <3>1. CASE m.term > term[n] \/ lg # log[n]
      <4>1. Persist(n) BY <2>1, <3>1, Zenon
      <4> QED BY <1>a, <2>2, <4>1, Saved, Zenon
    <3>2. CASE ~ (m.term > term[n] \/ lg # log[n])
      <4>1. durable' = durable /\ m.term = term[n] BY <1>a, <1>b, <2>1, <3>2, NoLater, Zenon
      <4>2. voted_for'[n] = voted_for[n] /\ log'[n] = log[n] BY <1>b, <2>2, <3>2, <4>1, Zenon
      <4> QED BY <1>a, <2>2, <4>1, <4>2, NothingToSave, Zenon
    <3> QED BY <3>1, <3>2
  <2>5. \A r \in messages' \ messages : r.type = "AppendResponse"
    BY <2>1 DEF Send, AppendResponse
  <2> QED BY <1>a, <2>1, <2>2, <2>3, <2>4, <2>5, NoStake, Zenon
<1>13. CASE AppendAccepted(m)
  BY <1>13, Quiet, Zenon DEF AppendAccepted, persistent, PersistedBeforeSend
<1>14. CASE AppendRejected(m)
  <2>1. \A r \in messages' \ messages :
          r.type = "AppendRequest" /\ r.from = n /\ r.term = term[n]
    BY <1>14, AppendSigned DEF AppendRejected, Send
  <2>2. role[n] = "Leader" /\ UNCHANGED <<persistent, durable, role, votes>>
    BY <1>14 DEF AppendRejected
  <2> QED BY <2>1, <2>2, Quiet, Zenon DEF persistent, PersistedBeforeSend
<1>15. ASSUME NEW boot \in BOOLEAN, CampaignNow(m, boot)
       PROVE  ElectionStep /\ PersistedBeforeSend'
  <2> DEFINE t == Greater(term[n], m.term) + 1
  <2>1. t \in Nat /\ t > term[n] BY <1>a, <1>b DEF Greater
  <2>2. BecomeCandidate(n, t, boot) BY <1>15, Zenon DEF CampaignNow
  <2> HIDE DEF t
  <2> QED BY <1>a, <2>1, <2>2, Candidacy
<1> QED
  BY <1>1, <1>2, <1>3, <1>4, <1>5, <1>6, <1>7, <1>8, <1>9, <1>10, <1>11, <1>12,
     <1>13, <1>14, <1>15 DEF Receive

\* So is every other step: ticks, calls, a restart (which recovers what was
\* saved), the loss of a message.
LEMMA NextElection ==
    ASSUME ElectionInv, Next
    PROVE  ElectionStep /\ PersistedBeforeSend'
<1> USE DEF ElectionInv
<1>1. ASSUME NEW n \in Server, ElectionTimeout(n)
      PROVE  ElectionStep /\ PersistedBeforeSend'
  <2>1. term[n] + 1 \in Nat /\ term[n] + 1 > term[n] BY DEF TypeInv, TypeOK
  <2>2. CASE BecomeCandidate(n, term[n] + 1, FALSE) BY <2>1, <2>2, Candidacy, Zenon
  <2>3. CASE BecomePreCandidate(n)
    <3>1. /\ role'[n] = "PreCandidate"
          /\ \A k \in Server \ {n} : role'[k] = role[k] /\ votes'[k] = votes[k]
      BY <2>3 DEF BecomePreCandidate, TypeInv, TypeOK
    <3>2. \A m \in messages' \ messages : m.type = "PreVoteRequest"
      BY <2>3 DEF BecomePreCandidate, Send, PreVoteRequest
    <3>3. UNCHANGED <<term, voted_for, log, durable>>
      BY <2>3 DEF BecomePreCandidate, persistent
    <3>4. VoteKept BY <3>3 DEF VoteKept, TypeInv, TypeOK
    <3>5. PersistedBeforeSend' BY <3>3, NothingToSave
    <3> QED BY <3>1, <3>2, <3>3, <3>4, <3>5, NoStake
  <2> QED BY <1>1, <2>2, <2>3, Zenon DEF ElectionTimeout
<1>2. ASSUME NEW n \in Server, Heartbeat(n) PROVE ElectionStep /\ PersistedBeforeSend'
  <2>1. role[n] = "Leader" /\ UNCHANGED <<persistent, durable, role, votes>>
    BY <1>2 DEF Heartbeat
  <2>2. \A m \in messages' \ messages :
           m.type = "AppendRequest" /\ m.from = n /\ m.term = term[n]
    BY <1>2, AppendSigned DEF Heartbeat, Broadcast, Send
  <2> QED BY <2>1, <2>2, Quiet, NothingToSave DEF persistent
<1>3. ASSUME NEW n \in Server, NEW c \in Command, Propose(n, c)
      PROVE  ElectionStep /\ PersistedBeforeSend'
  <2>1. role[n] = "Leader" /\ UNCHANGED <<term, voted_for, role, votes>> /\ Persist(n)
    BY <1>3 DEF Propose
  <2>2. \A m \in messages' \ messages :
           m.type = "AppendRequest" /\ m.from = n /\ m.term = term[n]
    <3>1. \A m \in messages' \ messages : \E p \in Peers(n) : \E lg, ci :
             m = AppendRequest(n, p, term[n], lg, next_index[n][p], ci)
      BY <1>3, Zenon DEF Propose, Broadcast, Send
    <3> QED BY <3>1, AppendSigned
  <2>3. \A k \in Server \ {n} : log'[k] = log[k]
    BY <1>3, Zenon DEF Propose, TypeInv, TypeOK
  <2>4. PersistedBeforeSend' BY <2>1, <2>3, Saved
  <2>5. \A m \in messages' \ messages :
           /\ ~ (m.type = "VoteResponse" /\ m.granted)
           /\ m.type = "AppendRequest" => role[m.from] = "Leader" /\ term[m.from] = m.term
    BY <2>1, <2>2
  <2> QED BY <2>1, <2>4, <2>5, Quiet
<1>4. ASSUME NEW n \in Server, NEW p \in Server, TransferLeadership(n, p)
      PROVE  ElectionStep /\ PersistedBeforeSend'
  <2>1. UNCHANGED <<persistent, durable, role, votes>>
    BY <1>4 DEF TransferLeadership, roles
  <2>2. \A m \in messages' \ messages : m.type = "TimeoutNow"
    BY <1>4 DEF TransferLeadership, Send, TimeoutNow
  <2> QED BY <2>1, <2>2, Quiet, NothingToSave, Zenon DEF persistent
<1>5. ASSUME NEW n \in Server, Restart(n) PROVE ElectionStep /\ PersistedBeforeSend'
  <2>1. durable[n].term = term[n] /\ durable[n].voted_for = voted_for[n] /\ durable[n].log = log[n]
    <3>1. durable[n] = [term |-> term[n], voted_for |-> voted_for[n], log |-> log[n]]
      BY DEF PersistedBeforeSend
    <3> QED BY <3>1
  <2>2. \A k \in Server : /\ term'[k] = term[k] /\ voted_for'[k] = voted_for[k]
                          /\ log'[k] = log[k]
    <3>1. /\ term' = [term EXCEPT ![n] = durable[n].term]
          /\ voted_for' = [voted_for EXCEPT ![n] = durable[n].voted_for]
          /\ log' = [log EXCEPT ![n] = durable[n].log]
      BY <1>5 DEF Restart
    <3> QED BY <2>1, <3>1 DEF TypeInv, TypeOK
  <2>3. PersistedBeforeSend' BY <1>5, <2>2, NothingToSave DEF Restart
  <2>4. VoteKept BY <2>2, SameVotes, Zenon
  <2>5. /\ role'[n] = "Follower" /\ messages' = messages
        /\ \A k \in Server \ {n} : role'[k] = role[k] /\ votes'[k] = votes[k]
    BY <1>5 DEF Restart, BecomeFollower, TypeInv, TypeOK
  <2> QED BY <2>2, <2>3, <2>4, <2>5, NoStake
<1>6. ASSUME NEW m \in messages, Lose(m) PROVE ElectionStep /\ PersistedBeforeSend'
  <2>1. UNCHANGED <<persistent, durable, role, votes>> /\ messages' \subseteq messages
    BY <1>6 DEF Lose, roles
  <2> QED BY <2>1, Quiet, NothingToSave DEF persistent
<1> QED
  BY <1>1, <1>2, <1>3, <1>4, <1>5, <1>6, ReceiveElection DEF Next, Step

\* ElectionInv holds at first: nobody has voted.
LEMMA ElectionInit == Init => ElectionInv
<1> SUFFICES ASSUME Init PROVE ElectionInv OBVIOUS
<1>1. TypeInv BY TypeInit
<1>2. PersistedBeforeSend BY DEF Init, PersistedBeforeSend
<1>3. \A q, c \in Server : \A t \in Nat : ~ Supports(q, c, t)
  BY ServerAssumption, Zenon DEF Init, Supports, Cast, Granted, Counted
<1>4. VotesAgree BY <1>3 DEF VotesAgree
<1>5. LeadersElected /\ AppendsElected /\ OneSender
  BY DEF Init, LeadersElected, AppendsElected, OneSender
<1> QED BY <1>1, <1>2, <1>4, <1>5 DEF ElectionInv

\* Steps that change nothing keep ElectionInv.
LEMMA ElectionStutter == ElectionInv /\ UNCHANGED vars => ElectionInv' /\ VoteKept
<1> SUFFICES ASSUME ElectionInv, UNCHANGED vars PROVE ElectionInv' /\ VoteKept OBVIOUS
<1>1. UNCHANGED <<term, voted_for, log, durable, role, votes, messages>>
  BY DEF vars, persistent, roles
<1>2. TypeInv'
  BY Zenon DEF ElectionInv, TypeInv, TypeOK, AppendShape, ElectedLater, vars, persistent,
         roles, progress, machine
<1>3. PersistedBeforeSend' BY <1>1, NothingToSave
<1>4. ElectionStep BY <1>1, Quiet
<1> QED BY <1>2, <1>3, <1>4, ElectionStepKeeps, Zenon DEF ElectionInv, ElectionStep

\* The election invariant is inductive.
THEOREM ElectionInvariant == Spec => []ElectionInv
<1>1. ElectionInv /\ Next => ElectionInv'
  <2> SUFFICES ASSUME ElectionInv, Next PROVE ElectionInv' OBVIOUS
  <2>1. TypeInv' BY TypeStep DEF ElectionInv
  <2>2. ElectionStep /\ PersistedBeforeSend' BY NextElection
  <2> QED BY <2>1, <2>2, ElectionStepKeeps DEF ElectionInv
<1> QED BY <1>1, ElectionInit, ElectionStutter, PTL DEF Spec

\* Whatever a node is in memory, it is on disk before its messages leave: a
\* crash at any point loses no term, vote or entry (PersistedBeforeSend).
THEOREM Persistence == Spec => []PersistedBeforeSend
<1>1. ElectionInv => PersistedBeforeSend BY DEF ElectionInv
<1> QED BY <1>1, ElectionInvariant, PTL

\* No step, restarts included, takes a term or a vote back (OneVotePerTerm).
THEOREM VotesKept == Spec => OneVotePerTerm
<1>1. ElectionInv /\ [Next]_vars => VoteKept
  BY NextElection, ElectionStutter, Zenon DEF ElectionStep
<1> QED BY <1>1, ElectionInvariant, PTL DEF Spec, OneVotePerTerm, VoteKept

\* No two nodes lead the same term, at once or in turn (ElectionSafety).
THEOREM ElectionsSafe == Spec => []ElectionSafety
<1>1. ElectionInv => ElectionSafety
  <2> SUFFICES ASSUME ElectionInv, NEW k \in Server, NEW l \in Server,
                      NEW t \in LedTerms(k), t \in LedTerms(l)
               PROVE  k = l
    BY DEF ElectionSafety
  <2> USE DEF ElectionInv
  <2> DEFINE Leads(c) == role[c] = "Leader" /\ term[c] = t
             Sent(c) == \E m \in messages : m.type = "AppendRequest" /\ m.from = c /\ m.term = t
  <2>1. (Leads(k) \/ Sent(k)) /\ (Leads(l) \/ Sent(l)) BY DEF LedTerms
  <2>2. t \in Nat
    <3>1. \A c \in Server : term[c] \in Nat BY Zenon DEF TypeInv, TypeOK
    <3>2. \A m \in messages : m.term \in Nat BY Zenon DEF TypeInv, TypeOK, Message
    <3> QED BY <2>1, <3>1, <3>2, Zenon
  <2>3. \A c \in Server : Leads(c) => votes[c] \in Quorums /\ \A q \in votes[c] : Supports(q, c, t)
    BY Zenon DEF LeadersElected, Supports, Counted
  <2>4. \A c \in Server : Sent(c) => \E Q \in Quorums : \A q \in Q : Sealed(q, c, t)
    BY DEF AppendsElected
  <2> HIDE DEF Leads, Sent
  <2>5. CASE Leads(k) /\ Leads(l)
    <3>1. PICK q \in Server : q \in votes[k] /\ q \in votes[l] BY <2>3, <2>5, QuorumsMeet
    <3> QED BY <2>2, <2>3, <2>5, <3>1 DEF VotesAgree
  <2>6. ASSUME NEW c \in Server, NEW d \in Server, Leads(c), Sent(d) PROVE c = d
    <3>1. PICK Q \in Quorums : \A q \in Q : Sealed(q, d, t) BY <2>4, <2>6
    <3>2. PICK q \in Server : q \in votes[c] /\ q \in Q BY <2>3, <2>6, QuorumsMeet
    <3> QED BY <2>3, <2>6, <3>1, <3>2 DEF Sealed
  <2>7. CASE Sent(k) /\ Sent(l) BY <2>7 DEF OneSender, Sent
  <2> QED BY <2>1, <2>5, <2>6, <2>7
<1> QED BY <1>1, ElectionInvariant, PTL
=============================================================================
