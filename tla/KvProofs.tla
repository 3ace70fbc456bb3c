------------------------------ MODULE KvProofs ------------------------------
(***************************************************************************)
(* For any number of clients, names, values and sequence numbers: the      *)
(* key-value state machine keeps its types, carries out a mutation at most *)
(* once, and answers a retry with the result of that one execution.        *)
(***************************************************************************)
EXTENDS Kv, TLAPS, SequenceTheorems

\* Every mutation carried out belongs to a registered client, and its number is not
\* above the last one its session remembers.
Numbered ==
    \A i \in DOMAIN executed :
        LET m == executed[i].mutation IN
        m.client_id \in DOMAIN sessions /\ m.sequence <= sessions[m.client_id].sequence

\* What a session remembers was carried out, with that result.
Remembered ==
    \A c \in DOMAIN sessions : sessions[c] # Fresh =>
        LET s == sessions[c] IN
        /\ s.result.kind \in {s.request.op, "Rejected"}
        /\ \E i \in DOMAIN executed : executed[i] =
              [mutation |-> [client_id |-> c, sequence |-> s.sequence, request |-> s.request],
               result |-> s.result]

\* Ids are given out in order.
IdsBelow == \A c \in DOMAIN sessions : c < next_client_id

KvInv == TypeOK /\ IdsBelow /\ Numbered /\ AtMostOnce /\ Remembered

Executed == [mutation : Mutation, result : Result]

\* A rejection is a result.
LEMMA RejectionType ==
    ASSUME NEW why \in {"KeyExists", "EtagMismatch", "GenerationExhausted"}
    PROVE  [kind |-> "Rejected", why |-> why] \in Result
BY DEF Result, Rejected

\* The sequence number of a session.
LEMMA SessionNumber ==
    ASSUME TypeOK, NEW c \in DOMAIN sessions
    PROVE  /\ sessions[c].sequence \in Nat
           /\ sessions[c] # Fresh => /\ sessions[c].sequence \in Sequence
                                     /\ sessions[c].request \in Request
                                     /\ sessions[c].result \in Result
<1> DEFINE Used == [sequence : Sequence, request : Request, result : Result]
<1>1. sessions[c] = Fresh \/ sessions[c] \in Used BY DEF TypeOK, Session
<1>2. CASE sessions[c] = Fresh
  <2>1. sessions[c].sequence = 0 BY <1>2 DEF Fresh
  <2> QED BY <2>1, <1>2
<1>3. CASE sessions[c] \in Used
  <2>1. /\ sessions[c].sequence \in Sequence /\ sessions[c].request \in Request
        /\ sessions[c].result \in Result
    BY <1>3
  <2> QED BY <2>1, KvAssumption, Zenon
<1> QED BY <1>1, <1>2, <1>3

\* What Settle does to history and sessions, for a mutation that is new.
LEMMA SettleKeeps ==
    ASSUME KvInv, NEW m \in Mutation, NEW r \in Result, Settle(m, r),
           m.client_id \in DOMAIN sessions,
           m.sequence > sessions[m.client_id].sequence,
           r.kind \in {m.request.op, "Rejected"}
    PROVE  /\ DOMAIN sessions' = DOMAIN sessions
           /\ \A c \in DOMAIN sessions' : sessions'[c] \in Session
           /\ executed' \in Seq(Executed)
           /\ IdsBelow' /\ Numbered' /\ AtMostOnce' /\ Remembered'
<1> DEFINE x == [mutation |-> m, result |-> r]
           k == m.client_id
           new == [sequence |-> m.sequence, request |-> m.request, result |-> r]
<1>a. /\ m.sequence \in Sequence /\ m.sequence \in Nat \ {0} /\ m.request \in Request
      /\ k \in Client
  BY KvAssumption, Zenon DEF Mutation
<1>b. /\ sessions' = [sessions EXCEPT ![k] = new]
      /\ executed' = Append(executed, x)
      /\ UNCHANGED next_client_id
  BY DEF Settle
<1>c. x \in Executed BY DEF Executed
<1>d. executed \in Seq(Executed) BY DEF KvInv, TypeOK, Executed
<1>e. new \in Session BY <1>a DEF Session
<1>f. new # Fresh BY <1>a DEF Fresh
<1>1. /\ DOMAIN sessions' = DOMAIN sessions
      /\ sessions'[k] = new
      /\ \A c \in DOMAIN sessions \ {k} : sessions'[c] = sessions[c]
  BY <1>b
<1>2. \A c \in DOMAIN sessions' : sessions'[c] \in Session
  BY <1>1, <1>e DEF KvInv, TypeOK
<1>3. /\ executed' \in Seq(Executed)
      /\ Len(executed') = Len(executed) + 1
      /\ DOMAIN executed' = DOMAIN executed \cup {Len(executed) + 1}
      /\ \A i \in DOMAIN executed : executed'[i] = executed[i]
      /\ executed'[Len(executed) + 1] = x
      /\ Len(executed) \in Nat /\ DOMAIN executed = 1..Len(executed)
  <2> HIDE DEF x
  <2> QED BY <1>b, <1>c, <1>d
<1>4. \A i \in DOMAIN executed : executed[i] \in Executed BY <1>d
<1>5. IdsBelow' BY <1>1, <1>b DEF KvInv, IdsBelow
<1> HIDE DEF new
<1>6. Numbered'
  <2> SUFFICES ASSUME NEW i \in DOMAIN executed'
               PROVE  /\ executed'[i].mutation.client_id \in DOMAIN sessions'
                      /\ executed'[i].mutation.sequence
                            <= sessions'[executed'[i].mutation.client_id].sequence
    BY DEF Numbered
  <2>1. CASE i = Len(executed) + 1
    <3>1. executed'[i].mutation = m BY <2>1, <1>3
    <3>2. sessions'[k].sequence = m.sequence BY <1>1 DEF new
    <3> QED BY <3>1, <3>2, <1>1, <1>a
  <2>2. CASE i \in DOMAIN executed
    <3> DEFINE e == executed[i].mutation
    <3>1. executed'[i].mutation = e /\ e \in Mutation BY <2>2, <1>3, <1>4 DEF Executed
    <3>2. e.client_id \in DOMAIN sessions /\ e.sequence <= sessions[e.client_id].sequence
      BY <2>2 DEF KvInv, Numbered
    <3>3. e.sequence \in Nat BY <3>1, KvAssumption, Zenon DEF Mutation
    <3> HIDE DEF e
    <3>4. CASE e.client_id = k
      <4>1. sessions'[k].sequence = m.sequence BY <1>1 DEF new
      <4>2. sessions[k].sequence \in Nat BY SessionNumber DEF KvInv
      <4> QED BY <3>1, <3>2, <3>3, <3>4, <4>1, <4>2, <1>1, <1>a
    <3>5. CASE e.client_id # k BY <3>1, <3>2, <3>5, <1>1
    <3> QED BY <3>4, <3>5
  <2> QED BY <2>1, <2>2, <1>3
<1>7. \A i \in DOMAIN executed :
        ~ (executed[i].mutation.client_id = k /\ executed[i].mutation.sequence = m.sequence)
  <2> SUFFICES ASSUME NEW i \in DOMAIN executed,
                      executed[i].mutation.client_id = k,
                      executed[i].mutation.sequence = m.sequence
               PROVE  FALSE
    OBVIOUS
  <2>1. m.sequence <= sessions[k].sequence BY DEF KvInv, Numbered
  <2>2. sessions[k].sequence \in Nat BY SessionNumber DEF KvInv
  <2> QED BY <2>1, <2>2, <1>a
<1>8. AtMostOnce'
  <2> SUFFICES ASSUME NEW i \in DOMAIN executed', NEW j \in DOMAIN executed',
                      executed'[i].mutation.client_id = executed'[j].mutation.client_id,
                      executed'[i].mutation.sequence = executed'[j].mutation.sequence
               PROVE  i = j
    BY DEF AtMostOnce
  <2>1. executed'[Len(executed) + 1].mutation = m BY <1>3
  <2>2. CASE i \in DOMAIN executed /\ j \in DOMAIN executed
    BY <2>2, <1>3 DEF KvInv, AtMostOnce
  <2>3. CASE i = Len(executed) + 1 /\ j \in DOMAIN executed
    BY <2>1, <2>3, <1>3, <1>7
  <2>4. CASE j = Len(executed) + 1 /\ i \in DOMAIN executed
    BY <2>1, <2>4, <1>3, <1>7
  <2> QED BY <2>2, <2>3, <2>4, <1>3
<1>9. Remembered'
  <2> SUFFICES ASSUME NEW c \in DOMAIN sessions', sessions'[c] # Fresh
               PROVE  /\ sessions'[c].result.kind \in {sessions'[c].request.op, "Rejected"}
                      /\ \E i \in DOMAIN executed' : executed'[i] =
                           [mutation |-> [client_id |-> c, sequence |-> sessions'[c].sequence,
                                          request |-> sessions'[c].request],
                            result |-> sessions'[c].result]
    BY DEF Remembered
  <2>1. CASE c = k
    <3>1. /\ sessions'[c].sequence = m.sequence /\ sessions'[c].request = m.request
          /\ sessions'[c].result = r
      BY <2>1, <1>1 DEF new
    <3>2. m = [client_id |-> c, sequence |-> m.sequence, request |-> m.request]
      BY <2>1 DEF Mutation
    <3>3. executed'[Len(executed) + 1] = x /\ Len(executed) + 1 \in DOMAIN executed' BY <1>3
    <3> QED BY <3>1, <3>2, <3>3
  <2>2. CASE c # k
    <3>1. c \in DOMAIN sessions /\ sessions'[c] = sessions[c] BY <2>2, <1>1
    <3>2. PICK i \in DOMAIN executed : executed[i] =
             [mutation |-> [client_id |-> c, sequence |-> sessions[c].sequence,
                            request |-> sessions[c].request],
              result |-> sessions[c].result]
      BY <3>1 DEF KvInv, Remembered
    <3>3. i \in DOMAIN executed' /\ executed'[i] = executed[i] BY <1>3
    <3>4. sessions[c].result.kind \in {sessions[c].request.op, "Rejected"}
      BY <3>1 DEF KvInv, Remembered
    <3> QED BY <3>1, <3>2, <3>3, <3>4
  <2> QED BY <2>1, <2>2
<1> QED BY <1>1, <1>2, <1>3, <1>5, <1>6, <1>8, <1>9

\* The kinds of a result.
LEMMA ResultKinds ==
    ASSUME NEW r \in Result
    PROVE  r.kind \in {"Put", "Delete", "Rejected"}
BY DEF Result, PutResponse, DeleteResponse, Rejected

\* Only a new number of a registered client is taken for a new mutation
\* (cached_mutation).
LEMMA NewIsLater ==
    ASSUME TypeOK, NEW m \in Mutation, Reply(m) = Error("none")
    PROVE  m.client_id \in DOMAIN sessions /\ m.sequence > sessions[m.client_id].sequence
<1>1. m.client_id \in DOMAIN sessions BY DEF Reply, Error
<1> DEFINE s == sessions[m.client_id]
<1>2. cached_mutation(s, m) = Error("none") BY <1>1 DEF Reply
<1>3. m.sequence \in Nat \ {0} BY KvAssumption, Zenon DEF Mutation
<1>4. s.sequence \in Nat BY <1>1, SessionNumber
<1>5. s # Fresh => s.result.kind # "Error" BY <1>1, SessionNumber, ResultKinds
<1>6. s.sequence # 0 => s # Fresh BY DEF Fresh
<1> HIDE DEF s
<1>7. ~ (m.sequence < s.sequence) BY <1>2 DEF cached_mutation, Error
<1>8. m.sequence # s.sequence
  <2> SUFFICES ASSUME m.sequence = s.sequence PROVE FALSE OBVIOUS
  <2>1. ~ (m.sequence < s.sequence) /\ ~ (m.sequence > s.sequence) /\ s.sequence # 0
    BY <1>3, <1>4
  <2>2. cached_mutation(s, m) \in
          {Error("sequence reused for different request"), Error("session result mismatch"),
           s.result}
    BY <2>1 DEF cached_mutation
  <2>3. s.result.kind # "Error" BY <2>1, <1>5, <1>6
  <2>4. /\ Error("none") # Error("sequence reused for different request")
        /\ Error("none") # Error("session result mismatch")
        /\ Error("none").kind = "Error"
    BY DEF Error
  <2> QED BY <2>2, <2>3, <2>4, <1>2
<1> QED BY <1>1, <1>3, <1>4, <1>7, <1>8 DEF s

\* The parts of a request.
LEMMA RequestParts ==
    ASSUME NEW q \in Request
    PROVE  /\ q.op \in {"Put", "Delete"} /\ q.name \in Name
           /\ q.op = "Put" => q.body \in Body
BY DEF Request, PutRequest, DeleteRequest

\* A rejected mutation keeps the invariant.
LEMMA RejectKeeps ==
    ASSUME KvInv, NEW m \in Mutation, Reply(m) = Error("none"),
           NEW why \in {"KeyExists", "EtagMismatch", "GenerationExhausted"}, Reject(m, why)
    PROVE  KvInv'
<1> DEFINE r == [kind |-> "Rejected", why |-> why]
<1>1. r \in Result /\ r.kind = "Rejected" BY RejectionType
<1>2. Settle(m, r) /\ UNCHANGED <<next_generation, entries>> /\ UNCHANGED next_client_id
  BY DEF Reject, Settle
<1> HIDE DEF r
<1>3. /\ m.client_id \in DOMAIN sessions /\ m.sequence > sessions[m.client_id].sequence
  BY NewIsLater DEF KvInv
<1>4. /\ DOMAIN sessions' = DOMAIN sessions
      /\ \A c \in DOMAIN sessions' : sessions'[c] \in Session
      /\ executed' \in Seq(Executed)
      /\ IdsBelow' /\ Numbered' /\ AtMostOnce' /\ Remembered'
  BY <1>1, <1>2, <1>3, SettleKeeps
<1>5. TypeOK' BY <1>2, <1>4 DEF KvInv, TypeOK, Executed
<1> QED BY <1>4, <1>5 DEF KvInv

\* A put that is carried out keeps the invariant: its generation is below MaxU64.
LEMMA StoreKeeps ==
    ASSUME KvInv, NEW m \in Mutation, Reply(m) = Error("none"),
           m.request.op = "Put", next_generation < MaxU64, Store(m, m.request)
    PROVE  KvInv'
<1> DEFINE q == m.request
           g == next_generation
           r == [kind |-> "Put", name |-> q.name, generation |-> g]
           new == [body |-> q.body, etag |-> etag_for(g), generation |-> g]
<1>a. q \in Request BY DEF Mutation
<1>b. q.name \in Name /\ q.body \in Body BY <1>a, RequestParts
<1>c. g \in Nat /\ MaxU64 \in Nat /\ g \in 1..(MaxU64 - 1) /\ g \in 0..(MaxU64 - 1)
      /\ g \in 1..MaxU64 /\ g + 1 \in 1..MaxU64
  BY KvAssumption DEF KvInv, TypeOK
<1>1. r \in Result /\ r.kind = "Put" BY <1>b, <1>c DEF Result, PutResponse
<1>2. new \in Record BY <1>b, <1>c DEF Record, Etag
<1> HIDE DEF new, r
<1>3. /\ Settle(m, r) /\ UNCHANGED next_client_id /\ next_generation' = g + 1
      /\ entries' = [n \in DOMAIN entries \cup {q.name} |->
                        IF n = q.name THEN new ELSE entries[n]]
  BY DEF Store, Settle, new, r
<1>4. /\ m.client_id \in DOMAIN sessions /\ m.sequence > sessions[m.client_id].sequence
  BY NewIsLater DEF KvInv
<1>5. /\ DOMAIN sessions' = DOMAIN sessions
      /\ \A c \in DOMAIN sessions' : sessions'[c] \in Session
      /\ executed' \in Seq(Executed)
      /\ IdsBelow' /\ Numbered' /\ AtMostOnce' /\ Remembered'
  BY <1>1, <1>3, <1>4, SettleKeeps
<1>6. DOMAIN entries' \subseteq Name /\ \A n \in DOMAIN entries' : entries'[n] \in Record
  BY <1>2, <1>3, <1>b DEF KvInv, TypeOK
<1>7. TypeOK' BY <1>3, <1>5, <1>6, <1>c, Zenon DEF KvInv, TypeOK, Executed
<1> QED BY <1>5, <1>7 DEF KvInv

\* A delete that is carried out keeps the invariant.
LEMMA RemoveKeeps ==
    ASSUME KvInv, NEW m \in Mutation, Reply(m) = Error("none"),
           m.request.op = "Delete", Remove(m, m.request)
    PROVE  KvInv'
<1> DEFINE q == m.request
           g == IF Live(q.name) THEN entries[q.name].generation ELSE 0
           r == [kind |-> "Delete", name |-> q.name, deleted |-> Live(q.name),
                 generation |-> g]
<1>a. q \in Request BY DEF Mutation
<1>b. q.name \in Name BY <1>a, RequestParts
<1>c. g \in 0..MaxU64
  <2>1. CASE Live(q.name)
    <3>1. entries[q.name] \in Record BY <2>1 DEF KvInv, TypeOK, Live
    <3>2. entries[q.name].generation \in 1..(MaxU64 - 1) BY <3>1 DEF Record
    <3> QED BY <3>2, <2>1, KvAssumption
  <2>2. CASE ~Live(q.name) BY <2>2, KvAssumption
  <2> QED BY <2>1, <2>2
<1>d. Live(q.name) \in BOOLEAN BY DEF Live
<1> HIDE DEF g
<1>1. r \in Result /\ r.kind = "Delete" BY <1>b, <1>c, <1>d DEF Result, DeleteResponse
<1> HIDE DEF r
<1>2. /\ Settle(m, r) /\ UNCHANGED <<next_client_id, next_generation>>
      /\ entries' = [n \in DOMAIN entries \ {q.name} |-> entries[n]]
  BY DEF Remove, Settle, r, g
<1>3. /\ m.client_id \in DOMAIN sessions /\ m.sequence > sessions[m.client_id].sequence
  BY NewIsLater DEF KvInv
<1>4. /\ DOMAIN sessions' = DOMAIN sessions
      /\ \A c \in DOMAIN sessions' : sessions'[c] \in Session
      /\ executed' \in Seq(Executed)
      /\ IdsBelow' /\ Numbered' /\ AtMostOnce' /\ Remembered'
  BY <1>1, <1>2, <1>3, SettleKeeps
<1>5. DOMAIN entries' \subseteq Name /\ \A n \in DOMAIN entries' : entries'[n] \in Record
  BY <1>2 DEF KvInv, TypeOK
<1>6. TypeOK' BY <1>2, <1>4, <1>5 DEF KvInv, TypeOK, Executed
<1> QED BY <1>4, <1>6 DEF KvInv

\* A registration keeps the invariant: the id is new, so no session is reset.
LEMMA RegisterKeeps ==
    ASSUME KvInv, RegisterSession
    PROVE  KvInv'
<1> DEFINE k == next_client_id
<1>a. k \in 1..MaxU64 /\ k + 1 \in 1..MaxU64 /\ k \in Nat
  BY KvAssumption DEF KvInv, TypeOK, RegisterSession
<1>b. k \notin DOMAIN sessions BY <1>a DEF KvInv, IdsBelow
<1>1. /\ DOMAIN sessions' = DOMAIN sessions \cup {k}
      /\ sessions'[k] = Fresh
      /\ \A c \in DOMAIN sessions : sessions'[c] = sessions[c]
      /\ next_client_id' = k + 1
      /\ UNCHANGED <<next_generation, entries, executed>>
  BY <1>b DEF RegisterSession
<1>2. \A c \in DOMAIN sessions' : sessions'[c] \in Session
  BY <1>1 DEF KvInv, TypeOK, Session
<1>3. TypeOK' BY <1>1, <1>2, <1>a DEF KvInv, TypeOK
<1>4. IdsBelow'
  <2> SUFFICES ASSUME NEW c \in DOMAIN sessions' PROVE c < k + 1 BY <1>1 DEF IdsBelow
  <2>1. CASE c = k BY <2>1, <1>a
  <2>2. CASE c \in DOMAIN sessions
    <3>1. c \in 1..MaxU64 /\ c < k BY <2>2 DEF KvInv, TypeOK, IdsBelow
    <3> QED BY <3>1, <1>a, KvAssumption
  <2> QED BY <2>1, <2>2, <1>1
<1>5. Numbered' BY <1>1 DEF KvInv, Numbered
<1>6. AtMostOnce' BY <1>1 DEF KvInv, AtMostOnce
<1>7. Remembered' BY <1>1 DEF KvInv, Remembered
<1> QED BY <1>3, <1>4, <1>5, <1>6, <1>7 DEF KvInv

\* A step that changes nothing keeps the invariant.
LEMMA StutterKeeps ==
    ASSUME KvInv, UNCHANGED vars
    PROVE  KvInv'
BY DEF KvInv, vars, TypeOK, IdsBelow, Numbered, AtMostOnce, Remembered

\* Every step keeps the invariant.
LEMMA StepKeeps ==
    ASSUME KvInv, [Next]_vars
    PROVE  KvInv'
<1>1. CASE RegisterSession BY <1>1, RegisterKeeps
<1>2. CASE ReadBarrier BY <1>2, StutterKeeps DEF ReadBarrier
<1>3. ASSUME NEW m \in Mutation, Mutate(m) PROVE KvInv'
  <2>1. CASE Reply(m) # Error("none") BY <1>3, <2>1, StutterKeeps DEF Mutate
  <2>2. CASE Reply(m) = Error("none")
    <3> DEFINE q == m.request
    <3>1. Execute(m) BY <1>3, <2>2 DEF Mutate
    <3>2. CASE Precondition(q) # "none" /\ Reject(m, Precondition(q))
      <4>1. Precondition(q) \in {"KeyExists", "EtagMismatch"} BY <3>2 DEF Precondition
      <4> QED BY <3>2, <4>1, <2>2, RejectKeeps
    <3>3. CASE Reject(m, "GenerationExhausted") BY <3>3, <2>2, RejectKeeps
    <3>4. CASE q.op = "Delete" /\ Remove(m, q) BY <3>4, <2>2, RemoveKeeps
    <3>5. CASE q.op = "Put" /\ next_generation < MaxU64 /\ Store(m, q)
      BY <3>5, <2>2, StoreKeeps
    <3> QED BY <3>1, <3>2, <3>3, <3>4, <3>5 DEF Execute
  <2> QED BY <2>1, <2>2
<1>4. CASE UNCHANGED vars BY <1>4, StutterKeeps
<1> QED BY <1>1, <1>2, <1>3, <1>4 DEF Next

\* The state machine starts in the invariant.
LEMMA InitHolds == Init => KvInv
<1> SUFFICES ASSUME Init PROVE KvInv OBVIOUS
<1>1. executed = <<>> /\ DOMAIN executed = {} /\ DOMAIN sessions = {} /\ DOMAIN entries = {}
  BY DEF Init
<1>2. TypeOK BY <1>1, KvAssumption DEF Init, TypeOK
<1> QED BY <1>1, <1>2 DEF KvInv, IdsBelow, Numbered, AtMostOnce, Remembered

\* The answer of a session to a mutation, when the session is what Remembered says.
LEMMA CachedAnswer ==
    ASSUME NEW s, NEW m, s.sequence \in Nat, m.sequence \in Nat \ {0},
           m.sequence = s.sequence => s.result.kind \in {s.request.op, "Rejected"}
    PROVE  LET r == cached_mutation(s, m) IN
           \/ r.kind = "Error" /\ r.why \notin
                  {"session cache is incomplete", "session result mismatch"}
           \/ m.sequence = s.sequence /\ m.request = s.request /\ r = s.result
<1>1. CASE m.sequence < s.sequence BY <1>1 DEF cached_mutation, Error
<1>2. CASE m.sequence > s.sequence BY <1>2 DEF cached_mutation, Error
<1>3. CASE m.sequence = s.sequence /\ s.request # m.request
  BY <1>3 DEF cached_mutation, Error
<1>4. CASE m.sequence = s.sequence /\ s.request = m.request
  <2>1. /\ ~ (m.sequence < s.sequence) /\ ~ (m.sequence > s.sequence) /\ s.sequence # 0
        /\ s.request = m.request
    BY <1>4
  <2>2. s.result.kind \in {m.request.op, "Rejected"} BY <1>4
  <2>3. cached_mutation(s, m) = s.result BY <2>1, <2>2, Zenon DEF cached_mutation
  <2> QED BY <1>4, <2>3
<1>5. m.sequence < s.sequence \/ m.sequence > s.sequence \/ m.sequence = s.sequence
  <2> DEFINE a == m.sequence
             b == s.sequence
  <2>1. a \in Nat /\ b \in Nat OBVIOUS
  <2> HIDE DEF a, b
  <2>2. a < b \/ a > b \/ a = b BY <2>1
  <2> QED BY <2>2 DEF a, b
<1> QED BY <1>1, <1>2, <1>3, <1>4, <1>5

\* What a session remembers is what the retry of its mutation is told.
LEMMA InvReplies == KvInv => RepliesAreTrue
<1> SUFFICES ASSUME KvInv, NEW m \in Mutation
             PROVE  LET r == Reply(m) IN
                    /\ r.kind # "Error" => [mutation |-> m, result |-> r] \in
                                               {executed[i] : i \in DOMAIN executed}
                    /\ r.kind = "Error" => r.why \notin
                           {"session cache is incomplete", "session result mismatch"}
  BY DEF RepliesAreTrue
<1>1. CASE m.client_id \notin DOMAIN sessions BY <1>1 DEF Reply, Error
<1>2. CASE m.client_id \in DOMAIN sessions
  <2> DEFINE s == sessions[m.client_id]
             r == cached_mutation(s, m)
  <2>1. Reply(m) = r BY <1>2 DEF Reply
  <2>2. m.sequence \in Nat \ {0} BY KvAssumption, Zenon DEF Mutation
  <2>3. s.sequence \in Nat BY <1>2, SessionNumber DEF KvInv
  <2>4. s.sequence # 0 => s # Fresh BY DEF Fresh
  <2>5. s # Fresh =>
          /\ s.result.kind # "Error"
          /\ s.result.kind \in {s.request.op, "Rejected"}
          /\ \E i \in DOMAIN executed : executed[i] =
                [mutation |-> [client_id |-> m.client_id, sequence |-> s.sequence,
                               request |-> s.request],
                 result |-> s.result]
    BY <1>2, SessionNumber, ResultKinds DEF KvInv, Remembered
  <2>6. m = [client_id |-> m.client_id, sequence |-> m.sequence, request |-> m.request]
    BY DEF Mutation
  <2> HIDE DEF s
  <2>7. m.sequence = s.sequence => s # Fresh BY <2>2, <2>4
  <2>8. \/ r.kind = "Error" /\ r.why \notin
               {"session cache is incomplete", "session result mismatch"}
        \/ m.sequence = s.sequence /\ m.request = s.request /\ r = s.result
    BY <2>2, <2>3, <2>5, <2>7, CachedAnswer
  <2> HIDE DEF r
  <2>9. CASE m.sequence = s.sequence /\ m.request = s.request /\ r = s.result
    <3>1. r.kind # "Error" /\ [mutation |-> m, result |-> r] \in
                                  {executed[i] : i \in DOMAIN executed}
      BY <2>5, <2>6, <2>7, <2>9
    <3> QED BY <3>1, <2>1
  <2> QED BY <2>1, <2>8, <2>9
<1> QED BY <1>1, <1>2

\* KvInv is an invariant of the state machine.
THEOREM KvInvariant == Spec => []KvInv
<1>1. KvInv /\ [Next]_vars => KvInv' BY StepKeeps
<1> QED BY <1>1, InitHolds, PTL DEF Spec

\* The fields of KvState keep their types, and neither counter passes MaxU64.
THEOREM KvTypeCorrect == Spec => []TypeOK
<1>1. KvInv => TypeOK BY DEF KvInv
<1> QED BY <1>1, KvInvariant, PTL

\* A client's numbered mutation is carried out at most once, whatever the log holds
\* (cached_put, cached_delete, SessionState::record).
THEOREM KvAtMostOnce == Spec => []AtMostOnce
<1>1. KvInv => AtMostOnce BY DEF KvInv
<1> QED BY <1>1, KvInvariant, PTL

\* A retry is answered with the result of the one execution of that very mutation,
\* and the internal errors of the session cache cannot arise.
THEOREM KvRepliesAreTrue == Spec => []RepliesAreTrue
BY InvReplies, KvInvariant, PTL
=============================================================================
