-------------------------------- MODULE Kv --------------------------------
(***************************************************************************)
(* The key-value state machine that every replica feeds with the committed *)
(* commands, in log order.  It is deterministic: Apply below is the whole  *)
(* of KvState::apply, and the only choice is which command the log holds   *)
(* next.  A client may retry a mutation, so commands repeat.               *)
(***************************************************************************)
EXTENDS Naturals, Sequences

CONSTANTS
    Name,       \* the (namespace, key) pairs that KvName::new accepts
    Body,       \* values within the size limit
    Client,     \* client ids a command may carry
    Sequence,   \* sequence numbers a command may carry
    MaxU64      \* the largest u64, where the two counters stop

ASSUME KvAssumption ==
    /\ Client \subseteq Nat \ {0} /\ Sequence \subseteq Nat \ {0}
    /\ MaxU64 \in Nat \ {0}

VARIABLES
    next_client_id,
    next_generation,
    entries,    \* the live names and their records
    sessions,   \* the registered clients and their last mutation
    executed    \* history: the mutations that were carried out, in order

vars == <<next_client_id, next_generation, entries, sessions, executed>>

\* etag_for: a quoted name of the generation, never the empty string.
etag_for(g) == [generation |-> g]

NoEtag == [generation |-> 0]

\* The largest generation is never given out (Execute), so no client holds its ETag.
Etag == {etag_for(g) : g \in 0..(MaxU64 - 1)}

Record == [body : Body, etag : Etag, generation : 1..(MaxU64 - 1)]

\* MutationRequest, for requests that pass validate_put_preconditions.
PutRequest ==
    {q \in [op : {"Put"}, name : Name, body : Body, if_match : Etag,
            if_none_match : BOOLEAN] :
        ~(q.if_match # NoEtag /\ q.if_none_match)}

DeleteRequest == [op : {"Delete"}, name : Name, if_match : Etag]

Request == PutRequest \cup DeleteRequest

Mutation == [client_id : Client, sequence : Sequence, request : Request]

\* MutationResult and the errors that no session records.
PutResponse == [kind : {"Put"}, name : Name, generation : 1..MaxU64]
DeleteResponse == [kind : {"Delete"}, name : Name, generation : 0..MaxU64,
                   deleted : BOOLEAN]
Rejected == [kind : {"Rejected"},
             why : {"KeyExists", "EtagMismatch", "GenerationExhausted"}]
Result == PutResponse \cup DeleteResponse \cup Rejected
Error(why) == [kind |-> "Error", why |-> why]

\* SessionState: sequence 0 is the default, with neither request nor result.
Fresh == [sequence |-> 0]
Session == {Fresh} \cup [sequence : Sequence, request : Request, result : Result]

Live(name) == name \in DOMAIN entries

Holds(name, etag) == Live(name) /\ entries[name].etag = etag

\* Mutant: if_match is not compared when the key exists.
PreconditionLoose(q) ==
    IF q.op = "Put" /\ q.if_none_match /\ Live(q.name) THEN "KeyExists"
    ELSE IF q.if_match # NoEtag /\ ~Live(q.name) THEN "EtagMismatch"
    ELSE "none"

\* What stands against a mutation: check_put_preconditions, and the test of a
\* delete.
Precondition(q) ==
    IF q.op = "Put" /\ q.if_none_match /\ Live(q.name) THEN "KeyExists"
    ELSE IF q.if_match # NoEtag /\ ~Holds(q.name, q.if_match) THEN "EtagMismatch"
    ELSE "none"

\* SessionState::record, and the history it leaves behind.
Settle(m, result) ==
    /\ sessions' = [sessions EXCEPT ![m.client_id] =
            [sequence |-> m.sequence, request |-> m.request, result |-> result]]
    /\ executed' = Append(executed, [mutation |-> m, result |-> result])
    /\ UNCHANGED next_client_id

\* reject: the refusal is recorded, so that a retry is refused the same way.
Reject(m, why) ==
    /\ Settle(m, [kind |-> "Rejected", why |-> why])
    /\ UNCHANGED <<next_generation, entries>>

\* The new content of a put, under the next generation.
Store(m, q) ==
    LET g == next_generation IN
    /\ entries' = [n \in DOMAIN entries \cup {q.name} |->
            IF n = q.name THEN [body |-> q.body, etag |-> etag_for(g), generation |-> g]
            ELSE entries[n]]
    /\ next_generation' = g + 1
    /\ Settle(m, [kind |-> "Put", name |-> q.name, generation |-> g])

\* Mutant: a delete without if_match leaves the record in place.
RemoveConditional(m, q) ==
    /\ entries' = [n \in DOMAIN entries \ (IF q.if_match = NoEtag THEN {} ELSE {q.name})
                       |-> entries[n]]
    /\ Settle(m, [kind |-> "Delete", name |-> q.name, deleted |-> Live(q.name),
                  generation |-> IF Live(q.name) THEN entries[q.name].generation ELSE 0])
    /\ UNCHANGED next_generation

\* The removal of a name, live or not.
Remove(m, q) ==
    /\ entries' = [n \in DOMAIN entries \ {q.name} |-> entries[n]]
    /\ Settle(m, [kind |-> "Delete", name |-> q.name, deleted |-> Live(q.name),
                  generation |-> IF Live(q.name) THEN entries[q.name].generation ELSE 0])
    /\ UNCHANGED next_generation

\* A mutation seen for the first time.
Execute(m) ==
    LET q == m.request IN
    \/ Precondition(q) # "none" /\ Reject(m, Precondition(q))
    \/ /\ Precondition(q) = "none"
       /\ \/ q.op = "Delete" /\ Remove(m, q)
          \/ q.op = "Put" /\ next_generation = MaxU64 /\ Reject(m, "GenerationExhausted")
          \/ q.op = "Put" /\ next_generation < MaxU64 /\ Store(m, q)

\* Mutant: a repeated sequence number is answered from the cache whatever it asks.
cached_any(s, m) ==
    IF m.sequence < s.sequence THEN Error("stale client sequence")
    ELSE IF m.sequence > s.sequence THEN Error("none")
    ELSE s.result

\* cached_put and cached_delete: what session s already says of mutation m;
\* "none" when it is new.
cached_mutation(s, m) ==
    IF m.sequence < s.sequence THEN Error("stale client sequence")
    ELSE IF m.sequence > s.sequence THEN Error("none")
    ELSE IF s.sequence = 0 THEN Error("session cache is incomplete")
    ELSE IF s.request # m.request THEN Error("sequence reused for different request")
    ELSE IF s.result.kind \notin {m.request.op, "Rejected"} THEN Error("session result mismatch")
    ELSE s.result

\* The answer of apply_put and apply_delete to mutation m, when it is not new.
Reply(m) ==
    IF m.client_id \notin DOMAIN sessions THEN Error("unknown client session")
    ELSE cached_mutation(sessions[m.client_id], m)

\* apply_put and apply_delete: anything but a new mutation changes nothing.
Mutate(m) == IF Reply(m) = Error("none") THEN Execute(m) ELSE UNCHANGED vars

\* Mutant: the overflow of the counter is not checked.
RegisterUnchecked ==
    /\ next_client_id' = next_client_id + 1
    /\ sessions' = [c \in DOMAIN sessions \cup {next_client_id} |->
            IF c = next_client_id THEN Fresh ELSE sessions[c]]
    /\ next_client_id <= MaxU64
    /\ UNCHANGED <<next_generation, entries, executed>>

\* Mutant: the counter is not advanced, so that an id is given twice.
RegisterAgain ==
    /\ next_client_id < MaxU64
    /\ sessions' = [c \in DOMAIN sessions \cup {next_client_id} |->
            IF c = next_client_id THEN Fresh ELSE sessions[c]]
    /\ UNCHANGED <<next_client_id, next_generation, entries, executed>>

\* RegisterSession: the counter advances first, so the largest id is never given.
RegisterSession ==
    /\ next_client_id < MaxU64
    /\ next_client_id' = next_client_id + 1
    /\ sessions' = [c \in DOMAIN sessions \cup {next_client_id} |->
            IF c = next_client_id THEN Fresh ELSE sessions[c]]
    /\ UNCHANGED <<next_generation, entries, executed>>

\* ReadBarrier changes nothing; neither does a registration once the ids are used up.
ReadBarrier == UNCHANGED vars

Init ==
    /\ next_client_id = 1 /\ next_generation = 1
    /\ entries = <<>> /\ sessions = <<>> /\ executed = <<>>

Next == RegisterSession \/ ReadBarrier \/ \E m \in Mutation : Mutate(m)

Spec == Init /\ [][Next]_vars

---------------------------------------------------------------------------
\* The state machine's values have the types of its fields.
TypeOK ==
    /\ next_client_id \in 1..MaxU64 /\ next_generation \in 1..MaxU64
    /\ DOMAIN entries \subseteq Name
    /\ \A n \in DOMAIN entries : entries[n] \in Record
    /\ DOMAIN sessions \subseteq 1..MaxU64
    /\ \A c \in DOMAIN sessions : sessions[c] \in Session
    /\ executed \in Seq([mutation : Mutation, result : Result])

\* A client's numbered mutation is carried out at most once, however often the
\* log holds it and whatever is interleaved between the retries.
AtMostOnce ==
    \A i, j \in DOMAIN executed :
        /\ executed[i].mutation.client_id = executed[j].mutation.client_id
        /\ executed[i].mutation.sequence = executed[j].mutation.sequence
        => i = j

\* A retry is answered with the result of the one execution of that very
\* mutation, and the branches of cached_put, cached_delete and cached_mutation
\* that report an internal error are never taken.
RepliesAreTrue ==
    \A m \in Mutation :
        LET r == Reply(m) IN
        /\ r.kind # "Error" => [mutation |-> m, result |-> r] \in
                                   {executed[i] : i \in DOMAIN executed}
        /\ r.kind = "Error" => r.why \notin
               {"session cache is incomplete", "session result mismatch"}

\* The mutations of a name that changed it before position j of the history.
Changes(name, j) ==
    {i \in 1..(j - 1) : /\ executed[i].result.kind \in {"Put", "Delete"}
                        /\ executed[i].mutation.request.name = name}

\* The largest position of a set, 0 if it is empty.
Latest(c) == IF c = {} THEN 0 ELSE CHOOSE i \in c : \A k \in c : k <= i

LastChange(name, j) == Latest(Changes(name, j))

\* Did the history before j leave the name live?
LiveBefore(name, j) ==
    LastChange(name, j) # 0 /\ executed[LastChange(name, j)].result.kind = "Put"

\* Mutation j of the history was carried out on the state its conditions name.
SwapsWhatWasSeen(j) ==
    LET q == executed[j].mutation.request
        last == LastChange(q.name, j)
    IN  executed[j].result.kind \in {"Put", "Delete"} =>
        /\ q.if_match # NoEtag =>
              /\ LiveBefore(q.name, j)
              /\ etag_for(executed[last].result.generation) = q.if_match
              /\ \A i \in 1..(j - 1) :
                    executed[i].result.kind = "Put" /\ i # last =>
                        etag_for(executed[i].result.generation) # q.if_match
        /\ q.op = "Put" /\ q.if_none_match => ~LiveBefore(q.name, j)

\* A mutation with if_match succeeds only if the write that was given this ETag
\* is the last change of the name, and one with if_none_match only if the name
\* is absent: no other client's write is overwritten unseen, even when the name
\* was deleted and written again in between.
CompareAndSwap == \A j \in DOMAIN executed : SwapsWhatWasSeen(j)

\* A name is live exactly when its last change was a put, and holds the body
\* and generation of that put: rejected and repeated mutations leave no trace.
EntriesMatchHistory ==
    \A n \in Name :
        LET end == Len(executed) + 1 IN
        /\ Live(n) <=> LiveBefore(n, end)
        /\ Live(n) => /\ entries[n].body = executed[LastChange(n, end)].mutation.request.body
                      /\ entries[n].generation = executed[LastChange(n, end)].result.generation
===========================================================================
