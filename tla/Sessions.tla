------------------------------ MODULE Sessions ------------------------------
(***************************************************************************)
(* The SessionTracker of the raft-io crate, embedded in the key-value      *)
(* state machine the way its documentation asks for: it is told of every   *)
(* registration and of every mutation that was carried out.  KvState keeps *)
(* sessions of its own, so the two can be compared.  Unlike KvState the    *)
(* tracker can forget a client.                                            *)
(***************************************************************************)
EXTENDS Kv

CONSTANT Leaving   \* the clients whose session the application may expire

VARIABLE tracker    \* SessionTracker.sessions; next_client_id is KvState's

\* ClientSession: the default has completed nothing.
NoResponse == [kind |-> "None"]
ClientSession == [last_sequence |-> 0, last_response |-> NoResponse]

\* SessionTracker::register_client.
register_client ==
    tracker' = [c \in DOMAIN tracker \cup {next_client_id} |->
        IF c = next_client_id THEN ClientSession ELSE tracker[c]]

\* Mutant: a sequence number below the last one counts as new.
check_duplicate_late(c, s) ==
    IF c \notin DOMAIN tracker \/ s # tracker[c].last_sequence THEN "New"
    ELSE IF tracker[c].last_response = NoResponse THEN "New" ELSE "Duplicate"

\* SessionTracker::check_duplicate; the response of a duplicate is last_response.
check_duplicate(c, s) ==
    IF c \notin DOMAIN tracker \/ s > tracker[c].last_sequence THEN "New"
    ELSE IF s < tracker[c].last_sequence THEN "Stale"
    ELSE IF tracker[c].last_response = NoResponse THEN "New" ELSE "Duplicate"

\* SessionTracker::record_completion: an unknown client gets a session.
record_completion(c, s, response) ==
    LET old == IF c \in DOMAIN tracker THEN tracker[c] ELSE ClientSession
        new == IF s > old.last_sequence
               THEN [last_sequence |-> s, last_response |-> response] ELSE old
    IN  tracker' = [d \in DOMAIN tracker \cup {c} |-> IF d = c THEN new ELSE tracker[d]]

\* SessionTracker::expire_session.
expire_session(c) ==
    /\ c \in DOMAIN tracker
    /\ tracker' = [d \in DOMAIN tracker \ {c} |-> tracker[d]]
    /\ UNCHANGED vars

\* A mutation reaches the state machine; what it carries out the tracker records.
TrackedMutate(m) ==
    /\ Mutate(m)
    /\ IF Reply(m) = Error("none")
       THEN record_completion(m.client_id, m.sequence, executed'[Len(executed')].result)
       ELSE UNCHANGED tracker

TrackedInit == Init /\ tracker = <<>>

TrackedNext ==
    \/ RegisterSession /\ register_client
    \/ ReadBarrier /\ UNCHANGED tracker
    \/ \E m \in Mutation : TrackedMutate(m)
    \/ \E c \in Leaving : expire_session(c)

TrackedSpec == TrackedInit /\ [][TrackedNext]_<<vars, tracker>>

-----------------------------------------------------------------------------
\* Of a client it has not forgotten the tracker says what KvState says: the same
\* mutations are new, the same are stale, and a duplicate is given the same answer.
\* A number that is used again for something else is a duplicate to the tracker,
\* which does not see the request.
TrackerAgrees ==
    \A m \in Mutation : m.client_id \in DOMAIN tracker =>
        LET d == check_duplicate(m.client_id, m.sequence)
            r == Reply(m)
        IN  /\ d = "New" <=> r = Error("none")
            /\ d = "Stale" <=> r = Error("stale client sequence")
            /\ d = "Duplicate" =>
                  \/ tracker[m.client_id].last_response = r
                  \/ r = Error("sequence reused for different request")
=============================================================================
