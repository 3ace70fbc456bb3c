------------------------------- MODULE Driver -------------------------------
(***************************************************************************)
(* The runtime of one node: concurrent calls that take turns at its Raft   *)
(* machine, save what a step changed, send its messages, and apply what it *)
(* committed.  The persistent state is abstracted to the number of changes *)
(* made to it, the committed entries to how many there are.                *)
(***************************************************************************)
EXTENDS Naturals, Sequences

CONSTANTS
    Tick,           \* the call made by run()
    Request,        \* the calls of propose() and of receive_raft()
    MaxVersion      \* bound: changes to the persistent state

Caller == {Tick} \cup Request

ASSUME DriverAssumption == Tick \notin Request /\ MaxVersion \in Nat

VARIABLES
    memory,     \* changes to node.persistent()
    stored,     \* how many of them are on disk
    sent,       \* how many of them the last messages were based on
    commit,     \* commit_index
    applied,    \* last_applied
    state,      \* the entries applied to the KvState, in order
    failed,     \* RaftRuntime.failed
    queue,      \* the machine mutex: its holder, then the calls that wait
    phase       \* where each call is

vars == <<memory, stored, sent, commit, applied, state, failed, queue, phase>>

Init ==
    /\ memory = 0 /\ stored = 0 /\ sent = 0
    /\ commit = 0 /\ applied = 0 /\ state = <<>>
    /\ failed = FALSE
    /\ queue = <<>>
    /\ phase = [c \in Caller |-> "idle"]

Holds(c) == queue # <<>> /\ Head(queue) = c

\* The call c ends: the mutex is released, or its place in the queue given up.
\* run() ends for good when its call fails.
Leave(c, to) ==
    /\ queue' = SelectSeq(queue, LAMBDA d : d # c)
    /\ phase' = [phase EXCEPT ![c] = to]

-----------------------------------------------------------------------------
\* Mutant of Enter: the call does not ask whether the runtime has failed.
EnterUnhealthy(c) ==
    /\ phase[c] = "idle"
    /\ queue' = Append(queue, c)
    /\ phase' = [phase EXCEPT ![c] = "queued"]
    /\ UNCHANGED <<memory, stored, sent, commit, applied, state, failed>>

\* ensure_healthy()?, then machine.lock().await
Enter(c) ==
    /\ phase[c] = "idle"
    /\ ~failed
    /\ queue' = Append(queue, c)
    /\ phase' = [phase EXCEPT ![c] = "queued"]
    /\ UNCHANGED <<memory, stored, sent, commit, applied, state, failed>>

\* tick of run() after a failure: run() returns the error.
Stop ==
    /\ phase[Tick] = "idle" /\ failed
    /\ phase' = [phase EXCEPT ![Tick] = "stopped"]
    /\ UNCHANGED <<memory, stored, sent, commit, applied, state, failed, queue>>

\* The step of the node: it may change the persistent state and commit.
Advance(persist, c) ==
    /\ phase[c] = "queued" /\ Holds(c)
    /\ persist => memory < MaxVersion
    /\ memory' = IF persist THEN memory + 1 ELSE memory
    /\ commit' \in commit..memory'

\* Mutant of Step: the messages go out and the state is not saved.
StepSendFirst(c) ==
    \E persist \in BOOLEAN :
        /\ Advance(persist, c)
        /\ sent' = memory'
        /\ stored' = stored
        /\ phase' = [phase EXCEPT ![c] = "applying"]
        /\ UNCHANGED <<applied, state, failed, queue>>

\* handle_effects: save if the step asked for it, then send.
Step(c) ==
    \E persist \in BOOLEAN :
        /\ Advance(persist, c)
        /\ stored' = IF persist THEN memory' ELSE stored
        /\ sent' = memory'
        /\ phase' = [phase EXCEPT ![c] = "applying"]
        /\ UNCHANGED <<applied, state, failed, queue>>

\* handle_effects when store.save() fails, with or without the record on disk:
\* nothing is sent or applied, and fail() is called.
SaveFails(c) ==
    /\ Advance(TRUE, c)
    /\ stored' \in {stored, memory'}
    /\ failed' = TRUE
    /\ Leave(c, IF c = Tick THEN "stopped" ELSE "idle")
    /\ UNCHANGED <<sent, applied, state>>

\* Mutant of Apply: the node is advanced only when the mutex is released.
ApplyFirst(c) ==
    /\ phase[c] = "applying" /\ Holds(c)
    /\ applied < commit /\ Len(state) < MaxVersion
    /\ state' = Append(state, applied + 1)
    /\ applied' \in {applied, applied + 1}
    /\ UNCHANGED <<memory, stored, sent, commit, failed, queue, phase>>

\* One turn of the loop of apply_committed, from one await to the next.
Apply(c) ==
    /\ phase[c] = "applying" /\ Holds(c)
    /\ applied < commit
    /\ state' = Append(state, applied + 1)
    /\ applied' = applied + 1
    /\ UNCHANGED <<memory, stored, sent, commit, failed, queue, phase>>

\* Mutant of Release: the call may return before all that is committed is
\* applied.
ReleaseEarly(c) ==
    /\ phase[c] = "applying" /\ Holds(c)
    /\ Leave(c, "idle")
    /\ UNCHANGED <<memory, stored, sent, commit, applied, state, failed>>

\* The call has applied all that is committed, and returns.
Release(c) ==
    /\ phase[c] = "applying" /\ Holds(c)
    /\ applied = commit
    /\ Leave(c, "idle")
    /\ UNCHANGED <<memory, stored, sent, commit, applied, state, failed>>

\* The future of a request is dropped at one of its awaits: in the queue, or
\* between two entries that it applies. The task of run() is never cancelled.
Cancel(c) ==
    /\ c \in Request
    /\ phase[c] \in {"queued", "applying"}
    /\ Leave(c, "idle")
    /\ UNCHANGED <<memory, stored, sent, commit, applied, state, failed>>

\* The process ends, and is started again from the disk.
Restart ==
    /\ memory' = stored
    /\ commit' = 0 /\ applied' = 0 /\ state' = <<>>
    /\ failed' = FALSE
    /\ queue' = <<>>
    /\ phase' = [c \in Caller |-> "idle"]
    /\ UNCHANGED <<stored, sent>>

Next ==
    \/ \E c \in Caller : \/ Enter(c) \/ Step(c) \/ SaveFails(c)
                         \/ Apply(c) \/ Release(c) \/ Cancel(c)
    \/ Stop
    \/ Restart

\* run() calls tick_once until one returns an error; a call that holds the mutex goes
\* on; tokio's Mutex is handed over in the order of arrival.
Fairness ==
    /\ WF_vars(Enter(Tick)) /\ WF_vars(Stop)
    /\ \A c \in Caller : WF_vars(Step(c) \/ SaveFails(c) \/ Apply(c) \/ Release(c))

Spec == Init /\ [][Next]_vars /\ Fairness

-----------------------------------------------------------------------------
\* Until a save fails, no step sends a message based on state that a restart
\* could lose.
SavedWhileHealthy == [][~failed /\ sent' # sent => sent' <= stored']_vars

\* Every committed entry is applied once and in order, whichever calls are
\* cancelled while they apply (apply_committed).
AppliedInOrder == state = [i \in 1..applied |-> i]

\* What is committed is applied in the end, unless the runtime fails or the
\* process ends, even if the call that committed it is cancelled.
EventuallyApplied ==
    \A k \in 1..MaxVersion : commit >= k ~> (applied >= k \/ commit < k \/ failed)

\* After a failure the runtime comes to rest, unless the process ends before: the calls
\* that had passed ensure_healthy when the save failed, and only wait for the mutex,
\* are the last, all of them return, and run() gives up (runtime.rs, ensure_healthy).
FailureComesToRest ==
    failed ~> (~failed \/ (queue = <<>> /\ phase[Tick] = "stopped"))
=============================================================================
