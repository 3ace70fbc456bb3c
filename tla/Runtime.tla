------------------------------ MODULE Runtime ------------------------------
(***************************************************************************)
(* The requests of clients, the proposals the nodes' runtimes make for     *)
(* them, and the waiters through which they learn the outcome.  Consensus  *)
(* is reduced to what it promises: a sequence of chosen entries that every *)
(* node elected later holds, and that a node applies in order.  A deposed  *)
(* leader may go on believing that it leads, and proposing.                *)
(***************************************************************************)
EXTENDS Naturals, Sequences, Functions

CONSTANTS
    Node,
    Readers,        \* clients that call get (or head, list, list_namespaces)
    Writers,        \* clients that call put or delete, and may retry
    Nobody,         \* no node
    MaxIndex        \* bound: no proposal is made to a log this long

Client == Readers \cup Writers

ASSUME RuntimeAssumption ==
    /\ Nobody \notin Node /\ MaxIndex \in Nat
    /\ Readers \cap Writers = {}

VARIABLES
    log,        \* the log of each node
    chosen,     \* the committed entries
    elected,    \* the node elected last, and the length of its log at that time
    leading,    \* the nodes that believe they lead
    applied,    \* last_applied of each node
    waiters,    \* the pending proposals of each node, by index
    task        \* the request of each client

vars == <<log, chosen, elected, leading, applied, waiters, task>>

\* The bytes of a command. A mutation carries its client's id and sequence
\* number; ReadBarrier carries nothing.
Bytes(c) == IF c \in Writers THEN <<"Mutate", c>> ELSE <<"ReadBarrier">>

Idle == [phase |-> "idle"]

\* A request that ended without a result.
Failed(answer) == [phase |-> "done", answer |-> answer]

\* A log begins with the entries of another one.
StartsWith(lg, first) == Len(first) <= Len(lg) /\ SubSeq(lg, 1, Len(first)) = first

\* Everything up to here was written by requests that have been answered.
Acknowledged ==
    LET acks == {c \in Writers : task[c].phase = "done" /\ task[c].answer = "Ok"}
    IN  IF acks = {} THEN 0
        ELSE LET last == CHOOSE c \in acks : \A d \in acks : task[d].index <= task[c].index
             IN  task[last].index

Init ==
    /\ log = [n \in Node |-> <<>>]
    /\ chosen = <<>>
    /\ elected = [node |-> Nobody, base |-> 0]
    /\ leading = {}
    /\ applied = [n \in Node |-> 0]
    /\ waiters = [n \in Node |-> <<>>]
    /\ task = [c \in Client |-> Idle]

-----------------------------------------------------------------------------
\* Mutant of RemovePending: whoever waits at the index is removed.
RemovePendingAny(n, i, c) ==
    [waiters EXCEPT ![n] = Restrict(@, DOMAIN @ \ {i})]

\* remove_pending: only the waiter with the proposal's own id is removed.
RemovePending(n, i, c) ==
    [waiters EXCEPT ![n] = Restrict(@, {k \in DOMAIN @ : ~(k = i /\ @[k] = c)})]

\* Mutant of Completed: the bytes are not compared.
CompletedAny(t, c, lg, i) ==
    [t EXCEPT !.phase = "answered", !.answer = "Ok"]

\* PendingProposal::complete: the result goes to the waiter at the index if
\* the bytes of the applied entry are those it proposed.
Completed(t, c, lg, i) ==
    IF lg[i] = Bytes(c)
    THEN [t EXCEPT !.phase = "answered", !.answer = "Ok"]
    ELSE [t EXCEPT !.phase = "answered", !.answer = "Superseded"]

\* apply_committed of node n, whose log is lg, up to index k: the waiters at
\* the applied indices are removed and completed.
ApplyCommitted(n, lg, k) ==
    LET due == {i \in DOMAIN waiters[n] : applied[n] < i /\ i <= k}
    IN  /\ applied' = [applied EXCEPT ![n] = IF k > @ THEN k ELSE @]
        /\ waiters' = [waiters EXCEPT ![n] = Restrict(@, DOMAIN @ \ due)]
        /\ task' = [c \in Client |->
                        IF \E i \in due : waiters[n][i] = c
                        THEN Completed(task[c], c, lg, task[c].index)
                        ELSE task[c]]

-----------------------------------------------------------------------------
\* propose, until it waits for its receiver. An older waiter at the same index
\* is dropped from the map, which its receiver notices.
Propose(c, n) ==
    LET i == Len(log[n]) + 1
        old == {d \in Client : i \in DOMAIN waiters[n] /\ waiters[n][i] = d}
    IN  /\ task[c].phase = "idle"
        /\ n \in leading
        /\ i <= MaxIndex
        /\ log' = [log EXCEPT ![n] = Append(@, Bytes(c))]
        /\ waiters' = [waiters EXCEPT ![n] =
              [k \in DOMAIN @ \cup {i} |-> IF k = i THEN c ELSE @[k]]]
        /\ task' = [d \in Client |->
                      IF d = c
                      THEN [phase |-> "waiting", node |-> n, index |-> i,
                            floor |-> Acknowledged, answer |-> "None", value |-> 0]
                      ELSE IF d \in old
                      THEN [task[d] EXCEPT !.phase = "answered", !.answer = "Dropped"]
                      ELSE task[d]]
        /\ UNCHANGED <<chosen, elected, leading, applied>>

\* Mutant of Finish: a read goes on whatever became of its barrier.
FinishAnyway(c) ==
    /\ task[c].phase = "answered"
    /\ waiters' = RemovePending(task[c].node, task[c].index, c)
    /\ task' = [task EXCEPT ![c].phase = IF c \in Readers THEN "reading" ELSE "done",
                           ![c].answer = IF c \in Readers THEN "Ok" ELSE @]
    /\ UNCHANGED <<log, chosen, elected, leading, applied>>

\* propose after its receiver was answered: cleanup.finish(). A read that got
\* through its barrier has the state still to read.
Finish(c) ==
    /\ task[c].phase = "answered"
    /\ waiters' = RemovePending(task[c].node, task[c].index, c)
    /\ task' = [task EXCEPT ![c] =
                    IF @.answer # "Ok" THEN Failed(@.answer)
                    ELSE [@ EXCEPT !.phase = IF c \in Readers THEN "reading" ELSE "done"]]
    /\ UNCHANGED <<log, chosen, elected, leading, applied>>

\* PROPOSAL_TIMEOUT, or the request is cancelled: PendingCleanup.
GiveUp(c) ==
    /\ task[c].phase = "waiting"
    /\ waiters' = RemovePending(task[c].node, task[c].index, c)
    /\ task' = [task EXCEPT ![c] = Failed("TimedOut")]
    /\ UNCHANGED <<log, chosen, elected, leading, applied>>

\* get, after the barrier: the state is read as it is by now. How much of the
\* log is applied stands for what is read.
ReadState(c) ==
    /\ task[c].phase = "reading"
    /\ task' = [task EXCEPT ![c].phase = "done", ![c].value = applied[task[c].node]]
    /\ UNCHANGED <<log, chosen, elected, leading, applied, waiters>>

\* A client whose mutation was not acknowledged sends it again.
Retry(c) ==
    /\ c \in Writers
    /\ task[c].phase = "done" /\ task[c].answer # "Ok"
    /\ task' = [task EXCEPT ![c] = Idle]
    /\ UNCHANGED <<log, chosen, elected, leading, applied, waiters>>

-----------------------------------------------------------------------------
\* A node that holds what was chosen is elected.
Elect(n) ==
    /\ n \notin leading
    /\ StartsWith(log[n], chosen)
    /\ elected' = [node |-> n, base |-> Len(log[n])]
    /\ leading' = leading \cup {n}
    /\ UNCHANGED <<log, chosen, applied, waiters, task>>

\* A deposed leader hears of the newer term.
StepDown(n) ==
    /\ n \in leading /\ n # elected.node
    /\ leading' = leading \ {n}
    /\ UNCHANGED <<log, chosen, elected, applied, waiters, task>>

\* A majority stores the elected leader's entries up to k, the last of which is
\* of its own term; the leader commits and applies them.
Choose(n, k) ==
    /\ n = elected.node /\ n \in leading
    /\ k > Len(chosen) /\ k > elected.base
    /\ chosen' = SubSeq(log[n], 1, k)
    /\ ApplyCommitted(n, log[n], k)
    /\ UNCHANGED <<log, elected, leading>>

\* What an append of the first entries of the leader's log makes of n's. A log that
\* disagrees with them is cut there. One that begins with the same bytes may have them
\* from another term, where it does not know them to be committed: it is cut as well.
Merged(n, sent) ==
    {lg \in {log[n]} : StartsWith(lg, sent)} \cup
    {lg \in {sent} : ~StartsWith(log[n], lg) \/ applied[n] < Len(lg)}

\* An AppendRequest of the elected leader with its entries up to k and commit
\* index j reaches n: a conflicting tail is replaced, and n applies up to j.
Replicate(n, k, j) ==
    \E merged \in Merged(n, SubSeq(log[elected.node], 1, k)) :
        /\ elected.node \in leading /\ n # elected.node
        /\ j <= k /\ j <= Len(chosen)
        /\ log' = [log EXCEPT ![n] = merged]
        /\ leading' = leading \ {n}
        /\ ApplyCommitted(n, merged, j)
        /\ UNCHANGED <<chosen, elected>>

\* A node stops and starts again: its log is on disk, the rest is not.
Restart(n) ==
    /\ leading' = leading \ {n}
    /\ applied' = [applied EXCEPT ![n] = 0]
    /\ waiters' = [waiters EXCEPT ![n] = <<>>]
    /\ task' = [c \in Client |->
                  IF task[c].phase \in {"waiting", "answered", "reading"} /\ task[c].node = n
                  THEN Failed("Lost")
                  ELSE task[c]]
    /\ UNCHANGED <<log, chosen, elected>>

Next ==
    \/ \E c \in Client : \/ \E n \in Node : Propose(c, n)
                         \/ Finish(c) \/ GiveUp(c) \/ ReadState(c) \/ Retry(c)
    \/ \E n \in Node :
          \/ Elect(n) \/ StepDown(n) \/ Restart(n)
          \/ \E k \in 1..Len(log[n]) : Choose(n, k)
    \/ \E n \in Node : elected.node \in Node
          /\ \E k \in 0..Len(log[elected.node]), j \in 0..Len(chosen) : Replicate(n, k, j)

Spec == Init /\ [][Next]_vars

-----------------------------------------------------------------------------
\* A request that waits is in the map under its index, and whoever is in the
\* map still waits: no cleanup of a proposal, late or early, takes away the
\* waiter of another one at the same index (runtime.rs, remove_pending).
WaitersAttended ==
    /\ \A n \in Node : \A i \in DOMAIN waiters[n] :
          LET t == task[waiters[n][i]]
          IN  t.phase = "waiting" /\ t.node = n /\ t.index = i
    /\ \A c \in Client : task[c].phase = "waiting" =>
          LET w == waiters[task[c].node]
          IN  task[c].index \in DOMAIN w /\ w[task[c].index] = c

\* A mutation is acknowledged only if it is chosen at the index it was given,
\* whatever became of the leader that proposed it.
AcknowledgedIsChosen ==
    \A c \in Writers : task[c].phase \in {"answered", "done"} /\ task[c].answer = "Ok" =>
        task[c].index <= Len(chosen) /\ chosen[task[c].index] = Bytes(c)

\* A read returns a state that holds every write that was acknowledged before
\* the read began.
ReadsCurrent ==
    \A c \in Readers : task[c].phase = "done" /\ task[c].answer = "Ok" =>
        task[c].value >= task[c].floor
=============================================================================
