------------------------------ MODULE Console ------------------------------
(***************************************************************************)
(* The record panel of the web console, its draft and its writer, on top   *)
(* of the KV service, while other clients write the same name.  A call the *)
(* panel has made may be committed late, after its answer was given up and *)
(* the panel closed; the writer's numbers and the ETags have to see to it  *)
(* that nothing the user did not mean happens then.                        *)
(***************************************************************************)
EXTENDS Sessions

CONSTANTS
    Nothing,            \* undefined, null: no record, no operation, no text
    ForeignMutation     \* what other clients may send

\* Other clients send what clients may send, an id that is given out is one a command
\* may carry, and null is not a record.
ASSUME ConsoleAssumption ==
    /\ ForeignMutation \subseteq Mutation
    /\ 1..(MaxU64 - 1) \subseteq Client
    /\ Nothing \notin Record

VARIABLES
    panel,      \* RecordPanel: what it edits, its draft and its operation
    cache,      \* record.data: the last answer to get, kept between panels
    writer,     \* createWriter: session and sequence
    call,       \* the operation that is being executed; there is one at a time
    sent,       \* history: the operations, each with the record its text came from
    given_up    \* history: the operations the panel let the user change and send anew

console == <<panel, cache, writer, call, sent, given_up>>

\* origin is history: the record whose value the text was taken from.
initialDraft(text) == [record |-> Nothing, text |-> text, dirty |-> FALSE, origin |-> Nothing]

Closed == [mode |-> "closed", draft |-> initialDraft(Nothing), operation |-> Nothing,
           refused |-> FALSE]

\* Mutant: a background refresh moves the revision of a draft that is being edited.
loadedAlways(draft, record) ==
    IF draft.dirty THEN [draft EXCEPT !.record = record]
    ELSE [record |-> record, text |-> record.body, dirty |-> FALSE, origin |-> record]

\* reduceDraft, loaded: a draft that is being edited keeps text and revision.
loaded(draft, record) ==
    IF draft.dirty THEN draft
    ELSE [record |-> record, text |-> record.body, dirty |-> FALSE, origin |-> record]

\* reduceDraft, edited.
edited(draft, text) == [draft EXCEPT !.text = text, !.dirty = TRUE]

\* Are the fields locked?  So they are while an operation is not settled.
locked == panel.operation # Nothing

\* propose_error: what a node answers that does not propose the command.  It says
\* nothing of the copies sent before.
propose_error == {Error("not leader"), Error("too many Raft proposals")}

\* Mutant: every FailedPrecondition will do, and "not leader" is one.
canEditAfterCode(answer) ==
    \/ answer.kind = "Rejected" /\ answer.why \in {"KeyExists", "EtagMismatch"}
    \/ answer \in {Error("unknown client session"), Error("not leader")}

\* canEditAfterFailure: FailedPrecondition of a mutation, and InvalidArgument.
canEditAfterFailure(answer) ==
    \/ answer.kind = "Rejected" /\ answer.why \in {"KeyExists", "EtagMismatch"}
    \/ answer = Error("unknown client session")

\* Mutant: every operation starts to count anew.
countedAnew(w) == [w EXCEPT !.sequence = 1]

\* identity: the next number of the session.
counted(w) == [w EXCEPT !.sequence = @ + 1]

\* registerSession of the writer, once: its answer arrives.  If it does not, the
\* writer asks again, and the session is left to nobody.  The code does this with the
\* first save; up to then a panel changes nothing but itself, and which number the
\* session has makes no difference, so it comes before everything else.
Register ==
    /\ writer.session = 0 /\ sessions = <<>>
    /\ RegisterSession /\ register_client
    /\ writer' = [writer EXCEPT !.session = next_client_id]
    /\ UNCHANGED <<panel, cache, call, sent, given_up>>

\* A panel for a new record, or for one that is listed, with what the cache has of it.
OpenPanel(mode, text) ==
    /\ panel = Closed
    /\ mode = "edit" => cache # Nothing \/ \E n \in Name : Live(n)
    /\ panel' = [mode |-> mode, operation |-> Nothing, refused |-> FALSE, draft |->
            IF mode = "new" THEN initialDraft(text)
            ELSE IF cache = Nothing THEN initialDraft(Nothing)
            ELSE loaded(initialDraft(Nothing), cache)]
    /\ UNCHANGED <<cache, writer, call, sent, given_up>>

\* The panel goes away, by Close or because the user goes somewhere else; a call
\* under way goes on.
Leave ==
    /\ panel # Closed
    /\ panel' = Closed
    /\ UNCHANGED <<cache, writer, call, sent, given_up>>

\* record.data arrives, and the draft is told.
Fetch(n) ==
    /\ panel.mode = "edit" /\ Live(n)
    /\ cache' = entries[n]
    /\ panel' = [panel EXCEPT !.draft = loaded(@, entries[n])]
    /\ UNCHANGED <<writer, call, sent, given_up>>

\* The user types.
Edit(text) ==
    /\ panel # Closed /\ ~locked
    /\ panel.mode = "edit" => panel.draft.record # Nothing
    /\ panel' = [panel EXCEPT !.draft = edited(@, text)]
    /\ UNCHANGED <<cache, writer, call, sent, given_up>>

\* Discard edits and reload; save.reset() puts the error away.
Reload ==
    /\ panel.mode = "edit" /\ ~locked /\ panel.draft.record # Nothing
    /\ cache.etag # panel.draft.record.etag
    /\ panel' = [panel EXCEPT !.draft = loaded([@ EXCEPT !.dirty = FALSE], cache),
                              !.refused = FALSE]
    /\ UNCHANGED <<cache, writer, call, sent, given_up>>

\* ifMatch: base?.etag.
base_etag == IF panel.draft.record = Nothing THEN NoEtag ELSE panel.draft.record.etag

\* KvApi::put and KvApi::delete turn the call into a command; what the panel sends
\* passes their checks.
PutCommand(n) ==
    [op |-> "Put", name |-> n, body |-> panel.draft.text, if_match |-> base_etag,
     if_none_match |-> panel.mode = "new"]

DeleteCommand(n) == [op |-> "Delete", name |-> n, if_match |-> base_etag]

\* Insert record, Save changes, Delete record, or Retry after a refusal, which asks for
\* no edit: mutationFn makes an operation and calls it.  A save waits for the call before.
Save(request) ==
    /\ panel # Closed /\ ~locked /\ call = Nothing
    /\ panel.mode = "edit" =>
          /\ panel.draft.record # Nothing
          /\ request.op = "Put" => panel.draft.dirty \/ panel.refused
    /\ panel.mode = "new" => request.op = "Put"
    /\ counted(writer).sequence \in Sequence
    /\ LET m == [client_id |-> writer.session, sequence |-> counted(writer).sequence,
                 request |-> request]
       IN  /\ panel' = [panel EXCEPT !.operation = m, !.refused = FALSE]
           /\ call' = m
           /\ sent' = sent \cup {[mutation |-> m, origin |-> panel.draft.origin]}
    /\ writer' = counted(writer)
    /\ UNCHANGED <<cache, given_up>>

\* Retry of an operation that is not settled: the same one again.
Retry ==
    /\ locked /\ call = Nothing
    /\ call' = panel.operation
    /\ UNCHANGED <<panel, cache, writer, sent, given_up>>

\* onSuccess: onSaved closes the panel that is open now.
Saved ==
    /\ call # Nothing /\ Reply(call).kind \in {"Put", "Delete"}
    /\ call' = Nothing
    /\ panel' = Closed
    /\ UNCHANGED <<cache, writer, sent, given_up>>

\* onError, with an answer that settles the operation.  The refetch it starts is a Fetch.
Refused ==
    /\ call # Nothing
    /\ \E answer \in propose_error \cup {Reply(call)} : canEditAfterFailure(answer)
    /\ call' = Nothing
    /\ panel' = IF panel.operation # call THEN panel
                ELSE [panel EXCEPT !.operation = Nothing, !.refused = TRUE]
    /\ given_up' = given_up \cup {call}
    /\ UNCHANGED <<cache, writer, sent>>

\* onError, otherwise: a timeout, a lost answer, a node that does not lead.
Failed ==
    /\ call # Nothing
    /\ call' = Nothing
    /\ UNCHANGED <<panel, cache, writer, sent, given_up>>

\* Other clients use sessions of their own.
Foreign == {m \in ForeignMutation : m.client_id # writer.session}

ConsoleInit ==
    /\ TrackedInit
    /\ panel = Closed /\ cache = Nothing /\ writer = [session |-> 0, sequence |-> 0]
    /\ call = Nothing /\ sent = {} /\ given_up = {}

\* The console, open in a browser, and other clients.  A call of the console is
\* committed when it may be, again and again, and so are those of others.
ConsoleStep ==
    \/ /\ \/ \E mode \in {"new", "edit"}, text \in Body : OpenPanel(mode, text)
          \/ \E n \in Name : Fetch(n)
          \/ \E text \in Body : Edit(text)
          \/ \E n \in Name : Save(PutCommand(n)) \/ Save(DeleteCommand(n))
          \/ Leave \/ Reload \/ Retry \/ Saved \/ Refused \/ Failed
       /\ UNCHANGED <<vars, tracker>>
    \/ \E s \in sent : TrackedMutate(s.mutation) /\ UNCHANGED console
    \/ \E m \in Foreign : TrackedMutate(m) /\ UNCHANGED console
    \/ RegisterSession /\ register_client /\ UNCHANGED console

\* Without the console the clients do whatever clients may; with it they are bounded
\* to ForeignMutation.
ConsoleNext ==
    \/ Register
    \/ writer.session = 0 /\ TrackedNext /\ UNCHANGED console
    \/ writer.session # 0 /\ ConsoleStep

ConsoleSpec == ConsoleInit /\ [][ConsoleNext]_<<vars, tracker, console>>

---------------------------------------------------------------------------
\* What the console saves or deletes is what the user was looking at: the record that
\* its write replaces has the value the edited text was taken from, and a new record
\* replaces none, however many others wrote in between and however late it is applied.
SavesWhatWasSeen ==
    \A s \in sent, j \in DOMAIN executed :
        LET q == s.mutation.request IN
        executed[j].mutation = s.mutation /\ executed[j].result.kind \in {"Put", "Delete"} =>
            IF s.origin = Nothing THEN ~LiveBefore(q.name, j)
            ELSE /\ LiveBefore(q.name, j)
                 /\ executed[LastChange(q.name, j)].result.generation = s.origin.generation
                 /\ executed[LastChange(q.name, j)].mutation.request.body = s.origin.body

\* An operation that the panel has let go of, so that the user may change it and send
\* it under a new number, has no effect any more, although copies of it may be under way.
GivenUpIsFinal ==
    \A m \in given_up : \A j \in DOMAIN executed :
        executed[j].mutation = m => executed[j].result.kind = "Rejected"

\* A number of the console's session stands for one operation, whatever panel made it:
\* the service never takes one of its calls for the reuse of another.
NumbersNameOneRequest ==
    \A s \in sent : Reply(s.mutation) \notin
        {Error("sequence reused for different request"), Error("unknown client session")}
===========================================================================
