-------------------------------- MODULE Wal --------------------------------
(***************************************************************************)
(* The segmented write-ahead log, its files, and what a crash leaves of    *)
(* them.  A segment is the complete records it holds, followed perhaps by  *)
(* bytes that are no record.  append is split where the process can stop:  *)
(* between the system calls of a rotation and in the middle of the write.  *)
(* The file system is the weakest that POSIX allows: only sync_all makes   *)
(* the bytes of a file stable, only sync_dir its name.                     *)
(***************************************************************************)
EXTENDS Naturals, Sequences

CONSTANTS
    Record,         \* what callers append: a kind and a payload
    NoRecord,       \* between calls of append
    Size(_),        \* encoded_len of a record: header and payload
    SegmentSize,    \* options.segment_size
    MaxSize,        \* options.max_size
    Crash,          \* how the process may stop: "kill", "power"; "rotation": a
                    \* kill while the name of a new segment is not synced
    Fault           \* the system calls that may fail

ASSUME WalAssumption ==
    /\ NoRecord \notin Record
    /\ \A r \in Record : Size(r) \in Nat \ {0}
    /\ SegmentSize \in Nat \ {0} /\ MaxSize \in Nat \ {0}
    /\ Crash \subseteq {"kill", "rotation", "power"}
    /\ Fault \subseteq {"sync", "create", "sync_dir", "write"}

VARIABLES
    segments,   \* the segment files, by segment_id + 1
    mode,       \* "open", "down", or "refused" when open returned an error
    active,     \* the position of the active segment
    poisoned,
    pc,         \* where append stands: "idle" between calls
    record,     \* the record being appended
    acked,      \* history: the records whose append returned Ok, until the power
                \* fails: then what is left of them
    synced      \* history: those covered by a sync that returned Ok

vars == <<segments, mode, active, poisoned, pc, record, acked, synced>>

\* read_one: what is met after the last record of a segment, the end of the file, a
\* record that is cut, or one that is complete and wrong.
TailKind == {"none", "partial", "garbage"}

\* stable: how many of the records survive a power failure; named: whether the
\* directory entry does; tail: the bytes after the last record.
Segment == [records : Seq(Record), stable : Nat, named : BOOLEAN, tail : TailKind]

Empty(named) == [records |-> <<>>, stable |-> 0, named |-> named, tail |-> "none"]

\* What records() streams when every segment is clean.
Contents(segs) ==
    LET upto[i \in 0..Len(segs)] == IF i = 0 THEN <<>> ELSE upto[i - 1] \o segs[i].records
    IN  upto[Len(segs)]

\* The length of records written one after the other.
Bytes(rs) ==
    LET upto[i \in 0..Len(rs)] == IF i = 0 THEN 0 ELSE upto[i - 1] + Size(rs[i])
    IN  upto[Len(rs)]

\* valid_len: where the last complete record of a segment ends.
valid_len(seg) == Bytes(seg.records)

\* active_len and total_len.
ActiveLen == valid_len(segments[active])
TotalLen == Bytes(Contents(segments))

\* The whole file as sync_all leaves it.
Flushed(seg) == [seg EXCEPT !.stable = Len(seg.records)]

\* write_all at the end of the file; behind the bytes of a failed write no
\* record can be read.
Extended(seg, r) ==
    IF seg.tail = "none" THEN [seg EXCEPT !.records = Append(@, r)]
    ELSE [seg EXCEPT !.tail = "garbage"]

\* A call that returns an error: the handle stays as it is.
Fail(call) ==
    /\ call \in Fault
    /\ pc' = "idle" /\ record' = NoRecord
    /\ UNCHANGED <<segments, mode, active, acked, synced>>

\* Mutant: a full segment is written on.
BeginAppendFull(r) ==
    /\ mode = "open" /\ pc = "idle" /\ ~poisoned
    /\ TotalLen + Size(r) <= MaxSize
    /\ record' = r /\ pc' = "write"
    /\ UNCHANGED <<segments, mode, active, poisoned, acked, synced>>

\* append, up to the decision of rotate_if_needed.  A record that is too large
\* for the log or for a segment is refused here.
BeginAppend(r) ==
    /\ mode = "open" /\ pc = "idle" /\ ~poisoned
    /\ TotalLen + Size(r) <= MaxSize
    /\ Size(r) <= SegmentSize
    /\ record' = r
    /\ pc' = IF ActiveLen # 0 /\ ActiveLen + Size(r) > SegmentSize
             THEN "rotate_sync" ELSE "write"
    /\ UNCHANGED <<segments, mode, active, poisoned, acked, synced>>

\* Mutant: the old segment is left behind unsynced.
RotateUnsynced ==
    /\ mode = "open" /\ pc = "rotate_sync"
    /\ pc' = "create"
    /\ UNCHANGED <<segments, mode, active, poisoned, record, acked, synced>>

\* Rotation first syncs the full segment; a failure poisons the handle.
RotateSync ==
    /\ mode = "open" /\ pc = "rotate_sync"
    /\ \/ /\ segments' = [segments EXCEPT ![active] = Flushed(@)]
          /\ pc' = "create"
          /\ UNCHANGED <<mode, active, poisoned, record, acked, synced>>
       \/ Fail("sync") /\ poisoned' = TRUE

\* Mutant: the handle has moved to the next segment when creating it fails.
CreateAhead ==
    /\ mode = "open" /\ pc = "create"
    /\ \/ /\ segments' = IF active < Len(segments) THEN segments
                         ELSE Append(segments, Empty(FALSE))
          /\ pc' = "sync_dir"
          /\ UNCHANGED <<mode, active, poisoned, record, acked, synced>>
       \/ /\ "create" \in Fault
          /\ active' = active + 1
          /\ pc' = "idle" /\ record' = NoRecord
          /\ UNCHANGED <<segments, mode, poisoned, acked, synced>>

\* open_segment creates the next segment, unless an earlier attempt did.
Create ==
    /\ mode = "open" /\ pc = "create"
    /\ \/ /\ segments' = IF active < Len(segments) THEN segments
                         ELSE Append(segments, Empty(FALSE))
          /\ pc' = "sync_dir"
          /\ UNCHANGED <<mode, active, poisoned, record, acked, synced>>
       \/ Fail("create") /\ UNCHANGED poisoned

\* sync_dir; only then does the handle move to the new segment.
SyncDir ==
    /\ mode = "open" /\ pc = "sync_dir"
    /\ \/ /\ segments' = [i \in DOMAIN segments |-> [segments[i] EXCEPT !.named = TRUE]]
          /\ active' = active + 1
          /\ pc' = "write"
          /\ UNCHANGED <<mode, poisoned, record, acked, synced>>
       \/ Fail("sync_dir") /\ UNCHANGED poisoned

\* Mutant: a write that fails half way does not poison the handle.
WriteUnpoisoned ==
    /\ mode = "open" /\ pc = "write"
    /\ pc' = "idle" /\ record' = NoRecord
    /\ \/ /\ segments' = [segments EXCEPT ![active] = Extended(@, record)]
          /\ acked' = Append(acked, record)
       \/ /\ "write" \in Fault
          /\ segments' = [segments EXCEPT ![active].tail = "partial"]
          /\ UNCHANGED acked
    /\ UNCHANGED <<mode, active, poisoned, synced>>

\* Mutant: a write that fails at its last byte leaves a record nobody was told of, and a
\* handle that goes on.
WriteUnnoticed ==
    /\ mode = "open" /\ pc = "write"
    /\ pc' = "idle" /\ record' = NoRecord
    /\ segments' = [segments EXCEPT ![active] = Extended(@, record)]
    /\ acked' = Append(acked, record) \/ UNCHANGED acked
    /\ UNCHANGED <<mode, active, poisoned, synced>>

\* write_or_poison: the record, or a part of it or nothing, and a poisoned handle.
Write ==
    /\ mode = "open" /\ pc = "write"
    /\ pc' = "idle" /\ record' = NoRecord
    /\ \/ /\ segments' = [segments EXCEPT ![active] = Extended(@, record)]
          /\ acked' = Append(acked, record)
          /\ UNCHANGED poisoned
       \/ /\ "write" \in Fault
          /\ \E tail \in {"partial", segments[active].tail} :
                segments' = [segments EXCEPT ![active].tail = tail]
          /\ poisoned' = TRUE
          /\ UNCHANGED acked
    /\ UNCHANGED <<mode, active, synced>>

\* sync: a failure poisons the handle.
Sync ==
    /\ mode = "open" /\ pc = "idle" /\ ~poisoned
    /\ \/ /\ segments' = [segments EXCEPT ![active] = Flushed(@)]
          /\ synced' = acked
          /\ UNCHANGED <<mode, active, poisoned, pc, record, acked>>
       \/ Fail("sync") /\ poisoned' = TRUE

\* The states in which a crash during write may find the active segment.
Interrupted(seg) ==
    IF pc = "write" THEN {seg, [seg EXCEPT !.tail = "partial"], Extended(seg, record)}
    ELSE {seg}

\* A segment was created and its name not synced: a rotation is under way, or its
\* sync_dir has failed.
HalfRotated == \E i \in DOMAIN segments : ~segments[i].named

\* The process stops.  What it wrote stays with the operating system.
Kill ==
    /\ mode = "open"
    /\ (IF HalfRotated THEN "rotation" ELSE "kill") \in Crash
    /\ \E seg \in Interrupted(segments[active]) : segments' = [segments EXCEPT ![active] = seg]
    /\ mode' = "down" /\ pc' = "idle" /\ record' = NoRecord
    /\ UNCHANGED <<active, poisoned, acked, synced>>

\* What a power failure may leave of a segment: all of it, or any number of its
\* unstable records followed perhaps by a cut one or by blocks never written.
Survivors(seg) ==
    {[seg EXCEPT !.stable = Len(seg.records), !.named = TRUE]} \cup
    {[records |-> SubSeq(seg.records, 1, k), stable |-> k, named |-> TRUE, tail |-> t] :
        k \in seg.stable..(IF seg.tail = "none" THEN Len(seg.records) - 1 ELSE Len(seg.records)),
        t \in {"none", "partial", "garbage"}}

\* The power fails, whether the process runs or not.  A segment whose name is
\* not stable may vanish.
PowerFailure ==
    /\ "power" \in Crash
    /\ \E seg \in Interrupted(segments[active]),
          n \in {k \in 1..Len(segments) : \A i \in (k + 1)..Len(segments) : ~segments[i].named} :
       LET found == [segments EXCEPT ![active] = seg] IN
       \E left \in [1..n -> UNION {Survivors(found[i]) : i \in 1..n}] :
          /\ \A i \in 1..n : left[i] \in Survivors(found[i])
          /\ segments' = left
          /\ acked' = Contents(left)
    /\ mode' = "down" /\ pc' = "idle" /\ record' = NoRecord
    /\ active' = 1
    /\ UNCHANGED <<poisoned, synced>>

\* An incomplete tail of the last segment is cut off, and the cut synced.
Truncated(segs) ==
    [segs EXCEPT ![Len(segs)] =
        IF @.tail = "partial" THEN [Flushed(@) EXCEPT !.tail = "none"] ELSE @]

\* recover and open: a record that is complete but wrong is corruption, and so is
\* an incomplete one anywhere but at the very end; the sizes are checked again.
Recoverable(segs) ==
    /\ \A i \in DOMAIN segs :
          /\ segs[i].tail # "garbage"
          /\ segs[i].tail = "partial" => i = Len(segs)
          /\ valid_len(segs[i]) <= SegmentSize
    /\ Bytes(Contents(segs)) <= MaxSize

\* Wal::open after a crash.
Open ==
    /\ mode = "down"
    /\ IF Recoverable(segments)
       THEN LET segs == Truncated(segments) IN
            /\ segments' = segs
            /\ mode' = "open" /\ active' = Len(segs) /\ poisoned' = FALSE
            /\ acked' = Contents(segs)
            /\ UNCHANGED <<pc, record, synced>>
       ELSE /\ mode' = "refused"
            /\ UNCHANGED <<segments, active, poisoned, pc, record, acked, synced>>

\* A new directory: recover creates segment 0 and syncs its name.
Init ==
    /\ segments = <<Empty(TRUE)>> /\ mode = "open" /\ active = 1 /\ poisoned = FALSE
    /\ pc = "idle" /\ record = NoRecord
    /\ acked = <<>> /\ synced = <<>>

Next ==
    \/ \E r \in Record : BeginAppend(r)
    \/ RotateSync \/ Create \/ SyncDir \/ Write \/ Sync
    \/ Kill \/ PowerFailure \/ Open

Spec == Init /\ [][Next]_vars

---------------------------------------------------------------------------
\* The files and the handle keep their types, and the active segment exists.
TypeOK ==
    /\ segments \in Seq(Segment)
    /\ mode \in {"open", "down", "refused"}
    /\ active \in DOMAIN segments
    /\ poisoned \in BOOLEAN
    /\ pc \in {"idle", "rotate_sync", "create", "sync_dir", "write"}
    /\ record \in Record \cup {NoRecord}
    /\ {acked, synced} \subseteq Seq(Record)

\* What the caller knows of the log: the appends that returned while it is open, the
\* records in the files while it is not.
Promise == INSTANCE DurableLog WITH
    Item <- Record, up <- (mode = "open"), durable <- synced,
    log <- IF mode = "open" THEN acked ELSE Contents(segments)

\* Records that a successful sync covered are in the log, in order, whenever it
\* is open: no crash, failed call or rotation takes one away.
SyncedSurvive == mode = "open" => Promise!Starts(synced, Contents(segments))

\* open fails on a record that is complete but wrong, and on nothing else but this: when
\* sync_dir fails, the handle stays on the old segment though the new one exists, and a
\* record that is cut short after that is not at the end of the log. No other write
\* or rotation, interrupted or failed, and no full segment or log keeps it from opening.
Reopens ==
    mode = "refused" =>
        \E i \in DOMAIN segments :
            \/ segments[i].tail = "garbage"
            \/ /\ segments[i].tail = "partial" /\ i + 1 = Len(segments)
               /\ segments[i + 1] = Empty(TRUE) /\ "sync_dir" \in Fault

\* A segment is left for the next only once all its records are stable, so that
\* sync, which reaches only the active file, makes every record stable.
OldSegmentsStable ==
    mode = "open" => \A i \in 1..(active - 1) : segments[i].stable = Len(segments[i].records)

\* The segmented log does what the simple one promises: segments, rotation, poisoned
\* handles and the truncation at open are invisible to the caller, a kill loses no
\* append that returned, and a power failure only an end that no sync covered.
Implements == Promise!Spec
===========================================================================
