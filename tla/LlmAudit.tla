------------------------------ MODULE LlmAudit ------------------------------
(***************************************************************************)
(* The audit of LLM requests: a row of llm_requests for every request, the *)
(* usage rollups, and the wire dumps, which are appended to segment files  *)
(* and found again through locators in the row (store/workspace.rs,        *)
(* store/llm_audit_segments.rs).                                           *)
(*                                                                         *)
(* Every run audits its requests on database connections of its own, and   *)
(* so does the maintenance that moves old dumps out of the rows.  The      *)
(* statements of append_detail are not in a transaction: each of them, and *)
(* each operation on a file, is a step.  A file is a sequence of cells and *)
(* synced is what of it survives a loss of power.  A body, the dump, is    *)
(* <<request, column, number>>; its length is counted in cells.            *)
(***************************************************************************)
EXTENDS Integers, Sequences, FiniteSets

CONSTANTS Requests,      \* ids of LLM requests
          Maintenance,   \* the thread of the API audit cleanup
          Length(_),     \* cells of the record of a body, its header included
          Rotate,        \* LLM_AUDIT_SEGMENT_ROTATE_BYTES, in cells
          MaxSegments,   \* bound on segments
          Workloads      \* which requests are made, and what goes wrong

ASSUME SizesAssumption == Rotate \in Nat /\ Rotate > 1 /\ MaxSegments \in Nat
ASSUME ThreadsAssumption == Maintenance \notin Requests /\ IsFiniteSet(Requests)
ASSUME WorkloadsAssumption ==
    \A w \in Workloads :
        /\ w.calls \subseteq Requests      \* made by runs
        /\ w.legacy \subseteq Requests \ w.calls  \* rows with TEXT dumps
        /\ w.dumps \in Nat                 \* bound on captures of a request
        /\ w.faults \in Nat                \* bound on failing operations
        /\ w.crashes \in Nat               \* bound on ends of the process
        /\ w.power \in BOOLEAN             \* ... that lose what is not synced
        /\ w.rewritten \subseteq Requests  \* taken back by a history rewrite

VARIABLES
    load,      \* the workload
    up,        \* the server runs
    th,        \* th[t]: what thread t does
    row,       \* llm_requests
    rollup,    \* llm_request_usage_rollups: request_count by final_state
    segs,      \* llm_audit_segments, in id order
    file,      \* file[s]: the file of segment s
    synced,    \* synced[s]: what sync_all has made durable of it
    faults, crashes,
    \* history
    overwritten,  \* cells <<s, i>> that were written although they existed
    unsure,       \* segments whose size was repaired to what was not durable
    torn,         \* segments whose creation was cut short
    pruned        \* requests whose details the retention has removed

diskVars == <<segs, file, synced>>
history == <<overwritten, unsure, torn, pruned>>
vars == <<load, up, th, row, rollup, diskVars, faults, crashes, history>>

Threads == Requests \cup {Maintenance}
FinalStates == {"succeeded", "failed"}
Creation == {"name", "header", "headersync"}
Steps == Creation \cup {"idle", "select", "close", "create", "seek", "repair", "write",
                        "sync", "size", "retire", "commit"}
Operations == {"new", "calling", "dump", "boundary", "unsaved", "final", "migrate",
               "ended", "dead"}

NoLocator == [seg |-> 0]
FileBody == <<"file", "header", 0>>
FileHeader == <<FileBody, 1>>
Record(b) == [i \in 1 .. Length(b) |-> <<b, i>>]
RequestBody(r, n) == <<r, "request", n>>
ResponseBody(r) == <<r, "response", 0>>

\* The dumps of requests; the record of each has a header.
Dumps == UNION {0 .. w.dumps : w \in Workloads}
Bodies == {RequestBody(r, n) : r \in Requests, n \in Dumps} \cup {ResponseBody(r) : r \in Requests}
ASSUME LengthAssumption == \A b \in Bodies : Length(b) \in Nat \ {0}

Idle(o) == [op |-> o, at |-> "idle", todo |-> <<>>, got |-> <<>>, seg |-> 0, pos |-> 0,
            off |-> 0, of |-> "", outcome |-> "failed", captured |-> FALSE, dumps |-> 0]

Init ==
    /\ load \in Workloads
    /\ up = TRUE
    /\ th = [t \in Threads |->
               Idle(IF t = Maintenance THEN "calling"
                    ELSE IF t \in load.calls THEN "new" ELSE "ended")]
    /\ row = [r \in Requests |->
                [state |-> IF r \in load.legacy THEN "succeeded" ELSE "none",
                 request |-> NoLocator, response |-> NoLocator,
                 text |-> r \in load.legacy, invalid |-> FALSE]]
    /\ rollup = [s \in FinalStates |->
                   IF s = "succeeded" THEN Cardinality(load.legacy) ELSE 0]
    /\ segs = <<>> /\ file = <<>> /\ synced = <<>>
    /\ faults = 0 /\ crashes = 0
    /\ overwritten = {} /\ unsure = {} /\ torn = {} /\ pruned = {}

-----------------------------------------------------------------------------
(* read_detail: magic, lengths and digest have to be those of the locator.  *)
Readable(l) ==
    /\ l.off + Length(l.body) <= Len(file[l.seg])
    /\ SubSeq(file[l.seg], l.off + 1, l.off + Length(l.body)) = Record(l.body)

Locators(r) == {row[r].request, row[r].response} \ {NoLocator}

\* llm_request: the row, with both of its details read.
Loads(r) ==
    /\ row[r].state # "none"
    /\ \A l \in Locators(r) : Readable(l)

\* The newest capture wins.
MergeIncoming(existing, incoming) == incoming

\* merge_audit_detail_for_update
Merge(existing, incoming) == IF existing = NoLocator THEN incoming ELSE existing.body

\* What a thread does next when its operation returns, or returns an error:
\* a capture that fails is logged, an outcome that was not saved at the
\* request boundary is saved again when the chat result is persisted.
After(op, ok) ==
    IF op \in {"dump", "migrate"} THEN "calling"
    ELSE IF op = "boundary" /\ ~ok THEN "unsaved" ELSE "ended"

Return(t, ok) ==
    LET next == After(th[t].op, ok)
        kept == [Idle(next) EXCEPT !.outcome = th[t].outcome, !.captured = th[t].captured,
                                   !.dumps = th[t].dumps] IN
    th' = [th EXCEPT ![t] = IF next = "ended" THEN Idle(next) ELSE kept]

\* A store operation on row r that appends the bodies and then writes the row.
Start(t, o, r, bodies) ==
    [th EXCEPT ![t].op = o, ![t].of = r, ![t].todo = bodies,
               ![t].at = IF bodies = <<>> THEN "commit" ELSE "select"]

\* A delta that does not look at invalidated_at
CountsInvalid(rw, s) == IF rw.state = s THEN 1 ELSE 0

\* llm_request_usage_rollup_delta: rows that run, or are invalid, do not count.
Counts(rw, s) == IF rw.state = s /\ ~rw.invalid THEN 1 ELSE 0
Uncounted(rw) == [s \in FinalStates |-> rollup[s] - Counts(rw, s)]
Recounted(old, new) == [s \in FinalStates |-> rollup[s] - Counts(old, s) + Counts(new, s)]

Fault == faults < load.faults /\ faults' = faults + 1
-----------------------------------------------------------------------------
(* The life of a request in its run                                         *)

\* persist_running_llm_request: a running row without details.
Insert(r) ==
    /\ th[r].op = "new"
    /\ row' = [row EXCEPT ![r].state = "running"]
    /\ th' = [th EXCEPT ![r].op = "calling"]
    /\ UNCHANGED <<rollup, diskVars, faults, history>>

\* ... fails, perhaps after the commit: the run ends with the error.
InsertFails(r) ==
    /\ th[r].op = "new"
    /\ Fault
    /\ \E committed \in BOOLEAN :
          row' = [row EXCEPT ![r].state = IF committed THEN "running" ELSE @]
    /\ th' = [th EXCEPT ![r].op = "unsaved"]
    /\ UNCHANGED <<rollup, diskVars, history>>

\* persist_request_dump, update_llm_request_body: the row is read with its
\* details; the body that was captured first is written once more.
Dump(r) ==
    LET n == th[r].dumps + 1 IN
    /\ th[r].op = "calling" /\ th[r].dumps < load.dumps
    /\ Loads(r)
    /\ th' = [Start(r, "dump", r, <<Merge(row[r].request, RequestBody(r, n))>>) EXCEPT
                 ![r].dumps = n]
    /\ UNCHANGED <<row, rollup, diskVars, faults, history>>

DumpRefused(r) ==
    /\ th[r].op = "calling" /\ th[r].dumps < load.dumps
    /\ ~Loads(r)
    /\ th' = [th EXCEPT ![r].dumps = @ + 1]
    /\ UNCHANGED <<row, rollup, diskVars, faults, history>>

\* prepare_outcome_response_locator: the first response stays.
Response(r, captured) ==
    IF captured /\ row[r].response = NoLocator THEN <<ResponseBody(r)>> ELSE <<>>

\* record_finished_llm_request, finalize_llm_request_outcome_with_events
FinishRequest(r) ==
    /\ th[r].op = "calling"
    /\ \E outcome \in FinalStates, captured \in BOOLEAN :
          th' = [Start(r, "boundary", r, Response(r, captured)) EXCEPT
                    ![r].outcome = outcome, ![r].captured = captured]
    /\ UNCHANGED <<row, rollup, diskVars, faults, history>>

\* persist_chat_result, persist_llm_request: the request is finalized again,
\* or inserted if it has no row.
PersistResult(r) ==
    /\ th[r].op = "unsaved"
    /\ row[r].state = "none" \/ Loads(r)
    /\ th' = Start(r, "final", r, Response(r, th[r].captured))
    /\ UNCHANGED <<row, rollup, diskVars, faults, history>>

PersistRefused(r) ==
    /\ th[r].op = "unsaved"
    /\ row[r].state # "none" /\ ~Loads(r)
    /\ th' = [th EXCEPT ![r] = Idle("ended")]
    /\ UNCHANGED <<row, rollup, diskVars, faults, history>>

\* The chat history is rewritten, whether the request still runs or not; a
\* run whose history was rewritten invalidates its own requests as well.
Invalidate(r) ==
    /\ r \in load.rewritten
    /\ row[r].state # "none" /\ ~row[r].invalid
    /\ row' = [row EXCEPT ![r].invalid = TRUE]
    /\ rollup' = Uncounted(row[r])
    /\ UNCHANGED <<th, diskVars, faults, history>>

-----------------------------------------------------------------------------
(* run_pending_one_time_maintenance and prune_llm_request_details_before    *)

\* The dumps leave the row before their copies are written.
MigrateClearing(r) ==
    /\ th[Maintenance].op = "calling" /\ th[Maintenance].at = "idle"
    /\ row[r].text
    /\ row' = [row EXCEPT ![r].text = FALSE]
    /\ th' = Start(Maintenance, "migrate", r, <<RequestBody(r, 0), ResponseBody(r)>>)
    /\ UNCHANGED <<rollup, diskVars, faults, history>>

\* migrate_llm_audit_details_to_segments_batch: both dumps of a row.
Migrate(r) ==
    /\ th[Maintenance].op = "calling" /\ th[Maintenance].at = "idle"
    /\ row[r].text
    /\ th' = Start(Maintenance, "migrate", r, <<RequestBody(r, 0), ResponseBody(r)>>)
    /\ UNCHANGED <<row, rollup, diskVars, faults, history>>

\* The retention is counted in days, so no run works on the request any more.
PruneDetails(r) ==
    /\ th[Maintenance].op = "calling" /\ th[Maintenance].at = "idle"
    /\ th[r].op \in {"ended", "dead"} /\ r \notin pruned /\ row[r].state # "none"
    /\ row' = [row EXCEPT ![r].request = NoLocator, ![r].response = NoLocator, ![r].text = FALSE]
    /\ pruned' = pruned \cup {r}
    /\ UNCHANGED <<th, rollup, diskVars, faults, overwritten, unsure, torn>>

-----------------------------------------------------------------------------
(* append_detail                                                            *)

Open == {s \in DOMAIN segs : ~segs[s].closed}
Newest == CHOOSE s \in Open : \A o \in Open : o <= s
Fragment(t) == Record(Head(th[t].todo))

Goto(t, step) == th' = [th EXCEPT ![t].at = step]

\* The locator is returned; the next body of the operation is appended.
Locator(t) == [seg |-> th[t].seg, off |-> th[t].off, body |-> Head(th[t].todo)]
Located(t) ==
    th' = [th EXCEPT ![t].got = Append(@, Locator(t)), ![t].todo = Tail(@), ![t].seg = 0,
                     ![t].pos = 0, ![t].off = 0,
                     ![t].at = IF Len(th[t].todo) = 1 THEN "commit" ELSE "select"]

\* open_active_segment_for_append: the newest open segment.  While it has no
\* name of its own the file that is opened is empty, which is an error.
Select(t) ==
    /\ th[t].at = "select"
    /\ \/ Open = {} /\ Goto(t, "create")
       \/ /\ Open # {} /\ ~segs[Newest].named
          /\ Return(t, FALSE)
       \/ /\ Open # {} /\ segs[Newest].named
          /\ th' = [th EXCEPT ![t].seg = Newest, ![t].off = segs[Newest].size,
                       ![t].at = IF segs[Newest].size < Rotate THEN "seek" ELSE "close"]
    /\ UNCHANGED <<row, rollup, diskVars, faults, history>>

Close(t) ==
    /\ th[t].at = "close"
    /\ segs' = [segs EXCEPT ![th[t].seg].closed = TRUE]
    /\ Goto(t, "create")
    /\ UNCHANGED <<row, rollup, file, synced, faults, history>>

\* create_segment: the row; 'pending' is UNIQUE.
Create(t) ==
    /\ th[t].at = "create" /\ Len(segs) < MaxSegments
    /\ \A s \in DOMAIN segs : segs[s].named
    /\ segs' = Append(segs, [named |-> FALSE, closed |-> FALSE, size |-> 0])
    /\ file' = Append(file, <<>>) /\ synced' = Append(synced, <<>>)
    /\ th' = [th EXCEPT ![t].seg = Len(segs) + 1, ![t].at = "name"]
    /\ UNCHANGED <<row, rollup, faults, history>>

CreateRefused(t) ==
    /\ th[t].at = "create"
    /\ \E s \in DOMAIN segs : ~segs[s].named
    /\ Return(t, FALSE)
    /\ UNCHANGED <<row, rollup, diskVars, faults, history>>

\* ... its name and the size of the header that is to be written
Name(t) ==
    /\ th[t].at = "name"
    /\ segs' = [segs EXCEPT ![th[t].seg].named = TRUE, ![th[t].seg].size = 1]
    /\ Goto(t, "header")
    /\ UNCHANGED <<row, rollup, file, synced, faults, history>>

WriteHeader(t) ==
    /\ th[t].at = "header"
    /\ file' = [file EXCEPT ![th[t].seg] = <<FileHeader>>]
    /\ Goto(t, "headersync")
    /\ UNCHANGED <<row, rollup, segs, synced, faults, history>>

SyncHeaderSkipped(t) ==
    /\ th[t].at = "headersync"
    /\ th' = [th EXCEPT ![t].pos = 1, ![t].off = 1, ![t].at = "write"]
    /\ UNCHANGED <<row, rollup, diskVars, faults, history>>

SyncHeader(t) ==
    /\ th[t].at = "headersync"
    /\ synced' = [synced EXCEPT ![th[t].seg] = file[th[t].seg]]
    /\ th' = [th EXCEPT ![t].pos = 1, ![t].off = 1, ![t].at = "write"]
    /\ UNCHANGED <<row, rollup, segs, file, faults, history>>

\* The file that exists is opened at its end; a byte_size that lags behind a
\* crash is repaired.
Seek(t) ==
    LET len == Len(file[th[t].seg])
        off == IF len > th[t].off THEN len ELSE th[t].off IN
    /\ th[t].at = "seek"
    /\ IF len < 1
         THEN Return(t, FALSE)
         ELSE th' = [th EXCEPT ![t].pos = len, ![t].off = off,
                               ![t].at = IF off = th[t].off THEN "write" ELSE "repair"]
    /\ UNCHANGED <<row, rollup, diskVars, faults, history>>

Repair(t) ==
    /\ th[t].at = "repair"
    /\ segs' = [segs EXCEPT ![th[t].seg].size = th[t].off]
    /\ unsure' = unsure \cup {s \in {th[t].seg} : Len(synced[s]) < th[t].off}
    /\ Goto(t, "write")
    /\ UNCHANGED <<row, rollup, file, synced, faults, overwritten, torn, pruned>>

\* The cells of f after the record has been written from pos on
Overlay(f, pos, record) ==
    LET end == pos + Len(record) IN
    [i \in 1 .. (IF end > Len(f) THEN end ELSE Len(f)) |->
        IF i > pos /\ i <= end THEN record[i - pos] ELSE f[i]]

Put(t, record) ==
    LET s == th[t].seg IN
    /\ file' = [file EXCEPT ![s] = Overlay(@, th[t].pos, record)]
    /\ overwritten' = overwritten \cup
          {<<s, i>> : i \in {j \in 1 .. Len(file[s]) : j > th[t].pos
                                                     /\ j <= th[t].pos + Len(record)}}

Write(t) ==
    /\ th[t].at = "write"
    /\ Put(t, Fragment(t))
    /\ Goto(t, "sync")
    /\ UNCHANGED <<row, rollup, segs, synced, faults, unsure, torn, pruned>>

\* write_all fails after a part of the record.
WriteFails(t) ==
    /\ th[t].at = "write"
    /\ Fault
    /\ \E n \in 1 .. Len(Fragment(t)) - 1 : Put(t, SubSeq(Fragment(t), 1, n))
    /\ Return(t, FALSE)
    /\ UNCHANGED <<row, rollup, segs, synced, unsure, torn, pruned>>

SyncSkipped(t) ==
    /\ th[t].at = "sync"
    /\ Goto(t, "size")
    /\ UNCHANGED <<row, rollup, diskVars, faults, history>>

Sync(t) ==
    /\ th[t].at = "sync"
    /\ synced' = [synced EXCEPT ![th[t].seg] = file[th[t].seg]]
    /\ Goto(t, "size")
    /\ UNCHANGED <<row, rollup, segs, file, faults, history>>

RecordSize(t) ==
    LET size == th[t].off + Len(Fragment(t)) IN
    /\ th[t].at = "size"
    /\ segs' = [segs EXCEPT ![th[t].seg].size = size]
    /\ IF size < Rotate THEN Located(t) ELSE Goto(t, "retire")
    /\ UNCHANGED <<row, rollup, file, synced, faults, history>>

Retire(t) ==
    /\ th[t].at = "retire"
    /\ segs' = [segs EXCEPT ![th[t].seg].closed = TRUE]
    /\ Located(t)
    /\ UNCHANGED <<row, rollup, file, synced, faults, history>>

\* A statement or an operation on the file fails before it changes anything.
Fails(t) ==
    /\ th[t].at # "idle"
    /\ Fault
    /\ torn' = torn \cup (IF th[t].at \in Creation THEN {th[t].seg} ELSE {})
    /\ Return(t, FALSE)
    /\ UNCHANGED <<row, rollup, diskVars, overwritten, unsure, pruned>>

-----------------------------------------------------------------------------
(* The transactions that write the row                                      *)

\* The commit is reported, or it took place and an error is reported.
Reported(t) ==
    \/ Return(t, TRUE) /\ UNCHANGED faults
    \/ Return(t, FALSE) /\ Fault

CommitDump(t) ==
    /\ th[t].at = "commit" /\ th[t].op = "dump"
    /\ row' = [row EXCEPT ![th[t].of].request = th[t].got[1]]
    /\ Reported(t)
    /\ UNCHANGED <<rollup, diskVars, history>>

\* update_llm_request_outcome_in_transaction_with_mode, only_if_running: a row
\* that is final stays; insert_llm_request if there is none.
Finalized(old, outcome, got) ==
    IF old.state \in FinalStates THEN old
    ELSE [old EXCEPT !.state = outcome, !.response = IF got = <<>> THEN @ ELSE got[1]]

CommitOutcome(t) ==
    LET r == th[t].of
        new == Finalized(row[r], th[t].outcome, th[t].got) IN
    /\ th[t].at = "commit" /\ th[t].op \in {"boundary", "final"}
    /\ row' = [row EXCEPT ![r] = new]
    /\ rollup' = Recounted(row[r], new)
    /\ Reported(t)
    /\ UNCHANGED <<diskVars, history>>

CommitMigration(t) ==
    /\ th[t].at = "commit" /\ th[t].op = "migrate"
    /\ row' = [row EXCEPT ![th[t].of].text = FALSE, ![th[t].of].request = th[t].got[1],
                          ![th[t].of].response = th[t].got[2]]
    /\ Reported(t)
    /\ UNCHANGED <<rollup, diskVars, history>>

-----------------------------------------------------------------------------
(* The end of the process, with or without a loss of power                  *)
Crash ==
    /\ up /\ crashes < load.crashes
    /\ up' = FALSE /\ crashes' = crashes + 1
    /\ th' = [t \in Threads |->
                IF t = Maintenance THEN Idle("calling")
                ELSE IF th[t].op \in {"new", "ended"} THEN th[t] ELSE Idle("dead")]
    /\ torn' = torn \cup {th[t].seg : t \in {u \in Threads : th[u].at \in Creation}}
    /\ \E lost \in SUBSET (IF load.power THEN DOMAIN file ELSE {}) :
          file' = [s \in DOMAIN file |-> IF s \in lost THEN synced[s] ELSE file[s]]
    /\ UNCHANGED <<row, rollup, segs, synced, faults, overwritten, unsure, pruned>>

Orphans == {r \in Requests : row[r].state = "running"}

\* reconcile_running_llm_requests_on_startup, before any new provider work
Restart ==
    /\ ~up /\ up' = TRUE
    /\ \/ /\ row' = [r \in Requests |->
                       IF r \in Orphans THEN [row[r] EXCEPT !.state = "failed"] ELSE row[r]]
          /\ rollup' = [rollup EXCEPT !["failed"] =
                          @ + Cardinality({r \in Orphans : ~row[r].invalid})]
          /\ UNCHANGED faults
       \/ Fault /\ UNCHANGED <<row, rollup>>
    /\ UNCHANGED <<th, crashes, diskVars, history>>

RequestStep(r) ==
    \/ Insert(r) \/ InsertFails(r) \/ Dump(r) \/ DumpRefused(r) \/ FinishRequest(r)
    \/ PersistResult(r) \/ PersistRefused(r) \/ Invalidate(r) \/ Migrate(r) \/ PruneDetails(r)

AppendStep(t) ==
    \/ Select(t) \/ Close(t) \/ Create(t) \/ CreateRefused(t) \/ Name(t) \/ WriteHeader(t)
    \/ SyncHeader(t) \/ Seek(t) \/ Repair(t) \/ Write(t) \/ WriteFails(t) \/ Sync(t)
    \/ RecordSize(t) \/ Retire(t) \/ Fails(t)
    \/ CommitDump(t) \/ CommitOutcome(t) \/ CommitMigration(t)

Next ==
    /\ UNCHANGED load
    /\ \/ /\ up /\ UNCHANGED <<up, crashes>>
          /\ \/ \E r \in Requests : RequestStep(r)
             \/ \E t \in Threads : AppendStep(t)
       \/ Crash \/ Restart

Spec == Init /\ [][Next]_vars
-----------------------------------------------------------------------------
(* Properties                                                               *)

\* The types; the counts of llm_request_usage_rollups never fall below zero.
Details == [seg : Nat \ {0}, off : Nat, body : Bodies]
Rows == [state : FinalStates \cup {"none", "running"}, request : Details \cup {NoLocator},
         response : Details \cup {NoLocator}, text : BOOLEAN, invalid : BOOLEAN]
Progress == [op : Operations, at : Steps, todo : Seq(Bodies), got : Seq(Details), seg : Nat,
             pos : Nat, off : Nat, of : Requests \cup {""}, outcome : FinalStates,
             captured : BOOLEAN, dumps : Nat]
Cells == (Bodies \cup {FileBody}) \X Nat
TypeOK ==
    /\ load \in Workloads
    /\ up \in BOOLEAN
    /\ th \in [Threads -> Progress]
    /\ row \in [Requests -> Rows]
    /\ rollup \in [FinalStates -> Nat]
    /\ segs \in Seq([named : BOOLEAN, closed : BOOLEAN, size : Nat])
    /\ file \in Seq(Seq(Cells)) /\ synced \in Seq(Seq(Cells))
    /\ Len(file) = Len(segs) /\ Len(synced) = Len(segs)
    /\ faults \in Nat /\ crashes \in Nat
    /\ pruned \subseteq Requests

\* A locator that is in a row reads its body back, after failed writes,
\* rotations, crashes and losses of power (insert_llm_request: "so a crash never
\* leaves a locator without durable bytes").  There are two ways to lose it: a
\* later write went over its bytes, or its offset was counted from a byte_size
\* that was repaired to the length of a file that then lost power.
LossExplained ==
    \A r \in Requests : \A l \in Locators(r) :
        \/ Readable(l)
        \/ \E i \in 1 .. Length(l.body) : <<l.seg, l.off + i>> \in overwritten
        \/ l.seg \in unsure

\* append_detail returns a durable locator: every locator of a row reads its
\* body back.
LocatorsReadable == \A r \in Requests : \A l \in Locators(r) : Readable(l)

\* First capture wins (merge_audit_detail_for_update,
\* prepare_outcome_response_locator): what a row has been given as its request
\* or its response is never replaced by another dump.
FirstCaptureWins ==
    [][\A r \in Requests : \A c \in {"request", "response"} :
          row[r][c] # NoLocator /\ row'[r][c] # NoLocator => row'[r][c].body = row[r][c].body]_vars

\* Appends are refused for good only where the creation of a segment was cut
\* short: any other open segment has its name and its header, also after a
\* loss of power (open_active_segment_for_append).
RefusedOnlyByTornCreation ==
    \A s \in Open \ torn :
        \/ \E t \in Threads : th[t].at \in Creation /\ th[t].seg = s
        \/ segs[s].named /\ Len(file[s]) >= 1

\* A dump of the old format is moved, never lost: until the retention removes
\* it, it is in the row or the row points to its copy
\* (migrate_llm_audit_details_to_segments_batch).
LegacyKept ==
    \A r \in load.legacy \ pruned :
        \/ row[r].text
        \/ {l.body : l \in Locators(r)} = {RequestBody(r, 0), ResponseBody(r)}

\* Rows are well formed and the pre-aggregated counts are those of the rows, however a request is
\* finalized twice, invalidated while it runs, or closed by the startup
\* reconciliation (update_llm_request_outcome_in_transaction_with_mode).
RollupMatches ==
    /\ TypeOK
    /\ \A s \in FinalStates :
          rollup[s] = Cardinality({r \in Requests : row[r].state = s /\ ~row[r].invalid})
=============================================================================
