------------------------------ MODULE ChatRuns ------------------------------
(***************************************************************************)
(* The registry of active chat runs (app/runtime/subscriptions.rs): the    *)
(* events a run publishes, the streams that deliver them to clients        *)
(* (chat_run_subscription_stream, and team_chat_task_event_stream of       *)
(* app/http/chat.rs) and the agent messages that reach a run as guidance.  *)
(*                                                                         *)
(* One run id is modelled.  A plain chat registers it once and only the    *)
(* run publishes; the task of a coordinator registers it again after every *)
(* wait, and the scheduler publishes the ends of delegated tasks beside    *)
(* the run.  A life is one registration, with an event cache and a         *)
(* broadcast channel of its own.  An insertion into the database, a push   *)
(* into the cache and a broadcast are separate steps, as they are three    *)
(* critical sections.  Sequences start at 1 here and at 0 in the table.    *)
(* The tasks of other agents run like a coordinator's.                     *)
(* Payloads are left out: a row of run_events is the message or the        *)
(* delegated task it is about, or "run".                                   *)
(***************************************************************************)
EXTENDS Integers, Sequences, FiniteSets, Functions

CONSTANTS Clients,       \* readers of the stream
          Messages,      \* agent messages sent to the run's instance
          Children,      \* delegated tasks whose ends are projected
          Capacity,      \* capacity of the broadcast channel
          BatchLimit,    \* TEAM_CHAT_TASK_STREAM_EVENT_BATCH_LIMIT
          Workloads      \* what the run is and what happens to it

ASSUME LimitsAssumption == Capacity \in Nat \ {0} /\ BatchLimit \in Nat \ {0}
ASSUME SubjectsAssumption == "run" \notin Messages \cup Children /\ Messages \cap Children = {}
ASSUME WorkloadsAssumption ==
    \A w \in Workloads :
        /\ w.team \in BOOLEAN              \* an Agent task, such as a coordinator's?
        /\ w.lives \in Nat \ {0}           \* bound on its registrations
        /\ w.events \in Nat                \* bound on the run's own events
        /\ w.faults \in Nat                \* bound on failing database calls
        /\ w.connects \in Nat              \* bound on the connections of a client
        /\ w.clients \subseteq Clients
        /\ w.messages \subseteq Messages
        /\ w.children \subseteq Children
        \* The task that each message names: this run's, another, or none.
        /\ w.names \in [Messages -> {"this", "other", "none"}]
        \* May another run of the same instance be registered beside this one?
        /\ w.rival \in BOOLEAN
        \* Only an agent is sent messages, delegates tasks and has rivals.
        /\ ~w.team => w.messages = {} /\ w.children = {} /\ ~w.rival

VARIABLES
    load,      \* the workload
    task,      \* agent_tasks.status of the run's task
    db,        \* run_events of the run, in sequence order
    read,      \* read[m]: how m was consumed (agent_messages.consumed_at)
    sending,   \* sending[m]: progress of agent_send_message
    rival,     \* progress of another run of the instance
    theirs,    \* messages in the prompt or the channel of that run
    life,      \* registrations so far
    registered,\* the run id is in ActiveChatRunRegistry.runs
    accepting, \* ActiveChatRun.accepting_guidance
    completed, \* lives whose completed_tx has sent true
    cache,     \* cache[l]: ActiveChatRun.events, sequences in push order
    sent,      \* sent[l]: sequences broadcast on event_tx
    channel,   \* messages in the guidance channel of the current life
    run,       \* progress of the run's owner
    told,      \* messages that have been put before the model
    proj,      \* progress of project_terminal_agent_task_lifecycle
    parts,     \* delegated tasks whose part is in the assistant message
    stream,    \* stream[c]: progress of the stream of client c
    faults     \* database calls that have failed

storeVars == <<task, db, read>>
mailVars == <<sending, told, rival, theirs>>
entryVars == <<life, registered, accepting, completed, channel>>
eventVars == <<cache, sent>>
projVars == <<proj, parts>>
vars == <<load, storeVars, mailVars, entryVars, eventVars, run, projVars, stream, faults>>

Lives == 1 .. life
Sequence == 1 .. Len(db)
NotOpen == [at |-> "off"]
NoProjection == [at |-> "idle"]

\* Rows of the database that are about x, and messages that are still unread.
RowsOf(x) == {e \in Sequence : db[e] = x}
Unread == {m \in load.messages : sending[m] # "new" /\ read[m] = "no"}

\* The cached events after a sequence, in push order (snapshot_after).
Newer(events, after) ==
    LET N[k \in 0 .. Len(events)] ==
            IF k = 0 THEN <<>>
            ELSE IF events[k] > after THEN Append(N[k - 1], events[k]) ELSE N[k - 1]
    IN  N[Len(events)]

OwnerSteps == {"setup", "prompted", "consumed", "idle", "push", "send", "erring", "done",
               "closing", "closed"}
Owners == [at : OwnerSteps, prompt : SUBSET Messages, drained : Seq(Messages),
           seq : Nat, last : BOOLEAN, failed : BOOLEAN]
Projections == [at : {"part", "lookup", "push", "send"}, child : Children, life : Nat]
Streams == [at : {"off", "failed", "ended", "open", "joined", "replay", "live", "final",
                  "status", "events", "polled", "full"},
            life : Nat, pos : Nat, last : Nat, todo : Seq(Nat), got : SUBSET Nat,
            ends : BOOLEAN, seen : Nat, opened : Nat]

TypeOK ==
    /\ load \in Workloads
    /\ task \in {"queued", "running", "waiting", "settled"}
    /\ db \in Seq({"run"} \cup Messages \cup Children)
    /\ read \in [Messages -> {"no", "prompt", "event", "other"}]
    /\ sending \in [Messages -> {"new", "stored", "done"}]
    /\ rival \in IF load.rival THEN {"off", "setup", "live"} ELSE {"off"}
    /\ theirs \subseteq Messages
    /\ registered \in BOOLEAN /\ accepting \in BOOLEAN
    /\ life \in Nat
    /\ completed \subseteq Lives
    /\ cache \in Seq(Seq(Nat)) /\ sent \in Seq(Seq(Nat))
    /\ Len(cache) = life /\ Len(sent) = life
    /\ \A l \in Lives : /\ Range(cache[l]) \subseteq Sequence
                        /\ Range(sent[l]) \subseteq Range(cache[l])
    /\ channel \in Seq(Messages)
    /\ run \in {NotOpen} \cup Owners
    /\ told \subseteq Messages
    /\ parts \subseteq Children
    /\ proj \in {NoProjection} \cup Projections
    /\ stream \in [Clients -> Streams]
    /\ \A c \in Clients : stream[c].last \in 0 .. Len(db) /\ stream[c].got \subseteq Sequence
    /\ faults \in Nat

Init ==
    /\ load \in Workloads
    /\ task = IF load.team THEN "queued" ELSE "running"
    /\ db = <<>>
    /\ read = [m \in Messages |-> "no"]
    /\ sending = [m \in Messages |-> "new"]
    /\ rival = "off" /\ theirs = {}
    /\ life = 0 /\ registered = FALSE /\ accepting = FALSE /\ completed = {}
    /\ cache = <<>> /\ sent = <<>> /\ channel = <<>>
    /\ run = NotOpen
    /\ told = {} /\ parts = {}
    /\ proj = NoProjection
    /\ stream = [c \in Clients |->
          [at |-> "off", life |-> 0, pos |-> 0, last |-> 0, todo |-> <<>>,
           got |-> {}, ends |-> FALSE, seen |-> 0, opened |-> 0]]
    /\ faults = 0

Fault == faults < load.faults /\ faults' = faults + 1

-----------------------------------------------------------------------------
(* The task of a coordinator: AgentTasks models how it moves.              *)

Claim ==
    /\ task = "queued" /\ life < load.lives
    /\ task' = "running"
    /\ UNCHANGED <<load, db, read, mailVars, entryVars, eventVars, run, projVars, stream, faults>>

Resume ==
    /\ task = "waiting"
    /\ task' = "queued"
    /\ UNCHANGED <<load, db, read, mailVars, entryVars, eventVars, run, projVars, stream, faults>>

\* finish_claimed_task, after the run has been unregistered.
Settle ==
    /\ run.at = "closed"
    /\ task' \in IF load.team /\ ~run.failed THEN {"waiting", "settled"} ELSE {"settled"}
    /\ run' = NotOpen
    /\ UNCHANGED <<load, db, read, mailVars, entryVars, eventVars, projVars, stream, faults>>

-----------------------------------------------------------------------------
(* The owner of a registration.                                            *)

At(step) == run' = [run EXCEPT !.at = step]

\* A coordinator's run is registered before its prompt is put together.
Register ==
    /\ task = "running" /\ run.at = "off" /\ life < load.lives
    /\ life' = life + 1
    /\ registered' = TRUE /\ accepting' = TRUE
    /\ cache' = Append(cache, <<>>) /\ sent' = Append(sent, <<>>)
    /\ channel' = <<>>
    /\ run' = [at |-> IF load.team THEN "setup" ELSE "idle", prompt |-> {},
               drained |-> <<>>, seq |-> 0, last |-> FALSE, failed |-> FALSE]
    /\ UNCHANGED <<load, storeVars, mailVars, completed, projVars, stream, faults>>

\* apply_agent_prompt_layers reads the unread messages into the prompt.
ReadPrompt ==
    /\ run.at = "setup"
    /\ run' = [run EXCEPT !.at = "prompted", !.prompt = Unread]
    /\ UNCHANGED <<load, storeVars, mailVars, entryVars, eventVars, projVars, stream, faults>>

\* A variant that marks whatever is unread by now, not what the prompt holds.
ConsumeAllUnread ==
    /\ run.at = "prompted"
    /\ At("consumed")
    /\ read' = [m \in Messages |-> IF m \in Unread THEN "prompt" ELSE read[m]]
    /\ UNCHANGED <<load, task, db, mailVars, entryVars, eventVars, projVars, stream, faults>>

\* consume_agent_messages: marks each of them unless it is consumed already.
ConsumePrompt ==
    /\ run.at = "prompted"
    /\ At("consumed")
    /\ read' = [m \in Messages |-> IF m \in run.prompt /\ read[m] = "no" THEN "prompt"
                                                                        ELSE read[m]]
    /\ UNCHANGED <<load, task, db, mailVars, entryVars, eventVars, projVars, stream, faults>>

StartRun ==
    /\ run.at = "consumed"
    /\ At("idle")
    /\ told' = told \cup run.prompt
    /\ UNCHANGED <<load, storeVars, sending, rival, theirs, entryVars, eventVars, projVars, stream, faults>>

\* A step of the setup returns early; the registration is dropped.
SetupFails ==
    /\ run.at \in {"setup", "prompted", "consumed"}
    /\ Fault
    /\ run' = [run EXCEPT !.at = "done", !.failed = TRUE]
    /\ UNCHANGED <<load, storeVars, mailVars, entryVars, eventVars, projVars, stream>>

\* Guidance is taken at the boundary of a model turn and enters its messages.
DrainGuidance ==
    /\ run.at = "idle" /\ run.drained = <<>> /\ channel # <<>>
    /\ run' = [run EXCEPT !.drained = channel]
    /\ channel' = <<>>
    /\ told' = told \cup Range(channel)
    /\ UNCHANGED <<load, storeVars, sending, rival, theirs, life, registered, accepting,
                   completed, eventVars, projVars, stream, faults>>

\* record_event appends the next row; the frame is pushed afterwards.
Insert(x, last) ==
    /\ db' = Append(db, x)
    /\ run' = [run EXCEPT !.at = "push", !.seq = Len(db) + 1, !.last = last]

\* An event of the run; the last one is Complete or Error.
RecordEvent(last) ==
    /\ run.at = "idle" /\ run.drained = <<>>
    /\ Cardinality(RowsOf("run")) < load.events
    /\ Insert("run", last)
    /\ UNCHANGED <<load, task, read, mailVars, entryVars, eventVars, projVars, stream, faults>>

\* A variant that records a message although it is consumed already.
RecordGuidanceAgain ==
    /\ run.at = "idle" /\ run.drained # <<>>
    /\ LET m == Head(run.drained)
       IN  /\ db' = Append(db, m)
           /\ read' = [read EXCEPT ![m] = IF @ = "no" THEN "event" ELSE @]
           /\ run' = [run EXCEPT !.at = "push", !.seq = Len(db) + 1, !.drained = Tail(@)]
    /\ UNCHANGED <<load, task, mailVars, entryVars, eventVars, projVars, stream, faults>>

\* guidanceApplied: the row and the consumption share one transaction, and a
\* message that is consumed already leaves no event.
RecordGuidance ==
    /\ run.at = "idle" /\ run.drained # <<>>
    /\ LET m == Head(run.drained)
       IN  IF read[m] = "no"
           THEN /\ db' = Append(db, m)
                /\ read' = [read EXCEPT ![m] = "event"]
                /\ run' = [run EXCEPT !.at = "push", !.seq = Len(db) + 1,
                                      !.drained = Tail(@)]
           ELSE /\ run' = [run EXCEPT !.drained = Tail(@)]
                /\ UNCHANGED <<db, read>>
    /\ UNCHANGED <<load, task, mailVars, entryVars, eventVars, projVars, stream, faults>>

Push ==
    /\ run.at = "push"
    /\ cache' = [cache EXCEPT ![life] = Append(@, run.seq)]
    /\ At("send")
    /\ UNCHANGED <<load, storeVars, mailVars, entryVars, sent, projVars, stream, faults>>

\* The broadcast; after Complete or Error no further guidance is accepted.
Send ==
    /\ run.at = "send"
    /\ sent' = [sent EXCEPT ![life] = Append(@, run.seq)]
    /\ At(IF run.last THEN "done" ELSE "idle")
    /\ accepting' = (accepting /\ ~run.last)
    /\ UNCHANGED <<load, storeVars, mailVars, life, registered, completed, channel,
                   cache, projVars, stream, faults>>

\* record_event fails: before the row exists, or after it while the draft of
\* the assistant message is saved.  The run ends with one attempt to record
\* the error.
RecordFails ==
    /\ run.at \in {"idle", "push"}
    /\ Fault
    /\ run' = [run EXCEPT !.at = IF run.last THEN "done" ELSE "erring", !.drained = <<>>,
                          !.failed = TRUE]
    /\ UNCHANGED <<load, storeVars, mailVars, entryVars, eventVars, projVars, stream>>

ReportError ==
    /\ run.at = "erring"
    /\ Insert("run", TRUE)
    /\ UNCHANGED <<load, task, read, mailVars, entryVars, eventVars, projVars, stream, faults>>

ReportErrorFails ==
    /\ run.at = "erring"
    /\ Fault
    /\ At("done")
    /\ UNCHANGED <<load, storeVars, mailVars, entryVars, eventVars, projVars, stream>>

\* finish, finish_suspended and the drop of the registration; the receiver of
\* the guidance channel is gone by then.
Complete ==
    /\ run.at \in {"idle", "done"} /\ run.drained = <<>>
    /\ completed' = completed \cup {life}
    /\ channel' = <<>>
    /\ At("closing")
    /\ UNCHANGED <<load, storeVars, mailVars, life, registered, accepting, eventVars,
                   projVars, stream, faults>>

Unregister ==
    /\ run.at = "closing"
    /\ registered' = FALSE
    /\ At("closed")
    /\ UNCHANGED <<load, storeVars, mailVars, life, accepting, completed, channel,
                   eventVars, projVars, stream, faults>>

-----------------------------------------------------------------------------
(* Senders of agent messages.                                              *)

SendMessage(m) ==
    /\ sending[m] = "new"
    /\ sending' = [sending EXCEPT ![m] = "stored"]
    /\ UNCHANGED <<load, storeVars, told, rival, theirs, entryVars, eventVars, run, projVars,
                   stream, faults>>

\* The runs that a message may go to: registered, accepting and not completed,
\* and of the task that the message names, if it names one.
MeansUs(m) == registered /\ accepting /\ life \notin completed /\ load.names[m] # "other"
MeansRival(m) == rival # "off" /\ load.names[m] # "this"

DeliverTo(m, us) ==
    /\ sending[m] = "stored"
    /\ sending' = [sending EXCEPT ![m] = "done"]
    /\ channel' = IF us /\ ~MeansRival(m) THEN Append(channel, m) ELSE channel
    /\ theirs' = IF MeansRival(m) /\ ~us THEN theirs \cup {m} ELSE theirs
    /\ UNCHANGED <<load, storeVars, told, rival, life, registered, accepting, completed,
                   eventVars, run, projVars, stream, faults>>

\* A variant that gives live guidance only to a run whose setup is over.
DeliverWhenStarted(m) ==
    DeliverTo(m, MeansUs(m) /\ run.at \notin {"setup", "prompted", "consumed"})

\* deliver_agent_message_guidance: into the channel of the one run that the
\* message may go to; it stays unread if there is none, or more than one.
Deliver(m) == DeliverTo(m, MeansUs(m))

-----------------------------------------------------------------------------
(* Another run of the instance, seen from here.  The instance took another *)
(* task while this one was not running; a recovery closed the attempt, but *)
(* the run goes on.  Of a coordinator, whose run is the primary one of its *)
(* chat, there is none: register_with_agent_identity refuses the second.   *)

Elsewhere == UNCHANGED <<load, task, db, sending, told, entryVars, eventVars, run, projVars,
                         stream, faults>>

RivalRegister ==
    /\ load.rival /\ rival = "off" /\ task \in {"queued", "waiting"}
    /\ rival' = "setup"
    /\ Elsewhere /\ UNCHANGED <<read, theirs>>

RivalReadPrompt ==
    /\ rival = "setup"
    /\ rival' = "live" /\ theirs' = theirs \cup Unread
    /\ Elsewhere /\ UNCHANGED read

\* With its prompt, or with the guidanceApplied row of its own.
RivalConsume(m) ==
    /\ rival = "live" /\ m \in theirs /\ read[m] = "no"
    /\ read' = [read EXCEPT ![m] = "other"]
    /\ Elsewhere /\ UNCHANGED <<rival, theirs>>

RivalCompletes ==
    /\ rival # "off"
    /\ rival' = "off" /\ theirs' = {}
    /\ Elsewhere /\ UNCHANGED read

-----------------------------------------------------------------------------
(* The scheduler's projection of the ends of delegated tasks.              *)

\* append_run_event_if_absent under the stable id of the delegated task; the
\* run has recorded the call that delegates it.
ProjectInsert(k) ==
    /\ proj.at = "idle" /\ RowsOf("run") # {}
    /\ RowsOf(k) = {} \/ k \notin parts
    /\ db' = IF RowsOf(k) = {} THEN Append(db, k) ELSE db
    /\ proj' = [at |-> "part", child |-> k, life |-> 0]
    /\ UNCHANGED <<load, task, read, mailVars, entryVars, eventVars, run, parts, stream, faults>>

\* The part is added to the assistant message; then the row is published,
\* the row of an earlier attempt included.
ProjectPart ==
    /\ proj.at = "part"
    /\ proj' = [proj EXCEPT !.at = "lookup"]
    /\ parts' = parts \cup {proj.child}
    /\ UNCHANGED <<load, storeVars, mailVars, entryVars, eventVars, run, stream, faults>>

ProjectFails ==
    /\ proj.at = "part"
    /\ Fault
    /\ proj' = NoProjection
    /\ UNCHANGED <<load, storeVars, mailVars, entryVars, eventVars, run, parts, stream>>

\* publish_persisted_event clones the entry of a run that is not completed.
ProjectLookup ==
    /\ proj.at = "lookup"
    /\ proj' = IF registered /\ life \notin completed
               THEN [proj EXCEPT !.at = "push", !.life = life] ELSE NoProjection
    /\ UNCHANGED <<load, storeVars, mailVars, entryVars, eventVars, run, parts, stream, faults>>

ProjectPush ==
    /\ proj.at = "push"
    /\ \E e \in RowsOf(proj.child) : cache' = [cache EXCEPT ![proj.life] = Append(@, e)]
    /\ proj' = [proj EXCEPT !.at = "send"]
    /\ UNCHANGED <<load, storeVars, mailVars, entryVars, sent, run, parts, stream, faults>>

ProjectSend ==
    /\ proj.at = "send"
    /\ \E e \in RowsOf(proj.child) : sent' = [sent EXCEPT ![proj.life] = Append(@, e)]
    /\ proj' = NoProjection
    /\ UNCHANGED <<load, storeVars, mailVars, entryVars, cache, run, parts, stream, faults>>

-----------------------------------------------------------------------------
(* The stream of a client.  A plain chat's stream ends with its run; a     *)
(* coordinator's joins one life after the other and reads the database in  *)
(* between.                                                                *)

Streaming(c, s) ==
    /\ stream' = [stream EXCEPT ![c] = s]
    /\ UNCHANGED <<load, storeVars, mailVars, entryVars, eventVars, run, projVars>>

\* A coordinator's stream leaves its subscription and reads the database.
Left(s) == [s EXCEPT !.at = "status", !.life = 0, !.pos = 0]

StreamIs(c, step) == stream[c].at = step /\ stream[c].todo = <<>>

\* The client opens the stream after the last sequence that it has processed.
Connect(c) ==
    /\ stream[c].at \in {"off", "failed"} /\ stream[c].opened < load.connects
    /\ load.team \/ registered
    /\ Streaming(c, [stream[c] EXCEPT !.at = "open", !.opened = @ + 1])
    /\ UNCHANGED faults

\* subscribe: the receiver starts at the end of the broadcast ...
Join(c) ==
    /\ StreamIs(c, "open") /\ registered
    /\ Streaming(c, [stream[c] EXCEPT !.at = "joined", !.life = life, !.pos = Len(sent[life])])
    /\ UNCHANGED faults

\* ... before the snapshot is read.
Replay(c) ==
    /\ StreamIs(c, "joined")
    /\ Streaming(c, [stream[c] EXCEPT !.at = "replay",
                        !.todo = Newer(cache[stream[c].life], stream[c].last)])
    /\ UNCHANGED faults

\* A variant in which a coordinator's stream waits for the next registration.
JoinFailsForChats(c) ==
    /\ StreamIs(c, "open") /\ ~registered /\ ~load.team
    /\ Streaming(c, [stream[c] EXCEPT !.at = "failed"])
    /\ UNCHANGED faults

\* The entry is gone: a coordinator's stream goes on with the database, the
\* request for a plain chat is refused.
JoinFails(c) ==
    /\ StreamIs(c, "open") /\ ~registered
    /\ Streaming(c, IF load.team THEN Left(stream[c]) ELSE [stream[c] EXCEPT !.at = "failed"])
    /\ UNCHANGED faults

\* A frame is delivered unless a later one has been.
Passed(s, e) == IF e > s.last THEN [s EXCEPT !.last = e, !.got = @ \cup {e}] ELSE s

Yield(c) ==
    /\ stream[c].todo # <<>>
    /\ Streaming(c, [Passed(stream[c], Head(stream[c].todo)) EXCEPT !.todo = Tail(@)])
    /\ UNCHANGED faults

\* After the replay a coordinator's stream looks at the completion once.
Replayed(c) ==
    /\ StreamIs(c, "replay")
    /\ Streaming(c, IF load.team /\ stream[c].life \in completed
                    THEN Left(stream[c]) ELSE [stream[c] EXCEPT !.at = "live"])
    /\ UNCHANGED faults

Behind(c) == Len(sent[stream[c].life]) - stream[c].pos

Receive(c) ==
    /\ StreamIs(c, "live") /\ Behind(c) \in 1 .. Capacity
    /\ LET s == stream[c]
       IN  Streaming(c, [Passed(s, sent[s.life][s.pos + 1]) EXCEPT !.pos = @ + 1])
    /\ UNCHANGED faults

\* A variant that goes on with the oldest retained frame.
LaggedWithoutRecovery(c) ==
    /\ StreamIs(c, "live") /\ Behind(c) > Capacity
    /\ LET s == stream[c]
       IN  Streaming(c, [s EXCEPT !.pos = Len(sent[s.life]) - Capacity])
    /\ UNCHANGED faults

\* RecvError::Lagged: the receiver moves to the oldest retained frame, the
\* stream recovers from the cache.
Lagged(c) ==
    /\ StreamIs(c, "live") /\ Behind(c) > Capacity
    /\ LET s == stream[c]
       IN  Streaming(c, [s EXCEPT !.pos = Len(sent[s.life]) - Capacity,
                                  !.todo = Newer(cache[s.life], s.last)])
    /\ UNCHANGED faults

\* The completion is seen, or the channel is closed after it.
Terminal(c) ==
    /\ StreamIs(c, "live") /\ stream[c].life \in completed
    /\ LET s == stream[c]
       IN  Streaming(c, [s EXCEPT !.at = "final", !.todo = Newer(cache[s.life], s.last)])
    /\ UNCHANGED faults

Drained(c) ==
    /\ StreamIs(c, "final")
    /\ Streaming(c, IF load.team THEN Left(stream[c]) ELSE [stream[c] EXCEPT !.at = "ended"])
    /\ UNCHANGED faults

\* load_team_chat_task_poll_snapshot reads the task ...
PollTask(c) ==
    /\ StreamIs(c, "status")
    /\ Streaming(c, [stream[c] EXCEPT !.at = "events", !.ends = task = "settled",
                                      !.seen = Len(db)])
    /\ UNCHANGED faults

\* ... before the next batch of rows.
PollEvents(c) ==
    /\ StreamIs(c, "events")
    /\ LET s == stream[c]
           rows == Len(db) - s.last
           n == IF rows < BatchLimit THEN rows ELSE BatchLimit
       IN  Streaming(c, [s EXCEPT !.at = IF n = BatchLimit THEN "full" ELSE "polled",
                                  !.todo = [k \in 1 .. n |-> s.last + k]])
    /\ UNCHANGED faults

\* The error is shown to the client and the stream is closed.
PollFails(c) ==
    /\ StreamIs(c, "status") \/ StreamIs(c, "events")
    /\ Fault
    /\ Streaming(c, [stream[c] EXCEPT !.at = "failed", !.ends = FALSE, !.seen = 0])

\* A full batch is followed by another turn, whatever the task says.
Polled(c) ==
    /\ StreamIs(c, "polled") \/ StreamIs(c, "full")
    /\ Streaming(c, IF stream[c].at = "polled" /\ stream[c].ends
                    THEN [stream[c] EXCEPT !.at = "ended"]
                    ELSE [stream[c] EXCEPT !.at = "open", !.ends = FALSE, !.seen = 0])
    /\ UNCHANGED faults

Disconnect(c) ==
    /\ stream[c].at \notin {"off", "failed", "ended"}
    /\ stream[c].opened < load.connects
    /\ Streaming(c, [Left(stream[c]) EXCEPT !.at = "off", !.todo = <<>>, !.ends = FALSE,
                                            !.seen = 0])
    /\ UNCHANGED faults

-----------------------------------------------------------------------------
StreamStep(c) ==
    \/ Join(c) \/ JoinFails(c) \/ Replay(c) \/ Yield(c) \/ Replayed(c)
    \/ Receive(c) \/ Lagged(c) \/ Terminal(c) \/ Drained(c)
    \/ PollTask(c) \/ PollEvents(c) \/ PollFails(c) \/ Polled(c)

OwnerStep ==
    \/ Register \/ ReadPrompt \/ ConsumePrompt \/ StartRun \/ SetupFails
    \/ DrainGuidance \/ \E last \in BOOLEAN : RecordEvent(last)
    \/ RecordGuidance \/ Push \/ Send \/ RecordFails \/ ReportError \/ ReportErrorFails
    \/ Complete \/ Unregister \/ Settle

ProjectionStep ==
    \/ \E k \in load.children : ProjectInsert(k)
    \/ ProjectPart \/ ProjectFails \/ ProjectLookup \/ ProjectPush \/ ProjectSend

RivalStep ==
    \/ RivalRegister \/ RivalReadPrompt \/ RivalCompletes
    \/ \E m \in load.messages : RivalConsume(m)

Next ==
    \/ RivalStep
    \/ Claim \/ Resume \/ OwnerStep \/ ProjectionStep
    \/ \E m \in load.messages : SendMessage(m) \/ Deliver(m)
    \/ \E c \in load.clients : Connect(c) \/ Disconnect(c) \/ StreamStep(c)

Spec == Init /\ [][Next]_vars

\* The async runtime polls every stream that is ready.
FairSpec ==
    /\ Spec
    /\ \A c \in Clients : WF_vars(StreamStep(c))

-----------------------------------------------------------------------------
(* Properties.                                                             *)

Before(s, d, e) ==
    \E i \in DOMAIN s : s[i] = d /\ \A j \in 1 .. i - 1 : s[j] # e

\* A larger sequence was pushed or broadcast, in some life, before e was.
Overtaken(e) ==
    \E l \in Lives : \E d \in Range(cache[l]) :
        d > e /\ (Before(cache[l], d, e) \/ Before(sent[l], d, e))

(* When a stream has ended, its client has every event of the cache (of a  *)
(* plain chat) or every row that existed when the task was found settled   *)
(* (of a coordinator), whatever lagged, raced with the completion or was   *)
(* cut by a disconnect, except the ones a later event overtook on its way  *)
(* into the cache or the channel.                                          *)
LossOnlyByOvertaking ==
    \A c \in Clients : stream[c].at = "ended" =>
        \A e \in IF load.team THEN 1 .. stream[c].seen ELSE Range(cache[stream[c].life]) :
            e \in stream[c].got \/ Overtaken(e)

(* The stream of a coordinator delivers every row that existed when the    *)
(* task was found settled.                                                 *)
PersistedRowsReplayed ==
    \A c \in Clients : stream[c].at = "ended" /\ load.team =>
        1 .. stream[c].seen \subseteq stream[c].got

(* Rows and positions are well formed, and a message has one               *)
(* guidanceApplied row if it was consumed as guidance, and none otherwise: *)
(* a message that is both in the prompt and in the channel is consumed     *)
(* once.                                                                   *)
ConsumedOnce ==
    /\ TypeOK
    /\ \A m \in load.messages :
          Cardinality(RowsOf(m)) = IF read[m] = "event" THEN 1 ELSE 0

\* Messages that no other run of the instance can be meant by.
OnlyOurs ==
    {m \in load.messages : load.names[m] = "this" \/ (load.names[m] = "none" /\ ~load.rival)}

(* While a run is executing and accepts guidance, every unread message     *)
(* whose sender has finished is on its way to that run, none waits for     *)
(* another attempt: of the messages that name its task, whatever else the  *)
(* instance runs, and of those that name none, if it runs nothing else.    *)
NoneStranded ==
    run.at \in {"idle", "push", "send"} /\ ~run.failed /\ accepting =>
        \A m \in Unread \cap OnlyOurs :
            sending[m] = "done" => m \in Range(channel) \cup Range(run.drained)

(* As long as no setup of an attempt fails, a message that the run has     *)
(* consumed has been put before the model, or is in the prompt of the      *)
(* attempt that starts.                                                    *)
ConsumedIsTold ==
    load.faults = 0 =>
        \A m \in load.messages :
            read[m] \in {"prompt", "event"} =>
                m \in told \/ (run.at = "consumed" /\ m \in run.prompt)

(* A stream ends: a plain chat's after its run has completed, a            *)
(* coordinator's after its task has settled.                               *)
StreamEnds ==
    \A c \in Clients :
        (/\ stream[c].at \notin {"off", "failed", "ended"}
         /\ IF load.team THEN task = "settled" ELSE stream[c].life \in completed)
        ~> stream[c].at \in {"off", "failed", "ended"}
=============================================================================
