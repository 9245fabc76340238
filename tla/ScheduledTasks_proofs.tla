------------------------ MODULE ScheduledTasks_proofs ------------------------
(***************************************************************************)
(* Proofs about ScheduledTasks, for every set of tasks, requests and       *)
(* schedules and all bounds.                                               *)
(***************************************************************************)
EXTENDS ScheduledTasks, Iteration, FiniteSetTheorems, TLAPS

-----------------------------------------------------------------------------
(* next_run_after                                                           *)

LEMMA DivFacts ==
    ASSUME NEW a \in Nat, NEW b \in Nat \ {0}
    PROVE  a \div b \in Nat /\ (a \div b) * b <= a /\ a < (a \div b) * b + b
  OBVIOUS

LEMMA TimesMonotone ==
    ASSUME NEW a \in Nat, NEW b \in Nat, NEW c \in Nat, a <= b
    PROVE  a * c <= b * c /\ a * c \in Nat
  OBVIOUS

\* The occurrences of an interval are at + m * Unit for the multiples m of
\* every; the next one is the first whose m is above the elapsed seconds.
LEMMA IntervalNext ==
    ASSUME NEW every \in Nat \ {0}, NEW at \in Nat, NEW n \in Nat, at <= n
    PROVE  LET periods == ((n - at) \div Unit) \div every + 1
           IN  /\ periods \in Nat /\ periods <= n + 1
               /\ IntervalNextRun(every, at, n) = at + periods * every * Unit
               /\ at + periods * every * Unit > n
               /\ \A k \in Nat : at + k * every * Unit > n => periods <= k
<1> DEFINE elapsed == (n - at) \div Unit
           q == elapsed \div every
<1>1. Unit \in Nat \ {0} /\ n - at \in Nat
    BY BoundsAssumption
<1>2. elapsed \in Nat /\ elapsed * Unit <= n - at /\ n - at < elapsed * Unit + Unit
    BY <1>1, DivFacts
<1>3. q \in Nat /\ q * every <= elapsed /\ elapsed < q * every + every
  <2> HIDE DEF elapsed
  <2> QED BY <1>2, DivFacts
<1>4. IntervalNextRun(every, at, n) = at + (q + 1) * every * Unit
    BY DEF IntervalNextRun, None
<1> HIDE DEF q, elapsed
<1>5. elapsed + 1 <= (q + 1) * every /\ (q + 1) * every \in Nat
    BY <1>2, <1>3
<1>6. (elapsed + 1) * Unit <= (q + 1) * every * Unit
    BY <1>1, <1>2, <1>5, TimesMonotone
<1>7. (elapsed + 1) * Unit = elapsed * Unit + Unit
    BY <1>1, <1>2
<1>8. at + (q + 1) * every * Unit > n
    BY <1>1, <1>2, <1>5, <1>6, <1>7
<1>9. ASSUME NEW k \in Nat, at + k * every * Unit > n PROVE q + 1 <= k
  <2> SUFFICES ASSUME k <= q PROVE FALSE
      BY <1>3
  <2>1. k * every <= q * every /\ k * every \in Nat
      BY <1>3, TimesMonotone
  <2>2. k * every <= elapsed
      BY <1>2, <1>3, <2>1
  <2>3. k * every * Unit <= elapsed * Unit
      BY <1>1, <1>2, <2>1, <2>2, TimesMonotone
  <2> QED BY <1>1, <1>2, <1>9, <2>1, <2>3
<1>10. q <= elapsed /\ elapsed <= n - at
  <2>1. q * 1 <= q * every
      BY <1>3
  <2>2. elapsed * 1 <= elapsed * Unit
      BY <1>1, <1>2
  <2> QED BY <1>1, <1>2, <1>3, <2>1, <2>2
<1>11. q + 1 \in Nat /\ q + 1 <= n + 1
    BY <1>1, <1>2, <1>3, <1>10
<1> QED BY <1>4, <1>8, <1>9, <1>11 DEF q, elapsed

\* A task's next run is later than the time it was computed at.
LEMMA NextRunLater ==
    ASSUME NEW s \in Schedules \cup {NoSchedule}, NEW n \in Nat
    PROVE  \/ NextRunAfter(s, n) = None
           \/ NextRunAfter(s, n) \in Nat /\ NextRunAfter(s, n) > n
<1>1. CASE s.kind = "interval"
  <2>1. s \in Schedules /\ s.every \in Nat \ {0} /\ s.at \in Nat \cup {None}
      BY <1>1, SchedulesAssumption DEF NoSchedule
  <2>2. NextRunAfter(s, n) = IntervalNextRun(s.every, s.at, n)
      BY <1>1 DEF NextRunAfter
  <2>3. CASE s.at = None
    <3>1. s.every * Unit \in Nat \ {0}
        BY <2>1, BoundsAssumption
    <3>2. IntervalNextRun(s.every, s.at, n) = n + s.every * Unit
      <4>1. n + s.every * Unit > n
          BY <3>1
      <4> QED BY <2>3, <4>1 DEF IntervalNextRun
    <3> QED BY <2>2, <3>1, <3>2
  <2>4. CASE s.at # None /\ s.at > n
      BY <2>1, <2>2, <2>4 DEF IntervalNextRun
  <2>5. CASE s.at # None /\ s.at <= n
    <3>1. PICK p \in Nat : /\ IntervalNextRun(s.every, s.at, n) = s.at + p * s.every * Unit
                           /\ s.at + p * s.every * Unit > n
        BY <2>1, <2>5, IntervalNext
    <3>2. p * s.every \in Nat
        BY <2>1, <3>1
    <3>3. p * s.every * Unit \in Nat
        BY <3>2, BoundsAssumption
    <3> QED BY <2>1, <2>2, <2>5, <3>1, <3>3
  <2> QED BY <2>1, <2>3, <2>4, <2>5 DEF None
<1>2. CASE s.kind # "interval"
  <2>1. s.at \in Nat \cup {None}
      BY SchedulesAssumption DEF NoSchedule
  <2> QED BY <1>2, <2>1 DEF NextRunAfter, None
<1> QED BY <1>1, <1>2

LEMMA ExactNext ==
    ASSUME now \in Times
    PROVE  NextRunExact
<1> SUFFICES ASSUME NEW s \in Schedules, s.kind = "interval", s.at # None
             PROVE  LET grid == {s.at + k * s.every * Unit : k \in 0 .. MaxTime + 1}
                        next == NextRunAfter(s, now)
                    IN  /\ next \in grid /\ next > now
                        /\ \A g \in grid : g > now => next <= g
    BY DEF NextRunExact
<1>1. /\ s.every \in Nat \ {0} /\ s.at \in Nat /\ now \in Nat /\ now <= MaxTime
      /\ MaxTime \in Nat /\ Unit \in Nat \ {0}
    BY SchedulesAssumption, BoundsAssumption DEF Times
<1>2. NextRunAfter(s, now) = IntervalNextRun(s.every, s.at, now)
    BY DEF NextRunAfter
<1>3. \A k \in Nat : k * s.every \in Nat
    BY <1>1
<1>4. CASE s.at > now
  <2>1. NextRunAfter(s, now) = s.at
      BY <1>2, <1>4 DEF IntervalNextRun
  <2>2. s.at = s.at + 0 * s.every * Unit /\ 0 \in 0 .. MaxTime + 1
      BY <1>1
  <2>3. \A k \in 0 .. MaxTime + 1 : s.at <= s.at + k * s.every * Unit
    <3> SUFFICES ASSUME NEW k \in 0 .. MaxTime + 1 PROVE s.at <= s.at + k * s.every * Unit
        OBVIOUS
    <3>1. k * s.every \in Nat
        BY <1>3
    <3>2. k * s.every * Unit \in Nat
        BY <1>1, <3>1
    <3> QED BY <1>1, <3>2
  <2> QED BY <1>4, <2>1, <2>2, <2>3
<1>5. CASE s.at <= now
  <2>1. PICK p \in Nat :
           /\ p <= now + 1
           /\ IntervalNextRun(s.every, s.at, now) = s.at + p * s.every * Unit
           /\ s.at + p * s.every * Unit > now
           /\ \A k \in Nat : s.at + k * s.every * Unit > now => p <= k
      BY <1>1, <1>5, IntervalNext
  <2>2. p \in 0 .. MaxTime + 1
      BY <1>1, <2>1
  <2>3. ASSUME NEW k \in 0 .. MaxTime + 1, s.at + k * s.every * Unit > now
        PROVE  s.at + p * s.every * Unit <= s.at + k * s.every * Unit
    <3>1. p <= k /\ k \in Nat
        BY <1>1, <2>1, <2>3
    <3>2. p * s.every <= k * s.every /\ p * s.every \in Nat /\ k * s.every \in Nat
        BY <1>1, <3>1, TimesMonotone
    <3>3. p * s.every * Unit <= k * s.every * Unit /\ p * s.every * Unit \in Nat
          /\ k * s.every * Unit \in Nat
        BY <1>1, <3>2, TimesMonotone
    <3> QED BY <1>1, <3>3
  <2> QED BY <1>2, <2>1, <2>2, <2>3
<1> QED BY <1>1, <1>4, <1>5

-----------------------------------------------------------------------------
(* The inductive invariant                                                  *)

Manual(r) == runs[r].trigger = "manual"
Scheduled(r) == runs[r].trigger = "scheduled"

\* s is what the row of r was at some time.
Snapshot(r, s) ==
    /\ r \in RunIds /\ runs[r].status # "absent"
    /\ s.task = runs[r].task /\ s.trigger = runs[r].trigger /\ s.at = runs[r].at
    /\ s.status \notin {"absent", "deleted"}
    /\ s.agent # None => agents[s.agent].run = r
    /\ s.status = "pending" => s.agent = None

\* Rows of runs and of Agent tasks refer to each other; the task of a run
\* existed, and its runs go with it.
LinkedAgents ==
    \A x \in AgentIds :
        /\ agents[x].status = "absent" => agents[x].run = None
        /\ agents[x].run # None => runs[agents[x].run].status # "absent"

RunLinked(r) ==
    /\ runs[r].status = "absent" <=> runs[r] = NoRun
    /\ runs[r].status # "absent" =>
          /\ runs[r].task \in Tasks /\ runs[r].trigger # "none" /\ runs[r].at # None
          /\ tasks[runs[r].task].status # "absent"
          /\ ~TaskExists(runs[r].task) => runs[r].status = "deleted"
    /\ runs[r].agent # None => agents[runs[r].agent].run = r
    /\ runs[r].status = "pending" => runs[r].agent = None

LinkedRuns == \A r \in RunIds : RunLinked(r)

\* What actor a, at its statement p, holds in l
Holds(a, p, l) ==
    /\ p \in Writers => Snapshot(l.run, l.snap)
    /\ p \in {"touch", "dispatch", "link"} =>
          /\ l.snap.status = "pending"
          /\ a # Scheduler => l.snap.trigger = "manual"
    /\ p \in {"insert", "touch", "dispatch", "link"} => l.op # "cancel"
    /\ p = "link" => l.agent # None /\ agents[l.agent].run = l.run
    /\ p = "sync_write" =>
          /\ l.snap.agent # None /\ l.snap.status # "pending"
          /\ l.snap.status \in Terminal =>
                agents[l.snap.agent].status \notin AgentLive \/ l.snap.agent \in revived
    /\ p = "mark_failed" =>
          /\ l.snap.agent # None => agents[l.snap.agent].status = "gone"
          /\ a # Scheduler /\ l.snap.agent = None => l.snap.trigger = "manual"
    /\ p = "mark_cancelled" => l.snap.agent = None /\ l.snap.status \notin Terminal
    /\ p \in {"edit", "insert", "touch", "count", "claim"} =>
          /\ l.task \in Tasks /\ tasks[l.task].status # "absent"
          /\ l.row.status \notin {"absent", "deleted"}
          /\ l.row.next # None => l.row.status = "enabled"

\* Which statements a request and the loop reach
CallerAt(p) == p \notin {"reconcile", "due", "count", "claim"}

LoopAt(p, l, s) ==
    /\ p \notin {"touch", "cancel", "mark_cancelled", "edit", "insert"}
    /\ p = "idle" <=> s.phase = "idle"
    /\ p = "reconcile" => s.phase = "reconcile"
    /\ p \in {"due", "count", "claim"} => s.phase = "due"
    /\ s.phase = "due" => s.at # None
    /\ DOMAIN s.todo # {} => s.phase = "reconcile"
    /\ p \in Writers => l.run \notin DOMAIN s.todo
    /\ p \in {"count", "claim"} => l.row.next # None /\ l.row.next <= s.at
    /\ p = "claim" => l.op \in {"pending", "skipped"}

Scanned(todo) ==
    \A r \in DOMAIN todo : Snapshot(r, todo[r]) /\ todo[r].status \in ActiveStatuses

ActorsHold == \A a \in Actors : Holds(a, pc[a], loc[a])
CallersPlaced == \A c \in Callers : CallerAt(pc[c])
LoopPlaced == LoopAt(pc[Scheduler], loc[Scheduler], sched)

\* The Agent tasks that the rows, stored or read, name
Named ==
    {runs[r].agent : r \in RunIds}
      \cup {sched.todo[r].agent : r \in DOMAIN sched.todo}
      \cup {loc[a].snap.agent : a \in {b \in Actors : pc[b] \in Writers}}

\* A message that is not linked yet is known to its dispatcher only, and a run
\* that was inserted is dispatched by its request only.
Unnamed ==
    \A a \in Actors : pc[a] = "link" =>
        /\ loc[a].agent \notin Named
        /\ \A b \in Actors : pc[b] = "link" /\ loc[b].agent = loc[a].agent => b = a

OwnRun ==
    \A c, d \in Callers :
        /\ pc[c] \in {"touch", "dispatch", "link"} /\ pc[d] \in {"touch", "dispatch", "link"}
        /\ loc[c].run = loc[d].run
        => c = d

Steady ==
    /\ LinkedAgents /\ LinkedRuns
    /\ ActorsHold /\ CallersPlaced /\ LoopPlaced
    /\ Scanned(sched.todo)
    /\ Unnamed /\ OwnRun

\* The next occurrence of a task has not been claimed, or was put back.
Ahead(t) ==
    tasks[t].next # None =>
        tasks[t].next \notin Claimed(t) \/ <<t, tasks[t].next>> \in rewound

Occurrences ==
    /\ \A t \in Tasks : Ahead(t)
    /\ sched.phase = "due" => sched.at <= now
    /\ \A r \in RunIds : Scheduled(r) =>
          runs[r].at <= now /\ (sched.phase = "due" => runs[r].at <= sched.at)

AtMostOne(S) == \A x, y \in S : x = y
AtMostTwo(S) == \A x, y, z \in S : x = y \/ y = z \/ x = z
Live(r) == {x \in AgentsOf(r) : AgentExists(x)}
Linked(r) == {loc[a].agent : a \in {b \in Actors : pc[b] = "link" /\ loc[b].run = r}}

\* The request that inserted r has still to queue its message.
Inserted(r) == \E c \in Callers : pc[c] \in {"touch", "dispatch"} /\ loc[c].run = r

\* The loop queues, or has read that it may queue, a message for r.
Handled(r) ==
    \/ pc[Scheduler] = "dispatch" /\ loc[Scheduler].run = r
    \/ r \in DOMAIN sched.todo /\ sched.todo[r].status = "pending"
Linking(r) == pc[Scheduler] = "link" /\ loc[Scheduler].run = r

\* The loop closes r as never dispatched, or will.
Closing(r) ==
    /\ pc[Scheduler] = "mark_failed"
    /\ loc[Scheduler].run = r /\ loc[Scheduler].snap.agent = None
Stale(r) ==
    /\ r \in DOMAIN sched.todo
    /\ sched.todo[r].agent = None /\ sched.todo[r].status # "pending"

\* The loop queues a message for r, or a later scan may.
Allowed(r) ==
    \/ Handled(r)
    \/ runs[r].status = "pending" /\ ~(Linking(r) /\ AgentExists(loc[Scheduler].agent))

Budget(r) ==
    /\ Manual(r) =>
          /\ AtMostTwo(Live(r))
          /\ Allowed(r) \/ Inserted(r) => AtMostOne(Live(r))
          /\ Allowed(r) /\ Inserted(r) => Live(r) = {}
    /\ ~Manual(r) =>
          /\ AtMostOne(Live(r))
          /\ Allowed(r) => Live(r) = {}

Quiet(r) == \A x \in AgentsOf(r) \ revived : agents[x].status \notin AgentLive

\* A scheduled run has one dispatcher, so its row is what its Agent task says.
Follows(r) ==
    /\ Handled(r) \/ Linking(r) =>
          runs[r].status = "pending" \/ ~TaskExists(runs[r].task)
    /\ runs[r].status \in Terminal \/ (runs[r].status = "deleted" /\ TaskExists(runs[r].task)) =>
          Quiet(r)
    /\ runs[r].status \in {"queued", "running"} /\ runs[r].agent = None => Live(r) = {}
    /\ Closing(r) => Live(r) = {} \/ ~TaskExists(runs[r].task)
    /\ Stale(r) => Live(r) = {}

\* Nothing of r is in progress, and nothing will be queued for it.
Finished(r) ==
    Quiet(r) /\ ~Handled(r) /\ ~Linking(r) /\ runs[r].status # "pending"

\* Of two scheduled runs of a task that skips, one has ended; and so have all
\* when the loop has decided to start another.
Alternate ==
    \A r, q \in RunIds \ torn :
        /\ Scheduled(r) /\ Scheduled(q) /\ r # q
        /\ runs[r].task = runs[q].task /\ runs[r].task \in SkipTasks
        => Finished(r) \/ Finished(q)

Decided(t) ==
    /\ pc[Scheduler] = "claim" /\ loc[Scheduler].op = "pending"
    /\ loc[Scheduler].task = t /\ t \in SkipTasks /\ TaskExists(t)

Cleared ==
    \A r \in RunIds \ torn : Scheduled(r) /\ Decided(runs[r].task) => Finished(r)

\* The Agent tasks of r that no dispatcher has still to link
Known(r) == AgentsOf(r) \ Linked(r)
Rests(x) == agents[x].status \notin AgentLive \/ x \in revived

\* What a cancellation relies on
Cancels(r) ==
    /\ runs[r].status = "cancelled" /\ AtMostOne(Known(r)) => \A x \in Known(r) : Rests(x)
    /\ runs[r].status = "pending" => Live(r) \subseteq Linked(r)
    /\ runs[r].status \in {"queued", "running"} /\ runs[r].agent = None =>
          \E y \in Known(r) : agents[y].status = "gone"
    /\ Inserted(r) \/ Handled(r) \/ Linked(r) # {} =>
          Known(r) # {} \/ runs[r].status # "cancelled"

Kept(r) == Budget(r) /\ Cancels(r) /\ (Scheduled(r) => Follows(r))

IInv ==
    /\ TypeOK /\ Steady
    /\ Occurrences /\ OccurrenceOnce
    /\ \A r \in RunIds \ torn : Kept(r)
    /\ Alternate /\ Cleared

-----------------------------------------------------------------------------
(* The tables grow; an actor moves                                          *)

Tables ==
    /\ now \in Times
    /\ tasks \in [Tasks -> TaskRows]
    /\ \A t \in Tasks : tasks[t].next # None => tasks[t].status = "enabled"
    /\ runs \in [RunIds -> RunRows]
    /\ agents \in [AgentIds -> AgentRows]
    /\ broken \subseteq Tasks
    /\ torn \subseteq RunIds /\ revived \subseteq AgentIds

ActorTypes == pc \in [Actors -> Labels] /\ loc \in [Actors -> Locals]

ScanType(s) ==
    /\ s.phase \in {"idle", "reconcile", "due"}
    /\ s.at \in Times \cup {None} /\ s.left \in Nat
    /\ DOMAIN s.todo \subseteq RunIds /\ s.todo \in [DOMAIN s.todo -> RunRows]

LEMMA TypeParts ==
    ASSUME TypeOK
    PROVE  Tables /\ ActorTypes /\ ScanType(sched)
  BY DEF TypeOK, Tables, ActorTypes, ScanType

LEMMA TypeFromParts ==
    ASSUME Tables', ActorTypes', ScanType(sched)', ActorsHold'
    PROVE  TypeOK'
  BY DEF TypeOK, Tables, ActorTypes, ScanType, ActorsHold, Holds, Snapshot

\* No row of a table goes, and what identifies it stays.
Grown ==
    /\ \A t \in Tasks : tasks[t].status # "absent" => tasks'[t].status # "absent"
    /\ \A r \in RunIds : runs[r].status # "absent" =>
          /\ runs'[r].status # "absent" /\ runs'[r].task = runs[r].task
          /\ runs'[r].trigger = runs[r].trigger /\ runs'[r].at = runs[r].at
    /\ \A x \in AgentIds : agents[x].run # None =>
          /\ agents'[x].run = agents[x].run
          /\ agents[x].status = "gone" => agents'[x].status = "gone"
          /\ agents[x].status \notin AgentLive \/ x \in revived =>
                agents'[x].status \notin AgentLive \/ x \in revived'

LEMMA SnapshotKept ==
    ASSUME Grown, NEW r, NEW s \in RunRows, Snapshot(r, s)
    PROVE  Snapshot(r, s)'
<1>1. s.agent \in AgentIds \cup {None} /\ r # None
    BY DEF RunRows, Snapshot, RunIds, None
<1>2. r \in RunIds /\ runs[r].status # "absent"
    BY DEF Snapshot
<1>3. s.agent # None => agents'[s.agent].run = r
    BY <1>1 DEF Snapshot, Grown
<1>4. /\ runs'[r].status # "absent" /\ runs'[r].task = runs[r].task
      /\ runs'[r].trigger = runs[r].trigger /\ runs'[r].at = runs[r].at
    BY <1>2 DEF Grown
<1> QED BY <1>3, <1>4 DEF Snapshot

LEMMA HoldsKept ==
    ASSUME Grown, NEW a, NEW p, NEW l \in Locals, Holds(a, p, l)
    PROVE  Holds(a, p, l)'
<1>1. l.snap \in RunRows /\ l.agent \in AgentIds \cup {None} /\ l.snap.agent \in AgentIds \cup {None}
    BY DEF Locals, RunRows
<1>2. p \in Writers => Snapshot(l.run, l.snap)'
    BY <1>1, SnapshotKept DEF Holds
<1>3. p \in Writers => l.run # None /\ (l.snap.agent # None => agents[l.snap.agent].run # None)
    BY DEF Holds, Snapshot, RunIds, None
<1>4. p = "link" => l.agent # None /\ agents'[l.agent].run = l.run
    BY <1>1, <1>3 DEF Holds, Grown, Writers
<1>5. p = "sync_write" =>
          /\ l.snap.agent # None /\ l.snap.status # "pending"
          /\ l.snap.status \in Terminal =>
                agents'[l.snap.agent].status \notin AgentLive \/ l.snap.agent \in revived'
    BY <1>1, <1>3 DEF Holds, Grown, Writers
<1>6. p = "mark_failed" =>
          /\ l.snap.agent # None => agents'[l.snap.agent].status = "gone"
          /\ a # Scheduler /\ l.snap.agent = None => l.snap.trigger = "manual"
    BY <1>1, <1>3 DEF Holds, Grown, Writers
<1>7. p \in {"edit", "insert", "touch", "count", "claim"} =>
          /\ l.task \in Tasks /\ tasks'[l.task].status # "absent"
          /\ l.row.status \notin {"absent", "deleted"}
          /\ l.row.next # None => l.row.status = "enabled"
    BY DEF Holds, Grown
<1> QED BY <1>2, <1>4, <1>5, <1>6, <1>7 DEF Holds

Moves(a, p, l) == pc' = [pc EXCEPT ![a] = p] /\ loc' = [loc EXCEPT ![a] = l]

Reset(label, l) == IF label \in {"idle", "reconcile", "due"} THEN Idle ELSE l

LEMMA GotoMoves ==
    ASSUME NEW a, NEW label, NEW l, Goto(a, label, l)
    PROVE  Moves(a, label, Reset(label, l))
  BY DEF Goto, Moves, Reset

LEMMA Moved ==
    ASSUME ActorTypes, NEW a \in Actors, NEW p, NEW l, Moves(a, p, l), NEW b \in Actors
    PROVE  /\ b = a => pc'[b] = p /\ loc'[b] = l
           /\ b # a => pc'[b] = pc[b] /\ loc'[b] = loc[b]
  BY DEF ActorTypes, Moves

LEMMA ActorMoves ==
    ASSUME ActorTypes, ActorsHold, Grown, NEW a \in Actors, NEW p \in Labels, NEW l \in Locals,
           Moves(a, p, l), Holds(a, p, l)'
    PROVE  ActorsHold' /\ ActorTypes'
<1>1. ActorTypes'
    BY DEF ActorTypes, Moves
<1>2. ASSUME NEW b \in Actors PROVE Holds(b, pc[b], loc[b])'
  <2>1. CASE b = a
    <3>1. pc'[b] = p /\ loc'[b] = l
        BY <2>1, Moved
    <3> QED BY <2>1, <3>1 DEF Holds, Snapshot
  <2>2. CASE b # a
    <3>1. PICK q, m : q = pc[b] /\ m = loc[b]
        OBVIOUS
    <3>2. pc'[b] = q /\ loc'[b] = m /\ m \in Locals
        BY <2>2, <3>1, Moved DEF ActorTypes
    <3>3. Holds(b, q, m)'
        BY <3>1, <3>2, HoldsKept DEF ActorsHold
    <3> QED BY <3>2, <3>3 DEF Holds, Snapshot
  <2> QED BY <2>1, <2>2
<1> QED BY <1>1, <1>2 DEF ActorsHold

LEMMA ScannedKept ==
    ASSUME Grown, NEW s, ScanType(s), Scanned(s.todo)
    PROVE  Scanned(s.todo)'
<1> SUFFICES ASSUME NEW r \in DOMAIN s.todo
             PROVE  Snapshot(r, s.todo[r])' /\ s.todo[r].status \in ActiveStatuses
    BY DEF Scanned
<1>1. PICK row \in RunRows : row = s.todo[r]
    BY DEF ScanType
<1>2. Snapshot(r, row) /\ row.status \in ActiveStatuses
    BY <1>1 DEF Scanned
<1>3. Snapshot(r, row)'
    BY <1>2, SnapshotKept
<1> QED BY <1>1, <1>2, <1>3 DEF Snapshot

LEMMA CallerPlaced ==
    ASSUME ActorTypes, CallersPlaced, LoopPlaced, sched' = sched,
           NEW c \in Callers, NEW p, NEW l, Moves(c, p, l), CallerAt(p)
    PROVE  CallersPlaced' /\ LoopPlaced'
<1>1. pc'[Scheduler] = pc[Scheduler] /\ loc'[Scheduler] = loc[Scheduler]
    BY Moved, BoundsAssumption DEF Actors
<1>2. LoopPlaced'
    BY <1>1 DEF LoopPlaced, LoopAt
<1>3. ASSUME NEW d \in Callers PROVE CallerAt(pc'[d])
    BY Moved DEF CallersPlaced, Actors
<1> QED BY <1>2, <1>3 DEF CallersPlaced

LEMMA SchedulerPlaced ==
    ASSUME ActorTypes, CallersPlaced, NEW p, NEW l, Moves(Scheduler, p, l), LoopAt(p, l, sched')
    PROVE  CallersPlaced' /\ LoopPlaced'
<1>1. pc'[Scheduler] = p /\ loc'[Scheduler] = l
    BY Moved DEF Actors
<1>2. ASSUME NEW d \in Callers PROVE CallerAt(pc'[d])
    BY Moved, BoundsAssumption DEF CallersPlaced, Actors
<1> QED BY <1>1, <1>2 DEF CallersPlaced, LoopPlaced, LoopAt

\* What the move of a may still name
Namable(a) == Named \cup {None} \cup (IF pc[a] = "link" THEN {loc[a].agent} ELSE {})

LEMMA NamedMoves ==
    ASSUME ActorTypes, NEW a \in Actors, NEW p, NEW l, Moves(a, p, l),
           \A r \in RunIds : runs'[r].agent \in Namable(a),
           \A r \in DOMAIN sched'.todo : sched'.todo[r].agent \in Namable(a),
           p \in Writers => l.snap.agent \in Namable(a)
    PROVE  Named' \subseteq Namable(a)
<1>1. ASSUME NEW b \in Actors, pc'[b] \in Writers PROVE loc'[b].snap.agent \in Namable(a)
  <2>1. CASE b = a
      BY <1>1, <2>1, Moved
  <2>2. CASE b # a
    <3>1. pc[b] \in Writers /\ loc'[b] = loc[b]
        BY <1>1, <2>2, Moved
    <3> QED BY <3>1 DEF Namable, Named
  <2> QED BY <2>1, <2>2
<1> QED BY <1>1 DEF Named

LEMMA UnnamedMoves ==
    ASSUME ActorTypes, ActorsHold, Unnamed, NEW a \in Actors, NEW p, NEW l, Moves(a, p, l),
           p # "link", Named' \subseteq Namable(a)
    PROVE  Unnamed'
<1>1. \A b \in Actors : pc'[b] = "link" => b # a /\ pc[b] = "link" /\ loc'[b] = loc[b]
    BY Moved
<1>2. ASSUME NEW b \in Actors, b # a, pc[b] = "link" PROVE loc[b].agent \notin Namable(a)
  <2>1. loc[b].agent # None
      BY <1>2 DEF ActorsHold, Holds
  <2> QED BY <1>2, <2>1 DEF Namable, Unnamed
<1> QED BY <1>1, <1>2 DEF Unnamed

KeepsRun(a, p, l) ==
    a \in Callers /\ p \in {"touch", "dispatch", "link"} =>
        \/ pc[a] \in {"touch", "dispatch", "link"} /\ l.run = loc[a].run
        \/ \A d \in Callers : pc[d] \in {"touch", "dispatch", "link"} => loc[d].run # l.run

LEMMA OwnRunMoves ==
    ASSUME ActorTypes, OwnRun, NEW a \in Actors, NEW p, NEW l, Moves(a, p, l),
           KeepsRun(a, p, l)
    PROVE  OwnRun'
<1> DEFINE Owner(q) == q \in {"touch", "dispatch", "link"}
<1>1. \A c \in Callers : c # a => pc'[c] = pc[c] /\ loc'[c] = loc[c]
    BY Moved DEF Actors
<1>2. pc'[a] = p /\ loc'[a] = l
    BY Moved
<1>3. ASSUME NEW c \in Callers, a \in Callers, c # a, Owner(p), Owner(pc[c]), loc[c].run = l.run
      PROVE  FALSE
    BY <1>3 DEF KeepsRun, OwnRun
<1> SUFFICES ASSUME NEW c \in Callers, NEW d \in Callers, Owner(pc'[c]), Owner(pc'[d]),
                    loc'[c].run = loc'[d].run
             PROVE  c = d
    BY DEF OwnRun
<1>4. CASE c # a /\ d # a
    BY <1>1, <1>4 DEF OwnRun
<1>5. CASE c = a /\ d # a
  <2>1. Owner(p) /\ Owner(pc[d]) /\ loc[d].run = l.run
      BY <1>1, <1>2, <1>5
  <2> QED BY <1>3, <1>5, <2>1
<1>6. CASE c # a /\ d = a
  <2>1. Owner(p) /\ Owner(pc[c]) /\ loc[c].run = l.run
      BY <1>1, <1>2, <1>6
  <2> QED BY <1>3, <1>6, <2>1
<1> QED BY <1>4, <1>5, <1>6

\* An actor moves, and the tables grow.
LEMMA SteadyMove ==
    ASSUME TypeOK, Steady, Grown, Tables', LinkedAgents', LinkedRuns', ScanType(sched)',
           NEW a \in Actors, NEW p \in Labels, NEW l \in Locals, Moves(a, p, l),
           Holds(a, p, l)', p # "link",
           a \in Callers => CallerAt(p) /\ sched' = sched,
           a = Scheduler => LoopAt(p, l, sched'),
           Scanned(sched.todo)',
           \A r \in RunIds : runs'[r].agent \in Namable(a),
           \A r \in DOMAIN sched'.todo : sched'.todo[r].agent \in Namable(a),
           p \in Writers => l.snap.agent \in Namable(a),
           KeepsRun(a, p, l)
    PROVE  TypeOK' /\ Steady'
<1>1. ActorTypes
    BY TypeParts
<1>2. ActorsHold' /\ ActorTypes'
    BY <1>1, ActorMoves DEF Steady
<1>3. CallersPlaced' /\ LoopPlaced'
    BY <1>1, CallerPlaced, SchedulerPlaced DEF Steady, Actors
<1>4. Unnamed'
    BY <1>1, NamedMoves, UnnamedMoves DEF Steady
<1>5. OwnRun'
  <2>1. OwnRun
      BY DEF Steady
  <2> QED BY <1>1, <2>1, OwnRunMoves
<1>6. TypeOK'
    BY <1>2, TypeFromParts
<1> QED BY <1>2, <1>3, <1>4, <1>5, <1>6 DEF Steady

\* An actor moves, and the rows that refer to each other stay.
TasksCalm ==
    \A t \in Tasks : tasks[t].status # "absent" =>
        tasks'[t].status # "absent" /\ (TaskExists(t)' <=> TaskExists(t))

Calm == UNCHANGED <<runs, agents, revived>> /\ TasksCalm

LEMMA CalmTables ==
    ASSUME Steady, Calm
    PROVE  Grown /\ LinkedAgents' /\ LinkedRuns'
<1> USE DEF Calm
<1>1. Grown
    BY DEF Grown, TasksCalm
<1>2. LinkedAgents'
    BY DEF Steady, LinkedAgents
<1>3. LinkedRuns'
  <2> SUFFICES ASSUME NEW r \in RunIds, runs[r].status # "absent"
               PROVE  /\ runs[r].task \in Tasks
                      /\ tasks'[runs[r].task].status # "absent"
                      /\ ~TaskExists(runs[r].task)' => runs[r].status = "deleted"
      BY DEF Steady, LinkedRuns, RunLinked
  <2>1. PICK t : t = runs[r].task
      OBVIOUS
  <2>2. /\ t \in Tasks /\ tasks[t].status # "absent"
        /\ ~TaskExists(t) => runs[r].status = "deleted"
      BY <2>1 DEF Steady, LinkedRuns, RunLinked
  <2>3. tasks'[t].status # "absent" /\ (TaskExists(t)' <=> TaskExists(t))
      BY <2>2 DEF TasksCalm
  <2> QED BY <2>1, <2>2, <2>3 DEF TaskExists
<1> QED BY <1>1, <1>2, <1>3

Shrunk == \A r \in DOMAIN sched'.todo : r \in DOMAIN sched.todo /\ sched'.todo[r] = sched.todo[r]

LEMMA ShrunkScan ==
    ASSUME TypeOK, Scanned(sched.todo), Grown, Shrunk
    PROVE  Scanned(sched.todo)' /\ \A r \in DOMAIN sched'.todo : sched'.todo[r].agent \in Named
<1>1. ScanType(sched)
    BY TypeParts
<1>2. PICK s : s = sched
    OBVIOUS
<1>3. Scanned(s.todo)'
    BY <1>1, <1>2, ScannedKept
<1>4. Scanned(sched.todo)'
    BY <1>2, <1>3 DEF Scanned, Shrunk
<1>5. \A r \in DOMAIN sched'.todo : sched'.todo[r].agent \in Named
    BY DEF Shrunk, Named
<1> QED BY <1>4, <1>5

LEMMA CalmMove ==
    ASSUME TypeOK, Steady, Calm, Tables', ScanType(sched)', Shrunk,
           NEW a \in Actors, NEW p \in Labels, NEW l \in Locals, Moves(a, p, l),
           Holds(a, p, l), p # "link",
           a \in Callers => CallerAt(p) /\ sched' = sched,
           a = Scheduler => LoopAt(p, l, sched'),
           p \in Writers => l.snap.agent \in Namable(a),
           KeepsRun(a, p, l)
    PROVE  TypeOK' /\ Steady'
<1>1. Grown /\ LinkedAgents' /\ LinkedRuns'
    BY CalmTables
<1>2. Holds(a, p, l)'
    BY <1>1, HoldsKept
<1>3. Scanned(sched.todo)' /\ \A r \in DOMAIN sched'.todo : sched'.todo[r].agent \in Named
    BY <1>1, ShrunkScan DEF Steady
<1>4. \A r \in RunIds : runs'[r].agent \in Namable(a)
    BY DEF Calm, Namable, Named
<1>5. \A r \in DOMAIN sched'.todo : sched'.todo[r].agent \in Namable(a)
    BY <1>3 DEF Namable
<1> QED BY <1>1, <1>2, <1>3, <1>4, <1>5, SteadyMove

\* Nothing but the actor and the scan changes.
Still == UNCHANGED <<now, tasks, broken, runs, agents, torn, revived>>

LEMMA StillTables ==
    ASSUME TypeOK, Still
    PROVE  Calm /\ Tables'
  BY TypeParts DEF Still, Calm, TasksCalm, Tables, TaskExists

LEMMA IdleFacts == Idle \in Locals /\ NoScan.todo = <<>> /\ DOMAIN NoScan.todo = {}
  BY DEF Idle, Locals, NoTask, TaskRows, NoRun, RunRows, NoSchedule, NoScan

LEMMA NoScanType == ScanType(NoScan)
  BY DEF ScanType, NoScan

LEMMA AbortSteady ==
    ASSUME TypeOK, Steady, Calm, Tables', NEW a \in Actors, Abort(a)
    PROVE  TypeOK' /\ Steady'
<1>1. Moves(a, "idle", Idle)
    BY GotoMoves DEF Abort, Reset
<1>2. sched' = IF a = Scheduler THEN NoScan ELSE sched
    BY DEF Abort
<1>3. ScanType(sched)' /\ Shrunk
    BY <1>2, TypeParts, NoScanType, IdleFacts DEF ScanType, Shrunk
<1>4. Holds(a, "idle", Idle) /\ KeepsRun(a, "idle", Idle) /\ "idle" \in Labels /\ "idle" \notin Writers
    BY DEF Holds, Writers, KeepsRun, Labels
<1>5. a \in Callers => CallerAt("idle") /\ sched' = sched
    BY <1>2, BoundsAssumption DEF CallerAt
<1>6. a = Scheduler => LoopAt("idle", Idle, sched')
    BY <1>2, IdleFacts DEF LoopAt, NoScan, Writers
<1> QED BY <1>1, <1>3, <1>4, <1>5, <1>6, IdleFacts, CalmMove

\* A helper returns to its caller.
LEMMA BackPlaced ==
    ASSUME TypeOK, Steady, NEW a \in Actors, pc[a] \in Writers, NEW l \in Locals
    PROVE  /\ Back(a) \in {"idle", "reconcile", "due", "cancel"}
           /\ Reset(Back(a), l) \in Locals
           /\ a \in Callers => CallerAt(Back(a))
           /\ a = Scheduler => LoopAt(Back(a), Reset(Back(a), l), sched)
<1>1. CASE a = Scheduler
  <2>1. Back(a) = sched.phase /\ sched.phase \in {"idle", "reconcile", "due"}
      BY <1>1, TypeParts DEF Back, ScanType
  <2>2. Reset(Back(a), l) = Idle
      BY <2>1 DEF Reset
  <2>3. LoopAt(pc[Scheduler], loc[Scheduler], sched)
      BY DEF Steady, LoopPlaced
  <2>4. LoopAt(sched.phase, Idle, sched)
      BY <1>1, <2>1, <2>3 DEF LoopAt, Writers
  <2> QED BY <1>1, <2>1, <2>2, <2>4, IdleFacts, BoundsAssumption
<1>2. CASE a # Scheduler
  <2>1. Back(a) \in {"idle", "cancel"}
      BY <1>2 DEF Back
  <2> QED BY <1>2, <2>1, IdleFacts DEF Reset, CallerAt
<1> QED BY <1>1, <1>2

LEMMA BackHolds ==
    ASSUME NEW a, NEW l, Snapshot(l.run, l.snap), Back(a) \in {"idle", "reconcile", "due", "cancel"}
    PROVE  /\ Holds(a, Back(a), Reset(Back(a), l))
           /\ KeepsRun(a, Back(a), Reset(Back(a), l))
           /\ Back(a) \in Labels /\ Back(a) # "link"
           /\ Back(a) \in Writers => Reset(Back(a), l) = l
<1>1. PICK p : p = Back(a)
    OBVIOUS
<1>2. p \in Writers => p = "cancel"
    BY <1>1 DEF Writers
<1>3. p \in Writers => Reset(p, l) = l
    BY <1>2 DEF Reset
<1>4. Holds(a, p, Reset(p, l))
    BY <1>1, <1>2, <1>3 DEF Holds
<1>5. KeepsRun(a, p, Reset(p, l)) /\ p \in Labels /\ p # "link"
    BY <1>1 DEF KeepsRun, Labels, Writers
<1> QED BY <1>1, <1>3, <1>4, <1>5

-----------------------------------------------------------------------------
(* Steps that only move an actor                                            *)

\* What the invariant says of one actor
LEMMA ActorFacts ==
    ASSUME TypeOK, Steady, NEW a \in Actors
    PROVE  /\ pc[a] \in Labels /\ loc[a] \in Locals
           /\ Holds(a, pc[a], loc[a])
           /\ a \in Callers => CallerAt(pc[a])
           /\ a = Scheduler => LoopAt(pc[a], loc[a], sched)
           /\ pc[a] \in Writers => loc[a].snap.agent \in Namable(a)
  BY TypeParts DEF ActorTypes, Steady, ActorsHold, CallersPlaced, LoopPlaced, Namable, Named

\* The actor stays in the same helper, with the run and the row it holds.
LEMMA StayMove ==
    ASSUME TypeOK, Steady, Still, sched' = sched,
           NEW a \in Actors, NEW p \in Labels, NEW l \in Locals, Moves(a, p, l),
           Holds(a, p, l), p # "link", pc[a] \in Writers, p \in Writers,
           a = Scheduler => p \notin {"touch", "cancel", "mark_cancelled"},
           l.run = loc[a].run, l.snap.agent = loc[a].snap.agent, KeepsRun(a, p, l)
    PROVE  TypeOK' /\ Steady'
<1>1. Calm /\ Tables' /\ Shrunk /\ ScanType(sched)'
    BY StillTables, TypeParts DEF Shrunk, ScanType
<1>2. a \in Callers => CallerAt(p) /\ sched' = sched
    BY DEF CallerAt, Writers
<1>3. a = Scheduler => LoopAt(p, l, sched')
    BY ActorFacts DEF LoopAt, Writers
<1>4. l.snap.agent \in Namable(a)
    BY ActorFacts
<1> QED BY <1>1, <1>2, <1>3, <1>4, CalmMove

LEMMA ReturnMove ==
    ASSUME TypeOK, Steady, Still, sched' = sched, NEW a \in Actors, pc[a] \in Writers,
           Goto(a, Back(a), loc[a])
    PROVE  TypeOK' /\ Steady'
<1>1. PICK l \in Locals : l = loc[a]
    BY ActorFacts
<1>2. Snapshot(l.run, l.snap)
    BY <1>1, ActorFacts DEF Holds
<1>3. PICK p : p = Back(a)
    OBVIOUS
<1>4. PICK m \in Locals : m = Reset(p, l)
    BY <1>1, <1>3, BackPlaced
<1>5. Moves(a, p, m)
    BY <1>1, <1>3, <1>4, GotoMoves
<1>6. Holds(a, p, m) /\ KeepsRun(a, p, m) /\ p \in Labels /\ p # "link"
      /\ (p \in Writers => m = l)
    BY <1>1, <1>2, <1>3, <1>4, BackPlaced, BackHolds
<1>7. Calm /\ Tables' /\ Shrunk /\ ScanType(sched)'
    BY StillTables, TypeParts DEF Shrunk, ScanType
<1>8. a \in Callers => CallerAt(p) /\ sched' = sched
    BY <1>1, <1>3, BackPlaced
<1>9. a = Scheduler => LoopAt(p, m, sched')
    BY <1>1, <1>3, <1>4, BackPlaced
<1>10. p \in Writers => m.snap.agent \in Namable(a)
    BY <1>1, <1>6, ActorFacts
<1> QED BY <1>5, <1>6, <1>7, <1>8, <1>9, <1>10, CalmMove

LEMMA QueueInputFailsSteady ==
    ASSUME TypeOK, Steady, NEW a \in Actors, QueueInputFails(a)
    PROVE  TypeOK' /\ Steady'
<1>1. Still /\ Abort(a)
    BY DEF QueueInputFails, Still, history
<1> QED BY <1>1, StillTables, AbortSteady

LEMMA QueueFailsSteady ==
    ASSUME TypeOK, Steady, NEW a \in Actors, QueueFails(a)
    PROVE  TypeOK' /\ Steady'
<1>1. Still /\ sched' = sched /\ pc[a] = "dispatch" /\ Goto(a, "mark_failed", loc[a])
    BY DEF QueueFails, Still, history
<1>2. PICK l \in Locals : l = loc[a]
    BY ActorFacts
<1>3. Moves(a, "mark_failed", l)
    BY <1>1, <1>2, GotoMoves DEF Reset
<1>4. Holds(a, "dispatch", l)
    BY <1>1, <1>2, ActorFacts
<1>5. Holds(a, "mark_failed", l)
  <2>1. Snapshot(l.run, l.snap) /\ l.snap.status = "pending" /\ (a # Scheduler => l.snap.trigger = "manual")
      BY <1>4 DEF Holds, Writers
  <2> QED BY <2>1 DEF Holds, Snapshot
<1> QED BY <1>1, <1>2, <1>3, <1>5, StayMove DEF Writers, Labels, KeepsRun

\* StatusForAgentTask on the statuses of an Agent task that exists
LEMMA StatusFacts ==
    ASSUME NEW s \in AgentLive \cup AgentTerminal
    PROVE  /\ StatusForAgentTask(s) \in Terminal \cup {"queued", "running"}
           /\ StatusForAgentTask(s) \in Terminal => s \notin AgentLive
<1>1. CASE s = "queued"
    BY <1>1 DEF StatusForAgentTask, Terminal
<1>2. CASE s \in {"running", "waiting"}
    BY <1>2 DEF StatusForAgentTask, Terminal
<1>3. CASE s = "completed"
    BY <1>3 DEF StatusForAgentTask, Terminal, AgentLive
<1>4. CASE s \in {"failed", "interrupted"}
    BY <1>4 DEF StatusForAgentTask, Terminal, AgentLive
<1>5. CASE s = "cancelled"
    BY <1>5 DEF StatusForAgentTask, Terminal, AgentLive
<1> QED BY <1>1, <1>2, <1>3, <1>4, <1>5 DEF AgentLive, AgentTerminal

LEMMA SyncReadSteady ==
    ASSUME TypeOK, Steady, NEW a \in Actors, SyncRead(a)
    PROVE  TypeOK' /\ Steady'
<1>1. Still /\ sched' = sched /\ pc[a] = "sync" /\ "sync" \in Writers
    BY DEF SyncRead, Still, history, Writers
<1>2. PICK l \in Locals : l = loc[a]
    BY ActorFacts
<1>3. Snapshot(l.run, l.snap) /\ l.snap \in RunRows
    BY <1>1, <1>2, ActorFacts DEF Holds, Locals
<1>4. PICK s \in RunRows : s = l.snap
    BY <1>3
<1>5. CASE Goto(a, Back(a), loc[a])
    BY <1>1, <1>5, ReturnMove
<1>6. CASE s.agent # None /\ ~AgentExists(s.agent) /\ Goto(a, "mark_failed", loc[a])
  <2>1. Moves(a, "mark_failed", l)
      BY <1>2, <1>6, GotoMoves DEF Reset
  <2>2. agents[s.agent].status = "gone"
    <3>1. s.agent \in AgentIds /\ agents[s.agent].run = l.run /\ l.run # None
        BY <1>3, <1>4, <1>6 DEF Snapshot, RunRows, RunIds, None
    <3>2. agents[s.agent].status # "absent"
        BY <3>1 DEF Steady, LinkedAgents
    <3> QED BY <1>6, <3>2 DEF AgentExists
  <2>3. Holds(a, "mark_failed", l)
      BY <1>3, <1>4, <1>6, <2>2 DEF Holds
  <2> QED BY <1>1, <1>2, <2>1, <2>3, StayMove DEF Writers, Labels, KeepsRun
<1>7. CASE /\ s.agent # None /\ AgentExists(s.agent)
           /\ Goto(a, "sync_write", [loc[a] EXCEPT !.snap =
                 [s EXCEPT !.status = StatusForAgentTask(agents[s.agent].status),
                           !.done = agents[s.agent].end]])
  <2>1. PICK x \in AgentIds : x = s.agent
      BY <1>4, <1>7 DEF RunRows
  <2>2. agents[x] \in AgentRows
      BY TypeParts DEF Tables
  <2>3. agents[x].status \in AgentLive \cup AgentTerminal /\ agents[x].end \in Times \cup {None}
      BY <1>7, <2>1, <2>2 DEF AgentRows, AgentExists
  <2>4. PICK st : st = StatusForAgentTask(agents[x].status)
      OBVIOUS
  <2>5. st \in Terminal \cup {"queued", "running"} /\ (st \in Terminal => agents[x].status \notin AgentLive)
      BY <2>3, <2>4, StatusFacts
  <2>6. PICK new : new = [s EXCEPT !.status = st, !.done = agents[x].end]
      OBVIOUS
  <2>7. new \in RunRows /\ new.agent = x /\ new.status = st
        /\ new.task = s.task /\ new.trigger = s.trigger /\ new.at = s.at
    <3>1. st \in Terminal \cup ActiveStatuses \cup {"absent", "deleted"}
        BY <2>5 DEF ActiveStatuses
    <3> QED BY <2>1, <2>3, <2>6, <3>1 DEF RunRows
  <2>8. PICK m : m = [l EXCEPT !.snap = new]
      OBVIOUS
  <2>9. m \in Locals /\ m.snap = new /\ m.run = l.run
      BY <2>7, <2>8 DEF Locals
  <2>10. Moves(a, "sync_write", m)
      BY <1>2, <1>7, <2>1, <2>4, <2>6, <2>8, GotoMoves DEF Reset
  <2>11. Holds(a, "sync_write", m)
    <3>1. Snapshot(l.run, new)
      <4>1. st \notin {"absent", "deleted", "pending"}
          BY <2>5 DEF Terminal
      <4> QED BY <1>3, <1>4, <2>1, <2>7, <4>1 DEF Snapshot
    <3>2. new.agent # None /\ new.status # "pending"
          /\ (new.status \in Terminal => agents[new.agent].status \notin AgentLive)
        BY <2>1, <2>5, <2>7 DEF Terminal, AgentIds, None
    <3> QED BY <2>9, <3>1, <3>2 DEF Holds
  <2>12. m.snap.agent = loc[a].snap.agent
      BY <1>2, <1>4, <2>1, <2>7, <2>9
  <2> QED BY <1>1, <1>2, <2>9, <2>10, <2>11, <2>12, StayMove DEF Writers, Labels, KeepsRun
<1>8. s = loc[a].snap
    BY <1>2, <1>4
<1> QED BY <1>5, <1>6, <1>7, <1>8 DEF SyncRead

\* CHOOSE finds a first run in the scan, and a lowest free id.
LEMMA FirstRunIn ==
    ASSUME NEW s, ScanType(s), DOMAIN s.todo # {}
    PROVE  FirstRun(s.todo) \in DOMAIN s.todo
<1> DEFINE D == DOMAIN s.todo
           A == {s.todo[r].at + 1 : r \in D}
<1>1. ASSUME NEW r \in D PROVE s.todo[r].at \in Times \cup {None} /\ r \in Nat
  <2>1. r \in RunIds /\ s.todo[r] \in RunRows
      BY DEF ScanType
  <2>2. r \in Nat
      BY <2>1, BoundsAssumption DEF RunIds
  <2>3. \A row \in RunRows : row.at \in Times \cup {None}
      BY DEF RunRows
  <2> QED BY <2>1, <2>2, <2>3
<1>2. A \subseteq Nat /\ A # {}
  <2>1. \A n \in Times \cup {None} : n + 1 \in Nat
      BY BoundsAssumption DEF Times, None
  <2> QED BY <1>1, <2>1
<1>3. PICK n \in A : \A m \in A : n <= m
  <2> HIDE DEF A
  <2> QED BY <1>2, LeastNumber
<1> DEFINE E == {r \in D : s.todo[r].at + 1 = n}
<1>4. E \subseteq Nat /\ E # {}
    BY <1>1, <1>3
<1>5. PICK r \in E : \A q \in E : r <= q
  <2> HIDE DEF E
  <2> QED BY <1>4, LeastNumber
<1>6. ASSUME NEW q \in D PROVE Before(r, q, s.todo)
  <2>1. n <= s.todo[q].at + 1 /\ s.todo[r].at + 1 = n
      BY <1>3, <1>5
  <2>2. CASE s.todo[q].at + 1 = n
    <3>1. r <= q
        BY <1>5, <2>2
    <3>2. s.todo[r].at = s.todo[q].at
        BY <1>1, <1>5, <2>1, <2>2, BoundsAssumption DEF Times, None
    <3> QED BY <3>1, <3>2 DEF Before
  <2>3. CASE s.todo[q].at + 1 # n
    <3>1. s.todo[r].at < s.todo[q].at
        BY <1>1, <1>2, <1>3, <1>5, <2>1, <2>3, BoundsAssumption DEF Times, None
    <3> QED BY <3>1 DEF Before
  <2> QED BY <2>2, <2>3
<1> QED BY <1>5, <1>6 DEF FirstRun

LEMMA NewRunFree ==
    ASSUME FreeRuns # {}
    PROVE  NewRun \in RunIds /\ runs[NewRun].status = "absent"
<1>1. FreeRuns \subseteq Nat
    BY DEF FreeRuns, RunIds
<1>2. \E r \in FreeRuns : \A q \in FreeRuns : r <= q
    BY <1>1, LeastNumber
<1> QED BY <1>2 DEF NewRun, FreeRuns

LEMMA NewAgentFree ==
    ASSUME FreeAgents # {}
    PROVE  NewAgent \in AgentIds /\ agents[NewAgent].status = "absent"
<1>1. FreeAgents \subseteq Nat
    BY DEF FreeAgents, AgentIds
<1>2. \E r \in FreeAgents : \A q \in FreeAgents : r <= q
    BY <1>1, LeastNumber
<1> QED BY <1>2 DEF NewAgent, FreeAgents

LEMMA RowSnapshot ==
    ASSUME Steady, NEW r \in RunIds, runs[r].status \notin {"absent", "deleted"}
    PROVE  Snapshot(r, runs[r])
  BY DEF Steady, LinkedRuns, RunLinked, Snapshot

LEMMA ScanStartSteady ==
    ASSUME TypeOK, Steady, ScanStart
    PROVE  TypeOK' /\ Steady'
<1>1. Still /\ loc' = loc /\ pc[Scheduler] = "idle" /\ Scheduler \in Actors
    BY DEF ScanStart, Still, history, Actors
<1>2. PICK l \in Locals : l = loc[Scheduler]
    BY <1>1, ActorFacts
<1>3. Moves(Scheduler, "reconcile", l)
    BY <1>1, <1>2, TypeParts DEF ScanStart, Moves, ActorTypes
<1>4. Grown /\ LinkedAgents' /\ LinkedRuns' /\ Tables'
    BY <1>1, StillTables, CalmTables
<1>5. /\ sched'.phase = "reconcile" /\ sched'.at = None /\ sched'.left = 0
      /\ sched'.todo = [r \in ActiveRuns |-> runs[r]]
    BY DEF ScanStart, NoScan
<1>6. ActiveRuns \subseteq RunIds /\ \A r \in ActiveRuns : runs[r] \in RunRows
    BY TypeParts DEF ActiveRuns, Tables
<1>7. ScanType(sched)'
    BY <1>5, <1>6 DEF ScanType
<1>8. ASSUME NEW r \in ActiveRuns PROVE Snapshot(r, runs[r])
    BY <1>6, RowSnapshot DEF ActiveRuns, ActiveStatuses
<1>9. Scanned(sched.todo)'
  <2> SUFFICES ASSUME NEW r \in ActiveRuns
               PROVE  Snapshot(r, runs[r])' /\ runs[r].status \in ActiveStatuses
      BY <1>1, <1>5 DEF Scanned, Still
  <2>1. PICK row \in RunRows : row = runs[r]
      BY <1>6
  <2>2. Snapshot(r, row)'
      BY <1>4, <1>8, <2>1, SnapshotKept
  <2> QED BY <1>1, <2>1, <2>2 DEF ActiveRuns, Snapshot, Still
<1>10. Holds(Scheduler, "reconcile", l)' /\ KeepsRun(Scheduler, "reconcile", l)
       /\ "reconcile" \in Labels /\ "reconcile" \notin Writers
    BY DEF Holds, KeepsRun, Labels, Writers
<1>11. LoopAt("reconcile", l, sched')
    BY <1>5 DEF LoopAt, Writers
<1>12. \A r \in RunIds : runs'[r].agent \in Namable(Scheduler)
    BY <1>1 DEF Still, Namable, Named
<1>13. \A r \in DOMAIN sched'.todo : sched'.todo[r].agent \in Namable(Scheduler)
    BY <1>5, <1>6 DEF Namable, Named
<1> QED BY <1>1, <1>3, <1>4, <1>7, <1>9, <1>10, <1>11, <1>12, <1>13, SteadyMove, BoundsAssumption

LEMMA ReconcileRunSteady ==
    ASSUME TypeOK, Steady, ReconcileRun
    PROVE  TypeOK' /\ Steady'
<1>1. /\ Still /\ pc[Scheduler] = "reconcile" /\ DOMAIN sched.todo # {}
      /\ Scheduler \in Actors /\ Scheduler \notin Callers
    BY BoundsAssumption DEF ReconcileRun, Still, history, Actors
<1>2. PICK r : r = FirstRun(sched.todo)
    OBVIOUS
<1>3. ScanType(sched)
    BY TypeParts
<1>4. r \in DOMAIN sched.todo
    BY <1>1, <1>2, <1>3, FirstRunIn
<1>5. PICK s \in RunRows : s = sched.todo[r]
    BY <1>3, <1>4 DEF ScanType
<1>6. Snapshot(r, s) /\ s.status \in ActiveStatuses
    BY <1>4, <1>5 DEF Steady, Scanned
<1>7. PICK label : label = IF s.agent # None THEN "sync"
                           ELSE IF s.status = "pending" /\ TaskExists(s.task) THEN "dispatch"
                           ELSE "mark_failed"
    OBVIOUS
<1>8. PICK l : l = [Idle EXCEPT !.task = s.task, !.run = r, !.snap = s]
    OBVIOUS
<1>9. l \in Locals /\ l.run = r /\ l.snap = s /\ l.op = "none"
  <2>1. r \in RunIds /\ s.task \in Tasks \cup {None}
      BY <1>5, <1>6 DEF Snapshot, RunRows
  <2> QED BY <1>5, <1>8, <2>1, IdleFacts DEF Idle, Locals
<1>10. Moves(Scheduler, label, l)
  <2>1. Goto(Scheduler, label, l)
      BY <1>2, <1>5, <1>7, <1>8 DEF ReconcileRun
  <2> QED BY <1>7, <2>1, GotoMoves DEF Reset
<1>11. /\ sched'.phase = sched.phase /\ sched'.at = sched.at /\ sched'.left = sched.left
       /\ DOMAIN sched'.todo = DOMAIN sched.todo \ {r}
       /\ \A q \in DOMAIN sched'.todo : sched'.todo[q] = sched.todo[q]
       /\ sched'.todo \in [DOMAIN sched'.todo -> RunRows]
  <2>1. sched' = [sched EXCEPT !.todo = [q \in DOMAIN sched.todo \ {r} |-> sched.todo[q]]]
      BY <1>2 DEF ReconcileRun
  <2> QED BY <1>3, <2>1, TypeParts DEF ScanType
<1>12. Shrunk /\ ScanType(sched)'
    BY <1>3, <1>11 DEF Shrunk, ScanType
<1>13. Holds(Scheduler, label, l)
  <2>1. label \in {"sync", "dispatch", "mark_failed"}
      BY <1>7
  <2>2. label = "dispatch" => s.status = "pending"
      BY <1>7
  <2>3. label = "mark_failed" => s.agent = None
      BY <1>7
  <2> QED BY <1>6, <1>9, <2>1, <2>2, <2>3 DEF Holds
<1>14. /\ label \in Labels /\ label # "link" /\ label \in Writers
       /\ label \notin {"touch", "cancel", "mark_cancelled", "edit", "insert", "idle", "reconcile",
                        "due", "count", "claim"}
    BY <1>7 DEF Labels, Writers
<1>15. LoopAt(label, l, sched')
  <2>1. LoopAt("reconcile", loc[Scheduler], sched)
      BY <1>1, ActorFacts
  <2>2. sched'.phase = "reconcile" /\ l.run \notin DOMAIN sched'.todo
      BY <1>9, <1>11, <2>1 DEF LoopAt
  <2> QED BY <1>14, <2>2 DEF LoopAt
<1>16. l.snap.agent \in Namable(Scheduler)
    BY <1>4, <1>5, <1>9 DEF Namable, Named
<1>17. KeepsRun(Scheduler, label, l)
    BY <1>1 DEF KeepsRun
<1> QED BY <1>1, <1>9, <1>10, <1>12, <1>13, <1>14, <1>15, <1>16, <1>17, StillTables, CalmMove

\* The loop goes on to a statement at which it holds no run.
LEMMA LoopMove ==
    ASSUME TypeOK, Steady, Calm, Tables', NEW p \in Labels, NEW l \in Locals,
           Moves(Scheduler, p, l), Holds(Scheduler, p, l), p \notin Writers, p # "link",
           ScanType(sched)', Shrunk, LoopAt(p, l, sched')
    PROVE  TypeOK' /\ Steady'
<1>1. Scheduler \in Actors /\ Scheduler \notin Callers /\ KeepsRun(Scheduler, p, l)
    BY BoundsAssumption DEF Actors, KeepsRun
<1> QED BY <1>1, CalmMove

LEMMA DueReadSteady ==
    ASSUME TypeOK, Steady, NEW t \in Tasks, DueRead(t)
    PROVE  TypeOK' /\ Steady'
<1>1. Still /\ pc[Scheduler] = "due" /\ sched.left > 0 /\ Due(t, sched.at) /\ Scheduler \in Actors
    BY DEF DueRead, Still, history, Actors
<1>2. PICK l : l = [Idle EXCEPT !.task = t, !.row = tasks[t]]
    OBVIOUS
<1>3. tasks[t] \in TaskRows
    BY TypeParts DEF Tables
<1>4. l \in Locals /\ l.task = t /\ l.row = tasks[t]
    BY <1>2, <1>3, IdleFacts DEF Idle, Locals
<1>5. Moves(Scheduler, "count", l)
  <2>1. Goto(Scheduler, "count", l)
      BY <1>2 DEF DueRead
  <2> QED BY <2>1, GotoMoves DEF Reset
<1>6. Holds(Scheduler, "count", l)
    BY <1>1, <1>4 DEF Holds, Writers, Due
<1>7. sched' = [sched EXCEPT !.left = @ - 1]
    BY DEF DueRead
<1>8. /\ sched'.phase = sched.phase /\ sched'.at = sched.at /\ sched'.todo = sched.todo
      /\ sched'.left \in Nat
    BY <1>1, <1>7, TypeParts DEF ScanType
<1>9. ScanType(sched)' /\ Shrunk
    BY <1>8, TypeParts DEF ScanType, Shrunk
<1>10. LoopAt("count", l, sched')
  <2>1. LoopAt("due", loc[Scheduler], sched)
      BY <1>1, ActorFacts
  <2> QED BY <1>1, <1>4, <1>8, <2>1 DEF LoopAt, Writers, Due
<1> QED BY <1>1, <1>4, <1>5, <1>6, <1>9, <1>10, StillTables, LoopMove DEF Labels, Writers

LEMMA ScanDoneSteady ==
    ASSUME TypeOK, Steady, ScanDone
    PROVE  TypeOK' /\ Steady'
<1>1. Still /\ Abort(Scheduler) /\ Scheduler \in Actors
    BY DEF ScanDone, Still, history, Actors
<1> QED BY <1>1, StillTables, AbortSteady

LEMMA CountActiveSteady ==
    ASSUME TypeOK, Steady, CountActive
    PROVE  TypeOK' /\ Steady'
<1>1. Still /\ pc[Scheduler] = "count" /\ sched' = sched /\ Scheduler \in Actors
    BY DEF CountActive, Still, history, Actors
<1>2. PICK op \in {"pending", "skipped"} :
         Goto(Scheduler, "claim", [loc[Scheduler] EXCEPT !.op = op])
    BY DEF CountActive
<1>3. PICK l \in Locals : l = loc[Scheduler]
    BY <1>1, ActorFacts
<1>4. PICK m : m = [l EXCEPT !.op = op]
    OBVIOUS
<1>5. m \in Locals /\ m.op = op /\ m.task = l.task /\ m.row = l.row
    BY <1>4 DEF Locals
<1>6. Moves(Scheduler, "claim", m)
    BY <1>2, <1>3, <1>4, GotoMoves DEF Reset
<1>7. Holds(Scheduler, "count", l) /\ LoopAt("count", l, sched)
    BY <1>1, <1>3, ActorFacts
<1>8. Holds(Scheduler, "claim", m)
    BY <1>5, <1>7 DEF Holds, Writers
<1>9. LoopAt("claim", m, sched')
    BY <1>1, <1>5, <1>7 DEF LoopAt, Writers
<1>10. ScanType(sched)' /\ Shrunk
    BY <1>1, TypeParts DEF ScanType, Shrunk
<1> QED BY <1>1, <1>5, <1>6, <1>8, <1>9, <1>10, StillTables, LoopMove DEF Labels, Writers

\* A request goes to a statement at which it holds a row, or a run it has read.
LEMMA CallMove ==
    ASSUME TypeOK, Steady, Still, sched' = sched,
           NEW c \in Callers, NEW p \in Labels, NEW l \in Locals, Moves(c, p, l),
           Holds(c, p, l), CallerAt(p), p \notin {"touch", "dispatch", "link"},
           p \in Writers => l.snap.agent \in Namable(c)
    PROVE  TypeOK' /\ Steady'
<1>1. c \in Actors /\ c # Scheduler /\ KeepsRun(c, p, l)
    BY BoundsAssumption DEF Actors, KeepsRun
<1>2. Calm /\ Tables' /\ Shrunk /\ ScanType(sched)'
    BY StillTables, TypeParts DEF Shrunk, ScanType
<1> QED BY <1>1, <1>2, CalmMove

\* What set_scheduled_task_status and update_scheduled_task compute is a row.
LEMMA NextRunTypes ==
    ASSUME now \in Times, NEW s \in Schedules \cup {NoSchedule}, NEW st
    PROVE  /\ TaskNextRunAt(s, st, now) \in Nat \cup {None}
           /\ TaskNextRunAt(s, st, now) # None => st = "enabled"
<1>1. now \in Nat
    BY BoundsAssumption DEF Times
<1>2. NextRunAfter(s, now) \in Nat \cup {None}
    BY <1>1, NextRunLater
<1> QED BY <1>2 DEF TaskNextRunAt

LEMMA SetStatusRow ==
    ASSUME now \in Times, NEW row \in TaskRows, NEW st \in {"enabled", "paused", "archived"}
    PROVE  /\ SetStatus(row, st) \in TaskRows
           /\ SetStatus(row, st).status = st
           /\ SetStatus(row, st).next # None => st = "enabled"
<1>1. row.sched \in Schedules \cup {NoSchedule}
    BY DEF TaskRows
<1>2. PICK n : n = TaskNextRunAt(row.sched, st, now)
    OBVIOUS
<1>3. n \in Nat \cup {None} /\ (n # None => st = "enabled")
    BY <1>1, <1>2, NextRunTypes
<1> QED BY <1>2, <1>3 DEF SetStatus, TaskRows

LEMMA ReviseRow ==
    ASSUME now \in Times, NEW row \in TaskRows, NEW s \in Schedules,
           row.next # None => row.status = "enabled"
    PROVE  /\ Revise(row, s) \in TaskRows
           /\ Revise(row, s).status = row.status
           /\ Revise(row, s).next # None => row.status = "enabled"
<1>1. PICK n : n = TaskNextRunAt(s, row.status, now)
    OBVIOUS
<1>2. n \in Nat \cup {None} /\ (n # None => row.status = "enabled")
    BY <1>1, NextRunTypes
<1>3. PICK m : m = IF row.status # "enabled" THEN None ELSE IF s # row.sched THEN n ELSE row.next
    OBVIOUS
<1>4. m \in Nat \cup {None} /\ (m # None => row.status = "enabled")
    BY <1>2, <1>3 DEF TaskRows
<1>5. Revise(row, s) = [row EXCEPT !.sched = s, !.next = m]
    BY <1>1, <1>3 DEF Revise
<1> QED BY <1>4, <1>5 DEF TaskRows

LEMMA EditReadSteady ==
    ASSUME TypeOK, Steady, NEW c \in Callers, NEW t \in Tasks, EditRead(c, t)
    PROVE  TypeOK' /\ Steady'
<1>1. Still /\ sched' = sched /\ TaskExists(t)
    BY DEF EditRead, Still, history
<1>2. PICK row : Goto(c, "edit", [Idle EXCEPT !.task = t, !.row = row])
                 /\ (\/ \E st \in {"enabled", "paused", "archived"} : row = SetStatus(tasks[t], st)
                     \/ \E s \in Schedules : row = Revise(tasks[t], s))
    BY DEF EditRead
<1>3. tasks[t] \in TaskRows /\ (tasks[t].next # None => tasks[t].status = "enabled") /\ now \in Times
    BY TypeParts DEF Tables
<1>4. row \in TaskRows /\ row.status \notin {"absent", "deleted"}
      /\ (row.next # None => row.status = "enabled")
  <2>1. CASE \E st \in {"enabled", "paused", "archived"} : row = SetStatus(tasks[t], st)
      BY <1>3, <2>1, SetStatusRow
  <2>2. CASE \E s \in Schedules : row = Revise(tasks[t], s)
      BY <1>1, <1>3, <2>2, ReviseRow DEF TaskExists
  <2> QED BY <1>2, <2>1, <2>2
<1>5. PICK l : l = [Idle EXCEPT !.task = t, !.row = row]
    OBVIOUS
<1>6. l \in Locals /\ l.task = t /\ l.row = row
    BY <1>4, <1>5, IdleFacts DEF Idle, Locals
<1>7. Moves(c, "edit", l)
    BY <1>2, <1>5, GotoMoves DEF Reset
<1>8. Holds(c, "edit", l)
    BY <1>1, <1>4, <1>6 DEF Holds, Writers, TaskExists
<1> QED BY <1>1, <1>6, <1>7, <1>8, CallMove DEF Labels, Writers, CallerAt

LEMMA RunNowReadSteady ==
    ASSUME TypeOK, Steady, NEW c \in Callers, NEW t \in Tasks, RunNowRead(c, t)
    PROVE  TypeOK' /\ Steady'
<1>1. Still /\ sched' = sched /\ TaskExists(t)
    BY DEF RunNowRead, Still, history
<1>2. tasks[t] \in TaskRows /\ (tasks[t].next # None => tasks[t].status = "enabled")
    BY TypeParts DEF Tables
<1>3. PICK l : l = [Idle EXCEPT !.task = t, !.row = tasks[t]]
    OBVIOUS
<1>4. l \in Locals /\ l.task = t /\ l.row = tasks[t] /\ l.op = "none"
    BY <1>2, <1>3, IdleFacts DEF Idle, Locals
<1>5. Moves(c, "insert", l)
  <2>1. Goto(c, "insert", l)
      BY <1>3 DEF RunNowRead
  <2> QED BY <2>1, GotoMoves DEF Reset
<1>6. Holds(c, "insert", l)
    BY <1>1, <1>2, <1>4 DEF Holds, Writers, TaskExists
<1> QED BY <1>1, <1>4, <1>5, <1>6, CallMove DEF Labels, Writers, CallerAt

\* A read of a run
LEMMA RunReadSteady ==
    ASSUME TypeOK, Steady, NEW c \in Callers, NEW r \in RunIds, RunExists(r),
           Still, sched' = sched, NEW op \in {"sync", "cancel"},
           Goto(c, "sync", [Idle EXCEPT !.op = op, !.run = r, !.snap = runs[r]])
    PROVE  TypeOK' /\ Steady'
<1>1. runs[r] \in RunRows
    BY TypeParts DEF Tables
<1>2. PICK l : l = [Idle EXCEPT !.op = op, !.run = r, !.snap = runs[r]]
    OBVIOUS
<1>3. l \in Locals /\ l.run = r /\ l.snap = runs[r]
    BY <1>1, <1>2, IdleFacts DEF Idle, Locals
<1>4. Moves(c, "sync", l)
    BY <1>2, GotoMoves DEF Reset
<1>5. Snapshot(r, runs[r])
    BY RowSnapshot DEF RunExists
<1>6. Holds(c, "sync", l)
    BY <1>3, <1>5 DEF Holds
<1>7. l.snap.agent \in Namable(c)
    BY <1>3 DEF Namable, Named
<1>8. "sync" \in Labels /\ CallerAt("sync") /\ "sync" \notin {"touch", "dispatch", "link"}
    BY DEF Labels, Writers, CallerAt
<1> QED BY <1>3, <1>4, <1>6, <1>7, <1>8, CallMove

LEMMA SyncCallSteady ==
    ASSUME TypeOK, Steady, NEW c \in Callers, NEW r \in RunIds, SyncCall(c, r)
    PROVE  TypeOK' /\ Steady'
<1>1. Still /\ sched' = sched /\ RunExists(r)
    BY DEF SyncCall, Still, history
<1> QED BY <1>1, RunReadSteady DEF SyncCall

LEMMA CancelCallSteady ==
    ASSUME TypeOK, Steady, NEW c \in Callers, NEW r \in RunIds, CancelCall(c, r)
    PROVE  TypeOK' /\ Steady'
<1>1. Still /\ sched' = sched /\ RunExists(r)
    BY DEF CancelCall, Still, history
<1> QED BY <1>1, RunReadSteady DEF CancelCall

-----------------------------------------------------------------------------
(* Steps that write a table                                                 *)

\* The statuses of Agent tasks change.
AgentsCalm ==
    /\ UNCHANGED <<tasks, runs>>
    /\ \A x \in AgentIds :
          /\ agents'[x].run = agents[x].run
          /\ agents'[x].status = "absent" <=> agents[x].status = "absent"

LEMMA AgentTables ==
    ASSUME TypeOK, Steady, AgentsCalm
    PROVE  LinkedAgents' /\ LinkedRuns'
<1>1. LinkedAgents'
    BY DEF AgentsCalm, Steady, LinkedAgents
<1>2. \A r \in RunIds : runs[r].agent \in AgentIds \cup {None}
    BY TypeParts DEF Tables, RunRows
<1>3. LinkedRuns'
    BY <1>2 DEF AgentsCalm, Steady, LinkedRuns, RunLinked, TaskExists
<1> QED BY <1>1, <1>3

LEMMA CancelDecideSteady ==
    ASSUME TypeOK, Steady, NEW c \in Callers, CancelDecide(c)
    PROVE  TypeOK' /\ Steady'
<1>1. /\ c \in Actors /\ c # Scheduler /\ pc[c] = "cancel"
      /\ UNCHANGED <<now, tasks, broken, runs, torn, revived>> /\ sched' = sched
    BY BoundsAssumption DEF CancelDecide, history, Actors
<1>2. PICK l \in Locals : l = loc[c]
    BY <1>1, ActorFacts
<1>3. PICK s \in RunRows : s = l.snap
    BY DEF Locals
<1>4. Snapshot(l.run, s)
    BY <1>1, <1>2, <1>3, ActorFacts DEF Holds, Writers
<1>5. PICK m : m = [l EXCEPT !.op = "sync"]
    OBVIOUS
<1>6. m \in Locals /\ m.run = l.run /\ m.snap = s
    BY <1>3, <1>5 DEF Locals
<1>7. s.agent \in Namable(c)
    BY <1>1, <1>2, <1>3, ActorFacts DEF Writers
<1>8. CASE Goto(c, "idle", Idle) /\ UNCHANGED agents
  <2>1. Still /\ Moves(c, "idle", Idle)
      BY <1>1, <1>8, GotoMoves DEF Still, Reset
  <2>2. Holds(c, "idle", Idle) /\ CallerAt("idle")
      BY DEF Holds, Writers, CallerAt
  <2>3. "idle" \in Labels /\ "idle" \notin Writers
      BY DEF Labels, Writers
  <2> QED BY <1>1, <2>1, <2>2, <2>3, IdleFacts, CallMove
<1>9. CASE s.status \notin Terminal /\ s.agent = None /\ Goto(c, "mark_cancelled", m) /\ UNCHANGED agents
  <2>1. Still /\ Moves(c, "mark_cancelled", m)
      BY <1>1, <1>9, GotoMoves DEF Still, Reset
  <2>2. Holds(c, "mark_cancelled", m) /\ CallerAt("mark_cancelled")
      BY <1>4, <1>6, <1>9 DEF Holds, CallerAt
  <2>3. "mark_cancelled" \in Labels /\ m.snap.agent \in Namable(c)
      BY <1>6, <1>7 DEF Labels, Writers
  <2> QED BY <1>1, <1>6, <2>1, <2>2, <2>3, CallMove
<1>10. CASE /\ s.agent # None /\ Goto(c, "sync", m)
            /\ agents' = IF agents[s.agent].status = "queued"
                         THEN [agents EXCEPT ![s.agent].status = "cancelled",
                                             ![s.agent].end = now]
                         ELSE agents
  <2>1. PICK x \in AgentIds : x = s.agent
      BY <1>3, <1>10 DEF RunRows
  <2>2. agents \in [AgentIds -> AgentRows] /\ now \in Times
      BY TypeParts DEF Tables
  <2>3. /\ agents' \in [AgentIds -> AgentRows]
        /\ \A y \in AgentIds : y # x => agents'[y] = agents[y]
        /\ agents'[x].run = agents[x].run
        /\ \/ agents'[x].status = agents[x].status
           \/ agents[x].status = "queued" /\ agents'[x].status = "cancelled"
    <3>1. CASE agents[x].status = "queued"
      <4>1. agents' = [agents EXCEPT ![x].status = "cancelled", ![x].end = now]
          BY <1>10, <2>1, <3>1
      <4>2. /\ \A y \in AgentIds : y # x => agents'[y] = agents[y]
            /\ agents'[x] = [agents[x] EXCEPT !.status = "cancelled", !.end = now]
            /\ agents' = [y \in AgentIds |-> agents'[y]]
          BY <2>2, <4>1
      <4>3. [agents[x] EXCEPT !.status = "cancelled", !.end = now] \in AgentRows
          BY <2>2 DEF AgentRows, AgentTerminal
      <4>4. agents'[x].run = agents[x].run /\ agents'[x].status = "cancelled"
          BY <2>2, <4>2 DEF AgentRows
      <4> QED BY <2>2, <3>1, <4>2, <4>3, <4>4
    <3>2. CASE agents[x].status # "queued"
        BY <1>10, <2>1, <2>2, <3>2
    <3> QED BY <3>1, <3>2
  <2>4. AgentsCalm
      BY <1>1, <2>3 DEF AgentsCalm
  <2>5. Grown
      BY <1>1, <2>3 DEF Grown, AgentLive
  <2>6. Tables'
      BY <1>1, <2>3, TypeParts DEF Tables
  <2>7. Moves(c, "sync", m)
      BY <1>10, GotoMoves DEF Reset
  <2>8. Holds(c, "sync", m)
      BY <1>4, <1>6 DEF Holds
  <2>9. Holds(c, "sync", m)'
      BY <1>6, <2>5, <2>8, HoldsKept
  <2>10. Shrunk /\ ScanType(sched)'
      BY <1>1, TypeParts DEF Shrunk, ScanType
  <2>11. Scanned(sched.todo)' /\ \A r \in DOMAIN sched'.todo : sched'.todo[r].agent \in Namable(c)
      BY <2>5, <2>10, ShrunkScan DEF Steady, Namable
  <2>12. \A r \in RunIds : runs'[r].agent \in Namable(c)
      BY <1>1 DEF Namable, Named
  <2>13. "sync" \in Labels /\ CallerAt("sync") /\ KeepsRun(c, "sync", m) /\ m.snap.agent \in Namable(c)
      BY <1>6, <1>7 DEF Labels, Writers, CallerAt, KeepsRun
  <2> QED BY <1>1, <1>6, <2>4, <2>5, <2>6, <2>7, <2>9, <2>10, <2>11, <2>12, <2>13, AgentTables, SteadyMove
<1> QED BY <1>2, <1>3, <1>5, <1>8, <1>9, <1>10 DEF CancelDecide

\* A request writes the whole row of a task back.
LEMMA UpdateTaskSteady ==
    ASSUME TypeOK, Steady, NEW c \in Callers, NEW row, NEW label \in {"idle", "dispatch"},
           UNCHANGED <<now, broken, runs, agents, torn, revived>>,
           UpdateTask(c, row, label), loc[c].task \in Tasks,
           row \in TaskRows, row.status \notin {"absent", "deleted"},
           row.next # None => row.status = "enabled",
           label = "dispatch" => pc[c] = "touch"
    PROVE  TypeOK' /\ Steady'
<1>1. c \in Actors /\ c # Scheduler
    BY BoundsAssumption DEF Actors
<1>2. PICK t \in Tasks : t = loc[c].task
    OBVIOUS
<1>3. CASE ~TaskExists(t)
  <2>1. Still /\ Abort(c)
      BY <1>2, <1>3 DEF UpdateTask, Still
  <2> QED BY <1>1, <2>1, StillTables, AbortSteady
<1>4. CASE TaskExists(t)
  <2>1. tasks' = [tasks EXCEPT ![t] = row] /\ Goto(c, label, loc[c]) /\ sched' = sched
      BY <1>2, <1>4 DEF UpdateTask
  <2>2. Tables
      BY TypeParts
  <2>3. Tables'
      BY <2>1, <2>2 DEF Tables
  <2>4. Calm
      BY <1>4, <2>1, <2>2 DEF Calm, TasksCalm, TaskExists, Tables
  <2>5. PICK l \in Locals : l = loc[c]
      BY <1>1, ActorFacts
  <2>6. PICK m \in Locals : m = Reset(label, l)
      BY IdleFacts DEF Reset
  <2>7. Moves(c, label, m)
      BY <2>1, <2>5, <2>6, GotoMoves
  <2>8. label \in Labels /\ label # "link" /\ CallerAt(label)
      BY DEF Labels, Writers, CallerAt
  <2>9. Holds(c, label, m) /\ (label \in Writers => m.snap.agent \in Namable(c)) /\ KeepsRun(c, label, m)
    <3>1. CASE label = "idle"
        BY <3>1 DEF Holds, Writers, KeepsRun
    <3>2. CASE label = "dispatch"
      <4>1. m = l /\ pc[c] = "touch" /\ "touch" \in Writers /\ "dispatch" \in Writers
          BY <2>6, <3>2 DEF Reset, Writers
      <4>2. Holds(c, "touch", l) /\ l.snap.agent \in Namable(c)
          BY <1>1, <2>5, <4>1, ActorFacts
      <4>3. Holds(c, "dispatch", l)
          BY <4>1, <4>2 DEF Holds
      <4> QED BY <2>5, <3>2, <4>1, <4>2, <4>3 DEF KeepsRun
    <3> QED BY <3>1, <3>2
  <2>10. Shrunk /\ ScanType(sched)'
      BY <2>1, TypeParts DEF Shrunk, ScanType
  <2> QED BY <1>1, <2>1, <2>3, <2>4, <2>7, <2>8, <2>9, <2>10, CalmMove
<1> QED BY <1>3, <1>4

LEMMA EditWriteSteady ==
    ASSUME TypeOK, Steady, NEW c \in Callers, EditWrite(c)
    PROVE  TypeOK' /\ Steady'
<1>1. c \in Actors /\ pc[c] = "edit" /\ UpdateTask(c, loc[c].row, "idle")
      /\ UNCHANGED <<now, broken, runs, agents, torn, revived>>
    BY DEF EditWrite, Actors
<1>2. loc[c] \in Locals /\ Holds(c, "edit", loc[c])
    BY <1>1, ActorFacts
<1>3. /\ loc[c].task \in Tasks /\ loc[c].row \in TaskRows
      /\ loc[c].row.status \notin {"absent", "deleted"}
      /\ loc[c].row.next # None => loc[c].row.status = "enabled"
    BY <1>2 DEF Holds, Locals
<1> QED BY <1>1, <1>3, UpdateTaskSteady

LEMMA RunNowTouchSteady ==
    ASSUME TypeOK, Steady, NEW c \in Callers, RunNowTouch(c)
    PROVE  TypeOK' /\ Steady'
<1>1. c \in Actors /\ pc[c] = "touch" /\ UpdateTask(c, loc[c].row, "dispatch")
      /\ UNCHANGED <<now, broken, runs, agents, torn, revived>>
    BY DEF RunNowTouch, Actors
<1>2. loc[c] \in Locals /\ Holds(c, "touch", loc[c])
    BY <1>1, ActorFacts
<1>3. /\ loc[c].task \in Tasks /\ loc[c].row \in TaskRows
      /\ loc[c].row.status \notin {"absent", "deleted"}
      /\ loc[c].row.next # None => loc[c].row.status = "enabled"
    BY <1>2 DEF Holds, Locals
<1> QED BY <1>1, <1>3, UpdateTaskSteady

\* update_scheduled_task_run with a row of the run that the actor holds
LEMMA UpdateRunSteady ==
    ASSUME TypeOK, Steady, NEW a \in Actors, pc[a] \in Writers, NEW row \in RunRows,
           Snapshot(loc[a].run, row), row.status # "pending", row.agent \in Namable(a),
           UNCHANGED <<now, tasks, broken, agents, revived>>, torn' \subseteq RunIds,
           UpdateRun(a, row)
    PROVE  TypeOK' /\ Steady'
<1>1. PICK l \in Locals : l = loc[a]
    BY ActorFacts
<1>2. PICK r \in RunIds : r = loc[a].run
    BY DEF Snapshot
<1>3. Tables
    BY TypeParts
<1>4. CASE ~CanWrite(r, row)
  <2>1. runs' = runs /\ Abort(a)
      BY <1>2, <1>4 DEF UpdateRun
  <2>2. Calm
      BY <2>1 DEF Calm, TasksCalm, TaskExists
  <2>3. Tables'
      BY <1>3, <2>1 DEF Tables
  <2> QED BY <2>1, <2>2, <2>3, AbortSteady
<1>5. CASE CanWrite(r, row)
  <2>1. PICK m : m = [l EXCEPT !.snap = row]
      OBVIOUS
  <2>2. m \in Locals /\ m.run = r /\ m.snap = row
      BY <1>1, <1>2, <2>1 DEF Locals
  <2>3. runs' = [runs EXCEPT ![r] = row] /\ Goto(a, Back(a), m) /\ sched' = sched
      BY <1>1, <1>2, <1>5, <2>1 DEF UpdateRun
  <2>4. PICK p : p = Back(a)
      OBVIOUS
  <2>5. PICK n \in Locals : n = Reset(p, m)
      BY <2>2, <2>4, BackPlaced
  <2>6. Moves(a, p, n)
      BY <2>3, <2>4, <2>5, GotoMoves
  <2>7. Snapshot(m.run, m.snap)
      BY <1>2, <2>2
  <2>8. Holds(a, p, n) /\ KeepsRun(a, p, n) /\ p \in Labels /\ p # "link"
        /\ (p \in Writers => n = m)
      BY <2>2, <2>4, <2>5, <2>7, BackPlaced, BackHolds
  <2>9. /\ \A q \in RunIds : q # r => runs'[q] = runs[q]
        /\ runs'[r] = row /\ runs' \in [RunIds -> RunRows]
      BY <1>3, <2>3 DEF Tables
  <2>10. Tables'
      BY <1>3, <2>9 DEF Tables
  <2>11. /\ row.task = runs[r].task /\ row.trigger = runs[r].trigger /\ row.at = runs[r].at
         /\ row.status \notin {"absent", "deleted", "pending"} /\ runs[r].status \notin {"absent", "deleted"}
         /\ row.agent # None => agents[row.agent].run = r
      BY <1>2, <1>5 DEF Snapshot, CanWrite, RunExists
  <2>12. Grown
      BY <2>9, <2>11 DEF Grown
  <2>13. LinkedAgents'
    <3>1. \A q \in RunIds : runs[q].status # "absent" => runs'[q].status # "absent"
        BY <2>12 DEF Grown
    <3>2. \A x \in AgentIds : agents[x].run \in RunIds \cup {None}
        BY <1>3 DEF Tables, AgentRows
    <3> QED BY <3>1, <3>2 DEF Steady, LinkedAgents
  <2>14. LinkedRuns'
    <3>1. ASSUME NEW q \in RunIds, q # r PROVE RunLinked(q)'
      <4>1. runs'[q] = runs[q] /\ RunLinked(q)
          BY <2>9, <3>1 DEF Steady, LinkedRuns
      <4> QED BY <4>1 DEF RunLinked, TaskExists
    <3>2. RunLinked(r)'
      <4>1. row # NoRun
          BY <2>11 DEF NoRun
      <4>2. /\ runs[r].task \in Tasks /\ runs[r].trigger # "none" /\ runs[r].at # None
            /\ tasks[runs[r].task].status # "absent" /\ TaskExists(runs[r].task)
          BY <2>11 DEF Steady, LinkedRuns, RunLinked
      <4> QED BY <2>9, <2>11, <4>1, <4>2 DEF TaskExists, RunLinked
    <3> QED BY <3>1, <3>2 DEF LinkedRuns
  <2>15. Holds(a, p, n)'
      BY <2>8, <2>12, HoldsKept
  <2>16. a \in Callers => CallerAt(p) /\ sched' = sched
      BY <2>2, <2>3, <2>4, BackPlaced
  <2>17. a = Scheduler => LoopAt(p, n, sched')
      BY <2>2, <2>3, <2>4, <2>5, BackPlaced
  <2>18. Shrunk /\ ScanType(sched)'
      BY <2>3, TypeParts DEF Shrunk, ScanType
  <2>19. Scanned(sched.todo)' /\ \A q \in DOMAIN sched'.todo : sched'.todo[q].agent \in Namable(a)
      BY <2>12, <2>18, ShrunkScan DEF Steady, Namable
  <2>20. \A q \in RunIds : runs'[q].agent \in Namable(a)
      BY <2>9 DEF Namable, Named
  <2>21. p \in Writers => n.snap.agent \in Namable(a)
      BY <2>2, <2>8
  <2> QED BY <2>6, <2>8, <2>10, <2>12, <2>13, <2>14, <2>15, <2>16, <2>17, <2>18, <2>19, <2>20, <2>21, SteadyMove
<1> QED BY <1>4, <1>5

\* The row that closes a run
ClosedRow(a, st, done) == [loc[a].snap EXCEPT !.status = st, !.done = done]

LEMMA WrittenRow ==
    ASSUME TypeOK, Steady, NEW a \in Actors, pc[a] \in Writers,
           NEW st \in Terminal, NEW done \in Times,
           NEW row, row = ClosedRow(a, st, done)
    PROVE  /\ row \in RunRows /\ Snapshot(loc[a].run, row)
           /\ row.status = st /\ row.agent = loc[a].snap.agent
<1>1. loc[a].snap \in RunRows /\ Snapshot(loc[a].run, loc[a].snap)
    BY ActorFacts DEF Locals, Holds
<1>2. PICK s \in RunRows : s = loc[a].snap
    BY <1>1
<1>3. row = [s EXCEPT !.status = st, !.done = done]
    BY <1>2 DEF ClosedRow
<1>4. row \in RunRows /\ row.status = st /\ row.agent = s.agent /\ row.task = s.task
      /\ row.trigger = s.trigger /\ row.at = s.at
    BY <1>3 DEF RunRows, ActiveStatuses
<1>5. st \notin {"absent", "deleted", "pending"}
    BY DEF Terminal
<1>6. Snapshot(loc[a].run, row)
    BY <1>1, <1>2, <1>4, <1>5 DEF Snapshot
<1> QED BY <1>2, <1>4, <1>6

LEMMA MarkFailedSteady ==
    ASSUME TypeOK, Steady, NEW a \in Actors, MarkFailed(a)
    PROVE  TypeOK' /\ Steady'
<1>1. PICK row : row = [loc[a].snap EXCEPT !.status = "failed", !.done = now]
    OBVIOUS
<1>2. pc[a] \in Writers /\ UpdateRun(a, row) /\ UNCHANGED <<now, tasks, broken, agents, torn, revived>>
    BY <1>1 DEF MarkFailed, Writers, history
<1>3. now \in Times /\ torn \subseteq RunIds
    BY TypeParts DEF Tables
<1>4. row \in RunRows /\ Snapshot(loc[a].run, row) /\ row.status = "failed" /\ row.agent = loc[a].snap.agent
  <2>1. PICK st \in Terminal : st = "failed"
      BY DEF Terminal
  <2>2. PICK done \in Times : done = now
      BY <1>3
  <2>3. row = ClosedRow(a, st, done)
      BY <1>1, <2>1, <2>2 DEF ClosedRow
  <2>4. row \in RunRows /\ Snapshot(loc[a].run, row) /\ row.status = st /\ row.agent = loc[a].snap.agent
      BY <1>2, <2>3, WrittenRow
  <2> QED BY <2>1, <2>4
<1>5. row.agent \in Namable(a)
    BY <1>2, <1>4, ActorFacts
<1> QED BY <1>2, <1>3, <1>4, <1>5, UpdateRunSteady

LEMMA MarkCancelledSteady ==
    ASSUME TypeOK, Steady, NEW c \in Callers, MarkCancelled(c)
    PROVE  TypeOK' /\ Steady'
<1>1. PICK row : row = [loc[c].snap EXCEPT !.status = "cancelled", !.done = now]
    OBVIOUS
<1>2. c \in Actors /\ pc[c] \in Writers /\ UpdateRun(c, row) /\ UNCHANGED <<now, tasks, broken, agents, revived>>
    BY <1>1 DEF MarkCancelled, Writers, Actors
<1>3. now \in Times /\ torn \subseteq RunIds
    BY TypeParts DEF Tables
<1>4. row \in RunRows /\ Snapshot(loc[c].run, row) /\ row.status = "cancelled" /\ row.agent = loc[c].snap.agent
  <2>1. PICK st \in Terminal : st = "cancelled"
      BY DEF Terminal
  <2>2. PICK done \in Times : done = now
      BY <1>3
  <2>3. row = ClosedRow(c, st, done)
      BY <1>1, <2>1, <2>2 DEF ClosedRow
  <2>4. row \in RunRows /\ Snapshot(loc[c].run, row) /\ row.status = st /\ row.agent = loc[c].snap.agent
      BY <1>2, <2>3, WrittenRow
  <2> QED BY <2>1, <2>4
<1>5. row.agent \in Namable(c)
    BY <1>2, <1>4, ActorFacts
<1>6. torn' \subseteq RunIds
  <2>1. loc[c].run \in RunIds
      BY <1>4 DEF Snapshot
  <2> QED BY <1>3, <2>1 DEF MarkCancelled
<1> QED BY <1>2, <1>4, <1>5, <1>6, UpdateRunSteady

LEMMA SyncWriteSteady ==
    ASSUME TypeOK, Steady, NEW a \in Actors, SyncWrite(a)
    PROVE  TypeOK' /\ Steady'
<1>1. pc[a] = "sync_write" /\ UpdateRun(a, loc[a].snap) /\ UNCHANGED <<now, tasks, broken, agents, torn, revived>>
      /\ torn \subseteq RunIds
    BY TypeParts DEF SyncWrite, history, Tables
<1>2. pc[a] \in Writers
    BY <1>1 DEF Writers
<1>3. loc[a].snap \in RunRows /\ Snapshot(loc[a].run, loc[a].snap) /\ loc[a].snap.status # "pending"
    BY <1>1, <1>2, ActorFacts DEF Locals, Holds
<1>4. loc[a].snap.agent \in Namable(a)
    BY <1>2, ActorFacts
<1> QED BY <1>1, <1>2, <1>3, <1>4, UpdateRunSteady

\* The row that records the dispatch
LEMMA LinkedRow ==
    ASSUME TypeOK, Steady, NEW a \in Actors, pc[a] = "link",
           NEW row, row = [loc[a].snap EXCEPT !.status = "queued", !.done = None, !.agent = loc[a].agent]
    PROVE  /\ row \in RunRows /\ Snapshot(loc[a].run, row)
           /\ row.status = "queued" /\ row.agent = loc[a].agent /\ row.agent \in AgentIds
<1>1. /\ loc[a].snap \in RunRows /\ loc[a].agent \in AgentIds \cup {None}
      /\ Snapshot(loc[a].run, loc[a].snap)
      /\ loc[a].agent # None /\ agents[loc[a].agent].run = loc[a].run
    BY ActorFacts DEF Locals, Holds, Writers
<1>2. PICK s \in RunRows : s = loc[a].snap
    BY <1>1
<1>3. PICK x \in AgentIds : x = loc[a].agent
    BY <1>1
<1>4. row = [s EXCEPT !.status = "queued", !.done = None, !.agent = x]
    BY <1>2, <1>3
<1>5. row \in RunRows /\ row.status = "queued" /\ row.agent = x /\ row.task = s.task
      /\ row.trigger = s.trigger /\ row.at = s.at
    BY <1>4 DEF RunRows, ActiveStatuses
<1>6. Snapshot(loc[a].run, row)
    BY <1>1, <1>2, <1>3, <1>5 DEF Snapshot
<1> QED BY <1>3, <1>5, <1>6

LEMMA LinkRunSteady ==
    ASSUME TypeOK, Steady, NEW a \in Actors, LinkRun(a)
    PROVE  TypeOK' /\ Steady'
<1>1. PICK row : row = [loc[a].snap EXCEPT !.status = "queued", !.done = None, !.agent = loc[a].agent]
    OBVIOUS
<1>2. pc[a] = "link" /\ UpdateRun(a, row) /\ UNCHANGED <<now, tasks, broken, agents, torn, revived>>
      /\ torn \subseteq RunIds /\ pc[a] \in Writers
    BY <1>1, TypeParts DEF LinkRun, history, Tables, Writers
<1>3. /\ row \in RunRows /\ Snapshot(loc[a].run, row)
      /\ row.status = "queued" /\ row.agent = loc[a].agent
    BY <1>1, <1>2, LinkedRow
<1>4. row.agent \in Namable(a)
    BY <1>2, <1>3 DEF Namable
<1> QED BY <1>2, <1>3, <1>4, UpdateRunSteady

\* A new run of a task that exists
NewRow(run) ==
    /\ run \in RunRows /\ run.task \in Tasks /\ run.trigger # "none" /\ run.at # None
    /\ run.status \in {"pending", "skipped"} /\ run.agent = None

Inserts(n, run) ==
    /\ n \in RunIds /\ runs[n].status = "absent"
    /\ NewRow(run) /\ TaskExists(run.task)
    /\ runs' = [runs EXCEPT ![n] = run]
    /\ UNCHANGED <<agents, revived>> /\ TasksCalm

LEMMA InsertTables ==
    ASSUME TypeOK, Steady, NEW n, NEW run, Inserts(n, run)
    PROVE  /\ Grown /\ LinkedAgents' /\ LinkedRuns'
           /\ Snapshot(n, run)'
           /\ runs' \in [RunIds -> RunRows]
           /\ \A r \in RunIds : r # n => runs'[r] = runs[r]
           /\ runs'[n] = run
<1>1. Tables
    BY TypeParts
<1>2. /\ runs' \in [RunIds -> RunRows]
      /\ \A r \in RunIds : r # n => runs'[r] = runs[r]
      /\ runs'[n] = run
    BY <1>1 DEF Inserts, NewRow, Tables
<1>3. Grown
    BY <1>2 DEF Inserts, Grown, TasksCalm
<1>4. LinkedAgents'
  <2>1. \A q \in RunIds : runs[q].status # "absent" => runs'[q].status # "absent"
      BY <1>3 DEF Grown
  <2>2. \A x \in AgentIds : agents[x].run \in RunIds \cup {None}
      BY <1>1 DEF Tables, AgentRows
  <2> QED BY <2>1, <2>2 DEF Steady, LinkedAgents, Inserts
<1>5. ASSUME NEW r \in RunIds, r # n PROVE RunLinked(r)'
  <2>1. runs'[r] = runs[r] /\ RunLinked(r) /\ agents' = agents
      BY <1>2, <1>5 DEF Inserts, Steady, LinkedRuns
  <2>2. PICK t : t = runs[r].task
      OBVIOUS
  <2>3. runs[r].status # "absent" => t \in Tasks /\ tasks[t].status # "absent"
      BY <2>1, <2>2 DEF RunLinked
  <2>4. runs[r].status # "absent" => tasks'[t].status # "absent" /\ (TaskExists(t)' <=> TaskExists(t))
      BY <2>3 DEF Inserts, TasksCalm
  <2> QED BY <2>1, <2>2, <2>4 DEF RunLinked, TaskExists
<1>6. RunLinked(n)'
  <2>1. PICK t : t = run.task
      OBVIOUS
  <2>2. t \in Tasks /\ TaskExists(t) /\ tasks[t].status # "absent"
      BY <2>1 DEF Inserts, NewRow, TaskExists
  <2>3. tasks'[t].status # "absent" /\ TaskExists(t)'
      BY <2>2 DEF Inserts, TasksCalm
  <2>4. run # NoRun /\ run.status # "absent" /\ run.agent = None
      BY DEF Inserts, NewRow, NoRun
  <2> QED BY <1>2, <2>1, <2>2, <2>3, <2>4 DEF Inserts, NewRow, RunLinked, TaskExists
<1>7. LinkedRuns'
    BY <1>5, <1>6 DEF LinkedRuns
<1>8. Snapshot(n, run)'
    BY <1>2 DEF Snapshot, Inserts, NewRow
<1> QED BY <1>2, <1>3, <1>4, <1>7, <1>8

LEMMA RunNowInsertSteady ==
    ASSUME TypeOK, Steady, NEW c \in Callers, RunNowInsert(c)
    PROVE  TypeOK' /\ Steady'
<1>1. /\ c \in Actors /\ c # Scheduler /\ pc[c] = "insert" /\ sched' = sched
      /\ UNCHANGED <<now, tasks, broken, agents, torn, revived>>
    BY BoundsAssumption DEF RunNowInsert, history, Actors
<1>2. PICK l \in Locals : l = loc[c]
    BY <1>1, ActorFacts
<1>3. Holds(c, "insert", l)
    BY <1>1, <1>2, ActorFacts
<1>4. PICK run : run = [task |-> l.task, trigger |-> "manual", status |-> "pending",
                        at |-> now, agent |-> None, done |-> None]
    OBVIOUS
<1>5. Tables
    BY TypeParts
<1>6. CASE Goto(c, "idle", Idle) /\ UNCHANGED runs
  <2>1. Still /\ Moves(c, "idle", Idle)
      BY <1>1, <1>6, GotoMoves DEF Still, Reset
  <2>2. Holds(c, "idle", Idle) /\ CallerAt("idle")
      BY DEF Holds, Writers, CallerAt
  <2>3. "idle" \in Labels /\ "idle" \notin Writers
      BY DEF Labels, Writers
  <2> QED BY <1>1, <2>1, <2>2, <2>3, IdleFacts, CallMove
<1>7. CASE /\ TaskExists(l.task) /\ FreeRuns # {}
           /\ runs' = [runs EXCEPT ![NewRun] = run]
           /\ Goto(c, "touch", [l EXCEPT !.run = NewRun, !.snap = run])
  <2>1. PICK n \in RunIds : n = NewRun /\ runs[n].status = "absent"
      BY <1>7, NewRunFree
  <2>2. NewRow(run) /\ run.task = l.task /\ run.trigger = "manual" /\ run.status = "pending"
    <3>1. l.task \in Tasks
        BY <1>3 DEF Holds
    <3>2. now \in Times /\ now # None
        BY <1>5, BoundsAssumption DEF Tables, Times, None
    <3> QED BY <1>4, <3>1, <3>2 DEF NewRow, RunRows, ActiveStatuses
  <2>3. Inserts(n, run)
      BY <1>1, <1>7, <2>1, <2>2 DEF Inserts, TasksCalm, TaskExists
  <2>4. /\ Grown /\ LinkedAgents' /\ LinkedRuns'
        /\ Snapshot(n, run)'
        /\ runs' \in [RunIds -> RunRows]
        /\ \A r \in RunIds : r # n => runs'[r] = runs[r]
        /\ runs'[n] = run
      BY <2>3, InsertTables
  <2>5. Tables'
      BY <1>1, <1>5, <2>4 DEF Tables
  <2>6. PICK m : m = [l EXCEPT !.run = n, !.snap = run]
      OBVIOUS
  <2>7. m \in Locals /\ m.run = n /\ m.snap = run /\ m.task = l.task /\ m.row = l.row /\ m.op = l.op
      BY <2>2, <2>6 DEF Locals, NewRow
  <2>8. Moves(c, "touch", m)
      BY <1>7, <2>1, <2>6, GotoMoves DEF Reset
  <2>9. Holds(c, "touch", m)'
    <3>1. Holds(c, "insert", l)'
        BY <1>3, <2>4, HoldsKept
    <3> QED BY <1>3, <2>2, <2>4, <2>7, <3>1 DEF Holds, NewRow
  <2>10. \A d \in Callers : pc[d] \in {"touch", "dispatch", "link"} => loc[d].run # n
    <3>1. \A d \in Callers : pc[d] \in Writers => runs[loc[d].run].status # "absent"
        BY DEF Steady, ActorsHold, Actors, Holds, Snapshot
    <3> QED BY <2>1, <3>1 DEF Writers
  <2>11. KeepsRun(c, "touch", m)
      BY <2>7, <2>10 DEF KeepsRun
  <2>12. "touch" \in Labels /\ "touch" # "link" /\ CallerAt("touch")
      BY DEF Labels, Writers, CallerAt
  <2>13. Shrunk /\ ScanType(sched)'
      BY <1>1, TypeParts DEF Shrunk, ScanType
  <2>14. Scanned(sched.todo)' /\ \A r \in DOMAIN sched'.todo : sched'.todo[r].agent \in Namable(c)
      BY <2>4, <2>13, ShrunkScan DEF Steady, Namable
  <2>15. \A r \in RunIds : runs'[r].agent \in Namable(c)
      BY <2>2, <2>4 DEF NewRow, Namable, Named
  <2>16. m.snap.agent \in Namable(c)
      BY <2>2, <2>7 DEF NewRow, Namable
  <2> QED BY <1>1, <2>4, <2>5, <2>7, <2>8, <2>9, <2>11, <2>12, <2>13, <2>14, <2>15, <2>16, SteadyMove
<1> QED BY <1>1, <1>2, <1>4, <1>6, <1>7 DEF RunNowInsert

\* What the claim finds and computes
LEMMA ClaimFacts ==
    ASSUME TypeOK, Steady, pc[Scheduler] = "claim"
    PROVE  /\ loc[Scheduler] \in Locals /\ Scheduler \in Actors
           /\ loc[Scheduler].op \in {"pending", "skipped"}
           /\ loc[Scheduler].task \in Tasks
           /\ sched.phase = "due" /\ sched.at \in Times /\ sched.at \in Nat
           /\ loc[Scheduler].row \in TaskRows
           /\ loc[Scheduler].row.next \in Times /\ loc[Scheduler].row.next # None
           /\ loc[Scheduler].row.next <= sched.at
<1>1. Scheduler \in Actors
    BY DEF Actors
<1>2. /\ loc[Scheduler] \in Locals /\ Holds(Scheduler, "claim", loc[Scheduler])
      /\ LoopAt("claim", loc[Scheduler], sched)
    BY <1>1, ActorFacts
<1>3. sched.phase = "due" /\ sched.at \in Times /\ sched.at \in Nat
    BY <1>2, TypeParts, BoundsAssumption DEF LoopAt, ScanType, Times, None
<1>4. loc[Scheduler].row.next \in Nat \cup {None}
    BY <1>2 DEF Locals, TaskRows
<1>5. loc[Scheduler].row.next # None /\ loc[Scheduler].row.next <= sched.at
    BY <1>2 DEF LoopAt
<1>6. loc[Scheduler].row.next \in Times
    BY <1>3, <1>4, <1>5, BoundsAssumption DEF Times
<1> QED BY <1>1, <1>2, <1>3, <1>5, <1>6 DEF LoopAt, Holds, Locals

\* A claim advances the task and inserts a run.
Claims(n, run, next) ==
    LET l == loc[Scheduler]
    IN  /\ ClaimMatches(l.task, l.row)
        /\ n \in RunIds /\ runs[n].status = "absent"
        /\ run = [task |-> l.task, trigger |-> "scheduled", status |-> l.op,
                  at |-> l.row.next, agent |-> None,
                  done |-> IF l.op = "skipped" THEN sched.at ELSE None]
        /\ next = NextRunAfter(l.row.sched, sched.at)
        /\ tasks' = [tasks EXCEPT ![l.task].next = next,
                       ![l.task].status = IF next = None THEN "completed" ELSE "enabled"]
        /\ runs' = [runs EXCEPT ![n] = run]
        /\ Goto(Scheduler, IF l.op = "pending" THEN "dispatch" ELSE "due",
                [Idle EXCEPT !.task = l.task, !.run = n, !.snap = run])

LEMMA ClaimCases ==
    ASSUME TypeOK, Steady, Claim
    PROVE  /\ pc[Scheduler] = "claim" /\ UNCHANGED <<now, broken, agents, sched, rewound, torn, revived>>
           /\ \/ Goto(Scheduler, "due", Idle) /\ UNCHANGED <<tasks, runs>>
              \/ \E n \in RunIds : \E run, next : Claims(n, run, next)
<1>1. pc[Scheduler] = "claim" /\ UNCHANGED <<now, broken, agents, sched, rewound, torn, revived>>
    BY DEF Claim, history
<1>2. PICK l : l = loc[Scheduler]
    OBVIOUS
<1>3. PICK next : next = NextRunAfter(l.row.sched, sched.at)
    OBVIOUS
<1>4. PICK run : run = [task |-> l.task, trigger |-> "scheduled", status |-> l.op,
                        at |-> l.row.next, agent |-> None,
                        done |-> IF l.op = "skipped" THEN sched.at ELSE None]
    OBVIOUS
<1>5. CASE /\ ClaimMatches(l.task, l.row) /\ FreeRuns # {}
           /\ tasks' = [tasks EXCEPT ![l.task].next = next,
                          ![l.task].status = IF next = None THEN "completed" ELSE "enabled"]
           /\ runs' = [runs EXCEPT ![NewRun] = run]
           /\ Goto(Scheduler, IF l.op = "pending" THEN "dispatch" ELSE "due",
                   [Idle EXCEPT !.task = l.task, !.run = NewRun, !.snap = run])
  <2>1. PICK n \in RunIds : n = NewRun /\ runs[n].status = "absent"
      BY <1>5, NewRunFree
  <2>2. Claims(n, run, next)
      BY <1>2, <1>3, <1>4, <1>5, <2>1 DEF Claims
  <2> QED BY <1>1, <2>2
<1>6. CASE Goto(Scheduler, "due", Idle) /\ UNCHANGED <<tasks, runs>>
    BY <1>1, <1>6
<1> QED BY <1>2, <1>3, <1>4, <1>5, <1>6 DEF Claim

LEMMA ClaimTables ==
    ASSUME TypeOK, Steady, pc[Scheduler] = "claim", UNCHANGED <<now, broken, agents, sched, torn, revived>>,
           NEW n, NEW run, NEW next, Claims(n, run, next)
    PROVE  /\ Inserts(n, run) /\ Tables'
           /\ run.trigger = "scheduled" /\ run.task = loc[Scheduler].task
           /\ run.at = loc[Scheduler].row.next /\ run.status = loc[Scheduler].op
           /\ \A t \in Tasks : t # loc[Scheduler].task => tasks'[t] = tasks[t]
           /\ tasks'[loc[Scheduler].task].next = next
<1>1. PICK l \in Locals : l = loc[Scheduler]
    BY ClaimFacts
<1>2. /\ l.op \in {"pending", "skipped"} /\ l.row \in TaskRows
      /\ sched.at \in Times /\ sched.at \in Nat
      /\ l.row.next \in Times /\ l.row.next # None
    BY <1>1, ClaimFacts
<1>3. PICK t \in Tasks : t = l.task
    BY <1>1, ClaimFacts
<1>4. next \in Nat \cup {None}
  <2>1. l.row.sched \in Schedules \cup {NoSchedule}
      BY <1>2 DEF TaskRows
  <2>2. next = NextRunAfter(l.row.sched, sched.at)
      BY <1>1 DEF Claims
  <2> QED BY <1>2, <2>1, <2>2, NextRunLater
<1>5. tasks \in [Tasks -> TaskRows] /\ \A u \in Tasks : tasks[u].next # None => tasks[u].status = "enabled"
    BY TypeParts DEF Tables
<1>6. PICK st : st = IF next = None THEN "completed" ELSE "enabled"
    OBVIOUS
<1>7. tasks' = [tasks EXCEPT ![t].next = next, ![t].status = st]
    BY <1>1, <1>3, <1>6 DEF Claims
<1>8. PICK row : row = [tasks[t] EXCEPT !.next = next, !.status = st]
    OBVIOUS
<1>9. row \in TaskRows /\ row.next = next /\ row.status = st
    BY <1>4, <1>5, <1>6, <1>8 DEF TaskRows
<1>10. /\ tasks' \in [Tasks -> TaskRows] /\ tasks'[t] = row
       /\ \A u \in Tasks : u # t => tasks'[u] = tasks[u]
    BY <1>5, <1>7, <1>8, <1>9
<1>11. tasks[t].status = "enabled"
    BY <1>1, <1>3 DEF Claims, ClaimMatches
<1>12. TasksCalm
    BY <1>6, <1>9, <1>10, <1>11 DEF TasksCalm, TaskExists
<1>13. run = [task |-> t, trigger |-> "scheduled", status |-> l.op, at |-> l.row.next,
              agent |-> None, done |-> IF l.op = "skipped" THEN sched.at ELSE None]
    BY <1>1, <1>3 DEF Claims
<1>14. NewRow(run) /\ run.trigger = "scheduled" /\ run.task = t /\ run.at = l.row.next /\ run.status = l.op
  <2>1. PICK done : done = IF l.op = "skipped" THEN sched.at ELSE None
      OBVIOUS
  <2>2. done \in Times \cup {None} /\ l.op \in Terminal \cup ActiveStatuses
      BY <1>2, <2>1 DEF Terminal, ActiveStatuses
  <2> QED BY <1>2, <1>13, <2>1, <2>2 DEF NewRow, RunRows
<1>15. Inserts(n, run)
    BY <1>11, <1>12, <1>14 DEF Inserts, Claims, TaskExists
<1>16. Tables'
  <2>1. runs' \in [RunIds -> RunRows]
      BY <1>15, InsertTables
  <2>2. \A u \in Tasks : tasks'[u].next # None => tasks'[u].status = "enabled"
      BY <1>5, <1>6, <1>9, <1>10
  <2>3. now' \in Times /\ agents' \in [AgentIds -> AgentRows] /\ broken' \subseteq Tasks
        /\ torn' \subseteq RunIds /\ revived' \subseteq AgentIds
      BY TypeParts DEF Tables
  <2> QED BY <1>10, <2>1, <2>2, <2>3 DEF Tables
<1> QED BY <1>1, <1>3, <1>9, <1>10, <1>14, <1>15, <1>16

LEMMA ClaimSteady ==
    ASSUME TypeOK, Steady, Claim
    PROVE  TypeOK' /\ Steady'
<1>1. /\ pc[Scheduler] = "claim" /\ UNCHANGED <<now, broken, agents, torn, revived>>
      /\ sched' = sched /\ Scheduler \in Actors /\ Scheduler \notin Callers
    BY ClaimCases, BoundsAssumption DEF Actors
<1>2. PICK l \in Locals : l = loc[Scheduler]
    BY <1>1, ActorFacts
<1>3. LoopAt("claim", l, sched)
    BY <1>1, <1>2, ActorFacts
<1>4. Shrunk /\ ScanType(sched)'
    BY <1>1, TypeParts DEF Shrunk, ScanType
<1>5. CASE Goto(Scheduler, "due", Idle) /\ UNCHANGED <<tasks, runs>>
  <2>1. Still /\ Moves(Scheduler, "due", Idle)
      BY <1>1, <1>5, GotoMoves DEF Still, Reset
  <2>2. Holds(Scheduler, "due", Idle) /\ "due" \in Labels /\ "due" \notin Writers /\ "due" # "link"
      BY DEF Holds, Labels, Writers
  <2>3. LoopAt("due", Idle, sched')
      BY <1>1, <1>3 DEF LoopAt, Writers
  <2> QED BY <1>4, <2>1, <2>2, <2>3, IdleFacts, StillTables, LoopMove
<1>6. ASSUME NEW n \in RunIds, NEW run, NEW next, Claims(n, run, next)
      PROVE  TypeOK' /\ Steady'
  <2>1. Inserts(n, run) /\ Tables' /\ run.status = l.op
      BY <1>1, <1>2, <1>6, ClaimTables
  <2>2. /\ Grown /\ LinkedAgents' /\ LinkedRuns' /\ Snapshot(n, run)'
        /\ \A r \in RunIds : r # n => runs'[r] = runs[r]
        /\ runs'[n] = run
      BY <2>1, InsertTables
  <2>3. run \in RunRows /\ run.task \in Tasks /\ run.agent = None
      BY <2>1 DEF Inserts, NewRow
  <2>4. PICK p : p = IF l.op = "pending" THEN "dispatch" ELSE "due"
      OBVIOUS
  <2>5. PICK k : k = [Idle EXCEPT !.task = l.task, !.run = n, !.snap = run]
      OBVIOUS
  <2>6. l.task \in Tasks
      BY <1>1, <1>2, ClaimFacts
  <2>7. k \in Locals /\ k.run = n /\ k.snap = run /\ k.op = "none"
      BY <2>3, <2>5, <2>6, IdleFacts DEF Idle, Locals
  <2>8. PICK m : m = Reset(p, k)
      OBVIOUS
  <2>9. m \in Locals /\ (p = "dispatch" => m = k)
      BY <2>4, <2>7, <2>8, IdleFacts DEF Reset
  <2>10. Moves(Scheduler, p, m)
    <3>1. Goto(Scheduler, p, k)
        BY <1>2, <1>6, <2>4, <2>5 DEF Claims
    <3> QED BY <2>8, <3>1, GotoMoves
  <2>11. p \in Labels /\ p # "link" /\ KeepsRun(Scheduler, p, m) /\ (p \in Writers => p = "dispatch")
      BY <1>1, <2>4 DEF Labels, Writers, KeepsRun
  <2>12. Holds(Scheduler, p, m)'
    <3>1. CASE p = "dispatch"
      <4>1. Snapshot(m.run, m.snap)' /\ m.snap.status = "pending" /\ m.op = "none"
          BY <2>1, <2>2, <2>4, <2>7, <2>9, <3>1
      <4> QED BY <3>1, <4>1 DEF Holds
    <3>2. CASE p = "due"
        BY <3>2 DEF Holds, Writers
    <3> QED BY <2>4, <3>1, <3>2
  <2>13. LoopAt(p, m, sched')
    <3>1. DOMAIN sched.todo = {} /\ sched.phase = "due" /\ sched.at # None
        BY <1>3 DEF LoopAt
    <3> QED BY <1>1, <2>4, <3>1 DEF LoopAt, Writers
  <2>14. Scanned(sched.todo)' /\ \A r \in DOMAIN sched'.todo : sched'.todo[r].agent \in Namable(Scheduler)
      BY <1>4, <2>2, ShrunkScan DEF Steady, Namable
  <2>15. \A r \in RunIds : runs'[r].agent \in Namable(Scheduler)
      BY <2>2, <2>3 DEF Namable, Named
  <2>16. p \in Writers => m.snap.agent \in Namable(Scheduler)
      BY <2>3, <2>7, <2>9, <2>11 DEF Namable
  <2> QED BY <1>1, <1>4, <2>1, <2>2, <2>9, <2>10, <2>11, <2>12, <2>13, <2>14, <2>15, <2>16, SteadyMove
<1> QED BY <1>5, <1>6, ClaimCases

\* Rows of runs are marked as deleted.
Deletes(R) ==
    /\ R \subseteq RunIds
    /\ runs' = [r \in RunIds |-> IF r \in R THEN [runs[r] EXCEPT !.status = "deleted"] ELSE runs[r]]
    /\ UNCHANGED <<agents, revived>>
    /\ \A t \in Tasks : tasks[t].status # "absent" => tasks'[t].status # "absent"
    /\ \A r \in RunIds \ R : runs[r].status # "absent" /\ TaskExists(runs[r].task) => tasks' [runs[r].task] = tasks[runs[r].task]
    /\ \A r \in R : runs[r].status # "absent"

LEMMA DeleteTables ==
    ASSUME TypeOK, Steady, NEW R, Deletes(R)
    PROVE  /\ Grown /\ LinkedAgents' /\ LinkedRuns'
           /\ runs' \in [RunIds -> RunRows]
           /\ \A r \in R : runs'[r].status = "deleted"
           /\ \A r \in RunIds : r \notin R => runs'[r] = runs[r]
           /\ \A r \in RunIds : runs'[r].agent = runs[r].agent /\ runs'[r].task = runs[r].task
<1>1. Tables
    BY TypeParts
<1>2. ASSUME NEW r \in RunIds
      PROVE  /\ runs'[r] \in RunRows
             /\ r \in R => runs'[r].status = "deleted"
             /\ r \notin R => runs'[r] = runs[r]
             /\ runs'[r].agent = runs[r].agent /\ runs'[r].task = runs[r].task
             /\ runs'[r].trigger = runs[r].trigger /\ runs'[r].at = runs[r].at
  <2>1. PICK s \in RunRows : s = runs[r]
      BY <1>1 DEF Tables
  <2>2. runs'[r] = IF r \in R THEN [s EXCEPT !.status = "deleted"] ELSE s
      BY <2>1 DEF Deletes
  <2>3. [s EXCEPT !.status = "deleted"] \in RunRows
      BY DEF RunRows
  <2> QED BY <2>1, <2>2, <2>3 DEF RunRows
<1>3. runs' \in [RunIds -> RunRows]
    BY <1>2 DEF Deletes
<1>4. Grown
    BY <1>2 DEF Grown, Deletes
<1>5. LinkedAgents'
  <2>1. \A q \in RunIds : runs[q].status # "absent" => runs'[q].status # "absent"
      BY <1>4 DEF Grown
  <2>2. \A x \in AgentIds : agents[x].run \in RunIds \cup {None}
      BY <1>1 DEF Tables, AgentRows
  <2> QED BY <2>1, <2>2 DEF Steady, LinkedAgents, Deletes
<1>6. ASSUME NEW r \in RunIds PROVE RunLinked(r)'
  <2>1. RunLinked(r) /\ agents' = agents
      BY DEF Steady, LinkedRuns, Deletes
  <2>2. PICK t : t = runs[r].task
      OBVIOUS
  <2>3. CASE r \in R
    <3>1. runs[r].status # "absent" /\ runs'[r].status = "deleted" /\ runs'[r] # NoRun
        BY <1>2, <2>3 DEF Deletes, NoRun
    <3>2. t \in Tasks /\ tasks[t].status # "absent"
        BY <2>1, <2>2, <3>1 DEF RunLinked
    <3>3. tasks'[t].status # "absent"
        BY <3>2 DEF Deletes
    <3> QED BY <1>2, <2>1, <2>2, <3>1, <3>3 DEF RunLinked
  <2>4. CASE r \notin R /\ runs[r].status # "absent"
    <3>1. t \in Tasks /\ tasks[t].status # "absent" /\ (~TaskExists(t) => runs[r].status = "deleted")
        BY <2>1, <2>2, <2>4 DEF RunLinked
    <3>2. tasks'[t].status # "absent" /\ (TaskExists(t) => tasks'[t] = tasks[t])
        BY <2>2, <2>4, <3>1 DEF Deletes
    <3>3. ~TaskExists(t)' => runs[r].status = "deleted"
        BY <3>1, <3>2 DEF TaskExists
    <3> QED BY <1>2, <2>1, <2>2, <2>4, <3>1, <3>2, <3>3 DEF RunLinked, TaskExists
  <2>5. CASE r \notin R /\ runs[r].status = "absent"
      BY <1>2, <2>1, <2>5 DEF RunLinked
  <2> QED BY <2>3, <2>4, <2>5
<1>7. LinkedRuns'
    BY <1>6 DEF LinkedRuns
<1> QED BY <1>2, <1>3, <1>4, <1>5, <1>7 DEF Deletes

LEMMA ReconcileDoneSteady ==
    ASSUME TypeOK, Steady, ReconcileDone
    PROVE  TypeOK' /\ Steady'
<1>1. /\ pc[Scheduler] = "reconcile" /\ Scheduler \in Actors /\ Scheduler \notin Callers
      /\ UNCHANGED <<now, tasks, broken, agents, loc, torn, revived>>
    BY BoundsAssumption DEF ReconcileDone, history, Actors
<1>2. Tables
    BY TypeParts
<1>3. PICK R : R = {r \in RunIds : Expired(r)}
    OBVIOUS
<1>4. Deletes(R)
  <2>1. runs' = [r \in RunIds |-> IF r \in R THEN [runs[r] EXCEPT !.status = "deleted"] ELSE runs[r]]
      BY <1>3 DEF ReconcileDone
  <2>2. \A r \in R : runs[r].status # "absent"
      BY <1>3 DEF Expired, Terminal
  <2> QED BY <1>1, <1>3, <2>1, <2>2 DEF Deletes
<1>5. /\ Grown /\ LinkedAgents' /\ LinkedRuns'
      /\ runs' \in [RunIds -> RunRows]
      /\ \A r \in RunIds : runs'[r].agent = runs[r].agent
    BY <1>4, DeleteTables
<1>6. Tables'
    BY <1>1, <1>2, <1>5 DEF Tables
<1>7. PICK l \in Locals : l = loc[Scheduler]
    BY <1>1, ActorFacts
<1>8. Moves(Scheduler, "due", l)
    BY <1>1, <1>7, TypeParts DEF ReconcileDone, Moves, ActorTypes
<1>9. sched'.phase = "due" /\ sched'.at = now /\ sched'.left = ScanLimit /\ sched'.todo = <<>>
      /\ DOMAIN sched'.todo = {}
    BY IdleFacts DEF ReconcileDone, NoScan
<1>10. now \in Times /\ now # None
    BY <1>2, BoundsAssumption DEF Tables, Times, None
<1>11. ScanType(sched)'
  <2>1. sched'.todo \in [{} -> RunRows]
      BY <1>9, NoScanType, IdleFacts DEF ScanType
  <2> QED BY <1>9, <1>10, <2>1, BoundsAssumption DEF ScanType
<1>12. Holds(Scheduler, "due", l)' /\ "due" \in Labels /\ "due" # "link" /\ "due" \notin Writers
       /\ KeepsRun(Scheduler, "due", l)
    BY DEF Holds, Labels, Writers, KeepsRun
<1>13. LoopAt("due", l, sched')
    BY <1>9, <1>10 DEF LoopAt, Writers
<1>14. Scanned(sched.todo)' /\ \A r \in DOMAIN sched'.todo : sched'.todo[r].agent \in Namable(Scheduler)
    BY <1>9 DEF Scanned
<1>15. \A r \in RunIds : runs'[r].agent \in Namable(Scheduler)
    BY <1>5 DEF Namable, Named
<1> QED BY <1>1, <1>5, <1>6, <1>8, <1>11, <1>12, <1>13, <1>14, <1>15, SteadyMove

\* Nobody moves, and the tables grow.
LEMMA SteadyStays ==
    ASSUME TypeOK, Steady, Grown, Tables', LinkedAgents', LinkedRuns', UNCHANGED <<pc, loc, sched>>,
           \A r \in RunIds : runs'[r].agent \in Named \cup {None}
    PROVE  TypeOK' /\ Steady'
<1>1. pc' = pc /\ loc' = loc /\ sched' = sched
    OBVIOUS
<1>2. ActorTypes /\ ActorTypes' /\ ScanType(sched) /\ ScanType(sched)'
    BY <1>1, TypeParts DEF ActorTypes, ScanType
<1>3. ActorsHold'
  <2> SUFFICES ASSUME NEW b \in Actors PROVE Holds(b, pc[b], loc[b])'
      BY DEF ActorsHold
  <2>1. PICK p, l : p = pc[b] /\ l = loc[b]
      OBVIOUS
  <2>2. Holds(b, p, l)'
      BY <1>2, <2>1, HoldsKept DEF Steady, ActorsHold, ActorTypes
  <2> QED BY <1>1, <2>1, <2>2 DEF Holds, Snapshot
<1>4. CallersPlaced' /\ LoopPlaced' /\ OwnRun'
    BY <1>1 DEF Steady, CallersPlaced, LoopPlaced, LoopAt, OwnRun
<1>5. Shrunk
    BY <1>1 DEF Shrunk
<1>6. Scanned(sched.todo)'
    BY <1>5, ShrunkScan DEF Steady
<1>7. Named' \subseteq Named \cup {None}
    BY <1>1 DEF Named
<1>8. \A a \in Actors : pc[a] = "link" => loc[a].agent # None
    BY DEF Steady, ActorsHold, Holds
<1>9. Unnamed'
    BY <1>1, <1>7, <1>8 DEF Steady, Unnamed
<1> QED BY <1>2, <1>3, <1>4, <1>6, <1>9, TypeFromParts DEF Steady

LEMMA DeleteTaskSteady ==
    ASSUME TypeOK, Steady, NEW t \in Tasks, DeleteTask(t)
    PROVE  TypeOK' /\ Steady'
<1>1. TaskExists(t) /\ UNCHANGED <<now, broken, agents, torn, revived>> /\ UNCHANGED <<pc, loc, sched>>
    BY DEF DeleteTask, history
<1>2. Tables
    BY TypeParts
<1>3. PICK gone : gone = [NoTask EXCEPT !.status = "deleted"]
    OBVIOUS
<1>4. gone \in TaskRows /\ gone.status = "deleted" /\ gone.next = None
    BY <1>3 DEF NoTask, TaskRows
<1>5. tasks' = [tasks EXCEPT ![t] = gone]
    BY <1>3 DEF DeleteTask
<1>6. PICK R : R = {r \in RunIds : runs[r].task = t}
    OBVIOUS
<1>7. Deletes(R)
  <2>1. runs' = [r \in RunIds |-> IF r \in R THEN [runs[r] EXCEPT !.status = "deleted"] ELSE runs[r]]
      BY <1>6 DEF DeleteTask
  <2>2. ASSUME NEW r \in R PROVE runs[r].status # "absent"
    <3>1. runs[r].status = "absent" => runs[r] = NoRun
        BY <1>6 DEF Steady, LinkedRuns, RunLinked
    <3>2. runs[r].task # None
        BY <1>6, TasksAssumption
    <3> QED BY <3>1, <3>2 DEF NoRun
  <2>3. \A u \in Tasks : u # t => tasks'[u] = tasks[u]
      BY <1>2, <1>5 DEF Tables
  <2>4. tasks'[t].status = "deleted"
      BY <1>2, <1>4, <1>5 DEF Tables
  <2>5. \A r \in RunIds \ R : runs[r].status # "absent" => runs[r].task \in Tasks
      BY DEF Steady, LinkedRuns, RunLinked
  <2> QED BY <1>1, <1>6, <2>1, <2>2, <2>3, <2>4, <2>5 DEF Deletes
<1>8. /\ Grown /\ LinkedAgents' /\ LinkedRuns'
      /\ runs' \in [RunIds -> RunRows]
      /\ \A r \in RunIds : runs'[r].agent = runs[r].agent
    BY <1>7, DeleteTables
<1>9. Tables'
    BY <1>1, <1>2, <1>4, <1>5, <1>8 DEF Tables
<1>10. \A r \in RunIds : runs'[r].agent \in Named \cup {None}
    BY <1>8 DEF Named
<1> QED BY <1>1, <1>8, <1>9, <1>10, SteadyStays

\* A change of the tables that the rows of runs do not see
LEMMA CalmStays ==
    ASSUME TypeOK, Steady, Calm, Tables', UNCHANGED <<pc, loc, sched>>
    PROVE  TypeOK' /\ Steady'
<1>1. Grown /\ LinkedAgents' /\ LinkedRuns'
    BY CalmTables
<1>2. \A r \in RunIds : runs'[r].agent \in Named \cup {None}
    BY DEF Calm, Named
<1> QED BY <1>1, <1>2, SteadyStays

LEMMA CreateTaskSteady ==
    ASSUME TypeOK, Steady, NEW t \in Tasks, NEW s \in Schedules, NEW st \in {"enabled", "paused"},
           CreateTask(t, s, st)
    PROVE  TypeOK' /\ Steady'
<1>1. /\ tasks[t].status = "absent" /\ UNCHANGED <<now, broken, runs, agents, torn, revived>>
      /\ UNCHANGED <<pc, loc, sched>>
    BY DEF CreateTask, history
<1>2. Tables
    BY TypeParts
<1>3. PICK n : n = TaskNextRunAt(s, st, now)
    OBVIOUS
<1>4. n \in Nat \cup {None} /\ (n # None => st = "enabled")
    BY <1>2, <1>3, NextRunTypes DEF Tables
<1>5. PICK row : row = [status |-> st, sched |-> s, next |-> n]
    OBVIOUS
<1>6. row \in TaskRows /\ row.status = st /\ row.next = n
    BY <1>4, <1>5 DEF TaskRows
<1>7. tasks' = [tasks EXCEPT ![t] = row]
    BY <1>3, <1>5 DEF CreateTask
<1>8. Tables'
    BY <1>1, <1>2, <1>4, <1>6, <1>7 DEF Tables
<1>9. Calm
    BY <1>1, <1>2, <1>7 DEF Calm, TasksCalm, TaskExists, Tables
<1> QED BY <1>1, <1>8, <1>9, CalmStays

LEMMA RemoveDefinitionSteady ==
    ASSUME TypeOK, Steady, NEW t \in Tasks, RemoveDefinition(t)
    PROVE  TypeOK' /\ Steady'
<1>1. /\ broken' = broken \cup {t} /\ UNCHANGED <<now, tasks, runs, agents, torn, revived>>
      /\ UNCHANGED <<pc, loc, sched>>
    BY DEF RemoveDefinition, history
<1>2. Calm /\ Tables'
    BY <1>1, TypeParts DEF Calm, TasksCalm, TaskExists, Tables
<1> QED BY <1>1, <1>2, CalmStays

LEMMA TickSteady ==
    ASSUME TypeOK, Steady, Tick
    PROVE  TypeOK' /\ Steady'
<1>1. /\ now' \in Instants /\ UNCHANGED <<tasks, broken, runs, agents, torn, revived>>
      /\ UNCHANGED <<pc, loc, sched>>
    BY DEF Tick, history
<1>2. Calm /\ Tables'
    BY <1>1, TypeParts, BoundsAssumption DEF Calm, TasksCalm, TaskExists, Tables, Times
<1> QED BY <1>1, <1>2, CalmStays

LEMMA AgentMoveSteady ==
    ASSUME TypeOK, Steady, NEW x \in AgentIds, AgentMove(x)
    PROVE  TypeOK' /\ Steady'
<1>1. Tables
    BY TypeParts
<1>2. PICK m \in AgentMoves :
         /\ agents[x].status = m[1]
         /\ agents' = [agents EXCEPT ![x].status = m[2],
                          ![x].end = IF m[2] \in AgentTerminal THEN now ELSE None]
    BY DEF AgentMove
<1>3. m[1] \in AgentLive \cup AgentTerminal /\ m[2] \in AgentLive \cup AgentTerminal
    BY MovesAssumption
<1>4. PICK st, end : st = m[2] /\ end = IF m[2] \in AgentTerminal THEN now ELSE None
    OBVIOUS
<1>5. PICK row : row = [agents[x] EXCEPT !.status = st, !.end = end]
    OBVIOUS
<1>6. row \in AgentRows /\ row.run = agents[x].run /\ row.status = st
    BY <1>1, <1>3, <1>4, <1>5 DEF AgentRows, Tables
<1>7. /\ agents' \in [AgentIds -> AgentRows] /\ agents'[x] = row
      /\ \A y \in AgentIds : y # x => agents'[y] = agents[y]
  <2>1. agents' = [agents EXCEPT ![x].status = st, ![x].end = end]
      BY <1>2, <1>4
  <2> QED BY <1>1, <1>5, <1>6, <2>1 DEF Tables
<1>8. /\ UNCHANGED <<now, tasks, broken, runs, torn>> /\ UNCHANGED <<pc, loc, sched>>
      /\ revived' = IF agents[x].status \in AgentTerminal THEN revived \cup {x} ELSE revived
    BY DEF AgentMove
<1>9. AgentsCalm
    BY <1>2, <1>3, <1>4, <1>6, <1>7, <1>8 DEF AgentsCalm, AgentLive, AgentTerminal
<1>10. Tables'
    BY <1>1, <1>7, <1>8 DEF Tables
<1>11. Grown
  <2>1. agents[x].status # "gone"
      BY <1>2, <1>3 DEF AgentLive, AgentTerminal
  <2>2. agents[x].status \notin AgentLive \/ x \in revived => x \in revived'
      BY <1>2, <1>3, <1>8
  <2> QED BY <1>6, <1>7, <1>8, <2>1, <2>2 DEF Grown
<1>12. \A r \in RunIds : runs'[r].agent \in Named \cup {None}
    BY <1>8 DEF Named
<1> QED BY <1>8, <1>9, <1>10, <1>11, <1>12, AgentTables, SteadyStays

\* What a deleted chat does to the tables
LEMMA DeletedChat ==
    ASSUME TypeOK, Steady, NEW x \in AgentIds, DeleteChat(x)
    PROVE  /\ UNCHANGED <<now, tasks, broken, torn, revived, pc, loc, sched>>
           /\ AgentExists(x)
           /\ agents' \in [AgentIds -> AgentRows] /\ runs' \in [RunIds -> RunRows]
           /\ agents'[x].run = agents[x].run /\ agents'[x].status = "gone"
           /\ \A y \in AgentIds : y # x => agents'[y] = agents[y]
           /\ \A r \in RunIds : runs[r].agent # x => runs'[r] = runs[r]
           /\ \A r \in RunIds : runs[r].agent = x => runs'[r].agent = None
           /\ \A r \in RunIds : runs'[r].task = runs[r].task /\ runs'[r].trigger = runs[r].trigger
                                /\ runs'[r].at = runs[r].at /\ runs'[r].status = runs[r].status
<1>1. Tables
    BY TypeParts
<1>2. UNCHANGED <<now, tasks, broken, torn, revived, pc, loc, sched>> /\ AgentExists(x)
    BY DEF DeleteChat, history
<1>3. agents' = [agents EXCEPT ![x].status = "gone"]
    BY DEF DeleteChat
<1>4. agents' \in [AgentIds -> AgentRows] /\ agents'[x].run = agents[x].run /\ agents'[x].status = "gone"
      /\ \A y \in AgentIds : y # x => agents'[y] = agents[y]
  <2>1. PICK row : row = [agents[x] EXCEPT !.status = "gone"]
      OBVIOUS
  <2>2. row \in AgentRows /\ row.run = agents[x].run /\ row.status = "gone"
      BY <1>1, <2>1 DEF Tables, AgentRows
  <2> QED BY <1>1, <1>3, <2>1, <2>2 DEF Tables
<1>5. ASSUME NEW r \in RunIds
      PROVE  /\ runs'[r] \in RunRows
             /\ runs[r].agent # x => runs'[r] = runs[r]
             /\ runs[r].agent = x => runs'[r].agent = None
             /\ runs'[r].task = runs[r].task /\ runs'[r].trigger = runs[r].trigger
             /\ runs'[r].at = runs[r].at /\ runs'[r].status = runs[r].status
  <2>1. PICK s \in RunRows : s = runs[r]
      BY <1>1 DEF Tables
  <2>2. runs'[r] = IF s.agent = x THEN [s EXCEPT !.agent = None] ELSE s
      BY <2>1 DEF DeleteChat
  <2>3. [s EXCEPT !.agent = None] \in RunRows
      BY DEF RunRows
  <2> QED BY <2>1, <2>2, <2>3 DEF RunRows
<1>6. runs' \in [RunIds -> RunRows]
    BY <1>5 DEF DeleteChat
<1> QED BY <1>2, <1>4, <1>5, <1>6

LEMMA DeleteChatSteady ==
    ASSUME TypeOK, Steady, NEW x \in AgentIds, DeleteChat(x)
    PROVE  TypeOK' /\ Steady'
<1> DEFINE D == /\ UNCHANGED <<now, tasks, broken, torn, revived, pc, loc, sched>>
                /\ AgentExists(x)
                /\ agents' \in [AgentIds -> AgentRows] /\ runs' \in [RunIds -> RunRows]
                /\ agents'[x].run = agents[x].run /\ agents'[x].status = "gone"
                /\ \A y \in AgentIds : y # x => agents'[y] = agents[y]
                /\ \A r \in RunIds : runs[r].agent # x => runs'[r] = runs[r]
                /\ \A r \in RunIds : runs[r].agent = x => runs'[r].agent = None
                /\ \A r \in RunIds : runs'[r].task = runs[r].task /\ runs'[r].trigger = runs[r].trigger
                                     /\ runs'[r].at = runs[r].at /\ runs'[r].status = runs[r].status
<1>1. D
    BY DeletedChat
<1>2. Tables'
    BY <1>1, TypeParts DEF Tables
<1>3. Grown
    BY <1>1 DEF Grown, AgentLive
<1>4. \A r \in RunIds : runs[r].agent \in AgentIds \cup {None} /\ None # x
    BY TypeParts DEF Tables, RunRows, AgentIds, None
<1>5. \A y \in AgentIds : agents'[y].run = agents[y].run
                          /\ (agents'[y].status = "absent" <=> agents[y].status = "absent")
    BY <1>1 DEF AgentExists
<1>6. LinkedAgents'
  <2>1. \A y \in AgentIds : agents[y].run \in RunIds \cup {None}
      BY TypeParts DEF Tables, AgentRows
  <2> QED BY <1>1, <1>5, <2>1 DEF Steady, LinkedAgents
<1>7. LinkedRuns'
  <2> SUFFICES ASSUME NEW r \in RunIds PROVE RunLinked(r)'
      BY DEF LinkedRuns
  <2>1. RunLinked(r)
      BY DEF Steady, LinkedRuns
  <2>2. CASE runs[r].agent # x
    <3>1. runs'[r] = runs[r]
        BY <1>1, <2>2
    <3> QED BY <1>1, <1>4, <1>5, <2>1, <3>1 DEF RunLinked, TaskExists
  <2>3. CASE runs[r].agent = x
    <3>1. runs[r].status # "absent"
        BY <1>4, <2>1, <2>3 DEF RunLinked, NoRun
    <3>2. runs'[r].agent = None /\ runs'[r].status = runs[r].status /\ runs'[r] # NoRun
        BY <1>1, <2>3, <3>1 DEF NoRun
    <3> QED BY <1>1, <2>1, <3>1, <3>2 DEF RunLinked, TaskExists
  <2> QED BY <2>2, <2>3
<1>8. \A r \in RunIds : runs'[r].agent \in Named \cup {None}
    BY <1>1 DEF Named
<1> QED BY <1>1, <1>2, <1>3, <1>6, <1>7, <1>8, SteadyStays

\* What queueing a message does
Queues(a, x, r) ==
    /\ pc[a] = "dispatch" /\ loc[a].run = r
    /\ x \in AgentIds /\ agents[x].status = "absent"
    /\ agents' = [agents EXCEPT ![x] = [run |-> r, status |-> "queued", end |-> None]]
    /\ Moves(a, "link", [loc[a] EXCEPT !.agent = x])
    /\ UNCHANGED <<now, tasks, broken, runs, sched, rewound, torn, revived>>

LEMMA MessageQueued ==
    ASSUME TypeOK, Steady, NEW a \in Actors, QueueMessage(a)
    PROVE  \E x \in AgentIds, r \in RunIds : Queues(a, x, r)
<1>1. pc[a] = "dispatch" /\ FreeAgents # {}
    BY DEF QueueMessage
<1>2. PICK x \in AgentIds : x = NewAgent /\ agents[x].status = "absent"
    BY <1>1, NewAgentFree
<1>3. PICK r \in RunIds : r = loc[a].run
    BY <1>1, ActorFacts DEF Holds, Snapshot, Writers
<1>4. Goto(a, "link", [loc[a] EXCEPT !.agent = x])
    BY <1>2 DEF QueueMessage
<1>5. Moves(a, "link", [loc[a] EXCEPT !.agent = x])
    BY <1>4 DEF Goto, Moves
<1> QED BY <1>1, <1>2, <1>3, <1>5 DEF QueueMessage, Queues, history

LEMMA NamedKnown ==
    ASSUME TypeOK, Steady, NEW y \in Named
    PROVE  y = None \/ (y \in AgentIds /\ agents[y].run # None)
<1>0. None \notin RunIds
    BY DEF RunIds, None
<1>1. CASE \E r \in RunIds : y = runs[r].agent
    BY <1>0, <1>1, TypeParts DEF Steady, LinkedRuns, RunLinked, Tables, RunRows
<1>2. CASE \E r \in DOMAIN sched.todo : y = sched.todo[r].agent
  <2>1. PICK r \in DOMAIN sched.todo : y = sched.todo[r].agent
      BY <1>2
  <2>2. PICK s \in RunRows : s = sched.todo[r]
      BY TypeParts DEF ScanType
  <2>3. Snapshot(r, s)
      BY <2>2 DEF Steady, Scanned
  <2> QED BY <1>0, <2>1, <2>2, <2>3 DEF Snapshot, RunRows
<1>3. CASE \E b \in Actors : pc[b] \in Writers /\ y = loc[b].snap.agent
  <2>1. PICK b \in Actors : pc[b] \in Writers /\ y = loc[b].snap.agent
      BY <1>3
  <2>2. PICK s \in RunRows : s = loc[b].snap
      BY ActorFacts DEF Locals
  <2>3. Snapshot(loc[b].run, s)
      BY <2>1, <2>2, ActorFacts DEF Holds
  <2> QED BY <1>0, <2>1, <2>2, <2>3 DEF Snapshot, RunRows
<1> QED BY <1>1, <1>2, <1>3 DEF Named

\* A message is queued: the rows of the agents grow by one.
LEMMA QueuedTables ==
    ASSUME TypeOK, Steady, NEW a \in Actors, NEW x, NEW r \in RunIds, Queues(a, x, r)
    PROVE  /\ agents' \in [AgentIds -> AgentRows] /\ x \in AgentIds
           /\ agents[x].run = None /\ agents'[x].run = r /\ agents'[x].status = "queued"
           /\ \A y \in AgentIds : y # x => agents'[y] = agents[y]
           /\ Grown /\ LinkedAgents' /\ LinkedRuns' /\ runs[r].status # "absent"
<1>1. Tables
    BY TypeParts
<1>2. x \in AgentIds /\ agents[x].status = "absent" /\ agents[x].run = None
    BY DEF Queues, Steady, LinkedAgents
<1>3. PICK row : row = [run |-> r, status |-> "queued", end |-> None]
    OBVIOUS
<1>4. row \in AgentRows /\ row.run = r /\ row.status = "queued"
    BY <1>3 DEF AgentRows, AgentLive
<1>5. /\ agents' \in [AgentIds -> AgentRows] /\ agents'[x] = row
      /\ \A y \in AgentIds : y # x => agents'[y] = agents[y]
    BY <1>1, <1>2, <1>3, <1>4 DEF Queues, Tables
<1>6. Grown
    BY <1>2, <1>4, <1>5 DEF Queues, Grown
<1>7. None \notin RunIds /\ runs[r].status # "absent"
    BY ActorFacts DEF RunIds, None, Queues, Holds, Snapshot, Writers
<1>8. LinkedAgents'
    BY <1>2, <1>4, <1>5, <1>7 DEF Queues, Steady, LinkedAgents
<1>9. LinkedRuns'
  <2> SUFFICES ASSUME NEW q \in RunIds PROVE RunLinked(q)'
      BY DEF LinkedRuns
  <2>1. RunLinked(q) /\ runs'[q] = runs[q] /\ tasks' = tasks
      BY DEF Steady, LinkedRuns, Queues
  <2>2. runs[q].agent # None => runs[q].agent \in AgentIds /\ runs[q].agent # x
      BY <1>1, <1>2, <1>7, <2>1 DEF RunLinked, Tables, RunRows
  <2> QED BY <1>5, <2>1, <2>2 DEF RunLinked, TaskExists
<1> QED BY <1>2, <1>4, <1>5, <1>6, <1>7, <1>8, <1>9

LEMMA QueueMessageSteady ==
    ASSUME TypeOK, Steady, NEW a \in Actors, QueueMessage(a)
    PROVE  TypeOK' /\ Steady'
<1>1. PICK x \in AgentIds, r \in RunIds : Queues(a, x, r)
    BY MessageQueued
<1>2. /\ agents' \in [AgentIds -> AgentRows]
      /\ agents[x].run = None /\ agents'[x].run = r
      /\ Grown /\ LinkedAgents' /\ LinkedRuns'
    BY <1>1, QueuedTables
<1>3. PICK l \in Locals : l = loc[a]
    BY ActorFacts
<1>4. PICK m : m = [l EXCEPT !.agent = x]
    OBVIOUS
<1>5. m \in Locals /\ m.run = l.run /\ m.snap = l.snap /\ m.op = l.op /\ m.agent = x
    BY <1>3, <1>4 DEF Locals
<1>6. /\ Moves(a, "link", m) /\ pc[a] = "dispatch" /\ l.run = r
      /\ UNCHANGED <<now, tasks, broken, runs, torn, revived>> /\ sched' = sched
    BY <1>1, <1>3, <1>4 DEF Queues
<1>7. Holds(a, "dispatch", l)
    BY <1>3, <1>6, ActorFacts
<1>8. Holds(a, "dispatch", l)'
    BY <1>2, <1>7, HoldsKept
<1>9. Holds(a, "link", m)'
  <2>1. m.agent # None
      BY <1>5 DEF AgentIds, None
  <2> QED BY <1>2, <1>5, <1>6, <1>8, <2>1 DEF Holds, Snapshot, Writers
<1>10. ActorTypes /\ "link" \in Labels
    BY TypeParts DEF Labels, Writers
<1>11. ActorsHold' /\ ActorTypes'
    BY <1>2, <1>5, <1>6, <1>9, <1>10, ActorMoves DEF Steady
<1>12. ScanType(sched)' /\ Shrunk
    BY <1>6, TypeParts DEF ScanType, Shrunk
<1>13. Tables'
    BY <1>2, <1>6, TypeParts DEF Tables
<1>14. TypeOK'
    BY <1>11, <1>12, <1>13, TypeFromParts
<1>15. Scanned(sched.todo)'
    BY <1>2, <1>12, ShrunkScan DEF Steady
<1>16. CallersPlaced' /\ LoopPlaced'
  <2>1. CASE a = Scheduler
    <3>1. LoopAt("dispatch", l, sched)
        BY <1>3, <1>6, <2>1, ActorFacts
    <3>2. LoopAt("link", m, sched')
        BY <1>5, <1>6, <3>1 DEF LoopAt, Writers
    <3> QED BY <1>6, <1>10, <2>1, <3>2, SchedulerPlaced DEF Steady
  <2>2. CASE a \in Callers
    <3>1. CallerAt("link")
        BY DEF CallerAt
    <3> QED BY <1>6, <1>10, <2>2, <3>1, CallerPlaced DEF Steady
  <2> QED BY <2>1, <2>2 DEF Actors
<1>17. OwnRun'
  <2>1. KeepsRun(a, "link", m)
      BY <1>3, <1>5, <1>6 DEF KeepsRun
  <2>2. OwnRun
      BY DEF Steady
  <2> QED BY <1>6, <1>10, <2>1, <2>2, OwnRunMoves
<1>18. Named' \subseteq Named
  <2>1. pc'[a] = "link" /\ loc'[a] = m
      BY <1>6, <1>10, Moved
  <2>2. \A b \in Actors : b # a => pc'[b] = pc[b] /\ loc'[b] = loc[b]
      BY <1>6, <1>10, Moved
  <2>3. ASSUME NEW b \in Actors, pc'[b] \in Writers PROVE pc[b] \in Writers /\ loc'[b].snap = loc[b].snap
    <3>1. CASE b = a
        BY <1>3, <1>5, <1>6, <2>1, <3>1 DEF Writers
    <3>2. CASE b # a
        BY <2>2, <2>3, <3>2
    <3> QED BY <3>1, <3>2
  <2> QED BY <1>6, <2>3 DEF Named
<1>19. x \notin Named /\ \A b \in Actors : pc[b] = "link" => loc[b].agent # x
  <2>1. x # None
      BY DEF AgentIds, None
  <2>2. x \notin Named
      BY <1>2, <2>1, NamedKnown
  <2>3. ASSUME NEW b \in Actors, pc[b] = "link" PROVE loc[b].agent # x
    <3>1. Holds(b, "link", loc[b]) /\ "link" \in Writers
        BY <2>3, ActorFacts DEF Writers
    <3>2. agents[loc[b].agent].run = loc[b].run /\ loc[b].run \in RunIds
        BY <3>1 DEF Holds, Snapshot
    <3> QED BY <1>2, <3>2 DEF RunIds, None
  <2> QED BY <2>2, <2>3
<1>20. Unnamed'
  <2>1. pc'[a] = "link" /\ loc'[a] = m
      BY <1>6, <1>10, Moved
  <2>2. \A b \in Actors : b # a => pc'[b] = pc[b] /\ loc'[b] = loc[b]
      BY <1>6, <1>10, Moved
  <2>3. Unnamed
      BY DEF Steady
  <2> SUFFICES ASSUME NEW b \in Actors, pc'[b] = "link"
               PROVE  /\ loc'[b].agent \notin Named'
                      /\ \A c \in Actors : pc'[c] = "link" /\ loc'[c].agent = loc'[b].agent => c = b
      BY DEF Unnamed
  <2>4. CASE b = a
      BY <1>5, <1>18, <1>19, <2>1, <2>2, <2>4
  <2>5. CASE b # a
    <3>1. pc[b] = "link" /\ loc'[b] = loc[b] /\ loc[b].agent \notin Named
        BY <2>2, <2>3, <2>5 DEF Unnamed
    <3>2. ASSUME NEW c \in Actors, pc'[c] = "link", loc'[c].agent = loc[b].agent PROVE c = b
      <4>1. CASE c = a
          BY <1>5, <1>19, <2>1, <3>1, <3>2, <4>1
      <4>2. CASE c # a
          BY <2>2, <2>3, <3>1, <3>2, <4>2 DEF Unnamed
      <4> QED BY <4>1, <4>2
    <3> QED BY <1>18, <3>1, <3>2
  <2> QED BY <2>4, <2>5
<1> QED BY <1>2, <1>11, <1>14, <1>15, <1>16, <1>17, <1>20 DEF Steady

\* The actors of D end, each by a failing call or all with the process.
Ends(D) ==
    /\ D \subseteq Actors
    /\ pc' = [a \in Actors |-> IF a \in D THEN "idle" ELSE pc[a]]
    /\ loc' = [a \in Actors |-> IF a \in D THEN Idle ELSE loc[a]]
    /\ sched' = IF Scheduler \in D THEN NoScan ELSE sched
    /\ agents' = Lost(D)
    /\ UNCHANGED <<now, tasks, broken, runs, history>>

\* What D was about to link
Dropped(D) == {loc[a].agent : a \in {b \in D : pc[b] = "link"}}

LEMMA CallEnds ==
    ASSUME TypeOK, NEW a \in Actors, CallFails(a)
    PROVE  Ends({a})
<1>1. ActorTypes
    BY TypeParts
<1> QED BY <1>1 DEF CallFails, Abort, Goto, Ends, ActorTypes

LEMMA CrashEnds ==
    ASSUME Crash
    PROVE  Ends(Actors)
  BY DEF Crash, Ends, Actors

\* Only the Agent tasks that no row names are lost.
LEMMA LostAgents ==
    ASSUME TypeOK, Steady, NEW D, Ends(D)
    PROVE  /\ agents' \in [AgentIds -> AgentRows]
           /\ \A x \in AgentIds : agents'[x].status = agents[x].status
           /\ \A x \in AgentIds \ Dropped(D) : agents'[x] = agents[x]
           /\ \A x \in AgentIds \cap Dropped(D) : agents'[x].run = None
           /\ Dropped(D) \cap Named = {}
           /\ \A b \in Actors \ D : pc[b] = "link" => loc[b].agent \notin Dropped(D)
<1>1. agents \in [AgentIds -> AgentRows]
    BY TypeParts DEF Tables
<1>2. \A x \in AgentIds :
        agents'[x] = IF x \in Dropped(D) THEN [agents[x] EXCEPT !.run = None] ELSE agents[x]
    BY DEF Ends, Lost, Dropped
<1>3. Dropped(D) \cap Named = {}
      /\ \A b \in Actors \ D : pc[b] = "link" => loc[b].agent \notin Dropped(D)
    BY DEF Ends, Dropped, Steady, Unnamed
<1>4. ASSUME NEW x \in AgentIds
      PROVE  /\ agents'[x] \in AgentRows /\ agents'[x].status = agents[x].status
             /\ x \in Dropped(D) => agents'[x].run = None
    BY <1>1, <1>2 DEF AgentRows
<1>5. agents' = [x \in AgentIds |-> agents'[x]]
    BY DEF Ends, Lost
<1> QED BY <1>2, <1>3, <1>4, <1>5

LEMMA EndsSteady ==
    ASSUME TypeOK, Steady, NEW D, Ends(D)
    PROVE  TypeOK' /\ Steady'
<1>1. /\ D \subseteq Actors
      /\ \A b \in D : pc'[b] = "idle" /\ loc'[b] = Idle
      /\ \A b \in Actors \ D : pc'[b] = pc[b] /\ loc'[b] = loc[b]
      /\ sched' = IF Scheduler \in D THEN NoScan ELSE sched
      /\ UNCHANGED <<now, tasks, broken, runs, torn, revived>>
    BY DEF Ends, history
<1>2. /\ agents' \in [AgentIds -> AgentRows]
      /\ \A x \in AgentIds : agents'[x].status = agents[x].status
      /\ \A x \in AgentIds \ Dropped(D) : agents'[x] = agents[x]
      /\ \A x \in AgentIds \cap Dropped(D) : agents'[x].run = None
      /\ Dropped(D) \cap Named = {}
      /\ \A b \in Actors \ D : pc[b] = "link" => loc[b].agent \notin Dropped(D)
    BY LostAgents
<1>3. Tables'
    BY <1>1, <1>2, TypeParts DEF Tables
<1>4. ActorTypes' /\ ScanType(sched)'
  <2>1. ScanType(sched) /\ ScanType(NoScan)
      BY TypeParts, NoScanType
  <2>2. ScanType(sched)'
      BY <1>1, <2>1 DEF ScanType
  <2>3. ActorTypes
      BY TypeParts
  <2> QED BY <2>2, <2>3, IdleFacts DEF Ends, ActorTypes, Labels
<1>5. ASSUME NEW r, NEW s \in RunRows, Snapshot(r, s), s.agent \in Named PROVE Snapshot(r, s)'
  <2>1. s.agent \in AgentIds \cup {None}
      BY DEF RunRows
  <2>2. s.agent # None => agents'[s.agent].run = r
      BY <1>2, <1>5, <2>1 DEF Snapshot
  <2> QED BY <1>1, <1>5, <2>2 DEF Snapshot
<1>6. ASSUME NEW b \in Actors PROVE Holds(b, pc[b], loc[b])' \/ b \in D
  <2> SUFFICES ASSUME b \notin D PROVE Holds(b, pc[b], loc[b])'
      OBVIOUS
  <2> DEFINE p == pc[b]
             l == loc[b]
  <2>1. l \in Locals /\ p = pc'[b] /\ l = loc'[b] /\ Holds(b, p, l)
      BY <1>1, ActorFacts
  <2>2. l.snap \in RunRows /\ l.agent \in AgentIds \cup {None} /\ l.snap.agent \in AgentIds \cup {None}
      BY <2>1 DEF Locals, RunRows
  <2>3. ASSUME p \in Writers
        PROVE  /\ Snapshot(l.run, l.snap)'
               /\ l.snap.agent # None => agents'[l.snap.agent].status = agents[l.snap.agent].status
    <3>1. l.snap.agent \in Named
        BY <2>1, <2>3 DEF Named
    <3> QED BY <1>2, <1>5, <2>1, <2>2, <2>3, <3>1 DEF Holds
  <2>4. ASSUME p = "link" PROVE l.agent # None /\ agents'[l.agent].run = l.run
    <3>1. l.agent # None /\ agents[l.agent].run = l.run
        BY <2>1, <2>4 DEF Holds
    <3>2. l.agent \in AgentIds \ Dropped(D)
        BY <1>2, <2>2, <2>4, <3>1
    <3> QED BY <1>2, <3>1, <3>2
  <2>5. Holds(b, p, l)'
      BY <1>1, <2>1, <2>3, <2>4 DEF Holds, Writers
  <2> QED BY <2>1, <2>5 DEF Holds, Snapshot
<1>7. ActorsHold'
  <2>1. \A b \in D : Holds(b, pc[b], loc[b])'
      BY <1>1 DEF Holds, Writers
  <2> QED BY <1>6, <2>1 DEF ActorsHold
<1>8. Scanned(sched.todo)'
  <2>1. CASE Scheduler \in D
      BY <1>1, <2>1, IdleFacts DEF Scanned
  <2>2. CASE Scheduler \notin D
    <3> SUFFICES ASSUME NEW r \in DOMAIN sched.todo PROVE Snapshot(r, sched.todo[r])'
        BY <1>1, <2>2 DEF Steady, Scanned, Snapshot
    <3>1. PICK s \in RunRows : s = sched.todo[r] /\ s = sched'.todo[r]
        BY <1>1, <2>2, TypeParts DEF ScanType
    <3>2. Snapshot(r, s) /\ s.agent \in Named
        BY <3>1 DEF Steady, Scanned, Named
    <3>3. Snapshot(r, s)'
        BY <1>5, <3>2
    <3> QED BY <3>1, <3>3 DEF Snapshot
  <2> QED BY <2>1, <2>2
<1>9. Named' \subseteq Named
  <2>1. \A b \in Actors : pc'[b] \in Writers => b \notin D
      BY <1>1 DEF Writers
  <2>2. \A r \in DOMAIN sched'.todo : r \in DOMAIN sched.todo /\ sched'.todo[r] = sched.todo[r]
      BY <1>1, IdleFacts
  <2> QED BY <1>1, <2>1, <2>2 DEF Named
<1>10. Unnamed' /\ OwnRun'
  <2>1. \A b \in Actors : pc'[b] # "idle" => pc'[b] = pc[b] /\ loc'[b] = loc[b]
      BY <1>1
  <2>2. Unnamed'
      BY <1>9, <2>1 DEF Steady, Unnamed
  <2>3. \A c \in Callers : c \in Actors
      BY DEF Actors
  <2> QED BY <2>1, <2>2, <2>3 DEF Steady, OwnRun
<1>11. CallersPlaced' /\ LoopPlaced'
  <2>1. CallersPlaced'
      BY <1>1 DEF Steady, CallersPlaced, CallerAt, Actors
  <2>2. LoopAt("idle", Idle, NoScan)
      BY IdleFacts DEF LoopAt, NoScan, Writers
  <2>3. Scheduler \in Actors /\ LoopAt(pc[Scheduler], loc[Scheduler], sched)
      BY DEF Steady, LoopPlaced, Actors
  <2>4. LoopAt(pc'[Scheduler], loc'[Scheduler], sched')
      BY <1>1, <2>2, <2>3
  <2> QED BY <2>1, <2>4 DEF LoopPlaced, LoopAt
<1>12. LinkedAgents'
    BY <1>1, <1>2 DEF Steady, LinkedAgents
<1>13. LinkedRuns'
  <2>1. ASSUME NEW r \in RunIds, runs[r].agent # None PROVE agents'[runs[r].agent].run = r
    <3>1. runs[r].agent \in Named /\ runs[r].agent \in AgentIds
        BY <2>1, TypeParts DEF Named, Tables, RunRows
    <3> QED BY <1>2, <2>1, <3>1 DEF Steady, LinkedRuns, RunLinked
  <2> QED BY <1>1, <2>1 DEF Steady, LinkedRuns, RunLinked, TaskExists
<1> QED BY <1>3, <1>4, <1>7, <1>8, <1>10, <1>11, <1>12, <1>13, TypeFromParts DEF Steady

LEMMA SteadyInit ==
    ASSUME Init
    PROVE  TypeOK /\ Steady
<1> USE DEF Init
<1>1. Tables
  <2>1. NoTask \in TaskRows /\ NoRun \in RunRows /\ NoAgent \in AgentRows
      BY DEF NoTask, TaskRows, NoSchedule, NoRun, RunRows, NoAgent, AgentRows
  <2>2. NoTask.next = None /\ 0 \in Times
      BY BoundsAssumption DEF NoTask, Times
  <2> QED BY <2>1, <2>2 DEF Tables
<1>2. ActorTypes /\ ScanType(sched)
    BY IdleFacts, NoScanType DEF ActorTypes, Labels
<1>3. \A a \in Actors : pc[a] = "idle" /\ loc[a] = Idle
    OBVIOUS
<1>4. TypeOK
    BY <1>1, <1>2, <1>3 DEF TypeOK, Tables, ActorTypes, ScanType, Writers
<1>5. ActorsHold /\ CallersPlaced /\ Unnamed /\ OwnRun
    BY <1>3 DEF ActorsHold, Holds, Writers, CallersPlaced, CallerAt, Actors, Unnamed, OwnRun
<1>6. LoopPlaced /\ Scanned(sched.todo)
    BY <1>3, IdleFacts DEF LoopPlaced, LoopAt, Scanned, NoScan, Actors, Writers
<1>7. LinkedAgents /\ LinkedRuns
    BY DEF LinkedAgents, NoAgent, LinkedRuns, RunLinked, NoRun
<1> QED BY <1>4, <1>5, <1>6, <1>7 DEF Steady

LEMMA SteadyNext ==
    ASSUME TypeOK, Steady, [Next]_vars
    PROVE  TypeOK' /\ Steady'
<1>1. ASSUME NEW a \in Actors, Step(a) PROVE TypeOK' /\ Steady'
    BY <1>1, QueueInputFailsSteady, QueueMessageSteady, QueueFailsSteady, LinkRunSteady,
       MarkFailedSteady, SyncReadSteady, SyncWriteSteady DEF Step
<1>2. CASE SchedulerStep
  <2>1. Scheduler \in Actors
      BY DEF Actors
  <2> QED BY <1>1, <1>2, <2>1, ScanStartSteady, ReconcileRunSteady, ReconcileDoneSteady,
             CountActiveSteady, ClaimSteady, ScanDoneSteady, DueReadSteady DEF SchedulerStep
<1>3. ASSUME NEW c \in Callers, CallerStep(c) PROVE TypeOK' /\ Steady'
  <2>1. c \in Actors
      BY DEF Actors
  <2> QED BY <1>1, <1>3, <2>1, EditWriteSteady, RunNowInsertSteady, RunNowTouchSteady,
             CancelDecideSteady, MarkCancelledSteady DEF CallerStep
<1>4. ASSUME NEW c \in Callers, Call(c) PROVE TypeOK' /\ Steady'
    BY <1>4, EditReadSteady, RunNowReadSteady, SyncCallSteady, CancelCallSteady DEF Call
<1>5. CASE Environment
    BY <1>5, DeleteTaskSteady, RemoveDefinitionSteady, CreateTaskSteady, AgentMoveSteady,
       DeleteChatSteady, TickSteady, CallEnds, CrashEnds, EndsSteady DEF Environment
<1>6. CASE UNCHANGED vars
  <2>1. UNCHANGED <<now, tasks, broken, runs, agents, torn, revived>> /\ UNCHANGED <<pc, loc, sched>>
      BY <1>6 DEF vars, history
  <2>2. Calm /\ Tables'
      BY <2>1, StillTables DEF Still
  <2> QED BY <2>1, <2>2, CalmStays
<1> QED BY <1>2, <1>3, <1>4, <1>5, <1>6 DEF Next

-----------------------------------------------------------------------------
(* What a step may do to the runs                                           *)

\* No step but a claim makes a scheduled run.
RowsStay ==
    \A r \in RunIds : Scheduled(r)' =>
        Scheduled(r) /\ runs'[r].task = runs[r].task /\ runs'[r].at = runs[r].at

\* A task's next occurrence stays, or is a new one, or is put back.
NextPut ==
    \A t \in Tasks : tasks'[t].next # None =>
        \/ tasks'[t].next = tasks[t].next
        \/ tasks'[t].next \notin Claimed(t)
        \/ <<t, tasks'[t].next>> \in rewound'

ClockRuns ==
    /\ rewound \subseteq rewound' /\ now <= now'
    /\ sched'.phase = "due" => sched'.at = now \/ (sched.phase = "due" /\ sched'.at = sched.at)

LEMMA OccurrencesStay ==
    ASSUME TypeOK, TypeOK', Occurrences, OccurrenceOnce, RowsStay, NextPut, ClockRuns
    PROVE  Occurrences' /\ OccurrenceOnce'
<1>1. now \in Int /\ now' \in Int /\ \A r \in RunIds : runs[r].at \in Int
    BY TypeParts, BoundsAssumption DEF TypeOK, Tables, RunRows, Times, None
<1>2. ASSUME NEW t \in Tasks PROVE Ahead(t)'
  <2>1. Claimed(t)' \subseteq Claimed(t)
      BY DEF Claimed, RowsStay, Scheduled
  <2>2. Ahead(t)
      BY DEF Occurrences
  <2> QED BY <2>1, <2>2 DEF Ahead, NextPut, ClockRuns
<1>3. sched'.phase = "due" => sched'.at <= now'
  <2>1. sched.phase = "due" => sched.at <= now /\ sched.at \in Int
      BY TypeParts, BoundsAssumption DEF Occurrences, ScanType, Times, None
  <2> QED BY <1>1, <2>1 DEF ClockRuns
<1>4. ASSUME NEW r \in RunIds, Scheduled(r)'
      PROVE  runs'[r].at <= now' /\ (sched'.phase = "due" => runs'[r].at <= sched'.at)
  <2>1. Scheduled(r) /\ runs'[r].at = runs[r].at
      BY <1>4 DEF RowsStay
  <2>2. runs[r].at <= now /\ (sched.phase = "due" => runs[r].at <= sched.at)
      BY <2>1 DEF Occurrences
  <2> QED BY <1>1, <2>1, <2>2 DEF ClockRuns
<1>5. OccurrenceOnce'
  <2> SUFFICES ASSUME NEW r \in RunIds, NEW q \in RunIds,
                      Scheduled(r)', Scheduled(q)', runs'[r].task = runs'[q].task,
                      runs'[r].at = runs'[q].at, r # q
               PROVE  <<runs'[r].task, runs'[r].at>> \in rewound'
      BY DEF OccurrenceOnce, Scheduled
  <2>1. /\ Scheduled(r) /\ runs'[r].task = runs[r].task /\ runs'[r].at = runs[r].at
        /\ Scheduled(q) /\ runs'[q].task = runs[q].task /\ runs'[q].at = runs[q].at
      BY DEF RowsStay
  <2>2. <<runs[r].task, runs[r].at>> \in rewound
      BY <2>1 DEF OccurrenceOnce, Scheduled
  <2> QED BY <2>1, <2>2 DEF ClockRuns
<1> QED BY <1>2, <1>3, <1>4, <1>5 DEF Occurrences

\* A run keeps what the invariant says of it, and stays finished.
Settles(r) ==
    /\ Kept(r) => Kept(r)'
    /\ Scheduled(r) /\ Finished(r) /\ Kept(r) => Finished(r)'

Advances ==
    /\ RowsStay /\ NextPut /\ ClockRuns
    /\ torn \subseteq torn'
    /\ \A r \in RunIds \ torn' : Settles(r)

LEMMA RunsAdvance ==
    ASSUME IInv, TypeOK', Advances
    PROVE  /\ Occurrences' /\ OccurrenceOnce'
           /\ \A r \in RunIds \ torn' : Kept(r)'
           /\ Alternate'
<1>1. Occurrences' /\ OccurrenceOnce'
    BY OccurrencesStay DEF IInv, Advances
<1>2. ASSUME NEW r \in RunIds \ torn'
      PROVE  Kept(r)' /\ (Scheduled(r) /\ Finished(r) => Finished(r)')
    BY DEF IInv, Advances, Settles
<1>3. Alternate'
  <2> SUFFICES ASSUME NEW r \in RunIds \ torn', NEW q \in RunIds \ torn',
                      Scheduled(r)', Scheduled(q)', r # q,
                      runs'[r].task = runs'[q].task, runs'[r].task \in SkipTasks
               PROVE  Finished(r)' \/ Finished(q)'
      BY DEF Alternate
  <2>1. /\ Scheduled(r) /\ runs'[r].task = runs[r].task
        /\ Scheduled(q) /\ runs'[q].task = runs[q].task
      BY DEF Advances, RowsStay
  <2>2. Finished(r) \/ Finished(q)
      BY <2>1 DEF IInv, Alternate, Advances
  <2> QED BY <1>2, <2>1, <2>2
<1> QED BY <1>1, <1>2, <1>3

LEMMA ClearedStays ==
    ASSUME IInv, Advances, \A t \in Tasks : Decided(t)' => Decided(t)
    PROVE  Cleared'
<1> SUFFICES ASSUME NEW r \in RunIds \ torn', Scheduled(r)', Decided(runs[r].task)'
             PROVE  Finished(r)'
    BY DEF Cleared
<1>1. Scheduled(r) /\ runs'[r].task = runs[r].task /\ r \in RunIds \ torn
    BY DEF Advances, RowsStay
<1>2. runs[r].task \in Tasks
    BY <1>1 DEF IInv, Steady, LinkedRuns, RunLinked, NoRun, Scheduled
<1>3. PICK t \in Tasks : t = runs[r].task
    BY <1>2
<1>4. Decided(t)'
    BY <1>1, <1>3 DEF Decided, TaskExists
<1>5. Finished(r)
    BY <1>1, <1>3, <1>4 DEF IInv, Cleared
<1> QED BY <1>1, <1>5 DEF Advances, Settles, IInv

-----------------------------------------------------------------------------
(* What an actor's move does to the dispatch of a run                       *)

Links(a, r, x) == pc[a] = "link" /\ loc[a].run = r /\ loc[a].agent = x

\* A request moves; the loop and its scan stay.
LEMMA CallerFlags ==
    ASSUME ActorTypes, NEW c \in Callers, NEW p, NEW l, Moves(c, p, l), sched' = sched,
           NEW r, p \in {"touch", "dispatch"} /\ l.run = r => Inserted(r)
    PROVE  /\ Inserted(r)' => Inserted(r)
           /\ (Handled(r)' <=> Handled(r)) /\ (Linking(r)' <=> Linking(r))
           /\ (Closing(r)' <=> Closing(r)) /\ (Stale(r)' <=> Stale(r))
           /\ pc'[Scheduler] = pc[Scheduler] /\ loc'[Scheduler] = loc[Scheduler]
           /\ \A x \in Linked(r) : x \in Linked(r)' \/ Links(c, r, x)
           /\ p # "link" \/ l.run # r => Linked(r)' \subseteq Linked(r)
<1>1. c \in Actors /\ pc'[c] = p /\ loc'[c] = l
      /\ \A b \in Actors : b # c => pc'[b] = pc[b] /\ loc'[b] = loc[b]
    BY Moved DEF Actors
<1>2. pc'[Scheduler] = pc[Scheduler] /\ loc'[Scheduler] = loc[Scheduler]
    BY <1>1, BoundsAssumption DEF Actors
<1>3. Inserted(r)' => Inserted(r)
    BY <1>1 DEF Inserted, Actors
<1>4. \A x \in Linked(r) : x \in Linked(r)' \/ Links(c, r, x)
  <2> SUFFICES ASSUME NEW b \in Actors, pc[b] = "link", loc[b].run = r, b # c
               PROVE  loc[b].agent \in Linked(r)'
      BY DEF Linked, Links
  <2> QED BY <1>1 DEF Linked
<1>5. ASSUME p # "link" \/ l.run # r PROVE Linked(r)' \subseteq Linked(r)
  <2> SUFFICES ASSUME NEW b \in Actors, pc'[b] = "link", loc'[b].run = r
               PROVE  loc'[b].agent \in Linked(r)
      BY DEF Linked
  <2>1. pc[b] = "link" /\ loc[b] = loc'[b]
      BY <1>1, <1>5
  <2> QED BY <2>1 DEF Linked
<1> QED BY <1>2, <1>3, <1>4, <1>5 DEF Handled, Linking, Closing, Stale

\* The loop moves.
LEMMA LoopFlags ==
    ASSUME ActorTypes, NEW p, NEW l, Moves(Scheduler, p, l), NEW r
    PROVE  /\ Inserted(r)' <=> Inserted(r)
           /\ Shrunk /\ Handled(r)' => Handled(r) \/ (p = "dispatch" /\ l.run = r)
           /\ Linking(r)' => p = "link" /\ l.run = r
           /\ Closing(r)' => p = "mark_failed" /\ l.run = r /\ l.snap.agent = None
           /\ Shrunk /\ Stale(r)' => Stale(r)
           /\ \A x \in Linked(r) : x \in Linked(r)' \/ Links(Scheduler, r, x)
           /\ p # "link" \/ l.run # r => Linked(r)' \subseteq Linked(r)
<1>1. Scheduler \in Actors /\ pc'[Scheduler] = p /\ loc'[Scheduler] = l
      /\ \A b \in Actors : b # Scheduler => pc'[b] = pc[b] /\ loc'[b] = loc[b]
    BY Moved DEF Actors
<1>2. \A c \in Callers : pc'[c] = pc[c] /\ loc'[c] = loc[c]
    BY <1>1, BoundsAssumption DEF Actors
<1>3. Inserted(r)' <=> Inserted(r)
    BY <1>2 DEF Inserted
<1>4. \A x \in Linked(r) : x \in Linked(r)' \/ Links(Scheduler, r, x)
  <2> SUFFICES ASSUME NEW b \in Actors, pc[b] = "link", loc[b].run = r, b # Scheduler
               PROVE  loc[b].agent \in Linked(r)'
      BY DEF Linked, Links
  <2> QED BY <1>1 DEF Linked
<1>5. Shrunk /\ Handled(r)' => Handled(r) \/ (p = "dispatch" /\ l.run = r)
    BY <1>1 DEF Handled, Shrunk
<1>6. Shrunk /\ Stale(r)' => Stale(r)
    BY DEF Stale, Shrunk
<1>7. ASSUME p # "link" \/ l.run # r PROVE Linked(r)' \subseteq Linked(r)
  <2> SUFFICES ASSUME NEW b \in Actors, pc'[b] = "link", loc'[b].run = r
               PROVE  loc'[b].agent \in Linked(r)
      BY DEF Linked
  <2>1. pc[b] = "link" /\ loc[b] = loc'[b]
      BY <1>1, <1>7
  <2> QED BY <2>1 DEF Linked
<1> QED BY <1>1, <1>3, <1>4, <1>5, <1>6, <1>7 DEF Linking, Closing

\* No new dispatch of r is begun, and none that is under way is lost.
Eased(r) ==
    /\ Inserted(r)' => Inserted(r)
    /\ Handled(r)' => Handled(r) \/ runs[r].status = "pending"
    /\ Linking(r)' => Linking(r) \/ Handled(r)
    /\ Allowed(r)' => Allowed(r)
    /\ Scheduled(r) /\ Closing(r)' => Live(r) = {} \/ ~TaskExists(runs[r].task)
    /\ Scheduled(r) /\ Stale(r)' => Live(r) = {}
    /\ Linked(r)' \subseteq Linked(r)
    /\ RunExists(r) => \A x \in Linked(r) : x \in Linked(r)' \/ ~AgentExists(x)

\* The Agent tasks of r are the same, and none that had ended goes on.
AgentsSettle(r) ==
    /\ AgentsOf(r)' = AgentsOf(r) /\ Live(r)' \subseteq Live(r)
    /\ \A y \in AgentsOf(r) : agents[y].status = "gone" => agents'[y].status = "gone"
    /\ \A y \in AgentsOf(r) : Rests(y) => Rests(y)'
    /\ Quiet(r) => Quiet(r)'

LEMMA RunSettles ==
    ASSUME NEW r, Kept(r), runs'[r] = runs[r], AgentsSettle(r), Eased(r),
           Scheduled(r) => (TaskExists(runs[r].task)' <=> TaskExists(runs[r].task))
    PROVE  Settles(r)
<1> SUFFICES Kept(r)' /\ (Scheduled(r) /\ Finished(r) => Finished(r)')
    BY DEF Settles
<1>1. PICK run : run = runs[r] /\ run = runs'[r]
    OBVIOUS
<1>2. PICK A : A = AgentsOf(r) /\ A = AgentsOf(r)'
    BY DEF AgentsSettle
<1>3. PICK S : S = Live(r)
    OBVIOUS
<1>4. PICK T \in SUBSET S : T = Live(r)'
    BY <1>3 DEF AgentsSettle
<1>5. Budget(r)'
  <2>1. (AtMostOne(S) => AtMostOne(T)) /\ (AtMostTwo(S) => AtMostTwo(T)) /\ (S = {} => T = {})
      BY DEF AtMostOne, AtMostTwo
  <2>2. (Manual(r)' <=> Manual(r)) /\ (Allowed(r)' => Allowed(r)) /\ (Inserted(r)' => Inserted(r))
      BY DEF Manual, Eased
  <2>3. Budget(r)
      BY DEF Kept
  <2> QED BY <1>3, <1>4, <2>1, <2>2, <2>3 DEF Budget, AtMostOne, AtMostTwo
<1>6. Cancels(r)'
  <2>1. Cancels(r)
      BY DEF Kept
  <2>2. PICK K : K = Known(r)
      OBVIOUS
  <2>3. PICK M : M = Known(r)'
      OBVIOUS
  <2>4. K \subseteq M /\ M \subseteq A
      BY <1>2, <2>2, <2>3 DEF Known, Eased
  <2>5. ASSUME run.status = "cancelled", AtMostOne(M), NEW x \in M PROVE Rests(x)'
    <3>1. Rests(x)
      <4>1. CASE x \in K
          BY <1>1, <2>1, <2>2, <2>4, <2>5, <4>1 DEF Cancels, AtMostOne
      <4>2. CASE x \notin K
        <5>1. x \in Linked(r) /\ x \notin Linked(r)'
            BY <1>2, <2>2, <2>3, <2>4, <4>2 DEF Known
        <5>2. ~AgentExists(x)
            BY <1>1, <2>5, <5>1 DEF Eased, RunExists
        <5> QED BY <5>2 DEF Rests, AgentExists, AgentLive
      <4> QED BY <4>1, <4>2
    <3> QED BY <1>2, <2>4, <3>1 DEF AgentsSettle
  <2>6. ASSUME run.status = "pending" PROVE Live(r)' \subseteq Linked(r)'
    <3>1. Live(r) \subseteq Linked(r) /\ RunExists(r)
        BY <1>1, <2>1, <2>6 DEF Cancels, RunExists
    <3>2. \A x \in Live(r) : AgentExists(x)
        BY DEF Live
    <3> QED BY <3>1, <3>2 DEF AgentsSettle, Eased
  <2>7. ASSUME run.status \in {"queued", "running"}, run.agent = None
        PROVE  \E y \in M : agents'[y].status = "gone"
      BY <1>1, <1>2, <2>1, <2>2, <2>4, <2>7 DEF Cancels, AgentsSettle
  <2>8. ASSUME Inserted(r)' \/ Handled(r)' \/ Linked(r)' # {}
        PROVE  M # {} \/ run.status # "cancelled"
    <3>1. Inserted(r) \/ Handled(r) \/ runs[r].status = "pending" \/ Linked(r) # {}
        BY <2>8 DEF Eased
    <3> QED BY <1>1, <2>1, <2>2, <2>4, <3>1 DEF Cancels
  <2> QED BY <1>1, <2>3, <2>5, <2>6, <2>7, <2>8 DEF Cancels, AtMostOne
<1>7. Scheduled(r)' => Scheduled(r)
    BY <1>1 DEF Scheduled
<1>8. ASSUME Scheduled(r) PROVE Follows(r)'
  <2>1. Follows(r)
      BY <1>8 DEF Kept
  <2>2. TaskExists(runs[r].task)' <=> TaskExists(run.task)
      BY <1>1, <1>8
  <2>3. S = {} => T = {}
      OBVIOUS
  <2>4. Handled(r)' \/ Linking(r)' => run.status = "pending" \/ ~TaskExists(run.task)
      BY <1>1, <2>1 DEF Follows, Eased
  <2>5. Quiet(r) => Quiet(r)'
      BY DEF AgentsSettle
  <2>6. Closing(r)' => T = {} \/ ~TaskExists(run.task)
      BY <1>1, <1>3, <1>8, <2>3 DEF Eased
  <2>7. Stale(r)' => T = {}
      BY <1>3, <1>8, <2>3 DEF Eased
  <2> QED BY <1>1, <1>3, <1>4, <2>1, <2>2, <2>3, <2>4, <2>5, <2>6, <2>7 DEF Follows
<1>9. ASSUME Finished(r) PROVE Finished(r)'
    BY <1>1, <1>9 DEF Finished, Eased, AgentsSettle
<1> QED BY <1>5, <1>6, <1>7, <1>8, <1>9 DEF Kept

LEMMA AgentsStay ==
    ASSUME UNCHANGED <<agents, revived>>, NEW r
    PROVE  AgentsSettle(r) /\ Live(r)' = Live(r) /\ AgentsOf(r)' = AgentsOf(r) /\ (Quiet(r)' <=> Quiet(r))
  BY DEF AgentsSettle, Live, AgentsOf, AgentExists, Quiet, Rests

LEMMA TaskStays ==
    ASSUME Steady, TasksCalm, NEW r \in RunIds, runs'[r].task = runs[r].task, Scheduled(r)
    PROVE  TaskExists(runs[r].task)' <=> TaskExists(runs[r].task)
<1>1. PICK t : t = runs[r].task
    OBVIOUS
<1>2. t \in Tasks /\ tasks[t].status # "absent"
    BY <1>1 DEF Steady, LinkedRuns, RunLinked, NoRun, Scheduled
<1> QED BY <1>1, <1>2 DEF TasksCalm, TaskExists

\* a, if it was to link a message to r, has found the run or the message gone.
LinkDropped(a, r) ==
    pc[a] = "link" =>
        loc[a].run # r \/ ~RunExists(r) \/ ~AgentExists(loc[a].agent)

CallerEases(c, p, l, r) ==
    /\ p # "link" /\ (p \in {"touch", "dispatch"} /\ l.run = r => Inserted(r))
    /\ LinkDropped(c, r)

LEMMA CallerSettles ==
    ASSUME TypeOK, Steady, TasksCalm, UNCHANGED <<agents, revived>>, sched' = sched,
           NEW c \in Callers, NEW p, NEW l, Moves(c, p, l),
           NEW r \in RunIds, runs'[r] = runs[r], CallerEases(c, p, l, r)
    PROVE  Settles(r)
<1> SUFFICES ASSUME Kept(r) PROVE Settles(r)
  <2>1. ~Kept(r) => Settles(r)
      BY DEF Settles
  <2> QED BY <2>1
<1>1. ActorTypes /\ AgentsSettle(r)
    BY TypeParts, AgentsStay
<1>2. p # "link" /\ (p \in {"touch", "dispatch"} /\ l.run = r => Inserted(r))
    BY DEF CallerEases
<1>3. /\ Inserted(r)' => Inserted(r)
      /\ (Handled(r)' <=> Handled(r)) /\ (Linking(r)' <=> Linking(r))
      /\ (Closing(r)' <=> Closing(r)) /\ (Stale(r)' <=> Stale(r))
      /\ pc'[Scheduler] = pc[Scheduler] /\ loc'[Scheduler] = loc[Scheduler]
      /\ \A x \in Linked(r) : x \in Linked(r)' \/ Links(c, r, x)
      /\ Linked(r)' \subseteq Linked(r)
    BY <1>1, <1>2, CallerFlags
<1>4. Allowed(r)' => Allowed(r)
    BY <1>3 DEF Allowed, AgentExists
<1>5. RunExists(r) => \A x \in Linked(r) : x \in Linked(r)' \/ ~AgentExists(x)
    BY <1>3 DEF CallerEases, LinkDropped, Links
<1>6. Eased(r)
    BY <1>3, <1>4, <1>5 DEF Eased, Kept, Follows
<1>7. Scheduled(r) => (TaskExists(runs[r].task)' <=> TaskExists(runs[r].task))
    BY TaskStays
<1> QED BY <1>1, <1>6, <1>7, RunSettles

LoopEases(r) ==
    /\ Handled(r)' => Handled(r) \/ runs[r].status = "pending"
    /\ Scheduled(r) /\ Closing(r)' => Live(r) = {} \/ ~TaskExists(runs[r].task)
    /\ Scheduled(r) /\ Stale(r)' => Live(r) = {}
    /\ LinkDropped(Scheduler, r)

LEMMA LoopSettles ==
    ASSUME TypeOK, Steady, TasksCalm, UNCHANGED <<agents, revived>>,
           NEW p, NEW l, Moves(Scheduler, p, l), p # "link",
           NEW r \in RunIds, runs'[r] = runs[r], Kept(r), LoopEases(r)
    PROVE  Settles(r)
<1>1. ActorTypes /\ AgentsSettle(r)
    BY TypeParts, AgentsStay
<1>2. /\ Inserted(r)' => Inserted(r)
      /\ ~Linking(r)'
      /\ \A x \in Linked(r) : x \in Linked(r)' \/ Links(Scheduler, r, x)
      /\ Linked(r)' \subseteq Linked(r)
    BY <1>1, LoopFlags
<1>3. Allowed(r)' => Allowed(r)
    BY DEF Allowed, LoopEases, LinkDropped, Linking, RunExists
<1>4. RunExists(r) => \A x \in Linked(r) : x \in Linked(r)' \/ ~AgentExists(x)
    BY <1>2 DEF LoopEases, LinkDropped, Links
<1>5. Eased(r)
    BY <1>2, <1>3, <1>4 DEF Eased, LoopEases
<1>6. Scheduled(r) => (TaskExists(runs[r].task)' <=> TaskExists(runs[r].task))
    BY TaskStays
<1> QED BY <1>1, <1>5, <1>6, RunSettles

\* The loop moves on with what is left of its scan, and begins nothing.
LEMMA LoopReturns ==
    ASSUME TypeOK, Steady, TasksCalm, UNCHANGED <<agents, revived>>, Shrunk,
           NEW p, NEW l, Moves(Scheduler, p, l), p \notin {"dispatch", "link"},
           p = "mark_failed" => l.snap.agent # None,
           NEW r \in RunIds, runs'[r] = runs[r], LinkDropped(Scheduler, r)
    PROVE  Settles(r)
<1> SUFFICES ASSUME Kept(r) PROVE Settles(r)
  <2>1. ~Kept(r) => Settles(r)
      BY DEF Settles
  <2> QED BY <2>1
<1>1. /\ Handled(r)' => Handled(r)
      /\ ~Closing(r)'
      /\ Stale(r)' => Stale(r)
    BY TypeParts, LoopFlags
<1>2. LoopEases(r)
    BY <1>1 DEF LoopEases, Kept, Follows
<1> QED BY <1>2, LoopSettles

LEMMA AbortSettles ==
    ASSUME TypeOK, Steady, TasksCalm, UNCHANGED <<agents, revived>>,
           NEW a \in Actors, Abort(a),
           NEW r \in RunIds, runs'[r] = runs[r], LinkDropped(a, r)
    PROVE  Settles(r)
<1>1. Moves(a, "idle", Idle)
    BY GotoMoves DEF Abort, Reset
<1>2. CASE a = Scheduler
  <2>1. Shrunk
      BY <1>2, IdleFacts DEF Abort, Shrunk
  <2> QED BY <1>1, <1>2, <2>1, LoopReturns
<1>3. CASE a \in Callers /\ a # Scheduler
  <2>1. CallerEases(a, "idle", Idle, r)
      BY DEF CallerEases
  <2>2. sched' = sched
      BY <1>3 DEF Abort
  <2> QED BY <1>1, <1>3, <2>1, <2>2, CallerSettles
<1> QED BY <1>2, <1>3, BoundsAssumption DEF Actors

\* The loop makes no new decision to start a run.
NoneDecided == \A t \in Tasks : Decided(t)' => Decided(t)

LEMMA CallerDecides ==
    ASSUME TypeOK, Steady, TasksCalm, NEW c \in Callers, NEW p, NEW l, Moves(c, p, l)
    PROVE  NoneDecided
<1>1. pc'[Scheduler] = pc[Scheduler] /\ loc'[Scheduler] = loc[Scheduler]
    BY TypeParts, Moved, BoundsAssumption DEF Actors
<1>2. pc[Scheduler] = "claim" => tasks[loc[Scheduler].task].status # "absent"
    BY DEF Steady, ActorsHold, Holds, Actors
<1> QED BY <1>1, <1>2 DEF NoneDecided, Decided, TasksCalm

LEMMA LoopDecides ==
    ASSUME TypeOK, NEW p, NEW l, Moves(Scheduler, p, l), p # "claim"
    PROVE  NoneDecided
<1>1. pc'[Scheduler] = p
    BY TypeParts, Moved DEF Actors
<1> QED BY <1>1 DEF NoneDecided, Decided

LEMMA ActorDecides ==
    ASSUME TypeOK, Steady, TasksCalm, NEW a \in Actors, NEW p, NEW l, Moves(a, p, l), p # "claim"
    PROVE  NoneDecided
  BY CallerDecides, LoopDecides DEF Actors

LEMMA AbortDecides ==
    ASSUME TypeOK, Steady, TasksCalm, NEW a \in Actors, Abort(a)
    PROVE  NoneDecided
<1>1. Moves(a, "idle", Idle)
    BY GotoMoves DEF Abort, Reset
<1> QED BY <1>1, ActorDecides

\* Only actors move: the tables that the runs depend on stay.
Idles ==
    /\ Still /\ rewound' = rewound
    /\ sched'.phase = "due" => sched.phase = "due" /\ sched'.at = sched.at

LEMMA IdlesCalm ==
    ASSUME TypeOK, Idles
    PROVE  TasksCalm /\ UNCHANGED <<agents, revived, runs, torn>>
  BY StillTables DEF Idles, Still, Calm

LEMMA IdlesAdvance ==
    ASSUME TypeOK, Idles, \A r \in RunIds \ torn : Settles(r)
    PROVE  Advances
<1>1. now <= now
    BY TypeParts, BoundsAssumption DEF Tables, Times
<1> QED BY <1>1 DEF Idles, Still, Advances, RowsStay, NextPut, ClockRuns, Scheduled

LEMMA QueueInputFailsAdvances ==
    ASSUME IInv, NEW a \in Actors, QueueInputFails(a)
    PROVE  Advances /\ NoneDecided
<1>1. TypeOK /\ Steady /\ pc[a] = "dispatch" /\ Abort(a)
    BY DEF IInv, QueueInputFails
<1>2. Idles
    BY <1>1 DEF QueueInputFails, Idles, Still, history, Abort, NoScan
<1>3. ASSUME NEW r \in RunIds \ torn PROVE Settles(r)
  <2>1. LinkDropped(a, r)
      BY <1>1 DEF LinkDropped
  <2> QED BY <1>1, <1>2, <2>1, IdlesCalm, AbortSettles
<1> QED BY <1>1, <1>2, <1>3, IdlesCalm, IdlesAdvance, AbortDecides

LEMMA ScanDoneAdvances ==
    ASSUME IInv, ScanDone
    PROVE  Advances /\ NoneDecided
<1>1. TypeOK /\ Steady /\ pc[Scheduler] = "due" /\ Abort(Scheduler) /\ Scheduler \in Actors
    BY DEF IInv, ScanDone, Actors
<1>2. Idles
    BY <1>1 DEF ScanDone, Idles, Still, history, Abort, NoScan
<1>3. ASSUME NEW r \in RunIds \ torn PROVE Settles(r)
  <2>1. LinkDropped(Scheduler, r)
      BY <1>1 DEF LinkDropped
  <2> QED BY <1>1, <1>2, <2>1, IdlesCalm, AbortSettles
<1> QED BY <1>1, <1>2, <1>3, IdlesCalm, IdlesAdvance, AbortDecides

\* A request moves to a statement that dispatches nothing.
LEMMA CallerMoveAdvances ==
    ASSUME IInv, Idles, sched' = sched, NEW c \in Callers, NEW p, NEW l, Moves(c, p, l),
           p \notin {"touch", "dispatch", "link"}, pc[c] # "link"
    PROVE  Advances /\ NoneDecided
<1>1. TypeOK /\ Steady
    BY DEF IInv
<1>2. ASSUME NEW r \in RunIds \ torn PROVE Settles(r)
  <2>1. CallerEases(c, p, l, r)
      BY DEF CallerEases, LinkDropped
  <2>2. runs'[r] = runs[r]
      BY <1>1, IdlesCalm
  <2> QED BY <1>1, <2>1, <2>2, IdlesCalm, CallerSettles
<1> QED BY <1>1, <1>2, IdlesCalm, IdlesAdvance, CallerDecides

LEMMA LoopMoveAdvances ==
    ASSUME IInv, Idles, Shrunk, NEW p, NEW l, Moves(Scheduler, p, l),
           p \notin {"dispatch", "link"}, p = "mark_failed" => l.snap.agent # None,
           pc[Scheduler] # "link"
    PROVE  Advances
<1>1. TypeOK /\ Steady
    BY DEF IInv
<1>2. ASSUME NEW r \in RunIds \ torn PROVE Settles(r)
  <2>1. LinkDropped(Scheduler, r)
      BY DEF LinkDropped
  <2>2. runs'[r] = runs[r]
      BY <1>1, IdlesCalm
  <2> QED BY <1>1, <2>1, <2>2, IdlesCalm, LoopReturns
<1> QED BY <1>1, <1>2, IdlesAdvance

LEMMA QueueFailsAdvances ==
    ASSUME IInv, NEW a \in Actors, QueueFails(a)
    PROVE  Advances /\ NoneDecided
<1>1. TypeOK /\ Steady /\ pc[a] = "dispatch" /\ Goto(a, "mark_failed", loc[a]) /\ sched' = sched
    BY DEF IInv, QueueFails
<1>2. Idles
    BY <1>1 DEF QueueFails, Idles, Still, history
<1>3. PICK l : l = loc[a]
    OBVIOUS
<1>4. Moves(a, "mark_failed", l)
    BY <1>1, <1>3, GotoMoves DEF Reset
<1>5. CASE a \in Callers
    BY <1>1, <1>2, <1>4, <1>5, CallerMoveAdvances
<1>6. CASE a = Scheduler
  <2>1. ASSUME NEW r \in RunIds \ torn PROVE Settles(r)
    <3>1. Kept(r) /\ runs'[r] = runs[r]
        BY <1>1, <1>2, IdlesCalm DEF IInv
    <3>2. Handled(r)' => Handled(r)
        BY <1>1, <1>4, <1>6, TypeParts, LoopFlags DEF Shrunk
    <3>3. ASSUME Scheduled(r), Closing(r)' PROVE Live(r) = {}
      <4>1. l.run = r
          BY <1>1, <1>4, <1>6, <3>3, TypeParts, LoopFlags
      <4>2. Allowed(r) /\ ~Manual(r)
          BY <1>1, <1>3, <1>6, <3>3, <4>1 DEF Allowed, Handled, Manual, Scheduled
      <4> QED BY <3>1, <4>2 DEF Kept, Budget
    <3>4. ASSUME Scheduled(r), Stale(r)' PROVE Live(r) = {}
      <4>1. Stale(r)
          BY <1>1, <3>4 DEF Stale
      <4> QED BY <3>1, <3>4, <4>1 DEF Kept, Follows
    <3>5. LinkDropped(Scheduler, r)
        BY <1>1, <1>6 DEF LinkDropped
    <3>6. LoopEases(r)
        BY <3>2, <3>3, <3>4, <3>5 DEF LoopEases
    <3> QED BY <1>1, <1>2, <1>4, <1>6, <3>1, <3>6, IdlesCalm, LoopSettles
  <2> QED BY <1>1, <1>2, <1>4, <1>6, <2>1, IdlesAdvance, LoopDecides
<1> QED BY <1>5, <1>6 DEF Actors

LEMMA SyncReadAdvances ==
    ASSUME IInv, NEW a \in Actors, SyncRead(a)
    PROVE  Advances /\ NoneDecided
<1>1. TypeOK /\ Steady /\ pc[a] = "sync" /\ sched' = sched /\ "sync" \in Writers
    BY DEF IInv, SyncRead, Writers
<1>2. Idles
    BY <1>1 DEF SyncRead, Idles, Still, history
<1>3. PICK label, m : /\ Goto(a, label, m)
                      /\ \/ label = Back(a)
                         \/ label = "mark_failed" /\ m.snap.agent # None
                         \/ label = "sync_write"
  <2>1. PICK s : s = loc[a].snap
      OBVIOUS
  <2> QED BY <2>1 DEF SyncRead
<1>4. Back(a) \in {"idle", "reconcile", "due", "cancel"}
  <2>1. loc[a] \in Locals
      BY <1>1, ActorFacts
  <2> QED BY <1>1, <2>1, BackPlaced
<1>5. PICK l : l = Reset(label, m)
    OBVIOUS
<1>6. Moves(a, label, l)
    BY <1>3, <1>5, GotoMoves
<1>7. label = "mark_failed" => l.snap.agent # None
    BY <1>3, <1>4, <1>5 DEF Reset
<1>8. label \notin {"touch", "dispatch", "link", "claim"}
    BY <1>3, <1>4
<1>9. CASE a \in Callers
    BY <1>1, <1>2, <1>6, <1>8, <1>9, CallerMoveAdvances
<1>10. CASE a = Scheduler
  <2>1. Shrunk
      BY <1>1 DEF Shrunk
  <2> QED BY <1>1, <1>2, <1>6, <1>7, <1>8, <1>10, <2>1, LoopMoveAdvances, LoopDecides
<1> QED BY <1>9, <1>10 DEF Actors

LEMMA ScanStartAdvances ==
    ASSUME IInv, ScanStart
    PROVE  Advances /\ NoneDecided
<1>1. TypeOK /\ Steady /\ pc[Scheduler] = "idle" /\ ActorTypes /\ Scheduler \in Actors
    BY TypeParts DEF IInv, ScanStart, Actors
<1>2. sched'.phase = "reconcile" /\ sched'.todo = [r \in ActiveRuns |-> runs[r]]
    BY DEF ScanStart, NoScan
<1>3. Idles
    BY <1>2 DEF ScanStart, Idles, Still, history
<1>4. PICK l : l = loc[Scheduler]
    OBVIOUS
<1>5. Moves(Scheduler, "reconcile", l)
    BY <1>1, <1>4 DEF ScanStart, Moves, ActorTypes
<1>6. ASSUME NEW r \in RunIds \ torn PROVE Settles(r)
  <2>1. Kept(r) /\ runs'[r] = runs[r]
      BY <1>1, <1>3, IdlesCalm DEF IInv
  <2>2. pc'[Scheduler] = "reconcile"
      BY <1>1, <1>5, Moved
  <2>3. Handled(r)' => runs[r].status = "pending"
      BY <1>2, <2>2 DEF Handled
  <2>4. ~Closing(r)'
      BY <2>2 DEF Closing
  <2>5. ASSUME Scheduled(r), Stale(r)' PROVE Live(r) = {}
    <3>1. runs[r].status \in {"queued", "running"} /\ runs[r].agent = None
        BY <1>2, <2>5 DEF Stale, ActiveRuns, ActiveStatuses
    <3> QED BY <2>1, <2>5, <3>1 DEF Kept, Follows
  <2>6. LoopEases(r)
      BY <1>1, <2>3, <2>4, <2>5 DEF LoopEases, LinkDropped
  <2> QED BY <1>1, <1>3, <1>5, <2>1, <2>6, IdlesCalm, LoopSettles
<1> QED BY <1>1, <1>3, <1>5, <1>6, IdlesAdvance, LoopDecides

LEMMA ReconcileRunAdvances ==
    ASSUME IInv, ReconcileRun
    PROVE  Advances /\ NoneDecided
<1>1. TypeOK /\ Steady /\ pc[Scheduler] = "reconcile" /\ DOMAIN sched.todo # {}
    BY DEF IInv, ReconcileRun
<1>2. PICK r0 : r0 = FirstRun(sched.todo)
    OBVIOUS
<1>3. r0 \in DOMAIN sched.todo
    BY <1>1, <1>2, TypeParts, FirstRunIn
<1>4. PICK s \in RunRows : s = sched.todo[r0]
    BY <1>1, <1>3, TypeParts DEF ScanType
<1>5. PICK label : label = IF s.agent # None THEN "sync"
                           ELSE IF s.status = "pending" /\ TaskExists(s.task) THEN "dispatch"
                           ELSE "mark_failed"
    OBVIOUS
<1>6. PICK l : l = [Idle EXCEPT !.task = s.task, !.run = r0, !.snap = s]
    OBVIOUS
<1>7. l.run = r0 /\ l.snap = s
    BY <1>6 DEF Idle
<1>8. Moves(Scheduler, label, l)
  <2>1. Goto(Scheduler, label, l)
      BY <1>2, <1>4, <1>5, <1>6 DEF ReconcileRun
  <2> QED BY <1>5, <2>1, GotoMoves DEF Reset
<1>9. /\ sched'.phase = sched.phase /\ sched'.at = sched.at
      /\ sched' = [sched EXCEPT !.todo = [q \in DOMAIN sched.todo \ {r0} |-> sched.todo[q]]]
    BY <1>2 DEF ReconcileRun
<1>10. Shrunk
  <2>1. sched'.todo = [q \in DOMAIN sched.todo \ {r0} |-> sched.todo[q]]
     BY <1>1, <1>9 DEF TypeOK
  <2> QED BY <2>1 DEF Shrunk
<1>11. Idles
    BY <1>9 DEF ReconcileRun, Idles, Still, history
<1>12. label \in {"sync", "dispatch", "mark_failed"}
    BY <1>5
<1>13. s.task = runs[r0].task
    BY <1>1, <1>3, <1>4 DEF Steady, Scanned, Snapshot
<1>14. ASSUME NEW r \in RunIds \ torn PROVE Settles(r)
  <2>1. Kept(r) /\ runs'[r] = runs[r]
      BY <1>1, <1>11, IdlesCalm DEF IInv
  <2>2. /\ Handled(r)' => Handled(r) \/ (label = "dispatch" /\ l.run = r)
        /\ Closing(r)' => label = "mark_failed" /\ l.run = r /\ l.snap.agent = None
        /\ Stale(r)' => Stale(r)
      BY <1>1, <1>8, <1>10, TypeParts, LoopFlags
  <2>3. label = "dispatch" /\ r0 = r => Handled(r)
      BY <1>3, <1>4, <1>5 DEF Handled
  <2>4. ASSUME Scheduled(r), Closing(r)' PROVE Live(r) = {} \/ ~TaskExists(runs[r].task)
    <3>1. r0 = r /\ s.agent = None /\ (s.status # "pending" \/ ~TaskExists(s.task))
        BY <1>5, <1>7, <2>2, <2>4
    <3>2. s.status # "pending" => Stale(r)
        BY <1>3, <1>4, <3>1 DEF Stale
    <3> QED BY <1>13, <2>1, <2>4, <3>1, <3>2 DEF Kept, Follows
  <2>5. Scheduled(r) /\ Stale(r)' => Live(r) = {}
      BY <2>1, <2>2 DEF Kept, Follows
  <2>6. LoopEases(r)
      BY <1>1, <1>7, <2>2, <2>3, <2>4, <2>5 DEF LoopEases, LinkDropped
  <2> QED BY <1>1, <1>8, <1>11, <1>12, <2>1, <2>6, IdlesCalm, LoopSettles
<1> QED BY <1>1, <1>8, <1>11, <1>12, <1>14, IdlesAdvance, LoopDecides

LEMMA DueReadAdvances ==
    ASSUME IInv, NEW t \in Tasks, DueRead(t)
    PROVE  Advances /\ NoneDecided
<1>1. TypeOK /\ Steady /\ pc[Scheduler] = "due"
    BY DEF IInv, DueRead
<1>2. PICK l : Goto(Scheduler, "count", l)
    BY DEF DueRead
<1>3. Moves(Scheduler, "count", l)
    BY <1>2, GotoMoves DEF Reset
<1>4. sched'.phase = sched.phase /\ sched'.at = sched.at /\ sched'.todo = sched.todo
    BY DEF DueRead
<1>5. Idles /\ Shrunk
    BY <1>4 DEF DueRead, Idles, Still, history, Shrunk
<1> QED BY <1>1, <1>3, <1>5, LoopMoveAdvances, LoopDecides

\* The count finds no active run: all runs of the task have ended.
LEMMA CountActiveAdvances ==
    ASSUME IInv, CountActive
    PROVE  Advances /\ Cleared'
<1>1. TypeOK /\ Steady /\ pc[Scheduler] = "count" /\ sched' = sched /\ Scheduler \in Actors
    BY DEF IInv, CountActive, Actors
<1>2. PICK t : t = loc[Scheduler].task
    OBVIOUS
<1>3. PICK skip : skip = (t \in SkipTasks /\ \E r \in ActiveRuns : runs[r].task = t)
    OBVIOUS
<1>4. PICK op : op = IF skip THEN "skipped" ELSE "pending"
    OBVIOUS
<1>5. PICK l \in Locals : l = loc[Scheduler]
    BY <1>1, ActorFacts
<1>6. PICK m : m = [l EXCEPT !.op = op]
    OBVIOUS
<1>7. m.op = op /\ m.task = t
    BY <1>2, <1>5, <1>6 DEF Locals
<1>8. Moves(Scheduler, "claim", m)
  <2>1. Goto(Scheduler, "claim", m)
      BY <1>2, <1>3, <1>4, <1>5, <1>6 DEF CountActive
  <2> QED BY <2>1, GotoMoves DEF Reset
<1>9. Idles /\ Shrunk
    BY <1>1 DEF CountActive, Idles, Still, history, Shrunk
<1>10. Advances
    BY <1>1, <1>8, <1>9, LoopMoveAdvances
<1>11. pc'[Scheduler] = "claim" /\ loc'[Scheduler] = m
    BY <1>1, <1>8, TypeParts, Moved
<1>12. runs' = runs /\ tasks' = tasks /\ torn' = torn
    BY <1>9 DEF Idles, Still
<1>13. ASSUME NEW r \in RunIds \ torn, Scheduled(r), Decided(runs[r].task)' PROVE Finished(r)
  <2>1. op = "pending" /\ runs[r].task = t /\ t \in SkipTasks /\ TaskExists(t)
      BY <1>7, <1>11, <1>12, <1>13 DEF Decided, TaskExists
  <2>2. runs[r].status \notin ActiveStatuses
      BY <1>3, <1>4, <2>1 DEF ActiveRuns
  <2>3. Follows(r)
      BY <1>13 DEF IInv, Kept
  <2>4. ~Handled(r) /\ ~Linking(r)
      BY <2>1, <2>2, <2>3 DEF Follows, ActiveStatuses
  <2>5. runs[r].status \in Terminal \/ runs[r].status = "deleted"
    <3>1. runs[r].status # "absent"
        BY <1>1, <1>13 DEF Steady, LinkedRuns, RunLinked, NoRun, Scheduled
    <3>2. runs[r] \in RunRows
        BY <1>1, TypeParts DEF Tables
    <3> QED BY <2>2, <3>1, <3>2 DEF RunRows
  <2>6. Quiet(r)
      BY <2>1, <2>3, <2>5 DEF Follows
  <2> QED BY <2>2, <2>4, <2>6 DEF Finished, ActiveStatuses
<1>14. Cleared'
  <2> SUFFICES ASSUME NEW r \in RunIds \ torn', Scheduled(r)', Decided(runs[r].task)'
               PROVE  Finished(r)'
      BY DEF Cleared
  <2>1. r \in RunIds \ torn /\ Scheduled(r)
      BY <1>12 DEF Scheduled
  <2>2. Finished(r)
      BY <1>13, <2>1
  <2> QED BY <1>10, <2>1, <2>2 DEF Advances, Settles, IInv
<1> QED BY <1>10, <1>14

LEMMA EditReadAdvances ==
    ASSUME IInv, NEW c \in Callers, NEW t \in Tasks, EditRead(c, t)
    PROVE  Advances /\ NoneDecided
<1>1. pc[c] = "idle" /\ sched' = sched /\ Idles
    BY DEF EditRead, Called, Idles, Still, history
<1>2. PICK l : Goto(c, "edit", l)
    BY DEF EditRead
<1>3. Moves(c, "edit", l)
    BY <1>2, GotoMoves DEF Reset
<1> QED BY <1>1, <1>3, CallerMoveAdvances

LEMMA RunNowReadAdvances ==
    ASSUME IInv, NEW c \in Callers, NEW t \in Tasks, RunNowRead(c, t)
    PROVE  Advances /\ NoneDecided
<1>1. pc[c] = "idle" /\ sched' = sched /\ Idles
    BY DEF RunNowRead, Called, Idles, Still, history
<1>2. PICK l : Goto(c, "insert", l)
    BY DEF RunNowRead
<1>3. Moves(c, "insert", l)
    BY <1>2, GotoMoves DEF Reset
<1> QED BY <1>1, <1>3, CallerMoveAdvances

LEMMA RunReadAdvances ==
    ASSUME IInv, NEW c \in Callers, NEW r \in RunIds, SyncCall(c, r) \/ CancelCall(c, r)
    PROVE  Advances /\ NoneDecided
<1>1. pc[c] = "idle" /\ sched' = sched /\ Idles
    BY DEF SyncCall, CancelCall, Called, Idles, Still, history
<1>2. PICK l : Goto(c, "sync", l)
    BY DEF SyncCall, CancelCall
<1>3. Moves(c, "sync", l)
    BY <1>2, GotoMoves DEF Reset
<1> QED BY <1>1, <1>3, CallerMoveAdvances

\* A request writes the whole row of a task back.
LEMMA UpdateTaskAdvances ==
    ASSUME IInv, NEW c \in Callers, NEW row, NEW label \in {"idle", "dispatch"},
           UNCHANGED <<now, broken, runs, agents, torn, revived>>,
           UpdateTask(c, row, label), loc[c].task \in Tasks,
           row.status \notin {"absent", "deleted"},
           pc[c] \in {"edit", "touch"}, label = "dispatch" => pc[c] = "touch"
    PROVE  Advances /\ NoneDecided
<1>1. TypeOK /\ Steady /\ c \in Actors /\ c # Scheduler
    BY BoundsAssumption DEF IInv, Actors
<1>2. PICK t \in Tasks : t = loc[c].task
    OBVIOUS
<1>3. now <= now
    BY <1>1, TypeParts, BoundsAssumption DEF Tables, Times
<1>4. RowsStay
    BY DEF RowsStay, Scheduled
<1>5. CASE ~TaskExists(t)
  <2>1. UNCHANGED <<tasks, rewound>> /\ Abort(c)
      BY <1>2, <1>5 DEF UpdateTask
  <2>2. Idles
      BY <1>1, <2>1 DEF Idles, Still, Abort
  <2>3. ASSUME NEW r \in RunIds \ torn PROVE Settles(r)
    <3>1. LinkDropped(c, r)
        BY DEF LinkDropped
    <3> QED BY <1>1, <2>1, <2>2, <3>1, IdlesCalm, AbortSettles
  <2> QED BY <1>1, <2>1, <2>2, <2>3, IdlesCalm, IdlesAdvance, AbortDecides
<1>6. CASE TaskExists(t)
  <2>1. /\ tasks' = [tasks EXCEPT ![t] = row] /\ Goto(c, label, loc[c]) /\ sched' = sched
        /\ rewound' = IF row.next \in Claimed(t) THEN rewound \cup {<<t, row.next>>} ELSE rewound
      BY <1>2, <1>6 DEF UpdateTask
  <2>2. tasks \in [Tasks -> TaskRows]
      BY <1>1, TypeParts DEF Tables
  <2>3. TasksCalm
      BY <1>6, <2>1, <2>2 DEF TasksCalm, TaskExists
  <2>4. NextPut
      BY <2>1, <2>2 DEF NextPut
  <2>5. ClockRuns
      BY <1>3, <2>1 DEF ClockRuns
  <2>6. PICK l : l = loc[c]
      OBVIOUS
  <2>7. PICK m : m = Reset(label, l)
      OBVIOUS
  <2>8. Moves(c, label, m)
      BY <2>1, <2>6, <2>7, GotoMoves
  <2>9. ASSUME NEW r \in RunIds \ torn PROVE Settles(r)
    <3>1. ASSUME label = "dispatch", m.run = r PROVE Inserted(r)
        BY <2>6, <2>7, <3>1 DEF Inserted, Reset
    <3>2. CallerEases(c, label, m, r)
        BY <3>1 DEF CallerEases, LinkDropped
    <3> QED BY <1>1, <2>1, <2>3, <2>8, <3>2, CallerSettles
  <2> QED BY <1>1, <1>4, <2>3, <2>4, <2>5, <2>8, <2>9, CallerDecides DEF Advances
<1> QED BY <1>5, <1>6

LEMMA EditWriteAdvances ==
    ASSUME IInv, NEW c \in Callers, EditWrite(c)
    PROVE  Advances /\ NoneDecided
<1>1. TypeOK /\ Steady /\ c \in Actors /\ pc[c] = "edit" /\ UpdateTask(c, loc[c].row, "idle")
      /\ UNCHANGED <<now, broken, runs, agents, torn, revived>>
    BY DEF IInv, EditWrite, Actors
<1>2. loc[c].task \in Tasks /\ loc[c].row.status \notin {"absent", "deleted"}
    BY <1>1, ActorFacts DEF Holds
<1> QED BY <1>1, <1>2, UpdateTaskAdvances

LEMMA RunNowTouchAdvances ==
    ASSUME IInv, NEW c \in Callers, RunNowTouch(c)
    PROVE  Advances /\ NoneDecided
<1>1. TypeOK /\ Steady /\ c \in Actors /\ pc[c] = "touch" /\ UpdateTask(c, loc[c].row, "dispatch")
      /\ UNCHANGED <<now, broken, runs, agents, torn, revived>>
    BY DEF IInv, RunNowTouch, Actors
<1>2. loc[c].task \in Tasks /\ loc[c].row.status \notin {"absent", "deleted"}
    BY <1>1, ActorFacts DEF Holds
<1> QED BY <1>1, <1>2, UpdateTaskAdvances

\* Nobody moves.
LEMMA FlagsStay ==
    ASSUME UNCHANGED <<pc, loc, sched>>, NEW r
    PROVE  /\ Inserted(r)' <=> Inserted(r)
           /\ Handled(r)' <=> Handled(r)
           /\ Linking(r)' <=> Linking(r)
           /\ Closing(r)' <=> Closing(r)
           /\ Stale(r)' <=> Stale(r)
           /\ Linked(r)' = Linked(r)
  BY DEF Inserted, Handled, Linking, Closing, Stale, Linked

LEMMA StaySettles ==
    ASSUME UNCHANGED <<pc, loc, sched>>, NEW r \in RunIds, runs'[r] = runs[r], AgentsSettle(r),
           \A x \in AgentIds : AgentExists(x)' <=> AgentExists(x),
           ActorsHold, TypeOK,
           Scheduled(r) => (TaskExists(runs[r].task)' <=> TaskExists(runs[r].task))
    PROVE  Settles(r)
<1> SUFFICES ASSUME Kept(r) PROVE Settles(r)
  <2>1. ~Kept(r) => Settles(r)
      BY DEF Settles
  <2> QED BY <2>1
<1>1. Allowed(r)' => Allowed(r)
  <2>1. Linking(r) => loc[Scheduler].agent \in AgentIds
    <3>1. Scheduler \in Actors
        BY DEF Actors
    <3>2. loc[Scheduler] \in Locals
        BY <3>1, TypeParts DEF ActorTypes
    <3>3. Linking(r) => loc[Scheduler].agent # None
        BY <3>1 DEF Linking, ActorsHold, Holds
    <3> QED BY <3>2, <3>3 DEF Locals
  <2>2. PICK x : x = loc[Scheduler].agent
      OBVIOUS
  <2>3. Linking(r) => (AgentExists(x)' <=> AgentExists(x))
      BY <2>1, <2>2
  <2>4. AgentExists(loc[Scheduler].agent)' <=> AgentExists(x)'
      BY <2>2 DEF AgentExists
  <2> QED BY <2>2, <2>3, <2>4, FlagsStay DEF Allowed
<1>2. Eased(r)
    BY <1>1, FlagsStay DEF Eased, Kept, Follows
<1> QED BY <1>2, RunSettles

LEMMA CalmAdvances ==
    ASSUME IInv, UNCHANGED <<pc, loc, sched>>, UNCHANGED <<runs, agents, revived, torn, rewound>>,
           TasksCalm, NextPut, now <= now'
    PROVE  Advances /\ NoneDecided
<1>1. TypeOK /\ Steady /\ ActorsHold /\ Scheduler \in Actors
    BY DEF IInv, Steady, Actors
<1>2. ASSUME NEW r \in RunIds \ torn PROVE Settles(r)
  <2>1. AgentsSettle(r)
      BY AgentsStay
  <2>2. \A x \in AgentIds : AgentExists(x)' <=> AgentExists(x)
      BY DEF AgentExists
  <2>3. Scheduled(r) => (TaskExists(runs[r].task)' <=> TaskExists(runs[r].task))
      BY <1>1, TaskStays
  <2> QED BY <1>1, <2>1, <2>2, <2>3, StaySettles
<1>3. NoneDecided
  <2>1. pc[Scheduler] = "claim" => tasks[loc[Scheduler].task].status # "absent"
      BY <1>1 DEF ActorsHold, Holds
  <2> QED BY <2>1 DEF NoneDecided, Decided, TasksCalm
<1> QED BY <1>2, <1>3 DEF Advances, RowsStay, ClockRuns, Scheduled

LEMMA CreateTaskAdvances ==
    ASSUME IInv, NEW t \in Tasks, NEW s \in Schedules, NEW st \in {"enabled", "paused"},
           CreateTask(t, s, st)
    PROVE  Advances /\ NoneDecided
<1>1. /\ tasks[t].status = "absent" /\ UNCHANGED <<now, broken, runs, agents, torn, revived, rewound>>
      /\ UNCHANGED <<pc, loc, sched>>
    BY DEF CreateTask, history
<1>2. Tables /\ now <= now
    BY TypeParts, BoundsAssumption DEF IInv, Tables, Times
<1>3. PICK row : tasks' = [tasks EXCEPT ![t] = row]
    BY DEF CreateTask
<1>4. TasksCalm
    BY <1>1, <1>2, <1>3 DEF TasksCalm, TaskExists, Tables
<1>5. Claimed(t) = {}
    BY <1>1 DEF IInv, Steady, LinkedRuns, RunLinked, NoRun, Claimed
<1>6. NextPut
    BY <1>2, <1>3, <1>5 DEF NextPut, Tables
<1> QED BY <1>1, <1>2, <1>4, <1>6, CalmAdvances

LEMMA RemoveDefinitionAdvances ==
    ASSUME IInv, NEW t \in Tasks, RemoveDefinition(t)
    PROVE  Advances /\ NoneDecided
<1>1. UNCHANGED <<now, tasks, runs, agents, torn, revived, rewound>> /\ UNCHANGED <<pc, loc, sched>>
    BY DEF RemoveDefinition, history
<1>2. now <= now
    BY TypeParts, BoundsAssumption DEF IInv, Tables, Times
<1>3. TasksCalm /\ NextPut
    BY <1>1 DEF TasksCalm, TaskExists, NextPut
<1> QED BY <1>1, <1>2, <1>3, CalmAdvances

LEMMA TickAdvances ==
    ASSUME IInv, Tick
    PROVE  Advances /\ NoneDecided
<1>1. /\ \E n \in Instants : n > now /\ now' = n
      /\ UNCHANGED <<tasks, runs, agents, torn, revived, rewound>> /\ UNCHANGED <<pc, loc, sched>>
    BY DEF Tick, history
<1>2. now <= now'
    BY <1>1, TypeParts, BoundsAssumption DEF IInv, Tables, Times
<1>3. TasksCalm /\ NextPut
    BY <1>1 DEF TasksCalm, TaskExists, NextPut
<1> QED BY <1>1, <1>2, <1>3, CalmAdvances

LEMMA StutterAdvances ==
    ASSUME IInv, UNCHANGED vars
    PROVE  Advances /\ NoneDecided
<1>1. UNCHANGED <<now, tasks, runs, agents, torn, revived, rewound>> /\ UNCHANGED <<pc, loc, sched>>
    BY DEF vars, history
<1>2. now <= now
    BY TypeParts, BoundsAssumption DEF IInv, Tables, Times
<1>3. TasksCalm /\ NextPut
    BY <1>1 DEF TasksCalm, TaskExists, NextPut
<1> QED BY <1>1, <1>2, <1>3, CalmAdvances

\* What was to be linked is lost, and a run that loses the message of the loop
\* may be queued again.
LEMMA EndsKeep ==
    ASSUME TypeOK, Steady, NEW D, Ends(D), NEW r \in RunIds, Kept(r)
    PROVE  Kept(r)' /\ (Finished(r) => Finished(r)')
<1>1. /\ D \subseteq Actors
      /\ \A b \in D : pc'[b] = "idle"
      /\ \A b \in Actors \ D : pc'[b] = pc[b] /\ loc'[b] = loc[b]
      /\ sched' = IF Scheduler \in D THEN NoScan ELSE sched
      /\ runs' = runs /\ tasks' = tasks /\ revived' = revived
    BY DEF Ends, history
<1>2. /\ \A x \in AgentIds : agents'[x].status = agents[x].status
      /\ \A x \in AgentIds \ Dropped(D) : agents'[x] = agents[x]
      /\ \A x \in AgentIds \cap Dropped(D) : agents'[x].run = None
      /\ \A b \in Actors \ D : pc[b] = "link" => loc[b].agent \notin Dropped(D)
    BY LostAgents
<1>3. Scheduler \in Actors /\ (\A c \in Callers : c \in Actors) /\ r # None
    BY DEF Actors, RunIds, None
<1>4. /\ \A x \in AgentIds : AgentExists(x)' <=> AgentExists(x)
      /\ \A x \in AgentIds : Rests(x)' <=> Rests(x)
    BY <1>1, <1>2 DEF AgentExists, Rests
<1>5. AgentsOf(r)' = AgentsOf(r) \ Dropped(D)
    BY <1>2, <1>3 DEF AgentsOf
<1>6. Linked(r)' = Linked(r) \ Dropped(D)
  <2>1. ASSUME NEW b \in Actors, pc'[b] = "link", loc'[b].run = r
        PROVE  loc'[b].agent \in Linked(r) \ Dropped(D)
    <3>1. b \notin D /\ pc[b] = "link" /\ loc[b] = loc'[b]
        BY <1>1, <2>1
    <3> QED BY <1>2, <2>1, <3>1 DEF Linked
  <2>2. ASSUME NEW b \in Actors, pc[b] = "link", loc[b].run = r, loc[b].agent \notin Dropped(D)
        PROVE  loc[b].agent \in Linked(r)'
    <3>1. b \notin D
        BY <2>2 DEF Dropped
    <3> QED BY <1>1, <2>2, <3>1 DEF Linked
  <2> QED BY <2>1, <2>2 DEF Linked
<1>7. AgentsOf(r) \cap Dropped(D) \subseteq Linked(r)
  <2> SUFFICES ASSUME NEW a \in D, pc[a] = "link", agents[loc[a].agent].run = r
               PROVE  loc[a].agent \in Linked(r)
      BY DEF AgentsOf, Dropped
  <2>1. a \in Actors /\ Holds(a, "link", loc[a])
      BY <1>1, ActorFacts
  <2> QED BY <2>1 DEF Holds, Linked
<1>8. PICK K : K = Known(r) /\ K = Known(r)' /\ K \subseteq AgentIds /\ K \cap Dropped(D) = {}
  <2>1. Known(r)' = Known(r)
      BY <1>5, <1>6, <1>7 DEF Known
  <2>2. Known(r) \subseteq AgentIds /\ Known(r) \cap Dropped(D) = {}
      BY <1>7 DEF Known, AgentsOf
  <2> QED BY <2>1, <2>2
<1>9. PICK S : S = Live(r) /\ S \subseteq AgentIds
    BY DEF Live, AgentsOf
<1>10. Live(r)' = S \ Dropped(D)
  <2>1. \A x \in AgentsOf(r)' : x \in AgentIds
      BY DEF AgentsOf
  <2>2. Live(r)' = {x \in AgentsOf(r)' : AgentExists(x)'}
      BY DEF Live
  <2>3. Live(r)' = {x \in AgentsOf(r) \ Dropped(D) : AgentExists(x)}
      BY <1>4, <1>5, <2>1, <2>2
  <2> QED BY <1>9, <2>3 DEF Live
<1>11. PICK T : T = Live(r)' /\ T = S \ Dropped(D)
    BY <1>10
<1>12. /\ Inserted(r)' => Inserted(r)
       /\ Handled(r)' => Handled(r)
       /\ Linking(r)' => Linking(r)
       /\ Closing(r)' => Closing(r)
       /\ Stale(r)' => Stale(r)
  <2>1. \A b \in Actors : pc'[b] # "idle" => pc'[b] = pc[b] /\ loc'[b] = loc[b]
      BY <1>1
  <2>2. \A q \in DOMAIN sched'.todo : q \in DOMAIN sched.todo /\ sched'.todo[q] = sched.todo[q]
      BY <1>1, IdleFacts
  <2>3. Inserted(r)' => Inserted(r)
      BY <1>3, <2>1 DEF Inserted
  <2>4. Handled(r)' => Handled(r)
      BY <1>3, <2>1, <2>2 DEF Handled
  <2>5. Stale(r)' => Stale(r)
      BY <2>2 DEF Stale
  <2> QED BY <1>3, <2>1, <2>3, <2>4, <2>5 DEF Linking, Closing
<1>13. Allowed(r)' => Allowed(r) \/ \E w \in S : w \notin T
  <2> SUFFICES ASSUME Allowed(r)', ~Allowed(r) PROVE \E w \in S : w \notin T
      OBVIOUS
  <2>1. runs[r].status = "pending" /\ Linking(r) /\ AgentExists(loc[Scheduler].agent)
      BY <1>1, <1>12 DEF Allowed
  <2>2. PICK w : w = loc[Scheduler].agent
      OBVIOUS
  <2>3. pc[Scheduler] = "link" /\ loc[Scheduler].run = r
      BY <2>1 DEF Linking
  <2>4. w \in AgentIds /\ agents[w].run = r
    <3>1. loc[Scheduler] \in Locals /\ Holds(Scheduler, "link", loc[Scheduler])
        BY <1>3, <2>3, ActorFacts
    <3> QED BY <2>2, <2>3, <3>1 DEF Holds, Locals
  <2>5. w \in S
      BY <1>9, <2>1, <2>2, <2>4 DEF Live, AgentsOf
  <2>6. Scheduler \in D
    <3> SUFFICES ASSUME Scheduler \notin D PROVE FALSE
        OBVIOUS
    <3>1. pc'[Scheduler] = pc[Scheduler] /\ loc'[Scheduler] = loc[Scheduler] /\ sched' = sched
        BY <1>1, <1>3
    <3>2. AgentExists(w)'
        BY <1>4, <2>1, <2>2, <2>4
    <3>3. AgentExists(loc[Scheduler].agent)'
        BY <2>2, <3>1, <3>2 DEF AgentExists
    <3> QED BY <1>12, <2>1, <2>3, <3>1, <3>3 DEF Allowed, Linking
  <2>7. w \in Dropped(D)
      BY <2>2, <2>3, <2>6 DEF Dropped
  <2> QED BY <1>11, <2>5, <2>7
<1>14. Budget(r)'
  <2>1. Budget(r) /\ (Manual(r)' <=> Manual(r))
      BY <1>1 DEF Kept, Manual
  <2>2. T \subseteq S
      BY <1>11
  <2>3. /\ AtMostTwo(S) => AtMostTwo(T)
        /\ AtMostOne(S) => AtMostOne(T)
        /\ S = {} => T = {}
        /\ AtMostTwo(S) /\ (\E w \in S : w \notin T) => AtMostOne(T)
        /\ AtMostOne(S) /\ (\E w \in S : w \notin T) => T = {}
      BY <2>2 DEF AtMostOne, AtMostTwo
  <2>4. ASSUME Manual(r)
        PROVE  /\ AtMostTwo(T)
               /\ Allowed(r)' \/ Inserted(r)' => AtMostOne(T)
               /\ Allowed(r)' /\ Inserted(r)' => T = {}
    <3>1. /\ AtMostTwo(S)
          /\ Allowed(r) \/ Inserted(r) => AtMostOne(S)
          /\ Allowed(r) /\ Inserted(r) => S = {}
        BY <1>9, <2>1, <2>4 DEF Budget, AtMostOne, AtMostTwo
    <3> QED BY <1>12, <1>13, <2>3, <3>1
  <2>5. ASSUME ~Manual(r)
        PROVE  AtMostOne(T) /\ (Allowed(r)' => T = {})
    <3>1. AtMostOne(S) /\ (Allowed(r) => S = {})
        BY <1>9, <2>1, <2>5 DEF Budget, AtMostOne
    <3> QED BY <1>13, <2>3, <3>1
  <2> QED BY <1>11, <2>1, <2>4, <2>5 DEF Budget, AtMostOne, AtMostTwo
<1>15. Cancels(r)'
  <2>1. Cancels(r)
      BY DEF Kept
  <2>2. AtMostOne(Known(r))' <=> AtMostOne(K)
      BY <1>8 DEF AtMostOne
  <2>3. runs[r].status = "cancelled" /\ AtMostOne(K) => \A x \in K : Rests(x)'
      BY <1>4, <1>8, <2>1 DEF Cancels
  <2>4. runs[r].status = "pending" => Live(r)' \subseteq Linked(r)'
      BY <1>6, <1>9, <1>10, <2>1 DEF Cancels
  <2>5. runs[r].status \in {"queued", "running"} /\ runs[r].agent = None =>
          \E y \in K : agents'[y].status = "gone"
      BY <1>2, <1>8, <2>1 DEF Cancels
  <2>6. Inserted(r)' \/ Handled(r)' \/ Linked(r)' # {} => K # {} \/ runs[r].status # "cancelled"
      BY <1>6, <1>8, <1>12, <2>1 DEF Cancels
  <2> QED BY <1>1, <1>8, <2>2, <2>3, <2>4, <2>5, <2>6 DEF Cancels
<1>16. Quiet(r) => Quiet(r)'
  <2>1. \A x \in AgentsOf(r)' : x \in AgentsOf(r) /\ x \in AgentIds
      BY <1>5 DEF AgentsOf
  <2> QED BY <1>1, <1>2, <2>1 DEF Quiet
<1>17. ASSUME Scheduled(r) PROVE Follows(r)'
  <2>1. Follows(r)
      BY <1>17 DEF Kept
  <2>2. TaskExists(runs[r].task)' <=> TaskExists(runs[r].task)
      BY <1>1 DEF TaskExists
  <2>3. S = {} => T = {}
      BY <1>11
  <2> QED BY <1>1, <1>9, <1>11, <1>12, <1>16, <2>1, <2>2, <2>3 DEF Follows
<1>18. Finished(r) => Finished(r)'
    BY <1>1, <1>12, <1>16 DEF Finished
<1>19. Scheduled(r)' => Scheduled(r)
    BY <1>1 DEF Scheduled
<1> QED BY <1>14, <1>15, <1>17, <1>18, <1>19 DEF Kept

LEMMA EndsAdvances ==
    ASSUME IInv, NEW D, Ends(D)
    PROVE  Advances /\ NoneDecided
<1>1. /\ TypeOK /\ Steady /\ now <= now
      /\ UNCHANGED <<now, tasks, runs, torn, rewound>>
      /\ sched' = IF Scheduler \in D THEN NoScan ELSE sched
    BY TypeParts, BoundsAssumption DEF IInv, Ends, history, Tables, Times
<1>2. ASSUME NEW r \in RunIds \ torn PROVE Settles(r)
    BY <1>1, EndsKeep DEF Settles
<1>3. NoneDecided
  <2>1. pc'[Scheduler] = "claim" => pc[Scheduler] = "claim" /\ loc'[Scheduler] = loc[Scheduler]
      BY DEF Ends, Actors
  <2> QED BY <1>1, <2>1 DEF NoneDecided, Decided, TaskExists
<1> QED BY <1>1, <1>2, <1>3 DEF Advances, RowsStay, NextPut, ClockRuns, Scheduled, NoScan

-----------------------------------------------------------------------------
(* Writes of a run                                                          *)

\* What row may say when a writes it to the run that it holds
WriteKeeps(a, row) ==
    LET r == loc[a].run
    IN  /\ row.status \in {"queued", "running"} => row.agent # None
        /\ row.status = "cancelled" =>
              /\ pc[a] # "link"
              /\ AtMostOne(Known(r)) => \A x \in Known(r) : Rests(x)
              /\ Inserted(r) \/ Handled(r) \/ Linked(r) # {} => Known(r) # {}
        /\ Scheduled(r) =>
              /\ a # Scheduler => ~Handled(r) /\ ~Linking(r)
              /\ row.status \in Terminal => Quiet(r)

LEMMA ReturnFlags ==
    ASSUME TypeOK, Steady, NEW a \in Actors, NEW p \in {"idle", "reconcile", "due", "cancel"}, NEW l,
           Moves(a, p, l), sched' = sched, NEW r
    PROVE  /\ Inserted(r)' => Inserted(r)
           /\ Handled(r)' => Handled(r)
           /\ Linking(r)' => Linking(r)
           /\ Closing(r)' => Closing(r)
           /\ Stale(r)' => Stale(r)
           /\ a = Scheduler /\ pc[a] \in Writers /\ r = loc[a].run => ~Handled(r)' /\ ~Linking(r)'
           /\ pc[a] # "link" => Linked(r)' = Linked(r)
<1>1. ActorTypes /\ Shrunk
    BY TypeParts DEF Shrunk
<1>2. CASE a \in Callers
  <2>1. /\ Inserted(r)' => Inserted(r)
        /\ (Handled(r)' <=> Handled(r)) /\ (Linking(r)' <=> Linking(r))
        /\ (Closing(r)' <=> Closing(r)) /\ (Stale(r)' <=> Stale(r))
        /\ \A x \in Linked(r) : x \in Linked(r)' \/ Links(a, r, x)
        /\ Linked(r)' \subseteq Linked(r)
      BY <1>1, <1>2, CallerFlags
  <2> QED BY <1>2, <2>1, BoundsAssumption DEF Links
<1>3. CASE a = Scheduler
  <2>1. /\ Inserted(r)' => Inserted(r)
        /\ Handled(r)' => Handled(r)
        /\ ~Linking(r)' /\ ~Closing(r)'
        /\ Stale(r)' => Stale(r)
        /\ \A x \in Linked(r) : x \in Linked(r)' \/ Links(Scheduler, r, x)
        /\ Linked(r)' \subseteq Linked(r)
      BY <1>1, <1>3, LoopFlags
  <2>2. pc'[Scheduler] = p
      BY <1>1, <1>3, Moved
  <2>3. pc[a] \in Writers /\ r = loc[a].run => r \notin DOMAIN sched.todo
      BY <1>3, ActorFacts DEF LoopAt
  <2>4. pc[a] \in Writers /\ r = loc[a].run => ~Handled(r)'
      BY <2>2, <2>3 DEF Handled
  <2> QED BY <1>3, <2>1, <2>4 DEF Links
<1> QED BY <1>2, <1>3 DEF Actors

LEMMA WrittenSettles ==
    ASSUME TypeOK, Steady, NEW a \in Actors, pc[a] \in Writers,
           NEW p \in {"idle", "reconcile", "due", "cancel"}, NEW l, Moves(a, p, l), sched' = sched,
           UNCHANGED <<tasks, agents, revived>>,
           NEW row, row.status # "pending", row.status # "deleted",
           NEW r \in RunIds, r = loc[a].run, runs'[r] = row,
           row.task = runs[r].task, row.trigger = runs[r].trigger, TaskExists(row.task),
           WriteKeeps(a, row)
    PROVE  Settles(r)
<1> SUFFICES ASSUME Kept(r) PROVE Kept(r)' /\ (Scheduled(r) /\ Finished(r) => Finished(r)')
    BY DEF Settles
<1>1. /\ Inserted(r)' => Inserted(r)
      /\ Handled(r)' => Handled(r)
      /\ Linking(r)' => Linking(r)
      /\ Closing(r)' => Closing(r)
      /\ Stale(r)' => Stale(r)
      /\ a = Scheduler => ~Handled(r)' /\ ~Linking(r)'
      /\ pc[a] # "link" => Linked(r)' = Linked(r)
    BY ReturnFlags
<1>2. Live(r)' = Live(r) /\ AgentsOf(r)' = AgentsOf(r) /\ (Quiet(r)' <=> Quiet(r))
    BY AgentsStay
<1>3. (Manual(r)' <=> Manual(r)) /\ (Scheduled(r)' <=> Scheduled(r))
    BY DEF Manual, Scheduled
<1>4. Allowed(r)' => Allowed(r)
    BY <1>1 DEF Allowed
<1>5. Budget(r)'
  <2>1. Budget(r)
      BY DEF Kept
  <2>2. PICK S : S = Live(r) /\ S = Live(r)'
      BY <1>2
  <2> QED BY <1>1, <1>3, <1>4, <2>1, <2>2 DEF Budget, AtMostOne, AtMostTwo
<1>6. Cancels(r)'
  <2>1. row.status \in {"queued", "running"} => row.agent # None
      BY DEF WriteKeeps
  <2>2. ASSUME row.status = "cancelled"
        PROVE  /\ AtMostOne(Known(r))' => \A x \in Known(r)' : Rests(x)'
               /\ Inserted(r)' \/ Handled(r)' \/ Linked(r)' # {} => Known(r)' # {}
    <3>1. PICK K : K = Known(r)
        OBVIOUS
    <3>2. Linked(r)' = Linked(r) /\ K = Known(r)'
        BY <1>1, <1>2, <2>2, <3>1 DEF WriteKeeps, Known
    <3>3. \A x : Rests(x)' <=> Rests(x)
        BY DEF Rests
    <3>4. AtMostOne(Known(r))' <=> AtMostOne(K)
        BY <3>2 DEF AtMostOne
    <3> QED BY <1>1, <2>2, <3>1, <3>2, <3>3, <3>4 DEF WriteKeeps
  <2> QED BY <2>1, <2>2 DEF Cancels
<1>7. ASSUME Scheduled(r) PROVE Follows(r)'
  <2>1. Follows(r)
      BY <1>7 DEF Kept
  <2>2. ~Handled(r)' /\ ~Linking(r)'
      BY <1>1, <1>7 DEF WriteKeeps
  <2>3. row.status \in Terminal => Quiet(r)'
      BY <1>2, <1>7 DEF WriteKeeps
  <2>4. row.status \in {"queued", "running"} => row.agent # None
      BY DEF WriteKeeps
  <2>5. TaskExists(runs[r].task)' <=> TaskExists(runs[r].task)
      BY DEF TaskExists
  <2>6. Closing(r)' => Live(r)' = {} \/ ~TaskExists(runs[r].task)'
      BY <1>1, <1>2, <2>1, <2>5 DEF Follows
  <2>7. Stale(r)' => Live(r)' = {}
      BY <1>1, <1>2, <2>1 DEF Follows
  <2> QED BY <2>2, <2>3, <2>4, <2>6, <2>7 DEF Follows
<1>8. Finished(r) => Finished(r)'
    BY <1>1, <1>2 DEF Finished
<1> QED BY <1>3, <1>5, <1>6, <1>7, <1>8 DEF Kept

\* update_scheduled_task_run with a row of the run that the actor holds
LEMMA UpdateRunAdvances ==
    ASSUME IInv, NEW a \in Actors, pc[a] \in Writers, NEW row,
           Snapshot(loc[a].run, row), row.status # "pending",
           UNCHANGED <<now, tasks, broken, agents, revived, rewound>>, torn \subseteq torn',
           pc[a] = "link" => row.agent = loc[a].agent,
           UpdateRun(a, row),
           CanWrite(loc[a].run, row) /\ loc[a].run \notin torn' => WriteKeeps(a, row)
    PROVE  Advances /\ NoneDecided
<1>1. TypeOK /\ Steady /\ TasksCalm
    BY DEF IInv, TasksCalm, TaskExists
<1>2. PICK r0 \in RunIds : r0 = loc[a].run
    BY DEF Snapshot
<1>3. now <= now
    BY <1>1, TypeParts, BoundsAssumption DEF Tables, Times
<1>4. NextPut
    BY DEF NextPut
<1>5. CASE ~CanWrite(r0, row)
  <2>1. runs' = runs /\ Abort(a)
      BY <1>2, <1>5 DEF UpdateRun
  <2>2. ASSUME NEW r \in RunIds \ torn' PROVE Settles(r)
    <3>1. ASSUME pc[a] = "link", loc[a].run = r, RunExists(r) PROVE ~AgentExists(loc[a].agent)
        BY <1>2, <1>5, <3>1 DEF CanWrite
    <3>2. LinkDropped(a, r)
        BY <3>1 DEF LinkDropped
    <3> QED BY <1>1, <2>1, <3>2, AbortSettles
  <2>3. NoneDecided
      BY <1>1, <2>1, AbortDecides
  <2>4. ClockRuns
      BY <1>3, <2>1 DEF ClockRuns, Abort, NoScan
  <2> QED BY <1>4, <2>1, <2>2, <2>3, <2>4 DEF Advances, RowsStay, Scheduled
<1>6. CASE CanWrite(r0, row)
  <2>1. PICK m : m = [loc[a] EXCEPT !.snap = row]
      OBVIOUS
  <2>2. runs' = [runs EXCEPT ![r0] = row] /\ Goto(a, Back(a), m) /\ sched' = sched
      BY <1>2, <1>6, <2>1 DEF UpdateRun
  <2>3. PICK p \in {"idle", "reconcile", "due", "cancel"} : p = Back(a)
    <3>1. loc[a] \in Locals
        BY <1>1, ActorFacts
    <3> QED BY <1>1, <3>1, BackPlaced
  <2>4. PICK l : l = Reset(p, m)
      OBVIOUS
  <2>5. Moves(a, p, l)
      BY <2>2, <2>3, <2>4, GotoMoves
  <2>6. runs'[r0] = row /\ \A r \in RunIds : r # r0 => runs'[r] = runs[r]
      BY <1>1, <2>2, TypeParts DEF Tables
  <2>7. Shrunk
      BY <2>2 DEF Shrunk
  <2>8. ASSUME NEW r \in RunIds \ torn', r # r0 PROVE Settles(r)
    <3>1. runs'[r] = runs[r] /\ LinkDropped(a, r)
        BY <1>2, <2>6, <2>8 DEF LinkDropped
    <3>2. CASE a \in Callers
      <4>1. CallerEases(a, p, l, r)
          BY <3>1 DEF CallerEases
      <4> QED BY <1>1, <2>2, <2>5, <3>1, <3>2, <4>1, CallerSettles
    <3>3. CASE a = Scheduler
        BY <1>1, <2>5, <2>7, <3>1, <3>3, LoopReturns
    <3> QED BY <3>2, <3>3 DEF Actors
  <2>9. ASSUME r0 \notin torn' PROVE Settles(r0)
    <3>1. WriteKeeps(a, row)
        BY <1>2, <1>6, <2>9
    <3>2. row.task = runs[r0].task /\ row.trigger = runs[r0].trigger /\ row.status # "deleted"
        BY <1>2 DEF Snapshot
    <3>3. TaskExists(row.task)
        BY <1>1, <1>6, <3>2 DEF Steady, LinkedRuns, RunLinked, CanWrite, RunExists
    <3> QED BY <1>1, <1>2, <2>2, <2>5, <2>6, <3>1, <3>2, <3>3, WrittenSettles
  <2>10. RowsStay
      BY <1>2, <2>6 DEF RowsStay, Scheduled, Snapshot
  <2>11. ClockRuns
      BY <1>3, <2>2 DEF ClockRuns
  <2>12. NoneDecided
      BY <1>1, <2>5, ActorDecides
  <2> QED BY <1>4, <2>8, <2>9, <2>10, <2>11, <2>12 DEF Advances
<1> QED BY <1>5, <1>6

LEMMA NoneLive ==
    ASSUME NEW r, Live(r) = {}
    PROVE  Quiet(r)
  BY DEF Live, Quiet, AgentExists, AgentLive, AgentsOf

\* A run that can be written has a task.
LEMMA WrittenTask ==
    ASSUME Steady, NEW r \in RunIds, RunExists(r)
    PROVE  TaskExists(runs[r].task)
  BY DEF Steady, LinkedRuns, RunLinked, RunExists

LEMMA LinkRunAdvances ==
    ASSUME IInv, NEW a \in Actors, LinkRun(a)
    PROVE  Advances /\ NoneDecided
<1>1. PICK row : row = [loc[a].snap EXCEPT !.status = "queued", !.done = None, !.agent = loc[a].agent]
    OBVIOUS
<1>2. /\ TypeOK /\ Steady /\ pc[a] = "link" /\ pc[a] \in Writers /\ UpdateRun(a, row)
      /\ UNCHANGED <<now, tasks, broken, agents, torn, revived, rewound>>
    BY <1>1 DEF IInv, LinkRun, Writers, history
<1>3. row \in RunRows /\ Snapshot(loc[a].run, row) /\ row.status = "queued" /\ row.agent = loc[a].agent
    BY <1>1, <1>2, LinkedRow
<1>4. Holds(a, "link", loc[a])
    BY <1>2, ActorFacts
<1>5. row.agent # None /\ (a # Scheduler => loc[a].snap.trigger = "manual")
    BY <1>3, <1>4 DEF Holds
<1>6. loc[a].snap.trigger = runs[loc[a].run].trigger
    BY <1>4 DEF Holds, Snapshot, Writers
<1>7. WriteKeeps(a, row)
    BY <1>3, <1>5, <1>6 DEF WriteKeeps, Scheduled, Terminal
<1> QED BY <1>2, <1>3, <1>7, UpdateRunAdvances

LEMMA MarkFailedAdvances ==
    ASSUME IInv, NEW a \in Actors, MarkFailed(a)
    PROVE  Advances /\ NoneDecided
<1>1. PICK row : row = [loc[a].snap EXCEPT !.status = "failed", !.done = now]
    OBVIOUS
<1>2. /\ TypeOK /\ Steady /\ pc[a] = "mark_failed" /\ pc[a] \in Writers /\ UpdateRun(a, row)
      /\ UNCHANGED <<now, tasks, broken, agents, torn, revived, rewound>>
    BY <1>1 DEF IInv, MarkFailed, Writers, history
<1>3. row \in RunRows /\ Snapshot(loc[a].run, row) /\ row.status = "failed" /\ row.agent = loc[a].snap.agent
  <2>1. PICK st \in Terminal : st = "failed"
      BY DEF Terminal
  <2>2. PICK done \in Times : done = now
      BY <1>2, TypeParts DEF Tables
  <2>3. row = ClosedRow(a, st, done)
      BY <1>1, <2>1, <2>2 DEF ClosedRow
  <2>4. row \in RunRows /\ Snapshot(loc[a].run, row) /\ row.status = st /\ row.agent = loc[a].snap.agent
      BY <1>2, <2>3, WrittenRow
  <2> QED BY <2>1, <2>4
<1>4. Holds(a, "mark_failed", loc[a])
    BY <1>2, ActorFacts
<1>5. PICK r \in RunIds : r = loc[a].run
    BY <1>4 DEF Holds, Snapshot, Writers
<1>6. ASSUME CanWrite(r, row), r \notin torn' PROVE WriteKeeps(a, row)
  <2>1. loc[a].snap.agent = None
      BY <1>3, <1>4, <1>6 DEF Holds, CanWrite, AgentExists
  <2>2. ASSUME Scheduled(r) PROVE a = Scheduler /\ Quiet(r)
    <3>1. loc[a].snap.trigger = runs[r].trigger
        BY <1>4, <1>5 DEF Holds, Snapshot, Writers
    <3>2. a = Scheduler
        BY <1>4, <2>1, <2>2, <3>1 DEF Holds, Scheduled
    <3>3. Closing(r)
        BY <1>2, <1>5, <2>1, <3>2 DEF Closing
    <3>4. TaskExists(runs[r].task)
        BY <1>2, <1>6, WrittenTask DEF CanWrite
    <3>5. Live(r) = {}
        BY <1>2, <1>6, <2>2, <3>3, <3>4 DEF IInv, Kept, Follows
    <3> QED BY <3>2, <3>5, NoneLive
  <2> QED BY <1>3, <1>5, <2>2 DEF WriteKeeps
<1> QED BY <1>2, <1>3, <1>5, <1>6, UpdateRunAdvances

\* An Agent task that a row names is no longer to be linked.
LEMMA NamedUnlinked ==
    ASSUME Steady, NEW x \in Named, NEW r
    PROVE  x \notin Linked(r)
  BY DEF Steady, Unnamed, Linked

\* A sync that reads the Agent task of a scheduled run finds its only one.
LEMMA SyncWriteAdvances ==
    ASSUME IInv, NEW a \in Actors, SyncWrite(a)
    PROVE  Advances /\ NoneDecided
<1>1. PICK row : row = loc[a].snap
    OBVIOUS
<1>2. /\ TypeOK /\ Steady /\ pc[a] = "sync_write" /\ pc[a] \in Writers /\ UpdateRun(a, row)
      /\ UNCHANGED <<now, tasks, broken, agents, torn, revived, rewound>>
    BY <1>1 DEF IInv, SyncWrite, Writers, history
<1>3. Holds(a, "sync_write", loc[a])
    BY <1>2, ActorFacts
<1>4. /\ Snapshot(loc[a].run, row) /\ row.agent # None /\ row.status # "pending"
      /\ row.status \in Terminal => agents[row.agent].status \notin AgentLive \/ row.agent \in revived
    BY <1>1, <1>3 DEF Holds, Writers
<1>5. PICK r \in RunIds : r = loc[a].run
    BY <1>4 DEF Snapshot
<1>6. PICK y \in AgentIds : y = row.agent
  <2>1. row \in RunRows
      BY <1>1, <1>2, ActorFacts DEF Locals
  <2> QED BY <1>4, <2>1 DEF RunRows
<1>7. y \in AgentsOf(r)
    BY <1>4, <1>5, <1>6 DEF Snapshot, AgentsOf
<1>8. ASSUME CanWrite(r, row), r \notin torn' PROVE WriteKeeps(a, row)
  <2>1. Kept(r)
      BY <1>2, <1>8 DEF IInv
  <2>2. y \in Live(r)
      BY <1>4, <1>6, <1>7, <1>8 DEF CanWrite, Live
  <2>3. /\ row.status = "cancelled" /\ AtMostOne(Known(r)) => \A x \in Known(r) : Rests(x)
        /\ Known(r) # {}
    <3>1. y \in Named
        BY <1>1, <1>2, <1>6 DEF Named
    <3>2. y \in Known(r)
        BY <1>2, <1>7, <3>1, NamedUnlinked DEF Known
    <3> QED BY <1>4, <1>6, <3>2 DEF Terminal, AtMostOne, Rests
  <2>4. ASSUME Scheduled(r) PROVE ~Handled(r) /\ ~Linking(r) /\ (row.status \in Terminal => Quiet(r))
    <3>1. AtMostOne(Live(r)) /\ ~Allowed(r)
        BY <2>1, <2>2, <2>4 DEF Kept, Budget, Manual, Scheduled
    <3>2. ~Handled(r)
        BY <3>1 DEF Allowed
    <3>3. ~Linking(r)
      <4> SUFFICES ASSUME Linking(r) PROVE FALSE
          OBVIOUS
      <4>1. TaskExists(runs[r].task)
          BY <1>2, <1>8, WrittenTask DEF CanWrite
      <4>2. runs[r].status = "pending"
          BY <2>1, <2>4, <4>1 DEF Kept, Follows
      <4>3. AgentExists(loc[Scheduler].agent)
          BY <3>1, <4>2 DEF Allowed
      <4>4. Scheduler \in Actors /\ pc[Scheduler] = "link" /\ loc[Scheduler].run = r
          BY DEF Linking, Actors
      <4>5. loc[Scheduler] \in Locals /\ Holds(Scheduler, "link", loc[Scheduler])
          BY <1>2, <4>4, ActorFacts
      <4>6. loc[Scheduler].agent \in AgentIds /\ agents[loc[Scheduler].agent].run = r
          BY <4>4, <4>5 DEF Holds, Locals
      <4>7. loc[Scheduler].agent \in Live(r)
          BY <4>3, <4>6 DEF Live, AgentsOf
      <4>8. loc[Scheduler].agent = y
          BY <2>2, <3>1, <4>7 DEF AtMostOne
      <4>9. y \in Named
          BY <1>1, <1>2, <1>6 DEF Named
      <4> QED BY <1>2, <4>4, <4>8, <4>9 DEF Steady, Unnamed
    <3>4. ASSUME row.status \in Terminal PROVE Quiet(r)
      <4>1. ASSUME NEW x \in AgentsOf(r), agents[x].status \in AgentLive PROVE x = y
        <5>1. x \in Live(r)
            BY <4>1 DEF Live, AgentExists, AgentLive
        <5> QED BY <2>2, <3>1, <5>1 DEF AtMostOne
      <4> QED BY <1>4, <1>6, <3>4, <4>1 DEF Quiet
    <3> QED BY <3>2, <3>3, <3>4
  <2> QED BY <1>2, <1>4, <1>5, <2>3, <2>4 DEF WriteKeeps
<1> QED BY <1>2, <1>4, <1>5, <1>8, UpdateRunAdvances

\* Outside its dispatch, a run without an Agent task has none in progress.
LEMMA MarkCancelledAdvances ==
    ASSUME IInv, NEW c \in Callers, MarkCancelled(c)
    PROVE  Advances /\ NoneDecided
<1>1. PICK row : row = [loc[c].snap EXCEPT !.status = "cancelled", !.done = now]
    OBVIOUS
<1>2. /\ TypeOK /\ Steady /\ c \in Actors /\ pc[c] = "mark_cancelled" /\ pc[c] \in Writers
      /\ UpdateRun(c, row) /\ UNCHANGED <<now, tasks, broken, agents, revived, rewound>>
    BY <1>1 DEF IInv, MarkCancelled, Writers, Actors
<1>3. row \in RunRows /\ Snapshot(loc[c].run, row) /\ row.status = "cancelled" /\ row.agent = loc[c].snap.agent
  <2>1. PICK st \in Terminal : st = "cancelled"
      BY DEF Terminal
  <2>2. PICK done \in Times : done = now
      BY <1>2, TypeParts DEF Tables
  <2>3. row = ClosedRow(c, st, done)
      BY <1>1, <2>1, <2>2 DEF ClosedRow
  <2>4. row \in RunRows /\ Snapshot(loc[c].run, row) /\ row.status = st /\ row.agent = loc[c].snap.agent
      BY <1>2, <2>3, WrittenRow
  <2> QED BY <2>1, <2>4
<1>4. Holds(c, "mark_cancelled", loc[c])
    BY <1>2, ActorFacts
<1>5. PICK r \in RunIds : r = loc[c].run
    BY <1>3 DEF Snapshot
<1>6. torn' = IF Dispatching(r) \/ runs[r] # loc[c].snap THEN torn \cup {r} ELSE torn
    BY <1>5 DEF MarkCancelled
<1>7. ASSUME r \notin torn' PROVE WriteKeeps(c, row)
  <2>1. ~Dispatching(r) /\ runs[r] = loc[c].snap /\ Kept(r)
      BY <1>6, <1>7 DEF IInv
  <2>2. ~Inserted(r) /\ ~Handled(r) /\ ~Linking(r) /\ Linked(r) = {}
    <3>1. Scheduler \in Actors /\ \A d \in Callers : d \in Actors
        BY DEF Actors
    <3> QED BY <2>1, <3>1 DEF Dispatching, Inserted, Handled, Linking, Linked
  <2>3. runs[r].agent = None /\ runs[r].status \in {"pending", "queued", "running"}
    <3>1. runs[r].agent = None /\ runs[r].status \notin Terminal
        BY <1>4, <2>1 DEF Holds
    <3>2. runs[r].status \notin {"absent", "deleted"}
        BY <1>4, <1>5, <2>1 DEF Holds, Snapshot, Writers
    <3>3. runs[r] \in RunRows
        BY <1>2, TypeParts DEF Tables
    <3> QED BY <3>1, <3>2, <3>3 DEF RunRows, ActiveStatuses
  <2>4. runs[r].status = "pending" => Live(r) = {}
      BY <2>1, <2>2 DEF Kept, Cancels
  <2>5. ASSUME AtMostOne(Known(r)) PROVE \A x \in Known(r) : Rests(x)
    <3>1. CASE runs[r].status = "pending"
        BY <2>4, <3>1, NoneLive DEF Known, Quiet, Rests
    <3>2. CASE runs[r].status \in {"queued", "running"}
      <4>1. PICK y \in Known(r) : agents[y].status = "gone"
          BY <2>1, <2>3, <3>2 DEF Kept, Cancels
      <4> QED BY <2>5, <4>1 DEF AtMostOne, Rests, AgentLive
    <3> QED BY <2>3, <3>1, <3>2
  <2>6. ASSUME Scheduled(r) PROVE Quiet(r)
    <3>1. runs[r].status \in {"queued", "running"} => Live(r) = {}
        BY <2>1, <2>3, <2>6 DEF Kept, Follows
    <3> QED BY <2>3, <2>4, <3>1, NoneLive
  <2> QED BY <1>2, <1>3, <1>5, <2>2, <2>5, <2>6 DEF WriteKeeps
<1>8. torn \subseteq torn'
    BY <1>6
<1> QED BY <1>2, <1>3, <1>5, <1>7, <1>8, UpdateRunAdvances

-----------------------------------------------------------------------------
(* Steps of the Agent tasks                                                 *)

\* An Agent task of its own run ends, or goes on by a retry.
AgentSteps(x) ==
    /\ \A y \in AgentIds : y # x => agents'[y] = agents[y]
    /\ agents'[x].run = agents[x].run
    /\ agents[x].status \in AgentLive \cup AgentTerminal
    /\ agents'[x].status \in AgentLive \cup AgentTerminal
    /\ revived \subseteq revived'
    /\ agents'[x].status \in AgentLive => agents[x].status \in AgentLive \/ x \in revived'

LEMMA AgentStepSettles ==
    ASSUME NEW x \in AgentIds, AgentSteps(x), NEW r
    PROVE  /\ AgentsSettle(r)
           /\ \A y \in AgentIds : AgentExists(y)' <=> AgentExists(y)
<1>1. \A y \in AgentIds : agents'[y].run = agents[y].run
    BY DEF AgentSteps
<1>2. \A y \in AgentIds : AgentExists(y)' <=> AgentExists(y)
    BY DEF AgentSteps, AgentExists, AgentLive, AgentTerminal
<1>3. AgentsOf(r)' = AgentsOf(r)
    BY <1>1 DEF AgentsOf
<1>4. Live(r)' \subseteq Live(r)
    BY <1>2, <1>3 DEF Live, AgentsOf
<1>5. \A y \in AgentsOf(r) : agents[y].status = "gone" => agents'[y].status = "gone"
    BY DEF AgentsOf, AgentSteps, AgentLive, AgentTerminal
<1>6. ASSUME Quiet(r) PROVE Quiet(r)'
  <2> SUFFICES ASSUME NEW y \in AgentsOf(r), y \notin revived', agents'[y].status \in AgentLive
               PROVE  FALSE
      BY <1>3 DEF Quiet
  <2>1. y \in AgentIds /\ agents[y].status \in AgentLive /\ y \notin revived
      BY DEF AgentsOf, AgentSteps
  <2> QED BY <1>6, <2>1 DEF Quiet
<1>7. \A y \in AgentsOf(r) : Rests(y) => Rests(y)'
    BY DEF AgentsOf, AgentSteps, Rests
<1> QED BY <1>2, <1>3, <1>4, <1>5, <1>6, <1>7 DEF AgentsSettle

LEMMA AgentMoveAdvances ==
    ASSUME IInv, NEW x \in AgentIds, AgentMove(x)
    PROVE  Advances /\ NoneDecided
<1>1. TypeOK /\ Steady /\ ActorsHold /\ now <= now
    BY TypeParts, BoundsAssumption DEF IInv, Steady, Tables, Times
<1>2. PICK m \in AgentMoves :
         /\ agents[x].status = m[1]
         /\ agents' = [agents EXCEPT ![x].status = m[2],
                          ![x].end = IF m[2] \in AgentTerminal THEN now ELSE None]
    BY DEF AgentMove
<1>3. m[1] \in AgentLive \cup AgentTerminal /\ m[2] \in AgentLive \cup AgentTerminal
    BY MovesAssumption
<1>4. PICK st, end : st = m[2] /\ end = IF m[2] \in AgentTerminal THEN now ELSE None
    OBVIOUS
<1>5. agents'[x].run = agents[x].run /\ agents'[x].status = st
      /\ \A y \in AgentIds : y # x => agents'[y] = agents[y]
  <2>1. agents' = [agents EXCEPT ![x].status = st, ![x].end = end]
      BY <1>2, <1>4
  <2>2. agents \in [AgentIds -> AgentRows]
      BY <1>1, TypeParts DEF Tables
  <2> QED BY <2>1, <2>2 DEF AgentRows
<1>6. /\ UNCHANGED <<now, tasks, runs, torn, rewound>> /\ UNCHANGED <<pc, loc, sched>>
      /\ revived' = IF agents[x].status \in AgentTerminal THEN revived \cup {x} ELSE revived
    BY DEF AgentMove
<1>7. AgentSteps(x)
    BY <1>2, <1>3, <1>4, <1>5, <1>6 DEF AgentSteps
<1>8. ASSUME NEW r \in RunIds \ torn PROVE Settles(r)
  <2>1. TaskExists(runs[r].task)' <=> TaskExists(runs[r].task)
      BY <1>6 DEF TaskExists
  <2> QED BY <1>1, <1>6, <1>7, <2>1, AgentStepSettles, StaySettles
<1>9. NoneDecided
    BY <1>6 DEF NoneDecided, Decided, TaskExists
<1> QED BY <1>1, <1>6, <1>8, <1>9 DEF Advances, RowsStay, NextPut, ClockRuns, Scheduled

LEMMA CancelDecideAdvances ==
    ASSUME IInv, NEW c \in Callers, CancelDecide(c)
    PROVE  Advances /\ NoneDecided
<1>1. /\ TypeOK /\ Steady /\ c \in Actors /\ pc[c] = "cancel" /\ now <= now
      /\ UNCHANGED <<now, tasks, broken, runs, torn, revived, rewound>> /\ sched' = sched
    BY TypeParts, BoundsAssumption DEF IInv, CancelDecide, history, Actors, Tables, Times
<1>2. PICK label, m : Goto(c, label, m) /\ label \in {"idle", "mark_cancelled", "sync"}
    BY DEF CancelDecide
<1>3. PICK l : l = Reset(label, m)
    OBVIOUS
<1>4. Moves(c, label, l)
    BY <1>2, <1>3, GotoMoves
<1>5. CASE UNCHANGED agents
  <2>1. Idles
      BY <1>1, <1>5 DEF Idles, Still
  <2> QED BY <1>1, <1>2, <1>4, <2>1, CallerMoveAdvances
<1>6. CASE agents' # agents
  <2>1. PICK s \in RunRows : s = loc[c].snap
      BY <1>1, ActorFacts DEF Locals
  <2>2. /\ s.agent # None /\ agents[s.agent].status = "queued"
        /\ agents' = [agents EXCEPT ![s.agent].status = "cancelled", ![s.agent].end = now]
      BY <1>6, <2>1 DEF CancelDecide
  <2>3. PICK x \in AgentIds : x = s.agent
      BY <2>1, <2>2 DEF RunRows
  <2>4. agents'[x].run = agents[x].run /\ agents'[x].status = "cancelled"
        /\ \A y \in AgentIds : y # x => agents'[y] = agents[y]
    <3>1. agents \in [AgentIds -> AgentRows]
        BY <1>1, TypeParts DEF Tables
    <3> QED BY <2>2, <2>3, <3>1 DEF AgentRows
  <2>5. AgentSteps(x)
      BY <1>1, <2>2, <2>3, <2>4 DEF AgentSteps, AgentLive, AgentTerminal
  <2>6. ASSUME NEW r \in RunIds \ torn PROVE Settles(r)
    <3> SUFFICES ASSUME Kept(r) PROVE Settles(r)
      <4>1. ~Kept(r) => Settles(r)
          BY DEF Settles
      <4> QED BY <4>1
    <3>1. /\ Inserted(r)' => Inserted(r)
          /\ (Handled(r)' <=> Handled(r)) /\ (Linking(r)' <=> Linking(r))
          /\ (Closing(r)' <=> Closing(r)) /\ (Stale(r)' <=> Stale(r))
          /\ loc'[Scheduler] = loc[Scheduler]
          /\ \A z \in Linked(r) : z \in Linked(r)' \/ Links(c, r, z)
          /\ Linked(r)' \subseteq Linked(r)
        BY <1>1, <1>2, <1>4, TypeParts, CallerFlags
    <3>2. AgentsSettle(r) /\ \A y \in AgentIds : AgentExists(y)' <=> AgentExists(y)
        BY <2>5, AgentStepSettles
    <3>3. Linking(r) => loc[Scheduler].agent \in AgentIds
      <4>1. Scheduler \in Actors
          BY DEF Actors
      <4>2. loc[Scheduler] \in Locals /\ Holds(Scheduler, pc[Scheduler], loc[Scheduler])
          BY <1>1, <4>1, ActorFacts
      <4> QED BY <4>2 DEF Linking, Holds, Locals
    <3>4. Allowed(r)' => Allowed(r)
      <4>1. PICK z : z = loc[Scheduler].agent
          OBVIOUS
      <4>2. Linking(r) => (AgentExists(z)' <=> AgentExists(z))
          BY <3>2, <3>3, <4>1
      <4>3. AgentExists(loc[Scheduler].agent)' <=> AgentExists(z)'
          BY <3>1, <4>1 DEF AgentExists
      <4> QED BY <1>1, <3>1, <4>1, <4>2, <4>3 DEF Allowed
    <3>5. Eased(r)
        BY <1>1, <3>1, <3>4 DEF Eased, Kept, Follows, Links
    <3>6. TaskExists(runs[r].task)' <=> TaskExists(runs[r].task)
        BY <1>1 DEF TaskExists
    <3> QED BY <1>1, <3>2, <3>5, <3>6, RunSettles
  <2>7. NoneDecided
    <3>1. TasksCalm
        BY <1>1 DEF TasksCalm, TaskExists
    <3> QED BY <1>1, <1>4, <3>1, CallerDecides
  <2> QED BY <1>1, <2>6, <2>7 DEF Advances, RowsStay, NextPut, ClockRuns, Scheduled
<1> QED BY <1>5, <1>6

\* The queued message becomes an Agent task in progress of its run only.
LEMMA QueuedAgents ==
    ASSUME TypeOK, Steady, NEW a \in Actors, NEW x, NEW q \in RunIds, Queues(a, x, q),
           NEW r \in RunIds
    PROVE  /\ r # q => AgentsSettle(r)
           /\ r = q => /\ AgentsOf(r)' = AgentsOf(r) \cup {x} /\ x \notin AgentsOf(r)
                       /\ Live(r)' = Live(r) \cup {x}
                       /\ \A y \in AgentsOf(r) : agents'[y] = agents[y]
           /\ ~AgentExists(x) /\ AgentExists(x)'
           /\ Linking(r) => loc[Scheduler].agent # x
                            /\ agents'[loc[Scheduler].agent] = agents[loc[Scheduler].agent]
<1>1. /\ agents' \in [AgentIds -> AgentRows] /\ x \in AgentIds
      /\ agents[x].run = None /\ agents'[x].run = q /\ agents'[x].status = "queued"
      /\ \A y \in AgentIds : y # x => agents'[y] = agents[y]
    BY QueuedTables
<1>2. r # None /\ agents[x].status = "absent" /\ revived' = revived
    BY DEF RunIds, None, Queues
<1>3. ~AgentExists(x) /\ AgentExists(x)' /\ x \notin AgentsOf(r)
    BY <1>1, <1>2 DEF AgentExists, AgentsOf
<1>4. \A y \in AgentsOf(r) : y \in AgentIds /\ agents'[y] = agents[y]
    BY <1>1, <1>3 DEF AgentsOf
<1>5. ASSUME r # q PROVE AgentsSettle(r)
  <2>1. AgentsOf(r)' = AgentsOf(r)
      BY <1>1, <1>2, <1>5 DEF AgentsOf
  <2>2. Live(r)' \subseteq Live(r)
      BY <1>4, <2>1 DEF Live, AgentExists
  <2> QED BY <1>2, <1>4, <2>1, <2>2 DEF AgentsSettle, Quiet, Rests
<1>6. ASSUME r = q PROVE AgentsOf(r)' = AgentsOf(r) \cup {x} /\ Live(r)' = Live(r) \cup {x}
  <2>1. AgentsOf(r)' = AgentsOf(r) \cup {x}
      BY <1>1, <1>6 DEF AgentsOf
  <2> QED BY <1>3, <1>4, <2>1 DEF Live, AgentExists
<1>7. Linking(r) => loc[Scheduler].agent # x /\ agents'[loc[Scheduler].agent] = agents[loc[Scheduler].agent]
  <2>1. Scheduler \in Actors
      BY DEF Actors
  <2>2. loc[Scheduler] \in Locals /\ Holds(Scheduler, pc[Scheduler], loc[Scheduler])
      BY <2>1, ActorFacts
  <2>3. Linking(r) => loc[Scheduler].agent \in AgentIds /\ agents[loc[Scheduler].agent].run = r
      BY <2>2 DEF Linking, Holds, Locals
  <2> QED BY <1>1, <1>2, <2>3
<1> QED BY <1>3, <1>4, <1>5, <1>6, <1>7

\* Its dispatcher had the right to queue it: what it may queue from now on is
\* what is left.
LEMMA QueuedKept ==
    ASSUME TypeOK, Steady, NEW a \in Actors, NEW x, NEW r \in RunIds, Queues(a, x, r), Kept(r)
    PROVE  Kept(r)' /\ ~(Scheduled(r) /\ Finished(r))
<1>1. PICK m : m = [loc[a] EXCEPT !.agent = x]
    OBVIOUS
<1>2. /\ pc[a] = "dispatch" /\ loc[a].run = r /\ Moves(a, "link", m) /\ sched' = sched
      /\ runs' = runs /\ tasks' = tasks /\ revived' = revived
    BY <1>1 DEF Queues
<1>3. m.run = r /\ m.agent = x
  <2>1. loc[a] \in Locals
      BY ActorFacts
  <2> QED BY <1>1, <1>2, <2>1 DEF Locals
<1>4. pc'[a] = "link" /\ loc'[a] = m /\ \A b \in Actors : b # a => pc'[b] = pc[b] /\ loc'[b] = loc[b]
    BY <1>2, TypeParts, Moved
<1>5. PICK A : A = AgentsOf(r)
    OBVIOUS
<1>6. PICK S : S = Live(r)
    OBVIOUS
<1>7. /\ AgentsOf(r)' = A \cup {x} /\ x \notin A /\ Live(r)' = S \cup {x}
      /\ \A y \in A : agents'[y] = agents[y]
      /\ AgentExists(x)'
      /\ Linking(r) => loc[Scheduler].agent # x
                       /\ agents'[loc[Scheduler].agent] = agents[loc[Scheduler].agent]
    BY <1>2, <1>5, <1>6, QueuedAgents
<1>8. Holds(a, "dispatch", loc[a]) /\ Snapshot(r, loc[a].snap)
  <2>1. Holds(a, "dispatch", loc[a])
      BY <1>2, ActorFacts
  <2> QED BY <1>2, <2>1 DEF Holds, Writers
<1>9. (Manual(r)' <=> Manual(r)) /\ (Scheduled(r)' <=> Scheduled(r))
    BY <1>2 DEF Manual, Scheduled
<1>10. Scheduler \in Actors /\ Scheduler \notin Callers /\ \A c \in Callers : c \in Actors
    BY BoundsAssumption DEF Actors
<1>11. Inserted(r) \/ Handled(r)
    BY <1>2 DEF Inserted, Handled, Actors
<1>12. Cancels(r)'
  <2>1. Cancels(r)
      BY DEF Kept
  <2>2. Linked(r)' = Linked(r) \cup {x}
    <3>1. x \in Linked(r)'
        BY <1>3, <1>4 DEF Linked
    <3>2. Linked(r) \subseteq Linked(r)'
        BY <1>2, <1>4 DEF Linked
    <3>3. ASSUME NEW b \in Actors, pc'[b] = "link", loc'[b].run = r, b # a
          PROVE  loc'[b].agent \in Linked(r)
        BY <1>4, <3>3 DEF Linked
    <3>4. Linked(r)' \subseteq Linked(r) \cup {x}
        BY <1>3, <1>4, <3>3 DEF Linked
    <3> QED BY <3>1, <3>2, <3>4
  <2>3. PICK K : K = Known(r) /\ K = Known(r)' /\ K \subseteq A
    <3>1. Known(r)' = Known(r) /\ Known(r) \subseteq A
        BY <1>5, <1>7, <2>2 DEF Known
    <3> QED BY <3>1
  <2>4. \A y \in A : Rests(y)' <=> Rests(y)
      BY <1>2, <1>7 DEF Rests
  <2>5. AtMostOne(Known(r))' <=> AtMostOne(K)
      BY <2>3 DEF AtMostOne
  <2>6. runs[r].status = "cancelled" /\ AtMostOne(K) => \A y \in K : Rests(y)'
      BY <2>1, <2>3, <2>4 DEF Cancels
  <2>7. runs[r].status = "pending" => Live(r)' \subseteq Linked(r)'
      BY <1>6, <1>7, <2>1, <2>2 DEF Cancels
  <2>8. runs[r].status \in {"queued", "running"} /\ runs[r].agent = None =>
          \E y \in K : agents'[y].status = "gone"
      BY <1>7, <2>1, <2>3 DEF Cancels
  <2>9. K # {} \/ runs[r].status # "cancelled"
      BY <1>11, <2>1, <2>3 DEF Cancels
  <2> QED BY <1>2, <2>3, <2>5, <2>6, <2>7, <2>8, <2>9 DEF Cancels
<1>13. CASE a = Scheduler
  <2>1. Handled(r) /\ Allowed(r)
      BY <1>2, <1>13 DEF Handled, Allowed
  <2>2. r \notin DOMAIN sched.todo
      BY <1>2, <1>13, ActorFacts DEF LoopAt, Writers
  <2>3. Linking(r)' /\ ~Handled(r)' /\ ~Closing(r)' /\ ~Stale(r)'
      BY <1>2, <1>3, <1>4, <1>13, <2>2 DEF Linking, Handled, Closing, Stale
  <2>4. Inserted(r)' <=> Inserted(r)
      BY <1>2, <1>13, TypeParts, LoopFlags
  <2>5. ~Allowed(r)'
      BY <1>3, <1>4, <1>7, <1>13, <2>3 DEF Allowed, AgentExists
  <2>6. Budget(r)'
    <3>1. Budget(r)
        BY DEF Kept
    <3>2. Manual(r) => AtMostTwo(S \cup {x}) /\ (Inserted(r) => AtMostOne(S \cup {x}))
        BY <1>6, <2>1, <3>1 DEF Budget, AtMostOne, AtMostTwo
    <3>3. ~Manual(r) => AtMostOne(S \cup {x})
        BY <1>6, <2>1, <3>1 DEF Budget, AtMostOne
    <3> QED BY <1>7, <1>9, <2>4, <2>5, <3>2, <3>3 DEF Budget, AtMostOne, AtMostTwo
  <2>7. ASSUME Scheduled(r) PROVE Follows(r)' /\ ~Finished(r)
    <3>1. runs[r].status = "pending" \/ ~TaskExists(runs[r].task)
        BY <2>1, <2>7 DEF Kept, Follows
    <3>2. ~TaskExists(runs[r].task) => runs[r].status = "deleted"
        BY <1>8 DEF Snapshot, Steady, LinkedRuns, RunLinked
    <3>3. TaskExists(runs[r].task)' <=> TaskExists(runs[r].task)
        BY <1>2 DEF TaskExists
    <3> QED BY <1>2, <2>1, <2>3, <3>1, <3>2, <3>3 DEF Follows, Terminal, Finished
  <2> QED BY <1>9, <1>12, <2>6, <2>7 DEF Kept
<1>14. CASE a \in Callers
  <2>1. Inserted(r) /\ Manual(r) /\ ~Scheduled(r)
      BY <1>2, <1>8, <1>10, <1>14 DEF Inserted, Holds, Snapshot, Manual, Scheduled
  <2>2. ~Inserted(r)'
    <3> SUFFICES ASSUME NEW d \in Callers, pc'[d] \in {"touch", "dispatch"}, loc'[d].run = r PROVE FALSE
        BY DEF Inserted
    <3>1. d # a /\ pc[d] = pc'[d] /\ loc[d] = loc'[d]
        BY <1>4, <1>10
    <3> QED BY <1>2, <1>14, <3>1 DEF Steady, OwnRun
  <2>3. /\ (Handled(r)' <=> Handled(r)) /\ (Linking(r)' <=> Linking(r))
        /\ loc'[Scheduler] = loc[Scheduler]
      BY <1>2, <1>14, TypeParts, CallerFlags
  <2>4. Allowed(r)' => Allowed(r)
      BY <1>2, <1>7, <2>3 DEF Allowed, AgentExists
  <2>5. Budget(r)'
    <3>1. Budget(r)
        BY DEF Kept
    <3>2. AtMostTwo(S \cup {x}) /\ (Allowed(r)' => AtMostOne(S \cup {x}))
        BY <1>6, <2>1, <2>4, <3>1 DEF Budget, AtMostOne, AtMostTwo
    <3> QED BY <1>7, <1>9, <2>1, <2>2, <3>2 DEF Budget, AtMostOne, AtMostTwo
  <2> QED BY <1>9, <1>12, <2>1, <2>5 DEF Kept
<1> QED BY <1>13, <1>14 DEF Actors

LEMMA QueueMessageAdvances ==
    ASSUME IInv, NEW a \in Actors, QueueMessage(a)
    PROVE  Advances /\ NoneDecided
<1>1. TypeOK /\ Steady /\ now <= now
    BY TypeParts, BoundsAssumption DEF IInv, Tables, Times
<1>2. PICK x \in AgentIds, q \in RunIds : Queues(a, x, q)
    BY <1>1, MessageQueued
<1>3. PICK m : m = [loc[a] EXCEPT !.agent = x]
    OBVIOUS
<1>4. /\ pc[a] = "dispatch" /\ loc[a].run = q /\ Moves(a, "link", m) /\ sched' = sched
      /\ UNCHANGED <<now, tasks, broken, runs, rewound, torn, revived>>
    BY <1>2, <1>3 DEF Queues
<1>5. m.run = q
  <2>1. loc[a] \in Locals
      BY <1>1, ActorFacts
  <2> QED BY <1>3, <1>4, <2>1 DEF Locals
<1>6. ASSUME NEW r \in RunIds \ torn PROVE Settles(r)
  <2>1. Kept(r)
      BY <1>6 DEF IInv
  <2>2. CASE r = q
      BY <1>1, <1>2, <2>1, <2>2, QueuedKept DEF Settles
  <2>3. CASE r # q
    <3>1. /\ AgentsSettle(r)
          /\ Linking(r) => loc[Scheduler].agent # x
                           /\ agents'[loc[Scheduler].agent] = agents[loc[Scheduler].agent]
        BY <1>1, <1>2, <2>3, QueuedAgents
    <3>2. CASE a \in Callers
      <4>1. /\ Inserted(r)' => Inserted(r)
            /\ (Handled(r)' <=> Handled(r)) /\ (Linking(r)' <=> Linking(r))
            /\ (Closing(r)' <=> Closing(r)) /\ (Stale(r)' <=> Stale(r))
            /\ loc'[Scheduler] = loc[Scheduler]
            /\ \A y \in Linked(r) : y \in Linked(r)' \/ Links(a, r, y)
            /\ Linked(r)' \subseteq Linked(r)
          BY <1>1, <1>4, <1>5, <2>3, <3>2, TypeParts, CallerFlags
      <4>2. Allowed(r)' => Allowed(r)
          BY <1>4, <3>1, <4>1 DEF Allowed, AgentExists
      <4>3. Eased(r)
          BY <1>4, <2>1, <4>1, <4>2 DEF Eased, Kept, Follows, Links
      <4>4. TaskExists(runs[r].task)' <=> TaskExists(runs[r].task)
          BY <1>4 DEF TaskExists
      <4> QED BY <1>4, <2>1, <3>1, <4>3, <4>4, RunSettles
    <3>3. CASE a = Scheduler
      <4>1. /\ Inserted(r)' => Inserted(r)
            /\ Handled(r)' => Handled(r)
            /\ ~Linking(r)' /\ ~Closing(r)'
            /\ Stale(r)' => Stale(r)
            /\ \A y \in Linked(r) : y \in Linked(r)' \/ Links(Scheduler, r, y)
            /\ Linked(r)' \subseteq Linked(r)
        <5>1. Shrunk
            BY <1>4 DEF Shrunk
        <5> QED BY <1>1, <1>4, <1>5, <2>3, <3>3, <5>1, TypeParts, LoopFlags
      <4>2. Allowed(r)' => Allowed(r)
          BY <1>4, <3>3, <4>1 DEF Allowed, Linking
      <4>3. Eased(r)
          BY <1>4, <2>1, <3>3, <4>1, <4>2 DEF Eased, Kept, Follows, Links
      <4>4. TaskExists(runs[r].task)' <=> TaskExists(runs[r].task)
          BY <1>4 DEF TaskExists
      <4> QED BY <1>4, <2>1, <3>1, <4>3, <4>4, RunSettles
    <3> QED BY <3>2, <3>3 DEF Actors
  <2> QED BY <2>2, <2>3
<1>7. NoneDecided
  <2>1. TasksCalm
      BY <1>4 DEF TasksCalm, TaskExists
  <2> QED BY <1>1, <1>4, <2>1, ActorDecides
<1> QED BY <1>1, <1>4, <1>6, <1>7 DEF Advances, RowsStay, NextPut, ClockRuns, Scheduled

-----------------------------------------------------------------------------
(* A chat or a task is deleted, old runs are pruned                         *)

\* An Agent task that is gone is no longer in the way of its run.
LEMMA DeleteChatAdvances ==
    ASSUME IInv, NEW x \in AgentIds, DeleteChat(x)
    PROVE  Advances /\ NoneDecided
<1>1. TypeOK /\ Steady /\ now <= now
    BY TypeParts, BoundsAssumption DEF IInv, Tables, Times
<1>2. /\ UNCHANGED <<now, tasks, torn, revived, pc, loc, sched>>
      /\ AgentExists(x)
      /\ agents'[x].run = agents[x].run /\ agents'[x].status = "gone"
      /\ \A y \in AgentIds : y # x => agents'[y] = agents[y]
      /\ \A r \in RunIds : runs[r].agent # x => runs'[r] = runs[r]
      /\ \A r \in RunIds : runs'[r].task = runs[r].task /\ runs'[r].trigger = runs[r].trigger
                           /\ runs'[r].at = runs[r].at /\ runs'[r].status = runs[r].status
    BY <1>1, DeletedChat
<1>3. rewound' = rewound /\ x # None
    BY DEF DeleteChat, history, AgentIds, None
<1>4. PICK q : q = agents[x].run
    OBVIOUS
<1>5. \A r : AgentsOf(r)' = AgentsOf(r)
    BY <1>2 DEF AgentsOf
<1>6. ASSUME NEW r \in RunIds \ torn, r # q PROVE Settles(r)
  <2>1. runs[r].agent # x
      BY <1>1, <1>3, <1>4, <1>6 DEF Steady, LinkedRuns, RunLinked
  <2>2. runs'[r] = runs[r]
      BY <1>2, <2>1
  <2>3. \A y \in AgentsOf(r) : y \in AgentIds /\ agents'[y] = agents[y]
      BY <1>2, <1>4, <1>6 DEF AgentsOf
  <2>4. AgentsSettle(r)
      BY <1>2, <1>5, <2>3 DEF AgentsSettle, Live, AgentExists, Quiet, Rests
  <2>5. Linking(r) => agents'[loc[Scheduler].agent] = agents[loc[Scheduler].agent]
    <3>1. Scheduler \in Actors
        BY DEF Actors
    <3>2. loc[Scheduler] \in Locals /\ Holds(Scheduler, pc[Scheduler], loc[Scheduler])
        BY <1>1, <3>1, ActorFacts
    <3>3. Linking(r) => loc[Scheduler].agent \in AgentIds /\ agents[loc[Scheduler].agent].run = r
        BY <3>2 DEF Linking, Holds, Locals
    <3> QED BY <1>2, <1>4, <1>6, <3>3
  <2>6. /\ Inserted(r)' <=> Inserted(r)
        /\ Handled(r)' <=> Handled(r)
        /\ Linking(r)' <=> Linking(r)
        /\ Closing(r)' <=> Closing(r)
        /\ Stale(r)' <=> Stale(r)
        /\ Linked(r)' = Linked(r)
      BY <1>2, FlagsStay
  <2>7. Allowed(r)' => Allowed(r)
      BY <1>2, <2>2, <2>5, <2>6 DEF Allowed, AgentExists
  <2>8. Kept(r)
      BY <1>6 DEF IInv
  <2>9. Eased(r)
      BY <2>6, <2>7, <2>8 DEF Eased, Kept, Follows
  <2>10. TaskExists(runs[r].task)' <=> TaskExists(runs[r].task)
      BY <1>2, <2>2 DEF TaskExists
  <2> QED BY <2>2, <2>4, <2>8, <2>9, <2>10, RunSettles
<1>7. ASSUME NEW r \in RunIds \ torn, r = q PROVE Settles(r)
  <2> SUFFICES Kept(r)' /\ (Finished(r) => Finished(r)')
      BY DEF Settles
  <2>1. PICK S : S = Live(r)
      OBVIOUS
  <2>2. x \in S /\ x \in AgentsOf(r)
      BY <1>2, <1>4, <1>7, <2>1 DEF Live, AgentsOf
  <2>3. Live(r)' = S \ {x}
      BY <1>2, <1>5, <2>1 DEF Live, AgentExists, AgentsOf
  <2>4. Quiet(r) => Quiet(r)'
      BY <1>2, <1>5 DEF Quiet, AgentsOf, AgentLive
  <2>5. /\ AtMostTwo(S) => AtMostOne(S \ {x})
        /\ AtMostOne(S) => S \ {x} = {} /\ AtMostOne(S \ {x})
      BY <2>2 DEF AtMostOne, AtMostTwo
  <2>6. Budget(r) /\ Cancels(r) /\ (Scheduled(r) => Follows(r))
      BY <1>7 DEF IInv, Kept
  <2>7. /\ Inserted(r)' <=> Inserted(r)
        /\ Handled(r)' <=> Handled(r)
        /\ Linking(r)' <=> Linking(r)
        /\ Closing(r)' <=> Closing(r)
        /\ Stale(r)' <=> Stale(r)
        /\ Linked(r)' = Linked(r)
      BY <1>2, FlagsStay
  <2>8. (Manual(r)' <=> Manual(r)) /\ (Scheduled(r)' <=> Scheduled(r)) /\ ~(Manual(r) /\ Scheduled(r))
      BY <1>2 DEF Manual, Scheduled
  <2>9. AtMostOne(S \ {x}) /\ (~Manual(r) \/ Inserted(r) => S \ {x} = {})
      BY <2>1, <2>5, <2>6 DEF Budget
  <2>10. Budget(r)'
    <3>1. S \ {x} = {} => AtMostOne(S \ {x}) /\ AtMostTwo(S \ {x})
        BY DEF AtMostOne, AtMostTwo
    <3>2. AtMostOne(S \ {x}) => AtMostTwo(S \ {x})
        BY DEF AtMostOne, AtMostTwo
    <3> QED BY <2>3, <2>7, <2>8, <2>9, <3>1, <3>2 DEF Budget, AtMostOne, AtMostTwo
  <2>11. Cancels(r)'
    <3>1. PICK K : K = Known(r) /\ K = Known(r)' /\ K \subseteq AgentIds
      <4>1. Known(r)' = Known(r)
          BY <1>5, <2>7 DEF Known
      <4>2. Known(r) \subseteq AgentIds
          BY DEF Known, AgentsOf
      <4> QED BY <4>1, <4>2
    <3>2. \A y \in K : Rests(y) => Rests(y)'
        BY <1>2, <3>1 DEF Rests, AgentLive
    <3>3. AtMostOne(Known(r))' <=> AtMostOne(K)
        BY <3>1 DEF AtMostOne
    <3>4. runs[r].status = "cancelled" /\ AtMostOne(K) => \A y \in K : Rests(y)'
        BY <2>6, <3>1, <3>2 DEF Cancels
    <3>5. runs[r].status = "pending" => Live(r)' \subseteq Linked(r)'
        BY <2>1, <2>3, <2>6, <2>7 DEF Cancels
    <3>6. ASSUME runs[r].status \in {"queued", "running"}, runs'[r].agent = None
          PROVE  \E y \in K : agents'[y].status = "gone"
      <4>1. CASE runs[r].agent = x
        <5>1. x \in Named
            BY <4>1 DEF Named
        <5>2. x \in K
            BY <1>1, <2>2, <3>1, <5>1, NamedUnlinked DEF Known
        <5> QED BY <1>2, <5>2
      <4>2. CASE runs[r].agent # x
        <5>1. runs[r].agent = None
            BY <1>2, <3>6, <4>2
        <5>2. PICK y \in K : agents[y].status = "gone"
            BY <2>6, <3>1, <3>6, <5>1 DEF Cancels
        <5> QED BY <1>2, <3>1, <5>2
      <4> QED BY <4>1, <4>2
    <3>7. Inserted(r) \/ Handled(r) \/ Linked(r) # {} => K # {} \/ runs[r].status # "cancelled"
        BY <2>6, <3>1 DEF Cancels
    <3> QED BY <1>2, <2>7, <3>1, <3>3, <3>4, <3>5, <3>6, <3>7 DEF Cancels
  <2>12. ASSUME Scheduled(r) PROVE Follows(r)'
    <3>1. Live(r)' = {}
        BY <2>3, <2>8, <2>9, <2>12
    <3>2. TaskExists(runs[r].task)' <=> TaskExists(runs[r].task)
        BY <1>2 DEF TaskExists
    <3> QED BY <1>2, <2>4, <2>6, <2>7, <2>12, <3>1, <3>2 DEF Follows
  <2>13. Finished(r) => Finished(r)'
      BY <1>2, <2>4, <2>7 DEF Finished
  <2> QED BY <2>8, <2>10, <2>11, <2>12, <2>13 DEF Kept
<1>8. NoneDecided
    BY <1>2 DEF NoneDecided, Decided, TaskExists
<1> QED BY <1>1, <1>2, <1>3, <1>6, <1>7, <1>8 DEF Advances, RowsStay, NextPut, ClockRuns, Scheduled

\* A run whose row is deleted
LEMMA DeletedSettles ==
    ASSUME NEW r, runs'[r].status = "deleted", runs'[r].trigger = runs[r].trigger,
           UNCHANGED <<agents, revived>>,
           Inserted(r)' => Inserted(r), Handled(r)' => Handled(r), Linking(r)' => Linking(r),
           Stale(r)' => Stale(r),
           Scheduled(r) =>
             \/ ~TaskExists(runs[r].task)'
             \/ Quiet(r) /\ ~Handled(r)' /\ ~Linking(r)' /\ ~Closing(r)'
    PROVE  Settles(r)
<1> SUFFICES ASSUME Kept(r) PROVE Kept(r)' /\ (Finished(r) => Finished(r)')
    BY DEF Settles
<1>1. Live(r)' = Live(r) /\ AgentsOf(r)' = AgentsOf(r) /\ (Quiet(r)' <=> Quiet(r))
    BY AgentsStay
<1>2. Allowed(r)' => Allowed(r)
    BY DEF Allowed
<1>3. Budget(r)'
  <2>1. PICK S : S = Live(r) /\ S = Live(r)'
      BY <1>1
  <2>2. Budget(r) /\ (Manual(r)' <=> Manual(r))
      BY DEF Kept, Manual
  <2> QED BY <1>2, <2>1, <2>2 DEF Budget, AtMostOne, AtMostTwo
<1>4. Cancels(r)'
    BY DEF Cancels
<1>5. ASSUME Scheduled(r) PROVE Follows(r)'
  <2>1. Follows(r)
      BY <1>5 DEF Kept
  <2> QED BY <1>1, <1>5, <2>1 DEF Follows, Terminal
<1>6. Finished(r) => Finished(r)'
    BY <1>1 DEF Finished
<1>7. Scheduled(r)' => Scheduled(r)
    BY DEF Scheduled
<1> QED BY <1>3, <1>4, <1>5, <1>6, <1>7 DEF Kept

LEMMA DeleteRows ==
    ASSUME TypeOK, Steady, NEW R, Deletes(R)
    PROVE  /\ RowsStay
           /\ \A r \in RunIds : r \notin R => runs'[r] = runs[r]
           /\ \A r \in R : r \in RunIds /\ runs'[r].status = "deleted"
                           /\ runs'[r].task = runs[r].task /\ runs'[r].trigger = runs[r].trigger
<1>1. /\ Grown
      /\ \A r \in R : runs'[r].status = "deleted"
      /\ \A r \in RunIds : r \notin R => runs'[r] = runs[r]
    BY DeleteTables
<1>2. \A r \in R : r \in RunIds /\ runs[r].status # "absent"
    BY DEF Deletes
<1>3. \A r \in R : /\ runs'[r].task = runs[r].task /\ runs'[r].trigger = runs[r].trigger
                   /\ runs'[r].at = runs[r].at
    BY <1>1, <1>2 DEF Grown
<1> QED BY <1>1, <1>2, <1>3 DEF RowsStay, Scheduled

LEMMA DeleteTaskAdvances ==
    ASSUME IInv, NEW t \in Tasks, DeleteTask(t)
    PROVE  Advances /\ NoneDecided
<1>1. /\ TypeOK /\ Steady /\ ActorsHold /\ now <= now
      /\ UNCHANGED <<now, agents, rewound, torn, revived>> /\ UNCHANGED <<pc, loc, sched>>
    BY TypeParts, BoundsAssumption DEF IInv, DeleteTask, history, Steady, Tables, Times
<1>2. PICK R : R = {r \in RunIds : runs[r].task = t}
    OBVIOUS
<1>3. Deletes(R) /\ tasks'[t].status = "deleted" /\ tasks'[t].next = None
      /\ \A u \in Tasks : u # t => tasks'[u] = tasks[u]
  <2>1. runs' = [r \in RunIds |-> IF r \in R THEN [runs[r] EXCEPT !.status = "deleted"] ELSE runs[r]]
      BY <1>2 DEF DeleteTask
  <2>2. ASSUME NEW r \in R PROVE runs[r].status # "absent"
      BY <1>1, <1>2, TasksAssumption DEF Steady, LinkedRuns, RunLinked, NoRun
  <2>3. tasks'[t].status = "deleted" /\ tasks'[t].next = None
        /\ \A u \in Tasks : u # t => tasks'[u] = tasks[u]
      BY <1>1, TypeParts DEF DeleteTask, Tables, NoTask
  <2>4. \A r \in RunIds \ R : runs[r].status # "absent" => runs[r].task \in Tasks
      BY <1>1 DEF Steady, LinkedRuns, RunLinked
  <2> QED BY <1>1, <1>2, <2>1, <2>2, <2>3, <2>4 DEF Deletes
<1>4. /\ RowsStay
      /\ \A r \in RunIds : r \notin R => runs'[r] = runs[r]
      /\ \A r \in R : r \in RunIds /\ runs'[r].status = "deleted"
                      /\ runs'[r].task = runs[r].task /\ runs'[r].trigger = runs[r].trigger
    BY <1>1, <1>3, DeleteRows
<1>5. ASSUME NEW r \in RunIds \ torn PROVE Settles(r)
  <2>1. /\ Inserted(r)' <=> Inserted(r)
        /\ Handled(r)' <=> Handled(r)
        /\ Linking(r)' <=> Linking(r)
        /\ Stale(r)' <=> Stale(r)
      BY <1>1, FlagsStay
  <2>2. CASE r \in R
    <3>1. ~TaskExists(runs[r].task)'
        BY <1>2, <1>3, <1>4, <2>2 DEF TaskExists
    <3> QED BY <1>1, <1>4, <2>1, <2>2, <3>1, DeletedSettles
  <2>3. CASE r \notin R
    <3>1. runs'[r] = runs[r] /\ runs[r].task # t
        BY <1>2, <1>4, <2>3
    <3>2. AgentsSettle(r)
        BY <1>1, AgentsStay
    <3>3. \A x \in AgentIds : AgentExists(x)' <=> AgentExists(x)
        BY <1>1 DEF AgentExists
    <3>4. ASSUME Scheduled(r) PROVE TaskExists(runs[r].task)' <=> TaskExists(runs[r].task)
      <4>1. runs[r].task \in Tasks
          BY <1>1, <3>4 DEF Steady, LinkedRuns, RunLinked, NoRun, Scheduled
      <4> QED BY <1>3, <3>1, <4>1 DEF TaskExists
    <3> QED BY <1>1, <3>1, <3>2, <3>3, <3>4, StaySettles
  <2> QED BY <2>2, <2>3
<1>6. NextPut
    BY <1>3 DEF NextPut
<1>7. NoneDecided
    BY <1>1, <1>3 DEF NoneDecided, Decided, TaskExists
<1> QED BY <1>1, <1>4, <1>5, <1>6, <1>7 DEF Advances, ClockRuns

LEMMA ReconcileDoneAdvances ==
    ASSUME IInv, ReconcileDone
    PROVE  Advances /\ NoneDecided
<1>1. /\ TypeOK /\ Steady /\ pc[Scheduler] = "reconcile" /\ Scheduler \in Actors /\ now <= now
      /\ UNCHANGED <<now, tasks, agents, rewound, torn, revived, loc>>
    BY TypeParts, BoundsAssumption DEF IInv, ReconcileDone, history, Actors, Tables, Times
<1>2. PICK R : R = {r \in RunIds : Expired(r)}
    OBVIOUS
<1>3. Deletes(R)
  <2>1. runs' = [r \in RunIds |-> IF r \in R THEN [runs[r] EXCEPT !.status = "deleted"] ELSE runs[r]]
      BY <1>2 DEF ReconcileDone
  <2>2. \A r \in R : runs[r].status # "absent"
      BY <1>2 DEF Expired, Terminal
  <2> QED BY <1>1, <1>2, <2>1, <2>2 DEF Deletes
<1>4. /\ RowsStay
      /\ \A r \in RunIds : r \notin R => runs'[r] = runs[r]
      /\ \A r \in R : r \in RunIds /\ runs'[r].status = "deleted"
                      /\ runs'[r].task = runs[r].task /\ runs'[r].trigger = runs[r].trigger
    BY <1>1, <1>3, DeleteRows
<1>5. PICK l : l = loc[Scheduler]
    OBVIOUS
<1>6. Moves(Scheduler, "due", l) /\ TasksCalm
    BY <1>1, <1>5, TypeParts DEF ReconcileDone, Moves, ActorTypes, TasksCalm, TaskExists
<1>7. sched'.at = now /\ DOMAIN sched'.todo = {}
    BY IdleFacts DEF ReconcileDone, NoScan
<1>8. ASSUME NEW r \in RunIds \ torn PROVE Settles(r)
  <2>1. CASE r \in R
    <3>1. /\ Inserted(r)' <=> Inserted(r)
          /\ ~Linking(r)' /\ ~Closing(r)'
        BY <1>1, <1>6, TypeParts, LoopFlags
    <3>2. pc'[Scheduler] = "due"
        BY <1>1, <1>6, TypeParts, Moved
    <3>3. ~Handled(r)' /\ ~Stale(r)'
        BY <1>7, <3>2 DEF Handled, Stale
    <3>4. Scheduled(r) => Quiet(r)
        BY <1>2, <1>8, <2>1 DEF Expired, IInv, Kept, Follows
    <3> QED BY <1>1, <1>4, <2>1, <3>1, <3>3, <3>4, DeletedSettles
  <2>2. CASE r \notin R
    <3>1. LinkDropped(Scheduler, r) /\ Shrunk /\ runs'[r] = runs[r]
        BY <1>1, <1>4, <1>7, <2>2 DEF LinkDropped, Shrunk
    <3> QED BY <1>1, <1>6, <3>1, LoopReturns
  <2> QED BY <2>1, <2>2
<1>9. NextPut
    BY <1>1 DEF NextPut
<1>10. NoneDecided
    BY <1>1, <1>6, LoopDecides
<1> QED BY <1>1, <1>4, <1>7, <1>8, <1>9, <1>10 DEF Advances, ClockRuns

-----------------------------------------------------------------------------
(* A run is inserted                                                        *)

LEMMA NewRunKept ==
    ASSUME TypeOK, Steady, NEW n, NEW run, Inserts(n, run)
    PROVE  /\ Quiet(n)' /\ ~Scheduled(n) /\ ~Handled(n) /\ ~Linking(n)
           /\ (Scheduled(n)' /\ (Handled(n)' \/ Linking(n)') => run.status = "pending") => Kept(n)'
<1>1. n \in RunIds /\ runs[n].status = "absent" /\ runs'[n] = run
      /\ run.status \in {"pending", "skipped"} /\ agents' = agents /\ n # None
  <2>1. runs'[n] = run
      BY InsertTables
  <2> QED BY <2>1 DEF Inserts, NewRow, RunIds, None
<1>2. AgentsOf(n)' = {}
    BY <1>1 DEF AgentsOf, Steady, LinkedAgents
<1>3. Live(n)' = {} /\ Quiet(n)'
    BY <1>2 DEF Live, Quiet
<1>4. ~Scheduled(n)
    BY <1>1 DEF Steady, LinkedRuns, RunLinked, NoRun, Scheduled
<1>5. ~Handled(n) /\ ~Linking(n)
  <2>1. Scheduler \in Actors
      BY DEF Actors
  <2>2. pc[Scheduler] \in {"dispatch", "link"} => runs[loc[Scheduler].run].status # "absent"
      BY <2>1, ActorFacts DEF Holds, Snapshot, Writers
  <2>3. \A r \in DOMAIN sched.todo : runs[r].status # "absent"
      BY DEF Steady, Scanned, Snapshot
  <2> QED BY <1>1, <2>2, <2>3 DEF Handled, Linking
<1>6. Budget(n)'
    BY <1>3 DEF Budget, AtMostOne, AtMostTwo
<1>7. Cancels(n)'
    BY <1>1, <1>3 DEF Cancels
<1>8. ASSUME Scheduled(n)' /\ (Handled(n)' \/ Linking(n)') => run.status = "pending" PROVE Kept(n)'
  <2>1. Scheduled(n)' => Follows(n)'
      BY <1>1, <1>3, <1>8 DEF Follows
  <2> QED BY <1>6, <1>7, <2>1 DEF Kept
<1> QED BY <1>3, <1>4, <1>5, <1>8

LEMMA RunNowInsertAdvances ==
    ASSUME IInv, NEW c \in Callers, RunNowInsert(c)
    PROVE  Advances /\ NoneDecided
<1>1. /\ TypeOK /\ Steady /\ c \in Actors /\ pc[c] = "insert" /\ sched' = sched /\ now \in Times
      /\ UNCHANGED <<now, tasks, broken, agents, rewound, torn, revived>>
    BY TypeParts DEF IInv, RunNowInsert, history, Actors, Tables
<1>2. PICK l \in Locals : l = loc[c]
    BY <1>1, ActorFacts
<1>3. l.task \in Tasks
    BY <1>1, <1>2, ActorFacts DEF Holds
<1>4. PICK run : run = [task |-> l.task, trigger |-> "manual", status |-> "pending",
                        at |-> now, agent |-> None, done |-> None]
    OBVIOUS
<1>5. CASE Goto(c, "idle", Idle) /\ UNCHANGED runs
  <2>1. Idles /\ Moves(c, "idle", Idle)
      BY <1>1, <1>5, GotoMoves DEF Idles, Still, Reset
  <2> QED BY <1>1, <2>1, CallerMoveAdvances
<1>6. CASE /\ TaskExists(l.task) /\ FreeRuns # {}
           /\ runs' = [runs EXCEPT ![NewRun] = run]
           /\ Goto(c, "touch", [l EXCEPT !.run = NewRun, !.snap = run])
  <2>1. PICK n \in RunIds : n = NewRun /\ runs[n].status = "absent"
      BY <1>6, NewRunFree
  <2>2. now # None /\ now <= now
      BY <1>1, BoundsAssumption DEF Times, None
  <2>3. Inserts(n, run) /\ run.trigger = "manual"
    <3>1. NewRow(run) /\ run.task = l.task
        BY <1>1, <1>3, <1>4, <2>2 DEF NewRow, RunRows, ActiveStatuses
    <3> QED BY <1>1, <1>4, <1>6, <2>1, <3>1 DEF Inserts, TasksCalm, TaskExists
  <2>4. runs'[n] = run /\ \A r \in RunIds : r # n => runs'[r] = runs[r]
      BY <1>1, <2>3, InsertTables
  <2>5. PICK m : m = [l EXCEPT !.run = n, !.snap = run]
      OBVIOUS
  <2>6. Moves(c, "touch", m) /\ m.run = n
      BY <1>6, <2>1, <2>5, GotoMoves DEF Reset, Locals
  <2>7. TasksCalm
      BY <1>1 DEF TasksCalm, TaskExists
  <2>8. ASSUME NEW r \in RunIds \ torn PROVE Settles(r)
    <3>1. CASE r # n
      <4>1. CallerEases(c, "touch", m, r)
          BY <1>1, <2>6, <3>1 DEF CallerEases, LinkDropped
      <4> QED BY <1>1, <2>4, <2>6, <2>7, <3>1, <4>1, CallerSettles
    <3>2. CASE r = n
      <4>1. ~Scheduled(n)'
          BY <2>3, <2>4 DEF Scheduled
      <4>2. Kept(n)' /\ ~Scheduled(n)
          BY <1>1, <2>3, <4>1, NewRunKept
      <4> QED BY <3>2, <4>2 DEF Settles
    <3> QED BY <3>1, <3>2
  <2>9. RowsStay
      BY <2>3, <2>4 DEF RowsStay, Scheduled
  <2>10. NoneDecided
      BY <1>1, <2>6, <2>7, CallerDecides
  <2> QED BY <1>1, <2>2, <2>8, <2>9, <2>10 DEF Advances, NextPut, ClockRuns
<1> QED BY <1>1, <1>2, <1>4, <1>5, <1>6 DEF RunNowInsert

\* The occurrence that is claimed is no longer the next one.
LEMMA ClaimOccurs ==
    ASSUME IInv, TypeOK', pc[Scheduler] = "claim",
           UNCHANGED <<now, broken, agents, sched, rewound, torn, revived>>,
           NEW n \in RunIds, NEW run, NEW next, Claims(n, run, next)
    PROVE  Occurrences' /\ OccurrenceOnce'
<1>1. TypeOK /\ Steady /\ Occurrences /\ OccurrenceOnce
    BY DEF IInv
<1>2. PICK l : l = loc[Scheduler]
    OBVIOUS
<1>3. PICK t \in Tasks : t = l.task
    BY <1>1, <1>2, ClaimFacts
<1>4. /\ l.row \in TaskRows /\ l.row.next # None /\ l.row.next \in Nat
      /\ sched.phase = "due" /\ sched.at \in Nat /\ l.row.next <= sched.at
    BY <1>1, <1>2, ClaimFacts, BoundsAssumption DEF Times
<1>5. /\ Inserts(n, run) /\ run.trigger = "scheduled" /\ run.task = t /\ run.at = l.row.next
      /\ \A u \in Tasks : u # t => tasks'[u] = tasks[u]
      /\ tasks'[t].next = next
    BY <1>1, <1>2, <1>3, ClaimTables
<1>6. /\ runs'[n] = run /\ runs[n].status = "absent" /\ ~Scheduled(n)
      /\ \A r \in RunIds : r # n => runs'[r] = runs[r]
    BY <1>1, <1>5, InsertTables, NewRunKept DEF Inserts
<1>7. \A u : Claimed(u)' \subseteq Claimed(u) \cup (IF u = t THEN {l.row.next} ELSE {})
    BY <1>5, <1>6 DEF Claimed
<1>8. tasks[t].next = l.row.next
    BY <1>2, <1>3 DEF Claims, ClaimMatches
<1>9. sched.at <= now /\ now \in Nat
    BY <1>1, <1>4, TypeParts, BoundsAssumption DEF Occurrences, Tables, Times
<1>10. ASSUME NEW u \in Tasks PROVE Ahead(u)'
  <2>1. CASE u # t
      BY <1>1, <1>5, <1>7, <2>1 DEF Occurrences, Ahead
  <2>2. CASE u = t /\ next # None
    <3>1. next \in Nat /\ next > sched.at
      <4>1. l.row.sched \in Schedules \cup {NoSchedule}
          BY <1>4 DEF TaskRows
      <4>2. next = NextRunAfter(l.row.sched, sched.at)
          BY <1>2 DEF Claims
      <4> QED BY <1>4, <2>2, <4>1, <4>2, NextRunLater
    <3>2. ASSUME NEW r \in RunIds, Scheduled(r) PROVE runs[r].at # next
      <4>1. runs[r].at <= sched.at
          BY <1>1, <1>4, <3>2 DEF Occurrences
      <4> QED BY <1>4, <3>1, <4>1
    <3>3. next \notin Claimed(t)
        BY <3>2 DEF Claimed, Scheduled
    <3>4. next # l.row.next
        BY <1>4, <3>1
    <3> QED BY <1>5, <1>7, <2>2, <3>3, <3>4 DEF Ahead
  <2>3. CASE u = t /\ next = None
      BY <1>5, <2>3 DEF Ahead
  <2> QED BY <2>1, <2>2, <2>3
<1>11. ASSUME NEW r \in RunIds, Scheduled(r)'
       PROVE  runs'[r].at <= now /\ runs'[r].at <= sched.at
  <2>1. CASE r = n
      BY <1>4, <1>5, <1>6, <1>9, <2>1
  <2>2. CASE r # n
    <3>1. Scheduled(r) /\ runs'[r].at = runs[r].at
        BY <1>6, <1>11, <2>2 DEF Scheduled
    <3> QED BY <1>1, <1>4, <3>1 DEF Occurrences
  <2> QED BY <2>1, <2>2
<1>12. ASSUME NEW r \in RunIds, Scheduled(r), runs[r].task = t, runs[r].at = l.row.next
       PROVE  <<t, l.row.next>> \in rewound
  <2>1. l.row.next \in Claimed(t)
      BY <1>12 DEF Claimed, Scheduled
  <2>2. Ahead(t)
      BY <1>1 DEF Occurrences
  <2> QED BY <1>4, <1>8, <2>1, <2>2 DEF Ahead
<1>13. OccurrenceOnce'
  <2> SUFFICES ASSUME NEW r \in RunIds, NEW q \in RunIds,
                      Scheduled(r)', Scheduled(q)', runs'[r].task = runs'[q].task,
                      runs'[r].at = runs'[q].at, r # q
               PROVE  <<runs'[r].task, runs'[r].at>> \in rewound
      BY DEF OccurrenceOnce, Scheduled
  <2>1. CASE r # n /\ q # n
      BY <1>1, <1>6, <2>1 DEF OccurrenceOnce, Scheduled
  <2>2. CASE r = n
    <3>1. Scheduled(q) /\ runs[q].task = t /\ runs[q].at = l.row.next
        BY <1>5, <1>6, <2>2 DEF Scheduled
    <3> QED BY <1>5, <1>6, <1>12, <2>2, <3>1
  <2>3. CASE q = n
    <3>1. Scheduled(r) /\ runs[r].task = t /\ runs[r].at = l.row.next
        BY <1>5, <1>6, <2>3 DEF Scheduled
    <3> QED BY <1>5, <1>6, <1>12, <2>3, <3>1
  <2> QED BY <2>1, <2>2, <2>3
<1> QED BY <1>1, <1>9, <1>10, <1>11, <1>13 DEF Occurrences

\* A run that is claimed is the only one of a task that skips, or is skipped.
LEMMA ClaimAlternates ==
    ASSUME IInv, pc[Scheduler] = "claim",
           UNCHANGED <<now, broken, agents, sched, rewound, torn, revived>>,
           NEW n \in RunIds, NEW run, NEW next, Claims(n, run, next)
    PROVE  /\ \A r \in RunIds \ torn' : Kept(r)'
           /\ Alternate' /\ Cleared'
<1>1. TypeOK /\ Steady
    BY DEF IInv
<1>2. PICK l \in Locals : l = loc[Scheduler]
    BY <1>1, ClaimFacts
<1>3. PICK t \in Tasks : t = l.task
    BY <1>1, <1>2, ClaimFacts
<1>4. l.op \in {"pending", "skipped"} /\ Scheduler \in Actors
    BY <1>1, <1>2, ClaimFacts
<1>5. /\ Inserts(n, run) /\ run.trigger = "scheduled" /\ run.task = t /\ run.status = l.op
    BY <1>1, <1>2, <1>3, ClaimTables
<1>6. /\ runs'[n] = run
      /\ \A r \in RunIds : r # n => runs'[r] = runs[r]
    BY <1>1, <1>5, InsertTables
<1>7. PICK p : p = IF l.op = "pending" THEN "dispatch" ELSE "due"
    OBVIOUS
<1>8. PICK k : k = [Idle EXCEPT !.task = l.task, !.run = n, !.snap = run]
    OBVIOUS
<1>9. PICK m : m = Reset(p, k)
    OBVIOUS
<1>10. Moves(Scheduler, p, m)
  <2>1. Goto(Scheduler, p, k)
      BY <1>2, <1>7, <1>8 DEF Claims
  <2> QED BY <1>9, <2>1, GotoMoves
<1>11. p = "dispatch" => m.run = n
    BY <1>7, <1>8, <1>9 DEF Reset, Idle
<1>12. TasksCalm /\ Shrunk
    BY <1>5 DEF Inserts, Shrunk
<1>13. ASSUME NEW r \in RunIds
       PROVE  /\ Handled(r)' => Handled(r) \/ (p = "dispatch" /\ r = n)
              /\ ~Linking(r)' /\ ~Closing(r)'
              /\ Stale(r)' => Stale(r)
    BY <1>1, <1>7, <1>10, <1>11, <1>12, TypeParts, LoopFlags
<1>14. ASSUME NEW r \in RunIds \ torn, r # n PROVE Settles(r)
  <2>1. Kept(r)
      BY <1>14 DEF IInv
  <2>2. LinkDropped(Scheduler, r)
      BY DEF LinkDropped
  <2>3. LoopEases(r)
      BY <1>13, <1>14, <2>1, <2>2 DEF LoopEases, Kept, Follows
  <2> QED BY <1>1, <1>5, <1>6, <1>7, <1>10, <1>12, <1>14, <2>1, <2>3, LoopSettles DEF Inserts
<1>15. Quiet(n)' /\ ~Scheduled(n) /\ ~Handled(n)
    BY <1>1, <1>5, NewRunKept
<1>16. Kept(n)'
  <2>1. Handled(n)' \/ Linking(n)' => run.status = "pending"
      BY <1>4, <1>5, <1>7, <1>13, <1>15
  <2> QED BY <1>1, <1>5, <2>1, NewRunKept
<1>17. ASSUME NEW r \in RunIds \ torn', r # n
       PROVE  Kept(r)' /\ (Scheduled(r) /\ Finished(r) => Finished(r)')
    BY <1>14, <1>17 DEF IInv, Settles
<1>18. ASSUME NEW q \in RunIds \ torn', q # n, Scheduled(q)', runs'[q].task = t, t \in SkipTasks
       PROVE  Finished(n)' \/ Finished(q)'
  <2>1. Scheduled(q) /\ runs[q].task = t
      BY <1>6, <1>18 DEF Scheduled
  <2>2. CASE l.op = "pending"
    <3>1. TaskExists(t)
        BY <1>2, <1>3 DEF Claims, ClaimMatches, TaskExists
    <3>2. Decided(runs[q].task)
        BY <1>2, <1>3, <1>18, <2>1, <2>2, <3>1 DEF Decided
    <3>3. Finished(q)
        BY <1>18, <2>1, <3>2 DEF IInv, Cleared
    <3> QED BY <1>17, <1>18, <2>1, <3>3
  <2>3. CASE l.op = "skipped"
    <3>1. ~Handled(n)' /\ ~Linking(n)' /\ runs'[n].status # "pending"
        BY <1>5, <1>6, <1>7, <1>13, <1>15, <2>3
    <3> QED BY <1>15, <3>1 DEF Finished
  <2> QED BY <1>4, <2>2, <2>3
<1>19. Alternate'
  <2> SUFFICES ASSUME NEW r \in RunIds \ torn', NEW q \in RunIds \ torn',
                      Scheduled(r)', Scheduled(q)', r # q,
                      runs'[r].task = runs'[q].task, runs'[r].task \in SkipTasks
               PROVE  Finished(r)' \/ Finished(q)'
      BY DEF Alternate
  <2>1. CASE r = n
      BY <1>5, <1>6, <1>18, <2>1
  <2>2. CASE q = n
      BY <1>5, <1>6, <1>18, <2>2
  <2>3. CASE r # n /\ q # n
    <3>1. Scheduled(r) /\ Scheduled(q) /\ runs[r].task = runs[q].task /\ runs[r].task \in SkipTasks
        BY <1>6, <2>3 DEF Scheduled
    <3>2. Finished(r) \/ Finished(q)
        BY <2>3, <3>1 DEF IInv, Alternate
    <3> QED BY <1>17, <2>3, <3>1, <3>2
  <2> QED BY <2>1, <2>2, <2>3
<1>20. Cleared'
  <2>1. pc'[Scheduler] = p
      BY <1>1, <1>4, <1>10, TypeParts, Moved
  <2> QED BY <1>7, <2>1 DEF Cleared, Decided
<1> QED BY <1>16, <1>17, <1>19, <1>20

-----------------------------------------------------------------------------
(* Every step                                                               *)

RunsInv ==
    /\ Occurrences /\ OccurrenceOnce
    /\ \A r \in RunIds \ torn : Kept(r)
    /\ Alternate /\ Cleared

LEMMA AdvanceInvariant ==
    ASSUME IInv, TypeOK', Advances, NoneDecided \/ Cleared'
    PROVE  RunsInv'
<1>1. NoneDecided => Cleared'
    BY ClearedStays DEF NoneDecided
<1> QED BY <1>1, RunsAdvance DEF RunsInv

LEMMA ClaimInvariant ==
    ASSUME IInv, TypeOK', Claim
    PROVE  RunsInv'
<1>1. TypeOK /\ Steady /\ pc[Scheduler] = "claim"
      /\ UNCHANGED <<now, broken, agents, sched, rewound, torn, revived>>
    BY ClaimCases DEF IInv
<1>2. CASE Goto(Scheduler, "due", Idle) /\ UNCHANGED <<tasks, runs>>
  <2>1. Moves(Scheduler, "due", Idle) /\ Idles /\ Shrunk
      BY <1>1, <1>2, GotoMoves DEF Reset, Idles, Still, Shrunk
  <2> QED BY <1>1, <2>1, LoopMoveAdvances, LoopDecides, AdvanceInvariant
<1>3. ASSUME NEW n \in RunIds, NEW run, NEW next, Claims(n, run, next)
      PROVE  RunsInv'
    BY <1>1, <1>3, ClaimOccurs, ClaimAlternates DEF RunsInv
<1> QED BY <1>1, <1>2, <1>3, ClaimCases

LEMMA ActorInvariant ==
    ASSUME IInv, TypeOK', NEW a \in Actors, Step(a)
    PROVE  RunsInv'
  BY AdvanceInvariant, QueueInputFailsAdvances, QueueMessageAdvances, QueueFailsAdvances,
     LinkRunAdvances, MarkFailedAdvances, SyncReadAdvances, SyncWriteAdvances DEF Step

LEMMA LoopInvariant ==
    ASSUME IInv, TypeOK', SchedulerStep
    PROVE  RunsInv'
<1>1. Scheduler \in Actors
    BY DEF Actors
<1>2. ASSUME Step(Scheduler) PROVE RunsInv'
    BY <1>1, <1>2, ActorInvariant
<1>3. ASSUME Claim PROVE RunsInv'
    BY <1>3, ClaimInvariant
<1>4. ASSUME CountActive PROVE RunsInv'
    BY <1>4, CountActiveAdvances, AdvanceInvariant
<1>5. ASSUME ScanStart \/ ReconcileRun \/ ReconcileDone \/ ScanDone PROVE RunsInv'
    BY <1>5, AdvanceInvariant, ScanStartAdvances, ReconcileRunAdvances, ReconcileDoneAdvances,
       ScanDoneAdvances
<1>6. ASSUME NEW t \in Tasks, DueRead(t) PROVE RunsInv'
    BY <1>6, AdvanceInvariant, DueReadAdvances
<1> QED BY <1>2, <1>3, <1>4, <1>5, <1>6 DEF SchedulerStep

LEMMA CallerInvariant ==
    ASSUME IInv, TypeOK', NEW c \in Callers, CallerStep(c) \/ Call(c)
    PROVE  RunsInv'
<1>1. c \in Actors
    BY DEF Actors
<1>2. CASE CallerStep(c)
    BY <1>1, <1>2, ActorInvariant, AdvanceInvariant, EditWriteAdvances, RunNowInsertAdvances,
       RunNowTouchAdvances, CancelDecideAdvances, MarkCancelledAdvances DEF CallerStep
<1>3. CASE Call(c)
    BY <1>3, AdvanceInvariant, EditReadAdvances, RunNowReadAdvances, RunReadAdvances DEF Call
<1> QED BY <1>2, <1>3

LEMMA EnvironmentInvariant ==
    ASSUME IInv, TypeOK', Environment
    PROVE  RunsInv'
  BY AdvanceInvariant, DeleteTaskAdvances, RemoveDefinitionAdvances, CreateTaskAdvances,
     AgentMoveAdvances, DeleteChatAdvances, TickAdvances, CallEnds, CrashEnds, EndsAdvances
     DEF IInv, Environment

LEMMA IInvNext ==
    ASSUME IInv, [Next]_vars
    PROVE  IInv'
<1>1. TypeOK' /\ Steady'
    BY SteadyNext DEF IInv
<1>2. CASE UNCHANGED vars
    BY <1>1, <1>2, StutterAdvances, AdvanceInvariant DEF IInv, RunsInv
<1>3. CASE Next
  <2>1. RunsInv'
      BY <1>1, <1>3, LoopInvariant, EnvironmentInvariant, CallerInvariant DEF Next
  <2> QED BY <1>1, <2>1 DEF IInv, RunsInv
<1> QED BY <1>2, <1>3

LEMMA IInvInit ==
    ASSUME Init
    PROVE  IInv
<1>1. TypeOK /\ Steady
    BY SteadyInit
<1>2. ASSUME NEW r \in RunIds
      PROVE  /\ Live(r) = {} /\ AgentsOf(r) = {} /\ runs[r] = NoRun /\ ~Scheduled(r) /\ ~Manual(r)
  <2>1. r # None
      BY DEF RunIds, None
  <2> QED BY <2>1 DEF Init, Live, AgentsOf, NoAgent, NoRun, Scheduled, Manual
<1>3. ASSUME NEW r \in RunIds PROVE Kept(r)
    BY <1>2 DEF Kept, Budget, Cancels, NoRun, AtMostOne
<1>4. Occurrences
    BY <1>2 DEF Init, Occurrences, Ahead, NoTask, NoScan
<1>5. OccurrenceOnce /\ Alternate /\ Cleared
    BY <1>2 DEF OccurrenceOnce, Alternate, Cleared, Scheduled
<1> QED BY <1>1, <1>3, <1>4, <1>5 DEF IInv

-----------------------------------------------------------------------------
(* Theorems                                                                 *)

\* The invariant holds of every behaviour of the scheduler loop, the requests,
\* the Agent tasks and restarts: rows that refer to each other, the snapshots
\* that actors write back, and what may still be queued for a run.
THEOREM IInvHolds == Spec => []IInv
<1>1. Init => IInv
    BY IInvInit
<1>2. IInv /\ [Next]_vars => IInv'
    BY IInvNext
<1> QED BY <1>1, <1>2, PTL DEF Spec

\* claim_due_scheduled_task_run turns an occurrence of a schedule into one run,
\* unless a request that read the task before the claim wrote it back after.
THEOREM OccurrencesOnce == Spec => []OccurrenceOnce
<1>1. IInv => OccurrenceOnce
    BY DEF IInv
<1> QED BY <1>1, IInvHolds, PTL

LEMMA AtMostOneCounts ==
    ASSUME NEW S, AtMostOne(S)
    PROVE  IsFiniteSet(S) /\ Cardinality(S) <= 1
<1>1. CASE S = {}
    BY <1>1, FS_EmptySet
<1>2. CASE S # {}
  <2>1. PICK x : S = {x}
      BY <1>2 DEF AtMostOne
  <2>2. IsFiniteSet({x}) /\ Cardinality({x}) = 1
      BY FS_Singleton
  <2> QED BY <2>1, <2>2
<1> QED BY <1>1, <1>2

LEMMA AtMostTwoCounts ==
    ASSUME NEW S, AtMostTwo(S)
    PROVE  Cardinality(S) <= 2
<1>1. CASE S = {}
    BY <1>1, FS_EmptySet
<1>2. CASE S # {}
  <2>1. PICK x \in S : TRUE
      BY <1>2
  <2>2. AtMostOne(S \ {x})
      BY <2>1 DEF AtMostOne, AtMostTwo
  <2>3. IsFiniteSet(S \ {x}) /\ Cardinality(S \ {x}) <= 1
      BY <2>2, AtMostOneCounts
  <2>4. S = (S \ {x}) \cup {x} /\ x \notin S \ {x}
      BY <2>1
  <2>5. Cardinality(S) = Cardinality(S \ {x}) + 1
      BY <2>3, <2>4, FS_AddElement
  <2>6. Cardinality(S \ {x}) \in Nat
      BY <2>3, FS_CardinalityType
  <2> QED BY <2>3, <2>5, <2>6
<1> QED BY <1>1, <1>2

\* dispatch_scheduled_task_run hands a claimed run to the Agent queue once and
\* a manual one at most twice, the Agent tasks that lost their run aside,
\* through restarts, failing calls, late syncs and scans that take a run that a
\* request is dispatching for a stale one.
THEOREM DispatchesBounded == Spec => []DispatchBound
<1>1. ASSUME IInv PROVE DispatchBound
  <2>1. ASSUME NEW r \in RunIds \ torn
        PROVE  Cardinality({x \in AgentsOf(r) : AgentExists(x)})
                 <= IF runs[r].trigger = "manual" THEN 2 ELSE 1
    <3>1. Budget(r) /\ Live(r) = {x \in AgentsOf(r) : AgentExists(x)}
        BY <1>1, <2>1 DEF IInv, Kept, Live
    <3>2. CASE Manual(r)
        BY <3>1, <3>2, AtMostTwoCounts DEF Budget, Manual
    <3>3. CASE ~Manual(r)
        BY <3>1, <3>3, AtMostOneCounts DEF Budget, Manual
    <3> QED BY <3>2, <3>3
  <2> QED BY <1>1, <2>1 DEF IInv, DispatchBound
<1> QED BY <1>1, IInvHolds, PTL

\* Under skip_if_running two claimed runs of a task never have linked Agent
\* tasks in progress together, but for the two exceptions that are named.
THEOREM SkippedRunsApart == Spec => []NoOverlap
<1>1. ASSUME IInv PROVE NoOverlap
  <2>1. ASSUME NEW r \in RunIds \ torn, Finished(r), runs[r].agent \notin {None} \cup revived
        PROVE  agents[runs[r].agent].status \notin AgentLive
    <3>1. runs[r].agent \in AgentsOf(r)
      <4>1. RunLinked(r) /\ runs[r].agent \in AgentIds
          BY <1>1, <2>1, TypeParts DEF IInv, Steady, LinkedRuns, Tables, RunRows
      <4> QED BY <2>1, <4>1 DEF RunLinked, AgentsOf
    <3> QED BY <2>1, <3>1 DEF Finished, Quiet
  <2> QED BY <1>1, <2>1 DEF IInv, Alternate, NoOverlap, Scheduled
<1> QED BY <1>1, IInvHolds, PTL

\* cancel_scheduled_task_run leaves no Agent task of the run in progress, but
\* for the exceptions that are named.
THEOREM CancelledRunsStop == Spec => []CancelledStops
<1>1. ASSUME IInv PROVE CancelledStops
  <2> SUFFICES ASSUME NEW r \in RunIds \ torn, runs[r].status = "cancelled",
                      \A x, y \in AgentsOf(r) : x = y
               PROVE  \A x \in AgentsOf(r) : Rests(x)
      BY DEF CancelledStops, Rests
  <2>1. Cancels(r)
      BY <1>1 DEF IInv, Kept
  <2>2. Linked(r) \subseteq AgentsOf(r)
    <3> SUFFICES ASSUME NEW a \in Actors, pc[a] = "link", loc[a].run = r
                 PROVE  loc[a].agent \in AgentsOf(r)
        BY DEF Linked
    <3>1. loc[a] \in Locals /\ Holds(a, "link", loc[a])
        BY <1>1, ActorFacts DEF IInv
    <3> QED BY <3>1 DEF Holds, Locals, AgentsOf
  <2>3. Linked(r) = {}
      BY <2>1, <2>2 DEF Cancels, Known
  <2>4. Known(r) = AgentsOf(r)
      BY <2>3 DEF Known
  <2> QED BY <2>1, <2>4 DEF Cancels, AtMostOne
<1> QED BY <1>1, IInvHolds, PTL

\* interval_next_run finds the least occurrence after now.
THEOREM NextRunsExact == Spec => []NextRunExact
<1>1. IInv => NextRunExact
    BY ExactNext DEF IInv, TypeOK
<1> QED BY <1>1, IInvHolds, PTL
=============================================================================
