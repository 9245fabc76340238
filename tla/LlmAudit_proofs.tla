-------------------------- MODULE LlmAudit_proofs ---------------------------
(***************************************************************************)
(* Proofs about LlmAudit, for every set of requests, every length of a     *)
(* body, every rotation size and every workload of failing operations,     *)
(* crashes and losses of power.                                            *)
(*                                                                         *)
(* The inductive invariant IInv adds to RollupMatches what the threads are *)
(* doing to the rows (Duties: who works on which row, what is still to be  *)
(* appended and what was located), the rows of the old format (Legacy) and *)
(* the disk (Disk).  The heart of it is on the disk: what is durable of a  *)
(* segment is in its file unless it was written over (Segment), a locator  *)
(* in a row or in the hands of a thread points to durable bytes (Kept),    *)
(* and a thread between its search for the end of the file and the update  *)
(* of the size has its record where it says it is (Seated), although other *)
(* processes append to the same segment meanwhile.                         *)
(*                                                                         *)
(* Every step of the running server is one thread's step: it has an Effect *)
(* on its row, keeps the Books, is a DiskStep and takes only locators that *)
(* the thread was Given.  Does(t) is the conjunction of the four, each     *)
(* action is shown to be one, and DoesKeeps preserves IInv for all.        *)
(***************************************************************************)
EXTENDS LlmAudit, Iteration, FiniteSetTheorems, SequenceTheorems, TLAPS

-----------------------------------------------------------------------------
(* Threads: what a step makes of the progress of one thread                 *)

Moves(t, y) == y \in Progress /\ th' = [th EXCEPT ![t] = y]

LEMMA MovesTyped ==
    ASSUME TypeOK, NEW t \in Threads, NEW y, Moves(t, y)
    PROVE  th' \in [Threads -> Progress] /\ th'[t] = y /\ \A u \in Threads : u # t => th'[u] = th[u]
  BY DEF Moves, TypeOK

LEMMA ThreadTyped ==
    ASSUME TypeOK, NEW t \in Threads
    PROVE  /\ th[t] \in Progress
           /\ th[t].op \in Operations /\ th[t].at \in Steps /\ th[t].todo \in Seq(Bodies)
           /\ th[t].got \in Seq(Details) /\ th[t].seg \in Nat /\ th[t].pos \in Nat
           /\ th[t].off \in Nat /\ th[t].of \in Requests \cup {""}
           /\ th[t].outcome \in FinalStates /\ th[t].captured \in BOOLEAN /\ th[t].dumps \in Nat
<1>1. th[t] \in Progress
    BY DEF TypeOK
<1> QED BY <1>1 DEF Progress

LEMMA IdleTyped ==
    ASSUME NEW o \in Operations
    PROVE  /\ Idle(o) \in Progress
           /\ Idle(o).op = o /\ Idle(o).at = "idle" /\ Idle(o).todo = <<>> /\ Idle(o).got = <<>>
<1>1. <<>> \in Seq(Bodies) /\ <<>> \in Seq(Details)
    OBVIOUS
<1>2. "failed" \in FinalStates /\ "idle" \in Steps /\ 0 \in Nat
    BY DEF FinalStates, Steps
<1> QED BY <1>1, <1>2 DEF Idle, Progress

LEMMA GotoMoves ==
    ASSUME TypeOK, NEW t \in Threads, NEW step \in Steps, Goto(t, step)
    PROVE  \E y : /\ Moves(t, y) /\ y.at = step
                  /\ y.op = th[t].op /\ y.todo = th[t].todo /\ y.got = th[t].got
                  /\ y.seg = th[t].seg /\ y.pos = th[t].pos /\ y.off = th[t].off
                  /\ y.of = th[t].of
<1> DEFINE y == [th[t] EXCEPT !.at = step]
<1>1. th' = [th EXCEPT ![t] = y]
    BY ThreadTyped DEF Goto
<1>2. /\ y \in Progress /\ y.at = step
      /\ y.op = th[t].op /\ y.todo = th[t].todo /\ y.got = th[t].got
      /\ y.seg = th[t].seg /\ y.pos = th[t].pos /\ y.off = th[t].off
      /\ y.of = th[t].of
    BY ThreadTyped DEF Progress
<1> QED BY <1>1, <1>2 DEF Moves

LEMMA ReturnMoves ==
    ASSUME TypeOK, NEW t \in Threads, NEW ok, Return(t, ok)
    PROVE  \E y : /\ Moves(t, y) /\ y.at = "idle" /\ y.op = After(th[t].op, ok)
                  /\ y.op \in {"calling", "unsaved", "ended"} /\ y.todo = <<>> /\ y.got = <<>>
<1> DEFINE next == After(th[t].op, ok)
           kept == [Idle(next) EXCEPT !.outcome = th[t].outcome, !.captured = th[t].captured,
                                      !.dumps = th[t].dumps]
           y == IF next = "ended" THEN Idle(next) ELSE kept
<1>1. next \in {"calling", "unsaved", "ended"}
    BY DEF After
<1>2. next \in Operations
    BY <1>1 DEF Operations
<1>3. th' = [th EXCEPT ![t] = y]
    BY DEF Return
<1> HIDE DEF next
<1>4. /\ Idle(next) \in Progress
      /\ Idle(next).op = next /\ Idle(next).at = "idle" /\ Idle(next).todo = <<>>
      /\ Idle(next).got = <<>>
    BY <1>2, IdleTyped
<1>5. /\ kept \in Progress /\ kept.op = next /\ kept.at = "idle" /\ kept.todo = <<>>
      /\ kept.got = <<>>
    BY <1>4, ThreadTyped DEF Progress
<1>6. y \in Progress /\ y.op = next /\ y.at = "idle" /\ y.todo = <<>> /\ y.got = <<>>
    BY <1>4, <1>5
<1> QED BY <1>1, <1>3, <1>6 DEF Moves, next

LEMMA LocatedMoves ==
    ASSUME TypeOK, NEW t \in Threads, Located(t), th[t].todo # <<>>, th[t].seg # 0
    PROVE  \E y : /\ Moves(t, y)
                  /\ y.at = (IF Len(th[t].todo) = 1 THEN "commit" ELSE "select")
                  /\ y.op = th[t].op /\ y.todo = Tail(th[t].todo)
                  /\ y.got = Append(th[t].got, Locator(t)) /\ Locator(t) \in Details
                  /\ y.of = th[t].of
<1> DEFINE got == Append(th[t].got, Locator(t))
           todo == Tail(th[t].todo)
           at == IF Len(th[t].todo) = 1 THEN "commit" ELSE "select"
           y == [th[t] EXCEPT !.got = got, !.todo = todo, !.seg = 0, !.pos = 0, !.off = 0, !.at = at]
<1>1. Head(th[t].todo) \in Bodies /\ todo \in Seq(Bodies)
    BY ThreadTyped, HeadTailProperties
<1>2. Locator(t) \in Details
    BY <1>1, ThreadTyped DEF Locator, Details
<1>3. got \in Seq(Details)
    BY <1>2, ThreadTyped, AppendProperties
<1>4. th' = [th EXCEPT ![t] = y]
    BY ThreadTyped DEF Located, TypeOK
<1>5. at \in Steps /\ 0 \in Nat
    BY DEF Steps
<1> HIDE DEF got, todo, at
<1>6. y \in Progress /\ y.at = at /\ y.op = th[t].op /\ y.todo = todo /\ y.got = got
      /\ y.of = th[t].of
    BY <1>1, <1>3, <1>5, ThreadTyped DEF Progress
<1> QED BY <1>2, <1>4, <1>6 DEF Moves, got, todo, at

LEMMA StartMoves ==
    ASSUME TypeOK, NEW t \in Threads, NEW o \in Operations, NEW r \in Requests,
           NEW bodies \in Seq(Bodies), th' = Start(t, o, r, bodies)
    PROVE  \E y : /\ Moves(t, y) /\ y.op = o /\ y.of = r /\ y.todo = bodies /\ y.got = th[t].got
                  /\ y.at = IF bodies = <<>> THEN "commit" ELSE "select"
<1> DEFINE at == IF bodies = <<>> THEN "commit" ELSE "select"
           y == [th[t] EXCEPT !.op = o, !.of = r, !.todo = bodies, !.at = at]
<1>1. th' = [th EXCEPT ![t] = y]
    BY ThreadTyped DEF Start, TypeOK
<1>2. at \in Steps
    BY DEF Steps
<1> HIDE DEF at
<1>3. y \in Progress /\ y.op = o /\ y.of = r /\ y.todo = bodies /\ y.got = th[t].got /\ y.at = at
    BY <1>2, ThreadTyped DEF Progress
<1> QED BY <1>1, <1>3 DEF Moves, at

-----------------------------------------------------------------------------
(* What a thread has been asked to append                                   *)

Working == {"dump", "boundary", "final", "migrate"}

\* The one body of an operation: still to be appended, or located.
One(x, b) ==
    \/ x.at # "commit" /\ x.todo = <<b>> /\ x.got = <<>>
    \/ x.at = "commit" /\ x.todo = <<>> /\ Len(x.got) = 1 /\ x.got[1].body = b

\* Both dumps of a row of the old format, one after the other.
Both(x) ==
    LET q == RequestBody(x.of, 0)
        p == ResponseBody(x.of)
    IN  \/ x.at # "commit" /\ x.todo = <<q, p>> /\ x.got = <<>>
        \/ x.at # "commit" /\ x.todo = <<p>> /\ Len(x.got) = 1 /\ x.got[1].body = q
        \/ /\ x.at = "commit" /\ x.todo = <<>> /\ Len(x.got) = 2
           /\ x.got[1].body = q /\ x.got[2].body = p

\* Progress x of a thread that works on row rw: a request dump repeats the one
\* that is there, a response is appended only if there is none.
Assigned(x, rw) ==
    \/ /\ x.op = "dump"
       /\ \E b \in Bodies : One(x, b) /\ (rw.request # NoLocator => rw.request.body = b)
    \/ /\ x.op \in {"boundary", "final"}
       /\ \/ x.at = "commit" /\ x.todo = <<>> /\ x.got = <<>>
          \/ rw.response = NoLocator /\ \E b \in Bodies : One(x, b)
    \/ /\ x.op = "migrate" /\ rw.text
       /\ Both(x)

Employed(t, x) ==
    /\ x.at # "idle" <=> x.op \in Working
    /\ x.at = "idle" => x.todo = <<>> /\ x.got = <<>>
    /\ x.at # "idle" => x.of \in Requests /\ (t \in Requests => x.of = t)
    /\ IF t = Maintenance THEN x.op \in {"calling", "migrate"} ELSE x.op # "migrate"

Duties ==
    /\ \A t \in Threads :
          /\ Employed(t, th[t])
          /\ th[t].at # "idle" => Assigned(th[t], row[th[t].of])
    /\ \A r \in Requests : th[r].op = "new" => row[r].state = "none"

\* Rows of the old format are not worked on by a run.
Legacy ==
    /\ \A r \in Requests \ load.calls : th[r].op = "ended"
    /\ \A r \in Requests : row[r].text =>
          r \in load.legacy /\ row[r].request = NoLocator /\ row[r].response = NoLocator
    /\ LegacyKept

\* A step in which thread t becomes y and the row of r becomes rw.
Effect(t, y, r, rw) ==
    /\ t \in Threads /\ r \in Requests
    /\ Moves(t, y) /\ Employed(t, y)
    /\ rw \in Rows /\ row' = [row EXCEPT ![r] = rw] /\ load' = load
    /\ y.at # "idle" => y.of = r /\ Assigned(y, rw)
    /\ \A u \in Threads : u # t /\ th[u].at # "idle" /\ th[u].of = r => Assigned(th[u], rw)
    /\ t \in Requests /\ y.op = "new" => rw.state = "none" /\ t = r
    /\ r # t /\ th[r].op = "new" => rw.state = "none"
    /\ t \in Requests /\ th[t].op = "ended" => y.op = "ended"
    /\ rw.text => row[r].text /\ rw.request = NoLocator /\ rw.response = NoLocator

LEMMA RowTyped ==
    ASSUME TypeOK, NEW r \in Requests
    PROVE  /\ row[r] \in Rows /\ row[r].state \in FinalStates \cup {"none", "running"}
           /\ row[r].request \in Details \cup {NoLocator}
           /\ row[r].response \in Details \cup {NoLocator}
           /\ row[r].text \in BOOLEAN /\ row[r].invalid \in BOOLEAN
<1>1. row[r] \in Rows
    BY DEF TypeOK
<1> QED BY <1>1 DEF Rows

LEMMA AssignedKept ==
    ASSUME NEW x, NEW rw, NEW new, Assigned(x, rw),
           IF x.op = "migrate" THEN new.text = rw.text
           ELSE new.request = rw.request /\ new.response = rw.response
    PROVE  Assigned(x, new)
  BY DEF Assigned

LEMMA EffectKeeps ==
    ASSUME TypeOK, Duties, Legacy, NEW t, NEW y, NEW r, NEW rw, Effect(t, y, r, rw)
    PROVE  /\ th' \in [Threads -> Progress] /\ row' \in [Requests -> Rows]
           /\ Duties'
           /\ \A q \in Requests \ load'.calls : th'[q].op = "ended"
           /\ \A q \in Requests : row'[q].text =>
                q \in load'.legacy /\ row'[q].request = NoLocator /\ row'[q].response = NoLocator
<1>1. t \in Threads /\ r \in Requests /\ rw \in Rows /\ load' = load /\ Requests \subseteq Threads
    BY DEF Effect, Threads
<1>2. th' \in [Threads -> Progress] /\ th'[t] = y /\ \A u \in Threads : u # t => th'[u] = th[u]
    BY <1>1, MovesTyped DEF Effect
<1>3. /\ row' \in [Requests -> Rows] /\ row'[r] = rw
      /\ \A q \in Requests : q # r => row'[q] = row[q]
    BY <1>1 DEF Effect, TypeOK
<1>4. ASSUME NEW u \in Threads
      PROVE  Employed(u, th'[u]) /\ (th'[u].at # "idle" => Assigned(th'[u], row'[th'[u].of]))
  <2>1. CASE u = t
      BY <1>2, <1>3, <2>1 DEF Effect
  <2>2. CASE u # t
    <3>1. th'[u] = th[u] /\ Employed(u, th[u])
          /\ (th[u].at # "idle" => Assigned(th[u], row[th[u].of]) /\ th[u].of \in Requests)
        BY <1>2, <2>2 DEF Duties, Employed
    <3>2. th[u].at # "idle" => Assigned(th[u], row'[th[u].of])
        BY <1>3, <2>2, <3>1 DEF Effect
    <3> QED BY <3>1, <3>2
  <2> QED BY <2>1, <2>2
<1>5. ASSUME NEW q \in Requests, th'[q].op = "new" PROVE row'[q].state = "none"
  <2>1. q \in Threads
      BY <1>1
  <2> QED BY <1>1, <1>2, <1>3, <1>5, <2>1 DEF Effect, Duties
<1>6. Duties'
    BY <1>4, <1>5 DEF Duties
<1>7. \A q \in Requests \ load'.calls : th'[q].op = "ended"
    BY <1>1, <1>2 DEF Legacy, Effect
<1>8. \A q \in Requests : row'[q].text =>
         q \in load'.legacy /\ row'[q].request = NoLocator /\ row'[q].response = NoLocator
    BY <1>1, <1>3 DEF Legacy, Effect
<1> QED BY <1>2, <1>3, <1>6, <1>7, <1>8

\* What a step writes to the row of r and to the rollups agrees: the counts,
\* a dump of the old format, the first captures.
Books(r, rw) ==
    /\ rollup' = Recounted(row[r], rw)
    /\ pruned \subseteq pruned' /\ pruned' \subseteq Requests
    /\ r \in load.legacy /\ r \notin pruned' =>
         \/ rw.text
         \/ {l.body : l \in {rw.request, rw.response} \ {NoLocator}}
              = {RequestBody(r, 0), ResponseBody(r)}
    /\ row[r].request # NoLocator /\ rw.request # NoLocator =>
         rw.request.body = row[r].request.body
    /\ row[r].response # NoLocator /\ rw.response # NoLocator =>
         rw.response.body = row[r].response.body

LEMMA BooksUnread ==
    ASSUME TypeOK, Legacy, NEW r \in Requests, rollup' = rollup, pruned' = pruned,
           NEW rw, rw.request = row[r].request, rw.response = row[r].response,
           rw.text = row[r].text, \A s \in FinalStates : Counts(row[r], s) = Counts(rw, s)
    PROVE  Books(r, rw)
<1>1. \A n \in Nat, k \in Nat : n - k + k = n
    OBVIOUS
<1>2. \A s \in FinalStates : rollup[s] \in Nat /\ Counts(row[r], s) \in Nat
    BY DEF TypeOK, Counts
<1>3. \A s \in FinalStates : rollup[s] - Counts(row[r], s) + Counts(rw, s) = rollup[s]
    BY <1>1, <1>2
<1>4. rollup' = Recounted(row[r], rw)
    BY <1>3 DEF TypeOK, Recounted
<1>5. pruned' \subseteq Requests
    BY DEF TypeOK
<1>6. r \in load.legacy /\ r \notin pruned =>
         row[r].text \/ {l.body : l \in {rw.request, rw.response} \ {NoLocator}}
                          = {RequestBody(r, 0), ResponseBody(r)}
    BY DEF Legacy, LegacyKept, Locators
<1> QED BY <1>4, <1>5, <1>6 DEF Books

LEMMA BooksStill ==
    ASSUME TypeOK, Legacy, NEW r \in Requests, rollup' = rollup, pruned' = pruned
    PROVE  Books(r, row[r])
  BY BooksUnread

\* A run that has not ended works on its own row, and nobody else does.
LEMMA Alone ==
    ASSUME TypeOK, Duties, Legacy, NEW t \in Requests, th[t].op # "ended"
    PROVE  /\ t \in load.calls /\ t \notin load.legacy /\ t \in Threads /\ t # Maintenance
           /\ \A u \in Threads : u # t /\ th[u].at # "idle" => th[u].of # t
<1>1. t \in load.calls /\ t \notin load.legacy /\ t \in Threads /\ t # Maintenance
    BY WorkloadsAssumption, ThreadsAssumption DEF Legacy, Threads, TypeOK
<1>2. ASSUME NEW u \in Threads, u # t, th[u].at # "idle", th[u].of = t PROVE FALSE
  <2>1. u = Maintenance
      BY <1>2 DEF Duties, Employed, Threads
  <2>2. th[u].op = "migrate" /\ Assigned(th[u], row[t])
      BY <1>2, <2>1 DEF Duties, Employed, Working
  <2>3. row[t].text
      BY <2>2 DEF Assigned
  <2> QED BY <1>1, <2>3 DEF Legacy
<1> QED BY <1>1, <1>2

\* The cleanup works on a row whose run is over.
LEMMA AloneCleaning ==
    ASSUME TypeOK, Duties, Legacy, NEW r \in Requests, th[r].op \in {"ended", "dead"}
    PROVE  \A u \in Threads : u # Maintenance /\ th[u].at # "idle" => th[u].of # r
  BY DEF Duties, Employed, Working, Threads

LEMMA AtWork ==
    ASSUME TypeOK, Duties, Legacy, NEW t \in Threads, th[t].at # "idle"
    PROVE  /\ th[t].of \in Requests /\ th[t].op \in Working
           /\ Assigned(th[t], row[th[t].of])
           /\ th[t].op = "migrate" <=> t = Maintenance
           /\ t # Maintenance => th[t].of = t /\ t \in load.calls /\ t \notin load.legacy
           /\ t = Maintenance => row[th[t].of].text /\ th[th[t].of].op = "ended"
           /\ \A u \in Threads : u # t /\ th[u].at # "idle" => th[u].of # th[t].of
<1>1. /\ th[t].of \in Requests /\ th[t].op \in Working
      /\ Assigned(th[t], row[th[t].of]) /\ (t \in Requests => th[t].of = t)
      /\ IF t = Maintenance THEN th[t].op \in {"calling", "migrate"} ELSE th[t].op # "migrate"
    BY DEF Duties, Employed
<1>2. th[t].op = "migrate" <=> t = Maintenance
    BY <1>1 DEF Working
<1>3. CASE t # Maintenance
  <2>1. t \in Requests /\ th[t].op # "ended"
      BY <1>1, <1>3 DEF Threads, Working
  <2> QED BY <1>1, <1>2, <1>3, <2>1, Alone
<1>4. CASE t = Maintenance
  <2>1. row[th[t].of].text
      BY <1>1, <1>2, <1>4 DEF Assigned
  <2>2. th[t].of \in load.legacy
      BY <1>1, <2>1 DEF Legacy
  <2>3. th[t].of \notin load.calls
      BY <2>2, WorkloadsAssumption DEF TypeOK
  <2>4. th[th[t].of].op = "ended"
      BY <1>1, <2>3 DEF Legacy
  <2> QED BY <1>1, <1>2, <1>4, <2>1, <2>4, AloneCleaning
<1> QED BY <1>3, <1>4

-----------------------------------------------------------------------------
(* The effect of each kind of step                                          *)

\* Thread t goes on with the same operation.
LEMMA WorkEffect ==
    ASSUME TypeOK, Duties, Legacy, NEW t \in Threads, th[t].at \notin {"idle", "commit"},
           NEW y, Moves(t, y), y.at \notin {"idle", "commit"},
           y.op = th[t].op, y.todo = th[t].todo, y.got = th[t].got, y.of = th[t].of,
           row' = row, load' = load
    PROVE  Effect(t, y, th[t].of, row[th[t].of])
<1> DEFINE r == th[t].of
<1>1. /\ r \in Requests /\ th[t].op \in Working /\ Assigned(th[t], row[r])
      /\ \A u \in Threads : u # t /\ th[u].at # "idle" => th[u].of # r
      /\ t = Maintenance => th[r].op = "ended"
      /\ t # Maintenance => r = t
    BY AtWork
<1>2. Employed(t, y)
    BY <1>1 DEF Duties, Employed
<1>3. Assigned(y, row[r])
    BY <1>1 DEF Assigned, One, Both
<1>4. row[r] \in Rows /\ row' = [row EXCEPT ![r] = row[r]]
    BY <1>1 DEF TypeOK
<1>5. t \in Requests /\ y.op = "new" => row[r].state = "none" /\ t = r
    BY <1>1 DEF Working
<1>6. /\ r # t /\ th[r].op = "new" => row[r].state = "none"
      /\ t \in Requests /\ th[t].op = "ended" => y.op = "ended"
      /\ row[r].text => row[r].request = NoLocator /\ row[r].response = NoLocator
    BY <1>1 DEF Duties, Legacy, Working
<1> QED BY <1>1, <1>2, <1>3, <1>4, <1>5, <1>6 DEF Effect

\* The operation of thread t is over; it may have written the row.
LEMMA ReturnEffect ==
    ASSUME TypeOK, Duties, Legacy, NEW t \in Threads, th[t].at # "idle", NEW ok, Return(t, ok),
           NEW rw \in Rows, row' = [row EXCEPT ![th[t].of] = rw], load' = load,
           rw.text => row[th[t].of].text /\ rw.request = NoLocator /\ rw.response = NoLocator
    PROVE  \E y : Effect(t, y, th[t].of, rw) /\ y.at = "idle" /\ y.got = <<>>
<1> DEFINE r == th[t].of
<1>1. PICK y : /\ Moves(t, y) /\ y.at = "idle" /\ y.op = After(th[t].op, ok)
               /\ y.op \in {"calling", "unsaved", "ended"} /\ y.todo = <<>> /\ y.got = <<>>
    BY ReturnMoves
<1>2. /\ r \in Requests /\ th[t].op \in Working
      /\ \A u \in Threads : u # t /\ th[u].at # "idle" => th[u].of # r
      /\ th[t].op = "migrate" <=> t = Maintenance
      /\ t = Maintenance => th[r].op = "ended"
      /\ t # Maintenance => r = t
    BY AtWork
<1>3. Employed(t, y)
    BY <1>1, <1>2 DEF Employed, Working, After
<1> QED BY <1>1, <1>2, <1>3 DEF Effect, Working

\* The record is appended: the next body, or the commit.
LEMMA LocatedEffect ==
    ASSUME TypeOK, Duties, Legacy, NEW t \in Threads, th[t].at \in {"size", "retire"},
           th[t].seg # 0, Located(t), row' = row, load' = load
    PROVE  /\ th[t].todo # <<>> /\ Head(th[t].todo) \in Bodies
           /\ \E y : /\ Effect(t, y, th[t].of, row[th[t].of]) /\ y.at \in {"commit", "select"}
                     /\ y.got = Append(th[t].got, Locator(t)) /\ Locator(t) \in Details
<1> DEFINE r == th[t].of
<1>1. /\ r \in Requests /\ th[t].op \in Working /\ Assigned(th[t], row[r])
      /\ \A u \in Threads : u # t /\ th[u].at # "idle" => th[u].of # r
      /\ t = Maintenance => th[r].op = "ended"
      /\ t # Maintenance => r = t
    BY AtWork
<1>2. th[t].todo \in Seq(Bodies) /\ th[t].todo # <<>>
  <2>1. \E b, c : th[t].todo = <<b>> \/ th[t].todo = <<b, c>>
      BY <1>1 DEF Assigned, One, Both
  <2>2. \A b, c : <<b>> # <<>> /\ <<b, c>> # <<>>
      OBVIOUS
  <2> QED BY <2>1, <2>2, ThreadTyped
<1>3. Head(th[t].todo) \in Bodies
    BY <1>2, HeadTailProperties
<1>4. PICK y : /\ Moves(t, y)
               /\ y.at = (IF Len(th[t].todo) = 1 THEN "commit" ELSE "select")
               /\ y.op = th[t].op /\ y.todo = Tail(th[t].todo)
               /\ y.got = Append(th[t].got, Locator(t)) /\ Locator(t) \in Details
               /\ y.of = th[t].of
    BY <1>2, LocatedMoves
<1>5. Locator(t).body = Head(th[t].todo)
    BY DEF Locator
<1>6. ASSUME NEW b \in Bodies, One(th[t], b) PROVE One(y, b)
  <2>1. th[t].todo = <<b>> /\ th[t].got = <<>>
      BY <1>6 DEF One
  <2>2. y.at = "commit" /\ y.todo = <<>> /\ Len(y.got) = 1 /\ y.got[1].body = b
      BY <1>4, <1>5, <2>1
  <2> QED BY <2>2 DEF One
<1>7. Both(th[t]) => Both(y)
  <2> DEFINE q == RequestBody(r, 0)
             p == ResponseBody(r)
  <2>1. CASE th[t].todo = <<q, p>> /\ th[t].got = <<>>
    <3>1. y.at = "select" /\ y.todo = <<p>> /\ Len(y.got) = 1 /\ y.got[1].body = q
        BY <1>4, <1>5, <2>1
    <3> QED BY <1>4, <3>1 DEF Both
  <2>2. CASE th[t].todo = <<p>> /\ Len(th[t].got) = 1 /\ th[t].got[1].body = q
    <3>1. y.at = "commit" /\ y.todo = <<>>
        BY <1>4, <2>2
    <3>2. Len(y.got) = 2 /\ y.got[1] = th[t].got[1] /\ y.got[2] = Locator(t)
      <4>1. th[t].got \in Seq(Details) /\ Len(th[t].got) = 1
            /\ y.got = Append(th[t].got, Locator(t)) /\ Locator(t) \in Details
          BY <1>4, <2>2, ThreadTyped
      <4> QED BY <4>1, AppendProperties
    <3>3. y.got[2].body = p
        BY <1>5, <2>2, <3>2
    <3> QED BY <1>4, <2>2, <3>1, <3>2, <3>3 DEF Both
  <2> QED BY <2>1, <2>2 DEF Both
<1>8. Assigned(y, row[r])
    BY <1>1, <1>4, <1>6, <1>7 DEF Assigned
<1>9. y.at \in {"commit", "select"} /\ y.op = th[t].op /\ y.of = r
    BY <1>4
<1>10. Employed(t, y)
    BY <1>1, <1>9 DEF Duties, Employed
<1>11. row[r] \in Rows /\ row' = [row EXCEPT ![r] = row[r]]
    BY <1>1 DEF TypeOK
<1>12. row[r].text => row[r].request = NoLocator /\ row[r].response = NoLocator
    BY <1>1 DEF Legacy
<1>13. Effect(t, y, r, row[r])
    BY <1>1, <1>4, <1>8, <1>9, <1>10, <1>11, <1>12 DEF Effect, Working
<1> QED BY <1>2, <1>3, <1>4, <1>9, <1>13

\* A run turns to something else, on its own row.
LEMMA RunEffect ==
    ASSUME TypeOK, Duties, Legacy, NEW t \in Requests, th[t].op # "ended",
           NEW y, Moves(t, y), Employed(t, y), y.op # "new",
           NEW rw \in Rows, row' = [row EXCEPT ![t] = rw], load' = load,
           rw.text = row[t].text, rw.request = row[t].request, rw.response = row[t].response,
           y.at # "idle" => y.of = t /\ Assigned(y, rw)
    PROVE  Effect(t, y, t, rw)
<1>1. /\ t \in Threads /\ t \notin load.legacy
      /\ \A u \in Threads : u # t /\ th[u].at # "idle" => th[u].of # t
    BY Alone
<1>2. row[t].text => row[t].request = NoLocator /\ row[t].response = NoLocator
    BY DEF Legacy
<1> QED BY <1>1, <1>2 DEF Effect

LEMMA Resting ==
    ASSUME TypeOK, Duties, NEW t \in Threads, th[t].op \notin Working
    PROVE  th[t].at = "idle" /\ th[t].todo = <<>> /\ th[t].got = <<>>
  BY DEF Duties, Employed

\* A change of a few fields of a thread that rests
LEMMA RestEffect ==
    ASSUME TypeOK, Duties, Legacy, NEW t \in Requests, th[t].op \notin Working \cup {"ended"},
           NEW y \in Progress, th' = [th EXCEPT ![t] = y], y.at = "idle", y.todo = <<>>,
           y.got = <<>>, y.op \in {"calling", "unsaved", "ended", "dead"},
           NEW rw \in Rows, row' = [row EXCEPT ![t] = rw], load' = load,
           rw.text = row[t].text, rw.request = row[t].request, rw.response = row[t].response
    PROVE  Effect(t, y, t, rw)
<1>1. t # Maintenance
    BY ThreadsAssumption
<1>2. Employed(t, y)
    BY <1>1 DEF Employed, Working
<1> QED BY <1>2, RunEffect DEF Moves

\* An operation of a run starts.
LEMMA StartEffect ==
    ASSUME TypeOK, Duties, Legacy, NEW t \in Requests, th[t].op \notin Working \cup {"ended"},
           NEW y \in Progress, th' = [th EXCEPT ![t] = y], y.of = t, y.got = <<>>,
           y.op \in {"dump", "boundary", "final"}, row' = row, load' = load,
           \/ y.at = "commit" /\ y.todo = <<>> /\ y.op # "dump"
           \/ /\ y.at = "select"
              /\ \E b \in Bodies : /\ y.todo = <<b>>
                                   /\ IF y.op = "dump"
                                        THEN row[t].request # NoLocator => row[t].request.body = b
                                        ELSE row[t].response = NoLocator
    PROVE  Effect(t, y, t, row[t])
<1>1. t # Maintenance
    BY ThreadsAssumption
<1>2. Employed(t, y)
    BY <1>1 DEF Employed, Working
<1>3. Assigned(y, row[t])
  <2>1. CASE y.at = "commit" /\ y.todo = <<>> /\ y.op # "dump"
      BY <2>1 DEF Assigned
  <2>2. ASSUME y.at = "select", NEW b \in Bodies, y.todo = <<b>>,
               IF y.op = "dump" THEN row[t].request # NoLocator => row[t].request.body = b
               ELSE row[t].response = NoLocator
        PROVE  Assigned(y, row[t])
    <3>1. One(y, b)
        BY <2>2 DEF One
    <3> QED BY <2>2, <3>1 DEF Assigned
  <2> QED BY <2>1, <2>2
<1>4. row[t] \in Rows /\ row' = [row EXCEPT ![t] = row[t]]
    BY DEF TypeOK
<1> QED BY <1>2, <1>3, <1>4, RunEffect DEF Moves

LEMMA BodiesOf ==
    ASSUME NEW r \in Requests
    PROVE  /\ ResponseBody(r) \in Bodies
           /\ \A n \in Dumps : RequestBody(r, n) \in Bodies
           /\ TypeOK => 0 \in Dumps
           /\ TypeOK => \A n \in 0 .. load.dumps : n \in Dumps
<1>1. ResponseBody(r) \in Bodies /\ \A n \in Dumps : RequestBody(r, n) \in Bodies
    BY DEF Bodies
<1>2. TypeOK => \A n \in 0 .. load.dumps : n \in Dumps
    BY DEF Dumps, TypeOK
<1>3. TypeOK => 0 \in 0 .. load.dumps
    BY WorkloadsAssumption DEF TypeOK
<1> QED BY <1>1, <1>2, <1>3

\* A counted row is one that is final and not invalid.
LEMMA CountsRow ==
    ASSUME NEW rw, NEW new, new.invalid = rw.invalid,
           new.state = rw.state \/ (new.state \notin FinalStates /\ rw.state \notin FinalStates)
    PROVE  \A s \in FinalStates : Counts(rw, s) = Counts(new, s)
  BY DEF Counts

LEMMA InsertEffect ==
    ASSUME TypeOK, Duties, Legacy, NEW r \in Requests, Insert(r) \/ InsertFails(r), load' = load
    PROVE  \E y, rw : Effect(r, y, r, rw) /\ Books(r, rw) /\ y.at = "idle" /\ y.got = <<>>
                       /\ rw.request = row[r].request /\ rw.response = row[r].response
<1>1. r \in Threads /\ th[r].op = "new" /\ "new" \notin Working
    BY DEF Insert, InsertFails, Threads, Working
<1>2. th[r].at = "idle" /\ th[r].todo = <<>> /\ th[r].got = <<>>
    BY <1>1, Resting
<1>3. row[r].state = "none"
    BY <1>1 DEF Duties
<1>4. PICK st \in {"running", "none"}, o \in {"calling", "unsaved"} :
         row' = [row EXCEPT ![r].state = st] /\ th' = [th EXCEPT ![r].op = o]
    BY <1>3 DEF Insert, InsertFails, TypeOK
<1> DEFINE y == [th[r] EXCEPT !.op = o]
           rw == [row[r] EXCEPT !.state = st]
<1>5. /\ y \in Progress /\ y.op = o /\ y.at = "idle" /\ y.todo = <<>> /\ y.got = <<>>
    BY <1>1, <1>2, ThreadTyped DEF Progress, Operations
<1>6. /\ rw \in Rows /\ rw.state = st /\ rw.text = row[r].text /\ rw.request = row[r].request
      /\ rw.response = row[r].response /\ rw.invalid = row[r].invalid
    BY RowTyped DEF Rows
<1>7. th' = [th EXCEPT ![r] = y] /\ row' = [row EXCEPT ![r] = rw]
    BY <1>1, <1>4 DEF TypeOK
<1> HIDE DEF y, rw
<1>8. Effect(r, y, r, rw)
    BY <1>1, <1>5, <1>6, <1>7, RestEffect
<1>9. \A s \in FinalStates : Counts(row[r], s) = Counts(rw, s)
    BY <1>3, <1>6, CountsRow DEF FinalStates
<1>10. rollup' = rollup /\ pruned' = pruned
    BY DEF Insert, InsertFails, history
<1>11. Books(r, rw)
    BY <1>6, <1>9, <1>10, BooksUnread
<1> QED BY <1>5, <1>6, <1>8, <1>11

LEMMA DumpEffect ==
    ASSUME TypeOK, Duties, Legacy, NEW r \in Requests, Dump(r) \/ DumpRefused(r), load' = load
    PROVE  \E y : Effect(r, y, r, row[r]) /\ y.got = <<>> /\ y.at \in {"idle", "select"}
<1> DEFINE n == th[r].dumps + 1
           b == Merge(row[r].request, RequestBody(r, n))
<1>1. r \in Threads /\ th[r].op = "calling" /\ "calling" \notin Working
    BY DEF Dump, DumpRefused, Threads, Working
<1>2. th[r].at = "idle" /\ th[r].todo = <<>> /\ th[r].got = <<>>
    BY <1>1, Resting
<1>3. n \in Nat /\ n \in 0 .. load.dumps
  <2>1. th[r].dumps \in Nat /\ load.dumps \in Nat /\ th[r].dumps < load.dumps
      BY <1>1, ThreadTyped, WorkloadsAssumption DEF Dump, DumpRefused, TypeOK
  <2> QED BY <2>1
<1>4. b \in Bodies /\ (row[r].request # NoLocator => row[r].request.body = b)
  <2>1. CASE row[r].request = NoLocator
      BY <1>3, <2>1, BodiesOf DEF Merge
  <2>2. CASE row[r].request # NoLocator
    <3>1. row[r].request \in Details
        BY <2>2, RowTyped
    <3> QED BY <2>2, <3>1 DEF Merge, Details
  <2> QED BY <2>1, <2>2
<1>5. row' = row
    BY DEF Dump, DumpRefused
<1>6. CASE Dump(r)
  <2> DEFINE y == [th[r] EXCEPT !.op = "dump", !.of = r, !.todo = <<b>>, !.at = "select", !.dumps = n]
  <2>1. <<b>> \in Seq(Bodies) /\ <<b>> # <<>>
      BY <1>4
  <2>2. th' = [Start(r, "dump", r, <<b>>) EXCEPT ![r].dumps = n]
      BY <1>6 DEF Dump
  <2>3. Start(r, "dump", r, <<b>>) =
           [th EXCEPT ![r] = [th[r] EXCEPT !.op = "dump", !.of = r, !.todo = <<b>>, !.at = "select"]]
      BY <1>1, <2>1, ThreadTyped DEF Start, TypeOK
  <2>4. th' = [th EXCEPT ![r] = y]
      BY <1>1, <2>2, <2>3, ThreadTyped DEF TypeOK
  <2>5. /\ y \in Progress /\ y.op = "dump" /\ y.of = r /\ y.todo = <<b>> /\ y.at = "select"
        /\ y.got = <<>>
      BY <1>1, <1>2, <1>3, <2>1, ThreadTyped DEF Progress, Operations, Steps
  <2> HIDE DEF y, b
  <2> QED BY <1>1, <1>4, <1>5, <2>4, <2>5, StartEffect
<1>7. CASE DumpRefused(r)
  <2> DEFINE y == [th[r] EXCEPT !.dumps = n]
  <2>1. th' = [th EXCEPT ![r] = y]
      BY <1>1, <1>7, ThreadTyped DEF TypeOK, DumpRefused
  <2>2. /\ y \in Progress /\ y.op = "calling" /\ y.todo = <<>> /\ y.at = "idle" /\ y.got = <<>>
      BY <1>1, <1>2, <1>3, ThreadTyped DEF Progress
  <2>3. row[r] \in Rows /\ row' = [row EXCEPT ![r] = row[r]]
      BY <1>5 DEF TypeOK
  <2> HIDE DEF y
  <2> QED BY <1>1, <2>1, <2>2, <2>3, RestEffect
<1> QED BY <1>6, <1>7

LEMMA FinalEffect ==
    ASSUME TypeOK, Duties, Legacy, NEW r \in Requests, FinishRequest(r) \/ PersistResult(r),
           load' = load
    PROVE  \E y : Effect(r, y, r, row[r]) /\ y.got = <<>> /\ y.at \in {"commit", "select"}
<1>1. /\ r \in Threads /\ th[r].op \in {"calling", "unsaved"}
      /\ {"calling", "unsaved"} \cap Working = {}
    BY DEF FinishRequest, PersistResult, Threads, Working
<1>2. th[r].at = "idle" /\ th[r].todo = <<>> /\ th[r].got = <<>>
    BY <1>1, Resting
<1>3. row' = row
    BY DEF FinishRequest, PersistResult
<1>4. PICK outcome \in FinalStates, captured \in BOOLEAN :
         \/ th' = [Start(r, "boundary", r, Response(r, captured)) EXCEPT
                     ![r].outcome = outcome, ![r].captured = captured]
         \/ /\ th' = Start(r, "final", r, Response(r, captured))
            /\ outcome = th[r].outcome /\ captured = th[r].captured
  <2>1. CASE FinishRequest(r)
      BY <2>1 DEF FinishRequest
  <2>2. CASE PersistResult(r)
    <3>1. th' = Start(r, "final", r, Response(r, th[r].captured))
        BY <2>2 DEF PersistResult
    <3>2. th[r].outcome \in FinalStates /\ th[r].captured \in BOOLEAN
        BY <1>1, ThreadTyped
    <3> QED BY <3>1, <3>2
  <2> QED BY <2>1, <2>2
<1> DEFINE bodies == Response(r, captured)
<1>5. PICK o \in {"boundary", "final"} :
         \/ th' = [Start(r, o, r, bodies) EXCEPT ![r].outcome = outcome, ![r].captured = captured]
         \/ /\ th' = Start(r, o, r, bodies)
            /\ outcome = th[r].outcome /\ captured = th[r].captured
    BY <1>4
<1> DEFINE at == IF bodies = <<>> THEN "commit" ELSE "select"
           y == [th[r] EXCEPT !.op = o, !.of = r, !.todo = bodies, !.at = at,
                              !.outcome = outcome, !.captured = captured]
<1>6. \/ bodies = <<>> /\ at = "commit" /\ bodies \in Seq(Bodies)
      \/ /\ bodies = <<ResponseBody(r)>> /\ row[r].response = NoLocator
         /\ at = "select" /\ bodies \in Seq(Bodies)
  <2>1. ResponseBody(r) \in Bodies
      BY BodiesOf
  <2>2. <<ResponseBody(r)>> # <<>> /\ <<ResponseBody(r)>> \in Seq(Bodies)
      BY <2>1
  <2>3. CASE captured /\ row[r].response = NoLocator
      BY <2>2, <2>3 DEF Response
  <2>4. CASE ~(captured /\ row[r].response = NoLocator)
      BY <2>4 DEF Response
  <2> QED BY <2>3, <2>4
<1>7. Start(r, o, r, bodies) =
        [th EXCEPT ![r] = [th[r] EXCEPT !.op = o, !.of = r, !.todo = bodies, !.at = at]]
    BY <1>1, ThreadTyped DEF Start, TypeOK
<1> HIDE DEF at, bodies
<1>8. th' = [th EXCEPT ![r] = y]
  <2>1. th[r] \in Progress /\ r \in DOMAIN th
      BY <1>1, ThreadTyped DEF TypeOK
  <2>2. CASE th' = [Start(r, o, r, bodies) EXCEPT ![r].outcome = outcome, ![r].captured = captured]
      BY <1>7, <2>1, <2>2 DEF TypeOK
  <2>3. CASE th' = Start(r, o, r, bodies) /\ outcome = th[r].outcome /\ captured = th[r].captured
    <3>1. y = [th[r] EXCEPT !.op = o, !.of = r, !.todo = bodies, !.at = at]
        BY <2>1, <2>3 DEF Progress
    <3> QED BY <1>7, <2>3, <3>1
  <2> QED BY <1>5, <2>2, <2>3
<1>9. at \in {"commit", "select"} /\ {"commit", "select"} \subseteq Steps
    BY DEF at, Steps
<1>10. bodies \in Seq(Bodies) /\ o \in Operations /\ at \in Steps
    BY <1>6, <1>9 DEF Operations
<1>11. /\ y \in Progress /\ y.op = o /\ y.of = r /\ y.todo = bodies /\ y.at = at /\ y.got = <<>>
    BY <1>1, <1>2, <1>10, ThreadTyped DEF Progress
<1> HIDE DEF y
<1>12. Effect(r, y, r, row[r])
  <2>1. CASE bodies = <<>> /\ at = "commit"
      BY <1>1, <1>3, <1>8, <1>11, <2>1, StartEffect
  <2>2. CASE bodies = <<ResponseBody(r)>> /\ row[r].response = NoLocator /\ at = "select"
      BY <1>1, <1>3, <1>8, <1>11, <2>2, StartEffect, BodiesOf
  <2> QED BY <1>6, <2>1, <2>2
<1> QED BY <1>9, <1>11, <1>12

LEMMA PersistRefusedEffect ==
    ASSUME TypeOK, Duties, Legacy, NEW r \in Requests, PersistRefused(r), load' = load
    PROVE  \E y : Effect(r, y, r, row[r]) /\ y.got = <<>> /\ y.at = "idle"
<1>1. th[r].op \notin Working \cup {"ended"} /\ th' = [th EXCEPT ![r] = Idle("ended")]
    BY DEF PersistRefused, Working
<1>2. "ended" \in Operations
    BY DEF Operations
<1>3. row[r] \in Rows /\ row' = [row EXCEPT ![r] = row[r]]
    BY DEF PersistRefused, TypeOK
<1>4. /\ Idle("ended") \in Progress
      /\ Idle("ended").op = "ended" /\ Idle("ended").at = "idle" /\ Idle("ended").todo = <<>>
      /\ Idle("ended").got = <<>>
    BY <1>2, IdleTyped
<1> QED BY <1>1, <1>3, <1>4, RestEffect

\* Rows change while the threads stay as they are.
LEMMA StillEffect ==
    ASSUME TypeOK, Duties, Legacy, NEW t \in Threads, NEW r \in Requests, NEW rw \in Rows, th' = th,
           row' = [row EXCEPT ![r] = rw], load' = load, t \in Requests => t = r,
           th[r].op = "new" => rw.state = "none",
           rw.text => row[r].text /\ rw.request = NoLocator /\ rw.response = NoLocator,
           th[t].at # "idle" => th[t].of = r /\ Assigned(th[t], rw),
           \A u \in Threads : u # t /\ th[u].at # "idle" /\ th[u].of = r => Assigned(th[u], rw)
    PROVE  Effect(t, th[t], r, rw)
<1>1. Moves(t, th[t]) /\ Employed(t, th[t])
    BY DEF Moves, TypeOK, Duties
<1> QED BY <1>1 DEF Effect

LEMMA InvalidateEffect ==
    ASSUME TypeOK, Duties, Legacy, NEW r \in Requests, Invalidate(r), load' = load
    PROVE  /\ r \in Threads
           /\ \E rw : /\ Effect(r, th[r], r, rw) /\ Books(r, rw)
                      /\ rw.request = row[r].request /\ rw.response = row[r].response
<1> DEFINE rw == [row[r] EXCEPT !.invalid = TRUE]
<1>1. /\ rw \in Rows /\ rw.state = row[r].state /\ rw.text = row[r].text /\ rw.invalid
      /\ rw.request = row[r].request /\ rw.response = row[r].response
    BY RowTyped DEF Rows
<1>2. r \in Threads /\ th' = th /\ row' = [row EXCEPT ![r] = rw]
    BY DEF Invalidate, Threads, TypeOK
<1> HIDE DEF rw
<1>3. \A u \in Threads : th[u].at # "idle" /\ th[u].of = r => Assigned(th[u], rw)
  <2>1. SUFFICES ASSUME NEW u \in Threads, th[u].at # "idle", th[u].of = r
                 PROVE  Assigned(th[u], rw)
      OBVIOUS
  <2>2. Assigned(th[u], row[r])
      BY <2>1 DEF Duties
  <2> QED BY <1>1, <2>2, AssignedKept
<1>4. th[r].at # "idle" => th[r].of = r
    BY <1>2 DEF Duties, Employed
<1>5. th[r].op # "new"
    BY DEF Invalidate, Duties
<1>6. rw.text => row[r].text /\ rw.request = NoLocator /\ rw.response = NoLocator
    BY <1>1 DEF Legacy
<1>7. Effect(r, th[r], r, rw)
    BY <1>1, <1>2, <1>3, <1>4, <1>5, <1>6, StillEffect
<1>8. Books(r, rw)
  <2>1. \A n \in Nat, k \in Nat : n - k + 0 = n - k
      OBVIOUS
  <2>2. \A s \in FinalStates : rollup[s] \in Nat /\ Counts(row[r], s) \in Nat /\ Counts(rw, s) = 0
      BY <1>1 DEF TypeOK, Counts
  <2>3. \A s \in FinalStates :
           rollup[s] - Counts(row[r], s) + Counts(rw, s) = rollup[s] - Counts(row[r], s)
      BY <2>1, <2>2
  <2>4. rollup' = Recounted(row[r], rw)
      BY <2>3 DEF Invalidate, Uncounted, Recounted
  <2>5. pruned' = pruned /\ pruned \subseteq Requests
      BY DEF Invalidate, history, TypeOK
  <2>6. r \in load.legacy /\ r \notin pruned =>
           row[r].text \/ {l.body : l \in {rw.request, rw.response} \ {NoLocator}}
                            = {RequestBody(r, 0), ResponseBody(r)}
      BY <1>1 DEF Legacy, LegacyKept, Locators
  <2> QED BY <1>1, <2>4, <2>5, <2>6 DEF Books
<1> QED BY <1>1, <1>2, <1>7, <1>8

LEMMA PruneEffect ==
    ASSUME TypeOK, Duties, Legacy, NEW r \in Requests, PruneDetails(r), load' = load
    PROVE  /\ Maintenance \in Threads
           /\ \E rw : /\ Effect(Maintenance, th[Maintenance], r, rw) /\ Books(r, rw)
                      /\ rw.request = NoLocator /\ rw.response = NoLocator
<1> DEFINE rw == [row[r] EXCEPT !.request = NoLocator, !.response = NoLocator, !.text = FALSE]
<1>1. /\ rw \in Rows /\ rw.state = row[r].state /\ ~rw.text /\ rw.invalid = row[r].invalid
      /\ rw.request = NoLocator /\ rw.response = NoLocator
    BY RowTyped DEF Rows
<1>2. /\ Maintenance \in Threads /\ Maintenance \notin Requests
      /\ th' = th /\ row' = [row EXCEPT ![r] = rw]
    BY ThreadsAssumption DEF PruneDetails, Threads, TypeOK
<1> HIDE DEF rw
<1>3. th[r].op \in {"ended", "dead"} /\ th[Maintenance].at = "idle"
    BY DEF PruneDetails
<1>4. Effect(Maintenance, th[Maintenance], r, rw)
    BY <1>1, <1>2, <1>3, AloneCleaning, StillEffect
<1>5. Books(r, rw)
  <2>1. \A s \in FinalStates : rollup[s] - Counts(row[r], s) + Counts(rw, s) = rollup[s]
    <3>1. \A n \in Nat, k \in Nat : n - k + k = n
        OBVIOUS
    <3>2. \A s \in FinalStates : rollup[s] \in Nat /\ Counts(row[r], s) \in Nat
                                 /\ Counts(rw, s) = Counts(row[r], s)
        BY <1>1 DEF TypeOK, Counts
    <3> QED BY <3>1, <3>2
  <2>2. rollup' = Recounted(row[r], rw)
      BY <2>1 DEF PruneDetails, Recounted, TypeOK
  <2>3. pruned' = pruned \cup {r} /\ pruned' \subseteq Requests /\ r \in pruned'
      BY DEF PruneDetails, TypeOK
  <2> QED BY <1>1, <2>2, <2>3 DEF Books
<1> QED BY <1>1, <1>2, <1>4, <1>5

LEMMA MigrateEffect ==
    ASSUME TypeOK, Duties, Legacy, NEW r \in Requests, Migrate(r), load' = load
    PROVE  \E y : Effect(Maintenance, y, r, row[r]) /\ y.at = "select" /\ y.got = <<>>
<1> DEFINE bodies == <<RequestBody(r, 0), ResponseBody(r)>>
<1>1. /\ Maintenance \in Threads /\ Maintenance \notin Requests /\ "migrate" \in Operations
      /\ th[Maintenance].op = "calling" /\ "calling" \notin Working /\ row[r].text
      /\ th' = Start(Maintenance, "migrate", r, bodies)
    BY ThreadsAssumption DEF Migrate, Threads, Operations, Working
<1>2. bodies \in Seq(Bodies) /\ bodies # <<>>
  <2>1. RequestBody(r, 0) \in Bodies /\ ResponseBody(r) \in Bodies
      BY BodiesOf
  <2> QED BY <2>1
<1> HIDE DEF bodies
<1>3. PICK y : /\ Moves(Maintenance, y) /\ y.op = "migrate" /\ y.of = r /\ y.todo = bodies
               /\ y.got = th[Maintenance].got
               /\ y.at = (IF bodies = <<>> THEN "commit" ELSE "select")
    BY <1>1, <1>2, StartMoves
<1>4. y.got = <<>> /\ y.at = "select"
    BY <1>1, <1>2, <1>3, Resting
<1>5. Employed(Maintenance, y)
    BY <1>1, <1>3, <1>4 DEF Employed, Working
<1>6. Assigned(y, row[r])
    BY <1>1, <1>3, <1>4 DEF Assigned, Both, bodies
<1>7. row[r] \in Rows /\ row' = [row EXCEPT ![r] = row[r]]
    BY DEF Migrate, TypeOK
<1>8. th[r].op = "ended" /\ row[r].request = NoLocator /\ row[r].response = NoLocator
  <2>1. r \in load.legacy /\ row[r].request = NoLocator /\ row[r].response = NoLocator
      BY <1>1 DEF Legacy
  <2>2. r \notin load.calls
      BY <2>1, WorkloadsAssumption DEF TypeOK
  <2> QED BY <2>1, <2>2 DEF Legacy
<1>9. Effect(Maintenance, y, r, row[r])
    BY <1>1, <1>3, <1>4, <1>5, <1>6, <1>7, <1>8, AloneCleaning DEF Effect
<1> QED BY <1>4, <1>9

\* Where the row is written, what was appended is there to be written.
LEMMA CommitEffect ==
    ASSUME TypeOK, Duties, Legacy, NEW t \in Threads, load' = load,
           CommitDump(t) \/ CommitOutcome(t) \/ CommitMigration(t)
    PROVE  \E y, rw : /\ Effect(t, y, th[t].of, rw) /\ Books(th[t].of, rw)
                      /\ y.at = "idle" /\ y.got = <<>>
                      /\ \A l \in {rw.request, rw.response} \ {NoLocator} :
                           \/ l \in Locators(th[t].of)
                           \/ \E i \in DOMAIN th[t].got : l = th[t].got[i]
<1> DEFINE r == th[t].of
           got == th[t].got
<1>1. th[t].at = "commit" /\ th[t].at # "idle"
    BY DEF CommitDump, CommitOutcome, CommitMigration
<1>2. /\ r \in Requests /\ Assigned(th[t], row[r])
      /\ th[t].op = "migrate" <=> t = Maintenance
      /\ t # Maintenance => r \notin load.legacy
    BY <1>1, AtWork
<1>3. /\ row[r] \in Rows /\ row[r].state \in FinalStates \cup {"none", "running"}
      /\ row[r].request \in Details \cup {NoLocator}
      /\ row[r].response \in Details \cup {NoLocator}
      /\ row[r].text \in BOOLEAN /\ row[r].invalid \in BOOLEAN
    BY <1>2, RowTyped
<1>4. got \in Seq(Details)
    BY ThreadTyped
<1>5. \A rw \in Rows : /\ row' = [row EXCEPT ![r] = rw]
                       /\ rw.text => row[r].text /\ rw.request = NoLocator /\ rw.response = NoLocator
                       /\ Reported(t)
        => \E y : Effect(t, y, r, rw) /\ y.at = "idle" /\ y.got = <<>>
    BY <1>1, ReturnEffect DEF Reported
<1>6. pruned' = pruned /\ pruned \subseteq Requests
    BY DEF CommitDump, CommitOutcome, CommitMigration, history, TypeOK
<1>7. NoLocator \notin Details
    BY DEF NoLocator, Details
<1>8. ASSUME rollup' = rollup, NEW rw, rw.state = row[r].state, rw.invalid = row[r].invalid
      PROVE  rollup' = Recounted(row[r], rw)
  <2>1. \A n \in Nat, k \in Nat : n - k + k = n
      OBVIOUS
  <2>2. \A s \in FinalStates : rollup[s] \in Nat /\ Counts(row[r], s) \in Nat
                               /\ Counts(rw, s) = Counts(row[r], s)
      BY <1>8 DEF TypeOK, Counts
  <2>3. \A s \in FinalStates : rollup[s] - Counts(row[r], s) + Counts(rw, s) = rollup[s]
      BY <2>1, <2>2
  <2> QED BY <1>8, <2>3 DEF Recounted, TypeOK
<1> HIDE DEF r, got
<1>9. CASE CommitDump(t)
  <2> DEFINE rw == [row[r] EXCEPT !.request = got[1]]
  <2>1. Len(got) = 1 /\ (row[r].request # NoLocator => row[r].request.body = got[1].body)
      BY <1>2, <1>9 DEF CommitDump, Assigned, One, got
  <2>2. 1 \in DOMAIN got /\ got[1] \in Details
      BY <1>4, <2>1
  <2>3. /\ rw \in Rows /\ rw.state = row[r].state /\ rw.invalid = row[r].invalid
        /\ rw.text = row[r].text /\ rw.request = got[1] /\ rw.response = row[r].response
      BY <1>3, <2>2 DEF Rows
  <2>4. row' = [row EXCEPT ![r] = rw] /\ Reported(t) /\ rollup' = rollup
      BY <1>2, <1>9 DEF CommitDump, TypeOK, r, got
  <2> HIDE DEF rw
  <2>5. r \notin load.legacy /\ ~row[r].text
      BY <1>2, <1>9 DEF CommitDump, Legacy
  <2>6. Books(r, rw)
    <3>1. rollup' = Recounted(row[r], rw)
        BY <1>8, <2>3, <2>4
    <3> QED BY <1>6, <2>1, <2>3, <2>5, <3>1 DEF Books
  <2>7. \A l \in {rw.request, rw.response} \ {NoLocator} :
           l \in Locators(r) \/ \E i \in DOMAIN got : l = got[i]
      BY <2>2, <2>3 DEF Locators
  <2>8. \E y : Effect(t, y, r, rw) /\ y.at = "idle" /\ y.got = <<>>
      BY <1>5, <2>3, <2>4, <2>5
  <2> QED BY <2>6, <2>7, <2>8 DEF r, got
<1>10. CASE CommitMigration(t)
  <2> DEFINE rw == [row[r] EXCEPT !.text = FALSE, !.request = got[1], !.response = got[2]]
  <2>1. /\ Len(got) = 2 /\ row[r].text
        /\ got[1].body = RequestBody(r, 0) /\ got[2].body = ResponseBody(r)
      BY <1>2, <1>10 DEF CommitMigration, Assigned, Both, got, r
  <2>2. 1 \in DOMAIN got /\ 2 \in DOMAIN got /\ got[1] \in Details /\ got[2] \in Details
      BY <1>4, <2>1
  <2>3. /\ rw \in Rows /\ rw.state = row[r].state /\ rw.invalid = row[r].invalid
        /\ ~rw.text /\ rw.request = got[1] /\ rw.response = got[2]
      BY <1>3, <2>2 DEF Rows
  <2>4. row' = [row EXCEPT ![r] = rw] /\ Reported(t) /\ rollup' = rollup
      BY <1>2, <1>10 DEF CommitMigration, TypeOK, r, got
  <2> HIDE DEF rw
  <2>5. row[r].request = NoLocator /\ row[r].response = NoLocator
      BY <1>2, <2>1 DEF Legacy
  <2>6. Books(r, rw)
    <3>1. rollup' = Recounted(row[r], rw)
        BY <1>8, <2>3, <2>4
    <3>2. {l.body : l \in {rw.request, rw.response} \ {NoLocator}}
            = {RequestBody(r, 0), ResponseBody(r)}
      <4>1. {rw.request, rw.response} \ {NoLocator} = {got[1], got[2]}
          BY <1>7, <2>2, <2>3
      <4> QED BY <2>1, <4>1
    <3> QED BY <1>6, <2>5, <3>1, <3>2 DEF Books
  <2>7. \A l \in {rw.request, rw.response} \ {NoLocator} :
           l \in Locators(r) \/ \E i \in DOMAIN got : l = got[i]
      BY <2>2, <2>3
  <2>8. \E y : Effect(t, y, r, rw) /\ y.at = "idle" /\ y.got = <<>>
      BY <1>5, <2>3, <2>4
  <2> QED BY <2>6, <2>7, <2>8 DEF r, got
<1>11. CASE CommitOutcome(t)
  <2> DEFINE rw == Finalized(row[r], th[t].outcome, got)
  <2>1. got = <<>> \/ (row[r].response = NoLocator /\ Len(got) = 1)
      BY <1>1, <1>2, <1>11 DEF CommitOutcome, Assigned, One, got
  <2>2. got # <<>> => 1 \in DOMAIN got /\ got[1] \in Details
      BY <1>4, <2>1
  <2>3. th[t].outcome \in FinalStates
      BY ThreadTyped
  <2>4. /\ rw \in Rows /\ rw.request = row[r].request /\ rw.text = row[r].text
        /\ \/ rw.response = row[r].response
           \/ row[r].response = NoLocator /\ got # <<>> /\ rw.response = got[1]
    <3>1. CASE row[r].state \in FinalStates
        BY <1>3, <3>1 DEF Finalized
    <3>2. CASE row[r].state \notin FinalStates /\ got = <<>>
      <4>1. rw = [row[r] EXCEPT !.state = th[t].outcome, !.response = row[r].response]
          BY <3>2 DEF Finalized
      <4> QED BY <1>3, <2>3, <4>1 DEF Rows
    <3>3. CASE row[r].state \notin FinalStates /\ got # <<>>
      <4>1. rw = [row[r] EXCEPT !.state = th[t].outcome, !.response = got[1]]
          BY <3>3 DEF Finalized
      <4> QED BY <1>3, <2>1, <2>2, <2>3, <3>3, <4>1 DEF Rows
    <3> QED BY <3>1, <3>2, <3>3
  <2>5. row' = [row EXCEPT ![r] = rw] /\ Reported(t) /\ rollup' = Recounted(row[r], rw)
      BY <1>11 DEF CommitOutcome, r, got
  <2> HIDE DEF rw
  <2>6. r \notin load.legacy /\ ~row[r].text
      BY <1>2, <1>11 DEF CommitOutcome, Legacy
  <2>7. Books(r, rw)
      BY <1>6, <2>4, <2>5, <2>6 DEF Books
  <2>8. \A l \in {rw.request, rw.response} \ {NoLocator} :
           l \in Locators(r) \/ \E i \in DOMAIN got : l = got[i]
      BY <2>2, <2>4 DEF Locators
  <2>9. \E y : Effect(t, y, r, rw) /\ y.at = "idle" /\ y.got = <<>>
      BY <1>5, <2>4, <2>5, <2>6
  <2> QED BY <2>7, <2>8, <2>9 DEF r, got
<1> QED BY <1>9, <1>10, <1>11

-----------------------------------------------------------------------------
(* Segments and files                                                       *)

\* Except where it was overwritten, f holds the record of b in s behind pos.
InFile(f, over, s, pos, b) ==
    /\ pos + Length(b) <= Len(f[s])
    /\ \A i \in 1 .. Length(b) : <<s, pos + i>> \in over \/ f[s][pos + i] = <<b, i>>

\* A locator whose bytes are durable; nothing is promised of a segment whose
\* size was repaired to what was not durable.
Kept(l) ==
    /\ l.seg \in DOMAIN segs
    /\ l.seg \in unsure \/ InFile(synced, overwritten, l.seg, l.off, l.body)

LocatorsKept == \A r \in Requests : \A l \in Locators(r) : Kept(l)

\* The steps at which the end of the file has been found
Sited == {"repair", "write", "sync", "size", "retire"}

\* What is true of the segment that a thread with progress x appends to
Seated(x) ==
    /\ x.at \in Creation \cup Sited \cup {"seek", "close"} => x.seg \in DOMAIN segs
    /\ x.at \in {"name", "header"} => file[x.seg] = <<>>
    /\ x.at \in {"header", "headersync"} => segs[x.seg].named
    /\ x.at \in Sited \cup {"headersync"} => Len(file[x.seg]) >= 1
    /\ x.at = "seek" /\ x.seg \notin unsure => x.off <= 1 \/ x.off <= Len(synced[x.seg])
    /\ x.at \in Sited => x.pos <= Len(file[x.seg]) /\ (x.seg \notin unsure => x.pos = x.off)
    /\ x.at = "sync" => InFile(file, overwritten, x.seg, x.pos, Head(x.todo))
    /\ x.at \in {"size", "retire"} => InFile(synced, overwritten, x.seg, x.pos, Head(x.todo))

Placed(x) == Seated(x) /\ \A i \in DOMAIN x.got : Kept(x.got[i])

Sites == \A x \in {th[t] : t \in Threads} : Placed(x)

\* A segment is created by one thread.
Creators ==
    \A t, u \in Threads :
        th[t].at \in Creation /\ th[u].at \in Creation /\ th[t].seg = th[u].seg => t = u

Creating(s) == \E t \in Threads : th[t].at \in Creation /\ th[t].seg = s

\* What is durable of a segment is in its file, and its size is durable; it
\* has a name and a durable header, unless its creation goes on or was cut
\* short.
Segment(s) ==
    /\ Len(synced[s]) <= Len(file[s])
    /\ \A i \in 1 .. Len(synced[s]) : <<s, i>> \in overwritten \/ file[s][i] = synced[s][i]
    /\ s \notin unsure => segs[s].size <= 1 \/ segs[s].size <= Len(synced[s])
    /\ \/ s \in torn
       \/ Creating(s)
       \/ segs[s].named /\ Len(synced[s]) >= 1

Segments == \A s \in DOMAIN segs : Segment(s)

Disk == LocatorsKept /\ Sites /\ Creators /\ Segments

\* The disk as TypeOK has it
SegmentRows == [named : BOOLEAN, closed : BOOLEAN, size : Nat]
DiskTyped ==
    /\ segs \in Seq(SegmentRows)
    /\ file \in Seq(Seq(Cells)) /\ synced \in Seq(Seq(Cells))
    /\ Len(file) = Len(segs) /\ Len(synced) = Len(segs)

\* g holds all that f holds, except where it was overwritten.
Extends(f, g) ==
    \A s \in DOMAIN f :
        /\ s \in DOMAIN g /\ Len(f[s]) <= Len(g[s])
        /\ \A i \in 1 .. Len(f[s]) : <<s, i>> \in overwritten' \/ g[s][i] = f[s][i]

\* No segment goes away and nothing is taken back.
Remains ==
    /\ DOMAIN segs \subseteq DOMAIN segs'
    /\ overwritten \subseteq overwritten' /\ unsure \subseteq unsure' /\ torn \subseteq torn'
    /\ \A s \in DOMAIN segs : segs[s].named => segs'[s].named
    /\ Extends(synced, synced')

Grows == Remains /\ Extends(file, file')

LEMMA DiskTypes ==
    ASSUME TypeOK
    PROVE  /\ DiskTyped
           /\ DOMAIN segs = 1 .. Len(segs) /\ DOMAIN file = DOMAIN segs
           /\ DOMAIN synced = DOMAIN segs
           /\ \A s \in DOMAIN segs :
                /\ s \in Nat \ {0} /\ segs[s] \in SegmentRows /\ segs[s].size \in Nat
                /\ file[s] \in Seq(Cells) /\ synced[s] \in Seq(Cells)
                /\ Len(file[s]) \in Nat /\ Len(synced[s]) \in Nat
<1>1. DiskTyped
    BY DEF TypeOK, DiskTyped, SegmentRows
<1>2. /\ DOMAIN segs = 1 .. Len(segs) /\ DOMAIN file = DOMAIN segs
      /\ DOMAIN synced = DOMAIN segs /\ Len(segs) \in Nat
    BY <1>1, LenProperties DEF DiskTyped
<1>3. \A s \in DOMAIN segs : /\ s \in Nat \ {0} /\ segs[s] \in SegmentRows
                             /\ file[s] \in Seq(Cells) /\ synced[s] \in Seq(Cells)
    BY <1>1, <1>2, ElementOfSeq DEF DiskTyped
<1>4. \A s \in DOMAIN segs : Len(file[s]) \in Nat /\ Len(synced[s]) \in Nat
    BY <1>3, LenProperties
<1>5. \A x \in SegmentRows : x.size \in Nat
    BY DEF SegmentRows
<1> QED BY <1>1, <1>2, <1>3, <1>4, <1>5

LEMMA ExtendsSame ==
    ASSUME NEW f
    PROVE  Extends(f, f)
<1>1. ASSUME NEW s \in DOMAIN f PROVE Len(f[s]) <= Len(f[s])
    OBVIOUS
<1> QED BY <1>1 DEF Extends

LEMMA InFileExtends ==
    ASSUME NEW f, NEW g, Extends(f, g), overwritten \subseteq overwritten', NEW s \in DOMAIN f,
           f[s] \in Seq(Cells), g[s] \in Seq(Cells),
           NEW pos \in Nat, NEW b \in Bodies, InFile(f, overwritten, s, pos, b)
    PROVE  InFile(g, overwritten', s, pos, b)
<1>1. Length(b) \in Nat /\ Len(f[s]) \in Nat /\ Len(g[s]) \in Nat
    BY LengthAssumption, LenProperties
<1>2. pos + Length(b) <= Len(f[s]) /\ Len(f[s]) <= Len(g[s])
    BY DEF InFile, Extends
<1>3. pos + Length(b) <= Len(g[s])
    BY <1>1, <1>2
<1>4. ASSUME NEW i \in 1 .. Length(b)
      PROVE  <<s, pos + i>> \in overwritten' \/ g[s][pos + i] = <<b, i>>
  <2>1. pos + i \in 1 .. Len(f[s])
      BY <1>1, <1>2
  <2>2. <<s, pos + i>> \in overwritten \/ f[s][pos + i] = <<b, i>>
      BY DEF InFile
  <2> QED BY <2>1, <2>2 DEF Extends
<1> QED BY <1>3, <1>4 DEF InFile

LEMMA KeptRemains ==
    ASSUME TypeOK, DiskTyped', Remains, NEW l \in Details, Kept(l)
    PROVE  Kept(l)'
<1>1. l.seg \in DOMAIN segs /\ l.seg \in DOMAIN segs' /\ l.off \in Nat /\ l.body \in Bodies
    BY DEF Kept, Remains, Details
<1>2. DOMAIN synced = DOMAIN segs /\ synced[l.seg] \in Seq(Cells)
    BY <1>1, DiskTypes
<1>3. synced'[l.seg] \in Seq(Cells)
    BY <1>1, LenProperties, ElementOfSeq DEF DiskTyped
<1>4. CASE l.seg \in unsure
    BY <1>1, <1>4 DEF Kept, Remains
<1>5. CASE InFile(synced, overwritten, l.seg, l.off, l.body)
  <2>1. InFile(synced', overwritten', l.seg, l.off, l.body)
      BY <1>1, <1>2, <1>3, <1>5, InFileExtends DEF Remains
  <2> QED BY <1>1, <2>1 DEF Kept
<1> QED BY <1>4, <1>5 DEF Kept

\* What is left to append, and what was located
LEMMA HeadTyped ==
    ASSUME TypeOK, Duties, NEW t \in Threads, th[t].at \notin {"idle", "commit"}
    PROVE  th[t].todo # <<>> /\ Head(th[t].todo) \in Bodies
<1>1. Assigned(th[t], row[th[t].of])
    BY DEF Duties
<1>2. \E b, c : th[t].todo = <<b>> \/ th[t].todo = <<b, c>>
    BY <1>1 DEF Assigned, One, Both
<1>3. \A b, c : <<b>> # <<>> /\ <<b, c>> # <<>>
    OBVIOUS
<1>4. th[t].todo \in Seq(Bodies) /\ th[t].todo # <<>>
    BY <1>2, <1>3, ThreadTyped
<1> QED BY <1>4, HeadTailProperties

LEMMA ProgressTyped ==
    ASSUME NEW x \in Progress
    PROVE  x.seg \in Nat /\ x.pos \in Nat /\ x.off \in Nat /\ x.got \in Seq(Details)
  BY DEF Progress

LEMMA PlacedGrows ==
    ASSUME TypeOK, DiskTyped', Grows, NEW x \in Progress, Placed(x),
           x.at \notin {"idle", "commit"} => Head(x.todo) \in Bodies,
           x.at \in {"name", "header"} => file'[x.seg] = file[x.seg]
    PROVE  Placed(x)'
<1>1. x.seg \in Nat /\ x.pos \in Nat /\ x.off \in Nat /\ x.got \in Seq(Details)
    BY ProgressTyped
<1>2. /\ DOMAIN file = DOMAIN segs /\ DOMAIN synced = DOMAIN segs
      /\ DOMAIN segs \subseteq DOMAIN segs'
      /\ \A s \in DOMAIN segs : /\ file[s] \in Seq(Cells) /\ synced[s] \in Seq(Cells)
                                /\ Len(file[s]) \in Nat /\ Len(synced[s]) \in Nat
    BY DiskTypes DEF Grows, Remains
<1>3. \A s \in DOMAIN segs : /\ file'[s] \in Seq(Cells) /\ synced'[s] \in Seq(Cells)
                             /\ Len(file'[s]) \in Nat /\ Len(synced'[s]) \in Nat
  <2>1. DOMAIN segs' = 1 .. Len(segs') /\ DOMAIN file' = DOMAIN segs' /\ DOMAIN synced' = DOMAIN segs'
      BY LenProperties DEF DiskTyped
  <2>2. \A s \in DOMAIN segs' : file'[s] \in Seq(Cells) /\ synced'[s] \in Seq(Cells)
      BY <2>1, ElementOfSeq DEF DiskTyped
  <2> QED BY <1>2, <2>2, LenProperties
<1>4. \A s \in DOMAIN segs : Len(file[s]) <= Len(file'[s]) /\ Len(synced[s]) <= Len(synced'[s])
    BY <1>2 DEF Grows, Remains, Extends
<1>5. x.at \in Creation \cup Sited \cup {"seek", "close"} =>
        x.seg \in DOMAIN segs /\ x.seg \in DOMAIN segs'
    BY <1>2 DEF Placed, Seated
<1>6. x.at \in {"name", "header"} => file'[x.seg] = <<>>
    BY DEF Placed, Seated
<1>7. x.at \in {"header", "headersync"} => segs'[x.seg].named
    BY <1>5 DEF Placed, Seated, Grows, Remains, Creation
<1>8. x.at \in Sited \cup {"headersync"} => Len(file'[x.seg]) >= 1
  <2> SUFFICES ASSUME x.at \in Sited \cup {"headersync"} PROVE Len(file'[x.seg]) >= 1
      OBVIOUS
  <2>1. x.seg \in DOMAIN segs /\ Len(file[x.seg]) >= 1
      BY <1>5 DEF Placed, Seated, Creation
  <2> QED BY <1>2, <1>3, <1>4, <2>1
<1>9. x.at = "seek" /\ x.seg \notin unsure' => x.off <= 1 \/ x.off <= Len(synced'[x.seg])
  <2> SUFFICES ASSUME x.at = "seek", x.seg \notin unsure'
               PROVE  x.off <= 1 \/ x.off <= Len(synced'[x.seg])
      OBVIOUS
  <2>1. x.seg \in DOMAIN segs /\ (x.off <= 1 \/ x.off <= Len(synced[x.seg]))
      BY <1>5 DEF Placed, Seated, Grows, Remains
  <2> QED BY <1>1, <1>2, <1>3, <1>4, <2>1
<1>10. x.at \in Sited => x.pos <= Len(file'[x.seg]) /\ (x.seg \notin unsure' => x.pos = x.off)
  <2> SUFFICES ASSUME x.at \in Sited
               PROVE  x.pos <= Len(file'[x.seg]) /\ (x.seg \notin unsure' => x.pos = x.off)
      OBVIOUS
  <2>1. x.seg \in DOMAIN segs /\ x.pos <= Len(file[x.seg])
        /\ (x.seg \notin unsure' => x.pos = x.off)
      BY <1>5 DEF Placed, Seated, Grows, Remains
  <2> QED BY <1>1, <1>2, <1>3, <1>4, <2>1
<1>11. x.at = "sync" => InFile(file', overwritten', x.seg, x.pos, Head(x.todo))
  <2> SUFFICES ASSUME x.at = "sync"
               PROVE  InFile(file', overwritten', x.seg, x.pos, Head(x.todo))
      OBVIOUS
  <2>1. x.seg \in DOMAIN segs /\ InFile(file, overwritten, x.seg, x.pos, Head(x.todo))
      BY <1>5 DEF Placed, Seated, Sited
  <2> QED BY <1>1, <1>2, <1>3, <2>1, InFileExtends DEF Grows, Remains
<1>12. x.at \in {"size", "retire"} => InFile(synced', overwritten', x.seg, x.pos, Head(x.todo))
  <2> SUFFICES ASSUME x.at \in {"size", "retire"}
               PROVE  InFile(synced', overwritten', x.seg, x.pos, Head(x.todo))
      OBVIOUS
  <2>1. x.seg \in DOMAIN segs /\ InFile(synced, overwritten, x.seg, x.pos, Head(x.todo))
      BY <1>5 DEF Placed, Seated, Sited
  <2> QED BY <1>1, <1>2, <1>3, <2>1, InFileExtends DEF Grows, Remains
<1>13. \A i \in DOMAIN x.got : Kept(x.got[i])'
  <2> SUFFICES ASSUME NEW i \in DOMAIN x.got PROVE Kept(x.got[i])'
      OBVIOUS
  <2> DEFINE l == x.got[i]
  <2>1. l \in Details /\ Kept(l)
      BY <1>1, ElementOfSeq, LenProperties DEF Placed, Seated
  <2> HIDE DEF l
  <2>2. \A m \in Details : Kept(m) => Kept(m)'
      BY KeptRemains DEF Grows
  <2>3. PICK m \in Details : m = l /\ Kept(m) /\ Kept(m)'
      BY <2>1, <2>2
  <2> QED BY <2>3 DEF l, Kept
<1> QED BY <1>5, <1>6, <1>7, <1>8, <1>9, <1>10, <1>11, <1>12, <1>13 DEF Placed, Seated

LEMMA SegmentUntouched ==
    ASSUME TypeOK, NEW s \in DOMAIN segs, Segment(s), segs'[s] = segs[s], file'[s] = file[s],
           synced'[s] = synced[s], Remains, Creating(s) => Creating(s)' \/ s \in torn'
    PROVE  Segment(s)'
<1>1. \A i \in 1 .. Len(synced[s]) : <<s, i>> \in overwritten' \/ file[s][i] = synced[s][i]
    BY DEF Segment, Remains
<1>2. Len(synced[s]) <= Len(file[s])
    BY DEF Segment
<1>3. s \notin unsure' => segs[s].size <= 1 \/ segs[s].size <= Len(synced[s])
    BY DEF Segment, Remains
<1>4. s \in torn' \/ Creating(s)' \/ (segs[s].named /\ Len(synced[s]) >= 1)
    BY DEF Segment, Remains
<1> QED BY <1>1, <1>2, <1>3, <1>4 DEF Segment

LEMMA CreatingMoves ==
    ASSUME TypeOK, NEW t \in Threads, NEW y, Moves(t, y), NEW s, Creating(s),
           th[t].at \in Creation /\ th[t].seg = s => y.at \in Creation /\ y.seg = s
    PROVE  Creating(s)'
<1>1. th'[t] = y /\ \A u \in Threads : u # t => th'[u] = th[u]
    BY MovesTyped
<1>2. PICK u \in Threads : th[u].at \in Creation /\ th[u].seg = s
    BY DEF Creating
<1>3. th'[u].at \in Creation /\ th'[u].seg = s
    BY <1>1, <1>2
<1> QED BY <1>3 DEF Creating

\* A step of thread t, which becomes y, on the disk
DiskStep(t, y) ==
    /\ t \in Threads /\ Moves(t, y)
    /\ DiskTyped' /\ Grows /\ Segments'
    /\ Placed(y)'
    /\ y.at \in Creation => y.seg \notin DOMAIN segs \/ (th[t].at \in Creation /\ y.seg = th[t].seg)
    /\ \A u \in Threads : u # t /\ th[u].at \in {"name", "header"} =>
          file'[th[u].seg] = file[th[u].seg]

\* The locators of a row are those it had, or the thread was given them.
Given(t) ==
    \A r \in Requests : \A l \in Locators(r)' :
        l \in Locators(r) \/ \E i \in DOMAIN th[t].got : l = th[t].got[i]

LEMMA LocatorTyped ==
    ASSUME TypeOK, NEW r \in Requests
    PROVE  Locators(r) \subseteq Details
  BY RowTyped DEF Locators

LEMMA LocatorsRemain ==
    ASSUME TypeOK, LocatorsKept, Sites, DiskTyped', Remains, NEW t \in Threads, Given(t)
    PROVE  LocatorsKept'
<1>1. \A m \in Details : Kept(m) => Kept(m)'
    BY KeptRemains
<1>2. ASSUME NEW r \in Requests, NEW l \in Locators(r)' PROVE l \in Details /\ Kept(l)
  <2>1. CASE l \in Locators(r)
      BY <2>1, LocatorTyped DEF LocatorsKept
  <2>2. CASE \E i \in DOMAIN th[t].got : l = th[t].got[i]
    <3>1. PICK i \in DOMAIN th[t].got : l = th[t].got[i]
        BY <2>2
    <3>2. th[t].got \in Seq(Details)
        BY ThreadTyped
    <3>3. l \in Details
        BY <3>1, <3>2, ElementOfSeq, LenProperties
    <3>4. Placed(th[t])
        BY DEF Sites
    <3> QED BY <3>1, <3>3, <3>4 DEF Placed, Seated
  <2> QED BY <1>2, <2>1, <2>2 DEF Given
<1>3. \A r \in Requests : \A l \in Locators(r)' : Kept(l)'
  <2> SUFFICES ASSUME NEW r \in Requests, NEW l \in Locators(r)' PROVE Kept(l)'
      OBVIOUS
  <2>1. PICK m \in Details : m = l /\ Kept(m)'
      BY <1>1, <1>2
  <2> QED BY <2>1
<1> QED BY <1>3 DEF LocatorsKept

LEMMA DiskStepKeeps ==
    ASSUME TypeOK, Duties, Disk, NEW t, NEW y, DiskStep(t, y), Given(t)
    PROVE  Disk'
<1>1. /\ t \in Threads /\ th'[t] = y /\ \A u \in Threads : u # t => th'[u] = th[u]
    BY MovesTyped DEF DiskStep
<1>2. LocatorsKept'
    BY <1>1, LocatorsRemain DEF Disk, DiskStep, Grows
<1>3. Sites'
  <2>1. ASSUME NEW u \in Threads, u # t PROVE Placed(th[u])
      BY DEF Disk, Sites
  <2>2. ASSUME NEW u \in Threads, u # t, NEW x, x = th[u] PROVE Placed(x)'
    <3>1. Placed(x) /\ x \in Progress
        BY <2>1, <2>2, ThreadTyped
    <3>2. x.at \notin {"idle", "commit"} => Head(x.todo) \in Bodies
        BY <2>2, HeadTyped
    <3>3. x.at \in {"name", "header"} => file'[x.seg] = file[x.seg]
        BY <2>2 DEF DiskStep
    <3> QED BY <3>1, <3>2, <3>3, PlacedGrows DEF DiskStep
  <2>3. ASSUME NEW x \in {th'[u] : u \in Threads} PROVE Placed(x)'
    <3>1. PICK u \in Threads : x = th'[u]
        BY <2>3
    <3>2. CASE u = t
      <4>1. Placed(y)' /\ x = y
          BY <1>1, <3>1, <3>2 DEF DiskStep
      <4> QED BY <4>1
    <3>3. CASE u # t
      <4>1. x = th[u]
          BY <1>1, <3>1, <3>3
      <4> QED BY <2>2, <3>3, <4>1
    <3> QED BY <3>2, <3>3
  <2> QED BY <2>3 DEF Sites
<1>4. Creators'
  <2> SUFFICES ASSUME NEW u \in Threads, NEW v \in Threads, th'[u].at \in Creation,
                      th'[v].at \in Creation, th'[u].seg = th'[v].seg, u # v
               PROVE  FALSE
      BY DEF Creators
  <2>1. ASSUME NEW w \in Threads, w # t, th'[w].at \in Creation
        PROVE  th[w].at \in Creation /\ th[w].seg \in DOMAIN segs /\ th'[w].seg = th[w].seg
    <3>1. th'[w] = th[w] /\ Placed(th[w])
        BY <1>1, <2>1 DEF Disk, Sites
    <3> QED BY <2>1, <3>1 DEF Placed, Seated
  <2>2. ASSUME NEW w \in Threads, w # t, th'[w].at \in Creation, y.at \in Creation,
               th'[w].seg = y.seg
        PROVE  FALSE
    <3>1. th[w].at \in Creation /\ th[w].seg \in DOMAIN segs /\ th[w].seg = y.seg
        BY <2>1, <2>2
    <3>2. th[t].at \in Creation /\ th[t].seg = th[w].seg
        BY <2>2, <3>1 DEF DiskStep
    <3> QED BY <1>1, <2>2, <3>1, <3>2 DEF Disk, Creators
  <2>3. CASE u = t
      BY <1>1, <2>2, <2>3
  <2>4. CASE v = t
      BY <1>1, <2>2, <2>4
  <2>5. CASE u # t /\ v # t
    <3>1. th'[u] = th[u] /\ th'[v] = th[v]
        BY <1>1, <2>5
    <3> QED BY <3>1 DEF Disk, Creators
  <2> QED BY <2>3, <2>4, <2>5
<1> QED BY <1>2, <1>3, <1>4 DEF Disk, DiskStep

-----------------------------------------------------------------------------
(* Steps that leave the disk alone                                          *)

DiskStays == UNCHANGED <<diskVars, overwritten, unsure, torn>>

LEMMA StaysGrows ==
    ASSUME TypeOK, DiskStays
    PROVE  DiskTyped' /\ Grows
<1>1. segs' = segs /\ file' = file /\ synced' = synced /\ overwritten' = overwritten
      /\ unsure' = unsure /\ torn' = torn
    BY DEF DiskStays, diskVars
<1>2. Extends(file, file) /\ Extends(synced, synced)
    BY ExtendsSame
<1>3. DiskTyped
    BY DiskTypes
<1> QED BY <1>1, <1>2, <1>3 DEF DiskTyped, Grows, Remains

LEMMA SitesStay ==
    ASSUME Sites, DiskStays, th' = th
    PROVE  Sites'
<1>1. segs' = segs /\ file' = file /\ synced' = synced /\ overwritten' = overwritten
      /\ unsure' = unsure
    BY DEF DiskStays, diskVars
<1>2. ASSUME NEW y, Placed(y) PROVE Placed(y)'
    BY <1>1, <1>2 DEF Placed, Seated, InFile, Kept
<1> QED BY <1>2 DEF Sites

LEMMA DiskStaysStep ==
    ASSUME TypeOK, Duties, Disk, DiskStays, NEW t \in Threads, NEW y, Moves(t, y),
           Placed(y), th[t].at \in Creation => y.at \in Creation /\ y.seg = th[t].seg,
           y.at \in Creation => th[t].at \in Creation /\ y.seg = th[t].seg
    PROVE  DiskStep(t, y)
<1>1. segs' = segs /\ file' = file /\ synced' = synced /\ overwritten' = overwritten
      /\ unsure' = unsure /\ torn' = torn
    BY DEF DiskStays, diskVars
<1>2. DiskTyped' /\ Grows
    BY StaysGrows
<1>3. Placed(y)'
    BY <1>1 DEF Placed, Seated, InFile, Kept
<1>4. Segments'
  <2> SUFFICES ASSUME NEW s \in DOMAIN segs PROVE Segment(s)'
      BY <1>1 DEF Segments
  <2>1. Creating(s) => Creating(s)'
      BY CreatingMoves
  <2> QED BY <1>1, <1>2, <2>1, SegmentUntouched DEF Disk, Segments, Grows
<1> QED BY <1>1, <1>2, <1>3, <1>4 DEF DiskStep

\* ... and with which an operation begins or ends.
LEMMA RestingStep ==
    ASSUME TypeOK, Duties, Disk, DiskStays, NEW t \in Threads, NEW y, Moves(t, y),
           y.at \in {"idle", "select", "create", "commit"}, y.got = <<>> \/ y.got = th[t].got,
           th[t].at \notin Creation
    PROVE  DiskStep(t, y)
<1>1. Placed(th[t])
    BY DEF Disk, Sites
<1>2. y.at \notin Creation \cup Sited \cup {"seek", "close"}
    BY DEF Creation, Sited
<1>3. \A i \in DOMAIN y.got : Kept(y.got[i])
    BY <1>1 DEF Placed, Seated
<1>4. Placed(y)
    BY <1>2, <1>3 DEF Placed, Seated, Creation, Sited
<1> QED BY <1>2, <1>4, DiskStaysStep

-----------------------------------------------------------------------------
(* The steps of append_detail                                               *)

\* A step of thread t with what it makes of the rows and of the disk
Does(t) ==
    \E y, r, rw : Effect(t, y, r, rw) /\ Books(r, rw) /\ DiskStep(t, y) /\ Given(t)

LEMMA RowsStay ==
    ASSUME TypeOK, Legacy, NEW t \in Threads, row' = row, rollup' = rollup, pruned' = pruned
    PROVE  Given(t) /\ \A r \in Requests : Books(r, row[r])
<1>1. \A r \in Requests : Locators(r)' = Locators(r)
    BY DEF Locators
<1> QED BY <1>1, BooksStill DEF Given

LEMMA NewestOpen ==
    ASSUME TypeOK, Open # {}
    PROVE  Newest \in Open
<1>1. Open \subseteq 1 .. Len(segs) /\ Len(segs) \in Nat
    BY DiskTypes, LenProperties DEF Open, DiskTyped
<1> DEFINE T == {Len(segs) - s : s \in Open}
<1>2. T \subseteq Nat /\ T # {}
  <2>1. \A s \in Open : Len(segs) - s \in Nat
      BY <1>1
  <2>2. PICK s \in Open : TRUE
      OBVIOUS
  <2>3. Len(segs) - s \in T
      BY <2>2
  <2> QED BY <2>1, <2>3
<1> HIDE DEF T
<1>3. PICK n \in T : \A m \in T : n <= m
    BY <1>2, LeastNumber
<1>4. PICK s \in Open : n = Len(segs) - s
    BY <1>3 DEF T
<1>5. \A o \in Open : o <= s
  <2> SUFFICES ASSUME NEW o \in Open PROVE o <= s
      OBVIOUS
  <2>1. Len(segs) - o \in T /\ o \in Nat /\ s \in Nat
      BY <1>1 DEF T
  <2>2. Len(segs) - s <= Len(segs) - o
      BY <1>3, <1>4, <2>1
  <2> QED BY <1>1, <2>1, <2>2
<1>6. \E x \in Open : \A o \in Open : o <= x
    BY <1>5
<1> QED BY <1>6 DEF Newest

LEMMA ReturnDoes ==
    ASSUME TypeOK, Duties, Legacy, Disk, NEW t \in Threads,
           th[t].at \notin Creation \cup {"idle"}, NEW ok, Return(t, ok),
           DiskStays, row' = row, load' = load, rollup' = rollup, pruned' = pruned
    PROVE  Does(t)
<1> DEFINE r == th[t].of
<1>1. r \in Requests
    BY AtWork
<1>2. row[r] \in Rows /\ row' = [row EXCEPT ![r] = row[r]]
    BY <1>1 DEF TypeOK
<1>3. row[r].text => row[r].request = NoLocator /\ row[r].response = NoLocator
    BY <1>1 DEF Legacy
<1>4. PICK y : Effect(t, y, r, row[r]) /\ y.at = "idle" /\ y.got = <<>>
    BY <1>2, <1>3, ReturnEffect
<1>5. DiskStep(t, y)
    BY <1>4, RestingStep DEF Effect
<1>6. Given(t) /\ Books(r, row[r])
    BY <1>1, RowsStay
<1> QED BY <1>4, <1>5, <1>6 DEF Does

\* The thread goes on with its operation; only the disk is left to look at.
LEMMA WorkDoes ==
    ASSUME TypeOK, Duties, Legacy, NEW t \in Threads, th[t].at \notin {"idle", "commit"},
           NEW y, Moves(t, y), y.at \notin {"idle", "commit"},
           y.op = th[t].op, y.todo = th[t].todo, y.got = th[t].got, y.of = th[t].of,
           row' = row, load' = load, rollup' = rollup, pruned' = pruned, DiskStep(t, y)
    PROVE  Does(t)
<1>1. Effect(t, y, th[t].of, row[th[t].of])
    BY WorkEffect
<1>2. Given(t) /\ Books(th[t].of, row[th[t].of])
    BY RowsStay, AtWork
<1> QED BY <1>1, <1>2 DEF Does

\* A thread finds its place in a segment.
At(x, seg, pos, off, at) == [x EXCEPT !.seg = seg, !.pos = pos, !.off = off, !.at = at]

LEMMA Placing ==
    ASSUME TypeOK, NEW t \in Threads, NEW seg \in Nat, NEW pos \in Nat, NEW off \in Nat,
           NEW at \in Steps, NEW y, y = At(th[t], seg, pos, off, at), th' = [th EXCEPT ![t] = y]
    PROVE  Moves(t, y)
  BY ThreadTyped DEF Progress, At, Moves

LEMMA SelectDoes ==
    ASSUME TypeOK, Duties, Legacy, Disk, NEW t \in Threads, Select(t), load' = load
    PROVE  Does(t)
<1>1. /\ th[t].at = "select" /\ row' = row /\ rollup' = rollup /\ pruned' = pruned /\ DiskStays
      /\ {"select", "create", "seek", "close"} \cap (Creation \cup {"idle", "commit"}) = {}
    BY DEF Select, DiskStays, history, Creation
<1>2. Placed(th[t])
    BY DEF Disk, Sites
<1>3. CASE Goto(t, "create")
  <2>1. PICK y : /\ Moves(t, y) /\ y.at = "create"
                 /\ y.op = th[t].op /\ y.todo = th[t].todo /\ y.got = th[t].got
                 /\ y.seg = th[t].seg /\ y.pos = th[t].pos /\ y.off = th[t].off
                 /\ y.of = th[t].of
      BY <1>3, GotoMoves DEF Steps
  <2>2. DiskStep(t, y)
      BY <1>1, <2>1, RestingStep
  <2> QED BY <1>1, <2>1, <2>2, WorkDoes
<1>4. CASE Return(t, FALSE)
    BY <1>1, <1>4, ReturnDoes
<1>5. CASE /\ Open # {}
           /\ th' = [th EXCEPT ![t].seg = Newest, ![t].off = segs[Newest].size,
                       ![t].at = IF segs[Newest].size < Rotate THEN "seek" ELSE "close"]
  <2> DEFINE at == IF segs[Newest].size < Rotate THEN "seek" ELSE "close"
             off == segs[Newest].size
  <2>1. /\ Newest \in DOMAIN segs /\ Newest \in Nat /\ off \in Nat
      BY <1>5, NewestOpen, DiskTypes DEF Open
  <2>2. /\ th[t] \in Progress /\ th[t].pos \in Nat
        /\ at \in {"seek", "close"} /\ at \in Steps
      BY ThreadTyped DEF Steps
  <2>3. PICK y : y = At(th[t], Newest, th[t].pos, off, at)
      OBVIOUS
  <2>4. th' = [th EXCEPT ![t] = y]
      BY <1>5, <2>2, <2>3 DEF TypeOK, Progress, At
  <2> HIDE DEF at, off
  <2>5. /\ Moves(t, y) /\ y.at = at /\ y.seg = Newest /\ y.pos = th[t].pos /\ y.off = off
        /\ y.op = th[t].op /\ y.todo = th[t].todo /\ y.got = th[t].got
        /\ y.of = th[t].of
    <3>1. Moves(t, y)
        BY <2>1, <2>2, <2>3, <2>4, Placing
    <3>2. /\ y.at = at /\ y.seg = Newest /\ y.pos = th[t].pos /\ y.off = off
          /\ y.op = th[t].op /\ y.todo = th[t].todo /\ y.got = th[t].got
          /\ y.of = th[t].of
        BY <2>2, <2>3 DEF Progress, At
    <3> QED BY <3>1, <3>2
  <2>6. off <= 1 \/ off <= Len(synced[Newest]) \/ Newest \in unsure
      BY <2>1 DEF Disk, Segments, Segment, off
  <2>7. Placed(y)
      BY <1>2, <2>1, <2>2, <2>5, <2>6 DEF Placed, Seated, Creation, Sited
  <2>8. DiskStep(t, y)
      BY <1>1, <2>2, <2>5, <2>7, DiskStaysStep DEF Creation
  <2>9. y.at \notin {"idle", "commit"}
      BY <2>2, <2>5
  <2> QED BY <1>1, <2>5, <2>8, <2>9, WorkDoes
<1> QED BY <1>3, <1>4, <1>5 DEF Select

\* What a step makes of segment s: its row g, its file f, what is durable d.
Written(s, g, f, d) ==
    /\ s \in DOMAIN segs
    /\ segs' = [segs EXCEPT ![s] = g] /\ file' = [file EXCEPT ![s] = f]
    /\ synced' = [synced EXCEPT ![s] = d]
    /\ g \in SegmentRows /\ f \in Seq(Cells) /\ d \in Seq(Cells)
    /\ overwritten \subseteq overwritten' /\ unsure \subseteq unsure' /\ torn \subseteq torn'
    /\ segs[s].named => g.named
    /\ Len(file[s]) <= Len(f) /\ Len(synced[s]) <= Len(d)
    /\ \A i \in 1 .. Len(file[s]) : <<s, i>> \in overwritten' \/ f[i] = file[s][i]
    /\ \A i \in 1 .. Len(synced[s]) : <<s, i>> \in overwritten' \/ d[i] = synced[s][i]

LEMMA WrittenGrows ==
    ASSUME TypeOK, NEW s, NEW g, NEW f, NEW d, Written(s, g, f, d)
    PROVE  /\ DiskTyped' /\ Grows
           /\ segs'[s] = g /\ file'[s] = f /\ synced'[s] = d /\ DOMAIN segs' = DOMAIN segs
           /\ \A q \in DOMAIN segs : q # s =>
                segs'[q] = segs[q] /\ file'[q] = file[q] /\ synced'[q] = synced[q]
<1>1. /\ DiskTyped /\ s \in DOMAIN segs /\ DOMAIN file = DOMAIN segs /\ DOMAIN synced = DOMAIN segs
      /\ \A q \in DOMAIN segs : Len(file[q]) \in Nat /\ Len(synced[q]) \in Nat
    BY DiskTypes DEF Written
<1>2. /\ segs' \in Seq(SegmentRows) /\ Len(segs') = Len(segs)
      /\ segs'[s] = g /\ \A q \in DOMAIN segs : q # s => segs'[q] = segs[q]
    BY <1>1, ExceptSeq DEF Written, DiskTyped
<1>3. /\ file' \in Seq(Seq(Cells)) /\ Len(file') = Len(file)
      /\ file'[s] = f /\ \A q \in DOMAIN segs : q # s => file'[q] = file[q]
    BY <1>1, ExceptSeq DEF Written, DiskTyped
<1>4. /\ synced' \in Seq(Seq(Cells)) /\ Len(synced') = Len(synced)
      /\ synced'[s] = d /\ \A q \in DOMAIN segs : q # s => synced'[q] = synced[q]
    BY <1>1, ExceptSeq DEF Written, DiskTyped
<1>5. DiskTyped'
    BY <1>1, <1>2, <1>3, <1>4 DEF DiskTyped
<1>6. DOMAIN segs' = DOMAIN segs /\ DOMAIN file' = DOMAIN segs /\ DOMAIN synced' = DOMAIN segs
    BY <1>1 DEF Written
<1>7. Extends(file, file')
  <2> SUFFICES ASSUME NEW q \in DOMAIN segs
               PROVE  /\ Len(file[q]) <= Len(file'[q])
                      /\ \A i \in 1 .. Len(file[q]) :
                           <<q, i>> \in overwritten' \/ file'[q][i] = file[q][i]
      BY <1>1, <1>6 DEF Extends
  <2>1. CASE q = s
      BY <1>3, <2>1 DEF Written
  <2>2. CASE q # s
      BY <1>1, <1>3, <2>2
  <2> QED BY <2>1, <2>2
<1>8. Extends(synced, synced')
  <2> SUFFICES ASSUME NEW q \in DOMAIN segs
               PROVE  /\ Len(synced[q]) <= Len(synced'[q])
                      /\ \A i \in 1 .. Len(synced[q]) :
                           <<q, i>> \in overwritten' \/ synced'[q][i] = synced[q][i]
      BY <1>1, <1>6 DEF Extends
  <2>1. CASE q = s
      BY <1>4, <2>1 DEF Written
  <2>2. CASE q # s
      BY <1>1, <1>4, <2>2
  <2> QED BY <2>1, <2>2
<1>9. Grows
    BY <1>2, <1>6, <1>7, <1>8 DEF Grows, Remains, Written
<1> QED BY <1>2, <1>3, <1>4, <1>5, <1>6, <1>9

LEMMA GotKept ==
    ASSUME TypeOK, Disk, DiskTyped', Remains, NEW t \in Threads, NEW y,
           \/ y.got = <<>> \/ y.got = th[t].got
           \/ \E l \in Details : y.got = Append(th[t].got, l) /\ Kept(l)'
    PROVE  \A i \in DOMAIN y.got : Kept(y.got[i])'
<1>1. th[t].got \in Seq(Details) /\ Placed(th[t])
    BY ThreadTyped DEF Disk, Sites
<1>2. \A m \in Details : Kept(m) => Kept(m)'
    BY KeptRemains
<1>3. ASSUME NEW i \in DOMAIN th[t].got, NEW m, m = th[t].got[i] PROVE Kept(m)'
  <2>1. m \in Details /\ Kept(m)
      BY <1>1, <1>3, ElementOfSeq, LenProperties DEF Placed
  <2> QED BY <1>2, <2>1
<1>4. SUFFICES ASSUME NEW i \in DOMAIN y.got, NEW m, m = y.got[i] PROVE Kept(m)'
    OBVIOUS
<1>5. CASE y.got = <<>> \/ y.got = th[t].got
    BY <1>3, <1>4, <1>5
<1>6. ASSUME NEW l \in Details, y.got = Append(th[t].got, l), Kept(l)' PROVE Kept(m)'
  <2>1. (i \in DOMAIN th[t].got /\ m = th[t].got[i]) \/ m = l
      BY <1>1, <1>4, <1>6, AppendProperties
  <2> QED BY <1>3, <1>6, <2>1
<1> QED BY <1>5, <1>6

LEMMA WrittenStep ==
    ASSUME TypeOK, Duties, Disk, NEW t \in Threads, NEW y, Moves(t, y),
           NEW s, NEW g, NEW f, NEW d, Written(s, g, f, d),
           th[t].at \in Creation => th[t].seg = s,
           y.at \in Creation => th[t].at \in Creation /\ y.seg = s,
           f = file[s] \/ \A u \in Threads : u # t /\ th[u].at \in {"name", "header"} => th[u].seg # s,
           Len(d) <= Len(f), \A i \in 1 .. Len(d) : <<s, i>> \in overwritten' \/ f[i] = d[i],
           s \notin unsure' => g.size <= 1 \/ g.size <= Len(d),
           s \in torn' \/ (y.at \in Creation /\ y.seg = s) \/ (g.named /\ Len(d) >= 1)
             \/ (th[t].at \notin Creation /\ Creating(s)),
           Seated(y)',
           \/ y.got = <<>> \/ y.got = th[t].got
           \/ \E l \in Details : y.got = Append(th[t].got, l) /\ Kept(l)'
    PROVE  DiskStep(t, y)
<1>1. /\ DiskTyped' /\ Grows /\ s \in DOMAIN segs
      /\ segs'[s] = g /\ file'[s] = f /\ synced'[s] = d /\ DOMAIN segs' = DOMAIN segs
      /\ \A q \in DOMAIN segs : q # s =>
           segs'[q] = segs[q] /\ file'[q] = file[q] /\ synced'[q] = synced[q]
  <2>1. s \in DOMAIN segs
      BY DEF Written
  <2>2. DiskTyped' /\ Grows
      BY WrittenGrows, Zenon
  <2>3. segs'[s] = g /\ file'[s] = f /\ synced'[s] = d /\ DOMAIN segs' = DOMAIN segs
    <3>1. DOMAIN file = DOMAIN segs /\ DOMAIN synced = DOMAIN segs
        BY DiskTypes
    <3> QED BY <2>1, <3>1 DEF Written
  <2>4. \A q \in DOMAIN segs : q # s =>
           segs'[q] = segs[q] /\ file'[q] = file[q] /\ synced'[q] = synced[q]
      BY WrittenGrows, Zenon
  <2> QED BY <2>1, <2>2, <2>3, <2>4
<1>2. Placed(y)'
  <2>1. \A i \in DOMAIN y.got : Kept(y.got[i])'
      BY <1>1, GotKept DEF Grows
  <2> QED BY <2>1 DEF Placed
<1>3. ASSUME NEW q \in DOMAIN segs, q # s PROVE Segment(q)'
  <2>1. Creating(q) => Creating(q)'
      BY <1>3, CreatingMoves
  <2> QED BY <1>1, <1>3, <2>1, SegmentUntouched DEF Disk, Segments, Grows
<1>4. Segment(s)'
  <2>1. th'[t] = y
      BY MovesTyped
  <2>2. y.at \in Creation /\ y.seg = s => Creating(s)'
      BY <2>1 DEF Creating
  <2>3. th[t].at \notin Creation /\ Creating(s) => Creating(s)'
      BY CreatingMoves
  <2>4. \/ s \in torn'
        \/ Creating(s)'
        \/ g.named /\ Len(d) >= 1
      BY <2>2, <2>3
  <2> QED BY <1>1, <2>4 DEF Segment
<1>5. Segments'
    BY <1>1, <1>3, <1>4 DEF Segments
<1>6. \A u \in Threads : u # t /\ th[u].at \in {"name", "header"} =>
         file'[th[u].seg] = file[th[u].seg]
  <2> SUFFICES ASSUME NEW u \in Threads, u # t, th[u].at \in {"name", "header"}
               PROVE  file'[th[u].seg] = file[th[u].seg]
      OBVIOUS
  <2>1. Placed(th[u])
      BY DEF Disk, Sites
  <2>2. th[u].seg \in DOMAIN segs
      BY <2>1 DEF Placed, Seated, Creation
  <2> QED BY <1>1, <2>2
<1>7. y.at \in Creation => th[t].at \in Creation /\ y.seg = th[t].seg
    OBVIOUS
<1> QED BY <1>1, <1>2, <1>5, <1>6, <1>7 DEF DiskStep

LEMMA SegsWritten ==
    ASSUME TypeOK, NEW s \in DOMAIN segs, NEW g \in SegmentRows, segs' = [segs EXCEPT ![s] = g],
           file' = file, synced' = synced, overwritten' = overwritten,
           unsure \subseteq unsure', torn' = torn, segs[s].named => g.named
    PROVE  Written(s, g, file[s], synced[s])
<1>1. /\ file[s] \in Seq(Cells) /\ synced[s] \in Seq(Cells)
      /\ Len(file[s]) \in Nat /\ Len(synced[s]) \in Nat
    BY DiskTypes
<1>2. file' = [file EXCEPT ![s] = file[s]] /\ synced' = [synced EXCEPT ![s] = synced[s]]
    BY DEF TypeOK
<1>3. Len(file[s]) <= Len(file[s]) /\ Len(synced[s]) <= Len(synced[s])
    BY <1>1
<1>4. overwritten \subseteq overwritten' /\ torn \subseteq torn'
    OBVIOUS
<1> QED BY <1>1, <1>2, <1>3, <1>4, Zenon DEF Written

LEMMA FileWritten ==
    ASSUME TypeOK, NEW s \in DOMAIN segs, NEW f \in Seq(Cells), segs' = segs,
           file' = [file EXCEPT ![s] = f], synced' = synced, overwritten \subseteq overwritten',
           unsure' = unsure, torn' = torn, Len(file[s]) <= Len(f),
           \A i \in 1 .. Len(file[s]) : <<s, i>> \in overwritten' \/ f[i] = file[s][i]
    PROVE  Written(s, segs[s], f, synced[s])
<1>1. /\ segs[s] \in SegmentRows /\ synced[s] \in Seq(Cells) /\ Len(synced[s]) \in Nat
    BY DiskTypes
<1>2. segs' = [segs EXCEPT ![s] = segs[s]] /\ synced' = [synced EXCEPT ![s] = synced[s]]
    BY DEF TypeOK
<1>3. Len(synced[s]) <= Len(synced[s])
    BY <1>1
<1>4. unsure \subseteq unsure' /\ torn \subseteq torn'
    OBVIOUS
<1> QED BY <1>1, <1>2, <1>3, <1>4, Zenon DEF Written

LEMMA SyncWritten ==
    ASSUME TypeOK, Disk, NEW s \in DOMAIN segs, segs' = segs, file' = file,
           synced' = [synced EXCEPT ![s] = file[s]], overwritten' = overwritten,
           unsure' = unsure, torn' = torn
    PROVE  Written(s, segs[s], file[s], file[s])
<1>1. /\ segs[s] \in SegmentRows /\ file[s] \in Seq(Cells) /\ Len(file[s]) \in Nat
    BY DiskTypes
<1>2. segs' = [segs EXCEPT ![s] = segs[s]] /\ file' = [file EXCEPT ![s] = file[s]]
    BY DEF TypeOK
<1>3. /\ Len(synced[s]) <= Len(file[s])
      /\ \A i \in 1 .. Len(synced[s]) : <<s, i>> \in overwritten \/ file[s][i] = synced[s][i]
    BY DEF Disk, Segments, Segment
<1>4. /\ Len(file[s]) <= Len(file[s])
      /\ overwritten \subseteq overwritten' /\ unsure \subseteq unsure' /\ torn \subseteq torn'
    BY <1>1
<1>5. \A i \in 1 .. Len(synced[s]) : <<s, i>> \in overwritten' \/ file[s][i] = synced[s][i]
    BY <1>3
<1> QED BY <1>1, <1>2, <1>3, <1>4, <1>5, Zenon DEF Written

LEMMA CloseDoes ==
    ASSUME TypeOK, Duties, Legacy, Disk, NEW t \in Threads, Close(t), load' = load
    PROVE  Does(t)
<1> DEFINE s == th[t].seg
           g == [segs[s] EXCEPT !.closed = TRUE]
<1>1. /\ th[t].at = "close" /\ row' = row /\ rollup' = rollup /\ pruned' = pruned
      /\ file' = file /\ synced' = synced /\ overwritten' = overwritten
      /\ unsure' = unsure /\ torn' = torn /\ Goto(t, "create")
      /\ {"create", "close"} \cap (Creation \cup Sited \cup {"idle", "commit"}) = {}
    BY DEF Close, history, Creation, Sited
<1>2. Placed(th[t]) /\ s \in DOMAIN segs
    BY <1>1 DEF Disk, Sites, Placed, Seated
<1>3. /\ Len(synced[s]) <= Len(file[s])
      /\ \A i \in 1 .. Len(synced[s]) : <<s, i>> \in overwritten \/ file[s][i] = synced[s][i]
      /\ s \notin unsure => segs[s].size <= 1 \/ segs[s].size <= Len(synced[s])
      /\ s \in torn \/ Creating(s) \/ (segs[s].named /\ Len(synced[s]) >= 1)
    BY <1>2 DEF Disk, Segments, Segment
<1>4. segs[s] \in SegmentRows
    BY <1>2, DiskTypes
<1>5. /\ g \in SegmentRows /\ g.named = segs[s].named /\ g.size = segs[s].size
      /\ segs' = [segs EXCEPT ![s] = g]
    BY <1>2, <1>4 DEF SegmentRows, Close
<1> HIDE DEF g
<1>6. Written(s, g, file[s], synced[s])
    BY <1>1, <1>2, <1>5, SegsWritten
<1>7. PICK y : /\ Moves(t, y) /\ y.at = "create"
               /\ y.op = th[t].op /\ y.todo = th[t].todo /\ y.got = th[t].got
               /\ y.seg = th[t].seg /\ y.pos = th[t].pos /\ y.off = th[t].off
               /\ y.of = th[t].of
    BY <1>1, GotoMoves DEF Steps
<1>8. Seated(y)'
    BY <1>1, <1>7 DEF Seated, Creation, Sited
<1>9. DiskStep(t, y)
    BY <1>1, <1>3, <1>5, <1>6, <1>7, <1>8, WrittenStep
<1> QED BY <1>1, <1>7, <1>9, WorkDoes

LEMMA NameDoes ==
    ASSUME TypeOK, Duties, Legacy, Disk, NEW t \in Threads, Name(t), load' = load
    PROVE  Does(t)
<1> DEFINE s == th[t].seg
           g == [segs[s] EXCEPT !.named = TRUE, !.size = 1]
<1>1. /\ th[t].at = "name" /\ row' = row /\ rollup' = rollup /\ pruned' = pruned
      /\ file' = file /\ synced' = synced /\ overwritten' = overwritten
      /\ unsure' = unsure /\ torn' = torn /\ Goto(t, "header")
      /\ {"name", "header"} \subseteq Creation
      /\ {"name", "header"} \cap (Sited \cup {"idle", "commit", "seek", "headersync"}) = {}
    BY DEF Name, history, Creation, Sited
<1>2. s \in DOMAIN segs /\ file[s] = <<>>
    BY <1>1 DEF Disk, Sites, Placed, Seated
<1>3. /\ Len(synced[s]) <= Len(file[s])
      /\ \A i \in 1 .. Len(synced[s]) : <<s, i>> \in overwritten \/ file[s][i] = synced[s][i]
    BY <1>2 DEF Disk, Segments, Segment
<1>4. segs[s] \in SegmentRows
    BY <1>2, DiskTypes
<1>5. /\ g \in SegmentRows /\ g.named /\ g.size = 1 /\ segs' = [segs EXCEPT ![s] = g]
    BY <1>2, <1>4 DEF SegmentRows, Name
<1> HIDE DEF g
<1>6. Written(s, g, file[s], synced[s])
    BY <1>1, <1>2, <1>5, SegsWritten
<1>7. PICK y : /\ Moves(t, y) /\ y.at = "header"
               /\ y.op = th[t].op /\ y.todo = th[t].todo /\ y.got = th[t].got
               /\ y.seg = th[t].seg /\ y.pos = th[t].pos /\ y.off = th[t].off
               /\ y.of = th[t].of
    BY <1>1, GotoMoves DEF Steps, Creation
<1>8. segs'[s] = g /\ DOMAIN segs' = DOMAIN segs
    BY <1>2, <1>5
<1>9. Seated(y)'
    BY <1>1, <1>2, <1>5, <1>7, <1>8 DEF Seated
<1>10. DiskStep(t, y)
    BY <1>1, <1>3, <1>5, <1>6, <1>7, <1>9, WrittenStep
<1> QED BY <1>1, <1>7, <1>10, WorkDoes

LEMMA WriteHeaderDoes ==
    ASSUME TypeOK, Duties, Legacy, Disk, NEW t \in Threads, WriteHeader(t), load' = load
    PROVE  Does(t)
<1> DEFINE s == th[t].seg
           f == <<FileHeader>>
<1>1. /\ th[t].at = "header" /\ row' = row /\ rollup' = rollup /\ pruned' = pruned
      /\ segs' = segs /\ synced' = synced /\ overwritten' = overwritten
      /\ unsure' = unsure /\ torn' = torn /\ Goto(t, "headersync")
      /\ {"header", "headersync"} \subseteq Creation
      /\ {"header", "headersync"} \cap (Sited \cup {"idle", "commit", "seek"}) = {}
    BY DEF WriteHeader, history, Creation, Sited
<1>2. s \in DOMAIN segs /\ file[s] = <<>> /\ segs[s].named
    BY <1>1 DEF Disk, Sites, Placed, Seated
<1>3. /\ Len(synced[s]) <= Len(file[s])
      /\ s \notin unsure => segs[s].size <= 1 \/ segs[s].size <= Len(synced[s])
      /\ Len(synced[s]) \in Nat
    BY <1>2, DiskTypes DEF Disk, Segments, Segment
<1>4. f \in Seq(Cells) /\ Len(f) = 1
    BY DEF FileHeader, Cells
<1>5. file' = [file EXCEPT ![s] = f]
    BY DEF WriteHeader
<1> HIDE DEF f
<1>6. Len(file[s]) = 0 /\ Len(synced[s]) = 0
    BY <1>2, <1>3
<1>7. Written(s, segs[s], f, synced[s])
  <2>1. /\ Len(file[s]) <= Len(f)
        /\ \A i \in 1 .. Len(file[s]) : <<s, i>> \in overwritten' \/ f[i] = file[s][i]
      BY <1>4, <1>6
  <2>2. overwritten \subseteq overwritten'
      BY <1>1
  <2> QED BY <1>1, <1>2, <1>4, <1>5, <2>1, <2>2, FileWritten
<1>8. PICK y : /\ Moves(t, y) /\ y.at = "headersync"
               /\ y.op = th[t].op /\ y.todo = th[t].todo /\ y.got = th[t].got
               /\ y.seg = th[t].seg /\ y.pos = th[t].pos /\ y.off = th[t].off
               /\ y.of = th[t].of
    BY <1>1, GotoMoves DEF Steps, Creation
<1>9. Len(file'[s]) >= 1
  <2>1. file'[s] = f
      BY <1>2, <1>5, DiskTypes
  <2> QED BY <1>4, <2>1
<1>10. Seated(y)'
    BY <1>1, <1>2, <1>4, <1>8, <1>9 DEF Seated
<1>11. \A u \in Threads : u # t /\ th[u].at \in {"name", "header"} => th[u].seg # s
    BY <1>1 DEF Disk, Creators, Creation
<1>12. Len(synced[s]) <= Len(f) /\ \A i \in 1 .. Len(synced[s]) :
          <<s, i>> \in overwritten' \/ f[i] = synced[s][i]
    BY <1>4, <1>6
<1>13. DiskStep(t, y)
    BY <1>1, <1>3, <1>7, <1>8, <1>10, <1>11, <1>12, WrittenStep
<1> QED BY <1>1, <1>8, <1>13, WorkDoes

LEMMA SyncHeaderDoes ==
    ASSUME TypeOK, Duties, Legacy, Disk, NEW t \in Threads, SyncHeader(t), load' = load
    PROVE  Does(t)
<1> DEFINE s == th[t].seg
<1>1. /\ th[t].at = "headersync" /\ row' = row /\ rollup' = rollup /\ pruned' = pruned
      /\ segs' = segs /\ file' = file /\ overwritten' = overwritten
      /\ unsure' = unsure /\ torn' = torn /\ synced' = [synced EXCEPT ![s] = file[s]]
      /\ "headersync" \in Creation /\ "write" \in Sited \cap Steps
      /\ {"write"} \cap (Creation \cup {"idle", "commit", "seek", "close", "sync", "size", "retire"}) = {}
      /\ "headersync" \notin {"idle", "commit"}
    BY DEF SyncHeader, history, Creation, Sited, Steps
<1>2. s \in DOMAIN segs /\ Len(file[s]) >= 1 /\ segs[s].named /\ s \in Nat
    BY <1>1, DiskTypes DEF Disk, Sites, Placed, Seated
<1>3. /\ Len(synced[s]) <= Len(file[s])
      /\ s \notin unsure => segs[s].size <= 1 \/ segs[s].size <= Len(synced[s])
      /\ Len(synced[s]) \in Nat /\ Len(file[s]) \in Nat /\ segs[s].size \in Nat
    BY <1>2, DiskTypes DEF Disk, Segments, Segment
<1>4. s \notin unsure => segs[s].size <= 1 \/ segs[s].size <= Len(file[s])
    BY <1>3
<1>5. Written(s, segs[s], file[s], file[s])
    BY <1>1, <1>2, SyncWritten
<1>6. PICK y : y = At(th[t], s, 1, 1, "write")
    OBVIOUS
<1>7. th[t] \in Progress /\ th' = [th EXCEPT ![t] = y]
    BY <1>6, ThreadTyped DEF SyncHeader, At, Progress, TypeOK
<1>8. Moves(t, y)
    BY <1>1, <1>2, <1>6, <1>7, Placing
<1>9. /\ y.at = "write" /\ y.seg = s /\ y.pos = 1 /\ y.off = 1
      /\ y.op = th[t].op /\ y.todo = th[t].todo /\ y.got = th[t].got
      /\ y.of = th[t].of
    BY <1>6, <1>7 DEF Progress, At
<1>10. Seated(y)'
    BY <1>1, <1>2, <1>9 DEF Seated
<1>11. Len(file[s]) <= Len(file[s])
    BY <1>3
<1>12. DiskStep(t, y)
    BY <1>1, <1>2, <1>4, <1>5, <1>8, <1>9, <1>10, <1>11, WrittenStep
<1> QED BY <1>1, <1>8, <1>9, <1>12, WorkDoes

LEMMA SeekDoes ==
    ASSUME TypeOK, Duties, Legacy, Disk, NEW t \in Threads, Seek(t), load' = load
    PROVE  Does(t)
<1> DEFINE s == th[t].seg
           len == Len(file[s])
           off == IF len > th[t].off THEN len ELSE th[t].off
           at == IF off = th[t].off THEN "write" ELSE "repair"
<1>1. /\ th[t].at = "seek" /\ row' = row /\ rollup' = rollup /\ pruned' = pruned /\ DiskStays
      /\ {"seek", "write", "repair"} \cap (Creation \cup {"idle", "commit", "close"}) = {}
      /\ {"write", "repair"} \subseteq Sited \cap Steps
    BY DEF Seek, DiskStays, history, Creation, Sited, Steps
<1>2. Placed(th[t])
    BY DEF Disk, Sites
<1>3. /\ s \in DOMAIN segs /\ s \in Nat /\ len \in Nat /\ th[t].off \in Nat /\ off \in Nat
      /\ Len(synced[s]) \in Nat
      /\ s \notin unsure => th[t].off <= 1 \/ th[t].off <= Len(synced[s])
    BY <1>1, <1>2, DiskTypes, ThreadTyped DEF Placed, Seated
<1>4. Len(synced[s]) <= len
    BY <1>3 DEF Disk, Segments, Segment
<1>5. CASE len < 1
  <2>1. Return(t, FALSE)
      BY <1>5 DEF Seek
  <2> QED BY <1>1, <2>1, ReturnDoes
<1>6. CASE ~(len < 1)
  <2>1. PICK y : y = At(th[t], s, len, off, at)
      OBVIOUS
  <2>2. th[t] \in Progress /\ th' = [th EXCEPT ![t] = y]
    <3>1. th' = [th EXCEPT ![t].pos = len, ![t].off = off, ![t].at = at]
        BY <1>6, Zenon DEF Seek
    <3>2. th[t] \in Progress
        BY ThreadTyped
    <3> HIDE DEF at, off
    <3> QED BY <2>1, <3>1, <3>2 DEF At, Progress, TypeOK
  <2>3. s \notin unsure => len = off
      BY <1>3, <1>4, <1>6
  <2>4. at \in {"write", "repair"} /\ at \in Steps
      BY <1>1
  <2> HIDE DEF at, off
  <2>5. Moves(t, y)
      BY <1>3, <2>1, <2>2, <2>4, Placing
  <2>6. /\ y.at = at /\ y.seg = s /\ y.pos = len /\ y.off = off
        /\ y.op = th[t].op /\ y.todo = th[t].todo /\ y.got = th[t].got
        /\ y.of = th[t].of
      BY <2>1, <2>2 DEF Progress, At
  <2>7. y.pos <= len /\ len >= 1
      BY <1>3, <1>6, <2>6
  <2>8. Placed(y)
      BY <1>1, <1>2, <1>3, <2>3, <2>4, <2>6, <2>7 DEF Placed, Seated
  <2>9. DiskStep(t, y)
      BY <1>1, <2>4, <2>5, <2>6, <2>8, DiskStaysStep
  <2> QED BY <1>1, <2>4, <2>5, <2>6, <2>9, WorkDoes
<1> QED BY <1>5, <1>6

LEMMA RepairDoes ==
    ASSUME TypeOK, Duties, Legacy, Disk, NEW t \in Threads, Repair(t), load' = load
    PROVE  Does(t)
<1> DEFINE s == th[t].seg
           g == [segs[s] EXCEPT !.size = th[t].off]
<1>1. /\ th[t].at = "repair" /\ row' = row /\ rollup' = rollup /\ pruned' = pruned
      /\ file' = file /\ synced' = synced /\ overwritten' = overwritten /\ torn' = torn
      /\ unsure' = unsure \cup {q \in {s} : Len(synced[q]) < th[t].off} /\ Goto(t, "write")
      /\ {"repair", "write"} \subseteq Sited /\ "write" \in Steps
      /\ {"repair", "write"} \cap (Creation \cup {"idle", "commit", "seek", "sync", "size", "retire"}) = {}
    BY DEF Repair, history, Creation, Sited, Steps
<1>2. /\ s \in DOMAIN segs /\ Len(file[s]) >= 1 /\ th[t].pos <= Len(file[s])
      /\ s \notin unsure => th[t].pos = th[t].off
    BY <1>1 DEF Disk, Sites, Placed, Seated
<1>3. /\ Len(synced[s]) <= Len(file[s])
      /\ \A i \in 1 .. Len(synced[s]) : <<s, i>> \in overwritten \/ file[s][i] = synced[s][i]
      /\ s \in torn \/ Creating(s) \/ (segs[s].named /\ Len(synced[s]) >= 1)
    BY <1>2 DEF Disk, Segments, Segment
<1>4. segs[s] \in SegmentRows /\ th[t].off \in Nat /\ Len(synced[s]) \in Nat
    BY <1>2, DiskTypes, ThreadTyped
<1>5. /\ g \in SegmentRows /\ g.named = segs[s].named /\ g.size = th[t].off
      /\ segs' = [segs EXCEPT ![s] = g]
    BY <1>2, <1>4 DEF SegmentRows, Repair
<1> HIDE DEF g
<1>6. unsure \subseteq unsure' /\ (s \notin unsure' => th[t].off <= Len(synced[s]))
    BY <1>1, <1>4
<1>7. Written(s, g, file[s], synced[s])
    BY <1>1, <1>2, <1>5, <1>6, SegsWritten
<1>8. PICK y : /\ Moves(t, y) /\ y.at = "write"
               /\ y.op = th[t].op /\ y.todo = th[t].todo /\ y.got = th[t].got
               /\ y.seg = th[t].seg /\ y.pos = th[t].pos /\ y.off = th[t].off
               /\ y.of = th[t].of
    BY <1>1, GotoMoves
<1>9. DOMAIN segs' = DOMAIN segs
    BY <1>5
<1>10. Seated(y)'
    BY <1>1, <1>2, <1>6, <1>8, <1>9 DEF Seated
<1>11. DiskStep(t, y)
    BY <1>1, <1>3, <1>5, <1>6, <1>7, <1>8, <1>10, WrittenStep
<1> QED BY <1>1, <1>8, <1>11, WorkDoes

\* g is the file f after the first n cells of the record of b were written
\* behind pos.
Overlaid(g, f, pos, b, n) ==
    /\ g \in Seq(Cells) /\ Len(f) <= Len(g) /\ pos + n <= Len(g)
    /\ \A i \in 1 .. Len(f) : (i > pos /\ i <= pos + n) \/ g[i] = f[i]
    /\ \A i \in 1 .. n : g[pos + i] = <<b, i>>

LEMMA OverlayWrites ==
    ASSUME NEW f \in Seq(Cells), NEW pos \in Nat, pos <= Len(f), NEW b \in Bodies,
           NEW n \in 0 .. Length(b), NEW rec, rec \in Seq(Cells), Len(rec) = n,
           \A i \in 1 .. n : rec[i] = <<b, i>>
    PROVE  Overlaid(Overlay(f, pos, rec), f, pos, b, n)
<1> DEFINE end == pos + n
           last == IF end > Len(f) THEN end ELSE Len(f)
           g == [i \in 1 .. last |-> IF i > pos /\ i <= end THEN rec[i - pos] ELSE f[i]]
<1>1. Length(b) \in Nat /\ n \in Nat /\ Len(f) \in Nat /\ end \in Nat /\ last \in Nat
    BY LengthAssumption, LenProperties
<1>2. Overlay(f, pos, rec) = g
    BY DEF Overlay
<1>3. /\ Len(f) <= last /\ end <= last
      /\ \A i \in 1 .. last : i > pos /\ i <= end => i - pos \in 1 .. n
      /\ \A i \in 1 .. last : ~(i > pos /\ i <= end) => i \in 1 .. Len(f)
    BY <1>1
<1>4. \A i \in 1 .. n : pos + i \in 1 .. last /\ pos + i > pos /\ pos + i <= end
                        /\ (pos + i) - pos = i
    BY <1>1
<1> HIDE DEF last
<1>5. \A i \in 1 .. last : g[i] \in Cells
  <2> SUFFICES ASSUME NEW i \in 1 .. last PROVE g[i] \in Cells
      OBVIOUS
  <2>1. CASE i > pos /\ i <= end
    <3>1. i - pos \in 1 .. n /\ rec[i - pos] \in Cells
        BY <1>3, <2>1, ElementOfSeq
    <3> QED BY <2>1, <3>1
  <2>2. CASE ~(i > pos /\ i <= end)
    <3>1. i \in 1 .. Len(f) /\ f[i] \in Cells
        BY <1>3, <2>2, ElementOfSeq
    <3> QED BY <2>2, <3>1
  <2> QED BY <2>1, <2>2
<1>6. g \in Seq(Cells) /\ Len(g) = last
  <2>1. g \in [1 .. last -> Cells]
      BY <1>5
  <2> HIDE DEF g
  <2> QED BY <1>1, <2>1, SeqDef, LenProperties
<1>7. \A i \in 1 .. Len(f) : (i > pos /\ i <= end) \/ g[i] = f[i]
    BY <1>1, <1>3
<1>8. \A i \in 1 .. n : g[pos + i] = <<b, i>>
  <2> SUFFICES ASSUME NEW i \in 1 .. n PROVE g[pos + i] = <<b, i>>
      OBVIOUS
  <2>1. g[pos + i] = rec[(pos + i) - pos]
      BY <1>4
  <2> HIDE DEF g
  <2> QED BY <1>4, <2>1
<1> HIDE DEF g
<1> QED BY <1>2, <1>3, <1>6, <1>7, <1>8 DEF Overlaid

LEMMA RecordTyped ==
    ASSUME NEW b \in Bodies
    PROVE  /\ Record(b) \in Seq(Cells) /\ Len(Record(b)) = Length(b)
           /\ \A i \in 1 .. Length(b) : Record(b)[i] = <<b, i>>
<1>1. Length(b) \in Nat
    BY LengthAssumption
<1>2. Record(b) \in [1 .. Length(b) -> Cells] /\ \A i \in 1 .. Length(b) : Record(b)[i] = <<b, i>>
    BY DEF Record, Cells
<1> QED BY <1>1, <1>2, SeqDef, LenProperties

LEMMA PutWritten ==
    ASSUME TypeOK, Duties, Disk, NEW t \in Threads, th[t].at = "write",
           NEW n \in 0 .. Length(Head(th[t].todo)), NEW rec, rec \in Seq(Cells), Len(rec) = n,
           \A i \in 1 .. n : rec[i] = <<Head(th[t].todo), i>>,
           Put(t, rec), segs' = segs, synced' = synced, unsure' = unsure, torn' = torn
    PROVE  \E f : /\ Written(th[t].seg, segs[th[t].seg], f, synced[th[t].seg])
                  /\ Len(synced[th[t].seg]) <= Len(f)
                  /\ \A i \in 1 .. Len(synced[th[t].seg]) :
                        <<th[t].seg, i>> \in overwritten' \/ f[i] = synced[th[t].seg][i]
                  /\ \A u \in Threads : th[u].at \in {"name", "header"} => th[u].seg # th[t].seg
                  /\ Len(f) >= 1 /\ th[t].pos + n <= Len(f)
                  /\ \A i \in 1 .. n : f[th[t].pos + i] = <<Head(th[t].todo), i>>
<1> DEFINE s == th[t].seg
           pos == th[t].pos
           b == Head(th[t].todo)
           f == Overlay(file[s], pos, rec)
<1>1. b \in Bodies
    BY HeadTyped
<1>2. s \in DOMAIN segs /\ pos <= Len(file[s]) /\ Len(file[s]) >= 1
    BY DEF Disk, Sites, Placed, Seated, Sited
<1>3. pos \in Nat /\ file[s] \in Seq(Cells) /\ Len(file[s]) \in Nat
    BY <1>2, ThreadTyped, DiskTypes
<1>4. /\ f \in Seq(Cells) /\ Len(file[s]) <= Len(f) /\ pos + n <= Len(f)
      /\ \A i \in 1 .. Len(file[s]) : (i > pos /\ i <= pos + n) \/ f[i] = file[s][i]
      /\ \A i \in 1 .. n : f[pos + i] = <<b, i>>
  <2>1. Overlaid(f, file[s], pos, b, n)
      BY <1>1, <1>2, <1>3, OverlayWrites
  <2> QED BY <2>1 DEF Overlaid
<1>5. file' = [file EXCEPT ![s] = f]
    BY DEF Put
<1>6. overwritten' = overwritten \cup
          {<<s, i>> : i \in {j \in 1 .. Len(file[s]) : j > pos /\ j <= pos + Len(rec)}}
    BY DEF Put
<1> HIDE DEF f
<1>7. overwritten \subseteq overwritten'
      /\ \A i \in 1 .. Len(file[s]) : <<s, i>> \in overwritten' \/ f[i] = file[s][i]
    BY <1>4, <1>6
<1>8. Written(s, segs[s], f, synced[s])
    BY <1>2, <1>4, <1>5, <1>7, FileWritten
<1>9. /\ Len(synced[s]) <= Len(file[s]) /\ Len(synced[s]) \in Nat /\ Len(f) \in Nat
      /\ \A i \in 1 .. Len(synced[s]) : <<s, i>> \in overwritten \/ file[s][i] = synced[s][i]
    BY <1>2, <1>4, DiskTypes, LenProperties DEF Disk, Segments, Segment
<1>10. /\ Len(synced[s]) <= Len(f) /\ Len(f) >= 1
       /\ \A i \in 1 .. Len(synced[s]) : <<s, i>> \in overwritten' \/ f[i] = synced[s][i]
  <2>1. \A i \in 1 .. Len(synced[s]) : i \in 1 .. Len(file[s])
      BY <1>3, <1>9
  <2>2. Len(synced[s]) <= Len(f) /\ Len(f) >= 1
      BY <1>2, <1>3, <1>4, <1>9
  <2>3. ASSUME NEW i \in 1 .. Len(synced[s])
        PROVE  <<s, i>> \in overwritten' \/ f[i] = synced[s][i]
    <3>1. <<s, i>> \in overwritten \/ file[s][i] = synced[s][i]
        BY <1>9
    <3>2. <<s, i>> \in overwritten' \/ f[i] = file[s][i]
        BY <1>7, <2>1
    <3> QED BY <1>7, <3>1, <3>2
  <2> QED BY <2>2, <2>3
<1>11. \A u \in Threads : th[u].at \in {"name", "header"} => th[u].seg # s
  <2> SUFFICES ASSUME NEW u \in Threads, th[u].at \in {"name", "header"}, th[u].seg = s
               PROVE  FALSE
      OBVIOUS
  <2>1. file[s] = <<>>
      BY DEF Disk, Sites, Placed, Seated
  <2> QED BY <1>2, <2>1
<1> QED BY <1>4, <1>8, <1>10, <1>11

LEMMA WriteDoes ==
    ASSUME TypeOK, Duties, Legacy, Disk, NEW t \in Threads, Write(t), load' = load
    PROVE  Does(t)
<1> DEFINE s == th[t].seg
           b == Head(th[t].todo)
<1>1. /\ th[t].at = "write" /\ row' = row /\ rollup' = rollup /\ pruned' = pruned
      /\ segs' = segs /\ synced' = synced /\ unsure' = unsure /\ torn' = torn
      /\ Put(t, Fragment(t)) /\ Goto(t, "sync")
      /\ {"sync", "write"} \subseteq Sited \cap Steps
      /\ {"sync", "write"} \cap (Creation \cup {"idle", "commit", "seek", "size", "retire"}) = {}
    BY DEF Write, history, Creation, Sited, Steps
<1>2. b \in Bodies /\ Length(b) \in Nat
    BY <1>1, HeadTyped, LengthAssumption
<1>3. /\ Fragment(t) \in Seq(Cells) /\ Len(Fragment(t)) = Length(b)
      /\ \A i \in 1 .. Length(b) : Fragment(t)[i] = <<b, i>>
    BY <1>2, RecordTyped DEF Fragment
<1>4. Length(b) \in 0 .. Length(b)
    BY <1>2
<1>5. PICK f : /\ Written(s, segs[s], f, synced[s])
               /\ Len(synced[s]) <= Len(f)
               /\ \A i \in 1 .. Len(synced[s]) : <<s, i>> \in overwritten' \/ f[i] = synced[s][i]
               /\ \A u \in Threads : th[u].at \in {"name", "header"} => th[u].seg # s
               /\ Len(f) >= 1 /\ th[t].pos + Length(b) <= Len(f)
               /\ \A i \in 1 .. Length(b) : f[th[t].pos + i] = <<b, i>>
    BY <1>1, <1>3, <1>4, PutWritten
<1>6. /\ s \in DOMAIN segs /\ (s \notin unsure => th[t].pos = th[t].off)
      /\ s \notin unsure => segs[s].size <= 1 \/ segs[s].size <= Len(synced[s])
      /\ s \in torn \/ Creating(s) \/ (segs[s].named /\ Len(synced[s]) >= 1)
    BY <1>1 DEF Disk, Sites, Placed, Seated, Segments, Segment
<1>7. PICK y : /\ Moves(t, y) /\ y.at = "sync"
               /\ y.op = th[t].op /\ y.todo = th[t].todo /\ y.got = th[t].got
               /\ y.seg = th[t].seg /\ y.pos = th[t].pos /\ y.off = th[t].off
               /\ y.of = th[t].of
    BY <1>1, GotoMoves
<1>8. file'[s] = f
    BY <1>5, <1>6, DiskTypes DEF Written
<1>9. th[t].pos \in Nat /\ Len(f) \in Nat /\ th[t].pos <= Len(f)
  <2>1. f \in Seq(Cells)
      BY <1>5 DEF Written
  <2>2. th[t].pos \in Nat /\ Len(f) \in Nat
      BY <2>1, ThreadTyped, LenProperties
  <2> QED BY <1>2, <1>5, <2>2
<1>10. Seated(y)'
  <2>1. InFile(file', overwritten', s, th[t].pos, b)
      BY <1>5, <1>8 DEF InFile
  <2> QED BY <1>1, <1>5, <1>6, <1>7, <1>8, <1>9, <2>1 DEF Seated
<1>11. DiskStep(t, y)
    BY <1>1, <1>5, <1>6, <1>7, <1>10, WrittenStep
<1> QED BY <1>1, <1>7, <1>11, WorkDoes

LEMMA WriteFailsDoes ==
    ASSUME TypeOK, Duties, Legacy, Disk, NEW t \in Threads, WriteFails(t), load' = load
    PROVE  Does(t)
<1> DEFINE s == th[t].seg
           b == Head(th[t].todo)
           r == th[t].of
<1>1. /\ th[t].at = "write" /\ row' = row /\ rollup' = rollup /\ pruned' = pruned
      /\ segs' = segs /\ synced' = synced /\ unsure' = unsure /\ torn' = torn
      /\ Return(t, FALSE)
      /\ "write" \notin Creation \cup {"idle", "commit"} /\ "idle" \notin Creation \cup Sited
    BY DEF WriteFails, history, Creation, Sited
<1>2. b \in Bodies /\ Length(b) \in Nat
    BY <1>1, HeadTyped, LengthAssumption
<1>3. /\ Fragment(t) \in Seq(Cells) /\ Len(Fragment(t)) = Length(b)
      /\ \A i \in 1 .. Length(b) : Fragment(t)[i] = <<b, i>>
    BY <1>2, RecordTyped DEF Fragment
<1>4. PICK n \in 1 .. Len(Fragment(t)) - 1 : Put(t, SubSeq(Fragment(t), 1, n))
    BY DEF WriteFails
<1>5. n \in 0 .. Length(b) /\ n \in Nat /\ n \in Int /\ 1 .. n \subseteq 1 .. Length(b)
    BY <1>2, <1>3, <1>4
<1> DEFINE rec == SubSeq(Fragment(t), 1, n)
<1>6. /\ rec \in Seq(Cells) /\ Len(rec) = n
      /\ \A i \in 1 .. n : rec[i] = <<b, i>>
  <2>1. \A i \in 1 .. n : Fragment(t)[i] \in Cells
      BY <1>3, <1>5, ElementOfSeq
  <2>2. /\ rec \in Seq(Cells) /\ Len(rec) = (IF 1 <= n THEN n - 1 + 1 ELSE 0)
        /\ \A i \in 1 .. n - 1 + 1 : rec[i] = Fragment(t)[1 + i - 1]
      BY <1>5, <2>1, SubSeqProperties
  <2> HIDE DEF rec
  <2>3. \A i \in 1 .. n : rec[i] = Fragment(t)[i]
      BY <1>5, <2>2
  <2> QED BY <1>3, <1>5, <2>2, <2>3
<1> HIDE DEF rec
<1>7. PICK f : /\ Written(s, segs[s], f, synced[s])
               /\ Len(synced[s]) <= Len(f)
               /\ \A i \in 1 .. Len(synced[s]) : <<s, i>> \in overwritten' \/ f[i] = synced[s][i]
               /\ \A u \in Threads : th[u].at \in {"name", "header"} => th[u].seg # s
  <2>1. Put(t, rec)
      BY <1>4 DEF rec
  <2> QED BY <1>1, <1>5, <1>6, <2>1, PutWritten
<1>8. /\ s \in DOMAIN segs
      /\ s \notin unsure => segs[s].size <= 1 \/ segs[s].size <= Len(synced[s])
      /\ s \in torn \/ Creating(s) \/ (segs[s].named /\ Len(synced[s]) >= 1)
    BY <1>1 DEF Disk, Sites, Placed, Seated, Segments, Segment, Sited
<1>9. r \in Requests
    BY <1>1, AtWork
<1>10. row[r] \in Rows /\ row' = [row EXCEPT ![r] = row[r]]
    BY <1>1, <1>9 DEF TypeOK
<1>11. row[r].text => row[r].request = NoLocator /\ row[r].response = NoLocator
    BY <1>9 DEF Legacy
<1>12. PICK y : Effect(t, y, r, row[r]) /\ y.at = "idle" /\ y.got = <<>>
    BY <1>1, <1>10, <1>11, ReturnEffect
<1>13. Seated(y)'
    BY <1>1, <1>12 DEF Seated
<1>14. Moves(t, y)
    BY <1>12 DEF Effect
<1>15. DiskStep(t, y)
    BY <1>1, <1>7, <1>8, <1>12, <1>13, <1>14, WrittenStep
<1>16. Given(t) /\ Books(r, row[r])
    BY <1>1, <1>9, RowsStay
<1> QED BY <1>12, <1>15, <1>16 DEF Does

LEMMA SyncDoes ==
    ASSUME TypeOK, Duties, Legacy, Disk, NEW t \in Threads, Sync(t), load' = load
    PROVE  Does(t)
<1> DEFINE s == th[t].seg
           b == Head(th[t].todo)
<1>1. /\ th[t].at = "sync" /\ row' = row /\ rollup' = rollup /\ pruned' = pruned
      /\ segs' = segs /\ file' = file /\ overwritten' = overwritten
      /\ unsure' = unsure /\ torn' = torn /\ synced' = [synced EXCEPT ![s] = file[s]]
      /\ Goto(t, "size")
      /\ {"sync", "size"} \subseteq Sited \cap Steps
      /\ {"sync", "size"} \cap (Creation \cup {"idle", "commit", "seek", "close"}) = {}
    BY DEF Sync, history, Creation, Sited, Steps
<1>2. /\ s \in DOMAIN segs /\ Len(file[s]) >= 1 /\ InFile(file, overwritten, s, th[t].pos, b)
      /\ th[t].pos <= Len(file[s]) /\ (s \notin unsure => th[t].pos = th[t].off)
    BY <1>1 DEF Disk, Sites, Placed, Seated
<1>3. /\ Len(synced[s]) <= Len(file[s])
      /\ s \notin unsure => segs[s].size <= 1 \/ segs[s].size <= Len(synced[s])
      /\ s \in torn \/ Creating(s) \/ (segs[s].named /\ Len(synced[s]) >= 1)
      /\ Len(synced[s]) \in Nat /\ Len(file[s]) \in Nat /\ segs[s].size \in Nat
    BY <1>2, DiskTypes DEF Disk, Segments, Segment
<1>4. s \notin unsure => segs[s].size <= 1 \/ segs[s].size <= Len(file[s])
    BY <1>3
<1>5. s \in torn \/ Creating(s) \/ (segs[s].named /\ Len(file[s]) >= 1)
    BY <1>2, <1>3
<1>6. Written(s, segs[s], file[s], file[s])
    BY <1>1, <1>2, SyncWritten
<1>7. PICK y : /\ Moves(t, y) /\ y.at = "size"
               /\ y.op = th[t].op /\ y.todo = th[t].todo /\ y.got = th[t].got
               /\ y.seg = th[t].seg /\ y.pos = th[t].pos /\ y.off = th[t].off
               /\ y.of = th[t].of
    BY <1>1, GotoMoves
<1>8. synced'[s] = file[s]
    BY <1>1, <1>2, DiskTypes
<1>9. Seated(y)'
  <2>1. InFile(synced', overwritten', s, th[t].pos, b)
      BY <1>1, <1>2, <1>8 DEF InFile
  <2> QED BY <1>1, <1>2, <1>7, <2>1 DEF Seated
<1>10. Len(file[s]) <= Len(file[s])
    BY <1>3
<1>11. DiskStep(t, y)
    BY <1>1, <1>4, <1>5, <1>6, <1>7, <1>9, <1>10, WrittenStep
<1> QED BY <1>1, <1>7, <1>11, WorkDoes

\* What is durable behind the offset that is recorded
LEMMA Appended ==
    ASSUME TypeOK, Duties, Disk, NEW t \in Threads, th[t].at \in {"size", "retire"}
    PROVE  /\ th[t].seg \in DOMAIN segs /\ th[t].seg # 0
           /\ Head(th[t].todo) \in Bodies /\ Locator(t) \in Details
           /\ Kept(Locator(t))
           /\ th[t].off + Length(Head(th[t].todo)) \in Nat
           /\ th[t].seg \notin unsure =>
                th[t].off + Length(Head(th[t].todo)) <= Len(synced[th[t].seg])
<1> DEFINE s == th[t].seg
           b == Head(th[t].todo)
<1>1. /\ s \in DOMAIN segs /\ InFile(synced, overwritten, s, th[t].pos, b)
      /\ (s \notin unsure => th[t].pos = th[t].off)
    BY DEF Disk, Sites, Placed, Seated, Sited
<1>2. b \in Bodies /\ Length(b) \in Nat /\ th[t].off \in Nat /\ s \in Nat \ {0}
    BY <1>1, HeadTyped, ThreadTyped, LengthAssumption, DiskTypes
<1>3. /\ Locator(t) \in Details /\ Locator(t).seg = s /\ Locator(t).off = th[t].off
      /\ Locator(t).body = b
    BY <1>2 DEF Locator, Details
<1>4. Kept(Locator(t))
    BY <1>1, <1>3 DEF Kept
<1>5. s \notin unsure => th[t].off + Length(b) <= Len(synced[s])
    BY <1>1 DEF InFile
<1> QED BY <1>1, <1>2, <1>3, <1>4, <1>5

LEMMA LocatedDoes ==
    ASSUME TypeOK, Duties, Legacy, Disk, NEW t \in Threads, th[t].at \in {"size", "retire"},
           Located(t), row' = row, load' = load, rollup' = rollup, pruned' = pruned,
           NEW g \in SegmentRows, segs' = [segs EXCEPT ![th[t].seg] = g],
           file' = file, synced' = synced, overwritten' = overwritten, unsure' = unsure,
           torn' = torn, g.named = segs[th[t].seg].named,
           \/ g.size = segs[th[t].seg].size
           \/ g.size = th[t].off + Length(Head(th[t].todo))
    PROVE  Does(t)
<1> DEFINE s == th[t].seg
           b == Head(th[t].todo)
<1>1. /\ s \in DOMAIN segs /\ s # 0 /\ Locator(t) \in Details /\ Kept(Locator(t))
      /\ s \notin unsure => th[t].off + Length(b) <= Len(synced[s])
    BY Appended
<1>2. /\ Len(synced[s]) <= Len(file[s])
      /\ \A i \in 1 .. Len(synced[s]) : <<s, i>> \in overwritten \/ file[s][i] = synced[s][i]
      /\ s \notin unsure => segs[s].size <= 1 \/ segs[s].size <= Len(synced[s])
      /\ s \in torn \/ Creating(s) \/ (segs[s].named /\ Len(synced[s]) >= 1)
    BY <1>1 DEF Disk, Segments, Segment
<1>3. Written(s, g, file[s], synced[s])
    BY <1>1, SegsWritten
<1>4. DiskTyped' /\ Remains
    BY <1>3, WrittenGrows DEF Grows
<1>5. Kept(Locator(t)) => \E l \in Details : l = Locator(t) /\ Kept(l)'
  <2>1. PICK l \in Details : l = Locator(t) /\ Kept(l)
      BY <1>1
  <2>2. Kept(l)'
      BY <1>4, <2>1, KeptRemains
  <2> QED BY <2>1, <2>2
<1>6. PICK y : /\ Effect(t, y, th[t].of, row[th[t].of]) /\ y.at \in {"commit", "select"}
               /\ y.got = Append(th[t].got, Locator(t))
    BY <1>1, LocatedEffect
<1>7. \E l \in Details : y.got = Append(th[t].got, l) /\ Kept(l)'
    BY <1>1, <1>5, <1>6
<1>8. /\ {"commit", "select"} \cap (Creation \cup Sited \cup {"seek", "close"}) = {}
      /\ th[t].at \notin Creation
    BY DEF Creation, Sited
<1>9. Seated(y)'
    BY <1>6, <1>8 DEF Seated, Creation, Sited
<1>10. Moves(t, y)
    BY <1>6 DEF Effect
<1>11. s \notin unsure => g.size <= 1 \/ g.size <= Len(synced[s])
    BY <1>1, <1>2
<1>12. DiskStep(t, y)
    BY <1>2, <1>3, <1>6, <1>7, <1>8, <1>9, <1>10, <1>11, WrittenStep
<1>13. Given(t) /\ Books(th[t].of, row[th[t].of])
    BY RowsStay, AtWork
<1> QED BY <1>6, <1>12, <1>13 DEF Does

LEMMA RetireDoes ==
    ASSUME TypeOK, Duties, Legacy, Disk, NEW t \in Threads, Retire(t), load' = load
    PROVE  Does(t)
<1> DEFINE s == th[t].seg
           g == [segs[s] EXCEPT !.closed = TRUE]
<1>1. /\ th[t].at = "retire" /\ row' = row /\ rollup' = rollup /\ pruned' = pruned
      /\ file' = file /\ synced' = synced /\ overwritten' = overwritten
      /\ unsure' = unsure /\ torn' = torn /\ Located(t)
    BY DEF Retire, history
<1>2. s \in DOMAIN segs
    BY <1>1, Appended
<1>3. segs[s] \in SegmentRows
    BY <1>2, DiskTypes
<1>4. /\ g \in SegmentRows /\ g.named = segs[s].named /\ g.size = segs[s].size
      /\ segs' = [segs EXCEPT ![s] = g]
    BY <1>2, <1>3 DEF SegmentRows, Retire
<1> HIDE DEF g
<1> QED BY <1>1, <1>4, LocatedDoes

LEMMA RecordSizeDoes ==
    ASSUME TypeOK, Duties, Legacy, Disk, NEW t \in Threads, RecordSize(t), load' = load
    PROVE  Does(t)
<1> DEFINE s == th[t].seg
           b == Head(th[t].todo)
           size == th[t].off + Length(b)
           g == [segs[s] EXCEPT !.size = size]
<1>1. /\ th[t].at = "size" /\ row' = row /\ rollup' = rollup /\ pruned' = pruned
      /\ file' = file /\ synced' = synced /\ overwritten' = overwritten
      /\ unsure' = unsure /\ torn' = torn
      /\ {"size", "retire"} \subseteq Sited \cap Steps
      /\ {"size", "retire"} \cap (Creation \cup {"idle", "commit", "seek", "sync"}) = {}
    BY DEF RecordSize, history, Sited, Creation, Steps
<1>2. /\ s \in DOMAIN segs /\ b \in Bodies /\ size \in Nat
      /\ s \notin unsure => size <= Len(synced[s])
    BY <1>1, Appended
<1>3. segs[s] \in SegmentRows
    BY <1>2, DiskTypes
<1>4. Len(Fragment(t)) = Length(b)
    BY <1>2, RecordTyped DEF Fragment
<1>5. segs' = [segs EXCEPT ![s].size = size] /\ (Located(t) \/ Goto(t, "retire"))
    BY <1>4 DEF RecordSize
<1>6. g \in SegmentRows /\ g.named = segs[s].named /\ g.size = size
    BY <1>2, <1>3 DEF SegmentRows
<1>7. segs' = [segs EXCEPT ![s] = g]
    BY <1>2, <1>3, <1>5 DEF SegmentRows
<1> HIDE DEF g
<1>8. CASE Located(t)
    BY <1>1, <1>6, <1>7, <1>8, LocatedDoes
<1>9. CASE Goto(t, "retire")
  <2>1. /\ Len(synced[s]) <= Len(file[s])
        /\ \A i \in 1 .. Len(synced[s]) : <<s, i>> \in overwritten \/ file[s][i] = synced[s][i]
        /\ s \in torn \/ Creating(s) \/ (segs[s].named /\ Len(synced[s]) >= 1)
      BY <1>2 DEF Disk, Segments, Segment
  <2>2. Written(s, g, file[s], synced[s])
      BY <1>1, <1>2, <1>6, <1>7, SegsWritten
  <2>3. PICK y : /\ Moves(t, y) /\ y.at = "retire"
                 /\ y.op = th[t].op /\ y.todo = th[t].todo /\ y.got = th[t].got
                 /\ y.seg = th[t].seg /\ y.pos = th[t].pos /\ y.off = th[t].off
                 /\ y.of = th[t].of
      BY <1>1, <1>9, GotoMoves
  <2>4. Seated(th[t])
      BY DEF Disk, Sites, Placed
  <2>5. DOMAIN segs' = DOMAIN segs
      BY <1>7
  <2>6. Seated(y)'
      BY <1>1, <1>2, <2>3, <2>4, <2>5 DEF Seated
  <2>7. DiskStep(t, y)
      BY <1>1, <1>2, <1>6, <2>1, <2>2, <2>3, <2>6, WrittenStep
  <2> QED BY <1>1, <2>3, <2>7, WorkDoes
<1> QED BY <1>5, <1>8, <1>9

LEMMA CreateRefusedDoes ==
    ASSUME TypeOK, Duties, Legacy, Disk, NEW t \in Threads, CreateRefused(t), load' = load
    PROVE  Does(t)
<1>1. /\ th[t].at = "create" /\ row' = row /\ rollup' = rollup /\ pruned' = pruned /\ DiskStays
      /\ Return(t, FALSE) /\ "create" \notin Creation \cup {"idle"}
    BY DEF CreateRefused, DiskStays, history, Creation
<1> QED BY <1>1, ReturnDoes

LEMMA CreateDoes ==
    ASSUME TypeOK, Duties, Legacy, Disk, NEW t \in Threads, Create(t), load' = load
    PROVE  Does(t)
<1> DEFINE new == [named |-> FALSE, closed |-> FALSE, size |-> 0]
<1>0. PICK s : s = Len(segs) + 1
    OBVIOUS
<1>1. /\ th[t].at = "create" /\ row' = row /\ rollup' = rollup /\ pruned' = pruned
      /\ overwritten' = overwritten /\ unsure' = unsure /\ torn' = torn
      /\ segs' = Append(segs, new) /\ file' = Append(file, <<>>) /\ synced' = Append(synced, <<>>)
      /\ "name" \in Creation \cap Steps
      /\ "name" \notin Sited \cup {"idle", "commit", "seek", "close", "header", "headersync"}
      /\ "create" \notin Creation \cup {"idle", "commit"}
    BY DEF Create, history, Creation, Sited, Steps
<1>2. /\ DiskTyped /\ DOMAIN segs = 1 .. Len(segs) /\ DOMAIN file = DOMAIN segs
      /\ DOMAIN synced = DOMAIN segs /\ Len(segs) \in Nat /\ s \in Nat
      /\ Len(file) = Len(segs) /\ Len(synced) = Len(segs)
      /\ \A q \in DOMAIN segs : Len(file[q]) \in Nat /\ Len(synced[q]) \in Nat
    BY <1>0, DiskTypes, LenProperties DEF DiskTyped
<1>3. new \in SegmentRows /\ <<>> \in Seq(Cells)
    BY DEF SegmentRows
<1>4. /\ segs' \in Seq(SegmentRows) /\ Len(segs') = s /\ segs'[s] = new
      /\ \A q \in DOMAIN segs : segs'[q] = segs[q]
    BY <1>0, <1>1, <1>2, <1>3, AppendProperties DEF DiskTyped
<1>5. /\ file' \in Seq(Seq(Cells)) /\ Len(file') = s /\ file'[s] = <<>>
      /\ \A q \in DOMAIN segs : file'[q] = file[q]
    BY <1>0, <1>1, <1>2, <1>3, AppendProperties DEF DiskTyped
<1>6. /\ synced' \in Seq(Seq(Cells)) /\ Len(synced') = s /\ synced'[s] = <<>>
      /\ \A q \in DOMAIN segs : synced'[q] = synced[q]
    BY <1>0, <1>1, <1>2, <1>3, AppendProperties DEF DiskTyped
<1> HIDE DEF new
<1>7. DiskTyped'
    BY <1>4, <1>5, <1>6 DEF DiskTyped
<1>8. /\ DOMAIN segs' = 1 .. s /\ DOMAIN file' = 1 .. s /\ DOMAIN synced' = 1 .. s
      /\ DOMAIN segs \subseteq 1 .. s /\ s \in 1 .. s /\ s \notin DOMAIN segs
      /\ \A q \in 1 .. s : q # s => q \in DOMAIN segs
  <2>1. DOMAIN segs' = 1 .. s /\ DOMAIN file' = 1 .. s /\ DOMAIN synced' = 1 .. s
      BY <1>4, <1>5, <1>6, LenProperties
  <2>2. \A q \in 1 .. s : q # s => q \in 1 .. Len(segs)
      BY <1>0, <1>2
  <2>3. 1 .. Len(segs) \subseteq 1 .. s /\ s \in 1 .. s /\ s \notin 1 .. Len(segs)
      BY <1>0, <1>2
  <2> QED BY <1>2, <2>1, <2>2, <2>3
<1>9. Grows
  <2>1. \A q \in DOMAIN segs : Len(file[q]) <= Len(file[q]) /\ Len(synced[q]) <= Len(synced[q])
      BY <1>2
  <2>2. Extends(file, file')
      BY <1>2, <1>5, <1>8, <2>1 DEF Extends
  <2>3. Extends(synced, synced')
      BY <1>2, <1>6, <1>8, <2>1 DEF Extends
  <2>4. \A q \in DOMAIN segs : segs[q].named => segs'[q].named
      BY <1>4
  <2> QED BY <1>1, <1>8, <2>2, <2>3, <2>4 DEF Grows, Remains
<1>10. PICK y : y = At(th[t], s, th[t].pos, th[t].off, "name")
    OBVIOUS
<1>11. /\ th[t] \in Progress /\ th[t].pos \in Nat /\ th[t].off \in Nat /\ s \in Nat
       /\ th' = [th EXCEPT ![t] = y]
  <2>1. th[t] \in Progress /\ th[t].pos \in Nat /\ th[t].off \in Nat /\ s \in Nat
      BY <1>2, ThreadTyped
  <2>2. th' = [th EXCEPT ![t].seg = s, ![t].at = "name"]
      BY <1>0 DEF Create
  <2> QED BY <1>10, <2>1, <2>2 DEF At, Progress, TypeOK
<1>12. Moves(t, y)
    BY <1>1, <1>10, <1>11, Placing
<1>13. /\ y.at = "name" /\ y.seg = s
       /\ y.op = th[t].op /\ y.todo = th[t].todo /\ y.got = th[t].got
       /\ y.of = th[t].of
    BY <1>10, <1>11 DEF Progress, At
<1>14. Placed(y)'
  <2>1. \A i \in DOMAIN y.got : Kept(y.got[i])'
      BY <1>7, <1>9, <1>13, GotKept DEF Grows
  <2>2. Seated(y)'
      BY <1>1, <1>5, <1>8, <1>13 DEF Seated
  <2> QED BY <2>1, <2>2 DEF Placed
<1>15. Segments'
  <2>1. ASSUME NEW q \in DOMAIN segs PROVE Segment(q)'
    <3>1. Creating(q) => Creating(q)'
        BY <1>1, <1>12, CreatingMoves
    <3> QED BY <1>4, <1>5, <1>6, <1>9, <2>1, <3>1, SegmentUntouched DEF Disk, Segments, Grows
  <2>2. Segment(s)'
    <3>1. Creating(s)'
      <4>1. th'[t] = y
          BY <1>12, MovesTyped
      <4> QED BY <1>1, <1>13, <4>1 DEF Creating
    <3>2. Len(synced'[s]) <= Len(file'[s]) /\ 1 .. Len(synced'[s]) = {}
        BY <1>5, <1>6
    <3>3. segs'[s].size <= 1
        BY <1>4 DEF new
    <3> QED BY <3>1, <3>2, <3>3 DEF Segment
  <2> QED BY <1>8, <2>1, <2>2 DEF Segments
<1>16. \A u \in Threads : u # t /\ th[u].at \in {"name", "header"} =>
         file'[th[u].seg] = file[th[u].seg]
  <2> SUFFICES ASSUME NEW u \in Threads, u # t, th[u].at \in {"name", "header"}
               PROVE  file'[th[u].seg] = file[th[u].seg]
      OBVIOUS
  <2>1. th[u].seg \in DOMAIN segs
      BY DEF Disk, Sites, Placed, Seated, Creation
  <2> QED BY <1>5, <2>1
<1>17. DiskStep(t, y)
    BY <1>7, <1>8, <1>9, <1>12, <1>13, <1>14, <1>15, <1>16 DEF DiskStep
<1> QED BY <1>1, <1>12, <1>13, <1>17, WorkDoes

LEMMA FailsDoes ==
    ASSUME TypeOK, Duties, Legacy, Disk, NEW t \in Threads, Fails(t), load' = load
    PROVE  Does(t)
<1> DEFINE r == th[t].of
<1>1. /\ th[t].at # "idle" /\ row' = row /\ rollup' = rollup /\ pruned' = pruned
      /\ segs' = segs /\ file' = file /\ synced' = synced /\ overwritten' = overwritten
      /\ unsure' = unsure /\ Return(t, FALSE)
      /\ torn' = torn \cup (IF th[t].at \in Creation THEN {th[t].seg} ELSE {})
      /\ "idle" \notin Creation \cup Sited \cup {"seek", "close"}
    BY DEF Fails, history, diskVars, Creation, Sited
<1>2. r \in Requests
    BY <1>1, AtWork
<1>3. row[r] \in Rows /\ row' = [row EXCEPT ![r] = row[r]]
    BY <1>1, <1>2 DEF TypeOK
<1>4. row[r].text => row[r].request = NoLocator /\ row[r].response = NoLocator
    BY <1>2 DEF Legacy
<1>5. PICK y : Effect(t, y, r, row[r]) /\ y.at = "idle" /\ y.got = <<>>
    BY <1>1, <1>3, <1>4, ReturnEffect
<1>6. Moves(t, y)
    BY <1>5 DEF Effect
<1>7. DiskTyped' /\ Grows
  <2>1. Extends(file, file) /\ Extends(synced, synced)
      BY ExtendsSame
  <2>2. DiskTyped
      BY DiskTypes
  <2> QED BY <1>1, <2>1, <2>2 DEF DiskTyped, Grows, Remains
<1>8. Segments'
  <2> SUFFICES ASSUME NEW s \in DOMAIN segs PROVE Segment(s)'
      BY <1>1 DEF Segments
  <2>1. CASE th[t].at \in Creation /\ th[t].seg = s
    <3>1. s \in torn'
        BY <1>1, <2>1
    <3> QED BY <1>1, <1>7, <3>1, SegmentUntouched DEF Disk, Segments, Grows
  <2>2. CASE ~(th[t].at \in Creation /\ th[t].seg = s)
    <3>1. Creating(s) => Creating(s)'
        BY <1>6, <2>2, CreatingMoves
    <3> QED BY <1>1, <1>7, <3>1, SegmentUntouched DEF Disk, Segments, Grows
  <2> QED BY <2>1, <2>2
<1>9. Placed(y)'
    BY <1>1, <1>5 DEF Placed, Seated, Creation, Sited
<1>10. DiskStep(t, y)
    BY <1>1, <1>5, <1>6, <1>7, <1>8, <1>9 DEF DiskStep
<1>11. Given(t) /\ Books(r, row[r])
    BY <1>1, <1>2, RowsStay
<1> QED BY <1>5, <1>10, <1>11 DEF Does

-----------------------------------------------------------------------------
(* Every step of a thread                                                   *)

LEMMA GivenRow ==
    ASSUME TypeOK, NEW t \in Threads, NEW r \in Requests, NEW rw,
           row' = [row EXCEPT ![r] = rw],
           \A l \in {rw.request, rw.response} \ {NoLocator} :
             l \in Locators(r) \/ \E i \in DOMAIN th[t].got : l = th[t].got[i]
    PROVE  Given(t)
<1>1. row'[r] = rw /\ \A q \in Requests : q # r => row'[q] = row[q]
    BY DEF TypeOK
<1>2. \A q \in Requests : q # r => Locators(q)' = Locators(q)
    BY <1>1 DEF Locators
<1>3. Locators(r)' = {rw.request, rw.response} \ {NoLocator}
    BY <1>1 DEF Locators
<1> QED BY <1>2, <1>3 DEF Given

LEMMA CommitDoes ==
    ASSUME TypeOK, Duties, Legacy, Disk, NEW t \in Threads, load' = load,
           CommitDump(t) \/ CommitOutcome(t) \/ CommitMigration(t)
    PROVE  Does(t)
<1> DEFINE r == th[t].of
<1>1. /\ th[t].at = "commit" /\ DiskStays /\ "commit" \notin Creation \cup {"idle"}
    BY DEF CommitDump, CommitOutcome, CommitMigration, DiskStays, history, Creation
<1>2. r \in Requests
    BY <1>1, AtWork
<1>3. PICK y, rw : /\ Effect(t, y, r, rw) /\ Books(r, rw) /\ y.at = "idle" /\ y.got = <<>>
                   /\ \A l \in {rw.request, rw.response} \ {NoLocator} :
                        l \in Locators(r) \/ \E i \in DOMAIN th[t].got : l = th[t].got[i]
    BY CommitEffect
<1>4. DiskStep(t, y)
    BY <1>1, <1>3, RestingStep DEF Effect
<1>5. row' = [row EXCEPT ![r] = rw]
    BY <1>3 DEF Effect
<1>6. Given(t)
    BY <1>2, <1>3, <1>5, GivenRow
<1> QED BY <1>3, <1>4, <1>6 DEF Does

LEMMA AppendDoes ==
    ASSUME TypeOK, Duties, Legacy, Disk, NEW t \in Threads, AppendStep(t), load' = load
    PROVE  Does(t)
  BY SelectDoes, CloseDoes, CreateDoes, CreateRefusedDoes, NameDoes, WriteHeaderDoes,
     SyncHeaderDoes, SeekDoes, RepairDoes, WriteDoes, WriteFailsDoes, SyncDoes, RecordSizeDoes,
     RetireDoes, FailsDoes, CommitDoes
     DEF AppendStep

LEMMA RequestDoes ==
    ASSUME TypeOK, Duties, Legacy, Disk, NEW r \in Requests, RequestStep(r), load' = load
    PROVE  \E t \in Threads : Does(t)
<1>1. DiskStays /\ r \in Threads /\ Maintenance \in Threads
    BY DEF RequestStep, Insert, InsertFails, Dump, DumpRefused, FinishRequest, PersistResult,
           PersistRefused, Invalidate, Migrate, PruneDetails, DiskStays, history, diskVars, Threads
<1>2. ASSUME NEW t \in Threads, NEW y, NEW rw, Effect(t, y, r, rw), Books(r, rw), DiskStep(t, y),
             \/ rw.request = row[r].request /\ rw.response = row[r].response
             \/ rw.request = NoLocator /\ rw.response = NoLocator
      PROVE  Does(t)
  <2>1. row' = [row EXCEPT ![r] = rw]
      BY <1>2 DEF Effect
  <2>2. Given(t)
      BY <1>2, <2>1, GivenRow DEF Locators
  <2> QED BY <1>2, <2>2 DEF Does
<1>3. \A t \in Threads : th[t].op \notin Working => th[t].at \notin Creation
    BY Resting DEF Creation
<1>4. ASSUME NEW t \in Threads, NEW y, Effect(t, y, r, row[r]), th[t].op \notin Working,
             y.at \in {"idle", "select", "commit"}, y.got = <<>>,
             rollup' = rollup, pruned' = pruned
      PROVE  Does(t)
  <2>1. DiskStep(t, y)
      BY <1>1, <1>3, <1>4, RestingStep DEF Effect
  <2>2. Books(r, row[r])
      BY <1>4, BooksStill
  <2> QED BY <1>2, <1>4, <2>1, <2>2
<1>5. ASSUME Insert(r) \/ InsertFails(r) PROVE Does(r)
  <2>1. PICK y, rw : Effect(r, y, r, rw) /\ Books(r, rw) /\ y.at = "idle" /\ y.got = <<>>
                     /\ rw.request = row[r].request /\ rw.response = row[r].response
      BY <1>5, InsertEffect
  <2>2. th[r].op \notin Working
      BY <1>5 DEF Insert, InsertFails, Working
  <2>3. DiskStep(r, y)
      BY <1>1, <1>3, <2>1, <2>2, RestingStep DEF Effect
  <2> QED BY <1>1, <1>2, <2>1, <2>3
<1>6. ASSUME Dump(r) \/ DumpRefused(r) PROVE Does(r)
  <2>1. PICK y : Effect(r, y, r, row[r]) /\ y.got = <<>> /\ y.at \in {"idle", "select"}
      BY <1>6, DumpEffect
  <2>2. th[r].op \notin Working /\ rollup' = rollup /\ pruned' = pruned
      BY <1>6 DEF Dump, DumpRefused, Working, history
  <2> QED BY <1>1, <1>4, <2>1, <2>2
<1>7. ASSUME FinishRequest(r) \/ PersistResult(r) PROVE Does(r)
  <2>1. PICK y : Effect(r, y, r, row[r]) /\ y.got = <<>> /\ y.at \in {"commit", "select"}
      BY <1>7, FinalEffect
  <2>2. th[r].op \notin Working /\ rollup' = rollup /\ pruned' = pruned
      BY <1>7 DEF FinishRequest, PersistResult, Working, history
  <2> QED BY <1>1, <1>4, <2>1, <2>2
<1>8. ASSUME PersistRefused(r) PROVE Does(r)
  <2>1. PICK y : Effect(r, y, r, row[r]) /\ y.got = <<>> /\ y.at = "idle"
      BY <1>8, PersistRefusedEffect
  <2>2. th[r].op \notin Working /\ rollup' = rollup /\ pruned' = pruned
      BY <1>8 DEF PersistRefused, Working, history
  <2> QED BY <1>1, <1>4, <2>1, <2>2
<1>9. ASSUME Invalidate(r) PROVE Does(r)
  <2>1. PICK rw : /\ Effect(r, th[r], r, rw) /\ Books(r, rw)
                  /\ rw.request = row[r].request /\ rw.response = row[r].response
      BY <1>9, InvalidateEffect
  <2>2. Placed(th[r])
      BY <1>1 DEF Disk, Sites
  <2>3. Moves(r, th[r])
      BY <2>1 DEF Effect
  <2>4. DiskStep(r, th[r])
      BY <1>1, <2>2, <2>3, DiskStaysStep
  <2> QED BY <1>1, <1>2, <2>1, <2>4
<1>10. ASSUME Migrate(r) PROVE Does(Maintenance)
  <2>1. PICK y : Effect(Maintenance, y, r, row[r]) /\ y.at = "select" /\ y.got = <<>>
      BY <1>10, MigrateEffect
  <2>2. th[Maintenance].op \notin Working /\ rollup' = rollup /\ pruned' = pruned
      BY <1>10 DEF Migrate, Working, history
  <2> QED BY <1>1, <1>4, <2>1, <2>2
<1>11. ASSUME PruneDetails(r) PROVE Does(Maintenance)
  <2>1. PICK rw : /\ Effect(Maintenance, th[Maintenance], r, rw) /\ Books(r, rw)
                  /\ rw.request = NoLocator /\ rw.response = NoLocator
      BY <1>11, PruneEffect
  <2>2. Placed(th[Maintenance])
      BY <1>1 DEF Disk, Sites
  <2>3. Moves(Maintenance, th[Maintenance])
      BY <2>1 DEF Effect
  <2>4. DiskStep(Maintenance, th[Maintenance])
      BY <1>1, <2>2, <2>3, DiskStaysStep
  <2> QED BY <1>1, <1>2, <2>1, <2>4
<1> QED BY <1>1, <1>5, <1>6, <1>7, <1>8, <1>9, <1>10, <1>11 DEF RequestStep

-----------------------------------------------------------------------------
(* The counts of the rollups                                                *)

Counted(s) == {r \in Requests : row[r].state = s /\ ~row[r].invalid}

LEMMA CountedFinite ==
    ASSUME NEW s
    PROVE  IsFiniteSet(Counted(s)) /\ IsFiniteSet(Counted(s)') /\ Cardinality(Counted(s)) \in Nat
<1>1. Counted(s) \subseteq Requests /\ Counted(s)' \subseteq Requests
    BY DEF Counted
<1>2. IsFiniteSet(Counted(s)) /\ IsFiniteSet(Counted(s)')
    BY <1>1, ThreadsAssumption, FS_Subset
<1> QED BY <1>2, FS_CardinalityType

LEMMA CountsStep ==
    ASSUME TypeOK, NEW r \in Requests, NEW rw \in Rows, row' = [row EXCEPT ![r] = rw],
           NEW s \in FinalStates
    PROVE  Cardinality(Counted(s)') = Cardinality(Counted(s)) - Counts(row[r], s) + Counts(rw, s)
<1>1. /\ Cardinality(Counted(s)) \in Nat /\ IsFiniteSet(Counted(s)) /\ IsFiniteSet(Counted(s)')
    BY CountedFinite
<1>2. row'[r] = rw /\ \A q \in Requests : q # r => row'[q] = row[q]
    BY DEF TypeOK
<1>3. /\ r \in Counted(s) <=> Counts(row[r], s) = 1
      /\ r \notin Counted(s) <=> Counts(row[r], s) = 0
      /\ r \in Counted(s)' <=> Counts(rw, s) = 1
      /\ r \notin Counted(s)' <=> Counts(rw, s) = 0
    BY <1>2 DEF Counted, Counts
<1>4. \A q \in Requests : q # r => (q \in Counted(s)' <=> q \in Counted(s))
    BY <1>2 DEF Counted
<1>5. Counted(s) \subseteq Requests /\ Counted(s)' \subseteq Requests
    BY DEF Counted
<1> DEFINE n == Cardinality(Counted(s))
           m == Cardinality(Counted(s)')
<1>6. CASE r \in Counted(s) /\ r \in Counted(s)'
  <2>1. Counted(s)' = Counted(s)
      BY <1>4, <1>5, <1>6
  <2>2. Counts(row[r], s) = 1 /\ Counts(rw, s) = 1 /\ m = n
      BY <1>3, <1>6, <2>1
  <2> HIDE DEF n, m
  <2>3. m = n - Counts(row[r], s) + Counts(rw, s)
      BY <1>1, <2>2 DEF n
  <2> QED BY <2>3 DEF n, m
<1>7. CASE r \in Counted(s) /\ r \notin Counted(s)'
  <2>1. Counted(s)' = Counted(s) \ {r}
      BY <1>4, <1>5, <1>7
  <2>2. m = n - 1
      BY <1>1, <1>7, <2>1, FS_RemoveElement
  <2>3. Counts(row[r], s) = 1 /\ Counts(rw, s) = 0
      BY <1>3, <1>7
  <2> HIDE DEF n, m
  <2>4. m = n - Counts(row[r], s) + Counts(rw, s)
      BY <1>1, <2>2, <2>3 DEF n
  <2> QED BY <2>4 DEF n, m
<1>8. CASE r \notin Counted(s) /\ r \in Counted(s)'
  <2>1. Counted(s)' = Counted(s) \cup {r}
      BY <1>4, <1>5, <1>8
  <2>2. m = n + 1
      BY <1>1, <1>8, <2>1, FS_AddElement
  <2>3. Counts(row[r], s) = 0 /\ Counts(rw, s) = 1
      BY <1>3, <1>8
  <2> HIDE DEF n, m
  <2>4. m = n - Counts(row[r], s) + Counts(rw, s)
      BY <1>1, <2>2, <2>3 DEF n
  <2> QED BY <2>4 DEF n, m
<1>9. CASE r \notin Counted(s) /\ r \notin Counted(s)'
  <2>1. Counted(s)' = Counted(s)
      BY <1>4, <1>5, <1>9
  <2>2. Counts(row[r], s) = 0 /\ Counts(rw, s) = 0 /\ m = n
      BY <1>3, <1>9, <2>1
  <2> HIDE DEF n, m
  <2>3. m = n - Counts(row[r], s) + Counts(rw, s)
      BY <1>1, <2>2 DEF n
  <2> QED BY <2>3 DEF n, m
<1> QED BY <1>6, <1>7, <1>8, <1>9

\* The counts, which are numbers because they are those of the rows
LEMMA RollupStep ==
    ASSUME RollupMatches, NEW t, NEW y, NEW r, NEW rw, Effect(t, y, r, rw), Books(r, rw)
    PROVE  /\ rollup' \in [FinalStates -> Nat]
           /\ \A s \in FinalStates : rollup'[s] = Cardinality(Counted(s)')
<1>1. TypeOK /\ \A s \in FinalStates : rollup[s] = Cardinality(Counted(s))
    BY DEF RollupMatches, Counted
<1>2. r \in Requests /\ rw \in Rows /\ row' = [row EXCEPT ![r] = rw]
    BY DEF Effect
<1>3. rollup' = [s \in FinalStates |-> rollup[s] - Counts(row[r], s) + Counts(rw, s)]
    BY DEF Books, Recounted
<1>4. \A s \in FinalStates : rollup'[s] = Cardinality(Counted(s)')
  <2> SUFFICES ASSUME NEW s \in FinalStates PROVE rollup'[s] = Cardinality(Counted(s)')
      OBVIOUS
  <2>1. Cardinality(Counted(s)') = Cardinality(Counted(s)) - Counts(row[r], s) + Counts(rw, s)
      BY <1>1, <1>2, CountsStep
  <2> QED BY <1>1, <1>3, <2>1
<1>5. \A s \in FinalStates : Cardinality(Counted(s)') \in Nat
    BY CountedFinite, FS_CardinalityType
<1>6. \A s \in FinalStates : rollup'[s] \in Nat
    BY <1>4, <1>5
<1> QED BY <1>3, <1>4, <1>6

-----------------------------------------------------------------------------
(* The inductive invariant                                                  *)

IInv == RollupMatches /\ Duties /\ Legacy /\ Disk

LEMMA DoesKeeps ==
    ASSUME IInv, NEW t, Does(t), load' = load, up' \in BOOLEAN, faults' \in Nat, crashes' \in Nat
    PROVE  IInv'
<1>1. TypeOK /\ Duties /\ Legacy /\ Disk /\ RollupMatches
    BY DEF IInv, RollupMatches
<1>2. PICK y, r, rw : Effect(t, y, r, rw) /\ Books(r, rw) /\ DiskStep(t, y) /\ Given(t)
    BY DEF Does
<1>3. /\ th' \in [Threads -> Progress] /\ row' \in [Requests -> Rows]
      /\ Duties'
      /\ \A q \in Requests \ load'.calls : th'[q].op = "ended"
      /\ \A q \in Requests : row'[q].text =>
           q \in load'.legacy /\ row'[q].request = NoLocator /\ row'[q].response = NoLocator
    BY <1>1, <1>2, EffectKeeps
<1>4. Disk'
    BY <1>1, <1>2, DiskStepKeeps
<1>5. /\ rollup' \in [FinalStates -> Nat]
      /\ \A s \in FinalStates : rollup'[s] = Cardinality(Counted(s)')
    BY <1>1, <1>2, RollupStep
<1>6. LegacyKept'
  <2>1. r \in Requests /\ row' = [row EXCEPT ![r] = rw]
      BY <1>2 DEF Effect
  <2>2. row'[r] = rw /\ \A q \in Requests : q # r => row'[q] = row[q]
      BY <1>1, <2>1 DEF TypeOK
  <2> SUFFICES ASSUME NEW q \in load.legacy, q \notin pruned'
               PROVE  \/ row'[q].text
                      \/ {l.body : l \in Locators(q)'} = {RequestBody(q, 0), ResponseBody(q)}
      BY DEF LegacyKept
  <2>3. q \in Requests /\ q \notin pruned
      BY <1>1, <1>2, WorkloadsAssumption DEF Books, TypeOK
  <2>4. CASE q = r
    <3>1. Locators(q)' = {rw.request, rw.response} \ {NoLocator}
        BY <2>2, <2>4 DEF Locators
    <3> QED BY <1>2, <2>2, <2>4, <3>1 DEF Books
  <2>5. CASE q # r
    <3>1. Locators(q)' = Locators(q) /\ row'[q].text = row[q].text
        BY <2>2, <2>3, <2>5 DEF Locators
    <3> QED BY <1>1, <2>3, <3>1 DEF Legacy, LegacyKept
  <2> QED BY <2>4, <2>5
<1>7. TypeOK'
    BY <1>1, <1>2, <1>3, <1>5 DEF TypeOK, DiskStep, DiskTyped, SegmentRows, Books
<1> QED BY <1>3, <1>4, <1>5, <1>6, <1>7 DEF IInv, RollupMatches, Legacy, Counted

LEMMA InitIInv == Init => IInv
<1> SUFFICES ASSUME Init PROVE IInv
    OBVIOUS
<1>1. /\ load \in Workloads /\ load.legacy \subseteq Requests \ load.calls
      /\ Maintenance \notin Requests /\ IsFiniteSet(load.legacy)
    BY WorkloadsAssumption, ThreadsAssumption, FS_Subset DEF Init
<1> DEFINE op(t) == IF t = Maintenance THEN "calling" ELSE IF t \in load.calls THEN "new" ELSE "ended"
<1>2. th = [t \in Threads |-> Idle(op(t))]
    BY DEF Init
<1>3. \A t \in Threads : op(t) \in Operations
    BY DEF Operations
<1> HIDE DEF op
<1>4. \A t \in Threads : /\ th[t] \in Progress /\ th[t].op = op(t) /\ th[t].at = "idle"
                         /\ th[t].todo = <<>> /\ th[t].got = <<>>
  <2> SUFFICES ASSUME NEW t \in Threads
               PROVE  /\ th[t] \in Progress /\ th[t].op = op(t) /\ th[t].at = "idle"
                      /\ th[t].todo = <<>> /\ th[t].got = <<>>
      OBVIOUS
  <2>1. op(t) \in Operations /\ th[t] = Idle(op(t))
      BY <1>2, <1>3
  <2>2. /\ Idle(op(t)) \in Progress /\ Idle(op(t)).op = op(t) /\ Idle(op(t)).at = "idle"
        /\ Idle(op(t)).todo = <<>> /\ Idle(op(t)).got = <<>>
      BY <2>1, IdleTyped
  <2> QED BY <2>1, <2>2
<1>5. \A r \in Requests :
         /\ row[r] \in Rows /\ row[r].request = NoLocator /\ row[r].response = NoLocator
         /\ row[r].text <=> r \in load.legacy
         /\ row[r].state = (IF r \in load.legacy THEN "succeeded" ELSE "none")
         /\ ~row[r].invalid
  <2> SUFFICES ASSUME NEW r \in Requests
               PROVE  /\ row[r] \in Rows /\ row[r].request = NoLocator /\ row[r].response = NoLocator
                      /\ row[r].text <=> r \in load.legacy
                      /\ row[r].state = (IF r \in load.legacy THEN "succeeded" ELSE "none")
                      /\ ~row[r].invalid
      OBVIOUS
  <2>1. row[r] = [state |-> IF r \in load.legacy THEN "succeeded" ELSE "none",
                  request |-> NoLocator, response |-> NoLocator,
                  text |-> r \in load.legacy, invalid |-> FALSE]
      BY DEF Init
  <2>2. PICK b \in BOOLEAN : b <=> r \in load.legacy
      OBVIOUS
  <2>3. PICK st \in {"succeeded", "none"} : st = IF r \in load.legacy THEN "succeeded" ELSE "none"
      OBVIOUS
  <2>4. row[r] = [state |-> st, request |-> NoLocator, response |-> NoLocator, text |-> b,
                  invalid |-> FALSE]
      BY <2>1, <2>2, <2>3, Zenon
  <2>5. [state |-> st, request |-> NoLocator, response |-> NoLocator, text |-> b,
         invalid |-> FALSE] \in Rows
      BY DEF Rows, FinalStates
  <2>6. row[r].text <=> r \in load.legacy
      BY <2>2, <2>4
  <2> QED BY <2>3, <2>4, <2>5, <2>6
<1>6. rollup \in [FinalStates -> Nat] /\ \A s \in FinalStates : rollup[s] = Cardinality(Counted(s))
  <2>1. Counted("succeeded") = load.legacy /\ Counted("failed") = {}
      BY <1>1, <1>5 DEF Counted
  <2>2. Cardinality(load.legacy) \in Nat /\ Cardinality({}) = 0
      BY <1>1, FS_CardinalityType, FS_EmptySet
  <2>3. rollup = [s \in FinalStates |-> IF s = "succeeded" THEN Cardinality(load.legacy) ELSE 0]
      BY DEF Init
  <2> QED BY <2>1, <2>2, <2>3 DEF FinalStates
<1>7. TypeOK
  <2>1. th \in [Threads -> Progress]
      BY <1>2, <1>4
  <2>2. row \in [Requests -> Rows]
      BY <1>5 DEF Init
  <2>3. /\ segs = <<>> /\ file = <<>> /\ synced = <<>> /\ up = TRUE
        /\ faults = 0 /\ crashes = 0 /\ pruned = {}
      BY DEF Init
  <2>4. /\ segs \in Seq([named : BOOLEAN, closed : BOOLEAN, size : Nat])
        /\ file \in Seq(Seq(Cells)) /\ synced \in Seq(Seq(Cells))
        /\ Len(file) = Len(segs) /\ Len(synced) = Len(segs)
      BY <2>3
  <2> QED BY <1>1, <1>6, <2>1, <2>2, <2>3, <2>4 DEF TypeOK
<1>8. RollupMatches
    BY <1>6, <1>7 DEF RollupMatches, Counted
<1>9. Duties
  <2>1. ASSUME NEW t \in Threads PROVE Employed(t, th[t])
      BY <1>4, <2>1 DEF Employed, Working, op
  <2>2. ASSUME NEW r \in Requests, th[r].op = "new" PROVE row[r].state = "none"
      BY <1>1, <1>4, <1>5, <2>2 DEF op, Threads
  <2> QED BY <1>4, <2>1, <2>2 DEF Duties
<1>10. Legacy
  <2>1. \A r \in Requests \ load.calls : th[r].op = "ended"
      BY <1>1, <1>4 DEF op, Threads
  <2>2. LegacyKept
      BY <1>1, <1>5 DEF LegacyKept
  <2> QED BY <1>5, <2>1, <2>2 DEF Legacy
<1>11. Disk
  <2>1. LocatorsKept
      BY <1>5 DEF LocatorsKept, Locators
  <2>2. Sites
      BY <1>4 DEF Sites, Placed, Seated, Creation, Sited
  <2>3. Creators
      BY <1>4 DEF Creators, Creation
  <2>4. Segments
    <3>1. DOMAIN segs = {}
        BY DEF Init
    <3> QED BY <3>1 DEF Segments
  <2> QED BY <2>1, <2>2, <2>3, <2>4 DEF Disk
<1> QED BY <1>8, <1>9, <1>10, <1>11 DEF IInv

\* The process ends: every operation is cut short, and a file may fall back to
\* what is durable of it.
LEMMA CrashKeeps ==
    ASSUME IInv, Crash, load' = load
    PROVE  IInv'
<1>1. TypeOK /\ Duties /\ Legacy /\ Disk /\ RollupMatches
    BY DEF IInv, RollupMatches
<1>2. /\ row' = row /\ rollup' = rollup /\ segs' = segs /\ synced' = synced
      /\ overwritten' = overwritten /\ unsure' = unsure /\ pruned' = pruned /\ up' = FALSE
      /\ faults' = faults /\ crashes' = crashes + 1
      /\ torn' = torn \cup {th[t].seg : t \in {u \in Threads : th[u].at \in Creation}}
      /\ th' = [t \in Threads |->
                 IF t = Maintenance THEN Idle("calling")
                 ELSE IF th[t].op \in {"new", "ended"} THEN th[t] ELSE Idle("dead")]
    BY DEF Crash
<1>3. \A t \in Threads :
         /\ th'[t] \in Progress /\ th'[t].at = "idle" /\ th'[t].todo = <<>> /\ th'[t].got = <<>>
         /\ \/ t = Maintenance /\ th'[t].op = "calling"
            \/ t # Maintenance /\ th'[t].op \in {"new", "ended"} /\ th'[t].op = th[t].op
            \/ t # Maintenance /\ th'[t].op = "dead" /\ th[t].op \notin {"new", "ended"}
  <2> SUFFICES ASSUME NEW t \in Threads
               PROVE  /\ th'[t] \in Progress /\ th'[t].at = "idle" /\ th'[t].todo = <<>>
                      /\ th'[t].got = <<>>
                      /\ \/ t = Maintenance /\ th'[t].op = "calling"
                         \/ t # Maintenance /\ th'[t].op \in {"new", "ended"} /\ th'[t].op = th[t].op
                         \/ t # Maintenance /\ th'[t].op = "dead" /\ th[t].op \notin {"new", "ended"}
      OBVIOUS
  <2>1. "calling" \in Operations /\ "dead" \in Operations
      BY DEF Operations
  <2>2. CASE t = Maintenance
      BY <1>2, <2>1, <2>2, IdleTyped
  <2>3. CASE t # Maintenance /\ th[t].op \in {"new", "ended"}
    <3>1. th'[t] = th[t] /\ th[t].op \notin Working
        BY <1>2, <2>3 DEF Working
    <3> QED BY <1>1, <2>3, <3>1, Resting, ThreadTyped
  <2>4. CASE t # Maintenance /\ th[t].op \notin {"new", "ended"}
      BY <1>2, <2>1, <2>4, IdleTyped
  <2> QED BY <2>2, <2>3, <2>4
<1>4. /\ DiskTyped /\ DOMAIN segs = 1 .. Len(segs) /\ DOMAIN file = DOMAIN segs
      /\ DOMAIN synced = DOMAIN segs
      /\ \A s \in DOMAIN segs : /\ file[s] \in Seq(Cells) /\ synced[s] \in Seq(Cells)
                                /\ Len(file[s]) \in Nat /\ Len(synced[s]) \in Nat
    BY <1>1, DiskTypes
<1>5. /\ DOMAIN file' = DOMAIN segs
      /\ \A s \in DOMAIN segs : file'[s] = file[s] \/ file'[s] = synced[s]
  <2>1. PICK lost \in SUBSET (IF load.power THEN DOMAIN file ELSE {}) :
           file' = [s \in DOMAIN file |-> IF s \in lost THEN synced[s] ELSE file[s]]
      BY DEF Crash
  <2> QED BY <1>4, <2>1
<1>6. file' \in Seq(Seq(Cells)) /\ Len(file') = Len(segs)
  <2>1. \E lost : file' = [s \in 1 .. Len(segs) |-> IF s \in lost THEN synced[s] ELSE file[s]]
      BY <1>4 DEF Crash
  <2>2. file' \in [1 .. Len(segs) -> Seq(Cells)]
      BY <1>4, <2>1
  <2>3. Len(segs) \in Nat
      BY <1>4, LenProperties DEF DiskTyped
  <2> QED BY <2>2, <2>3, SeqDef, LenProperties
<1>7. DiskTyped' /\ Remains
  <2>1. Extends(synced, synced)
      BY ExtendsSame
  <2> QED BY <1>2, <1>4, <1>6, <2>1 DEF DiskTyped, Remains
<1>8. TypeOK'
  <2>1. th' \in [Threads -> Progress]
      BY <1>2, <1>3
  <2>2. row' \in [Requests -> Rows] /\ rollup' \in [FinalStates -> Nat] /\ load' \in Workloads
        /\ up' \in BOOLEAN /\ faults' \in Nat /\ crashes' \in Nat /\ pruned' \subseteq Requests
    <3>1. crashes \in Nat
        BY <1>1 DEF TypeOK
    <3>2. crashes' \in Nat
        BY <1>2, <3>1
    <3> QED BY <1>1, <1>2, <3>2 DEF TypeOK
  <2>3. /\ segs' \in Seq([named : BOOLEAN, closed : BOOLEAN, size : Nat])
        /\ file' \in Seq(Seq(Cells)) /\ synced' \in Seq(Seq(Cells))
        /\ Len(file') = Len(segs') /\ Len(synced') = Len(segs')
      BY <1>7 DEF DiskTyped, SegmentRows
  <2> QED BY <2>1, <2>2, <2>3 DEF TypeOK
<1>9. RollupMatches'
    BY <1>1, <1>2, <1>8 DEF RollupMatches
<1>10. Duties'
  <2>1. ASSUME NEW t \in Threads PROVE Employed(t, th'[t])
      BY <1>1, <1>3, <2>1 DEF Employed, Working, Duties
  <2>2. ASSUME NEW r \in Requests, th'[r].op = "new" PROVE row'[r].state = "none"
      BY <1>1, <1>2, <1>3, <2>2 DEF Duties, Threads
  <2> QED BY <1>3, <2>1, <2>2 DEF Duties
<1>11. Legacy'
  <2>1. \A r \in Requests \ load'.calls : th'[r].op = "ended"
      BY <1>1, <1>3, ThreadsAssumption DEF Legacy, Threads
  <2>2. LegacyKept'
      BY <1>1, <1>2 DEF Legacy, LegacyKept, Locators
  <2> QED BY <1>1, <1>2, <2>1, <2>2 DEF Legacy
<1>12. LocatorsKept'
  <2>1. PICK t \in Threads : t = Maintenance
      BY DEF Threads
  <2>2. Given(t)
      BY <1>2 DEF Given, Locators
  <2> QED BY <1>1, <1>7, <2>2, LocatorsRemain DEF Disk
<1>13. Sites'
    BY <1>3 DEF Sites, Placed, Seated, Creation, Sited
<1>14. Creators'
    BY <1>3 DEF Creators, Creation
<1>15. Segments'
  <2> SUFFICES ASSUME NEW s \in DOMAIN segs PROVE Segment(s)'
      BY <1>2 DEF Segments
  <2>1. Segment(s)
      BY <1>1 DEF Disk, Segments
  <2>2. s \in torn' \/ (segs'[s].named /\ Len(synced'[s]) >= 1)
      BY <1>2, <2>1 DEF Segment, Creating
  <2>3. /\ Len(synced[s]) <= Len(file'[s])
        /\ \A i \in 1 .. Len(synced[s]) : <<s, i>> \in overwritten \/ file'[s][i] = synced[s][i]
    <3>1. CASE file'[s] = file[s]
        BY <2>1, <3>1 DEF Segment
    <3>2. CASE file'[s] = synced[s]
        BY <1>4, <3>2
    <3> QED BY <1>5, <3>1, <3>2
  <2>4. s \notin unsure => segs[s].size <= 1 \/ segs[s].size <= Len(synced[s])
      BY <2>1 DEF Segment
  <2> QED BY <1>2, <2>2, <2>3, <2>4 DEF Segment
<1> QED BY <1>9, <1>10, <1>11, <1>12, <1>13, <1>14, <1>15 DEF IInv, Disk

\* The rows that were running are closed, and counted.
LEMMA RestartKeeps ==
    ASSUME IInv, Restart, load' = load
    PROVE  IInv'
<1>1. TypeOK /\ Duties /\ Legacy /\ Disk /\ RollupMatches
    BY DEF IInv, RollupMatches
<1>2. /\ th' = th /\ segs' = segs /\ file' = file /\ synced' = synced /\ pruned' = pruned
      /\ overwritten' = overwritten /\ unsure' = unsure /\ torn' = torn
      /\ up' = TRUE /\ crashes' = crashes /\ faults' \in Nat
  <2>1. faults \in Nat
      BY <1>1 DEF TypeOK
  <2> QED BY <2>1 DEF Restart, Fault, diskVars, history
<1>3. \/ row' = row /\ rollup' = rollup
      \/ /\ row' = [r \in Requests |->
                      IF r \in Orphans THEN [row[r] EXCEPT !.state = "failed"] ELSE row[r]]
         /\ rollup' = [rollup EXCEPT !["failed"] =
                         @ + Cardinality({r \in Orphans : ~row[r].invalid})]
    BY DEF Restart
<1>4. \A r \in Requests :
         /\ row'[r] \in Rows /\ row'[r].request = row[r].request
         /\ row'[r].response = row[r].response /\ row'[r].text = row[r].text
         /\ row[r].state = "none" => row'[r].state = "none"
  <2> SUFFICES ASSUME NEW r \in Requests
               PROVE  /\ row'[r] \in Rows /\ row'[r].request = row[r].request
                      /\ row'[r].response = row[r].response /\ row'[r].text = row[r].text
                      /\ row[r].state = "none" => row'[r].state = "none"
      OBVIOUS
  <2>1. row[r] \in Rows /\ "failed" \in FinalStates
      BY <1>1, RowTyped DEF FinalStates
  <2>2. CASE row'[r] = row[r]
      BY <2>1, <2>2
  <2>3. CASE row[r].state = "running" /\ row'[r] = [row[r] EXCEPT !.state = "failed"]
      BY <2>1, <2>3 DEF Rows
  <2> QED BY <1>3, <2>2, <2>3 DEF Orphans
<1>5. row' \in [Requests -> Rows]
    BY <1>1, <1>3, <1>4 DEF TypeOK
<1>6. rollup' \in [FinalStates -> Nat] /\ \A s \in FinalStates : rollup'[s] = Cardinality(Counted(s)')
  <2>1. rollup \in [FinalStates -> Nat] /\ \A s \in FinalStates : rollup[s] = Cardinality(Counted(s))
      BY <1>1 DEF RollupMatches, TypeOK, Counted
  <2>2. CASE row' = row /\ rollup' = rollup
    <3>1. \A s \in FinalStates : Counted(s)' = Counted(s)
        BY <2>2 DEF Counted
    <3> QED BY <2>1, <2>2, <3>1
  <2>3. CASE /\ row' = [r \in Requests |->
                          IF r \in Orphans THEN [row[r] EXCEPT !.state = "failed"] ELSE row[r]]
             /\ rollup' = [rollup EXCEPT !["failed"] =
                             @ + Cardinality({r \in Orphans : ~row[r].invalid})]
    <3> DEFINE closed == {r \in Orphans : ~row[r].invalid}
    <3>1. \A r \in Requests : /\ r \in Orphans => row'[r].state = "failed" /\ row[r].state = "running"
                              /\ r \notin Orphans => row'[r].state = row[r].state
                              /\ row'[r].invalid = row[r].invalid
      <4> SUFFICES ASSUME NEW r \in Requests
                   PROVE  /\ r \in Orphans => row'[r].state = "failed" /\ row[r].state = "running"
                          /\ r \notin Orphans => row'[r].state = row[r].state
                          /\ row'[r].invalid = row[r].invalid
          OBVIOUS
      <4>1. row[r] \in Rows
          BY <1>1, RowTyped
      <4> QED BY <2>3, <4>1 DEF Rows, Orphans
    <3>2. Orphans \subseteq Requests
        BY DEF Orphans
    <3>3. Counted("failed")' = Counted("failed") \cup closed /\ Counted("failed") \cap closed = {}
        BY <3>1, <3>2 DEF Counted
    <3>4. Counted("succeeded")' = Counted("succeeded")
        BY <3>1 DEF Counted
    <3>5. IsFiniteSet(closed) /\ IsFiniteSet(Counted("failed"))
        BY <3>2, ThreadsAssumption, FS_Subset, CountedFinite
    <3>6. /\ Cardinality(closed) \in Nat /\ Cardinality(Counted("failed")) \in Nat
          /\ Cardinality(Counted("failed")')
               = Cardinality(Counted("failed")) + Cardinality(closed) - 0
      <4>1. Cardinality({}) = 0
          BY FS_EmptySet
      <4>2. /\ Cardinality(closed) \in Nat /\ Cardinality(Counted("failed")) \in Nat
          BY <3>5, FS_CardinalityType
      <4>3. Cardinality(Counted("failed") \cup closed)
              = Cardinality(Counted("failed")) + Cardinality(closed)
                  - Cardinality(Counted("failed") \cap closed)
          BY <3>5, FS_Union
      <4> QED BY <3>3, <4>1, <4>2, <4>3
    <3>7. rollup' = [rollup EXCEPT !["failed"] = @ + Cardinality(closed)]
        BY <2>3
    <3> HIDE DEF closed
    <3>8. rollup'["failed"] = Cardinality(Counted("failed")')
          /\ rollup'["succeeded"] = Cardinality(Counted("succeeded")')
        BY <2>1, <3>4, <3>6, <3>7 DEF FinalStates
    <3>9. rollup' \in [FinalStates -> Nat]
        BY <2>1, <3>6, <3>7 DEF FinalStates
    <3> QED BY <3>8, <3>9 DEF FinalStates
  <2> QED BY <1>3, <2>2, <2>3
<1>7. TypeOK'
    BY <1>1, <1>2, <1>5, <1>6 DEF TypeOK
<1>8. RollupMatches'
    BY <1>6, <1>7 DEF RollupMatches, Counted
<1>9. Duties'
  <2>1. ASSUME NEW t \in Threads, th[t].at # "idle" PROVE Assigned(th[t], row'[th[t].of])
    <3>1. th[t].of \in Requests /\ Assigned(th[t], row[th[t].of])
        BY <1>1, <2>1, AtWork
    <3> QED BY <1>4, <3>1, AssignedKept
  <2>2. \A r \in Requests : th[r].op = "new" => row'[r].state = "none"
      BY <1>1, <1>4 DEF Duties
  <2>3. \A t \in Threads : Employed(t, th[t])
      BY <1>1 DEF Duties
  <2> QED BY <1>2, <2>1, <2>2, <2>3 DEF Duties
<1>10. \A r \in Requests : Locators(r)' = Locators(r)
    BY <1>4 DEF Locators
<1>11. Legacy'
  <2>1. load.legacy \subseteq Requests
      BY <1>1, WorkloadsAssumption DEF TypeOK
  <2>2. LegacyKept'
    <3> SUFFICES ASSUME NEW r \in load.legacy, r \notin pruned
                 PROVE  \/ row'[r].text
                        \/ {l.body : l \in Locators(r)'} = {RequestBody(r, 0), ResponseBody(r)}
        BY <1>2 DEF LegacyKept
    <3>1. row'[r].text = row[r].text /\ Locators(r)' = Locators(r)
        BY <1>4, <1>10, <2>1
    <3> QED BY <1>1, <3>1 DEF Legacy, LegacyKept
  <2> QED BY <1>1, <1>2, <1>4, <2>2 DEF Legacy
<1>12. Disk'
  <2>1. LocatorsKept' /\ Sites' /\ Creators' /\ Segments'
    <3>1. LocatorsKept'
      <4>1. DiskTyped' /\ Remains
          BY <1>1, <1>2, StaysGrows DEF DiskStays, diskVars, Grows
      <4>2. PICK t \in Threads : t = Maintenance
          BY DEF Threads
      <4>3. Given(t)
          BY <1>10 DEF Given
      <4> QED BY <1>1, <4>1, <4>3, LocatorsRemain DEF Disk
    <3>2. Sites'
      <4>1. DiskStays
          BY <1>2 DEF DiskStays, diskVars
      <4> QED BY <1>1, <1>2, <4>1, SitesStay DEF Disk
    <3>3. Creators' /\ Segments'
        BY <1>1, <1>2 DEF Disk, Creators, Segments, Segment, Creating
    <3> QED BY <3>1, <3>2, <3>3
  <2> QED BY <2>1 DEF Disk
<1> QED BY <1>8, <1>9, <1>11, <1>12 DEF IInv

LEMMA StutterKeeps ==
    ASSUME IInv, UNCHANGED vars
    PROVE  IInv'
<1>1. /\ load' = load /\ up' = up /\ th' = th /\ row' = row /\ rollup' = rollup /\ segs' = segs
      /\ file' = file /\ synced' = synced /\ faults' = faults /\ crashes' = crashes
      /\ overwritten' = overwritten /\ unsure' = unsure /\ torn' = torn /\ pruned' = pruned
    BY DEF vars, diskVars, history
<1>2. TypeOK' /\ RollupMatches'
    BY <1>1 DEF IInv, RollupMatches, TypeOK
<1>3. Duties'
    BY <1>1 DEF IInv, Duties
<1>4. Legacy'
    BY <1>1 DEF IInv, Legacy, LegacyKept, Locators
<1>5. LocatorsKept'
  <2>1. DiskTyped' /\ Remains
      BY <1>1, StaysGrows DEF IInv, RollupMatches, DiskStays, diskVars, Grows
  <2>2. PICK t \in Threads : t = Maintenance
      BY DEF Threads
  <2>3. Given(t)
      BY <1>1 DEF Given, Locators
  <2> QED BY <2>1, <2>3, LocatorsRemain DEF IInv, RollupMatches, Disk
<1>6. Sites'
    BY <1>1, SitesStay DEF IInv, Disk, DiskStays, diskVars
<1>7. Creators' /\ Segments'
    BY <1>1 DEF IInv, Disk, Creators, Segments, Segment, Creating
<1> QED BY <1>2, <1>3, <1>4, <1>5, <1>6, <1>7 DEF IInv, Disk

LEMMA FaultsTyped ==
    ASSUME faults \in Nat, Fault \/ UNCHANGED faults
    PROVE  faults' \in Nat
  BY DEF Fault

LEMMA RequestFaults ==
    ASSUME NEW r \in Requests, RequestStep(r)
    PROVE  Fault \/ UNCHANGED faults
  BY DEF RequestStep, Insert, InsertFails, Dump, DumpRefused, FinishRequest, PersistResult,
         PersistRefused, Invalidate, Migrate, PruneDetails

LEMMA AppendFaults ==
    ASSUME NEW t \in Threads, AppendStep(t)
    PROVE  Fault \/ UNCHANGED faults
<1>1. Reported(t) => Fault \/ UNCHANGED faults
    BY DEF Reported
<1> QED BY <1>1 DEF AppendStep, Select, Close, Create, CreateRefused, Name, WriteHeader, SyncHeader,
                    Seek, Repair, Write, WriteFails, Sync, RecordSize, Retire, Fails, CommitDump,
                    CommitOutcome, CommitMigration

\* A step of the running server is a step of one thread on one row.
LEMMA ServerStep ==
    ASSUME IInv, load' = load,
           \/ \E r \in Requests : RequestStep(r)
           \/ \E t \in Threads : AppendStep(t)
    PROVE  /\ faults' \in Nat
           /\ \E t \in Threads : Does(t)
<1>1. TypeOK /\ Duties /\ Legacy /\ Disk
    BY DEF IInv, RollupMatches
<1>2. faults \in Nat
    BY <1>1 DEF TypeOK
<1>3. CASE \E r \in Requests : RequestStep(r)
  <2>1. PICK r \in Requests : RequestStep(r)
      BY <1>3
  <2> QED BY <1>1, <1>2, <2>1, RequestFaults, FaultsTyped, RequestDoes
<1>4. CASE \E t \in Threads : AppendStep(t)
  <2>1. PICK t \in Threads : AppendStep(t)
      BY <1>4
  <2> QED BY <1>1, <1>2, <2>1, AppendFaults, FaultsTyped, AppendDoes
<1> QED BY <1>3, <1>4

LEMMA NextKeeps ==
    ASSUME IInv, [Next]_vars
    PROVE  IInv'
<1>1. CASE UNCHANGED vars
    BY <1>1, StutterKeeps
<1>2. CASE Next
  <2>1. load' = load
      BY <1>2 DEF Next
  <2>2. CASE Crash
      BY <2>1, <2>2, CrashKeeps
  <2>3. CASE Restart
      BY <2>1, <2>3, RestartKeeps
  <2>4. CASE /\ up /\ UNCHANGED <<up, crashes>>
             /\ \/ \E r \in Requests : RequestStep(r)
                \/ \E t \in Threads : AppendStep(t)
    <3>1. PICK t \in Threads : Does(t)
        BY <2>1, <2>4, ServerStep
    <3>2. up' \in BOOLEAN /\ crashes' \in Nat
        BY <2>4 DEF IInv, RollupMatches, TypeOK
    <3>3. faults' \in Nat
        BY <2>1, <2>4, ServerStep
    <3> QED BY <2>1, <3>1, <3>2, <3>3, DoesKeeps
  <2> QED BY <1>2, <2>2, <2>3, <2>4 DEF Next
<1> QED BY <1>1, <1>2

\* An open segment that was not cut short is being created, or complete.
LEMMA SegmentsOpen ==
    ASSUME IInv
    PROVE  RefusedOnlyByTornCreation
<1> SUFFICES ASSUME NEW s \in Open \ torn
             PROVE  \/ \E t \in Threads : th[t].at \in Creation /\ th[t].seg = s
                    \/ segs[s].named /\ Len(file[s]) >= 1
    BY DEF RefusedOnlyByTornCreation
<1>1. s \in DOMAIN segs /\ s \notin torn
    BY DEF Open
<1>2. Segment(s)
    BY <1>1 DEF IInv, Disk, Segments
<1>3. Len(synced[s]) \in Nat /\ Len(file[s]) \in Nat
    BY <1>1, DiskTypes DEF IInv, RollupMatches
<1> QED BY <1>1, <1>2, <1>3 DEF Segment, Creating

\* What is durable at a locator and was not overwritten is read.
LEMMA LocatorsRead ==
    ASSUME IInv
    PROVE  LossExplained
<1> SUFFICES ASSUME NEW r \in Requests, NEW l \in Locators(r), l.seg \notin unsure,
                    \A i \in 1 .. Length(l.body) : <<l.seg, l.off + i>> \notin overwritten
             PROVE  Readable(l)
    BY DEF LossExplained
<1>1. TypeOK /\ Disk
    BY DEF IInv, RollupMatches
<1>2. l \in Details /\ Kept(l)
    BY <1>1, LocatorTyped DEF Disk, LocatorsKept
<1> DEFINE f == file[l.seg]
           g == synced[l.seg]
           n == Length(l.body)
<1>3. l.seg \in DOMAIN segs /\ l.off \in Nat /\ l.body \in Bodies /\ n \in Nat
    BY <1>2, LengthAssumption DEF Details, Kept
<1>4. f \in Seq(Cells) /\ Len(f) \in Nat /\ Len(g) \in Nat
    BY <1>1, <1>3, DiskTypes
<1>5. l.off + n <= Len(g) /\ \A i \in 1 .. n : g[l.off + i] = <<l.body, i>>
    BY <1>2 DEF Kept, InFile
<1>6. Len(g) <= Len(f) /\ \A i \in 1 .. Len(g) : <<l.seg, i>> \in overwritten \/ f[i] = g[i]
    BY <1>1, <1>3 DEF Disk, Segments, Segment
<1> HIDE DEF f, g, n
<1>7. l.off + n <= Len(f)
    BY <1>3, <1>4, <1>5, <1>6
<1>8. ASSUME NEW i \in 1 .. n PROVE f[l.off + i] = <<l.body, i>>
  <2>1. l.off + i \in 1 .. Len(g)
      BY <1>3, <1>4, <1>5
  <2>2. <<l.seg, l.off + i>> \notin overwritten
      BY DEF n
  <2> QED BY <1>5, <1>6, <2>1, <2>2
<1> DEFINE part == SubSeq(f, l.off + 1, l.off + n)
<1>9. part = [i \in 1 .. n |-> f[l.off + 1 + i - 1]]
  <2>1. PICK m \in Int, k \in Int : m = l.off + 1 /\ k = l.off + n
      BY <1>3
  <2>2. \A i \in m .. k : f[i] \in Cells
      BY <1>3, <1>4, <1>7, <2>1
  <2>3. /\ SubSeq(f, m, k) \in Seq(Cells)
        /\ Len(SubSeq(f, m, k)) = IF m <= k THEN k - m + 1 ELSE 0
        /\ \A i \in 1 .. k - m + 1 : SubSeq(f, m, k)[i] = f[m + i - 1]
      BY <2>2, SubSeqProperties
  <2>4. part = SubSeq(f, m, k) /\ k - m + 1 = n /\ (m <= k <=> n > 0)
      BY <1>3, <2>1
  <2>5. part \in Seq(Cells) /\ Len(part) = n /\ \A i \in 1 .. n : part[i] = f[l.off + 1 + i - 1]
      BY <1>3, <2>1, <2>3, <2>4
  <2> HIDE DEF part
  <2> QED BY <2>5
<1>10. \A i \in 1 .. n : f[l.off + 1 + i - 1] = <<l.body, i>>
  <2>1. \A i \in 1 .. n : l.off + 1 + i - 1 = l.off + i
      BY <1>3
  <2> QED BY <1>8, <2>1
<1> HIDE DEF part
<1>11. part = [i \in 1 .. n |-> <<l.body, i>>]
    BY <1>9, <1>10
<1> QED BY <1>7, <1>11 DEF Readable, Record, part, f, n

\* No step gives a row another request dump or response than it had.
LEMMA CapturesStay ==
    ASSUME IInv, [Next]_vars, NEW q \in Requests
    PROVE  /\ row[q].request # NoLocator /\ row'[q].request # NoLocator =>
                row'[q].request.body = row[q].request.body
           /\ row[q].response # NoLocator /\ row'[q].response # NoLocator =>
                row'[q].response.body = row[q].response.body
<1>1. row[q] \in Rows /\ TypeOK
    BY RowTyped DEF IInv, RollupMatches
<1>2. CASE UNCHANGED vars \/ Crash
    BY <1>2 DEF vars, Crash
<1>3. CASE Restart
  <2>1. row'[q] = row[q] \/ row'[q] = [row[q] EXCEPT !.state = "failed"]
      BY <1>3 DEF Restart
  <2> QED BY <1>1, <2>1 DEF Rows
<1>4. CASE Next /\ ( \/ \E r \in Requests : RequestStep(r)
                     \/ \E t \in Threads : AppendStep(t))
  <2>1. PICK t \in Threads : Does(t)
      BY <1>4, ServerStep DEF Next
  <2>2. PICK y, r, rw : Effect(t, y, r, rw) /\ Books(r, rw)
      BY <2>1 DEF Does
  <2>3. r \in Requests /\ row' = [row EXCEPT ![r] = rw]
      BY <2>2 DEF Effect
  <2>4. CASE q = r
      BY <1>1, <2>2, <2>3, <2>4 DEF Books, TypeOK
  <2>5. CASE q # r
      BY <1>1, <2>3, <2>5 DEF TypeOK
  <2> QED BY <2>4, <2>5
<1> QED BY <1>2, <1>3, <1>4 DEF Next

-----------------------------------------------------------------------------
(* Theorems                                                                 *)

(* Rows, rollups, threads, segments and files keep the invariant.           *)
THEOREM IInvHolds == Spec => []IInv
<1>1. Init => IInv
    BY InitIInv
<1>2. IInv /\ [Next]_vars => IInv'
    BY NextKeeps
<1> QED BY <1>1, <1>2, PTL DEF Spec

(* llm_request_usage_rollups counts what llm_requests holds: a request that *)
(* is finalized twice, invalidated while it runs, or closed by the startup  *)
(* reconciliation is counted once or not at all.                            *)
THEOREM CountsMatch == Spec => []RollupMatches
<1>1. IInv => RollupMatches
    BY DEF IInv
<1> QED BY <1>1, IInvHolds, PTL

(* read_detail reads a locator of a row after any failed writes, crashes    *)
(* and losses of power, unless its bytes were written over or its offset    *)
(* was counted from a size that was never durable.                          *)
THEOREM LocatorsLost == Spec => []LossExplained
<1>1. IInv => LossExplained
    BY LocatorsRead
<1> QED BY <1>1, IInvHolds, PTL

(* open_active_segment_for_append finds a name and a header in every open   *)
(* segment that no thread is creating, but one whose creation was cut short.*)
THEOREM AppendsRefused == Spec => []RefusedOnlyByTornCreation
<1>1. IInv => RefusedOnlyByTornCreation
    BY SegmentsOpen
<1> QED BY <1>1, IInvHolds, PTL

(* The migration of old dumps to segments and the retention leave every     *)
(* dump in the row or reachable from it, wherever they are interrupted.     *)
THEOREM LegacyStays == Spec => []LegacyKept
<1>1. IInv => LegacyKept
    BY DEF IInv, Legacy
<1> QED BY <1>1, IInvHolds, PTL

(* No update of a row replaces a captured request or response by another.   *)
THEOREM CapturesKept == Spec => FirstCaptureWins
<1>1. IInv /\ [Next]_vars =>
        [\A r \in Requests : \A c \in {"request", "response"} :
            row[r][c] # NoLocator /\ row'[r][c] # NoLocator => row'[r][c].body = row[r][c].body]_vars
  <2> SUFFICES ASSUME IInv, [Next]_vars, NEW r \in Requests, NEW c \in {"request", "response"},
                      row[r][c] # NoLocator, row'[r][c] # NoLocator
               PROVE  row'[r][c].body = row[r][c].body
      OBVIOUS
  <2>1. CASE c = "request"
      BY <2>1, CapturesStay
  <2>2. CASE c = "response"
      BY <2>2, CapturesStay
  <2> QED BY <2>1, <2>2
<1> QED BY <1>1, IInvHolds, PTL DEF Spec, FirstCaptureWins
=============================================================================
