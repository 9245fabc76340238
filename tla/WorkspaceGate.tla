---------------------------- MODULE WorkspaceGate ---------------------------
(***************************************************************************)
(* The process-local concurrency gate of one workspace database            *)
(* (store/workspace_gate.rs): two counting semaphores with FIFO queues and *)
(* a deadline, and the ledger of holders that timeout reports quote.  An   *)
(* ordinary opener takes an "ordinary" slot and then a "total" slot, a     *)
(* critical opener only a "total" slot.                                    *)
(*                                                                         *)
(* Every critical section of a semaphore's or the ledger's mutex is one    *)
(* action.  An element of Opens is one call of open_workspace_database*    *)
(* together with the handle it returns; it may be issued while the same    *)
(* thread still holds an earlier handle (outer).                           *)
(***************************************************************************)
EXTENDS Integers, Sequences, FiniteSets

CONSTANTS Opens,               \* open calls that may be in progress at once
          NoOpen,              \* "not nested in another open"
          TotalCapacity,       \* WORKSPACE_DATABASE_TOTAL_CAPACITY
          OrdinaryCapacity     \* WORKSPACE_DATABASE_ORDINARY_CAPACITY

ASSUME OpensAssumption == IsFiniteSet(Opens) /\ NoOpen \notin Opens
ASSUME CapacityAssumption ==
    /\ OrdinaryCapacity \in Nat \ {0}
    /\ TotalCapacity \in Nat
    /\ OrdinaryCapacity < TotalCapacity

Kinds == {"ordinary", "critical"}
Slots == {"ordinary", "total"}
Capacity(s) == IF s = "ordinary" THEN OrdinaryCapacity ELSE TotalCapacity

VARIABLES
    pc,        \* pc[o]: where the open call, or the drop of its handle, is
    slot,      \* slot[o]: the semaphore o is acquiring
    kind,      \* kind[o]: WorkspaceDatabaseGateKind
    outer,     \* outer[o]: the handle its thread holds meanwhile, or NoOpen
    expired,   \* expired[o]: started_at.elapsed() >= timeout
    held,      \* held[o]: the SemaphorePermits o owns
    available, \* available[s]: CountingSemaphoreState.available
    queue,     \* queue[s]: CountingSemaphoreState.queue
    ledger     \* WorkspaceDatabaseHolderLedger.holders

vars == <<pc, slot, kind, outer, expired, held, available, queue, ledger>>

PCs == {"idle",       \* not called, or returned and its handle gone
        "acquiring",  \* about to lock the semaphore in acquire_until
        "queued",     \* in the wait loop of acquire_until
        "timed_out",  \* acquire_until returned None
        "granted",    \* owns its permits, not yet in the ledger
        "opening",    \* in the ledger, opening SQLite
        "open",       \* the caller owns the handle
        "releasing"}  \* out of the ledger, giving its permits back

Waiting == {"acquiring", "queued"}

TypeOK ==
    /\ pc \in [Opens -> PCs]
    /\ slot \in [Opens -> Slots]
    /\ kind \in [Opens -> Kinds]
    /\ outer \in [Opens -> Opens \cup {NoOpen}]
    /\ expired \in [Opens -> BOOLEAN]
    /\ held \in [Opens -> SUBSET Slots]
    /\ available \in [Slots -> Nat]
    /\ queue \in [Slots -> Seq(Opens)]
    /\ ledger \in SUBSET Opens

Init ==
    /\ pc = [o \in Opens |-> "idle"]
    /\ slot = [o \in Opens |-> "total"]
    /\ kind = [o \in Opens |-> "critical"]
    /\ outer = [o \in Opens |-> NoOpen]
    /\ expired = [o \in Opens |-> FALSE]
    /\ held = [o \in Opens |-> {}]
    /\ available = [s \in Slots |-> Capacity(s)]
    /\ queue = [s \in Slots |-> <<>>]
    /\ ledger = {}

-----------------------------------------------------------------------------
(* acquire_workspace_database_permits: the call starts its clock and heads  *)
(* for its first semaphore.  A thread can nest it in a handle it holds.     *)

FirstSlotAlwaysTotal(k) == "total"

FirstSlot(k) == IF k = "ordinary" THEN "ordinary" ELSE "total"

Nested(o) == \E i \in Opens : outer[i] = o

Begin(o, k, h) ==
    /\ pc[o] = "idle"
    /\ h # NoOpen => pc[h] = "open" /\ ~Nested(h)
    /\ pc' = [pc EXCEPT ![o] = "acquiring"]
    /\ slot' = [slot EXCEPT ![o] = FirstSlot(k)]
    /\ kind' = [kind EXCEPT ![o] = k]
    /\ outer' = [outer EXCEPT ![o] = h]
    /\ expired' = [expired EXCEPT ![o] = FALSE]
    /\ UNCHANGED <<held, available, queue, ledger>>

(* The deadline of the call passes.  started_at is taken once, so the wait  *)
(* for the total slot inherits what the wait for the ordinary slot left.    *)
Expire(o) ==
    /\ pc[o] \in Waiting
    /\ ~expired[o]
    /\ expired' = [expired EXCEPT ![o] = TRUE]
    /\ UNCHANGED <<pc, slot, kind, outer, held, available, queue, ledger>>

-----------------------------------------------------------------------------
(* CountingSemaphore::acquire_until                                         *)

\* The permit of the semaphore is handed to o, which goes on to the total
\* slot or, having that one, returns with its permits.
Take(o) ==
    LET s == slot[o] IN
    /\ available[s] > 0
    /\ available' = [available EXCEPT ![s] = @ - 1]
    /\ held' = [held EXCEPT ![o] = @ \cup {s}]
    /\ slot' = [slot EXCEPT ![o] = "total"]
    /\ pc' = [pc EXCEPT ![o] = IF s = "ordinary" THEN "acquiring" ELSE "granted"]
    /\ UNCHANGED <<kind, outer, expired, ledger>>

\* Fast path: nobody waits and a permit is free.
TakeAtOnceBarging(o) ==
    /\ pc[o] = "acquiring"
    /\ Take(o)
    /\ UNCHANGED queue

TakeAtOnce(o) ==
    /\ pc[o] = "acquiring"
    /\ queue[slot[o]] = <<>>
    /\ Take(o)
    /\ UNCHANGED queue

\* Slow path: push_back and, in the same critical section, the first turn of
\* the loop; a call that is already late leaves the queue again at once.
Blocked(o) == queue[slot[o]] # <<>> \/ available[slot[o]] = 0

Enqueue(o) ==
    /\ pc[o] = "acquiring"
    /\ Blocked(o)
    /\ ~expired[o]
    /\ pc' = [pc EXCEPT ![o] = "queued"]
    /\ queue' = [queue EXCEPT ![slot[o]] = Append(@, o)]
    /\ UNCHANGED <<slot, kind, outer, expired, held, available, ledger>>

RefuseLate(o) ==
    /\ pc[o] = "acquiring"
    /\ Blocked(o)
    /\ expired[o]
    /\ pc' = [pc EXCEPT ![o] = "timed_out"]
    /\ UNCHANGED <<slot, kind, outer, expired, held, available, queue, ledger>>

AtFront(o) == queue[slot[o]] # <<>> /\ Head(queue[slot[o]]) = o

\* A turn of the loop (after a notify_all or a 10 ms poll) that finds the
\* caller at the front and a permit free.
TakeAtFront(o) ==
    /\ pc[o] = "queued"
    /\ AtFront(o)
    /\ Take(o)
    /\ queue' = [queue EXCEPT ![slot[o]] = Tail(@)]

\* queue.retain(|queued_id| queued_id != waiter_id): waiter ids are unique, so
\* one entry goes and the entries behind it move up.
Without(q, o) ==
    LET k == CHOOSE i \in 1..Len(q) : q[i] = o
    IN  [i \in 1..(Len(q) - 1) |-> IF i < k THEN q[i] ELSE q[i + 1]]

\* A turn of the loop that finds neither, after the deadline: retain(!= me).
GiveUpUnlessFront(o) ==
    /\ pc[o] = "queued"
    /\ ~AtFront(o)
    /\ expired[o]
    /\ queue' = [queue EXCEPT ![slot[o]] = Without(@, o)]
    /\ pc' = [pc EXCEPT ![o] = "timed_out"]
    /\ UNCHANGED <<slot, kind, outer, expired, held, available, ledger>>

GiveUp(o) ==
    /\ pc[o] = "queued"
    /\ ~(AtFront(o) /\ available[slot[o]] > 0)
    /\ expired[o]
    /\ queue' = [queue EXCEPT ![slot[o]] = Without(@, o)]
    /\ pc' = [pc EXCEPT ![o] = "timed_out"]
    /\ UNCHANGED <<slot, kind, outer, expired, held, available, ledger>>

-----------------------------------------------------------------------------
(* SemaphorePermit::drop and its callers                                    *)

Release(o, s) ==
    /\ s \in held[o]
    /\ available' = [available EXCEPT ![s] = @ + 1]
    /\ held' = [held EXCEPT ![o] = @ \ {s}]

Return(o) ==
    /\ pc' = [pc EXCEPT ![o] = "idle"]
    /\ outer' = [outer EXCEPT ![o] = NoOpen]

\* acquire_workspace_database_permits returns ConcurrencyLimit; `?` drops the
\* ordinary permit of a call that failed to get the total one.
FailLeakingOrdinary(o) ==
    /\ pc[o] = "timed_out"
    /\ Return(o)
    /\ held' = [held EXCEPT ![o] = {}]
    /\ UNCHANGED <<slot, kind, expired, available, queue, ledger>>

Fail(o) ==
    /\ pc[o] = "timed_out"
    /\ IF held[o] = {} THEN UNCHANGED <<available, held>>
                       ELSE Release(o, "ordinary")
    /\ Return(o)
    /\ UNCHANGED <<slot, kind, expired, queue, ledger>>

\* register_holder, before SQLite is opened.
RegisterHolder(o) ==
    /\ pc[o] = "granted"
    /\ ledger' = ledger \cup {o}
    /\ pc' = [pc EXCEPT ![o] = "opening"]
    /\ UNCHANGED <<slot, kind, outer, expired, held, available, queue>>

OpenDatabase(o) ==
    /\ pc[o] = "opening"
    /\ pc' = [pc EXCEPT ![o] = "open"]
    /\ UNCHANGED <<slot, kind, outer, expired, held, available, queue, ledger>>

\* The handle is dropped, or opening SQLite failed: the registration goes
\* first, the permits after it.
DropHolderLate(o) ==
    /\ pc[o] = "opening" \/ (pc[o] = "open" /\ ~Nested(o))
    /\ pc' = [pc EXCEPT ![o] = "releasing"]
    /\ UNCHANGED <<slot, kind, outer, expired, held, available, queue, ledger>>

DropHolder(o) ==
    /\ pc[o] = "opening" \/ (pc[o] = "open" /\ ~Nested(o))
    /\ ledger' = ledger \ {o}
    /\ pc' = [pc EXCEPT ![o] = "releasing"]
    /\ UNCHANGED <<slot, kind, outer, expired, held, available, queue>>

\* Fields of WorkspaceDatabasePermits drop in declaration order: total first.
DropPermit(o) ==
    /\ pc[o] = "releasing"
    /\ IF "total" \in held[o] THEN Release(o, "total")
                              ELSE Release(o, "ordinary")
    /\ UNCHANGED <<pc, slot, kind, outer, expired, queue, ledger>>

CloseDatabase(o) ==
    /\ pc[o] = "releasing"
    /\ held[o] = {}
    /\ Return(o)
    /\ UNCHANGED <<slot, kind, expired, held, available, queue, ledger>>

-----------------------------------------------------------------------------
Acquire(o) ==
    \/ TakeAtOnce(o) \/ Enqueue(o) \/ RefuseLate(o)
    \/ TakeAtFront(o) \/ GiveUp(o)

Next ==
    \E o \in Opens :
        \/ \E k \in Kinds, h \in Opens \cup {NoOpen} : Begin(o, k, h)
        \/ Expire(o)
        \/ Acquire(o)
        \/ Fail(o) \/ RegisterHolder(o) \/ OpenDatabase(o)
        \/ DropHolder(o) \/ DropPermit(o) \/ CloseDatabase(o)

Spec == Init /\ [][Next]_vars

(* Threads inside acquire_until are never blocked for longer than a poll    *)
(* (wait_timeout), time passes, and SQLite either opens or fails.  Nothing  *)
(* forces a caller to drop its handle.                                      *)
Fairness ==
    \A o \in Opens :
        /\ WF_vars(Expire(o))
        /\ WF_vars(Acquire(o))
        /\ WF_vars(Fail(o))

FairSpec == Spec /\ Fairness
-----------------------------------------------------------------------------
HoldersOf(s) == {o \in Opens : s \in held[o]}

(* No permit is lost or invented on any path: fast, queued, timed out on    *)
(* the second semaphore, failed open, drop in two steps.                    *)
PermitConservation ==
    \A s \in Slots : available[s] + Cardinality(HoldersOf(s)) = Capacity(s)

(* Ordinary openers alone can never exhaust the total capacity: whenever no *)
(* total permit is left, a critical opener owns one of them.                *)
CriticalReserve ==
    available["total"] = 0 => \E o \in HoldersOf("total") : kind[o] = "critical"

(* A queue holds exactly the calls that are waiting in it, each once: a     *)
(* call that timed out cannot stay in front and block the ones behind.      *)
QueuesHoldWaiters ==
    \A s \in Slots :
        /\ \A o \in Opens : (pc[o] = "queued" /\ slot[o] = s)
                             <=> \E i \in 1..Len(queue[s]) : queue[s][i] = o
        /\ \A i, j \in 1..Len(queue[s]) : queue[s][i] = queue[s][j] => i = j

(* All the permits of a call of kind k. *)
Full(k) == IF k = "ordinary" THEN Slots ELSE {"total"}

(* A timeout report attributes permits only to calls that own all the       *)
(* permits of their kind, and its cut at TotalCapacity entries hides none.  *)
LedgerShowsOwners ==
    /\ \A o \in ledger : held[o] = Full(kind[o])
    /\ Cardinality(ledger) <= TotalCapacity

(* A permit is taken by a new call only when no call is waiting for it, and *)
(* by a waiting call only when every call queued before it has left.        *)
NoOvertaking ==
    [][\A s \in Slots, o \in Opens :
          (s \in held'[o] /\ s \notin held[o])
             => queue[s] = <<>> \/ queue[s] = <<o>> \o queue'[s]]_vars

(* Every open call returns a permit or an error even if every handle is     *)
(* held forever, nested opens of the same threads included.                 *)
OpenResolves ==
    \A o \in Opens : pc[o] \in Waiting ~> pc[o] \notin Waiting \cup {"timed_out"}

OrdinaryHolders == {o \in HoldersOf("total") : kind[o] = "ordinary"}
CriticalHolders == {o \in HoldersOf("total") : kind[o] = "critical"}

(* The gate implements the promise of CapacityGate.                         *)
Promise == INSTANCE CapacityGate WITH
    ordinaryUse <- OrdinaryHolders, criticalUse <- CriticalHolders

PromiseKept == Promise!Spec
=============================================================================
