------------------------ MODULE WorkspaceGate_proofs ------------------------
(***************************************************************************)
(* Safety of the workspace database gate for every finite set of openers   *)
(* and every pair of capacities with OrdinaryCapacity < TotalCapacity.     *)
(*                                                                         *)
(* Neither PermitConservation nor CriticalReserve is inductive: that a     *)
(* permit is dropped exactly once depends on which permits an open call    *)
(* owns at each point of its life, which OwnedByPC records.                *)
(***************************************************************************)
EXTENDS WorkspaceGate, FiniteSetTheorems, TLAPS

(* Which permits a call owns, by program point. *)
OwnedByPC ==
    \A o \in Opens :
        /\ "total" \in held[o] => pc[o] \in {"granted", "opening", "open", "releasing"}
        /\ "ordinary" \in held[o]
              => pc[o] # "idle" /\ kind[o] = "ordinary" /\ slot[o] = "total"
        /\ pc[o] \in {"granted", "opening", "open"} => "total" \in held[o]
        /\ kind[o] = "ordinary" /\ "total" \in held[o] => "ordinary" \in held[o]
        /\ kind[o] = "ordinary" /\ slot[o] = "total"
             /\ pc[o] \in {"acquiring", "queued", "timed_out"} => "ordinary" \in held[o]
        /\ pc[o] \in {"acquiring", "queued", "timed_out"} /\ slot[o] = "ordinary"
              => kind[o] = "ordinary"
        /\ o \in ledger <=> pc[o] \in {"opening", "open"}

IInv == TypeOK /\ OwnedByPC /\ PermitConservation /\ QueuesHoldWaiters

(* Every step keeps the variables in their types. *)
LEMMA TypeStep == TypeOK /\ QueuesHoldWaiters /\ [Next]_vars => TypeOK'
<1> SUFFICES ASSUME TypeOK, QueuesHoldWaiters, [Next]_vars PROVE TypeOK'
    OBVIOUS
<1> USE DEF TypeOK, PCs, Slots, Kinds
<1>1. CASE UNCHANGED vars
    BY <1>1 DEF vars
<1>2. ASSUME NEW o \in Opens, NEW k \in Kinds, NEW h \in Opens \cup {NoOpen},
             Begin(o, k, h)
      PROVE  TypeOK'
    BY <1>2 DEF Begin, FirstSlot
<1>3. ASSUME NEW o \in Opens, Expire(o) PROVE TypeOK'
    BY <1>3 DEF Expire
<1>4. ASSUME NEW o \in Opens, Take(o), queue' \in [Slots -> Seq(Opens)]
      PROVE  TypeOK'
    BY <1>4 DEF Take
<1>5. ASSUME NEW o \in Opens, TakeAtOnce(o) PROVE TypeOK'
    BY <1>4, <1>5 DEF TakeAtOnce
<1>6. ASSUME NEW o \in Opens, Enqueue(o) PROVE TypeOK'
    BY <1>6 DEF Enqueue
<1>6a. ASSUME NEW o \in Opens, RefuseLate(o) PROVE TypeOK'
    BY <1>6a DEF RefuseLate
<1>7. ASSUME NEW o \in Opens, TakeAtFront(o) PROVE TypeOK'
  <2>1. Tail(queue[slot[o]]) \in Seq(Opens)
      BY <1>7 DEF TakeAtFront, AtFront
  <2>2. queue' \in [Slots -> Seq(Opens)]
      BY <1>7, <2>1 DEF TakeAtFront
  <2> QED BY <1>4, <1>7, <2>2 DEF TakeAtFront
<1>8. ASSUME NEW o \in Opens, GiveUp(o) PROVE TypeOK'
  <2>1. PICK i \in 1..Len(queue[slot[o]]) : queue[slot[o]][i] = o
      BY <1>8 DEF GiveUp, QueuesHoldWaiters
  <2>2. Without(queue[slot[o]], o) \in Seq(Opens)
      BY <2>1 DEF Without
  <2> QED BY <1>8, <2>2 DEF GiveUp
<1>9. ASSUME NEW o \in Opens, Fail(o) PROVE TypeOK'
    BY <1>9 DEF Fail, Release, Return
<1>10. ASSUME NEW o \in Opens, RegisterHolder(o) PROVE TypeOK'
    BY <1>10 DEF RegisterHolder
<1>11. ASSUME NEW o \in Opens, OpenDatabase(o) PROVE TypeOK'
    BY <1>11 DEF OpenDatabase
<1>12. ASSUME NEW o \in Opens, DropHolder(o) PROVE TypeOK'
    BY <1>12 DEF DropHolder
<1>13. ASSUME NEW o \in Opens, DropPermit(o) PROVE TypeOK'
  <2>1. PICK s \in Slots : Release(o, s)
      BY <1>13 DEF DropPermit
  <2> QED BY <1>13, <2>1 DEF DropPermit, Release
<1>14. ASSUME NEW o \in Opens, CloseDatabase(o) PROVE TypeOK'
    BY <1>14 DEF CloseDatabase, Return
<1> QED
    BY <1>1, <1>2, <1>3, <1>5, <1>6, <1>6a, <1>7, <1>8, <1>9, <1>10, <1>11, <1>12,
       <1>13, <1>14 DEF Next, Acquire

-----------------------------------------------------------------------------
(* Every step keeps the correspondence between program point and permits.   *)
LEMMA OwnedStep == TypeOK /\ OwnedByPC /\ [Next]_vars => OwnedByPC'
<1> SUFFICES ASSUME TypeOK, OwnedByPC, [Next]_vars PROVE OwnedByPC'
    OBVIOUS
<1> USE DEF TypeOK, OwnedByPC, PCs, Slots, Kinds
<1>1. CASE UNCHANGED vars
    BY <1>1 DEF vars
<1>2. ASSUME NEW o \in Opens, NEW k \in Kinds, NEW h \in Opens \cup {NoOpen},
             Begin(o, k, h)
      PROVE  OwnedByPC'
    BY <1>2 DEF Begin, FirstSlot
<1>3. ASSUME NEW o \in Opens, Expire(o) PROVE OwnedByPC'
    BY <1>3 DEF Expire
<1>4. ASSUME NEW o \in Opens, Take(o), pc[o] \in Waiting PROVE OwnedByPC'
    BY <1>4 DEF Take, Waiting
<1>5. ASSUME NEW o \in Opens, TakeAtOnce(o) PROVE OwnedByPC'
    BY <1>4, <1>5 DEF TakeAtOnce, Waiting
<1>6. ASSUME NEW o \in Opens, Enqueue(o) PROVE OwnedByPC'
    BY <1>6 DEF Enqueue
<1>7. ASSUME NEW o \in Opens, RefuseLate(o) PROVE OwnedByPC'
    BY <1>7 DEF RefuseLate
<1>8. ASSUME NEW o \in Opens, TakeAtFront(o) PROVE OwnedByPC'
    BY <1>4, <1>8 DEF TakeAtFront, Waiting
<1>9. ASSUME NEW o \in Opens, GiveUp(o) PROVE OwnedByPC'
    BY <1>9 DEF GiveUp
<1>10. ASSUME NEW o \in Opens, Fail(o) PROVE OwnedByPC'
    BY <1>10 DEF Fail, Release, Return
<1>11. ASSUME NEW o \in Opens, RegisterHolder(o) PROVE OwnedByPC'
    BY <1>11 DEF RegisterHolder
<1>12. ASSUME NEW o \in Opens, OpenDatabase(o) PROVE OwnedByPC'
    BY <1>12 DEF OpenDatabase
<1>13. ASSUME NEW o \in Opens, DropHolder(o) PROVE OwnedByPC'
    BY <1>13 DEF DropHolder
<1>14. ASSUME NEW o \in Opens, DropPermit(o) PROVE OwnedByPC'
  <2>1. PICK s \in Slots : Release(o, s) /\ ("total" \in held[o] <=> s = "total")
      BY <1>14 DEF DropPermit
  <2>2. pc[o] = "releasing" /\ UNCHANGED <<pc, slot, kind, ledger>>
      BY <1>14 DEF DropPermit
  <2>3. CASE s = "total"
      BY <2>1, <2>2, <2>3 DEF Release
  <2>4. CASE s = "ordinary"
      BY <2>1, <2>2, <2>4 DEF Release
  <2> QED BY <2>3, <2>4
<1>15. ASSUME NEW o \in Opens, CloseDatabase(o) PROVE OwnedByPC'
    BY <1>15 DEF CloseDatabase, Return
<1> QED
    BY <1>1, <1>2, <1>3, <1>5, <1>6, <1>7, <1>8, <1>9, <1>10, <1>11, <1>12,
       <1>13, <1>14, <1>15 DEF Next, Acquire

-----------------------------------------------------------------------------
(* The set of owners of a permit is a finite set.                           *)
LEMMA HoldersFinite == \A s : IsFiniteSet(HoldersOf(s))
<1>1. \A s : HoldersOf(s) \in SUBSET Opens
    BY DEF HoldersOf
<1> QED BY <1>1, OpensAssumption, FS_Subset

(* Taking a permit one does not own moves it from the semaphore to the call. *)
LEMMA TakeConserves ==
    ASSUME TypeOK, PermitConservation, NEW o \in Opens, Take(o), slot[o] \notin held[o]
    PROVE  PermitConservation'
<1> PICK s \in Slots : s = slot[o]
    BY DEF TypeOK
<1> USE DEF TypeOK
<1>1. s \in Slots /\ available[s] \in Nat /\ available[s] > 0
    BY DEF Take
<1>2. HoldersOf(s)' = HoldersOf(s) \cup {o} /\ o \notin HoldersOf(s)
  <2>1. held' = [held EXCEPT ![o] = @ \cup {s}]
      BY DEF Take
  <2> QED BY <1>1, <2>1 DEF HoldersOf
<1>3. Cardinality(HoldersOf(s)') = Cardinality(HoldersOf(s)) + 1
  <2>1. IsFiniteSet(HoldersOf(s))
      BY HoldersFinite
  <2>2. Cardinality(HoldersOf(s) \cup {o}) = Cardinality(HoldersOf(s)) + 1
      BY ONLY <1>2, <2>1, FS_AddElement
  <2> QED BY ONLY <1>2, <2>2
<1>4. \A t \in Slots \ {s} : HoldersOf(t)' = HoldersOf(t) /\ available'[t] = available[t]
    BY DEF HoldersOf, Take
<1>5. available'[s] = available[s] - 1
    BY <1>1 DEF Take
<1>6. Cardinality(HoldersOf(s)) \in Nat
    BY HoldersFinite, FS_CardinalityType
<1>7. available[s] + Cardinality(HoldersOf(s)) = Capacity(s)
    BY <1>1 DEF PermitConservation
<1>8. available'[s] + Cardinality(HoldersOf(s)') = Capacity(s)
    BY <1>1, <1>3, <1>5, <1>6, <1>7
<1>9. ASSUME NEW t \in Slots PROVE available'[t] + Cardinality(HoldersOf(t)') = Capacity(t)
  <2>1. CASE t = s
      BY <1>8, <2>1
  <2>2. CASE t # s
      BY <1>4, <2>2 DEF PermitConservation
  <2> QED BY <2>1, <2>2
<1> QED BY <1>9 DEF PermitConservation, Capacity

(* Dropping an owned permit moves it back.                                  *)
LEMMA ReleaseConserves ==
    ASSUME TypeOK, PermitConservation, NEW o \in Opens, NEW s \in Slots, Release(o, s)
    PROVE  PermitConservation'
<1> USE DEF TypeOK
<1>1. available[s] \in Nat
    OBVIOUS
<1>2. HoldersOf(s)' = HoldersOf(s) \ {o} /\ o \in HoldersOf(s)
    BY DEF HoldersOf, Release
<1>3. Cardinality(HoldersOf(s)') = Cardinality(HoldersOf(s)) - 1
    BY <1>2, HoldersFinite, FS_RemoveElement
<1>4. \A t \in Slots \ {s} : HoldersOf(t)' = HoldersOf(t) /\ available'[t] = available[t]
    BY DEF HoldersOf, Release
<1>5. available'[s] = available[s] + 1
    BY <1>1 DEF Release
<1>6. Cardinality(HoldersOf(s)) \in Nat
    BY HoldersFinite, FS_CardinalityType
<1>7. available[s] + Cardinality(HoldersOf(s)) = Capacity(s)
    BY DEF PermitConservation
<1>8. available'[s] + Cardinality(HoldersOf(s)') = Capacity(s)
    BY <1>1, <1>3, <1>5, <1>6, <1>7
<1>9. ASSUME NEW t \in Slots PROVE available'[t] + Cardinality(HoldersOf(t)') = Capacity(t)
  <2>1. CASE t = s
      BY <1>8, <2>1
  <2>2. CASE t # s
      BY <1>4, <2>2 DEF PermitConservation
  <2> QED BY <2>1, <2>2
<1> QED BY <1>9 DEF PermitConservation, Capacity

(* Every step conserves the permits of both semaphores.                     *)
LEMMA ConservationStep ==
    TypeOK /\ OwnedByPC /\ PermitConservation /\ [Next]_vars => PermitConservation'
<1> SUFFICES ASSUME TypeOK, OwnedByPC, PermitConservation, [Next]_vars
             PROVE  PermitConservation'
    OBVIOUS
<1>1. CASE UNCHANGED <<held, available>>
    BY <1>1 DEF PermitConservation, HoldersOf, Capacity
<1>2. ASSUME NEW o \in Opens, Take(o), pc[o] \in Waiting PROVE PermitConservation'
  <2>1. slot[o] \notin held[o]
      BY <1>2 DEF OwnedByPC, Waiting, TypeOK, Slots
  <2> QED BY <1>2, <2>1, TakeConserves
<1>3. ASSUME NEW o \in Opens, TakeAtOnce(o) PROVE PermitConservation'
    BY <1>2, <1>3 DEF TakeAtOnce, Waiting
<1>4. ASSUME NEW o \in Opens, TakeAtFront(o) PROVE PermitConservation'
    BY <1>2, <1>4 DEF TakeAtFront, Waiting
<1>5. ASSUME NEW o \in Opens, Fail(o) PROVE PermitConservation'
    BY <1>1, <1>5, ReleaseConserves DEF Fail, Slots
<1>6. ASSUME NEW o \in Opens, DropPermit(o) PROVE PermitConservation'
    BY <1>6, ReleaseConserves DEF DropPermit, Slots
<1> QED
    BY <1>1, <1>3, <1>4, <1>5, <1>6 DEF Next, Acquire, vars, Begin, Expire, Enqueue,
       RefuseLate, GiveUp, RegisterHolder, OpenDatabase, DropHolder, CloseDatabase

-----------------------------------------------------------------------------
(* q holds exactly the elements of W, each once. *)
Lists(q, W) ==
    /\ \A o \in Opens : o \in W <=> \E i \in 1..Len(q) : q[i] = o
    /\ \A i, j \in 1..Len(q) : q[i] = q[j] => i = j

Queued(s) == {o \in Opens : pc[o] = "queued" /\ slot[o] = s}

(* The queue invariant, semaphore by semaphore. *)
LEMMA QueuesAsLists == QueuesHoldWaiters <=> \A s \in Slots : Lists(queue[s], Queued(s))
  BY DEF QueuesHoldWaiters, Lists, Queued

(* push_back of a call that is not in the queue. *)
LEMMA ListsAppend ==
    ASSUME NEW q \in Seq(Opens), NEW W, NEW o \in Opens, Lists(q, W), o \notin W
    PROVE  Lists(Append(q, o), W \cup {o})
<1>1. \A i \in 1..Len(q) : q[i] # o
    BY DEF Lists
<1>2. /\ Len(Append(q, o)) = Len(q) + 1
      /\ \A i \in 1..Len(q) : Append(q, o)[i] = q[i]
      /\ Append(q, o)[Len(q) + 1] = o
    OBVIOUS
<1>3. ASSUME NEW p \in Opens
      PROVE  p \in W \cup {o} <=> \E i \in 1..(Len(q) + 1) : Append(q, o)[i] = p
    BY <1>2 DEF Lists
<1>4. ASSUME NEW i \in 1..(Len(q) + 1), NEW j \in 1..(Len(q) + 1),
             Append(q, o)[i] = Append(q, o)[j]
      PROVE  i = j
    BY <1>1, <1>2, <1>4 DEF Lists
<1> QED BY <1>2, <1>3, <1>4 DEF Lists

(* pop_front. *)
LEMMA ListsTail ==
    ASSUME NEW q \in Seq(Opens), NEW W, q # <<>>, Lists(q, W)
    PROVE  Lists(Tail(q), W \ {Head(q)})
<1>1. /\ Len(Tail(q)) = Len(q) - 1
      /\ \A i \in 1..(Len(q) - 1) : Tail(q)[i] = q[i + 1]
      /\ Head(q) = q[1]
      /\ Len(q) \in Nat \ {0}
    OBVIOUS
<1>2. \A i \in 2..Len(q) : q[i] # Head(q)
    BY <1>1 DEF Lists
<1>3. ASSUME NEW p \in Opens
      PROVE  p \in W \ {Head(q)} <=> \E i \in 1..(Len(q) - 1) : Tail(q)[i] = p
  <2>1. ASSUME NEW i \in 1..(Len(q) - 1), Tail(q)[i] = p PROVE p \in W \ {Head(q)}
    <3>1. q[i + 1] = p /\ i + 1 \in 2..Len(q)
        BY <1>1, <2>1
    <3> QED BY <1>1, <1>2, <3>1 DEF Lists
  <2>2. ASSUME p \in W \ {Head(q)} PROVE \E i \in 1..(Len(q) - 1) : Tail(q)[i] = p
    <3>1. PICK i \in 1..Len(q) : q[i] = p
        BY <2>2 DEF Lists
    <3>2. i # 1
        BY <1>1, <2>2, <3>1
    <3>3. i - 1 \in 1..(Len(q) - 1) /\ Tail(q)[i - 1] = p
        BY <1>1, <3>1, <3>2
    <3> QED BY <3>3
  <2> QED BY <2>1, <2>2
<1>4. ASSUME NEW i \in 1..(Len(q) - 1), NEW j \in 1..(Len(q) - 1), Tail(q)[i] = Tail(q)[j]
      PROVE  i = j
    BY <1>1, <1>4 DEF Lists
<1> QED BY <1>1, <1>3, <1>4 DEF Lists

(* retain of everything but a call in the queue. *)
LEMMA ListsWithout ==
    ASSUME NEW q \in Seq(Opens), NEW W, NEW o \in Opens, o \in W, Lists(q, W)
    PROVE  Lists(Without(q, o), W \ {o})
<1> DEFINE k == CHOOSE i \in 1..Len(q) : q[i] = o
           w == Without(q, o)
<1>1. k \in 1..Len(q) /\ q[k] = o
    BY DEF Lists
<1>2. /\ w \in Seq(Opens)
      /\ Len(w) = Len(q) - 1
      /\ \A i \in 1..(Len(q) - 1) : w[i] = IF i < k THEN q[i] ELSE q[i + 1]
    BY <1>1 DEF Without
<1> HIDE DEF w, k
<1>3. \A i \in 1..Len(q) : q[i] = o => i = k
    BY <1>1 DEF Lists
<1>4. ASSUME NEW p \in Opens
      PROVE  p \in W \ {o} <=> \E i \in 1..(Len(q) - 1) : w[i] = p
  <2>1. ASSUME NEW i \in 1..(Len(q) - 1), w[i] = p PROVE p \in W \ {o}
    <3>1. CASE i < k
        BY <1>1, <1>2, <1>3, <2>1, <3>1 DEF Lists
    <3>2. CASE i >= k
      <4>1. i + 1 \in 1..Len(q) /\ q[i + 1] = p /\ i + 1 # k
          BY <1>1, <1>2, <2>1, <3>2
      <4> QED BY <1>3, <4>1 DEF Lists
    <3> QED BY <1>1, <3>1, <3>2
  <2>2. ASSUME p \in W \ {o} PROVE \E i \in 1..(Len(q) - 1) : w[i] = p
    <3>1. PICK i \in 1..Len(q) : q[i] = p
        BY <2>2 DEF Lists
    <3>2. i # k
        BY <1>1, <2>2, <3>1
    <3>3. CASE i < k
        BY <1>1, <1>2, <3>1, <3>3
    <3>4. CASE i > k
      <4>1. i - 1 \in 1..(Len(q) - 1) /\ w[i - 1] = p
          BY <1>1, <1>2, <3>1, <3>4
      <4> QED BY <4>1
    <3> QED BY <1>1, <3>2, <3>3, <3>4
  <2> QED BY <2>1, <2>2
<1>5. ASSUME NEW i \in 1..(Len(q) - 1), NEW j \in 1..(Len(q) - 1), w[i] = w[j]
      PROVE  i = j
    BY <1>1, <1>2, <1>5 DEF Lists
<1> QED BY <1>2, <1>4, <1>5 DEF Lists, w

(* Every step keeps the queues equal to the waiting calls.                  *)
LEMMA QueueStep == TypeOK /\ QueuesHoldWaiters /\ [Next]_vars => QueuesHoldWaiters'
<1> SUFFICES ASSUME TypeOK, QueuesHoldWaiters, [Next]_vars
             PROVE  QueuesHoldWaiters'
    OBVIOUS
<1> USE DEF TypeOK
<1>0. \A s \in Slots : Lists(queue[s], Queued(s)) /\ queue[s] \in Seq(Opens)
    BY QueuesAsLists
<1>1. SUFFICES \A s \in Slots : Lists(queue'[s], Queued(s)')
    BY DEF QueuesHoldWaiters, Lists, Queued
<1>2. CASE queue' = queue /\ \A s \in Slots : Queued(s)' = Queued(s)
    BY <1>0, <1>2
<1>3. ASSUME NEW o \in Opens, Enqueue(o)
      PROVE  \A s \in Slots : Lists(queue'[s], Queued(s)')
  <2> TAKE s \in Slots
  <2>1. CASE s = slot[o]
    <3>1. queue'[s] = Append(queue[s], o) /\ Queued(s)' = Queued(s) \cup {o} /\ o \notin Queued(s)
        BY <1>3, <2>1 DEF Enqueue, Queued
    <3> QED BY <1>0, <3>1, ListsAppend
  <2>2. CASE s # slot[o]
    <3>1. queue'[s] = queue[s] /\ Queued(s)' = Queued(s)
        BY <1>3, <2>2 DEF Enqueue, Queued
    <3> QED BY <1>0, <3>1
  <2> QED BY <2>1, <2>2
<1>4. ASSUME NEW o \in Opens, TakeAtFront(o)
      PROVE  \A s \in Slots : Lists(queue'[s], Queued(s)')
  <2> TAKE s \in Slots
  <2>1. CASE s = slot[o]
    <3>1. queue[s] # <<>> /\ Head(queue[s]) = o /\ queue'[s] = Tail(queue[s])
        BY <1>4, <2>1 DEF TakeAtFront, AtFront
    <3>2. Queued(s)' = Queued(s) \ {o}
        BY <1>4, <2>1 DEF TakeAtFront, Take, Queued
    <3>3. Lists(Tail(queue[s]), Queued(s) \ {Head(queue[s])})
        BY <1>0, <3>1, ListsTail
    <3> QED BY <3>1, <3>2, <3>3
  <2>2. CASE s # slot[o]
    <3>1. queue'[s] = queue[s] /\ Queued(s)' = Queued(s)
        BY <1>4, <2>2 DEF TakeAtFront, Take, Queued
    <3> QED BY <1>0, <3>1
  <2> QED BY <2>1, <2>2
<1>5. ASSUME NEW o \in Opens, GiveUp(o)
      PROVE  \A s \in Slots : Lists(queue'[s], Queued(s)')
  <2> TAKE s \in Slots
  <2>1. CASE s = slot[o]
    <3>1. queue'[s] = Without(queue[s], o) /\ Queued(s)' = Queued(s) \ {o} /\ o \in Queued(s)
        BY <1>5, <2>1 DEF GiveUp, Queued
    <3> QED BY <1>0, <3>1, ListsWithout
  <2>2. CASE s # slot[o]
    <3>1. queue'[s] = queue[s] /\ Queued(s)' = Queued(s)
        BY <1>5, <2>2 DEF GiveUp, Queued
    <3> QED BY <1>0, <3>1
  <2> QED BY <2>1, <2>2
<1>6. ASSUME NEW o \in Opens, TakeAtOnce(o)
      PROVE  queue' = queue /\ \A s \in Slots : Queued(s)' = Queued(s)
    BY <1>6 DEF TakeAtOnce, Take, Queued
<1>7. CASE UNCHANGED vars
    BY <1>2, <1>7 DEF vars, Queued
<1>8. ASSUME NEW o \in Opens,
             \/ \E k \in Kinds, h \in Opens \cup {NoOpen} : Begin(o, k, h)
             \/ Expire(o) \/ RefuseLate(o) \/ Fail(o) \/ RegisterHolder(o) \/ OpenDatabase(o)
             \/ DropHolder(o) \/ DropPermit(o) \/ CloseDatabase(o)
      PROVE  queue' = queue /\ \A s \in Slots : Queued(s)' = Queued(s)
  <2>1. queue' = queue
      BY <1>8 DEF Begin, Expire, RefuseLate, Fail, RegisterHolder, OpenDatabase, DropHolder,
         DropPermit, CloseDatabase
  <2>2. /\ \A p \in Opens \ {o} : pc'[p] = pc[p] /\ slot'[p] = slot[p]
        /\ pc'[o] = "queued" <=> pc[o] = "queued"
        /\ pc[o] = "queued" => slot'[o] = slot[o]
      BY <1>8 DEF Begin, Expire, RefuseLate, Fail, RegisterHolder, OpenDatabase, DropHolder,
         DropPermit, CloseDatabase, Return
  <2>3. ASSUME NEW s \in Slots, NEW p \in Opens
        PROVE  (pc'[p] = "queued" /\ slot'[p] = s) <=> (pc[p] = "queued" /\ slot[p] = s)
      BY <2>2
  <2> QED BY <2>1, <2>3 DEF Queued
<1> QED
    BY <1>2, <1>3, <1>4, <1>5, <1>6, <1>7, <1>8 DEF Next, Acquire

-----------------------------------------------------------------------------
(* The inductive invariant holds when the gate is created. *)
LEMMA InitIInv == Init => IInv
<1> SUFFICES ASSUME Init PROVE IInv
    OBVIOUS
<1>1. TypeOK
    BY CapacityAssumption DEF Init, TypeOK, PCs, Slots, Kinds, Capacity
<1>2. OwnedByPC
  <2>1. ASSUME NEW o \in Opens
        PROVE  pc[o] = "idle" /\ held[o] = {} /\ ledger = {}
      BY DEF Init
  <2> QED BY <2>1 DEF OwnedByPC
<1>3. \A s : HoldersOf(s) = {}
    BY DEF Init, HoldersOf
<1>4. PermitConservation
  <2>1. ASSUME NEW s \in Slots
        PROVE  available[s] + Cardinality(HoldersOf(s)) = Capacity(s)
    <3>1. available[s] = Capacity(s) /\ Capacity(s) \in Nat
        BY CapacityAssumption DEF Init, Capacity, Slots
    <3>2. Cardinality(HoldersOf(s)) = 0
        BY <1>3, FS_EmptySet
    <3> QED BY <3>1, <3>2
  <2> QED BY <2>1 DEF PermitConservation
<1>5. QueuesHoldWaiters
    BY DEF Init, QueuesHoldWaiters
<1> QED BY <1>1, <1>2, <1>4, <1>5 DEF IInv

(* Every step of every open call preserves the inductive invariant. *)
LEMMA IInvStep == IInv /\ [Next]_vars => IInv'
  BY TypeStep, OwnedStep, ConservationStep, QueueStep DEF IInv

(* The inductive invariant holds throughout. *)
THEOREM IInvHolds == Spec => []IInv
  BY InitIInv, IInvStep, PTL DEF Spec

(* Type correctness of the gate. *)
THEOREM TypeCorrect == Spec => []TypeOK
  BY IInvHolds, PTL DEF IInv

(* No permit of either semaphore is ever lost or duplicated
   (acquire_until, SemaphorePermit::drop and the error paths between them). *)
THEOREM PermitsConserved == Spec => []PermitConservation
  BY IInvHolds, PTL DEF IInv

(* The wait queues never hold a call that has left (acquire_until's retain). *)
THEOREM NoGhostWaiters == Spec => []QueuesHoldWaiters
  BY IInvHolds, PTL DEF IInv

(* Ordinary owners of a total permit are among the owners of an ordinary one. *)
LEMMA ReserveFromIInv == IInv => CriticalReserve
<1> SUFFICES ASSUME IInv, available["total"] = 0
             PROVE  \E o \in HoldersOf("total") : kind[o] = "critical"
    BY DEF CriticalReserve
<1>1. Cardinality(HoldersOf("total")) = TotalCapacity
  <2>1. Cardinality(HoldersOf("total")) \in Nat
      BY HoldersFinite, FS_CardinalityType
  <2> QED BY <2>1 DEF IInv, PermitConservation, Slots, Capacity
<1>2. Cardinality(HoldersOf("ordinary")) <= OrdinaryCapacity
  <2>1. Cardinality(HoldersOf("ordinary")) \in Nat
      BY HoldersFinite, FS_CardinalityType
  <2>2. available["ordinary"] \in Nat
      BY DEF IInv, TypeOK, Slots
  <2> QED BY <2>1, <2>2, CapacityAssumption DEF IInv, PermitConservation, Slots, Capacity
<1>3. ASSUME \A o \in HoldersOf("total") : kind[o] # "critical" PROVE FALSE
  <2>1. HoldersOf("total") \in SUBSET HoldersOf("ordinary")
      BY <1>3 DEF IInv, OwnedByPC, HoldersOf, TypeOK, Kinds
  <2>2. Cardinality(HoldersOf("total")) <= Cardinality(HoldersOf("ordinary"))
      BY <2>1, HoldersFinite, FS_Subset
  <2>3. Cardinality(HoldersOf("ordinary")) \in Nat
      BY HoldersFinite, FS_CardinalityType
  <2> QED BY <1>1, <1>2, <2>2, <2>3, CapacityAssumption
<1> QED BY <1>3

(* Ordinary openers cannot exhaust the total capacity, for every number of
   openers and all capacities with OrdinaryCapacity < TotalCapacity. *)
THEOREM ReserveKept == Spec => []CriticalReserve
  BY IInvHolds, ReserveFromIInv, PTL

(* The ledger lists calls between register_holder and the drop of the handle. *)
LEMMA LedgerFromIInv == IInv => LedgerShowsOwners
<1> SUFFICES ASSUME IInv PROVE LedgerShowsOwners
    OBVIOUS
<1>1. ASSUME NEW o \in ledger PROVE held[o] = Full(kind[o])
  <2>1. o \in Opens /\ pc[o] \in {"opening", "open"}
      BY DEF IInv, TypeOK, OwnedByPC
  <2>2. "total" \in held[o] /\ ("ordinary" \in held[o] <=> kind[o] = "ordinary")
      BY <2>1 DEF IInv, OwnedByPC
  <2>3. held[o] \in SUBSET {"ordinary", "total"}
      BY <2>1 DEF IInv, TypeOK, Slots
  <2> QED BY <2>2, <2>3 DEF Full, Slots
<1>2. ledger \in SUBSET HoldersOf("total")
    BY DEF IInv, TypeOK, OwnedByPC, HoldersOf
<1>3. Cardinality(HoldersOf("total")) <= TotalCapacity
  <2>1. Cardinality(HoldersOf("total")) \in Nat
      BY HoldersFinite, FS_CardinalityType
  <2>2. available["total"] \in Nat
      BY DEF IInv, TypeOK, Slots
  <2> QED BY <2>1, <2>2, CapacityAssumption DEF IInv, PermitConservation, Slots, Capacity
<1>4. Cardinality(ledger) <= TotalCapacity
  <2>1. /\ Cardinality(ledger) <= Cardinality(HoldersOf("total"))
        /\ Cardinality(ledger) \in Nat
        /\ Cardinality(HoldersOf("total")) \in Nat
      BY <1>2, HoldersFinite, FS_Subset, FS_CardinalityType
  <2> QED BY <1>3, <2>1, CapacityAssumption
<1> QED BY <1>1, <1>4 DEF LedgerShowsOwners

(* A timeout report names only owners of all their permits, and all of them. *)
THEOREM LedgerSound == Spec => []LedgerShowsOwners
  BY IInvHolds, LedgerFromIInv, PTL

(* The FIFO discipline: a permit goes to the front of the queue or, when the
   queue is empty, to a new call (acquire_until's two ways to succeed). *)
THEOREM FirstComeFirstServed == Spec => NoOvertaking
<1> DEFINE A == \A s \in Slots, o \in Opens :
                  (s \in held'[o] /\ s \notin held[o])
                     => queue[s] = <<>> \/ queue[s] = <<o>> \o queue'[s]
<1>1. IInv /\ [Next]_vars => [A]_vars
  <2> SUFFICES ASSUME IInv, [Next]_vars, NEW s \in Slots, NEW o \in Opens,
                      s \in held'[o], s \notin held[o]
               PROVE  queue[s] = <<>> \/ queue[s] = <<o>> \o queue'[s]
      OBVIOUS
  <2> USE DEF IInv, TypeOK
  <2>1. PICK p \in Opens : TakeAtOnce(p) \/ TakeAtFront(p)
    <3>1. ASSUME NEW p \in Opens, NEW t \in Slots, Release(p, t) PROVE FALSE
        BY <3>1 DEF Release
    <3>2. ~UNCHANGED held
        OBVIOUS
    <3>3. ASSUME NEW p \in Opens, Fail(p) \/ DropPermit(p) PROVE FALSE
        BY <3>1, <3>2, <3>3 DEF Fail, DropPermit, Slots
    <3> QED
        BY <3>2, <3>3 DEF Next, Acquire, vars, Begin, Expire, Enqueue, RefuseLate, GiveUp,
           RegisterHolder, OpenDatabase, DropHolder, CloseDatabase
  <2>2. p = o /\ slot[o] = s
    <3>1. held' = [held EXCEPT ![p] = @ \cup {slot[p]}]
        BY <2>1 DEF TakeAtOnce, TakeAtFront, Take
    <3> QED BY <3>1
  <2>3. CASE TakeAtOnce(o)
      BY <2>2, <2>3 DEF TakeAtOnce
  <2>4. CASE TakeAtFront(o)
    <3>1. queue[s] \in Seq(Opens) /\ queue[s] # <<>> /\ Head(queue[s]) = o
          /\ queue'[s] = Tail(queue[s])
        BY <2>2, <2>4 DEF TakeAtFront, AtFront
    <3> QED BY <3>1
  <2> QED BY <2>1, <2>2, <2>3, <2>4
<1> QED BY <1>1, IInvHolds, PTL DEF Spec, NoOvertaking

-----------------------------------------------------------------------------
(* They are finite, apart, and together the owners of a total permit. *)
LEMMA UsesSplit ==
    ASSUME TypeOK
    PROVE  /\ IsFiniteSet(OrdinaryHolders) /\ IsFiniteSet(CriticalHolders)
           /\ Cardinality(OrdinaryHolders) \in Nat /\ Cardinality(CriticalHolders) \in Nat
           /\ Cardinality(HoldersOf("total")) = Cardinality(OrdinaryHolders) + Cardinality(CriticalHolders)
<1>1. /\ OrdinaryHolders \in SUBSET HoldersOf("total") /\ CriticalHolders \in SUBSET HoldersOf("total")
      /\ HoldersOf("total") = OrdinaryHolders \cup CriticalHolders
      /\ OrdinaryHolders \cap CriticalHolders = {}
    BY DEF OrdinaryHolders, CriticalHolders, HoldersOf, TypeOK, Kinds
<1>2. IsFiniteSet(OrdinaryHolders) /\ IsFiniteSet(CriticalHolders)
    BY <1>1, HoldersFinite, FS_Subset
<1>3. Cardinality(OrdinaryHolders) \in Nat /\ Cardinality(CriticalHolders) \in Nat
    BY <1>2, FS_CardinalityType
<1>4. Cardinality(OrdinaryHolders \cap CriticalHolders) = 0
    BY <1>1, FS_EmptySet
<1>5. Cardinality(HoldersOf("total"))
        = Cardinality(OrdinaryHolders) + Cardinality(CriticalHolders) - Cardinality(OrdinaryHolders \cap CriticalHolders)
    BY <1>1, <1>2, FS_Union
<1> QED BY <1>2, <1>3, <1>4, <1>5

(* CapacityGate counts with the Cardinality of its own FiniteSets instance.  *)
LEMMA SameCardinality == \A S : Promise!Cardinality(S) = Cardinality(S)
  BY DEF Promise!Cardinality, Cardinality

(* A call that takes its total permit finds what CapacityGate demands: it    *)
(* already owns an ordinary permit if it is an ordinary one.                 *)
LEMMA TakeAdmits ==
    ASSUME IInv, NEW o \in Opens, Take(o), pc[o] \in Waiting, slot[o] = "total"
    PROVE  Promise!AdmitOrdinary(o) \/ Promise!AdmitCritical(o)
<1>1. /\ o \notin HoldersOf("total") /\ HoldersOf("total")' = HoldersOf("total") \cup {o}
      /\ UNCHANGED kind /\ available["total"] > 0 /\ kind[o] \in Kinds
    BY DEF Take, HoldersOf, IInv, TypeOK, OwnedByPC, Waiting
<1>2. Cardinality(OrdinaryHolders) + Cardinality(CriticalHolders) < TotalCapacity
  <2>1. available["total"] \in Nat
      BY DEF IInv, TypeOK, Slots
  <2>2. available["total"] + Cardinality(HoldersOf("total")) = TotalCapacity
      BY DEF IInv, PermitConservation, Slots, Capacity
  <2> QED BY <1>1, <2>1, <2>2, UsesSplit, CapacityAssumption DEF IInv
<1>3. CASE kind[o] = "ordinary"
  <2>1. /\ OrdinaryHolders' = OrdinaryHolders \cup {o} /\ CriticalHolders' = CriticalHolders
        /\ o \notin OrdinaryHolders /\ o \notin CriticalHolders
      BY <1>1, <1>3 DEF OrdinaryHolders, CriticalHolders
  <2>2. OrdinaryHolders \cup {o} \in SUBSET HoldersOf("ordinary")
      BY <1>1, <1>3 DEF OrdinaryHolders, HoldersOf, IInv, OwnedByPC, Waiting
  <2>3. Cardinality(OrdinaryHolders) < OrdinaryCapacity
    <3>1. available["ordinary"] \in Nat
        BY DEF IInv, TypeOK, Slots
    <3>2. available["ordinary"] + Cardinality(HoldersOf("ordinary")) = OrdinaryCapacity
        BY DEF IInv, PermitConservation, Slots, Capacity
    <3>3. Cardinality(OrdinaryHolders \cup {o}) = Cardinality(OrdinaryHolders) + 1
        BY <2>1, UsesSplit, FS_AddElement DEF IInv
    <3>4. /\ Cardinality(OrdinaryHolders \cup {o}) <= Cardinality(HoldersOf("ordinary"))
          /\ Cardinality(HoldersOf("ordinary")) \in Nat
        BY <2>2, HoldersFinite, FS_Subset, FS_CardinalityType
    <3> QED BY <3>1, <3>2, <3>3, <3>4, UsesSplit, CapacityAssumption DEF IInv
  <2> QED BY <1>2, <2>1, <2>3, SameCardinality DEF Promise!AdmitOrdinary
<1>4. CASE kind[o] = "critical"
  <2>1. /\ CriticalHolders' = CriticalHolders \cup {o} /\ OrdinaryHolders' = OrdinaryHolders
        /\ o \notin OrdinaryHolders /\ o \notin CriticalHolders
      BY <1>1, <1>4 DEF OrdinaryHolders, CriticalHolders
  <2> QED BY <1>2, <2>1, SameCardinality DEF Promise!AdmitCritical
<1> QED BY <1>1, <1>3, <1>4 DEF Kinds

(* Giving the total permit back is Leave; the ordinary permit is invisible.  *)
LEMMA ReleaseLeaves ==
    ASSUME TypeOK, NEW o \in Opens, NEW s \in Slots, Release(o, s), UNCHANGED kind
    PROVE  Promise!Leave(o) \/ UNCHANGED Promise!uses
<1>1. held' = [held EXCEPT ![o] = @ \ {s}] /\ s \in held[o]
    BY DEF Release
<1>2. CASE s = "total"
  <2>1. HoldersOf("total")' = HoldersOf("total") \ {o} /\ o \in HoldersOf("total")
      BY <1>1, <1>2 DEF HoldersOf, TypeOK
  <2>2. /\ OrdinaryHolders' = OrdinaryHolders \ {o} /\ CriticalHolders' = CriticalHolders \ {o}
        /\ o \in OrdinaryHolders \cup CriticalHolders
      BY <2>1 DEF OrdinaryHolders, CriticalHolders, TypeOK, Kinds
  <2> QED BY <2>2 DEF Promise!Leave
<1>3. CASE s = "ordinary"
  <2>1. HoldersOf("total")' = HoldersOf("total")
      BY <1>1, <1>3 DEF HoldersOf, TypeOK
  <2> QED BY <2>1 DEF Promise!uses, OrdinaryHolders, CriticalHolders
<1> QED BY <1>2, <1>3 DEF Slots

(* Any other step leaves the owners of a total permit and their kinds alone: *)
(* a call changes its kind only when it begins, owning nothing.              *)
LEMMA OthersInvisible ==
    ASSUME IInv, UNCHANGED held,
           \A o \in Opens : kind'[o] = kind[o] \/ held[o] = {}
    PROVE  UNCHANGED Promise!uses
  BY DEF Promise!uses, OrdinaryHolders, CriticalHolders, HoldersOf

LEMMA PromiseStep == IInv /\ [Next]_vars => [Promise!Next]_(Promise!uses)
<1> SUFFICES ASSUME IInv, [Next]_vars PROVE Promise!Next \/ UNCHANGED Promise!uses
    OBVIOUS
<1>1. CASE UNCHANGED vars
    BY <1>1, OthersInvisible DEF vars
<1>2. ASSUME NEW o \in Opens, NEW k \in Kinds, NEW h \in Opens \cup {NoOpen},
             Begin(o, k, h)
      PROVE  UNCHANGED Promise!uses
  <2>1. held[o] = {}
      BY <1>2 DEF Begin, IInv, TypeOK, OwnedByPC, Slots
  <2> QED BY <1>2, <2>1, OthersInvisible DEF Begin, IInv, TypeOK
<1>3. ASSUME NEW o \in Opens, Take(o), pc[o] \in Waiting
      PROVE  Promise!Next \/ UNCHANGED Promise!uses
  <2>1. CASE slot[o] = "total"
      BY <1>3, <2>1, TakeAdmits DEF Promise!Next
  <2>2. CASE slot[o] = "ordinary"
    <3>1. HoldersOf("total")' = HoldersOf("total") /\ UNCHANGED kind
        BY <1>3, <2>2 DEF Take, HoldersOf, IInv, TypeOK
    <3> QED BY <3>1 DEF Promise!uses, OrdinaryHolders, CriticalHolders
  <2> QED BY <2>1, <2>2 DEF IInv, TypeOK, Slots
<1>4. ASSUME NEW o \in Opens, Fail(o) \/ DropPermit(o)
      PROVE  Promise!Next \/ UNCHANGED Promise!uses
  <2>1. UNCHANGED kind /\ (UNCHANGED held \/ \E s \in Slots : Release(o, s))
      BY <1>4 DEF Fail, DropPermit, Slots
  <2>2. CASE UNCHANGED held
      BY <2>1, <2>2, OthersInvisible
  <2>3. CASE \E s \in Slots : Release(o, s)
      BY <2>1, <2>3, ReleaseLeaves DEF IInv, Promise!Next
  <2> QED BY <2>1, <2>2, <2>3
<1>5. ASSUME NEW o \in Opens,
             \/ Expire(o) \/ Enqueue(o) \/ RefuseLate(o) \/ GiveUp(o)
             \/ RegisterHolder(o) \/ OpenDatabase(o) \/ DropHolder(o) \/ CloseDatabase(o)
      PROVE  UNCHANGED Promise!uses
  <2>1. UNCHANGED <<held, kind>>
      BY <1>5 DEF Expire, Enqueue, RefuseLate, GiveUp, RegisterHolder, OpenDatabase,
         DropHolder, CloseDatabase
  <2> QED BY <2>1, OthersInvisible
<1>6. ASSUME NEW o \in Opens, Acquire(o)
      PROVE  Promise!Next \/ UNCHANGED Promise!uses
    BY <1>3, <1>5, <1>6 DEF Acquire, TakeAtOnce, TakeAtFront, Waiting
<1> QED BY <1>1, <1>2, <1>4, <1>5, <1>6 DEF Next

(* The two semaphores, with their queues, timeouts and partial releases,     *)
(* implement the counts of CapacityGate (ordinary openers leave a reserve),  *)
(* for all capacities and any number of openers.                             *)
THEOREM PromiseRefined == Spec => PromiseKept
<1>1. Init => Promise!Init
  <2> SUFFICES ASSUME Init PROVE OrdinaryHolders = {} /\ CriticalHolders = {}
      BY DEF Promise!Init
  <2> QED BY DEF Init, OrdinaryHolders, CriticalHolders, HoldersOf
<1> QED BY <1>1, PromiseStep, IInvHolds, PTL DEF Spec, PromiseKept, Promise!Spec
=============================================================================
