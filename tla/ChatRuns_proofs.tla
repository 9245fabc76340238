--------------------------- MODULE ChatRuns_proofs --------------------------
(***************************************************************************)
(* Proofs about ChatRuns, for every set of clients, messages and delegated *)
(* tasks, every capacity and batch limit and every workload.               *)
(*                                                                         *)
(* The inductive invariant IInv adds to the properties what connects the   *)
(* parts of the state: the entry of the registry and its owner (Entry),    *)
(* the projection and the logs (Projecting), the rows of messages (Rowed), *)
(* what the model was told (Told), where an unread message is (Arrives)    *)
(* and, for each stream, that a frame that waits is preceded in its log    *)
(* only by frames that the client has passed or that wait before it        *)
(* (FromCache, FromTable), so that what a frame skips, it overtook.        *)
(***************************************************************************)
EXTENDS ChatRuns, Iteration, SequenceTheorems, FiniteSetTheorems

-----------------------------------------------------------------------------
(* Sequences                                                                *)

LEMMA AppendRange ==
    ASSUME NEW T, NEW s \in Seq(T), NEW x \in T
    PROVE  /\ Append(s, x) \in Seq(T)
           /\ Range(Append(s, x)) = Range(s) \cup {x}
           /\ Len(Append(s, x)) = Len(s) + 1
           /\ \A i \in DOMAIN s : Append(s, x)[i] = s[i]
           /\ Append(s, x)[Len(s) + 1] = x
           /\ DOMAIN Append(s, x) = DOMAIN s \cup {Len(s) + 1}
<1>1. /\ Append(s, x) \in Seq(T) /\ Len(Append(s, x)) = Len(s) + 1
      /\ \A i \in 1 .. Len(s) : Append(s, x)[i] = s[i]
      /\ Append(s, x)[Len(s) + 1] = x
    BY AppendProperties
<1>2. DOMAIN s = 1 .. Len(s) /\ Len(s) \in Nat /\ DOMAIN Append(s, x) = 1 .. Len(s) + 1
    BY <1>1
<1>3. 1 .. Len(s) + 1 = (1 .. Len(s)) \cup {Len(s) + 1}
    BY <1>2
<1>4. Range(Append(s, x)) = Range(s) \cup {x}
    BY <1>1, <1>2, <1>3 DEF Range
<1> QED BY <1>1, <1>2, <1>3, <1>4

LEMMA TailRange ==
    ASSUME NEW T, NEW s \in Seq(T), s # <<>>
    PROVE  /\ Head(s) \in T /\ Head(s) = s[1] /\ 1 \in DOMAIN s
           /\ Tail(s) \in Seq(T) /\ Len(Tail(s)) = Len(s) - 1
           /\ \A k \in DOMAIN Tail(s) : k + 1 \in DOMAIN s /\ Tail(s)[k] = s[k + 1]
           /\ Range(s) = {Head(s)} \cup Range(Tail(s))
<1>1. /\ Head(s) \in T /\ Tail(s) \in Seq(T) /\ Len(Tail(s)) = Len(s) - 1
      /\ \A k \in 1 .. Len(Tail(s)) : Tail(s)[k] = s[k + 1]
    BY HeadTailProperties
<1>2. Len(s) \in Nat \ {0} /\ DOMAIN s = 1 .. Len(s)
    BY EmptySeq, LenProperties
<1>3. Head(s) = s[1] /\ 1 \in DOMAIN s
    BY <1>2
<1>4. DOMAIN Tail(s) = 1 .. Len(s) - 1
    BY <1>1
<1>5. \A k \in DOMAIN Tail(s) : k + 1 \in DOMAIN s /\ Tail(s)[k] = s[k + 1]
    BY <1>1, <1>2, <1>4
<1>6. \A i \in DOMAIN s : i = 1 \/ (i - 1 \in DOMAIN Tail(s) /\ Tail(s)[i - 1] = s[i])
    BY <1>1, <1>2, <1>4
<1>7. Range(s) = {Head(s)} \cup Range(Tail(s))
  <2>1. ASSUME NEW i \in DOMAIN s PROVE s[i] \in {Head(s)} \cup Range(Tail(s))
      BY <1>3, <1>6 DEF Range
  <2>2. ASSUME NEW k \in DOMAIN Tail(s) PROVE Tail(s)[k] \in Range(s)
      BY <1>5 DEF Range
  <2> QED BY <1>3, <2>1, <2>2 DEF Range
<1> QED BY <1>1, <1>3, <1>5, <1>7

(* snapshot_after: the events after a sequence, each of them after the      *)
(* ones that precede it in the cache.                                       *)
PrecededAt(events, after, n, out, k) ==
    \E i \in 1 .. n :
        /\ events[i] = out[k] /\ out[k] > after
        /\ \A j \in 1 .. i - 1 :
              events[j] > after => \E h \in 1 .. k - 1 : out[h] = events[j]

Preceded(events, after, n, out) ==
    /\ \A i \in 1 .. n : events[i] > after => events[i] \in Range(out)
    /\ \A k \in DOMAIN out : PrecededAt(events, after, n, out, k)

Further(events, after, k, out) ==
    IF events[k] > after THEN Append(out, events[k]) ELSE out

LEMMA FurtherPreceded ==
    ASSUME NEW events \in Seq(Nat), NEW after \in Nat, NEW n \in Nat, n < Len(events),
           NEW out \in Seq(Nat), Preceded(events, after, n, out)
    PROVE  /\ Further(events, after, n + 1, out) \in Seq(Nat)
           /\ Preceded(events, after, n + 1, Further(events, after, n + 1, out))
<1> DEFINE new == Append(out, events[n + 1])
<1>1. /\ n + 1 \in 1 .. Len(events) /\ events[n + 1] \in Nat
      /\ \A i \in 1 .. n + 1 : i \in 1 .. n \/ i = n + 1
      /\ \A i \in 1 .. n : i \in 1 .. n + 1
      /\ DOMAIN out = 1 .. Len(out) /\ Len(out) \in Nat
    OBVIOUS
<1>2. CASE events[n + 1] > after
  <2>1. Further(events, after, n + 1, out) = new
      BY <1>2 DEF Further
  <2>2. /\ new \in Seq(Nat) /\ Range(new) = Range(out) \cup {events[n + 1]}
        /\ \A i \in DOMAIN out : new[i] = out[i]
        /\ new[Len(out) + 1] = events[n + 1]
        /\ DOMAIN new = DOMAIN out \cup {Len(out) + 1}
      BY <1>1, AppendRange
  <2> HIDE DEF new
  <2>3. \A i \in 1 .. n + 1 : events[i] > after => events[i] \in Range(new)
      BY <1>1, <2>2 DEF Preceded
  <2>4. ASSUME NEW k \in DOMAIN out
        PROVE  PrecededAt(events, after, n + 1, new, k)
    <3>1. PICK i \in 1 .. n :
             /\ events[i] = out[k] /\ out[k] > after
             /\ \A j \in 1 .. i - 1 :
                   events[j] > after => \E h \in 1 .. k - 1 : out[h] = events[j]
        BY DEF Preceded, PrecededAt
    <3>2. ASSUME NEW h \in 1 .. k - 1 PROVE h \in DOMAIN out /\ new[h] = out[h]
      <4>1. k \in 1 .. Len(out)
          BY <1>1
      <4>2. h \in 1 .. Len(out)
          BY <1>1, <4>1
      <4> QED BY <1>1, <2>2, <4>2
    <3>3. i \in 1 .. n + 1 /\ events[i] = new[k] /\ new[k] > after
        BY <1>1, <2>2, <3>1
    <3>4. \A j \in 1 .. i - 1 : events[j] > after => \E h \in 1 .. k - 1 : new[h] = events[j]
        BY <3>1, <3>2
    <3> QED BY <3>3, <3>4 DEF PrecededAt
  <2>5. ASSUME NEW j \in 1 .. n, events[j] > after
        PROVE  \E h \in 1 .. Len(out) : new[h] = events[j]
    <3>1. events[j] \in Range(out)
        BY <2>5 DEF Preceded
    <3>2. PICK h \in DOMAIN out : out[h] = events[j]
        BY <3>1 DEF Range
    <3> QED BY <1>1, <2>2, <3>2
  <2>6. ASSUME NEW k, k = Len(out) + 1
        PROVE  PrecededAt(events, after, n + 1, new, k)
    <3>1. (n + 1) - 1 = n /\ k - 1 = Len(out) /\ n + 1 \in 1 .. n + 1
        BY <2>6
    <3> QED BY <1>2, <2>2, <2>5, <2>6, <3>1 DEF PrecededAt
  <2> QED BY <2>1, <2>2, <2>3, <2>4, <2>6 DEF Preceded
<1>3. CASE ~(events[n + 1] > after)
  <2>1. Further(events, after, n + 1, out) = out
      BY <1>3 DEF Further
  <2>2. \A i \in 1 .. n + 1 : events[i] > after => events[i] \in Range(out)
      BY <1>1, <1>3 DEF Preceded
  <2>3. \A k \in DOMAIN out : PrecededAt(events, after, n + 1, out, k)
      BY <1>1 DEF Preceded, PrecededAt
  <2> QED BY <2>1, <2>2, <2>3 DEF Preceded
<1> QED BY <1>2, <1>3

LEMMA NewerProperties ==
    ASSUME NEW events \in Seq(Nat), NEW after \in Nat
    PROVE  /\ Newer(events, after) \in Seq(Nat)
           /\ Preceded(events, after, Len(events), Newer(events, after))
<1> DEFINE D == [kn \in (1 .. Len(events)) \X Seq(Nat) |-> Further(events, after, kn[1], kn[2])]
           N == CHOOSE f : f = [k \in 0 .. Len(events) |->
                   IF k = 0 THEN <<>>
                   ELSE IF events[k] > after THEN Append(f[k - 1], events[k]) ELSE f[k - 1]]
<1>1. Len(events) \in Nat /\ \A k \in 1 .. Len(events) : events[k] \in Nat
    OBVIOUS
<1>2. \A k \in 1 .. Len(events), out \in Seq(Nat) : Further(events, after, k, out) \in Seq(Nat)
    BY <1>1, AppendProperties DEF Further
<1>3. D \in [(1 .. Len(events)) \X Seq(Nat) -> Seq(Nat)]
    BY <1>2
<1>4. PICK f \in [0 .. Len(events) -> Seq(Nat)] : Iterates(f, <<>>, Len(events), D)
  <2>1. <<>> \in Seq(Nat)
      OBVIOUS
  <2>2. Len(events) \in Nat
      BY <1>1
  <2> HIDE DEF D, N
  <2> QED BY <1>3, <2>1, <2>2, Iteration
<1>5. f = [k \in 0 .. Len(events) |->
              IF k = 0 THEN <<>>
              ELSE IF events[k] > after THEN Append(f[k - 1], events[k]) ELSE f[k - 1]]
  <2>1. ASSUME NEW n \in 0 .. Len(events), n # 0
        PROVE  f[n] = IF events[n] > after THEN Append(f[n - 1], events[n]) ELSE f[n - 1]
    <3>1. n \in 1 .. Len(events) /\ f[n - 1] \in Seq(Nat)
        BY <1>1, <2>1
    <3>2. D[<<n, f[n - 1]>>] = Further(events, after, n, f[n - 1])
        BY <3>1
    <3> QED BY <1>4, <2>1, <3>2 DEF Further, Iterates
  <2>2. f[0] = <<>>
    <3>1. 0 \in 0 .. Len(events)
        BY <1>1
    <3> HIDE DEF D
    <3> QED BY <1>4, <3>1 DEF Iterates
  <2> QED BY <2>1, <2>2
<1>6. N = [k \in 0 .. Len(events) |->
              IF k = 0 THEN <<>>
              ELSE IF events[k] > after THEN Append(N[k - 1], events[k]) ELSE N[k - 1]]
    BY <1>5
<1>7. Newer(events, after) = N[Len(events)]
    BY DEF Newer
<1> HIDE DEF N, D
<1>8. N[0] = <<>>
    BY <1>1, <1>6
<1>9. ASSUME NEW k \in 0 .. Len(events), k < Len(events)
      PROVE  N[k + 1] = Further(events, after, k + 1, N[k])
  <2>1. k + 1 \in 0 .. Len(events) /\ k + 1 # 0 /\ (k + 1) - 1 = k
      BY <1>1, <1>9
  <2> QED BY <1>6, <2>1 DEF Further
<1> DEFINE S == {n \in 0 .. Len(events) :
                    N[n] \in Seq(Nat) /\ Preceded(events, after, n, N[n])}
<1>10. 0 \in S
  <2>1. Preceded(events, after, 0, N[0])
      BY <1>8 DEF Preceded
  <2>2. N[0] \in Seq(Nat)
      BY <1>8
  <2>3. 0 \in 0 .. Len(events)
      BY <1>1
  <2> QED BY <2>1, <2>2, <2>3
<1>11. ASSUME NEW n \in 0 .. Len(events), n < Len(events), n \in S PROVE n + 1 \in S
    BY <1>1, <1>9, <1>11, FurtherPreceded
<1>12. Len(events) \in S
  <2>1. \A n \in 0 .. Len(events) : n < Len(events) /\ n \in S => n + 1 \in S
      BY <1>11
  <2>2. Len(events) \in Nat
      BY <1>1
  <2> HIDE DEF S
  <2>3. 0 .. Len(events) \subseteq S
      BY ONLY <1>10, <2>1, <2>2, InductionUpTo, Zenon
  <2> QED BY <2>2, <2>3
<1> QED BY <1>7, <1>12

-----------------------------------------------------------------------------
(* The event logs: the table, the caches and the broadcasts only grow.      *)

Rows == {"run"} \cup Messages \cup Children

EventsOK ==
    /\ db \in Seq(Rows) /\ life \in Nat
    /\ cache \in Seq(Seq(Nat)) /\ sent \in Seq(Seq(Nat))
    /\ Len(cache) = life /\ Len(sent) = life
    /\ \A l \in Lives : /\ Range(cache[l]) \subseteq Sequence
                        /\ Range(sent[l]) \subseteq Range(cache[l])

Extended(s, t) == Len(s) <= Len(t) /\ \A i \in DOMAIN s : i \in DOMAIN t /\ t[i] = s[i]

EventsGrow ==
    /\ Len(db) <= Len(db') /\ life <= life'
    /\ \A l \in Lives : Extended(cache[l], cache'[l]) /\ Extended(sent[l], sent'[l])

\* The properties that a step of the table, a cache or a channel establishes.
EventsStep == EventsOK' /\ EventsGrow

LEMMA EventsTyped ==
    ASSUME TypeOK
    PROVE  /\ EventsOK
           /\ DOMAIN cache = Lives /\ DOMAIN sent = Lives /\ Len(db) \in Nat /\ life \in Nat
           /\ \A l \in Lives : /\ cache[l] \in Seq(Nat) /\ sent[l] \in Seq(Nat)
                               /\ Len(cache[l]) \in Nat /\ Len(sent[l]) \in Nat
<1>1. EventsOK
    BY DEF TypeOK, EventsOK, Rows
<1>2. DOMAIN cache = Lives /\ DOMAIN sent = Lives
    BY <1>1 DEF EventsOK, Lives
<1>3. Len(db) \in Nat /\ life \in Nat
    BY <1>1 DEF EventsOK
<1>4. \A l \in Lives : cache[l] \in Seq(Nat) /\ sent[l] \in Seq(Nat)
    BY <1>1, <1>2, ElementOfSeq DEF EventsOK
<1> QED BY <1>1, <1>2, <1>3, <1>4, LenProperties

LEMMA EventsKept ==
    ASSUME TypeOK, UNCHANGED <<db, life, eventVars>>
    PROVE  EventsStep
<1>1. EventsOK'
    BY EventsTyped DEF EventsOK, eventVars, Lives, Sequence
<1>2. \A l \in Lives : Extended(cache[l], cache'[l]) /\ Extended(sent[l], sent'[l])
    BY EventsTyped DEF eventVars, Extended
<1>3. EventsGrow
    BY <1>2, EventsTyped DEF EventsGrow
<1> QED BY <1>1, <1>3 DEF EventsStep

LEMMA TableGrows ==
    ASSUME TypeOK, NEW x \in Rows, db' = Append(db, x), UNCHANGED <<life, eventVars>>
    PROVE  /\ EventsStep /\ Len(db') = Len(db) + 1
           /\ Sequence' = Sequence \cup {Len(db) + 1}
           /\ \A y : RowsOf(y)' = RowsOf(y) \cup IF x = y THEN {Len(db) + 1} ELSE {}
<1>1. /\ db' \in Seq(Rows) /\ Len(db') = Len(db) + 1
      /\ \A i \in 1 .. Len(db) : db'[i] = db[i]
      /\ db'[Len(db) + 1] = x
    BY EventsTyped, AppendProperties DEF EventsOK
<1>2. Sequence' = Sequence \cup {Len(db) + 1} /\ Len(db) \in Nat
    BY <1>1, EventsTyped DEF Sequence
<1>3. EventsOK'
  <2>1. \A l \in Lives : Range(cache[l]) \subseteq Sequence'
      BY <1>2, EventsTyped DEF EventsOK
  <2> QED BY <1>1, <2>1, EventsTyped DEF EventsOK, eventVars, Lives
<1>4. EventsGrow
  <2>1. \A l \in Lives : Extended(cache[l], cache'[l]) /\ Extended(sent[l], sent'[l])
      BY EventsTyped DEF eventVars, Extended
  <2> QED BY <1>1, <2>1, EventsTyped DEF EventsGrow
<1>5. ASSUME NEW y PROVE RowsOf(y)' = RowsOf(y) \cup IF x = y THEN {Len(db) + 1} ELSE {}
    BY <1>1, <1>2 DEF RowsOf, Sequence
<1> QED BY <1>1, <1>2, <1>3, <1>4, <1>5 DEF EventsStep

\* A push or a broadcast extends the log of one life by e.
Logged(T, logs, l, e, new) ==
    /\ new \in Seq(Seq(T)) /\ Len(new) = Len(logs)
    /\ \A k \in DOMAIN logs :
          /\ Extended(logs[k], new[k])
          /\ Range(new[k]) = Range(logs[k]) \cup IF k = l THEN {e} ELSE {}

LEMMA LogGrows ==
    ASSUME NEW T, NEW logs \in Seq(Seq(T)), NEW l \in DOMAIN logs, NEW e \in T
    PROVE  Logged(T, logs, l, e, [logs EXCEPT ![l] = Append(@, e)])
<1>1. PICK log \in Seq(T) : log = logs[l]
    BY ElementOfSeq
<1>2. /\ Append(log, e) \in Seq(T)
      /\ Range(Append(log, e)) = Range(log) \cup {e}
      /\ Len(Append(log, e)) = Len(log) + 1
      /\ \A i \in DOMAIN log : Append(log, e)[i] = log[i]
      /\ DOMAIN Append(log, e) = DOMAIN log \cup {Len(log) + 1}
    BY AppendRange
<1> DEFINE new == [logs EXCEPT ![l] = Append(@, e)]
<1>3. new \in Seq(Seq(T)) /\ Len(new) = Len(logs)
    BY <1>1, <1>2, ExceptSeq
<1>4. new[l] = Append(log, e) /\ \A k \in DOMAIN logs : k # l => new[k] = logs[k]
    BY <1>1
<1>5. \A k \in DOMAIN logs : Len(logs[k]) \in Nat
    BY ElementOfSeq, LenProperties
<1> HIDE DEF new
<1>6. ASSUME NEW k \in DOMAIN logs PROVE Extended(logs[k], new[k])
  <2>1. CASE k = l
    <3>1. logs[k] = log /\ new[k] = Append(log, e) /\ Len(log) \in Nat
        BY <1>1, <1>4, <2>1
    <3> QED BY <1>2, <3>1 DEF Extended
  <2>2. CASE k # l
      BY <1>4, <1>5, <2>2 DEF Extended
  <2> QED BY <2>1, <2>2
<1>7. \A k \in DOMAIN logs : Range(new[k]) = Range(logs[k]) \cup IF k = l THEN {e} ELSE {}
    BY <1>1, <1>2, <1>4
<1> QED BY <1>3, <1>6, <1>7 DEF Logged, new

LEMMA CacheGrows ==
    ASSUME TypeOK, NEW l \in Lives, NEW e \in Sequence,
           cache' = [cache EXCEPT ![l] = Append(@, e)], UNCHANGED <<db, life, sent>>
    PROVE  /\ EventsStep
           /\ \A k \in Lives : Range(cache'[k]) = Range(cache[k]) \cup IF k = l THEN {e} ELSE {}
<1>1. /\ cache' \in Seq(Seq(Nat)) /\ Len(cache') = Len(cache)
      /\ \A k \in Lives : /\ Extended(cache[k], cache'[k])
                          /\ Range(cache'[k]) = Range(cache[k]) \cup IF k = l THEN {e} ELSE {}
  <2>1. e \in Nat /\ cache \in Seq(Seq(Nat)) /\ l \in DOMAIN cache /\ DOMAIN cache = Lives
      BY EventsTyped DEF Sequence, EventsOK
  <2>2. Logged(Nat, cache, l, e, cache')
      BY <2>1, LogGrows
  <2> QED BY <2>1, <2>2 DEF Logged
<1>2. \A k \in Lives : Range(cache'[k]) \subseteq Sequence
    BY <1>1, EventsTyped DEF EventsOK
<1>3. EventsOK'
    BY <1>1, <1>2, EventsTyped DEF EventsOK, Lives, Sequence
<1>4. EventsGrow
    BY <1>1, EventsTyped DEF EventsGrow, Extended
<1> QED BY <1>1, <1>3, <1>4 DEF EventsStep

LEMMA SentGrows ==
    ASSUME TypeOK, NEW l \in Lives, NEW e \in Range(cache[l]),
           sent' = [sent EXCEPT ![l] = Append(@, e)], UNCHANGED <<db, life, cache>>
    PROVE  EventsStep
<1>1. e \in Nat
  <2>1. Range(cache[l]) \subseteq Sequence
      BY EventsTyped DEF EventsOK
  <2> QED BY <2>1 DEF Sequence
<1>2. /\ sent' \in Seq(Seq(Nat)) /\ Len(sent') = Len(sent)
      /\ \A k \in Lives : /\ Extended(sent[k], sent'[k])
                          /\ Range(sent'[k]) = Range(sent[k]) \cup IF k = l THEN {e} ELSE {}
  <2>1. sent \in Seq(Seq(Nat)) /\ l \in DOMAIN sent /\ DOMAIN sent = Lives
      BY EventsTyped DEF EventsOK
  <2>2. Logged(Nat, sent, l, e, sent')
      BY <1>1, <2>1, LogGrows
  <2> QED BY <2>1, <2>2 DEF Logged
<1>3. \A k \in Lives : Range(sent'[k]) \subseteq Range(cache[k])
    BY <1>2, EventsTyped DEF EventsOK
<1>4. EventsOK'
    BY <1>2, <1>3, EventsTyped DEF EventsOK, Lives, Sequence
<1>5. EventsGrow
    BY <1>2, EventsTyped DEF EventsGrow, Extended
<1> QED BY <1>4, <1>5 DEF EventsStep

\* A registration starts empty logs.
LEMMA LivesGrow ==
    ASSUME TypeOK, cache' = Append(cache, <<>>), sent' = Append(sent, <<>>),
           life' = life + 1, db' = db
    PROVE  EventsStep
<1>1. /\ cache' \in Seq(Seq(Nat)) /\ Len(cache') = life + 1
      /\ \A k \in Lives : cache'[k] = cache[k]
      /\ cache'[life + 1] = <<>>
    BY EventsTyped, AppendProperties DEF EventsOK, Lives
<1>2. /\ sent' \in Seq(Seq(Nat)) /\ Len(sent') = life + 1
      /\ \A k \in Lives : sent'[k] = sent[k]
      /\ sent'[life + 1] = <<>>
    BY EventsTyped, AppendProperties DEF EventsOK, Lives
<1>3. Lives' = Lives \cup {life + 1} /\ life \in Nat
    BY EventsTyped DEF Lives, EventsOK
<1>4. Range(<<>>) = {}
    BY DEF Range
<1>5. \A k \in Lives' : /\ Range(cache'[k]) \subseteq Sequence
                        /\ Range(sent'[k]) \subseteq Range(cache'[k])
    BY <1>1, <1>2, <1>3, <1>4, EventsTyped DEF EventsOK
<1>6. EventsOK'
  <2>1. db' \in Seq(Rows) /\ Sequence' = Sequence
      BY EventsTyped DEF EventsOK, Sequence
  <2>2. life' \in Nat /\ Len(cache') = life' /\ Len(sent') = life'
      BY <1>1, <1>2, <1>3
  <2> QED BY <1>1, <1>2, <1>5, <2>1, <2>2 DEF EventsOK
<1>7. EventsGrow
    BY <1>1, <1>2, <1>3, EventsTyped DEF EventsGrow, Extended
<1> QED BY <1>6, <1>7 DEF EventsStep

-----------------------------------------------------------------------------
(* Types                                                                    *)

OthersOK ==
    /\ load \in Workloads
    /\ task \in {"queued", "running", "waiting", "settled"}
    /\ read \in [Messages -> {"no", "prompt", "event", "other"}]
    /\ sending \in [Messages -> {"new", "stored", "done"}]
    /\ rival \in IF load.rival THEN {"off", "setup", "live"} ELSE {"off"}
    /\ theirs \subseteq Messages
    /\ registered \in BOOLEAN /\ accepting \in BOOLEAN
    /\ completed \subseteq Lives
    /\ channel \in Seq(Messages)
    /\ run \in {NotOpen} \cup Owners
    /\ told \subseteq Messages /\ parts \subseteq Children
    /\ proj \in {NoProjection} \cup Projections
    /\ stream \in [Clients -> Streams]
    /\ faults \in Nat

Bounded(s) == s.last \in 0 .. Len(db) /\ s.got \subseteq Sequence

LEMMA TypeParts == TypeOK <=> EventsOK /\ OthersOK /\ \A c \in Clients : Bounded(stream[c])
  BY DEF TypeOK, EventsOK, OthersOK, Bounded, Rows

LEMMA TypeFrom ==
    ASSUME TypeOK, EventsStep, OthersOK', stream' = stream
    PROVE  TypeOK'
<1>1. Len(db) <= Len(db') /\ Len(db) \in Nat /\ Len(db') \in Nat
  <2>1. db' \in Seq(Rows)
      BY DEF EventsStep, EventsOK
  <2> QED BY <2>1, EventsTyped, LenProperties DEF EventsStep, EventsGrow
<1>2. ASSUME NEW c \in Clients PROVE Bounded(stream[c])'
  <2>1. Bounded(stream[c])
      BY TypeParts
  <2> QED BY <1>1, <2>1 DEF Bounded, Sequence
<1>3. (EventsOK /\ OthersOK /\ \A c \in Clients : Bounded(stream[c]))'
    BY <1>2 DEF EventsStep
<1> QED BY <1>3 DEF TypeOK, EventsOK, OthersOK, Bounded, Rows

\* A life that was registered stays one.
LEMMA LivesKept ==
    ASSUME TypeOK, EventsStep
    PROVE  Lives \subseteq Lives'
<1>1. life \in Nat /\ life' \in Nat /\ life <= life'
    BY EventsTyped DEF EventsStep, EventsOK, EventsGrow
<1> QED BY <1>1 DEF Lives

(* What holds between the entry of the registry and its owner. *)
Active == {"setup", "prompted", "consumed", "idle", "push", "send", "erring", "done"}

Entry ==
    /\ run.at \in Active => registered /\ life \notin completed
    /\ run.at \in {"setup", "prompted", "consumed"} => accepting
    /\ run.at # "off" \/ registered => life # 0
    /\ run.at \in {"push", "send"} => run.seq \in Sequence
    /\ run.at = "send" => run.seq \in Range(cache[life])
    /\ run.at = "erring" => run.failed

(* What holds between the projection and the logs; the end of a delegated   *)
(* task has one row.                                                        *)
Projecting ==
    /\ ~load.team => proj = NoProjection
    /\ \A k \in Children : \A d, e \in RowsOf(k) : d = e
    /\ proj.at \in {"push", "send"} => proj.life \in Lives
    /\ proj.at = "send" => RowsOf(proj.child) \subseteq Range(cache[proj.life])

LEMMA OwnerRecords ==
    ASSUME TypeOK, run.at # "off"
    PROVE  /\ run \in Owners
           /\ \A s \in OwnerSteps : [run EXCEPT !.at = s] \in Owners
<1>1. run \in Owners
    BY DEF TypeOK, NotOpen
<1>2. ASSUME NEW s \in OwnerSteps PROVE [run EXCEPT !.at = s] \in Owners
    BY <1>1 DEF Owners
<1> QED BY <1>1, <1>2

LEMMA OwnerTyped ==
    ASSUME TypeOK, Entry, OwnerStep
    PROVE  TypeOK' /\ EventsStep
<1> USE DEF storeVars, mailVars, entryVars, eventVars, projVars, At
<1>0. OthersOK
    BY TypeParts
<1>1. CASE Register
  <2>1. EventsStep
      BY <1>1, LivesGrow DEF Register
  <2>2. run' \in Owners
    <3>1. <<>> \in Seq(Messages)
        OBVIOUS
    <3> QED BY <1>1, <3>1 DEF Register, Owners, OwnerSteps
  <2>3. completed \subseteq Lives'
      BY <1>0, <2>1, LivesKept DEF OthersOK
  <2>4. OthersOK'
      BY <1>0, <1>1, <2>2, <2>3 DEF Register, OthersOK
  <2> QED BY <1>1, <2>1, <2>4, TypeFrom DEF Register
<1>2. CASE ReadPrompt \/ ConsumePrompt \/ StartRun \/ SetupFails
  <2>1. EventsStep
      BY <1>2, EventsKept DEF ReadPrompt, ConsumePrompt, StartRun, SetupFails, Fault
  <2>2. run \in Owners
      BY <1>2, OwnerRecords DEF ReadPrompt, ConsumePrompt, StartRun, SetupFails
  <2>3. run' \in Owners
    <3>1. CASE ReadPrompt
        BY <1>0, <2>2, <3>1, WorkloadsAssumption
           DEF ReadPrompt, Unread, Owners, OwnerSteps, OthersOK
    <3>2. CASE ConsumePrompt \/ StartRun \/ SetupFails
        BY <2>2, <3>2 DEF ConsumePrompt, StartRun, SetupFails, Owners, OwnerSteps
    <3> QED BY <1>2, <3>1, <3>2
  <2>4. completed \subseteq Lives'
      BY <1>0, <2>1, <1>2, LivesKept DEF OthersOK
  <2>5. run.prompt \subseteq Messages
      BY <2>2 DEF Owners
  <2>6. OthersOK'
      BY <1>0, <1>2, <2>3, <2>4, <2>5
         DEF ReadPrompt, ConsumePrompt, StartRun, SetupFails, Fault, OthersOK
  <2> QED BY <1>2, <2>1, <2>6, TypeFrom DEF ReadPrompt, ConsumePrompt, StartRun, SetupFails
<1>3. CASE DrainGuidance
  <2>1. EventsStep
      BY <1>3, EventsKept DEF DrainGuidance
  <2>2. run' \in Owners
      BY <1>0, <1>3, OwnerRecords DEF DrainGuidance, Owners, OthersOK
  <2>3. Range(channel) \subseteq Messages
      BY <1>0 DEF Range, OthersOK
  <2>4. <<>> \in Seq(Messages) /\ completed \subseteq Lives'
      BY <1>0, <2>1, LivesKept DEF OthersOK
  <2>5. OthersOK'
      BY <1>0, <1>3, <2>2, <2>3, <2>4 DEF DrainGuidance, OthersOK
  <2> QED BY <1>3, <2>1, <2>5, TypeFrom DEF DrainGuidance
<1>4. CASE (\E last \in BOOLEAN : RecordEvent(last)) \/ ReportError
  <2>1. EventsStep
    <3>1. "run" \in Rows
        BY DEF Rows
    <3>2. db' = Append(db, "run") /\ UNCHANGED <<life, eventVars>>
        BY <1>4 DEF RecordEvent, ReportError, Insert
    <3> QED BY <3>1, <3>2, TableGrows
  <2>2. Len(db) + 1 \in Nat
      BY EventsTyped
  <2>3. run' \in Owners
    <3>1. run \in Owners
        BY <1>4, OwnerRecords DEF RecordEvent, ReportError
    <3> QED BY <1>4, <2>2, <3>1 DEF RecordEvent, ReportError, Insert, Owners, OwnerSteps
  <2>4. completed \subseteq Lives'
      BY <1>0, <2>1, LivesKept DEF OthersOK
  <2>5. OthersOK'
      BY <1>0, <1>4, <2>3, <2>4 DEF RecordEvent, ReportError, OthersOK
  <2> QED BY <1>4, <2>1, <2>5, TypeFrom DEF RecordEvent, ReportError
<1>5. CASE RecordGuidance
  <2>0. run \in Owners /\ run.drained \in Seq(Messages) /\ run.drained # <<>>
      BY <1>5, OwnerRecords DEF RecordGuidance, Owners
  <2>1. Head(run.drained) \in Messages /\ Tail(run.drained) \in Seq(Messages)
      BY <2>0, HeadTailProperties
  <2>2. EventsStep
    <3>1. CASE read[Head(run.drained)] = "no"
      <4>1. db' = Append(db, Head(run.drained)) /\ UNCHANGED <<life, eventVars>>
          BY <1>5, <3>1 DEF RecordGuidance
      <4>2. Head(run.drained) \in Rows
          BY <2>1 DEF Rows
      <4> QED BY <4>1, <4>2, TableGrows
    <3>2. CASE read[Head(run.drained)] # "no"
        BY <1>5, <3>2, EventsKept DEF RecordGuidance
    <3> QED BY <3>1, <3>2
  <2>3. run' \in Owners
    <3>1. Len(db) + 1 \in Nat
        BY EventsTyped
    <3> QED BY <1>5, <2>0, <2>1, <3>1 DEF RecordGuidance, Owners, OwnerSteps
  <2>4. completed \subseteq Lives'
      BY <1>0, <2>2, LivesKept DEF OthersOK
  <2>5. OthersOK'
      BY <1>0, <1>5, <2>1, <2>3, <2>4 DEF RecordGuidance, OthersOK
  <2> QED BY <1>5, <2>2, <2>5, TypeFrom DEF RecordGuidance
<1>6. CASE Push
  <2>1. life \in Lives /\ run.seq \in Sequence
      BY <1>6, EventsTyped DEF Push, Entry, Lives
  <2>2. EventsStep
      BY <1>6, <2>1, CacheGrows DEF Push
  <2>3. run' \in Owners
      BY <1>6, OwnerRecords DEF Push, OwnerSteps
  <2>4. completed \subseteq Lives'
      BY <1>0, <2>2, LivesKept DEF OthersOK
  <2>5. OthersOK'
      BY <1>0, <1>6, <2>3, <2>4 DEF Push, OthersOK
  <2> QED BY <1>6, <2>2, <2>5, TypeFrom DEF Push
<1>7. CASE Send
  <2>1. life \in Lives /\ run.seq \in Range(cache[life])
      BY <1>7, EventsTyped DEF Send, Entry, Lives
  <2>2. EventsStep
      BY <1>7, <2>1, SentGrows DEF Send
  <2>3. run' \in Owners
      BY <1>7, OwnerRecords DEF Send, OwnerSteps
  <2>4. completed \subseteq Lives'
      BY <1>0, <2>2, LivesKept DEF OthersOK
  <2>5. OthersOK'
      BY <1>0, <1>7, <2>3, <2>4 DEF Send, OthersOK
  <2> QED BY <1>7, <2>2, <2>5, TypeFrom DEF Send
<1>8. CASE RecordFails \/ ReportErrorFails \/ Complete \/ Unregister \/ Settle
  <2>1. EventsStep
      BY <1>8, EventsKept DEF RecordFails, ReportErrorFails, Fault, Complete, Unregister, Settle
  <2>2. run' \in {NotOpen} \cup Owners
    <3>1. CASE Settle
        BY <3>1 DEF Settle
    <3>2. CASE ReportErrorFails \/ Complete \/ Unregister
        BY <3>2, OwnerRecords DEF ReportErrorFails, Complete, Unregister, OwnerSteps
    <3>3. CASE RecordFails
      <4>1. run \in Owners /\ <<>> \in Seq(Messages)
          BY <3>3, OwnerRecords DEF RecordFails
      <4> QED BY <3>3, <4>1 DEF RecordFails, Owners, OwnerSteps
    <3> QED BY <1>8, <3>1, <3>2, <3>3
  <2>3. completed' \subseteq Lives'
    <3>1. completed \subseteq Lives'
        BY <1>0, <2>1, LivesKept DEF OthersOK
    <3>2. CASE Complete
      <4>1. life' = life /\ completed' = completed \cup {life} /\ life \in Lives
          BY <3>2, EventsTyped DEF Complete, Entry, Lives
      <4> QED BY <3>1, <4>1 DEF Lives
    <3>3. CASE ~Complete
        BY <1>8, <3>1, <3>3 DEF RecordFails, ReportErrorFails, Unregister, Settle
    <3> QED BY <3>2, <3>3
  <2>4. <<>> \in Seq(Messages)
      OBVIOUS
  <2>5. OthersOK'
    <3>1. CASE Settle
        BY <1>0, <2>2, <2>3, <3>1 DEF Settle, OthersOK
    <3>2. CASE RecordFails \/ ReportErrorFails
        BY <1>0, <2>2, <2>3, <3>2 DEF RecordFails, ReportErrorFails, Fault, OthersOK
    <3>3. CASE Complete \/ Unregister
        BY <1>0, <2>2, <2>3, <2>4, <3>3 DEF Complete, Unregister, OthersOK
    <3> QED BY <1>8, <3>1, <3>2, <3>3
  <2> QED BY <1>8, <2>1, <2>5, TypeFrom
          DEF RecordFails, ReportErrorFails, Complete, Unregister, Settle
<1> QED BY <1>1, <1>2, <1>3, <1>4, <1>5, <1>6, <1>7, <1>8 DEF OwnerStep

LEMMA ProjectionTyped ==
    ASSUME TypeOK, Projecting, ProjectionStep
    PROVE  TypeOK' /\ EventsStep
<1> USE DEF storeVars, mailVars, entryVars, eventVars, projVars
<1>0. OthersOK
    BY TypeParts
<1>r. ASSUME proj.at # "idle" PROVE proj \in Projections /\ proj.child \in Children
    BY <1>0, <1>r DEF OthersOK, NoProjection, Projections
<1>s. ASSUME EventsStep, UNCHANGED <<load, task, read, mailVars, entryVars, run, stream>>,
             proj' \in {NoProjection} \cup Projections, parts' \subseteq Children, faults' \in Nat
      PROVE  TypeOK'
  <2>1. completed \subseteq Lives'
      BY <1>0, <1>s, LivesKept DEF OthersOK
  <2>2. OthersOK'
      BY <1>0, <1>s, <2>1 DEF OthersOK
  <2> QED BY <1>s, <2>2, TypeFrom
<1>1. ASSUME NEW k \in load.children, ProjectInsert(k) PROVE TypeOK' /\ EventsStep
  <2>1. k \in Children
      BY <1>0, WorkloadsAssumption DEF OthersOK
  <2>2. EventsStep
    <3>1. CASE db' = Append(db, k)
      <4>1. k \in Rows
          BY <2>1 DEF Rows
      <4> QED BY <1>1, <3>1, <4>1, TableGrows DEF ProjectInsert
    <3>2. CASE db' = db
        BY <1>1, <3>2, EventsKept DEF ProjectInsert
    <3> QED BY <1>1, <3>1, <3>2 DEF ProjectInsert
  <2>3. proj' \in Projections
      BY <1>1, <2>1 DEF ProjectInsert, Projections
  <2> QED BY <1>0, <1>1, <1>s, <2>2, <2>3 DEF ProjectInsert, OthersOK
<1>2. CASE ProjectPart \/ ProjectFails \/ ProjectLookup
  <2>1. EventsStep
      BY <1>2, EventsKept DEF ProjectPart, ProjectFails, ProjectLookup, Fault
  <2>2. proj \in Projections /\ proj.child \in Children /\ life \in Nat
      BY <1>2, <1>r, EventsTyped DEF ProjectPart, ProjectFails, ProjectLookup
  <2>3. proj' \in {NoProjection} \cup Projections
    <3>1. [proj EXCEPT !.at = "lookup"] \in Projections
        BY <2>2 DEF Projections
    <3>2. [proj EXCEPT !.at = "push", !.life = life] \in Projections
        BY <2>2 DEF Projections
    <3> QED BY <1>2, <3>1, <3>2 DEF ProjectPart, ProjectFails, ProjectLookup
  <2>4. parts' \subseteq Children /\ faults' \in Nat
      BY <1>0, <1>2, <2>2 DEF ProjectPart, ProjectFails, ProjectLookup, Fault, OthersOK
  <2> QED BY <1>2, <1>s, <2>1, <2>3, <2>4 DEF ProjectPart, ProjectFails, ProjectLookup
<1>3. CASE ProjectPush
  <2>1. proj.life \in Lives /\ proj \in Projections
      BY <1>3, <1>r DEF ProjectPush, Projecting
  <2>2. PICK e \in RowsOf(proj.child) : cache' = [cache EXCEPT ![proj.life] = Append(@, e)]
      BY <1>3 DEF ProjectPush
  <2>3. e \in Sequence
      BY DEF RowsOf
  <2>4. EventsStep
      BY <1>3, <2>1, <2>2, <2>3, CacheGrows DEF ProjectPush
  <2>5. proj' \in Projections
      BY <1>3, <2>1 DEF ProjectPush, Projections
  <2> QED BY <1>0, <1>3, <1>s, <2>4, <2>5 DEF ProjectPush, OthersOK
<1>4. CASE ProjectSend
  <2>1. proj.life \in Lives /\ RowsOf(proj.child) \subseteq Range(cache[proj.life])
      BY <1>4, <1>r DEF ProjectSend, Projecting
  <2>2. PICK e \in RowsOf(proj.child) : sent' = [sent EXCEPT ![proj.life] = Append(@, e)]
      BY <1>4 DEF ProjectSend
  <2>3. EventsStep
      BY <1>4, <2>1, <2>2, SentGrows DEF ProjectSend
  <2> QED BY <1>0, <1>4, <1>s, <2>3 DEF ProjectSend, OthersOK
<1> QED BY <1>1, <1>2, <1>3, <1>4 DEF ProjectionStep

LEMMA MailTyped ==
    ASSUME TypeOK, Claim \/ Resume \/ \E m \in load.messages : SendMessage(m) \/ Deliver(m)
    PROVE  TypeOK' /\ EventsStep
<1> USE DEF storeVars, mailVars, entryVars, eventVars, projVars
<1>0. OthersOK
    BY TypeParts
<1>1. CASE Claim \/ Resume
  <2>1. EventsStep
      BY <1>1, EventsKept DEF Claim, Resume
  <2>2. OthersOK'
      BY <1>0, <1>1 DEF Claim, Resume, OthersOK, Lives
  <2> QED BY <1>1, <2>1, <2>2, TypeFrom DEF Claim, Resume
<1>2. ASSUME NEW m \in load.messages, SendMessage(m) \/ Deliver(m) PROVE TypeOK' /\ EventsStep
  <2>1. EventsStep
      BY <1>2, EventsKept DEF SendMessage, Deliver, DeliverTo
  <2>2. m \in Messages
      BY <1>0, WorkloadsAssumption DEF OthersOK
  <2>3. channel' \in Seq(Messages)
      BY <1>0, <1>2, <2>2, AppendProperties DEF SendMessage, Deliver, DeliverTo, OthersOK
  <2>4. OthersOK'
      BY <1>0, <1>2, <2>2, <2>3 DEF SendMessage, Deliver, DeliverTo, OthersOK, Lives
  <2> QED BY <1>2, <2>1, <2>4, TypeFrom DEF SendMessage, Deliver, DeliverTo
<1> QED BY <1>1, <1>2

-----------------------------------------------------------------------------
(* Streams                                                                  *)

Subscribed == {"joined", "replay", "live", "final"}

\* Positions are within the logs, frames wait only where they are delivered,
\* and a stream that reached its end has seen the completion.
Behaved(s) ==
    /\ s.at \in Subscribed => s.life \in Lives /\ s.pos \in 0 .. Len(sent[s.life])
    /\ s.at \notin {"replay", "live", "final", "polled", "full"} => s.todo = <<>>
    /\ s.at \in {"status", "events", "polled", "full"} => load.team
    /\ s.at = "final" => s.life \in completed
    /\ s.at = "ended" /\ ~load.team => s.life \in completed
    /\ s.seen \in 0 .. Len(db)

\* The k-th waiting frame is in the cache, behind frames that the client has
\* passed or that wait before it.
Waits(log, s, k) ==
    \E i \in DOMAIN log :
        /\ log[i] = s.todo[k]
        /\ \A j \in 1 .. i - 1 : log[j] <= s.last \/ \E h \in 1 .. k - 1 : s.todo[h] = log[j]
FromCache(s) == \A k \in DOMAIN s.todo : Waits(cache[s.life], s, k)

\* The waiting rows are the next ones of the table.
FromTable(s) == \A k \in DOMAIN s.todo : s.todo[k] = s.last + k /\ s.last + k \in Sequence

\* The client has passed the event, or it waits.
Had(s, e) == e <= s.last \/ e \in Range(s.todo)

Delivered(s) ==
    /\ s.at \in {"replay", "live"} => \A j \in 1 .. s.pos : Had(s, sent[s.life][j])
    /\ ~load.team /\ s.at \in {"final", "ended"} => \A e \in Range(cache[s.life]) : Had(s, e)
    /\ s.at = "polled" => s.seen <= s.last + Len(s.todo)
    /\ load.team /\ s.at = "ended" => s.seen <= s.last

\* What a client has passed it has got, or a later event overtook it.
Lossless(s) == \A e \in 1 .. s.last : e \in s.got \/ Overtaken(e)

Sound(s) ==
    /\ s \in Streams /\ Bounded(s) /\ Behaved(s)
    /\ s.at \in {"replay", "live", "final"} => FromCache(s)
    /\ s.at \in {"polled", "full"} => FromTable(s)
    /\ Delivered(s)
    /\ Lossless(s)

StreamsSound == \A s \in {stream[c] : c \in Clients} : Sound(s)

LEMMA StreamFields ==
    ASSUME NEW s \in Streams
    PROVE  /\ s.last \in Nat /\ s.todo \in Seq(Nat) /\ Len(s.todo) \in Nat
           /\ s.pos \in Nat /\ s.life \in Nat /\ s.seen \in Nat /\ s.got \subseteq Nat
           /\ DOMAIN s.todo = 1 .. Len(s.todo)
           /\ \A k \in DOMAIN s.todo : s.todo[k] \in Nat
<1>1. s.last \in Nat /\ s.todo \in Seq(Nat) /\ s.pos \in Nat /\ s.life \in Nat /\ s.seen \in Nat
      /\ s.got \subseteq Nat
    BY DEF Streams
<1> QED BY <1>1, LenProperties, ElementOfSeq

LEMMA BeforeKept ==
    ASSUME NEW s \in Seq(Nat), NEW t \in Seq(Nat), Extended(s, t), NEW d, NEW e, Before(s, d, e)
    PROVE  Before(t, d, e) /\ Range(s) \subseteq Range(t)
<1>1. \A i \in DOMAIN s : i \in DOMAIN t /\ t[i] = s[i]
    BY DEF Extended
<1>2. \A i \in DOMAIN s : \A j \in 1 .. i - 1 : j \in DOMAIN s
    BY LenProperties
<1>3. PICK i \in DOMAIN s : s[i] = d /\ \A j \in 1 .. i - 1 : s[j] # e
    BY DEF Before
<1>4. t[i] = d /\ \A j \in 1 .. i - 1 : t[j] # e
    BY <1>1, <1>2, <1>3
<1> QED BY <1>1, <1>3, <1>4 DEF Before, Range

\* What stays true of the logs when they grow.
LEMMA LogsKept ==
    ASSUME TypeOK, EventsStep
    PROVE  /\ Lives \subseteq Lives' /\ Sequence \subseteq Sequence' /\ Len(db) <= Len(db')
           /\ \A l \in Lives : /\ cache'[l] \in Seq(Nat) /\ sent'[l] \in Seq(Nat)
                               /\ Extended(cache[l], cache'[l]) /\ Extended(sent[l], sent'[l])
                               /\ Range(cache[l]) \subseteq Range(cache'[l])
           /\ \A e : Overtaken(e) => Overtaken(e)'
<1>1. Lives \subseteq Lives' /\ Len(db) <= Len(db') /\ Len(db) \in Nat
      /\ \A l \in Lives : Extended(cache[l], cache'[l]) /\ Extended(sent[l], sent'[l])
    BY LivesKept, EventsTyped DEF EventsStep, EventsGrow
<1>2. Sequence \subseteq Sequence'
  <2>1. Len(db') \in Nat
      BY LenProperties DEF EventsStep, EventsOK
  <2> QED BY <1>1, <2>1 DEF Sequence
<1>3. \A l \in Lives : cache'[l] \in Seq(Nat) /\ sent'[l] \in Seq(Nat)
  <2>1. DOMAIN cache' = Lives' /\ DOMAIN sent' = Lives'
        /\ cache' \in Seq(Seq(Nat)) /\ sent' \in Seq(Seq(Nat))
      BY DEF EventsStep, EventsOK, Lives
  <2> QED BY <1>1, <2>1, ElementOfSeq
<1>4. \A l \in Lives : Range(cache[l]) \subseteq Range(cache'[l])
    BY <1>1 DEF Extended, Range
<1>5. ASSUME NEW e, Overtaken(e) PROVE Overtaken(e)'
  <2>1. PICK l \in Lives : \E d \in Range(cache[l]) :
           d > e /\ (Before(cache[l], d, e) \/ Before(sent[l], d, e))
      BY <1>5 DEF Overtaken
  <2>2. PICK d \in Range(cache[l]) :
           d > e /\ (Before(cache[l], d, e) \/ Before(sent[l], d, e))
      BY <2>1
  <2>3. cache[l] \in Seq(Nat) /\ sent[l] \in Seq(Nat)
      BY EventsTyped
  <2>4. Before(cache'[l], d, e) \/ Before(sent'[l], d, e)
      BY <1>1, <1>3, <2>2, <2>3, BeforeKept
  <2>5. l \in Lives' /\ d \in Range(cache'[l])
      BY <1>1, <1>4
  <2> QED BY <2>2, <2>4, <2>5 DEF Overtaken
<1> QED BY <1>1, <1>2, <1>3, <1>4, <1>5

\* A step that leaves a stream alone keeps it sound: the logs only grow, and
\* the cache of a plain chat is final once its run has completed.
LEMMA SoundKept ==
    ASSUME TypeOK, EventsStep, NEW s, Sound(s), load' = load, completed \subseteq completed',
           ~load.team => \A l \in completed : cache'[l] = cache[l]
    PROVE  Sound(s)'
<1>1. s \in Streams /\ Bounded(s) /\ Behaved(s)
    BY DEF Sound
<1>2. /\ s.todo \in Seq(Nat) /\ DOMAIN s.todo = 1 .. Len(s.todo) /\ Len(s.todo) \in Nat
      /\ s.last \in Nat /\ s.pos \in Nat /\ s.seen \in Nat
    BY <1>1, StreamFields
<1>3. /\ Lives \subseteq Lives' /\ Sequence \subseteq Sequence' /\ Len(db) <= Len(db')
      /\ Len(db) \in Nat /\ Len(db') \in Nat
      /\ \A l \in Lives : Extended(cache[l], cache'[l]) /\ Extended(sent[l], sent'[l])
    BY LogsKept, EventsTyped, LenProperties DEF EventsStep, EventsOK
<1>4. \A l \in Lives : /\ DOMAIN cache[l] = 1 .. Len(cache[l]) /\ Len(cache[l]) \in Nat
                       /\ DOMAIN sent[l] = 1 .. Len(sent[l]) /\ Len(sent[l]) \in Nat
                       /\ Len(sent'[l]) \in Nat
    BY EventsTyped, LogsKept, LenProperties
<1>5. Bounded(s)'
    BY <1>1, <1>3 DEF Bounded
<1>6. Behaved(s)'
  <2>1. s.at \in Subscribed => s.life \in Lives' /\ s.pos \in 0 .. Len(sent'[s.life])
      BY <1>1, <1>2, <1>3, <1>4 DEF Behaved, Extended
  <2> QED BY <1>1, <1>2, <1>3, <2>1 DEF Behaved
<1>7. ASSUME s.at \in {"replay", "live", "final"} PROVE FromCache(s)'
  <2>1. s.life \in Lives
      BY <1>1, <1>7 DEF Behaved, Subscribed
  <2>2. /\ Extended(cache[s.life], cache'[s.life])
        /\ DOMAIN cache[s.life] = 1 .. Len(cache[s.life]) /\ Len(cache[s.life]) \in Nat
      BY <1>3, <1>4, <2>1
  <2>3. ASSUME NEW k \in DOMAIN s.todo PROVE Waits(cache'[s.life], s, k)
    <3>1. PICK i \in DOMAIN cache[s.life] :
             /\ cache[s.life][i] = s.todo[k]
             /\ \A j \in 1 .. i - 1 : \/ cache[s.life][j] <= s.last
                                      \/ \E h \in 1 .. k - 1 : s.todo[h] = cache[s.life][j]
        BY <1>7, <2>3 DEF Sound, FromCache, Waits
    <3>2. i \in DOMAIN cache'[s.life] /\ cache'[s.life][i] = s.todo[k]
        BY <2>2, <3>1 DEF Extended
    <3>3. \A j \in 1 .. i - 1 : cache'[s.life][j] = cache[s.life][j]
        BY <2>2 DEF Extended
    <3> QED BY <3>1, <3>2, <3>3 DEF Waits
  <2> QED BY <2>3 DEF FromCache
<1>8. s.at \in {"polled", "full"} => FromTable(s)'
    BY <1>3 DEF Sound, FromTable
<1>9. Delivered(s)'
  <2>1. ASSUME s.at \in {"replay", "live"}, NEW j \in 1 .. s.pos PROVE Had(s, sent'[s.life][j])
    <3>1. s.life \in Lives /\ s.pos \in 0 .. Len(sent[s.life])
        BY <1>1, <2>1 DEF Behaved, Subscribed
    <3>2. j \in DOMAIN sent[s.life]
        BY <1>2, <1>4, <3>1
    <3>3. sent'[s.life][j] = sent[s.life][j]
        BY <1>3, <3>1, <3>2 DEF Extended
    <3>4. Had(s, sent[s.life][j])
        BY <2>1 DEF Sound, Delivered
    <3> QED BY <3>3, <3>4
  <2>2. ASSUME ~load.team, s.at \in {"final", "ended"}
        PROVE  \A e \in Range(cache'[s.life]) : Had(s, e)
    <3>1. cache'[s.life] = cache[s.life]
        BY <1>1, <2>2 DEF Behaved
    <3> QED BY <2>2, <3>1 DEF Sound, Delivered
  <2>3. /\ s.at = "polled" => s.seen <= s.last + Len(s.todo)
        /\ load'.team /\ s.at = "ended" => s.seen <= s.last
      BY DEF Sound, Delivered
  <2>4. \A e : Had(s, e)' <=> Had(s, e)
      BY DEF Had
  <2> QED BY <2>1, <2>2, <2>3, <2>4 DEF Delivered
<1>10. Lossless(s)'
    BY LogsKept DEF Sound, Lossless
<1> QED BY <1>1, <1>5, <1>6, <1>7, <1>8, <1>9, <1>10 DEF Sound

LEMMA StreamsKept ==
    ASSUME TypeOK, EventsStep, StreamsSound, stream' = stream, load' = load,
           completed \subseteq completed',
           ~load.team => \A l \in completed : cache'[l] = cache[l]
    PROVE  StreamsSound'
<1>1. ASSUME NEW s \in {stream[c] : c \in Clients} PROVE Sound(s)'
    BY SoundKept DEF StreamsSound
<1> QED BY <1>1 DEF StreamsSound

\* A step of one stream.
LEMMA StreamMoves ==
    ASSUME TypeOK, StreamsSound, NEW c \in Clients, NEW t, Sound(t), Streaming(c, t),
           faults' \in Nat
    PROVE  TypeOK' /\ StreamsSound'
<1> USE DEF Streaming, storeVars, mailVars, entryVars, eventVars, projVars
<1>1. EventsStep
    BY EventsKept
<1>2. \A s : Sound(s) => Sound(s)'
    BY <1>1, SoundKept
<1>3. stream \in [Clients -> Streams] /\ t \in Streams
    BY DEF TypeOK, Sound
<1>4. \A d \in Clients : stream'[d] \in {t} \cup {stream[e] : e \in Clients}
    BY <1>3
<1>5. \A d \in Clients : Sound(stream[d])
    BY DEF StreamsSound
<1>6. ASSUME NEW s \in {stream'[d] : d \in Clients} PROVE Sound(s)'
    BY <1>2, <1>4, <1>5
<1>7. StreamsSound'
    BY <1>6 DEF StreamsSound
<1>8. stream' \in [Clients -> Streams]
    BY <1>3
<1>9. ASSUME NEW d \in Clients
      PROVE stream'[d].last \in 0 .. Len(db') /\ stream'[d].got \subseteq Sequence'
  <2>1. PICK s \in {stream'[e] : e \in Clients} : s = stream'[d]
      OBVIOUS
  <2>2. Bounded(s)'
      BY <1>6, <2>1 DEF Sound
  <2> QED BY <2>1, <2>2 DEF Bounded
<1>10. OthersOK'
    BY <1>8, TypeParts DEF OthersOK, Lives
<1>11. EventsOK'
    BY <1>1 DEF EventsStep
<1>12. (\A d \in Clients : stream[d].last \in 0 .. Len(db) /\ stream[d].got \subseteq Sequence)'
    BY ONLY <1>9
<1> HIDE DEF Streaming, storeVars, mailVars, entryVars, eventVars, projVars
<1>13. TypeOK'
    BY ONLY <1>10, <1>11, <1>12 DEF TypeOK, EventsOK, OthersOK, Rows
<1> QED BY <1>7, <1>13

\* A frame is delivered, and a later one overtook what lies between.
LEMMA PassedOn ==
    ASSUME NEW s \in Streams, Bounded(s), Lossless(s), NEW e \in Sequence, Len(db) \in Nat,
           \A d \in Nat : s.last < d /\ d < e => Overtaken(d)
    PROVE  LET t == Passed(s, e)
           IN  /\ t \in Streams /\ Bounded(t) /\ Lossless(t)
               /\ t.last = (IF e > s.last THEN e ELSE s.last) /\ s.last <= t.last /\ e <= t.last
               /\ t.at = s.at /\ t.life = s.life /\ t.pos = s.pos /\ t.todo = s.todo
               /\ t.seen = s.seen
<1> DEFINE t == Passed(s, e)
<1>1. s.last \in Nat /\ s.got \subseteq Nat /\ e \in Nat /\ e \in 0 .. Len(db)
    BY StreamFields DEF Sequence
<1>2. CASE e > s.last
  <2>1. t = [s EXCEPT !.last = e, !.got = @ \cup {e}]
      BY <1>2 DEF Passed
  <2>2. t \in Streams /\ t.last = e /\ t.got = s.got \cup {e}
    <3>1. s.got \cup {e} \in SUBSET Nat
        BY <1>1
    <3> QED BY <1>1, <2>1, <3>1 DEF Streams
  <2>3. t.at = s.at /\ t.life = s.life /\ t.pos = s.pos /\ t.todo = s.todo /\ t.seen = s.seen
      BY <2>1 DEF Streams
  <2> HIDE DEF t
  <2>4. Bounded(t)
      BY <1>1, <2>2 DEF Bounded
  <2>5. ASSUME NEW d \in 1 .. t.last PROVE d \in t.got \/ Overtaken(d)
    <3>1. d \in 1 .. s.last \/ (d \in Nat /\ s.last < d /\ d < e) \/ d = e
        BY <1>1, <2>2
    <3> QED BY <2>2, <3>1 DEF Lossless
  <2>6. Lossless(t)
      BY <2>5 DEF Lossless
  <2> QED BY <1>1, <1>2, <2>2, <2>3, <2>4, <2>6 DEF t
<1>3. CASE ~(e > s.last)
    BY <1>1, <1>3 DEF Passed
<1> QED BY <1>2, <1>3

\* The head of the waiting frames.
LEMMA YieldSound ==
    ASSUME TypeOK, NEW s, Sound(s), s.todo # <<>>
    PROVE  Sound([Passed(s, Head(s.todo)) EXCEPT !.todo = Tail(@)])
<1> DEFINE e == Head(s.todo)
           p == Passed(s, e)
           t == [p EXCEPT !.todo = Tail(@)]
<1>1. s \in Streams /\ Bounded(s) /\ Behaved(s) /\ Lossless(s)
    BY DEF Sound
<1>2. /\ s.todo \in Seq(Nat) /\ DOMAIN s.todo = 1 .. Len(s.todo) /\ Len(s.todo) \in Nat
      /\ s.last \in Nat
    BY <1>1, StreamFields
<1>3. /\ e \in Nat /\ e = s.todo[1] /\ 1 \in DOMAIN s.todo
      /\ Tail(s.todo) \in Seq(Nat) /\ Len(Tail(s.todo)) = Len(s.todo) - 1
      /\ \A k \in DOMAIN Tail(s.todo) : k + 1 \in DOMAIN s.todo /\ Tail(s.todo)[k] = s.todo[k + 1]
      /\ Range(s.todo) = {e} \cup Range(Tail(s.todo))
    BY <1>2, TailRange
<1>4. DOMAIN Tail(s.todo) = 1 .. Len(s.todo) - 1
    BY <1>3
<1>5. s.at \in {"replay", "live", "final"} \/ s.at \in {"polled", "full"}
    BY <1>1 DEF Behaved
<1>6. s.at \in {"replay", "live", "final"} => s.life \in Lives
    BY <1>1 DEF Behaved, Subscribed
<1>7. \A l \in Lives : /\ cache[l] \in Seq(Nat) /\ DOMAIN cache[l] = 1 .. Len(cache[l])
                       /\ Len(cache[l]) \in Nat /\ Range(cache[l]) \subseteq Sequence
    BY EventsTyped DEF EventsOK
<1>8. e \in Sequence /\ \A d \in Nat : s.last < d /\ d < e => Overtaken(d)
  <2>1. CASE s.at \in {"replay", "live", "final"}
    <3>1. PICK i \in DOMAIN cache[s.life] :
             /\ cache[s.life][i] = e
             /\ \A j \in 1 .. i - 1 : cache[s.life][j] <= s.last
      <4>1. Waits(cache[s.life], s, 1)
          BY <1>3, <2>1 DEF Sound, FromCache
      <4>2. \A h \in 1 .. 1 - 1 : FALSE
          OBVIOUS
      <4> QED BY <1>3, <4>1, <4>2 DEF Waits
    <3>2. e \in Range(cache[s.life])
        BY <3>1 DEF Range
    <3>3. ASSUME NEW d \in Nat, s.last < d, d < e PROVE Overtaken(d)
      <4>1. \A j \in 1 .. i - 1 : cache[s.life][j] # d
        <5>1. \A j \in 1 .. i - 1 : j \in DOMAIN cache[s.life] /\ cache[s.life][j] \in Nat
            BY <1>6, <1>7, <2>1, ElementOfSeq
        <5> QED BY <1>2, <3>1, <3>3, <5>1
      <4>2. Before(cache[s.life], e, d)
          BY <3>1, <4>1 DEF Before
      <4>3. e > d
          BY <1>3, <3>3
      <4> QED BY <1>6, <2>1, <3>2, <4>2, <4>3 DEF Overtaken
    <3> QED BY <1>6, <1>7, <2>1, <3>2, <3>3
  <2>2. CASE s.at \in {"polled", "full"}
    <3>1. e = s.last + 1 /\ s.last + 1 \in Sequence
        BY <1>3, <2>2 DEF Sound, FromTable
    <3> QED BY <1>2, <3>1
  <2> QED BY <1>5, <2>1, <2>2
<1>9. /\ p \in Streams /\ Bounded(p) /\ Lossless(p)
      /\ p.last = (IF e > s.last THEN e ELSE s.last) /\ s.last <= p.last /\ e <= p.last
      /\ p.at = s.at /\ p.life = s.life /\ p.pos = s.pos /\ p.todo = s.todo /\ p.seen = s.seen
  <2>1. Len(db) \in Nat
      BY EventsTyped
  <2> HIDE DEF e
  <2> QED BY <1>1, <1>8, <2>1, PassedOn
<1> HIDE DEF e, p
<1>10. /\ t \in Streams /\ t.last = p.last /\ t.got = p.got /\ t.todo = Tail(s.todo)
       /\ t.at = s.at /\ t.life = s.life /\ t.pos = s.pos /\ t.seen = s.seen
    BY <1>3, <1>9 DEF Streams
<1> HIDE DEF t
<1>11. p.last \in Nat
    BY <1>9, StreamFields
<1>12. Bounded(t) /\ Lossless(t)
    BY <1>9, <1>10 DEF Bounded, Lossless
<1>13. Behaved(t)
    BY <1>1, <1>5, <1>10 DEF Behaved
<1>14. ASSUME NEW d \in Nat, Had(s, d) PROVE Had(t, d)
    BY <1>2, <1>3, <1>9, <1>10, <1>11, <1>14 DEF Had
<1>15. ASSUME s.at \in {"replay", "live", "final"} PROVE FromCache(t)
  <2>1. ASSUME NEW k \in DOMAIN t.todo PROVE Waits(cache[s.life], t, k)
    <3>1. k \in Nat /\ k + 1 \in DOMAIN s.todo /\ t.todo[k] = s.todo[k + 1] /\ (k + 1) - 1 = k
        BY <1>2, <1>3, <1>4, <1>10
    <3>2. Waits(cache[s.life], s, k + 1)
        BY <1>15, <3>1 DEF Sound, FromCache
    <3>3. PICK i \in DOMAIN cache[s.life] :
             /\ cache[s.life][i] = t.todo[k]
             /\ \A j \in 1 .. i - 1 : \/ cache[s.life][j] <= s.last
                                      \/ \E h \in 1 .. k : s.todo[h] = cache[s.life][j]
        BY <3>1, <3>2 DEF Waits
    <3>4. ASSUME NEW j \in 1 .. i - 1
          PROVE  cache[s.life][j] <= t.last \/ \E h \in 1 .. k - 1 : t.todo[h] = cache[s.life][j]
      <4>1. cache[s.life][j] \in Nat
        <5>1. j \in DOMAIN cache[s.life]
            BY <1>6, <1>7, <1>15
        <5> QED BY <1>6, <1>7, <1>15, <5>1, ElementOfSeq
      <4>2. CASE cache[s.life][j] <= s.last
          BY <1>2, <1>9, <1>10, <1>11, <4>1, <4>2
      <4>3. ASSUME NEW h \in 1 .. k, s.todo[h] = cache[s.life][j]
            PROVE  cache[s.life][j] <= t.last \/ \E g \in 1 .. k - 1 : t.todo[g] = cache[s.life][j]
        <5>1. CASE h = 1
            BY <1>3, <1>9, <1>10, <4>3, <5>1
        <5>2. CASE h # 1
          <6>1. h - 1 \in 1 .. k - 1 /\ h - 1 \in DOMAIN t.todo
              BY <1>2, <1>4, <1>10, <3>1, <5>2
          <6>2. t.todo[h - 1] = s.todo[h]
              BY <1>3, <1>10, <6>1
          <6> QED BY <4>3, <6>1, <6>2
        <5> QED BY <5>1, <5>2
      <4> QED BY <3>3, <4>2, <4>3
    <3> QED BY <3>3, <3>4 DEF Waits
  <2> QED BY <1>10, <2>1 DEF FromCache
<1>16. ASSUME s.at \in {"polled", "full"} PROVE FromTable(t) /\ t.last = s.last + 1
  <2>1. e = s.last + 1 /\ \A k \in DOMAIN s.todo : s.todo[k] = s.last + k /\ s.last + k \in Sequence
      BY <1>3, <1>16 DEF Sound, FromTable
  <2>2. t.last = s.last + 1
      BY <1>2, <1>9, <1>10, <2>1
  <2>3. \A k \in Nat : s.last + (k + 1) = t.last + k
    <3>1. \A a, k \in Nat : a + (k + 1) = (a + 1) + k
        OBVIOUS
    <3> QED BY <1>2, <2>2, <3>1, Zenon
  <2>4. ASSUME NEW k \in DOMAIN t.todo PROVE t.todo[k] = t.last + k /\ t.last + k \in Sequence
    <3>1. k \in Nat /\ k + 1 \in DOMAIN s.todo /\ t.todo[k] = s.todo[k + 1]
      <4>1. k \in DOMAIN Tail(s.todo)
          BY <1>10
      <4> QED BY <1>2, <1>3, <1>4, <1>10, <4>1
    <3> QED BY <2>1, <2>3, <3>1
  <2> QED BY <2>2, <2>4 DEF FromTable
<1>17. Delivered(t)
  <2>1. ASSUME s.at \in {"replay", "live"}, NEW j \in 1 .. s.pos PROVE Had(t, sent[s.life][j])
    <3>1. s.life \in Lives /\ s.pos \in 0 .. Len(sent[s.life])
        BY <1>1, <2>1 DEF Behaved, Subscribed
    <3>2. sent[s.life][j] \in Nat
        BY <3>1, EventsTyped, ElementOfSeq
    <3> QED BY <1>14, <2>1, <3>2 DEF Sound, Delivered
  <2>2. ASSUME ~load.team, s.at = "final" PROVE \A d \in Range(cache[s.life]) : Had(t, d)
    <3>1. Range(cache[s.life]) \subseteq Nat
        BY <1>6, <1>7, <2>2 DEF Sequence
    <3> QED BY <1>14, <2>2, <3>1 DEF Sound, Delivered
  <2>3. s.at = "polled" => t.seen <= t.last + Len(t.todo)
    <3>1. s.seen \in Nat
        BY <1>1, StreamFields
    <3> QED BY <1>2, <1>3, <1>10, <1>16, <3>1 DEF Sound, Delivered
  <2> QED BY <1>5, <1>10, <2>1, <2>2, <2>3 DEF Delivered
<1>18. Sound(t)
    BY <1>10, <1>12, <1>13, <1>15, <1>16, <1>17 DEF Sound
<1> QED BY <1>18 DEF t, p, e

\* A snapshot holds whatever of the cache the client has not passed.
LEMMA SnapshotWaits ==
    ASSUME TypeOK, NEW t \in Streams, t.life \in Lives, t.todo = Newer(cache[t.life], t.last)
    PROVE  FromCache(t) /\ \A e \in Range(cache[t.life]) : Had(t, e)
<1> DEFINE log == cache[t.life]
<1>1. log \in Seq(Nat) /\ DOMAIN log = 1 .. Len(log) /\ Len(log) \in Nat /\ t.last \in Nat
    BY EventsTyped, StreamFields
<1>2. Preceded(log, t.last, Len(log), t.todo)
    BY <1>1, NewerProperties
<1>3. \A i \in DOMAIN log : log[i] \in Nat
    BY <1>1, ElementOfSeq
<1> HIDE DEF log
<1>4. ASSUME NEW k \in DOMAIN t.todo PROVE Waits(log, t, k)
  <2>1. PICK i \in 1 .. Len(log) :
           /\ log[i] = t.todo[k]
           /\ \A j \in 1 .. i - 1 :
                 log[j] > t.last => \E h \in 1 .. k - 1 : t.todo[h] = log[j]
      BY <1>2 DEF Preceded, PrecededAt
  <2>2. ASSUME NEW j \in 1 .. i - 1
        PROVE  log[j] <= t.last \/ \E h \in 1 .. k - 1 : t.todo[h] = log[j]
    <3>1. j \in DOMAIN log
        BY <1>1
    <3>2. log[j] \in Nat
        BY <1>3, <3>1
    <3>3. log[j] > t.last => \E h \in 1 .. k - 1 : t.todo[h] = log[j]
        BY <2>1
    <3>4. t.last \in Nat
        BY <1>1
    <3>5. log[j] > t.last \/ log[j] <= t.last
        BY ONLY <3>2, <3>4
    <3> QED BY <3>3, <3>5
  <2> QED BY <1>1, <2>1, <2>2 DEF Waits
<1>5. ASSUME NEW e \in Range(log) PROVE Had(t, e)
  <2>1. PICK i \in DOMAIN log : log[i] = e
      BY DEF Range
  <2>2. e \in Nat /\ (e > t.last => e \in Range(t.todo))
      BY <1>1, <1>2, <1>3, <2>1 DEF Preceded
  <2> QED BY <1>1, <2>2 DEF Had
<1> QED BY <1>4, <1>5 DEF FromCache, log

\* A stream whose frames are all delivered and that is not subscribed.
LEMMA RestingSound ==
    ASSUME NEW s, Sound(s), NEW t \in Streams, t.last = s.last, t.got = s.got, t.todo = <<>>,
           t.at \in {"off", "failed", "open", "status", "events"},
           t.at \in {"status", "events"} => load.team, t.seen \in 0 .. Len(db)
    PROVE  Sound(t)
<1>1. Bounded(t) /\ Lossless(t)
    BY DEF Sound, Bounded, Lossless
<1>2. Behaved(t)
    BY DEF Behaved, Subscribed
<1>3. Delivered(t)
    BY DEF Delivered
<1> QED BY <1>1, <1>2, <1>3 DEF Sound

\* The steps within a subscription.
LEMMA SubscribedSound ==
    ASSUME TypeOK, StreamsSound, Entry, faults \in Nat, NEW c \in Clients,
           Join(c) \/ Replay(c) \/ Lagged(c) \/ Terminal(c)
    PROVE  \E t : Sound(t) /\ Streaming(c, t) /\ faults' = faults
<1> DEFINE s == stream[c]
<1>1. Sound(s) /\ s \in Streams /\ Bounded(s) /\ Behaved(s) /\ Lossless(s) /\ s.todo = <<>>
    BY DEF StreamsSound, Sound, Join, Replay, Lagged, Terminal, StreamIs
<1>2. /\ s.last \in Nat /\ s.pos \in Nat /\ s.seen \in 0 .. Len(db) /\ s.life \in Nat
    BY <1>1, StreamFields DEF Behaved
<1>3. \A l \in Lives : /\ cache[l] \in Seq(Nat) /\ sent[l] \in Seq(Nat)
                       /\ DOMAIN sent[l] = 1 .. Len(sent[l]) /\ Len(sent[l]) \in Nat
                       /\ Range(sent[l]) \subseteq Range(cache[l])
  <2>1. \A l \in Lives : /\ cache[l] \in Seq(Nat) /\ sent[l] \in Seq(Nat)
                         /\ Range(sent[l]) \subseteq Range(cache[l])
      BY EventsTyped DEF EventsOK
  <2> QED BY <2>1, LenProperties
<1>4. ASSUME NEW t \in Streams, t.life \in Lives, t.at \in {"replay", "live", "final"},
             t.last = s.last, t.got = s.got, t.seen = s.seen,
             t.todo = Newer(cache[t.life], s.last), t.pos \in 0 .. Len(sent[t.life]),
             t.at = "final" => t.life \in completed
      PROVE  Sound(t)
  <2>1. FromCache(t) /\ \A e \in Range(cache[t.life]) : Had(t, e)
      BY <1>4, SnapshotWaits
  <2>2. Bounded(t) /\ Lossless(t)
      BY <1>1, <1>4 DEF Bounded, Lossless
  <2>3. Behaved(t)
      BY <1>2, <1>4 DEF Behaved
  <2>4. ASSUME NEW j \in 1 .. t.pos PROVE Had(t, sent[t.life][j])
    <3>1. j \in DOMAIN sent[t.life]
        BY <1>3, <1>4
    <3>2. sent[t.life][j] \in Range(cache[t.life])
        BY <1>3, <1>4, <3>1 DEF Range
    <3> QED BY <2>1, <3>2
  <2>5. Delivered(t)
      BY <1>4, <2>1, <2>4 DEF Delivered
  <2> QED BY <1>4, <2>1, <2>2, <2>3, <2>5 DEF Sound
<1> HIDE DEF s
<1>5. CASE Join(c)
  <2> DEFINE t == [s EXCEPT !.at = "joined", !.life = life, !.pos = Len(sent[life])]
  <2>1. life \in Lives
      BY <1>5, EventsTyped DEF Join, Entry, Lives
  <2>2. Len(sent[life]) \in Nat /\ life \in Nat
      BY <1>3, <2>1, EventsTyped
  <2>3. /\ t \in Streams /\ t.at = "joined" /\ t.life = life /\ t.pos = Len(sent[life])
        /\ t.last = s.last /\ t.got = s.got /\ t.todo = <<>> /\ t.seen = s.seen
      BY <1>1, <2>2 DEF Streams
  <2>4. Streaming(c, t) /\ faults' = faults
      BY <1>5 DEF Join, s
  <2> HIDE DEF t
  <2>5. Bounded(t) /\ Lossless(t)
      BY <1>1, <2>3 DEF Bounded, Lossless
  <2>6. Behaved(t) /\ Delivered(t)
      BY <1>2, <2>1, <2>2, <2>3 DEF Behaved, Delivered
  <2>7. Sound(t)
      BY <2>3, <2>5, <2>6 DEF Sound
  <2> QED BY <2>4, <2>7
<1>6. ASSUME s.life \in Lives, NEW at \in {"replay", "final", "live"}, NEW pos \in 0 .. Len(sent[s.life]),
             at = "final" => s.life \in completed
      PROVE  Sound([s EXCEPT !.at = at, !.pos = pos, !.todo = Newer(cache[s.life], s.last)])
  <2> DEFINE todo == Newer(cache[s.life], s.last)
             t == [s EXCEPT !.at = at, !.pos = pos, !.todo = todo]
  <2>1. todo \in Seq(Nat)
      BY <1>2, <1>3, <1>6, NewerProperties
  <2>2. pos \in Nat
      BY <1>3, <1>6
  <2> HIDE DEF todo
  <2>3. /\ t \in Streams /\ t.at = at /\ t.life = s.life /\ t.pos = pos
        /\ t.last = s.last /\ t.got = s.got /\ t.todo = todo /\ t.seen = s.seen
      BY <1>1, <2>1, <2>2 DEF Streams
  <2> HIDE DEF t
  <2>4. Sound(t)
      BY <1>4, <1>6, <2>3 DEF todo
  <2> QED BY <2>4 DEF t, todo
<1>7. CASE Replay(c)
  <2> DEFINE t == [s EXCEPT !.at = "replay", !.pos = s.pos, !.todo = Newer(cache[s.life], s.last)]
  <2>1. s.life \in Lives /\ s.pos \in 0 .. Len(sent[s.life])
      BY <1>1, <1>7 DEF Replay, StreamIs, Behaved, Subscribed, s
  <2>2. Sound(t)
      BY <1>6, <2>1
  <2>3. t = [s EXCEPT !.at = "replay", !.todo = Newer(cache[s.life], s.last)]
      BY <1>1 DEF Streams
  <2>4. Streaming(c, t) /\ faults' = faults
      BY <1>7, <2>3 DEF Replay, s
  <2> QED BY <2>2, <2>4
<1>8. CASE Terminal(c)
  <2> DEFINE t == [s EXCEPT !.at = "final", !.pos = s.pos, !.todo = Newer(cache[s.life], s.last)]
  <2>1. s.life \in Lives /\ s.pos \in 0 .. Len(sent[s.life]) /\ s.life \in completed
      BY <1>1, <1>8 DEF Terminal, StreamIs, Behaved, Subscribed, s
  <2>2. Sound(t)
      BY <1>6, <2>1
  <2>3. t = [s EXCEPT !.at = "final", !.todo = Newer(cache[s.life], s.last)]
      BY <1>1 DEF Streams
  <2>4. Streaming(c, t) /\ faults' = faults
      BY <1>8, <2>3 DEF Terminal, s
  <2> QED BY <2>2, <2>4
<1>9. CASE Lagged(c)
  <2> DEFINE pos == Len(sent[s.life]) - Capacity
             t == [s EXCEPT !.at = "live", !.pos = pos, !.todo = Newer(cache[s.life], s.last)]
  <2>1. s.life \in Lives /\ s.pos \in 0 .. Len(sent[s.life]) /\ s.at = "live"
      BY <1>1, <1>9 DEF Lagged, StreamIs, Behaved, Subscribed, s
  <2>2. pos \in 0 .. Len(sent[s.life])
    <3>1. Len(sent[s.life]) \in Nat /\ Capacity \in Nat /\ s.pos \in Nat
        BY <1>2, <1>3, <2>1, LimitsAssumption
    <3>2. Len(sent[s.life]) - s.pos > Capacity
        BY <1>9 DEF Lagged, Behind, s
    <3> QED BY <3>1, <3>2
  <2> HIDE DEF pos
  <2>3. Sound(t)
      BY <1>6, <2>1, <2>2
  <2>4. t = [s EXCEPT !.pos = pos, !.todo = Newer(cache[s.life], s.last)]
      BY <1>1, <2>1 DEF Streams
  <2>5. Streaming(c, t) /\ faults' = faults
      BY <1>9, <2>4 DEF Lagged, s, pos
  <2> QED BY <2>3, <2>5
<1> QED BY <1>5, <1>7, <1>8, <1>9

\* A broadcast frame: what lies between it and the last one was not
\* broadcast before it.
LEMMA ReceiveSound ==
    ASSUME TypeOK, StreamsSound, NEW c \in Clients, Receive(c)
    PROVE  \E t : Sound(t) /\ Streaming(c, t) /\ faults' = faults
<1> DEFINE s == stream[c]
           e == sent[s.life][s.pos + 1]
           p == Passed(s, e)
           t == [p EXCEPT !.pos = @ + 1]
<1>1. Sound(s) /\ s \in Streams /\ Bounded(s) /\ Behaved(s) /\ Lossless(s)
      /\ s.todo = <<>> /\ s.at = "live"
    BY DEF StreamsSound, Sound, Receive, StreamIs
<1>2. Streaming(c, t) /\ faults' = faults
    BY DEF Receive
<1>3. s.life \in Lives /\ s.pos \in 0 .. Len(sent[s.life]) /\ s.last \in Nat /\ s.pos \in Nat
    BY <1>1, StreamFields DEF Behaved, Subscribed
<1>4. /\ cache[s.life] \in Seq(Nat) /\ sent[s.life] \in Seq(Nat)
      /\ Range(sent[s.life]) \subseteq Range(cache[s.life])
      /\ Range(cache[s.life]) \subseteq Sequence
      /\ DOMAIN sent[s.life] = 1 .. Len(sent[s.life]) /\ Len(sent[s.life]) \in Nat
  <2>1. /\ cache[s.life] \in Seq(Nat) /\ sent[s.life] \in Seq(Nat)
        /\ Range(sent[s.life]) \subseteq Range(cache[s.life])
        /\ Range(cache[s.life]) \subseteq Sequence
      BY <1>3, EventsTyped DEF EventsOK
  <2> QED BY <2>1, LenProperties
<1>5. s.pos + 1 \in DOMAIN sent[s.life]
  <2>1. Len(sent[s.life]) - s.pos \in 1 .. Capacity
      BY DEF Receive, Behind
  <2> QED BY <1>3, <1>4, <2>1, LimitsAssumption
<1>6. e \in Range(sent[s.life]) /\ e \in Range(cache[s.life]) /\ e \in Sequence /\ e \in Nat
  <2>1. e \in Range(sent[s.life])
      BY <1>5 DEF Range
  <2> QED BY <1>4, <2>1 DEF Sequence
<1>7. ASSUME NEW j \in 1 .. s.pos PROVE sent[s.life][j] \in Nat /\ sent[s.life][j] <= s.last
  <2>1. Had(s, sent[s.life][j])
      BY <1>1, <1>7 DEF Sound, Delivered
  <2>2. Range(s.todo) = {}
      BY <1>1 DEF Range
  <2>3. j \in DOMAIN sent[s.life]
      BY <1>3, <1>4
  <2> QED BY <1>4, <2>1, <2>2, <2>3, ElementOfSeq DEF Had
<1>8. ASSUME NEW d \in Nat, s.last < d, d < e PROVE Overtaken(d)
  <2>1. \A j \in 1 .. (s.pos + 1) - 1 : sent[s.life][j] # d
    <3>1. (s.pos + 1) - 1 = s.pos
        BY <1>3
    <3> QED BY <1>3, <1>7, <1>8, <3>1
  <2>2. Before(sent[s.life], e, d)
      BY <1>5, <2>1 DEF Before
  <2>3. e > d
      BY <1>6, <1>8
  <2> QED BY <1>3, <1>6, <2>2, <2>3 DEF Overtaken
<1> HIDE DEF e, s
<1>9. /\ p \in Streams /\ Bounded(p) /\ Lossless(p)
      /\ p.last = (IF e > s.last THEN e ELSE s.last) /\ s.last <= p.last /\ e <= p.last
      /\ p.at = s.at /\ p.life = s.life /\ p.pos = s.pos /\ p.todo = s.todo /\ p.seen = s.seen
  <2>1. Len(db) \in Nat
      BY EventsTyped
  <2> QED BY <1>1, <1>6, <1>8, <2>1, PassedOn
<1> HIDE DEF p
<1>10. /\ t \in Streams /\ t.last = p.last /\ t.got = p.got /\ t.todo = <<>> /\ t.at = "live"
       /\ t.life = s.life /\ t.pos = s.pos + 1 /\ t.seen = s.seen
    BY <1>1, <1>3, <1>9 DEF Streams
<1> HIDE DEF t
<1>11. Bounded(t) /\ Lossless(t)
    BY <1>9, <1>10 DEF Bounded, Lossless
<1>12. Behaved(t) /\ FromCache(t)
    BY <1>1, <1>3, <1>4, <1>5, <1>10 DEF Behaved, FromCache
<1>13. ASSUME NEW j \in 1 .. t.pos PROVE Had(t, sent[t.life][j])
  <2>1. j \in 1 .. s.pos \/ j = s.pos + 1
      BY <1>3, <1>10
  <2>2. p.last \in Nat
      BY <1>9, StreamFields
  <2> QED BY <1>3, <1>6, <1>7, <1>9, <1>10, <2>1, <2>2 DEF Had, e
<1>14. Sound(t)
    BY <1>10, <1>11, <1>12, <1>13 DEF Sound, Delivered
<1> QED BY <1>2, <1>14

\* The steps that deliver nothing and leave a subscription or the table.
LEMMA RestingStep ==
    ASSUME TypeOK, StreamsSound, NEW c \in Clients,
           Connect(c) \/ JoinFails(c) \/ Replayed(c) \/ PollTask(c) \/ PollFails(c)
           \/ Disconnect(c) \/ Drained(c) \/ Polled(c)
    PROVE  \E t : Sound(t) /\ Streaming(c, t)
<1> DEFINE s == stream[c]
<1>1. Sound(s) /\ s \in Streams /\ Behaved(s) /\ Bounded(s) /\ Lossless(s) /\ FALSE \in BOOLEAN
      /\ s.seen \in 0 .. Len(db) /\ s.opened \in Nat /\ 0 \in 0 .. Len(db) /\ Len(db) \in Nat
    BY EventsTyped DEF StreamsSound, Sound, Behaved, Streams
<1>2. [s EXCEPT !.at = "status", !.life = 0, !.pos = 0] \in Streams
    BY <1>1 DEF Streams
<1>3. ASSUME s.todo = <<>>, load.team PROVE Sound(Left(s))
    BY <1>1, <1>2, <1>3, RestingSound DEF Left, Streams
<1> HIDE DEF s
<1>4. CASE Connect(c)
  <2> DEFINE t == [s EXCEPT !.at = "open", !.opened = @ + 1]
  <2>1. t \in Streams /\ t.at = "open" /\ t.last = s.last /\ t.got = s.got /\ t.todo = s.todo
        /\ t.seen = s.seen
    <3>1. s.opened + 1 \in Nat
        BY <1>1
    <3> QED BY <1>1, <3>1 DEF Streams
  <2>2. s.todo = <<>>
      BY <1>1, <1>4 DEF Connect, Behaved, s
  <2>3. Streaming(c, t)
      BY <1>4 DEF Connect, s
  <2> HIDE DEF t
  <2> QED BY <1>1, <2>1, <2>2, <2>3, RestingSound
<1>5. CASE JoinFails(c)
  <2>1. s.todo = <<>>
      BY <1>5 DEF JoinFails, StreamIs, s
  <2>2. CASE load.team
      BY <1>3, <1>5, <2>1, <2>2 DEF JoinFails, s
  <2>3. CASE ~load.team
    <3> DEFINE t == [s EXCEPT !.at = "failed"]
    <3>1. t \in Streams /\ t.at = "failed" /\ t.last = s.last /\ t.got = s.got /\ t.todo = s.todo
          /\ t.seen = s.seen
        BY <1>1 DEF Streams
    <3>2. Streaming(c, t)
        BY <1>5, <2>3 DEF JoinFails, s
    <3> HIDE DEF t
    <3> QED BY <1>1, <2>1, <3>1, <3>2, RestingSound
  <2> QED BY <2>2, <2>3
<1>6. CASE PollTask(c)
  <2> DEFINE t == [s EXCEPT !.at = "events", !.ends = task = "settled", !.seen = Len(db)]
  <2>1. t \in Streams /\ t.at = "events" /\ t.last = s.last /\ t.got = s.got /\ t.todo = s.todo
        /\ t.seen = Len(db)
    <3>1. (task = "settled") \in BOOLEAN
        OBVIOUS
    <3> QED BY <1>1, <3>1 DEF Streams
  <2>2. s.todo = <<>> /\ load.team
      BY <1>1, <1>6 DEF PollTask, StreamIs, Behaved, s
  <2>3. Streaming(c, t)
      BY <1>6 DEF PollTask, s
  <2> HIDE DEF t
  <2> QED BY <1>1, <2>1, <2>2, <2>3, RestingSound
<1>7. CASE PollFails(c)
  <2> DEFINE t == [s EXCEPT !.at = "failed", !.ends = FALSE, !.seen = 0]
  <2>1. t \in Streams /\ t.at = "failed" /\ t.last = s.last /\ t.got = s.got /\ t.todo = s.todo
        /\ t.seen = 0
      BY <1>1 DEF Streams
  <2>2. s.todo = <<>>
      BY <1>7 DEF PollFails, StreamIs, s
  <2>3. Streaming(c, t)
      BY <1>7 DEF PollFails, s
  <2> HIDE DEF t
  <2> QED BY <1>1, <2>1, <2>2, <2>3, RestingSound
<1>8. CASE Disconnect(c)
  <2> DEFINE t == [Left(s) EXCEPT !.at = "off", !.todo = <<>>, !.ends = FALSE, !.seen = 0]
  <2>1. t \in Streams /\ t.at = "off" /\ t.last = s.last /\ t.got = s.got /\ t.todo = <<>>
        /\ t.seen = 0
    <3>1. <<>> \in Seq(Nat)
        OBVIOUS
    <3> QED BY <1>1, <3>1 DEF Left, Streams
  <2>2. Streaming(c, t)
      BY <1>8 DEF Disconnect, s
  <2> HIDE DEF t
  <2> QED BY <1>1, <2>1, <2>2, RestingSound
<1>9. CASE Replayed(c)
  <2>1. s.todo = <<>> /\ s.at = "replay"
      BY <1>9 DEF Replayed, StreamIs, s
  <2>2. CASE load.team /\ s.life \in completed
      BY <1>3, <1>9, <2>1, <2>2 DEF Replayed, s
  <2>3. CASE ~(load.team /\ s.life \in completed)
    <3> DEFINE t == [s EXCEPT !.at = "live"]
    <3>1. t \in Streams /\ t.at = "live" /\ t.last = s.last /\ t.got = s.got /\ t.todo = s.todo
          /\ t.seen = s.seen /\ t.life = s.life /\ t.pos = s.pos
        BY <1>1 DEF Streams
    <3>2. Streaming(c, t)
        BY <1>9, <2>3 DEF Replayed, s
    <3> HIDE DEF t
    <3>3. Bounded(t) /\ Lossless(t)
        BY <1>1, <3>1 DEF Bounded, Lossless
    <3>4. Behaved(t) /\ FromCache(t)
        BY <1>1, <2>1, <3>1 DEF Behaved, Subscribed, FromCache
    <3>5. Delivered(t)
        BY <1>1, <2>1, <3>1 DEF Sound, Delivered, Had
    <3>6. Sound(t)
        BY <3>1, <3>3, <3>4, <3>5 DEF Sound
    <3> QED BY <3>2, <3>6
  <2> QED BY <2>2, <2>3
<1>10. ASSUME s.todo = <<>>, \/ s.at = "final" /\ ~load.team
                             \/ s.at = "polled" /\ load.team
       PROVE  Sound([s EXCEPT !.at = "ended"])
  <2> DEFINE t == [s EXCEPT !.at = "ended"]
  <2>1. t \in Streams /\ t.at = "ended" /\ t.last = s.last /\ t.got = s.got /\ t.todo = <<>>
        /\ t.seen = s.seen /\ t.life = s.life
      BY <1>1, <1>10 DEF Streams
  <2> HIDE DEF t
  <2>2. Bounded(t) /\ Lossless(t)
      BY <1>1, <2>1 DEF Bounded, Lossless
  <2>3. Behaved(t)
      BY <1>1, <1>10, <2>1 DEF Behaved, Subscribed
  <2>4. Delivered(t)
    <3>1. Len(s.todo) = 0 /\ s.last \in Nat /\ \A e : Had(s, e) <=> Had(t, e)
        BY <1>1, <1>10, <2>1, StreamFields DEF Had
    <3> QED BY <1>1, <1>10, <2>1, <3>1 DEF Sound, Delivered
  <2>5. Sound(t)
      BY <2>1, <2>2, <2>3, <2>4 DEF Sound
  <2> QED BY <2>5 DEF t
<1>11. CASE Drained(c)
  <2>1. s.todo = <<>> /\ s.at = "final"
      BY <1>11 DEF Drained, StreamIs, s
  <2>2. CASE load.team
      BY <1>3, <1>11, <2>1, <2>2 DEF Drained, s
  <2>3. CASE ~load.team
      BY <1>10, <1>11, <2>1, <2>3 DEF Drained, s
  <2> QED BY <2>2, <2>3
<1>12. CASE Polled(c)
  <2>1. s.todo = <<>> /\ s.at \in {"polled", "full"} /\ load.team
      BY <1>1, <1>12 DEF Polled, StreamIs, Behaved, s
  <2>2. CASE s.at = "polled" /\ s.ends
      BY <1>10, <1>12, <2>1, <2>2 DEF Polled, s
  <2>3. CASE ~(s.at = "polled" /\ s.ends)
    <3> DEFINE t == [s EXCEPT !.at = "open", !.ends = FALSE, !.seen = 0]
    <3>1. t \in Streams /\ t.at = "open" /\ t.last = s.last /\ t.got = s.got /\ t.todo = s.todo
          /\ t.seen = 0
        BY <1>1 DEF Streams
    <3>2. Streaming(c, t)
        BY <1>12, <2>3 DEF Polled, s
    <3> HIDE DEF t
    <3> QED BY <1>1, <2>1, <3>1, <3>2, RestingSound
  <2> QED BY <2>2, <2>3
<1> QED BY <1>4, <1>5, <1>6, <1>7, <1>8, <1>9, <1>11, <1>12

\* The next batch of rows.
LEMMA PollEventsSound ==
    ASSUME TypeOK, StreamsSound, NEW c \in Clients, PollEvents(c)
    PROVE  \E t : Sound(t) /\ Streaming(c, t)
<1> DEFINE s == stream[c]
           rows == Len(db) - s.last
           n == IF rows < BatchLimit THEN rows ELSE BatchLimit
           todo == [k \in 1 .. n |-> s.last + k]
           at == IF n = BatchLimit THEN "full" ELSE "polled"
           t == [s EXCEPT !.at = at, !.todo = todo]
<1>1. Sound(s) /\ s \in Streams /\ Behaved(s) /\ Bounded(s) /\ Lossless(s)
      /\ s.at = "events" /\ s.todo = <<>>
    BY DEF StreamsSound, Sound, PollEvents, StreamIs
<1>2. s.seen \in 0 .. Len(db) /\ s.last \in 0 .. Len(db) /\ s.last \in Nat /\ Len(db) \in Nat
      /\ load.team
    BY <1>1, EventsTyped, StreamFields DEF Behaved, Bounded
<1>3. Streaming(c, t)
    BY DEF PollEvents
<1> HIDE DEF s
<1>4. n \in Nat /\ n <= rows /\ (n # BatchLimit => n = rows) /\ rows \in Nat
    BY <1>2, LimitsAssumption
<1> HIDE DEF n
<1>5. todo \in Seq(Nat) /\ Len(todo) = n /\ DOMAIN todo = 1 .. n
  <2>1. \A k \in 1 .. n : s.last + k \in Nat
      BY <1>2, <1>4
  <2> QED BY <1>4, <2>1
<1>6. \A k \in DOMAIN todo : todo[k] = s.last + k /\ s.last + k \in Sequence
    BY <1>2, <1>4, <1>5 DEF Sequence
<1> HIDE DEF todo, at
<1>7. at = (IF n = BatchLimit THEN "full" ELSE "polled")
    BY DEF at
<1>8. /\ t \in Streams /\ t.at = at /\ t.last = s.last /\ t.got = s.got /\ t.todo = todo
      /\ t.seen = s.seen
    BY <1>1, <1>5, <1>7 DEF Streams
<1> HIDE DEF t
<1>9. Bounded(t) /\ Lossless(t)
    BY <1>1, <1>8 DEF Bounded, Lossless
<1>10. Behaved(t) /\ FromTable(t)
    BY <1>2, <1>6, <1>7, <1>8 DEF Behaved, Subscribed, FromTable
<1>11. at = "polled" => s.seen <= s.last + n
    BY <1>2, <1>4, <1>7
<1>12. Delivered(t)
    BY <1>5, <1>7, <1>8, <1>11 DEF Delivered
<1>13. Sound(t)
    BY <1>7, <1>8, <1>9, <1>10, <1>12 DEF Sound
<1> QED BY <1>3, <1>13

\* What a stream's step leaves alone.
Others == <<load, storeVars, mailVars, entryVars, eventVars, run, projVars>>

LEMMA StreamSteps ==
    ASSUME TypeOK, Entry, StreamsSound, NEW c \in load.clients,
           Connect(c) \/ Disconnect(c) \/ StreamStep(c)
    PROVE  TypeOK' /\ StreamsSound' /\ UNCHANGED Others
<1>1. c \in Clients /\ faults \in Nat
    BY WorkloadsAssumption DEF TypeOK
<1>2. faults' \in Nat
    BY <1>1 DEF Connect, Disconnect, StreamStep, Join, JoinFails, Replay, Yield, Replayed,
        Receive, Lagged, Terminal, Drained, PollTask, PollEvents, PollFails, Polled, Fault
<1>3. \E t : Sound(t) /\ Streaming(c, t)
  <2>1. CASE Yield(c)
    <3>1. stream[c].todo # <<>> /\ Sound(stream[c])
        BY <1>1, <2>1 DEF Yield, StreamsSound
    <3> QED BY <2>1, <3>1, YieldSound DEF Yield
  <2>2. CASE Receive(c)
      BY <1>1, <2>2, ReceiveSound
  <2>3. CASE PollEvents(c)
      BY <1>1, <2>3, PollEventsSound
  <2>4. CASE Join(c) \/ Replay(c) \/ Lagged(c) \/ Terminal(c)
      BY <1>1, <2>4, SubscribedSound
  <2>5. CASE Connect(c) \/ JoinFails(c) \/ Replayed(c) \/ PollTask(c) \/ PollFails(c)
             \/ Disconnect(c) \/ Drained(c) \/ Polled(c)
      BY <1>1, <2>5, RestingStep
  <2> QED BY <2>1, <2>2, <2>3, <2>4, <2>5 DEF StreamStep
<1>4. PICK t : Sound(t) /\ Streaming(c, t)
    BY <1>3
<1>5. TypeOK' /\ StreamsSound'
    BY <1>1, <1>2, <1>4, StreamMoves
<1>6. UNCHANGED Others
    BY <1>4 DEF Streaming, Others
<1> QED BY <1>5, <1>6

\* The steps of the owner, the projection and the senders leave the streams
\* alone, and the caches of completed lives too if the run is a plain chat's.
LEMMA StreamsRest ==
    ASSUME TypeOK, Entry, Projecting, EventsStep, StreamsSound,
           OwnerStep \/ ProjectionStep \/ Claim \/ Resume
           \/ \E m \in load.messages : SendMessage(m) \/ Deliver(m)
    PROVE  StreamsSound' /\ stream' = stream /\ load' = load
<1> USE DEF storeVars, mailVars, entryVars, eventVars, projVars
<1>1. stream' = stream /\ load' = load
    BY DEF OwnerStep, Register, ReadPrompt, ConsumePrompt, StartRun, SetupFails, DrainGuidance,
        RecordEvent, RecordGuidance, Push, Send, RecordFails, ReportError, ReportErrorFails,
        Complete, Unregister, Settle, ProjectionStep, ProjectInsert, ProjectPart, ProjectFails,
        ProjectLookup, ProjectPush, ProjectSend, Claim, Resume, SendMessage, Deliver, DeliverTo
<1>2. completed \subseteq completed'
    BY DEF OwnerStep, Register, ReadPrompt, ConsumePrompt, StartRun, SetupFails, DrainGuidance,
        RecordEvent, RecordGuidance, Push, Send, RecordFails, ReportError, ReportErrorFails,
        Complete, Unregister, Settle, ProjectionStep, ProjectInsert, ProjectPart, ProjectFails,
        ProjectLookup, ProjectPush, ProjectSend, Claim, Resume, SendMessage, Deliver, DeliverTo
<1>3. completed \subseteq Lives
    BY DEF TypeOK
<1>4. ASSUME ~load.team, NEW l \in completed PROVE cache'[l] = cache[l]
  <2>1. CASE Register
    <3>1. \A k \in 1 .. Len(cache) : Append(cache, <<>>)[k] = cache[k]
        BY EventsTyped, AppendProperties DEF EventsOK
    <3>2. Len(cache) = life
        BY EventsTyped DEF EventsOK
    <3> QED BY <1>3, <2>1, <3>1, <3>2 DEF Register, Lives
  <2>2. CASE Push
    <3>1. l # life
        BY <2>2 DEF Push, Entry, Active
    <3> QED BY <1>3, <2>2, <3>1, EventsTyped DEF Push
  <2>3. CASE ProjectPush
      BY <1>4, <2>3 DEF Projecting, ProjectPush, NoProjection
  <2>4. CASE ~Register /\ ~Push /\ ~ProjectPush
    <3>1. cache' = cache
        BY <2>4 DEF OwnerStep, ReadPrompt, ConsumePrompt, StartRun, SetupFails, DrainGuidance,
          RecordEvent, RecordGuidance, Send, RecordFails, ReportError, ReportErrorFails,
          Complete, Unregister, Settle, ProjectionStep, ProjectInsert, ProjectPart, ProjectFails,
          ProjectLookup, ProjectSend, Claim, Resume, SendMessage, Deliver, DeliverTo
    <3> QED BY <3>1
  <2> QED BY <2>1, <2>2, <2>3, <2>4
<1> QED BY <1>1, <1>2, <1>4, StreamsKept

-----------------------------------------------------------------------------
(* The entry of the registry, its owner and the projection                  *)

LEMMA EntryKept ==
    ASSUME TypeOK, Entry, EventsStep,
           OwnerStep \/ ProjectionStep \/ Claim \/ Resume
           \/ \E m \in load.messages : SendMessage(m) \/ Deliver(m)
    PROVE  Entry'
<1> USE DEF storeVars, mailVars, entryVars, eventVars, projVars, At
<1>1. /\ Sequence \subseteq Sequence' /\ life \in Nat /\ completed \subseteq Lives
      /\ life # 0 => life \in Lives
  <2>1. life \in Nat /\ completed \subseteq Lives
      BY EventsTyped DEF TypeOK
  <2>2. life # 0 => life \in Lives
      BY <2>1 DEF Lives
  <2> QED BY <2>1, <2>2, LogsKept
<1>2. \A l \in Lives : Range(cache[l]) \subseteq Range(cache'[l])
    BY LogsKept
<1>3. ASSUME UNCHANGED <<run, life, registered, accepting, completed>> PROVE Entry'
    BY <1>1, <1>2, <1>3 DEF Entry, Active
<1>4. CASE ProjectionStep \/ Claim \/ Resume \/ \E m \in load.messages : SendMessage(m) \/ Deliver(m)
    BY <1>3, <1>4 DEF ProjectionStep, ProjectInsert, ProjectPart, ProjectFails,
        ProjectLookup, ProjectPush, ProjectSend, Claim, Resume, SendMessage, Deliver, DeliverTo
<1>5. ASSUME OwnerStep, ~Register, ~Settle PROVE run \in Owners /\ run.at # "off"
  <2>1. run.at # "off"
      BY <1>5 DEF OwnerStep, ReadPrompt, ConsumePrompt, StartRun, SetupFails, DrainGuidance,
        RecordEvent, RecordGuidance, Push, Send, RecordFails, ReportError, ReportErrorFails,
        Complete, Unregister
  <2> QED BY <2>1, OwnerRecords
<1>6. CASE Register
  <2>1. life + 1 \notin completed /\ life + 1 # 0
      BY <1>1 DEF Lives
  <2> QED BY <1>6, <2>1 DEF Register, Entry, Active
<1>7. CASE ReadPrompt \/ ConsumePrompt \/ StartRun \/ SetupFails \/ DrainGuidance
  <2>1. run \in Owners /\ UNCHANGED <<life, registered, accepting, completed>>
      BY <1>5, <1>7 DEF OwnerStep, ReadPrompt, ConsumePrompt, StartRun, SetupFails, DrainGuidance,
         Register, Settle
  <2>2. run'.at \in {"prompted", "consumed", "idle", "done"} /\ run.at \in Active
        /\ (run'.at \in {"prompted", "consumed"} => run.at \in {"setup", "prompted"})
      BY <1>7, <2>1 DEF ReadPrompt, ConsumePrompt, StartRun, SetupFails, DrainGuidance, Owners,
         OwnerSteps, Active
  <2> QED BY <2>1, <2>2 DEF Entry, Active
<1>8. CASE (\E last \in BOOLEAN : RecordEvent(last)) \/ ReportError \/ RecordGuidance
  <2>1. run \in Owners /\ UNCHANGED <<life, registered, accepting, completed>>
      BY <1>5, <1>8 DEF OwnerStep, RecordEvent, ReportError, RecordGuidance, Register, Settle
  <2>2. CASE db' = db /\ run'.at = "idle"
    <3>1. run.at = "idle"
        BY <1>8, <2>2, <2>1 DEF RecordEvent, ReportError, RecordGuidance, Insert, Owners
    <3> QED BY <2>1, <2>2, <3>1 DEF Entry, Active
  <2>3. CASE run'.at = "push" /\ run'.seq = Len(db) + 1 /\ \E x \in Rows : db' = Append(db, x)
    <3>1. run'.seq \in Sequence'
        BY <2>1, <2>3, <1>8, TableGrows DEF RecordEvent, ReportError, RecordGuidance
    <3>2. run.at \in Active
        BY <1>8 DEF RecordEvent, ReportError, RecordGuidance, Active
    <3> QED BY <2>1, <2>3, <3>1, <3>2 DEF Entry, Active
  <2>4. CASE RecordGuidance /\ read[Head(run.drained)] # "no"
      BY <2>1, <2>2, <2>4 DEF RecordGuidance, Owners
  <2>5. CASE RecordGuidance /\ read[Head(run.drained)] = "no"
    <3>1. Head(run.drained) \in Rows
      <4>1. run.drained \in Seq(Messages) /\ run.drained # <<>>
          BY <2>1, <2>5 DEF Owners, RecordGuidance
      <4>2. Head(run.drained) \in Messages
          BY <4>1, HeadTailProperties
      <4> QED BY <4>2 DEF Rows
    <3> QED BY <2>1, <2>3, <2>5, <3>1 DEF RecordGuidance, Owners
  <2>6. CASE (\E last \in BOOLEAN : RecordEvent(last)) \/ ReportError
    <3>1. "run" \in Rows
        BY DEF Rows
    <3> QED BY <2>1, <2>3, <2>6, <3>1 DEF RecordEvent, ReportError, Insert, Owners
  <2> QED BY <1>8, <2>4, <2>5, <2>6
<1>9. CASE Push
  <2>1. run \in Owners /\ UNCHANGED <<life, registered, accepting, completed>>
      BY <1>5, <1>9 DEF OwnerStep, Push, Register, Settle
  <2>2. run'.at = "send" /\ run'.seq = run.seq /\ run.at = "push"
      BY <1>9, <2>1 DEF Push, Owners
  <2>3. life \in Lives /\ run.seq \in Sequence
      BY <1>1, <2>2 DEF Entry
  <2>4. run.seq \in Range(cache'[life])
    <3>1. /\ cache' = [cache EXCEPT ![life] = Append(@, run.seq)]
          /\ UNCHANGED <<db, life, sent>>
        BY <1>9 DEF Push
    <3>2. \A k \in Lives : Range(cache'[k]) = Range(cache[k]) \cup IF k = life THEN {run.seq} ELSE {}
        BY <2>3, <3>1, CacheGrows
    <3> QED BY <2>3, <3>2
  <2> QED BY <1>1, <2>1, <2>2, <2>3, <2>4 DEF Entry, Active
<1>10. CASE Send \/ RecordFails \/ ReportErrorFails
  <2>1. run \in Owners /\ UNCHANGED <<life, registered, completed>>
      BY <1>5, <1>10 DEF OwnerStep, Send, RecordFails, ReportErrorFails, Register, Settle
  <2>2. run'.at \in {"idle", "done", "erring"} /\ run.at \in Active
        /\ (run'.at = "erring" => run'.failed)
      BY <1>10, <2>1 DEF Send, RecordFails, ReportErrorFails, Owners, OwnerSteps, Active
  <2> QED BY <2>1, <2>2 DEF Entry, Active
<1>11. CASE Complete \/ Unregister \/ Settle
  <2>1. run'.at \in {"off", "closing", "closed"} /\ life' = life /\ (registered' => registered)
        /\ run.at # "off"
    <3>1. CASE Settle
        BY <3>1 DEF Settle, NotOpen
    <3>2. CASE Complete \/ Unregister
      <4>1. run \in Owners
          BY <1>5, <3>2 DEF OwnerStep, Complete, Unregister, Register, Settle
      <4> QED BY <3>2, <4>1 DEF Complete, Unregister, Owners
    <3> QED BY <1>11, <3>1, <3>2
  <2> QED BY <2>1 DEF Entry, Active
<1> QED BY <1>4, <1>6, <1>7, <1>8, <1>9, <1>10, <1>11 DEF OwnerStep

\* The rows about a delegated task or a message: one step adds at most one.
LEMMA RowsStep ==
    ASSUME TypeOK,
           OwnerStep \/ ProjectionStep \/ Claim \/ Resume
           \/ \E m \in load.messages : SendMessage(m) \/ Deliver(m)
    PROVE  /\ Len(db) + 1 \in Sequence' \/ db' = db
           /\ \A k \in Children : \/ RowsOf(k)' = RowsOf(k)
                                  \/ RowsOf(k) = {} /\ RowsOf(k)' = {Len(db) + 1} /\ proj.at = "idle"
           /\ \A m \in Messages :
                 RowsOf(m)' = RowsOf(m)
                     \cup IF RecordGuidance /\ m = Head(run.drained) /\ read[m] = "no"
                          THEN {Len(db) + 1} ELSE {}
<1> USE DEF storeVars, mailVars, entryVars, eventVars, projVars
<1>1. "run" \notin Messages /\ "run" \notin Children /\ Messages \cap Children = {}
    BY SubjectsAssumption
<1>2. ASSUME db' = db PROVE \A x : RowsOf(x)' = RowsOf(x)
    BY <1>2 DEF RowsOf, Sequence
<1>3. CASE RecordGuidance
  <2>1. run \in Owners
      BY <1>3, OwnerRecords DEF RecordGuidance
  <2>2. run.drained \in Seq(Messages) /\ run.drained # <<>>
      BY <1>3, <2>1 DEF Owners, RecordGuidance
  <2>3. Head(run.drained) \in Messages
      BY <2>2, HeadTailProperties
  <2>4. CASE read[Head(run.drained)] = "no"
    <3>1. db' = Append(db, Head(run.drained)) /\ UNCHANGED <<life, eventVars>>
        BY <1>3, <2>4 DEF RecordGuidance
    <3>2. Head(run.drained) \in Rows
        BY <2>3 DEF Rows
    <3>3. /\ Sequence' = Sequence \cup {Len(db) + 1}
          /\ \A y : RowsOf(y)' = RowsOf(y) \cup IF Head(run.drained) = y THEN {Len(db) + 1} ELSE {}
        BY <3>1, <3>2, TableGrows
    <3> QED BY <1>1, <1>3, <2>3, <2>4, <3>3
  <2>5. CASE read[Head(run.drained)] # "no"
      BY <1>2, <1>3, <2>5 DEF RecordGuidance
  <2> QED BY <2>4, <2>5
<1>4. ASSUME ~RecordGuidance, OwnerStep PROVE db' = db \/ (db' = Append(db, "run") /\ UNCHANGED <<life, eventVars>>)
    BY <1>4 DEF OwnerStep, Register, ReadPrompt, ConsumePrompt, StartRun, SetupFails,
        DrainGuidance, RecordEvent, Insert, Push, Send, RecordFails, ReportError, ReportErrorFails,
        Complete, Unregister, Settle
<1>5. CASE ~RecordGuidance /\ db' = Append(db, "run") /\ UNCHANGED <<life, eventVars>>
  <2>1. "run" \in Rows
      BY DEF Rows
  <2>2. /\ Sequence' = Sequence \cup {Len(db) + 1}
        /\ \A y : RowsOf(y)' = RowsOf(y) \cup IF "run" = y THEN {Len(db) + 1} ELSE {}
      BY <1>5, <2>1, TableGrows
  <2> QED BY <1>1, <1>5, <2>2
<1>6. CASE ~RecordGuidance /\ db' = db
    BY <1>2, <1>6
<1>7. ASSUME NEW k \in load.children, ProjectInsert(k), ~RecordGuidance, db' # db
      PROVE  /\ Sequence' = Sequence \cup {Len(db) + 1}
             /\ \A y : RowsOf(y)' = RowsOf(y) \cup IF k = y THEN {Len(db) + 1} ELSE {}
             /\ k \in Children /\ k \notin Messages /\ RowsOf(k) = {} /\ proj.at = "idle"
  <2>1. k \in Children /\ k \in Rows
      BY WorkloadsAssumption DEF TypeOK, Rows
  <2>2. db' = Append(db, k) /\ UNCHANGED <<life, eventVars>> /\ RowsOf(k) = {} /\ proj.at = "idle"
      BY <1>7 DEF ProjectInsert
  <2> QED BY <1>1, <2>1, <2>2, TableGrows
<1>8. ASSUME ~RecordGuidance, ~OwnerStep PROVE db' = db \/ \E k \in load.children : ProjectInsert(k)
    BY <1>8 DEF ProjectionStep, ProjectPart, ProjectFails, ProjectLookup, ProjectPush, ProjectSend,
        Claim, Resume, SendMessage, Deliver, DeliverTo
<1>9. CASE ~RecordGuidance /\ db' # db /\ \E k \in load.children : ProjectInsert(k)
    BY <1>7, <1>9
<1> QED BY <1>3, <1>4, <1>5, <1>6, <1>8, <1>9

LEMMA ProjectingKept ==
    ASSUME TypeOK, Entry, Projecting, EventsStep,
           OwnerStep \/ ProjectionStep \/ Claim \/ Resume
           \/ \E m \in load.messages : SendMessage(m) \/ Deliver(m)
    PROVE  Projecting'
<1> USE DEF storeVars, mailVars, entryVars, eventVars, projVars
<1>1. /\ Lives \subseteq Lives' /\ \A l \in Lives : Range(cache[l]) \subseteq Range(cache'[l])
    BY LogsKept
<1>2. \A k \in Children : \/ RowsOf(k)' = RowsOf(k)
                          \/ RowsOf(k) = {} /\ RowsOf(k)' = {Len(db) + 1} /\ proj.at = "idle"
    BY RowsStep
<1>3. \A k \in Children : \A d, e \in RowsOf(k)' : d = e
    BY <1>2 DEF Projecting
<1>4. load' = load
    BY DEF OwnerStep, Register, ReadPrompt, ConsumePrompt, StartRun, SetupFails, DrainGuidance,
        RecordEvent, RecordGuidance, Push, Send, RecordFails, ReportError, ReportErrorFails,
        Complete, Unregister, Settle, ProjectionStep, ProjectInsert, ProjectPart, ProjectFails,
        ProjectLookup, ProjectPush, ProjectSend, Claim, Resume, SendMessage, Deliver, DeliverTo
<1>5. proj.at # "idle" => proj \in Projections /\ proj.child \in Children
    BY DEF TypeOK, NoProjection, Projections
<1>6. CASE proj' = proj
  <2>1. ASSUME proj.at = "send" PROVE RowsOf(proj.child)' \subseteq Range(cache'[proj.life])
    <3>1. RowsOf(proj.child)' = RowsOf(proj.child)
      <4>1. PICK k \in Children : k = proj.child
          BY <1>5, <2>1
      <4>2. RowsOf(k)' = RowsOf(k)
          BY <1>2, <2>1
      <4> QED BY <1>6, <4>1, <4>2 DEF RowsOf
    <3> QED BY <1>1, <2>1, <3>1 DEF Projecting
  <2> QED BY <1>1, <1>3, <1>4, <1>6, <2>1 DEF Projecting
<1>7. CASE OwnerStep \/ Claim \/ Resume \/ \E m \in load.messages : SendMessage(m) \/ Deliver(m)
    BY <1>6, <1>7 DEF OwnerStep, Register, ReadPrompt, ConsumePrompt, StartRun, SetupFails,
        DrainGuidance, RecordEvent, RecordGuidance, Push, Send, RecordFails, ReportError,
        ReportErrorFails, Complete, Unregister, Settle, Claim, Resume, SendMessage, Deliver, DeliverTo
<1>8. ASSUME NEW k \in load.children, ProjectInsert(k) PROVE Projecting'
  <2>1. load.team
      BY <1>8, WorkloadsAssumption DEF TypeOK
  <2>2. proj'.at = "part"
      BY <1>8 DEF ProjectInsert
  <2> QED BY <1>3, <1>4, <2>1, <2>2 DEF Projecting
<1>9. CASE ProjectPart \/ ProjectFails \/ ProjectLookup
  <2>1. proj \in Projections /\ load.team
      BY <1>5, <1>9 DEF ProjectPart, ProjectFails, ProjectLookup, Projecting, NoProjection
  <2>2. \/ proj'.at \in {"idle", "lookup"}
        \/ proj'.at = "push" /\ proj'.life = life /\ registered /\ life' = life
    <3>1. CASE ProjectPart \/ ProjectFails
        BY <2>1, <3>1 DEF ProjectPart, ProjectFails, Projections, NoProjection
    <3>2. CASE ProjectLookup
      <4>1. /\ [proj EXCEPT !.at = "push", !.life = life].at = "push"
            /\ [proj EXCEPT !.at = "push", !.life = life].life = life
          BY <2>1 DEF Projections
      <4> QED BY <3>2, <4>1 DEF ProjectLookup, NoProjection
    <3> QED BY <1>9, <3>1, <3>2
  <2>3. registered => life \in Lives
      BY EventsTyped DEF Entry, Lives
  <2> QED BY <1>1, <1>3, <1>4, <2>1, <2>2, <2>3 DEF Projecting
<1>10. CASE ProjectPush
  <2>1. proj \in Projections /\ load.team /\ proj.life \in Lives /\ proj.child \in Children
      BY <1>5, <1>10 DEF ProjectPush, Projecting, NoProjection
  <2>2. proj'.at = "send" /\ proj'.child = proj.child /\ proj'.life = proj.life
      BY <1>10, <2>1 DEF ProjectPush, Projections
  <2>3. PICK e \in RowsOf(proj.child) : cache' = [cache EXCEPT ![proj.life] = Append(@, e)]
      BY <1>10 DEF ProjectPush
  <2>4. \A k \in Lives : Range(cache'[k]) = Range(cache[k]) \cup IF k = proj.life THEN {e} ELSE {}
    <3>1. e \in Sequence /\ UNCHANGED <<db, life, sent>>
        BY <1>10, <2>3 DEF ProjectPush, RowsOf
    <3> QED BY <2>1, <2>3, <3>1, CacheGrows
  <2>5. RowsOf(proj.child) \subseteq {e}
      BY <2>1, <2>3 DEF Projecting
  <2>6. RowsOf(proj.child)' = RowsOf(proj.child)
      BY <1>10, <2>2 DEF ProjectPush, RowsOf, Sequence
  <2> QED BY <1>1, <1>3, <1>4, <2>1, <2>2, <2>4, <2>5, <2>6 DEF Projecting
<1>11. CASE ProjectSend
    BY <1>3, <1>4, <1>11 DEF ProjectSend, Projecting, NoProjection
<1> QED BY <1>7, <1>8, <1>9, <1>10, <1>11 DEF ProjectionStep

-----------------------------------------------------------------------------
(* Agent messages                                                           *)

\* A message has a row if and only if it was consumed as guidance.
Rowed ==
    \A m \in Messages :
        IF read[m] = "event" THEN \E e \in Sequence : RowsOf(m) = {e} ELSE RowsOf(m) = {}

\* What has been put before the model.
Told ==
    /\ run.at # "off" => Range(run.drained) \subseteq told
    /\ load.faults = 0 =>
          \A m \in Messages :
              read[m] \in {"prompt", "event"} =>
                  m \in told \/ (run.at = "consumed" /\ m \in run.prompt)

Due == {m \in Unread \cap OnlyOurs : sending[m] = "done"}

\* Where an unread message is that its sender has finished with.
Arrives ==
    /\ run.at = "prompted" => Due \subseteq run.prompt \cup Range(channel)
    /\ run.at = "consumed" => Due \subseteq Range(channel)
    /\ run.at \in {"idle", "push", "send"} /\ ~run.failed /\ accepting =>
          Due \subseteq Range(channel) \cup Range(run.drained)

LEMMA RowedKept ==
    ASSUME TypeOK, Rowed, EventsStep,
           OwnerStep \/ ProjectionStep \/ Claim \/ Resume
           \/ \E m \in load.messages : SendMessage(m) \/ Deliver(m)
    PROVE  Rowed'
<1> USE DEF storeVars, mailVars, entryVars, eventVars, projVars
<1>1. /\ Sequence \subseteq Sequence' /\ read \in [Messages -> {"no", "prompt", "event", "other"}]
      /\ "run" \notin Messages
    BY LogsKept, SubjectsAssumption DEF TypeOK
<1>2. \A m \in Messages :
         RowsOf(m)' = RowsOf(m) \cup IF RecordGuidance /\ m = Head(run.drained) /\ read[m] = "no"
                                     THEN {Len(db) + 1} ELSE {}
    BY RowsStep
<1>3. CASE RecordGuidance
  <2> DEFINE h == Head(run.drained)
  <2>1. read[h] = "no" => Len(db) + 1 \in Sequence'
    <3>1. ASSUME read[h] = "no" PROVE db' = Append(db, h)
        BY <1>3, <3>1 DEF RecordGuidance
    <3>2. Len(db') = Len(db) + 1 \/ read[h] # "no"
        BY <3>1, EventsTyped, LenProperties DEF EventsOK
    <3> QED BY <3>2, EventsTyped DEF Sequence
  <2>2. \A m \in Messages : read'[m] = IF m = h /\ read[h] = "no" THEN "event" ELSE read[m]
      BY <1>1, <1>3 DEF RecordGuidance
  <2> HIDE DEF h
  <2>3. ASSUME NEW m \in Messages, m = h, read[h] = "no" PROVE RowsOf(m)' = {Len(db) + 1}
    <3>1. RowsOf(m) = {}
        BY <2>3 DEF Rowed
    <3> QED BY <1>2, <1>3, <2>3, <3>1 DEF h
  <2>4. ASSUME NEW m \in Messages, ~(m = h /\ read[h] = "no") PROVE RowsOf(m)' = RowsOf(m)
      BY <1>2, <2>4 DEF h
  <2> QED BY <1>1, <2>1, <2>2, <2>3, <2>4 DEF Rowed
<1>4. CASE ~RecordGuidance
  <2>1. \A m \in Messages : RowsOf(m)' = RowsOf(m)
      BY <1>2, <1>4
  <2>2. \A m \in Messages : read'[m] = "event" <=> read[m] = "event"
    <3>1. CASE ConsumePrompt
        BY <1>1, <3>1 DEF ConsumePrompt
    <3>2. CASE ~ConsumePrompt
        BY <1>4, <3>2 DEF OwnerStep, Register, ReadPrompt, StartRun, SetupFails, DrainGuidance,
        RecordEvent, Push, Send, RecordFails, ReportError, ReportErrorFails,
        Complete, Unregister, Settle, ProjectionStep, ProjectInsert, ProjectPart, ProjectFails,
        ProjectLookup, ProjectPush, ProjectSend, Claim, Resume, SendMessage, Deliver, DeliverTo
    <3> QED BY <3>1, <3>2
  <2> QED BY <1>1, <2>1, <2>2 DEF Rowed
<1> QED BY <1>3, <1>4

LEMMA ToldKept ==
    ASSUME TypeOK, Told,
           OwnerStep \/ ProjectionStep \/ Claim \/ Resume
           \/ \E m \in load.messages : SendMessage(m) \/ Deliver(m)
    PROVE  Told'
<1> USE DEF storeVars, mailVars, entryVars, eventVars, projVars, At
<1>1. ASSUME UNCHANGED <<run, told, read, load>> PROVE Told'
    BY <1>1 DEF Told
<1>2. CASE ProjectionStep \/ Claim \/ Resume \/ \E m \in load.messages : SendMessage(m) \/ Deliver(m)
    BY <1>1, <1>2 DEF ProjectionStep, ProjectInsert, ProjectPart, ProjectFails,
        ProjectLookup, ProjectPush, ProjectSend, Claim, Resume, SendMessage, Deliver, DeliverTo
<1>3. Range(<<>>) = {}
    BY DEF Range
<1>4. ASSUME run \in Owners, run'.at # "consumed", run.at # "consumed", load' = load,
             run' = NotOpen \/ Range(run'.drained) \subseteq Range(run.drained),
             run.at # "off", told \subseteq told', read' = read
      PROVE  Told'
    BY <1>4 DEF Told, NotOpen
<1>5. ASSUME OwnerStep, ~Register PROVE run.at # "off" /\ run \in Owners
  <2>1. run.at # "off"
      BY <1>5 DEF OwnerStep, ReadPrompt, ConsumePrompt, StartRun, SetupFails, DrainGuidance,
        RecordEvent, RecordGuidance, Push, Send, RecordFails, ReportError, ReportErrorFails,
        Complete, Unregister, Settle
  <2> QED BY <2>1, OwnerRecords
<1>6. CASE Register
  <2>1. run'.drained = <<>> /\ run'.at # "consumed" /\ run.at = "off"
      BY <1>6 DEF Register
  <2> QED BY <1>3, <1>6, <2>1 DEF Register, Told
<1>7. CASE ConsumePrompt
  <2>1. run \in Owners
      BY <1>5, <1>7 DEF OwnerStep, ConsumePrompt, Register
  <2>2. run'.at = "consumed" /\ run'.prompt = run.prompt /\ run'.drained = run.drained
        /\ run.at = "prompted"
      BY <1>7, <2>1 DEF ConsumePrompt, Owners
  <2>3. \A m \in Messages : read'[m] = IF m \in run.prompt /\ read[m] = "no" THEN "prompt" ELSE read[m]
      BY <1>7 DEF ConsumePrompt
  <2> QED BY <1>7, <2>2, <2>3 DEF ConsumePrompt, Told
<1>8. CASE StartRun
  <2>1. run \in Owners
      BY <1>5, <1>8 DEF OwnerStep, StartRun, Register
  <2>2. run'.at = "idle" /\ run'.drained = run.drained /\ run.at = "consumed"
      BY <1>8, <2>1 DEF StartRun, Owners
  <2> QED BY <1>8, <2>2 DEF StartRun, Told
<1>9. CASE SetupFails
  <2>1. run \in Owners
      BY <1>5, <1>9 DEF OwnerStep, SetupFails, Register
  <2>2. run'.at = "done" /\ run'.drained = run.drained /\ run.at # "off"
      BY <1>9, <2>1 DEF SetupFails, Owners
  <2>3. load.faults # 0
      BY <1>9 DEF SetupFails, Fault, TypeOK
  <2> QED BY <1>9, <2>2, <2>3 DEF SetupFails, Told
<1>10. CASE DrainGuidance
  <2>1. run \in Owners
      BY <1>5, <1>10 DEF OwnerStep, DrainGuidance, Register
  <2>2. run'.at = "idle" /\ run'.drained = channel /\ run.at = "idle"
      BY <1>10, <2>1 DEF DrainGuidance, Owners
  <2> QED BY <1>10, <2>2 DEF DrainGuidance, Told
<1>11. CASE RecordGuidance
  <2>1. run \in Owners /\ run.drained # <<>> /\ run.at = "idle"
      BY <1>5, <1>11 DEF OwnerStep, RecordGuidance, Register
  <2>2. run.drained \in Seq(Messages)
      BY <2>1 DEF Owners
  <2>3. Range(run.drained) = {Head(run.drained)} \cup Range(Tail(run.drained))
      BY <2>1, <2>2, TailRange
  <2>4. run'.drained = Tail(run.drained) /\ run'.at \in {"idle", "push"}
      BY <1>11, <2>1 DEF RecordGuidance, Owners
  <2>5. \A m \in Messages : read'[m] = read[m] \/ m = Head(run.drained)
      BY <1>11 DEF RecordGuidance, TypeOK
  <2> QED BY <1>11, <2>1, <2>3, <2>4, <2>5 DEF RecordGuidance, Told
<1>12. CASE ReadPrompt \/ (\E last \in BOOLEAN : RecordEvent(last)) \/ Push \/ Send
            \/ ReportError \/ ReportErrorFails \/ Complete \/ Unregister
  <2>1. run \in Owners /\ run.at # "off"
      BY <1>5, <1>12 DEF OwnerStep, Register, ReadPrompt, RecordEvent, Push, Send, ReportError,
         ReportErrorFails, Complete, Unregister
  <2>2. run'.drained = run.drained /\ run'.at # "consumed" /\ run.at # "consumed"
      BY <1>12, <2>1 DEF ReadPrompt, RecordEvent, Insert, Push, Send, ReportError,
         ReportErrorFails, Complete, Unregister, Owners
  <2>3. UNCHANGED <<load, told, read>>
      BY <1>12 DEF ReadPrompt, RecordEvent, Push, Send, ReportError, ReportErrorFails, Complete,
         Unregister
  <2> QED BY <1>4, <2>1, <2>2, <2>3
<1>13. CASE Settle
    BY <1>4, <1>5, <1>13 DEF OwnerStep, Settle, NotOpen, Register
<1>14. CASE RecordFails
  <2>1. run \in Owners /\ run.at \notin {"off", "consumed"}
      BY <1>5, <1>14 DEF OwnerStep, RecordFails, Register
  <2>2. run'.drained = <<>> /\ run'.at # "consumed"
      BY <1>14, <2>1 DEF RecordFails, Owners
  <2> QED BY <1>3, <1>4, <1>14, <2>1, <2>2 DEF RecordFails
<1> QED BY <1>2, <1>6, <1>7, <1>8, <1>9, <1>10, <1>11, <1>12, <1>13, <1>14 DEF OwnerStep

LEMMA ArrivesKept ==
    ASSUME TypeOK, Entry, Arrives,
           OwnerStep \/ ProjectionStep \/ Claim \/ Resume
           \/ \E m \in load.messages : SendMessage(m) \/ Deliver(m)
    PROVE  Arrives'
<1> USE DEF storeVars, mailVars, entryVars, eventVars, projVars, At
<1>1. ASSUME UNCHANGED <<load, run, read, sending, channel, accepting>> PROVE Arrives'
    BY <1>1 DEF Arrives, Due, Unread, OnlyOurs
<1>2. CASE ProjectionStep \/ Claim \/ Resume
    BY <1>1, <1>2 DEF ProjectionStep, ProjectInsert, ProjectPart, ProjectFails,
        ProjectLookup, ProjectPush, ProjectSend, Claim, Resume
<1>3. /\ read \in [Messages -> {"no", "prompt", "event", "other"}] /\ channel \in Seq(Messages)
      /\ sending \in [Messages -> {"new", "stored", "done"}] /\ load.messages \subseteq Messages
    BY WorkloadsAssumption DEF TypeOK
<1>4. ASSUME NEW m \in load.messages, SendMessage(m) PROVE Arrives'
  <2>1. Due' \subseteq Due
      BY <1>3, <1>4 DEF SendMessage, Due, Unread, OnlyOurs
  <2> QED BY <1>4, <2>1 DEF SendMessage, Arrives
<1>5. ASSUME NEW m \in load.messages, Deliver(m) PROVE Arrives'
  <2>1. Due' \subseteq Due \cup ({m} \cap OnlyOurs) /\ UNCHANGED <<run, accepting>>
      BY <1>3, <1>5 DEF Deliver, DeliverTo, Due, Unread, OnlyOurs
  <2>2. Range(channel) \subseteq Range(channel')
    <3>1. CASE channel' = Append(channel, m)
        BY <1>3, <3>1, AppendRange
    <3> QED BY <1>5, <3>1 DEF Deliver, DeliverTo
  <2>3. run.at \in Active /\ accepting /\ m \in OnlyOurs => m \in Range(channel')
    <3> SUFFICES ASSUME run.at \in Active, accepting, m \in OnlyOurs PROVE m \in Range(channel')
        OBVIOUS
    <3>0. MeansUs(m) /\ ~MeansRival(m)
        BY DEF MeansUs, MeansRival, OnlyOurs, Entry, TypeOK
    <3>1. channel' = Append(channel, m)
        BY <1>5, <3>0 DEF Deliver, DeliverTo
    <3>2. m \in Messages
        BY <1>3
    <3> QED BY <1>3, <3>1, <3>2, AppendRange
  <2>4. run.at \in {"prompted", "consumed"} => accepting /\ run.at \in Active
      BY DEF Entry, Active
  <2> QED BY <2>1, <2>2, <2>3, <2>4 DEF Arrives, Active
<1>6. ASSUME OwnerStep, ~Register, ~Settle PROVE run \in Owners
  <2>1. run.at # "off"
      BY <1>6 DEF OwnerStep, ReadPrompt, ConsumePrompt, StartRun, SetupFails, DrainGuidance,
        RecordEvent, RecordGuidance, Push, Send, RecordFails, ReportError, ReportErrorFails,
        Complete, Unregister, Settle
  <2> QED BY <2>1, OwnerRecords
<1>7. CASE Register
  <2>1. CASE load.team
      BY <1>7, <2>1 DEF Register, Arrives
  <2>2. CASE ~load.team
    <3>1. load.messages = {} /\ load' = load
        BY <1>7, <2>2, WorkloadsAssumption DEF Register, TypeOK
    <3>2. Due' = {}
        BY <3>1 DEF Due, Unread, OnlyOurs
    <3> QED BY <3>2 DEF Arrives
  <2> QED BY <2>1, <2>2
<1>8. CASE ReadPrompt
  <2>1. run'.at = "prompted" /\ run'.prompt = Unread
      BY <1>6, <1>8 DEF OwnerStep, ReadPrompt, Register, Settle, Owners
  <2>2. Due' \subseteq Unread
      BY <1>8 DEF ReadPrompt, Due, Unread, OnlyOurs
  <2> QED BY <2>1, <2>2 DEF Arrives
<1>9. CASE ConsumePrompt
  <2>1. run'.at = "consumed" /\ run.at = "prompted"
      BY <1>6, <1>9 DEF OwnerStep, ConsumePrompt, Register, Settle, Owners
  <2>2. Due' \subseteq Due /\ Due' \cap run.prompt = {}
      BY <1>3, <1>9 DEF ConsumePrompt, Due, Unread, OnlyOurs
  <2> QED BY <1>9, <2>1, <2>2 DEF Arrives, ConsumePrompt
<1>10. CASE StartRun
  <2>1. run'.at = "idle" /\ run.at = "consumed"
      BY <1>6, <1>10 DEF OwnerStep, StartRun, Register, Settle, Owners
  <2>2. Due' = Due
      BY <1>10 DEF StartRun, Due, Unread, OnlyOurs
  <2> QED BY <1>10, <2>1, <2>2 DEF Arrives, StartRun
<1>11. CASE DrainGuidance
  <2>1. run'.at = "idle" /\ run'.drained = channel /\ run.drained = <<>> /\ run.at = "idle"
        /\ run'.failed = run.failed
      BY <1>6, <1>11 DEF OwnerStep, DrainGuidance, Register, Settle, Owners
  <2>2. Due' = Due /\ Range(<<>>) = {}
      BY <1>11 DEF DrainGuidance, Due, Unread, OnlyOurs, Range
  <2> QED BY <1>11, <2>1, <2>2 DEF Arrives, DrainGuidance
<1>12. CASE RecordGuidance
  <2>1. run \in Owners /\ run.at = "idle" /\ run.drained # <<>>
      BY <1>6, <1>12 DEF OwnerStep, RecordGuidance, Register, Settle
  <2>2. run'.drained = Tail(run.drained) /\ run'.at \in {"idle", "push"} /\ run'.failed = run.failed
      BY <1>12, <2>1 DEF RecordGuidance, Owners
  <2>3. run.drained \in Seq(Messages)
      BY <2>1 DEF Owners
  <2>4. Range(run.drained) = {Head(run.drained)} \cup Range(Tail(run.drained))
      BY <2>1, <2>3, TailRange
  <2>5. Due' \subseteq Due /\ Head(run.drained) \notin Due'
      BY <1>3, <1>12 DEF RecordGuidance, Due, Unread, OnlyOurs
  <2> QED BY <1>12, <2>1, <2>2, <2>4, <2>5 DEF Arrives, RecordGuidance
<1>13. CASE Send \/ Push \/ (\E last \in BOOLEAN : RecordEvent(last))
  <2>1. run \in Owners /\ run.at \in {"idle", "push", "send"}
      BY <1>6, <1>13 DEF OwnerStep, Send, Push, RecordEvent, Register, Settle
  <2>2. run'.drained = run.drained /\ run'.at \in {"idle", "push", "send", "done"}
        /\ run'.failed = run.failed
      BY <1>13, <2>1 DEF Send, Push, RecordEvent, Insert, Owners
  <2>3. Due' = Due /\ channel' = channel
      BY <1>13 DEF Send, Push, RecordEvent, Due, Unread, OnlyOurs
  <2>4. accepting' => accepting
    <3>1. CASE Send
      <4>1. accepting' = (accepting /\ ~run.last)
          BY <3>1 DEF Send
      <4> QED BY <4>1, Zenon
    <3>2. CASE Push \/ \E last \in BOOLEAN : RecordEvent(last)
        BY <3>2 DEF Push, RecordEvent
    <3> QED BY <1>13, <3>1, <3>2
  <2> QED BY <2>1, <2>2, <2>3, <2>4 DEF Arrives
<1>14. CASE ReportError \/ RecordFails
  <2>1. run \in Owners /\ (run.at = "erring" => run.failed)
      BY <1>6, <1>14 DEF OwnerStep, ReportError, RecordFails, Register, Settle, Entry
  <2>2. run'.at \in {"push", "done", "erring"} /\ run'.failed
      BY <1>14, <2>1 DEF ReportError, RecordFails, Insert, Owners
  <2> QED BY <2>2 DEF Arrives
<1>15. CASE SetupFails \/ ReportErrorFails \/ Complete \/ Unregister \/ Settle
  <2>1. run'.at \in {"done", "closing", "closed", "off"}
    <3>1. CASE Settle
        BY <3>1 DEF Settle, NotOpen
    <3>2. CASE ~Settle
        BY <1>6, <1>15, <3>2 DEF OwnerStep, SetupFails, ReportErrorFails, Complete, Unregister,
           Register, Owners
    <3> QED BY <3>1, <3>2
  <2> QED BY <2>1 DEF Arrives
<1> QED BY <1>2, <1>4, <1>5, <1>7, <1>8, <1>9, <1>10, <1>11, <1>12, <1>13, <1>14, <1>15 DEF OwnerStep

-----------------------------------------------------------------------------
(* The other run of the instance: of this run it moves no more than what is *)
(* read, from "no" to "other".                                              *)
LEMMA RivalMoves ==
    ASSUME TypeOK, RivalStep
    PROVE  /\ UNCHANGED <<load, task, db, sending, life, registered, accepting, completed, cache,
                         sent, channel, run, told, proj, parts, stream, faults>>
           /\ read' \in [Messages -> {"no", "prompt", "event", "other"}]
           /\ \A m \in Messages : read'[m] = read[m] \/ (read[m] = "no" /\ read'[m] = "other")
           /\ theirs' \subseteq Messages
           /\ rival' \in IF load.rival THEN {"off", "setup", "live"} ELSE {"off"}
<1> USE DEF Elsewhere, entryVars, eventVars, projVars
<1>1. /\ read \in [Messages -> {"no", "prompt", "event", "other"}] /\ theirs \subseteq Messages
      /\ rival \in IF load.rival THEN {"off", "setup", "live"} ELSE {"off"}
      /\ load.messages \subseteq Messages
    BY WorkloadsAssumption DEF TypeOK
<1>2. CASE RivalRegister
    BY <1>1, <1>2 DEF RivalRegister
<1>3. CASE RivalReadPrompt
    BY <1>1, <1>3 DEF RivalReadPrompt, Unread
<1>4. ASSUME NEW m \in load.messages, RivalConsume(m)
      PROVE  /\ UNCHANGED <<rival, theirs>> /\ read[m] = "no"
             /\ read' = [read EXCEPT ![m] = "other"]
             /\ UNCHANGED <<load, task, db, sending, life, registered, accepting, completed, cache,
                           sent, channel, run, told, proj, parts, stream, faults>>
    BY <1>4 DEF RivalConsume
<1>5. CASE RivalCompletes
    BY <1>1, <1>5 DEF RivalCompletes
<1> QED BY <1>1, <1>2, <1>3, <1>4, <1>5 DEF RivalStep

LEMMA RivalKeeps ==
    ASSUME TypeOK, Entry, Projecting, Rowed, Told, Arrives, StreamsSound, RivalStep
    PROVE  TypeOK' /\ Entry' /\ Projecting' /\ Rowed' /\ Told' /\ Arrives' /\ StreamsSound'
<1>1. /\ UNCHANGED <<load, task, db, sending, life, registered, accepting, completed, cache,
                    sent, channel, run, told, proj, parts, stream, faults>>
      /\ read' \in [Messages -> {"no", "prompt", "event", "other"}]
      /\ \A m \in Messages : read'[m] = read[m] \/ (read[m] = "no" /\ read'[m] = "other")
      /\ theirs' \subseteq Messages
      /\ rival' \in IF load.rival THEN {"off", "setup", "live"} ELSE {"off"}
    BY RivalMoves
<1>2. EventsStep
    BY <1>1, EventsKept DEF eventVars
<1>3. OthersOK'
    BY <1>1, TypeParts DEF OthersOK, Lives
<1>4. TypeOK'
    BY <1>1, <1>2, <1>3, TypeFrom
<1>5. StreamsSound'
    BY <1>1, <1>2, StreamsKept
<1>6. Entry' /\ Projecting'
    BY <1>1 DEF Entry, Projecting, RowsOf, Sequence, Lives
<1>7. Rowed'
  <2>1. \A m \in Messages : RowsOf(m)' = RowsOf(m) /\ (read'[m] = "event" <=> read[m] = "event")
      BY <1>1 DEF RowsOf, Sequence
  <2>2. Sequence' = Sequence
      BY <1>1 DEF Sequence
  <2> QED BY <2>1, <2>2 DEF Rowed
<1>8. Told'
    BY <1>1 DEF Told
<1>9. Arrives'
  <2>1. load.messages \subseteq Messages
      BY WorkloadsAssumption DEF TypeOK
  <2>2. Due' \subseteq Due
      BY <1>1, <2>1 DEF Due, Unread, OnlyOurs
  <2> QED BY <1>1, <2>2 DEF Arrives
<1> QED BY <1>4, <1>5, <1>6, <1>7, <1>8, <1>9

-----------------------------------------------------------------------------
(* The inductive invariant                                                  *)

IInv == TypeOK /\ Entry /\ Projecting /\ Rowed /\ Told /\ Arrives /\ StreamsSound

LEMMA InitIInv == Init => IInv
<1> SUFFICES ASSUME Init PROVE IInv
    OBVIOUS
<1>1. db = <<>> /\ cache = <<>> /\ sent = <<>> /\ channel = <<>> /\ Sequence = {} /\ Lives = {}
      /\ Len(db) = 0
    BY DEF Init, Sequence, Lives
<1>2. \A x : RowsOf(x) = {}
    BY <1>1 DEF RowsOf
<1> DEFINE s == [at |-> "off", life |-> 0, pos |-> 0, last |-> 0, todo |-> <<>>,
                 got |-> {}, ends |-> FALSE, seen |-> 0, opened |-> 0]
<1>3. stream = [c \in Clients |-> s]
    BY DEF Init
<1>4. s \in Streams
    BY DEF Streams
<1>5. Sound(s)
  <2>1. Bounded(s) /\ Behaved(s) /\ Delivered(s) /\ Lossless(s)
      BY <1>1 DEF Bounded, Behaved, Subscribed, Delivered, Lossless
  <2> QED BY <1>4, <2>1 DEF Sound
<1>6. \A c \in Clients : stream[c] = s
    BY <1>3
<1>7. StreamsSound
    BY <1>5, <1>6 DEF StreamsSound
<1>8. TypeOK
  <2>1. EventsOK
      BY <1>1 DEF Init, EventsOK
  <2>2. OthersOK
    <3>1. channel \in Seq(Messages) /\ stream \in [Clients -> Streams]
        BY <1>1, <1>3, <1>4
    <3>2. /\ task \in {"queued", "running", "waiting", "settled"}
          /\ read \in [Messages -> {"no", "prompt", "event", "other"}]
          /\ sending \in [Messages -> {"new", "stored", "done"}]
        BY DEF Init
    <3> QED BY <3>1, <3>2 DEF Init, OthersOK
  <2>3. \A c \in Clients : Bounded(stream[c])
      BY <1>5, <1>6 DEF Sound
  <2> QED BY <2>1, <2>2, <2>3, TypeParts
<1>9. Entry /\ Projecting /\ Told /\ Arrives
    BY <1>2 DEF Init, Entry, Active, NotOpen, Projecting, NoProjection, Told, Arrives
<1>10. Rowed
    BY <1>2 DEF Init, Rowed
<1> QED BY <1>7, <1>8, <1>9, <1>10 DEF IInv

LEMMA NextIInv == IInv /\ [Next]_vars => IInv'
<1> SUFFICES ASSUME IInv, [Next]_vars PROVE IInv'
    OBVIOUS
<1> USE DEF IInv
<1>1. CASE UNCHANGED vars
  <2>1. UNCHANGED <<load, task, db, read, sending, life, registered, accepting, completed, cache,
                    sent, channel, run, told, rival, theirs, proj, parts, stream, faults>>
      BY <1>1 DEF vars, storeVars, mailVars, entryVars, eventVars, projVars
  <2>2. EventsStep
      BY <2>1, EventsKept DEF eventVars
  <2>3. StreamsSound'
      BY <2>1, <2>2, StreamsKept
  <2>4. OthersOK'
      BY <2>1, TypeParts DEF OthersOK, Lives
  <2>5. TypeOK'
      BY <2>1, <2>2, <2>4, TypeFrom
  <2>6. Entry' /\ Projecting' /\ Rowed' /\ Told' /\ Arrives'
      BY <2>1 DEF Entry, Projecting, Rowed, Told, Arrives, Due, Unread, OnlyOurs, RowsOf, Sequence, Lives
  <2> QED BY <2>3, <2>5, <2>6
<1>2. CASE \E c \in load.clients : Connect(c) \/ Disconnect(c) \/ StreamStep(c)
  <2>1. TypeOK' /\ StreamsSound' /\ UNCHANGED Others
      BY <1>2, StreamSteps
  <2>2. UNCHANGED <<load, task, db, read, sending, life, registered, accepting, completed, cache,
                    sent, channel, run, told, proj, parts>>
      BY <2>1 DEF Others, storeVars, mailVars, entryVars, eventVars, projVars
  <2>3. Entry' /\ Projecting' /\ Rowed' /\ Told' /\ Arrives'
      BY <2>2 DEF Entry, Projecting, Rowed, Told, Arrives, Due, Unread, OnlyOurs, RowsOf, Sequence, Lives
  <2> QED BY <2>1, <2>3
<1>3. CASE OwnerStep \/ ProjectionStep \/ Claim \/ Resume
           \/ \E m \in load.messages : SendMessage(m) \/ Deliver(m)
  <2>1. TypeOK' /\ EventsStep
      BY <1>3, OwnerTyped, ProjectionTyped, MailTyped
  <2>2. StreamsSound'
      BY <1>3, <2>1, StreamsRest
  <2>3. Entry' /\ Projecting' /\ Rowed' /\ Told' /\ Arrives'
      BY <1>3, <2>1, EntryKept, ProjectingKept, RowedKept, ToldKept, ArrivesKept
  <2> QED BY <2>1, <2>2, <2>3
<1>4. CASE RivalStep
    BY <1>4, RivalKeeps
<1> QED BY <1>1, <1>2, <1>3, <1>4 DEF Next

LEMMA IInvImplies ==
    ASSUME IInv
    PROVE  ConsumedOnce /\ NoneStranded /\ ConsumedIsTold /\ LossOnlyByOvertaking
<1> USE DEF IInv
<1>1. load.messages \subseteq Messages
    BY WorkloadsAssumption DEF TypeOK
<1>2. ASSUME NEW m \in load.messages
      PROVE  Cardinality(RowsOf(m)) = IF read[m] = "event" THEN 1 ELSE 0
  <2>1. CASE read[m] = "event"
    <3>1. PICK e \in Sequence : RowsOf(m) = {e}
        BY <1>1, <2>1 DEF Rowed
    <3>2. Cardinality({e}) = 1
        BY FS_Singleton
    <3> QED BY <2>1, <3>1, <3>2
  <2>2. CASE read[m] # "event"
    <3>1. RowsOf(m) = {}
        BY <1>1, <2>2 DEF Rowed
    <3> QED BY <2>2, <3>1, FS_EmptySet
  <2> QED BY <2>1, <2>2
<1>3. NoneStranded
    BY DEF Arrives, NoneStranded, Due
<1>4. ConsumedIsTold
    BY <1>1 DEF Told, ConsumedIsTold
<1>5. ASSUME NEW c \in Clients, stream[c].at = "ended",
             NEW e \in IF load.team THEN 1 .. stream[c].seen ELSE Range(cache[stream[c].life])
      PROVE  e \in stream[c].got \/ Overtaken(e)
  <2> DEFINE s == stream[c]
  <2>1. Sound(s)
      BY DEF StreamsSound
  <2> HIDE DEF s
  <2>2. s \in Streams /\ Behaved(s) /\ Delivered(s) /\ Lossless(s) /\ s.at = "ended"
      BY <1>5, <2>1 DEF Sound, s
  <2>3. s.last \in Nat /\ s.seen \in Nat
      BY <2>2, StreamFields
  <2>4. e \in 1 .. s.last
    <3>1. CASE load.team
      <4>1. e \in 1 .. s.seen
          BY <3>1 DEF s
      <4>2. s.seen <= s.last
          BY <2>2, <3>1 DEF Delivered
      <4> QED BY <2>3, <4>1, <4>2
    <3>2. CASE ~load.team
      <4>1. e \in Range(cache[s.life])
          BY <3>2 DEF s
      <4>2. s.life \in Lives /\ s.todo = <<>>
          BY <2>2, <3>2 DEF Behaved, TypeOK
      <4>3. e \in Sequence
          BY <4>1, <4>2, EventsTyped DEF EventsOK
      <4>4. Range(s.todo) = {}
          BY <4>2 DEF Range
      <4>5. e <= s.last
          BY <2>2, <3>2, <4>1, <4>4 DEF Delivered, Had
      <4> QED BY <2>3, <4>3, <4>5 DEF Sequence
    <3> QED BY <3>1, <3>2
  <2>5. e \in s.got \/ Overtaken(e)
      BY <2>2, <2>4 DEF Lossless
  <2> QED BY <2>5 DEF s
<1> QED BY <1>2, <1>3, <1>4, <1>5 DEF ConsumedOnce, LossOnlyByOvertaking

-----------------------------------------------------------------------------
(* Theorems                                                                 *)

(* The registry, the owner of the run, the projection of delegated tasks,   *)
(* the senders of messages and the streams keep the invariant.              *)
THEOREM IInvHolds == Spec => []IInv
<1>1. Init => IInv
    BY InitIInv
<1>2. IInv /\ [Next]_vars => IInv'
    BY NextIInv
<1> QED BY <1>1, <1>2, PTL DEF Spec

(* What an ended stream has not delivered, a later event overtook on its    *)
(* way into a cache or a channel: neither a lag, nor a completion between   *)
(* two reads, nor a disconnect loses an event of chat_run_subscription_     *)
(* stream or team_chat_task_event_stream.                                   *)
THEOREM StreamsLoseNothingElse == Spec => []LossOnlyByOvertaking
<1>1. IInv => LossOnlyByOvertaking
    BY IInvImplies
<1> QED BY <1>1, IInvHolds, PTL

(* A message leaves one guidanceApplied row if it was consumed as guidance  *)
(* and none otherwise, and all positions are within the logs.               *)
THEOREM MessagesConsumedOnce == Spec => []ConsumedOnce
<1>1. IInv => ConsumedOnce
    BY IInvImplies
<1> QED BY <1>1, IInvHolds, PTL

(* deliver_agent_message_guidance and the prompt of an attempt leave no     *)
(* unread message behind while the run accepts guidance, its setup included:*)
(* a message that names the task arrives whatever else the instance runs,   *)
(* one that names none if the instance runs nothing else.                   *)
THEOREM MessagesArrive == Spec => []NoneStranded
<1>1. IInv => NoneStranded
    BY IInvImplies
<1> QED BY <1>1, IInvHolds, PTL

(* Unless a setup fails, consume_agent_messages marks only what is in the   *)
(* prompt, and guidance only what the model has been given.                 *)
THEOREM MessagesTold == Spec => []ConsumedIsTold
<1>1. IInv => ConsumedIsTold
    BY IInvImplies
<1> QED BY <1>1, IInvHolds, PTL
=============================================================================
