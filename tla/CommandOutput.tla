---------------------------- MODULE CommandOutput ---------------------------
(***************************************************************************)
(* The bounded output buffer of one background command                     *)
(* (OutputRingBuffer in tools/background_command.rs) and a client that     *)
(* pages through it with get_command_output (tools/command_tools.rs) while *)
(* the reader threads append and the monitor ends the command.             *)
(*                                                                         *)
(* A chunk is its cursor, its size and what its lines leave of a page; its *)
(* bytes and stream do not matter here.  The names are apart from the ones *)
(* of BackgroundCommands, so that one module can extend both.              *)
(***************************************************************************)
EXTENDS Integers, Sequences

CONSTANTS MaxBytes,     \* limits.max_output_bytes_per_command
          ReadBuffer,   \* OUTPUT_READ_BUFFER_BYTES
          MaxChunk,     \* MAX_OUTPUT_CHUNK_BYTES
          MaxChunks     \* bound: chunks a command produces

(* 1 MiB is retained, 8 KiB are read at once and cut every 4 KiB. *)
ASSUME SizesAssumption ==
    /\ MaxBytes \in Nat /\ ReadBuffer \in Nat /\ MaxChunk \in Nat \ {0}
    /\ MaxChunk <= ReadBuffer /\ ReadBuffer <= MaxBytes

ASSUME MaxChunksAssumption == MaxChunks \in Nat

VARIABLES
    ring,           \* OutputRingBuffer: chunks, retained, dropped, next
    outputStatus,   \* "Running", "Ended" after both readers, or "Failed"
    outputReaders,  \* "reading" or "eof"
    snap,           \* status of the snapshot the client's call has taken, or "none"
    cursor,         \* the client's cursor: nextCursor of its last response, or -1
    delivered,      \* cursors of the chunks it was given
    reported,       \* cursors it was told are gone
    done            \* its last response was terminal and had no more

outputVars == <<ring, outputStatus, outputReaders, snap, cursor, delivered, reported, done>>

(* A page has at most TOOL_OUTPUT_SOFT_LINE_LIMIT lines, those of the other *)
(* strings of the response included (processId, status, stream, and in some *)
(* responses terminationReason and note).  output_chunk_end limits only the *)
(* \n of a chunk, value_text_lines counts every line, those that end in \r *)
(* or do not end included.  So a chunk alone                                *)
(*   "fits"     in every page,                                              *)
(*   "borders"  on the limit: it fits if the response is short enough, or   *)
(*   "exceeds"  what any response leaves.                                   *)
TextSizes == {"fits", "borders", "exceeds"}

TotalSize(chunks) ==
    LET S[i \in 0..Len(chunks)] == IF i = 0 THEN 0 ELSE S[i - 1] + chunks[i].size
    IN  S[Len(chunks)]

OutputInit ==
    /\ ring = [chunks |-> <<>>, retained |-> 0, dropped |-> 0, next |-> 0]
    /\ outputStatus = "Running"
    /\ outputReaders = "reading"
    /\ snap = "none"
    /\ cursor = -1
    /\ delivered = {}
    /\ reported = {}
    /\ done = FALSE

-----------------------------------------------------------------------------
(* OutputRingBuffer::append                                                 *)

\* pop_front; the sizes are exact, so the saturating operations do not saturate.
PopFront(r) ==
    LET size == r.chunks[1].size
    IN  [chunks |-> Tail(r.chunks), retained |-> r.retained - size,
         dropped |-> r.dropped + size, next |-> r.next]

\* The inner loop: pop_front until the new chunk fits.
Evicted(r, size) ==
    LET E[n \in 0..Len(r.chunks)] ==
            IF n = 0 THEN r
            ELSE IF E[n - 1].chunks = <<>> \/ E[n - 1].retained + size <= MaxBytes THEN E[n - 1]
            ELSE PopFront(E[n - 1])
    IN  E[Len(r.chunks)]

\* The outer loop: one piece of the read becomes a chunk.
Push(r, piece) ==
    LET e == Evicted(r, piece.size)
    IN  [chunks |-> Append(e.chunks, [cursor |-> e.next + 1, size |-> piece.size, text |-> piece.text]),
         retained |-> e.retained + piece.size, dropped |-> e.dropped, next |-> e.next + 1]

PushAll(r, pieces) ==
    LET P[i \in 0..Len(pieces)] == IF i = 0 THEN r ELSE Push(P[i - 1], pieces[i])
    IN  P[Len(pieces)]

\* output_chunk_end cuts at MaxChunk, or earlier at a run of line ends.
Pieces == [size : 1..MaxChunk, text : TextSizes]
Cuts == {s \in UNION {[1..n -> Pieces] : n \in 1..ReadBuffer} : TotalSize(s) <= ReadBuffer}

\* append_output by a reader thread: one read, under the entry's mutex.
AppendOutput(pieces) ==
    /\ outputReaders = "reading"
    /\ ring.next + Len(pieces) <= MaxChunks
    /\ ring' = PushAll(ring, pieces)
    /\ UNCHANGED <<outputStatus, outputReaders, snap, cursor, delivered, reported, done>>

OutputEnds ==
    /\ outputReaders = "reading"
    /\ outputReaders' = "eof"
    /\ UNCHANGED <<ring, outputStatus, snap, cursor, delivered, reported, done>>

\* The monitor joins both readers before finish() ...
FinishBeforeJoin ==
    /\ outputStatus = "Running"
    /\ outputStatus' = "Ended"
    /\ UNCHANGED <<ring, outputReaders, snap, cursor, delivered, reported, done>>

FinishCommand ==
    /\ outputStatus = "Running"
    /\ outputReaders = "eof"
    /\ outputStatus' = "Ended"
    /\ UNCHANGED <<ring, outputReaders, snap, cursor, delivered, reported, done>>

\* ... unless waiting for the process failed.
FinishFailed ==
    /\ outputStatus = "Running"
    /\ outputStatus' = "Failed"
    /\ UNCHANGED <<ring, outputReaders, snap, cursor, delivered, reported, done>>

-----------------------------------------------------------------------------
(* get_command_output: the snapshot first, then the output.                 *)

TakeSnapshot ==
    /\ ~done
    /\ snap = "none"
    /\ snap' = outputStatus
    /\ UNCHANGED <<ring, outputStatus, outputReaders, cursor, delivered, reported, done>>

\* read_after
Earliest == ring.chunks[1].cursor
Unread ==
    LET U[k \in 0..Len(ring.chunks)] ==
            IF k = 0 THEN <<>>
            ELSE IF ring.chunks[k].cursor > cursor THEN Append(U[k - 1], ring.chunks[k])
            ELSE U[k - 1]
    IN  U[Len(ring.chunks)]

CursorExpiredLate ==
    /\ cursor # -1
    /\ ring.dropped > 0
    /\ ring.chunks # <<>> /\ cursor < Earliest - 2

CursorExpired ==
    /\ cursor # -1
    /\ ring.dropped > 0
    /\ ring.chunks # <<>> /\ cursor < Earliest - 1

\* What a response tells the client it can no longer have: the range before
\* the earliest chunk, when the cursor expired or, for a read without cursor,
\* when the output was truncated.
GoneRange ==
    IF CursorExpired THEN (cursor + 1)..(Earliest - 1)
    ELSE IF cursor = -1 /\ ring.dropped > 0 /\ ring.chunks # <<>> THEN 1..(Earliest - 1)
    ELSE {}

\* cursor_before_output
CursorBefore ==
    IF cursor # -1 THEN cursor ELSE IF ring.chunks = <<>> THEN 0 ELSE Earliest - 1

RespondAnyPage(n) ==
    /\ snap # "none"
    /\ n <= Len(Unread)
    /\ \A i \in 1..n : Unread[i].text # "exceeds"
    /\ cursor' = IF n = 0 THEN CursorBefore ELSE Unread[n].cursor
    /\ delivered' = delivered \cup {Unread[i].cursor : i \in 1..n}
    /\ reported' = reported \cup GoneRange
    /\ done' = (snap # "Running" /\ n = Len(Unread))
    /\ snap' = "none"
    /\ UNCHANGED <<ring, outputStatus, outputReaders>>

\* The first unread chunk does not, or need not, fit a page by itself.  No
\* response is shorter than one of a running command, which has no
\* terminationReason, without the note that there is more.
Stuck == Unread # <<>> /\ Unread[1].text # "fits"
Shortest == snap = "Running" /\ Len(Unread) = 1
MayNotFit == Stuck /\ (Unread[1].text = "borders" => ~Shortest)

\* limited_chunks: the longest prefix within the budget of the response.  The
\* first chunk is popped like any other, and then the page is empty, more is
\* said to come, and the cursor stays where it was.
Respond(n) ==
    /\ snap # "none"
    /\ n <= Len(Unread)
    /\ \A i \in 1..n : Unread[i].text # "exceeds"
    /\ n = 0 /\ Unread # <<>> => MayNotFit
    /\ cursor' = IF n = 0 THEN CursorBefore ELSE Unread[n].cursor
    /\ delivered' = delivered \cup {Unread[i].cursor : i \in 1..n}
    /\ reported' = reported \cup GoneRange
    /\ done' = (snap # "Running" /\ n = Len(Unread))
    /\ snap' = "none"
    /\ UNCHANGED <<ring, outputStatus, outputReaders>>

OutputNext ==
    \/ \E pieces \in Cuts : AppendOutput(pieces)
    \/ OutputEnds \/ FinishCommand \/ FinishFailed
    \/ TakeSnapshot \/ (\E n \in 0..MaxChunks : Respond(n))

OutputSpec == OutputInit /\ [][OutputNext]_outputVars

(* Readers run until their pipe ends, the monitor ends the command, and the *)
(* client keeps asking.                                                     *)
OutputFairness ==
    /\ WF_outputVars(OutputEnds)
    /\ WF_outputVars(FinishCommand \/ FinishFailed)
    /\ WF_outputVars(TakeSnapshot \/ \E n \in 0..MaxChunks : Respond(n))

FairOutputSpec == OutputSpec /\ OutputFairness
-----------------------------------------------------------------------------
OutputTypeOK ==
    /\ ring.chunks \in Seq([cursor : 1..MaxChunks, size : 1..MaxChunk, text : TextSizes])
    /\ ring.retained \in 0..MaxBytes
    /\ ring.dropped \in Nat
    /\ ring.next \in 0..MaxChunks
    /\ outputStatus \in {"Running", "Ended", "Failed"}
    /\ outputReaders \in {"reading", "eof"}
    /\ snap \in {"none", "Running", "Ended", "Failed"}
    /\ cursor \in -1..MaxChunks
    /\ delivered \subseteq 1..MaxChunks /\ reported \subseteq 1..MaxChunks
    /\ done \in BOOLEAN

(* A client that passes nextCursor back never loses a chunk silently and    *)
(* never sees one twice: up to its cursor, every chunk was either delivered *)
(* or reported as gone; nothing was both, not even the range reported by a  *)
(* page without chunks, which leaves an expired cursor where it was; and    *)
(* nothing beyond the cursor was delivered.                                 *)
NoSilentGap ==
    /\ 1..cursor \subseteq delivered \cup reported
    /\ delivered \cap reported = {}
    /\ delivered \subseteq 1..cursor

(* States are well formed, and a client that stops at a terminal response   *)
(* without more has everything, pages and evictions included: no output     *)
(* arrives after it, unless the monitor gave up waiting for the process.    *)
CompleteWhenDone ==
    /\ OutputTypeOK
    /\ done /\ outputStatus = "Ended" => cursor = ring.next

(* Paging ends: a client that keeps asking gets its last page, unless from  *)
(* some call on it stays before a chunk that does not surely fit a page.    *)
(* (docs/background-run-command-contract.md, line 52, promises the next     *)
(* complete chunk to a call with nextCursor without that exception.)        *)
PagingEnds == <>done \/ <>[]Stuck
=============================================================================
