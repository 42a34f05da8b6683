------------------------------- MODULE WriteAll -------------------------------
(***************************************************************************)
(* A task that writes a Buf to an AsyncWrite with poll_write_buf,          *)
(* poll_write_buf_vectored and poll_write_all_buf, flushes it and shuts it *)
(* down, and the writer at the other end: a socket whose peer drains it    *)
(* and may close it, a Vec, or a slice, directly or behind any number of   *)
(* references, boxes and pins, which pass every call on.  The task lends   *)
(* its cursor to every call, so that a call that returned Pending is       *)
(* repeated with what was left.                                            *)
(***************************************************************************)
EXTENDS Cursors

CONSTANTS
    Sources,    \* the Buf the task writes
    Writers,    \* what it writes to: among "socket", "vec" and "slice"
    Capacity,   \* room of the socket's buffer, or of the slice
    IoSlices    \* slices in one vectored call (64 in the code)

ASSUME WriteAllAssumption ==
    /\ Sources \subseteq Buf
    /\ Writers \subseteq {"socket", "vec", "slice"}
    /\ Capacity \in Nat \ {0}
    /\ IoSlices \in Nat \ {0}

VARIABLES
    src,        \* the cursor
    writer,     \* the kind of the writer
    room,       \* bytes the socket or the slice can still take
    peer,       \* of the socket: "open", "ended" (takes no more), "reset" (answers with errors),
                \* or "shut": the task has shut it down
    sink,       \* the bytes the writer has taken, oldest first
    call,       \* the call of the task: "all", "buf", "vectored", or "none"
    parked,     \* the call has returned Pending and the task waits for its waker
    waker,      \* the socket holds a waker of the task
    answer,     \* how the last call returned: "ok", "zero" (WriteZero), "error" or "panic"
    message     \* what the cursor held at first

conn == <<writer, room, peer>>
vars == <<src, conn, sink, call, parked, waker, answer, message>>

Init ==
    /\ src \in Sources
    /\ writer \in Writers
    /\ room \in 0..Capacity
    /\ peer = "open"
    /\ sink = <<>>
    /\ call = "none"
    /\ parked = FALSE
    /\ waker = FALSE
    /\ answer = "ok"
    /\ message = Content[src]

Returns(result) == call' = "none" /\ answer' = result

-----------------------------------------------------------------------------
(* The answers of poll_write and poll_write_vectored to a list of bytes.    *)

\* The number of bytes a writer may accept.  A socket that has ended accepts none, now and ever
\* after; a Vec accepts all; a slice takes the shorter of the two lengths, and panics in
\* copy_from_slice if that is not all.
SocketAccepts(bytes) ==
    CASE peer \in {"reset", "shut"} -> {}
      [] peer = "ended" -> {0}
      [] peer = "open"  -> IF bytes = <<>> THEN {0} ELSE 1..Least(room, Len(bytes))
SliceAccepts(bytes) == IF Len(bytes) <= room THEN {Len(bytes)} ELSE {}
Accepts(bytes) ==
    CASE writer = "socket" -> SocketAccepts(bytes)
      [] writer = "vec"    -> {Len(bytes)}
      [] writer = "slice"  -> SliceAccepts(bytes)

Occupied(n) == room' = IF writer = "vec" THEN room ELSE room - n

\* FAULT: the cursor stays
Accepted_NoAdvance(bytes, n) ==
    /\ sink' = sink \o First(bytes, n)
    /\ Occupied(n)
    /\ UNCHANGED <<src, writer, peer, parked, waker, message>>
\* FAULT: a short write makes the call return Pending, without a waker
Accepted_Park(bytes, n) ==
    /\ sink' = sink \o First(bytes, n)
    /\ src' = AdvanceBy[src][n]
    /\ Occupied(n)
    /\ parked' = (n \in 1..(Len(bytes) - 1))
    /\ UNCHANGED <<writer, peer, waker, message>>
\* the bytes are with the writer; buf.advance(write)
Accepted(bytes, n) ==
    /\ sink' = sink \o First(bytes, n)
    /\ src' = AdvanceBy[src][n]
    /\ Occupied(n)
    /\ UNCHANGED <<writer, peer, parked, waker, message>>

\* a full socket answers Pending and keeps the waker
Pending(bytes) ==
    /\ writer = "socket" /\ peer = "open" /\ room = 0 /\ bytes # <<>>
    /\ parked' = TRUE
    /\ waker' = TRUE
    /\ UNCHANGED <<src, conn, sink, answer, message>>

\* a socket that was reset or shut down answers with an error
Refused ==
    /\ writer = "socket" /\ peer \in {"reset", "shut"}
    /\ Returns("error")
    /\ UNCHANGED <<src, conn, sink, parked, waker, message>>

\* copy_from_slice panics: the slice has been taken out of the writer and is not put back
Panics(bytes) ==
    /\ writer = "slice" /\ Len(bytes) > room
    /\ room' = 0
    /\ Returns("panic")
    /\ UNCHANGED <<src, writer, peer, sink, parked, waker, message>>

-----------------------------------------------------------------------------
(* The calls of the task *)

Free == call = "none"
Polled(kind) == call = kind /\ ~parked

Call(kind) ==
    /\ Free
    /\ call' = kind
    /\ UNCHANGED <<src, conn, sink, parked, waker, answer, message>>

\* one poll of a call that writes once
PollOnce(kind, bytes) ==
    /\ Polled(kind)
    /\ \/ \E n \in Accepts(bytes) : Accepted(bytes, n) /\ Returns("ok")
       \/ Pending(bytes) /\ UNCHANGED call
       \/ Refused
       \/ Panics(bytes)

PollWriteBuf == PollOnce("buf", Chunk[src])

\* poll_write_vectored of a socket takes the slices one after the other; the provided method,
\* which Vec and slices have, hands the first slice that is not empty to poll_write.
Gathered ==
    LET slices == ChunksVectored[src][IoSlices]
    IN  IF writer = "socket" THEN FlattenSeq(slices)
        ELSE IF slices = <<>> THEN <<>> ELSE Head(slices)
PollWriteBufVectored == PollOnce("vectored", Gathered)

\* poll_write_all_buf: the loop ends when nothing remains ...
WriteAllEnds ==
    /\ Polled("all")
    /\ Remaining[src] = 0
    /\ Returns("ok")
    /\ UNCHANGED <<src, conn, sink, parked, waker, message>>

\* FAULT: a write of no bytes is tried again
AfterWrite_Retry(n) == UNCHANGED <<call, answer>>
\* FAULT: a short write is taken for the end of the stream
AfterWrite_Short(n) ==
    IF n < Len(Chunk[src]) THEN Returns("zero") ELSE UNCHANGED <<call, answer>>
\* ... and otherwise writes the chunk; a write of no bytes is an error
AfterWrite(n) == IF n = 0 THEN Returns("zero") ELSE UNCHANGED <<call, answer>>
WriteAllStep ==
    /\ Polled("all")
    /\ Remaining[src] > 0
    /\ \/ \E n \in Accepts(Chunk[src]) : Accepted(Chunk[src], n) /\ AfterWrite(n)
       \/ Pending(Chunk[src]) /\ UNCHANGED call
       \/ Refused
       \/ Panics(Chunk[src])

\* poll_flush: nothing is buffered in front of the writer; the call returns at once
PollFlush ==
    /\ Free
    /\ answer' = "ok"
    /\ UNCHANGED <<src, conn, sink, call, parked, waker, message>>

\* poll_shutdown ends what a socket accepts, and does nothing to a Vec or a slice; a socket that was
\* reset may answer with an error
PollShutdown ==
    /\ Free
    /\ peer' = IF writer = "socket" /\ peer # "reset" THEN "shut" ELSE peer
    /\ answer' \in IF peer = "reset" THEN {"ok", "error"} ELSE {"ok"}
    /\ UNCHANGED <<src, writer, room, sink, call, parked, waker, message>>

-----------------------------------------------------------------------------
(* The peer of the socket *)

\* waking the task, which is then polled again: the call continues where the cursor is
Wake ==
    /\ parked' = (parked /\ ~waker)
    /\ waker' = FALSE

Drain ==
    /\ writer = "socket"
    /\ peer = "open"
    /\ \E n \in (room + 1)..Capacity : room' = n
    /\ Wake
    /\ UNCHANGED <<src, writer, peer, sink, call, answer, message>>

Close ==
    /\ writer = "socket"
    /\ peer = "open"
    /\ peer' \in {"ended", "reset"}
    /\ Wake
    /\ UNCHANGED <<src, writer, room, sink, call, answer, message>>

Poll == PollWriteBuf \/ PollWriteBufVectored \/ WriteAllEnds \/ WriteAllStep

Next ==
    \/ \E kind \in {"buf", "vectored", "all"} : Call(kind)
    \/ Poll
    \/ PollFlush \/ PollShutdown
    \/ Drain
    \/ Close

Spec == Init /\ [][Next]_vars

\* The executor polls a task that is not parked; the peer reads what has been sent, or closes.
Fairness == WF_vars(Poll) /\ WF_vars(Drain)
FairSpec == Spec /\ Fairness

-----------------------------------------------------------------------------
(* Properties *)

\* What the writer has taken and what the cursor still holds make up the message, before, between
\* and after the polls of a call: short writes, Pending and errors in the middle of a chunk or at
\* its border neither lose nor repeat a byte (write.rs:141-146, 167-172, 188-195).
SentOnceInOrder == sink \o Content[src] = message

\* A task that waits has left its waker with the socket, or nobody will wake it
\* (write.rs:19-21: Pending "arranges for the current task to receive a notification").
ParkedHasWaker == parked => waker

\* poll_write_all_buf says Ok only when all has been written, WriteZero only when the peer takes no
\* more, which a short write alone does not say, and an error only when the writer had one: after a
\* reset, or a shutdown between two calls that left bytes unwritten
\* (write.rs:150-174).
Settles(result) == call = "all" /\ call' = "none" /\ answer' = result
AnswersAreTrue ==
    [][ /\ Settles("ok") => sink' = message
        /\ Settles("zero") => peer = "ended" /\ sink' # message
        /\ Settles("error") => peer \in {"reset", "shut"} /\ sink' # message ]_vars

\* Every call returns, although the socket may be full again and again and may be closed at any
\* time (write.rs:167-173: the loop makes progress or ends).
CallsReturn == call # "none" ~> call = "none"
=============================================================================
