------------------------------- MODULE Transfer -------------------------------
(***************************************************************************)
(* A program that moves bytes from a Buf into a BufMut: put, put_slice and *)
(* put_u8 of the trait, and the implementations of AsyncRead, which end in *)
(* them.  put and put_slice are loops: one action per iteration.           *)
(***************************************************************************)
EXTENDS Cursors

CONSTANTS
    Inputs,         \* the Buf the bytes come from
    Destinations    \* the BufMut they go to, nothing written yet

\* A running call is one more Take around the source.
ASSUME TransferAssumption ==
    /\ Depth # 0
    /\ Inputs \subseteq BufUpTo[Depth - 1]
    /\ Destinations \subseteq BufMut
    /\ \A d \in Destinations : Written[d] = <<>>

VARIABLES
    source,         \* the source; a stream of bytes that arrive is a slice
    dst,            \* the destination
    feed,           \* what a running put or put_slice has not moved yet: a take of the source
    moving,         \* whether one is running
    message         \* what the source held at first

moveVars == <<source, dst, feed, moving, message>>

MoveInit ==
    /\ source \in Inputs
    /\ dst \in Destinations
    /\ feed = TakeOf(source, 0)
    /\ moving = FALSE
    /\ message = Content[source]

\* A Vec reserves room for the whole source first; its room is never less than it has.
Reserved(d, n) ==
    IF d.kind = "vec" THEN Enlarged(d, Beyond(n, Len(d.room))) ELSE d

\* the loop over the chunks of the first n bytes of the source begins
Begin(n) ==
    /\ dst' = Reserved(dst, n)
    /\ feed' = TakeOf(source, n)
    /\ moving' = TRUE
    /\ UNCHANGED <<source, message>>

\* dst.put((&mut source).take(n)), its check of the capacity passed
Put(n) ==
    /\ ~moving
    /\ n <= Remaining[source]
    /\ n <= RemainingMut[dst]
    /\ Begin(n)

\* poll_read of &[u8]: as many bytes as there are and as there is room for
ReadCount == Least(Remaining[source], RemainingMut[dst])
PollReadSlice ==
    /\ ~moving
    /\ source.kind = "slice"
    /\ Begin(ReadCount)

\* One iteration of the loop of put and put_slice.  Vec::put takes the whole chunk of the source.
PutCount ==
    IF dst.kind = "vec" THEN Len(Chunk[feed])
    ELSE Least(Len(Chunk[feed]), ChunkRoom[dst])
PutChunk ==
    /\ moving
    /\ Remaining[feed] > 0
    /\ Opens(dst)
    /\ dst' = Filled(dst, First(Chunk[feed], PutCount))
    /\ feed' = AdvanceBy[feed][PutCount]
    /\ UNCHANGED <<source, moving, message>>

\* the loop ends, or chunk_mut panics; the borrowed source has moved with the take
PutEnd ==
    /\ moving
    /\ Remaining[feed] = 0 \/ ~Opens(dst)
    /\ source' = feed.inner
    /\ feed' = TakeOf(feed.inner, 0)
    /\ moving' = FALSE
    /\ UNCHANGED <<dst, message>>

\* put_u8, put_i8 of the next byte of the source
PutByte ==
    /\ ~moving
    /\ Remaining[source] > 0
    /\ RemainingMut[dst] > 0
    /\ Opens(dst)
    /\ dst' = Filled(dst, First(Chunk[source], 1))
    /\ source' = AdvanceBy[source][1]
    /\ feed' = TakeOf(source', 0)
    /\ UNCHANGED <<moving, message>>

\* poll_read of a TcpStream or a UnixStream: the kernel writes n bytes that have arrived into the
\* chunk.  With n = 0 the stream has ended or, the answer being Pending, nothing has arrived; a
\* full Vec has grown all the same.
PollReadSocket(n) ==
    /\ ~moving
    /\ source.kind = "slice"
    /\ Opens(dst)
    /\ n <= ChunkRoom[dst]
    /\ dst' = Filled(dst, First(source.bytes, n))
    /\ source' = AdvanceBy[source][n]
    /\ feed' = TakeOf(source', 0)
    /\ UNCHANGED <<moving, message>>

MoveNext ==
    \/ \E n \in 0..Remaining[source] : Put(n) \/ PollReadSocket(n)
    \/ PollReadSlice
    \/ PutChunk
    \/ PutEnd
    \/ PutByte

MoveSpec == MoveInit /\ [][MoveNext]_moveVars /\ WF_moveVars(PutChunk) /\ WF_moveVars(PutEnd)

-----------------------------------------------------------------------------
(* Properties *)

\* what the source holds once the bytes already moved by a running call are taken from it
Left == IF moving THEN Content[feed.inner] ELSE Content[source]

\* Between any two iterations of any sequence of calls, what was written and what is left make up
\* the message: no byte is lost, repeated, reordered or uninitialised, whatever the borders of the
\* chunks on either side (buf_mut.rs:129-169, read.rs:35-41, tokio/mod.rs:24-29).
MovedOnceInOrder == Written[dst] \o Left = message

\* A put or put_slice that has checked the capacity ends: it does not spin on an empty chunk
\* (buf_mut.rs:133-144).
TransferEnds == moving ~> ~moving
=============================================================================
