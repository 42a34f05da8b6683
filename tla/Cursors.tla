------------------------------- MODULE Cursors -------------------------------
(***************************************************************************)
(* The cursors of tcio: Buf (bytes still to be read) and BufMut (room      *)
(* still to be filled), as values.  A Buf is a tree of slices, chains and  *)
(* takes; a BufMut is a tree of fixed slices, growing vectors and chains.  *)
(* Every method of the traits that Chain, Take, &[u8], &mut [u8] and Vec   *)
(* implement is a function here, recursive over the tree as the generic    *)
(* impls call one another; the provided methods that loop are actions of   *)
(* BufReader and Transfer, one iteration at a time.                        *)
(***************************************************************************)
EXTENDS Integers, SequencesExt

CONSTANTS
    Byte,         \* the values of a byte
    Uninit,       \* what memory holds that nobody has written
    Depth,        \* how deeply chains and takes are nested at most
    TakeSlices,   \* slices that Take looks at in one chunks_vectored (32 in the code)
    Growth,       \* bytes a full Vec reserves when its chunk is asked for (64 in the code)
    IsizeMax      \* the most bytes a Vec can hold

ASSUME CursorsAssumption ==
    /\ Uninit \notin Byte
    /\ Depth \in Nat
    /\ TakeSlices \in Nat \ {0}
    /\ Growth \in Nat \ {0}
    /\ IsizeMax \in Nat \ {0}

Least(m, n) == IF m < n THEN m ELSE n
First(bytes, n) == SubSeq(bytes, 1, Least(n, Len(bytes)))
Skip(bytes, n) == SubSeq(bytes, n + 1, Len(bytes))

\* cnt.checked_sub(a_rem): what is left for the second cursor of a chain
Beyond(n, rem) == IF n > rem THEN n - rem ELSE 0

-----------------------------------------------------------------------------
(* Buf *)

Slice(bytes) == [kind |-> "slice", bytes |-> bytes]
Chained(a, b) == [kind |-> "chain", a |-> a, b |-> b]
TakeOf(inner, limit) == [kind |-> "take", inner |-> inner, limit |-> limit]

\* the cursors with up to d adapters around a slice
BufUpTo[d \in 0..Depth] ==
    [kind : {"slice"}, bytes : Seq(Byte)] \cup
    IF d = 0 THEN {}
    ELSE [kind : {"chain"}, a : BufUpTo[d - 1], b : BufUpTo[d - 1]]
         \cup [kind : {"take"}, inner : BufUpTo[d - 1], limit : Nat]
Buf == BufUpTo[Depth]

Remaining[c \in Buf] ==
    IF c.kind = "slice" THEN Len(c.bytes)
    ELSE IF c.kind = "chain" THEN Remaining[c.a] + Remaining[c.b]
    ELSE Least(Remaining[c.inner], c.limit)

\* FAULT: the first cursor is asked even when it is empty
ChainChunk_FirstOnly(c, chunk) == chunk[c.a]
ChainChunk(c, chunk) == IF Remaining[c.a] > 0 THEN chunk[c.a] ELSE chunk[c.b]
TakeChunk(c, chunk) == First(chunk[c.inner], c.limit)
Chunk[c \in Buf] ==
    IF c.kind = "slice" THEN c.bytes
    ELSE IF c.kind = "chain" THEN ChainChunk(c, Chunk)
    ELSE TakeChunk(c, Chunk)

\* FAULT: an advance over the border counts the bytes of the first cursor twice
ChainAdvance_WholeCount(c, n, advance) ==
    Chained(advance[c.a][Least(Remaining[c.a], n)],
            advance[c.b][IF n > Remaining[c.a] THEN n ELSE 0])
ChainAdvance(c, n, advance) ==
    Chained(advance[c.a][Least(Remaining[c.a], n)], advance[c.b][Beyond(n, Remaining[c.a])])
TakeAdvance(c, n, advance) == TakeOf(advance[c.inner][n], c.limit - n)
AdvanceBy[c \in Buf] == [n \in Nat |->
    IF c.kind = "slice" THEN Slice(Skip(c.bytes, n))
    ELSE IF c.kind = "chain" THEN ChainAdvance(c, n, AdvanceBy)
    ELSE TakeAdvance(c, n, AdvanceBy)]

\* The loop of Take::chunks_vectored: slices are shown until the limit is used up.
CutAt[slices \in Seq(Seq(Byte))] == [limit \in Nat |->
    IF slices = <<>> \/ limit = 0 THEN <<>>
    ELSE <<First(Head(slices), limit)>> \o CutAt[Tail(slices)][Beyond(limit, Len(Head(slices)))]]

SliceVectored(c, slots) == IF slots = 0 \/ c.bytes = <<>> THEN <<>> ELSE <<c.bytes>>
ChainVectored(c, slots, vectored) ==
    LET first == vectored[c.a][slots]
    IN  first \o vectored[c.b][slots - Len(first)]
\* FAULT: every slice is cut at the whole limit
TakeVectored_EachAlone(c, slots, vectored) ==
    LET slices == vectored[c.inner][Least(slots, TakeSlices)]
    IN  [i \in DOMAIN slices |-> First(slices[i], c.limit)]
TakeVectored(c, slots, vectored) ==
    CutAt[vectored[c.inner][Least(slots, TakeSlices)]][c.limit]
ChunksVectored[c \in Buf] == [slots \in Nat |->
    IF c.kind = "slice" THEN SliceVectored(c, slots)
    ELSE IF c.kind = "chain" THEN ChainVectored(c, slots, ChunksVectored)
    ELSE TakeVectored(c, slots, ChunksVectored)]

\* How many slices a cursor is made of, and whether every take in it looks at all of its own.
\* A take that does not, with another cursor behind it, leaves a gap in what is shown.
Parts[c \in Buf] ==
    IF c.kind = "slice" THEN 1
    ELSE IF c.kind = "chain" THEN Parts[c.a] + Parts[c.b]
    ELSE Parts[c.inner]
Narrow[c \in Buf] ==
    IF c.kind = "slice" THEN TRUE
    ELSE IF c.kind = "chain" THEN Narrow[c.a] /\ Narrow[c.b]
    ELSE Narrow[c.inner] /\ Parts[c.inner] <= TakeSlices
Gapless(c, slots) == c.kind = "take" \/ Narrow[c] \/ slots <= TakeSlices

\* The loop of BytesMut::put over a source: chunk after chunk until nothing remains.
Drained[c \in Buf] ==
    IF Remaining[c] = 0
    THEN [bytes |-> <<>>, rest |-> c]
    ELSE LET more == Drained[AdvanceBy[c][Len(Chunk[c])]]
         IN  [bytes |-> Chunk[c] \o more.bytes, rest |-> more.rest]

\* copy_to_bytes: the Bytes it returns and the cursor it leaves behind
Copied(bytes, rest) == [bytes |-> bytes, rest |-> rest]
\* FAULT: the second cursor gives `len` bytes although the first gave some
ChainCopy_WholeLen(c, n) ==
    LET a == Drained[c.a]
        b == Drained[TakeOf(c.b, n)]
    IN  Copied(a.bytes \o b.bytes, Chained(a.rest, b.rest.inner))
ChainCopy(c, n) ==
    LET a == Drained[c.a]
        b == Drained[TakeOf(c.b, n - Remaining[c.a])]
    IN  Copied(a.bytes \o b.bytes, Chained(a.rest, b.rest.inner))
CopyToBytes[c \in Buf] == [n \in Nat |->
    IF c.kind = "slice" THEN Copied(First(c.bytes, n), Slice(Skip(c.bytes, n)))
    ELSE IF c.kind = "take" THEN
        LET r == CopyToBytes[c.inner][n] IN Copied(r.bytes, TakeOf(r.rest, c.limit - n))
    ELSE IF Remaining[c.a] >= n THEN
        LET r == CopyToBytes[c.a][n] IN Copied(r.bytes, Chained(r.rest, c.b))
    ELSE IF Remaining[c.a] = 0 THEN
        LET r == CopyToBytes[c.b][n] IN Copied(r.bytes, Chained(c.a, r.rest))
    ELSE ChainCopy(c, n)]

\* What a cursor stands for: the bytes that can be read from it.
Content[c \in Buf] ==
    IF c.kind = "slice" THEN c.bytes
    ELSE IF c.kind = "chain" THEN Content[c.a] \o Content[c.b]
    ELSE First(Content[c.inner], c.limit)

-----------------------------------------------------------------------------
(* BufMut.  `done` is the memory that has been written, `room` the rest.   *)

Memory(n) == [i \in 1..n |-> Uninit]
Fixed(n) == [kind |-> "fixed", done |-> <<>>, room |-> Memory(n)]
Vector(n) == [kind |-> "vec", done |-> <<>>, room |-> Memory(n)]
Halves(a, b) == [kind |-> "chain", a |-> a, b |-> b]

\* the cursors with up to d chains around a leaf; no allocation is larger than isize::MAX
Cell == Byte \cup {Uninit}
BufMutUpTo[d \in 0..Depth] ==
    {m \in [kind : {"fixed", "vec"}, done : Seq(Cell), room : Seq(Cell)] :
        Len(m.done) + Len(m.room) <= IsizeMax} \cup
    IF d = 0 THEN {} ELSE [kind : {"chain"}, a : BufMutUpTo[d - 1], b : BufMutUpTo[d - 1]]
BufMut == BufMutUpTo[Depth]

RemainingMut[d \in BufMut] ==
    IF d.kind = "fixed" THEN Len(d.room)
    ELSE IF d.kind = "vec" THEN IsizeMax - Len(d.done)
    ELSE RemainingMut[d.a] + RemainingMut[d.b]

\* FAULT: the second half is written first
Side_Swapped(d) == IF RemainingMut[d.b] > 0 THEN "b" ELSE "a"
\* which half of a chain chunk_mut hands out
Side(d) == IF RemainingMut[d.a] > 0 THEN "a" ELSE "b"
OnSide(d, f) == IF Side(d) = "a" THEN Halves(f[d.a], d.b) ELSE Halves(d.a, f[d.b])

Enlarged(d, n) == [d EXCEPT !.room = @ \o Memory(n)]

\* chunk_mut: the cursor it leaves behind, a full Vec having grown
\* FAULT: a full Vec does not grow
VecOpened_Never(d) == d
VecOpened(d) == IF d.room = <<>> THEN Enlarged(d, Growth) ELSE d
Opened[d \in BufMut] ==
    IF d.kind = "fixed" THEN d
    ELSE IF d.kind = "vec" THEN VecOpened(d)
    ELSE OnSide(d, Opened)

\* a Vec cannot grow beyond isize::MAX: then chunk_mut panics
Opens(d) == Opened[d] \in BufMut

\* the length of the slice that chunk_mut returns
ChunkRoom[d \in BufMut] ==
    IF d.kind = "fixed" THEN Len(d.room)
    ELSE IF d.kind = "vec" THEN Len(VecOpened(d).room)
    ELSE IF Side(d) = "a" THEN ChunkRoom[d.a] ELSE ChunkRoom[d.b]

\* writing into that slice, which does not move the cursor
Poked[d \in BufMut] == [bytes \in Seq(Byte) |->
    IF d.kind # "chain"
    THEN [d EXCEPT !.room = bytes \o Skip(@, Len(bytes))]
    ELSE IF Side(d) = "a" THEN Halves(Poked[d.a][bytes], d.b) ELSE Halves(d.a, Poked[d.b][bytes])]

AdvanceMut[d \in BufMut] == [n \in Nat |->
    IF d.kind = "chain"
    THEN Halves(AdvanceMut[d.a][Least(RemainingMut[d.a], n)],
                AdvanceMut[d.b][Beyond(n, RemainingMut[d.a])])
    ELSE [kind |-> d.kind, done |-> d.done \o First(d.room, n), room |-> Skip(d.room, n)]]

\* `bytes` written into the chunk and the cursor moved past them
Filled(d, bytes) == AdvanceMut[Poked[Opened[d]][bytes]][Len(bytes)]

\* the bytes written so far, in the order of the memory
Written[d \in BufMut] ==
    IF d.kind = "chain" THEN Written[d.a] \o Written[d.b] ELSE d.done
=============================================================================
