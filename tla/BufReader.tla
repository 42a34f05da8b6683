------------------------------ MODULE BufReader ------------------------------
(***************************************************************************)
(* A program that reads from a Buf put together from slices, chains and    *)
(* takes, with the methods of the trait.  copy_to_slice, on which all      *)
(* get_* and try_get_* of more than one byte rest, is a loop over the      *)
(* chunks of the source: one action per iteration.                         *)
(***************************************************************************)
EXTENDS Cursors

CONSTANTS
    Sources,    \* the cursors the program starts with
    IntSize,    \* size_of of the integer that is read
    Slots       \* BOUND: length of the slice given to chunks_vectored

ASSUME BufReaderAssumption ==
    /\ Sources \subseteq Buf
    /\ IntSize \in Nat \ {0}
    /\ Slots \in Nat

VARIABLES
    src,        \* the cursor
    got,        \* the bytes handed to the program, oldest first
    passed,     \* how many bytes it has asked to pass over: a history variable
    want,       \* bytes of dst that a running copy_to_slice still has to fill
    answer      \* how the last call of try_get_* ended: "some", "none" or "panic"

readVars == <<src, got, passed, want, answer>>

ReadInit ==
    /\ src \in Sources
    /\ got = <<>>
    /\ passed = 0
    /\ want = 0
    /\ answer = "some"

Idle == want = 0

\* advance
Advance(n) ==
    /\ Idle
    /\ src' = AdvanceBy[src][n]
    /\ passed' = passed + n
    /\ UNCHANGED <<got, want, answer>>

\* copy_to_slice, its assertion passed
CopyToSlice(n) ==
    /\ Idle
    /\ n <= Remaining[src]
    /\ want' = n
    /\ UNCHANGED <<src, got, passed, answer>>

\* FAULT: a chunk that dst can hold is copied but for its last byte
CopyCount_Short == IF Len(Chunk[src]) > want THEN want ELSE Len(Chunk[src]) - 1
\* one iteration of the loop of copy_to_slice
CopyCount == Least(Len(Chunk[src]), want)
CopyChunk ==
    /\ want > 0
    /\ got' = got \o First(Chunk[src], CopyCount)
    /\ src' = AdvanceBy[src][CopyCount]
    /\ want' = want - CopyCount
    /\ UNCHANGED <<passed, answer>>

\* copy_to_bytes, its assertion passed
CopyBytes(n) ==
    /\ Idle
    /\ n <= Remaining[src]
    /\ LET r == CopyToBytes[src][n] IN got' = got \o r.bytes /\ src' = r.rest
    /\ UNCHANGED <<passed, want, answer>>

\* try_get_u8, try_get_i8
TryGetByte ==
    /\ Idle
    /\ \/ /\ Chunk[src] = <<>>
          /\ answer' = "none"
          /\ UNCHANGED <<src, got>>
       \/ /\ Chunk[src] # <<>>
          /\ answer' = "some"
          /\ got' = Append(got, Head(Chunk[src]))
          /\ src' = AdvanceBy[src][1]
    /\ UNCHANGED <<passed, want>>

\* try_get_u16 and the like: copy_to_slice into an array of IntSize bytes, whose assertion
\* panics when fewer remain
TryGetInt ==
    /\ Idle
    /\ \/ /\ IntSize > Remaining[src]
          /\ answer' = "panic"
          /\ UNCHANGED want
       \/ /\ IntSize <= Remaining[src]
          /\ answer' = "some"
          /\ want' = IntSize
    /\ UNCHANGED <<src, got, passed>>

ReadNext ==
    \/ \E n \in 0..Remaining[src] : Advance(n) \/ CopyToSlice(n) \/ CopyBytes(n)
    \/ CopyChunk
    \/ TryGetByte
    \/ TryGetInt

ReadSpec == ReadInit /\ [][ReadNext]_readVars /\ WF_readVars(CopyChunk)

-----------------------------------------------------------------------------
(* Properties *)

\* The contract of remaining and chunk (buf.rs:79-104) for every way of putting cursors together
\* and every position: chunk is the front of what can be read, remaining counts it, and the chunk
\* is empty only when nothing remains. try_get_u8 and every loop over chunks rely on it.
ChunkKeepsContract ==
    /\ Remaining[src] = Len(Content[src])
    /\ IsPrefix(Chunk[src], Content[src])
    /\ Chunk[src] = <<>> => Remaining[src] = 0

\* The contract of chunks_vectored (buf.rs:124-143): whatever the number of slots, the slices
\* shown are, one after the other, the front of what can be read; none is empty, and there is at
\* least one if there is a slot and a byte.
VectoredKeepsContract ==
    \A slots \in 0..Slots :
        LET shown == ChunksVectored[src][slots]
        IN  /\ Len(shown) <= slots
            /\ IsPrefix(FlattenSeq(shown), Content[src])
            /\ \A i \in DOMAIN shown : shown[i] # <<>>
            /\ (slots > 0 /\ Remaining[src] > 0) => shown # <<>>

Stream == INSTANCE ByteStream WITH
    Messages <- {Content[c] : c \in Sources}, rest <- Content[src], out <- got

\* Whatever mixture of methods the program reads with, a chain is the concatenation of its parts
\* and a take is a prefix: every byte is handed over once, in order, and only an advance passes
\* over any, as many as it was asked to, also over the border of a chain (chain.rs:44-50).  In
\* particular a try_get_* that fails has consumed nothing (buf.rs:23-28).
ImplementsStream == Stream!Spec

\* The loop of copy_to_slice ends (buf.rs:179-187): no iteration makes no progress for ever.
CopyEnds == want > 0 ~> want = 0
=============================================================================
