----------------------------- MODULE GrowthLimit -----------------------------
(***************************************************************************)
(* One BytesMut that grows, with the arithmetic of a scaled-down usize:    *)
(* reserve, try_reclaim, try_reclaim_full and extend_from_slice, for       *)
(* requests of any size, in a debug build, where an overflow panics, and   *)
(* in a release build, where it wraps.                                     *)
(*                                                                         *)
(* BytesViews has what all the handles of an allocation do to its bytes;   *)
(* here are only the numbers of one of them.  Its allocation has `alloc`   *)
(* bytes and its pointer is `start` bytes into it: the code finds `start`  *)
(* in the tagged word `data` while the handle is unpromoted, and from the  *)
(* pointers afterwards.  unsplit, which joins two handles, is left to      *)
(* BytesViews.                                                             *)
(***************************************************************************)
EXTENDS Naturals

CONSTANT MaxAlloc       \* isize::MAX, which no slice exceeds

ASSUME MaxAllocAssumption == MaxAlloc \in Nat \ {0}

Usz == 0 .. 2 * MaxAlloc + 1
UszWrap(n) == n % (2 * MaxAlloc + 2)

(* The sizes of allocations: a Vec has at most isize::MAX bytes, and no    *)
(* allocator finds room for as many as that.                               *)
Sizes == 0 .. MaxAlloc - 1

VARIABLES
    build,          \* "debug" or "release"
    buf,            \* the handle: [promoted, unique, data, start, len, cap, alloc]
    asked,          \* `additional` of the last request that was granted
    phase           \* "reserved": a reserve has just returned; "extending": the one
                    \* of extend_from_slice has, and the bytes are copied next; "idle"

growVars == <<build, buf, asked, phase>>

BufType ==
    [promoted: BOOLEAN, unique: BOOLEAN, data: Usz,
     start: Sizes, len: Sizes, cap: Sizes, alloc: Sizes]

GrowTypeOK ==
    /\ build \in {"debug", "release"}
    /\ buf \in BufType
    /\ asked \in Usz
    /\ phase \in {"idle", "reserved", "extending"}

-----------------------------------------------------------------------------
(* The tagged word.                                                        *)

(* (value << 1) | DATA_UNPROMOTED; the assertion on the top bit is the     *)
(* guard of the actions that store a value.                                *)
MaskPayload(value) == UszWrap(value * 2) + 1
Masks(value) == value <= MaxAlloc
Payload(data) == data \div 2

(* into_unpromoted's Ok, or ptr.offset_from_unsigned(shared_ptr).          *)
Offset(b) == IF b.promoted THEN b.start ELSE Payload(b.data)

NewBuf(len, cap) ==
    [promoted |-> FALSE, unique |-> TRUE, data |-> MaskPayload(0),
     start |-> 0, len |-> len, cap |-> cap, alloc |-> cap]

GrowInit ==
    /\ build \in {"debug", "release"}
    /\ \E cap \in Sizes : \E len \in 0..cap : buf = NewBuf(len, cap)
    /\ asked = 0 /\ phase = "idle"

-----------------------------------------------------------------------------
(* reserve_inner                                                           *)

(* additional + self.cap <= isize::MAX, where the sum may have wrapped.    *)
AssertionHolds(b, n) ==
    IF build = "debug" THEN n + b.cap <= MaxAlloc
    ELSE UszWrap(n + b.cap) <= MaxAlloc

(* Case 2: the handle is alone and takes the rest of the allocation.       *)
TailOf(b) == b.alloc - (b.cap + Offset(b))
TakesTail(b) == IF b.promoted /\ b.unique THEN [b EXCEPT !.cap = @ + TailOf(b)] ELSE b
TailFits(b, n) == b.promoted /\ b.unique /\ TailOf(b) >= n

(* FAULT: the bytes that are there are counted as room.                  *)
HeadFits_WholeCap(b, n) ==
    /\ b.promoted => b.unique
    /\ Offset(b) + b.cap >= n
    /\ Offset(b) >= b.len

(* Case 1, of a handle that has taken its tail: the bytes go to the front. *)
HeadFits(b, n) ==
    /\ b.promoted => b.unique
    /\ Offset(b) + (b.cap - b.len) >= n
    /\ Offset(b) >= b.len

(* FAULT: the offset stays in the word.                                  *)
MovedToFront_KeepsPayload(b) == [b EXCEPT !.cap = @ + Offset(b), !.start = 0]

MovedToFront(b) ==
    [b EXCEPT !.cap = @ + Offset(b), !.start = 0,
              !.data = IF b.promoted THEN @ ELSE MaskPayload(0)]

(* max(self.cap * 2, len + additional); Vec::with_capacity does not return *)
(* when there is no such allocation.                                       *)
Wanted(b, n) ==
    LET sum == UszWrap(b.len + n) IN IF b.cap * 2 >= sum THEN b.cap * 2 ELSE sum

Reallocated(b, n) == {NewBuf(b.len, c) : c \in {a \in Sizes : a >= Wanted(b, n)}}

(* What can become of b when reserve_inner succeeds.                       *)
ReserveInner(b, n) ==
    LET t == TakesTail(b) IN
    IF n = 0 THEN {b}
    ELSE IF ~ AssertionHolds(b, n) THEN {}
    ELSE IF TailFits(b, n) THEN {t}
    ELSE IF HeadFits(t, n) THEN {MovedToFront(t)}
    ELSE Reallocated(t, n)

HasSpare(b, n) == b.cap - b.len >= n

Reserved(b, n) == IF HasSpare(b, n) THEN {b} ELSE ReserveInner(b, n)

(* Whether reserve_inner gets by without allocating.                       *)
Reclaims(b, n) == TailFits(b, n) \/ HeadFits(TakesTail(b), n)

-----------------------------------------------------------------------------
(* The methods.                                                            *)

(* reserve, and try_reclaim when it answers true                           *)
Reserve(n) ==
    /\ phase # "extending"
    /\ buf' \in Reserved(buf, n)
    /\ asked' = n /\ phase' = "reserved"
    /\ UNCHANGED build

(* reserve_inner answers false, or with_capacity panics: the tail has been *)
(* taken all the same.  A panic of the assertion has changed nothing.      *)
InnerFails(n) ==
    /\ n > 0 /\ AssertionHolds(buf, n) /\ ~ Reclaims(buf, n)
    /\ buf' = TakesTail(buf)
    /\ phase' = "idle"
    /\ UNCHANGED <<build, asked>>

(* so do reserve and try_reclaim                                           *)
ReserveFails(n) ==
    /\ phase # "extending" /\ ~ HasSpare(buf, n)
    /\ InnerFails(n)

(* try_reclaim_full: reserve_inner for all that is not bytes, without a    *)
(* look at the spare capacity.  It answers false when the bytes, which are *)
(* more than what is free before them, cannot be moved to the front.       *)
FullRoom(b) == IF b.promoted THEN b.alloc - b.len ELSE Offset(b) + (b.cap - b.len)
ReclaimFull ==
    /\ phase # "extending"
    /\ LET n == FullRoom(buf) IN
       \/ /\ n = 0 \/ Reclaims(buf, n)
          /\ buf' \in ReserveInner(buf, n)
          /\ asked' = n /\ phase' = "reserved"
          /\ UNCHANGED build
       \/ InnerFails(n)

(* extend_from_slice: the slice has at most isize::MAX bytes.              *)
ExtendReserves(n) ==
    /\ phase # "extending" /\ n <= MaxAlloc
    /\ buf' \in Reserved(buf, n)
    /\ asked' = n /\ phase' = "extending"
    /\ UNCHANGED build

ExtendCopies ==
    /\ phase = "extending"
    /\ buf' = [buf EXCEPT !.len = UszWrap(@ + asked)]
    /\ phase' = "idle"
    /\ UNCHANGED <<build, asked>>

(* truncate, truncate_off and clear                                        *)
Truncate(n) ==
    /\ phase # "extending" /\ n < buf.len
    /\ buf' = [buf EXCEPT !.len = n]
    /\ phase' = "idle"
    /\ UNCHANGED <<build, asked>>

(* advance_unchecked; its second assertion, offset + count < isize::MAX,   *)
(* holds because the allocation is smaller.                                *)
Advanced(b, n) ==
    [b EXCEPT !.data = IF b.promoted THEN @ ELSE MaskPayload(Offset(b) + n),
              !.start = @ + n, !.cap = @ - n,
              !.len = IF n > @ THEN 0 ELSE @ - n]

AdvanceOwn(n) ==
    /\ phase # "extending" /\ n > 0 /\ n <= buf.len
    /\ buf.promoted \/ Masks(Offset(buf) + n)
    /\ buf' = Advanced(buf, n)
    /\ phase' = "idle"
    /\ UNCHANGED <<build, asked>>

(* shallow_clone promotes: the Vec is original_buffer(offset), which the   *)
(* block takes pointer and capacity from.                                  *)
Promoted(b) ==
    [b EXCEPT !.promoted = TRUE, !.unique = FALSE, !.data = 0,
              !.start = IF b.promoted THEN @ ELSE Offset(b),
              !.alloc = IF b.promoted THEN @ ELSE b.cap + Offset(b)]

(* split_off leaves the front, which may reach into the spare capacity, to *)
(* this handle, split_to the rest.                                         *)
SplitOff(n) ==
    /\ phase # "extending" /\ n <= buf.cap
    /\ buf' = [Promoted(buf) EXCEPT !.cap = n, !.len = IF @ < n THEN @ ELSE n]
    /\ phase' = "idle"
    /\ UNCHANGED <<build, asked>>

SplitTo(n) ==
    /\ phase # "extending" /\ n <= buf.len
    /\ buf' = Advanced(Promoted(buf), n)
    /\ phase' = "idle"
    /\ UNCHANGED <<build, asked>>

(* The other handles of the allocation are dropped.                        *)
OthersGo ==
    /\ phase # "extending" /\ ~ buf.unique
    /\ buf' = [buf EXCEPT !.unique = TRUE]
    /\ phase' = "idle"
    /\ UNCHANGED <<build, asked>>

GrowNext ==
    \/ ExtendCopies \/ OthersGo \/ ReclaimFull
    \/ \E n \in Usz : Reserve(n) \/ ReserveFails(n) \/ ExtendReserves(n)
    \/ \E n \in Sizes : Truncate(n) \/ AdvanceOwn(n) \/ SplitOff(n) \/ SplitTo(n)

GrowSpec == GrowInit /\ [][GrowNext]_growVars

-----------------------------------------------------------------------------
(* bytes_mut.rs:215 "Reserves capacity for at least `additional` more      *)
(* bytes": so it does, on every path of reserve_inner, for every request   *)
(* in a debug build and for every one up to isize::MAX in a release build; *)
(* extend_from_slice, whose copy is not checked there, asks for no more.   *)
(* (A larger request can wrap in a release build, pass the assertion and   *)
(* come back with too little.)                                             *)
ReserveIsHonest ==
    phase # "idle" /\ (build = "debug" \/ asked <= MaxAlloc) => buf.len + asked <= buf.cap

(* bytes_mut.rs:204: original_buffer gives the Vec back with the pointer   *)
(* and the capacity it was made with, whatever has been stored in the word *)
(* and taken from it; the view of a block ends within it.                  *)
AllocationIsExact ==
    /\ Offset(buf) = buf.start
    /\ ~ buf.promoted => Offset(buf) + buf.cap = buf.alloc
    /\ buf.promoted => buf.start + buf.cap <= buf.alloc

GrowInv ==
    /\ GrowTypeOK
    /\ buf.len <= buf.cap
    /\ ~ buf.promoted => buf.data = buf.start * 2 + 1
    /\ AllocationIsExact
    /\ ReserveIsHonest
    /\ phase = "extending" => asked <= MaxAlloc
=============================================================================
