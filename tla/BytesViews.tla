----------------------------- MODULE BytesViews -----------------------------
(***************************************************************************)
(* Bytes and BytesMut as views into heap allocations: pointers, lengths,   *)
(* capacities, the offset an unpromoted handle keeps in its tagged word,   *)
(* the Shared block of a promoted one, and the bytes themselves.           *)
(*                                                                         *)
(* One action is one whole method.  Calls do not overlap in this module:   *)
(* how they interleave is the subject of SharedBuffer.  An address is a    *)
(* number, memory is flat, and an allocation is an interval of it, so that *)
(* a wrong offset reads or frees the wrong bytes here as it would in the   *)
(* program.                                                                *)
(***************************************************************************)
EXTENDS Integers, Sequences, FiniteSets

CONSTANTS
    Handle,         \* places a Bytes, BytesMut or Vec can live in
    Block,          \* addresses of Shared blocks: 1..n
    Buffers,        \* how many heap allocations there can be at a time
    MaxCap,         \* BOUND: the largest allocation
    VecCaps,        \* BOUND: the capacities of the Vecs the user makes
    StaticLen,      \* BOUND: how many bytes of static data there are
    Gap,            \* bytes the allocator leaves between two allocations
    Growth,         \* bytes a full BytesMut reserves for chunk_mut (64 in the code)
    None            \* no handle, no block

ASSUME BoundsAssumption ==
    /\ Buffers \in Nat \ {0} /\ MaxCap \in Nat \ {0} /\ Gap \in Nat
    /\ Growth \in Nat \ {0}
    /\ Block \subseteq Nat /\ VecCaps \subseteq 0..MaxCap /\ StaticLen \in 0..MaxCap

VARIABLES
    hs,             \* hs[h]: the fields of the handle, or None
    heap,           \* heap.size[i]: size of allocation i, 0 when it is free;
                    \* heap.blk[b]: the fields of Shared block b, or None
    mem             \* mem[a]: the byte at address a

vars == <<hs, heap, mem>>

-----------------------------------------------------------------------------
(* Memory.  Allocation 0 is the program's static data.                     *)

(* No method looks at the bytes, so it is enough to follow one of them: at *)
(* most one byte the user writes is marked (any one), and all others are   *)
(* plain.  Junk is what nobody has written.                                *)
Plain == 0
Mark == 1
Junk == 2

Unmarked == \A a \in DOMAIN mem : mem[a] # Mark
ByteAt(i, m) == IF i = m THEN Mark ELSE Plain

Base(i) == i * (MaxCap + Gap)
Region(p, n) == p .. (p + n - 1)
Address == Region(0, (Buffers + 1) * (MaxCap + Gap))
Dangling == (Buffers + 1) * (MaxCap + Gap) + 1   \* pointer of an empty Vec

Least(S) == CHOOSE x \in S : \A y \in S : x <= y

FreeBuffers(H) == {i \in 1..Buffers : H.size[i] = 0}
FreeBlocks(H) == {b \in Block : H.blk[b] = None}

(* Vec::with_capacity(cap): the pointer, and the heap afterwards.          *)
CanAllocate(H, cap) == cap <= MaxCap /\ (cap = 0 \/ FreeBuffers(H) # {})
NewPtr(H, cap) == IF cap = 0 THEN Dangling ELSE Base(Least(FreeBuffers(H)))
Allocate(H, cap) ==
    IF cap = 0 THEN H ELSE [H EXCEPT !.size[Least(FreeBuffers(H))] = cap]

(* Dropping Vec::from_raw_parts(ptr, _, cap).                              *)
Deallocate(H, ptr, cap) ==
    IF cap = 0 THEN H
    ELSE [H EXCEPT !.size = [i \in DOMAIN @ |->
            IF i # 0 /\ Base(i) = ptr THEN 0 ELSE @[i]]]

(* The user writes n bytes from p on; byte m of them is the marked one.    *)
Written(M, p, n, m) ==
    [a \in DOMAIN M |-> IF a \in Region(p, n) THEN ByteAt(a - p + 1, m) ELSE M[a]]

(* ptr::copy: n bytes from p to q, which may overlap.                      *)
Read(M, a) == IF a \in DOMAIN M THEN M[a] ELSE Junk
CopyBytes(M, p, q, n) ==
    [a \in DOMAIN M |-> IF a \in Region(q, n) THEN Read(M, p + (a - q)) ELSE M[a]]

(* ptr::copy_nonoverlapping: anything may be the result of an overlap.     *)
CopyDisjoint(M, p, q, n) ==
    IF Region(p, n) \cap Region(q, n) = {}
    THEN CopyBytes(M, p, q, n)
    ELSE [a \in DOMAIN M |-> IF a \in Region(q, n) THEN Junk ELSE M[a]]

(* shared::promote_with_vec, shared::increment                             *)
Promote(H, b, ptr, cap, count) ==
    [H EXCEPT !.blk[b] = [ptr |-> ptr, cap |-> cap, ref |-> count]]
(* FAULT: an increment that is lost.                                     *)
Increment_Lost(H, b) == H
Increment(H, b) == [H EXCEPT !.blk[b].ref = @ + 1]

(* shared::release                                                         *)
Release(H, b) ==
    IF H.blk[b].ref # 1
    THEN [H EXCEPT !.blk[b].ref = @ - 1]
    ELSE [Deallocate(H, H.blk[b].ptr, H.blk[b].cap) EXCEPT !.blk[b] = None]

-----------------------------------------------------------------------------
(* Handles.  The word `data` of a handle: null, an offset (unpromoted), or *)
(* a Shared block.                                                         *)

Null == [tag |-> "null", n |-> 0]
Offset(n) == [tag |-> "offset", n |-> n]
InBlock(b) == [tag |-> "block", n |-> b]

BytesAt(ptr, len, data) ==
    [kind |-> "Bytes", ptr |-> ptr, len |-> len, cap |-> 0, data |-> data]
MutAt(ptr, len, cap, data) ==
    [kind |-> "BytesMut", ptr |-> ptr, len |-> len, cap |-> cap, data |-> data]
VecAt(ptr, len, cap) ==
    [kind |-> "Vec", ptr |-> ptr, len |-> len, cap |-> cap, data |-> Null]

HandleRecord ==
    [kind : {"Bytes", "BytesMut", "Vec"}, ptr : Nat, len : Nat, cap : Nat,
     data : [tag : {"null", "offset", "block"}, n : Nat]]
BlockRecord == [ptr : Nat, cap : Nat, ref : Nat]

(* There are finitely many places, and an empty one is told from a full.   *)
ASSUME PlacesAssumption ==
    /\ IsFiniteSet(Handle)
    /\ None \notin HandleRecord /\ None \notin BlockRecord

(* new_empty_with_ptr: the pointer of an empty view is never read again.   *)
Empty == BytesAt(Dangling, 0, Null)

Is(h, k) == hs[h] # None /\ hs[h].kind = k
Vacant(h) == hs[h] = None

Unpromoted(r) == r.data.tag = "offset"
Promoted(r) == r.data.tag = "block"

(* The Vec an unpromoted handle is rebuilt into: Bytes knows no capacity   *)
(* and takes its own end for the end of the allocation.                    *)
VecCap(r) == (IF r.kind = "Bytes" THEN r.len ELSE r.cap) + r.data.n
VecPtr(r) == r.ptr - r.data.n

(* Drop                                                                    *)
DropHandle(H, r) ==
    CASE r.kind = "Vec" -> Deallocate(H, r.ptr, r.cap)
      [] Unpromoted(r)  -> Deallocate(H, VecPtr(r), VecCap(r))
      [] Promoted(r)    -> Release(H, r.data.n)
      [] OTHER          -> H

(* clone_inner, clone_inner_mut, shallow_clone: the handle itself and its  *)
(* copy end up with the same fields; the heap remembers that they are two. *)
CanShare(H, r) == Unpromoted(r) => FreeBlocks(H) # {}
SharedData(H, r) == IF Unpromoted(r) THEN InBlock(Least(FreeBlocks(H))) ELSE r.data
SharedHandle(H, r) == [r EXCEPT !.data = SharedData(H, r)]
SharedHeap(H, r) ==
    CASE Unpromoted(r) ->
            Promote(H, Least(FreeBlocks(H)), VecPtr(r), VecCap(r), 2)
      [] Promoted(r) -> Increment(H, r.data.n)
      [] OTHER       -> H

(* advance_unchecked.  BytesMut may be advanced past its length.           *)
AdvanceData(r, n) == IF Unpromoted(r) THEN Offset(r.data.n + n) ELSE r.data
Advanced(r, n) ==
    [r EXCEPT !.ptr = @ + n,
              !.len = IF n <= @ THEN @ - n ELSE 0,
              !.cap = IF r.kind = "Bytes" THEN 0 ELSE @ - n,
              !.data = AdvanceData(r, n)]

(* FAULT: spare capacity forgotten.                                      *)
NeedsBlock_Never(v) == FALSE

(* Bytes::from_vec: a Vec with spare capacity is promoted at once, because *)
(* an unpromoted Bytes cannot express a tail.                              *)
NeedsBlock(v) == v.len # 0 /\ v.cap # v.len
CanFreeze(H, v) == NeedsBlock(v) => FreeBlocks(H) # {}
BytesFromVec(H, v) ==
    CASE v.len = 0     -> Empty
      [] NeedsBlock(v) -> BytesAt(v.ptr, v.len, InBlock(Least(FreeBlocks(H))))
      [] OTHER         -> BytesAt(v.ptr, v.len, Offset(0))
HeapFromVec(H, v) ==
    CASE v.len = 0     -> Deallocate(H, v.ptr, v.cap)
      [] NeedsBlock(v) -> Promote(H, Least(FreeBlocks(H)), v.ptr, v.cap, 1)
      [] OTHER         -> H

(* Memory after a call.  A byte that no handle shows any more is forgotten *)
(* (the static data stay): no method brings it back into view.             *)
Shows(r, a) == r # None /\ a \in Region(r.ptr, r.len)
Store(M) ==
    mem' = [a \in Address |->
              IF a < StaticLen \/ \E h \in Handle : Shows(hs'[h], a) THEN M[a] ELSE Junk]

Update(h, r) == hs' = [hs EXCEPT ![h] = r]
Update2(h, r, g, s) == hs' = [hs EXCEPT ![h] = r, ![g] = s]

Init ==
    /\ hs = [h \in Handle |-> None]
    /\ heap = [size |-> [i \in 0..Buffers |-> IF i = 0 THEN StaticLen ELSE 0],
               blk  |-> [b \in Block |-> None]]
    /\ \E m \in Region(0, StaticLen) \cup {Dangling} :
        mem = [a \in Address |-> IF a < StaticLen THEN ByteAt(a, m) ELSE Junk]

-----------------------------------------------------------------------------
(* Where handles come from.                                                *)

(* The user makes a Vec of `len` bytes and capacity `cap`; byte m, if any, *)
(* is the marked one.                                                      *)
NewVec(h, len, cap, m) ==
    /\ Vacant(h) /\ CanAllocate(heap, cap)
    /\ m \in 1..len => Unmarked
    /\ LET p == NewPtr(heap, cap) IN
        /\ Update(h, VecAt(p, len, cap))
        /\ Store(Written(mem, p, len, m))
    /\ heap' = Allocate(heap, cap)

FromStatic(h) ==
    /\ Vacant(h) /\ StaticLen > 0
    /\ Update(h, BytesAt(Base(0), StaticLen, Null))
    /\ UNCHANGED heap /\ Store(mem)

BytesFrom(h) ==
    /\ Is(h, "Vec") /\ CanFreeze(heap, hs[h])
    /\ Update(h, BytesFromVec(heap, hs[h]))
    /\ heap' = HeapFromVec(heap, hs[h])
    /\ Store(mem)

MutFromVec(v) == MutAt(v.ptr, v.len, v.cap, Offset(0))

MutFrom(h) ==
    /\ Is(h, "Vec")
    /\ Update(h, MutFromVec(hs[h]))
    /\ UNCHANGED heap /\ Store(mem)

Drop(h) ==
    /\ ~ Vacant(h)
    /\ Update(h, None)
    /\ heap' = DropHandle(heap, hs[h])
    /\ Store(mem)

-----------------------------------------------------------------------------
(* Bytes: views of h.                                                      *)

(* clone, of any handle: an empty one that has a block is counted too.     *)
Clone(h, g) ==
    /\ Is(h, "Bytes") /\ Vacant(g) /\ CanShare(heap, hs[h])
    /\ LET s == SharedHandle(heap, hs[h]) IN Update2(h, s, g, s)
    /\ heap' = SharedHeap(heap, hs[h])
    /\ Store(mem)

(* slice, slice_ref                                                        *)
Slice(h, g, i, j) ==
    /\ Is(h, "Bytes") /\ Vacant(g)
    /\ i <= j /\ j <= hs[h].len
    /\ LET r == hs[h] IN
        IF i = j
        THEN Update(g, Empty) /\ UNCHANGED heap
        ELSE /\ CanShare(heap, r)
             /\ LET s == SharedHandle(heap, r) IN
                Update2(h, s, g, [s EXCEPT !.ptr = @ + i, !.len = j - i])
             /\ heap' = SharedHeap(heap, r)
    /\ Store(mem)

(* try_split_off: h keeps the first n bytes, g gets the others.            *)
SplitOff(h, g, n) ==
    /\ Is(h, "Bytes") /\ Vacant(g) /\ n <= hs[h].len
    /\ LET r == hs[h] IN
        CASE n = r.len -> Update(g, Empty) /\ UNCHANGED heap
          [] n = 0 /\ n # r.len -> Update2(h, Empty, g, r) /\ UNCHANGED heap
          [] OTHER ->
               /\ CanShare(heap, r)
               /\ LET s == SharedHandle(heap, r) IN
                  Update2(h, [s EXCEPT !.len = n], g, Advanced(s, n))
               /\ heap' = SharedHeap(heap, r)
    /\ Store(mem)

(* try_split_to: g gets the first n bytes, h keeps the others.             *)
SplitTo(h, g, n) ==
    /\ Is(h, "Bytes") /\ Vacant(g) /\ n <= hs[h].len
    /\ LET r == hs[h] IN
        CASE n = r.len -> Update2(h, Empty, g, r) /\ UNCHANGED heap
          [] n = 0 /\ n # r.len -> Update(g, Empty) /\ UNCHANGED heap
          [] OTHER ->
               /\ CanShare(heap, r)
               /\ LET s == SharedHandle(heap, r) IN
                  Update2(h, Advanced(s, n), g, [s EXCEPT !.len = n])
               /\ heap' = SharedHeap(heap, r)
    /\ Store(mem)

(* truncate: a tail cannot be expressed while unpromoted, so the handle is *)
(* split and the tail dropped.                                             *)
TruncateTo(h, n) ==
    /\ n < hs[h].len
    /\ LET r == hs[h]
           s == SharedHandle(heap, r) IN
        CASE r.data = Null -> Update(h, [r EXCEPT !.len = n]) /\ UNCHANGED heap
          [] r.data # Null /\ n = 0 ->
                Update(h, Empty) /\ heap' = DropHandle(heap, r)
          [] OTHER ->
                /\ CanShare(heap, r)
                /\ Update(h, [s EXCEPT !.len = n])
                /\ heap' = DropHandle(SharedHeap(heap, r), Advanced(s, n))
    /\ Store(mem)

Truncate(h, n) == Is(h, "Bytes") /\ TruncateTo(h, n)

(* truncate_off: the last n bytes go.                                      *)
TruncateOff(h, n) ==
    /\ Is(h, "Bytes") /\ n <= hs[h].len
    /\ TruncateTo(h, hs[h].len - n)

Clear(h) ==
    /\ Is(h, "Bytes")
    /\ Update(h, Empty)
    /\ heap' = DropHandle(heap, hs[h])
    /\ Store(mem)

(* advance(n) of n bytes that are there, or io::Read::read into a buffer   *)
(* of n bytes, which may be more.                                          *)
ReadCount(r, n) == Least({n, r.len})
Advance(h, n) ==
    /\ Is(h, "Bytes")
    /\ Update(h, Advanced(hs[h], ReadCount(hs[h], n)))
    /\ UNCHANGED heap /\ Store(mem)

-----------------------------------------------------------------------------
(* Conversions.                                                            *)

(* Bytes::is_unique                                                        *)
IsUnique(H, r) == Unpromoted(r) \/ (Promoted(r) /\ H.blk[r.data.n].ref = 1)

(* as_slice().to_vec(), made after the reference has been given up.        *)
CopyToVec(h, toMut) ==
    LET r == hs[h]
        H == DropHandle(heap, r)
        v == VecAt(NewPtr(H, r.len), r.len, r.len) IN
    /\ CanAllocate(H, r.len)
    /\ Update(h, IF toMut THEN MutFromVec(v) ELSE v)
    /\ heap' = Allocate(H, r.len)
    /\ Store(CopyBytes(mem, r.ptr, v.ptr, r.len))

(* The allocation of a unique handle, and the heap without its block.      *)
OwnPtr(r) == IF Unpromoted(r) THEN VecPtr(r) ELSE heap.blk[r.data.n].ptr
OwnCap(r) == IF Unpromoted(r) THEN VecCap(r) ELSE heap.blk[r.data.n].cap
Disown(H, r) == IF Unpromoted(r) THEN H ELSE [H EXCEPT !.blk[r.data.n] = None]

(* into_vec: a Vec starts where its allocation starts, so the bytes of an  *)
(* advanced handle are moved down.                                         *)
ShiftDown(r) ==
    CASE r.ptr = OwnPtr(r) -> mem
      [] r.ptr # OwnPtr(r) /\ r.ptr - OwnPtr(r) >= r.len ->
            CopyDisjoint(mem, r.ptr, OwnPtr(r), r.len)
      [] OTHER -> CopyBytes(mem, r.ptr, OwnPtr(r), r.len)

IntoVec(h) ==
    /\ Is(h, "Bytes")
    /\ LET r == hs[h] IN
        IF IsUnique(heap, r)
        THEN /\ Update(h, VecAt(OwnPtr(r), r.len, OwnCap(r)))
             /\ heap' = Disown(heap, r)
             /\ Store(ShiftDown(r))
        ELSE CopyToVec(h, FALSE)

(* into_mut: BytesMut can start anywhere.  An unpromoted Bytes ends where  *)
(* its allocation ends; a promoted one may have a tail behind it.          *)
IntoMut(h) ==
    /\ Is(h, "Bytes")
    /\ LET r == hs[h]
           off == r.ptr - OwnPtr(r) IN
        IF IsUnique(heap, r)
        THEN /\ Update(h, MutAt(r.ptr, r.len, OwnCap(r) - off, Offset(off)))
             /\ heap' = Disown(heap, r)
             /\ Store(mem)
        ELSE CopyToVec(h, TRUE)

(* freeze: an unpromoted BytesMut goes through Vec and Bytes::from_vec,    *)
(* and is advanced again.                                                  *)
Freeze(h) ==
    /\ Is(h, "BytesMut")
    /\ LET r == hs[h]
           v == VecAt(VecPtr(r), r.len + r.data.n, VecCap(r)) IN
        IF Unpromoted(r)
        THEN /\ CanFreeze(heap, v)
             /\ Update(h, Advanced(BytesFromVec(heap, v), r.data.n))
             /\ heap' = HeapFromVec(heap, v)
        ELSE Update(h, BytesAt(r.ptr, r.len, r.data)) /\ UNCHANGED heap
    /\ Store(mem)

-----------------------------------------------------------------------------
(* BytesMut: views of h.                                                   *)

(* FAULT: the spare capacity is not given up.                            *)
SplitCap_Kept(r, n) == r.cap

(* try_split_to: g gets the first n bytes and no spare capacity.           *)
SplitCap(r, n) == n
MutSplitTo(h, g, n) ==
    /\ Is(h, "BytesMut") /\ Vacant(g) /\ n <= hs[h].len
    /\ CanShare(heap, hs[h])
    /\ LET s == SharedHandle(heap, hs[h]) IN
       Update2(h, Advanced(s, n), g, [s EXCEPT !.len = n, !.cap = SplitCap(s, n)])
    /\ heap' = SharedHeap(heap, hs[h])
    /\ Store(mem)

(* try_split_off: n may lie in the spare capacity.                         *)
SplitLen(r, n) == IF r.len <= n THEN r.len ELSE n
MutSplitOff(h, g, n) ==
    /\ Is(h, "BytesMut") /\ Vacant(g) /\ n <= hs[h].cap
    /\ CanShare(heap, hs[h])
    /\ LET s == SharedHandle(heap, hs[h]) IN
       Update2(h, [s EXCEPT !.cap = n, !.len = SplitLen(s, n)], g, Advanced(s, n))
    /\ heap' = SharedHeap(heap, hs[h])
    /\ Store(mem)

MutTruncate(h, n) ==
    /\ Is(h, "BytesMut") /\ n < hs[h].len
    /\ Update(h, [hs[h] EXCEPT !.len = n])
    /\ UNCHANGED heap /\ Store(mem)

MutTruncateOff(h, n) ==
    /\ Is(h, "BytesMut") /\ n <= hs[h].len
    /\ Update(h, [hs[h] EXCEPT !.len = @ - n])
    /\ UNCHANGED heap /\ Store(mem)

MutClear(h) ==
    /\ Is(h, "BytesMut")
    /\ Update(h, [hs[h] EXCEPT !.len = 0])
    /\ UNCHANGED heap /\ Store(mem)

MutAdvance(h, n) ==
    /\ Is(h, "BytesMut")
    /\ Update(h, Advanced(hs[h], ReadCount(hs[h], n)))
    /\ UNCHANGED heap /\ Store(mem)

(* Clone copies the bytes.                                                 *)
MutClone(h, g) ==
    /\ Is(h, "BytesMut") /\ Vacant(g) /\ CanAllocate(heap, hs[h].len)
    /\ LET p == NewPtr(heap, hs[h].len) IN
        /\ Update(g, MutAt(p, hs[h].len, hs[h].len, Offset(0)))
        /\ Store(CopyBytes(mem, hs[h].ptr, p, hs[h].len))
    /\ heap' = Allocate(heap, hs[h].len)

-----------------------------------------------------------------------------
(* BytesMut: gaining capacity (reserve_inner).                             *)

Spare(r) == r.cap - r.len
HeadOffset(r) == r.ptr - OwnPtr(r)

(* FAULT: the head offset is forgotten.                                  *)
WithTail_NoOffset(r) ==
    IF Promoted(r) /\ IsUnique(heap, r) THEN [r EXCEPT !.cap = OwnCap(r)] ELSE r
(* FAULT: taken although others view the allocation.                     *)
WithTail_Shared(r) ==
    IF Promoted(r) THEN [r EXCEPT !.cap = OwnCap(r) - HeadOffset(r)] ELSE r

(* A unique promoted handle takes the capacity that other handles have     *)
(* left behind it, whatever comes after.                                   *)
WithTail(r) ==
    IF Promoted(r) /\ IsUnique(heap, r)
    THEN [r EXCEPT !.cap = OwnCap(r) - HeadOffset(r)]
    ELSE r

(* Case 2: the tail gained is enough by itself.                            *)
TailSuffices(r, n) == WithTail(r).cap - r.cap >= n

(* FAULT: the length is not subtracted.                                  *)
HeadSuffices_WholeCap(r, n) ==
    /\ IsUnique(heap, r)
    /\ HeadOffset(r) + WithTail(r).cap >= n
    /\ HeadOffset(r) >= r.len
(* FAULT: an overlap is not excluded.                                    *)
HeadSuffices_Overlap(r, n) ==
    IsUnique(heap, r) /\ HeadOffset(r) + Spare(WithTail(r)) >= n

(* Case 1: the bytes fit, without overlap, in front of themselves.         *)
HeadSuffices(r, n) ==
    /\ IsUnique(heap, r)
    /\ HeadOffset(r) + Spare(WithTail(r)) >= n
    /\ HeadOffset(r) >= r.len

MovedDown(r) ==
    [r EXCEPT !.ptr = OwnPtr(r),
              !.cap = @ + HeadOffset(r),
              !.data = IF Unpromoted(r) THEN Offset(0) ELSE @]

(* FAULT: the bytes already held are forgotten.                          *)
NewCap_Double(r, n) == IF r.cap * 2 >= n THEN r.cap * 2 ELSE n
NewCap(r, n) == IF r.cap * 2 >= r.len + n THEN r.cap * 2 ELSE r.len + n

(* BOUND: a reallocation happens only within MaxCap and Buffers.           *)
CanReserve(r, n) ==
    \/ Spare(r) >= n \/ TailSuffices(r, n) \/ HeadSuffices(r, n)
    \/ CanAllocate(heap, NewCap(WithTail(r), n))

Outcome(r, H, M, ok) == [r |-> r, heap |-> H, mem |-> M, ok |-> ok]

ReserveInner(r, n, allocate) ==
    LET w == WithTail(r)
        cap == NewCap(w, n)
        ptr == NewPtr(heap, cap) IN
    CASE n = 0 -> Outcome(r, heap, mem, TRUE)
      [] n > 0 /\ Promoted(r) /\ TailSuffices(r, n) ->
            Outcome(w, heap, mem, TRUE)
      [] n > 0 /\ ~ TailSuffices(r, n) /\ HeadSuffices(r, n) ->
            Outcome(MovedDown(w), heap, CopyDisjoint(mem, r.ptr, OwnPtr(r), r.len), TRUE)
      [] n > 0 /\ ~ TailSuffices(r, n) /\ ~ HeadSuffices(r, n) /\ ~ allocate ->
            Outcome(w, heap, mem, FALSE)
      [] n > 0 /\ ~ TailSuffices(r, n) /\ ~ HeadSuffices(r, n) /\ allocate ->
            Outcome(MutAt(ptr, r.len, cap, Offset(0)),
                    DropHandle(Allocate(heap, cap), w),
                    CopyDisjoint(mem, r.ptr, ptr, r.len),
                    TRUE)

Reserved(r, n) ==
    IF Spare(r) >= n THEN Outcome(r, heap, mem, TRUE) ELSE ReserveInner(r, n, TRUE)

Becomes(h, o) == Update(h, o.r) /\ heap' = o.heap /\ Store(o.mem)

Reserve(h, n) ==
    /\ Is(h, "BytesMut") /\ CanReserve(hs[h], n)
    /\ Becomes(h, Reserved(hs[h], n))

Reclaimed(r, n) ==
    IF Spare(r) >= n THEN Outcome(r, heap, mem, TRUE) ELSE ReserveInner(r, n, FALSE)

TryReclaim(h, n) == Is(h, "BytesMut") /\ Becomes(h, Reclaimed(hs[h], n))

(* All the room that the allocation could give.                            *)
Leftover(r) ==
    IF Unpromoted(r) THEN r.data.n + Spare(r) ELSE heap.blk[r.data.n].cap - r.len

FullyReclaimed(r) == ReserveInner(r, Leftover(r), FALSE)

TryReclaimFull(h) == Is(h, "BytesMut") /\ Becomes(h, FullyReclaimed(hs[h]))

-----------------------------------------------------------------------------
(* BytesMut: writing.                                                      *)

(* extend_from_slice, put_slice: n bytes, byte m of them marked.           *)
Extend(h, n, m) ==
    /\ Is(h, "BytesMut") /\ CanReserve(hs[h], n)
    /\ m \in 1..n => Unmarked
    /\ LET o == Reserved(hs[h], n) IN
       Becomes(h, Outcome([o.r EXCEPT !.len = @ + n], o.heap,
                          Written(o.mem, o.r.ptr + o.r.len, n, m), TRUE))

(* chunk_mut, n bytes written into the chunk, by a socket for example, and *)
(* advance_mut(n).                                                         *)
Opened(r) == IF r.cap = r.len THEN Reserved(r, Growth) ELSE Outcome(r, heap, mem, TRUE)
FillChunk(h, n, m) ==
    /\ Is(h, "BytesMut")
    /\ hs[h].cap = hs[h].len => CanReserve(hs[h], Growth)
    /\ m \in 1..n => Unmarked
    /\ LET o == Opened(hs[h]) IN
        /\ n <= Spare(o.r)
        /\ Becomes(h, Outcome([o.r EXCEPT !.len = @ + n], o.heap,
                              Written(o.mem, o.r.ptr + o.r.len, n, m), TRUE))

(* The bytes of g are appended to h by copying, and g is dropped.          *)
AppendCopy(h, g) ==
    /\ CanReserve(hs[h], hs[g].len)
    /\ LET o == Reserved(hs[h], hs[g].len)
           s == hs[g] IN
        /\ Update2(h, [o.r EXCEPT !.len = @ + s.len], g, None)
        /\ heap' = DropHandle(o.heap, s)
        /\ Store(CopyDisjoint(o.mem, s.ptr, o.r.ptr + o.r.len, s.len))

(* h drops what it has and becomes g.                                      *)
Replace(h, g) ==
    /\ Update2(h, hs[g], g, None)
    /\ heap' = DropHandle(heap, hs[h])
    /\ Store(mem)

(* FAULT: ends compared at the capacity.                                 *)
Contiguous_Cap(r, s) == Promoted(r) /\ Promoted(s) /\ r.ptr + r.cap = s.ptr

(* try_unsplit: the handles touch, and both count on a block.              *)
Contiguous(r, s) == Promoted(r) /\ Promoted(s) /\ r.ptr + r.len = s.ptr

Merge(h, g) ==
    /\ Update2(h, [hs[h] EXCEPT !.len = @ + hs[g].len, !.cap = @ + hs[g].cap], g, None)
    /\ heap' = DropHandle(heap, hs[g])
    /\ Store(mem)

TryUnsplit(h, g) ==
    \/ /\ hs[g].cap = 0
       /\ Update(g, None)
       /\ heap' = DropHandle(heap, hs[g])
       /\ Store(mem)
    \/ hs[g].cap # 0 /\ Contiguous(hs[h], hs[g]) /\ Merge(h, g)

(* unsplit looks at the length first; try_unsplit, which is public too,    *)
(* does not.  When it fails, g is handed back as it was.                   *)
Unsplit(h, g) ==
    /\ Is(h, "BytesMut") /\ Is(g, "BytesMut") /\ h # g
    /\ \/ hs[h].len = 0 /\ Replace(h, g)
       \/ TryUnsplit(h, g)
       \/ /\ hs[h].len # 0 /\ hs[g].cap # 0 /\ ~ Contiguous(hs[h], hs[g])
          /\ AppendCopy(h, g)

(* BufMut::put with a Bytes or a BytesMut: a handle without capacity takes *)
(* over the allocation of a unique source, any other copies.  The view of  *)
(* a BytesMut is split off and frozen on the way, and the block that makes *)
(* is given up again: once the rest is dropped, who is unique and what it  *)
(* owns are as before.                                                     *)
TakeOver(h, g) ==
    LET r == hs[g]
        off == r.ptr - OwnPtr(r) IN
    /\ IsUnique(heap, r)
    /\ Update2(h, MutAt(r.ptr, r.len, OwnCap(r) - off, Offset(off)), g, None)
    /\ heap' = DropHandle(Disown(heap, r), hs[h])
    /\ Store(mem)

Put(h, g) ==
    /\ Is(h, "BytesMut") /\ h # g /\ (Is(g, "Bytes") \/ Is(g, "BytesMut"))
    /\ \/ /\ hs[g].len = 0
          /\ Update(g, None)
          /\ heap' = DropHandle(heap, hs[g])
          /\ Store(mem)
       \/ hs[g].len # 0 /\ hs[h].cap = 0 /\ TakeOver(h, g)
       \/ /\ hs[g].len # 0
          /\ hs[h].cap = 0 => ~ IsUnique(heap, hs[g])
          /\ AppendCopy(h, g)

-----------------------------------------------------------------------------
Length == 0..MaxCap

NextBytes(h) ==
    \/ FromStatic(h) \/ BytesFrom(h) \/ Clear(h) \/ IntoVec(h) \/ IntoMut(h)
    \/ \E n \in Length : Truncate(h, n) \/ TruncateOff(h, n) \/ Advance(h, n)
    \/ \E g \in Handle :
        \/ Clone(h, g)
        \/ \E n \in Length :
            \/ SplitOff(h, g, n) \/ SplitTo(h, g, n)
            \/ \E m \in Length : Slice(h, g, m, n)

NextBytesMut(h) ==
    \/ MutFrom(h) \/ Freeze(h) \/ MutClear(h) \/ TryReclaimFull(h)
    \/ \E n \in Length :
        \/ MutTruncate(h, n) \/ MutTruncateOff(h, n) \/ MutAdvance(h, n)
        \/ Reserve(h, n) \/ TryReclaim(h, n)
        \/ \E m \in 0..n : Extend(h, n, m) \/ FillChunk(h, n, m)
    \/ \E g \in Handle :
        \/ MutClone(h, g) \/ Unsplit(h, g) \/ Put(h, g)
        \/ \E n \in Length : MutSplitTo(h, g, n) \/ MutSplitOff(h, g, n)

Next ==
    \E h \in Handle :
        \/ Drop(h) \/ NextBytes(h) \/ NextBytesMut(h)
        \/ \E cap \in VecCaps : \E len \in 0..cap : \E m \in 0..len :
            NewVec(h, len, cap, m)

Spec == Init /\ [][Next]_vars

-----------------------------------------------------------------------------
(* Properties.                                                             *)

Live(i) == heap.size[i] > 0
Extent(h) == Region(hs[h].ptr, IF hs[h].kind = "Bytes" THEN hs[h].len ELSE hs[h].cap)
Handles == {h \in Handle : ~ Vacant(h)}
Blocks == {b \in Block : heap.blk[b] # None}

(* Every byte a handle may read or write lies in one allocation that has   *)
(* not been freed: as_slice, as_mut_slice and spare_capacity_mut build     *)
(* slices from raw parts and check nothing.  What has been written of a    *)
(* BytesMut or a Vec lies within its capacity.                             *)
ViewsInBounds ==
    \A h \in Handles :
        /\ hs[h].kind # "Bytes" => hs[h].len <= hs[h].cap
        /\ Extent(h) # {} =>
             \E i \in 0..Buffers :
                 Live(i) /\ Extent(h) \subseteq Region(Base(i), heap.size[i])

(* No other handle reaches a byte that a BytesMut may write, its spare     *)
(* capacity included: there is no lock, the bytes are simply divided.      *)
WritableIsExclusive ==
    \A h, g \in Handles :
        h # g /\ hs[h].kind = "BytesMut" => Extent(h) \cap Extent(g) = {}

(* What an allocation is freed with: every handle without a block, and     *)
(* every block, denotes the start and the size of exactly one allocation,  *)
(* and every allocation is denoted by one of them.  Vec::from_raw_parts    *)
(* in build_unpromoted_vec, original_buffer and release relies on it.      *)
Owners ==
    {<<"handle", h>> : h \in {x \in Handles : hs[x].kind = "Vec" \/ Unpromoted(hs[x])}}
    \cup {<<"block", b>> : b \in Blocks}

Claim(o) ==
    CASE o[1] = "block" -> <<heap.blk[o[2]].ptr, heap.blk[o[2]].cap>>
      [] o[1] = "handle" /\ hs[o[2]].kind = "Vec" -> <<hs[o[2]].ptr, hs[o[2]].cap>>
      [] OTHER -> <<VecPtr(hs[o[2]]), VecCap(hs[o[2]])>>

OwnedOnce ==
    LET claims == {o \in Owners : Claim(o)[2] # 0}
        allocated == {i \in 1..Buffers : Live(i)} IN
    /\ \A o \in claims : \E i \in allocated : Claim(o) = <<Base(i), heap.size[i]>>
    /\ \A o, p \in claims : Claim(o) = Claim(p) => o = p
    /\ Cardinality(claims) = Cardinality(allocated)

(* A block counts the handles that refer to it, whichever method made or   *)
(* dropped them; is_unique reads this number.                              *)
BlocksCount ==
    \A b \in Block :
        LET n == Cardinality({h \in Handles : hs[h].data = InBlock(b)}) IN
        IF heap.blk[b] = None THEN n = 0 ELSE n = heap.blk[b].ref /\ n > 0

(* The user sees independent vectors.                                      *)
Bytes(h) == [i \in 1..hs[h].len |-> Read(mem, hs[h].ptr + i - 1)]
Shown == [h \in Handle |-> IF Vacant(h) THEN None ELSE Bytes(h)]

Vectors ==
    INSTANCE ByteVectors WITH
        Byte   <- {Plain, Mark},
        MaxLen <- MaxCap,
        val    <- Shown

(* A place without a handle shows no vector, not even an empty one.        *)
ASSUME VectorsAssumption == None \notin Vectors!Vector

(* Whatever one handle does, the bytes of the others do not change, and    *)
(* its own change as its name says: although the views share allocations,  *)
(* move in them and take over room that others have left.                  *)
ImplementsVectors == Vectors!Spec

Muts == {h \in Handles : hs[h].kind = "BytesMut"}

(* reserve: "Reserves capacity for at least `additional` more bytes", in   *)
(* every state, by whichever of its cases: extend_from_slice and put then  *)
(* write that many bytes without looking.                                  *)
ReserveReserves ==
    \A h \in Muts, n \in Length :
        CanReserve(hs[h], n) => Spare(Reserved(hs[h], n).r) >= n

(* try_reclaim says yes only if the room is there; try_reclaim_full, only  *)
(* if the handle now spans its allocation from the first byte to the last. *)
ReclaimIsHonest ==
    \A h \in Muts :
        /\ \A n \in Length :
            Reclaimed(hs[h], n).ok => Spare(Reclaimed(hs[h], n).r) >= n
        /\ LET o == FullyReclaimed(hs[h]) IN
            o.ok => o.r.ptr = OwnPtr(hs[h]) /\ o.r.cap = OwnCap(hs[h])
=============================================================================
