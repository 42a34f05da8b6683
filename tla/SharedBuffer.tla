---------------------------- MODULE SharedBuffer ----------------------------
(***************************************************************************)
(* The concurrent life of one heap buffer of the tcio crate: the handles   *)
(* (Bytes and BytesMut) that own it, the Shared blocks that count them,    *)
(* and the threads that clone, split, convert and drop the handles.        *)
(*                                                                         *)
(* A handle has a one word `data` field.  While the handle is the only one *)
(* the word is tagged "unpromoted" and there is no counter.  The first     *)
(* clone allocates a Shared block with the counter and installs it in the  *)
(* word: with a compare-and-swap when the handle is only borrowed (other   *)
(* threads may be promoting it at the same time), with a plain store when  *)
(* it is borrowed mutably.                                                 *)
(*                                                                         *)
(* One action is one atomic operation of the code together with the thread *)
(* local work that precedes or follows it.  What Rust's ownership rules    *)
(* exclude is excluded here: a call on a borrowed handle (&Bytes) needs    *)
(* access to it, a call that consumes or mutates the handle needs to be    *)
(* the only one with access.                                               *)
(*                                                                         *)
(* Not in here: where in the buffer a handle points (see BytesViews), and  *)
(* handles with a null word (static data, empty results), which own        *)
(* nothing and never reach a counter.  A call that gives the handle a      *)
(* buffer of its own (a copy) takes the handle out of the model.           *)
(***************************************************************************)
EXTENDS Naturals, FiniteSets

CONSTANTS
    Thread,         \* the threads of the program
    Handle,         \* places a Bytes or BytesMut value can live in
    Block,          \* heap addresses a Shared block can be allocated at
    Unpromoted,     \* the word of a handle that has no Shared block
    None            \* no handle, no block

ASSUME FiniteAssumption == IsFiniteSet(Handle) /\ IsFiniteSet(Thread)

ASSUME DistinctAssumption ==
    /\ Unpromoted \notin Block
    /\ None \notin Block /\ None \notin Handle
    /\ Unpromoted # None

VARIABLES
    word,           \* word[h]: `data` of the handle, None where no handle lives
    kind,           \* kind[h]: "Bytes" or "BytesMut"
    access,         \* access[h]: the threads that own or borrow the handle;
                    \* {} once a call has consumed it (ManuallyDrop)
    heap,           \* the Shared blocks that are allocated
    ref,            \* ref[b]: Shared::ref_count
    buffer,         \* "live", "freed", or "taken" by the Vec into_vec returned
    pc,             \* pc[t]: what thread t does next
    cur,            \* cur[t]: the handle the call of t works on
    box,            \* box[t]: the Box<Shared> the call of t holds
    seen            \* seen[t]: the promoted block t is about to increment

vars == <<word, kind, access, heap, ref, buffer, pc, cur, box, seen>>

callVars == <<pc, cur, box, seen>>

PC == { "idle",
        "cas", "incr",                  \* Bytes::clone_inner
        "release", "free",              \* shared::release
        "intoVec", "takeVec",           \* Bytes::into_vec
        "intoMut", "takeMut",           \* Bytes::into_mut
        "copy",                         \* either, when the buffer is shared
        "reclaim", "copyOut" }          \* BytesMut::reserve_inner

TypeOK ==
    /\ word \in [Handle -> Block \cup {Unpromoted, None}]
    /\ kind \in [Handle -> {"Bytes", "BytesMut"}]
    /\ access \in [Handle -> SUBSET Thread]
    /\ heap \subseteq Block
    /\ ref \in [Block -> Nat]
    /\ buffer \in {"live", "freed", "taken"}
    /\ pc \in [Thread -> PC]
    /\ cur \in [Thread -> Handle \cup {None}]
    /\ box \in [Thread -> Block \cup {None}]
    /\ seen \in [Thread -> Block \cup {None}]

-----------------------------------------------------------------------------
(* Handles and blocks.                                                     *)

Holders == {h \in Handle : word[h] # None}

HoldersOf(b) == {h \in Handle : word[h] = b}

(* A place where a new handle can live: none lives there and no call is    *)
(* going to put one back.                                                  *)
Vacant == {h \in Handle \ Holders : \A t \in Thread : cur[t] # h}

(* t may pass the handle to a call that takes `&self`.                     *)
MayBorrow(t, h) == pc[t] = "idle" /\ t \in access[h]

(* t may pass the handle to a call that takes `self` or `&mut self`.       *)
MayConsume(t, h) == pc[t] = "idle" /\ access[h] = {t}

(* Threads in a clone that has yet to produce its handle.                  *)
Cloning == {t \in Thread : pc[t] \in {"cas", "incr"} \/ seen[t] # None}

(* BOUND: a clone or a split starts only while there is a place for its    *)
(* result.                                                                 *)
RoomToShare == Cardinality(Vacant) > Cardinality(Cloning)

(* FAULT: the handle that is cloned is not counted.                      *)
CloneCount_One == 1

(* The counts a Shared block is created with: by clone_inner, for the      *)
(* handle that is cloned and for the clone; by clone_inner_mut and         *)
(* shallow_clone, for the two halves; by Bytes::from_vec, for the handle.  *)
CloneCount == 2

(* FAULT: one of the two halves is not counted.                          *)
SplitCount_One == 1
SplitCount == 2

FromVecCount == 1

(* FAULT: the value after fetch_sub taken for the one before.            *)
WasLast_TwoLeft(b) == ref[b] \in {1, 2}
(* FAULT: the last reference is not noticed.                             *)
WasLast_Never(b) == FALSE

(* fetch_sub returned 1: this was the last reference.                      *)
WasLast(b) == ref[b] = 1

(* FAULT: another handle is overlooked.                                  *)
IsUnique_OffByOne(b) == ref[b] <= 2

(* shared::is_unique                                                       *)
IsUnique(b) == ref[b] = 1

Init ==
    \E h \in Handle, t \in Thread, k \in {"Bytes", "BytesMut"}, b \in Block :
        \E w \in {Unpromoted} \cup IF k = "Bytes" THEN {b} ELSE {} :
            /\ word = [x \in Handle |-> IF x = h THEN w ELSE None]
            /\ kind = [x \in Handle |-> IF x = h THEN k ELSE "Bytes"]
            /\ access = [x \in Handle |-> IF x = h THEN {t} ELSE {}]
            /\ heap = {w} \ {Unpromoted}
            /\ ref = [x \in Block |-> IF x = w THEN FromVecCount ELSE 0]
            /\ buffer = "live"
            /\ pc = [x \in Thread |-> "idle"]
            /\ cur = [x \in Thread |-> None]
            /\ box = [x \in Thread |-> None]
            /\ seen = [x \in Thread |-> None]

-----------------------------------------------------------------------------
(* Handles between threads.  Bytes is Sync: a reference to it can be given *)
(* to another thread.  Both types are Send.  A &BytesMut can be shared as  *)
(* well, but only reads its bytes, so it is not modelled.                  *)

Lend(t, u, h) ==
    /\ MayBorrow(t, h) /\ kind[h] = "Bytes"
    /\ u \notin access[h]
    /\ access' = [access EXCEPT ![h] = @ \cup {u}]
    /\ UNCHANGED <<word, kind, heap, ref, buffer, callVars>>

GiveBack(t, h) ==
    /\ MayBorrow(t, h)
    /\ access[h] # {t}
    /\ access' = [access EXCEPT ![h] = @ \ {t}]
    /\ UNCHANGED <<word, kind, heap, ref, buffer, callVars>>

Send(t, u, h) ==
    /\ MayConsume(t, h)
    /\ u # t
    /\ access' = [access EXCEPT ![h] = {u}]
    /\ UNCHANGED <<word, kind, heap, ref, buffer, callVars>>

-----------------------------------------------------------------------------
(* Calls: how they begin, go on and end.                                   *)

Begin(t, label, h, b, s) ==
    /\ pc' = [pc EXCEPT ![t] = label]
    /\ cur' = [cur EXCEPT ![t] = h]
    /\ box' = [box EXCEPT ![t] = b]
    /\ seen' = [seen EXCEPT ![t] = s]

Goto(t, label) ==
    /\ pc' = [pc EXCEPT ![t] = label]
    /\ UNCHANGED <<cur, box, seen>>

Return(t) == Begin(t, "idle", None, None, None)

(* shared::promote_with_vec                                                *)
Allocate(b, count) ==
    /\ b \in Block \ heap
    /\ heap' = heap \cup {b}
    /\ ref' = [ref EXCEPT ![b] = count]

(* A handle of kind k with word w comes into being, owned by t.            *)
NewHandle(t, n, k, w) ==
    /\ n \in Vacant
    /\ word' = [word EXCEPT ![n] = w]
    /\ kind' = [kind EXCEPT ![n] = k]
    /\ access' = [access EXCEPT ![n] = {t}]

-----------------------------------------------------------------------------
(* Bytes::clone, and Bytes::slice, which clones and narrows the clone.     *)

(* The word is read: unpromoted, so a Shared block is allocated ...        *)
CloneUnpromoted(t, h) ==
    /\ MayBorrow(t, h) /\ kind[h] = "Bytes" /\ RoomToShare
    /\ word[h] = Unpromoted
    /\ \E b \in Block :
        /\ Allocate(b, CloneCount)
        /\ Begin(t, "cas", h, b, None)
    /\ UNCHANGED <<word, kind, access, buffer>>

(* ... or promoted, so its counter will be incremented.                    *)
ClonePromoted(t, h) ==
    /\ MayBorrow(t, h) /\ kind[h] = "Bytes" /\ RoomToShare
    /\ word[h] \in Block
    /\ Begin(t, "incr", h, None, word[h])
    /\ UNCHANGED <<word, kind, access, heap, ref, buffer>>

(* FAULT: the word is stored without comparing.                          *)
CasWins_PlainStore(t) == TRUE

(* compare_exchange installs the block: both handles now have it.          *)
CasWins(t) == word[cur[t]] = Unpromoted

Promote(t) ==
    /\ pc[t] = "cas"
    /\ CasWins(t)
    /\ \E n \in Vacant :
        /\ word' = [word EXCEPT ![cur[t]] = box[t], ![n] = box[t]]
        /\ kind' = [kind EXCEPT ![n] = "Bytes"]
        /\ access' = [access EXCEPT ![n] = {t}]
    /\ Return(t)
    /\ UNCHANGED <<heap, ref, buffer>>

(* FAULT: compare_exchange in a loop, expecting the old word.            *)
PromotionLost_Retry(t) ==
    /\ pc[t] = "cas"
    /\ ~ CasWins(t)
    /\ UNCHANGED vars

(* compare_exchange fails: another thread has promoted the handle while    *)
(* this one was allocating.  The block of this thread goes to release, the *)
(* block of the other thread is the one to increment.                      *)
PromotionLost(t) ==
    /\ pc[t] = "cas"
    /\ ~ CasWins(t)
    /\ Begin(t, "release", cur[t], box[t], word[cur[t]])
    /\ UNCHANGED <<word, kind, access, heap, ref, buffer>>

(* shared::increment, and the clone is returned.                           *)
Increment(t) ==
    /\ pc[t] = "incr"
    /\ ref' = [ref EXCEPT ![seen[t]] = @ + 1]
    /\ \E n \in Handle : NewHandle(t, n, "Bytes", seen[t])
    /\ Return(t)
    /\ UNCHANGED <<heap, buffer>>

-----------------------------------------------------------------------------
(* Bytes::split_to / split_off (clone_inner_mut) and BytesMut::split_to /  *)
(* split_off (shallow_clone).  The handle is borrowed mutably, so its word *)
(* cannot change under the call: one atomic operation at most.             *)

SplitUnpromoted(t, h) ==
    /\ MayConsume(t, h) /\ RoomToShare
    /\ word[h] = Unpromoted
    /\ \E b \in Block, n \in Vacant :
        /\ Allocate(b, SplitCount)
        /\ word' = [word EXCEPT ![h] = b, ![n] = b]
        /\ kind' = [kind EXCEPT ![n] = kind[h]]
        /\ access' = [access EXCEPT ![n] = {t}]
    /\ UNCHANGED <<buffer, callVars>>

(* FAULT: split_to, split_off without the increment.                     *)
AddReference_Forgotten(b) == ref
AddReference(b) == [ref EXCEPT ![b] = @ + 1]

SplitPromoted(t, h) ==
    /\ MayConsume(t, h) /\ RoomToShare
    /\ word[h] \in Block
    /\ ref' = AddReference(word[h])
    /\ \E n \in Handle : NewHandle(t, n, kind[h], word[h])
    /\ UNCHANGED <<heap, buffer, callVars>>

-----------------------------------------------------------------------------
(* Dropping a handle; shared::release.                                     *)

(* The handle gives up its buffer, which had no counter.                   *)
LeaveUnpromoted(h, fate) ==
    /\ word[h] = Unpromoted
    /\ word' = [word EXCEPT ![h] = None]
    /\ access' = [access EXCEPT ![h] = {}]
    /\ buffer' = fate

DropUnpromoted(t, h) ==
    /\ MayConsume(t, h)
    /\ LeaveUnpromoted(h, "freed")
    /\ UNCHANGED <<kind, heap, ref, callVars>>

(* A call consumes a promoted handle and is about to decrement.            *)
ConsumePromoted(t, h, label) ==
    /\ MayConsume(t, h)
    /\ word[h] \in Block
    /\ access' = [access EXCEPT ![h] = {}]
    /\ Begin(t, label, h, word[h], None)
    /\ UNCHANGED <<word, kind, heap, ref, buffer>>

DropPromoted(t, h) == ConsumePromoted(t, h, "release")

(* What follows a release: nothing, or the increment of a clone that lost  *)
(* the promotion.                                                          *)
AfterRelease(t) ==
    IF seen[t] = None
    THEN Return(t)
    ELSE Begin(t, "incr", cur[t], None, seen[t])

(* fetch_sub.  The handle that was consumed holds nothing any more; a      *)
(* block that lost its promotion was in no handle.                         *)
Decrement(t) ==
    /\ ref' = [ref EXCEPT ![box[t]] = @ - 1]
    /\ word' = IF seen[t] = None
               THEN [word EXCEPT ![cur[t]] = None]
               ELSE word

Release(t) ==
    /\ pc[t] = "release"
    /\ Decrement(t)
    /\ IF WasLast(box[t]) THEN Goto(t, "free") ELSE AfterRelease(t)
    /\ UNCHANGED <<kind, access, heap, buffer>>

(* The buffer is deallocated, and then the Shared block.                   *)
Free(t) ==
    /\ pc[t] = "free"
    /\ buffer' = "freed"
    /\ heap' = heap \ {box[t]}
    /\ AfterRelease(t)
    /\ UNCHANGED <<word, kind, access, ref>>

-----------------------------------------------------------------------------
(* Bytes::into_vec and Bytes::into_mut; shared::release_into_vec.          *)

IntoVecUnpromoted(t, h) ==
    /\ MayConsume(t, h) /\ kind[h] = "Bytes"
    /\ LeaveUnpromoted(h, "taken")
    /\ UNCHANGED <<kind, heap, ref, callVars>>

IntoMutUnpromoted(t, h) ==
    /\ MayConsume(t, h) /\ kind[h] = "Bytes"
    /\ word[h] = Unpromoted
    /\ kind' = [kind EXCEPT ![h] = "BytesMut"]
    /\ UNCHANGED <<word, access, heap, ref, buffer, callVars>>

IntoVecPromoted(t, h) == kind[h] = "Bytes" /\ ConsumePromoted(t, h, "intoVec")

IntoMutPromoted(t, h) == kind[h] = "Bytes" /\ ConsumePromoted(t, h, "intoMut")

(* fetch_sub in release_into_vec: the last reference takes the buffer, any *)
(* other has given up its reference and copies afterwards.                 *)
ReleaseIntoVec(t) ==
    /\ pc[t] \in {"intoVec", "intoMut"}
    /\ Decrement(t)
    /\ IF WasLast(box[t])
       THEN Goto(t, IF pc[t] = "intoVec" THEN "takeVec" ELSE "takeMut")
       ELSE Begin(t, "copy", None, None, None)
    /\ UNCHANGED <<kind, access, heap, buffer>>

TakeVec(t) ==
    /\ pc[t] = "takeVec"
    /\ buffer' = "taken"
    /\ heap' = heap \ {box[t]}
    /\ Return(t)
    /\ UNCHANGED <<word, kind, access, ref>>

(* The Vec becomes an unpromoted BytesMut that owns the same buffer.       *)
TakeMut(t) ==
    /\ pc[t] = "takeMut"
    /\ heap' = heap \ {box[t]}
    /\ word' = [word EXCEPT ![cur[t]] = Unpromoted]
    /\ kind' = [kind EXCEPT ![cur[t]] = "BytesMut"]
    /\ access' = [access EXCEPT ![cur[t]] = {t}]
    /\ Return(t)
    /\ UNCHANGED <<ref, buffer>>

(* The bytes have been copied out; the call returns a buffer of its own.   *)
Copied(t) ==
    /\ pc[t] = "copy"
    /\ Return(t)
    /\ UNCHANGED <<word, kind, access, heap, ref, buffer>>

-----------------------------------------------------------------------------
(* BytesMut::freeze                                                        *)

Freezable(t, h) == MayConsume(t, h) /\ kind[h] = "BytesMut"

(* A promoted handle, or a full unpromoted one, keeps its word.            *)
FreezeInPlace(t, h) ==
    /\ Freezable(t, h)
    /\ kind' = [kind EXCEPT ![h] = "Bytes"]
    /\ UNCHANGED <<word, access, heap, ref, buffer, callVars>>

(* An unpromoted handle with spare capacity needs a block to remember it.  *)
FreezePromoting(t, h) ==
    /\ Freezable(t, h)
    /\ word[h] = Unpromoted
    /\ kind' = [kind EXCEPT ![h] = "Bytes"]
    /\ \E b \in Block :
        /\ Allocate(b, FromVecCount)
        /\ word' = [word EXCEPT ![h] = b]
    /\ UNCHANGED <<access, buffer, callVars>>

(* An unpromoted handle over an empty Vec frees it and becomes static.     *)
FreezeEmpty(t, h) ==
    /\ Freezable(t, h)
    /\ LeaveUnpromoted(h, "freed")
    /\ UNCHANGED <<kind, heap, ref, callVars>>

-----------------------------------------------------------------------------
(* BytesMut::reserve, try_reclaim: reserve_inner                           *)

(* Unpromoted, no room: the bytes are copied, the old buffer dropped.      *)
ReallocUnpromoted(t, h) ==
    /\ MayConsume(t, h) /\ kind[h] = "BytesMut"
    /\ LeaveUnpromoted(h, "freed")
    /\ UNCHANGED <<kind, heap, ref, callVars>>

(* Promoted: is_unique decides between the whole allocation and a copy.    *)
ReservePromoted(t, h) ==
    /\ MayConsume(t, h) /\ kind[h] = "BytesMut"
    /\ word[h] \in Block
    /\ Begin(t, IF IsUnique(word[h]) THEN "reclaim" ELSE "copyOut", h, None, None)
    /\ UNCHANGED <<word, kind, access, heap, ref, buffer>>

(* The leftover capacity was enough, or try_reclaim gives up.              *)
Reclaimed(t) ==
    /\ pc[t] = "reclaim"
    /\ Return(t)
    /\ UNCHANGED <<word, kind, access, heap, ref, buffer>>

(* It was not enough: reallocate.                                          *)
ReclaimFails(t) ==
    /\ pc[t] = "reclaim"
    /\ Goto(t, "copyOut")
    /\ UNCHANGED <<word, kind, access, heap, ref, buffer>>

(* The bytes have been copied; the handle moves to the new buffer and the  *)
(* old one is released.                                                    *)
CopiedOut(t) ==
    /\ pc[t] = "copyOut"
    /\ access' = [access EXCEPT ![cur[t]] = {}]
    /\ Begin(t, "release", cur[t], word[cur[t]], None)
    /\ UNCHANGED <<word, kind, heap, ref, buffer>>

-----------------------------------------------------------------------------
Call(t, h) ==
    \/ CloneUnpromoted(t, h)   \/ ClonePromoted(t, h)
    \/ SplitUnpromoted(t, h)   \/ SplitPromoted(t, h)
    \/ DropUnpromoted(t, h)    \/ DropPromoted(t, h)
    \/ IntoVecUnpromoted(t, h) \/ IntoVecPromoted(t, h)
    \/ IntoMutUnpromoted(t, h) \/ IntoMutPromoted(t, h)
    \/ FreezeInPlace(t, h)     \/ FreezePromoting(t, h) \/ FreezeEmpty(t, h)
    \/ ReallocUnpromoted(t, h) \/ ReservePromoted(t, h)

Step(t) ==
    \/ Promote(t)  \/ PromotionLost(t) \/ Increment(t)
    \/ Release(t)  \/ Free(t)
    \/ ReleaseIntoVec(t) \/ TakeVec(t) \/ TakeMut(t) \/ Copied(t)
    \/ Reclaimed(t) \/ ReclaimFails(t) \/ CopiedOut(t)

Pass(t, h) == GiveBack(t, h) \/ \E u \in Thread : Lend(t, u, h) \/ Send(t, u, h)

Next == \E t \in Thread : Step(t) \/ \E h \in Handle : Call(t, h) \/ Pass(t, h)

(* A thread that is inside a call is scheduled until the call returns.     *)
(* Nothing obliges a thread to make a call, or to drop a handle.           *)
Spec == Init /\ [][Next]_vars /\ \A t \in Thread : WF_vars(Step(t))
-----------------------------------------------------------------------------
(* Properties.                                                             *)

(* Threads whose decrement reached zero and that now dispose of the buffer *)
Finishing == {t \in Thread : pc[t] \in {"free", "takeVec", "takeMut"}}

(* No use after free: as long as a handle holds the buffer, the buffer has *)
(* been neither deallocated nor given away, and the block in the handle's  *)
(* word is allocated.  Behind it: the free in shared::release, the takes   *)
(* in release_into_vec, and the loser of a promotion in promote_ref, which *)
(* releases a block that points to the very same buffer.                   *)
HeldBufferIsLive ==
    Holders # {} =>
        /\ buffer = "live"
        /\ \A h \in Holders : word[h] \in heap \cup {Unpromoted}

(* The counter in the block that the handles share is their number, a      *)
(* handle that a call has consumed but not yet released included.  This is *)
(* what is_unique and both fetch_sub rely on.                              *)
CountIsExact ==
    \A h \in Holders :
        word[h] \in Block => ref[word[h]] = Cardinality(HoldersOf(word[h]))

(* Concurrent clones of one borrowed handle never leave two counters in    *)
(* use for one buffer, and a handle without a counter is the only one:     *)
(* otherwise two handles would each believe they are the last.             *)
OneCounter ==
    \A g, h \in Holders :
        /\ word[g] = word[h]
        /\ word[h] = Unpromoted => g = h

(* No double free: the thread that disposes of the buffer is the only one  *)
(* to do so, nobody holds the buffer any more, and buffer and block are    *)
(* still there to be disposed of.                                          *)
DisposedByOne ==
    \A t \in Finishing :
        /\ Finishing = {t}
        /\ Holders = {}
        /\ buffer = "live"
        /\ box[t] \in heap

(* After is_unique said yes, reserve_inner moves bytes around in the whole *)
(* allocation without any synchronisation: while it does, there must be no *)
(* other handle and no other thread that can reach this one.               *)
ReclaimIsExclusive ==
    \A t \in Thread : pc[t] = "reclaim" =>
        Holders = {cur[t]} /\ access[cur[t]] = {t}

(* The word of a handle that several threads can reach changes at most     *)
(* once, from unpromoted to a block: promote_ref increments through the    *)
(* word it read earlier, without reading it again.                         *)
PromotedOnce ==
    [][\A h \in Holders :
         Cardinality(access[h]) > 1 /\ word'[h] # word[h] =>
             word[h] = Unpromoted /\ word'[h] \in Block]_vars

(* Every call returns: there is no wait and no retry, whatever the other   *)
(* threads do.                                                             *)
CallsReturn == \A t \in Thread : pc[t] # "idle" ~> pc[t] = "idle"

(* A buffer nobody holds is deallocated or handed over, never forgotten.   *)
NeverForgotten == Holders = {} ~> (buffer # "live" \/ Holders # {})

(* The handles of a buffer behave as BufferOwnership promises.  A handle   *)
(* counts as a holder until the buffer is disposed of on its behalf.       *)
Ownership ==
    INSTANCE BufferOwnership WITH
        holders <- Holders \cup {cur[t] : t \in Finishing},
        buffer  <- buffer

ImplementsOwnership == Ownership!Spec

-----------------------------------------------------------------------------
(* Why the properties hold: an inductive invariant (SharedBuffer_proofs).  *)

(* Threads whose block is in no handle: it is not installed yet, or it     *)
(* lost the promotion and is about to be released.                         *)
HasPrivateBox(t) == pc[t] = "cas" \/ (pc[t] = "release" /\ seen[t] # None)

(* Threads that have consumed their handle and still count for it.         *)
HasConsumed(t) ==
    pc[t] \in {"intoVec", "intoMut"} \/ (pc[t] = "release" /\ seen[t] = None)

AccessInv == \A h \in Handle : access[h] # {} => word[h] # None

IdleInv(t) ==
    pc[t] \in {"idle", "copy"} => cur[t] = None /\ box[t] = None /\ seen[t] = None

(* The count of a private block stays 2: this is why the thread that lost  *)
(* the promotion does not free the buffer of the thread that won it.       *)
PrivateInv(t) ==
    HasPrivateBox(t) =>
        /\ cur[t] \in Handle /\ t \in access[cur[t]]
        /\ box[t] \in heap /\ ref[box[t]] = 2
        /\ \A h \in Handle : word[h] # box[t]
        /\ \A u \in Thread \ {t} : box[u] # box[t]
        /\ seen[t] # None => pc[t] = "release" /\ seen[t] = word[cur[t]]

IncrementInv(t) ==
    pc[t] = "incr" =>
        /\ cur[t] \in Handle /\ t \in access[cur[t]]
        /\ seen[t] \in Block /\ seen[t] = word[cur[t]]
        /\ box[t] = None

ConsumedInv(t) ==
    HasConsumed(t) =>
        /\ cur[t] \in Handle /\ access[cur[t]] = {}
        /\ box[t] \in Block /\ box[t] = word[cur[t]]
        /\ seen[t] = None
        /\ \A u \in Thread \ {t} : cur[u] # cur[t]

FinishingInv(t) ==
    t \in Finishing =>
        /\ cur[t] \in Handle
        /\ box[t] \in heap
        /\ seen[t] = None
        /\ buffer = "live"
        /\ \A h \in Handle : word[h] = None
        /\ \A u \in Thread \ {t} : u \notin Finishing

ReserveInv(t) ==
    pc[t] \in {"reclaim", "copyOut"} =>
        /\ cur[t] \in Handle /\ access[cur[t]] = {t}
        /\ word[cur[t]] \in Block
        /\ box[t] = None /\ seen[t] = None
        /\ pc[t] = "reclaim" => \A h \in Handle : word[h] # None => h = cur[t]

CallInv ==
    \A t \in Thread :
        /\ IdleInv(t) /\ PrivateInv(t) /\ IncrementInv(t)
        /\ ConsumedInv(t) /\ FinishingInv(t) /\ ReserveInv(t)

(* The counter is exact, and the state of every call is what it needs for  *)
(* the counter to stay exact.                                              *)
IndInv ==
    /\ TypeOK
    /\ HeldBufferIsLive
    /\ CountIsExact
    /\ OneCounter
    /\ AccessInv
    /\ CallInv

-----------------------------------------------------------------------------
(* Statements of the source that the code does not keep.                   *)

(* shared.rs:173 "use of the data happens before decreasing the reference  *)
(* count, which happens before this fence, which happens before the        *)
(* deletion of the data": a thread that still copies bytes out of the      *)
(* buffer (into_vec, into_mut) copies them out of a live buffer.           *)
CopyReadsLiveBuffer ==
    \A t \in Thread : pc[t] = "copy" => buffer = "live"

(* bytes.rs:802 "release the heap that failed the promotion": when all     *)
(* handles are gone and all calls have returned, no block is allocated.    *)
NoBlockLeaks ==
    (Holders = {} /\ \A t \in Thread : pc[t] = "idle") => heap = {}
=============================================================================
