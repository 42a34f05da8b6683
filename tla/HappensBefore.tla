---------------------------- MODULE HappensBefore ----------------------------
(***************************************************************************)
(* What the threads of SharedBuffer have seen of each other's accesses.    *)
(* The atomic operations of the crate are not sequentially consistent:     *)
(* each one names an Ordering, and only a Release that an Acquire reads,   *)
(* or the user passing a handle from thread to thread, makes the plain     *)
(* accesses of one thread happen before those of another.                  *)
(*                                                                         *)
(* This module adds that relation to SharedBuffer as history variables: it *)
(* takes the steps of SharedBuffer and says what each one makes visible.   *)
(* A view is a set of facts: a thread u in it means that u's latest access *)
(* to the buffer or to a Shared block is seen, a block b in it means that  *)
(* the initialisation of b is.  A new access is seen by nobody else.       *)
(*                                                                         *)
(* A Relaxed load may also return an old value.  Of the word: unpromoted,  *)
(* when it has been promoted; the compare-and-swap then fails, which is    *)
(* the same as having loaded earlier.  Of the count in is_unique: more     *)
(* than there is, which has the outcome of ReclaimFails; it cannot be less *)
(* because every handle that exists comes from one the caller knows.       *)
(*                                                                         *)
(* The copy that into_vec and into_mut make after their release (pc        *)
(* "copy") is not an access here: it is ordered with nothing, which        *)
(* CopyReadsLiveBuffer is about.                                           *)
(***************************************************************************)
EXTENDS SharedBuffer

VARIABLES
    view,           \* view[t]: what thread t has seen
    wordView,       \* wordView[h]: what a Release store left with the word of h
    refView,        \* refView[b]: what Release decrements left with the count
    backView        \* backView[h]: what those who gave h back had seen

orderVars == <<view, wordView, refView, backView>>
hbVars == <<vars, orderVars>>

Fact == Thread \cup Block

(* Facts about accesses and facts about blocks are different facts.        *)
ASSUME FactAssumption == Thread \cap Block = {}

ViewsOK ==
    /\ view \in [Thread -> SUBSET Fact]
    /\ wordView \in [Handle -> SUBSET Fact]
    /\ refView \in [Block -> SUBSET Fact]
    /\ backView \in [Handle -> SUBSET Fact]

(* Nobody has touched the buffer yet; a block that exists was made by the  *)
(* owner of the first handle.                                              *)
HBInit ==
    /\ Init
    /\ view = [t \in Thread |->
                 IF \E h \in Handle : t \in access[h] THEN Thread \cup heap ELSE Thread]
    /\ wordView = [h \in Handle |-> {}]
    /\ refView = [b \in Block |-> {}]
    /\ backView = [h \in Handle |-> {}]

-----------------------------------------------------------------------------
(* What a step makes visible.                                              *)

(* t now knows `know`, and the facts `new` are its own, unseen by others.  *)
Sees(t, know, new) ==
    view' = [u \in Thread |-> IF u = t THEN know \cup new ELSE view[u] \ new]

(* Facts that are new are not in any message either.                       *)
Outdate(f, new) == [x \in DOMAIN f |-> f[x] \ new]

(* An operation that leaves no message: a plain access or one that is      *)
(* Relaxed or only Acquire.                                                *)
Local(t, know, new) ==
    /\ Sees(t, know, new)
    /\ wordView' = Outdate(wordView, new)
    /\ refView' = Outdate(refView, new)
    /\ backView' = Outdate(backView, new)

(* To have a handle for oneself again is to have synchronised with all who *)
(* gave it back.                                                           *)
Owned(t, h) == view[t] \cup backView[h]

(* A call on `self` or `&mut self`: there is nothing left to learn from    *)
(* the handle, whoever gets it next gets it from t.                        *)
Exclusive(t, h, know, new) ==
    /\ Sees(t, know, new)
    /\ wordView' = [Outdate(wordView, new) EXCEPT ![h] = {}]
    /\ refView' = Outdate(refView, new)
    /\ backView' = [Outdate(backView, new) EXCEPT ![h] = {}]

(* FAULT: Relaxed where the code says Acquire.                           *)
AcquireWord_Relaxed(t, h) == view[t]

(* The Acquire of compare_exchange, on success and on failure.             *)
AcquireWord(t, h) == view[t] \cup wordView[h]

(* FAULT: Relaxed where the code says Acquire.                           *)
AcquireLast_Relaxed(t, b) == view[t]

(* load(Acquire) of the count after the decrement that was the last.       *)
AcquireLast(t, b) == view[t] \cup refView[b]

(* FAULT: Relaxed where the code says Acquire.                           *)
AcquireUnique_Relaxed(t, b) == {}

(* load(Acquire) of the count in is_unique.                                *)
AcquireUnique(t, b) == refView[b]

(* FAULT: Relaxed where the code says Release.                           *)
ReleaseCount_Relaxed(t, b) == refView[b] \ {t}

(* fetch_sub(Release): what t has seen, this access included, is added to  *)
(* what is there; an increment in between does not end the sequence.       *)
ReleaseCount(t, b) == refView[b] \cup view[t] \cup {t}

-----------------------------------------------------------------------------
(* The steps of SharedBuffer, by what they make visible.                   *)

(* clone_inner loads the word Relaxed: a promoted block is found, nothing  *)
(* is learnt.                                                              *)
LoadsWord(t, h) == ClonePromoted(t, h) /\ UNCHANGED orderVars

(* promote_with_vec: the block is written by t alone.                      *)
MakesBlock(t, h) ==
    /\ CloneUnpromoted(t, h)
    /\ Local(t, view[t], {box'[t]})

Installs(t) ==
    /\ Promote(t)
    /\ Sees(t, AcquireWord(t, cur[t]), {})
    /\ wordView' = [wordView EXCEPT ![cur[t]] = AcquireWord(t, cur[t])]
    /\ UNCHANGED <<refView, backView>>

FailsToInstall(t) ==
    /\ PromotionLost(t)
    /\ Local(t, AcquireWord(t, cur[t]), {})

(* fetch_add(Relaxed)                                                      *)
Increments(t) == Increment(t) /\ Local(t, view[t], {t})

Decrements(t) ==
    /\ Release(t) \/ ReleaseIntoVec(t)
    /\ Sees(t, view[t], {t})
    /\ wordView' = Outdate(wordView, {t})
    /\ backView' = Outdate(backView, {t})
    /\ refView' = [Outdate(refView, {t}) EXCEPT ![box[t]] = ReleaseCount(t, box[t])]

Disposes(t) ==
    /\ Free(t) \/ TakeVec(t) \/ TakeMut(t)
    /\ Sees(t, AcquireLast(t, box[t]), {})
    /\ refView' = [refView EXCEPT ![box[t]] = {}]
    /\ UNCHANGED <<wordView, backView>>

(* The bytes are moved within the buffer, or copied out of it.             *)
MovesBytes(t) ==
    /\ Reclaimed(t) \/ CopiedOut(t)
    /\ Local(t, view[t], {t})

Continues(t) == (ReclaimFails(t) \/ Copied(t)) /\ UNCHANGED orderVars

(* Calls on a handle that has no block, and a drop, which only decrements. *)
TakesHandle(t, h) ==
    /\ \/ DropUnpromoted(t, h)    \/ IntoVecUnpromoted(t, h)
       \/ FreezeEmpty(t, h)       \/ ReallocUnpromoted(t, h)
       \/ IntoMutUnpromoted(t, h) \/ FreezeInPlace(t, h)
       \/ DropPromoted(t, h)
    /\ Exclusive(t, h, Owned(t, h), {})

(* Calls that touch the block: fetch_add(Relaxed), or a read of its fields *)
TouchesBlock(t, h) ==
    /\ SplitPromoted(t, h) \/ IntoVecPromoted(t, h) \/ IntoMutPromoted(t, h)
    /\ Exclusive(t, h, Owned(t, h), {t})

(* Calls that make a block and store it in the word of their own handle.   *)
StoresBlock(t, h) ==
    /\ SplitUnpromoted(t, h) \/ FreezePromoting(t, h)
    /\ Exclusive(t, h, Owned(t, h), {word'[h]})

AsksUnique(t, h) ==
    /\ ReservePromoted(t, h)
    /\ Exclusive(t, h, Owned(t, h) \cup AcquireUnique(t, word[h]), {t})

-----------------------------------------------------------------------------
(* Steps that change nothing in SharedBuffer.                              *)

(* The bytes are read through a Bytes, or written through a BytesMut.      *)
Access(t, h) ==
    /\ MayBorrow(t, h)
    /\ Local(t, view[t], {t})
    /\ UNCHANGED vars

(* Bytes::is_unique through a reference: Relaxed for the word, Acquire for *)
(* the count.                                                              *)
Inspect(t, h) ==
    /\ MayBorrow(t, h) /\ kind[h] = "Bytes"
    /\ word[h] \in Block
    /\ Local(t, view[t] \cup AcquireUnique(t, word[h]), {t})
    /\ UNCHANGED vars

(* The user's own synchronisation: a thread that is given a handle or a    *)
(* reference sees what the giver has seen.                                 *)
Lends(t, u, h) ==
    /\ Lend(t, u, h)
    /\ view' = [view EXCEPT ![u] = @ \cup view[t]]
    /\ UNCHANGED <<wordView, refView, backView>>

Sends(t, u, h) ==
    /\ Send(t, u, h)
    /\ view' = [view EXCEPT ![u] = @ \cup Owned(t, h)]
    /\ wordView' = [wordView EXCEPT ![h] = {}]
    /\ backView' = [backView EXCEPT ![h] = {}]
    /\ UNCHANGED refView

GivesBack(t, h) ==
    /\ GiveBack(t, h)
    /\ backView' = [backView EXCEPT ![h] = @ \cup view[t]]
    /\ UNCHANGED <<view, wordView, refView>>

HBStep(t) ==
    \/ Installs(t)   \/ FailsToInstall(t) \/ Increments(t)
    \/ Decrements(t) \/ Disposes(t)
    \/ MovesBytes(t) \/ Continues(t)

HBCall(t, h) ==
    \/ LoadsWord(t, h)    \/ MakesBlock(t, h)
    \/ TakesHandle(t, h)  \/ TouchesBlock(t, h)
    \/ StoresBlock(t, h)  \/ AsksUnique(t, h)
    \/ Access(t, h)       \/ Inspect(t, h)
    \/ GivesBack(t, h)
    \/ \E u \in Thread : Lends(t, u, h) \/ Sends(t, u, h)

HBNext == \E t \in Thread : HBStep(t) \/ \E h \in Handle : HBCall(t, h)

HBSpec == HBInit /\ [][HBNext]_hbVars /\ \A t \in Thread : WF_hbVars(HBStep(t))

-----------------------------------------------------------------------------
(* Properties.                                                             *)

(* shared.rs:173 "use of the data happens before decreasing the reference  *)
(* count, which happens before this fence, which happens before the        *)
(* deletion of the data": whoever frees the buffer or takes it over as a   *)
(* Vec or BytesMut has seen every access of every thread, and the block it *)
(* reads the pointer and the capacity from.  The same for the owner of a   *)
(* handle without a count, who is about to do it without an atomic step.   *)
UsesBeforeDisposal ==
    /\ \A t \in Finishing : Thread \cup {box[t]} \subseteq AcquireLast(t, box[t])
    /\ \A t \in Thread, h \in Handle :
         word[h] = Unpromoted /\ access[h] = {t} => Thread \subseteq Owned(t, h)

(* shared.rs:133 "this `Acquire` will guarantee that those mutations are   *)
(* visible to the current thread": reserve_inner writes to the room that   *)
(* other handles had only after all their accesses, and reads the fields   *)
(* of the block only after they were written.                              *)
UsesBeforeReclaim ==
    \A t \in Thread : pc[t] = "reclaim" =>
        Thread \cup {word[cur[t]]} \subseteq view[t]

(* promote_ref dereferences the block of the thread that won the           *)
(* promotion: the Acquire of the failed compare_exchange makes it see the  *)
(* block's initialisation.                                                 *)
LoserSeesBlock ==
    \A t \in Thread : pc[t] = "release" /\ seen[t] # None => seen[t] \in view[t]

(* Why they hold: every access is known to somebody who still has to       *)
(* decrement, or has been left with the count.  The views below a handle   *)
(* are those of the threads that can reach it or have just consumed it,    *)
(* and what was seen by those who gave it back.                            *)
Carriers(h) == access[h] \cup {t \in Thread : cur[t] = h}

Known(h) == backView[h] \cup UNION {view[t] : t \in Carriers(h)}

SeesItself == \A t \in Thread : t \in view[t]

NothingLost ==
    /\ \A h \in Handle : word[h] = Unpromoted => Thread \subseteq Known(h)
    /\ \A b \in Block : HoldersOf(b) # {} =>
         Thread \cup {b} \subseteq refView[b] \cup UNION {Known(h) : h \in HoldersOf(b)}
    /\ \A t \in Finishing : Thread \cup {box[t]} \subseteq view[t] \cup refView[box[t]]

(* A thread has seen the block it is about to install.  If another one was *)
(* installed first, it is there to be acquired: the words of handles that  *)
(* are being cloned keep what their promotion left.                        *)
PromotionSeen ==
    \A t \in Thread : pc[t] = "cas" =>
        /\ box[t] \in view[t]
        /\ word[cur[t]] \in Block => word[cur[t]] \in AcquireWord(t, cur[t])

(* A call that has the handle for itself has learnt all there was to learn *)
(* from those who gave it back.                                            *)
NothingLeftBehind ==
    \A t \in Thread :
        HasConsumed(t) \/ pc[t] \in {"reclaim", "copyOut"} => backView[cur[t]] = {}

OrderInv ==
    /\ ViewsOK /\ SeesItself /\ NothingLost
    /\ PromotionSeen /\ NothingLeftBehind
    /\ UsesBeforeReclaim /\ LoserSeesBlock

-----------------------------------------------------------------------------
(* A statement of the source that the code does not keep.                  *)

(* shared.rs:146 "New references to an object can only be formed from an   *)
(* existing reference, and passing an existing reference from one thread   *)
(* to another must already provide any required synchronization": a thread *)
(* that is about to increment the count of a block has seen the block's    *)
(* initialisation.                                                         *)
IncrementSeesBlock ==
    \A t \in Thread : pc[t] = "incr" => seen[t] \in view[t]
=============================================================================
