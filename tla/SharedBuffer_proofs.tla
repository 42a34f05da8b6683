------------------------ MODULE SharedBuffer_proofs ------------------------
(***************************************************************************)
(* Proofs about SharedBuffer, for every finite set of threads and handles  *)
(* and every set of blocks: its inductive invariant IndInv holds in every  *)
(* reachable state, and the safety properties follow from it.              *)
(***************************************************************************)
EXTENDS SharedBuffer, FiniteSetTheorems, TLAPS

USE FiniteAssumption, DistinctAssumption

-----------------------------------------------------------------------------
(* Counting handles.                                                       *)

(* The handles of a block are finitely many.                               *)
LEMMA HoldersFinite ==
    ASSUME NEW b
    PROVE  /\ IsFiniteSet(HoldersOf(b))
           /\ Cardinality(HoldersOf(b)) \in Nat
<1>1. HoldersOf(b) \subseteq Handle
  BY DEF HoldersOf
<1>2. IsFiniteSet(HoldersOf(b))
  BY <1>1, FS_Subset
<1> QED
  BY <1>2, FS_CardinalityType

(* Two different handles are two handles.                                  *)
LEMMA PairCardinality ==
    ASSUME NEW x, NEW y, x # y
    PROVE  Cardinality({x} \cup {y}) = 2
<1> DEFINE S == {x}
<1>1. IsFiniteSet(S) /\ Cardinality(S) = 1 /\ y \notin S
  BY FS_Singleton
<1> HIDE DEF S
<1>2. Cardinality(S \cup {y}) = Cardinality(S) + 1
  BY <1>1, FS_AddElement
<1> QED
  BY <1>1, <1>2 DEF S

(* If the counter in a handle's block is 1, that handle is the only one.   *)
LEMMA SoleHolder ==
    ASSUME IndInv, NEW h \in Handle, word[h] \in Block, ref[word[h]] = 1
    PROVE  \A g \in Handle : word[g] # None => g = h
<1>1. Cardinality(HoldersOf(word[h])) = 1
  BY DEF IndInv, CountIsExact, Holders
<1>2. PICK x : HoldersOf(word[h]) = {x}
  BY <1>1, HoldersFinite, FS_Singleton
<1>3. \A g \in Handle : word[g] # None => g \in HoldersOf(word[h])
  BY DEF IndInv, OneCounter, Holders, HoldersOf
<1> QED
  BY <1>2, <1>3

(* A handle without a counter is the only one.                             *)
LEMMA UnpromotedAlone ==
    ASSUME IndInv, NEW h \in Handle, word[h] = Unpromoted
    PROVE  \A g \in Handle : word[g] # None => g = h
BY DEF IndInv, OneCounter, Holders

(* One more handle of block b.                                             *)
LEMMA OneMore ==
    ASSUME NEW b, NEW n \in Handle, word[n] # b,
           HoldersOf(b)' = HoldersOf(b) \cup {n}
    PROVE  Cardinality(HoldersOf(b))' = Cardinality(HoldersOf(b)) + 1
<1>1. n \notin HoldersOf(b)
  BY DEF HoldersOf
<1>2. Cardinality(HoldersOf(b) \cup {n}) = Cardinality(HoldersOf(b)) + 1
  BY <1>1, HoldersFinite, FS_AddElement
<1> QED
  BY <1>2

(* One handle of a block less.                                           *)
LEMMA OneLess ==
    ASSUME NEW b, NEW n \in Handle, word[n] = b,
           HoldersOf(b)' = HoldersOf(b) \ {n}
    PROVE  Cardinality(HoldersOf(b))' = Cardinality(HoldersOf(b)) - 1
<1>1. n \in HoldersOf(b)
  BY DEF HoldersOf
<1>2. Cardinality(HoldersOf(b) \ {n}) = Cardinality(HoldersOf(b)) - 1
  BY <1>1, HoldersFinite, FS_RemoveElement
<1> QED
  BY <1>2

-----------------------------------------------------------------------------
(* Who can be where.                                                       *)

(* While t is the only thread that can reach a handle, no other thread is  *)
(* inside a call on it.                                                    *)
LEMMA OnlyUser ==
    ASSUME IndInv, NEW t \in Thread, NEW h \in Handle, access[h] = {t}
    PROVE  \A u \in Thread \ {t} : cur[u] # h
<1>1. SUFFICES ASSUME NEW u \in Thread \ {t}, cur[u] = h
               PROVE  FALSE
  OBVIOUS
<1>2. TypeOK /\ AccessInv /\ CallInv
  BY DEF IndInv
<1>3. word[h] # None /\ h # None
  BY <1>2 DEF AccessInv
<1>4. pc[u] \notin {"idle", "copy"}
  BY <1>1, <1>2, <1>3 DEF CallInv, IdleInv
<1>5. ~ HasPrivateBox(u) /\ pc[u] # "incr"
  BY <1>1, <1>2 DEF CallInv, PrivateInv, IncrementInv
<1>6. ~ HasConsumed(u)
  BY <1>1, <1>2 DEF CallInv, ConsumedInv
<1>7. u \notin Finishing
  BY <1>1, <1>2, <1>3 DEF CallInv, FinishingInv
<1>8. pc[u] \notin {"reclaim", "copyOut"}
  BY <1>1, <1>2 DEF CallInv, ReserveInv
<1> QED
  BY <1>2, <1>4, <1>5, <1>6, <1>7, <1>8
     DEF TypeOK, PC, HasPrivateBox, HasConsumed, Finishing

(* A block that is not allocated is in no handle and in no call.           *)
LEMMA FreshBlock ==
    ASSUME IndInv, NEW b \in Block \ heap
    PROVE  /\ \A h \in Handle : word[h] # b
           /\ \A u \in Thread : box[u] # b
<1>1. TypeOK /\ AccessInv /\ CallInv
  BY DEF IndInv
<1>2. \A h \in Handle : word[h] # b
  BY DEF IndInv, HeldBufferIsLive, Holders
<1>3. ASSUME NEW u \in Thread
      PROVE  box[u] # b
  <2>1. CASE pc[u] \in {"idle", "copy", "incr", "reclaim", "copyOut"}
    BY <1>1, <2>1 DEF CallInv, IdleInv, IncrementInv, ReserveInv
  <2>2. CASE HasPrivateBox(u) \/ u \in Finishing
    BY <1>1, <2>2 DEF CallInv, PrivateInv, FinishingInv
  <2>3. CASE HasConsumed(u)
    BY <1>1, <1>2, <2>3 DEF CallInv, ConsumedInv
  <2> QED
    BY <1>1, <2>1, <2>2, <2>3
       DEF TypeOK, PC, HasPrivateBox, HasConsumed, Finishing
<1> QED
  BY <1>2, <1>3

-----------------------------------------------------------------------------
(* Passing handles between threads moves nothing but access rights.        *)

(* Changing who may reach handle h, without taking it away from a thread   *)
(* that is inside a call on it, preserves the invariant.                   *)
LEMMA AccessChange ==
    ASSUME IndInv, NEW t \in Thread, NEW h \in Handle, NEW A \in SUBSET Thread,
           MayBorrow(t, h),
           \A u \in access[h] : u = t \/ u \in A,
           access' = [access EXCEPT ![h] = A],
           UNCHANGED <<word, kind, heap, ref, buffer, callVars>>
    PROVE  IndInv'
<1> USE DEF callVars
<1>1. TypeOK /\ AccessInv /\ CallInv
  BY DEF IndInv
<1>2. TypeOK'
  BY <1>1 DEF TypeOK
<1>3. HeldBufferIsLive' /\ CountIsExact' /\ OneCounter'
  BY DEF IndInv, HeldBufferIsLive, CountIsExact, OneCounter, Holders, HoldersOf
<1>4. AccessInv'
  BY <1>1 DEF AccessInv, TypeOK, MayBorrow
<1>5. CallInv'
  <2> SUFFICES ASSUME NEW u \in Thread
               PROVE  /\ IdleInv(u)' /\ PrivateInv(u)' /\ IncrementInv(u)'
                      /\ ConsumedInv(u)' /\ FinishingInv(u)' /\ ReserveInv(u)'
    BY DEF CallInv
  <2> USE <1>1 DEF CallInv, TypeOK, MayBorrow
  <2>1. IdleInv(u)' /\ FinishingInv(u)'
    BY DEF IdleInv, FinishingInv, Finishing
  <2>2. PrivateInv(u)'
    BY DEF PrivateInv, HasPrivateBox
  <2>3. IncrementInv(u)'
    BY DEF IncrementInv
  <2>4. ConsumedInv(u)'
    BY DEF ConsumedInv, HasConsumed
  <2>5. ReserveInv(u)'
    BY DEF ReserveInv
  <2> QED
    BY <2>1, <2>2, <2>3, <2>4, <2>5
<1> QED
  BY <1>2, <1>3, <1>4, <1>5 DEF IndInv

(* Lending, giving back and sending a handle change only who may reach it.*)
LEMMA PassPreserves ==
    ASSUME IndInv, NEW t \in Thread, NEW h \in Handle, Pass(t, h)
    PROVE  IndInv'
<1>0. access \in [Handle -> SUBSET Thread]
  BY DEF IndInv, TypeOK
<1>1. CASE GiveBack(t, h)
  <2>1. access[h] \ {t} \in SUBSET Thread
    BY <1>0
  <2> QED
    BY <1>1, <2>1, AccessChange DEF GiveBack
<1>2. ASSUME NEW u \in Thread, Lend(t, u, h)
      PROVE  IndInv'
  <2>1. access[h] \cup {u} \in SUBSET Thread
    BY <1>0
  <2> QED
    BY <1>2, <2>1, AccessChange DEF Lend
<1>3. ASSUME NEW u \in Thread, Send(t, u, h)
      PROVE  IndInv'
  <2>1. MayBorrow(t, h) /\ access[h] = {t}
    BY <1>3 DEF Send, MayBorrow, MayConsume
  <2>2. {u} \in SUBSET Thread /\ \A v \in access[h] : v = t \/ v \in {u}
    BY <2>1
  <2> QED
    BY <1>3, <2>1, <2>2, AccessChange DEF Send
<1> QED
  BY <1>1, <1>2, <1>3 DEF Pass

-----------------------------------------------------------------------------
(* Steps that change neither a word nor a counter.                         *)

(* What is said of handles, counters and buffer is about these variables.  *)
LEMMA HandlesUnchanged ==
    ASSUME IndInv, UNCHANGED <<word, heap, ref, buffer>>
    PROVE  HeldBufferIsLive' /\ CountIsExact' /\ OneCounter'
BY DEF IndInv, HeldBufferIsLive, CountIsExact, OneCounter, Holders, HoldersOf

(* clone_inner has read a promoted word: it will increment the counter of*)
(* the block it read, which is the block of the borrowed handle.         *)
LEMMA ClonePromotedPreserves ==
    ASSUME IndInv, NEW t \in Thread, NEW h \in Handle, ClonePromoted(t, h)
    PROVE  IndInv'
<1> USE DEF ClonePromoted, Begin, MayBorrow
<1>1. TypeOK /\ AccessInv /\ CallInv
  BY DEF IndInv
<1>2. TypeOK'
  BY <1>1 DEF TypeOK, PC
<1>3. HeldBufferIsLive' /\ CountIsExact' /\ OneCounter'
  BY HandlesUnchanged
<1>4. AccessInv'
  BY <1>1 DEF AccessInv, TypeOK
<1>5. CallInv'
  <2> SUFFICES ASSUME NEW u \in Thread
               PROVE  /\ IdleInv(u)' /\ PrivateInv(u)' /\ IncrementInv(u)'
                      /\ ConsumedInv(u)' /\ FinishingInv(u)' /\ ReserveInv(u)'
    BY DEF CallInv
  <2> USE <1>1 DEF CallInv, TypeOK
  <2>1. IdleInv(u)'
    BY DEF IdleInv
  <2>2. PrivateInv(u)'
    BY DEF PrivateInv, HasPrivateBox
  <2>3. IncrementInv(u)'
    BY DEF IncrementInv
  <2>4. ConsumedInv(u)'
    BY DEF ConsumedInv, HasConsumed
  <2>5. FinishingInv(u)'
    BY DEF FinishingInv, Finishing
  <2>6. ReserveInv(u)'
    BY DEF ReserveInv
  <2> QED
    BY <2>1, <2>2, <2>3, <2>4, <2>5, <2>6
<1> QED
  BY <1>2, <1>3, <1>4, <1>5 DEF IndInv

(* A call has consumed its handle and is about to decrement the counter.   *)
LEMMA ConsumePreserves ==
    ASSUME IndInv, NEW t \in Thread, NEW h \in Handle, NEW label \in {"release", "intoVec", "intoMut"},
           ConsumePromoted(t, h, label)
    PROVE  IndInv'
<1> USE DEF ConsumePromoted, Begin, MayConsume
<1>1. TypeOK /\ AccessInv /\ CallInv
  BY DEF IndInv
<1>0. \A v \in Thread \ {t} : cur[v] # h
  BY OnlyUser
<1>2. TypeOK'
  BY <1>0, <1>1 DEF TypeOK, PC
<1>3. HeldBufferIsLive' /\ CountIsExact' /\ OneCounter'
  BY HandlesUnchanged
<1>4. AccessInv'
  BY <1>0, <1>1 DEF AccessInv, TypeOK
<1>5. CallInv'
  <2> SUFFICES ASSUME NEW u \in Thread
               PROVE  /\ IdleInv(u)' /\ PrivateInv(u)' /\ IncrementInv(u)'
                      /\ ConsumedInv(u)' /\ FinishingInv(u)' /\ ReserveInv(u)'
    BY DEF CallInv
  <2> USE <1>0, <1>1 DEF CallInv, TypeOK
  <2>1. IdleInv(u)'
    BY DEF IdleInv
  <2>2. PrivateInv(u)'
    BY DEF PrivateInv, HasPrivateBox
  <2>3. IncrementInv(u)'
    BY DEF IncrementInv
  <2>4. ConsumedInv(u)'
    BY DEF ConsumedInv, HasConsumed
  <2>5. FinishingInv(u)'
    BY DEF FinishingInv, Finishing
  <2>6. ReserveInv(u)'
    BY DEF ReserveInv
  <2> QED
    BY <2>1, <2>2, <2>3, <2>4, <2>5, <2>6
<1> QED
  BY <1>2, <1>3, <1>4, <1>5 DEF IndInv

(* is_unique read 1: by the exactness of the counter there is no other     *)
(* handle, and since t owns this one, none can come into being.            *)
LEMMA ReservePreserves ==
    ASSUME IndInv, NEW t \in Thread, NEW h \in Handle, ReservePromoted(t, h)
    PROVE  IndInv'
<1> USE DEF ReservePromoted, Begin, MayConsume, IsUnique
<1>1. TypeOK /\ AccessInv /\ CallInv
  BY DEF IndInv
<1>0. IsUnique(word[h]) => \A g \in Handle : word[g] # None => g = h
  BY SoleHolder
<1>2. TypeOK'
  BY <1>0, <1>1 DEF TypeOK, PC
<1>3. HeldBufferIsLive' /\ CountIsExact' /\ OneCounter'
  BY HandlesUnchanged
<1>4. AccessInv'
  BY <1>0, <1>1 DEF AccessInv, TypeOK
<1>5. CallInv'
  <2> SUFFICES ASSUME NEW u \in Thread
               PROVE  /\ IdleInv(u)' /\ PrivateInv(u)' /\ IncrementInv(u)'
                      /\ ConsumedInv(u)' /\ FinishingInv(u)' /\ ReserveInv(u)'
    BY DEF CallInv
  <2> USE <1>0, <1>1 DEF CallInv, TypeOK
  <2>1. IdleInv(u)'
    BY DEF IdleInv
  <2>2. PrivateInv(u)'
    BY DEF PrivateInv, HasPrivateBox
  <2>3. IncrementInv(u)'
    BY DEF IncrementInv
  <2>4. ConsumedInv(u)'
    BY DEF ConsumedInv, HasConsumed
  <2>5. FinishingInv(u)'
    BY DEF FinishingInv, Finishing
  <2>6. ReserveInv(u)'
    BY DEF ReserveInv
  <2> QED
    BY <2>1, <2>2, <2>3, <2>4, <2>5, <2>6
<1> QED
  BY <1>2, <1>3, <1>4, <1>5 DEF IndInv

(* into_mut and freeze that keep the handle's word.                        *)
LEMMA KindPreserves ==
    ASSUME IndInv, NEW t \in Thread, NEW h \in Handle, 
           IntoMutUnpromoted(t, h) \/ FreezeInPlace(t, h)
    PROVE  IndInv'
<1> USE DEF IntoMutUnpromoted, FreezeInPlace, Freezable, callVars
<1>1. TypeOK /\ AccessInv /\ CallInv
  BY DEF IndInv
<1>2. TypeOK'
  BY <1>1 DEF TypeOK, PC
<1>3. HeldBufferIsLive' /\ CountIsExact' /\ OneCounter'
  BY HandlesUnchanged
<1>4. AccessInv'
  BY <1>1 DEF AccessInv, TypeOK
<1>5. CallInv'
  <2> SUFFICES ASSUME NEW u \in Thread
               PROVE  /\ IdleInv(u)' /\ PrivateInv(u)' /\ IncrementInv(u)'
                      /\ ConsumedInv(u)' /\ FinishingInv(u)' /\ ReserveInv(u)'
    BY DEF CallInv
  <2> USE <1>1 DEF CallInv, TypeOK
  <2>1. IdleInv(u)'
    BY DEF IdleInv
  <2>2. PrivateInv(u)'
    BY DEF PrivateInv, HasPrivateBox
  <2>3. IncrementInv(u)'
    BY DEF IncrementInv
  <2>4. ConsumedInv(u)'
    BY DEF ConsumedInv, HasConsumed
  <2>5. FinishingInv(u)'
    BY DEF FinishingInv, Finishing
  <2>6. ReserveInv(u)'
    BY DEF ReserveInv
  <2> QED
    BY <2>1, <2>2, <2>3, <2>4, <2>5, <2>6
<1> QED
  BY <1>2, <1>3, <1>4, <1>5 DEF IndInv

(* compare_exchange failed: the block of this thread is still private, and*)
(* the word it read instead is the word of the borrowed handle.          *)
LEMMA PromotionLostPreserves ==
    ASSUME IndInv, NEW t \in Thread, PromotionLost(t)
    PROVE  IndInv'
<1> USE DEF PromotionLost, CasWins, Begin
<1>1. TypeOK /\ AccessInv /\ CallInv
  BY DEF IndInv
<1>0. /\ cur[t] \in Handle /\ word[cur[t]] \in Block /\ word[cur[t]] # None
      /\ box[t] # None /\ PrivateInv(t)
  BY <1>1 DEF CallInv, PrivateInv, HasPrivateBox, AccessInv, TypeOK
<1>2. TypeOK'
  BY <1>0, <1>1 DEF TypeOK, PC
<1>3. HeldBufferIsLive' /\ CountIsExact' /\ OneCounter'
  BY HandlesUnchanged
<1>4. AccessInv'
  BY <1>0, <1>1 DEF AccessInv, TypeOK
<1>5. CallInv'
  <2> SUFFICES ASSUME NEW u \in Thread
               PROVE  /\ IdleInv(u)' /\ PrivateInv(u)' /\ IncrementInv(u)'
                      /\ ConsumedInv(u)' /\ FinishingInv(u)' /\ ReserveInv(u)'
    BY DEF CallInv
  <2> USE <1>0, <1>1 DEF CallInv, TypeOK
  <2>1. IdleInv(u)'
    BY DEF IdleInv
  <2>2. PrivateInv(u)'
    BY DEF PrivateInv, HasPrivateBox
  <2>3. IncrementInv(u)'
    BY DEF IncrementInv
  <2>4. ConsumedInv(u)'
    BY DEF ConsumedInv, HasConsumed
  <2>5. FinishingInv(u)'
    BY DEF FinishingInv, Finishing
  <2>6. ReserveInv(u)'
    BY DEF ReserveInv
  <2> QED
    BY <2>1, <2>2, <2>3, <2>4, <2>5, <2>6
<1> QED
  BY <1>2, <1>3, <1>4, <1>5 DEF IndInv

(* reserve_inner has copied the bytes, and will release the old block.   *)
LEMMA CopiedOutPreserves ==
    ASSUME IndInv, NEW t \in Thread, CopiedOut(t)
    PROVE  IndInv'
<1> USE DEF CopiedOut, Begin
<1>1. TypeOK /\ AccessInv /\ CallInv
  BY DEF IndInv
<1>0. /\ cur[t] \in Handle /\ access[cur[t]] = {t} /\ word[cur[t]] \in Block
      /\ seen[t] = None /\ \A v \in Thread \ {t} : cur[v] # cur[t]
  BY <1>1, OnlyUser DEF CallInv, ReserveInv
<1>2. TypeOK'
  BY <1>0, <1>1 DEF TypeOK, PC
<1>3. HeldBufferIsLive' /\ CountIsExact' /\ OneCounter'
  BY HandlesUnchanged
<1>4. AccessInv'
  BY <1>0, <1>1 DEF AccessInv, TypeOK
<1>5. CallInv'
  <2> SUFFICES ASSUME NEW u \in Thread
               PROVE  /\ IdleInv(u)' /\ PrivateInv(u)' /\ IncrementInv(u)'
                      /\ ConsumedInv(u)' /\ FinishingInv(u)' /\ ReserveInv(u)'
    BY DEF CallInv
  <2> USE <1>0, <1>1 DEF CallInv, TypeOK
  <2>1. IdleInv(u)'
    BY DEF IdleInv
  <2>2. PrivateInv(u)'
    BY DEF PrivateInv, HasPrivateBox
  <2>3. IncrementInv(u)'
    BY DEF IncrementInv
  <2>4. ConsumedInv(u)'
    BY DEF ConsumedInv, HasConsumed
  <2>5. FinishingInv(u)'
    BY DEF FinishingInv, Finishing
  <2>6. ReserveInv(u)'
    BY DEF ReserveInv
  <2> QED
    BY <2>1, <2>2, <2>3, <2>4, <2>5, <2>6
<1> QED
  BY <1>2, <1>3, <1>4, <1>5 DEF IndInv

(* A call goes on, or returns, and nothing else changes.                   *)
LEMMA InsidePreserves ==
    ASSUME IndInv, NEW t \in Thread, Copied(t) \/ Reclaimed(t) \/ ReclaimFails(t)
    PROVE  IndInv'
<1> USE DEF Copied, Reclaimed, ReclaimFails, Begin, Return, Goto
<1>1. TypeOK /\ AccessInv /\ CallInv
  BY DEF IndInv
<1>2. TypeOK'
  BY <1>1 DEF TypeOK, PC
<1>3. HeldBufferIsLive' /\ CountIsExact' /\ OneCounter'
  BY HandlesUnchanged
<1>4. AccessInv'
  BY <1>1 DEF AccessInv, TypeOK
<1>5. CallInv'
  <2> SUFFICES ASSUME NEW u \in Thread
               PROVE  /\ IdleInv(u)' /\ PrivateInv(u)' /\ IncrementInv(u)'
                      /\ ConsumedInv(u)' /\ FinishingInv(u)' /\ ReserveInv(u)'
    BY DEF CallInv
  <2> USE <1>1 DEF CallInv, TypeOK
  <2>1. IdleInv(u)'
    BY DEF IdleInv
  <2>2. PrivateInv(u)'
    BY DEF PrivateInv, HasPrivateBox
  <2>3. IncrementInv(u)'
    BY DEF IncrementInv
  <2>4. ConsumedInv(u)'
    BY DEF ConsumedInv, HasConsumed
  <2>5. FinishingInv(u)'
    BY DEF FinishingInv, Finishing
  <2>6. ReserveInv(u)'
    BY DEF ReserveInv
  <2> QED
    BY <2>1, <2>2, <2>3, <2>4, <2>5, <2>6
<1> QED
  BY <1>2, <1>3, <1>4, <1>5 DEF IndInv

-----------------------------------------------------------------------------
(* Steps that allocate a block.                                            *)

(* clone_inner has read an unpromoted word and has allocated a block: it is*)
(* in no handle and in no other call, and it counts 2.                   *)
LEMMA CloneUnpromotedPreserves ==
    ASSUME IndInv, NEW t \in Thread, NEW h \in Handle, CloneUnpromoted(t, h)
    PROVE  IndInv'
<1> USE DEF CloneUnpromoted, Begin, MayBorrow, Allocate, CloneCount
<1>1. TypeOK /\ AccessInv /\ CallInv
  BY DEF IndInv
<1>0. PICK b \in Block \ heap :
         /\ Allocate(b, CloneCount) /\ Begin(t, "cas", h, b, None)
         /\ \A g \in Handle : word[g] # b
         /\ \A u \in Thread : box[u] # b
  BY FreshBlock
<1>2. TypeOK'
  BY <1>0, <1>1 DEF TypeOK, PC
<1>3. HeldBufferIsLive' /\ CountIsExact' /\ OneCounter'
  BY <1>0, <1>1 DEF IndInv, HeldBufferIsLive, CountIsExact, OneCounter, Holders,
                    HoldersOf, TypeOK
<1>4. AccessInv'
  BY <1>0, <1>1 DEF AccessInv, TypeOK
<1>5. CallInv'
  <2> SUFFICES ASSUME NEW u \in Thread
               PROVE  /\ IdleInv(u)' /\ PrivateInv(u)' /\ IncrementInv(u)'
                      /\ ConsumedInv(u)' /\ FinishingInv(u)' /\ ReserveInv(u)'
    BY DEF CallInv
  <2> USE <1>0, <1>1 DEF CallInv, TypeOK
  <2>1. IdleInv(u)'
    BY DEF IdleInv
  <2>2. PrivateInv(u)'
    BY DEF PrivateInv, HasPrivateBox
  <2>3. IncrementInv(u)'
    BY DEF IncrementInv
  <2>4. ConsumedInv(u)'
    BY DEF ConsumedInv, HasConsumed
  <2>5. FinishingInv(u)'
    BY DEF FinishingInv, Finishing
  <2>6. ReserveInv(u)'
    BY DEF ReserveInv
  <2> QED
    BY <2>1, <2>2, <2>3, <2>4, <2>5, <2>6
<1> QED
  BY <1>2, <1>3, <1>4, <1>5 DEF IndInv

(* A handle that was alone is promoted and split: its new block counts 2,*)
(* and there are two handles.                                            *)
LEMMA SplitUnpromotedPreserves ==
    ASSUME IndInv, NEW t \in Thread, NEW h \in Handle, SplitUnpromoted(t, h)
    PROVE  IndInv'
<1> USE DEF SplitUnpromoted, MayConsume, Freezable, Allocate, callVars, SplitCount
<1>1. TypeOK /\ AccessInv /\ CallInv
  BY DEF IndInv
<1>a. PICK b \in Block \ heap, n \in Vacant :
         /\ Allocate(b, SplitCount)
         /\ word' = [word EXCEPT ![h] = b, ![n] = b]
         /\ kind' = [kind EXCEPT ![n] = kind[h]]
         /\ access' = [access EXCEPT ![n] = {t}]
         /\ \A g \in Handle : word[g] # b
         /\ \A u \in Thread : box[u] # b
  BY FreshBlock
<1>b. /\ \A g \in Handle : word[g] # None => g = h
      /\ word[h] = Unpromoted /\ pc[t] = "idle"
      /\ \A v \in Thread \ {t} : cur[v] # h
  BY OnlyUser, UnpromotedAlone
<1>c. n \in Handle /\ word[n] = None /\ n # h /\ \A u \in Thread : cur[u] # n
  BY <1>a, <1>b DEF Vacant, Holders
<1>d. \A g \in Handle : word'[g] = IF g \in {h, n} THEN b ELSE None
  BY <1>a, <1>b, <1>c, <1>1 DEF TypeOK
<1>e. HoldersOf(b)' = {h} \cup {n}
  BY <1>c, <1>d, <1>1 DEF HoldersOf, TypeOK
<1>f. Cardinality(HoldersOf(b))' = SplitCount
  <2>1. Cardinality({h} \cup {n}) = 2
    BY <1>c, PairCardinality
  <2> QED
    BY <1>e, <2>1
<1>2. TypeOK'
  BY <1>a, <1>b, <1>c, <1>d, <1>1 DEF TypeOK, PC
<1>3. HeldBufferIsLive' /\ CountIsExact' /\ OneCounter'
  BY <1>a, <1>b, <1>d, <1>f, <1>1
     DEF IndInv, HeldBufferIsLive, CountIsExact, OneCounter, Holders, TypeOK
<1>4. AccessInv'
  BY <1>a, <1>b, <1>c, <1>d, <1>1 DEF AccessInv, TypeOK
<1>5. CallInv'
  <2> SUFFICES ASSUME NEW u \in Thread
               PROVE  /\ IdleInv(u)' /\ PrivateInv(u)' /\ IncrementInv(u)'
                      /\ ConsumedInv(u)' /\ FinishingInv(u)' /\ ReserveInv(u)'
    BY DEF CallInv
  <2> USE <1>a, <1>b, <1>c, <1>d, <1>1 DEF CallInv, TypeOK
  <2>1. IdleInv(u)'
    BY DEF IdleInv
  <2>2. PrivateInv(u)'
    BY DEF PrivateInv, HasPrivateBox
  <2>3. IncrementInv(u)'
    BY DEF IncrementInv
  <2>4. ConsumedInv(u)'
    BY DEF ConsumedInv, HasConsumed
  <2>5. FinishingInv(u)'
    BY DEF FinishingInv, Finishing
  <2>6. ReserveInv(u)'
    BY DEF ReserveInv
  <2> QED
    BY <2>1, <2>2, <2>3, <2>4, <2>5, <2>6
<1> QED
  BY <1>2, <1>3, <1>4, <1>5 DEF IndInv

(* A handle that was alone is frozen into one with a block that counts 1.*)
LEMMA FreezePromotingPreserves ==
    ASSUME IndInv, NEW t \in Thread, NEW h \in Handle, FreezePromoting(t, h)
    PROVE  IndInv'
<1> USE DEF FreezePromoting, MayConsume, Freezable, Allocate, callVars, FromVecCount
<1>1. TypeOK /\ AccessInv /\ CallInv
  BY DEF IndInv
<1>a. PICK b \in Block \ heap :
         /\ Allocate(b, FromVecCount)
         /\ word' = [word EXCEPT ![h] = b]
         /\ \A g \in Handle : word[g] # b
         /\ \A u \in Thread : box[u] # b
  BY FreshBlock
<1>b. /\ \A g \in Handle : word[g] # None => g = h
      /\ word[h] = Unpromoted /\ pc[t] = "idle"
      /\ \A v \in Thread \ {t} : cur[v] # h
  BY OnlyUser, UnpromotedAlone
<1>d. \A g \in Handle : word'[g] = IF g = h THEN b ELSE None
  BY <1>a, <1>b, <1>1 DEF TypeOK
<1>e. HoldersOf(b)' = {h}
  BY <1>d, <1>1 DEF HoldersOf, TypeOK
<1>f. Cardinality(HoldersOf(b))' = FromVecCount
  BY <1>e, FS_Singleton
<1>2. TypeOK'
  BY <1>a, <1>b, <1>d, <1>1 DEF TypeOK, PC
<1>3. HeldBufferIsLive' /\ CountIsExact' /\ OneCounter'
  BY <1>a, <1>b, <1>d, <1>f, <1>1
     DEF IndInv, HeldBufferIsLive, CountIsExact, OneCounter, Holders, TypeOK
<1>4. AccessInv'
  BY <1>a, <1>b, <1>d, <1>1 DEF AccessInv, TypeOK
<1>5. CallInv'
  <2> SUFFICES ASSUME NEW u \in Thread
               PROVE  /\ IdleInv(u)' /\ PrivateInv(u)' /\ IncrementInv(u)'
                      /\ ConsumedInv(u)' /\ FinishingInv(u)' /\ ReserveInv(u)'
    BY DEF CallInv
  <2> USE <1>a, <1>b, <1>d, <1>1 DEF CallInv, TypeOK
  <2>1. IdleInv(u)'
    BY DEF IdleInv
  <2>2. PrivateInv(u)'
    BY DEF PrivateInv, HasPrivateBox
  <2>3. IncrementInv(u)'
    BY DEF IncrementInv
  <2>4. ConsumedInv(u)'
    BY DEF ConsumedInv, HasConsumed
  <2>5. FinishingInv(u)'
    BY DEF FinishingInv, Finishing
  <2>6. ReserveInv(u)'
    BY DEF ReserveInv
  <2> QED
    BY <2>1, <2>2, <2>3, <2>4, <2>5, <2>6
<1> QED
  BY <1>2, <1>3, <1>4, <1>5 DEF IndInv

-----------------------------------------------------------------------------
(* Steps that add a handle.                                                *)

(* Incrementing the counter of a block while one of its handles is in      *)
(* reach, and making the new handle.                                       *)
LEMMA JoinPreserves ==
    ASSUME IndInv, NEW t \in Thread, NEW n \in Vacant, NEW k \in {"Bytes", "BytesMut"},
           NEW h \in Handle, t \in access[h], word[h] \in Block,
           ref' = [ref EXCEPT ![word[h]] = @ + 1],
           NewHandle(t, n, k, word[h]),
           \/ pc[t] = "idle" /\ UNCHANGED callVars
           \/ pc[t] = "incr" /\ Return(t),
           UNCHANGED <<heap, buffer>>
    PROVE  IndInv'
<1> USE DEF NewHandle, Begin, Return, callVars
<1>1. TypeOK /\ AccessInv /\ CallInv
  BY DEF IndInv
<1> PICK b : b = word[h]
  OBVIOUS
<1>a. /\ n \in Handle /\ word[n] = None /\ n # h
      /\ \A u \in Thread : cur[u] # n
      /\ b # None /\ b \in Block
  BY DEF Vacant, Holders
<1>b. \A u \in Thread : HasPrivateBox(u) => box[u] # b
  BY <1>1 DEF CallInv, PrivateInv
<1>c. word' = [word EXCEPT ![n] = b] /\ HoldersOf(b)' = HoldersOf(b) \cup {n}
  BY <1>a, <1>1 DEF HoldersOf, TypeOK
<1>d. Cardinality(HoldersOf(b))' = Cardinality(HoldersOf(b)) + 1
  BY <1>a, <1>c, OneMore
<1>e. /\ \A g \in Handle : word[g] # None => word[g] = b
      /\ ref[b] = Cardinality(HoldersOf(b)) /\ buffer = "live" /\ b \in heap
  BY <1>a DEF IndInv, OneCounter, CountIsExact, HeldBufferIsLive, Holders
<1>2. TypeOK'
  BY <1>a, <1>b, <1>c, <1>1 DEF TypeOK, PC
<1>f. /\ ref'[b] = Cardinality(HoldersOf(b))'
      /\ \A g \in Handle : word'[g] # None => word'[g] = b
  BY <1>a, <1>c, <1>d, <1>e, <1>1 DEF TypeOK
<1>3. HeldBufferIsLive' /\ CountIsExact' /\ OneCounter'
  BY <1>a, <1>e, <1>f DEF HeldBufferIsLive, CountIsExact, OneCounter, Holders
<1>4. AccessInv'
  BY <1>a, <1>b, <1>c, <1>1 DEF AccessInv, TypeOK
<1>5. CallInv'
  <2> SUFFICES ASSUME NEW u \in Thread
               PROVE  /\ IdleInv(u)' /\ PrivateInv(u)' /\ IncrementInv(u)'
                      /\ ConsumedInv(u)' /\ FinishingInv(u)' /\ ReserveInv(u)'
    BY DEF CallInv
  <2> USE <1>a, <1>b, <1>c, <1>1 DEF CallInv, TypeOK
  <2>1. IdleInv(u)'
    BY DEF IdleInv
  <2>2. PrivateInv(u)'
    BY DEF PrivateInv, HasPrivateBox
  <2>3. IncrementInv(u)'
    BY DEF IncrementInv
  <2>4. ConsumedInv(u)'
    BY DEF ConsumedInv, HasConsumed
  <2>5. FinishingInv(u)'
    BY DEF FinishingInv, Finishing
  <2>6. ReserveInv(u)'
    BY DEF ReserveInv
  <2> QED
    BY <2>1, <2>2, <2>3, <2>4, <2>5, <2>6
<1> QED
  BY <1>2, <1>3, <1>4, <1>5 DEF IndInv

(* shared::increment, and the clone is returned.                         *)
LEMMA IncrementPreserves ==
    ASSUME IndInv, NEW t \in Thread, Increment(t)
    PROVE  IndInv'
<1>1. /\ pc[t] = "incr"
      /\ cur[t] \in Handle /\ t \in access[cur[t]]
      /\ word[cur[t]] \in Block /\ seen[t] = word[cur[t]]
  BY DEF Increment, IndInv, CallInv, IncrementInv
<1>2. PICK n \in Vacant : NewHandle(t, n, "Bytes", seen[t])
  BY DEF Increment, NewHandle
<1> QED
  BY <1>1, <1>2, JoinPreserves DEF Increment

(* A promoted handle is split: the counter grows with the handles.       *)
LEMMA SplitPromotedPreserves ==
    ASSUME IndInv, NEW t \in Thread, NEW h \in Handle, SplitPromoted(t, h)
    PROVE  IndInv'
<1>1. /\ pc[t] = "idle" /\ t \in access[h] /\ word[h] \in Block
      /\ ref' = [ref EXCEPT ![word[h]] = @ + 1]
      /\ UNCHANGED <<heap, buffer>> /\ UNCHANGED callVars
  BY DEF SplitPromoted, MayConsume, AddReference
<1>2. PICK n \in Vacant : NewHandle(t, n, kind[h], word[h])
  BY DEF SplitPromoted, NewHandle
<1>3. kind[h] \in {"Bytes", "BytesMut"}
  BY DEF IndInv, TypeOK
<1> QED
  BY <1>1, <1>2, <1>3, JoinPreserves

(* The promotion that wins: the handle was the only one, its new block was *)
(* in no handle, and with the clone there are two.                         *)
LEMMA PromotePreserves ==
    ASSUME IndInv, NEW t \in Thread, Promote(t)
    PROVE  IndInv'
<1> USE DEF Promote, CasWins, Begin, Return
<1>1. TypeOK /\ AccessInv /\ CallInv
  BY DEF IndInv
<1> PICK h, b : h = cur[t] /\ b = box[t]
  OBVIOUS
<1>a. PICK n \in Vacant :
         /\ word' = [word EXCEPT ![h] = b, ![n] = b]
         /\ kind' = [kind EXCEPT ![n] = "Bytes"]
         /\ access' = [access EXCEPT ![n] = {t}]
  BY DEF Promote
<1>b. /\ h \in Handle /\ t \in access[h] /\ word[h] = Unpromoted
      /\ b \in Block /\ b \in heap /\ ref[b] = 2 /\ pc[t] = "cas"
      /\ \A g \in Handle : word[g] # b
      /\ \A u \in Thread \ {t} : box[u] # b
      /\ buffer = "live"
      /\ \A g \in Handle : word[g] # None => g = h
  BY <1>1, UnpromotedAlone
     DEF CallInv, PrivateInv, HasPrivateBox, TypeOK, IndInv, HeldBufferIsLive, Holders
<1>c. n \in Handle /\ word[n] = None /\ n # h /\ \A u \in Thread : cur[u] # n
  BY <1>b DEF Vacant, Holders
<1>d. \A g \in Handle : word'[g] = IF g \in {h, n} THEN b ELSE None
  BY <1>a, <1>b, <1>c, <1>1 DEF TypeOK
<1>e. HoldersOf(b)' = {h} \cup {n}
  BY <1>b, <1>c, <1>d, <1>1 DEF HoldersOf, TypeOK
<1>f. Cardinality(HoldersOf(b))' = 2
  <2>1. Cardinality({h} \cup {n}) = 2
    BY <1>c, PairCardinality
  <2> QED
    BY <1>e, <2>1
<1>2. TypeOK'
  BY <1>a, <1>b, <1>c, <1>d, <1>1 DEF TypeOK, PC
<1>3. HeldBufferIsLive' /\ CountIsExact' /\ OneCounter'
  BY <1>b, <1>d, <1>f, <1>1 DEF IndInv, HeldBufferIsLive, CountIsExact, OneCounter, Holders, TypeOK
<1>4. AccessInv'
  BY <1>a, <1>b, <1>c, <1>d, <1>1 DEF AccessInv, TypeOK
<1>5. CallInv'
  <2> SUFFICES ASSUME NEW u \in Thread
               PROVE  /\ IdleInv(u)' /\ PrivateInv(u)' /\ IncrementInv(u)'
                      /\ ConsumedInv(u)' /\ FinishingInv(u)' /\ ReserveInv(u)'
    BY DEF CallInv
  <2> USE <1>a, <1>b, <1>c, <1>d, <1>1 DEF CallInv, TypeOK
  <2>1. IdleInv(u)'
    BY DEF IdleInv
  <2>2. PrivateInv(u)'
    BY DEF PrivateInv, HasPrivateBox
  <2>3. IncrementInv(u)'
    BY DEF IncrementInv
  <2>4. ConsumedInv(u)'
    BY DEF ConsumedInv, HasConsumed
  <2>5. FinishingInv(u)'
    BY DEF FinishingInv, Finishing
  <2>6. ReserveInv(u)'
    BY DEF ReserveInv
  <2> QED
    BY <2>1, <2>2, <2>3, <2>4, <2>5, <2>6
<1> QED
  BY <1>2, <1>3, <1>4, <1>5 DEF IndInv

-----------------------------------------------------------------------------
(* Steps that take a handle away.                                          *)

(* A handle without a counter takes its buffer along: it was the only one. *)
LEMMA LeavePreserves ==
    ASSUME IndInv, NEW t \in Thread, NEW h \in Handle, NEW fate \in {"freed", "taken"},
           MayConsume(t, h), LeaveUnpromoted(h, fate),
           UNCHANGED <<kind, heap, ref, callVars>>
    PROVE  IndInv'
<1> USE DEF MayConsume, LeaveUnpromoted, callVars
<1>1. TypeOK /\ AccessInv /\ CallInv
  BY DEF IndInv
<1>a. \A g \in Handle : word'[g] = None
  BY <1>1, UnpromotedAlone DEF TypeOK
<1>b. /\ \A g \in Handle : word[g] # None => g = h
      /\ \A v \in Thread \ {t} : cur[v] # h
      /\ word[h] = Unpromoted
  BY UnpromotedAlone, OnlyUser
<1>2. TypeOK'
  BY <1>a, <1>b, <1>1 DEF TypeOK, PC
<1>3. HeldBufferIsLive' /\ CountIsExact' /\ OneCounter'
  BY <1>a DEF HeldBufferIsLive, CountIsExact, OneCounter, Holders
<1>4. AccessInv'
  BY <1>a, <1>b, <1>1 DEF AccessInv, TypeOK
<1>5. CallInv'
  <2> SUFFICES ASSUME NEW u \in Thread
               PROVE  /\ IdleInv(u)' /\ PrivateInv(u)' /\ IncrementInv(u)'
                      /\ ConsumedInv(u)' /\ FinishingInv(u)' /\ ReserveInv(u)'
    BY DEF CallInv
  <2> USE <1>a, <1>b, <1>1 DEF CallInv, TypeOK
  <2>1. IdleInv(u)'
    BY DEF IdleInv
  <2>2. PrivateInv(u)'
    BY DEF PrivateInv, HasPrivateBox
  <2>3. IncrementInv(u)'
    BY DEF IncrementInv
  <2>4. ConsumedInv(u)'
    BY DEF ConsumedInv, HasConsumed
  <2>5. FinishingInv(u)'
    BY DEF FinishingInv, Finishing
  <2>6. ReserveInv(u)'
    BY DEF ReserveInv
  <2> QED
    BY <2>1, <2>2, <2>3, <2>4, <2>5, <2>6
<1> QED
  BY <1>2, <1>3, <1>4, <1>5 DEF IndInv

(* The decrement for a handle that was consumed.  If the counter was 1, no *)
(* handle is left and this thread alone goes on to dispose of the buffer.  *)
LEMMA ReleaseOwnPreserves ==
    ASSUME IndInv, NEW t \in Thread, HasConsumed(t), Decrement(t),
           \/ /\ WasLast(box[t])
              /\ \E label \in {"free", "takeVec", "takeMut"} : Goto(t, label)
           \/ /\ ~ WasLast(box[t])
              /\ \E label \in {"idle", "copy"} : Begin(t, label, None, None, None),
           UNCHANGED <<kind, access, heap, buffer>>
    PROVE  IndInv'
<1> USE DEF Decrement, WasLast, Goto, Begin
<1>1. TypeOK /\ AccessInv /\ CallInv
  BY DEF IndInv
<1>0. PICK h, b : h = cur[t] /\ b = box[t]
  OBVIOUS
<1>a. /\ h \in Handle /\ b \in Block /\ word[h] = b /\ b # None
      /\ access[h] = {} /\ seen[t] = None
      /\ word' = [word EXCEPT ![h] = None] /\ ref' = [ref EXCEPT ![b] = @ - 1]
      /\ \A v \in Thread \ {t} : cur[v] # h
  BY <1>0, <1>1 DEF CallInv, ConsumedInv
<1>b. /\ buffer = "live" /\ b \in heap
      /\ \A g \in Handle : word[g] # None => word[g] = b
      /\ ref[b] = Cardinality(HoldersOf(b))
  BY <1>a DEF IndInv, HeldBufferIsLive, OneCounter, CountIsExact, Holders
<1>c. HoldersOf(b)' = HoldersOf(b) \ {h}
  BY <1>a, <1>1 DEF HoldersOf, TypeOK
<1>d. /\ ref[b] \in Nat \ {0}
      /\ Cardinality(HoldersOf(b))' = Cardinality(HoldersOf(b)) - 1
  <2>1. HoldersOf(b) # {}
    BY <1>a DEF HoldersOf
  <2>2. Cardinality(HoldersOf(b)) \in Nat /\ Cardinality(HoldersOf(b)) # 0
    BY <2>1, HoldersFinite, FS_EmptySet
  <2>3. Cardinality(HoldersOf(b))' = Cardinality(HoldersOf(b)) - 1
    BY <1>a, <1>c, OneLess
  <2> QED
    BY <1>b, <2>2, <2>3
<1>e. ref[b] = 1 => \A g \in Handle : word'[g] = None
  BY <1>a, <1>1, SoleHolder DEF TypeOK
<1>f. /\ ref'[b] = Cardinality(HoldersOf(b))'
      /\ ref' \in [Block -> Nat]
      /\ \A g \in Handle : word'[g] # None => word'[g] = b
  BY <1>a, <1>b, <1>d, <1>1 DEF TypeOK
<1>g. \A u \in Thread : HasPrivateBox(u) => box[u] # b
  BY <1>a, <1>1 DEF CallInv, PrivateInv
<1>h. Finishing = {}
  BY <1>a, <1>1 DEF CallInv, FinishingInv, Finishing
<1>2. TypeOK'
  BY <1>0, <1>a, <1>b, <1>e, <1>f, <1>g, <1>h, <1>1 DEF TypeOK, PC
<1>3. HeldBufferIsLive' /\ CountIsExact' /\ OneCounter'
  BY <1>a, <1>b, <1>f DEF HeldBufferIsLive, CountIsExact, OneCounter, Holders
<1>4. AccessInv'
  BY <1>0, <1>a, <1>b, <1>e, <1>f, <1>g, <1>h, <1>1 DEF AccessInv, TypeOK
<1>5. CallInv'
  <2> SUFFICES ASSUME NEW u \in Thread
               PROVE  /\ IdleInv(u)' /\ PrivateInv(u)' /\ IncrementInv(u)'
                      /\ ConsumedInv(u)' /\ FinishingInv(u)' /\ ReserveInv(u)'
    BY DEF CallInv
  <2> USE <1>0, <1>a, <1>b, <1>e, <1>f, <1>g, <1>h, <1>1 DEF CallInv, TypeOK
  <2>1. IdleInv(u)'
    BY DEF IdleInv
  <2>2. PrivateInv(u)'
    BY DEF PrivateInv, HasPrivateBox
  <2>3. IncrementInv(u)'
    BY DEF IncrementInv
  <2>4. ConsumedInv(u)'
    BY DEF ConsumedInv, HasConsumed
  <2>5. FinishingInv(u)'
    BY DEF FinishingInv, Finishing
  <2>6. ReserveInv(u)'
    BY DEF ReserveInv
  <2> QED
    BY <2>1, <2>2, <2>3, <2>4, <2>5, <2>6
<1> QED
  BY <1>2, <1>3, <1>4, <1>5 DEF IndInv

(* The release of a block that lost its promotion: its counter goes from 2 *)
(* to 1, so the buffer of the handle is not freed with it.                 *)
LEMMA ReleasePrivatePreserves ==
    ASSUME IndInv, NEW t \in Thread, Release(t), seen[t] # None
    PROVE  IndInv'
<1> USE DEF Release, Decrement, WasLast, AfterRelease, Goto, Begin
<1>1. TypeOK /\ AccessInv /\ CallInv
  BY DEF IndInv
<1>a. /\ cur[t] \in Handle /\ t \in access[cur[t]]
      /\ box[t] \in Block /\ ref[box[t]] = 2
      /\ \A h \in Handle : word[h] # box[t]
      /\ \A u \in Thread \ {t} : box[u] # box[t]
      /\ seen[t] \in Block /\ seen[t] = word[cur[t]]
  BY <1>1 DEF CallInv, PrivateInv, HasPrivateBox, TypeOK
<1>b. /\ ref' = [ref EXCEPT ![box[t]] = 1] /\ word' = word
      /\ Begin(t, "incr", cur[t], None, seen[t])
  BY <1>a, <1>1 DEF TypeOK
<1>2. TypeOK'
  BY <1>a, <1>b, <1>1 DEF TypeOK, PC
<1>3. HeldBufferIsLive' /\ CountIsExact' /\ OneCounter'
  BY <1>a, <1>b, <1>1
     DEF IndInv, HeldBufferIsLive, CountIsExact, OneCounter, Holders, HoldersOf, TypeOK
<1>4. AccessInv'
  BY <1>a, <1>b, <1>1 DEF AccessInv, TypeOK
<1>5. CallInv'
  <2> SUFFICES ASSUME NEW u \in Thread
               PROVE  /\ IdleInv(u)' /\ PrivateInv(u)' /\ IncrementInv(u)'
                      /\ ConsumedInv(u)' /\ FinishingInv(u)' /\ ReserveInv(u)'
    BY DEF CallInv
  <2> USE <1>a, <1>b, <1>1 DEF CallInv, TypeOK
  <2>1. IdleInv(u)'
    BY DEF IdleInv
  <2>2. PrivateInv(u)'
    BY DEF PrivateInv, HasPrivateBox
  <2>3. IncrementInv(u)'
    BY DEF IncrementInv
  <2>4. ConsumedInv(u)'
    BY DEF ConsumedInv, HasConsumed
  <2>5. FinishingInv(u)'
    BY DEF FinishingInv, Finishing
  <2>6. ReserveInv(u)'
    BY DEF ReserveInv
  <2> QED
    BY <2>1, <2>2, <2>3, <2>4, <2>5, <2>6
<1> QED
  BY <1>2, <1>3, <1>4, <1>5 DEF IndInv

(* shared::release, for a handle or for a block that lost its promotion. *)
LEMMA ReleasePreserves ==
    ASSUME IndInv, NEW t \in Thread, Release(t)
    PROVE  IndInv'
<1>1. CASE seen[t] # None
  BY <1>1, ReleasePrivatePreserves
<1>2. CASE seen[t] = None
  BY <1>2, ReleaseOwnPreserves
     DEF Release, HasConsumed, AfterRelease, Return
<1> QED
  BY <1>1, <1>2

(* shared::release_into_vec                                              *)
LEMMA ReleaseIntoVecPreserves ==
    ASSUME IndInv, NEW t \in Thread, ReleaseIntoVec(t)
    PROVE  IndInv'
BY ReleaseOwnPreserves DEF ReleaseIntoVec, HasConsumed

(* The last reference frees the buffer, or turns it into a Vec.            *)
LEMMA DisposePreserves ==
    ASSUME IndInv, NEW t \in Thread, Free(t) \/ TakeVec(t)
    PROVE  IndInv'
<1> USE DEF Free, TakeVec, AfterRelease, Return, Begin
<1>1. TypeOK /\ AccessInv /\ CallInv
  BY DEF IndInv
<1>a. /\ cur[t] \in Handle /\ box[t] \in heap /\ seen[t] = None
      /\ buffer = "live"
      /\ \A h \in Handle : word[h] = None
      /\ \A u \in Thread \ {t} : u \notin Finishing
  BY <1>1 DEF CallInv, FinishingInv, Finishing
<1>b. \A h \in Handle : access[h] = {}
  BY <1>a, <1>1 DEF AccessInv
<1>2. TypeOK'
  BY <1>a, <1>b, <1>1 DEF TypeOK, PC
<1>3. HeldBufferIsLive' /\ CountIsExact' /\ OneCounter'
  BY <1>a DEF HeldBufferIsLive, CountIsExact, OneCounter, Holders
<1>4. AccessInv'
  BY <1>a, <1>b, <1>1 DEF AccessInv, TypeOK
<1>5. CallInv'
  <2> SUFFICES ASSUME NEW u \in Thread
               PROVE  /\ IdleInv(u)' /\ PrivateInv(u)' /\ IncrementInv(u)'
                      /\ ConsumedInv(u)' /\ FinishingInv(u)' /\ ReserveInv(u)'
    BY DEF CallInv
  <2> USE <1>a, <1>b, <1>1 DEF CallInv, TypeOK
  <2>1. IdleInv(u)'
    BY DEF IdleInv
  <2>2. PrivateInv(u)'
    BY DEF PrivateInv, HasPrivateBox
  <2>3. IncrementInv(u)'
    BY DEF IncrementInv
  <2>4. ConsumedInv(u)'
    BY DEF ConsumedInv, HasConsumed
  <2>5. FinishingInv(u)'
    BY DEF FinishingInv, Finishing
  <2>6. ReserveInv(u)'
    BY DEF ReserveInv
  <2> QED
    BY <2>1, <2>2, <2>3, <2>4, <2>5, <2>6
<1> QED
  BY <1>2, <1>3, <1>4, <1>5 DEF IndInv

(* The last reference becomes an unpromoted BytesMut.                      *)
LEMMA TakeMutPreserves ==
    ASSUME IndInv, NEW t \in Thread, TakeMut(t)
    PROVE  IndInv'
<1> USE DEF TakeMut, Return, Begin
<1>1. TypeOK /\ AccessInv /\ CallInv
  BY DEF IndInv
<1>a. /\ cur[t] \in Handle /\ box[t] \in heap /\ seen[t] = None
      /\ buffer = "live"
      /\ \A h \in Handle : word[h] = None
      /\ \A u \in Thread \ {t} : u \notin Finishing
  BY <1>1 DEF CallInv, FinishingInv, Finishing
<1>b. \A h \in Handle : access[h] = {}
  BY <1>a, <1>1 DEF AccessInv
<1>2. TypeOK'
  BY <1>a, <1>b, <1>1 DEF TypeOK, PC
<1>3. HeldBufferIsLive' /\ CountIsExact' /\ OneCounter'
  BY <1>a, <1>1 DEF HeldBufferIsLive, CountIsExact, OneCounter, Holders, TypeOK
<1>4. AccessInv'
  BY <1>a, <1>b, <1>1 DEF AccessInv, TypeOK
<1>5. CallInv'
  <2> SUFFICES ASSUME NEW u \in Thread
               PROVE  /\ IdleInv(u)' /\ PrivateInv(u)' /\ IncrementInv(u)'
                      /\ ConsumedInv(u)' /\ FinishingInv(u)' /\ ReserveInv(u)'
    BY DEF CallInv
  <2> USE <1>a, <1>b, <1>1 DEF CallInv, TypeOK
  <2>1. IdleInv(u)'
    BY DEF IdleInv
  <2>2. PrivateInv(u)'
    BY DEF PrivateInv, HasPrivateBox
  <2>3. IncrementInv(u)'
    BY DEF IncrementInv
  <2>4. ConsumedInv(u)'
    BY DEF ConsumedInv, HasConsumed
  <2>5. FinishingInv(u)'
    BY DEF FinishingInv, Finishing
  <2>6. ReserveInv(u)'
    BY DEF ReserveInv
  <2> QED
    BY <2>1, <2>2, <2>3, <2>4, <2>5, <2>6
<1> QED
  BY <1>2, <1>3, <1>4, <1>5 DEF IndInv

-----------------------------------------------------------------------------
(* The invariant holds in every reachable state.                           *)

(* The first handle: unpromoted, or with a block that counts 1.          *)
LEMMA InitInv == Init => IndInv
<1> SUFFICES ASSUME Init
             PROVE  IndInv
  OBVIOUS
<1>0. PICK h \in Handle, t \in Thread, k \in {"Bytes", "BytesMut"}, b \in Block :
         \E w \in {Unpromoted} \cup IF k = "Bytes" THEN {b} ELSE {} :
            /\ word = [x \in Handle |-> IF x = h THEN w ELSE None]
            /\ kind = [x \in Handle |-> IF x = h THEN k ELSE "Bytes"]
            /\ access = [x \in Handle |-> IF x = h THEN {t} ELSE {}]
            /\ heap = {w} \ {Unpromoted}
            /\ ref = [x \in Block |-> IF x = w THEN FromVecCount ELSE 0]
            /\ buffer = "live"
            /\ pc = [x \in Thread |-> "idle"]
            /\ cur = [x \in Thread |-> None]
            /\ box = [x \in Thread |-> None]
            /\ seen = [x \in Thread |-> None]
  BY Zenon DEF Init
<1>1. PICK w \in Block \cup {Unpromoted} :
         /\ word = [x \in Handle |-> IF x = h THEN w ELSE None]
         /\ kind = [x \in Handle |-> IF x = h THEN k ELSE "Bytes"]
         /\ access = [x \in Handle |-> IF x = h THEN {t} ELSE {}]
         /\ heap = {w} \ {Unpromoted}
         /\ ref = [x \in Block |-> IF x = w THEN 1 ELSE 0]
         /\ buffer = "live"
         /\ pc = [x \in Thread |-> "idle"]
         /\ cur = [x \in Thread |-> None]
         /\ box = [x \in Thread |-> None]
         /\ seen = [x \in Thread |-> None]
  BY <1>0 DEF FromVecCount
<1>2. TypeOK
  BY <1>1 DEF TypeOK, PC
<1>3. HeldBufferIsLive /\ OneCounter /\ AccessInv
  BY <1>1 DEF HeldBufferIsLive, OneCounter, AccessInv, Holders
<1>4. CountIsExact
  <2>1. w # None
    BY <1>1
  <2>2. HoldersOf(w) = {h}
    BY <1>1, <2>1 DEF HoldersOf
  <2>3. Cardinality(HoldersOf(w)) = 1
    BY <2>2, FS_Singleton
  <2> QED
    BY <1>1, <2>3 DEF CountIsExact, Holders
<1>5. CallInv
  BY <1>1 DEF CallInv, IdleInv, PrivateInv, IncrementInv, ConsumedInv, FinishingInv,
              ReserveInv, HasPrivateBox, HasConsumed, Finishing
<1> QED
  BY <1>2, <1>3, <1>4, <1>5 DEF IndInv

(* Every call begins, or happens at once, with the invariant preserved.  *)
LEMMA CallPreserves ==
    ASSUME IndInv, NEW t \in Thread, NEW h \in Handle, Call(t, h)
    PROVE  IndInv'
<1>1. CASE CloneUnpromoted(t, h)
  BY <1>1, CloneUnpromotedPreserves
<1>2. CASE ClonePromoted(t, h)
  BY <1>2, ClonePromotedPreserves
<1>3. CASE SplitUnpromoted(t, h)
  BY <1>3, SplitUnpromotedPreserves
<1>4. CASE SplitPromoted(t, h)
  BY <1>4, SplitPromotedPreserves
<1>5. CASE DropUnpromoted(t, h)
  BY <1>5, LeavePreserves DEF DropUnpromoted
<1>6. CASE IntoVecUnpromoted(t, h)
  BY <1>6, LeavePreserves DEF IntoVecUnpromoted
<1>7. CASE FreezeEmpty(t, h)
  BY <1>7, LeavePreserves DEF FreezeEmpty, Freezable
<1>8. CASE ReallocUnpromoted(t, h)
  BY <1>8, LeavePreserves DEF ReallocUnpromoted
<1>9. CASE DropPromoted(t, h) \/ IntoVecPromoted(t, h) \/ IntoMutPromoted(t, h)
  BY <1>9, ConsumePreserves DEF DropPromoted, IntoVecPromoted, IntoMutPromoted
<1>10. CASE IntoMutUnpromoted(t, h) \/ FreezeInPlace(t, h)
  BY <1>10, KindPreserves
<1>11. CASE FreezePromoting(t, h)
  BY <1>11, FreezePromotingPreserves
<1>12. CASE ReservePromoted(t, h)
  BY <1>12, ReservePreserves
<1> QED
  BY <1>1, <1>2, <1>3, <1>4, <1>5, <1>6, <1>7, <1>8, <1>9, <1>10, <1>11, <1>12
     DEF Call

(* Every later step of a call preserves the invariant.                   *)
LEMMA StepPreserves ==
    ASSUME IndInv, NEW t \in Thread, Step(t)
    PROVE  IndInv'
<1>1. CASE Promote(t)
  BY <1>1, PromotePreserves
<1>2. CASE PromotionLost(t)
  BY <1>2, PromotionLostPreserves
<1>3. CASE Increment(t)
  BY <1>3, IncrementPreserves
<1>4. CASE Release(t)
  BY <1>4, ReleasePreserves
<1>5. CASE ReleaseIntoVec(t)
  BY <1>5, ReleaseIntoVecPreserves
<1>6. CASE Free(t) \/ TakeVec(t)
  BY <1>6, DisposePreserves
<1>7. CASE TakeMut(t)
  BY <1>7, TakeMutPreserves
<1>8. CASE Copied(t) \/ Reclaimed(t) \/ ReclaimFails(t)
  BY <1>8, InsidePreserves
<1>9. CASE CopiedOut(t)
  BY <1>9, CopiedOutPreserves
<1> QED
  BY <1>1, <1>2, <1>3, <1>4, <1>5, <1>6, <1>7, <1>8, <1>9 DEF Step

(* A step in which nothing happens.                                        *)
LEMMA StutterPreserves ==
    ASSUME IndInv, UNCHANGED vars
    PROVE  IndInv'
<1> USE DEF vars
<1>1. HeldBufferIsLive' /\ CountIsExact' /\ OneCounter'
  BY HandlesUnchanged
<1>2. TypeOK' /\ AccessInv'
  BY DEF IndInv, TypeOK, AccessInv
<1>3. CallInv'
  BY DEF IndInv, CallInv, IdleInv, PrivateInv, IncrementInv, ConsumedInv,
         FinishingInv, ReserveInv, HasPrivateBox, HasConsumed, Finishing
<1> QED
  BY <1>1, <1>2, <1>3 DEF IndInv

(* The invariant: the shared counter is exact at every moment, whatever    *)
(* calls of other threads are under way.                                   *)
THEOREM Invariance == Spec => []IndInv
<1>1. IndInv /\ [Next]_vars => IndInv'
  BY CallPreserves, StepPreserves, PassPreserves, StutterPreserves DEF Next
<1> QED
  BY InitInv, <1>1, PTL DEF Spec

-----------------------------------------------------------------------------
(* The properties that the runs check.                                     *)

(* Every variable keeps its type; in particular no counter drops below 0.  *)
THEOREM TypeCorrect == Spec => []TypeOK
<1>1. IndInv => TypeOK
  BY DEF IndInv
<1> QED
  BY Invariance, <1>1, PTL

(* No handle outlives its buffer or its block: shared::release and         *)
(* release_into_vec dispose of them only after the last handle has left.   *)
THEOREM NoUseAfterFree == Spec => []HeldBufferIsLive
<1>1. IndInv => HeldBufferIsLive
  BY DEF IndInv
<1> QED
  BY Invariance, <1>1, PTL

(* Shared::ref_count is the number of handles, for any number of threads   *)
(* that clone, split, convert and drop.                                    *)
THEOREM CounterExact == Spec => []CountIsExact
<1>1. IndInv => CountIsExact
  BY DEF IndInv
<1> QED
  BY Invariance, <1>1, PTL

(* All handles of the buffer go through one counter: of the blocks that    *)
(* racing clones make, one is ever used.                                   *)
THEOREM SingleCounter == Spec => []OneCounter
<1>1. IndInv => OneCounter
  BY DEF IndInv
<1> QED
  BY Invariance, <1>1, PTL

(* No double free: one thread disposes of the buffer, when nobody holds it.*)
THEOREM NoDoubleFree == Spec => []DisposedByOne
<1>1. IndInv => DisposedByOne
  BY DEF IndInv, CallInv, FinishingInv, DisposedByOne, Finishing, Holders
<1> QED
  BY Invariance, <1>1, PTL

(* reserve_inner reclaims an allocation only when nobody else can reach it.*)
THEOREM ReclaimSafe == Spec => []ReclaimIsExclusive
<1>1. IndInv => ReclaimIsExclusive
  <2> SUFFICES ASSUME IndInv, NEW t \in Thread, pc[t] = "reclaim"
               PROVE  Holders = {cur[t]} /\ access[cur[t]] = {t}
    BY DEF ReclaimIsExclusive
  <2>1. ReserveInv(t)
    BY DEF IndInv, CallInv
  <2>2. /\ cur[t] \in Handle /\ access[cur[t]] = {t} /\ word[cur[t]] # None
        /\ \A h \in Handle : word[h] # None => h = cur[t]
    BY <2>1 DEF ReserveInv
  <2> QED
    BY <2>2 DEF Holders
<1> QED
  BY Invariance, <1>1, PTL

-----------------------------------------------------------------------------
(* The word of a shared handle.                                            *)

(* A step that changes the word of a handle is the promotion, or the step  *)
(* of the only thread that can reach the handle, or of the call that has   *)
(* consumed it.                                                            *)
LEMMA WordChange ==
    ASSUME IndInv, Next, NEW h \in Holders, word'[h] # word[h]
    PROVE  \/ word[h] = Unpromoted /\ word'[h] \in Block
           \/ access[h] = {}
           \/ \E t \in Thread : access[h] = {t}
<1> USE DEF Holders
<1>1. PICK t \in Thread : Step(t) \/ \E g \in Handle : Call(t, g) \/ Pass(t, g)
  BY DEF Next
<1>2. TypeOK /\ AccessInv /\ CallInv
  BY DEF IndInv
<1>3. CASE Promote(t)
  <2>1. PICK n \in Vacant : word' = [word EXCEPT ![cur[t]] = box[t], ![n] = box[t]]
    BY <1>3 DEF Promote
  <2>2. box[t] \in Block /\ word[cur[t]] = Unpromoted /\ h # n
    BY <1>2, <1>3, <2>1
       DEF Promote, CasWins, TypeOK, CallInv, PrivateInv, HasPrivateBox, Vacant
  <2> QED
    BY <1>2, <2>1, <2>2 DEF TypeOK
<1>4. CASE Increment(t)
  BY <1>2, <1>4 DEF Increment, NewHandle, Vacant, TypeOK
<1>5. CASE Release(t) \/ ReleaseIntoVec(t)
  <2>1. seen[t] = None /\ word' = [word EXCEPT ![cur[t]] = None]
    BY <1>5 DEF Release, ReleaseIntoVec, Decrement
  <2>2. HasConsumed(t)
    BY <1>5, <2>1 DEF Release, ReleaseIntoVec, HasConsumed
  <2>3. access[cur[t]] = {}
    BY <1>2, <2>2 DEF CallInv, ConsumedInv
  <2> QED
    BY <1>2, <2>1, <2>3 DEF TypeOK
<1>6. CASE TakeMut(t)
  BY <1>2, <1>6 DEF TakeMut, CallInv, FinishingInv, Finishing
<1>7. ASSUME NEW g \in Handle, SplitPromoted(t, g)
      PROVE  FALSE
  BY <1>2, <1>7 DEF SplitPromoted, NewHandle, Vacant, TypeOK
<1>8. ASSUME NEW g \in Handle, SplitUnpromoted(t, g)
      PROVE  access[h] = {t}
  <2>1. PICK b \in Block, n \in Vacant : word' = [word EXCEPT ![g] = b, ![n] = b]
    BY <1>8 DEF SplitUnpromoted
  <2>2. h = g
    BY <1>2, <2>1 DEF Vacant, TypeOK
  <2> QED
    BY <1>8, <2>2 DEF SplitUnpromoted, MayConsume
<1>9. ASSUME NEW g \in Handle, NEW fate, MayConsume(t, g), LeaveUnpromoted(g, fate)
      PROVE  access[h] = {t}
  BY <1>2, <1>9 DEF LeaveUnpromoted, MayConsume, TypeOK
<1>10. ASSUME NEW g \in Handle, FreezePromoting(t, g)
       PROVE  access[h] = {t}
  BY <1>2, <1>10 DEF FreezePromoting, Freezable, MayConsume, TypeOK
<1>11. CASE Step(t)
  BY <1>3, <1>4, <1>5, <1>6, <1>11
     DEF Step, PromotionLost, Free, TakeVec, Copied, Reclaimed, ReclaimFails, CopiedOut
<1>12. ASSUME NEW g \in Handle, Call(t, g)
       PROVE  access[h] = {t}
  BY <1>7, <1>8, <1>9, <1>10, <1>12
     DEF Call, CloneUnpromoted, ClonePromoted, DropUnpromoted, DropPromoted,
         IntoVecUnpromoted, IntoVecPromoted, IntoMutUnpromoted, IntoMutPromoted,
         FreezeInPlace, FreezeEmpty, Freezable, ReallocUnpromoted, ReservePromoted,
         ConsumePromoted
<1>13. ASSUME NEW g \in Handle, Pass(t, g)
       PROVE  FALSE
  BY <1>13 DEF Pass, GiveBack, Lend, Send
<1> QED
  BY <1>1, <1>11, <1>12, <1>13

(* promote_ref may increment through the word it read: while several       *)
(* threads can reach a handle, its word changes from unpromoted to a block *)
(* and never again.                                                        *)
THEOREM WordChangesOnce == Spec => PromotedOnce
<1> DEFINE Once == \A h \in Holders :
         Cardinality(access[h]) > 1 /\ word'[h] # word[h] =>
             word[h] = Unpromoted /\ word'[h] \in Block
<1>1. IndInv /\ [Next]_vars => [Once]_vars
  <2>1. SUFFICES ASSUME IndInv, Next, NEW h \in Holders,
                        Cardinality(access[h]) > 1, word'[h] # word[h]
                 PROVE  word[h] = Unpromoted /\ word'[h] \in Block
    OBVIOUS
  <2>2. access[h] # {}
    BY <2>1, FS_EmptySet
  <2>3. ASSUME NEW t \in Thread
        PROVE  access[h] # {t}
    BY <2>1, FS_Singleton
  <2> QED
    BY <2>1, <2>2, <2>3, WordChange
<1> QED
  BY Invariance, <1>1, PTL DEF Spec, PromotedOnce

-----------------------------------------------------------------------------
(* The refinement: the handles of a buffer, whatever the threads do with   *)
(* them and with its counter, behave as BufferOwnership says.              *)

(* The holders of the abstract specification.                              *)
Owners == Holders \cup {cur[t] : t \in Finishing}

(* While somebody holds the buffer, nobody disposes of it.                 *)
LEMMA HeldNotFinishing ==
    ASSUME CallInv, Holders # {}
    PROVE  Owners = Holders
BY DEF CallInv, FinishingInv, Holders, Finishing, Owners

(* The same after a step.                                                  *)
LEMMA HeldNotFinishingNext ==
    ASSUME CallInv', Holders' # {}
    PROVE  Owners' = Holders'
BY DEF CallInv, FinishingInv, Holders, Finishing, Owners

(* A new handle n is made while h is there: Share(n).                      *)
LEMMA JoinShares ==
    ASSUME IndInv, IndInv', NEW h \in Holders, NEW n \in Handle \ Holders,
           Holders' = Holders \cup {n}, UNCHANGED buffer
    PROVE  Ownership!Next
<1>1. Owners = Holders /\ Owners' = Holders'
  BY HeldNotFinishing, HeldNotFinishingNext DEF IndInv
<1>2. Ownership!Share(n)
  BY <1>1 DEF Owners, Ownership!Share
<1> QED
  BY <1>2 DEF Ownership!Next

(* A handle without a counter leaves: it is the last.                      *)
LEMMA LeaveIsLast ==
    ASSUME IndInv, NEW h \in Handle, NEW fate \in {"freed", "taken"},
           LeaveUnpromoted(h, fate), UNCHANGED <<pc, cur>>
    PROVE  Ownership!Next
<1>1. Holders = {h} /\ Holders' = {}
  BY UnpromotedAlone DEF LeaveUnpromoted, IndInv, TypeOK, Holders
<1>2. Owners = {h} /\ Finishing = {}
  BY <1>1, HeldNotFinishing DEF IndInv, CallInv, FinishingInv, Holders, Finishing
<1>3. Owners' = {}
  BY <1>1, <1>2 DEF Owners, Finishing
<1>4. Ownership!LastLeave(h)
  BY <1>2, <1>3 DEF Owners, Ownership!LastLeave, LeaveUnpromoted
<1> QED
  BY <1>4 DEF Ownership!Next

(* A thread that has consumed its handle gives up the reference: others    *)
(* remain and the handle leaves, or the handle was the last and stays an   *)
(* owner until the buffer is disposed of.                                  *)
LEMMA DecrementLeaves ==
    ASSUME IndInv, IndInv', NEW t \in Thread, HasConsumed(t),
           word' = [word EXCEPT ![cur[t]] = None], UNCHANGED buffer,
           IF WasLast(box[t])
           THEN pc'[t] \in {"free", "takeVec", "takeMut"} /\ UNCHANGED cur
           ELSE pc'[t] \notin {"free", "takeVec", "takeMut"},
           \A u \in Thread \ {t} : pc'[u] = pc[u]
    PROVE  Ownership!Next \/ UNCHANGED <<Owners, buffer>>
<1>1. TypeOK /\ CallInv
  BY DEF IndInv
<1>2. /\ cur[t] \in Handle /\ word[cur[t]] = box[t] /\ box[t] \in Block
      /\ cur[t] \in Holders
  BY <1>1 DEF CallInv, ConsumedInv, Holders
<1>3. Holders' = Holders \ {cur[t]}
  BY <1>1, <1>2 DEF TypeOK, Holders
<1>4. Owners = Holders /\ Finishing = {}
  BY <1>1, <1>2, HeldNotFinishing DEF CallInv, FinishingInv, Holders, Finishing
<1>5. CASE WasLast(box[t])
  <2>1. Holders = {cur[t]}
    BY <1>2, <1>5, SoleHolder DEF WasLast, Holders
  <2>2. Finishing' = {t} /\ UNCHANGED cur
    BY <1>4, <1>5 DEF Finishing
  <2>3. Owners' = {cur[t]}
    BY <1>3, <2>1, <2>2 DEF Owners
  <2> QED
    BY <1>4, <2>1, <2>3
<1>6. CASE ~ WasLast(box[t])
  <2>1. Holders # {cur[t]}
    <3>1. SUFFICES ASSUME Holders = {cur[t]}
                   PROVE  FALSE
      OBVIOUS
    <3>2. HoldersOf(box[t]) = {cur[t]}
      BY <1>2, <3>1 DEF HoldersOf, Holders
    <3>3. Cardinality(HoldersOf(box[t])) = 1
      BY <3>2, FS_Singleton
    <3>4. ref[box[t]] = 1
      BY <1>2, <3>3 DEF IndInv, CountIsExact
    <3> QED
      BY <1>6, <3>4 DEF WasLast
  <2>2. Finishing' = {}
    BY <1>4, <1>6 DEF Finishing
  <2>3. Owners' = Owners \ {cur[t]}
    BY <1>3, <1>4, <2>2 DEF Owners
  <2>4. PICK h \in Handle : h = cur[t]
    BY <1>2
  <2>5. Ownership!Leave(h)
    BY <1>2, <1>4, <2>1, <2>3, <2>4 DEF Owners, Ownership!Leave
  <2> QED
    BY <2>5 DEF Ownership!Next
<1> QED
  BY <1>5, <1>6

(* A thread disposes of the buffer: it stands for the last owner.          *)
LEMMA DisposeIsLast ==
    ASSUME IndInv, NEW t \in Thread, Free(t) \/ TakeVec(t)
    PROVE  Ownership!Next
<1>1. TypeOK /\ FinishingInv(t) /\ t \in Finishing
  BY DEF IndInv, CallInv, Finishing, Free, TakeVec
<1>2. Holders = {} /\ Finishing = {t} /\ cur[t] \in Handle /\ seen[t] = None
  BY <1>1 DEF FinishingInv, Holders, Finishing
<1>3. pc' = [pc EXCEPT ![t] = "idle"] /\ UNCHANGED word
  BY <1>2 DEF Free, TakeVec, AfterRelease, Return, Begin
<1>4. Finishing' = {}
  BY <1>1, <1>2, <1>3 DEF Finishing, TypeOK
<1>5. Owners = {cur[t]} /\ Owners' = {}
  BY <1>2, <1>3, <1>4 DEF Owners, Holders
<1>6. PICK h \in Handle : h = cur[t]
  BY <1>2
<1>7. Ownership!LastLeave(h)
  BY <1>5, <1>6 DEF Owners, Ownership!LastLeave, Free, TakeVec
<1> QED
  BY <1>7 DEF Ownership!Next

(* into_mut keeps the buffer: the handle that was the last is there again. *)
LEMMA TakeMutKeeps ==
    ASSUME IndInv, IndInv', NEW t \in Thread, TakeMut(t)
    PROVE  UNCHANGED <<Owners, buffer>>
<1>1. TypeOK /\ FinishingInv(t) /\ t \in Finishing
  BY DEF IndInv, CallInv, Finishing, TakeMut
<1>2. Holders = {} /\ Finishing = {t} /\ cur[t] \in Handle
  BY <1>1 DEF FinishingInv, Holders, Finishing
<1>3. Owners = {cur[t]}
  BY <1>2 DEF Owners
<1>4. Holders' = {cur[t]}
  BY <1>1, <1>2 DEF TakeMut, TypeOK, Holders
<1>5. Owners' = {cur[t]}
  BY <1>4, HeldNotFinishingNext DEF IndInv
<1> QED
  BY <1>3, <1>5 DEF TakeMut

(* A call on a handle is a step of BufferOwnership, or none.               *)
LEMMA CallImplements ==
    ASSUME IndInv, IndInv', NEW t \in Thread, NEW h \in Handle, Call(t, h)
    PROVE  Ownership!Next \/ UNCHANGED <<Owners, buffer>>
<1>1. TypeOK /\ AccessInv /\ CallInv
  BY DEF IndInv
<1>2. h \in Holders
  BY <1>1 DEF AccessInv, Holders, Call, MayBorrow, MayConsume, ConsumePromoted, Freezable,
      CloneUnpromoted, ClonePromoted, SplitUnpromoted, SplitPromoted, DropUnpromoted,
      DropPromoted, IntoVecUnpromoted, IntoVecPromoted, IntoMutUnpromoted, IntoMutPromoted,
      FreezeInPlace, FreezePromoting, FreezeEmpty, ReallocUnpromoted, ReservePromoted
<1>3. Finishing = {}
  BY <1>1, <1>2 DEF CallInv, FinishingInv, Finishing, Holders
<1>4. CASE SplitUnpromoted(t, h) \/ SplitPromoted(t, h)
  <2>1. PICK n \in Vacant, b \in Block :
           word' = [word EXCEPT ![h] = b, ![n] = b] \/ word' = [word EXCEPT ![n] = b]
    BY <1>4 DEF SplitUnpromoted, SplitPromoted, NewHandle
  <2>2. Holders' = Holders \cup {n} /\ n \in Handle \ Holders
    BY <1>1, <1>2, <2>1 DEF Vacant, Holders, TypeOK
  <2> QED
    BY <1>2, <1>4, <2>2, JoinShares DEF SplitUnpromoted, SplitPromoted
<1>5. CASE \/ DropUnpromoted(t, h) \/ IntoVecUnpromoted(t, h)
           \/ FreezeEmpty(t, h) \/ ReallocUnpromoted(t, h)
  BY <1>5, LeaveIsLast
     DEF DropUnpromoted, IntoVecUnpromoted, FreezeEmpty, ReallocUnpromoted, callVars
<1>6. CASE FreezePromoting(t, h)
  <2>1. Holders' = Holders
    BY <1>1, <1>2, <1>6 DEF FreezePromoting, Allocate, Holders, TypeOK
  <2>2. Owners = Holders /\ Owners' = Holders'
    BY <1>1, <1>2, <2>1, HeldNotFinishing, HeldNotFinishingNext DEF IndInv
  <2> QED
    BY <1>6, <2>1, <2>2 DEF FreezePromoting
<1>7. CASE \/ CloneUnpromoted(t, h) \/ ClonePromoted(t, h) \/ DropPromoted(t, h)
           \/ IntoVecPromoted(t, h) \/ IntoMutUnpromoted(t, h) \/ IntoMutPromoted(t, h)
           \/ FreezeInPlace(t, h) \/ ReservePromoted(t, h)
  <2>1. UNCHANGED <<word, buffer>>
    BY <1>7 DEF CloneUnpromoted, ClonePromoted, DropPromoted, IntoVecPromoted,
        IntoMutUnpromoted, IntoMutPromoted, FreezeInPlace, ReservePromoted, ConsumePromoted
  <2>2. Holders' = Holders
    BY <2>1 DEF Holders
  <2>3. Owners = Holders /\ Owners' = Holders'
    BY <1>2, <2>2, HeldNotFinishing, HeldNotFinishingNext DEF IndInv
  <2> QED
    BY <2>1, <2>2, <2>3
<1> QED
  BY <1>4, <1>5, <1>6, <1>7 DEF Call

(* A later step of a call is a step of BufferOwnership, or none.           *)
LEMMA StepImplements ==
    ASSUME IndInv, IndInv', NEW t \in Thread, Step(t)
    PROVE  Ownership!Next \/ UNCHANGED <<Owners, buffer>>
<1>1. TypeOK /\ AccessInv /\ CallInv
  BY DEF IndInv
<1>2. CASE Promote(t) \/ Increment(t)
  <2>1. cur[t] \in Holders
    BY <1>1, <1>2 DEF Promote, Increment, CallInv, PrivateInv, HasPrivateBox, IncrementInv,
        AccessInv, Holders
  <2>2. PICK n \in Vacant : Holders' = Holders \cup {n}
    <3>1. CASE Promote(t)
      <4>1. PICK n \in Vacant : word' = [word EXCEPT ![cur[t]] = box[t], ![n] = box[t]]
        BY <3>1 DEF Promote
      <4>2. box[t] # None
        BY <1>1, <3>1 DEF Promote, CallInv, PrivateInv, HasPrivateBox, TypeOK
      <4>3. Holders' = Holders \cup {n}
        BY <1>1, <2>1, <4>1, <4>2 DEF Vacant, Holders, TypeOK
      <4> QED
        BY <4>3
    <3>2. CASE Increment(t)
      <4>1. PICK n \in Vacant : word' = [word EXCEPT ![n] = seen[t]]
        BY <3>2 DEF Increment, NewHandle
      <4>2. seen[t] # None
        BY <1>1, <3>2 DEF Increment, CallInv, IncrementInv
      <4>3. Holders' = Holders \cup {n}
        BY <1>1, <4>1, <4>2 DEF Vacant, Holders, TypeOK
      <4> QED
        BY <4>3
    <3> QED
      BY <1>2, <3>1, <3>2
  <2>3. PICK h \in Holders : h = cur[t]
    BY <2>1
  <2> QED
    BY <1>2, <2>2, <2>3, JoinShares DEF Promote, Increment, Vacant
<1>3. CASE (Release(t) /\ seen[t] = None) \/ ReleaseIntoVec(t)
  <2>1. HasConsumed(t)
    BY <1>3 DEF Release, ReleaseIntoVec, HasConsumed
  <2>2. seen[t] = None
    BY <1>1, <2>1 DEF CallInv, ConsumedInv
  <2>3. word' = [word EXCEPT ![cur[t]] = None] /\ UNCHANGED buffer
    BY <1>3, <2>2 DEF Release, ReleaseIntoVec, Decrement
  <2>4. CASE WasLast(box[t])
    <3>1. /\ pc'[t] \in {"free", "takeVec", "takeMut"} /\ UNCHANGED cur
          /\ \A u \in Thread \ {t} : pc'[u] = pc[u]
      BY <1>1, <1>3, <2>4 DEF Release, ReleaseIntoVec, Goto, TypeOK
    <3> QED
      BY <2>1, <2>3, <2>4, <3>1, DecrementLeaves
  <2>5. CASE ~ WasLast(box[t])
    <3>1. /\ pc'[t] \notin {"free", "takeVec", "takeMut"}
          /\ \A u \in Thread \ {t} : pc'[u] = pc[u]
      BY <1>1, <1>3, <2>2, <2>5
         DEF Release, ReleaseIntoVec, AfterRelease, Return, Begin, TypeOK
    <3> QED
      BY <2>1, <2>3, <2>5, <3>1, DecrementLeaves
  <2> QED
    BY <2>4, <2>5
<1>4. CASE \/ Release(t) /\ seen[t] # None
           \/ PromotionLost(t) \/ Reclaimed(t) \/ ReclaimFails(t) \/ CopiedOut(t)
  <2>1. UNCHANGED <<word, buffer>>
    BY <1>4 DEF Release, Decrement, PromotionLost, Reclaimed, ReclaimFails, CopiedOut
  <2>2. cur[t] \in Holders
    BY <1>1, <1>4
       DEF Release, PromotionLost, Reclaimed, ReclaimFails, CopiedOut, CallInv, PrivateInv,
           HasPrivateBox, ReserveInv, AccessInv, Holders
  <2>3. Holders' = Holders
    BY <2>1 DEF Holders
  <2>4. Owners = Holders /\ Owners' = Holders'
    BY <2>2, <2>3, HeldNotFinishing, HeldNotFinishingNext DEF IndInv
  <2> QED
    BY <2>1, <2>3, <2>4
<1>5. CASE Copied(t)
  <2>1. /\ pc' = [pc EXCEPT ![t] = "idle"]
        /\ cur' = [cur EXCEPT ![t] = None]
        /\ UNCHANGED <<word, buffer>>
        /\ pc[t] = "copy"
    BY <1>5 DEF Copied, Return, Begin
  <2>2. Finishing' = Finishing /\ t \notin Finishing
    BY <1>1, <2>1 DEF Finishing, TypeOK
  <2>3. \A u \in Finishing : cur'[u] = cur[u]
    BY <1>1, <2>1, <2>2 DEF TypeOK, Finishing
  <2> QED
    BY <2>1, <2>2, <2>3 DEF Owners, Holders
<1>6. CASE Free(t) \/ TakeVec(t)
  BY <1>6, DisposeIsLast
<1>7. CASE TakeMut(t)
  BY <1>7, TakeMutKeeps
<1> QED
  BY <1>2, <1>3, <1>4, <1>5, <1>6, <1>7 DEF Step

(* The counter, its promotion and all the interleavings are invisible to   *)
(* the user: handles come from handles, leave one by one, and the last one *)
(* takes the buffer with it, in shared::release or release_into_vec.       *)
THEOREM Refinement == Spec => ImplementsOwnership
<1>1. Init => Ownership!Init
  <2>1. SUFFICES ASSUME Init
                 PROVE  Ownership!Init
    OBVIOUS
  <2>2. buffer = "live" /\ Finishing = {}
    BY <2>1 DEF Init, Finishing
  <2>3. \E h \in Handle : Holders = {h}
    BY <2>1 DEF Init, Holders
  <2> QED
    BY <2>2, <2>3 DEF Ownership!Init
<1>2. IndInv /\ IndInv' /\ [Next]_vars => [Ownership!Next]_(Ownership!vars)
  <2>1. ASSUME IndInv, IndInv', [Next]_vars
        PROVE  Ownership!Next \/ UNCHANGED <<Owners, buffer>>
    <3>1. CASE UNCHANGED vars
      BY <3>1 DEF vars, Owners, Holders, Finishing
    <3>2. ASSUME NEW t \in Thread, NEW h \in Handle, Pass(t, h)
          PROVE  UNCHANGED <<Owners, buffer>>
      BY <3>2 DEF Pass, GiveBack, Lend, Send, callVars, Owners, Holders, Finishing
    <3> QED
      BY <2>1, <3>1, <3>2, CallImplements, StepImplements DEF Next
  <2> QED
    BY <2>1 DEF Owners, Ownership!vars
<1> QED
  BY Invariance, <1>1, <1>2, PTL DEF Spec, ImplementsOwnership, Ownership!Spec
=============================================================================
