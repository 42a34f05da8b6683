------------------------ MODULE HappensBefore_proofs ------------------------
(***************************************************************************)
(* Proofs about HappensBefore: IndInv still holds, because every step of   *)
(* HappensBefore is a step of SharedBuffer or none, and with it OrderInv   *)
(* is inductive.  What a step forgets is what the acting thread has just   *)
(* done anew, and a thread that acts can reach a handle; what a step takes *)
(* away from a handle goes to the view of the thread that took it, or      *)
(* stays with the count.                                                   *)
(***************************************************************************)
EXTENDS HappensBefore, SharedBuffer_proofs

-----------------------------------------------------------------------------
(* OrderInv, one fact and one thread at a time.                            *)

Carries(u, h) == u \in access[h] \/ cur[u] = h

KnownBy(f, h) ==
    f \in backView[h] \/ \E u \in Thread : Carries(u, h) /\ f \in view[u]

Ending == {"free", "takeVec", "takeMut"}

HandleKnows(h) == word[h] = Unpromoted => \A f \in Thread : KnownBy(f, h)

BlockKnows(b) ==
    (\E h \in Handle : word[h] = b) =>
        \A f \in Thread \cup {b} :
            f \in refView[b] \/ \E g \in Handle : word[g] = b /\ KnownBy(f, g)

LastKnows(t) ==
    pc[t] \in Ending =>
        \A f \in Thread \cup {box[t]} : f \in view[t] \/ f \in refView[box[t]]

Lossless ==
    /\ \A h \in Handle : HandleKnows(h)
    /\ \A b \in Block : BlockKnows(b)
    /\ \A t \in Thread : LastKnows(t)

ThreadSees(t) ==
    /\ pc[t] = "cas" =>
         /\ box[t] \in view[t]
         /\ word[cur[t]] \in Block =>
              word[cur[t]] \in view[t] \/ word[cur[t]] \in wordView[cur[t]]
    /\ HasConsumed(t) \/ pc[t] \in {"reclaim", "copyOut"} => backView[cur[t]] = {}
    /\ pc[t] = "reclaim" => \A f \in Thread \cup {word[cur[t]]} : f \in view[t]
    /\ pc[t] = "release" /\ seen[t] # None => seen[t] \in view[t]

PlainInv == ViewsOK /\ SeesItself /\ Lossless /\ \A t \in Thread : ThreadSees(t)

(* The invariant in these terms.                                           *)
LEMMA OrderInvUnfolds == TypeOK => (OrderInv <=> PlainInv)
<1> SUFFICES ASSUME TypeOK PROVE OrderInv <=> PlainInv
  OBVIOUS
<1>1. ASSUME NEW h \in Handle, NEW f PROVE f \in Known(h) <=> KnownBy(f, h)
  BY DEF Known, KnownBy, Carriers, Carries, TypeOK
<1>2. NothingLost <=> Lossless
  <2>1. \A h \in Handle :
          (word[h] = Unpromoted => Thread \subseteq Known(h)) <=> HandleKnows(h)
    BY <1>1 DEF HandleKnows
  <2>2. \A b \in Block :
          (HoldersOf(b) # {} =>
             Thread \cup {b} \subseteq refView[b] \cup UNION {Known(h) : h \in HoldersOf(b)})
          <=> BlockKnows(b)
    <3> TAKE b \in Block
    <3>1. HoldersOf(b) # {} <=> \E h \in Handle : word[h] = b
      BY DEF HoldersOf
    <3>2. ASSUME NEW f
          PROVE f \in UNION {Known(h) : h \in HoldersOf(b)}
                <=> \E g \in Handle : word[g] = b /\ KnownBy(f, g)
      BY <1>1 DEF HoldersOf
    <3> QED BY <3>1, <3>2 DEF BlockKnows
  <2>3. (\A t \in Finishing : Thread \cup {box[t]} \subseteq view[t] \cup refView[box[t]])
        <=> \A t \in Thread : LastKnows(t)
    BY DEF Finishing, LastKnows, Ending
  <2> QED BY <2>1, <2>2, <2>3 DEF NothingLost, Lossless
<1>3. PromotionSeen /\ NothingLeftBehind /\ UsesBeforeReclaim /\ LoserSeesBlock
      <=> \A t \in Thread : ThreadSees(t)
  BY DEF PromotionSeen, NothingLeftBehind, UsesBeforeReclaim, LoserSeesBlock, ThreadSees,
         AcquireWord
<1> QED BY <1>2, <1>3 DEF OrderInv, PlainInv

(* The same of the state after a step.                                     *)
LEMMA OrderInvUnfoldsNext == TypeOK' => (OrderInv' <=> PlainInv')
BY OrderInvUnfolds, PTL

-----------------------------------------------------------------------------
(* Who can act.                                                            *)

(* t does more than make its private copy, or nothing.                     *)
Acts(t) == (\E h \in Handle : t \in access[h]) \/ pc[t] \notin {"idle", "copy"}

(* While a thread disposes of the buffer, or writes to reclaimed room, no  *)
(* other thread can do anything about this buffer.                         *)
LEMMA ActsAlone ==
    ASSUME IndInv, NEW t \in Thread, NEW u \in Thread \ {t}, Acts(t)
    PROVE  pc[u] \notin Ending /\ pc[u] # "reclaim"
<1>1. TypeOK /\ AccessInv /\ CallInv
  BY DEF IndInv
<1>2. ASSUME pc[u] \in Ending PROVE FALSE
  <2>1. /\ \A h \in Handle : word[h] = None
        /\ t \notin Finishing
    BY <1>1, <1>2 DEF CallInv, FinishingInv, Finishing, Ending
  <2>2. \A h \in Handle : access[h] = {}
    BY <1>1, <2>1 DEF AccessInv
  <2>3. ~ HasPrivateBox(t) /\ pc[t] # "incr" /\ pc[t] \notin {"reclaim", "copyOut"}
    BY <1>1, <2>2 DEF CallInv, PrivateInv, IncrementInv, ReserveInv
  <2>4. ~ HasConsumed(t)
    BY <1>1, <2>1, DistinctAssumption DEF CallInv, ConsumedInv
  <2> QED
    BY <1>1, <2>1, <2>2, <2>3, <2>4
    DEF Acts, TypeOK, PC, HasPrivateBox, HasConsumed, Finishing
<1>3. ASSUME pc[u] = "reclaim" PROVE FALSE
  <2>1. /\ cur[u] \in Handle /\ access[cur[u]] = {u} /\ word[cur[u]] \in Block
        /\ \A h \in Handle : word[h] # None => h = cur[u]
    BY <1>1, <1>3 DEF CallInv, ReserveInv
  <2>2. \A h \in Handle : t \notin access[h]
    BY <1>1, <2>1 DEF AccessInv
  <2>3. ~ HasPrivateBox(t) /\ pc[t] # "incr" /\ pc[t] \notin {"reclaim", "copyOut"}
    BY <1>1, <2>2 DEF CallInv, PrivateInv, IncrementInv, ReserveInv
  <2>4. ~ HasConsumed(t)
    BY <1>1, <2>1, DistinctAssumption DEF CallInv, ConsumedInv
  <2>5. t \notin Finishing
    BY <1>1, <2>1, DistinctAssumption DEF CallInv, FinishingInv
  <2> QED
    BY <1>1, <2>2, <2>3, <2>4, <2>5
    DEF Acts, TypeOK, PC, HasPrivateBox, HasConsumed, Finishing
<1> QED BY <1>2, <1>3

(* A step of t that makes the facts N new leaves the calls of the others   *)
(* what they have seen: N is about t's own accesses or a block nobody had, *)
(* and t changes no word that they can reach unless it leaves what it did  *)
(* with the word.                                                          *)
LEMMA OthersSee ==
    ASSUME IndInv, PlainInv, NEW t \in Thread, NEW N, Acts(t),
           \A b \in heap : b \notin N,
           NEW u \in Thread \ {t},
           pc'[u] = pc[u], cur'[u] = cur[u], box'[u] = box[u], seen'[u] = seen[u],
           \A f \in view[u] : f \in N \/ f \in view'[u],
           \A g \in Handle : u \in access[g] =>
               /\ \A f \in wordView[g] : f \in N \/ f \in wordView'[g]
               /\ word'[g] = word[g] \/ word'[g] \in wordView'[g],
           \A g \in Handle : t \in access[g] \/ \A f \in backView'[g] : f \in backView[g],
           ViewsOK'
    PROVE  ThreadSees(u)'
<1>1. TypeOK /\ AccessInv /\ CallInv /\ HeldBufferIsLive /\ ThreadSees(u)
  BY DEF IndInv, PlainInv
<1>2. pc[u] # "reclaim" /\ pc'[u] # "reclaim"
  BY ActsAlone
<1>3. ASSUME pc'[u] = "cas"
      PROVE  /\ box'[u] \in view'[u]
             /\ word'[cur'[u]] \in Block =>
                  word'[cur'[u]] \in view'[u] \/ word'[cur'[u]] \in wordView'[cur'[u]]
  <2>1. box[u] \in heap /\ cur[u] \in Handle /\ u \in access[cur[u]]
    BY <1>1, <1>3 DEF CallInv, PrivateInv, HasPrivateBox
  <2>2. box[u] \in view[u] /\ (word[cur[u]] \in Block =>
                  word[cur[u]] \in view[u] \/ word[cur[u]] \in wordView[cur[u]])
    BY <1>1, <1>3 DEF ThreadSees
  <2>3. word[cur[u]] \in Block => word[cur[u]] \in heap
    BY <1>1, <2>1, DistinctAssumption DEF HeldBufferIsLive, Holders
  <2> QED BY <2>1, <2>2, <2>3
<1>4. ASSUME HasConsumed(u)' \/ pc'[u] \in {"reclaim", "copyOut"}
      PROVE  backView'[cur'[u]] = {}
  <2>1. HasConsumed(u) \/ pc[u] = "copyOut"
    BY <1>2, <1>4 DEF HasConsumed
  <2>2. backView[cur[u]] = {}
    BY <1>1, <2>1 DEF ThreadSees
  <2>3. cur[u] \in Handle /\ t \notin access[cur[u]]
    BY <1>1, <2>1 DEF CallInv, ConsumedInv, ReserveInv
  <2> QED BY <2>2, <2>3
<1>5. ASSUME pc'[u] = "release", seen'[u] # None PROVE seen'[u] \in view'[u]
  <2>1. cur[u] \in Handle /\ u \in access[cur[u]] /\ seen[u] = word[cur[u]]
    BY <1>1, <1>5 DEF CallInv, PrivateInv, HasPrivateBox
  <2>2. seen[u] \in Block /\ seen[u] \in heap
    BY <1>1, <1>5, <2>1, DistinctAssumption DEF HeldBufferIsLive, Holders, TypeOK
  <2>3. seen[u] \in view[u]
    BY <1>1, <1>5 DEF ThreadSees
  <2> QED BY <2>2, <2>3
<1> QED BY <1>2, <1>3, <1>4, <1>5 DEF ThreadSees

(* A step that keeps every word, but may add handles of the same block,    *)
(* loses nothing, if it moves what is known of a handle to where it is     *)
(* still known, and if its own access is known of some handle.             *)
LEMMA NothingLostIf ==
    ASSUME IndInv, IndInv', PlainInv, NEW t \in Thread, NEW N, Acts(t),
           \A b \in heap : b \notin N,
           N \subseteq {t} \cup Block,
           \A u \in Thread \ {t} : pc'[u] = pc[u],
           pc'[t] \notin Ending,
           \A g \in Handle : word[g] # None => word'[g] = word[g],
           \A g \in Handle : word[g] = None /\ word'[g] # None =>
               word'[g] \in Block /\ \E h \in Handle : word[h] = word'[g],
           \A g \in Handle, f \in Fact :
               word[g] # None /\ KnownBy(f, g) => f \in N \/ KnownBy(f, g)',
           \A b \in Block : \A f \in refView[b] : f \in N \/ f \in refView'[b],
           t \in N => \E h \in Handle : word'[h] # None /\ KnownBy(t, h)'
    PROVE  Lossless'
<1>1. TypeOK /\ Lossless /\ OneCounter /\ OneCounter' /\ HeldBufferIsLive
  BY DEF IndInv, PlainInv
<1>2. ASSUME NEW h \in Handle, word'[h] = Unpromoted, NEW f \in Thread
      PROVE  KnownBy(f, h)'
  <2>1. word[h] = Unpromoted /\ KnownBy(f, h)
    BY <1>1, <1>2, DistinctAssumption DEF Lossless, HandleKnows
  <2>2. CASE f = t /\ t \in N
    <3>1. PICK g \in Handle : word'[g] # None /\ KnownBy(t, g)'
      BY <2>2
    <3>2. g = h
      BY <1>1, <1>2, <3>1, DistinctAssumption DEF OneCounter, Holders
    <3> QED BY <2>2, <3>1, <3>2
  <2>3. CASE f \notin N
    BY <2>1, <2>3, DistinctAssumption DEF Fact
  <2> QED BY <2>2, <2>3, FactAssumption
<1>3. ASSUME NEW b \in Block, NEW h \in Handle, word'[h] = b, NEW f \in Thread \cup {b}
      PROVE  f \in refView'[b] \/ \E g \in Handle : word'[g] = b /\ KnownBy(f, g)'
  <2>1. \E g \in Handle : word[g] = b
    BY <1>3, DistinctAssumption
  <2>2. f \in refView[b] \/ \E g \in Handle : word[g] = b /\ KnownBy(f, g)
    BY <1>1, <2>1 DEF Lossless, BlockKnows
  <2>3. b \notin N
    BY <1>1, <2>1, DistinctAssumption DEF HeldBufferIsLive, Holders
  <2>4. CASE f = t /\ t \in N
    BY <1>1, <1>3, <2>4, DistinctAssumption DEF OneCounter, Holders
  <2>5. CASE f \notin N
    BY <2>2, <2>5, DistinctAssumption DEF Fact
  <2> QED BY <2>3, <2>4, <2>5, FactAssumption
<1>4. \A u \in Thread : pc'[u] \notin Ending
  BY ActsAlone
<1> QED
  BY <1>2, <1>3, <1>4 DEF Lossless, HandleKnows, BlockKnows, LastKnows

(* Nothing can be lost where there is no handle left and nobody ends.      *)
LEMMA NothingLeftToLose ==
    ASSUME \A h \in Handle : word'[h] = None, \A u \in Thread : pc'[u] \notin Ending
    PROVE  Lossless'
BY DistinctAssumption DEF Lossless, HandleKnows, BlockKnows, LastKnows

(* A new block: the thread that stores it in a handle knows everything.    *)
LEMMA NewBlockKnown ==
    ASSUME IndInv', NEW b \in Block, NEW h \in Handle, word'[h] = b,
           \A f \in Thread \cup {b} : KnownBy(f, h)',
           \A u \in Thread : pc'[u] \notin Ending
    PROVE  Lossless'
BY DistinctAssumption
DEF Lossless, HandleKnows, BlockKnows, LastKnows, IndInv, OneCounter, Holders

(* What is known of a handle stays known where nothing is taken away.      *)
LEMMA StaysKnown ==
    ASSUME NEW g, NEW f, NEW N, KnownBy(f, g),
           \A x \in backView[g] : x \in N \/ x \in backView'[g],
           \A u \in Thread : Carries(u, g) => Carries(u, g)',
           \A u \in Thread : \A x \in view[u] : x \in N \/ x \in view'[u]
    PROVE  f \in N \/ KnownBy(f, g)'
BY DEF KnownBy

(* What is known of a handle that t has for itself.                        *)
LEMMA OwnerKnows ==
    ASSUME IndInv, NEW t \in Thread, NEW h \in Handle, MayConsume(t, h), NEW f, KnownBy(f, h)
    PROVE  f \in Owned(t, h)
<1>1. \A u \in Thread \ {t} : cur[u] # h
  BY OnlyUser DEF MayConsume
<1> QED BY <1>1 DEF KnownBy, Carries, MayConsume, Owned

-----------------------------------------------------------------------------
(* The steps that keep every handle, by what they make visible.            *)

(* The thread has learnt `know` and done N; messages only lose what is new.*)
LEMMA LocalPreserves ==
    ASSUME IndInv, IndInv', PlainInv, NEW t \in Thread,
           NEW know \in SUBSET Fact, NEW N \in SUBSET ({t} \cup Block),
           Acts(t), Local(t, know, N), view[t] \subseteq know,
           \A b \in heap : b \notin N,
           \A u \in Thread \ {t} :
               pc'[u] = pc[u] /\ cur'[u] = cur[u] /\ box'[u] = box[u] /\ seen'[u] = seen[u],
           pc'[t] \notin Ending,
           \A g \in Handle : Carries(t, g) /\ word[g] # None => Carries(t, g)',
           \A g \in Handle : \A u \in access[g] : u # t => u \in access'[g],
           \A g \in Handle : word[g] # None => word'[g] = word[g],
           \A g \in Handle : word[g] = None /\ word'[g] # None =>
               word'[g] \in Block /\ \E h \in Handle : word[h] = word'[g],
           t \in N => \E h \in Handle : word'[h] # None /\ Carries(t, h)',
           ThreadSees(t)'
    PROVE  PlainInv'
<1>1. ViewsOK /\ SeesItself /\ TypeOK /\ AccessInv
  BY DEF PlainInv, IndInv
<1>2. /\ \A u \in Thread \ {t} : view'[u] = view[u] \ N
      /\ view'[t] = know \cup N
      /\ \A g \in Handle : wordView'[g] = wordView[g] \ N /\ backView'[g] = backView[g] \ N
      /\ \A b \in Block : refView'[b] = refView[b] \ N
  BY <1>1 DEF Local, Sees, Outdate, ViewsOK
<1>3. ViewsOK'
  BY <1>1 DEF Local, Sees, Outdate, ViewsOK, Fact
<1>4. SeesItself'
  BY <1>1, <1>2, FactAssumption DEF SeesItself
<1>5. ASSUME NEW u \in Thread \ {t} PROVE ThreadSees(u)'
  <2>1. \A g \in Handle : u \in access[g] => word[g] # None
    BY <1>1 DEF AccessInv
  <2>2. \A g \in Handle : u \in access[g] => word'[g] = word[g]
    BY <2>1
  <2>3. \A g \in Handle : u \in access[g] =>
               /\ \A f \in wordView[g] : f \in N \/ f \in wordView'[g]
               /\ word'[g] = word[g] \/ word'[g] \in wordView'[g]
    BY <1>2, <2>2
  <2>4. \A f \in view[u] : f \in N \/ f \in view'[u]
    BY <1>2
  <2>5. \A g \in Handle : t \in access[g] \/ \A f \in backView'[g] : f \in backView[g]
    BY <1>2
  <2> QED BY <1>3, <2>3, <2>4, <2>5, OthersSee
<1>6. ASSUME NEW g \in Handle, NEW f \in Fact, word[g] # None, KnownBy(f, g)
      PROVE  f \in N \/ KnownBy(f, g)'
  <2>1. \A u \in Thread : Carries(u, g) => Carries(u, g)'
    BY <1>6 DEF Carries
  <2>2. \A u \in Thread : \A x \in view[u] : x \in N \/ x \in view'[u]
    BY <1>2
  <2>3. \A x \in backView[g] : x \in N \/ x \in backView'[g]
    BY <1>2
  <2> QED BY <1>6, <2>1, <2>2, <2>3, StaysKnown
<1>7. t \in N => \E h \in Handle : word'[h] # None /\ KnownBy(t, h)'
  BY <1>2 DEF KnownBy
<1>8. Lossless'
  <2>1. \A b \in Block : \A f \in refView[b] : f \in N \/ f \in refView'[b]
    BY <1>2
  <2> QED BY <1>6, <1>7, <2>1, NothingLostIf
<1> QED BY <1>3, <1>4, <1>5, <1>8 DEF PlainInv

(* A call with the handle for itself.                                      *)
LEMMA ExclusivePreserves ==
    ASSUME IndInv, IndInv', PlainInv, NEW t \in Thread, NEW h \in Handle,
           NEW know \in SUBSET Fact, NEW N \in SUBSET ({t} \cup Block),
           MayConsume(t, h), Exclusive(t, h, know, N), Owned(t, h) \subseteq know,
           \A b \in heap : b \notin N,
           \A u \in Thread \ {t} :
               pc'[u] = pc[u] /\ cur'[u] = cur[u] /\ box'[u] = box[u] /\ seen'[u] = seen[u],
           pc'[t] \notin Ending,
           Carries(t, h)',
           \A g \in Handle \ {h} : \A u \in access[g] : u \in access'[g],
           \A g \in Handle \ {h} : word[g] # None => word'[g] = word[g],
           ThreadSees(t)',
           \/ /\ word'[h] = word[h] /\ word[h] # None
              /\ \A g \in Handle : word[g] = None /\ word'[g] # None =>
                   word'[g] \in Block /\ word'[g] = word[h]
           \/ /\ word[h] = Unpromoted /\ word'[h] \in Block /\ N = {word'[h]}
    PROVE  PlainInv'
<1>1. ViewsOK /\ SeesItself /\ TypeOK /\ AccessInv /\ CallInv
  BY DEF PlainInv, IndInv
<1>0. pc[t] = "idle" /\ access[h] = {t} /\ Acts(t) /\ cur[t] = None
  BY <1>1 DEF MayConsume, Acts, CallInv, IdleInv
<1>2. /\ \A u \in Thread \ {t} : view'[u] = view[u] \ N
      /\ view'[t] = know \cup N
      /\ \A g \in Handle \ {h} :
           wordView'[g] = wordView[g] \ N /\ backView'[g] = backView[g] \ N
      /\ wordView'[h] = {} /\ backView'[h] = {}
      /\ \A b \in Block : refView'[b] = refView[b] \ N
  BY <1>1 DEF Exclusive, Sees, Outdate, ViewsOK
<1>3. ViewsOK'
  BY <1>1 DEF Exclusive, Sees, Outdate, ViewsOK, Fact
<1>4. SeesItself'
  BY <1>1, <1>2, FactAssumption DEF SeesItself, Owned
<1>5. ASSUME NEW u \in Thread \ {t} PROVE ThreadSees(u)'
  <2>1. \A g \in Handle : u \in access[g] => word[g] # None /\ g # h
    BY <1>0, <1>1 DEF AccessInv
  <2>2. \A g \in Handle : u \in access[g] =>
               /\ \A f \in wordView[g] : f \in N \/ f \in wordView'[g]
               /\ word'[g] = word[g] \/ word'[g] \in wordView'[g]
    BY <1>2, <2>1
  <2>3. \A f \in view[u] : f \in N \/ f \in view'[u]
    BY <1>2
  <2>4. \A g \in Handle : t \in access[g] \/ \A f \in backView'[g] : f \in backView[g]
    BY <1>2
  <2> QED BY <1>0, <1>3, <2>2, <2>3, <2>4, OthersSee
<1>6. ASSUME NEW g \in Handle, NEW f \in Fact, word[g] # None, KnownBy(f, g)
      PROVE  f \in N \/ KnownBy(f, g)'
  <2>1. CASE g = h
    BY <1>2, <1>6, <2>1, OwnerKnows DEF KnownBy
  <2>2. CASE g # h
    <3>1. \A u \in Thread : Carries(u, g) => Carries(u, g)'
      BY <1>0, <2>2, DistinctAssumption DEF Carries
    <3>2. \A u \in Thread : \A x \in view[u] : x \in N \/ x \in view'[u]
      BY <1>2 DEF Owned
    <3>3. \A x \in backView[g] : x \in N \/ x \in backView'[g]
      BY <1>2, <2>2
    <3> QED BY <1>6, <3>1, <3>2, <3>3, StaysKnown
  <2> QED BY <2>1, <2>2
<1>7. CASE word'[h] = word[h] /\ word[h] # None /\
           \A g \in Handle : word[g] = None /\ word'[g] # None =>
                   word'[g] \in Block /\ word'[g] = word[h]
  <2>1. t \in N => KnownBy(t, h)'
    BY <1>2 DEF KnownBy
  <2>2. \A b \in Block : \A f \in refView[b] : f \in N \/ f \in refView'[b]
    BY <1>2
  <2>3. Lossless'
    BY <1>0, <1>6, <1>7, <2>1, <2>2, NothingLostIf
  <2> QED BY <1>3, <1>4, <1>5, <2>3 DEF PlainInv
<1>8. CASE word[h] = Unpromoted /\ word'[h] \in Block /\ N = {word'[h]}
  <2>1. \A f \in Thread : KnownBy(f, h)
    BY <1>8 DEF PlainInv, Lossless, HandleKnows
  <2>2. \A f \in Thread : f \in Owned(t, h)
    BY <2>1, OwnerKnows
  <2>3. \A f \in Thread \cup {word'[h]} : KnownBy(f, h)'
    BY <1>2, <1>8, <2>2 DEF KnownBy
  <2>4. \A u \in Thread : pc'[u] \notin Ending
    BY <1>0, ActsAlone
  <2>5. Lossless'
    BY <1>8, <2>3, <2>4, NewBlockKnown
  <2> QED BY <1>3, <1>4, <1>5, <2>5 DEF PlainInv
<1> QED BY <1>7, <1>8

(* Most states of a call ask for nothing.                                  *)
LEMMA NothingToSee ==
    ASSUME NEW t \in Thread,
           pc'[t] \notin {"cas", "release", "intoVec", "intoMut", "reclaim", "copyOut"}
    PROVE  ThreadSees(t)'
BY DEF ThreadSees, HasConsumed

(* No message, nothing new.                                                *)
LEMMA QuietIsLocal ==
    ASSUME ViewsOK, UNCHANGED orderVars, NEW t \in Thread
    PROVE  Local(t, view[t], {})
BY DEF ViewsOK, orderVars, Local, Sees, Outdate

-----------------------------------------------------------------------------
(* One lemma for each kind of step.                                        *)

(* clone_inner loads the word.                                             *)
LEMMA LoadsWordPreserves ==
    ASSUME IndInv, IndInv', PlainInv, NEW t \in Thread, NEW h \in Handle, LoadsWord(t, h)
    PROVE  PlainInv'
<1> USE DEF LoadsWord, ClonePromoted, Begin, MayBorrow
<1>1. TypeOK /\ ViewsOK /\ CallInv
  BY DEF IndInv, PlainInv
<1>2. /\ pc[t] = "idle" /\ t \in access[h] /\ pc'[t] = "incr" /\ cur[t] = None
      /\ \A u \in Thread \ {t} :
           pc'[u] = pc[u] /\ cur'[u] = cur[u] /\ box'[u] = box[u] /\ seen'[u] = seen[u]
      /\ UNCHANGED <<word, access>>
  BY <1>1 DEF TypeOK, CallInv, IdleInv
<1>3. Local(t, view[t], {})
  BY <1>1, QuietIsLocal
<1>4. Acts(t) /\ pc'[t] \notin Ending /\ ThreadSees(t)' /\ view[t] \in SUBSET Fact
  BY <1>1, <1>2, NothingToSee DEF Acts, Ending, ViewsOK
<1>5. \A g \in Handle : Carries(t, g) => Carries(t, g)'
  BY <1>2, DistinctAssumption DEF Carries
<1> QED BY <1>2, <1>3, <1>4, <1>5, LocalPreserves

(* promote_with_vec writes a block that nobody else has.                   *)
LEMMA MakesBlockPreserves ==
    ASSUME IndInv, IndInv', PlainInv, NEW t \in Thread, NEW h \in Handle, MakesBlock(t, h)
    PROVE  PlainInv'
<1> USE DEF MakesBlock, CloneUnpromoted, Begin, MayBorrow
<1>1. TypeOK /\ ViewsOK /\ CallInv
  BY DEF IndInv, PlainInv
<1>2. /\ pc[t] = "idle" /\ t \in access[h] /\ pc'[t] = "cas" /\ cur[t] = None
      /\ cur'[t] = h /\ word[h] = Unpromoted
      /\ \A u \in Thread \ {t} :
           pc'[u] = pc[u] /\ cur'[u] = cur[u] /\ box'[u] = box[u] /\ seen'[u] = seen[u]
      /\ UNCHANGED <<word, access>>
      /\ box'[t] \in Block \ heap
  BY <1>1 DEF TypeOK, CallInv, IdleInv, Allocate
<1>3. box'[t] \in view'[t]
  BY <1>1 DEF Local, Sees, ViewsOK
<1>4. Acts(t) /\ pc'[t] \notin Ending /\ view[t] \in SUBSET Fact
  BY <1>1, <1>2 DEF Acts, Ending, ViewsOK
<1>5. ThreadSees(t)'
  BY <1>2, <1>3, DistinctAssumption DEF ThreadSees, HasConsumed
<1>6. \A g \in Handle : Carries(t, g) => Carries(t, g)'
  BY <1>2, DistinctAssumption DEF Carries
<1>7. t \notin {box'[t]}
  BY <1>2, FactAssumption
<1> QED BY <1>2, <1>4, <1>5, <1>6, <1>7, LocalPreserves

(* The Acquire of a failed compare_exchange.                               *)
LEMMA FailsToInstallPreserves ==
    ASSUME IndInv, IndInv', PlainInv, NEW t \in Thread, FailsToInstall(t)
    PROVE  PlainInv'
<1> USE DEF FailsToInstall, PromotionLost, Begin, CasWins
<1>1. TypeOK /\ ViewsOK /\ CallInv /\ AccessInv /\ ThreadSees(t)
  BY DEF IndInv, PlainInv
<1>2. /\ pc[t] = "cas" /\ pc'[t] = "release" /\ cur'[t] = cur[t]
      /\ cur[t] \in Handle /\ t \in access[cur[t]] /\ word[cur[t]] # None
      /\ seen'[t] = word[cur[t]] /\ word[cur[t]] \in Block
      /\ \A u \in Thread \ {t} :
           pc'[u] = pc[u] /\ cur'[u] = cur[u] /\ box'[u] = box[u] /\ seen'[u] = seen[u]
      /\ UNCHANGED <<word, access>>
  BY <1>1 DEF TypeOK, CallInv, PrivateInv, HasPrivateBox, AccessInv
<1>3. /\ view'[t] = view[t] \cup wordView[cur[t]]
      /\ AcquireWord(t, cur[t]) \in SUBSET Fact
  BY <1>1, <1>2 DEF Local, Sees, ViewsOK, AcquireWord
<1>4. Acts(t) /\ pc'[t] \notin Ending /\ view[t] \subseteq AcquireWord(t, cur[t])
  BY <1>1, <1>2 DEF Acts, Ending, AcquireWord
<1>5. ThreadSees(t)'
  BY <1>1, <1>2, <1>3, DistinctAssumption DEF ThreadSees, HasConsumed
<1>6. \A g \in Handle : Carries(t, g) => Carries(t, g)'
  BY <1>2 DEF Carries
<1> QED BY <1>2, <1>3, <1>4, <1>5, <1>6, LocalPreserves

(* fetch_add: the clone exists.                                            *)
LEMMA IncrementsPreserves ==
    ASSUME IndInv, IndInv', PlainInv, NEW t \in Thread, Increments(t)
    PROVE  PlainInv'
<1> USE DEF Increments, Increment, NewHandle, Return, Begin
<1>1. TypeOK /\ ViewsOK /\ CallInv /\ AccessInv
  BY DEF IndInv, PlainInv
<1>2. /\ pc[t] = "incr" /\ pc'[t] = "idle"
      /\ cur[t] \in Handle /\ t \in access[cur[t]] /\ word[cur[t]] = seen[t]
      /\ seen[t] \in Block /\ word[cur[t]] # None
      /\ \A u \in Thread \ {t} :
           pc'[u] = pc[u] /\ cur'[u] = cur[u] /\ box'[u] = box[u] /\ seen'[u] = seen[u]
  BY <1>1 DEF TypeOK, CallInv, IncrementInv, AccessInv
<1>3. PICK n \in Vacant : /\ word' = [word EXCEPT ![n] = seen[t]]
                          /\ access' = [access EXCEPT ![n] = {t}]
  OBVIOUS
<1>4. n \in Handle /\ word[n] = None /\ access[n] = {}
  BY <1>1 DEF Vacant, Holders, AccessInv
<1>5. /\ \A g \in Handle : word[g] # None => word'[g] = word[g]
      /\ \A g \in Handle : word[g] = None /\ word'[g] # None =>
           word'[g] \in Block /\ \E h \in Handle : word[h] = word'[g]
      /\ \A g \in Handle : \A u \in access[g] : u \in access'[g]
  BY <1>1, <1>2, <1>3, <1>4 DEF TypeOK
<1>6. \A g \in Handle : Carries(t, g) => Carries(t, g)'
  BY <1>2, <1>5 DEF Carries
<1>7. \E h \in Handle : word'[h] # None /\ Carries(t, h)'
  <2> PICK h : h = cur[t]
    OBVIOUS
  <2> QED BY <1>2, <1>5, <1>6 DEF Carries
<1>8. Acts(t) /\ pc'[t] \notin Ending /\ ThreadSees(t)' /\ view[t] \in SUBSET Fact
  BY <1>1, <1>2, NothingToSee DEF Acts, Ending, ViewsOK
<1>9. \A b \in heap : b \notin {t}
  BY <1>1, FactAssumption DEF TypeOK
<1>10. Local(t, view[t], {t})
  OBVIOUS
<1> HIDE DEF Increments, Increment, NewHandle, Return, Begin
<1> QED BY <1>2, <1>5, <1>6, <1>7, <1>8, <1>9, <1>10, LocalPreserves

(* reserve_inner moves the bytes.                                          *)
LEMMA MovesBytesPreserves ==
    ASSUME IndInv, IndInv', PlainInv, NEW t \in Thread, MovesBytes(t)
    PROVE  PlainInv'
<1> USE DEF MovesBytes, Reclaimed, CopiedOut, Return, Begin
<1>1. TypeOK /\ ViewsOK /\ CallInv /\ AccessInv /\ ThreadSees(t)
  BY DEF IndInv, PlainInv
<1>2. /\ pc[t] \in {"reclaim", "copyOut"}
      /\ cur[t] \in Handle /\ access[cur[t]] = {t} /\ word[cur[t]] # None
      /\ \A u \in Thread \ {t} :
           pc'[u] = pc[u] /\ cur'[u] = cur[u] /\ box'[u] = box[u] /\ seen'[u] = seen[u]
      /\ UNCHANGED word
  BY <1>1, DistinctAssumption DEF TypeOK, CallInv, ReserveInv
<1>3. /\ \A g \in Handle : \A u \in access[g] : u # t => u \in access'[g]
      /\ \A g \in Handle : Carries(t, g) => Carries(t, g)'
      /\ \E h \in Handle : word'[h] # None /\ Carries(t, h)'
  <2> PICK h : h = cur[t]
    OBVIOUS
  <2> QED BY <1>1, <1>2 DEF Carries, TypeOK
<1>4. Acts(t) /\ pc'[t] \notin Ending /\ view[t] \in SUBSET Fact
  BY <1>1, <1>2 DEF Acts, Ending, ViewsOK, TypeOK
<1>5. ThreadSees(t)'
  <2>1. CASE Reclaimed(t)
    BY <1>1, <2>1, NothingToSee DEF TypeOK
  <2>2. CASE CopiedOut(t)
    <3>1. backView[cur[t]] = {}
      BY <1>1, <1>2 DEF ThreadSees
    <3>2. pc'[t] = "release" /\ cur'[t] = cur[t] /\ seen'[t] = None
      BY <1>1, <2>2 DEF TypeOK
    <3>3. backView'[cur[t]] = {}
      BY <1>1, <1>2, <3>1 DEF Local, Outdate, ViewsOK
    <3> QED BY <3>2, <3>3 DEF ThreadSees
  <2> QED BY <2>1, <2>2
<1>6. \A b \in heap : b \notin {t}
  BY <1>1, FactAssumption DEF TypeOK
<1>7. Local(t, view[t], {t})
  OBVIOUS
<1> HIDE DEF MovesBytes, Reclaimed, CopiedOut, Return, Begin
<1> QED BY <1>2, <1>3, <1>4, <1>5, <1>6, <1>7, LocalPreserves

(* Reading or writing the bytes, and Bytes::is_unique.                     *)
LEMMA AccessPreserves ==
    ASSUME IndInv, IndInv', PlainInv, NEW t \in Thread, NEW h \in Handle,
           Access(t, h) \/ Inspect(t, h)
    PROVE  PlainInv'
<1>1. TypeOK /\ ViewsOK /\ AccessInv
  BY DEF IndInv, PlainInv
<1>2. /\ pc[t] = "idle" /\ t \in access[h] /\ word[h] # None
      /\ UNCHANGED <<word, access, pc, cur, box, seen>>
  BY <1>1 DEF Access, Inspect, MayBorrow, vars, AccessInv
<1>3. PICK know \in SUBSET Fact : view[t] \subseteq know /\ Local(t, know, {t})
  BY <1>1 DEF Access, Inspect, AcquireUnique, ViewsOK
<1>4. Acts(t) /\ pc'[t] \notin Ending /\ ThreadSees(t)'
  BY <1>2, NothingToSee DEF Acts, Ending
<1>5. Carries(t, h)' /\ \A g \in Handle : Carries(t, g) => Carries(t, g)'
  BY <1>2 DEF Carries
<1>6. \A b \in heap : b \notin {t}
  BY <1>1, FactAssumption DEF TypeOK
<1> QED BY <1>2, <1>3, <1>4, <1>5, <1>6, LocalPreserves

(* Calls that keep the handle, with or without a block.                    *)
LEMMA KeepsHandlePreserves ==
    ASSUME IndInv, IndInv', PlainInv, NEW t \in Thread, NEW h \in Handle,
           IntoMutUnpromoted(t, h) \/ FreezeInPlace(t, h) \/ DropPromoted(t, h),
           Exclusive(t, h, Owned(t, h), {})
    PROVE  PlainInv'
<1> USE DEF IntoMutUnpromoted, FreezeInPlace, Freezable, DropPromoted, ConsumePromoted,
            MayConsume, Begin, callVars
<1>1. TypeOK /\ ViewsOK /\ AccessInv /\ CallInv
  BY DEF IndInv, PlainInv
<1>2. /\ pc[t] = "idle" /\ access[h] = {t} /\ word[h] # None
      /\ \A u \in Thread \ {t} :
           pc'[u] = pc[u] /\ cur'[u] = cur[u] /\ box'[u] = box[u] /\ seen'[u] = seen[u]
      /\ UNCHANGED word
      /\ \A g \in Handle \ {h} : access'[g] = access[g]
      /\ \/ pc'[t] = "idle" /\ access'[h] = {t}
         \/ pc'[t] = "release" /\ cur'[t] = h /\ seen'[t] = None
  BY <1>1 DEF TypeOK, AccessInv
<1>3. Carries(t, h)' /\ pc'[t] \notin Ending /\ Owned(t, h) \in SUBSET Fact
  BY <1>1, <1>2 DEF Carries, Ending, Owned, ViewsOK
<1>4. backView'[h] = {}
  BY <1>1 DEF Exclusive, Outdate, ViewsOK
<1>5. ThreadSees(t)'
  BY <1>2, <1>4 DEF ThreadSees, HasConsumed
<1>6. MayConsume(t, h)
  BY <1>2
<1> HIDE DEF IntoMutUnpromoted, FreezeInPlace, Freezable, DropPromoted, ConsumePromoted,
             MayConsume, Begin, callVars
<1> QED BY <1>2, <1>3, <1>5, <1>6, ExclusivePreserves

(* Calls that end a handle without a count: no handle is left.             *)
LEMMA LeavesPreserves ==
    ASSUME IndInv, IndInv', PlainInv, NEW t \in Thread, NEW h \in Handle,
           \/ DropUnpromoted(t, h) \/ IntoVecUnpromoted(t, h)
           \/ FreezeEmpty(t, h)    \/ ReallocUnpromoted(t, h),
           Exclusive(t, h, Owned(t, h), {})
    PROVE  PlainInv'
<1> USE DEF DropUnpromoted, IntoVecUnpromoted, FreezeEmpty, ReallocUnpromoted, Freezable,
            LeaveUnpromoted, MayConsume, callVars
<1>1. TypeOK /\ ViewsOK /\ SeesItself /\ AccessInv /\ CallInv
  BY DEF IndInv, PlainInv
<1>2. /\ pc[t] = "idle" /\ access[h] = {t} /\ word[h] = Unpromoted
      /\ UNCHANGED <<pc, cur, box, seen>>
      /\ word' = [word EXCEPT ![h] = None]
  BY <1>1 DEF TypeOK
<1>3. \A g \in Handle : word'[g] = None
  BY <1>1, <1>2, UnpromotedAlone DEF TypeOK
<1>4. Acts(t)
  BY <1>2 DEF Acts
<1>5. \A u \in Thread : pc'[u] \notin Ending
  BY <1>2, <1>4, ActsAlone DEF Ending
<1>6. /\ \A u \in Thread \ {t} : view'[u] = view[u]
      /\ view'[t] = Owned(t, h)
      /\ \A g \in Handle \ {h} : wordView'[g] = wordView[g] /\ backView'[g] = backView[g]
      /\ backView'[h] = {}
  BY <1>1 DEF Exclusive, Sees, Outdate, ViewsOK
<1>7. ViewsOK'
  BY <1>1 DEF Exclusive, Sees, Outdate, ViewsOK, Fact, Owned
<1>8. SeesItself'
  BY <1>1, <1>6 DEF SeesItself, Owned
<1>9. ASSUME NEW u \in Thread \ {t} PROVE ThreadSees(u)'
  <2>1. \A g \in Handle : u \in access[g] => g # h
    BY <1>2
  <2>2. \A g \in Handle : u \in access[g] =>
               /\ \A f \in wordView[g] : f \in {} \/ f \in wordView'[g]
               /\ word'[g] = word[g] \/ word'[g] \in wordView'[g]
    BY <1>1, <1>2, <1>6, <2>1 DEF TypeOK
  <2> HIDE DEF DropUnpromoted, IntoVecUnpromoted, FreezeEmpty, ReallocUnpromoted, Freezable,
               LeaveUnpromoted, MayConsume, callVars
  <2> QED BY <1>2, <1>4, <1>6, <1>7, <2>2, OthersSee
<1>10. ThreadSees(t)'
  BY <1>2, NothingToSee
<1> QED BY <1>3, <1>5, <1>7, <1>8, <1>9, <1>10, NothingLeftToLose DEF PlainInv

(* Calls that touch the block of a handle.                                 *)
LEMMA TouchesBlockPreserves ==
    ASSUME IndInv, IndInv', PlainInv, NEW t \in Thread, NEW h \in Handle, TouchesBlock(t, h)
    PROVE  PlainInv'
<1> USE DEF TouchesBlock, SplitPromoted, IntoVecPromoted, IntoMutPromoted, ConsumePromoted,
            MayConsume, Begin, callVars
<1>1. TypeOK /\ ViewsOK /\ AccessInv /\ CallInv
  BY DEF IndInv, PlainInv
<1>2. /\ pc[t] = "idle" /\ access[h] = {t} /\ word[h] \in Block /\ word[h] # None
      /\ \A u \in Thread \ {t} :
           pc'[u] = pc[u] /\ cur'[u] = cur[u] /\ box'[u] = box[u] /\ seen'[u] = seen[u]
      /\ \/ pc'[t] = "idle" /\ access'[h] = {t}
         \/ pc'[t] \in {"intoVec", "intoMut"} /\ cur'[t] = h /\ seen'[t] = None
      /\ word'[h] = word[h]
      /\ \A g \in Handle \ {h} : \A u \in access[g] : u \in access'[g]
      /\ \A g \in Handle \ {h} : word[g] # None => word'[g] = word[g]
      /\ \A g \in Handle : word[g] = None /\ word'[g] # None => word'[g] = word[h]
  <2>0. word[h] # None
    BY <1>1, DistinctAssumption
  <2>1. CASE SplitPromoted(t, h)
    <3>1. PICK n \in Handle : NewHandle(t, n, kind[h], word[h])
      BY <2>1
    <3>2. n # h /\ word[n] = None /\ access[n] = {}
      BY <1>1, <2>0, <3>1 DEF NewHandle, Vacant, Holders, AccessInv
    <3> QED BY <1>1, <2>0, <2>1, <3>1, <3>2 DEF TypeOK, NewHandle
  <2>2. CASE IntoVecPromoted(t, h) \/ IntoMutPromoted(t, h)
    BY <1>1, <2>0, <2>2 DEF TypeOK
  <2> QED BY <2>1, <2>2
<1>3. Carries(t, h)' /\ pc'[t] \notin Ending /\ Owned(t, h) \in SUBSET Fact
  BY <1>1, <1>2 DEF Carries, Ending, Owned, ViewsOK
<1>4. backView'[h] = {}
  BY <1>1 DEF Exclusive, Outdate, ViewsOK
<1>5. ThreadSees(t)'
  BY <1>2, <1>4 DEF ThreadSees, HasConsumed
<1>6. \A b \in heap : b \notin {t}
  BY <1>1, FactAssumption DEF TypeOK
<1>7. MayConsume(t, h) /\ Exclusive(t, h, Owned(t, h), {t})
  BY <1>2
<1> HIDE DEF TouchesBlock, SplitPromoted, IntoVecPromoted, IntoMutPromoted, ConsumePromoted,
            MayConsume, Begin, callVars
<1> QED BY <1>2, <1>3, <1>5, <1>6, <1>7, ExclusivePreserves

(* Calls that make a block and store it in their own handle.               *)
LEMMA StoresBlockPreserves ==
    ASSUME IndInv, IndInv', PlainInv, NEW t \in Thread, NEW h \in Handle, StoresBlock(t, h)
    PROVE  PlainInv'
<1> USE DEF StoresBlock, SplitUnpromoted, FreezePromoting, Freezable, MayConsume, callVars,
            Allocate
<1>1. TypeOK /\ ViewsOK /\ AccessInv /\ CallInv
  BY DEF IndInv, PlainInv
<1>2. /\ pc[t] = "idle" /\ access[h] = {t} /\ word[h] = Unpromoted
      /\ UNCHANGED <<pc, cur, box, seen>>
      /\ word'[h] \in Block \ heap /\ access'[h] = {t}
      /\ \A g \in Handle \ {h} : \A u \in access[g] : u \in access'[g]
      /\ \A g \in Handle \ {h} : word[g] # None => word'[g] = word[g]
  <2>1. CASE SplitUnpromoted(t, h)
    <3>1. PICK b \in Block \ heap, n \in Vacant :
            /\ word' = [word EXCEPT ![h] = b, ![n] = b]
            /\ access' = [access EXCEPT ![n] = {t}]
      BY <2>1
    <3>2. n # h /\ word[n] = None /\ access[n] = {} /\ n \in Handle
      BY <1>1, <2>1, DistinctAssumption DEF Vacant, Holders, AccessInv
    <3> QED BY <1>1, <2>1, <3>1, <3>2 DEF TypeOK
  <2>2. CASE FreezePromoting(t, h)
    BY <1>1, <2>2 DEF TypeOK
  <2> QED BY <2>1, <2>2
<1>3. Carries(t, h)' /\ pc'[t] \notin Ending /\ Owned(t, h) \in SUBSET Fact
  BY <1>1, <1>2 DEF Carries, Ending, Owned, ViewsOK
<1>4. ThreadSees(t)'
  BY <1>2, NothingToSee
<1>5. MayConsume(t, h) /\ Exclusive(t, h, Owned(t, h), {word'[h]})
  BY <1>2
<1> HIDE DEF StoresBlock, SplitUnpromoted, FreezePromoting, Freezable, MayConsume, callVars,
             Allocate
<1> QED BY <1>2, <1>3, <1>4, <1>5, ExclusivePreserves

(* reserve_inner asks whether the handle is the only one: if it is, all    *)
(* there is to know is known of this handle or left with the count.        *)
LEMMA AsksUniquePreserves ==
    ASSUME IndInv, IndInv', PlainInv, NEW t \in Thread, NEW h \in Handle, AsksUnique(t, h)
    PROVE  PlainInv'
<1> DEFINE b == word[h]
           know == Owned(t, h) \cup refView[b]
<1>1. TypeOK /\ ViewsOK /\ AccessInv /\ CallInv
  BY DEF IndInv, PlainInv
<1>2. /\ pc[t] = "idle" /\ access[h] = {t} /\ b \in Block /\ b # None
      /\ \A u \in Thread \ {t} :
           pc'[u] = pc[u] /\ cur'[u] = cur[u] /\ box'[u] = box[u] /\ seen'[u] = seen[u]
      /\ pc'[t] = IF IsUnique(b) THEN "reclaim" ELSE "copyOut"
      /\ cur'[t] = h
      /\ UNCHANGED <<word, access>>
  BY <1>1, DistinctAssumption
  DEF AsksUnique, ReservePromoted, MayConsume, Begin, TypeOK
<1>3. /\ MayConsume(t, h) /\ Exclusive(t, h, know, {t})
      /\ know \in SUBSET Fact /\ Owned(t, h) \subseteq know
  BY <1>1, <1>2 DEF AsksUnique, AcquireUnique, MayConsume, ViewsOK, Owned
<1>4. view'[t] = know \cup {t} /\ backView'[h] = {}
  BY <1>1, <1>3 DEF Exclusive, Sees, Outdate, ViewsOK
<1>5. ASSUME IsUnique(b), NEW f \in Thread \cup {b} PROVE f \in view'[t]
  <2>1. f \in refView[b] \/ \E g \in Handle : word[g] = b /\ KnownBy(f, g)
    BY <1>2 DEF PlainInv, Lossless, BlockKnows
  <2>2. \A g \in Handle : word[g] = b => g = h
    BY <1>2, <1>5, SoleHolder DEF IsUnique
  <2>3. KnownBy(f, h) => f \in Owned(t, h)
    BY <1>3, OwnerKnows
  <2> QED BY <1>4, <2>1, <2>2, <2>3
<1>6. ThreadSees(t)'
  BY <1>2, <1>4, <1>5 DEF ThreadSees, HasConsumed
<1>7. \A x \in heap : x \notin {t}
  BY <1>1, FactAssumption DEF TypeOK
<1>8. Carries(t, h)' /\ pc'[t] \notin Ending
  BY <1>2 DEF Carries, Ending
<1> HIDE DEF know
<1> QED BY <1>2, <1>3, <1>6, <1>7, <1>8, ExclusivePreserves

(* Who is given a reference to a handle sees what the giver has seen.      *)
LEMMA LendsPreserves ==
    ASSUME IndInv, IndInv', PlainInv, NEW t \in Thread, NEW v \in Thread, NEW h \in Handle,
           Lends(t, v, h)
    PROVE  PlainInv'
<1> USE DEF Lends, Lend, MayBorrow, callVars
<1>1. TypeOK /\ ViewsOK /\ SeesItself /\ AccessInv
  BY DEF IndInv, PlainInv
<1>2. /\ pc[t] = "idle" /\ t \in access[h] /\ UNCHANGED <<pc, cur, box, seen, word>>
      /\ \A g \in Handle : \A u \in access[g] : u \in access'[g]
      /\ UNCHANGED <<wordView, refView, backView>>
  BY <1>1 DEF TypeOK
<1>3. \A u \in Thread : \A f \in view[u] : f \in view'[u]
  BY <1>1 DEF ViewsOK
<1>4. ViewsOK' /\ SeesItself' /\ Acts(t)
  BY <1>1, <1>2, <1>3 DEF ViewsOK, SeesItself, Acts
<1> HIDE DEF Lends, Lend, MayBorrow, callVars
<1>5. ASSUME NEW u \in Thread \ {t} PROVE ThreadSees(u)'
  <2>0. PICK N : N = {}
    OBVIOUS
  <2>1. \A g \in Handle : u \in access[g] =>
               /\ \A f \in wordView[g] : f \in N \/ f \in wordView'[g]
               /\ word'[g] = word[g] \/ word'[g] \in wordView'[g]
    BY <1>2
  <2>2. \A g \in Handle : t \in access[g] \/ \A f \in backView'[g] : f \in backView[g]
    BY <1>2
  <2>9. (\A x \in heap : x \notin N) /\ \A f \in view[u] : f \in N \/ f \in view'[u]
    BY <2>0, <1>2, <1>3
  <2> QED BY <2>9, <1>2, <1>3, <1>4, <2>1, <2>2, OthersSee
<1>6. ThreadSees(t)'
  BY <1>2, NothingToSee
<1>7. ASSUME NEW g \in Handle, NEW f \in Fact, KnownBy(f, g) PROVE KnownBy(f, g)'
  BY <1>2, <1>3, <1>7 DEF KnownBy, Carries
<1>8. Lossless'
  <2>1. pc'[t] \notin Ending
    BY <1>2 DEF Ending
  <2>2. PICK N : N = {}
    OBVIOUS
  <2>3. /\ N \subseteq {t} \cup Block /\ t \notin N /\ \A b \in heap : b \notin N
        /\ \A g \in Handle, f \in Fact :
             word[g] # None /\ KnownBy(f, g) => f \in N \/ KnownBy(f, g)'
        /\ \A b \in Block : \A f \in refView[b] : f \in N \/ f \in refView'[b]
    BY <1>2, <1>7, <2>2
  <2> QED BY <1>2, <1>4, <2>1, <2>3, NothingLostIf
<1> QED BY <1>4, <1>5, <1>6, <1>8 DEF PlainInv

(* Who is given the handle learns what those who gave it back had seen.    *)
LEMMA SendsPreserves ==
    ASSUME IndInv, IndInv', PlainInv, NEW t \in Thread, NEW v \in Thread, NEW h \in Handle,
           Sends(t, v, h)
    PROVE  PlainInv'
<1> USE DEF Sends, Send, callVars
<1>1. TypeOK /\ ViewsOK /\ SeesItself /\ AccessInv /\ CallInv
  BY DEF IndInv, PlainInv
<1>2. /\ pc[t] = "idle" /\ access[h] = {t} /\ UNCHANGED <<pc, cur, box, seen, word>>
      /\ \A g \in Handle \ {h} : access'[g] = access[g]
      /\ access'[h] = {v}
      /\ \A g \in Handle \ {h} : wordView'[g] = wordView[g] /\ backView'[g] = backView[g]
      /\ UNCHANGED refView
      /\ MayConsume(t, h)
      /\ \A f \in backView'[h] : FALSE
  BY <1>1 DEF TypeOK, ViewsOK, MayConsume
<1>3. \A u \in Thread : \A f \in view[u] : f \in view'[u]
  BY <1>1 DEF ViewsOK
<1>4. /\ \A f \in Owned(t, h) : f \in view'[v]
      /\ ViewsOK' /\ SeesItself' /\ Acts(t)
  BY <1>1, <1>2, <1>3 DEF ViewsOK, SeesItself, Acts, Owned
<1> HIDE DEF Sends, Send, callVars
<1>5. ASSUME NEW u \in Thread \ {t} PROVE ThreadSees(u)'
  <2>1. \A g \in Handle : u \in access[g] =>
               /\ \A f \in wordView[g] : f \in {} \/ f \in wordView'[g]
               /\ word'[g] = word[g] \/ word'[g] \in wordView'[g]
    BY <1>2
  <2> QED BY <1>2, <1>3, <1>4, <2>1, OthersSee
<1>6. ThreadSees(t)'
  BY <1>2, NothingToSee
<1>7. ASSUME NEW g \in Handle, NEW f \in Fact, KnownBy(f, g) PROVE KnownBy(f, g)'
  <2>1. CASE g = h
    <3>1. f \in Owned(t, h)
      BY <1>2, <1>7, <2>1, OwnerKnows
    <3> QED BY <1>2, <1>4, <2>1, <3>1 DEF KnownBy, Carries
  <2>2. CASE g # h
    BY <1>2, <1>3, <1>7, <2>2 DEF KnownBy, Carries
  <2> QED BY <2>1, <2>2
<1>8. Lossless'
  <2>1. pc'[t] \notin Ending
    BY <1>2 DEF Ending
  <2>2. PICK N : N = {}
    OBVIOUS
  <2>3. /\ N \subseteq {t} \cup Block /\ t \notin N /\ \A b \in heap : b \notin N
        /\ \A g \in Handle, f \in Fact :
             word[g] # None /\ KnownBy(f, g) => f \in N \/ KnownBy(f, g)'
        /\ \A b \in Block : \A f \in refView[b] : f \in N \/ f \in refView'[b]
    BY <1>2, <1>7, <2>2
  <2> QED BY <1>2, <1>4, <2>1, <2>3, NothingLostIf
<1> QED BY <1>4, <1>5, <1>6, <1>8 DEF PlainInv

(* What a borrower has seen stays with the handle when it gives it back.   *)
LEMMA GivesBackPreserves ==
    ASSUME IndInv, IndInv', PlainInv, NEW t \in Thread, NEW h \in Handle, GivesBack(t, h)
    PROVE  PlainInv'
<1> USE DEF GivesBack, GiveBack, MayBorrow, callVars
<1>1. TypeOK /\ ViewsOK /\ SeesItself /\ AccessInv /\ CallInv
  BY DEF IndInv, PlainInv
<1>2. /\ pc[t] = "idle" /\ t \in access[h] /\ UNCHANGED <<pc, cur, box, seen, word>>
      /\ \A g \in Handle : \A u \in access[g] : u \in access'[g] \/ (g = h /\ u = t)
      /\ UNCHANGED <<view, wordView, refView>>
      /\ \A f \in view[t] : f \in backView'[h]
      /\ \A g \in Handle : \A f \in backView[g] : f \in backView'[g]
      /\ \A g \in Handle \ {h} : backView'[g] = backView[g]
      /\ cur[t] = None
  BY <1>1 DEF TypeOK, ViewsOK, CallInv, IdleInv
<1>3. ViewsOK' /\ SeesItself' /\ Acts(t)
  BY <1>1, <1>2 DEF ViewsOK, SeesItself, Acts
<1> HIDE DEF GivesBack, GiveBack, MayBorrow, callVars
<1>4. ASSUME NEW u \in Thread \ {t} PROVE ThreadSees(u)'
  <2>0. PICK N : N = {}
    OBVIOUS
  <2>1. \A g \in Handle : t \in access[g] \/ \A f \in backView'[g] : f \in backView[g]
    BY <1>2
  <2>2. \A f \in view[u] : f \in N \/ f \in view'[u]
    BY <1>2
  <2>3. \A g \in Handle : u \in access[g] =>
               /\ \A f \in wordView[g] : f \in N \/ f \in wordView'[g]
               /\ word'[g] = word[g] \/ word'[g] \in wordView'[g]
    BY <1>2
  <2>9. (\A x \in heap : x \notin N) /\ \A f \in view[u] : f \in N \/ f \in view'[u]
    BY <2>0, <1>2, <1>3
  <2> QED BY <2>9, <1>2, <1>3, <2>1, <2>2, <2>3, OthersSee
<1>5. ThreadSees(t)'
  BY <1>2, NothingToSee
<1>6. ASSUME NEW g \in Handle, NEW f \in Fact, KnownBy(f, g) PROVE KnownBy(f, g)'
  <2>1. CASE f \in backView[g]
    BY <1>2, <2>1 DEF KnownBy
  <2>2. ASSUME NEW u \in Thread, Carries(u, g), f \in view[u] PROVE KnownBy(f, g)'
    BY <1>2, <2>2, DistinctAssumption DEF KnownBy, Carries
  <2> QED BY <1>6, <2>1, <2>2 DEF KnownBy
<1>7. Lossless'
  <2>1. pc'[t] \notin Ending
    BY <1>2 DEF Ending
  <2>2. PICK N : N = {}
    OBVIOUS
  <2>3. /\ N \subseteq {t} \cup Block /\ t \notin N /\ \A b \in heap : b \notin N
        /\ \A g \in Handle, f \in Fact :
             word[g] # None /\ KnownBy(f, g) => f \in N \/ KnownBy(f, g)'
        /\ \A b \in Block : \A f \in refView[b] : f \in N \/ f \in refView'[b]
    BY <1>2, <1>6, <2>2
  <2> QED BY <1>2, <1>3, <2>1, <2>3, NothingLostIf
<1> QED BY <1>3, <1>4, <1>5, <1>7 DEF PlainInv

(* Steps inside a call that touch nothing others can see.                  *)
LEMMA ContinuesPreserves ==
    ASSUME IndInv, IndInv', PlainInv, NEW t \in Thread, Continues(t)
    PROVE  PlainInv'
<1>1. TypeOK /\ ViewsOK /\ CallInv /\ ThreadSees(t)
  BY DEF IndInv, PlainInv
<1>2. CASE ReclaimFails(t)
  <2> USE DEF ReclaimFails, Goto
  <2>1. /\ pc[t] = "reclaim" /\ pc'[t] = "copyOut"
        /\ \A u \in Thread \ {t} : pc'[u] = pc[u]
        /\ UNCHANGED <<word, access, cur, box, seen>> /\ UNCHANGED orderVars
    BY <1>1, <1>2 DEF TypeOK, Continues, Copied
  <2>2. Local(t, view[t], {}) /\ view[t] \in SUBSET Fact
    BY <1>1, <2>1, QuietIsLocal DEF ViewsOK
  <2>3. ThreadSees(t)'
    BY <1>1, <2>1 DEF ThreadSees, HasConsumed, orderVars
  <2>4. Acts(t) /\ pc'[t] \notin Ending /\ \A g \in Handle : Carries(t, g) => Carries(t, g)'
    BY <2>1 DEF Acts, Ending, Carries
  <2> HIDE DEF ReclaimFails, Goto
  <2> QED BY <2>1, <2>2, <2>3, <2>4, LocalPreserves
<1>3. CASE Copied(t)
  <2>1. /\ pc[t] = "copy" /\ pc'[t] = "idle" /\ cur[t] = None
        /\ \A u \in Thread \ {t} :
             pc'[u] = pc[u] /\ cur'[u] = cur[u] /\ box'[u] = box[u] /\ seen'[u] = seen[u]
        /\ UNCHANGED <<word, access, view, wordView, refView, backView>>
    BY <1>1, <1>3
    DEF Copied, Return, Begin, TypeOK, CallInv, IdleInv, Continues, orderVars, ReclaimFails
  <2>2. cur'[t] = None
    BY <1>1, <1>3 DEF Copied, Return, Begin, TypeOK
  <2>3. \A u \in Thread, g \in Handle : Carries(u, g)' <=> Carries(u, g)
    BY <2>1, <2>2 DEF Carries
  <2>4. \A g \in Handle : \A f : KnownBy(f, g)' <=> KnownBy(f, g)
    BY <2>1, <2>3 DEF KnownBy
  <2>5. Lossless'
    <3>1. \A u \in Thread : LastKnows(u)'
      BY <2>1 DEF PlainInv, Lossless, LastKnows, Ending
    <3>2. \A g \in Handle : HandleKnows(g)'
      BY <2>1, <2>4 DEF PlainInv, Lossless, HandleKnows
    <3>3. \A b \in Block : BlockKnows(b)'
      BY <2>1, <2>4 DEF PlainInv, Lossless, BlockKnows
    <3> QED BY <3>1, <3>2, <3>3 DEF Lossless
  <2>6. \A u \in Thread \ {t} : ThreadSees(u)'
    BY <2>1 DEF PlainInv, ThreadSees, HasConsumed
  <2>7. ThreadSees(t)'
    BY <2>1, NothingToSee
  <2> QED BY <2>1, <2>5, <2>6, <2>7 DEF PlainInv, ViewsOK, SeesItself
<1> QED BY <1>2, <1>3 DEF Continues

(* compare_exchange installs the block: its word keeps what t has seen.    *)
LEMMA InstallsPreserves ==
    ASSUME IndInv, IndInv', PlainInv, NEW t \in Thread, Installs(t)
    PROVE  PlainInv'
<1>1. TypeOK /\ ViewsOK /\ SeesItself /\ AccessInv /\ CallInv /\ ThreadSees(t)
  BY DEF IndInv, PlainInv
<1>2. PICK h, b : h = cur[t] /\ b = box[t]
  OBVIOUS
<1>3. /\ pc[t] = "cas" /\ h \in Handle /\ t \in access[h] /\ word[h] = Unpromoted
      /\ b \in heap /\ b \in Block /\ b \in view[t]
  BY <1>1, <1>2
  DEF Installs, Promote, CasWins, CallInv, PrivateInv, HasPrivateBox, ThreadSees, TypeOK
<1>4. PICK n \in Vacant : /\ word' = [word EXCEPT ![h] = b, ![n] = b]
                          /\ access' = [access EXCEPT ![n] = {t}]
  BY <1>2 DEF Installs, Promote
<1>5. n # h /\ n \in Handle /\ word[n] = None /\ access[n] = {}
  BY <1>1, <1>3, <1>4, DistinctAssumption DEF Vacant, Holders, AccessInv
<1>6. /\ word'[h] = b
      /\ \A g \in Handle : g # h /\ g # n => word'[g] = word[g]
      /\ \A g \in Handle : \A u \in access[g] : u \in access'[g]
      /\ pc'[t] = "idle"
      /\ \A u \in Thread \ {t} :
           pc'[u] = pc[u] /\ cur'[u] = cur[u] /\ box'[u] = box[u] /\ seen'[u] = seen[u]
  BY <1>1, <1>3, <1>4, <1>5 DEF Installs, Promote, Return, Begin, TypeOK
<1>7. /\ view'[t] = view[t] \cup wordView[h]
      /\ \A u \in Thread \ {t} : view'[u] = view[u]
      /\ wordView'[h] = view[t] \cup wordView[h]
      /\ \A g \in Handle \ {h} : wordView'[g] = wordView[g]
      /\ UNCHANGED <<refView, backView>>
  BY <1>1, <1>2, <1>3 DEF Installs, Sees, AcquireWord, ViewsOK
<1>8. ViewsOK'
  BY <1>1, <1>2, <1>3 DEF Installs, Sees, AcquireWord, ViewsOK
<1>9. SeesItself' /\ Acts(t)
  BY <1>1, <1>3, <1>7 DEF SeesItself, Acts
<1>10. ASSUME NEW u \in Thread \ {t} PROVE ThreadSees(u)'
  <2>0. PICK N : N = {}
    OBVIOUS
  <2>1. \A g \in Handle : u \in access[g] =>
               /\ \A f \in wordView[g] : f \in N \/ f \in wordView'[g]
               /\ word'[g] = word[g] \/ word'[g] \in wordView'[g]
    BY <1>3, <1>5, <1>6, <1>7
  <2>2. \A g \in Handle : t \in access[g] \/ \A f \in backView'[g] : f \in backView[g]
    BY <1>7
  <2>3. \A x \in heap : x \notin N
    BY <2>0
  <2>4. \A f \in view[u] : f \in N \/ f \in view'[u]
    BY <1>7
  <2>5. pc'[u] = pc[u] /\ cur'[u] = cur[u] /\ box'[u] = box[u] /\ seen'[u] = seen[u]
    BY <1>6
  <2> QED BY <1>8, <1>9, <2>1, <2>2, <2>3, <2>4, <2>5, OthersSee
<1>11. ThreadSees(t)'
  BY <1>6, NothingToSee
<1>12. Lossless'
  <2>1. \A f \in Thread : KnownBy(f, h)
    BY <1>3 DEF PlainInv, Lossless, HandleKnows
  <2>2. Carries(t, h)' /\ \A u \in Thread : Carries(u, h) => Carries(u, h)'
    BY <1>3, <1>6 DEF Carries
  <2>3. \A f \in Thread : KnownBy(f, h)'
    BY <1>7, <2>1, <2>2 DEF KnownBy
  <2>4. KnownBy(b, h)'
    <3>1. b \in view'[t]
      BY <1>3, <1>7
    <3>2. PICK c : c = b
      OBVIOUS
    <3> QED BY <2>2, <3>1 DEF KnownBy
  <2>5. \A u \in Thread : pc'[u] \notin Ending
    BY <1>6, <1>9, ActsAlone DEF Ending
  <2> QED BY <1>3, <1>6, <2>3, <2>4, <2>5, NewBlockKnown
<1> QED BY <1>8, <1>9, <1>10, <1>11, <1>12 DEF PlainInv

(* fetch_sub(Release): what t has seen, it leaves with the count.          *)
LEMMA DecrementsPreserves ==
    ASSUME IndInv, IndInv', PlainInv, NEW t \in Thread, Decrements(t)
    PROVE  PlainInv'
<1>1. TypeOK /\ ViewsOK /\ SeesItself /\ AccessInv /\ CallInv /\ ThreadSees(t)
  BY DEF IndInv, PlainInv
<1>2. PICK h, b : h = cur[t] /\ b = box[t]
  OBVIOUS
<1>3. /\ pc[t] \in {"release", "intoVec", "intoMut"}
      /\ HasPrivateBox(t) \/ HasConsumed(t)
      /\ h \in Handle /\ b \in Block /\ Acts(t)
  BY <1>1, <1>2
  DEF Decrements, Release, ReleaseIntoVec, HasPrivateBox, HasConsumed, CallInv, PrivateInv,
      ConsumedInv, TypeOK, Acts
<1>4. /\ view'[t] = view[t] \cup {t}
      /\ \A u \in Thread \ {t} : view'[u] = view[u] \ {t}
      /\ \A g \in Handle : wordView'[g] = wordView[g] \ {t} /\ backView'[g] = backView[g] \ {t}
      /\ \A x \in Block \ {b} : refView'[x] = refView[x] \ {t}
      /\ refView'[b] = refView[b] \cup view[t] \cup {t}
  BY <1>1, <1>2, <1>3 DEF Decrements, Sees, Outdate, ReleaseCount, ViewsOK
<1>5. ViewsOK' /\ SeesItself'
  BY <1>1, <1>2, <1>3, <1>4 DEF Decrements, Sees, Outdate, ReleaseCount, ViewsOK, SeesItself, Fact
<1>6. /\ \A u \in Thread \ {t} :
           pc'[u] = pc[u] /\ cur'[u] = cur[u] /\ box'[u] = box[u] /\ seen'[u] = seen[u]
      /\ UNCHANGED access
  BY <1>1 DEF Decrements, Release, ReleaseIntoVec, AfterRelease, Return, Begin, Goto, TypeOK
<1>7. \A x \in heap : x \notin {t}
  BY <1>1, FactAssumption DEF TypeOK
<1>8. ASSUME \A g \in Handle : access[g] # {} => word'[g] = word[g],
             NEW u \in Thread \ {t}
      PROVE  ThreadSees(u)'
  <2>0. PICK N : N = {t}
    OBVIOUS
  <2>1. \A g \in Handle : u \in access[g] =>
               /\ \A f \in wordView[g] : f \in N \/ f \in wordView'[g]
               /\ word'[g] = word[g] \/ word'[g] \in wordView'[g]
    BY <1>4, <1>8, <2>0
  <2>2. \A g \in Handle : t \in access[g] \/ \A f \in backView'[g] : f \in backView[g]
    BY <1>4
  <2>3. \A x \in heap : x \notin N
    BY <1>7, <2>0
  <2>4. \A f \in view[u] : f \in N \/ f \in view'[u]
    BY <1>4, <2>0
  <2>5. pc'[u] = pc[u] /\ cur'[u] = cur[u] /\ box'[u] = box[u] /\ seen'[u] = seen[u]
    BY <1>6
  <2>6. Acts(t) /\ ViewsOK'
    BY <1>3, <1>5
  <2> QED BY <2>1, <2>2, <2>3, <2>4, <2>5, <2>6, OthersSee
<1>9. CASE HasPrivateBox(t)
  <2>1. /\ t \in access[h] /\ seen[t] # None /\ ref[b] = 2 /\ pc[t] = "release" /\ word[h] # None
    BY <1>1, <1>2, <1>3, <1>9 DEF CallInv, PrivateInv, HasPrivateBox, AccessInv
  <2>2. UNCHANGED word /\ pc'[t] = "incr" /\ cur'[t] = h
    BY <1>1, <1>2, <2>1
    DEF Decrements, Release, ReleaseIntoVec, Decrement, WasLast, AfterRelease, Begin, TypeOK
  <2>3. ThreadSees(t)' /\ pc'[t] \notin Ending
    BY <2>2, NothingToSee DEF Ending
  <2>4. \A u \in Thread, g \in Handle : Carries(u, g) => Carries(u, g)'
    BY <1>2, <1>6, <2>2 DEF Carries
  <2>5. ASSUME NEW g \in Handle, NEW f \in Fact, KnownBy(f, g)
        PROVE  f \in {t} \/ KnownBy(f, g)'
    BY <1>4, <2>4, <2>5 DEF KnownBy
  <2>6. KnownBy(t, h)'
    BY <1>4, <1>6, <2>1 DEF KnownBy, Carries
  <2>7. \A x \in Block : \A f \in refView[x] : f \in {t} \/ f \in refView'[x]
    BY <1>4
  <2>8. Lossless'
    BY <1>3, <1>6, <1>7, <2>1, <2>2, <2>3, <2>5, <2>6, <2>7, NothingLostIf
  <2> QED BY <1>5, <1>8, <2>2, <2>3, <2>8 DEF PlainInv
<1>10. CASE HasConsumed(t)
  <2>1. /\ access[h] = {} /\ word[h] = b /\ seen[t] = None /\ backView[h] = {}
        /\ \A u \in Thread \ {t} : cur[u] # h
    BY <1>1, <1>2, <1>3, <1>10 DEF CallInv, ConsumedInv, ThreadSees
  <2>2. /\ word' = [word EXCEPT ![h] = None]
        /\ WasLast(b) => pc'[t] \in Ending /\ box'[t] = b
        /\ ~ WasLast(b) => pc'[t] \in {"idle", "copy"}
    BY <1>1, <1>2, <2>1
    DEF Decrements, Release, ReleaseIntoVec, Decrement, AfterRelease, Return, Begin, Goto, TypeOK,
        Ending
  <2>3. ThreadSees(t)'
    BY <2>2, NothingToSee DEF Ending
  <2>4. ASSUME NEW f \in Thread \cup {b}
        PROVE  \/ f \in refView'[b]
               \/ \E g \in Handle : g # h /\ word[g] = b /\ KnownBy(f, g)'
    <3>1. \/ f \in refView[b]
          \/ \E g \in Handle : word[g] = b /\ KnownBy(f, g)
      BY <1>3, <2>1 DEF PlainInv, Lossless, BlockKnows
    <3>2. ASSUME KnownBy(f, h) PROVE f \in view[t]
      BY <2>1, <3>2 DEF KnownBy, Carries
    <3>3. ASSUME NEW g \in Handle, g # h, KnownBy(f, g), f # t PROVE KnownBy(f, g)'
      <4>1. \A u \in Thread : Carries(u, g) => Carries(u, g)'
        BY <1>2, <1>6, <3>3 DEF Carries
      <4> QED BY <1>4, <3>3, <4>1 DEF KnownBy
    <3> QED BY <1>4, <3>1, <3>2, <3>3
  <2>5. \A g \in Handle : word'[g] \in {b, None} /\ (word'[g] = b => word[g] = b /\ g # h)
    <3>1. \A g \in Handle : word[g] \in {b, None}
      BY <1>3, <2>1, DistinctAssumption DEF IndInv, OneCounter, Holders
    <3> QED BY <1>1, <1>3, <2>2, <3>1, DistinctAssumption DEF TypeOK
  <2>6. \A g \in Handle : g # h => word'[g] = word[g]
    BY <1>1, <2>2 DEF TypeOK
  <2>7. \A g \in Handle : HandleKnows(g)'
    BY <1>3, <2>5, DistinctAssumption DEF HandleKnows
  <2>8. \A x \in Block : BlockKnows(x)'
    <3> SUFFICES ASSUME NEW x \in Block, NEW g \in Handle, word'[g] = x, NEW f \in Thread \cup {x}
                 PROVE f \in refView'[x] \/ \E k \in Handle : word'[k] = x /\ KnownBy(f, k)'
      BY DEF BlockKnows
    <3>1. x = b
      BY <2>5, DistinctAssumption
    <3> QED BY <2>4, <2>6, <3>1
  <2>9. \A u \in Thread : LastKnows(u)'
    <3>1. \A u \in Thread \ {t} : pc'[u] \notin Ending
      BY <1>3, <1>6, ActsAlone
    <3>2. CASE ~ WasLast(b)
      BY <2>2, <3>1, <3>2 DEF LastKnows, Ending
    <3>3. CASE WasLast(b)
      <4>1. \A g \in Handle : word[g] # None => g = h
        BY <1>3, <2>1, <3>3, SoleHolder DEF WasLast
      <4>2. \A f \in Thread \cup {b} : f \in refView'[b]
        BY <1>3, <2>4, <4>1, DistinctAssumption
      <4> QED BY <2>2, <3>1, <3>3, <4>2 DEF LastKnows
    <3> QED BY <3>2, <3>3
  <2>10. \A g \in Handle : access[g] # {} => word'[g] = word[g]
    BY <2>1, <2>6
  <2> QED BY <1>5, <1>8, <2>3, <2>7, <2>8, <2>9, <2>10 DEF PlainInv, Lossless
<1> QED BY <1>3, <1>9, <1>10

(* The last reference acquires what the others left with the count.        *)
LEMMA DisposesPreserves ==
    ASSUME IndInv, IndInv', PlainInv, NEW t \in Thread, Disposes(t)
    PROVE  PlainInv'
<1>1. TypeOK /\ ViewsOK /\ SeesItself /\ AccessInv /\ CallInv
  BY DEF IndInv, PlainInv
<1>2. PICK h, b : h = cur[t] /\ b = box[t]
  OBVIOUS
<1>3. /\ pc[t] \in Ending /\ h \in Handle /\ b \in Block /\ seen[t] = None
      /\ \A g \in Handle : word[g] = None /\ access[g] = {}
      /\ Acts(t)
  <2>1. t \in Finishing
    BY DEF Disposes, Free, TakeVec, TakeMut, Finishing
  <2> QED BY <1>1, <1>2, <2>1 DEF CallInv, FinishingInv, Finishing, Ending, TypeOK, AccessInv, Acts
<1>4. /\ view'[t] = view[t] \cup refView[b]
      /\ \A u \in Thread \ {t} : view'[u] = view[u]
      /\ UNCHANGED <<wordView, backView>>
  BY <1>1, <1>2, <1>3 DEF Disposes, Sees, AcquireLast, ViewsOK
<1>5. ViewsOK' /\ SeesItself'
  BY <1>1, <1>2, <1>3, <1>4 DEF Disposes, Sees, AcquireLast, ViewsOK, SeesItself
<1>6. /\ pc'[t] = "idle"
      /\ \A u \in Thread \ {t} :
           pc'[u] = pc[u] /\ cur'[u] = cur[u] /\ box'[u] = box[u] /\ seen'[u] = seen[u]
  BY <1>1, <1>3 DEF Disposes, Free, TakeVec, TakeMut, AfterRelease, Return, Begin, TypeOK
<1>7. ASSUME NEW u \in Thread \ {t} PROVE ThreadSees(u)'
  <2>0. PICK N : N = {}
    OBVIOUS
  <2>1. /\ \A g \in Handle : u \in access[g] =>
               /\ \A f \in wordView[g] : f \in N \/ f \in wordView'[g]
               /\ word'[g] = word[g] \/ word'[g] \in wordView'[g]
        /\ \A g \in Handle : t \in access[g] \/ \A f \in backView'[g] : f \in backView[g]
        /\ \A x \in heap : x \notin N
        /\ \A f \in view[u] : f \in N \/ f \in view'[u]
    BY <1>3, <1>4, <2>0
  <2> QED BY <1>3, <1>5, <1>6, <2>1, OthersSee
<1>8. ThreadSees(t)'
  BY <1>6, NothingToSee
<1>9. \A u \in Thread : pc'[u] \notin Ending
  BY <1>3, <1>6, ActsAlone DEF Ending
<1>10. CASE Free(t) \/ TakeVec(t)
  <2>1. \A g \in Handle : word'[g] = None
    BY <1>3, <1>10 DEF Free, TakeVec
  <2> QED BY <1>5, <1>7, <1>8, <1>9, <2>1, NothingLeftToLose DEF PlainInv
<1>11. CASE TakeMut(t)
  <2>1. /\ \A g \in Handle : word'[g] = IF g = h THEN Unpromoted ELSE None
        /\ access'[h] = {t}
    BY <1>1, <1>2, <1>3, <1>11 DEF TakeMut, TypeOK
  <2>2. \A f \in Thread : f \in view'[t]
    BY <1>2, <1>3, <1>4 DEF PlainInv, Lossless, LastKnows
  <2>3. \A f \in Thread : KnownBy(f, h)'
    BY <2>1, <2>2 DEF KnownBy, Carries
  <2>4. \A g \in Handle : HandleKnows(g)'
    BY <2>1, <2>3, DistinctAssumption DEF HandleKnows
  <2>5. \A x \in Block : BlockKnows(x)'
    BY <2>1, DistinctAssumption DEF BlockKnows
  <2>6. \A u \in Thread : LastKnows(u)'
    BY <1>9 DEF LastKnows
  <2> QED BY <1>5, <1>7, <1>8, <2>4, <2>5, <2>6 DEF PlainInv, Lossless
<1> QED BY <1>10, <1>11 DEF Disposes

-----------------------------------------------------------------------------
(* The specification.                                                      *)

(* Nobody has touched the buffer, and the owner of the first handle made   *)
(* the block, if there is one.                                             *)
LEMMA HBInitInv == HBInit => IndInv /\ PlainInv
<1> SUFFICES ASSUME HBInit PROVE IndInv /\ PlainInv
  OBVIOUS
<1>1. IndInv /\ TypeOK
  BY InitInv DEF HBInit, IndInv
<1>2. PICK h \in Handle, t \in Thread :
        /\ access = [x \in Handle |-> IF x = h THEN {t} ELSE {}]
        /\ \A x \in Handle : x # h => word[x] = None
        /\ heap \subseteq Block
        /\ word[h] \in Block => word[h] \in heap
        /\ \A x \in Thread : pc[x] = "idle"
  <2>1. \E h \in Handle, t \in Thread :
          /\ access = [x \in Handle |-> IF x = h THEN {t} ELSE {}]
          /\ \A x \in Handle : x # h => word[x] = None
    BY DEF HBInit, Init
  <2>2. \A x \in Thread : pc[x] = "idle"
    BY DEF HBInit, Init
  <2>3. heap \subseteq Block
    BY <1>1 DEF TypeOK
  <2>4. \A h \in Handle : word[h] \in Block => word[h] \in heap
    BY <1>1, DistinctAssumption DEF IndInv, HeldBufferIsLive, Holders
  <2> QED BY <2>1, <2>2, <2>3, <2>4
<1>3. /\ view[t] = Thread \cup heap
      /\ \A u \in Thread : view[u] \in {Thread, Thread \cup heap}
  BY <1>2 DEF HBInit
<1>4. ViewsOK
  BY <1>2 DEF HBInit, ViewsOK, Fact
<1>5. SeesItself
  BY <1>3 DEF SeesItself
<1>6. \A f \in Thread \cup heap : KnownBy(f, h)
  BY <1>2, <1>3 DEF KnownBy, Carries
<1>7. Lossless
  <2>1. \A g \in Handle : HandleKnows(g)
    BY <1>2, <1>6, DistinctAssumption DEF HandleKnows
  <2>2. \A b \in Block : BlockKnows(b)
    BY <1>2, <1>6, DistinctAssumption DEF BlockKnows
  <2>3. \A u \in Thread : LastKnows(u)
    BY <1>2 DEF LastKnows, Ending
  <2> QED BY <2>1, <2>2, <2>3 DEF Lossless
<1>8. \A u \in Thread : ThreadSees(u)
  BY <1>2 DEF ThreadSees, HasConsumed
<1> QED BY <1>1, <1>4, <1>5, <1>7, <1>8 DEF PlainInv

(* What a step makes visible restricts nothing and adds nothing: it is a   *)
(* step of SharedBuffer, or changes nothing there.                         *)
LEMMA StepOfSharedBuffer == [HBNext]_hbVars => [Next]_vars
<1>1. ASSUME NEW t \in Thread, HBStep(t) PROVE Step(t)
  BY <1>1 DEF HBStep, Installs, FailsToInstall, Increments, Decrements, Disposes, MovesBytes,
              Continues, Step
<1>2. ASSUME NEW t \in Thread, NEW h \in Handle, HBCall(t, h)
      PROVE  Call(t, h) \/ Pass(t, h) \/ UNCHANGED vars
  <2>1. CASE \/ LoadsWord(t, h) \/ MakesBlock(t, h) \/ TakesHandle(t, h)
             \/ TouchesBlock(t, h) \/ StoresBlock(t, h) \/ AsksUnique(t, h)
    BY <2>1 DEF LoadsWord, MakesBlock, TakesHandle, TouchesBlock, StoresBlock, AsksUnique, Call
  <2>2. CASE Access(t, h) \/ Inspect(t, h)
    BY <2>2 DEF Access, Inspect
  <2>3. CASE GivesBack(t, h) \/ \E u \in Thread : Lends(t, u, h) \/ Sends(t, u, h)
    BY <2>3 DEF GivesBack, Lends, Sends, Pass
  <2> QED BY <1>2, <2>1, <2>2, <2>3 DEF HBCall
<1> QED BY <1>1, <1>2 DEF HBNext, Next, hbVars

(* Every step of HappensBefore preserves what is known of the accesses.    *)
LEMMA HBNextPreserves ==
    ASSUME IndInv, IndInv', PlainInv, [HBNext]_hbVars
    PROVE  PlainInv'
<1>1. ASSUME NEW t \in Thread, HBStep(t) PROVE PlainInv'
  BY <1>1, InstallsPreserves, FailsToInstallPreserves, IncrementsPreserves,
     DecrementsPreserves, DisposesPreserves, MovesBytesPreserves, ContinuesPreserves DEF HBStep
<1>2. ASSUME NEW t \in Thread, NEW h \in Handle, HBCall(t, h) PROVE PlainInv'
  <2>1. CASE TakesHandle(t, h)
    BY <2>1, KeepsHandlePreserves, LeavesPreserves DEF TakesHandle
  <2>2. CASE \E u \in Thread : Lends(t, u, h) \/ Sends(t, u, h)
    BY <2>2, LendsPreserves, SendsPreserves
  <2> QED
    BY <1>2, <2>1, <2>2, LoadsWordPreserves, MakesBlockPreserves, TouchesBlockPreserves,
       StoresBlockPreserves, AsksUniquePreserves, AccessPreserves, GivesBackPreserves DEF HBCall
<1>3. CASE UNCHANGED hbVars
  <2> USE DEF hbVars, vars, orderVars
  <2>1. ViewsOK' /\ SeesItself' /\ \A u \in Thread : ThreadSees(u)'
    BY <1>3 DEF PlainInv, ViewsOK, SeesItself, ThreadSees, HasConsumed
  <2>2. \A g, f : KnownBy(f, g)' <=> KnownBy(f, g)
    BY <1>3 DEF KnownBy, Carries
  <2>3. Lossless'
    BY <1>3, <2>2 DEF PlainInv, Lossless, HandleKnows, BlockKnows, LastKnows
  <2> QED BY <2>1, <2>3 DEF PlainInv
<1> QED BY <1>1, <1>2, <1>3 DEF HBNext

(* With the orderings of the atomic operations made explicit, the threads  *)
(* still do what SharedBuffer says.                                        *)
THEOREM StepsOfSharedBuffer == HBSpec => Init /\ [][Next]_vars
<1>1. HBInit => Init
  BY DEF HBInit
<1> QED BY <1>1, StepOfSharedBuffer, PTL DEF HBSpec

(* The counter stays exact, and every access is known to somebody who has  *)
(* yet to decrement it, or has been left with it.                          *)
THEOREM HBInvariance == HBSpec => [](IndInv /\ PlainInv)
<1>1. IndInv /\ [HBNext]_hbVars => IndInv'
  BY StepOfSharedBuffer, CallPreserves, StepPreserves, PassPreserves, StutterPreserves DEF Next
<1>2. IndInv /\ PlainInv /\ [HBNext]_hbVars => PlainInv'
  BY <1>1, HBNextPreserves
<1> QED BY HBInitInv, <1>1, <1>2, PTL DEF HBSpec

(* Every access of every thread is known where it will be needed, so is    *)
(* the initialisation of every block: what the Release decrements, the     *)
(* Acquire loads of the count and of the word, and the user's own passing  *)
(* of handles hand on, is never lost.                                      *)
THEOREM OrderInvariance == HBSpec => []OrderInv
<1>1. IndInv /\ PlainInv => OrderInv
  BY OrderInvUnfolds DEF IndInv
<1> QED BY <1>1, HBInvariance, PTL

(* shared::release, release_into_vec and the owner of a handle without a   *)
(* count dispose of the buffer only after every access of every thread.    *)
THEOREM DisposalIsLast == HBSpec => []UsesBeforeDisposal
<1>1. ASSUME IndInv, PlainInv PROVE UsesBeforeDisposal
  <2>1. \A t \in Finishing : Thread \cup {box[t]} \subseteq AcquireLast(t, box[t])
    BY <1>1 DEF PlainInv, Lossless, LastKnows, Ending, Finishing, AcquireLast
  <2>2. ASSUME NEW t \in Thread, NEW h \in Handle, word[h] = Unpromoted, access[h] = {t},
               NEW f \in Thread
        PROVE  f \in Owned(t, h)
    <3>1. KnownBy(f, h)
      BY <1>1, <2>2 DEF PlainInv, Lossless, HandleKnows
    <3>2. \A u \in Thread : Carries(u, h) => u = t
      BY <1>1, <2>2, OnlyUser DEF Carries
    <3> QED BY <3>1, <3>2 DEF KnownBy, Owned
  <2> QED BY <2>1, <2>2 DEF UsesBeforeDisposal
<1> QED BY <1>1, HBInvariance, PTL

(* reserve_inner takes back the room of other handles only after all their *)
(* accesses: the Acquire of is_unique reads what their drops released.     *)
THEOREM ReclaimIsLast == HBSpec => []UsesBeforeReclaim
<1>1. OrderInv => UsesBeforeReclaim
  BY DEF OrderInv
<1> QED BY <1>1, OrderInvariance, PTL

(* promote_ref reads the block of the thread that was faster only after    *)
(* that thread has written it.                                             *)
THEOREM LoserAcquires == HBSpec => []LoserSeesBlock
<1>1. OrderInv => LoserSeesBlock
  BY DEF OrderInv
<1> QED BY <1>1, OrderInvariance, PTL
=============================================================================
