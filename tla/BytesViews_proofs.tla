-------------------------- MODULE BytesViews_proofs --------------------------
(***************************************************************************)
(* Proofs about BytesViews.                                                *)
(***************************************************************************)
EXTENDS BytesViews, TLAPS, FiniteSetTheorems, WellFoundedInduction

-----------------------------------------------------------------------------
(* The invariant.  It is stated of places HS and a heap H that need not be *)
(* the current ones: a method is a sequence of simpler changes, and what   *)
(* lies between them is sound too.                                         *)

HeapRecord ==
    [size : [0..Buffers -> 0..MaxCap], blk : [Block -> BlockRecord \cup {None}]]

HeapOK(H) ==
    /\ H \in HeapRecord
    /\ H.size[0] = StaticLen
    /\ \A b \in Block : H.blk[b] # None => H.blk[b].ref # 0

FieldsOK(r) ==
    /\ r \in HandleRecord
    /\ r.kind = "Bytes" => r.cap = 0
    /\ r.kind # "Bytes" => r.len <= r.cap
    /\ r.kind = "Vec" => r.data = Null
    /\ r.kind = "BytesMut" => r.data.tag # "null"

(* How many bytes from r.ptr on the handle may reach.                      *)
Size(r) == IF r.kind = "Bytes" THEN r.len ELSE r.cap

(* The handle owns its allocation; or it owns nothing, as do empty views   *)
(* and views of static data.                                               *)
Direct(r) == r # None /\ (r.kind = "Vec" \/ Unpromoted(r))
Idle(r) == r = None \/ (r.kind = "Bytes" /\ r.data.tag = "null")
In(r, b) == r # None /\ r.data = InBlock(b)

(* An allocation is freed with its own start and size.                     *)
Backed(p, c, H) ==
    IF c = 0 THEN p = Dangling ELSE \E i \in 1..Buffers : p = Base(i) /\ H.size[i] = c

(* The handle stays within the allocation of its block.                    *)
Within(r, k) == k # None /\ k.ptr <= r.ptr /\ r.ptr + Size(r) <= k.ptr + k.cap

PlaceOK(r, H) ==
    r # None =>
      /\ FieldsOK(r)
      /\ Direct(r) => Backed(VecPtr(r), VecCap(r), H)
      /\ Promoted(r) => r.data.n \in Block /\ Within(r, H.blk[r.data.n])
      /\ Idle(r) => r.len = 0 \/ r.ptr + r.len <= StaticLen

(* Who owns allocation i.                                                  *)
HandleOwns(r, i) == Direct(r) /\ VecCap(r) # 0 /\ VecPtr(r) = Base(i)
BlockOwns(k, i) == k # None /\ k.cap # 0 /\ k.ptr = Base(i)

OneOwner(HS, H) ==
    \A i \in 1..Buffers :
        /\ \A h, g \in Handle : HandleOwns(HS[h], i) /\ HandleOwns(HS[g], i) => h = g
        /\ \A b, c \in Block : BlockOwns(H.blk[b], i) /\ BlockOwns(H.blk[c], i) => b = c
        /\ \A h \in Handle, b \in Block : ~ (HandleOwns(HS[h], i) /\ BlockOwns(H.blk[b], i))

NoLeak(HS, H) ==
    \A i \in 1..Buffers : H.size[i] # 0 =>
        \/ \E h \in Handle : HandleOwns(HS[h], i)
        \/ \E b \in Block : BlockOwns(H.blk[b], i)

Sharers(HS, b) == {h \in Handle : In(HS[h], b)}
Counted(HS, H) ==
    \A b \in Block : H.blk[b] # None => H.blk[b].ref = Cardinality(Sharers(HS, b))

(* Views that overlap only read.                                           *)
Apart(r, s) ==
    \/ Size(r) = 0 \/ Size(s) = 0
    \/ r.ptr + Size(r) <= s.ptr \/ s.ptr + Size(s) <= r.ptr
Divided(HS) ==
    \A b \in Block : \A h, g \in Handle :
        h # g /\ In(HS[h], b) /\ In(HS[g], b) /\ HS[h].kind = "BytesMut" => Apart(HS[h], HS[g])

Sound(HS, H) ==
    /\ HeapOK(H)
    /\ DOMAIN HS = Handle /\ \A h \in Handle : PlaceOK(HS[h], H)
    /\ \A b \in Block : H.blk[b] # None => Backed(H.blk[b].ptr, H.blk[b].cap, H)
    /\ OneOwner(HS, H) /\ NoLeak(HS, H)
    /\ Counted(HS, H) /\ Divided(HS)

ViewsInv == Sound(hs, heap)

-----------------------------------------------------------------------------
(* Addresses.                                                              *)

Below == {ss \in Nat \X Nat : ss[1] < ss[2]}

(* The allocator and promote_with_vec have a first free place to take.     *)
LEMMA LeastIn ==
    ASSUME NEW S \in SUBSET Nat, S # {}
    PROVE  Least(S) \in S /\ \A y \in S : Least(S) <= y
<1>1. IsWellFoundedOn(Below, Nat)
  BY NatLessThanWellFounded, Zenon DEF OpToRel, Below
<1>2. PICK x \in S : \A y \in S : <<y, x>> \notin Below
  BY <1>1, WFMin
<1>3. ASSUME NEW y \in S PROVE x <= y
  <2>1. x \in Nat /\ y \in Nat /\ <<y, x>> \notin Below
    BY <1>2
  <2> QED BY <2>1 DEF Below
<1> QED BY <1>3 DEF Least

(* An allocation ends before the next one starts.                          *)
LEMMA BaseOrder ==
    ASSUME NEW i \in Nat, NEW j \in Nat, i < j
    PROVE  Base(i) \in Nat /\ Base(j) \in Nat /\ Base(i) + MaxCap + Gap <= Base(j)
<1> DEFINE k == MaxCap + Gap
           d == j - i - 1
<1>1. k \in Nat /\ d \in Nat /\ j = i + 1 + d
  BY BoundsAssumption
<1>2. i * k \in Nat /\ d * k \in Nat
  BY <1>1
<1>3. j * k = i * k + k + d * k
  BY <1>1
<1> QED BY <1>1, <1>2, <1>3, BoundsAssumption DEF Base

(* Two allocations have different starts.                                  *)
LEMMA BaseInjective ==
    ASSUME NEW i \in Nat, NEW j \in Nat, Base(i) = Base(j)
    PROVE  i = j
BY BaseOrder, BoundsAssumption

(* The pointer of an empty Vec is behind every allocation.                 *)
LEMMA DanglingBehind ==
    /\ Dangling \in Nat
    /\ \A i \in 0..Buffers : Base(i) \in Nat /\ Base(i) + MaxCap + Gap < Dangling
<1> DEFINE n == Buffers + 1
<1>1. n \in Nat /\ \A i \in 0..Buffers : i \in Nat /\ i < n
  BY BoundsAssumption
<1>2. Dangling = Base(n) + 1
  BY DEF Dangling, Base
<1> HIDE DEF n
<1>3. \A i \in 0..Buffers : Base(i) \in Nat /\ Base(n) \in Nat /\ Base(i) + MaxCap + Gap <= Base(n)
  BY <1>1, BaseOrder
<1>4. 0 \in 0..Buffers
  BY BoundsAssumption
<1> QED BY <1>2, <1>3, <1>4, BoundsAssumption

-----------------------------------------------------------------------------
(* The changes that methods are made of.                                   *)

(* A handle that counts on a block is neither idle nor an owner.           *)
LEMMA InMeans ==
    ASSUME NEW r, NEW H, PlaceOK(r, H), r # None, NEW b
    PROVE  /\ In(r, b) <=> Promoted(r) /\ r.data.n = b
           /\ Promoted(r) => ~ Direct(r) /\ ~ Idle(r)
           /\ Direct(r) => ~ Idle(r)
BY DEF In, InBlock, PlaceOK, FieldsOK, HandleRecord, Promoted, Direct, Unpromoted, Idle, Null

(* What counts on no block and owns nothing.                               *)
LEMMA IdleMeans ==
    ASSUME NEW r, NEW H, PlaceOK(r, H), Idle(r)
    PROVE  /\ \A b : ~ In(r, b)
           /\ \A i : ~ HandleOwns(r, i)
BY InMeans DEF Idle, In, HandleOwns, Direct

(* A handle is changed, but not what it owns or counts on.                 *)
LEMMA ReshapeSound ==
    ASSUME NEW HS, NEW H, Sound(HS, H), NEW h \in Handle, NEW r, PlaceOK(r, H),
           \A i \in 1..Buffers : HandleOwns(r, i) <=> HandleOwns(HS[h], i),
           \A b \in Block : In(r, b) <=> In(HS[h], b),
           \A b \in Block, g \in Handle :
               /\ g # h /\ In(r, b) /\ In(HS[g], b)
               /\ r.kind = "BytesMut" \/ HS[g].kind = "BytesMut"
               => Apart(r, HS[g])
    PROVE  Sound([HS EXCEPT ![h] = r], H)
<1> DEFINE HT == [HS EXCEPT ![h] = r]
<1>1. /\ DOMAIN HT = Handle /\ HT[h] = r
      /\ \A g \in Handle : g # h => HT[g] = HS[g]
  BY DEF Sound
<1> HIDE DEF HT
<1>2. \A g \in Handle : PlaceOK(HT[g], H)
  BY <1>1 DEF Sound
<1>3. /\ \A g \in Handle : \A i \in 1..Buffers : HandleOwns(HT[g], i) <=> HandleOwns(HS[g], i)
      /\ \A g \in Handle : \A b \in Block : In(HT[g], b) <=> In(HS[g], b)
  BY <1>1
<1>4. OneOwner(HT, H) /\ NoLeak(HT, H)
  BY <1>3 DEF Sound, OneOwner, NoLeak
<1>5. Counted(HT, H)
  <2>1. \A b \in Block : Sharers(HT, b) = Sharers(HS, b)
    BY <1>3 DEF Sharers
  <2> QED BY <2>1 DEF Sound, Counted
<1>6. Divided(HT)
  BY <1>1 DEF Sound, Divided, Apart
<1> QED BY <1>1, <1>2, <1>4, <1>5, <1>6 DEF Sound, HT

(* A place that is idle becomes another idle one.                          *)
LEMMA IdleSound ==
    ASSUME NEW HS, NEW H, Sound(HS, H), NEW h \in Handle, Idle(HS[h]),
           NEW e, Idle(e), PlaceOK(e, H)
    PROVE  Sound([HS EXCEPT ![h] = e], H)
<1>1. PlaceOK(HS[h], H)
  BY DEF Sound
<1> QED BY <1>1, IdleMeans, ReshapeSound

(* The handles of a block can be counted.                                  *)
LEMMA SharersFinite ==
    ASSUME NEW HS, NEW b
    PROVE  IsFiniteSet(Sharers(HS, b)) /\ Cardinality(Sharers(HS, b)) \in Nat
<1>1. Sharers(HS, b) \subseteq Handle
  BY DEF Sharers
<1> QED BY <1>1, PlacesAssumption, FS_Subset, FS_CardinalityType

(* A block without handles is free, and has none.                          *)
LEMMA FreeHasNone ==
    ASSUME NEW HS, NEW H, Sound(HS, H), NEW b \in Block, H.blk[b] = None
    PROVE  \A g \in Handle : ~ In(HS[g], b)
<1> SUFFICES ASSUME NEW g \in Handle, In(HS[g], b) PROVE FALSE
  OBVIOUS
<1>1. PlaceOK(HS[g], H) /\ HS[g] # None
  BY DEF Sound, In
<1>2. Promoted(HS[g]) /\ HS[g].data.n = b
  BY <1>1, InMeans
<1> QED BY <1>1, <1>2 DEF PlaceOK, Within

(* A handle moves to another place.                                        *)
LEMMA MoveSound ==
    ASSUME NEW HS, NEW H, Sound(HS, H), NEW h \in Handle, NEW g \in Handle, h # g,
           Idle(HS[g]), NEW e, Idle(e), PlaceOK(e, H)
    PROVE  Sound([HS EXCEPT ![h] = e, ![g] = HS[h]], H)
<1> DEFINE HT == [HS EXCEPT ![h] = e, ![g] = HS[h]]
<1>1. /\ DOMAIN HT = Handle /\ HT[h] = e /\ HT[g] = HS[h]
      /\ \A x \in Handle : x # h /\ x # g => HT[x] = HS[x]
  BY DEF Sound
<1> HIDE DEF HT
<1>2. \A x \in Handle : PlaceOK(HS[x], H) /\ PlaceOK(HT[x], H)
  BY <1>1 DEF Sound
<1>3. /\ \A i : ~ HandleOwns(HT[h], i) /\ ~ HandleOwns(HS[g], i)
      /\ \A b : ~ In(HT[h], b) /\ ~ In(HS[g], b)
  BY <1>1, <1>2, IdleMeans
<1>4. OneOwner(HT, H) /\ NoLeak(HT, H)
  <2>1. \A i \in 1..Buffers, x \in Handle : HandleOwns(HT[x], i) =>
          (x = g /\ HandleOwns(HS[h], i)) \/ (x # g /\ x # h /\ HandleOwns(HS[x], i))
    BY <1>1, <1>3
  <2>2. \A i \in 1..Buffers, x \in Handle : HandleOwns(HS[x], i) =>
          HandleOwns(HT[g], i) \/ HandleOwns(HT[x], i)
    BY <1>1, <1>3
  <2>3. OneOwner(HT, H)
    BY <2>1 DEF Sound, OneOwner
  <2> QED BY <2>2, <2>3 DEF Sound, NoLeak
<1>5. Counted(HT, H)
  <2> SUFFICES ASSUME NEW b \in Block
               PROVE  Cardinality(Sharers(HT, b)) = Cardinality(Sharers(HS, b))
    BY DEF Counted, Sound
  <2>1. CASE In(HS[h], b)
    <3>1. Sharers(HT, b) = (Sharers(HS, b) \ {h}) \cup {g}
      BY <1>1, <1>3, <2>1 DEF Sharers
    <3>2. h \in Sharers(HS, b) /\ g \notin Sharers(HS, b)
      BY <1>3, <2>1 DEF Sharers
    <3>3. /\ IsFiniteSet(Sharers(HS, b) \ {h})
          /\ Cardinality(Sharers(HS, b) \ {h}) = Cardinality(Sharers(HS, b)) - 1
      BY <3>2, SharersFinite, FS_RemoveElement
    <3>4. Cardinality((Sharers(HS, b) \ {h}) \cup {g}) = Cardinality(Sharers(HS, b) \ {h}) + 1
      BY <3>2, <3>3, FS_AddElement
    <3> QED BY <3>1, <3>3, <3>4, SharersFinite
  <2>2. CASE ~ In(HS[h], b)
    <3>1. Sharers(HT, b) = Sharers(HS, b)
      BY <1>1, <1>3, <2>2 DEF Sharers
    <3> QED BY <3>1
  <2> QED BY <2>1, <2>2
<1>6. Divided(HT)
  <2>1. \A b \in Block, x \in Handle : In(HT[x], b) => x # h
    BY <1>3
  <2> QED BY <1>1, <2>1 DEF Sound, Divided
<1> QED BY <1>1, <1>2, <1>4, <1>5, <1>6 DEF Sound, HT

(* A handle is as sound in a heap where what it owns or counts on is as it *)
(* was.                                                                    *)
LEMMA StaysPlaced ==
    ASSUME NEW r, NEW H, NEW G, PlaceOK(r, H),
           \A i \in 1..Buffers : HandleOwns(r, i) => G.size[i] = H.size[i],
           \A b \in Block : In(r, b) =>
               G.blk[b] # None /\ G.blk[b].ptr = H.blk[b].ptr /\ G.blk[b].cap = H.blk[b].cap
    PROVE  PlaceOK(r, G)
<1> SUFFICES ASSUME r # None PROVE PlaceOK(r, G)
  BY DEF PlaceOK
<1>1. Direct(r) => Backed(VecPtr(r), VecCap(r), G)
  BY DEF PlaceOK, Backed, HandleOwns
<1>2. Promoted(r) => r.data.n \in Block /\ Within(r, G.blk[r.data.n])
  BY InMeans DEF PlaceOK, Within
<1> QED BY <1>1, <1>2 DEF PlaceOK

(* promote_with_vec: the block takes over the allocation of the handle.    *)
LEMMA PromoteSound ==
    ASSUME NEW HS, NEW H, Sound(HS, H), NEW h \in Handle, Direct(HS[h]),
           NEW b \in Block, H.blk[b] = None,
           NEW r, FieldsOK(r), In(r, b), r.ptr >= VecPtr(HS[h]),
           r.ptr + Size(r) <= VecPtr(HS[h]) + VecCap(HS[h])
    PROVE  Sound([HS EXCEPT ![h] = r], Promote(H, b, VecPtr(HS[h]), VecCap(HS[h]), 1))
<1> DEFINE HT == [HS EXCEPT ![h] = r]
           p == VecPtr(HS[h])
           c == VecCap(HS[h])
           k == [ptr |-> p, cap |-> c, ref |-> 1]
           G == Promote(H, b, p, c, 1)
<1>0. p \in Nat /\ c \in Nat /\ Backed(p, c, H)
  <2>1. PlaceOK(HS[h], H) /\ HS[h] # None
    BY DEF Sound, Direct
  <2>2. Backed(p, c, H) /\ c \in Nat
    BY <2>1 DEF PlaceOK, FieldsOK, HandleRecord, VecCap
  <2> QED BY <2>2, DanglingBehind, BoundsAssumption DEF Backed
<1>1. /\ DOMAIN HT = Handle /\ HT[h] = r
      /\ \A g \in Handle : g # h => HT[g] = HS[g]
  BY DEF Sound
<1>2. /\ G \in HeapRecord /\ G.size = H.size /\ G.blk[b] = k
      /\ \A x \in Block : x # b => G.blk[x] = H.blk[x]
  <2>1. k \in BlockRecord
    BY <1>0 DEF BlockRecord
  <2> QED BY <2>1 DEF Promote, Sound, HeapOK, HeapRecord
<1>3. k # None /\ k.ptr = p /\ k.cap = c /\ k.ref = 1
  BY <1>0, PlacesAssumption DEF BlockRecord
<1> HIDE DEF HT, G, k
<1>4. HeapOK(G)
  BY <1>2, <1>3 DEF Sound, HeapOK
<1>5. \A g \in Handle : ~ In(HS[g], b)
  BY FreeHasNone
<1>6. r # None /\ Promoted(r) /\ r.data.n = b /\ ~ Direct(r) /\ ~ Idle(r)
  BY DEF In, InBlock, FieldsOK, HandleRecord, Promoted, Direct, Unpromoted, Idle, Null
<1>7. \A g \in Handle : PlaceOK(HT[g], G)
  <2>1. PlaceOK(r, G)
    BY <1>2, <1>3, <1>6 DEF PlaceOK, Within
  <2>2. ASSUME NEW g \in Handle, g # h PROVE PlaceOK(HS[g], G)
    <3>1. PlaceOK(HS[g], H)
      BY DEF Sound
    <3>2. \A x \in Block : In(HS[g], x) => x # b /\ H.blk[x] # None
      BY <1>5, FreeHasNone
    <3> QED BY <1>2, <3>1, <3>2, StaysPlaced
  <2> QED BY <1>1, <2>1, <2>2
<1>8. \A x \in Block : G.blk[x] # None => Backed(G.blk[x].ptr, G.blk[x].cap, G)
  BY <1>0, <1>2, <1>3 DEF Sound, Backed
<1>9. /\ \A i : ~ HandleOwns(r, i)
      /\ \A i : BlockOwns(k, i) <=> HandleOwns(HS[h], i)
  BY <1>3, <1>6 DEF HandleOwns, BlockOwns
<1>10. OneOwner(HT, G) /\ NoLeak(HT, G)
  <2>1. /\ \A i \in 1..Buffers, g \in Handle :
             HandleOwns(HT[g], i) <=> g # h /\ HandleOwns(HS[g], i)
        /\ \A i \in 1..Buffers, x \in Block :
             BlockOwns(G.blk[x], i) <=>
               (x = b /\ HandleOwns(HS[h], i)) \/ (x # b /\ BlockOwns(H.blk[x], i))
    BY <1>1, <1>2, <1>9
  <2>2. \A i : ~ BlockOwns(H.blk[b], i)
    BY DEF BlockOwns
  <2>3. OneOwner(HT, G)
    BY <2>1 DEF Sound, OneOwner
  <2> QED BY <1>2, <2>1, <2>2, <2>3 DEF Sound, NoLeak
<1>11. Counted(HT, G)
  <2>1. Sharers(HT, b) = {h}
    BY <1>1, <1>5 DEF Sharers
  <2>2. Cardinality(Sharers(HT, b)) = 1
    BY <2>1, FS_Singleton
  <2>3. ASSUME NEW x \in Block, x # b PROVE Sharers(HT, x) = Sharers(HS, x)
    <3>1. ~ In(r, x)
      BY <1>6, <2>3 DEF In, InBlock
    <3>2. ~ In(HS[h], x)
      BY InMeans DEF Sound, Direct
    <3> QED BY <1>1, <3>1, <3>2 DEF Sharers
  <2> QED BY <1>2, <1>3, <2>2, <2>3 DEF Sound, Counted
<1>12. Divided(HT)
  <2>1. \A x \in Block : In(r, x) => x = b
    BY <1>6 DEF In, InBlock
  <2> QED BY <1>1, <1>5, <2>1 DEF Sound, Divided
<1> QED BY <1>1, <1>4, <1>7, <1>8, <1>10, <1>11, <1>12 DEF Sound, HT, G

(* The places and the blocks after a change to a block's count.            *)
LEMMA RecountSound ==
    ASSUME NEW HS, NEW H, Sound(HS, H), NEW b \in Block, H.blk[b] # None,
           NEW h \in Handle, NEW r, FieldsOK(r) \/ r = None,
           Idle(HS[h]) \/ In(HS[h], b),
           \/ In(r, b) /\ r.ptr >= H.blk[b].ptr
              /\ r.ptr + Size(r) <= H.blk[b].ptr + H.blk[b].cap
           \/ Idle(r) /\ PlaceOK(r, H),
           \A g \in Handle :
               /\ g # h /\ In(r, b) /\ In(HS[g], b)
               /\ r.kind = "BytesMut" \/ HS[g].kind = "BytesMut"
               => Apart(r, HS[g]),
           NEW n \in Nat \ {0}, n = Cardinality(Sharers([HS EXCEPT ![h] = r], b))
    PROVE  Sound([HS EXCEPT ![h] = r], [H EXCEPT !.blk[b].ref = n])
<1> DEFINE HT == [HS EXCEPT ![h] = r]
           G == [H EXCEPT !.blk[b].ref = n]
<1>1. /\ DOMAIN HT = Handle /\ HT[h] = r
      /\ \A g \in Handle : g # h => HT[g] = HS[g]
  BY DEF Sound
<1>2. /\ G \in HeapRecord /\ G.size = H.size
      /\ G.blk[b] # None
      /\ G.blk[b].ptr = H.blk[b].ptr /\ G.blk[b].cap = H.blk[b].cap /\ G.blk[b].ref = n
      /\ \A x \in Block : x # b => G.blk[x] = H.blk[x]
  <2>1. H.blk[b] \in BlockRecord
    BY DEF Sound, HeapOK, HeapRecord
  <2>2. /\ [H.blk[b] EXCEPT !.ref = n] \in BlockRecord
        /\ [H.blk[b] EXCEPT !.ref = n].ptr = H.blk[b].ptr
        /\ [H.blk[b] EXCEPT !.ref = n].cap = H.blk[b].cap
        /\ [H.blk[b] EXCEPT !.ref = n].ref = n
    BY <2>1 DEF BlockRecord
  <2>3. /\ G.size = H.size /\ G.blk[b] = [H.blk[b] EXCEPT !.ref = n]
        /\ \A x \in Block : x # b => G.blk[x] = H.blk[x]
        /\ G = [size |-> H.size, blk |-> [H.blk EXCEPT ![b] = [H.blk[b] EXCEPT !.ref = n]]]
    BY DEF Sound, HeapOK, HeapRecord
  <2>4. G \in HeapRecord
    BY <2>2, <2>3 DEF Sound, HeapOK, HeapRecord
  <2> QED BY <2>2, <2>3, <2>4, PlacesAssumption
<1> HIDE DEF HT, G
<1>0. Idle(r) => PlaceOK(r, H)
  BY DEF In, InBlock, Idle
<1>3. HeapOK(G)
  BY <1>2 DEF Sound, HeapOK
<1>4. /\ \A x \in Block : In(r, x) => x = b
      /\ \A x \in Block : In(HS[h], x) => x = b
      /\ \A i : ~ HandleOwns(r, i) /\ ~ HandleOwns(HS[h], i)
  <2>1. PlaceOK(HS[h], H)
    BY DEF Sound
  <2>2. \A x, y \in Block : In(HS[h], x) /\ In(HS[h], y) => x = y
    BY DEF In, InBlock
  <2>3. \A x, y \in Block : In(r, x) /\ In(r, y) => x = y
    BY DEF In, InBlock
  <2>4. \A i : ~ HandleOwns(HS[h], i)
    <3>1. CASE Idle(HS[h])
      BY <2>1, <3>1, IdleMeans
    <3>2. CASE In(HS[h], b)
      BY <2>1, <3>2, InMeans DEF HandleOwns, In
    <3> QED BY <3>1, <3>2
  <2>5. \A i : ~ HandleOwns(r, i)
    <3>1. CASE Idle(r)
      BY <1>0, <3>1, IdleMeans
    <3>2. CASE In(r, b)
      BY <3>2 DEF In, InBlock, FieldsOK, HandleOwns, Direct, Unpromoted, Null
    <3> QED BY <3>1, <3>2
  <2>6. Idle(HS[h]) => \A x \in Block : ~ In(HS[h], x)
    BY <2>1, IdleMeans
  <2>7. Idle(r) => \A x \in Block : ~ In(r, x)
    BY <1>0, IdleMeans
  <2> QED BY <2>2, <2>3, <2>4, <2>5, <2>6, <2>7
<1>5. \A g \in Handle : PlaceOK(HT[g], G)
  <2>1. PlaceOK(r, G)
    <3>1. CASE Idle(r)
      BY <1>0, <1>4, <3>1, IdleMeans, StaysPlaced
    <3>2. CASE In(r, b)
      <4>1. r # None /\ Promoted(r) /\ r.data.n = b /\ ~ Direct(r) /\ ~ Idle(r) /\ FieldsOK(r)
        BY <3>2 DEF In, InBlock, FieldsOK, HandleRecord, Promoted, Direct, Unpromoted, Idle, Null
      <4> QED BY <1>2, <3>2, <4>1 DEF PlaceOK, Within
    <3> QED BY <3>1, <3>2
  <2>2. ASSUME NEW g \in Handle, g # h PROVE PlaceOK(HS[g], G)
    <3>1. PlaceOK(HS[g], H)
      BY DEF Sound
    <3>2. \A x \in Block : In(HS[g], x) => H.blk[x] # None
      BY FreeHasNone
    <3> QED BY <1>2, <3>1, <3>2, StaysPlaced
  <2> QED BY <1>1, <2>1, <2>2
<1>6. \A x \in Block : G.blk[x] # None => Backed(G.blk[x].ptr, G.blk[x].cap, G)
  BY <1>2 DEF Sound, Backed
<1>7. OneOwner(HT, G) /\ NoLeak(HT, G)
  <2>1. /\ \A i \in 1..Buffers, g \in Handle : HandleOwns(HT[g], i) <=> HandleOwns(HS[g], i)
        /\ \A i \in 1..Buffers, x \in Block : BlockOwns(G.blk[x], i) <=> BlockOwns(H.blk[x], i)
    BY <1>1, <1>2, <1>4 DEF BlockOwns
  <2> QED BY <1>2, <2>1 DEF Sound, OneOwner, NoLeak
<1>8. Counted(HT, G)
  <2>1. \A x \in Block : x # b => Sharers(HT, x) = Sharers(HS, x)
    BY <1>1, <1>4 DEF Sharers
  <2>2. n = Cardinality(Sharers(HT, b))
    BY DEF HT
  <2> QED BY <1>2, <2>1, <2>2 DEF Sound, Counted
<1>9. Divided(HT)
  BY <1>1, <1>4 DEF Sound, Divided, Apart
<1> QED BY <1>1, <1>3, <1>5, <1>6, <1>7, <1>8, <1>9 DEF Sound, HT, G

(* shared::increment: an idle place becomes another view of the block.     *)
LEMMA JoinSound ==
    ASSUME NEW HS, NEW H, Sound(HS, H), NEW b \in Block, H.blk[b] # None,
           NEW g \in Handle, Idle(HS[g]),
           NEW r, FieldsOK(r), In(r, b), r.ptr >= H.blk[b].ptr,
           r.ptr + Size(r) <= H.blk[b].ptr + H.blk[b].cap,
           \A x \in Handle :
               /\ x # g /\ In(HS[x], b)
               /\ r.kind = "BytesMut" \/ HS[x].kind = "BytesMut"
               => Apart(r, HS[x])
    PROVE  Sound([HS EXCEPT ![g] = r], Increment(H, b))
<1>1. ~ In(HS[g], b)
  BY IdleMeans DEF Sound
<1>2. g \notin Sharers(HS, b)
  BY <1>1 DEF Sharers
<1>3. Sharers([HS EXCEPT ![g] = r], b) = Sharers(HS, b) \cup {g}
  BY DEF Sound, Sharers
<1>4. Cardinality(Sharers(HS, b) \cup {g}) = H.blk[b].ref + 1
  BY <1>2, SharersFinite, FS_AddElement DEF Sound, Counted
<1>5. H.blk[b].ref \in Nat
  BY DEF Sound, HeapOK, HeapRecord, BlockRecord
<1>6. PICK n \in Nat \ {0} : n = H.blk[b].ref + 1
  BY <1>5
<1>7. Increment(H, b) = [H EXCEPT !.blk[b].ref = n]
  BY <1>6 DEF Increment
<1>8. n = Cardinality(Sharers([HS EXCEPT ![g] = r], b))
  BY <1>3, <1>4, <1>6
<1>9. Sound([HS EXCEPT ![g] = r], [H EXCEPT !.blk[b].ref = n])
  BY <1>8, RecountSound
<1> QED BY <1>7, <1>9

(* shared::release, when other handles are left.                           *)
LEMMA LeaveSound ==
    ASSUME NEW HS, NEW H, Sound(HS, H), NEW b \in Block, H.blk[b] # None,
           NEW h \in Handle, In(HS[h], b), H.blk[b].ref # 1,
           NEW e, Idle(e), PlaceOK(e, H)
    PROVE  Sound([HS EXCEPT ![h] = e], Release(H, b))
<1>1. h \in Sharers(HS, b)
  BY DEF Sharers
<1>2. ~ In(e, b)
  BY IdleMeans
<1>3. Sharers([HS EXCEPT ![h] = e], b) = Sharers(HS, b) \ {h}
  BY <1>2 DEF Sound, Sharers
<1>4. Cardinality(Sharers(HS, b) \ {h}) = H.blk[b].ref - 1
  BY <1>1, SharersFinite, FS_RemoveElement DEF Sound, Counted
<1>5. H.blk[b].ref \in Nat /\ H.blk[b].ref # 0
  BY DEF Sound, HeapOK, HeapRecord, BlockRecord
<1>6. PICK n \in Nat \ {0} : n = H.blk[b].ref - 1
  BY <1>5
<1>7. Release(H, b) = [H EXCEPT !.blk[b].ref = n]
  BY <1>6 DEF Release
<1>8. n = Cardinality(Sharers([HS EXCEPT ![h] = e], b))
  BY <1>3, <1>4, <1>6
<1>9. FieldsOK(e) \/ e = None
  BY DEF PlaceOK
<1>10. Sound([HS EXCEPT ![h] = e], [H EXCEPT !.blk[b].ref = n])
  BY <1>2, <1>8, <1>9, RecountSound
<1> QED BY <1>7, <1>10

(* is_unique means what it says.                                           *)
LEMMA SoleSharer ==
    ASSUME NEW HS, NEW H, Sound(HS, H), NEW b \in Block, H.blk[b] # None,
           NEW h \in Handle, In(HS[h], b), H.blk[b].ref = 1
    PROVE  \A g \in Handle : In(HS[g], b) => g = h
<1>1. Cardinality(Sharers(HS, b)) = 1 /\ h \in Sharers(HS, b)
  BY DEF Sound, Counted, Sharers
<1>2. PICK x : Sharers(HS, b) = {x}
  BY <1>1, SharersFinite, FS_Singleton
<1> QED BY <1>1, <1>2 DEF Sharers

(* The last handle of a block takes the allocation over.                   *)
LEMMA DisownSound ==
    ASSUME NEW HS, NEW H, Sound(HS, H), NEW b \in Block, H.blk[b] # None,
           NEW h \in Handle, In(HS[h], b), H.blk[b].ref = 1,
           NEW r, FieldsOK(r), Direct(r), VecPtr(r) = H.blk[b].ptr, VecCap(r) = H.blk[b].cap
    PROVE  Sound([HS EXCEPT ![h] = r], [H EXCEPT !.blk[b] = None])
<1> DEFINE HT == [HS EXCEPT ![h] = r]
           G == [H EXCEPT !.blk[b] = None]
<1>1. /\ DOMAIN HT = Handle /\ HT[h] = r
      /\ \A g \in Handle : g # h => HT[g] = HS[g]
  BY DEF Sound
<1>2. /\ G \in HeapRecord /\ G.size = H.size /\ G.blk[b] = None
      /\ \A x \in Block : x # b => G.blk[x] = H.blk[x]
  BY DEF Sound, HeapOK, HeapRecord
<1> HIDE DEF HT, G
<1>3. HeapOK(G)
  BY <1>2 DEF Sound, HeapOK
<1>4. \A g \in Handle : In(HS[g], b) => g = h
  BY SoleSharer
<1>5. /\ r # None /\ ~ Promoted(r) /\ ~ Idle(r)
      /\ \A x \in Block : ~ In(r, x)
      /\ \A x \in Block : In(HS[h], x) => x = b
      /\ \A i : ~ HandleOwns(HS[h], i)
  <2>1. r # None /\ ~ Promoted(r) /\ ~ Idle(r)
    BY DEF Direct, FieldsOK, Promoted, Idle, Unpromoted, Null
  <2>2. \A x \in Block : ~ In(r, x)
    BY <2>1 DEF In, InBlock, Promoted
  <2>3. \A x \in Block : In(HS[h], x) => x = b
    BY DEF In, InBlock
  <2>4. PlaceOK(HS[h], H) /\ HS[h] # None
    BY DEF Sound, In
  <2>5. \A i : ~ HandleOwns(HS[h], i)
    BY <2>4, InMeans DEF HandleOwns
  <2> QED BY <2>1, <2>2, <2>3, <2>5
<1>6. \A i : HandleOwns(r, i) <=> BlockOwns(H.blk[b], i)
  BY DEF HandleOwns, BlockOwns
<1>7. \A g \in Handle : PlaceOK(HT[g], G)
  <2>1. PlaceOK(r, G)
    <3>1. Backed(VecPtr(r), VecCap(r), G)
      BY <1>2 DEF Sound, Backed
    <3> QED BY <1>5, <3>1 DEF PlaceOK
  <2>2. ASSUME NEW g \in Handle, g # h PROVE PlaceOK(HS[g], G)
    <3>1. PlaceOK(HS[g], H)
      BY DEF Sound
    <3>2. \A x \in Block : In(HS[g], x) => x # b /\ H.blk[x] # None
      BY <1>4, <2>2, FreeHasNone
    <3> QED BY <1>2, <3>1, <3>2, StaysPlaced
  <2> QED BY <1>1, <2>1, <2>2
<1>8. \A x \in Block : G.blk[x] # None => Backed(G.blk[x].ptr, G.blk[x].cap, G)
  BY <1>2 DEF Sound, Backed
<1>9. OneOwner(HT, G) /\ NoLeak(HT, G)
  <2>1. /\ \A i \in 1..Buffers, g \in Handle :
             HandleOwns(HT[g], i) <=>
               (g = h /\ BlockOwns(H.blk[b], i)) \/ (g # h /\ HandleOwns(HS[g], i))
        /\ \A i \in 1..Buffers, x \in Block :
             BlockOwns(G.blk[x], i) <=> x # b /\ BlockOwns(H.blk[x], i)
    BY <1>1, <1>2, <1>6 DEF BlockOwns
  <2>2. OneOwner(HT, G)
    BY <2>1 DEF Sound, OneOwner
  <2> QED BY <1>2, <1>5, <2>1, <2>2 DEF Sound, NoLeak
<1>10. Counted(HT, G)
  <2>1. \A x \in Block : x # b => Sharers(HT, x) = Sharers(HS, x)
    BY <1>1, <1>5 DEF Sharers
  <2> QED BY <1>2, <2>1 DEF Sound, Counted
<1>11. Divided(HT)
  BY <1>1, <1>5 DEF Sound, Divided
<1> QED BY <1>1, <1>3, <1>7, <1>8, <1>9, <1>10, <1>11 DEF Sound, HT, G

(* A change of one size, of an allocation that only this handle can own.   *)
LEMMA ResizeSound ==
    ASSUME NEW HS, NEW H, Sound(HS, H), NEW h \in Handle, NEW i \in 1..Buffers,
           NEW c \in 0..MaxCap, NEW r,
           \A b \in Block : ~ In(HS[h], b) /\ ~ In(r, b),
           \A j \in 1..Buffers : HandleOwns(HS[h], j) => j = i,
           HandleOwns(HS[h], i) \/ H.size[i] = 0,
           \A j \in 1..Buffers : HandleOwns(r, j) <=> j = i /\ c # 0,
           PlaceOK(r, [H EXCEPT !.size[i] = c])
    PROVE  Sound([HS EXCEPT ![h] = r], [H EXCEPT !.size[i] = c])
<1> DEFINE HT == [HS EXCEPT ![h] = r]
           G == [H EXCEPT !.size[i] = c]
<1>1. /\ DOMAIN HT = Handle /\ HT[h] = r
      /\ \A g \in Handle : g # h => HT[g] = HS[g]
  BY DEF Sound
<1>2. /\ G \in HeapRecord /\ G.blk = H.blk /\ G.size[i] = c /\ G.size[0] = H.size[0]
      /\ \A j \in 1..Buffers : j # i => G.size[j] = H.size[j]
  <2>1. 0 # i /\ 0 \in 0..Buffers /\ 1..Buffers \subseteq 0..Buffers
    BY BoundsAssumption
  <2> QED BY <2>1 DEF Sound, HeapOK, HeapRecord
<1>3. PlaceOK(r, G)
  OBVIOUS
<1> HIDE DEF HT, G
<1>4. HeapOK(G)
  BY <1>2 DEF Sound, HeapOK
<1>5. \A j \in 1..Buffers : Base(j) = Base(i) => j = i
  BY BaseInjective
<1>6. /\ \A b \in Block : ~ BlockOwns(H.blk[b], i)
      /\ \A g \in Handle \ {h} : ~ HandleOwns(HS[g], i)
  <2>1. CASE HandleOwns(HS[h], i)
    BY <2>1 DEF Sound, OneOwner
  <2>2. CASE H.size[i] = 0
    <3>1. ASSUME NEW b \in Block, BlockOwns(H.blk[b], i) PROVE FALSE
      BY <1>5, <2>2, <3>1 DEF Sound, Backed, BlockOwns
    <3>2. ASSUME NEW g \in Handle, HandleOwns(HS[g], i) PROVE FALSE
      <4>1. PlaceOK(HS[g], H) /\ HS[g] # None
        BY <3>2 DEF Sound, HandleOwns, Direct
      <4> QED BY <1>5, <2>2, <3>2, <4>1 DEF PlaceOK, Backed, HandleOwns
    <3> QED BY <3>1, <3>2
  <2> QED BY <2>1, <2>2
<1>7. \A g \in Handle : PlaceOK(HT[g], G)
  <2>1. ASSUME NEW g \in Handle, g # h PROVE PlaceOK(HS[g], G)
    <3>1. PlaceOK(HS[g], H)
      BY DEF Sound
    <3>2. \A x \in Block : In(HS[g], x) => H.blk[x] # None
      BY FreeHasNone
    <3>3. \A j \in 1..Buffers : HandleOwns(HS[g], j) => G.size[j] = H.size[j]
      BY <1>2, <1>6, <2>1
    <3> QED BY <1>2, <3>1, <3>2, <3>3, StaysPlaced
  <2> QED BY <1>1, <1>3, <2>1
<1>8. \A x \in Block : G.blk[x] # None => Backed(G.blk[x].ptr, G.blk[x].cap, G)
  BY <1>2, <1>6 DEF Sound, Backed, BlockOwns
<1>9. OneOwner(HT, G) /\ NoLeak(HT, G)
  <2>1. \A j \in 1..Buffers, g \in Handle : HandleOwns(HT[g], j) <=>
          (g = h /\ j = i /\ c # 0) \/ (g # h /\ HandleOwns(HS[g], j))
    BY <1>1
  <2>2. OneOwner(HT, G)
    BY <1>2, <1>6, <2>1 DEF Sound, OneOwner
  <2> QED BY <1>2, <2>1, <2>2 DEF Sound, NoLeak
<1>10. Counted(HT, G)
  <2>1. \A x \in Block : Sharers(HT, x) = Sharers(HS, x)
    BY <1>1 DEF Sharers
  <2> QED BY <1>2, <2>1 DEF Sound, Counted
<1>11. Divided(HT)
  BY <1>1 DEF Sound, Divided
<1> QED BY <1>1, <1>4, <1>7, <1>8, <1>9, <1>10, <1>11 DEF Sound, HT, G

(* Vec::drop gives back exactly the allocation that starts at the pointer. *)
LEMMA DeallocateOne ==
    ASSUME NEW H \in HeapRecord, NEW i \in 1..Buffers, NEW c \in Nat \ {0}
    PROVE  Deallocate(H, Base(i), c) = [H EXCEPT !.size[i] = 0]
<1> DEFINE F == [j \in DOMAIN H.size |-> IF j # 0 /\ Base(j) = Base(i) THEN 0 ELSE H.size[j]]
<1>1. Deallocate(H, Base(i), c) = [H EXCEPT !.size = F]
  BY DEF Deallocate
<1>2. DOMAIN H.size = 0..Buffers /\ H.size \in [0..Buffers -> 0..MaxCap]
  BY DEF HeapRecord
<1>3. \A j \in 0..Buffers : (j # 0 /\ Base(j) = Base(i)) <=> j = i
  BY BaseInjective, BoundsAssumption
<1>4. F = [H.size EXCEPT ![i] = 0]
  <2>1. \A j \in 0..Buffers : F[j] = [H.size EXCEPT ![i] = 0][j]
    BY <1>2, <1>3
  <2>2. F = [j \in 0..Buffers |-> F[j]]
    BY <1>2
  <2>3. [H.size EXCEPT ![i] = 0] = [j \in 0..Buffers |-> [H.size EXCEPT ![i] = 0][j]]
    BY <1>2
  <2> HIDE DEF F
  <2> QED BY <2>1, <2>2, <2>3
<1> QED BY <1>1, <1>4

(* An idle place is sound in any heap.                                     *)
LEMMA IdleAnywhere ==
    ASSUME NEW e, NEW H, Idle(e), PlaceOK(e, H), NEW G
    PROVE  PlaceOK(e, G)
BY IdleMeans, StaysPlaced

(* The owner of an allocation gives it back.                               *)
LEMMA FreeSound ==
    ASSUME NEW HS, NEW H, Sound(HS, H), NEW h \in Handle, Direct(HS[h]),
           NEW e, Idle(e), PlaceOK(e, H)
    PROVE  Sound([HS EXCEPT ![h] = e], Deallocate(H, VecPtr(HS[h]), VecCap(HS[h])))
<1>1. /\ PlaceOK(HS[h], H) /\ HS[h] # None /\ Backed(VecPtr(HS[h]), VecCap(HS[h]), H)
      /\ VecCap(HS[h]) \in Nat
  BY DEF Sound, Direct, PlaceOK, FieldsOK, HandleRecord, VecCap
<1>2. /\ \A b : ~ In(e, b) /\ ~ In(HS[h], b)
      /\ \A i : ~ HandleOwns(e, i)
  BY <1>1, IdleMeans, InMeans
<1>3. CASE VecCap(HS[h]) = 0
  <2>1. Deallocate(H, VecPtr(HS[h]), VecCap(HS[h])) = H
    BY <1>3 DEF Deallocate
  <2>2. \A i : ~ HandleOwns(HS[h], i)
    BY <1>3 DEF HandleOwns
  <2>3. Sound([HS EXCEPT ![h] = e], H)
    BY <1>2, <2>2, ReshapeSound
  <2> QED BY <2>1, <2>3
<1>4. CASE VecCap(HS[h]) # 0
  <2>1. PICK i \in 1..Buffers : VecPtr(HS[h]) = Base(i)
    BY <1>1, <1>4 DEF Backed
  <2>2. Deallocate(H, VecPtr(HS[h]), VecCap(HS[h])) = [H EXCEPT !.size[i] = 0]
    BY <1>1, <1>4, <2>1, DeallocateOne DEF Sound, HeapOK
  <2>3. HandleOwns(HS[h], i) /\ \A j \in 1..Buffers : HandleOwns(HS[h], j) => j = i
    BY <1>4, <2>1, BaseInjective DEF HandleOwns
  <2>4. PlaceOK(e, [H EXCEPT !.size[i] = 0])
    BY IdleAnywhere
  <2>5. 0 \in 0..MaxCap
    BY BoundsAssumption
  <2>6. Sound([HS EXCEPT ![h] = e], [H EXCEPT !.size[i] = 0])
    BY <1>2, <2>3, <2>4, <2>5, ResizeSound
  <2> QED BY <2>2, <2>6
<1> QED BY <1>3, <1>4

(* An idle place gets an allocation of its own.                            *)
LEMMA CreateSound ==
    ASSUME NEW HS, NEW H, Sound(HS, H), NEW h \in Handle, Idle(HS[h]),
           NEW i \in 1..Buffers, H.size[i] = 0, NEW c \in 1..MaxCap,
           NEW r, FieldsOK(r), Direct(r), VecPtr(r) = Base(i), VecCap(r) = c
    PROVE  Sound([HS EXCEPT ![h] = r], [H EXCEPT !.size[i] = c])
<1>1. PlaceOK(HS[h], H)
  BY DEF Sound
<1>2. /\ \A b : ~ In(HS[h], b)
      /\ \A j : ~ HandleOwns(HS[h], j)
  BY <1>1, IdleMeans
<1>3. r # None /\ ~ Promoted(r) /\ ~ Idle(r) /\ \A b : ~ In(r, b)
  <2>1. r # None /\ ~ Promoted(r) /\ ~ Idle(r)
    BY DEF Direct, FieldsOK, Promoted, Idle, Unpromoted, Null
  <2> QED BY <2>1 DEF In, InBlock, Promoted
<1>4. \A j \in 1..Buffers : HandleOwns(r, j) <=> j = i /\ c # 0
  BY BaseInjective DEF HandleOwns
<1>5. PlaceOK(r, [H EXCEPT !.size[i] = c])
  <2>1. [H EXCEPT !.size[i] = c].size[i] = c
    BY BoundsAssumption DEF Sound, HeapOK, HeapRecord
  <2>2. Backed(VecPtr(r), VecCap(r), [H EXCEPT !.size[i] = c])
    BY <2>1 DEF Backed
  <2> QED BY <1>3, <2>2 DEF PlaceOK
<1>6. c \in 0..MaxCap
  OBVIOUS
<1> QED BY <1>2, <1>3, <1>4, <1>5, <1>6, ResizeSound

(* The same of an allocation of no bytes, which is none.                   *)
LEMMA CreateNothingSound ==
    ASSUME NEW HS, NEW H, Sound(HS, H), NEW h \in Handle, Idle(HS[h]),
           NEW r, FieldsOK(r), Direct(r), VecPtr(r) = Dangling, VecCap(r) = 0
    PROVE  Sound([HS EXCEPT ![h] = r], H)
<1>1. /\ \A b : ~ In(HS[h], b)
      /\ \A j : ~ HandleOwns(HS[h], j)
  BY IdleMeans DEF Sound
<1>2. r # None /\ ~ Promoted(r) /\ ~ Idle(r) /\ \A b : ~ In(r, b)
  <2>1. r # None /\ ~ Promoted(r) /\ ~ Idle(r)
    BY DEF Direct, FieldsOK, Promoted, Idle, Unpromoted, Null
  <2> QED BY <2>1 DEF In, InBlock, Promoted
<1>3. PlaceOK(r, H)
  BY <1>2 DEF PlaceOK, Backed
<1>4. \A j : ~ HandleOwns(r, j)
  BY DEF HandleOwns
<1> QED BY <1>1, <1>2, <1>3, <1>4, ReshapeSound

(* A handle is dropped.                                                    *)
LEMMA DropSound ==
    ASSUME NEW HS, NEW H, Sound(HS, H), NEW h \in Handle, HS[h] # None,
           NEW e, Idle(e), PlaceOK(e, H)
    PROVE  Sound([HS EXCEPT ![h] = e], DropHandle(H, HS[h]))
<1> DEFINE r == HS[h]
<1>1. PlaceOK(r, H) /\ FieldsOK(r)
  BY DEF Sound, PlaceOK
<1>2. CASE Direct(r)
  <2>1. DropHandle(H, r) = Deallocate(H, VecPtr(r), VecCap(r))
    <3>1. CASE r.kind = "Vec"
      <4>1. VecPtr(r) = r.ptr /\ VecCap(r) = r.cap
        BY <1>1, <3>1 DEF FieldsOK, HandleRecord, VecPtr, VecCap, Null
      <4>2. ~ Unpromoted(r) /\ ~ Promoted(r)
        BY <1>1, <3>1 DEF FieldsOK, Unpromoted, Promoted, Null
      <4> QED BY <3>1, <4>1, <4>2 DEF DropHandle
    <3>2. CASE r.kind # "Vec"
      BY <1>2, <3>2 DEF DropHandle, Direct, Unpromoted, Promoted
    <3> QED BY <3>1, <3>2
  <2> QED BY <1>2, <2>1, FreeSound
<1>3. CASE Promoted(r)
  <2>1. /\ In(r, r.data.n) /\ r.data.n \in Block /\ H.blk[r.data.n] # None
        /\ r.kind # "Vec" /\ ~ Unpromoted(r)
    BY <1>1, <1>3, InMeans DEF PlaceOK, Within, FieldsOK, Promoted, Unpromoted, Null
  <2>2. PICK b \in Block : b = r.data.n
    BY <2>1
  <2>3. DropHandle(H, r) = Release(H, b)
    BY <1>3, <2>1, <2>2 DEF DropHandle
  <2>4. CASE H.blk[b].ref # 1
    BY <2>1, <2>2, <2>3, <2>4, LeaveSound
  <2>5. CASE H.blk[b].ref = 1
    <3> DEFINE p == H.blk[b].ptr
               c == H.blk[b].cap
               v == VecAt(p, 0, c)
               HT == [HS EXCEPT ![h] = v]
               G == [H EXCEPT !.blk[b] = None]
    <3>1. p \in Nat /\ c \in Nat
      BY <2>1, <2>2 DEF Sound, HeapOK, HeapRecord, BlockRecord
    <3>2. FieldsOK(v) /\ Direct(v) /\ VecPtr(v) = p /\ VecCap(v) = c
      <4>1. /\ v.kind = "Vec" /\ v.ptr = p /\ v.len = 0 /\ v.cap = c /\ v.data = Null
            /\ Null.n = 0 /\ v \in HandleRecord
        BY <3>1 DEF VecAt, Null, HandleRecord
      <4> HIDE DEF v
      <4> QED BY <3>1, <4>1, PlacesAssumption DEF FieldsOK, Direct, VecPtr, VecCap
    <3> HIDE DEF v
    <3>3. Sound(HT, G)
      BY <2>1, <2>2, <2>5, <3>2, DisownSound
    <3>4. HT[h] = v
      BY DEF Sound
    <3>5. Release(H, b) = Deallocate(G, p, c)
      <4>1. H \in HeapRecord
        BY DEF Sound, HeapOK
      <4>2. G.size = H.size /\ G.blk = [H.blk EXCEPT ![b] = None]
        BY <4>1 DEF HeapRecord
      <4>3. CASE c = 0
        BY <2>5, <4>3 DEF Release, Deallocate
      <4>4. CASE c # 0
        <5> DEFINE F == [i \in DOMAIN H.size |->
                          IF i # 0 /\ Base(i) = p THEN 0 ELSE H.size[i]]
        <5>1. Release(H, b) = [[H EXCEPT !.size = F] EXCEPT !.blk[b] = None]
          BY <2>5, <4>4 DEF Release, Deallocate
        <5>2. Deallocate(G, p, c) = [G EXCEPT !.size = F]
          BY <4>2, <4>4 DEF Deallocate
        <5> HIDE DEF F
        <5> QED BY <4>1, <5>1, <5>2 DEF HeapRecord
      <4> QED BY <4>3, <4>4
    <3>6. PlaceOK(e, G)
      BY IdleAnywhere
    <3>7. Sound([HT EXCEPT ![h] = e], Deallocate(G, VecPtr(HT[h]), VecCap(HT[h])))
      BY <3>2, <3>3, <3>4, <3>6, FreeSound
    <3>8. [HT EXCEPT ![h] = e] = [HS EXCEPT ![h] = e]
      BY DEF Sound
    <3> QED BY <2>3, <3>2, <3>4, <3>5, <3>7, <3>8
  <2> QED BY <2>4, <2>5
<1>4. CASE Idle(r)
  <2>1. DropHandle(H, r) = H
    BY <1>4 DEF DropHandle, Idle, Unpromoted, Promoted
  <2> QED BY <1>4, <2>1, IdleSound
<1> QED
  <2>1. Direct(r) \/ Promoted(r) \/ Idle(r)
    BY <1>1 DEF FieldsOK, HandleRecord, Direct, Promoted, Unpromoted, Idle
  <2> QED BY <1>2, <1>3, <1>4, <2>1

-----------------------------------------------------------------------------
(* What several methods have in common.                                    *)

(* new_empty_with_ptr and an empty place own nothing.                      *)
LEMMA EmptyIdle ==
    ASSUME NEW H
    PROVE  Idle(Empty) /\ PlaceOK(Empty, H) /\ Idle(None) /\ PlaceOK(None, H)
<1>1. /\ Empty.kind = "Bytes" /\ Empty.len = 0 /\ Empty.cap = 0 /\ Empty.data = Null
      /\ Null.tag = "null" /\ Empty \in HandleRecord
  BY DanglingBehind DEF Empty, BytesAt, Null, HandleRecord
<1> QED BY <1>1 DEF Idle, PlaceOK, FieldsOK, Direct, Promoted, Unpromoted

(* Every handle is of one of three sorts.                                  *)
LEMMA Sorts ==
    ASSUME NEW r, FieldsOK(r)
    PROVE  /\ r # None /\ (Direct(r) \/ Promoted(r) \/ Idle(r))
           /\ Promoted(r) => In(r, r.data.n) /\ ~ Unpromoted(r) /\ ~ Direct(r)
           /\ Direct(r) => ~ Promoted(r)
           /\ Idle(r) => ~ Promoted(r) /\ ~ Direct(r)
           /\ r.kind # "Vec" => (Unpromoted(r) <=> Direct(r))
BY PlacesAssumption
DEF FieldsOK, HandleRecord, Direct, Promoted, Unpromoted, Idle, Null, In, InBlock

(* A handle is looked at in another way, or made narrower.                 *)
LEMMA ViewSound ==
    ASSUME NEW HS, NEW H, Sound(HS, H), NEW h \in Handle, HS[h] # None, NEW s, FieldsOK(s),
           \/ /\ Direct(HS[h]) /\ Direct(s)
              /\ VecPtr(s) = VecPtr(HS[h]) /\ VecCap(s) = VecCap(HS[h])
           \/ /\ Promoted(HS[h]) /\ s.data = HS[h].data
              /\ s.ptr >= HS[h].ptr /\ s.ptr + Size(s) <= HS[h].ptr + Size(HS[h])
              /\ s.kind = "BytesMut" => HS[h].kind = "BytesMut"
           \/ Idle(HS[h]) /\ Idle(s) /\ PlaceOK(s, H)
    PROVE  Sound([HS EXCEPT ![h] = s], H)
<1> DEFINE r == HS[h]
<1>1. PlaceOK(r, H) /\ FieldsOK(r) /\ s # None
  BY Sorts DEF Sound, PlaceOK
<1>2. CASE /\ Direct(r) /\ Direct(s)
           /\ VecPtr(s) = VecPtr(r) /\ VecCap(s) = VecCap(r)
  <2>1. PlaceOK(s, H)
    BY <1>1, <1>2, Sorts DEF PlaceOK
  <2>2. \A b : ~ In(r, b) /\ ~ In(s, b)
    BY <1>1, <1>2, <2>1, InMeans
  <2>3. \A i : HandleOwns(s, i) <=> HandleOwns(r, i)
    BY <1>2 DEF HandleOwns
  <2> QED BY <2>1, <2>2, <2>3, ReshapeSound
<1>3. CASE /\ Promoted(r) /\ s.data = r.data
           /\ s.ptr >= r.ptr /\ s.ptr + Size(s) <= r.ptr + Size(r)
           /\ s.kind = "BytesMut" => r.kind = "BytesMut"
  <2>1. /\ s.ptr \in Nat /\ r.ptr \in Nat /\ Size(s) \in Nat /\ Size(r) \in Nat
        /\ Promoted(s)
    BY <1>1, <1>3 DEF FieldsOK, HandleRecord, Size, Promoted
  <2>2. PlaceOK(s, H)
    <3>1. r.data.n \in Block /\ Within(r, H.blk[r.data.n])
      BY <1>1, <1>3 DEF PlaceOK
    <3>2. H.blk[r.data.n].ptr \in Nat /\ H.blk[r.data.n].cap \in Nat
      BY <3>1 DEF Within, Sound, HeapOK, HeapRecord, BlockRecord
    <3>3. Within(s, H.blk[s.data.n])
      BY <1>3, <2>1, <3>1, <3>2 DEF Within
    <3> QED BY <1>3, <2>1, <3>1, <3>3, Sorts DEF PlaceOK
  <2>3. \A b : In(s, b) <=> In(r, b)
    BY <1>1, <1>3 DEF In
  <2>4. \A i : ~ HandleOwns(s, i) /\ ~ HandleOwns(r, i)
    BY <1>1, <1>3, <2>1, Sorts DEF HandleOwns
  <2>5. ASSUME NEW b \in Block, NEW g \in Handle, g # h, In(s, b), In(HS[g], b),
               s.kind = "BytesMut" \/ HS[g].kind = "BytesMut"
        PROVE  Apart(s, HS[g])
    <3>1. Apart(r, HS[g])
      BY <1>3, <2>3, <2>5 DEF Sound, Divided, Apart
    <3>2. HS[g].ptr \in Nat /\ Size(HS[g]) \in Nat
      BY <2>5 DEF Sound, PlaceOK, In, FieldsOK, HandleRecord, Size
    <3> QED BY <1>3, <2>1, <3>1, <3>2 DEF Apart
  <2> QED BY <2>2, <2>3, <2>4, <2>5, ReshapeSound
<1>4. CASE Idle(r) /\ Idle(s) /\ PlaceOK(s, H)
  BY <1>4, IdleSound
<1> QED BY <1>2, <1>3, <1>4

(* advance_unchecked keeps the end of the view and what is owned.          *)
LEMMA AdvancedFields ==
    ASSUME NEW r, FieldsOK(r), r.kind # "Vec", NEW n \in Nat, n <= Size(r)
    PROVE  /\ FieldsOK(Advanced(r, n)) /\ Advanced(r, n).kind = r.kind
           /\ Advanced(r, n).ptr = r.ptr + n
           /\ Size(Advanced(r, n)) = Size(r) - n
           /\ Advanced(r, n).len = IF n <= r.len THEN r.len - n ELSE 0
           /\ Unpromoted(r) => /\ Unpromoted(Advanced(r, n))
                               /\ VecPtr(Advanced(r, n)) = VecPtr(r)
                               /\ VecCap(Advanced(r, n)) = VecCap(r)
           /\ ~ Unpromoted(r) => Advanced(r, n).data = r.data
<1> DEFINE s == Advanced(r, n)
<1>1. /\ r \in HandleRecord /\ r.ptr \in Nat /\ r.len \in Nat /\ r.cap \in Nat /\ r.data.n \in Nat
      /\ r.data \in [tag : {"null", "offset", "block"}, n : Nat]
  BY DEF FieldsOK, HandleRecord
<1>2. /\ s.kind = r.kind /\ s.ptr = r.ptr + n /\ s.len = IF n <= r.len THEN r.len - n ELSE 0
      /\ s.cap = IF r.kind = "Bytes" THEN 0 ELSE r.cap - n
      /\ s.data = AdvanceData(r, n)
  BY <1>1 DEF Advanced, HandleRecord
<1>0. s = [r EXCEPT !.ptr = s.ptr, !.len = s.len, !.cap = s.cap, !.data = s.data]
  BY <1>2 DEF Advanced
<1> HIDE DEF s
<1>3. /\ Unpromoted(r) => s.data.tag = "offset" /\ s.data.n = r.data.n + n
      /\ ~ Unpromoted(r) => s.data = r.data
      /\ s.data \in [tag : {"null", "offset", "block"}, n : Nat]
  BY <1>1, <1>2 DEF AdvanceData, Offset, Unpromoted
<1>4. s.ptr \in Nat /\ s.len \in Nat /\ s.cap \in Nat
  BY <1>1, <1>2 DEF Size
<1>5. s \in HandleRecord
  BY <1>0, <1>1, <1>3, <1>4 DEF HandleRecord
<1>6. FieldsOK(s)
  <2>1. CASE r.kind = "Bytes"
    <3>1. s.kind = "Bytes" /\ s.cap = 0
      BY <1>2, <2>1
    <3> QED BY <1>5, <3>1 DEF FieldsOK
  <2>2. CASE r.kind # "Bytes"
    <3>1. r.kind = "BytesMut" /\ r.data.tag # "null" /\ r.len <= r.cap /\ n <= r.cap
      BY <1>1, <2>2 DEF FieldsOK, HandleRecord, Size
    <3>2. s.kind = "BytesMut" /\ s.cap = r.cap - n
      BY <1>2, <3>1
    <3>3. s.len <= s.cap
      BY <1>1, <1>2, <3>1, <3>2
    <3>4. s.data.tag # "null"
      BY <1>3, <3>1 DEF Unpromoted
    <3> QED BY <1>5, <3>2, <3>3, <3>4 DEF FieldsOK
  <2> QED BY <2>1, <2>2
<1>7. Size(s) = Size(r) - n
  BY <1>1, <1>2 DEF Size
<1>8. Unpromoted(r) => VecPtr(s) = VecPtr(r) /\ VecCap(s) = VecCap(r) /\ Unpromoted(s)
  BY <1>1, <1>2, <1>3 DEF VecPtr, VecCap, Unpromoted, Size
<1> QED BY <1>2, <1>3, <1>6, <1>7, <1>8 DEF s

(* Vec::with_capacity for an idle place.                                   *)
LEMMA AllocateSound ==
    ASSUME NEW HS, NEW H, Sound(HS, H), NEW h \in Handle, Idle(HS[h]),
           NEW c \in Nat, CanAllocate(H, c),
           NEW r, FieldsOK(r), Direct(r), VecPtr(r) = NewPtr(H, c), VecCap(r) = c
    PROVE  Sound([HS EXCEPT ![h] = r], Allocate(H, c))
<1>1. CASE c = 0
  BY <1>1, CreateNothingSound DEF NewPtr, Allocate
<1>2. CASE c # 0
  <2>1. FreeBuffers(H) \in SUBSET Nat /\ FreeBuffers(H) # {}
    BY <1>2 DEF CanAllocate, FreeBuffers
  <2>2. PICK i \in FreeBuffers(H) : i = Least(FreeBuffers(H))
    BY <2>1, LeastIn
  <2>3. i \in 1..Buffers /\ H.size[i] = 0 /\ c \in 1..MaxCap
    BY <1>2, BoundsAssumption DEF FreeBuffers, CanAllocate
  <2>4. Allocate(H, c) = [H EXCEPT !.size[i] = c] /\ VecPtr(r) = Base(i)
    BY <1>2, <2>2 DEF Allocate, NewPtr
  <2>5. Sound([HS EXCEPT ![h] = r], [H EXCEPT !.size[i] = c])
    BY <2>3, <2>4, CreateSound
  <2> QED BY <2>4, <2>5
<1> QED BY <1>1, <1>2

(* Where the allocation will start.                                        *)
LEMMA NewPtrNat ==
    ASSUME NEW H, NEW c, CanAllocate(H, c)
    PROVE  NewPtr(H, c) \in Nat
<1>1. FreeBuffers(H) # {} => Least(FreeBuffers(H)) \in 0..Buffers
  <2>1. FreeBuffers(H) \in SUBSET Nat /\ FreeBuffers(H) \in SUBSET (0..Buffers)
    BY BoundsAssumption DEF FreeBuffers
  <2> QED BY <2>1, LeastIn
<1> QED BY <1>1, DanglingBehind DEF NewPtr, CanAllocate

(* The heap when a handle has been promoted, but not yet shared.           *)
Promoting(H, r) ==
    IF Unpromoted(r) THEN Promote(H, Least(FreeBlocks(H)), VecPtr(r), VecCap(r), 1) ELSE H

(* clone_inner and shallow_clone, first half: the handle is promoted.  The *)
(* second half increments the count, or makes the block with 2 at once.    *)
LEMMA PromotingSound ==
    ASSUME NEW HS, NEW H, Sound(HS, H), NEW h \in Handle, HS[h] # None,
           HS[h].kind # "Vec", ~ Idle(HS[h]), CanShare(H, HS[h])
    PROVE  /\ Sound([HS EXCEPT ![h] = SharedHandle(H, HS[h])], Promoting(H, HS[h]))
           /\ FieldsOK(SharedHandle(H, HS[h])) /\ Promoted(SharedHandle(H, HS[h]))
           /\ SharedHandle(H, HS[h]).data = SharedData(H, HS[h])
           /\ SharedData(H, HS[h]).n \in Block
           /\ Promoting(H, HS[h]).blk[SharedData(H, HS[h]).n] # None
           /\ SharedHeap(H, HS[h]) = Increment(Promoting(H, HS[h]), SharedData(H, HS[h]).n)
           /\ \A f \in {"kind", "ptr", "len", "cap"} : SharedHandle(H, HS[h])[f] = HS[h][f]
<1> DEFINE r == HS[h]
           s == SharedHandle(H, r)
           d == SharedData(H, r)
<1>1. PlaceOK(r, H) /\ FieldsOK(r) /\ r \in HandleRecord /\ (Unpromoted(r) <=> Direct(r))
  BY Sorts DEF Sound, PlaceOK, FieldsOK
<1>2. CASE Unpromoted(r)
  <2>1. FreeBlocks(H) \in SUBSET Nat /\ FreeBlocks(H) # {}
    BY <1>2, BoundsAssumption DEF FreeBlocks, CanShare
  <2>2. PICK b \in FreeBlocks(H) : b = Least(FreeBlocks(H))
    BY <2>1, LeastIn
  <2>3. b \in Block /\ b \in Nat /\ H.blk[b] = None
    BY <2>1 DEF FreeBlocks
  <2>4. d = InBlock(b) /\ d.n = b /\ d.tag = "block"
        /\ d \in [tag : {"null", "offset", "block"}, n : Nat]
    BY <1>2, <2>2, <2>3 DEF SharedData, InBlock
  <2>5. /\ s \in HandleRecord /\ s.kind = r.kind /\ s.ptr = r.ptr /\ s.len = r.len
        /\ s.cap = r.cap /\ s.data = d
    BY <1>1, <2>4 DEF SharedHandle, HandleRecord
  <2> HIDE DEF s, d
  <2>6. FieldsOK(s) /\ Promoted(s) /\ In(s, b) /\ Size(s) = Size(r)
    BY <1>1, <2>4, <2>5, PlacesAssumption DEF FieldsOK, Promoted, In, Size
  <2>7. s.ptr >= VecPtr(r) /\ s.ptr + Size(s) <= VecPtr(r) + VecCap(r)
    BY <1>1, <2>5, <2>6 DEF VecPtr, VecCap, Size, FieldsOK, HandleRecord
  <2>8. Promoting(H, r) = Promote(H, b, VecPtr(r), VecCap(r), 1)
    BY <1>2, <2>2 DEF Promoting
  <2>9. Sound([HS EXCEPT ![h] = s], Promoting(H, r))
    BY <1>1, <1>2, <2>3, <2>6, <2>7, <2>8, PromoteSound
  <2>10. SharedHeap(H, r) = Increment(Promoting(H, r), b)
    <3>1. SharedHeap(H, r) = Promote(H, b, VecPtr(r), VecCap(r), 2)
      BY <1>2, <2>2 DEF SharedHeap, Promoted, Unpromoted
    <3>2. H \in HeapRecord
      BY DEF Sound, HeapOK
    <3>3. ASSUME NEW p, NEW c PROVE Promote(H, b, p, c, 2) = Increment(Promote(H, b, p, c, 1), b)
      <4> DEFINE k == [ptr |-> p, cap |-> c, ref |-> 1]
                 G == [H EXCEPT !.blk[b] = k]
      <4>1. G.blk[b] = k /\ G = [H EXCEPT !.blk = [H.blk EXCEPT ![b] = k]]
        BY <2>3, <3>2 DEF HeapRecord
      <4>2. [k EXCEPT !.ref = @ + 1] = [ptr |-> p, cap |-> c, ref |-> 2]
        OBVIOUS
      <4>3. Increment(G, b) = [G EXCEPT !.blk[b] = [k EXCEPT !.ref = @ + 1]]
        BY <4>1 DEF Increment
      <4> HIDE DEF k
      <4>4. [G EXCEPT !.blk[b] = [k EXCEPT !.ref = @ + 1]]
            = [H EXCEPT !.blk[b] = [k EXCEPT !.ref = @ + 1]]
        BY <2>3, <3>2 DEF HeapRecord
      <4> QED BY <4>2, <4>3, <4>4 DEF Promote, k
    <3> QED BY <2>8, <3>1, <3>3
  <2>11. Promoting(H, r).blk[b] # None
    <3>1. In([HS EXCEPT ![h] = s][h], b)
      BY <2>6 DEF Sound
    <3> QED BY <2>3, <2>9, <3>1, FreeHasNone
  <2> QED
    BY <2>3, <2>4, <2>5, <2>6, <2>9, <2>10, <2>11 DEF s, d
<1>3. CASE ~ Unpromoted(r)
  <2>1. Promoted(r) /\ r.data.n \in Block /\ H.blk[r.data.n] # None
    BY <1>1, <1>3, Sorts DEF PlaceOK, Within
  <2>2. d = r.data /\ s = r
    BY <1>1, <1>3 DEF SharedData, SharedHandle, HandleRecord
  <2>3. Promoting(H, r) = H /\ SharedHeap(H, r) = Increment(H, r.data.n)
    BY <1>3, <2>1 DEF Promoting, SharedHeap
  <2>4. Sound([HS EXCEPT ![h] = r], H)
    <3>1. r.ptr >= r.ptr /\ r.ptr + Size(r) <= r.ptr + Size(r)
      BY <1>1 DEF FieldsOK, HandleRecord, Size
    <3> QED BY <1>1, <2>1, <3>1, ViewSound
  <2> QED BY <1>1, <2>1, <2>2, <2>3, <2>4
<1> QED BY <1>2, <1>3

(* A view within a view that keeps apart from another.                     *)
LEMMA NarrowApart ==
    ASSUME NEW r, NEW s, NEW x, FieldsOK(r), FieldsOK(s), FieldsOK(x), Apart(r, x),
           s.ptr >= r.ptr, s.ptr + Size(s) <= r.ptr + Size(r)
    PROVE  Apart(s, x)
BY DEF Apart, Size, FieldsOK, HandleRecord

(* slice, split_to, split_off: two views of what one handle showed.        *)
LEMMA ShareSound ==
    ASSUME NEW HS, NEW H, Sound(HS, H), NEW h \in Handle, NEW g \in Handle, h # g,
           HS[h] # None, HS[h].kind # "Vec", ~ Idle(HS[h]), CanShare(H, HS[h]), Idle(HS[g]),
           NEW s, NEW v, FieldsOK(s), FieldsOK(v),
           s.data = SharedData(H, HS[h]), v.data = SharedData(H, HS[h]),
           s.kind = HS[h].kind, v.kind = HS[h].kind,
           s.ptr >= HS[h].ptr, s.ptr + Size(s) <= HS[h].ptr + Size(HS[h]),
           v.ptr >= HS[h].ptr, v.ptr + Size(v) <= HS[h].ptr + Size(HS[h]),
           s.kind = "BytesMut" => Apart(s, v)
    PROVE  Sound([HS EXCEPT ![h] = s, ![g] = v], SharedHeap(H, HS[h]))
<1> DEFINE r == HS[h]
           w == SharedHandle(H, r)
           G == Promoting(H, r)
           HT == [HS EXCEPT ![h] = w]
           HU == [HS EXCEPT ![h] = s]
<1>1. /\ Sound(HT, G) /\ FieldsOK(w) /\ Promoted(w) /\ w.data = SharedData(H, r)
      /\ w.data.n \in Block /\ G.blk[w.data.n] # None /\ SharedHeap(H, r) = Increment(G, w.data.n)
      /\ w.kind = r.kind /\ w.ptr = r.ptr /\ w.len = r.len /\ w.cap = r.cap
  BY PromotingSound
<1>2. Size(w) = Size(r)
  BY <1>1 DEF Size
<1>3. HT[h] = w /\ HT[g] = HS[g] /\ \A x \in Handle : x # h => HT[x] = HS[x]
  BY DEF Sound
<1>4. PICK b \in Block : b = w.data.n
  BY <1>1
<1>5. In(w, b) /\ In(s, b) /\ In(v, b)
  BY <1>1, <1>4, Sorts DEF In
<1> HIDE DEF w, G, HT
<1>6. Sound([HT EXCEPT ![h] = s], G)
  <2>1. HT[h] # None
    BY <1>1, <1>3, Sorts
  <2> QED BY <1>1, <1>2, <1>3, <2>1, ViewSound
<1>7. [HT EXCEPT ![h] = s] = HU
  BY DEF HT, Sound
<1>8. HU[h] = s /\ HU[g] = HS[g] /\ \A x \in Handle : x # h => HU[x] = HS[x]
  BY DEF Sound
<1>9. G.blk[b].ptr \in Nat /\ G.blk[b].cap \in Nat
      /\ v.ptr >= G.blk[b].ptr /\ v.ptr + Size(v) <= G.blk[b].ptr + G.blk[b].cap
  <2>1. Within(w, G.blk[b])
    BY <1>1, <1>3, <1>4, Sorts DEF Sound, PlaceOK
  <2>2. G.blk[b].ptr \in Nat /\ G.blk[b].cap \in Nat
    BY <1>1, <1>4 DEF Sound, HeapOK, HeapRecord, BlockRecord
  <2>3. v.ptr \in Nat /\ w.ptr \in Nat /\ Size(v) \in Nat /\ Size(w) \in Nat
    BY <1>1 DEF FieldsOK, HandleRecord, Size
  <2> QED BY <1>1, <1>2, <2>1, <2>2, <2>3 DEF Within
<1>10. ASSUME NEW x \in Handle, x # g, In(HU[x], b),
              v.kind = "BytesMut" \/ HU[x].kind = "BytesMut"
       PROVE  Apart(v, HU[x])
  <2>1. CASE x = h
    BY <1>8, <1>10, <2>1 DEF Apart
  <2>2. CASE x # h
    <3>1. Apart(w, HT[x])
      BY <1>1, <1>3, <1>5, <1>8, <1>10, <2>2 DEF Sound, Divided, Apart
    <3>2. FieldsOK(HT[x])
      BY <1>1, <1>3, <1>8, <1>10, <2>2 DEF Sound, PlaceOK, In
    <3> QED BY <1>1, <1>2, <1>3, <1>8, <2>2, <3>1, <3>2, NarrowApart
  <2> QED BY <2>1, <2>2
<1> HIDE DEF HU
<1>11. Sound([HU EXCEPT ![g] = v], Increment(G, b))
  BY <1>1, <1>4, <1>5, <1>6, <1>7, <1>8, <1>9, <1>10, JoinSound
<1>12. [HU EXCEPT ![g] = v] = [HS EXCEPT ![h] = s, ![g] = v]
  BY DEF HU
<1> QED BY <1>1, <1>4, <1>11, <1>12

(* The last handle of an allocation becomes its owner.                     *)
LEMMA UniqueSound ==
    ASSUME NEW HS, Sound(HS, heap), NEW h \in Handle, HS[h] # None, HS[h].kind # "Vec",
           IsUnique(heap, HS[h]),
           NEW s, FieldsOK(s), Direct(s), VecPtr(s) = OwnPtr(HS[h]), VecCap(s) = OwnCap(HS[h])
    PROVE  Sound([HS EXCEPT ![h] = s], Disown(heap, HS[h]))
<1>1. PlaceOK(HS[h], heap) /\ FieldsOK(HS[h])
  BY DEF Sound, PlaceOK
<1>2. CASE Unpromoted(HS[h])
  BY <1>1, <1>2, Sorts, ViewSound DEF OwnPtr, OwnCap, Disown
<1>3. CASE ~ Unpromoted(HS[h])
  <2>1. PICK b \in Block : b = HS[h].data.n /\ heap.blk[b] # None /\ heap.blk[b].ref = 1
    BY <1>1, <1>3 DEF IsUnique, PlaceOK, Within
  <2>2. In(HS[h], b)
    BY <1>1, <1>3, <2>1, Sorts DEF IsUnique
  <2> QED BY <1>3, <2>1, <2>2, DisownSound DEF OwnPtr, OwnCap, Disown
<1> QED BY <1>2, <1>3

(* The fields of the handles the methods build.                            *)
LEMMA BytesFields ==
    ASSUME NEW p \in Nat, NEW n \in Nat, NEW d \in [tag : {"null", "offset", "block"}, n : Nat]
    PROVE  /\ FieldsOK(BytesAt(p, n, d)) /\ BytesAt(p, n, d).kind = "Bytes"
           /\ BytesAt(p, n, d).ptr = p /\ BytesAt(p, n, d).len = n /\ BytesAt(p, n, d).data = d
           /\ Size(BytesAt(p, n, d)) = n
<1>1. /\ BytesAt(p, n, d) \in HandleRecord /\ BytesAt(p, n, d).kind = "Bytes"
      /\ BytesAt(p, n, d).ptr = p /\ BytesAt(p, n, d).len = n /\ BytesAt(p, n, d).cap = 0
      /\ BytesAt(p, n, d).data = d
  BY DEF BytesAt, HandleRecord
<1> QED BY <1>1 DEF FieldsOK, Size

(* A BytesMut within its capacity.                                         *)
LEMMA MutFields ==
    ASSUME NEW p \in Nat, NEW n \in Nat, NEW c \in Nat, n <= c,
           NEW d \in [tag : {"offset", "block"}, n : Nat]
    PROVE  /\ FieldsOK(MutAt(p, n, c, d)) /\ MutAt(p, n, c, d).kind = "BytesMut"
           /\ MutAt(p, n, c, d).ptr = p /\ MutAt(p, n, c, d).len = n
           /\ MutAt(p, n, c, d).cap = c /\ MutAt(p, n, c, d).data = d
           /\ Size(MutAt(p, n, c, d)) = c
<1>1. /\ MutAt(p, n, c, d) \in HandleRecord /\ MutAt(p, n, c, d).kind = "BytesMut"
      /\ MutAt(p, n, c, d).ptr = p /\ MutAt(p, n, c, d).len = n
      /\ MutAt(p, n, c, d).cap = c /\ MutAt(p, n, c, d).data = d
  BY DEF MutAt, HandleRecord
<1> QED BY <1>1 DEF FieldsOK, Size

(* A Vec within its capacity owns its allocation.                          *)
LEMMA VecFields ==
    ASSUME NEW p \in Nat, NEW n \in Nat, NEW c \in Nat, n <= c
    PROVE  /\ FieldsOK(VecAt(p, n, c)) /\ VecAt(p, n, c).kind = "Vec" /\ Direct(VecAt(p, n, c))
           /\ VecAt(p, n, c).ptr = p /\ VecAt(p, n, c).len = n /\ VecAt(p, n, c).cap = c
           /\ VecPtr(VecAt(p, n, c)) = p /\ VecCap(VecAt(p, n, c)) = c
<1>1. /\ VecAt(p, n, c) \in HandleRecord /\ VecAt(p, n, c).kind = "Vec"
      /\ VecAt(p, n, c).ptr = p /\ VecAt(p, n, c).len = n
      /\ VecAt(p, n, c).cap = c /\ VecAt(p, n, c).data = Null /\ Null.n = 0
  BY DEF VecAt, HandleRecord, Null
<1> QED BY <1>1, PlacesAssumption DEF FieldsOK, Direct, VecPtr, VecCap

(* A BytesMut without a block, o bytes behind the start of its allocation. *)
LEMMA OffsetMut ==
    ASSUME NEW p \in Nat, NEW n \in Nat, NEW c \in Nat, n <= c, NEW o \in Nat,
           NEW r, r = MutAt(p, n, c, Offset(o))
    PROVE  /\ FieldsOK(r) /\ Direct(r) /\ r.kind = "BytesMut"
           /\ VecPtr(r) = p - o /\ VecCap(r) = c + o
<1>1. Offset(o) \in [tag : {"offset", "block"}, n : Nat] /\ Offset(o).n = o /\ Offset(o).tag = "offset"
  BY DEF Offset
<1>2. PICK d \in [tag : {"offset", "block"}, n : Nat] : d = Offset(o)
  BY <1>1
<1>3. /\ FieldsOK(r) /\ r.kind = "BytesMut" /\ r.ptr = p /\ r.cap = c /\ r.data = d
  BY <1>2, MutFields
<1> QED BY <1>1, <1>2, <1>3, Sorts DEF VecPtr, VecCap, Unpromoted

(* Bytes::from_vec                                                         *)
LEMMA FromVecSound ==
    ASSUME NEW HS, NEW H, Sound(HS, H), NEW h \in Handle, HS[h] # None, HS[h].kind = "Vec",
           CanFreeze(H, HS[h])
    PROVE  Sound([HS EXCEPT ![h] = BytesFromVec(H, HS[h])], HeapFromVec(H, HS[h]))
<1> DEFINE v == HS[h]
<1>1. FieldsOK(v) /\ Direct(v)
  BY DEF Sound, PlaceOK, Direct
<1>2. /\ v.ptr \in Nat /\ v.len \in Nat /\ v.cap \in Nat /\ v.len <= v.cap
      /\ VecPtr(v) = v.ptr /\ VecCap(v) = v.cap
  BY <1>1 DEF FieldsOK, HandleRecord, VecPtr, VecCap, Null
<1>3. CASE v.len = 0
  <2>1. BytesFromVec(H, v) = Empty /\ HeapFromVec(H, v) = Deallocate(H, VecPtr(v), VecCap(v))
    BY <1>2, <1>3 DEF BytesFromVec, HeapFromVec, NeedsBlock
  <2> QED BY <1>1, <2>1, EmptyIdle, FreeSound
<1>4. CASE v.len # 0 /\ NeedsBlock(v)
  <2>1. FreeBlocks(H) \in SUBSET Nat /\ FreeBlocks(H) # {}
    BY <1>4, BoundsAssumption DEF FreeBlocks, CanFreeze
  <2>2. PICK b \in FreeBlocks(H) : b = Least(FreeBlocks(H))
    BY <2>1, LeastIn
  <2>3. b \in Block /\ b \in Nat /\ H.blk[b] = None
    BY <2>1 DEF FreeBlocks
  <2>4. /\ BytesFromVec(H, v) = BytesAt(v.ptr, v.len, InBlock(b))
        /\ HeapFromVec(H, v) = Promote(H, b, VecPtr(v), VecCap(v), 1)
    BY <1>2, <1>4, <2>2 DEF BytesFromVec, HeapFromVec
  <2>5. InBlock(b) \in [tag : {"null", "offset", "block"}, n : Nat]
    BY <2>3 DEF InBlock
  <2>6. PICK r : r = BytesAt(v.ptr, v.len, InBlock(b))
    OBVIOUS
  <2>7. FieldsOK(r) /\ r.ptr = v.ptr /\ Size(r) = v.len /\ r.data = InBlock(b)
    BY <1>2, <2>5, <2>6, BytesFields
  <2>8. In(r, b)
    BY <2>7, Sorts DEF In
  <2>9. r.ptr >= VecPtr(v) /\ r.ptr + Size(r) <= VecPtr(v) + VecCap(v)
    BY <1>2, <2>7
  <2> QED BY <1>1, <2>3, <2>4, <2>6, <2>7, <2>8, <2>9, PromoteSound
<1>5. CASE v.len # 0 /\ ~ NeedsBlock(v)
  <2>1. /\ BytesFromVec(H, v) = BytesAt(v.ptr, v.len, Offset(0)) /\ HeapFromVec(H, v) = H
        /\ v.len = v.cap
    BY <1>5 DEF BytesFromVec, HeapFromVec, NeedsBlock
  <2>2. Offset(0) \in [tag : {"null", "offset", "block"}, n : Nat]
        /\ Offset(0).n = 0 /\ Offset(0).tag = "offset"
    BY DEF Offset
  <2>3. PICK r : r = BytesAt(v.ptr, v.len, Offset(0))
    OBVIOUS
  <2>4. FieldsOK(r) /\ r.kind = "Bytes" /\ r.ptr = v.ptr /\ r.len = v.len /\ r.data = Offset(0)
    BY <1>2, <2>2, <2>3, BytesFields
  <2>5. Direct(r) /\ VecPtr(r) = VecPtr(v) /\ VecCap(r) = VecCap(v)
    BY <1>2, <2>1, <2>2, <2>4, Sorts DEF Unpromoted, VecPtr, VecCap
  <2> QED BY <1>1, <2>1, <2>3, <2>4, <2>5, ViewSound
<1> QED BY <1>3, <1>4, <1>5

(* advance_unchecked                                                       *)
LEMMA AdvanceSound ==
    ASSUME NEW HS, NEW H, Sound(HS, H), NEW h \in Handle, HS[h] # None, HS[h].kind # "Vec",
           NEW n \in Nat, n <= Size(HS[h])
    PROVE  Sound([HS EXCEPT ![h] = Advanced(HS[h], n)], H)
<1>1. PICK r, s : r = HS[h] /\ s = Advanced(r, n)
  OBVIOUS
<1>2. PlaceOK(r, H) /\ FieldsOK(r)
  BY <1>1 DEF Sound, PlaceOK
<1>3. /\ FieldsOK(s) /\ s.kind = r.kind /\ s.ptr = r.ptr + n /\ Size(s) = Size(r) - n
      /\ s.len = IF n <= r.len THEN r.len - n ELSE 0
      /\ Unpromoted(r) => /\ Unpromoted(s) /\ VecPtr(s) = VecPtr(r) /\ VecCap(s) = VecCap(r)
      /\ ~ Unpromoted(r) => s.data = r.data
  BY <1>1, <1>2, AdvancedFields
<1>4. r.ptr \in Nat /\ Size(r) \in Nat /\ r.len \in Nat
  BY <1>2 DEF FieldsOK, HandleRecord, Size
<1>5. CASE Unpromoted(r)
  <2>1. Direct(r) /\ Direct(s)
    BY <1>1, <1>2, <1>3, <1>5, Sorts
  <2> QED BY <1>1, <1>3, <1>5, <2>1, ViewSound
<1>6. CASE Promoted(r)
  <2>1. s.data = r.data /\ s.ptr >= r.ptr /\ s.ptr + Size(s) <= r.ptr + Size(r)
    BY <1>2, <1>3, <1>4, <1>6, Sorts
  <2> QED BY <1>1, <1>3, <1>6, <2>1, ViewSound
<1>7. CASE Idle(r)
  <2>1. s.data = r.data /\ Idle(s) /\ s # None
    BY <1>1, <1>2, <1>3, <1>7, Sorts DEF Idle, Unpromoted
  <2>2. s.len = 0 \/ s.ptr + s.len <= StaticLen
    BY <1>1, <1>2, <1>3, <1>4, <1>7 DEF PlaceOK, Idle, Size
  <2>3. PlaceOK(s, H)
    BY <1>3, <2>1, <2>2, Sorts DEF PlaceOK
  <2> QED BY <1>1, <1>3, <1>7, <2>1, <2>3, ViewSound
<1> QED BY <1>1, <1>2, <1>5, <1>6, <1>7, Sorts

-----------------------------------------------------------------------------
(* The methods.                                                            *)

(* The user makes a Vec.                                                   *)
LEMMA NewVecSound ==
    ASSUME ViewsInv, NEW h \in Handle, NEW cap \in Nat, NEW len \in Nat, len <= cap, NEW m,
           NewVec(h, len, cap, m)
    PROVE  ViewsInv'
<1>1. NewPtr(heap, cap) \in Nat
  BY NewPtrNat DEF NewVec
<1>2. PICK v : v = VecAt(NewPtr(heap, cap), len, cap)
  OBVIOUS
<1>3. FieldsOK(v) /\ Direct(v) /\ VecPtr(v) = NewPtr(heap, cap) /\ VecCap(v) = cap
  BY <1>1, <1>2, VecFields
<1>4. hs' = [hs EXCEPT ![h] = v] /\ heap' = Allocate(heap, cap) /\ Idle(hs[h])
      /\ CanAllocate(heap, cap)
  BY <1>2 DEF NewVec, Update, Vacant, Idle
<1> QED BY <1>3, <1>4, AllocateSound DEF ViewsInv

(* Bytes::from_static                                                      *)
LEMMA FromStaticSound ==
    ASSUME ViewsInv, NEW h \in Handle, FromStatic(h)
    PROVE  ViewsInv'
<1>1. Base(0) = 0 /\ StaticLen \in Nat
  BY BoundsAssumption DEF Base
<1>2. PICK r : r = BytesAt(Base(0), StaticLen, Null)
  OBVIOUS
<1>3. Null \in [tag : {"null", "offset", "block"}, n : Nat] /\ Null.tag = "null"
  BY DEF Null
<1>4. FieldsOK(r) /\ r.kind = "Bytes" /\ r.ptr = 0 /\ r.len = StaticLen /\ r.data = Null
  BY <1>1, <1>2, <1>3, BytesFields
<1>5. Idle(r) /\ PlaceOK(r, heap)
  <2>1. Idle(r)
    BY <1>3, <1>4 DEF Idle
  <2> QED BY <1>1, <1>4, <2>1, Sorts DEF PlaceOK
<1>6. hs' = [hs EXCEPT ![h] = r] /\ heap' = heap /\ Idle(hs[h])
  BY <1>2 DEF FromStatic, Update, Vacant, Idle
<1> QED BY <1>5, <1>6, IdleSound DEF ViewsInv

(* From<Vec<u8>> for Bytes                                                 *)
LEMMA BytesFromSound ==
    ASSUME ViewsInv, NEW h \in Handle, BytesFrom(h)
    PROVE  ViewsInv'
BY FromVecSound DEF ViewsInv, BytesFrom, Is, Update

(* from_vec of BytesMut: the whole allocation, from its start on.          *)
LEMMA MutFromFields ==
    ASSUME NEW v, FieldsOK(v), v.kind = "Vec", NEW r, r = MutFromVec(v)
    PROVE  FieldsOK(r) /\ Direct(r) /\ VecPtr(r) = v.ptr /\ VecCap(r) = v.cap
<1>1. v.ptr \in Nat /\ v.len \in Nat /\ v.cap \in Nat /\ v.len <= v.cap
  BY DEF FieldsOK, HandleRecord
<1>2. PICK o \in Nat : o = 0
  OBVIOUS
<1>3. PICK p \in Nat, n \in Nat, c \in Nat : p = v.ptr /\ n = v.len /\ c = v.cap /\ n <= c
  BY <1>1
<1>4. r = MutAt(p, n, c, Offset(o))
  BY <1>2, <1>3 DEF MutFromVec
<1>5. FieldsOK(r) /\ Direct(r) /\ VecPtr(r) = p - o /\ VecCap(r) = c + o
  <2>1. n <= c
    BY <1>3
  <2> QED BY <1>4, <2>1, OffsetMut
<1> QED BY <1>2, <1>3, <1>5

(* From<Vec<u8>> for BytesMut                                              *)
LEMMA MutFromSound ==
    ASSUME ViewsInv, NEW h \in Handle, MutFrom(h)
    PROVE  ViewsInv'
<1>1. PICK v, r : v = hs[h] /\ r = MutFromVec(v)
  OBVIOUS
<1>2. v # None /\ v.kind = "Vec" /\ FieldsOK(v) /\ Direct(v)
  BY <1>1 DEF MutFrom, Is, ViewsInv, Sound, PlaceOK, Direct
<1>3. VecPtr(v) = v.ptr /\ VecCap(v) = v.cap
  BY <1>2 DEF FieldsOK, HandleRecord, VecPtr, VecCap, Null
<1>4. FieldsOK(r) /\ Direct(r) /\ VecPtr(r) = VecPtr(v) /\ VecCap(r) = VecCap(v)
  BY <1>1, <1>2, <1>3, MutFromFields
<1>5. hs' = [hs EXCEPT ![h] = r] /\ heap' = heap
  BY <1>1 DEF MutFrom, Update
<1> QED BY <1>1, <1>2, <1>4, <1>5, ViewSound DEF ViewsInv

(* Drop, Bytes::clear                                                      *)
LEMMA DropsSound ==
    ASSUME ViewsInv, NEW h \in Handle, Drop(h) \/ Clear(h)
    PROVE  ViewsInv'
<1>1. PICK e \in {None, Empty} :
         hs' = [hs EXCEPT ![h] = e] /\ heap' = DropHandle(heap, hs[h]) /\ hs[h] # None
  BY DEF Drop, Clear, Update, Vacant, Is
<1> QED BY <1>1, EmptyIdle, DropSound DEF ViewsInv

(* advance, io::Read                                                       *)
LEMMA AdvancesSound ==
    ASSUME ViewsInv, NEW h \in Handle, NEW n \in Nat, Advance(h, n) \/ MutAdvance(h, n)
    PROVE  ViewsInv'
<1>1. /\ hs[h] # None /\ hs[h].kind # "Vec" /\ heap' = heap
      /\ hs' = [hs EXCEPT ![h] = Advanced(hs[h], ReadCount(hs[h], n))]
  BY DEF Advance, MutAdvance, Is, Update
<1>2. hs[h].len \in Nat /\ hs[h].len <= Size(hs[h])
  BY <1>1 DEF ViewsInv, Sound, PlaceOK, FieldsOK, HandleRecord, Size
<1>3. ReadCount(hs[h], n) \in {n, hs[h].len} /\ ReadCount(hs[h], n) <= hs[h].len
  BY <1>2, LeastIn DEF ReadCount
<1>4. ReadCount(hs[h], n) \in Nat /\ ReadCount(hs[h], n) <= Size(hs[h])
  <2>1. Size(hs[h]) \in Nat
    BY <1>1 DEF ViewsInv, Sound, PlaceOK, FieldsOK, HandleRecord, Size
  <2> QED BY <1>2, <1>3, <2>1
<1> QED BY <1>1, <1>4, AdvanceSound DEF ViewsInv

(* set_len of BytesMut: only the length changes, within the capacity.      *)
LEMMA LengthSound ==
    ASSUME NEW HS, NEW H, Sound(HS, H), NEW h \in Handle, HS[h] # None,
           HS[h].kind = "BytesMut", NEW s \in HandleRecord, s.kind = "BytesMut",
           s.ptr = HS[h].ptr, s.cap = HS[h].cap, s.data = HS[h].data, s.len <= s.cap
    PROVE  Sound([HS EXCEPT ![h] = s], H) /\ FieldsOK(s)
<1>1. PICK r : r = HS[h]
  OBVIOUS
<1>2. FieldsOK(r) /\ r \in HandleRecord /\ r.cap \in Nat /\ r.ptr \in Nat
  BY <1>1 DEF Sound, PlaceOK, FieldsOK, HandleRecord
<1>3. FieldsOK(s) /\ Size(s) = Size(r)
  BY <1>1, <1>2 DEF FieldsOK, Size
<1>4. (Direct(r) => Direct(s)) /\ VecPtr(s) = VecPtr(r) /\ VecCap(s) = VecCap(r)
  BY <1>1, <1>3, Sorts DEF Direct, Unpromoted, VecPtr, VecCap
<1>5. s.ptr >= r.ptr /\ s.ptr + Size(s) <= r.ptr + Size(r)
  BY <1>1, <1>2, <1>3 DEF Size
<1>6. Direct(r) \/ Promoted(r)
  BY <1>1, <1>2, Sorts DEF Idle
<1> QED BY <1>1, <1>3, <1>4, <1>5, <1>6, ViewSound

(* A BytesMut stays as it is.                                              *)
LEMMA SameSound ==
    ASSUME ViewsInv, NEW h \in Handle, Is(h, "BytesMut")
    PROVE  /\ Sound([hs EXCEPT ![h] = hs[h]], heap) /\ FieldsOK(hs[h]) /\ hs[h] # None
           /\ hs[h].kind = "BytesMut" /\ hs[h].len \in Nat /\ hs[h].cap \in Nat
           /\ hs[h].len <= hs[h].cap /\ hs[h] \in HandleRecord
<1>1. /\ hs[h] # None /\ hs[h].kind = "BytesMut" /\ FieldsOK(hs[h]) /\ hs[h] \in HandleRecord
      /\ hs[h].len \in Nat /\ hs[h].cap \in Nat /\ hs[h].len <= hs[h].cap
  BY DEF Is, ViewsInv, Sound, PlaceOK, FieldsOK, HandleRecord
<1> QED BY <1>1, LengthSound DEF ViewsInv

(* BytesMut::truncate, truncate_off, clear                                 *)
LEMMA MutShortenSound ==
    ASSUME ViewsInv, NEW h \in Handle, NEW n \in Nat,
           MutTruncate(h, n) \/ MutTruncateOff(h, n) \/ MutClear(h)
    PROVE  ViewsInv'
<1>1. PICK r : r = hs[h] /\ r # None /\ r.kind = "BytesMut"
  BY DEF MutTruncate, MutTruncateOff, MutClear, Is
<1>2. r.len \in Nat /\ r.cap \in Nat /\ r.len <= r.cap
  BY <1>1 DEF ViewsInv, Sound, PlaceOK, FieldsOK, HandleRecord
<1>3. PICK k \in Nat : k <= r.len /\ hs' = [hs EXCEPT ![h] = [r EXCEPT !.len = k]] /\ heap' = heap
  BY <1>1, <1>2 DEF MutTruncate, MutTruncateOff, MutClear, Update
<1>4. PICK s : s = [r EXCEPT !.len = k]
  OBVIOUS
<1>5. /\ s \in HandleRecord /\ s.kind = r.kind /\ s.ptr = r.ptr /\ s.len = k /\ s.cap = r.cap
      /\ s.data = r.data
  BY <1>1, <1>4 DEF ViewsInv, Sound, PlaceOK, FieldsOK, HandleRecord
<1>6. s.len <= s.cap
  BY <1>2, <1>3, <1>5
<1> QED BY <1>1, <1>3, <1>4, <1>5, <1>6, LengthSound DEF ViewsInv

(* clone_inner, shallow_clone: the fields of the two handles.              *)
LEMMA SharedFields ==
    ASSUME NEW HS, NEW H, Sound(HS, H), NEW h \in Handle, HS[h] # None, HS[h].kind # "Vec",
           CanShare(H, HS[h]), NEW s, s = SharedHandle(H, HS[h])
    PROVE  /\ FieldsOK(s) /\ ~ Unpromoted(s) /\ s.data = SharedData(H, HS[h])
           /\ s.kind = HS[h].kind /\ s.ptr = HS[h].ptr /\ s.len = HS[h].len
           /\ s.cap = HS[h].cap /\ Size(s) = Size(HS[h])
<1>1. FieldsOK(HS[h])
  BY DEF Sound, PlaceOK
<1>2. CASE ~ Idle(HS[h])
  <2>1. /\ FieldsOK(s) /\ Promoted(s) /\ s.data = SharedData(H, HS[h])
        /\ s.kind = HS[h].kind /\ s.ptr = HS[h].ptr /\ s.len = HS[h].len /\ s.cap = HS[h].cap
    BY <1>2, PromotingSound
  <2> QED BY <2>1, Sorts DEF Size
<1>3. CASE Idle(HS[h])
  <2>1. ~ Unpromoted(HS[h])
    BY <1>1, <1>3, Sorts
  <2>2. s = HS[h] /\ SharedData(H, HS[h]) = HS[h].data
    BY <1>1, <2>1 DEF SharedHandle, SharedData, FieldsOK, HandleRecord
  <2> QED BY <1>1, <2>1, <2>2
<1> QED BY <1>2, <1>3

(* A view within a view of static data.                                    *)
LEMMA NarrowIdle ==
    ASSUME NEW H, NEW r, PlaceOK(r, H), r # None, Idle(r),
           NEW s, FieldsOK(s), s.data = r.data, s.kind = "Bytes",
           s.ptr >= r.ptr, s.ptr + s.len <= r.ptr + r.len
    PROVE  Idle(s) /\ PlaceOK(s, H)
<1>1. Idle(s)
  BY DEF Idle
<1>2. /\ s.ptr \in Nat /\ s.len \in Nat /\ r.ptr \in Nat /\ r.len \in Nat
      /\ StaticLen \in Nat
  BY BoundsAssumption DEF PlaceOK, FieldsOK, HandleRecord
<1>3. r.len = 0 \/ r.ptr + r.len <= StaticLen
  BY DEF PlaceOK
<1>4. s.len = 0 \/ s.ptr + s.len <= StaticLen
  BY <1>2, <1>3
<1> QED BY <1>1, <1>4, Sorts DEF PlaceOK

(* The same of views of static data, which are not counted.                *)
LEMMA BytesShareSound ==
    ASSUME ViewsInv, NEW h \in Handle, NEW g \in Handle, Is(h, "Bytes"), Vacant(g),
           CanShare(heap, hs[h]), NEW s, NEW v, FieldsOK(s), FieldsOK(v),
           s.data = SharedData(heap, hs[h]), v.data = SharedData(heap, hs[h]),
           s.kind = "Bytes", v.kind = "Bytes",
           s.ptr >= hs[h].ptr, s.ptr + s.len <= hs[h].ptr + hs[h].len,
           v.ptr >= hs[h].ptr, v.ptr + v.len <= hs[h].ptr + hs[h].len
    PROVE  Sound([hs EXCEPT ![h] = s, ![g] = v], SharedHeap(heap, hs[h]))
<1> DEFINE r == hs[h]
<1>1. /\ h # g /\ r # None /\ r.kind = "Bytes" /\ hs[g] = None /\ Idle(hs[g])
      /\ PlaceOK(r, heap) /\ FieldsOK(r)
  BY DEF Is, Vacant, Idle, ViewsInv, Sound, PlaceOK
<1>2. Size(s) = s.len /\ Size(v) = v.len /\ Size(r) = r.len
  BY <1>1 DEF Size
<1>3. CASE ~ Idle(r)
  BY <1>1, <1>2, <1>3, ShareSound DEF ViewsInv
<1>4. CASE Idle(r)
  <2>1. ~ Unpromoted(r) /\ ~ Promoted(r)
    BY <1>1, <1>4, Sorts
  <2>2. SharedData(heap, r) = r.data /\ SharedHeap(heap, r) = heap
    BY <2>1 DEF SharedData, SharedHeap
  <2>3. Idle(s) /\ PlaceOK(s, heap) /\ Idle(v) /\ PlaceOK(v, heap)
    BY <1>1, <1>4, <2>2, NarrowIdle
  <2>4. PICK HT : HT = [hs EXCEPT ![h] = s]
    OBVIOUS
  <2>5. Sound(HT, heap) /\ HT[g] = hs[g]
    BY <1>1, <1>4, <2>2, <2>3, <2>4, IdleSound DEF ViewsInv, Sound
  <2>6. Sound([HT EXCEPT ![g] = v], heap)
    BY <1>1, <2>2, <2>3, <2>5, IdleSound
  <2> QED BY <2>2, <2>4, <2>6
<1> QED BY <1>3, <1>4

(* clone                                                                   *)
LEMMA CloneSound ==
    ASSUME ViewsInv, NEW h \in Handle, NEW g \in Handle, Clone(h, g)
    PROVE  ViewsInv'
<1>1. /\ Is(h, "Bytes") /\ Vacant(g) /\ CanShare(heap, hs[h])
      /\ hs[h] # None /\ hs[h].kind = "Bytes"
  BY DEF Clone, Is
<1>2. PICK s : s = SharedHandle(heap, hs[h])
  OBVIOUS
<1>3. hs' = [hs EXCEPT ![h] = s, ![g] = s] /\ heap' = SharedHeap(heap, hs[h])
  BY <1>2 DEF Clone, Update2
<1>4. /\ FieldsOK(s) /\ s.data = SharedData(heap, hs[h]) /\ s.kind = "Bytes"
      /\ s.ptr = hs[h].ptr /\ s.len = hs[h].len
  BY <1>1, <1>2, SharedFields DEF ViewsInv
<1>5. s.ptr \in Nat /\ s.len \in Nat
  BY <1>4 DEF FieldsOK, HandleRecord
<1>6. s.ptr >= hs[h].ptr /\ s.ptr + s.len <= hs[h].ptr + hs[h].len
  BY <1>4, <1>5
<1>7. Sound([hs EXCEPT ![h] = s, ![g] = s], SharedHeap(heap, hs[h]))
  BY <1>1, <1>4, <1>6, BytesShareSound
<1> QED BY <1>3, <1>7 DEF ViewsInv

(* slice, slice_ref                                                        *)
LEMMA SliceSound ==
    ASSUME ViewsInv, NEW h \in Handle, NEW g \in Handle, NEW i \in Nat, NEW j \in Nat,
           Slice(h, g, i, j)
    PROVE  ViewsInv'
<1>1. /\ Is(h, "Bytes") /\ Vacant(g) /\ i <= j /\ j <= hs[h].len
      /\ hs[h] # None /\ hs[h].kind = "Bytes" /\ Idle(hs[g])
  BY DEF Slice, Is, Vacant, Idle
<1>2. CASE i = j
  <2>1. hs' = [hs EXCEPT ![g] = Empty] /\ heap' = heap
    BY <1>2 DEF Slice, Update
  <2> QED BY <1>1, <2>1, EmptyIdle, IdleSound DEF ViewsInv
<1>3. CASE i # j
  <2>1. PICK s, v : s = SharedHandle(heap, hs[h]) /\ v = [s EXCEPT !.ptr = @ + i, !.len = j - i]
    OBVIOUS
  <2>2. /\ hs' = [hs EXCEPT ![h] = s, ![g] = v] /\ heap' = SharedHeap(heap, hs[h])
        /\ CanShare(heap, hs[h])
    BY <1>3, <2>1 DEF Slice, Update2
  <2>3. /\ FieldsOK(s) /\ s.data = SharedData(heap, hs[h]) /\ s.kind = "Bytes"
        /\ s.ptr = hs[h].ptr /\ s.len = hs[h].len
    BY <1>1, <2>1, <2>2, SharedFields DEF ViewsInv
  <2>4. s.ptr \in Nat /\ s.len \in Nat /\ s.ptr + i \in Nat /\ j - i \in Nat
    BY <1>1, <2>3 DEF FieldsOK, HandleRecord
  <2>5. FieldsOK(v) /\ v.kind = "Bytes" /\ v.ptr = s.ptr + i /\ v.len = j - i /\ v.data = s.data
    <3>1. /\ v \in HandleRecord /\ v.kind = s.kind /\ v.ptr = s.ptr + i /\ v.len = j - i
          /\ v.cap = s.cap /\ v.data = s.data
      BY <2>1, <2>3, <2>4 DEF FieldsOK, HandleRecord
    <3> QED BY <2>3, <3>1 DEF FieldsOK
  <2>6. /\ s.ptr >= hs[h].ptr /\ s.ptr + s.len <= hs[h].ptr + hs[h].len
        /\ v.ptr >= hs[h].ptr /\ v.ptr + v.len <= hs[h].ptr + hs[h].len
    BY <1>1, <2>3, <2>4, <2>5
  <2> QED BY <1>1, <2>2, <2>3, <2>5, <2>6, BytesShareSound DEF ViewsInv
<1> QED BY <1>2, <1>3

(* try_split_off, try_split_to                                             *)
LEMMA SplitSound ==
    ASSUME ViewsInv, NEW h \in Handle, NEW g \in Handle, NEW n \in Nat,
           SplitOff(h, g, n) \/ SplitTo(h, g, n)
    PROVE  ViewsInv'
<1>1. /\ Is(h, "Bytes") /\ Vacant(g) /\ n <= hs[h].len
      /\ hs[h] # None /\ hs[h].kind = "Bytes" /\ Idle(hs[g]) /\ h # g
  BY DEF SplitOff, SplitTo, Is, Vacant, Idle
<1>2. CASE hs' = [hs EXCEPT ![g] = Empty] /\ heap' = heap
  BY <1>1, <1>2, EmptyIdle, IdleSound DEF ViewsInv
<1>3. CASE hs' = [hs EXCEPT ![h] = Empty, ![g] = hs[h]] /\ heap' = heap
  BY <1>1, <1>3, EmptyIdle, MoveSound DEF ViewsInv
<1>4. ASSUME NEW s, NEW a, NEW b, s = SharedHandle(heap, hs[h]), a = [s EXCEPT !.len = n],
             b = Advanced(s, n), CanShare(heap, hs[h]), heap' = SharedHeap(heap, hs[h]),
             \/ hs' = [hs EXCEPT ![h] = a, ![g] = b]
             \/ hs' = [hs EXCEPT ![h] = b, ![g] = a]
      PROVE  ViewsInv'
  <2>1. /\ FieldsOK(s) /\ s.data = SharedData(heap, hs[h]) /\ s.kind = "Bytes"
        /\ s.ptr = hs[h].ptr /\ s.len = hs[h].len /\ ~ Unpromoted(s) /\ Size(s) = s.len
    BY <1>1, <1>4, SharedFields DEF ViewsInv, Size
  <2>2. s.ptr \in Nat /\ s.len \in Nat
    BY <2>1 DEF FieldsOK, HandleRecord
  <2>3. /\ a \in HandleRecord /\ a.kind = s.kind /\ a.ptr = s.ptr /\ a.len = n
        /\ a.cap = s.cap /\ a.data = s.data
    BY <1>4, <2>1 DEF FieldsOK, HandleRecord
  <2>4. FieldsOK(a) /\ a.kind = "Bytes"
    BY <2>1, <2>3 DEF FieldsOK
  <2>5. n <= Size(s)
    BY <1>1, <2>1
  <2>6. FieldsOK(b) /\ b.kind = "Bytes" /\ b.ptr = s.ptr + n /\ b.data = s.data
        /\ b.len = IF n <= s.len THEN s.len - n ELSE 0
    BY <1>4, <2>1, <2>5, AdvancedFields
  <2>7. /\ a.ptr >= hs[h].ptr /\ a.ptr + a.len <= hs[h].ptr + hs[h].len
        /\ b.ptr >= hs[h].ptr /\ b.ptr + b.len <= hs[h].ptr + hs[h].len
    BY <1>1, <2>1, <2>2, <2>3, <2>6
  <2>8. Sound([hs EXCEPT ![h] = a, ![g] = b], SharedHeap(heap, hs[h]))
    BY <1>1, <1>4, <2>1, <2>3, <2>4, <2>6, <2>7, BytesShareSound
  <2>9. Sound([hs EXCEPT ![h] = b, ![g] = a], SharedHeap(heap, hs[h]))
    BY <1>1, <1>4, <2>1, <2>3, <2>4, <2>6, <2>7, BytesShareSound
  <2> QED BY <1>4, <2>8, <2>9 DEF ViewsInv
<1>5. CASE SplitOff(h, g, n)
  BY <1>2, <1>3, <1>4, <1>5 DEF SplitOff, Update, Update2
<1>6. CASE SplitTo(h, g, n)
  BY <1>2, <1>3, <1>4, <1>6 DEF SplitTo, Update, Update2
<1> QED BY <1>5, <1>6

(* A reference that is added and given up again.                           *)
LEMMA IncrementRelease ==
    ASSUME NEW H, HeapOK(H), NEW b \in Block, H.blk[b] # None
    PROVE  Release(Increment(H, b), b) = H
<1>1. PICK k : k = H.blk[b]
  OBVIOUS
<1>2. k \in BlockRecord /\ k.ref \in Nat /\ k.ref # 0 /\ H \in HeapRecord
  BY <1>1 DEF HeapOK, HeapRecord, BlockRecord
<1>3. PICK G, j : j = [k EXCEPT !.ref = @ + 1] /\ G = Increment(H, b)
  OBVIOUS
<1>4. G = [H EXCEPT !.blk[b] = j] /\ G.blk[b] = j
  BY <1>1, <1>2, <1>3 DEF Increment, HeapRecord
<1>5. j.ref = k.ref + 1 /\ j.ref # 1 /\ [j EXCEPT !.ref = @ - 1] = k
  <2>1. /\ j.ref = k.ref + 1 /\ j.ptr = k.ptr /\ j.cap = k.cap
        /\ j = [ptr |-> k.ptr, cap |-> k.cap, ref |-> k.ref + 1]
        /\ k = [ptr |-> k.ptr, cap |-> k.cap, ref |-> k.ref]
    BY <1>2, <1>3 DEF BlockRecord
  <2>2. PICK n : n = j.ref - 1
    OBVIOUS
  <2>3. n = k.ref /\ j.ref # 1
    BY <1>2, <2>1, <2>2
  <2>4. PICK m, p, c : m = k.ref + 1 /\ p = k.ptr /\ c = k.cap
    OBVIOUS
  <2>5. j = [ptr |-> p, cap |-> c, ref |-> m] /\ k = [ptr |-> p, cap |-> c, ref |-> n]
    BY <2>1, <2>3, <2>4
  <2>6. [j EXCEPT !.ref = n] = k
    BY <2>5
  <2> QED BY <2>1, <2>2, <2>3, <2>6
<1>6. Release(G, b) = [G EXCEPT !.blk[b] = [j EXCEPT !.ref = @ - 1]]
  BY <1>4, <1>5 DEF Release
<1>7. [G EXCEPT !.blk[b] = k] = H
  BY <1>1, <1>2, <1>4 DEF HeapRecord
<1> QED BY <1>3, <1>5, <1>6, <1>7

(* Bytes::truncate: the handle that is left keeps its block alive.         *)
LEMMA TruncateToSound ==
    ASSUME ViewsInv, NEW h \in Handle, NEW n \in Nat, Is(h, "Bytes"), TruncateTo(h, n)
    PROVE  ViewsInv'
<1>1. PICK r, s : r = hs[h] /\ s = SharedHandle(heap, r)
  OBVIOUS
<1>2. /\ r # None /\ r.kind = "Bytes" /\ PlaceOK(r, heap) /\ FieldsOK(r) /\ n < r.len
      /\ r.ptr \in Nat /\ r.len \in Nat /\ Size(r) = r.len
  BY <1>1 DEF Is, TruncateTo, ViewsInv, Sound, PlaceOK, FieldsOK, HandleRecord, Size
<1>3. ASSUME NEW v, FieldsOK(v), v.ptr = r.ptr, v.kind = "Bytes", v.len = r.len,
             NEW c, c = [v EXCEPT !.len = n]
      PROVE  /\ FieldsOK(c) /\ c.data = v.data /\ c.kind = "Bytes" /\ c.ptr = r.ptr /\ c.len = n
             /\ c.ptr >= v.ptr /\ c.ptr + c.len <= v.ptr + v.len
             /\ Size(c) = c.len /\ Size(v) = v.len
  <2>1. /\ c \in HandleRecord /\ c.kind = "Bytes" /\ c.ptr = r.ptr /\ c.len = n
        /\ c.cap = v.cap /\ c.data = v.data
    BY <1>3 DEF FieldsOK, HandleRecord
  <2> QED BY <1>2, <1>3, <2>1 DEF FieldsOK, Size
<1>4. CASE Idle(r) /\ hs' = [hs EXCEPT ![h] = [r EXCEPT !.len = n]] /\ heap' = heap
  <2>1. PICK c : c = [r EXCEPT !.len = n]
    OBVIOUS
  <2>2. /\ FieldsOK(c) /\ c.data = r.data /\ c.kind = "Bytes"
        /\ c.ptr >= r.ptr /\ c.ptr + c.len <= r.ptr + r.len
    BY <1>2, <1>3, <2>1
  <2>3. Idle(c) /\ PlaceOK(c, heap)
    BY <1>2, <1>4, <2>2, NarrowIdle
  <2> QED BY <1>1, <1>4, <2>1, <2>3, IdleSound DEF ViewsInv
<1>5. CASE hs' = [hs EXCEPT ![h] = Empty] /\ heap' = DropHandle(heap, r)
  BY <1>1, <1>2, <1>5, EmptyIdle, DropSound DEF ViewsInv
<1>6. CASE /\ CanShare(heap, r) /\ hs' = [hs EXCEPT ![h] = [s EXCEPT !.len = n]]
           /\ heap' = DropHandle(SharedHeap(heap, r), Advanced(s, n))
  <2>1. PICK c, a : c = [s EXCEPT !.len = n] /\ a = Advanced(s, n)
    OBVIOUS
  <2>2. /\ FieldsOK(s) /\ ~ Unpromoted(s) /\ s.kind = "Bytes" /\ s.ptr = r.ptr
        /\ s.len = r.len /\ Size(s) = Size(r)
    BY <1>1, <1>2, <1>6, SharedFields DEF ViewsInv
  <2>3. /\ FieldsOK(c) /\ c.data = s.data /\ c.kind = "Bytes"
        /\ c.ptr >= s.ptr /\ c.ptr + Size(c) <= s.ptr + Size(s)
    BY <1>3, <2>1, <2>2
  <2>4. n <= Size(s)
    BY <1>2, <2>2
  <2>5. a.kind = "Bytes" /\ a.data = s.data
    BY <2>1, <2>2, <2>4, AdvancedFields
  <2>6. CASE ~ Idle(r)
    <3>1. PICK G, HT, b : /\ G = Promoting(heap, r) /\ HT = [hs EXCEPT ![h] = s]
                          /\ b = SharedData(heap, r).n
      OBVIOUS
    <3>2. /\ Sound(HT, G) /\ Promoted(s) /\ s.data = SharedData(heap, r)
          /\ b \in Block /\ G.blk[b] # None /\ SharedHeap(heap, r) = Increment(G, b)
      BY <1>1, <1>2, <1>6, <2>6, <3>1, PromotingSound DEF ViewsInv
    <3>3. DropHandle(Increment(G, b), a) = Release(Increment(G, b), b)
      BY <2>5, <3>1, <3>2 DEF DropHandle, Promoted, Unpromoted
    <3>4. heap' = G
      BY <1>6, <2>1, <3>2, <3>3, IncrementRelease DEF Sound
    <3>5. HT[h] = s /\ HT[h] # None
      BY <2>2, <3>1, Sorts DEF ViewsInv, Sound
    <3>6. Sound([HT EXCEPT ![h] = c], G)
      BY <2>3, <3>2, <3>5, ViewSound
    <3>7. [HT EXCEPT ![h] = c] = [hs EXCEPT ![h] = c]
      BY <3>1
    <3> QED BY <1>6, <2>1, <3>4, <3>6, <3>7 DEF ViewsInv
  <2>7. CASE Idle(r)
    <3>1. ~ Unpromoted(r) /\ ~ Promoted(r)
      BY <1>2, <2>7, Sorts
    <3>2. s = r /\ SharedHeap(heap, r) = heap
      BY <1>1, <1>2, <3>1 DEF SharedHandle, SharedData, SharedHeap, FieldsOK, HandleRecord
    <3>3. DropHandle(heap, a) = heap
      BY <2>5, <3>1, <3>2 DEF DropHandle, Unpromoted, Promoted
    <3> QED BY <1>4, <1>6, <2>1, <2>7, <3>2, <3>3
  <2> QED BY <2>6, <2>7
<1>7. r.data = Null => Idle(r)
  BY <1>2 DEF Idle, Null
<1> QED BY <1>1, <1>4, <1>5, <1>6, <1>7 DEF TruncateTo, Update

(* Bytes::truncate, truncate_off                                           *)
LEMMA TruncateSound ==
    ASSUME ViewsInv, NEW h \in Handle, NEW n \in Nat, Truncate(h, n) \/ TruncateOff(h, n)
    PROVE  ViewsInv'
<1>1. CASE Truncate(h, n)
  BY <1>1, TruncateToSound DEF Truncate
<1>2. CASE TruncateOff(h, n)
  <2>1. Is(h, "Bytes") /\ n <= hs[h].len /\ TruncateTo(h, hs[h].len - n)
    BY <1>2 DEF TruncateOff
  <2>2. hs[h].len \in Nat
    BY <2>1 DEF Is, ViewsInv, Sound, PlaceOK, FieldsOK, HandleRecord
  <2> QED BY <2>1, <2>2, TruncateToSound
<1> QED BY <1>1, <1>2

(* as_slice().to_vec(), for into_vec and into_mut of a shared handle       *)
LEMMA CopyToVecSound ==
    ASSUME ViewsInv, NEW h \in Handle, hs[h] # None, NEW toMut \in BOOLEAN, CopyToVec(h, toMut)
    PROVE  ViewsInv'
<1>1. PICK r, H, v, x : /\ r = hs[h] /\ H = DropHandle(heap, r)
                        /\ v = VecAt(NewPtr(H, r.len), r.len, r.len)
                        /\ x = IF toMut THEN MutFromVec(v) ELSE v
  OBVIOUS
<1>2. CanAllocate(H, r.len) /\ hs' = [hs EXCEPT ![h] = x] /\ heap' = Allocate(H, r.len)
  BY <1>1 DEF CopyToVec, Update
<1>3. r.len \in Nat /\ NewPtr(H, r.len) \in Nat
  BY <1>1, <1>2, NewPtrNat DEF ViewsInv, Sound, PlaceOK, FieldsOK, HandleRecord
<1>4. /\ FieldsOK(v) /\ v.kind = "Vec" /\ Direct(v) /\ v.ptr = NewPtr(H, r.len) /\ v.cap = r.len
      /\ VecPtr(v) = v.ptr /\ VecCap(v) = v.cap
  <2>1. r.len <= r.len
    BY <1>3
  <2> QED BY <1>1, <1>3, <2>1, VecFields
<1>5. FieldsOK(x) /\ Direct(x) /\ VecPtr(x) = NewPtr(H, r.len) /\ VecCap(x) = r.len
  <2>1. CASE toMut
    BY <1>1, <1>4, <2>1, MutFromFields
  <2>2. CASE ~ toMut
    BY <1>1, <1>4, <2>2
  <2> QED BY <2>1, <2>2
<1>6. PICK HT : HT = [hs EXCEPT ![h] = None]
  OBVIOUS
<1>7. Sound(HT, H)
  BY <1>1, <1>6, EmptyIdle, DropSound DEF ViewsInv
<1>8. Idle(HT[h]) /\ [HT EXCEPT ![h] = x] = [hs EXCEPT ![h] = x]
  BY <1>6, EmptyIdle DEF ViewsInv, Sound
<1>9. Sound([HT EXCEPT ![h] = x], Allocate(H, r.len))
  BY <1>2, <1>3, <1>5, <1>7, <1>8, AllocateSound
<1> QED BY <1>2, <1>8, <1>9 DEF ViewsInv

(* original_buffer: the allocation a handle is a part of.                  *)
LEMMA OwnFields ==
    ASSUME ViewsInv, NEW h \in Handle, hs[h] # None, hs[h].kind # "Vec", ~ Idle(hs[h])
    PROVE  /\ OwnPtr(hs[h]) \in Nat /\ OwnCap(hs[h]) \in Nat
           /\ hs[h].ptr \in Nat /\ Size(hs[h]) \in Nat /\ hs[h].len \in Nat
           /\ hs[h].len <= Size(hs[h])
           /\ OwnPtr(hs[h]) <= hs[h].ptr
           /\ hs[h].ptr + Size(hs[h]) <= OwnPtr(hs[h]) + OwnCap(hs[h])
           /\ Unpromoted(hs[h]) =>
                hs[h].ptr + Size(hs[h]) = OwnPtr(hs[h]) + OwnCap(hs[h])
<1>1. PICK r : r = hs[h]
  OBVIOUS
<1>2. /\ PlaceOK(r, heap) /\ FieldsOK(r) /\ r.ptr \in Nat /\ Size(r) \in Nat /\ r.len \in Nat
      /\ r.len <= Size(r)
  BY <1>1 DEF ViewsInv, Sound, PlaceOK, FieldsOK, HandleRecord, Size
<1>3. CASE Unpromoted(r)
  <2>1. Direct(r) /\ r.data.n \in Nat
    BY <1>1, <1>2, <1>3, Sorts DEF FieldsOK, HandleRecord
  <2>2. VecPtr(r) = r.ptr - r.data.n /\ VecCap(r) = Size(r) + r.data.n
    BY DEF VecPtr, VecCap, Size
  <2>3. Backed(VecPtr(r), VecCap(r), heap)
    BY <1>1, <1>2, <2>1 DEF PlaceOK
  <2>4. VecPtr(r) \in Nat
    BY <2>3, DanglingBehind, BoundsAssumption DEF Backed
  <2>5. OwnPtr(r) = VecPtr(r) /\ OwnCap(r) = VecCap(r)
    BY <1>3 DEF OwnPtr, OwnCap
  <2> QED BY <1>1, <1>2, <2>1, <2>2, <2>4, <2>5
<1>4. CASE ~ Unpromoted(r)
  <2>1. Promoted(r) /\ r.data.n \in Block /\ Within(r, heap.blk[r.data.n])
    BY <1>1, <1>2, <1>4, Sorts DEF PlaceOK
  <2>2. heap.blk[r.data.n].ptr \in Nat /\ heap.blk[r.data.n].cap \in Nat
    BY <2>1 DEF Within, ViewsInv, Sound, HeapOK, HeapRecord, BlockRecord
  <2>3. OwnPtr(r) = heap.blk[r.data.n].ptr /\ OwnCap(r) = heap.blk[r.data.n].cap
    BY <1>4 DEF OwnPtr, OwnCap
  <2> QED BY <1>1, <1>2, <1>4, <2>1, <2>2, <2>3 DEF Within
<1> QED BY <1>3, <1>4

(* into_mut: the BytesMut that takes over the whole allocation.            *)
LEMMA OwnMut ==
    ASSUME ViewsInv, NEW h \in Handle, Is(h, "Bytes") \/ Is(h, "BytesMut"),
           IsUnique(heap, hs[h]),
           NEW m, m = MutAt(hs[h].ptr, hs[h].len, OwnCap(hs[h]) - (hs[h].ptr - OwnPtr(hs[h])),
                            Offset(hs[h].ptr - OwnPtr(hs[h])))
    PROVE  Sound([hs EXCEPT ![h] = m], Disown(heap, hs[h])) /\ FieldsOK(m)
<1>1. PICK r, p, c : r = hs[h] /\ p = OwnPtr(r) /\ c = OwnCap(r)
  OBVIOUS
<1>2. r # None /\ r.kind # "Vec" /\ FieldsOK(r)
  BY <1>1 DEF Is, ViewsInv, Sound, PlaceOK
<1>3. ~ Idle(r)
  BY <1>1, <1>2 DEF IsUnique, Idle, Unpromoted, Promoted
<1>4. /\ p \in Nat /\ c \in Nat /\ r.ptr \in Nat /\ r.len \in Nat /\ p <= r.ptr
      /\ r.ptr + r.len <= p + c
  <2>1. /\ p \in Nat /\ c \in Nat /\ r.ptr \in Nat /\ r.len \in Nat /\ p <= r.ptr
        /\ Size(r) \in Nat /\ r.len <= Size(r) /\ r.ptr + Size(r) <= p + c
    BY <1>1, <1>2, <1>3, OwnFields
  <2> QED BY <2>1
<1>5. PICK q \in Nat, n \in Nat, k \in Nat, o \in Nat :
         q = r.ptr /\ n = r.len /\ k = c - (r.ptr - p) /\ o = r.ptr - p
  BY <1>4
<1>6. PICK t : t = MutAt(q, n, k, Offset(o))
  OBVIOUS
<1>7. n <= k /\ q - o = p /\ k + o = c
  BY <1>4, <1>5
<1>8. FieldsOK(t) /\ Direct(t) /\ VecPtr(t) = q - o /\ VecCap(t) = k + o
  BY <1>6, <1>7, OffsetMut
<1>9. t = m
  BY <1>1, <1>5, <1>6
<1>10. Sound([hs EXCEPT ![h] = t], Disown(heap, r))
  BY <1>1, <1>2, <1>7, <1>8, UniqueSound DEF ViewsInv
<1> QED BY <1>1, <1>8, <1>9, <1>10

(* into_vec, into_mut                                                      *)
LEMMA IntoSound ==
    ASSUME ViewsInv, NEW h \in Handle, IntoVec(h) \/ IntoMut(h)
    PROVE  ViewsInv'
<1>1. PICK r, p, c : r = hs[h] /\ p = OwnPtr(r) /\ c = OwnCap(r)
  OBVIOUS
<1>2. r # None /\ r.kind = "Bytes" /\ FieldsOK(r) /\ Is(h, "Bytes")
  BY <1>1 DEF IntoVec, IntoMut, Is, ViewsInv, Sound, PlaceOK
<1>3. CASE IsUnique(heap, r) /\ IntoVec(h)
  <2>1. ~ Idle(r)
    BY <1>2, <1>3 DEF IsUnique, Idle, Unpromoted, Promoted
  <2>2. /\ p \in Nat /\ c \in Nat /\ r.ptr \in Nat /\ r.len \in Nat /\ p <= r.ptr
        /\ r.ptr + r.len <= p + c
    BY <1>1, <1>2, <2>1, OwnFields DEF Size
  <2>3. PICK v : v = VecAt(p, r.len, c)
    OBVIOUS
  <2>4. heap' = Disown(heap, r) /\ hs' = [hs EXCEPT ![h] = v]
    BY <1>1, <1>3, <2>3 DEF IntoVec, Update
  <2>5. FieldsOK(v) /\ Direct(v) /\ VecPtr(v) = p /\ VecCap(v) = c
    <3>1. r.len <= c
      BY <2>2
    <3> QED BY <2>2, <2>3, <3>1, VecFields
  <2>6. Sound([hs EXCEPT ![h] = v], Disown(heap, r))
    BY <1>1, <1>2, <1>3, <2>5, UniqueSound DEF ViewsInv
  <2> QED BY <2>4, <2>6 DEF ViewsInv
<1>4. CASE IsUnique(heap, r) /\ IntoMut(h)
  <2>1. PICK m : m = MutAt(r.ptr, r.len, c - (r.ptr - p), Offset(r.ptr - p))
    OBVIOUS
  <2>2. heap' = Disown(heap, r) /\ hs' = [hs EXCEPT ![h] = m]
    BY <1>1, <1>4, <2>1 DEF IntoMut, Update
  <2>3. Sound([hs EXCEPT ![h] = m], Disown(heap, r))
    BY <1>1, <1>2, <1>4, <2>1, OwnMut
  <2> QED BY <2>2, <2>3 DEF ViewsInv
<1>5. CASE ~ IsUnique(heap, r)
  <2>1. CopyToVec(h, FALSE) \/ CopyToVec(h, TRUE)
    BY <1>1, <1>5 DEF IntoVec, IntoMut
  <2> QED BY <1>1, <1>2, <2>1, CopyToVecSound
<1> QED BY <1>3, <1>4, <1>5

(* freeze                                                                  *)
LEMMA FreezeSound ==
    ASSUME ViewsInv, NEW h \in Handle, Freeze(h)
    PROVE  ViewsInv'
<1>1. PICK r, v : r = hs[h] /\ v = VecAt(VecPtr(r), r.len + r.data.n, VecCap(r))
  OBVIOUS
<1>2. /\ r # None /\ r.kind = "BytesMut" /\ PlaceOK(r, heap) /\ FieldsOK(r)
      /\ r.len \in Nat /\ r.data.n \in Nat /\ r.cap \in Nat /\ r.len <= r.cap /\ r.ptr \in Nat
      /\ VecCap(r) = r.cap + r.data.n /\ Size(r) = r.cap
  BY <1>1 DEF Freeze, Is, ViewsInv, Sound, PlaceOK, FieldsOK, HandleRecord, VecCap, Size
<1>3. CASE Unpromoted(r)
  <2>1. Direct(r)
    BY <1>2, <1>3, Sorts
  <2>2. VecPtr(r) \in Nat /\ VecCap(r) \in Nat /\ r.len + r.data.n \in Nat
        /\ r.len + r.data.n <= VecCap(r)
    BY <1>2, <2>1, DanglingBehind, BoundsAssumption DEF PlaceOK, Backed
  <2>3. /\ FieldsOK(v) /\ Direct(v) /\ v.kind = "Vec" /\ v.len = r.len + r.data.n
        /\ v.ptr = VecPtr(r) /\ VecPtr(v) = VecPtr(r) /\ VecCap(v) = VecCap(r)
    BY <1>1, <2>2, VecFields
  <2>4. PICK x, G, HT, HU : /\ x = BytesFromVec(heap, v) /\ G = HeapFromVec(heap, v)
                            /\ HT = [hs EXCEPT ![h] = v] /\ HU = [HT EXCEPT ![h] = x]
    OBVIOUS
  <2>5. CanFreeze(heap, v) /\ hs' = [hs EXCEPT ![h] = Advanced(x, r.data.n)] /\ heap' = G
    BY <1>1, <1>3, <2>4 DEF Freeze, Update
  <2>6. Sound(HT, heap) /\ HT[h] = v /\ v # None
    <3>1. HT[h] = v /\ v # None
      BY <2>3, <2>4, Sorts DEF ViewsInv, Sound
    <3> QED BY <1>1, <1>2, <2>1, <2>3, <2>4, <3>1, ViewSound DEF ViewsInv
  <2>7. Sound(HU, G) /\ HU[h] = x
    BY <2>3, <2>4, <2>5, <2>6, FromVecSound DEF Sound
  <2>8. x # None /\ x.kind = "Bytes" /\ r.data.n <= x.len
    <3>1. x # None /\ x.kind = "Bytes" /\ x.len = v.len
      <4>1. CASE v.len = 0
        BY <2>4, <4>1, EmptyIdle, PlacesAssumption, DanglingBehind
        DEF BytesFromVec, NeedsBlock, Empty, BytesAt, HandleRecord, Null
      <4>2. CASE v.len # 0
        <5>1. PICK d : x = BytesAt(v.ptr, v.len, d) /\ (d = Offset(0) \/ \E b \in Nat : d = InBlock(b))
          <6>1. CASE NeedsBlock(v)
            <7>1. FreeBlocks(heap) # {} /\ FreeBlocks(heap) \in SUBSET Nat
              BY <2>5, <6>1, BoundsAssumption DEF CanFreeze, FreeBlocks
            <7>2. Least(FreeBlocks(heap)) \in Nat
              BY <7>1, LeastIn
            <7> QED BY <2>4, <4>2, <6>1, <7>2 DEF BytesFromVec
          <6>2. CASE ~ NeedsBlock(v)
            BY <2>4, <4>2, <6>2 DEF BytesFromVec
          <6> QED BY <6>1, <6>2
        <5>2. d \in [tag : {"null", "offset", "block"}, n : Nat]
          BY <5>1 DEF Offset, InBlock
        <5>3. v.ptr \in Nat /\ v.len \in Nat
          BY <2>3 DEF FieldsOK, HandleRecord
        <5>4. FieldsOK(x) /\ x.kind = "Bytes" /\ x.len = v.len
          BY <5>1, <5>2, <5>3, BytesFields
        <5> QED BY <5>4, Sorts
      <4> QED BY <4>1, <4>2
    <3> QED BY <1>2, <2>3, <3>1
  <2>9. r.data.n <= Size(x)
    BY <2>8 DEF Size
  <2>10. Sound([HU EXCEPT ![h] = Advanced(x, r.data.n)], G)
    BY <1>2, <2>7, <2>8, <2>9, AdvanceSound
  <2>11. [HU EXCEPT ![h] = Advanced(x, r.data.n)] = [hs EXCEPT ![h] = Advanced(x, r.data.n)]
    BY <2>4
  <2> QED BY <2>5, <2>10, <2>11 DEF ViewsInv
<1>4. CASE ~ Unpromoted(r)
  <2>1. Promoted(r) /\ r.data \in [tag : {"null", "offset", "block"}, n : Nat]
    BY <1>2, <1>4, Sorts DEF Idle, FieldsOK, HandleRecord
  <2>2. PICK s : s = BytesAt(r.ptr, r.len, r.data)
    OBVIOUS
  <2>3. /\ FieldsOK(s) /\ s.kind = "Bytes" /\ s.ptr = r.ptr /\ s.data = r.data /\ Size(s) = r.len
    BY <1>2, <2>1, <2>2, BytesFields
  <2>4. s.ptr >= r.ptr /\ s.ptr + Size(s) <= r.ptr + Size(r)
    BY <1>2, <2>3
  <2>5. hs' = [hs EXCEPT ![h] = s] /\ heap' = heap
    BY <1>1, <1>4, <2>2 DEF Freeze, Update
  <2>6. Sound([hs EXCEPT ![h] = s], heap)
    BY <1>1, <1>2, <2>1, <2>3, <2>4, ViewSound DEF ViewsInv
  <2> QED BY <2>5, <2>6 DEF ViewsInv
<1> QED BY <1>3, <1>4

(* try_split_to, try_split_off of BytesMut: the n bytes in front, and the  *)
(* others with the spare capacity behind them, have no byte in common.     *)
LEMMA MutSplitSound ==
    ASSUME ViewsInv, NEW h \in Handle, NEW g \in Handle, NEW n \in Nat,
           MutSplitTo(h, g, n) \/ MutSplitOff(h, g, n)
    PROVE  ViewsInv'
<1>1. PICK r, s, t : r = hs[h] /\ s = SharedHandle(heap, r) /\ t = Advanced(s, n)
  OBVIOUS
<1>2. /\ r # None /\ r.kind = "BytesMut" /\ FieldsOK(r) /\ ~ Idle(r) /\ Idle(hs[g]) /\ h # g
      /\ CanShare(heap, r) /\ heap' = SharedHeap(heap, r)
      /\ r.ptr \in Nat /\ r.len \in Nat /\ r.cap \in Nat /\ r.len <= r.cap /\ Size(r) = r.cap
  BY <1>1 DEF MutSplitTo, MutSplitOff, Is, Vacant, Idle, ViewsInv, Sound, PlaceOK, FieldsOK,
              HandleRecord, Size
<1>3. /\ FieldsOK(s) /\ ~ Unpromoted(s) /\ s.data = SharedData(heap, r) /\ s.kind = "BytesMut"
      /\ s.ptr = r.ptr /\ s.len = r.len /\ s.cap = r.cap /\ Size(s) = r.cap
  BY <1>1, <1>2, SharedFields DEF ViewsInv
<1>4. n <= r.cap
  BY <1>1, <1>2 DEF MutSplitTo, MutSplitOff
<1>5. PICK k, f : /\ k \in Nat /\ k <= n /\ f = [s EXCEPT !.len = k, !.cap = n]
                          /\ \/ hs' = [hs EXCEPT ![h] = t, ![g] = f]
                             \/ hs' = [hs EXCEPT ![h] = f, ![g] = t]
  <2>1. CASE MutSplitTo(h, g, n)
    <3>1. hs' = [hs EXCEPT ![h] = t, ![g] = [s EXCEPT !.len = n, !.cap = n]]
      BY <1>1, <2>1 DEF MutSplitTo, SplitCap, Update2
    <3>2. n <= n
      OBVIOUS
    <3> QED BY <3>1, <3>2
  <2>2. CASE MutSplitOff(h, g, n)
    <3>1. PICK k : k = SplitLen(s, n)
      OBVIOUS
    <3>2. k \in Nat /\ k <= n
      BY <1>2, <1>3, <3>1 DEF SplitLen
    <3>3. [s EXCEPT !.cap = n, !.len = k] = [s EXCEPT !.len = k, !.cap = n]
      BY <1>3 DEF FieldsOK, HandleRecord
    <3>4. hs' = [hs EXCEPT ![h] = [s EXCEPT !.len = k, !.cap = n], ![g] = t]
      BY <1>1, <2>2, <3>1, <3>3 DEF MutSplitOff, Update2
    <3> QED BY <3>2, <3>4
  <2> QED BY <2>1, <2>2
<1>6. /\ f \in HandleRecord /\ f.kind = s.kind /\ f.ptr = s.ptr /\ f.len = k /\ f.cap = n
      /\ f.data = s.data
  BY <1>3, <1>5 DEF FieldsOK, HandleRecord
<1>7. FieldsOK(f) /\ Size(f) = n
  BY <1>3, <1>5, <1>6 DEF FieldsOK, Size
<1>8. n <= Size(s)
  BY <1>3, <1>4
<1>9. /\ FieldsOK(t) /\ t.kind = "BytesMut" /\ t.ptr = r.ptr + n /\ Size(t) = r.cap - n
      /\ t.data = s.data
  BY <1>1, <1>3, <1>8, AdvancedFields
<1>10. /\ f.ptr >= r.ptr /\ f.ptr + Size(f) <= r.ptr + Size(r)
       /\ t.ptr >= r.ptr /\ t.ptr + Size(t) <= r.ptr + Size(r)
       /\ f.ptr + Size(f) <= t.ptr
  BY <1>2, <1>3, <1>4, <1>6, <1>7, <1>9
<1>11. Apart(f, t) /\ Apart(t, f)
  BY <1>10 DEF Apart
<1>12. Sound([hs EXCEPT ![h] = t, ![g] = f], SharedHeap(heap, r))
  BY <1>1, <1>2, <1>3, <1>6, <1>7, <1>9, <1>10, <1>11, ShareSound DEF ViewsInv
<1>13. Sound([hs EXCEPT ![h] = f, ![g] = t], SharedHeap(heap, r))
  BY <1>1, <1>2, <1>3, <1>6, <1>7, <1>9, <1>10, <1>11, ShareSound DEF ViewsInv
<1> QED BY <1>2, <1>5, <1>12, <1>13 DEF ViewsInv

(* Clone for BytesMut                                                      *)
LEMMA MutCloneSound ==
    ASSUME ViewsInv, NEW h \in Handle, NEW g \in Handle, MutClone(h, g)
    PROVE  ViewsInv'
<1>1. PICK n, p, r : n = hs[h].len /\ p = NewPtr(heap, n) /\ r = MutAt(p, n, n, Offset(0))
  OBVIOUS
<1>2. /\ hs' = [hs EXCEPT ![g] = r] /\ heap' = Allocate(heap, n) /\ CanAllocate(heap, n)
      /\ Idle(hs[g])
  BY <1>1 DEF MutClone, Update, Vacant, Idle
<1>3. n \in Nat
  BY <1>1 DEF MutClone, Is, ViewsInv, Sound, PlaceOK, FieldsOK, HandleRecord
<1>4. p \in Nat
  BY <1>1, <1>2, NewPtrNat
<1>5. FieldsOK(r) /\ Direct(r) /\ VecPtr(r) = p /\ VecCap(r) = n
  <2>1. PICK v : v = VecAt(p, n, n)
    OBVIOUS
  <2>2. n <= n
    BY <1>3
  <2>3. FieldsOK(v) /\ v.kind = "Vec" /\ v.ptr = p /\ v.len = n /\ v.cap = n
    BY <1>3, <1>4, <2>1, <2>2, VecFields
  <2>4. r = MutFromVec(v)
    BY <1>1, <2>3 DEF MutFromVec
  <2> QED BY <2>3, <2>4, MutFromFields
<1> QED BY <1>1, <1>2, <1>3, <1>5, AllocateSound DEF ViewsInv

-----------------------------------------------------------------------------
(* reserve_inner.                                                          *)

(* Dropping an owner gives its allocation back.                            *)
LEMMA DropDirect ==
    ASSUME NEW r, FieldsOK(r), Direct(r), NEW H
    PROVE  DropHandle(H, r) = Deallocate(H, VecPtr(r), VecCap(r))
<1>1. CASE r.kind = "Vec"
  <2>1. VecPtr(r) = r.ptr /\ VecCap(r) = r.cap /\ ~ Unpromoted(r) /\ ~ Promoted(r)
    BY <1>1 DEF FieldsOK, HandleRecord, VecPtr, VecCap, Null, Unpromoted, Promoted
  <2> QED BY <1>1, <2>1 DEF DropHandle
<1>2. CASE r.kind # "Vec"
  BY <1>2 DEF DropHandle, Direct, Unpromoted, Promoted
<1> QED BY <1>1, <1>2

(* The heap after one size, or one block, has been set.                    *)
SetSize(H, i, c) == [H EXCEPT !.size[i] = c]
SetBlock(H, b, k) == [H EXCEPT !.blk[b] = k]

(* Two heaps that agree everywhere are one.                                *)
LEMMA HeapEqual ==
    ASSUME NEW G \in HeapRecord, NEW H \in HeapRecord,
           \A i \in 0..Buffers : G.size[i] = H.size[i],
           \A b \in Block : G.blk[b] = H.blk[b]
    PROVE  G = H
<1>1. PICK p, q, u, v : p = G.size /\ q = H.size /\ u = G.blk /\ v = H.blk
  OBVIOUS
<1>2. p \in [0..Buffers -> 0..MaxCap] /\ q \in [0..Buffers -> 0..MaxCap]
  BY <1>1 DEF HeapRecord
<1>3. \A i \in 0..Buffers : p[i] = q[i]
  BY <1>1
<1>4. p = [i \in 0..Buffers |-> p[i]] /\ q = [i \in 0..Buffers |-> q[i]]
  BY <1>2, Zenon
<1>5. p = q
  BY <1>3, <1>4
<1>6. u = v
  BY <1>1 DEF HeapRecord
<1>7. G = [size |-> p, blk |-> u] /\ H = [size |-> q, blk |-> v]
  BY <1>1 DEF HeapRecord
<1> QED BY <1>5, <1>6, <1>7

(* An allocation has another size, and nothing else is different.          *)
LEMMA SizeSet ==
    ASSUME NEW H \in HeapRecord, NEW i \in 1..Buffers, NEW c \in 0..MaxCap
    PROVE  /\ SetSize(H, i, c) \in HeapRecord /\ SetSize(H, i, c).size[i] = c
           /\ \A j \in 0..Buffers : j # i => SetSize(H, i, c).size[j] = H.size[j]
           /\ \A b \in Block : SetSize(H, i, c).blk[b] = H.blk[b]
<1>1. i \in 0..Buffers
  OBVIOUS
<1>2. H = [size |-> H.size, blk |-> H.blk] /\ H.size \in [0..Buffers -> 0..MaxCap]
      /\ H.blk \in [Block -> BlockRecord \cup {None}]
  BY DEF HeapRecord
<1>3. PICK f : f = [H.size EXCEPT ![i] = c]
  OBVIOUS
<1>4. SetSize(H, i, c) = [size |-> f, blk |-> H.blk]
  BY <1>2, <1>3 DEF SetSize
<1>5. /\ f \in [0..Buffers -> 0..MaxCap] /\ f[i] = c
      /\ \A j \in 0..Buffers : j # i => f[j] = H.size[j]
  BY <1>1, <1>2, <1>3
<1> QED BY <1>2, <1>4, <1>5 DEF HeapRecord

(* A block is different, and nothing else.                                 *)
LEMMA BlockSet ==
    ASSUME NEW H \in HeapRecord, NEW b \in Block, NEW k \in BlockRecord \cup {None}
    PROVE  /\ SetBlock(H, b, k) \in HeapRecord /\ SetBlock(H, b, k).blk[b] = k
           /\ \A i \in 0..Buffers : SetBlock(H, b, k).size[i] = H.size[i]
           /\ \A x \in Block : x # b => SetBlock(H, b, k).blk[x] = H.blk[x]
BY DEF HeapRecord, SetBlock

(* The two changes may be made in either order.                            *)
LEMMA SetCommute ==
    ASSUME NEW H \in HeapRecord, NEW i \in 1..Buffers, NEW c \in 0..MaxCap,
           NEW b \in Block, NEW k \in BlockRecord \cup {None}
    PROVE  SetBlock(SetSize(H, i, c), b, k) = SetSize(SetBlock(H, b, k), i, c)
<1>1. PICK D, E : D = SetSize(H, i, c) /\ E = SetBlock(H, b, k)
  OBVIOUS
<1>2. /\ D \in HeapRecord /\ D.size[i] = c
      /\ \A j \in 0..Buffers : j # i => D.size[j] = H.size[j]
      /\ \A x \in Block : D.blk[x] = H.blk[x]
  BY <1>1, SizeSet
<1>3. /\ E \in HeapRecord /\ E.blk[b] = k
      /\ \A j \in 0..Buffers : E.size[j] = H.size[j]
      /\ \A x \in Block : x # b => E.blk[x] = H.blk[x]
  BY <1>1, BlockSet
<1>4. PICK F, G : F = SetBlock(D, b, k) /\ G = SetSize(E, i, c)
  OBVIOUS
<1>5. /\ F \in HeapRecord /\ F.blk[b] = k
      /\ \A j \in 0..Buffers : F.size[j] = D.size[j]
      /\ \A x \in Block : x # b => F.blk[x] = D.blk[x]
  BY <1>2, <1>4, BlockSet
<1>6. /\ G \in HeapRecord /\ G.size[i] = c
      /\ \A j \in 0..Buffers : j # i => G.size[j] = E.size[j]
      /\ \A x \in Block : G.blk[x] = E.blk[x]
  BY <1>3, <1>4, SizeSet
<1>7. F = G
  BY <1>2, <1>3, <1>5, <1>6, HeapEqual
<1> QED BY <1>1, <1>4, <1>7

(* Vec::drop does not touch an allocation made before it.                  *)
LEMMA DeallocateElsewhere ==
    ASSUME NEW H \in HeapRecord, NEW p, NEW k \in Nat, Backed(p, k, H),
           NEW i \in 1..Buffers, H.size[i] = 0, NEW c \in 0..MaxCap
    PROVE  /\ Deallocate(SetSize(H, i, c), p, k) = SetSize(Deallocate(H, p, k), i, c)
           /\ Deallocate(H, p, k).size[i] = 0 /\ Deallocate(H, p, k) \in HeapRecord
<1>1. CASE k = 0
  BY <1>1 DEF Deallocate
<1>2. CASE k # 0
  <2>1. PICK j \in 1..Buffers : p = Base(j) /\ H.size[j] = k
    BY <1>2 DEF Backed
  <2>2. PICK G, D : G = SetSize(H, i, c) /\ D = SetSize(H, j, 0)
    OBVIOUS
  <2>3. i # j /\ 0 \in 0..MaxCap /\ i \in 0..Buffers /\ j \in 0..Buffers
    BY <1>2, <2>1, BoundsAssumption
  <2>4. /\ G \in HeapRecord /\ G.size[i] = c
        /\ \A x \in 0..Buffers : x # i => G.size[x] = H.size[x]
        /\ \A b \in Block : G.blk[b] = H.blk[b]
    BY <2>2, SizeSet
  <2>5. /\ D \in HeapRecord /\ D.size[j] = 0
        /\ \A x \in 0..Buffers : x # j => D.size[x] = H.size[x]
        /\ \A b \in Block : D.blk[b] = H.blk[b]
    BY <2>2, <2>3, SizeSet
  <2>6. Deallocate(H, p, k) = D /\ Deallocate(G, p, k) = SetSize(G, j, 0)
    <3>1. ASSUME NEW X \in HeapRecord PROVE Deallocate(X, Base(j), k) = SetSize(X, j, 0)
      <4>1. k \in Nat \ {0}
        BY <1>2
      <4>2. Deallocate(X, Base(j), k) = [X EXCEPT !.size[j] = 0]
        BY <4>1, DeallocateOne
      <4> QED BY <4>2 DEF SetSize
    <3> QED BY <2>1, <2>2, <2>4, <3>1
  <2>7. PICK E, F : E = SetSize(G, j, 0) /\ F = SetSize(D, i, c)
    OBVIOUS
  <2>8. /\ E \in HeapRecord /\ E.size[j] = 0
        /\ \A x \in 0..Buffers : x # j => E.size[x] = G.size[x]
        /\ \A b \in Block : E.blk[b] = G.blk[b]
    BY <2>3, <2>4, <2>7, SizeSet
  <2>9. /\ F \in HeapRecord /\ F.size[i] = c
        /\ \A x \in 0..Buffers : x # i => F.size[x] = D.size[x]
        /\ \A b \in Block : F.blk[b] = D.blk[b]
    BY <2>5, <2>7, SizeSet
  <2>10. E = F
    BY <2>3, <2>4, <2>5, <2>8, <2>9, HeapEqual
  <2> QED BY <2>2, <2>3, <2>5, <2>6, <2>7, <2>10
<1> QED BY <1>1, <1>2

(* Nor does dropping a handle.                                             *)
LEMMA DropElsewhere ==
    ASSUME NEW HS, NEW H, Sound(HS, H), NEW h \in Handle, HS[h] # None,
           NEW i \in 1..Buffers, H.size[i] = 0, NEW c \in 0..MaxCap
    PROVE  /\ DropHandle(SetSize(H, i, c), HS[h]) = SetSize(DropHandle(H, HS[h]), i, c)
           /\ DropHandle(H, HS[h]).size[i] = 0
<1>1. PICK r, G : r = HS[h] /\ G = SetSize(H, i, c)
  OBVIOUS
<1>2. PlaceOK(r, H) /\ FieldsOK(r) /\ H \in HeapRecord
  BY <1>1 DEF Sound, HeapOK, PlaceOK
<1>3. CASE Direct(r)
  <2>1. VecCap(r) \in Nat /\ Backed(VecPtr(r), VecCap(r), H)
    BY <1>1, <1>2, <1>3 DEF PlaceOK, FieldsOK, HandleRecord, VecCap
  <2> QED BY <1>1, <1>2, <1>3, <2>1, DropDirect, DeallocateElsewhere
<1>4. CASE Promoted(r)
  <2>1. PICK b \in Block, k \in BlockRecord : b = r.data.n /\ k = H.blk[b]
    BY <1>1, <1>2, <1>4 DEF PlaceOK, Within, HeapRecord
  <2>2. \A F : DropHandle(F, r) = Release(F, b)
    BY <1>2, <1>4, <2>1 DEF DropHandle, Promoted, Unpromoted, FieldsOK, Null
  <2>3. G \in HeapRecord /\ G.blk[b] = k
    BY <1>1, <1>2, <2>1, SizeSet
  <2>4. CASE k.ref # 1
    <3>1. PICK m : m = [k EXCEPT !.ref = @ - 1]
      OBVIOUS
    <3>2. m \in BlockRecord
      <4>1. k.ref \in Nat /\ k.ref # 0
        BY <2>1, PlacesAssumption DEF BlockRecord, Sound, HeapOK
      <4> QED BY <3>1, <4>1 DEF BlockRecord
    <3>3. Release(H, b) = SetBlock(H, b, m) /\ Release(G, b) = SetBlock(G, b, m)
      BY <2>1, <2>3, <2>4, <3>1 DEF Release, SetBlock
    <3>4. SetBlock(H, b, m).size[i] = H.size[i]
      BY <1>2, <3>2, BlockSet
    <3>5. SetBlock(G, b, m) = SetSize(SetBlock(H, b, m), i, c)
      BY <1>1, <1>2, <3>2, SetCommute
    <3> QED BY <1>1, <2>2, <3>3, <3>4, <3>5
  <2>5. CASE k.ref = 1
    <3>1. k.cap \in Nat /\ Backed(k.ptr, k.cap, H)
      BY <2>1, PlacesAssumption DEF Sound, BlockRecord
    <3>2. PICK D, E : D = Deallocate(H, k.ptr, k.cap) /\ E = Deallocate(G, k.ptr, k.cap)
      OBVIOUS
    <3>3. E = SetSize(D, i, c) /\ D.size[i] = 0 /\ D \in HeapRecord
      BY <1>1, <1>2, <3>1, <3>2, DeallocateElsewhere
    <3>4. Release(H, b) = SetBlock(D, b, None) /\ Release(G, b) = SetBlock(E, b, None)
      BY <2>1, <2>3, <2>5, <3>2 DEF Release, SetBlock
    <3>5. SetBlock(D, b, None).size[i] = D.size[i]
      BY <3>3, BlockSet
    <3>6. SetBlock(E, b, None) = SetSize(SetBlock(D, b, None), i, c)
      BY <3>3, SetCommute
    <3> QED BY <1>1, <2>2, <3>3, <3>4, <3>5, <3>6
  <2> QED BY <2>4, <2>5
<1>5. CASE Idle(r)
  <2>1. \A F : DropHandle(F, r) = F
    BY <1>1, <1>5 DEF DropHandle, Idle, Unpromoted, Promoted
  <2> QED BY <1>1, <2>1
<1> QED BY <1>2, <1>3, <1>4, <1>5, Sorts

(* A handle that no other shares a block with takes any part of it.        *)
LEMMA AloneSound ==
    ASSUME NEW HS, NEW H, Sound(HS, H), NEW h \in Handle, HS[h] # None, Promoted(HS[h]),
           H.blk[HS[h].data.n].ref = 1,
           NEW s, FieldsOK(s), s.data = HS[h].data, Within(s, H.blk[s.data.n])
    PROVE  Sound([HS EXCEPT ![h] = s], H)
<1>1. PICK r, b : r = HS[h] /\ b = r.data.n
  OBVIOUS
<1>2. PlaceOK(r, H) /\ FieldsOK(r) /\ b \in Block /\ H.blk[b] # None /\ In(r, b)
  BY <1>1, Sorts DEF Sound, PlaceOK, Within
<1>3. Promoted(s) /\ s # None
  BY <1>1, Sorts DEF Promoted
<1>4. PlaceOK(s, H)
  BY <1>1, <1>2, <1>3, Sorts DEF PlaceOK
<1>5. \A x : In(s, x) <=> In(r, x)
  BY <1>1, <1>2, <1>3 DEF In
<1>6. \A i : ~ HandleOwns(s, i) /\ ~ HandleOwns(r, i)
  BY <1>1, <1>2, <1>3, Sorts DEF HandleOwns
<1>7. \A g \in Handle : In(HS[g], b) => g = h
  BY <1>1, <1>2, SoleSharer
<1>8. \A x \in Block : In(s, x) => x = b
  BY <1>1, <1>5 DEF In, InBlock
<1>9. \A x \in Block, g \in Handle : ~ (g # h /\ In(s, x) /\ In(HS[g], x))
  BY <1>7, <1>8
<1> QED BY <1>1, <1>4, <1>5, <1>6, <1>9, ReshapeSound

(* The capacity that other handles have left behind the view is taken, and *)
(* only by a handle that is alone.                                         *)
LEMMA WithTailSound ==
    ASSUME ViewsInv, NEW h \in Handle, Is(h, "BytesMut"), NEW w, w = WithTail(hs[h])
    PROVE  /\ Sound([hs EXCEPT ![h] = w], heap) /\ FieldsOK(w) /\ w.kind = "BytesMut"
           /\ w.ptr = hs[h].ptr /\ w.len = hs[h].len /\ w.data = hs[h].data
           /\ hs[h].cap <= w.cap
           /\ IsUnique(heap, hs[h]) => w.ptr + w.cap = OwnPtr(hs[h]) + OwnCap(hs[h])
<1>1. PICK r, p, c : r = hs[h] /\ p = OwnPtr(r) /\ c = OwnCap(r)
  OBVIOUS
<1>2. r # None /\ r.kind = "BytesMut" /\ PlaceOK(r, heap) /\ FieldsOK(r) /\ ~ Idle(r)
      /\ r.cap \in Nat /\ Size(r) = r.cap
  BY <1>1 DEF Is, Idle, ViewsInv, Sound, PlaceOK, FieldsOK, HandleRecord, Size
<1>3. /\ p \in Nat /\ c \in Nat /\ r.ptr \in Nat /\ r.len \in Nat /\ r.len <= r.cap
      /\ p <= r.ptr /\ r.ptr + r.cap <= p + c
      /\ Unpromoted(r) => r.ptr + r.cap = p + c
  BY <1>1, <1>2, OwnFields
<1>4. CASE Promoted(r) /\ IsUnique(heap, r)
  <2>1. w = [r EXCEPT !.cap = c - (r.ptr - p)]
    BY <1>1, <1>4 DEF WithTail, HeadOffset
  <2>2. PICK k \in Nat : k = c - (r.ptr - p) /\ r.cap <= k /\ r.ptr + k = p + c
    BY <1>2, <1>3
  <2>3. /\ w \in HandleRecord /\ w.kind = "BytesMut" /\ w.ptr = r.ptr /\ w.len = r.len
        /\ w.cap = k /\ w.data = r.data
    BY <1>2, <2>1, <2>2 DEF FieldsOK, HandleRecord
  <2>4. FieldsOK(w) /\ Size(w) = k
    BY <1>2, <1>3, <2>2, <2>3 DEF FieldsOK, Size
  <2>5. p = heap.blk[r.data.n].ptr /\ c = heap.blk[r.data.n].cap /\ heap.blk[r.data.n].ref = 1
        /\ heap.blk[r.data.n] # None
    BY <1>1, <1>2, <1>4, Sorts DEF OwnPtr, OwnCap, IsUnique, PlaceOK, Within
  <2>6. Within(w, heap.blk[w.data.n])
    BY <1>3, <2>2, <2>3, <2>4, <2>5 DEF Within
  <2>7. Sound([hs EXCEPT ![h] = w], heap)
    BY <1>1, <1>2, <1>4, <2>3, <2>4, <2>5, <2>6, AloneSound DEF ViewsInv
  <2> QED BY <1>1, <2>2, <2>3, <2>4, <2>7
<1>5. CASE ~ (Promoted(r) /\ IsUnique(heap, r))
  <2>1. w = r
    BY <1>1, <1>5 DEF WithTail
  <2>2. r.ptr >= r.ptr /\ r.ptr + Size(r) <= r.ptr + Size(r) /\ r.cap <= r.cap
    BY <1>2, <1>3
  <2>3. Sound([hs EXCEPT ![h] = r], heap)
    BY <1>1, <1>2, <2>2, Sorts, ViewSound DEF ViewsInv
  <2>4. IsUnique(heap, r) => Unpromoted(r)
    BY <1>5 DEF IsUnique
  <2> QED BY <1>1, <1>2, <1>3, <2>1, <2>2, <2>3, <2>4
<1> QED BY <1>4, <1>5

(* The bytes of a handle that is alone are moved to the front.             *)
LEMMA MovedDownSound ==
    ASSUME ViewsInv, NEW h \in Handle, Is(h, "BytesMut"), IsUnique(heap, hs[h]),
           NEW x, x = MovedDown(WithTail(hs[h]))
    PROVE  /\ Sound([hs EXCEPT ![h] = x], heap) /\ FieldsOK(x) /\ x.kind = "BytesMut"
           /\ x.ptr = OwnPtr(hs[h]) /\ x.len = hs[h].len /\ x.cap = OwnCap(hs[h])
<1>1. PICK r, p, c, w : r = hs[h] /\ p = OwnPtr(r) /\ c = OwnCap(r) /\ w = WithTail(r)
  OBVIOUS
<1>2. r # None /\ r.kind = "BytesMut" /\ PlaceOK(r, heap) /\ FieldsOK(r) /\ ~ Idle(r)
      /\ r.cap \in Nat /\ Size(r) = r.cap /\ r.data.n \in Nat
  BY <1>1 DEF Is, Idle, ViewsInv, Sound, PlaceOK, FieldsOK, HandleRecord, Size
<1>3. /\ p \in Nat /\ c \in Nat /\ r.ptr \in Nat /\ r.len \in Nat /\ r.len <= r.cap
      /\ p <= r.ptr /\ r.ptr + r.cap <= p + c
  BY <1>1, <1>2, OwnFields
<1>4. /\ FieldsOK(w) /\ w.kind = "BytesMut" /\ w.ptr = r.ptr /\ w.len = r.len
      /\ w.data = r.data /\ w.ptr + w.cap = p + c
  BY <1>1, WithTailSound
<1>5. OwnPtr(w) = p /\ w.cap \in Nat
  BY <1>1, <1>4 DEF OwnPtr, VecPtr, Unpromoted, FieldsOK, HandleRecord
<1>6. PICK d : d = IF Unpromoted(r) THEN Offset(0) ELSE r.data
  OBVIOUS
<1>7. x = [w EXCEPT !.ptr = p, !.cap = @ + (w.ptr - p), !.data = d]
  BY <1>1, <1>4, <1>5, <1>6 DEF MovedDown, HeadOffset, Unpromoted
<1>8. d \in [tag : {"offset", "block"}, n : Nat] /\ (Unpromoted(r) => d.tag = "offset" /\ d.n = 0)
  BY <1>2, <1>6 DEF Offset, FieldsOK, HandleRecord
<1>9. w.cap + (w.ptr - p) = c
  BY <1>3, <1>4, <1>5
<1>10. /\ x \in HandleRecord /\ x.kind = "BytesMut" /\ x.ptr = p /\ x.len = r.len /\ x.cap = c
       /\ x.data = d
  BY <1>3, <1>4, <1>7, <1>8, <1>9 DEF FieldsOK, HandleRecord
<1>11. FieldsOK(x) /\ Size(x) = c
  <2>1. r.len <= c
    BY <1>2, <1>3
  <2>2. d.tag # "null"
    BY <1>8
  <2> QED BY <1>10, <2>1, <2>2 DEF FieldsOK, Size
<1>12. CASE Unpromoted(r)
  <2>1. Direct(r) /\ Direct(x)
    BY <1>2, <1>8, <1>10, <1>11, <1>12, Sorts DEF Unpromoted
  <2>2. VecPtr(x) = VecPtr(r) /\ VecCap(x) = VecCap(r)
    BY <1>1, <1>3, <1>8, <1>10, <1>12 DEF OwnPtr, OwnCap, VecPtr, VecCap
  <2>3. Sound([hs EXCEPT ![h] = x], heap)
    BY <1>1, <1>2, <1>11, <2>1, <2>2, ViewSound DEF ViewsInv
  <2> QED BY <1>1, <1>10, <1>11, <2>3
<1>13. CASE ~ Unpromoted(r)
  <2>1. Promoted(r) /\ x.data = r.data
    BY <1>2, <1>6, <1>10, <1>13, Sorts
  <2>2. p = heap.blk[r.data.n].ptr /\ c = heap.blk[r.data.n].cap /\ heap.blk[r.data.n].ref = 1
        /\ heap.blk[r.data.n] # None
    BY <1>1, <1>2, <1>13, <2>1 DEF OwnPtr, OwnCap, IsUnique, PlaceOK, Within
  <2>3. Within(x, heap.blk[x.data.n])
    BY <1>3, <1>10, <1>11, <2>1, <2>2 DEF Within
  <2>4. Sound([hs EXCEPT ![h] = x], heap)
    BY <1>1, <1>2, <1>11, <2>1, <2>2, <2>3, AloneSound DEF ViewsInv
  <2> QED BY <1>1, <1>10, <1>11, <2>4
<1> QED BY <1>12, <1>13

(* The bytes of a handle are copied to a new allocation, and what it had   *)
(* is dropped.                                                             *)
LEMMA ReallocateSound ==
    ASSUME NEW HS, NEW H, Sound(HS, H), NEW h \in Handle, HS[h] # None,
           NEW c \in Nat \ {0}, CanAllocate(H, c),
           NEW r, FieldsOK(r), Direct(r), VecPtr(r) = NewPtr(H, c), VecCap(r) = c
    PROVE  Sound([HS EXCEPT ![h] = r], DropHandle(Allocate(H, c), HS[h]))
<1>1. FreeBuffers(H) \in SUBSET Nat /\ FreeBuffers(H) # {}
  BY DEF CanAllocate, FreeBuffers
<1>2. PICK i \in FreeBuffers(H) : i = Least(FreeBuffers(H))
  BY <1>1, LeastIn
<1>3. i \in 1..Buffers /\ H.size[i] = 0 /\ c \in 1..MaxCap /\ c \in 0..MaxCap
  BY BoundsAssumption DEF FreeBuffers, CanAllocate
<1>4. Allocate(H, c) = SetSize(H, i, c) /\ VecPtr(r) = Base(i)
  BY <1>2 DEF Allocate, NewPtr, SetSize
<1>5. PICK HT, D : HT = [HS EXCEPT ![h] = None] /\ D = DropHandle(H, HS[h])
  OBVIOUS
<1>6. Sound(HT, D)
  BY <1>5, EmptyIdle, DropSound
<1>7. Idle(HT[h]) /\ [HT EXCEPT ![h] = r] = [HS EXCEPT ![h] = r]
  BY <1>5, EmptyIdle DEF Sound
<1>8. D.size[i] = 0 /\ DropHandle(SetSize(H, i, c), HS[h]) = SetSize(D, i, c)
  BY <1>3, <1>5, DropElsewhere
<1>9. Sound([HT EXCEPT ![h] = r], [D EXCEPT !.size[i] = c])
  BY <1>3, <1>4, <1>6, <1>7, <1>8, CreateSound
<1> QED BY <1>4, <1>7, <1>8, <1>9 DEF SetSize

(* The cases of reserve_inner.                                             *)
LEMMA ReserveCases ==
    ASSUME NEW r, NEW n \in Nat, n # 0, ~ TailSuffices(r, n), NEW allocate \in BOOLEAN
    PROVE  /\ HeadSuffices(r, n) =>
                ReserveInner(r, n, allocate) =
                  Outcome(MovedDown(WithTail(r)), heap,
                          CopyDisjoint(mem, r.ptr, OwnPtr(r), r.len), TRUE)
           /\ ~ HeadSuffices(r, n) /\ ~ allocate =>
                ReserveInner(r, n, allocate) = Outcome(WithTail(r), heap, mem, FALSE)
           /\ ~ HeadSuffices(r, n) /\ allocate =>
                ReserveInner(r, n, allocate) =
                  Outcome(MutAt(NewPtr(heap, NewCap(WithTail(r), n)), r.len,
                                NewCap(WithTail(r), n), Offset(0)),
                          DropHandle(Allocate(heap, NewCap(WithTail(r), n)), WithTail(r)),
                          CopyDisjoint(mem, r.ptr, NewPtr(heap, NewCap(WithTail(r), n)), r.len),
                          TRUE)
<1>1. n > 0
  OBVIOUS
<1>2. CASE HeadSuffices(r, n)
  BY <1>1, <1>2 DEF ReserveInner
<1>3. CASE ~ HeadSuffices(r, n) /\ ~ allocate
  BY <1>1, <1>3 DEF ReserveInner
<1>4. CASE ~ HeadSuffices(r, n) /\ allocate
  BY <1>1, <1>4 DEF ReserveInner
<1> QED BY <1>2, <1>3, <1>4

(* reserve_inner: whichever case applies, the handle that comes out is     *)
(* sound in the heap that comes out, holds as many bytes as before, and    *)
(* has the room that was asked for if the answer is yes.                   *)
LEMMA ReserveInnerSound ==
    ASSUME ViewsInv, NEW h \in Handle, Is(h, "BytesMut"), NEW n \in Nat,
           NEW allocate \in BOOLEAN,
           allocate => \/ TailSuffices(hs[h], n) \/ HeadSuffices(hs[h], n)
                       \/ CanAllocate(heap, NewCap(WithTail(hs[h]), n)),
           NEW o, o = ReserveInner(hs[h], n, allocate)
    PROVE  /\ Sound([hs EXCEPT ![h] = o.r], o.heap) /\ FieldsOK(o.r) /\ o.r.kind = "BytesMut"
           /\ o.r.len = hs[h].len
           /\ o.ok => Spare(o.r) >= n
           /\ allocate => o.ok
<1>1. PICK r, w : r = hs[h] /\ w = WithTail(r)
  OBVIOUS
<1>2. r # None /\ r.kind = "BytesMut" /\ PlaceOK(r, heap) /\ FieldsOK(r) /\ ~ Idle(r)
      /\ r.cap \in Nat /\ r.len \in Nat /\ r.len <= r.cap /\ r.ptr \in Nat /\ Size(r) = r.cap
  BY <1>1 DEF Is, Idle, ViewsInv, Sound, PlaceOK, FieldsOK, HandleRecord, Size
<1>3. /\ Sound([hs EXCEPT ![h] = w], heap) /\ FieldsOK(w) /\ w.kind = "BytesMut"
      /\ w.ptr = r.ptr /\ w.len = r.len /\ w.data = r.data
      /\ r.cap <= w.cap /\ w.cap \in Nat
      /\ IsUnique(heap, r) => w.ptr + w.cap = OwnPtr(r) + OwnCap(r)
  BY <1>1, WithTailSound DEF FieldsOK, HandleRecord
<1>4. CASE n = 0
  <2>1. o = Outcome(r, heap, mem, TRUE)
    BY <1>1, <1>4 DEF ReserveInner
  <2>2. o.r = r /\ o.heap = heap /\ o.ok = TRUE
    BY <2>1 DEF Outcome
  <2>3. r.ptr >= r.ptr /\ r.ptr + Size(r) <= r.ptr + Size(r)
    BY <1>2
  <2>4. Sound([hs EXCEPT ![h] = r], heap)
    BY <1>1, <1>2, <2>3, Sorts, ViewSound DEF ViewsInv
  <2>5. Spare(r) >= n
    BY <1>2, <1>4 DEF Spare
  <2> QED BY <1>1, <1>2, <2>2, <2>4, <2>5
<1>5. CASE n > 0 /\ TailSuffices(r, n)
  <2>1. w.cap - r.cap >= n
    BY <1>1, <1>5 DEF TailSuffices
  <2>2. Promoted(r)
    <3> SUFFICES ASSUME ~ Promoted(r) PROVE FALSE
      OBVIOUS
    <3>1. w = r
      BY <1>1 DEF WithTail
    <3> QED BY <1>2, <1>5, <2>1, <3>1
  <2>3. o = Outcome(w, heap, mem, TRUE)
    BY <1>1, <1>5, <2>2 DEF ReserveInner
  <2>4. o.r = w /\ o.heap = heap /\ o.ok = TRUE
    BY <2>3 DEF Outcome
  <2>5. Spare(w) >= n
    BY <1>2, <1>3, <2>1 DEF Spare
  <2> QED BY <1>1, <1>3, <2>4, <2>5
<1>6. CASE n > 0 /\ ~ TailSuffices(r, n) /\ HeadSuffices(r, n)
  <2>1. PICK x, M : x = MovedDown(w) /\ M = CopyDisjoint(mem, r.ptr, OwnPtr(r), r.len)
    OBVIOUS
  <2>2. o = Outcome(x, heap, M, TRUE)
    <3>1. n # 0 /\ o = ReserveInner(r, n, allocate)
      BY <1>1, <1>6
    <3> QED BY <1>1, <1>6, <2>1, <3>1, ReserveCases, Zenon
  <2>3. o.r = x /\ o.heap = heap /\ o.ok = TRUE
    BY <2>2 DEF Outcome
  <2>4. IsUnique(heap, r) /\ HeadOffset(r) + Spare(w) >= n
    BY <1>1, <1>6 DEF HeadSuffices
  <2>5. /\ Sound([hs EXCEPT ![h] = x], heap) /\ FieldsOK(x) /\ x.kind = "BytesMut"
        /\ x.len = r.len /\ x.cap = OwnCap(r)
    BY <1>1, <2>1, <2>4, MovedDownSound
  <2>6. OwnPtr(r) \in Nat /\ OwnCap(r) \in Nat
    BY <1>1, <1>2, OwnFields
  <2>7. Spare(x) >= n
    BY <1>2, <1>3, <2>4, <2>5, <2>6 DEF Spare, HeadOffset
  <2> QED BY <1>1, <2>3, <2>5, <2>7
<1>7. CASE n > 0 /\ ~ TailSuffices(r, n) /\ ~ HeadSuffices(r, n) /\ ~ allocate
  <2>1. o = Outcome(w, heap, mem, FALSE)
    <3>1. n # 0 /\ o = ReserveInner(r, n, allocate)
      BY <1>1, <1>7
    <3> QED BY <1>1, <1>7, <3>1, ReserveCases, Zenon
  <2>2. o.r = w /\ o.heap = heap /\ o.ok = FALSE
    BY <2>1 DEF Outcome
  <2> QED BY <1>1, <1>3, <1>7, <2>2
<1>8. CASE n > 0 /\ ~ TailSuffices(r, n) /\ ~ HeadSuffices(r, n) /\ allocate
  <2>1. PICK cap, ptr : cap = NewCap(w, n) /\ ptr = NewPtr(heap, cap)
    OBVIOUS
  <2>2. PICK x, M, G : /\ x = MutAt(ptr, r.len, cap, Offset(0))
                       /\ M = CopyDisjoint(mem, r.ptr, ptr, r.len)
                       /\ G = DropHandle(Allocate(heap, cap), w)
    OBVIOUS
  <2>3. o = Outcome(x, G, M, TRUE)
    <3>1. n # 0 /\ o = ReserveInner(r, n, allocate)
      BY <1>1, <1>8
    <3> QED BY <1>1, <1>8, <2>1, <2>2, <3>1, ReserveCases, Zenon
  <2>4. o.r = x /\ o.heap = G /\ o.ok = TRUE
    BY <2>3 DEF Outcome
  <2>5. CanAllocate(heap, cap)
    BY <1>1, <1>8, <2>1
  <2>6. cap \in Nat /\ cap # 0 /\ r.len + n <= cap /\ r.len <= cap
    BY <1>2, <1>3, <1>8, <2>1 DEF NewCap
  <2>7. ptr \in Nat
    BY <2>1, <2>5, NewPtrNat
  <2>8. /\ FieldsOK(x) /\ x.kind = "BytesMut" /\ Direct(x) /\ VecPtr(x) = ptr /\ VecCap(x) = cap
        /\ x.len = r.len /\ x.cap = cap
    <3>1. PICK v : v = VecAt(ptr, r.len, cap)
      OBVIOUS
    <3>2. FieldsOK(v) /\ v.kind = "Vec" /\ v.ptr = ptr /\ v.len = r.len /\ v.cap = cap
      BY <1>2, <2>6, <2>7, <3>1, VecFields
    <3>3. x = MutFromVec(v)
      BY <2>2, <3>2 DEF MutFromVec
    <3>4. x.kind = "BytesMut" /\ x.len = r.len /\ x.cap = cap
      BY <2>2 DEF MutAt
    <3> QED BY <3>2, <3>3, <3>4, MutFromFields
  <2>9. PICK HT : HT = [hs EXCEPT ![h] = w]
    OBVIOUS
  <2>10. HT[h] = w /\ w # None /\ [HT EXCEPT ![h] = x] = [hs EXCEPT ![h] = x] /\ Sound(HT, heap)
    BY <1>3, <2>9, Sorts DEF ViewsInv, Sound
  <2>11. Sound([HT EXCEPT ![h] = x], DropHandle(Allocate(heap, cap), HT[h]))
    BY <2>1, <2>5, <2>6, <2>8, <2>10, ReallocateSound
  <2>12. Spare(x) >= n
    BY <1>2, <2>6, <2>8 DEF Spare
  <2> QED BY <1>1, <2>2, <2>4, <2>8, <2>10, <2>11, <2>12
<1> QED BY <1>4, <1>5, <1>6, <1>7, <1>8

(* reserve, before anything is written                                     *)
LEMMA ReservedSound ==
    ASSUME ViewsInv, NEW h \in Handle, Is(h, "BytesMut"), NEW n \in Nat, CanReserve(hs[h], n),
           NEW o, o = Reserved(hs[h], n)
    PROVE  /\ Sound([hs EXCEPT ![h] = o.r], o.heap) /\ FieldsOK(o.r) /\ o.r.kind = "BytesMut"
           /\ o.r.len = hs[h].len /\ Spare(o.r) >= n
<1>1. CASE Spare(hs[h]) >= n
  <2>1. o.r = hs[h] /\ o.heap = heap
    BY <1>1 DEF Reserved, Outcome
  <2> QED BY <1>1, <2>1, SameSound
<1>2. CASE ~ (Spare(hs[h]) >= n)
  <2>1. o = ReserveInner(hs[h], n, TRUE)
    BY <1>2 DEF Reserved
  <2>2. \/ TailSuffices(hs[h], n) \/ HeadSuffices(hs[h], n)
        \/ CanAllocate(heap, NewCap(WithTail(hs[h]), n))
    BY <1>2 DEF CanReserve
  <2> QED BY <2>1, <2>2, ReserveInnerSound
<1> QED BY <1>1, <1>2

(* try_reclaim: no is said without an allocation.                          *)
LEMMA ReclaimedSound ==
    ASSUME ViewsInv, NEW h \in Handle, Is(h, "BytesMut"), NEW n \in Nat,
           NEW o, o = Reclaimed(hs[h], n)
    PROVE  Sound([hs EXCEPT ![h] = o.r], o.heap) /\ (o.ok => Spare(o.r) >= n)
<1>1. CASE Spare(hs[h]) >= n
  <2>1. o.r = hs[h] /\ o.heap = heap
    BY <1>1 DEF Reclaimed, Outcome
  <2> QED BY <1>1, <2>1, SameSound
<1>2. CASE ~ (Spare(hs[h]) >= n)
  <2>1. o = ReserveInner(hs[h], n, FALSE)
    BY <1>2 DEF Reclaimed
  <2> QED BY <2>1, ReserveInnerSound
<1> QED BY <1>1, <1>2

(* The room try_reclaim_full asks for.                                     *)
LEMMA LeftoverNat ==
    ASSUME ViewsInv, NEW h \in Handle, Is(h, "BytesMut")
    PROVE  Leftover(hs[h]) \in Nat
<1>1. PICK r : r = hs[h]
  OBVIOUS
<1>2. r # None /\ r.kind = "BytesMut" /\ FieldsOK(r) /\ ~ Idle(r)
      /\ r.cap \in Nat /\ r.len \in Nat /\ r.len <= r.cap /\ r.data.n \in Nat /\ Size(r) = r.cap
  BY <1>1 DEF Is, Idle, ViewsInv, Sound, PlaceOK, FieldsOK, HandleRecord, Size
<1>3. CASE Unpromoted(r)
  BY <1>1, <1>2, <1>3 DEF Leftover, Spare
<1>4. CASE ~ Unpromoted(r)
  <2>1. OwnPtr(r) \in Nat /\ OwnCap(r) \in Nat /\ r.ptr \in Nat /\ OwnPtr(r) <= r.ptr
        /\ r.ptr + Size(r) <= OwnPtr(r) + OwnCap(r)
    BY <1>1, <1>2, OwnFields
  <2>2. Leftover(r) = OwnCap(r) - r.len
    BY <1>4 DEF Leftover, OwnCap
  <2> QED BY <1>1, <1>2, <2>1, <2>2
<1> QED BY <1>3, <1>4

(* reserve, try_reclaim, try_reclaim_full                                  *)
LEMMA ReserveSound ==
    ASSUME ViewsInv, NEW h \in Handle, NEW n \in Nat,
           Reserve(h, n) \/ TryReclaim(h, n) \/ TryReclaimFull(h)
    PROVE  ViewsInv'
<1>1. Is(h, "BytesMut")
  BY DEF Reserve, TryReclaim, TryReclaimFull
<1>2. ASSUME NEW o, Becomes(h, o), Sound([hs EXCEPT ![h] = o.r], o.heap) PROVE ViewsInv'
  BY <1>2 DEF Becomes, Update, ViewsInv
<1>3. CASE Reserve(h, n)
  <2>1. PICK o : o = Reserved(hs[h], n) /\ CanReserve(hs[h], n) /\ Becomes(h, o)
    BY <1>3 DEF Reserve
  <2> QED BY <1>1, <1>2, <2>1, ReservedSound
<1>4. CASE TryReclaim(h, n)
  <2>1. PICK o : o = Reclaimed(hs[h], n) /\ Becomes(h, o)
    BY <1>4 DEF TryReclaim
  <2> QED BY <1>1, <1>2, <2>1, ReclaimedSound
<1>5. CASE TryReclaimFull(h)
  <2>1. PICK k \in Nat : Becomes(h, ReserveInner(hs[h], k, FALSE))
    BY <1>1, <1>5, LeftoverNat DEF TryReclaimFull, FullyReclaimed
  <2>3. PICK o : o = ReserveInner(hs[h], k, FALSE)
    OBVIOUS
  <2>2. Sound([hs EXCEPT ![h] = o.r], o.heap)
    BY <1>1, <2>3, ReserveInnerSound
  <2> QED BY <1>2, <2>1, <2>2, <2>3
<1> QED BY <1>3, <1>4, <1>5

(* Bytes are written behind the length, within the capacity.               *)
LEMMA LengthenSound ==
    ASSUME NEW HS, NEW H, NEW h \in Handle, NEW x, Sound([HS EXCEPT ![h] = x], H), DOMAIN HS = Handle,
           FieldsOK(x), x.kind = "BytesMut", NEW n \in Nat, n <= Spare(x),
           NEW s, s = [x EXCEPT !.len = @ + n]
    PROVE  Sound([HS EXCEPT ![h] = s], H) /\ FieldsOK(s)
<1>1. PICK HT, k, t : HT = [HS EXCEPT ![h] = x] /\ k = x.len + n /\ t = s
  OBVIOUS
<1>2. HT[h] = x /\ x # None /\ Sound(HT, H)
  BY <1>1, Sorts
<1>3. x.len \in Nat /\ x.cap \in Nat
  BY DEF FieldsOK, HandleRecord
<1>4. k \in Nat /\ k <= x.cap /\ t = [x EXCEPT !.len = k]
  BY <1>1, <1>3 DEF Spare
<1>5. /\ t \in HandleRecord /\ t.kind = x.kind /\ t.ptr = x.ptr /\ t.len = k /\ t.cap = x.cap
      /\ t.data = x.data
  BY <1>4 DEF FieldsOK, HandleRecord
<1>6. t.len <= t.cap
  BY <1>4, <1>5
<1>7. Sound([HT EXCEPT ![h] = t], H) /\ FieldsOK(t)
  BY <1>2, <1>5, <1>6, LengthSound
<1>8. [HT EXCEPT ![h] = t] = [HS EXCEPT ![h] = t]
  BY <1>1
<1> QED BY <1>1, <1>7, <1>8

(* extend_from_slice, put_slice, chunk_mut with advance_mut                *)
LEMMA WriteSound ==
    ASSUME ViewsInv, NEW h \in Handle, NEW n \in Nat, NEW m, Extend(h, n, m) \/ FillChunk(h, n, m)
    PROVE  ViewsInv'
<1>1. Is(h, "BytesMut") /\ DOMAIN hs = Handle
  BY DEF Extend, FillChunk, ViewsInv, Sound
<1>2. ASSUME NEW o, Sound([hs EXCEPT ![h] = o.r], o.heap), FieldsOK(o.r),
             o.r.kind = "BytesMut", n <= Spare(o.r), NEW M,
             Becomes(h, Outcome([o.r EXCEPT !.len = @ + n], o.heap, M, TRUE))
      PROVE  ViewsInv'
  <2>1. PICK x, G, s : x = o.r /\ G = o.heap /\ s = [x EXCEPT !.len = @ + n]
    OBVIOUS
  <2>2. hs' = [hs EXCEPT ![h] = s] /\ heap' = G
    BY <1>2, <2>1 DEF Becomes, Outcome, Update
  <2>3. Sound([hs EXCEPT ![h] = s], G)
    BY <1>1, <1>2, <2>1, LengthenSound
  <2> QED BY <2>2, <2>3 DEF ViewsInv
<1>3. CASE Extend(h, n, m)
  <2>1. PICK o, M : /\ o = Reserved(hs[h], n) /\ CanReserve(hs[h], n)
                    /\ Becomes(h, Outcome([o.r EXCEPT !.len = @ + n], o.heap, M, TRUE))
    BY <1>3 DEF Extend
  <2>2. /\ Sound([hs EXCEPT ![h] = o.r], o.heap) /\ FieldsOK(o.r) /\ o.r.kind = "BytesMut"
        /\ Spare(o.r) >= n
    BY <1>1, <2>1, ReservedSound
  <2>3. n <= Spare(o.r)
    BY <2>2 DEF Spare, FieldsOK, HandleRecord
  <2> QED BY <1>2, <2>1, <2>2, <2>3
<1>4. CASE FillChunk(h, n, m)
  <2>1. PICK o, M : /\ o = Opened(hs[h]) /\ n <= Spare(o.r)
                    /\ hs[h].cap = hs[h].len => CanReserve(hs[h], Growth)
                    /\ Becomes(h, Outcome([o.r EXCEPT !.len = @ + n], o.heap, M, TRUE))
    BY <1>4 DEF FillChunk
  <2>2. /\ Sound([hs EXCEPT ![h] = o.r], o.heap) /\ FieldsOK(o.r) /\ o.r.kind = "BytesMut"
    <3>1. CASE hs[h].cap = hs[h].len
      <4>1. o = Reserved(hs[h], Growth) /\ CanReserve(hs[h], Growth) /\ Growth \in Nat
        BY <2>1, <3>1, BoundsAssumption DEF Opened
      <4> QED BY <1>1, <4>1, ReservedSound
    <3>2. CASE hs[h].cap # hs[h].len
      <4>1. o.r = hs[h] /\ o.heap = heap
        BY <2>1, <3>2 DEF Opened, Outcome
      <4> QED BY <1>1, <4>1, SameSound
    <3> QED BY <3>1, <3>2
  <2> QED BY <1>2, <2>1, <2>2
<1> QED BY <1>3, <1>4

-----------------------------------------------------------------------------
(* unsplit and put.                                                        *)

(* The bytes of one handle are appended to another by copying.             *)
LEMMA AppendCopySound ==
    ASSUME ViewsInv, NEW h \in Handle, NEW g \in Handle, h # g, Is(h, "BytesMut"),
           hs[g] # None, AppendCopy(h, g)
    PROVE  ViewsInv'
<1>1. PICK n, o : n = hs[g].len /\ o = Reserved(hs[h], n)
  OBVIOUS
<1>2. PICK x, G, s : x = o.r /\ G = o.heap /\ s = [x EXCEPT !.len = @ + n]
  OBVIOUS
<1>3. /\ CanReserve(hs[h], n) /\ hs' = [hs EXCEPT ![h] = s, ![g] = None]
      /\ heap' = DropHandle(G, hs[g])
  BY <1>1, <1>2 DEF AppendCopy, Update2
<1>4. n \in Nat /\ DOMAIN hs = Handle
  BY <1>1 DEF ViewsInv, Sound, PlaceOK, FieldsOK, HandleRecord
<1>5. Sound([hs EXCEPT ![h] = x], G) /\ FieldsOK(x) /\ x.kind = "BytesMut" /\ Spare(x) >= n
  BY <1>1, <1>2, <1>3, <1>4, ReservedSound
<1>6. n <= Spare(x)
  BY <1>4, <1>5 DEF Spare, FieldsOK, HandleRecord
<1>7. Sound([hs EXCEPT ![h] = s], G)
  BY <1>2, <1>4, <1>5, <1>6, LengthenSound
<1>8. PICK HT : HT = [hs EXCEPT ![h] = s]
  OBVIOUS
<1>9. HT[g] = hs[g] /\ [HT EXCEPT ![g] = None] = [hs EXCEPT ![h] = s, ![g] = None]
  BY <1>4, <1>8
<1>10. Sound(HT, G)
  BY <1>7, <1>8
<1>11. Sound([HT EXCEPT ![g] = None], DropHandle(G, HT[g]))
  BY <1>9, <1>10, EmptyIdle, DropSound
<1> QED BY <1>3, <1>9, <1>11 DEF ViewsInv

(* A handle takes the place of another, which is dropped.                  *)
LEMMA ReplacedSound ==
    ASSUME NEW HS, NEW H, Sound(HS, H), NEW h \in Handle, NEW g \in Handle, h # g, HS[h] # None
    PROVE  Sound([HS EXCEPT ![h] = HS[g], ![g] = None], DropHandle(H, HS[h]))
<1>1. PICK HT, D : HT = [HS EXCEPT ![h] = None] /\ D = DropHandle(H, HS[h])
  OBVIOUS
<1>2. Sound(HT, D)
  BY <1>1, EmptyIdle, DropSound
<1>3. HT[g] = HS[g] /\ Idle(HT[h])
  BY <1>1, EmptyIdle DEF Sound
<1>4. Sound([HT EXCEPT ![g] = None, ![h] = HT[g]], D)
  BY <1>2, <1>3, EmptyIdle, MoveSound
<1>5. [HT EXCEPT ![g] = None, ![h] = HT[g]] = [HS EXCEPT ![h] = HS[g], ![g] = None]
  BY <1>1, <1>3 DEF Sound
<1> QED BY <1>1, <1>4, <1>5

(* put: a handle without capacity takes over the allocation of the source. *)
LEMMA TakeOverSound ==
    ASSUME ViewsInv, NEW h \in Handle, NEW g \in Handle, Is(h, "BytesMut"), h # g,
           Is(g, "Bytes") \/ Is(g, "BytesMut"), TakeOver(h, g)
    PROVE  ViewsInv'
<1>1. PICK r, p, c : r = hs[g] /\ p = OwnPtr(r) /\ c = OwnCap(r)
  OBVIOUS
<1>2. PICK m, H : m = MutAt(r.ptr, r.len, c - (r.ptr - p), Offset(r.ptr - p)) /\ H = Disown(heap, r)
  OBVIOUS
<1>3. /\ IsUnique(heap, r) /\ hs' = [hs EXCEPT ![h] = m, ![g] = None]
      /\ heap' = DropHandle(H, hs[h])
  BY <1>1, <1>2 DEF TakeOver, Update2
<1>4. h # g /\ hs[h] # None /\ DOMAIN hs = Handle
  BY DEF Is, ViewsInv, Sound
<1>5. Sound([hs EXCEPT ![g] = m], H)
  BY <1>1, <1>2, <1>3, OwnMut
<1>6. PICK HT : HT = [hs EXCEPT ![g] = m]
  OBVIOUS
<1>7. HT[h] = hs[h] /\ HT[g] = m /\ Sound(HT, H)
  BY <1>4, <1>5, <1>6
<1>8. Sound([HT EXCEPT ![h] = HT[g], ![g] = None], DropHandle(H, HT[h]))
  BY <1>4, <1>7, ReplacedSound
<1>9. [HT EXCEPT ![h] = HT[g], ![g] = None] = [hs EXCEPT ![h] = m, ![g] = None]
  BY <1>4, <1>6, <1>7
<1> QED BY <1>3, <1>7, <1>8, <1>9 DEF ViewsInv

(* Where the view of a BytesMut that counts on a block lies: in a whole    *)
(* allocation, or at the pointer of an empty Vec.                          *)
LEMMA PromotedLies ==
    ASSUME NEW HS, NEW H, Sound(HS, H), NEW h \in Handle, HS[h] # None,
           HS[h].kind = "BytesMut", Promoted(HS[h])
    PROVE  /\ HS[h].data.n \in Block /\ H.blk[HS[h].data.n] # None
           /\ HS[h].ptr \in Nat /\ HS[h].len \in Nat /\ HS[h].cap \in Nat
           /\ HS[h].len <= HS[h].cap /\ In(HS[h], HS[h].data.n)
           /\ \/ HS[h].cap = 0 /\ HS[h].ptr = Dangling
              \/ \E i \in 1..Buffers :
                    /\ BlockOwns(H.blk[HS[h].data.n], i)
                    /\ Base(i) \in Nat /\ Base(i) <= HS[h].ptr
                    /\ HS[h].ptr + HS[h].cap <= Base(i) + MaxCap
<1>1. PICK r, b, k : r = HS[h] /\ b = r.data.n /\ k = H.blk[b]
  OBVIOUS
<1>2. FieldsOK(r) /\ b \in Block /\ Within(r, k) /\ Size(r) = r.cap
  BY <1>1 DEF Sound, PlaceOK, Size
<1>3. r.ptr \in Nat /\ r.len \in Nat /\ r.cap \in Nat /\ r.len <= r.cap /\ In(r, b)
  BY <1>1, <1>2, Sorts DEF FieldsOK, HandleRecord
<1>4. k # None /\ k \in BlockRecord /\ Backed(k.ptr, k.cap, H)
  <2>1. k # None
    BY <1>2 DEF Within
  <2> QED BY <1>1, <1>2, <2>1 DEF Sound, HeapOK, HeapRecord
<1>5. k.ptr \in Nat /\ k.cap \in Nat /\ k.ptr <= r.ptr /\ r.ptr + r.cap <= k.ptr + k.cap
  BY <1>2, <1>4 DEF Within, BlockRecord
<1>6. CASE k.cap = 0
  <2>1. k.ptr = Dangling
    BY <1>4, <1>6 DEF Backed
  <2>2. r.cap = 0 /\ r.ptr = k.ptr
    BY <1>3, <1>5, <1>6
  <2> QED BY <1>1, <1>2, <1>3, <1>4, <2>1, <2>2
<1>7. CASE k.cap # 0
  <2>1. PICK i \in 1..Buffers : k.ptr = Base(i) /\ H.size[i] = k.cap
    BY <1>4, <1>7 DEF Backed
  <2>2. k.cap <= MaxCap
    <3>1. H.size \in [0..Buffers -> 0..MaxCap] /\ i \in 0..Buffers
      BY DEF Sound, HeapOK, HeapRecord
    <3>2. H.size[i] \in 0..MaxCap
      BY <3>1
    <3> QED BY <2>1, <3>2
  <2>3. BlockOwns(k, i)
    BY <1>4, <1>7, <2>1 DEF BlockOwns
  <2>4. Base(i) \in Nat /\ Base(i) <= r.ptr /\ r.ptr + r.cap <= Base(i) + MaxCap
    BY <1>3, <1>5, <2>1, <2>2, BoundsAssumption
  <2> QED BY <1>1, <1>2, <1>3, <1>4, <2>3, <2>4
<1> QED BY <1>6, <1>7

(* try_unsplit compares addresses only.  Where the allocator keeps two     *)
(* allocations apart, handles that touch count on the same block, and the  *)
(* first has no spare capacity.                                            *)
LEMMA TouchingShare ==
    ASSUME NEW HS, NEW H, Sound(HS, H), Gap # 0, NEW h \in Handle, NEW g \in Handle, h # g,
           HS[h] # None, HS[g] # None, HS[h].kind = "BytesMut", HS[g].kind = "BytesMut",
           HS[g].cap # 0, Contiguous(HS[h], HS[g])
    PROVE  HS[g].data.n = HS[h].data.n /\ HS[h].cap = HS[h].len
<1>1. PICK r, s, b, c : r = HS[h] /\ s = HS[g] /\ b = r.data.n /\ c = s.data.n
  OBVIOUS
<1>2. Promoted(r) /\ Promoted(s) /\ r.ptr + r.len = s.ptr
  BY <1>1 DEF Contiguous
<1>3. /\ r.ptr \in Nat /\ r.len \in Nat /\ r.cap \in Nat /\ r.len <= r.cap
      /\ s.ptr \in Nat /\ s.len \in Nat /\ s.cap \in Nat /\ s.cap # 0
      /\ b \in Block /\ c \in Block /\ In(r, b) /\ In(s, c)
  BY <1>1, <1>2, PromotedLies
<1>4. PICK j \in 1..Buffers : /\ BlockOwns(H.blk[c], j) /\ Base(j) \in Nat /\ Base(j) <= s.ptr
                              /\ s.ptr + s.cap <= Base(j) + MaxCap
  BY <1>1, <1>2, <1>3, PromotedLies
<1>5. ~ (r.cap = 0 /\ r.ptr = Dangling)
  <2>1. j \in 0..Buffers /\ Base(j) + MaxCap + Gap < Dangling
    BY DanglingBehind
  <2> QED BY <1>2, <1>3, <1>4, <2>1, DanglingBehind, BoundsAssumption
<1>6. PICK i \in 1..Buffers : /\ BlockOwns(H.blk[b], i) /\ Base(i) \in Nat /\ Base(i) <= r.ptr
                              /\ r.ptr + r.cap <= Base(i) + MaxCap
  BY <1>1, <1>2, <1>5, PromotedLies
<1>7. ~ (i < j)
  <2> SUFFICES ASSUME i < j PROVE FALSE
    OBVIOUS
  <2>1. Base(i) + MaxCap + Gap <= Base(j)
    BY BaseOrder
  <2> QED BY <1>2, <1>3, <1>4, <1>6, <2>1, BoundsAssumption
<1>8. ~ (j < i)
  <2> SUFFICES ASSUME j < i PROVE FALSE
    OBVIOUS
  <2>1. Base(j) + MaxCap + Gap <= Base(i)
    BY BaseOrder
  <2> QED BY <1>2, <1>3, <1>4, <1>6, <2>1, BoundsAssumption
<1>9. i = j
  BY <1>7, <1>8
<1>10. b = c
  BY <1>3, <1>4, <1>6, <1>9 DEF Sound, OneOwner
<1>11. Apart(r, s) /\ Size(r) = r.cap /\ Size(s) = s.cap
  BY <1>1, <1>3, <1>10 DEF Sound, Divided, Size
<1>12. r.cap = r.len
  BY <1>2, <1>3, <1>11 DEF Apart
<1> QED BY <1>1, <1>10, <1>12

(* Two views side by side are, as one, apart from what each is apart from. *)
LEMMA WideApart ==
    ASSUME NEW r, NEW s, NEW x, NEW y, FieldsOK(r), FieldsOK(s), FieldsOK(x), FieldsOK(y),
           Apart(r, y), Apart(s, y), r.ptr + Size(r) = s.ptr,
           x.ptr = r.ptr, Size(x) = Size(r) + Size(s)
    PROVE  Apart(x, y)
<1>1. PICK a, c, d, e, p, q : /\ a = r.ptr /\ c = Size(r) /\ d = s.ptr /\ e = Size(s)
                              /\ p = y.ptr /\ q = Size(y)
  OBVIOUS
<1>2. a \in Nat /\ c \in Nat /\ d \in Nat /\ e \in Nat /\ p \in Nat /\ q \in Nat
  BY <1>1 DEF FieldsOK, HandleRecord, Size
<1>3. /\ c = 0 \/ q = 0 \/ a + c <= p \/ p + q <= a
      /\ e = 0 \/ q = 0 \/ d + e <= p \/ p + q <= d
      /\ a + c = d
  BY <1>1 DEF Apart
<1>4. c + e = 0 \/ q = 0 \/ a + (c + e) <= p \/ p + q <= a
  BY <1>2, <1>3
<1> QED BY <1>1, <1>4 DEF Apart

(* try_unsplit: the handles of one block that touch become one.            *)
LEMMA MergeSound ==
    ASSUME ViewsInv, Gap # 0, NEW h \in Handle, NEW g \in Handle, h # g,
           Is(h, "BytesMut"), Is(g, "BytesMut"), hs[g].cap # 0,
           Contiguous(hs[h], hs[g]), Merge(h, g)
    PROVE  ViewsInv'
<1>1. PICK r, s, b : r = hs[h] /\ s = hs[g] /\ b = r.data.n
  OBVIOUS
<1>2. PICK x, D : x = [r EXCEPT !.len = @ + s.len, !.cap = @ + s.cap] /\ D = DropHandle(heap, s)
  OBVIOUS
<1>3. hs' = [hs EXCEPT ![h] = x, ![g] = None] /\ heap' = D
  BY <1>1, <1>2 DEF Merge, Update2
<1>4. /\ r # None /\ s # None /\ DOMAIN hs = Handle /\ r.kind = "BytesMut" /\ s.kind = "BytesMut"
      /\ Promoted(r) /\ Promoted(s) /\ r.ptr + r.len = s.ptr /\ FieldsOK(r) /\ FieldsOK(s)
  BY <1>1 DEF Is, Contiguous, ViewsInv, Sound, PlaceOK
<1>5. s.data.n = b /\ r.cap = r.len
  BY <1>1, <1>4, TouchingShare DEF ViewsInv
<1>6. b \in Block /\ heap.blk[b] # None /\ In(r, b) /\ In(s, b)
  BY <1>1, <1>4, <1>5, PromotedLies DEF ViewsInv
<1>7. heap.blk[b].ref # 1
  BY <1>1, <1>6, SoleSharer DEF ViewsInv
<1>8. D.blk[b] # None /\ D.blk[b].ptr = heap.blk[b].ptr /\ D.blk[b].cap = heap.blk[b].cap
  <2>1. ~ Unpromoted(s) /\ s.kind # "Vec"
    BY <1>4, Sorts
  <2>2. D = Release(heap, b)
    BY <1>2, <1>4, <1>5, <2>1 DEF DropHandle
  <2>3. D = [heap EXCEPT !.blk[b].ref = @ - 1]
    BY <1>7, <2>2 DEF Release
  <2>4. heap \in HeapRecord /\ heap.blk[b] \in BlockRecord /\ heap.blk[b].ref # 0
    BY <1>6 DEF ViewsInv, Sound, HeapOK, HeapRecord
  <2>5. D.blk[b] = [heap.blk[b] EXCEPT !.ref = @ - 1]
    BY <1>6, <2>3, <2>4 DEF HeapRecord
  <2>6. D.blk[b] \in BlockRecord
    BY <2>4, <2>5 DEF BlockRecord
  <2> QED BY <2>4, <2>5, <2>6, PlacesAssumption DEF BlockRecord
<1>9. /\ FieldsOK(x) /\ x # None /\ x.kind = "BytesMut" /\ x.ptr = r.ptr /\ x.data = r.data
      /\ x.cap = r.cap + s.cap
  <2>1. /\ x \in HandleRecord /\ x.kind = "BytesMut" /\ x.ptr = r.ptr /\ x.data = r.data
        /\ x.cap = r.cap + s.cap /\ x.len = r.len + s.len
    <3>1. PICK n, c : n = r.len + s.len /\ c = r.cap + s.cap
      OBVIOUS
    <3>2. n \in Nat /\ c \in Nat /\ r \in HandleRecord
      BY <1>4, <3>1 DEF FieldsOK, HandleRecord
    <3>3. x = [r EXCEPT !.len = n, !.cap = c]
      BY <1>2, <3>1, <3>2 DEF HandleRecord
    <3> QED BY <1>4, <3>1, <3>2, <3>3 DEF HandleRecord
  <2> QED BY <1>4, <2>1, PlacesAssumption DEF FieldsOK, HandleRecord
<1>10. Size(r) = r.cap /\ Size(s) = s.cap /\ Size(x) = Size(r) + Size(s)
       /\ r.ptr + Size(r) = s.ptr
  BY <1>4, <1>5, <1>9 DEF Size
<1>11. Promoted(x) /\ x.data.n = b /\ ~ Direct(x) /\ ~ Idle(x) /\ ~ Direct(r)
  BY <1>1, <1>4, <1>9, Sorts DEF Promoted
<1>12. PlaceOK(x, D)
  <2>1. Within(r, heap.blk[b]) /\ Within(s, heap.blk[b])
    BY <1>1, <1>4, <1>5 DEF ViewsInv, Sound, PlaceOK
  <2>2. /\ heap.blk[b].ptr \in Nat /\ heap.blk[b].cap \in Nat
        /\ r.ptr \in Nat /\ r.cap \in Nat /\ s.ptr \in Nat /\ s.cap \in Nat
    BY <1>4, <1>6 DEF ViewsInv, Sound, HeapOK, HeapRecord, BlockRecord, FieldsOK, HandleRecord
  <2>3. Within(x, D.blk[b])
    BY <1>8, <1>9, <1>10, <2>1, <2>2 DEF Within
  <2> QED BY <1>6, <1>9, <1>11, <2>3 DEF PlaceOK
<1>13. PICK HT : HT = [hs EXCEPT ![g] = None]
  OBVIOUS
<1>14. /\ HT[h] = r /\ HT[g] = None /\ \A y \in Handle : y # g => HT[y] = hs[y]
       /\ [HT EXCEPT ![h] = x] = [hs EXCEPT ![h] = x, ![g] = None]
  BY <1>1, <1>4, <1>13
<1>15. Sound(HT, D)
  BY <1>1, <1>2, <1>4, <1>13, EmptyIdle, DropSound DEF ViewsInv
<1>16. \A i \in 1..Buffers : HandleOwns(x, i) <=> HandleOwns(HT[h], i)
  BY <1>11, <1>14 DEF HandleOwns
<1>17. \A c \in Block : In(x, c) <=> In(HT[h], c)
  BY <1>4, <1>9, <1>14 DEF In
<1>18. ASSUME NEW c \in Block, NEW y \in Handle, y # h, In(x, c), In(HT[y], c)
       PROVE  Apart(x, HT[y])
  <2>1. y # g /\ HT[y] = hs[y] /\ hs[y] # None
    BY <1>14, <1>18 DEF In
  <2>2. c = b
    BY <1>11, <1>18 DEF In, InBlock
  <2>3. Apart(r, hs[y]) /\ Apart(s, hs[y])
    BY <1>1, <1>4, <1>6, <1>18, <2>1, <2>2 DEF ViewsInv, Sound, Divided
  <2>4. FieldsOK(hs[y])
    BY <2>1 DEF ViewsInv, Sound, PlaceOK
  <2> QED BY <1>4, <1>9, <1>10, <2>1, <2>3, <2>4, WideApart
<1>19. Sound([HT EXCEPT ![h] = x], D)
  BY <1>12, <1>15, <1>16, <1>17, <1>18, ReshapeSound
<1> QED BY <1>3, <1>14, <1>19 DEF ViewsInv

(* unsplit                                                                 *)
LEMMA UnsplitSound ==
    ASSUME ViewsInv, Gap # 0, NEW h \in Handle, NEW g \in Handle, Unsplit(h, g)
    PROVE  ViewsInv'
<1>1. Is(h, "BytesMut") /\ Is(g, "BytesMut") /\ h # g /\ hs[h] # None /\ hs[g] # None
  BY DEF Unsplit, Is
<1>2. CASE Replace(h, g)
  BY <1>1, <1>2, ReplacedSound DEF Replace, Update2, ViewsInv
<1>3. CASE Update(g, None) /\ heap' = DropHandle(heap, hs[g])
  BY <1>1, <1>3, EmptyIdle, DropSound DEF Update, ViewsInv
<1>4. CASE hs[g].cap # 0 /\ Contiguous(hs[h], hs[g]) /\ Merge(h, g)
  BY <1>1, <1>4, MergeSound
<1>5. CASE AppendCopy(h, g)
  BY <1>1, <1>5, AppendCopySound
<1> QED BY <1>2, <1>3, <1>4, <1>5 DEF Unsplit, TryUnsplit

(* put with a Bytes or a BytesMut                                          *)
LEMMA PutSound ==
    ASSUME ViewsInv, NEW h \in Handle, NEW g \in Handle, Put(h, g)
    PROVE  ViewsInv'
<1>1. Is(h, "BytesMut") /\ (Is(g, "Bytes") \/ Is(g, "BytesMut")) /\ h # g /\ hs[g] # None
  BY DEF Put, Is
<1>2. CASE Update(g, None) /\ heap' = DropHandle(heap, hs[g])
  BY <1>1, <1>2, EmptyIdle, DropSound DEF Update, ViewsInv
<1>3. CASE TakeOver(h, g)
  BY <1>1, <1>3, TakeOverSound
<1>4. CASE AppendCopy(h, g)
  BY <1>1, <1>4, AppendCopySound
<1> QED BY <1>2, <1>3, <1>4 DEF Put

-----------------------------------------------------------------------------
(* The invariant holds in every state.                                     *)

(* At first there are no handles, no blocks and no allocations.            *)
LEMMA InitSound == Init => ViewsInv
<1> SUFFICES ASSUME Init PROVE ViewsInv
  OBVIOUS
<1>1. /\ DOMAIN hs = Handle /\ \A h \in Handle : hs[h] = None
      /\ heap \in HeapRecord /\ heap.size[0] = StaticLen
      /\ \A i \in 1..Buffers : heap.size[i] = 0
      /\ \A b \in Block : heap.blk[b] = None
  BY BoundsAssumption DEF Init, HeapRecord
<1>2. HeapOK(heap) /\ \A h \in Handle : PlaceOK(hs[h], heap)
  BY <1>1 DEF HeapOK, PlaceOK
<1>3. \A h \in Handle, i \in 1..Buffers : ~ HandleOwns(hs[h], i)
  BY <1>1 DEF HandleOwns, Direct
<1>4. \A b \in Block, i \in 1..Buffers : ~ BlockOwns(heap.blk[b], i)
  BY <1>1 DEF BlockOwns
<1>5. OneOwner(hs, heap) /\ NoLeak(hs, heap)
  BY <1>1, <1>3, <1>4 DEF OneOwner, NoLeak
<1>6. Counted(hs, heap) /\ Divided(hs)
  BY <1>1 DEF Counted, Divided, In
<1> QED BY <1>1, <1>2, <1>5, <1>6 DEF ViewsInv, Sound

(* A method of Bytes.                                                      *)
LEMMA NextBytesSound ==
    ASSUME ViewsInv, NEW h \in Handle, NextBytes(h)
    PROVE  ViewsInv'
<1>1. \A n \in Length : n \in Nat
  BY BoundsAssumption DEF Length
<1>2. CASE FromStatic(h)
  BY <1>2, FromStaticSound
<1>3. CASE BytesFrom(h)
  BY <1>3, BytesFromSound
<1>4. CASE Clear(h)
  BY <1>4, DropsSound
<1>5. CASE IntoVec(h) \/ IntoMut(h)
  BY <1>5, IntoSound
<1>6. ASSUME NEW n \in Length, Truncate(h, n) \/ TruncateOff(h, n) PROVE ViewsInv'
  BY <1>1, <1>6, TruncateSound
<1>7. ASSUME NEW n \in Length, Advance(h, n) PROVE ViewsInv'
  BY <1>1, <1>7, AdvancesSound
<1>8. ASSUME NEW g \in Handle, NEW n \in Length, SplitOff(h, g, n) \/ SplitTo(h, g, n)
      PROVE  ViewsInv'
  BY <1>1, <1>8, SplitSound
<1>9. ASSUME NEW g \in Handle, NEW n \in Length, NEW m \in Length, Slice(h, g, m, n)
      PROVE  ViewsInv'
  BY <1>1, <1>9, SliceSound
<1>10. ASSUME NEW g \in Handle, Clone(h, g) PROVE ViewsInv'
  BY <1>10, CloneSound
<1> QED BY <1>2, <1>3, <1>4, <1>5, <1>6, <1>7, <1>8, <1>9, <1>10 DEF NextBytes

(* A method of BytesMut.                                                   *)
LEMMA NextBytesMutSound ==
    ASSUME ViewsInv, Gap # 0, NEW h \in Handle, NextBytesMut(h)
    PROVE  ViewsInv'
<1>1. 0 \in Nat /\ \A n \in Length : n \in Nat
  BY BoundsAssumption DEF Length
<1>2. CASE MutFrom(h)
  BY <1>2, MutFromSound
<1>3. CASE Freeze(h)
  BY <1>3, FreezeSound
<1>4. CASE MutClear(h)
  BY <1>1, <1>4, MutShortenSound
<1>5. CASE TryReclaimFull(h)
  BY <1>1, <1>5, ReserveSound
<1>6. ASSUME NEW n \in Length, MutTruncate(h, n) \/ MutTruncateOff(h, n) PROVE ViewsInv'
  BY <1>1, <1>6, MutShortenSound
<1>7. ASSUME NEW n \in Length, MutAdvance(h, n) PROVE ViewsInv'
  BY <1>1, <1>7, AdvancesSound
<1>8. ASSUME NEW n \in Length, Reserve(h, n) \/ TryReclaim(h, n) PROVE ViewsInv'
  BY <1>1, <1>8, ReserveSound
<1>9. ASSUME NEW n \in Length, NEW m \in 0..n, Extend(h, n, m) \/ FillChunk(h, n, m)
      PROVE  ViewsInv'
  BY <1>1, <1>9, WriteSound
<1>10. ASSUME NEW g \in Handle, MutClone(h, g) PROVE ViewsInv'
  BY <1>10, MutCloneSound
<1>11. ASSUME NEW g \in Handle, Unsplit(h, g) PROVE ViewsInv'
  BY <1>11, UnsplitSound
<1>12. ASSUME NEW g \in Handle, Put(h, g) PROVE ViewsInv'
  BY <1>12, PutSound
<1>13. ASSUME NEW g \in Handle, NEW n \in Length, MutSplitTo(h, g, n) \/ MutSplitOff(h, g, n)
       PROVE  ViewsInv'
  BY <1>1, <1>13, MutSplitSound
<1> QED BY <1>2, <1>3, <1>4, <1>5, <1>6, <1>7, <1>8, <1>9, <1>10, <1>11, <1>12, <1>13
        DEF NextBytesMut

(* A step of the program.                                                  *)
LEMMA NextSound ==
    ASSUME ViewsInv, Gap # 0, [Next]_vars
    PROVE  ViewsInv'
<1>1. CASE vars' = vars
  BY <1>1 DEF vars, ViewsInv
<1>2. ASSUME NEW h \in Handle, Drop(h) PROVE ViewsInv'
  BY <1>2, DropsSound
<1>3. ASSUME NEW h \in Handle, NextBytes(h) PROVE ViewsInv'
  BY <1>3, NextBytesSound
<1>4. ASSUME NEW h \in Handle, NextBytesMut(h) PROVE ViewsInv'
  BY <1>4, NextBytesMutSound
<1>5. ASSUME NEW h \in Handle, NEW cap \in VecCaps, NEW len \in 0..cap, NEW m \in 0..len,
             NewVec(h, len, cap, m)
      PROVE  ViewsInv'
  <2>1. cap \in Nat /\ len \in Nat /\ len <= cap
    BY BoundsAssumption
  <2> QED BY <1>5, <2>1, NewVecSound
<1> QED BY <1>1, <1>2, <1>3, <1>4, <1>5 DEF Next

(* Whatever the user calls, in whatever order, the handles, the blocks and *)
(* the allocations fit: every view lies in what it owns or counts on, each *)
(* allocation has one owner, every count is right, and what a BytesMut may *)
(* write no other view reaches.  Gap # 0 says that the allocator leaves    *)
(* room between two allocations; try_unsplit, which compares addresses and *)
(* not blocks, needs it.                                                   *)
THEOREM ViewsInvariance ==
    ASSUME Gap # 0
    PROVE  Spec => []ViewsInv
BY InitSound, NextSound, PTL DEF Spec

-----------------------------------------------------------------------------
(* What the invariant means to the user.                                   *)

LiesIn(r, H, i) ==
    /\ Base(i) \in Nat /\ Base(i) <= r.ptr
    /\ H.size[i] \in 0..MaxCap /\ r.ptr + Size(r) <= Base(i) + H.size[i]
    /\ \/ i = 0 /\ Idle(r)
       \/ i # 0 /\ HandleOwns(r, i)
       \/ i # 0 /\ Promoted(r) /\ BlockOwns(H.blk[r.data.n], i)

(* What a handle reaches lies in the allocation that it owns or counts on, *)
(* or in the static data.                                                  *)
LEMMA ViewLies ==
    ASSUME NEW HS, NEW H, Sound(HS, H), NEW h \in Handle, HS[h] # None, Size(HS[h]) # 0
    PROVE  \E i \in 0..Buffers : LiesIn(HS[h], H, i)
<1>1. PICK r : r = HS[h]
  OBVIOUS
<1>2. PlaceOK(r, H) /\ FieldsOK(r) /\ r # None
  BY <1>1 DEF Sound, PlaceOK
<1>3. r.ptr \in Nat /\ r.len \in Nat /\ r.data.n \in Nat /\ Size(r) \in Nat \ {0}
  BY <1>1, <1>2 DEF FieldsOK, HandleRecord, Size
<1>4. \A i \in 0..Buffers : H.size[i] \in 0..MaxCap /\ Base(i) \in Nat
  <2>1. H.size \in [0..Buffers -> 0..MaxCap]
    BY DEF Sound, HeapOK, HeapRecord
  <2> QED BY <2>1, DanglingBehind
<1>5. CASE Direct(r)
  <2>1. VecCap(r) = Size(r) + r.data.n /\ VecPtr(r) = r.ptr - r.data.n /\ VecCap(r) # 0
    BY <1>3 DEF VecCap, VecPtr, Size
  <2>2. PICK i \in 1..Buffers : VecPtr(r) = Base(i) /\ H.size[i] = VecCap(r)
    BY <1>2, <1>5, <2>1 DEF PlaceOK, Backed
  <2>3. HandleOwns(r, i) /\ i # 0 /\ i \in 0..Buffers
    BY <1>5, <2>1, <2>2 DEF HandleOwns
  <2>4. Base(i) <= r.ptr /\ r.ptr + Size(r) <= Base(i) + H.size[i]
    BY <1>3, <2>1, <2>2
  <2> QED BY <1>1, <1>4, <2>3, <2>4 DEF LiesIn
<1>6. CASE Promoted(r)
  <2>1. PICK b, k : b = r.data.n /\ k = H.blk[b]
    OBVIOUS
  <2>2. b \in Block /\ k # None /\ k.ptr <= r.ptr /\ r.ptr + Size(r) <= k.ptr + k.cap
    BY <1>2, <1>6, <2>1 DEF PlaceOK, Within
  <2>3. k \in BlockRecord /\ Backed(k.ptr, k.cap, H)
    BY <2>1, <2>2 DEF Sound, HeapOK, HeapRecord
  <2>4. k.ptr \in Nat /\ k.cap \in Nat /\ k.cap # 0
    BY <1>3, <2>2, <2>3 DEF BlockRecord
  <2>5. PICK i \in 1..Buffers : k.ptr = Base(i) /\ H.size[i] = k.cap
    BY <2>3, <2>4 DEF Backed
  <2>6. BlockOwns(k, i) /\ i # 0 /\ i \in 0..Buffers
    BY <2>2, <2>4, <2>5 DEF BlockOwns
  <2> QED BY <1>1, <1>4, <1>6, <2>1, <2>2, <2>5, <2>6 DEF LiesIn
<1>7. CASE Idle(r)
  <2>1. r.kind = "Bytes" /\ Size(r) = r.len /\ r.ptr + r.len <= StaticLen
    BY <1>2, <1>3, <1>7 DEF Idle, PlaceOK, Size
  <2>2. 0 \in 0..Buffers /\ H.size[0] = StaticLen /\ Base(0) = 0
    BY BoundsAssumption DEF Sound, HeapOK, Base
  <2>3. Base(0) <= r.ptr /\ r.ptr + Size(r) <= Base(0) + H.size[0]
    BY <1>3, <2>1, <2>2, BoundsAssumption
  <2> QED BY <1>1, <1>4, <1>7, <2>2, <2>3 DEF LiesIn
<1> QED BY <1>2, <1>5, <1>6, <1>7, Sorts

(* Two allocations do not overlap.                                         *)
LEMMA AllocationsApart ==
    ASSUME NEW r, NEW s, NEW H, FieldsOK(r), FieldsOK(s),
           NEW i \in 0..Buffers, NEW j \in 0..Buffers, i # j, LiesIn(r, H, i), LiesIn(s, H, j)
    PROVE  Apart(r, s)
<1>1. /\ r.ptr \in Nat /\ s.ptr \in Nat /\ Size(r) \in Nat /\ Size(s) \in Nat
      /\ i \in Nat /\ j \in Nat
  BY DEF FieldsOK, HandleRecord, Size
<1>2. /\ Base(i) \in Nat /\ Base(j) \in Nat /\ Base(i) <= r.ptr /\ Base(j) <= s.ptr
      /\ r.ptr + Size(r) <= Base(i) + MaxCap /\ s.ptr + Size(s) <= Base(j) + MaxCap
  BY <1>1, BoundsAssumption DEF LiesIn
<1>3. CASE i < j
  <2>1. Base(i) + MaxCap + Gap <= Base(j)
    BY <1>1, <1>3, BaseOrder
  <2>2. r.ptr + Size(r) <= s.ptr
    BY <1>1, <1>2, <2>1, BoundsAssumption
  <2> QED BY <2>2 DEF Apart
<1>4. CASE j < i
  <2>1. Base(j) + MaxCap + Gap <= Base(i)
    BY <1>1, <1>4, BaseOrder
  <2>2. s.ptr + Size(s) <= r.ptr
    BY <1>1, <1>2, <2>1, BoundsAssumption
  <2> QED BY <2>2 DEF Apart
<1> QED BY <1>1, <1>3, <1>4

(* Views that are apart share no address.                                  *)
LEMMA ApartDisjoint ==
    ASSUME NEW r, NEW s, FieldsOK(r), FieldsOK(s), Apart(r, s)
    PROVE  Region(r.ptr, Size(r)) \cap Region(s.ptr, Size(s)) = {}
<1>1. PICK p, n, q, m : p = r.ptr /\ n = Size(r) /\ q = s.ptr /\ m = Size(s)
  OBVIOUS
<1>2. p \in Nat /\ n \in Nat /\ q \in Nat /\ m \in Nat
  BY <1>1 DEF FieldsOK, HandleRecord, Size
<1>3. n = 0 \/ m = 0 \/ p + n <= q \/ q + m <= p
  BY <1>1 DEF Apart
<1>4. \A a \in Int : ~ (p <= a /\ a <= p + n - 1 /\ q <= a /\ a <= q + m - 1)
  BY <1>2, <1>3
<1>5. (p .. (p + n - 1)) \cap (q .. (q + m - 1)) = {}
  BY <1>2, <1>4
<1> QED BY <1>1, <1>5 DEF Region

(* as_slice, as_mut_slice and spare_capacity_mut build slices that lie in  *)
(* an allocation that has not been freed.                                  *)
LEMMA InBounds == ViewsInv => ViewsInBounds
<1> SUFFICES ASSUME ViewsInv, NEW h \in Handle, hs[h] # None
             PROVE  /\ hs[h].kind # "Bytes" => hs[h].len <= hs[h].cap
                    /\ Extent(h) # {} => \E i \in 0..Buffers :
                         Live(i) /\ Extent(h) \subseteq Region(Base(i), heap.size[i])
  BY DEF ViewsInBounds, Handles, Vacant
<1>1. FieldsOK(hs[h])
  BY DEF ViewsInv, Sound, PlaceOK
<1>2. hs[h].kind # "Bytes" => hs[h].len <= hs[h].cap
  BY <1>1 DEF FieldsOK
<1>3. PICK p, n : p = hs[h].ptr /\ n = Size(hs[h])
  OBVIOUS
<1>4. p \in Nat /\ n \in Nat /\ Extent(h) = p .. (p + n - 1)
  BY <1>1, <1>3 DEF FieldsOK, HandleRecord, Size, Extent, Region
<1>5. ASSUME Extent(h) # {}
      PROVE  \E i \in 0..Buffers :
               Live(i) /\ Extent(h) \subseteq Region(Base(i), heap.size[i])
  <2>1. n # 0
    BY <1>4, <1>5
  <2>2. PICK i \in 0..Buffers : LiesIn(hs[h], heap, i)
    BY <1>3, <2>1, ViewLies DEF ViewsInv
  <2>3. PICK a, c : a = Base(i) /\ c = heap.size[i]
    OBVIOUS
  <2>4. a \in Nat /\ c \in Nat /\ a <= p /\ p + n <= a + c
    BY <1>3, <2>2, <2>3, BoundsAssumption DEF LiesIn
  <2>5. c > 0 /\ (p .. (p + n - 1)) \subseteq (a .. (a + c - 1))
    BY <1>4, <2>1, <2>4
  <2> QED BY <1>4, <2>3, <2>5 DEF Live, Region
<1> QED BY <1>2, <1>5

(* What a BytesMut may write is reached by it alone.                       *)
LEMMA Exclusive == ViewsInv => WritableIsExclusive
<1> SUFFICES ASSUME ViewsInv, NEW h \in Handle, NEW g \in Handle, hs[h] # None, hs[g] # None,
                    h # g, hs[h].kind = "BytesMut"
             PROVE  Extent(h) \cap Extent(g) = {}
  BY DEF WritableIsExclusive, Handles, Vacant
<1>1. PICK r, s : r = hs[h] /\ s = hs[g]
  OBVIOUS
<1>2. FieldsOK(r) /\ FieldsOK(s) /\ r.kind = "BytesMut"
  BY <1>1 DEF ViewsInv, Sound, PlaceOK
<1>3. Apart(r, s)
  <2>1. CASE Size(r) = 0 \/ Size(s) = 0
    BY <2>1 DEF Apart
  <2>2. CASE Size(r) # 0 /\ Size(s) # 0
    <3>1. PICK i \in 0..Buffers, j \in 0..Buffers : LiesIn(r, heap, i) /\ LiesIn(s, heap, j)
      BY <1>1, <2>2, ViewLies DEF ViewsInv
    <3>2. CASE i # j
      BY <1>2, <3>1, <3>2, AllocationsApart
    <3>3. CASE i = j
      <4>1. i # 0 /\ i \in 1..Buffers
        <5>1. ~ Idle(r)
          BY <1>2, Sorts DEF Idle
        <5> QED BY <3>1, <5>1 DEF LiesIn
      <4>2. \/ HandleOwns(r, i)
            \/ Promoted(r) /\ BlockOwns(heap.blk[r.data.n], i)
        BY <3>1, <4>1 DEF LiesIn
      <4>3. \/ HandleOwns(s, i)
            \/ Promoted(s) /\ BlockOwns(heap.blk[s.data.n], i)
        BY <3>1, <3>3, <4>1 DEF LiesIn
      <4>4. /\ Promoted(r) => r.data.n \in Block /\ In(r, r.data.n)
            /\ Promoted(s) => s.data.n \in Block /\ In(s, s.data.n)
        BY <1>1, <1>2, Sorts DEF ViewsInv, Sound, PlaceOK
      <4>5. Promoted(r) /\ Promoted(s) /\ r.data.n = s.data.n
        BY <1>1, <4>1, <4>2, <4>3, <4>4 DEF ViewsInv, Sound, OneOwner
      <4> QED BY <1>1, <1>2, <4>4, <4>5 DEF ViewsInv, Sound, Divided
    <3> QED BY <3>2, <3>3
  <2> QED BY <2>1, <2>2
<1>4. Extent(h) = Region(r.ptr, Size(r)) /\ Extent(g) = Region(s.ptr, Size(s))
  BY <1>1 DEF Extent, Size
<1> QED BY <1>2, <1>3, <1>4, ApartDisjoint

(* What is_unique reads is the number of handles.                          *)
LEMMA Counts == ViewsInv => BlocksCount
<1> SUFFICES ASSUME ViewsInv, NEW b \in Block, NEW n,
                    n = Cardinality({h \in Handles : hs[h].data = InBlock(b)})
             PROVE  IF heap.blk[b] = None THEN n = 0 ELSE n = heap.blk[b].ref /\ n > 0
  BY DEF BlocksCount
<1>1. {h \in Handles : hs[h].data = InBlock(b)} = Sharers(hs, b)
  BY DEF Handles, Vacant, Sharers, In
<1>2. n = Cardinality(Sharers(hs, b)) /\ n \in Nat
  BY <1>1, SharersFinite
<1>3. CASE heap.blk[b] = None
  <2>1. Sharers(hs, b) = {}
    BY <1>3, FreeHasNone DEF ViewsInv, Sharers
  <2> QED BY <1>2, <1>3, <2>1, FS_EmptySet
<1>4. CASE heap.blk[b] # None
  <2>1. heap.blk[b].ref = n /\ heap.blk[b].ref # 0
    BY <1>2, <1>4 DEF ViewsInv, Sound, Counted, HeapOK
  <2>2. n > 0
    BY <1>2, <2>1
  <2> QED BY <1>4, <2>1, <2>2
<1> QED BY <1>3, <1>4

(* The owners and what they claim, one by one.                             *)
LEMMA Claims ==
    ASSUME ViewsInv
    PROVE  /\ \A h \in Handle : <<"handle", h>> \in Owners <=> Direct(hs[h])
           /\ \A b \in Block : <<"block", b>> \in Owners <=> heap.blk[b] # None
           /\ \A o \in Owners : \/ \E h \in Handle : o = <<"handle", h>>
                                \/ \E b \in Block : o = <<"block", b>>
           /\ \A h \in Handle : Direct(hs[h]) =>
                Claim(<<"handle", h>>) = <<VecPtr(hs[h]), VecCap(hs[h])>>
           /\ \A b \in Block : Claim(<<"block", b>>) = <<heap.blk[b].ptr, heap.blk[b].cap>>
<1>1. \A h \in Handle : <<"handle", h>> \in Owners <=> Direct(hs[h])
  BY DEF Owners, Handles, Vacant, Direct
<1>2. \A b \in Block : <<"block", b>> \in Owners <=> heap.blk[b] # None
  BY DEF Owners, Blocks
<1>3. \A o \in Owners : \/ \E h \in Handle : o = <<"handle", h>>
                        \/ \E b \in Block : o = <<"block", b>>
  BY DEF Owners, Handles, Blocks
<1>4. ASSUME NEW h \in Handle, Direct(hs[h])
      PROVE  Claim(<<"handle", h>>) = <<VecPtr(hs[h]), VecCap(hs[h])>>
  <2>1. PICK o : o = <<"handle", h>>
    OBVIOUS
  <2>2. o[1] = "handle" /\ o[2] = h
    BY <2>1
  <2>3. CASE hs[h].kind = "Vec"
    <3>1. Claim(o) = <<hs[h].ptr, hs[h].cap>>
      BY <2>2, <2>3 DEF Claim
    <3>2. hs[h].data = Null /\ hs[h].ptr \in Nat /\ hs[h].cap \in Nat
      BY <1>4, <2>3 DEF ViewsInv, Sound, PlaceOK, FieldsOK, HandleRecord, Direct
    <3>3. VecPtr(hs[h]) = hs[h].ptr /\ VecCap(hs[h]) = hs[h].cap
      BY <2>3, <3>2 DEF VecPtr, VecCap, Null
    <3> QED BY <2>1, <3>1, <3>3
  <2>4. CASE hs[h].kind # "Vec"
    BY <2>1, <2>2, <2>4 DEF Claim
  <2> QED BY <2>3, <2>4
<1>5. ASSUME NEW b \in Block
      PROVE  Claim(<<"block", b>>) = <<heap.blk[b].ptr, heap.blk[b].cap>>
  <2>1. PICK o : o = <<"block", b>>
    OBVIOUS
  <2>2. o[1] = "block" /\ o[2] = b
    BY <2>1
  <2>3. Claim(o) = <<heap.blk[b].ptr, heap.blk[b].cap>>
    BY <2>2 DEF Claim
  <2> QED BY <2>1, <2>3
<1> QED BY <1>1, <1>2, <1>3, <1>4, <1>5

Claimants == {o \in Owners : Claim(o)[2] # 0}
Allocated == {i \in 1..Buffers : Live(i)}
OwnsByClaim(o, i) == Claim(o) = <<Base(i), heap.size[i]>>

(* Each allocation is freed once, with its own start and size: claims and  *)
(* allocations correspond one to one.                                      *)
LEMMA OneToOne ==
    ASSUME ViewsInv
    PROVE  /\ \A o \in Claimants : \E i \in Allocated : OwnsByClaim(o, i)
           /\ \A i \in Allocated : \E o \in Claimants : OwnsByClaim(o, i)
           /\ \A o, p \in Claimants : Claim(o) = Claim(p) => o = p
<1> USE DEF Claimants, Allocated
<1>1. \A i \in 1..Buffers : heap.size[i] \in Nat /\ (Live(i) <=> heap.size[i] # 0)
  <2>1. heap.size \in [0..Buffers -> 0..MaxCap] /\ \A i \in 1..Buffers : i \in 0..Buffers
    BY DEF ViewsInv, Sound, HeapOK, HeapRecord
  <2>2. \A i \in 1..Buffers : heap.size[i] \in 0..MaxCap
    BY <2>1
  <2> QED BY <2>2, BoundsAssumption DEF Live
<1>2. ASSUME NEW h \in Handle, NEW i \in 1..Buffers, HandleOwns(hs[h], i)
      PROVE  VecCap(hs[h]) = heap.size[i] /\ <<"handle", h>> \in Owners
             /\ Claim(<<"handle", h>>) = <<Base(i), heap.size[i]>>
  <2>1. Direct(hs[h]) /\ VecCap(hs[h]) # 0 /\ VecPtr(hs[h]) = Base(i)
    BY <1>2 DEF HandleOwns
  <2>2. PICK j \in 1..Buffers : VecPtr(hs[h]) = Base(j) /\ heap.size[j] = VecCap(hs[h])
    BY <2>1 DEF ViewsInv, Sound, PlaceOK, Backed, Direct
  <2>3. i = j
    <3>1. i \in Nat /\ j \in Nat
      OBVIOUS
    <3>2. Base(i) = Base(j)
      BY <2>1, <2>2
    <3> QED BY <3>1, <3>2, BaseInjective
  <2> QED BY <2>1, <2>2, <2>3, Claims
<1>3. ASSUME NEW b \in Block, NEW i \in 1..Buffers, BlockOwns(heap.blk[b], i)
      PROVE  heap.blk[b].cap = heap.size[i] /\ <<"block", b>> \in Owners
             /\ Claim(<<"block", b>>) = <<Base(i), heap.size[i]>>
  <2>1. heap.blk[b] # None /\ heap.blk[b].cap # 0 /\ heap.blk[b].ptr = Base(i)
    BY <1>3 DEF BlockOwns
  <2>2. PICK j \in 1..Buffers : heap.blk[b].ptr = Base(j) /\ heap.size[j] = heap.blk[b].cap
    BY <2>1 DEF ViewsInv, Sound, Backed
  <2>3. i = j
    <3>1. i \in Nat /\ j \in Nat
      OBVIOUS
    <3>2. Base(i) = Base(j)
      BY <2>1, <2>2
    <3> QED BY <3>1, <3>2, BaseInjective
  <2> QED BY <2>1, <2>2, <2>3, Claims
<1>4. ASSUME NEW o \in Claimants
      PROVE  \/ \E h \in Handle, i \in 1..Buffers : o = <<"handle", h>> /\ HandleOwns(hs[h], i)
             \/ \E b \in Block, i \in 1..Buffers : o = <<"block", b>> /\ BlockOwns(heap.blk[b], i)
  <2>1. o \in Owners /\ Claim(o)[2] # 0
    BY <1>4
  <2>2. ASSUME NEW h \in Handle, o = <<"handle", h>>
        PROVE  \E i \in 1..Buffers : HandleOwns(hs[h], i)
    <3>1. Direct(hs[h]) /\ Claim(o) = <<VecPtr(hs[h]), VecCap(hs[h])>>
      BY <2>1, <2>2, Claims
    <3>2. VecCap(hs[h]) # 0
      BY <2>1, <3>1
    <3> QED BY <3>1, <3>2 DEF ViewsInv, Sound, PlaceOK, Backed, Direct, HandleOwns
  <2>3. ASSUME NEW b \in Block, o = <<"block", b>>
        PROVE  \E i \in 1..Buffers : BlockOwns(heap.blk[b], i)
    <3>1. heap.blk[b] # None /\ Claim(o) = <<heap.blk[b].ptr, heap.blk[b].cap>>
      BY <2>1, <2>3, Claims
    <3>2. heap.blk[b].cap # 0
      BY <2>1, <3>1
    <3> QED BY <3>1, <3>2 DEF ViewsInv, Sound, Backed, BlockOwns
  <2> QED BY <2>1, <2>2, <2>3, Claims
<1>5. ASSUME NEW o \in Claimants PROVE \E i \in Allocated : OwnsByClaim(o, i)
  <2>1. \E i \in 1..Buffers : OwnsByClaim(o, i)
    BY <1>2, <1>3, <1>4 DEF OwnsByClaim
  <2>2. PICK i \in 1..Buffers : OwnsByClaim(o, i)
    BY <2>1
  <2>3. heap.size[i] # 0
    BY <2>2 DEF OwnsByClaim
  <2> QED BY <1>1, <2>2, <2>3
<1>6. ASSUME NEW i \in Allocated PROVE \E o \in Claimants : OwnsByClaim(o, i)
  <2>1. i \in 1..Buffers /\ heap.size[i] # 0
    BY <1>1
  <2>2. \/ \E h \in Handle : HandleOwns(hs[h], i)
        \/ \E b \in Block : BlockOwns(heap.blk[b], i)
    BY <2>1 DEF ViewsInv, Sound, NoLeak
  <2>3. \E o \in Owners : OwnsByClaim(o, i)
    BY <1>2, <1>3, <2>1, <2>2 DEF OwnsByClaim
  <2>4. \A o \in Owners : OwnsByClaim(o, i) => Claim(o)[2] # 0
    BY <2>1 DEF OwnsByClaim
  <2> QED BY <2>3, <2>4
<1>7. ASSUME NEW o \in Claimants, NEW p \in Claimants, Claim(o) = Claim(p) PROVE o = p
  <2>1. \A i, j \in 1..Buffers : OwnsByClaim(o, i) /\ OwnsByClaim(p, j) => i = j
    <3> SUFFICES ASSUME NEW i \in 1..Buffers, NEW j \in 1..Buffers,
                        OwnsByClaim(o, i), OwnsByClaim(p, j)
                 PROVE  i = j
      OBVIOUS
    <3>1. Base(i) = Base(j)
      BY <1>7 DEF OwnsByClaim
    <3> QED BY <3>1, BaseInjective
  <2>2. CASE \E h \in Handle, i \in 1..Buffers : o = <<"handle", h>> /\ HandleOwns(hs[h], i)
    <3>1. PICK h \in Handle, i \in 1..Buffers : o = <<"handle", h>> /\ HandleOwns(hs[h], i)
      BY <2>2
    <3>2. OwnsByClaim(o, i)
      BY <1>2, <3>1 DEF OwnsByClaim
    <3>3. \A g \in Handle, j \in 1..Buffers : p = <<"handle", g>> /\ HandleOwns(hs[g], j) => j = i
      BY <1>2, <2>1, <3>2 DEF OwnsByClaim
    <3>4. \A b \in Block, j \in 1..Buffers : p = <<"block", b>> /\ BlockOwns(heap.blk[b], j) => j = i
      BY <1>3, <2>1, <3>2 DEF OwnsByClaim
    <3> QED BY <1>4, <3>1, <3>3, <3>4 DEF ViewsInv, Sound, OneOwner
  <2>3. CASE \E b \in Block, i \in 1..Buffers : o = <<"block", b>> /\ BlockOwns(heap.blk[b], i)
    <3>1. PICK c \in Block, i \in 1..Buffers : o = <<"block", c>> /\ BlockOwns(heap.blk[c], i)
      BY <2>3
    <3>2. OwnsByClaim(o, i)
      BY <1>3, <3>1 DEF OwnsByClaim
    <3>3. \A g \in Handle, j \in 1..Buffers : p = <<"handle", g>> /\ HandleOwns(hs[g], j) => j = i
      BY <1>2, <2>1, <3>2 DEF OwnsByClaim
    <3>4. \A b \in Block, j \in 1..Buffers : p = <<"block", b>> /\ BlockOwns(heap.blk[b], j) => j = i
      BY <1>3, <2>1, <3>2 DEF OwnsByClaim
    <3> QED BY <1>4, <3>1, <3>3, <3>4 DEF ViewsInv, Sound, OneOwner
  <2> QED BY <1>4, <2>2, <2>3
<1> QED BY <1>5, <1>6, <1>7

(* Vec::from_raw_parts in build_unpromoted_vec, original_buffer and        *)
(* release gets the parts of one allocation, which nobody else frees.      *)
LEMMA Owned == ViewsInv => OwnedOnce
<1> SUFFICES ASSUME ViewsInv
             PROVE  /\ \A o \in Claimants : \E i \in Allocated : Claim(o) = <<Base(i), heap.size[i]>>
                    /\ \A o, p \in Claimants : Claim(o) = Claim(p) => o = p
                    /\ Cardinality(Claimants) = Cardinality(Allocated)
  BY DEF OwnedOnce, Claimants, Allocated
<1>1. /\ \A o \in Claimants : \E i \in Allocated : OwnsByClaim(o, i)
      /\ \A i \in Allocated : \E o \in Claimants : OwnsByClaim(o, i)
      /\ \A o, p \in Claimants : Claim(o) = Claim(p) => o = p
  BY OneToOne
<1>2. IsFiniteSet(Allocated)
  <2>1. 1 \in Int /\ Buffers \in Int
    BY BoundsAssumption
  <2>2. IsFiniteSet(1..Buffers)
    BY <2>1, FS_Interval
  <2>3. Allocated \subseteq 1..Buffers
    BY DEF Allocated
  <2> QED BY <2>2, <2>3, FS_Subset
<1>3. ExistsBijection(Allocated, Claimants)
  <2>1. PICK f : f = [i \in Allocated |-> CHOOSE o \in Claimants : OwnsByClaim(o, i)]
    OBVIOUS
  <2>2. f \in [Allocated -> Claimants] /\ \A i \in Allocated : OwnsByClaim(f[i], i)
    BY <1>1, <2>1
  <2>3. \A i, j \in Allocated : f[i] = f[j] => i = j
    <3> SUFFICES ASSUME NEW i \in Allocated, NEW j \in Allocated, f[i] = f[j] PROVE i = j
      OBVIOUS
    <3>1. i \in Nat /\ j \in Nat
      BY DEF Allocated
    <3>2. Base(i) = Base(j)
      BY <2>2 DEF OwnsByClaim
    <3> QED BY <3>1, <3>2, BaseInjective
  <2>4. \A o \in Claimants : \E i \in Allocated : f[i] = o
    BY <1>1, <2>2 DEF OwnsByClaim
  <2>5. f \in Injection(Allocated, Claimants) /\ f \in Surjection(Allocated, Claimants)
    BY <2>2, <2>3, <2>4 DEF Injection, IsInjective, Surjection
  <2> QED BY <2>5 DEF ExistsBijection, Bijection
<1>4. Cardinality(Claimants) = Cardinality(Allocated)
  BY <1>2, <1>3, FS_Bijection
<1> QED BY <1>1, <1>4 DEF OwnsByClaim

(* extend_from_slice and put write without looking again.                  *)
LEMMA Reserves == ViewsInv => ReserveReserves
<1> SUFFICES ASSUME ViewsInv, NEW h \in Handle, Is(h, "BytesMut"), NEW n \in Nat,
                    CanReserve(hs[h], n)
             PROVE  Spare(Reserved(hs[h], n).r) >= n
  BY BoundsAssumption DEF ReserveReserves, Muts, Handles, Vacant, Is, Length
<1> QED BY ReservedSound

(* try_reclaim_full asks for the room that is left in the allocation, and  *)
(* has it only when the handle spans the allocation from end to end.       *)
LEMMA FullySpans ==
    ASSUME ViewsInv, NEW h \in Handle, Is(h, "BytesMut"), NEW o, o = FullyReclaimed(hs[h]), o.ok
    PROVE  o.r.ptr = OwnPtr(hs[h]) /\ o.r.cap = OwnCap(hs[h])
<1>1. PICK r, p, c, n, w : /\ r = hs[h] /\ p = OwnPtr(r) /\ c = OwnCap(r)
                           /\ n = Leftover(r) /\ w = WithTail(r)
  OBVIOUS
<1>2. /\ r # None /\ r.kind = "BytesMut" /\ FieldsOK(r) /\ ~ Idle(r) /\ n \in Nat
      /\ r.cap \in Nat /\ r.len \in Nat /\ r.len <= r.cap /\ r.data.n \in Nat /\ Size(r) = r.cap
  BY <1>1, LeftoverNat DEF Is, Idle, ViewsInv, Sound, PlaceOK, FieldsOK, HandleRecord, Size
<1>3. /\ p \in Nat /\ c \in Nat /\ r.ptr \in Nat /\ p <= r.ptr /\ r.ptr + r.cap <= p + c
      /\ Unpromoted(r) => r.ptr + r.cap = p + c
  BY <1>1, <1>2, OwnFields
<1>4. n = c - r.len
  <2>1. CASE Unpromoted(r)
    <3>1. p = r.ptr - r.data.n /\ n = r.data.n + (r.cap - r.len)
      BY <1>1, <2>1 DEF OwnPtr, VecPtr, Leftover, Spare
    <3> QED BY <1>2, <1>3, <2>1, <3>1
  <2>2. CASE ~ Unpromoted(r)
    BY <1>1, <2>2 DEF Leftover, OwnCap
  <2> QED BY <2>1, <2>2
<1>5. o = ReserveInner(r, n, FALSE) /\ o.ok
  BY <1>1 DEF FullyReclaimed
<1>6. CASE n = 0
  <2>1. o.r = r
    BY <1>5, <1>6 DEF ReserveInner, Outcome
  <2>2. r.ptr = p /\ r.cap = c
    BY <1>2, <1>3, <1>4, <1>6
  <2> QED BY <1>1, <2>1, <2>2
<1>7. CASE n # 0 /\ TailSuffices(r, n)
  <2>1. /\ FieldsOK(w) /\ w.cap \in Nat /\ w.ptr = r.ptr /\ r.cap <= w.cap
        /\ IsUnique(heap, r) => w.ptr + w.cap = p + c
    BY <1>1, WithTailSound DEF FieldsOK, HandleRecord
  <2>2. w.cap - r.cap >= n /\ n > 0
    BY <1>1, <1>2, <1>7 DEF TailSuffices
  <2>3. Promoted(r) /\ IsUnique(heap, r)
    <3>1. w # r
      BY <1>2, <2>2
    <3> QED BY <1>1, <3>1 DEF WithTail
  <2>4. o = Outcome(w, heap, mem, TRUE)
    BY <1>1, <1>5, <1>7, <2>2, <2>3 DEF ReserveInner
  <2>5. o.r = w
    BY <2>4 DEF Outcome
  <2>6. w.ptr = p /\ w.cap = c
    BY <1>2, <1>3, <1>4, <2>1, <2>2, <2>3
  <2> QED BY <1>1, <2>5, <2>6
<1>8. CASE n # 0 /\ ~ TailSuffices(r, n) /\ HeadSuffices(r, n)
  <2>1. PICK x, M : x = MovedDown(w) /\ M = CopyDisjoint(mem, r.ptr, p, r.len)
    OBVIOUS
  <2>2. o = Outcome(x, heap, M, TRUE)
    BY <1>1, <1>2, <1>5, <1>8, <2>1, ReserveCases, Zenon
  <2>3. o.r = x
    BY <2>2 DEF Outcome
  <2>4. IsUnique(heap, r)
    BY <1>8 DEF HeadSuffices
  <2>5. x.ptr = p /\ x.cap = c
    BY <1>1, <2>1, <2>4, MovedDownSound
  <2> QED BY <1>1, <2>3, <2>5
<1>9. CASE n # 0 /\ ~ TailSuffices(r, n) /\ ~ HeadSuffices(r, n)
  <2>1. o = Outcome(w, heap, mem, FALSE)
    BY <1>1, <1>2, <1>5, <1>9, ReserveCases, Zenon
  <2>2. o.ok = FALSE
    BY <2>1 DEF Outcome
  <2> QED BY <1>5, <2>2
<1> QED BY <1>6, <1>7, <1>8, <1>9

(* Neither try_reclaim nor try_reclaim_full says yes without the room.     *)
LEMMA Honest == ViewsInv => ReclaimIsHonest
<1> SUFFICES ASSUME ViewsInv, NEW h \in Handle, Is(h, "BytesMut")
             PROVE  /\ \A n \in Length :
                         Reclaimed(hs[h], n).ok => Spare(Reclaimed(hs[h], n).r) >= n
                    /\ FullyReclaimed(hs[h]).ok =>
                         /\ FullyReclaimed(hs[h]).r.ptr = OwnPtr(hs[h])
                         /\ FullyReclaimed(hs[h]).r.cap = OwnCap(hs[h])
  BY DEF ReclaimIsHonest, Muts, Handles, Vacant, Is
<1>1. \A n \in Length : n \in Nat
  BY BoundsAssumption DEF Length
<1>2. \A n \in Length : Reclaimed(hs[h], n).ok => Spare(Reclaimed(hs[h], n).r) >= n
  BY <1>1, ReclaimedSound
<1> QED BY <1>2, FullySpans

-----------------------------------------------------------------------------
(* The properties, in every state and for every value of the constants     *)
(* with room between the allocations.                                      *)

(* as_slice, as_mut_slice and spare_capacity_mut build slices from raw     *)
(* parts that lie in a live allocation.                                    *)
THEOREM ViewsStayInBounds ==
    ASSUME Gap # 0
    PROVE  Spec => []ViewsInBounds
BY ViewsInvariance, InBounds, PTL

(* split_off, split_to, unsplit and reserve divide an allocation among     *)
(* handles without a lock, and nobody reaches what a BytesMut may write.   *)
THEOREM WritesAreExclusive ==
    ASSUME Gap # 0
    PROVE  Spec => []WritableIsExclusive
BY ViewsInvariance, Exclusive, PTL

(* Every allocation is freed by one owner, with its own start and size, in *)
(* build_unpromoted_vec, original_buffer or release.                       *)
THEOREM EachAllocationHasOneOwner ==
    ASSUME Gap # 0
    PROVE  Spec => []OwnedOnce
BY ViewsInvariance, Owned, PTL

(* The count that is_unique and release read is the number of handles.     *)
THEOREM CountsAreRight ==
    ASSUME Gap # 0
    PROVE  Spec => []BlocksCount
BY ViewsInvariance, Counts, PTL

(* reserve returns with the room that extend_from_slice and put then fill  *)
(* without looking.                                                        *)
THEOREM ReserveMakesRoom ==
    ASSUME Gap # 0
    PROVE  Spec => []ReserveReserves
BY ViewsInvariance, Reserves, PTL

(* try_reclaim and try_reclaim_full never say yes without the room.        *)
THEOREM ReclaimAnswersHonestly ==
    ASSUME Gap # 0
    PROVE  Spec => []ReclaimIsHonest
BY ViewsInvariance, Honest, PTL
=============================================================================
