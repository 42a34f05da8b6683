-------------------------- MODULE ByteVectors_proofs -------------------------
(***************************************************************************)
(* Proof that BytesViews implements ByteVectors: whatever a method does to *)
(* the memory that views share, each handle shows an independent vector.   *)
(*                                                                         *)
(* A method writes within what the handle it leaves may write, which by    *)
(* the invariant of BytesViews_proofs no other handle shows.  So the other *)
(* vectors stay as they are, and what is left to prove of a method is what *)
(* becomes of the bytes of the handles it was given.                       *)
(***************************************************************************)
EXTENDS BytesViews_proofs, SequenceTheorems

-----------------------------------------------------------------------------
(* The bytes of a handle, for any fields and any memory.                   *)

Cont(r, M) == [i \in 1..r.len |-> Read(M, r.ptr + i - 1)]
Look(r, M) == IF r = None THEN None ELSE Cont(r, M)

(* What the handles show in memory that need not be the current one.       *)
LEMMA ShownLooks ==
    /\ Shown = [h \in Handle |-> Look(hs[h], mem)]
    /\ Shown' = [h \in Handle |-> Look(hs'[h], mem')]
BY DEF Shown, Look, Cont, Bytes, Vacant

(* A view that begins as another does, and is no longer, shows the first   *)
(* bytes of it.                                                            *)
LEMMA PrefixCont ==
    ASSUME NEW r, NEW s, NEW M, r.len \in Nat, s.len \in Nat, s.len <= r.len,
           s.len = 0 \/ s.ptr = r.ptr
    PROVE  /\ Cont(s, M) = Vectors!Prefix(Cont(r, M), s.len)
           /\ Len(Cont(r, M)) = r.len
BY DEF Cont, Vectors!Prefix

(* A view that ends as another does shows the last bytes of it.            *)
LEMMA SuffixCont ==
    ASSUME NEW r, NEW s, NEW M, NEW n \in Nat, r.len \in Nat, n <= r.len, r.ptr \in Int, s.len = r.len - n,
           s.len = 0 \/ s.ptr = r.ptr + n
    PROVE  Cont(s, M) = Vectors!Suffix(Cont(r, M), n)
BY DEF Cont, Vectors!Suffix

(* Two runs of bytes, one after the other.                                 *)
LEMMA Joined ==
    ASSUME NEW S, NEW a \in Nat, NEW b \in Nat, NEW u \in [1..a -> S], NEW v \in [1..b -> S],
           NEW w \in [1..(a + b) -> S],
           \A i \in 1..a : w[i] = u[i],
           \A i \in 1..b : w[a + i] = v[i]
    PROVE  w = u \o v
<1>1. u \in Seq(S) /\ Len(u) = a /\ v \in Seq(S) /\ Len(v) = b
  OBVIOUS
<1>2. PICK c : c = u \o v
  OBVIOUS
<1>3. /\ c \in Seq(S) /\ Len(c) = a + b
      /\ \A i \in 1..(a + b) : c[i] = IF i <= a THEN u[i] ELSE v[i - a]
  <2>1. /\ u \o v \in Seq(S) /\ Len(u \o v) = Len(u) + Len(v)
        /\ \A i \in 1..(Len(u) + Len(v)) :
             (u \o v)[i] = IF i <= Len(u) THEN u[i] ELSE v[i - Len(u)]
    BY <1>1, ConcatProperties
  <2> QED BY <1>1, <1>2, <2>1
<1>4. \A i \in 1..(a + b) : c[i] = w[i]
  <2> SUFFICES ASSUME NEW i \in 1..(a + b) PROVE c[i] = w[i]
    OBVIOUS
  <2>1. CASE i <= a
    BY <1>3, <2>1
  <2>2. CASE i > a
    <3>1. PICK j : j = i - a
      OBVIOUS
    <3>2. j \in 1..b /\ i = a + j
      BY <2>2, <3>1
    <3>3. c[i] = v[j]
      BY <1>3, <2>2, <3>1
    <3> QED BY <3>2, <3>3
  <2> QED BY <2>1, <2>2
<1>5. c \in [1..(a + b) -> S]
  BY <1>3
<1>6. c = w
  BY <1>4, <1>5
<1> QED BY <1>2, <1>6

(* Two views side by side show, as one, the bytes of both.                 *)
LEMMA AppendCont ==
    ASSUME NEW r, NEW s, NEW x, NEW M, r.len \in Nat, s.len \in Nat, r.ptr \in Int, s.ptr \in Int,
           x.len = r.len + s.len, x.ptr = r.ptr,
           s.ptr = r.ptr + r.len
    PROVE  Cont(x, M) = Cont(r, M) \o Cont(s, M)
<1>1. PICK p, a, b, u, v, w : /\ p = r.ptr /\ a = r.len /\ b = s.len
                              /\ u = Cont(r, M) /\ v = Cont(s, M) /\ w = Cont(x, M)
  OBVIOUS
<1>2. /\ p \in Int /\ a \in Nat /\ b \in Nat
      /\ u = [i \in 1..a |-> Read(M, p + i - 1)]
      /\ v = [i \in 1..b |-> Read(M, p + a + i - 1)]
      /\ w = [i \in 1..(a + b) |-> Read(M, p + i - 1)]
  BY <1>1 DEF Cont
<1>3. PICK S : S = {Read(M, q) : q \in Int}
  OBVIOUS
<1>4. u \in [1..a -> S] /\ v \in [1..b -> S] /\ w \in [1..(a + b) -> S]
  BY <1>2, <1>3
<1>5. \A i \in 1..a : w[i] = u[i]
  BY <1>2
<1>6. \A i \in 1..b : w[a + i] = v[i]
  <2> SUFFICES ASSUME NEW i \in 1..b PROVE w[a + i] = v[i]
    OBVIOUS
  <2>1. a + i \in 1..(a + b) /\ p + (a + i) - 1 = p + a + i - 1
    BY <1>2
  <2> QED BY <1>2, <2>1
<1>7. w = u \o v
  BY <1>2, <1>4, <1>5, <1>6, Joined
<1> QED BY <1>1, <1>7

-----------------------------------------------------------------------------
(* Where the bytes of a handle are.                                        *)

(* The handle may write to what it reaches.                                *)
Writer(r) == r # None /\ (Direct(r) \/ r.kind = "BytesMut")

(* No vector is longer than an allocation.                                 *)
LEMMA LengthBound ==
    ASSUME NEW HS, NEW H, Sound(HS, H), NEW h \in Handle, HS[h] # None
    PROVE  /\ FieldsOK(HS[h]) /\ HS[h].ptr \in Nat /\ HS[h].len \in 0..MaxCap
           /\ Size(HS[h]) \in Nat /\ HS[h].len <= Size(HS[h])
<1>1. PICK r : r = HS[h]
  OBVIOUS
<1>2. FieldsOK(r)
  BY <1>1 DEF Sound, PlaceOK
<1>3. r.ptr \in Nat /\ r.len \in Nat /\ Size(r) \in Nat /\ r.len <= Size(r)
  BY <1>2 DEF FieldsOK, HandleRecord, Size
<1>4. r.len <= MaxCap
  <2>1. CASE Size(r) = 0
    BY <1>3, <2>1, BoundsAssumption
  <2>2. CASE Size(r) # 0
    <3>1. PICK i \in 0..Buffers : LiesIn(r, H, i)
      BY <1>1, <2>2, ViewLies
    <3>2. PICK c, d : c = H.size[i] /\ d = Base(i)
      OBVIOUS
    <3>3. c \in 0..MaxCap /\ d \in Nat /\ d <= r.ptr /\ r.ptr + Size(r) <= d + c
      BY <3>1, <3>2 DEF LiesIn
    <3> QED BY <1>3, <3>3, BoundsAssumption
  <2> QED BY <2>1, <2>2
<1> QED BY <1>1, <1>2, <1>3, <1>4, BoundsAssumption

(* What a handle reaches is memory.                                        *)
LEMMA ReachesMemory ==
    ASSUME NEW HS, NEW H, Sound(HS, H), NEW h \in Handle, HS[h] # None
    PROVE  Region(HS[h].ptr, Size(HS[h])) \subseteq Address
<1>1. PICK r : r = HS[h]
  OBVIOUS
<1>2. r.ptr \in Nat /\ Size(r) \in Nat
  BY <1>1, LengthBound
<1>3. CASE Size(r) = 0
  BY <1>1, <1>2, <1>3 DEF Region
<1>4. CASE Size(r) # 0
  <2>1. PICK i \in 0..Buffers : LiesIn(r, H, i)
    BY <1>1, <1>4, ViewLies
  <2>2. PICK c, d, e : c = H.size[i] /\ d = Base(i) /\ e = Base(Buffers + 1)
    OBVIOUS
  <2>3. c \in 0..MaxCap /\ d \in Nat /\ d <= r.ptr /\ r.ptr + Size(r) <= d + c
    BY <2>1, <2>2 DEF LiesIn
  <2>4. e \in Nat /\ d + MaxCap + Gap <= e
    <3>1. i \in Nat /\ Buffers + 1 \in Nat /\ i < Buffers + 1
      BY BoundsAssumption
    <3> QED BY <2>2, <3>1, BaseOrder
  <2>5. Address = 0 .. (e - 1)
    BY <2>2, <2>4 DEF Address, Region, Base
  <2>6. r.ptr + Size(r) <= e
    BY <1>2, <2>3, <2>4, BoundsAssumption
  <2> QED BY <1>1, <1>2, <2>4, <2>5, <2>6 DEF Region
<1> QED BY <1>3, <1>4

(* Nobody else sees what a handle may write, and it is not static data.    *)
LEMMA WriterAlone ==
    ASSUME NEW HS, NEW H, Sound(HS, H), NEW h \in Handle, Writer(HS[h])
    PROVE  /\ \A g \in Handle : g # h /\ HS[g] # None => Apart(HS[h], HS[g])
           /\ Size(HS[h]) = 0 \/ HS[h].ptr >= StaticLen
<1>1. PICK r : r = HS[h]
  OBVIOUS
<1>2. FieldsOK(r) /\ r # None /\ ~ Idle(r) /\ r.ptr \in Nat /\ Size(r) \in Nat
  <2>1. r # None /\ FieldsOK(r) /\ r.ptr \in Nat /\ Size(r) \in Nat
    BY <1>1, LengthBound DEF Writer
  <2> QED BY <1>1, <2>1, Sorts DEF Writer, Idle
<1>3. ASSUME NEW g \in Handle, g # h, HS[g] # None PROVE Apart(r, HS[g])
  <2>1. PICK s : s = HS[g]
    OBVIOUS
  <2>2. FieldsOK(s)
    BY <1>3, <2>1, LengthBound
  <2>3. CASE Size(r) = 0 \/ Size(s) = 0
    BY <2>1, <2>3 DEF Apart
  <2>4. CASE Size(r) # 0 /\ Size(s) # 0
    <3>1. PICK i \in 0..Buffers, j \in 0..Buffers : LiesIn(r, H, i) /\ LiesIn(s, H, j)
      BY <1>1, <1>2, <1>3, <2>1, <2>4, ViewLies
    <3>2. CASE i # j
      BY <1>2, <2>1, <2>2, <3>1, <3>2, AllocationsApart
    <3>3. CASE i = j
      <4>1. i # 0 /\ i \in 1..Buffers
        BY <1>2, <3>1 DEF LiesIn
      <4>2. \/ HandleOwns(r, i)
            \/ Promoted(r) /\ BlockOwns(H.blk[r.data.n], i)
        BY <3>1, <4>1 DEF LiesIn
      <4>3. \/ HandleOwns(s, i)
            \/ Promoted(s) /\ BlockOwns(H.blk[s.data.n], i)
        BY <3>1, <3>3, <4>1 DEF LiesIn
      <4>4. /\ Promoted(r) => r.data.n \in Block /\ In(r, r.data.n)
            /\ Promoted(s) => s.data.n \in Block /\ In(s, s.data.n)
        BY <1>1, <1>2, <1>3, <2>1, <2>2, Sorts DEF Sound, PlaceOK
      <4>5. Promoted(r) /\ Promoted(s) /\ r.data.n = s.data.n
        BY <1>1, <1>3, <2>1, <4>1, <4>2, <4>3, <4>4 DEF Sound, OneOwner
      <4>6. r.kind = "BytesMut"
        BY <1>1, <1>2, <4>5, Sorts DEF Writer
      <4> QED BY <1>1, <1>3, <2>1, <4>4, <4>5, <4>6 DEF Sound, Divided
    <3> QED BY <3>2, <3>3
  <2> QED BY <2>3, <2>4
<1>4. ASSUME Size(r) # 0 PROVE r.ptr >= StaticLen
  <2>1. PICK i \in 0..Buffers : LiesIn(r, H, i)
    BY <1>1, <1>2, <1>4, ViewLies
  <2>2. i # 0 /\ Base(i) <= r.ptr /\ Base(i) \in Nat
    BY <1>2, <2>1 DEF LiesIn
  <2>3. Base(0) = 0 /\ 0 < i /\ 0 \in Nat /\ i \in Nat
    BY <2>2, BoundsAssumption DEF Base
  <2>4. MaxCap + Gap <= Base(i)
    BY <2>3, BaseOrder, BoundsAssumption
  <2> QED BY <1>2, <2>2, <2>4, BoundsAssumption
<1> QED BY <1>1, <1>2, <1>3, <1>4

-----------------------------------------------------------------------------
(* What a method leaves of the memory.                                     *)

(* N is M, except perhaps where the handle may write.                      *)
Confined(r, M, N) ==
    /\ DOMAIN M = Address /\ DOMAIN N = Address
    /\ \A a \in Address : N[a] = M[a] \/ (Writer(r) /\ a \in Region(r.ptr, Size(r)))

StaticOK(M) == \A a \in Region(0, StaticLen) : a \in DOMAIN M /\ M[a] \in {Plain, Mark}

(* The bytes that other handles show stay as they are, and so do the       *)
(* static data.                                                            *)
LEMMA OthersKeep ==
    ASSUME NEW HS, NEW H, Sound(HS, H), NEW h \in Handle, NEW M, NEW N, Confined(HS[h], M, N)
    PROVE  /\ \A g \in Handle : g # h /\ HS[g] # None => Cont(HS[g], N) = Cont(HS[g], M)
           /\ StaticOK(M) => StaticOK(N)
<1>1. PICK r : r = HS[h]
  OBVIOUS
<1>2. ASSUME NEW g \in Handle, g # h, HS[g] # None
      PROVE  Cont(HS[g], N) = Cont(HS[g], M)
  <2>1. PICK s : s = HS[g]
    OBVIOUS
  <2>2. s.ptr \in Nat /\ s.len \in Nat /\ s.len <= Size(s) /\ FieldsOK(s)
    BY <1>2, <2>1, LengthBound, BoundsAssumption
  <2>3. ASSUME NEW i \in 1..s.len PROVE Read(N, s.ptr + i - 1) = Read(M, s.ptr + i - 1)
    <3>1. PICK a : a = s.ptr + i - 1
      OBVIOUS
    <3>2. a \in Region(s.ptr, Size(s))
      <4>1. s.ptr <= a /\ a <= s.ptr + Size(s) - 1 /\ a \in Int /\ Size(s) \in Nat
        BY <1>2, <2>1, <2>2, <3>1, LengthBound
      <4> QED BY <2>2, <4>1 DEF Region
    <3>3. ~ (Writer(r) /\ a \in Region(r.ptr, Size(r)))
      <4> SUFFICES ASSUME Writer(r), a \in Region(r.ptr, Size(r)) PROVE FALSE
        OBVIOUS
      <4>1. Apart(r, s) /\ FieldsOK(r)
        BY <1>1, <1>2, <2>1, WriterAlone, LengthBound DEF Writer
      <4> QED BY <2>2, <3>2, <4>1, ApartDisjoint
    <3> QED BY <1>1, <3>1, <3>3 DEF Confined, Read
  <2> QED BY <2>1, <2>3 DEF Cont
<1>3. ASSUME StaticOK(M) PROVE StaticOK(N)
  <2>1. ASSUME NEW a \in Region(0, StaticLen) PROVE a \in DOMAIN N /\ N[a] \in {Plain, Mark}
    <3>1. a \in DOMAIN M /\ M[a] \in {Plain, Mark} /\ a \in Int /\ a < StaticLen
      BY <1>3, BoundsAssumption DEF StaticOK, Region
    <3>2. ~ (Writer(r) /\ a \in Region(r.ptr, Size(r)))
      <4> SUFFICES ASSUME Writer(r), a \in Region(r.ptr, Size(r)) PROVE FALSE
        OBVIOUS
      <4>1. Size(r) = 0 \/ r.ptr >= StaticLen
        BY <1>1, WriterAlone
      <4>2. r.ptr \in Nat /\ Size(r) \in Nat
        BY <1>1, LengthBound DEF Writer
      <4> QED BY <3>1, <4>1, <4>2, BoundsAssumption DEF Region
    <3> QED BY <1>1, <3>1, <3>2 DEF Confined
  <2> QED BY <2>1 DEF StaticOK
<1> QED BY <1>2, <1>3

(* Forgetting the bytes that nobody shows changes nobody's.                *)
LEMMA StoreKeeps ==
    ASSUME NEW M, Store(M), DOMAIN M = Address
    PROVE  /\ DOMAIN mem' = Address
           /\ \A h \in Handle : hs'[h] # None /\ hs'[h].ptr \in Nat /\ hs'[h].len \in Nat =>
                Cont(hs'[h], mem') = Cont(hs'[h], M)
           /\ StaticOK(M) => StaticOK(mem')
<1>1. DOMAIN mem' = Address
  BY DEF Store
<1>2. ASSUME NEW h \in Handle, hs'[h] # None, hs'[h].ptr \in Nat, hs'[h].len \in Nat
      PROVE  Cont(hs'[h], mem') = Cont(hs'[h], M)
  <2>1. PICK r : r = hs'[h]
    OBVIOUS
  <2>2. ASSUME NEW i \in 1..r.len
        PROVE  Read(mem', r.ptr + i - 1) = Read(M, r.ptr + i - 1)
    <3>1. PICK a : a = r.ptr + i - 1
      OBVIOUS
    <3>2. a \in Region(r.ptr, r.len)
      BY <1>2, <2>1, <3>1 DEF Region
    <3>3. Shows(hs'[h], a)
      BY <1>2, <2>1, <3>2 DEF Shows
    <3>4. a \in Address => mem'[a] = M[a]
      BY <3>3 DEF Store
    <3> QED BY <1>1, <3>1, <3>4 DEF Read
  <2> QED BY <2>1, <2>2 DEF Cont
<1>3. ASSUME StaticOK(M) PROVE StaticOK(mem')
  <2>1. \A a \in Region(0, StaticLen) : a < StaticLen
    BY BoundsAssumption DEF Region
  <2>2. \A a \in Region(0, StaticLen) : a \in Address /\ mem'[a] = M[a]
    BY <1>3, <2>1 DEF Store, StaticOK
  <2> QED BY <1>1, <1>3, <2>2 DEF StaticOK
<1> QED BY <1>1, <1>2, <1>3

-----------------------------------------------------------------------------
(* One step, seen from outside.                                            *)

(* Every byte that a handle shows has been written.                        *)
FilledInv ==
    /\ DOMAIN mem = Address /\ StaticOK(mem)
    /\ \A h \in Handle : hs[h] # None => Cont(hs[h], mem) \in Vectors!Vector

(* A method that writes where handle h, as it leaves it, may write, and    *)
(* that changes no handle but h and g, changes what these two show.        *)
LEMMA StepFrame ==
    ASSUME ViewsInv, ViewsInv', FilledInv, NEW h \in Handle, NEW g \in Handle, NEW M,
           Store(M), Confined(hs'[h], mem, M),
           \A x \in Handle : x # h /\ x # g => hs'[x] = hs[x],
           \A x \in {h, g} : hs'[x] # None => Cont(hs'[x], M) \in Vectors!Vector
    PROVE  /\ FilledInv'
           /\ \A x \in Handle : Shown'[x] = IF x = h \/ x = g THEN Look(hs'[x], M) ELSE Shown[x]
<1>1. DOMAIN M = Address
  BY DEF Confined
<1>2. Sound(hs', heap')
  BY DEF ViewsInv
<1>3. \A x \in Handle : hs'[x] # None => hs'[x].ptr \in Nat /\ hs'[x].len \in Nat
  BY <1>2, LengthBound, BoundsAssumption
<1>4. /\ DOMAIN mem' = Address /\ StaticOK(mem')
      /\ \A x \in Handle : hs'[x] # None => Cont(hs'[x], mem') = Cont(hs'[x], M)
  <2>1. StaticOK(M)
    BY <1>2, OthersKeep DEF FilledInv
  <2> QED BY <1>1, <1>3, <2>1, StoreKeeps
<1>5. ASSUME NEW x \in Handle, x # h, x # g, hs'[x] # None
      PROVE  hs'[x] = hs[x] /\ Cont(hs'[x], mem') = Cont(hs[x], mem)
  <2>1. hs'[x] = hs[x]
    BY <1>5
  <2>2. Cont(hs'[x], M) = Cont(hs'[x], mem)
    BY <1>2, <1>5, OthersKeep
  <2> QED BY <1>4, <1>5, <2>1, <2>2
<1>6. FilledInv'
  <2>1. \A x \in Handle : hs'[x] # None => Cont(hs'[x], mem') \in Vectors!Vector
    BY <1>4, <1>5 DEF FilledInv
  <2> QED BY <1>4, <2>1 DEF FilledInv, StaticOK, Cont
<1>7. ASSUME NEW x \in Handle
      PROVE  Shown'[x] = IF x = h \/ x = g THEN Look(hs'[x], M) ELSE Shown[x]
  <2>1. Shown'[x] = Look(hs'[x], mem') /\ Shown[x] = Look(hs[x], mem)
    BY ShownLooks
  <2> QED BY <1>4, <1>5, <2>1 DEF Look
<1> QED BY <1>6, <1>7

(* The invariant is kept, and the user sees one step of independent        *)
(* vectors, or none.                                                       *)
Simulated == FilledInv' /\ (Vectors!Next \/ Shown' = Shown)

(* A handle is told from none by what it shows.                            *)
LEMMA AliveShown ==
    ASSUME FilledInv, NEW h \in Handle
    PROVE  /\ Vectors!Alive(h) <=> hs[h] # None
           /\ hs[h] # None => Shown[h] = Cont(hs[h], mem) /\ Shown[h] \in Vectors!Vector
           /\ hs[h] = None => Shown[h] = None
<1>1. Shown[h] = Look(hs[h], mem)
  BY ShownLooks
<1>2. hs[h] # None => Shown[h] = Cont(hs[h], mem) /\ Shown[h] \in Vectors!Vector
  BY <1>1 DEF Look, FilledInv
<1>3. hs[h] = None => Shown[h] = None
  BY <1>1 DEF Look
<1>4. hs[h] # None => Shown[h] # None
  BY <1>2, VectorsAssumption
<1> QED BY <1>2, <1>3, <1>4 DEF Vectors!Alive

(* What is left of a vector that is cut is a vector.                       *)
LEMMA VectorCuts ==
    ASSUME NEW v \in Vectors!Vector, NEW n \in 0..Len(v)
    PROVE  /\ Vectors!Prefix(v, n) \in Vectors!Vector
           /\ Vectors!Suffix(v, n) \in Vectors!Vector
           /\ Len(v) \in 0..MaxCap
<1>1. PICK k, S : k \in 0..MaxCap /\ v \in [1..k -> S] /\ S = {Plain, Mark}
  BY DEF Vectors!Vector
<1>2. Len(v) = k /\ n \in 0..k /\ k \in Nat
  BY <1>1, BoundsAssumption
<1>3. SubSeq(v, 1, n) \in Seq(S) /\ Len(SubSeq(v, 1, n)) = n
  <2>1. \A i \in 1..n : v[i] \in S
    BY <1>1, <1>2
  <2> QED BY <1>2, <2>1, SubSeqProperties
<1>4. SubSeq(v, n + 1, k) \in Seq(S) /\ Len(SubSeq(v, n + 1, k)) = k - n
  <2>1. \A i \in (n + 1)..k : v[i] \in S
    BY <1>1, <1>2
  <2>2. n + 1 \in Int /\ k \in Int
    BY <1>2
  <2>3. /\ SubSeq(v, n + 1, k) \in Seq(S)
        /\ Len(SubSeq(v, n + 1, k)) = IF n + 1 <= k THEN k - (n + 1) + 1 ELSE 0
    BY <2>1, <2>2, SubSeqProperties
  <2> QED BY <1>2, <2>3
<1>5. \A w \in Seq(S) : Len(w) \in 0..MaxCap => w \in Vectors!Vector
  <2>1. \A w \in Seq(S) : w \in [1..Len(w) -> S]
    OBVIOUS
  <2> QED BY <1>1, <2>1 DEF Vectors!Vector
<1>6. n \in 0..MaxCap /\ k - n \in 0..MaxCap
  BY <1>1, <1>2, BoundsAssumption
<1> QED BY <1>1, <1>2, <1>3, <1>4, <1>5, <1>6 DEF Vectors!Prefix, Vectors!Suffix

(* A method that changes one handle.                                       *)
LEMMA OneStep ==
    ASSUME ViewsInv, ViewsInv', FilledInv, NEW h \in Handle, NEW r, NEW M,
           hs'[h] = r, \A x \in Handle : x # h => hs'[x] = hs[x], Store(M), Confined(r, mem, M),
           r # None => Cont(r, M) \in Vectors!Vector
    PROVE  FilledInv' /\ Shown' = [Shown EXCEPT ![h] = Look(r, M)]
<1>2. hs'[h] = r /\ \A x \in Handle : x # h => hs'[x] = hs[x]
  OBVIOUS
<1>3. /\ Confined(hs'[h], mem, M)
      /\ \A x \in Handle : x # h /\ x # h => hs'[x] = hs[x]
      /\ \A x \in {h, h} : hs'[x] # None => Cont(hs'[x], M) \in Vectors!Vector
  BY <1>2
<1>4. /\ FilledInv'
      /\ \A x \in Handle : Shown'[x] = IF x = h \/ x = h THEN Look(hs'[x], M) ELSE Shown[x]
  BY <1>3, StepFrame
<1>5. PICK f : f = [Shown EXCEPT ![h] = Look(r, M)]
  OBVIOUS
<1>6. Shown \in [Handle -> {Shown[x] : x \in Handle}] /\ Shown' \in [Handle -> {Shown'[x] : x \in Handle}]
  BY ShownLooks
<1>7. \A x \in Handle : f[x] = Shown'[x]
  BY <1>2, <1>4, <1>5, <1>6
<1>8. f = Shown'
  BY <1>5, <1>6, <1>7
<1> QED BY <1>4, <1>5, <1>8

(* A method that changes two.                                              *)
LEMMA TwoSteps ==
    ASSUME ViewsInv, ViewsInv', FilledInv, NEW h \in Handle, NEW g \in Handle, h # g,
           NEW r, NEW s, NEW M,
           hs'[h] = r, hs'[g] = s, \A x \in Handle : x # h /\ x # g => hs'[x] = hs[x], Store(M), Confined(r, mem, M),
           r # None => Cont(r, M) \in Vectors!Vector,
           s # None => Cont(s, M) \in Vectors!Vector
    PROVE  FilledInv' /\ Shown' = [Shown EXCEPT ![h] = Look(r, M), ![g] = Look(s, M)]
<1>2. hs'[h] = r /\ hs'[g] = s /\ \A x \in Handle : x # h /\ x # g => hs'[x] = hs[x]
  OBVIOUS
<1>3. /\ Confined(hs'[h], mem, M)
      /\ \A x \in {h, g} : hs'[x] # None => Cont(hs'[x], M) \in Vectors!Vector
  BY <1>2
<1>4. /\ FilledInv'
      /\ \A x \in Handle : Shown'[x] = IF x = h \/ x = g THEN Look(hs'[x], M) ELSE Shown[x]
  BY <1>2, <1>3, StepFrame
<1>5. PICK f : f = [Shown EXCEPT ![h] = Look(r, M), ![g] = Look(s, M)]
  OBVIOUS
<1>6. Shown \in [Handle -> {Shown[x] : x \in Handle}] /\ Shown' \in [Handle -> {Shown'[x] : x \in Handle}]
  BY ShownLooks
<1>7. \A x \in Handle : f[x] = Shown'[x]
  BY <1>2, <1>4, <1>5, <1>6
<1>8. f = Shown'
  BY <1>5, <1>6, <1>7
<1> QED BY <1>4, <1>5, <1>8

-----------------------------------------------------------------------------
(* The steps of ByteVectors that a method can be.                          *)

Ready == ViewsInv /\ ViewsInv' /\ FilledInv

(* What a method leaves: the fields of a handle, or of two, and memory     *)
(* written by the first.                                                   *)
Leaves(h, r, M) ==
    /\ hs'[h] = r /\ \A x \in Handle : x # h => hs'[x] = hs[x]
    /\ Store(M) /\ Confined(r, mem, M)
Leaves2(h, r, g, s, M) ==
    /\ h # g /\ hs'[h] = r /\ hs'[g] = s
    /\ \A x \in Handle : x # h /\ x # g => hs'[x] = hs[x]
    /\ Store(M) /\ Confined(r, mem, M)

(* Both as equations of what is shown.                                     *)
LEMMA LeavesShown ==
    ASSUME Ready, NEW h \in Handle, NEW r, NEW M, Leaves(h, r, M),
           r # None => Cont(r, M) \in Vectors!Vector
    PROVE  FilledInv' /\ Shown' = [Shown EXCEPT ![h] = Look(r, M)]
BY OneStep DEF Ready, Leaves

LEMMA Leaves2Shown ==
    ASSUME Ready, NEW h \in Handle, NEW g \in Handle, NEW r, NEW s, NEW M, Leaves2(h, r, g, s, M),
           r # None => Cont(r, M) \in Vectors!Vector,
           s # None => Cont(s, M) \in Vectors!Vector
    PROVE  FilledInv' /\ Shown' = [Shown EXCEPT ![h] = Look(r, M), ![g] = Look(s, M)]
BY TwoSteps DEF Ready, Leaves2

(* How long what is shown is.                                              *)
LEMMA ShownLen ==
    ASSUME Ready, NEW h \in Handle, hs[h] # None
    PROVE  /\ Vectors!Alive(h) /\ Shown[h] = Cont(hs[h], mem) /\ Shown[h] \in Vectors!Vector
           /\ hs[h].len \in 0..MaxCap /\ Len(Shown[h]) = hs[h].len
<1>1. hs[h].len \in 0..MaxCap
  BY LengthBound DEF Ready, ViewsInv
<1>2. Vectors!Alive(h) /\ Shown[h] = Cont(hs[h], mem) /\ Shown[h] \in Vectors!Vector
  BY AliveShown DEF Ready
<1>3. Len(Cont(hs[h], mem)) = hs[h].len
  <2>1. hs[h].len \in Nat
    BY <1>1, BoundsAssumption
  <2> QED BY <2>1 DEF Cont
<1> QED BY <1>1, <1>2, <1>3

LEMMA SameStep ==
    ASSUME Ready, NEW h \in Handle, NEW r, NEW M, Leaves(h, r, M), hs[h] # None, r # None,
           Cont(r, M) = Cont(hs[h], mem)
    PROVE  Simulated
<1>1. Cont(r, M) = Shown[h] /\ Shown[h] \in Vectors!Vector
  BY ShownLen
<1>2. FilledInv' /\ Shown' = [Shown EXCEPT ![h] = Shown[h]]
  BY <1>1, LeavesShown DEF Look
<1>3. Shown = [x \in Handle |-> Look(hs[x], mem)]
  BY ShownLooks
<1>4. Shown' = Shown
  BY <1>2, <1>3
<1> QED BY <1>2, <1>4 DEF Simulated

LEMMA CutStep ==
    ASSUME Ready, NEW h \in Handle, NEW r, NEW M, Leaves(h, r, M), hs[h] # None, r # None,
           NEW n \in 0..hs[h].len,
           \/ Cont(r, M) = Vectors!Prefix(Cont(hs[h], mem), n)
           \/ Cont(r, M) = Vectors!Suffix(Cont(hs[h], mem), n)
    PROVE  Simulated
<1>1. /\ Vectors!Alive(h) /\ Shown[h] = Cont(hs[h], mem) /\ Shown[h] \in Vectors!Vector
      /\ n \in 0..Len(Shown[h])
  BY ShownLen
<1>2. Cont(r, M) \in Vectors!Vector
  BY <1>1, VectorCuts
<1>3. FilledInv' /\ Shown' = [Shown EXCEPT ![h] = Cont(r, M)]
  BY <1>2, LeavesShown DEF Look
<1>4. Vectors!Shorten(h) \/ Vectors!Advance(h)
  BY <1>1, <1>3 DEF Vectors!Shorten, Vectors!Advance, Vectors!Set
<1> QED BY <1>3, <1>4 DEF Simulated, Vectors!Next

LEMMA DropStep ==
    ASSUME Ready, NEW h \in Handle, NEW M, Leaves(h, None, M), hs[h] # None
    PROVE  Simulated
<1>1. FilledInv' /\ Shown' = [Shown EXCEPT ![h] = None]
  BY LeavesShown DEF Look
<1>2. Vectors!Drop(h)
  BY <1>1, ShownLen DEF Vectors!Drop, Vectors!Set
<1> QED BY <1>1, <1>2 DEF Simulated, Vectors!Next

LEMMA CreateStep ==
    ASSUME Ready, NEW h \in Handle, NEW r, NEW M, Leaves(h, r, M), hs[h] = None, r # None,
           Cont(r, M) \in Vectors!Vector
    PROVE  Simulated
<1>1. FilledInv' /\ Shown' = [Shown EXCEPT ![h] = Cont(r, M)]
  BY LeavesShown DEF Look
<1>2. Shown = [x \in Handle |-> Look(hs[x], mem)]
  BY ShownLooks
<1>3. Shown'[h] = Cont(r, M)
  BY <1>1, <1>2
<1>4. ~ Vectors!Alive(h)
  BY AliveShown DEF Ready
<1>5. Vectors!Create(h)
  BY <1>1, <1>3, <1>4 DEF Vectors!Create, Vectors!SetSome, Vectors!Set
<1> QED BY <1>1, <1>5 DEF Simulated, Vectors!Next

LEMMA ExtendStep ==
    ASSUME Ready, NEW h \in Handle, NEW r, NEW M, Leaves(h, r, M), hs[h] # None, r # None,
           Cont(r, M) \in Vectors!Vector, r.len \in Nat, hs[h].len <= r.len,
           Vectors!Prefix(Cont(r, M), hs[h].len) = Cont(hs[h], mem)
    PROVE  Simulated
<1>1. FilledInv' /\ Shown' = [Shown EXCEPT ![h] = Cont(r, M)]
  BY LeavesShown DEF Look
<1>2. Shown = [x \in Handle |-> Look(hs[x], mem)]
  BY ShownLooks
<1>3. Shown'[h] = Cont(r, M)
  BY <1>1, <1>2
<1>4. Len(Cont(r, M)) = r.len
  BY DEF Cont
<1>5. /\ Vectors!Alive(h) /\ Shown[h] = Cont(hs[h], mem) /\ Len(Shown[h]) = hs[h].len
  BY ShownLen
<1>6. Vectors!Extend(h)
  BY <1>1, <1>3, <1>4, <1>5 DEF Vectors!Extend, Vectors!SetSome, Vectors!Set
<1> QED BY <1>1, <1>6 DEF Simulated, Vectors!Next

(* The first bytes of some bytes of a vector.                              *)
LEMMA SliceStep ==
    ASSUME Ready, NEW h \in Handle, NEW g \in Handle, NEW r, NEW s, NEW M, Leaves2(h, r, g, s, M),
           hs[h] # None, hs[g] = None, r # None, s # None,
           Cont(r, M) = Cont(hs[h], mem),
           NEW j \in 0..hs[h].len, NEW i \in 0..j,
           Cont(s, M) = Vectors!Suffix(Vectors!Prefix(Cont(hs[h], mem), j), i)
    PROVE  Simulated
<1>1. /\ Vectors!Alive(h) /\ Shown[h] = Cont(hs[h], mem) /\ Shown[h] \in Vectors!Vector
      /\ j \in 0..Len(Shown[h]) /\ ~ Vectors!Alive(g)
  BY ShownLen, AliveShown DEF Ready
<1>2. Cont(s, M) \in Vectors!Vector
  <2>1. Vectors!Prefix(Shown[h], j) \in Vectors!Vector
    BY <1>1, VectorCuts
  <2>2. Len(Vectors!Prefix(Shown[h], j)) = j
    <3>1. j \in Nat /\ Vectors!Prefix(Shown[h], j) = SubSeq(Shown[h], 1, j)
      BY <1>1 DEF Vectors!Prefix
    <3> QED BY <3>1
  <2> QED BY <1>1, <2>1, <2>2, VectorCuts
<1>3. FilledInv' /\ Shown' = [Shown EXCEPT ![h] = Shown[h], ![g] = Cont(s, M)]
  BY <1>1, <1>2, Leaves2Shown DEF Look
<1>4. Shown = [x \in Handle |-> Look(hs[x], mem)] /\ h # g
  BY ShownLooks DEF Leaves2
<1>5. Shown' = [Shown EXCEPT ![g] = Cont(s, M)]
  BY <1>3, <1>4
<1>6. Vectors!Slice(h, g)
  BY <1>1, <1>5 DEF Vectors!Slice, Vectors!Set
<1> QED BY <1>3, <1>6 DEF Simulated, Vectors!Next

(* A copy is a slice of everything; it is written where the copy lives.    *)
LEMMA CopyStep ==
    ASSUME Ready, NEW h \in Handle, NEW g \in Handle, NEW s, NEW M, Leaves(g, s, M),
           hs[h] # None, hs[g] = None, s # None,
           Cont(s, M) = Cont(hs[h], mem)
    PROVE  Simulated
<1>1. /\ Vectors!Alive(h) /\ Shown[h] = Cont(hs[h], mem) /\ Shown[h] \in Vectors!Vector
      /\ ~ Vectors!Alive(g)
  BY ShownLen, AliveShown DEF Ready
<1>2. FilledInv' /\ Shown' = [Shown EXCEPT ![g] = Shown[h]]
  BY <1>1, LeavesShown DEF Look
<1>3. PICK n, v : n = Len(v) /\ v = Shown[h]
  OBVIOUS
<1>4. n \in Nat /\ n \in 0..n /\ 0 \in 0..n /\ Vectors!Suffix(Vectors!Prefix(v, n), 0) = v
  <2>1. PICK k, S : k \in 0..MaxCap /\ v \in [1..k -> S]
    BY <1>1, <1>3 DEF Vectors!Vector
  <2>2. n = k /\ k \in Nat /\ SubSeq(v, 1, n) = v /\ Len(SubSeq(v, 1, n)) = n
    BY <1>3, <2>1, BoundsAssumption
  <2> QED BY <2>2 DEF Vectors!Prefix, Vectors!Suffix
<1>5. Vectors!Slice(h, g)
  BY <1>1, <1>2, <1>3, <1>4 DEF Vectors!Slice, Vectors!Set
<1> QED BY <1>2, <1>5 DEF Simulated, Vectors!Next

LEMMA SplitStep ==
    ASSUME Ready, NEW h \in Handle, NEW g \in Handle, NEW r, NEW s, NEW M, Leaves2(h, r, g, s, M),
           hs[h] # None, hs[g] = None, r # None, s # None, NEW n \in 0..hs[h].len,
           \/ /\ Cont(r, M) = Vectors!Prefix(Cont(hs[h], mem), n)
              /\ Cont(s, M) = Vectors!Suffix(Cont(hs[h], mem), n)
           \/ /\ Cont(r, M) = Vectors!Suffix(Cont(hs[h], mem), n)
              /\ Cont(s, M) = Vectors!Prefix(Cont(hs[h], mem), n)
    PROVE  Simulated
<1>1. /\ Vectors!Alive(h) /\ Shown[h] = Cont(hs[h], mem) /\ Shown[h] \in Vectors!Vector
      /\ n \in 0..Len(Shown[h]) /\ ~ Vectors!Alive(g)
  BY ShownLen, AliveShown DEF Ready
<1>2. Cont(r, M) \in Vectors!Vector /\ Cont(s, M) \in Vectors!Vector
  BY <1>1, VectorCuts
<1>3. FilledInv' /\ Shown' = [Shown EXCEPT ![h] = Cont(r, M), ![g] = Cont(s, M)]
  BY <1>2, Leaves2Shown DEF Look
<1>4. Vectors!Split(h, g)
  BY <1>1, <1>3 DEF Vectors!Split, Vectors!Set2
<1> QED BY <1>3, <1>4 DEF Simulated, Vectors!Next

(* Two vectors in a row are a vector, if it is not too long.               *)
LEMMA VectorConcat ==
    ASSUME NEW u \in Vectors!Vector, NEW v \in Vectors!Vector, Len(u) + Len(v) <= MaxCap
    PROVE  u \o v \in Vectors!Vector
<1>1. PICK S : S = {Plain, Mark}
  OBVIOUS
<1>2. PICK a, b : a \in 0..MaxCap /\ b \in 0..MaxCap /\ u \in [1..a -> S] /\ v \in [1..b -> S]
  BY <1>1 DEF Vectors!Vector
<1>3. u \in Seq(S) /\ v \in Seq(S) /\ Len(u) = a /\ Len(v) = b /\ a \in Nat /\ b \in Nat
  BY <1>2, BoundsAssumption
<1>4. PICK w : w = u \o v
  OBVIOUS
<1>5. w \in Seq(S) /\ Len(w) = a + b
  BY <1>3, <1>4, ConcatProperties
<1>6. w \in [1..Len(w) -> S] /\ Len(w) \in 0..MaxCap
  BY <1>3, <1>5, BoundsAssumption
<1> QED BY <1>1, <1>4, <1>6 DEF Vectors!Vector

(* A method that changes one handle and leaves nothing at another.         *)
LEMMA GoneShown ==
    ASSUME Ready, NEW h \in Handle, NEW g \in Handle, NEW r, NEW M, Leaves2(h, r, g, None, M),
           r # None, Cont(r, M) \in Vectors!Vector
    PROVE  FilledInv' /\ Shown' = [Shown EXCEPT ![h] = Cont(r, M), ![g] = None]
<1>1. PICK s : s = None
  OBVIOUS
<1>2. Leaves2(h, r, g, s, M) /\ (s # None => Cont(s, M) \in Vectors!Vector)
  BY <1>1
<1>3. FilledInv' /\ Shown' = [Shown EXCEPT ![h] = Look(r, M), ![g] = Look(s, M)]
  BY <1>2, Leaves2Shown
<1> QED BY <1>1, <1>3 DEF Look

(* r shows the bytes of h and then those of g.                             *)
Joins(r, M, h, g) ==
    /\ r.len = hs[h].len + hs[g].len
    /\ Cont(r, M) = Cont(hs[h], mem) \o Cont(hs[g], mem)

LEMMA AppendStep ==
    ASSUME Ready, NEW h \in Handle, NEW g \in Handle, NEW r, NEW M, Leaves2(h, r, g, None, M),
           hs[h] # None, hs[g] # None, r # None,
           Joins(r, M, h, g)
    PROVE  Simulated
<1>1. /\ Vectors!Alive(h) /\ Shown[h] = Cont(hs[h], mem) /\ Shown[h] \in Vectors!Vector
      /\ Vectors!Alive(g) /\ Shown[g] = Cont(hs[g], mem) /\ Shown[g] \in Vectors!Vector
      /\ Len(Shown[h]) = hs[h].len /\ Len(Shown[g]) = hs[g].len
  BY ShownLen
<1>2. r.len <= MaxCap
  <2>1. Sound(hs', heap') /\ hs'[h] = r
    BY DEF Ready, ViewsInv, Leaves2
  <2>2. hs'[h].len \in 0..MaxCap
    BY <2>1, LengthBound
  <2> QED BY <2>1, <2>2, BoundsAssumption
<1>3. Cont(r, M) \in Vectors!Vector
  BY <1>1, <1>2, VectorConcat DEF Joins
<1>4. FilledInv' /\ Shown' = [Shown EXCEPT ![h] = Cont(r, M), ![g] = None]
  BY <1>3, GoneShown
<1>5. Vectors!Append2(h, g)
  BY <1>1, <1>4 DEF Vectors!Append2, Vectors!Set2, Leaves2, Joins
<1> QED BY <1>4, <1>5 DEF Simulated, Vectors!Next

-----------------------------------------------------------------------------
(* Methods that do not write.                                              *)

LEMMA Unwritten ==
    ASSUME Ready, NEW r
    PROVE  Confined(r, mem, mem)
BY DEF Ready, FilledInv, Confined

LEMMA UpdateLeaves ==
    ASSUME Ready, NEW h \in Handle, NEW r, NEW M, Update(h, r), Store(M), Confined(r, mem, M)
    PROVE  Leaves(h, r, M)
<1>1. DOMAIN hs = Handle /\ hs' = [hs EXCEPT ![h] = r]
  BY DEF Ready, ViewsInv, Sound, Update
<1> QED BY <1>1 DEF Leaves

LEMMA Update2Leaves ==
    ASSUME Ready, NEW h \in Handle, NEW g \in Handle, h # g, NEW r, NEW s, NEW M,
           Update2(h, r, g, s), Store(M), Confined(r, mem, M)
    PROVE  Leaves2(h, r, g, s, M)
<1>1. DOMAIN hs = Handle /\ hs' = [hs EXCEPT ![h] = r, ![g] = s]
  BY DEF Ready, ViewsInv, Sound, Update2
<1> QED BY <1>1 DEF Leaves2

(* The first of two handles is left as it is.                              *)
LEMMA UpdateLeaves2 ==
    ASSUME Ready, NEW h \in Handle, NEW g \in Handle, h # g, NEW s, Update(g, s), Store(mem)
    PROVE  Leaves2(h, hs[h], g, s, mem)
<1>1. DOMAIN hs = Handle /\ hs' = [hs EXCEPT ![g] = s]
  BY DEF Ready, ViewsInv, Sound, Update
<1> QED BY <1>1, Unwritten DEF Leaves2

(* What is known of the fields of a handle.                                *)
LEMMA ReadyFields ==
    ASSUME Ready, NEW h \in Handle, hs[h] # None
    PROVE  /\ FieldsOK(hs[h]) /\ hs[h] \in HandleRecord
           /\ hs[h].ptr \in Nat /\ hs[h].len \in Nat /\ hs[h].cap \in Nat
           /\ Size(hs[h]) \in Nat /\ hs[h].len <= Size(hs[h])
           /\ PlaceOK(hs[h], heap)
BY DEF Ready, ViewsInv, Sound, PlaceOK, FieldsOK, HandleRecord, Size

(* The same bytes, held in another way.                                    *)
LEMMA Rehold ==
    ASSUME Ready, NEW h \in Handle, hs[h] # None, NEW r, r # None,
           Update(h, r), Store(mem), r.len = hs[h].len, r.len = 0 \/ r.ptr = hs[h].ptr
    PROVE  Simulated
<1>1. Leaves(h, r, mem)
  BY Unwritten, UpdateLeaves
<1>2. Cont(r, mem) = Cont(hs[h], mem)
  BY DEF Cont
<1> QED BY <1>1, <1>2, SameStep

(* Fewer bytes at the end, or at the beginning.                            *)
LEMMA LoseTail ==
    ASSUME Ready, NEW h \in Handle, hs[h] # None, NEW r, r # None,
           Update(h, r), Store(mem), r.len \in Nat, r.len <= hs[h].len, r.len = 0 \/ r.ptr = hs[h].ptr
    PROVE  Simulated
<1>1. Leaves(h, r, mem)
  BY Unwritten, UpdateLeaves
<1>2. hs[h].len \in Nat /\ r.len \in 0..hs[h].len
  BY ReadyFields
<1>3. Cont(r, mem) = Vectors!Prefix(Cont(hs[h], mem), r.len)
  BY <1>2, PrefixCont
<1> QED BY <1>1, <1>2, <1>3, CutStep

LEMMA LoseHead ==
    ASSUME Ready, NEW h \in Handle, hs[h] # None, NEW r, r # None, NEW n \in Nat,
           Update(h, r), Store(mem), n <= hs[h].len, r.len = hs[h].len - n,
           r.ptr = hs[h].ptr + n
    PROVE  Simulated
<1>1. Leaves(h, r, mem)
  BY Unwritten, UpdateLeaves
<1>2. hs[h].len \in Nat /\ hs[h].ptr \in Int /\ n \in 0..hs[h].len
  BY ReadyFields
<1>3. Cont(r, mem) = Vectors!Suffix(Cont(hs[h], mem), n)
  BY <1>2, SuffixCont
<1> QED BY <1>1, <1>2, <1>3, CutStep

(* h and g share what h showed.                                            *)
LEMMA ShareOut ==
    ASSUME Ready, NEW h \in Handle, NEW g \in Handle, hs[h] # None, hs[g] = None,
           NEW r, r # None, NEW s, s # None, Leaves2(h, r, g, s, mem), NEW n \in Nat, n <= hs[h].len,
           \/ /\ r.len = n /\ s.len = hs[h].len - n
              /\ n = 0 \/ r.ptr = hs[h].ptr
              /\ s.len = 0 \/ s.ptr = hs[h].ptr + n
           \/ /\ s.len = n /\ r.len = hs[h].len - n
              /\ n = 0 \/ s.ptr = hs[h].ptr
              /\ r.len = 0 \/ r.ptr = hs[h].ptr + n
    PROVE  Simulated
<1>1. hs[h].len \in Nat /\ hs[h].ptr \in Int /\ n \in 0..hs[h].len
  BY ReadyFields
<1>2. CASE /\ r.len = n /\ s.len = hs[h].len - n
           /\ n = 0 \/ r.ptr = hs[h].ptr
           /\ s.len = 0 \/ s.ptr = hs[h].ptr + n
  <2>1. /\ Cont(r, mem) = Vectors!Prefix(Cont(hs[h], mem), n)
        /\ Cont(s, mem) = Vectors!Suffix(Cont(hs[h], mem), n)
    BY <1>1, <1>2, PrefixCont, SuffixCont
  <2> QED BY <1>1, <2>1, SplitStep
<1>3. CASE /\ s.len = n /\ r.len = hs[h].len - n
           /\ n = 0 \/ s.ptr = hs[h].ptr
           /\ r.len = 0 \/ r.ptr = hs[h].ptr + n
  <2>1. /\ Cont(r, mem) = Vectors!Suffix(Cont(hs[h], mem), n)
        /\ Cont(s, mem) = Vectors!Prefix(Cont(hs[h], mem), n)
    BY <1>1, <1>3, PrefixCont, SuffixCont
  <2> QED BY <1>1, <2>1, SplitStep
<1> QED BY <1>2, <1>3

LEMMA EmptyFields == Empty # None /\ Empty.len = 0 /\ Empty.ptr = Dangling
<1>1. Null \in [tag : {"null", "offset", "block"}, n : Nat] /\ 0 \in Nat /\ Dangling \in Nat
  BY DanglingBehind DEF Null
<1>2. FieldsOK(Empty) /\ Empty.len = 0 /\ Empty.ptr = Dangling
  BY <1>1, BytesFields DEF Empty
<1> QED BY <1>2, Sorts

(* What from_vec makes of a Vec shows the same bytes.                      *)
LEMMA FromVecFields ==
    ASSUME NEW v, NEW H, FieldsOK(v), v.kind = "Vec", CanFreeze(H, v), NEW r, r = BytesFromVec(H, v)
    PROVE  /\ FieldsOK(r) /\ r.kind = "Bytes" /\ r.len = v.len
           /\ v.len # 0 => r.ptr = v.ptr
           /\ v.len = 0 => r = Empty
<1>1. v.ptr \in Nat /\ v.len \in Nat
  BY DEF FieldsOK, HandleRecord
<1>2. CASE v.len = 0
  <2>1. r = Empty
    BY <1>2 DEF BytesFromVec, NeedsBlock
  <2>2. FieldsOK(Empty) /\ Empty.kind = "Bytes" /\ Empty.len = 0
    BY DanglingBehind, BytesFields DEF Empty, Null
  <2> QED BY <1>2, <2>1, <2>2
<1>3. CASE v.len # 0
  <2>1. PICK d : r = BytesAt(v.ptr, v.len, d) /\ d \in [tag : {"null", "offset", "block"}, n : Nat]
    <3>1. CASE NeedsBlock(v)
      <4>1. FreeBlocks(H) \in SUBSET Nat /\ FreeBlocks(H) # {}
        BY <3>1, BoundsAssumption DEF FreeBlocks, CanFreeze
      <4>2. PICK b \in FreeBlocks(H) : b = Least(FreeBlocks(H))
        BY <4>1, LeastIn
      <4>3. r = BytesAt(v.ptr, v.len, InBlock(b))
        BY <1>3, <3>1, <4>2 DEF BytesFromVec
      <4>4. InBlock(b) \in [tag : {"null", "offset", "block"}, n : Nat]
        BY <4>1 DEF InBlock
      <4> QED BY <4>3, <4>4
    <3>2. CASE ~ NeedsBlock(v)
      <4>1. r = BytesAt(v.ptr, v.len, Offset(0))
        BY <1>3, <3>2 DEF BytesFromVec
      <4>2. Offset(0) \in [tag : {"null", "offset", "block"}, n : Nat]
        BY DEF Offset
      <4> QED BY <4>1, <4>2
    <3> QED BY <3>1, <3>2
  <2> QED BY <1>1, <1>3, <2>1, BytesFields
<1> QED BY <1>2, <1>3

LEMMA DropShown ==
    ASSUME Ready, NEW h \in Handle, Drop(h)
    PROVE  Simulated
<1>1. hs[h] # None /\ Update(h, None) /\ Store(mem)
  BY DEF Drop, Vacant
<1>2. Leaves(h, None, mem)
  BY <1>1, Unwritten, UpdateLeaves
<1> QED BY <1>1, <1>2, DropStep

LEMMA FromStaticShown ==
    ASSUME Ready, NEW h \in Handle, FromStatic(h)
    PROVE  Simulated
<1>1. PICK r : r = BytesAt(Base(0), StaticLen, Null)
  OBVIOUS
<1>2. Base(0) = 0 /\ StaticLen \in Nat /\ StaticLen \in 0..MaxCap
  BY BoundsAssumption DEF Base
<1>3. Null \in [tag : {"null", "offset", "block"}, n : Nat]
  BY DEF Null
<1>4. FieldsOK(r) /\ r.ptr = 0 /\ r.len = StaticLen
  BY <1>1, <1>2, <1>3, BytesFields
<1>5. Leaves(h, r, mem) /\ hs[h] = None /\ r # None
  BY <1>1, <1>4, Unwritten, UpdateLeaves, Sorts DEF FromStatic, Vacant
<1>6. Cont(r, mem) \in [1..StaticLen -> {Plain, Mark}]
  <2>1. ASSUME NEW i \in 1..StaticLen PROVE Read(mem, r.ptr + i - 1) \in {Plain, Mark}
    <3>1. PICK a : a = i - 1
      OBVIOUS
    <3>2. a \in Region(0, StaticLen) /\ r.ptr + i - 1 = a
      BY <1>2, <1>4, <3>1 DEF Region
    <3> QED BY <3>2 DEF Ready, FilledInv, StaticOK, Read
  <2> QED BY <1>4, <2>1 DEF Cont
<1>7. Cont(r, mem) \in Vectors!Vector
  BY <1>2, <1>6 DEF Vectors!Vector
<1> QED BY <1>5, <1>7, CreateStep

LEMMA FromShown ==
    ASSUME Ready, NEW h \in Handle, BytesFrom(h) \/ MutFrom(h)
    PROVE  Simulated
<1>1. PICK v : v = hs[h]
  OBVIOUS
<1>2. v # None /\ v.kind = "Vec" /\ FieldsOK(v) /\ Store(mem)
  BY <1>1, ReadyFields DEF BytesFrom, MutFrom, Is
<1>3. CASE BytesFrom(h)
  <2>1. PICK r : r = BytesFromVec(heap, v)
    OBVIOUS
  <2>2. FieldsOK(r) /\ r.len = v.len /\ (v.len # 0 => r.ptr = v.ptr)
    BY <1>1, <1>2, <1>3, <2>1, FromVecFields DEF BytesFrom
  <2>3. Update(h, r) /\ r # None
    BY <1>1, <1>3, <2>1, <2>2, Sorts DEF BytesFrom
  <2> QED BY <1>1, <1>2, <2>2, <2>3, Rehold
<1>4. CASE MutFrom(h)
  <2>1. PICK r : r = MutFromVec(v)
    OBVIOUS
  <2>2. FieldsOK(r)
    BY <1>2, <2>1, MutFromFields
  <2>3. r.len = v.len /\ r.ptr = v.ptr
    BY <2>1 DEF MutFromVec, MutAt
  <2>4. Update(h, r) /\ r # None
    BY <1>1, <1>4, <2>1, <2>2, Sorts DEF MutFrom
  <2> QED BY <1>1, <1>2, <2>3, <2>4, Rehold
<1> QED BY <1>3, <1>4

LEMMA ClearShown ==
    ASSUME Ready, NEW h \in Handle, Clear(h)
    PROVE  Simulated
<1>1. hs[h] # None /\ Update(h, Empty) /\ Store(mem)
  BY DEF Clear, Is
<1>2. 0 <= hs[h].len
  BY <1>1, ReadyFields
<1> QED BY <1>1, <1>2, EmptyFields, LoseTail

LEMMA TruncateToShown ==
    ASSUME Ready, NEW h \in Handle, NEW n \in Nat, Is(h, "Bytes"), TruncateTo(h, n)
    PROVE  Simulated
<1>1. PICK r, s : r = hs[h] /\ s = SharedHandle(heap, r)
  OBVIOUS
<1>2. /\ r # None /\ r.kind = "Bytes" /\ FieldsOK(r) /\ n < r.len /\ r.len \in Nat
      /\ 0 <= r.len /\ n <= r.len /\ Store(mem)
  BY <1>1, ReadyFields DEF Is, TruncateTo
<1>3. ASSUME NEW v, FieldsOK(v), v.ptr = r.ptr, NEW c, c = [v EXCEPT !.len = n], Update(h, c)
      PROVE  Simulated
  <2>1. c \in HandleRecord /\ c.ptr = r.ptr /\ c.len = n
    BY <1>3 DEF FieldsOK, HandleRecord
  <2>2. c # None
    BY <2>1, PlacesAssumption
  <2> QED BY <1>1, <1>2, <1>3, <2>1, <2>2, LoseTail
<1>4. CASE Update(h, [r EXCEPT !.len = n])
  BY <1>2, <1>3, <1>4
<1>5. CASE Update(h, Empty)
  BY <1>1, <1>2, <1>5, EmptyFields, LoseTail
<1>6. CASE CanShare(heap, r) /\ Update(h, [s EXCEPT !.len = n])
  <2>1. FieldsOK(s) /\ s.ptr = r.ptr
    BY <1>1, <1>2, <1>6, SharedFields DEF Ready, ViewsInv
  <2> QED BY <1>3, <1>6, <2>1
<1> QED BY <1>1, <1>4, <1>5, <1>6 DEF TruncateTo

LEMMA TruncateShown ==
    ASSUME Ready, NEW h \in Handle, NEW n \in Nat, Truncate(h, n) \/ TruncateOff(h, n)
    PROVE  Simulated
<1>1. CASE Truncate(h, n)
  BY <1>1, TruncateToShown DEF Truncate
<1>2. CASE TruncateOff(h, n)
  <2>1. Is(h, "Bytes") /\ n <= hs[h].len /\ TruncateTo(h, hs[h].len - n)
    BY <1>2 DEF TruncateOff
  <2>2. hs[h].len - n \in Nat
    BY <2>1, ReadyFields DEF Is
  <2> QED BY <2>1, <2>2, TruncateToShown
<1> QED BY <1>1, <1>2

LEMMA AdvanceShown ==
    ASSUME Ready, NEW h \in Handle, NEW n \in Nat, Advance(h, n) \/ MutAdvance(h, n)
    PROVE  Simulated
<1>1. PICK r, k, t : r = hs[h] /\ k = ReadCount(r, n) /\ t = Advanced(r, k)
  OBVIOUS
<1>2. r # None /\ r.kind # "Vec" /\ Update(h, t) /\ Store(mem)
  BY <1>1 DEF Advance, MutAdvance, Is
<1>3. FieldsOK(r) /\ r.len \in Nat /\ r.len <= Size(r) /\ Size(r) \in Nat
  BY <1>1, <1>2, ReadyFields
<1>4. k \in Nat /\ k <= r.len /\ k <= Size(r)
  <2>1. k \in {n, r.len} /\ k <= r.len
    BY <1>1, <1>3, LeastIn DEF ReadCount
  <2> QED BY <1>3, <2>1
<1>5. FieldsOK(t) /\ t.ptr = r.ptr + k /\ t.len = r.len - k
  BY <1>1, <1>2, <1>3, <1>4, AdvancedFields
<1>6. t # None
  BY <1>5, Sorts
<1> QED BY <1>1, <1>2, <1>4, <1>5, <1>6, LoseHead

LEMMA CloneShown ==
    ASSUME Ready, NEW h \in Handle, NEW g \in Handle, Clone(h, g)
    PROVE  Simulated
<1>1. PICK r, s : r = hs[h] /\ s = SharedHandle(heap, r)
  OBVIOUS
<1>2. /\ r # None /\ r.kind = "Bytes" /\ hs[g] = None /\ h # g
      /\ CanShare(heap, r) /\ Update2(h, s, g, s) /\ Store(mem)
  BY <1>1 DEF Clone, Is, Vacant
<1>3. FieldsOK(r) /\ r.ptr \in Nat /\ r.len \in Nat
  BY <1>1, <1>2, ReadyFields
<1>4. 0 \in 0..r.len /\ r.len \in 0..r.len
  BY <1>3
<1>5. FieldsOK(s) /\ s.ptr = r.ptr /\ s.len = r.len /\ s # None
  <2>1. FieldsOK(s) /\ s.ptr = r.ptr /\ s.len = r.len
    BY <1>1, <1>2, SharedFields DEF Ready, ViewsInv
  <2> QED BY <2>1, Sorts
<1>6. Cont(s, mem) = Cont(r, mem)
  BY <1>5 DEF Cont
<1>7. Cont(r, mem) = Vectors!Prefix(Cont(r, mem), r.len)
  BY <1>3, PrefixCont
<1>8. Cont(s, mem) = Vectors!Suffix(Cont(r, mem), 0)
  <2>1. s.len = r.len - 0 /\ (s.len = 0 \/ s.ptr = r.ptr + 0)
    BY <1>3, <1>5
  <2> QED BY <1>3, <1>4, <2>1, SuffixCont
<1>9. Leaves2(h, s, g, s, mem)
  BY <1>2, <1>5, Unwritten, Update2Leaves
<1> QED BY <1>1, <1>2, <1>4, <1>5, <1>6, <1>7, <1>8, <1>9, SliceStep

LEMMA SliceShown ==
    ASSUME Ready, NEW h \in Handle, NEW g \in Handle, NEW i \in Nat, NEW j \in Nat,
           Slice(h, g, i, j)
    PROVE  Simulated
<1>1. PICK r, s, v : /\ r = hs[h] /\ s = SharedHandle(heap, r)
                     /\ v = [s EXCEPT !.ptr = @ + i, !.len = j - i]
  OBVIOUS
<1>2. /\ r # None /\ r.kind = "Bytes" /\ hs[g] = None /\ h # g /\ i <= j /\ j <= r.len /\ Store(mem)
  BY <1>1 DEF Slice, Is, Vacant
<1>3. FieldsOK(r) /\ r.ptr \in Nat /\ r.len \in Nat
  BY <1>1, <1>2, ReadyFields
<1>4. i \in 0..j /\ j \in 0..r.len
  BY <1>2, <1>3
(* What the new handle shows, whichever fields it has.                     *)
<1>5. ASSUME NEW a, a.len = r.len, a.ptr = r.ptr, a # None,
             NEW b, b.len = j - i, b.len = 0 \/ b.ptr = r.ptr + i, b # None, Leaves2(h, a, g, b, mem)
      PROVE  Simulated
  <2>1. Cont(a, mem) = Cont(r, mem)
    BY <1>5 DEF Cont
  <2>2. PICK c : c = [r EXCEPT !.len = j]
    OBVIOUS
  <2>3. c.len = j /\ c.ptr = r.ptr
    BY <1>3, <2>2 DEF FieldsOK, HandleRecord
  <2>4. Cont(c, mem) = Vectors!Prefix(Cont(r, mem), j)
    BY <1>2, <1>3, <2>3, PrefixCont
  <2>5. Cont(b, mem) = Vectors!Suffix(Cont(c, mem), i)
    BY <1>2, <1>3, <1>5, <2>3, SuffixCont
  <2> QED BY <1>1, <1>2, <1>4, <1>5, <2>1, <2>4, <2>5, SliceStep
<1>6. CASE i = j
  <2>1. Update(g, Empty)
    BY <1>6 DEF Slice
  <2>2. Leaves2(h, r, g, Empty, mem)
    BY <1>1, <1>2, <2>1, UpdateLeaves2
  <2>3. Empty.len = j - i
    BY <1>6, EmptyFields
  <2> QED BY <1>2, <1>5, <2>2, <2>3, EmptyFields
<1>7. CASE i # j
  <2>1. CanShare(heap, r) /\ Update2(h, s, g, v)
    BY <1>1, <1>7 DEF Slice
  <2>2. FieldsOK(s) /\ s.kind = "Bytes" /\ s.ptr = r.ptr /\ s.len = r.len
    BY <1>1, <1>2, <2>1, SharedFields DEF Ready, ViewsInv
  <2>3. v \in HandleRecord /\ v.ptr = r.ptr + i /\ v.len = j - i
    <3>1. PICK p, k : p = r.ptr + i /\ k = j - i /\ p \in Nat /\ k \in Nat
      BY <1>2, <1>3
    <3>2. v = [s EXCEPT !.ptr = p, !.len = k]
      BY <1>1, <2>2, <3>1 DEF FieldsOK, HandleRecord
    <3> QED BY <2>2, <3>1, <3>2 DEF FieldsOK, HandleRecord
  <2>4. s # None /\ v # None
    BY <2>2, <2>3, Sorts, PlacesAssumption
  <2>5. Leaves2(h, s, g, v, mem)
    BY <1>2, <2>1, Unwritten, Update2Leaves
  <2> QED BY <1>5, <2>2, <2>3, <2>4, <2>5
<1> QED BY <1>6, <1>7

LEMMA SplitShown ==
    ASSUME Ready, NEW h \in Handle, NEW g \in Handle, NEW n \in Nat,
           SplitOff(h, g, n) \/ SplitTo(h, g, n)
    PROVE  Simulated
<1>1. PICK r, s, a, b : /\ r = hs[h] /\ s = SharedHandle(heap, r)
                        /\ a = [s EXCEPT !.len = n] /\ b = Advanced(s, n)
  OBVIOUS
<1>2. /\ r # None /\ r.kind = "Bytes" /\ hs[g] = None /\ h # g /\ n <= r.len /\ Store(mem)
  BY <1>1 DEF SplitOff, SplitTo, Is, Vacant
<1>3. FieldsOK(r) /\ r.ptr \in Nat /\ r.len \in Nat /\ 0 \in Nat /\ 0 <= r.len
  BY <1>1, <1>2, ReadyFields
<1>4. CASE Update(g, Empty) /\ (n = r.len \/ n = 0)
  <2>1. Leaves2(h, r, g, Empty, mem)
    BY <1>1, <1>2, <1>4, UpdateLeaves2
  <2>2. CASE n = r.len
    <3>1. Empty.len = r.len - n
      BY <1>3, <2>2, EmptyFields
    <3> QED BY <1>1, <1>2, <2>1, <2>2, <3>1, EmptyFields, ShareOut
  <2>3. CASE n = 0
    <3>1. r.len = r.len - n /\ r.ptr = r.ptr + n
      BY <1>3, <2>3
    <3> QED BY <1>1, <1>2, <2>1, <2>3, <3>1, EmptyFields, ShareOut
  <2> QED BY <1>4, <2>2, <2>3
<1>5. CASE Update2(h, Empty, g, r)
  <2>1. Leaves2(h, Empty, g, r, mem)
    BY <1>2, <1>5, Unwritten, Update2Leaves
  <2>2. r.len = r.len - 0 /\ r.ptr = r.ptr + 0
    BY <1>3
  <2> QED BY <1>1, <1>2, <1>3, <2>1, <2>2, EmptyFields, ShareOut
<1>6. CASE CanShare(heap, r) /\ (Update2(h, a, g, b) \/ Update2(h, b, g, a))
  <2>1. /\ FieldsOK(s) /\ s.kind = "Bytes" /\ s.ptr = r.ptr /\ s.len = r.len /\ Size(s) = s.len
    BY <1>1, <1>2, <1>6, SharedFields DEF Ready, ViewsInv, Size
  <2>2. a \in HandleRecord /\ a.ptr = r.ptr /\ a.len = n
    BY <1>1, <1>2, <2>1 DEF FieldsOK, HandleRecord
  <2>3. n <= Size(s)
    BY <1>2, <2>1
  <2>4. FieldsOK(b) /\ b.ptr = r.ptr + n /\ b.len = r.len - n
    BY <1>1, <1>2, <2>1, <2>3, AdvancedFields
  <2>5. a # None /\ b # None
    BY <2>2, <2>4, Sorts, PlacesAssumption
  <2>6. Leaves2(h, a, g, b, mem) \/ Leaves2(h, b, g, a, mem)
    BY <1>2, <1>6, Unwritten, Update2Leaves
  <2>7. a.len = n /\ b.len = r.len - n /\ a.ptr = r.ptr /\ b.ptr = r.ptr + n
    BY <2>2, <2>4
  <2>8. /\ hs[h] # None /\ n <= hs[h].len /\ a.len = n /\ b.len = hs[h].len - n
        /\ a.ptr = hs[h].ptr /\ b.ptr = hs[h].ptr + n
    BY <1>1, <1>2, <2>7
  <2>9. CASE Leaves2(h, a, g, b, mem)
    BY <1>2, <2>5, <2>8, <2>9, ShareOut
  <2>10. CASE Leaves2(h, b, g, a, mem)
    BY <1>2, <2>5, <2>8, <2>10, ShareOut
  <2> QED BY <2>6, <2>9, <2>10
<1>7. CASE SplitOff(h, g, n)
  BY <1>1, <1>4, <1>5, <1>6, <1>7 DEF SplitOff
<1>8. CASE SplitTo(h, g, n)
  BY <1>1, <1>4, <1>5, <1>6, <1>8 DEF SplitTo
<1> QED BY <1>7, <1>8

LEMMA MutShortenShown ==
    ASSUME Ready, NEW h \in Handle, NEW n \in Nat,
           MutTruncate(h, n) \/ MutTruncateOff(h, n) \/ MutClear(h)
    PROVE  Simulated
<1>1. PICK r : r = hs[h] /\ r # None /\ Store(mem)
  BY DEF MutTruncate, MutTruncateOff, MutClear, Is
<1>2. r.len \in Nat /\ FieldsOK(r)
  BY <1>1, ReadyFields
<1>3. PICK k \in Nat : k <= r.len /\ Update(h, [r EXCEPT !.len = k])
  BY <1>1, <1>2 DEF MutTruncate, MutTruncateOff, MutClear, Update
<1>4. PICK s : s = [r EXCEPT !.len = k]
  OBVIOUS
<1>5. s \in HandleRecord /\ s.ptr = r.ptr /\ s.len = k
  BY <1>2, <1>4 DEF FieldsOK, HandleRecord
<1>6. s # None
  BY <1>5, PlacesAssumption
<1> QED BY <1>1, <1>3, <1>4, <1>5, <1>6, LoseTail

LEMMA MutSplitShown ==
    ASSUME Ready, NEW h \in Handle, NEW g \in Handle, NEW n \in Nat,
           MutSplitTo(h, g, n) \/ MutSplitOff(h, g, n)
    PROVE  Simulated
<1>1. PICK r, s, t : r = hs[h] /\ s = SharedHandle(heap, r) /\ t = Advanced(s, n)
  OBVIOUS
<1>2. /\ r # None /\ r.kind = "BytesMut" /\ hs[g] = None /\ h # g /\ CanShare(heap, r) /\ Store(mem)
  BY <1>1 DEF MutSplitTo, MutSplitOff, Is, Vacant
<1>3. /\ FieldsOK(r) /\ r.ptr \in Nat /\ r.len \in Nat /\ r.cap \in Nat /\ r.len <= r.cap
  BY <1>1, <1>2, ReadyFields DEF Size
<1>4. /\ FieldsOK(s) /\ s.kind = "BytesMut" /\ s.ptr = r.ptr /\ s.len = r.len /\ s.cap = r.cap
      /\ Size(s) = r.cap
  BY <1>1, <1>2, SharedFields DEF Ready, ViewsInv, Size
<1>5. n <= r.cap
  BY <1>1, <1>3 DEF MutSplitTo, MutSplitOff
(* What lies behind n is shown by t, what lies before it by f.             *)
<1>6. PICK k, f : /\ k \in Nat /\ k = SplitLen(s, n) /\ f = [s EXCEPT !.len = k, !.cap = n]
                  /\ Update2(h, t, g, f) \/ Update2(h, f, g, t)
  <2>1. PICK k : k = SplitLen(s, n) /\ k \in Nat
    BY <1>3, <1>4 DEF SplitLen
  <2>2. CASE MutSplitTo(h, g, n)
    <3>1. n <= r.len
      BY <1>1, <2>2 DEF MutSplitTo
    <3>2. k = n
      BY <1>3, <1>4, <2>1, <3>1 DEF SplitLen
    <3>3. Update2(h, t, g, [s EXCEPT !.len = n, !.cap = n])
      BY <1>1, <2>2 DEF MutSplitTo, SplitCap
    <3> QED BY <2>1, <3>2, <3>3
  <2>3. CASE MutSplitOff(h, g, n)
    <3>1. [s EXCEPT !.cap = n, !.len = k] = [s EXCEPT !.len = k, !.cap = n]
      BY <1>4 DEF FieldsOK, HandleRecord
    <3>2. Update2(h, [s EXCEPT !.cap = n, !.len = k], g, t)
      BY <1>1, <2>1, <2>3 DEF MutSplitOff
    <3> QED BY <2>1, <3>1, <3>2
  <2> QED BY <2>2, <2>3
<1>7. f \in HandleRecord /\ f.ptr = r.ptr /\ f.len = k
  BY <1>4, <1>6 DEF FieldsOK, HandleRecord
<1>8. n <= Size(s)
  BY <1>4, <1>5
<1>9. FieldsOK(t) /\ t.ptr = r.ptr + n /\ t.len = IF n <= r.len THEN r.len - n ELSE 0
  BY <1>1, <1>4, <1>8, AdvancedFields
<1>10. /\ k <= r.len /\ t.len = r.len - k
       /\ t.len = 0 \/ t.ptr = r.ptr + k
  BY <1>3, <1>4, <1>6, <1>9 DEF SplitLen
<1>11. f # None /\ t # None
  BY <1>7, <1>9, Sorts, PlacesAssumption
<1>12. Leaves2(h, f, g, t, mem) \/ Leaves2(h, t, g, f, mem)
  BY <1>2, <1>6, Unwritten, Update2Leaves
<1>13. /\ k \in Nat /\ hs[h] # None /\ f.len = k /\ f.ptr = hs[h].ptr /\ k <= hs[h].len
       /\ t.len = hs[h].len - k /\ (t.len = 0 \/ t.ptr = hs[h].ptr + k)
  BY <1>1, <1>2, <1>6, <1>7, <1>10
<1>14. CASE Leaves2(h, f, g, t, mem)
  BY <1>2, <1>11, <1>13, <1>14, ShareOut
<1>15. CASE Leaves2(h, t, g, f, mem)
  BY <1>2, <1>11, <1>13, <1>15, ShareOut
<1> QED BY <1>12, <1>14, <1>15

-----------------------------------------------------------------------------
(* Methods that copy.                                                      *)

(* ptr::copy puts the bytes of s where those of x are.                     *)
LEMMA CopyWrites ==
    ASSUME NEW M, NEW s, NEW x, s.ptr \in Nat, x.ptr \in Nat, s.len \in Nat, x.len = s.len,
           Region(x.ptr, x.len) \subseteq DOMAIN M,
           NEW N, N = CopyBytes(M, s.ptr, x.ptr, s.len)
    PROVE  /\ DOMAIN N = DOMAIN M /\ Cont(x, N) = Cont(s, M)
           /\ \A a \in DOMAIN M : N[a] = M[a] \/ a \in Region(x.ptr, x.len)
<1>1. PICK p, q, n : p = s.ptr /\ q = x.ptr /\ n = s.len /\ x.len = n
  OBVIOUS
<1>2. p \in Nat /\ q \in Nat /\ n \in Nat /\ Region(q, n) \subseteq DOMAIN M
  BY <1>1
<1>3. N = [a \in DOMAIN M |-> IF a \in Region(q, n) THEN Read(M, p + (a - q)) ELSE M[a]]
  BY <1>1 DEF CopyBytes
<1>4. ASSUME NEW i \in 1..n PROVE Read(N, q + i - 1) = Read(M, p + i - 1)
  <2>1. PICK a : a = q + i - 1
    OBVIOUS
  <2>2. a \in Region(q, n) /\ p + (a - q) = p + i - 1
    BY <1>2, <2>1 DEF Region
  <2>3. a \in DOMAIN M
    BY <1>2, <2>2
  <2>4. N[a] = Read(M, p + i - 1) /\ a \in DOMAIN N
    BY <1>3, <2>2, <2>3
  <2> QED BY <2>1, <2>4 DEF Read
<1>5. Cont(x, N) = Cont(s, M)
  BY <1>1, <1>4 DEF Cont
<1> QED BY <1>1, <1>3, <1>5

(* What is written lies within what the handle may write.                  *)
LEMMA WriteConfined ==
    ASSUME NEW HS, NEW H, Sound(HS, H), NEW h \in Handle, NEW r, HS[h] = r, Writer(r),
           NEW M, NEW N, DOMAIN M = Address, DOMAIN N = Address, NEW q \in Nat, NEW n \in Nat,
           r.ptr <= q, q + n <= r.ptr + Size(r),
           \A a \in Address : N[a] = M[a] \/ a \in Region(q, n)
    PROVE  Confined(r, M, N) /\ Region(q, n) \subseteq Address
<1>1. r.ptr \in Nat /\ Size(r) \in Nat /\ Region(r.ptr, Size(r)) \subseteq Address
  BY LengthBound, ReachesMemory DEF Writer
<1>2. Region(q, n) \subseteq Region(r.ptr, Size(r))
  BY <1>1 DEF Region
<1> QED BY <1>1, <1>2 DEF Confined

(* A handle shows the bytes that are copied to it.                         *)
LEMMA CopyIn ==
    ASSUME NEW HS, NEW H, Sound(HS, H), NEW h \in Handle, NEW x, HS[h] = x, Writer(x),
           NEW M, DOMAIN M = Address,
           NEW s, s.ptr \in Nat, s.len \in Nat, x.len = s.len,
           NEW N, N = CopyBytes(M, s.ptr, x.ptr, s.len)
    PROVE  Confined(x, M, N) /\ Cont(x, N) = Cont(s, M)
<1>1. x.ptr \in Nat /\ x.len \in Nat /\ Size(x) \in Nat /\ x.len <= Size(x)
      /\ Region(x.ptr, Size(x)) \subseteq Address
  BY LengthBound, ReachesMemory DEF Writer
<1>2. Region(x.ptr, x.len) \subseteq DOMAIN M
  BY <1>1 DEF Region
<1>3. /\ DOMAIN N = Address /\ Cont(x, N) = Cont(s, M)
      /\ \A a \in Address : N[a] = M[a] \/ a \in Region(x.ptr, x.len)
  BY <1>1, <1>2, CopyWrites
<1>4. x.ptr <= x.ptr /\ x.ptr + x.len <= x.ptr + Size(x)
  BY <1>1
<1>5. Confined(x, M, N)
  BY <1>1, <1>3, <1>4, WriteConfined
<1> QED BY <1>3, <1>5

(* A copy that replaces a handle, or lives at another place.               *)
LEMMA CopiedTo ==
    ASSUME Ready, NEW h \in Handle, hs[h] # None, NEW g \in Handle, g = h \/ hs[g] = None,
           NEW x, FieldsOK(x), Direct(x), x.len = hs[h].len, Update(g, x),
           Store(CopyBytes(mem, hs[h].ptr, x.ptr, hs[h].len))
    PROVE  Simulated
<1>1. PICK s : s = hs[h]
  OBVIOUS
<1>2. s.ptr \in Nat /\ s.len \in Nat
  BY <1>1, ReadyFields
<1>3. PICK N : N = CopyBytes(mem, s.ptr, x.ptr, s.len)
  OBVIOUS
<1>4. hs'[g] = x /\ Sound(hs', heap') /\ DOMAIN mem = Address
  BY DEF Ready, FilledInv, ViewsInv, Sound, Update
<1>5. x # None /\ Writer(x)
  BY Sorts DEF Writer
<1>6. Confined(x, mem, N) /\ Cont(x, N) = Cont(s, mem)
  <2>1. x.len = s.len
    BY <1>1
  <2> QED BY <1>2, <1>3, <1>4, <1>5, <2>1, CopyIn
<1>7. Leaves(g, x, N)
  BY <1>1, <1>3, <1>6, UpdateLeaves
<1>8. CASE g = h
  BY <1>1, <1>5, <1>6, <1>7, <1>8, SameStep
<1>9. CASE hs[g] = None
  BY <1>1, <1>5, <1>6, <1>7, <1>9, CopyStep
<1> QED BY <1>8, <1>9

(* ptr::copy_nonoverlapping between bytes that do not overlap.             *)
LEMMA DisjointCopy ==
    ASSUME NEW M, NEW p \in Nat, NEW q \in Nat, NEW n \in Nat, p + n <= q \/ q + n <= p
    PROVE  CopyDisjoint(M, p, q, n) = CopyBytes(M, p, q, n)
<1>1. Region(p, n) \cap Region(q, n) = {}
  BY DEF Region
<1> QED BY <1>1 DEF CopyDisjoint

LEMMA CopyToVecShown ==
    ASSUME Ready, NEW h \in Handle, hs[h] # None, NEW toMut \in BOOLEAN, CopyToVec(h, toMut)
    PROVE  Simulated
<1>1. PICK r, H, v, x : /\ r = hs[h] /\ H = DropHandle(heap, r)
                        /\ v = VecAt(NewPtr(H, r.len), r.len, r.len)
                        /\ x = IF toMut THEN MutFromVec(v) ELSE v
  OBVIOUS
<1>2. /\ CanAllocate(H, r.len) /\ Update(h, x)
      /\ Store(CopyBytes(mem, r.ptr, v.ptr, r.len))
  BY <1>1 DEF CopyToVec
<1>3. r.len \in Nat /\ NewPtr(H, r.len) \in Nat /\ r.len <= r.len
  BY <1>1, <1>2, NewPtrNat, ReadyFields
<1>4. FieldsOK(v) /\ v.kind = "Vec" /\ Direct(v) /\ v.len = r.len
  BY <1>1, <1>3, VecFields
<1>5. FieldsOK(x) /\ Direct(x) /\ x.len = r.len /\ x.ptr = v.ptr
  <2>1. CASE toMut
    <3>1. x.len = v.len /\ x.ptr = v.ptr
      BY <1>1, <2>1 DEF MutFromVec, MutAt
    <3> QED BY <1>1, <1>4, <2>1, <3>1, MutFromFields
  <2>2. CASE ~ toMut
    BY <1>1, <1>4, <2>2
  <2> QED BY <2>1, <2>2
<1>6. Store(CopyBytes(mem, hs[h].ptr, x.ptr, hs[h].len)) /\ x.len = hs[h].len
  BY <1>1, <1>2, <1>5
<1> QED BY <1>2, <1>5, <1>6, CopiedTo

LEMMA IntoShown ==
    ASSUME Ready, NEW h \in Handle, IntoVec(h) \/ IntoMut(h)
    PROVE  Simulated
<1>1. PICK r, p, c : r = hs[h] /\ p = OwnPtr(r) /\ c = OwnCap(r)
  OBVIOUS
<1>2. r # None /\ r.kind = "Bytes" /\ FieldsOK(r) /\ Is(h, "Bytes") /\ ViewsInv
  BY <1>1, ReadyFields DEF IntoVec, IntoMut, Is, Ready
<1>3. CASE IsUnique(heap, r) /\ IntoVec(h)
  <2>1. ~ Idle(r)
    BY <1>2, <1>3 DEF IsUnique, Idle, Unpromoted, Promoted
  <2>2. /\ p \in Nat /\ c \in Nat /\ r.ptr \in Nat /\ r.len \in Nat /\ p <= r.ptr
        /\ r.ptr + r.len <= p + c
    BY <1>1, <1>2, <2>1, OwnFields DEF Size
  <2>3. PICK v : v = VecAt(p, r.len, c)
    OBVIOUS
  <2>4. FieldsOK(v) /\ Direct(v) /\ v.ptr = p /\ v.len = r.len
    <3>1. r.len <= c
      BY <2>2
    <3> QED BY <2>2, <2>3, <3>1, VecFields
  <2>5. Update(h, v) /\ Store(ShiftDown(r)) /\ v # None
    BY <1>1, <1>3, <2>3, <2>4, Sorts DEF IntoVec
  <2>6. CASE r.ptr = p
    <3>1. Store(mem)
      BY <1>1, <2>5, <2>6 DEF ShiftDown
    <3> QED BY <1>1, <1>2, <2>4, <2>5, <2>6, <3>1, Rehold
  <2>7. CASE r.ptr # p
    <3>1. ShiftDown(r) = CopyBytes(mem, r.ptr, p, r.len)
      <4>1. CASE r.ptr - p >= r.len
        <5>1. p + r.len <= r.ptr
          BY <2>2, <4>1
        <5>2. ShiftDown(r) = CopyDisjoint(mem, r.ptr, p, r.len)
          BY <1>1, <2>7, <4>1 DEF ShiftDown
        <5> QED BY <2>2, <5>1, <5>2, DisjointCopy
      <4>2. CASE ~ (r.ptr - p >= r.len)
        BY <1>1, <2>7, <4>2 DEF ShiftDown
      <4> QED BY <4>1, <4>2
    <3>2. Store(CopyBytes(mem, hs[h].ptr, v.ptr, hs[h].len)) /\ v.len = hs[h].len
      BY <1>1, <2>4, <2>5, <3>1
    <3> QED BY <1>1, <1>2, <2>4, <2>5, <3>2, CopiedTo
  <2> QED BY <2>6, <2>7
<1>4. CASE IsUnique(heap, r) /\ IntoMut(h)
  <2>1. PICK m : m = MutAt(r.ptr, r.len, c - (r.ptr - p), Offset(r.ptr - p))
    OBVIOUS
  <2>2. Update(h, m) /\ Store(mem)
    BY <1>1, <1>4, <2>1 DEF IntoMut
  <2>3. FieldsOK(m)
    BY <1>1, <1>2, <1>4, <2>1, OwnMut
  <2>4. m.ptr = r.ptr /\ m.len = r.len /\ m # None
    BY <2>1, <2>3, Sorts DEF MutAt
  <2> QED BY <1>1, <1>2, <2>2, <2>4, Rehold
<1>5. CASE ~ IsUnique(heap, r)
  <2>1. CopyToVec(h, FALSE) \/ CopyToVec(h, TRUE)
    BY <1>1, <1>5 DEF IntoVec, IntoMut
  <2> QED BY <1>1, <1>2, <2>1, CopyToVecShown
<1> QED BY <1>3, <1>4, <1>5

LEMMA FreezeShown ==
    ASSUME Ready, NEW h \in Handle, Freeze(h)
    PROVE  Simulated
<1>1. PICK r, n, v : r = hs[h] /\ n = r.data.n /\ v = VecAt(VecPtr(r), r.len + n, VecCap(r))
  OBVIOUS
<1>2. /\ r # None /\ r.kind = "BytesMut" /\ PlaceOK(r, heap) /\ FieldsOK(r) /\ Store(mem)
      /\ r.len \in Nat /\ n \in Nat /\ r.cap \in Nat /\ r.len <= r.cap /\ r.ptr \in Nat
      /\ VecCap(r) = r.cap + n /\ VecPtr(r) = r.ptr - n
  BY <1>1, ReadyFields DEF Freeze, Is, FieldsOK, HandleRecord, VecCap, VecPtr
<1>3. CASE Unpromoted(r)
  <2>1. Direct(r)
    BY <1>2, <1>3, Sorts
  <2>2. PICK p \in Nat, k \in Nat, c \in Nat : p = r.ptr - n /\ k = r.len + n /\ c = VecCap(r) /\ k <= c
    BY <1>2, <2>1, DanglingBehind, BoundsAssumption DEF PlaceOK, Backed
  <2>3. FieldsOK(v) /\ v.kind = "Vec" /\ v.len = k /\ v.ptr = p
    BY <1>1, <1>2, <2>2, VecFields
  <2>4. PICK x, y : x = BytesFromVec(heap, v) /\ y = Advanced(x, n)
    OBVIOUS
  <2>5. CanFreeze(heap, v) /\ Update(h, y)
    BY <1>1, <1>3, <2>4 DEF Freeze
  <2>6. /\ FieldsOK(x) /\ x.kind = "Bytes" /\ x.len = k /\ (k # 0 => x.ptr = p)
    BY <2>3, <2>4, <2>5, FromVecFields
  <2>7. n <= Size(x) /\ n <= x.len
    BY <1>2, <2>2, <2>6 DEF Size
  <2>8. FieldsOK(y) /\ y.ptr = x.ptr + n /\ y.len = x.len - n
    BY <1>2, <2>4, <2>6, <2>7, AdvancedFields
  <2>9. y.len = r.len /\ (y.len = 0 \/ y.ptr = r.ptr) /\ y # None
    <3>1. y.len = r.len
      BY <1>2, <2>2, <2>6, <2>8
    <3>2. k # 0 => y.ptr = r.ptr
      BY <1>2, <2>2, <2>6, <2>8
    <3> QED BY <1>2, <2>2, <2>8, <3>1, <3>2, Sorts
  <2> QED BY <1>1, <1>2, <2>5, <2>9, Rehold
<1>4. CASE ~ Unpromoted(r)
  <2>1. r.data \in [tag : {"null", "offset", "block"}, n : Nat]
    BY <1>2 DEF FieldsOK, HandleRecord
  <2>2. PICK s : s = BytesAt(r.ptr, r.len, r.data)
    OBVIOUS
  <2>3. FieldsOK(s) /\ s.ptr = r.ptr /\ s.len = r.len
    BY <1>2, <2>1, <2>2, BytesFields
  <2>4. Update(h, s) /\ s # None
    BY <1>1, <1>4, <2>2, <2>3, Sorts DEF Freeze
  <2> QED BY <1>1, <1>2, <2>3, <2>4, Rehold
<1> QED BY <1>3, <1>4

LEMMA MutCloneShown ==
    ASSUME Ready, NEW h \in Handle, NEW g \in Handle, MutClone(h, g)
    PROVE  Simulated
<1>1. PICK n, p, r : n = hs[h].len /\ p = NewPtr(heap, n) /\ r = MutAt(p, n, n, Offset(0))
  OBVIOUS
<1>2. /\ Update(g, r) /\ CanAllocate(heap, n) /\ hs[g] = None /\ hs[h] # None
      /\ Store(CopyBytes(mem, hs[h].ptr, p, n))
  BY <1>1 DEF MutClone, Vacant, Is
<1>3. n \in Nat /\ n <= n /\ 0 \in Nat
  BY <1>1, <1>2, ReadyFields
<1>4. p \in Nat
  BY <1>1, <1>2, NewPtrNat
<1>5. FieldsOK(r) /\ Direct(r)
  BY <1>1, <1>3, <1>4, OffsetMut
<1>6. r.len = n /\ r.ptr = p
  BY <1>1 DEF MutAt
<1>7. r.len = hs[h].len /\ Store(CopyBytes(mem, hs[h].ptr, r.ptr, hs[h].len))
  BY <1>1, <1>2, <1>6
<1> QED BY <1>2, <1>5, <1>7, CopiedTo

(* A new allocation is apart from every view.                              *)
LEMMA NewIsApart ==
    ASSUME ViewsInv, NEW h \in Handle, hs[h] # None, NEW c \in Nat, CanAllocate(heap, c),
           hs[h].len <= c, NEW q, q = NewPtr(heap, c)
    PROVE  q \in Nat /\ (hs[h].ptr + hs[h].len <= q \/ q + hs[h].len <= hs[h].ptr)
<1>1. PICK r : r = hs[h]
  OBVIOUS
<1>2. /\ r.ptr \in Nat /\ r.len \in 0..MaxCap /\ r.len \in Nat /\ Size(r) \in Nat /\ r.len <= Size(r)
      /\ q \in Nat /\ r # None
  BY <1>1, LengthBound, NewPtrNat, BoundsAssumption DEF ViewsInv
<1>3. CASE r.len = 0
  BY <1>1, <1>2, <1>3
<1>4. CASE r.len # 0
  <2>1. Size(r) # 0 /\ c # 0 /\ c <= MaxCap
    BY <1>1, <1>2, <1>4 DEF CanAllocate
  <2>2. PICK i \in 0..Buffers : LiesIn(r, heap, i)
    BY <1>1, <1>2, <2>1, ViewLies DEF ViewsInv
  <2>3. PICK d, k : d = Base(i) /\ k = heap.size[i]
    OBVIOUS
  <2>4. d \in Nat /\ k \in 0..MaxCap /\ d <= r.ptr /\ r.ptr + Size(r) <= d + k /\ k # 0
    BY <1>2, <2>1, <2>2, <2>3, BoundsAssumption DEF LiesIn
  <2>5. FreeBuffers(heap) \in SUBSET Nat /\ FreeBuffers(heap) # {}
    BY <2>1 DEF CanAllocate, FreeBuffers
  <2>6. PICK j \in FreeBuffers(heap) : j = Least(FreeBuffers(heap))
    BY <2>5, LeastIn
  <2>7. j \in Nat /\ i \in Nat /\ heap.size[j] = 0 /\ i # j /\ q = Base(j)
    <3>1. j \in 1..Buffers /\ heap.size[j] = 0
      BY DEF FreeBuffers
    <3>2. q = Base(j)
      BY <2>1, <2>6 DEF NewPtr
    <3>3. heap.size[i] # 0
      BY <2>3, <2>4
    <3> QED BY <3>1, <3>2, <3>3, BoundsAssumption
  <2>8. \/ d + MaxCap + Gap <= q
        \/ q + MaxCap + Gap <= d
    <3>1. CASE i < j
      BY <2>3, <2>7, <3>1, BaseOrder
    <3>2. CASE j < i
      BY <2>3, <2>7, <3>2, BaseOrder
    <3> QED BY <2>7, <3>1, <3>2
  <2> QED BY <1>1, <1>2, <2>4, <2>8, BoundsAssumption
<1> QED BY <1>3, <1>4

(* n bytes, all of them written.                                           *)
UserBytes(n) == [1..n -> {Plain, Mark}]

(* What is written is what the user may show.                              *)
LEMMA UserWrites ==
    ASSUME NEW M, NEW x, x.ptr \in Nat, x.len \in Nat, Region(x.ptr, x.len) \subseteq DOMAIN M, NEW m,
           NEW N, N = Written(M, x.ptr, x.len, m)
    PROVE  /\ DOMAIN N = DOMAIN M /\ Cont(x, N) \in UserBytes(x.len)
           /\ \A a \in DOMAIN M : N[a] = M[a] \/ a \in Region(x.ptr, x.len)
<1>1. PICK p, n : p = x.ptr /\ n = x.len
  OBVIOUS
<1>2. N = [a \in DOMAIN M |-> IF a \in Region(p, n) THEN ByteAt(a - p + 1, m) ELSE M[a]]
  BY <1>1 DEF Written
<1>3. ASSUME NEW i \in 1..n PROVE Read(N, p + i - 1) \in {Plain, Mark}
  <2>1. PICK a : a = p + i - 1
    OBVIOUS
  <2>2. a \in Region(p, n)
    BY <1>1, <2>1 DEF Region
  <2>3. a \in DOMAIN M
    BY <1>1, <2>2
  <2>4. a \in DOMAIN N /\ N[a] = ByteAt(a - p + 1, m)
    BY <1>2, <2>2, <2>3
  <2> QED BY <2>1, <2>4 DEF Read, ByteAt
<1>4. Cont(x, N) \in UserBytes(x.len)
  BY <1>1, <1>3 DEF Cont, UserBytes
<1> QED BY <1>1, <1>2, <1>4

(* Bytes that are not written stay.                                        *)
LEMMA OutsideKeeps ==
    ASSUME NEW M, NEW N, DOMAIN N = DOMAIN M, NEW q \in Nat, NEW n \in Nat,
           \A a \in DOMAIN M : N[a] = M[a] \/ a \in Region(q, n),
           NEW s, s.ptr \in Nat, s.len \in Nat, s.ptr + s.len <= q \/ q + n <= s.ptr
    PROVE  Cont(s, N) = Cont(s, M)
<1>1. ASSUME NEW i \in 1..s.len PROVE Read(N, s.ptr + i - 1) = Read(M, s.ptr + i - 1)
  <2>1. PICK a : a = s.ptr + i - 1
    OBVIOUS
  <2>2. a \notin Region(q, n)
    BY <2>1 DEF Region
  <2> QED BY <2>1, <2>2 DEF Read
<1> QED BY <1>1 DEF Cont

LEMMA NewVecShown ==
    ASSUME Ready, NEW h \in Handle, NEW cap \in Nat, NEW len \in Nat, len <= cap, NEW m,
           NewVec(h, len, cap, m)
    PROVE  Simulated
<1>1. NewPtr(heap, cap) \in Nat
  BY NewPtrNat DEF NewVec
<1>2. PICK p, v : p = NewPtr(heap, cap) /\ v = VecAt(p, len, cap)
  OBVIOUS
<1>3. FieldsOK(v) /\ Direct(v) /\ v.ptr = p /\ v.len = len /\ v.cap = cap /\ v.kind = "Vec"
  BY <1>1, <1>2, VecFields
<1>4. PICK N : N = Written(mem, p, len, m)
  OBVIOUS
<1>5. Update(h, v) /\ hs[h] = None /\ Store(N)
  BY <1>2, <1>4 DEF NewVec, Vacant
<1>6. hs'[h] = v /\ Sound(hs', heap') /\ DOMAIN mem = Address
  BY <1>5 DEF Ready, FilledInv, ViewsInv, Sound, Update
<1>7. Writer(v) /\ v # None /\ Size(v) = cap /\ p \in Nat
  BY <1>1, <1>2, <1>3, Sorts DEF Writer, Size
<1>8. p <= v.ptr /\ v.ptr + len <= v.ptr + Size(v) /\ v.ptr <= p
  BY <1>3, <1>7
<1>9. Region(p, len) \subseteq Address
  <2>1. Region(v.ptr, Size(v)) \subseteq Address
    BY <1>6, <1>7, ReachesMemory
  <2> QED BY <1>3, <1>7, <2>1 DEF Region
<1>10. /\ DOMAIN N = Address /\ Cont(v, N) \in UserBytes(len)
       /\ \A a \in Address : N[a] = mem[a] \/ a \in Region(p, len)
  <2>1. /\ v.ptr \in Nat /\ v.len \in Nat /\ Region(v.ptr, v.len) \subseteq DOMAIN mem
        /\ N = Written(mem, v.ptr, v.len, m)
    BY <1>3, <1>4, <1>6, <1>7, <1>9
  <2>2. /\ DOMAIN N = DOMAIN mem /\ Cont(v, N) \in UserBytes(v.len)
        /\ \A a \in DOMAIN mem : N[a] = mem[a] \/ a \in Region(v.ptr, v.len)
    BY <2>1, UserWrites
  <2> QED BY <1>3, <1>6, <2>2
<1>11. Confined(v, mem, N)
  BY <1>3, <1>6, <1>7, <1>8, <1>10, WriteConfined
<1>12. Leaves(h, v, N)
  BY <1>5, <1>11, UpdateLeaves
<1>13. Cont(v, N) \in Vectors!Vector
  <2>1. len \in 0..MaxCap
    BY <1>3, <1>6, <1>7, LengthBound
  <2> QED BY <1>10, <2>1 DEF Vectors!Vector, UserBytes
<1> QED BY <1>5, <1>7, <1>12, <1>13, CreateStep

-----------------------------------------------------------------------------
(* Methods that make room.                                                 *)

(* The bytes are in o.mem where o.r has them.                              *)
Carries(r, o) ==
    /\ DOMAIN o.mem = Address /\ Confined(o.r, mem, o.mem)
    /\ o.r.len = r.len /\ Cont(o.r, o.mem) = Cont(r, mem)

(* ... when nothing is moved                                               *)
LEMMA CarriesSame ==
    ASSUME FilledInv, NEW r, NEW x, x.len = r.len, x.ptr = r.ptr,
           NEW o, o.r = x, o.mem = mem
    PROVE  Carries(r, o)
<1>1. DOMAIN mem = Address
  BY DEF FilledInv
<1>2. Confined(x, mem, mem) /\ Cont(x, mem) = Cont(r, mem)
  BY <1>1 DEF Confined, Cont
<1> QED BY <1>1, <1>2 DEF Carries

(* ... when all of them are copied to a place apart                        *)
LEMMA CarriesCopy ==
    ASSUME ViewsInv, FilledInv, NEW h \in Handle, hs[h] # None, NEW x, NEW G,
           Sound([hs EXCEPT ![h] = x], G), FieldsOK(x), x.kind = "BytesMut", x.len = hs[h].len,
           hs[h].ptr + hs[h].len <= x.ptr \/ x.ptr + hs[h].len <= hs[h].ptr,
           NEW o, o.r = x, o.mem = CopyDisjoint(mem, hs[h].ptr, x.ptr, hs[h].len)
    PROVE  Carries(hs[h], o)
<1>1. PICK r, N, HT : /\ r = hs[h] /\ N = CopyBytes(mem, r.ptr, x.ptr, r.len)
                      /\ HT = [hs EXCEPT ![h] = x]
  OBVIOUS
<1>2. r.ptr \in Nat /\ r.len \in Nat /\ x.ptr \in Nat /\ x.len = r.len /\ DOMAIN mem = Address
  BY <1>1 DEF ViewsInv, Sound, PlaceOK, FieldsOK, HandleRecord, FilledInv
<1>3. o.mem = N /\ o.r = x
  BY <1>1, <1>2, DisjointCopy
<1>4. HT[h] = x /\ Sound(HT, G) /\ Writer(x)
  BY <1>1, Sorts DEF ViewsInv, Sound, Writer
<1>5. Confined(x, mem, N) /\ Cont(x, N) = Cont(r, mem)
  <2>1. PICK M : M = mem
    OBVIOUS
  <2>2. N = CopyBytes(M, r.ptr, x.ptr, r.len) /\ DOMAIN M = Address
    BY <1>1, <1>2, <2>1
  <2>3. r.ptr \in Nat /\ r.len \in Nat /\ x.len = r.len
    BY <1>2
  <2>4. Confined(x, M, N) /\ Cont(x, N) = Cont(r, M)
    BY <1>4, <2>2, <2>3, CopyIn
  <2> QED BY <2>1, <2>4
<1>6. DOMAIN N = Address
  BY <1>5 DEF Confined
<1>7. o.r.len = r.len
  BY <1>1, <1>2, <1>3
<1> QED BY <1>1, <1>3, <1>5, <1>6, <1>7 DEF Carries

LEMMA ReserveInnerCarries ==
    ASSUME ViewsInv, FilledInv, NEW h \in Handle, Is(h, "BytesMut"), NEW n \in Nat,
           NEW allocate \in BOOLEAN,
           allocate => \/ TailSuffices(hs[h], n) \/ HeadSuffices(hs[h], n)
                       \/ CanAllocate(heap, NewCap(WithTail(hs[h]), n)),
           NEW o, o = ReserveInner(hs[h], n, allocate)
    PROVE  Carries(hs[h], o)
<1>1. PICK r, w : r = hs[h] /\ w = WithTail(r)
  OBVIOUS
<1>2. r # None /\ r.kind = "BytesMut" /\ PlaceOK(r, heap) /\ FieldsOK(r) /\ ~ Idle(r)
      /\ r.cap \in Nat /\ r.len \in Nat /\ r.len <= r.cap /\ r.ptr \in Nat /\ Size(r) = r.cap
  BY <1>1 DEF Is, Idle, ViewsInv, Sound, PlaceOK, FieldsOK, HandleRecord, Size
<1>3. /\ FieldsOK(w) /\ w.kind = "BytesMut" /\ w.ptr = r.ptr /\ w.len = r.len
      /\ r.cap <= w.cap /\ w.cap \in Nat
  <2>1. /\ FieldsOK(w) /\ w.kind = "BytesMut" /\ w.ptr = r.ptr /\ w.len = r.len /\ r.cap <= w.cap
    BY <1>1, WithTailSound
  <2> QED BY <2>1 DEF FieldsOK, HandleRecord
<1>4. /\ Sound([hs EXCEPT ![h] = o.r], o.heap) /\ FieldsOK(o.r) /\ o.r.kind = "BytesMut"
      /\ o.r.len = r.len
  BY <1>1, ReserveInnerSound
<1>5. CASE n = 0
  <2>1. o = Outcome(r, heap, mem, TRUE)
    BY <1>1, <1>5 DEF ReserveInner
  <2>2. o.r = r /\ o.mem = mem
    BY <2>1 DEF Outcome
  <2> QED BY <1>1, <2>2, CarriesSame
<1>6. CASE n > 0 /\ TailSuffices(r, n)
  <2>1. Promoted(r)
    <3> SUFFICES ASSUME ~ Promoted(r) PROVE FALSE
      OBVIOUS
    <3>1. w = r /\ w.cap - r.cap >= n
      BY <1>1, <1>6 DEF WithTail, TailSuffices
    <3> QED BY <1>2, <1>6, <3>1
  <2>2. o = Outcome(w, heap, mem, TRUE)
    BY <1>1, <1>6, <2>1 DEF ReserveInner
  <2>3. o.r = w /\ o.mem = mem
    BY <2>2 DEF Outcome
  <2> QED BY <1>1, <1>3, <2>3, CarriesSame
<1>7. CASE n > 0 /\ ~ TailSuffices(r, n) /\ HeadSuffices(r, n)
  <2>1. PICK x, M : x = MovedDown(w) /\ M = CopyDisjoint(mem, r.ptr, OwnPtr(r), r.len)
    OBVIOUS
  <2>2. o = Outcome(x, heap, M, TRUE)
    <3>1. n # 0 /\ o = ReserveInner(r, n, allocate)
      BY <1>1, <1>7
    <3> QED BY <1>1, <1>7, <2>1, <3>1, ReserveCases, Zenon
  <2>3. o.r = x /\ o.mem = M
    BY <2>2 DEF Outcome
  <2>4. IsUnique(heap, r) /\ r.ptr - OwnPtr(r) >= r.len
    BY <1>7 DEF HeadSuffices, HeadOffset
  <2>5. x.ptr = OwnPtr(r) /\ OwnPtr(r) \in Nat
    BY <1>1, <1>2, <2>1, <2>4, MovedDownSound, OwnFields
  <2>6. x.ptr + r.len <= r.ptr
    BY <1>2, <2>4, <2>5
  <2>7. o.mem = CopyDisjoint(mem, r.ptr, x.ptr, r.len)
    BY <2>1, <2>3, <2>5
  <2> QED BY <1>1, <1>2, <1>4, <2>3, <2>6, <2>7, CarriesCopy
<1>8. CASE n > 0 /\ ~ TailSuffices(r, n) /\ ~ HeadSuffices(r, n) /\ ~ allocate
  <2>1. o = Outcome(w, heap, mem, FALSE)
    <3>1. n # 0 /\ o = ReserveInner(r, n, allocate)
      BY <1>1, <1>8
    <3> QED BY <1>1, <1>8, <3>1, ReserveCases, Zenon
  <2>2. o.r = w /\ o.mem = mem
    BY <2>1 DEF Outcome
  <2> QED BY <1>1, <1>3, <2>2, CarriesSame
<1>9. CASE n > 0 /\ ~ TailSuffices(r, n) /\ ~ HeadSuffices(r, n) /\ allocate
  <2>1. PICK cap, ptr : cap = NewCap(w, n) /\ ptr = NewPtr(heap, cap)
    OBVIOUS
  <2>2. PICK x, M, G : /\ x = MutAt(ptr, r.len, cap, Offset(0))
                       /\ M = CopyDisjoint(mem, r.ptr, ptr, r.len)
                       /\ G = DropHandle(Allocate(heap, cap), w)
    OBVIOUS
  <2>3. o = Outcome(x, G, M, TRUE)
    <3>1. n # 0 /\ o = ReserveInner(r, n, allocate)
      BY <1>1, <1>9
    <3> QED BY <1>1, <1>9, <2>1, <2>2, <3>1, ReserveCases, Zenon
  <2>4. o.r = x /\ o.mem = M
    BY <2>3 DEF Outcome
  <2>5. CanAllocate(heap, cap)
    BY <1>1, <1>9, <2>1
  <2>6. cap \in Nat /\ r.len <= cap
    BY <1>2, <1>3, <1>9, <2>1 DEF NewCap
  <2>7. x.ptr = ptr
    BY <2>2 DEF MutAt
  <2>8. r.ptr + r.len <= ptr \/ ptr + r.len <= r.ptr
    BY <1>1, <1>2, <2>1, <2>5, <2>6, NewIsApart
  <2>9. o.mem = CopyDisjoint(mem, r.ptr, x.ptr, r.len)
    BY <2>2, <2>4, <2>7
  <2> QED BY <1>1, <1>2, <1>4, <2>4, <2>7, <2>8, <2>9, CarriesCopy
<1> QED BY <1>5, <1>6, <1>7, <1>8, <1>9

LEMMA ReservedCarries ==
    ASSUME ViewsInv, FilledInv, NEW h \in Handle, Is(h, "BytesMut"), NEW n \in Nat, NEW o,
           \/ o = Outcome(hs[h], heap, mem, TRUE)
           \/ CanReserve(hs[h], n) /\ o = Reserved(hs[h], n)
           \/ o = Reclaimed(hs[h], n)
    PROVE  Carries(hs[h], o)
<1>1. CASE o = Outcome(hs[h], heap, mem, TRUE)
  <2>1. o.r = hs[h] /\ o.mem = mem
    BY <1>1 DEF Outcome
  <2> QED BY <2>1, CarriesSame
<1>2. CASE ~ (Spare(hs[h]) >= n) /\ CanReserve(hs[h], n) /\ o = Reserved(hs[h], n)
  <2>1. o = ReserveInner(hs[h], n, TRUE)
    BY <1>2 DEF Reserved
  <2>2. \/ TailSuffices(hs[h], n) \/ HeadSuffices(hs[h], n)
        \/ CanAllocate(heap, NewCap(WithTail(hs[h]), n))
    BY <1>2 DEF CanReserve
  <2> QED BY <2>1, <2>2, ReserveInnerCarries
<1>3. CASE ~ (Spare(hs[h]) >= n) /\ o = Reclaimed(hs[h], n)
  <2>1. o = ReserveInner(hs[h], n, FALSE)
    BY <1>3 DEF Reclaimed
  <2> QED BY <2>1, ReserveInnerCarries
<1>4. CASE Spare(hs[h]) >= n /\ (o = Reserved(hs[h], n) \/ o = Reclaimed(hs[h], n))
  BY <1>1, <1>4 DEF Reserved, Reclaimed
<1> QED BY <1>1, <1>2, <1>3, <1>4

LEMMA ReserveShown ==
    ASSUME Ready, NEW h \in Handle, NEW n \in Nat,
           Reserve(h, n) \/ TryReclaim(h, n) \/ TryReclaimFull(h)
    PROVE  Simulated
<1>1. Is(h, "BytesMut") /\ hs[h] # None /\ ViewsInv /\ FilledInv
  BY DEF Reserve, TryReclaim, TryReclaimFull, Is, Ready
<1>2. PICK o : Becomes(h, o) /\ Carries(hs[h], o) /\ FieldsOK(o.r)
  <2>1. CASE Reserve(h, n)
    <3>1. PICK o : o = Reserved(hs[h], n) /\ CanReserve(hs[h], n) /\ Becomes(h, o)
      BY <2>1 DEF Reserve
    <3> QED BY <1>1, <3>1, ReservedSound, ReservedCarries
  <2>2. CASE TryReclaim(h, n)
    <3>1. PICK o : o = Reclaimed(hs[h], n) /\ Becomes(h, o)
      BY <2>2 DEF TryReclaim
    <3>2. Carries(hs[h], o)
      BY <1>1, <3>1, ReservedCarries
    <3>3. FieldsOK(o.r)
      <4>1. Sound([hs EXCEPT ![h] = o.r], o.heap)
        BY <1>1, <3>1, ReclaimedSound
      <4>2. o.r # None
        <5>1. CASE Spare(hs[h]) >= n
          BY <1>1, <3>1, <5>1 DEF Reclaimed, Outcome
        <5>2. CASE ~ (Spare(hs[h]) >= n)
          <6>1. o = ReserveInner(hs[h], n, FALSE)
            BY <3>1, <5>2 DEF Reclaimed
          <6> QED BY <1>1, <6>1, ReserveInnerSound, Sorts
        <5> QED BY <5>1, <5>2
      <4> QED BY <4>1, <4>2 DEF Sound, PlaceOK
    <3> QED BY <3>1, <3>2, <3>3
  <2>3. CASE TryReclaimFull(h)
    <3>1. PICK k \in Nat : Becomes(h, ReserveInner(hs[h], k, FALSE))
      BY <1>1, <2>3, LeftoverNat DEF TryReclaimFull, FullyReclaimed
    <3>2. PICK o : o = ReserveInner(hs[h], k, FALSE)
      OBVIOUS
    <3> QED BY <1>1, <3>1, <3>2, ReserveInnerSound, ReserveInnerCarries
  <2> QED BY <2>1, <2>2, <2>3
<1>3. Update(h, o.r) /\ Store(o.mem) /\ o.r # None
  BY <1>2, Sorts DEF Becomes
<1>4. Confined(o.r, mem, o.mem) /\ Cont(o.r, o.mem) = Cont(hs[h], mem)
  BY <1>2 DEF Carries
<1>5. Leaves(h, o.r, o.mem)
  BY <1>3, <1>4, UpdateLeaves
<1> QED BY <1>1, <1>3, <1>4, <1>5, SameStep

-----------------------------------------------------------------------------
(* Methods that append.                                                    *)

(* The n bytes behind those that o.r has are written, and counted.         *)
Behind(r, n) == [ptr |-> r.ptr + r.len, len |-> n]
Longer(r, n) == [r EXCEPT !.len = @ + n]

LEMMA LongerFields ==
    ASSUME NEW r, FieldsOK(r), r.kind = "BytesMut", NEW n \in Nat, n <= Spare(r)
    PROVE  /\ FieldsOK(Longer(r, n)) /\ Longer(r, n).kind = "BytesMut"
           /\ Longer(r, n).ptr = r.ptr /\ Longer(r, n).len = r.len + n
           /\ Size(Longer(r, n)) = r.cap /\ Size(r) = r.cap
           /\ r.ptr \in Nat /\ r.len \in Nat /\ r.cap \in Nat /\ r.len + n <= r.cap
           /\ Behind(r, n).ptr = r.ptr + r.len /\ Behind(r, n).len = n
<1>1. r \in HandleRecord /\ r.ptr \in Nat /\ r.len \in Nat /\ r.cap \in Nat /\ r.len + n <= r.cap
  BY DEF FieldsOK, HandleRecord, Spare
<1>2. PICK k \in Nat : k = r.len + n /\ k <= r.cap
  BY <1>1
<1>3. PICK s : s = [r EXCEPT !.len = k]
  OBVIOUS
<1>4. /\ s \in HandleRecord /\ s.kind = "BytesMut" /\ s.ptr = r.ptr /\ s.len = k /\ s.cap = r.cap
      /\ s.data = r.data
  BY <1>1, <1>3 DEF HandleRecord
<1>5. FieldsOK(s) /\ Size(s) = r.cap /\ Size(r) = r.cap
  BY <1>2, <1>4 DEF FieldsOK, Size
<1>6. s = Longer(r, n)
  BY <1>1, <1>2, <1>3 DEF Longer, HandleRecord
<1>7. Behind(r, n).ptr = r.ptr + r.len /\ Behind(r, n).len = n
  BY DEF Behind
<1> QED BY <1>1, <1>2, <1>4, <1>5, <1>6, <1>7

(* A view with more bytes shows those it had and those behind them.        *)
LEMMA LongerCont ==
    ASSUME NEW x, FieldsOK(x), x.kind = "BytesMut", NEW n \in Nat, n <= Spare(x), NEW N
    PROVE  Cont(Longer(x, n), N) = Cont(x, N) \o Cont(Behind(x, n), N)
<1>1. PICK s, t : s = Longer(x, n) /\ t = Behind(x, n)
  OBVIOUS
<1>2. /\ x.len \in Nat /\ t.len \in Nat /\ x.ptr \in Int /\ t.ptr \in Int
      /\ s.len = x.len + t.len /\ s.ptr = x.ptr /\ t.ptr = x.ptr + x.len
  BY <1>1, LongerFields
<1>3. Cont(s, N) = Cont(x, N) \o Cont(t, N)
  BY <1>2, AppendCont
<1> QED BY <1>1, <1>3

LEMMA Appended ==
    ASSUME ViewsInv, FilledInv, NEW h \in Handle, hs[h] # None, NEW x, NEW M, NEW G,
           Confined(x, mem, M), x.len = hs[h].len, Cont(x, M) = Cont(hs[h], mem),
           Sound([hs EXCEPT ![h] = x], G), FieldsOK(x), x.kind = "BytesMut",
           NEW n \in Nat, n <= Spare(x), NEW N, DOMAIN N = Address,
           \A a \in Address : N[a] = M[a] \/ a \in Region(x.ptr + x.len, n)
    PROVE  Confined(Longer(x, n), mem, N) /\ Cont(x, N) = Cont(hs[h], mem)
<1>1. PICK r, HT, q : r = hs[h] /\ HT = [hs EXCEPT ![h] = x] /\ q = x.ptr + x.len
  OBVIOUS
<1>2. PICK s : s = Longer(x, n)
  OBVIOUS
<1>3. /\ FieldsOK(s) /\ s.kind = "BytesMut" /\ s.ptr = x.ptr /\ Size(s) = x.cap /\ Size(x) = x.cap
      /\ x.ptr \in Nat /\ x.len \in Nat /\ x.cap \in Nat /\ x.len + n <= x.cap
  BY <1>2, LongerFields
<1>4. Writer(s) /\ Writer(x) /\ HT[h] = x /\ Sound(HT, G)
  BY <1>1, <1>3, Sorts DEF Writer, ViewsInv, Sound
<1>5. DOMAIN M = Address /\ DOMAIN mem = Address
  BY DEF Confined
<1>6. q \in Nat /\ x.ptr <= q /\ q + n <= x.ptr + Size(x)
  BY <1>1, <1>3
<1>7. \A a \in Address : N[a] = M[a] \/ a \in Region(q, n)
  BY <1>1
<1>8. Confined(x, M, N)
  BY <1>4, <1>5, <1>6, <1>7, WriteConfined
<1>9. Confined(s, mem, N)
  BY <1>3, <1>4, <1>5, <1>8 DEF Confined
<1>10. Cont(x, N) = Cont(x, M)
  <2>1. x.ptr + x.len <= q
    BY <1>1, <1>3
  <2> QED BY <1>3, <1>5, <1>6, <1>7, <2>1, OutsideKeeps
<1> QED BY <1>2, <1>9, <1>10

(* There is memory behind.                                                 *)
LEMMA BehindIsMemory ==
    ASSUME ViewsInv, NEW h \in Handle, NEW x, NEW G, Sound([hs EXCEPT ![h] = x], G), FieldsOK(x),
           x.kind = "BytesMut", NEW n \in Nat, n <= Spare(x)
    PROVE  Region(x.ptr + x.len, n) \subseteq Address
<1>1. PICK HT : HT = [hs EXCEPT ![h] = x]
  OBVIOUS
<1>2. HT[h] = x /\ Sound(HT, G) /\ x # None
  BY <1>1, Sorts DEF ViewsInv, Sound
<1>3. Region(x.ptr, Size(x)) \subseteq Address
  BY <1>2, ReachesMemory
<1>4. x.ptr \in Nat /\ x.len \in Nat /\ Size(x) = x.cap /\ x.cap \in Nat /\ x.len + n <= x.cap
  BY LongerFields
<1> QED BY <1>3, <1>4 DEF Region

(* extend_from_slice, put_slice, chunk_mut with advance_mut                *)
LEMMA WriteShown ==
    ASSUME Ready, NEW h \in Handle, NEW n \in Nat, NEW m, Extend(h, n, m) \/ FillChunk(h, n, m)
    PROVE  Simulated
<1>1. Is(h, "BytesMut") /\ hs[h] # None /\ ViewsInv /\ FilledInv
  BY DEF Extend, FillChunk, Is, Ready
<1>2. PICK o : /\ Carries(hs[h], o) /\ Sound([hs EXCEPT ![h] = o.r], o.heap) /\ FieldsOK(o.r)
               /\ o.r.kind = "BytesMut" /\ n <= Spare(o.r)
               /\ Becomes(h, Outcome(Longer(o.r, n), o.heap,
                                     Written(o.mem, o.r.ptr + o.r.len, n, m), TRUE))
  <2>1. CASE Extend(h, n, m)
    <3>1. PICK o : /\ o = Reserved(hs[h], n) /\ CanReserve(hs[h], n)
                   /\ Becomes(h, Outcome(Longer(o.r, n), o.heap,
                                         Written(o.mem, o.r.ptr + o.r.len, n, m), TRUE))
      BY <2>1 DEF Extend, Longer
    <3>2. /\ Sound([hs EXCEPT ![h] = o.r], o.heap) /\ FieldsOK(o.r) /\ o.r.kind = "BytesMut"
          /\ Spare(o.r) >= n
      BY <1>1, <3>1, ReservedSound
    <3>3. n <= Spare(o.r)
      BY <3>2 DEF Spare, FieldsOK, HandleRecord
    <3> QED BY <1>1, <3>1, <3>2, <3>3, ReservedCarries
  <2>2. CASE FillChunk(h, n, m)
    <3>1. PICK o : /\ o = Opened(hs[h]) /\ n <= Spare(o.r)
                   /\ hs[h].cap = hs[h].len => CanReserve(hs[h], Growth)
                   /\ Becomes(h, Outcome(Longer(o.r, n), o.heap,
                                         Written(o.mem, o.r.ptr + o.r.len, n, m), TRUE))
      BY <2>2 DEF FillChunk, Longer
    <3>2. CASE hs[h].cap = hs[h].len
      <4>1. o = Reserved(hs[h], Growth) /\ CanReserve(hs[h], Growth) /\ Growth \in Nat
        BY <3>1, <3>2, BoundsAssumption DEF Opened
      <4> QED BY <1>1, <3>1, <4>1, ReservedSound, ReservedCarries
    <3>3. CASE hs[h].cap # hs[h].len
      <4>1. o = Outcome(hs[h], heap, mem, TRUE)
        BY <3>1, <3>3 DEF Opened
      <4>2. o.r = hs[h] /\ o.heap = heap
        BY <4>1 DEF Outcome
      <4>3. Sound([hs EXCEPT ![h] = o.r], o.heap) /\ FieldsOK(o.r) /\ o.r.kind = "BytesMut"
        BY <1>1, <4>2, SameSound
      <4>4. Carries(hs[h], o)
        BY <1>1, <4>1, ReservedCarries
      <4> QED BY <3>1, <4>3, <4>4
    <3> QED BY <3>2, <3>3
  <2> QED BY <2>1, <2>2
<1>3. PICK x, M, t, s, N : /\ x = o.r /\ M = o.mem /\ t = Behind(x, n) /\ s = Longer(x, n)
                           /\ N = Written(M, x.ptr + x.len, n, m)
  OBVIOUS
<1>4. Update(h, s) /\ Store(N)
  BY <1>2, <1>3 DEF Becomes, Outcome
<1>5. /\ FieldsOK(x) /\ x.kind = "BytesMut" /\ n <= Spare(x) /\ Sound([hs EXCEPT ![h] = x], o.heap)
      /\ Confined(x, mem, M) /\ DOMAIN M = Address /\ x.len = hs[h].len
      /\ Cont(x, M) = Cont(hs[h], mem)
  BY <1>2, <1>3 DEF Carries
<1>6. /\ FieldsOK(s) /\ s.ptr = x.ptr /\ s.len = x.len + n /\ x.ptr \in Nat /\ x.len \in Nat
      /\ t.ptr = x.ptr + x.len /\ t.len = n
  BY <1>3, <1>5, LongerFields
<1>7. /\ DOMAIN N = Address /\ Cont(t, N) \in UserBytes(n)
      /\ \A a \in Address : N[a] = M[a] \/ a \in Region(x.ptr + x.len, n)
  <2>1. Region(x.ptr + x.len, n) \subseteq Address
    BY <1>1, <1>5, BehindIsMemory
  <2>2. /\ t.ptr \in Nat /\ t.len \in Nat /\ Region(t.ptr, t.len) \subseteq DOMAIN M
        /\ N = Written(M, t.ptr, t.len, m)
    BY <1>3, <1>5, <1>6, <2>1
  <2>3. /\ DOMAIN N = DOMAIN M /\ Cont(t, N) \in UserBytes(t.len)
        /\ \A a \in DOMAIN M : N[a] = M[a] \/ a \in Region(t.ptr, t.len)
    BY <2>2, UserWrites
  <2> QED BY <1>5, <1>6, <2>3
<1>8. Confined(s, mem, N) /\ Cont(x, N) = Cont(hs[h], mem)
  BY <1>1, <1>3, <1>5, <1>7, Appended
<1>9. Leaves(h, s, N) /\ s # None
  BY <1>4, <1>6, <1>8, UpdateLeaves, Sorts
<1>10. Vectors!Prefix(Cont(s, N), hs[h].len) = Cont(hs[h], mem)
  <2>1. Cont(x, N) = Vectors!Prefix(Cont(s, N), x.len)
    BY <1>6, PrefixCont
  <2> QED BY <1>5, <1>8, <2>1
<1>11. Cont(s, N) \in Vectors!Vector
  <2>1. s.len \in 0..MaxCap
    <3>1. hs'[h] = s /\ Sound(hs', heap')
      BY <1>9 DEF Leaves, Ready, ViewsInv
    <3> QED BY <1>9, <3>1, LengthBound
  <2>2. Cont(t, N) \in Vectors!Vector
    <3>1. n \in 0..MaxCap
      BY <1>6, <2>1, BoundsAssumption
    <3> QED BY <1>7, <3>1 DEF UserBytes, Vectors!Vector
  <2>3. Cont(x, N) \in Vectors!Vector
    BY <1>1, <1>8 DEF FilledInv
  <2>4. Cont(s, N) = Cont(x, N) \o Cont(t, N)
    <3>1. Cont(Longer(x, n), N) = Cont(x, N) \o Cont(Behind(x, n), N)
      BY <1>5, LongerCont
    <3> QED BY <1>3, <3>1
  <2>5. Len(Cont(x, N)) = x.len /\ Len(Cont(t, N)) = n
    BY <1>6 DEF Cont
  <2>6. Len(Cont(x, N)) + Len(Cont(t, N)) <= MaxCap
    BY <1>6, <2>1, <2>5, BoundsAssumption
  <2>7. PICK u, v : u = Cont(x, N) /\ v = Cont(t, N)
    OBVIOUS
  <2>8. u \o v \in Vectors!Vector
    BY <2>2, <2>3, <2>6, <2>7, VectorConcat
  <2> QED BY <2>4, <2>7, <2>8
<1>12. s.len \in Nat /\ hs[h].len <= s.len
  BY <1>5, <1>6
<1> QED BY <1>1, <1>9, <1>10, <1>11, <1>12, ExtendStep

(* The bytes of one handle are appended to another by copying: the source  *)
(* keeps them while room is made, and the room is apart from the source.   *)
LEMMA AppendCopyShown ==
    ASSUME Ready, NEW h \in Handle, NEW g \in Handle, h # g, Is(h, "BytesMut"), hs[g] # None,
           AppendCopy(h, g)
    PROVE  Simulated
<1>1. PICK v, n, o : v = hs[g] /\ n = v.len /\ o = Reserved(hs[h], n)
  OBVIOUS
<1>2. PICK x, M, G, t, s : /\ x = o.r /\ M = o.mem /\ G = o.heap
                           /\ t = Behind(x, n) /\ s = Longer(x, n)
  OBVIOUS
<1>3. PICK N : N = CopyDisjoint(M, v.ptr, t.ptr, n)
  OBVIOUS
<1>4. t.ptr = x.ptr + x.len /\ t.len = n
  BY <1>2 DEF Behind
<1>5. CanReserve(hs[h], n) /\ Update2(h, s, g, None) /\ Store(N)
  BY <1>1, <1>2, <1>3, <1>4 DEF AppendCopy, Longer
<1>6. hs[h] # None /\ ViewsInv /\ FilledInv /\ DOMAIN hs = Handle
  BY DEF Is, Ready, ViewsInv, Sound
<1>7. v.ptr \in Nat /\ n \in Nat /\ v # None /\ FieldsOK(v) /\ n <= Size(v)
  BY <1>1, ReadyFields
<1>8. Sound([hs EXCEPT ![h] = x], G) /\ FieldsOK(x) /\ x.kind = "BytesMut" /\ n <= Spare(x)
  <2>1. CanReserve(hs[h], n) /\ n \in Nat /\ o = Reserved(hs[h], n) /\ ViewsInv
    BY <1>1, <1>5, <1>6, <1>7
  <2>2. /\ Sound([hs EXCEPT ![h] = o.r], o.heap) /\ FieldsOK(o.r) /\ o.r.kind = "BytesMut"
        /\ Spare(o.r) >= n
    BY <2>1, ReservedSound
  <2>3. n <= Spare(o.r)
    BY <1>7, <2>2 DEF Spare, FieldsOK, HandleRecord
  <2> QED BY <1>2, <2>2, <2>3
<1>9. /\ Confined(x, mem, M) /\ DOMAIN M = Address /\ x.len = hs[h].len
      /\ Cont(x, M) = Cont(hs[h], mem)
  <2>1. Carries(hs[h], o)
    BY <1>1, <1>5, <1>6, <1>7, ReservedCarries
  <2> QED BY <1>2, <2>1 DEF Carries
<1>10. PICK HT : HT = [hs EXCEPT ![h] = x]
  OBVIOUS
<1>11. HT[h] = x /\ HT[g] = v /\ Sound(HT, G) /\ Writer(x) /\ x # None
  BY <1>1, <1>6, <1>8, <1>10, Sorts DEF Writer
<1>12. Cont(v, M) = Cont(hs[g], mem)
  <2>1. Sound(HT, G) /\ HT[g] # None /\ Confined(HT[h], mem, M)
    BY <1>7, <1>9, <1>11
  <2>2. Cont(HT[g], M) = Cont(HT[g], mem)
    BY <2>1, OthersKeep
  <2> QED BY <1>1, <1>11, <2>2
<1>13. /\ x.ptr \in Nat /\ x.len \in Nat /\ x.cap \in Nat /\ x.len + n <= x.cap /\ Size(x) = x.cap
       /\ FieldsOK(s) /\ s.len = x.len + n
  BY <1>2, <1>7, <1>8, LongerFields
<1>14. n = 0 \/ v.ptr + n <= t.ptr \/ t.ptr + n <= v.ptr
  <2>1. Apart(x, v) /\ Size(v) \in Nat
    BY <1>1, <1>7, <1>11, WriterAlone, ReadyFields
  <2>2. Size(x) = 0 \/ Size(v) = 0 \/ x.ptr + Size(x) <= v.ptr \/ v.ptr + Size(v) <= x.ptr
    BY <2>1 DEF Apart
  <2> QED BY <1>4, <1>7, <1>13, <2>1, <2>2
<1>15. N = CopyBytes(M, v.ptr, t.ptr, n)
  <2>1. Region(v.ptr, n) \cap Region(t.ptr, n) = {}
    BY <1>4, <1>7, <1>13, <1>14 DEF Region
  <2> QED BY <1>3, <2>1 DEF CopyDisjoint
<1>16. /\ DOMAIN N = DOMAIN M /\ Cont(t, N) = Cont(v, M)
       /\ \A a \in DOMAIN M : N[a] = M[a] \/ a \in Region(t.ptr, t.len)
  <2>1. Region(t.ptr, t.len) \subseteq DOMAIN M
    BY <1>4, <1>6, <1>7, <1>8, <1>9, BehindIsMemory
  <2>2. N = CopyBytes(M, v.ptr, t.ptr, v.len) /\ v.len \in Nat /\ t.len = v.len /\ t.ptr \in Nat
    BY <1>1, <1>4, <1>7, <1>13, <1>15
  <2> QED BY <1>7, <2>1, <2>2, CopyWrites
<1>17. Confined(s, mem, N) /\ Cont(x, N) = Cont(hs[h], mem)
  <2>1. DOMAIN N = Address /\ \A a \in Address : N[a] = M[a] \/ a \in Region(x.ptr + x.len, n)
    BY <1>4, <1>9, <1>16
  <2>2. /\ n \in Nat /\ x.len = hs[h].len /\ Confined(x, mem, M)
        /\ Cont(x, M) = Cont(hs[h], mem) /\ hs[h] # None /\ ViewsInv /\ FilledInv
    BY <1>6, <1>7, <1>9
  <2>3. Confined(Longer(x, n), mem, N) /\ Cont(x, N) = Cont(hs[h], mem)
    BY <1>8, <2>1, <2>2, Appended
  <2> QED BY <1>2, <2>3
<1>18. Leaves2(h, s, g, None, N) /\ s # None
  BY <1>5, <1>13, <1>17, Update2Leaves, Sorts
<1>19. Joins(s, N, h, g)
  <2>1. Cont(s, N) = Cont(x, N) \o Cont(t, N)
    BY <1>2, <1>7, <1>8, LongerCont
  <2>2. Cont(t, N) = Cont(hs[g], mem)
    BY <1>12, <1>16
  <2>3. s.len = hs[h].len + hs[g].len
    BY <1>1, <1>9, <1>13
  <2> QED BY <1>17, <2>1, <2>2, <2>3 DEF Joins
<1> QED BY <1>6, <1>18, <1>19, AppendStep

(* One of the two handles has no bytes.                                    *)
LEMMA NothingAppended ==
    ASSUME Ready, NEW h \in Handle, NEW g \in Handle, h # g, hs[h] # None, hs[g] # None,
           hs[g].len = 0, Update(g, None), Store(mem)
    PROVE  Simulated
<1>1. PICK r, v, t, M : r = hs[h] /\ v = hs[g] /\ t = Behind(r, 0) /\ M = mem
  OBVIOUS
<1>2. r.ptr \in Nat /\ r.len \in Nat /\ v.len = 0 /\ t.ptr = r.ptr + r.len /\ t.len = 0
  BY <1>1, ReadyFields DEF Behind
<1>3. Cont(r, M) = Cont(r, M) \o Cont(t, M)
  <2>1. /\ r.len \in Nat /\ t.len \in Nat /\ r.ptr \in Int /\ t.ptr \in Int
        /\ r.len = r.len + t.len /\ r.ptr = r.ptr /\ t.ptr = r.ptr + r.len
    BY <1>2
  <2> QED BY <2>1, AppendCont
<1>4. Cont(t, M) = Cont(v, M)
  BY <1>2 DEF Cont
<1>5. Joins(hs[h], mem, h, g)
  BY <1>1, <1>2, <1>3, <1>4 DEF Joins
<1>6. Leaves2(h, hs[h], g, None, mem)
  BY UpdateLeaves2
<1> QED BY <1>5, <1>6, AppendStep

LEMMA TakesPlace ==
    ASSUME Ready, NEW h \in Handle, NEW g \in Handle, h # g, hs[h] # None, hs[g] # None,
           hs[h].len = 0, NEW x, x # None, x.ptr = hs[g].ptr, x.len = hs[g].len,
           Update2(h, x, g, None), Store(mem)
    PROVE  Simulated
<1>1. PICK r, v, t, M : /\ r = hs[h] /\ v = hs[g] /\ t = [ptr |-> v.ptr, len |-> 0]
                        /\ M = mem
  OBVIOUS
<1>2. /\ v.ptr \in Nat /\ v.len \in Nat /\ r.len = 0 /\ t.ptr = v.ptr /\ t.len = 0
      /\ x.ptr = v.ptr /\ x.len = v.len
  BY <1>1, ReadyFields
<1>3. Cont(x, M) = Cont(t, M) \o Cont(v, M)
  <2>1. /\ t.len \in Nat /\ v.len \in Nat /\ t.ptr \in Int /\ v.ptr \in Int
        /\ x.len = t.len + v.len /\ x.ptr = t.ptr /\ v.ptr = t.ptr + t.len
    BY <1>2
  <2> QED BY <2>1, AppendCont
<1>4. Cont(t, M) = Cont(r, M)
  BY <1>2 DEF Cont
<1>5. Joins(x, mem, h, g)
  BY <1>1, <1>2, <1>3, <1>4 DEF Joins
<1>6. Leaves2(h, x, g, None, mem)
  BY Unwritten, Update2Leaves
<1> QED BY <1>5, <1>6, AppendStep

LEMMA MergeShown ==
    ASSUME Ready, NEW h \in Handle, NEW g \in Handle, h # g, Is(h, "BytesMut"), hs[g] # None,
           Contiguous(hs[h], hs[g]), Merge(h, g)
    PROVE  Simulated
<1>1. PICK r, v, x, M : /\ r = hs[h] /\ v = hs[g] /\ M = mem
                        /\ x = [r EXCEPT !.len = @ + v.len, !.cap = @ + v.cap]
  OBVIOUS
<1>2. Update2(h, x, g, None) /\ Store(mem) /\ hs[h] # None
  BY <1>1 DEF Merge, Is
<1>3. /\ r.ptr \in Nat /\ r.len \in Nat /\ r.cap \in Nat /\ r \in HandleRecord
      /\ v.ptr \in Nat /\ v.len \in Nat /\ v.cap \in Nat /\ r.ptr + r.len = v.ptr
  BY <1>1, <1>2, ReadyFields DEF Contiguous
<1>4. x \in HandleRecord /\ x.ptr = r.ptr /\ x.len = r.len + v.len
  <2>1. PICK n, c : n = r.len + v.len /\ c = r.cap + v.cap
    OBVIOUS
  <2>2. n \in Nat /\ c \in Nat
    BY <1>3, <2>1
  <2>3. x = [r EXCEPT !.len = n, !.cap = c]
    BY <1>1, <1>3, <2>1 DEF HandleRecord
  <2> QED BY <1>3, <2>1, <2>2, <2>3 DEF HandleRecord
<1>5. Cont(x, M) = Cont(r, M) \o Cont(v, M)
  <2>1. /\ r.len \in Nat /\ v.len \in Nat /\ r.ptr \in Int /\ v.ptr \in Int
        /\ x.len = r.len + v.len /\ x.ptr = r.ptr /\ v.ptr = r.ptr + r.len
    BY <1>3, <1>4
  <2> QED BY <2>1, AppendCont
<1>6. Joins(x, mem, h, g)
  BY <1>1, <1>4, <1>5 DEF Joins
<1>7. Leaves2(h, x, g, None, mem) /\ x # None
  BY <1>2, <1>4, Unwritten, Update2Leaves, PlacesAssumption
<1> QED BY <1>2, <1>6, <1>7, AppendStep

(* unsplit, try_unsplit                                                    *)
LEMMA UnsplitShown ==
    ASSUME Ready, NEW h \in Handle, NEW g \in Handle, Unsplit(h, g)
    PROVE  Simulated
<1>1. /\ Is(h, "BytesMut") /\ Is(g, "BytesMut") /\ h # g /\ hs[h] # None /\ hs[g] # None
      /\ hs[g].kind = "BytesMut"
  BY DEF Unsplit, Is
<1>2. CASE hs[h].len = 0 /\ Replace(h, g)
  <2>1. Update2(h, hs[g], g, None) /\ Store(mem)
    BY <1>2 DEF Replace
  <2>2. PICK x : x = hs[g]
    OBVIOUS
  <2>3. x # None /\ x.ptr = hs[g].ptr /\ x.len = hs[g].len /\ Update2(h, x, g, None)
    BY <1>1, <2>1, <2>2
  <2> QED BY <1>1, <1>2, <2>1, <2>3, TakesPlace
<1>3. CASE hs[g].cap = 0 /\ Update(g, None) /\ Store(mem)
  <2>1. hs[g].len = 0
    BY <1>1, <1>3, ReadyFields DEF Size
  <2> QED BY <1>1, <1>3, <2>1, NothingAppended
<1>4. CASE Contiguous(hs[h], hs[g]) /\ Merge(h, g)
  BY <1>1, <1>4, MergeShown
<1>5. CASE AppendCopy(h, g)
  BY <1>1, <1>5, AppendCopyShown
<1> QED BY <1>2, <1>3, <1>4, <1>5 DEF Unsplit, TryUnsplit

(* put with a Bytes or a BytesMut                                          *)
LEMMA PutShown ==
    ASSUME Ready, NEW h \in Handle, NEW g \in Handle, Put(h, g)
    PROVE  Simulated
<1>1. /\ Is(h, "BytesMut") /\ (Is(g, "Bytes") \/ Is(g, "BytesMut")) /\ h # g
      /\ hs[h] # None /\ hs[g] # None /\ hs[h].kind = "BytesMut"
  BY DEF Put, Is
<1>2. CASE hs[g].len = 0 /\ Update(g, None) /\ Store(mem)
  BY <1>1, <1>2, NothingAppended
<1>3. CASE hs[h].cap = 0 /\ TakeOver(h, g)
  <2>1. hs[h].len = 0
    BY <1>1, <1>3, ReadyFields DEF Size
  <2>2. PICK x : x = MutAt(hs[g].ptr, hs[g].len, OwnCap(hs[g]) - (hs[g].ptr - OwnPtr(hs[g])),
                           Offset(hs[g].ptr - OwnPtr(hs[g])))
    OBVIOUS
  <2>3. IsUnique(heap, hs[g]) /\ Update2(h, x, g, None) /\ Store(mem)
    BY <1>3, <2>2 DEF TakeOver
  <2>4. x # None
    BY <1>1, <2>2, <2>3, OwnMut, Sorts DEF Ready
  <2>5. x.ptr = hs[g].ptr /\ x.len = hs[g].len
    BY <2>2 DEF MutAt
  <2> QED BY <1>1, <2>1, <2>3, <2>4, <2>5, TakesPlace
<1>4. CASE AppendCopy(h, g)
  BY <1>1, <1>4, AppendCopyShown
<1> QED BY <1>2, <1>3, <1>4 DEF Put

-----------------------------------------------------------------------------
(* Every step of the program.                                              *)

LEMMA NextBytesShown ==
    ASSUME Ready, NEW h \in Handle, NextBytes(h)
    PROVE  Simulated
<1>1. \A n \in Length : n \in Nat
  BY BoundsAssumption DEF Length
<1>2. CASE FromStatic(h)
  BY <1>2, FromStaticShown
<1>3. CASE BytesFrom(h)
  BY <1>3, FromShown
<1>4. CASE Clear(h)
  BY <1>4, ClearShown
<1>5. CASE IntoVec(h) \/ IntoMut(h)
  BY <1>5, IntoShown
<1>6. ASSUME NEW n \in Length, Truncate(h, n) \/ TruncateOff(h, n) PROVE Simulated
  BY <1>1, <1>6, TruncateShown
<1>7. ASSUME NEW n \in Length, Advance(h, n) PROVE Simulated
  BY <1>1, <1>7, AdvanceShown
<1>8. ASSUME NEW g \in Handle, NEW n \in Length, SplitOff(h, g, n) \/ SplitTo(h, g, n)
      PROVE  Simulated
  BY <1>1, <1>8, SplitShown
<1>9. ASSUME NEW g \in Handle, NEW n \in Length, NEW m \in Length, Slice(h, g, m, n)
      PROVE  Simulated
  BY <1>1, <1>9, SliceShown
<1>10. ASSUME NEW g \in Handle, Clone(h, g) PROVE Simulated
  BY <1>10, CloneShown
<1> QED BY <1>2, <1>3, <1>4, <1>5, <1>6, <1>7, <1>8, <1>9, <1>10 DEF NextBytes

LEMMA NextBytesMutShown ==
    ASSUME Ready, NEW h \in Handle, NextBytesMut(h)
    PROVE  Simulated
<1>1. 0 \in Nat /\ \A n \in Length : n \in Nat
  BY BoundsAssumption DEF Length
<1>2. CASE MutFrom(h)
  BY <1>2, FromShown
<1>3. CASE Freeze(h)
  BY <1>3, FreezeShown
<1>4. CASE MutClear(h)
  BY <1>1, <1>4, MutShortenShown
<1>5. CASE TryReclaimFull(h)
  BY <1>1, <1>5, ReserveShown
<1>6. ASSUME NEW n \in Length, MutTruncate(h, n) \/ MutTruncateOff(h, n) PROVE Simulated
  BY <1>1, <1>6, MutShortenShown
<1>7. ASSUME NEW n \in Length, MutAdvance(h, n) PROVE Simulated
  BY <1>1, <1>7, AdvanceShown
<1>8. ASSUME NEW n \in Length, Reserve(h, n) \/ TryReclaim(h, n) PROVE Simulated
  BY <1>1, <1>8, ReserveShown
<1>9. ASSUME NEW n \in Length, NEW m \in 0..n, Extend(h, n, m) \/ FillChunk(h, n, m)
      PROVE  Simulated
  BY <1>1, <1>9, WriteShown
<1>10. ASSUME NEW g \in Handle, MutClone(h, g) PROVE Simulated
  BY <1>10, MutCloneShown
<1>11. ASSUME NEW g \in Handle, Unsplit(h, g) PROVE Simulated
  BY <1>11, UnsplitShown
<1>12. ASSUME NEW g \in Handle, Put(h, g) PROVE Simulated
  BY <1>12, PutShown
<1>13. ASSUME NEW g \in Handle, NEW n \in Length, MutSplitTo(h, g, n) \/ MutSplitOff(h, g, n)
       PROVE  Simulated
  BY <1>1, <1>13, MutSplitShown
<1> QED BY <1>2, <1>3, <1>4, <1>5, <1>6, <1>7, <1>8, <1>9, <1>10, <1>11, <1>12, <1>13
        DEF NextBytesMut

(* A step of the program is a step of independent vectors, or none.        *)
LEMMA NextSimulated ==
    ASSUME ViewsInv, ViewsInv', FilledInv, [Next]_vars
    PROVE  FilledInv' /\ [Vectors!Next]_Shown
<1>1. Ready
  BY DEF Ready
<1>2. CASE vars' = vars
  <2>1. hs' = hs /\ mem' = mem
    BY <1>2 DEF vars
  <2>2. FilledInv'
    BY <2>1 DEF FilledInv, StaticOK, Cont
  <2>3. Shown' = Shown
    BY <2>1, ShownLooks
  <2> QED BY <2>2, <2>3
<1>3. ASSUME NEW h \in Handle, Drop(h) PROVE Simulated
  BY <1>1, <1>3, DropShown
<1>4. ASSUME NEW h \in Handle, NextBytes(h) PROVE Simulated
  BY <1>1, <1>4, NextBytesShown
<1>5. ASSUME NEW h \in Handle, NextBytesMut(h) PROVE Simulated
  BY <1>1, <1>5, NextBytesMutShown
<1>6. ASSUME NEW h \in Handle, NEW cap \in VecCaps, NEW len \in 0..cap, NEW m \in 0..len,
             NewVec(h, len, cap, m)
      PROVE  Simulated
  <2>1. cap \in Nat /\ len \in Nat /\ len <= cap
    BY BoundsAssumption
  <2> QED BY <1>1, <1>6, <2>1, NewVecShown
<1>7. CASE Next
  <2>1. Simulated
    BY <1>3, <1>4, <1>5, <1>6, <1>7 DEF Next
  <2> QED BY <2>1 DEF Simulated
<1> QED BY <1>2, <1>7

(* At first the static data are there and nobody shows anything.           *)
LEMMA InitSimulated ==
    ASSUME Init
    PROVE  FilledInv /\ Vectors!Init
<1>1. \A h \in Handle : hs[h] = None
  BY DEF Init
<1>2. PICK m : mem = [a \in Address |-> IF a < StaticLen THEN ByteAt(a, m) ELSE Junk]
  BY DEF Init
<1>3. Region(0, StaticLen) \subseteq Address
  <2>1. StaticLen <= (Buffers + 1) * (MaxCap + Gap)
    <3>1. PICK k : k = MaxCap + Gap
      OBVIOUS
    <3>2. Base(0) \in Nat /\ Base(Buffers + 1) \in Nat /\ Base(0) + MaxCap + Gap <= Base(Buffers + 1)
      BY BaseOrder, BoundsAssumption
    <3> QED BY <3>2, BoundsAssumption DEF Base
  <2>2. (Buffers + 1) * (MaxCap + Gap) \in Nat
    BY BoundsAssumption
  <2> QED BY <2>1, <2>2, BoundsAssumption DEF Address, Region
<1>4. StaticOK(mem)
  <2>1. \A a \in Region(0, StaticLen) : a < StaticLen
    BY BoundsAssumption DEF Region
  <2> QED BY <1>2, <1>3, <2>1 DEF StaticOK, ByteAt
<1>5. Vectors!Init
  <2>1. Shown = [h \in Handle |-> Look(hs[h], mem)]
    BY ShownLooks
  <2>2. [h \in Handle |-> Look(hs[h], mem)] = [h \in Handle |-> None]
    BY <1>1 DEF Look
  <2> QED BY <2>1, <2>2 DEF Vectors!Init
<1> QED BY <1>1, <1>2, <1>4, <1>5 DEF FilledInv

(* Every byte that a handle shows has been written: by the user, or with   *)
(* the program itself.  set_len and advance_mut never uncover others.      *)
THEOREM ShownBytesAreWritten ==
    ASSUME Gap # 0
    PROVE  Spec => []FilledInv
<1>1. Init => ViewsInv /\ FilledInv
  BY InitSound, InitSimulated
<1>2. ViewsInv /\ FilledInv /\ [Next]_vars => (ViewsInv /\ FilledInv)'
  BY NextSound, NextSimulated
<1> QED BY <1>1, <1>2, PTL DEF Spec

(* Bytes and BytesMut, with everything that they share, implement          *)
(* independent vectors: whatever one handle does, the bytes of the others  *)
(* stay, and its own become what the name of the method says.              *)
THEOREM ViewsImplementVectors ==
    ASSUME Gap # 0
    PROVE  Spec => ImplementsVectors
<1>1. Init => Vectors!Init
  BY InitSimulated
<1>2. ViewsInv /\ ViewsInv' /\ FilledInv /\ [Next]_vars => [Vectors!Next]_Shown
  BY NextSimulated
<1> QED BY <1>1, <1>2, ViewsInvariance, ShownBytesAreWritten, PTL
        DEF ImplementsVectors, Vectors!Spec, Spec
=============================================================================
