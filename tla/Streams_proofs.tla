---------------------------- MODULE Streams_proofs ----------------------------
(***************************************************************************)
(* What the programs of BufReader and Transfer keep, for cursors of any    *)
(* shape, any bytes and any depth, from the laws of Cursors_proofs.        *)
(***************************************************************************)
EXTENDS BufReader, Transfer, Cursors_proofs

-----------------------------------------------------------------------------
(* BufReader                                                               *)

\* The assertion of a running copy_to_slice goes on to hold: what it wants, the cursor has.
Enough == want \in Nat /\ want <= Remaining[src]
ReadInv ==
    /\ src \in Buf
    /\ got \in Seq(Byte)
    /\ passed \in Nat
    /\ Enough

\* What a step does to the cursor, and what becomes of the bytes it moves over.
Reads(n) ==
    /\ Moved(src, src', n)
    /\ \/ got' = got \o First(Content[src], n) /\ passed' = passed
       \/ got' = got /\ passed' = passed + n

LEMMA FirstOfChunk ==
    ASSUME NEW c \in Buf, NEW n \in 0..Len(Chunk[c])
    PROVE  First(Chunk[c], n) = First(Content[c], n) /\ n \in 0..Remaining[c]
<1>1. Chunk[c] \in Seq(Byte) /\ Leads(Chunk[c], Content[c])
  BY ChunkLaw
<1>2. Content[c] \in Seq(Byte) /\ Len(Content[c]) = Remaining[c]
  BY ContentLaw
<1> QED BY <1>1, <1>2, LeadsFirst

LEMMA FirstByte ==
    ASSUME NEW s \in Seq(Byte), s # <<>>
    PROVE  First(s, 1) = <<Head(s)>> /\ Len(s) \in Nat /\ 1 \in 0..Len(s)
<1>1. Len(s) \in Nat /\ Len(s) # 0 /\ Head(s) = s[1] /\ s[1] \in Byte
  OBVIOUS
<1>a. Len(s) \in Nat /\ Len(s) # 0
  BY <1>1
<1>2. Least(1, Len(s)) = 1 /\ 1 \in 0..Len(s)
  BY <1>a DEF Least
<1>3. First(s, 1) \in Seq(Byte) /\ Len(First(s, 1)) = 1
  BY <1>2, FirstType
<1>4. \A i \in 1..1 : First(s, 1)[i] = s[i]
  BY <1>2, FirstAt
<1>5. <<s[1]>> \in Seq(Byte) /\ Len(<<s[1]>>) = 1 /\ <<s[1]>>[1] = s[1]
  BY <1>1
<1>6. \A i \in 1..Len(First(s, 1)) : First(s, 1)[i] = <<s[1]>>[i]
  BY <1>3, <1>4, <1>5
<1> DEFINE t == <<s[1]>>
<1> HIDE DEF t
<1>7. t \in Seq(Byte) /\ Len(First(s, 1)) = Len(t) /\ \A i \in 1..Len(First(s, 1)) : First(s, 1)[i] = t[i]
  BY <1>3, <1>5, <1>6 DEF t
<1>8. First(s, 1) = t
  BY <1>3, <1>7, SameSeq
<1> QED BY <1>1, <1>2, <1>8 DEF t

\* Every method reads from the front of the cursor; only advance passes over bytes.
LEMMA ReadSteps ==
    ASSUME ReadInv, [ReadNext]_readVars
    PROVE  /\ \E n \in 0..Remaining[src] : Reads(n)
           /\ Enough'
<1>0. /\ src \in Buf /\ got \in Seq(Byte) /\ passed \in Nat
      /\ want \in Nat /\ want <= Remaining[src] /\ Remaining[src] \in Nat
  BY RemainingType DEF ReadInv, Enough
<1>1. \A n \in 0..Remaining[src] : Moved(src, AdvanceBy[src][n], n)
  BY <1>0, AdvanceLaw
<1>2. ASSUME NEW n \in 0..Remaining[src], Moved(src, src', n)
      PROVE  src' \in Buf /\ Remaining[src'] = Remaining[src] - n /\ Remaining[src'] \in Nat
  BY <1>0, <1>2, MovedRemaining, RemainingType
<1>3. Moved(src, src, 0) /\ 0 \in 0..Remaining[src] /\ passed + 0 = passed
  BY <1>0, MovedNone
<1>4. ASSUME NEW n \in 0..Remaining[src], Advance(n)
      PROVE  (\E m \in 0..Remaining[src] : Reads(m)) /\ Enough'
  <2>1. Moved(src, src', n) /\ got' = got /\ passed' = passed + n /\ want' = 0
    BY <1>1, <1>4 DEF Advance, Idle
  <2> QED BY <1>2, <2>1 DEF Reads, Enough
<1>5. ASSUME NEW n \in 0..Remaining[src], CopyToSlice(n)
      PROVE  (\E m \in 0..Remaining[src] : Reads(m)) /\ Enough'
  <2>1. src' = src /\ got' = got /\ passed' = passed /\ want' = n
    BY <1>5 DEF CopyToSlice
  <2> QED BY <1>0, <1>3, <2>1 DEF Reads, Enough
<1>6. ASSUME NEW n \in 0..Remaining[src], CopyBytes(n)
      PROVE  (\E m \in 0..Remaining[src] : Reads(m)) /\ Enough'
  <2>1. CopiesFirst(src, n)
    BY <1>0, CopyLaw
  <2>2. Moved(src, src', n) /\ got' = got \o First(Content[src], n) /\ passed' = passed /\ want' = 0
    BY <1>6, <2>1 DEF CopyBytes, CopiesFirst, Idle
  <2> QED BY <1>2, <2>2 DEF Reads, Enough
<1>7. ASSUME CopyChunk PROVE (\E m \in 0..Remaining[src] : Reads(m)) /\ Enough'
  <2> DEFINE n == CopyCount
  <2>1. n = Least(Len(Chunk[src]), want) /\ Len(Chunk[src]) \in Nat
    BY <1>0, ChunkLaw DEF CopyCount
  <2>2. n \in 0..Len(Chunk[src]) /\ n <= want
    BY <1>0, <2>1 DEF Least
  <2>3. First(Chunk[src], n) = First(Content[src], n) /\ n \in 0..Remaining[src]
    BY <1>0, <2>2, FirstOfChunk
  <2>4. got' = got \o First(Chunk[src], n) /\ src' = AdvanceBy[src][n] /\ want' = want - n /\ passed' = passed
    BY <1>7 DEF CopyChunk
  <2> HIDE DEF n
  <2>5. Moved(src, src', n)
    BY <1>1, <2>3, <2>4
  <2>6. Reads(n)
    BY <2>3, <2>4, <2>5 DEF Reads
  <2>7. Remaining[src'] = Remaining[src] - n
    BY <1>2, <2>3, <2>5
  <2>8. want' \in Nat /\ want' <= Remaining[src']
    BY <1>0, <2>2, <2>3, <2>4, <2>7
  <2> QED BY <2>3, <2>6, <2>8 DEF Enough
<1>8. ASSUME TryGetByte PROVE (\E m \in 0..Remaining[src] : Reads(m)) /\ Enough'
  <2>1. want' = 0 /\ passed' = passed
    BY <1>8 DEF TryGetByte, Idle
  <2>2. CASE Chunk[src] = <<>> /\ src' = src /\ got' = got
    BY <1>0, <1>3, <2>1, <2>2 DEF Reads, Enough
  <2>3. CASE Chunk[src] # <<>> /\ got' = Append(got, Head(Chunk[src])) /\ src' = AdvanceBy[src][1]
    <3>1. Chunk[src] \in Seq(Byte)
      BY <1>0, ChunkLaw
    <3>2. First(Chunk[src], 1) = <<Head(Chunk[src])>> /\ 1 \in 0..Len(Chunk[src]) /\ Head(Chunk[src]) \in Byte
      BY <2>3, <3>1, FirstByte
    <3>3. First(Chunk[src], 1) = First(Content[src], 1) /\ 1 \in 0..Remaining[src]
      BY <1>0, <3>2, FirstOfChunk
    <3>4. Append(got, Head(Chunk[src])) = got \o <<Head(Chunk[src])>>
      BY <1>0, <3>2
    <3>5. Moved(src, src', 1)
      BY <1>1, <2>3, <3>3
    <3>6. got' = got \o First(Content[src], 1)
      BY <2>3, <3>2, <3>3, <3>4
    <3>7. Remaining[src'] \in Nat
      BY <1>2, <3>3, <3>5
    <3>8. Enough'
      BY <2>1, <3>7 DEF Enough
    <3>9. Reads(1)
      BY <2>1, <3>5, <3>6 DEF Reads
    <3> QED BY <3>3, <3>8, <3>9
  <2> QED BY <1>8, <2>2, <2>3 DEF TryGetByte
<1>9. ASSUME TryGetInt PROVE (\E m \in 0..Remaining[src] : Reads(m)) /\ Enough'
  <2>1. src' = src /\ got' = got /\ passed' = passed /\ (want' = want \/ (want' = IntSize /\ IntSize <= Remaining[src]))
    BY <1>9 DEF TryGetInt
  <2>2. want' \in Nat /\ want' <= Remaining[src']
    BY <1>0, <2>1, BufReaderAssumption
  <2> QED BY <1>3, <2>1, <2>2 DEF Reads, Enough
<1>10. ASSUME UNCHANGED readVars PROVE (\E m \in 0..Remaining[src] : Reads(m)) /\ Enough'
  BY <1>0, <1>3, <1>10 DEF readVars, Reads, Enough
<1> QED BY <1>4, <1>5, <1>6, <1>7, <1>8, <1>9, <1>10 DEF ReadNext

LEMMA ReadInvHolds == ReadSpec => []ReadInv
<1>1. ReadInit => ReadInv
  <2> SUFFICES ASSUME ReadInit PROVE ReadInv
    OBVIOUS
  <2>1. src \in Buf /\ got = <<>> /\ passed = 0 /\ want = 0
    BY BufReaderAssumption DEF ReadInit
  <2> QED BY <2>1, RemainingType DEF ReadInv, Enough
<1>2. ReadInv /\ [ReadNext]_readVars => ReadInv'
  <2> SUFFICES ASSUME ReadInv, [ReadNext]_readVars PROVE ReadInv'
    OBVIOUS
  <2>1. PICK n \in 0..Remaining[src] : Reads(n)
    BY ReadSteps
  <2>2. src' \in Buf
    BY <2>1, AlikeBuf DEF Reads, Moved, ReadInv
  <2>3. Content[src] \in Seq(Byte) /\ n \in Nat
    BY ContentLaw, RemainingType DEF ReadInv
  <2>4. First(Content[src], n) \in Seq(Byte)
    BY <2>3, FirstType
  <2>5. got' \in Seq(Byte)
    <3>1. got \in Seq(Byte) /\ (got' = got \o First(Content[src], n) \/ got' = got)
      BY <2>1 DEF Reads, ReadInv
    <3>2. got \o First(Content[src], n) \in Seq(Byte)
      BY <2>4, <3>1, JoinElements
    <3> QED BY <3>1, <3>2
  <2>6. passed' \in Nat
    BY <2>1, <2>3 DEF Reads, ReadInv
  <2> QED BY <2>2, <2>5, <2>6, ReadSteps DEF ReadInv
<1> QED BY <1>1, <1>2, PTL DEF ReadSpec

\* chunk shows the front of what can be read and remaining counts it, for every way of putting
\* cursors together, at every position any sequence of calls leads to (buf.rs:79-104).
THEOREM ChunkContract == ReadSpec => []ChunkKeepsContract
<1>1. ReadInv => ChunkKeepsContract
  <2> SUFFICES ASSUME ReadInv PROVE ChunkKeepsContract
    OBVIOUS
  <2>1. src \in Buf
    BY DEF ReadInv
  <2>2. Content[src] \in Seq(Byte) /\ Len(Content[src]) = Remaining[src]
    BY <2>1, ContentLaw
  <2>3. Chunk[src] \in Seq(Byte) /\ Leads(Chunk[src], Content[src]) /\ (Chunk[src] = <<>> => Remaining[src] = 0)
    BY <2>1, ChunkLaw
  <2> QED BY <2>2, <2>3, LeadsIsPrefix DEF ChunkKeepsContract
<1> QED BY <1>1, ReadInvHolds, PTL

\* Every method of Buf hands over the front of the stream, and advance passes over as much of it
\* as it is asked to: reading with any mixture of them, from any composition of cursors, is reading
\* a ByteStream.
THEOREM ReaderImplementsStream == ReadSpec => ImplementsStream
<1>1. ReadInit => Stream!Init
  BY DEF ReadInit, Stream!Init
<1>2. ReadInv /\ [ReadNext]_readVars => [Stream!Next]_(Stream!vars)
  <2> SUFFICES ASSUME ReadInv, [ReadNext]_readVars PROVE Stream!Next
    OBVIOUS
  <2>1. PICK n \in 0..Remaining[src] : Reads(n)
    BY ReadSteps
  <2>2. src \in Buf /\ Remaining[src] \in Nat /\ n \in Nat
    BY RemainingType DEF ReadInv
  <2>3. Content[src] \in Seq(Byte) /\ Len(Content[src]) = Remaining[src]
    BY <2>2, ContentLaw
  <2>4. Least(n, Len(Content[src])) = n
    BY <2>2, <2>3 DEF Least
  <2>5. First(Content[src], n) = SubSeq(Content[src], 1, n)
    BY <2>4 DEF First
  <2>6. Content[src'] = SubSeq(Content[src], n + 1, Len(Content[src]))
    BY <2>1 DEF Reads, Moved, Skip
  <2>7. n \in 0..Len(Content[src])
    BY <2>3
  <2>8. \/ got' = got \o SubSeq(Content[src], 1, n) /\ passed' = passed
        \/ got' = got /\ passed' = passed + n
    BY <2>1, <2>5 DEF Reads
  <2> QED BY <2>6, <2>7, <2>8 DEF Stream!Next, Stream!HandOver, Stream!Pass, Stream!Rest
<1> QED BY <1>1, <1>2, ReadInvHolds, PTL DEF ReadSpec, ImplementsStream, Stream!Spec

\* chunks_vectored shows the front of what can be read, in slices that are not empty, as many as
\* there is room for, of every cursor in which no take hides slices from a cursor behind it: in
\* particular of every cursor, if there are no more slots than Take looks at.
THEOREM VectoredContract ==
    ASSUME \A c \in Sources : \A slots \in 0..Slots : Gapless(c, slots)
    PROVE  ReadSpec => []VectoredKeepsContract
<1> DEFINE NoGap == \A slots \in 0..Slots : Gapless(src, slots)
<1>1. ReadInit => NoGap
  BY DEF ReadInit
<1>2. ReadInv /\ NoGap /\ [ReadNext]_readVars => NoGap'
  <2> SUFFICES ASSUME ReadInv, NoGap, [ReadNext]_readVars, NEW slots \in 0..Slots PROVE Gapless(src, slots)'
    OBVIOUS
  <2>1. PICK n \in 0..Remaining[src] : Reads(n)
    BY ReadSteps
  <2>2. src'.kind = src.kind /\ Narrow[src'] = Narrow[src]
    BY <2>1 DEF Reads, Moved, Alike
  <2>3. Gapless(src, slots)
    OBVIOUS
  <2> QED BY <2>2, <2>3 DEF Gapless
<1>3. ReadInv /\ NoGap => VectoredKeepsContract
  <2> SUFFICES ASSUME ReadInv, NoGap, NEW slots \in 0..Slots
               PROVE  LET shown == ChunksVectored[src][slots]
                      IN  /\ Len(shown) <= slots
                          /\ IsPrefix(FlattenSeq(shown), Content[src])
                          /\ \A i \in DOMAIN shown : shown[i] # <<>>
                          /\ (slots > 0 /\ Remaining[src] > 0) => shown # <<>>
    BY DEF VectoredKeepsContract
  <2> DEFINE shown == ChunksVectored[src][slots]
  <2>1. src \in Buf /\ slots \in Nat /\ Gapless(src, slots)
    BY BufReaderAssumption DEF ReadInv
  <2>2. Tidy(src, slots, shown) /\ Leads(FlattenSeq(shown), Content[src])
    BY <2>1, VectoredLaw DEF Shows
  <2> HIDE DEF shown
  <2>3. shown \in Pieces
    BY <2>2 DEF Tidy
  <2>4. FlattenSeq(shown) \in Seq(Byte) /\ Content[src] \in Seq(Byte)
    BY <2>1, <2>3, FlattenType, ContentLaw
  <2>5. IsPrefix(FlattenSeq(shown), Content[src])
    BY <2>2, <2>4, LeadsIsPrefix
  <2>6. DOMAIN shown = 1..Len(shown)
    BY <2>3 DEF Pieces
  <2>7. Len(shown) <= slots /\ (\A i \in DOMAIN shown : shown[i] # <<>>)
        /\ (slots > 0 /\ Remaining[src] > 0 => shown # <<>>)
    BY <2>2, <2>6 DEF Tidy
  <2> QED BY <2>5, <2>7 DEF shown
<1> HIDE DEF NoGap
<1> QED BY <1>1, <1>2, <1>3, ReadInvHolds, PTL DEF ReadSpec

-----------------------------------------------------------------------------
(* Transfer                                                                *)

\* The source and what a running call takes from it fit under one more adapter; what was written
\* is the front of the destination; a Vec keeps the room put reserved, which it fills chunk by
\* chunk of the source without looking again.
FeedType ==
    /\ feed = TakeOf(feed.inner, feed.limit)
    /\ feed.inner \in BufUpTo[Depth - 1]
    /\ feed.limit \in Nat
RoomKept == moving /\ dst.kind = "vec" => Len(dst.room) >= Remaining[feed]
TransferInv ==
    /\ source \in BufUpTo[Depth - 1]
    /\ FeedType
    /\ dst \in BufMut /\ InOrder[dst]
    /\ moving \in BOOLEAN
    /\ RoomKept
    /\ MovedOnceInOrder

LEMMA UnderOneTake ==
    ASSUME NEW c \in BufUpTo[Depth - 1], NEW n \in Nat
    PROVE  /\ c \in Buf /\ TakeOf(c, n) \in Buf
           /\ Content[TakeOf(c, n)] = First(Content[c], n)
           /\ Remaining[TakeOf(c, n)] = Least(Remaining[c], n)
           /\ \A e, m : Moved(c, e, m) => e \in BufUpTo[Depth - 1]
<1>1. Depth - 1 \in 0..Depth /\ Depth \in 0..Depth /\ Depth # 0
  BY CursorsAssumption, TransferAssumption
<1>2. c \in Buf
  BY <1>1, BufGrows
<1>3. TakeOf(c, n) \in Buf
  BY <1>1, BufBuilt DEF Buf
<1>4. \A e, m : Moved(c, e, m) => e \in BufUpTo[Depth - 1]
  BY <1>1 DEF Moved, Alike
<1> QED BY <1>2, <1>3, <1>4, TakeFields

\* Bytes read from the front of one cursor and written into the chunk of the other have moved.
LEMMA FrontMoves ==
    ASSUME NEW c \in Buf, NEW d \in BufMut, Opens(d), InOrder[d],
           NEW n \in 0..Remaining[c], n <= ChunkRoom[d], NEW e, Moved(c, e, n)
    PROVE  LET f == Filled(d, First(Content[c], n))
           IN  /\ f \in BufMut /\ InOrder[f] /\ f.kind = d.kind
               /\ Written[f] \o Content[e] = Written[d] \o Content[c]
               /\ d.kind = "vec" => Len(f.room) >= Len(d.room) - n
<1> DEFINE bytes == First(Content[c], n)
           f == Filled(d, bytes)
<1>1. Content[c] \in Seq(Byte) /\ Len(Content[c]) = Remaining[c] /\ Remaining[c] \in Nat /\ n \in Nat
  BY ContentLaw, RemainingType
<1>2. bytes \in Seq(Byte) /\ Len(bytes) = n
  <2>1. bytes \in Seq(Byte) /\ Len(bytes) = Least(n, Len(Content[c]))
    BY <1>1, FirstType
  <2>2. Least(n, Len(Content[c])) = n
    BY <1>1 DEF Least
  <2> QED BY <2>1, <2>2
<1>3. bytes \o Content[e] = Content[c] /\ e \in Buf
  BY MovedRemaining
<1>4. Content[e] \in Seq(Cell) /\ bytes \in Seq(Cell) /\ Written[d] \in Seq(Cell)
  BY <1>2, <1>3, ContentLaw, BytesAreCells, RemainingMutType
<1> HIDE DEF bytes
<1>5. FilledWith(d, f, bytes)
  <2>1. Len(bytes) <= ChunkRoom[d]
    BY <1>2
  <2> QED BY <1>2, <2>1, FillsLaw DEF Fills
<1> HIDE DEF f
<1>6. f \in BufMut
  BY <1>5, LevelsBufMut DEF FilledWith
<1>7. InOrder[f] /\ Written[f] = Written[d] \o bytes /\ f.kind = d.kind
  BY <1>5 DEF FilledWith
<1>8. (Written[d] \o bytes) \o Content[e] = Written[d] \o (bytes \o Content[e])
  <2>1. \A s, t, u \in Seq(Cell) : (s \o t) \o u = s \o (t \o u)
    BY JoinThrice
  <2> QED BY <1>4, <2>1, Zenon
<1>9. Written[f] \o Content[e] = Written[d] \o Content[c]
  BY <1>3, <1>7, <1>8, Zenon
<1>10. d.kind = "vec" => Len(f.room) >= Len(d.room) - n
  BY <1>2, <1>5 DEF FilledWith
<1> QED BY <1>6, <1>7, <1>9, <1>10 DEF f, bytes

\* A Vec that reserves room keeps what it holds and stays below isize::MAX.
LEMMA ReservedLeaf ==
    ASSUME NEW d \in BufMut, InOrder[d], NEW n \in Nat, n <= RemainingMut[d]
    PROVE  LET r == Reserved(d, n)
           IN  /\ r \in BufMut /\ InOrder[r] /\ r.kind = d.kind /\ Written[r] = Written[d]
               /\ d.kind = "vec" => Len(r.room) >= n
<1>1. CASE d.kind # "vec"
  BY <1>1 DEF Reserved
<1>2. CASE d.kind = "vec"
  <2> DEFINE more == Beyond(n, Len(d.room))
             room == d.room \o Memory(more)
             r == Reserved(d, n)
  <2>1. Leaf(d)
    BY <1>2, MutShape
  <2>2. /\ d = [kind |-> d.kind, done |-> d.done, room |-> d.room]
        /\ d.room \in Seq(Cell) /\ d.done \in Seq(Cell) /\ Len(d.done) + Len(d.room) <= IsizeMax
    BY <2>1 DEF Leaf
  <2>3. Len(d.room) \in Nat /\ Len(d.done) \in Nat /\ IsizeMax \in Nat
    BY <2>2, CursorsAssumption
  <2>4. n <= IsizeMax - Len(d.done)
    BY <1>2, <2>1, LeafFields
  <2>5. more \in Nat /\ Len(d.room) + more >= n /\ Len(d.done) + (Len(d.room) + more) <= IsizeMax
    BY <2>2, <2>3, <2>4 DEF Beyond
  <2> HIDE DEF more
  <2>6. Memory(more) \in Seq(Cell) /\ Len(Memory(more)) = more
    BY <2>5, MemoryCells
  <2>7. room \in Seq(Cell) /\ Len(room) = Len(d.room) + more
    <3>1. \A s, t \in Seq(Cell) : s \o t \in Seq(Cell) /\ Len(s \o t) = Len(s) + Len(t)
      BY JoinElements
    <3>2. d.room \in Seq(Cell)
      BY <2>2
    <3>3. Len(room) = Len(d.room) + Len(Memory(more)) /\ room \in Seq(Cell)
      BY <2>6, <3>1, <3>2, Zenon DEF room
    <3> QED BY <2>6, <3>3, Zenon
  <2>8. r = [d EXCEPT !.room = room]
    BY <1>2 DEF Reserved, Enlarged, more
  <2> HIDE DEF room, r
  <2>9. r = [kind |-> d.kind, done |-> d.done, room |-> room]
    BY <2>2, <2>8
  <2>10. r.kind = d.kind /\ r.done = d.done /\ r.room = room
    BY <2>9
  <2>11. Leaf(r)
    BY <1>2, <2>2, <2>5, <2>7, <2>9, <2>10 DEF Leaf
  <2>12. r \in BufMut /\ InOrder[r] /\ Written[r] = r.done /\ Written[d] = d.done
    BY <2>1, <2>11, LeafFields
  <2>13. Len(r.room) >= n
    BY <2>5, <2>7, <2>10
  <2> QED BY <2>10, <2>12, <2>13 DEF r
<1> QED BY <1>1, <1>2

LEMMA BeginKeeps ==
    ASSUME TransferInv, ~moving, NEW n \in Nat, n <= RemainingMut[dst], Begin(n)
    PROVE  TransferInv'
<1>1. source \in BufUpTo[Depth - 1] /\ dst \in BufMut /\ InOrder[dst]
  BY DEF TransferInv
<1>2. source' = source /\ message' = message /\ moving' = TRUE /\ feed' = TakeOf(source, n) /\ dst' = Reserved(dst, n)
  BY DEF Begin
<1>3. /\ dst' \in BufMut /\ InOrder[dst'] /\ dst'.kind = dst.kind /\ Written[dst'] = Written[dst]
      /\ dst.kind = "vec" => Len(dst'.room) >= n
  BY <1>1, <1>2, ReservedLeaf
<1>4. feed'.inner = source /\ feed'.limit = n
  BY <1>2 DEF TakeOf
<1>5. FeedType'
  BY <1>1, <1>2, <1>4 DEF FeedType
<1>6. Remaining[feed'] <= n
  <2>1. Remaining[feed'] = Least(Remaining[source], n) /\ source \in Buf
    BY <1>1, <1>2, UnderOneTake
  <2>2. Remaining[source] \in Nat
    BY <2>1, RemainingType
  <2> QED BY <2>1, <2>2 DEF Least
<1>7. RoomKept'
  <2>1. Remaining[feed'] \in Nat
    BY <1>1, <1>2, UnderOneTake, RemainingType
  <2>2. dst'.kind = "vec" => Leaf(dst')
    BY <1>3, MutShape
  <2>3. dst'.kind = "vec" => Len(dst'.room) \in Nat
    BY <2>2 DEF Leaf
  <2> QED BY <1>3, <1>6, <2>1, <2>3 DEF RoomKept
<1>8. MovedOnceInOrder'
  BY <1>2, <1>3, <1>4 DEF TransferInv, MovedOnceInOrder, Left
<1> QED BY <1>1, <1>2, <1>3, <1>5, <1>7, <1>8 DEF TransferInv

\* What an iteration of put takes is the front of the source, and the room is there.
LEMMA PutChunkKeeps == ASSUME TransferInv, PutChunk PROVE TransferInv'
<1> DEFINE c == feed.inner
           limit == feed.limit
           n == PutCount
           bytes == First(Chunk[feed], n)
           e == AdvanceBy[c][n]
<1>1. /\ moving /\ Remaining[feed] > 0 /\ Opens(dst) /\ dst' = Filled(dst, bytes)
      /\ feed' = AdvanceBy[feed][n] /\ source' = source /\ moving' = moving /\ message' = message
  BY DEF PutChunk
<1>2. c \in BufUpTo[Depth - 1] /\ limit \in Nat /\ feed = TakeOf(c, limit)
  BY DEF TransferInv, FeedType
<1>3. dst \in BufMut /\ InOrder[dst] /\ source \in BufUpTo[Depth - 1]
  BY DEF TransferInv
<1>4. /\ c \in Buf /\ feed \in Buf
      /\ Content[feed] = First(Content[c], limit) /\ Remaining[feed] = Least(Remaining[c], limit)
  BY <1>2, UnderOneTake, Zenon
<1>5. Remaining[c] \in Nat /\ Remaining[feed] \in Nat /\ Content[c] \in Seq(Byte) /\ ChunkRoom[dst] \in Nat
  BY <1>1, <1>3, <1>4, RemainingType, ContentLaw, FillsLaw DEF Fills, RoomOf
<1>6. Len(Chunk[feed]) \in Nat /\ Len(Chunk[feed]) <= Remaining[feed]
  <2>1. Len(Chunk[feed]) \in 1..Remaining[feed]
    BY <1>1, <1>4, PastChunk
  <2> QED BY <1>5, <2>1
<1>7. n \in 0..Len(Chunk[feed]) /\ n <= ChunkRoom[dst]
  <2>1. CASE dst.kind # "vec"
    BY <1>5, <1>6, <2>1 DEF PutCount, Least
  <2>2. CASE dst.kind = "vec"
    <3>1. n = Len(Chunk[feed])
      BY <2>2 DEF PutCount
    <3>2. Leaf(dst)
      BY <1>3, <2>2, MutShape
    <3>3. Len(dst.room) >= Remaining[feed]
      BY <1>1, <2>2 DEF TransferInv, RoomKept
    <3>4. ChunkRoom[dst] >= Len(dst.room) /\ Len(dst.room) \in Nat
      <4>1. Len(Opened[dst].room) = ChunkRoom[dst] /\ Len(Opened[dst].room) >= Len(dst.room)
        BY <1>1, <3>2, LeafOpened
      <4> QED BY <3>2, <4>1 DEF Leaf
    <3>5. Len(Chunk[feed]) <= ChunkRoom[dst]
      BY <1>5, <1>6, <3>3, <3>4
    <3> QED BY <1>6, <3>1, <3>5
  <2> QED BY <2>1, <2>2
<1> HIDE DEF n
<1>8. bytes = First(Content[feed], n) /\ n \in 0..Remaining[feed]
  <2>1. \A m \in 0..Len(Chunk[feed]) : First(Chunk[feed], m) = First(Content[feed], m) /\ m \in 0..Remaining[feed]
    <3>1. Chunk[feed] \in Seq(Byte) /\ Leads(Chunk[feed], Content[feed])
      BY <1>4, ChunkLaw
    <3>2. Content[feed] \in Seq(Byte) /\ Len(Content[feed]) = Remaining[feed]
      BY <1>4, ContentLaw
    <3> QED BY <3>1, <3>2, LeadsFirst
  <2> QED BY <1>7, <2>1
<1>9. n \in Nat /\ n <= Remaining[c] /\ n <= limit /\ Least(limit, n) = n /\ n \in 0..Remaining[c]
  BY <1>2, <1>4, <1>5, <1>8 DEF Least
<1>10. bytes = First(Content[c], n)
  <2>1. First(First(Content[c], limit), n) = First(Content[c], Least(limit, n))
    BY <1>2, <1>5, <1>9, FirstFirst
  <2> QED BY <1>4, <1>8, <1>9, <2>1
<1>11. feed' = TakeOf(e, limit - n)
  <2>1. feed.kind = "take" /\ feed.inner = c /\ feed.limit = limit
    BY <1>2 DEF TakeOf
  <2>2. AdvanceBy[feed] = [m \in Nat |->
            IF feed.kind = "slice" THEN Slice(Skip(feed.bytes, m))
            ELSE IF feed.kind = "chain" THEN ChainAdvance(feed, m, AdvanceBy)
            ELSE TakeAdvance(feed, m, AdvanceBy)]
    BY <1>4, AdvanceByDef, Zenon
  <2>3. AdvanceBy[feed][n] = TakeAdvance(feed, n, AdvanceBy)
    BY <1>9, <2>1, <2>2
  <2> QED BY <1>1, <2>3 DEF TakeAdvance
<1>12. Moved(c, e, n)
  BY <1>4, <1>9, AdvanceLaw
<1> HIDE DEF c, limit, bytes, e
<1>13. e \in BufUpTo[Depth - 1] /\ limit - n \in Nat
  BY <1>2, <1>9, <1>12, UnderOneTake
<1>14. feed'.inner = e /\ feed'.limit = limit - n
  BY <1>11 DEF TakeOf
<1>15. FeedType'
  BY <1>11, <1>13, <1>14 DEF FeedType
<1>16. /\ dst' \in BufMut /\ InOrder[dst'] /\ dst'.kind = dst.kind
       /\ Written[dst'] \o Content[e] = Written[dst] \o Content[c]
       /\ dst.kind = "vec" => Len(dst'.room) >= Len(dst.room) - n
  <2> DEFINE f == Filled(dst, First(Content[c], n))
  <2>1. c \in Buf /\ dst \in BufMut /\ Opens(dst) /\ InOrder[dst] /\ n \in 0..Remaining[c] /\ n <= ChunkRoom[dst]
    BY <1>1, <1>3, <1>4, <1>7, <1>9
  <2>2. /\ f \in BufMut /\ InOrder[f] /\ f.kind = dst.kind
        /\ Written[f] \o Content[e] = Written[dst] \o Content[c]
        /\ dst.kind = "vec" => Len(f.room) >= Len(dst.room) - n
    BY <1>12, <2>1, FrontMoves
  <2>3. dst' = f
    BY <1>1, <1>10
  <2> HIDE DEF f
  <2> QED BY <2>2, <2>3
<1>17. MovedOnceInOrder'
  <2>1. Written[dst] \o Content[c] = message
    BY <1>1 DEF TransferInv, MovedOnceInOrder, Left, c
  <2> QED BY <1>1, <1>14, <1>16, <2>1 DEF MovedOnceInOrder, Left
<1>18. Remaining[feed'] = Remaining[feed] - n
  <2>1. Remaining[feed'] = Least(Remaining[e], limit - n)
    BY <1>11, <1>13, UnderOneTake
  <2>2. Remaining[e] = Remaining[c] - n
    BY <1>4, <1>9, <1>12, MovedRemaining
  <2>3. Least(Remaining[c] - n, limit - n) = Least(Remaining[c], limit) - n
    BY <1>2, <1>5, <1>9 DEF Least
  <2> QED BY <1>4, <2>1, <2>2, <2>3
<1>19. RoomKept'
  <2> SUFFICES ASSUME dst'.kind = "vec" PROVE Len(dst'.room) >= Remaining[feed']
    BY DEF RoomKept
  <2>1. Len(dst.room) >= Remaining[feed] /\ Len(dst'.room) >= Len(dst.room) - n
    BY <1>1, <1>16 DEF TransferInv, RoomKept
  <2>2. Leaf(dst) /\ Leaf(dst')
    BY <1>3, <1>16, MutShape
  <2>3. Len(dst.room) \in Nat /\ Len(dst'.room) \in Nat
    BY <2>2 DEF Leaf
  <2> QED BY <1>5, <1>9, <1>18, <2>1, <2>3
<1> QED BY <1>1, <1>3, <1>15, <1>16, <1>17, <1>19 DEF TransferInv

\* the source and the destination after a call that moves n bytes at once
LEMMA OnceKeeps ==
    ASSUME TransferInv, ~moving, NEW n \in 0..Remaining[source], Opens(dst), n <= ChunkRoom[dst]
    PROVE  /\ dst' = Filled(dst, First(Content[source], n)) /\ source' = AdvanceBy[source][n]
           /\ feed' = TakeOf(source', 0) /\ moving' = moving /\ message' = message
           => TransferInv'
<1> DEFINE e == AdvanceBy[source][n]
           f == Filled(dst, First(Content[source], n))
<1>1. source \in BufUpTo[Depth - 1] /\ dst \in BufMut /\ InOrder[dst] /\ moving \in BOOLEAN
  BY DEF TransferInv
<1>2. source \in Buf
  BY <1>1, UnderOneTake, 0 \in Nat
<1>3. Moved(source, e, n)
  BY <1>2, AdvanceLaw
<1>4. /\ f \in BufMut /\ InOrder[f]
      /\ Written[f] \o Content[e] = Written[dst] \o Content[source]
  <2> HIDE DEF e
  <2>1. Opens(dst) /\ n <= ChunkRoom[dst] /\ n \in 0..Remaining[source] /\ InOrder[dst]
    BY <1>1
  <2>2. LET g == Filled(dst, First(Content[source], n))
        IN  /\ g \in BufMut /\ InOrder[g] /\ g.kind = dst.kind
            /\ Written[g] \o Content[e] = Written[dst] \o Content[source]
            /\ dst.kind = "vec" => Len(g.room) >= Len(dst.room) - n
    BY <1>1, <1>2, <1>3, <2>1, FrontMoves
  <2> QED BY <2>2, Zenon
<1> HIDE DEF e, f
<1> SUFFICES ASSUME dst' = f, source' = e, feed' = TakeOf(source', 0), moving' = moving, message' = message
             PROVE  TransferInv'
  BY DEF e, f
<1>5. source' = e /\ dst' = f /\ feed' = TakeOf(e, 0) /\ ~moving' /\ message' = message
  OBVIOUS
<1>6. e \in BufUpTo[Depth - 1]
  <2>1. 0 \in Nat
    OBVIOUS
  <2> QED BY <1>1, <1>3, <2>1, UnderOneTake
<1>7. feed'.inner = e /\ feed'.limit = 0
  BY <1>5 DEF TakeOf
<1>8. FeedType'
  BY <1>5, <1>6, <1>7 DEF FeedType
<1>9. RoomKept'
  BY DEF RoomKept
<1>10. MovedOnceInOrder'
  <2>1. Written[dst] \o Content[source] = message
    BY DEF TransferInv, MovedOnceInOrder, Left
  <2> QED BY <1>4, <1>5, <2>1 DEF MovedOnceInOrder, Left
<1> QED BY <1>1, <1>4, <1>5, <1>6, <1>8, <1>9, <1>10 DEF TransferInv

LEMMA PutEndKeeps == ASSUME TransferInv, PutEnd PROVE TransferInv'
<1> DEFINE c == feed.inner
<1>1. moving /\ source' = c /\ feed' = TakeOf(c, 0) /\ moving' = FALSE /\ dst' = dst /\ message' = message
  BY DEF PutEnd
<1>2. c \in BufUpTo[Depth - 1] /\ dst \in BufMut /\ InOrder[dst]
  BY DEF TransferInv, FeedType
<1>3. Written[dst] \o Content[c] = message
  BY <1>1 DEF TransferInv, MovedOnceInOrder, Left
<1> HIDE DEF c
<1>4. feed'.inner = c /\ feed'.limit = 0
  BY <1>1 DEF TakeOf
<1>5. FeedType'
  BY <1>1, <1>2, <1>4 DEF FeedType
<1>6. RoomKept' /\ MovedOnceInOrder'
  BY <1>1, <1>3 DEF RoomKept, MovedOnceInOrder, Left
<1> QED BY <1>1, <1>2, <1>5, <1>6 DEF TransferInv

LEMMA TransferInvHolds == MoveSpec => []TransferInv
<1>1. MoveInit => TransferInv
  <2> SUFFICES ASSUME MoveInit PROVE TransferInv
    OBVIOUS
  <2>1. source \in BufUpTo[Depth - 1] /\ dst \in BufMut /\ Written[dst] = <<>> /\ moving = FALSE
    BY TransferAssumption DEF MoveInit
  <2>2. feed = TakeOf(source, 0) /\ feed.inner = source /\ feed.limit = 0
    BY DEF MoveInit, TakeOf
  <2>3. InOrder[dst]
    BY <2>1, NothingInOrder
  <2>4. FeedType /\ RoomKept
    BY <2>1, <2>2 DEF FeedType, RoomKept
  <2>5. <<>> \o Content[source] = Content[source]
    <3>1. source \in Buf
      BY <2>1, UnderOneTake, 0 \in Nat
    <3>2. Content[source] \in Seq(Byte)
      BY <3>1, ContentLaw
    <3> QED BY <3>2
  <2>6. MovedOnceInOrder
    BY <2>1, <2>5 DEF MoveInit, MovedOnceInOrder, Left
  <2> QED BY <2>1, <2>3, <2>4, <2>6 DEF TransferInv
<1>2. TransferInv /\ [MoveNext]_moveVars => TransferInv'
  <2> SUFFICES ASSUME TransferInv, [MoveNext]_moveVars PROVE TransferInv'
    OBVIOUS
  <2>1. source \in BufUpTo[Depth - 1] /\ dst \in BufMut
    BY DEF TransferInv
  <2>2. source \in Buf
    BY <2>1, UnderOneTake, 0 \in Nat
  <2>3. /\ Remaining[source] \in Nat /\ Content[source] \in Seq(Byte) /\ Len(Content[source]) = Remaining[source]
        /\ RemainingMut[dst] \in Nat
    BY <2>1, <2>2, RemainingType, ContentLaw, RemainingMutType
  <2>4. ASSUME NEW n \in 0..Remaining[source], Put(n) PROVE TransferInv'
    BY <2>3, <2>4, BeginKeeps DEF Put
  <2>5. CASE PollReadSlice
    <3>1. ReadCount \in Nat /\ ReadCount <= RemainingMut[dst]
      BY <2>3 DEF ReadCount, Least
    <3> QED BY <2>5, <3>1, BeginKeeps DEF PollReadSlice
  <2>6. CASE PutChunk
    BY <2>6, PutChunkKeeps
  <2>7. CASE PutEnd
    BY <2>7, PutEndKeeps
  <2>8. CASE PutByte
    <3>1. /\ ~moving /\ Remaining[source] > 0 /\ RemainingMut[dst] > 0 /\ Opens(dst)
          /\ dst' = Filled(dst, First(Chunk[source], 1)) /\ source' = AdvanceBy[source][1]
          /\ feed' = TakeOf(source', 0) /\ moving' = moving /\ message' = message
      BY <2>8 DEF PutByte
    <3>2. 1 \in 0..Len(Chunk[source]) /\ 1 \in 0..Remaining[source]
      <4>1. Len(Chunk[source]) \in 1..Remaining[source]
        BY <2>2, <3>1, PastChunk
      <4> QED BY <2>3, <4>1
    <3>3. First(Chunk[source], 1) = First(Content[source], 1)
      BY <2>2, <3>2, FirstOfChunk
    <3>4. 1 <= ChunkRoom[dst]
      <4>1. ChunkRoom[dst] \in Nat /\ ChunkRoom[dst] > 0
        BY <2>1, <3>1, FillsLaw DEF Fills, RoomOf
      <4> QED BY <4>1
    <3>5. dst' = Filled(dst, First(Content[source], 1))
      BY <3>1, <3>3, Zenon
    <3> QED BY <3>1, <3>2, <3>4, <3>5, OnceKeeps
  <2>9. ASSUME NEW n \in 0..Remaining[source], PollReadSocket(n) PROVE TransferInv'
    <3>1. /\ ~moving /\ source.kind = "slice" /\ Opens(dst) /\ n <= ChunkRoom[dst]
          /\ dst' = Filled(dst, First(source.bytes, n)) /\ source' = AdvanceBy[source][n]
          /\ feed' = TakeOf(source', 0) /\ moving' = moving /\ message' = message
      BY <2>9 DEF PollReadSocket
    <3>2. source.bytes = Content[source]
      BY <2>2, <3>1, ContentDef
    <3>3. dst' = Filled(dst, First(Content[source], n))
      BY <3>1, <3>2, Zenon
    <3> QED BY <3>1, <3>3, OnceKeeps
  <2>10. CASE UNCHANGED moveVars
    BY <2>10 DEF moveVars, TransferInv, FeedType, RoomKept, MovedOnceInOrder, Left
  <2> QED BY <2>4, <2>5, <2>6, <2>7, <2>8, <2>9, <2>10 DEF MoveNext
<1> QED BY <1>1, <1>2, PTL DEF MoveSpec

\* Between any two iterations of put, put_slice, put_u8 and poll_read, whatever the borders of the
\* chunks on either side, what was written and what is left make up the message, for cursors of
\* any shape (buf_mut.rs:129-169, read.rs:35-41, tokio/mod.rs:24-29).
THEOREM TransferMovesOnce == MoveSpec => []MovedOnceInOrder
<1>1. TransferInv => MovedOnceInOrder
  BY DEF TransferInv
<1> QED BY <1>1, TransferInvHolds, PTL
=============================================================================
