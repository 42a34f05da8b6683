--------------------------- MODULE WriteAll_proofs ---------------------------
(***************************************************************************)
(* What the calls that write a Buf keep, for every cursor, every writer    *)
(* and whatever the peer does: nothing is lost or sent twice, the answers  *)
(* are true, and a task that waits will be woken.                          *)
(*                                                                         *)
(* Every write is of bytes that lead the content of the cursor (Chunk, or  *)
(* what ChunksVectored shows), and of those a writer takes a front; the    *)
(* cursor then moves by as many.  So the two stay complementary, from poll *)
(* to poll.                                                                *)
(***************************************************************************)
EXTENDS WriteAll, Cursors_proofs

WriteTypeOK ==
    /\ src \in Buf
    /\ writer \in {"socket", "vec", "slice"}
    /\ room \in Nat
    /\ peer \in {"open", "ended", "reset", "shut"}
    /\ sink \in Seq(Byte)
WriteInv ==
    /\ WriteTypeOK
    /\ SentOnceInOrder
    /\ Gapless(src, IoSlices)

\* A writer takes a front of what it is given, and nothing of something only if the peer of a
\* socket has ended.
LEMMA AcceptsFront ==
    ASSUME WriteTypeOK, NEW bytes \in Seq(Byte), NEW n \in Accepts(bytes)
    PROVE  /\ n \in 0..Len(bytes)
           /\ n = 0 => bytes = <<>> \/ peer = "ended"
           /\ Occupied(n) => room' \in Nat
<1>0. Len(bytes) \in Nat /\ (bytes # <<>> => Len(bytes) # 0) /\ room \in Nat
  BY DEF WriteTypeOK
<1>1. CASE writer = "socket"
  <2>1. n \in SocketAccepts(bytes)
    BY <1>1 DEF Accepts
  <2>2. CASE peer \in {"reset", "shut"}
    BY <2>1, <2>2 DEF SocketAccepts
  <2>3. CASE peer = "ended"
    <3>1. n = 0
      BY <2>1, <2>3 DEF SocketAccepts
    <3>2. Occupied(n) => room' \in Nat
      BY <1>0, <3>1 DEF Occupied
    <3> QED BY <1>0, <2>3, <3>1, <3>2
  <2>4. CASE peer = "open"
    <3>1. n \in IF bytes = <<>> THEN {0} ELSE 1..Least(room, Len(bytes))
      BY <2>1, <2>4 DEF SocketAccepts
    <3>2. n \in 0..Len(bytes) /\ n <= room /\ (n = 0 => bytes = <<>>)
      BY <1>0, <3>1 DEF Least
    <3>3. Occupied(n) => room' \in Nat
      BY <1>0, <1>1, <3>2 DEF Occupied
    <3> QED BY <3>2, <3>3
  <2> QED BY <2>2, <2>3, <2>4 DEF WriteTypeOK
<1>2. CASE writer = "vec"
  <2>1. n = Len(bytes)
    BY <1>2 DEF Accepts
  <2>2. Occupied(n) => room' \in Nat
    BY <1>0, <1>2 DEF Occupied
  <2>3. n \in 0..Len(bytes) /\ (n = 0 => bytes = <<>>)
    BY <1>0, <2>1
  <2> QED BY <2>2, <2>3
<1>3. CASE writer = "slice"
  <2>1. n = Len(bytes) /\ Len(bytes) <= room
    BY <1>3 DEF Accepts, SliceAccepts
  <2>2. Occupied(n) => room' \in Nat
    BY <1>0, <1>3, <2>1 DEF Occupied
  <2>3. n \in 0..Len(bytes) /\ (n = 0 => bytes = <<>>)
    BY <1>0, <2>1
  <2> QED BY <2>2, <2>3
<1> QED BY <1>1, <1>2, <1>3 DEF WriteTypeOK

LEMMA ChunkLeads ==
    ASSUME WriteTypeOK
    PROVE  Chunk[src] \in Seq(Byte) /\ Leads(Chunk[src], Content[src])
BY ChunkLaw DEF WriteTypeOK

LEMMA GatheredLeads ==
    ASSUME WriteTypeOK, Gapless(src, IoSlices)
    PROVE  Gathered \in Seq(Byte) /\ Leads(Gathered, Content[src])
<1> DEFINE v == ChunksVectored[src][IoSlices]
<1>1. src \in Buf /\ IoSlices \in Nat
  BY WriteAllAssumption DEF WriteTypeOK
<1>2. Tidy(src, IoSlices, v) /\ Leads(FlattenSeq(v), Content[src])
  BY <1>1, VectoredLaw DEF Shows
<1>3. Gathered = IF writer = "socket" THEN FlattenSeq(v) ELSE IF v = <<>> THEN <<>> ELSE Head(v)
  BY DEF Gathered
<1> HIDE DEF v
<1>4. v \in Pieces
  BY <1>2 DEF Tidy
<1>5. FlattenSeq(v) \in Seq(Byte) /\ Content[src] \in Seq(Byte)
  BY <1>1, <1>4, FlattenType, ContentLaw
<1>6. CASE writer = "socket"
  BY <1>2, <1>3, <1>5, <1>6
<1>7. CASE writer # "socket" /\ v = <<>>
  <2>1. First(Content[src], 0) = <<>> /\ Len(<<>>) = 0 /\ <<>> \in Seq(Byte)
    BY <1>5, CutEnds
  <2> QED BY <1>3, <1>7, <2>1 DEF Leads
<1>8. CASE writer # "socket" /\ v # <<>>
  <2>1. Head(v) \in Seq(Byte) /\ Leads(Head(v), FlattenSeq(v))
    BY <1>4, <1>8, HeadLeads
  <2>2. Leads(Head(v), Content[src])
    BY <1>2, <1>5, <2>1, LeadsTwice
  <2> QED BY <1>3, <1>8, <2>1, <2>2
<1> QED BY <1>6, <1>7, <1>8

\* the heart of it: bytes that lead the content, of which the writer takes some
LEMMA AcceptedKeeps ==
    ASSUME WriteInv, NEW bytes \in Seq(Byte), Leads(bytes, Content[src]), NEW n \in Accepts(bytes), Accepted(bytes, n)
    PROVE  WriteInv'
<1>0. WriteTypeOK /\ src \in Buf /\ sink \in Seq(Byte)
  BY DEF WriteInv, WriteTypeOK
<1>1. Content[src] \in Seq(Byte) /\ Len(Content[src]) = Remaining[src] /\ Remaining[src] \in Nat
  BY <1>0, ContentLaw, RemainingType
<1>2. n \in 0..Len(bytes) /\ room' \in Nat
  BY <1>0, AcceptsFront DEF Accepted
<1>3. First(bytes, n) = First(Content[src], n) /\ n \in 0..Remaining[src]
  BY <1>1, <1>2, LeadsFirst
<1>4. Moved(src, src', n)
  BY <1>0, <1>3, AdvanceLaw DEF Accepted
<1>5. src' \in Buf /\ First(Content[src], n) \o Content[src'] = Content[src]
  BY <1>0, <1>3, <1>4, MovedRemaining
<1>6. sink' = sink \o First(Content[src], n)
  BY <1>3 DEF Accepted
<1>7. First(Content[src], n) \in Seq(Byte) /\ Content[src'] \in Seq(Byte)
  BY <1>1, <1>3, <1>5, FirstType, ContentLaw
<1>8. sink' \o Content[src'] = sink \o Content[src]
  <2> DEFINE f == First(Content[src], n)
             k == Content[src']
  <2>1. (sink \o f) \o k = sink \o (f \o k)
    <3>1. sink \in Seq(Byte) /\ f \in Seq(Byte) /\ k \in Seq(Byte)
      BY <1>0, <1>7
    <3> HIDE DEF f, k
    <3> QED BY <3>1, JoinThrice
  <2> QED BY <1>5, <1>6, <2>1
<1>9. sink' \in Seq(Byte)
  BY <1>0, <1>6, <1>7, JoinElements
<1>10. SentOnceInOrder'
  BY <1>8 DEF WriteInv, SentOnceInOrder, Accepted
<1>11. Gapless(src', IoSlices)
  BY <1>4 DEF Moved, Alike, WriteInv, Gapless
<1>12. writer' = writer /\ peer' = peer
  BY DEF Accepted
<1> QED BY <1>0, <1>2, <1>5, <1>9, <1>10, <1>11, <1>12 DEF WriteInv, WriteTypeOK

\* the other steps leave the cursor, the bytes taken and the message as they are
LEMMA StillKeeps ==
    ASSUME WriteInv, UNCHANGED <<src, writer, sink, message>>, room' \in Nat, peer' \in {"open", "ended", "reset", "shut"}
    PROVE  WriteInv'
BY DEF WriteInv, WriteTypeOK, SentOnceInOrder, Gapless

LEMMA PollKeeps ==
    ASSUME WriteInv, NEW bytes \in Seq(Byte), Leads(bytes, Content[src]), NEW kind, PollOnce(kind, bytes)
    PROVE  WriteInv'
<1>1. ASSUME NEW n \in Accepts(bytes), Accepted(bytes, n) PROVE WriteInv'
  BY <1>1, AcceptedKeeps
<1>0. room \in Nat /\ peer \in {"open", "ended", "reset", "shut"}
  BY DEF WriteInv, WriteTypeOK
<1>2. CASE Pending(bytes)
  BY <1>0, <1>2, StillKeeps DEF Pending, conn
<1>3. CASE Refused
  BY <1>0, <1>3, StillKeeps DEF Refused, conn
<1>4. CASE Panics(bytes)
  BY <1>0, <1>4, StillKeeps DEF Panics
<1> QED BY <1>1, <1>2, <1>3, <1>4 DEF PollOnce

LEMMA WriteKeeps ==
    ASSUME WriteInv, [Next]_vars
    PROVE  WriteInv'
<1>0. room \in Nat /\ peer \in {"open", "ended", "reset", "shut"} /\ WriteTypeOK /\ Gapless(src, IoSlices)
  BY DEF WriteInv, WriteTypeOK
<1>1. ASSUME NEW kind \in {"buf", "vectored", "all"}, Call(kind) PROVE WriteInv'
  BY <1>0, <1>1, StillKeeps DEF Call, conn
<1>2. CASE PollWriteBuf
  BY <1>0, <1>2, ChunkLeads, PollKeeps DEF PollWriteBuf
<1>3. CASE PollWriteBufVectored
  BY <1>0, <1>3, GatheredLeads, PollKeeps DEF PollWriteBufVectored
<1>4. CASE WriteAllEnds
  BY <1>0, <1>4, StillKeeps DEF WriteAllEnds, conn
<1>5. CASE WriteAllStep
  <2>1. Chunk[src] \in Seq(Byte) /\ Leads(Chunk[src], Content[src])
    BY <1>0, ChunkLeads
  <2>2. ASSUME NEW n \in Accepts(Chunk[src]), Accepted(Chunk[src], n) PROVE WriteInv'
    BY <2>1, <2>2, AcceptedKeeps
  <2>3. CASE Pending(Chunk[src])
    BY <1>0, <2>3, StillKeeps DEF Pending, conn
  <2>4. CASE Refused
    BY <1>0, <2>4, StillKeeps DEF Refused, conn
  <2>5. CASE Panics(Chunk[src])
    BY <1>0, <2>5, StillKeeps DEF Panics
  <2> QED BY <1>5, <2>2, <2>3, <2>4, <2>5 DEF WriteAllStep
<1>6. CASE PollFlush
  BY <1>0, <1>6, StillKeeps DEF PollFlush, conn
<1>7. CASE PollShutdown
  BY <1>0, <1>7, StillKeeps DEF PollShutdown
<1>8. CASE Drain
  <2>1. room' \in Nat
    BY <1>0, <1>8, WriteAllAssumption DEF Drain
  <2> QED BY <1>0, <1>8, <2>1, StillKeeps DEF Drain
<1>9. CASE Close
  BY <1>0, <1>9, StillKeeps DEF Close
<1>10. CASE UNCHANGED vars
  BY <1>0, <1>10, StillKeeps DEF vars, conn
<1> QED BY <1>1, <1>2, <1>3, <1>4, <1>5, <1>6, <1>7, <1>8, <1>9, <1>10 DEF Next, Poll

LEMMA WriteInvHolds ==
    ASSUME \A c \in Sources : Gapless(c, IoSlices)
    PROVE  Spec => []WriteInv
<1>1. Init => WriteInv
  <2> SUFFICES ASSUME Init PROVE WriteInv
    OBVIOUS
  <2>1. src \in Buf /\ Gapless(src, IoSlices) /\ sink = <<>> /\ message = Content[src]
    BY WriteAllAssumption DEF Init
  <2>2. Content[src] \in Seq(Byte)
    BY <2>1, ContentLaw
  <2>3. writer \in {"socket", "vec", "slice"} /\ room \in Nat /\ peer = "open"
    BY WriteAllAssumption DEF Init
  <2>4. SentOnceInOrder
    BY <2>1, <2>2 DEF SentOnceInOrder
  <2> QED BY <2>1, <2>3, <2>4 DEF WriteInv, WriteTypeOK
<1> QED BY <1>1, WriteKeeps, PTL DEF Spec

\* What the writer has taken and what the cursor still holds make up the message at all times,
\* through any sequence of calls, short writes, Pending, errors and panics (write.rs:141-195), if
\* no take of the source hides slices in front of another cursor.
THEOREM NothingLostNorSentTwice ==
    ASSUME \A c \in Sources : Gapless(c, IoSlices)
    PROVE  Spec => []SentOnceInOrder
<1>1. WriteInv => SentOnceInOrder
  BY DEF WriteInv
<1> QED BY <1>1, WriteInvHolds, PTL

\* What poll_write_all_buf returns is true: Ok after everything, WriteZero and an error only if the
\* peer is the reason and something is left (write.rs:150-174).
THEOREM AnswersTrue ==
    ASSUME \A c \in Sources : Gapless(c, IoSlices)
    PROVE  Spec => AnswersAreTrue
<1> DEFINE Answer == /\ Settles("ok") => sink' = message
                     /\ Settles("zero") => peer = "ended" /\ sink' # message
                     /\ Settles("error") => peer \in {"reset", "shut"} /\ sink' # message
<1>1. WriteInv /\ [Next]_vars => [Answer]_vars
  <2> SUFFICES ASSUME WriteInv, Next, call = "all", call' = "none" PROVE Answer
    BY DEF Settles
  <2>1. src \in Buf /\ sink \in Seq(Byte) /\ sink \o Content[src] = message /\ WriteTypeOK
    BY DEF WriteInv, WriteTypeOK, SentOnceInOrder
  <2>2. Content[src] \in Seq(Byte) /\ Len(Content[src]) = Remaining[src] /\ Remaining[src] \in Nat
    BY <2>1, ContentLaw, RemainingType
  <2>3. Remaining[src] # 0 => sink # message
    <3>1. ASSUME Remaining[src] # 0, sink = message PROVE FALSE
      <4>1. Len(sink \o Content[src]) = Len(sink) + Remaining[src] /\ Len(sink) \in Nat
        BY <2>1, <2>2, JoinElements
      <4> QED BY <2>1, <2>2, <3>1, <4>1
    <3> QED BY <3>1
  <2>4. WriteAllEnds \/ WriteAllStep
    BY DEF Next, Poll, Call, Free, PollWriteBuf, PollWriteBufVectored, PollOnce, Polled, PollFlush, PollShutdown,
           Drain, Close
  <2>5. CASE WriteAllEnds
    <3>1. Remaining[src] = 0 /\ sink' = sink /\ answer' = "ok"
      BY <2>5 DEF WriteAllEnds, Returns
    <3>2. Content[src] = <<>>
      BY <2>2, <3>1
    <3>3. sink = message
      BY <2>1, <3>2
    <3> QED BY <3>1, <3>3 DEF Settles
  <2>6. CASE WriteAllStep
    <3>0. Remaining[src] # 0
      BY <2>2, <2>6 DEF WriteAllStep
    <3>1. ASSUME NEW n \in Accepts(Chunk[src]), Accepted(Chunk[src], n), AfterWrite(n) PROVE Answer
      <4>1. n = 0 /\ answer' = "zero"
        BY <3>1 DEF AfterWrite, Returns
      <4>2. Chunk[src] \in Seq(Byte) /\ Chunk[src] # <<>>
        BY <2>1, <3>0, ChunkLaw
      <4>3. peer = "ended"
        BY <2>1, <3>1, <4>1, <4>2, AcceptsFront DEF Accepted
      <4>4. sink' = sink
        <5>1. First(Chunk[src], 0) = <<>>
          BY <4>2, CutEnds
        <5> QED BY <2>1, <3>1, <4>1, <5>1 DEF Accepted
      <4> QED BY <2>3, <3>0, <4>1, <4>3, <4>4 DEF Settles
    <3>2. ~(Pending(Chunk[src]) /\ UNCHANGED call)
      OBVIOUS
    <3>3. CASE Refused
      <4>1. answer' = "error" /\ peer \in {"reset", "shut"} /\ sink' = sink
        BY <3>3 DEF Refused, Returns
      <4> QED BY <2>3, <3>0, <4>1 DEF Settles
    <3>4. CASE Panics(Chunk[src])
      <4>1. answer' = "panic"
        BY <3>4 DEF Panics, Returns
      <4> QED BY <4>1 DEF Settles
    <3> QED BY <2>6, <3>1, <3>2, <3>3, <3>4 DEF WriteAllStep
  <2> QED BY <2>4, <2>5, <2>6
<1> QED BY <1>1, WriteInvHolds, PTL DEF AnswersAreTrue, Spec

\* A task that waits has left its waker with the socket (write.rs:19-21), whatever it writes.
THEOREM WaitingTaskIsWoken == Spec => []ParkedHasWaker
<1>1. Init => ParkedHasWaker
  BY DEF Init, ParkedHasWaker
<1>2. ParkedHasWaker /\ [Next]_vars => ParkedHasWaker'
  <2> SUFFICES ASSUME ParkedHasWaker, [Next]_vars PROVE ParkedHasWaker'
    OBVIOUS
  <2>1. ASSUME UNCHANGED <<parked, waker>> PROVE ParkedHasWaker'
    BY <2>1 DEF ParkedHasWaker
  <2>2. ASSUME NEW bytes, Pending(bytes) PROVE ParkedHasWaker'
    BY <2>2 DEF Pending, ParkedHasWaker
  <2>3. ASSUME Wake PROVE ParkedHasWaker'
    BY <2>3, Zenon DEF Wake, ParkedHasWaker
  <2>4. ASSUME NEW kind, NEW bytes, PollOnce(kind, bytes) PROVE ParkedHasWaker'
    BY <2>1, <2>2, <2>4 DEF PollOnce, Accepted, Refused, Panics
  <2>5. ASSUME NEW kind, Call(kind) PROVE ParkedHasWaker'
    BY <2>1, <2>5 DEF Call
  <2>6. CASE WriteAllEnds
    BY <2>1, <2>6 DEF WriteAllEnds
  <2>7. CASE WriteAllStep
    BY <2>1, <2>2, <2>7 DEF WriteAllStep, Accepted, Refused, Panics
  <2>8. CASE PollFlush \/ PollShutdown
    BY <2>1, <2>8 DEF PollFlush, PollShutdown
  <2>9. CASE Drain \/ Close
    BY <2>3, <2>9 DEF Drain, Close
  <2>10. CASE UNCHANGED vars
    BY <2>1, <2>10 DEF vars
  <2> QED BY <2>4, <2>5, <2>6, <2>7, <2>8, <2>9, <2>10 DEF Next, Poll, PollWriteBuf, PollWriteBufVectored
<1> QED BY <1>1, <1>2, PTL DEF Spec
=============================================================================
