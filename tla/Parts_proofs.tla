----------------------------- MODULE Parts_proofs -----------------------------
(***************************************************************************)
(* The small components, which share no state with each other: the         *)
(* integer parsers, the count of a Shared block at its limit, the growth   *)
(* of a BytesMut at the width of usize, ByteStr, and the combined futures. *)
(***************************************************************************)
EXTENDS AsciiNumber, RefCountLimit, GrowthLimit, ByteStrs, Combinators,
        Integers, FiniteSetTheorems, NaturalsInduction, WellFoundedInduction, TLAPS

-----------------------------------------------------------------------------
(* AsciiNumber: the parsers return what the text denotes or refuse it, for
   every width, every length and every text. *)

(* Division with remainder: there is one, and it is unique.                *)
LEMMA Quotient ==
    ASSUME NEW m \in Nat, m > 0, NEW n \in Nat
    PROVE  /\ n % m \in Nat /\ n % m < m
           /\ \E q \in Nat : n = q * m + (n % m)
<1>1. n = (n \div m) * m + (n % m) /\ n \div m \in Nat /\ n % m \in Nat /\ n % m < m
  BY SMT
<1> QED BY <1>1

LEMMA Remainder ==
    ASSUME NEW m \in Nat, m > 0, NEW q \in Nat, NEW r \in Nat, r < m
    PROVE  (q * m + r) % m = r
<1> DEFINE n == q * m + r
<1>1. n \in Nat
  OBVIOUS
<1>2. PICK p \in Nat : n = p * m + (n % m) /\ n % m \in Nat /\ n % m < m
  BY <1>1, Quotient
<1>3. ~ (p >= q + 1)
  <2> SUFFICES ASSUME p >= q + 1 PROVE FALSE
    OBVIOUS
  <2>1. p * m >= (q + 1) * m
    BY SMT
  <2>2. (q + 1) * m = q * m + m
    BY SMT
  <2> QED BY <1>2, <2>1, <2>2
<1>4. ~ (q >= p + 1)
  <2> SUFFICES ASSUME q >= p + 1 PROVE FALSE
    OBVIOUS
  <2>1. q * m >= (p + 1) * m
    BY SMT
  <2>2. (p + 1) * m = p * m + m
    BY SMT
  <2> QED BY <1>2, <2>1, <2>2
<1>5. p = q
  BY <1>3, <1>4
<1> QED BY <1>2, <1>5

(* Whole multiples of the width do not count.                              *)
LEMMA Multiples ==
    ASSUME NEW m \in Nat, m > 0, NEW k \in Nat, NEW n \in Nat
    PROVE  (k * m + n) % m = n % m
<1>1. PICK q \in Nat : n = q * m + (n % m) /\ n % m \in Nat /\ n % m < m
  BY Quotient
<1>2. k * m + n = (k + q) * m + (n % m)
  BY <1>1, SMT
<1>3. k + q \in Nat
  OBVIOUS
<1> QED BY <1>1, <1>2, <1>3, Remainder

(* wrapping_mul and wrapping_add by digits: wrapping at every step gives   *)
(* the same as wrapping once at the end.                                   *)
LEMMA WrapsLikeTheSum ==
    ASSUME NEW n \in Nat, NEW d \in Nat
    PROVE  Wrapped(Wrapped(Wrapped(n) * 10) + d) = Wrapped(n * 10 + d)
<1> DEFINE m == UMax + 1
<1>1. m \in Nat /\ m > 0
  BY WidthAssumption
<1> HIDE DEF m
<1>2. PICK q \in Nat : n = q * m + (n % m) /\ n % m \in Nat
  BY <1>1, Quotient
<1> DEFINE r == n % m
<1>3. r \in Nat /\ n = q * m + r
  BY <1>2
<1> HIDE DEF r
<1>4. PICK p \in Nat : r * 10 = p * m + ((r * 10) % m) /\ (r * 10) % m \in Nat
  BY <1>1, <1>3, Quotient
<1> DEFINE s == (r * 10) % m
<1>5. s \in Nat /\ r * 10 = p * m + s
  BY <1>4
<1> HIDE DEF s
<1>6. n * 10 + d = (q * 10) * m + (r * 10 + d)
  BY <1>1, <1>3, SMT
<1>7. (n * 10 + d) % m = (r * 10 + d) % m
  <2>1. q * 10 \in Nat /\ r * 10 + d \in Nat
    BY <1>3
  <2>2. ((q * 10) * m + (r * 10 + d)) % m = (r * 10 + d) % m
    BY <1>1, <2>1, Multiples
  <2> QED BY <1>6, <2>2
<1>8. r * 10 + d = p * m + (s + d)
  BY <1>1, <1>3, <1>5
<1>9. (r * 10 + d) % m = (s + d) % m
  <2>1. s + d \in Nat
    BY <1>5
  <2>2. (p * m + (s + d)) % m = (s + d) % m
    BY <1>1, <2>1, Multiples
  <2> QED BY <1>8, <2>2
<1> QED BY <1>7, <1>9 DEF Wrapped, m, r, s

(* The invariant of the loop.                                              *)
THEOREM NumberInvariance == NumberSpec => []NumberInv
<1> USE WidthAssumption
<1>1. NumberInit => NumberInv
  BY DEF NumberInit, NumberInv, NumberTypeOK, NumberIsExact
<1>2. NumberInv /\ [NumberNext]_numberVars => NumberInv'
  <2> SUFFICES ASSUME NumberInv, [NumberNext]_numberVars PROVE NumberInv'
    OBVIOUS
  <2> USE DEF NumberInv, NumberTypeOK, NumberIsExact
  <2>1. CASE Enter
    <3>1. Wrapped(0) = 0
      BY DEF Wrapped
    <3> QED BY <2>1, <3>1 DEF Enter, TooLong, LongestNumber, Fits, Lowest, Highest
  <2>2. ASSUME NEW s \in {1, -1}, ReadSign(s) PROVE NumberInv'
    BY <2>2 DEF ReadSign, Fits, Lowest, Highest
  <2>3. CASE NoSign
    BY <2>3 DEF NoSign, Fits, Lowest, Highest
  <2>4. ASSUME NEW d \in Digit, ReadDigit(d) PROVE NumberInv'
    <3>1. CASE fn = "wrapping_atou"
      <4>1. acc' = Wrapped(Wrapped(acc * 10) + d) /\ at' = "digits" /\ at = "digits"
        BY <2>4, <3>1 DEF ReadDigit
      <4>2. acc = Wrapped(denoted) /\ denoted \in Nat /\ d \in Nat
        BY <3>1, <4>1 DEF Digit
      <4>3. acc' = Wrapped(denoted * 10 + d)
        BY <4>1, <4>2, WrapsLikeTheSum
      <4>4. denoted' = denoted * 10 + d /\ denoted' \in Nat
        BY <2>4, <4>2 DEF ReadDigit
      <4>5. acc' \in Int
        BY <4>3, <4>4 DEF Wrapped
      <4> QED BY <2>4, <3>1, <4>1, <4>3, <4>4, <4>5 DEF ReadDigit
    <3>2. CASE fn # "wrapping_atou"
      BY <2>4, <3>2 DEF ReadDigit, Add, Fits, Lowest, Highest, Digit
    <3> QED BY <3>1, <3>2
  <2>5. CASE ReadOther
    BY <2>5 DEF ReadOther
  <2>6. CASE Finish
    BY <2>6 DEF Finish, Fits, Lowest, Highest
  <2>7. CASE UNCHANGED numberVars
    BY <2>7 DEF numberVars, Fits, Lowest, Highest, LongestNumber
  <2> QED BY <2>1, <2>2, <2>3, <2>4, <2>5, <2>6, <2>7 DEF NumberNext
<1> QED BY <1>1, <1>2, PTL DEF NumberSpec

(* atou, wrapping_atou and atoi are exact, for every width and text.       *)
THEOREM NumbersExact == NumberSpec => []NumberIsExact
<1>1. NumberInv => NumberIsExact
  BY DEF NumberInv
<1> QED BY <1>1, NumberInvariance, PTL

-----------------------------------------------------------------------------
(* RefCountLimit: the count never wraps, for every limit and any number of
   threads up to it. *)

(* Arithmetic of usize: nothing below the modulus wraps.                   *)
LEMMA WrapSmall ==
    ASSUME NEW n \in Nat, n <= 2 * IsizeMax + 1
    PROVE  Wrap(n) = n
<1>1. IsizeMax \in Nat
  BY LimitAssumption
<1> DEFINE M == 2 * IsizeMax + 2
<1>2. M \in Nat /\ M > 0 /\ n < M
  BY <1>1
<1>3. n % M = n
  <2> HIDE DEF M
  <2> QED BY <1>2, SMT
<1> QED BY <1>3 DEF Wrap

LEMMA WrapDecrement ==
    ASSUME NEW n \in Nat, n >= 1, n <= 2 * IsizeMax + 1
    PROVE  Wrap(n + 2 * IsizeMax + 1) = n - 1
<1>1. IsizeMax \in Nat
  BY LimitAssumption
<1> DEFINE M == 2 * IsizeMax + 2
<1>2. M \in Nat /\ M > 0 /\ n <= M /\ n + 2 * IsizeMax + 1 = n - 1 + M
  BY <1>1
<1>3. (n - 1 + M) % M = n - 1
  <2> HIDE DEF M
  <2> QED BY <1>2, SMT
<1> QED BY <1>2, <1>3 DEF Wrap

(* The inductive invariant: every step keeps the count exact.              *)
THEOREM LimitInvariance == LimitSpec => []LimitInv
<1> USE LimitAssumption
<1>1. LimitInit => LimitInv
  <2> SUFFICES ASSUME LimitInit PROVE LimitInv
    OBVIOUS
  <2>1. Doomed = {}
    BY DEF LimitInit, Doomed
  <2>2. Cardinality(Doomed) = 0
    BY <2>1, FS_EmptySet
  <2>3. LimitTypeOK
    BY DEF LimitInit, LimitTypeOK, Usize
  <2> QED
    BY <2>2, <2>3 DEF LimitInit, LimitInv, FreedWithoutReferences
<1>2. LimitInv /\ [LimitNext]_limitVars => LimitInv'
  <2> SUFFICES ASSUME LimitInv, [LimitNext]_limitVars PROVE LimitInv'
    OBVIOUS
  <2>0. /\ Doomed \subseteq Adder /\ IsFiniteSet(Doomed)
        /\ Cardinality(Doomed) \in Nat /\ Cardinality(Doomed) <= Cardinality(Adder)
        /\ Cardinality(Adder) \in Nat
    BY FS_Subset, FS_CardinalityType DEF Doomed
  <2>1. ASSUME NEW t \in Adder, FetchAdd(t) PROVE LimitInv'
    <3>1. /\ process = "running" /\ old[t] = Unread /\ t \notin Doomed
          /\ refs' = refs + 1 /\ process' = process
          /\ refs \in Nat /\ refs = count /\ refs <= IsizeMax + 1 + Cardinality(Doomed)
      BY <2>1 DEF FetchAdd, Doomed, LimitInv, LimitTypeOK
    <3>2. CASE TooMany(count)
      <4>1. Doomed' = Doomed \cup {t}
        BY <2>1, <3>1, <3>2 DEF FetchAdd, Doomed, LimitInv, LimitTypeOK, Usize, Unread
      <4>2. Cardinality(Doomed') = Cardinality(Doomed) + 1
        BY <4>1, <3>1, <2>0, FS_AddElement
      <4>3. IsFiniteSet(Doomed') /\ Doomed' \subseteq Adder
        BY <4>1, <2>0, FS_AddElement
      <4>4. Cardinality(Doomed') <= Cardinality(Adder)
        BY <4>3, FS_Subset
      <4>5. refs + 1 <= 2 * IsizeMax + 1
        BY <4>2, <4>4, <3>1, <2>0
      <4>6. count' = count + 1
        BY <4>5, <3>1, <2>1, WrapSmall DEF FetchAdd
      <4>7. LimitTypeOK'
        BY <2>1, <3>1, <4>5, <4>6 DEF FetchAdd, LimitInv, LimitTypeOK, Usize
      <4> QED
        BY <3>1, <2>0, <4>2, <4>6, <4>7 DEF LimitInv, FreedWithoutReferences
    <3>3. CASE ~ TooMany(count)
      <4>1. Doomed' = Doomed
        BY <2>1, <3>1, <3>3 DEF FetchAdd, Doomed, LimitInv, LimitTypeOK, Usize, Unread
      <4>2. refs + 1 <= IsizeMax + 1
        BY <3>1, <3>3 DEF TooMany
      <4>3. count' = count + 1
        BY <4>2, <3>1, <2>1, WrapSmall DEF FetchAdd
      <4>4. LimitTypeOK'
        BY <2>1, <3>1, <4>2, <4>3 DEF FetchAdd, LimitInv, LimitTypeOK, Usize
      <4> QED
        BY <2>0, <3>1, <4>1, <4>2, <4>3, <4>4 DEF LimitInv, FreedWithoutReferences
    <3> QED BY <3>2, <3>3
  <2>2. ASSUME NEW t \in Adder, CheckOld(t) PROVE LimitInv'
    <3>1. CASE TooMany(old[t])
      BY <2>2, <3>1 DEF CheckOld, LimitInv, LimitTypeOK, FreedWithoutReferences
    <3>2. CASE ~ TooMany(old[t])
      <4>1. Doomed' = Doomed
        BY <2>2, <3>2 DEF CheckOld, Doomed, LimitInv, LimitTypeOK
      <4> QED
        BY <2>2, <3>2, <4>1 DEF CheckOld, LimitInv, LimitTypeOK, FreedWithoutReferences
    <3> QED BY <3>1, <3>2
  <2>3. ASSUME NEW t \in Adder, FetchSub(t) PROVE LimitInv'
    <3>1. Doomed' = Doomed
      BY <2>3 DEF FetchSub, Doomed
    <3>2. Adding \subseteq Adder /\ Cardinality(Adding) \in Nat
      BY FS_Subset, FS_CardinalityType DEF Adding
    <3>3. refs >= 1
      BY <2>3, <3>2 DEF FetchSub, LimitInv, LimitTypeOK
    <3>4. count \in Nat /\ count = refs /\ count <= 2 * IsizeMax + 1
      BY DEF LimitInv, LimitTypeOK, Usize
    <3>5. count' = count - 1
      BY <2>3, <3>3, <3>4, WrapDecrement DEF FetchSub
    <3> QED
      BY <2>0, <2>3, <3>1, <3>3, <3>4, <3>5
      DEF FetchSub, LimitInv, LimitTypeOK, FreedWithoutReferences, Usize
  <2>4. CASE UNCHANGED limitVars
    <3>1. Doomed' = Doomed
      BY <2>4 DEF limitVars, Doomed
    <3> QED
      BY <2>4, <3>1 DEF limitVars, LimitInv, LimitTypeOK, FreedWithoutReferences
  <2> QED BY <2>1, <2>2, <2>3, <2>4 DEF LimitNext
<1> QED BY <1>1, <1>2, PTL DEF LimitSpec

(* A block is freed only when no reference to it is left: the abort comes  *)
(* in time although the count is incremented before it is compared.        *)
THEOREM NeverFreedEarly == LimitSpec => []FreedWithoutReferences
<1>1. LimitInv => FreedWithoutReferences
  BY DEF LimitInv
<1> QED BY <1>1, LimitInvariance, PTL

-----------------------------------------------------------------------------
(* GrowthLimit: reserve and extend_from_slice, for every width of usize. *)

(* Arithmetic of usize.                                                    *)
LEMMA UszWrapSmall ==
    ASSUME NEW n \in Nat, n <= 2 * MaxAlloc + 1
    PROVE  UszWrap(n) = n
<1>1. MaxAlloc \in Nat
  BY MaxAllocAssumption
<1> DEFINE M == 2 * MaxAlloc + 2
<1>2. M \in Nat /\ M > 0 /\ n < M
  BY <1>1
<1>3. n % M = n
  <2> HIDE DEF M
  <2> QED BY <1>2, SMT
<1> QED BY <1>3 DEF UszWrap

(* What is masked comes back.                                              *)
LEMMA MaskedPayload ==
    ASSUME NEW n \in Sizes
    PROVE  /\ MaskPayload(n) = n * 2 + 1
           /\ MaskPayload(n) \in Usz
           /\ Payload(n * 2 + 1) = n
<1>1. MaxAlloc \in Nat /\ n \in Nat /\ n <= MaxAlloc - 1
  BY MaxAllocAssumption DEF Sizes
<1>2. n * 2 \in Nat /\ n * 2 <= 2 * MaxAlloc + 1
  BY <1>1
<1>3. UszWrap(n * 2) = n * 2
  BY <1>2, UszWrapSmall
<1>4. (n * 2 + 1) \div 2 = n
  BY <1>1
<1> QED BY <1>1, <1>3, <1>4 DEF MaskPayload, Payload, Usz

(* The numbers of a handle between two calls.                              *)
Sound(b) ==
    /\ b \in BufType
    /\ b.len <= b.cap
    /\ ~ b.promoted => b.data = b.start * 2 + 1 /\ b.start + b.cap = b.alloc
    /\ b.promoted => b.start + b.cap <= b.alloc

LEMMA SoundNumbers ==
    ASSUME NEW b, Sound(b)
    PROVE  /\ MaxAlloc \in Nat /\ MaxAlloc > 0
           /\ b.start \in Nat /\ b.len \in Nat /\ b.cap \in Nat /\ b.alloc \in Nat
           /\ b.promoted \in BOOLEAN /\ b.unique \in BOOLEAN /\ b.data \in Usz
           /\ b.start + b.cap <= b.alloc /\ b.alloc <= MaxAlloc - 1
           /\ b.len <= b.cap
           /\ Offset(b) = b.start
<1>1. /\ MaxAlloc \in Nat /\ MaxAlloc > 0
      /\ b.promoted \in BOOLEAN /\ b.unique \in BOOLEAN /\ b.data \in Usz
      /\ b.start \in Sizes /\ b.len \in Sizes /\ b.cap \in Sizes /\ b.alloc \in Sizes
  BY MaxAllocAssumption DEF Sound, BufType
<1>2. /\ b.start \in Nat /\ b.len \in Nat /\ b.cap \in Nat /\ b.alloc \in Nat
      /\ b.alloc <= MaxAlloc - 1
  BY <1>1 DEF Sizes
<1>3. b.start + b.cap <= b.alloc /\ b.len <= b.cap
  BY <1>1, <1>2 DEF Sound
<1>4. Offset(b) = b.start
  BY <1>1, MaskedPayload DEF Sound, Offset
<1> QED BY <1>1, <1>2, <1>3, <1>4

LEMMA NewBufSound ==
    ASSUME NEW cap \in Sizes, NEW size \in 0..cap
    PROVE  Sound(NewBuf(size, cap)) /\ NewBuf(size, cap).cap = cap /\ NewBuf(size, cap).len = size
<1>1. MaxAlloc \in Nat /\ MaxAlloc > 0 /\ cap \in Nat /\ size \in Nat /\ cap <= MaxAlloc - 1
  BY MaxAllocAssumption DEF Sizes
<1>2. 0 \in Sizes /\ size \in Sizes
  BY <1>1 DEF Sizes
<1>3. MaskPayload(0) = 1 /\ MaskPayload(0) \in Usz
  BY <1>2, MaskedPayload
<1> QED BY <1>1, <1>2, <1>3 DEF Sound, NewBuf, BufType

LEMMA TakesTailSound ==
    ASSUME NEW b, Sound(b)
    PROVE  /\ Sound(TakesTail(b))
           /\ TakesTail(b).len = b.len /\ TakesTail(b).promoted = b.promoted
           /\ TakesTail(b).start = b.start /\ TakesTail(b).unique = b.unique
           /\ TailFits(b, TailOf(b)) => TakesTail(b).cap = b.cap + TailOf(b)
           /\ TailOf(b) = b.alloc - (b.cap + b.start)
<1>1. TailOf(b) = b.alloc - (b.cap + b.start) /\ TailOf(b) \in Nat
  BY SoundNumbers DEF TailOf
<1>2. CASE b.promoted /\ b.unique
  <2> DEFINE t == [b EXCEPT !.cap = @ + TailOf(b)]
  <2>1. TakesTail(b) = t
    BY <1>2 DEF TakesTail
  <2>2. b.cap + TailOf(b) \in Sizes /\ b.cap + TailOf(b) = b.alloc - b.start
    BY <1>1, SoundNumbers DEF Sizes
  <2>3. t \in BufType /\ t.len = b.len /\ t.promoted = b.promoted /\ t.start = b.start
        /\ t.unique = b.unique /\ t.cap = b.cap + TailOf(b) /\ t.alloc = b.alloc
    BY <2>2 DEF Sound, BufType
  <2> HIDE DEF t
  <2>4. Sound(t)
    BY <1>1, <1>2, <2>2, <2>3, SoundNumbers DEF Sound
  <2> QED BY <1>1, <2>1, <2>3, <2>4
<1>3. CASE ~ (b.promoted /\ b.unique)
  <2>1. TakesTail(b) = b /\ ~ TailFits(b, TailOf(b))
    BY <1>3 DEF TakesTail, TailFits
  <2> QED BY <1>1, <2>1
<1> QED BY <1>2, <1>3

LEMMA MovedToFrontSound ==
    ASSUME NEW b, Sound(b)
    PROVE  /\ Sound(MovedToFront(b))
           /\ MovedToFront(b).len = b.len
           /\ MovedToFront(b).cap = b.cap + b.start
<1> DEFINE d == IF b.promoted THEN b.data ELSE MaskPayload(0)
           m == [b EXCEPT !.cap = @ + Offset(b), !.start = 0, !.data = d]
<1>1. MovedToFront(b) = m
  BY DEF MovedToFront
<1>2. 0 \in Sizes
  BY SoundNumbers DEF Sizes
<1>3. d \in Usz /\ (~ b.promoted => d = 1) 
  BY <1>2, MaskedPayload, SoundNumbers
<1>4. b.cap + Offset(b) \in Sizes /\ b.cap + Offset(b) = b.cap + b.start
  BY SoundNumbers DEF Sizes
<1> HIDE DEF d
<1>5. m \in BufType /\ m.len = b.len /\ m.cap = b.cap + b.start /\ m.start = 0
      /\ m.promoted = b.promoted /\ m.alloc = b.alloc /\ m.data = d
  BY <1>2, <1>3, <1>4 DEF Sound, BufType
<1> HIDE DEF m
<1>6. Sound(m)
  BY <1>3, <1>5, SoundNumbers DEF Sound
<1> QED BY <1>1, <1>5, <1>6

(* A debug build does not get past the assertion with a sum that wraps.    *)
Honest(r, n) == build = "debug" \/ n <= MaxAlloc => r.len + n <= r.cap

(* reserve_inner: the handle stays sound, and has the room.                *)
LEMMA ReserveInnerSound ==
    ASSUME build \in {"debug", "release"},
           NEW b, Sound(b), NEW n \in Usz, NEW r \in ReserveInner(b, n)
    PROVE  Sound(r) /\ Honest(r, n)
<1>1. n \in Nat /\ MaxAlloc \in Nat
  BY MaxAllocAssumption DEF Usz
<1>2. CASE n = 0
  <2>1. r = b
    BY <1>2 DEF ReserveInner
  <2> QED BY <1>2, <2>1, SoundNumbers DEF Honest
<1>3. CASE n # 0
  <2>0. AssertionHolds(b, n)
    BY <1>3 DEF ReserveInner
  <2> DEFINE t == TakesTail(b)
  <2>1. Sound(t) /\ t.len = b.len /\ t.start = b.start
    BY TakesTailSound
  <2>2. CASE TailFits(b, n)
    <3>1. r = t
      BY <1>3, <2>0, <2>2 DEF ReserveInner
    <3>2. t.cap = b.cap + TailOf(b) /\ TailOf(b) >= n
      <4>1. TailOf(b) >= TailOf(b)
        BY TakesTailSound, SoundNumbers
      <4> QED BY <2>2, <4>1, TakesTailSound DEF TailFits
    <3>3. TailOf(b) \in Int
      BY TakesTailSound, SoundNumbers
    <3> HIDE DEF t
    <3>4. r.len + n <= r.cap
      BY <1>1, <2>1, <3>1, <3>2, <3>3, SoundNumbers
    <3> QED BY <2>1, <3>1, <3>4 DEF Honest
  <2>3. CASE ~ TailFits(b, n) /\ HeadFits(t, n)
    <3>1. r = MovedToFront(t)
      BY <1>3, <2>0, <2>3 DEF ReserveInner
    <3> HIDE DEF t
    <3>2. t.start + (t.cap - t.len) >= n
      BY <2>1, <2>3, SoundNumbers DEF HeadFits
    <3>3. Sound(r) /\ r.len + n <= r.cap
      BY <1>1, <2>1, <3>1, <3>2, MovedToFrontSound, SoundNumbers
    <3> QED BY <3>3 DEF Honest
  <2>4. CASE ~ TailFits(b, n) /\ ~ HeadFits(t, n)
    <3>1. r \in Reallocated(t, n)
      BY <1>3, <2>0, <2>4 DEF ReserveInner
    <3> HIDE DEF t
    <3>2. PICK c \in Sizes : c >= Wanted(t, n) /\ r = NewBuf(t.len, c)
      BY <3>1 DEF Reallocated
    <3>3. c \in Nat /\ t.cap * 2 \in Nat /\ t.len \in Nat /\ t.len <= t.cap * 2
      BY <1>1, <2>1, SoundNumbers DEF Sizes
    <3>4. UszWrap(t.len + n) \in Nat
      BY <1>1, <3>3 DEF UszWrap
    <3>5. Wanted(t, n) >= t.cap * 2 /\ Wanted(t, n) >= UszWrap(t.len + n) /\ Wanted(t, n) \in Nat
      BY <3>3, <3>4 DEF Wanted
    <3>6. t.len \in 0..c
      BY <3>2, <3>3, <3>5
    <3>7. Sound(r) /\ r.cap = c /\ r.len = t.len
      BY <3>2, <3>6, NewBufSound
    <3>8. build = "debug" \/ n <= MaxAlloc => n <= MaxAlloc
      <4>1. b.cap \in Nat
        BY SoundNumbers
      <4> QED BY <1>1, <2>0, <4>1 DEF AssertionHolds
    <3>9. n <= MaxAlloc => UszWrap(t.len + n) = t.len + n
      <4>1. t.len <= MaxAlloc - 1
        BY <2>1, SoundNumbers
      <4>2. n <= MaxAlloc => t.len + n \in Nat /\ t.len + n <= 2 * MaxAlloc + 1
        BY <1>1, <3>3, <4>1
      <4> QED BY <4>2, UszWrapSmall
    <3>10. n <= MaxAlloc => r.len + n <= r.cap
      BY <1>1, <3>2, <3>3, <3>4, <3>5, <3>7, <3>9
    <3> QED BY <3>7, <3>8, <3>10 DEF Honest
  <2> QED BY <2>2, <2>3, <2>4
<1> QED BY <1>2, <1>3

(* reserve, which looks at the spare capacity first                        *)
LEMMA ReservedSound ==
    ASSUME build \in {"debug", "release"},
           NEW b, Sound(b), NEW n \in Usz, NEW r \in Reserved(b, n)
    PROVE  Sound(r) /\ Honest(r, n)
<1>1. n \in Nat
  BY MaxAllocAssumption DEF Usz
<1>2. CASE HasSpare(b, n)
  <2>1. r = b /\ b.cap - b.len >= n
    BY <1>2 DEF Reserved, HasSpare
  <2>2. b.len + n <= b.cap
    BY <1>1, <2>1, SoundNumbers
  <2> QED BY <2>1, <2>2 DEF Honest
<1>3. CASE ~ HasSpare(b, n)
  BY <1>3, ReserveInnerSound DEF Reserved
<1> QED BY <1>2, <1>3

(* All that is not bytes is a number of bytes.                             *)
LEMMA FullRoomType == ASSUME NEW b, Sound(b) PROVE FullRoom(b) \in Usz
<1>1. FullRoom(b) \in Nat /\ FullRoom(b) <= MaxAlloc
  BY SoundNumbers DEF FullRoom
<1> QED BY <1>1, MaxAllocAssumption DEF Usz

LEMMA AdvancedSound ==
    ASSUME NEW b, Sound(b), NEW n \in Nat, n <= b.cap
    PROVE  Sound(Advanced(b, n))
<1> DEFINE d == IF b.promoted THEN b.data ELSE MaskPayload(Offset(b) + n)
           l == IF n > b.len THEN 0 ELSE b.len - n
           a == [b EXCEPT !.data = d, !.start = @ + n, !.cap = @ - n, !.len = l]
<1>1. Advanced(b, n) = a
  BY DEF Advanced
<1>2. b.start + n \in Sizes /\ b.cap - n \in Sizes /\ l \in Sizes /\ l <= b.cap - n
  BY SoundNumbers DEF Sizes
<1>3. d \in Usz /\ (~ b.promoted => d = (b.start + n) * 2 + 1)
  BY <1>2, MaskedPayload, SoundNumbers
<1> HIDE DEF d, l
<1>4. a \in BufType /\ a.start = b.start + n /\ a.cap = b.cap - n /\ a.len = l
      /\ a.promoted = b.promoted /\ a.data = d /\ a.alloc = b.alloc
  BY <1>2, <1>3 DEF Sound, BufType
<1> HIDE DEF a
<1>5. Sound(a)
  BY <1>2, <1>3, <1>4, SoundNumbers DEF Sound
<1> QED BY <1>1, <1>5

LEMMA PromotedSound ==
    ASSUME NEW b, Sound(b)
    PROVE  /\ Sound(Promoted(b)) /\ Promoted(b).promoted
           /\ Promoted(b).cap = b.cap /\ Promoted(b).len = b.len
<1> DEFINE s == IF b.promoted THEN b.start ELSE Offset(b)
           z == IF b.promoted THEN b.alloc ELSE b.cap + Offset(b)
           p == [b EXCEPT !.promoted = TRUE, !.unique = FALSE, !.data = 0,
                          !.start = s, !.alloc = z]
<1>1. Promoted(b) = p
  BY DEF Promoted
<1>2. s = b.start /\ z = b.alloc /\ 0 \in Usz
  BY SoundNumbers DEF Sound, Usz
<1> HIDE DEF s, z
<1>3. p \in BufType /\ p.promoted = TRUE /\ p.start = b.start /\ p.alloc = b.alloc
      /\ p.cap = b.cap /\ p.len = b.len
  BY <1>2 DEF Sound, BufType
<1> HIDE DEF p
<1>4. Sound(p)
  BY <1>3, SoundNumbers DEF Sound
<1> QED BY <1>1, <1>3, <1>4

(* GrowInv says that the handle is sound and that reserve was honest.      *)
LEMMA GrowInvIsSound ==
    GrowInv <=> /\ build \in {"debug", "release"} /\ asked \in Usz
                /\ phase \in {"idle", "reserved", "extending"}
                /\ Sound(buf) /\ ReserveIsHonest
                /\ phase = "extending" => asked <= MaxAlloc
<1>1. ASSUME GrowInv PROVE Sound(buf)
  BY <1>1 DEF GrowInv, GrowTypeOK, AllocationIsExact, Sound
<1>2. ASSUME Sound(buf) PROVE AllocationIsExact
  BY <1>2, SoundNumbers DEF AllocationIsExact, Sound
<1> QED BY <1>1, <1>2 DEF GrowInv, GrowTypeOK, Sound

LEMMA GrowNextKeepsInv ==
    ASSUME GrowInv, [GrowNext]_growVars
    PROVE  GrowInv'
<1>0. /\ build \in {"debug", "release"} /\ asked \in Usz
      /\ phase \in {"idle", "reserved", "extending"}
      /\ Sound(buf) /\ ReserveIsHonest
      /\ phase = "extending" => asked <= MaxAlloc
  BY GrowInvIsSound
<1>01. /\ MaxAlloc \in Nat /\ MaxAlloc > 0
       /\ buf.len \in Nat /\ buf.cap \in Nat /\ buf.len <= buf.cap
       /\ buf.cap <= MaxAlloc - 1 /\ buf \in BufType
  BY <1>0, SoundNumbers DEF Sound
<1> SUFFICES /\ build' \in {"debug", "release"} /\ asked' \in Usz
             /\ phase' \in {"idle", "reserved", "extending"}
             /\ Sound(buf') /\ ReserveIsHonest'
             /\ phase' = "extending" => asked' <= MaxAlloc
  BY SoundNumbers DEF GrowInv, GrowTypeOK, AllocationIsExact, Sound
<1>02. ASSUME NEW n \in Usz, Honest(buf', n), asked' = n, build' = build PROVE ReserveIsHonest'
  BY <1>02 DEF Honest, ReserveIsHonest
<1>1. ASSUME NEW n \in Usz, Reserve(n) \/ ExtendReserves(n) PROVE Sound(buf') /\ ReserveIsHonest'
  <2>1. buf' \in Reserved(buf, n) /\ asked' = n /\ build' = build
    BY <1>1 DEF Reserve, ExtendReserves
  <2>2. Sound(buf') /\ Honest(buf', n)
    BY <1>0, <2>1, ReservedSound
  <2> QED BY <1>02, <2>1, <2>2
<1>2. ASSUME NEW n \in Usz, InnerFails(n) PROVE Sound(buf')
  BY <1>0, <1>2, TakesTailSound DEF InnerFails
<1>2a. ASSUME NEW n \in Usz, ReserveFails(n) PROVE InnerFails(n)
  BY <1>2a DEF ReserveFails
<1>2b. ASSUME NEW n \in Usz, InnerFails(n)
       PROVE  build' = build /\ asked' = asked /\ phase' = "idle"
  BY <1>2b DEF InnerFails
<1>3. ASSUME ExtendCopies PROVE Sound(buf')
  <2>1. asked \in Nat /\ buf.len + asked <= buf.cap
    BY <1>0, <1>3 DEF ExtendCopies, ReserveIsHonest, Usz
  <2>2. UszWrap(buf.len + asked) = buf.len + asked
    BY <1>01, <2>1, UszWrapSmall
  <2>3. buf' = [buf EXCEPT !.len = buf.len + asked]
    BY <1>3, <2>2 DEF ExtendCopies
  <2>4. buf.len + asked \in Sizes
    BY <1>01, <2>1 DEF Sizes
  <2> QED BY <1>0, <1>01, <2>1, <2>3, <2>4 DEF Sound, BufType
<1>4. ASSUME OthersGo PROVE Sound(buf')
  BY <1>0, <1>4 DEF OthersGo, Sound, BufType
<1>5. ASSUME NEW n \in Sizes, Truncate(n) PROVE Sound(buf')
  <2>1. n \in Nat /\ n <= buf.cap
    BY <1>01, <1>5 DEF Truncate, Sizes
  <2>2. buf' = [buf EXCEPT !.len = n]
    BY <1>5 DEF Truncate
  <2> QED BY <1>0, <2>1, <2>2 DEF Sound, BufType
<1>6. ASSUME NEW n \in Sizes, AdvanceOwn(n) PROVE Sound(buf')
  <2>1. n \in Nat /\ n <= buf.cap
    BY <1>01, <1>6 DEF AdvanceOwn, Sizes
  <2> QED BY <1>0, <1>6, <2>1, AdvancedSound DEF AdvanceOwn
<1>7. ASSUME NEW n \in Sizes, SplitTo(n) PROVE Sound(buf')
  <2>1. n \in Nat /\ n <= Promoted(buf).cap
    BY <1>0, <1>01, <1>7, PromotedSound DEF SplitTo, Sizes
  <2> QED BY <1>0, <1>7, <2>1, AdvancedSound, PromotedSound DEF SplitTo
<1>8. ASSUME NEW n \in Sizes, SplitOff(n) PROVE Sound(buf')
  <2> DEFINE p == Promoted(buf)
             l == IF p.len < n THEN p.len ELSE n
  <2>1. Sound(p) /\ p.promoted /\ p.cap = buf.cap /\ p.len = buf.len
    BY <1>0, PromotedSound
  <2>2. n \in Nat /\ n <= p.cap /\ buf' = [p EXCEPT !.cap = n, !.len = l]
    BY <1>01, <1>8, <2>1 DEF SplitOff, Sizes
  <2>3. l \in Sizes /\ l <= n
    BY <1>01, <2>1, <2>2 DEF Sizes
  <2> HIDE DEF p, l
  <2>4. p.start \in Nat /\ p.alloc \in Nat /\ p.start + p.cap <= p.alloc /\ p.cap \in Nat
    BY <2>1, SoundNumbers
  <2>5. /\ buf' \in BufType /\ buf'.promoted = p.promoted /\ buf'.start = p.start
        /\ buf'.alloc = p.alloc /\ buf'.cap = n /\ buf'.len = l
    BY <2>1, <2>2, <2>3 DEF Sound, BufType
  <2>6. buf'.start + buf'.cap <= buf'.alloc
    BY <2>2, <2>4, <2>5
  <2> QED BY <2>1, <2>3, <2>5, <2>6 DEF Sound
<1>9. CASE UNCHANGED growVars
  BY <1>0, <1>9 DEF growVars, ReserveIsHonest
<1>10. ASSUME NEW n \in Usz, Reserve(n) \/ ExtendReserves(n)
       PROVE  /\ build' \in {"debug", "release"} /\ asked' \in Usz
              /\ phase' \in {"idle", "reserved", "extending"}
              /\ phase' = "extending" => asked' <= MaxAlloc
  BY <1>0, <1>10 DEF Reserve, ExtendReserves
<1>11. ASSUME NEW n \in Sizes,
              ExtendCopies \/ OthersGo \/ Truncate(n) \/ AdvanceOwn(n) \/ SplitOff(n) \/ SplitTo(n)
       PROVE  build' = build /\ asked' = asked /\ phase' = "idle"
  BY <1>11 DEF ExtendCopies, OthersGo, Truncate, AdvanceOwn, SplitOff, SplitTo
<1>12. ASSUME phase' = "idle" PROVE ReserveIsHonest'
  BY <1>12 DEF ReserveIsHonest
<1>13. 0 \in Sizes
  BY <1>01 DEF Sizes
<1>14. CASE \E n \in Usz : InnerFails(n)
  BY <1>0, <1>14, <1>2, <1>2b, <1>12
<1>15. CASE \E n \in Usz : Reserve(n) \/ ReserveFails(n) \/ ExtendReserves(n)
  BY <1>15, <1>1, <1>2a, <1>10, <1>14
<1>18. CASE ReclaimFull
  <2> DEFINE n == FullRoom(buf)
  <2>1. n \in Usz
    BY <1>0, FullRoomType
  <2>2. \/ buf' \in ReserveInner(buf, n) /\ asked' = n /\ phase' = "reserved" /\ build' = build
        \/ InnerFails(n)
    BY <1>18 DEF ReclaimFull
  <2> HIDE DEF n
  <2>3. CASE buf' \in ReserveInner(buf, n) /\ asked' = n /\ phase' = "reserved" /\ build' = build
    <3>1. Sound(buf') /\ Honest(buf', n)
      BY <1>0, <2>1, <2>3, ReserveInnerSound
    <3> QED BY <1>0, <1>02, <2>1, <2>3, <3>1
  <2> QED BY <1>14, <2>1, <2>2, <2>3
<1>16. CASE ExtendCopies \/ OthersGo
  BY <1>0, <1>16, <1>3, <1>4, <1>11, <1>12, <1>13
<1>17. CASE \E n \in Sizes : Truncate(n) \/ AdvanceOwn(n) \/ SplitOff(n) \/ SplitTo(n)
  BY <1>0, <1>17, <1>5, <1>6, <1>7, <1>8, <1>11, <1>12
<1> QED BY <1>9, <1>15, <1>16, <1>17, <1>18 DEF GrowNext

(* The inductive invariant holds in every reachable state, for every width *)
(* of usize.                                                               *)
THEOREM GrowInvariance == GrowSpec => []GrowInv
<1>1. GrowInit => GrowInv
  <2> SUFFICES ASSUME GrowInit PROVE GrowInv
    OBVIOUS
  <2>1. PICK cap \in Sizes : \E size \in 0..cap : buf = NewBuf(size, cap)
    BY DEF GrowInit
  <2>2. Sound(buf)
    BY <2>1, NewBufSound
  <2>3. 0 \in Usz
    BY MaxAllocAssumption DEF Usz
  <2> QED BY <2>2, <2>3, GrowInvIsSound DEF GrowInit, ReserveIsHonest
<1>2. GrowInv /\ [GrowNext]_growVars => GrowInv'
  BY GrowNextKeepsInv
<1> QED BY <1>1, <1>2, PTL DEF GrowSpec

(* bytes_mut.rs:215: a reserve that returns has reserved, so that the copy *)
(* of extend_from_slice, which nothing checks, stays within the capacity.  *)
THEOREM ReservesHonestly == GrowSpec => []ReserveIsHonest
<1>1. GrowInv => ReserveIsHonest
  BY DEF GrowInv
<1> QED BY <1>1, GrowInvariance, PTL

(* bytes_mut.rs:204: the Vec that is given back is the one that was taken. *)
THEOREM GivenBackAsTaken == GrowSpec => []AllocationIsExact
<1>1. GrowInv => AllocationIsExact
  BY DEF GrowInv
<1> QED BY <1>1, GrowInvariance, PTL

-----------------------------------------------------------------------------
(* ByteStrs: a ByteStr is UTF-8 whatever is done to it, for any number of
   handles and any length. *)

(* What the vectors of ByteVectors are.                                    *)
LEMMA VectorIsSeq ==
    ASSUME NEW v \in Vector
    PROVE  v \in Seq(Byte) /\ Len(v) \in 0..MaxLen /\ DOMAIN v = 1..Len(v)
BY Utf8Assumption DEF Vector

LEMMA SeqIsVector ==
    ASSUME NEW v \in Seq(Byte), Len(v) <= MaxLen
    PROVE  v \in Vector
BY Utf8Assumption DEF Vector

LEMMA LessIsOther ==
    ASSUME NEW a \in Int, NEW b \in Int, a < b
    PROVE  a # b
OBVIOUS

(* The bytes i + 1 .. j of a vector.                                       *)
LEMMA CutElements ==
    ASSUME NEW v \in Vector, NEW j \in 0..Len(v), NEW i \in 0..j
    PROVE  /\ Cut(v, i, j) \in Vector
           /\ Len(Cut(v, i, j)) = j - i
           /\ \A k \in 1..(j - i) : Cut(v, i, j)[k] = v[k + i]
<1>1. v \in Seq(Byte) /\ Len(v) \in Nat /\ Len(v) <= MaxLen
  BY VectorIsSeq, Utf8Assumption
<1> DEFINE p == SubSeq(v, 1, j)
<1>2. /\ p \in Seq(Byte) /\ Len(p) = j
      /\ \A k \in 1..j : p[k] = v[k]
  BY <1>1
<1> HIDE DEF p
<1> DEFINE c == SubSeq(p, i + 1, Len(p))
<1>3. /\ c \in Seq(Byte) /\ Len(c) = j - i
      /\ \A k \in 1..(j - i) : c[k] = p[k + i]
  BY <1>2
<1> HIDE DEF c
<1>4. c = Cut(v, i, j)
  BY DEF c, p, Cut, Prefix, Suffix
<1>5. c \in Vector
  BY <1>1, <1>3, SeqIsVector, Utf8Assumption
<1> QED BY <1>1, <1>2, <1>3, <1>4, <1>5

LEMMA PrefixIsCut ==
    ASSUME NEW v \in Vector, NEW n \in 0..Len(v)
    PROVE  Prefix(v, n) = Cut(v, 0, n)
<1>1. v \in Seq(Byte) /\ Len(v) \in Nat
  BY VectorIsSeq, Utf8Assumption
<1> DEFINE p == SubSeq(v, 1, n)
<1>2. p \in Seq(Byte) /\ Len(p) = n
  BY <1>1
<1>3. SubSeq(p, 1, n) = p
  BY <1>2
<1> QED BY <1>2, <1>3 DEF Prefix, Suffix, Cut

(* A cut between character boundaries is UTF-8.                            *)
LEMMA CutIsUtf8 ==
    ASSUME NEW v \in Vector, IsUtf8(v),
           NEW j \in 0..Len(v), NEW i \in 0..j, IsRange(v, i, j)
    PROVE  IsUtf8(Cut(v, i, j))
<1> DEFINE c == Cut(v, i, j)
<1>1. /\ c \in Vector /\ Len(c) = j - i
      /\ \A k \in 1..(j - i) : c[k] = v[k + i]
  BY CutElements
<1>2. /\ c \in Seq(Byte) /\ DOMAIN c = 1..(j - i)
      /\ Len(v) \in Nat /\ DOMAIN v = 1..Len(v)
      /\ i \in Nat /\ j \in Nat /\ i <= j /\ j <= Len(v)
  BY <1>1, VectorIsSeq, Utf8Assumption
<1>3. i = 0 \/ i = Len(v) \/ v[i + 1] # Cont
  BY DEF IsRange, IsCharBoundary
<1>4. j = 0 \/ j = Len(v) \/ v[j + 1] # Cont
  BY DEF IsRange, IsCharBoundary
<1> HIDE DEF c
<1>5. c # <<>> => c[1] # Cont
  <2> SUFFICES ASSUME c # <<>> PROVE c[1] # Cont
    OBVIOUS
  <2>1. j - i >= 1
    BY <1>1, <1>2
  <2>2. c[1] = v[i + 1] /\ i + 1 \in 1..Len(v)
    BY <1>1, <1>2, <2>1
  <2>3. i = 0 => v[1] # Cont
    <3>1. v # <<>>
      BY <2>2, <1>2
    <3> QED BY <3>1 DEF IsUtf8
  <2>4. i # Len(v)
    <3>1. i < Len(v)
      BY <1>2, <2>1
    <3>2. i \in Int /\ Len(v) \in Int
      BY <1>2
    <3> QED BY <3>1, <3>2, LessIsOther
  <2> QED BY <1>3, <2>2, <2>3, <2>4
<1>6. ASSUME NEW k \in DOMAIN c, c[k] # Cont
      PROVE  /\ k + Width(c[k]) <= Len(c) + 1
             /\ \A l \in (k + 1)..(k + Width(c[k]) - 1) : c[l] = Cont
             /\ k + Width(c[k]) <= Len(c) => c[k + Width(c[k])] # Cont
  <2> DEFINE w == Width(v[k + i])
             n == k + i + w
  <2>1. k + i \in DOMAIN v /\ v[k + i] # Cont /\ c[k] = v[k + i]
    BY <1>1, <1>2, <1>6
  <2>2. w \in 1..3
    BY DEF Width
  <2> HIDE DEF w
  <2>3. /\ n <= Len(v) + 1
        /\ \A l \in (k + i + 1)..(n - 1) : v[l] = Cont
        /\ n <= Len(v) => v[n] # Cont
    <3>1. /\ k + i + Width(v[k + i]) <= Len(v) + 1
          /\ \A l \in (k + i + 1)..(k + i + Width(v[k + i]) - 1) : v[l] = Cont
          /\ k + i + Width(v[k + i]) <= Len(v) => v[k + i + Width(v[k + i])] # Cont
      BY <2>1, Zenon DEF IsUtf8
    <3>2. w = Width(v[k + i])
      BY DEF w
    <3>3. k \in Int /\ i \in Int /\ w \in Int
      BY <1>2, <2>2
    <3>4. \A l \in (k + i + 1)..(n - 1) : v[l] = Cont
      BY <3>1, <3>2, <3>3
    <3>5. n <= Len(v) => v[n] # Cont
      BY <3>1, <3>2, <3>3
    <3>6. n <= Len(v) + 1
      BY <3>1, <3>2, <3>3
    <3> QED BY <3>4, <3>5, <3>6
  <2>4. n <= j + 1
    <3> SUFFICES ASSUME n > j + 1 PROVE FALSE
      BY <1>2, <2>2
    <3>1. j + 1 \in (k + i + 1)..(n - 1)
      BY <1>2, <2>2
    <3>2. v[j + 1] = Cont
      BY <2>3, <3>1
    <3>3. j # Len(v)
      <4>1. j < Len(v) /\ j \in Int /\ Len(v) \in Int
        BY <1>2, <2>3, <2>2
      <4> QED BY <4>1, LessIsOther
    <3>4. k >= 1 /\ k <= j - i
      BY <1>2
    <3>5. j # 0
      BY <1>2, <3>4
    <3> QED BY <1>4, <3>2, <3>3, <3>5
  <2>5. k + w <= Len(c) + 1
    BY <1>1, <1>2, <2>2, <2>4
  <2>6. \A l \in (k + 1)..(k + w - 1) : c[l] = Cont
    <3> TAKE l \in (k + 1)..(k + w - 1)
    <3>1. l \in 1..(j - i) /\ l + i \in (k + i + 1)..(n - 1)
      BY <1>1, <1>2, <2>2, <2>5
    <3> QED BY <1>1, <2>3, <3>1
  <2>7. k + w <= Len(c) => c[k + w] # Cont
    <3> SUFFICES ASSUME k + w <= Len(c) PROVE c[k + w] # Cont
      OBVIOUS
    <3>1. k + w \in 1..(j - i) /\ n <= Len(v) /\ k + w + i = n
      BY <1>1, <1>2, <2>2
    <3> QED BY <1>1, <2>3, <3>1
  <2>8. Width(c[k]) = w
    BY <2>1 DEF w
  <2> QED BY <2>5, <2>6, <2>7, <2>8
<1>7. IsUtf8(c)
  BY <1>5, <1>6 DEF IsUtf8
<1> QED BY <1>7 DEF c

(* StrInv is inductive.                                                    *)
LEMMA StrNextKeepsInv ==
    ASSUME StrInv, [StrNext]_strVars
    PROVE  StrInv'
<1> USE DEF StrInv, StrTypeOK, TypeOK, StrsAreUtf8, Alive
<1>0. None \notin Vector
  BY Utf8Assumption
<1>1. ASSUME NEW h \in strs PROVE h \in Handle /\ val[h] \in Vector /\ IsUtf8(val[h])
  BY <1>1
<1>2. ASSUME NEW h \in Handle, FromUtf8(h) PROVE StrInv'
  BY <1>2 DEF FromUtf8, Accepts, IsBytes
<1>3. ASSUME NEW h \in Handle, FromStr(h) PROVE StrInv'
  BY <1>0, <1>3 DEF FromStr, Set
<1>4. ASSUME NEW h \in Handle, StrClear(h) PROVE StrInv'
  <2>1. val[h] \in Vector /\ IsUtf8(val[h])
    BY <1>1, <1>4 DEF StrClear
  <2>2. Len(val[h]) \in Nat
    BY <2>1, VectorIsSeq
  <2>3. 0 \in 0..Len(val[h]) /\ 0 \in 0..0
    BY <2>2
  <2>4. IsRange(val[h], 0, 0)
    BY <2>3 DEF IsRange, IsCharBoundary
  <2>5. Prefix(val[h], 0) \in Vector /\ IsUtf8(Prefix(val[h], 0))
    BY <2>1, <2>3, <2>4, CutElements, CutIsUtf8, PrefixIsCut
  <2> QED BY <1>0, <1>4, <2>5 DEF StrClear, Set
<1>5. ASSUME NEW h \in Handle, IntoBytes(h) PROVE StrInv'
  BY <1>5 DEF IntoBytes
<1>6. ASSUME NEW h \in Handle, StrDrop(h) PROVE StrInv'
  BY <1>6 DEF StrDrop, Set
<1>7. ASSUME NEW h \in Handle, OtherBytes(h) PROVE StrInv'
  BY <1>7 DEF OtherBytes, Set
<1>8. ASSUME NEW h \in Handle, NEW n \in 0..MaxLen, StrTruncate(h, n) PROVE StrInv'
  <2>1. /\ val[h] \in Vector /\ IsUtf8(val[h])
        /\ n \in 0..Len(val[h]) /\ IsCharBoundary(val[h], n)
    BY <1>1, <1>8 DEF StrTruncate, IsCharBoundary
  <2>2. IsRange(val[h], 0, n)
    BY <2>1 DEF IsRange, IsCharBoundary
  <2>3. Prefix(val[h], n) \in Vector /\ IsUtf8(Prefix(val[h], n))
    <3>1. 0 \in 0..n
      BY <2>1
    <3> QED BY <2>1, <2>2, <3>1, CutElements, CutIsUtf8, PrefixIsCut
  <2> QED BY <1>0, <1>8, <2>3 DEF StrTruncate, Set
<1>9. ASSUME NEW h \in Handle, NEW g \in Handle, FromSliceOf(h, g) PROVE StrInv'
  <2>1. PICK j \in 0..Len(val[h]) : \E i \in 0..j :
            IsUtf8(Cut(val[h], i, j)) /\ val' = [val EXCEPT ![g] = Cut(val[h], i, j)]
    BY <1>9 DEF FromSliceOf, Set
  <2> PICK i \in 0..j :
            IsUtf8(Cut(val[h], i, j)) /\ val' = [val EXCEPT ![g] = Cut(val[h], i, j)]
    BY <2>1
  <2>2. val[h] \in Vector
    BY <1>9 DEF FromSliceOf, IsBytes
  <2>3. Cut(val[h], i, j) \in Vector
    BY <2>2, CutElements
  <2> QED BY <1>0, <1>9, <2>1, <2>3 DEF FromSliceOf
<1>10. ASSUME NEW h \in Handle, NEW g \in Handle, StrSliceRef(h, g) PROVE StrInv'
  <2>1. PICK j \in 0..Len(val[h]) : \E i \in 0..j :
            IsRange(val[h], i, j) /\ val' = [val EXCEPT ![g] = Cut(val[h], i, j)]
    BY <1>10 DEF StrSliceRef, Set
  <2> PICK i \in 0..j :
            IsRange(val[h], i, j) /\ val' = [val EXCEPT ![g] = Cut(val[h], i, j)]
    BY <2>1
  <2>2. val[h] \in Vector /\ IsUtf8(val[h])
    BY <1>1, <1>10 DEF StrSliceRef
  <2>3. Cut(val[h], i, j) \in Vector /\ IsUtf8(Cut(val[h], i, j))
    BY <2>1, <2>2, CutElements, CutIsUtf8
  <2> QED BY <1>0, <1>10, <2>1, <2>3 DEF StrSliceRef
<1>11. CASE UNCHANGED strVars
  BY <1>11 DEF strVars
<1> QED
  BY <1>2, <1>3, <1>4, <1>5, <1>6, <1>7, <1>8, <1>9, <1>10, <1>11 DEF StrNext

(* bytestr.rs:8: every ByteStr is UTF-8, in every reachable state.         *)
THEOREM AlwaysUtf8 == StrSpec => []StrsAreUtf8
<1>1. StrInit => StrInv
  BY DEF StrInit, Init, StrInv, StrTypeOK, TypeOK, StrsAreUtf8
<1>2. StrInv /\ [StrNext]_strVars => StrInv'
  BY StrNextKeepsInv
<1>3. StrInv => StrsAreUtf8
  BY DEF StrInv
<1> QED BY <1>1, <1>2, <1>3, PTL DEF StrSpec

-----------------------------------------------------------------------------
(* Combinators: what is left of a future after a poll stands for the rest of
   what it stood for, however it is nested, so that the closures are called
   once, in turn, and nothing is polled after it has answered. *)

Below == {ss \in Nat \X Nat : ss[1] < ss[2]}

\* A set of numbers that is not empty has a least element.
LEMMA LeastIn ==
    ASSUME NEW N \in SUBSET Nat, N # {}
    PROVE  \E n \in N : \A m \in N : n <= m
<1>1. IsWellFoundedOn(Below, Nat)
  BY NatLessThanWellFounded, Zenon DEF Below, OpToRel
<1>2. PICK n \in N : \A m \in N : <<m, n>> \notin Below
  BY <1>1, WFMin
<1>3. ASSUME NEW m \in N PROVE n <= m
  <2>1. n \in Nat /\ m \in Nat /\ <<m, n>> \notin Below
    BY <1>2
  <2> QED BY <2>1 DEF Below
<1> QED BY <1>3

\* Induction over the numbers up to a bound.
LEMMA UpToInduction ==
    ASSUME NEW bound \in Nat, NEW N, 0 \in N, \A d \in 1..bound : d - 1 \in N => d \in N
    PROVE  \A d \in 0..bound : d \in N
<1> SUFFICES ASSUME NEW bad \in 0..bound, bad \notin N PROVE FALSE
  OBVIOUS
<1> DEFINE Out == {d \in 0..bound : d \notin N}
<1>1. Out \in SUBSET Nat /\ Out # {}
  OBVIOUS
<1>2. PICK n \in Out : \A m \in Out : n <= m
  BY <1>1, LeastIn
<1>3. n # 0 /\ n - 1 \in 0..bound /\ n \in 1..bound
  BY <1>2
<1>4. n - 1 \in N
  BY <1>2, <1>3
<1> QED BY <1>2, <1>3, <1>4

\* the futures one combinator deeper
Grown(L) == MapFutures(L) \cup EitherFutures(L) \cup ThenFutures(L)
\* f is a function with domain S
Fcn(f, S) == f = [x \in S |-> f[x]]

LEMMA FutureUpToDef ==
    \A d \in 0..FutureDepth :
        FutureUpTo[d] = LeafFutures \cup IF d = 0 THEN {} ELSE Grown(FutureUpTo[d - 1])
<1> DEFINE body(f, d) == LeafFutures \cup IF d = 0 THEN {} ELSE Grown(f[d - 1])
           Good(f, d) == Fcn(f, 0..d) /\ \A e \in 0..d : f[e] = body(f, e)
           N == {d \in 0..FutureDepth : \E f : Good(f, d)}
<1>0. FutureDepth \in Nat BY ProgramsAssumption
<1>1. 0 \in N
  <2> DEFINE g == [x \in 0..0 |-> LeafFutures]
  <2>1. Good(g, 0)
    BY DEF Fcn
  <2> HIDE DEF g
  <2> QED BY <2>1, <1>0
<1>2. ASSUME NEW d \in 1..FutureDepth, d - 1 \in N PROVE d \in N
  <2>1. PICK f : Good(f, d - 1) BY <1>2
  <2> DEFINE g == [e \in 0..d |-> body(f, e)]
  <2>2. \A e \in 0..d : g[e] = body(f, e) BY Zenon
  <2>3. Fcn(g, 0..d) BY DEF Fcn
  <2> HIDE DEF g
  <2>4. \A e \in 0..(d-1) : e \in 0..d /\ f[e] = g[e]
    <3> TAKE e \in 0..(d-1)
    <3>1. e \in 0..d OBVIOUS
    <3>2. f[e] = body(f, e) BY <2>1
    <3>3. g[e] = body(f, e) BY <3>1, <2>2
    <3> QED BY <3>1, <3>2, <3>3
  <2>5. ASSUME NEW e \in 0..d PROVE g[e] = body(g, e)
     <3>1. e = 0 \/ e - 1 \in 0..(d-1) OBVIOUS
     <3>2. e = 0 \/ f[e - 1] = g[e - 1] BY <2>4, <3>1
     <3> QED BY <3>2, <2>2
  <2>6. Good(g, d) BY <2>5, <2>3
  <2> QED BY <2>6, <1>0
<1>3. FutureDepth \in N
  <2> HIDE DEF N
  <2> QED BY <1>0, <1>1, <1>2, UpToInduction
<1>4. \E f : f = [d \in 0..FutureDepth |-> body(f, d)]
  <2>1. PICK f : Good(f, FutureDepth) BY <1>3
  <2>2. [d \in 0..FutureDepth |-> f[d]] = [d \in 0..FutureDepth |-> body(f, d)] BY <2>1
  <2>3. f = [d \in 0..FutureDepth |-> f[d]] BY <2>1 DEF Fcn
  <2> HIDE DEF Good, body
  <2> QED BY <2>2, <2>3
<1>5. FutureUpTo = CHOOSE f : f = [d \in 0..FutureDepth |-> body(f, d)]
  BY Zenon DEF FutureUpTo, Grown
<1>6. FutureUpTo = [d \in 0..FutureDepth |-> body(FutureUpTo, d)]
  <2> HIDE DEF body
  <2> QED BY <1>4, <1>5, Zenon
<1> QED BY <1>6, Zenon

LEMMA FutureCases ==
    ASSUME NEW d \in 0..FutureDepth, NEW c \in FutureUpTo[d]
    PROVE  \/ c.tag = "leaf" /\ c.id \in Leaf /\ c = LeafOf(c.id)
           \/ /\ d # 0 /\ c.tag = "map" /\ c.f \in FutureUpTo[d - 1] /\ c.map \in Option
              /\ c = [tag |-> "map", f |-> c.f, map |-> c.map]
           \/ /\ d # 0 /\ c.tag \in {"either", "eitherMap"} /\ c.f \in FutureUpTo[d - 1]
              /\ c.side \in {"Left", "Right"}
              /\ c = [tag |-> c.tag, side |-> c.side, f |-> c.f]
           \/ /\ d # 0 /\ c.tag = "then" /\ c.f \in FutureUpTo[d - 1] /\ c.made \in FutureUpTo[d - 1]
              /\ c.phase \in {"F1", "F2"} /\ c.map \in Option
              /\ c.phase = "F1" => SecondPhase(c) \in FutureUpTo[d - 1]
              /\ c = [tag |-> "then", phase |-> c.phase, f |-> c.f, map |-> c.map, made |-> c.made]
<1>1. c \in LeafFutures \/ (d # 0 /\ c \in Grown(FutureUpTo[d - 1]))
  BY FutureUpToDef
<1>2. CASE c \in LeafFutures
  BY <1>2 DEF LeafFutures, LeafOf
<1>3. CASE d # 0 /\ c \in MapFutures(FutureUpTo[d - 1])
  BY <1>3 DEF MapFutures
<1>4. CASE d # 0 /\ c \in EitherFutures(FutureUpTo[d - 1])
  BY <1>4 DEF EitherFutures
<1>5. CASE d # 0 /\ c \in ThenFutures(FutureUpTo[d - 1])
  BY <1>5 DEF ThenFutures
<1> QED BY <1>1, <1>2, <1>3, <1>4, <1>5 DEF Grown

LEMMA FutureBuilt ==
    ASSUME NEW d \in 0..FutureDepth
    PROVE  /\ \A i \in Leaf : LeafOf(i) \in FutureUpTo[d]
           /\ d # 0 => \A g \in FutureUpTo[d - 1], m \in Option :
                [tag |-> "map", f |-> g, map |-> m] \in FutureUpTo[d]
           /\ d # 0 => \A g \in FutureUpTo[d - 1], t \in {"either", "eitherMap"}, s \in {"Left", "Right"} :
                [tag |-> t, side |-> s, f |-> g] \in FutureUpTo[d]
           /\ d # 0 => \A g, h \in FutureUpTo[d - 1], m \in Option, p \in {"F1", "F2"} :
                LET c == [tag |-> "then", phase |-> p, f |-> g, map |-> m, made |-> h]
                IN  (p = "F1" => SecondPhase(c) \in FutureUpTo[d - 1]) => c \in FutureUpTo[d]
<1>1. FutureUpTo[d] = LeafFutures \cup IF d = 0 THEN {} ELSE Grown(FutureUpTo[d - 1])
  BY FutureUpToDef
<1>2. \A i \in Leaf : LeafOf(i) \in LeafFutures
  BY DEF LeafFutures, LeafOf
<1> DEFINE L == FutureUpTo[d - 1]
<1> HIDE DEF L
<1>3. \A g \in L, m \in Option : [tag |-> "map", f |-> g, map |-> m] \in Grown(L)
  BY DEF Grown, MapFutures
<1>4. \A g \in L, t \in {"either", "eitherMap"}, s \in {"Left", "Right"} :
         [tag |-> t, side |-> s, f |-> g] \in Grown(L)
  BY DEF Grown, EitherFutures
<1>5. ASSUME NEW g \in L, NEW h \in L, NEW m \in Option, NEW p \in {"F1", "F2"},
             p = "F1" => SecondPhase([tag |-> "then", phase |-> p, f |-> g, map |-> m, made |-> h]) \in L
      PROVE  [tag |-> "then", phase |-> p, f |-> g, map |-> m, made |-> h] \in Grown(L)
  <2> DEFINE c == [tag |-> "then", phase |-> p, f |-> g, map |-> m, made |-> h]
  <2>1. c \in [tag : {"then"}, phase : {"F1", "F2"}, f : L, map : Option, made : L] /\ c.phase = p
    OBVIOUS
  <2> HIDE DEF c
  <2>2. p = "F1" => SecondPhase(c) \in L
    BY <1>5 DEF c
  <2>3. c \in Grown(L)
    BY <2>1, <2>2 DEF Grown, ThenFutures
  <2> QED BY <2>3 DEF c
<1> QED BY <1>1, <1>2, <1>3, <1>4, <1>5 DEF L

LEMMA GrownMore ==
    ASSUME NEW L, NEW M, L \subseteq M
    PROVE  Grown(L) \subseteq Grown(M)
<1>1. MapFutures(L) \subseteq MapFutures(M)
  BY DEF MapFutures
<1>2. EitherFutures(L) \subseteq EitherFutures(M)
  BY DEF EitherFutures
<1>3. ThenFutures(L) \subseteq ThenFutures(M)
  BY DEF ThenFutures
<1> QED BY <1>1, <1>2, <1>3 DEF Grown

LEMMA FutureGrows ==
    ASSUME NEW d \in 0..FutureDepth
    PROVE  FutureUpTo[d] \subseteq Future /\ (d # 0 => FutureUpTo[d - 1] \subseteq FutureUpTo[d])
<1>0. FutureDepth \in Nat BY ProgramsAssumption
<1>1. \A e \in 1..FutureDepth : FutureUpTo[e - 1] \subseteq FutureUpTo[e]
  <2> DEFINE N == {e \in 0..FutureDepth : e = 0 \/ FutureUpTo[e - 1] \subseteq FutureUpTo[e]}
  <2>1. 0 \in N
    BY <1>0
  <2>2. ASSUME NEW e \in 1..FutureDepth, e - 1 \in N PROVE e \in N
    <3>1. e \in 0..FutureDepth /\ e - 1 \in 0..FutureDepth /\ e # 0
      BY <1>0
    <3>2. e - 1 # 0 => FutureUpTo[(e - 1) - 1] \subseteq FutureUpTo[e - 1]
      BY <2>2, <3>1
    <3>3. e - 1 # 0 => Grown(FutureUpTo[(e - 1) - 1]) \subseteq Grown(FutureUpTo[e - 1])
      BY <3>2, GrownMore
    <3>4. FutureUpTo[e] = LeafFutures \cup Grown(FutureUpTo[e - 1])
      BY <3>1, FutureUpToDef
    <3>5. FutureUpTo[e - 1] = LeafFutures \cup IF e - 1 = 0 THEN {} ELSE Grown(FutureUpTo[(e - 1) - 1])
      BY <3>1, FutureUpToDef
    <3> QED BY <3>1, <3>3, <3>4, <3>5
  <2>3. \A e \in 0..FutureDepth : e \in N
    <3> HIDE DEF N
    <3> QED BY <1>0, <2>1, <2>2, UpToInduction
  <2> QED BY <2>3
<1>2. \A k \in 0..FutureDepth : FutureUpTo[FutureDepth - k] \subseteq Future
  <2> DEFINE N == {k \in 0..FutureDepth : FutureUpTo[FutureDepth - k] \subseteq Future}
  <2>1. 0 \in N
    BY <1>0 DEF Future
  <2>2. ASSUME NEW k \in 1..FutureDepth, k - 1 \in N PROVE k \in N
    <3>1. k \in 0..FutureDepth /\ FutureDepth - (k - 1) \in 1..FutureDepth
          /\ (FutureDepth - (k - 1)) - 1 = FutureDepth - k
      BY <1>0
    <3> QED BY <1>1, <3>1, <2>2
  <2>3. \A k \in 0..FutureDepth : k \in N
    <3> HIDE DEF N
    <3> QED BY <1>0, <2>1, <2>2, UpToInduction
  <2> QED BY <2>3
<1>3. FutureDepth - d \in 0..FutureDepth /\ FutureDepth - (FutureDepth - d) = d
      /\ (d # 0 => d \in 1..FutureDepth)
  BY <1>0
<1> QED BY <1>1, <1>2, <1>3

\* Induction over the futures.
LEMMA FutureInduction ==
    ASSUME NEW P,
           \A d \in 0..FutureDepth : (d = 0 \/ FutureUpTo[d - 1] \subseteq P) => FutureUpTo[d] \subseteq P
    PROVE  \A c \in Future : c \in P
<1> DEFINE N == {d \in 0..FutureDepth : FutureUpTo[d] \subseteq P}
<1>0. FutureDepth \in Nat BY ProgramsAssumption
<1>1. 0 \in N
  BY <1>0
<1>2. ASSUME NEW d \in 1..FutureDepth, d - 1 \in N PROVE d \in N
  BY <1>2
<1>3. FutureDepth \in N
  <2> HIDE DEF N
  <2> QED BY <1>0, <1>1, <1>2, UpToInduction
<1> QED BY <1>3 DEF Future

LEMMA LeavesDef ==
    \A c \in Future : Leaves[c] =
        IF c.tag = "leaf" THEN {c.id}
        ELSE IF c.tag = "then" /\ c.phase = "F1" THEN Leaves[c.f] \cup Leaves[c.made]
        ELSE Leaves[c.f]
<1> DEFINE body(f, c) ==
        IF c.tag = "leaf" THEN {c.id}
        ELSE IF c.tag = "then" /\ c.phase = "F1" THEN f[c.f] \cup f[c.made]
        ELSE f[c.f]
      Good(f, d) == Fcn(f, FutureUpTo[d]) /\ \A c \in FutureUpTo[d] : f[c] = body(f, c)
      N == {d \in 0..FutureDepth : \E f : Good(f, d)}
<1>0. FutureDepth \in Nat BY ProgramsAssumption
<1>1. ASSUME NEW d \in 0..FutureDepth, NEW c \in FutureUpTo[d], NEW f, NEW g,
             d = 0 \/ \A e \in FutureUpTo[d - 1] : f[e] = g[e]
      PROVE  body(f, c) = body(g, c)
  BY <1>1, FutureCases
<1> HIDE DEF body
<1>2. ASSUME NEW d \in 0..FutureDepth, NEW f, d = 0 \/ Good(f, d - 1)
      PROVE  d \in N
  <2> DEFINE g == [c \in FutureUpTo[d] |-> body(f, c)]
  <2>1. \A c \in FutureUpTo[d] : g[c] = body(f, c)
    BY Zenon
  <2>2. Fcn(g, FutureUpTo[d])
    BY DEF Fcn
  <2> HIDE DEF g
  <2>3. d = 0 \/ \A e \in FutureUpTo[d - 1] : f[e] = g[e]
    BY <1>2, <2>1, FutureGrows
  <2>4. \A c \in FutureUpTo[d] : g[c] = body(g, c)
    BY <2>1, <2>3, <1>1
  <2> QED BY <2>2, <2>4
<1>3. 0 \in N
  BY <1>0, <1>2
<1>4. ASSUME NEW d \in 1..FutureDepth, d - 1 \in N PROVE d \in N
  <2>1. PICK f : Good(f, d - 1)
    BY <1>4
  <2>2. d \in 0..FutureDepth
    OBVIOUS
  <2> QED BY <2>1, <2>2, <1>2
<1>5. FutureDepth \in N
  <2> HIDE DEF N
  <2> QED BY <1>0, <1>3, <1>4, UpToInduction
<1>6. \E f : f = [c \in Future |-> body(f, c)]
  <2>1. PICK f : Good(f, FutureDepth)
    BY <1>5
  <2>2. [c \in Future |-> f[c]] = [c \in Future |-> body(f, c)]
    BY <2>1 DEF Future
  <2>3. f = [c \in Future |-> f[c]]
    BY <2>1 DEF Fcn, Future
  <2> HIDE DEF Good
  <2> QED BY <2>2, <2>3
<1>7. Leaves = CHOOSE f : f = [c \in Future |-> body(f, c)]
  BY DEF Leaves, body
<1>8. Leaves = [c \in Future |-> body(Leaves, c)]
  BY <1>6, <1>7, Zenon
<1>9. \A c \in Future : Leaves[c] = body(Leaves, c)
  BY <1>8, Zenon
<1> QED BY <1>9, Zenon DEF body

LEMMA UnfinishedDef ==
    \A c \in Future : Unfinished[c] =
        IF c.tag = "leaf" THEN TRUE
        ELSE /\ Unfinished[c.f]
             /\ c.tag = "map" => c.map # <<>>
             /\ c.tag = "then" /\ c.phase = "F1" =>
                  c.map # <<>> /\ Unfinished[c.made] /\ Leaves[c.f] \cap Leaves[c.made] = {}
<1> DEFINE body(f, c) ==
        IF c.tag = "leaf" THEN TRUE
        ELSE /\ f[c.f]
             /\ c.tag = "map" => c.map # <<>>
             /\ c.tag = "then" /\ c.phase = "F1" =>
                  c.map # <<>> /\ f[c.made] /\ Leaves[c.f] \cap Leaves[c.made] = {}
      Good(f, d) == Fcn(f, FutureUpTo[d]) /\ \A c \in FutureUpTo[d] : f[c] = body(f, c)
      N == {d \in 0..FutureDepth : \E f : Good(f, d)}
<1>0. FutureDepth \in Nat BY ProgramsAssumption
<1>1. ASSUME NEW d \in 0..FutureDepth, NEW c \in FutureUpTo[d], NEW f, NEW g,
             d = 0 \/ \A e \in FutureUpTo[d - 1] : f[e] = g[e]
      PROVE  body(f, c) = body(g, c)
  BY <1>1, FutureCases
<1> HIDE DEF body
<1>2. ASSUME NEW d \in 0..FutureDepth, NEW f, d = 0 \/ Good(f, d - 1)
      PROVE  d \in N
  <2> DEFINE g == [c \in FutureUpTo[d] |-> body(f, c)]
  <2>1. \A c \in FutureUpTo[d] : g[c] = body(f, c)
    BY Zenon
  <2>2. Fcn(g, FutureUpTo[d])
    BY DEF Fcn
  <2> HIDE DEF g
  <2>3. d = 0 \/ \A e \in FutureUpTo[d - 1] : f[e] = g[e]
    BY <1>2, <2>1, FutureGrows
  <2>4. \A c \in FutureUpTo[d] : g[c] = body(g, c)
    BY <2>1, <2>3, <1>1
  <2> QED BY <2>2, <2>4
<1>3. 0 \in N
  BY <1>0, <1>2
<1>4. ASSUME NEW d \in 1..FutureDepth, d - 1 \in N PROVE d \in N
  <2>1. PICK f : Good(f, d - 1)
    BY <1>4
  <2>2. d \in 0..FutureDepth
    OBVIOUS
  <2> QED BY <2>1, <2>2, <1>2
<1>5. FutureDepth \in N
  <2> HIDE DEF N
  <2> QED BY <1>0, <1>3, <1>4, UpToInduction
<1>6. \E f : f = [c \in Future |-> body(f, c)]
  <2>1. PICK f : Good(f, FutureDepth)
    BY <1>5
  <2>2. [c \in Future |-> f[c]] = [c \in Future |-> body(f, c)]
    BY <2>1 DEF Future
  <2>3. f = [c \in Future |-> f[c]]
    BY <2>1 DEF Fcn, Future
  <2> HIDE DEF Good
  <2> QED BY <2>2, <2>3
<1>7. Unfinished = CHOOSE f : f = [c \in Future |-> body(f, c)]
  BY DEF Unfinished, body
<1>8. Unfinished = [c \in Future |-> body(Unfinished, c)]
  BY <1>6, <1>7, Zenon
<1>9. \A c \in Future : Unfinished[c] = body(Unfinished, c)
  BY <1>8, Zenon
<1> QED BY <1>9, Zenon DEF body

LEMMA MeaningDef ==
    \A c \in Future : Meaning[c] =
        IF c.tag = "leaf" THEN Meant(Output(c.id), <<>>)
        ELSE IF c.tag = "map" THEN MapMeant(c, Meaning[c.f])
        ELSE IF c.tag = "eitherMap" THEN Meant(Tagged(c.side, Meaning[c.f].value), Meaning[c.f].called)
        ELSE IF c.tag = "then" /\ c.phase = "F1" THEN ThenMeant(c, Meaning[c.f], Meaning[c.made])
        ELSE Meaning[c.f]
<1> DEFINE body(f, c) ==
        IF c.tag = "leaf" THEN Meant(Output(c.id), <<>>)
        ELSE IF c.tag = "map" THEN MapMeant(c, f[c.f])
        ELSE IF c.tag = "eitherMap" THEN Meant(Tagged(c.side, f[c.f].value), f[c.f].called)
        ELSE IF c.tag = "then" /\ c.phase = "F1" THEN ThenMeant(c, f[c.f], f[c.made])
        ELSE f[c.f]
      Good(f, d) == Fcn(f, FutureUpTo[d]) /\ \A c \in FutureUpTo[d] : f[c] = body(f, c)
      N == {d \in 0..FutureDepth : \E f : Good(f, d)}
<1>0. FutureDepth \in Nat BY ProgramsAssumption
<1>1. ASSUME NEW d \in 0..FutureDepth, NEW c \in FutureUpTo[d], NEW f, NEW g,
             d = 0 \/ \A e \in FutureUpTo[d - 1] : f[e] = g[e]
      PROVE  body(f, c) = body(g, c)
  BY <1>1, FutureCases
<1> HIDE DEF body
<1>2. ASSUME NEW d \in 0..FutureDepth, NEW f, d = 0 \/ Good(f, d - 1)
      PROVE  d \in N
  <2> DEFINE g == [c \in FutureUpTo[d] |-> body(f, c)]
  <2>1. \A c \in FutureUpTo[d] : g[c] = body(f, c)
    BY Zenon
  <2>2. Fcn(g, FutureUpTo[d])
    BY DEF Fcn
  <2> HIDE DEF g
  <2>3. d = 0 \/ \A e \in FutureUpTo[d - 1] : f[e] = g[e]
    BY <1>2, <2>1, FutureGrows
  <2>4. \A c \in FutureUpTo[d] : g[c] = body(g, c)
    BY <2>1, <2>3, <1>1
  <2> QED BY <2>2, <2>4
<1>3. 0 \in N
  BY <1>0, <1>2
<1>4. ASSUME NEW d \in 1..FutureDepth, d - 1 \in N PROVE d \in N
  <2>1. PICK f : Good(f, d - 1)
    BY <1>4
  <2>2. d \in 0..FutureDepth
    OBVIOUS
  <2> QED BY <2>1, <2>2, <1>2
<1>5. FutureDepth \in N
  <2> HIDE DEF N
  <2> QED BY <1>0, <1>3, <1>4, UpToInduction
<1>6. \E f : f = [c \in Future |-> body(f, c)]
  <2>1. PICK f : Good(f, FutureDepth)
    BY <1>5
  <2>2. [c \in Future |-> f[c]] = [c \in Future |-> body(f, c)]
    BY <2>1 DEF Future
  <2>3. f = [c \in Future |-> f[c]]
    BY <2>1 DEF Fcn, Future
  <2> HIDE DEF Good
  <2> QED BY <2>2, <2>3
<1>7. Meaning = CHOOSE f : f = [c \in Future |-> body(f, c)]
  BY DEF Meaning, body
<1>8. Meaning = [c \in Future |-> body(Meaning, c)]
  BY <1>6, <1>7, Zenon
<1>9. \A c \in Future : Meaning[c] = body(Meaning, c)
  BY <1>8, Zenon
<1> QED BY <1>9, Zenon DEF body

LEMMA PollDef ==
    \A c \in Future : Poll[c] =
        IF c.tag = "leaf" THEN PollLeaf(c)
        ELSE IF c.tag = "map" THEN MapAnswer(c, Poll[c.f])
        ELSE IF c.tag = "eitherMap" THEN EitherMapAnswer(c, Poll[c.f])
        ELSE IF c.tag = "then" /\ c.phase = "F1" THEN ThenFirst(c, Poll[c.f], Poll)
        ELSE Inside(c, Poll[c.f])
<1> DEFINE body(f, c) ==
        IF c.tag = "leaf" THEN PollLeaf(c)
        ELSE IF c.tag = "map" THEN MapAnswer(c, f[c.f])
        ELSE IF c.tag = "eitherMap" THEN EitherMapAnswer(c, f[c.f])
        ELSE IF c.tag = "then" /\ c.phase = "F1" THEN ThenFirst(c, f[c.f], f)
        ELSE Inside(c, f[c.f])
      Good(f, d) == Fcn(f, FutureUpTo[d]) /\ \A c \in FutureUpTo[d] : f[c] = body(f, c)
      N == {d \in 0..FutureDepth : \E f : Good(f, d)}
<1>0. FutureDepth \in Nat BY ProgramsAssumption
<1>1. ASSUME NEW d \in 0..FutureDepth, NEW c \in FutureUpTo[d], NEW f, NEW g,
             d = 0 \/ \A e \in FutureUpTo[d - 1] : f[e] = g[e]
      PROVE  body(f, c) = body(g, c)
  <2>1. CASE c.tag = "leaf"
    BY <2>1
  <2>2. CASE c.tag # "leaf"
    <3>1. d # 0 /\ c.f \in FutureUpTo[d - 1]
      BY <2>2, FutureCases
    <3>2. f[c.f] = g[c.f]
      BY <1>1, <3>1
    <3>3. ASSUME c.tag = "then", c.phase = "F1" PROVE ThenFirst(c, f[c.f], f) = ThenFirst(c, g[c.f], g)
      <4>1. SecondPhase(c) \in FutureUpTo[d - 1]
        BY <3>3, FutureCases
      <4>2. f[SecondPhase(c)] = g[SecondPhase(c)]
        BY <1>1, <3>1, <4>1
      <4> DEFINE r == ThenReady(c, g[c.f])
      <4>3. r.poll # "panic" => r.fut = SecondPhase(c)
        BY DEF ThenReady, Answer, Panics, Inside
      <4>4. ThenFirst(c, g[c.f], f) = ThenFirst(c, g[c.f], g)
        <5> HIDE DEF r
        <5> QED BY <4>2, <4>3 DEF ThenFirst, r
      <4> QED BY <3>2, <4>4
    <3> QED BY <2>2, <3>2, <3>3
  <2> QED BY <2>1, <2>2
<1> HIDE DEF body
<1>2. ASSUME NEW d \in 0..FutureDepth, NEW f, d = 0 \/ Good(f, d - 1)
      PROVE  d \in N
  <2> DEFINE g == [c \in FutureUpTo[d] |-> body(f, c)]
  <2>1. \A c \in FutureUpTo[d] : g[c] = body(f, c)
    BY Zenon
  <2>2. Fcn(g, FutureUpTo[d])
    BY DEF Fcn
  <2> HIDE DEF g
  <2>3. d = 0 \/ \A e \in FutureUpTo[d - 1] : f[e] = g[e]
    BY <1>2, <2>1, FutureGrows
  <2>4. \A c \in FutureUpTo[d] : g[c] = body(g, c)
    BY <2>1, <2>3, <1>1
  <2> QED BY <2>2, <2>4
<1>3. 0 \in N
  BY <1>0, <1>2
<1>4. ASSUME NEW d \in 1..FutureDepth, d - 1 \in N PROVE d \in N
  <2>1. PICK f : Good(f, d - 1)
    BY <1>4
  <2>2. d \in 0..FutureDepth
    OBVIOUS
  <2> QED BY <2>1, <2>2, <1>2
<1>5. FutureDepth \in N
  <2> HIDE DEF N
  <2> QED BY <1>0, <1>3, <1>4, UpToInduction
<1>6. \E f : f = [c \in Future |-> body(f, c)]
  <2>1. PICK f : Good(f, FutureDepth)
    BY <1>5
  <2>2. [c \in Future |-> f[c]] = [c \in Future |-> body(f, c)]
    BY <2>1 DEF Future
  <2>3. f = [c \in Future |-> f[c]]
    BY <2>1 DEF Fcn, Future
  <2> HIDE DEF Good
  <2> QED BY <2>2, <2>3
<1>7. Poll = CHOOSE f : f = [c \in Future |-> body(f, c)]
  BY DEF Poll, body
<1>8. Poll = [c \in Future |-> body(Poll, c)]
  BY <1>6, <1>7, Zenon
<1>9. \A c \in Future : Poll[c] = body(Poll, c)
  BY <1>8, Zenon
<1> QED BY <1>9, Zenon DEF body

-----------------------------------------------------------------------------
(* Lists of anything.                                                      *)

Listed(s) == \E S : s \in Seq(S)

LEMMA ListedTogether ==
    ASSUME NEW s, NEW t, Listed(s), Listed(t)
    PROVE  \E S : s \in Seq(S) /\ t \in Seq(S)
<1>1. PICK A, B : s \in Seq(A) /\ t \in Seq(B)
  BY DEF Listed
<1>2. s \in Seq(A \cup B) /\ t \in Seq(A \cup B)
  BY <1>1
<1> QED BY <1>2

LEMMA ListedJoin ==
    ASSUME NEW s, NEW t, Listed(s), Listed(t)
    PROVE  Listed(s \o t)
<1>1. PICK S : s \in Seq(S) /\ t \in Seq(S)
  BY ListedTogether
<1>2. s \o t \in Seq(S)
  BY <1>1
<1> QED BY <1>2 DEF Listed

LEMMA ListedOne ==
    ASSUME NEW x
    PROVE  Listed(<<>>) /\ Listed(<<x>>)
<1>1. <<>> \in Seq({x}) /\ <<x>> \in Seq({x})
  OBVIOUS
<1> QED BY <1>1 DEF Listed

LEMMA ListedAppend ==
    ASSUME NEW s, NEW x, Listed(s)
    PROVE  Listed(Append(s, x)) /\ Append(s, x) = s \o <<x>>
<1>1. PICK S : s \in Seq(S) /\ <<x>> \in Seq(S)
  BY ListedOne, ListedTogether
<1>2. x \in S
  <2>1. <<x>>[1] = x /\ 1 \in 1..Len(<<x>>)
    OBVIOUS
  <2> QED BY <1>1, <2>1
<1>3. Append(s, x) \in Seq(S)
  BY <1>1, <1>2
<1>4. Append(s, x) = s \o <<x>>
  BY <1>1, <1>2
<1> QED BY <1>3, <1>4 DEF Listed

LEMMA JoinAssoc ==
    ASSUME NEW r, NEW s, NEW t, Listed(r), Listed(s), Listed(t)
    PROVE  (r \o s) \o t = r \o (s \o t)
<1>1. PICK A, B, C : r \in Seq(A) /\ s \in Seq(B) /\ t \in Seq(C)
  BY DEF Listed
<1>2. r \in Seq(A \cup B \cup C) /\ s \in Seq(A \cup B \cup C) /\ t \in Seq(A \cup B \cup C)
  BY <1>1
<1>3. \A S : r \in Seq(S) /\ s \in Seq(S) /\ t \in Seq(S) => (r \o s) \o t = r \o (s \o t)
  OBVIOUS
<1> QED BY <1>2, <1>3

LEMMA JoinEmpty ==
    ASSUME NEW s, Listed(s)
    PROVE  s \o <<>> = s /\ <<>> \o s = s
<1>1. PICK S : s \in Seq(S)
  BY DEF Listed
<1> QED BY <1>1

LEMMA JoinAppend ==
    ASSUME NEW s, NEW t, NEW x, Listed(s), Listed(t)
    PROVE  s \o Append(t, x) = Append(s \o t, x)
<1>1. Append(t, x) = t \o <<x>> /\ Append(s \o t, x) = (s \o t) \o <<x>> /\ Listed(<<x>>)
  BY ListedAppend, ListedJoin, ListedOne
<1> QED BY <1>1, JoinAssoc

LEMMA JoinElements ==
    ASSUME NEW S, NEW s \in Seq(S), NEW t \in Seq(S)
    PROVE  /\ s \o t \in Seq(S) /\ Len(s \o t) = Len(s) + Len(t)
           /\ \A i \in 1..Len(s) : (s \o t)[i] = s[i]
           /\ \A i \in (Len(s) + 1)..(Len(s) + Len(t)) : (s \o t)[i] = t[i - Len(s)]
OBVIOUS

LEMMA PrefixJoin ==
    ASSUME NEW s, NEW t, Listed(s), Listed(t)
    PROVE  IsPrefix(s, s \o t)
<1>1. PICK S : s \in Seq(S) /\ t \in Seq(S)
  BY ListedTogether
<1>2. s \o t \in Seq(S) /\ Len(s) <= Len(s \o t)
  BY <1>1
<1>3. SubSeq(s, 1, Len(s)) = SubSeq(s \o t, 1, Len(s))
  BY <1>1, <1>2
<1> QED BY <1>2, <1>3 DEF IsPrefix

-----------------------------------------------------------------------------
(* What a poll answers.                                                    *)

\* what a future stands for has both fields
LEMMA MeaningType ==
    \A c \in Future : Meaning[c] = Meant(Meaning[c].value, Meaning[c].called) /\ Listed(Meaning[c].called)
<1> DEFINE P == {c \in Future : Meaning[c] = Meant(Meaning[c].value, Meaning[c].called) /\ Listed(Meaning[c].called)}
<1>1. ASSUME NEW d \in 0..FutureDepth, d = 0 \/ FutureUpTo[d - 1] \subseteq P, NEW c \in FutureUpTo[d]
      PROVE  c \in P
  <2>0. c \in Future
    BY FutureGrows
  <2>a. \A v, called : Meant(v, called).value = v /\ Meant(v, called).called = called
    BY DEF Meant
  <2>1. CASE c.tag = "leaf"
    <3>1. Meaning[c] = Meant(Output(c.id), <<>>)
      BY <2>0, <2>1, MeaningDef
    <3>2. Listed(<<>>)
      BY ListedOne
    <3> QED BY <2>0, <2>a, <3>1, <3>2
  <2>2. CASE c.tag # "leaf"
    <3>1. d # 0 /\ c.f \in FutureUpTo[d - 1]
      BY <2>2, FutureCases
    <3>2. c.f \in P
      BY <1>1, <3>1
    <3> DEFINE m == Meaning[c.f]
    <3>3. m = Meant(m.value, m.called) /\ Listed(m.called)
      BY <3>2
    <3>4. c.tag = "then" => c.made \in P
      BY <1>1, <3>1, FutureCases
    <3> HIDE DEF m, P
    <3>5. CASE c.tag = "map"
      <4>1. Meaning[c] = MapMeant(c, m)
        BY <2>0, <3>5, MeaningDef DEF m
      <4>2. Listed(Append(m.called, <<c.map[1], m.value>>))
        BY <3>3, ListedAppend
      <4>3. CASE c.map = <<>>
        BY <2>0, <3>3, <4>1, <4>3 DEF MapMeant, P
      <4>4. CASE c.map # <<>>
        BY <2>0, <2>a, <4>1, <4>2, <4>4 DEF MapMeant, P
      <4> QED BY <4>3, <4>4
    <3>6. CASE c.tag = "eitherMap"
      <4>1. Meaning[c] = Meant(Tagged(c.side, m.value), m.called)
        BY <2>0, <3>6, MeaningDef DEF m
      <4> QED BY <2>0, <2>a, <3>3, <4>1 DEF P
    <3>7. CASE c.tag = "then" /\ c.phase = "F1"
      <4> DEFINE n == Meaning[c.made]
      <4>1. Meaning[c] = ThenMeant(c, m, n)
        BY <2>0, <3>7, MeaningDef DEF m
      <4>2. Listed(n.called)
        BY <3>4, <3>7 DEF P
      <4> HIDE DEF n
      <4>3. Listed(Append(m.called, <<c.map[1], m.value>>))
        BY <3>3, ListedAppend
      <4>4. Listed(Append(m.called, <<c.map[1], m.value>>) \o n.called)
        BY <4>2, <4>3, ListedJoin
      <4>5. CASE c.map = <<>>
        BY <2>0, <3>3, <4>1, <4>5 DEF ThenMeant, P
      <4>6. CASE c.map # <<>>
        BY <2>0, <2>a, <4>1, <4>4, <4>6 DEF ThenMeant, P
      <4> QED BY <4>5, <4>6
    <3>8. CASE c.tag # "map" /\ c.tag # "eitherMap" /\ ~(c.tag = "then" /\ c.phase = "F1")
      <4>1. Meaning[c] = m
        BY <2>0, <2>2, <3>8, MeaningDef DEF m
      <4> QED BY <2>0, <3>3, <4>1 DEF P
    <3> QED BY <3>5, <3>6, <3>7, <3>8
  <2> QED BY <2>1, <2>2
<1>2. \A d \in 0..FutureDepth : (d = 0 \/ FutureUpTo[d - 1] \subseteq P) => FutureUpTo[d] \subseteq P
  BY <1>1
<1>3. \A c \in Future : c \in P
  <2> HIDE DEF P
  <2> QED BY <1>2, FutureInduction
<1> QED BY <1>3

\* c was polled with answer a, which is Pending, and is now a.fut
Stays(c, a) ==
    /\ \A e \in 0..FutureDepth : c \in FutureUpTo[e] => a.fut \in FutureUpTo[e]
    /\ Unfinished[a.fut]
    /\ Leaves[a.fut] \subseteq Leaves[c]
    /\ \A k \in 1..Len(a.polled) : a.polled[k] \in ready => a.polled[k] \notin Leaves[a.fut]
    /\ a.called \o Meaning[a.fut].called = Meaning[c].called
    /\ Meaning[a.fut].value = Meaning[c].value
RightAnswer(c, a) ==
    /\ a = Answer(a.fut, a.polled, a.called, a.poll, a.out)
    /\ a.polled \in Seq(Leaves[c])
    /\ Listed(a.called)
    /\ \/ a.poll = "Ready" /\ a.called = Meaning[c].called /\ a.out = Meaning[c].value
       \/ a.poll = "Pending" /\ Stays(c, a)

LEMMA AnswerFields ==
    ASSUME NEW f, NEW polled, NEW called, NEW poll, NEW v
    PROVE  LET a == Answer(f, polled, called, poll, v) IN
           a.fut = f /\ a.polled = polled /\ a.called = called /\ a.poll = poll /\ a.out = v
BY DEF Answer

LEMMA InsideAnswer ==
    ASSUME NEW f, NEW a, a = Answer(a.fut, a.polled, a.called, a.poll, a.out)
    PROVE  Inside(f, a) = Answer([f EXCEPT !.f = a.fut], a.polled, a.called, a.poll, a.out)
BY DEF Answer, Inside

\* the inner future of c has been put back as g
LEMMA PutBack ==
    ASSUME NEW c \in Future, c.tag # "leaf", NEW g
    PROVE  LET b == [c EXCEPT !.f = g] IN
           /\ b.f = g /\ b.tag = c.tag
           /\ c.tag \in {"map", "then"} => b.map = c.map
           /\ c.tag \in {"either", "eitherMap"} => b.side = c.side
           /\ c.tag = "then" => b.phase = c.phase /\ b.made = c.made /\ SecondPhase(b) = SecondPhase(c)
<1>1. FutureDepth \in 0..FutureDepth /\ c \in FutureUpTo[FutureDepth]
  BY ProgramsAssumption DEF Future
<1>2. \/ c = [tag |-> "map", f |-> c.f, map |-> c.map]
      \/ c.tag \in {"either", "eitherMap"} /\ c = [tag |-> c.tag, side |-> c.side, f |-> c.f]
      \/ c = [tag |-> "then", phase |-> c.phase, f |-> c.f, map |-> c.map, made |-> c.made]
  BY <1>1, FutureCases
<1>3. CASE c = [tag |-> "map", f |-> c.f, map |-> c.map]
  BY <1>3
<1>4. CASE c.tag \in {"either", "eitherMap"} /\ c = [tag |-> c.tag, side |-> c.side, f |-> c.f]
  BY <1>4
<1>5. CASE c = [tag |-> "then", phase |-> c.phase, f |-> c.f, map |-> c.map, made |-> c.made]
  <2> DEFINE b == [c EXCEPT !.f = g]
  <2>1. b = [tag |-> "then", phase |-> c.phase, f |-> g, map |-> c.map, made |-> c.made] /\ c.tag = "then"
    BY <1>5
  <2>2. SecondPhase(c) = [tag |-> "then", phase |-> "F2", f |-> c.made, map |-> <<>>, made |-> c.made]
    BY <1>5 DEF SecondPhase
  <2> HIDE DEF b
  <2>3. SecondPhase(b) = [tag |-> "then", phase |-> "F2", f |-> c.made, map |-> <<>>, made |-> c.made]
    BY <2>1 DEF SecondPhase
  <2>4. b.f = g /\ b.tag = c.tag /\ b.map = c.map /\ b.phase = c.phase /\ b.made = c.made
    BY <2>1
  <2>5. SecondPhase(b) = SecondPhase(c)
    BY <2>2, <2>3
  <2> QED BY <2>1, <2>4, <2>5 DEF b
<1> QED BY <1>2, <1>3, <1>4, <1>5

LEMMA PutBackLevels ==
    ASSUME NEW e \in 0..FutureDepth, NEW c \in FutureUpTo[e], c.tag # "leaf", NEW g,
           \A d \in 0..FutureDepth : c.f \in FutureUpTo[d] => g \in FutureUpTo[d]
    PROVE  [c EXCEPT !.f = g] \in FutureUpTo[e]
<1> DEFINE b == [c EXCEPT !.f = g]
<1>0. c \in Future
  BY FutureGrows
<1>1. e # 0 /\ e - 1 \in 0..FutureDepth /\ c.f \in FutureUpTo[e - 1]
  <2>1. e # 0 /\ c.f \in FutureUpTo[e - 1]
    BY FutureCases
  <2> QED BY <2>1, ProgramsAssumption
<1>2. g \in FutureUpTo[e - 1]
  BY <1>1
<1>3. CASE c = [tag |-> "map", f |-> c.f, map |-> c.map] /\ c.map \in Option
  <2>1. b = [tag |-> "map", f |-> g, map |-> c.map]
    BY <1>3
  <2> HIDE DEF b
  <2>2. b \in FutureUpTo[e]
    BY <1>1, <1>2, <1>3, <2>1, FutureBuilt
  <2> QED BY <2>2 DEF b
<1>4. CASE c.tag \in {"either", "eitherMap"} /\ c.side \in {"Left", "Right"}
           /\ c = [tag |-> c.tag, side |-> c.side, f |-> c.f]
  <2>1. b = [tag |-> c.tag, side |-> c.side, f |-> g]
    BY <1>4
  <2> HIDE DEF b
  <2>2. b \in FutureUpTo[e]
    BY <1>1, <1>2, <1>4, <2>1, FutureBuilt
  <2> QED BY <2>2 DEF b
<1>5. CASE /\ c.tag = "then" /\ c.made \in FutureUpTo[e - 1] /\ c.phase \in {"F1", "F2"} /\ c.map \in Option
           /\ c.phase = "F1" => SecondPhase(c) \in FutureUpTo[e - 1]
           /\ c = [tag |-> "then", phase |-> c.phase, f |-> c.f, map |-> c.map, made |-> c.made]
  <2>1. b = [tag |-> "then", phase |-> c.phase, f |-> g, map |-> c.map, made |-> c.made]
    BY <1>5
  <2>2. SecondPhase(b) = SecondPhase(c)
    BY <1>0, <1>5, PutBack
  <2> HIDE DEF b
  <2>3. c.phase = "F1" => SecondPhase([tag |-> "then", phase |-> c.phase, f |-> g, map |-> c.map, made |-> c.made])
                            \in FutureUpTo[e - 1]
    BY <1>5, <2>1, <2>2
  <2>4. b \in FutureUpTo[e]
    BY <1>1, <1>2, <1>5, <2>1, <2>3, FutureBuilt
  <2> QED BY <2>4 DEF b
<1> QED BY <1>3, <1>4, <1>5, FutureCases

LEMMA FutureParts ==
    ASSUME NEW c \in Future, c.tag # "leaf"
    PROVE  /\ c.f \in Future
           /\ c.tag = "then" => c.made \in Future
           /\ c.tag = "then" /\ c.phase = "F1" => SecondPhase(c) \in Future
           /\ c.tag \in {"map", "either", "eitherMap", "then"}
           /\ c.tag = "then" => c.phase \in {"F1", "F2"}
<1>1. FutureDepth \in 0..FutureDepth /\ c \in FutureUpTo[FutureDepth]
  BY ProgramsAssumption DEF Future
<1>2. FutureDepth # 0 => FutureDepth - 1 \in 0..FutureDepth
  BY <1>1
<1>3. FutureDepth # 0 => FutureUpTo[FutureDepth - 1] \subseteq Future
  BY <1>2, FutureGrows
<1> QED BY <1>1, <1>3, FutureCases

First(c) == c.tag = "then" /\ c.phase = "F1"

LEMMA LeavesOf ==
    ASSUME NEW c \in Future, c.tag # "leaf"
    PROVE  /\ First(c) => Leaves[c] = Leaves[c.f] \cup Leaves[c.made]
           /\ ~First(c) => Leaves[c] = Leaves[c.f]
BY LeavesDef DEF First

LEMMA UnfinishedOf ==
    ASSUME NEW c \in Future, c.tag # "leaf"
    PROVE  Unfinished[c] <=> /\ Unfinished[c.f]
                             /\ c.tag = "map" => c.map # <<>>
                             /\ First(c) => c.map # <<>> /\ Unfinished[c.made] /\ Leaves[c.f] \cap Leaves[c.made] = {}
<1>1. Unfinished[c] = (/\ Unfinished[c.f]
                       /\ c.tag = "map" => c.map # <<>>
                       /\ First(c) => c.map # <<>> /\ Unfinished[c.made] /\ Leaves[c.f] \cap Leaves[c.made] = {})
  BY UnfinishedDef, Zenon DEF First
<1> QED BY <1>1, Zenon

LEMMA MeaningOf ==
    ASSUME NEW c \in Future, c.tag # "leaf"
    PROVE  /\ c.tag = "map" => Meaning[c] = MapMeant(c, Meaning[c.f])
           /\ c.tag = "eitherMap" => Meaning[c] = Meant(Tagged(c.side, Meaning[c.f].value), Meaning[c.f].called)
           /\ First(c) => Meaning[c] = ThenMeant(c, Meaning[c.f], Meaning[c.made])
           /\ c.tag = "either" \/ (c.tag = "then" /\ ~First(c)) => Meaning[c] = Meaning[c.f]
BY MeaningDef DEF First

LEMMA MeantFields ==
    ASSUME NEW v, NEW called
    PROVE  Meant(v, called).value = v /\ Meant(v, called).called = called
BY DEF Meant

\* what is left of c, when g has been put back for c.f
LEMMA PutBackMeans ==
    ASSUME NEW c \in Future, c.tag # "leaf", Unfinished[c], NEW g \in Future, NEW s, Listed(s),
           s \o Meaning[g].called = Meaning[c.f].called, Meaning[g].value = Meaning[c.f].value,
           [c EXCEPT !.f = g] \in Future
    PROVE  LET b == [c EXCEPT !.f = g] IN
           s \o Meaning[b].called = Meaning[c].called /\ Meaning[b].value = Meaning[c].value
<1> DEFINE b == [c EXCEPT !.f = g]
           m == Meaning[c.f]
           k == Meaning[g]
<1>1. b.f = g /\ b.tag = c.tag /\ (c.tag \in {"map", "then"} => b.map = c.map)
  BY PutBack
<1>2. (c.tag \in {"either", "eitherMap"} => b.side = c.side) /\ (c.tag = "then" => b.phase = c.phase /\ b.made = c.made)
  BY PutBack
<1>3. b \in Future /\ c.f \in Future
  BY FutureParts
<1>4. Listed(m.called) /\ Listed(k.called)
  BY <1>3, MeaningType
<1>5. s \o k.called = m.called /\ k.value = m.value
  OBVIOUS
<1> HIDE DEF b, m, k
<1>6. CASE c.tag = "map"
  <2>0. c.map # <<>>
    BY <1>6, UnfinishedOf
  <2>1. Meaning[c] = MapMeant(c, m)
    BY <1>6, MeaningOf DEF m
  <2>2. Meaning[b] = MapMeant(b, k)
    BY <1>1, <1>3, <1>6, MeaningOf DEF k
  <2>3. b.map = c.map
    BY <1>1, <1>6
  <2> DEFINE x == <<c.map[1], m.value>>
  <2>4. Meaning[c] = Meant(Applied(c.map[1], m.value), Append(m.called, x))
    BY <2>0, <2>1 DEF MapMeant
  <2>5. Meaning[b] = Meant(Applied(c.map[1], m.value), Append(k.called, x))
    BY <1>5, <2>0, <2>2, <2>3 DEF MapMeant
  <2> HIDE DEF x
  <2>6. s \o Append(k.called, x) = Append(s \o k.called, x)
    BY <1>4, JoinAppend
  <2>7. s \o Append(k.called, x) = Append(m.called, x)
    BY <1>5, <2>6
  <2>8. Meaning[c].called = Append(m.called, x) /\ Meaning[b].called = Append(k.called, x)
        /\ Meaning[b].value = Meaning[c].value
    BY <2>4, <2>5 DEF Meant
  <2> QED BY <2>7, <2>8 DEF b
<1>7. CASE c.tag = "eitherMap"
  <2>1. Meaning[c] = Meant(Tagged(c.side, m.value), m.called)
    BY <1>7, MeaningOf DEF m
  <2>2. Meaning[b] = Meant(Tagged(b.side, k.value), k.called)
    BY <1>1, <1>3, <1>7, MeaningOf DEF k
  <2>3. b.side = c.side
    BY <1>2, <1>7
  <2>4. Meaning[c].called = m.called /\ Meaning[b].called = k.called /\ Meaning[b].value = Meaning[c].value
    BY <1>5, <2>1, <2>2, <2>3, MeantFields
  <2> QED BY <1>5, <2>4 DEF b
<1>8. CASE First(c)
  <2> DEFINE n == Meaning[c.made]
  <2>0. c.tag = "then" /\ c.phase = "F1"
    BY <1>8 DEF First
  <2>a. b.map = c.map /\ b.made = c.made /\ First(b) /\ c.made \in Future /\ b.tag # "leaf"
    BY <1>1, <1>2, <2>0, FutureParts DEF First
  <2>b. c.map # <<>>
    BY <1>8, UnfinishedOf
  <2>1. Meaning[c] = ThenMeant(c, m, n)
    BY <1>8, MeaningOf DEF m
  <2>2. Meaning[b] = ThenMeant(b, k, n)
    BY <1>1, <1>3, <2>a, MeaningOf DEF k
  <2>3. Listed(n.called)
    BY <2>a, MeaningType
  <2> HIDE DEF n
  <2> DEFINE x == <<c.map[1], m.value>>
  <2>4. Meaning[c] = Meant(n.value, Append(m.called, x) \o n.called)
    BY <2>b, <2>1 DEF ThenMeant
  <2>5. Meaning[b] = Meant(n.value, Append(k.called, x) \o n.called)
    BY <1>5, <2>2, <2>a, <2>b DEF ThenMeant
  <2> HIDE DEF x
  <2>6. s \o Append(k.called, x) = Append(s \o k.called, x) /\ Listed(Append(k.called, x))
    <3>1. s \o Append(k.called, x) = Append(s \o k.called, x)
      BY <1>4, JoinAppend
    <3>2. Listed(Append(k.called, x))
      BY <1>4, ListedAppend
    <3> QED BY <3>1, <3>2
  <2>7. s \o Append(k.called, x) = Append(m.called, x)
    BY <1>5, <2>6
  <2> DEFINE p == Append(k.called, x)
             q == Append(m.called, x)
  <2>8. Listed(p) /\ s \o p = q
    BY <2>6, <2>7
  <2>9. Meaning[c] = Meant(n.value, q \o n.called) /\ Meaning[b] = Meant(n.value, p \o n.called)
    BY <2>4, <2>5
  <2> HIDE DEF p, q
  <2>10. s \o (p \o n.called) = q \o n.called
    <3>1. Listed(s) /\ Listed(p) /\ Listed(n.called)
      BY <2>3, <2>8
    <3> DEFINE z == n.called
    <3>2. Listed(z)
      BY <3>1
    <3> HIDE DEF z
    <3>3. (s \o p) \o z = s \o (p \o z)
      BY <3>1, <3>2, JoinAssoc
    <3> QED BY <2>8, <3>3 DEF z
  <2> DEFINE v == q \o n.called
             w == p \o n.called
  <2>11. s \o w = v /\ Meaning[c] = Meant(n.value, v) /\ Meaning[b] = Meant(n.value, w)
    BY <2>9, <2>10
  <2> HIDE DEF v, w
  <2>12. Meaning[c].called = v /\ Meaning[b].called = w /\ Meaning[b].value = Meaning[c].value
    BY <2>11 DEF Meant
  <2> QED BY <2>11, <2>12 DEF b
<1>9. CASE c.tag = "either" \/ (c.tag = "then" /\ ~First(c))
  <2>1. Meaning[c] = m
    BY <1>9, MeaningOf DEF m
  <2>2. b.tag = "either" \/ (b.tag = "then" /\ ~First(b))
    BY <1>1, <1>2, <1>9 DEF First
  <2>3. Meaning[b] = k
    BY <1>1, <1>3, <2>2, MeaningOf DEF k
  <2> QED BY <1>5, <2>1, <2>3 DEF b
<1>10. c.tag \in {"map", "either", "eitherMap", "then"}
  BY FutureParts
<1> QED BY <1>6, <1>7, <1>8, <1>9, <1>10

\* the inner future is pending, and so is c
LEMMA InsideStays ==
    ASSUME NEW c \in Future, c.tag # "leaf", Unfinished[c], NEW a, RightAnswer(c.f, a), a.poll = "Pending"
    PROVE  RightAnswer(c, Inside(c, a))
<1> DEFINE b == [c EXCEPT !.f = a.fut]
           r == Inside(c, a)
<1>1. a = Answer(a.fut, a.polled, a.called, a.poll, a.out) /\ a.polled \in Seq(Leaves[c.f]) /\ Listed(a.called)
  BY DEF RightAnswer
<1>2. Stays(c.f, a)
  BY DEF RightAnswer
<1>3. r = Answer(b, a.polled, a.called, a.poll, a.out)
  BY <1>1, InsideAnswer
<1>4. r.fut = b /\ r.polled = a.polled /\ r.called = a.called /\ r.poll = "Pending" /\ r.out = a.out
  BY <1>3, AnswerFields
<1>5. c.f \in Future /\ (First(c) => c.made \in Future)
  BY FutureParts DEF First
<1>6. \A e \in 0..FutureDepth : c \in FutureUpTo[e] => b \in FutureUpTo[e]
  BY <1>2, PutBackLevels DEF Stays
<1>7. FutureDepth \in 0..FutureDepth
  BY ProgramsAssumption
<1>8. a.fut \in Future /\ b \in Future
  BY <1>2, <1>5, <1>6, <1>7 DEF Stays, Future
<1>9. /\ b.f = a.fut /\ b.tag = c.tag /\ (c.tag \in {"map", "then"} => b.map = c.map)
      /\ (First(c) <=> First(b)) /\ (First(c) => b.made = c.made /\ b.map = c.map)
  <2>1. b.f = a.fut /\ b.tag = c.tag /\ (c.tag \in {"map", "then"} => b.map = c.map)
        /\ (c.tag = "then" => b.phase = c.phase /\ b.made = c.made)
    BY PutBack
  <2> HIDE DEF b
  <2> QED BY <2>1 DEF First
<1>10. a.called \o Meaning[b].called = Meaning[c].called /\ Meaning[b].value = Meaning[c].value
  BY <1>1, <1>2, <1>8, PutBackMeans DEF Stays
<1> HIDE DEF b, r
<1>11. Leaves[a.fut] \subseteq Leaves[c.f] /\ Unfinished[a.fut]
  BY <1>2 DEF Stays
<1>12. Leaves[b] \subseteq Leaves[c] /\ Leaves[c.f] \subseteq Leaves[c]
  BY <1>8, <1>9, <1>11, LeavesOf
<1>13. Unfinished[b]
  <2>1. First(c) => c.map # <<>> /\ Unfinished[c.made] /\ Leaves[c.f] \cap Leaves[c.made] = {}
    BY UnfinishedOf
  <2>2. c.tag = "map" => c.map # <<>>
    BY UnfinishedOf
  <2>3. First(b) => b.map # <<>> /\ Unfinished[b.made] /\ Leaves[b.f] \cap Leaves[b.made] = {}
    BY <1>9, <1>11, <2>1
  <2> QED BY <1>8, <1>9, <1>11, <2>2, <2>3, UnfinishedOf
<1>14. ASSUME NEW i \in 1..Len(a.polled), a.polled[i] \in ready PROVE a.polled[i] \notin Leaves[b]
  <2>1. a.polled[i] \notin Leaves[a.fut] /\ a.polled[i] \in Leaves[c.f]
    BY <1>1, <1>2, <1>14 DEF Stays
  <2>2. First(c) => Leaves[c.f] \cap Leaves[c.made] = {}
    BY UnfinishedOf
  <2>3. First(b) => Leaves[b] = Leaves[a.fut] \cup Leaves[c.made]
    BY <1>8, <1>9, LeavesOf
  <2>4. ~First(b) => Leaves[b] = Leaves[a.fut]
    BY <1>8, <1>9, LeavesOf
  <2> QED BY <1>9, <2>1, <2>2, <2>3, <2>4
<1>15. Stays(c, r)
  BY <1>4, <1>6, <1>10, <1>12, <1>13, <1>14 DEF Stays
<1>16. a.polled \in Seq(Leaves[c])
  BY <1>1, <1>12
<1>17. r = Answer(r.fut, r.polled, r.called, r.poll, r.out)
  BY <1>3, <1>4
<1> QED BY <1>1, <1>4, <1>15, <1>16, <1>17 DEF RightAnswer, r

LEMMA LeafAnswers ==
    ASSUME NEW c \in Future, c.tag = "leaf"
    PROVE  RightAnswer(c, PollLeaf(c))
<1>1. Leaves[c] = {c.id} /\ Unfinished[c] /\ Meaning[c] = Meant(Output(c.id), <<>>)
  BY LeavesDef, UnfinishedDef, MeaningDef
<1>2. Listed(<<>>) /\ <<>> \o <<>> = <<>>
  BY ListedOne, JoinEmpty
<1>3. Meaning[c].called = <<>> /\ Meaning[c].value = Output(c.id)
  BY <1>1, MeantFields
<1>4. <<c.id>> \in Seq(Leaves[c]) /\ Len(<<c.id>>) = 1 /\ <<c.id>>[1] = c.id
  BY <1>1
<1> DEFINE a == PollLeaf(c)
<1>5. CASE c.id \in ready
  <2>1. a = Answer(c, <<c.id>>, <<>>, "Ready", Output(c.id))
    BY <1>5 DEF PollLeaf
  <2> HIDE DEF a
  <2>2. a.fut = c /\ a.polled = <<c.id>> /\ a.called = <<>> /\ a.poll = "Ready" /\ a.out = Output(c.id)
    BY <2>1, AnswerFields
  <2>3. RightAnswer(c, a)
    BY <1>2, <1>3, <1>4, <2>1, <2>2 DEF RightAnswer
  <2> QED BY <2>3 DEF a
<1>6. CASE c.id \notin ready
  <2>1. a = Answer(c, <<c.id>>, <<>>, "Pending", <<>>)
    BY <1>6 DEF PollLeaf
  <2> HIDE DEF a
  <2>2. a.fut = c /\ a.polled = <<c.id>> /\ a.called = <<>> /\ a.poll = "Pending" /\ a.out = <<>>
    BY <2>1, AnswerFields
  <2>3. Stays(c, a)
    <3>1. \A i \in 1..Len(a.polled) : a.polled[i] \notin ready
      BY <1>4, <1>6, <2>2
    <3> QED BY <1>1, <1>2, <1>3, <2>2, <3>1 DEF Stays
  <2>4. RightAnswer(c, a)
    BY <1>2, <1>4, <2>1, <2>2, <2>3 DEF RightAnswer
  <2> QED BY <2>4 DEF a
<1> QED BY <1>5, <1>6

\* the inner future is ready: combinators that pass its output on
LEMMA ReadyThrough ==
    ASSUME NEW c \in Future, c.tag \in {"either", "then"}, ~First(c), NEW a, RightAnswer(c.f, a), a.poll = "Ready"
    PROVE  RightAnswer(c, Inside(c, a))
<1> DEFINE b == [c EXCEPT !.f = a.fut]
           r == Inside(c, a)
<1>1. a = Answer(a.fut, a.polled, a.called, a.poll, a.out) /\ a.polled \in Seq(Leaves[c.f]) /\ Listed(a.called)
  BY DEF RightAnswer
<1>2. r = Answer(b, a.polled, a.called, a.poll, a.out)
  BY <1>1, InsideAnswer
<1> HIDE DEF b, r
<1>3. r.fut = b /\ r.polled = a.polled /\ r.called = a.called /\ r.poll = "Ready" /\ r.out = a.out
  BY <1>2, AnswerFields
<1>4. c.tag # "leaf"
  OBVIOUS
<1>5. Leaves[c] = Leaves[c.f] /\ Meaning[c] = Meaning[c.f]
  BY <1>4, LeavesOf, MeaningOf
<1>6. a.called = Meaning[c].called /\ a.out = Meaning[c].value
  BY <1>5 DEF RightAnswer
<1>7. r = Answer(r.fut, r.polled, r.called, r.poll, r.out)
  BY <1>2, <1>3
<1>8. RightAnswer(c, r)
  BY <1>1, <1>3, <1>5, <1>6, <1>7 DEF RightAnswer
<1> QED BY <1>8 DEF r

LEMMA ReadyTagged ==
    ASSUME NEW c \in Future, c.tag = "eitherMap", NEW a, RightAnswer(c.f, a), a.poll = "Ready"
    PROVE  RightAnswer(c, EitherMapAnswer(c, a))
<1> DEFINE b == [c EXCEPT !.f = a.fut]
           r == EitherMapAnswer(c, a)
<1>1. a = Answer(a.fut, a.polled, a.called, a.poll, a.out) /\ a.polled \in Seq(Leaves[c.f]) /\ Listed(a.called)
  BY DEF RightAnswer
<1>2. Inside(c, a) = Answer(b, a.polled, a.called, a.poll, a.out)
  BY <1>1, InsideAnswer
<1> HIDE DEF b
<1>3. r = Answer(b, a.polled, a.called, a.poll, Tagged(c.side, a.out))
  BY <1>2 DEF EitherMapAnswer, Answer
<1> HIDE DEF r
<1>4. r.fut = b /\ r.polled = a.polled /\ r.called = a.called /\ r.poll = "Ready" /\ r.out = Tagged(c.side, a.out)
  BY <1>3, AnswerFields
<1>5. c.tag # "leaf" /\ ~First(c)
  BY DEF First
<1>6. Leaves[c] = Leaves[c.f] /\ Meaning[c] = Meant(Tagged(c.side, Meaning[c.f].value), Meaning[c.f].called)
  BY <1>5, LeavesOf, MeaningOf
<1>7. a.called = Meaning[c.f].called /\ a.out = Meaning[c.f].value
  BY DEF RightAnswer
<1>8. a.called = Meaning[c].called /\ Tagged(c.side, a.out) = Meaning[c].value
  BY <1>6, <1>7, MeantFields
<1>9. r = Answer(r.fut, r.polled, r.called, r.poll, r.out)
  BY <1>3, <1>4
<1>10. RightAnswer(c, r)
  BY <1>1, <1>4, <1>6, <1>8, <1>9 DEF RightAnswer
<1> QED BY <1>10 DEF r

LEMMA ReadyMapped ==
    ASSUME NEW c \in Future, c.tag = "map", c.map # <<>>, NEW a, RightAnswer(c.f, a), a.poll = "Ready"
    PROVE  RightAnswer(c, MapAnswer(c, a))
<1> DEFINE r == MapAnswer(c, a)
           g == [c EXCEPT !.f = a.fut, !.map = <<>>]
           called == Append(a.called, <<c.map[1], a.out>>)
<1>1. a.polled \in Seq(Leaves[c.f]) /\ Listed(a.called)
  BY DEF RightAnswer
<1>2. r = Answer(g, a.polled, called, "Ready", Applied(c.map[1], a.out))
  BY DEF MapAnswer, MapReady
<1>3. Listed(called)
  BY <1>1, ListedAppend
<1>4. a.called = Meaning[c.f].called /\ a.out = Meaning[c.f].value
  BY DEF RightAnswer
<1>5. c.tag # "leaf" /\ ~First(c)
  BY DEF First
<1>6. Leaves[c] = Leaves[c.f] /\ Meaning[c] = MapMeant(c, Meaning[c.f])
  BY <1>5, LeavesOf, MeaningOf
<1>7. Meaning[c] = Meant(Applied(c.map[1], a.out), called)
  BY <1>4, <1>6 DEF MapMeant
<1> HIDE DEF r, g, called
<1>8. r.fut = g /\ r.polled = a.polled /\ r.called = called /\ r.poll = "Ready" /\ r.out = Applied(c.map[1], a.out)
  BY <1>2, AnswerFields
<1>9. Meaning[c].called = called /\ Meaning[c].value = Applied(c.map[1], a.out)
  BY <1>7, MeantFields
<1>10. r = Answer(r.fut, r.polled, r.called, r.poll, r.out)
  BY <1>2, <1>8
<1>11. RightAnswer(c, r)
  BY <1>1, <1>3, <1>6, <1>8, <1>9, <1>10 DEF RightAnswer
<1> QED BY <1>11 DEF r

\* Then has made its second future, and polls it: b is what that answers
LEMMA SecondMeans ==
    ASSUME NEW c \in Future, First(c), Unfinished[c]
    PROVE  LET t == SecondPhase(c) IN
           /\ t \in Future /\ c.made \in Future
           /\ Leaves[t] = Leaves[c.made] /\ Unfinished[t] /\ Meaning[t] = Meaning[c.made]
<1> DEFINE t == SecondPhase(c)
<1>1. c.tag = "then" /\ c.phase = "F1" /\ c.tag # "leaf"
  BY DEF First
<1>2. t \in Future /\ c.made \in Future
  BY <1>1, FutureParts
<1>3. t.tag = "then" /\ t.phase = "F2" /\ t.f = c.made
  BY DEF SecondPhase
<1> HIDE DEF t
<1>4. t.tag # "leaf" /\ ~First(t)
  BY <1>3 DEF First
<1>5. Unfinished[c.made]
  BY <1>1, UnfinishedOf
<1>6. Unfinished[t]
  BY <1>2, <1>3, <1>4, <1>5, UnfinishedOf
<1> QED BY <1>2, <1>3, <1>4, <1>6, LeavesOf, MeaningOf DEF t

LEMMA ThenAnswers ==
    ASSUME NEW c \in Future, First(c), Unfinished[c], NEW a, RightAnswer(c.f, a), a.poll = "Ready",
           NEW b, RightAnswer(SecondPhase(c), b)
    PROVE  RightAnswer(c, ThenAgain(ThenReady(c, a), b))
<1> DEFINE t == SecondPhase(c)
           r == ThenAgain(ThenReady(c, a), b)
           before == Append(a.called, <<c.map[1], a.out>>)
           n == Meaning[c.made]
<1>1. a.polled \in Seq(Leaves[c.f]) /\ Listed(a.called) /\ a.called = Meaning[c.f].called /\ a.out = Meaning[c.f].value
  BY DEF RightAnswer
<1>2. b = Answer(b.fut, b.polled, b.called, b.poll, b.out) /\ b.polled \in Seq(Leaves[t]) /\ Listed(b.called)
  BY DEF RightAnswer
<1>3. c.tag = "then" /\ c.phase = "F1" /\ c.tag # "leaf"
  BY DEF First
<1>4. t \in Future /\ Leaves[t] = Leaves[c.made] /\ Unfinished[t] /\ Meaning[t] = n /\ c.made \in Future
  BY SecondMeans
<1>5. c.map # <<>> /\ Leaves[c.f] \cap Leaves[c.made] = {} /\ Leaves[c] = Leaves[c.f] \cup Leaves[c.made]
  BY <1>3, UnfinishedOf, LeavesOf
<1>6. ThenReady(c, a) = Answer(t, a.polled, before, "Pending", <<>>)
  BY <1>5 DEF ThenReady
<1>7. r = Answer(b.fut, a.polled \o b.polled, before \o b.called, b.poll, b.out)
  <2> DEFINE q == ThenReady(c, a)
  <2> HIDE DEF before
  <2>1. q.polled = a.polled /\ q.called = before
    BY <1>6 DEF Answer
  <2> HIDE DEF q
  <2>2. ThenAgain(q, b) = Answer(b.fut, q.polled \o b.polled, q.called \o b.called, b.poll, b.out)
    BY DEF ThenAgain
  <2> QED BY <2>1, <2>2 DEF q
<1>8. Listed(before) /\ Listed(before \o b.called)
  BY <1>1, <1>2, ListedAppend, ListedJoin
<1>9. Meaning[c] = Meant(n.value, before \o n.called)
  <2>1. Meaning[c] = ThenMeant(c, Meaning[c.f], n)
    BY <1>3, MeaningOf
  <2> QED BY <1>1, <1>5, <2>1 DEF ThenMeant
<1>10. Listed(n.called)
  BY <1>4, MeaningType
<1> HIDE DEF r, before, n, t
<1>11. r.fut = b.fut /\ r.polled = a.polled \o b.polled /\ r.called = before \o b.called /\ r.poll = b.poll /\ r.out = b.out
  <2> DEFINE polled == a.polled \o b.polled
             called == before \o b.called
  <2>1. r = Answer(b.fut, polled, called, b.poll, b.out)
    BY <1>7
  <2> HIDE DEF polled, called
  <2>2. r.fut = b.fut /\ r.polled = polled /\ r.called = called /\ r.poll = b.poll /\ r.out = b.out
    BY <2>1, AnswerFields
  <2> QED BY <2>2 DEF polled, called
<1>12. Meaning[c].called = before \o n.called /\ Meaning[c].value = n.value
  <2> DEFINE v == before \o n.called
  <2>1. Meaning[c] = Meant(n.value, v)
    BY <1>9
  <2> HIDE DEF v
  <2>2. Meaning[c].called = v /\ Meaning[c].value = n.value
    BY <2>1, MeantFields
  <2> QED BY <2>2 DEF v
<1>13. a.polled \in Seq(Leaves[c]) /\ b.polled \in Seq(Leaves[c])
  BY <1>1, <1>2, <1>4, <1>5
<1>14. /\ r.polled \in Seq(Leaves[c]) /\ Len(r.polled) = Len(a.polled) + Len(b.polled)
       /\ \A i \in 1..Len(a.polled) : r.polled[i] = a.polled[i]
       /\ \A i \in (Len(a.polled) + 1)..(Len(a.polled) + Len(b.polled)) : r.polled[i] = b.polled[i - Len(a.polled)]
  <2> DEFINE x == a.polled
             y == b.polled
  <2>1. x \in Seq(Leaves[c]) /\ y \in Seq(Leaves[c]) /\ r.polled = x \o y
    BY <1>11, <1>13
  <2> HIDE DEF x, y
  <2>2. /\ r.polled \in Seq(Leaves[c]) /\ Len(r.polled) = Len(x) + Len(y)
        /\ \A i \in 1..Len(x) : r.polled[i] = x[i]
        /\ \A i \in (Len(x) + 1)..(Len(x) + Len(y)) : r.polled[i] = y[i - Len(x)]
    BY <2>1, JoinElements
  <2> QED BY <2>2 DEF x, y
<1>15. r = Answer(r.fut, r.polled, r.called, r.poll, r.out)
  BY <1>7, <1>11
<1>16. CASE b.poll = "Ready"
  <2>1. b.called = n.called /\ b.out = n.value
    BY <1>4, <1>16 DEF RightAnswer, t
  <2>2. r.called = Meaning[c].called /\ r.out = Meaning[c].value /\ r.poll = "Ready"
    BY <1>11, <1>12, <1>16, <2>1
  <2> QED BY <1>8, <1>11, <1>14, <1>15, <2>2 DEF RightAnswer, r
<1>17. CASE b.poll = "Pending"
  <2>1. Stays(t, b)
    BY <1>17 DEF RightAnswer, t
  <2>2. ASSUME NEW e \in 0..FutureDepth, c \in FutureUpTo[e] PROVE b.fut \in FutureUpTo[e]
    <3>1. e # 0 /\ t \in FutureUpTo[e - 1]
      BY <1>3, <2>2, FutureCases DEF t
    <3>2. e - 1 \in 0..FutureDepth
      BY <3>1, ProgramsAssumption
    <3>3. b.fut \in FutureUpTo[e - 1]
      BY <2>1, <3>1, <3>2 DEF Stays
    <3>4. FutureUpTo[e - 1] \subseteq FutureUpTo[e]
      BY <3>1, FutureGrows
    <3> QED BY <3>3, <3>4
  <2>3. b.fut \in Future
    <3>1. FutureDepth \in 0..FutureDepth
      BY ProgramsAssumption
    <3> QED BY <2>2, <3>1 DEF Future
  <2>4. Unfinished[b.fut] /\ Leaves[b.fut] \subseteq Leaves[c.made]
    BY <1>4, <2>1 DEF Stays
  <2>5. ASSUME NEW i \in 1..Len(r.polled), r.polled[i] \in ready PROVE r.polled[i] \notin Leaves[b.fut]
    <3>1. CASE i \in 1..Len(a.polled)
      <4>1. r.polled[i] = a.polled[i]
        BY <1>14, <3>1
      <4>2. a.polled[i] \in Leaves[c.f]
        BY <1>1, <3>1
      <4> QED BY <1>5, <2>4, <4>1, <4>2
    <3>2. CASE i \notin 1..Len(a.polled)
      <4>1. r.polled[i] = b.polled[i - Len(a.polled)] /\ i - Len(a.polled) \in 1..Len(b.polled)
        <5> DEFINE x == Len(a.polled)
                   y == Len(b.polled)
        <5>1. x \in Nat /\ y \in Nat
          BY <1>13
        <5>2. i \in 1..(x + y) /\ i \notin 1..x
          BY <1>14, <2>5, <3>2
        <5> HIDE DEF x, y
        <5>3. i \in (x + 1)..(x + y) /\ i - x \in 1..y
          BY <5>1, <5>2
        <5> QED BY <1>14, <5>3 DEF x, y
      <4> QED BY <2>1, <2>5, <4>1 DEF Stays
    <3> QED BY <3>1, <3>2
  <2> DEFINE m == Meaning[b.fut]
  <2>6. b.called \o m.called = n.called /\ m.value = n.value
    BY <1>4, <2>1 DEF Stays
  <2>7. Listed(m.called)
    BY <2>3, MeaningType
  <2> HIDE DEF m
  <2>8. r.called \o m.called = Meaning[c].called
    <3> DEFINE x == b.called
               z == m.called
    <3>1. Listed(x) /\ Listed(z) /\ Listed(before)
      BY <1>2, <1>8, <2>7
    <3> HIDE DEF x, z
    <3>2. (before \o x) \o z = before \o (x \o z)
      BY <3>1, JoinAssoc
    <3> QED BY <1>11, <1>12, <2>6, <3>2 DEF x, z
  <2>9. Stays(c, r)
    BY <1>5, <1>11, <1>12, <2>2, <2>4, <2>5, <2>6, <2>8 DEF Stays, m
  <2> QED BY <1>8, <1>11, <1>14, <1>15, <1>17, <2>9 DEF RightAnswer, r
<1>18. b.poll = "Ready" \/ b.poll = "Pending"
  BY DEF RightAnswer
<1> QED BY <1>16, <1>17, <1>18

\* The law of poll: what is answered, and what is left of a future that is not ready.
LEMMA PollLaw == \A c \in Future : Unfinished[c] => RightAnswer(c, Poll[c])
<1> DEFINE P == {c \in Future : Unfinished[c] => RightAnswer(c, Poll[c])}
<1>1. ASSUME NEW d \in 0..FutureDepth, d = 0 \/ FutureUpTo[d - 1] \subseteq P, NEW c \in FutureUpTo[d], Unfinished[c]
      PROVE  RightAnswer(c, Poll[c])
  <2>0. c \in Future
    BY FutureGrows
  <2>1. CASE c.tag = "leaf"
    BY <2>0, <2>1, LeafAnswers, PollDef
  <2>2. CASE c.tag # "leaf"
    <3>1. d # 0 /\ c.f \in FutureUpTo[d - 1]
      BY <2>2, FutureCases
    <3>2. Unfinished[c.f]
      BY <1>1, <2>0, <2>2, UnfinishedOf
    <3> DEFINE a == Poll[c.f]
    <3>3. RightAnswer(c.f, a)
      BY <1>1, <3>1, <3>2
    <3>4. a.poll = "Ready" \/ a.poll = "Pending"
      BY <3>3 DEF RightAnswer
    <3>5. /\ c.tag = "map" => Poll[c] = MapAnswer(c, a)
          /\ c.tag = "eitherMap" => Poll[c] = EitherMapAnswer(c, a)
          /\ First(c) => Poll[c] = ThenFirst(c, a, Poll)
          /\ c.tag = "either" \/ (c.tag = "then" /\ ~First(c)) => Poll[c] = Inside(c, a)
      BY <2>0, <2>2, PollDef DEF First
    <3>6. First(c) => SecondPhase(c) \in P
      BY <1>1, <3>1, FutureCases DEF First
    <3> HIDE DEF a, P
    <3>7. c.tag \in {"map", "either", "eitherMap", "then"}
      BY <2>0, <2>2, FutureParts
    <3>8. a.poll = "Pending" => RightAnswer(c, Inside(c, a))
      BY <1>1, <2>0, <2>2, <3>3, InsideStays
    <3>9. CASE c.tag = "map"
      <4>1. c.map # <<>>
        BY <1>1, <2>0, <2>2, <3>9, UnfinishedOf
      <4>2. CASE a.poll = "Ready"
        BY <2>0, <3>3, <3>5, <3>9, <4>1, <4>2, ReadyMapped
      <4>3. CASE a.poll = "Pending"
        BY <3>5, <3>8, <3>9, <4>3 DEF MapAnswer
      <4> QED BY <3>4, <4>2, <4>3
    <3>10. CASE c.tag = "eitherMap"
      <4>1. CASE a.poll = "Ready"
        BY <2>0, <3>3, <3>5, <3>10, <4>1, ReadyTagged
      <4>2. CASE a.poll = "Pending"
        BY <3>5, <3>8, <3>10, <4>2 DEF EitherMapAnswer
      <4> QED BY <3>4, <4>1, <4>2
    <3>11. CASE First(c)
      <4>1. CASE a.poll = "Ready"
        <5> DEFINE r == ThenReady(c, a)
        <5>1. c.map # <<>>
          BY <1>1, <2>0, <2>2, <3>11, UnfinishedOf
        <5>2. r = Answer(SecondPhase(c), a.polled, Append(a.called, <<c.map[1], a.out>>), "Pending", <<>>)
          BY <5>1 DEF ThenReady
        <5>3. r.poll = "Pending" /\ r.fut = SecondPhase(c)
          BY <5>2 DEF Answer
        <5> HIDE DEF r
        <5>4. ThenFirst(c, a, Poll) = ThenAgain(r, Poll[SecondPhase(c)])
          BY <4>1, <5>3 DEF ThenFirst, r
        <5>5. Unfinished[SecondPhase(c)]
          BY <1>1, <2>0, <3>11, SecondMeans
        <5>6. RightAnswer(SecondPhase(c), Poll[SecondPhase(c)])
          BY <3>6, <3>11, <5>5 DEF P
        <5>7. RightAnswer(c, ThenAgain(ThenReady(c, a), Poll[SecondPhase(c)]))
          BY <1>1, <2>0, <3>3, <3>11, <4>1, <5>6, ThenAnswers
        <5> QED BY <3>5, <3>11, <5>4, <5>7 DEF r
      <4>2. CASE a.poll = "Pending"
        BY <3>5, <3>8, <3>11, <4>2 DEF ThenFirst
      <4> QED BY <3>4, <4>1, <4>2
    <3>12. CASE c.tag = "either" \/ (c.tag = "then" /\ ~First(c))
      <4>1. ~First(c)
        BY <3>12 DEF First
      <4>2. CASE a.poll = "Ready"
        BY <2>0, <3>3, <3>5, <3>12, <4>1, <4>2, ReadyThrough
      <4>3. CASE a.poll = "Pending"
        BY <3>5, <3>8, <3>12, <4>3
      <4> QED BY <3>4, <4>2, <4>3
    <3> QED BY <3>7, <3>9, <3>10, <3>11, <3>12
  <2> QED BY <2>1, <2>2
<1>2. \A d \in 0..FutureDepth : (d = 0 \/ FutureUpTo[d - 1] \subseteq P) => FutureUpTo[d] \subseteq P
  BY <1>1, FutureGrows
<1>3. \A c \in Future : c \in P
  <2> HIDE DEF P
  <2> QED BY <1>2, FutureInduction
<1> QED BY <1>3

-----------------------------------------------------------------------------
(* The task.                                                               *)

\* What the task still does, added to what it has done, is what was built; leaves that have
\* answered Ready are out of reach.
FutureInv ==
    /\ task \in {"runnable", "waiting", "done"}
    /\ program \in Programs
    /\ Listed(calls)
    /\ repolled = {}
    /\ task \in {"runnable", "waiting"} =>
         /\ future \in Future /\ Unfinished[future]
         /\ spent \cap Leaves[future] = {}
         /\ calls \o Meaning[future].called = Meaning[program].called
         /\ Meaning[future].value = Meaning[program].value
    /\ task = "done" => calls = Meaning[program].called /\ output = Meaning[program].value

LEMMA FutureInvInit == FutureInit => FutureInv
<1> SUFFICES ASSUME FutureInit PROVE FutureInv
  OBVIOUS
<1>1. program \in Future /\ Unfinished[program] /\ future = program /\ task = "runnable"
  BY ProgramsAssumption DEF FutureInit
<1>2. calls = <<>> /\ spent = {} /\ repolled = {} /\ program \in Programs
  BY DEF FutureInit
<1>3. Listed(<<>>) /\ Listed(Meaning[program].called)
  BY <1>1, ListedOne, MeaningType
<1>4. <<>> \o Meaning[program].called = Meaning[program].called
  BY <1>3, JoinEmpty
<1> QED BY <1>1, <1>2, <1>3, <1>4 DEF FutureInv

LEMMA FutureInvPoll == FutureInv /\ PollTask => FutureInv'
<1> SUFFICES ASSUME FutureInv, PollTask PROVE FutureInv'
  OBVIOUS
<1>1. task = "runnable" /\ program' = program
  BY DEF PollTask
<1>2. /\ future \in Future /\ Unfinished[future] /\ spent \cap Leaves[future] = {}
      /\ calls \o Meaning[future].called = Meaning[program].called
      /\ Meaning[future].value = Meaning[program].value
      /\ program \in Programs /\ Listed(calls) /\ repolled = {}
  BY <1>1 DEF FutureInv
<1> DEFINE a == Poll[future]
<1>3. /\ future' = a.fut /\ calls' = calls \o a.called
      /\ repolled' = repolled \cup (Range(a.polled) \cap spent)
      /\ spent' = spent \cup (Range(a.polled) \cap ready)
      /\ output' = a.out
  BY DEF PollTask
<1>4. /\ a.poll = "Ready" => task' = "done"
      /\ a.poll = "Pending" => task' = "waiting"
  BY DEF PollTask
<1>5. RightAnswer(future, a)
  BY <1>2, PollLaw
<1> HIDE DEF a
<1>6. a.polled \in Seq(Leaves[future]) /\ Listed(a.called)
  BY <1>5 DEF RightAnswer
<1>7. Range(a.polled) = {a.polled[i] : i \in 1..Len(a.polled)} /\ Range(a.polled) \subseteq Leaves[future]
  BY <1>6 DEF Range
<1>8. repolled' = {}
  BY <1>2, <1>3, <1>7
<1>9. Listed(calls')
  BY <1>2, <1>3, <1>6, ListedJoin
<1>10. CASE a.poll = "Ready"
  <2>1. a.called = Meaning[future].called /\ a.out = Meaning[future].value
    BY <1>5, <1>10 DEF RightAnswer
  <2>2. calls' = Meaning[program'].called /\ output' = Meaning[program'].value
    BY <1>1, <1>2, <1>3, <2>1
  <2> QED BY <1>1, <1>2, <1>4, <1>8, <1>9, <1>10, <2>2 DEF FutureInv
<1>11. CASE a.poll = "Pending"
  <2>1. Stays(future, a)
    BY <1>5, <1>11 DEF RightAnswer
  <2>2. a.fut \in Future
    <3>1. FutureDepth \in 0..FutureDepth
      BY ProgramsAssumption
    <3> QED BY <1>2, <2>1, <3>1 DEF Stays, Future
  <2>3. Unfinished[a.fut] /\ Leaves[a.fut] \subseteq Leaves[future] /\ Meaning[a.fut].value = Meaning[future].value
    BY <2>1 DEF Stays
  <2>4. \A i \in 1..Len(a.polled) : a.polled[i] \in ready => a.polled[i] \notin Leaves[a.fut]
    BY <2>1 DEF Stays
  <2>5. spent' \cap Leaves[a.fut] = {}
    BY <1>2, <1>3, <1>7, <2>3, <2>4
  <2> DEFINE m == Meaning[a.fut]
  <2>6. a.called \o m.called = Meaning[future].called
    BY <2>1 DEF Stays
  <2>7. Listed(m.called)
    BY <2>2, MeaningType
  <2> HIDE DEF m
  <2>8. (calls \o a.called) \o m.called = Meaning[program].called
    <3> DEFINE x == a.called
               z == m.called
    <3>1. Listed(x) /\ Listed(z) /\ Listed(calls)
      BY <1>2, <1>6, <2>7
    <3> HIDE DEF x, z
    <3>2. (calls \o x) \o z = calls \o (x \o z)
      BY <3>1, JoinAssoc
    <3> QED BY <1>2, <2>6, <3>2 DEF x, z
  <2>9. calls' \o Meaning[future'].called = Meaning[program'].called
    BY <1>1, <1>3, <2>8 DEF m
  <2> QED BY <1>1, <1>2, <1>3, <1>4, <1>8, <1>9, <1>11, <2>2, <2>3, <2>5, <2>9 DEF FutureInv
<1>12. a.poll = "Ready" \/ a.poll = "Pending"
  BY <1>5 DEF RightAnswer
<1> QED BY <1>10, <1>11, <1>12

LEMMA FutureInvNext == FutureInv /\ [FutureNext]_futureVars => FutureInv'
<1> SUFFICES ASSUME FutureInv, [FutureNext]_futureVars PROVE FutureInv'
  OBVIOUS
<1>1. CASE PollTask
  BY <1>1, FutureInvPoll
<1>2. CASE SpuriousWake
  BY <1>2 DEF SpuriousWake, FutureInv
<1>3. CASE \E i \in Leaf : GetsReady(i)
  BY <1>3 DEF GetsReady, FutureInv
<1>4. CASE UNCHANGED futureVars
  BY <1>4 DEF futureVars, FutureInv
<1> QED BY <1>1, <1>2, <1>3, <1>4 DEF FutureNext

LEMMA FutureInvHolds == FutureSpec => []FutureInv
<1>1. FutureInit => FutureInv
  BY FutureInvInit
<1>2. FutureInv /\ [FutureNext]_futureVars => FutureInv'
  BY FutureInvNext
<1> QED BY <1>1, <1>2, PTL DEF FutureSpec

\* However often the task is polled and in whatever order the leaves get ready, the closures
\* called so far and those still held make up what was built, and the task is answered its value:
\* every closure is called once, in its turn, with the right argument (map.rs:51, then.rs:65-68).
THEOREM ClosuresCalledOnce == FutureSpec => []AnsweredAsBuilt
<1>1. FutureInv => AnsweredAsBuilt
  BY DEF FutureInv, AnsweredAsBuilt
<1> QED BY <1>1, FutureInvHolds, PTL

\* No future is polled after it has answered Ready, and no closure is missing when it is called
\* ("poll after complete"), spurious polls included (map.rs:51, then.rs:65).
THEOREM NeverPolledAgain == FutureSpec => []PolledWithinContract
<1>1. FutureInv => PolledWithinContract
  BY DEF FutureInv, PolledWithinContract
<1> QED BY <1>1, FutureInvHolds, PTL
=============================================================================
