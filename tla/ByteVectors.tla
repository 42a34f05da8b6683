---------------------------- MODULE ByteVectors ----------------------------
(***************************************************************************)
(* What the handles of tcio::bytes look like to their user: independent    *)
(* vectors of bytes.  An operation changes the vectors of the handles it   *)
(* is given, in the way its name says, and no other vector ever changes.   *)
(*                                                                         *)
(* That several handles view one allocation, that some of them may write   *)
(* to it, and that bytes move when capacity is reclaimed is not visible    *)
(* here; BytesViews implements this specification with all of it.          *)
(***************************************************************************)
EXTENDS Naturals, Sequences

CONSTANTS
    Handle,         \* places a Bytes, a BytesMut or a Vec can live in
    Byte,           \* the values of a byte
    MaxLen,         \* bound on the length of a vector
    None            \* no handle lives here

VARIABLE val        \* val[h]: the bytes handle h shows, or None

Vector == UNION {[1..n -> Byte] : n \in 0..MaxLen}

TypeOK == val \in [Handle -> Vector \cup {None}]

Init == val = [h \in Handle |-> None]

Set(h, v) == val' = [val EXCEPT ![h] = v]
SetSome(h) == val'[h] \in Vector /\ Set(h, val'[h])
Set2(h, v, g, w) == val' = [val EXCEPT ![h] = v, ![g] = w]

Prefix(v, n) == SubSeq(v, 1, n)
Suffix(v, n) == SubSeq(v, n + 1, Len(v))

Alive(h) == val[h] # None

(* A new vector, with any bytes.                                           *)
Create(h) == ~ Alive(h) /\ SetSome(h)

(* clone, slice: a new handle shows bytes i+1..j of h.                     *)
Slice(h, g) ==
    /\ Alive(h) /\ ~ Alive(g)
    /\ \E j \in 0..Len(val[h]) : \E i \in 0..j :
        Set(g, Suffix(Prefix(val[h], j), i))

(* split_to, split_off, split: h is divided between h and a new handle.    *)
Split(h, g) ==
    /\ Alive(h) /\ ~ Alive(g)
    /\ \E n \in 0..Len(val[h]) :
        \/ Set2(h, Prefix(val[h], n), g, Suffix(val[h], n))
        \/ Set2(h, Suffix(val[h], n), g, Prefix(val[h], n))

(* truncate, truncate_off, clear.                                          *)
Shorten(h) == Alive(h) /\ \E n \in 0..Len(val[h]) : Set(h, Prefix(val[h], n))

(* advance                                                                 *)
Advance(h) == Alive(h) /\ \E n \in 0..Len(val[h]) : Set(h, Suffix(val[h], n))

(* extend_from_slice                                                       *)
Extend(h) ==
    /\ Alive(h) /\ SetSome(h)
    /\ Len(val[h]) <= Len(val'[h])
    /\ Prefix(val'[h], Len(val[h])) = val[h]

(* unsplit, put: g is appended to h and is gone.                           *)
Append2(h, g) == Alive(h) /\ Alive(g) /\ g # h /\ Set2(h, val[h] \o val[g], g, None)

Drop(h) == Alive(h) /\ Set(h, None)

(* freeze, into_mut, into_vec, From<Vec>, reserve, try_reclaim change how  *)
(* the bytes are held, never the bytes: no action of this specification.   *)
Next ==
    \E h \in Handle :
        \/ Create(h) \/ Shorten(h) \/ Advance(h) \/ Extend(h) \/ Drop(h)
        \/ \E g \in Handle : Slice(h, g) \/ Split(h, g) \/ Append2(h, g)

Spec == Init /\ [][Next]_val
=============================================================================
