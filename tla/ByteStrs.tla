------------------------------ MODULE ByteStrs ------------------------------
(***************************************************************************)
(* ByteStr: a Bytes whose bytes are UTF-8.  as_str and into_string take    *)
(* that for granted (from_utf8_unchecked), so every way to get a ByteStr   *)
(* and every way to shorten one has to keep it.                            *)
(*                                                                         *)
(* The Bytes below are the independent vectors of ByteVectors, which       *)
(* BytesViews implements: what others do with their own handles, whether   *)
(* they share the allocation or not, is here any change to any vector that *)
(* is not inside a ByteStr.                                                *)
(*                                                                         *)
(* A byte is what UTF-8 tells apart: Ascii is a character of its own,      *)
(* Lead2 and Lead3 begin characters of two and three bytes, Cont continues *)
(* one.                                                                    *)
(***************************************************************************)
EXTENDS ByteVectors

CONSTANTS Ascii, Lead2, Lead3, Cont

ASSUME Utf8Assumption ==
    /\ Byte = {Ascii, Lead2, Lead3, Cont}
    /\ MaxLen \in Nat
    /\ None \notin Vector

VARIABLE strs       \* the handles that are ByteStr

strVars == <<val, strs>>

StrTypeOK == TypeOK /\ strs \subseteq Handle

StrInit == Init /\ strs = {}

-----------------------------------------------------------------------------
(* str of the standard library.                                            *)

Width(b) == IF b = Lead3 THEN 3 ELSE IF b = Lead2 THEN 2 ELSE 1

(* str::from_utf8: a character begins at the first byte and wherever one   *)
(* has ended, and has as many continuation bytes as its first byte says.   *)
IsUtf8(v) ==
    /\ v # <<>> => v[1] # Cont
    /\ \A i \in DOMAIN v : v[i] # Cont =>
         /\ i + Width(v[i]) <= Len(v) + 1
         /\ \A j \in (i + 1)..(i + Width(v[i]) - 1) : v[j] = Cont
         /\ i + Width(v[i]) <= Len(v) => v[i + Width(v[i])] # Cont

(* FAULT: the byte before the cut is looked at.                          *)
IsCharBoundary_Before(v, n) ==
    n \in {i \in 0..Len(v) : i \in {0, Len(v)} \/ v[i] # Cont}

(* str::is_char_boundary                                                   *)
IsCharBoundary(v, n) ==
    n \in {i \in 0..Len(v) : i \in {0, Len(v)} \/ v[i + 1] # Cont}

(* A range of a str is a str: slicing one elsewhere panics.                *)
Cut(v, i, j) == Suffix(Prefix(v, j), i)
IsRange(v, i, j) == i <= j /\ IsCharBoundary(v, i) /\ IsCharBoundary(v, j)

-----------------------------------------------------------------------------
(* Making a ByteStr.                                                       *)

IsBytes(h) == Alive(h) /\ h \notin strs

(* FAULT: from_utf8 without looking.                                     *)
Accepts_All(v) == TRUE
(* Ok(_) of str::from_utf8(bytes.as_slice())                               *)
Accepts(v) == IsUtf8(v)

(* from_utf8: the Bytes becomes a ByteStr, or comes back in the error.     *)
FromUtf8(h) ==
    /\ IsBytes(h)
    /\ strs' = IF Accepts(val[h]) THEN strs \cup {h} ELSE strs
    /\ UNCHANGED val

(* from_static, copy_from_str, From<String>, From<Box<str>>: from a str.   *)
FromStr(h) ==
    /\ ~ Alive(h)
    /\ \E v \in Vector : IsUtf8(v) /\ Set(h, v)
    /\ strs' = strs \cup {h}

(* from_slice_of: a str that was found within the bytes of a Bytes.        *)
FromSliceOf(h, g) ==
    /\ IsBytes(h) /\ ~ Alive(g)
    /\ \E j \in 0..Len(val[h]) : \E i \in 0..j :
        IsUtf8(Cut(val[h], i, j)) /\ Set(g, Cut(val[h], i, j))
    /\ strs' = strs \cup {g}

-----------------------------------------------------------------------------
(* Using a ByteStr.                                                        *)

(* Beyond the length nothing happens; the assertion panics when the cut is *)
(* inside a character, before anything has changed.                        *)
StrTruncate(h, n) ==
    /\ h \in strs
    /\ IsCharBoundary(val[h], n)
    /\ Set(h, Prefix(val[h], n))
    /\ UNCHANGED strs

StrClear(h) == h \in strs /\ Set(h, Prefix(val[h], 0)) /\ UNCHANGED strs

(* slice_ref of a range of as_str, and Clone, which is the whole range.    *)
StrSliceRef(h, g) ==
    /\ h \in strs /\ ~ Alive(g)
    /\ \E j \in 0..Len(val[h]) : \E i \in 0..j :
        IsRange(val[h], i, j) /\ Set(g, Cut(val[h], i, j))
    /\ strs' = strs \cup {g}

(* into_bytes; into_string, of which the Vec is what matters.              *)
IntoBytes(h) == h \in strs /\ strs' = strs \ {h} /\ UNCHANGED val

StrDrop(h) == h \in strs /\ Set(h, None) /\ strs' = strs \ {h}

(* Anything at all happens to a vector that is not inside a ByteStr.       *)
OtherBytes(h) ==
    /\ h \notin strs
    /\ \E v \in Vector \cup {None} : Set(h, v)
    /\ UNCHANGED strs

StrNext ==
    \E h \in Handle :
        \/ FromUtf8(h) \/ FromStr(h) \/ StrClear(h) \/ IntoBytes(h)
        \/ StrDrop(h) \/ OtherBytes(h)
        \/ \E n \in 0..MaxLen : StrTruncate(h, n)
        \/ \E g \in Handle : FromSliceOf(h, g) \/ StrSliceRef(h, g)

StrSpec == StrInit /\ [][StrNext]_strVars

-----------------------------------------------------------------------------
(* bytestr.rs:8 "INVARIANT: bytes is a valid utf8": through every sequence *)
(* of conversions, cuts and slices, and whatever is done with the Bytes    *)
(* the strings came from or have become.                                   *)
StrsAreUtf8 == \A h \in strs : Alive(h) /\ IsUtf8(val[h])

StrInv == StrTypeOK /\ StrsAreUtf8
=============================================================================
