------------------------------ MODULE ByteStream ------------------------------
(***************************************************************************)
(* What a Buf promises: a stream of bytes, read from the front.  A piece   *)
(* is handed over once, in order and without gaps, or passed over because  *)
(* the program asked for that: nothing else leaves the stream.             *)
(***************************************************************************)
EXTENDS Integers, Sequences

CONSTANT Messages   \* what the stream may hold at first

VARIABLES
    rest,           \* the bytes not read yet
    out,            \* the bytes handed over, oldest first
    passed          \* how many bytes the program has asked to pass over

vars == <<rest, out, passed>>

Init ==
    /\ rest \in Messages
    /\ out = <<>>
    /\ passed = 0

Rest(n) == rest' = SubSeq(rest, n + 1, Len(rest))

HandOver(n) ==
    /\ Rest(n)
    /\ out' = out \o SubSeq(rest, 1, n)
    /\ UNCHANGED passed

Pass(n) ==
    /\ Rest(n)
    /\ passed' = passed + n
    /\ UNCHANGED out

Next == \E n \in 0..Len(rest) : HandOver(n) \/ Pass(n)

Spec == Init /\ [][Next]_vars
=============================================================================
