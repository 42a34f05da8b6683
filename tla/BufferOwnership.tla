-------------------------- MODULE BufferOwnership --------------------------
(***************************************************************************)
(* What a reference counted byte buffer promises its users.                *)
(*                                                                         *)
(* A heap buffer is held by a set of handles.  A handle can be added while *)
(* another one keeps the buffer alive, a handle can leave, and the step in *)
(* which the last handle leaves is the step that disposes of the buffer:   *)
(* never before it, never a second time, never forgotten.                  *)
(*                                                                         *)
(* There is no counter, no atomic operation and no thread in here: those   *)
(* are the business of SharedBuffer, which implements this specification.  *)
(***************************************************************************)
CONSTANT Handle     \* identities of the Bytes / BytesMut values

VARIABLES
    holders,        \* the handles that keep the buffer alive
    buffer          \* "live", "freed" (deallocated) or "taken" (given away as a Vec)

vars == <<holders, buffer>>

TypeOK ==
    /\ holders \subseteq Handle
    /\ buffer \in {"live", "freed", "taken"}

Init ==
    /\ \E h \in Handle : holders = {h}
    /\ buffer = "live"

(* A new handle is only ever made from a handle of the same buffer.        *)
Share(h) ==
    /\ holders # {}
    /\ h \notin holders
    /\ holders' = holders \cup {h}
    /\ UNCHANGED buffer

(* A handle leaves while others remain.                                    *)
Leave(h) ==
    /\ h \in holders
    /\ holders # {h}
    /\ holders' = holders \ {h}
    /\ UNCHANGED buffer

(* The last handle leaves, and the buffer goes with it.                    *)
LastLeave(h) ==
    /\ holders = {h}
    /\ holders' = {}
    /\ buffer' \in {"freed", "taken"}

Next == \E h \in Handle : Share(h) \/ Leave(h) \/ LastLeave(h)

Spec == Init /\ [][Next]_vars
=============================================================================
