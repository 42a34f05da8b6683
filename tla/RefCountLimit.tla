---------------------------- MODULE RefCountLimit ----------------------------
(***************************************************************************)
(* The limit of Shared::ref_count.  A handle that is leaked (mem::forget)  *)
(* keeps its reference for ever, so a program can make the count grow as   *)
(* far as it likes; shared::increment aborts the process before the usize  *)
(* wraps to 0.  It adds first and looks at the old value afterwards, in    *)
(* two steps: between them other threads add as well.                      *)
(*                                                                         *)
(* The state needs no bound: the abort is what bounds it.                  *)
(***************************************************************************)
EXTENDS Naturals, FiniteSets

CONSTANTS
    Adder,          \* the threads that clone and drop handles of one block
    IsizeMax        \* isize::MAX, scaled down

(* A usize holds 2 * (isize::MAX + 1) values; no machine has room for as   *)
(* many threads as half of them.                                           *)
ASSUME LimitAssumption ==
    /\ IsFiniteSet(Adder)
    /\ IsizeMax \in Nat
    /\ Cardinality(Adder) <= IsizeMax

VARIABLES
    count,          \* Shared::ref_count
    old,            \* old[t]: what fetch_add returned to t, until it is looked at
    refs,           \* the references there really are
    process         \* "running", "aborted", or "freed": the block is gone

limitVars == <<count, old, refs, process>>

Usize == 0 .. 2 * IsizeMax + 1
Unread == 2 * IsizeMax + 2          \* t is not inside increment

Wrap(n) == n % (2 * IsizeMax + 2)

LimitTypeOK ==
    /\ count \in Usize
    /\ old \in [Adder -> Usize \cup {Unread}]
    /\ refs \in Nat
    /\ process \in {"running", "aborted", "freed"}

(* FAULT: only the very last value of the usize aborts.                  *)
TooMany_UsizeMax(n) == n > 2 * IsizeMax

(* old_size > isize::MAX as usize                                          *)
TooMany(n) == n > IsizeMax

LimitInit ==
    /\ count = 1 /\ refs = 1
    /\ old = [t \in Adder |-> Unread]
    /\ process = "running"

(* Threads between fetch_add and the comparison: their clone is counted,   *)
(* nobody has it yet.                                                      *)
Adding == {t \in Adder : old[t] # Unread}

(* fetch_add, through a handle that somebody has.                          *)
FetchAdd(t) ==
    /\ process = "running" /\ old[t] = Unread
    /\ refs > Cardinality(Adding)
    /\ count' = Wrap(count + 1)
    /\ old' = [old EXCEPT ![t] = count]
    /\ refs' = refs + 1
    /\ UNCHANGED process

CheckOld(t) ==
    /\ process = "running" /\ old[t] # Unread
    /\ process' = IF TooMany(old[t]) THEN "aborted" ELSE "running"
    /\ old' = [old EXCEPT ![t] = Unread]
    /\ UNCHANGED <<count, refs>>

(* release: the handle that t drops is neither one that is being made nor  *)
(* the one it is made from, which is borrowed.                             *)
FetchSub(t) ==
    /\ process = "running" /\ old[t] = Unread
    /\ refs > Cardinality(Adding) + IF Adding = {} THEN 0 ELSE 1
    /\ count' = Wrap(count + 2 * IsizeMax + 1)
    /\ refs' = refs - 1
    /\ process' = IF count = 1 THEN "freed" ELSE "running"
    /\ UNCHANGED old

LimitNext == \E t \in Adder : FetchAdd(t) \/ CheckOld(t) \/ FetchSub(t)

LimitSpec == LimitInit /\ [][LimitNext]_limitVars

-----------------------------------------------------------------------------
(* shared::release frees the block when the old count is 1: however many   *)
(* handles are leaked, and however many threads have added before one of   *)
(* them aborts, no handle is left when that happens.                       *)
FreedWithoutReferences == process = "freed" => refs = 0

(* Threads that will abort as soon as they look.                           *)
Doomed == {t \in Adder : old[t] # Unread /\ TooMany(old[t])}

(* The count is the number of references: it runs past isize::MAX by no    *)
(* more than the threads that are about to abort, one each.                *)
LimitInv ==
    /\ LimitTypeOK
    /\ count = refs
    /\ process = "running" => refs <= IsizeMax + 1 + Cardinality(Doomed)
    /\ FreedWithoutReferences
=============================================================================
