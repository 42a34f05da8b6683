----------------------------- MODULE Combinators -----------------------------
(***************************************************************************)
(* The futures of the crate that are made of other futures: Map, Then,     *)
(* Either and EitherMap, nested in any way, polled by one task.            *)
(*                                                                         *)
(* What they are made of in the end are leaves, futures of the user: a     *)
(* leaf that is not ready keeps the waker of the task that polled it, and  *)
(* wakes that task when it gets ready.  A task that is parked is not       *)
(* polled again before somebody wakes it, so a combinator may only answer  *)
(* Pending when a leaf it has just polled has answered Pending.            *)
(*                                                                         *)
(* A poll is one step: it asks no leaf twice, so a leaf that gets ready    *)
(* while it runs might as well have got ready before or after it.          *)
(***************************************************************************)
EXTENDS Naturals, Sequences, SequencesExt

CONSTANTS
    Leaf,           \* the leaf futures
    Closure,        \* the closures of the user
    FutureDepth,    \* how deeply combinators are nested at most
    Programs        \* the combinations to run, each leaf at most once in each

VARIABLES
    program,        \* what the user has built
    future,         \* what has become of it
    ready,          \* the leaves that have their output
    waker,          \* the leaves that hold the waker of the task
    task,           \* "runnable", "waiting", "done" or "panicked"
    calls,          \* the closures called so far, each with its argument
    spent,          \* leaves that have answered Ready
    repolled,       \* leaves that were polled after that
    output          \* what the task was answered

futureVars ==
    <<program, future, ready, waker, task, calls, spent, repolled, output>>

-----------------------------------------------------------------------------
(* Futures.  `map` is the Option<M> of Map and Then.                       *)

LeafOf(i) == [tag |-> "leaf", id |-> i]
MapOf(f, m) == [tag |-> "map", f |-> f, map |-> <<m>>]
ThenOf(f, m, g) == [tag |-> "then", phase |-> "F1", f |-> f, map |-> <<m>>, made |-> g]
EitherOf(side, f) == [tag |-> "either", side |-> side, f |-> f]
EitherMapOf(side, f) == [tag |-> "eitherMap", side |-> side, f |-> f]

(* The futures with up to d combinators around a leaf, at any moment: a     *)
(* Then in its first phase polls itself in its second, and counts twice.   *)
(* `made` is the future that the closure of a Then makes.                  *)
SecondPhase(f) == [tag |-> "then", phase |-> "F2", f |-> f.made, map |-> <<>>, made |-> f.made]
Option == {<<m>> : m \in Closure} \cup {<<>>}
LeafFutures == [tag : {"leaf"}, id : Leaf]
MapFutures(L) == [tag : {"map"}, f : L, map : Option]
EitherFutures(L) == [tag : {"either", "eitherMap"}, side : {"Left", "Right"}, f : L]
ThenFutures(L) ==
    {f \in [tag : {"then"}, phase : {"F1", "F2"}, f : L, map : Option, made : L] :
        f.phase = "F1" => SecondPhase(f) \in L}
FutureUpTo[d \in 0..FutureDepth] ==
    LeafFutures \cup
    IF d = 0 THEN {}
    ELSE MapFutures(FutureUpTo[d - 1]) \cup EitherFutures(FutureUpTo[d - 1])
         \cup ThenFutures(FutureUpTo[d - 1])
Future == FutureUpTo[FutureDepth]

(* The leaves that may still be polled.                                    *)
Leaves[f \in Future] ==
    IF f.tag = "leaf" THEN {f.id}
    ELSE IF f.tag = "then" /\ f.phase = "F1" THEN Leaves[f.f] \cup Leaves[f.made]
    ELSE Leaves[f.f]

(* A future that has not answered Ready yet, and moves the futures of the  *)
(* user it was given: each is in one place, and the closures that are      *)
(* still to be called are there.                                           *)
Unfinished[f \in Future] ==
    IF f.tag = "leaf" THEN TRUE
    ELSE /\ Unfinished[f.f]
         /\ f.tag = "map" => f.map # <<>>
         /\ f.tag = "then" /\ f.phase = "F1" =>
              f.map # <<>> /\ Unfinished[f.made] /\ Leaves[f.f] \cap Leaves[f.made] = {}

ASSUME ProgramsAssumption ==
    /\ FutureDepth \in Nat
    /\ Programs \subseteq {f \in Future : Unfinished[f]}

(* Values: the output of a leaf, of a closure, and of an EitherMap.        *)
Output(i) == <<"output", i>>
Applied(m, v) == <<"applied", m, v>>
Tagged(side, v) == <<side, v>>

(* What a poll does: the future afterwards, the leaves it polled, the      *)
(* closures it called, and its answer, Pending, Ready or a panic.          *)
Answer(f, polled, called, poll, v) ==
    [fut |-> f, polled |-> polled, called |-> called, poll |-> poll, out |-> v]

PollLeaf(f) ==
    IF f.id \in ready
    THEN Answer(f, <<f.id>>, <<>>, "Ready", Output(f.id))
    ELSE Answer(f, <<f.id>>, <<>>, "Pending", <<>>)

(* a is the answer of the inner future: put it back into f, and go on if   *)
(* it was Ready.                                                           *)
Inside(f, a) == [a EXCEPT !.fut = [f EXCEPT !.f = a.fut]]

Panics(a) == [a EXCEPT !.poll = "panic", !.out = <<>>]

(* map.take().expect("poll after complete")(ok)                            *)
MapReady(f, a) ==
    IF f.map = <<>> THEN Panics(Inside(f, a))
    ELSE Answer([f EXCEPT !.f = a.fut, !.map = <<>>], a.polled,
                Append(a.called, <<f.map[1], a.out>>), "Ready",
                Applied(f.map[1], a.out))

(* FAULT: the closure is taken but the phase stays.                      *)
ThenReady_SamePhase(f, a) ==
    IF f.map = <<>> THEN Panics(Inside(f, a))
    ELSE Answer([f EXCEPT !.f = a.fut, !.map = <<>>], a.polled,
                Append(a.called, <<f.map[1], a.out>>), "Pending", <<>>)

(* The closure makes the second future: the phase changes.                 *)
ThenReady(f, a) ==
    IF f.map = <<>> THEN Panics(Inside(f, a))
    ELSE Answer(SecondPhase(f), a.polled,
                Append(a.called, <<f.map[1], a.out>>), "Pending", <<>>)

(* FAULT: Then returns Pending after it has made the second future.      *)
ThenAgain_Later(a, b) == a

(* self.poll(cx): the second future is polled at once; a is what has       *)
(* happened before, b the second poll.                                     *)
ThenAgain(a, b) ==
    Answer(b.fut, a.polled \o b.polled, a.called \o b.called, b.poll, b.out)

(* Phase::F1 of Then; a is the answer of its first future.                 *)
ThenFirst(f, a, poll) ==
    LET r == ThenReady(f, a)
    IN  IF a.poll # "Ready" THEN Inside(f, a)
        ELSE IF r.poll = "panic" THEN r
        ELSE ThenAgain(r, poll[r.fut])

(* FAULT: the closure is taken before the inner future is polled, and is   *)
(* gone when that is pending.                                              *)
MapAnswer_TakenEarly(f, a) ==
    IF a.poll = "Ready" THEN MapReady(f, a) ELSE Inside([f EXCEPT !.map = <<>>], a)

MapAnswer(f, a) == IF a.poll = "Ready" THEN MapReady(f, a) ELSE Inside(f, a)
EitherMapAnswer(f, a) ==
    IF a.poll = "Ready" THEN [Inside(f, a) EXCEPT !.out = Tagged(f.side, @)] ELSE Inside(f, a)

Poll[f \in Future] ==
    IF f.tag = "leaf" THEN PollLeaf(f)
    ELSE IF f.tag = "map" THEN MapAnswer(f, Poll[f.f])
    ELSE IF f.tag = "eitherMap" THEN EitherMapAnswer(f, Poll[f.f])
    ELSE IF f.tag = "then" /\ f.phase = "F1" THEN ThenFirst(f, Poll[f.f], Poll)
    ELSE Inside(f, Poll[f.f])

-----------------------------------------------------------------------------
(* The task, and the leaves.                                               *)

FutureInit ==
    /\ program \in Programs /\ future = program
    /\ ready \in SUBSET Leaf
    /\ waker = {} /\ task = "runnable"
    /\ calls = <<>> /\ spent = {} /\ repolled = {} /\ output = <<>>

PollTask ==
    /\ task = "runnable"
    /\ \E a \in {Poll[future]} : LET asked == Range(a.polled) IN
        /\ future' = a.fut
        /\ calls' = calls \o a.called
        /\ waker' = waker \cup (asked \ ready)
        /\ repolled' = repolled \cup (asked \cap spent)
        /\ spent' = spent \cup (asked \cap ready)
        /\ task' = CASE a.poll = "Ready" -> "done"
                     [] a.poll = "Pending" -> "waiting"
                     [] a.poll = "panic" -> "panicked"
        /\ output' = a.out
    /\ UNCHANGED <<program, ready>>

(* A leaf gets its output, and wakes the task if it holds its waker.       *)
GetsReady(i) ==
    /\ i \notin ready
    /\ ready' = ready \cup {i}
    /\ waker' = waker \ {i}
    /\ task' = IF i \in waker /\ task = "waiting" THEN "runnable" ELSE task
    /\ UNCHANGED <<program, future, calls, spent, repolled, output>>

(* The executor may poll a task although nobody has woken it.              *)
SpuriousWake ==
    /\ task = "waiting"
    /\ task' = "runnable"
    /\ UNCHANGED <<program, future, ready, waker, calls, spent, repolled, output>>

FutureNext == PollTask \/ SpuriousWake \/ \E i \in Leaf : GetsReady(i)

(* A task that was woken is polled, and every leaf gets ready some day.    *)
FutureFairness ==
    /\ WF_futureVars(PollTask)
    /\ \A i \in Leaf : WF_futureVars(GetsReady(i))

FutureSpec == FutureInit /\ [][FutureNext]_futureVars /\ FutureFairness

-----------------------------------------------------------------------------
(* What a combination stands for, at any moment: the value it has in the   *)
(* end, and the closures that are called on the way.  A closure that has   *)
(* been taken is not called.                                               *)

Meant(v, called) == [value |-> v, called |-> called]
MapMeant(f, m) ==
    IF f.map = <<>> THEN m
    ELSE Meant(Applied(f.map[1], m.value), Append(m.called, <<f.map[1], m.value>>))
ThenMeant(f, m, n) ==
    IF f.map = <<>> THEN m
    ELSE Meant(n.value, Append(m.called, <<f.map[1], m.value>>) \o n.called)
Meaning[f \in Future] ==
    IF f.tag = "leaf" THEN Meant(Output(f.id), <<>>)
    ELSE IF f.tag = "map" THEN MapMeant(f, Meaning[f.f])
    ELSE IF f.tag = "eitherMap"
         THEN Meant(Tagged(f.side, Meaning[f.f].value), Meaning[f.f].called)
    ELSE IF f.tag = "then" /\ f.phase = "F1" THEN ThenMeant(f, Meaning[f.f], Meaning[f.made])
    ELSE Meaning[f.f]

(* map.rs:51, then.rs:65.  However often the task is polled and in         *)
(* whatever order the leaves get ready: whenever a poll has answered       *)
(* Pending, the closures called so far and those the futures still hold    *)
(* make up what was built, so none is lost, called twice or called out of  *)
(* its turn or with another argument, and the value to come is still the   *)
(* one that was built; in the end the task is answered that value.         *)
AnsweredAsBuilt ==
    LET built == Meaning[program]
    IN  /\ task \in {"runnable", "waiting"} =>
             /\ calls \o Meaning[future].called = built.called
             /\ Meaning[future].value = built.value
        /\ task = "done" => calls = built.called /\ output = built.value

(* A future that has answered Ready is not polled again, and expect("poll  *)
(* after complete") never fails: not even when the task is polled          *)
(* spuriously after Then has changed its phase.                            *)
PolledWithinContract == repolled = {} /\ task # "panicked"

(* Every combination comes to its end.                                     *)
FutureCompletes == <>(task = "done")
=============================================================================
