------------------------------ MODULE MCCursors ------------------------------
(***************************************************************************)
(* BufReader and Transfer on small cursors.  The two share nothing but the *)
(* operators of Cursors: a behaviour is one of the two, the other being    *)
(* left in one of its initial states.                                      *)
(***************************************************************************)
EXTENDS BufReader, Transfer

VARIABLE program

allVars == <<program, readVars, moveVars>>

Pairs(L, R) == {Chained(a, b) : a \in L, b \in R}
Taken(L, limits) == {TakeOf(c, n) : c \in L, n \in limits}

\* The three leaves hold different bytes, so that an order or an omission shows.
As == {Slice(<<>>), Slice(<<1>>), Slice(<<1, 2>>)}
Bs == {Slice(<<>>), Slice(<<3>>), Slice(<<3, 4>>)}
Cs == {Slice(<<>>), Slice(<<5, 6>>)}

\* every way of composing chains and takes up to three levels, with one leaf in three places
MCSources ==
    Pairs(Pairs(As, Bs), Cs) \cup Pairs(As, Pairs(Bs, Cs))
      \cup Taken(Pairs(As, Pairs(Bs, Cs)), 0..7)
      \cup Pairs(Taken(Pairs(As, Bs), 0..3), Cs)
      \cup Pairs(As, Taken(Pairs(Bs, Cs), 0..3))
      \cup Taken(Pairs(Taken(As, {1, 3}), Bs), {2, 3})

MCInputs ==
    {Slice(<<>>), Slice(<<1, 2, 3>>), Slice(<<1, 2, 3, 4>>)}
      \cup Pairs(As, Bs)
      \cup Taken({Chained(Slice(<<1, 2>>), Slice(<<3, 4>>))}, 1..3)

Leaves == {Fixed(0), Fixed(1), Fixed(2), Vector(0), Vector(1)}
MCDestinations ==
    Leaves \cup {Halves(a, b) : a, b \in Leaves}
           \cup {Halves(Halves(Fixed(1), b), c) : b \in Leaves, c \in {Fixed(2), Vector(0)}}

Nothing == Pairs(Pairs({Slice(<<>>)}, {Slice(<<>>)}), {Slice(<<>>)})

Init ==
    /\ program \in {"reader", "mover"}
    /\ ReadInit /\ (program # "reader" => src \in Nothing)
    /\ MoveInit /\ (program # "mover" => source = Slice(<<>>) /\ dst = Fixed(0))

ReaderStep == program = "reader" /\ ReadNext /\ UNCHANGED <<program, moveVars>>
MoverStep == program = "mover" /\ MoveNext /\ UNCHANGED <<program, readVars>>

\* each iteration of a loop, once it can run, runs
Fairness ==
    /\ WF_allVars(ReaderStep /\ CopyChunk)
    /\ WF_allVars(MoverStep /\ PutChunk)
    /\ WF_allVars(MoverStep /\ PutEnd)

Spec == Init /\ [][ReaderStep \/ MoverStep]_allVars /\ Fairness
=============================================================================
