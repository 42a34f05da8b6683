----------------------------- MODULE MCWriteAll -----------------------------
EXTENDS WriteAll

Whole == Slice(<<1, 2, 3>>)
Pieces == {Chained(Slice(a), Slice(b)) : a \in {<<>>, <<1>>, <<1, 2>>}, b \in {<<>>, <<3, 4>>}}
MCSources ==
    {Slice(<<>>), Whole} \cup Pieces
      \cup {TakeOf(Chained(Slice(<<1, 2>>), Slice(<<3, 4>>)), n) : n \in 1..3}
      \cup {Chained(Slice(<<1>>), Chained(Slice(<<2>>), Slice(<<3, 4>>)))}

\* A take of more slices than it looks at, and a byte behind it.
Three == Chained(Slice(<<1>>), Chained(Slice(<<2>>), Slice(<<3>>)))
MCWideSources == {Chained(TakeOf(Three, 3), Slice(<<4>>))}
=============================================================================
