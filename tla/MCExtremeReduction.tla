------------------------- MODULE MCExtremeReduction -------------------------
(* The reduction of paths and stars from either end, and the graphs it     *)
(* refuses, with one worker, two and four.                                 *)
EXTENDS ExtremeReduction

Eq(left, lcol, right, rcol) == [left |-> left, lcol |-> lcol, right |-> right, rcol |-> rcol]
QGraph(arities, predicates) ==
    [types |-> [r \in DOMAIN arities |-> [c \in 1 .. arities[r] |-> "INT64"]],
     predicates |-> predicates]

Path  == QGraph(<<1, 2, 2>>, <<Eq(1, 1, 2, 1), Eq(2, 2, 3, 1)>>)
Star  == QGraph(<<1, 2, 1>>, <<Eq(1, 1, 2, 1), Eq(3, 1, 2, 2)>>)
Alone == QGraph(<<2>>, <<>>)
Triangle == QGraph(<<2, 2, 2>>, <<Eq(1, 1, 2, 1), Eq(2, 2, 3, 1), Eq(3, 2, 1, 2)>>)
Doubled == QGraph(<<2, 2, 1>>, <<Eq(1, 1, 2, 1), Eq(1, 2, 2, 2)>>)
Islands == QGraph([r \in 1 .. 4 |-> 2], <<Eq(1, 1, 2, 1), Eq(2, 2, 3, 1), Eq(3, 2, 1, 2)>>)
AllGraphs == {Path, Star, Alone, Triangle, Doubled, Islands}

Least == -8

\* Three keys that share a slot, so that the first table must grow, and the
\* one a slot cannot hold.
One == {<<>>, <<<<1>>>>, <<<<1>>, <<3>>, <<5>>, <<Least>>>>}
Two == {<<<<1, 3>>>>, <<<<3, Least>>, <<1, 1>>, <<5, 3>>>>, <<<<2, 5>>, <<Least, 2>>, <<5, 5>>, <<1, 7>>>>}
MenuOf(g, r) == IF Len(g.types[r]) = 1 THEN One ELSE Two
TablesFor(g) ==
    IF ReducibleByExtremeReduction(g) /\ g # Doubled /\ g # Islands
    THEN {t \in [Relations(g) -> One \cup Two] : \A r \in Relations(g) : t[r] \in MenuOf(g, r)}
    ELSE {[r \in Relations(g) |-> <<>>]}

AsksFor(g) ==
    {[relation |-> r, column |-> 1, min |-> m, threads |-> n] :
        r \in Relations(g), m \in BOOLEAN, n \in {1, 3, 4}}
    \cup {[relation |-> 1, column |-> 3, min |-> TRUE, threads |-> 1],
          [relation |-> 9, column |-> 1, min |-> TRUE, threads |-> 1]}

Keys == {Least, 1, 2, 3, 5, 7}
ShardBits == [v \in Keys |-> IF v < 5 THEN 0 ELSE 1]
SlotBits == [v \in Keys |-> IF v = 5 THEN 15 ELSE 7]
=============================================================================
