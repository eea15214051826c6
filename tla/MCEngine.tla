------------------------------ MODULE MCEngine ------------------------------
(* The engine over the join graphs that take it different ways: a chain,   *)
(* one class over three relations, a composite key, a cycle that merges    *)
(* two sibling nodes, and the graphs the planner declines.                 *)
EXTENDS Engine

Eq(left, lcol, right, rcol) == [left |-> left, lcol |-> lcol, right |-> right, rcol |-> rcol]
QGraph(types, predicates) == [types |-> types, predicates |-> predicates]
Narrow == "INT32"
Wide == "INT64"

Chain     == QGraph(<<<<Narrow>>, <<Narrow, Wide>>, <<Wide, Narrow>>>>,
                    <<Eq(1, 1, 2, 1), Eq(2, 2, 3, 1)>>)
OneClass  == QGraph(<<<<Narrow>>, <<Narrow, Wide>>, <<Narrow>>>>,
                    <<Eq(2, 1, 1, 1), Eq(1, 1, 3, 1), Eq(2, 1, 3, 1)>>)
Composite == QGraph(<<<<Narrow, Narrow>>, <<Narrow, Narrow>>, <<Narrow>>>>,
                    <<Eq(1, 1, 2, 1), Eq(2, 2, 1, 2), Eq(2, 2, 3, 1)>>)
Cycle     == QGraph(<<<<Wide, Wide>>, <<Wide, Narrow>>, <<Wide, Narrow>>, <<Narrow, Narrow>>>>,
                    <<Eq(1, 1, 2, 1), Eq(1, 2, 3, 1), Eq(2, 2, 4, 1), Eq(3, 2, 4, 2)>>)
Single    == QGraph(<<<<Wide>>>>, <<>>)

Triangle  == QGraph(<<<<Narrow, Narrow>>, <<Narrow, Narrow>>, <<Narrow, Narrow>>>>,
                    <<Eq(1, 1, 2, 1), Eq(2, 2, 3, 1), Eq(3, 2, 1, 2)>>)
TooWide   == QGraph(<<<<Wide, Wide>>, <<Wide, Wide>>>>, <<Eq(1, 1, 2, 1), Eq(1, 2, 2, 2)>>)
Apart     == QGraph(<<<<Wide>>, <<Wide>>, <<Wide>>>>, <<Eq(1, 1, 2, 1)>>)
OwnColumns == QGraph(<<<<Wide, Wide>>, <<Wide>>>>, <<Eq(1, 1, 2, 1), Eq(1, 1, 1, 2)>>)
TooMany   == QGraph([r \in 1 .. 5 |-> <<Wide>>], [r \in 1 .. 4 |-> Eq(r, 1, r + 1, 1)])

\* Every graph over three relations of two columns with up to three
\* predicates, in one order.
Equalities ==
    FlattenSeq([i \in 1 .. 3 |->
        LET l == IF i = 3 THEN 2 ELSE 1  r == IF i = 1 THEN 2 ELSE 3
        IN  <<Eq(l, 1, r, 1), Eq(l, 2, r, 2), Eq(r, 2, l, 1), Eq(r, 1, l, 2)>>])
Small == {QGraph([r \in 1 .. 3 |-> <<Narrow, Narrow>>],
                 [i \in 1 .. Cardinality(S) |-> Equalities[SetToSortSeq(S, LAMBDA a, b : a < b)[i]]]) :
             S \in UNION {kSubset(k, 1 .. 12) : k \in 1 .. 3}}

Planned  == {Chain, OneClass, Composite, Cycle, Single}
Declines == {Triangle, TooWide, Apart, OwnColumns, TooMany}

AllGraphs == Planned \cup Declines \cup Small

Bits == [t \in {Narrow, Wide} |-> IF t = Narrow THEN 2 ELSE 4]
HashOf == [v \in -8 .. 8 |-> v % 4]

One == {<<>>, <<<<1>>, <<1>>>>, <<<<-1>>, <<1>>, <<-2>>>>}
Two == {<<<<1, -2>>>>, <<<<1, 1>>, <<1, -2>>, <<1, -2>>>>, <<<<-2, 1>>, <<-1, -1>>, <<1, -1>>>>}

\* A wide column holds a value a narrow one cannot.
Widened(rows, types) ==
    [i \in DOMAIN rows |-> [c \in DOMAIN types |->
        IF types[c] = Wide /\ rows[i][c] = -2 THEN -7 ELSE rows[i][c]]]

MenuOf(types) == IF Len(types) = 1 THEN One ELSE Two

\* Every choice of rows per relation; the last two of four are given the same.
Picks(g) == {p \in [Relations(g) -> One \cup Two] :
                /\ \A r \in Relations(g) : p[r] \in MenuOf(g.types[r])
                /\ Len(g.types) = 4 => p[3] = p[4]}

TablesFor(g) ==
    IF g \in Small THEN
        {<<<<<<1, 1>>, <<1, -2>>>>, <<<<1, -2>>, <<1, 1>>, <<-2, 1>>>>, <<<<-2, 1>>, <<1, 1>>, <<1, 1>>>>>>}
    ELSE IF g \in Declines THEN {[r \in Relations(g) |-> <<>>]}
    ELSE {[r \in Relations(g) |-> Widened(p[r], g.types[r])] : p \in Picks(g)}

Modes == {"TOP_INSERT", "BOTTOM_INSERT"}
Strategies == {"LEVELWISE", "NAIVE"}

QuestionsFor(g) ==
    LET n == TotalAttributes(g)
        counts == [kind : {"count"}, mode : Modes, strategy : Strategies]
    IN  IF g \in Small THEN counts ELSE counts \cup [kind : {"list"}, mode : Modes, strategy : Strategies, limit : {0, 2}]
        \cup [kind : {"sum"}, mode : {"BOTTOM_INSERT"}, strategy : {"LEVELWISE"}, x : {1, n}]
        \cup [kind : {"product"}, mode : {"BOTTOM_INSERT"}, strategy : {"LEVELWISE"}, x : {1}, y : {1, n}]
        \cup [kind : {"outer"}, mode : Modes, strategy : {"LEVELWISE"}, join : {"PRODUCT", "SEMI", "ANTI"},
              upper : {TRUE}, lower : {FALSE}]
        \cup [kind : {"outer"}, mode : {"TOP_INSERT"}, strategy : {"NAIVE"}, join : {"PRODUCT", "SEMI", "ANTI"},
              upper : {FALSE}, lower : {TRUE}]
        \cup [kind : {"sliced", "second key"}, mode : {"TOP_INSERT"}, strategy : {"LEVELWISE"}, slices : {2}]
        \cup (IF Len(g.types) = 1 THEN {} ELSE
              [kind : {"not equal"}, mode : {"BOTTOM_INSERT"}, strategy : {"LEVELWISE"},
               differ : {Eq(1, 1, Len(g.types), 1)}])

Finer == <<2, 4>>
=============================================================================
