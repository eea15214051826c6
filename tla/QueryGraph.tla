----------------------------- MODULE QueryGraph -----------------------------
(***************************************************************************)
(* The join graph every entry point of the engine takes (plan.hpp), the    *)
(* attribute classes its equalities induce, the acyclicity test, the       *)
(* columns a query can be sliced on, and the flat join that the engine's   *)
(* answers are compared with.                                              *)
(*                                                                         *)
(* A graph is a record: types[r][c] is the value type of column c of       *)
(* relation r, predicates a sequence of equalities.  Relations, columns    *)
(* and attributes are numbered from 1, attributes in relation order, so    *)
(* "the lowest attribute first" means what it means in the code.           *)
(***************************************************************************)
EXTENDS Integers, Sequences, FiniteSets, SequencesExt, FiniteSetsExt

Relations(graph) == DOMAIN graph.types
Columns(graph, relation) == DOMAIN graph.types[relation]

\* The attribute a relation's column is known by: the columns before it.
AttributeBase(graph, relation) ==
    MapThenSumSet(LAMBDA r : Len(graph.types[r]), 1 .. relation - 1)
AttributeOf(graph, relation, column) == AttributeBase(graph, relation) + column

AttributesOf(graph, relation) ==
    {AttributeOf(graph, relation, c) : c \in Columns(graph, relation)}
TotalAttributes(graph) == AttributeBase(graph, Len(graph.types) + 1)

\* Every column of the query as a pair, in attribute order.
ColumnList(graph) ==
    FlattenSeq([r \in Relations(graph) |-> [c \in Columns(graph, r) |-> <<r, c>>]])

TypeOfAttribute(graph, attribute) ==
    LET at == ColumnList(graph)[attribute] IN graph.types[at[1]][at[2]]

LeftOf(graph, p) == AttributeOf(graph, p.left, p.lcol)
RightOf(graph, p) == AttributeOf(graph, p.right, p.rcol)

(***************************************************************************)
(* Equivalence classes: classes[a] is the root Find(a) returns.  Path      *)
(* halving only shortens chains, so a union is "everything under the left  *)
(* root moves under the right root".                                       *)
(***************************************************************************)
NothingEnforced(graph) == [a \in 1 .. TotalAttributes(graph) |-> a]

Enforce(graph, classes, p) ==
    LET from == classes[LeftOf(graph, p)]
        to == classes[RightOf(graph, p)]
    IN  [a \in DOMAIN classes |-> IF classes[a] = from THEN to ELSE classes[a]]

EnforceAll(graph, classes, edges) ==
    FoldLeft(LAMBDA cls, p : Enforce(graph, cls, p), classes, edges)

\* EquivalenceClasses(graph): the closure over every predicate of the query.
FullClasses(graph) == EnforceAll(graph, NothingEnforced(graph), graph.predicates)

(***************************************************************************)
(* IsAcyclic: the GYO reduction over one hyperedge of classes per relation *)
(* that has a predicate.  A round drops the classes that occur once and    *)
(* then one hyperedge contained in another.                                *)
(***************************************************************************)
HyperEdges(graph) ==
    LET cls == FullClasses(graph)
        Touched(r) == {cls[LeftOf(graph, p)] : p \in {q \in ToSet(graph.predicates) : q.left = r}}
                \cup {cls[RightOf(graph, p)] : p \in {q \in ToSet(graph.predicates) : q.right = r}}
    IN  SelectSeq([r \in Relations(graph) |-> Touched(r)], LAMBDA e : e # {})

DropLonely(live) ==
    LET Occurs(v) == Quantify(DOMAIN live, LAMBDA i : v \in live[i])
    IN  SelectSeq([i \in DOMAIN live |-> {v \in live[i] : Occurs(v) # 1}],
                  LAMBDA e : e # {})

DropContained(live) ==
    LET Contained(i) == \E j \in DOMAIN live \ {i} : live[i] \subseteq live[j]
        contained == {i \in DOMAIN live : Contained(i)}
    IN  IF contained = {} THEN live ELSE RemoveAt(live, Min(contained))

\* Every round but the last two leaves out a contained hyperedge, so there
\* are no more rounds than these before nothing changes any more.
Reduced(live) ==
    LET round[n \in Nat] == IF n = 0 THEN live ELSE DropContained(DropLonely(round[n - 1]))
    IN  round[Len(live) + 2]

IsAcyclic(graph) == Reduced(HyperEdges(graph)) = <<>>

(***************************************************************************)
(* Slicing.  A class that reaches more than one relation can partition the *)
(* query: SliceColumns gives, per relation, its first column in the class, *)
(* or 0 when the relation does not carry it and stays whole.               *)
(***************************************************************************)
SliceColumnsOrLast(graph, root) ==    \* mutant
    LET cls == FullClasses(graph)
        Carried(r) == {c \in Columns(graph, r) : cls[AttributeOf(graph, r, c)] = root}
    IN  [r \in Relations(graph) |-> Min(Carried(r) \cup {Len(graph.types[r])})]

SliceColumns(graph, root) ==
    LET cls == FullClasses(graph)
        Carried(r) == {c \in Columns(graph, r) : cls[AttributeOf(graph, r, c)] = root}
    IN  [r \in Relations(graph) |-> IF Carried(r) = {} THEN 0 ELSE Min(Carried(r))]

\* How many relations carry a class.
Reach(graph) ==
    [root \in ToSet(FullClasses(graph)) |->
        Quantify(Relations(graph), LAMBDA r : SliceColumns(graph, root)[r] # 0)]

\* RankSliceColumns: larger reach first, then the lower root.
RankedRoots(reach) ==
    LET Before(a, b) == reach[a] > reach[b] \/ (reach[a] = reach[b] /\ a < b)
    IN  SetToSortSeq({root \in DOMAIN reach : reach[root] > 1}, Before)
RankSliceColumns(graph) ==
    LET ColumnsOf(roots) == [i \in DOMAIN roots |-> SliceColumns(graph, roots[i])]
    IN  ColumnsOf(RankedRoots(Reach(graph)))

\* ChooseSliceColumns: a class covering the plan's first relation beats one
\* that does not; among equals the same order.  Empty when none reaches two.
BestCovering(ranked, base) ==
    LET covering == SelectSeq(ranked, LAMBDA columns : columns[base] # 0)
    IN  IF ranked = <<>> THEN <<>>
        ELSE IF covering # <<>> THEN Head(covering) ELSE Head(ranked)
ChooseSliceColumns(graph, base) == BestCovering(RankSliceColumns(graph), base)

\* SlicedSource: the rows whose key hashes into the slice.  A relation that
\* does not carry the key is handed over whole.
Sliced(rows, column, hash, slice, slices) ==
    FoldLeft(LAMBDA held, row :
                IF hash[row[column]] % slices = slice THEN Append(held, row) ELSE held,
             <<>>, rows)

SlicedTables(tables, columns, hash, slice, slices) ==
    [r \in DOMAIN tables |->
        IF columns[r] = 0 THEN tables[r] ELSE Sliced(tables[r], columns[r], hash, slice, slices)]

(***************************************************************************)
(* The flat join: every choice of one row per relation that satisfies all  *)
(* predicates on the values themselves.                                    *)
(***************************************************************************)
FlatJoinOver(graph, tables, relations, predicates) ==
    LET rows == UNION {DOMAIN tables[r] : r \in relations}
        Holds(t, p) == tables[p.left][t[p.left]][p.lcol] = tables[p.right][t[p.right]][p.rcol]
    IN  {t \in [relations -> rows] :
            /\ \A r \in relations : t[r] \in DOMAIN tables[r]
            /\ \A p \in predicates : Holds(t, p)}

FlatJoin(graph, tables) ==
    FlatJoinOver(graph, tables, Relations(graph), ToSet(graph.predicates))

\* The values of one flat tuple over some of the relations, by attribute.
FlatTuple(graph, tables, t) ==
    LET columns == ColumnList(graph)
        Value(relation, column) == tables[relation][t[relation]][column]
    IN  [a \in UNION {AttributesOf(graph, r) : r \in DOMAIN t} |->
            Value(columns[a][1], columns[a][2])]
=============================================================================
