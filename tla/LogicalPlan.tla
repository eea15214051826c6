---------------------------- MODULE LogicalPlan ----------------------------
(***************************************************************************)
(* The logical plans the optimizer rule reads, as DuckDB hands them over,  *)
(* and what DuckDB itself answers for them (external: the rule has to      *)
(* agree with it).  A plan is a record with an op and its children; a row  *)
(* is a function from bindings <<table index, position>> to values; and a  *)
(* plan has a set of answers, for SQL does not say which rows LIMIT keeps. *)
(*                                                                         *)
(* An operator with a restriction other than "none" is one whose meaning   *)
(* is not modelled (a LEFT or a delim join, a sample, grouping sets).  It  *)
(* has no answer at all, so replacing it is wrong whatever comes out.      *)
(***************************************************************************)
EXTENDS Integers, Sequences, FiniteSets, SequencesExt, FiniteSetsExt, Bags

CONSTANT Null           \* SQL's NULL

InSomeOrder(S) == FoldSet(LAMBDA x, sequence : Append(sequence, x), <<>>, S)

\* Aggregates over a sequence of values, NULL when there is none.
TotalOf(values) == IF values = <<>> THEN Null ELSE FoldLeft(LAMBDA a, b : a + b, 0, values)
AverageOf(values) == IF values = <<>> THEN Null ELSE <<TotalOf(values), Len(values)>>
LeastOf(values) == IF values = <<>> THEN Null ELSE Min(ToSet(values))
GreatestOf(values) == IF values = <<>> THEN Null ELSE Max(ToSet(values))

(***************************************************************************)
(* Expressions.  A narrowing cast loses the value, compression shifts it,  *)
(* any other function changes it.                                          *)
(***************************************************************************)
IsColumn(e) == e.kind = "COLUMN"
IsCast(e) == e.kind = "CAST"
ArgumentOf(args) == CHOOSE i \in DOMAIN args : IsColumn(args[i])

RECURSIVE Eval(_, _)
Eval(e, row) ==
    LET child == Eval(e.args[1], row)
    IN  CASE e.kind = "COLUMN" -> row[e.binding]
          [] e.kind = "CONSTANT" -> e.value
          [] e.kind = "MULTIPLY" ->
                LET other == Eval(e.args[2], row)
                IN  IF Null \in {child, other} THEN Null ELSE child * other
          [] e.kind = "COMPRESS" -> LET v == Eval(e.args[ArgumentOf(e.args)], row)
                                    IN  IF v = Null THEN Null ELSE v + 1
          [] child = Null -> Null
          [] IsCast(e) -> IF e.lossy THEN child % 2 ELSE child
          [] OTHER -> child + 1

Compares(cmp, l, r) ==
    /\ Null \notin {l, r}
    /\ CASE cmp = "=" -> l = r
         [] cmp = "<>" -> l # r
         [] cmp = "<" -> l < r
         [] cmp = "<=" -> l <= r
         [] cmp = ">" -> l > r
         [] cmp = ">=" -> l >= r

\* Whether a filter keeps a row: its predicate is TRUE, not NULL.
RECURSIVE Keeps(_, _)
Keeps(p, row) ==
    CASE p.kind = "COMPARE" -> Compares(p.cmp, Eval(p.left, row), Eval(p.right, row))
      [] p.kind = "BETWEEN" -> /\ Compares(p.lower, Eval(p.input, row), p.low)
                               /\ Compares(p.upper, Eval(p.input, row), p.high)
      [] p.kind = "AND" -> \A i \in DOMAIN p.args : Keeps(p.args[i], row)
      [] p.kind = "OR" -> \E i \in DOMAIN p.args : Keeps(p.args[i], row)
      [] p.kind = "IS NULL" -> Eval(p.input, row) = Null
      [] p.kind = "IS NOT NULL" -> Eval(p.input, row) # Null

\* A table filter: a test of one column, as the storage scan applies it.
Passes(f, v) ==
    CASE f.cmp = "IS NULL" -> v = Null
      [] f.cmp = "IS NOT NULL" -> v # Null
      [] OTHER -> Compares(f.cmp, v, f.value)

\* Committed rows, then those of the running transaction.
RowsOf(table) == table.committed \o table.uncommitted

ScanRows(table, get) ==
    LET produced == [i \in DOMAIN RowsOf(table) |->
            [b \in {<<get.index, c>> : c \in DOMAIN get.ids} |->
                IF get.ids[b[2]] = 0 THEN i ELSE RowsOf(table)[i][get.ids[b[2]]]]]
    IN  SelectSeq(produced, LAMBDA row :
            \A i \in DOMAIN get.filters : Passes(get.filters[i], row[<<get.index, get.filters[i].at>>]))

(***************************************************************************)
(* One aggregate over the rows of a group.  One the rule has no name for   *)
(* is whatever its values are.                                             *)
(***************************************************************************)
AggregateOf(agg, rows) ==
    LET all == IF agg.args = <<>> THEN <<>> ELSE [i \in DOMAIN rows |-> Eval(agg.args[1], rows[i])]
        known == SelectSeq(all, LAMBDA v : v # Null)
        values == IF agg.distinct THEN InSomeOrder(ToSet(known)) ELSE known
    IN  CASE agg.args = <<>> -> Len(rows)
          [] agg.name = "count" -> Len(values)
          [] agg.name = "sum" -> TotalOf(values)
          [] agg.name = "avg" -> AverageOf(values)
          [] agg.name \in {"min", "bool_and"} -> LeastOf(values)
          [] agg.name \in {"max", "bool_or"} -> GreatestOf(values)
          [] OTHER -> values

\* The row an aggregate answers for one group: the keys under one table
\* index, the aggregates under the other.
GroupRow(groupIndex, keys, aggIndex, values) ==
    [b \in {<<groupIndex, i>> : i \in DOMAIN keys} \cup {<<aggIndex, i>> : i \in DOMAIN values} |->
        IF b[1] = groupIndex THEN keys[b[2]] ELSE values[b[2]]]

\* A group per key that occurs; without keys one group, be it empty.
AggregateRows(node, rows) ==
    LET KeyOf(row) == [g \in DOMAIN node.groups |-> Eval(node.groups[g], row)]
        keys == IF node.groups = <<>> THEN {<<>>} ELSE {KeyOf(rows[i]) : i \in DOMAIN rows}
        Members(key) == SelectSeq(rows, LAMBDA row : KeyOf(row) = key)
    IN  {GroupRow(node.groupIndex, key, node.aggIndex,
                  [a \in DOMAIN node.aggs |-> AggregateOf(node.aggs[a], Members(key))]) : key \in keys}

JoinRows(node, left, right) ==
    LET pairs == FlattenSeq([i \in DOMAIN left |-> [j \in DOMAIN right |-> left[i] @@ right[j]]])
    IN  SelectSeq(pairs, LAMBDA row : \A c \in DOMAIN node.conds :
            Compares(node.conds[c].cmp, Eval(node.conds[c].left, row), Eval(node.conds[c].right, row)))

LimitedRows(node, rows) ==
    LET wanted == Max({0, Min({node.limit, Len(rows) - node.offset})})
    IN  {[i \in 1 .. wanted |-> rows[SetToSortSeq(S, <)[i]]] : S \in kSubset(wanted, DOMAIN rows)}

(***************************************************************************)
(* Every answer SQL permits for a plan, as sequences of rows.  ROWS is an  *)
(* operator that has run.                                                  *)
(***************************************************************************)
RECURSIVE Answers(_, _)
Answers(tables, node) ==
    LET Below(i) == Answers(tables, node.children[i])
    IN  CASE node.restriction # "none" -> {}
          [] node.op = "ROWS" -> {node.rows}
          [] node.op = "GET" -> {ScanRows(tables[node.table], node)}
          [] node.op = "FILTER" ->
                {SelectSeq(rows, LAMBDA row : \A p \in DOMAIN node.preds : Keeps(node.preds[p], row)) :
                    rows \in Below(1)}
          [] node.op = "JOIN" -> {JoinRows(node, l, r) : l \in Below(1), r \in Below(2)}
          [] node.op = "PROJECTION" ->
                {[i \in DOMAIN rows |->
                    [b \in {<<node.index, e>> : e \in DOMAIN node.exprs} |-> Eval(node.exprs[b[2]], rows[i])]] :
                    rows \in Below(1)}
          [] node.op = "LIMIT" -> UNION {LimitedRows(node, rows) : rows \in Below(1)}
          [] node.op = "AGGREGATE" -> {InSomeOrder(AggregateRows(node, rows)) : rows \in Below(1)}

\* Rows come in no particular order.
AsBag(rows) == [row \in ToSet(rows) |-> Quantify(DOMAIN rows, LAMBDA i : rows[i] = row)]
AnswerBags(tables, node) == {AsBag(rows) : rows \in Answers(tables, node)}

\* A node of a plan is known by the children on the way to it.
RECURSIVE NodeAt(_, _)
NodeAt(node, path) == IF path = <<>> THEN node ELSE NodeAt(node.children[Head(path)], Tail(path))

RECURSIVE ReplacedAt(_, _, _)
ReplacedAt(node, path, new) ==
    IF path = <<>> THEN new
    ELSE [node EXCEPT !.children[Head(path)] = ReplacedAt(@, Tail(path), new)]

RECURSIVE PathsTo(_, _)
PathsTo(node, op) ==
    (IF node.op = op THEN {<<>>} ELSE {})
        \cup UNION {{<<i>> \o path : path \in PathsTo(node.children[i], op)} : i \in DOMAIN node.children}
=============================================================================
