--------------------------- MODULE OptimizerRule ---------------------------
(***************************************************************************)
(* The optimizer rule (optimizer_rule.cpp) and the reading of storage      *)
(* behind it (storage_source.cpp): the walk over a logical plan, matching  *)
(* an aggregate over joins, binding its columns to stored ones, carrying   *)
(* the filters over, and, when the query runs, reading the relations and   *)
(* folding their join.  One action per step of the walk, of binding, and   *)
(* of execution.                                                           *)
(*                                                                         *)
(* What the engine makes of a bound region is its graph's join, on join    *)
(* keys as it packs them; that it does is module Engine's subject.         *)
(***************************************************************************)
EXTENDS JoinPlan, LogicalPlan, WideArithmetic

CONSTANTS
    Queries,        \* the logical plans the rule is given
    Catalogs(_),    \* the tables a plan is tried over: name -> table
    MaxAggregates   \* kMaxAggregates

VARIABLES
    query, catalog, \* the plan as DuckDB made it, and the stored tables
    plan,           \* the plan as rewritten so far, then as it executes
    todo,           \* paths of the nodes still to visit, or to execute
    phase,          \* what the rule is doing with the node at Head(todo)
    region,         \* FactorizedRegion: what the matcher found there
    bound,          \* BoundRelation of each relation
    boundary,       \* join_columns: how many columns of each are join keys
    graph,          \* the query graph under construction
    folds, keys,    \* GroupAggregate and GroupKey lists
    held,           \* the relations read so far by the running operator
    threw           \* whether a scan met a NULL it must not drop

vars == <<query, catalog, plan, todo, phase, region, bound, boundary, graph, folds, keys, held, threw>>

(***************************************************************************)
(* Types.  Sizes are GetTypeIdSize, in units that keep the order.          *)
(***************************************************************************)
Integral == {"INTEGER", "BIGINT", "UBIGINT", "HUGEINT"}
SizeOf == [t \in Integral |-> CASE t = "INTEGER" -> 4 [] t = "HUGEINT" -> 16 [] OTHER -> 8]

\* TryIntegerKeyType and TrySummableType: the slot a type takes, "" for none.
IntegerKeyType(t) ==
    CASE t = "INTEGER" -> "INT32" [] t \in {"BIGINT", "UBIGINT"} -> "INT64" [] OTHER -> ""
SummableType(t) ==
    CASE t \in {"BOOLEAN", "DECIMAL(4)"} -> "INT32" [] t = "DECIMAL(18)" -> "INT64" [] OTHER -> IntegerKeyType(t)

(***************************************************************************)
(* Matching.  A region is refused, not abandoned, by what it cannot take:  *)
(* the walk goes on to collect every reason, and the verdict is ok.        *)
(***************************************************************************)
NewRegion ==
    [ok |-> TRUE, relations |-> <<>>, filters |-> <<>>, edges |-> <<>>, through |-> <<>>,
     aggIndex |-> 0, groupIndex |-> 0, groups |-> <<>>, groupTypes |-> <<>>, aggs |-> <<>>,
     limited |-> FALSE, limit |-> 0]

Require(r, condition) == [r EXCEPT !.ok = @ /\ condition]

Widens(e) ==
    /\ IsCast(e) /\ IsColumn(e.args[1]) /\ e.from \in Integral
    /\ SizeOf[e.from] <= SizeOf[e.type]

IsCompressed(e) == e.kind \in {"COMPRESS", "DECOMPRESS"}

\* TryPassThroughBinding: the one binding an expression really names, if any.
PassedThrough(e) ==
    CASE IsColumn(e) -> {e.binding}
      [] IsCast(e) -> IF Widens(e) THEN {e.args[1].binding} ELSE {}
      [] IsCompressed(e) ->
            LET named == SelectSeq(e.args, IsColumn)
            IN  IF Len(named) = 1 /\ \A i \in DOMAIN e.args : e.args[i].kind \in {"COLUMN", "CONSTANT"}
                THEN {named[1].binding} ELSE {}
      [] OTHER -> {}

\* TryPassThroughProjection: all of its outputs, or none.
IsPassThrough(node) ==
    node.op = "PROJECTION" /\ \A e \in DOMAIN node.exprs : PassedThrough(node.exprs[e]) # {}

\* What the outputs of a projection in `mapped` are called below it.
MappedThrough(r, node, mapped) ==
    [r EXCEPT !.through = [b \in {<<node.index, e>> : e \in mapped} |->
                               CHOOSE below \in PassedThrough(node.exprs[b[2]]) : TRUE] @@ @]

MatchLeaf(r, node) ==
    LET filtered == node.op = "FILTER"
        scan == IF filtered THEN node.children[1] ELSE node
    IN  IF scan.op # "GET" \/ scan.restriction # "none" THEN Require(r, FALSE)
        ELSE [r EXCEPT !.relations = Append(@, scan),
                       !.filters = Append(@, IF filtered THEN node.preds ELSE <<>>)]

MatchCondition(r, cond) ==
    IF cond.cmp = "=" /\ IsColumn(cond.left) /\ IsColumn(cond.right)
    THEN [r EXCEPT !.edges = Append(@, <<cond.left.binding, cond.right.binding>>)]
    ELSE Require(r, FALSE)

RECURSIVE MatchJoinGraph(_, _)
MatchJoinGraph(r, node) ==
    IF node.op = "JOIN" THEN
        LET here == FoldLeft(MatchCondition, Require(r, node.restriction = "none" /\ node.conds # <<>>),
                             node.conds)
        IN  MatchJoinGraph(MatchJoinGraph(here, node.children[1]), node.children[2])
    ELSE IF IsPassThrough(node)
    THEN MatchJoinGraph(MappedThrough(r, node, DOMAIN node.exprs), node.children[1])
    ELSE MatchLeaf(r, node)

RECURSIVE MatchProjections(_, _)
MatchLimit(r, node) ==
    IF node.op # "LIMIT" THEN MatchJoinGraph(r, node)
    ELSE LET fine == node.restriction = "none" /\ node.offset = 0
             here == Require(r, fine /\ ~r.limited)
         IN  MatchProjections(IF fine /\ ~r.limited THEN [here EXCEPT !.limited = TRUE, !.limit = node.limit]
                              ELSE here, node.children[1])

MatchProjections(r, node) ==
    IF node.op # "PROJECTION" THEN MatchLimit(r, node)
    ELSE LET Fine(e) == e.kind = "CONSTANT" \/ IsColumn(e) \/ Widens(e)
             mapped == {e \in DOMAIN node.exprs : IsColumn(node.exprs[e]) \/ Widens(node.exprs[e])}
             here == Require(r, \A e \in DOMAIN node.exprs : Fine(node.exprs[e]))
         IN  MatchProjections(MappedThrough(here, node, mapped), node.children[1])

(***************************************************************************)
(* One aggregate: the fold it becomes, or none.  A partial aggregate over  *)
(* serialized state is an aggregate of another name.                       *)
(***************************************************************************)
Fold(kind, bindings, agg) == [kind |-> kind, reads |-> bindings, type |-> agg.type]

\* An operand of a product, seen through a widening cast.
Operand(e) == IF IsCast(e) /\ e.from \in Integral /\ SizeOf[e.from] <= SizeOf[e.type] THEN e.args[1] ELSE e

MatchProduct(r, node, agg) ==
    LET product == agg.args[1]
        operands == [i \in 1 .. 2 |-> Operand(product.args[i])]
    IN  IF /\ product.type \in {"BIGINT", "HUGEINT"}
           /\ IsColumn(operands[1]) /\ IsColumn(operands[2])
           /\ node.groups = <<>> /\ Len(node.aggs) = 1
        THEN {Fold("SUM_PRODUCT", <<operands[1].binding, operands[2].binding>>, agg)} ELSE {}

FoldNames == [name \in {"sum", "avg", "count", "bool_and", "bool_or", "min", "max"} |->
    CASE name = "sum" -> "SUM" [] name = "avg" -> "AVG" [] name = "count" -> "COUNT"
      [] name \in {"bool_and", "min"} -> "MIN" [] OTHER -> "MAX"]

Foldable(name, type) ==
    CASE name \in {"bool_and", "bool_or"} -> type = "BOOLEAN"
      [] name \in {"min", "max"} -> type \in Integral \cup {"DECIMAL(4)", "DECIMAL(18)"}
      [] OTHER -> TRUE

MatchFold(r, node, agg) ==
    IF agg.distinct THEN {}
    ELSE IF agg.name = "count" /\ agg.args = <<>> THEN {Fold("COUNT", <<>>, agg)}
    ELSE IF agg.name \notin DOMAIN FoldNames \/ Len(agg.args) # 1 THEN {}
    ELSE IF agg.name = "sum" /\ agg.args[1].kind = "MULTIPLY" THEN MatchProduct(r, node, agg)
    ELSE IF IsColumn(agg.args[1]) /\ Foldable(agg.name, agg.args[1].type)
    THEN {Fold(FoldNames[agg.name], <<agg.args[1].binding>>, agg)} ELSE {}

MatchGroups(r, node) ==
    LET named == SelectSeq(node.groups, IsColumn)
    IN  [Require(r, named = node.groups) EXCEPT
            !.groupIndex = node.groupIndex,
            !.groups = [g \in DOMAIN named |-> named[g].binding],
            !.groupTypes = [g \in DOMAIN named |-> named[g].type]]

MatchFolds(r, node) ==
    FoldLeft(LAMBDA so_far, agg :
                 LET found == MatchFold(so_far, node, agg)
                 IN  IF found = {} THEN Require(so_far, FALSE)
                     ELSE [so_far EXCEPT !.aggs = Append(@, CHOOSE f \in found : TRUE)],
             [Require(r, node.aggs # <<>> /\ Len(node.aggs) <= MaxAggregates) EXCEPT !.aggIndex = node.aggIndex],
             node.aggs)

IsOneCount(r) == r.groups = <<>> /\ Len(r.aggs) = 1 /\ r.aggs[1].kind = "COUNT"

MatchAggregate(node) ==
    LET here == MatchFolds(MatchGroups(Require(NewRegion, node.restriction = "none"), node), node)
        below == MatchProjections(here, node.children[1])
    IN  Require(below, /\ Len(below.relations) >= 2 /\ below.edges # <<>>
                       /\ below.limited => IsOneCount(below))

(***************************************************************************)
(* Binding.                                                                *)
(***************************************************************************)
\* A binding chased through projections, at most as often as there are any.
RECURSIVE Chased(_, _, _)
Chased(through, binding, hops) ==
    IF hops = 0 \/ binding \notin DOMAIN through THEN binding
    ELSE Chased(through, through[binding], hops - 1)
BaseOf(binding) == Chased(region.through, binding, 1 + Cardinality(DOMAIN region.through))

TableOf(i) == catalog[region.relations[i].table]

\* The relation a binding is of, and the column of its stored table: none
\* when it is of no relation, a row id, or generated.
Stored(i, column) == column # 0 /\ column \notin TableOf(i).generated
Resolved(binding) ==
    {<<i, region.relations[i].ids[binding[2]]>> : i \in
        {i \in DOMAIN region.relations :
            /\ region.relations[i].index = binding[1]
            /\ binding[2] \in DOMAIN region.relations[i].ids
            /\ Stored(i, region.relations[i].ids[binding[2]])}}
TheColumn(binding) == CHOOSE at \in Resolved(binding) : TRUE

Unbound == [columns |-> <<>>, types |-> <<>>, noNull |-> {}, filterColumns |-> <<>>, filters |-> <<>>]

\* LocalIndex: the position of a stored column among those read, 0 if none.
LocalIndex(relation, column) ==
    IF column \in ToSet(relation.columns) THEN CHOOSE i \in DOMAIN relation.columns : relation.columns[i] = column
    ELSE 0

\* A column is appended, never inserted, so that positions already handed
\* out stay true.
Reading(relation, column, slot) ==
    IF LocalIndex(relation, column) # 0 THEN relation
    ELSE [relation EXCEPT !.columns = Append(@, column), !.types = Append(@, slot)]

BindRelations ==
    /\ phase = "relations"
    /\ Cardinality({region.relations[i].index : i \in DOMAIN region.relations}) = Len(region.relations)
    /\ bound' = [i \in DOMAIN region.relations |-> Unbound]
    /\ phase' = "edges"
    /\ UNCHANGED <<query, catalog, plan, todo, region, boundary, graph, folds, keys, held, threw>>

SlotOf(at) == IntegerKeyType(TableOf(at[1]).types[at[2]])
Joinable(binding) == Resolved(binding) # {} /\ SlotOf(TheColumn(binding)) # ""

\* Both sides of one equality become columns of two relations.
BindsEdge(edge) ==
    /\ Joinable(BaseOf(edge[1])) /\ Joinable(BaseOf(edge[2]))
    /\ TheColumn(BaseOf(edge[1]))[1] # TheColumn(BaseOf(edge[2]))[1]

BindEdge ==
    /\ phase = "edges" /\ region.edges # <<>> /\ BindsEdge(Head(region.edges))
    /\ LET l == TheColumn(BaseOf(Head(region.edges)[1]))
           r == TheColumn(BaseOf(Head(region.edges)[2]))
           read == [bound EXCEPT ![l[1]] = Reading(@, l[2], SlotOf(l)), ![r[1]] = Reading(@, r[2], SlotOf(r))]
       IN  /\ bound' = read
           /\ graph' = [graph EXCEPT !.predicates = Append(@,
                  [left |-> l[1], lcol |-> LocalIndex(read[l[1]], l[2]),
                   right |-> r[1], rcol |-> LocalIndex(read[r[1]], r[2])])]
    /\ region' = [region EXCEPT !.edges = Tail(@)]
    /\ UNCHANGED <<query, catalog, plan, todo, phase, boundary, folds, keys, held, threw>>

EveryRelationJoins == \A i \in DOMAIN bound : bound[i].columns # <<>>

BindEdgesDone ==
    /\ phase = "edges" /\ region.edges = <<>> /\ EveryRelationJoins
    /\ boundary' = [i \in DOMAIN bound |-> Len(bound[i].columns)]
    /\ phase' = "aggregates"
    /\ UNCHANGED <<query, catalog, plan, todo, region, bound, graph, folds, keys, held, threw>>

\* Statistics speak for committed rows only, and may not be exact.
CanHaveNull(at) ==
    LET table == TableOf(at[1])
    IN  table.vague \/ \E i \in DOMAIN table.committed : table.committed[i][at[2]] = Null

\* Whether a row that is NULL in the aggregated column is needed elsewhere.
RowMattersElsewhere == region.groups # <<>> \/ Len(region.aggs) > 1

IsJoinColumn(at) == LocalIndex(bound[at[1]], at[2]) \in 1 .. boundary[at[1]]

Carriable(binding) ==
    /\ Resolved(binding) # {}
    /\ SummableType(TableOf(TheColumn(binding)[1]).types[TheColumn(binding)[2]]) # ""
    /\ RowMattersElsewhere /\ ~IsJoinColumn(TheColumn(binding)) => ~CanHaveNull(TheColumn(binding))

\* The scan of a relation with one more column, guarded against NULL when
\* a row it would drop is a row of the answer.
Guarded(relation, column, guard) ==
    [relation EXCEPT !.noNull = @ \cup (IF guard THEN {LocalIndex(relation, column)} ELSE {})]

ReadingFolded(scans, binding) ==
    LET at == TheColumn(binding)
        slot == SummableType(TableOf(at[1]).types[at[2]])
    IN  [scans EXCEPT ![at[1]] =
            Guarded(Reading(@, at[2], slot), at[2], RowMattersElsewhere /\ ~IsJoinColumn(at))]

BindAggregate ==
    /\ phase = "aggregates" /\ Len(folds) < Len(region.aggs)
    /\ LET agg == region.aggs[Len(folds) + 1]
           bases == [i \in DOMAIN agg.reads |-> BaseOf(agg.reads[i])]
           read == FoldLeft(ReadingFolded, bound, bases)
           At(i) == <<TheColumn(bases[i])[1], LocalIndex(read[TheColumn(bases[i])[1]], TheColumn(bases[i])[2])>>
       IN  /\ \A i \in DOMAIN bases : Carriable(bases[i])
           /\ bound' = read
           /\ folds' = Append(folds, [kind |-> agg.kind, columns |-> [i \in DOMAIN bases |-> At(i)]])
    /\ UNCHANGED <<query, catalog, plan, todo, phase, region, boundary, graph, keys, held, threw>>

BindAggregatesDone ==
    /\ phase = "aggregates" /\ Len(folds) = Len(region.aggs)
    /\ phase' = "groups"
    /\ UNCHANGED <<query, catalog, plan, todo, region, bound, boundary, graph, folds, keys, held, threw>>

BindsGroupBlind(binding) == Joinable(binding)    \* mutant

\* A grouping column is not chased through projections, and is a key: it
\* has to fit a slot and come back as itself.
BindsGroup(binding) ==
    /\ Joinable(binding)
    /\ ~IsJoinColumn(TheColumn(binding)) => ~CanHaveNull(TheColumn(binding))

BindGroup ==
    /\ phase = "groups" /\ Len(keys) < Len(region.groups)
    /\ BindsGroup(region.groups[Len(keys) + 1])
    /\ LET at == TheColumn(region.groups[Len(keys) + 1])
           read == Guarded(Reading(bound[at[1]], at[2], SlotOf(at)), at[2], ~IsJoinColumn(at))
       IN  /\ bound' = [bound EXCEPT ![at[1]] = read]
           /\ keys' = Append(keys, <<at[1], LocalIndex(read, at[2])>>)
    /\ UNCHANGED <<query, catalog, plan, todo, phase, region, boundary, graph, folds, held, threw>>

BindGroupsDone ==
    /\ phase = "groups" /\ Len(keys) = Len(region.groups)
    /\ phase' = "filters"
    /\ UNCHANGED <<query, catalog, plan, todo, region, bound, boundary, graph, folds, keys, held, threw>>

(***************************************************************************)
(* Filters.  TryTranslateFilter turns a predicate into tests of one column *)
(* each, or into nothing.                                                  *)
(***************************************************************************)
MirrorComparison(cmp) ==
    CASE cmp = "<" -> ">" [] cmp = "<=" -> ">=" [] cmp = ">" -> "<" [] cmp = ">=" -> "<=" [] OTHER -> cmp

Untranslated == [ok |-> FALSE, tests |-> <<>>]
Tests(tests) == [ok |-> TRUE, tests |-> tests]
Test(column, cmp, value) == [binding |-> column.binding, cmp |-> cmp, value |-> value]

IsConstantFor(e, column) == e.kind = "CONSTANT" /\ e.value # Null /\ e.type = column.type

TranslateComparison(p) ==
    LET flipped == p.left.kind = "CONSTANT"
        column == IF flipped THEN p.right ELSE p.left
        constant == IF flipped THEN p.left ELSE p.right
    IN  IF IsColumn(column) /\ IsConstantFor(constant, column)
        THEN Tests(<<Test(column, IF flipped THEN MirrorComparison(p.cmp) ELSE p.cmp, constant.value)>>)
        ELSE Untranslated

RECURSIVE TryTranslateFilter(_)
TryTranslateFilter(p) ==
    CASE p.kind = "COMPARE" -> TranslateComparison(p)
      [] p.kind = "BETWEEN" ->
            IF IsColumn(p.input) /\ Null \notin {p.low, p.high}
            THEN Tests(<<Test(p.input, p.lower, p.low), Test(p.input, p.upper, p.high)>>)
            ELSE Untranslated
      [] p.kind = "AND" ->
            LET parts == [i \in DOMAIN p.args |-> TryTranslateFilter(p.args[i])]
            IN  IF \A i \in DOMAIN parts : parts[i].ok
                THEN Tests(FlattenSeq([i \in DOMAIN parts |-> parts[i].tests])) ELSE Untranslated
      [] p.kind \in {"IS NULL", "IS NOT NULL"} ->
            IF IsColumn(p.input) THEN Tests(<<Test(p.input, p.kind, Null)>>) ELSE Untranslated
      [] OTHER -> Untranslated

\* Where a column is in the scan: columns first, then those only a filter
\* reads, which is why nothing may be appended to columns after this.
FilterPosition(relation, column) ==
    IF LocalIndex(relation, column) # 0 THEN LocalIndex(relation, column)
    ELSE Len(relation.columns) + CHOOSE i \in DOMAIN relation.filterColumns : relation.filterColumns[i] = column

ScanPosition(relation, column) ==
    IF column \in ToSet(relation.columns \o relation.filterColumns) THEN relation
    ELSE [relation EXCEPT !.filterColumns = Append(@, column)]

\* A filter is keyed by a position in the plan's scan, which its column ids
\* map to the stored column.
FilteredColumnAsKeyed(get, at) == at    \* mutant

FilteredColumn(get, at) == get.ids[at]

\* Every test on relation i, as <<position in the plan's scan, test>>: those
\* pushed into the scan, and those of the filter above it, all or none.
Restrictions(i) ==
    LET get == region.relations[i]
        above == [p \in DOMAIN region.filters[i] |-> TryTranslateFilter(region.filters[i][p])]
        tests == FlattenSeq([p \in DOMAIN above |-> above[p].tests])
    IN  [ok |-> /\ \A p \in DOMAIN above : above[p].ok
                /\ \A t \in DOMAIN tests : tests[t].binding[1] = get.index,
         tests |-> get.filters \o [t \in DOMAIN tests |->
                      [at |-> tests[t].binding[2], cmp |-> tests[t].cmp, value |-> tests[t].value]]]

CarriesFilters(i) ==
    LET get == region.relations[i]
    IN  /\ Restrictions(i).ok
        /\ \A t \in DOMAIN Restrictions(i).tests :
              LET at == Restrictions(i).tests[t].at
              IN  at \in DOMAIN get.ids /\ Stored(i, FilteredColumn(get, at))

CarryFilters ==
    /\ phase = "filters"
    /\ \A i \in DOMAIN bound : CarriesFilters(i)
    /\ bound' = [i \in DOMAIN bound |->
           FoldLeft(LAMBDA relation, test :
                        LET column == FilteredColumn(region.relations[i], test.at)
                            read == ScanPosition(relation, column)
                        IN  [read EXCEPT !.filters = Append(@,
                                [at |-> FilterPosition(read, column), cmp |-> test.cmp, value |-> test.value])],
                    bound[i], Restrictions(i).tests)]
    /\ graph' = [graph EXCEPT !.types = [i \in DOMAIN bound |-> bound[i].types]]
    /\ phase' = "plan"
    /\ UNCHANGED <<query, catalog, plan, todo, region, boundary, folds, keys, held, threw>>

(***************************************************************************)
(* The walk.                                                               *)
(***************************************************************************)
Here == NodeAt(plan, Head(todo))

\* On to the children of this node, then to what was waiting.
Descended == [c \in DOMAIN Here.children |-> Append(Head(todo), c)] \o Tail(todo)

NothingBound ==
    /\ region' = NewRegion /\ bound' = <<>> /\ boundary' = <<>>
    /\ graph' = [types |-> <<>>, predicates |-> <<>>] /\ folds' = <<>> /\ keys' = <<>>

Matches(node) == node.op = "AGGREGATE" /\ MatchAggregate(node).ok

Match ==
    /\ phase = "visit" /\ todo # <<>> /\ Matches(Here)
    /\ region' = MatchAggregate(Here) /\ phase' = "relations"
    /\ UNCHANGED <<query, catalog, plan, todo, bound, boundary, graph, folds, keys, held, threw>>

Pass ==
    /\ phase = "visit" /\ todo # <<>> /\ ~Matches(Here)
    /\ todo' = Descended
    /\ UNCHANGED <<query, catalog, plan, phase, region, bound, boundary, graph, folds, keys, held, threw>>

\* Why the region cannot be bound or planned, at the step it has reached.
Unbindable ==
    \/ phase = "relations"
       /\ Cardinality({region.relations[i].index : i \in DOMAIN region.relations}) < Len(region.relations)
    \/ phase = "edges" /\ region.edges # <<>> /\ ~BindsEdge(Head(region.edges))
    \/ phase = "edges" /\ region.edges = <<>> /\ ~EveryRelationJoins
    \/ phase = "aggregates" /\ Len(folds) < Len(region.aggs)
       /\ \E i \in DOMAIN region.aggs[Len(folds) + 1].reads :
             ~Carriable(BaseOf(region.aggs[Len(folds) + 1].reads[i]))
    \/ phase = "groups" /\ Len(keys) < Len(region.groups) /\ ~BindsGroup(region.groups[Len(keys) + 1])
    \/ phase = "filters" /\ \E i \in DOMAIN bound : ~CarriesFilters(i)
    \/ phase = "plan" /\ BuildPlan(graph).verdict # "complete"

\* A region that cannot be had leaves the stock plan, and the walk goes on.
Decline ==
    /\ Unbindable
    /\ phase' = "visit" /\ todo' = Descended /\ NothingBound
    /\ UNCHANGED <<query, catalog, plan, held, threw>>

\* The gate's verdict is an estimate: either way must be right.
GateDeclines ==
    /\ phase = "plan" /\ BuildPlan(graph).verdict = "complete"
    /\ phase' = "visit" /\ todo' = Descended /\ NothingBound
    /\ UNCHANGED <<query, catalog, plan, held, threw>>

\* The replacement answers under the indexes of the aggregate it replaces,
\* and carries it along when it may fall back.
LogicalFactorized(fallback) ==
    [op |-> "FACTORIZED", children |-> <<>>, restriction |-> "none", fallback |-> fallback,
     bound |-> bound, tables |-> [i \in DOMAIN bound |-> region.relations[i].table], graph |-> graph,
     aggIndex |-> region.aggIndex, groupIndex |-> region.groupIndex, keys |-> keys,
     groupTypes |-> region.groupTypes, folds |-> folds,
     aggTypes |-> [a \in DOMAIN folds |-> region.aggs[a].type],
     limited |-> region.limited, limit |-> region.limit]

Replace ==
    /\ phase = "plan" /\ BuildPlan(graph).verdict = "complete"
    /\ \E kept \in BOOLEAN :
           plan' = ReplacedAt(plan, Head(todo), LogicalFactorized(IF kept THEN <<Here>> ELSE <<>>))
    /\ phase' = "visit" /\ todo' = Tail(todo) /\ NothingBound
    /\ UNCHANGED <<query, catalog, held, threw>>

Optimized ==
    /\ phase = "visit" /\ todo = <<>>
    /\ phase' = "run" /\ todo' = InSomeOrder(PathsTo(plan, "FACTORIZED"))
    /\ UNCHANGED <<query, catalog, plan, region, bound, boundary, graph, folds, keys, held, threw>>

(***************************************************************************)
(* Execution of the operators the rule planted, one after another.  A scan *)
(* reads the columns and then those only filters read, applies the         *)
(* filters, and keeps the rows without a NULL; a row whose NULL would be   *)
(* part of the answer makes it throw instead.                              *)
(***************************************************************************)
Scanned(relation, table) ==
    LET read == relation.columns \o relation.filterColumns
        produced == [k \in DOMAIN RowsOf(table) |-> [c \in DOMAIN read |-> RowsOf(table)[k][read[c]]]]
    IN  SelectSeq(produced, LAMBDA row :
            \A f \in DOMAIN relation.filters : Passes(relation.filters[f], row[relation.filters[f].at]))

\* AppendTyped: every value becomes a signed word, an unsigned one too.
Appended(relation, rows) ==
    LET whole == SelectSeq(rows, LAMBDA row : \A c \in DOMAIN relation.columns : row[c] # Null)
    IN  [k \in DOMAIN whole |-> [c \in DOMAIN relation.columns |-> Signed(whole[k][c])]]

MustNotDrop(relation, row) == \E c \in relation.noNull : row[c] = Null

\* An error leaves the replaced plan to run, or fails the query when the
\* rule was told not to carry it.
FallBack(node) ==
    /\ held' = <<>>
    /\ IF node.fallback = <<>>
       THEN phase' = "failed" /\ UNCHANGED <<plan, todo>>
       ELSE /\ plan' = ReplacedAt(plan, Head(todo), node.fallback[1])
            /\ todo' = Tail(todo) /\ UNCHANGED phase

LoadScanned(relation, rows) ==
    IF \E k \in DOMAIN rows : MustNotDrop(relation, rows[k])
    THEN threw' = TRUE /\ FallBack(Here)
    ELSE held' = Append(held, Appended(relation, rows)) /\ UNCHANGED <<plan, todo, phase, threw>>

LoadRelation ==
    /\ phase = "run" /\ todo # <<>> /\ Len(held) < Len(Here.bound)
    /\ LET i == Len(held) + 1
       IN  LoadScanned(Here.bound[i], Scanned(Here.bound[i], catalog[Here.tables[i]]))
    /\ UNCHANGED <<query, catalog, region, bound, boundary, graph, folds, keys>>

\* What the engine compares: KeyReader packs an INT32 as its unsigned half
\* and takes an INT64 as the whole word.
KeyWord(slot, value) == IF slot = "INT32" THEN value % Half ELSE Unsigned(value)
KeyWords(node) ==
    [i \in DOMAIN held |-> [k \in DOMAIN held[i] |->
        [c \in DOMAIN held[i][k] |-> KeyWord(node.bound[i].types[c], held[i][k][c])]]]

ValueIn(tuple, at) == held[at[1]][tuple[at[1]]][at[2]]

\* One fold over the tuples of a group.  Of no tuple a count is 0 and
\* everything else is NULL.
Folded(fold, tuples) ==
    LET Values(n) == [t \in DOMAIN tuples |-> ValueIn(tuples[t], fold.columns[n])]
    IN  CASE fold.kind = "COUNT" -> Len(tuples)
          [] fold.kind = "SUM" -> TotalOf(Values(1))
          [] fold.kind = "AVG" -> AverageOf(Values(1))
          [] fold.kind = "MIN" -> LeastOf(Values(1))
          [] fold.kind = "MAX" -> GreatestOf(Values(1))
          [] fold.kind = "SUM_PRODUCT" ->
                TotalOf([t \in DOMAIN tuples |-> Values(1)[t] * Values(2)[t]])

\* ExecuteCountAtMost stops at the limit.
AtMost(node, count) == IF node.limited /\ count > node.limit THEN node.limit ELSE count

Groups(node, tuples) ==
    LET KeyOf(tuple) == [g \in DOMAIN node.keys |-> ValueIn(tuple, node.keys[g])]
        Members(key) == InSomeOrder({tuple \in tuples : KeyOf(tuple) = key})
        Values(members) == [a \in DOMAIN node.folds |-> AtMost(node, Folded(node.folds[a], members))]
    IN  {[key |-> key, values |-> Values(Members(key))] :
            key \in IF node.keys = <<>> THEN {<<>>} ELSE {KeyOf(tuple) : tuple \in tuples}}

\* A word goes out in the type of its column: below 0 there is no UBIGINT.
HandsOut(type, value) == value = Null \/ type # "UBIGINT" \/ value >= 0
AllHandedOut(node, group) ==
    /\ \A g \in DOMAIN node.keys : HandsOut(node.groupTypes[g], group.key[g])
    /\ \A a \in DOMAIN node.folds : HandsOut(node.aggTypes[a], group.values[a])

Rows(node, groups) ==
    [op |-> "ROWS", children |-> <<>>, restriction |-> "none",
     rows |-> InSomeOrder({GroupRow(node.groupIndex, group.key, node.aggIndex, group.values) : group \in groups})]

Emit(node, groups) ==
    IF \E group \in groups : ~AllHandedOut(node, group) THEN FallBack(node)
    ELSE /\ plan' = ReplacedAt(plan, Head(todo), Rows(node, groups))
         /\ todo' = Tail(todo) /\ held' = <<>> /\ UNCHANGED phase

Answer ==
    /\ phase = "run" /\ todo # <<>> /\ Len(held) = Len(Here.bound)
    /\ Emit(Here, Groups(Here, FlatJoin(Here.graph, KeyWords(Here))))
    /\ UNCHANGED <<query, catalog, region, bound, boundary, graph, folds, keys, threw>>

Answered == phase = "run" /\ todo = <<>>
Terminated == (Answered \/ phase = "failed") /\ UNCHANGED vars

Init ==
    /\ query \in Queries /\ catalog \in Catalogs(query)
    /\ plan = query /\ todo = <<<<>>>> /\ phase = "visit"
    /\ region = NewRegion /\ bound = <<>> /\ boundary = <<>>
    /\ graph = [types |-> <<>>, predicates |-> <<>>] /\ folds = <<>> /\ keys = <<>>
    /\ held = <<>> /\ threw = FALSE

Next ==
    \/ Match \/ Pass \/ Decline \/ GateDeclines \/ Replace \/ Optimized
    \/ BindRelations \/ BindEdge \/ BindEdgesDone
    \/ BindAggregate \/ BindAggregatesDone \/ BindGroup \/ BindGroupsDone \/ CarryFilters
    \/ LoadRelation \/ Answer
    \/ Terminated

Spec == Init /\ [][Next]_vars

(***************************************************************************)
(* Properties.                                                             *)
(***************************************************************************)
\* Whatever the rule replaced, and whether an operator answered or fell
\* back, the query answers what it would have answered without the rule.
\* Accepting an operator it does not reproduce, losing a filter or keying it
\* wrongly, dropping a NULL row that another aggregate needs, or mistaking
\* one relation's column for another's, would each show here.
RewriteIsExact == Answered => AnswerBags(catalog, plan) \subseteq AnswerBags(catalog, query)

\* A scan throws over a NULL only where the statistics could not know: no
\* committed row of the guarded columns holds one, so the NULL is in a row
\* this transaction has yet to commit.  A column the statistics warn about
\* is declined while the query can still be planned without the operator.
NullGuardIsForUncommittedRows ==
    [][threw' # threw =>
          LET scan == Here.bound[Len(held) + 1]
              rows == catalog[Here.tables[Len(held) + 1]].committed
          IN  \A k \in DOMAIN rows : \A c \in scan.noNull : rows[k][scan.columns[c]] # Null]_vars
=============================================================================
