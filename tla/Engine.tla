------------------------------- MODULE Engine -------------------------------
(***************************************************************************)
(* The entry points of the factorized engine (plan.cpp): a query is        *)
(* planned one relation at a time, then asked one question, and the answer *)
(* is computed by joining representations step by step.                    *)
(*                                                                         *)
(* One action per loop iteration the code makes between decisions:         *)
(* attaching a relation to the plan, one join of ExecuteCount or           *)
(* BuildRepresentation, one bucket of ExecuteCountSliced or of             *)
(* ExecuteMaterializeWithinMemory, and the read that ends a question.      *)
(***************************************************************************)
EXTENDS JoinPlan, Representation

CONSTANTS
    Graphs,             \* the join graphs planned
    TablesOf(_),        \* graph -> the table contents it is asked over
    QuestionsOf(_),     \* graph -> the questions asked of it
    Hash,               \* HashKey of each value, reduced to what % slices sees
    GroupRoom,          \* groups MakeScan's grouper has room for
    SliceSteps          \* kSliceSteps, the finer and finer bucketings tried

VARIABLES
    graph, tables,      \* the query and its data; data is picked with the question
    plan,               \* BuildPlan's progress
    question,           \* what is asked, with mode and strategy
    phase,              \* "planning", "planned", "joining", "buckets", "done"
    accumulated,        \* the representation joined so far
    classes,            \* the equalities those joins enforce
    at,                 \* steps of the plan taken
    gathered,           \* what the buckets so far came to
    answer

vars == <<graph, tables, plan, question, phase, accumulated, classes, at, gathered, answer>>

Value(v) == [ok |-> TRUE, value |-> v]
Failed(why) == [ok |-> FALSE, value |-> why]
CountAnswer(n) == IF n = Overflow THEN Failed("overflow") ELSE Value(n)

NoRelation == Relation(Scan({}), <<>>, FALSE)

(***************************************************************************)
(* One step of the plan: the join of the accumulated relation with a scan  *)
(* of the step's.  The accumulated relation is the upper input in both     *)
(* modes: BOTTOM_INSERT builds on it, TOP_INSERT probes with it.           *)
(***************************************************************************)
TypesOf(g) == [a \in 1 .. TotalAttributes(g) |-> TypeOfAttribute(g, a)]

ScanOf(g, data, relation) ==
    MakeScan(AttributeOf(g, relation, 1), data[relation], Len(g.types[relation]), GroupRoom)

StepJoin(g, data, enforced, acc, step, q) ==
    LET new == NewKeys(g, step.edges, step.relation)
        accumulating == AccumulatedKeys(g, enforced, acc.tree, step.edges, step.relation)
        scan == ScanOf(g, data, step.relation)
        onTop == q.mode = "TOP_INSERT"
    IN  Join(IF onTop THEN scan ELSE acc, IF onTop THEN acc ELSE scan,
             IF onTop THEN new ELSE accumulating, IF onTop THEN accumulating ELSE new,
             TypesOf(g), q.mode, q.strategy)

(***************************************************************************)
(* ExecuteCount and BuildRepresentation over given tables, in one piece,   *)
(* for the entry points that run them on one bucket after another.         *)
(***************************************************************************)
Kept(rep, enforced) == Value([rep |-> rep, classes |-> enforced])

\* What a finished join still throws: pruning computes the size of every
\* root, and where the join is measured their sum is counted as well.
SizeThrows(rep, measured) ==
    \/ \E root \in ToSet(rep.roots) : SubtreeSize(rep, root) = Overflow
    \/ measured /\ Count(rep) = Overflow

Built(rep, enforced, measured) ==
    IF SizeThrows(rep, measured) THEN Failed("overflow") ELSE Kept(rep, enforced)

AfterJoin(join, enforced, isLast, counted) ==
    IF JoinThrows(join) THEN Failed("structure")
    ELSE IF isLast /\ counted
         THEN CountAnswer(FactorizedCountJoin(join, FALSE, FALSE, "PRODUCT"))
    ELSE Built(FactorizedJoin(join), enforced, ~isLast)

BuildStep(g, p, data, q, built, i) ==
    IF ~built.ok THEN built
    ELSE AfterJoin(StepJoin(g, data, built.value.classes, built.value.rep, p.steps[i], q),
                   EnforceAll(g, built.value.classes, p.steps[i].edges),
                   i = Len(p.steps), q.kind # "list")

Build(g, p, data, q) ==
    FoldLeft(LAMBDA built, i : BuildStep(g, p, data, q, built, i),
             Kept(ScanOf(g, data, p.steps[1].relation), NothingEnforced(g)),
             Tail(Indices(p.steps)))

Counted(p, built) ==
    IF p.verdict # "complete" THEN Failed(p.verdict)
    ELSE IF built.ok /\ Len(p.steps) = 1 THEN CountAnswer(Count(built.value.rep))
    ELSE built
ExecuteCount(g, p, data, q) == Counted(p, Build(g, p, data, q))

Listed(p, built, limit) ==
    IF p.verdict # "complete" THEN Failed(p.verdict)
    ELSE IF built.ok THEN Value(Enumerate(built.value.rep, limit)) ELSE built
ExecuteMaterialize(g, p, data, q, limit) == Listed(p, Build(g, p, data, q), limit)

(***************************************************************************)
(* Planning.                                                               *)
(***************************************************************************)
Init ==
    /\ graph \in Graphs
    /\ tables = <<>>
    /\ plan = StartPlan(graph)
    /\ question = [kind |-> "none"]
    /\ phase = "planning"
    /\ accumulated = NoRelation
    /\ classes = NothingEnforced(graph)
    /\ at = 0
    /\ gathered = [slices |-> 0, slice |-> 0, part |-> 0, parts |-> 0, value |-> 0]
    /\ answer = Failed("none")

PlanningOnly == UNCHANGED <<graph, tables, question, accumulated, classes, at, gathered, answer>>

AttachRelation ==
    /\ phase = "planning" /\ plan.verdict = "planning"
    /\ ~AllJoined(graph, plan)
    /\ Attachable(graph, plan) # {}
    /\ plan' = Attached(graph, plan)
    /\ UNCHANGED phase /\ PlanningOnly

DeclineGraph ==
    /\ phase = "planning" /\ plan.verdict = "planning"
    /\ ~AllJoined(graph, plan)
    /\ Attachable(graph, plan) = {}
    /\ plan' = Declined(graph, plan)
    /\ phase' = "planned" /\ PlanningOnly

ConcludePlan ==
    /\ phase = "planning"
    /\ plan.verdict # "planning" \/ AllJoined(graph, plan)
    /\ plan' = IF plan.verdict = "planning" THEN Concluded(graph, plan) ELSE plan
    /\ phase' = "planned" /\ PlanningOnly

(***************************************************************************)
(* Asking.  Every entry point refuses an incomplete plan, except           *)
(* ExecuteProductSum, whose callers plan for themselves.                   *)
(***************************************************************************)
Stepwise == {"count", "product", "sum", "outer"}

Ask ==
    /\ phase = "planned"
    /\ question' \in QuestionsOf(graph)
    /\ tables' \in TablesOf(graph)
    /\ IF plan.verdict # "complete"
       THEN /\ phase' = "done" /\ answer' = Failed(plan.verdict)
            /\ UNCHANGED <<accumulated, at>>
       ELSE /\ phase' = IF question'.kind \in Stepwise THEN "joining" ELSE "buckets"
            /\ accumulated' = ScanOf(graph, tables', plan.steps[1].relation)
            /\ at' = 1
            /\ UNCHANGED answer
    /\ UNCHANGED <<graph, plan, classes, gathered>>

Finish(result) == phase' = "done" /\ answer' = result
Done == /\ accumulated' = NoRelation /\ at' = 0
        /\ classes' = NothingEnforced(graph)

NextJoin == StepJoin(graph, tables, classes, accumulated, plan.steps[at + 1], question)
LastJoin == at + 1 = Len(plan.steps)
Fixed == UNCHANGED <<graph, tables, plan, question, gathered>>

\* A join that keeps its result: every one of BuildRepresentation's, all but
\* the last of ExecuteCount's.  Both measure a join that is not the last; the
\* joins below an outer count are called directly.
Keep(join) ==
    LET measured == question.kind # "outer" /\ ~LastJoin
        next == IF JoinThrows(join) THEN Failed("structure")
                ELSE Built(FactorizedJoin(join),
                           EnforceAll(graph, classes, plan.steps[at + 1].edges), measured)
    IN  IF ~next.ok THEN Finish(next) /\ Done
        ELSE /\ accumulated' = next.value.rep
             /\ classes' = next.value.classes
             /\ at' = at + 1
             /\ UNCHANGED <<phase, answer>>

JoinStep ==
    /\ phase = "joining" /\ at < Len(plan.steps)
    /\ question.kind \in {"count", "outer"} => ~LastJoin
    /\ Keep(NextJoin)
    /\ Fixed

\* CheckCompression and CheckRate: after a join that is not the last, and
\* only when the representation holds anything, the clock may end the query.
\* The first join is not judged by its compression, and only the join before
\* the last by its rate.
GiveUp ==
    /\ phase = "joining" /\ question.kind # "outer"
    /\ 2 <= at /\ at < Len(plan.steps)
    /\ accumulated.roots # <<>>
    /\ at > 2 \/ (question.kind = "count" /\ LastJoin)
    /\ Finish(Failed("not paying"))
    /\ Done /\ Fixed

\* MemoryLimitExceeded out of any join, or out of the scan it starts from.
HitLimit ==
    /\ phase = "joining"
    /\ Finish(Failed("out of memory"))
    /\ Done /\ Fixed

\* The last join of a count is counted, never built; the outer, semi- and
\* anti-join counts are the same call with a side to preserve.
CountLast(join, upper, lower, kind) ==
    IF JoinThrows(join) THEN Failed("structure")
    ELSE CountAnswer(FactorizedCountJoin(join, upper, lower, kind))

CountStep ==
    /\ phase = "joining" /\ question.kind \in {"count", "outer"} /\ LastJoin
    /\ LET outer == question.kind = "outer"
       IN  Finish(CountLast(NextJoin, outer /\ question.upper, outer /\ question.lower,
                            IF outer THEN question.join ELSE "PRODUCT"))
    /\ Done /\ Fixed

\* What is read off a finished representation.
Read ==
    /\ phase = "joining" /\ at = Len(plan.steps)
    /\ \/ /\ question.kind = "count"
          /\ Finish(CountAnswer(Count(accumulated)))
       \/ /\ question.kind = "sum"
          /\ Finish(CountAnswer(SumOfColumn(accumulated, question.x)))
       \/ /\ question.kind = "product"
          /\ LET sum == ProductSumOf(accumulated, question.x, question.y)
             IN  Finish(IF Overflowed128(sum) THEN Failed("overflow") ELSE Value(ValueOf(sum)))
    /\ Done /\ Fixed

(***************************************************************************)
(* Buckets.                                                                *)
(***************************************************************************)
Bucketed(columns, slice, slices) == SlicedTables(tables, columns, Hash, slice, slices)
KeyColumns == ChooseSliceColumns(graph, plan.steps[1].relation)

\* RankSliceColumns without the class the primary buckets use; the first is
\* the only one CountBySecondKey tries.
Without(ranked, columns) == SelectSeq(ranked, LAMBDA other : other # columns)
OtherColumns == Without(RankSliceColumns(graph), KeyColumns)

BucketsOnly == UNCHANGED <<graph, tables, plan, question, accumulated, classes, at>>

Start ==
    /\ phase = "buckets" /\ gathered.slices = 0
    /\ question.kind \in {"sliced", "second key", "list"}
    /\ IF question.kind # "list" /\ KeyColumns = <<>> THEN Finish(Failed("no key to slice on"))
       ELSE IF question.kind = "second key" /\ OtherColumns = <<>>
       THEN Finish(Failed("no other key"))
       ELSE UNCHANGED <<phase, answer>>
    /\ gathered' = [slices |-> IF question.kind = "list" THEN 1 ELSE question.slices,
                    slice |-> 0, part |-> 0,
                    parts |-> IF question.kind = "second key" THEN question.slices ELSE 1,
                    value |-> IF question.kind = "list" THEN <<>> ELSE 0]
    /\ BucketsOnly

\* The tables of the bucket the loop is at.
PartOf(bucket) ==
    IF gathered.parts = 1 THEN bucket
    ELSE SlicedTables(bucket, OtherColumns[1], Hash, gathered.part, gathered.parts)
BucketTables ==
    PartOf(IF gathered.slices = 1 THEN tables
           ELSE Bucketed(KeyColumns, gathered.slice, gathered.slices))

LastBucket == gathered.slice + 1 = gathered.slices /\ gathered.part + 1 = gathered.parts
NextBucket(value) ==
    LET part == (gathered.part + 1) % gathered.parts
    IN  [gathered EXCEPT !.part = part, !.value = value,
                         !.slice = IF part = 0 THEN @ + 1 ELSE @]

\* One bucket of a count.
AddPiece(piece) ==
    LET total == IF piece.ok THEN CheckedAdd(gathered.value, piece.value) ELSE 0
    IN  /\ gathered' = NextBucket(total)
        /\ IF ~piece.ok THEN Finish(piece)
           ELSE IF LastBucket THEN Finish(CountAnswer(total))
           ELSE UNCHANGED <<phase, answer>>

CountBucket ==
    /\ phase = "buckets" /\ gathered.slices > 0
    /\ question.kind \in {"sliced", "second key"}
    /\ AddPiece(ExecuteCount(graph, plan, BucketTables, question))
    /\ BucketsOnly

\* One bucket of a materialization: it asks for what is left of the limit
\* and stops the loop once the limit is reached.
AppendPiece(piece, limit) ==
    LET tuples == IF piece.ok THEN gathered.value \o piece.value ELSE <<>>
        full == limit # 0 /\ Len(tuples) >= limit
    IN  /\ gathered' = NextBucket(tuples)
        /\ IF ~piece.ok THEN Finish(piece)
           ELSE IF LastBucket \/ full THEN Finish(Value(tuples))
           ELSE UNCHANGED <<phase, answer>>

ListBucket ==
    /\ phase = "buckets" /\ gathered.slices > 0 /\ question.kind = "list"
    /\ LET limit == question.limit
           remaining == IF limit = 0 THEN 0 ELSE limit - Len(gathered.value)
       IN  AppendPiece(ExecuteMaterialize(graph, plan, BucketTables, question, remaining), limit)
    /\ BucketsOnly

StartedOverWithTuples(slices) ==    \* mutant
    [gathered EXCEPT !.slices = slices, !.slice = 0]

StartedOver(slices) == [gathered EXCEPT !.slices = slices, !.slice = 0, !.value = <<>>]

\* A bucket that does not fit in memory: everything gathered so far is
\* dropped and the query starts over in finer buckets, if there are any.
OutOfMemory ==
    /\ phase = "buckets" /\ gathered.slices > 0 /\ question.kind = "list"
    /\ LET finer == SelectSeq(SliceSteps, LAMBDA slices : slices > gathered.slices)
       IN  IF finer = <<>> \/ KeyColumns = <<>>
           THEN Finish(Failed("out of memory")) /\ UNCHANGED gathered
           ELSE /\ gathered' = StartedOver(Head(finer))
                /\ UNCHANGED <<phase, answer>>
    /\ BucketsOnly

DifferenceOrAll(all, equal) ==    \* mutant
    IF ~all.ok \/ ~equal.ok THEN all ELSE Value(all.value - equal.value)

Difference(all, equal) ==
    IF ~all.ok THEN all
    ELSE IF ~equal.ok THEN equal
    ELSE IF equal.value > all.value THEN Failed("structure")
    ELSE Value(all.value - equal.value)

\* ExecuteCountNotEqual: all pairs minus the equal ones, each planned anew.
CountPlanned(g) == ExecuteCount(g, BuildPlan(g), tables, question)

CountNotEqual ==
    /\ phase = "buckets" /\ question.kind = "not equal"
    /\ Finish(Difference(CountPlanned(graph),
                         CountPlanned([graph EXCEPT !.predicates = Append(@, question.differ)])))
    /\ UNCHANGED gathered /\ BucketsOnly

Terminated == phase = "done" /\ UNCHANGED vars

Next ==
    \/ AttachRelation \/ DeclineGraph \/ ConcludePlan
    \/ Ask \/ JoinStep \/ GiveUp \/ HitLimit \/ CountStep \/ Read
    \/ Start \/ CountBucket \/ ListBucket \/ OutOfMemory \/ CountNotEqual
    \/ Terminated

Spec == Init /\ [][Next]_vars

(***************************************************************************)
(* Properties.                                                             *)
(***************************************************************************)
Answers(kind) == phase = "done" /\ question.kind = kind /\ answer.ok
Size == Cardinality(FlatJoin(graph, tables))

\* However a query is planned, in either mode and with either path strategy,
\* the count is the number of flat tuples.  ExecuteCount never builds the
\* last join; what it multiplies must still be exactly the tuples.  The count
\* over a not-equal predicate is the tuples that differ there.
CountIsFlatJoin ==
    LET p == question.differ
        Differ(t) == tables[p.left][t[p.left]][p.lcol] # tables[p.right][t[p.right]][p.rcol]
    IN  /\ Answers("count") => answer.value = Size
        /\ Answers("not equal") =>
              answer.value = Quantify(FlatJoin(graph, tables), Differ)

\* A bucketed count, on one key or on two, is the whole count: every flat
\* tuple falls into exactly one bucket, though some relations are not cut.
SlicesPartitionTheJoin ==
    Answers("sliced") \/ Answers("second key") => answer.value = Size

\* Enumerating the representation gives the flat tuples as a bag, or as many
\* of them as the limit asks for, also when memory runs out between buckets
\* and the enumeration starts over.
FlatBag(tuples) == BagOfAll(LAMBDA t : FlatTuple(graph, tables, t), SetToBag(tuples))

ListIsFlatJoin ==
    Answers("list") =>
        /\ Len(answer.value) =
              IF question.limit = 0 THEN Size ELSE Min({question.limit, Size})
        /\ ToBag(answer.value) \sqsubseteq FlatBag(FlatJoin(graph, tables))

\* A sum, or a sum of products through 128-bit halves, is the sum over the
\* flat tuples, duplicates and signs included.
SumsAreExact ==
    LET Term(t) == LET row == FlatTuple(graph, tables, t)
                   IN  IF question.kind = "sum" THEN row[question.x] ELSE row[question.x] * row[question.y]
    IN  Answers("sum") \/ Answers("product") =>
            answer.value = MapThenSumSet(Term, FlatJoin(graph, tables))

\* Outer, semi- and anti-joins count each side's tuples as SQL does.  The
\* upper side is what was joined before, the lower side the last relation.
OuterCountIsExact ==
    Answers("outer") =>
        LET last == plan.steps[Len(plan.steps)].relation
            before == Relations(graph) \ {last}
            within == {p \in ToSet(graph.predicates) : last \notin {p.left, p.right}}
            pairs == FlatJoin(graph, tables)
            uppers == FlatJoinOver(graph, tables, before, within)
            matchedUpper == {[r \in before |-> t[r]] : t \in pairs}
            matchedLower == {t[last] : t \in pairs}
            lowers == DOMAIN tables[last]
            Unless(flag, S) == IF flag THEN Cardinality(S) ELSE 0
        IN  answer.value =
              CASE question.join = "SEMI" -> Unless(question.upper, matchedUpper)
                                             + Unless(question.lower, matchedLower)
                [] question.join = "ANTI" -> Unless(question.upper, uppers \ matchedUpper)
                                             + Unless(question.lower, lowers \ matchedLower)
                [] OTHER -> Cardinality(pairs) + Unless(question.upper, uppers \ matchedUpper)
                                               + Unless(question.lower, lowers \ matchedLower)

\* A plan the planner calls complete never fails on its structure: keys land
\* on one node and fit the packed key, every node finds the inputs it is
\* made of, and a weight is only set where there is a field for it.  The
\* planner decides that on a simulated tree; the executor meets real ones.
CompletePlanExecutes == answer # Failed("structure") /\ WeightsFit(accumulated)

\* A level of the representation has a record for every way to choose, along
\* its path, rows that some tuple of the prefix holds.  Where a scan grouped
\* equal rows one record stands for several, so there are at least as many
\* records as choices of values, and at most as many as choices of rows; and
\* a parent's children weigh at least the choices of its values and their
\* rows.  No slot of a live record is empty.
CensusFits(rep, prefix) ==
    LET topology == Topology(rep.tree)
        census == Census(rep)
        RECURSIVE Along(_)
        Along(level) == IF level = 0 THEN {}
                        ELSE topology[level].attributes \cup Along(topology[level].parent)
        On(attributes) == {r \in Relations(graph) : AttributesOf(graph, r) \subseteq attributes}
        Part(t, relations) == [r \in relations |-> t[r]]
        Values(t, relations) == FlatTuple(graph, tables, Part(t, relations))
        Rows(level) == {Part(t, On(Along(level))) : t \in prefix}
        Distinct(level) == {Values(t, On(Along(level))) : t \in prefix}
        RowsUnder(level) == {<<Values(t, On(Along(topology[level].parent))),
                               Part(t, On(topology[level].attributes))>> : t \in prefix}
        Total(Of(_), levels) == MapThenSumSet(LAMBDA l : Cardinality(Of(l)), levels)
    IN  \A level \in DOMAIN topology :
            LET below == ToSet(topology[level].children)
            IN  /\ Cardinality(Distinct(level)) <= census[level].records
                /\ census[level].records <= Cardinality(Rows(level))
                /\ census[level].populated = census[level].records * Cardinality(below)
                /\ Total(RowsUnder, below) <= census[level].children
                /\ census[level].children <= Total(Rows, below)

\* After every join, in either mode, the representation stands for exactly
\* the bag of the flat tuples over the relations joined so far.  Its size is
\* their number, or an overflow when that is no word; every level's census is
\* what those tuples say; and no record at any depth leads nowhere.
RepresentationIsPrefixJoin ==
    phase = "joining" =>
        LET joined == {plan.steps[i].relation : i \in 1 .. at}
            edges == UNION {ToSet(plan.steps[i].edges) : i \in 1 .. at}
            prefix == FlatJoinOver(graph, tables, joined, edges)
            size == Cardinality(prefix)
        IN  /\ ToBag(Enumerate(accumulated, 0)) = FlatBag(prefix)
            /\ Count(accumulated) = IF size <= MaxWord THEN size ELSE Overflow
            /\ CensusFits(accumulated, prefix)
            /\ \A level \in DOMAIN Topology(accumulated.tree) :
                  \A r \in ToSet(RecordsAt(accumulated, level)) : SubtreeSize(accumulated, r) # 0

\* Every attribute is on exactly one node, and the attributes of a relation
\* on one root-to-leaf path: otherwise the tree could not say which of a
\* relation's values go together.  Merging sibling nodes must keep this.
TreeKeepsPaths ==
    LET joined == {plan.steps[i].relation : i \in 1 .. Len(plan.steps)}
        Keeps(tree, relations) ==
            LET owned == UNION {AttributesOf(graph, r) : r \in relations}
            IN  /\ Held(tree) = Cardinality(owned) /\ Attributes(tree) = owned
                /\ \A r \in relations :
                      \E path \in Paths(tree, {}) : AttributesOf(graph, r) \subseteq path
    IN  /\ plan.steps # <<>> => Keeps(plan.tree, joined)
        /\ phase = "joining" =>
              Keeps(accumulated.tree, {plan.steps[i].relation : i \in 1 .. at})

\* BuildCostSteps mirrors the engine: the relation a step is said to hang
\* under owns an attribute of the very node the engine will attach it to,
\* and no attribute of that key's class sits higher.
CostStepMirrors(before, after) ==
    LET step == Last(after.steps)
        cost == Last(BuildCostSteps(graph, after))
        parent == after.steps[cost.parent].relation
        key == Head(AccumulatedKeys(graph, before.classes, before.tree, step.edges, step.relation))
        Depth(a) == DepthOfAttribute(before.tree, a)
    IN  \E a \in AttributesOf(graph, parent) :
            Depth(a) = Depth(key) /\ FullClasses(graph)[a] = FullClasses(graph)[key]

CostMirrorsTheEngine ==
    [][Len(plan'.steps) > Len(plan.steps) /\ BuildPlan(graph).verdict = "complete"
           => CostStepMirrors(plan, plan')]_plan
=============================================================================
