--------------------------- MODULE Representation ---------------------------
(***************************************************************************)
(* Factorized representations and the operations on them (frep.cpp,        *)
(* materialize.cpp, join.cpp, enumerate.hpp).                              *)
(*                                                                         *)
(* A relation is [tree, roots, weighted, has]: its f-tree, one record per  *)
(* root value, whether its layout has multiplicity fields, and whether one *)
(* was ever set above 1.  A record is [values, weight, slots]: a value per *)
(* attribute of its node, its multiplicity, and per child of the node the  *)
(* sequence of child records.  A relation stands for the flat tuples one   *)
(* gets by picking a root, a child per slot, a child of each of those, and *)
(* so on, each as often as the product of the weights picked.              *)
(***************************************************************************)
EXTENDS FTree, WideArithmetic, TLC

Record(values, weight, slots) == [values |-> values, weight |-> weight, slots |-> slots]
Relation(tree, roots, weighted) ==
    [tree |-> tree, roots |-> roots, weighted |-> weighted, has |-> FALSE]

SumOver(Of(_), records) == FoldLeft(LAMBDA sum, r : CheckedAdd(sum, Of(r)), 0, records)

\* The product over a sequence that stops at the first 0, as the code's loops do.
ProductOver(Of(_), start, indices) ==
    FoldLeft(LAMBDA size, i : IF size = 0 THEN 0 ELSE CheckedMul(size, Of(i)), start, indices)
Indices(s) == [i \in DOMAIN s |-> i]

WeightIn(rep, record) == IF rep.has THEN record.weight ELSE 1

RECURSIVE SubtreeSize(_, _)
SubtreeSize(rep, record) ==
    ProductOver(LAMBDA i : SumOver(LAMBDA child : SubtreeSize(rep, child), record.slots[i]),
                WeightIn(rep, record), Indices(record.slots))

Count(rep) == SumOver(LAMBDA root : SubtreeSize(rep, root), rep.roots)

\* PruneEmptySubtrees: from here on a record that stands for no tuple is skipped.
RECURSIVE PrunedRecords(_, _)
PrunedRecords(rep, records) ==
    LET live == SelectSeq(records, LAMBDA r : SubtreeSize(rep, r) # 0)
    IN  [i \in DOMAIN live |->
            [live[i] EXCEPT !.slots = [s \in DOMAIN @ |-> PrunedRecords(rep, @[s])]]]
PruneEmptySubtrees(rep) == [rep EXCEPT !.roots = PrunedRecords(rep, rep.roots)]

(***************************************************************************)
(* MakeScan: one record per row, or one per distinct row with a weight     *)
(* when grouping pays.  Grouping starts when at most GroupBelow percent of *)
(* the rows are distinct, and is given up for the rest of the rows once    *)
(* the grouper's table would outgrow its budget (more than "room" groups). *)
(***************************************************************************)
GroupBelow == 90
DistinctPercent(rows) ==
    IF rows = <<>> THEN 100 ELSE (Cardinality(ToSet(rows)) * 100) \div Len(rows)

ScanRow(scan, values, room) ==
    LET seen == SelectInSeq(scan.roots, LAMBDA r : r.values = values)
        groups == Len(scan.roots) + 1
    IN  IF scan.active /\ seen # 0
        THEN [scan EXCEPT !.roots[seen].weight = CheckedAdd(@, 1), !.has = TRUE]
        ELSE [scan EXCEPT !.roots = Append(@, Record(values, 1, <<>>)),
                          !.active = @ /\ groups <= room]

MakeScan(first, rows, arity, room) ==
    LET attributes == first .. first + arity - 1
        group == DistinctPercent(rows) <= GroupBelow
        scan == FoldLeft(LAMBDA s, row : ScanRow(s, [a \in attributes |-> row[a - first + 1]], room),
                         [roots |-> <<>>, has |-> FALSE, active |-> group], rows)
    IN  [tree |-> Scan(attributes), roots |-> scan.roots, weighted |-> group, has |-> scan.has]

(***************************************************************************)
(* MaterializePlan: how one input of a join is read into the part of the   *)
(* output tree it owns.  order[l] lists the input nodes merged into output *)
(* node l, a parent before its children; a context maps an input node to   *)
(* the record of it the walk is at.                                        *)
(***************************************************************************)
RECURSIVE ParentsFirst(_, _, _)
ParentsFirst(topology, left, done) ==
    LET Ready(s) == topology[s].parent \notin ToSet(left) \ ToSet(done)
        at == SelectInSeq(left, LAMBDA s : s \notin ToSet(done) /\ Ready(s))
    IN  IF at = 0 THEN done ELSE ParentsFirst(topology, left, Append(done, left[at]))

MaterializePlan(input, output, owned, root) ==
    LET topology == Topology(input.tree)
    IN  [input |-> input, output |-> output, owned |-> owned, root |-> root,
         topology |-> topology,
         order |-> [l \in owned |-> ParentsFirst(topology, output[l].sources, <<>>)]]

PlanChildren(plan, level) ==
    SelectSeq(Indices(plan.output[level].children),
              LAMBDA i : plan.output[level].children[i] \in plan.owned)

\* The three ways Build throws.
PlanThrows(plan) ==
    \E l \in plan.owned :
        \/ Len(plan.order[l]) # Len(plan.output[l].sources)
        \/ \E s \in ToSet(plan.order[l]) :
              LET parent == plan.topology[s].parent
              IN  parent # 0 /\ ~\E up \in plan.owned : parent \in ToSet(plan.order[up])
        \/ plan.output[l].attributes
              # UNION {plan.topology[s].attributes : s \in ToSet(plan.order[l])}

\* IterateLevel: the context extended by a record for every input node of
\* the level, in every possible way.
IterateLevel(plan, level, ctx) ==
    LET Found(c, s) == IF plan.topology[s].parent = 0 THEN plan.input.roots
                         ELSE c[plan.topology[s].parent].slots[plan.topology[s].slot]
        Extend(c, s) == [k \in DOMAIN Found(c, s) |-> (s :> Found(c, s)[k]) @@ c]
    IN  FoldLeft(LAMBDA ctxs, s : FlattenSeq([k \in DOMAIN ctxs |-> Extend(ctxs[k], s)]),
                 <<ctx>>, plan.order[level])

CopyPayload(plan, level, ctx) ==
    FoldLeft(LAMBDA values, s : values @@ ctx[s].values, << >>, plan.order[level])

WeightOf(plan, level, ctx) ==
    FoldLeft(LAMBDA weight, s : CheckedMul(weight, WeightIn(plan.input, ctx[s])),
             1, plan.order[level])

EmptyContext == [s \in {} |-> 0]

(***************************************************************************)
(* Keys.  MakeKeyReader finds the level whose sources hold the keys and    *)
(* throws when one is absent, they are on two levels, or they need more    *)
(* than a word.  Read packs an INT32 as its unsigned half and takes an     *)
(* INT64 as the whole word.                                                *)
(***************************************************************************)
LevelHolding(plan, key) ==
    {l \in plan.owned : \E s \in ToSet(plan.order[l]) : key \in plan.topology[s].attributes}
KeyLevel(plan, keys) ==
    LET holding == LevelHolding(plan, keys[1]) IN IF holding = {} THEN 0 ELSE Min(holding)

KeyReaderThrows(plan, keys, types) ==
    \/ \E i \in DOMAIN keys : LevelHolding(plan, keys[i]) = {}
    \/ \E i \in DOMAIN keys : KeyLevel(plan, keys) \notin LevelHolding(plan, keys[i])
    \/ Len(keys) > 1 /\ \E i \in DOMAIN keys : types[keys[i]] = "INT64"
    \/ Len(keys) > 2

ReadFirstKey(plan, keys, types, ctx) ==    \* mutant
    LET s == CHOOSE s \in DOMAIN ctx : keys[1] \in DOMAIN ctx[s].values
    IN  Unsigned(ctx[s].values[keys[1]])

ReadKey(plan, keys, types, ctx) ==
    LET Value(key) ==
            LET s == CHOOSE s \in DOMAIN ctx : key \in DOMAIN ctx[s].values
            IN  ctx[s].values[key]
        Pack(packed, key) ==
            IF types[key] = "INT32"
            THEN [bits |-> packed.bits + HalfBits,
                  word |-> packed.word + (Value(key) % Half) * 2 ^ packed.bits]
            ELSE [bits |-> packed.bits + 2 * HalfBits, word |-> Unsigned(Value(key))]
    IN  FoldLeft(Pack, [bits |-> 0, word |-> 0], keys).word

\* MarkKeyPath: the levels from the plan's root down to the key's.
RECURSIVE KeyPath(_, _)
KeyPath(plan, level) ==
    IF level \notin plan.owned THEN {}
    ELSE {level} \cup (IF level = plan.root THEN {} ELSE KeyPath(plan, plan.output[level].parent))

\* IterateKeyPath: every way to walk from the root to the key's level.
RECURSIVE IterateKeyPath(_, _, _, _)
IterateKeyPath(plan, level, key, ctx) ==
    LET here == IterateLevel(plan, level, ctx)
        onPath == {plan.output[level].children[i] : i \in ToSet(PlanChildren(plan, level))}
                      \cap KeyPath(plan, key)
    IN  IF level = key THEN here
        ELSE FlattenSeq([k \in DOMAIN here |->
                IterateKeyPath(plan, CHOOSE l \in onPath : TRUE, key, here[k])])

(***************************************************************************)
(* A join, seen once: the merged tree, both plans and both readers.        *)
(***************************************************************************)
JoinAlong(merge, upper, lower, upperKeys, lowerKeys, types) ==
    [merge |-> merge, types |-> types, upper |-> upper, lower |-> lower,
     upperKeys |-> upperKeys, lowerKeys |-> lowerKeys,
     keyPath |-> KeyPath(lower, KeyLevel(lower, lowerKeys))]

JoinOf(merge, upper, lower, upperKeys, lowerKeys, types) ==
    JoinAlong(merge,
              MaterializePlan(upper, merge.topology, DOMAIN merge.topology \ merge.lower, 1),
              MaterializePlan(lower, merge.topology, merge.lower, merge.attach),
              upperKeys, lowerKeys, types)

Join(build, probe, buildKeys, probeKeys, types, mode, strategy) ==
    JoinOf(MergeTreesDetailed(build.tree, probe.tree, buildKeys, probeKeys, mode, strategy),
           UpperOf(mode, build, probe), LowerOf(mode, build, probe),
           UpperOf(mode, buildKeys, probeKeys), LowerOf(mode, buildKeys, probeKeys), types)

JoinThrows(join) ==
    \/ PlanThrows(join.upper) \/ PlanThrows(join.lower)
    \/ KeyReaderThrows(join.upper, join.upperKeys, join.types)
    \/ KeyReaderThrows(join.lower, join.lowerKeys, join.types)

BindingsSharingContext(join) ==    \* mutant
    LET key == KeyLevel(join.lower, join.lowerKeys)
        ctxs == IterateKeyPath(join.lower, join.lower.root, key, EmptyContext)
    IN  [i \in DOMAIN ctxs |->
            [key |-> ReadKey(join.lower, join.lowerKeys, join.types, ctxs[i]), ctx |-> Last(ctxs)]]

\* Every lower binding at the key's level, with its packed key.
LowerBindings(join) ==
    LET key == KeyLevel(join.lower, join.lowerKeys)
        ctxs == IterateKeyPath(join.lower, join.lower.root, key, EmptyContext)
    IN  [i \in DOMAIN ctxs |->
            [key |-> ReadKey(join.lower, join.lowerKeys, join.types, ctxs[i]), ctx |-> ctxs[i]]]

MatchesOf(join, bindings, ctx) ==
    LET key == ReadKey(join.upper, join.upperKeys, join.types, ctx)
    IN  SelectSeq(bindings, LAMBDA b : b.key = key)

\* MaterializeLower: along the key path the binding's own records, off it
\* everything below.
RECURSIVE MaterializeLower(_, _, _)
MaterializeLower(join, level, ctx) ==
    LET plan == join.lower
        children == plan.output[level].children
        Below(l) == IF l \in join.keyPath THEN <<ctx>> ELSE IterateLevel(plan, l, ctx)
    IN  Record(CopyPayload(plan, level, ctx), WeightOf(plan, level, ctx),
               [i \in DOMAIN children |->
                   LET ctxs == Below(children[i])
                   IN  [k \in DOMAIN ctxs |-> MaterializeLower(join, children[i], ctxs[k])]])

\* MaterializeSubtree of the upper input; at the insertion level the extra
\* slot takes one lower subtree per match.
RECURSIVE MaterializeUpper(_, _, _, _)
MaterializeUpper(join, bindings, level, ctx) ==
    LET plan == join.upper
        children == plan.output[level].children
        matches == MatchesOf(join, bindings, ctx)
        Slot(i) ==
            IF children[i] = join.merge.attach
            THEN [k \in DOMAIN matches |-> MaterializeLower(join, children[i], matches[k].ctx)]
            ELSE LET ctxs == IterateLevel(plan, children[i], ctx)
                 IN  [k \in DOMAIN ctxs |-> MaterializeUpper(join, bindings, children[i], ctxs[k])]
    IN  Record(CopyPayload(plan, level, ctx), WeightOf(plan, level, ctx),
               [i \in DOMAIN children |-> Slot(i)])

RECURSIVE Weights(_)
Weights(records) ==
    UNION {{records[k].weight} \cup UNION {Weights(records[k].slots[s]) : s \in DOMAIN records[k].slots}
              : k \in DOMAIN records}

\* FactorizedJoin.  The output has multiplicity fields when an input uses them.
FactorizedJoin(join) ==
    LET roots == IterateLevel(join.upper, 1, EmptyContext)
        bindings == LowerBindings(join)
        records == [k \in DOMAIN roots |-> MaterializeUpper(join, bindings, 1, roots[k])]
    IN  PruneEmptySubtrees(
            [tree |-> join.merge.tree, roots |-> records,
             weighted |-> join.upper.input.has \/ join.lower.input.has,
             has |-> Weights(records) \ {1} # {}])

\* SetWeight throws on a layout built without multiplicity fields.
WeightsFit(rep) == rep.weighted \/ Weights(rep.roots) \subseteq {1}

(***************************************************************************)
(* FactorizedCountJoin: the size of the join without building it.          *)
(***************************************************************************)
RECURSIVE LowerSize(_, _, _)
LowerSize(join, level, ctx) ==
    LET plan == join.lower
        children == plan.output[level].children
        SlotSize(i) ==
            IF children[i] \in join.keyPath THEN LowerSize(join, children[i], ctx)
            ELSE SumOver(LAMBDA c : LowerSize(join, children[i], c),
                         IterateLevel(plan, children[i], ctx))
    IN  ProductOver(SlotSize, WeightOf(plan, level, ctx), Indices(children))

LowerEntries(join) ==
    LET bindings == LowerBindings(join)
    IN  [k \in DOMAIN bindings |->
            [key |-> bindings[k].key, size |-> LowerSize(join, join.lower.root, bindings[k].ctx)]]

FoldedInner(fold, size, matched) ==    \* mutant
    CASE Overflow \in {size, matched} -> Overflow
      [] fold \in {"PRODUCT", "PRESERVE"} -> CheckedMul(size, matched)
      [] fold = "SEMI" -> IF matched > 0 THEN size ELSE 0
      [] fold = "ANTI" -> IF matched = 0 THEN size ELSE 0
      [] OTHER -> size

\* What the insertion level makes of the size so far and its matches.
Folded(fold, size, matched) ==
    CASE Overflow \in {size, matched} -> Overflow
      [] fold = "PRODUCT"   -> CheckedMul(size, matched)
      [] fold = "PRESERVE"  -> CheckedMul(size, IF matched = 0 THEN 1 ELSE matched)
      [] fold = "SEMI"      -> IF matched > 0 THEN size ELSE 0
      [] fold = "ANTI"      -> IF matched = 0 THEN size ELSE 0
      [] fold = "MARK_ONLY" -> size

\* OutputCounter::Of.  A subtree that is already empty returns before it
\* looks at the table, so it matches nothing and marks nothing.
RECURSIVE UpperSize(_, _, _, _, _)
UpperSize(join, entries, fold, level, ctx) ==
    LET plan == join.upper
        owned == [i \in DOMAIN PlanChildren(plan, level) |->
                     plan.output[level].children[PlanChildren(plan, level)[i]]]
        size == ProductOver(
                    LAMBDA i : SumOver(LAMBDA c : UpperSize(join, entries, fold, owned[i], c),
                                       IterateLevel(plan, owned[i], ctx)),
                    WeightOf(plan, level, ctx), Indices(owned))
        matched == SumOver(LAMBDA e : e.size, MatchesOf(join, entries, ctx))
    IN  IF size = 0 \/ level # join.merge.insertion THEN size
        ELSE Folded(fold, size, matched)

\* The lower keys looked up on behalf of some upper record.  A slot is walked
\* only when the slots before it hold something.
RECURSIVE KeysLookedUp(_, _, _)
KeysLookedUp(join, level, ctx) ==
    LET plan == join.upper
        owned == [i \in DOMAIN PlanChildren(plan, level) |->
                     plan.output[level].children[PlanChildren(plan, level)[i]]]
        Below(i) == IterateLevel(plan, owned[i], ctx)
        Empty(i) == \A c \in ToSet(Below(i)) : UpperSize(join, <<>>, "MARK_ONLY", owned[i], c) = 0
        walked == {i \in DOMAIN owned : \A j \in 1 .. i - 1 : ~Empty(j)}
        here == IF level # join.merge.insertion \/ \E i \in DOMAIN owned : Empty(i) THEN {}
                ELSE {ReadKey(plan, join.upperKeys, join.types, ctx)}
    IN  here \cup UNION {UNION {KeysLookedUp(join, owned[i], c) : c \in ToSet(Below(i))} : i \in walked}

\* A size that overflows is thrown whichever side is emitted.
CountedJoin(join, entries, roots, preserveUpper, preserveLower, kind) ==
    LET filtering == kind \in {"SEMI", "ANTI"}
        fold == CASE kind = "PRODUCT" -> IF preserveUpper THEN "PRESERVE" ELSE "PRODUCT"
                  [] kind = "SEMI"    -> IF preserveUpper THEN "SEMI" ELSE "MARK_ONLY"
                  [] kind = "ANTI"    -> IF preserveUpper THEN "ANTI" ELSE "MARK_ONLY"
        sizes == [k \in DOMAIN roots |-> UpperSize(join, entries, fold, 1, roots[k])]
        thrown == Overflow \in ToSet(sizes) \cup {e.size : e \in ToSet(entries)}
        marked == UNION {KeysLookedUp(join, 1, roots[k]) : k \in DOMAIN roots}
        swept == IF ~preserveLower THEN <<>>
                 ELSE SelectSeq(entries, LAMBDA e : (e.key \in marked) = (kind = "SEMI"))
        emitted == IF filtering /\ preserveLower THEN <<>> ELSE sizes
    IN  IF thrown THEN Overflow
        ELSE SumOver(LAMBDA size : size, emitted \o [k \in DOMAIN swept |-> swept[k].size])

FactorizedCountJoin(join, preserveUpper, preserveLower, kind) ==
    CountedJoin(join, LowerEntries(join), IterateLevel(join.upper, 1, EmptyContext),
                preserveUpper, preserveLower, kind)

(***************************************************************************)
(* What a finished representation is asked.                                *)
(***************************************************************************)
\* SubtreeSum: a summed value counts once per tuple below it; a slot's sum
\* once per choice in the other slots.
RECURSIVE SubtreeSum(_, _, _)
SubtreeSum(rep, record, attribute) ==
    LET count == SubtreeSize(rep, record)
        SlotCount(i) == SumOver(LAMBDA c : SubtreeSize(rep, c), record.slots[i])
        SlotSum(i) == SumOver(LAMBDA c : SubtreeSum(rep, c, attribute), record.slots[i])
    IN  IF count = Overflow THEN Overflow
        ELSE IF count = 0 THEN 0
        ELSE IF attribute \in DOMAIN record.values THEN CheckedMul(record.values[attribute], count)
        ELSE SumOver(LAMBDA i : CheckedMul(SlotSum(i), count \div SlotCount(i)), Indices(record.slots))

\* ExecuteSum's loop over the roots.  The tuples are counted alongside, and
\* their overflow is thrown as well.
SumOfColumn(rep, attribute) ==
    IF Count(rep) = Overflow THEN Overflow
    ELSE SumOver(LAMBDA root : SubtreeSum(rep, root, attribute), rep.roots)

ProductSum(count, x, y, xy) == [count |-> count, x |-> x, y |-> y, xy |-> xy]

CombineProductSums(a, b) ==
    LET Cross(u, v) == CheckedAdd(CheckedMul(u, b.count), CheckedMul(a.count, v))
        scaled == CheckedAdd128(CheckedMul128By64(a.xy, b.count), CheckedMul128By64(b.xy, a.count))
    IN  ProductSum(CheckedMul(a.count, b.count), Cross(a.x, b.x), Cross(a.y, b.y),
                   CheckedAdd128(CheckedAdd128(scaled, MultiplyWide(a.x, b.y)),
                                 MultiplyWide(a.y, b.x)))

AddProductSums(a, b) ==
    ProductSum(CheckedAdd(a.count, b.count), CheckedAdd(a.x, b.x), CheckedAdd(a.y, b.y),
               CheckedAdd128(a.xy, b.xy))

\* What a record's own values contribute: nothing for a column it lacks.
OwnProductSum(values, weight, x, y) ==
    LET Sum(a) == IF a \in DOMAIN values THEN CheckedMul(values[a], weight) ELSE 0
    IN  ProductSum(weight, Sum(x), Sum(y),
                   IF {x, y} \subseteq DOMAIN values
                   THEN CheckedMul128By64(MultiplyWide(values[x], values[y]), weight)
                   ELSE Zero128)

RECURSIVE SubtreeProductSum(_, _, _, _)
SubtreeProductSum(rep, record, x, y) ==
    LET InSlot(i) ==
            FoldLeft(LAMBDA sum, child : AddProductSums(sum, SubtreeProductSum(rep, child, x, y)),
                     ProductSum(0, 0, 0, Zero128), record.slots[i])
        below == FoldLeft(LAMBDA sum, i : CombineProductSums(sum, InSlot(i)),
                          ProductSum(1, 0, 0, Zero128), Indices(record.slots))
        size == SubtreeSize(rep, record)
    IN  IF size = 0 THEN ProductSum(0, 0, 0, Zero128)
        ELSE IF size = Overflow THEN ProductSum(Overflow, Overflow, Overflow, Overflow128)
        ELSE CombineProductSums(OwnProductSum(record.values, WeightIn(rep, record), x, y), below)

\* ExecuteProductSum's loop over the roots; an overflow of any part is thrown.
ProductSumOf(rep, x, y) ==
    LET Thrown(p) == Overflow \in {p.count, p.x, p.y}
        Plus(sum, p) == IF Thrown(p) THEN Overflow128 ELSE CheckedAdd128(sum, p.xy)
        sum == FoldLeft(LAMBDA sum, root : Plus(sum, SubtreeProductSum(rep, root, x, y)),
                        Zero128, rep.roots)
    IN  IF Count(rep) = Overflow THEN Overflow128 ELSE sum

\* Enumerate: the flat tuples, a record's own values first, then its slots
\* from the first to the last; a weight repeats what is below it.
RECURSIVE TuplesOf(_, _)
TuplesOf(rep, record) ==
    LET InSlot(i) == FlattenSeq([k \in DOMAIN record.slots[i] |-> TuplesOf(rep, record.slots[i][k])])
        Cross(left, right) ==
            FlattenSeq([j \in DOMAIN left |-> [k \in DOMAIN right |-> left[j] @@ right[k]]])
        once == FoldLeft(LAMBDA done, i : Cross(done, InSlot(i)),
                         <<record.values>>, Indices(record.slots))
    IN  FlattenSeq([copy \in 1 .. WeightIn(rep, record) |-> once])

Enumerate(rep, limit) ==
    LET all == FlattenSeq([k \in DOMAIN rep.roots |-> TuplesOf(rep, rep.roots[k])])
    IN  IF limit = 0 \/ limit >= Len(all) THEN all ELSE SubSeq(all, 1, limit)

(***************************************************************************)
(* Census: what a step's statistics are taken from, level by level.  The   *)
(* children are counted as often as they weigh.                            *)
(***************************************************************************)
RECURSIVE RecordsAt(_, _)
RecordsAt(rep, level) ==
    LET node == Topology(rep.tree)[level]
        above == RecordsAt(rep, node.parent)
    IN  IF node.parent = 0 THEN rep.roots
        ELSE FlattenSeq([k \in DOMAIN above |-> above[k].slots[node.slot]])

CensusOf(rep, records) ==
    LET slots == FlattenSeq([k \in DOMAIN records |-> records[k].slots])
    IN  [records |-> Len(records),
         populated |-> Len(SelectSeq(slots, LAMBDA children : children # <<>>)),
         children |-> FoldLeft(LAMBDA n, c : n + WeightIn(rep, c), 0, FlattenSeq(slots))]
Census(rep) == [level \in 1 .. NodeCount(rep.tree) |-> CensusOf(rep, RecordsAt(rep, level))]
=============================================================================
