# A verification project for factorize

`factorize` is a DuckDB extension. An optimizer rule recognises aggregates over
joins and replaces the plan below them by one source operator,
`PhysicalFactorized`. The operator reads the base tables, builds a *factorized
representation* of the join, which never lists the join's tuples, and counts,
sums or folds over that. Whatever goes wrong, it can hand the query to the plan
it replaced (the *stock plan*), which is kept as its child.

Three things must hold. The rule must not change what a query **means**. The
operator gives **one** answer: the factorized one or the stock plan's, whole, or
an error. And the factorized answer is **the** answer: every bucket of the
partition once, every group once, every aggregate that of the flat join. The
modules here state all three, model the code that has to establish them, check
it with TLC, and prove with TLAPS what the concurrent parts promise for any
number of threads, and what the arithmetic promises at any width.

## Inventory

For every part: its state, its operations, who it talks to, what is hard, and
what makes it right. Paths are below `src/src/`.

**Optimizer rule** (`duckdb/optimizer_rule.cpp`, `logical_factorized.*`). State: the
logical plan being rewritten, and one *region* at a time: leaves, edges,
aggregates, groups, filters, the columns to be guarded against NULL. Operations:
`RewriteRecursive`, matching (`MatchAggregate`, `MatchProjections`, `MatchLimit`,
`MatchJoinGraph`, `MatchLeaf`), `BindRegion`, `TryTranslateFilter`, the replacement.
Hard: columns are renamed by projections, positions in a scan are not positions
in a table, casts are looked through, a NULL drops a row the engine would keep
or keeps one it would drop. Right when the new plan answers as the old.

**Storage source and shared relations** (`duckdb/storage_source.*`). State: the
relations read so far. `Load` and `AppendChunk` read one table at a time, apply
the carried filters, drop rows whose key is NULL, and throw where a dropped row
would have counted. Called by the operator once per query.

**Operator: entering, failing, falling back** (`duckdb/physical_factorized.cpp`,
`physical_factorized.hpp`). State: `FactorizedGlobalSourceState` (`fell_back`,
`fallback_phase`, the collected rows and their scan) under one mutex, and the
`thread_local fallback_running`. Operations: `GetDataInternal` and its catch,
`EmitFallback`, `DriveFallback`, `HelpFallback`, `ScanFallback`, `Sink`. Called by every
worker that runs a source task of the query; it calls DuckDB's executor, which
may call *it* again on the same stack. Hard: the driver waits for tasks that the
helpers, or nobody, may run; the phase must change however the driver leaves; an
exception has to end either in the stock plan or in the user's hands. Right when
one thread drives, nobody waits for ever, no frame nests, and an error is either
recovered from or reported.

**Operator: ungrouped count, limited count, sum of a product** (`Factorized()`).
State: `next_slice` (atomic), `total`, `completed`, `error`, `inputs`, `handed_out`.
Each thread claims a bucket of a hash partition, counts it without the lock, and
adds it under the lock; the thread that completes the buckets answers. Hard:
another thread may fall back at any point of that. Right when there is at most
one answer and it counts each bucket once.

**Operator: grouped and ungrouped folds** (`EmitGroups`). State: `merged`,
`groups`, `counts`, `handed_out`, `completed`, `error`. Buckets are folded apart
and merged by key; the list is then handed out a vector at a time by whoever
calls. Hard: the fold and the hand-out are two protocols over one state, and
values are converted only while they are handed out. Right when the published
groups merge every bucket, and each goes out once.

**Group fold** (class `GroupFold`, `GroupBy`, `MergeGroups` in `core/plan.cpp`;
`SubtreeSize`, `SubtreeSum`, `SubtreeExtreme` in `core/frep.cpp`). Sequential. State: the
map from key to `Fold` under construction. Hard: keys in sibling branches, empty
subtrees, weights, and extremes, for which zero is not neutral. Right when the
groups are those of the flat join.

**Counting within memory** (`core/plan.cpp`: `ExecuteCountSlice`, the retries with
more buckets, the count by a second key, `ExecuteCountAtMost`). State: which parts
of a bucket have been counted, the shared abandon flag. Hard: parts fail for
memory and are counted again in 8, 64, 512 and 4096 pieces; limits stop early.
Right when the parts add up to the bucket.

**Slice budget, arena, hash table** (`core/arena.hpp`, `core/hashtable.hpp`, the limits in
`core/join.cpp`). State: a `thread_local` budget with its limit, what it is charged and a
pointer to the flag siblings raise; per arena its chunks; per table its two
vectors. Hard: the budget outlives queries, arenas are moved between structures,
an exception destroys half of what was built. Right when the account is what the
structures alive hold, to the byte, and only what exceeds a limit fails.

**Extreme reduction** (`core/plan.cpp`: `ExecuteExtremeReduced`, `ShardedKeySet`,
`RunInParallel`). State: a key set per relation reduced, in shards, filled by a team
of threads that is joined after each of two rounds. Hard: open-addressing sets
that grow while they collide, one key value that marks an empty slot, workers
that throw or cannot be started. Right when the extreme is that of the join.

**Join planner and f-tree** (`core/plan.cpp`: `IsAcyclic`, `BuildPlan`, `BuildCostSteps`,
`ChooseSliceColumns`; `core/ftree.*`). State: the steps so far and a *simulated* tree.
Hard: the planner decides on the simulated tree, the executor meets real ones;
siblings in the tree must share no condition. Right when a complete plan executes.

**Representation and join steps** (`core/frep.*`, `core/join.*`, `core/materialize.*`,
`core/enumerate.hpp`). State: records with child pointers and weights. Operations:
`MakeScan`, `FactorizedJoin`, `FactorizedCountJoin`, enumeration, sums, products, census.
Hard: inserts at the top or the bottom, merges of sibling nodes, records left
empty. Right when the representation denotes the flat join.

**Checked and 128-bit arithmetic** (`core/int128.hpp`, `core/frep.hpp`). Right when it throws
exactly where the true result does not fit, and carries and borrows right.

**Byte layout** (`core/layout.*`), **cost model, statistics, gate** (`core/cost.*`,
`core/stats.*`), **calibration and statistics cache**, **table functions**,
**benchmark, scripts, tests**: see "Not modelled".

## Modules

| module | what it is |
|---|---|
| `LogicalPlan` | external: logical plans and what DuckDB answers for them |
| `OptimizerRule` | the rule's walk, matching, binding and replacement, and how a planted operator reads storage and answers |
| `FallbackPlan` | `GetDataInternal` with its catch, and the whole stock-plan protocol; extended by the next two |
| `CountOperator` | `Factorized()` for a count, a limited count, a sum of a product |
| `GroupOperator` | `EmitGroups` |
| `QueryAnswer` | the abstract specification: what a query promises its user |
| `SliceMemory` | counting or listing a join, or a bucket of it, in pieces that may not fit |
| `SliceBudget` | what a slice may hold: budgets, arenas and tables over threads that outlive queries |
| `QueryGraph` | join graphs, attribute classes, acyclicity, slice columns, the flat join |
| `FTree` | factorization trees and their restructuring |
| `JoinPlan` | `BuildPlan` and `BuildCostSteps` |
| `WideArithmetic` | words, checked operations and two-word sums at a scaled width |
| `Representation` | records, joins, enumeration, sums, census |
| `Engine` | the engine's entry points, composed of the five above |
| `GroupFold` | the fold of a representation into groups, and `MergeGroups` |
| `ExtremeReduction` | the semi-join reduction and its team of threads |
| `FallbackPlanProofs`, `CountOperatorProofs`, `GroupOperatorProofs`, `SliceMemoryProofs`, `SliceBudgetProofs`, `EngineOperatorProofs`, `ExtremeReductionProofs`, `GroupFoldProofs` | theorems |
| `MC...` | small instances |

How they compose: `OptimizerRule` plants operators, and the answer a planted
operator gives is what `CountOperator` and `GroupOperator` deliver (their subject is
delivering it once and whole). These count or fold a bucket in one step; that a
bucket's count is right although its pieces may not fit is `SliceMemory`, when they
do not fit is `SliceBudget`, that the buckets partition the join and each is counted
right is `Engine`, and that a fold over the result is right is `GroupFold`. An
ungrouped MIN or MAX over a spanning tree goes through `ExtremeReduction` instead.

### How the models correspond to the code

*Threads.* `pc[t]` is where worker `t` is. A block under the lock is one action;
the lock is never held across one. `fetch_add` is one action. Work without the
lock (counting or folding a bucket, running a stock task) is one action too, so
that everything can happen between claiming a bucket and folding it. Reading
`fell_back` under the lock and acting on it after the lock is released are two
steps: `Enter` picks the path and the next action takes it.

*Exceptions.* `Throw(t, kind)` leaves the factorized path; `Catch(t)` is the catch
of `GetDataInternal`. Kinds are *fatal* (FATAL and INTERRUPT, which are rethrown)
and *recoverable*. `inTry[t]` says whether the `EmitFallback` frame on `t` was
called from inside the try, as it is when a thread drops its bucket
(`physical_factorized.cpp:865`).

*DuckDB's executor* is external. A queue of source tasks, each calling the
operator until it is told FINISHED (`idle` to `enter` and back); a queue of stock
tasks, which idle workers take and which `WorkOnTasks` gives to a driver or helper;
an error flag that ends the query. `WorkOnTasks` may also give a source task of
the same operator (`Reenter`).

*Data.* In the operator modules a bucket's count or groups are abstracted to the
bucket itself: `total` and `merged` say how often each bucket went in, which shows
a bucket counted twice or left out whatever its count. Chunks of rows are
numbered. `GroupFold` and `Engine` are where the values are.

*Pieces.* In `SliceMemory` a call (`ExecuteCountSliceWithinMemory`,
`ExecuteCountWithinMemory`, `ExecuteCountAtMost`, `ExecuteMaterializeWithinMemory`)
is a row of the state: the bucket it is at, the way that bucket is cut
(`attempt`), the next piece, and how often each tuple has been counted in this
attempt (`got`) and before it (`total`). One action counts one piece, and ends in
one of the ways the code tells apart: it fits, it does not fit
(`MemoryLimitExceeded`), it fails, a sibling has given up (`SiblingGaveUp`), the
sum overflows. A tuple is its two hashes.

*Bytes.* In `SliceBudget` a step is one call on one structure: `Arena::Allocate`,
`ChainingHashTable::Insert` or `Finalize`, the end of a join (which moves the output
into the accumulated arena), the end of a piece, an exception, a retry. The
thread's budget is a record of limit, bytes charged and the query whose flag its
pointer points at. Only the flag is shared, and one call reads it once.

*The engine.* In `Engine` planning is one action per relation attached; execution is
one action per join, per bucket, and one for the read that ends a question. A
record is `[values, weight, slots]`, and a slot is the sequence of its child records;
what a chain's order and a record's bytes are is abstracted, so sets of tuples are
compared as bags. Hash functions are constants: `Hash` is what `% slices` sees of a
key. INT32 is a half word and INT64 a word of `WideArithmetic`, at two bits a half,
so that every carry, borrow and overflow occurs among the values. A join also fails
where the size of a root, which pruning computes, or the total a measured join counts
(`MeasureStep`) overflows (`SizeThrows`). The census is taken level by level, and
`RepresentationIsPrefixJoin` holds it against the flat join: as many records at a level
as there are choices of rows along its path, or of values where a scan grouped equal rows.

*The fold.* In `GroupFold` one action folds a part and merges its groups; the fold itself
is a function. `Cross` maps a call (the record, the slots it has left to walk, the keys
fixed so far and the fold from above) to the groups that call adds to `out`; `DescendBy`
is `Descend`, handed the function it calls back into. The code threads one map through
all calls and adds to it in the order of the children; here each call returns its own
and `Gathered` adds them up, which is the same as the operations are checked ones on
numbers. `SubtreeSize`, `SubtreeSum` and `SubtreeExtreme` are functions of a record; that
they are cached in it is left out.

*The reduction.* In `ExtremeReduction` the walk that roots the tree visits one predicate
at one parent per step (`Visit`), and is refused if it does not reach every relation.
The relations are then reduced from the last of the order up. A round's worker threads
are started one by one (which may fail, `StartFails`); a prober takes one row of its span
per step (`ProbeRow`), a worker that fills a shard inserts one key per step
(`InsertKey`) and grows the set before a key that might find no room (`GrowShard`); any of them may throw at any step (`WorkerThrows`), where
an allocation fails. The round ends when all are joined, and a throw of any fails
the call. Key sets are slot by slot: probing, growing, rehashing and the key that
equals the empty marker.

*The rule.* In `OptimizerRule` one action matches a region, one binds the relations, one
each edge, aggregate, group and leaf's filters, one replaces the region, the gate
having said yes or no, which is a choice. Then the plan executes: one action per
relation read, one per answer. A row is a function from bindings to values. What
the engine makes of a bound region is its flat join on the packed key words of
`KeyReader::Read`. Operators with an unmodelled meaning (LEFT joins, samples, grouping
sets) have no answer at all, so that replacing one is wrong whatever comes out.

*The answer.* `QueryAnswer` is refined by both operator modules: `source` is the plan
that has begun to answer, `chunks` what the user has been given of it, `outcome`
how the query ended. An answer is chosen once, delivered to its end, and a query
finishes only then, or fails. It states safety; that a query gets as far as its end is
`QueryEnds`, a property of its own in both runs, which is more than fairness of the
abstract steps would give. `ImplementsQueryAnswer` is the refinement, and the mapping
(`Source`, `Chunks`, `Outcome`) is defined beside it.

## Runs

| run | instance | shows |
|---|---|---|
| `count` | 2 threads, 3 buckets, 2 stock tasks, fair | one answer, exact; one driver; no nested frame; fallback final; only serious errors surface; implements `QueryAnswer`; the query ends |
| `count_driver_error` | 2 threads, a driver error nobody recorded | finding 1 |
| `group` | 2 threads, 2 buckets, 2 stock tasks, up to 3 groups in chunks of 2, the first of which may not convert, fair | one source, an exact merge, every group once, a driver's error reported, implements `QueryAnswer`; the query ends |
| `group_exceptions` | 2 threads; reading the inputs may throw, the last of 3 groups does not convert | findings 2 and 3 |
| `group_fold_exact` | a four-level tree, up to 2 children in a slot, weights 1 and 2, empty slots, every key set over three levels, 2 parts | groups, counts and sums of the flat join; extremes where the keys lie on one path |
| `group_fold_extremes` | as `group_fold_exact` | finding 4 |
| `slice_memory` | 3 slices on 3 threads, or 1 call over 2 probe buckets, or over the whole join; 6 tuples, 2 of them with one key; cuts into 2 and 4 pieces, then 2 by the second key; limits 0 to 3; fair | counts, limits and lists are exact whatever does not fit; siblings stop only for a cause; every call ends |
| `slice_budget` | 2 threads that serve a sliced query with limit 8 and an unlimited one, in either order; 3 entries; symmetry | the account is exact, the limit kept, no stale flag, nobody grows after a sibling gave up |
| `engine` | a chain, one class over three relations, a composite key, a cycle, every small graph over three relations with up to three predicates, five graphs to decline; both modes, both strategies, every entry point | every answer is that of the flat join; buckets partition it; after every join the representation is the bag of the joined relations' tuples, with their number and census; a complete plan executes; trees keep paths; the cost steps mirror the engine |
| `rule` | 42 plans: those the rule takes over, and next to each what it must leave; 14 catalogs, with NULLs committed or not | the rewritten plan answers as the original; the NULL guard throws only over uncommitted rows |
| `rule_widened_key` | one plan that joins a widened INTEGER with a BIGINT | finding 5 |
| `reduction` | paths, stars and graphs to refuse, from either end, one worker, two and four; sets of 8 slots that collide; workers that throw or cannot be started | the extreme is that of the join; survivors are the semi-join; no worker outlives its round |

*Why the bounds are enough.* In the operator runs two threads are a thread that
fails or drives and one that is still counting, helps or re-enters; three buckets
let one be lost, one folded and one held. More threads make the liveness and
refinement checks too large, and the safety of any number is proved. Two stock
tasks let one be finished while another is running. `NumberOfThreads` is both the
number of buckets a query gets and a bound on source tasks; the number of tasks
DuckDB launches is any number up to it.

In `GroupFold` the smallest tree with both a slot above a branching level and two
siblings below it has four levels; two children make an alternative; the values -1
and 2 lie on both sides of zero, the value of an uninitialised extreme. In
`SliceMemory` two moduli show a retry after a retry, the first of which may have
counted some of its pieces; the number of slices is not a power of two, so that the
moduli 3, 6 and 12 and the moduli 2, 4 and 8 are both tried; two tuples with one
key are told apart by the second key only.

In `SliceBudget` three entries make the table's vector grow twice and its directory
take more than the entries; a limit of 8 is met by every structure on some path;
`MaxHeld` bounds a query without limit and `MaxDoublings` how often one request
doubles a size. Nothing is doubled more than twice by the sizes of the run
(`DoublingsAssumption` says so, and TLC evaluates it); the theorems hold for any
value of either bound.

In `Engine` three relations are the least with a join on a joined result, four make
the only cycle that merges siblings; a relation has up to three rows with
duplicates, signs and values that share a bucket; half words of two bits make 16
values a word, and `GroupRoom` 1 makes `MakeScan` stop grouping. `SliceSteps` 2 and 4 are
the first two of `kSliceSteps`. In `ExtremeReduction` eight slots and a first key set
of that capacity make a set of three keys probe past its end and grow once; one key
is the empty marker. In the rule's runs every shape the matcher tells apart has a
plan, and two tables of one row each suffice to tell a dropped row from a kept one;
2 aggregates and 3 relations are the limits to exceed.

The passing runs restrict what the environment throws, or asks, exactly where the
code does not cope. Two restrictions hold in every run: no table has a `UBIGINT` of
2^63 or above, and no graph that completes has a condition between two columns of one
relation (see "Noted while modelling"). A violation run lifts each of the others: `count` has no
unrecorded driver error but a fatal one (finding 1), `group` no recoverable read error
(finding 2) and no unconvertible group after the first chunk (finding 3; the trace
of finding 2 shows with `Unconvertibles = {{}}`), `ExtremesExactOnOnePath` assumes keys on one path (finding 4),
and the plans of `rule` join no widened key with a wider one (finding 5).

*Fairness.* `WF_vars(Step(t))` for each thread of the operators and of `SliceMemory`: an
operating system runs a thread that can take a step. That is all; no action is
favoured over another. A bucket that is being counted returns or throws (the code
bounds its time and memory), a task of the stock plan ends, and a waiting loop
(`HelpFallback`, or a grouped thread told HAVE_MORE_OUTPUT with an empty chunk) polls
again. The other modules state safety only: they are sequential, or end by themselves.

## What is proved

All theorems hold for any finite set of threads and any value of the other constants
that satisfies the named assumptions, which TLC evaluates in every run.

**`CountOperatorProofs`**, of `CountOperator`'s `Spec`: `TypeCorrect` (`TypeOK`),
`AlwaysOneDriver` (`OneDriver`), `NeverNested` (`NoNestedFrames`), `NeverTwoAnswers`
(`OneAnswer`), `AnswerIsExact` (`TotalIsExact`) and the action property
`FallbackStaysFinal` (`FallbackIsFinal`). Assumptions: `ThreadsAssumption`,
`SizesAssumption`, `DriverAssumption`.

*The argument.* `OneAnswer` is not inductive: nothing in it says why a thread
that is about to answer cannot be overtaken by one that throws. The invariant
`IInv` follows the buckets. A claimed bucket is *held* by exactly one thread,
*folded* exactly once, or *lost*, and what is lost stays lost (`Partition`). A query
is *spoiled* when a bucket is lost, an error is recorded or `factorize_debug_fail`
is set, and a spoiled count never completes. Any exception spoils
(`ThrownIsSpoiled`): a thread throws while it holds a bucket, and loses it, or after
an error was recorded. Therefore a count whose buckets are complete was never
spoiled, nobody has thrown or can, no thread holds a bucket, and the thread that
folded the last one is alone (`Publisher`, `AnswerInv`). The sum of a product has no
bucket and relies on having one task (`OneTask`). That `completed` reaches the number
of slices only when all buckets are folded is an argument about cardinalities.

**`GroupOperatorProofs`**, of `GroupOperator`'s `Spec`: `GroupTypeCorrect` (`TypeOK`),
`PublishedGroupsAreExact` (`GroupsAreExact`), `GroupsHandedOutOnce` (`EveryGroupOnce`)
and `DriverErrorSurfaces` (`DriverErrorFailsQuery`), for any number of groups and any
size of a vector (no run repeats `TypeOK`). Further assumptions: `GroupsAssumption`,
`ReadAssumption`.

*The argument.* `Partition` again ties `completed` to the buckets merged. `HandingOut`
ties the groups emitted to `handedOut`: exactly the groups up to it, but for those of
a chunk that threw, and a query nobody has given up has an open task until nothing
is left beyond it. `HandedOver` says every trace of the stock plan comes after
`fell_back`, and that no frame of the grouped path is inside the try, which is why
finding 1 concerns counts only.

`OneSourceWhenTame` is about findings 2 and 3. `OneSource` is false in general, as
the runs show. It holds whenever reading the inputs can only fail fatally and the
first group that cannot be converted is within the first chunk (`Tame`). So these two
exceptions are the *only* way to an answer from both plans. The argument is that of
`ThrownIsSpoiled`, with one more mark, `Unconvertible`: a spoiled merge is never
published, and an unconvertible group keeps the first chunk, and with it every
other, from going out.

**`SliceBudgetProofs`**, of `SliceBudget`'s `Spec`: `CountersStayNatural` (`TypeOK`),
`AccountAlwaysExact` (`AccountIsExact`), `BudgetAlwaysKept` (`BudgetIsKept`),
`NeverAStaleFlag` (`NoStaleFlag`) and the action property `AbandonedAlwaysStops`
(`AbandonedStopsGrowing`), for any number of threads and queries, any limits and
sizes. Assumptions: `QueriesAssumption`, `SizesAssumption`, `DoublingsAssumption`.

*The argument.* The invariant is local to a thread (`Local`): the account is the sum of
what its arenas and its table report as their own, a thread between pieces holds
nothing, and the flag is its own query's or none. Each growth charges what the
structure then reports, each destruction returns what it reports. `size_t` cannot
wrap because the sum consists of natural numbers. That the chunk an arena asks for
exists and is large enough (`MinIsLeast`) is shown by picking the least of a finite
set of doublings.

`FallbackPlanProofs` holds the step lemmas of the shared half (`PlanInitInv`,
`PlanStepInv`, `PlanStepStock`), used by both operators.

`SeriousErrorsOnly` (`OnlySeriousErrorsSurface`), of `CountOperator`'s `Spec`, rests on
the last of them. Its invariant, `StockInv`, is that no stock task is lost before an
error is recorded: the tasks queued, in work and finished make up none or all of
`StockTasks`. A driver that leaves without an error then leaves no task behind, so a
task that fails does so while the stock plan runs, and what fails otherwise was
rethrown for its kind.

**The operators implement `QueryAnswer`**: `CountAnswersTheQuery` (in
`CountOperatorProofs`) and `GroupsAnswerTheQuery` (in `GroupOperatorProofs`) prove
`ImplementsQueryAnswer` for any number of threads, buckets, stock tasks, stock chunks
and groups. The first assumes that no driver fails with a recoverable error nobody
recorded (finding 1), the second `Tame` (findings 2 and 3); without these the
refinement is false, and the violation runs show it.

*The argument.* Each step is a step of the query or changes nothing its user sees:
`EmitRow` gives the factorized answer, `FinishDriving` opens the stock plan's,
`HandOutGroups` and `ScanFallback` deliver a chunk, the step that ends the query
finishes or fails it. What must be shown is that a query cannot *finish* too early.
For the stock plan (`StockBound`, `StockAnswers`): the tasks queued, running and
finished are never more than `StockTasks`, so that a driver who leaves without an
error leaves all of them finished, and until the last chunk has gone out somebody is
left who will scan it. For the factorized answer (`FactorizedAnswers`): while nobody
has answered, a source task is left or every bucket is claimed; a lost bucket means
an exception still in flight or the fallback; and once all are folded the thread
about to answer exists. `Chunked` says that every vector of groups but the last is
full, so that the chunks are counted right. `FromStock` and `FromFactorized` keep the
two sources apart, and nothing happens after the end.

**`SliceMemoryProofs`**, of `SliceMemory`'s `Spec`: `CountAlwaysExact` (`CountIsExact`),
`LimitAlwaysExact` (`LimitIsExact`) and `AlwaysStoppedForCause` (`StoppedForCause`),
for any number of threads and slices, any sequence of cuts, any finite set of tuples
and any two hash functions. Assumptions: `TuplesAssumption`, `PartsAssumption`.

*The argument.* Under every cut a tuple is in exactly one piece of exactly one bucket
(`Index`): cutting a bucket of `n` into `m` takes the remainder by `n * m`, whose
remainder by `n` is the bucket (`RemainderSplits`), and a cut by the
second key leaves the bucket alone. `Underway` then says what a running call
holds: `got` counts once the tuples of its bucket in the pieces before the next, and
nothing else, `total` once those of the buckets before, whatever was tried, given up
and started over. That is where a retry that keeps a partial count, or a cut that
skips a piece, would show. `RaisedForCause` says the flag the siblings stop for was
raised by a call that did fail.

**`EngineOperatorProofs`**, of operators that have no state of their own.

*The integers* (`WideArithmetic`): `CheckedAddIsExact`, `CheckedMulIsExact`,
`CheckedAdd128IsExact`, `MultiplyWideIsExact` and `CheckedMul128IsExact`. The
operations of `int128.hpp` and the checked ones of `frep.hpp` return the true sum or
product if it fits, and the marker they throw for if it does not, for any even base of
a half word. Assumption: `HalfAssumption`, all the proofs need to know of 2^32 (the
provers have no theory of powers). TLC evaluates the same operators at two bits a half.

*The argument.* Everything is an equation between numbers. A two-word number is
`high * Word + low` with a signed high word; addition carries at most one. A product
of words is built from four products of halves, each of which, with a half word and a
carry added, still fits a word (`MultiplyWideIsExact`). Of the product of a two-word
number and a word the upper word must vanish, and the sign is put back on the
magnitude. A product of magnitude 2^127 is refused whatever its sign, as the comment
in the code says (`int128.hpp:164`), although a negative one would fit: that is the
one number the theorem excepts.

*The slices* (`QueryGraph`): `SlicesHoldEveryTupleOnce`, `SlicesAddUp` and
`SecondKeyAddsUp`. For any graph whose predicates name columns there are, any tables,
hash and number of slices, and any class that some relation carries: the flat tuples of
the slices correspond one to one to those of the query, with the same rows, so that
their numbers add up, also when every slice is cut again on a second class. No
assumption on a constant is needed.

*The argument.* No two columns are one attribute (`AttributesApart`), as the columns
before a relation are counted from one relation to the next (`BaseIs`). `FullClasses` is
a fold over the predicates; at each of its steps, columns of one class hold one value in
every flat tuple, because a union joins two classes whose columns the predicate makes
equal (`ClassesAgree`). So the rows of a flat tuple, in whichever relations carry the
class, hash alike: they are in one and the same slice, which is found from any of
those relations. A slice holds each row that falls into it once (`SlicedIs`), and a
relation that does not carry the class is in every slice whole; that its rows are in
all slices duplicates no tuple, since another relation's row of the tuple is in one
slice only. This is why the code may pass such a relation through. It would not hold
for a class that *no* relation carries, whose slices would all be the whole query, and
`ChooseSliceColumns` gives none.

`Engine`'s `SlicesPartitionTheJoin` goes further than that: it says the same of what the
engine *executes* on each slice, and of the class the ranking picks, and stays with TLC.

**`ExtremeReductionProofs`**, of `ExtremeReduction`'s `Spec`: `ExtremeOfTheJoin`
(`ReducedExtremeIsExact`), `SurvivorsOfTheJoin` (`SurvivorsAreTheSemiJoin`) and
`TeamsAreJoined` (`TeamIsJoined`), for any acyclic join graph, any tables, column and
hash, any number of threads in any order, and wherever one throws or cannot be started.
Assumptions: `GraphsAssumption`, `TablesAssumption`, `AsksAssumption`, `ValuesAssumption`,
`HashAssumption`, `SizesAssumption`; none of them says more than that a table has the
columns of its relation, a predicate names columns that exist, and a hash is a number.

*The argument*, from the bottom up. A key set is *sound* (`SoundSet`) when every key in it
is there once, is reached from its own slot over filled slots, and is counted, and the
count is less than the slots. Then a free slot exists, so every probe ends, and it ends
at the key if the key is there. `PutKeeps` and `GrowKeeps`: inserting a key adds that key
and no other, doubling the table and rehashing loses none. A tree is *rooted* when each
relation but the first hangs below an earlier one by a predicate of its own
(`WholeTree`). There are as many predicates as relations to hang, so all of them are used,
and a tuple satisfies the predicates exactly when it does so along the tree. A row is
*kept* when every child's reduced relation holds its key. Bottom up, the rows of a tuple
of the join are all kept; top down, a kept row extends to a tuple of its subtree. While a
relation is being read, the rows its workers have behind them and the keys waiting in
their buckets together account for the kept rows (`IInv`), and the spans cover all rows,
so that once the team is joined nothing is missing. None of the three properties says
this by itself: what a survivor lacks is in a bucket, and what is in a bucket is known
only from how far its worker is. The inductions are by a least counterexample
(`LeastOf`), as the library's induction theorems take an operator.

**`GroupFoldProofs`**, of `GroupFold`'s `Spec`: `CountsAndSumsAlwaysExact`
(`CountsAndSumsAreExact`) and `ExtremesAlwaysExactOnOnePath` (`ExtremesExactOnOnePath`),
with `SubtreeAggregatesAreExact` and `DescendIs` on the way: for any f-tree, any records
over it, any keys, aggregates and values, and any parts that are folded one after the
other. Assumptions: `TreeAssumption` (the levels are numbered in preorder and hang in one
slot each, as `FTree` builds them), `RecordsAssumption` (a record has a slot for each
slot of its level, with finitely many children of the level there, and a weight of at
least 1, which `SetWeight` insists on), `QueryAssumption`, `PartsAssumption` and
`RangeAssumption`. A record may have fields beside those named, so that two equal records
of one slot can be told apart.

*The argument.* The reference is the flat join, so everything is about sets of *rows*,
which name a record for each of some levels. A fold *stands for* a set of rows when it
has their number, sums and extremes (`Standing`). Two operations on rows explain the two
on folds. Rows over disjoint levels multiply (`Times`), and `Combine` stands for the
product: each row of one side is paired with each of the other, hence
`a.sum * b.count + a.count * b.sum` (`SumPairs`). Disjoint sets of rows over the same
levels add, and `Alternatives` stands for the union. The rows below a record are the
product of its copies and of the rows of each slot (`RowsSplit`); the rows of a slot are
the disjoint union of its children's. By induction on the levels the subtree aggregates
are those of the rows below (`SizeIs`, `SumsAre`, `ExtremesAre`); that the division in
`SubtreeSum` is exact, and never by zero, is `SlotTerm` and `EmptySlot`.

For the walk, the statement that is inductive is about one call: if its fold stands for
the rows of X, then the groups it returns are those of X times the rows below the slots
it has left, and each group stands for its own rows (`CrossGood`). The number of levels
left falls with every nested call, whether it goes down to a child or on to the next slot
(`CallRank`), so every call is right (`CrossAll`). The branch that starts from a default
`Fold` is where the two theorems part: its count and its sums are those of the row that
names nothing, its extremes are not (`StandingNewFold`), and it is only reached where two
slots carry keys. The invariant over the parts, `FoldInvariant`, is that the groups so
far are those of the parts so far (`Exact`); a part adds rows that were not there, and
`MergeGroups` merges what two disjoint sets of rows have (`MergeIs`).

The provers know a recursive function only as some function that satisfies its text.
That there is one is proved for each, from one lemma (`Recursion`): a text whose calls
fall in a bounded rank has a solution, built rank by rank. `SumFunction` is such a
definition too: it adds one element after another, in an order nobody knows, and
`SameMeasure` shows that the order does not matter.

*Model-checked only.* Liveness (`QueryEnds`, `EveryCallEnds`), which this prover does
not reach; and the invariants of `Engine` and `OptimizerRule`, but for the slices
above: their operators are declared `RECURSIVE` over trees, representations and plans,
for which the prover has no rule.

## Findings

1. **A driver's error can vanish** (`physical_factorized.cpp:865`). A thread that drops
   its bucket calls `EmitFallback` inside the try. If it becomes the driver and its
   own work throws, the catch treats that as a failure of the factorized path,
   re-enters `EmitFallback`, finds FAILED, and the scan says FINISHED: no rows, no
   error.
2. **Reading inputs spoils nothing** (`physical_factorized.cpp:422`). On the grouped path
   a thread whose read of the inputs throws has claimed no bucket. Until its catch
   runs, others can read, fold and emit the groups; then the stock plan answers too.
3. **Conversion after emission** (`physical_factorized.cpp:493`). A value that does not
   convert throws after earlier vectors of groups were returned; the stock plan
   answers on top. A `UBIGINT` of 2^63 and above is kept as a negative `int64`
   (`storage_source.cpp:118`) and is such a value.
4. **Extremes compared with zero** (`plan.cpp:2347`). `Cross` groups a branch from a
   default `Fold`, whose extremes are 0, and not from `Identity()`. With keys in two
   sibling branches, `MIN` of positive or `MAX` of negative values comes out as 0.
5. **A widened key meets the wrong row** (`join.cpp:485`). The rule sees through a
   widening integer cast inside the join tree and joins the columns below without
   comparing their widths; `KeyReader::Read` packs an INT32 zero-extended and an
   INT64 whole. A negative INTEGER misses the equal BIGINT, and meets the one 2^32
   above it.

Noted while modelling, and in no run:

* A slice's limit can be exceeded by the last growth of its table's list of entries:
  the vector grows after the check of the entry's own chunk (`hashtable.hpp:213`).
  `BudgetIsKept` states the limit with that term.
* A thread that cannot be started inside `RunInParallel` leaves others joinable, which
  ends the process (`plan.cpp:512`); in the model that is a round of its own, `terminated`.
* The key sets of the extreme reduction are not charged to any slice budget.
* A condition between two columns of one relation is covered by no join and dropped
  (`plan.cpp:939`); the optimizer rule never makes one, `factorized_count()` can.
* Redundant INT64 predicates in one class count towards the key's width, so that some
  graphs are declined that would fit.
* MIN, MAX and SUM over a `UBIGINT` of 2^63 and above are those of a negative number
  (`storage_source.cpp:162`); the rule's tables hold no such value.
* `count(c)` of a nullable `c` under a LIMIT is accepted; the answer is one that SQL permits.
* `Negate` of the smallest 128-bit number (`int128.hpp:78`) overflows a signed word
  inside `CheckedMul128By64`. Builds wrap, as the model does, and the product is then
  refused (`CheckedMul128IsExact`).
* `ExecuteProductSum` does not look at `plan.complete`; the rule replaces no region whose
  plan is incomplete.

## Not modelled

*Byte layout* (`layout.*`): offsets and alignment inside a record, a static computation
that unit tests cover over every shape. *Cost model, statistics, gate, calibration*:
floating-point estimates that decide whether a plan is worth replacing, never what
it answers; the gate's verdict is a choice, and only the steps the cost model is
given are checked (`CostMirrorsTheEngine`). *The table functions*: sequential binding
over the same engine. *Benchmark, scripts, tests*: not part of the extension.

Abstracted inside modelled parts:

* the order of children and of hash chains, and collisions of `HashRow`: the code
  compares keys after hashing, and the model's sets are compared as bags;
* record and byte statistics other than the census, and the peak of the budget;
* a table's check and its growth are one step, as its thread alone owns it; so are the
  poll of the abandon flag and the growth it guards, though the flag may be raised between
  the two and the growth then still happens, once (`SliceBudget`);
* whether a piece fits, in `SliceMemory`: a choice, as it depends on the shape of the
  join; `SliceBudget` is where bytes are counted;
* `RankSliceColumns`' order of preference: any class of columns it may choose;
* in the rule: the mode OFF, texts of declines, the type checks on constants of
  BETWEEN (taken as those of a comparison), overflow of a fold's `int64` (in `Engine`
  and `WideArithmetic`), and the order in which several planted operators execute,
  which is fixed, as they share nothing;
* casts between signed and unsigned types of one size, which the rule passes through by
  size alone (`GetTypeIdSize`): the tables hold values that both types hold;
* `StorageSource::Load` that throws midway leaves its cache half filled; the operator
  falls back and never asks again.
