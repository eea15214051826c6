-------------------------- MODULE ExtremeReduction --------------------------
(***************************************************************************)
(* ExecuteExtremeReduced (plan.cpp): the MIN or MAX of one column over a   *)
(* join whose predicates are a spanning tree, without the join.  The tree  *)
(* is rooted at the aggregated column's relation; from the leaves up, each *)
(* relation keeps the keys of its rows that match something in every       *)
(* child.  A relation is read in two rounds, each run by a team of threads *)
(* that is joined before the next: one probes the children's key sets and  *)
(* sorts what survives into buckets, one fills a shard per thread.  A      *)
(* thread takes a step per row, and a step per key.                        *)
(***************************************************************************)
EXTENDS QueryGraph

CONSTANTS
    Graphs,             \* the join graphs asked about
    TablesOf(_),        \* graph -> the tables it is asked over
    AsksOf(_),          \* graph -> [relation, column, min, threads] records
    Values,             \* the values of int64_t
    Shard, Slot,        \* value -> its hash's top byte, and its low bits
    RowFloor,           \* PARALLEL_ROW_FLOOR
    FirstCapacity,      \* slots of a key set when it first grows (1024)
    Empty               \* KeySet::EMPTY, the smallest int64_t

ASSUME GraphsAssumption ==
    \A g \in Graphs :
        /\ g.types \in Seq(Seq(STRING))
        /\ g.predicates \in Seq([left : Nat, lcol : Nat, right : Nat, rcol : Nat])
        /\ \A p \in ToSet(g.predicates) :
              /\ p.left \in Relations(g) /\ p.lcol \in Columns(g, p.left)
              /\ p.right \in Relations(g) /\ p.rcol \in Columns(g, p.right)

ASSUME TablesAssumption ==
    \A g \in Graphs : \A t \in TablesOf(g) :
        /\ DOMAIN t = Relations(g)
        /\ \A r \in Relations(g) : t[r] \in Seq([Columns(g, r) -> Values])

ASSUME AsksAssumption ==
    \A g \in Graphs :
        AsksOf(g) \subseteq [relation : Nat, column : Nat, min : BOOLEAN, threads : Nat]

ASSUME ValuesAssumption == Values \subseteq Int /\ IsFiniteSet(Values) /\ Empty \in Values
ASSUME HashAssumption == Shard \in [Values -> Nat] /\ Slot \in [Values -> Nat]
ASSUME SizesAssumption == RowFloor \in Nat /\ FirstCapacity \in Nat \ {0}

VARIABLES
    graph, tables, ask,
    tree,       \* the reduction tree: BFS order, and each child's node
    visit,      \* the parent and the predicate the walk is at
    remaining,  \* relations still to be reduced: a prefix of tree.order
    surviving,  \* relation -> its shards, once reduced
    round,      \* "plan", "walk", "read", "probe", "fill", "combine", "done", "terminated"
    pc,         \* worker -> "unborn", "running", "ended"
    at,         \* worker -> the row of its span it is at
    failed,     \* the atomic a throwing worker of this round sets
    buckets,    \* worker -> shard -> the keys it sorted there
    best,       \* worker -> the extreme it saw, as a set of at most one value
    keys,       \* the shards being filled
    result

vars == <<graph, tables, ask, tree, visit, remaining, surviving, round, pc, at, failed, buckets,
          best, keys, result>>

(***************************************************************************)
(* KeySet: open addressing with linear probing.  One key cannot be told    *)
(* from an empty slot and is kept in a flag.                               *)
(***************************************************************************)
NoKeys == [slots |-> <<>>, count |-> 0, hasEmpty |-> FALSE]
Capacity(set) == Len(set.slots)
At(set, slot) == set.slots[(slot % Capacity(set)) + 1]

\* The first slot from the key's own on that holds the key or nothing.
Probe(set, key) ==
    LET steps == {d \in 0 .. Capacity(set) - 1 : At(set, Slot[key] + d) \in {key, Empty}}
    IN  ((Slot[key] + Min(steps)) % Capacity(set)) + 1

Put(set, key) ==
    LET place == Probe(set, key)
    IN  IF key = Empty THEN [set EXCEPT !.hasEmpty = TRUE]
        ELSE [set EXCEPT !.slots[place] = key, !.count = IF set.slots[place] = Empty THEN @ + 1 ELSE @]

\* A table that is copied and not rehashed loses the keys that moved.
GrowInPlace(set) ==    \* mutant
    LET wanted == IF Capacity(set) = 0 THEN FirstCapacity ELSE Capacity(set) * 2
    IN  [set EXCEPT !.slots = @ \o [i \in 1 .. wanted - Capacity(set) |-> Empty]]

\* Grow puts the keys of the slots in turn; count and flag are not touched.
Grow(set) ==
    LET wanted == IF Capacity(set) = 0 THEN FirstCapacity ELSE Capacity(set) * 2
        moved[n \in 0 .. Capacity(set)] ==
            IF n = 0 THEN [NoKeys EXCEPT !.slots = [i \in 1 .. wanted |-> Empty]]
            ELSE IF set.slots[n] = Empty THEN moved[n - 1]
            ELSE Put(moved[n - 1], set.slots[n])
    IN  [set EXCEPT !.slots = moved[Capacity(set)].slots]

HasRoom(set) == set.count + 1 < (Capacity(set) \div 5) * 3

KeySetContains(set, key) ==
    IF key = Empty THEN set.hasEmpty
    ELSE set.count # 0 /\ set.slots[Probe(set, key)] = key

NoKeyIn(shards) == \A i \in DOMAIN shards : shards[i].count = 0 /\ ~shards[i].hasEmpty
ShardOf(shards, key) == (Shard[key] % Len(shards)) + 1
Held(shards, key) == KeySetContains(shards[ShardOf(shards, key)], key)

(***************************************************************************)
(* The tree.                                                               *)
(***************************************************************************)
IsSpanning(g) == Len(g.predicates) + 1 = Len(g.types)
ReducibleByExtremeReduction(g) == IsSpanning(g) /\ IsAcyclic(g)

With(f, x, value) == [y \in DOMAIN f \cup {x} |-> IF y = x THEN value ELSE f[y]]

Place(g, parent, walk, i) ==
    LET p == g.predicates[i]
        New(r) == r \notin ToSet(walk.order)
        Hang(child, own, up) ==
            [order |-> Append(walk.order, child), used |-> walk.used \cup {i},
             node |-> With(walk.node, child, [parent |-> parent, own |-> own, up |-> up])]
    IN  IF i \in walk.used THEN walk
        ELSE IF p.left = parent /\ New(p.right) THEN Hang(p.right, p.rcol, p.lcol)
        ELSE IF p.right = parent /\ New(p.left) THEN Hang(p.left, p.lcol, p.rcol)
        ELSE walk

Current == tree.order[remaining]
IsRoot == Current = ask.relation
ChildrenOf(r) == {c \in DOMAIN tree.node : tree.node[c].parent = r}
Rows == tables[Current]

\* The largest power of two that is no more than the threads, and 64.
ParallelWorkers(threads) == Max({1} \cup {n \in {2, 4, 8, 16, 32, 64} : n <= threads})

Workers == IF Len(Rows) >= RowFloor THEN ParallelWorkers(ask.threads) ELSE 1

(***************************************************************************)
(* Actions.                                                                *)
(***************************************************************************)
Answer(value) == [ok |-> TRUE, any |-> value # {}, value |-> value, error |-> "none"]
Error(why) == [ok |-> FALSE, any |-> FALSE, value |-> {}, error |-> why]

Init ==
    /\ graph \in Graphs
    /\ tables \in TablesOf(graph)
    /\ ask \in AsksOf(graph)
    /\ tree = [order |-> <<>>, used |-> {}, node |-> << >>] /\ visit = <<1, 1>>
    /\ remaining = 0 /\ surviving = << >> /\ keys = <<>>
    /\ round = "plan"
    /\ pc = << >> /\ at = << >> /\ failed = FALSE /\ buckets = <<>> /\ best = <<>>
    /\ result = Error("none")

\* Start a team: the calling thread is worker 1, the others are not yet born.
StartTeam(name, workers) ==
    /\ round' = name /\ failed' = FALSE
    /\ pc' = [w \in 1 .. workers |-> IF w = 1 THEN "waiting" ELSE "unborn"]

Return(answer) == /\ round' = "done" /\ result' = answer
                  /\ UNCHANGED <<pc, failed>>

\* The rows of a worker: an equal span each, the last ones shorter or empty.
SpanSizeRoundedDown == Len(Rows) \div Workers    \* mutant
SpanSize == (Len(Rows) + Workers - 1) \div Workers
FirstRow(w) == (w - 1) * SpanSize + 1
LastRow(w) == Min({Len(Rows), w * SpanSize})

\* What a relation's reading starts from.
Fresh ==
    /\ at' = [w \in 1 .. Workers |-> FirstRow(w)]
    /\ buckets' = [w \in 1 .. Workers |-> [s \in 1 .. Workers |-> <<>>]]
    /\ best' = [w \in 1 .. Workers |-> {}]
    /\ keys' = [s \in 1 .. Workers |-> NoKeys]

Untouched == UNCHANGED <<graph, tables, ask>>
TreeKept == UNCHANGED <<tree, visit>>
WorkKept == UNCHANGED <<at, buckets, best, keys>>

Refused ==
    IF ask.relation \notin Relations(graph) THEN TRUE
    ELSE ask.column \notin Columns(graph, ask.relation)

Prepare ==
    /\ round = "plan"
    /\ IF Refused
       THEN Return(Error("no such column")) /\ UNCHANGED tree
       ELSE IF ~ReducibleByExtremeReduction(graph)
       THEN /\ Return(Error(IF ~IsSpanning(graph) THEN "not a spanning tree" ELSE "cyclic"))
            /\ UNCHANGED tree
       ELSE /\ round' = "walk" /\ tree' = [tree EXCEPT !.order = <<ask.relation>>]
            /\ UNCHANGED <<pc, failed, result>>
    /\ UNCHANGED <<visit, remaining, surviving>> /\ WorkKept /\ Untouched

\* The walk outwards from the root: every predicate at every parent placed.
Visit ==
    LET parent == visit[1]  predicate == visit[2]
    IN  /\ round = "walk" /\ parent <= Len(tree.order)
        /\ IF predicate <= Len(graph.predicates)
           THEN tree' = Place(graph, tree.order[parent], tree, predicate)
                /\ visit' = <<parent, predicate + 1>>
           ELSE visit' = <<parent + 1, 1>> /\ UNCHANGED tree
        /\ UNCHANGED <<remaining, surviving, round, pc, failed, result>> /\ WorkKept /\ Untouched

Planted ==
    /\ round = "walk" /\ visit[1] > Len(tree.order)
    /\ IF Len(tree.order) # Len(graph.types)
       THEN Return(Error("disconnected")) /\ UNCHANGED remaining
       ELSE /\ round' = "read" /\ remaining' = Len(tree.order)
            /\ UNCHANGED <<pc, failed, result>>
    /\ UNCHANGED surviving /\ TreeKept /\ WorkKept /\ Untouched

Read ==
    /\ round = "read"
    /\ StartTeam("probe", Workers)
    /\ Fresh
    /\ UNCHANGED <<remaining, surviving, result>> /\ TreeKept /\ Untouched

\* pool.emplace_back, in worker order, before the caller does its own share.
Unborn == {w \in DOMAIN pc : pc[w] = "unborn"}
InTeam == round \in {"probe", "fill"}

StartWorker ==
    /\ InTeam /\ Unborn # {}
    /\ pc' = [pc EXCEPT ![Min(Unborn)] = "running"]
    /\ UNCHANGED <<remaining, surviving, round, failed, result>>
    /\ TreeKept /\ WorkKept /\ Untouched

\* A thread that cannot be started throws past the threads already running:
\* the vector of joinable threads is destroyed, and the process with it.  With
\* none running yet the exception leaves the reduction, which nobody catches
\* before the operator does.
StartFails ==
    /\ InTeam /\ Unborn # {}
    /\ IF \E w \in DOMAIN pc \ {1} : pc[w] # "unborn"
       THEN round' = "terminated" /\ UNCHANGED <<pc, failed, result>>
       ELSE Return(Error("thrown"))
    /\ UNCHANGED <<remaining, surviving>> /\ TreeKept /\ WorkKept /\ Untouched

\* The caller takes its own share once the others are on their way.
Ready(w) == pc[w] = "running" \/ (w = 1 /\ pc[w] = "waiting" /\ Unborn = {})

Survives(row) ==
    \A c \in ChildrenOf(Current) : Held(surviving[c], row[tree.node[c].up])

Extreme(values) == IF values = {} THEN {} ELSE {IF ask.min THEN Min(values) ELSE Max(values)}

ProbeRow(w) ==
    LET row == Rows[at[w]]
    IN  /\ round = "probe" /\ Ready(w) /\ at[w] <= LastRow(w)
        /\ at' = [at EXCEPT ![w] = @ + 1]
        /\ IF ~Survives(row) THEN UNCHANGED <<buckets, best>>
           ELSE IF IsRoot
           THEN /\ best' = [best EXCEPT ![w] = Extreme(@ \cup {row[ask.column]})]
                /\ UNCHANGED buckets
           ELSE LET own == row[tree.node[Current].own]
                IN  /\ buckets' = [buckets EXCEPT ![w][ShardOf(keys, own)] = Append(@, own)]
                    /\ UNCHANGED best
        /\ UNCHANGED <<remaining, surviving, round, pc, failed, keys, result>>
        /\ TreeKept /\ Untouched

\* One shard, one writer: it drains every worker's bucket for the shard, in
\* order, and grows the set before a key that might not find room.
Undrained(s) == {b \in DOMAIN buckets : buckets[b][s] # <<>>}

GrowShard(w) ==
    /\ round = "fill" /\ Ready(w) /\ Undrained(w) # {}
    /\ ~HasRoom(keys[w])
    /\ keys' = [keys EXCEPT ![w] = Grow(@)]
    /\ UNCHANGED <<remaining, surviving, round, pc, at, failed, buckets, best, result>>
    /\ TreeKept /\ Untouched

InsertKey(w) ==
    LET b == Min(Undrained(w))
    IN  /\ round = "fill" /\ Ready(w) /\ Undrained(w) # {}
        /\ HasRoom(keys[w])
        /\ keys' = [keys EXCEPT ![w] = Put(@, Head(buckets[b][w]))]
        /\ buckets' = [buckets EXCEPT ![b][w] = Tail(@)]
        /\ UNCHANGED <<remaining, surviving, round, pc, at, failed, best, result>>
        /\ TreeKept /\ Untouched

WorkDone(w) ==
    \/ round = "probe" /\ at[w] > LastRow(w)
    \/ round = "fill" /\ Undrained(w) = {}

WorkerEnds(w) ==
    /\ InTeam /\ Ready(w) /\ WorkDone(w)
    /\ pc' = [pc EXCEPT ![w] = "ended"]
    /\ UNCHANGED <<remaining, surviving, round, failed, result>>
    /\ TreeKept /\ WorkKept /\ Untouched

\* An allocation fails: the worker ends, and says so.
WorkerThrows(w) ==
    /\ InTeam /\ Ready(w)
    /\ pc' = [pc EXCEPT ![w] = "ended"]
    /\ failed' = TRUE
    /\ UNCHANGED <<remaining, surviving, round, result>>
    /\ TreeKept /\ WorkKept /\ Untouched

CallerEnded == pc[1] = "ended"    \* mutant

Joined == \A w \in DOMAIN pc : pc[w] = "ended"

NextRelation(value) ==
    IF remaining = 1 THEN Return(Answer(value)) /\ UNCHANGED remaining
    ELSE /\ round' = "read" /\ remaining' = remaining - 1
         /\ UNCHANGED <<pc, failed, result>>

JoinProbes ==
    /\ round = "probe" /\ Joined
    /\ IF failed THEN Return(Error("out of memory")) /\ UNCHANGED remaining
       ELSE IF IsRoot THEN NextRelation(Extreme(UNION {best[w] : w \in DOMAIN best}))
       ELSE StartTeam("fill", Len(keys)) /\ UNCHANGED <<remaining, result>>
    /\ UNCHANGED surviving /\ TreeKept /\ WorkKept /\ Untouched

\* An empty relation empties the join; the relations above it are not read.
JoinFills ==
    /\ round = "fill" /\ Joined
    /\ IF failed THEN Return(Error("out of memory")) /\ UNCHANGED <<remaining, surviving>>
       ELSE IF NoKeyIn(keys) THEN Return(Answer({})) /\ UNCHANGED <<remaining, surviving>>
       ELSE surviving' = With(surviving, Current, keys) /\ NextRelation({})
    /\ TreeKept /\ WorkKept /\ Untouched

Terminated == round \in {"done", "terminated"} /\ UNCHANGED vars

Work(w) == ProbeRow(w) \/ GrowShard(w) \/ InsertKey(w) \/ WorkerEnds(w) \/ WorkerThrows(w)
Main == Prepare \/ Visit \/ Planted \/ Read \/ StartWorker \/ StartFails \/ JoinProbes \/ JoinFills

Next == Main \/ (\E w \in DOMAIN pc : Work(w)) \/ Terminated

Spec == Init /\ [][Next]_vars

(***************************************************************************)
(* Properties.                                                             *)
(***************************************************************************)
\* An answer of the reduction is the extreme of the column over the join's
\* tuples, and there is none exactly when the join is empty: whatever the
\* number of threads, however the keys collide, and with the smallest value
\* among the keys.
ReducedExtremeIsExact ==
    result.ok =>
        LET join == FlatJoin(graph, tables)
            values == {tables[ask.relation][t[ask.relation]][ask.column] : t \in join}
        IN  /\ result.any <=> join # {}
            /\ result.value = Extreme(values)

\* A reduced relation keeps exactly the keys of its rows that take part in
\* the join of the subtree below it, wherever growing and probing put them.
Below(r) ==
    {x \in Relations(graph) :
        \A set \in SUBSET Relations(graph) :
            r \in set /\ (\A y \in set : ChildrenOf(y) \subseteq set) => x \in set}

SurvivorsAreTheSemiJoin ==
    \A r \in DOMAIN surviving :
        LET under == Below(r)
            edges == {p \in ToSet(graph.predicates) : {p.left, p.right} \subseteq under}
            Key(t) == tables[r][t[r]][tree.node[r].own]
        IN  {key \in Values : Held(surviving[r], key)}
                = {Key(t) : t \in FlatJoinOver(graph, tables, under, edges)}

\* Nobody of a team still runs, over buckets and key sets that are gone, once
\* the reduction has returned, and none survives into the next relation.
TeamIsJoined ==
    round \in {"plan", "read", "done"} => \A w \in DOMAIN pc : pc[w] \in {"unborn", "waiting", "ended"}
=============================================================================
