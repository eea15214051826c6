------------------------------ MODULE GroupFold ------------------------------
(***************************************************************************)
(* What one bucket of a grouped query contributes, and how the buckets are *)
(* put together: the fold of a factorized representation into groups that  *)
(* never enumerates a tuple (GroupFold, with the subtree aggregates of     *)
(* FRepresentation), and MergeGroups. GroupOperator has the threads that   *)
(* run these steps; here are the values they compute.                      *)
(*                                                                         *)
(* Levels are numbered in preorder, the root's is 1. A record is [level,   *)
(* value, weight, slots]: the payload of its level, how many equal rows it *)
(* stands for, and for each slot the set of its child records. Numbers are *)
(* unbounded: the checked operations throw where they would not fit, which *)
(* is a step of GroupOperator. "out" is threaded through the walk in the   *)
(* code; here every call returns what it adds to it.                       *)
(***************************************************************************)
EXTENDS Integers, Sequences, FiniteSets, FiniteSetsExt, Functions

CONSTANTS
  Attributes,   (* the attributes in the payload of each level              *)
  Slots,        (* the levels below each level, in the order of its slots   *)
  Records,      (* the records there may be                                 *)
  KeySets,      (* choices of the attributes that are grouped by            *)
  Aggregates,   (* the sequence of aggregates, [kind, attribute]            *)
  Parts,        (* for each part that is folded, the roots it may have      *)
  Lowest,       (* INT64_MIN                                                *)
  Highest       (* INT64_MAX                                                *)

Levels   == DOMAIN Slots
Stored   == UNION {Attributes[level] : level \in Levels}
Kinds    == {"COUNT", "SUM", "AVG", "MIN", "MAX"}
Values   == Lowest .. Highest

(* The f-tree: every level but the first hangs in one slot of a level      *)
(* before it, and every attribute is on one level.                         *)
ASSUME TreeAssumption ==
  /\ Slots \in Seq(Seq(Nat)) /\ 1 \in Levels
  /\ DOMAIN Attributes = Levels
  /\ \A l \in Levels : \A s \in DOMAIN Slots[l] : Slots[l][s] \in Levels /\ l < Slots[l][s]
  /\ \A l, m \in Levels : \A s \in DOMAIN Slots[l], t \in DOMAIN Slots[m] :
        Slots[l][s] = Slots[m][t] => l = m /\ s = t
  /\ \A m \in Levels \ {1} : \E l \in Levels : \E s \in DOMAIN Slots[l] : Slots[l][s] = m
  /\ \A l, m \in Levels : Attributes[l] \cap Attributes[m] # {} => l = m
ASSUME RecordsAssumption ==
  \A r \in Records :
    /\ r.level \in Levels
    /\ r.value \in [Attributes[r.level] -> Values]
    /\ r.weight \in Nat \ {0}
    /\ r.slots \in Seq(SUBSET Records) /\ Len(r.slots) = Len(Slots[r.level])
    /\ \A s \in DOMAIN r.slots :
         /\ IsFiniteSet(r.slots[s])
         /\ \A child \in r.slots[s] : child.level = Slots[r.level][s]
ASSUME QueryAssumption ==
  /\ \A chosen \in KeySets : chosen \subseteq Stored
  /\ Aggregates \in Seq([kind : Kinds, attribute : Stored])
ASSUME PartsAssumption ==
  /\ DOMAIN Parts = 1 .. Len(Parts) /\ Len(Parts) \in Nat
  /\ \A p \in DOMAIN Parts : \A roots \in Parts[p] :
       /\ roots \subseteq Records /\ IsFiniteSet(roots)
       /\ \A root \in roots : root.level = 1
ASSUME RangeAssumption == Lowest \in Int /\ Highest \in Int /\ Lowest < 0 /\ 0 < Highest

VARIABLES
  keys,     (* the grouping attributes; constant during the query           *)
  parts,    (* history: the roots of each part folded so far                *)
  groups    (* gstate.merged: the aggregates of each group                  *)

vars == <<keys, parts, groups>>

AggregateIds == DOMAIN Aggregates
IsExtreme(i) == Aggregates[i].kind \in {"MIN", "MAX"}
IsSum(i)     == Aggregates[i].kind \in {"SUM", "AVG"}
IsMax(i)     == Aggregates[i].kind = "MAX"

ExtremeIdentity(i) == IF IsMax(i) THEN Lowest ELSE Highest

Best(i, values) == IF IsMax(i) THEN Max(values) ELSE Min(values)
Better(i, a, b) == Best(i, {a, b})

-----------------------------------------------------------------------------
(* FRepresentation: aggregates over the tuples below a record, each        *)
(* without enumerating them.                                               *)
GetWeight(record) == record.weight

Product(factors) ==
  LET product[n \in 0 .. Len(factors)] ==
        IF n = 0 THEN 1 ELSE product[n - 1] * factors[n]
  IN  product[Len(factors)]

(* Slots are independent, so they multiply; children are alternatives, so  *)
(* they add.                                                               *)
SubtreeSize[record \in Records] ==
  GetWeight(record) * Product([s \in DOMAIN record.slots |->
    SumFunction([child \in record.slots[s] |-> SubtreeSize[child]])])

SlotSize(slot) == SumFunction([child \in slot |-> SubtreeSize[child]])

Holds(record, attribute) == attribute \in Attributes[record.level]

(* A value of one slot appears once for every tuple of the other slots.    *)
Others(count, slotCount) == count \div slotCount

(* The sum of each aggregate's attribute below a record.                   *)
SubtreeSum[record \in Records] ==
  [i \in AggregateIds |->
     LET attribute == Aggregates[i].attribute
         count     == SubtreeSize[record]
     IN  IF count = 0 THEN 0
         ELSE IF Holds(record, attribute) THEN record.value[attribute] * count
         ELSE SumFunction([s \in DOMAIN record.slots |->
                SumFunction([child \in record.slots[s] |-> SubtreeSum[child][i]])
                * Others(count, SlotSize(record.slots[s]))])]

(* The extreme of each aggregate's attribute below a record, or the        *)
(* identity if there are no tuples or the attribute is not here.           *)
SubtreeExtreme[record \in Records] ==
  [i \in AggregateIds |->
     LET attribute == Aggregates[i].attribute
         children  == UNION {record.slots[s] : s \in DOMAIN record.slots}
     IN  IF SubtreeSize[record] = 0 THEN ExtremeIdentity(i)
         ELSE IF Holds(record, attribute) THEN record.value[attribute]
         ELSE Best(i, {ExtremeIdentity(i)} \cup {SubtreeExtreme[child][i] : child \in children})]

-----------------------------------------------------------------------------
(* A Fold is what a set of tuples contributes: how many there are, and for *)
(* each aggregate the sum and the extreme of its attribute.                *)
Folds == [count : Int, sums : [AggregateIds -> Int], extremes : [AggregateIds -> Values]]

NewFold == [count    |-> 1,
            sums     |-> [i \in AggregateIds |-> 0],
            extremes |-> [i \in AggregateIds |-> 0]]

Identity == [NewFold EXCEPT !.extremes = [i \in AggregateIds |-> ExtremeIdentity(i)]]

(* Independent sets: every tuple of one is paired with each of the other.  *)
CombineCountsOnly(a, b) ==                                       \* mutant
  [count    |-> a.count * b.count,
   sums     |-> [i \in AggregateIds |-> a.sums[i] + b.sums[i]],
   extremes |-> [i \in AggregateIds |-> Better(i, a.extremes[i], b.extremes[i])]]

Combine(a, b) ==
  [count    |-> a.count * b.count,
   sums     |-> [i \in AggregateIds |-> a.sums[i] * b.count + a.count * b.sums[i]],
   extremes |-> [i \in AggregateIds |->
                   IF a.count = 0 \/ b.count = 0
                   THEN ExtremeIdentity(i)
                   ELSE Better(i, a.extremes[i], b.extremes[i])]]

(* Disjoint sets of tuples: what "into" holds, and each of the folds.      *)
Alternatives(into, folds) ==
  [count    |-> into.count + SumFunction([x \in DOMAIN folds |-> folds[x].count]),
   sums     |-> [i \in AggregateIds |->
                   into.sums[i] + SumFunction([x \in DOMAIN folds |-> folds[x].sums[i]])],
   extremes |-> [i \in AggregateIds |->
                   Best(i, {into.extremes[i]} \cup {folds[x].extremes[i] : x \in DOMAIN folds})]]

Nothing == [Identity EXCEPT !.count = 0]

(* A child of a slot without a key, folded into one contribution. *)
SubtreeFold(record) ==
  [count    |-> SubtreeSize[record],
   sums     |-> [i \in AggregateIds |-> IF IsSum(i) THEN SubtreeSum[record][i] ELSE 0],
   extremes |-> [i \in AggregateIds |->
                   IF IsExtreme(i) THEN SubtreeExtreme[record][i] ELSE ExtremeIdentity(i)]]

SlotTotals(slot) == Alternatives(Nothing, [child \in slot |-> SubtreeFold(child)])

(* The record alone, before its children. *)
Own(record) ==
  LET carried(i) == Holds(record, Aggregates[i].attribute)
      value(i)   == record.value[Aggregates[i].attribute]
  IN  [count    |-> GetWeight(record),
       sums     |-> [i \in AggregateIds |->
                       IF IsSum(i) /\ carried(i) THEN value(i) * GetWeight(record) ELSE 0],
       extremes |-> [i \in AggregateIds |->
                       IF IsExtreme(i) /\ carried(i) THEN value(i) ELSE ExtremeIdentity(i)]]

-----------------------------------------------------------------------------
(* GroupFold: the walk that fixes the keys on its way down. *)

(* Levels with a key at or below them. *)
Carries[level \in Levels] ==
  \/ Attributes[level] \cap keys # {}
  \/ \E s \in DOMAIN Slots[level] : Carries[Slots[level][s]]

(* The slots of a record that have to be walked. *)
Walk(record) == {s \in DOMAIN record.slots : Carries[Slots[record.level][s]]}

(* The accumulator of a group that is met for the first time. *)
ZeroedGroup == [NewFold EXCEPT !.count = 0]    \* mutant

EmptyGroup == Nothing

(* What a family of calls adds to out, taken together. *)
Gathered(added) ==
  [row \in UNION {DOMAIN added[x] : x \in DOMAIN added} |->
     Alternatives(EmptyGroup, [x \in {y \in DOMAIN added : row \in DOMAIN added[y]} |->
                                 added[x][row]])]

(* The record with its slots that carry no key folded in: they only decide *)
(* how many tuples there are, and what these contribute.                   *)
Here(record, incoming) ==
  LET here[n \in 0 .. Len(record.slots)] ==
        IF n = 0 THEN Combine(incoming, Own(record))
        ELSE IF n \in Walk(record) THEN here[n - 1]
        ELSE Combine(here[n - 1], SlotTotals(record.slots[n]))
  IN  here[Len(record.slots)]

Fixed(record, row) == [k \in keys |-> IF Holds(record, k) THEN record.value[k] ELSE row[k]]

(* The groups of the tuples below record, each of them repeated for the    *)
(* tuples that incoming stands for; crossed is Cross.                      *)
DescendBy(crossed, record, row, incoming) ==
  LET here == Here(record, incoming)
  IN  IF incoming.count = 0 \/ SubtreeSize[record] = 0 \/ here.count = 0 THEN <<>>
      ELSE IF Walk(record) = {}
      THEN [fixed \in {Fixed(record, row)} |-> Alternatives(EmptyGroup, <<here>>)]
      ELSE crossed[[record |-> record, walk |-> Walk(record),
                    row |-> Fixed(record, row), incoming |-> here]]

Calls ==
  {call \in [record : Records, walk : (SUBSET Nat) \ {{}}, row : [keys -> Values], incoming : Folds] :
     call.walk \subseteq DOMAIN call.record.slots}

(* The slots that carry keys, walk of them left: each is grouped by        *)
(* itself, and each of its groups is carried into the slots after it. The  *)
(* branch on its own starts from a Fold as its declaration initialises it. *)
Cross[call \in Calls] ==
  LET slot == call.record.slots[Min(call.walk)]
      rest == call.walk \ {Min(call.walk)}
      onwards(nested) ==
        Gathered([merged \in DOMAIN nested |->
                    Cross[[record |-> call.record, walk |-> rest, row |-> merged,
                           incoming |-> Combine(call.incoming, nested[merged])]]])
  IN  IF rest = {}
      THEN Gathered([child \in slot |-> DescendBy(Cross, child, call.row, call.incoming)])
      ELSE Gathered([child \in slot |-> onwards(DescendBy(Cross, child, call.row, NewFold))])

(* Run. *)
Totals(roots) ==
  Gathered([root \in roots |-> DescendBy(Cross, root, [k \in keys |-> 0], Identity)])

(* What GroupBy emits of a group: its count, and one value per aggregate.  *)
Emitted(fold) ==
  [count  |-> fold.count,
   values |-> [i \in AggregateIds |->
                 IF IsSum(i) THEN fold.sums[i]
                 ELSE IF IsExtreme(i) THEN fold.extremes[i] ELSE fold.count]]

GroupBy(roots) ==
  LET totals == Totals(roots)
  IN  [row \in {r \in DOMAIN totals : totals[r].count > 0} |-> Emitted(totals[row])]

(* The same group may come out of several buckets. *)
MergeGroup(a, b) ==
  [count  |-> a.count + b.count,
   values |-> [i \in AggregateIds |->
                 IF IsExtreme(i) THEN Better(i, a.values[i], b.values[i])
                                 ELSE a.values[i] + b.values[i]]]

MergeGroups(into, from) ==
  [row \in DOMAIN into \cup DOMAIN from |->
     IF row \notin DOMAIN from THEN into[row]
     ELSE IF row \notin DOMAIN into THEN from[row]
     ELSE MergeGroup(into[row], from[row])]

-----------------------------------------------------------------------------
Init == keys \in KeySets /\ parts = <<>> /\ groups = <<>>

(* The next part comes in, whichever bucket it is. *)
FoldPart ==
  /\ Len(parts) < Len(Parts)
  /\ \E roots \in Parts[Len(parts) + 1] :
       /\ parts' = Append(parts, roots)
       /\ groups' = MergeGroups(groups, GroupBy(roots))
  /\ UNCHANGED keys

Done == Len(parts) = Len(Parts) /\ UNCHANGED vars

Next == FoldPart \/ Done

Spec == Init /\ [][Next]_vars
-----------------------------------------------------------------------------
(* The reference: the flat join. A row names a record for every level and  *)
(* which of the record's copies it is, one row for every way to pick a row *)
(* below in each slot.                                                     *)
Below[level \in Levels] ==
  {level} \cup UNION {Below[Slots[level][s]] : s \in DOMAIN Slots[level]}

SlotTo(level, below) == CHOOSE s \in DOMAIN Slots[level] : below \in Below[Slots[level][s]]

Copies(record) == {[record |-> record, copy |-> c] : c \in 1 .. record.weight}

FlatRows[record \in Records] ==
  LET Alternative(s) == UNION {FlatRows[child] : child \in record.slots[s]}
      picks == {pick \in [DOMAIN record.slots -> UNION {Alternative(s) : s \in DOMAIN record.slots}] :
                  \A s \in DOMAIN record.slots : pick[s] \in Alternative(s)}
      RowOf(own, pick) ==
        [l \in Below[record.level] |->
           IF l = record.level THEN own ELSE pick[SlotTo(record.level, l)][l]]
  IN  {RowOf(own, pick) : own \in Copies(record), pick \in picks}

Rows == UNION {{<<p, row>> : row \in UNION {FlatRows[root] : root \in parts[p]}}
               : p \in DOMAIN parts}

LevelOf(attribute) == CHOOSE level \in Levels : attribute \in Attributes[level]

ValueIn(row, attribute) == row[LevelOf(attribute)].record.value[attribute]
RowKey(row) == [k \in keys |-> ValueIn(row[2], k)]

SumOver(rows, attribute) == SumFunction([row \in rows |-> ValueIn(row[2], attribute)])

ExtremeOver(rows, i) == Best(i, {ValueIn(row[2], Aggregates[i].attribute) : row \in rows})

-----------------------------------------------------------------------------
(* The walk over the representation, with MergeGroups over the parts,      *)
(* names exactly the groups of the flat join, however the keys are spread  *)
(* over its branches, with their exact counts and sums.                    *)
CountsAndSumsAreExact ==
  LET join == Rows
  IN  /\ DOMAIN groups = {RowKey(row) : row \in join}
      /\ \A key \in DOMAIN groups :
           LET rows == {row \in join : RowKey(row) = key}
           IN  /\ groups[key].count = Cardinality(rows)
               /\ \A i \in AggregateIds :
                    ~IsExtreme(i) =>
                      groups[key].values[i] =
                        IF IsSum(i) THEN SumOver(rows, Aggregates[i].attribute)
                                    ELSE Cardinality(rows)

(* Every extreme is the extreme of the values that tuples of the group     *)
(* carry (plan.cpp, Combine: it must not report a value no tuple carries). *)
ExtremesAreExact ==
  LET join == Rows
  IN  \A key \in DOMAIN groups :
        LET rows == {row \in join : RowKey(row) = key}
        IN  \A i \in AggregateIds :
              IsExtreme(i) => groups[key].values[i] = ExtremeOver(rows, i)

(* No record has two slots to walk: the keys lie on one path. *)
KeysOnOnePath ==
  \A level \in Levels :
    Cardinality({s \in DOMAIN Slots[level] : Carries[Slots[level][s]]}) <= 1

(* So it is where the keys do not lie in sibling branches: a group's       *)
(* extreme survives empty subtrees, other slots and the merge of parts.    *)
ExtremesExactOnOnePath == KeysOnOnePath => ExtremesAreExact
=============================================================================
