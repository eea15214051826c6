----------------------------- MODULE MCGroupFold -----------------------------
(* GroupFold on a small f-tree: a root, one level below it, and two        *)
(* sibling levels below that.                                              *)
EXTENDS GroupFold

FourLevels == <<<<2>>, <<3, 4>>, <<>>, <<>>>>
Payloads   == <<{"r"}, {"a"}, {"b", "x"}, {"c"}>>

(* The extremes of every level, on both sides of zero. *)
EveryAggregate ==
  <<[kind |-> "COUNT", attribute |-> "r"], [kind |-> "SUM", attribute |-> "x"],
    [kind |-> "AVG", attribute |-> "c"],   [kind |-> "SUM", attribute |-> "a"],
    [kind |-> "MIN", attribute |-> "x"],   [kind |-> "MAX", attribute |-> "x"],
    [kind |-> "MIN", attribute |-> "a"],   [kind |-> "MAX", attribute |-> "c"],
    [kind |-> "MIN", attribute |-> "c"]>>

Least    == -1000
Greatest == 1000

AllKeySets == SUBSET {"a", "b", "c"}

UpToOne(S) == {{}} \cup {{e} : e \in S}
UpToTwo(S) == {{}} \cup {{e, f} : e, f \in S}

Leaf(level, names, weights) ==
  [level : {level}, value : [names -> {-1, 2}], weight : weights, slots : {<<>>}]

Middle(left, right) ==
  [level : {2}, value : [{"a"} -> {1, 2}], weight : {1},
   slots : {<<l, r>> : l \in left, r \in right}]

Roots(middles) ==
  [level : {1}, value : {[n \in {"r"} |-> 1]}, weight : {1},
   slots : {<<m>> : m \in middles}]

Left  == Leaf(3, {"b", "x"}, {1})
Right == Leaf(4, {"c"}, {1, 2})

(* Up to two children in a slot, the empty slot included. *)
Wide   == {{m} : m \in {n \in Middle(UpToTwo(Left), UpToTwo(Right)) : n.value["a"] = 2}}
(* Two records side by side, with up to one child in a slot. *)
Narrow == UpToTwo(Middle(UpToOne(Leaf(3, {"b", "x"}, {2})),
                        UpToOne(Leaf(4, {"c"}, {1}))))
(* A whole root, for the part that is merged into the first. *)
Few == {{m} : m \in [level : {2}, value : {[n \in {"a"} |-> 2]}, weight : {1},
                     slots : {<<{l}, Leaf(4, {"c"}, {1})>> :
                                l \in {k \in Left : k.value["x"] = 2 /\ k.value["b"] = 2}}]}

(* Every record of the parts. *)
Narrower == Leaf(3, {"b", "x"}, {2}) \cup Leaf(4, {"c"}, {1})
Arena == Left \cup Right \cup Narrower
         \cup UNION (Wide \cup Narrow \cup Few) \cup Roots(Wide \cup Narrow \cup Few)

TwoParts == <<{{root} : root \in Roots(Wide \cup Narrow)},
              {{root} : root \in Roots(Few)}>>
=============================================================================
