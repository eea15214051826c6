------------------------------- MODULE FTree -------------------------------
(***************************************************************************)
(* Factorization trees (ftree.cpp): the shape of a factorized relation.    *)
(* A node holds the attributes whose values one record stores, its         *)
(* children are independent of each other below it, "sources" names the    *)
(* nodes of the trees a join merged into it, and "at" marks the node a     *)
(* merge hands back by reference.                                          *)
(***************************************************************************)
EXTENDS Integers, Sequences, FiniteSets, SequencesExt, FiniteSetsExt

Node(attributes, children, sources, lock) ==
    [attributes |-> attributes, children |-> children, sources |-> sources,
     lock |-> lock, at |-> FALSE]

Scan(attributes) == Node(attributes, <<>>, <<>>, FALSE)

RECURSIVE Attributes(_), NodeCount(_), DepthOfAttribute(_, _)
Attributes(node) ==
    node.attributes \cup UNION {Attributes(node.children[i]) : i \in DOMAIN node.children}

NodeCount(node) ==
    1 + FoldLeft(LAMBDA n, child : n + NodeCount(child), 0, node.children)

\* The depth of the first node, in preorder, that holds the attribute; -1
\* when none does.
DepthOfAttribute(node, attribute) ==
    IF attribute \in node.attributes THEN 0
    ELSE LET holding == {i \in DOMAIN node.children :
                            DepthOfAttribute(node.children[i], attribute) >= 0}
         IN  IF holding = {} THEN -1
             ELSE 1 + DepthOfAttribute(node.children[Min(holding)], attribute)

\* ShallowestEquivalent: the attribute of the key's class that sits highest
\* in the tree, the key itself among equals, then the lowest attribute.
ShallowestEquivalent(classes, tree, key) ==
    LET Depth(a) == DepthOfAttribute(tree, a)
        joined == {a \in DOMAIN classes : classes[a] = classes[key] /\ Depth(a) >= 0}
        shallowest == {a \in joined : \A b \in joined : Depth(a) <= Depth(b)}
    IN  IF joined = {} \/ key \in shallowest THEN key ELSE Min(shallowest)

(***************************************************************************)
(* Preorder numbering.  A child's number is its parent's plus one plus the *)
(* nodes of the siblings before it.                                        *)
(***************************************************************************)
ChildLevel(node, level, i) ==
    level + 1 + FoldLeft(LAMBDA n, child : n + NodeCount(child), 0, SubSeq(node.children, 1, i - 1))

\* ResetSources: every node becomes its own only source.
RECURSIVE ResetSources(_, _)
ResetSources(node, level) ==
    [node EXCEPT !.sources = <<level>>, !.at = FALSE,
                 !.children = [i \in DOMAIN @ |-> ResetSources(@[i], ChildLevel(node, level, i))]]

\* TreeTopology: the nodes in preorder, each with its parent's number (0 for
\* the root), its slot in that parent and the numbers of its children.
RECURSIVE TopologyFrom(_, _, _, _)
TopologyFrom(node, level, parent, slot) ==
    LET below == [i \in DOMAIN node.children |-> ChildLevel(node, level, i)]
    IN  <<[attributes |-> node.attributes, sources |-> node.sources, at |-> node.at,
           parent |-> parent, slot |-> slot, children |-> below]>>
        \o FlattenSeq([i \in DOMAIN below |-> TopologyFrom(node.children[i], below[i], level, i)])

Topology(tree) == TopologyFrom(tree, 1, 0, 0)

(***************************************************************************)
(* CreateRootToLeafPath: restructure the tree so that all keys sit on one  *)
(* path, and mark the node where it ends.  A node is required when its     *)
(* subtree holds a key.                                                    *)
(***************************************************************************)
Required(node, keys) == Attributes(node) \cap keys # {}
RequiredChildren(node, keys) == SelectSeq(node.children, LAMBDA child : Required(child, keys))
AllChildren(node, keys) == node.children    \* mutant
KeptChildren(node, keys) == SelectSeq(node.children, LAMBDA child : ~Required(child, keys))

\* One node with what all of the given nodes hold.
Absorbed(node, others) ==
    [node EXCEPT !.attributes = @ \cup UNION {others[i].attributes : i \in DOMAIN others},
                 !.sources = @ \o FlattenSeq([i \in DOMAIN others |-> others[i].sources]),
                 !.lock = @ \/ \E i \in DOMAIN others : others[i].lock]

\* MergeLevelwise: the required children of a level become one new child,
\* placed last, over all their children; then the level below it.
RECURSIVE MergeLevelwise(_, _)
MergeLevelwise(lca, keys) ==
    LET required == RequiredChildren(lca, keys)
        grandchildren == FlattenSeq([i \in DOMAIN required |-> required[i].children])
        merged == Absorbed(Node({}, grandchildren, <<>>, FALSE), required)
    IN  IF required = <<>> THEN [lca EXCEPT !.at = TRUE]
        ELSE [lca EXCEPT !.children =
                 Append(KeptChildren(lca, keys), MergeLevelwise(merged, keys))]

\* FindLowestCommonAncestor, then MergeLevelwise from there: walk down while
\* exactly one child is required.
RECURSIVE PathLevelwise(_, _)
PathLevelwise(node, keys) ==
    LET required == {i \in DOMAIN node.children : Required(node.children[i], keys)}
    IN  IF Cardinality(required) # 1 THEN MergeLevelwise(node, keys)
        ELSE [node EXCEPT !.children[Min(required)] = PathLevelwise(@, keys)]

\* MergeNaive: the root absorbs every required node below it, and keeps the
\* children that are not required, all in preorder.
RECURSIVE RequiredBelow(_, _), KeptBelow(_, _)
RequiredBelow(node, keys) ==
    FlattenSeq([i \in DOMAIN node.children |->
        IF Required(node.children[i], keys)
        THEN <<node.children[i]>> \o RequiredBelow(node.children[i], keys) ELSE <<>>])
KeptBelow(node, keys) ==
    FlattenSeq([i \in DOMAIN node.children |->
        IF Required(node.children[i], keys)
        THEN KeptBelow(node.children[i], keys) ELSE <<node.children[i]>>])

MergeNaive(root, keys) ==
    [Absorbed(root, RequiredBelow(root, keys)) EXCEPT !.children = KeptBelow(root, keys), !.at = TRUE]

CreateRootToLeafPath(root, keys, strategy) ==
    IF ~Required(root, keys) THEN [root EXCEPT !.at = TRUE]
    ELSE IF strategy = "NAIVE" THEN MergeNaive(root, keys)
    ELSE PathLevelwise(root, keys)

(***************************************************************************)
(* MergeTreesDetailed: the tree of a join.  The upper input, restructured  *)
(* around its keys, with the restructured lower input as the last child of *)
(* the node where the keys end.  BOTTOM_INSERT puts the build side on top  *)
(* and locks the attached node; TOP_INSERT puts the probe side on top.     *)
(***************************************************************************)
RECURSIVE AttachAt(_, _)
AttachAt(node, lower) ==
    IF node.at THEN [node EXCEPT !.children = Append(@, lower)]
    ELSE [node EXCEPT !.children = [i \in DOMAIN @ |-> AttachAt(@[i], lower)]]

RECURSIVE ClearMarks(_)
ClearMarks(node) ==
    [node EXCEPT !.at = FALSE, !.children = [i \in DOMAIN @ |-> ClearMarks(@[i])]]

UpperOf(mode, build, probe) == IF mode = "BOTTOM_INSERT" THEN build ELSE probe
LowerOf(mode, build, probe) == IF mode = "BOTTOM_INSERT" THEN probe ELSE build

\* The upper input's tree, marked where its keys end, and the lower input's.
UpperPath(build, probe, buildKeys, probeKeys, mode, strategy) ==
    CreateRootToLeafPath(ResetSources(UpperOf(mode, build, probe), 1),
                         ToSet(UpperOf(mode, buildKeys, probeKeys)), strategy)

LowerPath(build, probe, buildKeys, probeKeys, mode, strategy) ==
    [ClearMarks(CreateRootToLeafPath(ResetSources(LowerOf(mode, build, probe), 1),
                                     ToSet(LowerOf(mode, buildKeys, probeKeys)), strategy))
        EXCEPT !.lock = @ \/ mode = "BOTTOM_INSERT"]

\* What a merge reports, besides the tree: its levels, the one attached to,
\* and the attached subtree, which is numbered from its root on.
AttachmentAt(tree, topology, insertion, attach, size) ==
    [tree |-> ClearMarks(tree), topology |-> topology, insertion |-> insertion, attach |-> attach,
     slot |-> Len(topology[insertion].children), lower |-> attach .. attach + size - 1]

Attachment(tree, topology, insertion, size) ==
    AttachmentAt(tree, topology, insertion, Last(topology[insertion].children), size)

MergedLevels(tree, topology, size) ==
    Attachment(tree, topology, CHOOSE level \in DOMAIN topology : topology[level].at, size)

MergedPaths(tree, size) == MergedLevels(tree, Topology(tree), size)

MergeTreesDetailed(build, probe, buildKeys, probeKeys, mode, strategy) ==
    LET lower == LowerPath(build, probe, buildKeys, probeKeys, mode, strategy)
    IN  MergedPaths(AttachAt(UpperPath(build, probe, buildKeys, probeKeys, mode, strategy), lower),
                    NodeCount(lower))

\* MergeTrees, which the planner simulates a join with: the same tree.
MergeTrees(build, probe, buildKeys, probeKeys, mode, strategy) ==
    MergeTreesDetailed(build, probe, buildKeys, probeKeys, mode, strategy).tree

(***************************************************************************)
(* What a tree must be for its records to mean a relation.                 *)
(***************************************************************************)
\* The attributes of every root-to-node path.
RECURSIVE Paths(_, _)
Paths(node, above) ==
    LET here == above \cup node.attributes
    IN  {here} \cup UNION {Paths(node.children[i], here) : i \in DOMAIN node.children}

\* The attributes a tree holds, with repetition.
RECURSIVE Held(_)
Held(node) ==
    FoldLeft(LAMBDA n, child : n + Held(child), Cardinality(node.attributes), node.children)
=============================================================================
