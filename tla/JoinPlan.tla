------------------------------ MODULE JoinPlan ------------------------------
(***************************************************************************)
(* BuildPlan (plan.cpp): the order relations are joined in, chosen one     *)
(* relation at a time against a simulated f-tree, and the steps the cost   *)
(* model is given.  A plan is a record of everything the loop carries:     *)
(* the steps so far, the predicates used, the simulated tree, the classes  *)
(* the chosen edges enforce, and the verdict.                              *)
(***************************************************************************)
EXTENDS QueryGraph, FTree

CONSTANTS
    KeyBits,        \* bits of the packed join key (64 in the code)
    BitsOf,         \* value type -> bits it takes in a key (32 and 64)
    MaxRelations    \* kMaxRelations

Joined(plan) == {plan.steps[i].relation : i \in DOMAIN plan.steps}

Seed(graph) == IF graph.predicates = <<>> THEN 1 ELSE graph.predicates[1].left

StartPlan(graph) ==
    LET tooMany == Len(graph.types) > MaxRelations
    IN  [steps |-> IF tooMany THEN <<>> ELSE <<[relation |-> Seed(graph), edges |-> <<>>]>>,
         used |-> {},
         tree |-> Scan(AttributesOf(graph, Seed(graph))),
         classes |-> NothingEnforced(graph),
         verdict |-> IF tooMany THEN "too many relations" ELSE "planning"]

\* The two ends of an edge, seen from the relation it attaches.
NewEnd(graph, edge, new) == IF edge.left = new THEN LeftOf(graph, edge) ELSE RightOf(graph, edge)
JoinedEnd(graph, edge, new) == IF edge.left = new THEN RightOf(graph, edge) ELSE LeftOf(graph, edge)

NewKeys(graph, edges, new) == [i \in DOMAIN edges |-> NewEnd(graph, edges[i], new)]

\* The joined side of the keys, each propagated to the shallowest attribute
\* the joins so far made equal to it.
AccumulatedKeys(graph, classes, tree, edges, new) ==
    [i \in DOMAIN edges |-> ShallowestEquivalent(classes, tree, JoinedEnd(graph, edges[i], new))]

\* Unused predicates between a joined and an unjoined relation, by the latter.
Candidates(graph, plan) ==
    LET Crossing(p) == (p.left \in Joined(plan)) # (p.right \in Joined(plan))
    IN  {r \in Relations(graph) \ Joined(plan) :
            \E i \in DOMAIN graph.predicates \ plan.used :
                LET p == graph.predicates[i] IN Crossing(p) /\ r \in {p.left, p.right}}

EdgesTo(graph, plan, new) ==
    LET Attaches(p) == \/ p.left = new /\ p.right \in Joined(plan)
                       \/ p.right = new /\ p.left \in Joined(plan)
        open == SelectSeq([i \in DOMAIN graph.predicates |-> i],
                          LAMBDA i : i \notin plan.used /\ Attaches(graph.predicates[i]))
    IN  [i \in DOMAIN open |-> graph.predicates[open[i]]]

WidthOf(graph, keys) ==
    FoldLeft(LAMBDA bits, key : bits + BitsOf[TypeOfAttribute(graph, key)], 0, keys)

\* fits_key_width: both sides of the key, as the executor will read them.
FitsKeyWidth(graph, plan, new) ==
    LET edges == EdgesTo(graph, plan, new)
    IN  /\ WidthOf(graph, NewKeys(graph, edges, new)) <= KeyBits
        /\ WidthOf(graph, AccumulatedKeys(graph, plan.classes, plan.tree, edges, new)) <= KeyBits

\* converges: the keys land on one node once the tree is restructured.
RECURSIVE MarkedNode(_)
MarkedNode(node) ==
    IF node.at THEN {node}
    ELSE UNION {MarkedNode(node.children[i]) : i \in DOMAIN node.children}

ConvergesAlways(graph, plan, new) == TRUE    \* mutant

Converges(graph, plan, new) ==
    LET keys == AccumulatedKeys(graph, plan.classes, plan.tree, EdgesTo(graph, plan, new), new)
        path == CreateRootToLeafPath(plan.tree, ToSet(keys), "LEVELWISE")
    IN  Len(keys) < 2 \/ \A node \in MarkedNode(path) : ToSet(keys) \subseteq node.attributes

Attachable(graph, plan) ==
    {r \in Candidates(graph, plan) : FitsKeyWidth(graph, plan, r) /\ Converges(graph, plan, r)}

\* The relation most edges reach, the lowest numbered among equals.
MostReached(graph, plan, relations) ==
    LET Edges(r) == Len(EdgesTo(graph, plan, r))
    IN  Min({r \in relations : \A s \in relations : Edges(s) <= Edges(r)})
Best(graph, plan) == MostReached(graph, plan, Attachable(graph, plan))

\* Join the best relation in the simulation and mark what its edges enforce.
\* Predicates that now lie inside the joined set were all among the edges.
AttachedBy(graph, plan, new, edges) ==
    LET Covers(p) == \/ p.left = new /\ p.right \in Joined(plan) \cup {new}
                     \/ p.right = new /\ p.left \in Joined(plan) \cup {new}
    IN  [plan EXCEPT
            !.steps = Append(@, [relation |-> new, edges |-> edges]),
            !.used = @ \cup {i \in DOMAIN graph.predicates : Covers(graph.predicates[i])},
            !.tree = MergeTrees(@, Scan(AttributesOf(graph, new)),
                                AccumulatedKeys(graph, plan.classes, @, edges, new),
                                NewKeys(graph, edges, new), "BOTTOM_INSERT", "LEVELWISE"),
            !.classes = EnforceAll(graph, @, edges)]

AttachedRelation(graph, plan, new) == AttachedBy(graph, plan, new, EdgesTo(graph, plan, new))
Attached(graph, plan) == AttachedRelation(graph, plan, Best(graph, plan))

AllJoined(graph, plan) == Joined(plan) = Relations(graph)

\* Why no relation can be attached any more.
Declined(graph, plan) ==
    [plan EXCEPT !.verdict =
        IF Candidates(graph, plan) = {} THEN "join graph is disconnected"
        ELSE IF \E r \in Candidates(graph, plan) : ~FitsKeyWidth(graph, plan, r)
        THEN "join key is too wide" ELSE "no relation attaches on one node"]

Concluded(graph, plan) ==
    [plan EXCEPT !.verdict =
        IF plan.used = DOMAIN graph.predicates THEN "complete" ELSE "residual predicate"]

\* BuildPlan, for the callers that plan a second graph of their own.
RECURSIVE PlanFrom(_, _)
PlanFrom(graph, plan) ==
    IF plan.verdict # "planning" THEN plan
    ELSE IF AllJoined(graph, plan) THEN Concluded(graph, plan)
    ELSE IF Attachable(graph, plan) = {} THEN Declined(graph, plan)
    ELSE PlanFrom(graph, Attached(graph, plan))

BuildPlan(graph) == PlanFrom(graph, StartPlan(graph))

(***************************************************************************)
(* BuildCostSteps: what the cost model sees of each step: the column the   *)
(* step's statistics are of, the class of its key, and the step and column *)
(* it hangs under, which is the shallowest owner of the key's class.       *)
(***************************************************************************)
CostRoot(graph, plan) ==
    LET seed == plan.steps[1].relation
        edges == FlattenSeq([i \in DOMAIN plan.steps |-> plan.steps[i].edges])
        naming == SelectSeq(edges, LAMBDA e : seed \in {e.left, e.right})
        column == IF naming = <<>> THEN 1
                  ELSE IF Head(naming).left = seed THEN Head(naming).lcol ELSE Head(naming).rcol
    IN  [relation |-> seed, column |-> column, depth |-> 0, parent |-> 0,
         group |-> FullClasses(graph)[AttributeOf(graph, seed, column)]]

CostStep(graph, done, step) ==
    LET classes == FullClasses(graph)
        edge == Head(step.edges)
        new == step.relation
        named == IF edge.left = new THEN edge.right ELSE edge.left
        key == classes[JoinedEnd(graph, edge, new)]
        StepOf(r) == CHOOSE i \in DOMAIN done : done[i].relation = r
        owners == {i \in DOMAIN done : \E a \in AttributesOf(graph, done[i].relation) : classes[a] = key}
        shallowest == {i \in owners : \A j \in owners : done[i].depth <= done[j].depth}
        lowest == CHOOSE i \in shallowest : \A j \in shallowest : done[i].relation <= done[j].relation
        attach == IF StepOf(named) \in shallowest THEN StepOf(named) ELSE lowest
    IN  [relation |-> new, column |-> IF edge.left = new THEN edge.lcol ELSE edge.rcol,
         depth |-> done[attach].depth + 1, parent |-> attach,
         group |-> classes[NewEnd(graph, edge, new)]]

CostStepsAsNamed(graph, plan) ==    \* mutant
    [i \in DOMAIN plan.steps |->
        IF i = 1 THEN CostRoot(graph, plan)
        ELSE LET edge == Head(plan.steps[i].edges)
                 named == IF edge.left = plan.steps[i].relation THEN edge.right ELSE edge.left
             IN  [CostRoot(graph, plan) EXCEPT
                     !.relation = plan.steps[i].relation,
                     !.parent = CHOOSE j \in DOMAIN plan.steps : plan.steps[j].relation = named]]

BuildCostSteps(graph, plan) ==
    FoldLeft(LAMBDA done, step : Append(done, CostStep(graph, done, step)),
             <<CostRoot(graph, plan)>>, Tail(plan.steps))
=============================================================================
