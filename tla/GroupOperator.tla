---------------------------- MODULE GroupOperator ----------------------------
(***************************************************************************)
(* PhysicalFactorized answering an aggregate that is folded per group:     *)
(* GROUP BY, and an ungrouped SUM, AVG, MIN or MAX. With one slice the     *)
(* first caller folds everything under the lock. With more, every thread   *)
(* folds buckets apart, the partial groups are merged by key, and whoever  *)
(* merges the last bucket publishes the list. Then any thread hands out    *)
(* the groups, one vector at a time.                                       *)
(*                                                                         *)
(* What a bucket contributes is abstracted to the bucket, as in            *)
(* CountOperator: merged is how often each bucket went into the merge. The *)
(* groups themselves are numbered in the order they are handed out.        *)
(***************************************************************************)
EXTENDS FallbackPlan

CONSTANTS
  MaxGroups,      (* a bound: how many groups an answer may have            *)
  VectorSize,     (* STANDARD_VECTOR_SIZE: groups per chunk                 *)
  ReadErrors,     (* kinds of exception that reading the inputs may meet    *)
  Unconvertibles  (* choices of the groups that hold a value which their    *)
                  (* column's type cannot take                              *)

ASSUME GroupsAssumption ==
  /\ MaxGroups \in Nat /\ VectorSize \in Nat \ {0}
  /\ Unconvertibles \subseteq SUBSET (1 .. MaxGroups)
ASSUME ReadAssumption == ReadErrors \subseteq ErrorKinds

VARIABLES
  groupCount,  (* groups the answer has; constant during the query          *)
  unconvertible, (* those that cannot be converted; constant as well        *)
  nextSlice,   (* gstate.next_slice; past the last bucket it says no more   *)
  slice,       (* the bucket each thread has claimed                        *)
  verdict,     (* how folding it went, before it is merged                  *)
  inputs,      (* gstate.inputs has been built                              *)
  merged,      (* gstate.merged: how often each bucket has been merged      *)
  completed,   (* gstate.completed                                          *)
  error,       (* gstate.error is not empty                                 *)
  published,   (* gstate.groups is set                                      *)
  groups,      (* the buckets that went into gstate.groups                  *)
  handedOut,   (* gstate.handed_out                                         *)
  emitted,     (* how often each group has been emitted                     *)
  madeRows,    (* rows made for an ungrouped aggregate over no rows         *)
  answers      (* chunks the factorized path has emitted                    *)

answerIs  == <<groupCount, unconvertible>>
foldVars  == <<answerIs, nextSlice, slice, verdict, inputs, merged, completed,
               error, published, groups>>
emitVars  == <<handedOut, emitted, madeRows, answers>>
groupVars == <<foldVars, emitVars>>
vars      == <<planVars, groupVars>>

GroupShapes == {"group", "extreme"}
AllBuckets  == 0 .. NumberOfThreads - 1
AllGroups   == 1 .. MaxGroups

NoBuckets == [b \in AllBuckets |-> 0]
EachOnce  == [b \in AllBuckets |-> IF b \in Buckets THEN 1 ELSE 0]

(* An ungrouped aggregate has one group, or none over an empty join. *)
Init ==
  /\ PlanInit
  /\ query.shape \in GroupShapes
  /\ query.shape = "extreme" => ~query.grouped
  /\ groupCount \in 0 .. MaxGroups
  /\ ~query.grouped => groupCount <= 1
  /\ unconvertible \in Unconvertibles
  /\ nextSlice = 0
  /\ slice = [t \in Threads |-> 0]
  /\ verdict = [t \in Threads |-> "none"]
  /\ inputs = FALSE
  /\ merged = NoBuckets
  /\ completed = 0
  /\ error = FALSE
  /\ published = FALSE
  /\ groups = NoBuckets
  /\ handedOut = 0
  /\ emitted = [g \in AllGroups |-> 0]
  /\ madeRows = 0
  /\ answers = 0

(* What a step of the factorized path on thread t leaves alone. *)
InFactorized == UNCHANGED <<query, queued, fellBack, executorError, inTry,
                            running, depth, working, stockVars>>

-----------------------------------------------------------------------------
(* factorize_debug_fail: every call fails before it folds anything. *)
DebugFail(t) ==
  /\ pc[t] = "factorized"
  /\ query.debugFail
  /\ Throw(t, "recoverable")
  /\ InFactorized /\ UNCHANGED groupVars

(* One slice: the reducer's extreme, or the whole fold, under the lock.    *)
FoldWhole(t) ==
  /\ pc[t] = "factorized"
  /\ ~query.debugFail
  /\ Slices = 1
  /\ \/ published /\ Goto(t, "hand") /\ UNCHANGED <<thrown, published, groups>>
     \/ /\ ~published
        /\ published' = TRUE
        /\ groups' = EachOnce
        /\ Goto(t, "hand")
        /\ UNCHANGED thrown
     \/ /\ ~published
        /\ \E kind \in ErrorKinds : Throw(t, kind)
        /\ UNCHANGED <<published, groups>>
  /\ InFactorized
  /\ UNCHANGED <<answerIs, nextSlice, slice, verdict, inputs, merged,
                 completed, error, emitVars>>

(* More slices: are the groups there already? *)
LookForGroups(t) ==
  /\ pc[t] = "factorized"
  /\ ~query.debugFail
  /\ Slices > 1
  /\ Goto(t, IF published THEN "hand" ELSE "inputs")
  /\ InFactorized /\ UNCHANGED <<thrown, groupVars>>

(* The inputs are read before a bucket is claimed, once for all threads,   *)
(* under the lock; reading them may throw.                                 *)
ShareInputs(t) ==
  /\ pc[t] = "inputs"
  /\ \/ inputs' = TRUE /\ Goto(t, "claim") /\ UNCHANGED thrown
     \/ /\ ~inputs
        /\ \E kind \in ReadErrors : Throw(t, kind)
        /\ UNCHANGED inputs
  /\ InFactorized
  /\ UNCHANGED <<answerIs, nextSlice, slice, verdict, merged, completed, error,
                 published, groups, emitVars>>

(* A thread that finds no bucket left goes on to look for the groups. The  *)
(* counter is not followed past the last bucket: any such value means the  *)
(* same.                                                                   *)

Claimable == nextSlice < Slices

ClaimBucket(t) ==
  /\ pc[t] = "claim"
  /\ IF Claimable
     THEN /\ slice' = [slice EXCEPT ![t] = nextSlice]
          /\ nextSlice' = nextSlice + 1
          /\ Goto(t, "count")
     ELSE UNCHANGED <<slice, nextSlice>> /\ Goto(t, "wait")
  /\ InFactorized
  /\ UNCHANGED <<thrown, answerIs, verdict, inputs, merged, completed, error,
                 published, groups, emitVars>>

(* ExecuteGroupBySlice, without the lock. *)
FoldBucket(t) ==
  /\ pc[t] = "count"
  /\ \/ /\ \E v \in {"ok", "failed"} : verdict' = [verdict EXCEPT ![t] = v]
        /\ Goto(t, "fold")
        /\ UNCHANGED thrown
     \/ Throw(t, "recoverable") /\ UNCHANGED verdict
  /\ InFactorized
  /\ UNCHANGED <<answerIs, nextSlice, slice, inputs, merged, completed, error,
                 published, groups, emitVars>>

-----------------------------------------------------------------------------
(* Under the lock again: the part is merged unless some part has failed.   *)
MergedNext(t) ==
  IF verdict[t] = "ok" /\ ~error
  THEN [merged EXCEPT ![slice[t]] = @ + 1]
  ELSE merged

(* CheckedCardinalityAdd may find that a merged total no longer fits. *)
MergeOverflows(t) ==
  /\ pc[t] = "fold"
  /\ verdict[t] = "ok" /\ ~error
  /\ Throw(t, "recoverable")
  /\ InFactorized /\ UNCHANGED groupVars

PublishedOnFirst == completed = 0    \* mutant

LastPart == completed + 1 = Slices

(* Whoever merges the last part publishes the groups, or throws if any     *)
(* bucket could not be folded.                                             *)
MergeBucket(t) ==
  /\ pc[t] = "fold"
  /\ error' = (error \/ verdict[t] = "failed")
  /\ merged' = MergedNext(t)
  /\ completed' = completed + 1
  /\ \/ ~LastPart /\ Goto(t, "wait") /\ UNCHANGED <<thrown, published, groups>>
     \/ /\ LastPart /\ error'
        /\ Throw(t, "recoverable")
        /\ UNCHANGED <<published, groups>>
     \/ /\ LastPart /\ ~error'
        /\ published' = TRUE
        /\ groups' = merged'
        /\ Goto(t, "wait")
        /\ UNCHANGED thrown
  /\ InFactorized
  /\ UNCHANGED <<answerIs, nextSlice, slice, verdict, inputs, emitVars>>

(* Other buckets are still being folded: an empty chunk, and HAVE_MORE so  *)
(* that DuckDB calls this thread again.                                    *)
WaitForGroups(t) ==
  /\ pc[t] = "wait"
  /\ Goto(t, IF published THEN "hand" ELSE "enter")
  /\ InFactorized /\ UNCHANGED <<thrown, groupVars>>

-----------------------------------------------------------------------------
(* Handing out, under the lock. *)

(* An ungrouped aggregate answers one row even over no rows at all. *)
MakesRow == ~query.grouped /\ groupCount = 0 /\ handedOut = 0

MakeRow(t) ==
  /\ pc[t] = "hand"
  /\ MakesRow
  /\ handedOut' = 1
  /\ madeRows' = madeRows + 1
  /\ answers' = answers + 1
  /\ Goto(t, "enter")
  /\ InFactorized
  /\ UNCHANGED <<thrown, emitted, foldVars>>

(* The groups the next chunk is to hold. *)
NextGroups ==
  {g \in 1 .. groupCount : handedOut < g /\ g <= handedOut + VectorSize}

NextHandedOutSkips == handedOut + VectorSize + 1    \* mutant

NextHandedOut == handedOut + Cardinality(NextGroups)

HandOutGroups(t) ==
  /\ pc[t] = "hand"
  /\ ~MakesRow
  /\ NextGroups \cap unconvertible = {}
  /\ IF NextGroups = {}
     THEN Goto(t, "idle") /\ UNCHANGED emitVars
     ELSE /\ handedOut' = NextHandedOut
          /\ emitted' = [g \in AllGroups |->
                           emitted[g] + IF g \in NextGroups THEN 1 ELSE 0]
          /\ answers' = answers + 1
          /\ Goto(t, "enter")
          /\ UNCHANGED madeRows
  /\ InFactorized
  /\ UNCHANGED <<thrown, foldVars>>

(* A value its column cannot take throws on the way out, with the groups   *)
(* before it in the same chunk already counted as handed out.              *)
ConversionThrows(t) ==
  /\ pc[t] = "hand"
  /\ ~MakesRow
  /\ \E bad \in NextGroups \cap unconvertible :
       /\ \A g \in NextGroups \cap unconvertible : bad <= g
       /\ handedOut' = bad - 1
  /\ Throw(t, "recoverable")
  /\ InFactorized
  /\ UNCHANGED <<emitted, madeRows, answers, foldVars>>

-----------------------------------------------------------------------------
GroupStep(t) ==
  \/ DebugFail(t) \/ FoldWhole(t) \/ LookForGroups(t) \/ ShareInputs(t)
  \/ ClaimBucket(t) \/ FoldBucket(t) \/ MergeOverflows(t) \/ MergeBucket(t)
  \/ WaitForGroups(t) \/ MakeRow(t) \/ HandOutGroups(t) \/ ConversionThrows(t)

Step(t) == (PlanStep(t) /\ UNCHANGED groupVars) \/ GroupStep(t)

(* The query has ended; only stuttering is left. *)
Over == QueryOver /\ UNCHANGED vars

Next == (\E t \in Threads : Step(t)) \/ Over

Spec == Init /\ [][Next]_vars

(* The operating system runs every thread that can take a step. *)
FairSpec == Spec /\ \A t \in Threads : WF_vars(Step(t))
-----------------------------------------------------------------------------
TypeOK ==
  /\ PlanTypeOK
  /\ groupCount \in 0 .. MaxGroups
  /\ unconvertible \subseteq AllGroups
  /\ nextSlice \in 0 .. Slices
  /\ slice \in [Threads -> AllBuckets]
  /\ verdict \in [Threads -> {"none", "ok", "failed"}]
  /\ inputs \in BOOLEAN
  /\ merged \in [AllBuckets -> Nat]
  /\ completed \in Nat
  /\ error \in BOOLEAN
  /\ published \in BOOLEAN
  /\ groups \in [AllBuckets -> Nat]
  /\ handedOut \in Nat
  /\ emitted \in [AllGroups -> Nat]
  /\ madeRows \in Nat
  /\ answers \in Nat

(* The user is never given groups of the factorized path and rows of the   *)
(* stock plan by one query that succeeds (GetDataInternal: running both    *)
(* would double the answer).                                               *)
OneSource == ~executorError => answers = 0 \/ scanned = 0

(* The groups that are published merge every bucket exactly once. *)
GroupsAreExact == published => groups = EachOnce

(* No thread hands a group out that another has handed out, and a query    *)
(* answered by the factorized path has handed out every one of them, or    *)
(* the one row an ungrouped aggregate makes over an empty join.            *)
EveryGroupOnce ==
  /\ \A g \in AllGroups : emitted[g] <= 1
  /\ madeRows <= 1
  /\ QueryOver /\ ~executorError /\ ~fellBack =>
       /\ \A g \in 1 .. groupCount : emitted[g] = 1
       /\ ~query.grouped => madeRows + groupCount = 1

(* What the user is given implements QueryAnswer: all the groups, or all   *)
(* the rows of the stock plan, or an error, in the end.                    *)
ChunksOfGroups ==
  IF groupCount = 0 /\ ~query.grouped
  THEN 1
  ELSE (groupCount + VectorSize - 1) \div VectorSize

StockAnswering == scanReady /\ answers = 0

Source ==
  IF StockAnswering THEN "stock" ELSE IF published THEN "factorized" ELSE "none"

Chunks == IF StockAnswering THEN scanned ELSE answers

Outcome ==
  IF executorError THEN "failed" ELSE IF QueryOver THEN "answered" ELSE "running"

QA == INSTANCE QueryAnswer WITH
  StockChunks <- StockTasks, factorizedChunks <- ChunksOfGroups,
  source <- Source, chunks <- Chunks, outcome <- Outcome

ImplementsQueryAnswer == QA!Spec
=============================================================================
