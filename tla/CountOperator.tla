---------------------------- MODULE CountOperator ----------------------------
(***************************************************************************)
(* PhysicalFactorized answering an ungrouped row count: the join key is   *)
(* partitioned into buckets, worker threads claim them with fetch_add,     *)
(* count them apart and add them up under the lock, and whoever folds the  *)
(* last one emits the total. The two shapes that take one bucket, a count  *)
(* under LIMIT and a sum of a product, are here as well, since they share  *)
(* Factorized() and its failures.                                          *)
(*                                                                         *)
(* A bucket's count is abstracted to the bucket: the running total is how  *)
(* often each bucket has been added to it, so that a bucket counted twice  *)
(* or left out is visible whatever its count was.                          *)
(***************************************************************************)
EXTENDS FallbackPlan

VARIABLES
  nextSlice,   (* gstate.next_slice                                         *)
  slice,       (* the bucket each thread has claimed                        *)
  verdict,     (* how counting it went, before it is folded in              *)
  inputs,      (* gstate.inputs has been built                              *)
  total,       (* gstate.total: how often each bucket has been added        *)
  completed,   (* gstate.completed                                          *)
  seen,        (* the value of completed each thread took out of the lock   *)
  error,       (* gstate.error is not empty                                 *)
  handedOut,   (* gstate.handed_out, which the sum of a product uses        *)
  answers,     (* rows the factorized path has emitted                      *)
  answered,    (* the buckets that went into the row emitted last           *)
  folded       (* history: buckets counted into completed                   *)

bucketVars == <<nextSlice, slice, verdict, inputs, total, completed, seen,
                error, handedOut>>
answerVars == <<answers, answered>>
countVars  == <<bucketVars, answerVars, folded>>
vars       == <<planVars, countVars>>

CountShapes == {"count", "limit", "product"}
AllBuckets  == 0 .. NumberOfThreads - 1

NoBuckets  == [b \in AllBuckets |-> 0]
EachOnce   == [b \in AllBuckets |-> IF b \in Buckets THEN 1 ELSE 0]

Init ==
  /\ PlanInit
  /\ query.shape \in CountShapes /\ ~query.grouped
  /\ nextSlice = 0
  /\ slice = [t \in Threads |-> 0]
  /\ verdict = [t \in Threads |-> "none"]
  /\ inputs = FALSE
  /\ total = NoBuckets
  /\ completed = 0
  /\ seen = [t \in Threads |-> 0]
  /\ error = FALSE
  /\ handedOut = 0
  /\ answers = 0
  /\ answered = NoBuckets
  /\ folded = {}

(* What a step of Factorized() on thread t leaves alone. *)
InFactorized == UNCHANGED <<query, queued, fellBack, executorError, inTry,
                            running, depth, working, stockVars>>

(* HAVE_MORE_OUTPUT with a row, after which DuckDB calls again.            *)
EmitRow(t, buckets) ==
  /\ answers' = answers + 1
  /\ answered' = buckets
  /\ Goto(t, "enter")

-----------------------------------------------------------------------------
(* factorize_debug_fail: every call fails before it claims anything. *)
DebugFail(t) ==
  /\ pc[t] = "factorized"
  /\ query.debugFail
  /\ Throw(t, "recoverable")
  /\ InFactorized /\ UNCHANGED countVars

(* Claim the next bucket, or FINISHED once all of them are claimed. *)
ClaimablePastEnd == nextSlice <= Slices    \* mutant

Claimable == nextSlice < Slices

ClaimBucket(t) ==
  /\ pc[t] = "factorized"
  /\ ~query.debugFail
  /\ query.shape # "product"
  /\ nextSlice' = nextSlice + 1
  /\ IF Claimable
     THEN slice' = [slice EXCEPT ![t] = nextSlice] /\ Goto(t, "inputs")
     ELSE UNCHANGED slice /\ Goto(t, "idle")
  /\ InFactorized
  /\ UNCHANGED <<thrown, verdict, inputs, total, completed, seen, error,
                 handedOut, answerVars, folded>>

(* The first thread in reads the inputs, under the lock; reading may       *)
(* throw, be interrupted, or meet an error the database cannot survive.    *)
ReadInputs(t) ==
  /\ pc[t] = "inputs"
  /\ \/ /\ inputs' = TRUE
        /\ Goto(t, IF query.shape = "limit" THEN "atMost" ELSE "count")
        /\ UNCHANGED thrown
     \/ /\ ~inputs
        /\ \E kind \in ErrorKinds : Throw(t, kind)
        /\ UNCHANGED inputs
  /\ InFactorized
  /\ UNCHANGED <<nextSlice, slice, verdict, total, completed, seen, error,
                 handedOut, answerVars, folded>>

(* ExecuteCountSliceWithinMemory, without the lock: a count, or a result   *)
(* that is not ok, or an exception.                                        *)
CountBucket(t) ==
  /\ pc[t] = "count"
  /\ \/ /\ \E v \in {"ok", "failed"} : verdict' = [verdict EXCEPT ![t] = v]
        /\ Goto(t, "fold")
        /\ UNCHANGED thrown
     \/ Throw(t, "recoverable") /\ UNCHANGED verdict
  /\ InFactorized
  /\ UNCHANGED <<nextSlice, slice, inputs, total, completed, seen, error,
                 handedOut, answerVars, folded>>

(* Under the lock again. If the query has been handed to the stock plan    *)
(* meanwhile, the bucket is dropped and the thread joins the fallback from *)
(* where it is, inside the try.                                            *)
AlwaysCountable == TRUE    \* mutant

Countable == ~fellBack

DropBucket(t) ==
  /\ pc[t] = "fold"
  /\ ~Countable
  /\ Goto(t, "emit")
  /\ inTry' = [inTry EXCEPT ![t] = TRUE]
  /\ UNCHANGED <<query, queued, fellBack, executorError, thrown, running,
                 depth, working, stockVars, countVars>>

(* CheckedCardinalityAdd may find that the total no longer fits, and then  *)
(* the bucket is not counted as completed.                                 *)
FoldOverflows(t) ==
  /\ pc[t] = "fold"
  /\ Countable
  /\ verdict[t] = "ok" /\ ~error
  /\ Throw(t, "recoverable")
  /\ InFactorized /\ UNCHANGED countVars

(* Otherwise the bucket counts towards the slices, with its count or with  *)
(* its error. Only the first error is kept.                                *)
FoldBucket(t) ==
  /\ pc[t] = "fold"
  /\ Countable
  /\ error' = (error \/ verdict[t] = "failed")
  /\ total' = IF verdict[t] = "ok" /\ ~error
              THEN [total EXCEPT ![slice[t]] = @ + 1]
              ELSE total
  /\ completed' = completed + 1
  /\ seen' = [seen EXCEPT ![t] = completed + 1]
  /\ folded' = folded \cup {slice[t]}
  /\ Goto(t, "publish")
  /\ InFactorized
  /\ UNCHANGED <<thrown, nextSlice, slice, verdict, inputs, handedOut,
                 answerVars>>

(* Outside the lock: whoever folded the last bucket answers, or throws if  *)
(* any bucket could not be counted. Everyone else asks to be called again. *)
FoldedAsAllClaimed(t) == nextSlice >= Slices    \* mutant

FoldedLast(t) == seen[t] = Slices

Publish(t) ==
  /\ pc[t] = "publish"
  /\ \/ /\ ~FoldedLast(t)
        /\ Goto(t, "enter")
        /\ UNCHANGED <<thrown, answerVars>>
     \/ /\ FoldedLast(t) /\ error
        /\ Throw(t, "recoverable")
        /\ UNCHANGED answerVars
     \/ /\ FoldedLast(t) /\ ~error
        /\ EmitRow(t, total)
        /\ UNCHANGED thrown
  /\ InFactorized
  /\ UNCHANGED <<bucketVars, folded>>

(* ExecuteCountAtMost: the whole limited count in one call. *)
CountAtMost(t) ==
  /\ pc[t] = "atMost"
  /\ \/ EmitRow(t, EachOnce) /\ UNCHANGED thrown
     \/ Throw(t, "recoverable") /\ UNCHANGED answerVars
  /\ InFactorized
  /\ UNCHANGED <<bucketVars, folded>>

(* The sum of a product: under the lock from end to end, once.             *)
SumProduct(t) ==
  /\ pc[t] = "factorized"
  /\ ~query.debugFail
  /\ query.shape = "product"
  /\ \/ /\ handedOut > 0
        /\ Goto(t, "idle")
        /\ UNCHANGED <<thrown, handedOut, answerVars>>
     \/ /\ handedOut = 0
        /\ handedOut' = 1
        /\ EmitRow(t, EachOnce)
        /\ UNCHANGED thrown
     \/ /\ handedOut = 0
        /\ \E kind \in ErrorKinds : Throw(t, kind)
        /\ UNCHANGED <<handedOut, answerVars>>
  /\ InFactorized
  /\ UNCHANGED <<nextSlice, slice, verdict, inputs, total, completed, seen,
                 error, folded>>

-----------------------------------------------------------------------------
CountStep(t) ==
  \/ DebugFail(t) \/ ClaimBucket(t) \/ ReadInputs(t) \/ CountBucket(t)
  \/ DropBucket(t) \/ FoldOverflows(t) \/ FoldBucket(t) \/ Publish(t)
  \/ CountAtMost(t) \/ SumProduct(t)

Step(t) == (PlanStep(t) /\ UNCHANGED countVars) \/ CountStep(t)

(* The query has ended; only stuttering is left. *)
Over == QueryOver /\ UNCHANGED vars

Next == (\E t \in Threads : Step(t)) \/ Over

Spec == Init /\ [][Next]_vars

(* The operating system runs every thread that can take a step. *)
FairSpec == Spec /\ \A t \in Threads : WF_vars(Step(t))
-----------------------------------------------------------------------------
TypeOK ==
  /\ PlanTypeOK
  /\ nextSlice \in Nat
  /\ slice \in [Threads -> AllBuckets]
  /\ verdict \in [Threads -> {"none", "ok", "failed"}]
  /\ inputs \in BOOLEAN
  /\ total \in [AllBuckets -> Nat]
  /\ completed \in Nat
  /\ seen \in [Threads -> Nat]
  /\ error \in BOOLEAN
  /\ handedOut \in {0, 1}
  /\ answers \in Nat
  /\ answered \in [AllBuckets -> Nat]
  /\ folded \subseteq AllBuckets

(* At most one factorized row is ever emitted, and once it has been, no    *)
(* thread hands the query to the stock plan: there are never two answers.  *)
OneAnswer ==
  /\ answers <= 1
  /\ answers = 1 => ~fellBack /\ scanned = 0

(* The total that is emitted counts every bucket of the partition exactly  *)
(* once, whatever the threads' interleaving and whoever emits it.          *)
TotalIsExact == answers > 0 => answered = EachOnce

(* Once the query has been handed to the stock plan, no bucket still being *)
(* counted finds its way into an answer nobody will use.                   *)
FallbackIsFinal ==
  [][ fellBack => UNCHANGED <<fellBack, total, completed, error, answers>> ]_vars

(* What the user is given implements QueryAnswer: one plan's whole answer, *)
(* or an error, in the end. An answer of the factorized path is one row.   *)
Source ==
  IF answers > 0 THEN "factorized" ELSE IF scanReady THEN "stock" ELSE "none"

Chunks == IF answers > 0 THEN answers ELSE scanned

Outcome ==
  IF executorError THEN "failed" ELSE IF QueryOver THEN "answered" ELSE "running"

QA == INSTANCE QueryAnswer WITH
  StockChunks <- StockTasks, factorizedChunks <- 1,
  source <- Source, chunks <- Chunks, outcome <- Outcome

ImplementsQueryAnswer == QA!Spec
=============================================================================
