------------------------ MODULE CountOperatorProofs ------------------------
(***************************************************************************)
(* That PhysicalFactorized never gives two answers to one count and that   *)
(* the answer it gives counts every bucket exactly once, for any number of *)
(* threads, buckets and stock tasks and for every kind of driver error.    *)
(*                                                                         *)
(* The argument. A claimed bucket is held by one thread until it is folded *)
(* into the total, handed out as a limited count, or lost to an exception. *)
(* What is lost is lost for good, so a query that threw can never complete *)
(* its buckets (Spoiled); and a query that has completed them was not      *)
(* spoiled, so nobody has thrown and nobody is left who could.             *)
(*                                                                         *)
(* The last part shows that a count implements QueryAnswer.                *)
(***************************************************************************)
EXTENDS CountOperator, FallbackPlanProofs, FiniteSetTheorems

(* A thread holds the bucket it has claimed until it is folded or lost. *)
HoldLabels == {"inputs", "count", "atMost", "fold"}
Holds(t) == pc[t] \in HoldLabels

(* Labels reached only after the query was handed to the stock plan. *)
StockLabels == {"emit", "ready", "drive", "help", "unwind", "scan"}

(* Handing the query over is what every trace of the stock plan rests on. *)
HandedOver ==
  /\ \A t \in Threads : pc[t] \in StockLabels \/ inTry[t] => fellBack
  /\ scanned > 0 \/ phase # "NONE" => fellBack

(* Buckets are claimed in order, held by one thread and folded once. *)
Partition ==
  /\ \A t \in Threads : Holds(t) => /\ slice[t] \in Buckets
                                    /\ slice[t] < nextSlice
                                    /\ slice[t] \notin folded
  /\ \A t, u \in Threads : Holds(t) /\ Holds(u) /\ slice[t] = slice[u] => t = u
  /\ \A b \in folded : b \in Buckets /\ b < nextSlice
  /\ completed = Cardinality(folded)
  /\ ~error => \A b \in AllBuckets : total[b] = IF b \in folded THEN 1 ELSE 0

(* A bucket that was claimed and that nobody holds or has folded. *)
Lost(b) ==
  /\ b \in Buckets
  /\ b < nextSlice
  /\ b \notin folded
  /\ \A t \in Threads : Holds(t) => slice[t] # b

Spoiled == query.debugFail \/ error \/ \E b \in Buckets : Lost(b)

Thrown == fellBack \/ \E t \in Threads : pc[t] = "throw"

ThrownIsSpoiled == query.shape # "product" /\ Thrown => Spoiled

(* What each shape of query does, and what none of them does under         *)
(* factorize_debug_fail.                                                   *)
ShapeInv ==
  /\ query.shape \in CountShapes
  /\ query.debugFail => nextSlice = 0 /\ answers = 0
  /\ query.shape = "product" => nextSlice = 0
  /\ handedOut = IF query.shape = "product" THEN answers ELSE 0
  /\ \A t \in Threads : pc[t] = "atMost" => query.shape = "limit"
  /\ \A t \in Threads : pc[t] = "fold" => verdict[t] # "none"
  /\ \A t \in Threads : pc[t] \in {"count", "fold", "publish"} => query.shape = "count"
  /\ query.shape # "count" => folded = {} /\ ~error

(* One bucket means one source task: only one thread is ever inside. *)
OneTask ==
  Slices = 1 =>
    /\ queued <= 1
    /\ queued = 1 => \A t \in Threads : pc[t] = "idle"
    /\ \A t, u \in Threads : pc[t] # "idle" /\ pc[u] # "idle" => t = u
    /\ \A t \in Threads : pc[t] = "factorized" => ~fellBack

(* The thread that folded the last bucket is alone in that. *)
Publisher ==
  /\ \A t \in Threads : pc[t] = "publish" => seen[t] <= completed
  /\ \A t \in Threads : pc[t] = "publish" /\ FoldedLast(t) => answers = 0
  /\ \A t, u \in Threads :
       /\ pc[t] = "publish" /\ FoldedLast(t)
       /\ pc[u] = "publish" /\ FoldedLast(u)
       => t = u

(* An answer is the only one, complete, and nothing can follow it. *)
AnswerInv ==
  /\ answers <= 1
  /\ answers > 0 =>
       /\ ~Thrown
       /\ answered = EachOnce
       /\ query.shape = "count" => completed = Slices /\ ~error
       /\ query.shape = "limit" => nextSlice > 0 /\ \A t \in Threads : ~Holds(t)
       /\ query.shape = "product" => handedOut = 1

CountInv ==
  /\ HandedOver
  /\ Partition
  /\ ThrownIsSpoiled
  /\ ShapeInv
  /\ OneTask
  /\ Publisher
  /\ AnswerInv

IInv == TypeOK /\ PlanInv /\ CountInv

-----------------------------------------------------------------------------
(* Types, the single driver and the single frame. *)

(* The operator starts with its variables typed and no frame entered. *)
LEMMA InitTypeOK == Init => TypeOK /\ PlanInv
<1> SUFFICES ASSUME Init PROVE TypeOK /\ PlanInv
  OBVIOUS
<1>1. PlanInv
  BY PlanInitInv DEF Init
<1>2. 0 \in AllBuckets
  BY SizesAssumption DEF AllBuckets
<1>3. NoBuckets \in [AllBuckets -> Nat]
  BY DEF NoBuckets
<1> QED BY <1>1, <1>2, <1>3 DEF Init, TypeOK, PlanInv

(* No step of Factorized() enters or leaves a frame of the fallback. *)
LEMMA CountStepPlanInv ==
  ASSUME PlanInv, NEW t \in Threads, CountStep(t)
  PROVE  PlanInv'
<1> USE DEF Goto, Throw, InFactorized, stockVars
<1>t. PlanTypeOK
  BY DEF PlanInv
<1>1. /\ pc[t] \in {"factorized", "inputs", "count", "atMost", "fold", "publish"}
      /\ \E label \in {"throw", "inputs", "idle", "atMost", "count", "fold",
                       "emit", "publish", "enter"} :
           pc' = [pc EXCEPT ![t] = label]
  BY DEF CountStep, DebugFail, ClaimBucket, ReadInputs, CountBucket, DropBucket,
         FoldOverflows, FoldBucket, Publish, CountAtMost, SumProduct, EmitRow
<1>2. /\ UNCHANGED <<query, queued, fellBack, executorError, running, depth,
                     working, phase, stockQueued, collected, scanReady, scanned>>
      /\ inTry' = inTry \/ inTry' = [inTry EXCEPT ![t] = TRUE]
  BY DEF CountStep, DebugFail, ClaimBucket, ReadInputs, CountBucket, DropBucket,
         FoldOverflows, FoldBucket, Publish, CountAtMost, SumProduct
<1>3. \/ thrown' = thrown
      \/ \E kind \in ErrorKinds : thrown' = [thrown EXCEPT ![t] = kind]
  BY DEF CountStep, DebugFail, ClaimBucket, ReadInputs, CountBucket, DropBucket,
         FoldOverflows, FoldBucket, Publish, CountAtMost, SumProduct, ErrorKinds
<1>4. PICK label \in {"throw", "inputs", "idle", "atMost", "count", "fold",
                      "emit", "publish", "enter"} :
           pc' = [pc EXCEPT ![t] = label]
  BY <1>1
<1>5. label \in FreeLabels /\ pc[t] \in FreeLabels
  BY <1>1 DEF FreeLabels, Labels
<1>6. thrown' \in [Threads -> ErrorKinds \cup {"none"}]
  BY <1>3, <1>t DEF PlanTypeOK
<1>7. inTry' \in [Threads -> BOOLEAN]
  BY <1>2, <1>t DEF PlanTypeOK
<1> QED BY <1>t, <1>2, <1>4, <1>5, <1>6, <1>7, FreeStepInv DEF PlanTypeOK

(* Every step of Factorized() keeps the operator's own variables typed. *)
LEMMA CountStepTypeOK ==
  ASSUME TypeOK, PlanInv, NEW t \in Threads, CountStep(t)
  PROVE  TypeOK'
<1> USE DEF TypeOK, countVars, bucketVars, answerVars, EmitRow
<1>p. PlanTypeOK'
  BY CountStepPlanInv DEF PlanInv
<1>e. EachOnce \in [AllBuckets -> Nat]
  BY DEF EachOnce
<1>1. CASE DebugFail(t)
  BY <1>p, <1>1 DEF DebugFail
<1>2. CASE ClaimBucket(t)
  <2>1. slice' \in [Threads -> AllBuckets]
    <3>1. Claimable => nextSlice \in AllBuckets
      BY SlicesType, SizesAssumption DEF Claimable, AllBuckets
    <3> QED BY <3>1, <1>2 DEF ClaimBucket
  <2> QED BY <1>p, <1>2, <2>1 DEF ClaimBucket
<1>3. CASE ReadInputs(t)
  <2>1. inputs' \in BOOLEAN
    <3>1. inputs' = TRUE \/ inputs' = inputs
      BY <1>3 DEF ReadInputs
    <3> QED BY <3>1, Zenon
  <2> QED BY <1>p, <1>3, <2>1 DEF ReadInputs
<1>4. CASE CountBucket(t)
  <2>1. verdict' \in [Threads -> {"none", "ok", "failed"}]
    BY <1>4 DEF CountBucket
  <2> QED BY <1>p, <1>4, <2>1 DEF CountBucket
<1>5. CASE DropBucket(t)
  BY <1>p, <1>5 DEF DropBucket
<1>6. CASE FoldOverflows(t)
  BY <1>p, <1>6 DEF FoldOverflows
<1>7. CASE FoldBucket(t)
  <2>1. total' \in [AllBuckets -> Nat]
    BY <1>7 DEF FoldBucket
  <2>2. error' \in BOOLEAN
    BY <1>7 DEF FoldBucket
  <2>3. seen' \in [Threads -> Nat] /\ completed' \in Nat
    BY <1>7 DEF FoldBucket
  <2>4. folded' \subseteq AllBuckets
    BY <1>7 DEF FoldBucket
  <2> QED BY <1>p, <1>7, <2>1, <2>2, <2>3, <2>4 DEF FoldBucket
<1>8. CASE Publish(t)
  BY <1>p, <1>8 DEF Publish
<1>9. CASE CountAtMost(t)
  BY <1>p, <1>e, <1>9 DEF CountAtMost
<1>10. CASE SumProduct(t)
  BY <1>p, <1>e, <1>10 DEF SumProduct
<1> QED BY <1>1, <1>2, <1>3, <1>4, <1>5, <1>6, <1>7, <1>8, <1>9, <1>10
        DEF CountStep

(* Types, the single driver and the single frame survive any step. *)
LEMMA StepPlanInv ==
  ASSUME TypeOK, PlanInv, [Next]_vars
  PROVE  TypeOK' /\ PlanInv'
<1>1. ASSUME NEW t \in Threads, PlanStep(t), UNCHANGED countVars
      PROVE  TypeOK' /\ PlanInv'
  BY <1>1, PlanStepInv
     DEF TypeOK, PlanInv, countVars, bucketVars, answerVars
<1>2. ASSUME NEW t \in Threads, CountStep(t)
      PROVE  TypeOK' /\ PlanInv'
  BY <1>2, CountStepPlanInv, CountStepTypeOK
<1>3. CASE UNCHANGED vars
  BY <1>3 DEF vars, planVars, threadVars, stockVars, countVars, bucketVars,
              answerVars, TypeOK, PlanInv, PlanTypeOK, OneDriver,
              NoNestedFrames, Driving, Helping
<1> QED BY <1>1, <1>2, <1>3 DEF Next, Step, Over

(* The variables of a query in progress have the values the code gives     *)
(* them, a bucket claimed lies within the partition and no counter is      *)
(* negative: depth, which FallbackRunning's destructor lowers, included.   *)
THEOREM TypeCorrect == Spec => []TypeOK
<1>1. Init => TypeOK /\ PlanInv
  BY InitTypeOK
<1>2. TypeOK /\ PlanInv /\ [Next]_vars => (TypeOK /\ PlanInv)'
  BY StepPlanInv
<1> QED BY <1>1, <1>2, PTL DEF Spec

(* For any number of threads, one thread at most drives the stock plan,    *)
(* and somebody does for as long as the phase tells helpers to wait.       *)
THEOREM AlwaysOneDriver == Spec => []OneDriver
<1>1. Init => TypeOK /\ PlanInv
  BY InitTypeOK
<1>2. TypeOK /\ PlanInv /\ [Next]_vars => (TypeOK /\ PlanInv)'
  BY StepPlanInv
<1>3. PlanInv => OneDriver
  BY DEF PlanInv
<1> QED BY <1>1, <1>2, <1>3, PTL DEF Spec

(* No call into the operator on a thread that is inside EmitFallback adds  *)
(* a frame to that thread's stack.                                         *)
THEOREM NeverNested == Spec => []NoNestedFrames
<1>1. Init => TypeOK /\ PlanInv
  BY InitTypeOK
<1>2. TypeOK /\ PlanInv /\ [Next]_vars => (TypeOK /\ PlanInv)'
  BY StepPlanInv
<1>3. PlanInv => NoNestedFrames
  BY DEF PlanInv
<1> QED BY <1>1, <1>2, <1>3, PTL DEF Spec

-----------------------------------------------------------------------------
(* What the buckets' bookkeeping implies. *)

(* There are as many buckets as slices. *)
LEMMA BucketsCount == IsFiniteSet(Buckets) /\ Cardinality(Buckets) = Slices
<1>1. 0 \in Int /\ Slices - 1 \in Int /\ Slices - 1 >= 0
  BY SlicesType
<1>2. IsFiniteSet(0 .. Slices - 1) /\ Cardinality(0 .. Slices - 1) = (Slices - 1) - 0 + 1
  BY <1>1, FS_Interval
<1> QED BY <1>2, SlicesType DEF Buckets

(* A set of buckets as large as the partition is the partition. *)
LEMMA BucketSubset ==
  ASSUME NEW S \in SUBSET Buckets
  PROVE  /\ IsFiniteSet(S)
         /\ Cardinality(S) \in Nat
         /\ Cardinality(S) <= Slices
         /\ Cardinality(S) = Slices => S = Buckets
<1>1. /\ IsFiniteSet(S) /\ Cardinality(S) <= Slices
      /\ Slices = Cardinality(S) => Buckets = S
  BY BucketsCount, FS_Subset
<1> QED BY <1>1, FS_CardinalityType

(* No more buckets are folded than there are, and when as many are, all of *)
(* them are.                                                               *)
LEMMA FoldedBound ==
  ASSUME Partition
  PROVE  /\ IsFiniteSet(folded)
         /\ completed \in Nat
         /\ completed <= Slices
         /\ completed = Slices => folded = Buckets
<1>1. folded \in SUBSET Buckets
  BY DEF Partition
<1> QED BY <1>1, BucketSubset DEF Partition

(* While a thread holds a bucket, there is no answer yet. *)
LEMMA HolderNoAnswer ==
  ASSUME TypeOK, CountInv, NEW t \in Threads, Holds(t)
  PROVE  answers = 0 /\ ~query.debugFail /\ query.shape # "product"
<1>1. slice[t] \in Buckets /\ slice[t] < nextSlice /\ slice[t] \notin folded
  BY DEF CountInv, Partition
<1>2. nextSlice # 0
  BY <1>1 DEF TypeOK, Buckets
<1>3. ~query.debugFail /\ query.shape # "product"
  BY <1>2 DEF CountInv, ShapeInv
<1>4. query.shape \in {"count", "limit"}
  BY <1>3 DEF CountInv, ShapeInv, CountShapes
<1>5. completed # Slices
  BY <1>1, FoldedBound DEF CountInv
<1>6. ~(answers > 0)
  BY <1>4, <1>5 DEF CountInv, AnswerInv
<1> QED BY <1>3, <1>6 DEF TypeOK

(* Nothing is claimed, thrown or answered in the state a query starts in. *)
LEMMA InitCountInv ==
  ASSUME Init
  PROVE  CountInv
<1> USE DEF Init, PlanInit
<1>1. HandedOver
  BY DEF HandedOver, StockLabels
<1>2. \A t \in Threads : ~Holds(t)
  BY DEF Holds, HoldLabels
<1>3. Partition
  BY <1>2, FS_EmptySet DEF Partition, NoBuckets
<1>4. ThrownIsSpoiled
  BY DEF ThrownIsSpoiled, Thrown
<1>5. ShapeInv
  BY DEF ShapeInv
<1>6. OneTask
  BY DEF OneTask
<1>7. Publisher
  BY DEF Publisher
<1>8. AnswerInv
  BY DEF AnswerInv
<1> QED BY <1>1, <1>3, <1>4, <1>5, <1>6, <1>7, <1>8 DEF CountInv

(* A query that is spoiled stays so, if no bucket that was lost is found.  *)
LEMMA SpoiledStays ==
  ASSUME UNCHANGED query, error => error',
         \A b \in Buckets : Lost(b) => Lost(b)'
  PROVE  Spoiled => Spoiled'
<1>1. Buckets' = Buckets
  BY DEF Buckets, Slices, ParallelSource
<1>2. CASE \E b \in Buckets : Lost(b)
  BY <1>1, <1>2 DEF Spoiled
<1>3. CASE query.debugFail \/ error
  BY <1>3 DEF Spoiled
<1> QED BY <1>2, <1>3 DEF Spoiled

-----------------------------------------------------------------------------
(* The fallback's own steps move no bucket. *)

(* With one source task, the fallback's code never lets a second thread in. *)
LEMMA PlanStepOneTask ==
  ASSUME TypeOK, CountInv, NEW t \in Threads, PlanStep(t)
  PROVE  OneTask'
<1> USE DEF Goto, stockVars, threadVars
<1>p. pc \in [Threads -> Labels] /\ queued \in Nat
  BY DEF TypeOK, PlanTypeOK
<1>s. Slices' = Slices
  BY DEF PlanStep, StartSourceTask, StopOnError, TakeStockTask, FinishStockTask,
         Reenter, Enter, Catch, EmitFallback, ReadyFallback, DriverThrows,
         DriverSeesError, FinishDriving, UnwindDriver, HelperReturns,
         ScanFallback, Slices, ParallelSource
<1>o. OneTask
  BY DEF CountInv
<1> SUFFICES ASSUME Slices = 1 PROVE OneTask'
  BY <1>s DEF OneTask
<1>1. CASE StartSourceTask(t)
  <2>1. queued = 1 /\ queued' = 0 /\ \A u \in Threads : pc[u] = "idle"
    BY <1>1, <1>o, <1>p DEF StartSourceTask, OneTask
  <2>2. pc' = [pc EXCEPT ![t] = "enter"]
    BY <1>1 DEF StartSourceTask
  <2> QED BY <1>p, <2>1, <2>2 DEF OneTask
<1>2. CASE Reenter(t)
  <2>1. queued' = queued - 1 /\ queued > 0 /\ UNCHANGED <<pc, fellBack>>
    BY <1>2 DEF Reenter
  <2> QED BY <1>p, <1>o, <2>1 DEF OneTask
<1>3. CASE TakeStockTask(t) \/ FinishStockTask(t)
  <2>1. UNCHANGED <<pc, queued, fellBack>>
    BY <1>3 DEF TakeStockTask, FinishStockTask
  <2> QED BY <1>o, <2>1 DEF OneTask
<1>4. CASE Enter(t)
  <2>1. pc[t] = "enter" /\ pc' = [pc EXCEPT ![t] = Entry] /\ UNCHANGED <<queued, fellBack>>
    BY <1>4 DEF Enter
  <2>2. Entry # "idle" /\ (Entry = "factorized" => ~fellBack)
    BY DEF Entry
  <2> QED BY <1>p, <1>o, <2>1, <2>2 DEF OneTask
<1>5. ASSUME \/ Catch(t) \/ StopOnError(t) \/ EmitFallback(t) \/ ReadyFallback(t)
             \/ DriverThrows(t) \/ DriverSeesError(t) \/ FinishDriving(t)
             \/ UnwindDriver(t) \/ HelperReturns(t) \/ ScanFallback(t)
      PROVE  OneTask'
  <2>1. pc[t] # "idle" /\ queued' = queued
    BY <1>5 DEF StopOnError, Catch, EmitFallback, ReadyFallback, DriverThrows,
                DriverSeesError, FinishDriving, UnwindDriver, HelperReturns,
                ScanFallback
  <2>2. \E label \in Labels \ {"factorized"} : pc' = [pc EXCEPT ![t] = label]
    BY <1>5 DEF StopOnError, Catch, EmitFallback, ReadyFallback, DriverThrows,
                DriverSeesError, FinishDriving, UnwindDriver, HelperReturns,
                ScanFallback, Labels
  <2>3. PICK label \in Labels \ {"factorized"} : pc' = [pc EXCEPT ![t] = label]
    BY <2>2
  <2>4. queued = 0 /\ \A u \in Threads \ {t} : pc[u] = "idle"
    BY <1>p, <1>o, <2>1 DEF OneTask
  <2> QED BY <1>p, <2>1, <2>3, <2>4 DEF OneTask
<1> QED BY <1>1, <1>2, <1>3, <1>4, <1>5 DEF PlanStep

(* Only a query that was handed over leaves traces of the stock plan. *)
LEMMA PlanStepHandedOver ==
  ASSUME TypeOK, CountInv, NEW t \in Threads, PlanStep(t)
  PROVE  HandedOver'
<1> USE DEF Goto, stockVars, threadVars
<1>p. pc \in [Threads -> Labels] /\ inTry \in [Threads -> BOOLEAN]
  BY DEF TypeOK, PlanTypeOK
<1>h. HandedOver
  BY DEF CountInv
<1>1. CASE Enter(t)
  <2>1. /\ pc' = [pc EXCEPT ![t] = Entry]
        /\ inTry' = [inTry EXCEPT ![t] = FALSE]
        /\ UNCHANGED <<fellBack, scanned, phase>>
    BY <1>1 DEF Enter, CalledInTry
  <2>2. Entry \in StockLabels => fellBack
    BY DEF Entry, StockLabels
  <2> QED BY <1>p, <1>h, <2>1, <2>2 DEF HandedOver
<1>2. CASE Catch(t)
  <2>1. /\ inTry' = [inTry EXCEPT ![t] = FALSE]
        /\ UNCHANGED <<scanned, phase>>
        /\ \/ fellBack' = TRUE /\ pc' = [pc EXCEPT ![t] = "emit"]
           \/ UNCHANGED fellBack /\ pc' = [pc EXCEPT ![t] = "idle"]
    BY <1>2 DEF Catch, CalledInTry
  <2>2. "idle" \notin StockLabels
    BY DEF StockLabels
  <2> QED BY <1>p, <1>h, <2>1, <2>2 DEF HandedOver
<1>3. CASE StartSourceTask(t) \/ StopOnError(t)
  <2>1. /\ \E label \in {"enter", "idle"} : pc' = [pc EXCEPT ![t] = label]
        /\ UNCHANGED <<inTry, fellBack, scanned, phase>>
    BY <1>3 DEF StartSourceTask, StopOnError
  <2> QED BY <1>p, <1>h, <2>1 DEF HandedOver, StockLabels
<1>4. CASE TakeStockTask(t) \/ FinishStockTask(t) \/ Reenter(t)
  <2>1. UNCHANGED <<pc, inTry, fellBack, scanned, phase>>
    BY <1>4 DEF TakeStockTask, FinishStockTask, Reenter
  <2> QED BY <1>h, <2>1 DEF HandedOver
<1>5. ASSUME \/ EmitFallback(t) \/ ReadyFallback(t) \/ DriverThrows(t)
             \/ DriverSeesError(t) \/ FinishDriving(t) \/ UnwindDriver(t)
             \/ HelperReturns(t) \/ ScanFallback(t)
      PROVE  HandedOver'
  <2>1. pc[t] \in StockLabels /\ UNCHANGED <<inTry, fellBack>>
    BY <1>5 DEF EmitFallback, ReadyFallback, DriverThrows, DriverSeesError,
                FinishDriving, UnwindDriver, HelperReturns, ScanFallback,
                StockLabels
  <2>2. fellBack /\ fellBack'
    BY <1>h, <2>1 DEF HandedOver
  <2> QED BY <2>2 DEF HandedOver
<1> QED BY <1>1, <1>2, <1>3, <1>4, <1>5 DEF PlanStep

(* A step of the fallback's own code leaves every bucket where it is and   *)
(* hands the query over only if it had been, or an exception was on its way. *)
LEMMA PlanStepQuiet ==
  ASSUME TypeOK, CountInv, NEW t \in Threads, PlanStep(t)
  PROVE  /\ UNCHANGED query
         /\ \A u \in Threads : Holds(u)' = Holds(u)
         /\ \A u \in Threads : pc'[u] \in {"atMost", "count", "fold", "publish"}
                               => pc'[u] = pc[u]
         /\ Thrown' => Thrown
<1> USE DEF Goto, stockVars, threadVars
<1>p. pc \in [Threads -> Labels]
  BY DEF TypeOK, PlanTypeOK
<1>q. UNCHANGED query
  BY DEF PlanStep, StartSourceTask, StopOnError, TakeStockTask, FinishStockTask,
         Reenter, Enter, Catch, EmitFallback, ReadyFallback, DriverThrows,
         DriverSeesError, FinishDriving, UnwindDriver, HelperReturns,
         ScanFallback
<1>1. CASE TakeStockTask(t) \/ FinishStockTask(t) \/ Reenter(t)
  <2>1. UNCHANGED <<pc, fellBack>>
    BY <1>1 DEF TakeStockTask, FinishStockTask, Reenter
  <2> QED BY <1>q, <2>1 DEF Holds, Thrown
<1>2. CASE Catch(t)
  <2>1. pc[t] = "throw"
    BY <1>2 DEF Catch
  <2>2. Thrown
    BY <2>1 DEF Thrown
  <2>3. \E label \in {"idle", "emit"} : pc' = [pc EXCEPT ![t] = label]
    BY <1>2 DEF Catch
  <2> QED BY <1>p, <1>q, <2>1, <2>2, <2>3 DEF Holds, HoldLabels
<1>3. CASE UnwindDriver(t)
  <2>1. pc[t] = "unwind" /\ fellBack
    BY <1>3 DEF UnwindDriver, CountInv, HandedOver, StockLabels
  <2>2. Thrown
    BY <2>1 DEF Thrown
  <2>3. \E label \in {"idle", "throw"} : pc' = [pc EXCEPT ![t] = label]
    BY <1>3 DEF UnwindDriver
  <2> QED BY <1>p, <1>q, <2>1, <2>2, <2>3 DEF Holds, HoldLabels
<1>4. ASSUME \/ StartSourceTask(t) \/ StopOnError(t) \/ Enter(t)
             \/ EmitFallback(t) \/ ReadyFallback(t) \/ DriverThrows(t)
             \/ DriverSeesError(t) \/ FinishDriving(t) \/ HelperReturns(t)
             \/ ScanFallback(t)
      PROVE  /\ \A u \in Threads : Holds(u)' = Holds(u)
             /\ \A u \in Threads : pc'[u] \in {"atMost", "count", "fold", "publish"}
                                   => pc'[u] = pc[u]
             /\ Thrown' => Thrown
  <2>1. pc[t] \notin HoldLabels /\ UNCHANGED fellBack
    BY <1>4 DEF StartSourceTask, StopOnError, Enter, EmitFallback,
                ReadyFallback, DriverThrows, DriverSeesError, FinishDriving,
                HelperReturns, ScanFallback, HoldLabels
  <2>2. \E label \in {"enter", "idle", "emit", "factorized", "ready", "help",
                     "drive", "unwind", "scan"} : pc' = [pc EXCEPT ![t] = label]
    BY <1>4 DEF StartSourceTask, StopOnError, Enter, Entry, EmitFallback,
                ReadyFallback, DriverThrows, DriverSeesError, FinishDriving,
                HelperReturns, ScanFallback
  <2>3. PICK label \in {"enter", "idle", "emit", "factorized", "ready", "help",
                        "drive", "unwind", "scan"} : pc' = [pc EXCEPT ![t] = label]
    BY <2>2
  <2>4. \A u \in Threads : u # t => pc'[u] = pc[u]
    BY <1>p, <2>3
  <2>5. pc'[t] = label
    BY <1>p, <2>3
  <2>6. \A u \in Threads : Holds(u)' = Holds(u)
    BY <2>1, <2>4, <2>5 DEF Holds, HoldLabels
  <2>7. Thrown' => Thrown
    BY <2>1, <2>4, <2>5 DEF Thrown
  <2> QED BY <2>4, <2>5, <2>6, <2>7
<1> QED BY <1>q, <1>1, <1>2, <1>3, <1>4 DEF PlanStep

(* The fallback's own steps preserve the invariant. *)
LEMMA PlanStepCountInv ==
  ASSUME TypeOK, CountInv, NEW t \in Threads, PlanStep(t), UNCHANGED countVars
  PROVE  CountInv'
<1> USE DEF countVars, bucketVars, answerVars
<1>1. /\ UNCHANGED <<query, Slices, Buckets, EachOnce>>
      /\ \A u \in Threads : Holds(u)' = Holds(u)
      /\ \A u \in Threads : pc'[u] \in {"atMost", "count", "fold", "publish"}
                            => pc'[u] = pc[u]
      /\ Thrown' => Thrown
  BY PlanStepQuiet DEF Slices, Buckets, EachOnce, ParallelSource
<1>2. HandedOver' /\ OneTask'
  BY PlanStepHandedOver, PlanStepOneTask
<1>3. Partition'
  BY <1>1 DEF CountInv, Partition
<1>4. ThrownIsSpoiled'
  <2>1. \A b \in Buckets : Lost(b) => Lost(b)'
    BY <1>1 DEF Lost
  <2> QED BY <1>1, <2>1, SpoiledStays DEF CountInv, ThrownIsSpoiled
<1>5. ShapeInv'
  BY <1>1 DEF CountInv, ShapeInv
<1>6. Publisher'
  BY <1>1 DEF CountInv, Publisher, FoldedLast
<1>7. AnswerInv'
  BY <1>1 DEF CountInv, AnswerInv
<1> QED BY <1>2, <1>3, <1>4, <1>5, <1>6, <1>7 DEF CountInv

-----------------------------------------------------------------------------
(* Steps of a thread that holds a bucket. *)

(* A thread inside the operator is the only one when there is one task. *)
LEMMA StepOneTask ==
  ASSUME TypeOK, CountInv, NEW t \in Threads, pc[t] # "idle",
         NEW label \in Labels \ {"factorized"}, pc' = [pc EXCEPT ![t] = label],
         UNCHANGED <<query, queued, fellBack>>
  PROVE  OneTask'
<1>1. pc \in [Threads -> Labels]
  BY DEF TypeOK, PlanTypeOK
<1>2. Slices' = Slices
  BY DEF Slices, ParallelSource
<1> QED BY <1>1, <1>2 DEF CountInv, OneTask

(* A thread that goes on holding its bucket disturbs nothing. *)
LEMMA KeepsBucket ==
  ASSUME TypeOK, CountInv, NEW t \in Threads, Holds(t),
         NEW label \in HoldLabels, pc' = [pc EXCEPT ![t] = label],
         label = "atMost" => query.shape = "limit",
         label \in {"count", "fold"} => query.shape = "count",
         label = "fold" => verdict'[t] # "none",
         \A u \in Threads \ {t} : verdict'[u] = verdict[u],
         InFactorized,
         UNCHANGED <<nextSlice, slice, total, completed, seen, error,
                     handedOut, answers, answered, folded>>
  PROVE  CountInv'
<1> USE DEF InFactorized, stockVars
<1>p. pc \in [Threads -> Labels]
  BY DEF TypeOK, PlanTypeOK
<1>1. /\ UNCHANGED <<query, Slices, Buckets, EachOnce>>
      /\ \A u \in Threads : Holds(u)' = Holds(u)
      /\ \A u \in Threads \ {t} : pc'[u] = pc[u]
      /\ pc'[t] = label
      /\ Thrown' => Thrown
  BY <1>p DEF Slices, Buckets, EachOnce, ParallelSource, Holds, HoldLabels, Thrown
<1>2. HandedOver'
  BY <1>1 DEF CountInv, HandedOver, HoldLabels, StockLabels
<1>3. OneTask'
  BY <1>p, StepOneTask DEF Holds, HoldLabels, Labels
<1>4. Partition'
  BY <1>1 DEF CountInv, Partition
<1>5. ThrownIsSpoiled'
  <2>1. \A b \in Buckets : Lost(b) => Lost(b)'
    BY <1>1 DEF Lost
  <2> QED BY <1>1, <2>1, SpoiledStays DEF CountInv, ThrownIsSpoiled
<1>6. ShapeInv'
  BY <1>1 DEF CountInv, ShapeInv, HoldLabels
<1>7. Publisher'
  BY <1>1 DEF CountInv, Publisher, FoldedLast, HoldLabels
<1>8. AnswerInv'
  BY <1>1, HolderNoAnswer DEF AnswerInv
<1> QED BY <1>2, <1>3, <1>4, <1>5, <1>6, <1>7, <1>8 DEF CountInv

(* A thread that throws while it holds a bucket has lost it for good. *)
LEMMA ThrowLosesBucket ==
  ASSUME TypeOK, CountInv, NEW t \in Threads, Holds(t),
         pc' = [pc EXCEPT ![t] = "throw"],
         InFactorized, UNCHANGED countVars
  PROVE  CountInv'
<1> USE DEF InFactorized, stockVars, countVars, bucketVars, answerVars
<1>p. pc \in [Threads -> Labels]
  BY DEF TypeOK, PlanTypeOK
<1>1. /\ UNCHANGED <<query, Slices, Buckets, EachOnce>>
      /\ \A u \in Threads \ {t} : pc'[u] = pc[u]
      /\ pc'[t] = "throw"
  BY <1>p DEF Slices, Buckets, EachOnce, ParallelSource
<1>h. ~Holds(t)' /\ \A u \in Threads \ {t} : Holds(u)' = Holds(u)
  BY <1>1 DEF Holds, HoldLabels
<1>2. HandedOver'
  BY <1>1 DEF CountInv, HandedOver, StockLabels
<1>3. OneTask'
  BY <1>p, StepOneTask DEF Holds, HoldLabels, Labels
<1>4. Partition'
  BY <1>1, <1>h DEF CountInv, Partition
<1>5. ThrownIsSpoiled'
  <2>1. Lost(slice[t])'
    BY <1>1, <1>h DEF CountInv, Partition, Lost
  <2>2. slice[t] \in Buckets'
    BY <1>1 DEF CountInv, Partition
  <2>3. Spoiled'
    BY <2>1, <2>2 DEF Spoiled
  <2> QED BY <2>3 DEF ThrownIsSpoiled
<1>6. ShapeInv'
  BY <1>1 DEF CountInv, ShapeInv
<1>7. Publisher'
  BY <1>1 DEF CountInv, Publisher, FoldedLast
<1>8. AnswerInv'
  BY <1>1, HolderNoAnswer DEF AnswerInv
<1> QED BY <1>2, <1>3, <1>4, <1>5, <1>6, <1>7, <1>8 DEF CountInv

-----------------------------------------------------------------------------
(* The steps of Factorized(). *)

(* factorize_debug_fail spoils the query before anything is claimed. *)
LEMMA DebugFailInv ==
  ASSUME TypeOK, CountInv, NEW t \in Threads, DebugFail(t)
  PROVE  CountInv'
<1> USE DEF DebugFail, Goto, Throw, InFactorized, stockVars, countVars,
            bucketVars, answerVars
<1>p. pc \in [Threads -> Labels]
  BY DEF TypeOK, PlanTypeOK
<1>1. /\ UNCHANGED <<query, Slices, Buckets, EachOnce>>
      /\ \A u \in Threads \ {t} : pc'[u] = pc[u]
      /\ pc[t] = "factorized" /\ pc'[t] = "throw"
  BY <1>p DEF Slices, Buckets, EachOnce, ParallelSource
<1>h. \A u \in Threads : Holds(u)' = Holds(u)
  BY <1>1 DEF Holds, HoldLabels
<1>2. HandedOver'
  BY <1>1 DEF CountInv, HandedOver, StockLabels
<1>3. OneTask'
  BY <1>p, StepOneTask DEF Labels
<1>4. Partition'
  BY <1>1, <1>h DEF CountInv, Partition
<1>5. ThrownIsSpoiled'
  BY DEF ThrownIsSpoiled, Spoiled
<1>6. ShapeInv'
  BY <1>1 DEF CountInv, ShapeInv
<1>7. Publisher'
  BY <1>1 DEF CountInv, Publisher, FoldedLast
<1>8. AnswerInv'
  BY DEF CountInv, ShapeInv, AnswerInv
<1> QED BY <1>2, <1>3, <1>4, <1>5, <1>6, <1>7, <1>8 DEF CountInv

(* fetch_add gives each bucket to one thread. *)
LEMMA ClaimBucketInv ==
  ASSUME TypeOK, CountInv, NEW t \in Threads, ClaimBucket(t)
  PROVE  CountInv'
<1> USE DEF Goto, InFactorized, stockVars, answerVars
<1>p. pc \in [Threads -> Labels] /\ slice \in [Threads -> AllBuckets] /\ nextSlice \in Nat
  BY DEF TypeOK, PlanTypeOK
<1>1. /\ UNCHANGED <<query, Slices, Buckets, EachOnce, fellBack, queued, inTry,
                     scanned, phase, total, completed, seen, error, handedOut,
                     answers, answered, folded, verdict>>
      /\ nextSlice' = nextSlice + 1
      /\ pc[t] = "factorized" /\ ~query.debugFail /\ query.shape # "product"
  BY DEF ClaimBucket, Slices, Buckets, EachOnce, ParallelSource
<1>2. \/ /\ Claimable
         /\ slice' = [slice EXCEPT ![t] = nextSlice]
         /\ pc' = [pc EXCEPT ![t] = "inputs"]
      \/ /\ ~Claimable
         /\ slice' = slice
         /\ pc' = [pc EXCEPT ![t] = "idle"]
  BY DEF ClaimBucket
<1>3. /\ \A u \in Threads \ {t} : pc'[u] = pc[u] /\ slice'[u] = slice[u]
      /\ pc'[t] \in {"inputs", "idle"}
      /\ pc'[t] = "inputs" => nextSlice < Slices /\ slice'[t] = nextSlice
      /\ nextSlice >= Slices => pc'[t] = "idle"
  BY <1>p, <1>2, SlicesType DEF Claimable
<1>h. /\ \A u \in Threads \ {t} : Holds(u)' = Holds(u)
      /\ ~Holds(t)
      /\ Holds(t)' => pc'[t] = "inputs"
  BY <1>1, <1>3 DEF Holds, HoldLabels
<1>a. HandedOver'
  BY <1>1, <1>3 DEF CountInv, HandedOver, StockLabels
<1>b. OneTask'
  BY <1>p, <1>1, <1>2, StepOneTask DEF Labels
<1>c. Partition'
  <2>1. nextSlice < Slices => nextSlice \in Buckets
    BY <1>p, SlicesType DEF Buckets
  <2>2. \A u \in Threads : Holds(u)' => /\ slice'[u] \in Buckets
                                       /\ slice'[u] < nextSlice'
                                       /\ slice'[u] \notin folded
    BY <1>p, <1>1, <1>3, <1>h, <2>1, SlicesType DEF CountInv, Partition, Buckets
  <2>3. \A u, v \in Threads : Holds(u)' /\ Holds(v)' /\ slice'[u] = slice'[v] => u = v
    BY <1>p, <1>1, <1>3, <1>h, SlicesType DEF CountInv, Partition, Buckets
  <2>4. \A b \in folded' : b \in Buckets' /\ b < nextSlice'
    BY <1>p, <1>1, SlicesType DEF CountInv, Partition, Buckets
  <2> QED BY <1>1, <2>2, <2>3, <2>4 DEF CountInv, Partition
<1>d. ThrownIsSpoiled'
  <2>1. \A b \in Buckets : Lost(b) => Lost(b)'
    BY <1>p, <1>1, <1>3, <1>h, SlicesType DEF Lost, Buckets
  <2>2. Thrown' => Thrown
    BY <1>1, <1>3 DEF Thrown
  <2> QED BY <1>1, <2>1, <2>2, SpoiledStays DEF CountInv, ThrownIsSpoiled
<1>e. ShapeInv'
  BY <1>1, <1>3 DEF CountInv, ShapeInv
<1>f. Publisher'
  BY <1>1, <1>3 DEF CountInv, Publisher, FoldedLast
<1>g. AnswerInv'
  <2>1. Thrown' => Thrown
    BY <1>1, <1>3 DEF Thrown
  <2>2. query.shape = "limit" => Slices = 1
    BY DEF Slices
  <2>3. answers > 0 /\ query.shape = "limit" => \A u \in Threads : ~Holds(u)'
    BY <1>p, <1>1, <1>3, <1>h, <2>2 DEF CountInv, AnswerInv
  <2> QED BY <1>p, <1>1, <2>1, <2>3 DEF CountInv, AnswerInv
<1> QED BY <1>a, <1>b, <1>c, <1>d, <1>e, <1>f, <1>g DEF CountInv

(* Reading the inputs keeps the bucket or loses it. *)
LEMMA ReadInputsInv ==
  ASSUME TypeOK, CountInv, NEW t \in Threads, ReadInputs(t)
  PROVE  CountInv'
<1>1. Holds(t) /\ ~query.debugFail /\ query.shape \in {"count", "limit"}
  <2>1. Holds(t)
    BY DEF ReadInputs, Holds, HoldLabels
  <2> QED BY <2>1, HolderNoAnswer DEF CountInv, ShapeInv, CountShapes
<1>2. \/ pc' = [pc EXCEPT ![t] = IF query.shape = "limit" THEN "atMost" ELSE "count"]
      \/ pc' = [pc EXCEPT ![t] = "throw"] /\ UNCHANGED inputs
  BY DEF ReadInputs, Goto, Throw
<1>3. InFactorized /\ UNCHANGED <<nextSlice, slice, verdict, total, completed,
                                  seen, error, handedOut, answers, answered, folded>>
  BY DEF ReadInputs, answerVars
<1>4. CASE pc' = [pc EXCEPT ![t] = IF query.shape = "limit" THEN "atMost" ELSE "count"]
  BY <1>1, <1>3, <1>4, KeepsBucket DEF HoldLabels
<1>5. CASE pc' = [pc EXCEPT ![t] = "throw"] /\ UNCHANGED inputs
  BY <1>1, <1>3, <1>5, ThrowLosesBucket DEF countVars, bucketVars, answerVars
<1> QED BY <1>2, <1>4, <1>5

(* So does counting it. *)
LEMMA CountBucketInv ==
  ASSUME TypeOK, CountInv, NEW t \in Threads, CountBucket(t)
  PROVE  CountInv'
<1>1. Holds(t) /\ query.shape = "count"
  BY DEF CountBucket, Holds, HoldLabels, CountInv, ShapeInv
<1>2. \/ /\ pc' = [pc EXCEPT ![t] = "fold"]
         /\ \E v \in {"ok", "failed"} : verdict' = [verdict EXCEPT ![t] = v]
      \/ pc' = [pc EXCEPT ![t] = "throw"] /\ UNCHANGED verdict
  BY DEF CountBucket, Goto, Throw
<1>3. InFactorized /\ UNCHANGED <<nextSlice, slice, inputs, total, completed,
                                  seen, error, handedOut, answers, answered, folded>>
  BY DEF CountBucket, answerVars
<1>4. ASSUME pc' = [pc EXCEPT ![t] = "fold"],
             \E v \in {"ok", "failed"} : verdict' = [verdict EXCEPT ![t] = v]
      PROVE  CountInv'
  <2>1. verdict'[t] # "none" /\ \A u \in Threads \ {t} : verdict'[u] = verdict[u]
    BY <1>4 DEF TypeOK
  <2> QED BY <1>1, <1>3, <1>4, <2>1, KeepsBucket DEF HoldLabels
<1>5. CASE pc' = [pc EXCEPT ![t] = "throw"] /\ UNCHANGED verdict
  BY <1>1, <1>3, <1>5, ThrowLosesBucket DEF countVars, bucketVars, answerVars
<1> QED BY <1>2, <1>4, <1>5

(* A bucket is dropped only once the stock plan has been put in charge. *)
LEMMA DropBucketInv ==
  ASSUME TypeOK, CountInv, NEW t \in Threads, DropBucket(t)
  PROVE  CountInv'
<1> USE DEF Goto, stockVars, countVars, bucketVars, answerVars
<1>p. pc \in [Threads -> Labels] /\ inTry \in [Threads -> BOOLEAN]
  BY DEF TypeOK, PlanTypeOK
<1>1. /\ UNCHANGED <<query, Slices, Buckets, EachOnce, fellBack, queued, scanned,
                     phase, countVars>>
      /\ pc[t] = "fold" /\ pc' = [pc EXCEPT ![t] = "emit"]
      /\ fellBack
      /\ inTry' = [inTry EXCEPT ![t] = TRUE]
  BY DEF DropBucket, Countable, Slices, Buckets, EachOnce, ParallelSource
<1>2. /\ \A u \in Threads \ {t} : pc'[u] = pc[u] /\ inTry'[u] = inTry[u]
      /\ pc'[t] = "emit"
  BY <1>p, <1>1
<1>h. Holds(t) /\ ~Holds(t)' /\ \A u \in Threads \ {t} : Holds(u)' = Holds(u)
  BY <1>1, <1>2 DEF Holds, HoldLabels
<1>3. HandedOver'
  BY <1>1, <1>2 DEF CountInv, HandedOver
<1>4. OneTask'
  BY <1>p, <1>1, StepOneTask DEF Labels
<1>5. Partition'
  BY <1>1, <1>2, <1>h DEF CountInv, Partition
<1>6. ThrownIsSpoiled'
  <2>1. \A b \in Buckets : Lost(b) => Lost(b)'
    BY <1>1, <1>2, <1>h DEF Lost
  <2>2. Thrown
    BY <1>1 DEF Thrown
  <2> QED BY <1>1, <2>1, <2>2, SpoiledStays DEF CountInv, ThrownIsSpoiled
<1>7. ShapeInv'
  BY <1>1, <1>2 DEF CountInv, ShapeInv
<1>8. Publisher'
  BY <1>1, <1>2 DEF CountInv, Publisher, FoldedLast
<1>9. AnswerInv'
  BY <1>1, <1>h, HolderNoAnswer DEF AnswerInv
<1> QED BY <1>3, <1>4, <1>5, <1>6, <1>7, <1>8, <1>9 DEF CountInv

(* A total that overflows loses the bucket that was being added. *)
LEMMA FoldOverflowsInv ==
  ASSUME TypeOK, CountInv, NEW t \in Threads, FoldOverflows(t)
  PROVE  CountInv'
<1>1. Holds(t) /\ pc' = [pc EXCEPT ![t] = "throw"]
  BY DEF FoldOverflows, Holds, HoldLabels, Throw, Goto
<1> QED BY <1>1, ThrowLosesBucket DEF FoldOverflows

(* Folding moves a bucket from its holder to the total, once. *)
LEMMA FoldBucketInv ==
  ASSUME TypeOK, CountInv, NEW t \in Threads, FoldBucket(t)
  PROVE  CountInv'
<1> USE DEF Goto, InFactorized, stockVars, answerVars
<1>p. /\ pc \in [Threads -> Labels] /\ slice \in [Threads -> AllBuckets]
      /\ seen \in [Threads -> Nat] /\ total \in [AllBuckets -> Nat]
      /\ error \in BOOLEAN /\ verdict \in [Threads -> {"none", "ok", "failed"}]
  BY DEF TypeOK, PlanTypeOK
<1>1. /\ UNCHANGED <<query, Slices, Buckets, EachOnce, fellBack, queued, inTry,
                     scanned, phase, nextSlice, slice, verdict, handedOut,
                     answers, answered>>
      /\ pc[t] = "fold" /\ pc' = [pc EXCEPT ![t] = "publish"]
      /\ completed' = completed + 1
      /\ folded' = folded \cup {slice[t]}
      /\ seen' = [seen EXCEPT ![t] = completed + 1]
      /\ error' = (error \/ verdict[t] = "failed")
      /\ total' = IF verdict[t] = "ok" /\ ~error
                  THEN [total EXCEPT ![slice[t]] = @ + 1]
                  ELSE total
  BY DEF FoldBucket, Slices, Buckets, EachOnce, ParallelSource
<1>2. /\ \A u \in Threads \ {t} : pc'[u] = pc[u] /\ seen'[u] = seen[u]
      /\ pc'[t] = "publish" /\ seen'[t] = completed + 1
  BY <1>p, <1>1
<1>h. Holds(t) /\ ~Holds(t)' /\ \A u \in Threads \ {t} : Holds(u)' = Holds(u)
  BY <1>1, <1>2 DEF Holds, HoldLabels
<1>b. /\ slice[t] \in Buckets /\ slice[t] < nextSlice /\ slice[t] \notin folded
      /\ \A u \in Threads \ {t} : Holds(u) => slice[u] # slice[t]
  BY <1>h DEF CountInv, Partition
<1>3. HandedOver'
  BY <1>1, <1>2 DEF CountInv, HandedOver, StockLabels
<1>4. OneTask'
  BY <1>p, <1>1, StepOneTask DEF Labels
<1>5. Partition'
  <2>1. completed' = Cardinality(folded')
    BY <1>1, <1>b, FoldedBound, FS_AddElement DEF CountInv, Partition
  <2>2. ~error' => \A b \in AllBuckets : total'[b] = IF b \in folded' THEN 1 ELSE 0
    <3>1. verdict[t] # "none"
      BY <1>1 DEF CountInv, ShapeInv
    <3>2. ~error' => ~error /\ verdict[t] = "ok"
      BY <1>p, <1>1, <3>1
    <3> QED BY <1>p, <1>1, <1>b, <3>2 DEF CountInv, Partition
  <2>3. \A u \in Threads : Holds(u)' => /\ slice'[u] \in Buckets'
                                       /\ slice'[u] < nextSlice'
                                       /\ slice'[u] \notin folded'
    BY <1>1, <1>h, <1>b DEF CountInv, Partition
  <2>4. \A u, v \in Threads : Holds(u)' /\ Holds(v)' /\ slice'[u] = slice'[v] => u = v
    BY <1>1, <1>h DEF CountInv, Partition
  <2>5. \A b \in folded' : b \in Buckets' /\ b < nextSlice'
    BY <1>1, <1>b DEF CountInv, Partition
  <2> QED BY <2>1, <2>2, <2>3, <2>4, <2>5 DEF Partition
<1>c. completed \in Nat /\ completed + 1 <= Slices
  <2>1. folded' \in SUBSET Buckets /\ completed' = Cardinality(folded')
    BY <1>1, <1>5 DEF Partition
  <2>2. completed' <= Slices
    BY <2>1, BucketSubset
  <2> QED BY <1>1, <2>2, FoldedBound DEF CountInv
<1>6. ThrownIsSpoiled'
  <2>1. \A b \in Buckets : Lost(b) => Lost(b)'
    BY <1>1, <1>h DEF Lost
  <2>2. Thrown' => Thrown
    BY <1>1, <1>2 DEF Thrown
  <2> QED BY <1>1, <2>1, <2>2, SpoiledStays DEF CountInv, ThrownIsSpoiled
<1>7. ShapeInv'
  BY <1>1, <1>2 DEF CountInv, ShapeInv
<1>8. Publisher'
  <2>1. answers' = 0
    BY <1>1, <1>h, HolderNoAnswer
  <2>2. \A u \in Threads : pc'[u] = "publish" => seen'[u] <= completed'
    BY <1>p, <1>1, <1>2, <1>c DEF CountInv, Publisher
  <2>3. \A u \in Threads \ {t} : ~(pc'[u] = "publish" /\ FoldedLast(u)')
    BY <1>p, <1>1, <1>2, <1>c, SlicesType DEF CountInv, Publisher, FoldedLast
  <2> QED BY <2>1, <2>2, <2>3 DEF Publisher
<1>9. AnswerInv'
  BY <1>1, <1>h, HolderNoAnswer DEF AnswerInv
<1> QED BY <1>3, <1>4, <1>5, <1>6, <1>7, <1>8, <1>9 DEF CountInv

(* When a thread has folded the last bucket, nothing is lost: unless some  *)
(* bucket could not be counted, the total is whole and nobody has thrown.  *)
LEMMA LastFolded ==
  ASSUME TypeOK, CountInv, NEW t \in Threads, pc[t] = "publish", FoldedLast(t)
  PROVE  /\ completed = Slices /\ answers = 0 /\ ~query.debugFail
         /\ ~error => total = EachOnce /\ ~Thrown
<1>p. seen \in [Threads -> Nat] /\ total \in [AllBuckets -> Nat]
  BY DEF TypeOK
<1>1. completed = Slices /\ folded = Buckets
  BY <1>p, FoldedBound, SlicesType DEF CountInv, Publisher, FoldedLast
<1>2. answers = 0
  BY DEF CountInv, Publisher
<1>3. 0 \in folded
  BY <1>1, SlicesType DEF Buckets
<1>4. ~query.debugFail
  BY <1>3 DEF CountInv, Partition, ShapeInv
<1>5. \A b \in Buckets : ~Lost(b)
  BY <1>1 DEF Lost
<1>6. ASSUME ~error PROVE total = EachOnce
  <2>1. \A b \in AllBuckets : total[b] = EachOnce[b]
    BY <1>1, <1>6 DEF CountInv, Partition, EachOnce
  <2> QED BY <1>p, <2>1 DEF EachOnce
<1>7. ASSUME ~error PROVE ~Thrown
  <2>1. query.shape = "count"
    BY DEF CountInv, ShapeInv
  <2> QED BY <1>4, <1>5, <1>7, <2>1 DEF CountInv, ThrownIsSpoiled, Spoiled
<1> QED BY <1>1, <1>2, <1>4, <1>6, <1>7

(* Whoever folded the last bucket answers for a query nobody has spoiled. *)
LEMMA PublishInv ==
  ASSUME TypeOK, CountInv, NEW t \in Threads, Publish(t)
  PROVE  CountInv'
<1> USE DEF Goto, Throw, EmitRow, InFactorized, stockVars, bucketVars, answerVars
<1>p. /\ pc \in [Threads -> Labels] /\ answers \in Nat /\ seen \in [Threads -> Nat]
      /\ total \in [AllBuckets -> Nat]
  BY DEF TypeOK, PlanTypeOK
<1>1. /\ UNCHANGED <<query, Slices, Buckets, EachOnce, fellBack, queued, inTry,
                     scanned, phase, bucketVars, folded>>
      /\ pc[t] = "publish"
  BY DEF Publish, Slices, Buckets, EachOnce, ParallelSource
<1>2. PICK label \in {"enter", "throw"} : pc' = [pc EXCEPT ![t] = label]
  BY DEF Publish
<1>3. pc'[t] = label /\ \A u \in Threads \ {t} : pc'[u] = pc[u]
  BY <1>p, <1>2
<1>h. \A u \in Threads : Holds(u)' = Holds(u)
  BY <1>1, <1>3 DEF Holds, HoldLabels
<1>c. query.shape = "count"
  BY <1>1 DEF CountInv, ShapeInv
<1>l. FoldedLast(t) => /\ completed = Slices /\ answers = 0 /\ ~query.debugFail
                       /\ ~error => total = EachOnce /\ ~Thrown
  BY <1>1, LastFolded
<1>o. \/ answers' = answers /\ answered' = answered /\ pc'[t] = "enter"
      \/ FoldedLast(t) /\ error /\ answers' = answers /\ pc'[t] = "throw"
      \/ FoldedLast(t) /\ ~error /\ answers' = answers + 1 /\ answered' = total
         /\ pc'[t] = "enter"
  BY <1>p DEF Publish
<1>4. HandedOver'
  BY <1>1, <1>3 DEF CountInv, HandedOver, StockLabels
<1>5. OneTask'
  BY <1>p, <1>1, <1>2, StepOneTask DEF Labels
<1>6. Partition'
  BY <1>1, <1>h DEF CountInv, Partition
<1>7. ThrownIsSpoiled'
  <2>1. \A b \in Buckets : Lost(b) => Lost(b)'
    BY <1>1, <1>h DEF Lost
  <2>2. Spoiled => Spoiled'
    BY <1>1, <2>1, SpoiledStays
  <2>3. Thrown' => Thrown \/ error
    BY <1>1, <1>3, <1>o DEF Thrown
  <2> QED BY <1>1, <2>2, <2>3 DEF CountInv, ThrownIsSpoiled, Spoiled
<1>8. ShapeInv'
  BY <1>1, <1>3, <1>c, <1>l, <1>o DEF CountInv, ShapeInv
<1>9. Publisher'
  <2>1. \A u \in Threads \ {t} :
          pc[u] = "publish" /\ FoldedLast(u) /\ FoldedLast(t) => FALSE
    BY <1>1 DEF CountInv, Publisher
  <2>2. \A u \in Threads : FoldedLast(u)' = FoldedLast(u)
    BY <1>1 DEF FoldedLast
  <2> QED BY <1>1, <1>3, <1>o, <2>1, <2>2 DEF CountInv, Publisher
<1>10. AnswerInv'
  <2>1. CASE answers' = answers /\ answered' = answered /\ pc'[t] = "enter"
    <3>1. Thrown' => Thrown
      BY <1>1, <1>3, <2>1 DEF Thrown
    <3> QED BY <1>1, <1>h, <2>1, <3>1 DEF CountInv, AnswerInv
  <2>2. CASE FoldedLast(t) /\ error /\ answers' = answers /\ pc'[t] = "throw"
    BY <1>p, <1>l, <2>2 DEF AnswerInv
  <2>3. CASE FoldedLast(t) /\ ~error /\ answers' = answers + 1 /\ answered' = total
             /\ pc'[t] = "enter"
    <3>1. ~Thrown'
      BY <1>1, <1>3, <1>l, <2>3 DEF Thrown
    <3> QED BY <1>1, <1>c, <1>l, <2>3, <3>1 DEF AnswerInv
  <2> QED BY <1>o, <2>1, <2>2, <2>3
<1> QED BY <1>4, <1>5, <1>6, <1>7, <1>8, <1>9, <1>10 DEF CountInv

(* A limited count still being made means that nobody has thrown. *)
LEMMA LimitUnspoiled ==
  ASSUME TypeOK, CountInv, NEW t \in Threads, pc[t] = "atMost"
  PROVE  ~Thrown
<1>1. Holds(t)
  BY DEF Holds, HoldLabels
<1>2. query.shape = "limit" /\ Slices = 1 /\ ~query.debugFail
  BY <1>1, HolderNoAnswer DEF CountInv, ShapeInv, Slices
<1>3. folded = {} /\ ~error
  BY <1>2 DEF CountInv, ShapeInv
<1>4. slice[t] \in Buckets /\ Buckets = {0}
  BY <1>1, <1>2 DEF CountInv, Partition, Buckets
<1>5. \A b \in Buckets : ~Lost(b)
  BY <1>1, <1>4 DEF Lost
<1> QED BY <1>2, <1>3, <1>5 DEF CountInv, ThrownIsSpoiled, Spoiled

(* A limited count is the only bucket's, and its holder is alone. *)
LEMMA CountAtMostInv ==
  ASSUME TypeOK, CountInv, NEW t \in Threads, CountAtMost(t)
  PROVE  CountInv'
<1> USE DEF Goto, Throw, EmitRow, InFactorized, stockVars, countVars, bucketVars,
            answerVars
<1>p. pc \in [Threads -> Labels] /\ nextSlice \in Nat
  BY DEF TypeOK, PlanTypeOK
<1>1. Holds(t) /\ pc[t] = "atMost"
  BY DEF CountAtMost, Holds, HoldLabels
<1>2. query.shape = "limit" /\ Slices = 1 /\ answers = 0 /\ ~query.debugFail
  BY <1>1, HolderNoAnswer DEF CountInv, ShapeInv, Slices
<1>3. CASE Throw(t, "recoverable") /\ UNCHANGED answerVars
  BY <1>1, <1>3, ThrowLosesBucket DEF CountAtMost
<1>4. CASE EmitRow(t, EachOnce)
  <2>1. /\ UNCHANGED <<query, Slices, Buckets, EachOnce, fellBack, queued, inTry,
                       scanned, phase, bucketVars, folded>>
        /\ pc' = [pc EXCEPT ![t] = "enter"]
        /\ answers' = 1 /\ answered' = EachOnce
    BY <1>2, <1>4 DEF CountAtMost, Slices, Buckets, EachOnce, ParallelSource
  <2>2. pc'[t] = "enter" /\ \A u \in Threads \ {t} : pc'[u] = pc[u]
    BY <1>p, <2>1
  <2>3. \A u \in Threads \ {t} : pc[u] = "idle"
    BY <1>1, <1>2 DEF CountInv, OneTask
  <2>4. \A u \in Threads : ~Holds(u)'
    BY <2>2, <2>3 DEF Holds, HoldLabels
  <2>5. ~Thrown
    BY <1>1, LimitUnspoiled
  <2>6. ~Thrown'
    BY <2>1, <2>2, <2>5 DEF Thrown
  <2>7. nextSlice > 0
    BY <1>p, <1>1 DEF CountInv, Partition, Buckets, TypeOK
  <2>a. HandedOver'
    BY <2>1, <2>2 DEF CountInv, HandedOver, StockLabels
  <2>b. OneTask'
    BY <1>1, <2>1, StepOneTask DEF Labels
  <2>c. Partition'
    BY <2>1, <2>4 DEF CountInv, Partition
  <2>d. ThrownIsSpoiled'
    BY <2>6 DEF ThrownIsSpoiled
  <2>e. ShapeInv'
    BY <1>2, <2>1, <2>2 DEF CountInv, ShapeInv
  <2>f. Publisher'
    BY <2>2, <2>3 DEF Publisher
  <2>g. AnswerInv'
    BY <1>2, <2>1, <2>4, <2>6, <2>7 DEF AnswerInv
  <2> QED BY <2>a, <2>b, <2>c, <2>d, <2>e, <2>f, <2>g DEF CountInv
<1> QED BY <1>3, <1>4 DEF CountAtMost

(* The sum of a product is handed out once, by the only task there is. *)
LEMMA SumProductInv ==
  ASSUME TypeOK, CountInv, NEW t \in Threads, SumProduct(t)
  PROVE  CountInv'
<1> USE DEF Goto, Throw, EmitRow, InFactorized, stockVars, answerVars
<1>p. pc \in [Threads -> Labels] /\ answers \in Nat /\ handedOut \in {0, 1}
  BY DEF TypeOK, PlanTypeOK
<1>1. /\ UNCHANGED <<query, Slices, Buckets, EachOnce, fellBack, queued, inTry,
                     scanned, phase, nextSlice, slice, verdict, total, completed,
                     seen, error, folded>>
      /\ pc[t] = "factorized" /\ ~query.debugFail /\ query.shape = "product"
      /\ Slices = 1
  BY DEF SumProduct, Slices, Buckets, EachOnce, ParallelSource
<1>2. PICK label \in {"idle", "enter", "throw"} : pc' = [pc EXCEPT ![t] = label]
  BY DEF SumProduct
<1>3. pc'[t] = label /\ \A u \in Threads \ {t} : pc'[u] = pc[u]
  BY <1>p, <1>2
<1>4. ~fellBack /\ \A u \in Threads \ {t} : pc[u] = "idle"
  BY <1>1 DEF CountInv, OneTask
<1>5. answers = handedOut
  BY <1>1 DEF CountInv, ShapeInv
<1>o. \/ /\ handedOut = 1 /\ UNCHANGED <<handedOut, answers, answered>>
         /\ pc'[t] = "idle"
      \/ /\ handedOut = 0 /\ handedOut' = 1 /\ answers' = 1 /\ answered' = EachOnce
         /\ pc'[t] = "enter"
      \/ handedOut = 0 /\ UNCHANGED <<handedOut, answers, answered>>
  BY <1>p, <1>5 DEF SumProduct
<1>h. \A u \in Threads : ~Holds(u)'  /\ ~Holds(u)
  BY <1>1, <1>3, <1>4 DEF Holds, HoldLabels
<1>a. HandedOver'
  BY <1>1, <1>3 DEF CountInv, HandedOver, StockLabels
<1>b. OneTask'
  BY <1>p, <1>1, <1>2, StepOneTask DEF Labels
<1>c. Partition'
  BY <1>1, <1>h DEF CountInv, Partition
<1>d. ThrownIsSpoiled'
  BY <1>1 DEF ThrownIsSpoiled
<1>e. ShapeInv'
  BY <1>1, <1>3, <1>5, <1>o DEF CountInv, ShapeInv
<1>f. Publisher'
  BY <1>3, <1>4 DEF Publisher
<1>g. AnswerInv'
  <2>1. answers' > 0 => ~Thrown'
    BY <1>1, <1>3, <1>4, <1>5, <1>o DEF Thrown
  <2>2. answers' > 0 => answered' = EachOnce'
    BY <1>1, <1>5, <1>o DEF CountInv, AnswerInv
  <2>3. answers' = handedOut' /\ answers' <= 1
    BY <1>p, <1>5, <1>o
  <2>4. answers' > 0 => handedOut' = 1
    BY <1>5, <1>o
  <2> QED BY <1>1, <2>1, <2>2, <2>3, <2>4 DEF AnswerInv
<1> QED BY <1>a, <1>b, <1>c, <1>d, <1>e, <1>f, <1>g DEF CountInv

-----------------------------------------------------------------------------
(* The theorems. *)

(* Every step preserves the inductive invariant. *)
LEMMA StepIInv == IInv /\ [Next]_vars => IInv'
<1> SUFFICES ASSUME IInv, [Next]_vars PROVE IInv'
  OBVIOUS
<1>1. TypeOK /\ PlanInv /\ CountInv
  BY DEF IInv
<1>2. TypeOK' /\ PlanInv'
  BY <1>1, StepPlanInv
<1>3. ASSUME NEW t \in Threads, PlanStep(t), UNCHANGED countVars
      PROVE  CountInv'
  BY <1>1, <1>3, PlanStepCountInv
<1>4. ASSUME NEW t \in Threads, CountStep(t)
      PROVE  CountInv'
  BY <1>1, <1>4, DebugFailInv, ClaimBucketInv, ReadInputsInv, CountBucketInv,
     DropBucketInv, FoldOverflowsInv, FoldBucketInv, PublishInv,
     CountAtMostInv, SumProductInv
     DEF CountStep
<1>5. CASE UNCHANGED vars
  <2>1. UNCHANGED <<pc, slice, nextSlice, folded, query, error, fellBack>>
    BY <1>5 DEF vars, planVars, threadVars, countVars, bucketVars
  <2>2. \A b \in Buckets : Lost(b)' = Lost(b)
    BY <2>1 DEF Lost, Buckets, Slices, ParallelSource, Holds
  <2>3. ThrownIsSpoiled'
    BY <1>1, <2>1, <2>2, SpoiledStays DEF CountInv, ThrownIsSpoiled, Thrown
  <2>4. HandedOver' /\ Partition'
    BY <1>1, <1>5 DEF vars, planVars, threadVars, stockVars, countVars,
       bucketVars, CountInv, HandedOver, Partition, Holds, Buckets, Slices,
       ParallelSource
  <2>5. ShapeInv' /\ OneTask'
    BY <1>1, <1>5 DEF vars, planVars, threadVars, countVars, bucketVars,
       answerVars, CountInv, ShapeInv, OneTask, Slices, ParallelSource
  <2>6. Publisher' /\ AnswerInv'
    BY <1>1, <1>5 DEF vars, planVars, threadVars, countVars, bucketVars,
       answerVars, CountInv, Publisher, FoldedLast, AnswerInv, Thrown, Holds,
       EachOnce, Buckets, Slices, ParallelSource
  <2> QED BY <1>2, <2>3, <2>4, <2>5, <2>6 DEF CountInv, IInv
<1> QED BY <1>2, <1>3, <1>4, <1>5 DEF IInv, Next, Step, Over

(* The inductive invariant holds in every state of every execution. *)
THEOREM Invariant == Spec => []IInv
<1>1. Init => IInv
  BY InitTypeOK, InitCountInv DEF IInv
<1> QED BY <1>1, StepIInv, PTL DEF Spec

(* A query is never answered twice by the factorized path, nor by it and   *)
(* by the stock plan: once a row is out nobody can fall back any more,     *)
(* for any number of threads and buckets.                                  *)
THEOREM NeverTwoAnswers == Spec => []OneAnswer
<1>1. IInv => OneAnswer
  <2> SUFFICES ASSUME IInv PROVE OneAnswer
    OBVIOUS
  <2>1. answers <= 1
    BY DEF IInv, CountInv, AnswerInv
  <2>2. ASSUME answers = 1 PROVE ~fellBack
    BY <2>2 DEF IInv, CountInv, AnswerInv, Thrown
  <2>3. ~fellBack => scanned = 0
    BY DEF IInv, CountInv, HandedOver, TypeOK, PlanTypeOK
  <2> QED BY <2>1, <2>2, <2>3 DEF OneAnswer
<1> QED BY <1>1, Invariant, PTL

(* The row that is emitted is the sum of every bucket, each added once,    *)
(* however the threads' claims, folds and failures interleave.             *)
THEOREM AnswerIsExact == Spec => []TotalIsExact
<1>1. IInv => TotalIsExact
  BY DEF IInv, CountInv, AnswerInv, TotalIsExact
<1> QED BY <1>1, Invariant, PTL

(* Once the stock plan is in charge, the factorized total is final: no     *)
(* thread that was still counting adds to it or emits it.                  *)
THEOREM FallbackStaysFinal == Spec => FallbackIsFinal
<1> DEFINE Final == fellBack => UNCHANGED <<fellBack, total, completed, error, answers>>
<1>1. IInv /\ [Next]_vars => [Final]_vars
  <2> SUFFICES ASSUME IInv, [Next]_vars, fellBack
               PROVE  UNCHANGED <<fellBack, total, completed, error, answers>>
    BY DEF vars
  <2> USE DEF countVars, bucketVars, answerVars, InFactorized, Goto, Throw
  <2>1. TypeOK /\ CountInv /\ Thrown
    BY DEF IInv, Thrown
  <2>2. ASSUME NEW t \in Threads, PlanStep(t), UNCHANGED countVars
        PROVE  UNCHANGED <<fellBack, total, completed, error, answers>>
    <3>1. fellBack' = fellBack
      BY <2>2 DEF PlanStep, StartSourceTask, StopOnError, TakeStockTask,
         FinishStockTask, Reenter, Enter, Catch, EmitFallback, ReadyFallback,
         DriverThrows, DriverSeesError, FinishDriving, UnwindDriver,
         HelperReturns, ScanFallback
    <3> QED BY <2>2, <3>1
  <2>3. ASSUME NEW t \in Threads, CountStep(t)
        PROVE  UNCHANGED <<fellBack, total, completed, error, answers>>
    <3>1. CASE Publish(t)
      BY <2>1, <3>1, LastFolded DEF Publish
    <3>2. CASE CountAtMost(t)
      BY <2>1, <3>2, LimitUnspoiled DEF CountAtMost
    <3>3. CASE SumProduct(t)
      <4>1. FALSE
        BY <2>1, <3>3 DEF SumProduct, CountInv, OneTask, Slices
      <4> QED BY <4>1
    <3>4. CASE FoldBucket(t)
      BY <3>4 DEF FoldBucket, Countable
    <3>5. CASE DebugFail(t) \/ ClaimBucket(t) \/ ReadInputs(t) \/ CountBucket(t)
               \/ DropBucket(t) \/ FoldOverflows(t)
      BY <3>5 DEF DebugFail, ClaimBucket, ReadInputs, CountBucket, DropBucket,
         FoldOverflows
    <3> QED BY <2>3, <3>1, <3>2, <3>3, <3>4, <3>5 DEF CountStep
  <2>4. CASE UNCHANGED vars
    BY <2>4 DEF vars, planVars
  <2> QED BY <2>2, <2>3, <2>4 DEF Next, Step, Over
<1> QED BY <1>1, Invariant, PTL DEF Spec, FallbackIsFinal

-----------------------------------------------------------------------------
(* No step of Factorized() touches the stock plan's tasks, and none fails  *)
(* the query.                                                              *)
LEMMA CountStepStock ==
  ASSUME PlanInv, StockInv, NEW t \in Threads, CountStep(t)
  PROVE  StockInv' /\ SeriousOnly
<1>1. /\ UNCHANGED <<executorError, working, phase, stockQueued, collected>>
      /\ \E label \in Labels \ {"ready", "unwind"} : pc' = [pc EXCEPT ![t] = label]
  BY DEF CountStep, DebugFail, ClaimBucket, ReadInputs, CountBucket, DropBucket, FoldOverflows,
         FoldBucket, Publish, CountAtMost, SumProduct, EmitRow, InFactorized, Throw, Goto,
         stockVars, Labels
<1>2. \A u \in Threads : pc'[u] \in {"ready", "unwind"} => pc'[u] = pc[u]
  BY <1>1 DEF PlanInv, PlanTypeOK
<1>3. StockInv' BY <1>1, <1>2, StockKept
<1> QED BY <1>1, <1>3 DEF SeriousOnly

(* With the stock plan to fall back to, a count fails only by an error     *)
(* that is rethrown for being FATAL or an INTERRUPT, or by one met while   *)
(* the stock plan runs: what the factorized path meets never reaches the   *)
(* user.                                                                   *)
THEOREM SeriousErrorsOnly == Spec => OnlySeriousErrorsSurface
<1>1. Init => TypeOK /\ PlanInv /\ StockInv
  BY InitTypeOK, StockInit DEF Init
<1>2. TypeOK /\ PlanInv /\ StockInv /\ [Next]_vars
        => (TypeOK /\ PlanInv /\ StockInv)' /\ [SeriousOnly]_planVars
  <2> SUFFICES ASSUME TypeOK, PlanInv, StockInv, [Next]_vars
               PROVE  (TypeOK /\ PlanInv /\ StockInv)' /\ [SeriousOnly]_planVars
    OBVIOUS
  <2>1. TypeOK' /\ PlanInv' BY StepPlanInv
  <2>2. ASSUME NEW t \in Threads, PlanStep(t)
        PROVE  StockInv' /\ SeriousOnly
    BY <2>2, PlanStepStock
  <2>3. ASSUME NEW t \in Threads, CountStep(t)
        PROVE  StockInv' /\ SeriousOnly
    BY <2>3, CountStepStock
  <2>4. CASE UNCHANGED vars
    <3>1. UNCHANGED planVars BY <2>4 DEF vars
    <3>2. StockInv'
      BY <3>1, StockKept DEF planVars, threadVars, stockVars
    <3> QED BY <2>1, <3>1, <3>2
  <2> QED BY <2>1, <2>2, <2>3, <2>4 DEF Next, Step, Over
<1>3. [SeriousOnly]_planVars => [query.fallback /\ ~executorError /\ executorError'
        => \/ phase = "RUNNING"
           \/ \E t \in Threads : pc[t] = "throw" /\ thrown[t] = "fatal"]_planVars
  BY DEF SeriousOnly
<1> QED BY <1>1, <1>2, <1>3, PTL DEF Spec, OnlySeriousErrorsSurface

-----------------------------------------------------------------------------
(* The count implements QueryAnswer. A query that has neither failed nor   *)
(* fallen back has a task left, or all its buckets claimed; no bucket is   *)
(* lost without an exception on its way; and once all of them are folded   *)
(* somebody is about to answer. With StockAnswers this leaves a query that *)
(* ends without an error no way but a whole answer.                        *)

FactorizedAnswers ==
  ~fellBack /\ ~executorError =>
    /\ \/ queued > 0
       \/ \E t \in Threads : pc[t] # "idle"
       \/ IF query.shape = "product" THEN answers > 0 ELSE nextSlice >= Slices
    /\ \A b \in Buckets : Lost(b) => answers > 0 \/ \E t \in Threads : pc[t] = "throw"
    /\ completed = Slices =>
         \/ answers > 0
         \/ \E t \in Threads : pc[t] = "throw" \/ (pc[t] = "publish" /\ FoldedLast(t))

(* A query starts with all its tasks queued and nothing folded. *)
LEMMA FactorizedAnswersInit == Init => FactorizedAnswers
<1> SUFFICES ASSUME Init PROVE FactorizedAnswers
  OBVIOUS
<1>1. queued > 0 /\ completed # Slices /\ nextSlice = 0
  BY SlicesType DEF Init, PlanInit
<1>2. \A b \in Buckets : ~Lost(b)
  BY <1>1, SlicesType DEF Lost, Buckets
<1> QED BY <1>1, <1>2 DEF FactorizedAnswers

(* The fallback's own steps change none of it before the query is handed   *)
(* over.                                                                   *)
LEMMA PlanStepFactorizedAnswers ==
  ASSUME TypeOK, CountInv, FactorizedAnswers,
         NEW t \in Threads, PlanStep(t), UNCHANGED countVars
  PROVE  FactorizedAnswers'
<1> USE DEF Goto, countVars, bucketVars, answerVars
<1>p. pc \in [Threads -> Labels] /\ queued \in Nat
  BY DEF TypeOK, PlanTypeOK
<1>s. /\ UNCHANGED <<query, Slices, Buckets>> /\ \A u \in Threads : Holds(u)' = Holds(u)
  BY PlanStepQuiet DEF Slices, Buckets, ParallelSource
<1>l. \A b \in Buckets : Lost(b)' => Lost(b)
  BY <1>s DEF Lost
<1>e. ~executorError' => ~executorError BY ErrorStays DEF TypeOK
<1> SUFFICES ASSUME ~fellBack', ~executorError' PROVE FactorizedAnswers'
  BY DEF FactorizedAnswers
<1>1. CASE StartSourceTask(t) \/ Enter(t)
  <2>1. UNCHANGED fellBack /\ pc[t] \in {"idle", "enter"}
    BY <1>1 DEF StartSourceTask, Enter
  <2>2. PICK label \in {"enter", "factorized"} : pc' = [pc EXCEPT ![t] = label]
    BY <2>1, <1>1 DEF StartSourceTask, Enter, Entry
  <2>3. pc'[t] # "idle" /\ \A u \in Threads \ {t} : pc'[u] = pc[u]
    BY <1>p, <2>2
  <2> QED BY <1>s, <1>l, <1>e, <2>1, <2>3 DEF FactorizedAnswers, FoldedLast
<1>2. CASE TakeStockTask(t) \/ FinishStockTask(t)
  <2>1. UNCHANGED <<pc, queued, fellBack>>
    BY <1>2 DEF TakeStockTask, FinishStockTask
  <2> QED BY <1>s, <1>l, <1>e, <2>1 DEF FactorizedAnswers, FoldedLast
<1>3. CASE StopOnError(t)
  BY <1>e, <1>3 DEF StopOnError
<1>4. CASE Catch(t)
  <2>1. executorError' = TRUE \/ fellBack' = TRUE
    BY <1>4 DEF Catch
  <2> QED BY <2>1
<1>5. CASE \/ Reenter(t) \/ EmitFallback(t) \/ ReadyFallback(t) \/ DriverThrows(t)
           \/ DriverSeesError(t) \/ FinishDriving(t) \/ UnwindDriver(t)
           \/ HelperReturns(t) \/ ScanFallback(t)
  <2>1. UNCHANGED fellBack /\ pc[t] \in StockLabels
    BY <1>5 DEF Reenter, EmitFallback, ReadyFallback, DriverThrows, DriverSeesError,
       FinishDriving, UnwindDriver, HelperReturns, ScanFallback, StockLabels
  <2> QED BY <2>1 DEF CountInv, HandedOver
<1> QED BY <1>1, <1>2, <1>3, <1>4, <1>5 DEF PlanStep

(* A step of the operator's own code by a thread that stays in it, and     *)
(* loses no bucket but by an exception.                                    *)
LEMMA StaysToAnswer ==
  ASSUME FactorizedAnswers, NEW t \in Threads, pc[t] # "throw",
         UNCHANGED <<query, fellBack, executorError, queued, answers, completed>>,
         pc'[t] # "idle", \A u \in Threads \ {t} : pc'[u] = pc[u] /\ seen'[u] = seen[u],
         ~(pc[t] = "publish" /\ FoldedLast(t)),
         pc'[t] = "throw" \/ \A b \in Buckets : Lost(b)' => Lost(b)
  PROVE  FactorizedAnswers'
<1>1. UNCHANGED <<Slices, Buckets>>
  BY DEF Slices, Buckets, ParallelSource
<1>2. CASE pc'[t] = "throw"
  BY <1>2 DEF FactorizedAnswers
<1>3. CASE \A b \in Buckets : Lost(b)' => Lost(b)
  <2>1. ~fellBack /\ ~executorError =>
           /\ \A b \in Buckets : Lost(b)' => answers > 0 \/ \E u \in Threads : pc'[u] = "throw"
           /\ completed = Slices =>
                \/ answers > 0
                \/ \E u \in Threads \ {t} : pc'[u] = "throw" \/ (pc'[u] = "publish" /\ FoldedLast(u)')
    BY <1>1, <1>3 DEF FactorizedAnswers, FoldedLast
  <2> QED BY <1>1, <2>1 DEF FactorizedAnswers
<1> QED BY <1>2, <1>3

(* The steps of the count keep somebody about to answer. *)
LEMMA CountStepFactorizedAnswers ==
  ASSUME TypeOK, CountInv, FactorizedAnswers, NEW t \in Threads, CountStep(t)
  PROVE  FactorizedAnswers'
<1> USE DEF Goto, Throw, EmitRow, InFactorized, countVars, bucketVars, answerVars
<1>p. /\ pc \in [Threads -> Labels] /\ nextSlice \in Nat /\ answers \in Nat
      /\ slice \in [Threads -> AllBuckets] /\ seen \in [Threads -> Nat] /\ completed \in Nat
      /\ Slices \in Nat
  BY SlicesType DEF TypeOK, PlanTypeOK
<1>s. UNCHANGED <<query, Slices, Buckets>>
  BY DEF CountStep, DebugFail, ClaimBucket, ReadInputs, CountBucket, DropBucket, FoldOverflows,
     FoldBucket, Publish, CountAtMost, SumProduct, Slices, Buckets, ParallelSource
<1>1. CASE DebugFail(t) \/ FoldOverflows(t)
  <2>1. /\ UNCHANGED <<fellBack, executorError, queued, answers, completed, seen>>
        /\ pc[t] \in {"factorized", "fold"} /\ pc' = [pc EXCEPT ![t] = "throw"]
    BY <1>1 DEF DebugFail, FoldOverflows
  <2>2. pc'[t] = "throw" /\ \A u \in Threads \ {t} : pc'[u] = pc[u]
    BY <1>p, <2>1
  <2> QED BY <1>s, <2>1, <2>2, StaysToAnswer
<1>2. CASE ClaimBucket(t)
  <2>1. /\ UNCHANGED <<fellBack, executorError, queued, answers, completed, seen, folded>>
        /\ pc[t] = "factorized" /\ nextSlice' = nextSlice + 1 /\ query.shape # "product"
        /\ IF nextSlice < Slices
           THEN slice' = [slice EXCEPT ![t] = nextSlice] /\ pc' = [pc EXCEPT ![t] = "inputs"]
           ELSE UNCHANGED slice /\ pc' = [pc EXCEPT ![t] = "idle"]
    BY <1>2 DEF ClaimBucket, Claimable
  <2>2. ~Holds(t) /\ \A u \in Threads \ {t} : pc'[u] = pc[u] /\ slice'[u] = slice[u]
    BY <1>p, <2>1 DEF Holds, HoldLabels
  <2>3. ASSUME nextSlice < Slices PROVE FactorizedAnswers'
    <3>1. pc'[t] = "inputs" /\ slice'[t] = nextSlice
      <4>1. nextSlice \in AllBuckets BY <1>p, <2>3, SlicesType, SizesAssumption DEF AllBuckets
      <4> QED BY <1>p, <2>1, <2>3, <4>1
    <3>2. \A b \in Buckets : Lost(b)' => Lost(b)
      <4> SUFFICES ASSUME NEW b \in Buckets, Lost(b)' PROVE Lost(b)
        OBVIOUS
      <4>1. b \in Nat /\ b # nextSlice
        BY <3>1 DEF Lost, Holds, HoldLabels, Buckets
      <4>2. b < nextSlice
        BY <1>p, <2>1, <4>1 DEF Lost
      <4> QED BY <2>1, <2>2, <4>2 DEF Lost, Holds
    <3> QED BY <1>s, <2>1, <2>2, <3>1, <3>2, StaysToAnswer
  <2>4. ASSUME ~(nextSlice < Slices) PROVE FactorizedAnswers'
    <3>1. nextSlice' >= Slices' /\ UNCHANGED slice /\ pc'[t] = "idle"
      BY <1>p, <1>s, <2>1, <2>4
    <3>2. \A b \in Buckets : Lost(b)' => Lost(b)
      <4> SUFFICES ASSUME NEW b \in Buckets, Lost(b)' PROVE Lost(b)
        OBVIOUS
      <4>1. b < nextSlice
        BY <1>p, <2>4 DEF Buckets
      <4> QED BY <2>1, <2>2, <3>1, <4>1 DEF Lost, Holds
    <3> QED BY <1>s, <2>1, <2>2, <3>1, <3>2 DEF FactorizedAnswers, FoldedLast
  <2> QED BY <2>3, <2>4
<1>3. CASE ReadInputs(t) \/ CountBucket(t)
  <2>1. /\ UNCHANGED <<fellBack, executorError, queued, answers, completed, seen, folded,
                       slice, nextSlice>>
        /\ pc[t] \in {"inputs", "count"}
        /\ \E label \in {"atMost", "count", "fold", "throw"} : pc' = [pc EXCEPT ![t] = label]
    BY <1>3 DEF ReadInputs, CountBucket
  <2>2. /\ pc'[t] \in {"atMost", "count", "fold", "throw"}
        /\ \A u \in Threads \ {t} : pc'[u] = pc[u]
    BY <1>p, <2>1
  <2>3. pc'[t] = "throw" \/ \A u \in Threads : Holds(u)' = Holds(u)
    BY <2>1, <2>2 DEF Holds, HoldLabels
  <2>4. pc'[t] = "throw" \/ \A b \in Buckets : Lost(b)' => Lost(b)
    BY <1>s, <2>1, <2>3 DEF Lost
  <2> QED BY <1>s, <2>1, <2>2, <2>4, StaysToAnswer
<1>4. CASE DropBucket(t)
  BY <1>4 DEF DropBucket, Countable, FactorizedAnswers
<1>5. CASE FoldBucket(t)
  <2>1. /\ UNCHANGED <<fellBack, executorError, queued, answers, slice, nextSlice>>
        /\ folded' = folded \cup {slice[t]} /\ completed' = completed + 1
        /\ pc[t] = "fold" /\ pc'[t] = "publish" /\ \A u \in Threads \ {t} : pc'[u] = pc[u]
        /\ seen'[t] = completed'
    BY <1>p, <1>5 DEF FoldBucket
  <2>2. \A b \in Buckets : Lost(b)' => Lost(b)
    <3> SUFFICES ASSUME NEW b \in Buckets, Lost(b)' PROVE Lost(b)
      OBVIOUS
    <3>1. b # slice[t] /\ b \notin folded /\ b < nextSlice
      BY <2>1 DEF Lost
    <3> QED BY <2>1, <3>1 DEF Lost, Holds
  <2>3. completed' = Slices' => FoldedLast(t)'
    BY <2>1 DEF FoldedLast
  <2>4. \A u \in Threads : pc[u] = "throw" => pc'[u] = "throw"
    BY <2>1
  <2> QED BY <1>s, <2>1, <2>2, <2>3, <2>4 DEF FactorizedAnswers
<1>6. CASE Publish(t)
  <2>1. /\ UNCHANGED <<fellBack, executorError, queued, slice, nextSlice, folded, completed, seen>>
        /\ pc[t] = "publish"
        /\ \/ ~FoldedLast(t) /\ pc' = [pc EXCEPT ![t] = "enter"] /\ answers' = answers
           \/ pc' = [pc EXCEPT ![t] = "throw"] /\ answers' = answers
           \/ pc' = [pc EXCEPT ![t] = "enter"] /\ answers' = answers + 1
    BY <1>6 DEF Publish
  <2>2. pc'[t] \in {"enter", "throw"} /\ \A u \in Threads \ {t} : pc'[u] = pc[u]
    BY <1>p, <2>1
  <2>3. CASE pc'[t] = "throw" \/ answers' = answers + 1
    BY <1>p, <2>1, <2>2, <2>3 DEF FactorizedAnswers
  <2>4. CASE ~FoldedLast(t) /\ answers' = answers
    <3>1. \A u \in Threads : Holds(u)' = Holds(u)
      BY <2>1, <2>2 DEF Holds, HoldLabels
    <3>2. \A b \in Buckets : Lost(b)' => Lost(b)
      BY <1>s, <2>1, <3>1 DEF Lost
    <3> QED BY <1>s, <2>1, <2>2, <2>4, <3>2, StaysToAnswer
  <2> QED BY <1>p, <2>1, <2>2, <2>3, <2>4
<1>7. CASE CountAtMost(t)
  <2>1. pc' = [pc EXCEPT ![t] = "throw"] \/ (pc' = [pc EXCEPT ![t] = "enter"] /\ answers' = answers + 1)
    BY <1>7 DEF CountAtMost
  <2>2. pc'[t] = "throw" \/ (pc'[t] = "enter" /\ answers' > 0)
    BY <1>p, <2>1
  <2> QED BY <2>2 DEF FactorizedAnswers
<1>8. CASE SumProduct(t)
  <2>1. /\ UNCHANGED <<nextSlice, completed>> /\ query.shape = "product"
        /\ \/ handedOut > 0 /\ answers' = answers
           \/ pc' = [pc EXCEPT ![t] = "enter"] /\ answers' = answers + 1
           \/ pc' = [pc EXCEPT ![t] = "throw"]
    BY <1>8 DEF SumProduct
  <2>2. nextSlice = 0 /\ handedOut = answers
    BY <2>1 DEF CountInv, ShapeInv
  <2>3. \A b \in Buckets' : ~Lost(b)'
    BY <2>1, <2>2 DEF Lost, Buckets
  <2>4. answers' > 0 \/ pc'[t] = "throw"
    BY <1>p, <2>1, <2>2
  <2> QED BY <1>s, <2>1, <2>3, <2>4 DEF FactorizedAnswers
<1> QED BY <1>1, <1>2, <1>3, <1>4, <1>5, <1>6, <1>7, <1>8 DEF CountStep

AnswersInv == IInv /\ StockBound /\ StockAnswers /\ FactorizedAnswers

(* Everything the refinement needs holds at the start, *)
LEMMA AnswersInit == Init => AnswersInv
  BY InitTypeOK, InitCountInv, StockBoundInit, FactorizedAnswersInit
     DEF Init, IInv, AnswersInv

(* and is kept by every step. *)
LEMMA AnswersStep ==
  ASSUME "recoverable" \notin DriverErrors, AnswersInv, [Next]_vars
  PROVE  AnswersInv'
<1>1. IInv' BY StepIInv DEF AnswersInv
<1>2. /\ TypeOK /\ PlanInv /\ CountInv /\ PlanTypeOK /\ (phase # "NONE" => fellBack)
      /\ pc \in [Threads -> Labels]
  BY DEF AnswersInv, IInv, TypeOK, PlanTypeOK, CountInv, HandedOver
<1>3. ASSUME NEW t \in Threads, PlanStep(t), UNCHANGED countVars
      PROVE  StockBound' /\ StockAnswers' /\ FactorizedAnswers'
  BY <1>2, <1>3, PlanStepBound, PlanStepAnswers, PlanStepFactorizedAnswers DEF AnswersInv
<1>4. ASSUME NEW t \in Threads, CountStep(t)
      PROVE  StockBound' /\ StockAnswers' /\ FactorizedAnswers'
  <2>1. /\ UNCHANGED <<query, executorError, working, phase, stockQueued, collected,
                       scanReady, scanned, fellBack>>
        /\ pc[t] \in {"factorized", "inputs", "count", "atMost", "fold", "publish"}
        /\ \E label \in {"throw", "inputs", "idle", "atMost", "count", "fold",
                         "emit", "publish", "enter"} : pc' = [pc EXCEPT ![t] = label]
    BY <1>4 DEF CountStep, DebugFail, ClaimBucket, ReadInputs, CountBucket, DropBucket,
         FoldOverflows, FoldBucket, Publish, CountAtMost, SumProduct, EmitRow, InFactorized,
         Throw, Goto, stockVars
  <2>2. /\ pc'[t] \notin {"ready", "unwind"}
        /\ \A u \in Threads \ {t} : pc'[u] = pc[u]
    BY <1>2, <2>1
  <2>3. /\ \A u \in Threads \ {t} : inTry'[u] = inTry[u]
        /\ \A u \in Threads \ {t} : thrown'[u] = thrown[u]
    <3>1. /\ inTry' = inTry \/ inTry' = [inTry EXCEPT ![t] = TRUE]
          /\ \/ thrown' = thrown
             \/ \E kind \in ErrorKinds : thrown' = [thrown EXCEPT ![t] = kind]
      BY <1>4 DEF CountStep, DebugFail, ClaimBucket, ReadInputs, CountBucket, DropBucket,
         FoldOverflows, FoldBucket, Publish, CountAtMost, SumProduct, EmitRow, InFactorized,
         Throw, Goto, ErrorKinds
    <3> QED BY <1>2, <3>1 DEF PlanTypeOK
  <2>4. StockBound' BY <2>1, <2>2, StockBoundKept DEF AnswersInv
  <2>5. StockAnswers'
    BY <2>1, <2>2, <2>3, StockAnswersKept DEF AnswersInv, ScanLabels
  <2> QED BY <1>2, <1>4, <2>4, <2>5, CountStepFactorizedAnswers DEF AnswersInv
<1>5. CASE UNCHANGED vars
  <2>1. UNCHANGED <<query, pc, thrown, inTry, working, queued, fellBack, executorError, phase,
                    stockQueued, collected, scanReady, scanned, nextSlice, slice, completed,
                    seen, folded, answers>>
    BY <1>5 DEF vars, planVars, threadVars, stockVars, countVars, bucketVars, answerVars
  <2>2. UNCHANGED <<Slices, Buckets>> BY <2>1 DEF Slices, Buckets, ParallelSource
  <2>3. StockBound' BY <2>1, StockBoundKept DEF AnswersInv
  <2>4. StockAnswers' BY <2>1 DEF AnswersInv, StockAnswers
  <2>5. \A b \in Buckets : Lost(b)' = Lost(b) BY <2>1, <2>2 DEF Lost, Holds
  <2>6. FactorizedAnswers' BY <2>1, <2>2, <2>5 DEF AnswersInv, FactorizedAnswers, FoldedLast
  <2> QED BY <1>1, <2>3, <2>4, <2>6 DEF AnswersInv
<1> QED BY <1>1, <1>3, <1>4, <1>5 DEF AnswersInv, Next, Step, Over

(* A query that ends without an error has given its whole answer, by one   *)
(* plan, and leaves no task of the other.                                  *)
AnsweredInFull ==
  /\ stockQueued = 0
  /\ \/ answers = 1
     \/ answers = 0 /\ scanReady /\ scanned = StockTasks

(* A query that ends without an error is answered. *)
LEMMA EndsAnswered == AnswersInv /\ QueryOver /\ ~executorError => AnsweredInFull
<1> SUFFICES ASSUME AnswersInv, QueryOver, ~executorError PROVE AnsweredInFull
  OBVIOUS
<1>1. /\ queued = 0 /\ \A t \in Threads : pc[t] = "idle"
  BY DEF QueryOver
<1>2. /\ CountInv /\ FactorizedAnswers /\ answers \in Nat /\ nextSlice \in Nat
  BY DEF AnswersInv, IInv, TypeOK
<1>3. /\ stockQueued = 0
      /\ fellBack => scanReady /\ scanned = StockTasks
  BY <1>2, StockDelivered DEF AnswersInv, IInv, CountInv, HandedOver
<1>4. CASE fellBack
  <2>1. ~(answers > 0) BY <1>2, <1>4 DEF CountInv, AnswerInv, Thrown
  <2> QED BY <1>2, <1>3, <1>4, <2>1 DEF AnsweredInFull
<1>5. CASE ~fellBack
  <2>1. answers > 0
    <3> SUFFICES ASSUME ~(answers > 0) PROVE FALSE
      OBVIOUS
    <3>1. query.shape # "product" /\ nextSlice >= Slices
      BY <1>1, <1>2, <1>5 DEF FactorizedAnswers
    <3>2. \A t \in Threads : ~Holds(t) BY <1>1 DEF Holds, HoldLabels
    <3>3. Buckets \subseteq folded
      <4> SUFFICES ASSUME NEW b \in Buckets, b \notin folded PROVE FALSE
        OBVIOUS
      <4>1. b < nextSlice BY <1>2, <3>1, SlicesType DEF Buckets
      <4>2. Lost(b) BY <3>2, <4>1 DEF Lost
      <4> QED BY <1>1, <1>2, <1>5, <4>2 DEF FactorizedAnswers
    <3>4. folded = Buckets BY <1>2, <3>3 DEF CountInv, Partition
    <3>5. completed = Slices BY <1>2, <3>4, BucketsCount DEF CountInv, Partition
    <3> QED BY <1>1, <1>2, <1>5, <3>5 DEF FactorizedAnswers
  <2>2. answers <= 1 BY <1>2 DEF CountInv, AnswerInv
  <2> QED BY <1>2, <1>3, <2>1, <2>2 DEF AnsweredInFull
<1> QED BY <1>4, <1>5

(* The same of the state a step leads to. *)
LEMMA EndsAnsweredThen ==
  AnswersInv' /\ QueryOver' /\ ~executorError' => AnsweredInFull'
  BY EndsAnswered, PTL

(* Nothing happens to a query that has ended. *)
LEMMA NothingAfterEnd ==
  ASSUME AnswersInv, QueryOver, NEW t \in Threads, Step(t)
  PROVE  FALSE
<1>1. ~executorError => stockQueued = 0
  BY EndsAnswered DEF AnsweredInFull
<1>2. ~CountStep(t)
  BY DEF QueryOver, CountStep, DebugFail, ClaimBucket, ReadInputs, CountBucket, DropBucket,
     FoldOverflows, FoldBucket, Publish, CountAtMost, SumProduct
<1> QED BY <1>1, <1>2, PlanStepBeforeEnd DEF Step

(* What a step may show the user. *)
LEMMA AnswerSteps ==
  ASSUME PlanTypeOK, NEW t \in Threads, Step(t)
  PROVE  /\ executorError => executorError'
         /\ \/ UNCHANGED <<answers, scanReady, scanned>>
            \/ /\ executorError' = executorError
               /\ pc'[t] # "idle"
               /\ \/ answers' = answers + 1 /\ UNCHANGED <<scanReady, scanned>>
                  \/ scanReady' = TRUE /\ UNCHANGED <<answers, scanned>>
                  \/ /\ scanReady /\ scanned < collected /\ scanned' = scanned + 1
                     /\ UNCHANGED <<answers, scanReady>>
<1> USE DEF Goto, countVars, answerVars, stockVars, InFactorized
<1>1. CASE CountStep(t)
  <2>1. UNCHANGED <<executorError, scanReady, scanned>>
    BY <1>1 DEF CountStep, DebugFail, ClaimBucket, ReadInputs, CountBucket, DropBucket,
       FoldOverflows, FoldBucket, Publish, CountAtMost, SumProduct
  <2>2. \/ answers' = answers
        \/ answers' = answers + 1 /\ pc' = [pc EXCEPT ![t] = "enter"]
    BY <1>1 DEF CountStep, DebugFail, ClaimBucket, ReadInputs, CountBucket, DropBucket,
       FoldOverflows, FoldBucket, Publish, CountAtMost, SumProduct, EmitRow
  <2> QED BY <2>1, <2>2 DEF PlanTypeOK
<1>2. CASE PlanStep(t) /\ UNCHANGED countVars
  BY <1>2, ErrorStays, PlanStepShows
<1> QED BY <1>1, <1>2 DEF Step

(* A query starts as QueryAnswer does. *)
LEMMA RefinesInit == Init => QA!Init
<1> SUFFICES ASSUME Init PROVE QA!Init
  OBVIOUS
<1>1. Source = "none" /\ Chunks = 0
  BY DEF Init, PlanInit, Source, Chunks
<1>2. Outcome = "running"
  <2>1. queued # 0 /\ ~executorError BY SlicesType DEF Init, PlanInit
  <2> QED BY <2>1 DEF Outcome, QueryOver
<1> QED BY <1>1, <1>2 DEF QA!Init

(* Every step is one of QueryAnswer's, or shows the user nothing. *)
LEMMA RefinesStep ==
  ASSUME AnswersInv, AnswersInv', [Next]_vars
  PROVE  [QA!Next]_(QA!vars)
<1>1. CASE UNCHANGED vars
  BY <1>1 DEF vars, planVars, threadVars, stockVars, countVars, answerVars, QA!vars, Source,
     Chunks, Outcome, QueryOver
<1>2. ASSUME NEW t \in Threads, Step(t) PROVE [QA!Next]_(QA!vars)
  <2>1. ~QueryOver BY <1>2, NothingAfterEnd
  <2>p. /\ PlanTypeOK /\ answers \in Nat /\ answers' \in Nat /\ scanned \in Nat
        /\ answers <= 1 /\ answers' <= 1 /\ StockBound /\ StockBound'
        /\ StockTasks \in Nat /\ collected \in Nat /\ scanned' \in Nat
        /\ executorError \in BOOLEAN /\ executorError' \in BOOLEAN
    BY SizesAssumption DEF AnswersInv, IInv, TypeOK, PlanTypeOK, CountInv, AnswerInv
  <2>a. /\ scanReady => answers = 0
        /\ scanReady' => answers' = 0
    <3>1. (scanReady => ~(answers > 0)) /\ (scanReady' => ~(answers' > 0))
      BY DEF AnswersInv, IInv, CountInv, HandedOver, AnswerInv, Thrown, StockBound
    <3> QED BY <2>p, <3>1
  <2>2. Outcome = IF executorError THEN "failed" ELSE "running"
    BY <2>1 DEF Outcome
  <2>s. executorError => executorError' BY <1>2, <2>p, AnswerSteps
  <2>3. CASE UNCHANGED <<answers, scanReady, scanned>>
    <3>1. UNCHANGED <<Source, Chunks>> BY <2>3 DEF Source, Chunks
    <3>2. CASE executorError
      BY <2>2, <2>s, <3>1, <3>2 DEF Outcome, QA!vars
    <3>3. CASE ~executorError /\ executorError'
      <4>1. Outcome = "running" /\ Outcome' = "failed" BY <2>2, <3>3 DEF Outcome
      <4> QED BY <3>1, <4>1 DEF QA!Next, QA!Fail
    <3>4. CASE ~executorError' /\ QueryOver'
      <4>1. Outcome = "running" /\ Outcome' = "answered" BY <2>2, <2>s, <3>4 DEF Outcome
      <4>2. answers' = 1 \/ (answers' = 0 /\ scanReady' /\ scanned' = StockTasks)
        BY <3>4, EndsAnsweredThen DEF AnsweredInFull
      <4>3. Source # "none" /\ Chunks = IF Source = "factorized" THEN 1 ELSE StockTasks
        BY <2>3, <4>2 DEF Source, Chunks
      <4> QED BY <3>1, <4>1, <4>3 DEF QA!Next, QA!Finish, QA!Promised
    <3>5. CASE ~executorError' /\ ~QueryOver'
      BY <2>2, <2>s, <3>1, <3>5 DEF Outcome, QA!vars
    <3> QED BY <2>p, <3>2, <3>3, <3>4, <3>5
  <2>4. CASE /\ executorError' = executorError /\ pc'[t] # "idle"
             /\ \/ answers' = answers + 1 /\ UNCHANGED <<scanReady, scanned>>
                \/ scanReady' = TRUE /\ UNCHANGED <<answers, scanned>>
                \/ /\ scanReady /\ scanned < collected /\ scanned' = scanned + 1
                   /\ UNCHANGED <<answers, scanReady>>
    <3>1. Outcome' = Outcome /\ Outcome # "answered"
      <4>1. ~QueryOver' BY <2>4 DEF QueryOver
      <4> QED BY <2>2, <2>4, <4>1 DEF Outcome
    <3>2. CASE answers' = answers + 1 /\ UNCHANGED <<scanReady, scanned>>
      <4>1. answers = 0 /\ answers' = 1 BY <2>p, <3>2
      <4>2. ~scanReady /\ scanned = 0
        BY <2>p, <2>a, <3>2, <4>1 DEF StockBound
      <4>3. Source = "none" /\ Source' = "factorized" /\ Chunks' = 1
        BY <4>1, <4>2 DEF Source, Chunks
      <4> QED BY <3>1, <4>3 DEF QA!Next, QA!AnswerFactorized, QA!Choose
    <3>3. CASE scanReady' = TRUE /\ UNCHANGED <<answers, scanned>>
      <4>1. answers = 0 /\ answers' = 0 BY <2>p, <2>a, <3>3
      <4>2. Source' = "stock" /\ Chunks' = Chunks BY <3>3, <4>1 DEF Source, Chunks
      <4>3. CASE scanReady
        <5>1. Source = "stock" BY <4>1, <4>3 DEF Source
        <5> QED BY <3>1, <4>2, <5>1 DEF QA!vars
      <4>4. CASE ~scanReady
        <5>1. Source = "none" BY <4>1, <4>4 DEF Source
        <5> QED BY <3>1, <4>2, <5>1 DEF QA!Next, QA!AnswerStock, QA!Undelivered, QA!Choose
      <4> QED BY <4>3, <4>4
    <3>4. CASE /\ scanReady /\ scanned < collected /\ scanned' = scanned + 1
               /\ UNCHANGED <<answers, scanReady>>
      <4>1. answers = 0 /\ answers' = 0 /\ collected = StockTasks
        BY <2>p, <2>a, <3>4 DEF StockBound
      <4>2. /\ Source = "stock" /\ Source' = "stock"
            /\ Chunks = scanned /\ Chunks' = Chunks + 1 /\ Chunks < StockTasks
        BY <3>4, <4>1 DEF Source, Chunks
      <4> QED BY <3>1, <4>2 DEF QA!Next, QA!Deliver, QA!Promised
    <3> QED BY <2>4, <3>2, <3>3, <3>4
  <2> QED BY <1>2, <2>p, <2>3, <2>4, AnswerSteps
<1> QED BY <1>1, <1>2 DEF Next, Over

(* As long as the driver of the stock plan meets no error that is neither  *)
(* fatal nor recorded (the one that finding 1 is about), a count gives its *)
(* user one plan's whole answer, once, or an error: every state and step   *)
(* of it is one of QueryAnswer, for any number of threads, buckets and     *)
(* stock tasks. That it ends is left to TLC.                               *)
THEOREM CountAnswersTheQuery ==
  "recoverable" \notin DriverErrors => (Spec => ImplementsQueryAnswer)
<1> SUFFICES ASSUME "recoverable" \notin DriverErrors PROVE Spec => ImplementsQueryAnswer
  OBVIOUS
<1>1. Init => AnswersInv BY AnswersInit
<1>2. AnswersInv /\ [Next]_vars => AnswersInv' BY AnswersStep
<1>3. AnswersInv /\ AnswersInv' /\ [Next]_vars => [QA!Next]_(QA!vars) BY RefinesStep
<1> QED BY <1>1, <1>2, <1>3, RefinesInit, PTL DEF Spec, ImplementsQueryAnswer, QA!Spec
=============================================================================
