------------------------ MODULE GroupOperatorProofs ------------------------
(***************************************************************************)
(* That a grouped or folded aggregate publishes an exact merge, hands every *)
(* group out once, and fails when the driver of the stock plan does, for   *)
(* any number of threads, buckets and groups and any size of a vector.     *)
(*                                                                         *)
(* The argument. A bucket is claimed by one thread, which is the only one  *)
(* that can merge it, so as long as no part has failed the parts completed *)
(* are the buckets merged, and the last part completes the partition. The  *)
(* groups emitted are those up to handedOut, but for the rest of a chunk   *)
(* that threw, and a thread only leaves a query that neither failed nor    *)
(* fell back when nothing is left beyond handedOut.                        *)
(*                                                                         *)
(* That only one plan answers needs an assumption, Tame, without which the *)
(* runs refute it. Under it an exception that the operator recovers from   *)
(* leaves a mark, Spoiled, which never goes: an error, a bucket nobody     *)
(* will merge, or a group that cannot be converted. The first two keep the *)
(* groups from being published, the last the first chunk from going out.   *)
(* The last part shows, under Tame, that a query with groups implements    *)
(* QueryAnswer: whatever it shows its user, in whatever order.             *)
(***************************************************************************)
EXTENDS GroupOperator, FallbackPlanProofs, FiniteSetTheorems

(* What a quotient and a remainder are. *)
LEMMA DivMod ==
  ASSUME NEW n \in Int, NEW m \in Nat \ {0}
  PROVE  /\ n \div m \in Int /\ n % m \in 0 .. m - 1
         /\ n = m * (n \div m) + (n % m)
OBVIOUS

(* A product grows with its factor. *)
LEMMA ProductMonotonic ==
  ASSUME NEW a \in Int, NEW b \in Int, NEW m \in Nat, a <= b
  PROVE  m * a <= m * b
OBVIOUS

-----------------------------------------------------------------------------
(* A thread holds the bucket it has claimed until it is merged or lost. *)
Holds(t) == pc[t] \in {"count", "fold"}

MergedBuckets == {b \in AllBuckets : merged[b] = 1}

(* Buckets are claimed in order, held by one thread and merged once. *)
Partition ==
  /\ \A t \in Threads : Holds(t) => /\ slice[t] \in Buckets
                                    /\ slice[t] < nextSlice
                                    /\ merged[slice[t]] = 0
  /\ \A t, u \in Threads : Holds(t) /\ Holds(u) /\ slice[t] = slice[u] => t = u
  /\ \A b \in AllBuckets : merged[b] = 0 \/ (merged[b] = 1 /\ b \in Buckets /\ b < nextSlice)
  /\ ~error => completed = Cardinality(MergedBuckets)
  /\ \A t \in Threads : pc[t] = "fold" => verdict[t] # "none"

(* Labels reached only after the query was handed to the stock plan. *)
StockLabels == {"emit", "ready", "drive", "help", "unwind", "scan"}

(* Handing the query over is what every trace of the stock plan rests on,  *)
(* and no driver's error is caught by this operator.                       *)
HandedOver ==
  /\ \A t \in Threads : pc[t] \in StockLabels => fellBack
  /\ scanned > 0 => fellBack
  /\ \A t \in Threads : ~inTry[t]
  /\ phase = "FAILED" => executorError

Exact == Partition /\ HandedOver /\ GroupsAreExact

(* A query that has not been given up by anybody. *)
Undisturbed == ~executorError /\ ~fellBack /\ \A t \in Threads : pc[t] # "throw"

(* Nothing is left beyond handedOut. *)
AllHandedOut == groupCount <= handedOut /\ ~MakesRow

HandingOut ==
  /\ ~query.grouped => groupCount <= 1
  /\ \A g \in AllGroups : emitted[g] <= 1 /\ (emitted[g] = 1 => g <= handedOut)
  /\ Undisturbed => \A g \in 1 .. groupCount : g <= handedOut => emitted[g] = 1
  /\ IF groupCount = 0 THEN handedOut = madeRows /\ madeRows <= 1 ELSE madeRows = 0
  /\ ~executorError /\ ~fellBack =>
       queued > 0 \/ (\E t \in Threads : pc[t] # "idle") \/ AllHandedOut

IInv == TypeOK /\ PlanInv /\ Exact /\ HandingOut

-----------------------------------------------------------------------------
(* Types, and the plan's invariant. *)

(* The operator starts with its variables typed and no frame entered. *)
LEMMA InitTypeOK == Init => TypeOK /\ PlanInv
<1> SUFFICES ASSUME Init PROVE TypeOK /\ PlanInv
  OBVIOUS
<1>1. PlanInv
  BY PlanInitInv DEF Init
<1>2. 0 \in AllBuckets
  BY SizesAssumption DEF AllBuckets
<1>3. NoBuckets \in [AllBuckets -> Nat] /\ 0 \in 0 .. Slices
  BY SlicesType DEF NoBuckets
<1>4. unconvertible \subseteq AllGroups
  BY GroupsAssumption DEF Init, AllGroups
<1> QED BY <1>1, <1>2, <1>3, <1>4 DEF Init, TypeOK, PlanInv

(* No step of the groups' code enters or leaves a frame of the fallback. *)
LEMMA GroupStepPlanInv ==
  ASSUME PlanInv, NEW t \in Threads, GroupStep(t)
  PROVE  /\ PlanInv' /\ InFactorized
         /\ pc[t] \in {"factorized", "inputs", "claim", "count", "fold", "wait", "hand"}
         /\ pc'[t] \in {"throw", "inputs", "claim", "count", "fold", "wait", "hand", "enter", "idle"}
         /\ \A u \in Threads \ {t} : pc'[u] = pc[u]
<1> USE DEF Goto, Throw, InFactorized, stockVars
<1>t. PlanTypeOK
  BY DEF PlanInv
<1>1. /\ pc[t] \in {"factorized", "inputs", "claim", "count", "fold", "wait", "hand"}
      /\ InFactorized
  BY DEF GroupStep, DebugFail, FoldWhole, LookForGroups, ShareInputs, ClaimBucket, FoldBucket,
         MergeOverflows, MergeBucket, WaitForGroups, MakeRow, HandOutGroups, ConversionThrows
<1>2. \E label \in {"throw", "inputs", "claim", "count", "fold", "wait", "hand", "enter", "idle"} :
        pc' = [pc EXCEPT ![t] = label]
  BY DEF GroupStep, DebugFail, FoldWhole, LookForGroups, ShareInputs, ClaimBucket, FoldBucket,
         MergeOverflows, MergeBucket, WaitForGroups, MakeRow, HandOutGroups, ConversionThrows
<1>3. \/ thrown' = thrown
      \/ \E kind \in ErrorKinds : thrown' = [thrown EXCEPT ![t] = kind]
  BY ReadAssumption
     DEF GroupStep, DebugFail, FoldWhole, LookForGroups, ShareInputs, ClaimBucket, FoldBucket,
         MergeOverflows, MergeBucket, WaitForGroups, MakeRow, HandOutGroups, ConversionThrows,
         ErrorKinds
<1>4. PICK label \in {"throw", "inputs", "claim", "count", "fold", "wait", "hand", "enter", "idle"} :
        pc' = [pc EXCEPT ![t] = label]
  BY <1>2
<1>5. label \in FreeLabels /\ pc[t] \in FreeLabels
  BY <1>1 DEF FreeLabels, Labels
<1>6. thrown' \in [Threads -> ErrorKinds \cup {"none"}]
  BY <1>3, <1>t DEF PlanTypeOK
<1>7. /\ pc'[t] = label
      /\ \A u \in Threads \ {t} : pc'[u] = pc[u]
  BY <1>4, <1>t DEF PlanTypeOK
<1> QED BY <1>t, <1>1, <1>4, <1>5, <1>6, <1>7, FreeStepInv DEF PlanTypeOK

(* The next chunk is the groups from handedOut on, as many as it counts. *)
LEMMA NextChunk ==
  ASSUME handedOut \in Nat, groupCount \in Nat
  PROVE  /\ NextHandedOut \in Nat /\ handedOut <= NextHandedOut
         /\ NextGroups = handedOut + 1 .. NextHandedOut
         /\ NextHandedOut = handedOut \/ NextHandedOut <= groupCount
         /\ NextHandedOut <= handedOut + VectorSize
         /\ NextHandedOut \in {handedOut, groupCount, handedOut + VectorSize}
         /\ (NextGroups = {}) = (groupCount <= handedOut)
<1> DEFINE last == IF groupCount < handedOut + VectorSize THEN groupCount ELSE handedOut + VectorSize
<1>1. VectorSize \in Nat \ {0} BY GroupsAssumption
<1>2. last \in Nat BY <1>1
<1>3. NextGroups = handedOut + 1 .. last BY <1>1 DEF NextGroups
<1>4. Cardinality(NextGroups) = IF handedOut + 1 > last THEN 0 ELSE last - (handedOut + 1) + 1
  <2> HIDE DEF last
  <2> QED BY <1>2, <1>3, FS_Interval
<1>5. NextHandedOut = IF handedOut + 1 > last THEN handedOut ELSE last
  <2> HIDE DEF last
  <2> QED BY <1>2, <1>4 DEF NextHandedOut
<1> QED BY <1>1, <1>2, <1>3, <1>5

(* Every step of the groups' code keeps the operator's own variables typed. *)
LEMMA GroupStepTypeOK ==
  ASSUME TypeOK, PlanInv, NEW t \in Threads, GroupStep(t)
  PROVE  TypeOK'
<1> USE DEF TypeOK, groupVars, foldVars, emitVars, answerIs
<1>p. PlanTypeOK' /\ UNCHANGED query
  BY GroupStepPlanInv DEF PlanInv, InFactorized
<1>s. Slices' = Slices
  BY <1>p DEF Slices, ParallelSource
<1>1. CASE DebugFail(t)
  BY <1>p, <1>s, <1>1 DEF DebugFail
<1>2. CASE FoldWhole(t)
  <2>1. EachOnce \in [AllBuckets -> Nat] BY DEF EachOnce
  <2>2. published' \in BOOLEAN
    <3>1. published' = TRUE \/ published' = published BY <1>2 DEF FoldWhole
    <3> QED BY <3>1, Zenon
  <2>3. groups' \in [AllBuckets -> Nat] BY <1>2, <2>1 DEF FoldWhole
  <2> QED BY <1>p, <1>s, <1>2, <2>2, <2>3 DEF FoldWhole
<1>3. CASE LookForGroups(t)
  BY <1>p, <1>s, <1>3 DEF LookForGroups
<1>4. CASE ShareInputs(t)
  <2>1. inputs' \in BOOLEAN
    <3>1. inputs' = TRUE \/ inputs' = inputs BY <1>4 DEF ShareInputs
    <3> QED BY <3>1, Zenon
  <2> QED BY <1>p, <1>s, <1>4, <2>1 DEF ShareInputs
<1>5. CASE ClaimBucket(t)
  <2>1. slice' \in [Threads -> AllBuckets] /\ nextSlice' \in 0 .. Slices
    <3>1. Claimable => nextSlice \in AllBuckets /\ nextSlice + 1 \in 0 .. Slices
      BY SlicesType, SizesAssumption DEF Claimable, AllBuckets
    <3> QED BY <3>1, <1>5 DEF ClaimBucket
  <2> QED BY <1>p, <1>s, <1>5, <2>1 DEF ClaimBucket
<1>6. CASE FoldBucket(t)
  <2>1. verdict' \in [Threads -> {"none", "ok", "failed"}] BY <1>6 DEF FoldBucket
  <2> QED BY <1>p, <1>s, <1>6, <2>1 DEF FoldBucket
<1>7. CASE MergeOverflows(t)
  BY <1>p, <1>s, <1>7 DEF MergeOverflows
<1>8. CASE MergeBucket(t)
  <2>1. merged' \in [AllBuckets -> Nat] BY <1>8 DEF MergeBucket, MergedNext
  <2>2. error' \in BOOLEAN /\ completed' \in Nat BY <1>8 DEF MergeBucket
  <2>3. groups' \in [AllBuckets -> Nat] BY <1>8, <2>1 DEF MergeBucket
  <2>4. published' \in BOOLEAN
    <3>1. published' = TRUE \/ published' = published BY <1>8 DEF MergeBucket
    <3> QED BY <3>1, Zenon
  <2> QED BY <1>p, <1>s, <1>8, <2>1, <2>2, <2>3, <2>4 DEF MergeBucket
<1>9. CASE WaitForGroups(t)
  BY <1>p, <1>s, <1>9 DEF WaitForGroups
<1>10. CASE MakeRow(t)
  BY <1>p, <1>s, <1>10 DEF MakeRow
<1>11. CASE HandOutGroups(t)
  <2>1. emitted' \in [AllGroups -> Nat] /\ answers' \in Nat /\ handedOut' \in Nat
    <3>1. NextHandedOut \in Nat BY NextChunk
    <3> QED BY <1>11, <3>1 DEF HandOutGroups
  <2> QED BY <1>p, <1>s, <1>11, <2>1 DEF HandOutGroups
<1>12. CASE ConversionThrows(t)
  <2>1. handedOut' \in Nat
    <3>1. PICK bad \in NextGroups : handedOut' = bad - 1 BY <1>12 DEF ConversionThrows
    <3>2. bad \in handedOut + 1 .. NextHandedOut /\ NextHandedOut \in Nat BY <3>1, NextChunk
    <3> QED BY <3>1, <3>2
  <2> QED BY <1>p, <1>s, <1>12, <2>1 DEF ConversionThrows
<1> QED BY <1>1, <1>2, <1>3, <1>4, <1>5, <1>6, <1>7, <1>8, <1>9, <1>10, <1>11, <1>12
        DEF GroupStep

(* Types, the single driver and the single frame survive any step. *)
LEMMA StepPlanInv ==
  ASSUME TypeOK, PlanInv, [Next]_vars
  PROVE  TypeOK' /\ PlanInv'
<1>1. ASSUME NEW t \in Threads, PlanStep(t), UNCHANGED groupVars
      PROVE  TypeOK' /\ PlanInv'
  <2>1. UNCHANGED query
    BY <1>1 DEF PlanStep, StartSourceTask, StopOnError, TakeStockTask, FinishStockTask, Reenter,
       Enter, Catch, EmitFallback, ReadyFallback, DriverThrows, DriverSeesError, FinishDriving,
       UnwindDriver, HelperReturns, ScanFallback
  <2>2. Slices' = Slices BY <2>1 DEF Slices, ParallelSource
  <2>3. PlanInv' BY <1>1, PlanStepInv
  <2> QED BY <1>1, <2>2, <2>3 DEF TypeOK, PlanInv, groupVars, foldVars, emitVars, answerIs
<1>2. ASSUME NEW t \in Threads, GroupStep(t)
      PROVE  TypeOK' /\ PlanInv'
  BY <1>2, GroupStepPlanInv, GroupStepTypeOK
<1>3. CASE UNCHANGED vars
  BY <1>3 DEF vars, planVars, threadVars, stockVars, groupVars, foldVars, emitVars, answerIs,
              TypeOK, PlanInv, PlanTypeOK, OneDriver, NoNestedFrames, Driving, Helping, Slices,
              ParallelSource
<1> QED BY <1>1, <1>2, <1>3 DEF Next, Step, Over

-----------------------------------------------------------------------------
(* The merge. *)

(* There are as many buckets as slices. *)
LEMMA BucketsCount == IsFiniteSet(Buckets) /\ Cardinality(Buckets) = Slices
<1>1. 0 \in Int /\ Slices - 1 \in Int /\ Slices - 1 >= 0
  BY SlicesType
<1>2. IsFiniteSet(0 .. Slices - 1) /\ Cardinality(0 .. Slices - 1) = (Slices - 1) - 0 + 1
  BY <1>1, FS_Interval
<1> QED BY <1>2, SlicesType DEF Buckets

(* A set of buckets as large as the partition is the partition. *)
LEMMA WholePartition ==
  ASSUME NEW S \in SUBSET Buckets, Cardinality(S) = Slices
  PROVE  S = Buckets
BY BucketsCount, FS_Subset

(* Merging one more bucket merges one more. *)
LEMMA OneMoreMerged ==
  ASSUME TypeOK, Partition, NEW b \in Buckets, merged[b] = 0,
         merged' = [merged EXCEPT ![b] = @ + 1]
  PROVE  /\ MergedBuckets' = MergedBuckets \cup {b} /\ MergedBuckets' \subseteq Buckets
         /\ Cardinality(MergedBuckets)' = Cardinality(MergedBuckets) + 1
         /\ merged'[b] = 1 /\ \A c \in AllBuckets \ {b} : merged'[c] = merged[c]
<1>1. Buckets \subseteq AllBuckets BY SlicesType, SizesAssumption DEF Buckets, AllBuckets
<1>2. merged'[b] = 1 /\ \A c \in AllBuckets \ {b} : merged'[c] = merged[c]
  BY <1>1 DEF TypeOK
<1>3. MergedBuckets' = MergedBuckets \cup {b} BY <1>1, <1>2 DEF MergedBuckets
<1>4. MergedBuckets \subseteq Buckets /\ b \notin MergedBuckets BY DEF Partition, MergedBuckets
<1>5. IsFiniteSet(MergedBuckets) BY <1>4, BucketsCount, FS_Subset
<1> QED BY <1>2, <1>3, <1>4, <1>5, FS_AddElement

(* What the plan's steps do to the labels and flags the merge looks at.    *)
LEMMA PlanStepHandedOver ==
  ASSUME PlanInv, HandedOver, NEW t \in Threads, PlanStep(t)
  PROVE  /\ HandedOver' /\ UNCHANGED query
         /\ \A u \in Threads :
              pc'[u] = pc[u] \/ (u = t /\ {pc[u], pc'[u]} \cap {"count", "fold"} = {})
         /\ executorError => executorError'
         /\ fellBack => fellBack'
         /\ Undisturbed' => Undisturbed
         /\ ~executorError' /\ ~fellBack' =>
              pc'[t] # "idle" \/ (queued' = queued /\ pc'[t] = pc[t])
<1> USE DEF Goto, stockVars, HandedOver, StockLabels, Undisturbed
<1>t. pc \in [Threads -> Labels] /\ inTry \in [Threads -> BOOLEAN] /\ scanned \in Nat
  BY DEF PlanInv, PlanTypeOK
<1>1. CASE StartSourceTask(t) BY <1>t, <1>1 DEF StartSourceTask
<1>2. CASE StopOnError(t) BY <1>t, <1>2 DEF StopOnError
<1>3. CASE TakeStockTask(t) BY <1>t, <1>3 DEF TakeStockTask
<1>4. CASE FinishStockTask(t)
  <2>1. working[t] /\ pc' = pc /\ executorError => executorError'
    BY <1>4, Zenon DEF FinishStockTask
  <2> QED BY <1>t, <1>4, <2>1 DEF FinishStockTask
<1>5. CASE Reenter(t) BY <1>t, <1>5 DEF Reenter
<1>6. CASE Enter(t) BY <1>t, <1>6 DEF Enter, Entry, CalledInTry
<1>7. CASE Catch(t)
  <2>1. CASE Rethrows(t) BY <1>t, <1>7, <2>1 DEF Catch, CalledInTry
  <2>2. CASE ~Rethrows(t) BY <1>t, <1>7, <2>2 DEF Catch, CalledInTry
  <2> QED BY <2>1, <2>2
<1>8. CASE EmitFallback(t) BY <1>t, <1>8 DEF EmitFallback, PhaseClaimed
<1>9. CASE ReadyFallback(t) BY <1>t, <1>9 DEF ReadyFallback
<1>10. CASE DriverThrows(t) BY <1>t, <1>10 DEF DriverThrows
<1>11. CASE DriverSeesError(t) BY <1>t, <1>11 DEF DriverSeesError
<1>12. CASE FinishDriving(t) BY <1>t, <1>12 DEF FinishDriving
<1>13. CASE UnwindDriver(t) BY <1>t, <1>13 DEF UnwindDriver, PhaseOnError
<1>14. CASE HelperReturns(t) BY <1>t, <1>14 DEF HelperReturns
<1>15. CASE ScanFallback(t) BY <1>t, <1>15 DEF ScanFallback
<1> QED BY <1>1, <1>2, <1>3, <1>4, <1>5, <1>6, <1>7, <1>8, <1>9, <1>10, <1>11, <1>12, <1>13,
           <1>14, <1>15 DEF PlanStep

(* Nothing the groups' code does hands the query over. *)
LEMMA GroupStepHandedOver ==
  ASSUME PlanInv, HandedOver, NEW t \in Threads, GroupStep(t)
  PROVE  HandedOver' /\ UNCHANGED <<query, fellBack, executorError, queued>>
BY GroupStepPlanInv DEF HandedOver, StockLabels, InFactorized, stockVars

(* A step after which nobody holds a bucket who did not hold it before.    *)
LEMMA KeepsPartition ==
  ASSUME Partition, UNCHANGED <<query, nextSlice, slice, merged, completed, error>>,
         \A u \in Threads : Holds(u)' => Holds(u),
         \A u \in Threads : pc'[u] = "fold" => verdict'[u] # "none"
  PROVE  Partition'
<1>1. Buckets' = Buckets BY DEF Buckets, Slices, ParallelSource
<1>2. MergedBuckets' = MergedBuckets BY DEF MergedBuckets
<1> QED BY <1>1, <1>2 DEF Partition, Holds

(* Claiming: the next bucket is held by nobody, and has not been merged.   *)
LEMMA ClaimPartition ==
  ASSUME TypeOK, PlanInv, Partition, NEW t \in Threads, ClaimBucket(t)
  PROVE  Partition'
<1>t. pc \in [Threads -> Labels] BY DEF PlanInv, PlanTypeOK
<1>1. UNCHANGED <<query, verdict, merged, completed, error>> /\ pc[t] = "claim"
  BY DEF ClaimBucket, InFactorized
<1>2. CASE ~ Claimable
  <2>1. pc' = [pc EXCEPT ![t] = "wait"] /\ UNCHANGED <<slice, nextSlice>>
    BY <1>2 DEF ClaimBucket, Goto
  <2>2. /\ \A u \in Threads : Holds(u)' => Holds(u)
        /\ \A u \in Threads : pc'[u] = "fold" => verdict'[u] # "none"
    BY <1>t, <1>1, <2>1 DEF Holds, Partition
  <2> QED BY <1>1, <2>1, <2>2, KeepsPartition
<1>3. CASE Claimable
  <2>1. /\ slice' = [slice EXCEPT ![t] = nextSlice] /\ nextSlice' = nextSlice + 1
        /\ pc' = [pc EXCEPT ![t] = "count"]
    BY <1>3 DEF ClaimBucket, Goto
  <2>2. Buckets' = Buckets /\ MergedBuckets' = MergedBuckets
    BY <1>1 DEF Buckets, Slices, ParallelSource, MergedBuckets
  <2>3. nextSlice \in Buckets /\ nextSlice \in AllBuckets /\ nextSlice \in Nat
    BY <1>3, SlicesType, SizesAssumption DEF TypeOK, Claimable, Buckets, AllBuckets
  <2>4. merged[nextSlice] = 0 BY <2>3 DEF Partition
  <2>5. slice \in [Threads -> AllBuckets] /\ AllBuckets \subseteq Nat
    BY DEF TypeOK, AllBuckets
  <2>6. /\ slice'[t] = nextSlice /\ Holds(t)' /\ ~ Holds(t)
        /\ \A u \in Threads \ {t} : slice'[u] = slice[u] /\ Holds(u)' = Holds(u) /\ pc'[u] = pc[u]
    BY <1>t, <1>1, <2>1, <2>5 DEF Holds
  <2>7. \A u \in Threads : Holds(u)' => /\ slice'[u] \in Buckets'
                                        /\ slice'[u] < nextSlice'
                                        /\ merged'[slice'[u]] = 0
    <3> SUFFICES ASSUME NEW u \in Threads, Holds(u)'
                 PROVE  slice'[u] \in Buckets' /\ slice'[u] < nextSlice' /\ merged'[slice'[u]] = 0
      OBVIOUS
    <3>1. CASE u = t BY <1>1, <2>1, <2>2, <2>3, <2>4, <2>6, <3>1
    <3>2. CASE u # t
      <4>1. slice'[u] = slice[u] /\ Holds(u) /\ slice[u] \in Nat BY <2>5, <2>6, <3>2
      <4>2. slice[u] \in Buckets /\ slice[u] < nextSlice /\ merged[slice[u]] = 0
        BY <4>1 DEF Partition
      <4> QED BY <1>1, <2>1, <2>2, <2>3, <4>1, <4>2
    <3> QED BY <3>1, <3>2
  <2>8. \A u, w \in Threads : Holds(u)' /\ Holds(w)' /\ slice'[u] = slice'[w] => u = w
    BY <2>3, <2>5, <2>6 DEF Partition
  <2>9. \A b \in AllBuckets : merged'[b] = 0 \/ (merged'[b] = 1 /\ b \in Buckets' /\ b < nextSlice')
    <3> SUFFICES ASSUME NEW b \in AllBuckets, merged[b] # 0
                 PROVE  merged[b] = 1 /\ b \in Buckets /\ b < nextSlice + 1
      BY <1>1, <2>1, <2>2
    <3>1. merged[b] = 1 /\ b \in Buckets /\ b < nextSlice BY DEF Partition
    <3>2. b \in Nat BY <2>5
    <3> QED BY <2>3, <3>1, <3>2
  <2>10. ~error' => completed' = Cardinality(MergedBuckets)' BY <1>1, <2>2 DEF Partition
  <2>11. \A u \in Threads : pc'[u] = "fold" => verdict'[u] # "none"
    BY <1>t, <1>1, <2>1 DEF Partition
  <2> QED BY <2>7, <2>8, <2>9, <2>10, <2>11 DEF Partition
<1> QED BY <1>2, <1>3

(* Merging: the bucket's holder lets it go, and the last part completes    *)
(* the partition.                                                          *)
LEMMA MergeExact ==
  ASSUME TypeOK, PlanInv, Partition, GroupsAreExact, NEW t \in Threads, MergeBucket(t)
  PROVE  Partition' /\ GroupsAreExact'
<1>t. pc \in [Threads -> Labels] /\ verdict[t] \in {"none", "ok", "failed"} /\ completed \in Nat
      /\ error \in BOOLEAN /\ merged \in [AllBuckets -> Nat]
  BY DEF PlanInv, PlanTypeOK, TypeOK
<1>1. /\ pc[t] = "fold" /\ UNCHANGED <<query, nextSlice, slice, verdict>>
      /\ error' = (error \/ verdict[t] = "failed") /\ completed' = completed + 1
      /\ merged' = MergedNext(t)
  BY DEF MergeBucket, InFactorized
<1>2. /\ \A u \in Threads \ {t} : pc'[u] = pc[u]
      /\ pc'[t] \in {"wait", "throw"}
  BY <1>t DEF MergeBucket, Goto, Throw
<1>3. Buckets' = Buckets /\ Slices' = Slices BY <1>1 DEF Buckets, Slices, ParallelSource
<1>4. /\ ~ Holds(t)' /\ Holds(t)
      /\ \A u \in Threads \ {t} : Holds(u)' = Holds(u)
      /\ \A u \in Threads : pc'[u] = "fold" => verdict'[u] # "none"
  BY <1>1, <1>2 DEF Holds, Partition
<1>5. /\ slice[t] \in Buckets /\ merged[slice[t]] = 0 /\ slice[t] < nextSlice
      /\ slice[t] \in AllBuckets
  BY <1>4 DEF Partition, TypeOK
<1>6. CASE error \/ verdict[t] = "failed"
  <2>1. error' /\ merged' = merged BY <1>1, <1>6 DEF MergedNext
  <2>2. Partition' BY <1>1, <1>3, <1>4, <2>1 DEF Partition
  <2>3. published' = published /\ groups' = groups BY <2>1 DEF MergeBucket
  <2> QED BY <1>3, <2>2, <2>3 DEF GroupsAreExact, EachOnce
<1>7. CASE ~(error \/ verdict[t] = "failed")
  <2>1. verdict[t] = "ok" /\ ~error /\ ~error' BY <1>t, <1>1, <1>7 DEF Partition
  <2>2. merged' = [merged EXCEPT ![slice[t]] = @ + 1] BY <1>1, <2>1 DEF MergedNext
  <2>3. /\ MergedBuckets' \subseteq Buckets
        /\ Cardinality(MergedBuckets)' = completed + 1
        /\ merged'[slice[t]] = 1 /\ \A c \in AllBuckets \ {slice[t]} : merged'[c] = merged[c]
    <3>1. Cardinality(MergedBuckets) = completed BY <2>1 DEF Partition
    <3> QED BY <1>5, <2>2, <3>1, OneMoreMerged
  <2>4. Partition'
    <3>1. \A u \in Threads : Holds(u)' => /\ slice'[u] \in Buckets' /\ slice'[u] < nextSlice'
                                          /\ merged'[slice'[u]] = 0
      <4> SUFFICES ASSUME NEW u \in Threads, Holds(u)'
                   PROVE  slice'[u] \in Buckets' /\ slice'[u] < nextSlice' /\ merged'[slice'[u]] = 0
        OBVIOUS
      <4>1. u # t /\ Holds(u) BY <1>4
      <4>2. slice[u] # slice[t] BY <1>4, <4>1 DEF Partition
      <4>3. slice[u] \in AllBuckets BY DEF TypeOK
      <4> QED BY <1>1, <1>3, <2>3, <4>1, <4>2, <4>3 DEF Partition
    <3>2. \A b \in AllBuckets : merged'[b] = 0 \/ (merged'[b] = 1 /\ b \in Buckets' /\ b < nextSlice')
      BY <1>1, <1>3, <1>5, <2>3 DEF Partition
    <3> QED BY <1>1, <1>4, <2>3, <3>1, <3>2 DEF Partition
  <2>5. CASE ~LastPart
    <3>1. published' = published /\ groups' = groups BY <2>5 DEF MergeBucket
    <3> QED BY <1>3, <2>4, <3>1 DEF GroupsAreExact, EachOnce
  <2>6. CASE LastPart
    <3>1. groups' = merged' BY <2>1, <2>6 DEF MergeBucket
    <3>2. MergedBuckets' = Buckets BY <2>3, <2>6, WholePartition DEF LastPart
    <3>3. merged' = EachOnce
      <4>1. merged' \in [AllBuckets -> Nat] BY <1>t, <1>5, <2>2
      <4>2. \A b \in AllBuckets : merged'[b] = IF b \in Buckets THEN 1 ELSE 0
        BY <1>3, <2>4, <3>2 DEF Partition, MergedBuckets
      <4> QED BY <4>1, <4>2 DEF EachOnce
    <3>4. EachOnce' = EachOnce BY <1>3 DEF EachOnce
    <3> QED BY <2>4, <3>1, <3>3, <3>4 DEF GroupsAreExact
  <2> QED BY <2>5, <2>6
<1> QED BY <1>6, <1>7

(* Every step of the groups' code keeps the merge exact. *)
LEMMA GroupStepExact ==
  ASSUME TypeOK, PlanInv, Exact, NEW t \in Threads, GroupStep(t)
  PROVE  Exact'
<1> USE DEF Exact, groupVars, foldVars, emitVars, answerIs
<1>t. pc \in [Threads -> Labels] BY DEF PlanInv, PlanTypeOK
<1>h. HandedOver' /\ UNCHANGED query BY GroupStepHandedOver
<1>e. EachOnce' = EachOnce BY <1>h DEF EachOnce, Buckets, Slices, ParallelSource
<1>1. CASE ClaimBucket(t)
  BY <1>h, <1>e, <1>1, ClaimPartition DEF ClaimBucket, GroupsAreExact
<1>2. CASE MergeBucket(t) BY <1>h, <1>2, MergeExact
<1>3. CASE FoldBucket(t)
  <2>1. /\ \A u \in Threads : Holds(u)' => Holds(u)
        /\ \A u \in Threads : pc'[u] = "fold" => verdict'[u] # "none"
    BY <1>t, <1>3 DEF FoldBucket, Goto, Throw, Holds, Partition, TypeOK
  <2>2. UNCHANGED <<nextSlice, slice, merged, completed, error, published, groups>>
    BY <1>3 DEF FoldBucket
  <2> QED BY <1>h, <1>e, <2>1, <2>2, KeepsPartition DEF GroupsAreExact
<1>4. CASE \/ DebugFail(t) \/ FoldWhole(t) \/ LookForGroups(t) \/ ShareInputs(t) \/ MergeOverflows(t)
           \/ WaitForGroups(t) \/ MakeRow(t) \/ HandOutGroups(t) \/ ConversionThrows(t)
  <2>1. UNCHANGED <<nextSlice, slice, verdict, merged, completed, error>>
    BY <1>4 DEF DebugFail, FoldWhole, LookForGroups, ShareInputs, MergeOverflows, WaitForGroups,
                MakeRow, HandOutGroups, ConversionThrows
  <2>2. \/ published' = published /\ groups' = groups
        \/ published' /\ groups' = EachOnce
    BY <1>4 DEF DebugFail, FoldWhole, LookForGroups, ShareInputs, MergeOverflows, WaitForGroups,
                MakeRow, HandOutGroups, ConversionThrows
  <2>3. \E label \in {"throw", "inputs", "claim", "wait", "hand", "enter", "idle"} :
          pc' = [pc EXCEPT ![t] = label]
    BY <1>4 DEF DebugFail, FoldWhole, LookForGroups, ShareInputs, MergeOverflows, WaitForGroups,
                MakeRow, HandOutGroups, ConversionThrows, Goto, Throw
  <2>4. /\ \A u \in Threads : Holds(u)' => Holds(u)
        /\ \A u \in Threads : pc'[u] = "fold" => verdict'[u] # "none"
    BY <1>t, <2>1, <2>3 DEF Holds, Partition
  <2>5. GroupsAreExact' BY <1>e, <2>2 DEF GroupsAreExact
  <2> QED BY <1>h, <2>1, <2>4, <2>5, KeepsPartition
<1> QED BY <1>1, <1>2, <1>3, <1>4 DEF GroupStep

-----------------------------------------------------------------------------
(* Handing out. *)

(* A step of the plan hands out nothing and ends no undisturbed query. *)
LEMMA PlanStepHandingOut ==
  ASSUME TypeOK, PlanInv, HandedOver, HandingOut, NEW t \in Threads,
         PlanStep(t), UNCHANGED groupVars
  PROVE  HandingOut'
<1> USE DEF groupVars, foldVars, emitVars, answerIs
<1>1. /\ UNCHANGED <<query, groupCount, handedOut, emitted, madeRows>>
      /\ executorError => executorError'
      /\ fellBack => fellBack'
      /\ Undisturbed' => Undisturbed
      /\ ~executorError' /\ ~fellBack' =>
           pc'[t] # "idle" \/ (queued' = queued /\ pc'[t] = pc[t])
      /\ \A u \in Threads \ {t} : pc'[u] = pc[u]
  <2>1. PlanInv /\ HandedOver /\ PlanStep(t) OBVIOUS
  <2> QED BY <2>1, PlanStepHandedOver
<1>2. ~executorError' /\ ~fellBack' =>
        queued' > 0 \/ (\E u \in Threads : pc'[u] # "idle") \/ AllHandedOut'
  <2> SUFFICES ASSUME ~executorError', ~fellBack', pc'[t] = "idle"
               PROVE  queued' > 0 \/ (\E u \in Threads : pc'[u] # "idle") \/ AllHandedOut'
    OBVIOUS
  <2>1. queued' = queued /\ \A u \in Threads : pc'[u] = pc[u] BY <1>1
  <2>2. queued > 0 \/ (\E u \in Threads : pc[u] # "idle") \/ AllHandedOut
    BY <1>1 DEF HandingOut
  <2> QED BY <1>1, <2>1, <2>2 DEF AllHandedOut, MakesRow
<1> QED BY <1>1, <1>2 DEF HandingOut

(* Nor does folding, up to the moment the groups are handed out. *)
LEMMA GroupStepHandingOut ==
  ASSUME TypeOK, PlanInv, HandedOver, HandingOut, NEW t \in Threads, GroupStep(t)
  PROVE  HandingOut'
<1> USE DEF groupVars, foldVars, emitVars, answerIs
<1>t. /\ pc \in [Threads -> Labels] /\ handedOut \in Nat /\ groupCount \in 0 .. MaxGroups
      /\ emitted \in [AllGroups -> Nat] /\ madeRows \in Nat /\ MaxGroups \in Nat
  BY GroupsAssumption DEF PlanInv, PlanTypeOK, TypeOK
<1>f. /\ UNCHANGED <<query, fellBack, executorError, queued, groupCount>>
      /\ pc[t] \notin {"idle", "throw"}
      /\ \A u \in Threads \ {t} : pc'[u] = pc[u]
  <2>1. UNCHANGED groupCount
    BY DEF GroupStep, DebugFail, FoldWhole, LookForGroups, ShareInputs, ClaimBucket, FoldBucket,
           MergeOverflows, MergeBucket, WaitForGroups, MakeRow, HandOutGroups, ConversionThrows
  <2> QED BY <2>1, GroupStepPlanInv, GroupStepHandedOver
<1>u. Undisturbed' => Undisturbed BY <1>f DEF Undisturbed
<1>1. CASE MakeRow(t)
  <2>1. /\ ~query.grouped /\ groupCount = 0 /\ handedOut = 0 /\ handedOut' = 1
        /\ madeRows' = madeRows + 1 /\ emitted' = emitted /\ pc'[t] = "enter"
    BY <1>t, <1>1 DEF MakeRow, MakesRow, Goto
  <2>2. madeRows = 0 BY <2>1 DEF HandingOut
  <2>3. \A g \in AllGroups : emitted'[g] <= 1 /\ (emitted'[g] = 1 => g <= handedOut')
    BY <1>t, <2>1 DEF HandingOut, AllGroups
  <2> QED BY <1>f, <2>1, <2>2, <2>3 DEF HandingOut
<1>2. CASE HandOutGroups(t) /\ NextGroups = {}
  <2>1. UNCHANGED <<handedOut, emitted, madeRows>> /\ ~MakesRow BY <1>2 DEF HandOutGroups
  <2>2. AllHandedOut' BY <1>t, <1>f, <1>2, <2>1, NextChunk DEF AllHandedOut, MakesRow
  <2> QED BY <1>f, <1>u, <2>1, <2>2 DEF HandingOut
<1>3. CASE HandOutGroups(t) /\ NextGroups # {}
  <2>1. /\ handedOut' = NextHandedOut /\ madeRows' = madeRows /\ pc'[t] = "enter"
        /\ emitted' = [g \in AllGroups |-> emitted[g] + IF g \in NextGroups THEN 1 ELSE 0]
    BY <1>t, <1>3 DEF HandOutGroups, Goto
  <2>2. /\ NextGroups = handedOut + 1 .. NextHandedOut /\ NextHandedOut \in Nat
        /\ handedOut < NextHandedOut /\ NextHandedOut <= groupCount
    BY <1>t, <1>3, NextChunk
  <2>3. groupCount # 0 BY <1>t, <2>2
  <2>4. \A g \in AllGroups : emitted'[g] <= 1 /\ (emitted'[g] = 1 => g <= handedOut')
    <3> SUFFICES ASSUME NEW g \in AllGroups
                 PROVE  emitted'[g] <= 1 /\ (emitted'[g] = 1 => g <= handedOut')
      OBVIOUS
    <3>1. g \in Nat /\ emitted[g] \in Nat /\ emitted[g] <= 1 /\ (emitted[g] = 1 => g <= handedOut)
      BY <1>t DEF HandingOut, AllGroups
    <3>2. CASE g \in NextGroups
      <4>1. emitted[g] = 0 /\ emitted'[g] = emitted[g] + 1 BY <1>t, <2>1, <2>2, <3>1, <3>2
      <4> QED BY <2>1, <2>2, <3>2, <4>1
    <3>3. CASE g \notin NextGroups
      <4>1. emitted'[g] = emitted[g] BY <2>1, <3>1, <3>3
      <4> QED BY <1>t, <2>1, <2>2, <3>1, <4>1
    <3> QED BY <3>2, <3>3
  <2>5. Undisturbed' => \A g \in 1 .. groupCount : g <= handedOut' => emitted'[g] = 1
    <3> SUFFICES ASSUME Undisturbed, NEW g \in 1 .. groupCount, g <= handedOut'
                 PROVE  emitted'[g] = 1
      BY <1>u
    <3>1. g \in AllGroups /\ emitted[g] <= 1 /\ (emitted[g] = 1 => g <= handedOut)
      BY <1>t DEF HandingOut, AllGroups
    <3>2. CASE g \in NextGroups
      <4>1. emitted[g] = 0 BY <1>t, <2>2, <3>1, <3>2
      <4> QED BY <2>1, <3>1, <3>2, <4>1
    <3>3. CASE g \notin NextGroups
      <4>1. emitted[g] = 1 BY <1>t, <2>1, <2>2, <3>3 DEF HandingOut
      <4> QED BY <2>1, <3>1, <3>3, <4>1
    <3> QED BY <3>2, <3>3
  <2> QED BY <1>f, <2>1, <2>3, <2>4, <2>5 DEF HandingOut
<1>4. CASE ConversionThrows(t)
  <2>1. PICK bad \in NextGroups : handedOut' = bad - 1 BY <1>4 DEF ConversionThrows
  <2>2. NextGroups = handedOut + 1 .. NextHandedOut /\ NextHandedOut \in Nat
    BY <1>t, NextChunk
  <2>3. handedOut' \in Nat /\ handedOut <= handedOut' /\ groupCount # 0
    BY <1>t, <2>1, <2>2 DEF NextGroups
  <2>4. emitted' = emitted /\ madeRows' = madeRows /\ pc'[t] = "throw"
    BY <1>t, <1>4 DEF ConversionThrows, Throw, Goto
  <2>5. ~Undisturbed' BY <2>4 DEF Undisturbed
  <2>6. \A g \in AllGroups : emitted'[g] <= 1 /\ (emitted'[g] = 1 => g <= handedOut')
    BY <1>t, <2>3, <2>4 DEF HandingOut, AllGroups
  <2> QED BY <1>f, <2>3, <2>4, <2>5, <2>6 DEF HandingOut
<1>5. CASE \/ DebugFail(t) \/ FoldWhole(t) \/ LookForGroups(t) \/ ShareInputs(t) \/ ClaimBucket(t)
           \/ FoldBucket(t) \/ MergeOverflows(t) \/ MergeBucket(t) \/ WaitForGroups(t)
  <2>1. UNCHANGED <<handedOut, emitted, madeRows>>
    BY <1>5 DEF DebugFail, FoldWhole, LookForGroups, ShareInputs, ClaimBucket, FoldBucket,
                MergeOverflows, MergeBucket, WaitForGroups
  <2>2. \E label \in {"throw", "inputs", "claim", "count", "fold", "wait", "hand", "enter"} :
          pc' = [pc EXCEPT ![t] = label]
    BY <1>5 DEF DebugFail, FoldWhole, LookForGroups, ShareInputs, ClaimBucket, FoldBucket,
                MergeOverflows, MergeBucket, WaitForGroups, Goto, Throw
  <2>3. pc'[t] # "idle" BY <1>t, <2>2
  <2> QED BY <1>f, <1>u, <2>1, <2>3 DEF HandingOut
<1> QED BY <1>1, <1>2, <1>3, <1>4, <1>5 DEF GroupStep

-----------------------------------------------------------------------------
(* The inductive invariant holds in every reachable state. *)
LEMMA InitInv == Init => IInv
<1> SUFFICES ASSUME Init PROVE IInv
  OBVIOUS
<1>1. TypeOK /\ PlanInv BY InitTypeOK
<1>2. MergedBuckets = {} /\ Cardinality(MergedBuckets) = 0
  <2>1. MergedBuckets = {} BY DEF Init, MergedBuckets, NoBuckets
  <2> QED BY <2>1, FS_EmptySet
<1>3. Partition BY <1>2 DEF Init, PlanInit, Partition, Holds, NoBuckets
<1>4. HandedOver /\ GroupsAreExact
  BY DEF Init, PlanInit, HandedOver, StockLabels, GroupsAreExact
<1>5. HandingOut
  <2>1. queued > 0 BY SlicesType DEF Init, PlanInit
  <2>2. \A g \in AllGroups : emitted[g] = 0 BY DEF Init
  <2>3. \A g \in 1 .. groupCount : ~(g <= handedOut) BY DEF Init
  <2> QED BY <2>1, <2>2, <2>3 DEF Init, HandingOut
<1> QED BY <1>1, <1>3, <1>4, <1>5 DEF IInv, Exact

(* Every step preserves the invariant. *)
LEMMA StepInv == IInv /\ [Next]_vars => IInv'
<1> SUFFICES ASSUME IInv, [Next]_vars PROVE IInv'
  OBVIOUS
<1>1. TypeOK' /\ PlanInv' BY StepPlanInv DEF IInv
<1>2. ASSUME NEW t \in Threads, PlanStep(t), UNCHANGED groupVars
      PROVE  Exact' /\ HandingOut'
  <2> USE DEF groupVars, foldVars, emitVars, answerIs
  <2>1. HandedOver' /\ UNCHANGED query BY <1>2, PlanStepHandedOver DEF IInv, Exact
  <2>2. /\ \A u \in Threads : Holds(u)' => Holds(u)
        /\ \A u \in Threads : pc'[u] = "fold" => verdict'[u] # "none"
    BY <1>2, PlanStepHandedOver DEF IInv, Exact, Holds, Partition
  <2>3. Partition' BY <1>2, <2>1, <2>2, KeepsPartition DEF IInv, Exact
  <2>4. GroupsAreExact'
    BY <1>2, <2>1 DEF IInv, Exact, GroupsAreExact, EachOnce, Buckets, Slices, ParallelSource
  <2> QED BY <1>2, <2>1, <2>3, <2>4, PlanStepHandingOut DEF IInv, Exact
<1>3. ASSUME NEW t \in Threads, GroupStep(t)
      PROVE  Exact' /\ HandingOut'
  BY <1>3, GroupStepExact, GroupStepHandingOut DEF IInv, Exact
<1>4. CASE UNCHANGED vars
  <2> USE <1>4 DEF IInv, vars, planVars, threadVars, stockVars, groupVars, foldVars, emitVars, answerIs
  <2>1. Partition' /\ GroupsAreExact'
    BY DEF Exact, Partition, Holds, MergedBuckets, GroupsAreExact, EachOnce, Buckets, Slices, ParallelSource
  <2>2. HandedOver' BY DEF Exact, HandedOver
  <2>3. HandingOut' BY DEF HandingOut, Undisturbed, AllHandedOut, MakesRow
  <2> QED BY <1>1, <2>1, <2>2, <2>3 DEF Exact
<1> QED BY <1>1, <1>2, <1>3, <1>4 DEF IInv, Next, Step, Over

(* The invariant holds in every state of every execution. *)
LEMMA Invariance == Spec => []IInv
<1> QED BY InitInv, StepInv, PTL DEF Spec

-----------------------------------------------------------------------------
(* The variables of a grouped query keep their types: no bucket is claimed *)
(* beyond the partition, and no counter goes below zero.                   *)
THEOREM GroupTypeCorrect == Spec => []TypeOK
<1>1. IInv => TypeOK BY DEF IInv
<1> QED BY <1>1, Invariance, PTL

(* The groups that EmitGroups publishes merge every bucket exactly once.   *)
THEOREM PublishedGroupsAreExact == Spec => []GroupsAreExact
<1>1. IInv => GroupsAreExact BY DEF IInv, Exact
<1> QED BY <1>1, Invariance, PTL

(* No group is handed out twice, and a query that neither fails nor falls  *)
(* back ends with all of them handed out.                                  *)
THEOREM GroupsHandedOutOnce == Spec => []EveryGroupOnce
<1>1. IInv => EveryGroupOnce
  <2> SUFFICES ASSUME IInv PROVE EveryGroupOnce
    OBVIOUS
  <2> USE DEF IInv
  <2>1. (\A g \in AllGroups : emitted[g] <= 1) /\ madeRows <= 1 BY DEF HandingOut
  <2>2. ASSUME QueryOver, ~executorError, ~fellBack
        PROVE  /\ \A g \in 1 .. groupCount : emitted[g] = 1
               /\ ~query.grouped => madeRows + groupCount = 1
    <3>1. \A t \in Threads : pc[t] = "idle" BY <2>2 DEF QueryOver
    <3>2. queued = 0 BY <2>2 DEF QueryOver
    <3>3. AllHandedOut /\ Undisturbed BY <2>2, <3>1, <3>2 DEF HandingOut, Undisturbed
    <3>4. handedOut \in Nat /\ groupCount \in Nat /\ madeRows \in Nat
      BY GroupsAssumption DEF TypeOK
    <3>5. \A g \in 1 .. groupCount : emitted[g] = 1
      BY <3>3, <3>4 DEF HandingOut, AllHandedOut
    <3>6. ~query.grouped => madeRows + groupCount = 1
      BY <3>3, <3>4 DEF HandingOut, AllHandedOut, MakesRow
    <3> QED BY <3>5, <3>6
  <2> QED BY <2>1, <2>2 DEF EveryGroupOnce
<1> QED BY <1>1, Invariance, PTL

(* When the thread that drives the stock plan fails, so does the query.    *)
THEOREM DriverErrorSurfaces == Spec => []DriverErrorFailsQuery
<1>1. IInv => DriverErrorFailsQuery BY DEF IInv, Exact, HandedOver, DriverErrorFailsQuery
<1> QED BY <1>1, Invariance, PTL

-----------------------------------------------------------------------------
(* Two exceptions make the stock plan answer on top of the groups: one met *)
(* while reading the inputs that is not fatal, and one met while a chunk   *)
(* after the first is converted. Where neither can happen, none does.      *)

Tame ==
  /\ ReadErrors \subseteq {"fatal"}
  /\ \A u \in Unconvertibles : \A g \in u : \E first \in u : first <= g /\ first <= VectorSize

(* Some group of the answer cannot be converted, and the first of them is  *)
(* in the way of the next chunk.                                           *)
Unconvertible == \E g \in unconvertible : g <= groupCount
InTheWay ==
  \E g \in unconvertible : /\ g <= groupCount
                           /\ handedOut < g /\ g <= handedOut + VectorSize

(* An exception that the operator recovers from, or has recovered from.    *)
Recovering(t) == pc[t] = "throw" /\ thrown[t] # "fatal"
Thrown == fellBack \/ \E t \in Threads : Recovering(t)

(* A bucket that was claimed and that nobody holds or has merged. *)
Lost(b) ==
  /\ b \in Buckets /\ b < nextSlice /\ merged[b] = 0
  /\ \A t \in Threads : Holds(t) => slice[t] # b

Spoiled == query.debugFail \/ error \/ (\E b \in Buckets : Lost(b)) \/ Unconvertible

(* Where a thread can be, by the query's slices and what is published.     *)
Places ==
  /\ \A t \in Threads : pc[t] = "hand" => published
  /\ \A t \in Threads : pc[t] \in {"inputs", "claim", "count", "fold", "wait"} => Slices > 1
  /\ query.debugFail =>
       ~published /\ \A t \in Threads : pc[t] \notin {"inputs", "claim", "count", "fold", "wait", "hand"}

WholeMerge == published /\ Slices > 1 => ~error /\ merged = EachOnce

(* One bucket means one source task: only one thread is ever inside. *)
OneTask ==
  Slices = 1 =>
    /\ queued <= 1
    /\ queued = 1 => \A t \in Threads : pc[t] = "idle"
    /\ \A t, u \in Threads : pc[t] # "idle" /\ pc[u] # "idle" => t = u
    /\ \A t \in Threads : pc[t] = "factorized" => ~fellBack

ThrownInv ==
  /\ Thrown /\ Slices > 1 => Spoiled
  /\ Thrown /\ published => Unconvertible

AnswersInv ==
  /\ answers = 0 /\ Unconvertible => InTheWay
  /\ answers > 0 => published /\ ~Unconvertible

SourceInv == Places /\ WholeMerge /\ OneTask /\ ThrownInv /\ AnswersInv

(* What a step of the plan does to all of this. *)
LEMMA PlanStepRecovering ==
  ASSUME PlanInv, HandedOver, OneTask, NEW t \in Threads, PlanStep(t)
  PROVE  /\ Thrown' => Thrown
         /\ OneTask'
         /\ \A u \in Threads :
              pc'[u] = pc[u] \/ pc'[u] \notin {"inputs", "claim", "count", "fold", "wait", "hand"}
<1> USE DEF Goto, stockVars, HandedOver, StockLabels, Thrown, Recovering, OneTask, Slices, ParallelSource
<1>t. /\ pc \in [Threads -> Labels] /\ inTry \in [Threads -> BOOLEAN] /\ queued \in Nat
      /\ thrown \in [Threads -> ErrorKinds \cup {"none"}]
  BY DEF PlanInv, PlanTypeOK
<1>1. CASE StartSourceTask(t) BY <1>t, <1>1 DEF StartSourceTask
<1>2. CASE StopOnError(t) BY <1>t, <1>2 DEF StopOnError
<1>3. CASE TakeStockTask(t) BY <1>t, <1>3 DEF TakeStockTask
<1>4. CASE FinishStockTask(t) BY <1>t, <1>4 DEF FinishStockTask
<1>5. CASE Reenter(t) BY <1>t, <1>5 DEF Reenter
<1>6. CASE Enter(t) BY <1>t, <1>6 DEF Enter, Entry, CalledInTry
<1>7. CASE Catch(t)
  <2>1. CASE Rethrows(t) BY <1>t, <1>7, <2>1 DEF Catch, CalledInTry
  <2>2. CASE ~Rethrows(t) BY <1>t, <1>7, <2>2 DEF Catch, CalledInTry, Rethrows
  <2> QED BY <2>1, <2>2
<1>8. CASE EmitFallback(t) BY <1>t, <1>8 DEF EmitFallback, PhaseClaimed
<1>9. CASE ReadyFallback(t) BY <1>t, <1>9 DEF ReadyFallback
<1>10. CASE DriverThrows(t) BY <1>t, <1>10 DEF DriverThrows
<1>11. CASE DriverSeesError(t) BY <1>t, <1>11 DEF DriverSeesError
<1>12. CASE FinishDriving(t) BY <1>t, <1>12 DEF FinishDriving
<1>13. CASE UnwindDriver(t) BY <1>t, <1>13 DEF UnwindDriver, PhaseOnError
<1>14. CASE HelperReturns(t) BY <1>t, <1>14 DEF HelperReturns
<1>15. CASE ScanFallback(t) BY <1>t, <1>15 DEF ScanFallback
<1> QED BY <1>1, <1>2, <1>3, <1>4, <1>5, <1>6, <1>7, <1>8, <1>9, <1>10, <1>11, <1>12, <1>13,
           <1>14, <1>15 DEF PlanStep

(* The fallback's steps leave every mark of an exception. *)
LEMMA PlanStepSource ==
  ASSUME PlanInv, HandedOver, SourceInv, NEW t \in Threads, PlanStep(t), UNCHANGED groupVars
  PROVE  SourceInv'
<1> USE DEF SourceInv, groupVars, foldVars, emitVars, answerIs
<1>1. /\ UNCHANGED query
      /\ \A u \in Threads : Holds(u)' <=> Holds(u)
  <2>1. /\ UNCHANGED query
        /\ \A u \in Threads :
             pc'[u] = pc[u] \/ (u = t /\ {pc[u], pc'[u]} \cap {"count", "fold"} = {})
    BY PlanStepHandedOver
  <2>2. \A u \in Threads : Holds(u)' <=> Holds(u)
    <3> HIDE DEF SourceInv, groupVars, foldVars, emitVars, answerIs
    <3> QED BY <2>1 DEF Holds
  <2> QED BY <2>1, <2>2
<1>2. Slices' = Slices /\ Buckets' = Buckets BY <1>1 DEF Slices, ParallelSource, Buckets
<1>3. (Thrown' => Thrown) /\ OneTask' BY PlanStepRecovering
<1>4. Places'
  <2>1. \A u \in Threads :
          pc'[u] = pc[u] \/ pc'[u] \notin {"inputs", "claim", "count", "fold", "wait", "hand"}
    BY PlanStepRecovering
  <2> QED BY <1>1, <1>2, <2>1 DEF Places
<1>5. WholeMerge' BY <1>2 DEF WholeMerge, EachOnce
<1>6. (Spoiled => Spoiled') /\ Unconvertible' = Unconvertible /\ InTheWay' = InTheWay
  BY <1>1, <1>2 DEF Spoiled, Lost, Unconvertible, InTheWay
<1>7. ThrownInv' BY <1>2, <1>3, <1>6 DEF ThrownInv
<1>8. AnswersInv' BY <1>6 DEF AnswersInv
<1> QED BY <1>3, <1>4, <1>5, <1>7, <1>8

(* An exception, thrown by a thread while it leaves the merge and the      *)
(* groups alone.                                                           *)
LEMMA GroupThrows ==
  ASSUME PlanInv, NEW t \in Threads, NEW kind \in ErrorKinds, Throw(t, kind), UNCHANGED fellBack
  PROVE  /\ pc'[t] = "throw" /\ thrown'[t] = kind
         /\ \A u \in Threads \ {t} : Recovering(u)' = Recovering(u)
         /\ Thrown' => Thrown \/ kind # "fatal"
BY DEF PlanInv, PlanTypeOK, Throw, Goto, Thrown, Recovering

(* A group's step that throws nothing makes nobody recover from anything.  *)
LEMMA GroupDoesNotThrow ==
  ASSUME PlanInv, NEW t \in Threads, UNCHANGED <<fellBack, thrown>>, pc'[t] # "throw",
         \A u \in Threads \ {t} : pc'[u] = pc[u]
  PROVE  Thrown' => Thrown
BY DEF Thrown, Recovering

(* A thread that still holds a bucket keeps the groups from being          *)
(* published.                                                              *)
LEMMA HeldUnpublished ==
  ASSUME Partition, Places, WholeMerge, TypeOK, NEW t \in Threads, Holds(t)
  PROVE  ~published /\ Slices > 1
<1>1. Slices > 1 BY DEF Places, Holds
<1>2. slice[t] \in Buckets /\ merged[slice[t]] = 0 /\ slice[t] \in AllBuckets
  BY DEF Partition, TypeOK
<1> QED BY <1>1, <1>2 DEF WholeMerge, EachOnce

(* A bucket whose holder throws is lost. *)
LEMMA HolderThrows ==
  ASSUME Partition, NEW t \in Threads, Holds(t), ~Holds(t)',
         UNCHANGED <<query, slice, nextSlice, merged>>,
         \A u \in Threads \ {t} : Holds(u)' = Holds(u)
  PROVE  \E b \in Buckets' : Lost(b)'
<1>1. slice[t] \in Buckets /\ slice[t] < nextSlice /\ merged[slice[t]] = 0
  BY DEF Partition
<1>2. \A u \in Threads : Holds(u)' => slice[u] # slice[t] BY DEF Partition
<1>3. Buckets' = Buckets BY DEF Buckets, Slices, ParallelSource
<1>4. PICK b \in Buckets : b = slice[t] BY <1>1
<1>5. Lost(b)' BY <1>1, <1>2, <1>3, <1>4 DEF Lost
<1> QED BY <1>3, <1>5

(* What is spoiled stays spoiled. *)
LEMMA StaysSpoiled ==
  ASSUME TypeOK, PlanInv, Partition, NEW t \in Threads, GroupStep(t), Spoiled
  PROVE  Spoiled'
<1> USE DEF groupVars, foldVars, emitVars, answerIs
<1>t. pc \in [Threads -> Labels] BY DEF PlanInv, PlanTypeOK
<1>1. UNCHANGED <<query, groupCount, unconvertible>> /\ (error => error')
  <2>1. UNCHANGED query BY GroupStepPlanInv DEF InFactorized
  <2>2. /\ UNCHANGED <<groupCount, unconvertible>>
        /\ error' = error \/ error' = (error \/ verdict[t] = "failed")
    BY DEF GroupStep, DebugFail, FoldWhole, LookForGroups, ShareInputs, ClaimBucket, FoldBucket,
           MergeOverflows, MergeBucket, WaitForGroups, MakeRow, HandOutGroups, ConversionThrows
  <2>3. error => error' BY <2>2, Zenon
  <2> QED BY <2>1, <2>2, <2>3
<1>2. Buckets' = Buckets BY <1>1 DEF Buckets, Slices, ParallelSource
<1>3. ASSUME NEW b \in Buckets, Lost(b) PROVE Lost(b)' \/ error'
  <2>1. b \in AllBuckets /\ b < nextSlice /\ merged[b] = 0 /\ nextSlice \in Nat /\ b \in Nat
    BY <1>3, SlicesType, SizesAssumption DEF Lost, Buckets, AllBuckets, TypeOK
  <2>2. CASE ClaimBucket(t)
    <3>1. CASE Claimable
      <4>1. /\ slice' = [slice EXCEPT ![t] = nextSlice] /\ nextSlice' = nextSlice + 1
            /\ merged' = merged /\ \A u \in Threads \ {t} : pc'[u] = pc[u]
        BY <1>t, <2>2, <3>1 DEF ClaimBucket, Goto
      <4>2. \A u \in Threads : Holds(u)' => slice'[u] # b
        BY <1>3, <2>1, <4>1 DEF Lost, Holds, TypeOK
      <4> QED BY <1>2, <1>3, <2>1, <4>1, <4>2 DEF Lost
    <3>2. CASE ~Claimable
      <4>1. /\ UNCHANGED <<slice, nextSlice, merged>> /\ pc' = [pc EXCEPT ![t] = "wait"]
        BY <2>2, <3>2 DEF ClaimBucket, Goto
      <4> QED BY <1>t, <1>2, <1>3, <4>1 DEF Lost, Holds
    <3> QED BY <3>1, <3>2
  <2>3. CASE MergeBucket(t)
    <3>1. /\ pc[t] = "fold" /\ UNCHANGED <<slice, nextSlice>> /\ merged' = MergedNext(t)
          /\ pc'[t] \in {"wait", "throw"} /\ \A u \in Threads \ {t} : pc'[u] = pc[u]
      BY <1>t, <2>3 DEF MergeBucket, Goto, Throw
    <3>2. slice[t] # b BY <1>3, <3>1 DEF Lost, Holds
    <3>3. merged'[b] = 0 BY <2>1, <3>1, <3>2 DEF MergedNext, TypeOK
    <3>4. \A u \in Threads : Holds(u)' => slice'[u] # b BY <1>3, <3>1 DEF Lost, Holds
    <3> QED BY <1>2, <1>3, <3>1, <3>3, <3>4 DEF Lost
  <2>4. CASE \/ DebugFail(t) \/ FoldWhole(t) \/ LookForGroups(t) \/ ShareInputs(t) \/ FoldBucket(t)
             \/ MergeOverflows(t) \/ WaitForGroups(t) \/ MakeRow(t) \/ HandOutGroups(t)
             \/ ConversionThrows(t)
    <3>1. UNCHANGED <<slice, nextSlice, merged>>
      BY <2>4 DEF DebugFail, FoldWhole, LookForGroups, ShareInputs, FoldBucket, MergeOverflows,
                  WaitForGroups, MakeRow, HandOutGroups, ConversionThrows
    <3>2. \E label \in {"throw", "inputs", "claim", "wait", "hand", "enter", "idle"} :
            pc' = [pc EXCEPT ![t] = label] \/ (pc[t] = "count" /\ pc' = [pc EXCEPT ![t] = "fold"])
      BY <2>4 DEF DebugFail, FoldWhole, LookForGroups, ShareInputs, FoldBucket, MergeOverflows,
                  WaitForGroups, MakeRow, HandOutGroups, ConversionThrows, Goto, Throw
    <3>3. \A u \in Threads : Holds(u)' => Holds(u) BY <1>t, <3>2 DEF Holds
    <3> QED BY <1>2, <1>3, <3>1, <3>3 DEF Lost
  <2> QED BY <2>2, <2>3, <2>4 DEF GroupStep
<1> QED BY <1>1, <1>2, <1>3 DEF Spoiled, Unconvertible

(* One task stays one task: only its thread moves. *)
LEMMA GroupStepOneTask ==
  ASSUME PlanInv, OneTask, NEW t \in Threads, GroupStep(t)
  PROVE  OneTask'
<1>1. /\ InFactorized /\ pc[t] \notin {"idle"} /\ pc'[t] # "factorized"
      /\ \A u \in Threads \ {t} : pc'[u] = pc[u]
  BY GroupStepPlanInv
<1>2. UNCHANGED <<query, queued, fellBack>> BY <1>1 DEF InFactorized
<1>3. Slices' = Slices BY <1>2 DEF Slices, ParallelSource
<1> QED BY <1>1, <1>2, <1>3 DEF OneTask

(* Every step of the groups' code keeps a tame query from being answered   *)
(* by both plans.                                                          *)
LEMMA GroupStepSource ==
  ASSUME Tame, TypeOK, PlanInv, Exact, SourceInv, NEW t \in Threads, GroupStep(t)
  PROVE  SourceInv'
<1> USE DEF SourceInv, groupVars, foldVars, emitVars, answerIs
<1>t. /\ pc \in [Threads -> Labels] /\ handedOut \in Nat /\ groupCount \in Nat /\ answers \in Nat
      /\ verdict[t] \in {"none", "ok", "failed"} /\ error \in BOOLEAN /\ published \in BOOLEAN
      /\ VectorSize \in Nat \ {0} /\ unconvertible \subseteq Nat
  BY GroupsAssumption DEF PlanInv, PlanTypeOK, TypeOK, AllGroups
<1>f. /\ UNCHANGED <<query, fellBack>>
      /\ \A u \in Threads \ {t} : pc'[u] = pc[u]
  BY GroupStepPlanInv DEF InFactorized
<1>s. Slices' = Slices /\ Buckets' = Buckets /\ EachOnce' = EachOnce
  BY <1>f DEF Slices, ParallelSource, Buckets, EachOnce
<1>o. OneTask' BY GroupStepOneTask
<1>p. Spoiled => Spoiled' BY StaysSpoiled DEF Exact
<1>a. UNCHANGED <<groupCount, unconvertible>>
  BY DEF GroupStep, DebugFail, FoldWhole, LookForGroups, ShareInputs, ClaimBucket, FoldBucket,
         MergeOverflows, MergeBucket, WaitForGroups, MakeRow, HandOutGroups, ConversionThrows
<1>v. Unconvertible' = Unconvertible BY <1>a DEF Unconvertible
<1>1. CASE DebugFail(t)
  <2>1. query.debugFail /\ UNCHANGED groupVars /\ pc'[t] = "throw" /\ ~published
    BY <1>t, <1>1 DEF DebugFail, Throw, Goto, Places
  <2>2. Places' /\ WholeMerge' BY <1>f, <1>s, <2>1 DEF Places, WholeMerge
  <2>3. ThrownInv' BY <1>f, <2>1 DEF ThrownInv, Spoiled
  <2>4. AnswersInv' BY <2>1, <1>v DEF AnswersInv, InTheWay
  <2> QED BY <1>o, <2>2, <2>3, <2>4
<1>2. CASE FoldWhole(t)
  <2>1. /\ Slices = 1 /\ ~query.debugFail /\ pc[t] = "factorized"
        /\ UNCHANGED <<handedOut, answers, error, merged>>
    BY <1>2 DEF FoldWhole
  <2>g. published' = published \/ published' = TRUE BY <1>2 DEF FoldWhole
  <2>2. AnswersInv'
    <3>1. published => published' BY <2>g
    <3>2. InTheWay' <=> InTheWay BY <1>a, <2>1 DEF InTheWay
    <3>3. (answers' = 0 <=> answers = 0) /\ (answers' > 0 <=> answers > 0) BY <2>1
    <3> QED BY <1>v, <3>1, <3>2, <3>3 DEF AnswersInv
  <2>3. WholeMerge' BY <1>s, <2>1 DEF WholeMerge
  <2>4. ~fellBack /\ \A u \in Threads : ~Recovering(u)
    BY <2>1 DEF OneTask, Recovering
  <2>5. CASE pc'[t] = "hand" /\ published' /\ thrown' = thrown
    <3>1. ~Thrown' BY <1>f, <2>4, <2>5 DEF Thrown, Recovering
    <3>2. Places' BY <1>f, <1>s, <2>1, <2>5 DEF Places
    <3> QED BY <1>o, <2>2, <2>3, <3>1, <3>2 DEF ThrownInv
  <2>6. CASE pc'[t] = "throw" /\ ~published /\ published' = published
    <3>1. Places' BY <1>f, <1>s, <2>1, <2>6 DEF Places
    <3>2. ThrownInv' BY <1>s, <2>1, <2>6 DEF ThrownInv
    <3> QED BY <1>o, <2>2, <2>3, <3>1, <3>2
  <2> QED BY <1>t, <1>2, <2>5, <2>6 DEF FoldWhole, Goto, Throw
<1>3. CASE \/ LookForGroups(t) \/ WaitForGroups(t)
           \/ (ShareInputs(t) /\ thrown' = thrown /\ pc'[t] = "claim")
           \/ ClaimBucket(t)
  <2>1. /\ UNCHANGED <<thrown, handedOut, answers, error, merged, published>>
        /\ pc'[t] \in {"hand", "inputs", "enter", "claim", "count", "wait"}
        /\ pc'[t] = "hand" => published
        /\ pc[t] \in {"factorized", "wait", "inputs", "claim"}
        /\ pc[t] = "factorized" => Slices > 1 /\ ~query.debugFail
    BY <1>t, <1>3 DEF LookForGroups, WaitForGroups, ShareInputs, ClaimBucket, Goto
  <2>2. Slices > 1 /\ ~query.debugFail BY <2>1 DEF Places
  <2>3. Places' BY <1>f, <1>s, <2>1, <2>2 DEF Places
  <2>4. WholeMerge' BY <1>s, <2>1 DEF WholeMerge
  <2>5. Thrown' => Thrown BY <1>f, <2>1, GroupDoesNotThrow
  <2>6. ThrownInv' BY <1>p, <1>s, <1>v, <2>1, <2>5 DEF ThrownInv
  <2>7. AnswersInv' BY <1>a, <1>v, <2>1 DEF AnswersInv, InTheWay
  <2> QED BY <1>o, <2>3, <2>4, <2>6, <2>7
<1>4. CASE ShareInputs(t) /\ ~(thrown' = thrown /\ pc'[t] = "claim")
  <2>1. /\ Throw(t, "fatal") /\ UNCHANGED <<handedOut, answers, error, merged, published>>
        /\ pc[t] = "inputs"
    BY <1>t, <1>4 DEF ShareInputs, Goto, Tame
  <2>2. pc'[t] = "throw" /\ (Thrown' => Thrown) BY <1>f, <2>1, GroupThrows DEF ErrorKinds
  <2>3. Slices > 1 /\ ~query.debugFail BY <2>1 DEF Places
  <2>4. Places' BY <1>f, <1>s, <2>1, <2>2, <2>3 DEF Places
  <2>5. WholeMerge' BY <1>s, <2>1 DEF WholeMerge
  <2>6. ThrownInv' BY <1>p, <1>s, <1>v, <2>1, <2>2 DEF ThrownInv
  <2>7. AnswersInv' BY <1>a, <1>v, <2>1 DEF AnswersInv, InTheWay
  <2> QED BY <1>o, <2>4, <2>5, <2>6, <2>7
<1>5. CASE FoldBucket(t) \/ MergeOverflows(t)
  <2>1. /\ UNCHANGED <<nextSlice, slice, handedOut, answers, error, merged, published>> /\ Holds(t)
        /\ \/ pc'[t] = "fold" /\ thrown' = thrown
           \/ pc'[t] = "throw"
    BY <1>t, <1>5 DEF FoldBucket, MergeOverflows, Goto, Throw, Holds
  <2>2. ~published /\ Slices > 1 BY <2>1, HeldUnpublished DEF Exact
  <2>3. ~query.debugFail BY <2>1 DEF Places, Holds
  <2>4. Places' /\ WholeMerge' BY <1>f, <1>s, <2>1, <2>2, <2>3 DEF Places, WholeMerge
  <2>5. AnswersInv' BY <1>a, <1>v, <2>1 DEF AnswersInv, InTheWay
  <2>6. Thrown' => Spoiled'
    <3>1. CASE pc'[t] = "fold" /\ thrown' = thrown
      BY <1>f, <1>p, <2>2, <3>1, GroupDoesNotThrow DEF ThrownInv
    <3>2. CASE pc'[t] = "throw"
      <4>1. ~Holds(t)' /\ \A u \in Threads \ {t} : Holds(u)' = Holds(u)
        BY <1>f, <3>2 DEF Holds
      <4>2. \E b \in Buckets' : Lost(b)'
        BY <1>f, <2>1, <4>1, HolderThrows DEF Exact
      <4> QED BY <4>2, Zenon DEF Spoiled
    <3> QED BY <2>1, <3>1, <3>2, Zenon
  <2>7. ThrownInv' BY <2>1, <2>2, <2>6 DEF ThrownInv
  <2> QED BY <1>o, <2>4, <2>5, <2>7
<1>6. CASE MergeBucket(t)
  <2>1. /\ UNCHANGED <<nextSlice, slice, handedOut, answers>> /\ Holds(t)
        /\ error' = (error \/ verdict[t] = "failed") /\ pc'[t] \in {"wait", "throw"}
        /\ \/ published' = published
           \/ published' /\ ~error' /\ groups' = merged'
        /\ \/ thrown' = thrown /\ pc'[t] = "wait"
           \/ error' /\ pc'[t] = "throw" /\ published' = published
    BY <1>t, <1>6 DEF MergeBucket, Goto, Throw, Holds
  <2>2. ~published /\ Slices > 1 BY <2>1, HeldUnpublished DEF Exact
  <2>3. ~query.debugFail BY <2>1 DEF Places, Holds
  <2>4. Places' BY <1>f, <1>s, <2>1, <2>2, <2>3 DEF Places
  <2>5. GroupsAreExact' /\ Partition' BY <1>6, MergeExact DEF Exact
  <2>6. published' => ~error' /\ merged' = EachOnce
    BY <1>s, <2>1, <2>2, <2>5 DEF GroupsAreExact
  <2>7. WholeMerge' BY <1>s, <2>6 DEF WholeMerge
  <2>8. Thrown' => Spoiled'
    <3>1. CASE thrown' = thrown /\ pc'[t] = "wait"
      BY <1>f, <1>p, <2>2, <3>1, GroupDoesNotThrow DEF ThrownInv
    <3>2. CASE error' BY <3>2, Zenon DEF Spoiled
    <3> QED BY <2>1, <3>1, <3>2, Zenon
  <2>9. published' /\ Spoiled' => Unconvertible'
    <3> SUFFICES ASSUME published', NEW b \in Buckets, Lost(b)' PROVE FALSE
      BY <1>f, <1>s, <2>3, <2>6 DEF Spoiled
    <3>1. b \in AllBuckets BY SlicesType, SizesAssumption DEF Buckets, AllBuckets
    <3>2. merged'[b] = 1 BY <2>6, <3>1 DEF EachOnce
    <3> QED BY <3>2 DEF Lost
  <2>10. ThrownInv' BY <2>8, <2>9 DEF ThrownInv
  <2>11. AnswersInv' BY <1>a, <1>t, <1>v, <2>1, <2>2 DEF AnswersInv, InTheWay
  <2> QED BY <1>o, <2>4, <2>7, <2>10, <2>11
<1>7. CASE MakeRow(t)
  <2>1. /\ UNCHANGED <<thrown, error, merged, published>> /\ pc[t] = "hand" /\ pc'[t] = "enter"
        /\ groupCount = 0
    BY <1>t, <1>7 DEF MakeRow, MakesRow, Goto
  <2>2. published BY <2>1 DEF Places
  <2>3. ~Unconvertible /\ ~Unconvertible'
    <3>1. \A g \in unconvertible : g \in Nat /\ g >= 1
      BY GroupsAssumption DEF TypeOK, AllGroups
    <3> QED BY <1>v, <2>1, <3>1 DEF Unconvertible
  <2>4. Places' /\ WholeMerge' BY <1>f, <1>s, <2>1, <2>2 DEF Places, WholeMerge
  <2>5. Thrown' => Thrown BY <1>f, <2>1, GroupDoesNotThrow
  <2>6. ThrownInv' BY <1>p, <1>s, <1>v, <2>1, <2>5 DEF ThrownInv
  <2>7. AnswersInv' BY <2>1, <2>2, <2>3 DEF AnswersInv
  <2> QED BY <1>o, <2>4, <2>6, <2>7
<1>8. CASE HandOutGroups(t)
  <2>1. /\ UNCHANGED <<thrown, error, merged, published>> /\ pc[t] = "hand"
        /\ pc'[t] \in {"enter", "idle"} /\ NextGroups \cap unconvertible = {}
        /\ \/ UNCHANGED <<handedOut, answers>>
           \/ answers' = answers + 1
    BY <1>t, <1>8 DEF HandOutGroups, Goto
  <2>2. published BY <2>1 DEF Places
  <2>3. Places' /\ WholeMerge' BY <1>f, <1>s, <2>1, <2>2 DEF Places, WholeMerge
  <2>4. Thrown' => Thrown BY <1>f, <2>1, GroupDoesNotThrow
  <2>5. ThrownInv' BY <1>p, <1>s, <1>v, <2>1, <2>4 DEF ThrownInv
  <2>6. ~InTheWay
    <3>1. \A g \in unconvertible : g \in Nat /\ g >= 1
      BY GroupsAssumption DEF TypeOK, AllGroups
    <3> SUFFICES ASSUME NEW g \in unconvertible, g <= groupCount,
                        handedOut < g, g <= handedOut + VectorSize
                 PROVE  FALSE
      BY DEF InTheWay
    <3>2. g \in 1 .. groupCount BY <1>t, <3>1
    <3>3. g \in NextGroups BY <3>2 DEF NextGroups
    <3> QED BY <2>1, <3>3
  <2>7. ~Unconvertible BY <1>t, <2>6 DEF AnswersInv
  <2>8. AnswersInv' BY <1>t, <1>v, <2>1, <2>2, <2>7 DEF AnswersInv
  <2> QED BY <1>o, <2>3, <2>5, <2>8
<1>9. CASE ConversionThrows(t)
  <2>1. /\ UNCHANGED <<error, merged, published, answers>> /\ pc[t] = "hand" /\ pc'[t] = "throw"
    BY <1>t, <1>9 DEF ConversionThrows, Throw, Goto
  <2>2. PICK bad \in NextGroups \cap unconvertible : handedOut' = bad - 1
    BY <1>9 DEF ConversionThrows
  <2>3. bad \in Nat /\ bad <= groupCount BY <1>t, <2>2 DEF NextGroups
  <2>4. Unconvertible /\ Unconvertible' BY <1>v, <2>2, <2>3 DEF Unconvertible
  <2>5. InTheWay' BY <1>a, <1>t, <2>2, <2>3 DEF InTheWay
  <2>6. published BY <2>1 DEF Places
  <2>7. Places' /\ WholeMerge' BY <1>f, <1>s, <2>1, <2>6 DEF Places, WholeMerge
  <2>8. ThrownInv' BY <2>4 DEF ThrownInv, Spoiled
  <2>9. AnswersInv' BY <2>1, <2>4, <2>5 DEF AnswersInv
  <2> QED BY <1>o, <2>7, <2>8, <2>9
<1> QED BY <1>1, <1>2, <1>3, <1>4, <1>5, <1>6, <1>7, <1>8, <1>9 DEF GroupStep

(* A query starts with nothing handed out, published or thrown. *)
LEMMA SourceInit ==
  ASSUME Tame, Init
  PROVE  SourceInv
<1> USE DEF Init, PlanInit
<1>1. Slices \in Nat /\ Slices >= 1 BY SlicesType
<1>2. \A t \in Threads : pc[t] = "idle" OBVIOUS
<1>3. Places /\ WholeMerge BY <1>2 DEF Places, WholeMerge
<1>4. OneTask BY <1>1, <1>2 DEF OneTask
<1>5. ~Thrown BY <1>2 DEF Thrown, Recovering
<1>6. Unconvertible => InTheWay
  <2> SUFFICES ASSUME NEW g \in unconvertible, g <= groupCount PROVE InTheWay
    BY DEF Unconvertible
  <2>1. PICK first \in unconvertible : first <= g /\ first <= VectorSize
    BY DEF Tame
  <2>2. /\ g \in Nat /\ first \in Nat /\ first >= 1 /\ groupCount \in Nat /\ handedOut = 0
        /\ VectorSize \in Nat
    BY GroupsAssumption
  <2> QED BY <2>1, <2>2 DEF InTheWay
<1>7. AnswersInv BY <1>6 DEF AnswersInv
<1> QED BY <1>3, <1>4, <1>5, <1>7 DEF SourceInv, ThrownInv

(* So does every step, under Tame. *)
LEMMA SourceStep ==
  ASSUME Tame, IInv, SourceInv, [Next]_vars
  PROVE  SourceInv'
<1> USE DEF IInv
<1>1. ASSUME NEW t \in Threads, PlanStep(t), UNCHANGED groupVars PROVE SourceInv'
  BY <1>1, PlanStepSource DEF Exact
<1>2. ASSUME NEW t \in Threads, GroupStep(t) PROVE SourceInv'
  BY <1>2, GroupStepSource
<1>3. CASE UNCHANGED vars
  <2> USE DEF vars, planVars, threadVars, stockVars, groupVars, foldVars, emitVars, answerIs
  <2>1. Slices' = Slices /\ Buckets' = Buckets
    BY <1>3 DEF Slices, ParallelSource, Buckets
  <2>2. Places' /\ WholeMerge' /\ OneTask'
    BY <1>3, <2>1 DEF SourceInv, Places, WholeMerge, EachOnce, OneTask
  <2>3. /\ Thrown' <=> Thrown
        /\ Unconvertible' <=> Unconvertible
        /\ InTheWay' <=> InTheWay
    BY <1>3 DEF Thrown, Recovering, Unconvertible, InTheWay
  <2>4. \A b : Lost(b)' <=> Lost(b) BY <1>3, <2>1 DEF Lost, Holds
  <2>5. Spoiled' <=> Spoiled BY <1>3, <2>1, <2>3, <2>4 DEF Spoiled
  <2> QED BY <1>3, <2>1, <2>2, <2>3, <2>5 DEF SourceInv, ThrownInv, AnswersInv
<1> QED BY <1>1, <1>2, <1>3 DEF Next, Step, Over

(* Where nothing but an allocation fails while the inputs are read, and a  *)
(* group that cannot be converted is in the way of the first chunk, no     *)
(* query that succeeds is answered by both plans: the two exceptions that  *)
(* the runs find are the only ones that get past fallback_result.          *)
THEOREM OneSourceWhenTame == Tame => (Spec => []OneSource)
<1> SUFFICES ASSUME Tame PROVE Spec => []OneSource
  OBVIOUS
<1>1. Init => IInv /\ SourceInv BY InitInv, SourceInit
<1>2. (IInv /\ SourceInv) /\ [Next]_vars => (IInv /\ SourceInv)'
  BY StepInv, SourceStep
<1>3. IInv /\ SourceInv => OneSource
  <2> SUFFICES ASSUME IInv, SourceInv, ~executorError, answers # 0, scanned # 0 PROVE FALSE
    BY DEF OneSource
  <2>1. answers \in Nat BY DEF IInv, TypeOK
  <2>2. scanned \in Nat /\ fellBack
    BY DEF IInv, PlanInv, PlanTypeOK, Exact, HandedOver
  <2>3. published /\ ~Unconvertible BY <2>1 DEF SourceInv, AnswersInv
  <2> QED BY <2>2, <2>3 DEF SourceInv, ThrownInv, Thrown
<1> QED BY <1>1, <1>2, <1>3, PTL DEF Spec
-----------------------------------------------------------------------------
(* Under the same assumption a grouped query implements QueryAnswer. Every *)
(* chunk but the last is full, so that as many are handed out as there are *)
(* in the answer; a query that has neither failed nor fallen back has a    *)
(* task left, or its groups are published and handed out.                  *)

Chunked ==
  ~Unconvertible =>
    /\ groupCount = 0 => answers = handedOut /\ (query.grouped => answers = 0)
    /\ groupCount > 0 =>
         /\ handedOut = IF VectorSize * answers <= groupCount
                        THEN VectorSize * answers ELSE groupCount
         /\ answers > 0 => VectorSize * (answers - 1) < groupCount

GroupsAnswer ==
  /\ phase # "NONE" => fellBack
  /\ ~fellBack /\ ~executorError =>
       queued > 0 \/ (\E t \in Threads : pc[t] # "idle") \/ published
  /\ Chunked

DeliveryInv == IInv /\ SourceInv /\ StockBound /\ StockAnswers /\ GroupsAnswer

(* The chunks of an answer, all but the last of which are full. *)
LEMMA FullChunks ==
  ASSUME NEW n \in Nat, NEW size \in Nat \ {0}, NEW made \in Nat
  PROVE  LET all == (n + size - 1) \div size
         IN  /\ all \in Nat
             /\ size * made < n => made < all
             /\ size * made >= n /\ (made > 0 => size * (made - 1) < n) => made = all
<1> DEFINE total == n + size - 1
           all == total \div size
           rest == total % size
<1>1. total \in Nat OBVIOUS
<1>2. all \in Int /\ rest \in 0 .. size - 1 /\ total = size * all + rest
  <2> HIDE DEF total
  <2> QED BY <1>1, DivMod
<1>3. total = n + size - 1 OBVIOUS
<1> HIDE DEF total, all, rest
<1>4. size * all >= n /\ size * (all - 1) < n
  <2>1. size * (all - 1) = size * all - size BY <1>2
  <2>2. size * all \in Int BY <1>2
  <2> QED BY <1>2, <1>3, <2>1, <2>2
<1>5. all \in Nat
  <2> SUFFICES ASSUME all <= -1 PROVE FALSE BY <1>2
  <2>1. size * all <= size * (-1) BY <1>2, ProductMonotonic
  <2>2. size * (-1) < 0 OBVIOUS
  <2> QED BY <1>2, <1>4, <2>1, <2>2
<1>6. size * made < n => made < all
  <2> SUFFICES ASSUME size * made < n, all <= made PROVE FALSE BY <1>5
  <2>1. size * all <= size * made BY <1>5, ProductMonotonic
  <2>2. size * all \in Int /\ size * made \in Int BY <1>5
  <2> QED BY <1>4, <2>1, <2>2
<1>7. size * made >= n /\ (made > 0 => size * (made - 1) < n) => made = all
  <2> SUFFICES ASSUME size * made >= n, made > 0 => size * (made - 1) < n PROVE made = all
    OBVIOUS
  <2>1. ~(made <= all - 1)
    <3> SUFFICES ASSUME made <= all - 1 PROVE FALSE OBVIOUS
    <3>1. size * made <= size * (all - 1) BY <1>5, ProductMonotonic
    <3>2. size * (all - 1) \in Int /\ size * made \in Int BY <1>5
    <3> QED BY <1>4, <3>1, <3>2
  <2>2. ~(all <= made - 1)
    <3> SUFFICES ASSUME all <= made - 1 PROVE FALSE OBVIOUS
    <3>1. made > 0 BY <1>5
    <3>2. size * all <= size * (made - 1) BY <1>5, ProductMonotonic
    <3>3. size * all \in Int /\ size * (made - 1) \in Int BY <1>5
    <3> QED BY <1>4, <3>1, <3>2, <3>3
  <2> QED BY <1>5, <2>1, <2>2
<1> QED BY <1>5, <1>6, <1>7 DEF all, total

(* A query starts with nothing published and all its tasks queued. *)
LEMMA DeliveryInit == ASSUME Tame, Init PROVE DeliveryInv
<1>1. IInv /\ SourceInv BY InitInv, SourceInit
<1>2. StockBound /\ StockAnswers BY StockBoundInit DEF Init
<1>3. GroupsAnswer
  <2>1. queued > 0 BY SlicesType DEF Init, PlanInit
  <2>2. VectorSize * 0 = 0 /\ groupCount \in Nat BY GroupsAssumption DEF Init
  <2>3. Chunked BY <2>2 DEF Init, Chunked
  <2> QED BY <2>1, <2>3 DEF Init, PlanInit, GroupsAnswer
<1> QED BY <1>1, <1>2, <1>3 DEF DeliveryInv

(* Chunks go out only from the list, and in order. *)
LEMMA GroupStepChunked ==
  ASSUME TypeOK, PlanInv, HandingOut, Chunked, NEW t \in Threads, GroupStep(t)
  PROVE  Chunked'
<1> USE DEF groupVars, foldVars, emitVars, answerIs
<1>t. /\ handedOut \in Nat /\ groupCount \in 0 .. MaxGroups /\ answers \in Nat
      /\ MaxGroups \in Nat /\ VectorSize \in Nat \ {0} /\ groupCount \in Nat
      /\ unconvertible \subseteq AllGroups
  BY GroupsAssumption DEF TypeOK
<1>u. UNCHANGED <<groupCount, unconvertible, query>>
  BY DEF GroupStep, DebugFail, FoldWhole, LookForGroups, ShareInputs, ClaimBucket, FoldBucket,
         MergeOverflows, MergeBucket, WaitForGroups, MakeRow, HandOutGroups, ConversionThrows,
         InFactorized
<1>v. Unconvertible' <=> Unconvertible BY <1>u DEF Unconvertible
<1> SUFFICES ASSUME ~Unconvertible PROVE Chunked'
  BY <1>v DEF Chunked
<1>1. CASE MakeRow(t)
  <2>1. /\ groupCount = 0 /\ ~query.grouped /\ handedOut = 0
        /\ handedOut' = 1 /\ answers' = answers + 1
    BY <1>1 DEF MakeRow, MakesRow
  <2> QED BY <1>t, <1>u, <2>1 DEF Chunked
<1>2. CASE HandOutGroups(t) /\ NextGroups = {}
  <2>1. UNCHANGED <<handedOut, answers>> BY <1>2 DEF HandOutGroups
  <2> QED BY <1>u, <2>1 DEF Chunked
<1>3. CASE HandOutGroups(t) /\ NextGroups # {}
  <2>1. handedOut' = NextHandedOut /\ answers' = answers + 1 BY <1>3 DEF HandOutGroups
  <2>2. /\ NextHandedOut \in {groupCount, handedOut + VectorSize} /\ handedOut < groupCount
        /\ NextHandedOut <= handedOut + VectorSize /\ NextHandedOut <= groupCount
    BY <1>t, <1>3, NextChunk
  <2>3. VectorSize * answers \in Nat
        /\ VectorSize * (answers + 1) = VectorSize * answers + VectorSize
    BY <1>t
  <2>4. handedOut = VectorSize * answers /\ VectorSize * answers < groupCount
    BY <1>t, <2>2, <2>3 DEF Chunked
  <2>5. handedOut' = IF VectorSize * answers' <= groupCount THEN VectorSize * answers' ELSE groupCount
    BY <1>t, <2>1, <2>2, <2>3, <2>4
  <2>6. answers' - 1 = answers BY <1>t, <2>1
  <2>7. groupCount > 0 BY <1>t, <2>2
  <2> QED BY <1>u, <2>4, <2>5, <2>6, <2>7 DEF Chunked
<1>4. CASE ConversionThrows(t)
  <2>1. PICK bad \in NextGroups \cap unconvertible : TRUE BY <1>4 DEF ConversionThrows
  <2>2. bad <= groupCount BY <1>t, <2>1 DEF NextGroups
  <2> QED BY <2>1, <2>2 DEF Unconvertible
<1>5. CASE \/ DebugFail(t) \/ FoldWhole(t) \/ LookForGroups(t) \/ ShareInputs(t) \/ ClaimBucket(t)
           \/ FoldBucket(t) \/ MergeOverflows(t) \/ MergeBucket(t) \/ WaitForGroups(t)
  <2>1. UNCHANGED <<handedOut, answers>>
    BY <1>5 DEF DebugFail, FoldWhole, LookForGroups, ShareInputs, ClaimBucket, FoldBucket,
                MergeOverflows, MergeBucket, WaitForGroups
  <2> QED BY <1>u, <2>1 DEF Chunked
<1> QED BY <1>1, <1>2, <1>3, <1>4, <1>5 DEF GroupStep

(* Nobody leaves the groups' code for good before they are published. *)
LEMMA GroupStepAnswers ==
  ASSUME IInv, SourceInv, StockBound, StockAnswers, GroupsAnswer,
         NEW t \in Threads, GroupStep(t)
  PROVE  StockBound' /\ StockAnswers' /\ GroupsAnswer'
<1> USE DEF InFactorized, stockVars
<1>t. /\ TypeOK /\ PlanInv /\ HandingOut /\ PlanTypeOK /\ pc \in [Threads -> Labels]
      /\ published \in BOOLEAN
  BY DEF IInv, TypeOK, PlanTypeOK
<1>1. /\ UNCHANGED <<query, queued, fellBack, executorError, inTry, working, phase,
                     stockQueued, collected, scanReady, scanned>>
      /\ pc[t] \in {"factorized", "inputs", "claim", "count", "fold", "wait", "hand"}
      /\ pc'[t] \in {"throw", "inputs", "claim", "count", "fold", "wait", "hand", "enter", "idle"}
      /\ \A u \in Threads \ {t} : pc'[u] = pc[u]
  BY <1>t, GroupStepPlanInv
<1>2. \A u \in Threads \ {t} : thrown'[u] = thrown[u]
  <2>1. \/ thrown' = thrown
        \/ \E kind \in ErrorKinds : thrown' = [thrown EXCEPT ![t] = kind]
    BY ReadAssumption
       DEF GroupStep, DebugFail, FoldWhole, LookForGroups, ShareInputs, ClaimBucket, FoldBucket,
         MergeOverflows, MergeBucket, WaitForGroups, MakeRow, HandOutGroups, ConversionThrows,
         ErrorKinds, Throw, groupVars
  <2> QED BY <1>t, <2>1 DEF PlanTypeOK
<1>3. StockBound' BY <1>1, StockBoundKept
<1>4. StockAnswers' BY <1>1, <1>2, StockAnswersKept DEF ScanLabels
<1>5. pc'[t] # "idle" \/ published'
  <2>1. CASE HandOutGroups(t)
    <3>1. published BY <2>1 DEF HandOutGroups, SourceInv, Places
    <3> QED BY <2>1, <3>1 DEF HandOutGroups, foldVars
  <2>2. CASE ~HandOutGroups(t)
    <3>1. \E label \in {"throw", "inputs", "claim", "count", "fold", "wait", "hand", "enter"} :
            pc' = [pc EXCEPT ![t] = label]
      BY <2>2 DEF GroupStep, DebugFail, FoldWhole, LookForGroups, ShareInputs, ClaimBucket,
         FoldBucket, MergeOverflows, MergeBucket, WaitForGroups, MakeRow, ConversionThrows,
         Goto, Throw
    <3> QED BY <1>t, <3>1
  <2> QED BY <2>1, <2>2
<1>6. Chunked' BY <1>t, GroupStepChunked DEF GroupsAnswer
<1> QED BY <1>1, <1>3, <1>4, <1>5, <1>6 DEF GroupsAnswer

(* The handlers around the groups hand none out; a fall-back is marked.    *)
LEMMA PlanStepDelivers ==
  ASSUME IInv, StockBound, StockAnswers, GroupsAnswer,
         NEW t \in Threads, PlanStep(t), UNCHANGED groupVars
  PROVE  StockBound' /\ StockAnswers' /\ GroupsAnswer'
<1> USE DEF groupVars, foldVars, emitVars, answerIs
<1>1. PlanInv /\ HandedOver /\ (\A u \in Threads : ~inTry[u]) /\ pc \in [Threads -> Labels]
  BY DEF IInv, Exact, HandedOver, PlanInv, PlanTypeOK
<1>2. StockBound' /\ StockAnswers'
  BY <1>1, PlanStepBound, PlanStepAnswers DEF GroupsAnswer
<1>3. /\ UNCHANGED query /\ (executorError => executorError') /\ (fellBack => fellBack')
      /\ ~executorError' /\ ~fellBack' =>
           pc'[t] # "idle" \/ (queued' = queued /\ pc'[t] = pc[t])
      /\ \A u \in Threads \ {t} : pc'[u] = pc[u]
  BY <1>1, PlanStepHandedOver
<1>4. phase' # "NONE" => fellBack'
  <2>1. phase' = phase \/ pc[t] \in StockLabels
    BY DEF PlanStep, StartSourceTask, StopOnError, TakeStockTask, FinishStockTask, Reenter, Enter,
       Catch, EmitFallback, ReadyFallback, DriverThrows, DriverSeesError, FinishDriving,
       UnwindDriver, HelperReturns, ScanFallback, stockVars, StockLabels
  <2> QED BY <1>1, <1>3, <2>1 DEF GroupsAnswer, HandedOver
<1>5. Chunked' BY <1>3 DEF GroupsAnswer, Chunked, Unconvertible
<1>6. ~fellBack' /\ ~executorError' =>
        queued' > 0 \/ (\E u \in Threads : pc'[u] # "idle") \/ published'
  <2> SUFFICES ASSUME ~fellBack', ~executorError', pc'[t] = "idle"
               PROVE  queued' > 0 \/ (\E u \in Threads : pc'[u] # "idle") \/ published'
    OBVIOUS
  <2>1. queued' = queued /\ \A u \in Threads : pc'[u] = pc[u] BY <1>3
  <2> QED BY <1>3, <2>1 DEF GroupsAnswer
<1> QED BY <1>2, <1>4, <1>5, <1>6 DEF GroupsAnswer

(* DeliveryInv is inductive. *)
LEMMA DeliveryStep ==
  ASSUME Tame, DeliveryInv, [Next]_vars
  PROVE  DeliveryInv'
<1> USE DEF DeliveryInv
<1>1. IInv' /\ SourceInv' BY StepInv, SourceStep
<1>2. ASSUME NEW t \in Threads, PlanStep(t), UNCHANGED groupVars
      PROVE  StockBound' /\ StockAnswers' /\ GroupsAnswer'
  BY <1>2, PlanStepDelivers
<1>3. ASSUME NEW t \in Threads, GroupStep(t)
      PROVE  StockBound' /\ StockAnswers' /\ GroupsAnswer'
  BY <1>3, GroupStepAnswers
<1>4. CASE UNCHANGED vars
  <2> USE <1>4 DEF vars, planVars, threadVars, stockVars, groupVars, foldVars, emitVars, answerIs
  <2>1. StockBound' BY StockBoundKept
  <2>2. StockAnswers' BY DEF StockAnswers
  <2>3. GroupsAnswer' BY DEF GroupsAnswer, Chunked, Unconvertible
  <2> QED BY <1>1, <2>1, <2>2, <2>3
<1> QED BY <1>1, <1>2, <1>3, <1>4 DEF Next, Step, Over

(* A query that ends without an error has given its whole answer, by one   *)
(* plan, and leaves no task of the other.                                  *)
AnsweredInFull ==
  /\ stockQueued = 0
  /\ Source # "none"
  /\ Chunks = IF Source = "factorized" THEN ChunksOfGroups ELSE StockTasks

(* A query that has handed out groups does not fall back. *)
LEMMA OneSourceOnly == DeliveryInv => answers = 0 \/ ~fellBack
<1> SUFFICES ASSUME DeliveryInv PROVE answers = 0 \/ ~fellBack
  OBVIOUS
<1>1. answers \in Nat BY DEF DeliveryInv, IInv, TypeOK
<1> QED BY <1>1 DEF DeliveryInv, SourceInv, AnswersInv, ThrownInv, Thrown

(* A query that ends without an error is answered. *)
LEMMA EndsAnswered == DeliveryInv /\ QueryOver /\ ~executorError => AnsweredInFull
<1> SUFFICES ASSUME DeliveryInv, QueryOver, ~executorError PROVE AnsweredInFull
  OBVIOUS
<1>1. /\ queued = 0 /\ \A t \in Threads : pc[t] = "idle"
  BY DEF QueryOver
<1>2. /\ answers \in Nat /\ handedOut \in Nat /\ groupCount \in Nat
      /\ VectorSize \in Nat \ {0}
  BY GroupsAssumption DEF DeliveryInv, IInv, TypeOK
<1>3. /\ stockQueued = 0
      /\ IF fellBack THEN scanReady /\ scanned = StockTasks ELSE ~scanReady
  BY StockDelivered DEF DeliveryInv, IInv, GroupsAnswer
<1>4. CASE fellBack
  <2>1. StockAnswering BY <1>3, <1>4, OneSourceOnly DEF StockAnswering
  <2> QED BY <1>3, <1>4, <2>1 DEF AnsweredInFull, Source, Chunks
<1>5. CASE ~fellBack
  <2>1. Source = "factorized" /\ Chunks = answers
    <3>1. published BY <1>1, <1>5 DEF DeliveryInv, GroupsAnswer
    <3> QED BY <1>3, <1>5, <3>1 DEF Source, Chunks, StockAnswering
  <2>2. groupCount <= handedOut /\ ~MakesRow
    BY <1>1, <1>5 DEF DeliveryInv, IInv, HandingOut, AllHandedOut
  <2>3. ~Unconvertible
    <3> SUFFICES ASSUME Unconvertible PROVE FALSE
      OBVIOUS
    <3>1. ~(answers > 0) BY DEF DeliveryInv, SourceInv, AnswersInv
    <3>2. InTheWay BY <1>2, <3>1 DEF DeliveryInv, SourceInv, AnswersInv
    <3>3. PICK g \in unconvertible : g <= groupCount /\ handedOut < g BY <3>2 DEF InTheWay
    <3>4. g \in Nat BY GroupsAssumption DEF DeliveryInv, IInv, TypeOK, AllGroups
    <3> QED BY <1>2, <2>2, <3>3, <3>4
  <2>4. answers = ChunksOfGroups
    <3>1. CASE groupCount = 0
      <4>1. answers = IF query.grouped THEN 0 ELSE 1
        <5>1. answers = handedOut /\ (query.grouped => answers = 0)
          BY <2>3, <3>1 DEF DeliveryInv, GroupsAnswer, Chunked
        <5>2. handedOut <= 1 BY <1>2, <3>1 DEF DeliveryInv, IInv, HandingOut
        <5>3. ~query.grouped => handedOut # 0 BY <2>2, <3>1 DEF MakesRow
        <5> QED BY <1>2, <5>1, <5>2, <5>3
      <4>2. (0 + VectorSize - 1) \div VectorSize = 0
        <5>1. VectorSize * 0 = 0 BY <1>2
        <5> QED BY <1>2, <5>1, FullChunks
      <4> QED BY <3>1, <4>1, <4>2 DEF ChunksOfGroups
    <3>2. CASE groupCount > 0
      <4>1. /\ VectorSize * answers \in Nat
            /\ handedOut = IF VectorSize * answers <= groupCount
                           THEN VectorSize * answers ELSE groupCount
            /\ answers > 0 => VectorSize * (answers - 1) < groupCount
        BY <1>2, <2>3, <3>2 DEF DeliveryInv, GroupsAnswer, Chunked
      <4>2. VectorSize * answers >= groupCount BY <1>2, <2>2, <4>1
      <4>3. answers = (groupCount + VectorSize - 1) \div VectorSize
        BY <1>2, <4>1, <4>2, FullChunks
      <4> QED BY <1>2, <3>2, <4>3 DEF ChunksOfGroups
    <3> QED BY <1>2, <3>1, <3>2
  <2> QED BY <1>3, <2>1, <2>4 DEF AnsweredInFull
<1> QED BY <1>4, <1>5

(* The same of the state a step leads to. *)
LEMMA EndsAnsweredThen ==
  DeliveryInv' /\ QueryOver' /\ ~executorError' => AnsweredInFull'
  BY EndsAnswered, PTL

(* The same of the state a step leads to. *)
LEMMA OneSourceThen == (DeliveryInv => answers = 0 \/ ~fellBack)'
  BY OneSourceOnly, PTL

(* Nothing happens to a query that has ended. *)
LEMMA NothingAfterEnd ==
  ASSUME DeliveryInv, QueryOver, NEW t \in Threads, Step(t)
  PROVE  FALSE
<1>1. ~executorError => stockQueued = 0
  BY EndsAnswered DEF AnsweredInFull
<1>2. ~GroupStep(t)
  BY GroupStepPlanInv DEF QueryOver, DeliveryInv, IInv
<1> QED BY <1>1, <1>2, PlanStepBeforeEnd DEF Step

(* A chunk of groups that goes out is one the answer still has. *)
LEMMA NextChunkIsPromised ==
  ASSUME DeliveryInv, ~Unconvertible, NEW t \in Threads, GroupStep(t), answers' # answers
  PROVE  /\ published /\ answers' = answers + 1 /\ answers < ChunksOfGroups
         /\ pc'[t] = "enter" /\ UNCHANGED published
<1>1. /\ answers \in Nat /\ handedOut \in Nat /\ groupCount \in Nat
      /\ VectorSize \in Nat \ {0} /\ pc \in [Threads -> Labels]
  BY GroupsAssumption DEF DeliveryInv, IInv, TypeOK, PlanTypeOK
<1>2. MakeRow(t) \/ (HandOutGroups(t) /\ NextGroups # {})
  BY DEF GroupStep, DebugFail, FoldWhole, LookForGroups, ShareInputs, ClaimBucket, FoldBucket,
     MergeOverflows, MergeBucket, WaitForGroups, HandOutGroups, ConversionThrows, groupVars,
     emitVars
<1>3. /\ answers' = answers + 1 /\ pc[t] = "hand" /\ pc'[t] = "enter" /\ UNCHANGED published
  BY <1>1, <1>2 DEF MakeRow, HandOutGroups, Goto, foldVars
<1>4. published BY <1>3 DEF DeliveryInv, SourceInv, Places
<1>5. CASE MakeRow(t)
  <2>1. groupCount = 0 /\ ~query.grouped /\ handedOut = 0 BY <1>5 DEF MakeRow, MakesRow
  <2>2. answers = 0 BY <2>1 DEF DeliveryInv, GroupsAnswer, Chunked
  <2>3. ChunksOfGroups = 1 BY <2>1 DEF ChunksOfGroups
  <2> QED BY <1>3, <1>4, <2>2, <2>3
<1>6. CASE NextGroups # {}
  <2>1. handedOut < groupCount BY <1>1, <1>6, NextChunk
  <2>2. VectorSize * answers \in Nat BY <1>1
  <2>3. VectorSize * answers < groupCount
    BY <1>1, <2>1, <2>2 DEF DeliveryInv, GroupsAnswer, Chunked
  <2>4. answers < (groupCount + VectorSize - 1) \div VectorSize
    BY <1>1, <2>3, FullChunks
  <2>5. ChunksOfGroups = (groupCount + VectorSize - 1) \div VectorSize
    BY <1>1, <2>1 DEF ChunksOfGroups
  <2> QED BY <1>3, <1>4, <2>4, <2>5
<1> QED BY <1>2, <1>5, <1>6

(* The type of the answer's length. *)
LEMMA PromisedIsNatural == ASSUME groupCount \in Nat PROVE ChunksOfGroups \in Nat
<1>1. VectorSize \in Nat \ {0} /\ 0 \in Nat BY GroupsAssumption
<1>2. (groupCount + VectorSize - 1) \div VectorSize \in Nat BY <1>1, FullChunks
<1> QED BY <1>2 DEF ChunksOfGroups

(* A query starts as QueryAnswer does. *)
LEMMA RefinesInit == Init => QA!Init
<1> SUFFICES ASSUME Init PROVE QA!Init
  OBVIOUS
<1>1. Source = "none" /\ Chunks = 0
  BY DEF Init, PlanInit, Source, Chunks, StockAnswering
<1>2. Outcome = "running"
  <2>1. queued # 0 /\ ~executorError BY SlicesType DEF Init, PlanInit
  <2> QED BY <2>1 DEF Outcome, QueryOver
<1>3. ChunksOfGroups \in Nat
  BY GroupsAssumption, PromisedIsNatural DEF Init
<1> QED BY <1>1, <1>2, <1>3 DEF QA!Init

(* What a step shows the user, if anything. *)
LEMMA ShownSteps ==
  ASSUME DeliveryInv, DeliveryInv', NEW t \in Threads, Step(t)
  PROVE  /\ executorError => executorError'
         /\ ChunksOfGroups' = ChunksOfGroups
         /\ \/ UNCHANGED <<Source, Chunks>>
            \/ /\ executorError' = executorError
               /\ pc'[t] # "idle"
               /\ \/ /\ Source = "none" /\ Source' = "factorized"
                     /\ Chunks' = 0
                  \/ /\ Source = "none" \/ (Source = "factorized" /\ Chunks = 0)
                     /\ Source' = "stock" /\ Chunks' = Chunks
                  \/ /\ Source # "none" /\ Source' = Source /\ Chunks' = Chunks + 1
                     /\ Chunks < IF Source = "factorized" THEN ChunksOfGroups ELSE StockTasks
<1> USE DEF groupVars, foldVars, emitVars, answerIs, stockVars, InFactorized
<1>t. /\ PlanTypeOK /\ PlanInv /\ answers \in Nat /\ answers' \in Nat /\ scanned \in Nat
      /\ StockBound /\ StockBound' /\ scanReady \in BOOLEAN /\ published \in BOOLEAN
      /\ pc \in [Threads -> Labels]
  BY DEF DeliveryInv, IInv, TypeOK, PlanTypeOK
<1>s. /\ scanReady => fellBack /\ answers = 0
      /\ scanReady' => answers' = 0
  <2>1. (scanReady => fellBack) /\ (scanReady' => fellBack')
    BY <1>t DEF DeliveryInv, GroupsAnswer, StockBound
  <2> QED BY <2>1, OneSourceOnly, OneSourceThen
<1>1. CASE PlanStep(t) /\ UNCHANGED groupVars
  <2>1. (executorError => executorError') /\ UNCHANGED query
    BY <1>t, <1>1, PlanStepHandedOver DEF DeliveryInv, IInv, Exact
  <2>2. ChunksOfGroups' = ChunksOfGroups BY <1>1, <2>1 DEF ChunksOfGroups
  <2>3. CASE UNCHANGED <<scanReady, scanned>>
    <3>1. UNCHANGED <<Source, Chunks>> BY <1>1, <2>3 DEF Source, Chunks, StockAnswering
    <3> QED BY <2>1, <2>2, <3>1
  <2>4. CASE scanReady' = TRUE /\ UNCHANGED scanned
    <3>1. answers = 0 /\ answers' = 0 BY <1>s, <1>1, <2>4
    <3>2. Source' = "stock" /\ Chunks' = scanned
      BY <2>4, <3>1 DEF Source, Chunks, StockAnswering
    <3>3. CASE scanReady
      <4>1. UNCHANGED <<Source, Chunks>>
        BY <2>4, <3>1, <3>2, <3>3 DEF Source, Chunks, StockAnswering
      <4> QED BY <2>1, <2>2, <4>1
    <3>4. CASE ~scanReady
      <4>1. scanned = 0 BY <1>t, <3>4 DEF StockBound
      <4>2. /\ Source \in {"none", "factorized"} /\ Chunks = 0
        BY <3>1, <3>4 DEF Source, Chunks, StockAnswering
      <4>3. UNCHANGED <<Source, Chunks>> \/ (executorError' = executorError /\ pc'[t] # "idle")
        <5>1. ~(UNCHANGED <<scanReady, scanned>>) BY <2>4, <3>4
        <5> QED BY <1>t, <1>1, <5>1, PlanStepShows
      <4> QED BY <2>1, <2>2, <3>2, <4>1, <4>2, <4>3
    <3> QED BY <3>3, <3>4
  <2>5. CASE scanReady /\ scanned < collected /\ scanned' = scanned + 1 /\ UNCHANGED scanReady
    <3>1. answers = 0 /\ answers' = 0 /\ collected = StockTasks
      BY <1>s, <1>t, <1>1, <2>5 DEF StockBound
    <3>2. /\ Source = "stock" /\ Source' = "stock" /\ Chunks = scanned /\ Chunks' = Chunks + 1
      BY <2>5, <3>1 DEF Source, Chunks, StockAnswering
    <3>3. executorError' = executorError /\ pc'[t] # "idle"
      <4>1. ~(UNCHANGED <<scanReady, scanned>>) BY <1>t, <2>5
      <4> QED BY <1>t, <1>1, <4>1, PlanStepShows
    <3> QED BY <2>1, <2>2, <2>5, <3>1, <3>2, <3>3
  <2> QED BY <1>t, <1>1, <2>3, <2>4, <2>5, PlanStepShows
<1>2. CASE GroupStep(t)
  <2>1. /\ UNCHANGED <<executorError, query, scanReady, scanned, fellBack>>
        /\ UNCHANGED <<groupCount, unconvertible>>
    <3>1. UNCHANGED <<groupCount, unconvertible>>
      BY <1>2 DEF GroupStep, DebugFail, FoldWhole, LookForGroups, ShareInputs, ClaimBucket,
         FoldBucket, MergeOverflows, MergeBucket, WaitForGroups, MakeRow, HandOutGroups,
         ConversionThrows
    <3> QED BY <1>2, <1>t, <3>1, GroupStepPlanInv
  <2>2. ChunksOfGroups' = ChunksOfGroups BY <2>1 DEF ChunksOfGroups
  <2>3. CASE answers' # answers
    <3>1. ~Unconvertible
      <4>1. answers' = answers + 1
        BY <1>2, <2>3 DEF GroupStep, DebugFail, FoldWhole, LookForGroups, ShareInputs,
           ClaimBucket, FoldBucket, MergeOverflows, MergeBucket, WaitForGroups, MakeRow,
           HandOutGroups, ConversionThrows
      <4>2. ~Unconvertible' BY <1>t, <4>1 DEF DeliveryInv, SourceInv, AnswersInv
      <4> QED BY <2>1, <4>2 DEF Unconvertible
    <3>2. /\ published /\ answers' = answers + 1 /\ answers < ChunksOfGroups
          /\ pc'[t] = "enter" /\ UNCHANGED published
      BY <1>2, <2>3, <3>1, NextChunkIsPromised
    <3>3. ~scanReady /\ ~scanReady'
      BY <1>s, <1>t, <2>1, <3>2
    <3>4. Source = "factorized" /\ Source' = "factorized" /\ Chunks = answers /\ Chunks' = answers'
      BY <3>2, <3>3 DEF Source, Chunks, StockAnswering
    <3> QED BY <2>1, <2>2, <3>2, <3>4
  <2>4. CASE answers' = answers /\ UNCHANGED published
    <3>1. UNCHANGED <<Source, Chunks>> BY <2>1, <2>4 DEF Source, Chunks, StockAnswering
    <3> QED BY <2>1, <2>2, <3>1
  <2>5. CASE answers' = answers /\ published' # published
    <3>1. ~published /\ published' /\ pc'[t] # "idle"
      <4>1. FoldWhole(t) \/ MergeBucket(t)
        BY <1>2, <2>5 DEF GroupStep, DebugFail, LookForGroups, ShareInputs, ClaimBucket,
           FoldBucket, MergeOverflows, WaitForGroups, MakeRow, HandOutGroups, ConversionThrows
      <4>2. published' = TRUE BY <2>5, <4>1 DEF FoldWhole, MergeBucket
      <4>3. \E label \in {"hand", "throw", "wait"} : pc' = [pc EXCEPT ![t] = label]
        BY <4>1 DEF FoldWhole, MergeBucket, Goto, Throw
      <4> QED BY <1>t, <2>5, <4>2, <4>3
    <3>2. answers = 0
      <4>1. ~(answers > 0) BY <3>1 DEF DeliveryInv, SourceInv, AnswersInv
      <4> QED BY <1>t, <4>1
    <3>3. CASE scanReady
      <4>1. UNCHANGED <<Source, Chunks>>
        BY <2>1, <2>5, <3>2, <3>3 DEF Source, Chunks, StockAnswering
      <4> QED BY <2>1, <2>2, <4>1
    <3>4. CASE ~scanReady
      <4>1. Source = "none" /\ Source' = "factorized" /\ Chunks' = 0
        BY <2>1, <2>5, <3>1, <3>2, <3>4 DEF Source, Chunks, StockAnswering
      <4> QED BY <2>1, <2>2, <3>1, <4>1
    <3> QED BY <3>3, <3>4
  <2> QED BY <2>3, <2>4, <2>5
<1> QED BY <1>1, <1>2 DEF Step

(* Every step is one of QueryAnswer's, or shows the user nothing. *)
LEMMA RefinesStep ==
  ASSUME DeliveryInv, DeliveryInv', [Next]_vars
  PROVE  [QA!Next]_(QA!vars)
<1>1. CASE UNCHANGED vars
  BY <1>1 DEF vars, planVars, threadVars, stockVars, groupVars, foldVars, emitVars, answerIs,
     QA!vars, Source, Chunks, Outcome, QueryOver, ChunksOfGroups, StockAnswering
<1>2. ASSUME NEW t \in Threads, Step(t) PROVE [QA!Next]_(QA!vars)
  <2>1. ~QueryOver BY <1>2, NothingAfterEnd
  <2>2. Outcome = IF executorError THEN "failed" ELSE "running"
    BY <2>1 DEF Outcome
  <2>3. (executorError => executorError') /\ ChunksOfGroups' = ChunksOfGroups
    BY <1>2, ShownSteps
  <2>4. CASE UNCHANGED <<Source, Chunks>>
    <3>1. CASE executorError
      BY <2>2, <2>3, <2>4, <3>1 DEF Outcome, QA!vars
    <3>2. CASE ~executorError /\ executorError'
      <4>1. Outcome = "running" /\ Outcome' = "failed" BY <2>2, <3>2 DEF Outcome
      <4> QED BY <2>3, <2>4, <4>1 DEF QA!Next, QA!Fail
    <3>3. CASE ~executorError /\ ~executorError' /\ QueryOver'
      <4>1. Outcome = "running" /\ Outcome' = "answered" BY <2>2, <3>3 DEF Outcome
      <4>2. Source # "none" /\ Chunks = IF Source = "factorized" THEN ChunksOfGroups ELSE StockTasks
        BY <2>3, <2>4, <3>3, EndsAnsweredThen DEF AnsweredInFull
      <4> QED BY <2>3, <2>4, <4>1, <4>2 DEF QA!Next, QA!Finish, QA!Promised
    <3>4. CASE ~executorError /\ ~executorError' /\ ~QueryOver'
      BY <2>2, <2>3, <2>4, <3>4 DEF Outcome, QA!vars
    <3> QED BY <3>1, <3>2, <3>3, <3>4
  <2>5. CASE ~UNCHANGED <<Source, Chunks>>
    <3>1. Outcome' = Outcome /\ Outcome # "answered"
      <4>1. ~QueryOver' /\ executorError' = executorError
        BY <1>2, <2>5, ShownSteps DEF QueryOver
      <4> QED BY <2>2, <4>1 DEF Outcome
    <3>2. CASE Source = "none" /\ Source' = "factorized" /\ Chunks' = 0
      <4>1. ChunksOfGroups >= 0
        <5>1. groupCount \in Nat BY GroupsAssumption DEF DeliveryInv, IInv, TypeOK
        <5> QED BY <5>1, PromisedIsNatural
      <4> QED BY <2>3, <3>1, <3>2, <4>1 DEF QA!Next, QA!AnswerFactorized, QA!Choose
    <3>3. CASE /\ Source = "none" \/ (Source = "factorized" /\ Chunks = 0)
               /\ Source' = "stock" /\ Chunks' = Chunks
      BY <2>3, <3>1, <3>3 DEF QA!Next, QA!AnswerStock, QA!Undelivered, QA!Choose
    <3>4. CASE /\ Source # "none" /\ Source' = Source /\ Chunks' = Chunks + 1
               /\ Chunks < IF Source = "factorized" THEN ChunksOfGroups ELSE StockTasks
      BY <2>3, <3>1, <3>4 DEF QA!Next, QA!Deliver, QA!Promised
    <3> QED BY <1>2, <2>5, <3>2, <3>3, <3>4, ShownSteps
  <2> QED BY <2>4, <2>5
<1> QED BY <1>1, <1>2 DEF Next, Over

(* With the same assumption, a grouped query gives its user all the groups *)
(* in full chunks, or all the rows of the stock plan, or an error: every   *)
(* state and step of it is one of QueryAnswer, for any number of threads,  *)
(* buckets and groups, any size of a vector and any driver error. That it  *)
(* ends is left to TLC.                                                    *)
THEOREM GroupsAnswerTheQuery == Tame => (Spec => ImplementsQueryAnswer)
<1> SUFFICES ASSUME Tame PROVE Spec => ImplementsQueryAnswer
  OBVIOUS
<1>1. Init => DeliveryInv BY DeliveryInit
<1>2. DeliveryInv /\ [Next]_vars => DeliveryInv' BY DeliveryStep
<1>3. DeliveryInv /\ DeliveryInv' /\ [Next]_vars => [QA!Next]_(QA!vars) BY RefinesStep
<1> QED BY <1>1, <1>2, <1>3, RefinesInit, PTL DEF Spec, ImplementsQueryAnswer, QA!Spec
=============================================================================
