------------------------- MODULE FallbackPlanProofs -------------------------
(***************************************************************************)
(* What every step of FallbackPlan preserves, stated for one step so that  *)
(* the modules that extend FallbackPlan can build their theorems on it:    *)
(* types, the single driver and the single stack frame.                    *)
(*                                                                         *)
(* They are one invariant because they rest on each other: depth stays a   *)
(* natural number because only a thread that is inside a frame leaves one, *)
(* and a frame that re-enters is turned away because the flag is set       *)
(* wherever the frame is.                                                  *)
(*                                                                         *)
(* The last two parts follow the stock tasks: none is lost before an error *)
(* is recorded, so that a task can only fail while the stock plan runs,    *)
(* and a query that has fallen back does not end without an error before   *)
(* all of their rows are handed out.                                       *)
(***************************************************************************)
EXTENDS FallbackPlan, FiniteSetTheorems, TLAPS

PlanInv == PlanTypeOK /\ OneDriver /\ NoNestedFrames

(* Labels of a thread that is inside no frame of EmitFallback. *)
FreeLabels == Labels \ {"ready", "drive", "help", "unwind"}

(* Slices is a positive number: no query is split into no buckets. *)
LEMMA SlicesType == Slices \in Nat \ {0} /\ Slices <= NumberOfThreads
  BY SizesAssumption DEF Slices

(* The state the operator starts in satisfies the plan's invariant. *)
LEMMA PlanInitInv == PlanInit => PlanInv
<1> SUFFICES ASSUME PlanInit PROVE PlanInv
  OBVIOUS
<1>1. queued \in Nat
  BY SlicesType DEF PlanInit
<1>2. PlanTypeOK
  BY <1>1 DEF PlanInit, PlanTypeOK, Labels, Phases
<1>3. \A t \in Threads : ~Driving(t) /\ ~Helping(t)
  BY DEF PlanInit, Driving, Helping
<1>4. OneDriver
  BY <1>3 DEF PlanInit, OneDriver
<1>5. NoNestedFrames
  BY <1>3 DEF PlanInit, NoNestedFrames
<1> QED BY <1>2, <1>4, <1>5 DEF PlanInv

(* A step of one thread that goes from one place outside EmitFallback to   *)
(* another and touches neither the frames nor the phase preserves it.      *)
LEMMA FreeStepInv ==
  ASSUME PlanInv, NEW t \in Threads,
         NEW label \in FreeLabels, pc[t] \in FreeLabels,
         pc' = [pc EXCEPT ![t] = label],
         UNCHANGED <<query, running, depth, phase>>,
         thrown' \in [Threads -> ErrorKinds \cup {"none"}],
         inTry' \in [Threads -> BOOLEAN],
         working' \in [Threads -> BOOLEAN],
         queued' \in Nat, fellBack' \in BOOLEAN, stockQueued' \in Nat,
         collected' \in Nat, scanReady' \in BOOLEAN, scanned' \in Nat,
         executorError' \in BOOLEAN
  PROVE  PlanInv'
<1>1. PlanTypeOK'
  BY DEF PlanInv, PlanTypeOK, FreeLabels
<1>2. pc \in [Threads -> Labels]
  BY DEF PlanInv, PlanTypeOK
<1>3. \A u \in Threads : Driving(u)' = Driving(u) /\ Helping(u)' = Helping(u)
  BY <1>2 DEF Driving, Helping, FreeLabels
<1>4. OneDriver'
  BY <1>3 DEF PlanInv, OneDriver
<1>5. NoNestedFrames'
  BY <1>3 DEF PlanInv, NoNestedFrames
<1> QED BY <1>1, <1>4, <1>5 DEF PlanInv

(* Every step of the fallback's own code preserves the plan's invariant. *)
LEMMA PlanStepInv ==
  ASSUME PlanInv, NEW t \in Threads, PlanStep(t)
  PROVE  PlanInv'
<1> USE DEF PlanInv
<1>t. PlanTypeOK
  OBVIOUS
<1>p. pc \in [Threads -> Labels]
  BY <1>t DEF PlanTypeOK
<1>d. depth \in [Threads -> Nat] /\ running \in [Threads -> BOOLEAN]
  BY <1>t DEF PlanTypeOK
<1>1. CASE StartSourceTask(t)
  <2>1. pc[t] \in FreeLabels /\ "enter" \in FreeLabels
    BY <1>1 DEF StartSourceTask, FreeLabels, Labels
  <2>2. queued' \in Nat
    BY <1>1, <1>t DEF StartSourceTask, PlanTypeOK
  <2> QED BY <1>1, <1>t, <2>1, <2>2, FreeStepInv
          DEF StartSourceTask, Goto, stockVars, PlanTypeOK
<1>2. CASE StopOnError(t)
  <2>1. pc[t] \in FreeLabels /\ "idle" \in FreeLabels
    BY <1>2 DEF StopOnError, FreeLabels, Labels
  <2> QED BY <1>2, <1>t, <2>1, FreeStepInv
          DEF StopOnError, Goto, stockVars, PlanTypeOK
<1>3. CASE TakeStockTask(t)
  <2>1. PlanTypeOK'
    BY <1>3, <1>t DEF TakeStockTask, PlanTypeOK
  <2> QED BY <1>3, <2>1
          DEF TakeStockTask, OneDriver, NoNestedFrames, Driving, Helping
<1>4. CASE FinishStockTask(t)
  <2>1. collected' \in Nat
    BY <1>4, <1>t DEF FinishStockTask, PlanTypeOK
  <2>a. executorError' = executorError \/ executorError' = TRUE
    BY <1>4 DEF FinishStockTask
  <2>b. executorError' \in BOOLEAN
    BY <2>a, <1>t, Zenon DEF PlanTypeOK
  <2>2. working' \in [Threads -> BOOLEAN]
    BY <1>4, <1>t DEF FinishStockTask, PlanTypeOK
  <2>3. PlanTypeOK'
    BY <1>4, <1>t, <2>1, <2>b, <2>2 DEF FinishStockTask, PlanTypeOK
  <2> QED BY <1>4, <2>3
          DEF FinishStockTask, OneDriver, NoNestedFrames, Driving, Helping
<1>5. CASE Reenter(t)
  <2>1. running[t]
    BY <1>5, <1>d DEF Reenter, NoNestedFrames, Driving, Helping
  <2>2. PlanTypeOK'
    BY <1>5, <2>1, <1>t DEF Reenter, stockVars, PlanTypeOK
  <2> QED BY <1>5, <2>1, <2>2
          DEF Reenter, stockVars, OneDriver, NoNestedFrames, Driving, Helping
<1>6. CASE Enter(t)
  <2>1. pc[t] \in FreeLabels /\ Entry \in FreeLabels
    BY <1>6 DEF Enter, Entry, FreeLabels, Labels
  <2>2. inTry' \in [Threads -> BOOLEAN]
    BY <1>6, <1>t DEF Enter, CalledInTry, PlanTypeOK
  <2> QED BY <1>6, <1>t, <2>1, <2>2, FreeStepInv
          DEF Enter, Goto, stockVars, PlanTypeOK
<1>7. CASE Catch(t)
  <2>1. pc[t] \in FreeLabels /\ "idle" \in FreeLabels /\ "emit" \in FreeLabels
    BY <1>7 DEF Catch, FreeLabels, Labels
  <2>2. /\ inTry' \in [Threads -> BOOLEAN]
        /\ thrown' \in [Threads -> ErrorKinds \cup {"none"}]
        /\ fellBack' \in BOOLEAN /\ executorError' \in BOOLEAN
    BY <1>7, <1>t DEF Catch, CalledInTry, PlanTypeOK
  <2>3. \/ pc' = [pc EXCEPT ![t] = "idle"]
        \/ pc' = [pc EXCEPT ![t] = "emit"]
    BY <1>7 DEF Catch, Goto
  <2> QED BY <1>7, <1>t, <2>1, <2>2, <2>3, FreeStepInv
          DEF Catch, stockVars, PlanTypeOK
<1>8. CASE EmitFallback(t)
  <2>1. ~Driving(t) /\ ~Helping(t) /\ depth[t] = 0
    BY <1>8 DEF EmitFallback, NoNestedFrames, Driving, Helping
  <2>2. PlanTypeOK'
    BY <1>8, <1>t, <1>p
       DEF EmitFallback, Goto, PlanTypeOK, Labels, PhaseClaimed, Phases, Flagged
  <2>3. OneDriver'
    BY <1>8, <1>p, <2>1
       DEF EmitFallback, Goto, OneDriver, Driving, PhaseClaimed
  <2>4. NoNestedFrames'
    BY <1>8, <1>p, <1>d, <2>1
       DEF EmitFallback, Goto, NoNestedFrames, Driving, Helping, Flagged
  <2> QED BY <2>2, <2>3, <2>4
<1>9. CASE ReadyFallback(t)
  <2>1. PlanTypeOK'
    BY <1>9, <1>t, SizesAssumption DEF ReadyFallback, Goto, PlanTypeOK, Labels
  <2>2. \A u \in Threads : Driving(u)' = Driving(u) /\ Helping(u)' = Helping(u)
    BY <1>9, <1>p DEF ReadyFallback, Goto, Driving, Helping
  <2> QED BY <1>9, <2>1, <2>2 DEF ReadyFallback, OneDriver, NoNestedFrames
<1>10. CASE DriverThrows(t)
  <2>1. PlanTypeOK'
    BY <1>10, <1>t, DriverAssumption
       DEF DriverThrows, Goto, stockVars, PlanTypeOK, Labels
  <2>2. \A u \in Threads : Driving(u)' = Driving(u) /\ Helping(u)' = Helping(u)
    BY <1>10, <1>p DEF DriverThrows, Goto, Driving, Helping
  <2> QED BY <1>10, <2>1, <2>2
          DEF DriverThrows, stockVars, OneDriver, NoNestedFrames
<1>11. CASE DriverSeesError(t)
  <2>1. PlanTypeOK'
    BY <1>11, <1>t DEF DriverSeesError, Goto, stockVars, PlanTypeOK, Labels
  <2>2. \A u \in Threads : Driving(u)' = Driving(u) /\ Helping(u)' = Helping(u)
    BY <1>11, <1>p DEF DriverSeesError, Goto, Driving, Helping
  <2> QED BY <1>11, <2>1, <2>2
          DEF DriverSeesError, stockVars, OneDriver, NoNestedFrames
<1>12. CASE FinishDriving(t)
  <2>1. Driving(t) /\ depth[t] = 1
    BY <1>12 DEF FinishDriving, NoNestedFrames, Driving
  <2>2. PlanTypeOK'
    BY <1>12, <1>t, <2>1 DEF FinishDriving, Goto, PlanTypeOK, Labels, Phases
  <2>3. OneDriver'
    BY <1>12, <1>p, <2>1 DEF FinishDriving, Goto, OneDriver, Driving
  <2>4. NoNestedFrames'
    BY <1>12, <1>p, <1>d, <2>1
       DEF FinishDriving, Goto, NoNestedFrames, Driving, Helping
  <2> QED BY <2>2, <2>3, <2>4
<1>13. CASE UnwindDriver(t)
  <2>1. Driving(t) /\ depth[t] = 1
    BY <1>13 DEF UnwindDriver, NoNestedFrames, Driving
  <2>2. \/ pc' = [pc EXCEPT ![t] = "throw"]
        \/ pc' = [pc EXCEPT ![t] = "idle"]
    BY <1>13 DEF UnwindDriver, Goto
  <2>a. /\ pc' \in [Threads -> Labels]
        /\ thrown' \in [Threads -> ErrorKinds \cup {"none"}]
        /\ depth' \in [Threads -> Nat]
    BY <1>13, <1>t, <2>1, <2>2 DEF UnwindDriver, PlanTypeOK, Labels
  <2>b. running' \in [Threads -> BOOLEAN] /\ executorError' \in BOOLEAN
    BY <1>13, <1>t DEF UnwindDriver, PlanTypeOK
  <2>3. PlanTypeOK'
    BY <1>13, <1>t, <2>a, <2>b
       DEF UnwindDriver, PlanTypeOK, Phases, PhaseOnError
  <2>4. OneDriver'
    BY <1>13, <1>p, <2>1, <2>2 DEF UnwindDriver, OneDriver, Driving, PhaseOnError
  <2>5. NoNestedFrames'
    BY <1>13, <1>p, <1>d, <2>1, <2>2
       DEF UnwindDriver, NoNestedFrames, Driving, Helping
  <2> QED BY <2>3, <2>4, <2>5
<1>14. CASE HelperReturns(t)
  <2>1. ~Driving(t) /\ Helping(t) /\ depth[t] = 1
    BY <1>14 DEF HelperReturns, NoNestedFrames, Driving, Helping
  <2>2. PlanTypeOK'
    BY <1>14, <1>t, <2>1 DEF HelperReturns, Goto, stockVars, PlanTypeOK, Labels
  <2>3. OneDriver'
    BY <1>14, <1>p, <2>1 DEF HelperReturns, Goto, stockVars, OneDriver, Driving
  <2>4. NoNestedFrames'
    BY <1>14, <1>p, <1>d, <2>1
       DEF HelperReturns, Goto, stockVars, NoNestedFrames, Driving, Helping
  <2> QED BY <2>2, <2>3, <2>4
<1>15. CASE ScanFallback(t)
  <2>1. pc[t] \in FreeLabels /\ "idle" \in FreeLabels /\ "enter" \in FreeLabels
    BY <1>15 DEF ScanFallback, FreeLabels, Labels
  <2>2. scanned' \in Nat
    BY <1>15, <1>t DEF ScanFallback, PlanTypeOK
  <2>3. \/ pc' = [pc EXCEPT ![t] = "idle"]
        \/ pc' = [pc EXCEPT ![t] = "enter"]
    BY <1>15 DEF ScanFallback, Goto
  <2> QED BY <1>15, <1>t, <2>1, <2>2, <2>3, FreeStepInv
          DEF ScanFallback, PlanTypeOK
<1> QED BY <1>1, <1>2, <1>3, <1>4, <1>5, <1>6, <1>7, <1>8, <1>9, <1>10, <1>11,
           <1>12, <1>13, <1>14, <1>15 DEF PlanStep

-----------------------------------------------------------------------------
(* The stock pipeline's tasks. Until an error is recorded none is lost:    *)
(* they are queued, in work, or have appended their rows. So a driver that *)
(* leaves its loop without an error leaves no task behind, and a task that *)
(* fails does so while the phase still says that the plan is running.      *)

Working == {t \in Threads : working[t]}
TasksInAll == stockQueued + Cardinality(Working) + collected

StockInv ==
  ~executorError =>
    /\ TasksInAll = 0 \/ TasksInAll = StockTasks
    /\ phase = "NONE" \/ (\E t \in Threads : pc[t] = "ready") => TasksInAll = 0
    /\ phase \in {"DONE", "FAILED"} \/ (\E t \in Threads : pc[t] = "unwind") =>
         TasksInAll = 0 \/ collected = StockTasks

(* An error that ends a query although the stock plan was there to answer. *)
SeriousOnly ==
  query.fallback /\ ~executorError /\ executorError' =>
    \/ phase = "RUNNING"
    \/ \E t \in Threads : pc[t] = "throw" /\ thrown[t] = "fatal"

(* There are finitely many tasks in work. *)
LEMMA WorkingFinite == IsFiniteSet(Working) /\ Cardinality(Working) \in Nat
<1>1. IsFiniteSet(Working) BY ThreadsAssumption, FS_Subset DEF Working
<1> QED BY <1>1, FS_CardinalityType

(* A thread takes a task into work, or is done with it. *)
LEMMA OneMoreWorking ==
  ASSUME PlanTypeOK, NEW t \in Threads, ~working[t], working' = [working EXCEPT ![t] = TRUE]
  PROVE  Cardinality(Working)' = Cardinality(Working) + 1
<1>1. Working' = Working \cup {t} /\ t \notin Working BY DEF Working, PlanTypeOK
<1> QED BY <1>1, WorkingFinite, FS_AddElement

(* A thread that leaves the plan takes one task out of work. *)
LEMMA OneLessWorking ==
  ASSUME PlanTypeOK, NEW t \in Threads, working[t], working' = [working EXCEPT ![t] = FALSE]
  PROVE  Cardinality(Working) = Cardinality(Working)' + 1
<1>1. Working' = Working \ {t} /\ t \in Working BY DEF Working, PlanTypeOK
<1>2. Cardinality(Working \ {t}) = Cardinality(Working) - 1
  BY <1>1, WorkingFinite, FS_RemoveElement
<1> QED BY <1>1, <1>2, WorkingFinite

(* No task has been handed to the executor before the plan is driven. *)
LEMMA StockInit == PlanInit => StockInv
<1> SUFFICES ASSUME PlanInit PROVE StockInv
  OBVIOUS
<1>1. Working = {} BY DEF PlanInit, Working
<1>2. TasksInAll = 0 BY <1>1, FS_EmptySet DEF PlanInit, TasksInAll
<1> QED BY <1>2 DEF PlanInit, StockInv

(* A step that leaves the tasks alone, and brings nobody to drive. *)
LEMMA StockKept ==
  ASSUME StockInv, UNCHANGED <<phase, stockQueued, collected, working>>,
         ~executorError' => ~executorError,
         \A u \in Threads : pc'[u] \in {"ready", "unwind"} => pc'[u] = pc[u]
  PROVE  StockInv'
<1>1. TasksInAll' = TasksInAll /\ collected' = collected
  BY DEF TasksInAll, Working
<1> QED BY <1>1 DEF StockInv

(* The fallback's steps lose no stock task before an error is recorded. *)
LEMMA PlanStepStock ==
  ASSUME PlanInv, StockInv, NEW t \in Threads, PlanStep(t)
  PROVE  StockInv' /\ SeriousOnly
<1> USE DEF Goto
<1>t. PlanTypeOK BY DEF PlanInv
<1>p. pc \in [Threads -> Labels] /\ stockQueued \in Nat /\ collected \in Nat /\ StockTasks \in Nat
  BY <1>t, SizesAssumption DEF PlanTypeOK
<1>1. CASE \/ StartSourceTask(t) \/ StopOnError(t) \/ Reenter(t) \/ Enter(t)
           \/ HelperReturns(t) \/ ScanFallback(t)
  <2>1. /\ UNCHANGED <<phase, stockQueued, collected, working, executorError>>
        /\ \A u \in Threads : pc'[u] \in {"ready", "unwind"} => pc'[u] = pc[u]
    BY <1>p, <1>1 DEF StartSourceTask, StopOnError, Reenter, Enter, Entry, HelperReturns,
                     ScanFallback, stockVars
  <2> QED BY <2>1, StockKept DEF SeriousOnly
<1>2. CASE Catch(t)
  <2>1. /\ UNCHANGED <<phase, stockQueued, collected, working>>
        /\ \A u \in Threads : pc'[u] \in {"ready", "unwind"} => pc'[u] = pc[u]
    BY <1>p, <1>2 DEF Catch, stockVars
  <2>2. executorError' = executorError \/ (executorError' = TRUE /\ Rethrows(t))
    BY <1>2 DEF Catch
  <2>3. ~executorError' => ~executorError BY <2>2, Zenon
  <2>4. SeriousOnly
    <3>1. CASE executorError' = executorError BY <3>1, Zenon DEF SeriousOnly
    <3>2. CASE Rethrows(t) BY <1>2, <3>2 DEF Catch, Rethrows, SeriousOnly
    <3> QED BY <2>2, <3>1, <3>2
  <2> QED BY <2>1, <2>3, <2>4, StockKept
<1>3. CASE TakeStockTask(t)
  <2>1. /\ UNCHANGED <<pc, phase, collected, executorError>>
        /\ stockQueued' = stockQueued - 1 /\ stockQueued > 0
        /\ ~working[t] /\ working' = [working EXCEPT ![t] = TRUE]
    BY <1>3 DEF TakeStockTask
  <2>2. TasksInAll' = TasksInAll
    <3>1. Cardinality(Working)' = Cardinality(Working) + 1 BY <1>t, <2>1, OneMoreWorking
    <3> QED BY <1>p, <2>1, <3>1, WorkingFinite DEF TasksInAll
  <2> QED BY <2>1, <2>2 DEF StockInv, SeriousOnly
<1>4. CASE FinishStockTask(t)
  <2>1. /\ UNCHANGED <<pc, phase, stockQueued>>
        /\ working[t] /\ working' = [working EXCEPT ![t] = FALSE]
        /\ \/ collected' = collected + 1 /\ executorError' = executorError
           \/ executorError' = TRUE /\ collected' = collected
    BY <1>4 DEF FinishStockTask
  <2>2. Cardinality(Working) = Cardinality(Working)' + 1 /\ Cardinality(Working)' \in Nat
    <3>1. Cardinality(Working) = Cardinality(Working)' + 1 BY <1>t, <2>1, OneLessWorking
    <3>2. Working' \subseteq Working BY <1>t, <2>1 DEF Working, PlanTypeOK
    <3>3. Cardinality(Working)' \in Nat
      BY <3>2, WorkingFinite, FS_Subset, FS_CardinalityType
    <3> QED BY <3>1, <3>3
  <2>3. ~executorError => /\ TasksInAll = StockTasks /\ collected < StockTasks
                          /\ phase = "RUNNING" /\ \A u \in Threads : pc[u] # "unwind"
    <3> SUFFICES ASSUME ~executorError
                 PROVE  /\ TasksInAll = StockTasks /\ collected < StockTasks
                        /\ phase = "RUNNING" /\ \A u \in Threads : pc[u] # "unwind"
      OBVIOUS
    <3>1. TasksInAll > collected /\ TasksInAll # 0
      BY <1>p, <2>2, WorkingFinite DEF TasksInAll
    <3>2. TasksInAll = StockTasks /\ collected # StockTasks BY <1>p, <3>1 DEF StockInv
    <3>3. phase \in Phases BY <1>t DEF PlanTypeOK
    <3> QED BY <1>p, <3>1, <3>2, <3>3 DEF StockInv, Phases
  <2>4. SeriousOnly BY <2>3 DEF SeriousOnly
  <2>5. CASE collected' = collected + 1 /\ executorError' = executorError
    <3>1. TasksInAll' = TasksInAll
      BY <1>p, <2>1, <2>2, <2>5, WorkingFinite DEF TasksInAll
    <3>2. ~executorError' => /\ ~executorError BY <2>5, Zenon
    <3> QED BY <2>1, <2>3, <2>4, <3>1, <3>2 DEF StockInv
  <2>6. CASE executorError' = TRUE
    <3>1. StockInv' BY <2>6, Zenon DEF StockInv
    <3> QED BY <2>4, <3>1
  <2> QED BY <2>1, <2>5, <2>6
<1>5. CASE EmitFallback(t)
  <2>1. /\ UNCHANGED <<stockQueued, collected, working, executorError>>
        /\ pc[t] = "emit" /\ \A u \in Threads \ {t} : pc'[u] = pc[u]
        /\ IF phase = "NONE" THEN phase' = "RUNNING" /\ pc'[t] = "ready"
           ELSE phase' = phase /\ pc'[t] = "help"
    BY <1>p, <1>5 DEF EmitFallback, PhaseClaimed
  <2>2. TasksInAll' = TasksInAll BY <2>1 DEF TasksInAll, Working
  <2> QED BY <2>1, <2>2 DEF StockInv, SeriousOnly
<1>6. CASE ReadyFallback(t)
  <2>1. /\ UNCHANGED <<phase, collected, working, executorError>>
        /\ stockQueued' = StockTasks /\ pc[t] = "ready" /\ pc'[t] = "drive"
        /\ \A u \in Threads \ {t} : pc'[u] = pc[u]
    BY <1>p, <1>6 DEF ReadyFallback
  <2>2. phase = "RUNNING" /\ \A u \in Threads : pc'[u] \notin {"ready", "unwind"}
    BY <2>1 DEF PlanInv, OneDriver, Driving
  <2>3. ~executorError => TasksInAll' = StockTasks
    <3> SUFFICES ASSUME ~executorError PROVE TasksInAll' = StockTasks
      OBVIOUS
    <3>1. TasksInAll = 0 BY <2>1 DEF StockInv
    <3>2. Cardinality(Working) = 0 /\ collected = 0
      BY <1>p, <3>1, WorkingFinite DEF TasksInAll
    <3>3. Cardinality(Working)' = Cardinality(Working) BY <2>1 DEF Working
    <3> QED BY <1>p, <2>1, <3>2, <3>3 DEF TasksInAll
  <2> QED BY <2>1, <2>2, <2>3 DEF StockInv, SeriousOnly
<1>7. CASE DriverThrows(t) \/ DriverSeesError(t)
  <2>1. /\ UNCHANGED <<phase, stockQueued, collected, working, executorError>>
        /\ pc'[t] = "unwind" /\ \A u \in Threads \ {t} : pc'[u] = pc[u]
        /\ executorError \/ pc[t] = "ready" \/ collected = StockTasks
    BY <1>p, <1>7 DEF DriverThrows, DriverSeesError, stockVars, StockFinished
  <2>2. TasksInAll' = TasksInAll BY <2>1 DEF TasksInAll, Working
  <2> QED BY <2>1, <2>2 DEF StockInv, SeriousOnly
<1>8. CASE FinishDriving(t)
  <2>1. /\ UNCHANGED <<stockQueued, collected, working, executorError>>
        /\ phase' = "DONE" /\ collected = StockTasks
        /\ pc'[t] = "scan" /\ \A u \in Threads \ {t} : pc'[u] = pc[u]
    BY <1>p, <1>8 DEF FinishDriving, StockFinished
  <2>2. TasksInAll' = TasksInAll BY <2>1 DEF TasksInAll, Working
  <2> QED BY <2>1, <2>2 DEF StockInv, SeriousOnly
<1>9. CASE UnwindDriver(t)
  <2>1. /\ UNCHANGED <<stockQueued, collected, working>>
        /\ phase' = "FAILED" /\ pc[t] = "unwind"
        /\ pc'[t] \in {"throw", "idle"} /\ \A u \in Threads \ {t} : pc'[u] = pc[u]
    BY <1>p, <1>9 DEF UnwindDriver, PhaseOnError
  <2>2. executorError' = executorError \/ executorError' = TRUE
    BY <1>9 DEF UnwindDriver
  <2>3. ~executorError' => ~executorError BY <2>2, Zenon
  <2>4. TasksInAll' = TasksInAll BY <2>1 DEF TasksInAll, Working
  <2>5. phase = "RUNNING" BY <2>1 DEF PlanInv, OneDriver, Driving
  <2>6. StockInv' BY <2>1, <2>3, <2>4 DEF StockInv
  <2> QED BY <2>5, <2>6 DEF SeriousOnly
<1> QED BY <1>1, <1>2, <1>3, <1>4, <1>5, <1>6, <1>7, <1>8, <1>9 DEF PlanStep

-----------------------------------------------------------------------------
(* What the stock plan delivers. Its tasks are never more than there are,  *)
(* error or not, its rows are scanned only once all of them are there, and *)
(* unless an error has been recorded somebody is left to hand them out:    *)
(* a query that has fallen back does not end before its answer is whole.   *)

StockBound ==
  /\ TasksInAll <= StockTasks
  /\ phase = "NONE" \/ (\E t \in Threads : pc[t] = "ready") => TasksInAll = 0
  /\ scanReady <=> phase = "DONE"
  /\ scanReady => collected = StockTasks
  /\ scanned <= collected
  /\ scanned > 0 => scanReady

ScanLabels == {"scan", "enter", "emit", "help"}

StockAnswers ==
  ~executorError =>
    /\ \A t \in Threads : pc[t] = "unwind" => thrown[t] = "fatal" \/ ~inTry[t]
    /\ phase = "FAILED" => \E t \in Threads : pc[t] = "throw" /\ thrown[t] = "fatal"
    /\ phase = "DONE" => scanned = StockTasks \/ \E t \in Threads : pc[t] \in ScanLabels
    /\ fellBack /\ phase = "NONE" => \E t \in Threads : pc[t] = "emit"

(* The executor's error is never cleared. *)
LEMMA ErrorStays ==
  ASSUME PlanTypeOK, NEW t \in Threads, PlanStep(t)
  PROVE  /\ executorError => executorError'
         /\ ~executorError' => ~executorError
<1>1. executorError' = executorError \/ executorError' = TRUE
  BY DEF PlanStep, StartSourceTask, StopOnError, TakeStockTask, FinishStockTask,
     Reenter, Enter, Catch, EmitFallback, ReadyFallback, DriverThrows,
     DriverSeesError, FinishDriving, UnwindDriver, HelperReturns, ScanFallback
<1>2. CASE executorError' = executorError
  BY <1>2, Zenon
<1>3. CASE executorError' = TRUE
  BY <1>3, Zenon
<1> QED BY <1>1, <1>2, <1>3, Zenon

(* Nothing of the stock plan exists at the start. *)
LEMMA StockBoundInit == PlanInit => StockBound /\ StockAnswers
<1> SUFFICES ASSUME PlanInit PROVE StockBound /\ StockAnswers
  OBVIOUS
<1>1. Working = {} BY DEF PlanInit, Working
<1>2. TasksInAll = 0 BY <1>1, FS_EmptySet DEF PlanInit, TasksInAll
<1>3. StockBound BY <1>2, SizesAssumption DEF PlanInit, StockBound
<1>4. StockAnswers BY DEF PlanInit, StockAnswers
<1> QED BY <1>3, <1>4

(* A step that leaves the tasks and the scan alone, and readies nobody. *)
LEMMA StockBoundKept ==
  ASSUME StockBound, UNCHANGED <<phase, stockQueued, collected, working, scanReady, scanned>>,
         \A u \in Threads : pc'[u] = "ready" => pc[u] = "ready"
  PROVE  StockBound'
<1>1. TasksInAll' = TasksInAll
  BY DEF TasksInAll, Working
<1> QED BY <1>1 DEF StockBound

(* The fallback's steps keep the stock plan's tasks and rows in number. *)
LEMMA PlanStepBound ==
  ASSUME PlanInv, StockBound, NEW t \in Threads, PlanStep(t)
  PROVE  StockBound'
<1> USE DEF Goto
<1>t. PlanTypeOK BY DEF PlanInv
<1>p. /\ pc \in [Threads -> Labels] /\ StockTasks \in Nat
      /\ stockQueued \in Nat /\ collected \in Nat /\ scanned \in Nat
  BY <1>t, SizesAssumption DEF PlanTypeOK
<1>1. CASE \/ StartSourceTask(t) \/ StopOnError(t) \/ Reenter(t) \/ Enter(t) \/ Catch(t)
           \/ HelperReturns(t) \/ DriverThrows(t) \/ DriverSeesError(t)
  <2>1. /\ UNCHANGED <<phase, stockQueued, collected, working, scanReady, scanned>>
        /\ \A u \in Threads : pc'[u] = "ready" => pc[u] = "ready"
    BY <1>p, <1>1 DEF StartSourceTask, StopOnError, Reenter, Enter, Entry, Catch, HelperReturns,
                     DriverThrows, DriverSeesError, stockVars
  <2> QED BY <2>1, StockBoundKept
<1>2. CASE TakeStockTask(t)
  <2>1. /\ UNCHANGED <<pc, phase, collected, scanReady, scanned>>
        /\ stockQueued' = stockQueued - 1 /\ stockQueued > 0
        /\ ~working[t] /\ working' = [working EXCEPT ![t] = TRUE]
    BY <1>2 DEF TakeStockTask
  <2>2. TasksInAll' = TasksInAll
    <3>1. Cardinality(Working)' = Cardinality(Working) + 1 BY <1>t, <2>1, OneMoreWorking
    <3> QED BY <1>p, <2>1, <3>1, WorkingFinite DEF TasksInAll
  <2> QED BY <2>1, <2>2 DEF StockBound
<1>3. CASE FinishStockTask(t)
  <2>1. /\ UNCHANGED <<pc, phase, stockQueued, scanReady, scanned>>
        /\ working[t] /\ working' = [working EXCEPT ![t] = FALSE]
        /\ collected' = collected + 1 \/ collected' = collected
    BY <1>3 DEF FinishStockTask
  <2>2. Cardinality(Working) = Cardinality(Working)' + 1 /\ Cardinality(Working)' \in Nat
    <3>1. Cardinality(Working) = Cardinality(Working)' + 1 BY <1>t, <2>1, OneLessWorking
    <3>2. Working' \subseteq Working BY <1>t, <2>1 DEF Working, PlanTypeOK
    <3>3. Cardinality(Working)' \in Nat
      BY <3>2, WorkingFinite, FS_Subset, FS_CardinalityType
    <3> QED BY <3>1, <3>3
  <2>3. TasksInAll \in Nat /\ TasksInAll > collected /\ TasksInAll # 0
    BY <1>p, <2>2, WorkingFinite DEF TasksInAll
  <2>4. ~scanReady /\ phase # "NONE" /\ \A u \in Threads : pc[u] # "ready"
    BY <1>p, <2>3 DEF StockBound
  <2>5. TasksInAll' <= TasksInAll /\ collected' \in Nat /\ collected' >= collected
    BY <1>p, <2>1, <2>2, WorkingFinite DEF TasksInAll
  <2>6. TasksInAll' \in Nat
    BY <1>p, <2>1, <2>2, <2>5, WorkingFinite DEF TasksInAll
  <2> QED BY <1>p, <2>1, <2>3, <2>4, <2>5, <2>6 DEF StockBound
<1>4. CASE EmitFallback(t)
  <2>1. /\ UNCHANGED <<stockQueued, collected, working, scanReady, scanned>>
        /\ pc[t] = "emit" /\ \A u \in Threads \ {t} : pc'[u] = pc[u]
        /\ IF phase = "NONE" THEN phase' = "RUNNING" /\ pc'[t] = "ready"
           ELSE phase' = phase /\ pc'[t] = "help"
    BY <1>p, <1>4 DEF EmitFallback, PhaseClaimed
  <2>2. TasksInAll' = TasksInAll BY <2>1 DEF TasksInAll, Working
  <2> QED BY <2>1, <2>2 DEF StockBound
<1>5. CASE ReadyFallback(t)
  <2>1. /\ UNCHANGED <<phase, collected, working, scanReady, scanned>>
        /\ stockQueued' = StockTasks /\ pc[t] = "ready" /\ pc'[t] = "drive"
        /\ \A u \in Threads \ {t} : pc'[u] = pc[u]
    BY <1>p, <1>5 DEF ReadyFallback
  <2>2. phase = "RUNNING" /\ \A u \in Threads : pc'[u] # "ready"
    BY <2>1 DEF PlanInv, OneDriver, Driving
  <2>3. TasksInAll' = StockTasks
    <3>1. TasksInAll = 0 BY <2>1 DEF StockBound
    <3>2. Cardinality(Working) = 0 /\ collected = 0
      BY <1>p, <3>1, WorkingFinite DEF TasksInAll
    <3>3. Cardinality(Working)' = Cardinality(Working) BY <2>1 DEF Working
    <3> QED BY <1>p, <2>1, <3>2, <3>3 DEF TasksInAll
  <2> QED BY <1>p, <2>1, <2>2, <2>3 DEF StockBound
<1>6. CASE FinishDriving(t)
  <2>1. /\ UNCHANGED <<stockQueued, collected, working, scanned>>
        /\ phase' = "DONE" /\ scanReady' = TRUE /\ collected = StockTasks
        /\ pc[t] = "drive" /\ pc'[t] = "scan" /\ \A u \in Threads \ {t} : pc'[u] = pc[u]
    BY <1>p, <1>6 DEF FinishDriving, StockFinished
  <2>2. \A u \in Threads : pc'[u] # "ready"
    BY <2>1 DEF PlanInv, OneDriver, Driving
  <2>3. TasksInAll' = TasksInAll BY <2>1 DEF TasksInAll, Working
  <2> QED BY <2>1, <2>2, <2>3 DEF StockBound
<1>7. CASE UnwindDriver(t)
  <2>1. /\ UNCHANGED <<stockQueued, collected, working, scanReady, scanned>>
        /\ phase' = "FAILED" /\ pc[t] = "unwind"
        /\ pc'[t] \in {"throw", "idle"} /\ \A u \in Threads \ {t} : pc'[u] = pc[u]
    BY <1>p, <1>7 DEF UnwindDriver, PhaseOnError
  <2>2. phase = "RUNNING" /\ \A u \in Threads : pc'[u] # "ready"
    BY <2>1 DEF PlanInv, OneDriver, Driving
  <2>3. TasksInAll' = TasksInAll BY <2>1 DEF TasksInAll, Working
  <2> QED BY <2>1, <2>2, <2>3 DEF StockBound
<1>8. CASE ScanFallback(t)
  <2>1. /\ UNCHANGED <<phase, stockQueued, collected, working, scanReady>>
        /\ pc'[t] \in {"enter", "idle"} /\ \A u \in Threads \ {t} : pc'[u] = pc[u]
        /\ \/ scanReady /\ scanned < collected /\ scanned' = scanned + 1
           \/ scanned' = scanned
    BY <1>p, <1>8 DEF ScanFallback
  <2>2. TasksInAll' = TasksInAll BY <2>1 DEF TasksInAll, Working
  <2>3. scanned' <= collected /\ (scanned' > 0 => scanReady)
    BY <1>p, <2>1 DEF StockBound
  <2> QED BY <2>1, <2>2, <2>3 DEF StockBound
<1> QED BY <1>1, <1>2, <1>3, <1>4, <1>5, <1>6, <1>7, <1>8 DEF PlanStep

(* A step of the operator's own code, which neither drives nor scans. *)
LEMMA StockAnswersKept ==
  ASSUME StockAnswers, NEW t \in Threads,
         UNCHANGED <<fellBack, executorError, phase, scanned>>,
         pc[t] \notin ScanLabels \cup {"unwind", "throw"}, pc'[t] # "unwind",
         \A u \in Threads \ {t} : /\ pc'[u] = pc[u] /\ thrown'[u] = thrown[u]
                                  /\ inTry'[u] = inTry[u]
  PROVE  StockAnswers'
  BY DEF StockAnswers, ScanLabels

(* They leave somebody to hand out what has been collected. *)
LEMMA PlanStepAnswers ==
  ASSUME PlanInv, StockBound, StockAnswers, phase # "NONE" => fellBack,
         "recoverable" \notin DriverErrors \/ \A u \in Threads : ~inTry[u],
         NEW t \in Threads, PlanStep(t)
  PROVE  StockAnswers'
<1> USE DEF Goto
<1>t. PlanTypeOK BY DEF PlanInv
<1>p. /\ pc \in [Threads -> Labels] /\ StockTasks \in Nat
      /\ thrown \in [Threads -> ErrorKinds \cup {"none"}] /\ inTry \in [Threads -> BOOLEAN]
      /\ collected \in Nat /\ scanned \in Nat /\ phase \in Phases
  BY <1>t, SizesAssumption DEF PlanTypeOK
<1>e. ~executorError' => ~executorError BY <1>t, ErrorStays
<1> SUFFICES ASSUME ~executorError' PROVE StockAnswers'
  BY DEF StockAnswers
<1>1. CASE StartSourceTask(t) \/ TakeStockTask(t) \/ FinishStockTask(t) \/ Reenter(t)
  <2>1. /\ UNCHANGED <<phase, scanned, fellBack, thrown, inTry>>
        /\ pc' = pc \/ (pc[t] = "idle" /\ pc' = [pc EXCEPT ![t] = "enter"])
    BY <1>1 DEF StartSourceTask, TakeStockTask, FinishStockTask, Reenter, stockVars
  <2> QED BY <1>p, <1>e, <2>1 DEF StockAnswers, ScanLabels
<1>2. CASE StopOnError(t) \/ DriverSeesError(t)
  <2>1. executorError /\ executorError' = executorError
    BY <1>2 DEF StopOnError, DriverSeesError
  <2> QED BY <1>e, <2>1
<1>3. CASE Enter(t)
  <2>1. /\ UNCHANGED <<phase, scanned, fellBack, thrown>> /\ pc[t] = "enter"
        /\ pc' = [pc EXCEPT ![t] = IF fellBack THEN "emit" ELSE "factorized"]
        /\ \A u \in Threads \ {t} : inTry'[u] = inTry[u]
    BY <1>p, <1>3 DEF Enter, Entry, stockVars
  <2> QED BY <1>p, <1>e, <2>1 DEF StockAnswers, ScanLabels
<1>4. CASE Catch(t)
  <2>1. ~Rethrows(t) /\ fellBack' = TRUE /\ pc' = [pc EXCEPT ![t] = "emit"]
    BY <1>4, Zenon DEF Catch
  <2>2. /\ UNCHANGED <<phase, scanned>> /\ thrown[t] # "fatal"
        /\ \A u \in Threads \ {t} : thrown'[u] = thrown[u] /\ inTry'[u] = inTry[u]
    BY <1>p, <1>4, <2>1 DEF Catch, Rethrows, stockVars
  <2> QED BY <1>p, <1>e, <2>1, <2>2 DEF StockAnswers, ScanLabels
<1>5. CASE EmitFallback(t)
  <2>1. /\ UNCHANGED <<scanned, fellBack, thrown, inTry>>
        /\ IF phase = "NONE" THEN phase' = "RUNNING" /\ pc' = [pc EXCEPT ![t] = "ready"]
           ELSE phase' = phase /\ pc' = [pc EXCEPT ![t] = "help"]
        /\ pc[t] = "emit"
    BY <1>5 DEF EmitFallback, PhaseClaimed
  <2> QED BY <1>p, <1>e, <2>1 DEF StockAnswers, ScanLabels
<1>6. CASE ReadyFallback(t)
  <2>1. /\ UNCHANGED <<phase, scanned, fellBack, thrown, inTry>> /\ pc[t] = "ready"
        /\ pc' = [pc EXCEPT ![t] = "drive"]
    BY <1>6 DEF ReadyFallback
  <2> QED BY <1>p, <1>e, <2>1 DEF StockAnswers, ScanLabels
<1>7. CASE DriverThrows(t)
  <2>1. PICK kind \in DriverErrors : thrown' = [thrown EXCEPT ![t] = kind]
    BY <1>7 DEF DriverThrows
  <2>2. /\ UNCHANGED <<phase, scanned, fellBack, inTry>> /\ pc[t] \in {"ready", "drive"}
        /\ pc' = [pc EXCEPT ![t] = "unwind"]
    BY <1>7 DEF DriverThrows, stockVars
  <2>3. kind = "fatal" \/ ~inTry[t]
    BY DriverAssumption DEF ErrorKinds
  <2>4. phase = "RUNNING"
    BY <2>2 DEF PlanInv, OneDriver, Driving
  <2> QED BY <1>p, <1>e, <2>1, <2>2, <2>3, <2>4 DEF StockAnswers, ScanLabels
<1>8. CASE FinishDriving(t)
  <2>1. /\ UNCHANGED <<scanned, thrown, inTry>> /\ phase' = "DONE"
        /\ pc[t] = "drive" /\ pc' = [pc EXCEPT ![t] = "scan"]
    BY <1>8 DEF FinishDriving
  <2> QED BY <1>p, <1>e, <2>1 DEF StockAnswers, ScanLabels
<1>9. CASE UnwindDriver(t)
  <2>1. inTry[t] /\ pc' = [pc EXCEPT ![t] = "throw"] /\ thrown' = thrown
    BY <1>9, Zenon DEF UnwindDriver
  <2>2. UNCHANGED <<scanned, inTry>> /\ phase' = "FAILED" /\ pc[t] = "unwind"
    BY <1>9 DEF UnwindDriver, PhaseOnError
  <2>3. pc'[t] = "throw" /\ thrown'[t] = "fatal"
    BY <1>p, <1>e, <2>1, <2>2 DEF StockAnswers
  <2> QED BY <1>p, <1>e, <2>1, <2>2, <2>3 DEF StockAnswers
<1>10. CASE HelperReturns(t)
  <2>1. /\ UNCHANGED <<phase, scanned, fellBack, thrown, inTry>> /\ pc[t] = "help"
        /\ pc' = [pc EXCEPT ![t] = "scan"]
    BY <1>10 DEF HelperReturns, stockVars
  <2> QED BY <1>p, <1>e, <2>1 DEF StockAnswers, ScanLabels
<1>11. CASE ScanFallback(t)
  <2>1. UNCHANGED <<phase, fellBack, thrown, inTry>> /\ pc[t] = "scan"
    BY <1>11 DEF ScanFallback
  <2>2. CASE scanReady /\ scanned < collected
    <3>1. pc' = [pc EXCEPT ![t] = "enter"] BY <1>11, <2>2 DEF ScanFallback
    <3> QED BY <1>p, <1>e, <2>1, <3>1 DEF StockAnswers, ScanLabels
  <2>3. CASE ~(scanReady /\ scanned < collected)
    <3>1. pc' = [pc EXCEPT ![t] = "idle"] /\ scanned' = scanned
      BY <1>11, <2>3 DEF ScanFallback
    <3>2. phase = "DONE" => scanned = StockTasks
      BY <1>p, <2>3 DEF StockBound
    <3> QED BY <1>p, <1>e, <2>1, <3>1, <3>2 DEF StockAnswers, ScanLabels
  <2> QED BY <2>2, <2>3
<1> QED BY <1>1, <1>2, <1>3, <1>4, <1>5, <1>6, <1>7, <1>8, <1>9, <1>10, <1>11
        DEF PlanStep

(* When a query has ended without an error, nothing of the stock plan is   *)
(* left, and if it has fallen back all of its rows have been handed out.   *)
LEMMA StockDelivered ==
  ASSUME PlanInv, StockBound, StockAnswers, phase # "NONE" => fellBack,
         QueryOver, ~executorError
  PROVE  /\ stockQueued = 0
         /\ IF fellBack THEN scanReady /\ scanned = StockTasks ELSE ~scanReady
<1>1. \A t \in Threads : pc[t] = "idle" /\ ~working[t]
  BY DEF QueryOver
<1>2. /\ phase \in Phases /\ stockQueued \in Nat /\ collected \in Nat /\ StockTasks \in Nat
      /\ fellBack \in BOOLEAN /\ scanReady \in BOOLEAN
  BY SizesAssumption DEF PlanInv, PlanTypeOK
<1>3. Working = {} /\ Cardinality(Working) = 0
  BY <1>1, FS_EmptySet DEF Working
<1>4. CASE fellBack
  <2>1. phase # "NONE" /\ phase # "FAILED" BY <1>1, <1>4 DEF StockAnswers
  <2>2. phase # "RUNNING" BY <1>1 DEF PlanInv, OneDriver, Driving
  <2>3. phase = "DONE" BY <1>2, <2>1, <2>2 DEF Phases
  <2>4. scanReady /\ collected = StockTasks /\ scanned = StockTasks
    BY <1>1, <2>3 DEF StockBound, StockAnswers, ScanLabels
  <2>5. stockQueued = 0 BY <1>2, <1>3, <2>4 DEF StockBound, TasksInAll
  <2> QED BY <1>4, <2>4, <2>5
<1>5. CASE ~fellBack
  <2>1. phase = "NONE" BY <1>5
  <2>2. stockQueued = 0 BY <1>2, <1>3, <2>1 DEF StockBound, TasksInAll
  <2>3. ~scanReady BY <2>1 DEF StockBound
  <2> QED BY <1>5, <2>2, <2>3
<1> QED BY <1>2, <1>4, <1>5

(* The fallback's code takes no step once a query has ended and nothing of *)
(* the stock plan is left.                                                 *)
LEMMA PlanStepBeforeEnd ==
  ASSUME ~executorError => stockQueued = 0, QueryOver, NEW t \in Threads, PlanStep(t)
  PROVE  FALSE
  BY DEF QueryOver, PlanStep, StartSourceTask, StopOnError, TakeStockTask, FinishStockTask,
     Reenter, Enter, Catch, EmitFallback, ReadyFallback, DriverThrows, DriverSeesError,
     FinishDriving, UnwindDriver, HelperReturns, ScanFallback

(* It hands out a chunk that is there, or makes them ready to be, or shows *)
(* the user nothing; and no query ends in the step that shows something.   *)
LEMMA PlanStepShows ==
  ASSUME PlanTypeOK, NEW t \in Threads, PlanStep(t)
  PROVE  \/ UNCHANGED <<scanReady, scanned>>
         \/ /\ executorError' = executorError /\ pc'[t] # "idle"
            /\ \/ scanReady' = TRUE /\ UNCHANGED scanned
               \/ scanReady /\ scanned < collected /\ scanned' = scanned + 1 /\ UNCHANGED scanReady
<1> USE DEF Goto
<1>1. CASE FinishDriving(t) \/ ScanFallback(t)
  BY <1>1 DEF PlanTypeOK, FinishDriving, ScanFallback
<1>2. CASE ~FinishDriving(t) /\ ~ScanFallback(t)
  BY <1>2 DEF PlanStep, StartSourceTask, StopOnError, TakeStockTask, FinishStockTask, Reenter,
     Enter, Catch, EmitFallback, ReadyFallback, DriverThrows, DriverSeesError, UnwindDriver,
     HelperReturns, stockVars
<1> QED BY <1>1, <1>2
=============================================================================
