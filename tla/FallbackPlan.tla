---------------------------- MODULE FallbackPlan ----------------------------
(***************************************************************************)
(* The half of PhysicalFactorized that every kind of query shares: how a   *)
(* worker thread enters GetDataInternal, what happens to an exception, and *)
(* how the plan the operator replaced is driven, helped and scanned when   *)
(* the factorized path has failed.                                         *)
(*                                                                         *)
(* Every block of the code that runs under FactorizedGlobalSourceState's   *)
(* lock is one step here, and nothing else is: the lock is never held      *)
(* across a step, exactly because the code never holds it across work.     *)
(* DuckDB's executor is modelled from how the operator uses it: a queue of *)
(* source tasks (each calls GetData until it is told FINISHED), a queue of *)
(* the stock pipeline's own tasks, and an error flag that, once raised,    *)
(* fails the query.                                                        *)
(***************************************************************************)
EXTENDS Naturals, FiniteSets

CONSTANTS
  Threads,          (* worker threads that may run a task of this query     *)
  NumberOfThreads,  (* what TaskScheduler::NumberOfThreads() answers        *)
  StockTasks,       (* tasks of the stock pipeline, one chunk of rows each  *)
  DriverErrors      (* kinds of exception the driver itself may meet that   *)
                    (* the executor has not recorded                        *)

ErrorKinds == {"recoverable", "fatal"}

ASSUME ThreadsAssumption == IsFiniteSet(Threads) /\ Threads # {}
ASSUME SizesAssumption   == NumberOfThreads \in Nat \ {0} /\ StockTasks \in Nat
ASSUME DriverAssumption  == DriverErrors \subseteq ErrorKinds

VARIABLES
  query,          (* what planning decided; constant during the query       *)
  pc,             (* where each thread is                                   *)
  thrown,         (* the exception in flight on each thread                 *)
  inTry,          (* this EmitFallback frame was called inside the try      *)
  running,        (* the thread_local fallback_running                      *)
  depth,          (* EmitFallback frames that drive or help, per thread     *)
  working,        (* the thread is inside a task of the stock pipeline      *)
  queued,         (* source tasks nobody has picked up                      *)
  fellBack,       (* gstate.fell_back                                       *)
  phase,          (* gstate.fallback_phase                                  *)
  stockQueued,    (* stock tasks nobody has picked up                       *)
  collected,      (* chunks the sink has appended                           *)
  scanReady,      (* gstate.fallback_scan is set                            *)
  scanned,        (* chunks of the stock plan handed out                    *)
  executorError   (* the executor has recorded an error                     *)

threadVars == <<pc, thrown, inTry, running, depth, working>>
stockVars  == <<phase, stockQueued, collected, scanReady, scanned>>
planVars   == <<query, queued, fellBack, executorError, threadVars, stockVars>>

Shapes == {"count", "limit", "product", "group", "extreme"}

Queries == [fallback : BOOLEAN, parallelFallback : BOOLEAN,
            sliceable : BOOLEAN, debugFail : BOOLEAN, grouped : BOOLEAN,
            shape : Shapes]

Phases == {"NONE", "RUNNING", "DONE", "FAILED"}

(* ParallelSource: without a fallback, or when told that it may. *)
ParallelSource == ~query.fallback \/ query.parallelFallback

(* GetGlobalSourceState: one bucket per thread, unless the query has to be *)
(* answered by one.                                                        *)
Slices ==
  IF /\ ParallelSource
     /\ query.shape \in {"count", "group"}
     /\ query.sliceable
  THEN NumberOfThreads
  ELSE 1

Buckets == 0 .. Slices - 1

(* Threads inside a frame that drives, or helps to run, the stock plan. *)
Driving(t) == pc[t] \in {"ready", "drive", "unwind"}
Helping(t) == pc[t] = "help"

-----------------------------------------------------------------------------
PlanInit ==
  /\ query \in Queries
  /\ pc      = [t \in Threads |-> "idle"]
  /\ thrown  = [t \in Threads |-> "none"]
  /\ inTry   = [t \in Threads |-> FALSE]
  /\ running = [t \in Threads |-> FALSE]
  /\ depth   = [t \in Threads |-> 0]
  /\ working = [t \in Threads |-> FALSE]
  /\ queued \in 1 .. Slices      \* MaxThreads bounds the tasks DuckDB launches
  /\ fellBack = FALSE
  /\ phase = "NONE"
  /\ stockQueued = 0
  /\ collected = 0
  /\ scanReady = FALSE
  /\ scanned = 0
  /\ executorError = FALSE

Goto(t, label) == pc' = [pc EXCEPT ![t] = label]

(* An exception leaves the factorized path on thread t. *)
Throw(t, kind) ==
  /\ thrown' = [thrown EXCEPT ![t] = kind]
  /\ Goto(t, "throw")

-----------------------------------------------------------------------------
(* The executor, as far as the operator can see it. *)

(* A worker picks up a source task and makes its first call to GetData. *)
StartSourceTask(t) ==
  /\ pc[t] = "idle" /\ ~working[t]
  /\ ~executorError
  /\ queued > 0
  /\ queued' = queued - 1
  /\ Goto(t, "enter")
  /\ UNCHANGED <<query, thrown, inTry, running, depth, working, fellBack,
                 executorError, stockVars>>

(* An error recorded anywhere interrupts the other tasks of the query      *)
(* before their next call into the operator.                               *)
StopOnError(t) ==
  /\ pc[t] = "enter"
  /\ executorError
  /\ Goto(t, "idle")
  /\ UNCHANGED <<query, queued, thrown, inTry, running, depth, working,
                 fellBack, executorError, stockVars>>

(* A task of the stock pipeline is taken by an idle worker, or by          *)
(* WorkOnTasks on a thread that drives or helps.                           *)
TakeStockTask(t) ==
  /\ pc[t] \in {"idle", "drive", "help"} /\ ~working[t]
  /\ ~executorError
  /\ stockQueued > 0
  /\ stockQueued' = stockQueued - 1
  /\ working' = [working EXCEPT ![t] = TRUE]
  /\ UNCHANGED <<query, queued, fellBack, executorError, pc, thrown, inTry,
                 running, depth, phase, collected, scanReady, scanned>>

(* Sink: the task appends its rows, or fails and the executor records it. *)
FinishStockTask(t) ==
  /\ working[t]
  /\ working' = [working EXCEPT ![t] = FALSE]
  /\ \/ collected' = collected + 1 /\ UNCHANGED executorError
     \/ executorError' = TRUE /\ UNCHANGED collected
  /\ UNCHANGED <<query, queued, fellBack, pc, thrown, inTry, running, depth,
                 phase, stockQueued, scanReady, scanned>>

(* WorkOnTasks may pick a source task of this very operator: a call into   *)
(* GetData on the thread that is already inside EmitFallback. The flag     *)
(* turns it away with FINISHED; without it the call would help in turn,    *)
(* one stack frame deeper.                                                 *)
Reenter(t) ==
  /\ pc[t] \in {"drive", "help"} /\ ~working[t]
  /\ ~executorError
  /\ queued > 0
  /\ queued' = queued - 1
  /\ IF running[t]
     THEN UNCHANGED <<running, depth>>
     ELSE /\ running' = [running EXCEPT ![t] = TRUE]
          /\ depth' = [depth EXCEPT ![t] = @ + 1]
  /\ UNCHANGED <<query, fellBack, executorError, pc, thrown, inTry, working,
                 stockVars>>

-----------------------------------------------------------------------------
(* GetDataInternal. *)

(* A thread that arrives after another has fallen back must not start the  *)
(* factorized path again.                                                  *)
EntryUnchecked == "factorized"    \* mutant

Entry == IF fellBack THEN "emit" ELSE "factorized"

(* Both calls of EmitFallback here stand outside the try. *)
AlwaysInTry == TRUE    \* mutant

CalledInTry == FALSE

Enter(t) ==
  /\ pc[t] = "enter"
  /\ ~executorError
  /\ Goto(t, Entry)
  /\ inTry' = [inTry EXCEPT ![t] = CalledInTry]
  /\ UNCHANGED <<query, queued, fellBack, executorError, thrown, running,
                 depth, working, stockVars>>

(* The catch: FATAL and INTERRUPT, and everything when there is nothing to *)
(* fall back to, leave the operator and fail the query. Anything else      *)
(* hands the query to the plan that was replaced.                          *)
RethrowsAnything(t) == thrown[t] # "none"    \* mutant

Rethrows(t) == ~query.fallback \/ thrown[t] = "fatal"

Catch(t) ==
  /\ pc[t] = "throw"
  /\ IF Rethrows(t)
     THEN executorError' = TRUE /\ Goto(t, "idle") /\ UNCHANGED fellBack
     ELSE fellBack' = TRUE /\ Goto(t, "emit") /\ UNCHANGED executorError
  /\ thrown' = [thrown EXCEPT ![t] = "none"]
  /\ inTry' = [inTry EXCEPT ![t] = CalledInTry]
  /\ UNCHANGED <<query, queued, running, depth, working, stockVars>>

-----------------------------------------------------------------------------
(* EmitFallback, DriveFallback, HelpFallback, ScanFallback. *)

(* Exactly one thread claims the driving, under the lock; the rest help.   *)
PhaseUnclaimed == phase    \* mutant

PhaseClaimed == IF phase = "NONE" THEN "RUNNING" ELSE phase

(* FallbackRunning: drivers and helpers alike are flagged while inside.    *)
FlaggedIfDriving == phase = "NONE"    \* mutant

Flagged == TRUE

EmitFallback(t) ==
  /\ pc[t] = "emit"
  /\ phase' = PhaseClaimed
  /\ Goto(t, IF phase = "NONE" THEN "ready" ELSE "help")
  /\ running' = [running EXCEPT ![t] = Flagged]
  /\ depth' = [depth EXCEPT ![t] = @ + 1]
  /\ UNCHANGED <<query, queued, fellBack, executorError, thrown, inTry,
                 working, stockQueued, collected, scanReady, scanned>>

(* Ready, reset and reschedule: the stock pipeline's tasks reach the queue. *)
ReadyFallback(t) ==
  /\ pc[t] = "ready"
  /\ stockQueued' = StockTasks
  /\ Goto(t, "drive")
  /\ UNCHANGED <<query, queued, fellBack, executorError, thrown, inTry,
                 running, depth, working, phase, collected, scanReady, scanned>>

(* Every event of the stock pipeline has finished. *)
StockQueueEmpty == stockQueued = 0    \* mutant

StockFinished == collected = StockTasks

(* Readying the pipeline, or opening the scan once it has finished, throws *)
(* on the driving thread itself.                                           *)
DriverThrows(t) ==
  /\ \/ pc[t] = "ready"
     \/ pc[t] = "drive" /\ ~working[t] /\ StockFinished
  /\ \E kind \in DriverErrors : thrown' = [thrown EXCEPT ![t] = kind]
  /\ Goto(t, "unwind")
  /\ UNCHANGED <<query, queued, fellBack, executorError, inTry, running, depth,
                 working, stockVars>>

(* executor.HasError(): the driver throws what a task had recorded. *)
DriverSeesError(t) ==
  /\ pc[t] = "drive" /\ ~working[t]
  /\ executorError
  /\ \E kind \in ErrorKinds : thrown' = [thrown EXCEPT ![t] = kind]
  /\ Goto(t, "unwind")
  /\ UNCHANGED <<query, queued, fellBack, executorError, inTry, running, depth,
                 working, stockVars>>

(* Every event has finished: the collected rows are ready to scan. *)
FinishDriving(t) ==
  /\ pc[t] = "drive" /\ ~working[t]
  /\ StockFinished
  /\ scanReady' = TRUE
  /\ phase' = "DONE"
  /\ running' = [running EXCEPT ![t] = FALSE]
  /\ depth' = [depth EXCEPT ![t] = @ - 1]
  /\ Goto(t, "scan")
  /\ UNCHANGED <<query, queued, fellBack, executorError, thrown, inTry,
                 working, stockQueued, collected, scanned>>

PhaseKept == phase    \* mutant

PhaseOnError == "FAILED"

(* catch (...) in DriveFallback: FAILED releases the helpers and the error *)
(* travels on, into GetDataInternal's catch when the frame is inside its   *)
(* try, out of the operator when it is not.                                *)
UnwindDriver(t) ==
  /\ pc[t] = "unwind"
  /\ phase' = PhaseOnError
  /\ running' = [running EXCEPT ![t] = FALSE]
  /\ depth' = [depth EXCEPT ![t] = @ - 1]
  /\ IF inTry[t]
     THEN Goto(t, "throw") /\ UNCHANGED <<thrown, executorError>>
     ELSE /\ Goto(t, "idle")
          /\ thrown' = [thrown EXCEPT ![t] = "none"]
          /\ executorError' = TRUE
  /\ UNCHANGED <<query, queued, fellBack, inTry, working, stockQueued,
                 collected, scanReady, scanned>>

(* A helper leaves its loop when the phase is no longer RUNNING. *)
HelperReturns(t) ==
  /\ pc[t] = "help" /\ ~working[t]
  /\ phase # "RUNNING"
  /\ running' = [running EXCEPT ![t] = FALSE]
  /\ depth' = [depth EXCEPT ![t] = @ - 1]
  /\ Goto(t, "scan")
  /\ UNCHANGED <<query, queued, fellBack, executorError, thrown, inTry,
                 working, stockVars>>

(* Hands out the next chunk, or FINISHED when there is none to hand out.   *)
ScanFallback(t) ==
  /\ pc[t] = "scan"
  /\ IF scanReady /\ scanned < collected
     THEN scanned' = scanned + 1 /\ Goto(t, "enter")
     ELSE UNCHANGED scanned /\ Goto(t, "idle")
  /\ UNCHANGED <<query, queued, fellBack, executorError, thrown, inTry,
                 running, depth, working, phase, stockQueued, collected,
                 scanReady>>

-----------------------------------------------------------------------------
(* One step of thread t inside this module's code. *)
PlanStep(t) ==
  \/ StartSourceTask(t) \/ StopOnError(t) \/ TakeStockTask(t)
  \/ FinishStockTask(t) \/ Reenter(t)
  \/ Enter(t) \/ Catch(t)
  \/ EmitFallback(t) \/ ReadyFallback(t) \/ DriverThrows(t)
  \/ DriverSeesError(t) \/ FinishDriving(t) \/ UnwindDriver(t)
  \/ HelperReturns(t) \/ ScanFallback(t)

(* Nothing of the query is left to run: every source task has finished, or *)
(* an error was recorded and those not yet started are cancelled.          *)
QueryOver ==
  /\ queued = 0 \/ executorError
  /\ \A t \in Threads : pc[t] = "idle" /\ ~working[t]
-----------------------------------------------------------------------------
Labels == {"idle", "enter", "factorized", "inputs", "count", "atMost", "fold",
           "publish", "claim", "wait", "hand", "throw", "emit", "ready",
           "drive", "help", "unwind", "scan"}

PlanTypeOK ==
  /\ query \in Queries
  /\ pc \in [Threads -> Labels]
  /\ thrown \in [Threads -> ErrorKinds \cup {"none"}]
  /\ inTry \in [Threads -> BOOLEAN]
  /\ running \in [Threads -> BOOLEAN]
  /\ depth \in [Threads -> Nat]
  /\ working \in [Threads -> BOOLEAN]
  /\ queued \in Nat
  /\ fellBack \in BOOLEAN
  /\ phase \in Phases
  /\ stockQueued \in Nat
  /\ collected \in Nat
  /\ scanReady \in BOOLEAN
  /\ scanned \in Nat
  /\ executorError \in BOOLEAN

(* Exactly one thread drives the stock plan while the phase says that it   *)
(* is running, so a helper is never left waiting for a phase that nobody   *)
(* is going to change (EmitFallback's claim, DriveFallback's catch).       *)
OneDriver ==
  /\ phase = "RUNNING" <=> \E t \in Threads : Driving(t)
  /\ \A t, u \in Threads : Driving(t) /\ Driving(u) => t = u

(* A task that re-enters the operator on a thread already inside           *)
(* EmitFallback never adds a frame to that thread's stack, and a thread    *)
(* that has left is never still flagged (fallback_running).                *)
NoNestedFrames ==
  \A t \in Threads :
    /\ depth[t] = IF Driving(t) \/ Helping(t) THEN 1 ELSE 0
    /\ running[t] <=> depth[t] > 0

(* With a plan to fall back to, a query only fails by a FATAL or INTERRUPT *)
(* error of its own, or by an error met while the stock plan is running.   *)
OnlySeriousErrorsSurface ==
  [][ query.fallback /\ ~executorError /\ executorError'
        => \/ phase = "RUNNING"
           \/ \E t \in Threads : pc[t] = "throw" /\ thrown[t] = "fatal"
    ]_planVars

(* An error of the thread that drives the stock plan fails the query.      *)
DriverErrorFailsQuery == QueryOver /\ phase = "FAILED" => executorError

(* Every query comes to an end. *)
QueryEnds == <>QueryOver
=============================================================================
