------------------------- MODULE Coordinator_proofs -------------------------
(***************************************************************************)
(* An analysis run reports every graph once, finds the entry of each result *)
(* that comes in, and leaves no function out: for any number of functions,  *)
(* evaluators, workers and paths.                                           *)
(*                                                                          *)
(* The argument: a task is in one place at a time; a graph that was yielded *)
(* is with the coordinator, in the tracker or reported, and in one of them  *)
(* only; what the tracker waits for is exactly what the pool still has of   *)
(* evaluations; and while a function is left to schedule and the            *)
(* coordinator waits for results, the pool has some work.                   *)
(***************************************************************************)
EXTENDS Coordinator, FiniteSetTheorems, TLAPS

(***************************************************************************)
(* The inductive invariant: the pool.                                       *)
(***************************************************************************)

PoolTypes ==
  /\ aTasks \in Seq(TaskRecords)
  /\ aResults \in Seq(Results)
  /\ dwNumActive \in Int
  /\ worker \in [Threads -> WorkerStates]
  /\ stTask \in [Threads -> Tasks \cup {NULL}]
  /\ owner \in OwnerStates

\* A worker holds a task exactly while it executes one.
Holding ==
  \A w \in Threads :
    IF worker[w] \in {"executing", "finished"} THEN stTask[w] \in Tasks
                                               ELSE stTask[w] = NULL

\* Nobody calls Synchronize.
NoBarrier ==
  /\ \A i \in 1..Len(aTasks) : aTasks[i].eSpecial # "SYNCHRONIZE"
  /\ \A w \in Threads : worker[w] \notin {"syncWait", "syncNotified"}
  /\ owner \notin {"syncWait", "syncWoken"}

OwnerLeft == owner \in {"null", "joining", "destroyed"}

\* Once WaitForResult has returned nullptr, nobody has work.
AtRest ==
  OwnerLeft =>
    /\ aResults = <<>>
    /\ \A w \in Threads : worker[w] \in {"unborn", "waiting", "notified", "exited"}
    /\ \A i \in 1..Len(aTasks) : aTasks[i].eSpecial = "EXIT"

\* The calls that the coordinator makes, by where it is.
OwnerFollows ==
  /\ coordinator \in {"starting", "evaluators", "next"} => owner = "idle"
  /\ coordinator = "collecting" => owner \in {"idle", "yieldWait", "yieldWoken"}
  /\ coordinator = "finished" => OwnerLeft

PoolInv == PoolTypes /\ Holding /\ NoBarrier /\ ActiveIsAwake /\ AtRest /\ OwnerFollows

(***************************************************************************)
(* The inductive invariant: where tasks and results are.                    *)
(***************************************************************************)

NormalIndices == {i \in 1..Len(aTasks) : aTasks[i].eSpecial = "NORMAL"}
Queued == {aTasks[i].oTask : i \in NormalIndices}
Executing == {w \in Threads : worker[w] = "executing"}
Running == {stTask[w] : w \in Executing}
Active == Queued \cup Running
Ready == {aResults[i] : i \in 1..Len(aResults)}

\* A task is in one place, and so is a result.
QueuedOnce ==
  \A i, j \in NormalIndices : aTasks[i].oTask = aTasks[j].oTask => i = j
RunOnce == \A v, w \in Executing : stTask[v] = stTask[w] => v = w
ReadyOnce ==
  \A i, j \in 1..Len(aResults) :
    aResults[i] = aResults[j] /\ aResults[i] # AnalysisError => i = j
Places == QueuedOnce /\ RunOnce /\ ReadyOnce /\ Queued \cap Running = {}

(***************************************************************************)
(* The inductive invariant: the coordinator and the dialog.                 *)
(***************************************************************************)

Signals == {ResultReady(g) : g \in BuildTasks} \cup {NextFunction, CoordinatorFinished}

CoordinatorTypes ==
  /\ coordinator \in {"starting", "collecting", "evaluators", "next", "finished"}
  /\ aFunctionList \in Seq(Functions)
  /\ DOMAIN aResultTracker \subseteq BuildTasks
  /\ aResultTracker = [g \in DOMAIN aResultTracker |-> aResultTracker[g]]
  /\ \A g \in DOMAIN aResultTracker :
       aResultTracker[g] \subseteq Evaluators /\ aResultTracker[g] # {}
  /\ numBuilds \in [Functions -> Nat]
  /\ signals \in Seq(Signals)
  /\ lpResultsTable \in Seq(BuildTasks)
  /\ yielded \subseteq BuildTasks

\* The graph whose evaluators are being scheduled, from the first one on.
InEvaluators ==
  IF coordinator = "evaluators"
  THEN /\ oCodeGraph \in BuildTasks
       /\ \E k \in 0..(NumEvaluators - 1) : oAnalysisResult = 1..k
  ELSE oCodeGraph = NULL /\ oAnalysisResult = {}

\* A build task that was made: those of a function are numbered.
Made(g) == g.path <= numBuilds[g.lpFunction]

Reported == Shown \cup OnTheWay

\* A build task is active, or it has ended, with a graph or an error; a graph
\* is a result, with the coordinator, in the tracker, or reported.
Graphs ==
  /\ \A g \in BuildTasks : g \in Active => Made(g) /\ g \notin yielded
  /\ \A g \in yielded : Made(g)
  /\ \A g \in BuildTasks : CodeGraph(g) \in Ready =>
       /\ g \in yielded /\ g # oCodeGraph
       /\ g \notin DOMAIN aResultTracker /\ g \notin Reported
  /\ oCodeGraph # NULL =>
       /\ oCodeGraph \in yielded
       /\ oCodeGraph \notin DOMAIN aResultTracker /\ oCodeGraph \notin Reported
  /\ \A g \in DOMAIN aResultTracker : g \in yielded /\ g \notin Reported
  /\ Reported \subseteq yielded
  /\ \A g \in yielded : \/ CodeGraph(g) \in Ready \/ g = oCodeGraph
                        \/ g \in DOMAIN aResultTracker \/ g \in Reported

\* The evaluator is one whose result is not set.
Expected(g, e) ==
  \/ g \in DOMAIN aResultTracker /\ e \in aResultTracker[g]
  \/ g = oCodeGraph /\ e \in oAnalysisResult

\* The pool has the evaluations that are expected: to do, or done.
Evaluations ==
  \A g \in BuildTasks, e \in Evaluators :
    /\ Expected(g, e) <=> \/ Evaluate(g, e) \in Active
                          \/ EvaluationResult(g, e) \in Ready
    /\ ~(Evaluate(g, e) \in Active /\ EvaluationResult(g, e) \in Ready)

\* The functions that are left have no task; the others have one.
FunctionsLeft ==
  /\ IsInjective(aFunctionList)
  /\ \A f \in ToSet(aFunctionList) : numBuilds[f] = 0
  /\ \A f \in ToSet(Selection) : f \in ToSet(aFunctionList) \/ numBuilds[f] # 0
  /\ coordinator = "finished" => aFunctionList = <<>>

\* While functions are left, a result will come.
SomethingToCome ==
  coordinator = "collecting" /\ aFunctionList # <<>> =>
    aTasks # <<>> \/ Executing # {} \/ aResults # <<>>

NextSignals == {i \in 1..Len(signals) : signals[i] = NextFunction}

\* The signals tell the dialog what there is to tell; the last one is the last.
FunctionsCounted == dwNumFunctionsLeft = Len(aFunctionList) + Cardinality(NextSignals)
FinishedIsLast ==
  \A i \in 1..Len(signals) : signals[i] = CoordinatorFinished =>
    i = Len(signals) /\ coordinator = "finished"
SaysComplete == lpProgressHeader = "Analysis complete"
CompleteIsLast == SaysComplete => coordinator = "finished" /\ signals = <<>>
Signalled == FunctionsCounted /\ FinishedIsLast /\ CompleteIsLast

CoordinatorInv ==
  CoordinatorTypes /\ InEvaluators /\ FunctionsLeft /\ Signalled /\ ReportedOnce

GraphsInv == Places /\ Graphs /\ Evaluations /\ SomethingToCome

IInv == PoolInv /\ CoordinatorInv /\ GraphsInv

-----------------------------------------------------------------------------
(* Tasks, results and the queue *)

\* What tasks and results are named by.
LEMMA TaskFacts ==
  /\ \A f \in Functions, n \in 1..MaxBuilds :
       /\ Build(f, n) \in BuildTasks
       /\ Build(f, n).lpFunction = f /\ Build(f, n).path = n
  /\ \A g \in BuildTasks : /\ g.kind = "build" /\ g \in Tasks /\ g # NULL
                           /\ g.lpFunction \in Functions /\ g.path \in 1..MaxBuilds
                           /\ CodeGraph(g) \in Results
  /\ \A g \in BuildTasks, e \in Evaluators :
       /\ Evaluate(g, e) \in EvaluateTasks
       /\ Evaluate(g, e).oCodeGraph = g /\ Evaluate(g, e).oEvaluator = e
       /\ EvaluationResult(g, e) \in Results
  /\ \A t \in EvaluateTasks : /\ t.kind = "evaluate" /\ t \in Tasks
                              /\ t.oCodeGraph \in BuildTasks /\ t.oEvaluator \in Evaluators
                              /\ t = Evaluate(t.oCodeGraph, t.oEvaluator)
  /\ \A t \in Tasks : /\ t \in BuildTasks \cup EvaluateTasks
                      /\ t.kind = "build" => t \in BuildTasks
                      /\ t.kind = "evaluate" => t \in EvaluateTasks
<1>1. \A f \in Functions, n \in 1..MaxBuilds :
        /\ Build(f, n) \in BuildTasks
        /\ Build(f, n).lpFunction = f /\ Build(f, n).path = n
  BY DEF Build, BuildTasks
<1>2. \A g \in BuildTasks : /\ g.kind = "build" /\ g \in Tasks /\ g # NULL
                            /\ g.lpFunction \in Functions /\ g.path \in 1..MaxBuilds
  BY TasksAssumption, NullAssumption DEF BuildTasks
<1>3. \A g \in BuildTasks : CodeGraph(g) \in Results
  BY RunResultsAssumption DEF RunResults
<1>4. \A g \in BuildTasks, e \in Evaluators :
        /\ Evaluate(g, e) \in EvaluateTasks
        /\ Evaluate(g, e).oCodeGraph = g /\ Evaluate(g, e).oEvaluator = e
  BY DEF Evaluate, EvaluateTasks
<1>5. \A g \in BuildTasks, e \in Evaluators : EvaluationResult(g, e) \in Results
  <2> SUFFICES ASSUME NEW g \in BuildTasks, NEW e \in Evaluators
               PROVE  EvaluationResult(g, e) \in Results
    OBVIOUS
  <2> QED  BY <1>4, RunResultsAssumption, Zenon DEF RunResults
<1>6. \A t \in EvaluateTasks : /\ t.kind = "evaluate" /\ t \in Tasks
                               /\ t.oCodeGraph \in BuildTasks /\ t.oEvaluator \in Evaluators
                               /\ t = Evaluate(t.oCodeGraph, t.oEvaluator)
  BY TasksAssumption DEF Evaluate, EvaluateTasks
<1>7. \A t \in Tasks : /\ t \in BuildTasks \cup EvaluateTasks
                       /\ t.kind = "build" => t \in BuildTasks
                       /\ t.kind = "evaluate" => t \in EvaluateTasks
  BY TasksAssumption DEF BuildTasks, EvaluateTasks
<1> QED  BY <1>1, <1>2, <1>3, <1>4, <1>5, <1>6, <1>7

\* Different results are told apart.
LEMMA ResultFacts ==
  /\ AnalysisError \in Results
  /\ \A g, h : CodeGraph(g) = CodeGraph(h) => g = h
  /\ \A g, e, h, d : EvaluationResult(g, e) = EvaluationResult(h, d) => g = h /\ e = d
  /\ \A g : CodeGraph(g) # AnalysisError
  /\ \A g, h, e : /\ EvaluationResult(g, e) # CodeGraph(h)
                  /\ EvaluationResult(g, e) # AnalysisError
<1>1. AnalysisError \in Results
  BY RunResultsAssumption DEF RunResults
<1>2. \A g : CodeGraph(g).dwType = "CODE_GRAPH" /\ CodeGraph(g).oCodeGraph = g
  BY DEF CodeGraph
<1>3. \A g, e : /\ EvaluationResult(g, e).dwType = "EVALUATION_RESULT"
                /\ EvaluationResult(g, e).oCodeGraph = g
                /\ EvaluationResult(g, e).oEvaluator = e
  BY DEF EvaluationResult
<1>4. AnalysisError.dwType = "ANALYSIS_ERROR"
  BY DEF AnalysisError
<1> QED  BY <1>1, <1>2, <1>3, <1>4

\* A result is an error, a graph or an evaluation, and its type says which.
LEMMA ResultCases ==
  ASSUME NEW r \in Results
  PROVE  \/ r = AnalysisError
         \/ \E g \in BuildTasks : r = CodeGraph(g)
         \/ \E g \in BuildTasks, e \in Evaluators : r = EvaluationResult(g, e)
<1>1. CASE r \in {EvaluationResult(t.oCodeGraph, t.oEvaluator) : t \in EvaluateTasks}
  BY <1>1, TaskFacts
<1> QED  BY <1>1, RunResultsAssumption DEF RunResults

\* A record in the queue is a task of a kind of its own.
LEMMA QueueType ==
  /\ \A t \in Tasks : /\ NormalTask(t) \in TaskRecords
                      /\ NormalTask(t).eSpecial = "NORMAL" /\ NormalTask(t).oTask = t
  /\ SpecialTask("EXIT") \in TaskRecords /\ SpecialTask("EXIT").eSpecial = "EXIT"
  /\ \A x \in TaskRecords : x.eSpecial = "NORMAL" => x.oTask \in Tasks
<1>1. \A t \in Tasks : NormalTask(t) \in TaskRecords
  BY Zenon DEF NormalTask, TaskRecords
<1>2. SpecialTask("EXIT") \in TaskRecords
  BY Zenon DEF SpecialTask, TaskRecords
<1>3. \A t : NormalTask(t).eSpecial = "NORMAL" /\ NormalTask(t).oTask = t
  BY DEF NormalTask
<1>4. SpecialTask("EXIT").eSpecial = "EXIT"
  BY DEF SpecialTask
<1>5. \A x \in TaskRecords : x.eSpecial = "NORMAL" => x.oTask \in Tasks
  BY DEF TaskRecords
<1> QED  BY <1>1, <1>2, <1>3, <1>4, <1>5

\* A record is appended to the queue.
LEMMA EnqueueElements ==
  ASSUME PoolTypes, NEW task \in TaskRecords, Enqueue(task)
  PROVE  /\ Len(aTasks) \in Nat /\ aTasks' \in Seq(TaskRecords)
         /\ Len(aTasks') = Len(aTasks) + 1
         /\ \A i \in 1..Len(aTasks) : aTasks'[i] = aTasks[i]
         /\ aTasks'[Len(aTasks) + 1] = task
BY DEF PoolTypes, Enqueue

\* The head of the queue is removed.
LEMMA DequeueElements ==
  ASSUME PoolTypes, aTasks # <<>>, Dequeue
  PROVE  /\ Len(aTasks) \in Nat \ {0} /\ aTasks' \in Seq(TaskRecords)
         /\ Len(aTasks') = Len(aTasks) - 1
         /\ \A i \in 1..Len(aTasks') : aTasks'[i] = aTasks[i + 1]
         /\ Head(aTasks) = aTasks[1]
BY DEF PoolTypes, Dequeue

-----------------------------------------------------------------------------
(* The pool *)

\* What a step of the analysis is for the pool.
ScheduleStep ==
  /\ UNCHANGED owner
  /\ ~OwnerLeft \/ Executing # {}
  /\ \E t \in Tasks : \/ Schedule(t)
                      \/ \E b \in BOOLEAN : ScheduleIfResourceAvailable(t, b)

OwnerStep ==
  \/ \E r \in Results : TakeResult(r)
  \/ AwaitYield
  \/ ReturnNull
  \/ owner = "null" /\ Destroy
  \/ JoinThreads

PoolStep ==
  \/ ScheduleStep
  \/ OwnerStep
  \/ \E w \in Threads : WorkerStep(w) \/ \E r \in Results : YieldResult(w, r)
  \/ SpuriousWakeup
  \/ UNCHANGED poolVars

LEMMA StepOfPool ==
  ASSUME PoolInv, CoordinatorTypes, InEvaluators, [Next]_vars
  PROVE  PoolStep
<1>1. CASE ScheduleNextFunction
  <2>1. UNCHANGED owner /\ ~OwnerLeft
    BY <1>1 DEF ScheduleNextFunction, PoolInv, OwnerFollows, OwnerLeft
  <2>2. CASE NoFunctionLeft
    BY <2>1, <2>2 DEF NoFunctionLeft, PoolStep, poolVars
  <2>3. ASSUME NEW b \in BOOLEAN, ScheduleFirstFunction(b)  PROVE  PoolStep
    <3>1. Head(aFunctionList) \in Functions
      BY <2>3 DEF ScheduleFirstFunction, CoordinatorTypes
    <3>2. Build(Head(aFunctionList), 1) \in Tasks
      BY <3>1, TaskFacts, MaxBuildsAssumption
    <3> QED  BY <2>1, <2>3, <3>2 DEF ScheduleFirstFunction, PoolStep, ScheduleStep
  <2> QED  BY <1>1, <2>2, <2>3 DEF ScheduleNextFunction
<1>2. CASE ScheduleEvaluate
  <2>1. UNCHANGED owner /\ ~OwnerLeft
    BY <1>2 DEF ScheduleEvaluate, PoolInv, OwnerFollows, OwnerLeft
  <2>2. oCodeGraph \in BuildTasks /\ Cardinality(oAnalysisResult) + 1 \in Evaluators
    <3>1. PICK k \in 0..(NumEvaluators - 1) : oAnalysisResult = 1..k
      BY <1>2 DEF ScheduleEvaluate, InEvaluators
    <3>2. Cardinality(oAnalysisResult) = k
      BY <3>1, FS_Interval, EvaluatorsAssumption
    <3> QED  BY <1>2, <3>2, EvaluatorsAssumption DEF ScheduleEvaluate, InEvaluators, Evaluators
  <2>3. Evaluate(oCodeGraph, Cardinality(oAnalysisResult) + 1) \in Tasks
    BY <2>2, TaskFacts
  <2> QED  BY <1>2, <2>1, <2>3 DEF ScheduleEvaluate, PoolStep, ScheduleStep
<1>3. CASE CollectError
  BY <1>3, ResultFacts DEF CollectError, PoolStep, OwnerStep
<1>4. CASE CollectGraph
  BY <1>4, TaskFacts DEF CollectGraph, PoolStep, OwnerStep
<1>5. CASE CollectEvaluation
  BY <1>5, TaskFacts DEF CollectEvaluation, PoolStep, OwnerStep
<1>6. CASE AwaitResult \/ Finish
  BY <1>6 DEF AwaitResult, Finish, PoolStep, OwnerStep
<1>7. ASSUME NEW w \in Threads, PoolWorkerStep(w)  PROVE  PoolStep
  <2>1. CASE BuilderYields(w)
    <3>1. stTask[w] \in BuildTasks
      BY <2>1, TaskFacts DEF BuilderYields, PoolInv, Holding
    <3> QED  BY <2>1, <3>1, TaskFacts, ResultFacts DEF BuilderYields, PoolStep
  <2>2. CASE EvaluatorYields(w)
    <3>1. stTask[w] \in EvaluateTasks
      BY <2>2, TaskFacts DEF EvaluatorYields, PoolInv, Holding
    <3>2. EvaluationResult(stTask[w].oCodeGraph, stTask[w].oEvaluator) \in Results
      BY <3>1, TaskFacts
    <3> QED  BY <2>2, <3>2 DEF EvaluatorYields, PoolStep
  <2> QED  BY <1>7, <2>1, <2>2 DEF PoolWorkerStep, PoolStep
<1>8. ASSUME NEW w \in Threads, BuilderForks(w)  PROVE  PoolStep
  <2>1. stTask[w] \in BuildTasks /\ w \in Executing
    BY <1>8, TaskFacts DEF BuilderForks, PoolInv, Holding, Executing
  <2>2. PICK f \in Functions : /\ numBuilds[f] < MaxBuilds
                               /\ Schedule(Build(f, numBuilds[f] + 1))
    BY <1>8, <2>1, TaskFacts DEF BuilderForks
  <2>3. Build(f, numBuilds[f] + 1) \in Tasks
    <3>1. numBuilds[f] + 1 \in 1..MaxBuilds
      BY <2>2, MaxBuildsAssumption DEF CoordinatorTypes
    <3>2. \A n \in 1..MaxBuilds : Build(f, n) \in Tasks
      BY TaskFacts
    <3> QED  BY <3>1, <3>2
  <2> QED  BY <1>8, <2>1, <2>2, <2>3 DEF BuilderForks, PoolStep, ScheduleStep
<1>9. CASE GuiStep \/ UNCHANGED vars
  BY <1>9 DEF GuiStep, PoolStep, vars
<1>10. CASE DropPool
  BY <1>10 DEF DropPool, PoolStep, OwnerStep
<1>11. CASE SpuriousWakeup
  BY <1>11 DEF PoolStep
<1> QED  BY <1>1, <1>2, <1>3, <1>4, <1>5, <1>6, <1>7, <1>8, <1>9, <1>10, <1>11
         DEF Next, CoordinatorStep

\* Every step keeps the pool's types.
LEMMA PoolTypesStep ==
  ASSUME PoolTypes, Holding, PoolStep
  PROVE  PoolTypes'
<1>1. ASSUME NEW t \in Tasks, Schedule(t), UNCHANGED owner  PROVE  PoolTypes'
  <2>1. aTasks' \in Seq(TaskRecords)
    BY <1>1, QueueType, EnqueueElements DEF Schedule
  <2>2. worker' \in [Threads -> WorkerStates] /\ dwNumActive' \in Int
    BY <1>1, NumThreadsAssumption
    DEF PoolTypes, Schedule, StartThreads, NotifyOne, Waiters, WorkerStates
  <2> QED  BY <1>1, <2>1, <2>2 DEF PoolTypes, Schedule
<1>2. ASSUME NEW t \in Tasks, NEW b \in BOOLEAN, ScheduleIfResourceAvailable(t, b),
             UNCHANGED owner
      PROVE  PoolTypes'
  <2>1. aTasks' \in Seq(TaskRecords)
    BY <1>2, QueueType, EnqueueElements DEF ScheduleIfResourceAvailable, PoolTypes
  <2>2. worker' \in [Threads -> WorkerStates] /\ dwNumActive' \in Int
    BY <1>2, NumThreadsAssumption
    DEF PoolTypes, ScheduleIfResourceAvailable, StartThreads, WorkerStates
  <2> QED  BY <1>2, <2>1, <2>2 DEF PoolTypes, ScheduleIfResourceAvailable
<1>3. CASE OwnerStep
  <2>1. CASE owner = "null" /\ Destroy
    BY <2>1, QueueType, EnqueueElements
    DEF PoolTypes, Destroy, WakeAllWaiters, WorkerStates, OwnerStates
  <2>2. ASSUME NEW r \in Results, TakeResult(r)  PROVE  PoolTypes'
    BY <2>2 DEF PoolTypes, TakeResult, OwnerStates
  <2>3. CASE AwaitYield \/ ReturnNull \/ JoinThreads
    BY <2>3 DEF PoolTypes, ReturnNull, AwaitYield, JoinThreads, OwnerStates
  <2> QED  BY <1>3, <2>1, <2>2, <2>3 DEF OwnerStep
<1>4. ASSUME NEW w \in Threads, WorkerStep(w)  PROVE  PoolTypes'
  <2>1. CASE WorkerWait(w)
    BY <2>1 DEF PoolTypes, WorkerWait, ActiveOnEntry, WakeOwner, WorkerStates, OwnerStates
  <2>2. CASE WorkerTake(w)
    <3>1. Head(aTasks).oTask \in Tasks
      BY <2>2, QueueType DEF WorkerTake, PoolTypes
    <3> QED  BY <2>2, <3>1, DequeueElements
             DEF PoolTypes, WorkerTake, ActiveOnEntry, WorkerStates
  <2>3. CASE WorkerAwaitBarrier(w) \/ WorkerLeaveBarrier(w) \/ WorkerExit(w) \/ ExecuteReturn(w)
    BY <2>3 DEF PoolTypes, WorkerAwaitBarrier, WorkerLeaveBarrier, WorkerExit, ExecuteReturn,
                ActiveOnEntry, WorkerStates
  <2>4. CASE WorkerReleaseBarrier(w)
    BY <2>4, DequeueElements
    DEF PoolTypes, WorkerReleaseBarrier, ActiveOnEntry, WorkerStates, OwnerStates
  <2> QED  BY <1>4, <2>1, <2>2, <2>3, <2>4 DEF WorkerStep
<1>5. ASSUME NEW w \in Threads, NEW r \in Results, YieldResult(w, r)  PROVE  PoolTypes'
  BY <1>5 DEF PoolTypes, YieldResult, WakeOwner, WorkerStates, OwnerStates
<1>6. CASE SpuriousWakeup
  BY <1>6 DEF PoolTypes, SpuriousWakeup, SpuriousOwner, SpuriousWorker, WorkerStates, OwnerStates
<1>7. CASE UNCHANGED poolVars
  BY <1>7 DEF PoolTypes, poolVars
<1> QED  BY <1>1, <1>2, <1>3, <1>4, <1>5, <1>6, <1>7 DEF PoolStep, ScheduleStep

\* After a step, too, a worker holds a task exactly while it executes one.
LEMMA HoldingStep ==
  ASSUME PoolTypes, Holding, PoolStep
  PROVE  Holding'
<1>1. ASSUME NEW t \in Tasks, Schedule(t)  PROVE  Holding'
  BY <1>1 DEF PoolTypes, Holding, Schedule, StartThreads, Started, NotifyOne, Waiters
<1>2. ASSUME NEW t \in Tasks, NEW b \in BOOLEAN, ScheduleIfResourceAvailable(t, b)
      PROVE  Holding'
  BY <1>2 DEF PoolTypes, Holding, ScheduleIfResourceAvailable, StartThreads, Started
<1>3. CASE OwnerStep
  BY <1>3 DEF PoolTypes, Holding, OwnerStep, TakeResult, AwaitYield, ReturnNull, Destroy,
              WakeAllWaiters, JoinThreads
<1>4. ASSUME NEW w \in Threads, WorkerStep(w)  PROVE  Holding'
  <2>1. CASE WorkerTake(w)
    <3>1. Head(aTasks).oTask \in Tasks
      BY <2>1, QueueType DEF WorkerTake, PoolTypes
    <3> QED  BY <2>1, <3>1 DEF PoolTypes, Holding, WorkerTake
  <2>2. CASE WorkerReleaseBarrier(w)
    BY <2>2 DEF PoolTypes, Holding, WorkerReleaseBarrier, AtQueue
  <2>3. CASE WorkerWait(w) \/ WorkerAwaitBarrier(w) \/ WorkerLeaveBarrier(w)
               \/ WorkerExit(w) \/ ExecuteReturn(w)
    BY <2>3 DEF PoolTypes, Holding, WorkerWait, WorkerAwaitBarrier, WorkerLeaveBarrier,
                WorkerExit, ExecuteReturn, AtQueue
  <2> QED  BY <1>4, <2>1, <2>2, <2>3 DEF WorkerStep
<1>5. ASSUME NEW w \in Threads, NEW r \in Results, YieldResult(w, r)  PROVE  Holding'
  BY <1>5 DEF PoolTypes, Holding, YieldResult
<1>6. CASE SpuriousWakeup
  BY <1>6 DEF PoolTypes, Holding, SpuriousWakeup, SpuriousOwner, SpuriousWorker
<1>7. CASE UNCHANGED poolVars
  BY <1>7 DEF Holding, poolVars
<1> QED  BY <1>1, <1>2, <1>3, <1>4, <1>5, <1>6, <1>7 DEF PoolStep, ScheduleStep

\* What a step does to the queue: it stays, grows by a task, or by the exit
\* task, or loses its head.
LEMMA QueueStep ==
  ASSUME PoolTypes, NoBarrier, PoolStep
  PROVE  \/ aTasks' = aTasks
         \/ \E t \in Tasks : Enqueue(NormalTask(t)) /\ (~OwnerLeft \/ Executing # {})
         \/ Enqueue(SpecialTask("EXIT")) /\ OwnerLeft
         \/ Dequeue /\ aTasks # <<>>
<1>1. CASE ScheduleStep
  BY <1>1 DEF ScheduleStep, Schedule, ScheduleIfResourceAvailable
<1>2. CASE OwnerStep
  BY <1>2 DEF OwnerStep, TakeResult, AwaitYield, ReturnNull, Destroy, JoinThreads, OwnerLeft
<1>3. ASSUME NEW w \in Threads, WorkerStep(w)  PROVE  aTasks' = aTasks \/ (Dequeue /\ aTasks # <<>>)
  BY <1>3 DEF WorkerStep, WorkerWait, WorkerTake, WorkerAwaitBarrier, WorkerReleaseBarrier,
              WorkerLeaveBarrier, WorkerExit, ExecuteReturn
<1>4. CASE UNCHANGED poolVars \/ SpuriousWakeup
  BY <1>4 DEF poolVars, SpuriousWakeup, SpuriousOwner, SpuriousWorker
<1>5. ASSUME NEW w \in Threads, NEW r \in Results, YieldResult(w, r)  PROVE  aTasks' = aTasks
  BY <1>5 DEF YieldResult
<1> QED  BY <1>1, <1>2, <1>3, <1>4, <1>5 DEF PoolStep

\* No barrier is ever queued.
LEMMA NoBarrierStep ==
  ASSUME PoolTypes, NoBarrier, PoolStep
  PROVE  NoBarrier'
<1>1. \A i \in 1..Len(aTasks') : aTasks'[i].eSpecial # "SYNCHRONIZE"
  <2>1. ASSUME NEW t \in Tasks, Enqueue(NormalTask(t))
        PROVE  \A i \in 1..Len(aTasks') : aTasks'[i].eSpecial # "SYNCHRONIZE"
    BY <2>1, QueueType, EnqueueElements DEF NoBarrier
  <2>2. CASE Enqueue(SpecialTask("EXIT"))
    BY <2>2, QueueType, EnqueueElements DEF NoBarrier
  <2>3. CASE Dequeue /\ aTasks # <<>>
    BY <2>3, DequeueElements DEF NoBarrier
  <2> QED  BY <2>1, <2>2, <2>3, QueueStep DEF NoBarrier
<1>2. /\ \A w \in Threads : worker'[w] \notin {"syncWait", "syncNotified"}
      /\ owner' \notin {"syncWait", "syncWoken"}
  <2>1. CASE ScheduleStep
    BY <2>1 DEF PoolTypes, NoBarrier, ScheduleStep, Schedule, ScheduleIfResourceAvailable, StartThreads,
                NotifyOne, Waiters
  <2>2. CASE OwnerStep
    BY <2>2 DEF PoolTypes, NoBarrier, OwnerStep, TakeResult, AwaitYield, ReturnNull, Destroy,
                WakeAllWaiters, JoinThreads
  <2>3. ASSUME NEW w \in Threads, WorkerStep(w)
        PROVE  /\ \A v \in Threads : worker'[v] \notin {"syncWait", "syncNotified"}
               /\ owner' \notin {"syncWait", "syncWoken"}
    <3>1. aTasks # <<>> => Head(aTasks).eSpecial # "SYNCHRONIZE"
      BY DEF PoolTypes, NoBarrier
    <3> QED  BY <2>3, <3>1 DEF PoolTypes, NoBarrier, WorkerStep, WorkerWait, WakeOwner, WorkerTake,
                WorkerAwaitBarrier, WorkerReleaseBarrier, WorkerLeaveBarrier, WorkerExit,
                ExecuteReturn
  <2>4. ASSUME NEW w \in Threads, NEW r \in Results, YieldResult(w, r)
        PROVE  /\ \A v \in Threads : worker'[v] \notin {"syncWait", "syncNotified"}
               /\ owner' \notin {"syncWait", "syncWoken"}
    BY <2>4 DEF PoolTypes, NoBarrier, YieldResult, WakeOwner
  <2>5. CASE SpuriousWakeup \/ UNCHANGED poolVars
    BY <2>5 DEF PoolTypes, NoBarrier, SpuriousWakeup, SpuriousOwner, SpuriousWorker, poolVars
  <2> QED  BY <2>1, <2>2, <2>3, <2>4, <2>5 DEF PoolStep
<1> QED  BY <1>1, <1>2 DEF NoBarrier

\* There are NumThreads threads, and so many are awake at most.
LEMMA AwakeFinite ==
  /\ IsFiniteSet(Threads) /\ Cardinality(Threads) = NumThreads
  /\ IsFiniteSet(Awake) /\ Cardinality(Awake) \in Nat
<1>1. IsFiniteSet(Threads) /\ Cardinality(Threads) = NumThreads
  BY FS_Interval, NumThreadsAssumption DEF Threads
<1> QED  BY <1>1, FS_Subset, FS_CardinalityType DEF Awake

\* dwNumActive stays the number of workers that are awake.
LEMMA ActiveStep ==
  ASSUME PoolTypes, ActiveIsAwake, PoolStep
  PROVE  ActiveIsAwake'
<1>1. ASSUME StartThreads  PROVE  ActiveIsAwake'
  <2>1. Awake' = Threads
    BY <1>1 DEF StartThreads, Awake
  <2> QED  BY <1>1, <2>1, AwakeFinite DEF StartThreads, ActiveIsAwake
<1>2. ASSUME UNCHANGED dwNumActive, Awake' = Awake  PROVE  ActiveIsAwake'
  BY <1>2 DEF ActiveIsAwake
<1>3. CASE ScheduleStep
  <2>1. CASE NotifyOne /\ UNCHANGED dwNumActive
    <3>1. Awake' = Awake
      BY <2>1 DEF NotifyOne, Waiters, Awake, PoolTypes
    <3> QED  BY <1>2, <2>1, <3>1
  <2>2. CASE UNCHANGED <<worker, dwNumActive>>
    BY <1>2, <2>2 DEF Awake
  <2> QED  BY <1>1, <1>3, <2>1, <2>2 DEF ScheduleStep, Schedule, ScheduleIfResourceAvailable
<1>4. CASE OwnerStep
  <2>1. Awake' = Awake /\ UNCHANGED dwNumActive
    BY <1>4 DEF OwnerStep, TakeResult, AwaitYield, ReturnNull, Destroy, WakeAllWaiters,
                JoinThreads, Awake, PoolTypes
  <2> QED  BY <1>2, <2>1
<1>5. ASSUME NEW w \in Threads, WorkerStep(w)  PROVE  ActiveIsAwake'
  <2>1. ASSUME AtQueue(w)  PROVE  Cardinality(Awake \cup {w}) = ActiveOnEntry(w)
    <3>1. w \in Awake <=> worker[w] = "top"
      BY <2>1 DEF AtQueue, Awake
    <3>2. Cardinality(Awake \cup {w}) =
            IF w \in Awake THEN Cardinality(Awake) ELSE Cardinality(Awake) + 1
      BY AwakeFinite, FS_AddElement
    <3> QED  BY <2>1, <3>1, <3>2 DEF ActiveIsAwake, ActiveOnEntry, AtQueue, PoolTypes
  <2>2. CASE WorkerWait(w)
    <3>1. Awake' = (Awake \cup {w}) \ {w}
      BY <2>2 DEF WorkerWait, Awake, PoolTypes
    <3>2. IsFiniteSet(Awake \cup {w})
      BY AwakeFinite, FS_AddElement
    <3>3. Cardinality(Awake') = Cardinality(Awake \cup {w}) - 1
      BY <3>1, <3>2, FS_RemoveElement
    <3> QED  BY <2>1, <2>2, <3>3 DEF WorkerWait, ActiveIsAwake
  <2>3. CASE WorkerTake(w) \/ WorkerAwaitBarrier(w) \/ WorkerReleaseBarrier(w) \/ WorkerExit(w)
    <3>1. AtQueue(w) /\ dwNumActive' = ActiveOnEntry(w)
      BY <2>3 DEF WorkerTake, WorkerAwaitBarrier, WorkerReleaseBarrier, WorkerExit
    <3>2. Awake' = Awake \cup {w}
      BY <2>3 DEF WorkerTake, WorkerAwaitBarrier, WorkerReleaseBarrier, WorkerExit, Awake, PoolTypes
    <3> QED  BY <2>1, <3>1, <3>2 DEF ActiveIsAwake
  <2>4. CASE WorkerLeaveBarrier(w) \/ ExecuteReturn(w)
    <3>1. Awake' = Awake /\ UNCHANGED dwNumActive
      BY <2>4 DEF WorkerLeaveBarrier, ExecuteReturn, Awake, PoolTypes
    <3> QED  BY <1>2, <3>1
  <2> QED  BY <1>5, <2>2, <2>3, <2>4 DEF WorkerStep
<1>6. ASSUME NEW w \in Threads, NEW r \in Results, YieldResult(w, r)  PROVE  ActiveIsAwake'
  <2>1. Awake' = Awake /\ UNCHANGED dwNumActive
    BY <1>6 DEF YieldResult, Awake, PoolTypes
  <2> QED  BY <1>2, <2>1
<1>7. CASE SpuriousWakeup
  <2>1. Awake' = Awake /\ UNCHANGED dwNumActive
    BY <1>7 DEF SpuriousWakeup, SpuriousOwner, SpuriousWorker, Awake, PoolTypes
  <2> QED  BY <1>2, <2>1
<1>8. CASE UNCHANGED poolVars
  BY <1>2, <1>8 DEF poolVars, Awake
<1> QED  BY <1>3, <1>4, <1>5, <1>6, <1>7, <1>8 DEF PoolStep

\* When no worker counts as active, none executes.
LEMMA NobodyActive ==
  ASSUME PoolTypes, ActiveIsAwake, dwNumActive = 0
  PROVE  \A w \in Threads : worker[w] \in {"unborn", "waiting", "notified"}
<1>1. Awake = {}
  BY AwakeFinite, FS_EmptySet DEF ActiveIsAwake
<1> QED  BY <1>1 DEF Awake

\* After nullptr, nothing is to do again.
LEMMA AtRestStep ==
  ASSUME PoolTypes, Holding, NoBarrier, ActiveIsAwake, AtRest, PoolStep
  PROVE  AtRest'
<1>1. CASE ScheduleStep
  <2>1. ~OwnerLeft /\ ~OwnerLeft'
    BY <1>1 DEF ScheduleStep, AtRest, Executing, OwnerLeft
  <2> QED  BY <2>1 DEF AtRest
<1>2. CASE OwnerStep
  <2>1. CASE ReturnNull
    <3>1. aTasks' = <<>> /\ aResults' = <<>> /\ worker' = worker
      BY <2>1 DEF ReturnNull, NothingLeft
    <3>2. \A w \in Threads : worker[w] \in {"unborn", "waiting", "notified"}
      BY <2>1, NobodyActive DEF ReturnNull, NothingLeft
    <3> QED  BY <3>1, <3>2 DEF AtRest
  <2>2. CASE owner = "null" /\ Destroy
    <3>1. /\ aResults = <<>>
          /\ \A w \in Threads : worker[w] \in {"unborn", "waiting", "notified", "exited"}
          /\ \A i \in 1..Len(aTasks) : aTasks[i].eSpecial = "EXIT"
      BY <2>2 DEF AtRest, OwnerLeft
    <3>2. /\ aResults' = <<>>
          /\ \A w \in Threads : worker'[w] \in {"unborn", "waiting", "notified", "exited"}
      BY <2>2, <3>1 DEF Destroy, WakeAllWaiters
    <3>3. \A i \in 1..Len(aTasks') : aTasks'[i].eSpecial = "EXIT"
      BY <2>2, <3>1, QueueType, EnqueueElements DEF Destroy
    <3> QED  BY <3>2, <3>3 DEF AtRest
  <2>3. ASSUME NEW r \in Results, TakeResult(r)  PROVE  AtRest'
    BY <2>3 DEF TakeResult, AtRest, OwnerLeft
  <2>4. CASE AwaitYield
    BY <2>4 DEF AwaitYield, AtRest, OwnerLeft
  <2>5. CASE JoinThreads
    BY <2>5 DEF JoinThreads, AtRest, OwnerLeft
  <2> QED  BY <1>2, <2>1, <2>2, <2>3, <2>4, <2>5 DEF OwnerStep
<1>3. ASSUME NEW w \in Threads, WorkerStep(w)  PROVE  AtRest'
  <2> SUFFICES ASSUME OwnerLeft'  PROVE  AtRest'
    BY DEF AtRest
  <2>1. OwnerLeft
    BY <1>3 DEF OwnerLeft, WorkerStep, WorkerWait, WakeOwner, WorkerTake, WorkerAwaitBarrier,
       WorkerReleaseBarrier, WorkerLeaveBarrier, WorkerExit, ExecuteReturn
  <2>2. /\ aResults = <<>>
        /\ \A v \in Threads : worker[v] \in {"unborn", "waiting", "notified", "exited"}
        /\ \A i \in 1..Len(aTasks) : aTasks[i].eSpecial = "EXIT"
    BY <2>1 DEF AtRest
  <2>3. aTasks # <<>> => Head(aTasks).eSpecial = "EXIT"
    BY <2>2 DEF PoolTypes
  <2>4. WorkerWait(w) \/ WorkerExit(w)
    BY <1>3, <2>2, <2>3 DEF WorkerStep, WorkerTake, WorkerAwaitBarrier,
       WorkerReleaseBarrier, WorkerLeaveBarrier, ExecuteReturn
  <2> QED  BY <2>2, <2>4 DEF AtRest, WorkerWait, WorkerExit, PoolTypes
<1>4. ASSUME NEW w \in Threads, NEW r \in Results, YieldResult(w, r)  PROVE  AtRest'
  BY <1>4 DEF YieldResult, WakeOwner, AtRest, OwnerLeft
<1>5. CASE SpuriousWakeup
  BY <1>5 DEF SpuriousWakeup, SpuriousOwner, SpuriousWorker, AtRest, OwnerLeft, PoolTypes
<1>6. CASE UNCHANGED poolVars
  BY <1>6 DEF poolVars, AtRest, OwnerLeft
<1> QED  BY <1>1, <1>2, <1>3, <1>4, <1>5, <1>6 DEF PoolStep

\* The coordinator makes its calls one after the other.
LEMMA OwnerFollowsStep ==
  ASSUME PoolTypes, NoBarrier, OwnerFollows, CoordinatorTypes, [Next]_vars
  PROVE  OwnerFollows'
<1>1. CASE ScheduleNextFunction \/ ScheduleEvaluate
  BY <1>1 DEF ScheduleNextFunction, ScheduleEvaluate, OwnerFollows
<1>2. CASE CollectError \/ CollectGraph \/ CollectEvaluation
  BY <1>2 DEF CollectError, CollectGraph, CollectEvaluation, TakeResult, OwnerFollows
<1>3. CASE AwaitResult \/ Finish
  BY <1>3 DEF AwaitResult, Finish, AwaitYield, ReturnNull, coordinatorVars, OwnerFollows, OwnerLeft
<1>4. ASSUME NEW w \in Threads, PoolWorkerStep(w)  PROVE  OwnerFollows'
  <2>1. coordinator' = coordinator
    BY <1>4 DEF PoolWorkerStep, BuilderYields, EvaluatorYields, coordinatorVars
  <2>2. owner' = owner \/ (owner = "yieldWait" /\ owner' = "yieldWoken")
    BY <1>4 DEF PoolWorkerStep, BuilderYields, EvaluatorYields, YieldResult, WorkerStep, WorkerWait,
       WakeOwner, WorkerTake, WorkerAwaitBarrier, WorkerReleaseBarrier, WorkerLeaveBarrier,
       WorkerExit, ExecuteReturn, NoBarrier
  <2> QED  BY <2>1, <2>2 DEF OwnerFollows, OwnerLeft
<1>5. ASSUME NEW w \in Threads, BuilderForks(w)  PROVE  OwnerFollows'
  BY <1>5 DEF BuilderForks, coordinatorVars, OwnerFollows, OwnerLeft
<1>6. CASE GuiStep \/ UNCHANGED vars
  BY <1>6 DEF GuiStep, vars, poolVars, coordinatorVars, OwnerFollows, OwnerLeft
<1>7. CASE DropPool
  BY <1>7 DEF DropPool, Destroy, JoinThreads, coordinatorVars, OwnerFollows, OwnerLeft
<1>8. CASE SpuriousWakeup /\ UNCHANGED coordinatorVars
  BY <1>8 DEF SpuriousWakeup, SpuriousOwner, SpuriousWorker, NoBarrier, coordinatorVars,
              OwnerFollows, OwnerLeft
<1> QED  BY <1>1, <1>2, <1>3, <1>4, <1>5, <1>6, <1>7, <1>8 DEF Next, CoordinatorStep

LEMMA PoolInvStep ==
  ASSUME PoolInv, CoordinatorTypes, InEvaluators, [Next]_vars
  PROVE  PoolInv'
<1>1. PoolStep
  BY StepOfPool
<1> QED  BY <1>1, PoolTypesStep, HoldingStep, NoBarrierStep, ActiveStep, AtRestStep,
            OwnerFollowsStep DEF PoolInv

-----------------------------------------------------------------------------
(* Where the tasks and the results are after a step *)

\* A new task is queued.
LEMMA EnqueuePlaces ==
  ASSUME PoolTypes, QueuedOnce, NEW t \in Tasks, t \notin Queued, Enqueue(NormalTask(t))
  PROVE  Queued' = Queued \cup {t} /\ QueuedOnce'
<1> DEFINE n == Len(aTasks) + 1
<1>1. /\ Len(aTasks) \in Nat /\ Len(aTasks') = n /\ aTasks'[n] = NormalTask(t)
      /\ \A i \in 1..Len(aTasks) : aTasks'[i] = aTasks[i]
  BY EnqueueElements, QueueType
<1>2. NormalIndices' = NormalIndices \cup {n} /\ n \notin NormalIndices
  BY <1>1, QueueType DEF NormalIndices
<1>3. \A i \in NormalIndices : aTasks'[i] = aTasks[i]
  BY <1>1 DEF NormalIndices
<1>4. aTasks'[n].oTask = t
  BY <1>1, QueueType
<1> HIDE DEF n
<1>5. Queued' = Queued \cup {t}
  BY <1>2, <1>3, <1>4 DEF Queued
<1>6. QueuedOnce'
  BY <1>2, <1>3, <1>4 DEF Queued, QueuedOnce
<1> QED  BY <1>5, <1>6

\* The exit task is queued.
LEMMA ExitPlaces ==
  ASSUME PoolTypes, Enqueue(SpecialTask("EXIT"))
  PROVE  Queued' = Queued /\ (QueuedOnce => QueuedOnce')
<1>1. /\ Len(aTasks) \in Nat /\ Len(aTasks') = Len(aTasks) + 1
      /\ aTasks'[Len(aTasks) + 1] = SpecialTask("EXIT")
      /\ \A i \in 1..Len(aTasks) : aTasks'[i] = aTasks[i]
  BY EnqueueElements, QueueType
<1>2. NormalIndices' = NormalIndices
  BY <1>1, QueueType DEF NormalIndices
<1>3. \A i \in NormalIndices : aTasks'[i] = aTasks[i]
  BY <1>1 DEF NormalIndices
<1> QED  BY <1>2, <1>3 DEF Queued, QueuedOnce

\* The task at the head leaves the queue.
LEMMA DequeuePlaces ==
  ASSUME PoolTypes, QueuedOnce, aTasks # <<>>, Head(aTasks).eSpecial = "NORMAL", Dequeue
  PROVE  /\ Head(aTasks).oTask \in Queued
         /\ Queued' = Queued \ {Head(aTasks).oTask}
         /\ QueuedOnce'
<1> DEFINE t == Head(aTasks).oTask
<1>1. /\ Len(aTasks) \in Nat \ {0} /\ Len(aTasks') = Len(aTasks) - 1
      /\ \A i \in 1..Len(aTasks') : aTasks'[i] = aTasks[i + 1]
      /\ Head(aTasks) = aTasks[1]
  BY DequeueElements
<1>2. 1 \in NormalIndices /\ aTasks[1].oTask = t
  BY <1>1 DEF NormalIndices
<1>3. \A i \in NormalIndices' : /\ i + 1 \in NormalIndices /\ i \in Nat \ {0}
                                /\ aTasks'[i] = aTasks[i + 1]
  BY <1>1 DEF NormalIndices
<1>4. \A j \in NormalIndices : /\ j \in Nat
                               /\ j # 1 => /\ j - 1 \in NormalIndices'
                                           /\ aTasks'[j - 1] = aTasks[j]
  BY <1>1 DEF NormalIndices
<1> HIDE DEF t
<1>5. Queued' \subseteq Queued \ {t}
  BY <1>2, <1>3 DEF Queued, QueuedOnce
<1>6. Queued \ {t} \subseteq Queued'
  BY <1>2, <1>4 DEF Queued
<1>7. QueuedOnce'
  <2> SUFFICES ASSUME NEW i \in NormalIndices', NEW j \in NormalIndices',
                      aTasks'[i].oTask = aTasks'[j].oTask
               PROVE  i = j
    BY DEF QueuedOnce
  <2>1. i + 1 = j + 1
    BY <1>3 DEF QueuedOnce
  <2> QED  BY <1>3, <2>1
<1>8. t \in Queued
  BY <1>2 DEF Queued
<1> QED  BY <1>5, <1>6, <1>7, <1>8 DEF t

\* A result is yielded that was not there, or is an error.
LEMMA YieldPlaces ==
  ASSUME PoolTypes, ReadyOnce, NEW r \in Results, aResults' = Append(aResults, r),
         r \notin Ready \/ r = AnalysisError
  PROVE  Ready' = Ready \cup {r} /\ ReadyOnce'
<1> DEFINE n == Len(aResults) + 1
<1>1. /\ Len(aResults) \in Nat /\ Len(aResults') = n /\ aResults'[n] = r
      /\ \A i \in 1..Len(aResults) : aResults'[i] = aResults[i]
  BY DEF PoolTypes
<1>2. 1..Len(aResults') = 1..Len(aResults) \cup {n}
  BY <1>1
<1> HIDE DEF n
<1>3. Ready' = Ready \cup {r}
  BY <1>1, <1>2 DEF Ready
<1>4. ReadyOnce'
  BY <1>1, <1>2 DEF Ready, ReadyOnce
<1> QED  BY <1>3, <1>4

\* The first result is taken.
LEMMA TakePlaces ==
  ASSUME PoolTypes, ReadyOnce, NEW r \in Results, TakeResult(r)
  PROVE  /\ r \in Ready
         /\ \A x : x # AnalysisError => (x \in Ready' <=> x \in Ready /\ x # r)
         /\ ReadyOnce'
<1>1. /\ Len(aResults) \in Nat \ {0} /\ Len(aResults') = Len(aResults) - 1
      /\ \A i \in 1..Len(aResults') : aResults'[i] = aResults[i + 1]
      /\ aResults[1] = r
  BY DEF PoolTypes, TakeResult
<1>2. \A i \in 1..Len(aResults') : i + 1 \in 1..Len(aResults) /\ i + 1 # 1
  BY <1>1
<1>3. \A j \in 1..Len(aResults) : j = 1 \/ (j - 1 \in 1..Len(aResults') /\ (j - 1) + 1 = j)
  BY <1>1
<1>4. 1 \in 1..Len(aResults)
  BY <1>1
<1>5. ReadyOnce'
  <2> SUFFICES ASSUME NEW i \in 1..Len(aResults'), NEW j \in 1..Len(aResults'),
                      aResults'[i] = aResults'[j], aResults'[i] # AnalysisError
               PROVE  i = j
    BY DEF ReadyOnce
  <2>1. i + 1 = j + 1
    BY <1>1, <1>2 DEF ReadyOnce
  <2> QED  BY <2>1
<1>6. ASSUME NEW x, x # AnalysisError  PROVE  x \in Ready' <=> x \in Ready /\ x # r
  <2>1. x \in Ready' => x \in Ready /\ x # r
    BY <1>1, <1>2, <1>4, <1>6 DEF Ready, ReadyOnce
  <2>2. x \in Ready /\ x # r => x \in Ready'
    <3> SUFFICES ASSUME NEW j \in 1..Len(aResults), x = aResults[j], x # r
                 PROVE  x \in Ready'
      BY DEF Ready
    <3>1. j - 1 \in 1..Len(aResults') /\ aResults'[j - 1] = x
      BY <1>1, <1>3
    <3> QED  BY <3>1 DEF Ready
  <2> QED  BY <2>1, <2>2
<1> QED  BY <1>1, <1>4, <1>5, <1>6 DEF Ready

\* A task that is scheduled is a new active one.
LEMMA SchedulePlaces ==
  ASSUME PoolTypes, Places, NEW t \in Tasks, t \notin Active,
         Schedule(t) \/ ScheduleIfResourceAvailable(t, TRUE)
  PROVE  Active' = Active \cup {t} /\ Ready' = Ready /\ Places'
<1>1. Enqueue(NormalTask(t)) /\ UNCHANGED <<aResults, stTask>>
  BY DEF Schedule, ScheduleIfResourceAvailable
<1>2. Executing' = Executing
  BY DEF Schedule, ScheduleIfResourceAvailable, StartThreads, Started, NotifyOne, Waiters,
         Executing, PoolTypes
<1>3. Running' = Running /\ Ready' = Ready
  BY <1>1, <1>2 DEF Running, Ready
<1>4. Queued' = Queued \cup {t} /\ QueuedOnce'
  BY <1>1, EnqueuePlaces DEF Places, Active
<1>5. RunOnce' /\ ReadyOnce'
  BY <1>1, <1>2 DEF Places, RunOnce, ReadyOnce
<1> QED  BY <1>3, <1>4, <1>5 DEF Places, Active

\* A task that has yielded its result is not active any more.
LEMMA YieldResultPlaces ==
  ASSUME PoolTypes, Holding, Places, NEW w \in Threads, NEW r \in Results, YieldResult(w, r),
         r \notin Ready \/ r = AnalysisError
  PROVE  /\ stTask[w] \in Active /\ stTask[w] \in Tasks
         /\ Active' = Active \ {stTask[w]} /\ Ready' = Ready \cup {r} /\ Places'
<1>1. w \in Executing /\ Executing' = Executing \ {w} /\ UNCHANGED <<aTasks, stTask>>
  BY DEF YieldResult, Executing, PoolTypes
<1>2. Queued' = Queued /\ (QueuedOnce => QueuedOnce')
  BY <1>1 DEF Queued, QueuedOnce, NormalIndices
<1>3. Running' = Running \ {stTask[w]} /\ RunOnce' /\ stTask[w] \in Running
  BY <1>1 DEF Running, RunOnce, Places
<1>4. Ready' = Ready \cup {r} /\ ReadyOnce'
  BY YieldPlaces DEF YieldResult, Places
<1>5. stTask[w] \in Tasks
  BY DEF Holding, YieldResult
<1> QED  BY <1>2, <1>3, <1>4, <1>5 DEF Places, Active

\* A result that is taken is not ready any more.
LEMMA TakeResultPlaces ==
  ASSUME PoolTypes, Places, NEW r \in Results, TakeResult(r)
  PROVE  /\ Active' = Active /\ r \in Ready /\ Places'
         /\ \A x : x # AnalysisError => (x \in Ready' <=> x \in Ready /\ x # r)
<1>1. UNCHANGED <<aTasks, worker, stTask>>
  BY DEF TakeResult
<1>2. Active' = Active /\ Queued' = Queued /\ Running' = Running /\ QueuedOnce' /\ RunOnce'
  BY <1>1 DEF Active, Queued, Running, Executing, NormalIndices, QueuedOnce, RunOnce, Places
<1>3. ReadyOnce' /\ r \in Ready /\ \A x : x # AnalysisError => (x \in Ready' <=> x \in Ready /\ x # r)
  BY TakePlaces DEF Places
<1> QED  BY <1>2, <1>3 DEF Places

\* What the pool does by itself leaves every task and every result where it is,
\* or gives a task to a worker.
PoolItself ==
  \/ \E t \in Tasks : ScheduleIfResourceAvailable(t, FALSE)
  \/ AwaitYield \/ ReturnNull \/ Destroy \/ JoinThreads
  \/ \E w \in Threads : WorkerStep(w)
  \/ SpuriousWakeup
  \/ UNCHANGED <<aTasks, aResults, worker, stTask>>

LEMMA PoolItselfPlaces ==
  ASSUME PoolTypes, Holding, NoBarrier, Places, PoolItself
  PROVE  Active' = Active /\ Ready' = Ready /\ Places'
<1>1. Ready' = Ready /\ ReadyOnce'
  <2>1. aResults' = aResults
    BY DEF PoolItself, ScheduleIfResourceAvailable, AwaitYield, ReturnNull, Destroy, JoinThreads,
       WorkerStep, WorkerWait, WorkerTake, WorkerAwaitBarrier, WorkerReleaseBarrier,
       WorkerLeaveBarrier, WorkerExit, ExecuteReturn, SpuriousWakeup, SpuriousOwner, SpuriousWorker
  <2> QED  BY <2>1 DEF Ready, ReadyOnce, Places
<1>2. ASSUME Queued' = Queued, QueuedOnce', Executing' = Executing,
             \A v \in Executing : stTask'[v] = stTask[v]
      PROVE  Active' = Active /\ Places'
  <2>1. Running' = Running /\ RunOnce'
    BY <1>2 DEF Running, RunOnce, Places
  <2> QED  BY <1>1, <1>2, <2>1 DEF Active, Places
<1>3. ASSUME UNCHANGED aTasks  PROVE  Queued' = Queued /\ QueuedOnce'
  BY <1>3 DEF Queued, NormalIndices, QueuedOnce, Places
<1>4. ASSUME NEW t \in Tasks, ScheduleIfResourceAvailable(t, FALSE)
      PROVE  Active' = Active /\ Places'
  <2>1. UNCHANGED <<aTasks, stTask>> /\ Executing' = Executing
    BY <1>4 DEF ScheduleIfResourceAvailable, StartThreads, Started, Executing
  <2> QED  BY <1>1, <1>2, <1>3, <2>1
<1>5. CASE AwaitYield \/ ReturnNull \/ JoinThreads \/ UNCHANGED <<aTasks, aResults, worker, stTask>>
  <2>1. UNCHANGED <<aTasks, stTask>> /\ Executing' = Executing
    BY <1>5 DEF AwaitYield, ReturnNull, JoinThreads, Executing
  <2> QED  BY <1>1, <1>2, <1>3, <2>1
<1>6. CASE SpuriousWakeup
  <2>1. UNCHANGED <<aTasks, stTask>> /\ Executing' = Executing
    BY <1>6 DEF SpuriousWakeup, SpuriousOwner, SpuriousWorker, Executing, PoolTypes
  <2> QED  BY <1>1, <1>2, <1>3, <2>1
<1>7. CASE Destroy
  <2>1. UNCHANGED stTask /\ Executing' = Executing
    BY <1>7 DEF Destroy, WakeAllWaiters, Executing
  <2>2. Queued' = Queued /\ QueuedOnce'
    BY <1>7, ExitPlaces DEF Destroy, Places
  <2> QED  BY <1>1, <1>2, <2>1, <2>2
<1>8. ASSUME NEW w \in Threads, WorkerStep(w), ~WorkerTake(w)  PROVE  Active' = Active /\ Places'
  <2>1. ~WorkerReleaseBarrier(w)
    BY DEF WorkerReleaseBarrier, NoBarrier, PoolTypes
  <2>2. UNCHANGED aTasks /\ Executing' = Executing /\ \A v \in Executing : stTask'[v] = stTask[v]
    BY <1>8, <2>1 DEF WorkerStep, WorkerWait, WorkerAwaitBarrier, WorkerLeaveBarrier, WorkerExit,
       ExecuteReturn, AtQueue, Executing, PoolTypes
  <2> QED  BY <1>2, <1>3, <2>2
<1>9. ASSUME NEW w \in Threads, WorkerTake(w)  PROVE  Active' = Active /\ Places'
  <2> DEFINE t == Head(aTasks).oTask
  <2>1. t \in Queued /\ Queued' = Queued \ {t} /\ QueuedOnce'
    BY <1>9, DequeuePlaces DEF WorkerTake, Places
  <2>2. /\ Executing' = Executing \cup {w} /\ w \notin Executing
        /\ stTask'[w] = t /\ \A v \in Executing : stTask'[v] = stTask[v]
    BY <1>9 DEF WorkerTake, Executing, AtQueue, PoolTypes
  <2> HIDE DEF t
  <2>3. Running' = Running \cup {t}
    BY <2>2 DEF Running
  <2>4. RunOnce'
    BY <2>1, <2>2 DEF RunOnce, Running, Places
  <2> QED  BY <1>1, <2>1, <2>3, <2>4 DEF Active, Places
<1> QED  BY <1>1, <1>4, <1>5, <1>6, <1>7, <1>8, <1>9 DEF PoolItself

-----------------------------------------------------------------------------
(* The signals on their way to the dialog *)

LEMMA SignalFacts ==
  /\ \A g : ResultReady(g).signal = "ResultReady" /\ ResultReady(g).oCodeGraph = g
  /\ NextFunction.signal = "NextFunction"
  /\ CoordinatorFinished.signal = "CoordinatorFinished"
  /\ NextFunction \in Signals /\ CoordinatorFinished \in Signals
  /\ \A g \in BuildTasks : ResultReady(g) \in Signals
  /\ \A s \in Signals : s.signal = "ResultReady" => s.oCodeGraph \in BuildTasks
BY DEF ResultReady, NextFunction, CoordinatorFinished, Signals

LEMMA NextSignalsFinite ==
  ASSUME CoordinatorTypes
  PROVE  IsFiniteSet(NextSignals) /\ Cardinality(NextSignals) \in Nat
<1>1. Len(signals) \in Int
  BY DEF CoordinatorTypes
<1>2. IsFiniteSet(1..Len(signals))
  BY <1>1, FS_Interval
<1> QED  BY <1>2, FS_Subset, FS_CardinalityType DEF NextSignals

\* A signal is sent.
LEMMA SendSignal ==
  ASSUME CoordinatorTypes, NEW s \in Signals, signals' = Append(signals, s),
         UNCHANGED lpResultsTable
  PROVE  /\ signals' \in Seq(Signals)
         /\ Len(signals) \in Nat /\ Len(signals') = Len(signals) + 1
         /\ signals'[Len(signals) + 1] = s
         /\ \A i \in 1..Len(signals) : signals'[i] = signals[i]
         /\ s.signal = "ResultReady" =>
              /\ Reported' = Reported \cup {s.oCodeGraph}
              /\ ReportedOnce /\ s.oCodeGraph \notin Reported => ReportedOnce'
         /\ s.signal # "ResultReady" =>
              Reported' = Reported /\ (ReportedOnce => ReportedOnce')
         /\ Cardinality(NextSignals') =
              Cardinality(NextSignals) + (IF s = NextFunction THEN 1 ELSE 0)
<1> DEFINE n == Len(signals) + 1
<1>1. /\ signals' \in Seq(Signals) /\ Len(signals) \in Nat
      /\ Len(signals') = n /\ signals'[n] = s
      /\ \A i \in 1..Len(signals) : signals'[i] = signals[i]
  BY DEF CoordinatorTypes
<1>2. 1..Len(signals') = 1..Len(signals) \cup {n} /\ n \notin 1..Len(signals)
  BY <1>1
<1> HIDE DEF n
<1>3. Shown' = Shown /\ (IsInjective(lpResultsTable) => IsInjective(lpResultsTable)')
  BY DEF Shown, IsInjective
<1>4. ASSUME s.signal = "ResultReady"
      PROVE  /\ Reported' = Reported \cup {s.oCodeGraph}
             /\ ReportedOnce /\ s.oCodeGraph \notin Reported => ReportedOnce'
  <2>1. ResultSignals' = ResultSignals \cup {n} /\ n \notin ResultSignals
    BY <1>1, <1>2, <1>4 DEF ResultSignals
  <2>2. \A i \in ResultSignals : signals'[i] = signals[i]
    BY <1>1 DEF ResultSignals
  <2>3. OnTheWay' = OnTheWay \cup {s.oCodeGraph}
    BY <1>1, <2>1, <2>2 DEF OnTheWay
  <2>4. ASSUME ReportedOnce, s.oCodeGraph \notin Reported  PROVE  ReportedOnce'
    <3>1. \A i \in ResultSignals : signals[i].oCodeGraph # s.oCodeGraph
      BY <2>4 DEF Reported, OnTheWay
    <3>2. \A i, j \in ResultSignals' : signals'[i].oCodeGraph = signals'[j].oCodeGraph => i = j
      <4> SUFFICES ASSUME NEW i \in ResultSignals', NEW j \in ResultSignals',
                          signals'[i].oCodeGraph = signals'[j].oCodeGraph
                   PROVE  i = j
        OBVIOUS
      <4>1. ASSUME NEW k \in ResultSignals'
            PROVE  (k = n /\ signals'[k].oCodeGraph = s.oCodeGraph)
                   \/ (k \in ResultSignals /\ signals'[k].oCodeGraph = signals[k].oCodeGraph)
        BY <1>1, <2>1, <2>2
      <4> QED  BY <2>4, <3>1, <4>1 DEF ReportedOnce
    <3>3. Shown' \cap OnTheWay' = {}
      BY <1>3, <2>3, <2>4 DEF ReportedOnce, Reported
    <3> QED  BY <1>3, <2>4, <3>2, <3>3 DEF ReportedOnce
  <2> QED  BY <1>3, <2>3, <2>4 DEF Reported
<1>5. ASSUME s.signal # "ResultReady"
      PROVE  Reported' = Reported /\ (ReportedOnce => ReportedOnce')
  <2>1. ResultSignals' = ResultSignals
    BY <1>1, <1>2, <1>5 DEF ResultSignals
  <2>2. \A i \in ResultSignals : signals'[i] = signals[i]
    BY <1>1 DEF ResultSignals
  <2>3. OnTheWay' = OnTheWay
    BY <2>1, <2>2 DEF OnTheWay
  <2>4. ASSUME ReportedOnce  PROVE  ReportedOnce'
    <3>1. \A i \in ResultSignals : signals'[i].oCodeGraph = signals[i].oCodeGraph
      BY <2>2
    <3>2. \A i, j \in ResultSignals' : signals'[i].oCodeGraph = signals'[j].oCodeGraph => i = j
      <4> SUFFICES ASSUME NEW i \in ResultSignals, NEW j \in ResultSignals,
                          signals'[i].oCodeGraph = signals'[j].oCodeGraph
                   PROVE  i = j
        BY <2>1
      <4>1. signals[i].oCodeGraph = signals[j].oCodeGraph
        BY <3>1
      <4> QED  BY <2>4, <4>1 DEF ReportedOnce
    <3>3. Shown' \cap OnTheWay' = {}
      BY <1>3, <2>3, <2>4 DEF ReportedOnce
    <3> QED  BY <1>3, <2>4, <3>2, <3>3 DEF ReportedOnce
  <2> QED  BY <1>3, <2>3, <2>4 DEF Reported
<1>6. Cardinality(NextSignals') = Cardinality(NextSignals) + (IF s = NextFunction THEN 1 ELSE 0)
  <2>1. NextSignals' = IF s = NextFunction THEN NextSignals \cup {n} ELSE NextSignals
    BY <1>1, <1>2 DEF NextSignals
  <2>2. n \notin NextSignals
    BY <1>2 DEF NextSignals
  <2>3. Cardinality(NextSignals \cup {n}) = Cardinality(NextSignals) + 1
    BY <2>2, NextSignalsFinite, FS_AddElement
  <2> QED  BY <2>1, <2>3, NextSignalsFinite
<1> QED  BY <1>1, <1>4, <1>5, <1>6 DEF n

\* The signal at the head has been handled.
LEMMA ReceiveSignal ==
  ASSUME CoordinatorTypes, signals # <<>>, signals' = Tail(signals)
  PROVE  /\ signals' \in Seq(Signals) /\ Head(signals) \in Signals
         /\ Len(signals) \in Nat \ {0} /\ Len(signals') = Len(signals) - 1
         /\ Head(signals) = signals[1]
         /\ \A i \in 1..Len(signals') : signals'[i] = signals[i + 1]
         /\ Cardinality(NextSignals') =
              Cardinality(NextSignals) - (IF Head(signals) = NextFunction THEN 1 ELSE 0)
<1>1. /\ signals' \in Seq(Signals) /\ Head(signals) \in Signals
      /\ Len(signals) \in Nat \ {0} /\ Len(signals') = Len(signals) - 1
      /\ Head(signals) = signals[1]
      /\ \A i \in 1..Len(signals') : signals'[i] = signals[i + 1]
  BY DEF CoordinatorTypes
<1>2. Cardinality(NextSignals') =
        Cardinality(NextSignals) - (IF Head(signals) = NextFunction THEN 1 ELSE 0)
  <2> DEFINE later == NextSignals \ {1}
             f == [i \in NextSignals' |-> i + 1]
  <2>1. \A i \in NextSignals' : i \in Int /\ i + 1 \in later
    BY <1>1 DEF NextSignals
  <2>2. \A j \in later : j - 1 \in NextSignals' /\ (j - 1) + 1 = j
    BY <1>1 DEF NextSignals
  <2> HIDE DEF later
  <2>3. f \in Bijection(NextSignals', later)
    <3>1. f \in Injection(NextSignals', later)
      BY <2>1 DEF Injection, IsInjective
    <3>2. f \in Surjection(NextSignals', later)
      BY <2>1, <2>2 DEF Surjection
    <3> QED  BY <3>1, <3>2 DEF Bijection
  <2>4. IsFiniteSet(later) /\ Cardinality(later) =
          IF 1 \in NextSignals THEN Cardinality(NextSignals) - 1 ELSE Cardinality(NextSignals)
    BY NextSignalsFinite, FS_RemoveElement DEF later
  <2>5. IsFiniteSet(NextSignals')
    <3>1. IsFiniteSet(1..Len(signals'))
      BY <1>1, FS_Interval
    <3> QED  BY <3>1, FS_Subset DEF NextSignals
  <2>6. Cardinality(NextSignals') = Cardinality(later)
    BY <2>3, <2>5, FS_Bijection DEF ExistsBijection
  <2>7. 1 \in NextSignals <=> Head(signals) = NextFunction
    BY <1>1 DEF NextSignals
  <2> QED  BY <2>4, <2>6, <2>7, NextSignalsFinite
<1> QED  BY <1>1, <1>2

\* The dialog takes a graph over from the signals, or no graph.
LEMMA ReportedStays ==
  ASSUME CoordinatorTypes, ReportedOnce, GuiStep
  PROVE  Reported' = Reported /\ ReportedOnce' /\ lpResultsTable' \in Seq(BuildTasks)
<1>1. /\ Head(signals) \in Signals
      /\ Len(signals) \in Nat \ {0} /\ Len(signals') = Len(signals) - 1
      /\ Head(signals) = signals[1]
      /\ \A i \in 1..Len(signals') : signals'[i] = signals[i + 1]
  BY ReceiveSignal DEF GuiStep
<1>2. \A i \in ResultSignals' : /\ i + 1 \in ResultSignals \ {1} /\ i \in Int
                                /\ signals'[i] = signals[i + 1]
  BY <1>1 DEF ResultSignals
<1>3. \A j \in ResultSignals \ {1} : /\ j - 1 \in ResultSignals' /\ (j - 1) + 1 = j
                                     /\ signals'[j - 1] = signals[j]
  BY <1>1 DEF ResultSignals
<1>4. \A i, j \in ResultSignals' : signals'[i].oCodeGraph = signals'[j].oCodeGraph => i = j
  <2> SUFFICES ASSUME NEW i \in ResultSignals', NEW j \in ResultSignals',
                      signals'[i].oCodeGraph = signals'[j].oCodeGraph
               PROVE  i = j
    OBVIOUS
  <2>1. i + 1 = j + 1
    BY <1>2 DEF ReportedOnce
  <2> QED  BY <1>2, <2>1
<1>5. OnTheWay' = {signals[j].oCodeGraph : j \in ResultSignals \ {1}}
  BY <1>2, <1>3 DEF OnTheWay
<1>6. 1 \in ResultSignals <=> Head(signals).signal = "ResultReady"
  BY <1>1 DEF ResultSignals
<1>7. CASE HandleResult
  <2> DEFINE g == Head(signals).oCodeGraph
             n == Len(lpResultsTable) + 1
  <2>1. g \in BuildTasks /\ g = signals[1].oCodeGraph /\ 1 \in ResultSignals
    BY <1>1, <1>6, <1>7, SignalFacts DEF HandleResult
  <2>2. /\ Len(lpResultsTable) \in Nat /\ lpResultsTable' \in Seq(BuildTasks)
        /\ DOMAIN lpResultsTable = 1..Len(lpResultsTable)
        /\ DOMAIN lpResultsTable' = DOMAIN lpResultsTable \cup {n}
        /\ n \notin DOMAIN lpResultsTable /\ lpResultsTable'[n] = g
        /\ \A i \in DOMAIN lpResultsTable : lpResultsTable'[i] = lpResultsTable[i]
    BY <1>7, <2>1 DEF HandleResult, CoordinatorTypes
  <2> HIDE DEF g, n
  <2>3. Shown' = Shown \cup {g}
    BY <2>2 DEF Shown, ToSet
  <2>4. OnTheWay' = OnTheWay \ {g} /\ g \in OnTheWay
    BY <1>5, <2>1 DEF OnTheWay, ReportedOnce
  <2>5. g \notin Shown
    BY <2>4 DEF ReportedOnce
  <2>6. IsInjective(lpResultsTable)'
    BY <2>2, <2>5 DEF ReportedOnce, IsInjective, Shown, ToSet
  <2> QED  BY <1>4, <2>2, <2>3, <2>4, <2>6 DEF Reported, ReportedOnce
<1>8. CASE HandleNextFunction \/ HandleFinished
  <2>1. UNCHANGED lpResultsTable /\ 1 \notin ResultSignals
    BY <1>6, <1>8, SignalFacts DEF HandleNextFunction, HandleFinished
  <2>2. OnTheWay' = OnTheWay /\ Shown' = Shown
    BY <1>5, <2>1 DEF OnTheWay, Shown
  <2> QED  BY <1>4, <2>1, <2>2 DEF Reported, ReportedOnce, CoordinatorTypes
<1> QED  BY <1>7, <1>8 DEF GuiStep

-----------------------------------------------------------------------------
(* The way of a graph, and of the evaluations of it *)

analysisVars == <<oCodeGraph, oAnalysisResult, aResultTracker, yielded>>

\* Nothing happens to any graph.
LEMMA GraphsFrame ==
  ASSUME Graphs, Evaluations, Active' = Active, Reported' = Reported,
         \A x : x # AnalysisError => (x \in Ready' <=> x \in Ready),
         UNCHANGED <<analysisVars, numBuilds>>
  PROVE  Graphs' /\ Evaluations'
<1>1. \A g : CodeGraph(g) \in Ready' <=> CodeGraph(g) \in Ready
  BY ResultFacts
<1>2. \A g, e : EvaluationResult(g, e) \in Ready' <=> EvaluationResult(g, e) \in Ready
  BY ResultFacts
<1>3. Graphs'
  BY <1>1 DEF Graphs, Made, analysisVars
<1>4. Evaluations'
  BY <1>2 DEF Evaluations, Expected, analysisVars
<1> QED  BY <1>3, <1>4

\* The next build task of a function is a new one.
LEMMA BuildIsNew ==
  ASSUME CoordinatorTypes, Graphs, NEW f \in Functions, numBuilds[f] < MaxBuilds
  PROVE  /\ Build(f, numBuilds[f] + 1) \in BuildTasks
         /\ Build(f, numBuilds[f] + 1) \notin Active
<1>1. numBuilds[f] + 1 \in 1..MaxBuilds /\ numBuilds[f] \in Nat
  BY MaxBuildsAssumption DEF CoordinatorTypes
<1>2. /\ Build(f, numBuilds[f] + 1) \in BuildTasks
      /\ Build(f, numBuilds[f] + 1).lpFunction = f
      /\ Build(f, numBuilds[f] + 1).path = numBuilds[f] + 1
  BY <1>1, TaskFacts
<1>3. ~Made(Build(f, numBuilds[f] + 1))
  BY <1>1, <1>2 DEF Made
<1> QED  BY <1>2, <1>3 DEF Graphs

\* It is scheduled.
LEMMA BuildStarts ==
  ASSUME CoordinatorTypes, Graphs, Evaluations,
         NEW f \in Functions, numBuilds[f] < MaxBuilds,
         NEW b, b = Build(f, numBuilds[f] + 1), Active' = Active \cup {b}, Ready' = Ready,
         Reported' = Reported, UNCHANGED analysisVars,
         numBuilds' = [numBuilds EXCEPT ![f] = numBuilds[f] + 1]
  PROVE  Graphs' /\ Evaluations'
<1>1. /\ numBuilds[f] \in Nat /\ b \in BuildTasks /\ b.lpFunction = f
      /\ b.path = numBuilds[f] + 1
  <2>1. numBuilds[f] + 1 \in 1..MaxBuilds /\ numBuilds[f] \in Nat
    BY MaxBuildsAssumption DEF CoordinatorTypes
  <2> QED  BY <2>1, TaskFacts
<1>2. ASSUME NEW g \in BuildTasks, Made(g)  PROVE  Made(g)'
  <2>1. g.lpFunction \in Functions /\ g.path \in Int
    BY TaskFacts
  <2> QED  BY <1>2, <2>1 DEF Made, CoordinatorTypes
<1>3. Made(b)'
  BY <1>1 DEF Made, CoordinatorTypes
<1>4. b \notin yielded
  <2>1. ~Made(b)
    BY <1>1 DEF Made
  <2> QED  BY <2>1 DEF Graphs
<1>5. Graphs'
  <2>1. \A g \in BuildTasks : g \in Active' => Made(g)' /\ g \notin yielded'
    BY <1>2, <1>3, <1>4 DEF Graphs, analysisVars
  <2>2. \A g \in yielded' : Made(g)'
    BY <1>2 DEF Graphs, analysisVars, CoordinatorTypes
  <2> QED  BY <2>1, <2>2 DEF Graphs, analysisVars
<1>6. \A g \in BuildTasks, e \in Evaluators : Evaluate(g, e) \in Active' <=> Evaluate(g, e) \in Active
  <2>1. \A g \in BuildTasks, e \in Evaluators : Evaluate(g, e) # b
    BY <1>1, TaskFacts
  <2> QED  BY <2>1
<1>7. Evaluations'
  BY <1>6 DEF Evaluations, Expected, analysisVars
<1> QED  BY <1>5, <1>7

\* A build task ends with its graph, the first result of that name.
LEMMA GraphYielded ==
  ASSUME CoordinatorTypes, Graphs, Evaluations, NEW b \in BuildTasks, b \in Active,
         Active' = Active \ {b}, Ready' = Ready \cup {CodeGraph(b)}, yielded' = yielded \cup {b},
         Reported' = Reported, UNCHANGED <<oCodeGraph, oAnalysisResult, aResultTracker, numBuilds>>
  PROVE  Graphs' /\ Evaluations'
<1>1. Made(b) /\ b \notin yielded
  BY DEF Graphs
<1>2. \A g : CodeGraph(g) \in Ready' <=> CodeGraph(g) \in Ready \/ g = b
  BY ResultFacts
<1>3. \A g, e : EvaluationResult(g, e) \in Ready' <=> EvaluationResult(g, e) \in Ready
  BY ResultFacts
<1>4. \A g \in BuildTasks, e \in Evaluators : Evaluate(g, e) \in Active' <=> Evaluate(g, e) \in Active
  <2>1. \A g \in BuildTasks, e \in Evaluators : Evaluate(g, e) # b
    BY TaskFacts
  <2> QED  BY <2>1
<1>5. b # oCodeGraph /\ b \notin DOMAIN aResultTracker /\ b \notin Reported
  BY <1>1, TaskFacts DEF Graphs
<1>6. Graphs'
  BY <1>1, <1>2, <1>5 DEF Graphs, Made
<1>7. Evaluations'
  BY <1>3, <1>4 DEF Evaluations, Expected
<1> QED  BY <1>6, <1>7

\* A build task ends with an error.
LEMMA ErrorYielded ==
  ASSUME Graphs, Evaluations, NEW b \in BuildTasks,
         Active' = Active \ {b}, Ready' = Ready \cup {AnalysisError},
         Reported' = Reported, UNCHANGED <<analysisVars, numBuilds>>
  PROVE  Graphs' /\ Evaluations'
<1>1. \A g : CodeGraph(g) \in Ready' <=> CodeGraph(g) \in Ready
  BY ResultFacts
<1>2. \A g, e : EvaluationResult(g, e) \in Ready' <=> EvaluationResult(g, e) \in Ready
  BY ResultFacts
<1>3. \A g \in BuildTasks, e \in Evaluators : Evaluate(g, e) \in Active' <=> Evaluate(g, e) \in Active
  <2>1. \A g \in BuildTasks, e \in Evaluators : Evaluate(g, e) # b
    BY TaskFacts
  <2> QED  BY <2>1
<1>4. Graphs'
  BY <1>1 DEF Graphs, Made, analysisVars
<1>5. Evaluations'
  BY <1>2, <1>3 DEF Evaluations, Expected, analysisVars
<1> QED  BY <1>4, <1>5

\* An evaluation ends with its result.
LEMMA EvaluationYielded ==
  ASSUME Graphs, Evaluations, NEW h \in BuildTasks, NEW d \in Evaluators,
         Evaluate(h, d) \in Active, Active' = Active \ {Evaluate(h, d)},
         Ready' = Ready \cup {EvaluationResult(h, d)},
         Reported' = Reported, UNCHANGED <<analysisVars, numBuilds>>
  PROVE  Graphs' /\ Evaluations'
<1>1. \A g : CodeGraph(g) \in Ready' <=> CodeGraph(g) \in Ready
  BY ResultFacts
<1>2. \A g, e : EvaluationResult(g, e) \in Ready' <=>
                  EvaluationResult(g, e) \in Ready \/ (g = h /\ e = d)
  BY ResultFacts
<1>3. \A g \in BuildTasks, e \in Evaluators :
        Evaluate(g, e) \in Active' <=> Evaluate(g, e) \in Active /\ ~(g = h /\ e = d)
  <2>1. \A g \in BuildTasks, e \in Evaluators : Evaluate(g, e) = Evaluate(h, d) <=> g = h /\ e = d
    BY TaskFacts
  <2> QED  BY <2>1
<1>4. \A g \in BuildTasks : g \in Active' <=> g \in Active
  <2>1. \A g \in BuildTasks : g # Evaluate(h, d)
    BY TaskFacts
  <2> QED  BY <2>1
<1>5. Graphs'
  BY <1>1, <1>4 DEF Graphs, Made, analysisVars
<1>6. Evaluations'
  BY <1>2, <1>3 DEF Evaluations, Expected, analysisVars
<1> QED  BY <1>5, <1>6

\* The coordinator takes a graph, whose evaluators are to be scheduled.
LEMMA GraphTaken ==
  ASSUME CoordinatorTypes, Graphs, Evaluations, NEW h \in BuildTasks, CodeGraph(h) \in Ready,
         oCodeGraph = NULL, oAnalysisResult = {}, oCodeGraph' = h, oAnalysisResult' = {},
         \A x : x # AnalysisError => (x \in Ready' <=> x \in Ready /\ x # CodeGraph(h)),
         Active' = Active, Reported' = Reported,
         UNCHANGED <<aResultTracker, yielded, numBuilds>>
  PROVE  Graphs' /\ Evaluations'
<1>1. \A g : CodeGraph(g) \in Ready' <=> CodeGraph(g) \in Ready /\ g # h
  BY ResultFacts
<1>2. \A g, e : EvaluationResult(g, e) \in Ready' <=> EvaluationResult(g, e) \in Ready
  BY ResultFacts
<1>3. h # NULL /\ \A g \in yielded : g # NULL
  BY TaskFacts DEF CoordinatorTypes
<1>4. Graphs'
  BY <1>1, <1>3 DEF Graphs, Made
<1>5. Evaluations'
  BY <1>2 DEF Evaluations, Expected
<1> QED  BY <1>4, <1>5

\* The next evaluator of the graph is one whose evaluation does not exist yet.
LEMMA NextEvaluator ==
  ASSUME InEvaluators, Graphs, Evaluations, coordinator = "evaluators"
  PROVE  \E k \in 0..(NumEvaluators - 1) :
           /\ oAnalysisResult = 1..k /\ Cardinality(oAnalysisResult) = k
           /\ oCodeGraph \in BuildTasks /\ k + 1 \in Evaluators
           /\ Evaluate(oCodeGraph, k + 1) \in Tasks
           /\ Evaluate(oCodeGraph, k + 1) \notin Active
<1>1. oCodeGraph \in BuildTasks
  BY DEF InEvaluators
<1>2. PICK k \in 0..(NumEvaluators - 1) : oAnalysisResult = 1..k
  BY DEF InEvaluators
<1>3. Cardinality(oAnalysisResult) = k
  BY <1>2, FS_Interval, EvaluatorsAssumption
<1>4. k + 1 \in Evaluators /\ k + 1 \notin oAnalysisResult
  BY <1>2, EvaluatorsAssumption DEF Evaluators
<1>5. Evaluate(oCodeGraph, k + 1) \in Tasks
  BY <1>1, <1>4, TaskFacts
<1>6. ~Expected(oCodeGraph, k + 1)
  BY <1>1, <1>4, TaskFacts DEF Expected, Graphs
<1>7. Evaluate(oCodeGraph, k + 1) \notin Active
  BY <1>1, <1>4, <1>6 DEF Evaluations
<1> QED  BY <1>1, <1>2, <1>3, <1>4, <1>5, <1>7

\* It is scheduled; after the last one, the graph is in the tracker.
LEMMA EvaluationStarts ==
  ASSUME CoordinatorTypes, Graphs, Evaluations, oCodeGraph \in BuildTasks,
         NEW k \in 0..(NumEvaluators - 1), oAnalysisResult = 1..k,
         NEW h, h = oCodeGraph, NEW unset, unset = 1..k \cup {k + 1},
         Active' = Active \cup {Evaluate(h, k + 1)},
         Ready' = Ready, Reported' = Reported, UNCHANGED <<yielded, numBuilds>>,
         \/ oAnalysisResult' = unset /\ UNCHANGED <<oCodeGraph, aResultTracker>>
         \/ /\ aResultTracker' = [g \in DOMAIN aResultTracker \cup {h} |->
                                    IF g = h THEN unset ELSE aResultTracker[g]]
            /\ oAnalysisResult' = {} /\ oCodeGraph' = NULL
  PROVE  Graphs' /\ Evaluations'
<1>1. h \in BuildTasks /\ h # NULL /\ k + 1 \in Evaluators
  BY TaskFacts, EvaluatorsAssumption DEF Evaluators
<1>2. h \in yielded /\ h \notin DOMAIN aResultTracker /\ h \notin Reported
  BY <1>1 DEF Graphs
<1>3. \A g \in BuildTasks, e \in Evaluators :
        Evaluate(g, e) \in Active' <=> Evaluate(g, e) \in Active \/ (g = h /\ e = k + 1)
  <2>1. \A g \in BuildTasks, e \in Evaluators :
          Evaluate(g, e) = Evaluate(h, k + 1) <=> g = h /\ e = k + 1
    BY <1>1, TaskFacts
  <2> QED  BY <2>1
<1>4. \A g \in BuildTasks : g \in Active' <=> g \in Active
  <2>1. \A g \in BuildTasks : g # Evaluate(h, k + 1)
    BY <1>1, TaskFacts
  <2> QED  BY <2>1
<1>5. \A g \in BuildTasks : \A e \in Evaluators :
        Expected(g, e)' <=> Expected(g, e) \/ (g = h /\ e = k + 1)
  <2>1. \A g \in BuildTasks : g # NULL
    BY TaskFacts
  <2> QED  BY <1>2, <2>1 DEF Expected
<1>6. ~Expected(h, k + 1)
  BY <1>2 DEF Expected
<1>7. Evaluations'
  BY <1>1, <1>3, <1>5, <1>6 DEF Evaluations
<1>8. Graphs'
  <2>1. \A g \in BuildTasks : g # NULL
    BY TaskFacts
  <2>2. CASE UNCHANGED <<oCodeGraph, aResultTracker>>
    BY <1>4, <2>2 DEF Graphs, Made
  <2>3. CASE /\ aResultTracker' = [g \in DOMAIN aResultTracker \cup {h} |->
                                     IF g = h THEN unset ELSE aResultTracker[g]]
             /\ oCodeGraph' = NULL
    <3>1. DOMAIN aResultTracker' = DOMAIN aResultTracker \cup {h}
      BY <2>3
    <3>2. \A g \in BuildTasks : CodeGraph(g) \in Ready => g # h
      BY DEF Graphs
    <3> QED  BY <1>2, <1>4, <2>1, <2>3, <3>1, <3>2 DEF Graphs, Made
  <2> QED  BY <2>2, <2>3
<1> QED  BY <1>7, <1>8

\* An evaluation is the first or the last of its graph that comes in.
LEMMA EvaluationTaken ==
  ASSUME CoordinatorTypes, Graphs, Evaluations, oCodeGraph = NULL,
         NEW h \in BuildTasks, NEW d \in Evaluators, EvaluationResult(h, d) \in Ready,
         \A x : x # AnalysisError => (x \in Ready' <=> x \in Ready /\ x # EvaluationResult(h, d)),
         Active' = Active, UNCHANGED <<oCodeGraph, oAnalysisResult, yielded, numBuilds>>
  PROVE  /\ h \in DOMAIN aResultTracker /\ d \in aResultTracker[h] /\ h \notin Reported
         /\ \/ /\ aResultTracker' = [g \in DOMAIN aResultTracker \ {h} |-> aResultTracker[g]]
               /\ aResultTracker[h] \ {d} = {} /\ Reported' = Reported \cup {h}
            \/ /\ aResultTracker' = [aResultTracker EXCEPT ![h] = aResultTracker[h] \ {d}]
               /\ aResultTracker[h] \ {d} # {} /\ Reported' = Reported
            => Graphs' /\ Evaluations'
<1>1. h # NULL /\ \A g \in BuildTasks : g # NULL
  BY TaskFacts
<1>2. Expected(h, d) /\ Evaluate(h, d) \notin Active
  BY DEF Evaluations
<1>3. h \in DOMAIN aResultTracker /\ d \in aResultTracker[h]
  BY <1>1, <1>2 DEF Expected
<1>4. h \notin Reported /\ h \in yielded
  BY <1>3 DEF Graphs
<1>5. \A g : CodeGraph(g) \in Ready' <=> CodeGraph(g) \in Ready
  BY ResultFacts
<1>6. \A g, e : EvaluationResult(g, e) \in Ready' <=>
                  EvaluationResult(g, e) \in Ready /\ ~(g = h /\ e = d)
  BY ResultFacts
<1>7. \A g \in BuildTasks : CodeGraph(g) \in Ready => g # h
  BY <1>3 DEF Graphs
<1>8. ASSUME aResultTracker' = [g \in DOMAIN aResultTracker \ {h} |-> aResultTracker[g]],
             aResultTracker[h] \ {d} = {}, Reported' = Reported \cup {h}
      PROVE  Graphs' /\ Evaluations'
  <2>1. \A g \in BuildTasks : \A e \in Evaluators :
          Expected(g, e)' <=> Expected(g, e) /\ ~(g = h /\ e = d)
    BY <1>1, <1>3, <1>8 DEF Expected
  <2>2. Evaluations'
    BY <1>2, <1>6, <2>1 DEF Evaluations
  <2>3. Graphs'
    BY <1>4, <1>5, <1>7, <1>8 DEF Graphs, Made
  <2> QED  BY <2>2, <2>3
<1>9. ASSUME aResultTracker' = [aResultTracker EXCEPT ![h] = aResultTracker[h] \ {d}],
             Reported' = Reported
      PROVE  Graphs' /\ Evaluations'
  <2>1. DOMAIN aResultTracker' = DOMAIN aResultTracker
    BY <1>9
  <2>2. \A g \in BuildTasks : \A e \in Evaluators :
          Expected(g, e)' <=> Expected(g, e) /\ ~(g = h /\ e = d)
    BY <1>1, <1>3, <1>9, <2>1 DEF Expected
  <2>3. Evaluations'
    BY <1>2, <1>6, <2>2 DEF Evaluations
  <2>4. Graphs'
    BY <1>5, <1>9, <2>1 DEF Graphs, Made
  <2> QED  BY <2>3, <2>4
<1> QED  BY <1>3, <1>4, <1>8, <1>9

-----------------------------------------------------------------------------
(* The steps *)

dialogVars == <<coordinatorVars, numBuilds, signals, guiVars>>

\* What the coordinator and the dialog do not do disturbs neither of them.
LEMMA CoordinatorFrame ==
  ASSUME CoordinatorInv, UNCHANGED dialogVars, yielded' \subseteq BuildTasks
  PROVE  CoordinatorInv' /\ Reported' = Reported
<1> USE DEF dialogVars, coordinatorVars, guiVars
<1>1. CoordinatorTypes' /\ InEvaluators'
  BY DEF CoordinatorInv, CoordinatorTypes, InEvaluators
<1>2. FunctionsLeft'
  BY DEF CoordinatorInv, FunctionsLeft, IsInjective
<1>3. Signalled'
  BY DEF CoordinatorInv, Signalled, FunctionsCounted, FinishedIsLast, CompleteIsLast, SaysComplete, NextSignals
<1>4. ReportedOnce' /\ Reported' = Reported
  BY DEF CoordinatorInv, ReportedOnce, IsInjective, Reported, Shown, OnTheWay, ResultSignals
<1> QED  BY <1>1, <1>2, <1>3, <1>4 DEF CoordinatorInv

\* Work does not disappear from the pool, unless a result is collected.
LEMMA WorkStays ==
  ASSUME PoolTypes, NoBarrier,
         \/ PoolItself
         \/ \E t \in Tasks : Schedule(t)
         \/ \E w \in Threads, r \in Results : YieldResult(w, r),
         aTasks # <<>> \/ Executing # {} \/ aResults # <<>>
  PROVE  aTasks' # <<>> \/ Executing' # {} \/ aResults' # <<>>
<1>1. ASSUME NEW x, Enqueue(x)  PROVE  aTasks' # <<>>
  BY <1>1 DEF Enqueue, PoolTypes
<1>2. ASSUME NEW t \in Tasks, ScheduleIfResourceAvailable(t, FALSE)
      PROVE  UNCHANGED <<aTasks, aResults>> /\ Executing' = Executing
  BY <1>2 DEF ScheduleIfResourceAvailable, StartThreads, Started, Executing
<1>3. CASE AwaitYield \/ ReturnNull \/ JoinThreads \/ UNCHANGED <<aTasks, aResults, worker, stTask>>
  BY <1>3 DEF AwaitYield, ReturnNull, JoinThreads, Executing
<1>4. CASE SpuriousWakeup
  <2>1. UNCHANGED <<aTasks, aResults>> /\ Executing' = Executing
    BY <1>4 DEF SpuriousWakeup, SpuriousOwner, SpuriousWorker, Executing, PoolTypes
  <2> QED  BY <2>1
<1>5. ASSUME NEW w \in Threads, WorkerStep(w)
      PROVE  aTasks' # <<>> \/ Executing' # {} \/ aResults' # <<>>
  <2>1. CASE WorkerTake(w)
    BY <2>1 DEF WorkerTake, Executing, PoolTypes
  <2>2. ~WorkerReleaseBarrier(w)
    BY DEF WorkerReleaseBarrier, NoBarrier, PoolTypes
  <2>3. CASE ~WorkerTake(w)
    <3>1. UNCHANGED <<aTasks, aResults>> /\ Executing' = Executing
      BY <1>5, <2>2, <2>3 DEF WorkerStep, WorkerWait, WorkerAwaitBarrier, WorkerLeaveBarrier,
         WorkerExit, ExecuteReturn, AtQueue, Executing, PoolTypes
    <3> QED  BY <3>1
  <2> QED  BY <2>1, <2>3
<1>6. ASSUME NEW w \in Threads, NEW r \in Results, YieldResult(w, r)  PROVE  aResults' # <<>>
  BY <1>6 DEF YieldResult, PoolTypes
<1>7. CASE Destroy \/ \E t \in Tasks : Schedule(t)
  BY <1>1, <1>7 DEF Destroy, Schedule
<1> QED  BY <1>2, <1>3, <1>4, <1>5, <1>6, <1>7 DEF PoolItself

\* The pool and its threads by themselves, and the coordinator when it waits.
LEMMA QuietStep ==
  ASSUME IInv, PoolItself, UNCHANGED <<dialogVars, yielded>>
  PROVE  CoordinatorInv' /\ GraphsInv'
<1>1. CoordinatorInv' /\ Reported' = Reported
  BY CoordinatorFrame DEF IInv, CoordinatorInv, CoordinatorTypes
<1>2. Active' = Active /\ Ready' = Ready /\ Places'
  BY PoolItselfPlaces DEF IInv, PoolInv, GraphsInv
<1>3. Graphs' /\ Evaluations'
  BY <1>1, <1>2, GraphsFrame DEF IInv, GraphsInv, analysisVars, dialogVars, coordinatorVars
<1>4. SomethingToCome'
  BY WorkStays DEF IInv, PoolInv, GraphsInv, SomethingToCome, dialogVars, coordinatorVars
<1> QED  BY <1>1, <1>2, <1>3, <1>4 DEF GraphsInv

\* Those steps.
LEMMA QuietSteps ==
  ASSUME \/ AwaitResult \/ DropPool \/ UNCHANGED vars
         \/ \E w \in Threads : /\ WorkerStep(w)
                               /\ UNCHANGED <<coordinatorVars, numBuilds, signals, guiVars, yielded>>
         \/ /\ SpuriousWakeup
            /\ UNCHANGED <<coordinatorVars, numBuilds, signals, guiVars, yielded>>
  PROVE  PoolItself /\ UNCHANGED <<dialogVars, yielded>>
<1>1. PoolItself
  BY DEF AwaitResult, DropPool, vars, poolVars, PoolItself
<1>2. UNCHANGED <<dialogVars, yielded>>
  BY DEF AwaitResult, DropPool, vars, dialogVars
<1> QED  BY <1>1, <1>2

\* A builder forks.
LEMMA BuilderForksStep ==
  ASSUME IInv, NEW w \in Threads, BuilderForks(w)
  PROVE  CoordinatorInv' /\ GraphsInv'
<1> DEFINE f == stTask[w].lpFunction
<1>1. f \in Functions
  BY TaskFacts DEF BuilderForks, IInv, PoolInv, Holding
<1>2. /\ numBuilds[f] < MaxBuilds
      /\ Schedule(Build(f, numBuilds[f] + 1))
      /\ numBuilds' = [numBuilds EXCEPT ![f] = numBuilds[f] + 1]
      /\ UNCHANGED <<owner, coordinatorVars, signals, guiVars, yielded>>
  BY DEF BuilderForks
<1> HIDE DEF f
<1>3. PICK g \in Functions : f = g
  BY <1>1
<1>4. PICK b \in Tasks : b = Build(g, numBuilds[g] + 1) /\ b \notin Active
  BY <1>2, <1>3, BuildIsNew, TaskFacts DEF IInv, GraphsInv, CoordinatorInv
<1>5. Active' = Active \cup {b} /\ Ready' = Ready /\ Places'
  BY <1>2, <1>3, <1>4, SchedulePlaces DEF IInv, PoolInv, GraphsInv
<1>6. Reported' = Reported /\ ReportedOnce'
  BY <1>2 DEF ReportedOnce, IsInjective, Reported, Shown, OnTheWay, ResultSignals, guiVars, IInv,
     CoordinatorInv
<1>7. Graphs' /\ Evaluations'
  BY <1>2, <1>3, <1>4, <1>5, <1>6, BuildStarts
  DEF IInv, GraphsInv, CoordinatorInv, analysisVars, coordinatorVars
<1>8. CoordinatorTypes' /\ InEvaluators'
  BY <1>2, <1>3 DEF IInv, CoordinatorInv, CoordinatorTypes, InEvaluators, coordinatorVars, guiVars
<1>9. FunctionsLeft'
  <2>1. numBuilds[g] # 0
    <3>1. stTask[w] \in BuildTasks /\ w \in Executing
      BY TaskFacts DEF BuilderForks, IInv, PoolInv, Holding, Executing
    <3>2. stTask[w] \in Active
      BY <3>1 DEF Active, Running
    <3>3. Made(stTask[w])
      BY <3>1, <3>2 DEF IInv, GraphsInv, Graphs
    <3> QED  BY <1>3, <3>1, <3>3, TaskFacts DEF Made, f
  <2>2. \A x \in Functions : numBuilds[x] # 0 => numBuilds'[x] # 0
    BY <1>2, <1>3 DEF IInv, CoordinatorInv, CoordinatorTypes
  <2>3. \A x \in Functions : numBuilds[x] = 0 => numBuilds'[x] = 0
    BY <1>2, <1>3, <2>1 DEF IInv, CoordinatorInv, CoordinatorTypes
  <2>4. ToSet(aFunctionList) \subseteq Functions /\ ToSet(Selection) \subseteq Functions
    BY SelectionAssumption DEF IInv, CoordinatorInv, CoordinatorTypes, ToSet
  <2> QED  BY <1>2, <2>2, <2>3, <2>4
           DEF IInv, CoordinatorInv, FunctionsLeft, IsInjective, coordinatorVars
<1>10. Signalled'
  BY <1>2 DEF IInv, CoordinatorInv, Signalled, FunctionsCounted, FinishedIsLast,
     CompleteIsLast, SaysComplete, NextSignals, coordinatorVars, guiVars
<1>11. SomethingToCome'
  <2>1. w \in Executing
    BY DEF BuilderForks, Executing
  <2>2. aTasks' # <<>> \/ Executing' # {} \/ aResults' # <<>>
    BY <1>2, <1>3, <1>4, <2>1, WorkStays DEF IInv, PoolInv
  <2> QED  BY <2>2 DEF SomethingToCome
<1> QED  BY <1>5, <1>6, <1>7, <1>8, <1>9, <1>10, <1>11 DEF CoordinatorInv, GraphsInv

\* A build task yields its graph, or an error.
LEMMA BuilderYieldsStep ==
  ASSUME IInv, NEW w \in Threads, BuilderYields(w)
  PROVE  CoordinatorInv' /\ GraphsInv'
<1>1. PICK b \in BuildTasks : b = stTask[w]
  BY TaskFacts DEF BuilderYields, IInv, PoolInv, Holding
<1>2. b \in Active
  <2>1. w \in Executing
    BY DEF BuilderYields, Executing
  <2> QED  BY <1>1, <2>1 DEF Active, Running
<1>3. UNCHANGED dialogVars
  BY DEF BuilderYields, dialogVars
<1>4. yielded' \subseteq BuildTasks
  BY <1>1 DEF BuilderYields, IInv, CoordinatorInv, CoordinatorTypes
<1>5. CoordinatorInv' /\ Reported' = Reported
  BY <1>3, <1>4, CoordinatorFrame DEF IInv
<1>6. SomethingToCome'
  <2>1. PICK r \in Results : YieldResult(w, r)
    BY <1>1, TaskFacts, ResultFacts DEF BuilderYields
  <2>2. aResults' # <<>>
    BY <2>1 DEF YieldResult, IInv, PoolInv, PoolTypes
  <2> QED  BY <2>2 DEF SomethingToCome
<1>7. CASE YieldResult(w, CodeGraph(b)) /\ yielded' = yielded \cup {b}
  <2>1. b \notin yielded /\ CodeGraph(b) \notin Ready /\ CodeGraph(b) \in Results
    BY <1>2, TaskFacts DEF IInv, GraphsInv, Graphs
  <2>2. Active' = Active \ {b} /\ Ready' = Ready \cup {CodeGraph(b)} /\ Places'
    BY <1>1, <1>7, <2>1, YieldResultPlaces DEF IInv, PoolInv, GraphsInv
  <2>3. Graphs' /\ Evaluations'
    BY <1>2, <1>3, <1>5, <1>7, <2>2, GraphYielded
    DEF IInv, GraphsInv, CoordinatorInv, dialogVars, coordinatorVars
  <2> QED  BY <1>5, <1>6, <2>2, <2>3 DEF GraphsInv
<1>8. CASE YieldResult(w, AnalysisError) /\ UNCHANGED yielded
  <2>1. Active' = Active \ {b} /\ Ready' = Ready \cup {AnalysisError} /\ Places'
    BY <1>1, <1>8, ResultFacts, YieldResultPlaces DEF IInv, PoolInv, GraphsInv
  <2>2. Graphs' /\ Evaluations'
    BY <1>3, <1>5, <1>8, <2>1, ErrorYielded
    DEF IInv, GraphsInv, analysisVars, dialogVars, coordinatorVars
  <2> QED  BY <1>5, <1>6, <2>1, <2>2 DEF GraphsInv
<1> QED  BY <1>1, <1>7, <1>8 DEF BuilderYields

\* An evaluation yields its result.
LEMMA EvaluatorYieldsStep ==
  ASSUME IInv, NEW w \in Threads, EvaluatorYields(w)
  PROVE  CoordinatorInv' /\ GraphsInv'
<1>1. PICK h \in BuildTasks, d \in Evaluators :
        /\ stTask[w] = Evaluate(h, d) /\ h = stTask[w].oCodeGraph /\ d = stTask[w].oEvaluator
  <2>1. stTask[w] \in EvaluateTasks
    BY TaskFacts DEF EvaluatorYields, IInv, PoolInv, Holding
  <2> QED  BY <2>1, TaskFacts
<1>2. Evaluate(h, d) \in Active
  <2>1. w \in Executing
    BY DEF EvaluatorYields, Executing
  <2> QED  BY <1>1, <2>1 DEF Active, Running
<1>3. UNCHANGED <<dialogVars, yielded>> /\ YieldResult(w, EvaluationResult(h, d))
  BY <1>1 DEF EvaluatorYields, dialogVars
<1>4. CoordinatorInv' /\ Reported' = Reported
  BY <1>3, CoordinatorFrame DEF IInv, CoordinatorInv, CoordinatorTypes
<1>5. EvaluationResult(h, d) \notin Ready /\ EvaluationResult(h, d) \in Results
  BY <1>2, TaskFacts DEF IInv, GraphsInv, Evaluations
<1>6. Active' = Active \ {Evaluate(h, d)} /\ Ready' = Ready \cup {EvaluationResult(h, d)} /\ Places'
  BY <1>1, <1>3, <1>5, YieldResultPlaces DEF IInv, PoolInv, GraphsInv
<1>7. Graphs' /\ Evaluations'
  BY <1>2, <1>3, <1>4, <1>6, EvaluationYielded
  DEF IInv, GraphsInv, analysisVars, dialogVars, coordinatorVars
<1>8. SomethingToCome'
  <2>1. aResults' # <<>>
    BY <1>3 DEF YieldResult, IInv, PoolInv, PoolTypes
  <2> QED  BY <2>1 DEF SomethingToCome
<1> QED  BY <1>4, <1>6, <1>7, <1>8 DEF GraphsInv

\* The coordinator collects an error.
LEMMA CollectErrorStep ==
  ASSUME IInv, CollectError
  PROVE  CoordinatorInv' /\ GraphsInv'
<1>1. /\ TakeResult(AnalysisError) /\ coordinator = "collecting" /\ coordinator' = "next"
      /\ UNCHANGED <<analysisVars, aFunctionList, numBuilds, signals, guiVars>>
  BY DEF CollectError, analysisVars
<1>2. Active' = Active /\ Places' /\ \A x : x # AnalysisError => (x \in Ready' <=> x \in Ready)
  BY <1>1, ResultFacts, TakeResultPlaces DEF IInv, PoolInv, GraphsInv
<1>3. Reported' = Reported /\ ReportedOnce'
  BY <1>1 DEF ReportedOnce, IsInjective, Reported, Shown, OnTheWay, ResultSignals, guiVars, IInv,
     CoordinatorInv
<1>4. Graphs' /\ Evaluations'
  BY <1>1, <1>2, <1>3, GraphsFrame DEF IInv, GraphsInv
<1>5. CoordinatorTypes' /\ InEvaluators' /\ SomethingToCome'
  BY <1>1 DEF IInv, CoordinatorInv, CoordinatorTypes, InEvaluators, SomethingToCome, analysisVars,
     guiVars
<1>6. FunctionsLeft'
  BY <1>1 DEF IInv, CoordinatorInv, FunctionsLeft, IsInjective
<1>7. Signalled'
  BY <1>1 DEF IInv, CoordinatorInv, Signalled, FunctionsCounted, FinishedIsLast,
     CompleteIsLast, SaysComplete, NextSignals, guiVars
<1> QED  BY <1>2, <1>3, <1>4, <1>5, <1>6, <1>7 DEF CoordinatorInv, GraphsInv

\* The coordinator collects a graph.
LEMMA CollectGraphStep ==
  ASSUME IInv, CollectGraph
  PROVE  CoordinatorInv' /\ GraphsInv'
<1>1. PICK h \in BuildTasks :
        /\ TakeResult(CodeGraph(h)) /\ oCodeGraph' = h /\ oAnalysisResult' = {}
        /\ coordinator = "collecting" /\ coordinator' = "evaluators"
        /\ UNCHANGED <<aFunctionList, aResultTracker, numBuilds, signals, guiVars, yielded>>
  BY DEF CollectGraph
<1>2. /\ Active' = Active /\ Places' /\ CodeGraph(h) \in Ready
      /\ \A x : x # AnalysisError => (x \in Ready' <=> x \in Ready /\ x # CodeGraph(h))
  BY <1>1, TaskFacts, TakeResultPlaces DEF IInv, PoolInv, GraphsInv
<1>3. Reported' = Reported /\ ReportedOnce'
  BY <1>1 DEF ReportedOnce, IsInjective, Reported, Shown, OnTheWay, ResultSignals, guiVars, IInv,
     CoordinatorInv
<1>4. oCodeGraph = NULL /\ oAnalysisResult = {}
  BY <1>1 DEF IInv, CoordinatorInv, InEvaluators
<1>5. Graphs' /\ Evaluations'
  BY <1>1, <1>2, <1>3, <1>4, GraphTaken DEF IInv, GraphsInv, CoordinatorInv
<1>6. CoordinatorTypes' /\ SomethingToCome'
  BY <1>1 DEF IInv, CoordinatorInv, CoordinatorTypes, SomethingToCome, guiVars
<1>7. InEvaluators'
  <2>1. oAnalysisResult' = 1..0 /\ 0 \in 0..(NumEvaluators - 1)
    BY <1>1, EvaluatorsAssumption
  <2> QED  BY <1>1, <2>1 DEF InEvaluators
<1>8. FunctionsLeft'
  BY <1>1 DEF IInv, CoordinatorInv, FunctionsLeft, IsInjective
<1>9. Signalled'
  BY <1>1 DEF IInv, CoordinatorInv, Signalled, FunctionsCounted, FinishedIsLast,
     CompleteIsLast, SaysComplete, NextSignals, guiVars
<1> QED  BY <1>2, <1>3, <1>5, <1>6, <1>7, <1>8, <1>9 DEF CoordinatorInv, GraphsInv

\* The coordinator collects an evaluation; with the last of its graph, it
\* reports the graph.
LEMMA CollectEvaluationStep ==
  ASSUME IInv, CollectEvaluation
  PROVE  CoordinatorInv' /\ GraphsInv'
<1>1. PICK h \in BuildTasks, d \in Evaluators :
        /\ TakeResult(EvaluationResult(h, d))
        /\ IF h \in DOMAIN aResultTracker THEN CollectResult(h, d)
                                          ELSE UNCHANGED <<aResultTracker, signals>>
        /\ coordinator = "collecting" /\ coordinator' = "next"
        /\ UNCHANGED <<aFunctionList, oCodeGraph, oAnalysisResult, numBuilds, guiVars, yielded>>
  BY DEF CollectEvaluation
<1>2. /\ Active' = Active /\ Places' /\ EvaluationResult(h, d) \in Ready
      /\ \A x : x # AnalysisError => (x \in Ready' <=> x \in Ready /\ x # EvaluationResult(h, d))
  BY <1>1, TaskFacts, TakeResultPlaces DEF IInv, PoolInv, GraphsInv
<1>3. oCodeGraph = NULL /\ oAnalysisResult = {}
  BY <1>1 DEF IInv, CoordinatorInv, InEvaluators
<1>4. CoordinatorTypes /\ Graphs /\ Evaluations
  BY DEF IInv, CoordinatorInv, GraphsInv
<1>5. /\ h \in DOMAIN aResultTracker /\ d \in aResultTracker[h] /\ h \notin Reported
      /\ \/ /\ aResultTracker' = [g \in DOMAIN aResultTracker \ {h} |-> aResultTracker[g]]
            /\ aResultTracker[h] \ {d} = {} /\ Reported' = Reported \cup {h}
         \/ /\ aResultTracker' = [aResultTracker EXCEPT ![h] = aResultTracker[h] \ {d}]
            /\ aResultTracker[h] \ {d} # {} /\ Reported' = Reported
         => Graphs' /\ Evaluations'
  BY <1>1, <1>2, <1>3, <1>4, EvaluationTaken
<1>6. CollectResult(h, d)
  BY <1>1, <1>5
<1>7. InEvaluators' /\ SomethingToCome'
  BY <1>1, <1>3 DEF InEvaluators, SomethingToCome
<1>8. FunctionsLeft'
  BY <1>1 DEF IInv, CoordinatorInv, FunctionsLeft, IsInjective
<1>9. ASSUME aResultTracker[h] \ {d} = {}
      PROVE  Graphs' /\ Evaluations' /\ ReportedOnce' /\ CoordinatorTypes' /\ Signalled'
  <2>1. /\ aResultTracker' = [g \in DOMAIN aResultTracker \ {h} |-> aResultTracker[g]]
        /\ signals' = Append(signals, ResultReady(h)) /\ UNCHANGED lpResultsTable
    BY <1>1, <1>6, <1>9 DEF CollectResult, AllResultsSet, SetResult, guiVars
  <2>2. ResultReady(h) \in Signals
    BY SignalFacts
  <2>3. /\ signals' \in Seq(Signals)
        /\ Len(signals) \in Nat /\ Len(signals') = Len(signals) + 1
        /\ signals'[Len(signals) + 1] = ResultReady(h)
        /\ \A i \in 1..Len(signals) : signals'[i] = signals[i]
        /\ Reported' = Reported \cup {h} /\ (ReportedOnce /\ h \notin Reported => ReportedOnce')
        /\ Cardinality(NextSignals') = Cardinality(NextSignals)
    <3>1. /\ ResultReady(h).signal = "ResultReady" /\ ResultReady(h).oCodeGraph = h
          /\ ResultReady(h) # NextFunction
      BY SignalFacts
    <3> QED  BY <1>4, <2>1, <2>2, <3>1, SendSignal, NextSignalsFinite
  <2>4. CoordinatorTypes'
    BY <1>1, <1>4, <2>1, <2>3 DEF CoordinatorTypes, guiVars
  <2>5. Signalled'
    <3>1. Signalled /\ ResultReady(h) # CoordinatorFinished
      BY SignalFacts DEF IInv, CoordinatorInv
    <3>2. \A i \in 1..Len(signals) : signals[i] # CoordinatorFinished
      BY <1>1, <3>1 DEF Signalled, FinishedIsLast
    <3>3. \A i \in 1..Len(signals') : signals'[i] # CoordinatorFinished
      BY <2>3, <3>1, <3>2
    <3>4. FunctionsCounted' /\ CompleteIsLast'
      BY <1>1, <2>3, <3>1 DEF Signalled, FunctionsCounted, CompleteIsLast, SaysComplete, guiVars
    <3> QED  BY <3>3, <3>4 DEF Signalled, FinishedIsLast
  <2> QED  BY <1>5, <1>9, <2>1, <2>3, <2>4, <2>5 DEF IInv, CoordinatorInv
<1>10. ASSUME aResultTracker[h] \ {d} # {}
       PROVE  Graphs' /\ Evaluations' /\ ReportedOnce' /\ CoordinatorTypes' /\ Signalled'
  <2>1. /\ aResultTracker' = [aResultTracker EXCEPT ![h] = aResultTracker[h] \ {d}]
        /\ UNCHANGED signals
    BY <1>6, <1>10 DEF CollectResult, AllResultsSet, SetResult
  <2>2. Reported' = Reported /\ ReportedOnce'
    BY <1>1, <2>1 DEF ReportedOnce, IsInjective, Reported, Shown, OnTheWay, ResultSignals, guiVars,
       IInv, CoordinatorInv
  <2>3. CoordinatorTypes'
    BY <1>1, <1>4, <1>5, <1>10, <2>1 DEF CoordinatorTypes, guiVars
  <2>4. Signalled'
    BY <1>1, <2>1 DEF IInv, CoordinatorInv, Signalled, FunctionsCounted, FinishedIsLast,
     CompleteIsLast, SaysComplete, NextSignals, guiVars
  <2> QED  BY <1>5, <1>10, <2>1, <2>2, <2>3, <2>4
<1> QED  BY <1>2, <1>7, <1>8, <1>9, <1>10 DEF CoordinatorInv, GraphsInv

\* WaitForResult returns nullptr: nothing is left to schedule, either.
LEMMA FinishStep ==
  ASSUME IInv, Finish
  PROVE  CoordinatorInv' /\ GraphsInv'
<1>1. /\ ReturnNull /\ coordinator = "collecting" /\ coordinator' = "finished"
      /\ signals' = Append(signals, CoordinatorFinished)
      /\ UNCHANGED <<analysisVars, aFunctionList, numBuilds, guiVars, lpResultsTable>>
  BY DEF Finish, analysisVars, guiVars
<1>2. Active' = Active /\ Ready' = Ready /\ Places'
  BY <1>1, PoolItselfPlaces DEF IInv, PoolInv, GraphsInv, PoolItself
<1>3. CoordinatorTypes /\ Signalled /\ ReportedOnce /\ InEvaluators /\ FunctionsLeft
  BY DEF IInv, CoordinatorInv
<1>4. /\ signals' \in Seq(Signals)
      /\ Len(signals) \in Nat /\ Len(signals') = Len(signals) + 1
      /\ signals'[Len(signals) + 1] = CoordinatorFinished
      /\ \A i \in 1..Len(signals) : signals'[i] = signals[i]
      /\ Reported' = Reported /\ ReportedOnce'
      /\ Cardinality(NextSignals') = Cardinality(NextSignals)
  <2>1. /\ CoordinatorFinished \in Signals /\ CoordinatorFinished.signal # "ResultReady"
        /\ CoordinatorFinished # NextFunction
    BY SignalFacts
  <2> QED  BY <1>1, <1>3, <2>1, SendSignal, NextSignalsFinite
<1>5. Graphs' /\ Evaluations'
  BY <1>1, <1>2, <1>4, GraphsFrame DEF IInv, GraphsInv
<1>6. aFunctionList = <<>>
  <2>1. aResults = <<>> /\ aTasks = <<>> /\ dwNumActive = 0
    BY <1>1 DEF ReturnNull, NothingLeft
  <2>2. Executing = {}
    BY <2>1, NobodyActive DEF IInv, PoolInv, Executing
  <2> QED  BY <1>1, <2>1, <2>2 DEF IInv, GraphsInv, SomethingToCome
<1>7. CoordinatorTypes' /\ InEvaluators' /\ SomethingToCome'
  BY <1>1, <1>3, <1>4 DEF CoordinatorTypes, InEvaluators, SomethingToCome, analysisVars
<1>8. FunctionsLeft'
  BY <1>1, <1>3, <1>6 DEF FunctionsLeft, IsInjective
<1>9. Signalled'
  <2>1. \A i \in 1..Len(signals) : signals'[i] # CoordinatorFinished
    BY <1>1, <1>3, <1>4 DEF Signalled, FinishedIsLast
  <2>2. FinishedIsLast'
    BY <1>1, <1>4, <2>1 DEF FinishedIsLast
  <2>3. FunctionsCounted' /\ CompleteIsLast'
    BY <1>1, <1>3, <1>4 DEF Signalled, FunctionsCounted, CompleteIsLast, SaysComplete, guiVars
  <2> QED  BY <2>2, <2>3 DEF Signalled
<1> QED  BY <1>2, <1>4, <1>5, <1>7, <1>8, <1>9 DEF CoordinatorInv, GraphsInv

\* The dialog handles a signal.
LEMMA GuiStepStep ==
  ASSUME IInv, GuiStep
  PROVE  CoordinatorInv' /\ GraphsInv'
<1>1. CoordinatorTypes /\ Signalled /\ ReportedOnce /\ InEvaluators /\ FunctionsLeft
  BY DEF IInv, CoordinatorInv
<1>2. /\ UNCHANGED <<poolVars, coordinatorVars, numBuilds, yielded>> /\ signals # <<>>
      /\ signals' = Tail(signals)
  BY DEF GuiStep
<1>3. Active' = Active /\ Ready' = Ready /\ Places'
  BY <1>2, PoolItselfPlaces DEF IInv, PoolInv, GraphsInv, PoolItself, poolVars
<1>4. Reported' = Reported /\ ReportedOnce' /\ lpResultsTable' \in Seq(BuildTasks)
  BY <1>1, ReportedStays
<1>5. /\ signals' \in Seq(Signals) /\ Head(signals) \in Signals
      /\ Len(signals) \in Nat \ {0} /\ Len(signals') = Len(signals) - 1
      /\ Head(signals) = signals[1]
      /\ \A i \in 1..Len(signals') : signals'[i] = signals[i + 1]
      /\ Cardinality(NextSignals') =
           Cardinality(NextSignals) - (IF Head(signals) = NextFunction THEN 1 ELSE 0)
  BY <1>1, <1>2, ReceiveSignal
<1>6. Graphs' /\ Evaluations'
  BY <1>2, <1>3, <1>4, GraphsFrame DEF IInv, GraphsInv, analysisVars, coordinatorVars
<1>7. CoordinatorTypes' /\ InEvaluators'
  BY <1>1, <1>2, <1>4, <1>5 DEF CoordinatorTypes, InEvaluators, coordinatorVars
<1>8. FunctionsLeft'
  BY <1>1, <1>2 DEF FunctionsLeft, IsInjective, coordinatorVars
<1>9. SomethingToCome'
  BY <1>2 DEF IInv, GraphsInv, SomethingToCome, poolVars, coordinatorVars, Executing
<1>10. Signalled'
  <2> coordinator' = coordinator /\ aFunctionList' = aFunctionList
    BY <1>2 DEF coordinatorVars
  <2>1. FunctionsCounted'
    <3>1. /\ Len(aFunctionList) \in Nat /\ Cardinality(NextSignals) \in Nat
          /\ dwNumFunctionsLeft = Len(aFunctionList) + Cardinality(NextSignals)
      BY <1>1, NextSignalsFinite DEF CoordinatorTypes, Signalled, FunctionsCounted
    <3>2. CASE HandleNextFunction
      BY <1>5, <3>1, <3>2 DEF HandleNextFunction, FunctionsCounted
    <3>3. CASE HandleResult \/ HandleFinished
      <4>1. Head(signals) # NextFunction /\ UNCHANGED dwNumFunctionsLeft
        BY <3>3, SignalFacts DEF HandleResult, HandleFinished
      <4> QED  BY <1>5, <3>1, <4>1 DEF FunctionsCounted
    <3> QED  BY <3>2, <3>3 DEF GuiStep
  <2>2. FinishedIsLast'
    <3> SUFFICES ASSUME NEW i \in 1..Len(signals'), signals'[i] = CoordinatorFinished
                 PROVE  i = Len(signals') /\ coordinator' = "finished"
      BY DEF FinishedIsLast
    <3>1. i + 1 \in 1..Len(signals) /\ signals[i + 1] = CoordinatorFinished
      BY <1>5
    <3>2. i + 1 = Len(signals) /\ coordinator = "finished"
      BY <1>1, <3>1 DEF Signalled, FinishedIsLast
    <3> QED  BY <1>5, <3>2
  <2>3. CompleteIsLast'
    <3> SUFFICES ASSUME SaysComplete'
                 PROVE  coordinator' = "finished" /\ signals' = <<>>
      BY DEF CompleteIsLast
    <3>1. Head(signals) = CoordinatorFinished
      <4>1. ~SaysComplete
        BY <1>1, <1>2 DEF Signalled, CompleteIsLast
      <4>2. HandleFinished
        BY <4>1, Zenon DEF GuiStep, HandleResult, HandleNextFunction, SaysComplete
      <4> QED  BY <4>2, Zenon DEF HandleFinished
    <3>2. 1 \in 1..Len(signals) /\ signals[1] = CoordinatorFinished
      BY <1>5, <3>1
    <3>3. Len(signals) = 1 /\ coordinator = "finished"
      BY <1>1, <3>2 DEF Signalled, FinishedIsLast
    <3>4. Len(signals') = 0 /\ signals' \in Seq(Signals)
      BY <1>5, <3>3
    <3> QED  BY <3>3, <3>4
  <2> QED  BY <2>1, <2>2, <2>3 DEF Signalled
<1> QED  BY <1>3, <1>4, <1>6, <1>7, <1>8, <1>9, <1>10 DEF CoordinatorInv, GraphsInv

\* The first function leaves the list.
LEMMA FirstFunction ==
  ASSUME CoordinatorInv, aFunctionList # <<>>
  PROVE  LET f == Head(aFunctionList)
         IN /\ f \in Functions /\ f \in ToSet(aFunctionList) /\ numBuilds[f] = 0
            /\ Tail(aFunctionList) \in Seq(Functions)
            /\ Len(aFunctionList) \in Nat /\ Len(Tail(aFunctionList)) = Len(aFunctionList) - 1
            /\ ToSet(Tail(aFunctionList)) = ToSet(aFunctionList) \ {f}
            /\ IsInjective(Tail(aFunctionList))
<1> DEFINE f == Head(aFunctionList)
           n == Len(aFunctionList)
           rest == Tail(aFunctionList)
<1>1. aFunctionList \in Seq(Functions) /\ IsInjective(aFunctionList)
  BY DEF CoordinatorInv, CoordinatorTypes, FunctionsLeft
<1>2. /\ f = aFunctionList[1] /\ f \in Functions /\ rest \in Seq(Functions)
      /\ n \in Nat \ {0} /\ DOMAIN aFunctionList = 1..n
      /\ Len(rest) = n - 1 /\ DOMAIN rest = 1..(n - 1)
      /\ \A i \in 1..(n - 1) : rest[i] = aFunctionList[i + 1]
  BY <1>1
<1> HIDE DEF f, n, rest
<1>3. \A i \in 1..(n - 1) : i + 1 \in 1..n /\ i + 1 # 1
  BY <1>2
<1>4. \A j \in 1..n : j = 1 \/ (j - 1 \in 1..(n - 1) /\ (j - 1) + 1 = j)
  BY <1>2
<1>5. 1 \in 1..n
  BY <1>2
<1>6. ToSet(rest) \subseteq ToSet(aFunctionList) \ {f}
  <2> SUFFICES ASSUME NEW i \in 1..(n - 1)
               PROVE  rest[i] \in ToSet(aFunctionList) /\ rest[i] # f
    BY <1>2 DEF ToSet
  <2>1. rest[i] = aFunctionList[i + 1] /\ i + 1 \in DOMAIN aFunctionList /\ i + 1 # 1
    BY <1>2, <1>3
  <2>2. aFunctionList[i + 1] # aFunctionList[1]
    BY <1>1, <1>2, <1>5, <2>1 DEF IsInjective
  <2> QED  BY <1>2, <2>1, <2>2 DEF ToSet
<1>7. ToSet(aFunctionList) \ {f} \subseteq ToSet(rest)
  <2> SUFFICES ASSUME NEW j \in 1..n, aFunctionList[j] # f
               PROVE  aFunctionList[j] \in ToSet(rest)
    BY <1>2 DEF ToSet
  <2>1. j - 1 \in 1..(n - 1) /\ rest[j - 1] = aFunctionList[j]
    BY <1>2, <1>4
  <2> QED  BY <1>2, <2>1 DEF ToSet
<1>8. IsInjective(rest)
  <2> SUFFICES ASSUME NEW i \in 1..(n - 1), NEW j \in 1..(n - 1), rest[i] = rest[j]
               PROVE  i = j
    BY <1>2 DEF IsInjective
  <2>1. i + 1 = j + 1
    BY <1>1, <1>2, <1>3 DEF IsInjective
  <2> QED  BY <2>1
<1>9. f \in ToSet(aFunctionList)
  BY <1>2, <1>5 DEF ToSet
<1>10. numBuilds[f] = 0
  BY <1>9 DEF CoordinatorInv, FunctionsLeft
<1> QED  BY <1>2, <1>6, <1>7, <1>8, <1>9, <1>10 DEF f, n, rest

\* The first function is scheduled.
LEMMA FunctionScheduled ==
  ASSUME IInv, ScheduleFirstFunction(TRUE), coordinator # "finished",
         coordinator' \in {"starting", "collecting"}, coordinator # "evaluators",
         UNCHANGED <<analysisVars, guiVars>>
  PROVE  CoordinatorInv' /\ GraphsInv'
<1>1. CoordinatorInv /\ CoordinatorTypes /\ Signalled /\ ReportedOnce /\ Graphs /\ Evaluations
  BY DEF IInv, CoordinatorInv, GraphsInv
<1>2. PICK f \in Functions : f = Head(aFunctionList)
  BY <1>1, FirstFunction DEF ScheduleFirstFunction
<1>3. /\ f \in ToSet(aFunctionList) /\ numBuilds[f] = 0
      /\ Tail(aFunctionList) \in Seq(Functions)
      /\ Len(aFunctionList) \in Nat /\ Len(Tail(aFunctionList)) = Len(aFunctionList) - 1
      /\ ToSet(Tail(aFunctionList)) = ToSet(aFunctionList) \ {f}
      /\ IsInjective(Tail(aFunctionList))
  BY <1>1, <1>2, FirstFunction DEF ScheduleFirstFunction
<1>4. /\ ScheduleIfResourceAvailable(Build(f, 1), TRUE)
      /\ aFunctionList' = Tail(aFunctionList)
      /\ numBuilds' = [numBuilds EXCEPT ![f] = 1]
      /\ signals' = Append(signals, NextFunction)
  BY <1>2 DEF ScheduleFirstFunction
<1>5. numBuilds[f] < MaxBuilds /\ numBuilds[f] + 1 = 1
  BY <1>3, MaxBuildsAssumption
<1>6. PICK b \in Tasks : b = Build(f, numBuilds[f] + 1) /\ b = Build(f, 1) /\ b \notin Active
  BY <1>1, <1>5, BuildIsNew, TaskFacts
<1>7. Active' = Active \cup {b} /\ Ready' = Ready /\ Places'
  BY <1>4, <1>6, SchedulePlaces DEF IInv, PoolInv, GraphsInv
<1>8. UNCHANGED lpResultsTable
  BY DEF guiVars
<1>9. /\ signals' \in Seq(Signals)
      /\ Len(signals) \in Nat /\ Len(signals') = Len(signals) + 1
      /\ signals'[Len(signals) + 1] = NextFunction
      /\ \A i \in 1..Len(signals) : signals'[i] = signals[i]
      /\ Reported' = Reported /\ ReportedOnce'
      /\ Cardinality(NextSignals') = Cardinality(NextSignals) + 1
  BY <1>1, <1>4, <1>8, SignalFacts, SendSignal
<1>10. Graphs' /\ Evaluations'
  <2>1. numBuilds' = [numBuilds EXCEPT ![f] = numBuilds[f] + 1]
    BY <1>4, <1>5
  <2> QED  BY <1>1, <1>5, <1>6, <1>7, <1>9, <2>1, BuildStarts
<1>11. CoordinatorTypes'
  BY <1>1, <1>3, <1>4, <1>8, <1>9 DEF CoordinatorTypes, analysisVars
<1>12. InEvaluators'
  BY DEF IInv, CoordinatorInv, InEvaluators, analysisVars
<1>13. FunctionsLeft'
  <2>1. \A x \in Functions : numBuilds'[x] = IF x = f THEN 1 ELSE numBuilds[x]
    BY <1>1, <1>4 DEF CoordinatorTypes
  <2>2. ToSet(aFunctionList) \subseteq Functions /\ ToSet(Selection) \subseteq Functions
    BY <1>1, SelectionAssumption DEF CoordinatorTypes, ToSet
  <2>3. IsInjective(aFunctionList')
    BY <1>3, <1>4
  <2>4. \A x \in ToSet(aFunctionList') : numBuilds'[x] = 0
    BY <1>1, <1>3, <1>4, <2>1, <2>2 DEF CoordinatorInv, FunctionsLeft
  <2>5. \A x \in ToSet(Selection) : x \in ToSet(aFunctionList') \/ numBuilds'[x] # 0
    BY <1>1, <1>3, <1>4, <2>1, <2>2 DEF CoordinatorInv, FunctionsLeft
  <2> QED  BY <2>3, <2>4, <2>5 DEF FunctionsLeft, IsInjective
<1>14. Signalled'
  <2>1. FunctionsCounted'
    BY <1>1, <1>3, <1>4, <1>9, NextSignalsFinite DEF Signalled, FunctionsCounted, guiVars
  <2>2. NextFunction # CoordinatorFinished
    BY SignalFacts
  <2>3. \A i \in 1..Len(signals) : signals[i] # CoordinatorFinished
    BY <1>1 DEF Signalled, FinishedIsLast
  <2>4. FinishedIsLast'
    BY <1>9, <2>2, <2>3 DEF FinishedIsLast
  <2>5. CompleteIsLast'
    <3>1. ~SaysComplete /\ ~SaysComplete'
      BY <1>1, Zenon DEF Signalled, CompleteIsLast, SaysComplete, guiVars
    <3> QED  BY <3>1 DEF CompleteIsLast
  <2> QED  BY <2>1, <2>4, <2>5 DEF Signalled
<1>15. SomethingToCome'
  <2>1. aTasks' # <<>>
    BY <1>4 DEF ScheduleIfResourceAvailable, Enqueue, IInv, PoolInv, PoolTypes
  <2> QED  BY <2>1 DEF SomethingToCome
<1> QED  BY <1>7, <1>9, <1>10, <1>11, <1>12, <1>13, <1>14, <1>15 DEF CoordinatorInv, GraphsInv

\* ScheduleNextFunction has no function, or finds the queue long enough.
LEMMA NoFunctionScheduled ==
  ASSUME IInv, NoFunctionLeft \/ ScheduleFirstFunction(FALSE), coordinator # "finished",
         coordinator' \in {"starting", "collecting"}, coordinator # "evaluators",
         UNCHANGED <<analysisVars, guiVars>>
  PROVE  CoordinatorInv' /\ GraphsInv'
<1>1. UNCHANGED <<aFunctionList, numBuilds, signals>> /\ PoolItself
  <2>1. CASE NoFunctionLeft
    BY <2>1 DEF NoFunctionLeft, PoolItself
  <2>2. CASE ScheduleFirstFunction(FALSE)
    <3>1. Build(Head(aFunctionList), 1) \in Tasks
      BY <2>2, FirstFunction, TaskFacts, MaxBuildsAssumption DEF ScheduleFirstFunction, IInv
    <3> QED  BY <2>2, <3>1 DEF ScheduleFirstFunction, PoolItself
  <2> QED  BY <2>1, <2>2
<1>2. Active' = Active /\ Ready' = Ready /\ Places'
  BY <1>1, PoolItselfPlaces DEF IInv, PoolInv, GraphsInv
<1>3. Reported' = Reported /\ ReportedOnce'
  BY <1>1 DEF ReportedOnce, IsInjective, Reported, Shown, OnTheWay, ResultSignals, guiVars, IInv,
     CoordinatorInv
<1>4. Graphs' /\ Evaluations'
  BY <1>1, <1>2, <1>3, GraphsFrame DEF IInv, GraphsInv
<1>5. CoordinatorTypes' /\ InEvaluators'
  BY <1>1 DEF IInv, CoordinatorInv, CoordinatorTypes, InEvaluators, analysisVars, guiVars
<1>6. FunctionsLeft'
  BY <1>1 DEF IInv, CoordinatorInv, FunctionsLeft, IsInjective
<1>7. Signalled'
  <2>1. FunctionsCounted'
    BY <1>1 DEF IInv, CoordinatorInv, Signalled, FunctionsCounted, NextSignals, guiVars
  <2>2. FinishedIsLast'
    BY <1>1 DEF IInv, CoordinatorInv, Signalled, FinishedIsLast
  <2>3. CompleteIsLast'
    <3>1. ~SaysComplete /\ ~SaysComplete'
      BY Zenon DEF IInv, CoordinatorInv, Signalled, CompleteIsLast, SaysComplete, guiVars
    <3> QED  BY <3>1 DEF CompleteIsLast
  <2> QED  BY <2>1, <2>2, <2>3 DEF Signalled
<1>8. SomethingToCome'
  <2>1. CASE NoFunctionLeft
    BY <1>1, <2>1 DEF NoFunctionLeft, SomethingToCome
  <2>2. CASE ScheduleFirstFunction(FALSE)
    <3>1. UNCHANGED aTasks /\ ~(Len(aTasks) < NumThreads)
      BY <2>2 DEF ScheduleFirstFunction, ScheduleIfResourceAvailable
    <3>2. aTasks' # <<>>
      BY <3>1, NumThreadsAssumption
    <3> QED  BY <3>2 DEF SomethingToCome
  <2> QED  BY <2>1, <2>2
<1> QED  BY <1>2, <1>3, <1>4, <1>5, <1>6, <1>7, <1>8 DEF CoordinatorInv, GraphsInv

LEMMA ScheduleNextFunctionStep ==
  ASSUME IInv, ScheduleNextFunction
  PROVE  CoordinatorInv' /\ GraphsInv'
<1>1. /\ coordinator \notin {"finished", "evaluators"}
      /\ coordinator' \in {"starting", "collecting"}
      /\ UNCHANGED <<analysisVars, guiVars>>
      /\ NoFunctionLeft \/ ScheduleFirstFunction(TRUE) \/ ScheduleFirstFunction(FALSE)
  BY DEF ScheduleNextFunction, analysisVars
<1> QED  BY <1>1, FunctionScheduled, NoFunctionScheduled

\* An evaluator is scheduled for the graph.
LEMMA ScheduleEvaluateStep ==
  ASSUME IInv, ScheduleEvaluate
  PROVE  CoordinatorInv' /\ GraphsInv'
<1>1. /\ CoordinatorTypes /\ InEvaluators /\ Graphs /\ Evaluations /\ ReportedOnce
      /\ coordinator = "evaluators"
      /\ UNCHANGED <<owner, aFunctionList, numBuilds, signals, guiVars, yielded>>
  BY DEF IInv, CoordinatorInv, GraphsInv, ScheduleEvaluate
<1>2. PICK k \in 0..(NumEvaluators - 1) :
        /\ oAnalysisResult = 1..k /\ Cardinality(oAnalysisResult) = k
        /\ oCodeGraph \in BuildTasks /\ k + 1 \in Evaluators
        /\ Evaluate(oCodeGraph, k + 1) \in Tasks
        /\ Evaluate(oCodeGraph, k + 1) \notin Active
  BY <1>1, NextEvaluator
<1>3. PICK h \in BuildTasks : h = oCodeGraph
  BY <1>2
<1>4. PICK unset \in {1..k \cup {k + 1}} : unset = SetNull(oAnalysisResult, k + 1)
  BY <1>2 DEF SetNull
<1>5. unset = 1..(k + 1) /\ unset = 1..k \cup {k + 1} /\ unset # {} /\ unset \subseteq Evaluators
  <2>1. k \in Int /\ k >= 0 /\ k + 1 <= NumEvaluators /\ NumEvaluators \in Int
    BY EvaluatorsAssumption
  <2>2. unset = 1..k \cup {k + 1}
    BY <1>4
  <2>3. 1..k \cup {k + 1} = 1..(k + 1)
    BY <2>1
  <2>4. k + 1 \in 1..(k + 1) /\ 1..(k + 1) \subseteq Evaluators
    BY <2>1 DEF Evaluators
  <2> QED  BY <2>2, <2>3, <2>4
<1>6. /\ Schedule(Evaluate(h, k + 1))
      /\ \/ /\ k + 1 < NumEvaluators /\ oAnalysisResult' = unset
            /\ UNCHANGED <<coordinator, oCodeGraph, aResultTracker>>
         \/ /\ aResultTracker' = [g \in DOMAIN aResultTracker \cup {h} |->
                                    IF g = h THEN unset ELSE aResultTracker[g]]
            /\ oAnalysisResult' = {} /\ oCodeGraph' = NULL /\ coordinator' = "next"
  BY <1>2, <1>3, <1>4 DEF ScheduleEvaluate
<1>7. Active' = Active \cup {Evaluate(h, k + 1)} /\ Ready' = Ready /\ Places'
  BY <1>2, <1>3, <1>6, SchedulePlaces DEF IInv, PoolInv, GraphsInv
<1>8. Reported' = Reported /\ ReportedOnce'
  BY <1>1 DEF ReportedOnce, IsInjective, Reported, Shown, OnTheWay, ResultSignals, guiVars
<1>9. Graphs' /\ Evaluations'
  <2>1. \/ oAnalysisResult' = unset /\ UNCHANGED <<oCodeGraph, aResultTracker>>
        \/ /\ aResultTracker' = [g \in DOMAIN aResultTracker \cup {h} |->
                                   IF g = h THEN unset ELSE aResultTracker[g]]
           /\ oAnalysisResult' = {} /\ oCodeGraph' = NULL
    BY <1>6
  <2>2. unset = 1..k \cup {k + 1} /\ oAnalysisResult = 1..k /\ UNCHANGED <<yielded, numBuilds>>
    BY <1>1, <1>2, <1>5
  <2>3. /\ CoordinatorTypes /\ Graphs /\ Evaluations /\ oCodeGraph \in BuildTasks
        /\ Active' = Active \cup {Evaluate(h, k + 1)} /\ Ready' = Ready /\ Reported' = Reported
    BY <1>1, <1>2, <1>7, <1>8
  <2> QED  BY <1>3, <2>1, <2>2, <2>3, EvaluationStarts, ZenonT(30)
<1>10. CoordinatorTypes'
  <2>1. CASE UNCHANGED <<coordinator, oCodeGraph, aResultTracker>>
    BY <1>1, <2>1 DEF CoordinatorTypes, guiVars
  <2>2. CASE /\ aResultTracker' = [g \in DOMAIN aResultTracker \cup {h} |->
                                    IF g = h THEN unset ELSE aResultTracker[g]]
             /\ coordinator' = "next"
    BY <1>1, <1>5, <2>2 DEF CoordinatorTypes, guiVars
  <2> QED  BY <1>6, <2>1, <2>2
<1>11. InEvaluators'
  <2>1. CASE k + 1 < NumEvaluators /\ oAnalysisResult' = unset /\ UNCHANGED <<coordinator, oCodeGraph>>
    <3>1. k + 1 \in 0..(NumEvaluators - 1)
      BY <2>1, EvaluatorsAssumption
    <3> QED  BY <1>1, <1>2, <1>5, <2>1, <3>1 DEF InEvaluators
  <2>2. CASE oAnalysisResult' = {} /\ oCodeGraph' = NULL /\ coordinator' = "next"
    BY <2>2 DEF InEvaluators
  <2> QED  BY <1>6, <2>1, <2>2
<1>12. coordinator' # "finished" /\ coordinator' # "collecting"
  BY <1>1, <1>6
<1>13. FunctionsLeft'
  BY <1>1, <1>12 DEF IInv, CoordinatorInv, FunctionsLeft, IsInjective
<1>14. Signalled'
  <2>1. FunctionsCounted'
    BY <1>1 DEF IInv, CoordinatorInv, Signalled, FunctionsCounted, NextSignals, guiVars
  <2>2. FinishedIsLast'
    BY <1>1 DEF IInv, CoordinatorInv, Signalled, FinishedIsLast
  <2>3. CompleteIsLast'
    <3>1. ~SaysComplete /\ ~SaysComplete'
      BY <1>1, Zenon DEF IInv, CoordinatorInv, Signalled, CompleteIsLast, SaysComplete, guiVars
    <3> QED  BY <3>1 DEF CompleteIsLast
  <2> QED  BY <2>1, <2>2, <2>3 DEF Signalled
<1>15. SomethingToCome'
  BY <1>12 DEF SomethingToCome
<1> QED  BY <1>7, <1>8, <1>9, <1>10, <1>11, <1>13, <1>14, <1>15 DEF CoordinatorInv, GraphsInv

-----------------------------------------------------------------------------
(* The theorems *)

LEMMA InitIInv == Init => IInv
<1> SUFFICES ASSUME Init  PROVE  IInv
  OBVIOUS
<1>1. /\ aTasks = <<>> /\ aResults = <<>> /\ dwNumActive = 0 /\ owner = "idle"
      /\ worker = [w \in Threads |-> "unborn"] /\ stTask = [w \in Threads |-> NULL]
      /\ coordinator = "starting" /\ aFunctionList = Selection /\ aResultTracker = <<>>
      /\ oCodeGraph = NULL /\ oAnalysisResult = {} /\ numBuilds = [f \in Functions |-> 0]
      /\ signals = <<>> /\ dwNumFunctionsLeft = Len(Selection)
      /\ lpResultsTable = <<>> /\ yielded = {}
  BY Zenon DEF Init, PoolInit
<1>2. ~SaysComplete
  BY DEF Init, SaysComplete
<1>3. PoolInv
  <2>1. PoolTypes
    BY <1>1 DEF PoolTypes, WorkerStates, OwnerStates
  <2>2. Holding /\ NoBarrier /\ AtRest /\ OwnerFollows
    BY <1>1 DEF Holding, NoBarrier, AtRest, OwnerFollows, OwnerLeft
  <2>3. ActiveIsAwake
    <3>1. Awake = {}
      BY <1>1 DEF Awake
    <3> QED  BY <1>1, <3>1, FS_EmptySet DEF ActiveIsAwake
  <2> QED  BY <2>1, <2>2, <2>3 DEF PoolInv
<1>4. Active = {} /\ Ready = {} /\ Reported = {} /\ NextSignals = {} /\ ResultSignals = {}
  BY <1>1 DEF Active, Queued, Running, Executing, Ready, Reported, Shown, ToSet, OnTheWay,
     NextSignals, ResultSignals, NormalIndices
<1>5. CoordinatorInv
  <2>1. aResultTracker = [g \in DOMAIN aResultTracker |-> aResultTracker[g]]
        /\ DOMAIN aResultTracker = {}
    BY <1>1
  <2>2. CoordinatorTypes
    BY <1>1, <2>1, SelectionAssumption DEF CoordinatorTypes
  <2>3. InEvaluators
    BY <1>1 DEF InEvaluators
  <2>4. FunctionsLeft
    BY <1>1, SelectionAssumption DEF FunctionsLeft, ToSet
  <2>5. Signalled
    <3>1. FunctionsCounted
      <4>1. Len(Selection) \in Nat
        BY SelectionAssumption
      <4> QED  BY <1>1, <1>4, <4>1, FS_EmptySet DEF FunctionsCounted
    <3>2. FinishedIsLast
      BY <1>1 DEF FinishedIsLast
    <3> QED  BY <1>2, <3>1, <3>2 DEF Signalled, CompleteIsLast
  <2>6. ReportedOnce
    BY <1>1, <1>4 DEF ReportedOnce, IsInjective, Shown, OnTheWay, ToSet
  <2> QED  BY <2>2, <2>3, <2>4, <2>5, <2>6 DEF CoordinatorInv
<1>6. GraphsInv
  <2>1. Places
    BY <1>1 DEF Places, QueuedOnce, RunOnce, ReadyOnce, NormalIndices, Executing, Queued, Running
  <2>2. Graphs /\ Evaluations
    BY <1>1, <1>4 DEF Graphs, Evaluations, Expected
  <2>3. SomethingToCome
    BY <1>1 DEF SomethingToCome
  <2> QED  BY <2>1, <2>2, <2>3 DEF GraphsInv
<1> QED  BY <1>3, <1>5, <1>6 DEF IInv

\* Every step of an analysis keeps the invariant.
LEMMA NextIInv == IInv /\ [Next]_vars => IInv'
<1> SUFFICES ASSUME IInv, [Next]_vars  PROVE  IInv'
  OBVIOUS
<1>1. PoolInv'
  BY PoolInvStep DEF IInv, CoordinatorInv
<1>2. CASE CoordinatorStep
  <2>1. CASE AwaitResult
    BY <1>1, <2>1, QuietSteps, QuietStep DEF IInv
  <2> QED  BY <1>1, <1>2, <2>1, ScheduleNextFunctionStep, ScheduleEvaluateStep, CollectErrorStep,
              CollectGraphStep, CollectEvaluationStep, FinishStep DEF CoordinatorStep, IInv
<1>3. ASSUME NEW w \in Threads, PoolWorkerStep(w) \/ BuilderForks(w)  PROVE  IInv'
  <2>1. CASE BuilderForks(w) \/ BuilderYields(w) \/ EvaluatorYields(w)
    BY <1>1, <2>1, BuilderForksStep, BuilderYieldsStep, EvaluatorYieldsStep DEF IInv
  <2>2. CASE /\ WorkerStep(w)
             /\ UNCHANGED <<coordinatorVars, numBuilds, signals, guiVars, yielded>>
    BY <1>1, <2>2, QuietSteps, QuietStep DEF IInv
  <2> QED  BY <1>3, <2>1, <2>2 DEF PoolWorkerStep
<1>4. CASE GuiStep
  BY <1>1, <1>4, GuiStepStep DEF IInv
<1>5. CASE DropPool \/ UNCHANGED vars
  BY <1>1, <1>5, QuietSteps, QuietStep DEF IInv
<1>6. CASE /\ SpuriousWakeup
           /\ UNCHANGED <<coordinatorVars, numBuilds, signals, guiVars, yielded>>
  BY <1>1, <1>6, QuietSteps, QuietStep DEF IInv
<1> QED  BY <1>2, <1>3, <1>4, <1>5, <1>6 DEF Next

(***************************************************************************)
(* In every state of an analysis, tasks, results and graphs are accounted   *)
(* for: each task is in one place, each graph that was yielded is a result, *)
(* in the coordinator's hands, in the tracker or reported, and the tracker  *)
(* waits for exactly the evaluations that the pool has.                     *)
(***************************************************************************)
THEOREM Accounted == SafeSpec => []IInv
<1>1. Init => IInv
  BY InitIInv
<1>2. IInv /\ [Next]_vars => IInv'
  BY NextIInv
<1> QED  BY <1>1, <1>2, PTL DEF SafeSpec

(***************************************************************************)
(* An evaluation that the coordinator collects always finds its entry in    *)
(* the tracker (ControlDialog.cpp:95).                                      *)
(***************************************************************************)
THEOREM EntryAlwaysFound == SafeSpec => []EntryIsFound
<1>1. IInv => EntryIsFound
  <2> SUFFICES ASSUME IInv, coordinator = "collecting", NEW i \in 1..Len(aResults),
                      aResults[i].dwType = "EVALUATION_RESULT"
               PROVE  /\ aResults[i].oCodeGraph \in DOMAIN aResultTracker
                      /\ aResults[i].oEvaluator \in aResultTracker[aResults[i].oCodeGraph]
    BY DEF EntryIsFound
  <2>1. aResults[i] \in Results /\ aResults[i] \in Ready
    BY DEF IInv, PoolInv, PoolTypes, Ready
  <2>2. \A g : aResults[i] # CodeGraph(g)
    BY DEF CodeGraph
  <2>3. aResults[i] # AnalysisError
    BY DEF AnalysisError
  <2>4. PICK g \in BuildTasks, e \in Evaluators : aResults[i] = EvaluationResult(g, e)
    BY <2>1, <2>2, <2>3, ResultCases
  <2>5. aResults[i].oCodeGraph = g /\ aResults[i].oEvaluator = e
    BY <2>4 DEF EvaluationResult
  <2>6. Expected(g, e)
    BY <2>1, <2>4 DEF IInv, GraphsInv, Evaluations
  <2>7. oCodeGraph = NULL /\ g # NULL
    BY TaskFacts DEF IInv, CoordinatorInv, InEvaluators
  <2> QED  BY <2>5, <2>6, <2>7 DEF Expected
<1> QED  BY <1>1, Accounted, PTL

(***************************************************************************)
(* Whoever drops the last reference to the pool, no worker holds a task.    *)
(***************************************************************************)
THEOREM AlwaysDestroyedWhenIdle == SafeSpec => []DestroyedWhenIdle
<1>1. IInv => DestroyedWhenIdle
  BY DEF IInv, PoolInv, Holding, AtRest, OwnerLeft, DestroyedWhenIdle
<1> QED  BY <1>1, Accounted, PTL

\* When the run has ended, the pool has no task and no result.
LEMMA PoolIsEmpty ==
  ASSUME IInv, coordinator = "finished"
  PROVE  Active = {} /\ Ready = {} /\ oCodeGraph = NULL
<1>1. /\ aResults = <<>>
      /\ \A w \in Threads : worker[w] \in {"unborn", "waiting", "notified", "exited"}
      /\ \A i \in 1..Len(aTasks) : aTasks[i].eSpecial = "EXIT"
  BY DEF IInv, PoolInv, OwnerFollows, AtRest
<1>2. Ready = {} /\ Executing = {} /\ NormalIndices = {}
  BY <1>1 DEF Ready, Executing, NormalIndices
<1>3. oCodeGraph = NULL
  BY DEF IInv, CoordinatorInv, InEvaluators
<1> QED  BY <1>2, <1>3 DEF Active, Queued, Running

(***************************************************************************)
(* Every graph is reported once; when run ends, every selected function has *)
(* had its task and every graph that was built has been reported.           *)
(***************************************************************************)
THEOREM NothingIsMissing == SafeSpec => []NothingMissing
<1>1. IInv => NothingMissing
  <2> SUFFICES ASSUME IInv  PROVE  NothingMissing
    OBVIOUS
  <2>1. ASSUME coordinator = "finished"
        PROVE  /\ \A f \in ToSet(Selection) : numBuilds[f] # 0
               /\ aResultTracker = <<>>
               /\ Shown \cup OnTheWay = yielded
    <3>1. Active = {} /\ Ready = {} /\ oCodeGraph = NULL
      BY <2>1, PoolIsEmpty
    <3>2. \A f \in ToSet(Selection) : numBuilds[f] # 0
      <4>1. ToSet(aFunctionList) = {}
        BY <2>1 DEF IInv, CoordinatorInv, FunctionsLeft, ToSet
      <4> QED  BY <4>1 DEF IInv, CoordinatorInv, FunctionsLeft
    <3>3. DOMAIN aResultTracker = {}
      <4> SUFFICES ASSUME NEW g \in DOMAIN aResultTracker  PROVE  FALSE
        OBVIOUS
      <4>1. PICK e \in Evaluators : e \in aResultTracker[g]
        BY DEF IInv, CoordinatorInv, CoordinatorTypes
      <4>2. g \in BuildTasks /\ Expected(g, e)
        BY <4>1 DEF IInv, CoordinatorInv, CoordinatorTypes, Expected
      <4> QED  BY <3>1, <4>2 DEF IInv, GraphsInv, Evaluations
    <3>4. aResultTracker = <<>>
      BY <3>3 DEF IInv, CoordinatorInv, CoordinatorTypes
    <3>5. Reported = yielded
      <4>1. \A g \in yielded : g # NULL
        BY TaskFacts DEF IInv, CoordinatorInv, CoordinatorTypes
      <4> QED  BY <3>1, <3>3, <4>1 DEF IInv, GraphsInv, Graphs
    <3> QED  BY <3>2, <3>4, <3>5 DEF Reported
  <2> QED  BY <2>1 DEF NothingMissing, IInv, CoordinatorInv
<1> QED  BY <1>1, Accounted, PTL

(***************************************************************************)
(* When the dialog says that the analysis is complete, it has counted every *)
(* function and shows every graph that was built.                           *)
(***************************************************************************)
THEOREM CompleteAlwaysMeansComplete == SafeSpec => []CompleteMeansComplete
<1>1. IInv /\ NothingMissing => CompleteMeansComplete
  <2> SUFFICES ASSUME IInv, NothingMissing, SaysComplete
               PROVE  dwNumFunctionsLeft = 0 /\ Shown = yielded /\ signals = <<>>
    BY Zenon DEF CompleteMeansComplete, SaysComplete
  <2>1. coordinator = "finished" /\ signals = <<>>
    BY DEF IInv, CoordinatorInv, Signalled, CompleteIsLast
  <2>2. NextSignals = {} /\ OnTheWay = {}
    BY <2>1 DEF NextSignals, OnTheWay, ResultSignals
  <2>3. aFunctionList = <<>>
    BY <2>1 DEF IInv, CoordinatorInv, FunctionsLeft
  <2>4. dwNumFunctionsLeft = 0
    BY <2>2, <2>3, FS_EmptySet DEF IInv, CoordinatorInv, Signalled, FunctionsCounted
  <2>5. Shown = yielded
    BY <2>1, <2>2 DEF NothingMissing
  <2> QED  BY <2>1, <2>4, <2>5
<1> QED  BY <1>1, Accounted, NothingIsMissing, PTL
=============================================================================
