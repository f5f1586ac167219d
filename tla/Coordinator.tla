----------------------------- MODULE Coordinator -----------------------------
(***************************************************************************)
(* An analysis run: the CoordinatorThread (ControlDialog.cpp) feeds the     *)
(* selected functions to a ThreadPool, every code graph that a build task   *)
(* yields to the evaluators, and sends each finished analysis result to the *)
(* dialog, whose slots run in the thread of the GUI.                        *)
(*                                                                          *)
(* A graph is named by the task that builds it.  What is in a graph, and    *)
(* what an evaluator finds in it, is left out.                              *)
(***************************************************************************)
EXTENDS ThreadPool, SequencesExt

CONSTANTS Functions,     \* the functions that may be selected
          Selection,     \* lpFunctionList->GetSelection()
          NumEvaluators, \* the signatures, and the block permutation evaluator
          MaxBuilds,     \* bound on the paths of a function: see PathOracle
          bBatchRun      \* whether the dialog drops a result it has shown

Evaluators == 1..NumEvaluators
BuildTasks == [kind : {"build"}, lpFunction : Functions, path : 1..MaxBuilds]
EvaluateTasks == [kind : {"evaluate"}, oCodeGraph : BuildTasks,
                  oEvaluator : Evaluators]

AnalysisError == [dwType |-> "ANALYSIS_ERROR"]
CodeGraph(g) == [dwType |-> "CODE_GRAPH", oCodeGraph |-> g]
EvaluationResult(g, e) == [dwType |-> "EVALUATION_RESULT", oCodeGraph |-> g,
                           oEvaluator |-> e]
RunResults == {AnalysisError} \cup {CodeGraph(g) : g \in BuildTasks} \cup
              {EvaluationResult(t.oCodeGraph, t.oEvaluator) : t \in EvaluateTasks}

\* GetSelection lists a function once, however many of its cells are selected.
ASSUME SelectionAssumption ==
  Selection \in Seq(Functions) /\ IsInjective(Selection)
ASSUME EvaluatorsAssumption == NumEvaluators \in Nat \ {0}
ASSUME MaxBuildsAssumption == MaxBuilds \in Nat \ {0}
ASSUME BatchAssumption == bBatchRun \in BOOLEAN
ASSUME TasksAssumption == Tasks = BuildTasks \cup EvaluateTasks
ASSUME RunResultsAssumption == Results = RunResults

VARIABLES
  coordinator,     \* where CoordinatorThread::run is: "starting", in the first
                   \* loop; "collecting", at WaitForResult; "evaluators", in
                   \* their loop; "next", at the last call; "finished"
  aFunctionList,   \* the functions that are not scheduled yet
  aResultTracker,  \* graph -> the evaluators whose result is not set
  oCodeGraph,      \* the graph whose evaluators are being scheduled, or NULL
  oAnalysisResult, \* ... and those of them that are scheduled
  numBuilds,       \* function -> the number of build tasks made for it
  signals,         \* the signals on their way to the dialog, in order
  dwNumFunctionsLeft, \* ControlDialog: the functions that are not begun
  lpProgressHeader,   \* ControlDialog: the text above the progress bar
  lpResultsTable,     \* ControlDialog: the rows, each the graph of its result
  yielded             \* history: the graphs that build tasks have yielded

coordinatorVars == <<coordinator, aFunctionList, aResultTracker, oCodeGraph,
                     oAnalysisResult>>
guiVars == <<dwNumFunctionsLeft, lpProgressHeader, lpResultsTable>>
vars == <<poolVars, coordinatorVars, numBuilds, signals, guiVars, yielded>>

ResultReady(g) == [signal |-> "ResultReady", oCodeGraph |-> g]
NextFunction == [signal |-> "NextFunction"]
CoordinatorFinished == [signal |-> "CoordinatorFinished"]

Init ==
  /\ PoolInit
  /\ coordinator = "starting"
  /\ aFunctionList = Selection
  /\ aResultTracker = <<>>
  /\ oCodeGraph = NULL
  /\ oAnalysisResult = {}
  /\ numBuilds = [f \in Functions |-> 0]
  /\ signals = <<>>
  /\ dwNumFunctionsLeft = Len(Selection)
  /\ lpProgressHeader = "Analysis in progress..."
  /\ lpResultsTable = <<>>
  /\ yielded = {}

-----------------------------------------------------------------------------
(* CoordinatorThread *)

Build(f, n) == [kind |-> "build", lpFunction |-> f, path |-> n]
Evaluate(g, e) == [kind |-> "evaluate", oCodeGraph |-> g, oEvaluator |-> e]

\* Mutant of ScheduleFirstFunction: the function leaves the list in any case
ScheduleFirstFunctionOnce(scheduled) ==
  /\ aFunctionList # <<>>
  /\ ScheduleIfResourceAvailable(Build(Head(aFunctionList), 1), scheduled)
  /\ aFunctionList' = Tail(aFunctionList)
  /\ IF scheduled
     THEN /\ numBuilds' = [numBuilds EXCEPT ![Head(aFunctionList)] = 1]
          /\ signals' = Append(signals, NextFunction)
     ELSE UNCHANGED <<numBuilds, signals>>

(***************************************************************************)
(* ScheduleNextFunction: the function leaves the list only if the pool took *)
(* its task.  Where it is called, the outcome decides how run goes on.      *)
(***************************************************************************)
ScheduleFirstFunction(scheduled) ==
  /\ aFunctionList # <<>>
  /\ ScheduleIfResourceAvailable(Build(Head(aFunctionList), 1), scheduled)
  /\ IF scheduled
     THEN /\ aFunctionList' = Tail(aFunctionList)
          /\ numBuilds' = [numBuilds EXCEPT ![Head(aFunctionList)] = 1]
          /\ signals' = Append(signals, NextFunction)
     ELSE UNCHANGED <<aFunctionList, numBuilds, signals>>

NoFunctionLeft ==
  /\ aFunctionList = <<>>
  /\ UNCHANGED <<aTasks, aResults, dwNumActive, dwNumSynchronized, worker,
                 stTask, aFunctionList, numBuilds, signals>>

ScheduleNextFunction ==
  /\ \/ /\ coordinator = "starting"
        /\ \/ ScheduleFirstFunction(TRUE) /\ UNCHANGED coordinator
           \/ /\ ScheduleFirstFunction(FALSE) \/ NoFunctionLeft
              /\ coordinator' = "collecting"
     \/ /\ coordinator = "next"
        /\ NoFunctionLeft \/ \E scheduled \in BOOLEAN : ScheduleFirstFunction(scheduled)
        /\ coordinator' = "collecting"
  /\ UNCHANGED <<owner, aResultTracker, oCodeGraph, oAnalysisResult, guiVars,
                 yielded>>

CollectError ==
  /\ coordinator = "collecting"
  /\ TakeResult(AnalysisError)
  /\ coordinator' = "next"
  /\ UNCHANGED <<aFunctionList, aResultTracker, oCodeGraph, oAnalysisResult,
                 numBuilds, signals, guiVars, yielded>>

CollectGraph ==
  /\ coordinator = "collecting"
  /\ \E g \in BuildTasks : TakeResult(CodeGraph(g)) /\ oCodeGraph' = g
  /\ oAnalysisResult' = {}
  /\ coordinator' = "evaluators"
  /\ UNCHANGED <<aFunctionList, aResultTracker, numBuilds, signals, guiVars,
                 yielded>>

\* An analysis result is the set of the evaluators whose result is not set.
SetNull(unset, e) == unset \cup {e}
SetResult(unset, e) == unset \ {e}

(***************************************************************************)
(* ScheduleEvaluate for one evaluator: it is scheduled first, and only then *)
(* noted as one whose result is not set; after the last one the analysis    *)
(* result is entered in the tracker.                                        *)
(***************************************************************************)
ScheduleEvaluate ==
  /\ coordinator = "evaluators"
  /\ LET e == Cardinality(oAnalysisResult) + 1
     IN /\ Schedule(Evaluate(oCodeGraph, e))
        /\ IF e < NumEvaluators
           THEN /\ oAnalysisResult' = SetNull(oAnalysisResult, e)
                /\ UNCHANGED <<coordinator, oCodeGraph, aResultTracker>>
           ELSE /\ aResultTracker' =
                     [g \in DOMAIN aResultTracker \cup {oCodeGraph} |->
                        IF g = oCodeGraph THEN SetNull(oAnalysisResult, e)
                                          ELSE aResultTracker[g]]
                /\ oAnalysisResult' = {}
                /\ oCodeGraph' = NULL
                /\ coordinator' = "next"
  /\ UNCHANGED <<owner, aFunctionList, numBuilds, signals, guiVars, yielded>>

\* Mutant of AllResultsSet: one result is enough
AnyResultSet(unset) == unset # Evaluators

\* no evaluator of the analysis result is without a result
AllResultsSet(unset) == unset = {}

\* the result of the evaluator e of the graph g arrives
CollectResult(g, e) ==
  LET unset == SetResult(aResultTracker[g], e)
  IN IF AllResultsSet(unset)
     THEN /\ aResultTracker' = [h \in DOMAIN aResultTracker \ {g} |->
                                  aResultTracker[h]]
          /\ signals' = Append(signals, ResultReady(g))
     ELSE /\ aResultTracker' = [aResultTracker EXCEPT ![g] = unset]
          /\ UNCHANGED signals

\* A result whose graph is not in the tracker is dropped: see EntryIsFound.
CollectEvaluation ==
  /\ coordinator = "collecting"
  /\ \E g \in BuildTasks, e \in Evaluators :
       /\ TakeResult(EvaluationResult(g, e))
       /\ IF g \in DOMAIN aResultTracker
          THEN CollectResult(g, e)
          ELSE UNCHANGED <<aResultTracker, signals>>
  /\ coordinator' = "next"
  /\ UNCHANGED <<aFunctionList, oCodeGraph, oAnalysisResult, numBuilds, guiVars,
                 yielded>>

AwaitResult ==
  /\ coordinator = "collecting"
  /\ AwaitYield
  /\ UNCHANGED <<coordinatorVars, numBuilds, signals, guiVars, yielded>>

\* WaitForResult returns nullptr: run ends, and its reference to the pool goes
Finish ==
  /\ coordinator = "collecting"
  /\ ReturnNull
  /\ coordinator' = "finished"
  /\ signals' = Append(signals, CoordinatorFinished)
  /\ UNCHANGED <<aFunctionList, aResultTracker, oCodeGraph, oAnalysisResult,
                 numBuilds, guiVars, yielded>>

CoordinatorStep ==
  \/ ScheduleNextFunction \/ ScheduleEvaluate
  \/ CollectError \/ CollectGraph \/ CollectEvaluation
  \/ AwaitResult \/ Finish

-----------------------------------------------------------------------------
(* The tasks that the workers execute *)

\* IntroduceCondition forks the builder: the fork is a task of its own
BuilderForks(w) ==
  /\ worker[w] = "executing"
  /\ stTask[w].kind = "build"
  /\ LET f == stTask[w].lpFunction
     IN /\ numBuilds[f] < MaxBuilds
        /\ Schedule(Build(f, numBuilds[f] + 1))
        /\ numBuilds' = [numBuilds EXCEPT ![f] = @ + 1]
  /\ UNCHANGED <<owner, coordinatorVars, signals, guiVars, yielded>>

\* the last line of Build_Impl, for a graph or an error
BuilderYields(w) ==
  /\ worker[w] = "executing"
  /\ stTask[w].kind = "build"
  /\ \/ YieldResult(w, CodeGraph(stTask[w])) /\ yielded' = yielded \cup {stTask[w]}
     \/ YieldResult(w, AnalysisError) /\ UNCHANGED yielded
  /\ UNCHANGED <<coordinatorVars, numBuilds, signals, guiVars>>

\* AbstractEvaluatorImpl::Execute
EvaluatorYields(w) ==
  /\ worker[w] = "executing"
  /\ stTask[w].kind = "evaluate"
  /\ YieldResult(w, EvaluationResult(stTask[w].oCodeGraph, stTask[w].oEvaluator))
  /\ UNCHANGED <<coordinatorVars, numBuilds, signals, guiVars, yielded>>

PoolWorkerStep(w) ==
  \/ BuilderYields(w)
  \/ EvaluatorYields(w)
  \/ /\ WorkerStep(w)
     /\ UNCHANGED <<coordinatorVars, numBuilds, signals, guiVars, yielded>>

-----------------------------------------------------------------------------
(* The slots of ControlDialog: queued signals arrive in the order sent *)

HandleResult ==
  /\ Head(signals).signal = "ResultReady"
  /\ lpResultsTable' = Append(lpResultsTable, Head(signals).oCodeGraph)
  /\ UNCHANGED <<dwNumFunctionsLeft, lpProgressHeader>>

HandleNextFunction ==
  /\ Head(signals) = NextFunction
  /\ dwNumFunctionsLeft' = dwNumFunctionsLeft - 1
  /\ UNCHANGED <<lpProgressHeader, lpResultsTable>>

HandleFinished ==
  /\ Head(signals) = CoordinatorFinished
  /\ lpProgressHeader' = "Analysis complete"
  /\ UNCHANGED <<dwNumFunctionsLeft, lpResultsTable>>

GuiStep ==
  /\ signals # <<>>
  /\ HandleResult \/ HandleNextFunction \/ HandleFinished
  /\ signals' = Tail(signals)
  /\ UNCHANGED <<poolVars, coordinatorVars, numBuilds, yielded>>

(***************************************************************************)
(* A graph refers to its builder, and that to the pool.  When run is over,  *)
(* the pool lives as long as a graph does, in a signal or, unless this is a *)
(* batch run, in the table; whoever drops the last one runs the destructor. *)
(***************************************************************************)
GraphsAlive ==
  \/ \E i \in 1..Len(signals) : signals[i].signal = "ResultReady"
  \/ ~bBatchRun /\ lpResultsTable # <<>>

DropPool ==
  /\ coordinator = "finished"
  /\ ~GraphsAlive
  /\ \/ owner = "null" /\ Destroy
     \/ JoinThreads
  /\ UNCHANGED <<coordinatorVars, numBuilds, signals, guiVars, yielded>>

-----------------------------------------------------------------------------

Next ==
  \/ CoordinatorStep
  \/ \E w \in Threads : PoolWorkerStep(w) \/ BuilderForks(w)
  \/ GuiStep
  \/ DropPool
  \/ /\ SpuriousWakeup
     /\ UNCHANGED <<coordinatorVars, numBuilds, signals, guiVars, yielded>>

SafeSpec == Init /\ [][Next]_vars

(***************************************************************************)
(* Fairness: every thread that can run does, a task ends (Build_Impl bounds *)
(* its iterations) and the GUI handles its events.  No spurious wake-up is  *)
(* assumed.                                                                 *)
(***************************************************************************)
Spec ==
  /\ SafeSpec
  /\ WF_vars(CoordinatorStep)
  /\ \A w \in Threads : WF_vars(PoolWorkerStep(w))
  /\ WF_vars(GuiStep)
  /\ WF_vars(DropPool)

-----------------------------------------------------------------------------
(* Properties *)

\* The graphs of the results that have left the coordinator: those in the
\* table, and those on their way there.
Shown == ToSet(lpResultsTable)
ResultSignals == {i \in 1..Len(signals) : signals[i].signal = "ResultReady"}
OnTheWay == {signals[i].oCodeGraph : i \in ResultSignals}

\* no graph is in the table twice, on its way twice, or both
ReportedOnce ==
  /\ IsInjective(lpResultsTable)
  /\ \A i, j \in ResultSignals : signals[i].oCodeGraph = signals[j].oCodeGraph => i = j
  /\ Shown \cap OnTheWay = {}

(***************************************************************************)
(* "should always find an entry" (ControlDialog.cpp:95): an evaluator whose *)
(* result comes in is one the tracker still waits for, however fast it was. *)
(***************************************************************************)
EntryIsFound ==
  coordinator = "collecting" =>
    \A i \in 1..Len(aResults) :
      aResults[i].dwType = "EVALUATION_RESULT" =>
        /\ aResults[i].oCodeGraph \in DOMAIN aResultTracker
        /\ aResults[i].oEvaluator \in aResultTracker[aResults[i].oCodeGraph]

(***************************************************************************)
(* A graph is reported once, and the run ends only when every selected      *)
(* function was scheduled and every graph that was built has been reported: *)
(* ScheduleNextFunction fails only while tasks are queued, each of which is *)
(* followed by another attempt.                                             *)
(***************************************************************************)
NothingMissing ==
  /\ ReportedOnce
  /\ coordinator = "finished" =>
       /\ \A f \in ToSet(Selection) : numBuilds[f] # 0
       /\ aResultTracker = <<>>
       /\ Shown \cup OnTheWay = yielded

\* When the dialog says that the analysis is complete, it shows all of it.
CompleteMeansComplete ==
  lpProgressHeader = "Analysis complete" =>
    /\ dwNumFunctionsLeft = 0
    /\ Shown = yielded
    /\ signals = <<>>

(***************************************************************************)
(* The thread that drops the last reference to the pool may join its        *)
(* workers: none of them holds a task, and they are all at the queue.       *)
(***************************************************************************)
DestroyedWhenIdle ==
  owner \in {"joining", "destroyed"} =>
    \A w \in Threads : /\ stTask[w] = NULL
                       /\ worker[w] \notin {"executing", "finished"}

\* The dialog eventually says "Analysis complete" (ControlDialog.cpp:212).
AnalysisCompletes == <>(lpProgressHeader = "Analysis complete")

\* The task of a function is queued, and every worker waits to be told.
Forgotten ==
  /\ Waiters = Threads
  /\ \E f \in Functions : aTasks = <<NormalTask(Build(f, 1))>>

(***************************************************************************)
(* ... unless the task of a function is forgotten, for which nobody is      *)
(* notified (ThreadPool.cpp:33): nothing else keeps the analysis from       *)
(* completing, and a batch run from giving back the pool and its threads.   *)
(***************************************************************************)
CompletesUnlessForgotten ==
  <>(\/ Forgotten
     \/ lpProgressHeader = "Analysis complete" /\ (bBatchRun => owner = "destroyed"))
=============================================================================
