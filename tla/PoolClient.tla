----------------------------- MODULE PoolClient -----------------------------
(***************************************************************************)
(* ThreadPool with a most general client: its owner may schedule tasks at   *)
(* any moment outside the pool's other calls, a task that executes may      *)
(* schedule more (as a CodeBroker does with its forks), a task yields one   *)
(* result (as Build_Impl and AbstractEvaluatorImpl::Execute do) and the     *)
(* owner collects the results until the pool returns nullptr, after which   *)
(* the last reference to the pool may go.                                   *)
(*                                                                          *)
(* ClientOps selects the calls the client makes beside Schedule, and        *)
(* TryTasks the tasks it may also give to ScheduleIfResourceAvailable, so   *)
(* that a run can ask what holds without one of them.  A result is named by *)
(* the task it is of.                                                       *)
(***************************************************************************)
EXTENDS ThreadPool

CONSTANTS ClientOps,       \* the operations that the client uses
          TryTasks,        \* the tasks it gives to ScheduleIfResourceAvailable
          MaxSynchronize   \* bound on the calls of Synchronize

ASSUME ClientOpsAssumption == ClientOps \subseteq {"Synchronize", "Destroy"}
ASSUME TryTasksAssumption == TryTasks \subseteq Tasks
ASSUME ResultsAssumption == Results = Tasks
ASSUME MaxSynchronizeAssumption == MaxSynchronize \in Nat

VARIABLES
  submitted,       \* history: the tasks the pool has accepted
  collected,       \* history: the tasks whose result WaitForResult returned
  preBarrier,      \* history: the tasks accepted before the last Synchronize
  numSynchronize   \* the number of calls of Synchronize so far

historyVars == <<submitted, collected, preBarrier, numSynchronize>>
vars == <<poolVars, historyVars>>

Init ==
  /\ PoolInit
  /\ submitted = {}
  /\ collected = {}
  /\ preBarrier = {}
  /\ numSynchronize = 0

\* the owner, or the task of a worker, is running client code
MaySubmit == owner = "idle" \/ \E w \in Threads : worker[w] = "executing"

ClientSchedule(t) ==
  /\ MaySubmit
  /\ t \notin submitted
  /\ Schedule(t)
  /\ submitted' = submitted \cup {t}
  /\ UNCHANGED <<owner, collected, preBarrier, numSynchronize>>

ClientScheduleIfResourceAvailable(t) ==
  /\ t \in TryTasks
  /\ MaySubmit
  /\ t \notin submitted
  /\ \E scheduled \in BOOLEAN :
       /\ ScheduleIfResourceAvailable(t, scheduled)
       /\ submitted' = IF scheduled THEN submitted \cup {t} ELSE submitted
  /\ UNCHANGED <<owner, collected, preBarrier, numSynchronize>>

\* Synchronize does not start the threads: a client calls it after a task
ClientSynchronize ==
  /\ "Synchronize" \in ClientOps
  /\ numSynchronize < MaxSynchronize
  /\ Started
  /\ Synchronize
  /\ preBarrier' = submitted
  /\ numSynchronize' = numSynchronize + 1
  /\ UNCHANGED <<submitted, collected>>

ClientDestroy ==
  /\ "Destroy" \in ClientOps
  /\ owner = "null"
  /\ Destroy
  /\ UNCHANGED historyVars

ClientTakeResult ==
  \E r \in Results :
    /\ TakeResult(r)
    /\ collected' = collected \cup {r}
    /\ UNCHANGED <<submitted, preBarrier, numSynchronize>>

\* what the owner does in the pool's calls, once it has made them
OwnerStep ==
  \/ ClientTakeResult
  \/ /\ ReturnNull \/ AwaitYield \/ SynchronizeResume \/ JoinThreads
     /\ UNCHANGED historyVars

\* what a worker does in Worker, and the end of the task it executes
PoolWorkerStep(w) ==
  /\ WorkerStep(w) \/ YieldResult(w, stTask[w])
  /\ UNCHANGED historyVars

ClientSubmit ==
  \E t \in Tasks : ClientSchedule(t) \/ ClientScheduleIfResourceAvailable(t)

Next ==
  \/ ClientSubmit
  \/ ClientSynchronize
  \/ ClientDestroy
  \/ OwnerStep
  \/ \E w \in Threads : PoolWorkerStep(w)
  \/ SpuriousWakeup /\ UNCHANGED historyVars

(***************************************************************************)
(* Fairness: a thread that can run does run, and gets stMutex when it wants *)
(* it; a task that executes ends.  No notification beyond those of the code *)
(* and no spurious wake-up is assumed, and the client need not call.        *)
(***************************************************************************)
Fairness ==
  /\ WF_vars(OwnerStep)
  /\ \A w \in Threads : WF_vars(PoolWorkerStep(w))

SafeSpec == Init /\ [][Next]_vars
Spec == SafeSpec /\ Fairness

-----------------------------------------------------------------------------
(* Where the tasks are *)

Queued == {aTasks[i].oTask : i \in {j \in 1..Len(aTasks) :
                                      aTasks[j].eSpecial = "NORMAL"}}
Running == {stTask[w] : w \in {v \in Threads : worker[v] = "executing"}}
Ready == {aResults[i] : i \in 1..Len(aResults)}

OwnerLeft == owner \in {"null", "joining", "destroyed"}

-----------------------------------------------------------------------------
(* Properties *)

\* The type of every variable.
TypeOK ==
  /\ PoolTypeOK
  /\ submitted \subseteq Tasks
  /\ collected \subseteq Tasks
  /\ preBarrier \subseteq Tasks
  /\ numSynchronize \in 0..MaxSynchronize

(***************************************************************************)
(* When WaitForResult has returned nullptr (ThreadPool.cpp:77), nothing is  *)
(* queued, executing or waiting to be collected, now or later, and no       *)
(* worker holds a task: so the last reference to the pool is never dropped  *)
(* by a worker, which would join itself in the destructor.                  *)
(***************************************************************************)
Quiescent ==
  OwnerLeft =>
    /\ Queued = {}
    /\ aResults = <<>>
    /\ \A w \in Threads : /\ worker[w] \notin {"executing", "finished"}
                          /\ stTask[w] = NULL

(***************************************************************************)
(* A task that Schedule or ScheduleIfResourceAvailable accepted is in the   *)
(* queue, with a worker, among the results, or collected.                   *)
(***************************************************************************)
NothingLost == submitted \subseteq Queued \cup Running \cup Ready \cup collected

(***************************************************************************)
(* Synchronize is a barrier: when it returns, every task accepted before    *)
(* the call has yielded its result, whatever was scheduled meanwhile.       *)
(***************************************************************************)
BarrierWaitsForTasks ==
  [][owner = "syncWoken" /\ owner' = "idle"
       => preBarrier \subseteq Ready \cup collected]_vars

(***************************************************************************)
(* The pool implements TaskService: each accepted task yields exactly once, *)
(* results are collected in order, and nullptr means that nothing is        *)
(* outstanding.                                                             *)
(***************************************************************************)
Service == INSTANCE TaskService WITH
  pending <- submitted \ (Ready \cup collected),
  ready <- aResults,
  collected <- collected,
  reported <- OwnerLeft

ImplementsTaskService == Service!Spec

(***************************************************************************)
(* Every task that Schedule accepted is executed and its result collected,  *)
(* whatever ScheduleIfResourceAvailable put before it.  It rests on the     *)
(* notification in Schedule reaching a worker in time.                      *)
(***************************************************************************)
EveryTaskIsCollected ==
  \A t \in Tasks \ TryTasks : t \in submitted ~> t \in collected

\* Who waits for all the workers does not wait for ever: the exit task reaches
\* every one of them, so that the destructor's join returns, and so does the
\* barrier task, so that Synchronize returns.
WaitsForAllEnd ==
  /\ owner = "joining" ~> owner = "destroyed"
  /\ owner = "syncWait" ~> owner = "idle"
=============================================================================
