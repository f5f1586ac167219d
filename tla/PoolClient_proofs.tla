-------------------------- MODULE PoolClient_proofs --------------------------
(***************************************************************************)
(* Theorems about PoolClient, for any number of threads and any set of      *)
(* tasks: the bookkeeping of dwNumActive is exact, WaitForResult returns    *)
(* nullptr only when nothing is outstanding, and no task is lost.           *)
(***************************************************************************)
EXTENDS PoolClient, FiniteSetTheorems, TLAPS

(***************************************************************************)
(* The inductive invariant.                                                 *)
(***************************************************************************)

\* The types, but for the bounds on the counters, which need the rest.
Types ==
  /\ aTasks \in Seq(TaskRecords)
  /\ aResults \in Seq(Tasks)
  /\ dwNumActive \in Int
  /\ dwNumSynchronized \in 0..NumThreads
  /\ worker \in [Threads -> WorkerStates]
  /\ stTask \in [Threads -> Tasks \cup {NULL}]
  /\ owner \in OwnerStates
  /\ submitted \subseteq Tasks
  /\ collected \subseteq Tasks
  /\ preBarrier \subseteq Tasks
  /\ numSynchronize \in 0..MaxSynchronize

\* A worker holds a task exactly while it executes one.
Holding ==
  \A w \in Threads :
    IF worker[w] \in {"executing", "finished"} THEN stTask[w] \in Tasks
                                               ELSE stTask[w] = NULL

\* At most one barrier is queued, its owner waits, and it is not complete.
OneBarrier ==
  \A i \in 1..Len(aTasks) :
    aTasks[i].eSpecial = "SYNCHRONIZE" =>
      /\ owner \in {"syncWait", "syncWoken"}
      /\ dwNumSynchronized < NumThreads
      /\ \A j \in 1..Len(aTasks) :
           aTasks[j].eSpecial = "SYNCHRONIZE" => j = i

\* Once the owner was told that the pool is done, no worker has work.
AtRest ==
  OwnerLeft =>
    /\ aResults = <<>>
    /\ \A w \in Threads :
         worker[w] \in {"unborn", "waiting", "notified", "exited"}
    /\ \A i \in 1..Len(aTasks) : aTasks[i].eSpecial = "EXIT"

IInv ==
  /\ Types
  /\ Holding
  /\ OneBarrier
  /\ ActiveIsAwake
  /\ AtRest
  /\ NothingLost

-----------------------------------------------------------------------------
(* Types *)

\* Appending a task to the queue, and removing its head, keep it a queue.
LEMMA QueueType ==
  ASSUME Types
  PROVE  /\ \A t \in Tasks : NormalTask(t) \in TaskRecords
         /\ \A tag \in {"SYNCHRONIZE", "EXIT"} : SpecialTask(tag) \in TaskRecords
         /\ \A task \in TaskRecords : Enqueue(task) => aTasks' \in Seq(TaskRecords)
         /\ aTasks # <<>> => /\ Head(aTasks) \in TaskRecords
                             /\ Tail(aTasks) \in Seq(TaskRecords)
<1>1. /\ \A t \in Tasks : NormalTask(t) \in TaskRecords
      /\ \A tag \in {"SYNCHRONIZE", "EXIT"} : SpecialTask(tag) \in TaskRecords
  BY Zenon DEF NormalTask, SpecialTask, TaskRecords
<1>2. aTasks \in Seq(TaskRecords)
  BY DEF Types
<1>3. \A task \in TaskRecords : Enqueue(task) => aTasks' \in Seq(TaskRecords)
  BY <1>2 DEF Enqueue
<1>4. aTasks # <<>> => /\ Head(aTasks) \in TaskRecords
                      /\ Tail(aTasks) \in Seq(TaskRecords)
  BY <1>2
<1> QED  BY <1>1, <1>3, <1>4

\* Before the first task the variables have their types.
LEMMA InitTypes == Init => Types
  BY NumThreadsAssumption, MaxSynchronizeAssumption
  DEF Init, PoolInit, Types, WorkerStates, OwnerStates, Threads

\* Every step keeps the types.
LEMMA TypesStep ==
  ASSUME Types, Holding, OneBarrier, [Next]_vars
  PROVE  Types'
<1>1. ASSUME NEW t \in Tasks, ClientSchedule(t)
      PROVE  Types'
  <2>1. aTasks' \in Seq(TaskRecords)
    BY <1>1, QueueType DEF ClientSchedule, Schedule
  <2>2. worker' \in [Threads -> WorkerStates] /\ dwNumActive' \in Int
    BY <1>1, NumThreadsAssumption
    DEF Types, ClientSchedule, Schedule, StartThreads, NotifyOne, Waiters,
        WorkerStates
  <2> QED  BY <1>1, <2>1, <2>2 DEF Types, ClientSchedule, Schedule
<1>2. ASSUME NEW t \in Tasks, ClientScheduleIfResourceAvailable(t)
      PROVE  Types'
  BY <1>2, QueueType, NumThreadsAssumption
  DEF Types, ClientScheduleIfResourceAvailable, ScheduleIfResourceAvailable,
      StartThreads, WorkerStates, Threads
<1>3. CASE ClientSynchronize
  BY <1>3, QueueType, NumThreadsAssumption, MaxSynchronizeAssumption
  DEF Types, ClientSynchronize, Synchronize, WakeAllWaiters, WorkerStates,
      OwnerStates
<1>4. CASE ClientDestroy
  BY <1>4, QueueType
  DEF Types, ClientDestroy, Destroy, WakeAllWaiters, WorkerStates,
      OwnerStates, historyVars
<1>5. CASE OwnerStep
  <2>1. CASE ClientTakeResult
    BY <2>1, ResultsAssumption
    DEF Types, ClientTakeResult, TakeResult, OwnerStates
  <2>2. CASE (ReturnNull \/ AwaitYield \/ SynchronizeResume \/ JoinThreads)
              /\ UNCHANGED historyVars
    BY <2>2
    DEF Types, ReturnNull, AwaitYield, SynchronizeResume, JoinThreads,
        historyVars, OwnerStates
  <2> QED  BY <1>5, <2>1, <2>2 DEF OwnerStep
<1>6. ASSUME NEW w \in Threads, PoolWorkerStep(w)
      PROVE  Types'
  <2> UNCHANGED historyVars  BY <1>6 DEF PoolWorkerStep
  <2>1. CASE WorkerWait(w)
    BY <2>1 DEF Types, WorkerWait, ActiveOnEntry, WakeOwner, WorkerStates,
                OwnerStates, historyVars
  <2>2. CASE WorkerTake(w)
    <3>1. Head(aTasks).oTask \in Tasks
      BY <2>2, QueueType DEF WorkerTake, TaskRecords
    <3> QED  BY <2>2, <3>1, QueueType
             DEF Types, WorkerTake, ActiveOnEntry, Dequeue, WorkerStates,
                 historyVars
  <2>3. CASE WorkerAwaitBarrier(w)
    <3>1. dwNumSynchronized < NumThreads
      BY <2>3 DEF OneBarrier, WorkerAwaitBarrier, Types
    <3> QED  BY <2>3, <3>1, NumThreadsAssumption
             DEF Types, WorkerAwaitBarrier, ActiveOnEntry, WorkerStates,
                 historyVars
  <2>4. CASE WorkerReleaseBarrier(w)
    BY <2>4, QueueType, NumThreadsAssumption
    DEF Types, WorkerReleaseBarrier, ActiveOnEntry, Dequeue, WorkerStates,
        OwnerStates, historyVars
  <2>5. CASE WorkerLeaveBarrier(w)
    BY <2>5 DEF Types, WorkerLeaveBarrier, WorkerStates, historyVars
  <2>6. CASE WorkerExit(w)
    BY <2>6 DEF Types, WorkerExit, ActiveOnEntry, WorkerStates, historyVars
  <2>7. CASE ExecuteReturn(w)
    BY <2>7 DEF Types, ExecuteReturn, WorkerStates, historyVars
  <2>8. CASE YieldResult(w, stTask[w])
    <3>1. stTask[w] \in Tasks
      BY <2>8 DEF Holding, YieldResult
    <3> QED  BY <2>8, <3>1
             DEF Types, YieldResult, WakeOwner, WorkerStates, OwnerStates,
                 historyVars
  <2> QED  BY <1>6, <2>1, <2>2, <2>3, <2>4, <2>5, <2>6, <2>7, <2>8
           DEF PoolWorkerStep, WorkerStep
<1>7. CASE SpuriousWakeup /\ UNCHANGED historyVars
  BY <1>7 DEF Types, SpuriousWakeup, SpuriousOwner, SpuriousWorker,
              WorkerStates, OwnerStates, historyVars
<1>8. CASE UNCHANGED vars
  BY <1>8 DEF Types, vars, poolVars, historyVars
<1> QED  BY <1>1, <1>2, <1>3, <1>4, <1>5, <1>6, <1>7, <1>8
         DEF Next, ClientSubmit

-----------------------------------------------------------------------------
(* Tasks held by workers, and the barrier *)

\* After a step, too, a worker holds a task exactly while it executes one.
LEMMA HoldingStep ==
  ASSUME Types, Holding, [Next]_vars
  PROVE  Holding'
<1>1. ASSUME NEW t \in Tasks, ClientSchedule(t)
      PROVE  Holding'
  BY <1>1 DEF Types, Holding, ClientSchedule, Schedule, StartThreads, Started,
              NotifyOne, Waiters
<1>2. ASSUME NEW t \in Tasks, ClientScheduleIfResourceAvailable(t)
      PROVE  Holding'
  BY <1>2 DEF Types, Holding, ClientScheduleIfResourceAvailable,
              ScheduleIfResourceAvailable, StartThreads, Started
<1>3. CASE ClientSynchronize
  BY <1>3 DEF Types, Holding, ClientSynchronize, Synchronize, WakeAllWaiters
<1>4. CASE ClientDestroy
  BY <1>4 DEF Types, Holding, ClientDestroy, Destroy, WakeAllWaiters
<1>5. CASE OwnerStep
  BY <1>5 DEF Holding, OwnerStep, ClientTakeResult, TakeResult, ReturnNull,
              AwaitYield, SynchronizeResume, JoinThreads
<1>6. ASSUME NEW w \in Threads, PoolWorkerStep(w)
      PROVE  Holding'
  <2>1. CASE WorkerTake(w)
    <3>1. Head(aTasks).oTask \in Tasks
      BY <2>1, QueueType DEF WorkerTake, TaskRecords
    <3> QED  BY <2>1, <3>1 DEF Types, Holding, WorkerTake
  <2>2. CASE WorkerReleaseBarrier(w)
    BY <2>2 DEF Types, Holding, WorkerReleaseBarrier, AtQueue
  <2>3. CASE WorkerWait(w) \/ WorkerAwaitBarrier(w) \/ WorkerLeaveBarrier(w)
               \/ WorkerExit(w) \/ ExecuteReturn(w)
    BY <2>3 DEF Types, Holding, WorkerWait, WorkerAwaitBarrier,
                WorkerLeaveBarrier, WorkerExit, ExecuteReturn, AtQueue
  <2>4. CASE YieldResult(w, stTask[w])
    BY <2>4 DEF Types, Holding, YieldResult
  <2> QED  BY <1>6, <2>1, <2>2, <2>3, <2>4 DEF PoolWorkerStep, WorkerStep
<1>7. CASE SpuriousWakeup
  BY <1>7 DEF Types, Holding, SpuriousWakeup, SpuriousOwner, SpuriousWorker
<1>8. CASE UNCHANGED vars
  BY <1>8 DEF Holding, vars, poolVars
<1> QED  BY <1>1, <1>2, <1>3, <1>4, <1>5, <1>6, <1>7, <1>8
         DEF Next, ClientSubmit

\* The elements of the queue after a task is appended to it.
LEMMA EnqueueElements ==
  ASSUME Types, NEW task \in TaskRecords, Enqueue(task)
  PROVE  /\ Len(aTasks') = Len(aTasks) + 1
         /\ \A i \in 1..Len(aTasks) : aTasks'[i] = aTasks[i]
         /\ aTasks'[Len(aTasks) + 1] = task
         /\ Len(aTasks) \in Nat
<1>1. aTasks \in Seq(TaskRecords)
  BY DEF Types
<1> QED  BY <1>1 DEF Enqueue

\* The elements of the queue after its head is removed.
LEMMA DequeueElements ==
  ASSUME Types, aTasks # <<>>, Dequeue
  PROVE  /\ Len(aTasks') = Len(aTasks) - 1
         /\ \A i \in 1..Len(aTasks') : aTasks'[i] = aTasks[i + 1]
         /\ Head(aTasks) = aTasks[1]
         /\ Len(aTasks) \in Nat \ {0}
<1>1. aTasks \in Seq(TaskRecords)
  BY DEF Types
<1> QED  BY <1>1 DEF Dequeue

\* A step leaves at most one barrier queued, incomplete, its owner waiting.
LEMMA OneBarrierStep ==
  ASSUME Types, OneBarrier, [Next]_vars
  PROVE  OneBarrier'
<1> USE DEF OneBarrier
<1>1. ASSUME NEW t \in Tasks, ClientSchedule(t)
      PROVE  OneBarrier'
  <2>1. NormalTask(t) \in TaskRecords /\ Enqueue(NormalTask(t))
    BY <1>1, QueueType DEF ClientSchedule, Schedule
  <2> QED  BY <1>1, <2>1, EnqueueElements
           DEF ClientSchedule, Schedule, NormalTask
<1>2. ASSUME NEW t \in Tasks, ClientScheduleIfResourceAvailable(t)
      PROVE  OneBarrier'
  <2>1. CASE Enqueue(NormalTask(t))
    <3>1. NormalTask(t) \in TaskRecords
      BY QueueType
    <3> QED  BY <1>2, <2>1, <3>1, EnqueueElements
             DEF ClientScheduleIfResourceAvailable,
                 ScheduleIfResourceAvailable, NormalTask
  <2>2. CASE UNCHANGED aTasks
    BY <1>2, <2>2 DEF ClientScheduleIfResourceAvailable,
                      ScheduleIfResourceAvailable
  <2> QED  BY <1>2, <2>1, <2>2 DEF ClientScheduleIfResourceAvailable,
                                   ScheduleIfResourceAvailable
<1>3. CASE ClientSynchronize
  <2>1. /\ SpecialTask("SYNCHRONIZE") \in TaskRecords
        /\ Enqueue(SpecialTask("SYNCHRONIZE"))
    BY <1>3, QueueType DEF ClientSynchronize, Synchronize
  <2>2. owner = "idle" /\ owner' = "syncWait" /\ dwNumSynchronized' = 0
    BY <1>3 DEF ClientSynchronize, Synchronize
  <2> QED  BY <2>1, <2>2, EnqueueElements, NumThreadsAssumption
<1>4. CASE ClientDestroy
  <2>1. /\ SpecialTask("EXIT") \in TaskRecords
        /\ Enqueue(SpecialTask("EXIT"))
    BY <1>4, QueueType DEF ClientDestroy, Destroy
  <2> QED  BY <1>4, <2>1, EnqueueElements
           DEF ClientDestroy, Destroy, SpecialTask
<1>5. CASE OwnerStep
  BY <1>5 DEF Types, OwnerStep, ClientTakeResult, TakeResult, ReturnNull, AwaitYield,
              SynchronizeResume, JoinThreads, InWaitForResult
<1>6. ASSUME NEW w \in Threads, PoolWorkerStep(w)
      PROVE  OneBarrier'
  <2>1. CASE WorkerTake(w)
    BY <2>1, DequeueElements DEF WorkerTake
  <2>2. CASE WorkerReleaseBarrier(w)
    BY <2>2, DequeueElements DEF WorkerReleaseBarrier
  <2>3. CASE WorkerAwaitBarrier(w)
    BY <2>3, NumThreadsAssumption DEF WorkerAwaitBarrier, Types
  <2>4. CASE WorkerWait(w) \/ WorkerLeaveBarrier(w) \/ WorkerExit(w)
               \/ ExecuteReturn(w) \/ YieldResult(w, stTask[w])
    BY <2>4 DEF WorkerWait, WorkerLeaveBarrier, WorkerExit, ExecuteReturn,
                YieldResult, WakeOwner
  <2> QED  BY <1>6, <2>1, <2>2, <2>3, <2>4 DEF PoolWorkerStep, WorkerStep
<1>7. CASE SpuriousWakeup
  BY <1>7 DEF SpuriousWakeup, SpuriousOwner, SpuriousWorker
<1>8. CASE UNCHANGED vars
  BY <1>8 DEF vars, poolVars
<1> QED  BY <1>1, <1>2, <1>3, <1>4, <1>5, <1>6, <1>7, <1>8
         DEF Next, ClientSubmit

-----------------------------------------------------------------------------
(* dwNumActive *)

\* There are NumThreads threads.
LEMMA ThreadsFinite == IsFiniteSet(Threads) /\ Cardinality(Threads) = NumThreads
  BY FS_Interval, NumThreadsAssumption DEF Threads

\* The threads that are awake are finitely many.
LEMMA AwakeFinite ==
  IsFiniteSet(Awake) /\ Cardinality(Awake) \in 0..NumThreads
  BY ThreadsFinite, FS_Subset, FS_CardinalityType, NumThreadsAssumption DEF Awake

\* Before the first task no thread is awake, and none is counted.
LEMMA InitActive == Init => ActiveIsAwake
  BY FS_EmptySet DEF Init, PoolInit, ActiveIsAwake, Awake

\* A worker that passes stCondition.wait counts itself exactly once.
LEMMA CountOnEntry ==
  ASSUME Types, ActiveIsAwake, NEW w \in Threads, AtQueue(w)
  PROVE  Cardinality(Awake \cup {w}) = ActiveOnEntry(w)
<1>1. w \in Awake <=> worker[w] = "top"
  BY DEF AtQueue, Awake
<1>2. Cardinality(Awake \cup {w}) =
        IF w \in Awake THEN Cardinality(Awake) ELSE Cardinality(Awake) + 1
  BY AwakeFinite, FS_AddElement
<1> QED  BY <1>1, <1>2 DEF ActiveIsAwake, ActiveOnEntry, AtQueue, Types

\* A step keeps dwNumActiveThreads the number of awake threads.
LEMMA ActiveStep ==
  ASSUME Types, ActiveIsAwake, [Next]_vars
  PROVE  ActiveIsAwake'
<1>1. ASSUME StartThreads
      PROVE  ActiveIsAwake'
  <2>1. Awake' = Threads
    BY <1>1 DEF StartThreads, Awake
  <2> QED  BY <1>1, <2>1, ThreadsFinite DEF StartThreads, ActiveIsAwake
<1>2. ASSUME UNCHANGED dwNumActive, Awake' = Awake
      PROVE  ActiveIsAwake'
  BY <1>2 DEF ActiveIsAwake
<1>3. ASSUME NEW t \in Tasks, ClientSchedule(t)
      PROVE  ActiveIsAwake'
  <2>1. CASE Started /\ NotifyOne /\ UNCHANGED dwNumActive
    <3>1. Awake' = Awake
      BY <2>1 DEF NotifyOne, Waiters, Awake, Types
    <3> QED  BY <1>2, <2>1, <3>1
  <2> QED  BY <1>1, <1>3, <2>1 DEF ClientSchedule, Schedule
<1>4. ASSUME NEW t \in Tasks, ClientScheduleIfResourceAvailable(t)
      PROVE  ActiveIsAwake'
  <2>1. CASE UNCHANGED <<worker, dwNumActive>>
    BY <1>2, <2>1 DEF Awake
  <2> QED  BY <1>1, <1>4, <2>1
           DEF ClientScheduleIfResourceAvailable, ScheduleIfResourceAvailable
<1>5. CASE ClientSynchronize \/ ClientDestroy
  <2>1. WakeAllWaiters /\ UNCHANGED dwNumActive
    BY <1>5 DEF ClientSynchronize, Synchronize, ClientDestroy, Destroy
  <2>2. Awake' = Awake
    BY <2>1 DEF WakeAllWaiters, Awake, Types
  <2> QED  BY <1>2, <2>1, <2>2
<1>6. CASE OwnerStep
  BY <1>2, <1>6 DEF OwnerStep, ClientTakeResult, TakeResult, ReturnNull,
                    AwaitYield, SynchronizeResume, JoinThreads, Awake
<1>7. ASSUME NEW w \in Threads, PoolWorkerStep(w)
      PROVE  ActiveIsAwake'
  <2>1. ASSUME AtQueue(w), dwNumActive' = ActiveOnEntry(w),
               Awake' = Awake \cup {w}
        PROVE  ActiveIsAwake'
    BY <2>1, CountOnEntry DEF ActiveIsAwake
  <2>2. CASE WorkerWait(w)
    <3>1. Awake' = (Awake \cup {w}) \ {w}
      BY <2>2 DEF WorkerWait, Awake, Types
    <3>2. IsFiniteSet(Awake \cup {w})
      BY AwakeFinite, FS_AddElement
    <3>3. Cardinality(Awake') = Cardinality(Awake \cup {w}) - 1
      BY <3>1, <3>2, FS_RemoveElement
    <3> QED  BY <2>2, <3>3, CountOnEntry DEF WorkerWait, ActiveIsAwake
  <2>3. CASE WorkerTake(w)
    <3>1. Awake' = Awake \cup {w}
      BY <2>3 DEF WorkerTake, Awake, Types
    <3> QED  BY <2>1, <2>3, <3>1 DEF WorkerTake
  <2>4. CASE WorkerAwaitBarrier(w)
    <3>1. Awake' = Awake \cup {w}
      BY <2>4 DEF WorkerAwaitBarrier, Awake, Types
    <3> QED  BY <2>1, <2>4, <3>1 DEF WorkerAwaitBarrier
  <2>5. CASE WorkerReleaseBarrier(w)
    <3>1. Awake' = Awake \cup {w}
      BY <2>5 DEF WorkerReleaseBarrier, Awake, Types
    <3> QED  BY <2>1, <2>5, <3>1 DEF WorkerReleaseBarrier
  <2>6. CASE WorkerExit(w)
    <3>1. Awake' = Awake \cup {w}
      BY <2>6 DEF WorkerExit, Awake, Types
    <3> QED  BY <2>1, <2>6, <3>1 DEF WorkerExit
  <2>7. CASE WorkerLeaveBarrier(w) \/ ExecuteReturn(w)
               \/ YieldResult(w, stTask[w])
    <3>1. Awake' = Awake /\ UNCHANGED dwNumActive
      BY <2>7 DEF WorkerLeaveBarrier, ExecuteReturn, YieldResult, Awake, Types
    <3> QED  BY <1>2, <3>1
  <2> QED  BY <1>7, <2>2, <2>3, <2>4, <2>5, <2>6, <2>7
           DEF PoolWorkerStep, WorkerStep
<1>8. CASE SpuriousWakeup
  <2>1. Awake' = Awake /\ UNCHANGED dwNumActive
    BY <1>8 DEF SpuriousWakeup, SpuriousOwner, SpuriousWorker, Awake, Types
  <2> QED  BY <1>2, <2>1
<1>9. CASE UNCHANGED vars
  BY <1>2, <1>9 DEF vars, poolVars, Awake
<1> QED  BY <1>3, <1>4, <1>5, <1>6, <1>7, <1>8, <1>9 DEF Next, ClientSubmit

-----------------------------------------------------------------------------
(* WaitForResult returns nullptr only when nothing is outstanding *)

\* Once the owner was told that the pool is done, no step makes work.
LEMMA AtRestStep ==
  ASSUME Types, ActiveIsAwake, AtRest, [Next]_vars
  PROVE  AtRest'
<1>1. ASSUME MaySubmit, UNCHANGED owner
      PROVE  AtRest'
  BY <1>1 DEF MaySubmit, AtRest, OwnerLeft
<1>2. ASSUME NEW t \in Tasks,
             ClientSchedule(t) \/ ClientScheduleIfResourceAvailable(t)
      PROVE  AtRest'
  BY <1>1, <1>2 DEF ClientSchedule, ClientScheduleIfResourceAvailable
<1>3. CASE ClientSynchronize
  BY <1>3 DEF ClientSynchronize, Synchronize, AtRest, OwnerLeft
<1>4. CASE ClientDestroy
  <2>1. /\ SpecialTask("EXIT") \in TaskRecords
        /\ Enqueue(SpecialTask("EXIT"))
    BY <1>4, QueueType DEF ClientDestroy, Destroy
  <2>2. OwnerLeft
    BY <1>4 DEF ClientDestroy, OwnerLeft
  <2>3. \A i \in 1..Len(aTasks') : aTasks'[i].eSpecial = "EXIT"
    BY <2>1, <2>2, EnqueueElements DEF AtRest, SpecialTask
  <2>4. \A v \in Threads :
           worker'[v] \in {"unborn", "waiting", "notified", "exited"}
    BY <1>4, <2>2 DEF ClientDestroy, Destroy, WakeAllWaiters, AtRest, Types
  <2> QED  BY <1>4, <2>2, <2>3, <2>4 DEF ClientDestroy, Destroy, AtRest
<1>5. CASE OwnerStep
  <2>1. CASE ReturnNull
    <3>1. Awake = {}
      BY <2>1, AwakeFinite, FS_EmptySet
      DEF ReturnNull, NothingLeft, ActiveIsAwake
    <3>2. \A v \in Threads : worker[v] \in {"unborn", "waiting", "notified"}
      BY <3>1 DEF Awake
    <3> QED  BY <2>1, <3>2 DEF ReturnNull, NothingLeft, AtRest
  <2>2. CASE ClientTakeResult \/ AwaitYield \/ SynchronizeResume \/ JoinThreads
    BY <2>2 DEF ClientTakeResult, TakeResult, AwaitYield, SynchronizeResume,
                JoinThreads, AtRest, OwnerLeft
  <2> QED  BY <1>5, <2>1, <2>2 DEF OwnerStep
<1>6. ASSUME NEW w \in Threads, PoolWorkerStep(w)
      PROVE  AtRest'
  <2>1. ASSUME OwnerLeft, aTasks # <<>>
        PROVE  Head(aTasks).eSpecial = "EXIT"
    <3>1. aTasks \in Seq(TaskRecords)
      BY DEF Types
    <3>2. Head(aTasks) = aTasks[1] /\ 1 \in 1..Len(aTasks)
      BY <2>1, <3>1
    <3> QED  BY <2>1, <3>2 DEF AtRest
  <2>2. CASE WorkerWait(w)
    <3>1. OwnerLeft' => OwnerLeft
      BY <2>2 DEF WorkerWait, WakeOwner, OwnerLeft
    <3> QED  BY <2>2, <3>1 DEF WorkerWait, AtRest, Types
  <2>3. CASE WorkerTake(w) \/ WorkerAwaitBarrier(w)
    <3>1. ~OwnerLeft'
      BY <2>1, <2>3 DEF WorkerTake, WorkerAwaitBarrier, OwnerLeft
    <3> QED  BY <3>1 DEF AtRest
  <2>4. CASE WorkerReleaseBarrier(w)
    <3>1. ~OwnerLeft'
      BY <2>1, <2>4 DEF WorkerReleaseBarrier, OwnerLeft
    <3> QED  BY <3>1 DEF AtRest
  <2>5. CASE WorkerExit(w)
    BY <2>5 DEF WorkerExit, AtRest, OwnerLeft, Types
  <2>6. CASE WorkerLeaveBarrier(w) \/ ExecuteReturn(w)
    BY <2>6 DEF WorkerLeaveBarrier, ExecuteReturn, AtRest, OwnerLeft
  <2>7. CASE YieldResult(w, stTask[w])
    BY <2>7 DEF YieldResult, WakeOwner, AtRest, OwnerLeft
  <2> QED  BY <1>6, <2>2, <2>3, <2>4, <2>5, <2>6, <2>7
           DEF PoolWorkerStep, WorkerStep
<1>7. CASE SpuriousWakeup
  BY <1>7 DEF SpuriousWakeup, SpuriousOwner, SpuriousWorker, AtRest, OwnerLeft,
              Types
<1>8. CASE UNCHANGED vars
  BY <1>8 DEF vars, poolVars, AtRest, OwnerLeft
<1> QED  BY <1>2, <1>3, <1>4, <1>5, <1>6, <1>7, <1>8 DEF Next, ClientSubmit

-----------------------------------------------------------------------------
(* No task is lost *)

\* What is appended to aTasks is queued, and the rest still is.
LEMMA QueuedAfterEnqueue ==
  ASSUME Types, NEW task \in TaskRecords, Enqueue(task)
  PROVE  Queued' = Queued \cup {t \in {task.oTask} : task.eSpecial = "NORMAL"}
<1>1. \A i \in 1..Len(aTasks') : i \in 1..Len(aTasks) \/ i = Len(aTasks) + 1
  BY EnqueueElements
<1>2. \A i \in 1..Len(aTasks) : i \in 1..Len(aTasks')
  BY EnqueueElements
<1>3. Len(aTasks) + 1 \in 1..Len(aTasks')
  BY EnqueueElements
<1> QED  BY <1>1, <1>2, <1>3, EnqueueElements DEF Queued

\* What is taken from the head of aTasks is the only task not queued any more.
LEMMA QueuedAfterDequeue ==
  ASSUME Types, aTasks # <<>>, Dequeue
  PROVE  Queued = Queued' \cup {t \in {Head(aTasks).oTask} :
                                  Head(aTasks).eSpecial = "NORMAL"}
<1>1. \A i \in 1..Len(aTasks) : i = 1 \/ i - 1 \in 1..Len(aTasks')
  BY DequeueElements
<1>2. \A i \in 1..Len(aTasks') : i + 1 \in 1..Len(aTasks)
  BY DequeueElements
<1>3. 1 \in 1..Len(aTasks)
  BY DequeueElements
<1>4. \A i \in 1..Len(aTasks) : i # 1 => aTasks[i] = aTasks'[i - 1]
  BY <1>1, DequeueElements
<1>5. Queued \subseteq Queued' \cup {t \in {Head(aTasks).oTask} :
                                     Head(aTasks).eSpecial = "NORMAL"}
  BY <1>1, <1>4, DequeueElements DEF Queued
<1>6. Queued' \subseteq Queued
  BY <1>2, DequeueElements DEF Queued
<1>7. Head(aTasks).eSpecial = "NORMAL" => Head(aTasks).oTask \in Queued
  BY <1>3, DequeueElements DEF Queued
<1> QED  BY <1>5, <1>6, <1>7

\* A step keeps every accepted task in aTasks, at a worker, in aResults or
\* collected.
LEMMA NothingLostStep ==
  ASSUME Types, Holding, NothingLost, [Next]_vars
  PROVE  NothingLost'
<1>1. ASSUME UNCHANGED <<aTasks, aResults, submitted, collected>>,
             Running' = Running
      PROVE  NothingLost'
  BY <1>1 DEF NothingLost, Queued, Ready
<1>2. ASSUME NEW t \in Tasks, Enqueue(NormalTask(t)),
             submitted' = submitted \cup {t}, UNCHANGED <<aResults, collected>>,
             Running' = Running
      PROVE  NothingLost'
  <2>1. Queued' = Queued \cup {t}
    BY <1>2, QueueType, QueuedAfterEnqueue DEF NormalTask
  <2> QED  BY <1>2, <2>1 DEF NothingLost, Ready
<1>3. ASSUME NEW t \in Tasks, ClientSchedule(t)
      PROVE  NothingLost'
  <2>1. Running' = Running
    BY <1>3 DEF ClientSchedule, Schedule, StartThreads, Started, NotifyOne,
                Waiters, Running, Types
  <2> QED  BY <1>2, <1>3, <2>1 DEF ClientSchedule, Schedule
<1>4. ASSUME NEW t \in Tasks, ClientScheduleIfResourceAvailable(t)
      PROVE  NothingLost'
  <2>1. Running' = Running
    BY <1>4 DEF ClientScheduleIfResourceAvailable,
                ScheduleIfResourceAvailable, StartThreads, Started, Running,
                Types
  <2> QED  BY <1>1, <1>2, <1>4, <2>1
           DEF ClientScheduleIfResourceAvailable, ScheduleIfResourceAvailable
<1>5. CASE ClientSynchronize \/ ClientDestroy
  <2>1. PICK tag \in {"SYNCHRONIZE", "EXIT"} : Enqueue(SpecialTask(tag))
    BY <1>5 DEF ClientSynchronize, Synchronize, ClientDestroy, Destroy
  <2>2. Queued' = Queued
    BY <2>1, QueueType, QueuedAfterEnqueue DEF SpecialTask
  <2>3. Running' = Running
    BY <1>5 DEF ClientSynchronize, Synchronize, ClientDestroy, Destroy,
                WakeAllWaiters, Running, Types
  <2> QED  BY <1>5, <2>2, <2>3
           DEF ClientSynchronize, Synchronize, ClientDestroy, Destroy,
               historyVars, NothingLost, Ready
<1>6. CASE OwnerStep
  <2>1. CASE ClientTakeResult
    <3>1. aResults \in Seq(Tasks) /\ aResults # <<>>
      BY <2>1 DEF Types, ClientTakeResult, TakeResult
    <3>2. Ready \subseteq Ready' \cup {Head(aResults)}
      <4>1. aResults' = Tail(aResults)
        BY <2>1 DEF ClientTakeResult, TakeResult
      <4>2. \A i \in 1..Len(aResults) :
               \/ aResults[i] = Head(aResults)
               \/ i - 1 \in 1..Len(aResults') /\ aResults'[i - 1] = aResults[i]
        BY <3>1, <4>1
      <4> QED  BY <4>2 DEF Ready
    <3>3. collected' = collected \cup {Head(aResults)}
      BY <2>1 DEF ClientTakeResult, TakeResult
    <3> QED  BY <2>1, <3>2, <3>3
             DEF ClientTakeResult, TakeResult, NothingLost, Queued, Running
  <2>2. CASE (ReturnNull \/ AwaitYield \/ SynchronizeResume \/ JoinThreads)
              /\ UNCHANGED historyVars
    BY <1>1, <2>2 DEF ReturnNull, AwaitYield, SynchronizeResume, JoinThreads,
                      historyVars, Running
  <2> QED  BY <1>6, <2>1, <2>2 DEF OwnerStep
<1>7. ASSUME NEW w \in Threads, PoolWorkerStep(w)
      PROVE  NothingLost'
  <2> UNCHANGED historyVars  BY <1>7 DEF PoolWorkerStep
  <2>1. CASE WorkerTake(w)
    <3>1. Queued = Queued' \cup {Head(aTasks).oTask}
      BY <2>1, QueuedAfterDequeue DEF WorkerTake
    <3>2. Running' = Running \cup {Head(aTasks).oTask}
      BY <2>1 DEF WorkerTake, AtQueue, Running, Types
    <3> QED  BY <2>1, <3>1, <3>2 DEF WorkerTake, NothingLost, Ready, historyVars
  <2>2. CASE WorkerReleaseBarrier(w)
    <3>1. Queued = Queued'
      BY <2>2, QueuedAfterDequeue DEF WorkerReleaseBarrier
    <3>2. Running' = Running
      BY <2>2 DEF WorkerReleaseBarrier, AtQueue, Running, Types
    <3> QED  BY <2>2, <3>1, <3>2
             DEF WorkerReleaseBarrier, NothingLost, Ready, historyVars
  <2>3. CASE WorkerWait(w) \/ WorkerAwaitBarrier(w) \/ WorkerLeaveBarrier(w)
               \/ WorkerExit(w) \/ ExecuteReturn(w)
    <3>1. Running' = Running
      BY <2>3 DEF WorkerWait, WorkerAwaitBarrier, WorkerLeaveBarrier,
                  WorkerExit, ExecuteReturn, AtQueue, Running, Types
    <3> QED  BY <1>1, <2>3, <3>1
             DEF WorkerWait, WorkerAwaitBarrier, WorkerLeaveBarrier,
                 WorkerExit, ExecuteReturn, historyVars
  <2>4. CASE YieldResult(w, stTask[w])
    <3>1. Ready' = Ready \cup {stTask[w]}
      <4>1. /\ aResults \in Seq(Tasks)
            /\ aResults' = Append(aResults, stTask[w])
            /\ stTask[w] \in Tasks
        BY <2>4 DEF Types, Holding, YieldResult
      <4>2. /\ Len(aResults') = Len(aResults) + 1
            /\ \A i \in 1..Len(aResults) : aResults'[i] = aResults[i]
            /\ aResults'[Len(aResults) + 1] = stTask[w]
            /\ Len(aResults) \in Nat
        BY <4>1
      <4> QED  BY <4>2 DEF Ready
    <3>2. Running \subseteq Running' \cup {stTask[w]}
      BY <2>4 DEF YieldResult, Running, Types
    <3> QED  BY <2>4, <3>1, <3>2
             DEF YieldResult, NothingLost, Queued, historyVars
  <2> QED  BY <1>7, <2>1, <2>2, <2>3, <2>4 DEF PoolWorkerStep, WorkerStep
<1>8. CASE SpuriousWakeup /\ UNCHANGED historyVars
  <2>1. Running' = Running
    BY <1>8 DEF SpuriousWakeup, SpuriousOwner, SpuriousWorker, Running, Types
  <2> QED  BY <1>1, <1>8, <2>1
           DEF SpuriousWakeup, SpuriousOwner, SpuriousWorker, historyVars
<1>9. CASE UNCHANGED vars
  BY <1>1, <1>9 DEF vars, poolVars, historyVars, Running
<1> QED  BY <1>3, <1>4, <1>5, <1>6, <1>7, <1>8, <1>9 DEF Next, ClientSubmit

-----------------------------------------------------------------------------
(* The theorems *)

\* The invariant holds at the start.
LEMMA InitIInv == Init => IInv
<1> SUFFICES ASSUME Init PROVE IInv
  OBVIOUS
<1>1. Types /\ ActiveIsAwake
  BY InitTypes, InitActive
<1>2. Holding /\ OneBarrier /\ AtRest /\ NothingLost
  BY DEF Init, PoolInit, Holding, OneBarrier, AtRest, OwnerLeft, NothingLost
<1> QED  BY <1>1, <1>2 DEF IInv

\* Every step keeps the invariant: its parts one by one.
LEMMA IInvStep == IInv /\ [Next]_vars => IInv'
  BY TypesStep, HoldingStep, OneBarrierStep, ActiveStep, AtRestStep,
     NothingLostStep
  DEF IInv

\* The inductive invariant, for any number of threads and tasks and for every
\* behaviour.
THEOREM Invariance == SafeSpec => []IInv
  BY InitIInv, IInvStep, PTL DEF SafeSpec

(***************************************************************************)
(* The type invariant, with the bounds of both counters: dwNumActive is     *)
(* never negative and never above the number of threads.                    *)
(***************************************************************************)
THEOREM TypeCorrect == SafeSpec => []TypeOK
<1>1. IInv => TypeOK
  BY AwakeFinite, ResultsAssumption
  DEF IInv, Types, TypeOK, PoolTypeOK, ActiveIsAwake
<1> QED  BY <1>1, Invariance, PTL

(***************************************************************************)
(* dwNumActive, which Worker and InitThreads maintain and WaitForResult     *)
(* tests, is the number of workers that are out of stCondition.wait.        *)
(***************************************************************************)
THEOREM ActiveCorrect == SafeSpec => []ActiveIsAwake
<1>1. IInv => ActiveIsAwake
  BY DEF IInv
<1> QED  BY <1>1, Invariance, PTL

(***************************************************************************)
(* Once WaitForResult has returned nullptr, no task is queued, executing or *)
(* uncollected, and no worker holds a reference to one.                     *)
(***************************************************************************)
THEOREM NullMeansQuiescent == SafeSpec => []Quiescent
<1>1. IInv => Quiescent
  <2> SUFFICES ASSUME IInv, OwnerLeft
               PROVE  /\ Queued = {}
                      /\ aResults = <<>>
                      /\ \A w \in Threads :
                           /\ worker[w] \notin {"executing", "finished"}
                           /\ stTask[w] = NULL
    BY DEF Quiescent
  <2>1. Queued = {} /\ aResults = <<>>
    BY DEF IInv, AtRest, Queued
  <2>2. \A w \in Threads : /\ worker[w] \notin {"executing", "finished"}
                            /\ stTask[w] = NULL
    BY DEF IInv, AtRest, Holding
  <2> QED  BY <2>1, <2>2
<1> QED  BY <1>1, Invariance, PTL

(***************************************************************************)
(* A task that the pool has accepted is queued, executing, or its result is *)
(* in aResults or collected.                                                *)
(***************************************************************************)
THEOREM NoTaskIsLost == SafeSpec => []NothingLost
<1>1. IInv => NothingLost
  BY DEF IInv
<1> QED  BY <1>1, Invariance, PTL

-----------------------------------------------------------------------------
(***************************************************************************)
(* The thread pool implements TaskService, for any number of threads and    *)
(* any set of tasks.  Beyond IInv, a step of the pool maps to a step of the *)
(* service only because a task is in one place at a time: that is Distinct. *)
(***************************************************************************)

Yielded == Ready \cup collected
Executing == {w \in Threads : worker[w] = "executing"}

\* An executing task was submitted, has not yielded, is not queued as well,
\* and no other worker executes it.
RunOnce ==
  \A w \in Executing :
    /\ stTask[w] \in submitted \ Yielded
    /\ stTask[w] \notin Queued
    /\ \A v \in Executing : stTask[v] = stTask[w] => v = w

\* A queued task was submitted, has not yielded, and is queued once.
QueuedOnce ==
  /\ Queued \subseteq submitted \ Yielded
  /\ \A i, j \in 1..Len(aTasks) :
       (/\ aTasks[i].eSpecial = "NORMAL"
        /\ aTasks[j].eSpecial = "NORMAL"
        /\ aTasks[i].oTask = aTasks[j].oTask) => i = j

Distinct ==
  /\ Yielded \subseteq submitted
  /\ RunOnce
  /\ QueuedOnce

DInv == IInv /\ Distinct

-----------------------------------------------------------------------------
(* Distinct is invariant *)

\* At the start no task is anywhere.
LEMMA InitDistinct == Init => Distinct
  BY DEF Init, PoolInit, Distinct, RunOnce, QueuedOnce, Yielded, Executing,
         Ready, Queued

\* What a step does to the workers that execute, when it starts or ends none.
SameWork ==
  /\ Executing' = Executing
  /\ \A w \in Executing : stTask'[w] = stTask[w]
  /\ UNCHANGED <<aResults, collected>>

\* A new task that is appended to the queue.
LEMMA DistinctSubmit ==
  ASSUME IInv, Distinct, NEW t \in Tasks \ submitted, SameWork,
         Enqueue(NormalTask(t)), submitted' = submitted \cup {t}
  PROVE  Distinct'
<1> Types  BY DEF IInv
<1>1. NormalTask(t) \in TaskRecords
  BY QueueType
<1>2. Queued' = Queued \cup {t}
  BY <1>1, QueuedAfterEnqueue DEF NormalTask
<1>3. Yielded' = Yielded
  BY DEF SameWork, Yielded, Ready
<1>4. RunOnce'
  BY <1>2, <1>3 DEF SameWork, Distinct, RunOnce
<1>5. QueuedOnce'
  <2>1. t \notin Queued
    BY DEF Distinct, QueuedOnce
  <2>2. \A i \in 1..Len(aTasks) :
          aTasks[i].eSpecial = "NORMAL" => aTasks[i].oTask # t
    BY <2>1 DEF Queued
  <2> QED  BY <1>1, <1>2, <1>3, <2>2, EnqueueElements
           DEF Distinct, QueuedOnce, NormalTask
<1> QED  BY <1>3, <1>4, <1>5 DEF Distinct

\* A special task that is appended, or nothing at all.
LEMMA DistinctSame ==
  ASSUME IInv, Distinct, SameWork, UNCHANGED submitted,
         \/ UNCHANGED aTasks
         \/ \E tag \in {"SYNCHRONIZE", "EXIT"} : Enqueue(SpecialTask(tag))
  PROVE  Distinct'
<1> Types  BY DEF IInv
<1>1. Yielded' = Yielded
  BY DEF SameWork, Yielded, Ready
<1>2. Queued' = Queued /\ QueuedOnce'
  <2>1. CASE UNCHANGED aTasks
    BY <1>1, <2>1 DEF Distinct, QueuedOnce, Queued
  <2>2. ASSUME NEW tag \in {"SYNCHRONIZE", "EXIT"}, Enqueue(SpecialTask(tag))
        PROVE  Queued' = Queued /\ QueuedOnce'
    <3>1. SpecialTask(tag) \in TaskRecords
      BY QueueType
    <3>2. Queued' = Queued
      BY <2>2, <3>1, QueuedAfterEnqueue DEF SpecialTask
    <3> QED  BY <1>1, <2>2, <3>1, <3>2, EnqueueElements
             DEF Distinct, QueuedOnce, SpecialTask
  <2> QED  BY <2>1, <2>2
<1>3. RunOnce'
  BY <1>1, <1>2 DEF SameWork, Distinct, RunOnce
<1> QED  BY <1>1, <1>2, <1>3 DEF Distinct

\* The elements that remain in the queue after its head is removed.
LEMMA DistinctDequeue ==
  ASSUME IInv, Distinct, aTasks # <<>>, Dequeue,
         UNCHANGED <<aResults, collected, submitted>>
  PROVE  /\ QueuedOnce'
         /\ Queued' \subseteq Queued
         /\ Head(aTasks).eSpecial = "NORMAL" =>
              /\ Head(aTasks).oTask \in Queued
              /\ Head(aTasks).oTask \notin Queued'
<1> Types  BY DEF IInv
<1>1. Yielded' = Yielded
  BY DEF Yielded, Ready
<1>2. /\ Queued' \subseteq Queued
      /\ Head(aTasks).eSpecial = "NORMAL" => Head(aTasks).oTask \in Queued
  BY QueuedAfterDequeue
<1>3. \A i \in 1..Len(aTasks') : /\ i + 1 \in 1..Len(aTasks)
                                 /\ i + 1 # 1
                                 /\ aTasks'[i] = aTasks[i + 1]
  BY DequeueElements
<1>4. 1 \in 1..Len(aTasks) /\ Head(aTasks) = aTasks[1]
  BY DequeueElements
<1>5. QueuedOnce'
  <2>1. Queued' \subseteq submitted' \ Yielded'
    BY <1>1, <1>2 DEF Distinct, QueuedOnce
  <2>2. ASSUME NEW i \in 1..Len(aTasks'), NEW j \in 1..Len(aTasks'),
               aTasks'[i].eSpecial = "NORMAL", aTasks'[j].eSpecial = "NORMAL",
               aTasks'[i].oTask = aTasks'[j].oTask
        PROVE  i = j
    <3>1. i + 1 = j + 1
      BY <1>3, <2>2 DEF Distinct, QueuedOnce
    <3>2. i \in Int /\ j \in Int
      OBVIOUS
    <3> QED  BY <3>1, <3>2
  <2> QED  BY <2>1, <2>2 DEF QueuedOnce
<1>6. ASSUME Head(aTasks).eSpecial = "NORMAL", Head(aTasks).oTask \in Queued'
      PROVE  FALSE
  <2>1. PICK i \in 1..Len(aTasks') : /\ aTasks'[i].eSpecial = "NORMAL"
                                     /\ aTasks'[i].oTask = Head(aTasks).oTask
    BY <1>6 DEF Queued
  <2>2. i + 1 = 1
    BY <1>3, <1>4, <1>6, <2>1 DEF Distinct, QueuedOnce
  <2> QED  BY <1>3, <2>2
<1> QED  BY <1>2, <1>5, <1>6

\* A step keeps every task in at most one place: a queue, a worker or the
\* results.
LEMMA DistinctStep ==
  ASSUME IInv, Distinct, [Next]_vars
  PROVE  Distinct'
<1> Types /\ Holding  BY DEF IInv
<1> USE DEF Executing
<1>1. ASSUME NEW t \in Tasks, ClientSchedule(t)
      PROVE  Distinct'
  <2>1. SameWork
    BY <1>1 DEF ClientSchedule, Schedule, StartThreads, Started, NotifyOne,
                Waiters, SameWork, Types
  <2> QED  BY <1>1, <2>1, DistinctSubmit DEF ClientSchedule, Schedule
<1>2. ASSUME NEW t \in Tasks, ClientScheduleIfResourceAvailable(t)
      PROVE  Distinct'
  <2>1. SameWork
    BY <1>2 DEF ClientScheduleIfResourceAvailable,
                ScheduleIfResourceAvailable, StartThreads, Started, SameWork,
                Types
  <2> QED  BY <1>2, <2>1, DistinctSubmit, DistinctSame
           DEF ClientScheduleIfResourceAvailable, ScheduleIfResourceAvailable
<1>3. CASE ClientSynchronize \/ ClientDestroy
  <2>1. SameWork
    BY <1>3 DEF ClientSynchronize, Synchronize, ClientDestroy, Destroy,
                WakeAllWaiters, historyVars, SameWork, Types
  <2> QED  BY <1>3, <2>1, DistinctSame
           DEF ClientSynchronize, Synchronize, ClientDestroy, Destroy,
               historyVars
<1>4. CASE OwnerStep
  <2>1. CASE ClientTakeResult
    <3>1. Yielded' = Yielded
      <4>1. /\ aResults \in Seq(Tasks) /\ aResults # <<>>
            /\ aResults' = Tail(aResults)
            /\ collected' = collected \cup {Head(aResults)}
        BY <2>1 DEF Types, ClientTakeResult, TakeResult
      <4>2. /\ Head(aResults) = aResults[1] /\ 1 \in 1..Len(aResults)
            /\ \A i \in 1..Len(aResults) :
                 \/ aResults[i] = Head(aResults)
                 \/ i - 1 \in 1..Len(aResults') /\ aResults'[i - 1] = aResults[i]
            /\ \A i \in 1..Len(aResults') :
                 i + 1 \in 1..Len(aResults) /\ aResults'[i] = aResults[i + 1]
        BY <4>1
      <4>3. Ready = Ready' \cup {Head(aResults)}
        <5>1. Ready \subseteq Ready' \cup {Head(aResults)}
          BY <4>2 DEF Ready
        <5>2. Ready' \subseteq Ready
          BY <4>2 DEF Ready
        <5>3. Head(aResults) \in Ready
          BY <4>2 DEF Ready
        <5> QED  BY <5>1, <5>2, <5>3
      <4> QED  BY <4>1, <4>3 DEF Yielded
    <3>2. UNCHANGED <<aTasks, worker, stTask, submitted>>
      BY <2>1 DEF ClientTakeResult, TakeResult
    <3> QED  BY <3>1, <3>2 DEF Distinct, RunOnce, QueuedOnce, Queued
  <2>2. CASE (ReturnNull \/ AwaitYield \/ SynchronizeResume \/ JoinThreads)
              /\ UNCHANGED historyVars
    BY <2>2, DistinctSame
    DEF ReturnNull, AwaitYield, SynchronizeResume, JoinThreads, historyVars,
        SameWork
  <2> QED  BY <1>4, <2>1, <2>2 DEF OwnerStep
<1>5. ASSUME NEW w \in Threads, PoolWorkerStep(w)
      PROVE  Distinct'
  <2> UNCHANGED historyVars  BY <1>5 DEF PoolWorkerStep
  <2>1. CASE WorkerTake(w)
    <3>1. /\ QueuedOnce'
          /\ Queued' \subseteq Queued
          /\ Head(aTasks).oTask \in Queued
          /\ Head(aTasks).oTask \notin Queued'
      BY <2>1, DistinctDequeue DEF WorkerTake, historyVars
    <3>2. Yielded' = Yielded
      BY <2>1 DEF WorkerTake, Yielded, Ready, historyVars
    <3>3. /\ Executing' = Executing \cup {w}
          /\ w \notin Executing
          /\ stTask' = [stTask EXCEPT ![w] = Head(aTasks).oTask]
      BY <2>1 DEF WorkerTake, AtQueue, Types
    <3>4. RunOnce'
      <4>1. \A v \in Executing : /\ stTask'[v] = stTask[v]
                                 /\ stTask[v] # Head(aTasks).oTask
        BY <3>1, <3>3 DEF Distinct, RunOnce, Types
      <4>2. stTask'[w] = Head(aTasks).oTask
        BY <3>3 DEF Types
      <4>3. Head(aTasks).oTask \in submitted' \ Yielded'
        BY <3>1, <3>2 DEF Distinct, QueuedOnce, historyVars
      <4>4. submitted' = submitted
        BY DEF historyVars
      <4> QED  BY <3>1, <3>2, <3>3, <4>1, <4>2, <4>3, <4>4
               DEF Distinct, RunOnce
    <3> QED  BY <3>1, <3>2, <3>4 DEF Distinct, historyVars
  <2>2. CASE WorkerReleaseBarrier(w)
    <3>1. QueuedOnce' /\ Queued' \subseteq Queued
      BY <2>2, DistinctDequeue DEF WorkerReleaseBarrier, historyVars
    <3>2. SameWork
      BY <2>2 DEF WorkerReleaseBarrier, AtQueue, Types, SameWork, historyVars
    <3>3. Yielded' = Yielded
      BY <3>2 DEF SameWork, Yielded, Ready
    <3> QED  BY <3>1, <3>2, <3>3 DEF Distinct, RunOnce, SameWork, historyVars
  <2>3. CASE WorkerWait(w) \/ WorkerAwaitBarrier(w) \/ WorkerLeaveBarrier(w)
               \/ WorkerExit(w) \/ ExecuteReturn(w)
    <3>1. SameWork /\ UNCHANGED aTasks
      BY <2>3 DEF WorkerWait, WorkerAwaitBarrier, WorkerLeaveBarrier,
                  WorkerExit, ExecuteReturn, AtQueue, SameWork, Types,
                  historyVars
    <3> QED  BY <3>1, DistinctSame DEF historyVars
  <2>4. CASE YieldResult(w, stTask[w])
    <3>1. Yielded' = Yielded \cup {stTask[w]}
      <4>1. /\ aResults \in Seq(Tasks)
            /\ aResults' = Append(aResults, stTask[w])
            /\ stTask[w] \in Tasks
        BY <2>4 DEF Types, Holding, YieldResult
      <4>2. /\ Len(aResults') = Len(aResults) + 1
            /\ \A i \in 1..Len(aResults) : aResults'[i] = aResults[i]
            /\ aResults'[Len(aResults) + 1] = stTask[w]
            /\ Len(aResults) \in Nat
        BY <4>1
      <4>3. Ready' = Ready \cup {stTask[w]}
        BY <4>2 DEF Ready
      <4> QED  BY <4>3 DEF Yielded, historyVars
    <3>2. /\ Executing' = Executing \ {w}
          /\ w \in Executing
          /\ UNCHANGED <<aTasks, stTask, submitted>>
      BY <2>4 DEF YieldResult, Types, historyVars
    <3>3. stTask[w] \in submitted /\ stTask[w] \notin Queued
      BY <3>2 DEF Distinct, RunOnce
    <3>4. Queued' = Queued
      BY <3>2 DEF Queued
    <3>5. QueuedOnce'
      BY <3>1, <3>2, <3>3, <3>4 DEF Distinct, QueuedOnce
    <3>6. RunOnce'
      BY <3>1, <3>2, <3>4 DEF Distinct, RunOnce
    <3> QED  BY <3>1, <3>2, <3>3, <3>5, <3>6 DEF Distinct
  <2> QED  BY <1>5, <2>1, <2>2, <2>3, <2>4 DEF PoolWorkerStep, WorkerStep
<1>6. CASE SpuriousWakeup /\ UNCHANGED historyVars
  <2>1. SameWork /\ UNCHANGED aTasks
    BY <1>6 DEF SpuriousWakeup, SpuriousOwner, SpuriousWorker, SameWork,
                Types, historyVars
  <2> QED  BY <1>6, <2>1, DistinctSame DEF historyVars
<1>7. CASE UNCHANGED vars
  BY <1>7, DistinctSame DEF vars, poolVars, historyVars, SameWork
<1> QED  BY <1>1, <1>2, <1>3, <1>4, <1>5, <1>6, <1>7 DEF Next, ClientSubmit

\* Both invariants hold at the start.
LEMMA InitDInv == Init => DInv
  BY InitIInv, InitDistinct DEF DInv

\* Every step keeps both invariants.
LEMMA DInvStep == DInv /\ [Next]_vars => DInv'
  BY IInvStep, DistinctStep DEF DInv

-----------------------------------------------------------------------------
(* Refinement *)

\* Most steps of the pool are invisible to its client.
LEMMA Invisible ==
  ASSUME UNCHANGED <<aResults, submitted, collected>>, OwnerLeft' = OwnerLeft
  PROVE  UNCHANGED Service!serviceVars
  BY DEF Service!serviceVars, Ready

\* A task that is accepted is a new one, before the pool has reported.
LEMMA SubmitRefines ==
  ASSUME DInv, NEW t \in Tasks \ submitted, MaySubmit,
         UNCHANGED <<aResults, collected, owner>>,
         submitted' = submitted \cup {t}
  PROVE  Service!Submit(t)
<1>1. ~OwnerLeft
  BY DEF MaySubmit, DInv, IInv, AtRest, OwnerLeft
<1>2. t \notin Ready \cup collected /\ Ready' = Ready
  BY DEF DInv, Distinct, Yielded, Ready
<1>3. t \in Service!Unused
  BY <1>2 DEF Service!Unused, Ready
<1>4. submitted' \ (Ready' \cup collected') =
        (submitted \ (Ready \cup collected)) \cup {t}
  BY <1>2
<1> QED  BY <1>1, <1>3, <1>4 DEF Service!Submit, OwnerLeft

\* Every step of the pool is a step of the service, or none.
LEMMA StepRefines ==
  ASSUME DInv, [Next]_vars
  PROVE  [Service!Next]_(Service!serviceVars)
<1> Types /\ Holding  BY DEF DInv, IInv
<1>1. ASSUME NEW t \in Tasks, ClientSchedule(t)
      PROVE  Service!Submit(t)
  BY <1>1, SubmitRefines DEF ClientSchedule, Schedule
<1>2. ASSUME NEW t \in Tasks, ClientScheduleIfResourceAvailable(t)
      PROVE  Service!Submit(t) \/ UNCHANGED Service!serviceVars
  <2>1. CASE submitted' = submitted \cup {t}
    BY <1>2, <2>1, SubmitRefines
    DEF ClientScheduleIfResourceAvailable, ScheduleIfResourceAvailable
  <2>2. CASE submitted' = submitted
    BY <1>2, <2>2, Invisible
    DEF ClientScheduleIfResourceAvailable, ScheduleIfResourceAvailable,
        OwnerLeft
  <2> QED  BY <1>2, <2>1, <2>2 DEF ClientScheduleIfResourceAvailable
<1>3. CASE ClientSynchronize
  BY <1>3, Invisible DEF ClientSynchronize, Synchronize, OwnerLeft
<1>4. CASE ClientDestroy
  BY <1>4, Invisible DEF ClientDestroy, Destroy, historyVars, OwnerLeft
<1>5. CASE OwnerStep
  <2>1. CASE ClientTakeResult
    <3>1. /\ aResults # <<>>
          /\ aResults' = Tail(aResults)
          /\ collected' = collected \cup {Head(aResults)}
          /\ submitted' = submitted
          /\ ~OwnerLeft /\ ~OwnerLeft'
      BY <2>1 DEF ClientTakeResult, TakeResult, InWaitForResult, OwnerLeft
    <3>2. Ready' \cup collected' = Ready \cup collected
      <4>1. aResults \in Seq(Tasks)
        BY DEF Types
      <4>2. /\ Head(aResults) = aResults[1] /\ 1 \in 1..Len(aResults)
            /\ \A i \in 1..Len(aResults) :
                 \/ aResults[i] = Head(aResults)
                 \/ i - 1 \in 1..Len(aResults') /\ aResults'[i - 1] = aResults[i]
            /\ \A i \in 1..Len(aResults') :
                 i + 1 \in 1..Len(aResults) /\ aResults'[i] = aResults[i + 1]
        BY <3>1, <4>1
      <4>3. Ready \subseteq Ready' \cup {Head(aResults)}
        BY <4>2 DEF Ready
      <4>4. Ready' \subseteq Ready /\ Head(aResults) \in Ready
        BY <4>2 DEF Ready
      <4> QED  BY <3>1, <4>3, <4>4
    <3>3. Service!Collect
      <4>1. submitted' \ (Ready' \cup collected') =
              submitted \ (Ready \cup collected)
        BY <3>1, <3>2
      <4>2. OwnerLeft' = OwnerLeft
        BY <3>1 DEF OwnerLeft
      <4> QED  BY <3>1, <4>1, <4>2 DEF Service!Collect
    <3> QED  BY <3>3 DEF Service!Next
  <2>2. CASE ReturnNull /\ UNCHANGED historyVars
    <3>1. /\ aResults = <<>> /\ aResults' = <<>>
          /\ submitted' = submitted /\ collected' = collected
          /\ aTasks = <<>> /\ dwNumActive = 0
          /\ OwnerLeft'
      BY <2>2 DEF ReturnNull, NothingLeft, historyVars, OwnerLeft
    <3>2. Queued = {}
      BY <3>1 DEF Queued
    <3>3. Running = {}
      <4>1. Awake = {}
        BY <3>1, AwakeFinite, FS_EmptySet DEF DInv, IInv, ActiveIsAwake
      <4> QED  BY <4>1 DEF Awake, Running
    <3>4. submitted \ (Ready \cup collected) = {} /\ Ready' = Ready
      BY <3>1, <3>2, <3>3 DEF DInv, IInv, NothingLost, Ready
    <3>5. Service!Report
      BY <3>1, <3>4 DEF Service!Report
    <3> QED  BY <3>5 DEF Service!Next
  <2>3. CASE (AwaitYield \/ SynchronizeResume \/ JoinThreads)
              /\ UNCHANGED historyVars
    BY <2>3, Invisible
    DEF AwaitYield, SynchronizeResume, JoinThreads, InWaitForResult,
        historyVars, OwnerLeft
  <2> QED  BY <1>5, <2>1, <2>2, <2>3 DEF OwnerStep
<1>6. ASSUME NEW w \in Threads, PoolWorkerStep(w)
      PROVE  [Service!Next]_(Service!serviceVars)
  <2> UNCHANGED historyVars  BY <1>6 DEF PoolWorkerStep
  <2>1. CASE YieldResult(w, stTask[w])
    <3>1. /\ aResults' = Append(aResults, stTask[w])
          /\ submitted' = submitted /\ collected' = collected
          /\ OwnerLeft' = OwnerLeft
          /\ stTask[w] \in Tasks
      BY <2>1 DEF YieldResult, WakeOwner, historyVars, OwnerLeft, Holding
    <3>2. stTask[w] \in submitted \ (Ready \cup collected)
      BY <2>1 DEF YieldResult, DInv, Distinct, RunOnce, Executing, Yielded
    <3>3. Ready' = Ready \cup {stTask[w]}
      <4>1. aResults \in Seq(Tasks)
        BY DEF Types
      <4>2. /\ Len(aResults') = Len(aResults) + 1
            /\ \A i \in 1..Len(aResults) : aResults'[i] = aResults[i]
            /\ aResults'[Len(aResults) + 1] = stTask[w]
            /\ Len(aResults) \in Nat
        BY <3>1, <4>1
      <4> QED  BY <4>2 DEF Ready
    <3>4. Service!Yield(stTask[w])
      BY <3>1, <3>2, <3>3 DEF Service!Yield
    <3> QED  BY <3>1, <3>4 DEF Service!Next
  <2>2. CASE WorkerStep(w)
    <3>1. UNCHANGED <<aResults, submitted, collected>> /\ OwnerLeft' = OwnerLeft
      BY <2>2 DEF WorkerStep, WorkerWait, WorkerTake, WorkerAwaitBarrier,
                  WorkerReleaseBarrier, WorkerLeaveBarrier, WorkerExit,
                  ExecuteReturn, WakeOwner, historyVars, OwnerLeft
    <3> QED  BY <3>1, Invisible
  <2> QED  BY <1>6, <2>1, <2>2 DEF PoolWorkerStep
<1>7. CASE SpuriousWakeup /\ UNCHANGED historyVars
  BY <1>7, Invisible DEF SpuriousWakeup, SpuriousOwner, SpuriousWorker,
                         historyVars, OwnerLeft
<1>8. CASE UNCHANGED vars
  BY <1>8, Invisible DEF vars, poolVars, historyVars, OwnerLeft
<1> QED  BY <1>1, <1>2, <1>3, <1>4, <1>5, <1>6, <1>7, <1>8
         DEF Next, ClientSubmit, Service!Next

(***************************************************************************)
(* The pool implements TaskService: a task that Schedule has accepted is    *)
(* executed once and its result is returned by WaitForResult once, in the   *)
(* order of the calls of YieldResult; nullptr is returned only when nothing *)
(* is outstanding, and nothing is scheduled after that.                     *)
(***************************************************************************)
THEOREM PoolImplementsTaskService == SafeSpec => ImplementsTaskService
<1>1. Init => Service!Init
  BY DEF Init, PoolInit, Service!Init, OwnerLeft
<1>2. DInv /\ [Next]_vars => [Service!Next]_(Service!serviceVars)
  BY StepRefines
<1> QED  BY <1>1, <1>2, InitDInv, DInvStep, PTL
         DEF SafeSpec, ImplementsTaskService, Service!Spec

-----------------------------------------------------------------------------
(* The barrier *)

\* The workers that have reached the barrier and not left it.
AtBarrier == {w \in Threads : worker[w] \in {"syncWait", "syncNotified"}}

\* The task t has a worker, or has yielded its result.
Begun(t) == t \in Running \cup Ready \cup collected

(***************************************************************************)
(* While the owner is in Synchronize, the tasks it waits for have yielded   *)
(* their results; or the barrier is queued, every such task is queued       *)
(* before it or has begun, and at least dwNumSynchronized workers are at    *)
(* the barrier.  (There may be more: one that was slow to leave the barrier *)
(* before is at this one as well, and has not been counted.)                *)
(***************************************************************************)
BarrierInv ==
  owner \in {"syncWait", "syncWoken"} =>
    \/ preBarrier \subseteq Ready \cup collected
    \/ \E i \in 1..Len(aTasks) :
         /\ aTasks[i].eSpecial = "SYNCHRONIZE"
         /\ dwNumSynchronized <= Cardinality(AtBarrier)
         /\ \A t \in preBarrier :
              \/ Begun(t)
              \/ \E j \in 1..(i - 1) :
                   aTasks[j].eSpecial = "NORMAL" /\ aTasks[j].oTask = t

\* The workers at the barrier are finitely many.
LEMMA AtBarrierFinite ==
  IsFiniteSet(AtBarrier) /\ Cardinality(AtBarrier) \in 0..NumThreads
  BY ThreadsFinite, FS_Subset, FS_CardinalityType, NumThreadsAssumption DEF AtBarrier

\* A result is not lost: WaitForResult collects what it removes.
LEMMA ResultsKept ==
  ASSUME IInv, [Next]_vars, UNCHANGED preBarrier
  PROVE  Ready \cup collected \subseteq Ready' \cup collected'
<1> USE DEF IInv
<1>1. CASE UNCHANGED <<aResults, collected>>
  BY <1>1 DEF Ready
<1>2. CASE ClientTakeResult
  <2>1. /\ aResults \in Seq(Tasks) /\ aResults # <<>>
        /\ aResults' = Tail(aResults)
        /\ collected' = collected \cup {Head(aResults)}
    BY <1>2 DEF ClientTakeResult, TakeResult, Types
  <2>2. \A i \in 1..Len(aResults) :
          \/ aResults[i] = Head(aResults)
          \/ i - 1 \in 1..Len(aResults') /\ aResults'[i - 1] = aResults[i]
    BY <2>1
  <2> QED  BY <2>1, <2>2 DEF Ready
<1>3. ASSUME NEW w \in Threads, YieldResult(w, stTask[w]), UNCHANGED historyVars
      PROVE  Ready \cup collected \subseteq Ready' \cup collected'
  <2>1. /\ aResults \in Seq(Tasks)
        /\ aResults' = Append(aResults, stTask[w])
        /\ stTask[w] \in Tasks
    BY <1>3 DEF Types, Holding, YieldResult
  <2>2. /\ Len(aResults') = Len(aResults) + 1
        /\ \A i \in 1..Len(aResults) : aResults'[i] = aResults[i]
        /\ Len(aResults) \in Nat
    BY <2>1
  <2> QED  BY <1>3, <2>2 DEF Ready, historyVars
<1> QED
  BY <1>1, <1>2, <1>3
  DEF Next, vars, poolVars, historyVars, ClientSubmit, ClientSchedule, Schedule,
      ClientScheduleIfResourceAvailable, ScheduleIfResourceAvailable,
      ClientSynchronize, Synchronize, ClientDestroy, Destroy, OwnerStep, ReturnNull,
      AwaitYield, SynchronizeResume, JoinThreads, PoolWorkerStep, WorkerStep, WorkerWait,
      WorkerTake, WorkerAwaitBarrier, WorkerReleaseBarrier, WorkerLeaveBarrier,
      WorkerExit, ExecuteReturn, SpuriousWakeup, SpuriousOwner, SpuriousWorker

\* A step during which the barrier stays at a place k of the queue, the tasks
\* before it stay there, those begun stay so, and no worker leaves the barrier.
LEMMA BarrierKept ==
  ASSUME IInv, BarrierInv, UNCHANGED preBarrier,
         owner' \in {"syncWait", "syncWoken"} => owner \in {"syncWait", "syncWoken"},
         Ready \cup collected \subseteq Ready' \cup collected',
         \A t \in Tasks : Begun(t) => Begun(t)',
         Len(aTasks) \in Nat, Len(aTasks') \in Nat, Len(aTasks) <= Len(aTasks'),
         \A i \in 1..Len(aTasks) : aTasks'[i] = aTasks[i],
         UNCHANGED dwNumSynchronized, AtBarrier \subseteq AtBarrier'
  PROVE  BarrierInv'
<1> SUFFICES ASSUME owner' \in {"syncWait", "syncWoken"},
                    ~(preBarrier \subseteq Ready \cup collected)
             PROVE  BarrierInv'
  BY DEF BarrierInv
<1>1. PICK i \in 1..Len(aTasks) :
        /\ aTasks[i].eSpecial = "SYNCHRONIZE"
        /\ dwNumSynchronized <= Cardinality(AtBarrier)
        /\ \A t \in preBarrier :
             \/ Begun(t)
             \/ \E j \in 1..(i - 1) :
                  aTasks[j].eSpecial = "NORMAL" /\ aTasks[j].oTask = t
  BY DEF BarrierInv
<1>2. dwNumSynchronized' <= Cardinality(AtBarrier')
  <2>1. IsFiniteSet(AtBarrier')
    BY ThreadsFinite, FS_Subset DEF AtBarrier
  <2>2. Cardinality(AtBarrier) <= Cardinality(AtBarrier')
    BY <2>1, FS_Subset
  <2>3. Cardinality(AtBarrier) \in Int /\ Cardinality(AtBarrier') \in Int
    BY <2>1, AtBarrierFinite, FS_CardinalityType
  <2> QED  BY <1>1, <2>2, <2>3 DEF IInv, Types
<1>3. i \in 1..Len(aTasks') /\ aTasks'[i].eSpecial = "SYNCHRONIZE"
  BY <1>1
<1>4. ASSUME NEW t \in preBarrier
      PROVE  \/ Begun(t)'
             \/ \E j \in 1..(i - 1) :
                  aTasks'[j].eSpecial = "NORMAL" /\ aTasks'[j].oTask = t
  <2>1. t \in Tasks
    BY DEF IInv, Types
  <2>2. \A j \in 1..(i - 1) : aTasks'[j] = aTasks[j]
    OBVIOUS
  <2> QED  BY <1>1, <2>1, <2>2
<1> QED  BY <1>2, <1>3, <1>4 DEF BarrierInv

\* Every step keeps the invariant of the barrier.
LEMMA BarrierStep == IInv /\ BarrierInv /\ [Next]_vars => BarrierInv'
<1> SUFFICES ASSUME IInv, BarrierInv, [Next]_vars
             PROVE  BarrierInv'
  OBVIOUS
<1> Types /\ Holding  BY DEF IInv
<1> aTasks \in Seq(TaskRecords) /\ Len(aTasks) \in Nat  BY DEF Types
<1>1. ASSUME NEW t \in Tasks, Schedule(t) \/ \E b \in BOOLEAN : ScheduleIfResourceAvailable(t, b),
             UNCHANGED <<owner, collected, preBarrier>>
      PROVE  BarrierInv'
  <2>1. Running' = Running /\ AtBarrier' = AtBarrier /\ Ready' = Ready
        /\ UNCHANGED dwNumSynchronized
    BY <1>1 DEF Schedule, ScheduleIfResourceAvailable, StartThreads, Started, NotifyOne, Waiters,
       Running, AtBarrier, Ready, Types
  <2>2. NormalTask(t) \in TaskRecords
    BY QueueType
  <2>3. /\ Len(aTasks') \in Nat /\ Len(aTasks) <= Len(aTasks')
        /\ \A i \in 1..Len(aTasks) : aTasks'[i] = aTasks[i]
    <3>1. CASE Enqueue(NormalTask(t))
      BY <2>2, <3>1, EnqueueElements
    <3>2. CASE UNCHANGED aTasks
      BY <3>2
    <3> QED  BY <1>1, <3>1, <3>2 DEF Schedule, ScheduleIfResourceAvailable
  <2> QED  BY <1>1, <2>1, <2>3, BarrierKept DEF Begun
<1>2. CASE ClientSynchronize
  <2> DEFINE n == Len(aTasks) + 1
  <2>1. /\ SpecialTask("SYNCHRONIZE") \in TaskRecords
        /\ Enqueue(SpecialTask("SYNCHRONIZE"))
    BY <1>2, QueueType DEF ClientSynchronize, Synchronize
  <2>2. /\ dwNumSynchronized' = 0 /\ preBarrier' = submitted
        /\ UNCHANGED <<aResults, collected>>
    BY <1>2 DEF ClientSynchronize, Synchronize
  <2>3. Running' = Running
    BY <1>2 DEF ClientSynchronize, Synchronize, WakeAllWaiters, Running, Types
  <2>4. n \in 1..Len(aTasks') /\ aTasks'[n].eSpecial = "SYNCHRONIZE"
    BY <2>1, EnqueueElements DEF SpecialTask
  <2>5. dwNumSynchronized' <= Cardinality(AtBarrier')
    <3>1. IsFiniteSet(AtBarrier')
      BY ThreadsFinite, FS_Subset DEF AtBarrier
    <3> QED  BY <2>2, <3>1, FS_CardinalityType
  <2>6. ASSUME NEW t \in preBarrier'
        PROVE  \/ Begun(t)'
               \/ \E j \in 1..(n - 1) : aTasks'[j].eSpecial = "NORMAL" /\ aTasks'[j].oTask = t
    <3>1. t \in Queued \/ Begun(t)
      BY <2>2, <2>6 DEF IInv, NothingLost, Begun
    <3>2. Begun(t) => Begun(t)'
      BY <2>2, <2>3 DEF Begun, Ready
    <3>3. t \in Queued => \E j \in 1..Len(aTasks) : aTasks[j].eSpecial = "NORMAL" /\ aTasks[j].oTask = t
      BY DEF Queued
    <3> QED  BY <2>1, <3>1, <3>2, <3>3, EnqueueElements
  <2> HIDE DEF n
  <2> QED  BY <2>4, <2>5, <2>6 DEF BarrierInv
<1>3. CASE ClientDestroy
  BY <1>3 DEF ClientDestroy, Destroy, BarrierInv
<1>4. CASE OwnerStep
  <2>1. CASE SynchronizeResume /\ UNCHANGED historyVars
    BY <2>1, BarrierKept
    DEF SynchronizeResume, historyVars, Begun, Ready, Running, AtBarrier
  <2>2. CASE ClientTakeResult \/ ReturnNull \/ AwaitYield \/ JoinThreads
    BY <2>2 DEF ClientTakeResult, TakeResult, ReturnNull, AwaitYield, JoinThreads, BarrierInv
  <2> QED  BY <1>4, <2>1, <2>2 DEF OwnerStep
<1>5. ASSUME NEW w \in Threads, PoolWorkerStep(w)
      PROVE  BarrierInv'
  <2> UNCHANGED historyVars  BY <1>5 DEF PoolWorkerStep
  <2>k. Ready \cup collected \subseteq Ready' \cup collected'
    BY ResultsKept DEF historyVars
  <2>0. CASE preBarrier \subseteq Ready \cup collected
    BY <2>0, <2>k DEF BarrierInv, historyVars
  <2> SUFFICES ASSUME ~(preBarrier \subseteq Ready \cup collected)
               PROVE  BarrierInv'
    BY <2>0
  <2>1. CASE WorkerTake(w)
    <3>1. /\ Len(aTasks') = Len(aTasks) - 1
          /\ \A i \in 1..Len(aTasks') : aTasks'[i] = aTasks[i + 1]
          /\ aTasks[1].eSpecial = "NORMAL"
          /\ stTask' = [stTask EXCEPT ![w] = aTasks[1].oTask]
      BY <2>1, DequeueElements DEF WorkerTake
    <3>2. /\ Running' = Running \cup {aTasks[1].oTask}
          /\ AtBarrier' = AtBarrier
          /\ UNCHANGED <<aResults, collected, preBarrier, dwNumSynchronized, owner>>
      BY <2>1, <3>1 DEF WorkerTake, AtQueue, Running, AtBarrier, Types, historyVars
    <3>3. CASE owner \in {"syncWait", "syncWoken"}
      <4>1. PICK i \in 1..Len(aTasks) :
              /\ aTasks[i].eSpecial = "SYNCHRONIZE"
              /\ dwNumSynchronized <= Cardinality(AtBarrier)
              /\ \A t \in preBarrier :
                   \/ Begun(t)
                   \/ \E j \in 1..(i - 1) :
                        aTasks[j].eSpecial = "NORMAL" /\ aTasks[j].oTask = t
        BY <3>3 DEF BarrierInv
      <4>2. i # 1
        BY <3>1, <4>1
      <4>3. /\ i - 1 \in 1..Len(aTasks') /\ (i - 1) + 1 = i
            /\ aTasks'[i - 1].eSpecial = "SYNCHRONIZE"
        BY <3>1, <4>1, <4>2
      <4>4. ASSUME NEW t \in preBarrier'
            PROVE  \/ Begun(t)'
                   \/ \E j \in 1..((i - 1) - 1) :
                        aTasks'[j].eSpecial = "NORMAL" /\ aTasks'[j].oTask = t
        <5>1. CASE Begun(t)
          BY <3>2, <5>1 DEF Begun, Ready
        <5>2. CASE \E j \in 1..(i - 1) : aTasks[j].eSpecial = "NORMAL" /\ aTasks[j].oTask = t
          <6>1. PICK j \in 1..(i - 1) : aTasks[j].eSpecial = "NORMAL" /\ aTasks[j].oTask = t
            BY <5>2
          <6>2. CASE j = 1
            BY <3>2, <6>1, <6>2 DEF Begun
          <6>3. CASE j # 1
            <7>1. j - 1 \in 1..((i - 1) - 1) /\ j - 1 \in 1..Len(aTasks') /\ (j - 1) + 1 = j
              BY <3>1, <6>3
            <7> QED  BY <3>1, <6>1, <7>1
          <6> QED  BY <6>2, <6>3
        <5> QED  BY <3>2, <4>1, <4>4, <5>1, <5>2
      <4> QED  BY <3>2, <4>1, <4>3, <4>4 DEF BarrierInv
    <3> QED  BY <3>2, <3>3 DEF BarrierInv
  <2>2. CASE WorkerReleaseBarrier(w)
    <3>1. /\ worker[w] \in {"top", "notified"} /\ dwNumSynchronized + 1 = NumThreads
          /\ aTasks[1].eSpecial = "SYNCHRONIZE" /\ Len(aTasks) # 0
          /\ UNCHANGED <<aResults, collected, preBarrier>>
          /\ owner' \in {"syncWait", "syncWoken"} => owner \in {"syncWait", "syncWoken"}
      BY <2>2, DequeueElements DEF WorkerReleaseBarrier, AtQueue, historyVars
    <3>2. CASE owner \in {"syncWait", "syncWoken"}
      <4>1. PICK i \in 1..Len(aTasks) :
              /\ aTasks[i].eSpecial = "SYNCHRONIZE"
              /\ dwNumSynchronized <= Cardinality(AtBarrier)
              /\ \A t \in preBarrier :
                   \/ Begun(t)
                   \/ \E j \in 1..(i - 1) :
                        aTasks[j].eSpecial = "NORMAL" /\ aTasks[j].oTask = t
        BY <3>2 DEF BarrierInv
      <4>2. i = 1
        BY <3>1, <4>1 DEF IInv, OneBarrier
      <4>3. AtBarrier \cup {w} = Threads
        <5>1. w \notin AtBarrier
          BY <3>1 DEF AtBarrier
        <5>2. Cardinality(AtBarrier \cup {w}) = Cardinality(AtBarrier) + 1
          BY <5>1, AtBarrierFinite, FS_AddElement
        <5>3. AtBarrier \cup {w} \subseteq Threads
          BY DEF AtBarrier
        <5>4. Cardinality(AtBarrier \cup {w}) <= NumThreads
          BY <5>3, ThreadsFinite, FS_Subset
        <5>5. Cardinality(AtBarrier \cup {w}) = Cardinality(Threads)
          <6>1. /\ dwNumSynchronized \in Int /\ NumThreads \in Int
                /\ Cardinality(AtBarrier) \in Int /\ Cardinality(Threads) = NumThreads
            BY AtBarrierFinite, ThreadsFinite, NumThreadsAssumption DEF Types
          <6>2. dwNumSynchronized + 1 = NumThreads /\ dwNumSynchronized <= Cardinality(AtBarrier)
            BY <3>1, <4>1
          <6> QED  BY <5>2, <5>4, <6>1, <6>2
        <5> QED  BY <5>3, <5>5, ThreadsFinite, FS_Subset
      <4>4. Running = {}
        BY <3>1, <4>3 DEF Running, AtBarrier
      <4>5. preBarrier \subseteq Ready \cup collected
        BY <4>1, <4>2, <4>4 DEF Begun
      <4> QED  BY <4>5
    <3> QED  BY <3>1, <3>2 DEF BarrierInv
  <2>3. CASE WorkerAwaitBarrier(w)
    <3>1. /\ worker[w] \in {"top", "notified"}
          /\ worker' = [worker EXCEPT ![w] = "syncWait"]
          /\ dwNumSynchronized' = dwNumSynchronized + 1
          /\ UNCHANGED <<aTasks, aResults, collected, preBarrier, stTask, owner>>
      BY <2>3 DEF WorkerAwaitBarrier, AtQueue, historyVars
    <3>2. Running' = Running /\ AtBarrier' = AtBarrier \cup {w} /\ w \notin AtBarrier
      BY <3>1 DEF Running, AtBarrier, Types
    <3>3. Cardinality(AtBarrier') = Cardinality(AtBarrier) + 1
      BY <3>2, AtBarrierFinite, FS_AddElement
    <3>4. dwNumSynchronized <= Cardinality(AtBarrier) => dwNumSynchronized' <= Cardinality(AtBarrier')
      BY <3>1, <3>3, AtBarrierFinite DEF Types
    <3> QED  BY <3>1, <3>2, <3>4 DEF BarrierInv, Begun, Ready
  <2>4. CASE WorkerLeaveBarrier(w)
    <3>1. CASE owner \in {"syncWait", "syncWoken"}
      <4>1. dwNumSynchronized < NumThreads
        BY <3>1 DEF BarrierInv, IInv, OneBarrier
      <4>2. dwNumSynchronized # NumThreads
        BY <4>1, NumThreadsAssumption DEF Types
      <4>3. AtBarrier' = AtBarrier /\ Running' = Running
        BY <2>4, <4>2 DEF WorkerLeaveBarrier, AtBarrier, Running, Types
      <4> QED  BY <2>4, <2>k, <4>3, BarrierKept DEF WorkerLeaveBarrier, Begun, Ready, historyVars
    <3> QED  BY <2>4, <3>1 DEF WorkerLeaveBarrier, BarrierInv
  <2>5. CASE WorkerWait(w) \/ WorkerExit(w) \/ ExecuteReturn(w)
    <3>1. AtBarrier' = AtBarrier /\ Running' = Running
      BY <2>5 DEF WorkerWait, WorkerExit, ExecuteReturn, AtQueue, AtBarrier, Running, Types
    <3>2. UNCHANGED <<aTasks, aResults, collected, preBarrier, dwNumSynchronized>>
      BY <2>5 DEF WorkerWait, WorkerExit, ExecuteReturn, historyVars
    <3>3. owner' \in {"syncWait", "syncWoken"} => owner \in {"syncWait", "syncWoken"}
      BY <2>5 DEF WorkerWait, WorkerExit, ExecuteReturn, WakeOwner
    <3> QED  BY <3>1, <3>2, <3>3, BarrierKept DEF Begun, Ready
  <2>6. CASE YieldResult(w, stTask[w])
    <3>1. AtBarrier' = AtBarrier /\ Running \subseteq Running' \cup {stTask[w]}
      BY <2>6 DEF YieldResult, AtBarrier, Running, Types
    <3>2. stTask[w] \in Ready'
      <4>1. /\ aResults \in Seq(Tasks) /\ stTask[w] \in Tasks
            /\ aResults' = Append(aResults, stTask[w])
        BY <2>6 DEF Types, Holding, YieldResult
      <4>2. Len(aResults) + 1 \in 1..Len(aResults') /\ aResults'[Len(aResults) + 1] = stTask[w]
        BY <4>1
      <4> QED  BY <4>2 DEF Ready
    <3>3. \A t \in Tasks : Begun(t) => Begun(t)'
      BY <2>k, <3>1, <3>2 DEF Begun
    <3>4. UNCHANGED <<aTasks, preBarrier, dwNumSynchronized>>
      BY <2>6 DEF YieldResult, historyVars
    <3>5. owner' \in {"syncWait", "syncWoken"} => owner \in {"syncWait", "syncWoken"}
      BY <2>6 DEF YieldResult, WakeOwner
    <3> QED  BY <2>k, <3>1, <3>3, <3>4, <3>5, BarrierKept
  <2> QED  BY <1>5, <2>1, <2>2, <2>3, <2>4, <2>5, <2>6 DEF PoolWorkerStep, WorkerStep
<1>6. CASE SpuriousWakeup /\ UNCHANGED historyVars
  <2>1. AtBarrier' = AtBarrier /\ Running' = Running
    BY <1>6 DEF SpuriousWakeup, SpuriousOwner, SpuriousWorker, AtBarrier, Running, Types
  <2>2. UNCHANGED <<aTasks, aResults, collected, preBarrier, dwNumSynchronized>>
    BY <1>6 DEF SpuriousWakeup, SpuriousOwner, SpuriousWorker, historyVars
  <2>3. owner' \in {"syncWait", "syncWoken"} => owner \in {"syncWait", "syncWoken"}
    BY <1>6 DEF SpuriousWakeup, SpuriousOwner, SpuriousWorker
  <2> QED  BY <2>1, <2>2, <2>3, BarrierKept DEF Begun, Ready
<1>7. CASE UNCHANGED vars
  BY <1>7 DEF vars, poolVars, historyVars, BarrierInv, Begun, Ready, Running, AtBarrier
<1> QED  BY <1>1, <1>2, <1>3, <1>4, <1>5, <1>6, <1>7
         DEF Next, ClientSubmit, ClientSchedule, ClientScheduleIfResourceAvailable

(***************************************************************************)
(* Synchronize is a barrier: it returns only when every task accepted       *)
(* before the call has yielded its result, for any number of workers and of *)
(* calls, also when tasks are scheduled meanwhile or a wait ends by itself. *)
(***************************************************************************)
THEOREM SynchronizeIsABarrier == SafeSpec => BarrierWaitsForTasks
<1>1. Init => BarrierInv
  BY DEF Init, PoolInit, BarrierInv
<1>2. SafeSpec => []BarrierInv
  BY <1>1, BarrierStep, Invariance, PTL DEF SafeSpec
<1>3. IInv /\ BarrierInv /\ [Next]_vars =>
        [owner = "syncWoken" /\ owner' = "idle" => preBarrier \subseteq Ready \cup collected]_vars
  <2> SUFFICES ASSUME IInv, BarrierInv, Next, owner = "syncWoken", owner' = "idle"
               PROVE  preBarrier \subseteq Ready \cup collected
    BY DEF vars
  <2>1. SynchronizeResume
    BY DEF Next, ClientSubmit, ClientSchedule, ClientScheduleIfResourceAvailable, MaySubmit,
       ClientSynchronize, Synchronize, ClientDestroy, OwnerStep, ClientTakeResult, TakeResult,
       ReturnNull, AwaitYield, JoinThreads, InWaitForResult, PoolWorkerStep, WorkerStep,
       WorkerWait, WorkerTake, WorkerAwaitBarrier, WorkerReleaseBarrier, WorkerLeaveBarrier,
       WorkerExit, ExecuteReturn, YieldResult, WakeOwner, SpuriousWakeup, SpuriousOwner,
       SpuriousWorker
  <2>2. dwNumSynchronized = NumThreads
    BY <2>1 DEF SynchronizeResume
  <2>3. \A i \in 1..Len(aTasks) : aTasks[i].eSpecial # "SYNCHRONIZE"
    BY <2>2, NumThreadsAssumption DEF IInv, OneBarrier
  <2> QED  BY <2>3 DEF BarrierInv
<1> QED  BY <1>2, <1>3, Invariance, PTL DEF SafeSpec, BarrierWaitsForTasks
=============================================================================
