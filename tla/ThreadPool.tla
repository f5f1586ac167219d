----------------------------- MODULE ThreadPool -----------------------------
(***************************************************************************)
(* ThreadPoolImpl (ThreadPool.hpp, ThreadPool.cpp): a queue of tasks served *)
(* by dwNumThreads workers, a queue of results, and the thread that owns    *)
(* the pool and collects the results.                                       *)
(*                                                                          *)
(* Every access to the pool's state happens under stMutex, and a condition  *)
(* variable releases stMutex only while it waits.  A critical section is    *)
(* therefore one action, from taking the mutex (on entry, or on leaving a   *)
(* wait) to releasing it (on return, or on entering a wait).  A notified    *)
(* thread is not running yet: other threads may take the mutex before it.   *)
(* Condition variables may also wake up spuriously.                         *)
(*                                                                          *)
(* The module has the pool's operations and the workers; who calls them,    *)
(* with which tasks, is left to the modules that extend it.                 *)
(***************************************************************************)
EXTENDS Integers, Sequences, FiniteSets

CONSTANTS NumThreads,   \* dwNumThreads
          Tasks,        \* the task objects that may be scheduled
          Results,      \* the result objects that a task may yield
          NULL          \* no task

ASSUME NumThreadsAssumption == NumThreads \in Nat \ {0}
ASSUME NullAssumption == NULL \notin Tasks

VARIABLES
  aTasks,            \* the task queue: records with an eSpecial tag
  aResults,          \* the yielded results that were not collected yet
  dwNumActive,       \* the number of workers that do not wait for a task
  dwNumSynchronized, \* the number of workers that have reached the barrier
  worker,            \* where each thread of aThreads is in Worker()
  stTask,            \* the task each worker holds a reference to
  owner              \* where the thread that owns the pool is in its calls

poolVars == <<aTasks, aResults, dwNumActive, dwNumSynchronized, worker,
              stTask, owner>>

Threads == 1..NumThreads

(***************************************************************************)
(* task_t: a normal task carries a task object, the two special ones only   *)
(* their tag.                                                               *)
(***************************************************************************)
NormalTask(t) == [eSpecial |-> "NORMAL", oTask |-> t]
SpecialTask(tag) == [eSpecial |-> tag, oTask |-> NULL]
TaskRecords == [eSpecial : {"NORMAL"}, oTask : Tasks] \cup
               [eSpecial : {"SYNCHRONIZE", "EXIT"}, oTask : {NULL}]

(***************************************************************************)
(* "unborn" before InitThreads; "top" at the head of the loop of Worker;    *)
(* "waiting" in stCondition.wait and "notified" when that wait is over but  *)
(* the mutex not yet taken; "syncWait" and "syncNotified" the same for      *)
(* stSynchronize; "executing" a task; "finished" when the task has yielded  *)
(* its result but has not returned; "exited" out of the loop.               *)
(***************************************************************************)
WorkerStates == {"unborn", "top", "waiting", "notified", "syncWait",
                 "syncNotified", "executing", "finished", "exited"}

(***************************************************************************)
(* "idle" outside the pool; in WaitForResult: "yieldWait", "yieldWoken",    *)
(* and "null" once it has returned nullptr; in Synchronize: "syncWait",     *)
(* "syncWoken"; in the destructor: "joining", and "destroyed" after it.     *)
(***************************************************************************)
OwnerStates == {"idle", "yieldWait", "yieldWoken", "null", "syncWait",
                "syncWoken", "joining", "destroyed"}

PoolInit ==
  /\ aTasks = <<>>
  /\ aResults = <<>>
  /\ dwNumActive = 0
  /\ dwNumSynchronized = 0 \* not set by the constructor, but never read
                           \* before Synchronize sets it
  /\ worker = [w \in Threads |-> "unborn"]
  /\ stTask = [w \in Threads |-> NULL]
  /\ owner = "idle"

-----------------------------------------------------------------------------
(* Condition variables *)

Started == \E w \in Threads : worker[w] # "unborn"

Waiters == {w \in Threads : worker[w] = "waiting"}

\* Mutant of NotifyOne: Schedule does not notify
NotifyNobody == UNCHANGED worker

\* stCondition.notify_one()
NotifyOne ==
  \/ /\ Waiters = {}
     /\ UNCHANGED worker
  \/ \E w \in Waiters : worker' = [worker EXCEPT ![w] = "notified"]

\* stCondition.notify_all()
WakeAllWaiters ==
  worker' = [w \in Threads |->
               IF worker[w] = "waiting" THEN "notified" ELSE worker[w]]

\* stYield.notify_all(): only the owner ever waits on stYield
WakeOwner == owner' = IF owner = "yieldWait" THEN "yieldWoken" ELSE owner

-----------------------------------------------------------------------------
(* The task queue *)

\* Mutant of Enqueue: the task is inserted at aTasks.begin()
EnqueueFirst(task) == aTasks' = <<task>> \o aTasks

Enqueue(task) == aTasks' = Append(aTasks, task)

\* Mutant of Dequeue: no pop_front
Peek == UNCHANGED aTasks

Dequeue == aTasks' = Tail(aTasks)

-----------------------------------------------------------------------------
(* Operations *)

(***************************************************************************)
(* InitThreads starts the workers on the first call that schedules: all     *)
(* count as active before they have run.                                    *)
(***************************************************************************)
StartThreads ==
  /\ ~Started
  /\ worker' = [w \in Threads |-> "top"]
  /\ dwNumActive' = NumThreads

(***************************************************************************)
(* Schedule: append the task and wake one waiting worker, if any.  The      *)
(* first call starts the threads, and then none of them waits yet.          *)
(***************************************************************************)
Schedule(t) ==
  /\ StartThreads \/ (Started /\ NotifyOne /\ UNCHANGED dwNumActive)
  /\ Enqueue(NormalTask(t))
  /\ UNCHANGED <<aResults, dwNumSynchronized, stTask>>

(***************************************************************************)
(* ScheduleIfResourceAvailable: append the task only while fewer tasks than *)
(* threads are queued.  It notifies nobody.                                 *)
(***************************************************************************)
ScheduleIfResourceAvailable(t, scheduled) ==
  /\ StartThreads \/ (Started /\ UNCHANGED <<worker, dwNumActive>>)
  /\ scheduled = (Len(aTasks) < NumThreads)
  /\ IF scheduled THEN Enqueue(NormalTask(t)) ELSE UNCHANGED aTasks
  /\ UNCHANGED <<aResults, dwNumSynchronized, stTask>>

(***************************************************************************)
(* WaitForResult, entered by the call or on leaving stYield.wait: return    *)
(* the first result; or nullptr when there is none, no worker is active and *)
(* no task is queued; or wait.                                              *)
(***************************************************************************)
InWaitForResult == owner \in {"idle", "yieldWoken"}

\* Mutant of NothingLeft: workers that execute a task are forgotten
NothingQueued == aTasks = <<>>

NothingLeft == dwNumActive = 0 /\ aTasks = <<>>

TakeResult(r) ==
  /\ InWaitForResult
  /\ aResults # <<>>
  /\ r = Head(aResults)
  /\ aResults' = Tail(aResults)
  /\ owner' = "idle"
  /\ UNCHANGED <<aTasks, dwNumActive, dwNumSynchronized, worker, stTask>>

ReturnNull ==
  /\ InWaitForResult
  /\ aResults = <<>>
  /\ NothingLeft
  /\ owner' = "null"
  /\ UNCHANGED <<aTasks, aResults, dwNumActive, dwNumSynchronized, worker,
                 stTask>>

AwaitYield ==
  /\ InWaitForResult
  /\ aResults = <<>>
  /\ ~NothingLeft
  /\ owner' = "yieldWait"
  /\ UNCHANGED <<aTasks, aResults, dwNumActive, dwNumSynchronized, worker,
                 stTask>>

(***************************************************************************)
(* Synchronize: queue a barrier task and wait until every worker is at it.  *)
(***************************************************************************)
Synchronize ==
  /\ owner = "idle"
  /\ dwNumSynchronized' = 0
  /\ Enqueue(SpecialTask("SYNCHRONIZE"))
  /\ WakeAllWaiters
  /\ owner' = "syncWait"
  /\ UNCHANGED <<aResults, dwNumActive, stTask>>

SynchronizeResume ==
  /\ owner = "syncWoken"
  /\ owner' = IF dwNumSynchronized = NumThreads THEN "idle" ELSE "syncWait"
  /\ UNCHANGED <<aTasks, aResults, dwNumActive, dwNumSynchronized, worker,
                 stTask>>

(***************************************************************************)
(* The destructor: queue the exit task, which no worker removes, and join   *)
(* the threads, if they were ever started.                                  *)
(***************************************************************************)
Destroy ==
  /\ Enqueue(SpecialTask("EXIT"))
  /\ WakeAllWaiters
  /\ owner' = IF Started THEN "joining" ELSE "destroyed"
  /\ UNCHANGED <<aResults, dwNumActive, dwNumSynchronized, stTask>>

JoinThreads ==
  /\ owner = "joining"
  /\ \A w \in Threads : worker[w] = "exited"
  /\ owner' = "destroyed"
  /\ UNCHANGED <<aTasks, aResults, dwNumActive, dwNumSynchronized, worker,
                 stTask>>

-----------------------------------------------------------------------------
(* Worker *)

AtQueue(w) == worker[w] \in {"top", "notified"}

\* Mutant of ActiveOnEntry: no dwNumActive++ after the wait
ActiveNotRestored(w) == dwNumActive

\* dwNumActive once a worker that left stCondition.wait has counted itself
ActiveOnEntry(w) == dwNumActive + (IF worker[w] = "notified" THEN 1 ELSE 0)

WorkerWait(w) ==
  /\ AtQueue(w)
  /\ aTasks = <<>>
  /\ dwNumActive' = ActiveOnEntry(w) - 1
  /\ IF dwNumActive' = 0 THEN WakeOwner ELSE UNCHANGED owner
  /\ worker' = [worker EXCEPT ![w] = "waiting"]
  /\ UNCHANGED <<aTasks, aResults, dwNumSynchronized, stTask>>

WorkerTake(w) ==
  /\ AtQueue(w)
  /\ aTasks # <<>>
  /\ Head(aTasks).eSpecial = "NORMAL"
  /\ dwNumActive' = ActiveOnEntry(w)
  /\ stTask' = [stTask EXCEPT ![w] = Head(aTasks).oTask]
  /\ Dequeue
  /\ worker' = [worker EXCEPT ![w] = "executing"]
  /\ UNCHANGED <<aResults, dwNumSynchronized, owner>>

\* a worker that is not the last one to reach the barrier
WorkerAwaitBarrier(w) ==
  /\ AtQueue(w)
  /\ aTasks # <<>>
  /\ Head(aTasks).eSpecial = "SYNCHRONIZE"
  /\ dwNumSynchronized + 1 # NumThreads
  /\ dwNumActive' = ActiveOnEntry(w)
  /\ dwNumSynchronized' = dwNumSynchronized + 1
  /\ worker' = [worker EXCEPT ![w] = "syncWait"]
  /\ UNCHANGED <<aTasks, aResults, stTask, owner>>

\* the last one: it wakes the others and the owner and removes the barrier
WorkerReleaseBarrier(w) ==
  /\ AtQueue(w)
  /\ aTasks # <<>>
  /\ Head(aTasks).eSpecial = "SYNCHRONIZE"
  /\ dwNumSynchronized + 1 = NumThreads
  /\ dwNumActive' = ActiveOnEntry(w)
  /\ dwNumSynchronized' = NumThreads
  /\ Dequeue
  /\ worker' = [v \in Threads |->
                  IF v = w THEN "top"
                  ELSE IF worker[v] = "syncWait" THEN "syncNotified"
                  ELSE worker[v]]
  /\ owner' = IF owner = "syncWait" THEN "syncWoken" ELSE owner
  /\ UNCHANGED <<aResults, stTask>>

WorkerLeaveBarrier(w) ==
  /\ worker[w] = "syncNotified"
  /\ worker' = [worker EXCEPT ![w] =
                  IF dwNumSynchronized = NumThreads THEN "top" ELSE "syncWait"]
  /\ UNCHANGED <<aTasks, aResults, dwNumActive, dwNumSynchronized, stTask,
                 owner>>

WorkerExit(w) ==
  /\ AtQueue(w)
  /\ aTasks # <<>>
  /\ Head(aTasks).eSpecial = "EXIT"
  /\ dwNumActive' = ActiveOnEntry(w)
  /\ worker' = [worker EXCEPT ![w] = "exited"]
  /\ UNCHANGED <<aTasks, aResults, dwNumSynchronized, stTask, owner>>

\* a task yields its result: YieldResult, called by Execute
YieldResult(w, r) ==
  /\ worker[w] = "executing"
  /\ aResults' = Append(aResults, r)
  /\ WakeOwner
  /\ worker' = [worker EXCEPT ![w] = "finished"]
  /\ UNCHANGED <<aTasks, dwNumActive, dwNumSynchronized, stTask>>

\* Execute returns; the worker's stTask goes out of scope with its reference
ExecuteReturn(w) ==
  /\ worker[w] = "finished"
  /\ worker' = [worker EXCEPT ![w] = "top"]
  /\ stTask' = [stTask EXCEPT ![w] = NULL]
  /\ UNCHANGED <<aTasks, aResults, dwNumActive, dwNumSynchronized, owner>>

WorkerStep(w) ==
  \/ WorkerWait(w)
  \/ WorkerTake(w)
  \/ WorkerAwaitBarrier(w)
  \/ WorkerReleaseBarrier(w)
  \/ WorkerLeaveBarrier(w)
  \/ WorkerExit(w)
  \/ ExecuteReturn(w)

(***************************************************************************)
(* std::condition_variable::wait may return without a notification; every   *)
(* wait of the pool is in a loop that tests its condition again.            *)
(***************************************************************************)
SpuriousWorker(w) ==
  /\ worker[w] \in {"waiting", "syncWait"}
  /\ worker' = [worker EXCEPT ![w] =
                  IF @ = "waiting" THEN "notified" ELSE "syncNotified"]
  /\ UNCHANGED <<aTasks, aResults, dwNumActive, dwNumSynchronized, stTask,
                 owner>>

SpuriousOwner ==
  /\ owner \in {"yieldWait", "syncWait"}
  /\ owner' = IF owner = "yieldWait" THEN "yieldWoken" ELSE "syncWoken"
  /\ UNCHANGED <<aTasks, aResults, dwNumActive, dwNumSynchronized, worker,
                 stTask>>

SpuriousWakeup == SpuriousOwner \/ \E w \in Threads : SpuriousWorker(w)

-----------------------------------------------------------------------------
(* Invariants of the pool itself *)

PoolTypeOK ==
  /\ aTasks \in Seq(TaskRecords)
  /\ aResults \in Seq(Results)
  /\ dwNumActive \in 0..NumThreads
  /\ dwNumSynchronized \in 0..NumThreads
  /\ worker \in [Threads -> WorkerStates]
  /\ stTask \in [Threads -> Tasks \cup {NULL}]
  /\ owner \in OwnerStates

Awake == {w \in Threads :
            worker[w] \notin {"unborn", "waiting", "notified"}}

(***************************************************************************)
(* dwNumActive, decremented and incremented around stCondition.wait, is the *)
(* number of workers that are started and out of that wait.                 *)
(***************************************************************************)
ActiveIsAwake == dwNumActive = Cardinality(Awake)
=============================================================================
