----------------------------- MODULE ThreadPool -----------------------------
(***************************************************************************)
(* ThreadPool.cpp: a fixed number of worker threads, one mutex (q_lock_),  *)
(* one condition variable (q_cond_) and a queue of tasks.  The owner       *)
(* thread runs the constructor, then any number of dispatch() calls, then  *)
(* the destructor, as HttpServer::run and the tests do.                    *)
(*                                                                         *)
(* Granularity: acquiring q_lock_ is a step of its own, and so is each     *)
(* stretch of code between two points at which the thread can block or     *)
(* give up the lock.  The condition variable is the set of workers whose   *)
(* pc is "waiting"; a woken worker has to acquire the mutex again, and     *)
(* pthread_cond_wait may also return without a signal.                     *)
(***************************************************************************)
EXTENDS Naturals, Sequences, FiniteSets

CONSTANTS NumThreads,         \* the constructor's num_threads
          MaxTasks,           \* bound: dispatch() calls
          MaxCreateFailures,  \* bound: pthread_create calls that fail
          Owner,              \* the thread that owns the pool
          Nobody              \* the value of a free q_lock_

Workers == 0 .. NumThreads - 1    \* the indices of thread_array_
Threads == Workers \cup {Owner}
Tasks   == 1 .. MaxTasks          \* task k is the k-th dispatched
NoTask  == 0

ASSUME NumThreadsAssumption == NumThreads \in Nat
ASSUME BoundsAssumption == MaxTasks \in Nat /\ MaxCreateFailures \in Nat
ASSUME ThreadsAssumption == Owner \notin Workers /\ Nobody \notin Threads

VARIABLES
  q_lock_,               \* the thread that holds the mutex, or Nobody
  work_queue_,           \* tasks waiting to be taken
  killthreads_,
  num_threads_running_,
  pc,                    \* where each worker is in thread_loop
  ownerpc,               \* where the owner is
  i,                     \* loop index of the constructor and the destructor
  num_threads,           \* the destructor's copy of num_threads_running_
  nextTask,              \* the task each thread has taken and is executing
  submitted,             \* history: number of tasks dispatched
  taken,                 \* history: the tasks in the order they were popped
  finished               \* history: tasks whose function returned

flags     == <<killthreads_, num_threads_running_>>
ownerVars == <<ownerpc, i, num_threads>>
taskVars  == <<work_queue_, nextTask, submitted, taken, finished>>
vars      == <<q_lock_, flags, pc, ownerVars, taskVars>>

CtorPC  == {"ctor", "spawn", "sleep"}
DtorPC  == {"broadcast", "join", "drain", "drain_run", "destroyed"}
OwnerPC == CtorPC \cup DtorPC \cup {"ready", "dispatch", "kill"}

UpPC     == {"outer", "waiting", "relock", "inner", "run"}
WorkerPC == UpPC \cup {"unborn", "start", "dead"}

Init ==
  /\ q_lock_ = Nobody /\ killthreads_ = FALSE /\ num_threads_running_ = 0
  /\ pc = [w \in Workers |-> "unborn"]
  /\ ownerpc = "ctor" /\ i = 0 /\ num_threads = 0
  /\ work_queue_ = <<>> /\ nextTask = [t \in Threads |-> NoTask]
  /\ submitted = 0 /\ taken = <<>> /\ finished = {}

Acquire(t) == q_lock_ = Nobody /\ q_lock_' = t
Release(t) == q_lock_ = t /\ q_lock_' = Nobody

\* Mutants of PopFront: the newest task is taken; the task stays in the queue.
PopBack(t) ==
  /\ work_queue_ # <<>>
  /\ nextTask' = [nextTask EXCEPT ![t] = work_queue_[Len(work_queue_)]]
  /\ work_queue_' = SubSeq(work_queue_, 1, Len(work_queue_) - 1)
  /\ taken' = Append(taken, nextTask'[t])
  /\ UNCHANGED <<submitted, finished>>

PeekFront(t) ==
  /\ work_queue_ # <<>>
  /\ nextTask' = [nextTask EXCEPT ![t] = Head(work_queue_)]
  /\ UNCHANGED <<work_queue_, submitted, taken, finished>>

\* Pop the front of the queue into thread t's nextTask.
PopFront(t) ==
  /\ work_queue_ # <<>>
  /\ nextTask' = [nextTask EXCEPT ![t] = Head(work_queue_)]
  /\ work_queue_' = Tail(work_queue_)
  /\ taken' = Append(taken, Head(work_queue_))
  /\ UNCHANGED <<submitted, finished>>

\* nextTask->func_(nextTask) returns in thread t.
Return(t) ==
  /\ finished' = finished \cup {nextTask[t]}
  /\ nextTask' = [nextTask EXCEPT ![t] = NoTask]
  /\ UNCHANGED <<work_queue_, submitted, taken>>

-----------------------------------------------------------------------------
\* The constructor.

CtorLock ==
  /\ ownerpc = "ctor" /\ ownerpc' = "spawn"
  /\ Acquire(Owner)
  /\ UNCHANGED <<flags, pc, i, num_threads, taskVars>>

\* Threads whose pthread_create failed.
NotCreated == {w \in Workers : w < i /\ pc[w] = "unborn"}

\* pthread_create's result is ignored: the loop goes on when it fails.
Spawn ==
  /\ ownerpc = "spawn" /\ i < NumThreads
  /\ i' = i + 1
  /\ \/ pc' = [pc EXCEPT ![i] = "start"]
     \/ Cardinality(NotCreated) < MaxCreateFailures /\ UNCHANGED pc
  /\ UNCHANGED <<q_lock_, flags, ownerpc, num_threads, taskVars>>

\* Mutants of AllRunning: the constructor does not wait at all; it does not
\* wait for threads that could not be created.
NotWaitedFor == TRUE
CreatedRunning == num_threads_running_ = NumThreads - Cardinality(NotCreated)

AllRunning == num_threads_running_ = NumThreads

\* Mutant of CountRunning: the lock is not released while the owner sleeps.
CountHoldingLock ==
  /\ ownerpc = "spawn" /\ i = NumThreads
  /\ IF AllRunning THEN ownerpc' = "ready" /\ Release(Owner)
                   ELSE UNCHANGED <<ownerpc, q_lock_>>
  /\ UNCHANGED <<flags, pc, i, num_threads, taskVars>>

\* The while condition, evaluated with the lock held; it is released both to
\* sleep and when the constructor returns.
CountRunning ==
  /\ ownerpc = "spawn" /\ i = NumThreads
  /\ ownerpc' = IF AllRunning THEN "ready" ELSE "sleep"
  /\ Release(Owner)
  /\ UNCHANGED <<flags, pc, i, num_threads, taskVars>>

CtorRelock ==
  /\ ownerpc = "sleep" /\ ownerpc' = "spawn"
  /\ Acquire(Owner)
  /\ UNCHANGED <<flags, pc, i, num_threads, taskVars>>

-----------------------------------------------------------------------------
\* dispatch(): the signal wakes one of the workers that wait, if any does.

DispatchLock ==
  /\ ownerpc = "ready" /\ ownerpc' = "dispatch"
  /\ submitted < MaxTasks
  /\ Acquire(Owner)
  /\ UNCHANGED <<flags, pc, i, num_threads, taskVars>>

Waiting == {w \in Workers : pc[w] = "waiting"}

\* Mutant of CondSignal: the task is queued and nobody is told.
NoSignal == UNCHANGED pc

CondSignal ==
  \/ \E w \in Waiting : pc' = [pc EXCEPT ![w] = "relock"]
  \/ Waiting = {} /\ UNCHANGED pc

\* Mutant of CondBroadcast: the destructor wakes one worker per iteration.
SignalOne == CondSignal

CondBroadcast ==
  pc' = [w \in Workers |-> IF w \in Waiting THEN "relock" ELSE pc[w]]

Dispatch ==
  /\ ownerpc = "dispatch" /\ ownerpc' = "ready"
  /\ work_queue_' = Append(work_queue_, submitted + 1)
  /\ submitted' = submitted + 1
  /\ CondSignal
  /\ Release(Owner)
  /\ UNCHANGED <<flags, i, num_threads, nextTask, taken, finished>>

-----------------------------------------------------------------------------
\* The destructor.

DtorLock ==
  /\ ownerpc = "ready" /\ ownerpc' = "kill"
  /\ Acquire(Owner)
  /\ UNCHANGED <<flags, pc, i, num_threads, taskVars>>

Kill ==
  /\ ownerpc = "kill" /\ ownerpc' = "broadcast"
  /\ num_threads' = num_threads_running_
  /\ killthreads_' = TRUE
  /\ i' = 0
  /\ UNCHANGED <<q_lock_, num_threads_running_, pc, taskVars>>

Broadcast ==
  /\ ownerpc = "broadcast" /\ i < num_threads
  /\ ownerpc' = "join"
  /\ CondBroadcast
  /\ Release(Owner)
  /\ UNCHANGED <<flags, i, num_threads, taskVars>>

\* Mutant of HasExited: a worker that is executing a task is not joined.
ExitedOrBusy(w) == pc[w] \in {"dead", "run"}

HasExited(w) == pc[w] = "dead"

\* pthread_join returns once thread i is dead; the lock is then taken again.
Join ==
  /\ ownerpc = "join" /\ ownerpc' = "broadcast"
  /\ HasExited(i)
  /\ i' = i + 1
  /\ Acquire(Owner)
  /\ UNCHANGED <<flags, pc, num_threads, taskVars>>

JoinedAll ==
  /\ ownerpc = "broadcast" /\ i = num_threads
  /\ ownerpc' = "drain"
  /\ Release(Owner)
  /\ UNCHANGED <<flags, pc, i, num_threads, taskVars>>

\* The remaining work is issued by the owner, without the lock.
DrainTake ==
  /\ ownerpc = "drain" /\ ownerpc' = "drain_run"
  /\ PopFront(Owner)
  /\ UNCHANGED <<q_lock_, flags, pc, i, num_threads>>

DrainReturn ==
  /\ ownerpc = "drain_run" /\ ownerpc' = "drain"
  /\ Return(Owner)
  /\ UNCHANGED <<q_lock_, flags, pc, i, num_threads>>

Drained ==
  /\ ownerpc = "drain" /\ ownerpc' = "destroyed"
  /\ work_queue_ = <<>>
  /\ UNCHANGED <<q_lock_, flags, pc, i, num_threads, taskVars>>

-----------------------------------------------------------------------------
\* thread_loop, in worker w.

Goto(w, from, to) == pc[w] = from /\ pc' = [pc EXCEPT ![w] = to]

Born(w) ==
  /\ Goto(w, "start", "outer")
  /\ Acquire(w)
  /\ num_threads_running_' = num_threads_running_ + 1
  /\ UNCHANGED <<killthreads_, ownerVars, taskVars>>

CondWait(w) ==
  /\ ~killthreads_
  /\ Goto(w, "outer", "waiting")
  /\ Release(w)
  /\ UNCHANGED <<flags, ownerVars, taskVars>>

Exit(w) ==
  /\ killthreads_
  /\ Goto(w, "outer", "dead")
  /\ num_threads_running_' = num_threads_running_ - 1
  /\ Release(w)
  /\ UNCHANGED <<killthreads_, ownerVars, taskVars>>

SpuriousWakeup(w) ==
  /\ Goto(w, "waiting", "relock")
  /\ UNCHANGED <<q_lock_, flags, ownerVars, taskVars>>

\* The mutex is taken again, after the wait or after a task.
Relock(w) ==
  /\ Goto(w, "relock", "inner")
  /\ Acquire(w)
  /\ UNCHANGED <<flags, ownerVars, taskVars>>

\* Mutant of TakeTask: the kill flag is not looked at again.
TakeTaskIgnoringKill(w) ==
  /\ Goto(w, "inner", "run")
  /\ PopFront(w)
  /\ Release(w)
  /\ UNCHANGED <<flags, ownerVars>>

TakeTask(w) ==
  /\ ~killthreads_
  /\ Goto(w, "inner", "run")
  /\ PopFront(w)
  /\ Release(w)
  /\ UNCHANGED <<flags, ownerVars>>

TaskReturns(w) ==
  /\ Goto(w, "run", "relock")
  /\ Return(w)
  /\ UNCHANGED <<q_lock_, flags, ownerVars>>

NoMoreWork(w) ==
  /\ work_queue_ = <<>> \/ killthreads_
  /\ Goto(w, "inner", "outer")
  /\ UNCHANGED <<q_lock_, flags, ownerVars, taskVars>>

-----------------------------------------------------------------------------
Constructor == CtorLock \/ Spawn \/ CountRunning \/ CtorRelock

Destructor == \/ Kill \/ Broadcast \/ Join \/ JoinedAll
              \/ DrainTake \/ DrainReturn \/ Drained

Worker(w) == \/ Born(w) \/ CondWait(w) \/ Exit(w) \/ Relock(w)
             \/ TakeTask(w) \/ TaskReturns(w) \/ NoMoreWork(w)

\* The pool is gone and every thread has ended: nothing else can happen.
Terminated == ownerpc = "destroyed" /\ UNCHANGED vars

Next ==
  \/ Constructor
  \/ DispatchLock \/ Dispatch \/ DtorLock
  \/ Destructor
  \/ \E w \in Workers : Worker(w) \/ SpuriousWakeup(w)
  \/ Terminated

Spec == Init /\ [][Next]_vars

(***************************************************************************)
(* Scheduling: a thread that can run runs, task functions return, and a    *)
(* thread that keeps finding the mutex free gets it (the constructor       *)
(* sleeps between its polls, and the critical sections are finite).        *)
(* Nothing forces the owner to dispatch or to destroy the pool, and        *)
(* nothing forces a spurious wakeup.                                       *)
(***************************************************************************)
Fairness ==
  /\ WF_vars(Constructor) /\ WF_vars(Dispatch) /\ WF_vars(Destructor)
  /\ SF_vars(CtorRelock) /\ SF_vars(Join)
  /\ \A w \in Workers :
       WF_vars(Worker(w)) /\ SF_vars(Born(w)) /\ SF_vars(Relock(w))

FairSpec == Spec /\ Fairness

-----------------------------------------------------------------------------
TypeOK ==
  /\ q_lock_ \in Threads \cup {Nobody}
  /\ work_queue_ \in Seq(Nat)
  /\ killthreads_ \in BOOLEAN
  /\ num_threads_running_ \in Nat
  /\ pc \in [Workers -> WorkerPC]
  /\ ownerpc \in OwnerPC
  /\ i \in 0 .. NumThreads
  /\ num_threads \in Nat
  /\ nextTask \in [Threads -> Nat]
  /\ submitted \in Nat
  /\ taken \in Seq(Nat)
  /\ finished \subseteq Nat

-----------------------------------------------------------------------------
(***************************************************************************)
(* The inductive invariant, one conjunct per idea.                         *)
(***************************************************************************)
InCtor  == ownerpc \in CtorPC
Joining == ownerpc \in {"broadcast", "join"}
Gone    == ownerpc \in {"drain", "drain_run", "destroyed"}

Up        == {w \in Workers : pc[w] \in UpPC}
Executing == {nextTask[t] : t \in Threads} \ {NoTask}
IdleAwake == {w \in Workers : pc[w] \in {"relock", "inner"}}

\* Mutual exclusion: who is inside a critical section holds q_lock_.
LockInv ==
  /\ q_lock_ = Owner <=> ownerpc \in {"spawn", "dispatch", "kill", "broadcast"}
  /\ \A w \in Workers : q_lock_ = w <=> pc[w] \in {"outer", "inner"}
  /\ ownerpc = "dispatch" => submitted < MaxTasks

CountInv == num_threads_running_ = Cardinality(Up)

\* The constructor returns only after every worker announced itself.
CtorInv ==
  /\ InCtor => /\ submitted = 0 /\ work_queue_ = <<>>
               /\ \A w \in Workers : w >= i => pc[w] = "unborn"
  /\ ~InCtor => \A w \in Workers : pc[w] \notin {"unborn", "start"}
  /\ ownerpc = "sleep" => i = NumThreads

\* Workers die only after the flag went up, and then nobody sleeps for ever.
KillInv ==
  /\ killthreads_ <=> ownerpc \in DtorPC
  /\ \A w \in Workers : pc[w] = "dead" => killthreads_
  /\ Joining /\ (ownerpc = "join" \/ i > 0) => Waiting = {}
  /\ Joining \/ Gone => num_threads = NumThreads
  /\ ownerpc = "join" => i < NumThreads
  /\ Joining => \A w \in Workers : w < i => pc[w] = "dead"
  /\ Gone => \A w \in Workers : pc[w] = "dead"

\* Who is executing a task.
RunInv ==
  /\ \A w \in Workers : nextTask[w] # NoTask <=> pc[w] = "run"
  /\ nextTask[Owner] # NoTask <=> ownerpc = "drain_run"

\* The queue continues where the history of taken tasks ends.
OrderInv ==
  /\ submitted = Len(taken) + Len(work_queue_)
  /\ \A k \in 1 .. Len(taken) : taken[k] = k
  /\ \A k \in 1 .. Len(work_queue_) : work_queue_[k] = Len(taken) + k

\* Before a worker goes back to sleep it has seen the queue empty.
SleepInv == \A w \in Workers :
              pc[w] = "outer" /\ ~killthreads_ => work_queue_ = <<>>

-----------------------------------------------------------------------------
(***************************************************************************)
(* Properties.                                                             *)
(***************************************************************************)

\* No wakeup is lost (ThreadPool.cpp:91-96 against 111-127): as long as the
\* pool is not being destroyed, while some worker sleeps on q_cond_ there are
\* at least as many woken idle workers as queued tasks, so no task waits
\* behind a sleeping worker.  The counter and the constructor's wait make it
\* true for the first dispatch, the re-check of the queue for the others.
WorkConserving ==
  ~killthreads_ /\ Waiting # {} => Cardinality(IdleAwake) >= Len(work_queue_)

\* No task is lost, run twice, or run by two threads (thread_loop pops under
\* the lock but runs without it; the destructor pops without the lock): the
\* tasks taken so far are exactly those finished and those being executed.
ExactlyOnce ==
  /\ finished \cup Executing = 1 .. Len(taken)
  /\ \A t, u \in Threads :
       nextTask[t] = nextTask[u] /\ nextTask[t] # NoTask => t = u
  /\ \A t \in Threads : nextTask[t] \notin finished

\* "Empty the task queue, serially issuing any remaining work"
\* (ThreadPool.cpp:82): no worker runs a task while the owner drains the
\* queue, and once the destructor has returned no dispatched task is left
\* (test_threadpool.cpp:55-60 counts them after deleting the pool).
DrainedSerially ==
  /\ Gone => \A w \in Workers : pc[w] = "dead" /\ nextTask[w] = NoTask
  /\ ownerpc = "destroyed" => finished = 1 .. submitted

IInv == /\ TypeOK /\ LockInv /\ CountInv /\ CtorInv /\ KillInv /\ RunInv
        /\ OrderInv /\ SleepInv /\ WorkConserving /\ ExactlyOnce /\ DrainedSerially

\* "The thread pool is ready, and all of the worker threads are initialized
\* and waiting on q_cond_" (ThreadPool.cpp:51-53), when the constructor
\* returns - up to spurious wakeups, and whether or not pthread_create failed.
CtorPostcondition ==
  [][ownerpc = "spawn" /\ ownerpc' = "ready" =>
       \A w \in Workers : pc'[w] \in {"waiting", "relock"}]_vars

\* A worker that notices the kill flag dies without taking another task
\* (ThreadPool.hpp:71-75): after the flag is up only the owner takes tasks.
NoWorkAfterKill ==
  [][killthreads_ /\ taken' # taken => ownerpc' = "drain_run"]_vars

\* The constructor returns, unless a pthread_create failed (ThreadPool.cpp:43-48).
CtorReturns == <>(ownerpc = "ready" \/ NotCreated # {})

\* Every dispatched task is eventually executed, even if the pool is never
\* destroyed.
TasksFinish == \A k \in Tasks : submitted >= k ~> k \in finished

\* A destructor that has started terminates: every worker wakes up and dies.
DtorReturns == ownerpc = "kill" ~> ownerpc = "destroyed"

-----------------------------------------------------------------------------
(***************************************************************************)
(* The pool keeps the promises of TaskPool.                                *)
(***************************************************************************)
phase == CASE InCtor -> "building"
           [] Gone /\ ownerpc # "destroyed" -> "draining"
           [] ownerpc = "destroyed" -> "closed"
           [] OTHER -> "open"

Pool == INSTANCE TaskPool WITH pending <- work_queue_, running <- nextTask

\* Locks, signals and the flag implement the abstract pool's safety...
PoolSpec == Pool!Spec
\* ... and its promise that idle threads take pending tasks and finish them.
PoolFairSpec == Pool!FairSpec
=============================================================================
