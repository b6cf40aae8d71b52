-------------------------- MODULE ThreadPoolProofs --------------------------
(***************************************************************************)
(* Proofs about ThreadPool for any number of threads and of tasks: IInv is *)
(* inductive, hence an invariant; the properties of ThreadPool follow from *)
(* it; and every step of the pool is a step, or a stutter, of TaskPool.    *)
(***************************************************************************)
EXTENDS ThreadPool, FiniteSetTheorems, SequenceTheorems, TLAPS

-----------------------------------------------------------------------------
(***************************************************************************)
(* Sets of workers.                                                        *)
(***************************************************************************)

\* A set of workers is finite, and as large as num_threads only if it holds
\* every worker.
LEMMA WorkerSets ==
  ASSUME NEW S \in SUBSET Workers
  PROVE  /\ IsFiniteSet(S)
         /\ Cardinality(S) \in Nat
         /\ Cardinality(S) = NumThreads <=> S = Workers
<1> USE NumThreadsAssumption DEF Workers
<1>1. IsFiniteSet(Workers) /\ Cardinality(Workers) = NumThreads
  BY FS_Interval
<1> QED
  BY <1>1, FS_Subset, FS_CardinalityType

\* While the owner is past the constructor and has not raised the flag, every
\* worker is up; and the constructor sees them all up when it returns.
LEMMA AllUp ==
  ASSUME IInv
  PROVE  /\ num_threads_running_ = NumThreads => Up = Workers
         /\ ~InCtor /\ ~killthreads_ => num_threads_running_ = NumThreads
<1>1. Up \in SUBSET Workers /\ num_threads_running_ = Cardinality(Up)
  BY DEF IInv, CountInv, Up
<1>2. ~InCtor /\ ~killthreads_ => Up = Workers
  BY DEF IInv, TypeOK, CtorInv, KillInv, Up, UpPC, WorkerPC
<1> QED
  BY <1>1, <1>2, WorkerSets

-----------------------------------------------------------------------------
(***************************************************************************)
(* The queue.                                                              *)
(***************************************************************************)

\* Popping moves task Len(taken)+1 from the head of the queue to the end of
\* the history, and leaves both numbered consecutively.
LEMMA PopFrontEffect ==
  ASSUME IInv, NEW t \in Threads, PopFront(t)
  PROVE  /\ Head(work_queue_) = Len(taken) + 1
         /\ nextTask' = [nextTask EXCEPT ![t] = Len(taken) + 1]
         /\ Len(taken) + 1 \in Nat \ {0}
         /\ work_queue_' \in Seq(Nat) /\ taken' \in Seq(Nat)
         /\ Len(work_queue_') = Len(work_queue_) - 1
         /\ Len(taken') = Len(taken) + 1
         /\ \A k \in 1 .. Len(taken') : taken'[k] = k
         /\ \A k \in 1 .. Len(work_queue_') : work_queue_'[k] = Len(taken') + k
         /\ submitted' = Len(taken') + Len(work_queue_')
<1>1. /\ work_queue_ \in Seq(Nat) /\ taken \in Seq(Nat) /\ work_queue_ # <<>>
      /\ work_queue_' = Tail(work_queue_)
      /\ taken' = Append(taken, Head(work_queue_))
      /\ nextTask' = [nextTask EXCEPT ![t] = Head(work_queue_)]
      /\ submitted' = submitted
  BY DEF IInv, TypeOK, PopFront
<1>2. /\ submitted = Len(taken) + Len(work_queue_)
      /\ \A k \in 1 .. Len(taken) : taken[k] = k
      /\ \A k \in 1 .. Len(work_queue_) : work_queue_[k] = Len(taken) + k
  BY DEF IInv, OrderInv
<1>3. Len(work_queue_) \in Nat \ {0} /\ Len(taken) \in Nat
  BY <1>1, EmptySeq, LenProperties
<1>4. Head(work_queue_) = work_queue_[1]
  BY <1>1
<1>5. Head(work_queue_) = Len(taken) + 1
  BY <1>2, <1>3, <1>4
<1>6. /\ taken' \in Seq(Nat)
      /\ Len(taken') = Len(taken) + 1
      /\ \A k \in 1 .. Len(taken) : taken'[k] = taken[k]
      /\ taken'[Len(taken) + 1] = Len(taken) + 1
  BY <1>1, <1>3, <1>5, AppendProperties
<1>7. /\ work_queue_' \in Seq(Nat)
      /\ Len(work_queue_') = Len(work_queue_) - 1
      /\ \A k \in 1 .. Len(work_queue_') : work_queue_'[k] = work_queue_[k + 1]
  BY <1>1, HeadTailProperties
<1>8. \A k \in 1 .. Len(taken') : taken'[k] = k
  BY <1>2, <1>3, <1>6
<1>9. \A k \in 1 .. Len(work_queue_') : work_queue_'[k] = Len(taken') + k
  BY <1>2, <1>3, <1>6, <1>7
<1>10. submitted' = Len(taken') + Len(work_queue_')
  BY <1>1, <1>2, <1>3, <1>6, <1>7
<1>11. nextTask' = [nextTask EXCEPT ![t] = Len(taken) + 1]
  BY <1>1, <1>5, Zenon
<1>12. Len(taken) + 1 \in Nat \ {0}
  BY <1>3
<1> QED
  BY <1>5, <1>6, <1>7, <1>8, <1>9, <1>10, <1>11, <1>12

\* dispatch() puts the next task at the end of the queue.
LEMMA DispatchEffect ==
  ASSUME IInv, Dispatch
  PROVE  /\ work_queue_' \in Seq(Nat) /\ taken' = taken
         /\ Len(work_queue_') = Len(work_queue_) + 1
         /\ \A k \in 1 .. Len(work_queue_') : work_queue_'[k] = Len(taken') + k
         /\ submitted' = Len(taken') + Len(work_queue_')
<1>1. /\ work_queue_ \in Seq(Nat) /\ taken \in Seq(Nat) /\ taken' = taken
      /\ work_queue_' = Append(work_queue_, submitted + 1)
      /\ submitted' = submitted + 1
  BY DEF IInv, TypeOK, Dispatch
<1>2. /\ submitted = Len(taken) + Len(work_queue_)
      /\ \A k \in 1 .. Len(work_queue_) : work_queue_[k] = Len(taken) + k
  BY DEF IInv, OrderInv
<1>3. Len(work_queue_) \in Nat /\ Len(taken) \in Nat
  BY <1>1, LenProperties
<1>4. /\ work_queue_' \in Seq(Nat)
      /\ Len(work_queue_') = Len(work_queue_) + 1
      /\ \A k \in 1 .. Len(work_queue_) : work_queue_'[k] = work_queue_[k]
      /\ work_queue_'[Len(work_queue_) + 1] = submitted + 1
  BY <1>1, <1>2, <1>3, AppendProperties
<1>5. \A k \in 1 .. Len(work_queue_') : work_queue_'[k] = Len(taken) + k
  <2>1. SUFFICES ASSUME NEW k \in 1 .. Len(work_queue_) + 1
                 PROVE  work_queue_'[k] = Len(taken) + k
    BY <1>4
  <2>2. CASE k = Len(work_queue_) + 1
    BY <2>2, <1>2, <1>3, <1>4
  <2>3. CASE k \in 1 .. Len(work_queue_)
    BY <2>3, <1>2, <1>3, <1>4
  <2> QED
    BY <2>2, <2>3, <1>3
<1>6. submitted' = Len(taken') + Len(work_queue_')
  BY <1>1, <1>2, <1>3, <1>4
<1> QED
  BY <1>1, <1>4, <1>5, <1>6

\* What a step does to the tasks: nothing, a dispatch, a thread that executes
\* none takes one, or a thread returns from the one it executes.
LEMMA TaskMoves ==
  ASSUME IInv, [Next]_vars
  PROVE  \/ UNCHANGED taskVars
         \/ Dispatch
         \/ \E t \in Threads : nextTask[t] = NoTask /\ PopFront(t)
         \/ \E t \in Threads : nextTask[t] # NoTask /\ Return(t)
<1>1. CASE UNCHANGED vars
  BY <1>1 DEF vars
<1>2. CASE Constructor
  BY <1>2 DEF Constructor, CtorLock, Spawn, CountRunning, CtorRelock
<1>3. CASE DispatchLock \/ Dispatch \/ DtorLock \/ Terminated
  BY <1>3 DEF DispatchLock, DtorLock, Terminated, vars
<1>4. CASE Kill \/ Broadcast \/ Join \/ JoinedAll \/ Drained
  BY <1>4 DEF Kill, Broadcast, Join, JoinedAll, Drained
<1>5. CASE DrainTake \/ DrainReturn
  BY <1>5 DEF DrainTake, DrainReturn, IInv, RunInv, Threads
<1>6. ASSUME NEW w \in Workers,
             Born(w) \/ CondWait(w) \/ Exit(w) \/ SpuriousWakeup(w)
               \/ Relock(w) \/ NoMoreWork(w)
      PROVE  UNCHANGED taskVars
  BY <1>6 DEF Born, CondWait, Exit, SpuriousWakeup, Relock, NoMoreWork
<1>7. ASSUME NEW w \in Workers, TakeTask(w) \/ TaskReturns(w)
      PROVE  \E t \in Threads : \/ nextTask[t] = NoTask /\ PopFront(t)
                                \/ nextTask[t] # NoTask /\ Return(t)
  <2>1. w \in Threads /\ (nextTask[w] # NoTask <=> pc[w] = "run")
    BY DEF IInv, RunInv, Threads
  <2> QED
    BY <1>7, <2>1 DEF TakeTask, TaskReturns, Goto
<1> QED
  BY <1>1, <1>2, <1>3, <1>4, <1>5, <1>6, <1>7 DEF Next, Destructor, Worker

-----------------------------------------------------------------------------
(***************************************************************************)
(* Every conjunct of the invariant is preserved.                           *)
(***************************************************************************)

\* Mutual exclusion on q_lock_.
LEMMA LockStep ==
  ASSUME IInv, [Next]_vars
  PROVE  LockInv'
<1> USE NumThreadsAssumption, ThreadsAssumption, BoundsAssumption
<1> USE DEF IInv, TypeOK, Workers, Threads, Acquire, Release, Goto, flags,
            ownerVars, taskVars, LockInv, Waiting, CondSignal, CondBroadcast,
            PopFront, Return
<1>1. CASE CtorLock
  BY <1>1 DEF CtorLock
<1>2. CASE Spawn
  BY <1>2 DEF Spawn
<1>3. CASE CountRunning
  BY <1>3 DEF CountRunning
<1>4. CASE CtorRelock
  BY <1>4 DEF CtorRelock
<1>5. CASE DispatchLock
  BY <1>5 DEF DispatchLock
<1>6. CASE Dispatch
  BY <1>6 DEF Dispatch
<1>7. CASE DtorLock
  BY <1>7 DEF DtorLock
<1>8. CASE Kill
  BY <1>8 DEF Kill
<1>9. CASE Broadcast
  BY <1>9 DEF Broadcast
<1>10. CASE Join
  BY <1>10 DEF Join
<1>11. CASE JoinedAll
  BY <1>11 DEF JoinedAll
<1>12. CASE DrainTake
  BY <1>12 DEF DrainTake
<1>13. CASE DrainReturn
  BY <1>13 DEF DrainReturn
<1>14. CASE Drained
  BY <1>14 DEF Drained
<1>15. ASSUME NEW w \in Workers, Born(w)
      PROVE  LockInv'
  BY <1>15 DEF Born
<1>16. ASSUME NEW w \in Workers, CondWait(w)
      PROVE  LockInv'
  BY <1>16 DEF CondWait
<1>17. ASSUME NEW w \in Workers, Exit(w)
      PROVE  LockInv'
  BY <1>17 DEF Exit
<1>18. ASSUME NEW w \in Workers, SpuriousWakeup(w)
      PROVE  LockInv'
  BY <1>18 DEF SpuriousWakeup
<1>19. ASSUME NEW w \in Workers, Relock(w)
      PROVE  LockInv'
  BY <1>19 DEF Relock
<1>20. ASSUME NEW w \in Workers, TakeTask(w)
      PROVE  LockInv'
  BY <1>20 DEF TakeTask
<1>21. ASSUME NEW w \in Workers, TaskReturns(w)
      PROVE  LockInv'
  BY <1>21 DEF TaskReturns
<1>22. ASSUME NEW w \in Workers, NoMoreWork(w)
      PROVE  LockInv'
  BY <1>22 DEF NoMoreWork
<1>23. CASE UNCHANGED vars
  BY <1>23 DEF vars
<1> QED
  BY <1>1, <1>2, <1>3, <1>4, <1>5, <1>6, <1>7, <1>8, <1>9, <1>10, <1>11,
     <1>12, <1>13, <1>14, <1>15, <1>16, <1>17, <1>18, <1>19, <1>20, <1>21,
     <1>22, <1>23 DEF Next, Constructor, Destructor, Worker, Terminated

\* The constructor: its return needs every worker to have been counted.
LEMMA CtorStep ==
  ASSUME IInv, [Next]_vars
  PROVE  CtorInv'
<1> USE NumThreadsAssumption, ThreadsAssumption, BoundsAssumption
<1> USE DEF IInv, TypeOK, Workers, Threads, Acquire, Release, Goto, flags,
            ownerVars, taskVars, WorkerPC, UpPC, OwnerPC, CtorPC, DtorPC,
            LockInv, CtorInv, InCtor, KillInv, Waiting, CondSignal,
            CondBroadcast, PopFront, Return
<1>1. CASE CtorLock
  BY <1>1 DEF CtorLock
<1>2. CASE Spawn
  BY <1>2 DEF Spawn
<1>3. CASE CountRunning
  BY <1>3, AllUp DEF CountRunning, AllRunning, Up
<1>4. CASE CtorRelock
  BY <1>4 DEF CtorRelock
<1>5. CASE DispatchLock
  BY <1>5 DEF DispatchLock
<1>6. CASE Dispatch
  BY <1>6 DEF Dispatch
<1>7. CASE DtorLock
  BY <1>7 DEF DtorLock
<1>8. CASE Kill
  BY <1>8 DEF Kill
<1>9. CASE Broadcast
  BY <1>9 DEF Broadcast
<1>10. CASE Join
  BY <1>10 DEF Join
<1>11. CASE JoinedAll
  BY <1>11 DEF JoinedAll
<1>12. CASE DrainTake
  BY <1>12 DEF DrainTake
<1>13. CASE DrainReturn
  BY <1>13 DEF DrainReturn
<1>14. CASE Drained
  BY <1>14 DEF Drained
<1>15. ASSUME NEW w \in Workers, Born(w)
      PROVE  CtorInv'
  BY <1>15 DEF Born
<1>16. ASSUME NEW w \in Workers, CondWait(w)
      PROVE  CtorInv'
  BY <1>16 DEF CondWait
<1>17. ASSUME NEW w \in Workers, Exit(w)
      PROVE  CtorInv'
  BY <1>17 DEF Exit
<1>18. ASSUME NEW w \in Workers, SpuriousWakeup(w)
      PROVE  CtorInv'
  BY <1>18 DEF SpuriousWakeup
<1>19. ASSUME NEW w \in Workers, Relock(w)
      PROVE  CtorInv'
  BY <1>19 DEF Relock
<1>20. ASSUME NEW w \in Workers, TakeTask(w)
      PROVE  CtorInv'
  BY <1>20 DEF TakeTask
<1>21. ASSUME NEW w \in Workers, TaskReturns(w)
      PROVE  CtorInv'
  BY <1>21 DEF TaskReturns
<1>22. ASSUME NEW w \in Workers, NoMoreWork(w)
      PROVE  CtorInv'
  BY <1>22 DEF NoMoreWork
<1>23. CASE UNCHANGED vars
  BY <1>23 DEF vars
<1> QED
  BY <1>1, <1>2, <1>3, <1>4, <1>5, <1>6, <1>7, <1>8, <1>9, <1>10, <1>11,
     <1>12, <1>13, <1>14, <1>15, <1>16, <1>17, <1>18, <1>19, <1>20, <1>21,
     <1>22, <1>23 DEF Next, Constructor, Destructor, Worker, Terminated

\* The destructor: who is dead, and that nobody sleeps after a broadcast.
LEMMA KillStep ==
  ASSUME IInv, [Next]_vars
  PROVE  KillInv'
<1> USE NumThreadsAssumption, ThreadsAssumption, BoundsAssumption
<1> USE DEF IInv, TypeOK, Workers, Threads, Acquire, Release, Goto, flags,
            ownerVars, taskVars, WorkerPC, UpPC, OwnerPC, CtorPC, DtorPC,
            LockInv, CtorInv, InCtor, KillInv, Joining, Gone, Waiting,
            CondSignal, CondBroadcast, HasExited
<1>1. CASE CtorLock
  BY <1>1 DEF CtorLock
<1>2. CASE Spawn
  BY <1>2 DEF Spawn
<1>3. CASE CountRunning
  BY <1>3 DEF CountRunning
<1>4. CASE CtorRelock
  BY <1>4 DEF CtorRelock
<1>5. CASE DispatchLock
  BY <1>5 DEF DispatchLock
<1>6. CASE Dispatch
  BY <1>6 DEF Dispatch
<1>7. CASE DtorLock
  BY <1>7 DEF DtorLock
<1>8. CASE Kill
  BY <1>8, AllUp DEF Kill
<1>9. CASE Broadcast
  BY <1>9 DEF Broadcast
<1>10. CASE Join
  BY <1>10 DEF Join
<1>11. CASE JoinedAll
  BY <1>11 DEF JoinedAll
<1>12. CASE DrainTake
  BY <1>12 DEF DrainTake
<1>13. CASE DrainReturn
  BY <1>13 DEF DrainReturn
<1>14. CASE Drained
  BY <1>14 DEF Drained
<1>15. ASSUME NEW w \in Workers, Born(w)
      PROVE  KillInv'
  BY <1>15 DEF Born
<1>16. ASSUME NEW w \in Workers, CondWait(w)
      PROVE  KillInv'
  BY <1>16 DEF CondWait
<1>17. ASSUME NEW w \in Workers, Exit(w)
      PROVE  KillInv'
  BY <1>17 DEF Exit
<1>18. ASSUME NEW w \in Workers, SpuriousWakeup(w)
      PROVE  KillInv'
  BY <1>18 DEF SpuriousWakeup
<1>19. ASSUME NEW w \in Workers, Relock(w)
      PROVE  KillInv'
  BY <1>19 DEF Relock
<1>20. ASSUME NEW w \in Workers, TakeTask(w)
      PROVE  KillInv'
  BY <1>20 DEF TakeTask
<1>21. ASSUME NEW w \in Workers, TaskReturns(w)
      PROVE  KillInv'
  BY <1>21 DEF TaskReturns
<1>22. ASSUME NEW w \in Workers, NoMoreWork(w)
      PROVE  KillInv'
  BY <1>22 DEF NoMoreWork
<1>23. CASE UNCHANGED vars
  BY <1>23 DEF vars
<1> QED
  BY <1>1, <1>2, <1>3, <1>4, <1>5, <1>6, <1>7, <1>8, <1>9, <1>10, <1>11,
     <1>12, <1>13, <1>14, <1>15, <1>16, <1>17, <1>18, <1>19, <1>20, <1>21,
     <1>22, <1>23 DEF Next, Constructor, Destructor, Worker, Terminated

\* A worker about to sleep has seen the queue empty.
LEMMA SleepStep ==
  ASSUME IInv, [Next]_vars
  PROVE  SleepInv'
<1> USE NumThreadsAssumption, ThreadsAssumption, BoundsAssumption
<1> USE DEF IInv, TypeOK, Workers, Threads, Acquire, Release, Goto, flags,
            ownerVars, taskVars, WorkerPC, UpPC, OwnerPC, CtorPC, DtorPC,
            LockInv, SleepInv, CtorInv, InCtor, Waiting, CondSignal,
            CondBroadcast, PopFront, Return
<1>1. CASE CtorLock
  BY <1>1 DEF CtorLock
<1>2. CASE Spawn
  BY <1>2 DEF Spawn
<1>3. CASE CountRunning
  BY <1>3 DEF CountRunning
<1>4. CASE CtorRelock
  BY <1>4 DEF CtorRelock
<1>5. CASE DispatchLock
  BY <1>5 DEF DispatchLock
<1>6. CASE Dispatch
  BY <1>6 DEF Dispatch
<1>7. CASE DtorLock
  BY <1>7 DEF DtorLock
<1>8. CASE Kill
  BY <1>8 DEF Kill
<1>9. CASE Broadcast
  BY <1>9 DEF Broadcast
<1>10. CASE Join
  BY <1>10 DEF Join
<1>11. CASE JoinedAll
  BY <1>11 DEF JoinedAll
<1>12. CASE DrainTake
  BY <1>12 DEF DrainTake
<1>13. CASE DrainReturn
  BY <1>13 DEF DrainReturn
<1>14. CASE Drained
  BY <1>14 DEF Drained
<1>15. ASSUME NEW w \in Workers, Born(w)
      PROVE  SleepInv'
  BY <1>15 DEF Born
<1>16. ASSUME NEW w \in Workers, CondWait(w)
      PROVE  SleepInv'
  BY <1>16 DEF CondWait
<1>17. ASSUME NEW w \in Workers, Exit(w)
      PROVE  SleepInv'
  BY <1>17 DEF Exit
<1>18. ASSUME NEW w \in Workers, SpuriousWakeup(w)
      PROVE  SleepInv'
  BY <1>18 DEF SpuriousWakeup
<1>19. ASSUME NEW w \in Workers, Relock(w)
      PROVE  SleepInv'
  BY <1>19 DEF Relock
<1>20. ASSUME NEW w \in Workers, TakeTask(w)
      PROVE  SleepInv'
  BY <1>20 DEF TakeTask
<1>21. ASSUME NEW w \in Workers, TaskReturns(w)
      PROVE  SleepInv'
  BY <1>21 DEF TaskReturns
<1>22. ASSUME NEW w \in Workers, NoMoreWork(w)
      PROVE  SleepInv'
  BY <1>22 DEF NoMoreWork
<1>23. CASE UNCHANGED vars
  BY <1>23 DEF vars
<1> QED
  BY <1>1, <1>2, <1>3, <1>4, <1>5, <1>6, <1>7, <1>8, <1>9, <1>10, <1>11,
     <1>12, <1>13, <1>14, <1>15, <1>16, <1>17, <1>18, <1>19, <1>20, <1>21,
     <1>22, <1>23 DEF Next, Constructor, Destructor, Worker, Terminated

\* Who executes a task.
LEMMA RunStep ==
  ASSUME IInv, [Next]_vars
  PROVE  RunInv'
<1> USE NumThreadsAssumption, ThreadsAssumption, BoundsAssumption
<1> USE DEF IInv, TypeOK, Workers, Threads, Acquire, Release, Goto, flags,
            ownerVars, taskVars, WorkerPC, UpPC, OwnerPC, CtorPC, DtorPC,
            CtorInv, InCtor, RunInv, NoTask, Waiting, CondSignal,
            CondBroadcast, PopFront, Return
<1>1. CASE CtorLock \/ CtorRelock \/ DispatchLock \/ DtorLock \/ CountRunning
  BY <1>1 DEF CtorLock, CtorRelock, DispatchLock, DtorLock, CountRunning
<1>2. CASE Spawn
  BY <1>2 DEF Spawn
<1>3. CASE Dispatch
  BY <1>3, DispatchEffect DEF Dispatch
<1>4. CASE Kill \/ JoinedAll \/ Drained \/ Join
  BY <1>4 DEF Kill, JoinedAll, Drained, Join
<1>5. CASE Broadcast
  BY <1>5 DEF Broadcast
<1>6. CASE DrainTake
  <2>1. nextTask' = [nextTask EXCEPT ![Owner] = Len(taken) + 1] /\ Len(taken) + 1 # 0
    <3> HIDE DEF IInv, TypeOK, PopFront
    <3> QED
      BY <1>6, PopFrontEffect DEF DrainTake
  <2> HIDE DEF PopFront
  <2> QED
    BY <1>6, <2>1 DEF DrainTake
<1>7. CASE DrainReturn
  BY <1>7 DEF DrainReturn
<1>8. ASSUME NEW w \in Workers, Born(w)
      PROVE  RunInv'
  BY <1>8 DEF Born
<1>9. ASSUME NEW w \in Workers, CondWait(w) \/ SpuriousWakeup(w) \/ Relock(w) \/ NoMoreWork(w)
      PROVE  RunInv'
  BY <1>9 DEF CondWait, SpuriousWakeup, Relock, NoMoreWork
<1>10. ASSUME NEW w \in Workers, Exit(w)
      PROVE  RunInv'
  BY <1>10 DEF Exit
<1>11. ASSUME NEW w \in Workers, TakeTask(w)
      PROVE  RunInv'
  <2>1. nextTask' = [nextTask EXCEPT ![w] = Len(taken) + 1] /\ Len(taken) + 1 # 0
    <3> HIDE DEF IInv, TypeOK, PopFront
    <3> QED
      BY <1>11, PopFrontEffect DEF TakeTask
  <2> HIDE DEF PopFront
  <2> QED
    BY <1>11, <2>1 DEF TakeTask
<1>12. ASSUME NEW w \in Workers, TaskReturns(w)
      PROVE  RunInv'
  BY <1>12 DEF TaskReturns
<1>13. CASE UNCHANGED vars
  BY <1>13 DEF vars
<1> QED
  BY <1>1, <1>2, <1>3, <1>4, <1>5, <1>6, <1>7, <1>8, <1>9, <1>10, <1>11,
     <1>12, <1>13 DEF Next, Constructor, Destructor, Worker, Terminated

\* Tasks are taken in the order of their dispatch.
LEMMA OrderStep ==
  ASSUME IInv, [Next]_vars
  PROVE  OrderInv'
<1>1. CASE UNCHANGED taskVars \/ \E t \in Threads : Return(t)
  BY <1>1 DEF IInv, OrderInv, taskVars, Return
<1>2. CASE Dispatch
  BY <1>2, DispatchEffect DEF IInv, OrderInv
<1>3. CASE \E t \in Threads : PopFront(t)
  BY <1>3, PopFrontEffect DEF OrderInv
<1> QED
  BY <1>1, <1>2, <1>3, TaskMoves

\* A worker joins the workers that are up, or leaves them.
LEMMA CountChange ==
  ASSUME CountInv, NEW w \in Workers
  PROVE  /\ Up' = Up /\ UNCHANGED num_threads_running_ => CountInv'
         /\ w \notin Up /\ Up' = Up \cup {w}
              /\ num_threads_running_' = num_threads_running_ + 1 => CountInv'
         /\ w \in Up /\ Up' = Up \ {w}
              /\ num_threads_running_' = num_threads_running_ - 1 => CountInv'
<1>1. Up \in SUBSET Workers
  BY DEF Up
<1> QED
  BY <1>1, WorkerSets, FS_AddElement, FS_RemoveElement DEF CountInv

\* num_threads_running_ counts the workers that are up.
LEMMA CountStep ==
  ASSUME IInv, [Next]_vars
  PROVE  CountInv'
<1> USE NumThreadsAssumption, CountChange
    DEF IInv, TypeOK, flags, ownerVars, taskVars, Up, UpPC, WorkerPC, Goto
<1>0. CountInv /\ (Up' = Up /\ UNCHANGED num_threads_running_ => CountInv')
  BY DEF CountInv
<1>1. CASE UNCHANGED <<pc, num_threads_running_>>
  BY <1>0, <1>1
<1>2. CASE Spawn
  <2>1. i \in Workers /\ pc[i] = "unborn"
    BY <1>2 DEF Spawn, CtorInv, InCtor, CtorPC, Workers
  <2> QED
    BY <1>0, <1>2, <2>1 DEF Spawn
<1>3. CASE Dispatch
  BY <1>0, <1>3 DEF Dispatch, CondSignal, Waiting
<1>4. CASE Broadcast
  BY <1>0, <1>4 DEF Broadcast, CondBroadcast, Waiting
<1>5. ASSUME NEW w \in Workers, Born(w)
      PROVE  CountInv'
  <2>1. w \notin Up /\ Up' = Up \cup {w}
    BY <1>5 DEF Born
  <2> QED
    BY <1>0, <1>5, <2>1, CountChange DEF Born
<1>6. ASSUME NEW w \in Workers, Exit(w)
      PROVE  CountInv'
  <2>1. w \in Up /\ Up' = Up \ {w}
    BY <1>6 DEF Exit
  <2> QED
    BY <1>0, <1>6, <2>1, CountChange DEF Exit
<1>7. ASSUME NEW w \in Workers,
             CondWait(w) \/ SpuriousWakeup(w) \/ Relock(w) \/ TakeTask(w)
               \/ TaskReturns(w) \/ NoMoreWork(w)
      PROVE  CountInv'
  <2>1. Up' = Up
    BY <1>7 DEF CondWait, SpuriousWakeup, Relock, TakeTask, TaskReturns, NoMoreWork
  <2> QED
    BY <1>0, <1>7, <2>1
       DEF CondWait, SpuriousWakeup, Relock, TakeTask, TaskReturns, NoMoreWork
<1> QED
  BY <1>1, <1>2, <1>3, <1>4, <1>5, <1>6, <1>7
     DEF Next, Constructor, Destructor, Worker, Terminated, vars, CtorLock,
         CountRunning, CtorRelock, DispatchLock, DtorLock, Kill, Join,
         JoinedAll, DrainTake, DrainReturn, Drained
\* The popped task is new: it was neither finished nor being executed.
LEMMA OnceTake ==
  ASSUME IInv, NEW t \in Threads, nextTask[t] = NoTask, PopFront(t)
  PROVE  ExactlyOnce'
<1> DEFINE k == Len(taken) + 1
<1>1. /\ Len(taken) \in Nat /\ Len(taken') = k /\ finished' = finished
      /\ nextTask \in [Threads -> Nat]
      /\ nextTask' = [nextTask EXCEPT ![t] = k]
  BY PopFrontEffect, LenProperties DEF IInv, TypeOK, PopFront
<1>2. /\ finished \cup Executing = 1 .. Len(taken)
      /\ \A u, v \in Threads :
           nextTask[u] = nextTask[v] /\ nextTask[u] # NoTask => u = v
      /\ \A u \in Threads : nextTask[u] \notin finished
  BY DEF IInv, ExactlyOnce
<1>3. Executing' = Executing \cup {k}
  BY <1>1 DEF Executing, NoTask
<1>4. k \notin finished /\ \A u \in Threads : nextTask[u] # k
  BY <1>1, <1>2 DEF Executing, NoTask
<1>5. (finished \cup Executing = 1 .. Len(taken))'
  BY <1>1, <1>2, <1>3
<1>6. \A u, v \in Threads :
        nextTask'[u] = nextTask'[v] /\ nextTask'[u] # NoTask => u = v
  BY <1>1, <1>2, <1>4
<1>7. \A u \in Threads : nextTask'[u] \notin finished'
  BY <1>1, <1>2, <1>4
<1> QED
  BY <1>5, <1>6, <1>7 DEF ExactlyOnce

\* The task that returns was being executed by one thread only.
LEMMA OnceReturn ==
  ASSUME IInv, NEW t \in Threads, nextTask[t] # NoTask, Return(t)
  PROVE  ExactlyOnce'
<1> DEFINE k == nextTask[t]
<1>1. /\ taken' = taken /\ finished' = finished \cup {k}
      /\ nextTask \in [Threads -> Nat]
      /\ nextTask' = [nextTask EXCEPT ![t] = NoTask]
  BY DEF IInv, TypeOK, Return
<1>2. /\ finished \cup Executing = 1 .. Len(taken)
      /\ \A u, v \in Threads :
           nextTask[u] = nextTask[v] /\ nextTask[u] # NoTask => u = v
      /\ \A u \in Threads : nextTask[u] \notin finished
  BY DEF IInv, ExactlyOnce
<1>3. NoTask \notin finished /\ k \in Executing
  BY <1>2, LenProperties DEF Executing, NoTask
<1>4. Executing' = Executing \ {k}
  BY <1>1, <1>2 DEF Executing, NoTask
<1>5. (finished \cup Executing = 1 .. Len(taken))'
  BY <1>1, <1>2, <1>3, <1>4
<1>6. \A u, v \in Threads :
        nextTask'[u] = nextTask'[v] /\ nextTask'[u] # NoTask => u = v
  BY <1>1, <1>2
<1>7. \A u \in Threads : nextTask'[u] \notin finished'
  BY <1>1, <1>2, <1>3
<1> QED
  BY <1>5, <1>6, <1>7 DEF ExactlyOnce

\* No task is lost or executed twice.
LEMMA OnceStep ==
  ASSUME IInv, [Next]_vars
  PROVE  ExactlyOnce'
<1>1. CASE UNCHANGED taskVars \/ Dispatch
  <2>1. UNCHANGED <<nextTask, taken, finished>> /\ ExactlyOnce
    BY <1>1 DEF taskVars, Dispatch, IInv
  <2> QED
    BY <2>1 DEF ExactlyOnce, Executing
<1> QED
  BY <1>1, TaskMoves, OnceTake, OnceReturn
\* Every variable keeps its type; the counter stays a natural number because
\* it is a cardinality.
LEMMA TypeStep ==
  ASSUME IInv, [Next]_vars
  PROVE  TypeOK'
<1>1. num_threads_running_' \in Nat
  BY CountStep, WorkerSets DEF CountInv, Up
<1>2. /\ work_queue_' \in Seq(Nat) /\ taken' \in Seq(Nat)
      /\ finished' \subseteq Nat /\ nextTask' \in [Threads -> Nat]
  <2>1. CASE UNCHANGED taskVars
    BY <2>1 DEF IInv, TypeOK, taskVars
  <2>2. CASE Dispatch
    BY <2>2, DispatchEffect DEF IInv, TypeOK, Dispatch
  <2>3. ASSUME NEW t \in Threads, PopFront(t)
        PROVE  /\ work_queue_' \in Seq(Nat) /\ taken' \in Seq(Nat)
               /\ finished' \subseteq Nat /\ nextTask' \in [Threads -> Nat]
    BY <2>3, PopFrontEffect, LenProperties DEF IInv, TypeOK, PopFront
  <2>4. ASSUME NEW t \in Threads, Return(t)
        PROVE  /\ work_queue_' \in Seq(Nat) /\ taken' \in Seq(Nat)
               /\ finished' \subseteq Nat /\ nextTask' \in [Threads -> Nat]
    BY <2>4 DEF IInv, TypeOK, Return, NoTask
  <2> QED
    BY <2>1, <2>2, <2>3, <2>4, TaskMoves
<1>3. submitted' \in Nat
  <2>1. UNCHANGED submitted \/ submitted' = submitted + 1
    BY TaskMoves DEF taskVars, PopFront, Return, Dispatch
  <2> QED
    BY <2>1 DEF IInv, TypeOK
<1>4. q_lock_' \in Threads \cup {Nobody} /\ killthreads_' \in BOOLEAN
  <2> USE DEF IInv, TypeOK, Acquire, Release, flags, Threads
  <2>1. CASE UNCHANGED vars \/ Terminated
    BY <2>1 DEF Terminated, vars
  <2>2. CASE Constructor \/ DispatchLock \/ Dispatch \/ DtorLock
    BY <2>2 DEF Constructor, CtorLock, Spawn, CountRunning, CtorRelock,
                DispatchLock, Dispatch, DtorLock
  <2>3. CASE Destructor
    BY <2>3 DEF Destructor, Kill, Broadcast, Join, JoinedAll, DrainTake,
                DrainReturn, Drained
  <2>4. ASSUME NEW w \in Workers, Worker(w) \/ SpuriousWakeup(w)
        PROVE  q_lock_' \in Threads \cup {Nobody} /\ killthreads_' \in BOOLEAN
    BY <2>4 DEF Worker, Born, CondWait, Exit, SpuriousWakeup, Relock,
                TakeTask, TaskReturns, NoMoreWork
  <2> QED
    BY <2>1, <2>2, <2>3, <2>4 DEF Next
<1>5. pc' \in [Workers -> WorkerPC]
  <2> USE DEF IInv, TypeOK, WorkerPC, UpPC, Goto
  <2>1. CASE UNCHANGED pc
    BY <2>1
  <2>2. CASE Spawn \/ Dispatch \/ Broadcast
    BY <2>2 DEF Spawn, Dispatch, CondSignal, Broadcast, CondBroadcast
  <2>3. ASSUME NEW w \in Workers, Worker(w) \/ SpuriousWakeup(w)
        PROVE  pc' \in [Workers -> WorkerPC]
    BY <2>3 DEF Worker, Born, CondWait, Exit, SpuriousWakeup, Relock,
                TakeTask, TaskReturns, NoMoreWork
  <2> QED
    BY <2>1, <2>2, <2>3
       DEF Next, Constructor, Destructor, Terminated, vars, CtorLock,
           CountRunning, CtorRelock, DispatchLock, DtorLock, Kill, Join,
           JoinedAll, DrainTake, DrainReturn, Drained
<1>6. ownerpc' \in OwnerPC /\ i' \in 0 .. NumThreads /\ num_threads' \in Nat
  <2> USE NumThreadsAssumption
      DEF IInv, TypeOK, OwnerPC, CtorPC, DtorPC, flags, ownerVars
  <2>1. CASE UNCHANGED ownerVars
    BY <2>1
  <2>2. CASE Constructor \/ DispatchLock \/ Dispatch \/ DtorLock
    BY <2>2 DEF Constructor, CtorLock, Spawn, CountRunning, CtorRelock,
                DispatchLock, Dispatch, DtorLock
  <2>3. CASE Join
    BY <2>3 DEF Join, KillInv
  <2>4. CASE Kill \/ Broadcast \/ JoinedAll \/ DrainTake \/ DrainReturn \/ Drained
    BY <2>4 DEF Kill, Broadcast, JoinedAll, DrainTake, DrainReturn, Drained
  <2>5. ASSUME NEW w \in Workers, Worker(w) \/ SpuriousWakeup(w)
        PROVE  UNCHANGED ownerVars
    BY <2>5 DEF Worker, Born, CondWait, Exit, SpuriousWakeup, Relock,
                TakeTask, TaskReturns, NoMoreWork
  <2> QED
    BY <2>1, <2>2, <2>3, <2>4, <2>5 DEF Next, Destructor, Terminated, vars
<1> QED
  BY <1>1, <1>2, <1>3, <1>4, <1>5, <1>6 DEF TypeOK

\* A worker that wakes or becomes free adds itself to the idle ones, one that
\* takes a task leaves them.
LEMMA IdleChange ==
  ASSUME NEW w \in Workers
  PROVE  /\ Cardinality(IdleAwake) \in Nat
         /\ w \notin IdleAwake /\ IdleAwake' = IdleAwake \cup {w} =>
              Cardinality(IdleAwake') = Cardinality(IdleAwake) + 1
         /\ w \in IdleAwake /\ IdleAwake' = IdleAwake \ {w} =>
              Cardinality(IdleAwake') = Cardinality(IdleAwake) - 1
<1>1. IdleAwake \in SUBSET Workers
  BY DEF IdleAwake
<1> QED
  BY <1>1, WorkerSets, FS_AddElement, FS_RemoveElement

\* No queued task waits behind a sleeping worker: a dispatch wakes a sleeper
\* for the task it adds, a task leaves together with an idle worker, and a
\* worker goes to sleep only when the queue is empty.
LEMMA WorkStep ==
  ASSUME IInv, [Next]_vars
  PROVE  WorkConserving'
<1> SUFFICES ASSUME ~killthreads_', Waiting' # {}
             PROVE  Cardinality(IdleAwake') >= Len(work_queue_')
  BY DEF WorkConserving
<1>0. /\ work_queue_ \in Seq(Nat) /\ Len(work_queue_) \in Nat
      /\ pc \in [Workers -> WorkerPC]
      /\ Waiting # {} /\ ~killthreads_ => Cardinality(IdleAwake) >= Len(work_queue_)
  BY LenProperties DEF IInv, TypeOK, WorkConserving
<1> USE DEF Waiting, IdleAwake, Goto, flags, ownerVars, taskVars
<1>1. CASE UNCHANGED <<pc, work_queue_, killthreads_>>
  BY <1>0, <1>1
<1>2. CASE Spawn
  <2>1. i \in Workers /\ pc[i] = "unborn"
    BY <1>2, NumThreadsAssumption
       DEF IInv, TypeOK, Spawn, CtorInv, InCtor, CtorPC, Workers
  <2>2. Waiting' = Waiting /\ IdleAwake' = IdleAwake
    BY <1>0, <1>2, <2>1 DEF Spawn
  <2> QED
    BY <1>0, <1>2, <2>2 DEF Spawn
<1>3. CASE Dispatch
  <2>1. PICK w \in Waiting : pc' = [pc EXCEPT ![w] = "relock"]
    BY <1>3 DEF Dispatch, CondSignal
  <2>2. w \in Workers /\ w \notin IdleAwake /\ IdleAwake' = IdleAwake \cup {w}
    BY <1>0, <2>1
  <2> QED
    <3>1. Waiting # {} /\ ~killthreads_ /\ Len(work_queue_') = Len(work_queue_) + 1
      BY <1>3, <2>1, DispatchEffect DEF Dispatch
    <3>2. /\ Cardinality(IdleAwake) \in Nat
          /\ Cardinality(IdleAwake') = Cardinality(IdleAwake) + 1
      <4> HIDE DEF IdleAwake, Waiting
      <4> QED
        BY <2>2, IdleChange
    <3> HIDE DEF IdleAwake, Waiting
    <3> QED
      BY <1>0, <2>2, <3>1, <3>2
<1>4. CASE Kill \/ Broadcast
  BY <1>4 DEF Kill, Broadcast, IInv, KillInv, DtorPC
<1>5. CASE DrainTake
  BY <1>5 DEF DrainTake, IInv, KillInv, DtorPC
<1>6. ASSUME NEW w \in Workers, Born(w)
      PROVE  Cardinality(IdleAwake') >= Len(work_queue_')
  <2>1. Waiting' = Waiting /\ IdleAwake' = IdleAwake
    BY <1>0, <1>6 DEF Born
  <2> QED
    BY <1>0, <1>6, <2>1 DEF Born
<1>7. ASSUME NEW w \in Workers, CondWait(w)
      PROVE  Cardinality(IdleAwake') >= Len(work_queue_')
  <2>1. IdleAwake' = IdleAwake /\ work_queue_' = <<>>
    BY <1>0, <1>7 DEF CondWait, IInv, SleepInv
  <2> QED
    BY <2>1, IdleChange
<1>8. ASSUME NEW w \in Workers, Exit(w)
      PROVE  FALSE
  BY <1>8 DEF Exit
<1>9. ASSUME NEW w \in Workers, SpuriousWakeup(w) \/ TaskReturns(w)
      PROVE  Cardinality(IdleAwake') >= Len(work_queue_')
  <2>1. /\ w \notin IdleAwake /\ IdleAwake' = IdleAwake \cup {w}
        /\ Waiting # {}
        /\ UNCHANGED <<work_queue_, killthreads_>>
    BY <1>0, <1>9 DEF SpuriousWakeup, TaskReturns, Return
  <2> QED
    BY <1>0, <2>1, IdleChange
<1>10. ASSUME NEW w \in Workers, Relock(w)
       PROVE  Cardinality(IdleAwake') >= Len(work_queue_')
  <2>1. IdleAwake' = IdleAwake /\ Waiting # {}
    BY <1>0, <1>10 DEF Relock
  <2> QED
    BY <1>0, <1>10, <2>1 DEF Relock
<1>11. ASSUME NEW w \in Workers, TakeTask(w)
       PROVE  Cardinality(IdleAwake') >= Len(work_queue_')
  <2>1. /\ w \in IdleAwake /\ IdleAwake' = IdleAwake \ {w}
        /\ Waiting # {} /\ w \in Threads
    BY <1>0, <1>11 DEF TakeTask, Threads
  <2> QED
    <3>1. ~killthreads_ /\ Len(work_queue_') = Len(work_queue_) - 1
      BY <1>11, <2>1, PopFrontEffect DEF TakeTask
    <3>2. /\ Cardinality(IdleAwake) \in Nat
          /\ Cardinality(IdleAwake') = Cardinality(IdleAwake) - 1
      <4> HIDE DEF IdleAwake, Waiting
      <4> QED
        BY <2>1, IdleChange
    <3> HIDE DEF IdleAwake, Waiting
    <3> QED
      BY <1>0, <2>1, <3>1, <3>2
<1>12. ASSUME NEW w \in Workers, NoMoreWork(w)
       PROVE  Cardinality(IdleAwake') >= Len(work_queue_')
  <2>1. IdleAwake' = IdleAwake \ {w} /\ w \in IdleAwake /\ work_queue_' = <<>>
    BY <1>0, <1>12 DEF NoMoreWork
  <2>2. Cardinality(IdleAwake') \in Nat
    BY WorkerSets
  <2> QED
    BY <2>1, <2>2
<1> QED
  BY <1>1, <1>2, <1>3, <1>4, <1>5, <1>6, <1>7, <1>8, <1>9, <1>10, <1>11, <1>12
     DEF Next, Constructor, Destructor, Worker, Terminated, vars, CtorLock,
         CountRunning, CtorRelock, DispatchLock, DtorLock, Join, JoinedAll,
         DrainReturn, Drained, Return

\* What is left when the destructor drains the queue and when it returns.
LEMMA DrainStep ==
  ASSUME IInv, [Next]_vars
  PROVE  DrainedSerially'
<1>1. Gone' => \A w \in Workers : pc'[w] = "dead" /\ nextTask'[w] = NoTask
  BY KillStep, RunStep DEF KillInv, RunInv
<1>2. ASSUME ownerpc' = "destroyed"
      PROVE  finished' = 1 .. submitted'
  <2>1. CASE ownerpc = "destroyed"
    <3>1. UNCHANGED taskVars
      <4>1. /\ \A w \in Workers : nextTask[w] = NoTask
            /\ nextTask[Owner] = NoTask /\ killthreads_
            /\ \A w \in Workers : pc[w] = "dead"
        BY <2>1 DEF IInv, RunInv, KillInv, DrainedSerially, Gone, DtorPC
      <4> QED
        BY <2>1, <4>1
           DEF Next, Constructor, Destructor, Worker, Terminated, vars, Goto,
               CtorLock, Spawn, CountRunning, CtorRelock, DispatchLock,
               Dispatch, DtorLock, Kill, Broadcast, Join, JoinedAll,
               DrainTake, DrainReturn, Drained, Born, CondWait, Exit,
               SpuriousWakeup, Relock, TakeTask, TaskReturns, NoMoreWork
    <3> QED
      BY <2>1, <3>1 DEF IInv, DrainedSerially, taskVars
  <2>2. CASE Drained
    <3>1. /\ \A w \in Workers : nextTask[w] = NoTask
          /\ nextTask[Owner] = NoTask
          /\ work_queue_ = <<>>
          /\ UNCHANGED taskVars
      BY <2>2 DEF Drained, IInv, RunInv, DrainedSerially, Gone
    <3>2. Executing = {}
      BY <3>1 DEF Executing, Threads
    <3>3. submitted = Len(taken) /\ finished = 1 .. Len(taken)
      BY <3>1, <3>2, LenProperties DEF IInv, TypeOK, OrderInv, ExactlyOnce
    <3> QED
      BY <3>1, <3>3 DEF taskVars
  <2> QED
    BY <1>2, <2>1, <2>2
       DEF Next, Constructor, Destructor, Worker, Terminated, vars, ownerVars,
           CtorLock, Spawn, CountRunning, CtorRelock, DispatchLock, Dispatch,
           DtorLock, Kill, Broadcast, Join, JoinedAll, DrainTake, DrainReturn,
           Born, CondWait, Exit, SpuriousWakeup, Relock, TakeTask,
           TaskReturns, NoMoreWork
<1> QED
  BY <1>1, <1>2 DEF DrainedSerially

-----------------------------------------------------------------------------
(***************************************************************************)
(* The invariant and what follows from it.                                 *)
(***************************************************************************)

\* The invariant holds when the owner enters the constructor.
LEMMA InitIInv == Init => IInv
<1> SUFFICES ASSUME Init PROVE IInv
  OBVIOUS
<1> USE NumThreadsAssumption, ThreadsAssumption, BoundsAssumption DEF Init
<1>1. TypeOK
  <2>1. pc \in [Workers -> WorkerPC] /\ nextTask \in [Threads -> Nat]
    BY DEF WorkerPC, NoTask
  <2>2. work_queue_ \in Seq(Nat) /\ taken \in Seq(Nat)
    BY EmptySeq
  <2>3. q_lock_ \in Threads \cup {Nobody} /\ killthreads_ \in BOOLEAN /\ ownerpc \in OwnerPC
    BY DEF OwnerPC, CtorPC
  <2>4. /\ i \in 0 .. NumThreads /\ num_threads_running_ \in Nat /\ num_threads \in Nat
        /\ submitted \in Nat /\ finished \subseteq Nat
    OBVIOUS
  <2> QED
    BY <2>1, <2>2, <2>3, <2>4 DEF TypeOK
<1>2. LockInv /\ CtorInv /\ KillInv /\ SleepInv
  BY DEF LockInv, CtorInv, KillInv, SleepInv, InCtor, CtorPC, DtorPC, Joining,
         Gone, Threads
<1>3. Up = {} /\ Executing = {} /\ Waiting = {}
  BY DEF Up, UpPC, Executing, Waiting
<1>4. CountInv /\ WorkConserving
  BY <1>3, FS_EmptySet DEF CountInv, WorkConserving
<1>5. RunInv /\ OrderInv
  BY DEF RunInv, OrderInv, Threads, NoTask
<1>6. ExactlyOnce /\ DrainedSerially
  BY <1>3 DEF ExactlyOnce, DrainedSerially, Gone
<1> QED
  BY <1>1, <1>2, <1>4, <1>5, <1>6 DEF IInv

\* The inductive invariant holds in every reachable state, for any number of
\* workers, tasks and failing pthread_create calls: in particular mutual
\* exclusion, the counter, the order of the tasks, that each is executed once,
\* that no wakeup is lost, and what the destructor leaves behind.
THEOREM Invariance == Spec => []IInv
<1>1. IInv /\ [Next]_vars => IInv'
  BY TypeStep, LockStep, CountStep, CtorStep, KillStep, RunStep, OrderStep,
     SleepStep, WorkStep, OnceStep, DrainStep DEF IInv
<1> QED
  BY InitIInv, <1>1, PTL DEF Spec

\* No task waits in the queue behind a worker that sleeps (dispatch() and
\* thread_loop()).
THEOREM NoLostWakeup == Spec => []WorkConserving
<1>1. IInv => WorkConserving
  BY DEF IInv
<1> QED
  BY <1>1, Invariance, PTL

\* Every dispatched task is executed at most once, and exactly once when the
\* destructor has returned.
THEOREM ExecutedOnce == Spec => [](ExactlyOnce /\ DrainedSerially)
<1>1. IInv => ExactlyOnce /\ DrainedSerially
  BY DEF IInv
<1> QED
  BY <1>1, Invariance, PTL

\* When the constructor returns, every worker is waiting on q_cond_ (or has
\* just been woken spuriously), however many pthread_create calls failed.
THEOREM CtorTheorem == Spec => CtorPostcondition
<1>1. ASSUME IInv, [Next]_vars, ownerpc = "spawn", ownerpc' = "ready"
      PROVE  \A w \in Workers : pc'[w] \in {"waiting", "relock"}
  <2>1. CountRunning
    BY <1>1 DEF Next, Constructor, Destructor, Worker, Terminated, vars,
         ownerVars, CtorLock, Spawn, CtorRelock, DispatchLock, Dispatch,
         DtorLock, Kill, Broadcast, Join, JoinedAll, DrainTake, DrainReturn,
         Drained, Born, CondWait, Exit, SpuriousWakeup, Relock, TakeTask,
         TaskReturns, NoMoreWork
  <2>2. Up = Workers /\ pc' = pc /\ q_lock_ = Owner
    BY <1>1, <2>1, AllUp DEF CountRunning, AllRunning, Release
  <2>3. \A w \in Workers : pc[w] \notin {"outer", "inner"}
    BY <1>1, <2>2, ThreadsAssumption DEF IInv, LockInv
  <2>4. \A w \in Workers : nextTask[w] = NoTask
    <3>1. Len(taken) = 0
      BY <1>1, LenProperties DEF IInv, TypeOK, OrderInv, CtorInv, InCtor, CtorPC
    <3> QED
      BY <1>1, <3>1 DEF IInv, ExactlyOnce, Executing, Threads
  <2> QED
    BY <1>1, <2>2, <2>3, <2>4 DEF IInv, RunInv, Up, UpPC
<1> QED
  BY <1>1, Invariance, PTL DEF Spec, CtorPostcondition

\* After the kill flag went up only the owner takes tasks from the queue.
THEOREM KillTheorem == Spec => NoWorkAfterKill
<1>1. ASSUME [Next]_vars, killthreads_, taken' # taken
      PROVE  ownerpc' = "drain_run"
  BY <1>1 DEF Next, Constructor, Destructor, Worker, Terminated, vars,
       taskVars, CtorLock, Spawn, CountRunning, CtorRelock, DispatchLock,
       Dispatch, DtorLock, Kill, Broadcast, Join, JoinedAll, DrainTake,
       DrainReturn, Drained, Born, CondWait, Exit, SpuriousWakeup, Relock,
       TakeTask, TaskReturns, NoMoreWork, Return
<1> QED
  BY <1>1, PTL DEF Spec, NoWorkAfterKill

-----------------------------------------------------------------------------
(***************************************************************************)
(* Refinement: every step of the pool is a step, or a stutter, of TaskPool *)
(***************************************************************************)

\* The phase as a function of where the owner is.
PhaseFacts ==
  /\ ownerpc \in CtorPC <=> phase = "building"
  /\ ownerpc \in {"drain", "drain_run"} <=> phase = "draining"
  /\ ownerpc = "destroyed" <=> phase = "closed"
  /\ ownerpc \in {"ready", "dispatch", "kill", "broadcast", "join"}
       <=> phase = "open"

\* Every value of ownerpc belongs to one phase, in this state and the next.
LEMMA PhaseValues ==
  ASSUME TypeOK, TypeOK'
  PROVE  PhaseFacts /\ PhaseFacts'
<1> USE DEF TypeOK, PhaseFacts, phase, InCtor, Gone, OwnerPC, CtorPC, DtorPC
<1>1. PhaseFacts
  OBVIOUS
<1>2. PhaseFacts'
  OBVIOUS
<1> QED
  BY <1>1, <1>2

\* A thread that takes a task starts it in the abstract pool: a worker while
\* it is open, the owner while it is draining.
LEMMA TakeRefines ==
  ASSUME IInv, IInv',
         \/ DrainTake
         \/ \E w \in Workers : TakeTask(w)
  PROVE  \E t \in Threads : Pool!Start(t)
<1> USE DEF IInv, Pool!Start, Pool!NoTask, NoTask, PopFront, phase, Gone,
            InCtor
<1>1. CASE DrainTake
  <2>1. Pool!Start(Owner)
    BY <1>1 DEF DrainTake, RunInv
  <2> QED
    BY <2>1 DEF Threads
<1>2. ASSUME NEW w \in Workers, TakeTask(w)
      PROVE  \E t \in Threads : Pool!Start(t)
  <2>1. ~InCtor /\ ownerpc \notin DtorPC /\ ownerpc' = ownerpc
    BY <1>2 DEF TakeTask, CtorInv, KillInv, ownerVars
  <2>2. phase = "open" /\ phase' = phase
    BY <2>1 DEF TypeOK, OwnerPC, CtorPC, DtorPC
  <2>3. nextTask[w] = NoTask /\ w # Owner
    BY <1>2, ThreadsAssumption DEF TakeTask, Goto, RunInv
  <2>4. Pool!Start(w)
    BY <1>2, <2>2, <2>3 DEF TakeTask
  <2> QED
    BY <2>4 DEF Threads
<1> QED
  BY <1>1, <1>2

\* Every step of the implementation is a step or a stutter of the promise.
LEMMA StepRefines ==
  ASSUME IInv, IInv', [Next]_vars
  PROVE  [Pool!Next]_(Pool!vars)
<1> USE DEF flags, ownerVars, taskVars
<1>0. /\ PhaseFacts /\ PhaseFacts'
      /\ ownerpc' = ownerpc => phase' = phase
      /\ UNCHANGED taskVars /\ phase' = phase => UNCHANGED Pool!vars
  BY PhaseValues DEF IInv, phase, InCtor, Gone, Pool!vars
<1>1. CASE UNCHANGED vars \/ Terminated
  BY <1>0, <1>1 DEF vars, Terminated
<1>2. CASE CtorLock \/ Spawn \/ CtorRelock
  <2>1. phase' = phase /\ UNCHANGED taskVars
    BY <1>0, <1>2 DEF CtorLock, Spawn, CtorRelock, CtorPC, PhaseFacts
  <2> QED
    BY <1>0, <2>1
<1>3. CASE CountRunning
  <2>1. UNCHANGED taskVars /\ phase = "building" /\ phase' \in {"building", "open"}
    BY <1>0, <1>3 DEF CountRunning, CtorPC, PhaseFacts
  <2> QED
    BY <1>0, <2>1 DEF Pool!Next, Pool!Open
<1>4. CASE Dispatch
  <2>1. phase = "open" /\ phase' = "open" /\ submitted < MaxTasks
    BY <1>0, <1>4 DEF Dispatch, PhaseFacts, IInv, LockInv
  <2> QED
    BY <1>4, <2>1 DEF Dispatch, Pool!Next, Pool!Submit
<1>5. CASE DispatchLock \/ DtorLock \/ Kill \/ Broadcast \/ Join
  <2>1. phase' = phase /\ UNCHANGED taskVars
    BY <1>0, <1>5 DEF DispatchLock, DtorLock, Kill, Broadcast, Join, PhaseFacts
  <2> QED
    BY <1>0, <2>1
<1>6. CASE JoinedAll
  <2>1. phase = "open" /\ phase' = "draining" /\ UNCHANGED taskVars
    BY <1>0, <1>6 DEF JoinedAll, PhaseFacts
  <2>2. \A t \in Threads : nextTask'[t] = NoTask
    BY <1>6 DEF JoinedAll, IInv, RunInv, DrainedSerially, Gone, Threads
  <2> QED
    BY <2>1, <2>2 DEF Pool!Next, Pool!Drain, Pool!Slots, Threads, NoTask, Pool!NoTask
<1>7. CASE Drained
  <2>1. phase = "draining" /\ phase' = "closed" /\ UNCHANGED taskVars
    BY <1>0, <1>7 DEF Drained, PhaseFacts
  <2>2. nextTask[Owner] = NoTask /\ work_queue_ = <<>>
    BY <1>7 DEF Drained, IInv, RunInv
  <2> QED
    BY <2>1, <2>2 DEF Pool!Next, Pool!Close, NoTask, Pool!NoTask
<1>8. CASE DrainTake \/ \E w \in Workers : TakeTask(w)
  BY <1>8, TakeRefines DEF Pool!Next, Pool!Slots, Threads
<1>9. CASE DrainReturn
  <2>1. nextTask[Owner] # NoTask /\ phase' = phase
    BY <1>0, <1>9 DEF DrainReturn, PhaseFacts, IInv, RunInv
  <2>2. Pool!Finish(Owner)
    BY <1>9, <2>1 DEF DrainReturn, Return, Pool!Finish, NoTask, Pool!NoTask
  <2> QED
    BY <2>2 DEF Pool!Next, Pool!Slots
<1>10. ASSUME NEW w \in Workers, TaskReturns(w)
       PROVE  Pool!Next
  <2>1. nextTask[w] # NoTask /\ phase' = phase
    BY <1>0, <1>10 DEF TaskReturns, Goto, IInv, RunInv
  <2>2. Pool!Finish(w)
    BY <1>10, <2>1 DEF TaskReturns, Return, Pool!Finish, NoTask, Pool!NoTask
  <2> QED
    BY <2>2 DEF Pool!Next, Pool!Slots
<1>11. ASSUME NEW w \in Workers,
              Born(w) \/ CondWait(w) \/ Exit(w) \/ SpuriousWakeup(w)
                \/ Relock(w) \/ NoMoreWork(w)
       PROVE  UNCHANGED Pool!vars
  BY <1>0, <1>11
     DEF Born, CondWait, Exit, SpuriousWakeup, Relock, NoMoreWork
<1> QED
  BY <1>1, <1>2, <1>3, <1>4, <1>5, <1>6, <1>7, <1>8, <1>9, <1>10, <1>11
     DEF Next, Constructor, Destructor, Worker

\* The pool of threads, locks and signals implements the abstract pool: tasks
\* start in order on idle threads, what is left is drained serially after
\* every worker went idle, and the pool closes when nothing is left.
THEOREM Refinement == Spec => PoolSpec
<1>1. ASSUME Init
      PROVE  Pool!Init
  <2>1. phase = "building"
    BY <1>1 DEF Init, phase, InCtor, CtorPC, Gone
  <2> QED
    BY <1>1, <2>1 DEF Init, Pool!Init, Threads, Pool!Slots, NoTask, Pool!NoTask
<1>2. IInv /\ IInv' /\ [Next]_vars => [Pool!Next]_(Pool!vars)
  BY StepRefines
<1> QED
  BY <1>1, <1>2, Invariance, PTL DEF Spec, PoolSpec, Pool!Spec

=============================================================================
