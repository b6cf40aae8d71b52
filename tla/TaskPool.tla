------------------------------ MODULE TaskPool ------------------------------
(***************************************************************************)
(* What a pool of threads promises its customer, without locks, condition  *)
(* variables or a loop: tasks are started in the order they were           *)
(* submitted, each exactly once, on an idle thread; whatever is left when  *)
(* the pool is being destroyed is run serially by the destroying thread    *)
(* after every worker went idle; and the pool is gone only when every      *)
(* submitted task has finished.  Task number k is the k-th submitted one.  *)
(***************************************************************************)
EXTENDS Naturals, Sequences

CONSTANTS Workers,   \* the worker threads
          Owner,     \* the thread that constructs and destroys the pool
          MaxTasks   \* bound: how many tasks are ever submitted

NoTask == 0
Slots  == Workers \cup {Owner}

VARIABLES phase,      \* "building", "open", "draining" or "closed"
          submitted,  \* how many tasks were submitted
          pending,    \* the submitted tasks nobody has started
          running,    \* the task each thread is executing, or NoTask
          finished    \* the tasks that were executed to their end

vars == <<phase, submitted, pending, running, finished>>

Init ==
  /\ phase = "building"
  /\ submitted = 0
  /\ pending = <<>>
  /\ running = [s \in Slots |-> NoTask]
  /\ finished = {}

Open ==
  /\ phase = "building"
  /\ phase' = "open"
  /\ UNCHANGED <<submitted, pending, running, finished>>

Submit ==
  /\ phase = "open"
  /\ submitted < MaxTasks
  /\ submitted' = submitted + 1
  /\ pending' = Append(pending, submitted + 1)
  /\ UNCHANGED <<phase, running, finished>>

\* Mutant: the task stays in the queue.
StartAgain(s) ==
  /\ IF s = Owner THEN phase = "draining" ELSE phase = "open"
  /\ pending # <<>> /\ running[s] = NoTask
  /\ running' = [running EXCEPT ![s] = Head(pending)]
  /\ UNCHANGED <<phase, submitted, pending, finished>>

\* Mutant: the destroying thread waits for the queue to empty by itself.
StartWorkersOnly(s) ==
  /\ s # Owner /\ phase = "open"
  /\ pending # <<>> /\ running[s] = NoTask
  /\ running' = [running EXCEPT ![s] = Head(pending)]
  /\ pending' = Tail(pending)
  /\ UNCHANGED <<phase, submitted, finished>>

\* Workers start tasks while the pool is open, the owner only while draining.
Start(s) ==
  /\ IF s = Owner THEN phase = "draining" ELSE phase = "open"
  /\ pending # <<>>
  /\ running[s] = NoTask
  /\ running' = [running EXCEPT ![s] = Head(pending)]
  /\ pending' = Tail(pending)
  /\ UNCHANGED <<phase, submitted, finished>>

Finish(s) ==
  /\ running[s] # NoTask
  /\ finished' = finished \cup {running[s]}
  /\ running' = [running EXCEPT ![s] = NoTask]
  /\ UNCHANGED <<phase, submitted, pending>>

Drain ==
  /\ phase = "open"
  /\ \A s \in Slots : running[s] = NoTask
  /\ phase' = "draining"
  /\ UNCHANGED <<submitted, pending, running, finished>>

\* Mutant: the queue is dropped.
CloseEarly ==
  /\ phase = "draining"
  /\ running[Owner] = NoTask
  /\ phase' = "closed"
  /\ UNCHANGED <<submitted, pending, running, finished>>

Close ==
  /\ phase = "draining"
  /\ pending = <<>>
  /\ running[Owner] = NoTask
  /\ phase' = "closed"
  /\ UNCHANGED <<submitted, pending, running, finished>>

Next ==
  \/ Open \/ Submit \/ Drain \/ Close
  \/ \E s \in Slots : Start(s) \/ Finish(s)

Spec == Init /\ [][Next]_vars

\* A thread that is idle while tasks are pending takes one, and every
\* started task ends.
FairSpec ==
  /\ Spec
  /\ WF_vars(\E s \in Slots : Start(s))
  /\ \A s \in Slots : WF_vars(Finish(s))
=============================================================================
