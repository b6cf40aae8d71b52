-------------------------- MODULE HttpServerProofs --------------------------
(***************************************************************************)
(* Proofs about HttpServer for any number of clients, workers and          *)
(* addresses: every accepted connection is in the queue, with one thread   *)
(* or closed, and its descriptor and its task object with it; the index    *)
(* outlives them all, and no socket is left open.                          *)
(***************************************************************************)
EXTENDS HttpServer, SequenceTheorems, TLAPS

\* Tasks up to this number have been started, the others are pending.
Started == submitted - Len(pending)

Run(i) == \E t \in Threads : running[t] = i

-----------------------------------------------------------------------------
(***************************************************************************)
(* The inductive invariant.                                                *)
(***************************************************************************)
Before == {"args", "crawl", "bind"}
After  == {"delete", "return", "exit"}

\* Where main() is in run() determines the phase of the pool.
PhaseInv ==
  /\ main \in Before => phase = "building"
  /\ main \in {"accept", "destroy"} => phase = "open"
  /\ main = "drain" => phase = "draining"
  /\ main \in After => phase \in {"building", "closed"}
  /\ phase \in {"building", "closed"} =>
       pending = <<>> /\ \A t \in Threads : running[t] = Pool!NoTask
  /\ phase = "draining" => \A t \in Workers : running[t] = Pool!NoTask

\* Tasks are numbered as they are accepted, and started in that order, each by
\* one thread.
NumberInv ==
  /\ submitted = Len(accepted) /\ Len(pending) <= submitted
  /\ \A k \in 1 .. Len(pending) : pending[k] = Started + k
  /\ \A t \in Threads : running[t] <= Started
  /\ \A t, u \in Threads : running[t] # Pool!NoTask /\ t # u => running[t] # running[u]

\* The state of a connection tells where its task is.
TaskInv ==
  /\ \A i, j \in 1 .. Len(accepted) : accepted[i] = accepted[j] => i = j
  /\ \A i \in 1 .. Len(accepted) :
       /\ conn[accepted[i]] \notin {"none", "backlog"}
       /\ conn[accepted[i]] = "queued" <=> i > Started
       /\ conn[accepted[i]] \in Serving <=> Run(i)
  /\ \A c \in Clients :
       conn[c] \in {"queued"} \cup Serving => \E i \in 1 .. Len(accepted) : accepted[i] = c

\* The task objects are those of the tasks that are pending or run, and the one
\* whose accept failed.
ObjectInv ==
  /\ hst \subseteq 1 .. submitted + 1
  /\ \A i \in 1 .. submitted : i \in hst <=> i > Started \/ Run(i)
  /\ main \in Before \cup {"accept"} => submitted + 1 \notin hst

FdInv == fds = {c \in Clients : conn[c] \in {"queued"} \cup Serving}

IndexInv == index = "deleted" => main \in {"return", "exit"}

SocketInv ==
  /\ socket_!OneSocket
  /\ main \in {"args", "crawl"} => bind = "idle"
  /\ main \in {"accept", "destroy", "drain", "delete", "return"} => bind \in {"true", "false"}
  /\ main = "exit" => sockets = {}
  /\ bind = "listen" => socket_fd \in Nat
  /\ bind = "bind" => socket_fd \in Nat

IInv == /\ TypeOK /\ PhaseInv /\ NumberInv /\ TaskInv /\ ObjectInv
        /\ FdInv /\ IndexInv /\ SocketInv

-----------------------------------------------------------------------------
(***************************************************************************)
(* The actions by what they leave alone.                                   *)
(***************************************************************************)
\* main() goes on, or its bind_and_listen does; or an exception ends it all.
MainOnly ==
  \/ GetPortAndPath \/ Crawl \/ BindAndListen \/ BindFails \/ DeleteIndex
  \/ CloseListener \/ AcceptAgain \/ \E t \in Threads : Throw(t)

\* The pool changes its phase.
PoolOnly == OpenPool \/ Join \/ PoolGone

LEMMA NextCases ==
  ASSUME [Next]_vars
  PROVE  \/ MainOnly \/ PoolOnly \/ AcceptFails \/ UNCHANGED vars
         \/ \E c \in Clients : Accept(c) \/ Connect(c)
         \/ \E t \in Threads : Take(t) \/ Serve(t) \/ End(t)
BY DEF Next, MainStep, run, ThrFn, Spin, Ended, MainOnly, PoolOnly

LEMMA MainOnlyKeeps ==
  ASSUME MainOnly
  PROVE  /\ conn' = conn /\ accepted' = accepted /\ fds' = fds /\ hst' = hst
         /\ phase' = phase /\ submitted' = submitted /\ pending' = pending
         /\ running' = running
<1> USE DEF poolVars
<1>1. CASE GetPortAndPath \/ Crawl \/ BindFails \/ DeleteIndex
  BY <1>1 DEF GetPortAndPath, Crawl, BindFails, DeleteIndex
<1>2. CASE BindAndListen \/ CloseListener \/ AcceptAgain
  BY <1>2 DEF BindAndListen, CloseListener, AcceptAgain
<1>3. CASE \E t \in Threads : Throw(t)
  BY <1>3 DEF Throw
<1> QED
  BY <1>1, <1>2, <1>3 DEF MainOnly

LEMMA PoolOnlyKeeps ==
  ASSUME PoolOnly
  PROVE  /\ conn' = conn /\ accepted' = accepted /\ fds' = fds /\ hst' = hst
         /\ submitted' = submitted /\ pending' = pending /\ running' = running
         /\ index' = index
         /\ bind' = bind /\ socket_fd' = socket_fd /\ sockets' = sockets
         /\ listen_sock_fd_' = listen_sock_fd_
BY DEF PoolOnly, OpenPool, Join, PoolGone, Pool!Open, Pool!Drain, Pool!Close, socketVars

\* A submitted task is the next number, and its place is behind the others.
LEMMA AcceptEffect ==
  ASSUME TypeOK, NumberInv, NEW c \in Clients, Accept(c)
  PROVE  /\ main = "accept" /\ main' = main /\ phase' = phase /\ conn[c] = "backlog"
         /\ conn' = [conn EXCEPT ![c] = "queued"] /\ running' = running
         /\ submitted' = submitted + 1 /\ Len(accepted') = Len(accepted) + 1
         /\ accepted' \in Seq(Clients) /\ accepted'[Len(accepted) + 1] = c
         /\ \A i \in 1 .. Len(accepted) : accepted'[i] = accepted[i]
         /\ pending' \in Seq(1 .. submitted + 1) /\ Len(pending') = Len(pending) + 1
         /\ pending'[Len(pending) + 1] = submitted + 1
         /\ \A k \in 1 .. Len(pending) : pending'[k] = pending[k]
         /\ Started' = Started
<1>1. /\ main = "accept" /\ main' = main /\ phase' = phase /\ conn[c] = "backlog"
      /\ conn' = [conn EXCEPT ![c] = "queued"] /\ running' = running
      /\ submitted' = submitted + 1
      /\ accepted' = Append(accepted, c) /\ pending' = Append(pending, submitted + 1)
  BY DEF Accept, Fields, Pool!Submit
<1>2. submitted \in Nat /\ accepted \in Seq(Clients) /\ pending \in Seq(1 .. submitted)
  BY DEF TypeOK, NumberInv
<1>3. pending \in Seq(1 .. submitted + 1)
  BY <1>2
<1>4. Started' = Started
  BY <1>1, <1>2, <1>3, AppendProperties DEF Started
<1> QED
  BY <1>1, <1>2, <1>3, <1>4, AppendProperties DEF NumberInv

\* The first pending task is the next one to be started.
LEMMA TakeEffect ==
  ASSUME TypeOK, NumberInv, NEW t \in Threads, Take(t)
  PROVE  /\ main' = main /\ phase' = phase /\ submitted' = submitted
         /\ accepted' = accepted /\ running[t] = Pool!NoTask
         /\ Started + 1 \in 1 .. submitted
         /\ running' = [running EXCEPT ![t] = Started + 1]
         /\ conn' = [conn EXCEPT ![accepted[Started + 1]] = "reading"]
         /\ pending' \in Seq(1 .. submitted) /\ Len(pending') = Len(pending) - 1
         /\ Len(pending) > 0
         /\ \A k \in 1 .. Len(pending') : pending'[k] = pending[k + 1]
         /\ Started' = Started + 1
<1>1. /\ main' = main /\ phase' = phase /\ submitted' = submitted
      /\ accepted' = accepted /\ running[t] = Pool!NoTask
      /\ pending # <<>> /\ pending' = Tail(pending)
      /\ running' = [running EXCEPT ![t] = Head(pending)]
      /\ conn' = [conn EXCEPT ![accepted[Head(pending)]] = "reading"]
  BY DEF Take, Pool!Start
<1>2. submitted \in Nat /\ pending \in Seq(1 .. submitted)
  BY DEF TypeOK, NumberInv
<1>3. Len(pending) > 0 /\ Head(pending) = pending[1]
  BY <1>1, <1>2
<1>4. Head(pending) = Started + 1
  BY <1>2, <1>3 DEF NumberInv
<1>5. /\ Tail(pending) \in Seq(1 .. submitted) /\ Len(Tail(pending)) = Len(pending) - 1
      /\ \A k \in 1 .. Len(Tail(pending)) : Tail(pending)[k] = pending[k + 1]
  BY <1>1, <1>2, HeadTailProperties
<1>6. Started' = Started + 1
  BY <1>1, <1>2, <1>3, <1>5 DEF Started
<1>7. Started + 1 \in 1 .. submitted
  BY <1>2, <1>3 DEF Started, NumberInv
<1> QED
  BY <1>1, <1>3, <1>4, <1>5, <1>6, <1>7

LEMMA EndEffect ==
  ASSUME NEW t \in Threads, End(t)
  PROVE  /\ main' = main /\ index' = index /\ phase' = phase /\ accepted' = accepted
         /\ submitted' = submitted /\ pending' = pending
         /\ running[t] # 0 /\ conn[ClientOf(t)] = "reading"
         /\ fds' = fds \ {ClientOf(t)} /\ hst' = hst \ {running[t]}
         /\ conn' = [conn EXCEPT ![ClientOf(t)] = "closed"]
         /\ running' = [running EXCEPT ![t] = 0]
BY DEF End, At, ToState, Closed, Deleted, Pool!Finish, Pool!NoTask

\* A connection that is served stays with its thread.
LEMMA ServeEffect ==
  ASSUME NEW t \in Threads, Serve(t)
  PROVE  /\ main' = main /\ index' = index /\ phase' = phase /\ accepted' = accepted
         /\ submitted' = submitted /\ pending' = pending /\ running' = running
         /\ fds' = fds /\ hst' = hst
         /\ running[t] # 0 /\ conn[ClientOf(t)] \in Serving
         /\ \E to \in Serving : conn' = [conn EXCEPT ![ClientOf(t)] = to]
BY DEF Serve, At, ToState, poolVars, Pool!NoTask

-----------------------------------------------------------------------------
(***************************************************************************)
(* Its conjuncts, one at a time.                                           *)
(***************************************************************************)
LEMMA TypeKept ==
  ASSUME TypeOK, NumberInv, [Next]_vars
  PROVE  TypeOK'
<1>1. CASE MainOnly
  <2>1. main' \in {"args", "crawl", "bind", "accept", "destroy", "drain", "delete",
                   "return", "exit", "crashed"} /\ index' \in {"live", "deleted"}
    <3>1. CASE GetPortAndPath \/ Crawl \/ BindFails \/ DeleteIndex
      BY <3>1 DEF GetPortAndPath, Crawl, BindFails, DeleteIndex, Goto, TypeOK
    <3>2. CASE BindAndListen \/ CloseListener \/ AcceptAgain
      BY <3>2 DEF BindAndListen, CloseListener, AcceptAgain, Goto, TypeOK
    <3>3. CASE \E t \in Threads : Throw(t)
      BY <3>3 DEF Throw, TypeOK
    <3> QED
      BY <1>1, <3>1, <3>2, <3>3 DEF MainOnly
  <2> QED
    BY <1>1, <2>1, MainOnlyKeeps DEF TypeOK
<1>2. CASE PoolOnly
  <2>1. main' \in {"accept", "drain", "delete"}
    BY <1>2 DEF PoolOnly, OpenPool, Join, PoolGone, Goto
  <2> QED
    BY <1>2, <2>1, PoolOnlyKeeps DEF TypeOK
<1>3. CASE AcceptFails
  <2>1. submitted + 1 \in Nat
    BY DEF TypeOK, NumberInv
  <2> QED
    BY <1>3, <2>1 DEF AcceptFails, AfterLoop, Goto, poolVars, TypeOK
<1>4. ASSUME NEW c \in Clients, Accept(c) PROVE TypeOK'
  <2>0. submitted + 1 \in Nat
    BY DEF TypeOK, NumberInv
  <2>1. /\ fds' \subseteq Clients /\ hst' \subseteq Nat /\ index' = index
        /\ conn' \in [Clients -> {"none", "backlog", "queued", "closed"} \cup Serving]
    BY <1>4, <2>0 DEF Accept, TypeOK
  <2>2. running' \in [Threads -> 0 .. Len(accepted')]
    BY <1>4, AcceptEffect DEF TypeOK
  <2>3. pending' \in Seq(1 .. Len(accepted'))
    BY <1>4, AcceptEffect DEF NumberInv
  <2> QED
    BY <1>4, <2>1, <2>2, <2>3, AcceptEffect DEF TypeOK
<1>5. ASSUME NEW c \in Clients, Connect(c) PROVE TypeOK'
  BY <1>5 DEF Connect, poolVars, TypeOK
<1>6. ASSUME NEW t \in Threads, Take(t) PROVE TypeOK'
  <2>1. fds' = fds /\ hst' = hst /\ index' = index
    BY <1>6 DEF Take
  <2>2. accepted[Started + 1] \in Clients /\ Started + 1 \in 0 .. Len(accepted)
    BY <1>6, TakeEffect DEF TypeOK, NumberInv
  <2>3. conn' \in [Clients -> {"none", "backlog", "queued", "closed"} \cup Serving]
    BY <1>6, <2>2, TakeEffect DEF TypeOK, Serving
  <2>4. running' \in [Threads -> 0 .. Len(accepted)]
    BY <1>6, <2>2, TakeEffect DEF TypeOK
  <2> QED
    BY <1>6, <2>1, <2>3, <2>4, TakeEffect DEF TypeOK, NumberInv
<1>7. ASSUME NEW t \in Threads, Serve(t) PROVE TypeOK'
  BY <1>7 DEF Serve, ToState, poolVars, TypeOK
<1>8. ASSUME NEW t \in Threads, End(t) PROVE TypeOK'
  <2>1. 0 \in 0 .. Len(accepted) /\ fds' \subseteq fds /\ hst' \subseteq hst
    BY <1>8, EndEffect DEF TypeOK
  <2> QED
    BY <1>8, <2>1, EndEffect DEF TypeOK
<1>9. CASE UNCHANGED vars
  BY <1>9 DEF vars, poolVars, TypeOK
<1> QED
  BY <1>1, <1>2, <1>3, <1>4, <1>5, <1>6, <1>7, <1>8, <1>9, NextCases

LEMMA PhaseKept ==
  ASSUME TypeOK, NumberInv, PhaseInv, [Next]_vars
  PROVE  PhaseInv'
<1> USE DEF PhaseInv, Before, After
<1>1. CASE MainOnly
  <2>1. CASE GetPortAndPath \/ Crawl \/ BindFails \/ DeleteIndex
    BY <2>1, MainOnlyKeeps, <1>1
    DEF GetPortAndPath, Crawl, BindFails, DeleteIndex, Goto
  <2>2. CASE BindAndListen \/ CloseListener \/ AcceptAgain
    BY <2>2, MainOnlyKeeps, <1>1 DEF BindAndListen, CloseListener, AcceptAgain, Goto
  <2>3. CASE \E t \in Threads : Throw(t)
    BY <2>3, MainOnlyKeeps, <1>1 DEF Throw
  <2> QED
    BY <1>1, <2>1, <2>2, <2>3 DEF MainOnly
<1>2. CASE OpenPool
  BY <1>2 DEF OpenPool, Goto, Pool!Open
<1>3. CASE Join
  BY <1>3 DEF Join, Goto, Pool!Drain, Pool!Slots, Threads
<1>4. CASE PoolGone
  BY <1>4 DEF PoolGone, Goto, Pool!Close, Threads
<1>5. CASE AcceptFails
  BY <1>5 DEF AcceptFails, AfterLoop, Goto, poolVars
<1>6. ASSUME NEW c \in Clients, Accept(c) PROVE PhaseInv'
  BY <1>6, AcceptEffect
<1>7. ASSUME NEW c \in Clients, Connect(c) PROVE PhaseInv'
  BY <1>7 DEF Connect, poolVars
<1>8. ASSUME NEW t \in Threads, Take(t) PROVE PhaseInv'
  <2>1. IF t = Main THEN phase = "draining" ELSE phase = "open"
    BY <1>8 DEF Take, Pool!Start
  <2>2. \A w \in Workers : t = Main => running'[w] = running[w]
    BY <1>8, TakeEffect, MainAssumption DEF TypeOK, Threads
  <2> QED
    BY <1>8, <2>1, <2>2, TakeEffect
<1>9. ASSUME NEW t \in Threads, Serve(t) PROVE PhaseInv'
  BY <1>9, ServeEffect
<1>10. ASSUME NEW t \in Threads, End(t) PROVE PhaseInv'
  <2>1. \A u \in Threads : running'[u] \in {running[u], Pool!NoTask}
    BY <1>10, EndEffect DEF TypeOK, Pool!NoTask
  <2> QED
    BY <1>10, <2>1, EndEffect DEF Threads
<1>11. CASE UNCHANGED vars
  BY <1>11 DEF vars, poolVars
<1> QED
  BY <1>1, <1>2, <1>3, <1>4, <1>5, <1>6, <1>7, <1>8, <1>9, <1>10, <1>11, NextCases
  DEF PoolOnly

LEMMA NumberKept ==
  ASSUME TypeOK, NumberInv, [Next]_vars
  PROVE  NumberInv'
<1>1. CASE MainOnly \/ PoolOnly
  BY <1>1, MainOnlyKeeps, PoolOnlyKeeps DEF NumberInv, Started
<1>2. CASE AcceptFails \/ UNCHANGED vars
  BY <1>2 DEF AcceptFails, vars, poolVars, NumberInv, Started
<1>3. ASSUME NEW c \in Clients, Accept(c) PROVE NumberInv'
  <2>1. submitted \in Nat /\ Len(pending) \in Nat /\ Len(pending) <= submitted
        /\ submitted = Len(accepted)
    BY DEF TypeOK, NumberInv
  <2>2. \A k \in 1 .. Len(pending') : pending'[k] = Started + k
    <3>1. \A k \in 1 .. Len(pending) : pending'[k] = Started + k
      BY <1>3, AcceptEffect DEF NumberInv
    <3>2. pending'[Len(pending) + 1] = Started + (Len(pending) + 1)
      BY <1>3, <2>1, AcceptEffect DEF Started
    <3>3. Len(pending') = Len(pending) + 1
      BY <1>3, AcceptEffect
    <3> QED
      BY <2>1, <3>1, <3>2, <3>3
  <2>3. submitted' = Len(accepted') /\ Len(pending') <= submitted'
    BY <1>3, <2>1, AcceptEffect
  <2> QED
    BY <1>3, <2>2, <2>3, AcceptEffect DEF NumberInv
<1>4. ASSUME NEW c \in Clients, Connect(c) PROVE NumberInv'
  BY <1>4 DEF Connect, poolVars, NumberInv, Started
<1>5. ASSUME NEW t \in Threads, Take(t) PROVE NumberInv'
  <2>1. /\ submitted \in Nat /\ Len(pending) \in Nat /\ Started \in Nat
        /\ Len(pending) <= submitted /\ running \in [Threads -> Nat]
    BY DEF TypeOK, NumberInv, Started
  <2>2. \A k \in 1 .. Len(pending') : pending'[k] = Started' + k
    BY <1>5, <2>1, TakeEffect DEF NumberInv
  <2>3. \A u \in Threads :
          u # t => /\ running'[u] = running[u]
                   /\ running[u] <= Started + 1 /\ running[u] # Started + 1
    BY <1>5, <2>1, TakeEffect DEF NumberInv
  <2>4. running'[t] = Started + 1 /\ Started' = Started + 1
    BY <1>5, <2>1, TakeEffect
  <2>5. \A u \in Threads : running'[u] <= Started'
    <3>1. Started + 1 <= Started + 1
      BY <2>1
    <3> QED
      BY <2>3, <2>4, <3>1
  <2>6. \A u, v \in Threads :
          running'[u] # Pool!NoTask /\ u # v => running'[u] # running'[v]
    BY <2>3, <2>4 DEF NumberInv
  <2>7. submitted' = Len(accepted') /\ Len(pending') <= submitted'
    BY <1>5, <2>1, TakeEffect DEF NumberInv
  <2> QED
    BY <2>2, <2>5, <2>6, <2>7 DEF NumberInv
<1>6. ASSUME NEW t \in Threads, Serve(t) PROVE NumberInv'
  BY <1>6, ServeEffect DEF NumberInv, Started
<1>7. ASSUME NEW t \in Threads, End(t) PROVE NumberInv'
  <2>0. Started' = Started
    BY <1>7, EndEffect DEF Started
  <2>1. Started \in Nat /\ Started' = Started
    BY <2>0 DEF TypeOK, NumberInv, Started
  <2>2. running'[t] = 0 /\ \A u \in Threads : u # t => running'[u] = running[u]
    BY <1>7, EndEffect DEF TypeOK
  <2>3. \A u \in Threads : running'[u] <= Started
    BY <2>1, <2>2 DEF NumberInv
  <2>4. \A u, v \in Threads :
          running'[u] # Pool!NoTask /\ u # v => running'[u] # running'[v]
    BY <2>2 DEF NumberInv, Pool!NoTask
  <2> QED
    BY <1>7, <2>1, <2>3, <2>4, EndEffect DEF NumberInv
<1> QED
  BY <1>1, <1>2, <1>3, <1>4, <1>5, <1>6, <1>7, NextCases

\* What the counters are.
LEMMA Numbers ==
  ASSUME TypeOK, NumberInv
  PROVE  /\ submitted \in Nat /\ submitted = Len(accepted) /\ Len(pending) \in Nat
         /\ Started \in Nat /\ Started <= submitted
         /\ \A i \in 1 .. submitted : accepted[i] \in Clients
         /\ running \in [Threads -> 0 .. submitted] /\ conn = [c \in Clients |-> conn[c]]
BY DEF TypeOK, NumberInv, Started

LEMMA TaskKept ==
  ASSUME TypeOK, NumberInv, TaskInv, [Next]_vars
  PROVE  TaskInv'
<1>0. /\ submitted \in Nat /\ submitted = Len(accepted) /\ Len(pending) \in Nat
      /\ Started \in Nat /\ Started <= submitted
      /\ \A i \in 1 .. submitted : accepted[i] \in Clients
      /\ running \in [Threads -> 0 .. submitted] /\ conn = [c \in Clients |-> conn[c]]
  BY Numbers
<1>1. CASE MainOnly \/ PoolOnly
  BY <1>1, MainOnlyKeeps, PoolOnlyKeeps DEF TaskInv, Started, Run
<1>2. CASE AcceptFails \/ UNCHANGED vars
  BY <1>2 DEF AcceptFails, vars, poolVars, TaskInv, Started, Run
<1>3. ASSUME NEW c \in Clients, Accept(c) PROVE TaskInv'
  <2>1. \A i \in 1 .. Len(accepted) : accepted[i] # c
    BY <1>3, AcceptEffect DEF TaskInv
  <2>2. \A i : Run(i)' <=> Run(i)
    BY <1>3, AcceptEffect DEF Run
  <2>3. ~Run(submitted + 1)
    BY <1>0 DEF Run
  <2>4. \A i \in 1 .. Len(accepted) :
          accepted'[i] = accepted[i] /\ conn'[accepted[i]] = conn[accepted[i]]
    BY <1>0, <1>3, <2>1, AcceptEffect
  <2>5. /\ accepted'[Len(accepted) + 1] = c /\ conn'[c] = "queued"
        /\ submitted + 1 > Started
    BY <1>0, <1>3, AcceptEffect
  <2>6. \A i \in 1 .. Len(accepted') : i \in 1 .. Len(accepted) \/ i = Len(accepted) + 1
    BY <1>0, <1>3, AcceptEffect
  <2>7. \A i, j \in 1 .. Len(accepted') : accepted'[i] = accepted'[j] => i = j
    BY <2>1, <2>4, <2>5, <2>6 DEF TaskInv
  <2>8. \A i \in 1 .. Len(accepted') :
          /\ conn'[accepted'[i]] \notin {"none", "backlog"}
          /\ conn'[accepted'[i]] = "queued" <=> i > Started
          /\ conn'[accepted'[i]] \in Serving <=> Run(i)
    <3>1. ASSUME NEW i \in 1 .. Len(accepted)
          PROVE  /\ conn'[accepted'[i]] \notin {"none", "backlog"}
                 /\ conn'[accepted'[i]] = "queued" <=> i > Started
                 /\ conn'[accepted'[i]] \in Serving <=> Run(i)
      BY <2>4, <3>1, Zenon DEF TaskInv
    <3> DEFINE l == Len(accepted) + 1
    <3>2. /\ conn'[accepted'[l]] \notin {"none", "backlog"}
          /\ conn'[accepted'[l]] = "queued" <=> l > Started
          /\ conn'[accepted'[l]] \in Serving <=> Run(l)
      BY <1>0, <2>3, <2>5 DEF Serving
    <3> HIDE DEF l
    <3> QED
      BY <2>6, <3>1, <3>2, Zenon DEF l
  <2>9. \A d \in Clients : conn'[d] \in {"queued"} \cup Serving =>
          \E i \in 1 .. Len(accepted') : accepted'[i] = d
    <3>1. Len(accepted) + 1 \in 1 .. Len(accepted')
      BY <1>0, <1>3, AcceptEffect
    <3>2. \A i \in 1 .. Len(accepted) : i \in 1 .. Len(accepted')
      BY <1>0, <1>3, AcceptEffect
    <3>3. \A d \in Clients : d # c => conn'[d] = conn[d]
      BY <1>0, <1>3, AcceptEffect
    <3> QED
      BY <2>4, <2>5, <3>1, <3>2, <3>3 DEF TaskInv
  <2> QED
    BY <1>3, <2>2, <2>7, <2>8, <2>9, AcceptEffect DEF TaskInv
<1>4. ASSUME NEW c \in Clients, Connect(c) PROVE TaskInv'
  <2>1. /\ conn[c] = "none" /\ conn' = [conn EXCEPT ![c] = "backlog"]
        /\ accepted' = accepted /\ Started' = Started /\ running' = running
    BY <1>4 DEF Connect, poolVars, Started
  <2>2. \A i \in 1 .. Len(accepted) : conn'[accepted[i]] = conn[accepted[i]]
    BY <1>0, <2>1 DEF TaskInv
  <2>3. \A d \in Clients : conn'[d] \in {"queued"} \cup Serving => conn'[d] = conn[d]
    BY <1>0, <2>1 DEF Serving
  <2> QED
    BY <2>1, <2>2, <2>3 DEF TaskInv, Run
<1>5. ASSUME NEW t \in Threads, Take(t) PROVE TaskInv'
  <2> DEFINE new == Started + 1
  <2>1. /\ new \in 1 .. Len(accepted) /\ accepted' = accepted /\ running[t] = 0
        /\ running' = [running EXCEPT ![t] = new]
        /\ conn' = [conn EXCEPT ![accepted[new]] = "reading"] /\ Started' = new
    BY <1>0, <1>5, TakeEffect DEF Pool!NoTask
  <2>2. \A i \in 1 .. Len(accepted) : i # new => Run(i)' = Run(i)
    BY <1>0, <2>1 DEF Run
  <2>3. \A i : i = new => Run(i)' /\ ~(i > new)
    <3>1. running'[t] = new
      BY <1>0, <2>1
    <3>2. ~(new > new)
      BY <1>0
    <3> QED
      BY <3>1, <3>2 DEF Run
  <2>4. conn'[accepted[new]] = "reading"
    BY <1>0, <2>1
  <2>5. \A i \in 1 .. Len(accepted) : i # new => conn'[accepted[i]] = conn[accepted[i]]
    BY <1>0, <2>1 DEF TaskInv
  <2>6. \A i \in 1 .. Len(accepted) : i # new => (i > new <=> i > Started)
    BY <1>0
  <2>7. \A i \in 1 .. Len(accepted) :
          /\ conn'[accepted[i]] \notin {"none", "backlog"}
          /\ conn'[accepted[i]] = "queued" <=> i > new
          /\ conn'[accepted[i]] \in Serving <=> Run(i)'
    <3> TAKE i \in 1 .. Len(accepted)
    <3>1. CASE i = new
      BY <1>0, <2>3, <2>4, <3>1 DEF Serving
    <3>2. CASE i # new
      BY <2>2, <2>5, <2>6, <3>2 DEF TaskInv
    <3> QED
      BY <3>1, <3>2
  <2>8. \A d \in Clients : d # accepted[new] => conn'[d] = conn[d]
    BY <1>0, <2>1
  <2> HIDE DEF new
  <2>9. \A d \in Clients : conn'[d] \in {"queued"} \cup Serving =>
          \E i \in 1 .. Len(accepted) : accepted[i] = d
    BY <2>1, <2>8 DEF TaskInv
  <2> QED
    BY <2>1, <2>7, <2>9 DEF TaskInv
<1>6. ASSUME NEW t \in Threads, Serve(t) PROVE TaskInv'
  <2> DEFINE own == running[t]
  <2>1. PICK to \in Serving : conn' = [conn EXCEPT ![accepted[own]] = to]
    BY <1>6, ServeEffect DEF ClientOf
  <2>2. /\ own \in 1 .. Len(accepted) /\ accepted' = accepted /\ running' = running
        /\ Started' = Started /\ Run(own)
    <3>1. own \in 0 .. submitted /\ own # 0
      BY <1>0, <1>6, ServeEffect
    <3>2. own \in 1 .. Len(accepted)
      BY <1>0, <3>1
    <3> QED
      BY <1>6, <3>2, ServeEffect DEF Started, Run
  <2>3. conn'[accepted[own]] = to
    BY <1>0, <2>1, <2>2
  <2>4. \A i \in 1 .. Len(accepted) : i # own => conn'[accepted[i]] = conn[accepted[i]]
    BY <1>0, <2>1, <2>2 DEF TaskInv
  <2>5. ~(own > Started)
    BY <1>0, <1>6 DEF NumberInv
  <2>6. \A d \in Clients : d # accepted[own] => conn'[d] = conn[d]
    BY <1>0, <2>1, <2>2
  <2> HIDE DEF own
  <2>7. \A i \in 1 .. Len(accepted) :
          /\ conn'[accepted[i]] \notin {"none", "backlog"}
          /\ conn'[accepted[i]] = "queued" <=> i > Started
          /\ conn'[accepted[i]] \in Serving <=> Run(i)
    BY <2>2, <2>3, <2>4, <2>5 DEF TaskInv, Serving
  <2>8. \A d \in Clients : conn'[d] \in {"queued"} \cup Serving =>
          \E i \in 1 .. Len(accepted) : accepted[i] = d
    BY <2>2, <2>6 DEF TaskInv
  <2> QED
    BY <2>2, <2>7, <2>8 DEF TaskInv, Run
<1>7. ASSUME NEW t \in Threads, End(t) PROVE TaskInv'
  <2> DEFINE own == running[t]
  <2>1. /\ own \in 1 .. Len(accepted) /\ accepted' = accepted /\ Started' = Started
        /\ running' = [running EXCEPT ![t] = 0]
        /\ conn' = [conn EXCEPT ![accepted[own]] = "closed"]
    <3>1. own \in 0 .. submitted /\ own # 0
      BY <1>0, <1>7, EndEffect
    <3>2. own \in 1 .. Len(accepted)
      BY <1>0, <3>1
    <3> QED
      BY <1>7, <3>2, EndEffect DEF Started, ClientOf
  <2>2. \A i : i = own => ~Run(i)'
    <3>1. own # 0 /\ running'[t] = 0 /\ \A u \in Threads : u # t => running'[u] = running[u]
      BY <1>0, <2>1
    <3>2. \A u \in Threads : u # t => running[u] # own
      BY <3>1 DEF NumberInv, Pool!NoTask
    <3> QED
      BY <3>1, <3>2 DEF Run
  <2>3. \A i \in 1 .. Len(accepted) : i # own => Run(i)' = Run(i)
    BY <1>0, <2>1 DEF Run
  <2>4. conn'[accepted[own]] = "closed"
    BY <1>0, <2>1
  <2>5. \A i \in 1 .. Len(accepted) : i # own => conn'[accepted[i]] = conn[accepted[i]]
    BY <1>0, <2>1 DEF TaskInv
  <2>6. ~(own > Started)
    BY <1>0, <1>7 DEF NumberInv
  <2>7. \A d \in Clients : d # accepted[own] => conn'[d] = conn[d]
    BY <1>0, <2>1
  <2> HIDE DEF own
  <2>8. \A i \in 1 .. Len(accepted) :
          /\ conn'[accepted[i]] \notin {"none", "backlog"}
          /\ conn'[accepted[i]] = "queued" <=> i > Started
          /\ conn'[accepted[i]] \in Serving <=> Run(i)'
    <3> TAKE i \in 1 .. Len(accepted)
    <3>1. CASE i = own
      BY <2>2, <2>4, <2>6, <3>1 DEF Serving
    <3>2. CASE i # own
      BY <2>3, <2>5, <3>2 DEF TaskInv
    <3> QED
      BY <3>1, <3>2
  <2>9. \A d \in Clients : conn'[d] \in {"queued"} \cup Serving =>
          \E i \in 1 .. Len(accepted) : accepted[i] = d
    BY <2>1, <2>7 DEF TaskInv
  <2> QED
    BY <2>1, <2>8, <2>9 DEF TaskInv
<1> QED
  BY <1>1, <1>2, <1>3, <1>4, <1>5, <1>6, <1>7, NextCases

LEMMA MainOrder ==
  ASSUME [Next]_vars, main' \in Before \cup {"accept"}
  PROVE  main \in Before \cup {"accept"}
<1> USE DEF Before, Goto
<1>1. CASE GetPortAndPath \/ Crawl \/ BindFails \/ DeleteIndex
  BY <1>1 DEF GetPortAndPath, Crawl, BindFails, DeleteIndex
<1>2. CASE BindAndListen \/ CloseListener \/ AcceptAgain
  BY <1>2 DEF BindAndListen, CloseListener, AcceptAgain
<1>3. CASE OpenPool \/ Join \/ PoolGone \/ AcceptFails
  BY <1>3 DEF OpenPool, Join, PoolGone, AcceptFails, AfterLoop
<1>4. CASE \E t \in Threads : Throw(t)
  BY <1>4 DEF Throw
<1>5. CASE \E c \in Clients : Accept(c) \/ Connect(c)
  BY <1>5 DEF Accept, Connect
<1>6. CASE \E t \in Threads : Take(t) \/ Serve(t) \/ End(t)
  BY <1>6 DEF Take, Serve, End
<1>7. CASE UNCHANGED vars
  BY <1>7 DEF vars
<1> QED
  BY <1>1, <1>2, <1>3, <1>4, <1>5, <1>6, <1>7, NextCases DEF MainOnly, PoolOnly

LEMMA ObjectKept ==
  ASSUME TypeOK, NumberInv, TaskInv, ObjectInv, [Next]_vars
  PROVE  ObjectInv'
<1>0. /\ submitted \in Nat /\ submitted = Len(accepted) /\ Started \in Nat
      /\ Started <= submitted /\ running \in [Threads -> 0 .. submitted]
  BY Numbers
<1>1. CASE MainOnly \/ PoolOnly
  BY <1>1, MainOnlyKeeps, PoolOnlyKeeps, MainOrder DEF ObjectInv, Started, Run
<1>2. CASE UNCHANGED vars
  BY <1>2 DEF vars, poolVars, ObjectInv, Started, Run
<1>3. CASE AcceptFails
  <2>1. /\ hst' = hst \cup {submitted + 1} /\ main' = "destroy" /\ submitted' = submitted
        /\ Started' = Started /\ running' = running
    BY <1>3 DEF AcceptFails, AfterLoop, Goto, poolVars, Started
  <2>2. submitted + 1 \in 1 .. submitted + 1 /\ submitted + 1 \notin 1 .. submitted
    BY <1>0
  <2> QED
    BY <2>1, <2>2 DEF ObjectInv, Run, Before
<1>4. ASSUME NEW c \in Clients, Accept(c) PROVE ObjectInv'
  <2>1. /\ hst' = hst \cup {submitted + 1} /\ submitted + 1 \notin hst
        /\ submitted' = submitted + 1 /\ Started' = Started /\ running' = running
    BY <1>4, AcceptEffect DEF Accept, ObjectInv
  <2>2. hst' \subseteq 1 .. submitted + 1 + 1 /\ submitted + 1 + 1 \notin hst'
    <3>1. hst' \subseteq 1 .. submitted + 1
      <4>1. hst \subseteq 1 .. submitted + 1
        BY DEF ObjectInv
      <4>2. submitted + 1 \in 1 .. submitted + 1
        BY <1>0
      <4> QED
        BY <2>1, <4>1, <4>2
    <3>2. \A i \in 1 .. submitted + 1 : i \in 1 .. submitted + 1 + 1 /\ i # submitted + 1 + 1
      BY <1>0
    <3> QED
      BY <3>1, <3>2
  <2>3. \A i \in 1 .. submitted + 1 : i \in 1 .. submitted \/ i = submitted + 1
    BY <1>0
  <2>4. submitted + 1 > Started
    BY <1>0
  <2>5. \A i \in 1 .. submitted + 1 : i \in hst' <=> i > Started \/ Run(i)
    BY <2>1, <2>3, <2>4 DEF ObjectInv
  <2> QED
    BY <2>1, <2>2, <2>5 DEF ObjectInv, Run
<1>5. ASSUME NEW c \in Clients, Connect(c) PROVE ObjectInv'
  BY <1>5 DEF Connect, poolVars, ObjectInv, Started, Run
<1>6. ASSUME NEW t \in Threads, Take(t) PROVE ObjectInv'
  <2> DEFINE new == Started + 1
  <2>1. /\ new \in 1 .. submitted /\ running[t] = 0 /\ submitted' = submitted
        /\ running' = [running EXCEPT ![t] = new] /\ Started' = new
        /\ main' = main /\ hst' = hst
    BY <1>6, TakeEffect DEF Pool!NoTask, Take
  <2>2. \A i \in 1 .. submitted : i # new => (Run(i)' <=> Run(i))
    BY <1>0, <2>1 DEF Run
  <2>3. \A i : i = new => Run(i)' /\ i > Started
    <3>1. running'[t] = new /\ new > Started
      BY <1>0, <2>1
    <3> QED
      BY <3>1 DEF Run
  <2>4. \A i \in 1 .. submitted : i # new => (i > new <=> i > Started)
    BY <1>0
  <2> HIDE DEF new
  <2>5. \A i \in 1 .. submitted : i \in hst <=> i > new \/ Run(i)'
    BY <2>2, <2>3, <2>4 DEF ObjectInv
  <2> QED
    BY <2>1, <2>5 DEF ObjectInv
<1>7. ASSUME NEW t \in Threads, Serve(t) PROVE ObjectInv'
  <2>1. /\ hst' = hst /\ submitted' = submitted /\ Started' = Started
        /\ running' = running /\ main' = main
    BY <1>7, ServeEffect DEF Started
  <2> QED
    BY <2>1 DEF ObjectInv, Run
<1>8. ASSUME NEW t \in Threads, End(t) PROVE ObjectInv'
  <2> DEFINE own == running[t]
  <2>1. /\ running' = [running EXCEPT ![t] = 0] /\ hst' = hst \ {own} /\ own # 0
        /\ main' = main /\ submitted' = submitted /\ Started' = Started
    BY <1>8, EndEffect DEF Started
  <2>2. \A i : i = own => ~Run(i)' /\ ~(i > Started)
    <3>1. /\ running'[t] = 0
          /\ \A u \in Threads : u # t => running'[u] = running[u] /\ running[u] # own
      BY <1>0, <2>1 DEF NumberInv, Pool!NoTask
    <3>2. ~(own > Started)
      BY <1>0, <1>8 DEF NumberInv
    <3> QED
      BY <2>1, <3>1, <3>2 DEF Run
  <2>3. \A i \in 1 .. submitted : i # own => (Run(i)' <=> Run(i))
    BY <1>0, <2>1 DEF Run
  <2> HIDE DEF own
  <2>4. \A i \in 1 .. submitted : i \in hst' <=> i > Started \/ Run(i)'
    BY <2>1, <2>2, <2>3 DEF ObjectInv
  <2> QED
    BY <2>1, <2>4 DEF ObjectInv
<1> QED
  BY <1>1, <1>2, <1>3, <1>4, <1>5, <1>6, <1>7, <1>8, NextCases

LEMMA FdKept ==
  ASSUME TypeOK, NumberInv, TaskInv, FdInv, [Next]_vars
  PROVE  FdInv'
<1>0. /\ submitted = Len(accepted)
      /\ \A i \in 1 .. submitted : accepted[i] \in Clients
      /\ running \in [Threads -> 0 .. submitted] /\ conn = [c \in Clients |-> conn[c]]
  BY Numbers
<1>1. CASE MainOnly \/ PoolOnly
  BY <1>1, MainOnlyKeeps, PoolOnlyKeeps DEF FdInv
<1>2. CASE AcceptFails \/ UNCHANGED vars
  BY <1>2 DEF AcceptFails, vars, FdInv
<1>3. ASSUME NEW c \in Clients, Accept(c) PROVE FdInv'
  <2>1. fds' = fds \cup {c} /\ conn' = [conn EXCEPT ![c] = "queued"]
    BY <1>3 DEF Accept
  <2> QED
    BY <1>0, <2>1 DEF FdInv
<1>4. ASSUME NEW c \in Clients, Connect(c) PROVE FdInv'
  <2>1. fds' = fds /\ conn' = [conn EXCEPT ![c] = "backlog"] /\ conn[c] = "none"
    BY <1>4 DEF Connect
  <2> QED
    BY <1>0, <2>1 DEF FdInv, Serving
<1>5. ASSUME NEW t \in Threads, Take(t) PROVE FdInv'
  <2> DEFINE c == accepted[Started + 1]
  <2>1. /\ fds' = fds /\ conn' = [conn EXCEPT ![c] = "reading"]
        /\ Started + 1 \in 1 .. submitted
    BY <1>5, TakeEffect DEF Take
  <2>2. Started + 1 > Started
    BY Numbers
  <2>3. c \in Clients /\ conn[c] = "queued"
    BY <1>0, <2>1, <2>2 DEF TaskInv
  <2> HIDE DEF c
  <2> QED
    BY <1>0, <2>1, <2>3 DEF FdInv, Serving
<1>6. ASSUME NEW t \in Threads, Serve(t) PROVE FdInv'
  <2> DEFINE c == ClientOf(t)
  <2>1. PICK to \in Serving : conn' = [conn EXCEPT ![c] = to]
    BY <1>6, ServeEffect
  <2>2. fds' = fds /\ conn[c] \in Serving
    BY <1>6, ServeEffect
  <2> HIDE DEF c
  <2> QED
    BY <1>0, <2>1, <2>2 DEF FdInv
<1>7. ASSUME NEW t \in Threads, End(t) PROVE FdInv'
  <2> DEFINE c == ClientOf(t)
  <2>1. fds' = fds \ {c} /\ conn' = [conn EXCEPT ![c] = "closed"]
    BY <1>7, EndEffect
  <2> HIDE DEF c
  <2> QED
    BY <1>0, <2>1 DEF FdInv, Serving
<1> QED
  BY <1>1, <1>2, <1>3, <1>4, <1>5, <1>6, <1>7, NextCases

LEMMA IndexKept ==
  ASSUME PhaseInv, IndexInv, [Next]_vars
  PROVE  IndexInv'
<1> USE DEF IndexInv, Goto
<1>1. CASE GetPortAndPath \/ Crawl \/ BindFails \/ DeleteIndex
  BY <1>1 DEF GetPortAndPath, Crawl, BindFails, DeleteIndex
<1>2. CASE BindAndListen \/ CloseListener \/ AcceptAgain
  BY <1>2 DEF BindAndListen, CloseListener, AcceptAgain
<1>3. CASE OpenPool \/ Join \/ PoolGone \/ AcceptFails
  BY <1>3 DEF OpenPool, Join, PoolGone, AcceptFails, AfterLoop
<1>4. ASSUME NEW t \in Threads, Throw(t) PROVE IndexInv'
  <2>1. running[t] # Pool!NoTask /\ index' = index
    BY <1>4 DEF Throw, At
  <2> QED
    BY <2>1 DEF PhaseInv, After
<1>5. CASE \E c \in Clients : Accept(c) \/ Connect(c)
  BY <1>5 DEF Accept, Connect
<1>6. CASE \E t \in Threads : Take(t) \/ Serve(t) \/ End(t)
  BY <1>6 DEF Take, Serve, End
<1>7. CASE UNCHANGED vars
  BY <1>7 DEF vars
<1> QED
  BY <1>1, <1>2, <1>3, <1>4, <1>5, <1>6, <1>7, NextCases DEF MainOnly, PoolOnly

\* While no socket is open the kernel has a descriptor to give.
LEMMA FreshDescriptor ==
  ASSUME sockets = {}
  PROVE  socket_!Fresh \in Nat
<1>1. 0 \in 0 .. MaxAddresses /\ 0 \notin sockets /\ \A f \in 0 .. 0 - 1 : f \in sockets
  BY AddressesAssumption
<1>2. \E fd \in 0 .. MaxAddresses : fd \notin sockets /\ \A f \in 0 .. fd - 1 : f \in sockets
  BY <1>1
<1>3. socket_!Fresh \in 0 .. MaxAddresses
  BY <1>2 DEF socket_!Fresh
<1> QED
  BY <1>3, AddressesAssumption

LEMMA SocketKept ==
  ASSUME PhaseInv, SocketInv, [Next]_vars
  PROVE  SocketInv'
<1> USE DEF SocketInv, socket_!OneSocket, Goto, socketVars
<1>1. CASE GetPortAndPath \/ Crawl \/ BindFails \/ DeleteIndex
  BY <1>1 DEF GetPortAndPath, Crawl, BindFails, DeleteIndex
<1>2. CASE BindAndListen
  <2>0. main = "bind" /\ main' = main
    BY <1>2 DEF BindAndListen
  <2>1. CASE socket_!getaddrinfo
    BY <2>0, <2>1 DEF socket_!getaddrinfo
  <2>2. CASE socket_!NextAddress
    <3>1. sockets = {}
      BY <2>2 DEF socket_!NextAddress
    <3> QED
      BY <2>0, <2>2, <3>1, FreshDescriptor DEF socket_!NextAddress
  <2>3. CASE socket_!Bound
    BY <2>0, <2>3 DEF socket_!Bound
  <2>4. CASE socket_!NotBound
    BY <2>0, <2>4 DEF socket_!NotBound, socket_!Without
  <2>5. CASE socket_!NoAddress
    BY <2>0, <2>5 DEF socket_!NoAddress
  <2>6. CASE socket_!listen
    <3>1. socket_fd # socket_!NoSocket
      BY <2>6 DEF socket_!listen, socket_!NoSocket
    <3> QED
      BY <2>0, <2>6, <3>1 DEF socket_!listen
  <2> QED
    BY <1>2, <2>1, <2>2, <2>3, <2>4, <2>5, <2>6
    DEF BindAndListen, socket_!bind_and_listen
<1>3. CASE CloseListener
  BY <1>3 DEF CloseListener, socket_!Destroy
<1>4. CASE AcceptAgain
  BY <1>4 DEF AcceptAgain, socket_!AcceptAgain, socket_!socketVars
<1>5. CASE OpenPool \/ Join \/ PoolGone \/ AcceptFails
  BY <1>5 DEF OpenPool, Join, PoolGone, AcceptFails, AfterLoop
<1>6. ASSUME NEW t \in Threads, Throw(t) PROVE SocketInv'
  BY <1>6 DEF Throw
<1>7. CASE \E c \in Clients : Accept(c) \/ Connect(c)
  BY <1>7 DEF Accept, Connect
<1>8. CASE \E t \in Threads : Take(t) \/ Serve(t) \/ End(t)
  BY <1>8 DEF Take, Serve, End
<1>9. CASE UNCHANGED vars
  BY <1>9 DEF vars
<1> QED
  BY <1>1, <1>2, <1>3, <1>4, <1>5, <1>6, <1>7, <1>8, <1>9, NextCases
  DEF MainOnly, PoolOnly

-----------------------------------------------------------------------------
(***************************************************************************)
(* The theorems.                                                           *)
(***************************************************************************)
LEMMA InitIInv ==
  Init => IInv
<1> SUFFICES ASSUME Init PROVE IInv
  OBVIOUS
<1> USE DEF Init, Pool!Init, Pool!NoTask, Pool!Slots, Threads
<1>1. TypeOK
  BY DEF TypeOK
<1>2. PhaseInv /\ NumberInv
  BY DEF PhaseInv, NumberInv, Started, Before, After
<1>3. TaskInv /\ FdInv
  BY DEF TaskInv, FdInv, Serving
<1>4. ObjectInv /\ IndexInv
  BY DEF ObjectInv, IndexInv
<1>5. SocketInv
  BY DEF SocketInv, socket_!Init, socket_!OneSocket
<1> QED
  BY <1>1, <1>2, <1>3, <1>4, <1>5 DEF IInv

LEMMA NextIInv ==
  IInv /\ [Next]_vars => IInv'
BY TypeKept, PhaseKept, NumberKept, TaskKept, ObjectKept, FdKept, IndexKept, SocketKept
DEF IInv

LEMMA Invariance ==
  Spec => []IInv
BY InitIInv, NextIInv, PTL DEF Spec

\* Every reachable state is well-formed; a task that is queued or run has its
\* client (HttpServer.cpp:103).
THEOREM TypeCorrect ==
  Spec => []TypeOK
<1>1. IInv => TypeOK
  BY DEF IInv
<1> QED
  BY <1>1, Invariance, PTL

\* Once run() has returned nothing is queued or served.
LEMMA NoneLeft ==
  ASSUME IInv, main \in After, NEW c \in Clients
  PROVE  conn[c] \notin {"queued"} \cup Serving
<1>1. pending = <<>> /\ \A t \in Threads : running[t] = 0
  BY DEF IInv, PhaseInv, Pool!NoTask
<1>2. /\ submitted \in Nat /\ submitted = Len(accepted) /\ Started = submitted
  BY <1>1 DEF IInv, TypeOK, NumberInv, Started
<1>3. \A i \in 1 .. Len(accepted) : ~(i > Started) /\ ~Run(i)
  BY <1>1, <1>2 DEF Run
<1> QED
  BY <1>3 DEF IInv, TaskInv

\* A descriptor is open exactly while its connection is queued or served, and
\* none is left when the pool is gone (HttpServer.cpp:94-113).
THEOREM DescriptorsRight ==
  Spec => []Descriptors
<1>1. IInv => Descriptors
  <2> SUFFICES ASSUME IInv PROVE Descriptors
    OBVIOUS
  <2>1. main \in After => fds = {}
    BY NoneLeft DEF IInv, FdInv
  <2> QED
    BY <2>1 DEF Descriptors, After, IInv, FdInv
<1> QED
  BY <1>1, Invariance, PTL

\* A connection that is served is one thread's, and a queued one has its place
\* in the pool's queue (HttpServer.cpp:101-108).
THEOREM OneThreadEach ==
  Spec => []OneThread
<1>1. ASSUME IInv, NEW c \in Clients, conn[c] \in Serving
      PROVE  \E t \in Threads :
               /\ running[t] # Pool!NoTask /\ ClientOf(t) = c
               /\ \A u \in Threads \ {t} : running[u] # running[t]
  <2>1. PICK i \in 1 .. Len(accepted) : accepted[i] = c
    BY <1>1 DEF IInv, TaskInv
  <2>2. PICK t \in Threads : running[t] = i
    BY <1>1, <2>1 DEF IInv, TaskInv, Run
  <2>3. running[t] # 0
    BY <2>2
  <2> QED
    BY <1>1, <2>1, <2>2, <2>3 DEF ClientOf, IInv, NumberInv, Pool!NoTask
<1>2. ASSUME IInv, NEW c \in Clients, conn[c] = "queued"
      PROVE  \E k \in 1 .. Len(pending) : accepted[pending[k]] = c
  <2>1. PICK i \in 1 .. Len(accepted) : accepted[i] = c
    BY <1>2 DEF IInv, TaskInv
  <2>2. i > Started
    BY <1>2, <2>1 DEF IInv, TaskInv
  <2>3. /\ submitted \in Nat /\ submitted = Len(accepted) /\ Len(pending) \in Nat
    BY <1>2, Numbers DEF IInv
  <2>4. i - Started \in 1 .. Len(pending) /\ Started + (i - Started) = i
    BY <2>2, <2>3 DEF Started
  <2>5. pending[i - Started] = i
    BY <1>2, <2>4 DEF IInv, NumberInv
  <2> QED
    BY <2>1, <2>4, <2>5
<1>3. IInv => OneThread
  BY <1>1, <1>2 DEF OneThread
<1> QED
  BY <1>3, Invariance, PTL

\* While a connection is queued or served the index is there (httpd.cpp:73-78).
THEOREM IndexOutlives ==
  Spec => []IndexOutlivesWork
<1>1. IInv => IndexOutlivesWork
  BY NoneLeft DEF IndexOutlivesWork, IInv, TypeOK, IndexInv, After
<1> QED
  BY <1>1, Invariance, PTL

\* A task object exists exactly while its task is queued or run, but for the
\* one whose accept failed (HttpServer.cpp:98, 103-108, 119).
THEOREM ObjectsFreed ==
  Spec => []TasksFreed
<1>1. ASSUME IInv PROVE TasksFreed
  <2> DEFINE queued == {pending[k] : k \in DOMAIN pending}
             run_by_threads == {running[t] : t \in Threads} \ {Pool!NoTask}
  <2>1. /\ submitted \in Nat /\ submitted = Len(accepted) /\ Len(pending) \in Nat
        /\ Started \in Nat /\ Started <= submitted
        /\ running \in [Threads -> 0 .. submitted]
    BY <1>1, Numbers DEF IInv
  <2>2. DOMAIN pending = 1 .. Len(pending)
    BY <1>1 DEF IInv, TypeOK
  <2>3. \A k \in 1 .. Len(pending) : Started + k \in 1 .. submitted /\ Started + k > Started
    BY <2>1 DEF Started
  <2>4. queued = {i \in 1 .. submitted : i > Started}
    <3>1. \A i \in 1 .. submitted : i > Started =>
            i - Started \in 1 .. Len(pending) /\ Started + (i - Started) = i
      BY <2>1 DEF Started
    <3>2. \A k \in 1 .. Len(pending) : pending[k] = Started + k
      BY <1>1 DEF IInv, NumberInv
    <3> QED
      BY <2>2, <2>3, <3>1, <3>2
  <2>5. run_by_threads = {i \in 1 .. submitted : Run(i)}
    BY <2>1 DEF Run, Pool!NoTask
  <2>6. \A i \in 1 .. submitted : i \in hst <=> i > Started \/ Run(i)
    BY <1>1 DEF IInv, ObjectInv
  <2>7. \A i \in hst : i \in 1 .. submitted \/ i = submitted + 1
    BY <1>1, <2>1 DEF IInv, ObjectInv
  <2> HIDE DEF queued, run_by_threads
  <2>8. queued \cup run_by_threads \subseteq hst
    BY <2>4, <2>5, <2>6
  <2>9. hst \ (queued \cup run_by_threads) \subseteq {Len(accepted) + 1}
    BY <2>1, <2>4, <2>5, <2>6, <2>7
  <2>10. main = "accept" => Len(accepted) + 1 \notin hst
    BY <1>1, <2>1 DEF IInv, ObjectInv
  <2> QED
    BY <2>8, <2>9, <2>10 DEF TasksFreed, queued, run_by_threads
<1> QED
  BY <1>1, Invariance, PTL

\* bind_and_listen closes every socket it could not use, and the destructor the
\* one it could (ServerSocket.cpp:59-94, 28-36).
THEOREM SocketsClosed ==
  Spec => []SocketClosed
<1>1. IInv => SocketClosed
  BY DEF IInv, SocketInv, SocketClosed
<1> QED
  BY <1>1, Invariance, PTL
=============================================================================
