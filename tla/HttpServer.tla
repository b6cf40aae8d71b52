----------------------------- MODULE HttpServer -----------------------------
(***************************************************************************)
(* httpd: main builds the index and runs the server; HttpServer::run binds,*)
(* accepts connections and dispatches each to the pool of threads, which   *)
(* is TaskPool here (ThreadPool implements it); HttpServer_ThrFn serves a  *)
(* connection on a thread.  When accept fails the pool is destroyed, which *)
(* joins the workers and serves what is left on the main thread, then the  *)
(* index is deleted and the listening socket closed.                       *)
(*                                                                         *)
(* How a connection is read and parsed is HttpConnection's matter; here it *)
(* makes the moves of ConnectionStates, which HttpConnection is shown to   *)
(* make.                                                                   *)
(***************************************************************************)
EXTENDS Integers, Sequences, FiniteSets, ConnectionStates

CONSTANTS Clients,   \* each connects once
          Workers, Main,
          MaxAddresses   \* bound: addresses getaddrinfo returns

ASSUME MainAssumption == Main \notin Workers
ASSUME AddressesAssumption == MaxAddresses \in Nat

VARIABLES
  main,        \* where main() is
  index,       \* "live" or "deleted"
  conn,        \* the state of each client's connection
  accepted,    \* task number -> its client: the fields of HttpServerTask
  fds,         \* the clients whose descriptor the server has open
  hst,         \* the HttpServerTask objects that exist, by task number
  phase, submitted, pending, running, finished,        \* the pool
  bind, left, socket_fd, listen_sock_fd_, sockets           \* socket_

poolVars == <<phase, submitted, pending, running, finished>>
socketVars == <<bind, left, socket_fd, listen_sock_fd_, sockets>>
vars == <<main, index, conn, accepted, fds, hst, poolVars, socketVars>>

Pool == INSTANCE TaskPool WITH Owner <- Main, MaxTasks <- Cardinality(Clients)
socket_ == INSTANCE ServerSocket

Threads == Workers \cup {Main}

Init ==
  /\ main = "args" /\ index = "live"
  /\ conn = [c \in Clients |-> "none"]
  /\ accepted = <<>> /\ fds = {} /\ hst = {}
  /\ Pool!Init /\ socket_!Init

-----------------------------------------------------------------------------
(***************************************************************************)
(* main and HttpServer::run.                                               *)
(***************************************************************************)
Goto(from, to) == main = from /\ main' = to

\* The arguments may be wrong, and the directory unreadable.
GetPortAndPath ==
  /\ Goto("args", "crawl") \/ Goto("args", "exit")
  /\ UNCHANGED <<index, conn, accepted, fds, hst, poolVars, socketVars>>

Crawl ==
  /\ Goto("crawl", "bind") \/ Goto("crawl", "exit")
  /\ UNCHANGED <<index, conn, accepted, fds, hst, poolVars, socketVars>>

BindAndListen ==
  /\ main = "bind" /\ socket_!bind_and_listen
  /\ UNCHANGED <<main, index, conn, accepted, fds, hst, poolVars>>

BindFails ==
  /\ bind = "false" /\ Goto("bind", "delete")
  /\ UNCHANGED <<index, conn, accepted, fds, hst, poolVars, socketVars>>

OpenPool ==
  /\ bind = "true" /\ Goto("bind", "accept")
  /\ Pool!Open
  /\ UNCHANGED <<index, conn, accepted, fds, hst, socketVars>>

\* Mutant: the task is dispatched without the client it was accepted for.
Unset(c) == accepted

Fields(c) == Append(accepted, c)

Accept(c) ==
  /\ main = "accept" /\ conn[c] = "backlog"
  /\ conn' = [conn EXCEPT ![c] = "queued"]
  /\ accepted' = Fields(c)
  /\ fds' = fds \cup {c}
  /\ hst' = hst \cup {submitted + 1}
  /\ Pool!Submit
  /\ UNCHANGED <<main, index, socketVars>>

\* Mutant: the pool outlives run(), as it would on the heap or in HttpServer.
SkipPool == "delete"

\* The pool is a local of run().
AfterLoop == "destroy"

\* Any error but EINTR, EAGAIN and EWOULDBLOCK: EMFILE, ECONNABORTED...  The
\* task that was allocated for the client is never deleted.
AcceptFails ==
  /\ Goto("accept", AfterLoop)
  /\ hst' = hst \cup {submitted + 1}
  /\ UNCHANGED <<index, conn, accepted, fds, poolVars, socketVars>>

\* EINTR and its like.
AcceptAgain ==
  /\ main = "accept" /\ socket_!AcceptAgain
  /\ UNCHANGED <<main, index, conn, accepted, fds, hst, poolVars>>

\* ~ThreadPool: the workers are joined, ...
Join ==
  /\ Goto("destroy", "drain")
  /\ Pool!Drain
  /\ UNCHANGED <<index, conn, accepted, fds, hst, socketVars>>

\* ... and the queue is empty.
PoolGone ==
  /\ Goto("drain", "delete")
  /\ Pool!Close
  /\ UNCHANGED <<index, conn, accepted, fds, hst, socketVars>>

DeleteIndex ==
  /\ Goto("delete", "return")
  /\ index' = "deleted"
  /\ UNCHANGED <<conn, accepted, fds, hst, poolVars, socketVars>>

\* ~HttpServer, ~ServerSocket.
CloseListener ==
  /\ Goto("return", "exit")
  /\ socket_!Destroy
  /\ UNCHANGED <<index, conn, accepted, fds, hst, poolVars>>

-----------------------------------------------------------------------------
(***************************************************************************)
(* HttpServer_ThrFn on thread t.                                           *)
(***************************************************************************)
Alive == main \notin {"exit", "crashed"}
ClientOf(t) == accepted[running[t]]
At(t, state) == Alive /\ running[t] # Pool!NoTask /\ conn[ClientOf(t)] = state
ToState(t, state) == conn' = [conn EXCEPT ![ClientOf(t)] = state]

Take(t) ==
  /\ Alive
  /\ Pool!Start(t)
  /\ conn' = [conn EXCEPT ![accepted[Head(pending)]] = "reading"]
  /\ UNCHANGED <<main, index, accepted, fds, hst, socketVars>>

\* next_request, ProcessRequest (which reads a file or asks the index) and
\* write_response, as far as the connection goes on.
Serve(t) ==
  /\ \E from, to \in Serving :
       <<from, to>> \in Moves /\ At(t, from) /\ ToState(t, to)
  /\ UNCHANGED <<main, index, accepted, fds, hst, poolVars, socketVars>>

\* It calls read() for ever.
Spin(t) == At(t, "stuck") /\ UNCHANGED vars

\* Mutant: ~HttpConnection does not close the descriptor.
KeepOpen(t) == fds

Closed(t) == fds \ {ClientOf(t)}

\* Mutant: the task is not deleted.
KeepTask(t) == hst

Deleted(t) == hst \ {running[t]}

\* next_request returned false: conn and hst go out of scope.
End(t) ==
  /\ At(t, "reading") /\ ToState(t, "closed")
  /\ fds' = Closed(t)
  /\ hst' = Deleted(t)
  /\ Pool!Finish(t)
  /\ UNCHANGED <<main, index, accepted, socketVars>>

\* An exception leaves HttpServer_ThrFn: std::terminate.
Throw(t) ==
  /\ At(t, "reading")
  /\ main' = "crashed"
  /\ UNCHANGED <<index, conn, accepted, fds, hst, poolVars, socketVars>>

-----------------------------------------------------------------------------
\* The kernel completes connections while the socket listens.
Connect(c) ==
  /\ Alive /\ listen_sock_fd_ # socket_!NoSocket /\ conn[c] = "none"
  /\ conn' = [conn EXCEPT ![c] = "backlog"]
  /\ UNCHANGED <<main, index, accepted, fds, hst, poolVars, socketVars>>

run == \/ BindAndListen \/ BindFails \/ OpenPool \/ Join \/ PoolGone
       \/ \E c \in Clients : Accept(c)
MainStep == GetPortAndPath \/ Crawl \/ run \/ DeleteIndex \/ CloseListener
ThrFn(t) == Serve(t) \/ Spin(t) \/ End(t) \/ Throw(t)

Ended == ~Alive /\ UNCHANGED vars

Next == \/ MainStep \/ AcceptFails \/ AcceptAgain \/ Ended
        \/ \E t \in Threads : Take(t) \/ ThrFn(t)
        \/ \E c \in Clients : Connect(c)

Spec == Init /\ [][Next]_vars

\* The main thread keeps running, and the pool starts what it is given
\* (TaskPool's fairness, which ThreadPool implements).  When a client is done,
\* and whether accept fails, is up to others.
FairSpec ==
  /\ Spec
  /\ WF_vars(MainStep)
  /\ WF_vars(\E t \in Threads : Take(t))

-----------------------------------------------------------------------------
\* The types; a task that is queued or run has its client (HttpServer.cpp:103).
TypeOK ==
  /\ main \in {"args", "crawl", "bind", "accept", "destroy", "drain", "delete",
               "return", "exit", "crashed"}
  /\ index \in {"live", "deleted"}
  /\ conn \in [Clients -> {"none", "backlog", "queued", "closed"} \cup Serving]
  /\ accepted \in Seq(Clients)
  /\ fds \subseteq Clients /\ hst \subseteq Nat
  /\ running \in [Threads -> 0 .. Len(accepted)]
  /\ pending \in Seq(1 .. Len(accepted))

\* A descriptor is open exactly while its connection waits in the queue or is
\* being served, and none is left when the pool is gone (HttpServer.cpp:94-113,
\* HttpConnection.hpp:33-38).
Descriptors ==
  /\ fds = {c \in Clients : conn[c] \in {"queued"} \cup Serving}
  /\ main \in {"delete", "return", "exit"} => fds = {}

\* A connection is served by one thread, the one that has its task, and waits
\* in the pool's queue before that.
OneThread ==
  \A c \in Clients :
    /\ conn[c] \in Serving =>
         \E t \in Threads : /\ running[t] # Pool!NoTask /\ ClientOf(t) = c
                            /\ \A u \in Threads \ {t} : running[u] # running[t]
    /\ conn[c] = "queued" =>
         \E k \in 1 .. Len(pending) : accepted[pending[k]] = c

\* While any connection is served or waits to be, the index is there: main
\* deletes it only after the pool has finished every task (httpd.cpp:73-78,
\* HttpServer.cpp:94).
IndexOutlivesWork ==
  (\E c \in Clients : conn[c] \in {"queued"} \cup Serving) => index = "live"

\* A task object exists exactly while it is queued or run: no thread uses a
\* deleted one, and only the one whose accept failed outlives the pool
\* (HttpServer.cpp:98, 103-108, 119).
TasksFreed ==
  LET queued == {pending[k] : k \in DOMAIN pending}
      run_by_threads == {running[t] : t \in Threads} \ {Pool!NoTask}
      leaked == hst \ (queued \cup run_by_threads)
  IN  /\ queued \cup run_by_threads \subseteq hst
      /\ leaked \subseteq {Len(accepted) + 1}
      /\ main = "accept" => leaked = {}

\* If every connection a thread serves ends some day, every accepted one is
\* served to its end, also when the server is on its way down.
ClientsEnd == \A c \in Clients : []<>(conn[c] \notin Serving)
AcceptedServed ==
  ClientsEnd =>
    \A c \in Clients : conn[c] = "queued" ~> conn[c] = "closed" \/ main = "crashed"

\* And then the server that has stopped accepting gets to its end.
ShutsDown == ClientsEnd => (main = "destroy" ~> ~Alive)

\* The only socket is the one bind_and_listen has in hand, then the listening
\* one, and none is left open when the process ends by itself, however many
\* addresses could not be bound (ServerSocket.cpp:59-94, 28-36).
SocketClosed ==
  /\ socket_!OneSocket
  /\ main = "exit" => sockets = {}
=============================================================================
