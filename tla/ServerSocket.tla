---------------------------- MODULE ServerSocket ----------------------------
(***************************************************************************)
(* ServerSocket: bind_and_listen tries the addresses getaddrinfo gives it  *)
(* one after the other until one can be bound; accept_client goes on by    *)
(* itself when it is interrupted; the destructor closes the listening      *)
(* socket.  HttpServer composes it with the rest of the server.            *)
(***************************************************************************)
EXTENDS Integers

CONSTANT MaxAddresses   \* bound: addresses getaddrinfo returns

VARIABLES
  bind,             \* where bind_and_listen is; "true" or "false": it returned
  left,             \* addresses not tried yet
  socket_fd,        \* the local variable of that name
  listen_sock_fd_,
  sockets           \* the descriptors of the sockets it has open

socketVars == <<bind, left, socket_fd, listen_sock_fd_, sockets>>

NoSocket == -1

Init == /\ bind = "idle" /\ left = 0 /\ sockets = {}
        /\ socket_fd = NoSocket /\ listen_sock_fd_ = NoSocket

\* The kernel gives out the lowest free descriptor.
Fresh ==
  CHOOSE fd \in 0 .. MaxAddresses : fd \notin sockets /\ \A f \in 0 .. fd - 1 : f \in sockets

getaddrinfo ==
  /\ bind = "idle"
  /\ \/ bind' = "false" /\ UNCHANGED left
     \/ bind' = "next" /\ left' \in 1 .. MaxAddresses
  /\ UNCHANGED <<socket_fd, listen_sock_fd_, sockets>>

NextAddress ==
  /\ bind = "next" /\ left > 0
  /\ left' = left - 1
  /\ \/ bind' = "next" /\ UNCHANGED <<socket_fd, sockets>>      \* socket failed
     \/ bind' = "bind" /\ socket_fd' = Fresh /\ sockets' = sockets \cup {Fresh}
  /\ UNCHANGED listen_sock_fd_

Bound ==
  /\ bind = "bind" /\ bind' = "listen"
  /\ left' = 0                                                  \* freeaddrinfo
  /\ UNCHANGED <<socket_fd, listen_sock_fd_, sockets>>

\* Mutant: a socket that could not be bound is not closed.
StillOpen == sockets

Without == sockets \ {socket_fd}

\* setsockopt or bind failed.
NotBound ==
  /\ bind = "bind" /\ bind' = "next"
  /\ sockets' = Without /\ socket_fd' = NoSocket
  /\ UNCHANGED <<left, listen_sock_fd_>>

NoAddress ==
  /\ bind = "next" /\ left = 0 /\ socket_fd = NoSocket
  /\ bind' = "false" /\ listen_sock_fd_' = NoSocket
  /\ UNCHANGED <<left, socket_fd, sockets>>

listen ==
  /\ bind = "listen"
  /\ \/ bind' = "true" /\ listen_sock_fd_' = socket_fd /\ UNCHANGED sockets
     \/ bind' = "false" /\ listen_sock_fd_' = NoSocket /\ sockets' = sockets \ {socket_fd}
  /\ UNCHANGED <<left, socket_fd>>

bind_and_listen == getaddrinfo \/ NextAddress \/ Bound \/ NotBound \/ NoAddress \/ listen

\* accept failed with EINTR, EAGAIN or EWOULDBLOCK: once more.
AcceptAgain == bind = "true" /\ UNCHANGED socketVars

\* ~ServerSocket
Destroy ==
  /\ sockets' = sockets \ {listen_sock_fd_}
  /\ listen_sock_fd_' = NoSocket
  /\ UNCHANGED <<bind, left, socket_fd>>

\* While bind_and_listen runs the only socket is the one in hand; afterwards
\* it is the listening one, or none (ServerSocket.cpp:59-94).
OneSocket ==
  sockets = (CASE bind \in {"bind", "listen"} -> {socket_fd}
               [] bind = "true" -> {listen_sock_fd_} \ {NoSocket}
               [] OTHER -> {})
=============================================================================
