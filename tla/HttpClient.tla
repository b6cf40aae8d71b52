----------------------------- MODULE HttpClient -----------------------------
(***************************************************************************)
(* A client that uses HttpUtils, as the tests do: connect_to_server tries  *)
(* the addresses of the server one after the other, wrapped_write writes   *)
(* buffers whole, however the kernel takes them, and the client closes     *)
(* what connect_to_server gave it, and may start over.                     *)
(*                                                                         *)
(* The bytes a client writes on a connection are numbered from 1.          *)
(***************************************************************************)
EXTENDS Integers, Sequences

CONSTANTS
  Addresses,   \* how many addresses getaddrinfo returns
  Descriptors, \* bound: descriptors the process can have open
  MaxBytes,    \* bound: bytes written on a connection
  MaxCalls     \* bound: calls of connect_to_server

ASSUME AddressesAssumption == Addresses \in Nat /\ Descriptors \in Nat /\ MaxBytes \in Nat

VARIABLES
  pc,              \* where the client is
  calls,           \* how often it has called connect_to_server
  reachable,       \* the addresses the server listens at
  r,               \* the address that is tried
  denied,          \* history: the addresses no socket could be made for
  client_sock, client_fd,
  sockets,         \* the open sockets
  refused,         \* history: the sockets whose connect failed
  size,            \* buf.size()
  written_so_far,
  account,         \* the bytes earlier calls of wrapped_write said they wrote
  peer,            \* "up", or "down": the connection was dropped
  received         \* the bytes the kernel took for the peer

connectVars == <<calls, reachable, r, denied, client_sock, client_fd, sockets, refused>>
writeVars == <<size, written_so_far, account, peer, received>>
vars == <<pc, connectVars, writeVars>>

NoSocket == -1

Init ==
  /\ pc = "idle" /\ calls = 0 /\ reachable \in SUBSET (1 .. Addresses)
  /\ r = 0 /\ denied = {} /\ client_sock = NoSocket /\ client_fd = NoSocket
  /\ sockets = {} /\ refused = {}
  /\ size = 0 /\ written_so_far = 0 /\ account = 0 /\ peer = "up" /\ received = <<>>

-----------------------------------------------------------------------------
Goto(from, to) == pc = from /\ pc' = to

getaddrinfo ==
  /\ calls < MaxCalls /\ calls' = calls + 1
  /\ \/ Goto("idle", "failed") /\ r' = 0
     \/ Goto("idle", "loop") /\ r' = 1
  /\ denied' = {}
  /\ UNCHANGED <<reachable, client_sock, client_fd, sockets, refused, writeVars>>

\* Mutant: the end of the list is taken for an address.
EndToo(k) == k <= Addresses + 1

More(k) == k <= Addresses

\* Mutant: continue skips the step to the next address.
SameAddress(k) == k

\* r->ai_next
NextAddress(k) == k + 1

\* socket fails, always when no descriptor is left.
NoSocketFor ==
  /\ More(r) /\ Goto("loop", "loop")
  /\ r' = NextAddress(r) /\ denied' = denied \cup {r}
  /\ UNCHANGED <<calls, reachable, client_sock, client_fd, sockets, refused, writeVars>>

MakeSocket ==
  /\ More(r) /\ Goto("loop", "connect")
  /\ \E fd \in (0 .. Descriptors - 1) \ sockets :
       client_sock' = fd /\ sockets' = sockets \cup {fd}
  /\ UNCHANGED <<calls, reachable, r, denied, client_fd, refused, writeVars>>

\* Mutant: the first address that refuses ends the loop.
GiveUp == "failed"

AfterRefusal == "loop"

\* The socket is not closed.
Refused ==
  /\ r \notin reachable
  /\ Goto("connect", AfterRefusal)
  /\ r' = NextAddress(r) /\ refused' = refused \cup {client_sock}
  /\ UNCHANGED <<calls, reachable, denied, client_sock, client_fd, sockets, writeVars>>

Connected ==
  /\ r \in reachable
  /\ Goto("connect", "connected")
  /\ client_fd' = client_sock
  /\ peer' = "up" /\ received' = <<>> /\ account' = 0
  /\ UNCHANGED <<calls, reachable, r, denied, client_sock, sockets, refused,
                 size, written_so_far>>

NoAddressLeft ==
  /\ ~More(r) /\ Goto("loop", "failed")
  /\ UNCHANGED <<connectVars, writeVars>>

connect_to_server ==
  NoSocketFor \/ MakeSocket \/ Refused \/ Connected \/ NoAddressLeft

-----------------------------------------------------------------------------
\* The client writes the next n bytes.
CallWrite(n) ==
  /\ Goto("connected", "write")
  /\ account + n <= MaxBytes
  /\ size' = n /\ written_so_far' = 0
  /\ UNCHANGED <<connectVars, account, peer, received>>

\* Mutant: buf.c_str() is handed to every write.
FromTheStart(k) == k

\* buf.c_str() + written_so_far
Offset(k) == written_so_far + k

\* write() takes n bytes of the rest.
Write(n) ==
  /\ peer = "up" /\ n \in 1 .. size - written_so_far
  /\ Goto("write", "write")
  /\ written_so_far' = written_so_far + n
  /\ received' = received \o [k \in 1 .. n |-> account + Offset(k)]
  /\ UNCHANGED <<connectVars, size, account, peer>>

\* Mutant: an interrupted write ends the loop.
Break == "written"

Continue == "write"

\* EAGAIN, EINTR
Interrupted ==
  /\ written_so_far < size
  /\ Goto("write", Continue)
  /\ UNCHANGED <<connectVars, writeVars>>

\* Any other error, or 0.
Fails ==
  /\ peer = "down" /\ written_so_far < size
  /\ Goto("write", "written")
  /\ UNCHANGED <<connectVars, writeVars>>

WroteAll ==
  /\ written_so_far >= size
  /\ Goto("write", "written")
  /\ UNCHANGED <<connectVars, writeVars>>

wrapped_write == WroteAll \/ Fails \/ \E n \in 1 .. size : Write(n)

\* The client notes the result, and goes on if everything was written.
Note ==
  /\ Goto("written", IF written_so_far < size THEN "giving up" ELSE "connected")
  /\ account' = account + written_so_far
  /\ UNCHANGED <<connectVars, size, written_so_far, peer, received>>

CloseFd ==
  /\ pc \in {"connected", "giving up"} /\ pc' = "idle"
  /\ sockets' = sockets \ {client_fd} /\ client_fd' = NoSocket
  /\ UNCHANGED <<calls, reachable, r, denied, client_sock, refused, writeVars>>

Retry == Goto("failed", "idle") /\ UNCHANGED <<connectVars, writeVars>>

Drop ==
  /\ client_fd # NoSocket /\ peer = "up" /\ peer' = "down"
  /\ UNCHANGED <<pc, connectVars, size, written_so_far, account, received>>

Next == \/ getaddrinfo \/ connect_to_server \/ Interrupted \/ wrapped_write
        \/ Note \/ CloseFd \/ Retry \/ Drop \/ \E n \in 0 .. MaxBytes : CallWrite(n)

Spec == Init /\ [][Next]_vars

\* The thread keeps running, and writes are not interrupted for ever.
FairSpec == Spec /\ WF_vars(connect_to_server) /\ WF_vars(wrapped_write)

-----------------------------------------------------------------------------
TypeOK ==
  /\ pc \in {"idle", "loop", "connect", "connected", "failed", "write", "written",
             "giving up"}
  /\ sockets \subseteq 0 .. Descriptors - 1 /\ refused \subseteq sockets
  /\ client_fd \in sockets \cup {NoSocket}
  /\ r \in 0 .. Addresses + 1 /\ denied \subseteq 1 .. Addresses
  /\ peer \in {"up", "down"}

\* connect_to_server gives out a socket that is connected, to the first address
\* that could be, and fails only if no address could be; the sockets that are
\* left open besides are those whose connect failed (HttpUtils.cpp:261-276).
ConnectOutcome ==
  LET possible == reachable \ denied
      held == sockets \ refused
  IN  /\ pc \in {"connected", "write", "written", "giving up"} =>
           /\ r \in possible /\ \A a \in possible : r <= a
           /\ held = {client_fd}
      /\ pc = "failed" => r = 0 \/ possible = {}
      /\ pc \in {"idle", "loop", "failed"} => held = {}

\* The bytes wrapped_write says it wrote, so far.
Taken == account + (IF pc \in {"write", "written"} THEN written_so_far ELSE 0)

Numbers(n) == [k \in 1 .. n |-> k]

\* Whatever pieces the kernel takes, the peer gets the bytes in order and once
\* each, as many as wrapped_write says (HttpUtils.cpp:216-232).
WrittenInOrder == client_fd # NoSocket => received = Numbers(Taken)

\* wrapped_write writes less than the buffer only after "some fatal error"
\* (HttpUtils.hpp:96-99).
ShortMeansFatal ==
  pc = "written" => IF peer = "up" THEN written_so_far = size ELSE written_so_far <= size

\* connect_to_server and wrapped_write return.
CallsReturn ==
  /\ pc \in {"loop", "connect"} ~> pc \in {"connected", "failed"}
  /\ pc = "write" ~> pc = "written"
=============================================================================
