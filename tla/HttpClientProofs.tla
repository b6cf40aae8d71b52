-------------------------- MODULE HttpClientProofs --------------------------
(***************************************************************************)
(* Proofs about HttpClient for any number of addresses, descriptors, calls *)
(* and bytes: what connect_to_server gives out and what it leaves open,    *)
(* and that wrapped_write writes every byte once and in order.             *)
(***************************************************************************)
EXTENDS HttpClient, SequenceTheorems, TLAPS

PC == {"idle", "loop", "connect", "connected", "failed", "write", "written", "giving up"}
Open == {"connected", "write", "written", "giving up"}

-----------------------------------------------------------------------------
(***************************************************************************)
(* wrapped_write.                                                          *)
(***************************************************************************)
CountInv ==
  /\ pc \in PC
  /\ size \in Nat /\ written_so_far \in Nat /\ account \in Nat
  /\ peer \in {"up", "down"}
  /\ pc \in {"write", "written"} => written_so_far <= size

\* The bytes' inductive invariant.
WriteInv == CountInv /\ WrittenInOrder /\ ShortMeansFatal

\* The first t numbers and the next n are the first t + n.
LEMMA Extend ==
  ASSUME NEW t \in Nat, NEW n \in Nat
  PROVE  Numbers(t) \o [k \in 1 .. n |-> t + k] = Numbers(t + n)
<1> DEFINE front == [k \in 1 .. t |-> k]
           back  == [k \in 1 .. n |-> t + k]
<1>1. front \in Seq(Nat) /\ Len(front) = t
  OBVIOUS
<1>2. back \in Seq(Nat) /\ Len(back) = n
  OBVIOUS
<1> QED
  BY <1>1, <1>2 DEF Numbers

LEMMA EmptyList ==
  Numbers(0) = <<>>
<1>1. [k \in 1 .. 0 |-> k] \in Seq(Nat) /\ Len([k \in 1 .. 0 |-> k]) = 0
  OBVIOUS
<1> QED
  BY <1>1, EmptySeq DEF Numbers

LEMMA PlusZero ==
  \A k \in Nat : k + 0 = k
OBVIOUS

\* A step that changes neither the count nor the bytes.
LEMMA SameBytes ==
  ASSUME WriteInv, received' = received, Taken' = Taken,
         client_fd' \in {client_fd, NoSocket}
  PROVE  WrittenInOrder'
BY DEF WriteInv, WrittenInOrder, NoSocket

LEMMA WritePreserves ==
  ASSUME WriteInv, NEW n \in 1 .. size, Write(n)
  PROVE  WriteInv'
<1>1. /\ pc = "write" /\ pc' = "write" /\ peer = "up"
      /\ written_so_far' = written_so_far + n /\ n <= size - written_so_far
      /\ size' = size /\ account' = account /\ peer' = peer /\ client_fd' = client_fd
  BY DEF WriteInv, CountInv, Write, Goto, connectVars
<1>2. CountInv' /\ ShortMeansFatal'
  BY <1>1 DEF WriteInv, CountInv, ShortMeansFatal, PC
<1>3. WrittenInOrder'
  <2>1. Taken \in Nat /\ n \in Nat /\ Taken = account + written_so_far
    BY <1>1 DEF WriteInv, CountInv, Taken
  <2>2. Taken' = Taken + n
    BY <1>1, <2>1 DEF WriteInv, CountInv, Taken
  <2>3. received' = received \o [k \in 1 .. n |-> Taken + k]
    <3>1. [k \in 1 .. n |-> account + Offset(k)] = [k \in 1 .. n |-> Taken + k]
      BY <2>1 DEF Offset, WriteInv, CountInv
    <3> QED
      BY <3>1 DEF Write
  <2>4. client_fd # NoSocket => received' = Numbers(Taken + n)
    BY <2>1, <2>3, Extend DEF WriteInv, WrittenInOrder
  <2> QED
    BY <1>1, <2>2, <2>4 DEF WrittenInOrder
<1> QED
  BY <1>2, <1>3 DEF WriteInv

LEMMA InitWriteInv ==
  Init => WriteInv
BY DEF Init, WriteInv, CountInv, WrittenInOrder, ShortMeansFatal, PC

LEMMA NextWriteInv ==
  WriteInv /\ [Next]_vars => WriteInv'
<1> SUFFICES ASSUME WriteInv, [Next]_vars PROVE WriteInv'
  OBVIOUS
<1> USE DEF Goto
<1> DEFINE Counted == CountInv' /\ ShortMeansFatal'
           Same == /\ received' = received /\ Taken' = Taken
                   /\ client_fd' \in {client_fd, NoSocket}
<1>0. Counted /\ Same => WriteInv'
  BY SameBytes DEF WriteInv
<1>1. ASSUME NEW n \in 1 .. size, Write(n) PROVE WriteInv'
  BY <1>1, WritePreserves
<1>2. CASE getaddrinfo \/ Retry
  <2>1. Counted
    BY <1>2 DEF getaddrinfo, Retry, connectVars, writeVars, WriteInv, CountInv,
                ShortMeansFatal, PC
  <2>2. Same
    BY <1>2 DEF getaddrinfo, Retry, connectVars, writeVars, Taken
  <2> QED
    BY <1>0, <2>1, <2>2
<1>3. CASE NoSocketFor \/ MakeSocket \/ Refused \/ NoAddressLeft
  <2> USE DEF NoSocketFor, MakeSocket, Refused, NoAddressLeft, AfterRefusal,
              connectVars, writeVars
  <2>1. Counted
    BY <1>3 DEF WriteInv, CountInv, ShortMeansFatal, PC
  <2>2. Same
    BY <1>3 DEF Taken
  <2> QED
    BY <1>0, <2>1, <2>2
<1>4. CASE Connected
  <2>1. Counted
    BY <1>4 DEF Connected, WriteInv, CountInv, ShortMeansFatal, PC
  <2>2. received' = <<>> /\ Taken' = 0
    BY <1>4 DEF Connected, Taken
  <2> QED
    BY <2>1, <2>2, EmptyList DEF WriteInv, WrittenInOrder
<1>5. ASSUME NEW n \in 0 .. MaxBytes, CallWrite(n) PROVE WriteInv'
  <2>1. n \in Nat
    BY AddressesAssumption
  <2>2. Counted
    BY <1>5, <2>1 DEF CallWrite, connectVars, WriteInv, CountInv, ShortMeansFatal, PC
  <2>3. Same
    BY <1>5 DEF CallWrite, connectVars, Taken
  <2> QED
    BY <1>0, <2>2, <2>3
<1>6. CASE Interrupted \/ Fails \/ WroteAll
  <2> USE DEF Interrupted, Fails, WroteAll, Continue, connectVars, writeVars
  <2>1. /\ pc = "write" /\ pc' \in {"write", "written"}
        /\ size' = size /\ written_so_far' = written_so_far
        /\ account' = account /\ peer' = peer
    BY <1>6
  <2>2. pc' = "written" => IF peer = "up" THEN written_so_far = size
                                          ELSE written_so_far <= size
    BY <1>6 DEF WriteInv, CountInv
  <2>3. Counted
    BY <2>1, <2>2 DEF WriteInv, CountInv, ShortMeansFatal, PC
  <2>4. Same
    BY <1>6, <2>1 DEF Taken
  <2> QED
    BY <1>0, <2>3, <2>4
<1>7. CASE Note
  <2>1. account' = account + written_so_far
    BY <1>7 DEF Note
  <2>2. /\ pc = "written" /\ pc' \in {"giving up", "connected"}
        /\ size' = size /\ written_so_far' = written_so_far /\ peer' = peer
        /\ received' = received /\ client_fd' = client_fd
    BY <1>7 DEF Note, connectVars
  <2>3. account \in Nat /\ written_so_far \in Nat
    BY DEF WriteInv, CountInv
  <2>4. account' \in Nat
    BY <2>1, <2>3
  <2>5. Counted
    BY <2>2, <2>4 DEF WriteInv, CountInv, ShortMeansFatal, PC
  <2>6. Taken = account + written_so_far
    BY <2>2 DEF Taken
  <2>7. Taken' = account'
    <3>1. pc' \notin {"write", "written"}
      BY <2>2
    <3>2. Taken' = account' + 0
      BY <3>1, Zenon DEF Taken
    <3> QED
      BY <2>4, <3>2, PlusZero, Zenon
  <2>8. Same
    BY <2>1, <2>2, <2>6, <2>7
  <2> QED
    BY <1>0, <2>5, <2>8
<1>8. CASE CloseFd \/ Drop \/ UNCHANGED vars
  <2> USE DEF CloseFd, Drop, vars, connectVars, writeVars
  <2>1. Counted
    BY <1>8 DEF WriteInv, CountInv, ShortMeansFatal, PC
  <2>2. Same
    BY <1>8 DEF Taken
  <2> QED
    BY <1>0, <2>1, <2>2
<1> QED
  BY <1>1, <1>2, <1>3, <1>4, <1>5, <1>6, <1>7, <1>8
  DEF Next, connect_to_server, wrapped_write

\* Whatever pieces the kernel takes of a buffer, and however often a write is
\* interrupted, the peer gets the bytes once and in order, as many as
\* wrapped_write returns (HttpUtils.cpp:216-232).
THEOREM InOrder ==
  Spec => []WrittenInOrder
<1>1. WriteInv => WrittenInOrder
  BY DEF WriteInv
<1> QED
  BY <1>1, InitWriteInv, NextWriteInv, PTL DEF Spec

\* Only an error makes wrapped_write return less than the buffer's size
\* (HttpUtils.hpp:96-99).
THEOREM NoShortWrite ==
  Spec => []ShortMeansFatal
<1>1. WriteInv => ShortMeansFatal
  BY DEF WriteInv
<1> QED
  BY <1>1, InitWriteInv, NextWriteInv, PTL DEF Spec

-----------------------------------------------------------------------------
(***************************************************************************)
(* connect_to_server.                                                      *)
(***************************************************************************)
SocketInv ==
  /\ pc \in PC
  /\ reachable \subseteq 1 .. Addresses /\ denied \subseteq Nat /\ r \in Nat
  /\ refused \subseteq sockets
  /\ pc = "connect" => sockets \ refused = {client_sock}

\* While the list is gone through, all in front of r has been tried in vain.
TriedInv ==
  pc \in {"loop", "connect"} =>
    /\ \A a \in reachable \ denied : r <= a
    /\ \A a \in denied : a < r

\* The descriptors' inductive invariant.
ConnectInv == SocketInv /\ TriedInv /\ ConnectOutcome

LEMMA Positive ==
  \A a \in 1 .. Addresses : 1 <= a
BY AddressesAssumption

LEMMA InitConnectInv ==
  Init => ConnectInv
BY DEF Init, ConnectInv, SocketInv, TriedInv, ConnectOutcome, PC

LEMMA NextConnectInv ==
  ConnectInv /\ [Next]_vars => ConnectInv'
<1> SUFFICES ASSUME ConnectInv, [Next]_vars PROVE ConnectInv'
  OBVIOUS
<1> USE DEF ConnectInv, SocketInv, TriedInv, ConnectOutcome, PC, Goto, connectVars
<1>1. CASE getaddrinfo
  <2>1. CASE Goto("idle", "failed") /\ r' = 0
    BY <1>1, <2>1 DEF getaddrinfo
  <2>2. CASE Goto("idle", "loop") /\ r' = 1
    <3>1. /\ reachable' = reachable /\ denied' = {} /\ sockets' = sockets
          /\ refused' = refused /\ client_fd' = client_fd
      BY <1>1 DEF getaddrinfo
    <3>2. \A a \in reachable : 1 <= a
      BY Positive
    <3> QED
      BY <2>2, <3>1, <3>2
  <2> QED
    BY <1>1, <2>1, <2>2 DEF getaddrinfo
<1>2. CASE NoSocketFor
  BY <1>2, AddressesAssumption DEF NoSocketFor, NextAddress, More
<1>3. CASE MakeSocket
  <2> PICK fd \in (0 .. Descriptors - 1) \ sockets :
        client_sock' = fd /\ sockets' = sockets \cup {fd}
    BY <1>3 DEF MakeSocket
  <2>1. sockets' \ refused' = {client_sock'} /\ refused' \subseteq sockets'
    BY <1>3 DEF MakeSocket
  <2> QED
    BY <1>3, <2>1 DEF MakeSocket
<1>4. CASE Refused
  <2>1. sockets' \ refused' = {} /\ refused' \subseteq sockets'
    BY <1>4 DEF Refused
  <2>2. TriedInv'
    BY <1>4 DEF Refused, NextAddress, AfterRefusal
  <2>3. pc' = "loop" /\ r' \in Nat
    BY <1>4 DEF Refused, NextAddress, AfterRefusal
  <2>4. reachable' = reachable /\ denied' = denied
    BY <1>4 DEF Refused
  <2>5. SocketInv'
    BY <2>1, <2>3, <2>4
  <2>6. ConnectOutcome'
    BY <2>1, <2>3
  <2> QED
    BY <2>2, <2>5, <2>6
<1>5. CASE Connected
  BY <1>5 DEF Connected
<1>6. CASE NoAddressLeft
  BY <1>6, AddressesAssumption DEF NoAddressLeft, More
<1>7. ASSUME NEW n, CallWrite(n) \/ Write(n) PROVE ConnectInv'
  BY <1>7 DEF CallWrite, Write
<1>8. CASE Interrupted \/ Fails \/ WroteAll \/ Note \/ Retry \/ Drop
  BY <1>8 DEF Interrupted, Fails, WroteAll, Continue, Note, Retry, Drop
<1>9. CASE CloseFd
  <2>1. sockets' \ refused' = {} /\ refused' \subseteq sockets'
    BY <1>9 DEF CloseFd
  <2> QED
    BY <1>9, <2>1 DEF CloseFd
<1>10. CASE UNCHANGED vars
  BY <1>10 DEF vars
<1> QED
  BY <1>1, <1>2, <1>3, <1>4, <1>5, <1>6, <1>7, <1>8, <1>9, <1>10
  DEF Next, connect_to_server, wrapped_write

\* connect_to_server gives out the socket connected to the first address that
\* could be, and leaves open only those whose connect failed
\* (HttpUtils.cpp:261-276).
THEOREM Outcome ==
  Spec => []ConnectOutcome
<1>1. ConnectInv => ConnectOutcome
  BY DEF ConnectInv
<1> QED
  BY <1>1, InitConnectInv, NextConnectInv, PTL DEF Spec

-----------------------------------------------------------------------------
(***************************************************************************)
(* The types.                                                              *)
(***************************************************************************)

\* An address that is tried is one of the list: the end of it is not.
AddressInv ==
  /\ pc = "loop" => r \in 1 .. Addresses + 1
  /\ pc = "connect" => r \in 1 .. Addresses

LEMMA List ==
  /\ 0 \in 0 .. Addresses + 1 /\ 1 \in 0 .. Addresses + 1 /\ 1 \in 1 .. Addresses + 1
  /\ \A a \in 1 .. Addresses : a + 1 \in 0 .. Addresses + 1 /\ a + 1 \in 1 .. Addresses + 1
BY AddressesAssumption

LEMMA NextType ==
  ConnectInv /\ TypeOK /\ AddressInv /\ [Next]_vars => TypeOK' /\ AddressInv'
<1> SUFFICES ASSUME ConnectInv, TypeOK, AddressInv, [Next]_vars
             PROVE  TypeOK' /\ AddressInv'
  OBVIOUS
<1> USE DEF TypeOK, AddressInv, Goto, connectVars, writeVars
<1>1. CASE getaddrinfo
  BY <1>1, List DEF getaddrinfo
<1>2. CASE NoSocketFor
  <2>1. r \in 1 .. Addresses /\ r' = r + 1
    BY <1>2, AddressesAssumption DEF NoSocketFor, More, NextAddress
  <2>2. r' \in 0 .. Addresses + 1 /\ r' \in 1 .. Addresses + 1
    BY <2>1, List
  <2> QED
    BY <1>2, <2>1, <2>2 DEF NoSocketFor
<1>3. CASE MakeSocket
  <2>1. r \in 1 .. Addresses
    BY <1>3, AddressesAssumption DEF MakeSocket, More
  <2> QED
    BY <1>3, <2>1 DEF MakeSocket
<1>4. CASE Refused
  <2>1. r \in 1 .. Addresses /\ r' = r + 1
    BY <1>4 DEF Refused, NextAddress
  <2>2. r' \in 0 .. Addresses + 1 /\ r' \in 1 .. Addresses + 1
    BY <2>1, List
  <2>3. client_sock \in sockets
    BY <1>4 DEF Refused, ConnectInv, SocketInv
  <2> QED
    BY <1>4, <2>2, <2>3 DEF Refused, AfterRefusal
<1>5. CASE Connected
  <2>1. client_sock \in sockets
    BY <1>5 DEF Connected, ConnectInv, SocketInv
  <2> QED
    BY <1>5, <2>1 DEF Connected
<1>6. CASE NoAddressLeft
  BY <1>6 DEF NoAddressLeft
<1>7. ASSUME NEW n, CallWrite(n) \/ Write(n) PROVE TypeOK' /\ AddressInv'
  BY <1>7 DEF CallWrite, Write
<1>8. CASE Interrupted \/ Fails \/ WroteAll \/ Note \/ Retry \/ Drop
  BY <1>8 DEF Interrupted, Fails, WroteAll, Continue, Note, Retry, Drop
<1>9. CASE CloseFd
  <2>1. sockets \ refused = {client_fd}
    BY <1>9 DEF CloseFd, ConnectInv, ConnectOutcome
  <2>2. refused \subseteq sockets \ {client_fd}
    BY <2>1
  <2> QED
    BY <1>9, <2>2 DEF CloseFd
<1>10. CASE UNCHANGED vars
  BY <1>10 DEF vars
<1> QED
  BY <1>1, <1>2, <1>3, <1>4, <1>5, <1>6, <1>7, <1>8, <1>9, <1>10
  DEF Next, connect_to_server, wrapped_write

\* Every variable keeps its type: no address behind the end of the list is
\* tried, and what client_fd names is open (HttpUtils.cpp:259-276).
THEOREM TypeCorrect ==
  Spec => []TypeOK
<1>1. Init => TypeOK /\ AddressInv
  BY AddressesAssumption DEF Init, TypeOK, AddressInv
<1> QED
  BY <1>1, InitConnectInv, NextConnectInv, NextType, PTL DEF Spec
=============================================================================
