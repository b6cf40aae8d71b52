-------------------------- MODULE MCHttpConnection --------------------------
(***************************************************************************)
(* Instances of HttpConnection for TLC, and what its comments promise.     *)
(***************************************************************************)
EXTENDS ConnectionMapping

GetA == "GET /a"
GetB == "GET /b"
Host == "HOST : h"
Stop == "Connection: Close"
Junk == "junk"

MCLines == {GetA, GetB, Host, Stop, Junk}

\* Only "junk" has no second word, and it has no colon either.
MCUriLines == MCLines \ {Junk}
MCHeader ==
  [l \in {Host, Stop} |->
     IF l = Host THEN [name |-> <<"HOST", " ">>, value |-> <<" ", "h">>]
                 ELSE [name |-> <<"Connection">>, value |-> <<" ", "Close">>]]
MCLowerCase ==
  [w \in {"HOST", "Connection", "Close"} |->
     CASE w = "HOST" -> "host" [] w = "Close" -> "close" [] OTHER -> "connection"]

\* A body of two parts; one that looks like a response itself; none.
Hello == [uri |-> "hello", length |-> 0]
MCText == {Hello}
MCBody ==
  [l \in MCUriLines |->
     CASE l = GetA -> <<Hello, Hello>> [] l = GetB -> <<[uri |-> GetA, length |-> 1]>>
       [] OTHER -> <<>>]

EOL == <<CR, LF>>
Simple(line) == <<line>> \o kHeaderEnd
WithHeader(line, header) == <<line>> \o EOL \o <<header>> \o kHeaderEnd

\* Back-to-back requests; a bad header between two good requests; a stray empty
\* line before a request; a request that never ends.
GoodStreams ==
  { WithHeader(GetA, Host) \o Simple(GetB) \o <<GetA, CR>>,
    Simple(GetA) \o EOL \o WithHeader(GetB, Host) }
MixedStreams ==
  GoodStreams \cup
  { Simple(GetA) \o WithHeader(GetB, Junk) \o Simple(GetA),
    Simple(GetA) \o kHeaderEnd \o Simple(GetB),
    Simple(Junk), WithHeader(GetA, Stop) \o Simple(GetB) }

-----------------------------------------------------------------------------
(***************************************************************************)
(* What the comments promise and the code does not do.                     *)
(***************************************************************************)

\* HttpConnection.cpp:34, "Keep reading data until either the connection
\* drops": when the client has sent its last byte, the worker gets free.
EndOfStreamCloses == client = "finished" ~> pc \in {"closed", "crashed"}

\* HttpServer.cpp:127-129, "if the client sends a Connection: close header,
\* then shut down the connection": no request is taken after such a one.
AsksToClose(head) == GetHeaderValue(head, <<"connection">>) = <<"close">>
CloseHonoured == \A k \in 1 .. Len(heads) - 1 : ~AsksToClose(heads[k])

\* HttpConnection.hpp:53-56, parse_request "returns false if the Request is an
\* invalid format": it does not bring the server down.
ParseReports == [][pc = "parse" => pc' # "crashed"]_vars

\* HttpUtils.hpp:108, wrapped_read "on fatal error, returns -1".
ReadReports == [][pc = "read" => pc' # "crashed"]_vars
=============================================================================
