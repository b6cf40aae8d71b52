------------------------- MODULE ConnectionMapping -------------------------
(***************************************************************************)
(* The mapping from HttpConnection to Connection: what was asked is        *)
(* computed from the whole byte stream at once, and what was answered from *)
(* the whole of what the client received, by a client that goes by         *)
(* Content-length.                                                         *)
(***************************************************************************)
EXTENDS HttpConnection, SequencesExt

\* Reference: the heads in a stream from each place on, each up to the first
\* header end behind the one before it.
EndsFrom(s, p) == {q \in p .. Len(s) - 3 : SubSeq(s, q, q + 3) = kHeaderEnd}

HeadsFrom(s) ==
  LET from[p \in 1 .. Len(s) + 1] ==
        IF EndsFrom(s, p) = {} THEN <<>>
        ELSE <<SubSeq(s, p, Min(EndsFrom(s, p)) - 1)>> \o from[Min(EndsFrom(s, p)) + 4]
  IN  from

Split(s) == HeadsFrom(s)[1]

\* Its well-formed heads up to the first malformed one, or one that the server
\* would take as the last.
Answerable(hs) ==
  LET last == {k \in DOMAIN hs : ~WellFormed(hs[k]) \/ WantsClose(hs[k])}
  IN  IF last = {} THEN hs ELSE SubSeq(hs, 1, Min(last) - 1)

\* Reference: the responses in a stream of tokens from each place on, each as long
\* as its head says.
WholeAt(s, p) ==
  p <= Len(s) /\ s[p] \in ResponseHeads /\ p + s[p].length <= Len(s)

FramesFrom(s) ==
  LET from[p \in 1 .. Len(s) + 1] ==
        IF WholeAt(s, p)
        THEN <<SubSeq(s, p, p + s[p].length)>> \o from[p + s[p].length + 1]
        ELSE <<>>
  IN  from

Framed(s) == FramesFrom(s)[1]

Response(line) == <<[uri |-> line, length |-> Len(Body[line])]>> \o Body[line]

\* For all that a client may have sent: the heads in it, the responses it asks
\* for, and what follows the requests.
Sendable == UNION {Prefixes(s) : s \in Streams}
HeadsIn == [s \in Sendable |-> Split(s)]
Asked ==
  [s \in Sendable |-> LET hs == Answerable(HeadsIn[s])
                      IN  [k \in DOMAIN hs |-> Response(UriOf(hs[k]))]]
Behind ==
  [s \in Sendable |->
     LET k == Len(Asked[s]) + 1
     IN  IF Len(HeadsIn[s]) < k THEN "nothing"
         ELSE IF Throws(HeadsIn[s][k]) THEN "fatal" ELSE "last"]

Sent == SubSeq(stream, 1, Len(stream) - Len(unsent))

-----------------------------------------------------------------------------
StateOf ==
  CASE pc \in {"respond", "write"} -> "answering"
    [] pc \in {"closed", "crashed"} -> pc
    [] OTHER -> IF /\ pc \in {"next", "read"} /\ client \in {"finished", "gone"}
                   /\ wire = <<>> /\ EndsAt(buffer_) = {}
                THEN "stuck" ELSE "reading"

Conn == INSTANCE Connection WITH
  state   <- StateOf,
  asked   <- Asked[Sent],
  behind  <- Behind[Sent],
  replies <- Framed(received),
  away    <- client \in {"reset", "gone"}

\* However the requests are cut into reads and the responses into writes, the
\* client gets the whole responses to its requests, in order, each framed by its
\* Content-length, and none to anything from the first malformed request on
\* (HttpConnection.cpp:48-69, HttpResponse.hpp:64-75, HttpServer.cpp:139-161).
ConnSpec == Conn!Spec

\* Every well-formed request that arrives behind well-formed ones is answered,
\* also when it came in one read with its predecessor, and also when the client
\* has half-closed, unless the client goes away; and after the last answer a
\* malformed request ends the connection
\* (HttpConnection.cpp:48, HttpServer.cpp:139-161).
ConnLive == Conn!Responsive /\ Conn!EndsAtLast
=============================================================================
