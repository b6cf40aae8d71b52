--------------------------- MODULE HttpConnection ---------------------------
(***************************************************************************)
(* One client connection, as a worker serves it: the loop of               *)
(* HttpServer_ThrFn over HttpConnection::next_request, parse_request and   *)
(* write_response, with a client that sends a byte stream in pieces of any *)
(* size and may half-close or reset the connection at any moment.          *)
(*                                                                         *)
(* A byte stream is a sequence of tokens: CR, LF, and lines, each standing *)
(* for a run of characters without CR and LF (where such a run is cut by a *)
(* read makes no difference, where a "\r\n\r\n" is cut does).  What        *)
(* ProcessRequest makes of a request is left open: a URI has a body, and a *)
(* response is a head with the URI and the length of the body, then the    *)
(* body.                                                                   *)
(***************************************************************************)
EXTENDS Naturals, Sequences

CONSTANTS
  Lines,     \* the lines the client may send
  UriLines,  \* those with at least two words: the second would be the URI
  Header,    \* those with a colon -> what is before it and what is after it
  LowerCase, \* the words to_lower changes -> their lower-case form
  Streams,   \* the byte streams a client may mean to send
  Text,      \* what bodies hold besides things that look like heads
  Body,      \* a first line -> the body_ of the response to it
  ReadMax    \* the size of wrapped_read's buffer, in tokens

CR     == "\r"
LF     == "\n"
Blanks == {" ", "\t", CR, LF}
Tokens == Lines \cup {CR, LF}
kHeaderEnd == <<CR, LF, CR, LF>>
ResponseHeads == [uri : Lines, length : Nat]

ASSUME LinesAssumption == CR \notin Lines /\ LF \notin Lines
ASSUME StreamsAssumption == Streams \subseteq Seq(Tokens)
ASSUME UriLinesAssumption == UriLines \subseteq Lines
ASSUME BodyAssumption == Body \in [UriLines -> Seq(ResponseHeads \cup Text)]
ASSUME ReadMaxAssumption == ReadMax \in Nat \ {0}

VARIABLES
  stream,     \* everything the client means to send
  unsent,     \* what it has not sent yet
  wire,       \* what the kernel holds for the server's read()
  client,     \* the peer: "open", "finished" (it sends no more), "reset" (an error
              \* is pending for the server), "gone" (nothing gets through any more)
  buffer_,    \* the connection's buffer_
  pc,         \* where the worker is
  request,    \* the request head next_request cut out last
  consumed,   \* history: the bytes cut from buffer_ so far
  heads,      \* history: the request heads cut out so far
  out,        \* what write() has still to copy to the kernel
  received    \* what the client got, or will get unless it goes away

clientVars == <<stream, unsent, client>>
answerVars == <<out, received>>
requestVars == <<request, consumed, heads>>
vars == <<clientVars, wire, buffer_, pc, requestVars, answerVars>>

PC == {"next", "read", "parse", "respond", "write", "closing", "closed", "crashed"}

Init ==
  /\ stream \in Streams /\ unsent = stream /\ wire = <<>> /\ client = "open"
  /\ buffer_ = <<>> /\ pc = "next" /\ request = <<>>
  /\ consumed = <<>> /\ heads = <<>> /\ out = <<>> /\ received = <<>>

-----------------------------------------------------------------------------
(***************************************************************************)
(* The client, and TCP.                                                    *)
(***************************************************************************)
ClientSend(n) ==
  /\ client = "open"
  /\ n \in 1 .. Len(unsent)
  /\ wire' = wire \o SubSeq(unsent, 1, n)
  /\ unsent' = SubSeq(unsent, n + 1, Len(unsent))
  /\ UNCHANGED <<stream, client, buffer_, pc, requestVars, answerVars>>

ClientFinish ==
  /\ client = "open"
  /\ client' = "finished"
  /\ UNCHANGED <<stream, unsent, wire, buffer_, pc, requestVars, answerVars>>

\* After the end of the stream the server's read() reports no error any more.
ClientReset ==
  /\ client' = CASE client = "open" -> "reset"
                 [] client = "finished" -> "gone"
                 [] OTHER -> client
  /\ client # client'
  /\ UNCHANGED <<stream, unsent, wire, buffer_, pc, requestVars, answerVars>>

-----------------------------------------------------------------------------
(***************************************************************************)
(* next_request: find the end of the header, reading more until it is      *)
(* there.  The result of wrapped_read is not looked at.                    *)
(***************************************************************************)
Goto(from, to) == pc = from /\ pc' = to

EndsAt(buf) == {p \in 1 .. Len(buf) - 3 : SubSeq(buf, p, p + 3) = kHeaderEnd}

\* Mutant of FindEnd: the last header end is taken.
FindLastEnd(buf) == CHOOSE p \in EndsAt(buf) : \A q \in EndsAt(buf) : p >= q

\* buffer_.find(kHeaderEnd), counting from 1; EndsAt is not empty.
FindEnd(buf) == CHOOSE p \in EndsAt(buf) : \A q \in EndsAt(buf) : p <= q

NoEnd ==
  /\ EndsAt(buffer_) = {}
  /\ Goto("next", "read")
  /\ UNCHANGED <<clientVars, wire, buffer_, requestVars, answerVars>>

\* Mutants: what follows the header end is dropped with it; the header end
\* stays in the buffer.
KeepNothing(buf, p) == <<>>
KeepEnd(buf, p) == SubSeq(buf, p, Len(buf))

\* buffer_.erase(0, pos + kHeaderEndLen)
Rest(buf, p) == SubSeq(buf, p + 4, Len(buf))

CutRequest ==
  /\ EndsAt(buffer_) # {}
  /\ Goto("next", "parse")
  /\ LET p == FindEnd(buffer_) IN
       /\ request' = SubSeq(buffer_, 1, p - 1)
       /\ buffer_' = Rest(buffer_, p)
       /\ consumed' = consumed \o request' \o kHeaderEnd
       /\ heads' = Append(heads, request')
  /\ UNCHANGED <<clientVars, wire, answerVars>>

\* wrapped_read got n tokens; EAGAIN and EINTR make it try again.
Read(n) ==
  /\ n \in 1 .. Len(wire) /\ n <= ReadMax
  /\ Goto("read", "next")
  /\ buffer_' = buffer_ \o SubSeq(wire, 1, n)
  /\ wire' = SubSeq(wire, n + 1, Len(wire))
  /\ UNCHANGED <<clientVars, requestVars, answerVars>>

\* read() returns 0: nothing is appended, and the loop goes on.
ReadEof ==
  /\ client \in {"finished", "gone"} /\ wire = <<>>
  /\ Goto("read", "next")
  /\ UNCHANGED <<clientVars, wire, buffer_, requestVars, answerVars>>

\* read() returns -1: string(buffer, -1) throws, nobody catches it.
ReadError ==
  /\ client = "reset"
  /\ Goto("read", "crashed")
  /\ UNCHANGED <<clientVars, wire, buffer_, requestVars, answerVars>>

-----------------------------------------------------------------------------
(***************************************************************************)
(* parse_request.                                                          *)
(***************************************************************************)
ToLower(s) ==
  [k \in 1 .. Len(s) |-> IF s[k] \in DOMAIN LowerCase THEN LowerCase[s[k]] ELSE s[k]]

\* boost::trim: blanks are dropped at both ends.
Trim(s) ==
  LET solid == {k \in 1 .. Len(s) : s[k] \notin Blanks}
      first == CHOOSE k \in solid : \A j \in solid : k <= j
      last  == CHOOSE k \in solid : \A j \in solid : k >= j
  IN  IF solid = {} THEN <<>> ELSE SubSeq(s, first, last)

\* boost::split on any of "\r\n", and the empty lines removed.
LinesOf(head) == SelectSeq(head, LAMBDA t : t \in Lines)

\* lines.at(0) or first_line_tokens.at(1) throws std::out_of_range.
Throws(head) == ~(LinesOf(head) # <<>> /\ LinesOf(head)[1] \in UriLines)

HeaderLines(head) == Tail(LinesOf(head))

WellFormed(head) ==
  /\ ~Throws(head)
  /\ \A k \in 1 .. Len(HeaderLines(head)) : HeaderLines(head)[k] \in DOMAIN Header

UriOf(head) == LinesOf(head)[1]

Key(line)   == ToLower(Trim(Header[line].name))
Value(line) == ToLower(Trim(Header[line].value))

\* req.GetHeaderValue(name): the last line with that name wins.
GetHeaderValue(head, name) ==
  LET hl   == HeaderLines(head)
      with == {k \in 1 .. Len(hl) : hl[k] \in DOMAIN Header /\ Key(hl[k]) = name}
  IN  IF with = {} THEN <<>>
      ELSE Value(hl[CHOOSE k \in with : \A j \in with : j <= k])

WantsClose(head) ==
  GetHeaderValue(head, <<"connection">>) = <<"close", CR, LF>>

ParseThrows ==
  /\ Throws(request)
  /\ Goto("parse", "crashed")
  /\ UNCHANGED <<clientVars, wire, buffer_, requestVars, answerVars>>

Rejected(head) == ~Throws(head) /\ ~WellFormed(head)

\* next_request returns false, and the worker leaves its loop.
Reject ==
  /\ Rejected(request)
  /\ Goto("parse", "closing")
  /\ UNCHANGED <<clientVars, wire, buffer_, requestVars, answerVars>>

Accept ==
  /\ ~Throws(request) /\ ~Rejected(request)
  /\ Goto("parse", IF WantsClose(request) THEN "closing" ELSE "respond")
  /\ UNCHANGED <<clientVars, wire, buffer_, requestVars, answerVars>>

-----------------------------------------------------------------------------
(***************************************************************************)
(* ProcessRequest and write_response: one write(), whose result is not     *)
(* looked at.  It blocks until the kernel has taken everything (no signal  *)
(* is handled) unless the connection fails.                                *)
(***************************************************************************)
\* Mutant: a length that is one short.
OneShort(body) == IF body = <<>> THEN 0 ELSE Len(body) - 1

ContentLength(body) == Len(body)

GenerateResponseString(line) ==
  <<[uri |-> line, length |-> ContentLength(Body[line])]>> \o Body[line]

Respond ==
  /\ Goto("respond", "write")
  /\ out' = GenerateResponseString(UriOf(request))
  /\ UNCHANGED <<clientVars, wire, buffer_, requestVars, received>>

Write(n) ==
  /\ client \in {"open", "finished"}
  /\ n \in 1 .. Len(out)
  /\ Goto("write", IF n = Len(out) THEN "next" ELSE "write")
  /\ received' = received \o SubSeq(out, 1, n)
  /\ out' = SubSeq(out, n + 1, Len(out))
  /\ UNCHANGED <<clientVars, wire, buffer_, requestVars>>

\* Short, or -1, which takes the pending error with it: true all the same.
WriteFails ==
  /\ client \in {"reset", "gone"}
  /\ Goto("write", "next")
  /\ out' = <<>> /\ client' = "gone"
  /\ UNCHANGED <<stream, unsent, wire, buffer_, requestVars, received>>

\* The worker returns from HttpServer_ThrFn: ~HttpConnection closes fd_.
Close ==
  /\ Goto("closing", "closed")
  /\ UNCHANGED <<clientVars, wire, buffer_, requestVars, answerVars>>

Server == \/ NoEnd \/ CutRequest \/ ReadEof \/ ReadError
          \/ \E n \in 1 .. ReadMax : Read(n)
          \/ ParseThrows \/ Reject \/ Accept \/ Close
          \/ Respond \/ WriteFails \/ \E n \in 1 .. Len(out) : Write(n)

Client == ClientFinish \/ ClientReset \/ \E n \in 1 .. Len(unsent) : ClientSend(n)

\* Nobody serves the connection any more and the client is gone, too.
Over == pc \in {"closed", "crashed"} /\ client \in {"reset", "gone"} /\ UNCHANGED vars

Next == Server \/ Client \/ Over

Spec == Init /\ [][Next]_vars

\* The worker thread keeps running, and a client that is there takes what it is
\* sent; it need not do anything else.
FairSpec == Spec /\ WF_vars(Server)

-----------------------------------------------------------------------------
TypeOK ==
  /\ stream \in Seq(Tokens) /\ unsent \in Seq(Tokens) /\ wire \in Seq(Tokens)
  /\ buffer_ \in Seq(Tokens) /\ request \in Seq(Tokens) /\ consumed \in Seq(Tokens)
  /\ heads \in Seq(Seq(Tokens))
  /\ out \in Seq(ResponseHeads \cup Text) /\ received \in Seq(ResponseHeads \cup Text)
  /\ client \in {"open", "finished", "reset", "gone"}
  /\ pc \in PC

\* However the stream is cut into reads, no byte is lost, duplicated or moved
\* from one request to another (HttpConnection.cpp:41-44, "you need to
\* preserve everything after the \r\n\r\n").
StreamFidelity == consumed \o buffer_ \o wire \o unsent = stream

\* The request being parsed or answered is the head cut last, and it is one
\* head: it holds no header end of its own; and what is answered has a URI
\* (HttpConnection.cpp:48-55, 96-98).
RequestInv ==
  /\ pc \in {"parse", "respond", "write", "closing"} =>
       heads # <<>> /\ request = heads[Len(heads)] /\ EndsAt(request) = {}
  /\ pc \in {"respond", "write"} => ~Throws(request)

\* The bytes' inductive invariant.
StreamInv == TypeOK /\ StreamFidelity /\ RequestInv
=============================================================================
