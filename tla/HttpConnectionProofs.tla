------------------------ MODULE HttpConnectionProofs ------------------------
(***************************************************************************)
(* Proofs about HttpConnection for any byte streams, any set of lines, any *)
(* bodies and any size of the read buffer: wherever TCP and the reads cut  *)
(* the stream, the heads that were cut out, what is buffered and what is   *)
(* still under way make up the client's stream, in order; and the          *)
(* connection implements Connection.                                       *)
(***************************************************************************)
EXTENDS ConnectionMapping, Induction, SequenceTheorems

-----------------------------------------------------------------------------
(***************************************************************************)
(* Sequences put together and taken apart.                                 *)
(***************************************************************************)
Associates(s, t, u) == (s \o t) \o u = s \o (t \o u)

\* Concatenation associates, as a fact with a name (an equation between sequences
\* makes a rewriting loop of many a leaf).
LEMMA Associative ==
  ASSUME NEW S
  PROVE  \A s, t, u \in Seq(S) : Associates(s, t, u)
BY ConcatAssociative DEF Associates

\* What is put together is there, one behind the other.
LEMMA Glued ==
  ASSUME NEW S, NEW c \in Seq(S), NEW h \in Seq(S)
  PROVE  /\ Len(c) \in Nat /\ Len(h) \in Nat
         /\ c \o h \in Seq(S) /\ Len(c \o h) = Len(c) + Len(h)
         /\ \A i \in 1 .. Len(c) : (c \o h)[i] = c[i]
         /\ \A i \in 1 .. Len(h) : (c \o h)[Len(c) + i] = h[i]
<1>1. Len(c) \in Nat /\ Len(h) \in Nat
  BY LenProperties
<1>2. /\ c \o h \in Seq(S) /\ Len(c \o h) = Len(c) + Len(h)
      /\ \A i \in 1 .. Len(c) + Len(h) :
           (c \o h)[i] = IF i <= Len(c) THEN c[i] ELSE h[i - Len(c)]
  BY ConcatProperties, Zenon
<1> DEFINE s == c \o h
<1> HIDE DEF s
<1>3. \A i \in 1 .. Len(c) : s[i] = c[i]
  BY <1>1, <1>2 DEF s
<1>4. ASSUME NEW i \in 1 .. Len(h) PROVE s[Len(c) + i] = h[i]
  <2>1. /\ Len(c) + i \in 1 .. Len(c) + Len(h) /\ ~(Len(c) + i <= Len(c))
        /\ (Len(c) + i) - Len(c) = i
    BY <1>1
  <2>2. s[Len(c) + i] = h[(Len(c) + i) - Len(c)]
    BY <1>2, <2>1 DEF s
  <2> QED
    BY <2>1, <2>2
<1> QED
  BY <1>1, <1>2, <1>3, <1>4 DEF s

\* A stretch in the middle.
LEMMA MiddleIs ==
  ASSUME NEW S, NEW c \in Seq(S), NEW h \in Seq(S), NEW r \in Seq(S)
  PROVE  SubSeq(c \o (h \o r), Len(c) + 1, Len(c) + Len(h)) = h
<1> DEFINE hr == h \o r
           s == c \o hr
           m == Len(c) + 1
           n == Len(c) + Len(h)
           t == SubSeq(s, m, n)
<1>1. /\ Len(c) \in Nat /\ Len(h) \in Nat /\ Len(r) \in Nat /\ hr \in Seq(S)
      /\ Len(hr) = Len(h) + Len(r) /\ \A i \in 1 .. Len(h) : hr[i] = h[i]
  <2>1. Len(c) \in Nat /\ Len(h) \in Nat /\ Len(r) \in Nat
    BY LenProperties
  <2> QED
    BY <2>1, ConcatProperties
<1> HIDE DEF hr
<1>2. /\ s \in Seq(S) /\ Len(s) = Len(c) + Len(hr)
      /\ \A i \in 1 .. Len(hr) : s[Len(c) + i] = hr[i]
  <2>1. hr \in Seq(S)
    BY <1>1
  <2>2. /\ c \o hr \in Seq(S) /\ Len(c \o hr) = Len(c) + Len(hr)
        /\ \A i \in 1 .. Len(hr) : (c \o hr)[Len(c) + i] = hr[i]
    BY <2>1, Glued
  <2> QED
    BY <2>2
<1> HIDE DEF s
<1>3. m \in Int /\ n \in Int /\ n - m + 1 = Len(h) /\ \A i \in m .. n : s[i] \in S
  <2>1. \A i \in m .. n : i \in 1 .. Len(s)
    BY <1>1, <1>2
  <2>2. \A i \in 1 .. Len(s) : s[i] \in S
    BY <1>2, ElementOfSeq
  <2> QED
    BY <1>1, <2>1, <2>2
<1>4. t \in Seq(S) /\ Len(t) = Len(h) /\ \A i \in 1 .. Len(h) : t[i] = s[m + i - 1]
  <2>1. /\ t \in Seq(S) /\ Len(t) = (IF m <= n THEN n - m + 1 ELSE 0)
        /\ \A i \in 1 .. n - m + 1 : t[i] = s[m + i - 1]
    BY <1>3, SubSeqProperties
  <2> HIDE DEF t
  <2> QED
    BY <1>1, <1>3, <2>1
<1> HIDE DEF t
<1>5. \A i \in 1 .. Len(h) : t[i] = h[i]
  <2>1. ASSUME NEW i \in 1 .. Len(h) PROVE t[i] = h[i]
    <3>1. m + i - 1 = Len(c) + i /\ i \in 1 .. Len(hr)
      BY <1>1
    <3> QED
      BY <1>1, <1>2, <1>4, <3>1
  <2> QED
    BY <2>1
<1>6. t = h
  BY <1>4, <1>5, SeqEqual
<1> QED
  BY <1>6 DEF t, s, hr

\* The first m elements of a sequence.
LEMMA FirstOnes ==
  ASSUME NEW S, NEW s \in Seq(S), NEW m \in 0 .. Len(s)
  PROVE  /\ SubSeq(s, 1, m) \in Seq(S) /\ Len(SubSeq(s, 1, m)) = m
         /\ \A i \in 1 .. m : SubSeq(s, 1, m)[i] = s[i]
<1>1. Len(s) \in Nat /\ m \in Int /\ 0 <= m
  BY LenProperties
<1>2. \A i \in 1 .. m : s[i] \in S
  <2>1. \A i \in 1 .. m : i \in 1 .. Len(s)
    BY <1>1
  <2> QED
    BY <2>1, ElementOfSeq
<1> DEFINE t == SubSeq(s, 1, m)
<1>3. t \in Seq(S) /\ Len(t) = (IF 1 <= m THEN m - 1 + 1 ELSE 0)
  BY <1>1, <1>2, SubSeqProperties
<1>4. \A i \in 1 .. m - 1 + 1 : t[i] = s[1 + i - 1]
  BY <1>1, <1>2, SubSeqProperties
<1> HIDE DEF t
<1>5. Len(t) = m
  BY <1>1, <1>3
<1>6. \A i \in 1 .. m : t[i] = s[i]
  BY <1>1, <1>4
<1> QED
  BY <1>3, <1>5, <1>6 DEF t

\* An element put behind a sequence.
LEMMA Appended ==
  ASSUME NEW S, NEW s \in Seq(S), NEW e \in S
  PROVE  /\ Append(s, e) \in Seq(S) /\ Len(Append(s, e)) = Len(s) + 1
         /\ \A k \in 1 .. Len(s) : Append(s, e)[k] = s[k]
         /\ Append(s, e)[Len(s) + 1] = e
BY AppendProperties

-----------------------------------------------------------------------------
(***************************************************************************)
(* The buffer.                                                             *)
(***************************************************************************)

\* A sequence is its first n elements followed by the others.
LEMMA CutInTwo ==
  ASSUME NEW S, NEW s \in Seq(S), NEW n \in 0 .. Len(s)
  PROVE  /\ SubSeq(s, 1, n) \in Seq(S)
         /\ SubSeq(s, n + 1, Len(s)) \in Seq(S)
         /\ SubSeq(s, 1, n) \o SubSeq(s, n + 1, Len(s)) = s
<1>0. Len(s) \in Nat /\ \A i \in 1 .. Len(s) : s[i] \in S
  BY LenProperties, ElementOfSeq
<1>1. SubSeq(s, 1, n) \in Seq(S)
  BY <1>0, SubSeqProperties
<1>2. SubSeq(s, n + 1, Len(s)) \in Seq(S)
  BY <1>0, SubSeqProperties
<1>3. SubSeq(s, 1, n) \o SubSeq(s, n + 1, Len(s)) = SubSeq(s, 1, Len(s))
  <2>1. 1 \in 1 .. Len(s) + 1 /\ n \in 1 - 1 .. Len(s) /\ Len(s) \in n .. Len(s)
    BY <1>0
  <2> QED
    BY <2>1, ConcatAdjacentSubSeq, Zenon
<1> QED
  BY <1>1, <1>2, <1>3, SubSeqFull

\* find() returns the first place of the header end.
LEMMA FindEndIsFirst ==
  ASSUME NEW buf \in Seq(Tokens), EndsAt(buf) # {}
  PROVE  /\ FindEnd(buf) \in EndsAt(buf)
         /\ \A q \in EndsAt(buf) : FindEnd(buf) <= q
<1>1. EndsAt(buf) \in SUBSET Nat
  BY LenProperties DEF EndsAt
<1>2. \E p \in EndsAt(buf) : \A q \in EndsAt(buf) : p <= q
  BY <1>1, LeastNumber
<1> QED
  BY <1>2 DEF FindEnd

\* Cutting a request out loses nothing of the buffer but the place of the cut,
\* and the head holds no header end of its own.
LEMMA CutEffect ==
  ASSUME NEW buf \in Seq(Tokens), EndsAt(buf) # {}
  PROVE  LET p    == FindEnd(buf)
             head == SubSeq(buf, 1, p - 1)
         IN  /\ head \in Seq(Tokens) /\ Rest(buf, p) \in Seq(Tokens)
             /\ (head \o kHeaderEnd) \o Rest(buf, p) = buf
             /\ EndsAt(head) = {}
<1> DEFINE p == FindEnd(buf)
           head == SubSeq(buf, 1, p - 1)
<1>0. Len(buf) \in Nat /\ \A i \in 1 .. Len(buf) : buf[i] \in Tokens
  BY LenProperties, ElementOfSeq
<1>1. p \in 1 .. Len(buf) - 3 /\ SubSeq(buf, p, p + 3) = kHeaderEnd
  BY FindEndIsFirst DEF EndsAt
<1> HIDE DEF p
<1>2. head \in Seq(Tokens) /\ Len(head) = p - 1
  BY <1>0, <1>1, SubSeqProperties
<1>3. Rest(buf, p) \in Seq(Tokens)
  BY <1>0, <1>1, SubSeqProperties DEF Rest
<1>4. head \o SubSeq(buf, p, p + 3) = SubSeq(buf, 1, p + 3)
  <2>1. /\ 1 \in 1 .. Len(buf) + 1 /\ p - 1 \in 1 - 1 .. Len(buf)
        /\ p + 3 \in p - 1 .. Len(buf) /\ (p - 1) + 1 = p
    BY <1>0, <1>1
  <2> HIDE DEF head
  <2> QED
    BY <2>1, ConcatAdjacentSubSeq, Zenon DEF head
<1>5. SubSeq(buf, 1, p + 3) \o Rest(buf, p) = buf
  <2>1. p + 3 \in 0 .. Len(buf) /\ (p + 3) + 1 = p + 4
    BY <1>0, <1>1
  <2> QED
    BY <2>1, CutInTwo, Zenon DEF Rest
<1>6. EndsAt(head) = {}
  <2> SUFFICES ASSUME NEW q \in EndsAt(head) PROVE FALSE
    OBVIOUS
  <2>1. q \in 1 .. p - 4 /\ SubSeq(head, q, q + 3) = kHeaderEnd
    BY <1>1, <1>2 DEF EndsAt
  <2>2. q \in 1 .. Len(buf) - 3
    BY <1>0, <1>1, <2>1
  <2>3. SubSeq(head, q, q + 3) = SubSeq(buf, q, q + 3)
    <3>1. /\ 1 \in 1 .. Len(buf) /\ p - 1 \in 1 .. Len(buf)
          /\ q \in 1 .. (p - 1) - 1 + 1 /\ q + 3 \in 1 .. (p - 1) - 1 + 1
          /\ 1 + q - 1 = q /\ 1 + (q + 3) - 1 = q + 3
      BY <1>0, <1>1, <2>1
    <3> QED
      BY <3>1, SubSeqOfSubSeq, SMTT(30) DEF head
  <2>4. q \in EndsAt(buf)
    BY <2>1, <2>2, <2>3 DEF EndsAt
  <2>5. p <= q
    BY <2>4, FindEndIsFirst DEF p
  <2> QED
    BY <1>1, <2>1, <2>5
<1> QED
  BY <1>1, <1>2, <1>3, <1>4, <1>5, <1>6 DEF p

-----------------------------------------------------------------------------
(***************************************************************************)
(* The invariant.                                                          *)
(***************************************************************************)

\* Concatenation of token sequences.
LEMMA Concat ==
  /\ \A s, t \in Seq(Tokens) : s \o t \in Seq(Tokens)
  /\ \A s, t, u \in Seq(Tokens) : (s \o t) \o u = s \o (t \o u)
<1>1. ASSUME NEW s \in Seq(Tokens), NEW t \in Seq(Tokens)
      PROVE  s \o t \in Seq(Tokens)
  BY ConcatProperties, Zenon
<1>2. ASSUME NEW s \in Seq(Tokens), NEW t \in Seq(Tokens), NEW u \in Seq(Tokens)
      PROVE  (s \o t) \o u = s \o (t \o u)
  OBVIOUS
<1> QED
  BY <1>1, <1>2

\* Moving the first n tokens of t to the end of s keeps what they spell.
LEMMA MoveTokens ==
  ASSUME NEW s \in Seq(Tokens), NEW t \in Seq(Tokens), NEW n \in 1 .. Len(t)
  PROVE  LET moved == SubSeq(t, 1, n)
             left  == SubSeq(t, n + 1, Len(t))
         IN  /\ s \o moved \in Seq(Tokens) /\ left \in Seq(Tokens)
             /\ (s \o moved) \o left = s \o t
<1> DEFINE moved == SubSeq(t, 1, n)
           left  == SubSeq(t, n + 1, Len(t))
<1>1. n \in 0 .. Len(t)
  BY LenProperties
<1>2. moved \in Seq(Tokens) /\ left \in Seq(Tokens) /\ moved \o left = t
  BY <1>1, CutInTwo
<1> HIDE DEF moved, left
<1>3. s \o moved \in Seq(Tokens)
  BY <1>2, Concat
<1>4. (s \o moved) \o left = s \o (moved \o left)
  <2>1. moved \in Seq(Tokens) /\ left \in Seq(Tokens)
    BY <1>2
  <2>2. Associates(s, moved, left)
    BY <2>1, Associative
  <2> QED
    BY <2>2, Zenon DEF Associates
<1> QED
  BY <1>2, <1>3, <1>4 DEF moved, left

\* What GenerateResponseString returns is a response.
LEMMA ResponseType ==
  ASSUME NEW line \in UriLines
  PROVE  GenerateResponseString(line) \in Seq(ResponseHeads \cup Text)
<1> DEFINE R == ResponseHeads \cup Text
<1>1. Body[line] \in Seq(R)
  BY BodyAssumption
<1>2. Len(Body[line]) \in Nat
  BY <1>1, LenProperties, Zenon
<1>3. [uri |-> line, length |-> ContentLength(Body[line])] \in R
  BY <1>2, UriLinesAssumption DEF ContentLength, ResponseHeads
<1> HIDE DEF R
<1>4. <<[uri |-> line, length |-> ContentLength(Body[line])]>> \in Seq(R)
  BY <1>3
<1>5. GenerateResponseString(line) \in Seq(R)
  BY <1>1, <1>4, ConcatProperties, Zenon DEF GenerateResponseString
<1> QED
  BY <1>5 DEF R

\* What is written of a response are its tokens.
LEMMA WriteType ==
  ASSUME NEW R, out \in Seq(R), received \in Seq(R), NEW n \in 1 .. Len(out)
  PROVE  /\ received \o SubSeq(out, 1, n) \in Seq(R)
         /\ SubSeq(out, n + 1, Len(out)) \in Seq(R)
<1>1. n \in 0 .. Len(out)
  BY LenProperties
<1>2. SubSeq(out, 1, n) \in Seq(R) /\ SubSeq(out, n + 1, Len(out)) \in Seq(R)
  BY <1>1, CutInTwo
<1> QED
  BY <1>2, ConcatProperties, Zenon

LEMMA InitStreamInv ==
  Init => StreamInv
<1> SUFFICES ASSUME Init PROVE StreamInv
  OBVIOUS
<1>1. stream \in Seq(Tokens)
  BY StreamsAssumption DEF Init
<1>2. ((<<>> \o <<>>) \o <<>>) \o stream = stream
  <2>1. <<>> \o stream = stream
    BY <1>1, ConcatEmptySeq
  <2>2. <<>> \o <<>> = <<>>
    BY <1>1, EmptySeq, ConcatEmptySeq
  <2> QED
    BY <2>1, <2>2
<1> QED
  BY <1>1, <1>2 DEF Init, StreamInv, TypeOK, StreamFidelity, RequestInv, PC

LEMMA ClientPreserves ==
  ASSUME StreamInv, NEW n \in 1 .. Len(unsent), ClientSend(n)
  PROVE  StreamInv'
<1>1. TypeOK
  BY DEF StreamInv
<1>2. wire' \in Seq(Tokens) /\ unsent' \in Seq(Tokens) /\ wire' \o unsent' = wire \o unsent
  <2>1. wire \in Seq(Tokens) /\ unsent \in Seq(Tokens)
    BY <1>1 DEF TypeOK
  <2>2. wire' = wire \o SubSeq(unsent, 1, n) /\ unsent' = SubSeq(unsent, n + 1, Len(unsent))
    BY DEF ClientSend
  <2> QED
    BY <2>1, <2>2, MoveTokens, Zenon
<1>3. StreamFidelity'
  <2> DEFINE front == consumed \o buffer_
  <2>1. front \in Seq(Tokens)
    BY <1>1, Concat DEF TypeOK
  <2>2. (front \o wire) \o unsent = front \o (wire \o unsent)
    <3>1. wire \in Seq(Tokens) /\ unsent \in Seq(Tokens)
      BY <1>1 DEF TypeOK
    <3> HIDE DEF front
    <3> QED
      BY <2>1, <3>1, Concat, Zenon
  <2>3. (front \o wire') \o unsent' = front \o (wire' \o unsent')
    BY <1>2, <2>1, Concat
  <2> HIDE DEF front
  <2> QED
    BY <1>2, <2>2, <2>3 DEF front, StreamInv, StreamFidelity, ClientSend, requestVars
<1> QED
  BY <1>1, <1>2, <1>3 DEF StreamInv, TypeOK, RequestInv, ClientSend, requestVars, answerVars, PC

LEMMA ReadPreserves ==
  ASSUME StreamInv, NEW n \in 1 .. ReadMax, Read(n)
  PROVE  StreamInv'
<1>1. TypeOK
  BY DEF StreamInv
<1>2. /\ buffer_' \in Seq(Tokens) /\ wire' \in Seq(Tokens)
      /\ buffer_' \o wire' = buffer_ \o wire
  <2>1. buffer_ \in Seq(Tokens) /\ wire \in Seq(Tokens) /\ n \in 1 .. Len(wire)
    BY <1>1 DEF TypeOK, Read
  <2>2. buffer_' = buffer_ \o SubSeq(wire, 1, n) /\ wire' = SubSeq(wire, n + 1, Len(wire))
    BY DEF Read
  <2> QED
    BY <2>1, <2>2, MoveTokens, Zenon
<1>3. StreamFidelity'
  <2>0. consumed \in Seq(Tokens) /\ buffer_ \in Seq(Tokens) /\ wire \in Seq(Tokens)
    BY <1>1 DEF TypeOK
  <2>1. (consumed \o buffer_) \o wire = consumed \o (buffer_ \o wire)
    BY <2>0, Concat, Zenon
  <2>2. (consumed \o buffer_') \o wire' = consumed \o (buffer_' \o wire')
    BY <1>2, <2>0, Concat, Zenon
  <2> QED
    BY <1>2, <2>1, <2>2 DEF StreamInv, StreamFidelity, Read, clientVars, answerVars, requestVars
<1> QED
  BY <1>1, <1>2, <1>3
  DEF StreamInv, TypeOK, RequestInv, Read, Goto, clientVars, answerVars, requestVars, PC

LEMMA CutPreserves ==
  ASSUME StreamInv, CutRequest
  PROVE  StreamInv'
<1>1. TypeOK
  BY DEF StreamInv
<1>2. /\ request' \in Seq(Tokens) /\ buffer_' \in Seq(Tokens)
      /\ (request' \o kHeaderEnd) \o buffer_' = buffer_
      /\ EndsAt(request') = {}
  BY <1>1, CutEffect DEF TypeOK, CutRequest
<1>3. kHeaderEnd \in Seq(Tokens)
  BY DEF kHeaderEnd, Tokens
<1>4. heads' \in Seq(Seq(Tokens)) /\ heads' # <<>> /\ request' = heads'[Len(heads')]
  <2>1. heads \in Seq(Seq(Tokens)) /\ heads' = Append(heads, request')
    BY <1>1 DEF TypeOK, CutRequest
  <2>2. Append(heads, request') \in Seq(Seq(Tokens))
    BY <1>2, <2>1
  <2>3. Len(heads') = Len(heads) + 1 /\ heads'[Len(heads) + 1] = request'
    BY <1>2, <2>1
  <2> QED
    BY <2>1, <2>2, <2>3, LenProperties
<1>5. /\ consumed' = (consumed \o request') \o kHeaderEnd
      /\ consumed' = consumed \o (request' \o kHeaderEnd)
      /\ request' \o kHeaderEnd \in Seq(Tokens) /\ consumed' \in Seq(Tokens)
  <2>1. consumed \in Seq(Tokens)
    BY <1>1 DEF TypeOK
  <2>2. consumed' = (consumed \o request') \o kHeaderEnd
    BY DEF CutRequest
  <2>3. request' \in Seq(Tokens)
    BY <1>2
  <2>4. Associates(consumed, request', kHeaderEnd)
    BY <1>3, <2>1, <2>3, Associative
  <2>5. request' \o kHeaderEnd \in Seq(Tokens)
    BY <1>3, <2>3, Concat
  <2>6. consumed \o (request' \o kHeaderEnd) \in Seq(Tokens)
    BY <2>1, <2>5, Concat
  <2> QED
    BY <2>2, <2>4, <2>5, <2>6, Zenon DEF Associates
<1>6. consumed' \o buffer_' = consumed \o buffer_
  <2>1. (consumed \o (request' \o kHeaderEnd)) \o buffer_'
          = consumed \o ((request' \o kHeaderEnd) \o buffer_')
    <3>1. consumed \in Seq(Tokens) /\ request' \o kHeaderEnd \in Seq(Tokens)
      BY <1>1, <1>5 DEF TypeOK
    <3>2. buffer_' \in Seq(Tokens)
      BY <1>2
    <3>3. Associates(consumed, request' \o kHeaderEnd, buffer_')
      BY <3>1, <3>2, Associative
    <3> QED
      BY <3>3, Zenon DEF Associates
  <2> QED
    BY <1>2, <1>5, <2>1
<1>7. StreamFidelity'
  BY <1>6 DEF StreamInv, StreamFidelity, CutRequest, clientVars, answerVars, requestVars
<1> QED
  BY <1>1, <1>2, <1>4, <1>5, <1>7
  DEF StreamInv, TypeOK, RequestInv, CutRequest, Goto, clientVars, answerVars, requestVars, PC

LEMMA NextStreamInv ==
  StreamInv /\ [Next]_vars => StreamInv'
<1> SUFFICES ASSUME StreamInv, [Next]_vars PROVE StreamInv'
  OBVIOUS
<1>1. ASSUME NEW n \in 1 .. Len(unsent), ClientSend(n) PROVE StreamInv'
  BY <1>1, ClientPreserves
<1>2. ASSUME NEW n \in 1 .. ReadMax, Read(n) PROVE StreamInv'
  BY <1>2, ReadPreserves
<1>3. CASE CutRequest
  BY <1>3, CutPreserves
<1> USE DEF StreamInv, TypeOK, StreamFidelity, RequestInv, PC, Goto,
            clientVars, answerVars, requestVars
<1>4. CASE ClientFinish \/ ClientReset
  BY <1>4 DEF ClientFinish, ClientReset
<1>5. CASE NoEnd \/ ReadEof \/ ReadError
  BY <1>5 DEF NoEnd, ReadEof, ReadError
<1>6. CASE ParseThrows \/ Reject \/ Accept
  BY <1>6 DEF ParseThrows, Reject, Accept
<1>7. CASE Respond
  <2>1. UriOf(request) \in UriLines
    BY <1>7 DEF Respond, Throws, UriOf
  <2>2. out' \in Seq(ResponseHeads \cup Text)
    BY <1>7, <2>1, ResponseType DEF Respond
  <2> QED
    BY <1>7, <2>2 DEF Respond
<1>10. ASSUME NEW n \in 1 .. Len(out), Write(n) PROVE StreamInv'
  <2>1. /\ received' \in Seq(ResponseHeads \cup Text)
        /\ out' \in Seq(ResponseHeads \cup Text)
    BY <1>10, WriteType DEF Write
  <2> QED
    BY <1>10, <2>1 DEF Write
<1>11. CASE WriteFails
  <2>1. out' \in Seq(ResponseHeads \cup Text)
    BY <1>11, EmptySeq DEF WriteFails
  <2>2. /\ UNCHANGED <<stream, unsent, wire, buffer_, request, consumed, heads, received>>
        /\ pc = "write" /\ pc' = "next" /\ client' = "gone"
    BY <1>11 DEF WriteFails
  <2> QED
    BY <2>1, <2>2
<1>8. CASE Close
  BY <1>8 DEF Close
<1>9. CASE Over \/ UNCHANGED vars
  BY <1>9 DEF Over, vars
<1> QED
  BY <1>1, <1>2, <1>3, <1>4, <1>5, <1>6, <1>7, <1>8, <1>9, <1>10, <1>11
  DEF Next, Server, Client

\* The bytes' invariant holds in every reachable state, whatever the client
\* sends and wherever the reads cut it.
THEOREM StreamInvariance ==
  Spec => []StreamInv
<1> QED
  BY InitStreamInv, NextStreamInv, PTL DEF Spec

\* next_request loses, duplicates and reorders no byte of the stream
\* (HttpConnection.cpp:41-44).
THEOREM Fidelity ==
  Spec => []StreamFidelity
<1>1. StreamInv => StreamFidelity
  BY DEF StreamInv
<1> QED
  BY <1>1, StreamInvariance, PTL

\* What is parsed and answered is one request head, never two run together.
THEOREM OneHead ==
  Spec => []RequestInv
<1>1. StreamInv => RequestInv
  BY DEF StreamInv
<1> QED
  BY <1>1, StreamInvariance, PTL
-----------------------------------------------------------------------------
(***************************************************************************)
(* What is read off a sequence from each of its places on, piece by piece. *)
(***************************************************************************)

\* g[p] is what there is from place p on: nothing where last[p], and otherwise
\* piece[p] and what there is from next[p] on.
Chains(g, n, last, piece, next) ==
  g = [p \in 1 .. n |-> IF last[p] THEN <<>> ELSE <<piece[p]>> \o g[next[p]]]

\* There is such a function: the CHOOSE of a recursive definition finds one.
LEMMA SomethingChains ==
  ASSUME NEW n \in Nat, NEW last, NEW piece, NEW next,
         \A p \in 1 .. n : ~last[p] => next[p] \in p + 1 .. n
  PROVE  \E g : Chains(g, n, last, piece, next)
<1> DEFINE D == 1 .. n
           ChainValue(g, p) == IF last[p] THEN <<>> ELSE <<piece[p]>> \o g[next[p]]
           UpTo(m) == \E g : /\ g = [p \in D |-> g[p]]
                             /\ \A p \in D : p + m > n => g[p] = ChainValue(g, p)
           S == {m \in Nat : UpTo(m)}
<1>1. 0 \in S
  <2> DEFINE g == [p \in D |-> <<>>]
  <2>1. g = [p \in D |-> g[p]] /\ \A p \in D : ~(p + 0 > n)
    OBVIOUS
  <2> HIDE DEF g, ChainValue, D
  <2>2. UpTo(0)
    BY <2>1
  <2> QED
    BY <2>2
<1>2. ASSUME NEW m \in Nat, m \in S PROVE m + 1 \in S
  <2>1. PICK g : g = [p \in D |-> g[p]] /\ \A p \in D : p + m > n => g[p] = ChainValue(g, p)
    BY <1>2
  <2> DEFINE h == [p \in D |-> ChainValue(g, p)]
  <2>2. h = [p \in D |-> h[p]]
    OBVIOUS
  <2>3. ASSUME NEW p \in D, p + (m + 1) > n PROVE h[p] = ChainValue(h, p)
    <3>1. h[p] = ChainValue(g, p)
      OBVIOUS
    <3>2. CASE last[p]
      BY <3>1, <3>2
    <3>3. CASE ~last[p]
      <4>1. next[p] \in D /\ next[p] + m > n
        BY <2>3, <3>3
      <4>2. h[next[p]] = g[next[p]]
        BY <2>1, <4>1
      <4> QED
        BY <3>1, <3>3, <4>2
    <3> QED
      BY <3>2, <3>3
  <2> HIDE DEF h, ChainValue, D
  <2>4. UpTo(m + 1)
    BY <2>2, <2>3
  <2> QED
    BY <1>2, <2>4
<1> HIDE DEF S, UpTo
<1>3. n \in S
  BY <1>1, <1>2, AllNumbers, Zenon
<1>4. PICK g : g = [p \in D |-> g[p]] /\ \A p \in D : p + n > n => g[p] = ChainValue(g, p)
  BY <1>3 DEF S, UpTo
<1>5. \A p \in D : g[p] = ChainValue(g, p)
  <2>1. \A p \in D : p + n > n
    OBVIOUS
  <2> QED
    BY <1>4, <2>1
<1> HIDE DEF D, ChainValue
<1>6. g = [p \in D |-> ChainValue(g, p)]
  BY <1>4, <1>5
<1> QED
  BY <1>6, Zenon DEF Chains, D, ChainValue

\* What there is from a place on is a sequence of pieces.
LEMMA ChainType ==
  ASSUME NEW n \in Nat, NEW last, NEW piece, NEW next, NEW g, NEW S,
         Chains(g, n, last, piece, next),
         \A p \in 1 .. n : ~last[p] => next[p] \in p + 1 .. n /\ piece[p] \in S
  PROVE  \A p \in 1 .. n : g[p] \in Seq(S)
<1> DEFINE E == {m \in Nat : \A p \in 1 .. n : p + m > n => g[p] \in Seq(S)}
<1>0. \A p \in 1 .. n : g[p] = IF last[p] THEN <<>> ELSE <<piece[p]>> \o g[next[p]]
  BY DEF Chains
<1>1. 0 \in E
  OBVIOUS
<1>2. ASSUME NEW m \in Nat, m \in E PROVE m + 1 \in E
  <2>1. ASSUME NEW p \in 1 .. n, p + (m + 1) > n PROVE g[p] \in Seq(S)
    <3>1. CASE last[p]
      <4>1. <<>> \in Seq(S)
        OBVIOUS
      <4> QED
        BY <1>0, <3>1, <4>1, Zenon
    <3>2. CASE ~last[p]
      <4>1. next[p] \in 1 .. n /\ next[p] + m > n /\ piece[p] \in S
        BY <2>1, <3>2
      <4>2. g[next[p]] \in Seq(S) /\ <<piece[p]>> \in Seq(S)
        BY <1>2, <4>1
      <4>3. <<piece[p]>> \o g[next[p]] \in Seq(S)
        BY <4>2, ConcatProperties, Zenon
      <4> QED
        BY <1>0, <3>2, <4>3, Zenon
    <3> QED
      BY <3>1, <3>2
  <2> QED
    BY <2>1
<1> HIDE DEF E
<1>3. n \in E
  BY <1>1, <1>2, AllNumbers, Zenon
<1>4. \A p \in 1 .. n : p + n > n
  OBVIOUS
<1> QED
  BY <1>3, <1>4 DEF E

-----------------------------------------------------------------------------
(***************************************************************************)
(* The heads in a stream.                                                  *)
(***************************************************************************)

\* Where a header end is the first one from p on.
FirstEnd(s, p, q) == q \in EndsFrom(s, p) /\ \A e \in EndsFrom(s, p) : q <= e

\* The least of the header ends is the first, and the first is the least.
LEMMA MinIsFirst ==
  ASSUME NEW s \in Seq(Tokens), NEW p \in Nat, EndsFrom(s, p) # {}
  PROVE  FirstEnd(s, p, Min(EndsFrom(s, p)))
<1>1. EndsFrom(s, p) \in SUBSET Nat
  BY LenProperties DEF EndsFrom
<1>2. \E q \in EndsFrom(s, p) : \A e \in EndsFrom(s, p) : q <= e
  BY <1>1, LeastNumber
<1> QED
  BY <1>2 DEF Min, FirstEnd

LEMMA FirstIsMin ==
  ASSUME NEW s \in Seq(Tokens), NEW p \in Nat, NEW q, FirstEnd(s, p, q)
  PROVE  EndsFrom(s, p) # {} /\ Min(EndsFrom(s, p)) = q
<1>1. EndsFrom(s, p) \in SUBSET Nat
  BY LenProperties DEF EndsFrom
<1>2. EndsFrom(s, p) # {}
  BY DEF FirstEnd
<1>3. FirstEnd(s, p, Min(EndsFrom(s, p)))
  BY <1>2, MinIsFirst
<1> QED
  BY <1>1, <1>2, <1>3 DEF FirstEnd

\* A header end leaves a head before it and a place behind it.
LEMMA EndsType ==
  ASSUME NEW s \in Seq(Tokens), NEW p \in 1 .. Len(s) + 1, NEW q \in EndsFrom(s, p)
  PROVE  /\ q \in p .. Len(s) - 3 /\ q \in 1 .. Len(s) /\ q + 4 \in p + 1 .. Len(s) + 1
         /\ SubSeq(s, p, q - 1) \in Seq(Tokens)
<1>1. q \in p .. Len(s) - 3 /\ Len(s) \in Nat
  BY LenProperties DEF EndsFrom
<1>2. \A i \in p .. q - 1 : s[i] \in Tokens
  BY <1>1, ElementOfSeq
<1> QED
  BY <1>1, <1>2, SubSeqProperties

\* HeadsFrom obeys its equation.
LEMMA HeadsFromIs ==
  ASSUME NEW s \in Seq(Tokens)
  PROVE  \A p \in 1 .. Len(s) + 1 :
           /\ HeadsFrom(s)[p] \in Seq(Seq(Tokens))
           /\ EndsFrom(s, p) = {} => HeadsFrom(s)[p] = <<>>
           /\ \A q : FirstEnd(s, p, q) =>
                HeadsFrom(s)[p] = <<SubSeq(s, p, q - 1)>> \o HeadsFrom(s)[q + 4]
<1> DEFINE n == Len(s) + 1
           last == [p \in 1 .. n |-> EndsFrom(s, p) = {}]
           piece == [p \in 1 .. n |-> SubSeq(s, p, Min(EndsFrom(s, p)) - 1)]
           next == [p \in 1 .. n |-> Min(EndsFrom(s, p)) + 4]
           Unfolds(g) == g = [p \in 1 .. n |->
                                IF EndsFrom(s, p) = {} THEN <<>>
                                ELSE <<SubSeq(s, p, Min(EndsFrom(s, p)) - 1)>>
                                       \o g[Min(EndsFrom(s, p)) + 4]]
<1>0. n \in Nat
  BY LenProperties
<1>1. \A p \in 1 .. n : ~last[p] => next[p] \in p + 1 .. n /\ piece[p] \in Seq(Tokens)
  <2> SUFFICES ASSUME NEW p \in 1 .. n, EndsFrom(s, p) # {}
               PROVE  /\ Min(EndsFrom(s, p)) + 4 \in p + 1 .. n
                      /\ SubSeq(s, p, Min(EndsFrom(s, p)) - 1) \in Seq(Tokens)
    OBVIOUS
  <2>1. Min(EndsFrom(s, p)) \in EndsFrom(s, p)
    BY <1>0, MinIsFirst DEF FirstEnd
  <2> QED
    BY <2>1, EndsType
<1>2. \A g : Chains(g, n, last, piece, next) <=> Unfolds(g)
  <2> SUFFICES ASSUME NEW g
               PROVE  [p \in 1 .. n |-> IF last[p] THEN <<>> ELSE <<piece[p]>> \o g[next[p]]] =
                      [p \in 1 .. n |->
                         IF EndsFrom(s, p) = {} THEN <<>>
                         ELSE <<SubSeq(s, p, Min(EndsFrom(s, p)) - 1)>>
                                \o g[Min(EndsFrom(s, p)) + 4]]
    BY Zenon DEF Chains
  <2> QED
    OBVIOUS
<1>3. \E g : Chains(g, n, last, piece, next)
  <2> HIDE DEF n, last, piece, next
  <2> QED
    BY <1>0, <1>1, SomethingChains
<1> DEFINE h == HeadsFrom(s)
<1>4. h = CHOOSE g : Unfolds(g)
  BY Zenon DEF HeadsFrom
<1> HIDE DEF h, Unfolds, n, last, piece, next
<1>5. Unfolds(h) /\ Chains(h, n, last, piece, next)
  BY <1>2, <1>3, <1>4, Zenon
<1>6. \A p \in 1 .. n : h[p] \in Seq(Seq(Tokens))
  BY <1>0, <1>1, <1>5, ChainType
<1>7. ASSUME NEW p \in 1 .. n
      PROVE  h[p] = IF EndsFrom(s, p) = {} THEN <<>>
                    ELSE <<SubSeq(s, p, Min(EndsFrom(s, p)) - 1)>> \o h[Min(EndsFrom(s, p)) + 4]
  BY <1>5, Zenon DEF Unfolds
<1>8. ASSUME NEW p \in 1 .. n, NEW q, FirstEnd(s, p, q)
      PROVE  h[p] = <<SubSeq(s, p, q - 1)>> \o h[q + 4]
  <2>1. p \in Nat
    BY <1>0
  <2>2. EndsFrom(s, p) # {} /\ Min(EndsFrom(s, p)) = q
    BY <1>8, <2>1, FirstIsMin
  <2> QED
    BY <1>7, <2>2
<1> QED
  BY <1>6, <1>7, <1>8 DEF h, n

LEMMA WindowBefore ==
  ASSUME NEW s \in Seq(Tokens), NEW x \in Seq(Tokens)
  PROVE  /\ Len(s) \in Nat /\ s \o x \in Seq(Tokens) /\ Len(s \o x) = Len(s) + Len(x)
         /\ Len(x) \in Nat
         /\ \A q \in 1 .. Len(s) - 3 : SubSeq(s \o x, q, q + 3) = SubSeq(s, q, q + 3)
<1>1. ASSUME NEW q \in 1 .. Len(s) - 3 PROVE SubSeq(s \o x, q, q + 3) = SubSeq(s, q, q + 3)
  <2>1. q \in 1 .. Len(s) /\ q + 3 \in 1 .. Len(s)
    BY LenProperties
  <2> QED
    BY <2>1, SubSeqOfConcat1, Zenon
<1> QED
  BY <1>1, LenProperties, ConcatProperties

LEMMA WindowBehind ==
  ASSUME NEW c \in Seq(Tokens), NEW s \in Seq(Tokens)
  PROVE  \A q \in 1 .. Len(s) - 3 :
           SubSeq(c \o s, Len(c) + q, Len(c) + q + 3) = SubSeq(s, q, q + 3)
<1> SUFFICES ASSUME NEW q \in 1 .. Len(s) - 3
             PROVE  SubSeq(c \o s, Len(c) + q, Len(c) + q + 3) = SubSeq(s, q, q + 3)
  OBVIOUS
<1> DEFINE m == Len(c) + q
<1>1. /\ m \in Len(c) + 1 .. Len(c) + Len(s) /\ m + 3 \in Len(c) + 1 .. Len(c) + Len(s)
      /\ m - Len(c) = q /\ (m + 3) - Len(c) = q + 3
  BY LenProperties
<1> HIDE DEF m
<1>2. SubSeq(c \o s, m, m + 3) = SubSeq(s, m - Len(c), (m + 3) - Len(c))
  BY <1>1, SubSeqOfConcat2, Zenon
<1> QED
  BY <1>1, <1>2, Zenon DEF m

\* What comes behind a stream does not move a header end, and what comes in front
\* of it moves them all alike.
LEMMA EndExtends ==
  ASSUME NEW s \in Seq(Tokens), NEW x \in Seq(Tokens), NEW p \in 1 .. Len(s) + 1, NEW q,
         FirstEnd(s, p, q)
  PROVE  FirstEnd(s \o x, p, q)
<1>1. q \in p .. Len(s) - 3 /\ SubSeq(s, q, q + 3) = kHeaderEnd
  BY DEF FirstEnd, EndsFrom
<1>2. q \in EndsFrom(s \o x, p)
  BY <1>1, WindowBefore DEF EndsFrom
<1>3. ASSUME NEW e \in EndsFrom(s \o x, p), e < q PROVE FALSE
  <2>1. e \in p .. Len(s) - 3 /\ SubSeq(s \o x, e, e + 3) = kHeaderEnd
    BY <1>1, <1>3 DEF EndsFrom
  <2>2. e \in 1 .. Len(s) - 3
    BY <2>1, WindowBefore
  <2>3. e \in EndsFrom(s, p)
    BY <2>1, <2>2, WindowBefore DEF EndsFrom
  <2> QED
    BY <1>1, <1>3, <2>1, <2>3 DEF FirstEnd
<1>4. \A e \in EndsFrom(s \o x, p) : e \in Int
  BY DEF EndsFrom
<1> QED
  BY <1>1, <1>2, <1>3, <1>4 DEF FirstEnd

LEMMA EndShifts ==
  ASSUME NEW c \in Seq(Tokens), NEW s \in Seq(Tokens)
  PROVE  /\ \A e : e \in EndsFrom(c \o s, Len(c) + 1) <=>
                     e - Len(c) \in EndsFrom(s, 1) /\ e \in Len(c) + 1 .. Len(c) + Len(s)
         /\ \A q : FirstEnd(s, 1, q) => FirstEnd(c \o s, Len(c) + 1, Len(c) + q)
         /\ EndsFrom(s, 1) = {} => EndsFrom(c \o s, Len(c) + 1) = {}
<1>0. Len(c) \in Nat /\ Len(s) \in Nat /\ Len(c \o s) = Len(c) + Len(s)
  BY LenProperties, ConcatProperties
<1>1. ASSUME NEW e, e \in EndsFrom(c \o s, Len(c) + 1)
      PROVE  e - Len(c) \in EndsFrom(s, 1) /\ e \in Len(c) + 1 .. Len(c) + Len(s)
  <2>1. e \in Len(c) + 1 .. Len(c) + Len(s) - 3 /\ SubSeq(c \o s, e, e + 3) = kHeaderEnd
    BY <1>0, <1>1 DEF EndsFrom
  <2> DEFINE q == e - Len(c)
  <2>2. q \in 1 .. Len(s) - 3 /\ Len(c) + q = e
    BY <1>0, <2>1
  <2> HIDE DEF q
  <2>3. SubSeq(s, q, q + 3) = kHeaderEnd
    BY <2>1, <2>2, WindowBehind
  <2>4. q \in EndsFrom(s, 1)
    BY <2>2, <2>3 DEF EndsFrom
  <2> QED
    BY <1>0, <2>1, <2>4 DEF q
<1>2. ASSUME NEW q \in EndsFrom(s, 1)
      PROVE  q \in Int /\ Len(c) + q \in EndsFrom(c \o s, Len(c) + 1)
  <2>1. q \in 1 .. Len(s) - 3 /\ SubSeq(s, q, q + 3) = kHeaderEnd
    BY <1>2 DEF EndsFrom
  <2>2. SubSeq(c \o s, Len(c) + q, Len(c) + q + 3) = kHeaderEnd
    BY <2>1, WindowBehind
  <2> DEFINE e == Len(c) + q
  <2>3. e \in Len(c) + 1 .. Len(c \o s) - 3
    BY <1>0, <2>1
  <2> HIDE DEF e
  <2>4. e \in EndsFrom(c \o s, Len(c) + 1)
    BY <2>2, <2>3 DEF e, EndsFrom
  <2> QED
    BY <2>1, <2>4 DEF e
<1>3. ASSUME NEW e, e - Len(c) \in EndsFrom(s, 1), e \in Len(c) + 1 .. Len(c) + Len(s)
      PROVE  e \in EndsFrom(c \o s, Len(c) + 1)
  <2>1. Len(c) + (e - Len(c)) = e
    BY <1>0, <1>3
  <2>2. Len(c) + (e - Len(c)) \in EndsFrom(c \o s, Len(c) + 1)
    BY <1>2, <1>3
  <2> QED
    BY <2>1, <2>2
<1>4. ASSUME NEW q, FirstEnd(s, 1, q) PROVE FirstEnd(c \o s, Len(c) + 1, Len(c) + q)
  <2>1. q \in Int /\ Len(c) + q \in EndsFrom(c \o s, Len(c) + 1)
    BY <1>2, <1>4 DEF FirstEnd
  <2>2. ASSUME NEW e \in EndsFrom(c \o s, Len(c) + 1) PROVE Len(c) + q <= e
    <3>1. q <= e - Len(c) /\ e \in Int
      BY <1>1, <1>4, <2>2 DEF FirstEnd
    <3> QED
      BY <1>0, <2>1, <3>1
  <2> QED
    BY <2>1, <2>2 DEF FirstEnd
<1> QED
  BY <1>1, <1>3, <1>4

\* The heads in a stream are the first ones of what it goes on to be.
LEMMA HeadsPrefix ==
  ASSUME NEW s \in Seq(Tokens), NEW x \in Seq(Tokens)
  PROVE  \A p \in 1 .. Len(s) + 1 :
           \E t \in Seq(Seq(Tokens)) : HeadsFrom(s \o x)[p] = HeadsFrom(s)[p] \o t
<1> DEFINE n == Len(s) + 1
           f == HeadsFrom(s)
           g == HeadsFrom(s \o x)
           Goes(p) == \E t \in Seq(Seq(Tokens)) : g[p] = f[p] \o t
           E == {m \in Nat : \A p \in 1 .. n : p + m > n => Goes(p)}
<1>0. n \in Nat /\ s \o x \in Seq(Tokens) /\ \A p \in 1 .. n : p \in 1 .. Len(s \o x) + 1
  BY WindowBefore
<1>1. \A p \in 1 .. n :
        /\ f[p] \in Seq(Seq(Tokens)) /\ g[p] \in Seq(Seq(Tokens))
        /\ EndsFrom(s, p) = {} => f[p] = <<>>
        /\ \A q : FirstEnd(s, p, q) =>
             /\ f[p] = <<SubSeq(s, p, q - 1)>> \o f[q + 4]
             /\ FirstEnd(s \o x, p, q)
             /\ g[p] = <<SubSeq(s \o x, p, q - 1)>> \o g[q + 4]
  <2> SUFFICES ASSUME NEW p \in 1 .. n
               PROVE  /\ f[p] \in Seq(Seq(Tokens)) /\ g[p] \in Seq(Seq(Tokens))
                      /\ EndsFrom(s, p) = {} => f[p] = <<>>
                      /\ \A q : FirstEnd(s, p, q) =>
                           /\ f[p] = <<SubSeq(s, p, q - 1)>> \o f[q + 4]
                           /\ FirstEnd(s \o x, p, q)
                           /\ g[p] = <<SubSeq(s \o x, p, q - 1)>> \o g[q + 4]
    OBVIOUS
  <2>1. /\ f[p] \in Seq(Seq(Tokens)) /\ (EndsFrom(s, p) = {} => f[p] = <<>>)
        /\ \A q : FirstEnd(s, p, q) => f[p] = <<SubSeq(s, p, q - 1)>> \o f[q + 4]
    BY HeadsFromIs
  <2>2. /\ g[p] \in Seq(Seq(Tokens))
        /\ \A q : FirstEnd(s \o x, p, q) =>
             g[p] = <<SubSeq(s \o x, p, q - 1)>> \o g[q + 4]
    <3>1. s \o x \in Seq(Tokens) /\ p \in 1 .. Len(s \o x) + 1
      BY <1>0
    <3> QED
      BY <3>1, HeadsFromIs
  <2>3. \A q : FirstEnd(s, p, q) => FirstEnd(s \o x, p, q)
    BY EndExtends
  <2> HIDE DEF f, g
  <2> QED
    BY <2>1, <2>2, <2>3
<1> HIDE DEF f, g
<1>2. 0 \in E
  BY <1>0
<1>3. ASSUME NEW m \in Nat, m \in E PROVE m + 1 \in E
  <2>1. ASSUME NEW p \in 1 .. n, p + (m + 1) > n PROVE Goes(p)
    <3>1. CASE EndsFrom(s, p) = {}
      <4>1. g[p] = <<>> \o g[p]
        BY <1>1, ConcatEmptySeq
      <4> QED
        BY <1>1, <3>1, <4>1
    <3>2. CASE EndsFrom(s, p) # {}
      <4>1. PICK q : FirstEnd(s, p, q)
        <5>1. p \in Nat
          BY <1>0
        <5> QED
          BY <3>2, <5>1, MinIsFirst
      <4>2. q \in p .. Len(s) - 3 /\ q + 4 \in p + 1 .. n /\ SubSeq(s, p, q - 1) \in Seq(Tokens)
        BY <4>1, EndsType DEF FirstEnd
      <4>3. q + 4 \in 1 .. n /\ (q + 4) + m > n
        BY <1>0, <2>1, <4>2
      <4>4. PICK t \in Seq(Seq(Tokens)) : g[q + 4] = f[q + 4] \o t
        BY <1>3, <4>3
      <4>5. SubSeq(s \o x, p, q - 1) = SubSeq(s, p, q - 1)
        <5>1. CASE q - 1 < p
          <6>1. p \in Int /\ q - 1 \in Int
            BY <4>2
          <6> QED
            BY <5>1, <6>1, SubSeqEmpty
        <5>2. CASE p <= q - 1
          <6>1. p \in 1 .. Len(s) /\ q - 1 \in 1 .. Len(s)
            BY <1>0, <4>2, <5>2
          <6> QED
            BY <6>1, SubSeqOfConcat1, Zenon
        <5> QED
          BY <4>2, <5>1, <5>2
      <4> DEFINE h == <<SubSeq(s, p, q - 1)>>
      <4>6. h \in Seq(Seq(Tokens))
        BY <4>2
      <4>7. f[p] = h \o f[q + 4] /\ g[p] = h \o g[q + 4]
        BY <1>1, <4>1, <4>5
      <4> HIDE DEF h
      <4>8. g[p] = f[p] \o t
        <5>1. f[q + 4] \in Seq(Seq(Tokens))
          BY <1>1, <4>3
        <5>2. Associates(h, f[q + 4], t)
          BY <4>4, <4>6, <5>1, Associative
        <5> QED
          BY <4>4, <4>7, <5>2, Zenon DEF Associates
      <4> QED
        BY <4>8
    <3> QED
      BY <3>1, <3>2
  <2> HIDE DEF Goes
  <2> QED
    BY <2>1
<1> HIDE DEF E
<1>4. n \in E
  BY <1>0, <1>2, <1>3, AllNumbers, Zenon
<1>5. \A p \in 1 .. n : p + n > n
  BY <1>0
<1> QED
  BY <1>4, <1>5 DEF E, f, g

-----------------------------------------------------------------------------
(***************************************************************************)
(* What the client has asked for.                                          *)
(***************************************************************************)
Good(head) == WellFormed(head) /\ ~WantsClose(head)

\* The first m heads are those that are answered.
GoodUpTo(hs, m) ==
  /\ m \in 0 .. Len(hs) /\ \A k \in 1 .. m : Good(hs[k])
  /\ m < Len(hs) => ~Good(hs[m + 1])

AnswersTo(hs, m) == [k \in 1 .. m |-> Response(UriOf(hs[k]))]

Parts == ResponseHeads \cup Text

\* There is always a number of heads that are answered, and Answerable cuts there.
LEMMA GoodPrefix ==
  ASSUME NEW hs \in Seq(Seq(Tokens))
  PROVE  \E m \in 0 .. Len(hs) : GoodUpTo(hs, m)
<1> DEFINE bad == {k \in 1 .. Len(hs) : ~Good(hs[k])}
<1>0. Len(hs) \in Nat /\ bad \in SUBSET Nat
  BY LenProperties
<1>1. CASE bad = {}
  <2>1. \A k \in 1 .. Len(hs) : Good(hs[k])
    BY <1>1
  <2>2. Len(hs) \in 0 .. Len(hs) /\ ~(Len(hs) < Len(hs))
    BY <1>0
  <2>3. GoodUpTo(hs, Len(hs))
    BY <2>1, <2>2 DEF GoodUpTo
  <2> QED
    BY <2>2, <2>3
<1>2. CASE bad # {}
  <2>1. PICK b \in bad : \A k \in bad : b <= k
    BY <1>0, <1>2, LeastNumber
  <2>2. /\ b \in 1 .. Len(hs) /\ ~Good(hs[b])
        /\ \A k \in 1 .. Len(hs) : k < b => Good(hs[k])
    BY <1>0, <2>1
  <2>3. /\ b - 1 \in 0 .. Len(hs) /\ (b - 1) + 1 = b
        /\ \A k \in 1 .. b - 1 : k \in 1 .. Len(hs) /\ k < b
    BY <1>0, <2>2
  <2>4. GoodUpTo(hs, b - 1)
    BY <2>2, <2>3 DEF GoodUpTo
  <2> QED
    BY <2>3, <2>4
<1> QED
  BY <1>1, <1>2

LEMMA AnswerableIs ==
  ASSUME NEW hs \in Seq(Seq(Tokens)), NEW m, GoodUpTo(hs, m)
  PROVE  Answerable(hs) = SubSeq(hs, 1, m)
<1> DEFINE last == {k \in DOMAIN hs : ~WellFormed(hs[k]) \/ WantsClose(hs[k])}
<1>0. Len(hs) \in Nat /\ DOMAIN hs = 1 .. Len(hs) /\ m \in 0 .. Len(hs)
  BY LenProperties DEF GoodUpTo
<1>1. Answerable(hs) = IF last = {} THEN hs ELSE SubSeq(hs, 1, Min(last) - 1)
  BY Zenon DEF Answerable
<1>2. \A k : k \in last <=> k \in 1 .. Len(hs) /\ ~Good(hs[k])
  BY <1>0 DEF Good
<1> HIDE DEF last
<1>3. \A k \in last : k \in Int /\ m + 1 <= k
  BY <1>0, <1>2 DEF GoodUpTo
<1>4. CASE m = Len(hs)
  <2>1. last = {}
    BY <1>0, <1>2, <1>3, <1>4
  <2> QED
    BY <1>1, <1>4, <2>1, SubSeqFull
<1>5. CASE m < Len(hs)
  <2>1. m + 1 \in last
    BY <1>0, <1>2, <1>5 DEF GoodUpTo
  <2>2. \E k \in last : \A j \in last : k <= j
    BY <1>3, <2>1
  <2>3. Min(last) \in last /\ \A j \in last : Min(last) <= j
    BY <2>2 DEF Min
  <2>4. Min(last) - 1 = m
    <3> DEFINE b == Min(last)
    <3>1. b \in Int /\ m + 1 <= b /\ b <= m + 1 /\ m \in Int
      BY <1>0, <1>3, <2>1, <2>3
    <3> HIDE DEF b
    <3>2. b - 1 = m
      BY <3>1
    <3> QED
      BY <3>2 DEF b
  <2> QED
    BY <1>1, <2>1, <2>4
<1>6. m = Len(hs) \/ m < Len(hs)
  <2>1. Len(hs) \in Nat /\ m \in 0 .. Len(hs)
    BY <1>0
  <2> QED
    BY ONLY <2>1
<1> QED
  BY <1>4, <1>5, <1>6

\* A head that does not throw has a URI, and what is written for it is the response
\* that the mapping asks for.
LEMMA ResponseIs ==
  ASSUME NEW head, ~Throws(head)
  PROVE  /\ UriOf(head) \in UriLines
         /\ Response(UriOf(head)) = GenerateResponseString(UriOf(head))
         /\ Response(UriOf(head)) \in Seq(Parts)
<1>1. UriOf(head) \in UriLines
  BY DEF Throws, UriOf
<1>2. Response(UriOf(head)) = GenerateResponseString(UriOf(head))
  BY DEF Response, GenerateResponseString, ContentLength
<1> QED
  BY <1>1, <1>2, ResponseType DEF Parts

\* The answers are as many as the heads.
LEMMA AnswersType ==
  ASSUME NEW hs, NEW m \in Nat, \A k \in 1 .. m : Good(hs[k])
  PROVE  /\ AnswersTo(hs, m) \in Seq(Seq(Parts)) /\ Len(AnswersTo(hs, m)) = m
         /\ \A k \in 1 .. m : AnswersTo(hs, m)[k] = Response(UriOf(hs[k]))
<1>1. \A k \in 1 .. m : Response(UriOf(hs[k])) \in Seq(Parts)
  BY ResponseIs DEF Good, WellFormed
<1> QED
  BY <1>1 DEF AnswersTo

\* What was asked, and what is behind it.
LEMMA AskedIs ==
  ASSUME NEW s \in Sendable, NEW hs \in Seq(Seq(Tokens)), HeadsIn[s] = hs, NEW m, GoodUpTo(hs, m)
  PROVE  /\ Asked[s] = AnswersTo(hs, m) /\ Len(Asked[s]) = m
         /\ m = Len(hs) => Behind[s] = "nothing"
         /\ m < Len(hs) => Behind[s] = IF Throws(hs[m + 1]) THEN "fatal" ELSE "last"
<1>0. Len(hs) \in Nat /\ m \in Nat /\ m <= Len(hs) /\ \A k \in 1 .. m : Good(hs[k])
  BY LenProperties DEF GoodUpTo
<1> DEFINE as == Answerable(hs)
<1>1. DOMAIN as = 1 .. m /\ \A k \in 1 .. m : as[k] = hs[k]
  <2>1. m \in 0 .. Len(hs)
    BY <1>0
  <2>2. /\ SubSeq(hs, 1, m) \in Seq(Seq(Tokens)) /\ Len(SubSeq(hs, 1, m)) = m
        /\ \A k \in 1 .. m : SubSeq(hs, 1, m)[k] = hs[k]
    BY <2>1, FirstOnes
  <2>3. as = SubSeq(hs, 1, m)
    BY AnswerableIs
  <2> HIDE DEF as
  <2> QED
    BY <2>2, <2>3, LenProperties
<1>2. Asked[s] = [k \in DOMAIN as |-> Response(UriOf(as[k]))]
  BY Zenon DEF Asked
<1> HIDE DEF as
<1>3. Asked[s] = AnswersTo(hs, m)
  BY <1>1, <1>2 DEF AnswersTo
<1>4. Len(Asked[s]) = m
  BY <1>0, <1>3, AnswersType
<1>5. Behind[s] = IF Len(hs) < m + 1 THEN "nothing"
                  ELSE IF Throws(hs[m + 1]) THEN "fatal" ELSE "last"
  BY <1>4, Zenon DEF Behind
<1> QED
  BY <1>0, <1>3, <1>4, <1>5

-----------------------------------------------------------------------------
(***************************************************************************)
(* The heads that were cut out are those of the stream.                    *)
(***************************************************************************)

\* The stream's heads are those cut out and those of the rest, whatever the rest.
CutSoFar(c, hs) ==
  \A x \in Seq(Tokens) : HeadsFrom(c \o x)[1] = hs \o HeadsFrom(c \o x)[Len(c) + 1]

HeadInv ==
  /\ stream \in Streams
  /\ CutSoFar(consumed, heads)
  /\ pc = "read" => EndsAt(buffer_) = {}

\* What next_request looks for and what the reference looks for are the same.
LEMMA EndsAtIs ==
  \A s : EndsAt(s) = EndsFrom(s, 1)
BY DEF EndsAt, EndsFrom

\* What was sent is what was cut out, what is buffered and what is under way.
LEMMA SentIs ==
  ASSUME StreamInv, stream \in Streams
  PROVE  /\ Sent = (consumed \o buffer_) \o wire /\ Sent \in Seq(Tokens) /\ Sent \in Sendable
         /\ HeadsIn[Sent] = HeadsFrom(Sent)[1] /\ HeadsIn[Sent] \in Seq(Seq(Tokens))
<1> DEFINE s == (consumed \o buffer_) \o wire
<1>1. /\ stream \in Seq(Tokens) /\ unsent \in Seq(Tokens) /\ wire \in Seq(Tokens)
      /\ buffer_ \in Seq(Tokens) /\ consumed \in Seq(Tokens)
  BY DEF StreamInv, TypeOK
<1>2. s \in Seq(Tokens) /\ s \o unsent = stream
  BY <1>1, Concat DEF StreamInv, StreamFidelity
<1> HIDE DEF s
<1>3. /\ Len(s) \in Nat /\ Len(unsent) \in Nat /\ Len(stream) = Len(s) + Len(unsent)
      /\ \A i \in 1 .. Len(s) : stream[i] = s[i]
  <2>1. Len(s) \in Nat /\ Len(unsent) \in Nat
    BY <1>1, <1>2, LenProperties
  <2>2. /\ Len(s \o unsent) = Len(s) + Len(unsent)
        /\ \A i \in 1 .. Len(s) + Len(unsent) :
             (s \o unsent)[i] = IF i <= Len(s) THEN s[i] ELSE unsent[i - Len(s)]
    BY <1>1, <1>2, ConcatProperties
  <2> QED
    BY <1>2, <2>1, <2>2
<1>4. Sent = SubSeq(stream, 1, Len(s))
  <2>1. Len(stream) - Len(unsent) = Len(s)
    BY <1>3
  <2> QED
    BY <2>1 DEF Sent
<1>5. Sent = s
  <2> DEFINE t == SubSeq(stream, 1, Len(s))
  <2>2. t \in Seq(Tokens) /\ Len(t) = Len(s) /\ \A i \in 1 .. Len(s) : t[i] = stream[i]
    <3>1. stream \in Seq(Tokens) /\ Len(s) \in 0 .. Len(stream)
      BY <1>1, <1>3
    <3> HIDE DEF t
    <3> QED
      BY <3>1, FirstOnes DEF t
  <2> HIDE DEF t
  <2>3. \A i \in 1 .. Len(t) : t[i] = s[i]
    BY <1>3, <2>2
  <2>4. t = s
    BY <1>2, <2>2, <2>3, SeqEqual
  <2> QED
    BY <1>4, <2>4 DEF t
<1>6. Sent \in Sendable
  <2>1. Len(s) \in 0 .. Len(stream)
    BY <1>3
  <2>2. Sent \in Prefixes(stream)
    BY <1>4, <2>1, Zenon DEF Prefixes
  <2> QED
    BY <2>2, Zenon DEF Sendable
<1>7. HeadsIn[Sent] = HeadsFrom(Sent)[1]
  BY <1>6, Zenon DEF HeadsIn, Split
<1>8. HeadsFrom(s)[1] \in Seq(Seq(Tokens))
  <2>1. 1 \in 1 .. Len(s) + 1
    BY <1>3
  <2> QED
    BY <1>2, <2>1, HeadsFromIs
<1> QED
  BY <1>2, <1>5, <1>6, <1>7, <1>8 DEF s

\* The heads that are still to be cut out of the stream.
ToCome == HeadsFrom(Sent)[Len(consumed) + 1]

\* What was sent has the heads cut out and those to come; none is to come when the
\* wire is empty and the buffer has no header end.
LEMMA HeadsAre ==
  ASSUME StreamInv, HeadInv
  PROVE  /\ HeadsIn[Sent] = heads \o ToCome /\ ToCome \in Seq(Seq(Tokens))
         /\ EndsAt(buffer_) = {} /\ wire = <<>> => ToCome = <<>>
<1> DEFINE rest == buffer_ \o wire
<1>1. /\ wire \in Seq(Tokens) /\ buffer_ \in Seq(Tokens) /\ consumed \in Seq(Tokens)
      /\ rest \in Seq(Tokens)
  <2>1. wire \in Seq(Tokens) /\ buffer_ \in Seq(Tokens) /\ consumed \in Seq(Tokens)
    BY DEF StreamInv, TypeOK
  <2> QED
    BY <2>1, Concat
<1>2. Sent = consumed \o rest
  <2>1. wire \in Seq(Tokens) /\ buffer_ \in Seq(Tokens) /\ consumed \in Seq(Tokens)
    BY <1>1
  <2>2. Associates(consumed, buffer_, wire)
    BY <2>1, Associative
  <2>3. Sent = (consumed \o buffer_) \o wire
    BY SentIs DEF HeadInv
  <2> QED
    BY <2>2, <2>3, Zenon DEF Associates
<1>3. HeadsIn[Sent] = heads \o ToCome
  <2> HIDE DEF rest
  <2> QED
    BY <1>1, <1>2, SentIs DEF HeadInv, CutSoFar, ToCome
<1>4. Len(consumed) + 1 \in 1 .. Len(Sent) + 1
  BY <1>1, <1>2, LenProperties, ConcatProperties
<1>5. ToCome \in Seq(Seq(Tokens))
  BY <1>4, SentIs, HeadsFromIs DEF HeadInv, ToCome
<1>6. ASSUME EndsAt(buffer_) = {}, wire = <<>> PROVE ToCome = <<>>
  <2>1. rest = buffer_
    BY <1>1, <1>6, ConcatEmptySeq
  <2>2. EndsFrom(consumed \o rest, Len(consumed) + 1) = {}
    BY <1>1, <1>6, <2>1, EndsAtIs, EndShifts
  <2> QED
    BY <1>2, <1>4, <2>2, SentIs, HeadsFromIs DEF HeadInv, ToCome
<1> QED
  BY <1>3, <1>5, <1>6

\* A header end in a stream is one already before what comes behind it.
LEMMA EndShrinks ==
  ASSUME NEW s \in Seq(Tokens), NEW x \in Seq(Tokens), NEW p \in 1 .. Len(s) - 3,
         FirstEnd(s \o x, 1, p)
  PROVE  FirstEnd(s, 1, p)
<1>1. p \in EndsFrom(s, 1)
  BY WindowBefore DEF FirstEnd, EndsFrom
<1>2. ASSUME NEW e \in EndsFrom(s, 1) PROVE p <= e
  <2>1. e \in 1 .. Len(s) - 3 /\ SubSeq(s, e, e + 3) = kHeaderEnd
    BY DEF EndsFrom
  <2>2. e \in 1 .. Len(s \o x) - 3 /\ SubSeq(s \o x, e, e + 3) = kHeaderEnd
    BY <2>1, WindowBefore
  <2> QED
    BY <2>2 DEF FirstEnd, EndsFrom
<1> QED
  BY <1>1, <1>2 DEF FirstEnd

\* The next head that is cut out is the stream's next head.
LEMMA CutGoesOn ==
  ASSUME NEW c \in Seq(Tokens), NEW hs \in Seq(Seq(Tokens)), CutSoFar(c, hs),
         NEW h \in Seq(Tokens), NEW r \in Seq(Tokens),
         FirstEnd((h \o kHeaderEnd) \o r, 1, Len(h) + 1)
  PROVE  CutSoFar(c \o (h \o kHeaderEnd), Append(hs, h))
<1> DEFINE w == h \o kHeaderEnd
<1>0. kHeaderEnd \in Seq(Tokens) /\ Len(kHeaderEnd) = 4
  BY DEF kHeaderEnd, Tokens
<1>1. w \in Seq(Tokens) /\ Len(w) = Len(h) + 4 /\ Len(h) \in Nat /\ Len(c) \in Nat
  <2>1. kHeaderEnd \in Seq(Tokens)
    BY <1>0
  <2>2. h \o kHeaderEnd \in Seq(Tokens) /\ Len(h \o kHeaderEnd) = Len(h) + Len(kHeaderEnd)
    BY <2>1, Glued
  <2> QED
    BY <1>0, <2>2, LenProperties
<1>2. FirstEnd(w, 1, Len(h) + 1)
  <2>1. Len(h) + 1 \in 1 .. Len(w) - 3
    BY <1>1
  <2> HIDE DEF w
  <2>2. FirstEnd(w \o r, 1, Len(h) + 1)
    BY DEF w
  <2> QED
    BY <1>1, <2>1, <2>2, EndShrinks
<1> SUFFICES ASSUME NEW x \in Seq(Tokens)
             PROVE  HeadsFrom((c \o w) \o x)[1] =
                    Append(hs, h) \o HeadsFrom((c \o w) \o x)[Len(c \o w) + 1]
  BY DEF CutSoFar
<1> DEFINE wx == w \o x
           y == c \o wx
           rest == HeadsFrom(y)[Len(c \o w) + 1]
<1>3. wx = h \o (kHeaderEnd \o x) /\ kHeaderEnd \o x \in Seq(Tokens)
  <2>1. kHeaderEnd \in Seq(Tokens)
    BY <1>0
  <2>2. Associates(h, kHeaderEnd, x)
    BY <2>1, Associative
  <2>3. kHeaderEnd \o x \in Seq(Tokens)
    BY <2>1, Concat
  <2> QED
    BY <2>2, <2>3, Zenon DEF Associates
<1> HIDE DEF w
<1>4. /\ wx \in Seq(Tokens) /\ Len(wx) = Len(w) + Len(x) /\ y \in Seq(Tokens)
      /\ Len(x) \in Nat /\ Len(c \o w) = Len(c) + Len(w) /\ (c \o w) \o x = y
  <2>1. w \in Seq(Tokens)
    BY <1>1
  <2>2. wx \in Seq(Tokens) /\ Len(wx) = Len(w) + Len(x) /\ Len(x) \in Nat
    BY <2>1, Glued
  <2>3. Len(c \o w) = Len(c) + Len(w) /\ (c \o w) \o x = y
    <3>1. Associates(c, w, x)
      BY <2>1, Associative
    <3>2. Len(c \o w) = Len(c) + Len(w)
      BY <2>1, Glued
    <3> QED
      BY <3>1, <3>2, Zenon DEF Associates
  <2> HIDE DEF wx
  <2>4. y \in Seq(Tokens)
    BY <2>2, Concat
  <2> QED
    BY <2>2, <2>3, <2>4
<1>5. FirstEnd(wx, 1, Len(h) + 1)
  <2>1. 1 \in 1 .. Len(w) + 1
    BY <1>1
  <2> QED
    BY <1>1, <1>2, <2>1, EndExtends
<1> HIDE DEF wx
<1>6. /\ FirstEnd(y, Len(c) + 1, Len(c) + (Len(h) + 1))
      /\ Len(y) = Len(c) + Len(wx)
  <2>1. wx \in Seq(Tokens)
    BY <1>4
  <2>2. Len(y) = Len(c) + Len(wx)
    BY <2>1, Glued
  <2> QED
    BY <1>5, <2>1, <2>2, EndShifts
<1>7. SubSeq(y, Len(c) + 1, Len(c) + Len(h)) = h
  <2>1. y = c \o (h \o (kHeaderEnd \o x))
    BY <1>3
  <2> QED
    BY <1>3, <2>1, MiddleIs
<1> HIDE DEF y
<1>8. /\ Len(c) + 1 \in 1 .. Len(y) + 1 /\ Len(c \o w) + 1 \in 1 .. Len(y) + 1
      /\ (Len(c) + (Len(h) + 1)) - 1 = Len(c) + Len(h)
      /\ (Len(c) + (Len(h) + 1)) + 4 = Len(c \o w) + 1
  <2>1. PICK cn, hn, wn, xn, yn, cwn :
          /\ cn = Len(c) /\ hn = Len(h) /\ wn = Len(w) /\ xn = Len(x) /\ yn = Len(y)
          /\ cwn = Len(c \o w)
    OBVIOUS
  <2>2. /\ cn \in Nat /\ hn \in Nat /\ xn \in Nat /\ wn = hn + 4
        /\ yn = cn + (wn + xn) /\ cwn = cn + wn
    BY <1>1, <1>4, <1>6, <2>1
  <2>3. /\ cn + 1 \in 1 .. yn + 1 /\ cwn + 1 \in 1 .. yn + 1
        /\ (cn + (hn + 1)) - 1 = cn + hn /\ (cn + (hn + 1)) + 4 = cwn + 1
    BY <2>2
  <2> QED
    BY <2>1, <2>3
<1>9. HeadsFrom(y)[Len(c) + 1] = <<h>> \o rest
  <2>1. PICK p, q : p = Len(c) + 1 /\ q = Len(c) + (Len(h) + 1)
    OBVIOUS
  <2>2. p \in 1 .. Len(y) + 1 /\ FirstEnd(y, p, q)
    BY <1>6, <1>8, <2>1
  <2>3. HeadsFrom(y)[p] = <<SubSeq(y, p, q - 1)>> \o HeadsFrom(y)[q + 4]
    BY <1>4, <2>2, HeadsFromIs
  <2> QED
    BY <1>7, <1>8, <2>1, <2>3
<1>10. HeadsFrom(y)[1] = hs \o (<<h>> \o rest)
  <2>1. HeadsFrom(y)[1] = hs \o HeadsFrom(y)[Len(c) + 1]
    BY <1>4 DEF CutSoFar, y
  <2> QED
    BY <1>9, <2>1, Zenon
<1>11. rest \in Seq(Seq(Tokens)) /\ <<h>> \in Seq(Seq(Tokens))
  <2>1. rest \in Seq(Seq(Tokens))
    BY <1>4, <1>8, HeadsFromIs
  <2> HIDE DEF rest
  <2> QED
    BY <2>1
<1> HIDE DEF rest
<1>12. Associates(hs, <<h>>, rest)
  BY <1>11, Associative
<1>13. Append(hs, h) = hs \o <<h>>
  BY AppendIsConcat
<1>14. HeadsFrom(y)[1] = Append(hs, h) \o rest
  BY <1>10, <1>12, <1>13, Zenon DEF Associates
<1> QED
  BY <1>4, <1>14, Zenon DEF rest

\* HeadInv holds in every reachable state: only CutRequest touches what it is about.
LEMMA CutHeadInv ==
  ASSUME StreamInv, HeadInv, CutRequest
  PROVE  HeadInv'
<1> DEFINE h == SubSeq(buffer_, 1, FindEnd(buffer_) - 1)
           r == Rest(buffer_, FindEnd(buffer_))
<1>1. buffer_ \in Seq(Tokens) /\ consumed \in Seq(Tokens) /\ heads \in Seq(Seq(Tokens))
  BY DEF StreamInv, TypeOK
<1>2. /\ h \in Seq(Tokens) /\ r \in Seq(Tokens) /\ (h \o kHeaderEnd) \o r = buffer_
      /\ EndsAt(buffer_) # {}
  BY <1>1, CutEffect, Zenon DEF CutRequest
<1>3. FirstEnd(buffer_, 1, FindEnd(buffer_)) /\ FindEnd(buffer_) \in 1 .. Len(buffer_) - 3
  BY <1>1, <1>2, FindEndIsFirst, EndsAtIs DEF FirstEnd, EndsAt
<1>4. Len(h) + 1 = FindEnd(buffer_)
  <2> DEFINE p == FindEnd(buffer_)
  <2>1. p \in 1 .. Len(buffer_) - 3 /\ Len(buffer_) \in Nat
    BY <1>1, <1>3, LenProperties
  <2> HIDE DEF p
  <2>2. \A i \in 1 .. p - 1 : buffer_[i] \in Tokens
    BY <1>1, <2>1, ElementOfSeq
  <2>3. Len(SubSeq(buffer_, 1, p - 1)) = p - 1
    BY <2>1, <2>2, SubSeqProperties
  <2>4. Len(SubSeq(buffer_, 1, p - 1)) + 1 = p
    BY <2>1, <2>3
  <2> QED
    BY <2>4 DEF p
<1>5. /\ consumed' = (consumed \o h) \o kHeaderEnd /\ heads' = Append(heads, h)
      /\ stream' = stream /\ pc' = "parse"
  BY DEF CutRequest, clientVars, Goto
<1> HIDE DEF h, r
<1>6. consumed' = consumed \o (h \o kHeaderEnd)
  <2>1. kHeaderEnd \in Seq(Tokens)
    BY DEF kHeaderEnd, Tokens
  <2>2. consumed \in Seq(Tokens) /\ h \in Seq(Tokens)
    BY <1>1, <1>2
  <2> QED
    BY <1>5, <2>1, <2>2, Concat, Zenon
<1>7. CutSoFar(consumed, heads)
  BY DEF HeadInv
<1>8. FirstEnd((h \o kHeaderEnd) \o r, 1, Len(h) + 1)
  BY <1>2, <1>3, <1>4
<1>9. CutSoFar(consumed', heads')
  <2>1. CutSoFar(consumed \o (h \o kHeaderEnd), Append(heads, h))
    BY <1>1, <1>2, <1>7, <1>8, CutGoesOn
  <2> QED
    BY <1>5, <1>6, <2>1
<1>10. stream' \in Streams /\ pc' # "read"
  BY <1>5 DEF HeadInv
<1> QED
  BY <1>9, <1>10, Zenon DEF HeadInv

LEMMA InitHeadInv ==
  Init => HeadInv
<1> SUFFICES ASSUME Init PROVE HeadInv
  OBVIOUS
<1>1. ASSUME NEW x \in Seq(Tokens)
      PROVE  HeadsFrom(<<>> \o x)[1] = <<>> \o HeadsFrom(<<>> \o x)[Len(<<>>) + 1]
  <2>1. <<>> \o x = x /\ Len(<<>>) + 1 = 1 /\ 1 \in 1 .. Len(x) + 1
    BY LenProperties, ConcatEmptySeq, EmptySeq
  <2>2. HeadsFrom(x)[1] \in Seq(Seq(Tokens))
    BY <2>1, HeadsFromIs
  <2>3. <<>> \o HeadsFrom(x)[1] = HeadsFrom(x)[1]
    BY <2>2, ConcatEmptySeq
  <2> QED
    BY <2>1, <2>3
<1>2. CutSoFar(<<>>, <<>>)
  BY <1>1 DEF CutSoFar
<1> QED
  BY <1>2 DEF Init, HeadInv

\* Most steps leave what was cut out alone.
Quiet ==
  /\ UNCHANGED <<stream, consumed, heads>>
  /\ pc' = "read" => pc = "read" /\ UNCHANGED buffer_

LEMMA NextHeadInv ==
  StreamInv /\ HeadInv /\ [Next]_vars => HeadInv'
<1> SUFFICES ASSUME StreamInv, HeadInv, [Next]_vars PROVE HeadInv'
  OBVIOUS
<1>1. CASE CutRequest
  BY <1>1, CutHeadInv
<1>2. CASE NoEnd
  BY <1>2 DEF NoEnd, HeadInv, Goto, clientVars, requestVars
<1>3. ASSUME ~CutRequest, ~NoEnd
      PROVE  Quiet
  <2> USE DEF Goto, clientVars, answerVars, requestVars, Quiet
  <2>1. ASSUME NEW n \in 1 .. Len(unsent), ClientSend(n) PROVE Quiet
    BY <2>1 DEF ClientSend
  <2>2. CASE ClientFinish \/ ClientReset
    BY <2>2 DEF ClientFinish, ClientReset
  <2>3. ASSUME NEW n \in 1 .. ReadMax, Read(n) PROVE Quiet
    BY <2>3 DEF Read
  <2>4. CASE ReadEof \/ ReadError \/ ParseThrows \/ Reject \/ Accept \/ Close
    BY <2>4 DEF ReadEof, ReadError, ParseThrows, Reject, Accept, Close
  <2>5. CASE Respond \/ WriteFails
    BY <2>5 DEF Respond, WriteFails
  <2>6. ASSUME NEW n \in 1 .. Len(out), Write(n) PROVE Quiet
    BY <2>6 DEF Write
  <2>7. CASE Over \/ UNCHANGED vars
    BY <2>7 DEF Over, vars
  <2> QED
    BY <1>3, <2>1, <2>2, <2>3, <2>4, <2>5, <2>6, <2>7 DEF Next, Server, Client
<1> QED
  BY <1>1, <1>2, <1>3 DEF HeadInv, Quiet

-----------------------------------------------------------------------------
(***************************************************************************)
(* The responses in what the client has received.                          *)
(***************************************************************************)
LEMMA WholeIs ==
  ASSUME NEW s \in Seq(Parts), NEW p \in 1 .. Len(s) + 1, WholeAt(s, p)
  PROVE  /\ s[p].length \in Nat /\ p + s[p].length \in 1 .. Len(s)
         /\ p + s[p].length + 1 \in p + 1 .. Len(s) + 1
         /\ SubSeq(s, p, p + s[p].length) \in Seq(Parts)
<1> DEFINE l == s[p].length
<1>0. Len(s) \in Nat
  BY LenProperties
<1>1. l \in Nat /\ p <= Len(s) /\ p + l <= Len(s)
  BY DEF WholeAt, ResponseHeads
<1> HIDE DEF l
<1>2. p + l \in 1 .. Len(s) /\ p + l + 1 \in p + 1 .. Len(s) + 1
  BY <1>0, <1>1
<1>3. \A i \in p .. p + l : s[i] \in Parts
  <2>1. \A i \in p .. p + l : i \in 1 .. Len(s)
    BY <1>0, <1>2
  <2> QED
    BY <2>1, ElementOfSeq
<1>4. SubSeq(s, p, p + l) \in Seq(Parts)
  <2>1. p \in Int /\ p + l \in Int
    BY <1>0, <1>1
  <2> QED
    BY <1>3, <2>1, SubSeqProperties
<1> QED
  BY <1>1, <1>2, <1>4 DEF l

\* FramesFrom obeys its equation.
LEMMA FramesFromIs ==
  ASSUME NEW s \in Seq(Parts)
  PROVE  \A p \in 1 .. Len(s) + 1 :
           /\ FramesFrom(s)[p] \in Seq(Seq(Parts))
           /\ ~WholeAt(s, p) => FramesFrom(s)[p] = <<>>
           /\ WholeAt(s, p) => FramesFrom(s)[p] =
                <<SubSeq(s, p, p + s[p].length)>> \o FramesFrom(s)[p + s[p].length + 1]
<1> DEFINE n == Len(s) + 1
           last == [p \in 1 .. n |-> ~WholeAt(s, p)]
           piece == [p \in 1 .. n |-> SubSeq(s, p, p + s[p].length)]
           next == [p \in 1 .. n |-> p + s[p].length + 1]
           Unfolds(g) == g = [p \in 1 .. n |->
                                IF WholeAt(s, p)
                                THEN <<SubSeq(s, p, p + s[p].length)>> \o g[p + s[p].length + 1]
                                ELSE <<>>]
<1>0. n \in Nat
  BY LenProperties
<1>1. \A p \in 1 .. n : ~last[p] => next[p] \in p + 1 .. n /\ piece[p] \in Seq(Parts)
  <2> SUFFICES ASSUME NEW p \in 1 .. n, WholeAt(s, p)
               PROVE  /\ p + s[p].length + 1 \in p + 1 .. n
                      /\ SubSeq(s, p, p + s[p].length) \in Seq(Parts)
    OBVIOUS
  <2> QED
    BY WholeIs
<1>2. \A g : Chains(g, n, last, piece, next) <=> Unfolds(g)
  <2> SUFFICES ASSUME NEW g
               PROVE  [p \in 1 .. n |-> IF last[p] THEN <<>> ELSE <<piece[p]>> \o g[next[p]]] =
                      [p \in 1 .. n |->
                         IF WholeAt(s, p)
                         THEN <<SubSeq(s, p, p + s[p].length)>> \o g[p + s[p].length + 1]
                         ELSE <<>>]
    BY Zenon DEF Chains
  <2> QED
    OBVIOUS
<1>3. \E g : Chains(g, n, last, piece, next)
  <2> HIDE DEF n, last, piece, next
  <2> QED
    BY <1>0, <1>1, SomethingChains
<1> DEFINE h == FramesFrom(s)
<1>4. h = CHOOSE g : Unfolds(g)
  BY Zenon DEF FramesFrom
<1> HIDE DEF h, Unfolds, n, last, piece, next
<1>5. Unfolds(h) /\ Chains(h, n, last, piece, next)
  BY <1>2, <1>3, <1>4, Zenon
<1>6. \A p \in 1 .. n : h[p] \in Seq(Seq(Parts))
  BY <1>0, <1>1, <1>5, ChainType
<1>7. ASSUME NEW p \in 1 .. n
      PROVE  h[p] = IF WholeAt(s, p)
                    THEN <<SubSeq(s, p, p + s[p].length)>> \o h[p + s[p].length + 1]
                    ELSE <<>>
  BY <1>5, Zenon DEF Unfolds
<1> QED
  BY <1>6, <1>7 DEF h, n

\* A response is as long as its head says.
LEMMA ResponseShape ==
  ASSUME NEW line \in UriLines
  PROVE  /\ Response(line) \in Seq(Parts) /\ Len(Response(line)) \in Nat \ {0}
         /\ Response(line)[1] \in ResponseHeads
         /\ Response(line)[1].length + 1 = Len(Response(line))
<1> DEFINE body == Body[line]
           head == [uri |-> line, length |-> Len(body)]
<1>1. body \in Seq(Parts) /\ Len(body) \in Nat
  <2>1. body \in Seq(Parts)
    BY BodyAssumption DEF Parts
  <2> QED
    BY <2>1, LenProperties, Zenon
<1>2. head \in ResponseHeads /\ head.length = Len(body)
  BY <1>1, UriLinesAssumption DEF ResponseHeads
<1>3. Response(line) = <<head>> \o body
  BY DEF Response
<1> HIDE DEF body, head
<1>4. <<head>> \in Seq(Parts) /\ Len(<<head>>) = 1 /\ <<head>>[1] = head
  <2>1. head \in Parts
    BY <1>2 DEF Parts
  <2> QED
    BY <2>1
<1>5. /\ <<head>> \o body \in Seq(Parts) /\ Len(<<head>> \o body) = 1 + Len(body)
      /\ (<<head>> \o body)[1] = head
  <2>1. PICK h : h = <<head>>
    OBVIOUS
  <2>2. h \in Seq(Parts) /\ body \in Seq(Parts)
    BY <1>1, <1>4, <2>1
  <2>3. /\ h \o body \in Seq(Parts) /\ Len(h \o body) = Len(h) + Len(body)
        /\ \A i \in 1 .. Len(h) : (h \o body)[i] = h[i]
    BY <2>2, Glued
  <2>4. Len(h) = 1 /\ h[1] = head
    BY <1>4, <2>1
  <2>5. h \o body \in Seq(Parts) /\ Len(h \o body) = 1 + Len(body) /\ (h \o body)[1] = head
    BY <2>3, <2>4
  <2> QED
    BY <2>1, <2>5
<1> QED
  BY <1>1, <1>2, <1>3, <1>5

\* The responses in what was received are rs, and those in the rest, whatever the
\* rest.
FramedSoFar(d, rs) ==
  \A x \in Seq(Parts) : FramesFrom(d \o x)[1] = rs \o FramesFrom(d \o x)[Len(d) + 1]

\* A whole response behind them is one more.
LEMMA FrameGoesOn ==
  ASSUME NEW d \in Seq(Parts), NEW rs \in Seq(Seq(Parts)), FramedSoFar(d, rs),
         NEW line \in UriLines
  PROVE  FramedSoFar(d \o Response(line), Append(rs, Response(line)))
<1> DEFINE r == Response(line)
<1>1. /\ r \in Seq(Parts) /\ Len(r) \in Nat \ {0} /\ r[1] \in ResponseHeads
      /\ r[1].length + 1 = Len(r)
  BY ResponseShape
<1> HIDE DEF r
<1> SUFFICES ASSUME NEW x \in Seq(Parts)
             PROVE  FramesFrom((d \o r) \o x)[1] =
                    Append(rs, r) \o FramesFrom((d \o r) \o x)[Len(d \o r) + 1]
  BY DEF FramedSoFar, r
<1> DEFINE rx == r \o x
           y == d \o rx
           rest == FramesFrom(y)[Len(d \o r) + 1]
<1>2. r \in Seq(Parts) /\ Len(d) \in Nat /\ Len(x) \in Nat
  BY <1>1, LenProperties
<1>3. /\ rx \in Seq(Parts) /\ Len(rx) = Len(r) + Len(x) /\ rx[1] = r[1]
      /\ Len(d \o r) = Len(d) + Len(r) /\ (d \o r) \o x = y
  <2>1. 1 \in 1 .. Len(r)
    BY <1>1
  <2>2. rx \in Seq(Parts) /\ Len(rx) = Len(r) + Len(x) /\ rx[1] = r[1]
    BY <1>2, <2>1, Glued
  <2>3. Len(d \o r) = Len(d) + Len(r)
    BY <1>2, Glued
  <2>4. Associates(d, r, x)
    BY <1>2, Associative
  <2> QED
    BY <2>2, <2>3, <2>4, Zenon DEF Associates
<1>4. SubSeq(y, Len(d) + 1, Len(d) + Len(r)) = r
  BY <1>2, MiddleIs
<1> HIDE DEF rx
<1>5. y \in Seq(Parts) /\ Len(y) = Len(d) + Len(rx) /\ y[Len(d) + 1] = r[1]
  <2>1. rx \in Seq(Parts) /\ 1 \in 1 .. Len(rx)
    BY <1>1, <1>2, <1>3
  <2>2. y \in Seq(Parts) /\ Len(y) = Len(d) + Len(rx) /\ y[Len(d) + 1] = rx[1]
    BY <2>1, Glued
  <2> QED
    BY <1>3, <2>2
<1> HIDE DEF y
<1>6. /\ WholeAt(y, Len(d) + 1)
      /\ (Len(d) + 1) + y[Len(d) + 1].length = Len(d) + Len(r)
      /\ (Len(d) + 1) + y[Len(d) + 1].length + 1 = Len(d \o r) + 1
  <2> DEFINE l == r[1].length
  <2>1. l \in Nat /\ l + 1 = Len(r)
    BY <1>1 DEF ResponseHeads
  <2> HIDE DEF l
  <2>2. /\ Len(d) + 1 <= Len(y) /\ (Len(d) + 1) + l <= Len(y)
        /\ (Len(d) + 1) + l = Len(d) + Len(r)
        /\ (Len(d) + 1) + l + 1 = Len(d \o r) + 1
    <3> DEFINE dn == Len(d)
               rn == Len(r)
               xn == Len(x)
               yn == Len(y)
               drn == Len(d \o r)
    <3>1. /\ dn \in Nat /\ xn \in Nat /\ rn \in Nat /\ l \in Nat
          /\ yn = dn + (rn + xn) /\ drn = dn + rn /\ l + 1 = rn
      BY <1>1, <1>2, <1>3, <1>5, <2>1
    <3> HIDE DEF dn, rn, xn, yn, drn
    <3>2. /\ dn + 1 <= yn /\ (dn + 1) + l <= yn
          /\ (dn + 1) + l = dn + rn /\ (dn + 1) + l + 1 = drn + 1
      BY <3>1
    <3> QED
      BY <3>2 DEF dn, rn, xn, yn, drn
  <2> QED
    BY <1>1, <1>5, <2>2 DEF l, WholeAt
<1>7. FramesFrom(y)[Len(d) + 1] = <<r>> \o rest
  <2>1. Len(d) + 1 \in 1 .. Len(y) + 1
    BY <1>1, <1>2, <1>3, <1>5
  <2>2. FramesFrom(y)[Len(d) + 1] =
        <<SubSeq(y, Len(d) + 1, (Len(d) + 1) + y[Len(d) + 1].length)>>
          \o FramesFrom(y)[(Len(d) + 1) + y[Len(d) + 1].length + 1]
    BY <1>5, <1>6, <2>1, FramesFromIs
  <2> QED
    BY <1>4, <1>6, <2>2
<1>8. FramesFrom(y)[1] = rs \o (<<r>> \o rest)
  <2>1. rx \in Seq(Parts)
    BY <1>3
  <2>2. FramesFrom(y)[1] = rs \o FramesFrom(y)[Len(d) + 1]
    BY <2>1 DEF FramedSoFar, y
  <2> QED
    BY <1>7, <2>2, Zenon
<1>9. rest \in Seq(Seq(Parts)) /\ <<r>> \in Seq(Seq(Parts))
  <2>1. Len(d \o r) + 1 \in 1 .. Len(y) + 1
    BY <1>1, <1>2, <1>3, <1>5
  <2>2. rest \in Seq(Seq(Parts))
    BY <1>5, <2>1, FramesFromIs
  <2> HIDE DEF rest
  <2>3. <<r>> \in Seq(Seq(Parts))
    BY <1>2
  <2> QED
    BY <2>2, <2>3
<1> HIDE DEF rest
<1>10. Associates(rs, <<r>>, rest)
  BY <1>9, Associative
<1>11. Append(rs, r) = rs \o <<r>>
  BY <1>2, AppendIsConcat
<1>12. FramesFrom(y)[1] = Append(rs, r) \o rest
  BY <1>8, <1>10, <1>11, Zenon DEF Associates
<1> QED
  BY <1>3, <1>12, Zenon DEF rest

\* Something behind them that is no whole response is none.
LEMMA FramedIs ==
  ASSUME NEW d \in Seq(Parts), NEW rs \in Seq(Seq(Parts)), FramedSoFar(d, rs),
         NEW x \in Seq(Parts), ~WholeAt(d \o x, Len(d) + 1)
  PROVE  Framed(d \o x) = rs
<1> DEFINE y == d \o x
<1>1. y \in Seq(Parts) /\ Len(y) = Len(d) + Len(x) /\ Len(d) \in Nat /\ Len(x) \in Nat
  BY Glued
<1>2. FramesFrom(y)[1] = rs \o FramesFrom(y)[Len(d) + 1]
  BY DEF FramedSoFar
<1> HIDE DEF y
<1>3. FramesFrom(y)[Len(d) + 1] = <<>>
  <2>1. Len(d) + 1 \in 1 .. Len(y) + 1
    BY <1>1
  <2>2. ~WholeAt(y, Len(d) + 1)
    BY DEF y
  <2> QED
    BY <1>1, <2>1, <2>2, FramesFromIs
<1>4. FramesFrom(y)[1] = rs
  <2>1. rs \o <<>> = rs
    BY ConcatEmptySeq
  <2> QED
    BY <1>2, <1>3, <2>1
<1> QED
  BY <1>4 DEF Framed, y

\* Nothing behind them is no response.
LEMMA NothingBehind ==
  ASSUME NEW d \in Seq(Parts), NEW rs \in Seq(Seq(Parts)), FramedSoFar(d, rs)
  PROVE  Framed(d) = rs
<1>1. d \o <<>> = d /\ Len(d) \in Nat
  BY ConcatEmptySeq, LenProperties
<1>2. ~WholeAt(d \o <<>>, Len(d) + 1)
  BY <1>1 DEF WholeAt
<1>3. <<>> \in Seq(Parts)
  BY EmptySeq
<1> QED
  BY <1>1, <1>2, <1>3, FramedIs

\* A response of which something is still to be written is none yet.
LEMMA PartBehind ==
  ASSUME NEW d \in Seq(Parts), NEW rs \in Seq(Seq(Parts)), FramedSoFar(d, rs),
         NEW part \in Seq(Parts), NEW o \in Seq(Parts), o # <<>>,
         NEW line \in UriLines, part \o o = Response(line)
  PROVE  Framed(d \o part) = rs
<1> DEFINE r == Response(line)
<1>1. Len(r) \in Nat \ {0} /\ r[1] \in ResponseHeads /\ r[1].length + 1 = Len(r)
  BY ResponseShape
<1>2. /\ Len(part) \in Nat /\ Len(r) = Len(part) + Len(o)
      /\ \A i \in 1 .. Len(part) : r[i] = part[i]
  BY Glued
<1> HIDE DEF r
<1>3. Len(o) \in Nat \ {0}
  BY EmptySeq
<1>4. ~WholeAt(d \o part, Len(d) + 1)
  <2> SUFFICES ASSUME WholeAt(d \o part, Len(d) + 1) PROVE FALSE
    OBVIOUS
  <2> DEFINE y == d \o part
  <2>1. /\ Len(y) = Len(d) + Len(part) /\ Len(d) \in Nat
        /\ \A i \in 1 .. Len(part) : y[Len(d) + i] = part[i]
    BY Glued
  <2>2. Len(d) + 1 <= Len(y) /\ (Len(d) + 1) + y[Len(d) + 1].length <= Len(y)
    BY DEF WholeAt
  <2> HIDE DEF y
  <2>3. 1 \in 1 .. Len(part)
    BY <1>2, <2>1, <2>2
  <2>4. y[Len(d) + 1] = r[1]
    BY <1>2, <2>1, <2>3
  <2> DEFINE l == r[1].length
  <2>5. l \in Nat /\ l + 1 = Len(r) /\ (Len(d) + 1) + l <= Len(y)
    BY <1>1, <2>2, <2>4 DEF ResponseHeads
  <2> HIDE DEF l
  <2> QED
    BY <1>2, <1>3, <2>1, <2>5
<1> QED
  BY <1>4, FramedIs

-----------------------------------------------------------------------------
(***************************************************************************)
(* As long as the client is there, what it received are the responses to   *)
(* the heads before the one that is being looked at, and a part of the     *)
(* response to that one.                                                   *)
(***************************************************************************)
Present == client \in {"open", "finished"}

Answered == IF pc \in {"next", "read"} THEN Len(heads) ELSE Len(heads) - 1

\* What the worker found the heads to be, by where it is.
JudgedInv ==
  /\ \A k \in 1 .. Answered : Good(heads[k])
  /\ pc \notin {"next", "read"} => heads # <<>> /\ request = heads[Len(heads)]
  /\ pc \in {"respond", "write"} => Good(request)
  /\ pc \in {"closing", "closed"} => ~Throws(request) /\ ~Good(request)
  /\ pc = "crashed" => Throws(request)

\* What was received are whole responses, then what was written of another.
Delivered(whole, part, rs) ==
  /\ whole \in Seq(Parts) /\ part \in Seq(Parts) /\ received = whole \o part
  /\ FramedSoFar(whole, rs)
  /\ IF pc = "write" THEN part \o out = Response(UriOf(request)) /\ out # <<>>
     ELSE part = <<>>

DeliveredInv == \E whole, part : Delivered(whole, part, AnswersTo(heads, Answered))

ReplyInv == Present => JudgedInv /\ DeliveredInv

\* One more answer.
LEMMA AnswersNext ==
  ASSUME NEW hs, NEW m \in Nat, \A k \in 1 .. m + 1 : Good(hs[k])
  PROVE  AnswersTo(hs, m + 1) = Append(AnswersTo(hs, m), Response(UriOf(hs[m + 1])))
<1> DEFINE as == AnswersTo(hs, m)
           bs == AnswersTo(hs, m + 1)
           r == Response(UriOf(hs[m + 1]))
<1>1. /\ as \in Seq(Seq(Parts)) /\ Len(as) = m
      /\ \A k \in 1 .. m : as[k] = Response(UriOf(hs[k]))
  <2>1. \A k \in 1 .. m : k \in 1 .. m + 1
    OBVIOUS
  <2> QED
    BY <2>1, AnswersType
<1>2. /\ bs \in Seq(Seq(Parts)) /\ Len(bs) = m + 1
      /\ \A k \in 1 .. m + 1 : bs[k] = Response(UriOf(hs[k]))
  <2>1. m + 1 \in Nat
    OBVIOUS
  <2> QED
    BY <2>1, AnswersType
<1> HIDE DEF as, bs, r
<1>3. r \in Seq(Parts)
  BY ResponseIs DEF Good, WellFormed, r
<1>4. /\ Append(as, r) \in Seq(Seq(Parts)) /\ Len(Append(as, r)) = m + 1
      /\ \A k \in 1 .. m : Append(as, r)[k] = as[k]
      /\ Append(as, r)[m + 1] = r
  <2>1. as \in Seq(Seq(Parts))
    BY <1>1
  <2>2. /\ Append(as, r) \in Seq(Seq(Parts)) /\ Len(Append(as, r)) = Len(as) + 1
        /\ \A k \in 1 .. Len(as) : Append(as, r)[k] = as[k]
        /\ Append(as, r)[Len(as) + 1] = r
    BY <1>3, <2>1, Appended, Zenon
  <2> QED
    BY <1>1, <2>2
<1>5. \A k \in 1 .. m + 1 : bs[k] = Append(as, r)[k]
  <2>1. bs[m + 1] = r
    BY <1>2 DEF r
  <2>2. \A k \in 1 .. m : bs[k] = as[k]
    <3>1. \A k \in 1 .. m : k \in 1 .. m + 1
      OBVIOUS
    <3> QED
      BY <1>1, <1>2, <3>1
  <2>3. \A k \in 1 .. m + 1 : k = m + 1 \/ k \in 1 .. m
    OBVIOUS
  <2> QED
    BY <1>4, <2>1, <2>2, <2>3
<1>6. bs = Append(as, r)
  BY <1>2, <1>4, <1>5, SeqEqual
<1> QED
  BY <1>6 DEF as, bs, r

\* Nothing was cut out and nothing received.
LEMMA InitReplyInv ==
  Init => ReplyInv
<1> SUFFICES ASSUME Init PROVE JudgedInv /\ DeliveredInv
  BY DEF ReplyInv
<1>1. heads = <<>> /\ pc = "next" /\ received = <<>>
  BY DEF Init
<1>2. Answered = 0 /\ Len(heads) = 0
  BY <1>1 DEF Answered
<1>3. JudgedInv
  BY <1>1, <1>2 DEF JudgedInv
<1>4. AnswersTo(heads, 0) = <<>>
  <2>1. AnswersTo(heads, 0) \in Seq(Seq(Parts)) /\ Len(AnswersTo(heads, 0)) = 0
    <3>1. 0 \in Nat /\ \A k \in 1 .. 0 : Good(heads[k])
      OBVIOUS
    <3> QED
      BY <3>1, AnswersType
  <2> QED
    BY <2>1, EmptySeq
<1>5. FramedSoFar(<<>>, <<>>)
  <2> SUFFICES ASSUME NEW x \in Seq(Parts)
               PROVE  FramesFrom(<<>> \o x)[1] = <<>> \o FramesFrom(<<>> \o x)[Len(<<>>) + 1]
    BY DEF FramedSoFar
  <2>1. <<>> \o x = x /\ Len(<<>>) + 1 = 1 /\ 1 \in 1 .. Len(x) + 1
    BY LenProperties, ConcatEmptySeq, EmptySeq
  <2>2. FramesFrom(x)[1] \in Seq(Seq(Parts))
    BY <2>1, FramesFromIs
  <2>3. <<>> \o FramesFrom(x)[1] = FramesFrom(x)[1]
    BY <2>2, ConcatEmptySeq
  <2> QED
    BY <2>1, <2>3
<1>6. <<>> \in Seq(Parts) /\ <<>> \o <<>> = <<>>
  BY EmptySeq, ConcatEmptySeq
<1>7. Delivered(<<>>, <<>>, <<>>)
  BY <1>1, <1>5, <1>6 DEF Delivered
<1> QED
  BY <1>2, <1>3, <1>4, <1>7 DEF DeliveredInv

\* Cutting a head out does not touch the heads before it.
LEMMA CutReplyInv ==
  ASSUME StreamInv, ReplyInv, CutRequest
  PROVE  ReplyInv'
<1> SUFFICES ASSUME Present' PROVE JudgedInv' /\ DeliveredInv'
  BY DEF ReplyInv
<1>1. /\ JudgedInv /\ DeliveredInv /\ pc = "next" /\ pc' = "parse"
      /\ heads' = Append(heads, request') /\ UNCHANGED <<received, out>>
  BY DEF ReplyInv, Present, CutRequest, Goto, clientVars, answerVars
<1>2. heads \in Seq(Seq(Tokens)) /\ heads' \in Seq(Seq(Tokens)) /\ request' \in Seq(Tokens)
  BY CutPreserves DEF StreamInv, TypeOK
<1>3. /\ Len(heads) \in Nat /\ Len(heads') = Len(heads) + 1 /\ heads' # <<>>
      /\ \A k \in 1 .. Len(heads) : heads'[k] = heads[k]
      /\ heads'[Len(heads) + 1] = request'
  BY <1>1, <1>2, AppendProperties, LenProperties
<1>4. Answered = Len(heads) /\ Answered' = Len(heads)
  BY <1>1, <1>3 DEF Answered
<1>5. JudgedInv'
  BY <1>1, <1>3, <1>4 DEF JudgedInv
<1>6. AnswersTo(heads', Len(heads)) = AnswersTo(heads, Len(heads))
  BY <1>3 DEF AnswersTo
<1>7. PICK whole, part : Delivered(whole, part, AnswersTo(heads, Answered))
  BY <1>1, Zenon DEF DeliveredInv
<1>8. AnswersTo(heads, Answered)' = AnswersTo(heads, Answered)
  BY <1>4, <1>6
<1>9. Delivered(whole, part, AnswersTo(heads, Answered))'
  BY <1>1, <1>7, <1>8 DEF Delivered
<1> QED
  BY <1>5, <1>9, Zenon DEF DeliveredInv

\* Steps that cut nothing out and write nothing.
LEMMA QuietReplyInv ==
  ASSUME StreamInv, ReplyInv, UNCHANGED <<heads, received>>, Present' => Present,
         \/ pc' = pc /\ UNCHANGED <<request, out>>
         \/ {pc, pc'} \subseteq {"next", "read"}
         \/ /\ {pc, pc'} \subseteq {"parse", "respond", "closing", "closed", "crashed"}
            /\ UNCHANGED request
            /\ pc' = "parse" => pc = "parse"
            /\ pc' = "respond" => Good(request)
            /\ pc' \in {"closing", "closed"} => ~Throws(request) /\ ~Good(request)
            /\ pc' = "crashed" => Throws(request)
  PROVE  ReplyInv'
<1> SUFFICES ASSUME Present' PROVE JudgedInv' /\ DeliveredInv'
  BY DEF ReplyInv
<1>1. JudgedInv /\ DeliveredInv
  BY DEF ReplyInv
<1>2. Answered' = Answered
  BY DEF Answered
<1>3. JudgedInv'
  BY <1>1, <1>2 DEF JudgedInv
<1>4. PICK whole, part : Delivered(whole, part, AnswersTo(heads, Answered))
  BY <1>1, Zenon DEF DeliveredInv
<1>5. AnswersTo(heads, Answered)' = AnswersTo(heads, Answered)
  BY <1>2 DEF AnswersTo
<1>6. Delivered(whole, part, AnswersTo(heads, Answered))'
  BY <1>4, <1>5 DEF Delivered
<1> QED
  BY <1>3, <1>6, Zenon DEF DeliveredInv

\* What is to be written is the response to the head cut last.
LEMMA RespondReplyInv ==
  ASSUME StreamInv, ReplyInv, Respond
  PROVE  ReplyInv'
<1> SUFFICES ASSUME Present' PROVE JudgedInv' /\ DeliveredInv'
  BY DEF ReplyInv
<1>1. /\ JudgedInv /\ DeliveredInv /\ pc = "respond" /\ pc' = "write"
      /\ UNCHANGED <<heads, request, received>>
      /\ out' = GenerateResponseString(UriOf(request))
  BY DEF ReplyInv, Present, Respond, Goto, clientVars, requestVars
<1>2. Answered' = Answered
  BY <1>1 DEF Answered
<1>3. JudgedInv'
  BY <1>1, <1>2 DEF JudgedInv
<1>4. PICK whole, part : Delivered(whole, part, AnswersTo(heads, Answered))
  BY <1>1, Zenon DEF DeliveredInv
<1>5. /\ out' = Response(UriOf(request)) /\ out' \in Seq(Parts) /\ out' # <<>>
  <2>1. ~Throws(request)
    BY <1>1 DEF JudgedInv, Good, WellFormed
  <2>2. UriOf(request) \in UriLines /\ out' = Response(UriOf(request))
    BY <1>1, <2>1, ResponseIs
  <2>3. out' \in Seq(Parts) /\ Len(out') # 0
    BY <2>2, ResponseShape
  <2>4. Len(<<>>) = 0
    OBVIOUS
  <2> QED
    BY <2>2, <2>3, <2>4
<1>6. AnswersTo(heads, Answered)' = AnswersTo(heads, Answered)
  BY <1>1, <1>2 DEF AnswersTo
<1>7. part = <<>> /\ part \o out' = out'
  BY <1>1, <1>4, <1>5, ConcatEmptySeq DEF Delivered
<1>8. Delivered(whole, part, AnswersTo(heads, Answered))'
  BY <1>1, <1>4, <1>5, <1>6, <1>7 DEF Delivered
<1> QED
  BY <1>3, <1>8, Zenon DEF DeliveredInv

\* A write passes a part of the response on, or all that is left of it.
LEMMA WriteReplyInv ==
  ASSUME StreamInv, ReplyInv, NEW n \in 1 .. Len(out), Write(n)
  PROVE  ReplyInv'
<1> SUFFICES ASSUME Present' PROVE JudgedInv' /\ DeliveredInv'
  BY DEF ReplyInv
<1>0. PICK gone, left, r :
        /\ gone = SubSeq(out, 1, n) /\ left = SubSeq(out, n + 1, Len(out))
        /\ r = Response(UriOf(request))
  OBVIOUS
<1>1. /\ JudgedInv /\ DeliveredInv /\ pc = "write"
      /\ pc' = IF n = Len(out) THEN "next" ELSE "write"
      /\ UNCHANGED <<heads, request>> /\ received' = received \o gone /\ out' = left
  BY <1>0 DEF ReplyInv, Present, Write, Goto, clientVars, requestVars
<1>2. heads \in Seq(Seq(Tokens)) /\ Len(heads) \in Nat /\ out \in Seq(Parts) /\ Len(out) \in Nat
  <2>1. heads \in Seq(Seq(Tokens)) /\ out \in Seq(Parts)
    BY DEF StreamInv, TypeOK, Parts
  <2> QED
    BY <2>1, LenProperties
<1>3. /\ heads # <<>> /\ request = heads[Len(heads)] /\ Good(request)
      /\ Answered = Len(heads) - 1 /\ Len(heads) - 1 \in Nat
      /\ \A k \in 1 .. Len(heads) : Good(heads[k])
  <2>1. /\ heads # <<>> /\ request = heads[Len(heads)] /\ Good(request)
        /\ Answered = Len(heads) - 1 /\ \A k \in 1 .. Answered : Good(heads[k])
    BY <1>1 DEF JudgedInv, Answered
  <2>2. Len(heads) \in Nat \ {0}
    BY <1>2, <2>1, EmptySeq
  <2>3. \A k \in 1 .. Len(heads) : k = Len(heads) \/ k \in 1 .. Len(heads) - 1
    BY <2>2
  <2> QED
    BY <2>1, <2>2, <2>3
<1>4. PICK whole, part : Delivered(whole, part, AnswersTo(heads, Answered))
  BY <1>1, Zenon DEF DeliveredInv
<1>5. gone \in Seq(Parts) /\ left \in Seq(Parts) /\ gone \o left = out
  <2>1. n \in 0 .. Len(out)
    BY <1>2
  <2> QED
    BY <1>0, <1>2, <2>1, CutInTwo
<1>6. /\ whole \in Seq(Parts) /\ part \in Seq(Parts) /\ received = whole \o part
      /\ part \o out = r /\ FramedSoFar(whole, AnswersTo(heads, Answered))
  BY <1>0, <1>1, <1>4 DEF Delivered
<1>7. received' = whole \o (part \o gone)
  <2>1. Associates(whole, part, gone)
    BY <1>5, <1>6, Associative
  <2> QED
    BY <1>1, <1>6, <2>1, Zenon DEF Associates
<1>8. CASE n < Len(out)
  <2>1. pc' = "write" /\ Answered' = Answered
    BY <1>1, <1>2, <1>8 DEF Answered
  <2>2. JudgedInv'
    BY <1>1, <2>1 DEF JudgedInv
  <2>3. left # <<>>
    <3>1. Len(left) = Len(out) - n
      BY <1>0, <1>2, <1>8
    <3>2. Len(left) # 0
      BY <1>2, <1>8, <3>1
    <3> QED
      BY <3>2
  <2>4. part \o gone \in Seq(Parts) /\ (part \o gone) \o left = r
    <3>1. Associates(part, gone, left)
      BY <1>5, <1>6, Associative
    <3>2. (part \o gone) \o left = r
      BY <1>5, <1>6, <3>1, Zenon DEF Associates
    <3> QED
      BY <1>5, <1>6, <3>2, Glued
  <2>5. AnswersTo(heads, Answered)' = AnswersTo(heads, Answered)
    BY <1>1, <2>1 DEF AnswersTo
  <2>6. Delivered(whole, part \o gone, AnswersTo(heads, Answered))'
    BY <1>1, <1>6, <1>7, <2>1, <2>3, <2>4, <2>5, <1>0 DEF Delivered
  <2> QED
    BY <2>2, <2>6, Zenon DEF DeliveredInv
<1>9. CASE n = Len(out)
  <2>1. pc' = "next" /\ Answered' = Len(heads)
    BY <1>1, <1>9 DEF Answered
  <2>2. JudgedInv'
    BY <1>1, <1>3, <2>1 DEF JudgedInv
  <2>3. gone = out
    BY <1>2, <1>9, SubSeqFull, <1>0
  <2>4. UriOf(request) \in UriLines /\ r \in Seq(Parts)
    BY <1>3, <1>0, ResponseIs DEF Good, WellFormed
  <2>5. AnswersTo(heads, Len(heads)) = Append(AnswersTo(heads, Answered), r)
    <3> DEFINE m == Len(heads) - 1
    <3>1. m \in Nat /\ m + 1 = Len(heads)
      BY <1>2, <1>3
    <3> HIDE DEF m
    <3>2. AnswersTo(heads, m + 1) = Append(AnswersTo(heads, m), Response(UriOf(heads[m + 1])))
      BY <1>3, <3>1, AnswersNext
    <3> QED
      BY <1>0, <1>3, <3>1, <3>2 DEF m
  <2>6. AnswersTo(heads, Answered) \in Seq(Seq(Parts))
    BY <1>1, <1>3, AnswersType DEF JudgedInv
  <2>7. FramedSoFar(whole \o r, AnswersTo(heads, Len(heads)))
    BY <1>0, <1>6, <2>4, <2>5, <2>6, FrameGoesOn
  <2>8. received' = (whole \o r) \o <<>> /\ whole \o r \in Seq(Parts) /\ <<>> \in Seq(Parts)
    <3>1. whole \o r \in Seq(Parts)
      BY <1>6, <2>4, Glued
    <3> QED
      BY <1>6, <1>7, <2>3, <3>1, ConcatEmptySeq, EmptySeq
  <2>9. AnswersTo(heads, Answered)' = AnswersTo(heads, Len(heads))
    BY <1>1, <2>1
  <2>10. Delivered(whole \o r, <<>>, AnswersTo(heads, Answered))'
    BY <2>1, <2>7, <2>8, <2>9 DEF Delivered
  <2> QED
    BY <2>2, <2>10, Zenon DEF DeliveredInv
<1> QED
  BY <1>2, <1>8, <1>9

\* Every step keeps it.
LEMMA NextReplyInv ==
  StreamInv /\ ReplyInv /\ [Next]_vars => ReplyInv'
<1> SUFFICES ASSUME StreamInv, ReplyInv, [Next]_vars PROVE ReplyInv'
  OBVIOUS
<1>1. CASE CutRequest
  BY <1>1, CutReplyInv
<1>2. CASE Respond
  BY <1>2, RespondReplyInv
<1>3. ASSUME NEW n \in 1 .. Len(out), Write(n) PROVE ReplyInv'
  BY <1>3, WriteReplyInv
<1> USE DEF Goto, clientVars, answerVars, requestVars, Present
<1>4. ASSUME NEW n \in 1 .. Len(unsent), ClientSend(n) PROVE ReplyInv'
  BY <1>4, QuietReplyInv DEF ClientSend
<1>5. CASE ClientFinish
  BY <1>5, QuietReplyInv DEF ClientFinish
<1>6. CASE ClientReset
  BY <1>6, QuietReplyInv DEF ClientReset
<1>7. CASE NoEnd
  BY <1>7, QuietReplyInv DEF NoEnd
<1>8. ASSUME NEW n \in 1 .. ReadMax, Read(n) PROVE ReplyInv'
  BY <1>8, QuietReplyInv DEF Read
<1>9. CASE ReadEof
  BY <1>9, QuietReplyInv DEF ReadEof
<1>10. CASE ReadError \/ WriteFails
  BY <1>10 DEF ReadError, WriteFails, ReplyInv
<1>11. CASE ParseThrows \/ Reject \/ Accept
  BY <1>11, QuietReplyInv DEF ParseThrows, Reject, Accept, Rejected, Good, WellFormed
<1>12. CASE Close
  <2>1. Present => ~Throws(request) /\ ~Good(request)
    BY <1>12 DEF Close, ReplyInv, JudgedInv
  <2>2. CASE Present
    BY <1>12, <2>1, <2>2, QuietReplyInv DEF Close
  <2>3. CASE ~Present
    BY <1>12, <2>3 DEF Close, ReplyInv
  <2> QED
    BY <2>2, <2>3
<1>13. CASE Over \/ UNCHANGED vars
  BY <1>13, QuietReplyInv DEF Over, vars
<1> QED
  BY <1>1, <1>2, <1>3, <1>4, <1>5, <1>6, <1>7, <1>8, <1>9, <1>10, <1>11, <1>12, <1>13
  DEF Next, Server, Client

-----------------------------------------------------------------------------
(***************************************************************************)
(* Refinement: every step of the connection is a step, or a stutter, of    *)
(* Connection.                                                             *)
(***************************************************************************)
MapInv == StreamInv /\ HeadInv /\ ReplyInv

\* How many heads were answered.
LEMMA AnsweredType ==
  MapInv /\ Present =>
    /\ Answered \in 0 .. Len(heads) /\ Len(heads) \in Nat /\ heads \in Seq(Seq(Tokens))
    /\ pc \notin {"next", "read"} => Answered + 1 = Len(heads)
    /\ pc \in {"next", "read"} => Answered = Len(heads)
<1> SUFFICES ASSUME MapInv, Present
             PROVE  /\ Answered \in 0 .. Len(heads) /\ Len(heads) \in Nat
                    /\ heads \in Seq(Seq(Tokens))
                    /\ pc \notin {"next", "read"} => Answered + 1 = Len(heads)
                    /\ pc \in {"next", "read"} => Answered = Len(heads)
  OBVIOUS
<1>1. heads \in Seq(Seq(Tokens)) /\ (pc \notin {"next", "read"} => heads # <<>>)
  BY DEF MapInv, StreamInv, TypeOK, ReplyInv, JudgedInv
<1>2. Len(heads) \in Nat /\ (heads # <<>> => Len(heads) \in Nat \ {0})
  BY <1>1, LenProperties, EmptySeq
<1> QED
  BY <1>1, <1>2 DEF Answered

\* The client has the responses to the heads that were answered, in full.
LEMMA RepliesAre ==
  MapInv /\ Present =>
    Framed(received) = AnswersTo(heads, Answered) /\ Len(Framed(received)) = Answered
<1> SUFFICES ASSUME MapInv, Present
             PROVE  /\ Framed(received) = AnswersTo(heads, Answered)
                    /\ Len(Framed(received)) = Answered
  OBVIOUS
<1>1. PICK whole, part : Delivered(whole, part, AnswersTo(heads, Answered))
  BY Zenon DEF MapInv, ReplyInv, DeliveredInv
<1> DEFINE rs == AnswersTo(heads, Answered)
<1>2. rs \in Seq(Seq(Parts)) /\ Len(rs) = Answered
  <2>1. Answered \in Nat
    BY AnsweredType
  <2> QED
    BY <2>1, AnswersType DEF MapInv, ReplyInv, JudgedInv
<1> HIDE DEF rs
<1>3. /\ whole \in Seq(Parts) /\ part \in Seq(Parts) /\ received = whole \o part
      /\ FramedSoFar(whole, rs)
  BY <1>1 DEF Delivered, rs
<1>4. CASE pc = "write"
  <2>1. part \o out = Response(UriOf(request)) /\ out # <<>>
    BY <1>1, <1>4 DEF Delivered
  <2>2. UriOf(request) \in UriLines
    BY <1>4, ResponseIs DEF MapInv, ReplyInv, JudgedInv, Good, WellFormed
  <2>3. out \in Seq(Parts)
    BY DEF MapInv, StreamInv, TypeOK, Parts
  <2>4. Framed(whole \o part) = rs
    BY <1>2, <1>3, <2>1, <2>2, <2>3, PartBehind
  <2> QED
    BY <1>2, <1>3, <2>4 DEF rs
<1>5. CASE pc # "write"
  <2>1. part = <<>> /\ whole \o <<>> = whole
    BY <1>1, <1>3, <1>5, ConcatEmptySeq DEF Delivered
  <2>2. Framed(whole) = rs
    BY <1>2, <1>3, NothingBehind
  <2> QED
    BY <1>2, <1>3, <2>1, <2>2 DEF rs
<1> QED
  BY <1>4, <1>5

\* What the client asked for, among the heads in what it sent.
AskedFrom(hs, m) ==
  /\ GoodUpTo(hs, m) /\ m \in Nat /\ Len(hs) \in Nat
  /\ Asked[Sent] = AnswersTo(hs, m) /\ Len(Asked[Sent]) = m
  /\ m = Len(hs) => Behind[Sent] = "nothing"
  /\ m < Len(hs) => Behind[Sent] = IF Throws(hs[m + 1]) THEN "fatal" ELSE "last"

\* Such an m exists for whatever was sent.
LEMMA AskedFromSent ==
  MapInv => /\ Sent \in Seq(Tokens) /\ Sent \in Sendable
            /\ HeadsIn[Sent] = HeadsFrom(Sent)[1] /\ HeadsIn[Sent] \in Seq(Seq(Tokens))
            /\ \E m : AskedFrom(HeadsIn[Sent], m)
<1> SUFFICES ASSUME MapInv
             PROVE  /\ Sent \in Seq(Tokens) /\ Sent \in Sendable
                    /\ HeadsIn[Sent] = HeadsFrom(Sent)[1] /\ HeadsIn[Sent] \in Seq(Seq(Tokens))
                    /\ \E m : AskedFrom(HeadsIn[Sent], m)
  OBVIOUS
<1>1. /\ Sent \in Seq(Tokens) /\ Sent \in Sendable
      /\ HeadsIn[Sent] = HeadsFrom(Sent)[1] /\ HeadsIn[Sent] \in Seq(Seq(Tokens))
  BY SentIs DEF MapInv, HeadInv
<1>2. PICK m \in 0 .. Len(HeadsIn[Sent]) : GoodUpTo(HeadsIn[Sent], m)
  BY <1>1, GoodPrefix
<1>3. Len(HeadsIn[Sent]) \in Nat /\ m \in Nat
  <2>1. Len(HeadsIn[Sent]) \in Nat
    BY <1>1, LenProperties
  <2> QED
    BY <2>1
<1>4. AskedFrom(HeadsIn[Sent], m)
  BY <1>1, <1>2, <1>3, AskedIs DEF AskedFrom
<1> QED
  BY <1>1, <1>4

\* Where the worker is says how far the answers are behind, and what comes next.
LEMMA WhereTheWorkerIs ==
  MapInv /\ Present =>
    /\ Len(Framed(received)) \in Nat /\ Len(Asked[Sent]) \in Nat
    /\ Len(Framed(received)) <= Len(Asked[Sent])
    /\ pc \in {"parse", "respond", "write"} /\ Good(request) =>
         /\ Len(Framed(received)) < Len(Asked[Sent])
         /\ Asked[Sent][Len(Framed(received)) + 1] = Response(UriOf(request))
    /\ pc \notin {"next", "read"} /\ ~Good(request) =>
         /\ Len(Framed(received)) = Len(Asked[Sent])
         /\ Behind[Sent] = IF Throws(request) THEN "fatal" ELSE "last"
    /\ pc \in {"next", "read"} /\ EndsAt(buffer_) = {} /\ wire = <<>> =>
         Len(Framed(received)) = Len(Asked[Sent]) /\ Behind[Sent] = "nothing"
<1> SUFFICES ASSUME MapInv, Present
             PROVE  /\ Len(Framed(received)) \in Nat /\ Len(Asked[Sent]) \in Nat
                    /\ Len(Framed(received)) <= Len(Asked[Sent])
                    /\ pc \in {"parse", "respond", "write"} /\ Good(request) =>
                         /\ Len(Framed(received)) < Len(Asked[Sent])
                         /\ Asked[Sent][Len(Framed(received)) + 1] = Response(UriOf(request))
                    /\ pc \notin {"next", "read"} /\ ~Good(request) =>
                         /\ Len(Framed(received)) = Len(Asked[Sent])
                         /\ Behind[Sent] = IF Throws(request) THEN "fatal" ELSE "last"
                    /\ pc \in {"next", "read"} /\ EndsAt(buffer_) = {} /\ wire = <<>> =>
                         Len(Framed(received)) = Len(Asked[Sent]) /\ Behind[Sent] = "nothing"
  OBVIOUS
<1>0. PICK a, n : a = Answered /\ n = Len(heads)
  OBVIOUS
<1>1. /\ Len(Framed(received)) = a /\ a \in Nat /\ n \in Nat /\ a <= n
      /\ heads \in Seq(Seq(Tokens))
      /\ pc \notin {"next", "read"} => a + 1 = n
      /\ pc \in {"next", "read"} => a = n
  BY <1>0, AnsweredType, RepliesAre
<1>2. PICK m : AskedFrom(HeadsIn[Sent], m)
  BY AskedFromSent
<1>3. PICK hs : hs = HeadsIn[Sent]
  OBVIOUS
<1>4. /\ ToCome \in Seq(Seq(Tokens)) /\ hs = heads \o ToCome
      /\ EndsAt(buffer_) = {} /\ wire = <<>> => hs = heads
  <2>1. /\ ToCome \in Seq(Seq(Tokens)) /\ hs = heads \o ToCome
        /\ EndsAt(buffer_) = {} /\ wire = <<>> => ToCome = <<>>
    BY <1>3, HeadsAre DEF MapInv
  <2> QED
    BY <1>1, <2>1, ConcatEmptySeq
<1>5. /\ Len(hs) \in Nat /\ n <= Len(hs) /\ \A k \in 1 .. n : hs[k] = heads[k]
  <2>1. /\ Len(hs) = Len(heads) + Len(ToCome) /\ Len(ToCome) \in Nat
        /\ \A k \in 1 .. Len(heads) : hs[k] = heads[k]
    BY <1>1, <1>4, Glued
  <2> QED
    BY <1>0, <1>1, <2>1
<1>6. /\ \A k \in 1 .. a : Good(heads[k])
      /\ pc \notin {"next", "read"} => request = heads[n]
  BY <1>0 DEF MapInv, ReplyInv, JudgedInv
<1>7. /\ m \in Nat /\ m <= Len(hs) /\ (\A k \in 1 .. m : Good(hs[k]))
      /\ m < Len(hs) => ~Good(hs[m + 1])
      /\ Asked[Sent] = AnswersTo(hs, m) /\ Len(Asked[Sent]) = m
      /\ m = Len(hs) => Behind[Sent] = "nothing"
      /\ m < Len(hs) => Behind[Sent] = IF Throws(hs[m + 1]) THEN "fatal" ELSE "last"
  BY <1>2, <1>3 DEF AskedFrom, GoodUpTo
<1>8. a <= m
  <2> SUFFICES ASSUME m < a PROVE FALSE
    BY <1>1, <1>7
  <2>1. m + 1 \in 1 .. a /\ m + 1 \in 1 .. n /\ m < Len(hs)
    BY <1>1, <1>5, <1>7
  <2> QED
    BY <1>5, <1>6, <1>7, <2>1
<1>9. ASSUME pc \in {"parse", "respond", "write"}, Good(request)
      PROVE  a < m /\ Asked[Sent][a + 1] = Response(UriOf(request))
  <2>1. a + 1 = n /\ request = heads[n] /\ n \in 1 .. n
    BY <1>1, <1>6, <1>9
  <2>2. hs[a + 1] = request
    BY <1>5, <2>1
  <2>3. a < m
    <3> SUFFICES ASSUME a = m PROVE FALSE
      BY <1>1, <1>7, <1>8
    <3>1. m < Len(hs)
      BY <1>1, <1>5, <1>7, <2>1
    <3> QED
      BY <1>7, <1>9, <2>2, <3>1
  <2>4. a + 1 \in 1 .. m
    BY <1>1, <1>7, <2>3
  <2>5. AnswersTo(hs, m)[a + 1] = Response(UriOf(hs[a + 1]))
    BY <1>7, <2>4, AnswersType
  <2> QED
    BY <1>7, <2>2, <2>3, <2>5
<1>10. ASSUME pc \notin {"next", "read"}, ~Good(request)
       PROVE  a = m /\ Behind[Sent] = IF Throws(request) THEN "fatal" ELSE "last"
  <2>1. a + 1 = n /\ request = heads[n] /\ n \in 1 .. n
    BY <1>1, <1>6, <1>10
  <2>2. hs[a + 1] = request
    BY <1>5, <2>1
  <2>3. a = m
    <3> SUFFICES ASSUME a < m PROVE FALSE
      BY <1>1, <1>7, <1>8
    <3>1. a + 1 \in 1 .. m
      BY <1>1, <1>7
    <3> QED
      BY <1>7, <1>10, <2>2, <3>1
  <2>4. m < Len(hs)
    BY <1>1, <1>5, <1>7, <2>1, <2>3
  <2> QED
    BY <1>7, <2>2, <2>3, <2>4
<1>11. ASSUME pc \in {"next", "read"}, EndsAt(buffer_) = {}, wire = <<>>
       PROVE  a = m /\ Behind[Sent] = "nothing"
  <2>1. a = n /\ n = Len(hs)
    BY <1>0, <1>1, <1>4, <1>11
  <2>2. a = m
    BY <1>1, <1>7, <1>8, <2>1
  <2> QED
    BY <1>7, <2>1, <2>2
<1> QED
  BY <1>1, <1>7, <1>8, <1>9, <1>10, <1>11

\* The abstract connection's state, by where the worker is.
LEMMA StateIs ==
  /\ pc \in {"parse", "closing"} => StateOf = "reading"
  /\ pc \in {"respond", "write"} => StateOf = "answering"
  /\ pc \in {"closed", "crashed"} => StateOf = pc
  /\ pc \in {"next", "read"} =>
       StateOf = IF /\ client \in {"finished", "gone"} /\ wire = <<>> /\ EndsAt(buffer_) = {}
                 THEN "stuck" ELSE "reading"
BY DEF StateOf

LEMMA StateWillBe ==
  /\ pc' \in {"parse", "closing"} => StateOf' = "reading"
  /\ pc' \in {"respond", "write"} => StateOf' = "answering"
  /\ pc' \in {"closed", "crashed"} => StateOf' = pc'
  /\ pc' \in {"next", "read"} =>
       StateOf' = IF /\ client' \in {"finished", "gone"} /\ wire' = <<>> /\ EndsAt(buffer_') = {}
                  THEN "stuck" ELSE "reading"
BY DEF StateOf

\* What was sent says what was asked.
LEMMA AskedStays ==
  ASSUME UNCHANGED <<stream, unsent>>
  PROVE  UNCHANGED <<Asked[Sent], Behind[Sent]>>
BY DEF Sent

\* When the client is away only the connection's state changes.
LEMMA AwayRefines ==
  ASSUME MapInv, ~Present, [Next]_vars
  PROVE  [Conn!Next]_(Conn!vars)
<1>0. TypeOK /\ client \in {"reset", "gone"} /\ pc \in PC
  BY DEF MapInv, StreamInv, TypeOK, Present
<1>1. /\ UNCHANGED <<stream, unsent, received>> /\ client' \in {"reset", "gone"}
      /\ \/ StateOf' = StateOf
         \/ StateOf = "reading" /\ StateOf' \in {"answering", "stuck", "closed", "crashed"}
         \/ StateOf = "answering" /\ StateOf' \in {"reading", "stuck"}
  <2> USE DEF Goto, clientVars, answerVars, requestVars
  <2>1. ASSUME NEW n \in 1 .. Len(unsent), ClientSend(n) PROVE FALSE
    BY <1>0, <2>1 DEF ClientSend
  <2>2. CASE ClientFinish \/ ClientReset
    BY <1>0, <2>2 DEF ClientFinish, ClientReset
  <2>3. CASE NoEnd
    BY <1>0, <2>3, StateIs, StateWillBe DEF NoEnd
  <2>4. CASE CutRequest
    BY <1>0, <2>4, StateIs, StateWillBe DEF CutRequest
  <2>5. ASSUME NEW n \in 1 .. ReadMax, Read(n) PROVE <1>1
    <3>1. wire # <<>>
      BY <2>5 DEF Read
    <3> QED
      BY <1>0, <2>5, <3>1, StateIs, StateWillBe DEF Read
  <2>6. CASE ReadEof
    BY <1>0, <2>6, StateIs, StateWillBe DEF ReadEof
  <2>7. CASE ReadError
    BY <1>0, <2>7, StateIs, StateWillBe DEF ReadError
  <2>8. CASE ParseThrows \/ Reject \/ Accept \/ Close
    BY <1>0, <2>8, StateIs, StateWillBe DEF ParseThrows, Reject, Accept, Close
  <2>9. CASE Respond \/ WriteFails
    BY <1>0, <2>9, StateIs, StateWillBe DEF Respond, WriteFails
  <2>10. ASSUME NEW n \in 1 .. Len(out), Write(n) PROVE FALSE
    BY <1>0, <2>10 DEF Write
  <2>11. CASE Over \/ UNCHANGED vars
    BY <1>0, <2>11 DEF Over, vars, StateOf
  <2> QED
    BY <2>1, <2>2, <2>3, <2>4, <2>5, <2>6, <2>7, <2>8, <2>9, <2>10, <2>11
    DEF Next, Server, Client
<1>2. UNCHANGED <<Asked[Sent], Behind[Sent]>>
  BY <1>1, AskedStays
<1>3. UNCHANGED Framed(received)
  BY <1>1
<1>4. (client \in {"reset", "gone"}) /\ (client \in {"reset", "gone"})'
  BY <1>0, <1>1
<1>5. CASE StateOf' = StateOf
  BY <1>2, <1>3, <1>4, <1>5 DEF Conn!vars
<1>6. CASE StateOf = "reading" /\ StateOf' = "answering"
  BY <1>2, <1>3, <1>4, <1>6 DEF Conn!Next, Conn!Process, Conn!MoveTo, Conn!Moves
<1>7. CASE StateOf = "reading" /\ StateOf' = "stuck"
  BY <1>2, <1>3, <1>4, <1>7 DEF Conn!Next, Conn!GetStuck, Conn!MoveTo, Conn!Moves
<1>8. CASE StateOf = "reading" /\ StateOf' \in {"closed", "crashed"}
  BY <1>2, <1>3, <1>4, <1>8 DEF Conn!Next, Conn!End, Conn!MoveTo, Conn!Moves
<1>9. CASE StateOf = "answering" /\ StateOf' \in {"reading", "stuck"}
  BY <1>2, <1>3, <1>4, <1>9 DEF Conn!Next, Conn!ReplyLost, Conn!MoveTo, Conn!Moves
<1> QED
  BY <1>1, <1>5, <1>6, <1>7, <1>8, <1>9

\* What more the client sends leaves what it asked for before, and adds nothing
\* behind a head that is not answered.
LEMMA AskedGrows ==
  ASSUME NEW hs \in Seq(Seq(Tokens)), NEW t \in Seq(Seq(Tokens)),
         NEW m, GoodUpTo(hs, m), NEW k, GoodUpTo(hs \o t, k)
  PROVE  /\ m \in Nat /\ k \in Nat /\ m <= k
         /\ SubSeq(AnswersTo(hs \o t, k), 1, m) = AnswersTo(hs, m)
         /\ m < Len(hs) => /\ k = m /\ m < Len(hs \o t) /\ (hs \o t)[m + 1] = hs[m + 1]
                           /\ AnswersTo(hs \o t, k) = AnswersTo(hs, m)
<1> DEFINE gs == hs \o t
<1>1. /\ gs \in Seq(Seq(Tokens)) /\ Len(gs) = Len(hs) + Len(t)
      /\ Len(hs) \in Nat /\ Len(t) \in Nat
      /\ \A i \in 1 .. Len(hs) : gs[i] = hs[i]
  BY Glued
<1> HIDE DEF gs
<1>2. /\ m \in Nat /\ m <= Len(hs) /\ (\A i \in 1 .. m : Good(hs[i]))
      /\ m < Len(hs) => ~Good(hs[m + 1])
  <2>1. m \in Nat /\ m <= Len(hs)
    BY <1>1 DEF GoodUpTo
  <2> QED
    BY <2>1 DEF GoodUpTo
<1>3. /\ k \in Nat /\ k <= Len(gs) /\ (\A i \in 1 .. k : Good(gs[i]))
      /\ k < Len(gs) => ~Good(gs[k + 1])
  <2>1. GoodUpTo(gs, k)
    BY DEF gs
  <2> QED
    BY <1>1, <2>1 DEF GoodUpTo
<1>4. m <= k
  <2> SUFFICES ASSUME k < m PROVE FALSE
    BY <1>2, <1>3
  <2>1. k + 1 \in 1 .. m /\ k + 1 \in 1 .. Len(hs) /\ k < Len(gs)
    <3>1. PICK p, q : p = Len(hs) /\ q = Len(gs)
      OBVIOUS
    <3>2. p \in Nat /\ q \in Nat /\ p <= q /\ m \in Nat /\ k \in Nat /\ m <= p
      BY <1>1, <1>2, <1>3, <3>1
    <3>3. k + 1 \in 1 .. m /\ k + 1 \in 1 .. p /\ k < q
      BY <3>2
    <3> QED
      BY <3>1, <3>3
  <2> QED
    BY <1>1, <1>2, <1>3, <2>1
<1>5. ASSUME m < Len(hs) PROVE k = m /\ m < Len(gs) /\ gs[m + 1] = hs[m + 1]
  <2>1. m + 1 \in 1 .. Len(hs)
    BY <1>1, <1>2, <1>5
  <2>2. gs[m + 1] = hs[m + 1] /\ ~Good(gs[m + 1])
    BY <1>1, <1>2, <1>5, <2>1
  <2>3. ~(m < k)
    <3> SUFFICES ASSUME m < k PROVE FALSE
      OBVIOUS
    <3>1. m + 1 \in 1 .. k
      BY <1>2, <1>3
    <3> QED
      BY <1>3, <2>2, <3>1
  <2> QED
    BY <1>1, <1>2, <1>3, <1>4, <1>5, <2>2, <2>3
<1>6. ASSUME NEW j \in Nat, j <= m, j <= k
      PROVE  \A i \in 1 .. j : AnswersTo(gs, k)[i] = AnswersTo(hs, m)[i]
  <2> SUFFICES ASSUME NEW i \in 1 .. j PROVE AnswersTo(gs, k)[i] = AnswersTo(hs, m)[i]
    OBVIOUS
  <2>1. i \in 1 .. k /\ i \in 1 .. m /\ i \in 1 .. Len(hs)
    BY <1>1, <1>2, <1>3, <1>6
  <2> QED
    BY <1>1, <2>1 DEF AnswersTo
<1> DEFINE as == AnswersTo(gs, k)
           bs == AnswersTo(hs, m)
<1>7. as \in Seq(Seq(Parts)) /\ Len(as) = k /\ bs \in Seq(Seq(Parts)) /\ Len(bs) = m
  BY <1>2, <1>3, AnswersType
<1>8. \A i \in 1 .. m : as[i] = bs[i]
  BY <1>2, <1>4, <1>6
<1> HIDE DEF as, bs
<1>9. SubSeq(as, 1, m) = bs
  <2> DEFINE cs == SubSeq(as, 1, m)
  <2>1. cs \in Seq(Seq(Parts)) /\ Len(cs) = m /\ \A i \in 1 .. m : cs[i] = as[i]
    <3>1. m \in 0 .. Len(as)
      BY <1>2, <1>3, <1>4, <1>7
    <3>2. as \in Seq(Seq(Parts))
      BY <1>7
    <3> QED
      BY <3>1, <3>2, FirstOnes
  <2> HIDE DEF cs
  <2>2. Len(cs) = Len(bs) /\ \A i \in 1 .. Len(cs) : cs[i] = bs[i]
    BY <1>7, <1>8, <2>1
  <2>3. cs \in Seq(Seq(Parts)) /\ bs \in Seq(Seq(Parts))
    BY <1>7, <2>1
  <2>4. cs = bs
    BY <2>2, <2>3, SeqEqual
  <2> QED
    BY <2>4 DEF cs
<1>10. ASSUME m < Len(hs) PROVE as = bs
  <2>1. k = m
    BY <1>5, <1>10
  <2>2. Len(as) = Len(bs) /\ \A i \in 1 .. Len(as) : as[i] = bs[i]
    BY <1>7, <1>8, <2>1
  <2>3. as \in Seq(Seq(Parts)) /\ bs \in Seq(Seq(Parts))
    BY <1>7
  <2> QED
    BY <2>2, <2>3, SeqEqual
<1> QED
  BY <1>2, <1>3, <1>4, <1>5, <1>9, <1>10 DEF gs, as, bs

\* What was sent, and what was asked in it, in this state and in the next.
SentInv ==
  /\ Sent = (consumed \o buffer_) \o wire
  /\ HeadsIn[Sent] = HeadsFrom(Sent)[1] /\ HeadsIn[Sent] \in Seq(Seq(Tokens))
  /\ \E m : AskedFrom(HeadsIn[Sent], m)

LEMMA SentIsNow ==
  MapInv => SentInv
<1>1. MapInv => Sent = (consumed \o buffer_) \o wire
  BY SentIs DEF MapInv, HeadInv
<1> QED
  BY <1>1, AskedFromSent DEF SentInv

LEMMA SentWillBe ==
  MapInv' => SentInv'
BY SentIsNow, PTL

\* What the client sends arrives, or is behind something that is not answered.
LEMMA SendRefines ==
  ASSUME MapInv, MapInv', NEW n \in 1 .. Len(unsent), ClientSend(n)
  PROVE  [Conn!Next]_(Conn!vars)
<1>0. PICK s, s1, x, hs, gs, as, bs :
        /\ s = Sent /\ s1 = Sent' /\ x = SubSeq(unsent, 1, n)
        /\ hs = HeadsIn[s] /\ gs = HeadsIn[s1] /\ as = Asked[s] /\ bs = Asked[s1]
  OBVIOUS
<1>1. /\ client = "open" /\ client' = "open" /\ wire' = wire \o x /\ pc' = pc
      /\ UNCHANGED <<consumed, buffer_, received>>
  BY <1>0 DEF ClientSend, requestVars, answerVars
<1>2. TypeOK /\ Present
  BY <1>1 DEF MapInv, StreamInv, Present
<1>3. x \in Seq(Tokens) /\ s \in Seq(Tokens) /\ s1 = s \o x
  <2>1. /\ consumed \in Seq(Tokens) /\ buffer_ \in Seq(Tokens) /\ wire \in Seq(Tokens)
        /\ unsent \in Seq(Tokens)
    BY <1>2 DEF TypeOK
  <2>2. x \in Seq(Tokens)
    <3>1. n \in 0 .. Len(unsent)
      BY <2>1, LenProperties
    <3> QED
      BY <1>0, <2>1, <3>1, CutInTwo
  <2>3. consumed \o buffer_ \in Seq(Tokens)
    BY <2>1, Concat
  <2>4. s = (consumed \o buffer_) \o wire
    BY <1>0, SentIsNow DEF SentInv
  <2>5. Sent' = ((consumed \o buffer_) \o wire)'
    BY SentWillBe DEF SentInv
  <2>6. s1 = (consumed \o buffer_) \o (wire \o x)
    BY <1>0, <1>1, <2>5
  <2>7. Associates(consumed \o buffer_, wire, x)
    BY <2>1, <2>2, <2>3, Associative
  <2>8. s \in Seq(Tokens)
    BY <2>1, <2>3, <2>4, Concat
  <2> QED
    BY <2>2, <2>4, <2>6, <2>7, <2>8, Zenon DEF Associates
<1>4. PICK m : AskedFrom(HeadsIn[Sent], m)
  BY AskedFromSent
<1>5. /\ hs \in Seq(Seq(Tokens)) /\ hs = HeadsFrom(s)[1]
      /\ GoodUpTo(hs, m) /\ m \in Nat /\ Len(hs) \in Nat
      /\ as = AnswersTo(hs, m) /\ Len(as) = m
      /\ m = Len(hs) => Behind[s] = "nothing"
      /\ m < Len(hs) => Behind[s] = IF Throws(hs[m + 1]) THEN "fatal" ELSE "last"
  BY <1>0, <1>4, AskedFromSent DEF AskedFrom
<1>6. PICK k : AskedFrom(HeadsIn[Sent], k)'
  BY SentWillBe DEF SentInv
<1>7. HeadsIn[Sent'] = HeadsFrom(Sent')[1] /\ HeadsIn[Sent'] \in Seq(Seq(Tokens))
  BY SentWillBe DEF SentInv
<1>8. /\ gs \in Seq(Seq(Tokens)) /\ gs = HeadsFrom(s1)[1]
      /\ GoodUpTo(gs, k) /\ k \in Nat /\ Len(gs) \in Nat
      /\ bs = AnswersTo(gs, k) /\ Len(bs) = k
      /\ k = Len(gs) => Behind[s1] = "nothing"
      /\ k < Len(gs) => Behind[s1] = IF Throws(gs[k + 1]) THEN "fatal" ELSE "last"
  BY <1>0, <1>6, <1>7 DEF AskedFrom
<1>9. PICK t \in Seq(Seq(Tokens)) : gs = hs \o t
  <2>1. 1 \in 1 .. Len(s) + 1
    BY <1>3, LenProperties
  <2> QED
    BY <1>3, <1>5, <1>8, <2>1, HeadsPrefix
<1>10. /\ m <= k /\ SubSeq(bs, 1, m) = as
       /\ m < Len(hs) => k = m /\ m < Len(gs) /\ gs[m + 1] = hs[m + 1] /\ bs = as
  <2>1. GoodUpTo(hs, m) /\ GoodUpTo(hs \o t, k) /\ hs \in Seq(Seq(Tokens))
    BY <1>5, <1>8, <1>9
  <2>2. /\ m <= k /\ SubSeq(AnswersTo(hs \o t, k), 1, m) = AnswersTo(hs, m)
        /\ m < Len(hs) => /\ k = m /\ m < Len(hs \o t) /\ (hs \o t)[m + 1] = hs[m + 1]
                          /\ AnswersTo(hs \o t, k) = AnswersTo(hs, m)
    BY <2>1, AskedGrows
  <2> QED
    BY <1>5, <1>8, <1>9, <2>2
<1>11. StateOf' = StateOf /\ StateOf # "stuck"
  BY <1>1, <1>2, StateIs, StateWillBe DEF TypeOK, PC
<1>12. m <= Len(hs)
  BY <1>5 DEF GoodUpTo
<1>13. CASE m < Len(hs)
  <2>1. Asked[Sent]' = Asked[Sent] /\ Behind[Sent]' = Behind[Sent]
    BY <1>0, <1>5, <1>8, <1>10, <1>13
  <2> QED
    BY <1>1, <1>11, <2>1 DEF Conn!vars
<1>14. CASE m = Len(hs)
  <2>1. Behind[Sent] = "nothing" /\ Behind[Sent]' \in {"nothing", "last", "fatal"}
    <3>1. k = Len(gs) \/ k < Len(gs)
      BY <1>8 DEF GoodUpTo
    <3> QED
      BY <1>0, <1>5, <1>8, <1>14, <3>1
  <2>2. pc \notin {"closing", "closed", "crashed"}
    <3>1. pc = "crashed" => Throws(request)
      BY <1>2 DEF MapInv, ReplyInv, JudgedInv
    <3>2. pc \in {"closing", "closed"} => ~Good(request)
      BY <1>2 DEF MapInv, ReplyInv, JudgedInv
    <3>3. pc \in {"closing", "closed", "crashed"} => Behind[Sent] \in {"fatal", "last"}
      BY <1>2, <3>1, <3>2, WhereTheWorkerIs DEF Good, WellFormed
    <3> QED
      BY <2>1, <3>3
  <2>3. StateOf \in {"reading", "answering"}
    BY <1>2, <1>11, <2>2, StateIs DEF TypeOK, PC
  <2>4. /\ Len(Asked[Sent]') >= Len(Asked[Sent])
        /\ SubSeq(Asked[Sent]', 1, Len(Asked[Sent])) = Asked[Sent]
    BY <1>0, <1>5, <1>8, <1>10
  <2> QED
    BY <1>1, <1>11, <2>1, <2>3, <2>4 DEF Conn!Next, Conn!Arrive
<1> QED
  <2>1. m < Len(hs) \/ m = Len(hs)
    BY <1>5, <1>12
  <2> QED
    BY <1>13, <1>14, <2>1

\* A send leaves less to be sent.
LEMMA SendMoves ==
  ASSUME StreamInv, NEW n \in 1 .. Len(unsent), ClientSend(n)
  PROVE  unsent' # unsent
<1>1. unsent \in Seq(Tokens) /\ Len(unsent) \in Nat
  BY LenProperties DEF StreamInv, TypeOK
<1>2. Len(SubSeq(unsent, n + 1, Len(unsent))) = Len(unsent) - n
  BY <1>1
<1>3. Len(SubSeq(unsent, n + 1, Len(unsent))) # Len(unsent)
  BY <1>1, <1>2
<1> QED
  BY <1>3 DEF ClientSend

\* At the end of the client's stream everything is answered.
AtTheEnd ==
  StateOf = "stuck" => Len(Framed(received)) = Len(Asked[Sent]) /\ Behind[Sent] = "nothing"

LEMMA AtTheEndIs ==
  MapInv /\ Present => AtTheEnd
<1>1. TypeOK /\ StateOf = "stuck" =>
        pc \in {"next", "read"} /\ EndsAt(buffer_) = {} /\ wire = <<>>
  BY StateIs DEF TypeOK, PC
<1>2. MapInv => TypeOK
  BY DEF MapInv, StreamInv
<1> QED
  BY <1>1, <1>2, WhereTheWorkerIs DEF AtTheEnd

LEMMA AtTheEndWillBe ==
  MapInv' /\ Present' => AtTheEnd'
BY AtTheEndIs, PTL

RepliesInv == Framed(received) = AnswersTo(heads, Answered)

LEMMA RepliesWillBe ==
  MapInv' /\ Present' => RepliesInv'
<1>1. MapInv /\ Present => RepliesInv
  BY RepliesAre DEF RepliesInv
<1> QED
  BY <1>1, PTL

\* The other steps while the client is there: nothing arrives.
LEMMA PresentRefines ==
  ASSUME MapInv, MapInv', Present, UNCHANGED <<stream, unsent>>, [Next]_vars
  PROVE  [Conn!Next]_(Conn!vars)
<1>0. TypeOK /\ client \in {"open", "finished"} /\ pc \in PC
  BY DEF MapInv, StreamInv, TypeOK, Present
<1>1. UNCHANGED <<Asked[Sent], Behind[Sent]>>
  BY AskedStays
<1> USE DEF Goto, clientVars, answerVars, requestVars
<1>2. CASE ClientReset
  <2>1. /\ UNCHANGED <<wire, buffer_, pc, received>>
        /\ client' = IF client = "open" THEN "reset" ELSE "gone"
    BY <1>0, <1>2 DEF ClientReset
  <2>2. StateOf' = StateOf
    BY <1>0, <2>1 DEF StateOf
  <2>3. UNCHANGED Framed(received)
    BY <2>1
  <2>4. ~(client \in {"reset", "gone"}) /\ (client' \in {"reset", "gone"})
    BY <1>0, <2>1
  <2> QED
    BY <1>1, <2>2, <2>3, <2>4 DEF Conn!Next, Conn!Leave
<1>3. CASE client' \in {"open", "finished"}
  <2>0. Present'
    BY <1>3 DEF Present
  <2>1. ~(client \in {"reset", "gone"}) /\ ~(client' \in {"reset", "gone"})
    BY <1>0, <1>3
  <2>2. /\ Len(Framed(received)) \in Nat /\ Len(Asked[Sent]) \in Nat
        /\ pc \in {"parse", "respond", "write"} /\ Good(request) =>
             /\ Len(Framed(received)) < Len(Asked[Sent])
             /\ Asked[Sent][Len(Framed(received)) + 1] = Response(UriOf(request))
        /\ pc \notin {"next", "read"} /\ ~Good(request) =>
             /\ Len(Framed(received)) = Len(Asked[Sent])
             /\ Behind[Sent] = IF Throws(request) THEN "fatal" ELSE "last"
    BY WhereTheWorkerIs
  <2>3. StateOf' = "stuck" =>
          Len(Framed(received)') = Len(Asked[Sent]) /\ Behind[Sent] = "nothing"
    <3>1. AtTheEnd'
      BY <2>0, AtTheEndWillBe
    <3> QED
      BY <1>1, <3>1 DEF AtTheEnd
  <2>4. ASSUME UNCHANGED received, StateOf' = StateOf
        PROVE  UNCHANGED Conn!vars
    BY <1>1, <2>1, <2>4 DEF Conn!vars
  <2>5. ASSUME UNCHANGED received, StateOf = "reading", StateOf' = "stuck"
        PROVE  Conn!GetStuck
    BY <1>1, <2>1, <2>3, <2>5 DEF Conn!GetStuck, Conn!MoveTo, Conn!Moves, Conn!UpToDate
  <2>6. CASE ClientFinish
    <3>1. UNCHANGED received /\ (StateOf' = StateOf \/ (StateOf = "reading" /\ StateOf' = "stuck"))
      <4>1. UNCHANGED <<wire, buffer_, pc, received>> /\ client = "open" /\ client' = "finished"
        BY <2>6 DEF ClientFinish
      <4>2. CASE pc \in {"next", "read"}
        <5>1. StateOf = "reading"
          BY <4>1, <4>2, StateIs
        <5>2. pc' \in {"next", "read"}
          BY <4>1, <4>2
        <5>3. StateOf' \in {"reading", "stuck"}
          BY <5>2, StateWillBe
        <5> QED
          BY <4>1, <5>1, <5>3
      <4>3. CASE pc \notin {"next", "read"}
        <5>1. pc' \notin {"next", "read"}
          BY <4>1, <4>3
        <5>2. StateOf' = StateOf
          BY <1>0, <4>1, <4>3, <5>1, StateIs, StateWillBe DEF PC
        <5> QED
          BY <4>1, <5>2
      <4> QED
        BY <4>1, <4>2, <4>3
    <3> QED
      BY <2>4, <2>5, <3>1 DEF Conn!Next
  <2>7. CASE NoEnd \/ ReadEof
    <3>1. UNCHANGED received /\ StateOf' = StateOf
      BY <1>0, <2>7, StateIs, StateWillBe DEF NoEnd, ReadEof
    <3> QED
      BY <2>4, <3>1
  <2>8. CASE CutRequest
    <3>1. UNCHANGED received /\ StateOf' = StateOf
      BY <1>0, <2>8, StateIs, StateWillBe DEF CutRequest
    <3> QED
      BY <2>4, <3>1
  <2>9. ASSUME NEW n \in 1 .. ReadMax, Read(n) PROVE [Conn!Next]_(Conn!vars)
    <3>1. wire # <<>>
      BY <2>9 DEF Read
    <3>2. UNCHANGED received /\ StateOf = "reading" /\ StateOf' \in {"reading", "stuck"}
      BY <1>0, <2>9, <3>1, StateIs, StateWillBe DEF Read
    <3> QED
      BY <2>4, <2>5, <3>2 DEF Conn!Next
  <2>10. CASE ParseThrows
    <3>1. /\ UNCHANGED received /\ StateOf = "reading" /\ StateOf' = "crashed"
          /\ pc = "parse" /\ Throws(request)
      BY <2>10, StateIs, StateWillBe DEF ParseThrows
    <3>2. Len(Framed(received)) = Len(Asked[Sent]) /\ Behind[Sent] = "fatal"
      BY <2>2, <3>1 DEF Good, WellFormed
    <3> QED
      BY <1>1, <2>1, <3>1, <3>2 DEF Conn!Next, Conn!End, Conn!MoveTo, Conn!Moves, Conn!UpToDate
  <2>11. CASE Reject
    <3>1. UNCHANGED received /\ StateOf' = StateOf
      BY <2>11, StateIs, StateWillBe DEF Reject
    <3> QED
      BY <2>4, <3>1
  <2>12. CASE Accept /\ WantsClose(request)
    <3>1. UNCHANGED received /\ StateOf' = StateOf
      BY <2>12, StateIs, StateWillBe DEF Accept
    <3> QED
      BY <2>4, <3>1
  <2>13. CASE Accept /\ ~WantsClose(request)
    <3>1. /\ UNCHANGED received /\ StateOf = "reading" /\ StateOf' = "answering"
          /\ pc = "parse" /\ Good(request)
      BY <2>13, StateIs, StateWillBe DEF Accept, Rejected, Good
    <3>2. Len(Framed(received)) # Len(Asked[Sent])
      BY <2>2, <3>1
    <3> QED
      BY <1>1, <2>1, <3>1, <3>2 DEF Conn!Next, Conn!Process, Conn!MoveTo, Conn!Moves, Conn!UpToDate
  <2>14. CASE Respond
    <3>1. UNCHANGED received /\ StateOf' = StateOf
      BY <2>14, StateIs, StateWillBe DEF Respond
    <3> QED
      BY <2>4, <3>1
  <2>15. ASSUME NEW n \in 1 .. Len(out), Write(n) PROVE [Conn!Next]_(Conn!vars)
    <3>1. /\ pc = "write" /\ pc' = (IF n = Len(out) THEN "next" ELSE "write")
          /\ UNCHANGED <<heads, request>>
      BY <2>15 DEF Write
    <3>2. /\ Framed(received) = AnswersTo(heads, Answered)
          /\ Framed(received)' = AnswersTo(heads, Answered)'
      BY <2>0, RepliesAre, RepliesWillBe DEF RepliesInv
    <3>3. CASE n # Len(out)
      <4>1. StateOf' = StateOf
        BY <3>1, <3>3, StateIs, StateWillBe
      <4>2. Framed(received)' = Framed(received)
        BY <3>1, <3>2, <3>3 DEF Answered
      <4> QED
        BY <1>1, <2>1, <4>1, <4>2 DEF Conn!vars
    <3>4. CASE n = Len(out)
      <4>1. StateOf = "answering" /\ StateOf' \in {"reading", "stuck"}
        BY <3>1, <3>4, StateIs, StateWillBe
      <4>2. Good(request) /\ request = heads[Len(heads)] /\ \A k \in 1 .. Answered : Good(heads[k])
        BY <3>1 DEF MapInv, ReplyInv, JudgedInv
      <4>3. Answered \in Nat /\ Answered + 1 = Len(heads)
        BY <3>1, AnsweredType
      <4>4. Framed(received)' =
              Append(Framed(received), Asked[Sent][Len(Framed(received)) + 1])
        <5>1. Framed(received)' = AnswersTo(heads, Len(heads))
          BY <3>1, <3>2, <3>4 DEF Answered
        <5>2. PICK a : a = Answered
          OBVIOUS
        <5>3. \A k \in 1 .. a + 1 : Good(heads[k])
          BY <4>2, <4>3, <5>2
        <5>4. AnswersTo(heads, a + 1) =
                Append(AnswersTo(heads, a), Response(UriOf(heads[a + 1])))
          BY <4>3, <5>2, <5>3, AnswersNext
        <5> QED
          BY <2>2, <3>1, <3>2, <4>2, <4>3, <5>1, <5>2, <5>4
      <4>5. Len(Framed(received)) < Len(Asked[Sent])
        BY <2>2, <3>1, <4>2
      <4> QED
        BY <1>1, <2>1, <2>3, <4>1, <4>4, <4>5
        DEF Conn!Next, Conn!Reply, Conn!MoveTo, Conn!Moves, Conn!UpToDate
    <3> QED
      BY <3>3, <3>4
  <2>16. CASE Close
    <3>1. /\ UNCHANGED received /\ StateOf = "reading" /\ StateOf' = "closed"
          /\ pc = "closing"
      BY <2>16, StateIs, StateWillBe DEF Close
    <3>2. ~Good(request) /\ ~Throws(request)
      BY <3>1 DEF MapInv, ReplyInv, JudgedInv
    <3>3. Len(Framed(received)) = Len(Asked[Sent]) /\ Behind[Sent] = "last"
      BY <2>2, <3>1, <3>2
    <3> QED
      BY <1>1, <2>1, <3>1, <3>3 DEF Conn!Next, Conn!End, Conn!MoveTo, Conn!Moves, Conn!UpToDate
  <2>17. CASE UNCHANGED vars
    BY <2>4, <2>17 DEF vars, StateOf
  <2>18. ~ClientReset /\ ~ReadError /\ ~WriteFails /\ ~Over
    BY <1>0, <1>3 DEF ClientReset, ReadError, WriteFails, Over
  <2>19. ASSUME NEW n \in 1 .. Len(unsent), ClientSend(n) PROVE FALSE
    BY <2>19, SendMoves DEF MapInv
  <2> QED
    BY <2>6, <2>7, <2>8, <2>9, <2>10, <2>11, <2>12, <2>13, <2>14, <2>15, <2>16, <2>17, <2>18,
       <2>19 DEF Next, Server, Client
<1>4. CASE client' \notin {"open", "finished"}
  <2>1. ClientReset
    <3> USE <1>0, <1>4
    <3>1. UNCHANGED client => FALSE
      OBVIOUS
    <3>2. ASSUME NEW n \in 1 .. Len(unsent), ClientSend(n) PROVE FALSE
      BY <3>1, <3>2 DEF ClientSend
    <3>3. ASSUME NEW n \in 1 .. ReadMax, Read(n) PROVE FALSE
      BY <3>1, <3>3 DEF Read
    <3>4. ASSUME NEW n \in 1 .. Len(out), Write(n) PROVE FALSE
      BY <3>1, <3>4 DEF Write
    <3>5. ~ClientFinish /\ ~NoEnd /\ ~CutRequest /\ ~ReadEof /\ ~ReadError
      BY <3>1 DEF ClientFinish, NoEnd, CutRequest, ReadEof, ReadError
    <3>6. ~ParseThrows /\ ~Reject /\ ~Accept /\ ~Close /\ ~Respond /\ ~WriteFails
      BY <3>1 DEF ParseThrows, Reject, Accept, Close, Respond, WriteFails
    <3>7. ~Over /\ ~UNCHANGED vars
      BY <3>1 DEF Over, vars
    <3> QED
      BY <3>2, <3>3, <3>4, <3>5, <3>6, <3>7 DEF Next, Server, Client
  <2> QED
    BY <1>2, <2>1
<1> QED
  BY <1>3, <1>4

\* A step is a step of Connection, or a stutter.
LEMMA StepRefines ==
  MapInv /\ MapInv' /\ [Next]_vars => [Conn!Next]_(Conn!vars)
<1> SUFFICES ASSUME MapInv, MapInv', [Next]_vars
             PROVE  [Conn!Next]_(Conn!vars)
  OBVIOUS
<1>1. CASE ~Present
  BY <1>1, AwayRefines
<1>2. ASSUME NEW n \in 1 .. Len(unsent), ClientSend(n)
      PROVE  [Conn!Next]_(Conn!vars)
  BY <1>2, SendRefines
<1>3. CASE ~(\E n \in 1 .. Len(unsent) : ClientSend(n))
  <2>1. UNCHANGED <<stream, unsent>>
    <3> USE DEF clientVars
    <3>1. ASSUME NEW n \in 1 .. ReadMax, Read(n) PROVE UNCHANGED <<stream, unsent>>
      BY <3>1 DEF Read
    <3>2. ASSUME NEW n \in 1 .. Len(out), Write(n) PROVE UNCHANGED <<stream, unsent>>
      BY <3>2 DEF Write
    <3>3. CASE ClientFinish \/ ClientReset \/ NoEnd \/ CutRequest \/ ReadEof \/ ReadError
      BY <3>3 DEF ClientFinish, ClientReset, NoEnd, CutRequest, ReadEof, ReadError
    <3>4. CASE ParseThrows \/ Reject \/ Accept \/ Close \/ Respond \/ WriteFails
      BY <3>4 DEF ParseThrows, Reject, Accept, Close, Respond, WriteFails
    <3>5. CASE Over \/ UNCHANGED vars
      BY <3>5 DEF Over, vars
    <3> QED
      BY <1>3, <3>1, <3>2, <3>3, <3>4, <3>5 DEF Next, Server, Client
  <2> QED
    BY <1>1, <2>1, PresentRefines
<1> QED
  BY <1>2, <1>3

\* An initial state is one of Connection.
LEMMA InitRefines ==
  Init => Conn!Init
<1> SUFFICES ASSUME Init PROVE Conn!Init
  OBVIOUS
<1>1. MapInv
  BY InitStreamInv, InitHeadInv, InitReplyInv DEF MapInv
<1>2. /\ pc = "next" /\ client = "open" /\ heads = <<>> /\ wire = <<>> /\ buffer_ = <<>>
      /\ Present
  BY DEF Init, Present
<1>3. StateOf = "reading"
  BY <1>2, StateIs
<1>4. Answered = 0
  BY <1>2 DEF Answered
<1>5. Framed(received) = <<>> /\ Len(Framed(received)) = 0
  <2>1. AnswersTo(heads, 0) \in Seq(Seq(Parts)) /\ Len(AnswersTo(heads, 0)) = 0
    <3>1. 0 \in Nat /\ \A k \in 1 .. 0 : Good(heads[k])
      OBVIOUS
    <3> QED
      BY <3>1, AnswersType
  <2>2. AnswersTo(heads, 0) = <<>>
    BY <2>1, EmptySeq
  <2> QED
    BY <1>1, <1>2, <1>4, <2>2, RepliesAre
<1>6. Len(Asked[Sent]) = 0 /\ Behind[Sent] = "nothing"
  <2>1. EndsAt(buffer_) = {}
    BY <1>2 DEF EndsAt
  <2> QED
    BY <1>1, <1>2, <1>5, <2>1, WhereTheWorkerIs
<1>7. Asked[Sent] = <<>>
  <2>1. PICK m : AskedFrom(HeadsIn[Sent], m)
    BY <1>1, AskedFromSent
  <2>2. Asked[Sent] = AnswersTo(HeadsIn[Sent], 0)
    BY <1>6, <2>1 DEF AskedFrom
  <2>3. /\ AnswersTo(HeadsIn[Sent], 0) \in Seq(Seq(Parts))
        /\ Len(AnswersTo(HeadsIn[Sent], 0)) = 0
    <3>1. 0 \in Nat /\ \A k \in 1 .. 0 : Good(HeadsIn[Sent][k])
      OBVIOUS
    <3> QED
      BY <3>1, AnswersType
  <2> QED
    BY <2>2, <2>3, EmptySeq
<1> QED
  BY <1>2, <1>3, <1>5, <1>6, <1>7 DEF Conn!Init

\* The mapping's invariant holds in every reachable state.
LEMMA MapInvariance ==
  Spec => []MapInv
<1>1. Init => MapInv
  BY InitStreamInv, InitHeadInv, InitReplyInv DEF MapInv
<1>2. MapInv /\ [Next]_vars => MapInv'
  BY NextStreamInv, NextHeadInv, NextReplyInv DEF MapInv
<1> QED
  BY <1>1, <1>2, PTL DEF Spec

\* Whatever the client sends and wherever the reads and the writes cut it, the
\* client gets the whole responses to its requests, in order and once each, and
\* none to anything from the first malformed request on; the connection ends
\* only when it is up to date or nobody is there (HttpConnection.cpp:48-69,
\* HttpResponse.hpp:64-75, HttpServer.cpp:139-161).
THEOREM Refinement ==
  Spec => ConnSpec
BY InitRefines, StepRefines, MapInvariance, PTL DEF Spec, ConnSpec, Conn!Spec
=============================================================================
