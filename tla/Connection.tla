----------------------------- MODULE Connection -----------------------------
(***************************************************************************)
(* What a connection promises: the requests that arrive are answered in    *)
(* order and once each, for as long as the client is there, and whatever   *)
(* comes after something that is no request is left alone: the connection  *)
(* ends, but not before the requests in front of it are answered.          *)
(* HttpConnection implements it.                                           *)
(***************************************************************************)
EXTENDS Naturals, Sequences, ConnectionStates

VARIABLES
  state,    \* one of Serving, "closed" or "crashed"
  asked,    \* the requests that have arrived
  behind,   \* what came behind them: "nothing", "last" (something that ends the
            \* connection) or "fatal" (something that ends the server)
  replies,  \* the responses the client has in full
  away      \* the client is gone: replies do not get through

vars == <<state, asked, behind, replies, away>>

UpToDate == Len(replies) = Len(asked)
MoveTo(states) == state' \in states /\ <<state, state'>> \in Moves

Init == state = "reading" /\ asked = <<>> /\ behind = "nothing" /\ replies = <<>> /\ away = FALSE

\* What the client sent: any number of requests, then perhaps something else.
Arrive ==
  /\ state \in {"reading", "answering"} /\ behind = "nothing" /\ ~away
  /\ Len(asked') >= Len(asked) /\ SubSeq(asked', 1, Len(asked)) = asked
  /\ behind' \in {"nothing", "last", "fatal"}
  /\ UNCHANGED <<state, replies, away>>

Process ==
  /\ MoveTo({"answering"})
  /\ away \/ ~UpToDate
  /\ UNCHANGED <<asked, behind, replies, away>>

Reply ==
  /\ state = "answering" /\ MoveTo({"reading", "stuck"})
  /\ ~away /\ Len(replies) < Len(asked)
  /\ replies' = Append(replies, asked[Len(replies) + 1])
  /\ state' = "stuck" => behind = "nothing" /\ UpToDate'
  /\ UNCHANGED <<asked, behind, away>>

ReplyLost ==
  /\ state = "answering" /\ MoveTo({"reading", "stuck"})
  /\ away
  /\ UNCHANGED <<asked, behind, replies, away>>

\* The client's stream is at its end.
GetStuck ==
  /\ state = "reading" /\ MoveTo({"stuck"})
  /\ away \/ (behind = "nothing" /\ UpToDate)
  /\ UNCHANGED <<asked, behind, replies, away>>

Leave == ~away /\ away' = TRUE /\ UNCHANGED <<state, asked, behind, replies>>

End ==
  /\ MoveTo({"closed", "crashed"})
  /\ \/ away
     \/ UpToDate /\ behind = (IF state' = "closed" THEN "last" ELSE "fatal")
  /\ UNCHANGED <<asked, behind, replies, away>>

Next == Arrive \/ Process \/ Reply \/ ReplyLost \/ GetStuck \/ Leave \/ End

Spec == Init /\ [][Next]_vars

\* While a request waits for its answer and the client for it, a reply comes.
Waiting == state \in Serving /\ ~away /\ ~UpToDate
Responsive == []<>~Waiting \/ []<><<Reply>>_vars

\* When all requests in front of something else are answered, it ends.
Done == state \in Serving /\ ~away /\ behind # "nothing" /\ UpToDate
EndsAtLast == []<>~Done \/ []<><<End>>_vars

FairSpec == Spec /\ Responsive /\ EndsAtLast
=============================================================================
