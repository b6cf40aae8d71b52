-------------------------- MODULE ConnectionStates --------------------------
(***************************************************************************)
(* The states of a connection as the rest of the server sees them, and the *)
(* moves between them: HttpServer builds on them, and HttpConnection is    *)
(* shown to make no others (Connection).                                   *)
(***************************************************************************)

\* Reading or parsing, ProcessRequest and write_response, reading for ever at
\* the end of the client's stream.
Serving == {"reading", "answering", "stuck"}

\* A response that was the last one may leave nothing to read at once; only
\* next_request gives a connection up, and only there an exception is thrown.
Moves ==
  { <<"reading", "answering">>, <<"answering", "reading">>,
    <<"reading", "stuck">>, <<"answering", "stuck">>,
    <<"reading", "closed">>, <<"reading", "crashed">> }
=============================================================================
