--------------------------- MODULE ProcessRequest ---------------------------
(***************************************************************************)
(* What a user of the server sees: a browser submits the search form, asks *)
(* for a URI or follows a link of the page it shows, and ProcessRequest    *)
(* answers with a file, a page of search results or a 404.  The index is   *)
(* the one built when the program started.  A file is read when it is asked *)
(* for, and may be gone by then; it is whatever the name leads to: an      *)
(* indexed document, another file, or a directory, which opens too.        *)
(*                                                                         *)
(* What lookup_query returns is WordIndex's promise: the documents that    *)
(* contain every term.  Left out are the wording of a page, the content    *)
(* type, a function of the file's suffix, and a file's bytes: a body holds *)
(* those that could be read, which are none for a directory.               *)
(***************************************************************************)
EXTENDS HttpUtils

CONSTANTS
  Docs,          \* the indexed documents, by name: a path without "./"
  Others,        \* the other files and the directories, by their absolute path
  LeadsTo,       \* name -> the document or other that the file system opens for it
  WordsIn,       \* document -> the lower-case words the crawl recorded for it
  Texts,         \* what users type into the form
  Uris,          \* URIs that are asked for otherwise
  FormEncoding,  \* how a browser encodes a character of a form field
  MaxRemoved     \* bound: documents that vanish

\* The directory that was crawled was named relative to the working directory.
ASSUME DocsAssumption == \A d \in Docs : d # <<>> /\ d[1] # "/"

\* Behind "./" the name of a document leads to it; other names can lead there too.
ASSUME FilesAssumption ==
  /\ \A f \in Others : f # <<>> /\ f[1] = "/"
  /\ LeadsTo \in [DOMAIN LeadsTo -> Docs \cup Others]
  /\ \A d \in Docs : <<".", "/">> \o d \in DOMAIN LeadsTo /\ LeadsTo[<<".", "/">> \o d] = d

\* Names, texts and URIs are strings of symbols, and a URI is not empty.
ASSUME StringsAssumption ==
  /\ \A s \in Docs \cup Texts \cup Uris : s \in Seq(ToSet(s))
  /\ <<>> \notin Uris

\* A browser encodes at least what would otherwise mean something else, a blank
\* as a plus sign and any other character as an escape that stands for it.
ASSUME FormAssumption ==
  /\ {" ", "+", "%", "&", "=", "?"} \subseteq DOMAIN FormEncoding
  /\ \A c \in DOMAIN FormEncoding :
       IF c = " " THEN FormEncoding[c] = <<"+">>
       ELSE \E x, y \in DOMAIN Hex :
              /\ FormEncoding[c] = <<"%", x, y>>
              /\ 16 * Hex[x] + Hex[y] \in 32 .. 127
              /\ CharOf[16 * Hex[x] + Hex[y]] = c

VARIABLES ask,       \* what the browser wants: [kind, what]
          uri,       \* the URI it sends, or <<>> if it is not waiting
          response,  \* the response it shows
          files      \* the documents that still exist
vars == <<ask, uri, response, files>>

Nothing == [kind |-> "nothing", what |-> <<>>]
NoResponse == [code |-> 0, file |-> <<>>, links |-> {}, shown |-> <<>>]

Init == ask = Nothing /\ uri = <<>> /\ response = NoResponse /\ files = Docs

-----------------------------------------------------------------------------
(***************************************************************************)
(* The browser.                                                            *)
(***************************************************************************)
Static == <<"/static", "/">>

Send(kind, what, u) ==
  /\ uri = <<>>
  /\ ask' = [kind |-> kind, what |-> what]
  /\ uri' = u /\ response' = NoResponse
  /\ UNCHANGED files

Encoded(text) == FlattenSeq([k \in DOMAIN text |->
  IF text[k] \in DOMAIN FormEncoding THEN FormEncoding[text[k]] ELSE <<text[k]>>])

Submit(text) ==
  ask = Nothing /\ Send("form", text, <<"/query", "?", "terms", "=">> \o Encoded(text))
Get(u) == ask = Nothing /\ Send("uri", u, u)

\* The link as the page of results gives it.
Link(d) == Static \o d

Follow(d) == d \in response.links /\ Send("link", d, Link(d))

Leave ==
  /\ ask # Nothing /\ uri = <<>>
  /\ ask' = Nothing /\ response' = NoResponse
  /\ UNCHANGED <<uri, files>>

Unlink(d) ==
  /\ d \in files /\ Cardinality(Docs \ files) < MaxRemoved
  /\ files' = files \ {d}
  /\ UNCHANGED <<ask, uri, response>>

-----------------------------------------------------------------------------
(***************************************************************************)
(* The server.                                                             *)
(***************************************************************************)
IsStatic == Len(uri) >= 2 /\ SubSeq(uri, 1, 2) = Static

Answer(r) == uri' = <<>> /\ response' = r /\ UNCHANGED <<ask, files>>

\* Mutant: file_name.replace(0, 8, ".")
WithoutSlash(path) == <<".">> \o SubSeq(path, 3, Len(path))

\* file_name.replace(0, 7, "."): "/static" goes, the slash behind it stays.
FileName(path) == <<".">> \o Tail(path)

\* What a name leads to, seen from the working directory, if it can be opened.
Named(name) ==
  {LeadsTo[n] : n \in {name} \cap DOMAIN LeadsTo} \cap (files \cup Others)

\* Mutant: the response code is not set.
NoCode(name) == [NoResponse EXCEPT !.shown = escape_html(name)]

NotFound(name) == [NoResponse EXCEPT !.code = 404, !.shown = escape_html(name)]

ProcessFileRequest ==
  /\ uri # <<>> /\ IsStatic
  /\ LET name == FileName(parse(URLParser, uri).path) IN
     \/ \E f \in Named(name) : Answer([NoResponse EXCEPT !.code = 200, !.file = f])
     \/ Named(name) = {} /\ Answer(NotFound(name))

\* Mutant: the terms are looked up as they were typed.
AsTyped(args) == {t \in ToSet(Split(args[<<"terms">>], {"+", " "})) : t # <<>>}

Terms(args) == {ToLower(t) : t \in ToSet(Split(args[<<"terms">>], {"+", " "}))} \ {<<>>}

lookup_query(terms) == {d \in Docs : terms \subseteq WordsIn[d]}

\* No terms match every document, but no result is shown for them.
Results(args) ==
  IF <<"terms">> \notin DOMAIN args \/ Terms(args) = {} THEN {}
  ELSE lookup_query(Terms(args))

ProcessQueryRequest ==
  /\ uri # <<>> /\ ~IsStatic
  /\ Answer([NoResponse EXCEPT !.code = 200, !.links = Results(parse(URLParser, uri).args)])

Browser == \/ \E text \in Texts : Submit(text)
           \/ \E u \in Uris : Get(u)
           \/ (\E d \in Docs : Follow(d)) \/ Leave

Next == \/ Browser \/ ProcessFileRequest \/ ProcessQueryRequest
        \/ \E d \in Docs : Unlink(d)

Spec == Init /\ [][Next]_vars

-----------------------------------------------------------------------------
\* The types; a request that has been answered has a response code, 200 if a file
\* was opened for it (HttpServer.cpp:216-262, 305).
TypeOK ==
  /\ ask.kind \in {"nothing", "form", "uri", "link"}
  /\ files \subseteq Docs /\ response.links \subseteq Docs
  /\ response.file \in Docs \cup Others \cup {<<>>}
  /\ response.code \in {0, 200, 404} /\ (response.file # <<>> => response.code = 200)
  /\ response.code = 0 <=> ask = Nothing \/ uri # <<>>

\* The words of a text as the user sees them: what is between blanks and plus
\* signs, in lower case.
WordsOf(text) ==
  LET inside(i, j) == \A k \in i .. j : text[k] \notin {" ", "+"}
  IN  {ToLower(SubSeq(text, x[1], x[2])) : x \in
         {y \in (DOMAIN text) \X (DOMAIN text) :
            /\ y[1] <= y[2] /\ inside(y[1], y[2])
            /\ y[1] > 1 => ~inside(y[1] - 1, y[1] - 1)
            /\ y[2] < Len(text) => ~inside(y[2] + 1, y[2] + 1)}}

\* Whatever is typed, through the browser's encoding, URLParser's splitting and
\* decoding and the second splitting, the page links exactly the documents
\* that contain every word of it (HttpServer.cpp:290-336).
SearchRight ==
  ask.kind = "form" /\ uri = <<>> =>
    response.links = IF WordsOf(ask.what) = {} THEN {}
                     ELSE {d \in Docs : WordsOf(ask.what) \subseteq WordsIn[d]}

\* A name that a page and a URI can hold as it stands: of the characters with a
\* code, those that mean nothing in either; and no browser resolves its parts.
Plain(d) ==
  /\ \A k \in DOMAIN d :
       /\ d[k] \in {CharOf[code] : code \in 33 .. 126}
       /\ d[k] \notin {"%", "+", "?", "#", " ", "&", "\"", "'", "<", ">", "\\"}
  /\ ToSet(Split(d, {"/"})) \cap {<<".">>, <<".", ".">>} = {}

\* A link of a page of results leads to the document it names, if that still
\* exists, and to a 404 otherwise, never to any other file; names that a link
\* cannot hold as they stand aside (HttpServer.cpp:332, 208-216).
LinksLeadBack ==
  ask.kind = "link" /\ uri = <<>> /\ Plain(ask.what) =>
    \/ response.code = 200 /\ response.file = ask.what
    \/ response.code = 404 /\ ask.what \notin files

\* Symbol by symbol: what a position of an encoded string stands for.
DecodedAt(s, k) ==
  IF \E p \in {k - 1, k - 2} \cap DOMAIN s : IsEscape(s, p) THEN <<>>
  ELSE IF s[k] = "+" THEN <<" ">>
  ELSE IF IsEscape(s, k) THEN <<CharOf[Code(s, k)]>> ELSE <<s[k]>>

\* decode_URI replaces every escape once, and nothing else, up to the last
\* symbol of the string (HttpUtils.cpp:110-167).
DecodeExact == decode_URI(uri) = FlattenSeq([k \in DOMAIN uri |-> DecodedAt(uri, k)])

EscapedChar(c) ==
  CASE c = "&" -> Amp [] c = ">" -> <<"&", "gt;">> [] c = "<" -> <<"&", "lt;">>
    [] c = "'" -> <<"&", "apos;">> [] c = "\"" -> <<"&", "quot;">> [] OTHER -> <<c>>

\* A 404 shows the name of the file with every character escaped once, although
\* escape_html goes over the string five times (HttpUtils.cpp:99-103).
EscapedOnce ==
  ask.kind = "uri" /\ response.code = 404 =>
    LET name == FileName(parse(URLParser, ask.what).path)
    IN  response.shown = FlattenSeq([k \in DOMAIN name |-> EscapedChar(name[k])])
=============================================================================
