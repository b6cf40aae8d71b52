----------------------------- MODULE HttpUtils -----------------------------
(***************************************************************************)
(* The string functions of HttpUtils.cpp that a request goes through:      *)
(* decode_URI, escape_html, and URLParser::parse; and is_path_safe.  A     *)
(* string is a sequence of symbols, most of them characters; a fixed piece *)
(* of text whose characters do not matter, such as "terms" or "amp;", is   *)
(* one symbol.                                                             *)
(***************************************************************************)
EXTENDS Naturals, Sequences, SequencesExt

CONSTANTS CharOf,     \* the symbol of each code from 32 to 127
          LowerCase   \* the symbols that to_lower changes, with what they become

\* toupper and the value of the digit in one.
Hex ==
  [c \in {"0", "1", "2", "3", "4", "5", "6", "7", "8", "9", "a", "b", "c", "d", "e", "f",
          "A", "B", "C", "D", "E", "F"} |->
     CASE c \in {"a", "A"} -> 10 [] c \in {"b", "B"} -> 11 [] c \in {"c", "C"} -> 12
       [] c \in {"d", "D"} -> 13 [] c \in {"e", "E"} -> 14 [] c \in {"f", "F"} -> 15
       [] OTHER -> CHOOSE n \in 0 .. 9 : ToString(n) = c]

\* The lookahead sees a blank behind the end of the string.
Look(from, p) == IF p <= Len(from) THEN from[p] ELSE " "

Code(from, p) == 16 * Hex[Look(from, p + 1)] + Hex[Look(from, p + 2)]

IsEscape(from, p) ==
  /\ from[p] = "%"
  /\ Look(from, p + 1) \in DOMAIN Hex /\ Look(from, p + 2) \in DOMAIN Hex
  /\ Code(from, p) \in 32 .. 127

\* Mutant: pos += 1 after an escape.
OneShort == 2

EscapeLength == 3

decode_URI(from) ==
  LET rest[p \in 1 .. Len(from) + EscapeLength] ==
        IF p > Len(from) THEN <<>>
        ELSE IF from[p] = "+" THEN <<" ">> \o rest[p + 1]
        ELSE IF IsEscape(from, p) THEN <<CharOf[Code(from, p)]>> \o rest[p + EscapeLength]
        ELSE <<from[p]>> \o rest[p + 1]
  IN  rest[1]

-----------------------------------------------------------------------------
\* boost::replace_all of a character.
Replace(s, char, by) ==
  FlattenSeq([k \in DOMAIN s |-> IF s[k] = char THEN by ELSE <<s[k]>>])

Amp == <<"&", "amp;">>
Quotes(s) ==
  Replace(Replace(Replace(Replace(s, ">", <<"&", "gt;">>), "<", <<"&", "lt;">>),
                  "'", <<"&", "apos;">>), "\"", <<"&", "quot;">>)

\* Mutant: the ampersand is replaced last.
AmpLast(from) == Replace(Quotes(from), "&", Amp)

escape_html(from) == Quotes(Replace(from, "&", Amp))

-----------------------------------------------------------------------------
\* boost::split: the pieces between the separators, empty ones included.
Split(s, separators) ==
  LET pieces[k \in 0 .. Len(s)] ==
        IF k = 0 THEN << <<>> >>
        ELSE LET before == pieces[k - 1] IN
             IF s[k] \in separators THEN Append(before, <<>>)
             ELSE Append(Front(before), Append(Last(before), s[k]))
  IN  pieces[Len(s)]

ToLower(s) == [k \in DOMAIN s |-> IF s[k] \in DOMAIN LowerCase THEN LowerCase[s[k]] ELSE s[k]]

\* The field=val pieces; any other piece is ignored, and a field's last one wins.
ArgsOf(piece) ==
  LET fv     == [k \in DOMAIN Split(piece, {"&"}) |-> Split(Split(piece, {"&"})[k], {"="})]
      good   == {k \in DOMAIN fv : Len(fv[k]) = 2}
      last(f) == Max({k \in good : decode_URI(fv[k][1]) = f})
  IN  [f \in {decode_URI(fv[k][1]) : k \in good} |-> decode_URI(fv[last(f)][2])]

URLParser == [path |-> <<>>, args |-> <<>>]

Added(args, to) ==
  [f \in DOMAIN args \cup DOMAIN to |-> IF f \in DOMAIN args THEN args[f] ELSE to[f]]

\* parse adds to the arguments the parser already has, and ignores what follows
\* a second question mark.
parse(parser, url) ==
  LET ps == Split(url, {"?"})
  IN  [path |-> decode_URI(ps[1]),
       args |-> IF Len(ps) < 2 THEN parser.args ELSE Added(ArgsOf(ps[2]), parser.args)]

-----------------------------------------------------------------------------
(***************************************************************************)
(* is_path_safe.  A file system has paths, sequences of names from its     *)
(* root; some of them are directories, one is where the process works.     *)
(***************************************************************************)
\* One name of a path, from the place (if any) where the names before it lead.
Step(fs, at, name) ==
  {q \in fs.paths : \E p \in at \cap fs.dirs :
     q = CASE name \in {<<>>, <<".">>} -> p
           [] name = <<".", ".">> -> IF p = <<>> THEN p ELSE Front(p)
           [] OTHER -> Append(p, name)}

\* The place a path leads to, if there is one: {} stands for nullptr.
realpath(fs, path) ==
  LET start == IF path = <<>> THEN {} ELSE IF path[1] = "/" THEN {<<>>} ELSE {fs.cwd}
  IN  FoldLeft(LAMBDA at, name : Step(fs, at, name), start, Split(path, {"/"}))

\* The names of a path, a slash before each.
Slashes(p) == FlattenSeq([k \in DOMAIN p |-> <<"/">> \o p[k]])

\* The string of a path: the root's is a slash too.
AsString(p) == IF p = <<>> THEN <<"/">> ELSE Slashes(p)

\* Mutant: the name of the root directory alone is compared.
NameOnly(root_dir) == root_dir

new_root_dir(root_dir) == Append(root_dir, "/")

\* What is left of the absolute path without as many symbols as the working
\* directory's has, and a slash, must begin with root_dir and a slash.
is_path_safe(fs, root_dir, test_file) ==
  \E p \in realpath(fs, test_file) :
    LET path == SubSeq(AsString(p), Len(AsString(fs.cwd)) + 2, Len(AsString(p)))
    IN  IsPrefix(new_root_dir(root_dir), path)
=============================================================================
