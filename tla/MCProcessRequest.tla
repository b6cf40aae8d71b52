-------------------------- MODULE MCProcessRequest --------------------------
(***************************************************************************)
(* An instance of ProcessRequest for TLC: three documents, every text of   *)
(* up to MaxText characters and every path of up to MaxPath, with a file   *)
(* system for what they lead to, and the paths is_path_safe is asked about.*)
(***************************************************************************)
EXTENDS PathSafety

CONSTANTS MaxText, MaxPath   \* bounds

\* Two plain names and one that a URI cannot hold as it stands.
X == <<"x">>
Y == <<"y", "1">>
Z == <<"c", "+">>
MCDocs == {X, Y, Z}
MCWordsIn ==
  [d \in MCDocs |-> CASE d = X -> {<<"a">>, <<"b">>}
                      [] d = Y -> {<<"b">>}
                      [] OTHER -> {<<"b">>, <<"a", "b">>}]

MCLowerCase == [c \in {"A", "B", "F"} |-> CASE c = "A" -> "a" [] c = "B" -> "b" [] OTHER -> "f"]

MCCharOf ==
  [code \in 32 .. 127 |->
     CASE code = 32 -> " "  [] code = 34 -> "\"" [] code = 37 -> "%" [] code = 38 -> "&"
       [] code = 43 -> "+"  [] code = 46 -> "."  [] code = 47 -> "/" [] code = 49 -> "1"
       [] code = 50 -> "2"  [] code = 54 -> "6"  [] code = 61 -> "=" [] code = 63 -> "?"
       [] code = 66 -> "B"  [] code = 98 -> "b"  [] code = 99 -> "c" [] code = 102 -> "f"
       [] code = 120 -> "x" [] code = 121 -> "y" [] OTHER -> ToString(code)]

\* Browsers write either case of hexadecimal digits.
MCFormEncoding ==
  [c \in {" ", "%", "&", "+", "=", "?"} |->
     CASE c = " " -> <<"+">> [] c = "%" -> <<"%", "2", "5">> [] c = "&" -> <<"%", "2", "6">>
       [] c = "+" -> <<"%", "2", "b">> [] c = "=" -> <<"%", "3", "D">>
       [] OTHER -> <<"%", "3", "f">>]

MCTexts == BoundedSeq({"a", "B", "b", " ", "+", "%", "2", "&", "="}, MaxText)
Below(symbols) == {<<"/static", "/">> \o s : s \in BoundedSeq(symbols, MaxPath)}
MCUris ==
  Below({"%", "2", "6", "B", "f", "+", "&", "<"}) \cup Below({"x", "f", ".", "/"})
  \cup {<<"/query", "?">> \o s : s \in BoundedSeq({"terms", "=", "&", "?", "b"}, MaxPath)}

-----------------------------------------------------------------------------
\* The names in test_files, "ok" being the beginning of another one.
Ok    == <<"ok">>
OkNot == <<"ok", "_not_really">>
MCCwd   == <<<<"home">>, <<"test_files">>>>
MCRoots == {<<Ok>>, <<OkNot>>, <<Ok, OkNot>>}
MCDirs  == {MCCwd \o names : names \in MCRoots \cup {<<>>}} \cup {<<>>, <<MCCwd[1]>>}

MCTestFiles ==
  {Joined(names) : names \in
     SeqOf({Ok, OkNot, X, <<".">>, <<".", ".">>, <<>>}, MaxPath) \ {<<>>}}

-----------------------------------------------------------------------------
\* A file that is not indexed lies with the documents, and there are the
\* directories; where a name leads, seen from the working directory.
MCFiles ==
  [cwd |-> MCCwd, dirs |-> MCDirs,
   paths |-> MCDirs \cup {MCCwd \o <<name>> : name \in MCDocs \cup {<<"f">>}}]

Places ==
  LET names == {<<".", "/">> \o s : s \in MCDocs \cup BoundedSeq({"x", "f", ".", "/"}, MaxPath)}
  IN  [name \in {n \in names : realpath(MCFiles, n) # {}} |->
         CHOOSE p \in realpath(MCFiles, name) : TRUE]

\* A document by its name, anything else by its absolute path.
FileAt == [p \in MCFiles.paths |->
             IF p = <<>> \/ Last(p) \notin MCDocs THEN AsString(p) ELSE Last(p)]

MCOthers  == Range(FileAt) \ MCDocs
MCLeadsTo == [name \in DOMAIN Places |-> FileAt[Places[name]]]
=============================================================================
