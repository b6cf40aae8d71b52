----------------------------- MODULE PathSafety -----------------------------
(***************************************************************************)
(* The file system that is_path_safe is asked about: its directories, the  *)
(* working directory, and the documents that still exist.                  *)
(***************************************************************************)
EXTENDS ProcessRequest

CONSTANTS Cwd,        \* the working directory, a path from the root
          Dirs,       \* all directories; each of them has the documents
          Roots,      \* root directories, seen from the working directory
          TestFiles   \* spellings of files

\* What can name a file, and what can be a path: "." and ".." lead elsewhere.
IsName(n) ==
  /\ n \in Seq(ToSet(n)) /\ "/" \notin ToSet(n)
  /\ n \notin {<<>>, <<".">>, <<".", ".">>}

IsPath(p) == p \in Seq(ToSet(p)) /\ \A k \in DOMAIN p : IsName(p[k])

\* A root is a directory below the working directory, spelled plainly; a file may
\* be spelled in any way.
ASSUME PathsAssumption ==
  /\ \A p \in {Cwd} \cup Dirs \cup Roots : IsPath(p)
  /\ <<>> \notin Roots
  /\ \A f \in TestFiles : f \in Seq(ToSet(f))

Tree ==
  LET documents == {dir \o Split(d, {"/"}) : dir \in Dirs, d \in files}
  IN  [cwd |-> Cwd, dirs |-> Dirs, paths |-> Dirs \cup {p \in documents : IsPath(p)}]

Joined(names) == Tail(AsString(names))

\* For a plain root directory and any way to spell a file under the working
\* directory, with ".", ".." and doubled slashes, is_path_safe says whether the
\* file exists and is within the root (HttpUtils.cpp:45-80).  The working
\* directory is not the root of the file system: the string of that one ends
\* with the slash that erase() counts once more, and a file within the root
\* directory loses the first character of its name (HttpUtils.cpp:70).
PathSafe ==
  ask = Nothing /\ Cwd # <<>> =>
    LET fs == Tree IN
    \A root \in Roots, test_file \in TestFiles :
      LET found == realpath(fs, test_file) IN
      (\A p \in found : IsPrefix(Cwd, p)) =>
        (is_path_safe(fs, Joined(root), test_file)
           <=> \E p \in found : IsStrictPrefix(Cwd \o root, p))
=============================================================================
