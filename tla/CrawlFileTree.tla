--------------------------- MODULE CrawlFileTree ---------------------------
(***************************************************************************)
(* crawl_filetree: the recursive descent of handle_dir as an explicit stack*)
(* of open directories, each read in the unspecified order of readdir, and *)
(* handle_file, which feeds a file's words to WordIndex::record one by one.*)
(*                                                                         *)
(* The file system is a graph, because stat follows symbolic links; a path *)
(* is a sequence of names below the root, and stat fails on a path of more *)
(* than MaxDepth names (PATH_MAX, ELOOP).  Any other call may fail as well:*)
(* stat, opendir and the opening of a file, because files vanish and       *)
(* permissions differ; readdir, which handle_dir takes for the end of the  *)
(* directory; and a read in the middle of a file, which read_file does not *)
(* look at, so that it returns true with the part read before.             *)
(***************************************************************************)
EXTENDS Integers, FiniteSets, Sequences

CONSTANTS
  Root,         \* the node root_dir names
  Dirs,         \* directory node -> name -> node, with "." and ".."
  Files,        \* regular file node -> the tokens between its non-letters, at
                \* least one (split turns an empty file into one empty token)
  Lower,        \* token -> its lower-case form
  Cuts,         \* token -> what an end inside it leaves of it: "" in front of
                \* it, a part of it, or all of it
  MaxDepth,     \* bound: names in a path that stat accepts
  MaxFailures   \* bound: calls that fail although the node is there

VARIABLES
  phase,      \* "start", "crawling", "true" or "false": the latter two returned
  stack,      \* the active handle_dir calls: [path, left: names still to be read]
  file,       \* the active handle_file call: [path, tokens], or NoFile
  open_dirs,  \* opendir calls minus closedir calls
  failures,   \* how many calls have failed
  lost,       \* history: the paths on which stat, opendir or open failed, and
              \* those that a failing readdir did not deliver
  cut,        \* history: path -> the tokens read before reading it failed
  index_, doc_to_words_, num_words_, pc, query, todo, results, answer, recorded, missed

indexVars == <<index_, doc_to_words_, num_words_, pc, query, todo, results, answer,
               recorded, missed>>
failVars == <<failures, lost, cut>>
vars == <<phase, stack, file, open_dirs, failVars, indexVars>>

NoFile == [path |-> <<>>, tokens |-> <<>>]
Dots == {".", ".."}
Kind(node) == IF node \in DOMAIN Dirs THEN "dir"
              ELSE IF node \in DOMAIN Files THEN "file" ELSE "other"

Names == UNION {DOMAIN Dirs[d] : d \in DOMAIN Dirs}

\* A file system is finite, and "none" is no node of it.
ASSUME TreeAssumption ==
  IsFiniteSet(Names) /\ "none" \notin DOMAIN Dirs /\ "none" \notin DOMAIN Files
ASSUME TokensAssumption ==
  /\ IsFiniteSet(DOMAIN Lower)
  /\ \A f \in DOMAIN Files : Files[f] \in Seq(DOMAIN Lower) \ {<<>>}
  /\ \A t \in DOMAIN Lower : Cuts[t] \subseteq DOMAIN Lower
ASSUME DepthAssumption == MaxDepth \in Nat

\* The node a path leads to; a path is not followed through what is no directory.
NodeAt(path) ==
  LET step[n \in 0 .. Len(path)] ==
        IF n = 0 THEN Root
        ELSE LET d == step[n - 1] IN
             IF d \in DOMAIN Dirs /\ path[n] \in DOMAIN Dirs[d]
             THEN Dirs[d][path[n]] ELSE "none"
  IN  step[Len(path)]

\* The files below the root, by path.
Paths == UNION {[1 .. n -> Names \ Dots] : n \in 1 .. MaxDepth}
FilePaths == {p \in Paths : Kind(NodeAt(p)) = "file"}
Words == {Lower[t] : t \in DOMAIN Lower} \ {""}

\* The bound is one of the index's own Next, of which only record is used here.
Index == INSTANCE WordIndex
           WITH Docs <- FilePaths, Readers <- {}, Queries <- {}, MaxRecords <- 0

Init == /\ phase = "start" /\ stack = <<>> /\ file = NoFile
        /\ open_dirs = 0 /\ Index!Init
        /\ failures = 0 /\ lost = {} /\ cut = [p \in {} |-> <<>>]

-----------------------------------------------------------------------------
Top == stack[Len(stack)]
Below == SubSeq(stack, 1, Len(stack) - 1)
Frame(path, node) == [path |-> path, left |-> DOMAIN Dirs[node]]

Works == UNCHANGED failVars

OneFails == failures < MaxFailures /\ failures' = failures + 1

\* A call fails, and with it the crawl loses these paths and what lies below.
Fails(paths) == OneFails /\ lost' = lost \cup paths /\ UNCHANGED cut

\* The reading of a file fails once these tokens are read.
ReadFails(path, tokens) ==
  /\ OneFails /\ UNCHANGED lost
  /\ cut' = [p \in DOMAIN cut \cup {path} |-> IF p = path THEN tokens ELSE cut[p]]

\* stat or opendir of the root fails, or it is no directory.
RootFails ==
  /\ phase = "start"
  /\ \/ Kind(Root) # "dir" /\ Works
     \/ Fails({<<>>})
  /\ phase' = "false"
  /\ UNCHANGED <<stack, file, open_dirs, indexVars>>

OpenRoot ==
  /\ phase = "start" /\ Kind(Root) = "dir"
  /\ phase' = "crawling"
  /\ stack' = <<Frame(<<>>, Root)>> /\ open_dirs' = open_dirs + 1
  /\ UNCHANGED <<file, failVars, indexVars>>

\* Mutant: only "." is skipped.
OnlyDot(name) == name = "."

Ignored(name) == name \in Dots

PathOf(name) == Append(Top.path, name)

\* Mutant: the next readdir is skipped along with the entry.
NotTaken(name) == stack

\* readdir returned this name: the stack without it, before anything is pushed.
Taken(name) == Append(Below, [path |-> Top.path, left |-> Top.left \ {name}])

Reading(name) ==
  /\ phase = "crawling" /\ stack # <<>> /\ file = NoFile
  /\ name \in Top.left
  /\ UNCHANGED phase

\* ".", "..", neither file nor directory, or stat, opendir or open failed.
Skip(name) ==
  /\ Reading(name)
  /\ \/ Ignored(name) /\ Works
     \/ ~Ignored(name) /\ Len(PathOf(name)) > MaxDepth /\ Works
     \/ ~Ignored(name) /\ Kind(NodeAt(PathOf(name))) = "other" /\ Works
     \/ ~Ignored(name) /\ Len(PathOf(name)) <= MaxDepth /\ Fails({PathOf(name)})
  /\ stack' = Taken(name)
  /\ UNCHANGED <<file, open_dirs, indexVars>>

OpenDir(name) ==
  /\ Reading(name)
  /\ ~Ignored(name) /\ Len(PathOf(name)) <= MaxDepth
  /\ Kind(NodeAt(PathOf(name))) = "dir"
  /\ stack' = Append(Taken(name), Frame(PathOf(name), NodeAt(PathOf(name))))
  /\ open_dirs' = open_dirs + 1
  /\ UNCHANGED <<file, failVars, indexVars>>

\* The beginnings of a file: some tokens and what is left of the next one.
Beginnings(tokens) ==
  UNION {{SubSeq(tokens, 1, k - 1) \o <<t>> : t \in Cuts[tokens[k]]} : k \in DOMAIN tokens}

\* read_file takes the end of its input for the end of the file.
ReadFile(name) ==
  /\ Reading(name)
  /\ ~Ignored(name) /\ Len(PathOf(name)) <= MaxDepth
  /\ Kind(NodeAt(PathOf(name))) = "file"
  /\ stack' = Taken(name)
  /\ LET tokens == Files[NodeAt(PathOf(name))] IN
       \/ Works /\ file' = [path |-> PathOf(name), tokens |-> tokens]
       \/ \E part \in Beginnings(tokens) :
            ReadFails(PathOf(name), part) /\ file' = [path |-> PathOf(name), tokens |-> part]
  /\ UNCHANGED <<open_dirs, indexVars>>

\* Mutant: the token is recorded as it stands.
AsItStands(t) == t

WordOf(t) == Lower[t]

\* handle_file's loop; split leaves empty tokens at the ends, which are dropped.
RecordToken ==
  /\ file.tokens # <<>>
  /\ file' = IF Len(file.tokens) = 1 THEN NoFile
             ELSE [path |-> file.path, tokens |-> Tail(file.tokens)]
  /\ IF WordOf(Head(file.tokens)) = "" THEN UNCHANGED indexVars
     ELSE Index!record(WordOf(Head(file.tokens)), file.path)
  /\ UNCHANGED <<phase, stack, open_dirs, failVars>>

\* Mutant: the directory is left open.
LeftOpen == open_dirs

AfterClose == open_dirs - 1

\* readdir returned NULL, at the end of the directory or because it failed: the
\* caller closes the directory either way.
CloseDir ==
  /\ phase = "crawling" /\ stack # <<>> /\ file = NoFile
  /\ \/ Top.left = {} /\ Works
     \/ Top.left # {} /\ Fails({PathOf(name) : name \in Top.left})
  /\ stack' = Below /\ open_dirs' = AfterClose
  /\ phase' = IF Below = <<>> THEN "true" ELSE phase
  /\ UNCHANGED <<file, indexVars>>

Returned == phase \in {"true", "false"} /\ UNCHANGED vars

Step == \/ RootFails \/ OpenRoot \/ RecordToken \/ CloseDir
        \/ \E name \in Names : Skip(name) \/ OpenDir(name) \/ ReadFile(name)

Next == Step \/ Returned

Spec == Init /\ [][Next]_vars

\* The calling thread keeps running.
FairSpec == Spec /\ WF_vars(Step)

-----------------------------------------------------------------------------
\* The path q leads to p or to a directory on the way to p.
Under(q, p) == Len(q) <= Len(p) /\ \A i \in 1 .. Len(q) : q[i] = p[i]

\* The directories of st lie one in the other, and the name that led from one to
\* the next has been delivered.
Nested(st) ==
  \A j \in 1 .. Len(st) :
    /\ st[j].path \in Seq(Names \ Dots) /\ Len(st[j].path) = j - 1
    /\ \A i \in 1 .. j - 1 :
         Under(st[i].path, st[j].path) /\ st[j].path[i] \notin st[i].left

\* The descent is nested and within the limit of stat, and what is read is a file.
TypeOK ==
  /\ phase \in {"start", "crawling", "true", "false"}
  /\ stack \in Seq([path : Seq(Names), left : SUBSET Names])
  /\ Nested(stack) /\ Len(stack) <= MaxDepth + 1
  /\ file \in [path : Seq(Names), tokens : Seq(DOMAIN Lower)]
  /\ file # NoFile => file.path \in FilePaths
  /\ open_dirs \in Nat /\ failures \in Nat /\ lost \subseteq Seq(Names)
  /\ \A p \in DOMAIN cut : p \in FilePaths /\ cut[p] \in Beginnings(Files[NodeAt(p)])
  /\ Index!IndexInv

\* The files the crawl came to: no path on the way was lost.
Seen == {p \in FilePaths : \A n \in 0 .. Len(p) : SubSeq(p, 1, n) \notin lost}

\* What was read of a file.
Content(p) == IF p \in DOMAIN cut THEN cut[p] ELSE Files[NodeAt(p)]

Occurs(w, tokens) == Cardinality({k \in DOMAIN tokens : Lower[tokens[k]] = w})
Count(w, p) == Occurs(w, Content(p))
Entries == {[word |-> x[1], result |-> index_[x[1]][x[2]]] :
              x \in {y \in DOMAIN recorded :
                       y[1] \in DOMAIN index_ /\ y[2] \in DOMAIN index_[y[1]]}}

\* When the crawl returns true, the index holds exactly the words that were read,
\* each with its count, in whatever order readdir went: of a file no call failed
\* on, all; of one whose reading failed, those of the part before; and no word of
\* a file that a failing stat, opendir, open or readdir lost
\* (CrawlFileTree.cpp:55-189, FileReader.cpp:37-49).  When it returns false, none.
IndexComplete ==
  LET expected == {[word |-> x[1], result |-> [doc_name |-> x[2], rank |-> Count(x[1], x[2])]] :
                     x \in {y \in Words \X Seen : Count(y[1], y[2]) > 0}}
  IN  /\ phase = "true"  => Entries = expected /\ DOMAIN doc_to_words_ \subseteq Seen
      /\ phase = "false" => DOMAIN index_ = {}

\* Every directory that is open belongs to an active call, and none stays open
\* (CrawlFileTree.cpp:78-88, 148-153).
DirsClosed ==
  /\ open_dirs = Len(stack)
  /\ phase \in {"true", "false"} => open_dirs = 0

\* The crawl ends, also when symbolic links lead back up the tree.
Terminates == <>(phase \in {"true", "false"})
=============================================================================
