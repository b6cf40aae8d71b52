------------------------ MODULE CrawlFileTreeProofs ------------------------
(***************************************************************************)
(* Proofs about CrawlFileTree for any finite file system, with links that  *)
(* lead anywhere, any contents, and any calls failing, readdir and read    *)
(* among them: the crawl closes what it opens, and leaves exactly the words*)
(* it has read.                                                            *)
(***************************************************************************)
EXTENDS CrawlFileTree, Induction, SequenceTheorems

-----------------------------------------------------------------------------
(***************************************************************************)
(* The invariant.                                                          *)
(***************************************************************************)

\* A directory of the stack st still has to deliver a name that leads to p.
DueIn(st, p) ==
  \E i \in 1 .. Len(st) : i <= Len(p) /\ Under(st[i].path, p) /\ p[i] \in st[i].left
Due(p) == DueIn(stack, p)

Reached(p) == \A q \in lost : ~Under(q, p)

PhaseInv ==
  /\ phase # "crawling" => stack = <<>> /\ file = NoFile
  /\ phase \in {"start", "false"} => DOMAIN index_ = {}
  /\ phase = "start" => lost = {} /\ DOMAIN cut = {}

\* What is still due has not been touched.
DueInv ==
  \A p \in FilePaths : Due(p) =>
    Reached(p) /\ p \notin DOMAIN cut /\ \A w \in Words : recorded[<<w, p>>] = 0

\* The file in hand: what is recorded and what is left make up its words.
FileInv ==
  file # NoFile =>
    /\ ~Due(file.path) /\ Reached(file.path)
    /\ file.tokens # <<>>
    /\ \A w \in Words :
         recorded[<<w, file.path>>] + Occurs(w, file.tokens) = Count(w, file.path)

\* Every other file is dealt with.
DoneInv ==
  phase \in {"crawling", "true"} =>
    \A p \in FilePaths : ~Due(p) /\ (file = NoFile \/ p # file.path) =>
      \A w \in Words : recorded[<<w, p>>] = IF Reached(p) THEN Count(w, p) ELSE 0

IInv == TypeOK /\ DirsClosed /\ PhaseInv /\ DueInv /\ FileInv /\ DoneInv

-----------------------------------------------------------------------------
(***************************************************************************)
(* The file system: where paths lead, and that it is finite.               *)
(***************************************************************************)
Child(node, name) ==
  IF node \in DOMAIN Dirs /\ name \in DOMAIN Dirs[node] THEN Dirs[node][name] ELSE "none"

\* g is the nodes on the way along p.
Walk(g, p) ==
  g = [n \in 0 .. Len(p) |-> IF n = 0 THEN Root ELSE Child(g[n - 1], p[n])]

LEMMA NodeIsChosen ==
  ASSUME NEW p
  PROVE  NodeAt(p) = (CHOOSE g : Walk(g, p))[Len(p)]
BY DEF NodeAt, Walk, Child

LEMMA SomeWalk ==
  ASSUME NEW p \in Seq(Names)
  PROVE  \E g : Walk(g, p)
<1> DEFINE D == 0 .. Len(p)
           Value(g, n) == IF n = 0 THEN Root ELSE Child(g[n - 1], p[n])
           UpTo(m) == \E g : /\ g = [n \in D |-> g[n]]
                             /\ \A n \in D : n <= m => g[n] = Value(g, n)
           S == {m \in Nat : UpTo(m)}
<1>0. Len(p) \in Nat
  OBVIOUS
<1>1. 0 \in S
  <2> DEFINE g == [n \in D |-> Root]
  <2>1. g = [n \in D |-> g[n]]
    OBVIOUS
  <2>2. \A n \in D : n <= 0 => g[n] = Value(g, n)
    BY <1>0
  <2> HIDE DEF g, Value, D
  <2>3. UpTo(0)
    BY <2>1, <2>2
  <2> QED
    BY <2>3
<1>2. ASSUME NEW m \in Nat, m \in S PROVE m + 1 \in S
  <2>1. PICK g : /\ g = [n \in D |-> g[n]]
                 /\ \A n \in D : n <= m => g[n] = Value(g, n)
    BY <1>2
  <2> DEFINE h == [n \in D |-> Value(g, n)]
  <2>2. h = [n \in D |-> h[n]]
    OBVIOUS
  <2>3. ASSUME NEW n \in D, n <= m + 1 PROVE h[n] = Value(h, n)
    <3>1. CASE n = 0
      BY <3>1
    <3>2. CASE n # 0
      <4>1. n - 1 \in D /\ n - 1 <= m
        BY <1>0, <2>3, <3>2
      <4>2. h[n - 1] = g[n - 1]
        BY <2>1, <4>1
      <4>3. h[n] = Value(g, n)
        OBVIOUS
      <4> QED
        BY <3>2, <4>2, <4>3
    <3> QED
      BY <3>1, <3>2
  <2> HIDE DEF h, Value, D
  <2>4. UpTo(m + 1)
    BY <2>2, <2>3
  <2>5. m + 1 \in Nat
    OBVIOUS
  <2> HIDE DEF UpTo
  <2> QED
    BY <2>4, <2>5
<1> HIDE DEF S
<1>3. Len(p) \in S
  BY <1>0, <1>1, <1>2, AllNumbers
<1>4. PICK g : /\ g = [n \in D |-> g[n]]
               /\ \A n \in D : n <= Len(p) => g[n] = Value(g, n)
  BY <1>3 DEF S
<1>5. \A n \in D : g[n] = Value(g, n)
  BY <1>0, <1>4
<1>6. g = [n \in D |-> Value(g, n)]
  BY <1>4, <1>5
<1> QED
  BY <1>6 DEF Walk

\* The ways along two paths are the same as long as the paths are.
LEMMA SameWay ==
  ASSUME NEW p \in Seq(Names), NEW q \in Seq(Names), Under(q, p),
         NEW g, Walk(g, p), NEW h, Walk(h, q)
  PROVE  \A n \in 0 .. Len(q) : g[n] = h[n]
<1> DEFINE S == {n \in Nat : n <= Len(q) => g[n] = h[n]}
<1>0. Len(p) \in Nat /\ Len(q) \in Nat /\ Len(q) <= Len(p)
  BY DEF Under
<1>1. /\ \A n \in 0 .. Len(q) : n \in 0 .. Len(p)
      /\ \A n \in 0 .. Len(p) : g[n] = IF n = 0 THEN Root ELSE Child(g[n - 1], p[n])
      /\ \A n \in 0 .. Len(q) : h[n] = IF n = 0 THEN Root ELSE Child(h[n - 1], q[n])
  <2>1. \A n \in 0 .. Len(q) : n \in 0 .. Len(p)
    BY <1>0
  <2>2. \A n \in 0 .. Len(p) : g[n] = IF n = 0 THEN Root ELSE Child(g[n - 1], p[n])
    <3>1. Walk(g, p)
      OBVIOUS
    <3> QED
      BY <3>1 DEF Walk
  <2>3. \A n \in 0 .. Len(q) : h[n] = IF n = 0 THEN Root ELSE Child(h[n - 1], q[n])
    <3>1. Walk(h, q)
      OBVIOUS
    <3> QED
      BY <3>1 DEF Walk
  <2> QED
    BY <2>1, <2>2, <2>3
<1>2. 0 \in S
  <2>1. 0 \in 0 .. Len(q)
    BY <1>0
  <2> QED
    BY <1>1, <2>1
<1>3. ASSUME NEW n \in Nat, n \in S PROVE n + 1 \in S
  <2>1. CASE n + 1 <= Len(q)
    <3>1. /\ n + 1 \in 0 .. Len(q) /\ n + 1 \in 1 .. Len(q) /\ n <= Len(q)
          /\ n + 1 # 0 /\ (n + 1) - 1 = n
      BY <1>0, <2>1
    <3>2. g[n] = h[n] /\ q[n + 1] = p[n + 1]
      BY <1>3, <3>1 DEF Under
    <3>3. g[n + 1] = Child(g[n], p[n + 1]) /\ h[n + 1] = Child(h[n], q[n + 1])
      BY <1>1, <3>1
    <3>4. n + 1 \in Nat /\ g[n + 1] = h[n + 1]
      BY <3>2, <3>3
    <3> QED
      BY <3>4
  <2>2. CASE ~(n + 1 <= Len(q))
    BY <2>2
  <2> QED
    BY <2>1, <2>2
<1> HIDE DEF S
<1>4. \A n \in Nat : n \in S
  BY <1>2, <1>3, AllNumbers
<1>5. \A n \in 0 .. Len(q) : n \in Nat /\ n <= Len(q)
  BY <1>0
<1> QED
  BY <1>4, <1>5 DEF S

\* The nodes on the way along p are where its beginnings lead.
LEMMA WayAlong ==
  ASSUME NEW p \in Seq(Names)
  PROVE  \E g : /\ Walk(g, p)
                /\ \A q \in Seq(Names) : Under(q, p) => NodeAt(q) = g[Len(q)]
<1>1. PICK g : Walk(g, p)
  BY SomeWalk
<1>2. ASSUME NEW q \in Seq(Names), Under(q, p) PROVE NodeAt(q) = g[Len(q)]
  <2> DEFINE h == CHOOSE f : Walk(f, q)
  <2>1. Walk(h, q)
    BY SomeWalk
  <2> HIDE DEF h
  <2>2. Len(q) \in 0 .. Len(q)
    OBVIOUS
  <2>3. g[Len(q)] = h[Len(q)]
    BY <1>1, <1>2, <2>1, <2>2, SameWay
  <2> QED
    BY <2>3, NodeIsChosen DEF h
<1> QED
  BY <1>1, <1>2

LEMMA RootPath ==
  NodeAt(<<>>) = Root
<1>0. <<>> \in Seq(Names) /\ Under(<<>>, <<>>)
  BY DEF Under
<1>1. PICK g : Walk(g, <<>>) /\ NodeAt(<<>>) = g[Len(<<>>)]
  BY <1>0, WayAlong
<1>2. Len(<<>>) = 0 /\ 0 \in 0 .. 0
  OBVIOUS
<1> QED
  BY <1>1, <1>2 DEF Walk

LEMMA FilePath ==
  ASSUME NEW p \in FilePaths
  PROVE  /\ p \in Seq(Names \ Dots) /\ p \in Seq(Names) /\ Len(p) \in 1 .. MaxDepth
         /\ NodeAt(p) \in DOMAIN Files /\ NodeAt(p) \notin DOMAIN Dirs
         /\ Kind(NodeAt(p)) = "file"
<1>1. PICK n \in 1 .. MaxDepth : p \in [1 .. n -> Names \ Dots]
  BY DEF FilePaths, Paths
<1>2. n \in Nat
  BY DepthAssumption
<1>3. p \in Seq(Names \ Dots) /\ Len(p) = n
  BY <1>1, <1>2
<1>4. p \in Seq(Names)
  BY <1>3
<1>5. Kind(NodeAt(p)) = "file"
  BY DEF FilePaths
<1> QED
  BY <1>1, <1>3, <1>4, <1>5 DEF Kind

\* What lies on the way to a file is a directory, which names the next node.
LEMMA OnTheWay ==
  ASSUME NEW p \in FilePaths, NEW q \in Seq(Names), Under(q, p), Len(q) < Len(p)
  PROVE  /\ NodeAt(q) \in DOMAIN Dirs /\ p[Len(q) + 1] \in DOMAIN Dirs[NodeAt(q)]
<1>0. /\ p \in Seq(Names) /\ Len(p) \in Nat /\ Len(q) \in Nat
      /\ NodeAt(p) \in DOMAIN Files /\ NodeAt(p) \notin DOMAIN Dirs
  BY FilePath
<1>1. PICK g : /\ Walk(g, p)
               /\ \A r \in Seq(Names) : Under(r, p) => NodeAt(r) = g[Len(r)]
  BY <1>0, WayAlong
<1>2. NodeAt(p) = g[Len(p)] /\ NodeAt(q) = g[Len(q)]
  <2>1. Under(p, p)
    BY <1>0 DEF Under
  <2> QED
    BY <1>0, <1>1, <2>1
<1>3. \A n \in 1 .. Len(p) : g[n] = Child(g[n - 1], p[n])
  BY <1>0, <1>1 DEF Walk
<1> DEFINE S == {m \in Nat : m < Len(p) => g[Len(p) - m] # "none"}
<1>4. 0 \in S
  <2>1. Len(p) - 0 = Len(p) /\ 0 \in Nat
    BY <1>0
  <2> QED
    BY <1>0, <1>2, <2>1, TreeAssumption
<1>5. ASSUME NEW m \in Nat, m \in S PROVE m + 1 \in S
  <2>1. CASE m + 1 < Len(p)
    <3>1. /\ m < Len(p) /\ Len(p) - m \in 1 .. Len(p)
          /\ (Len(p) - m) - 1 = Len(p) - (m + 1) /\ m + 1 \in Nat
      BY <1>0, <2>1
    <3>2. g[Len(p) - m] # "none"
      BY <1>5, <3>1
    <3>3. g[Len(p) - m] = Child(g[Len(p) - (m + 1)], p[Len(p) - m])
      BY <1>3, <3>1
    <3>4. g[Len(p) - (m + 1)] # "none"
      BY <3>2, <3>3, TreeAssumption DEF Child
    <3> QED
      BY <3>1, <3>4
  <2>2. CASE ~(m + 1 < Len(p))
    BY <2>2
  <2> QED
    BY <2>1, <2>2
<1> HIDE DEF S
<1>6. \A m \in Nat : m \in S
  BY <1>4, <1>5, AllNumbers
<1>7. /\ Len(q) + 1 \in 1 .. Len(p) /\ (Len(q) + 1) - 1 = Len(q)
      /\ Len(p) - (Len(q) + 1) \in Nat /\ Len(p) - (Len(q) + 1) < Len(p)
      /\ Len(p) - (Len(p) - (Len(q) + 1)) = Len(q) + 1
  BY <1>0
<1>8. g[Len(q) + 1] # "none"
  BY <1>6, <1>7 DEF S
<1>9. g[Len(q) + 1] = Child(g[Len(q)], p[Len(q) + 1])
  BY <1>3, <1>7
<1> QED
  BY <1>2, <1>8, <1>9 DEF Child

\* A finite set has finitely many sequences of each length.
LEMMA TuplesFinite ==
  ASSUME NEW S, IsFiniteSet(S)
  PROVE  \A n \in Nat : IsFiniteSet([1 .. n -> S])
<1> DEFINE T == {n \in Nat : IsFiniteSet([1 .. n -> S])}
<1>1. 0 \in T
  <2> DEFINE e == [i \in 1 .. 0 |-> {}]
  <2>1. \A f \in [1 .. 0 -> S] : f = e
    OBVIOUS
  <2>2. [1 .. 0 -> S] \subseteq {e}
    BY <2>1
  <2> HIDE DEF e
  <2>3. IsFiniteSet({e})
    BY FS_Singleton
  <2> QED
    BY <2>2, <2>3, FS_Subset
<1>2. ASSUME NEW n \in Nat, n \in T PROVE n + 1 \in T
  <2> DEFINE A == [1 .. n -> S] \X S
             B == [1 .. n + 1 -> S]
             f == [x \in A |-> [i \in 1 .. n + 1 |-> IF i = n + 1 THEN x[2] ELSE x[1][i]]]
  <2>1. IsFiniteSet(A)
    <3>1. IsFiniteSet([1 .. n -> S])
      BY <1>2
    <3> QED
      BY <3>1, FS_Product
  <2>2. f \in [A -> B]
    <3>1. ASSUME NEW x \in A PROVE [i \in 1 .. n + 1 |-> IF i = n + 1 THEN x[2] ELSE x[1][i]] \in B
      <4>1. \A i \in 1 .. n + 1 : i # n + 1 => i \in 1 .. n
        OBVIOUS
      <4>2. x[2] \in S /\ \A i \in 1 .. n : x[1][i] \in S
        OBVIOUS
      <4> QED
        BY <4>1, <4>2
    <3> QED
      BY <3>1
  <2>3. ASSUME NEW b \in B PROVE \E x \in A : f[x] = b
    <3> DEFINE x == <<[i \in 1 .. n |-> b[i]], b[n + 1]>>
    <3>1. \A i \in 1 .. n : i \in 1 .. n + 1
      OBVIOUS
    <3>2. n + 1 \in 1 .. n + 1
      OBVIOUS
    <3>3. x \in A
      BY <3>1, <3>2
    <3>4. \A i \in 1 .. n + 1 : i # n + 1 => i \in 1 .. n
      OBVIOUS
    <3>5. f[x] = [i \in 1 .. n + 1 |-> IF i = n + 1 THEN x[2] ELSE x[1][i]]
      BY <3>3
    <3>6. \A i \in 1 .. n + 1 : (IF i = n + 1 THEN x[2] ELSE x[1][i]) = b[i]
      BY <3>4
    <3>7. f[x] = b
      BY <3>5, <3>6
    <3> QED
      BY <3>3, <3>7
  <2> HIDE DEF f, A, B
  <2>4. f \in Surjection(A, B)
    BY <2>2, <2>3 DEF Surjection
  <2>5. IsFiniteSet(B)
    BY <2>1, <2>4, FS_Surjection
  <2> QED
    BY <2>5 DEF B
<1> HIDE DEF T
<1>3. \A n \in Nat : n \in T
  BY <1>1, <1>2, AllNumbers
<1> QED
  BY <1>3 DEF T

LEMMA FilesFinite ==
  IsFiniteSet(FilePaths)
<1>1. IsFiniteSet(Names \ Dots)
  <2>1. Names \ Dots \subseteq Names
    OBVIOUS
  <2> QED
    BY <2>1, TreeAssumption, FS_Subset
<1> DEFINE Tuples(n) == [1 .. n -> Names \ Dots]
           S == {n \in Nat : IsFiniteSet(UNION {Tuples(m) : m \in 1 .. n})}
<1>2. 0 \in S
  <2>1. UNION {Tuples(m) : m \in 1 .. 0} = {}
    OBVIOUS
  <2> QED
    BY <2>1, FS_EmptySet
<1>3. ASSUME NEW n \in Nat, n \in S PROVE n + 1 \in S
  <2> HIDE DEF Tuples
  <2>1. \A m : m \in 1 .. n + 1 <=> m \in 1 .. n \/ m = n + 1
    OBVIOUS
  <2>2. UNION {Tuples(m) : m \in 1 .. n + 1} = (UNION {Tuples(m) : m \in 1 .. n}) \cup Tuples(n + 1)
    BY <2>1
  <2>3. IsFiniteSet(Tuples(n + 1))
    <3>1. n + 1 \in Nat
      OBVIOUS
    <3>2. IsFiniteSet([1 .. n + 1 -> Names \ Dots])
      BY <1>1, <3>1, TuplesFinite
    <3> QED
      BY <3>2 DEF Tuples
  <2>4. IsFiniteSet(UNION {Tuples(m) : m \in 1 .. n})
    BY <1>3
  <2>5. IsFiniteSet(UNION {Tuples(m) : m \in 1 .. n + 1})
    BY <2>2, <2>3, <2>4, FS_Union
  <2> QED
    BY <2>5
<1> HIDE DEF S
<1>4. MaxDepth \in S
  BY <1>2, <1>3, AllNumbers, DepthAssumption
<1>5. IsFiniteSet(Paths)
  BY <1>4 DEF S, Paths
<1> QED
  BY <1>5, FS_Subset DEF FilePaths

LEMMA WordsFinite ==
  IsFiniteSet(Words)
<1> DEFINE A == DOMAIN Lower
           B == {Lower[t] : t \in DOMAIN Lower}
           f == [t \in A |-> Lower[t]]
<1>1. f \in Surjection(A, B)
  BY DEF Surjection
<1> HIDE DEF f
<1>2. IsFiniteSet(B)
  BY <1>1, TokensAssumption, FS_Surjection
<1> QED
  BY <1>2, FS_Subset DEF Words

-----------------------------------------------------------------------------
(***************************************************************************)
(* The index: what WordIndexProofs shows holds of the one that is filled   *)
(* here, with the files for documents and nobody reading.                  *)
(***************************************************************************)
IndexProofs == INSTANCE WordIndexProofs
  WITH Docs <- FilePaths, Readers <- {}, Queries <- {}, MaxRecords <- 0

LEMMA SameOperators ==
  /\ \A S : IndexProofs!IsFiniteSet(S) <=> IsFiniteSet(S)
  /\ \A S : IndexProofs!Cardinality(S) = Cardinality(S)
  /\ \A S : Index!Cardinality(S) = Cardinality(S)
<1>1. \A S : IndexProofs!IsFiniteSet(S) <=> IsFiniteSet(S)
  BY DEF IndexProofs!IsFiniteSet, IsFiniteSet
<1>2. \A S : IndexProofs!Cardinality(S) = Cardinality(S)
  BY DEF IndexProofs!Cardinality, Cardinality
<1>3. \A S : Index!Cardinality(S) = Cardinality(S)
  BY DEF Index!Cardinality, Cardinality
<1> QED
  BY <1>1, <1>2, <1>3

LEMMA SameInvariant ==
  Index!IndexInv <=> IndexProofs!IndexInv
<1>1. Index!TypeOK <=> IndexProofs!TypeOK
  BY Zenon DEF Index!TypeOK, IndexProofs!TypeOK, Index!IsMap, IndexProofs!IsMap
<1>2. Index!Agree <=> IndexProofs!Agree
  BY Zenon DEF Index!Agree, IndexProofs!Agree, Index!Recorded, IndexProofs!Recorded
<1>3. Index!CountInv <=> IndexProofs!CountInv
  BY SameOperators, Zenon
     DEF Index!CountInv, IndexProofs!CountInv, Index!Recorded, IndexProofs!Recorded
<1>4. Index!TodoInv <=> IndexProofs!TodoInv
  BY Zenon DEF Index!TodoInv, IndexProofs!TodoInv
<1> QED
  BY <1>1, <1>2, <1>3, <1>4 DEF Index!IndexInv, IndexProofs!IndexInv

LEMMA SameRecord ==
  ASSUME NEW w, NEW d, Index!record(w, d)
  PROVE  IndexProofs!record(w, d)
BY Zenon
   DEF IndexProofs!record, Index!record, IndexProofs!readerVars, Index!readerVars,
       IndexProofs!Quiet, Index!Quiet, IndexProofs!IsNew, Index!IsNew, IndexProofs!Touch,
       Index!Touch, IndexProofs!Get, Index!Get, IndexProofs!Put, Index!Put,
       IndexProofs!WordsWith, Index!WordsWith, IndexProofs!EmptyMap, Index!EmptyMap,
       IndexProofs!NoResult, Index!NoResult

LEMMA RecordKeeps ==
  ASSUME Index!IndexInv, NEW w \in Words, NEW d \in FilePaths, Index!record(w, d)
  PROVE  Index!IndexInv'
<1>1. IndexProofs!IndexInv /\ IndexProofs!record(w, d)
  BY SameInvariant, SameRecord
<1>2. IndexProofs!IsFiniteSet(Words) /\ IndexProofs!IsFiniteSet(FilePaths)
  BY SameOperators, WordsFinite, FilesFinite
<1>3. IndexProofs!IndexInv'
  BY <1>1, <1>2, IndexProofs!RecordPreserves
<1>4. (Index!IndexInv <=> IndexProofs!IndexInv)'
  BY SameInvariant, PTL
<1> QED
  BY <1>3, <1>4

LEMMA InitIndex ==
  Index!Init => Index!IndexInv
<1>1. IndexProofs!IsFiniteSet(Words) /\ IndexProofs!IsFiniteSet(FilePaths)
  BY SameOperators, WordsFinite, FilesFinite
<1>2. Index!Init => IndexProofs!Init
  BY Zenon DEF Index!Init, IndexProofs!Init, Index!EmptyMap, IndexProofs!EmptyMap
<1> QED
  BY <1>1, <1>2, SameInvariant, IndexProofs!InitIndexInv

\* A step that leaves the index alone keeps its invariant.
LEMMA IndexKept ==
  ASSUME Index!IndexInv, UNCHANGED indexVars
  PROVE  Index!IndexInv'
<1>1. /\ index_' = index_ /\ doc_to_words_' = doc_to_words_ /\ num_words_' = num_words_
      /\ pc' = pc /\ query' = query /\ todo' = todo /\ recorded' = recorded
      /\ missed' = missed
  BY DEF indexVars
<1>2. Index!TypeOK'
  BY <1>1, Zenon DEF Index!IndexInv, Index!TypeOK, Index!IsMap
<1>3. Index!Agree'
  BY <1>1, Zenon DEF Index!IndexInv, Index!Agree, Index!Recorded
<1>4. Index!TodoInv'
  BY <1>1, Zenon DEF Index!IndexInv, Index!TodoInv
<1>5. Index!CountInv'
  BY <1>1, Zenon DEF Index!IndexInv, Index!CountInv, Index!Recorded
<1> QED
  BY <1>2, <1>3, <1>4, <1>5 DEF Index!IndexInv

LEMMA RecordedType ==
  ASSUME Index!IndexInv
  PROVE  /\ recorded \in [Words \X FilePaths -> Nat]
         /\ \A w \in Words, p \in FilePaths : recorded[<<w, p>>] \in Nat
<1>1. recorded \in [Words \X FilePaths -> Nat]
  BY DEF Index!IndexInv, Index!TypeOK
<1> QED
  BY <1>1

\* One word of one file is counted.
LEMMA RecordCounts ==
  ASSUME Index!IndexInv, NEW w \in Words, NEW d \in FilePaths, Index!record(w, d)
  PROVE  \A x \in Words, p \in FilePaths :
           recorded'[<<x, p>>] = recorded[<<x, p>>] + (IF x = w /\ p = d THEN 1 ELSE 0)
<1>1. recorded' = [recorded EXCEPT ![<<w, d>>] = @ + 1]
  BY DEF Index!record
<1>2. ASSUME NEW x \in Words, NEW p \in FilePaths
      PROVE  recorded'[<<x, p>>] = recorded[<<x, p>>] + (IF x = w /\ p = d THEN 1 ELSE 0)
  <2>1. <<x, p>> \in DOMAIN recorded /\ recorded[<<x, p>>] \in Nat
    BY RecordedType
  <2>2. <<x, p>> = <<w, d>> <=> x = w /\ p = d
    OBVIOUS
  <2>3. CASE x = w /\ p = d
    BY <1>1, <2>1, <2>3
  <2>4. CASE ~(x = w /\ p = d)
    <3>1. recorded'[<<x, p>>] = recorded[<<x, p>>]
      BY <1>1, <2>1, <2>2, <2>4
    <3> QED
      BY <2>1, <2>4, <3>1
  <2> QED
    BY <2>3, <2>4
<1> QED
  BY <1>2

\* What is not recorded for a file is not in the index, and the other way round.
LEMMA RecordedIsIndexed ==
  ASSUME Index!IndexInv
  PROVE  /\ \A w \in Words, p \in FilePaths :
              /\ recorded[<<w, p>>] > 0 <=> w \in DOMAIN index_ /\ p \in DOMAIN index_[w]
              /\ recorded[<<w, p>>] > 0 =>
                   index_[w][p] = [doc_name |-> p, rank |-> recorded[<<w, p>>]]
         /\ \A p \in DOMAIN doc_to_words_ :
              p \in FilePaths /\ \E w \in Words : recorded[<<w, p>>] > 0
<1>1. Index!Agree /\ Index!TypeOK
  BY DEF Index!IndexInv
<1>2. \A w \in Words, p \in FilePaths :
        recorded[<<w, p>>] > 0 <=> w \in DOMAIN index_ /\ p \in DOMAIN index_[w]
  BY <1>1 DEF Index!Agree, Index!Recorded
<1>3. \A w \in Words, p \in FilePaths : recorded[<<w, p>>] > 0 =>
        index_[w][p] = [doc_name |-> p, rank |-> recorded[<<w, p>>]]
  BY <1>1 DEF Index!Agree, Index!Recorded
<1>4. \A p \in DOMAIN doc_to_words_ : p \in FilePaths
  BY <1>1 DEF Index!TypeOK
<1>5. ASSUME NEW p \in DOMAIN doc_to_words_ PROVE \E w \in Words : recorded[<<w, p>>] > 0
  <2>1. doc_to_words_[p] = {w \in Words : Index!Recorded(w, p)} /\ doc_to_words_[p] # {}
    BY <1>1, Zenon DEF Index!Agree
  <2>2. PICK w \in Words : Index!Recorded(w, p)
    BY <2>1
  <2> QED
    BY <2>2 DEF Index!Recorded
<1> QED
  BY <1>2, <1>3, <1>4, <1>5

-----------------------------------------------------------------------------
(***************************************************************************)
(* Paths and the stack.                                                    *)
(***************************************************************************)
LEMMA UnderAppend ==
  ASSUME NEW q \in Seq(Names), NEW name \in Names, NEW p \in Seq(Names)
  PROVE  /\ Append(q, name) \in Seq(Names) /\ Len(Append(q, name)) = Len(q) + 1
         /\ Under(Append(q, name), p) <=>
              Len(q) + 1 <= Len(p) /\ Under(q, p) /\ p[Len(q) + 1] = name
         /\ \A r : Len(r) \in Nat /\ Under(r, q) => Under(r, Append(q, name))
<1> DEFINE a == Append(q, name)
<1>1. /\ a \in Seq(Names) /\ Len(a) = Len(q) + 1 /\ a[Len(q) + 1] = name
      /\ \A i \in 1 .. Len(q) : a[i] = q[i]
      /\ Len(q) \in Nat /\ Len(p) \in Nat
  OBVIOUS
<1> HIDE DEF a
<1>2. Under(a, p) => Len(q) + 1 <= Len(p) /\ Under(q, p) /\ p[Len(q) + 1] = name
  BY <1>1 DEF Under
<1>3. Len(q) + 1 <= Len(p) /\ Under(q, p) /\ p[Len(q) + 1] = name => Under(a, p)
  BY <1>1 DEF Under
<1>4. \A r : Len(r) \in Nat /\ Under(r, q) => Under(r, a)
  BY <1>1 DEF Under
<1> QED
  BY <1>1, <1>2, <1>3, <1>4 DEF a

LEMMA UnderSame ==
  ASSUME NEW q \in Seq(Names), NEW p \in Seq(Names), Under(q, p)
  PROVE  q = p \/ Len(q) < Len(p)
<1>1. Len(q) \in Nat /\ Len(p) \in Nat /\ Len(q) <= Len(p) /\ \A i \in 1 .. Len(q) : q[i] = p[i]
  BY DEF Under
<1>2. CASE Len(q) = Len(p)
  BY <1>1, <1>2, SeqEqual
<1> QED
  BY <1>1, <1>2

\* No path on the way to a file was lost: Seen and Reached say the same.
LEMMA SeenIsReached ==
  ASSUME NEW p \in FilePaths, lost \subseteq Seq(Names)
  PROVE  p \in Seen <=> Reached(p)
<1>0. p \in Seq(Names) /\ Len(p) \in Nat
  BY FilePath
<1>1. ASSUME NEW n \in 0 .. Len(p)
      PROVE  Under(SubSeq(p, 1, n), p) /\ Len(SubSeq(p, 1, n)) = n
  BY <1>0 DEF Under
<1>2. ASSUME NEW q \in lost, Under(q, p) PROVE q = SubSeq(p, 1, Len(q)) /\ Len(q) \in 0 .. Len(p)
  <2>1. q \in Seq(Names) /\ Len(q) \in 0 .. Len(p)
    BY <1>0, <1>2 DEF Under
  <2>2. SubSeq(p, 1, Len(q)) \in Seq(Names) /\ Len(SubSeq(p, 1, Len(q))) = Len(q)
    BY <1>0, <2>1
  <2>3. \A i \in 1 .. Len(q) : SubSeq(p, 1, Len(q))[i] = q[i]
    BY <1>0, <1>2, <2>1 DEF Under
  <2> QED
    BY <2>1, <2>2, <2>3, SeqEqual
<1>3. p \in Seen <=> \A n \in 0 .. Len(p) : SubSeq(p, 1, n) \notin lost
  BY DEF Seen
<1> QED
  BY <1>1, <1>2, <1>3 DEF Reached

Frames == [path : Seq(Names), left : SUBSET Names]

LEMMA TopOfStack ==
  ASSUME stack \in Seq(Frames), stack # <<>>
  PROVE  /\ Len(stack) \in Nat \ {0} /\ Len(stack) \in 1 .. Len(stack)
         /\ Top = stack[Len(stack)] /\ Top \in Frames
         /\ Top.path \in Seq(Names) /\ Top.left \in SUBSET Names
<1>1. Len(stack) \in Nat \ {0} /\ Len(stack) \in 1 .. Len(stack)
  OBVIOUS
<1>2. Top = stack[Len(stack)]
  BY DEF Top
<1>3. Top \in Frames
  BY <1>1, <1>2
<1> QED
  BY <1>1, <1>2, <1>3 DEF Frames

LEMMA BelowEffect ==
  ASSUME stack \in Seq(Frames), stack # <<>>
  PROVE  /\ Below \in Seq(Frames) /\ Len(Below) = Len(stack) - 1
         /\ \A i \in 1 .. Len(stack) - 1 : Below[i] = stack[i]
<1>1. Len(stack) \in Nat \ {0} /\ Len(stack) - 1 \in Int /\ 1 \in Int
  OBVIOUS
<1>2. \A i \in 1 .. Len(stack) - 1 : stack[i] \in Frames
  OBVIOUS
<1> DEFINE b == SubSeq(stack, 1, Len(stack) - 1)
           n == Len(stack) - 1
<1>3. /\ b \in Seq(Frames) /\ Len(b) = (IF 1 <= n THEN n - 1 + 1 ELSE 0)
      /\ \A i \in 1 .. n - 1 + 1 : b[i] = stack[1 + i - 1]
  BY <1>1, <1>2, SubSeqProperties
<1>a. n \in Nat
  BY <1>1
<1> HIDE DEF b, n
<1>4. Len(b) = n /\ n - 1 + 1 = n /\ \A i \in 1 .. n : 1 + i - 1 = i
  BY <1>3, <1>a
<1>5. \A i \in 1 .. n : b[i] = stack[i]
  BY <1>3, <1>4
<1> QED
  BY <1>3, <1>4, <1>5 DEF Below, b, n

\* The name readdir delivers leaves the top of the stack.
LEMMA TakenEffect ==
  ASSUME stack \in Seq(Frames), stack # <<>>, NEW name
  PROVE  /\ Taken(name) \in Seq(Frames) /\ Len(Taken(name)) = Len(stack)
         /\ \A i \in 1 .. Len(stack) - 1 : Taken(name)[i] = stack[i]
         /\ Taken(name)[Len(stack)].path = Top.path
         /\ Taken(name)[Len(stack)].left = Top.left \ {name}
<1>1. Len(stack) \in Nat \ {0} /\ Len(stack) - 1 \in Nat
  OBVIOUS
<1>2. Top \in Frames
  BY TopOfStack
<1>3. [path |-> Top.path, left |-> Top.left \ {name}] \in Frames
  BY <1>2 DEF Frames
<1>4. /\ Below \in Seq(Frames) /\ Len(Below) = Len(stack) - 1
      /\ \A i \in 1 .. Len(stack) - 1 : Below[i] = stack[i]
  BY BelowEffect
<1> DEFINE f == [path |-> Top.path, left |-> Top.left \ {name}]
<1>5. Taken(name) = Append(Below, f)
  BY DEF Taken
<1> HIDE DEF f
<1>6. /\ Append(Below, f) \in Seq(Frames) /\ Len(Append(Below, f)) = Len(stack)
      /\ \A i \in 1 .. Len(stack) - 1 : Append(Below, f)[i] = Below[i]
      /\ Append(Below, f)[Len(stack)] = f
  BY <1>1, <1>3, <1>4 DEF f
<1> QED
  BY <1>4, <1>5, <1>6 DEF f

\* The path of an entry of the directory on top of the stack.
LEMMA PathOfEntry ==
  ASSUME stack \in Seq(Frames), stack # <<>>, Nested(stack), NEW name \in Top.left
  PROVE  /\ name \in Names /\ Top.path \in Seq(Names) /\ Top.path \in Seq(Names \ Dots)
         /\ Len(Top.path) = Len(stack) - 1
         /\ PathOf(name) \in Seq(Names) /\ Len(PathOf(name)) = Len(stack)
         /\ \A p \in Seq(Names) : Under(PathOf(name), p) <=>
              Len(stack) <= Len(p) /\ Under(Top.path, p) /\ p[Len(stack)] = name
         /\ name \notin Dots => PathOf(name) \in Seq(Names \ Dots)
<1>1. /\ Len(stack) \in Nat \ {0} /\ Len(stack) \in 1 .. Len(stack)
      /\ Top = stack[Len(stack)]
  BY TopOfStack
<1>2. name \in Names /\ Top.path \in Seq(Names)
  BY TopOfStack
<1>3. Top.path \in Seq(Names \ Dots) /\ Len(Top.path) = Len(stack) - 1
  BY <1>1 DEF Nested
<1>4. Len(Top.path) + 1 = Len(stack)
  BY <1>1, <1>3
<1>5. /\ PathOf(name) \in Seq(Names) /\ Len(PathOf(name)) = Len(stack)
      /\ \A p \in Seq(Names) : Under(PathOf(name), p) <=>
           Len(stack) <= Len(p) /\ Under(Top.path, p) /\ p[Len(stack)] = name
  BY <1>2, <1>4, UnderAppend DEF PathOf
<1>6. ASSUME name \notin Dots PROVE PathOf(name) \in Seq(Names \ Dots)
  BY <1>2, <1>3, <1>6 DEF PathOf
<1> QED
  BY <1>2, <1>3, <1>5, <1>6

\* Once its first name is taken, a path is not due any more; all others remain.
LEMMA TakenDue ==
  ASSUME stack \in Seq(Frames), stack # <<>>, Nested(stack), NEW name \in Top.left,
         NEW p \in FilePaths
  PROVE  /\ Under(PathOf(name), p) => Due(p)
         /\ DueIn(Taken(name), p) <=> Due(p) /\ ~Under(PathOf(name), p)
<1> DEFINE k == Len(stack)
           q == PathOf(name)
           st == Taken(name)
<1>0. p \in Seq(Names) /\ Len(p) \in Nat
  BY FilePath
<1>1. /\ k \in Nat \ {0} /\ k \in 1 .. k /\ Top = stack[k]
      /\ Len(st) = k /\ \A i \in 1 .. k - 1 : st[i] = stack[i]
      /\ st[k].path = Top.path /\ st[k].left = Top.left \ {name}
  BY TopOfStack, TakenEffect
<1>2. /\ Len(Top.path) = k - 1
      /\ Under(q, p) <=> k <= Len(p) /\ Under(Top.path, p) /\ p[k] = name
  BY <1>0, PathOfEntry
<1> HIDE DEF k, q, st
<1>3. Under(q, p) => Due(p)
  BY <1>1, <1>2 DEF Due, DueIn, k
<1>4. ASSUME DueIn(st, p) PROVE Due(p) /\ ~Under(q, p)
  <2>1. PICK i \in 1 .. k : i <= Len(p) /\ Under(st[i].path, p) /\ p[i] \in st[i].left
    BY <1>1, <1>4 DEF DueIn
  <2>2. CASE i = k
    <3>1. Under(stack[k].path, p) /\ p[k] \in stack[k].left /\ p[k] # name
      BY <1>1, <2>1, <2>2
    <3>2. Due(p)
      BY <2>1, <2>2, <3>1 DEF Due, DueIn, k
    <3> QED
      BY <1>2, <3>1, <3>2
  <2>3. CASE i # k
    <3>1. i \in 1 .. k - 1
      BY <1>1, <2>3
    <3>2. i <= Len(p) /\ Under(stack[i].path, p) /\ p[i] \in stack[i].left
      BY <1>1, <2>1, <3>1
    <3>3. Due(p)
      BY <2>1, <3>2 DEF Due, DueIn, k
    <3>4. Top.path[i] \notin stack[i].left
      BY <1>1, <3>1 DEF Nested, k
    <3>5. Under(Top.path, p) => Top.path[i] = p[i]
      BY <1>2, <3>1 DEF Under
    <3> QED
      BY <1>2, <3>2, <3>3, <3>4, <3>5
  <2> QED
    BY <2>2, <2>3
<1>5. ASSUME Due(p), ~Under(q, p) PROVE DueIn(st, p)
  <2>1. PICK i \in 1 .. k : i <= Len(p) /\ Under(stack[i].path, p) /\ p[i] \in stack[i].left
    BY <1>5 DEF Due, DueIn, k
  <2>2. CASE i = k
    <3>1. p[k] # name
      BY <1>1, <1>2, <1>5, <2>1, <2>2
    <3>2. Under(st[k].path, p) /\ p[k] \in st[k].left
      BY <1>1, <2>1, <2>2, <3>1
    <3> QED
      BY <1>1, <2>1, <2>2, <3>2 DEF DueIn
  <2>3. CASE i # k
    <3>1. i \in 1 .. k - 1
      BY <1>1, <2>3
    <3>2. i <= Len(p) /\ Under(st[i].path, p) /\ p[i] \in st[i].left
      BY <1>1, <2>1, <3>1
    <3> QED
      BY <1>1, <2>1, <3>2 DEF DueIn
  <2> QED
    BY <2>2, <2>3
<1> QED
  BY <1>3, <1>4, <1>5 DEF q, st

LEMMA TakenNested ==
  ASSUME stack \in Seq(Frames), stack # <<>>, Nested(stack), NEW name
  PROVE  Nested(Taken(name))
<1> DEFINE k == Len(stack)
           st == Taken(name)
<1>1. /\ k \in Nat \ {0} /\ Top = stack[k]
      /\ Len(st) = k /\ \A i \in 1 .. k - 1 : st[i] = stack[i]
      /\ st[k].path = Top.path /\ st[k].left = Top.left \ {name}
  BY TopOfStack, TakenEffect
<1> HIDE DEF st
<1>2. ASSUME NEW i \in 1 .. k PROVE st[i].path = stack[i].path /\ st[i].left \subseteq stack[i].left
  <2>1. CASE i = k
    BY <1>1, <2>1
  <2>2. CASE i # k
    <3>1. i \in 1 .. k - 1
      BY <1>1, <2>2
    <3> QED
      BY <1>1, <3>1
  <2> QED
    BY <2>1, <2>2
<1>3. ASSUME NEW j \in 1 .. k
      PROVE  st[j].path \in Seq(Names \ Dots) /\ Len(st[j].path) = j - 1
  BY <1>2 DEF Nested
<1>4. ASSUME NEW j \in 1 .. k, NEW i \in 1 .. j - 1
      PROVE  Under(st[i].path, st[j].path) /\ st[j].path[i] \notin st[i].left
  <2>1. i \in 1 .. k
    BY <1>1
  <2>2. Under(stack[i].path, stack[j].path) /\ stack[j].path[i] \notin stack[i].left
    BY DEF Nested
  <2> QED
    BY <1>2, <2>1, <2>2
<1> HIDE DEF k
<1> QED
  BY <1>1, <1>3, <1>4 DEF Nested, st

\* What the directory just opened adds: the paths through the names it holds.
LEMMA PushEffect ==
  ASSUME stack \in Seq(Frames), stack # <<>>, Nested(stack), NEW name \in Top.left,
         NEW st, NEW L \in SUBSET Names,
         st = Append(Taken(name), [path |-> PathOf(name), left |-> L])
  PROVE  /\ st \in Seq(Frames) /\ Len(st) = Len(stack) + 1
         /\ \A i \in 1 .. Len(stack) : st[i] = Taken(name)[i]
         /\ st[Len(stack) + 1].path = PathOf(name) /\ st[Len(stack) + 1].left = L
<1> DEFINE f == [path |-> PathOf(name), left |-> L]
<1>1. f \in Frames
  BY PathOfEntry DEF Frames
<1>2. f.path = PathOf(name) /\ f.left = L
  OBVIOUS
<1>3. Taken(name) \in Seq(Frames) /\ Len(Taken(name)) = Len(stack)
  BY TakenEffect
<1> HIDE DEF f
<1>4. st = Append(Taken(name), f)
  BY DEF f
<1>5. /\ st \in Seq(Frames) /\ Len(st) = Len(stack) + 1
      /\ \A i \in 1 .. Len(stack) : st[i] = Taken(name)[i]
      /\ st[Len(stack) + 1] = f
  BY <1>1, <1>3, <1>4, AppendProperties
<1> QED
  BY <1>2, <1>5

LEMMA PushDue ==
  ASSUME stack \in Seq(Frames), stack # <<>>, Nested(stack), NEW name \in Top.left,
         NEW st, NEW L \in SUBSET Names,
         st = Append(Taken(name), [path |-> PathOf(name), left |-> L]),
         NEW p \in FilePaths
  PROVE  DueIn(st, p) <=>
           \/ DueIn(Taken(name), p)
           \/ /\ Len(stack) + 1 <= Len(p) /\ Under(PathOf(name), p)
              /\ p[Len(stack) + 1] \in L
<1> DEFINE k == Len(stack)
           old == Taken(name)
           q == PathOf(name)
<1>1. /\ k \in Nat /\ Len(old) = k /\ Len(st) = k + 1 /\ \A i \in 1 .. k : st[i] = old[i]
      /\ st[k + 1].path = q /\ st[k + 1].left = L
  BY TakenEffect, PushEffect
<1> HIDE DEF k, old, q
<1>2. ASSUME DueIn(st, p)
      PROVE  DueIn(old, p) \/ (k + 1 <= Len(p) /\ Under(q, p) /\ p[k + 1] \in L)
  <2>1. PICK i \in 1 .. k + 1 : i <= Len(p) /\ Under(st[i].path, p) /\ p[i] \in st[i].left
    BY <1>1, <1>2 DEF DueIn
  <2>2. CASE i = k + 1
    BY <1>1, <2>1, <2>2
  <2>3. CASE i # k + 1
    <3>1. i \in 1 .. k
      BY <1>1, <2>3
    <3> QED
      BY <1>1, <2>1, <3>1 DEF DueIn
  <2> QED
    BY <2>2, <2>3
<1>3. ASSUME DueIn(old, p) PROVE DueIn(st, p)
  <2>1. PICK i \in 1 .. k : i <= Len(p) /\ Under(old[i].path, p) /\ p[i] \in old[i].left
    BY <1>1, <1>3 DEF DueIn
  <2>2. i \in 1 .. k + 1
    BY <1>1
  <2> QED
    BY <1>1, <2>1, <2>2 DEF DueIn
<1>4. ASSUME k + 1 <= Len(p), Under(q, p), p[k + 1] \in L PROVE DueIn(st, p)
  <2>1. k + 1 \in 1 .. k + 1
    BY <1>1
  <2> QED
    BY <1>1, <1>4, <2>1 DEF DueIn
<1> QED
  BY <1>2, <1>3, <1>4 DEF k, old, q

LEMMA PushNested ==
  ASSUME stack \in Seq(Frames), stack # <<>>, Nested(stack), NEW name \in Top.left,
         name \notin Dots, NEW st, NEW L \in SUBSET Names,
         st = Append(Taken(name), [path |-> PathOf(name), left |-> L])
  PROVE  Nested(st)
<1> DEFINE k == Len(stack)
           old == Taken(name)
           q == PathOf(name)
<1>1. /\ k \in Nat \ {0} /\ Len(old) = k /\ Len(st) = k + 1 /\ \A i \in 1 .. k : st[i] = old[i]
      /\ st[k + 1].path = q /\ old[k].path = Top.path /\ old[k].left = Top.left \ {name}
  BY TopOfStack, TakenEffect, PushEffect
<1>2. /\ q \in Seq(Names \ Dots) /\ Len(q) = k
      /\ Top.path \in Seq(Names) /\ Len(Top.path) = k - 1 /\ name \in Names
  BY PathOfEntry
<1>3. Nested(old)
  BY TakenNested
<1>4. q = Append(Top.path, name)
  BY DEF PathOf
<1>5. \A i \in 1 .. k - 1 : q[i] = Top.path[i]
  BY <1>2, <1>4
<1>6. q[k] = name
  BY <1>1, <1>2, <1>4
<1> HIDE DEF k, old, q
<1>7. Under(Top.path, q)
  BY <1>1, <1>2, <1>5 DEF Under
<1>8. ASSUME NEW i \in 1 .. k PROVE Under(old[i].path, q) /\ q[i] \notin old[i].left
  <2>1. CASE i = k
    BY <1>1, <1>6, <1>7, <2>1
  <2>2. CASE i # k
    <3>1. i \in 1 .. k - 1 /\ k \in 1 .. k
      BY <1>1, <2>2
    <3>2. Under(old[i].path, Top.path) /\ Top.path[i] \notin old[i].left
      BY <1>1, <1>3, <3>1 DEF Nested
    <3>3. Len(old[i].path) = i - 1
      BY <1>1, <1>3 DEF Nested
    <3>4. Len(old[i].path) <= Len(q) /\ \A j \in 1 .. Len(old[i].path) : j \in 1 .. k - 1
      BY <1>1, <1>2, <3>1, <3>3
    <3>5. Under(old[i].path, q)
      BY <1>5, <3>2, <3>4 DEF Under
    <3> QED
      BY <1>5, <3>1, <3>2, <3>5
  <2> QED
    BY <2>1, <2>2
<1>9. ASSUME NEW j \in 1 .. k + 1
      PROVE  /\ st[j].path \in Seq(Names \ Dots) /\ Len(st[j].path) = j - 1
             /\ \A i \in 1 .. j - 1 :
                  Under(st[i].path, st[j].path) /\ st[j].path[i] \notin st[i].left
  <2>1. CASE j = k + 1
    <3>1. j - 1 = k
      BY <1>1, <2>1
    <3> QED
      BY <1>1, <1>2, <1>8, <2>1, <3>1
  <2>2. CASE j # k + 1
    <3>1. j \in 1 .. k /\ \A i \in 1 .. j - 1 : i \in 1 .. k
      BY <1>1, <2>2
    <3>2. /\ old[j].path \in Seq(Names \ Dots) /\ Len(old[j].path) = j - 1
          /\ \A i \in 1 .. j - 1 :
               Under(old[i].path, old[j].path) /\ old[j].path[i] \notin old[i].left
      BY <1>1, <1>3, <3>1 DEF Nested
    <3> QED
      BY <1>1, <3>1, <3>2
  <2> QED
    BY <2>1, <2>2
<1> QED
  BY <1>1, <1>9 DEF Nested

\* Once a directory is closed, what it did not deliver is not due any more.
LEMMA PopDue ==
  ASSUME stack \in Seq(Frames), stack # <<>>, Nested(stack)
  PROVE  /\ Nested(Below)
         /\ \A p \in FilePaths :
              /\ \A name \in Top.left : Under(PathOf(name), p) => Due(p)
              /\ DueIn(Below, p) <=> Due(p) /\ \A name \in Top.left : ~Under(PathOf(name), p)
<1> DEFINE k == Len(stack)
<1>1. /\ k \in Nat \ {0} /\ k \in 1 .. k /\ Top = stack[k] /\ Len(Below) = k - 1
      /\ \A i \in 1 .. k - 1 : Below[i] = stack[i] /\ i \in 1 .. k
  BY TopOfStack, BelowEffect
<1>2. \A p \in FilePaths : \A name \in Top.left : Under(PathOf(name), p) => Due(p)
  BY TakenDue
<1>3. ASSUME NEW p \in FilePaths, NEW name \in Top.left
      PROVE  Under(PathOf(name), p) <=> k <= Len(p) /\ Under(Top.path, p) /\ p[k] = name
  BY FilePath, PathOfEntry
<1>4. /\ Top.path \in Seq(Names) /\ Len(Top.path) = k - 1
      /\ \A i \in 1 .. k - 1 : Top.path[i] \notin stack[i].left
  <2>1. Top.path \in Seq(Names)
    BY TopOfStack
  <2>2. Len(stack[k].path) = k - 1 /\ \A i \in 1 .. k - 1 : stack[k].path[i] \notin stack[i].left
    BY <1>1 DEF Nested
  <2> QED
    BY <1>1, <2>1, <2>2
<1> HIDE DEF k
<1>5. ASSUME NEW p \in FilePaths, DueIn(Below, p)
      PROVE  Due(p) /\ \A name \in Top.left : ~Under(PathOf(name), p)
  <2>1. PICK i \in 1 .. k - 1 : i <= Len(p) /\ Under(Below[i].path, p) /\ p[i] \in Below[i].left
    BY <1>1, <1>5 DEF DueIn
  <2>2. i \in 1 .. k /\ Under(stack[i].path, p) /\ p[i] \in stack[i].left
    BY <1>1, <2>1
  <2>3. Due(p)
    BY <2>1, <2>2 DEF Due, DueIn, k
  <2>4. Under(Top.path, p) => Top.path[i] = p[i]
    BY <1>1, <1>4, <2>1 DEF Under
  <2> QED
    BY <1>3, <1>4, <2>1, <2>2, <2>3, <2>4
<1>6. ASSUME NEW p \in FilePaths, Due(p), \A name \in Top.left : ~Under(PathOf(name), p)
      PROVE  DueIn(Below, p)
  <2>1. PICK i \in 1 .. k : i <= Len(p) /\ Under(stack[i].path, p) /\ p[i] \in stack[i].left
    BY <1>6 DEF Due, DueIn, k
  <2>2. i # k
    BY <1>1, <1>3, <1>6, <2>1
  <2>3. i \in 1 .. k - 1
    BY <1>1, <2>1, <2>2
  <2> QED
    BY <1>1, <2>1, <2>3 DEF DueIn
<1>7. Nested(Below)
  <2>1. ASSUME NEW j \in 1 .. k - 1
        PROVE  /\ Below[j].path \in Seq(Names \ Dots) /\ Len(Below[j].path) = j - 1
               /\ \A i \in 1 .. j - 1 :
                    Under(Below[i].path, Below[j].path) /\ Below[j].path[i] \notin Below[i].left
    <3>1. j \in 1 .. k /\ \A i \in 1 .. j - 1 : i \in 1 .. k - 1
      BY <1>1
    <3>2. /\ stack[j].path \in Seq(Names \ Dots) /\ Len(stack[j].path) = j - 1
          /\ \A i \in 1 .. j - 1 :
               Under(stack[i].path, stack[j].path) /\ stack[j].path[i] \notin stack[i].left
      BY <3>1 DEF Nested, k
    <3> QED
      BY <1>1, <3>1, <3>2
  <2> QED
    BY <1>1, <2>1 DEF Nested
<1> QED
  BY <1>2, <1>5, <1>6, <1>7

-----------------------------------------------------------------------------
(***************************************************************************)
(* The steps.                                                              *)
(***************************************************************************)
LEMMA StackType ==
  ASSUME TypeOK
  PROVE  /\ stack \in Seq(Frames) /\ Nested(stack) /\ Len(stack) <= MaxDepth + 1
         /\ lost \subseteq Seq(Names) /\ failures \in Nat /\ Index!IndexInv
BY DEF TypeOK, Frames

LEMMA ContentAfter ==
  \A p : Content(p)' = IF p \in DOMAIN cut' THEN cut'[p] ELSE Files[NodeAt(p)]
BY DEF Content, NodeAt

LEMMA SameCount ==
  ASSUME UNCHANGED cut
  PROVE  \A w, p : Count(w, p)' = Count(w, p)
BY DEF Count, Content, Occurs, NodeAt

\* A call that fails loses paths; every other step loses none.
LEMMA FailsEffect ==
  ASSUME failures \in Nat, NEW paths, Fails(paths)
  PROVE  lost' = lost \cup paths /\ cut' = cut /\ failures' \in Nat
BY DEF Fails, OneFails

LEMMA WorksEffect ==
  ASSUME Works
  PROVE  lost' = lost /\ cut' = cut /\ failures' = failures
BY DEF Works, failVars

\* When the files of G are passed over, the rest stays as it is.
LEMMA PassedOver ==
  ASSUME IInv, file = NoFile, UNCHANGED <<file, recorded, cut>>, phase = "crawling",
         NEW G, G \in SUBSET FilePaths, \A p \in G : Due(p),
         \A p \in FilePaths : Due(p)' <=> Due(p) /\ p \notin G,
         \A p \in FilePaths : Reached(p)' <=> Reached(p) /\ p \notin G
  PROVE  DueInv' /\ FileInv' /\ DoneInv'
<1>1. DueInv'
  <2>1. ASSUME NEW p \in FilePaths, Due(p)'
        PROVE  /\ Reached(p)' /\ p \notin DOMAIN cut'
               /\ \A w \in Words : recorded'[<<w, p>>] = 0
    <3>1. Due(p) /\ p \notin G
      BY <2>1
    <3>2. Reached(p) /\ p \notin DOMAIN cut /\ \A w \in Words : recorded[<<w, p>>] = 0
      BY <3>1 DEF IInv, DueInv
    <3> QED
      BY <3>1, <3>2
  <2> QED
    BY <2>1 DEF DueInv
<1>2. FileInv'
  BY DEF FileInv
<1>3. DoneInv'
  <2>1. ASSUME NEW p \in FilePaths, ~Due(p)', NEW w \in Words
        PROVE  recorded'[<<w, p>>] = IF Reached(p)' THEN Count(w, p) ELSE 0
    <3>1. CASE p \in G
      <4>1. recorded[<<w, p>>] = 0
        BY <3>1 DEF IInv, DueInv
      <4> QED
        BY <3>1, <4>1
    <3>2. CASE p \notin G
      <4>1. ~Due(p)
        BY <2>1, <3>2
      <4>2. recorded[<<w, p>>] = IF Reached(p) THEN Count(w, p) ELSE 0
        BY <4>1 DEF IInv, DoneInv
      <4> QED
        BY <3>2, <4>2
    <3> QED
      BY <3>1, <3>2
  <2>2. \A p \in FilePaths : ~Due(p)' => \A w \in Words :
          recorded'[<<w, p>>] = IF Reached(p)' THEN Count(w, p)' ELSE 0
    BY <2>1, SameCount
  <2> QED
    BY <2>2 DEF DoneInv
<1> QED
  BY <1>1, <1>2, <1>3

\* What holds whenever an entry is read.
LEMMA ReadingFacts ==
  ASSUME IInv, NEW name, Reading(name)
  PROVE  /\ stack \in Seq(Frames) /\ stack # <<>> /\ Nested(stack) /\ name \in Top.left
         /\ file = NoFile /\ phase = "crawling" /\ phase' = phase
         /\ \A p \in FilePaths : Due(p) =>
              Reached(p) /\ \A w \in Words : recorded[<<w, p>>] = 0
         /\ \A p \in FilePaths : ~Due(p) => \A w \in Words :
              recorded[<<w, p>>] = IF Reached(p) THEN Count(w, p) ELSE 0
<1>1. stack \in Seq(Frames) /\ Nested(stack)
  BY StackType DEF IInv
<1>2. /\ stack # <<>> /\ name \in Top.left
      /\ file = NoFile /\ phase = "crawling" /\ phase' = phase
  BY DEF Reading
<1>3. \A p \in FilePaths : Due(p) =>
        Reached(p) /\ \A w \in Words : recorded[<<w, p>>] = 0
  BY DEF IInv, DueInv
<1>4. \A p \in FilePaths : ~Due(p) => \A w \in Words :
        recorded[<<w, p>>] = IF Reached(p) THEN Count(w, p) ELSE 0
  BY <1>2 DEF IInv, DoneInv
<1> QED
  BY <1>1, <1>2, <1>3, <1>4

\* An entry that is passed over leads to no file, or a call failed on it.
LEMMA SkipReached ==
  ASSUME IInv, NEW name \in Names, Skip(name), NEW p \in FilePaths
  PROVE  Reached(p)' <=> Reached(p) /\ ~Under(PathOf(name), p)
<1> DEFINE q == PathOf(name)
<1>0. /\ stack \in Seq(Frames) /\ stack # <<>> /\ Nested(stack) /\ name \in Top.left
  BY ReadingFacts DEF Skip
<1>1. /\ p \in Seq(Names \ Dots) /\ p \in Seq(Names) /\ Len(p) \in 1 .. MaxDepth
      /\ Kind(NodeAt(p)) = "file"
  BY FilePath
<1>2. /\ q \in Seq(Names) /\ Len(q) = Len(stack) /\ Len(stack) \in Nat \ {0}
      /\ Under(q, p) => Len(q) <= Len(p) /\ p[Len(q)] = name
  BY <1>0, <1>1, PathOfEntry, TopOfStack
<1>3. Len(p) \in Nat /\ Len(p) <= MaxDepth /\ MaxDepth \in Nat
  BY <1>1, DepthAssumption
<1> HIDE DEF q
<1>4. CASE Ignored(name) /\ Works
  <2>1. Under(q, p) => p[Len(q)] \in Names \ Dots
    BY <1>1, <1>2, <1>3
  <2>2. ~Under(q, p)
    BY <1>2, <1>4, <2>1 DEF Ignored
  <2> QED
    BY <1>4, <2>2, WorksEffect DEF Reached, q
<1>5. CASE Len(q) > MaxDepth /\ Works
  <2>1. ~Under(q, p)
    BY <1>2, <1>3, <1>5
  <2> QED
    BY <1>5, <2>1, WorksEffect DEF Reached, q
<1>6. CASE Kind(NodeAt(q)) = "other" /\ Works
  <2>1. ~Under(q, p)
    <3>1. ASSUME Under(q, p) PROVE FALSE
      <4>1. CASE q = p
        BY <1>1, <1>6, <4>1
      <4>2. CASE Len(q) < Len(p)
        BY <1>2, <1>6, <3>1, <4>2, OnTheWay DEF Kind
      <4> QED
        BY <1>1, <1>2, <3>1, <4>1, <4>2, UnderSame
    <3> QED
      BY <3>1
  <2> QED
    BY <1>6, <2>1, WorksEffect DEF Reached, q
<1>7. CASE Fails({q})
  BY <1>7, FailsEffect, StackType DEF IInv, Reached, q
<1> QED
  BY <1>4, <1>5, <1>6, <1>7 DEF Skip, q

LEMMA SkipPreserves ==
  ASSUME IInv, NEW name \in Names, Skip(name)
  PROVE  IInv'
<1>1. /\ stack \in Seq(Frames) /\ stack # <<>> /\ Nested(stack) /\ name \in Top.left
      /\ file = NoFile /\ phase = "crawling" /\ phase' = phase
  BY ReadingFacts DEF Skip
<1>2. /\ stack' = Taken(name) /\ file' = file /\ open_dirs' = open_dirs /\ UNCHANGED indexVars
  BY DEF Skip
<1>3. /\ Taken(name) \in Seq(Frames) /\ Len(Taken(name)) = Len(stack) /\ Nested(Taken(name))
      /\ PathOf(name) \in Seq(Names)
  BY <1>1, TakenEffect, TakenNested, PathOfEntry
<1>4. recorded' = recorded /\ index_' = index_
  BY <1>2 DEF indexVars
<1>5. lost' \subseteq Seq(Names) /\ cut' = cut /\ failures' \in Nat
  <2>1. Works \/ Fails({PathOf(name)})
    BY DEF Skip
  <2> QED
    BY <1>3, <2>1, FailsEffect, WorksEffect, StackType DEF IInv
<1>6. TypeOK'
  <2>1. Index!IndexInv'
    BY <1>2, IndexKept, StackType DEF IInv
  <2> QED
    BY <1>1, <1>2, <1>3, <1>5, <2>1 DEF IInv, TypeOK, Frames
<1>7. DirsClosed'
  BY <1>1, <1>2, <1>3 DEF IInv, DirsClosed
<1>8. PhaseInv'
  BY <1>1, <1>2, <1>4 DEF PhaseInv
<1>9. DueInv' /\ FileInv' /\ DoneInv'
  <2> DEFINE G == {p \in FilePaths : Under(PathOf(name), p)}
  <2>1. \A p \in FilePaths : p \in G <=> Under(PathOf(name), p)
    OBVIOUS
  <2>2. G \in SUBSET FilePaths
    OBVIOUS
  <2> HIDE DEF G
  <2>3. \A p \in G : Due(p)
    BY <1>1, <2>1, <2>2, TakenDue
  <2>4. \A p \in FilePaths : Due(p)' <=> Due(p) /\ p \notin G
    BY <1>1, <1>2, <2>1, TakenDue DEF Due
  <2>5. \A p \in FilePaths : Reached(p)' <=> Reached(p) /\ p \notin G
    BY <2>1, SkipReached
  <2> QED
    BY <1>1, <1>2, <1>4, <1>5, <2>2, <2>3, <2>4, <2>5, PassedOver
<1> QED
  BY <1>6, <1>7, <1>8, <1>9 DEF IInv

\* Opening a directory makes nothing due that was not, and loses nothing: the
\* files below it are due through the names it holds.
LEMMA OpenDirDue ==
  ASSUME IInv, NEW name \in Names, OpenDir(name), NEW p \in FilePaths
  PROVE  Due(p)' <=> Due(p)
<1> DEFINE q == PathOf(name)
           L == DOMAIN Dirs[NodeAt(q)]
<1>1. /\ stack \in Seq(Frames) /\ stack # <<>> /\ Nested(stack) /\ name \in Top.left
  BY ReadingFacts DEF OpenDir
<1>2. /\ Kind(NodeAt(q)) = "dir" /\ NodeAt(q) \in DOMAIN Dirs
      /\ stack' = Append(Taken(name), [path |-> q, left |-> L])
  BY DEF OpenDir, Kind, Frame
<1>3. L \in SUBSET Names
  BY <1>2 DEF Names
<1>4. /\ q \in Seq(Names) /\ Len(q) = Len(stack) /\ Len(stack) \in Nat
      /\ p \in Seq(Names) /\ Len(p) \in Nat /\ Kind(NodeAt(p)) = "file"
  BY <1>1, PathOfEntry, TopOfStack, FilePath
<1> HIDE DEF q, L
<1>5. DueIn(stack', p) <=>
        \/ DueIn(Taken(name), p)
        \/ Len(stack) + 1 <= Len(p) /\ Under(q, p) /\ p[Len(stack) + 1] \in L
  BY <1>1, <1>2, <1>3, PushDue DEF q
<1>6. Under(q, p) => Len(stack) + 1 <= Len(p) /\ p[Len(stack) + 1] \in L
  <2>1. ASSUME Under(q, p) PROVE Len(q) < Len(p)
    <3>1. q # p
      BY <1>2, <1>4
    <3> QED
      BY <1>4, <2>1, <3>1, UnderSame
  <2>2. ASSUME Under(q, p) PROVE p[Len(q) + 1] \in L
    BY <1>4, <2>1, <2>2, OnTheWay DEF L
  <2> QED
    BY <1>4, <2>1, <2>2
<1>7. /\ Under(q, p) => Due(p)
      /\ DueIn(Taken(name), p) <=> Due(p) /\ ~Under(q, p)
  BY <1>1, TakenDue DEF q
<1>8. Due(p)' <=> DueIn(stack', p)
  BY DEF Due
<1> QED
  BY <1>5, <1>6, <1>7, <1>8

\* A step that leaves everything about the files as it is keeps what is said of
\* them.
LEMMA FilesKept ==
  ASSUME IInv, file' = file, phase' = phase \/ phase = "crawling", recorded' = recorded,
         UNCHANGED failVars, \A p \in FilePaths : Due(p)' <=> Due(p)
  PROVE  DueInv' /\ FileInv' /\ DoneInv'
<1>1. \A p : (Reached(p)' <=> Reached(p))
  BY DEF Reached, failVars
<1>2. \A w, p : Count(w, p)' = Count(w, p)
  BY SameCount DEF failVars
<1>3. DueInv'
  BY <1>1 DEF IInv, DueInv, failVars
<1>4. FileInv'
  <2>1. ASSUME file # NoFile PROVE ~Due(file.path)' /\ Reached(file.path)'
    BY <1>1, <2>1 DEF IInv, FileInv, TypeOK
  <2>2. ASSUME file # NoFile
        PROVE  /\ file.tokens # <<>>
               /\ \A w \in Words :
                    recorded[<<w, file.path>>] + Occurs(w, file.tokens) = Count(w, file.path)
    BY <2>2 DEF IInv, FileInv
  <2> QED
    BY <1>2, <2>1, <2>2 DEF FileInv
<1>5. DoneInv'
  BY <1>1, <1>2 DEF IInv, DoneInv
<1> QED
  BY <1>3, <1>4, <1>5

LEMMA OpenDirPreserves ==
  ASSUME IInv, NEW name \in Names, OpenDir(name)
  PROVE  IInv'
<1> DEFINE L == DOMAIN Dirs[NodeAt(PathOf(name))]
<1>1. /\ stack \in Seq(Frames) /\ stack # <<>> /\ Nested(stack) /\ name \in Top.left
      /\ file = NoFile /\ phase = "crawling" /\ phase' = phase
  BY ReadingFacts DEF OpenDir
<1>2. /\ stack' = Append(Taken(name), [path |-> PathOf(name), left |-> L])
      /\ open_dirs' = open_dirs + 1 /\ file' = file /\ UNCHANGED <<failVars, indexVars>>
      /\ name \notin Dots /\ NodeAt(PathOf(name)) \in DOMAIN Dirs
  BY DEF OpenDir, Frame, Ignored, Kind
<1>3. L \in SUBSET Names
  BY <1>2 DEF Names
<1>4. stack' \in Seq(Frames) /\ Len(stack') = Len(stack) + 1 /\ Nested(stack')
  BY <1>1, <1>2, <1>3, PushEffect, PushNested
<1>5. recorded' = recorded /\ index_' = index_
  BY <1>2 DEF indexVars
<1>6. \A p \in FilePaths : Due(p)' <=> Due(p)
  BY OpenDirDue
<1>7. Len(stack) \in Nat /\ Len(stack') <= MaxDepth + 1
  <2>1. Len(PathOf(name)) <= MaxDepth /\ Len(PathOf(name)) = Len(stack)
    BY <1>1, PathOfEntry DEF OpenDir
  <2>2. Len(stack) \in Nat
    BY <1>1, TopOfStack
  <2> QED
    BY <1>4, <2>1, <2>2, DepthAssumption
<1>8. TypeOK'
  <2>1. Index!IndexInv'
    BY <1>2, IndexKept, StackType DEF IInv
  <2> QED
    BY <1>1, <1>2, <1>4, <1>7, <2>1 DEF IInv, TypeOK, Frames, failVars
<1>9. DirsClosed'
  BY <1>1, <1>2, <1>4 DEF IInv, DirsClosed
<1>10. PhaseInv'
  BY <1>1, <1>2 DEF PhaseInv
<1>11. DueInv' /\ FileInv' /\ DoneInv'
  BY <1>1, <1>2, <1>5, <1>6, FilesKept
<1> QED
  BY <1>8, <1>9, <1>10, <1>11 DEF IInv

\* Closing a directory loses what readdir did not deliver, if it failed.
LEMMA CloseReached ==
  ASSUME IInv, CloseDir, NEW p \in FilePaths
  PROVE  Reached(p)' <=> Reached(p) /\ \A name \in Top.left : ~Under(PathOf(name), p)
<1>1. CASE Top.left = {} /\ Works
  BY <1>1, WorksEffect DEF Reached
<1>2. CASE Fails({PathOf(name) : name \in Top.left})
  <2>1. lost' = lost \cup {PathOf(name) : name \in Top.left}
    BY <1>2, FailsEffect, StackType DEF IInv
  <2> QED
    BY <2>1 DEF Reached
<1> QED
  BY <1>1, <1>2 DEF CloseDir

LEMMA CloseDirPreserves ==
  ASSUME IInv, CloseDir
  PROVE  IInv'
<1>1. /\ stack \in Seq(Frames) /\ stack # <<>> /\ Nested(stack)
      /\ file = NoFile /\ phase = "crawling"
  BY StackType DEF IInv, CloseDir
<1>2. /\ stack' = Below /\ open_dirs' = open_dirs - 1
      /\ phase' = (IF Below = <<>> THEN "true" ELSE phase)
      /\ file' = file /\ UNCHANGED indexVars
  BY DEF CloseDir, AfterClose
<1>3. /\ Below \in Seq(Frames) /\ Len(Below) = Len(stack) - 1 /\ Len(stack) \in Nat \ {0}
      /\ Nested(Below)
  BY <1>1, BelowEffect, TopOfStack, PopDue
<1>4. recorded' = recorded /\ index_' = index_
  BY <1>2 DEF indexVars
<1>5. lost' \subseteq Seq(Names) /\ cut' = cut /\ failures' \in Nat
  <2>1. \A name \in Top.left : PathOf(name) \in Seq(Names)
    BY <1>1, PathOfEntry
  <2>2. {PathOf(name) : name \in Top.left} \subseteq Seq(Names)
    BY <2>1
  <2>3. Works \/ Fails({PathOf(name) : name \in Top.left})
    BY DEF CloseDir
  <2> QED
    BY <2>2, <2>3, FailsEffect, WorksEffect, StackType DEF IInv
<1>6. open_dirs = Len(stack)
  BY DEF IInv, DirsClosed
<1>7. TypeOK'
  <2>1. Index!IndexInv'
    BY <1>2, IndexKept, StackType DEF IInv
  <2>2. open_dirs' \in Nat
    BY <1>2, <1>3, <1>6
  <2>3. Len(Below) <= MaxDepth + 1
    BY <1>3, StackType, DepthAssumption DEF IInv
  <2> QED
    BY <1>1, <1>2, <1>3, <1>5, <2>1, <2>2, <2>3 DEF IInv, TypeOK, Frames
<1>8. DirsClosed'
  <2>1. open_dirs' = Len(stack')
    BY <1>2, <1>3, <1>6
  <2>2. Below = <<>> => Len(Below) = 0
    OBVIOUS
  <2>3. phase' \in {"true", "false"} => open_dirs' = 0
    BY <1>1, <1>2, <2>1, <2>2
  <2> QED
    BY <2>1, <2>3 DEF DirsClosed
<1>9. PhaseInv'
  BY <1>1, <1>2 DEF PhaseInv
<1>10. DueInv' /\ FileInv' /\ DoneInv'
  <2> DEFINE G == {p \in FilePaths : \E name \in Top.left : Under(PathOf(name), p)}
  <2>1. \A p \in FilePaths : p \in G <=> \E name \in Top.left : Under(PathOf(name), p)
    OBVIOUS
  <2>2. G \in SUBSET FilePaths
    OBVIOUS
  <2> HIDE DEF G
  <2>3. \A p \in G : Due(p)
    BY <1>1, <2>1, <2>2, PopDue
  <2>4. \A p \in FilePaths : Due(p)' <=> Due(p) /\ p \notin G
    BY <1>1, <1>2, <2>1, PopDue DEF Due
  <2>5. \A p \in FilePaths : Reached(p)' <=> Reached(p) /\ p \notin G
    BY <2>1, CloseReached
  <2> QED
    BY <1>1, <1>2, <1>4, <1>5, <2>2, <2>3, <2>4, <2>5, PassedOver
<1> QED
  BY <1>7, <1>8, <1>9, <1>10 DEF IInv

\* When the crawl starts, every file is due, through a name in the root.
LEMMA OpenRootPreserves ==
  ASSUME IInv, OpenRoot
  PROVE  IInv'
<1> DEFINE f == [path |-> <<>>, left |-> DOMAIN Dirs[Root]]
<1>1. /\ phase = "start" /\ Root \in DOMAIN Dirs
      /\ stack' = <<f>> /\ open_dirs' = open_dirs + 1
      /\ phase' = "crawling" /\ file' = file /\ UNCHANGED <<failVars, indexVars>>
  BY DEF OpenRoot, Kind, Frame
<1>2. /\ stack = <<>> /\ file = NoFile /\ lost = {} /\ DOMAIN cut = {}
      /\ DOMAIN index_ = {} /\ open_dirs = 0
  <2>1. stack = <<>> /\ file = NoFile /\ lost = {} /\ DOMAIN cut = {} /\ DOMAIN index_ = {}
    BY <1>1 DEF IInv, PhaseInv
  <2> QED
    BY <2>1 DEF IInv, DirsClosed
<1>3. recorded' = recorded /\ index_' = index_
  BY <1>1 DEF indexVars
<1>4. f \in Frames /\ f.path = <<>> /\ f.left = DOMAIN Dirs[Root]
  <2>1. DOMAIN Dirs[Root] \in SUBSET Names
    BY <1>1 DEF Names
  <2>2. <<>> \in Seq(Names)
    OBVIOUS
  <2> QED
    BY <2>1, <2>2 DEF Frames
<1> HIDE DEF f
<1>5. /\ stack' \in Seq(Frames) /\ Len(stack') = 1 /\ stack'[1] = f
  BY <1>1, <1>4
<1>6. ASSUME NEW p \in FilePaths PROVE Due(p)'
  <2>1. p \in Seq(Names) /\ Len(p) \in Nat /\ 1 <= Len(p)
    BY FilePath, DepthAssumption
  <2>2. /\ <<>> \in Seq(Names) /\ Len(<<>>) = 0 /\ Under(<<>>, p)
    BY <2>1 DEF Under
  <2>3. Len(<<>>) < Len(p) /\ Len(<<>>) + 1 = 1
    BY <2>1, <2>2
  <2>4. p[1] \in DOMAIN Dirs[Root]
    BY <2>2, <2>3, OnTheWay, RootPath
  <2>5. DueIn(stack', p)
    BY <1>4, <1>5, <2>1, <2>2, <2>4 DEF DueIn
  <2> QED
    BY <2>5 DEF Due
<1>7. Nested(stack)'
  <2>1. /\ <<>> \in Seq(Names \ Dots) /\ Len(<<>>) = 0
    OBVIOUS
  <2>2. \A j \in 1 .. Len(stack') : j = 1 /\ j - 1 = 0 /\ \A i \in 1 .. j - 1 : FALSE
    BY <1>5
  <2>3. \A j \in 1 .. Len(stack') :
          stack'[j].path \in Seq(Names \ Dots) /\ Len(stack'[j].path) = j - 1
    BY <1>4, <1>5, <2>1, <2>2
  <2> QED
    BY <2>2, <2>3 DEF Nested
<1>8. DirsClosed'
  BY <1>1, <1>2, <1>5 DEF DirsClosed
<1>9. PhaseInv'
  BY <1>1 DEF PhaseInv
<1>10. TypeOK'
  <2>1. Index!IndexInv'
    BY <1>1, IndexKept, StackType DEF IInv
  <2> QED
    BY <1>1, <1>2, <1>5, <1>7, <2>1, DepthAssumption DEF IInv, TypeOK, Frames, failVars
<1>11. DueInv'
  <2>1. \A p \in FilePaths : Reached(p)'
    BY <1>1, <1>2 DEF Reached, failVars
  <2>2. \A w \in Words, p \in FilePaths : recorded[<<w, p>>] = 0
    <3>1. Index!IndexInv
      BY StackType DEF IInv
    <3>2. \A w \in Words, p \in FilePaths : recorded[<<w, p>>] \in Nat
      BY <3>1, RecordedType
    <3>3. \A w \in Words, p \in FilePaths : ~(recorded[<<w, p>>] > 0)
      BY <1>2, <3>1, RecordedIsIndexed
    <3>4. \A n \in Nat : ~(n > 0) => n = 0
      OBVIOUS
    <3> QED
      BY <3>2, <3>3, <3>4, Zenon
  <2> QED
    BY <1>1, <1>2, <1>3, <2>1, <2>2 DEF DueInv, failVars
<1>12. FileInv'
  BY <1>1, <1>2 DEF FileInv
<1>13. DoneInv'
  BY <1>6 DEF DoneInv
<1> QED
  BY <1>7, <1>8, <1>9, <1>10, <1>11, <1>12, <1>13 DEF IInv

LEMMA RootFailsPreserves ==
  ASSUME IInv, RootFails
  PROVE  IInv'
<1>1. /\ phase = "start" /\ phase' = "false" /\ stack' = stack /\ file' = file
      /\ open_dirs' = open_dirs /\ UNCHANGED indexVars
      /\ Works \/ Fails({<<>>})
  BY DEF RootFails
<1>2. stack = <<>> /\ file = NoFile /\ DOMAIN index_ = {} /\ index_' = index_
  BY <1>1 DEF IInv, PhaseInv, indexVars
<1>3. TypeOK'
  <2>1. Index!IndexInv'
    BY <1>1, IndexKept, StackType DEF IInv
  <2>2. <<>> \in Seq(Names)
    OBVIOUS
  <2>3. lost' \subseteq Seq(Names) /\ cut' = cut /\ failures' \in Nat
    BY <1>1, <2>2, FailsEffect, WorksEffect, StackType DEF IInv
  <2> QED
    BY <1>1, <2>1, <2>3 DEF IInv, TypeOK
<1>4. DirsClosed'
  BY <1>1, <1>2 DEF IInv, DirsClosed
<1>5. PhaseInv' /\ FileInv' /\ DoneInv'
  BY <1>1, <1>2 DEF IInv, PhaseInv, FileInv, DoneInv
<1>6. DueInv'
  <2>1. \A p : ~DueIn(stack', p)
    BY <1>1, <1>2 DEF DueIn
  <2> QED
    BY <2>1 DEF DueInv, Due
<1> QED
  BY <1>3, <1>4, <1>5, <1>6 DEF IInv

LEMMA OccursIsNumber ==
  ASSUME NEW t \in Seq(DOMAIN Lower), NEW w
  PROVE  Occurs(w, t) \in Nat
<1>1. IsFiniteSet(1 .. Len(t))
  BY FS_Interval
<1>2. {k \in DOMAIN t : Lower[t[k]] = w} \subseteq 1 .. Len(t)
  OBVIOUS
<1>3. IsFiniteSet({k \in DOMAIN t : Lower[t[k]] = w})
  BY <1>1, <1>2, FS_Subset
<1> QED
  BY <1>3, FS_CardinalityType DEF Occurs

\* How often a word occurs in what is left of a file.
LEMMA OccursTail ==
  ASSUME NEW t \in Seq(DOMAIN Lower), t # <<>>, NEW w
  PROVE  /\ Occurs(w, t) = Occurs(w, Tail(t)) + (IF Lower[Head(t)] = w THEN 1 ELSE 0)
         /\ Occurs(w, Tail(t)) \in Nat
         /\ Len(t) = 1 => Occurs(w, Tail(t)) = 0
<1> DEFINE A == {k \in DOMAIN t : Lower[t[k]] = w}
           B == {k \in DOMAIN Tail(t) : Lower[Tail(t)[k]] = w}
           f == [k \in B |-> k + 1]
<1>1. /\ Len(t) \in Nat \ {0} /\ DOMAIN t = 1 .. Len(t) /\ Head(t) = t[1]
      /\ DOMAIN Tail(t) = 1 .. Len(t) - 1 /\ \A i \in 1 .. Len(t) - 1 : Tail(t)[i] = t[i + 1]
  OBVIOUS
<1>2. \A k : k \in B <=> k \in 1 .. Len(t) - 1 /\ Lower[t[k + 1]] = w
  BY <1>1
<1>3. \A k : k \in A <=> k \in 1 .. Len(t) /\ Lower[t[k]] = w
  BY <1>1
<1>4. IsFiniteSet(B) /\ IsFiniteSet(A)
  <2>1. IsFiniteSet(1 .. Len(t))
    BY <1>1, FS_Interval
  <2>2. A \subseteq 1 .. Len(t) /\ B \subseteq 1 .. Len(t)
    BY <1>1
  <2> HIDE DEF A, B
  <2> QED
    BY <2>1, <2>2, FS_Subset
<1> HIDE DEF A, B
<1>5. ASSUME NEW k \in B PROVE k + 1 \in A \ {1} /\ k \in Int
  <2>1. k \in 1 .. Len(t) - 1 /\ Lower[t[k + 1]] = w
    BY <1>2
  <2>2. k + 1 \in 1 .. Len(t) /\ k + 1 # 1
    BY <1>1, <2>1
  <2> QED
    BY <1>3, <2>1, <2>2
<1>6. ASSUME NEW m \in A \ {1} PROVE \E k \in B : m = k + 1
  <2>1. m \in 1 .. Len(t) /\ m # 1 /\ Lower[t[m]] = w
    BY <1>3
  <2>2. m - 1 \in 1 .. Len(t) - 1 /\ (m - 1) + 1 = m
    BY <1>1, <2>1
  <2> QED
    BY <1>2, <2>1, <2>2
<1>7. f \in Bijection(B, A \ {1})
  <2>1. f \in [B -> A \ {1}]
    BY <1>5
  <2>2. \A i, j \in B : f[i] = f[j] => i = j
    BY <1>5
  <2>3. \A m \in A \ {1} : \E k \in B : f[k] = m
    BY <1>6
  <2> HIDE DEF f
  <2> QED
    BY <2>1, <2>2, <2>3 DEF Bijection, Injection, Surjection, IsInjective
<1> HIDE DEF f
<1>8. Cardinality(A \ {1}) = Cardinality(B)
  BY <1>4, <1>7, FS_Bijection DEF ExistsBijection
<1>9. Cardinality(A) \in Nat /\ Cardinality(B) \in Nat
  BY <1>4, FS_CardinalityType
<1>10. Cardinality(A \ {1}) = IF 1 \in A THEN Cardinality(A) - 1 ELSE Cardinality(A)
  BY <1>4, FS_RemoveElement
<1>11. 1 \in A <=> Lower[Head(t)] = w
  BY <1>1, <1>3
<1>12. Cardinality(A) = Cardinality(B) + (IF Lower[Head(t)] = w THEN 1 ELSE 0)
  BY <1>8, <1>9, <1>10, <1>11
<1>13. ASSUME Len(t) = 1 PROVE Cardinality(B) = 0
  <2>1. B = {}
    BY <1>2, <1>13
  <2> QED
    BY <2>1, FS_EmptySet
<1> QED
  BY <1>9, <1>12, <1>13 DEF Occurs, A, B

\* A beginning of a file is some tokens, like the whole.
LEMMA BeginningType ==
  ASSUME NEW t \in Seq(DOMAIN Lower), NEW u \in Beginnings(t)
  PROVE  u \in Seq(DOMAIN Lower) /\ u # <<>>
<1>1. PICK k \in DOMAIN t : \E x \in Cuts[t[k]] : u = SubSeq(t, 1, k - 1) \o <<x>>
  BY DEF Beginnings
<1>2. PICK x \in Cuts[t[k]] : u = SubSeq(t, 1, k - 1) \o <<x>>
  BY <1>1
<1>3. k \in 1 .. Len(t) /\ Len(t) \in Nat /\ t[k] \in DOMAIN Lower
  OBVIOUS
<1>4. x \in DOMAIN Lower
  BY <1>3, TokensAssumption
<1>5. SubSeq(t, 1, k - 1) \in Seq(DOMAIN Lower)
  BY <1>3
<1> DEFINE v == SubSeq(t, 1, k - 1)
<1> HIDE DEF v
<1>6. v \in Seq(DOMAIN Lower) /\ u = v \o <<x>>
  BY <1>2, <1>5 DEF v
<1>7. u \in Seq(DOMAIN Lower) /\ Len(u) = Len(v) + 1 /\ Len(v) \in Nat
  BY <1>4, <1>6
<1> QED
  BY <1>7

\* The file that is opened is the only one its path leads to; it has been due.
LEMMA ReadFilePreserves ==
  ASSUME IInv, NEW name \in Names, ReadFile(name)
  PROVE  IInv'
<1>q. PICK q : q = PathOf(name)
  OBVIOUS
<1>1. /\ stack \in Seq(Frames) /\ stack # <<>> /\ Nested(stack) /\ name \in Top.left
      /\ file = NoFile /\ phase = "crawling" /\ phase' = phase
  BY ReadingFacts DEF ReadFile
<1>2. /\ stack' = Taken(name) /\ open_dirs' = open_dirs /\ UNCHANGED indexVars
      /\ name \notin Dots /\ Len(q) <= MaxDepth /\ Kind(NodeAt(q)) = "file"
      /\ NodeAt(q) \in DOMAIN Files /\ NodeAt(q) \notin DOMAIN Dirs
  BY <1>q DEF ReadFile, Ignored, Kind
<1>a. PICK t \in {Files[NodeAt(q)]} \cup Beginnings(Files[NodeAt(q)]) :
        /\ file' = [path |-> q, tokens |-> t]
        /\ \/ t = Files[NodeAt(q)] /\ Works
           \/ t \in Beginnings(Files[NodeAt(q)]) /\ ReadFails(q, t)
  <2> DEFINE whole == Files[NodeAt(q)]
  <2>1. \/ Works /\ file' = [path |-> q, tokens |-> whole]
        \/ \E part \in Beginnings(whole) :
             ReadFails(q, part) /\ file' = [path |-> q, tokens |-> part]
    BY <1>q, Zenon DEF ReadFile
  <2> HIDE DEF whole
  <2> QED
    BY <2>1, Zenon DEF whole
<1>3. recorded' = recorded /\ index_' = index_
  BY <1>2 DEF indexVars
<1>4. /\ Taken(name) \in Seq(Frames) /\ Len(Taken(name)) = Len(stack) /\ Nested(Taken(name))
      /\ q \in Seq(Names) /\ q \in Seq(Names \ Dots)
      /\ Len(q) = Len(stack) /\ Len(stack) \in Nat \ {0}
  BY <1>1, <1>2, <1>q, TakenEffect, TakenNested, PathOfEntry, TopOfStack
<1>5. q \in FilePaths
  <2>1. Len(q) \in 1 .. MaxDepth
    BY <1>2, <1>4, DepthAssumption
  <2>2. q \in [1 .. Len(q) -> Names \ Dots]
    BY <1>4
  <2> QED
    BY <1>2, <2>1, <2>2 DEF FilePaths, Paths
<1>6. ASSUME NEW p \in FilePaths PROVE Under(q, p) <=> p = q
  <2>1. p \in Seq(Names)
    BY FilePath
  <2>2. Under(q, q)
    BY <1>4 DEF Under
  <2>3. ~(Under(q, p) /\ Len(q) < Len(p))
    BY <1>2, <1>4, OnTheWay
  <2> QED
    BY <1>4, <2>1, <2>2, <2>3, UnderSame
<1>7. \A p \in FilePaths : Due(p)' <=> Due(p) /\ p # q
  BY <1>1, <1>2, <1>6, <1>q, TakenDue DEF Due
<1>8. Due(q)
  BY <1>1, <1>5, <1>6, <1>q, TakenDue
<1>b. lost' = lost /\ failures' \in Nat
  BY <1>a, StackType DEF IInv, Works, failVars, ReadFails, OneFails
<1>9. \A p : Reached(p)' <=> Reached(p)
  BY <1>b DEF Reached
<1>10. t \in Seq(DOMAIN Lower) /\ t # <<>>
  BY <1>2, <1>a, BeginningType, TokensAssumption
<1>c. Reached(q) /\ q \notin DOMAIN cut /\ \A w \in Words : recorded[<<w, q>>] = 0
  BY <1>5, <1>8 DEF IInv, DueInv
<1>d. /\ \A p \in DOMAIN cut' : p \in FilePaths /\ cut'[p] \in Beginnings(Files[NodeAt(p)])
      /\ Content(q)' = t
      /\ \A p : p # q => Content(p)' = Content(p) /\ (p \in DOMAIN cut' <=> p \in DOMAIN cut)
  <2>1. \A p \in DOMAIN cut : p \in FilePaths /\ cut[p] \in Beginnings(Files[NodeAt(p)])
    BY DEF IInv, TypeOK
  <2>2. CASE t = Files[NodeAt(q)] /\ Works
    <3>1. cut' = cut
      BY <2>2, WorksEffect
    <3> QED
      BY <1>c, <2>1, <2>2, <3>1 DEF Content, NodeAt
  <2>3. CASE t \in Beginnings(Files[NodeAt(q)]) /\ ReadFails(q, t)
    <3>1. cut' = [p \in DOMAIN cut \cup {q} |-> IF p = q THEN t ELSE cut[p]]
      BY <2>3 DEF ReadFails
    <3>2. /\ DOMAIN cut' = DOMAIN cut \cup {q} /\ cut'[q] = t
          /\ \A p \in DOMAIN cut : p # q => cut'[p] = cut[p]
      BY <3>1
    <3> QED
      BY <1>5, <2>1, <2>3, <3>2, ContentAfter DEF Content
  <2> QED
    BY <1>a, <2>2, <2>3
<1>e. \A w : /\ Count(w, q)' = Occurs(w, t)
             /\ \A p : p # q => Count(w, p)' = Count(w, p)
  BY <1>d DEF Count, Occurs
<1>11. TypeOK'
  <2>1. Index!IndexInv'
    BY <1>2, IndexKept, StackType DEF IInv
  <2>2. file' \in [path : Seq(Names), tokens : Seq(DOMAIN Lower)] /\ file'.path \in FilePaths
    BY <1>4, <1>5, <1>10, <1>a
  <2>3. Len(Taken(name)) <= MaxDepth + 1 /\ lost' \subseteq Seq(Names)
    BY <1>4, <1>b, StackType DEF IInv
  <2> QED
    BY <1>1, <1>2, <1>4, <1>b, <1>d, <2>1, <2>2, <2>3 DEF IInv, TypeOK, Frames
<1>12. DirsClosed'
  BY <1>1, <1>2, <1>4 DEF IInv, DirsClosed
<1>13. PhaseInv'
  BY <1>1, <1>2, <1>4 DEF PhaseInv
<1>14. DueInv'
  BY <1>3, <1>7, <1>9, <1>d DEF IInv, DueInv
<1>15. file'.path = q /\ file'.tokens = t
  BY <1>a
<1>16. FileInv'
  <2>1. ASSUME NEW w \in Words PROVE recorded'[<<w, q>>] + Occurs(w, t) = Count(w, q)'
    <3>1. Occurs(w, t) \in Nat
      BY <1>10, OccursIsNumber
    <3>2. recorded'[<<w, q>>] = 0 /\ Count(w, q)' = Occurs(w, t)
      BY <1>3, <1>c, <1>e
    <3> QED
      BY <3>1, <3>2
  <2>2. ~DueIn(stack', q) /\ \A r \in lost' : ~Under(r, q)
    <3>1. ~Due(q)' /\ Reached(q)'
      <4>1. \A p \in FilePaths : p = q => ~Due(p)' /\ Reached(p)'
        BY <1>7, <1>9, <1>c
      <4> QED
        BY <1>5, <4>1, Zenon
    <3>2. ~DueIn(stack', q)
      BY <3>1 DEF Due
    <3>3. \A r \in lost' : ~Under(r, q)
      BY <3>1 DEF Reached
    <3> QED
      BY <3>2, <3>3
  <2>3. \A w \in Words : recorded'[<<w, q>>] + Occurs(w, t) = Occurs(w, Content(q)')
    BY <2>1 DEF Count
  <2>4. ~DueIn(stack', file'.path) /\ \A r \in lost' : ~Under(r, file'.path)
    BY <1>15, <2>2, Zenon
  <2>5. /\ file'.tokens # <<>>
        /\ \A w \in Words : recorded'[<<w, file'.path>>] + Occurs(w, file'.tokens)
                              = Occurs(w, Content(file.path)')
    <3>1. \A p : p = q => Content(p)' = Content(q)'
      BY DEF Content, NodeAt
    <3> QED
      BY <1>10, <1>15, <2>3, <3>1, Zenon
  <2> QED
    BY <2>4, <2>5 DEF FileInv, Due, Reached, Count
<1>17. DoneInv'
  <2>1. ASSUME NEW p \in FilePaths, ~Due(p)', p # q, NEW w \in Words
        PROVE  recorded'[<<w, p>>] = IF Reached(p)' THEN Count(w, p)' ELSE 0
    <3>1. ~Due(p)
      BY <1>7, <2>1
    <3>2. recorded[<<w, p>>] = IF Reached(p) THEN Count(w, p) ELSE 0
      BY <1>1, <3>1 DEF IInv, DoneInv
    <3> QED
      BY <1>3, <1>9, <1>e, <2>1, <3>2
  <2>2. file' # NoFile
    BY <1>10, <1>15 DEF NoFile
  <2> QED
    BY <1>15, <2>1, <2>2 DEF DoneInv
<1> QED
  BY <1>11, <1>12, <1>13, <1>14, <1>16, <1>17 DEF IInv

\* One more token of the file in hand is dealt with.
LEMMA TokenCounts ==
  ASSUME IInv, RecordToken
  PROVE  /\ file # NoFile /\ file.path \in FilePaths /\ file.path \in Seq(Names)
         /\ file.tokens \in Seq(DOMAIN Lower) /\ file.tokens # <<>>
         /\ Reached(file.path) /\ ~Due(file.path)
         /\ Index!IndexInv' /\ recorded' \in [Words \X FilePaths -> Nat]
         /\ \A w \in Words :
              recorded'[<<w, file.path>>] + Occurs(w, Tail(file.tokens)) = Count(w, file.path)
         /\ \A w \in Words, p \in FilePaths :
              p # file.path => recorded'[<<w, p>>] = recorded[<<w, p>>]
<1> DEFINE d == file.path
           t == file.tokens
           v == Lower[Head(file.tokens)]
<1>1. file # NoFile /\ t # <<>>
  <2>1. t # <<>>
    BY DEF RecordToken
  <2>2. NoFile.tokens = <<>>
    BY DEF NoFile
  <2> QED
    BY <2>1, <2>2
<1>2. /\ d \in FilePaths /\ Reached(d) /\ ~Due(d)
      /\ \A w \in Words : recorded[<<w, d>>] + Occurs(w, t) = Count(w, d)
  BY <1>1 DEF IInv, FileInv, TypeOK
<1>3. t \in Seq(DOMAIN Lower) /\ d \in Seq(Names) /\ Index!IndexInv
  BY DEF IInv, TypeOK
<1>4. v # "" => v \in Words
  <2>1. Head(t) \in DOMAIN Lower
    BY <1>1, <1>3
  <2> QED
    BY <2>1 DEF Words
<1>5. IF v = "" THEN UNCHANGED indexVars ELSE Index!record(v, d)
  BY DEF RecordToken, WordOf
<1> HIDE DEF d, t, v
<1>6. Index!IndexInv'
  BY <1>2, <1>3, <1>4, <1>5, IndexKept, RecordKeeps
<1>7. ASSUME NEW w \in Words, NEW p \in FilePaths
      PROVE  recorded'[<<w, p>>] = recorded[<<w, p>>] + (IF w = v /\ p = d THEN 1 ELSE 0)
  <2>1. recorded[<<w, p>>] \in Nat
    BY <1>3, RecordedType
  <2>2. CASE v = ""
    <3>1. recorded' = recorded /\ w # v
      BY <1>5, <2>2 DEF indexVars, Words
    <3> QED
      BY <2>1, <3>1
  <2>3. CASE v # ""
    <3>1. v \in Words /\ Index!record(v, d)
      BY <1>4, <1>5, <2>3
    <3> QED
      BY <1>2, <1>3, <3>1, RecordCounts
  <2> QED
    BY <2>2, <2>3
<1>8. ASSUME NEW w \in Words
      PROVE  recorded'[<<w, d>>] + Occurs(w, Tail(t)) = Count(w, d)
  <2>0. v = Lower[Head(t)]
    BY DEF v, t
  <2>1. /\ Occurs(w, t) = Occurs(w, Tail(t)) + (IF Lower[Head(t)] = w THEN 1 ELSE 0)
        /\ Occurs(w, Tail(t)) \in Nat
    <3>1. t \in Seq(DOMAIN Lower) /\ t # <<>>
      BY <1>1, <1>3
    <3> QED
      BY <3>1, OccursTail, Zenon
  <2>2. recorded[<<w, d>>] \in Nat
    BY <1>2, <1>3, RecordedType
  <2>3. recorded'[<<w, d>>] = recorded[<<w, d>>] + (IF w = v THEN 1 ELSE 0)
    BY <1>2, <1>7
  <2>4. recorded[<<w, d>>] + Occurs(w, t) = Count(w, d)
    BY <1>2
  <2> QED
    BY <2>0, <2>1, <2>2, <2>3, <2>4
<1>9. ASSUME NEW w \in Words, NEW p \in FilePaths, p # d
      PROVE  recorded'[<<w, p>>] = recorded[<<w, p>>]
  <2>1. recorded[<<w, p>>] \in Nat
    BY <1>3, RecordedType
  <2> QED
    BY <1>7, <1>9, <2>1
<1>10. recorded' \in [Words \X FilePaths -> Nat]
  BY <1>6 DEF Index!IndexInv, Index!TypeOK
<1> QED
  BY <1>1, <1>2, <1>3, <1>6, <1>8, <1>9, <1>10 DEF d, t

LEMMA RecordTokenPreserves ==
  ASSUME IInv, RecordToken
  PROVE  IInv'
<1> DEFINE d == file.path
           rest == Tail(file.tokens)
<1>1. /\ file # NoFile /\ d \in FilePaths /\ d \in Seq(Names)
      /\ file.tokens \in Seq(DOMAIN Lower) /\ file.tokens # <<>>
      /\ Reached(d) /\ ~Due(d) /\ Index!IndexInv'
  BY TokenCounts
<1>2. \A w \in Words : recorded'[<<w, d>>] + Occurs(w, rest) = Count(w, d)
  BY TokenCounts
<1>3. \A w \in Words, p \in FilePaths : p # d => recorded'[<<w, p>>] = recorded[<<w, p>>]
  BY TokenCounts
<1>4. /\ file' = (IF Len(file.tokens) = 1 THEN NoFile ELSE [path |-> d, tokens |-> rest])
      /\ phase' = phase /\ stack' = stack /\ open_dirs' = open_dirs
      /\ lost' = lost /\ cut' = cut /\ failures' = failures
  BY DEF RecordToken, failVars
<1>5. phase = "crawling"
  BY <1>1 DEF IInv, PhaseInv
<1>6. \A p \in FilePaths : (Due(p)' <=> Due(p)) /\ (Reached(p)' <=> Reached(p))
  BY <1>4 DEF Due, Reached
<1>7. rest \in Seq(DOMAIN Lower) /\ (Len(file.tokens) # 1 => rest # <<>>)
  <2>1. /\ rest \in Seq(DOMAIN Lower) /\ Len(rest) = Len(file.tokens) - 1
        /\ Len(file.tokens) \in Nat
    BY <1>1, HeadTailProperties, LenProperties
  <2> HIDE DEF rest
  <2>2. rest = <<>> => Len(rest) = 0
    OBVIOUS
  <2> QED
    BY <2>1, <2>2
<1>8. \A w \in Words, p \in FilePaths : recorded'[<<w, p>>] \in Nat
  BY TokenCounts
<1>9. ASSUME Len(file.tokens) = 1, NEW w \in Words PROVE recorded'[<<w, d>>] = Count(w, d)
  <2>1. Occurs(w, rest) = 0
    <3>1. file.tokens \in Seq(DOMAIN Lower) /\ file.tokens # <<>>
      BY <1>1
    <3> QED
      BY <1>9, <3>1, OccursTail, Zenon
  <2>2. recorded'[<<w, d>>] \in Nat /\ recorded'[<<w, d>>] + Occurs(w, rest) = Count(w, d)
    BY <1>1, <1>2, <1>8
  <2> QED
    BY <2>1, <2>2
<1> HIDE DEF d, rest
<1>10. TypeOK'
  <2>1. file' \in [path : Seq(Names), tokens : Seq(DOMAIN Lower)]
    <3>1. NoFile \in [path : Seq(Names), tokens : Seq(DOMAIN Lower)]
      BY DEF NoFile
    <3> QED
      BY <1>1, <1>4, <1>7, <3>1
  <2> QED
    BY <1>1, <1>4, <2>1 DEF IInv, TypeOK
<1>11. DirsClosed'
  BY <1>4 DEF IInv, DirsClosed
<1>12. PhaseInv'
  BY <1>4, <1>5 DEF PhaseInv
<1>13. DueInv'
  <2>1. ASSUME NEW p \in FilePaths, Due(p)'
        PROVE  /\ Reached(p)' /\ p \notin DOMAIN cut'
               /\ \A w \in Words : recorded'[<<w, p>>] = 0
    <3>1. Due(p) /\ p # d
      BY <1>1, <1>6, <2>1
    <3>2. Reached(p) /\ p \notin DOMAIN cut /\ \A w \in Words : recorded[<<w, p>>] = 0
      BY <3>1 DEF IInv, DueInv
    <3> QED
      BY <1>3, <1>4, <1>6, <3>1, <3>2
  <2> QED
    BY <2>1 DEF DueInv
<1>14. FileInv'
  <2>1. CASE Len(file.tokens) = 1
    BY <1>4, <2>1 DEF FileInv
  <2>2. CASE Len(file.tokens) # 1
    <3>1. file'.path = d /\ file'.tokens = rest
      BY <1>4, <2>2
    <3>2. ~DueIn(stack', d) /\ \A r \in lost' : ~Under(r, d)
      BY <1>1, <1>4 DEF Due, Reached
    <3> QED
      BY <1>1, <1>2, <1>4, <1>7, <2>2, <3>1, <3>2, SameCount DEF FileInv, Due, Reached
  <2> QED
    BY <2>1, <2>2
<1>15. DoneInv'
  <2>1. ASSUME NEW p \in FilePaths, ~Due(p)', file' = NoFile \/ p # file'.path, NEW w \in Words
        PROVE  recorded'[<<w, p>>] = IF Reached(p) THEN Count(w, p) ELSE 0
    <3>1. CASE p # d
      <4>1. ~Due(p) /\ p # file.path
        BY <1>6, <2>1, <3>1 DEF d
      <4>2. recorded[<<w, p>>] = IF Reached(p) THEN Count(w, p) ELSE 0
        BY <1>5, <4>1 DEF IInv, DoneInv
      <4> QED
        BY <1>3, <3>1, <4>2
    <3>2. CASE p = d
      <4>1. Len(file.tokens) = 1
        <5>1. ASSUME Len(file.tokens) # 1 PROVE FALSE
          <6>1. file'.path = d /\ file'.tokens = rest /\ rest # <<>>
            BY <1>4, <1>7, <5>1
          <6>2. NoFile.tokens = <<>>
            BY DEF NoFile
          <6> QED
            BY <2>1, <3>2, <6>1, <6>2
        <5> QED
          BY <5>1
      <4> QED
        BY <1>1, <1>9, <3>2, <4>1
    <3> QED
      BY <3>1, <3>2
  <2> QED
    BY <1>4, <1>6, <2>1, SameCount DEF DoneInv
<1> QED
  BY <1>10, <1>11, <1>12, <1>13, <1>14, <1>15 DEF IInv

LEMMA UnchangedPreserves ==
  ASSUME IInv, UNCHANGED vars
  PROVE  IInv'
<1>1. /\ phase' = phase /\ stack' = stack /\ file' = file /\ open_dirs' = open_dirs
      /\ UNCHANGED <<failVars, indexVars>>
  BY DEF vars
<1>2. recorded' = recorded /\ index_' = index_
  BY <1>1 DEF indexVars
<1>3. Index!IndexInv'
  BY <1>1, IndexKept, StackType DEF IInv
<1>4. TypeOK' /\ DirsClosed' /\ PhaseInv'
  BY <1>1, <1>2, <1>3 DEF IInv, TypeOK, DirsClosed, PhaseInv, failVars
<1>5. DueInv' /\ FileInv' /\ DoneInv'
  <2>1. \A p \in FilePaths : Due(p)' <=> Due(p)
    BY <1>1 DEF Due
  <2> QED
    BY <1>1, <1>2, <2>1, FilesKept
<1> QED
  BY <1>4, <1>5 DEF IInv

LEMMA NextPreserves ==
  IInv /\ [Next]_vars => IInv'
<1> SUFFICES ASSUME IInv, [Next]_vars PROVE IInv'
  OBVIOUS
<1>1. CASE Next
  <2>1. CASE RootFails
    BY <2>1, RootFailsPreserves
  <2>2. CASE OpenRoot
    BY <2>2, OpenRootPreserves
  <2>3. CASE RecordToken
    BY <2>3, RecordTokenPreserves
  <2>4. CASE CloseDir
    BY <2>4, CloseDirPreserves
  <2>5. ASSUME NEW name \in Names, Skip(name) \/ OpenDir(name) \/ ReadFile(name) PROVE IInv'
    BY <2>5, SkipPreserves, OpenDirPreserves, ReadFilePreserves
  <2>6. CASE UNCHANGED vars
    BY <2>6, UnchangedPreserves
  <2> QED
    BY <1>1, <2>1, <2>2, <2>3, <2>4, <2>5, <2>6 DEF Next, Step, Returned
<1>2. CASE UNCHANGED vars
  BY <1>2, UnchangedPreserves
<1> QED
  BY <1>1, <1>2

LEMMA InitInv ==
  Init => IInv
<1> SUFFICES ASSUME Init PROVE IInv
  OBVIOUS
<1>1. /\ phase = "start" /\ stack = <<>> /\ file = NoFile /\ open_dirs = 0
      /\ failures = 0 /\ lost = {} /\ DOMAIN cut = {} /\ Index!Init
  BY DEF Init
<1>2. Index!IndexInv
  BY <1>1, InitIndex
<1>3. DOMAIN index_ = {}
  BY <1>1 DEF Index!Init, Index!EmptyMap
<1>4. TypeOK
  <2>1. NoFile \in [path : Seq(Names), tokens : Seq(DOMAIN Lower)]
    BY DEF NoFile
  <2>2. stack \in Seq([path : Seq(Names), left : SUBSET Names])
    BY <1>1
  <2>3. Nested(stack) /\ Len(stack) <= MaxDepth + 1
    BY <1>1, DepthAssumption DEF Nested
  <2> QED
    BY <1>1, <1>2, <2>1, <2>2, <2>3 DEF TypeOK
<1>5. DirsClosed
  BY <1>1 DEF DirsClosed
<1>6. PhaseInv /\ FileInv /\ DoneInv
  BY <1>1, <1>3 DEF PhaseInv, FileInv, DoneInv
<1>7. DueInv
  BY <1>1 DEF DueInv, Due, DueIn
<1> QED
  BY <1>4, <1>5, <1>6, <1>7 DEF IInv

LEMMA Invariance ==
  Spec => []IInv
BY InitInv, NextPreserves, PTL DEF Spec

-----------------------------------------------------------------------------
(***************************************************************************)
(* The theorems.                                                           *)
(***************************************************************************)

\* Every variable keeps its type, whatever the file system and whatever fails: the
\* open directories lie one in the other, within the limit of stat, what is read
\* is a file, and a part of a file is a beginning of it (CrawlFileTree.cpp:55-189).
THEOREM TypeCorrect ==
  Spec => []TypeOK
<1>1. IInv => TypeOK
  BY DEF IInv
<1> QED
  BY <1>1, Invariance, PTL

\* Every open directory belongs to an active call of handle_dir, and none is
\* left open when the crawl returns, however a directory ended
\* (CrawlFileTree.cpp:78-88, 108, 148-153).
THEOREM DirectoriesClosed ==
  Spec => []DirsClosed
<1>1. IInv => DirsClosed
  BY DEF IInv
<1> QED
  BY <1>1, Invariance, PTL

\* At the end the index records a word for a file as often as it occurs there,
\* if the file was reached, and not at all otherwise.
LEMMA RecordedAtTheEnd ==
  ASSUME IInv, phase = "true", NEW w \in Words, NEW p \in FilePaths
  PROVE  recorded[<<w, p>>] = IF p \in Seen THEN Count(w, p) ELSE 0
<1>1. stack = <<>> /\ file = NoFile
  BY DEF IInv, PhaseInv
<1>2. ~Due(p)
  BY <1>1 DEF Due, DueIn
<1>3. recorded[<<w, p>>] = IF Reached(p) THEN Count(w, p) ELSE 0
  BY <1>1, <1>2 DEF IInv, DoneInv
<1>4. lost \subseteq Seq(Names)
  BY StackType DEF IInv
<1> QED
  BY <1>3, <1>4, SeenIsReached

LEMMA EntriesRight ==
  ASSUME IInv, phase = "true"
  PROVE  /\ Entries = {[word |-> x[1], result |-> [doc_name |-> x[2], rank |-> Count(x[1], x[2])]] :
                         x \in {y \in Words \X Seen : Count(y[1], y[2]) > 0}}
         /\ DOMAIN doc_to_words_ \subseteq Seen
<1> DEFINE Have == {y \in DOMAIN recorded : y[1] \in DOMAIN index_ /\ y[2] \in DOMAIN index_[y[1]]}
           Want == {y \in Words \X Seen : Count(y[1], y[2]) > 0}
<1>0. Index!IndexInv /\ Seen \subseteq FilePaths
  BY StackType DEF IInv, Seen
<1>1. \A w \in Words, p \in FilePaths :
        /\ recorded[<<w, p>>] > 0 <=> w \in DOMAIN index_ /\ p \in DOMAIN index_[w]
        /\ recorded[<<w, p>>] > 0 => index_[w][p] = [doc_name |-> p, rank |-> recorded[<<w, p>>]]
  BY <1>0, RecordedIsIndexed
<1>2. \A w \in Words, p \in FilePaths :
        recorded[<<w, p>>] = IF p \in Seen THEN Count(w, p) ELSE 0
  BY RecordedAtTheEnd
<1>3. DOMAIN recorded = Words \X FilePaths
  BY <1>0, RecordedType
<1>4. ASSUME NEW w \in Words, NEW p \in FilePaths
      PROVE  /\ w \in DOMAIN index_ /\ p \in DOMAIN index_[w] <=> p \in Seen /\ Count(w, p) > 0
             /\ w \in DOMAIN index_ /\ p \in DOMAIN index_[w] =>
                  index_[w][p] = [doc_name |-> p, rank |-> Count(w, p)]
  <2>1. recorded[<<w, p>>] > 0 <=> p \in Seen /\ Count(w, p) > 0
    BY <1>2
  <2>2. p \in Seen => recorded[<<w, p>>] = Count(w, p)
    BY <1>2
  <2> QED
    BY <1>1, <2>1, <2>2
<1>5. \A y \in Words \X FilePaths : y[1] \in Words /\ y[2] \in FilePaths
  OBVIOUS
<1>6. Have = Want
  <2>1. \A y : y \in Have => y \in Want
    BY <1>3, <1>4, <1>5
  <2>2. \A y : y \in Want => y \in Have
    BY <1>0, <1>3, <1>4, <1>5
  <2> QED
    BY <2>1, <2>2
<1>7. ASSUME NEW y \in Have
      PROVE  index_[y[1]][y[2]] = [doc_name |-> y[2], rank |-> Count(y[1], y[2])]
  BY <1>3, <1>4, <1>5
<1> HIDE DEF Have, Want
<1>8. Entries = {[word |-> x[1], result |-> index_[x[1]][x[2]]] : x \in Have}
  BY DEF Entries, Have
<1>9. Entries = {[word |-> x[1], result |-> [doc_name |-> x[2], rank |-> Count(x[1], x[2])]] :
                   x \in Want}
  <2> DEFINE Has(x) == index_[x[1]][x[2]]
             Gets(x) == [doc_name |-> x[2], rank |-> Count(x[1], x[2])]
  <2>1. \A x \in Have : Has(x) = Gets(x)
    BY <1>7, Zenon
  <2> HIDE DEF Has, Gets
  <2>2. \A e : (\E x \in Have : e = [word |-> x[1], result |-> Has(x)]) <=>
                 (\E x \in Have : e = [word |-> x[1], result |-> Gets(x)])
    BY <2>1, Zenon
  <2>3. {[word |-> x[1], result |-> Has(x)] : x \in Have} =
          {[word |-> x[1], result |-> Gets(x)] : x \in Have}
    BY <2>2
  <2> QED
    BY <1>6, <1>8, <2>3, Zenon DEF Has, Gets
<1>10. DOMAIN doc_to_words_ \subseteq Seen
  <2>1. ASSUME NEW p \in DOMAIN doc_to_words_ PROVE p \in Seen
    <3>1. p \in FilePaths /\ \E w \in Words : recorded[<<w, p>>] > 0
      BY <1>0, RecordedIsIndexed
    <3> QED
      BY <1>2, <3>1
  <2> QED
    BY <2>1
<1> QED
  BY <1>9, <1>10 DEF Want

\* A crawl that returns true leaves an index of exactly the words it has read, each
\* with its count, in whatever order readdir delivered the names and however links
\* lead: all words of a file no call failed on, those of the part that was read
\* when a read failed, none of a file that was lost; one that returns false leaves
\* none (CrawlFileTree.cpp:55-189, FileReader.cpp:37-49).
THEOREM Complete ==
  Spec => []IndexComplete
<1>1. IInv => IndexComplete
  <2>1. ASSUME IInv, phase = "false" PROVE DOMAIN index_ = {}
    BY <2>1 DEF IInv, PhaseInv
  <2> QED
    BY <2>1, EntriesRight DEF IndexComplete
<1> QED
  BY <1>1, Invariance, PTL
=============================================================================
