----------------------------- MODULE WordIndex -----------------------------
(***************************************************************************)
(* The inverted index: WordIndex::record and lookup_word, which its        *)
(* customer calls one at a time while it fills the index, and lookup_query,*)
(* which any number of worker threads then run at once and without a lock, *)
(* document by document in the order of the hash table.                    *)
(*                                                                         *)
(* index_[word] on a std::unordered_map inserts a missing key: that is a   *)
(* write, and the actions model it wherever the code spells it.            *)
(***************************************************************************)
EXTENDS Integers, FiniteSets, Sequences, Functions

CONSTANTS
  Words, Docs,
  Readers,     \* the threads that look things up
  Queries,     \* the queries they may ask
  MaxRecords   \* bound: calls of record that Next makes

ASSUME QueriesAssumption == Queries \subseteq Seq(Words)
ASSUME FiniteAssumption == IsFiniteSet(Words) /\ IsFiniteSet(Docs)

VARIABLES
  index_,        \* word -> document -> Result
  doc_to_words_, \* document -> the words it contains
  num_words_,
  pc,            \* reader -> "idle", "looking" (in lookup_query) or "done"
  query,         \* reader -> what it asks
  todo,          \* reader -> the documents its loop has not reached
  results,       \* reader -> the Results it has pushed
  answer,        \* reader -> what it returned
  recorded,      \* history: how often each word was recorded for each document
  missed         \* history: the words looked up before they were recorded

indexVars  == <<index_, doc_to_words_, num_words_>>
readerVars == <<pc, query, todo, results, answer>>
vars == <<indexVars, readerVars, recorded, missed>>

EmptyMap == [x \in {} |-> 0]

Init ==
  /\ index_ = EmptyMap /\ doc_to_words_ = EmptyMap /\ num_words_ = 0
  /\ pc = [r \in Readers |-> "idle"]
  /\ query = [r \in Readers |-> <<>>] /\ todo = [r \in Readers |-> {}]
  /\ results = [r \in Readers |-> {}] /\ answer = [r \in Readers |-> <<>>]
  /\ recorded = [p \in Words \X Docs |-> 0] /\ missed = {}

-----------------------------------------------------------------------------
(***************************************************************************)
(* Maps.                                                                   *)
(***************************************************************************)
Get(f, k, default) == IF k \in DOMAIN f THEN f[k] ELSE default
Put(f, k, v) == [x \in DOMAIN f \cup {k} |-> IF x = k THEN v ELSE f[x]]

NoResult == [doc_name |-> "", rank |-> 0]

\* index_[w][d] is evaluated for every w in ws.
Touch(idx, ws, d) ==
  [w \in DOMAIN idx \cup ws |->
     LET docs == Get(idx, w, EmptyMap)
     IN  IF w \in ws THEN Put(docs, d, Get(docs, d, NoResult)) ELSE docs]

\* index_[w] is evaluated.
TouchWord(idx, w) == Put(idx, w, Get(idx, w, EmptyMap))

\* Result::operator<: a goes before b.
Before(a, b) == b.rank < a.rank

\* std::sort may leave a set of Results in any order operator< does not forbid.
Orders(S) ==
  {s \in [1 .. Cardinality(S) -> S] :
     \A i, j \in DOMAIN s : i < j => s[i] # s[j] /\ ~Before(s[j], s[i])}

-----------------------------------------------------------------------------
\* Filling the index: nobody looks anything up meanwhile.
Quiet == \A r \in Readers : pc[r] = "idle"

\* Mutants: the word is counted with every record; the document's word set is
\* written over.
AlwaysNew(w) == TRUE
OnlyWord(d, w) == {w}

IsNew(w) == w \notin DOMAIN index_
WordsWith(d, w) == Get(doc_to_words_, d, {}) \cup {w}

record(w, d) ==
  /\ Quiet
  /\ num_words_' = IF IsNew(w) THEN num_words_ + 1 ELSE num_words_
  /\ LET idx == Touch(index_, {w}, d) IN
       index_' = [idx EXCEPT ![w][d] = [doc_name |-> d, rank |-> idx[w][d].rank + 1]]
  /\ doc_to_words_' = Put(doc_to_words_, d, WordsWith(d, w))
  /\ recorded' = [recorded EXCEPT ![<<w, d>>] = @ + 1]
  /\ UNCHANGED <<readerVars, missed>>

lookup_word(r, w) ==
  /\ Quiet
  /\ index_' = TouchWord(index_, w)
  /\ missed' = IF IsNew(w) THEN missed \cup {w} ELSE missed
  /\ pc' = [pc EXCEPT ![r] = "done"]
  /\ query' = [query EXCEPT ![r] = <<w>>]
  /\ \E s \in Orders(Range(index_'[w])) : answer' = [answer EXCEPT ![r] = s]
  /\ UNCHANGED <<doc_to_words_, num_words_, todo, results, recorded>>

-----------------------------------------------------------------------------
\* lookup_query.
Start(r, q) ==
  /\ pc[r] = "idle"
  /\ pc' = [pc EXCEPT ![r] = "looking"]
  /\ query' = [query EXCEPT ![r] = q]
  /\ todo' = [todo EXCEPT ![r] = DOMAIN doc_to_words_]
  /\ UNCHANGED <<indexVars, results, answer, recorded, missed>>

\* Mutants: the test for the word is dropped; the loop is left one word late.
Always(d, w) == TRUE
Somewhere(d, w) == w \in DOMAIN index_

Contains(d, w) == w \in doc_to_words_[d]

\* The positions the loop over the query gets past in document d.
Passed(d, q) == {k \in 1 .. Len(q) : \A j \in 1 .. k : Contains(d, q[j])}

Visit(r, d) ==
  /\ pc[r] = "looking" /\ d \in todo[r]
  /\ LET q == query[r] IN
       /\ index_' = Touch(index_, {q[k] : k \in Passed(d, q)}, d)
       /\ LET count == SumFunction([k \in Passed(d, q) |-> index_'[q[k]][d].rank]) IN
            results' = [results EXCEPT ![r] =
              IF Passed(d, q) = 1 .. Len(q)
              THEN @ \cup {[doc_name |-> d, rank |-> count]} ELSE @]
  /\ todo' = [todo EXCEPT ![r] = @ \ {d}]
  /\ UNCHANGED <<doc_to_words_, num_words_, pc, query, answer, recorded, missed>>

Finish(r) ==
  /\ pc[r] = "looking" /\ todo[r] = {}
  /\ \E s \in Orders(results[r]) : answer' = [answer EXCEPT ![r] = s]
  /\ pc' = [pc EXCEPT ![r] = "done"]
  /\ results' = [results EXCEPT ![r] = {}]
  /\ UNCHANGED <<indexVars, query, todo, recorded, missed>>

\* The caller has used what lookup_word or lookup_query returned.
Consume(r) ==
  /\ pc[r] = "done"
  /\ pc' = [pc EXCEPT ![r] = "idle"]
  /\ query' = [query EXCEPT ![r] = <<>>]
  /\ answer' = [answer EXCEPT ![r] = <<>>]
  /\ UNCHANGED <<indexVars, todo, results, recorded, missed>>

lookup_query(r) == \/ \E q \in Queries : Start(r, q)
                   \/ \E d \in Docs : Visit(r, d)
                   \/ Finish(r)

Next ==
  \/ SumFunction(recorded) < MaxRecords /\ \E w \in Words, d \in Docs : record(w, d)
  \/ \E r \in Readers :
       lookup_query(r) \/ Consume(r) \/ \E w \in Words : lookup_word(r, w)

Spec == Init /\ [][Next]_vars

-----------------------------------------------------------------------------
IsMap(f) == f = [x \in DOMAIN f |-> f[x]]

Recorded(w, d) == recorded[<<w, d>>] > 0

TypeOK ==
  /\ IsMap(index_) /\ DOMAIN index_ \subseteq Words
  /\ \A w \in DOMAIN index_ : IsMap(index_[w]) /\ DOMAIN index_[w] \subseteq Docs
  /\ IsMap(doc_to_words_) /\ DOMAIN doc_to_words_ \subseteq Docs
  /\ \A d \in DOMAIN doc_to_words_ : doc_to_words_[d] \subseteq Words
  /\ num_words_ \in Nat
  /\ recorded \in [Words \X Docs -> Nat] /\ missed \subseteq Words
  /\ pc \in [Readers -> {"idle", "looking", "done"}]
  /\ query \in [Readers -> Seq(Words)]
  /\ todo \in [Readers -> SUBSET Docs]

\* The two halves of the index agree with each other and with what was
\* recorded (WordIndex.cpp:14-21).
Agree ==
  /\ \A d \in DOMAIN doc_to_words_ :
       doc_to_words_[d] = {w \in Words : Recorded(w, d)} /\ doc_to_words_[d] # {}
  /\ \A w \in Words, d \in Docs :
       Recorded(w, d) <=> w \in DOMAIN index_ /\ d \in DOMAIN index_[w]
  /\ \A w \in Words, d \in Docs : Recorded(w, d) =>
       /\ d \in DOMAIN doc_to_words_
       /\ index_[w][d] = [doc_name |-> d, rank |-> recorded[<<w, d>>]]

\* A query's loop only ever reaches documents that are in the index.
TodoInv ==
  \A r \in Readers : todo[r] \subseteq DOMAIN doc_to_words_

\* num_words_ counts the recorded words, but for those whose key an earlier
\* lookup_word has inserted (WordIndex.cpp:15-17, 25).
CountInv ==
  /\ DOMAIN index_ = {w \in Words : \E d \in Docs : Recorded(w, d)} \cup missed
  /\ num_words_ = Cardinality(DOMAIN index_ \ missed)

IndexInv == TypeOK /\ Agree /\ TodoInv /\ CountInv

\* What a lookup has to find: every document that has all the words, with the
\* sum of their counts.
Reference(q) ==
  {[doc_name |-> d, rank |-> SumFunction([k \in DOMAIN q |-> recorded[<<q[k], d>>]])] :
     d \in {e \in DOMAIN doc_to_words_ : \A k \in DOMAIN q : Recorded(q[k], e)}}

\* lookup_query, and lookup_word for one word, return the reference answer,
\* best first, also while other threads look things up (WordIndex.hpp:46-66).
AnswerRight ==
  \A r \in Readers : pc[r] = "done" =>
    /\ Range(answer[r]) = Reference(query[r])
    /\ Len(answer[r]) = Cardinality(Reference(query[r]))
    /\ \A i \in 1 .. Len(answer[r]) - 1 : answer[r][i].rank >= answer[r][i + 1].rank

\* lookup_query spells index_[word][doc_name], which may insert; as long as the
\* test of the word set goes first it never does, and the workers, which hold no
\* lock, only read (WordIndex.cpp:43-47).
QueriesOnlyRead ==
  [][~Quiet => UNCHANGED indexVars]_vars

-----------------------------------------------------------------------------
\* WordIndex.hpp:25, num_words "returns the number of unique words recorded in
\* the index": it does not, once lookup_word has missed.
CountsUniqueWords ==
  num_words_ = Cardinality({w \in Words : \E d \in Docs : Recorded(w, d)})
=============================================================================
