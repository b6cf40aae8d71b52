-------------------------- MODULE WordIndexProofs --------------------------
(***************************************************************************)
(* Proofs about WordIndex for any words, documents, readers and queries:   *)
(* its two maps agree, whatever is recorded and looked up; therefore       *)
(* threads that run lookup_query at once never write to them; and each     *)
(* gets the answer the history of record calls asks for.                   *)
(***************************************************************************)
EXTENDS WordIndex, Induction

-----------------------------------------------------------------------------
(***************************************************************************)
(* What the accesses to the maps do.                                       *)
(***************************************************************************)

\* Touching words the document is known to contain changes nothing.
LEMMA TouchKnown ==
  ASSUME IndexInv, NEW d \in DOMAIN doc_to_words_, NEW ws \in SUBSET doc_to_words_[d]
  PROVE  Touch(index_, ws, d) = index_
<1>1. /\ IsMap(index_) /\ d \in Docs /\ ws \subseteq Words
      /\ \A w \in DOMAIN index_ : IsMap(index_[w])
  BY DEF IndexInv, TypeOK
<1>2. \A w \in ws : w \in DOMAIN index_ /\ d \in DOMAIN index_[w]
  BY <1>1 DEF IndexInv, Agree
<1>3. \A w \in DOMAIN index_ : Get(index_, w, EmptyMap) = index_[w]
  BY DEF Get
<1>4. \A w \in ws : Put(index_[w], d, Get(index_[w], d, NoResult)) = index_[w]
  BY <1>1, <1>2 DEF Put, Get, IsMap
<1>5. DOMAIN index_ \cup ws = DOMAIN index_
  BY <1>2
<1> QED
  BY <1>1, <1>3, <1>4, <1>5 DEF Touch, IsMap

\* A visit of lookup_query only touches words the document contains.
LEMMA VisitReads ==
  ASSUME IndexInv, NEW r \in Readers, NEW d \in Docs, Visit(r, d)
  PROVE  index_' = index_
<1> DEFINE q == query[r]
           ws == {q[k] : k \in Passed(d, q)}
<1>1. d \in DOMAIN doc_to_words_
  BY DEF IndexInv, TodoInv, Visit
<1>2. ws \in SUBSET doc_to_words_[d]
  BY DEF Passed, Contains
<1>3. index_' = Touch(index_, ws, d)
  BY DEF Visit
<1> QED
  BY <1>1, <1>2, <1>3, TouchKnown

\* What record does to index_, key by key.
LEMMA RecordEffect ==
  ASSUME IndexInv, NEW w \in Words, NEW d \in Docs, record(w, d)
  PROVE  /\ IsMap(index_') /\ DOMAIN index_' = DOMAIN index_ \cup {w}
         /\ \A x \in DOMAIN index_ : x # w => index_'[x] = index_[x]
         /\ IsMap(index_'[w])
         /\ DOMAIN index_'[w] = (IF w \in DOMAIN index_ THEN DOMAIN index_[w] ELSE {}) \cup {d}
         /\ w \in DOMAIN index_ => \A e \in DOMAIN index_[w] : e # d => index_'[w][e] = index_[w][e]
         /\ index_'[w][d] = [doc_name |-> d, rank |-> recorded[<<w, d>>] + 1]
<1> DEFINE idx == Touch(index_, {w}, d)
           old == Get(index_, w, EmptyMap)
           new == Put(old, d, Get(old, d, NoResult))
<1>0. /\ IsMap(index_) /\ DOMAIN old = (IF w \in DOMAIN index_ THEN DOMAIN index_[w] ELSE {})
      /\ w \in DOMAIN index_ => old = index_[w]
  BY DEF IndexInv, TypeOK, Get, EmptyMap
<1>1. /\ idx = [x \in DOMAIN index_ \cup {w} |->
                  IF x \in {w} THEN Put(Get(index_, x, EmptyMap), d,
                                        Get(Get(index_, x, EmptyMap), d, NoResult))
                  ELSE Get(index_, x, EmptyMap)]
      /\ index_' = [idx EXCEPT ![w][d] = [doc_name |-> d, rank |-> idx[w][d].rank + 1]]
  BY DEF record, Touch
<1>2. /\ DOMAIN idx = DOMAIN index_ \cup {w} /\ idx[w] = new
      /\ \A x \in DOMAIN index_ : x # w => idx[x] = index_[x]
  BY <1>1 DEF Get
<1>3. /\ new = [x \in DOMAIN old \cup {d} |-> IF x = d THEN Get(old, d, NoResult) ELSE old[x]]
  BY DEF Put
<1> HIDE DEF idx, old, new
<1>4. index_' = [x \in DOMAIN idx |->
                   IF x = w THEN [new EXCEPT ![d] = [doc_name |-> d, rank |-> new[d].rank + 1]]
                   ELSE idx[x]]
  BY <1>1, <1>2
<1>5. index_'[w] = [new EXCEPT ![d] = [doc_name |-> d, rank |-> new[d].rank + 1]]
  BY <1>2, <1>4
<1>6. new[d].rank = recorded[<<w, d>>]
  <2>1. new[d] = Get(old, d, NoResult)
    BY <1>3
  <2>2. CASE Recorded(w, d)
    <3>1. w \in DOMAIN index_ /\ d \in DOMAIN index_[w] /\ index_[w][d].rank = recorded[<<w, d>>]
      <4>1. Agree
        BY DEF IndexInv
      <4>2. w \in DOMAIN index_ /\ d \in DOMAIN index_[w]
        BY <2>2, <4>1 DEF Agree
      <4>3. index_[w][d] = [doc_name |-> d, rank |-> recorded[<<w, d>>]]
        BY <2>2, <4>1 DEF Agree
      <4> QED
        BY <4>2, <4>3
    <3> QED
      BY <1>0, <2>1, <3>1 DEF Get
  <2>3. CASE ~Recorded(w, d)
    <3>1. d \notin DOMAIN old
      BY <1>0, <2>3 DEF IndexInv, Agree
    <3>2. recorded[<<w, d>>] = 0
      BY <2>3 DEF IndexInv, TypeOK, Recorded
    <3>3. new[d] = NoResult
      BY <2>1, <3>1 DEF Get
    <3>4. NoResult.rank = 0
      BY DEF NoResult
    <3> QED
      BY <3>2, <3>3, <3>4
  <2> QED
    BY <2>2, <2>3
<1>7. DOMAIN index_' = DOMAIN index_ \cup {w} /\ IsMap(index_')
  BY <1>2, <1>4 DEF IsMap
<1>8. \A x \in DOMAIN index_ : x # w => index_'[x] = index_[x]
  BY <1>2, <1>4
<1>9. DOMAIN index_'[w] = DOMAIN old \cup {d} /\ IsMap(index_'[w])
  BY <1>3, <1>5 DEF IsMap
<1>10. \A e \in DOMAIN old : e # d => index_'[w][e] = old[e]
  BY <1>3, <1>5
<1>11. index_'[w][d] = [doc_name |-> d, rank |-> recorded[<<w, d>>] + 1]
  BY <1>3, <1>5, <1>6
<1> QED
  BY <1>0, <1>7, <1>8, <1>9, <1>10, <1>11

-----------------------------------------------------------------------------
(***************************************************************************)
(* The invariant.                                                          *)
(***************************************************************************)

LEMMA InitIndexInv ==
  Init => IndexInv
<1> SUFFICES ASSUME Init PROVE IndexInv
  OBVIOUS
<1> USE DEF Init, EmptyMap, Recorded
<1>1. TypeOK
  BY DEF TypeOK, IsMap
<1>2. Agree
  BY DEF Agree
<1>3. CountInv
  <2>1. DOMAIN index_ = {} /\ missed = {} /\ num_words_ = 0
    OBVIOUS
  <2>2. {w \in Words : \E d \in Docs : Recorded(w, d)} = {}
    <3>2. \A w \in Words, d \in Docs : ~Recorded(w, d)
      <4> SUFFICES ASSUME NEW w \in Words, NEW d \in Docs PROVE ~Recorded(w, d)
        OBVIOUS
      <4>1. recorded[<<w, d>>] = 0
        OBVIOUS
      <4> QED
        BY ONLY <4>1 DEF Recorded
    <3> HIDE DEF Recorded
    <3> QED
      BY <3>2
  <2>3. Cardinality({}) = 0
    BY FS_EmptySet
  <2> HIDE DEF Init, EmptyMap, Recorded
  <2> QED
    BY <2>1, <2>2, <2>3 DEF CountInv
<1> QED
  BY <1>1, <1>2, <1>3 DEF IndexInv, TodoInv

\* Recording a word for a document changes the history in one place.
LEMMA RecordHistory ==
  ASSUME IndexInv, NEW w \in Words, NEW d \in Docs, record(w, d)
  PROVE  /\ recorded' \in [Words \X Docs -> Nat]
         /\ recorded'[<<w, d>>] = recorded[<<w, d>>] + 1 /\ Recorded(w, d)'
         /\ \A x \in Words, e \in Docs : <<x, e>> # <<w, d>> =>
              recorded'[<<x, e>>] = recorded[<<x, e>>] /\ (Recorded(x, e)' <=> Recorded(x, e))
<1>1. recorded \in [Words \X Docs -> Nat] /\ recorded' = [recorded EXCEPT ![<<w, d>>] = @ + 1]
  BY DEF IndexInv, TypeOK, record
<1>2. <<w, d>> \in Words \X Docs
  OBVIOUS
<1>3. recorded[<<w, d>>] \in Nat
  BY <1>1, <1>2
<1>4. recorded'[<<w, d>>] = recorded[<<w, d>>] + 1
  BY <1>1, <1>2
<1>5. \A x \in Words, e \in Docs : <<x, e>> # <<w, d>> => recorded'[<<x, e>>] = recorded[<<x, e>>]
  BY <1>1
<1>6. recorded' \in [Words \X Docs -> Nat]
  BY <1>1, <1>3
<1> QED
  BY <1>3, <1>4, <1>5, <1>6 DEF Recorded

LEMMA RecordPreserves ==
  ASSUME IndexInv, NEW w \in Words, NEW d \in Docs, record(w, d)
  PROVE  IndexInv'
<1>1. TypeOK /\ Agree /\ TodoInv /\ CountInv
  BY DEF IndexInv
<1>a. /\ IsMap(index_') /\ DOMAIN index_' = DOMAIN index_ \cup {w}
      /\ \A x \in DOMAIN index_ : x # w => index_'[x] = index_[x]
  BY RecordEffect
<1>b. IsMap(index_'[w])
  BY RecordEffect
<1>c. DOMAIN index_'[w] = (IF w \in DOMAIN index_ THEN DOMAIN index_[w] ELSE {}) \cup {d}
  BY RecordEffect
<1>d. w \in DOMAIN index_ => \A e \in DOMAIN index_[w] : e # d => index_'[w][e] = index_[w][e]
  BY RecordEffect
<1>e. index_'[w][d] = [doc_name |-> d, rank |-> recorded[<<w, d>>] + 1]
  BY RecordEffect
<1>2. doc_to_words_' = [e \in DOMAIN doc_to_words_ \cup {d} |->
                          IF e = d THEN Get(doc_to_words_, d, {}) \cup {w} ELSE doc_to_words_[e]]
  BY DEF record, Put, WordsWith
<1>3. TypeOK'
  <2>1. IsMap(doc_to_words_') /\ DOMAIN doc_to_words_' \subseteq Docs
    BY <1>1, <1>2 DEF TypeOK, IsMap
  <2>2. \A e \in DOMAIN doc_to_words_' : doc_to_words_'[e] \subseteq Words
    BY <1>1, <1>2 DEF TypeOK, Get
  <2>3. \A x \in DOMAIN index_' : IsMap(index_'[x]) /\ DOMAIN index_'[x] \subseteq Docs
    <3> SUFFICES ASSUME NEW x \in DOMAIN index_'
                 PROVE  IsMap(index_'[x]) /\ DOMAIN index_'[x] \subseteq Docs
      OBVIOUS
    <3>1. CASE x = w
      BY <1>1, <3>1, <1>a, <1>b, <1>c DEF TypeOK
    <3>2. CASE x # w
      <4>1. x \in DOMAIN index_ /\ index_'[x] = index_[x]
        BY <3>2, <1>a
      <4>2. IsMap(index_[x]) /\ DOMAIN index_[x] \subseteq Docs
        BY <1>1, <4>1 DEF TypeOK
      <4> QED
        BY <4>1, <4>2
    <3> QED
      BY <3>1, <3>2
  <2>4. IsMap(index_') /\ DOMAIN index_' \subseteq Words
    BY <1>1, <1>a, <1>b, <1>c DEF TypeOK
  <2>5. num_words_' \in Nat /\ UNCHANGED <<missed, pc, query, todo>>
    BY <1>1 DEF TypeOK, record, readerVars
  <2> QED
    BY <1>1, <2>1, <2>2, <2>3, <2>4, <2>5, RecordHistory DEF TypeOK
<1>4. Agree'
  <2>1. ASSUME NEW x \in Words, NEW e \in Docs
        PROVE  Recorded(x, e)' <=> x \in DOMAIN index_' /\ e \in DOMAIN index_'[x]
    <3>0. Recorded(x, e) <=> x \in DOMAIN index_ /\ e \in DOMAIN index_[x]
      BY <1>1 DEF Agree
    <3>1. CASE x = w /\ e = d
      BY <3>1, <1>a, <1>c, <1>e, RecordHistory
    <3>2. CASE x = w /\ e # d
      BY <3>0, <3>2, <1>a, <1>c, <1>e, RecordHistory
    <3>3. CASE x # w
      BY <3>0, <3>3, <1>a, <1>c, <1>e, RecordHistory
    <3> QED
      BY <3>1, <3>2, <3>3
  <2>2. ASSUME NEW x \in Words, NEW e \in Docs, Recorded(x, e)'
        PROVE  /\ e \in DOMAIN doc_to_words_'
               /\ index_'[x][e] = [doc_name |-> e, rank |-> recorded'[<<x, e>>]]
    <3>1. CASE x = w /\ e = d
      BY <1>2, <3>1, <1>a, <1>c, <1>e, RecordHistory
    <3>2. CASE ~(x = w /\ e = d)
      <4>1. Recorded(x, e) /\ recorded'[<<x, e>>] = recorded[<<x, e>>]
        BY <2>2, <3>2, RecordHistory
      <4>2. /\ e \in DOMAIN doc_to_words_ /\ x \in DOMAIN index_ /\ e \in DOMAIN index_[x]
            /\ index_[x][e] = [doc_name |-> e, rank |-> recorded[<<x, e>>]]
        BY <1>1, <4>1 DEF Agree
      <4>3. index_'[x][e] = index_[x][e]
        BY <3>2, <4>2, <1>a, <1>d
      <4> QED
        BY <1>2, <4>1, <4>2, <4>3
    <3> QED
      BY <3>1, <3>2
  <2>3. ASSUME NEW e \in DOMAIN doc_to_words_'
        PROVE  /\ doc_to_words_'[e] = {x \in Words : Recorded(x, e)'}
               /\ doc_to_words_'[e] # {}
    <3>0. e \in Docs
      BY <1>1, <1>2 DEF TypeOK
    <3>1. CASE e # d
      <4>1. /\ e \in DOMAIN doc_to_words_ /\ doc_to_words_'[e] = doc_to_words_[e]
        BY <1>2, <3>1
      <4>2. doc_to_words_[e] = {x \in Words : Recorded(x, e)} /\ doc_to_words_[e] # {}
        BY <1>1, <4>1 DEF Agree
      <4>3. \A x \in Words : Recorded(x, e)' <=> Recorded(x, e)
        BY <3>0, <3>1, RecordHistory
      <4> QED
        BY <4>1, <4>2, <4>3
    <3>2. CASE e = d
      <4>1. doc_to_words_'[d] = Get(doc_to_words_, d, {}) \cup {w}
        BY <1>2
      <4>2. Get(doc_to_words_, d, {}) = {x \in Words : Recorded(x, d)}
        <5>1. CASE d \in DOMAIN doc_to_words_
          BY <1>1, <5>1 DEF Agree, Get
        <5>2. CASE d \notin DOMAIN doc_to_words_
          BY <1>1, <5>2 DEF Agree, Get
        <5> QED
          BY <5>1, <5>2
      <4>3. \A x \in Words : Recorded(x, d)' <=> Recorded(x, d) \/ x = w
        BY RecordHistory
      <4> QED
        BY <3>2, <4>1, <4>2, <4>3
    <3> QED
      BY <3>1, <3>2
  <2> QED
    BY <2>1, <2>2, <2>3 DEF Agree
<1>5. TodoInv'
  BY <1>1, <1>2 DEF TodoInv, record, readerVars
<1>6. CountInv'
  <2> DEFINE Rec == {x \in Words : \E e \in Docs : Recorded(x, e)}
             RecNew == {x \in Words : \E e \in Docs : Recorded(x, e)'}
             C == DOMAIN index_ \ missed
  <2>1. RecNew = Rec \cup {w}
    BY RecordHistory
  <2>2. DOMAIN index_ = Rec \cup missed /\ num_words_ = Cardinality(C)
    BY <1>1 DEF CountInv
  <2>3. missed' = missed /\ DOMAIN index_' = DOMAIN index_ \cup {w}
    BY <1>a DEF record
  <2>4. DOMAIN index_' = RecNew \cup missed'
    BY <2>1, <2>2, <2>3
  <2>5. IsFiniteSet(C)
    BY <1>1, FiniteAssumption, FS_Subset DEF TypeOK
  <2>6. num_words_' = Cardinality(DOMAIN index_' \ missed')
    <3>1. CASE w \in DOMAIN index_
      BY <2>2, <2>3, <3>1 DEF record, IsNew
    <3>2. CASE w \notin DOMAIN index_
      <4>1. DOMAIN index_' \ missed' = C \cup {w} /\ w \notin C
        BY <2>2, <2>3, <3>2
      <4>2. Cardinality(C \cup {w}) = Cardinality(C) + 1
        BY <2>5, <4>1, FS_AddElement
      <4> QED
        BY <2>2, <3>2, <4>1, <4>2 DEF record, IsNew
    <3> QED
      BY <3>1, <3>2
  <2> QED
    BY <2>4, <2>6 DEF CountInv
<1> QED
  BY <1>3, <1>4, <1>5, <1>6 DEF IndexInv

LEMMA LookupWordPreserves ==
  ASSUME IndexInv, NEW r \in Readers, NEW w \in Words, lookup_word(r, w)
  PROVE  IndexInv'
<1>1. TypeOK /\ Agree /\ TodoInv /\ CountInv
  BY DEF IndexInv
<1>2. index_' = [x \in DOMAIN index_ \cup {w} |->
                   IF x = w THEN Get(index_, w, EmptyMap) ELSE index_[x]]
  BY DEF lookup_word, TouchWord, Put
<1>3. UNCHANGED <<doc_to_words_, num_words_, todo, recorded>>
  BY DEF lookup_word
<1>4. /\ DOMAIN index_' = DOMAIN index_ \cup {w}
      /\ \A x \in DOMAIN index_ : index_'[x] = index_[x]
      /\ w \notin DOMAIN index_ => index_'[w] = EmptyMap
  BY <1>2 DEF Get
<1>5. IsMap(EmptyMap) /\ DOMAIN EmptyMap = {}
  BY DEF IsMap, EmptyMap
<1>6. TypeOK'
  <2>1. \A x \in DOMAIN index_' : IsMap(index_'[x]) /\ DOMAIN index_'[x] \subseteq Docs
    BY <1>1, <1>4, <1>5 DEF TypeOK
  <2>2. IsMap(index_') /\ DOMAIN index_' \subseteq Words
    BY <1>1, <1>2 DEF TypeOK, IsMap
  <2>3. /\ missed' \subseteq Words /\ <<w>> \in Seq(Words)
        /\ pc' = [pc EXCEPT ![r] = "done"] /\ query' = [query EXCEPT ![r] = <<w>>]
    BY <1>1 DEF TypeOK, lookup_word
  <2>4. /\ pc' \in [Readers -> {"idle", "looking", "done"}]
        /\ query' \in [Readers -> Seq(Words)]
    BY <1>1, <2>3 DEF TypeOK
  <2> QED
    BY <1>1, <1>3, <2>1, <2>2, <2>3, <2>4 DEF TypeOK
<1>7. Agree'
  <2>1. \A x \in Words, e \in Docs : Recorded(x, e)' <=> Recorded(x, e)
    BY <1>3 DEF Recorded
  <2>2. ASSUME NEW x \in Words, NEW e \in Docs
        PROVE  Recorded(x, e) <=> x \in DOMAIN index_' /\ e \in DOMAIN index_'[x]
    <3>0. Recorded(x, e) <=> x \in DOMAIN index_ /\ e \in DOMAIN index_[x]
      BY <1>1 DEF Agree
    <3>1. CASE x \in DOMAIN index_
      BY <1>4, <3>0, <3>1
    <3>2. CASE x \notin DOMAIN index_
      BY <1>4, <1>5, <3>0, <3>2
    <3> QED
      BY <3>1, <3>2
  <2>3. ASSUME NEW x \in Words, NEW e \in Docs, Recorded(x, e)
        PROVE  /\ e \in DOMAIN doc_to_words_
               /\ index_'[x][e] = [doc_name |-> e, rank |-> recorded[<<x, e>>]]
    <3>1. x \in DOMAIN index_ /\ e \in DOMAIN doc_to_words_
          /\ index_[x][e] = [doc_name |-> e, rank |-> recorded[<<x, e>>]]
      BY <1>1, <2>3 DEF Agree
    <3> QED
      BY <1>4, <3>1
  <2>4. \A e \in DOMAIN doc_to_words_ :
          doc_to_words_[e] = {x \in Words : Recorded(x, e)} /\ doc_to_words_[e] # {}
    BY <1>1 DEF Agree
  <2>5. \A e \in DOMAIN doc_to_words_ :
          doc_to_words_[e] = {x \in Words : Recorded(x, e)'} /\ doc_to_words_[e] # {}
    BY <1>3, <2>4 DEF Recorded
  <2> QED
    BY <1>3, <2>1, <2>2, <2>3, <2>5 DEF Agree
<1>8. TodoInv'
  BY <1>1, <1>3 DEF TodoInv
<1>9. CountInv'
  <2>1. /\ DOMAIN index_ = {x \in Words : \E e \in Docs : Recorded(x, e)} \cup missed
        /\ num_words_ = Cardinality(DOMAIN index_ \ missed)
    BY <1>1 DEF CountInv
  <2>2. missed' = IF w \notin DOMAIN index_ THEN missed \cup {w} ELSE missed
    BY DEF lookup_word, IsNew
  <2>3. {x \in Words : \E e \in Docs : Recorded(x, e)'} =
          {x \in Words : \E e \in Docs : Recorded(x, e)}
    BY <1>3 DEF Recorded
  <2>4. DOMAIN index_' = {x \in Words : \E e \in Docs : Recorded(x, e)'} \cup missed'
    BY <1>4, <2>1, <2>2, <2>3
  <2>5. DOMAIN index_' \ missed' = DOMAIN index_ \ missed
    BY <1>4, <2>1, <2>2
  <2> QED
    BY <1>3, <2>1, <2>4, <2>5 DEF CountInv
<1> QED
  BY <1>6, <1>7, <1>8, <1>9 DEF IndexInv

\* The steps of readers leave the maps, the count and the history alone.
LEMMA ReaderPreserves ==
  ASSUME IndexInv, UNCHANGED <<index_, doc_to_words_, num_words_, recorded, missed>>,
         pc' \in [Readers -> {"idle", "looking", "done"}],
         query' \in [Readers -> Seq(Words)],
         todo' \in [Readers -> SUBSET Docs],
         \A r \in Readers : todo'[r] \subseteq DOMAIN doc_to_words_
  PROVE  IndexInv'
<1>1. TypeOK'
  BY DEF IndexInv, TypeOK
<1>2. Agree'
  BY DEF IndexInv, Agree, Recorded
<1>3. TodoInv'
  BY DEF TodoInv
<1>4. CountInv'
  BY DEF IndexInv, CountInv, Recorded
<1> QED
  BY <1>1, <1>2, <1>3, <1>4 DEF IndexInv

LEMMA NextIndexInv ==
  IndexInv /\ [Next]_vars => IndexInv'
<1> SUFFICES ASSUME IndexInv, [Next]_vars PROVE IndexInv'
  OBVIOUS
<1>0. /\ pc \in [Readers -> {"idle", "looking", "done"}] /\ query \in [Readers -> Seq(Words)]
      /\ todo \in [Readers -> SUBSET Docs] /\ DOMAIN doc_to_words_ \subseteq Docs
      /\ \A r \in Readers : todo[r] \subseteq DOMAIN doc_to_words_
  BY DEF IndexInv, TypeOK, TodoInv
<1>1. ASSUME NEW w \in Words, NEW d \in Docs, record(w, d) PROVE IndexInv'
  BY <1>1, RecordPreserves
<1>2. ASSUME NEW r \in Readers, NEW w \in Words, lookup_word(r, w) PROVE IndexInv'
  BY <1>2, LookupWordPreserves
<1>3. ASSUME NEW r \in Readers, NEW q \in Queries, Start(r, q) PROVE IndexInv'
  BY <1>0, <1>3, ReaderPreserves, QueriesAssumption DEF Start, indexVars
<1>4. ASSUME NEW r \in Readers, NEW d \in Docs, Visit(r, d) PROVE IndexInv'
  BY <1>0, <1>4, VisitReads, ReaderPreserves DEF Visit
<1>5. ASSUME NEW r \in Readers, Finish(r) PROVE IndexInv'
  BY <1>0, <1>5, ReaderPreserves DEF Finish, indexVars
<1>6. ASSUME NEW r \in Readers, Consume(r) PROVE IndexInv'
  <2>1. <<>> \in Seq(Words)
    OBVIOUS
  <2> QED
    BY <1>0, <1>6, <2>1, ReaderPreserves DEF Consume, indexVars
<1>7. CASE UNCHANGED vars
  BY <1>0, <1>7, ReaderPreserves DEF vars, indexVars, readerVars
<1> QED
  BY <1>1, <1>2, <1>3, <1>4, <1>5, <1>6, <1>7 DEF Next, lookup_query

\* The two maps of the index agree with each other and with the history of
\* record calls, for any words, documents, queries and readers.
THEOREM IndexInvariance ==
  Spec => []IndexInv
<1> QED
  BY InitIndexInv, NextIndexInv, PTL DEF Spec

\* Threads inside lookup_query never write to the index they share without a
\* lock (WordIndex.cpp:43-47).
THEOREM ReadOnly ==
  Spec => QueriesOnlyRead
<1>1. IndexInv /\ [Next]_vars => [~Quiet => UNCHANGED indexVars]_vars
  <2> SUFFICES ASSUME IndexInv, [Next]_vars, ~Quiet PROVE UNCHANGED indexVars
    OBVIOUS
  <2>1. ASSUME NEW r \in Readers, NEW d \in Docs, Visit(r, d) PROVE UNCHANGED indexVars
    BY <2>1, VisitReads DEF Visit, indexVars
  <2>2. ASSUME NEW r \in Readers, NEW q \in Queries, Start(r, q) PROVE UNCHANGED indexVars
    BY <2>2 DEF Start
  <2>3. ASSUME NEW r \in Readers, Finish(r) \/ Consume(r) PROVE UNCHANGED indexVars
    BY <2>3 DEF Finish, Consume
  <2>4. CASE UNCHANGED vars
    BY <2>4 DEF vars
  <2> QED
    BY <2>1, <2>2, <2>3, <2>4 DEF Next, lookup_query, record, lookup_word
<1> QED
  BY <1>1, IndexInvariance, PTL DEF Spec, QueriesOnlyRead

-----------------------------------------------------------------------------
(***************************************************************************)
(* The answers.                                                            *)
(***************************************************************************)

HasAll(q, d) == \A k \in DOMAIN q : Recorded(q[k], d)
Counts(q, d) == [k \in DOMAIN q |-> recorded[<<q[k], d>>]]
Entry(q, d) == [doc_name |-> d, rank |-> SumFunction(Counts(q, d))]

\* What a query finds among the documents ds.
Found(q, ds) == {Entry(q, d) : d \in {e \in ds : HasAll(q, e)}}

\* A reader that is looking has found what there is in the documents behind it.
LookInv ==
  /\ IsMap(results) /\ DOMAIN results = Readers
  /\ IsMap(answer) /\ DOMAIN answer = Readers
  /\ \A r \in Readers :
       results[r] = IF pc[r] = "looking"
                    THEN Found(query[r], DOMAIN doc_to_words_ \ todo[r]) ELSE {}

\* The answers' inductive invariant.
AnswerInv == IndexInv /\ LookInv /\ AnswerRight

LEMMA ReferenceIsFound ==
  \A q : Reference(q) = Found(q, DOMAIN doc_to_words_)
BY DEF Reference, Found, Entry, Counts, HasAll

\* The ranks are numbers, and there are finitely many of them.
LEMMA FoundIsFinite ==
  ASSUME IndexInv, NEW q \in Seq(Words)
  PROVE  /\ IsFiniteSet(Reference(q))
         /\ \A x \in Reference(q) : x.rank \in Nat
<1> DEFINE ds == {d \in DOMAIN doc_to_words_ : HasAll(q, d)}
<1>1. DOMAIN doc_to_words_ \in SUBSET Docs /\ recorded \in [Words \X Docs -> Nat]
  BY DEF IndexInv, TypeOK
<1>2. ds \in SUBSET Docs /\ IsFiniteSet(Docs)
  BY <1>1, FiniteAssumption
<1>3. IsFiniteSet(ds)
  BY <1>2, FS_Subset
<1>4. Reference(q) = {Entry(q, d) : d \in ds}
  BY ReferenceIsFound DEF Found
<1>5. IsFiniteSet(Reference(q))
  <2>1. Range([d \in ds |-> Entry(q, d)]) = {Entry(q, d) : d \in ds}
    BY DEF Range
  <2>2. [d \in ds |-> Entry(q, d)] \in Surjection(ds, {Entry(q, d) : d \in ds})
    BY DEF Surjection
  <2> QED
    BY <1>3, <1>4, <2>2, FS_Surjection
<1>6. ASSUME NEW d \in ds PROVE SumFunction(Counts(q, d)) \in Nat
  <2>1. DOMAIN Counts(q, d) = 1 .. Len(q)
    BY DEF Counts
  <2>2. IsFiniteSet(DOMAIN Counts(q, d))
    BY <2>1, FS_Interval
  <2>3. \A k \in DOMAIN Counts(q, d) : Counts(q, d)[k] \in Nat
    BY <1>1, <1>2 DEF Counts
  <2> QED
    BY <2>2, <2>3, SumType
<1> QED
  BY <1>4, <1>5, <1>6 DEF Entry

\* std::sort leaves every result in its place exactly once, the best first.
LEMMA OrdersRight ==
  ASSUME NEW S, IsFiniteSet(S), \A x \in S : x.rank \in Nat, NEW s \in Orders(S)
  PROVE  /\ Range(s) = S /\ Len(s) = Cardinality(S)
         /\ \A i \in 1 .. Len(s) - 1 : s[i].rank >= s[i + 1].rank
<1> DEFINE n == Cardinality(S)
<1>1. n \in Nat
  BY FS_CardinalityType
<1>2. s \in [1 .. n -> S] /\ \A i, j \in 1 .. n : i < j => s[i] # s[j] /\ ~Before(s[j], s[i])
  BY DEF Orders
<1> HIDE DEF n
<1>3. s \in Seq(S) /\ Len(s) = n
  BY <1>1, <1>2
<1>4. Range(s) = S
  <2>1. s \in Injection(1 .. n, S)
    <3>1. \A i, j \in 1 .. n : i # j => i < j \/ j < i
      BY <1>1
    <3> QED
      BY <1>2, <3>1 DEF Injection, IsInjective
  <2>2. Cardinality(1 .. n) = n
    BY <1>1, FS_Interval
  <2>3. s \in Surjection(1 .. n, S)
    BY <2>1, <2>2, FS_Injection DEF n
  <2> QED
    BY <2>3, <1>2 DEF Surjection, Range
<1>5. ASSUME NEW i \in 1 .. n - 1 PROVE s[i].rank >= s[i + 1].rank
  <2>1. i \in 1 .. n /\ i + 1 \in 1 .. n /\ i < i + 1
    BY <1>1
  <2>2. ~(s[i].rank < s[i + 1].rank)
    BY <1>2, <2>1 DEF Before
  <2>3. s[i].rank \in Nat /\ s[i + 1].rank \in Nat
    BY <1>2, <2>1
  <2> QED
    BY <2>2, <2>3
<1> QED
  BY <1>3, <1>4, <1>5 DEF n

LEMMA OrderedAnswer ==
  ASSUME IndexInv, NEW q \in Seq(Words), NEW s \in Orders(Reference(q))
  PROVE  /\ Range(s) = Reference(q) /\ Len(s) = Cardinality(Reference(q))
         /\ \A i \in 1 .. Len(s) - 1 : s[i].rank >= s[i + 1].rank
BY FoundIsFinite, OrdersRight

\* The body of lookup_query's loop adds the document exactly if it has all the
\* words, with the sum of their counts.
LEMMA VisitFinds ==
  ASSUME AnswerInv, NEW r \in Readers, NEW d \in Docs, Visit(r, d)
  PROVE  results'[r] = results[r] \cup (IF HasAll(query[r], d) THEN {Entry(query[r], d)} ELSE {})
<1> DEFINE q == query[r]
<1>1. q \in Seq(Words) /\ DOMAIN q = 1 .. Len(q)
  BY DEF AnswerInv, IndexInv, TypeOK
<1>2. d \in DOMAIN doc_to_words_ /\ doc_to_words_[d] = {w \in Words : Recorded(w, d)}
  BY DEF AnswerInv, IndexInv, TodoInv, Agree, Visit
<1>3. HasAll(q, d) <=> Passed(d, q) = 1 .. Len(q)
  <2>1. Len(q) \in Nat
    BY <1>1
  <2>2. \A k \in 1 .. Len(q) : q[k] \in Words /\ (Contains(d, q[k]) <=> Recorded(q[k], d))
    BY <1>1, <1>2 DEF Contains
  <2>3. \A k \in 1 .. Len(q) : k \in 1 .. k /\ \A j \in 1 .. k : j \in 1 .. Len(q)
    BY <2>1
  <2> QED
    BY <1>1, <2>2, <2>3 DEF HasAll, Passed
<1>4. index_' = index_
  BY VisitReads DEF AnswerInv
<1>5. ASSUME HasAll(q, d)
      PROVE  [k \in Passed(d, q) |-> index_'[q[k]][d].rank] = Counts(q, d)
  <2>1. \A k \in 1 .. Len(q) : Recorded(q[k], d) /\ q[k] \in Words
    BY <1>1, <1>5 DEF HasAll
  <2>2. \A w \in Words : Recorded(w, d) =>
          index_[w][d] = [doc_name |-> d, rank |-> recorded[<<w, d>>]]
    BY DEF AnswerInv, IndexInv, Agree
  <2>3. ASSUME NEW k \in 1 .. Len(q) PROVE index_[q[k]][d].rank = recorded[<<q[k], d>>]
    <3>1. index_[q[k]][d] = [doc_name |-> d, rank |-> recorded[<<q[k], d>>]]
      BY <2>1, <2>2
    <3> QED
      BY <3>1
  <2> QED
    BY <1>1, <1>3, <1>4, <1>5, <2>3 DEF Counts
<1>6. results'[r] = IF Passed(d, q) = 1 .. Len(q)
        THEN results[r] \cup {[doc_name |-> d,
               rank |-> SumFunction([k \in Passed(d, q) |-> index_'[q[k]][d].rank])]}
        ELSE results[r]
  BY DEF Visit, AnswerInv, LookInv
<1>7. CASE HasAll(q, d)
  BY <1>3, <1>5, <1>6, <1>7 DEF Entry
<1>8. CASE ~HasAll(q, d)
  BY <1>3, <1>6, <1>8
<1> QED
  BY <1>7, <1>8

LEMMA VisitAnswer ==
  ASSUME AnswerInv, NEW r \in Readers, NEW d \in Docs, Visit(r, d)
  PROVE  LookInv' /\ AnswerRight'
<1>1. /\ UNCHANGED <<doc_to_words_, recorded, pc, query, answer>>
      /\ todo' = [todo EXCEPT ![r] = @ \ {d}]
      /\ pc[r] = "looking" /\ d \in todo[r] /\ d \in DOMAIN doc_to_words_
  BY DEF Visit, AnswerInv, IndexInv, TodoInv
<1>2. /\ IsMap(results') /\ DOMAIN results' = Readers
      /\ \A x \in Readers \ {r} : results'[x] = results[x]
  BY DEF Visit, AnswerInv, LookInv, IsMap
<1>3. /\ todo'[r] = todo[r] \ {d} /\ \A x \in Readers \ {r} : todo'[x] = todo[x]
  BY <1>1 DEF AnswerInv, IndexInv, TypeOK
<1>4. \A q, ds : Found(q, ds)' = Found(q, ds)
  BY <1>1 DEF Found, HasAll, Entry, Counts, Recorded
<1>5. results'[r] = Found(query[r], DOMAIN doc_to_words_ \ todo'[r])
  <2>1. DOMAIN doc_to_words_ \ todo'[r] = (DOMAIN doc_to_words_ \ todo[r]) \cup {d}
    BY <1>1, <1>3
  <2>2. results[r] = Found(query[r], DOMAIN doc_to_words_ \ todo[r])
    BY <1>1 DEF AnswerInv, LookInv
  <2> QED
    BY <2>1, <2>2, VisitFinds DEF Found
<1>6. LookInv'
  <2>1. \A x \in Readers :
          results'[x] = IF pc[x] = "looking"
                        THEN Found(query[x], DOMAIN doc_to_words_ \ todo'[x]) ELSE {}
    BY <1>1, <1>2, <1>3, <1>5 DEF AnswerInv, LookInv
  <2>2. IsMap(answer') /\ DOMAIN answer' = Readers
    BY <1>1 DEF AnswerInv, LookInv, IsMap
  <2> QED
    BY <1>1, <1>2, <1>4, <2>1, <2>2 DEF LookInv
<1>7. AnswerRight'
  <2>1. \A q : Reference(q)' = Reference(q)
    BY <1>1 DEF Reference, Recorded
  <2> QED
    BY <1>1, <2>1 DEF AnswerInv, AnswerRight
<1> QED
  BY <1>6, <1>7

\* A step after which the same is recorded, and no other reader has moved.
LEMMA OthersKept ==
  ASSUME AnswerInv, NEW r \in Readers,
         UNCHANGED <<doc_to_words_, recorded, todo>>,
         \A x \in Readers \ {r} : /\ pc'[x] = pc[x] /\ query'[x] = query[x]
                                  /\ results'[x] = results[x] /\ answer'[x] = answer[x],
         IsMap(results') /\ DOMAIN results' = Readers,
         IsMap(answer') /\ DOMAIN answer' = Readers,
         results'[r] = IF pc'[r] = "looking"
                       THEN Found(query'[r], DOMAIN doc_to_words_ \ todo[r]) ELSE {},
         pc'[r] = "done" => query'[r] \in Seq(Words) /\ answer'[r] \in Orders(Reference(query'[r]))
  PROVE  LookInv' /\ AnswerRight'
<1>1. \A q, ds : Found(q, ds)' = Found(q, ds)
  BY DEF Found, HasAll, Entry, Counts, Recorded
<1>2. \A q : Reference(q)' = Reference(q)
  BY DEF Reference, Recorded
<1>3. LookInv'
  <2>1. \A x \in Readers :
          results'[x] = IF pc'[x] = "looking"
                        THEN Found(query'[x], DOMAIN doc_to_words_ \ todo[x]) ELSE {}
    BY DEF AnswerInv, LookInv
  <2> QED
    BY <1>1, <2>1 DEF LookInv
<1>4. AnswerRight'
  <2>1. ASSUME NEW x \in Readers, pc'[x] = "done"
        PROVE  /\ Range(answer'[x]) = Reference(query'[x])
               /\ Len(answer'[x]) = Cardinality(Reference(query'[x]))
               /\ \A i \in 1 .. Len(answer'[x]) - 1 :
                    answer'[x][i].rank >= answer'[x][i + 1].rank
    <3>1. CASE x = r
      BY <2>1, <3>1, OrderedAnswer DEF AnswerInv
    <3>2. CASE x # r
      BY <2>1, <3>2 DEF AnswerInv, AnswerRight
    <3> QED
      BY <3>1, <3>2
  <2> QED
    BY <1>2, <2>1 DEF AnswerRight
<1> QED
  BY <1>3, <1>4

LEMMA FinishAnswer ==
  ASSUME AnswerInv, NEW r \in Readers, Finish(r)
  PROVE  LookInv' /\ AnswerRight'
<1>1. /\ UNCHANGED <<doc_to_words_, recorded, todo, query>> /\ todo[r] = {} /\ pc[r] = "looking"
      /\ pc' = [pc EXCEPT ![r] = "done"] /\ results' = [results EXCEPT ![r] = {}]
  BY DEF Finish, indexVars
<1>2. PICK s \in Orders(results[r]) : answer' = [answer EXCEPT ![r] = s]
  BY DEF Finish
<1>3. results[r] = Reference(query[r]) /\ query[r] \in Seq(Words)
  <2>1. results[r] = Found(query[r], DOMAIN doc_to_words_ \ {})
    BY <1>1 DEF AnswerInv, LookInv
  <2>2. DOMAIN doc_to_words_ \ {} = DOMAIN doc_to_words_
    OBVIOUS
  <2> QED
    BY <2>1, <2>2, ReferenceIsFound DEF AnswerInv, IndexInv, TypeOK
<1>4. pc \in [Readers -> {"idle", "looking", "done"}]
  BY DEF AnswerInv, IndexInv, TypeOK
<1>5. /\ IsMap(results') /\ DOMAIN results' = Readers /\ results'[r] = {}
      /\ IsMap(answer') /\ DOMAIN answer' = Readers /\ answer'[r] = s
      /\ \A x \in Readers \ {r} : results'[x] = results[x] /\ answer'[x] = answer[x]
  BY <1>1, <1>2 DEF AnswerInv, LookInv, IsMap
<1>6. pc'[r] = "done" /\ \A x \in Readers \ {r} : pc'[x] = pc[x]
  BY <1>1, <1>4
<1> QED
  BY <1>1, <1>2, <1>3, <1>5, <1>6, OthersKept

LEMMA LookupWordAnswer ==
  ASSUME AnswerInv, NEW r \in Readers, NEW w \in Words, lookup_word(r, w)
  PROVE  LookInv' /\ AnswerRight'
<1>0. /\ IndexInv /\ pc \in [Readers -> {"idle", "looking", "done"}]
      /\ query \in [Readers -> Seq(Words)] /\ \A x \in Readers : pc[x] = "idle"
      /\ DOMAIN doc_to_words_ \subseteq Docs /\ recorded \in [Words \X Docs -> Nat]
      /\ \A x \in DOMAIN index_ : DOMAIN index_[x] \subseteq Docs
  BY DEF AnswerInv, IndexInv, TypeOK, lookup_word, Quiet
<1>1. /\ UNCHANGED <<doc_to_words_, recorded, todo, results>>
      /\ pc' = [pc EXCEPT ![r] = "done"] /\ query' = [query EXCEPT ![r] = <<w>>]
      /\ index_' = TouchWord(index_, w)
  BY DEF lookup_word
<1>2. PICK s \in Orders(Range(index_'[w])) : answer' = [answer EXCEPT ![r] = s]
  BY DEF lookup_word
<1>3. ASSUME NEW d \in Docs, Recorded(w, d)
      PROVE  Entry(<<w>>, d) = [doc_name |-> d, rank |-> recorded[<<w, d>>]]
  <2>1. /\ DOMAIN Counts(<<w>>, d) = {1} /\ Counts(<<w>>, d)[1] = recorded[<<w, d>>]
    BY DEF Counts
  <2>2. recorded[<<w, d>>] \in Nat
    BY <1>0
  <2> QED
    BY <2>1, <2>2, SumOfOne DEF Entry
<1>4. \A d : HasAll(<<w>>, d) <=> Recorded(w, d)
  BY DEF HasAll
<1>5. Reference(<<w>>) =
        {[doc_name |-> d, rank |-> recorded[<<w, d>>]] :
           d \in {e \in DOMAIN doc_to_words_ : Recorded(w, e)}}
  <2>1. \A d \in {e \in DOMAIN doc_to_words_ : Recorded(w, e)} :
          Entry(<<w>>, d) = [doc_name |-> d, rank |-> recorded[<<w, d>>]]
    BY <1>0, <1>3
  <2>2. Reference(<<w>>) = {Entry(<<w>>, d) : d \in {e \in DOMAIN doc_to_words_ : Recorded(w, e)}}
    BY <1>4, ReferenceIsFound DEF Found
  <2> QED
    BY <2>1, <2>2
<1>6. /\ DOMAIN index_'[w] = {d \in DOMAIN doc_to_words_ : Recorded(w, d)}
      /\ \A d \in DOMAIN index_'[w] : index_'[w][d] = [doc_name |-> d, rank |-> recorded[<<w, d>>]]
  <2>1. /\ \A d \in Docs : Recorded(w, d) <=> w \in DOMAIN index_ /\ d \in DOMAIN index_[w]
        /\ \A d \in Docs : Recorded(w, d) => d \in DOMAIN doc_to_words_
    BY <1>0 DEF IndexInv, Agree
  <2>2. \A d \in Docs : Recorded(w, d) =>
          index_[w][d] = [doc_name |-> d, rank |-> recorded[<<w, d>>]]
    BY <1>0 DEF IndexInv, Agree
  <2>3. CASE w \in DOMAIN index_
    <3>1. index_'[w] = index_[w]
      BY <1>1, <2>3 DEF TouchWord, Put, Get
    <3> QED
      BY <1>0, <2>1, <2>2, <2>3, <3>1
  <2>4. CASE w \notin DOMAIN index_
    <3>1. DOMAIN index_'[w] = {}
      BY <1>1, <2>4 DEF TouchWord, Put, Get, EmptyMap
    <3> QED
      BY <1>0, <2>1, <2>4, <3>1
  <2> QED
    BY <2>3, <2>4
<1>7. Range(index_'[w]) = Reference(<<w>>)
  BY <1>5, <1>6 DEF Range
<1>8. <<w>> \in Seq(Words) /\ query'[r] = <<w>> /\ pc'[r] = "done"
      /\ \A x \in Readers \ {r} : pc'[x] = pc[x] /\ query'[x] = query[x]
  BY <1>0, <1>1
<1>9. /\ IsMap(results') /\ DOMAIN results' = Readers /\ results'[r] = {}
      /\ IsMap(answer') /\ DOMAIN answer' = Readers /\ answer'[r] = s
      /\ \A x \in Readers \ {r} : results'[x] = results[x] /\ answer'[x] = answer[x]
  BY <1>0, <1>1, <1>2 DEF AnswerInv, LookInv, IsMap
<1> QED
  BY <1>1, <1>2, <1>7, <1>8, <1>9, OthersKept

LEMMA NextAnswerInv ==
  AnswerInv /\ [Next]_vars => AnswerInv'
<1> SUFFICES ASSUME AnswerInv, [Next]_vars PROVE LookInv' /\ AnswerRight'
  BY NextIndexInv DEF AnswerInv
<1>0. /\ pc \in [Readers -> {"idle", "looking", "done"}]
      /\ query \in [Readers -> Seq(Words)] /\ todo \in [Readers -> SUBSET Docs]
      /\ IsMap(results) /\ DOMAIN results = Readers /\ IsMap(answer) /\ DOMAIN answer = Readers
  BY DEF AnswerInv, IndexInv, TypeOK, LookInv
<1>1. ASSUME NEW w \in Words, NEW d \in Docs, record(w, d) PROVE LookInv' /\ AnswerRight'
  <2>1. UNCHANGED <<pc, results, answer>> /\ \A r \in Readers : pc[r] = "idle"
    BY <1>1 DEF record, readerVars, Quiet
  <2>2. LookInv'
    BY <1>0, <2>1 DEF AnswerInv, LookInv, IsMap
  <2> QED
    BY <2>1, <2>2 DEF AnswerRight
<1>2. ASSUME NEW r \in Readers, NEW w \in Words, lookup_word(r, w) PROVE LookInv' /\ AnswerRight'
  BY <1>2, LookupWordAnswer
<1>3. ASSUME NEW r \in Readers, NEW q \in Queries, Start(r, q) PROVE LookInv' /\ AnswerRight'
  <2>1. /\ UNCHANGED <<doc_to_words_, recorded, results, answer>> /\ pc[r] = "idle"
        /\ pc' = [pc EXCEPT ![r] = "looking"] /\ query' = [query EXCEPT ![r] = q]
        /\ todo' = [todo EXCEPT ![r] = DOMAIN doc_to_words_]
    BY <1>3 DEF Start, indexVars
  <2>2. \A p, ds : Found(p, ds)' = Found(p, ds)
    BY <2>1 DEF Found, HasAll, Entry, Counts, Recorded
  <2>3. \A p : Reference(p)' = Reference(p)
    BY <2>1 DEF Reference, Recorded
  <2>4. results[r] = {} /\ Found(q, DOMAIN doc_to_words_ \ DOMAIN doc_to_words_) = {}
    BY <2>1 DEF AnswerInv, LookInv, Found
  <2>5. /\ pc'[r] = "looking" /\ query'[r] = q /\ todo'[r] = DOMAIN doc_to_words_
        /\ \A x \in Readers \ {r} : pc'[x] = pc[x] /\ query'[x] = query[x] /\ todo'[x] = todo[x]
    BY <1>0, <2>1
  <2>6. \A x \in Readers :
          results[x] = IF pc'[x] = "looking"
                       THEN Found(query'[x], DOMAIN doc_to_words_ \ todo'[x]) ELSE {}
    BY <2>4, <2>5 DEF AnswerInv, LookInv
  <2>7. LookInv'
    BY <1>0, <2>1, <2>2, <2>6 DEF LookInv, IsMap
  <2>8. AnswerRight'
    BY <2>1, <2>3, <2>5 DEF AnswerInv, AnswerRight
  <2> QED
    BY <2>7, <2>8
<1>4. ASSUME NEW r \in Readers, NEW d \in Docs, Visit(r, d) PROVE LookInv' /\ AnswerRight'
  BY <1>4, VisitAnswer
<1>5. ASSUME NEW r \in Readers, Finish(r) PROVE LookInv' /\ AnswerRight'
  BY <1>5, FinishAnswer
<1>6. ASSUME NEW r \in Readers, Consume(r) PROVE LookInv' /\ AnswerRight'
  <2>1. /\ UNCHANGED <<doc_to_words_, recorded, todo, results>> /\ pc[r] = "done"
        /\ pc' = [pc EXCEPT ![r] = "idle"] /\ query' = [query EXCEPT ![r] = <<>>]
        /\ answer' = [answer EXCEPT ![r] = <<>>]
    BY <1>6 DEF Consume, indexVars
  <2>2. pc'[r] = "idle" /\ results[r] = {}
    BY <1>0, <2>1 DEF AnswerInv, LookInv
  <2>3. /\ IsMap(results') /\ DOMAIN results' = Readers
        /\ IsMap(answer') /\ DOMAIN answer' = Readers
        /\ \A x \in Readers \ {r} : /\ results'[x] = results[x] /\ answer'[x] = answer[x]
                                    /\ pc'[x] = pc[x] /\ query'[x] = query[x]
    BY <1>0, <2>1 DEF IsMap
  <2> QED
    BY <2>1, <2>2, <2>3, OthersKept
<1>7. CASE UNCHANGED vars
  <2>1. UNCHANGED <<doc_to_words_, recorded, todo, results, pc, query, answer>>
    BY <1>7 DEF vars, indexVars, readerVars
  <2>2. \A p, ds : Found(p, ds)' = Found(p, ds)
    BY <2>1 DEF Found, HasAll, Entry, Counts, Recorded
  <2>3. \A p : Reference(p)' = Reference(p)
    BY <2>1 DEF Reference, Recorded
  <2>4. LookInv'
    BY <2>1, <2>2 DEF AnswerInv, LookInv, IsMap
  <2>5. AnswerRight'
    BY <2>1, <2>3 DEF AnswerInv, AnswerRight
  <2> QED
    BY <2>4, <2>5
<1> QED
  BY <1>1, <1>2, <1>3, <1>4, <1>5, <1>6, <1>7 DEF Next, lookup_query

\* lookup_query and lookup_word return the reference answer, best first, however
\* many threads look things up at once (WordIndex.hpp:46-66).
THEOREM AnswersRight ==
  Spec => []AnswerRight
<1>1. Init => AnswerInv
  <2>1. Init => LookInv
    BY DEF Init, LookInv, IsMap
  <2>2. Init => AnswerRight
    BY DEF Init, AnswerRight
  <2> QED
    BY <2>1, <2>2, InitIndexInv DEF AnswerInv
<1>2. AnswerInv => AnswerRight
  BY DEF AnswerInv
<1> QED
  BY <1>1, <1>2, NextAnswerInv, PTL DEF Spec
=============================================================================
