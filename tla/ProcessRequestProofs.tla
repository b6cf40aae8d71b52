------------------------ MODULE ProcessRequestProofs ------------------------
(***************************************************************************)
(* Proofs about ProcessRequest for any documents, texts, URIs and symbols: *)
(* the string functions do what they should to strings of every length,    *)
(* and what a user is shown is right; is_path_safe is, in any file system. *)
(***************************************************************************)
EXTENDS PathSafety, Induction, SequenceTheorems

-----------------------------------------------------------------------------
(***************************************************************************)
(* FlattenSeq, which is defined by recursion.                              *)
(***************************************************************************)

\* g[i] is the concatenation of the first i sequences of ss.
Flattens(g, ss) ==
  g = [i \in 1 .. Len(ss) |-> IF i = 1 THEN ss[i] ELSE g[i - 1] \o ss[i]]

LEMMA FlattenIsChosen ==
  ASSUME NEW ss
  PROVE  FlattenSeq(ss) = IF Len(ss) = 0 THEN ss ELSE (CHOOSE g : Flattens(g, ss))[Len(ss)]
BY DEF FlattenSeq, Flattens

LEMMA SomethingFlattens ==
  ASSUME NEW T, NEW ss \in Seq(Seq(T))
  PROVE  \E g : Flattens(g, ss)
<1> DEFINE D == 1 .. Len(ss)
           Value(g, i) == IF i = 1 THEN ss[i] ELSE g[i - 1] \o ss[i]
           UpTo(m) == \E g : g = [i \in D |-> g[i]] /\ \A i \in D : i <= m => g[i] = Value(g, i)
           S == {m \in Nat : UpTo(m)}
<1>0. Len(ss) \in Nat
  OBVIOUS
<1>1. 0 \in S
  <2> DEFINE g == [i \in D |-> <<>>]
  <2>1. g = [i \in D |-> g[i]] /\ \A i \in D : ~(i <= 0)
    BY <1>0
  <2> HIDE DEF g, Value, D
  <2>2. UpTo(0)
    BY <2>1
  <2> QED
    BY <2>2
<1>2. ASSUME NEW m \in Nat, m \in S PROVE m + 1 \in S
  <2>1. PICK g : g = [i \in D |-> g[i]] /\ \A i \in D : i <= m => g[i] = Value(g, i)
    BY <1>2
  <2> DEFINE h == [i \in D |-> Value(g, i)]
  <2>2. h = [i \in D |-> h[i]]
    OBVIOUS
  <2>3. ASSUME NEW i \in D, i <= m + 1 PROVE h[i] = Value(h, i)
    <3>1. h[i] = Value(g, i)
      OBVIOUS
    <3>2. CASE i = 1
      BY <3>1, <3>2
    <3>3. CASE i # 1
      <4>1. i - 1 \in D /\ i - 1 <= m
        BY <1>0, <2>3, <3>3
      <4>2. h[i - 1] = g[i - 1]
        BY <2>1, <4>1
      <4> QED
        BY <3>1, <3>3, <4>2
    <3> QED
      BY <3>2, <3>3
  <2> HIDE DEF h, Value, D
  <2>4. UpTo(m + 1)
    BY <2>2, <2>3
  <2> QED
    BY <1>2, <2>4
<1> HIDE DEF S, UpTo
<1>3. Len(ss) \in S
  BY <1>0, <1>1, <1>2, AllNumbers, Zenon
<1>4. PICK g : g = [i \in D |-> g[i]] /\ \A i \in D : i <= Len(ss) => g[i] = Value(g, i)
  BY <1>3 DEF S, UpTo
<1>5. \A i \in D : g[i] = Value(g, i)
  <2>1. \A i \in D : i <= Len(ss)
    BY <1>0
  <2> QED
    BY <1>4, <2>1
<1> HIDE DEF D, Value
<1>6. g = [i \in D |-> Value(g, i)]
  BY <1>4, <1>5
<1> QED
  BY <1>6, Zenon DEF Flattens, D, Value

\* The concatenations of the first sequences, from none to all.
LEMMA FlattenPrefixes ==
  ASSUME NEW T, NEW ss \in Seq(Seq(T))
  PROVE  \E g \in [0 .. Len(ss) -> Seq(T)] :
           /\ g[0] = <<>> /\ \A i \in 1 .. Len(ss) : g[i] = g[i - 1] \o ss[i]
           /\ FlattenSeq(ss) = g[Len(ss)]
<1> DEFINE n == Len(ss)
           f == CHOOSE h : Flattens(h, ss)
           g == [i \in 0 .. n |-> IF i = 0 THEN <<>> ELSE f[i]]
           S == {m \in Nat : m <= n => g[m] \in Seq(T)}
<1>0. n \in Nat /\ \A i \in 1 .. n : ss[i] \in Seq(T)
  OBVIOUS
<1>1. Flattens(f, ss)
  BY SomethingFlattens
<1> HIDE DEF f
<1>2. \A i \in 1 .. n : f[i] = IF i = 1 THEN ss[i] ELSE f[i - 1] \o ss[i]
  BY <1>1 DEF Flattens
<1>3. g[0] = <<>> /\ \A i \in 1 .. n : g[i] = f[i]
  BY <1>0
<1>4. ASSUME NEW i \in 1 .. n PROVE g[i] = g[i - 1] \o ss[i]
  <2>1. CASE i = 1
    BY <1>0, <1>2, <1>3, <2>1
  <2>2. CASE i # 1
    <3>1. i - 1 \in 1 .. n
      BY <1>0, <2>2
    <3> QED
      BY <1>2, <1>3, <2>2, <3>1
  <2> QED
    BY <2>1, <2>2
<1>5. DOMAIN g = 0 .. n
  OBVIOUS
<1>6. g = [i \in 0 .. n |-> g[i]]
  OBVIOUS
<1> HIDE DEF g, n
<1>7. 0 \in S
  <2>1. <<>> \in Seq(T)
    OBVIOUS
  <2> QED
    BY <1>3, <2>1
<1>8. ASSUME NEW m \in Nat, m \in S PROVE m + 1 \in S
  <2>1. CASE m + 1 <= n
    <3>1. m <= n /\ m + 1 \in 1 .. n /\ (m + 1) - 1 = m
      BY <1>0, <2>1
    <3>2. g[m] \in Seq(T) /\ ss[m + 1] \in Seq(T) /\ g[m + 1] = g[m] \o ss[m + 1]
      BY <1>0, <1>4, <1>8, <3>1
    <3>3. g[m + 1] \in Seq(T)
      BY <3>2, ConcatProperties
    <3> QED
      BY <3>3
  <2>2. CASE ~(m + 1 <= n)
    BY <2>2
  <2> QED
    BY <2>1, <2>2
<1> HIDE DEF S
<1>9. \A m \in Nat : m \in S
  BY <1>7, <1>8, AllNumbers, Zenon
<1>10. \A i \in 0 .. n : g[i] \in Seq(T)
  BY <1>0, <1>9 DEF S
<1>11. g \in [0 .. n -> Seq(T)]
  BY <1>6, <1>10
<1>12. FlattenSeq(ss) = g[n]
  <2>1. CASE n = 0
    <3>1. ss = <<>>
      BY <2>1 DEF n
    <3>2. FlattenSeq(ss) = ss
      BY <2>1, FlattenIsChosen DEF n
    <3> QED
      BY <1>3, <2>1, <3>1, <3>2
  <2>2. CASE n # 0
    <3>1. FlattenSeq(ss) = f[n]
      BY <2>2, FlattenIsChosen DEF n, f
    <3>2. n \in 1 .. n
      BY <1>0, <2>2
    <3> QED
      BY <1>3, <3>1, <3>2
  <2> QED
    BY <2>1, <2>2
<1> QED
  BY <1>3, <1>4, <1>11, <1>12 DEF n

\* Two such functions are the same.
LEMMA FlattenIs ==
  ASSUME NEW T, NEW ss \in Seq(Seq(T)), NEW h, h[0] = <<>>,
         \A i \in 1 .. Len(ss) : h[i] = h[i - 1] \o ss[i]
  PROVE  FlattenSeq(ss) = h[Len(ss)]
<1>1. PICK g \in [0 .. Len(ss) -> Seq(T)] :
           /\ g[0] = <<>> /\ \A i \in 1 .. Len(ss) : g[i] = g[i - 1] \o ss[i]
           /\ FlattenSeq(ss) = g[Len(ss)]
  BY FlattenPrefixes
<1> DEFINE n == Len(ss)
           S == {m \in Nat : m <= n => g[m] = h[m]}
<1>0. n \in Nat
  OBVIOUS
<1>6. \A i \in 1 .. n : g[i] = g[i - 1] \o ss[i] /\ h[i] = h[i - 1] \o ss[i]
  BY <1>1
<1> HIDE DEF n
<1>2. 0 \in S
  BY <1>1
<1>3. ASSUME NEW m \in Nat, m \in S PROVE m + 1 \in S
  <2>1. CASE m + 1 <= n
    <3>1. m <= n /\ m + 1 \in 1 .. n /\ (m + 1) - 1 = m
      BY <1>0, <2>1
    <3>2. g[m + 1] = g[m] \o ss[m + 1] /\ h[m + 1] = h[m] \o ss[m + 1]
      BY <1>6, <3>1
    <3>3. g[m] = h[m]
      BY <1>3, <3>1
    <3>4. g[m + 1] = h[m + 1]
      BY <3>2, <3>3
    <3> QED
      BY <3>4
  <2>2. CASE ~(m + 1 <= n)
    BY <2>2
  <2> QED
    BY <2>1, <2>2
<1> HIDE DEF S
<1>4. n \in S
  BY <1>0, <1>2, <1>3, AllNumbers, Zenon
<1>5. g[n] = h[n]
  BY <1>0, <1>4 DEF S
<1> QED
  BY <1>1, <1>5 DEF n

LEMMA FlattenType ==
  ASSUME NEW T, NEW ss \in Seq(Seq(T))
  PROVE  FlattenSeq(ss) \in Seq(T)
<1>1. PICK g \in [0 .. Len(ss) -> Seq(T)] : FlattenSeq(ss) = g[Len(ss)]
  BY FlattenPrefixes
<1>2. Len(ss) \in 0 .. Len(ss)
  BY LenProperties
<1> QED
  BY <1>1, <1>2

LEMMA FlattenAppend ==
  ASSUME NEW T, NEW ss \in Seq(Seq(T)), NEW x \in Seq(T)
  PROVE  FlattenSeq(Append(ss, x)) = FlattenSeq(ss) \o x
<1> DEFINE n == Len(ss)
           tt == Append(ss, x)
<1>1. PICK g \in [0 .. n -> Seq(T)] :
           /\ g[0] = <<>> /\ \A i \in 1 .. n : g[i] = g[i - 1] \o ss[i]
           /\ FlattenSeq(ss) = g[n]
  BY FlattenPrefixes
<1> DEFINE h == [i \in 0 .. n + 1 |-> IF i <= n THEN g[i] ELSE g[n] \o x]
<1>2. n \in Nat /\ tt \in Seq(Seq(T)) /\ Len(tt) = n + 1 /\ tt[n + 1] = x
      /\ \A i \in 1 .. n : tt[i] = ss[i]
  OBVIOUS
<1> HIDE DEF tt, n
<1>3. h[0] = <<>>
  BY <1>1, <1>2
<1>4. ASSUME NEW i \in 1 .. Len(tt) PROVE h[i] = h[i - 1] \o tt[i]
  <2>1. CASE i <= n
    <3>1. i \in 1 .. n /\ i - 1 <= n /\ i \in 0 .. n + 1 /\ i - 1 \in 0 .. n + 1
      BY <1>2, <2>1
    <3>2. h[i] = g[i] /\ h[i - 1] = g[i - 1]
      BY <2>1, <3>1
    <3> QED
      BY <1>1, <1>2, <3>1, <3>2
  <2>2. CASE i = n + 1
    <3>1. i - 1 = n /\ n \in 0 .. n + 1 /\ n + 1 \in 0 .. n + 1 /\ ~(n + 1 <= n)
      BY <1>2, <2>2
    <3>2. h[n + 1] = g[n] \o x /\ h[n] = g[n]
      BY <1>2, <3>1
    <3> QED
      BY <1>2, <2>2, <3>1, <3>2
  <2>3. i <= n \/ i = n + 1
    BY <1>2
  <2> QED
    BY <2>1, <2>2, <2>3
<1>5. h[Len(tt)] = g[n] \o x
  BY <1>2
<1> HIDE DEF h
<1>6. FlattenSeq(tt) = h[Len(tt)]
  BY <1>2, <1>3, <1>4, FlattenIs
<1> QED
  BY <1>1, <1>5, <1>6 DEF tt

LEMMA EmptyFlattens ==
  FlattenSeq(<<>>) = <<>>
BY FlattenIsChosen

\* A string with every symbol replaced by a string.
Mapped(f, s) == FlattenSeq([k \in DOMAIN s |-> f[s[k]]])

LEMMA MappedEmpty ==
  \A f : Mapped(f, <<>>) = <<>>
<1> SUFFICES ASSUME NEW f PROVE Mapped(f, <<>>) = <<>>
  OBVIOUS
<1>1. [k \in DOMAIN <<>> |-> f[(<<>>)[k]]] = <<>>
  OBVIOUS
<1> QED
  BY <1>1, EmptyFlattens DEF Mapped

LEMMA MappedType ==
  ASSUME NEW S, NEW T, NEW f \in [S -> Seq(T)], NEW s \in Seq(S)
  PROVE  Mapped(f, s) \in Seq(T)
<1> DEFINE ss == [k \in DOMAIN s |-> f[s[k]]]
<1>1. DOMAIN s = 1 .. Len(s) /\ Len(s) \in Nat /\ \A k \in 1 .. Len(s) : f[s[k]] \in Seq(T)
  OBVIOUS
<1>2. ss \in Seq(Seq(T))
  BY <1>1
<1> HIDE DEF ss
<1>3. FlattenSeq(ss) \in Seq(T)
  BY <1>2, FlattenType
<1> QED
  BY <1>3 DEF Mapped, ss

MapsNext(f, s, c) == Mapped(f, s \o <<c>>) = Mapped(f, s) \o f[c]

LEMMA MappedAppend ==
  ASSUME NEW S, NEW T, NEW f \in [S -> Seq(T)], NEW s \in Seq(S), NEW c \in S
  PROVE  MapsNext(f, s, c)
<1> DEFINE n == Len(s)
           t == Append(s, c)
           ss == [k \in DOMAIN s |-> f[s[k]]]
           tt == [k \in DOMAIN t |-> f[t[k]]]
           x == f[c]
<1>1. /\ n \in Nat /\ DOMAIN s = 1 .. n /\ \A k \in 1 .. n : f[s[k]] \in Seq(T)
      /\ x \in Seq(T)
  OBVIOUS
<1>2. ss \in Seq(Seq(T)) /\ Len(ss) = n /\ \A k \in 1 .. n : ss[k] = f[s[k]]
  BY <1>1
<1>3. DOMAIN t = 1 .. n + 1 /\ t[n + 1] = c /\ \A k \in 1 .. n : t[k] = s[k]
  OBVIOUS
<1>4. DOMAIN tt = 1 .. n + 1 /\ tt = [k \in 1 .. n + 1 |-> tt[k]]
  BY <1>3
<1>5. (\A k \in 1 .. n : tt[k] = ss[k]) /\ tt[n + 1] = x
  BY <1>1, <1>2, <1>3
<1>6. t = s \o <<c>>
  BY AppendIsConcat
<1> HIDE DEF n, ss, tt, t, x
<1>7. /\ Len(Append(ss, x)) = n + 1 /\ Append(ss, x) \in Seq(Seq(T))
      /\ (\A k \in 1 .. n : Append(ss, x)[k] = ss[k]) /\ Append(ss, x)[n + 1] = x
  BY <1>1, <1>2, AppendProperties
<1>8. Append(ss, x) = [k \in 1 .. n + 1 |-> Append(ss, x)[k]]
  <2> DEFINE a == Append(ss, x)
  <2>1. a \in Seq(Seq(T)) /\ Len(a) = n + 1
    BY <1>7
  <2> HIDE DEF a
  <2>2. a = [k \in 1 .. n + 1 |-> a[k]]
    BY <2>1
  <2> QED
    BY <2>2 DEF a
<1>9. \A k \in 1 .. n + 1 : tt[k] = Append(ss, x)[k]
  <2>1. \A k \in 1 .. n + 1 : k \in 1 .. n \/ k = n + 1
    BY <1>1
  <2> QED
    BY <1>5, <1>7, <2>1
<1>10. tt = Append(ss, x)
  BY <1>4, <1>8, <1>9
<1>11. FlattenSeq(Append(ss, x)) = FlattenSeq(ss) \o x
  BY <1>1, <1>2, FlattenAppend
<1>12. Mapped(f, t) = Mapped(f, s) \o x
  BY <1>10, <1>11 DEF Mapped, ss, tt
<1> QED
  BY <1>6, <1>12 DEF MapsNext, x

-----------------------------------------------------------------------------
(***************************************************************************)
(* Escaping: what escape_html does to one more character.                  *)
(***************************************************************************)
Entities == {"&", "amp;", "gt;", "lt;", "apos;", "quot;"}

\* What replace_all does to each symbol.
Replacing(S, char, by) == [c \in S |-> IF c = char THEN by ELSE <<c>>]

LEMMA ReplaceIsMapped ==
  ASSUME NEW S, NEW s \in Seq(S), NEW char, NEW by
  PROVE  Replace(s, char, by) = Mapped(Replacing(S, char, by), s)
<1>1. \A k \in DOMAIN s : s[k] \in S
  OBVIOUS
<1> QED
  BY <1>1 DEF Replace, Mapped, Replacing

LEMMA ReplaceType ==
  ASSUME NEW S, NEW s \in Seq(S), NEW char, NEW by \in Seq(S)
  PROVE  Replace(s, char, by) \in Seq(S)
<1>1. Replacing(S, char, by) \in [S -> Seq(S)]
  BY DEF Replacing
<1> QED
  BY <1>1, ReplaceIsMapped, MappedType

\* Replacing turns x at the end of a string into y.
Turns(s, x, char, by, y) == Replace(s \o x, char, by) = Replace(s, char, by) \o y

LEMMA ReplaceAppend ==
  ASSUME NEW S, NEW s \in Seq(S), NEW c \in S, NEW char, NEW by \in Seq(S)
  PROVE  Turns(s, <<c>>, char, by, IF c = char THEN by ELSE <<c>>)
<1> DEFINE f == Replacing(S, char, by)
           t == s \o <<c>>
<1>1. f \in [S -> Seq(S)] /\ f[c] = IF c = char THEN by ELSE <<c>>
  BY DEF Replacing
<1>2. t \in Seq(S)
  OBVIOUS
<1> HIDE DEF f, t
<1>3. MapsNext(f, s, c)
  BY <1>1, MappedAppend
<1>4. Replace(s, char, by) = Mapped(f, s)
  BY ReplaceIsMapped DEF f
<1>5. Replace(t, char, by) = Mapped(f, t)
  BY <1>2, ReplaceIsMapped DEF f
<1> QED
  BY <1>1, <1>3, <1>4, <1>5 DEF Turns, MapsNext, t

LEMMA ReplacesOne ==
  ASSUME NEW S, NEW char, NEW by \in Seq(S), NEW s \in Seq(S), NEW c \in S, c = char
  PROVE  Turns(s, <<c>>, char, by, by)
<1>1. Turns(s, <<c>>, char, by, IF c = char THEN by ELSE <<c>>)
  BY ReplaceAppend
<1> QED
  BY <1>1

\* What is not searched for stays as it is.
LEMMA KeepsOne ==
  ASSUME NEW S, NEW char, NEW by \in Seq(S), NEW s \in Seq(S), NEW c \in S, c # char
  PROVE  Turns(s, <<c>>, char, by, <<c>>)
<1>1. Turns(s, <<c>>, char, by, IF c = char THEN by ELSE <<c>>)
  BY ReplaceAppend
<1> QED
  BY <1>1

Associates(s, t, u) == (s \o t) \o u = s \o (t \o u)

LEMMA Concat ==
  ASSUME NEW S
  PROVE  \A s, t, u \in Seq(S) : Associates(s, t, u)
BY ConcatAssociative DEF Associates

LEMMA PairsEqual ==
  ASSUME NEW S, NEW s \in Seq(S), NEW t \in Seq(S),
         Len(s) = 2, Len(t) = 2, s[1] = t[1], s[2] = t[2]
  PROVE  s = t
<1>1. Len(s) = Len(t)
  OBVIOUS
<1>2. \A i \in 1 .. Len(s) : s[i] = t[i]
  <2>1. \A i \in 1 .. Len(s) : i = 1 \/ i = 2
    OBVIOUS
  <2> QED
    BY <2>1, Zenon
<1> QED
  BY <1>1, <1>2, SeqEqual, Zenon

LEMMA ConcatPair ==
  ASSUME NEW S, NEW s \in Seq(S), NEW c \in S, NEW d \in S
  PROVE  s \o <<c, d>> = (s \o <<c>>) \o <<d>>
<1> DEFINE a == <<c>>
           b == <<d>>
           ab == <<c, d>>
<1>1. a \in Seq(S) /\ b \in Seq(S) /\ Len(a) = 1 /\ Len(b) = 1 /\ a[1] = c /\ b[1] = d
  OBVIOUS
<1>2. ab \in Seq(S) /\ Len(ab) = 2 /\ ab[1] = c /\ ab[2] = d
  OBVIOUS
<1> HIDE DEF a, b, ab
<1>3. a \o b \in Seq(S) /\ Len(a \o b) = 2 /\ (a \o b)[1] = c /\ (a \o b)[2] = d
  <2>1. /\ a \o b \in Seq(S) /\ Len(a \o b) = Len(a) + Len(b)
        /\ \A i \in 1 .. Len(a) + Len(b) :
             (a \o b)[i] = IF i <= Len(a) THEN a[i] ELSE b[i - Len(a)]
    BY <1>1, ConcatProperties
  <2> QED
    BY <1>1, <2>1
<1>4. a \o b = ab
  <2>1. (a \o b)[1] = ab[1] /\ (a \o b)[2] = ab[2]
    BY <1>2, <1>3, Zenon
  <2> QED
    BY <1>2, <1>3, <2>1, PairsEqual, Zenon
<1>6. Associates(s, a, b)
  BY <1>1, Concat, Zenon
<1>5. (s \o a) \o b = s \o (a \o b)
  BY <1>6 DEF Associates
<1> QED
  BY <1>4, <1>5 DEF a, b, ab

LEMMA KeepsTwo ==
  ASSUME NEW S, NEW char, NEW by \in Seq(S),
         NEW s \in Seq(S), NEW c \in S, NEW d \in S, c # char, d # char
  PROVE  Turns(s, <<c, d>>, char, by, <<c, d>>)
<1> DEFINE u == s \o <<c>>
           v == Replace(s, char, by)
<1>1. s \o <<c, d>> = u \o <<d>>
  BY ConcatPair
<1>2. u \in Seq(S)
  OBVIOUS
<1>3. v \in Seq(S)
  BY ReplaceType
<1>4. Turns(s, <<c>>, char, by, <<c>>)
  BY KeepsOne
<1>5. Replace(u, char, by) = v \o <<c>>
  BY <1>4 DEF Turns
<1> HIDE DEF u, v
<1>6. v \o <<c, d>> = (v \o <<c>>) \o <<d>>
  BY <1>3, ConcatPair
<1>7. Turns(u, <<d>>, char, by, <<d>>)
  BY <1>2, KeepsOne
<1> QED
  BY <1>1, <1>5, <1>6, <1>7 DEF Turns, v

\* The four replacements after that of the ampersand, one after the other.
Gt   == <<"&", "gt;">>
Lt   == <<"&", "lt;">>
Apos == <<"&", "apos;">>
Quot == <<"&", "quot;">>
Gts(s)   == Replace(s, ">", Gt)
Lts(s)   == Replace(Gts(s), "<", Lt)
Aposs(s) == Replace(Lts(s), "'", Apos)

LEMMA QuotesStages ==
  \A s : Quotes(s) = Replace(Aposs(s), "\"", Quot)
BY DEF Quotes, Gts, Lts, Aposs, Gt, Lt, Apos, Quot

LEMMA QuotesTypes ==
  ASSUME NEW S, Entities \subseteq S, NEW s \in Seq(S)
  PROVE  /\ Gt \in Seq(S) /\ Lt \in Seq(S) /\ Apos \in Seq(S) /\ Quot \in Seq(S)
         /\ Gts(s) \in Seq(S) /\ Lts(s) \in Seq(S) /\ Aposs(s) \in Seq(S) /\ Quotes(s) \in Seq(S)
<1>1. Gt \in Seq(S) /\ Lt \in Seq(S) /\ Apos \in Seq(S) /\ Quot \in Seq(S)
  <2>1. "&" \in S /\ "gt;" \in S /\ "lt;" \in S /\ "apos;" \in S /\ "quot;" \in S
    BY DEF Entities
  <2>2. \A c, d \in S : <<c, d>> \in Seq(S)
    OBVIOUS
  <2> QED
    BY <2>1, <2>2 DEF Gt, Lt, Apos, Quot
<1>2. Gts(s) \in Seq(S)
  BY <1>1, ReplaceType DEF Gts
<1>3. Lts(s) \in Seq(S)
  BY <1>1, <1>2, ReplaceType DEF Lts
<1>4. Aposs(s) \in Seq(S)
  BY <1>1, <1>3, ReplaceType DEF Aposs
<1>5. Quotes(s) \in Seq(S)
  BY <1>1, <1>4, ReplaceType, QuotesStages
<1> QED
  BY <1>1, <1>2, <1>3, <1>4, <1>5

\* What the four make of w at the end of a string, step by step.
QuotesTurns(s, w, e) == Quotes(s \o w) = Quotes(s) \o e

LEMMA QuotesChain ==
  ASSUME NEW s, NEW w, NEW x, NEW y, NEW z, NEW e,
         Turns(s, w, ">", Gt, x), Turns(Gts(s), x, "<", Lt, y),
         Turns(Lts(s), y, "'", Apos, z), Turns(Aposs(s), z, "\"", Quot, e)
  PROVE  QuotesTurns(s, w, e)
<1>1. Gts(s \o w) = Gts(s) \o x
  BY DEF Turns, Gts
<1>2. Lts(s \o w) = Lts(s) \o y
  BY <1>1 DEF Turns, Lts
<1>3. Aposs(s \o w) = Aposs(s) \o z
  BY <1>2 DEF Turns, Aposs
<1> QED
  BY <1>3, QuotesStages DEF Turns, QuotesTurns

LEMMA QuotesEntity ==
  ASSUME NEW S, Entities \subseteq S, NEW s \in Seq(S), NEW c \in S, NEW d \in S,
         {c, d} \cap {">", "<", "'", "\""} = {}
  PROVE  QuotesTurns(s, <<c, d>>, <<c, d>>)
<1>1. Gt \in Seq(S) /\ Lt \in Seq(S) /\ Apos \in Seq(S) /\ Quot \in Seq(S)
  BY QuotesTypes
<1>2. Gts(s) \in Seq(S) /\ Lts(s) \in Seq(S) /\ Aposs(s) \in Seq(S)
  BY QuotesTypes
<1>3. Turns(s, <<c, d>>, ">", Gt, <<c, d>>)
  BY <1>1, KeepsTwo
<1>4. Turns(Gts(s), <<c, d>>, "<", Lt, <<c, d>>)
  BY <1>1, <1>2, KeepsTwo
<1>5. Turns(Lts(s), <<c, d>>, "'", Apos, <<c, d>>)
  BY <1>1, <1>2, KeepsTwo
<1>6. Turns(Aposs(s), <<c, d>>, "\"", Quot, <<c, d>>)
  BY <1>1, <1>2, KeepsTwo
<1> QED
  BY <1>3, <1>4, <1>5, <1>6, QuotesChain

LEMMA QuotesChar ==
  ASSUME NEW S, Entities \subseteq S, NEW s \in Seq(S), NEW c \in S, c # "&"
  PROVE  QuotesTurns(s, <<c>>, EscapedChar(c))
<1>0. {"&", "gt;", "lt;", "apos;", "quot;"} \subseteq S
  BY DEF Entities
<1>1. Gt \in Seq(S) /\ Lt \in Seq(S) /\ Apos \in Seq(S) /\ Quot \in Seq(S)
  BY QuotesTypes
<1>2. Gts(s) \in Seq(S) /\ Lts(s) \in Seq(S) /\ Aposs(s) \in Seq(S)
  BY QuotesTypes
<1>3. CASE c = ">"
  <2>1. Turns(s, <<c>>, ">", Gt, Gt)
    BY <1>1, <1>3, ReplacesOne
  <2>2. Turns(Gts(s), Gt, "<", Lt, Gt) /\ Turns(Lts(s), Gt, "'", Apos, Gt)
        /\ Turns(Aposs(s), Gt, "\"", Quot, Gt)
    BY <1>0, <1>1, <1>2, KeepsTwo DEF Gt
  <2>3. EscapedChar(c) = Gt
    BY <1>3 DEF EscapedChar, Gt
  <2> QED
    BY <2>1, <2>2, <2>3, QuotesChain
<1>4. CASE c = "<"
  <2>1. Turns(s, <<c>>, ">", Gt, <<c>>)
    BY <1>1, <1>4, KeepsOne
  <2>2. Turns(Gts(s), <<c>>, "<", Lt, Lt)
    BY <1>1, <1>2, <1>4, ReplacesOne
  <2>3. Turns(Lts(s), Lt, "'", Apos, Lt) /\ Turns(Aposs(s), Lt, "\"", Quot, Lt)
    BY <1>0, <1>1, <1>2, KeepsTwo DEF Lt
  <2>4. EscapedChar(c) = Lt
    BY <1>4 DEF EscapedChar, Lt
  <2> QED
    BY <2>1, <2>2, <2>3, <2>4, QuotesChain
<1>5. CASE c = "'"
  <2>1. Turns(s, <<c>>, ">", Gt, <<c>>) /\ Turns(Gts(s), <<c>>, "<", Lt, <<c>>)
    BY <1>1, <1>2, <1>5, KeepsOne
  <2>2. Turns(Lts(s), <<c>>, "'", Apos, Apos)
    BY <1>1, <1>2, <1>5, ReplacesOne
  <2>3. Turns(Aposs(s), Apos, "\"", Quot, Apos)
    BY <1>0, <1>1, <1>2, KeepsTwo DEF Apos
  <2>4. EscapedChar(c) = Apos
    BY <1>5 DEF EscapedChar, Apos
  <2> QED
    BY <2>1, <2>2, <2>3, <2>4, QuotesChain
<1>6. CASE c \notin {">", "<", "'"}
  <2>1. Turns(s, <<c>>, ">", Gt, <<c>>) /\ Turns(Gts(s), <<c>>, "<", Lt, <<c>>)
        /\ Turns(Lts(s), <<c>>, "'", Apos, <<c>>)
    BY <1>1, <1>2, <1>6, KeepsOne
  <2>2. Turns(Aposs(s), <<c>>, "\"", Quot, EscapedChar(c))
    <3>1. CASE c = "\""
      <4>1. EscapedChar(c) = Quot
        BY <3>1 DEF EscapedChar, Quot
      <4> QED
        BY <1>1, <1>2, <3>1, <4>1, ReplacesOne
    <3>2. CASE c # "\""
      <4>1. EscapedChar(c) = <<c>>
        BY <1>6, <3>2 DEF EscapedChar
      <4> QED
        BY <1>1, <1>2, <3>2, <4>1, KeepsOne
    <3> QED
      BY <3>1, <3>2
  <2> QED
    BY <2>1, <2>2, QuotesChain
<1> QED
  BY <1>3, <1>4, <1>5, <1>6

\* escape_html goes over a string five times and escapes each of its characters
\* once.
EscapesNext(s, c) == escape_html(s \o <<c>>) = escape_html(s) \o EscapedChar(c)

LEMMA EscapeAppend ==
  ASSUME NEW S, Entities \subseteq S, NEW s \in Seq(S), NEW c \in S
  PROVE  EscapesNext(s, c)
<1> DEFINE r == Replace(s, "&", Amp)
<1>1. Amp \in Seq(S) /\ "&" \in S /\ "amp;" \in S
  <2>1. "&" \in S /\ "amp;" \in S
    BY DEF Entities
  <2>2. \A e, d \in S : <<e, d>> \in Seq(S)
    OBVIOUS
  <2> QED
    BY <2>1, <2>2 DEF Amp
<1>2. r \in Seq(S)
  BY <1>1, ReplaceType
<1> HIDE DEF r
<1>3. CASE c = "&"
  <2>1. Turns(s, <<c>>, "&", Amp, Amp)
    BY <1>1, <1>3, ReplacesOne
  <2>2. QuotesTurns(r, Amp, Amp)
    BY <1>1, <1>2, QuotesEntity DEF Amp
  <2>3. EscapedChar(c) = Amp
    BY <1>3 DEF EscapedChar
  <2> QED
    BY <2>1, <2>2, <2>3 DEF EscapesNext, escape_html, Turns, QuotesTurns, r
<1>4. CASE c # "&"
  <2>1. Turns(s, <<c>>, "&", Amp, <<c>>)
    BY <1>1, <1>4, KeepsOne
  <2>2. QuotesTurns(r, <<c>>, EscapedChar(c))
    BY <1>2, <1>4, QuotesChar
  <2> QED
    BY <2>1, <2>2 DEF EscapesNext, escape_html, Turns, QuotesTurns, r
<1> QED
  BY <1>3, <1>4

LEMMA EscapeEmpty ==
  escape_html(<<>>) = <<>>
<1>1. \A char, by : Replace(<<>>, char, by) = <<>>
  <2> SUFFICES ASSUME NEW char, NEW by PROVE Replace(<<>>, char, by) = <<>>
    OBVIOUS
  <2>1. <<>> \in Seq({})
    OBVIOUS
  <2>2. Replace(<<>>, char, by) = Mapped(Replacing({}, char, by), <<>>)
    BY <2>1, ReplaceIsMapped
  <2> QED
    BY <2>2, MappedEmpty
<1> QED
  BY <1>1 DEF escape_html, Quotes

LEMMA EscapeExact ==
  ASSUME NEW S, Entities \subseteq S, NEW s \in Seq(S)
  PROVE  escape_html(s) = FlattenSeq([k \in DOMAIN s |-> EscapedChar(s[k])])
<1> DEFINE f == [c \in S |-> EscapedChar(c)]
           E == {n \in Nat : \A t \in Seq(S) : Len(t) = n => escape_html(t) = Mapped(f, t)}
<1>1. f \in [S -> Seq(S)]
  <2>1. "&" \in S /\ "amp;" \in S /\ "gt;" \in S /\ "lt;" \in S /\ "apos;" \in S /\ "quot;" \in S
    BY DEF Entities
  <2>2. \A c \in S : <<c>> \in Seq(S) /\ \A d \in S : <<c, d>> \in Seq(S)
    OBVIOUS
  <2>3. \A c \in S : EscapedChar(c) \in Seq(S)
    BY <2>1, <2>2 DEF EscapedChar, Amp
  <2> QED
    BY <2>3
<1>2. \A c \in S : f[c] = EscapedChar(c)
  OBVIOUS
<1>3. Mapped(f, s) = FlattenSeq([k \in DOMAIN s |-> EscapedChar(s[k])])
  <2>1. \A k \in DOMAIN s : s[k] \in S
    OBVIOUS
  <2> QED
    BY <2>1 DEF Mapped
<1> HIDE DEF f
<1>4. 0 \in E
  <2>1. \A t \in Seq(S) : Len(t) = 0 => t = <<>>
    OBVIOUS
  <2> QED
    BY <2>1, EscapeEmpty, MappedEmpty
<1>5. ASSUME NEW n \in Nat, n \in E PROVE n + 1 \in E
  <2> SUFFICES ASSUME NEW t \in Seq(S), Len(t) = n + 1
               PROVE  escape_html(t) = Mapped(f, t)
    OBVIOUS
  <2>1. PICK u \in Seq(S), c \in S : t = Append(u, c)
    <3>1. t # <<>>
      OBVIOUS
    <3> QED
      BY <3>1, SequenceEmptyOrAppend
  <2>2. Len(u) = n /\ t = u \o <<c>>
    BY <2>1
  <2>3. escape_html(u) = Mapped(f, u)
    BY <1>5, <2>2
  <2>4. EscapesNext(u, c) /\ MapsNext(f, u, c)
    BY <1>1, EscapeAppend, MappedAppend
  <2> QED
    BY <1>2, <2>2, <2>3, <2>4 DEF EscapesNext, MapsNext
<1> HIDE DEF E
<1>6. Len(s) \in Nat
  OBVIOUS
<1>7. Len(s) \in E
  BY <1>4, <1>5, <1>6, AllNumbers, Zenon
<1> QED
  BY <1>3, <1>7 DEF E

-----------------------------------------------------------------------------
(***************************************************************************)
(* Decoding, position by position.                                         *)
(***************************************************************************)

\* What decode_URI makes of the symbol it stands on, and how far it goes on.
Decoded(s, p) ==
  IF s[p] = "+" THEN <<" ">> ELSE IF IsEscape(s, p) THEN <<CharOf[Code(s, p)]>> ELSE <<s[p]>>
Jump(s, p) == IF IsEscape(s, p) THEN EscapeLength ELSE 1

\* g[p] is the decoded rest of s from p on.
Decodes(g, s) ==
  g = [p \in 1 .. Len(s) + EscapeLength |->
         IF p > Len(s) THEN <<>> ELSE Decoded(s, p) \o g[p + Jump(s, p)]]

\* The symbols that decoding can give are in S.
HoldsCodes(S) == " " \in S /\ \A c \in 32 .. 127 : CharOf[c] \in S

LEMMA EscapeFacts ==
  ASSUME NEW S, NEW s \in Seq(S), NEW p \in 1 .. Len(s), IsEscape(s, p)
  PROVE  /\ p + 2 <= Len(s) /\ s[p] = "%"
         /\ s[p + 1] \in DOMAIN Hex /\ s[p + 2] \in DOMAIN Hex
         /\ Code(s, p) \in 32 .. 127
<1>1. " " \notin DOMAIN Hex
  BY DEF Hex
<1>2. Len(s) \in Nat
  OBVIOUS
<1>3. /\ s[p] = "%" /\ Code(s, p) \in 32 .. 127
      /\ Look(s, p + 1) \in DOMAIN Hex /\ Look(s, p + 2) \in DOMAIN Hex
  BY DEF IsEscape
<1>4. p + 1 <= Len(s) /\ p + 2 <= Len(s)
  BY <1>1, <1>3 DEF Look
<1> QED
  BY <1>3, <1>4 DEF Look

LEMMA DecodeIsChosen ==
  ASSUME NEW s
  PROVE  decode_URI(s) = (CHOOSE g : Decodes(g, s))[1]
<1>1. \A p : s[p] = "+" => ~IsEscape(s, p)
  BY DEF IsEscape
<1> QED
  BY <1>1 DEF decode_URI, Decodes, Decoded, Jump

LEMMA SomethingDecodes ==
  ASSUME NEW S, NEW s \in Seq(S)
  PROVE  \E g : Decodes(g, s)
<1> DEFINE n == Len(s)
           D == 1 .. n + EscapeLength
           Value(g, p) == IF p > n THEN <<>> ELSE Decoded(s, p) \o g[p + Jump(s, p)]
           From(m) == \E g : g = [p \in D |-> g[p]] /\ \A p \in D : p + m > n => g[p] = Value(g, p)
           E == {m \in Nat : From(m)}
<1>0. n \in Nat /\ \A p \in Nat : Jump(s, p) \in {1, 3} /\ EscapeLength = 3
  BY DEF Jump, EscapeLength
<1>1. 0 \in E
  <2> DEFINE g == [p \in D |-> <<>>]
  <2>1. g = [p \in D |-> g[p]] /\ \A p \in D : p + 0 > n => p > n
    BY <1>0
  <2>2. \A p \in D : p + 0 > n => g[p] = Value(g, p)
    BY <2>1
  <2> HIDE DEF g, Value, D
  <2>3. From(0)
    BY <2>1, <2>2
  <2> QED
    BY <2>3
<1>2. ASSUME NEW m \in Nat, m \in E PROVE m + 1 \in E
  <2>1. PICK g : g = [p \in D |-> g[p]] /\ \A p \in D : p + m > n => g[p] = Value(g, p)
    BY <1>2
  <2> DEFINE h == [p \in D |-> Value(g, p)]
  <2>2. h = [p \in D |-> h[p]]
    OBVIOUS
  <2>3. ASSUME NEW p \in D, p + (m + 1) > n PROVE h[p] = Value(h, p)
    <3>1. h[p] = Value(g, p)
      OBVIOUS
    <3>2. CASE p > n
      BY <3>1, <3>2
    <3>3. CASE ~(p > n)
      <4> DEFINE q == p + Jump(s, p)
      <4>1. q \in D /\ q + m > n
        BY <1>0, <2>3, <3>3
      <4>2. h[q] = g[q]
        BY <2>1, <4>1
      <4> QED
        BY <3>1, <3>3, <4>2
    <3> QED
      BY <3>2, <3>3
  <2> HIDE DEF h, Value, D
  <2>4. From(m + 1)
    BY <2>2, <2>3
  <2> QED
    BY <1>2, <2>4
<1> HIDE DEF E, From
<1>3. n \in E
  BY <1>0, <1>1, <1>2, AllNumbers, Zenon
<1>4. PICK g : g = [p \in D |-> g[p]] /\ \A p \in D : p + n > n => g[p] = Value(g, p)
  BY <1>3 DEF E, From
<1>5. \A p \in D : p + n > n
  BY <1>0
<1>6. \A p \in D : g[p] = Value(g, p)
  BY <1>4, <1>5
<1> QED
  BY <1>4, <1>6 DEF Decodes

\* The decoded rests of a string.
LEMMA DecodeRests ==
  ASSUME NEW S, NEW s \in Seq(S), HoldsCodes(S)
  PROVE  \E g \in [1 .. Len(s) + 3 -> Seq(S)] :
           /\ decode_URI(s) = g[1]
           /\ \A p \in Len(s) + 1 .. Len(s) + 3 : g[p] = <<>>
           /\ \A p \in 1 .. Len(s) :
                /\ Decoded(s, p) \in Seq(S) /\ p + Jump(s, p) \in 1 .. Len(s) + 3
                /\ g[p] = Decoded(s, p) \o g[p + Jump(s, p)]
<1> DEFINE n == Len(s)
           g == CHOOSE h : Decodes(h, s)
           E == {m \in Nat : \A p \in 1 .. n + 3 : p + m > n => g[p] \in Seq(S)}
<1>0. n \in Nat /\ \A p \in Nat : Jump(s, p) \in {1, 3} /\ EscapeLength = 3
  BY DEF Jump, EscapeLength
<1>1. decode_URI(s) = g[1]
  BY DecodeIsChosen
<1>2. Decodes(g, s)
  BY SomethingDecodes
<1> HIDE DEF g
<1>3. DOMAIN g = 1 .. n + 3 /\ g = [p \in 1 .. n + 3 |-> g[p]]
  BY <1>0, <1>2 DEF Decodes
<1>4. \A p \in n + 1 .. n + 3 : g[p] = <<>>
  BY <1>0, <1>2 DEF Decodes
<1>5. ASSUME NEW p \in 1 .. n
      PROVE  /\ Decoded(s, p) \in Seq(S) /\ p + Jump(s, p) \in 1 .. n + 3
             /\ g[p] = Decoded(s, p) \o g[p + Jump(s, p)]
  <2>1. Decoded(s, p) \in Seq(S)
    <3>1. s[p] \in S
      OBVIOUS
    <3>5. " " \in S
      BY Zenon DEF HoldsCodes
    <3>2. IsEscape(s, p) => Code(s, p) \in 32 .. 127
      BY DEF IsEscape
    <3>3. IsEscape(s, p) => CharOf[Code(s, p)] \in S
      BY <3>2 DEF HoldsCodes
    <3>4. \A c \in S : <<c>> \in Seq(S)
      OBVIOUS
    <3> QED
      BY <3>1, <3>3, <3>4, <3>5 DEF Decoded
  <2>2. p + Jump(s, p) \in 1 .. n + 3 /\ p \in 1 .. n + 3 /\ ~(p > n)
    BY <1>0
  <2>3. g[p] = Decoded(s, p) \o g[p + Jump(s, p)]
    BY <1>0, <1>2, <2>2 DEF Decodes
  <2> QED
    BY <2>1, <2>2, <2>3
<1> HIDE DEF n
<1>6. 0 \in E
  <2>1. \A p \in 1 .. n + 3 : p + 0 > n => p \in n + 1 .. n + 3
    BY <1>0
  <2>2. <<>> \in Seq(S)
    OBVIOUS
  <2> QED
    BY <1>4, <2>1, <2>2
<1>7. ASSUME NEW m \in Nat, m \in E PROVE m + 1 \in E
  <2> SUFFICES ASSUME NEW p \in 1 .. n + 3, p + (m + 1) > n PROVE g[p] \in Seq(S)
    OBVIOUS
  <2>1. CASE p > n
    <3>1. p \in n + 1 .. n + 3
      BY <1>0, <2>1
    <3>2. <<>> \in Seq(S)
      OBVIOUS
    <3> QED
      BY <1>4, <3>1, <3>2
  <2>2. CASE ~(p > n)
    <3> DEFINE q == p + Jump(s, p)
    <3>1. p \in 1 .. n /\ q \in 1 .. n + 3 /\ q + m > n
      BY <1>0, <2>2
    <3>2. g[q] \in Seq(S)
      BY <1>7, <3>1
    <3>3. Decoded(s, p) \in Seq(S) /\ g[p] = Decoded(s, p) \o g[q]
      BY <1>5, <3>1
    <3> HIDE DEF q
    <3> QED
      BY <3>2, <3>3, ConcatProperties
  <2> QED
    BY <2>1, <2>2
<1> HIDE DEF E
<1>8. n \in E
  BY <1>0, <1>6, <1>7, AllNumbers, Zenon
<1>9. \A p \in 1 .. n + 3 : g[p] \in Seq(S)
  <2>1. \A p \in 1 .. n + 3 : p + n > n
    BY <1>0
  <2> QED
    BY <1>8, <2>1 DEF E
<1>10. g \in [1 .. n + 3 -> Seq(S)]
  BY <1>3, <1>9
<1> QED
  BY <1>1, <1>4, <1>5, <1>10 DEF n

\* No escape of s reaches over p.
Starts(s, p) == \A q \in {p - 1, p - 2} \cap DOMAIN s : ~IsEscape(s, q)

LEMMA EscapesApart ==
  ASSUME NEW S, NEW s \in Seq(S), NEW p \in 1 .. Len(s), IsEscape(s, p)
  PROVE  Starts(s, p)
<1>1. "%" \notin DOMAIN Hex
  BY DEF Hex
<1>2. s[p] = "%"
  BY EscapeFacts
<1>3. ASSUME NEW q \in 1 .. Len(s), IsEscape(s, q) PROVE p # q + 1 /\ p # q + 2
  <2>1. s[q + 1] \in DOMAIN Hex /\ s[q + 2] \in DOMAIN Hex
    BY <1>3, EscapeFacts
  <2> QED
    BY <1>1, <1>2, <2>1
<1>4. DOMAIN s = 1 .. Len(s) /\ Len(s) \in Nat
  OBVIOUS
<1>5. ASSUME NEW q \in {p - 1, p - 2} \cap DOMAIN s PROVE ~IsEscape(s, q)
  <2>1. q \in 1 .. Len(s) /\ (p = q + 1 \/ p = q + 2)
    BY <1>4
  <2> QED
    BY <1>3, <2>1
<1> QED
  BY <1>5 DEF Starts

\* g[p] is the decoded rest of s from p on, in strings over S.
Rests(g, S, s) ==
  /\ g \in [1 .. Len(s) + 3 -> Seq(S)] /\ decode_URI(s) = g[1]
  /\ \A p \in Len(s) + 1 .. Len(s) + 3 : g[p] = <<>>
  /\ \A p \in 1 .. Len(s) : /\ Decoded(s, p) \in Seq(S) /\ p + Jump(s, p) \in 1 .. Len(s) + 3
                            /\ g[p] = Decoded(s, p) \o g[p + Jump(s, p)]

LEMMA SomeRests ==
  ASSUME NEW S, NEW s \in Seq(S), HoldsCodes(S)
  PROVE  \E g : Rests(g, S, s)
BY DecodeRests DEF Rests

\* decode_URI decodes every position by itself.
LEMMA DecodeIsExact ==
  ASSUME NEW S, NEW s \in Seq(S), HoldsCodes(S)
  PROVE  decode_URI(s) = FlattenSeq([k \in DOMAIN s |-> DecodedAt(s, k)])
<1> DEFINE n == Len(s)
           ss == [k \in DOMAIN s |-> DecodedAt(s, k)]
<1>0. n \in Nat /\ DOMAIN s = 1 .. n /\ \A p \in Nat : Jump(s, p) = IF IsEscape(s, p) THEN 3 ELSE 1
  BY DEF Jump, EscapeLength
<1>1. PICK r \in [1 .. n + 3 -> Seq(S)] :
         /\ decode_URI(s) = r[1]
         /\ \A p \in n + 1 .. n + 3 : r[p] = <<>>
         /\ \A p \in 1 .. n : /\ Decoded(s, p) \in Seq(S) /\ p + Jump(s, p) \in 1 .. n + 3
                              /\ r[p] = Decoded(s, p) \o r[p + Jump(s, p)]
  <2>1. PICK h : Rests(h, S, s)
    BY SomeRests, Zenon
  <2> QED
    BY <2>1, Zenon DEF Rests
<1>2. \A k \in 1 .. n : DecodedAt(s, k) = IF Starts(s, k) THEN Decoded(s, k) ELSE <<>>
  BY DEF DecodedAt, Decoded, Starts
<1>3. ss \in Seq(Seq(S)) /\ Len(ss) = n /\ \A k \in 1 .. n : ss[k] = DecodedAt(s, k)
  <2>1. <<>> \in Seq(S)
    OBVIOUS
  <2>2. \A k \in 1 .. n : DecodedAt(s, k) \in Seq(S)
    BY <1>1, <1>2, <2>1
  <2> QED
    BY <1>0, <2>2
<1> HIDE DEF ss
<1>4. PICK g \in [0 .. Len(ss) -> Seq(S)] :
           /\ g[0] = <<>> /\ \A i \in 1 .. Len(ss) : g[i] = g[i - 1] \o ss[i]
           /\ FlattenSeq(ss) = g[Len(ss)]
  BY <1>3, FlattenPrefixes
<1> HIDE DEF n
<1>5. /\ g \in [0 .. n -> Seq(S)] /\ FlattenSeq(ss) = g[n]
      /\ \A i \in 1 .. n : g[i] = g[i - 1] \o (IF Starts(s, i) THEN Decoded(s, i) ELSE <<>>)
  BY <1>2, <1>3, <1>4
<1>6. \A i \in 1 .. n : IsEscape(s, i) => Starts(s, i) /\ i + 2 <= n
  BY EscapesApart, EscapeFacts DEF n
<1> DEFINE Right(k) == Starts(s, k + 1) => g[k] \o r[k + 1] = r[1]
           E == {m \in Nat : \A k \in 0 .. n : k <= m => Right(k)}
<1>7. \A k \in 0 .. n : g[k] \in Seq(S) /\ r[k + 1] \in Seq(S)
  BY <1>0, <1>1, <1>5
<1>8. 0 \in E
  <2>1. Right(0)
    <3>1. r[0 + 1] = r[1] /\ r[1] \in Seq(S)
      BY <1>0, <1>1
    <3> QED
      BY <1>4, <3>1, ConcatEmptySeq
  <2>2. \A k \in 0 .. n : k <= 0 => k = 0
    BY <1>0
  <2> HIDE DEF Right
  <2> QED
    BY <2>1, <2>2
<1>9. ASSUME NEW m \in Nat, m \in E PROVE m + 1 \in E
  <2>0. m + 1 \in Nat
    OBVIOUS
  <2> HIDE DEF Right
  <2> SUFFICES ASSUME NEW k \in 0 .. n, k <= m + 1 PROVE Right(k)
    BY <2>0, Zenon
  <2> USE DEF Right
  <2>1. CASE k <= m
    BY <1>9, <2>1
  <2>2. CASE k = m + 1
    <3>0. k \in 1 .. n /\ k \in Nat /\ k - 1 \in 0 .. n /\ (k - 1) + 1 = k /\ k - 1 <= m
      BY <1>0, <2>2
    <3>1. Right(k - 1)
      BY <1>9, <3>0
    <3> SUFFICES ASSUME Starts(s, k + 1) PROVE g[k] \o r[k + 1] = r[1]
      OBVIOUS
    <3>2. ~IsEscape(s, k)
      BY <1>0, <3>0 DEF Starts
    <3>3. CASE Starts(s, k)
      <4>1. g[k - 1] \o r[k] = r[1] /\ r[k] = Decoded(s, k) \o r[k + 1]
        BY <1>0, <1>1, <3>0, <3>1, <3>2, <3>3
      <4>2. g[k] = g[k - 1] \o Decoded(s, k)
        BY <1>5, <3>0, <3>3
      <4>3. g[k - 1] \in Seq(S) /\ Decoded(s, k) \in Seq(S) /\ r[k + 1] \in Seq(S)
        BY <1>1, <1>7, <3>0
      <4>4. Associates(g[k - 1], Decoded(s, k), r[k + 1])
        BY <4>3, Concat
      <4> QED
        BY <4>1, <4>2, <4>4 DEF Associates
    <3>4. CASE ~Starts(s, k)
      <4> DEFINE p == k - 2
      <4>1. p \in 1 .. n /\ IsEscape(s, p)
        <5>1. PICK q \in {k - 1, k - 2} \cap DOMAIN s : IsEscape(s, q)
          BY <3>4 DEF Starts
        <5>2. q # k - 1
          <6>1. k - 1 \in {(k + 1) - 1, (k + 1) - 2}
            BY <3>0
          <6> QED
            BY <5>1, <6>1 DEF Starts
        <5> QED
          BY <1>0, <5>1, <5>2
      <4>2. /\ p + 1 = k - 1 /\ p + 2 = k /\ p + 3 = k + 1 /\ p - 1 \in 0 .. n
            /\ (p - 1) + 1 = p /\ p - 1 <= m /\ p + 1 \in 1 .. n
        BY <1>0, <2>2, <3>0, <4>1
      <4>3. Starts(s, p) /\ ~Starts(s, p + 1)
        <5>1. p \in {(p + 1) - 1, (p + 1) - 2} \cap DOMAIN s
          BY <1>0, <4>1
        <5> QED
          BY <1>6, <4>1, <5>1 DEF Starts
      <4>4. Right(p - 1)
        BY <1>9, <4>2
      <4>5. g[p - 1] \o r[p] = r[1]
        BY <4>2, <4>3, <4>4
      <4>10. r[p] = Decoded(s, p) \o r[k + 1]
        <5>1. Jump(s, p) = 3
          BY <1>0, <4>1
        <5> QED
          BY <1>1, <4>1, <4>2, <5>1
      <4>6. g[p] = g[p - 1] \o Decoded(s, p)
        BY <1>5, <4>1, <4>3
      <4>11. g[k - 1] = g[p] \o <<>>
        <5>1. g[p + 1] = g[(p + 1) - 1] \o <<>>
          BY <1>5, <4>2, <4>3
        <5>2. (p + 1) - 1 = p
          BY <4>1
        <5> QED
          BY <4>2, <5>1, <5>2
      <4>12. g[k] = g[k - 1] \o <<>>
        BY <1>5, <3>0, <3>4
      <4>7. g[p - 1] \in Seq(S) /\ g[p] \in Seq(S) /\ g[k - 1] \in Seq(S)
        <5>1. p \in 0 .. n
          BY <1>0, <4>1
        <5> QED
          BY <1>7, <3>0, <4>2, <5>1
      <4>13. Decoded(s, p) \in Seq(S)
        BY <1>1, <4>1
      <4>14. r[k + 1] \in Seq(S)
        BY <1>7
      <4> HIDE DEF p
      <4>8. g[k] = g[p]
        BY <4>7, <4>11, <4>12, ConcatEmptySeq
      <4>9. Associates(g[p - 1], Decoded(s, p), r[k + 1])
        BY <4>7, <4>13, <4>14, Concat
      <4> QED
        BY <4>5, <4>6, <4>8, <4>9, <4>10 DEF Associates
    <3> QED
      BY <3>3, <3>4
  <2> HIDE DEF Right
  <2>3. k <= m \/ k = m + 1
    BY <1>0
  <2> QED
    BY <2>1, <2>2, <2>3
<1> HIDE DEF E, Right
<1>10. n \in E
  BY <1>0, <1>8, <1>9, AllNumbers, Zenon
<1>11. Right(n)
  <2>1. n \in 0 .. n /\ n <= n
    BY <1>0
  <2> QED
    BY <1>10, <2>1 DEF E
<1>12. Starts(s, n + 1)
  <2> SUFFICES ASSUME NEW q \in {(n + 1) - 1, (n + 1) - 2} \cap DOMAIN s, IsEscape(s, q)
               PROVE  FALSE
    BY DEF Starts
  <2>1. q \in 1 .. n /\ q + 2 > n
    BY <1>0
  <2> QED
    BY <1>0, <1>6, <2>1
<1>13. g[n] \in Seq(S) /\ r[n + 1] = <<>>
  BY <1>0, <1>1, <1>7
<1>14. g[n] \o <<>> = g[n]
  BY <1>13, ConcatEmptySeq
<1> QED
  BY <1>1, <1>5, <1>11, <1>12, <1>13, <1>14 DEF Right, ss

-----------------------------------------------------------------------------
(***************************************************************************)
(* Splitting, symbol by symbol.                                            *)
(***************************************************************************)

\* What one more symbol does to the pieces b.
Further(b, c, seps) ==
  IF c \in seps THEN Append(b, <<>>) ELSE Append(Front(b), Append(Last(b), c))

\* g[k] is the pieces of the first k symbols of s.
Splits(g, s, seps) ==
  g = [k \in 0 .. Len(s) |-> IF k = 0 THEN << <<>> >> ELSE Further(g[k - 1], s[k], seps)]

LEMMA SplitIsChosen ==
  ASSUME NEW s, NEW seps
  PROVE  Split(s, seps) = (CHOOSE g : Splits(g, s, seps))[Len(s)]
BY DEF Split, Splits, Further

LEMMA SomethingSplits ==
  ASSUME NEW S, NEW s \in Seq(S), NEW seps
  PROVE  \E g : Splits(g, s, seps)
<1> DEFINE n == Len(s)
           D == 0 .. n
           Value(g, k) == IF k = 0 THEN << <<>> >> ELSE Further(g[k - 1], s[k], seps)
           UpTo(m) == \E g : g = [k \in D |-> g[k]] /\ \A k \in D : k <= m => g[k] = Value(g, k)
           E == {m \in Nat : UpTo(m)}
<1>0. n \in Nat
  OBVIOUS
<1>1. 0 \in E
  <2> DEFINE g == [k \in D |-> << <<>> >>]
  <2>1. g = [k \in D |-> g[k]]
    OBVIOUS
  <2>2. \A k \in D : k <= 0 => g[k] = Value(g, k)
    <3>1. \A k \in D : k <= 0 => k = 0
      BY <1>0
    <3>2. \A k \in D : g[k] = << <<>> >>
      OBVIOUS
    <3> HIDE DEF g
    <3> QED
      BY <3>1, <3>2
  <2> HIDE DEF g, Value, D
  <2>3. UpTo(0)
    BY <2>1, <2>2
  <2> QED
    BY <2>3
<1>2. ASSUME NEW m \in Nat, m \in E PROVE m + 1 \in E
  <2>1. PICK g : g = [k \in D |-> g[k]] /\ \A k \in D : k <= m => g[k] = Value(g, k)
    BY <1>2
  <2> DEFINE h == [k \in D |-> Value(g, k)]
  <2>2. h = [k \in D |-> h[k]]
    OBVIOUS
  <2>3. ASSUME NEW k \in D, k <= m + 1 PROVE h[k] = Value(h, k)
    <3>1. h[k] = Value(g, k)
      OBVIOUS
    <3>2. CASE k = 0
      BY <3>1, <3>2
    <3>3. CASE k # 0
      <4>1. k - 1 \in D /\ k - 1 <= m
        BY <1>0, <2>3, <3>3
      <4>2. h[k - 1] = g[k - 1]
        BY <2>1, <4>1
      <4> QED
        BY <3>1, <3>3, <4>2
    <3> QED
      BY <3>2, <3>3
  <2> HIDE DEF h, Value, D
  <2>4. UpTo(m + 1)
    BY <2>2, <2>3
  <2> QED
    BY <1>2, <2>4
<1> HIDE DEF E, UpTo
<1>3. n \in E
  BY <1>0, <1>1, <1>2, AllNumbers, Zenon
<1>4. PICK g : g = [k \in D |-> g[k]] /\ \A k \in D : k <= n => g[k] = Value(g, k)
  BY <1>3 DEF E, UpTo
<1>5. \A k \in D : k <= n
  BY <1>0
<1>6. \A k \in D : g[k] = Value(g, k)
  BY <1>4, <1>5
<1> QED
  BY <1>4, <1>6 DEF Splits

\* g's values are pieces, at least one.
SplitsUp(g, S, s, seps) ==
  /\ Split(s, seps) = g[Len(s)] /\ g[0] = << <<>> >>
  /\ \A k \in 0 .. Len(s) : g[k] \in Seq(Seq(S)) /\ Len(g[k]) >= 1
  /\ \A k \in 1 .. Len(s) : g[k] = Further(g[k - 1], s[k], seps)

\* h is b with one more symbol read: a separator begins a new piece, any other
\* symbol goes to the end of the last one.
Grows(h, b, c, seps) ==
  /\ c \in seps => /\ Len(h) = Len(b) + 1
                   /\ \A i \in 1 .. Len(b) : h[i] = b[i]
                   /\ h[Len(b) + 1] = <<>>
  /\ c \notin seps => /\ Len(h) = Len(b)
                      /\ \A i \in 1 .. Len(b) - 1 : h[i] = b[i]
                      /\ h[Len(b)] = Append(b[Len(b)], c)

LEMMA FurtherEffect ==
  ASSUME NEW S, NEW b \in Seq(Seq(S)), Len(b) >= 1, NEW c \in S, NEW seps
  PROVE  Further(b, c, seps) \in Seq(Seq(S)) /\ Grows(Further(b, c, seps), b, c, seps)
<1>0. Len(b) \in Nat /\ b[Len(b)] \in Seq(S) /\ <<>> \in Seq(S)
  BY ElementOfSeq
<1>1. CASE c \in seps
  <2>1. Further(b, c, seps) = Append(b, <<>>)
    BY <1>1 DEF Further
  <2> QED
    BY <1>0, <1>1, <2>1, AppendProperties DEF Grows
<1>2. CASE c \notin seps
  <2> DEFINE f == Front(b)
             x == Append(b[Len(b)], c)
  <2>1. Further(b, c, seps) = Append(f, x)
    BY <1>2 DEF Further, Last
  <2>2. f \in Seq(Seq(S)) /\ Len(f) = Len(b) - 1 /\ \A i \in 1 .. Len(b) - 1 : f[i] = b[i]
    <3> DEFINE m == Len(b) - 1
    <3>1. m \in Int /\ 1 \in Int /\ (m >= 1 => m - 1 + 1 = m) /\ (~(1 <= m) => m = 0)
      <4> DEFINE k == Len(b)
      <4>1. k \in Nat /\ k >= 1
        BY <1>0
      <4> HIDE DEF k
      <4>2. k - 1 \in Int /\ (k - 1 >= 1 => k - 1 - 1 + 1 = k - 1) /\ (~(1 <= k - 1) => k - 1 = 0)
        BY <4>1
      <4> QED
        BY <4>2 DEF k
    <3>2. \A i \in 1 .. m : b[i] \in Seq(S) /\ i \in 1 .. m - 1 + 1 /\ 1 + i - 1 = i
      BY <1>0
    <3>3. f = SubSeq(b, 1, m)
      BY DEF Front
    <3> HIDE DEF f, m
    <3>4. /\ SubSeq(b, 1, m) \in Seq(Seq(S))
          /\ Len(SubSeq(b, 1, m)) = IF 1 <= m THEN m - 1 + 1 ELSE 0
          /\ \A i \in 1 .. m - 1 + 1 : SubSeq(b, 1, m)[i] = b[1 + i - 1]
      BY <3>1, <3>2, SubSeqProperties
    <3> QED
      BY <3>1, <3>2, <3>3, <3>4 DEF m
  <2>3. x \in Seq(S)
    BY <1>0
  <2> HIDE DEF f, x
  <2>4. /\ Append(f, x) \in Seq(Seq(S)) /\ Len(Append(f, x)) = Len(f) + 1
        /\ \A i \in 1 .. Len(f) : Append(f, x)[i] = f[i]
        /\ Append(f, x)[Len(f) + 1] = x
    BY <2>2, <2>3, AppendProperties
  <2>5. Len(f) + 1 = Len(b)
    BY <1>0, <2>2
  <2> QED
    BY <1>2, <2>1, <2>2, <2>4, <2>5 DEF x, Grows
<1> QED
  BY <1>1, <1>2

LEMMA SplitPieces ==
  ASSUME NEW S, NEW s \in Seq(S), NEW seps
  PROVE  \E g : SplitsUp(g, S, s, seps)
<1> DEFINE n == Len(s)
           g == CHOOSE h : Splits(h, s, seps)
           E == {m \in Nat : m <= n => g[m] \in Seq(Seq(S)) /\ Len(g[m]) >= 1}
<1>0. n \in Nat /\ \A k \in 1 .. n : s[k] \in S
  OBVIOUS
<1>1. Split(s, seps) = g[n]
  BY SplitIsChosen
<1>2. Splits(g, s, seps)
  BY SomethingSplits
<1> HIDE DEF g
<1>3. g[0] = << <<>> >>
  BY <1>0, <1>2 DEF Splits
<1>4. \A k \in 1 .. n : g[k] = Further(g[k - 1], s[k], seps)
  BY <1>0, <1>2 DEF Splits
<1> HIDE DEF n
<1>5. 0 \in E
  <2> DEFINE x == << <<>> >>
  <2>1. x \in Seq(Seq(S)) /\ Len(x) >= 1
    OBVIOUS
  <2>2. g[0] = x
    BY <1>3
  <2> HIDE DEF x
  <2> QED
    BY <2>1, <2>2
<1>6. ASSUME NEW m \in Nat, m \in E PROVE m + 1 \in E
  <2>1. CASE m + 1 <= n
    <3>1. m <= n /\ m + 1 \in 1 .. n /\ (m + 1) - 1 = m
      BY <1>0, <2>1
    <3>2. g[m] \in Seq(Seq(S)) /\ Len(g[m]) >= 1 /\ s[m + 1] \in S
      BY <1>0, <1>6, <3>1
    <3>3. g[m + 1] = Further(g[m], s[m + 1], seps)
      BY <1>4, <3>1
    <3> DEFINE b == g[m]
               c == s[m + 1]
    <3> HIDE DEF b, c
    <3>4. Further(b, c, seps) \in Seq(Seq(S)) /\ Len(Further(b, c, seps)) >= 1
      <4>1. b \in Seq(Seq(S)) /\ Len(b) >= 1 /\ c \in S /\ Len(b) \in Nat
        BY <3>2 DEF b, c
      <4>2. Further(b, c, seps) \in Seq(Seq(S)) /\ Grows(Further(b, c, seps), b, c, seps)
        BY <4>1, FurtherEffect
      <4> QED
        BY <4>1, <4>2 DEF Grows
    <3> QED
      BY <3>3, <3>4 DEF b, c
  <2>2. CASE ~(m + 1 <= n)
    BY <2>2
  <2> QED
    BY <2>1, <2>2
<1> HIDE DEF E
<1>7. \A m \in Nat : m \in E
  BY <1>5, <1>6, AllNumbers, Zenon
<1>8. \A k \in 0 .. n : g[k] \in Seq(Seq(S)) /\ Len(g[k]) >= 1
  BY <1>0, <1>7 DEF E
<1> QED
  BY <1>1, <1>3, <1>4, <1>8 DEF SplitsUp, n

\* The last piece of the first k symbols begins behind c.
Cut(s, seps, c, k) ==
  c \in 0 .. k /\ (c = 0 \/ s[c] \in seps) /\ \A i \in c + 1 .. k : s[i] \notin seps

LEMMA SubSeqNext ==
  ASSUME NEW S, NEW s \in Seq(S), NEW a \in Nat, NEW b \in Nat, a <= b, b + 1 <= Len(s)
  PROVE  Append(SubSeq(s, a + 1, b), s[b + 1]) = SubSeq(s, a + 1, b + 1)
<1>1. a + 1 \in 1 .. Len(s) /\ b + 1 \in a + 1 .. Len(s) /\ (b + 1) - 1 = b
      /\ b + 1 \in 1 .. Len(s)
  OBVIOUS
<1>2. SubSeq(s, a + 1, b + 1) = SubSeq(s, a + 1, (b + 1) - 1) \o <<s[b + 1]>>
  BY <1>1, SubSeqRecursiveSecond
<1>3. SubSeq(s, a + 1, b) \in Seq(S)
  <2>1. \A i \in a + 1 .. b : s[i] \in S
    OBVIOUS
  <2>2. a + 1 \in Int /\ b \in Int
    OBVIOUS
  <2> QED
    BY <2>1, <2>2, SubSeqProperties
<1>4. s[b + 1] \in S
  BY <1>1
<1>5. Append(SubSeq(s, a + 1, b), s[b + 1]) = SubSeq(s, a + 1, b) \o <<s[b + 1]>>
  <2> DEFINE t == SubSeq(s, a + 1, b)
             c == s[b + 1]
  <2>1. t \in Seq(S) /\ c \in S
    BY <1>3, <1>4
  <2> HIDE DEF t, c
  <2>2. Append(t, c) = t \o <<c>>
    BY <2>1, AppendIsConcat
  <2> QED
    BY <2>2 DEF t, c
<1> QED
  BY <1>1, <1>2, <1>5

LEMMA SplitStep ==
  ASSUME NEW S, NEW s \in Seq(S), NEW seps, NEW g, SplitsUp(g, S, s, seps),
         NEW k \in Nat, k + 1 <= Len(s)
  PROVE  /\ g[k] \in Seq(Seq(S)) /\ Len(g[k]) >= 1 /\ Len(g[k]) \in Nat
         /\ Grows(g[k + 1], g[k], s[k + 1], seps)
<1> DEFINE b == g[k]
           c == s[k + 1]
<1>1. k \in 0 .. Len(s) /\ k + 1 \in 1 .. Len(s) /\ (k + 1) - 1 = k
  OBVIOUS
<1>2. b \in Seq(Seq(S)) /\ Len(b) >= 1
  BY <1>1 DEF SplitsUp
<1>3. g[k + 1] = Further(b, c, seps)
  BY <1>1 DEF SplitsUp
<1>4. c \in S
  BY <1>1
<1> HIDE DEF b, c
<1>5. Len(b) \in Nat
  BY <1>2
<1>6. Grows(Further(b, c, seps), b, c, seps)
  BY <1>2, <1>4, FurtherEffect
<1> QED
  BY <1>2, <1>3, <1>5, <1>6 DEF b, c

LEMMA LastPiece ==
  ASSUME NEW S, NEW s \in Seq(S), NEW seps, NEW g, SplitsUp(g, S, s, seps)
  PROVE  \A k \in 0 .. Len(s), c \in Nat :
           Cut(s, seps, c, k) => g[k][Len(g[k])] = SubSeq(s, c + 1, k)
<1> DEFINE n == Len(s)
           Ends(c, k) == g[k][Len(g[k])] = SubSeq(s, c + 1, k)
           E == {m \in Nat : m <= n => \A c \in Nat : Cut(s, seps, c, m) => Ends(c, m)}
<1>0. n \in Nat
  OBVIOUS
<1>1. 0 \in E
  <2>1. g[0][Len(g[0])] = <<>>
    BY DEF SplitsUp
  <2>2. SubSeq(s, 0 + 1, 0) = <<>>
    BY SubSeqEmpty
  <2>3. \A c \in Nat : Cut(s, seps, c, 0) => c = 0
    BY DEF Cut
  <2> QED
    BY <2>1, <2>2, <2>3
<1>2. ASSUME NEW m \in Nat, m \in E PROVE m + 1 \in E
  <2> SUFFICES ASSUME m + 1 <= n, NEW c \in Nat, Cut(s, seps, c, m + 1)
               PROVE  Ends(c, m + 1)
    OBVIOUS
  <2>1. CASE s[m + 1] \in seps
    <3>1. c = m + 1
      BY <2>1 DEF Cut
    <3>2. /\ Len(g[m + 1]) = Len(g[m]) + 1 /\ g[m + 1][Len(g[m]) + 1] = <<>>
      BY <2>1, SplitStep DEF Grows
    <3>3. SubSeq(s, (m + 1) + 1, m + 1) = <<>>
      BY SubSeqEmpty
    <3> QED
      BY <3>1, <3>2, <3>3
  <2>2. CASE s[m + 1] \notin seps
    <3>1. c <= m /\ Cut(s, seps, c, m)
      <4>1. c # m + 1
        BY <2>2 DEF Cut
      <4> QED
        BY <4>1 DEF Cut
    <3>2. Ends(c, m)
      BY <1>0, <1>2, <3>1
    <3>3. Len(g[m + 1]) = Len(g[m]) /\ g[m + 1][Len(g[m])] = Append(g[m][Len(g[m])], s[m + 1])
      <4>1. Grows(g[m + 1], g[m], s[m + 1], seps)
        BY SplitStep
      <4> QED
        BY <2>2, <4>1 DEF Grows
    <3>4. Append(SubSeq(s, c + 1, m), s[m + 1]) = SubSeq(s, c + 1, m + 1)
      BY <3>1, SubSeqNext
    <3> QED
      BY <3>2, <3>3, <3>4
  <2> QED
    BY <2>1, <2>2
<1> HIDE DEF E
<1>3. \A m \in Nat : m \in E
  BY <1>1, <1>2, AllNumbers, Zenon
<1> QED
  BY <1>0, <1>3 DEF E

\* A string without separators is one piece.
LEMMA SplitNone ==
  ASSUME NEW S, NEW s \in Seq(S), NEW seps, \A i \in 1 .. Len(s) : s[i] \notin seps
  PROVE  Split(s, seps) = <<s>>
<1> DEFINE n == Len(s)
<1>0. n \in Nat
  OBVIOUS
<1>1. PICK g : SplitsUp(g, S, s, seps)
  BY SplitPieces
<1> DEFINE E == {m \in Nat : m <= n => Len(g[m]) = 1}
<1>2. 0 \in E
  BY <1>1 DEF SplitsUp
<1>3. ASSUME NEW m \in Nat, m \in E PROVE m + 1 \in E
  <2> SUFFICES ASSUME m + 1 <= n PROVE Len(g[m + 1]) = 1
    OBVIOUS
  <2>1. s[m + 1] \notin seps /\ m <= n
    BY <1>0
  <2> QED
    BY <1>1, <1>3, <2>1, SplitStep DEF Grows
<1> HIDE DEF E
<1>4. Len(g[n]) = 1
  <2>1. n \in E
    BY <1>0, <1>2, <1>3, AllNumbers, Zenon
  <2> QED
    BY <1>0, <2>1 DEF E
<1>5. g[n][1] = s
  <2>1. Cut(s, seps, 0, n)
    BY <1>0 DEF Cut
  <2>2. g[n][Len(g[n])] = SubSeq(s, 0 + 1, n)
    BY <1>0, <1>1, <2>1, LastPiece
  <2>3. SubSeq(s, 1, n) = s
    BY SubSeqFull
  <2> QED
    BY <1>4, <2>2, <2>3
<1>6. g[n] \in Seq(Seq(S)) /\ Split(s, seps) = g[n]
  BY <1>0, <1>1 DEF SplitsUp
<1> HIDE DEF n
<1>7. g[n] = <<s>>
  <2> DEFINE b == g[n]
             x == <<s>>
  <2>1. b \in Seq(Seq(S)) /\ Len(b) = 1 /\ b[1] = s
    BY <1>4, <1>5, <1>6
  <2>2. x \in Seq(Seq(S)) /\ Len(x) = 1 /\ x[1] = s
    OBVIOUS
  <2> HIDE DEF b, x
  <2>3. \A i \in 1 .. Len(b) : b[i] = x[i]
    BY <2>1, <2>2
  <2>4. b = x
    BY <2>1, <2>2, <2>3, SeqEqual
  <2> QED
    BY <2>4 DEF b, x
<1> QED
  BY <1>6, <1>7

\* A string that does not begin with a separator has a first piece.
LEMMA FirstPiece ==
  ASSUME NEW S, NEW s \in Seq(S), NEW seps, s # <<>>, s[1] \notin seps
  PROVE  /\ Split(s, seps) \in Seq(Seq(S)) /\ Len(Split(s, seps)) >= 1
         /\ Split(s, seps)[1] \in Seq(S) /\ Split(s, seps)[1] # <<>>
<1> DEFINE n == Len(s)
<1>0. n \in Nat /\ n >= 1
  BY EmptySeq
<1>1. PICK g : SplitsUp(g, S, s, seps)
  BY SplitPieces
<1> DEFINE E == {m \in Nat : m + 1 <= n => Len(g[m + 1][1]) >= 1}
<1>2. \A k \in 0 .. n : g[k][1] \in Seq(S) /\ g[k] \in Seq(Seq(S)) /\ Len(g[k]) >= 1
  BY <1>1 DEF SplitsUp
<1>3. 0 \in E
  <2>1. g[0] = << <<>> >>
    BY <1>1 DEF SplitsUp
  <2>2. Len(g[0]) = 1 /\ g[0][1] = <<>>
    BY <2>1
  <2>3. g[1][1] = Append(g[0][1], s[1])
    BY <1>0, <1>1, <2>2, SplitStep DEF Grows
  <2>4. s[1] \in S /\ <<>> \in Seq(S)
    BY <1>0
  <2>5. Append(<<>>, s[1]) = <<s[1]>> /\ Len(<<s[1]>>) = 1 /\ 0 + 1 = 1
    OBVIOUS
  <2>6. Len(g[1][1]) = 1
    BY <2>2, <2>3, <2>5
  <2>7. \A k : k = 1 => Len(g[k][1]) = 1
    BY <2>6, Zenon
  <2>8. Len(g[0 + 1][1]) = 1
    BY <2>5, <2>7, Zenon
  <2> QED
    BY <2>8
<1>4. ASSUME NEW m \in Nat, m \in E PROVE m + 1 \in E
  <2> SUFFICES ASSUME m + 2 <= n PROVE Len(g[m + 2][1]) >= 1
    BY <1>0
  <2> DEFINE b == g[m + 1]
             h == g[m + 2]
             c == s[m + 2]
  <2>1. Len(b[1]) >= 1
    BY <1>0, <1>4
  <2>2. Len(b) \in Nat /\ Len(b) >= 1 /\ Grows(h, b, c, seps)
    <3>1. m + 1 \in Nat /\ (m + 1) + 1 <= n /\ (m + 1) + 1 = m + 2
      BY <1>0
    <3> QED
      BY <1>1, <3>1, SplitStep
  <2>3. b[1] \in Seq(S) /\ c \in S
    BY <1>0, <1>2
  <2> HIDE DEF b, h, c
  <2>4. CASE c \notin seps /\ Len(b) = 1
    <3>1. h[1] = Append(b[1], c)
      BY <2>2, <2>4 DEF Grows
    <3>2. Len(Append(b[1], c)) = Len(b[1]) + 1
      BY <2>3, AppendProperties
    <3> QED
      BY <2>1, <2>3, <3>1, <3>2 DEF h
  <2>5. CASE ~(c \notin seps /\ Len(b) = 1)
    <3>1. h[1] = b[1]
      <4>1. CASE c \in seps
        <5>1. \A i \in 1 .. Len(b) : h[i] = b[i]
          BY <2>2, <4>1 DEF Grows
        <5> QED
          BY <2>2, <5>1
      <4>2. CASE c \notin seps
        <5>1. \A i \in 1 .. Len(b) - 1 : h[i] = b[i]
          BY <2>2, <4>2 DEF Grows
        <5>2. Len(b) # 1
          BY <2>5, <4>2, Zenon
        <5>3. \A l \in Nat : l >= 1 /\ l # 1 => 1 \in 1 .. l - 1
          OBVIOUS
        <5>4. 1 \in 1 .. Len(b) - 1
          BY <2>2, <5>2, <5>3, Zenon
        <5> QED
          BY <5>1, <5>4
      <4> QED
        BY <4>1, <4>2
    <3> QED
      BY <2>1, <3>1 DEF h
  <2> QED
    BY <2>4, <2>5
<1> HIDE DEF E
<1>5. \A m \in Nat : m \in E
  BY <1>3, <1>4, AllNumbers, Zenon
<1>6. Len(g[n][1]) >= 1
  <2>1. n - 1 \in Nat /\ (n - 1) + 1 = n
    BY <1>0
  <2>2. n - 1 \in E
    BY <1>5, <2>1
  <2> QED
    BY <2>1, <2>2 DEF E
<1>7. g[n][1] # <<>>
  BY <1>6
<1>8. Split(s, seps) = g[n]
  BY <1>1 DEF SplitsUp
<1> QED
  BY <1>0, <1>2, <1>7, <1>8

\* A string with one separator is two pieces.
LEMMA SplitOnce ==
  ASSUME NEW S, NEW s \in Seq(S), NEW seps, NEW a \in 1 .. Len(s),
         \A i \in 1 .. Len(s) : s[i] \in seps <=> i = a
  PROVE  Split(s, seps) = <<SubSeq(s, 1, a - 1), SubSeq(s, a + 1, Len(s))>>
<1> DEFINE n == Len(s)
           x == SubSeq(s, 1, a - 1)
           y == SubSeq(s, a + 1, n)
<1>0. n \in Nat /\ a \in Nat /\ a >= 1 /\ a <= n
  OBVIOUS
<1>1. PICK g : SplitsUp(g, S, s, seps)
  BY SplitPieces
<1> DEFINE E == {m \in Nat : m <= n => IF m < a THEN Len(g[m]) = 1
                                       ELSE Len(g[m]) = 2 /\ g[m][1] = x}
<1>2. 0 \in E
  <2>1. g[0] = << <<>> >>
    BY <1>1 DEF SplitsUp
  <2>2. Len(g[0]) = 1
    BY <2>1
  <2> QED
    BY <1>0, <2>2
<1>3. ASSUME NEW m \in Nat, m \in E PROVE m + 1 \in E
  <2> HIDE DEF x
  <2> SUFFICES ASSUME m + 1 <= n
               PROVE  IF m + 1 < a THEN Len(g[m + 1]) = 1
                      ELSE Len(g[m + 1]) = 2 /\ g[m + 1][1] = x
    OBVIOUS
  <2>1. Grows(g[m + 1], g[m], s[m + 1], seps)
    BY <1>1, SplitStep
  <2>2. CASE m + 1 < a
    <3>1. s[m + 1] \notin seps /\ m < a
      BY <1>0, <2>2
    <3>2. Len(g[m]) = 1
      BY <1>0, <1>3, <3>1
    <3> QED
      BY <2>1, <2>2, <3>1, <3>2 DEF Grows
  <2>3. CASE m + 1 = a
    <3>1. s[m + 1] \in seps /\ m < a /\ m <= n
      BY <1>0, <2>3
    <3>2. Len(g[m]) = 1
      BY <1>3, <3>1
    <3>3. Len(g[m + 1]) = 2 /\ g[m + 1][1] = g[m][1]
      BY <2>1, <3>1, <3>2 DEF Grows
    <3>4. g[m][1] = SubSeq(s, 1, m)
      <4>1. Cut(s, seps, 0, m)
        BY <1>0, <2>3 DEF Cut
      <4>2. m \in 0 .. Len(s) /\ 0 \in Nat
        BY <3>1
      <4>3. g[m][Len(g[m])] = SubSeq(s, 0 + 1, m)
        BY <1>1, <4>1, <4>2, LastPiece
      <4> QED
        BY <3>2, <4>3
    <3>5. m = a - 1 /\ ~(m + 1 < a)
      BY <1>0, <2>3
    <3> QED
      BY <3>3, <3>4, <3>5 DEF x
  <2>4. CASE m + 1 > a
    <3>1. s[m + 1] \notin seps /\ ~(m < a) /\ m <= n /\ ~(m + 1 < a)
      BY <1>0, <2>4
    <3>2. Len(g[m]) = 2 /\ g[m][1] = x
      BY <1>3, <3>1
    <3> QED
      BY <2>1, <3>1, <3>2 DEF Grows
  <2> QED
    BY <1>0, <2>2, <2>3, <2>4
<1> HIDE DEF E
<1>4. Len(g[n]) = 2 /\ g[n][1] = x
  <2>1. n \in E
    BY <1>0, <1>2, <1>3, AllNumbers, Zenon
  <2> HIDE DEF x
  <2> QED
    BY <1>0, <2>1 DEF E
<1>5. g[n][2] = y
  <2>1. Cut(s, seps, a, n)
    BY <1>0 DEF Cut
  <2>2. n \in 0 .. Len(s) /\ a \in Nat
    BY <1>0
  <2>3. g[n][Len(g[n])] = SubSeq(s, a + 1, n)
    BY <1>1, <2>1, <2>2, LastPiece
  <2> QED
    BY <1>4, <2>3
<1>6. g[n] \in Seq(Seq(S)) /\ Split(s, seps) = g[n]
  BY <1>0, <1>1 DEF SplitsUp
<1>7. g[n] = <<x, y>>
  <2> DEFINE b == g[n]
             t == <<x, y>>
  <2>1. x \in Seq(S) /\ y \in Seq(S)
    <3>1. b[1] \in Seq(S) /\ b[2] \in Seq(S)
      BY <1>4, <1>6
    <3> QED
      BY <1>4, <1>5, <3>1
  <2> HIDE DEF x, y, n
  <2>2. b \in Seq(Seq(S)) /\ Len(b) = 2 /\ b[1] = x /\ b[2] = y
    BY <1>4, <1>5, <1>6
  <2>3. t \in Seq(Seq(S)) /\ Len(t) = 2 /\ t[1] = x /\ t[2] = y
    BY <2>1
  <2> HIDE DEF b, t
  <2>4. b[1] = t[1] /\ b[2] = t[2]
    BY <2>2, <2>3, Zenon
  <2>5. b = t
    BY <2>2, <2>3, <2>4, PairsEqual, Zenon
  <2> QED
    BY <2>5 DEF b, t
<1> QED
  BY <1>6, <1>7

-----------------------------------------------------------------------------
(***************************************************************************)
(* What decoding does to the strings of a request.                         *)
(***************************************************************************)

LEMMA DecodeSome ==
  ASSUME NEW S, NEW s \in Seq(S), HoldsCodes(S), s # <<>>
  PROVE  decode_URI(s) \in Seq(S) /\ decode_URI(s) # <<>>
<1> DEFINE n == Len(s)
<1>0. n \in Nat /\ n >= 1
  BY EmptySeq
<1>1. PICK g \in [1 .. n + 3 -> Seq(S)] :
        /\ decode_URI(s) = g[1]
        /\ \A p \in n + 1 .. n + 3 : g[p] = <<>>
        /\ \A p \in 1 .. n : /\ Decoded(s, p) \in Seq(S) /\ p + Jump(s, p) \in 1 .. n + 3
                             /\ g[p] = Decoded(s, p) \o g[p + Jump(s, p)]
  <2>1. PICK h : Rests(h, S, s)
    BY SomeRests, Zenon
  <2> QED
    BY <2>1, Zenon DEF Rests
<1> DEFINE x == Decoded(s, 1)
           y == g[1 + Jump(s, 1)]
<1>2. x \in Seq(S) /\ y \in Seq(S) /\ decode_URI(s) = x \o y /\ decode_URI(s) \in Seq(S)
  <2>1. 1 \in 1 .. n /\ 1 \in 1 .. n + 3
    BY <1>0
  <2>2. decode_URI(s) = x \o y /\ x \in Seq(S) /\ 1 + Jump(s, 1) \in 1 .. n + 3
    BY <1>1, <2>1, Zenon
  <2> HIDE DEF x
  <2> QED
    BY <1>1, <2>1, <2>2
<1>3. Len(x) = 1
  BY DEF Decoded
<1> HIDE DEF x, y
<1>4. Len(x \o y) = Len(x) + Len(y) /\ Len(y) \in Nat
  BY <1>2, ConcatProperties
<1>5. Len(decode_URI(s)) >= 1
  BY <1>2, <1>3, <1>4
<1> QED
  BY <1>2, <1>5

\* A string without escapes and plus signs is decoded to itself.
LEMMA DecodePlain ==
  ASSUME NEW S, NEW s \in Seq(S), HoldsCodes(S), \A i \in 1 .. Len(s) : s[i] \notin {"%", "+"}
  PROVE  decode_URI(s) = s
<1> DEFINE n == Len(s)
<1>0. n \in Nat
  OBVIOUS
<1>1. PICK g \in [1 .. n + 3 -> Seq(S)] :
        /\ decode_URI(s) = g[1]
        /\ \A p \in n + 1 .. n + 3 : g[p] = <<>>
        /\ \A p \in 1 .. n : /\ Decoded(s, p) \in Seq(S) /\ p + Jump(s, p) \in 1 .. n + 3
                             /\ g[p] = Decoded(s, p) \o g[p + Jump(s, p)]
  <2>1. PICK h : Rests(h, S, s)
    BY SomeRests, Zenon
  <2> QED
    BY <2>1, Zenon DEF Rests
<1> DEFINE Ends(p) == g[p] = SubSeq(s, p, n)
           E == {m \in Nat : \A p \in 1 .. n + 1 : p + m = n + 1 => Ends(p)}
<1>2. 0 \in E
  <2>1. g[n + 1] = <<>>
    BY <1>0, <1>1
  <2>2. SubSeq(s, n + 1, n) = <<>>
    BY <1>0, SubSeqEmpty
  <2>3. Ends(n + 1)
    BY <2>1, <2>2
  <2> HIDE DEF Ends
  <2> QED
    BY <1>0, <2>3
<1>3. ASSUME NEW m \in Nat, m \in E PROVE m + 1 \in E
  <2> SUFFICES ASSUME NEW p \in 1 .. n + 1, p + (m + 1) = n + 1 PROVE Ends(p)
    OBVIOUS
  <2>1. p \in 1 .. n /\ n \in p .. n /\ p + 1 \in 1 .. n + 1 /\ (p + 1) + m = n + 1
    BY <1>0
  <2>2. Ends(p + 1)
    BY <1>3, <2>1
  <2>3. g[p] = <<s[p]>> \o g[p + 1]
    <3>1. s[p] \notin {"%", "+"}
      BY <2>1
    <3>2. Decoded(s, p) = <<s[p]>> /\ Jump(s, p) = 1
      BY <3>1 DEF Decoded, Jump, IsEscape
    <3> QED
      BY <1>1, <2>1, <3>2
  <2>4. SubSeq(s, p, n) = <<s[p]>> \o SubSeq(s, p + 1, n)
    BY <2>1, SubSeqRecursiveFirst
  <2> QED
    BY <2>2, <2>3, <2>4
<1> HIDE DEF E
<1>4. n \in E
  BY <1>0, <1>2, <1>3, AllNumbers, Zenon
<1>5. g[1] = SubSeq(s, 1, n)
  BY <1>0, <1>4 DEF E
<1>6. SubSeq(s, 1, n) = s
  BY SubSeqFull
<1> QED
  BY <1>1, <1>5, <1>6

-----------------------------------------------------------------------------
(***************************************************************************)
(* The strings of the model.                                               *)
(***************************************************************************)

TypedSymbols == UNION {ToSet(s) : s \in Docs \cup Texts \cup Uris}
CodeSymbols  == {CharOf[c] : c \in 32 .. 127}
FixedSymbols == {"/static", "/", "/query", "?", "terms", "=", ".", " ", "%", "+"}

\* Every symbol that a string of the model can hold.
Symbols == TypedSymbols \cup CodeSymbols \cup FixedSymbols \cup Entities \cup DOMAIN Hex

LEMMA Universe ==
  /\ HoldsCodes(Symbols) /\ Entities \subseteq Symbols
  /\ Docs \subseteq Seq(Symbols) /\ Texts \subseteq Seq(Symbols) /\ Uris \subseteq Seq(Symbols)
<1>1. HoldsCodes(Symbols)
  <2>1. CodeSymbols \subseteq Symbols /\ FixedSymbols \subseteq Symbols
    BY DEF Symbols
  <2>2. \A c \in 32 .. 127 : CharOf[c] \in CodeSymbols
    BY Zenon DEF CodeSymbols
  <2>3. " " \in FixedSymbols
    BY DEF FixedSymbols
  <2> QED
    BY <2>1, <2>2, <2>3, Zenon DEF HoldsCodes
<1>2. Entities \subseteq Symbols
  BY DEF Symbols
<1>3. \A s \in Docs \cup Texts \cup Uris : s \in Seq(Symbols)
  <2> TAKE s \in Docs \cup Texts \cup Uris
  <2>1. s \in Seq(ToSet(s))
    BY StringsAssumption
  <2>2. ToSet(s) \subseteq Symbols
    <3>1. ToSet(s) \subseteq TypedSymbols
      BY Zenon DEF TypedSymbols
    <3> QED
      BY <3>1 DEF Symbols
  <2> QED
    BY <2>1, <2>2, SeqMonotonic
<1> QED
  BY <1>1, <1>2, <1>3

LEMMA Fixed ==
  /\ Static \in Seq(Symbols) /\ <<".", "/">> \in Seq(Symbols) /\ <<".">> \in Seq(Symbols)
  /\ <<>> \in Seq(Symbols) /\ <<"/query">> \in Seq(Symbols) /\ <<"terms">> \in Seq(Symbols)
  /\ <<"/query", "?", "terms", "=">> \in Seq(Symbols)
<1>1. {"/static", "/", "/query", "?", "terms", "=", "."} \subseteq Symbols
  <2>1. FixedSymbols \subseteq Symbols
    BY DEF Symbols
  <2> QED
    BY <2>1 DEF FixedSymbols
<1> QED
  BY <1>1 DEF Static

LEMMA ParsePath ==
  ASSUME NEW u
  PROVE  parse(URLParser, u).path = decode_URI(Split(u, {"?"})[1])
BY DEF parse

\* The URI begins with "/static/".
StaticUri(u) == Len(u) >= 2 /\ SubSeq(u, 1, 2) = Static

LEMMA StaticBegins ==
  ASSUME NEW u \in Seq(Symbols), StaticUri(u)
  PROVE  u[1] = "/static" /\ u # <<>>
<1>1. 2 <= Len(u) /\ Len(u) \in Nat
  BY DEF StaticUri
<1>2. \A i \in 1 .. 2 : u[i] \in Symbols
  BY <1>1
<1>3. \A i \in 1 .. 2 - 1 + 1 : SubSeq(u, 1, 2)[i] = u[1 + i - 1]
  BY <1>2, SubSeqProperties
<1>4. SubSeq(u, 1, 2)[1] = u[1]
  BY <1>3
<1>5. SubSeq(u, 1, 2)[1] = "/static"
  <2>1. SubSeq(u, 1, 2) = Static
    BY DEF StaticUri
  <2>2. Static[1] = "/static"
    BY DEF Static
  <2> QED
    BY <2>1, <2>2
<1>6. u # <<>>
  BY <1>1
<1> QED
  BY <1>4, <1>5, <1>6

LEMMA StaticName ==
  ASSUME NEW u \in Seq(Symbols), StaticUri(u)
  PROVE  FileName(parse(URLParser, u).path) \in Seq(Symbols)
<1> DEFINE p == Split(u, {"?"})[1]
           q == decode_URI(p)
<1>1. p \in Seq(Symbols) /\ p # <<>>
  <2>1. u # <<>> /\ u[1] \notin {"?"}
    BY StaticBegins
  <2> QED
    BY <2>1, FirstPiece
<1>2. parse(URLParser, u).path = q
  BY ParsePath
<1> HIDE DEF p
<1>3. q \in Seq(Symbols) /\ q # <<>>
  BY <1>1, Universe, DecodeSome
<1> HIDE DEF q
<1>4. Tail(q) \in Seq(Symbols)
  BY <1>3, HeadTailProperties
<1>5. <<".">> \o Tail(q) \in Seq(Symbols)
  BY <1>4, Fixed, ConcatProperties
<1> QED
  BY <1>2, <1>5 DEF FileName

\* A link as a page of results gives it is answered from a file.
LEMMA LinkBegins ==
  ASSUME NEW d \in Seq(Symbols)
  PROVE  /\ Link(d) \in Seq(Symbols) /\ Link(d) # <<>> /\ StaticUri(Link(d))
         /\ Len(Link(d)) = Len(d) + 2
         /\ Link(d)[1] = "/static" /\ Link(d)[2] = "/"
         /\ \A i \in 1 .. Len(d) : Link(d)[i + 2] = d[i]
<1> DEFINE x == Static
           u == x \o d
           l == Len(d)
<1>1. x \in Seq(Symbols) /\ Len(x) = 2 /\ x[1] = "/static" /\ x[2] = "/" /\ l \in Nat
  BY Fixed DEF Static
<1>2. Link(d) = u
  BY DEF Link
<1> HIDE DEF x
<1>3. /\ u \in Seq(Symbols) /\ Len(u) = Len(x) + l
      /\ \A i \in 1 .. Len(x) + l : u[i] = IF i <= Len(x) THEN x[i] ELSE d[i - Len(x)]
  BY <1>1, ConcatProperties
<1> HIDE DEF u, l
<1>4. /\ Len(u) = l + 2 /\ u[1] = x[1] /\ u[2] = x[2]
      /\ \A i \in 1 .. l : u[i + 2] = d[i]
  <2>1. Len(u) = l + 2
    BY <1>1, <1>3
  <2>2. u[1] = x[1] /\ u[2] = x[2]
    BY <1>1, <1>3
  <2>3. ASSUME NEW i \in 1 .. l PROVE u[i + 2] = d[i]
    BY <1>1, <1>3
  <2> QED
    BY <2>1, <2>2, <2>3
<1>5. SubSeq(u, 1, 2) = x
  <2> DEFINE y == SubSeq(u, 1, 2)
  <2>1. \A i \in 1 .. 2 : u[i] \in Symbols
    BY <1>1, <1>3, <1>4
  <2>2. /\ y \in Seq(Symbols) /\ Len(y) = IF 1 <= 2 THEN 2 - 1 + 1 ELSE 0
        /\ \A i \in 1 .. 2 - 1 + 1 : y[i] = u[1 + i - 1]
    BY <2>1, SubSeqProperties
  <2> HIDE DEF y
  <2>3. y \in Seq(Symbols) /\ Len(y) = 2 /\ y[1] = u[1] /\ y[2] = u[2]
    BY <2>2
  <2>4. \A i \in 1 .. Len(y) : y[i] = x[i]
    BY <1>4, <2>3
  <2>5. y = x
    BY <1>1, <2>3, <2>4, SeqEqual
  <2> QED
    BY <2>5 DEF y
<1>6. u # <<>> /\ Len(u) >= 2
  BY <1>1, <1>3, <1>4
<1> QED
  BY <1>1, <1>2, <1>3, <1>4, <1>5, <1>6 DEF StaticUri, x, l

\* A plain link leads to the name of its document.
LEMMA LinkName ==
  ASSUME NEW d \in Seq(Symbols), Plain(d)
  PROVE  FileName(parse(URLParser, Link(d)).path) = <<".", "/">> \o d
<1> DEFINE u == Link(d)
           l == Len(d)
<1>0. l \in Nat /\ DOMAIN d = 1 .. l
  OBVIOUS
<1>1. /\ u \in Seq(Symbols) /\ u # <<>> /\ Len(u) = l + 2 /\ u[1] = "/static" /\ u[2] = "/"
      /\ \A i \in 1 .. l : u[i + 2] = d[i]
  BY LinkBegins
<1>2. \A i \in 1 .. l : d[i] \notin {"%", "+", "?", " "}
  BY <1>0 DEF Plain
<1> HIDE DEF u, l
<1>3. \A i \in 1 .. Len(u) : u[i] \notin {"%", "+", "?"}
  <2> TAKE i \in 1 .. Len(u)
  <2>1. CASE i <= 2
    <3>1. i = 1 \/ i = 2
      BY <1>0, <1>1, <2>1
    <3> QED
      BY <1>1, <3>1
  <2>2. CASE i > 2
    <3>1. i - 2 \in 1 .. l /\ (i - 2) + 2 = i
      BY <1>0, <1>1, <2>2
    <3>2. u[i] = d[i - 2]
      BY <1>1, <3>1
    <3> QED
      BY <1>2, <3>1, <3>2
  <2> QED
    BY <2>1, <2>2
<1>4. Split(u, {"?"}) = <<u>>
  <2>1. \A i \in 1 .. Len(u) : u[i] \notin {"?"}
    BY <1>3
  <2> QED
    BY <1>1, <2>1, SplitNone
<1>5. decode_URI(u) = u
  <2>1. \A i \in 1 .. Len(u) : u[i] \notin {"%", "+"}
    BY <1>3
  <2> QED
    BY <1>1, <2>1, Universe, DecodePlain
<1>6. parse(URLParser, u).path = u
  <2>1. Split(u, {"?"})[1] = u
    BY <1>4
  <2> QED
    BY <1>5, <2>1, ParsePath
<1>7. <<".">> \o Tail(u) = <<".", "/">> \o d
  <2> DEFINE x == <<".">>
             y == <<".", "/">>
             t == Tail(u)
             v == x \o t
             w == y \o d
  <2>1. t \in Seq(Symbols) /\ Len(t) = l + 1 /\ \A i \in 1 .. Len(t) : t[i] = u[i + 1]
    <3>1. /\ t \in Seq(Symbols) /\ Len(t) = Len(u) - 1
          /\ \A i \in 1 .. Len(t) : t[i] = u[i + 1]
      BY <1>1, HeadTailProperties
    <3> QED
      BY <1>0, <1>1, <3>1
  <2>2. /\ x \in Seq(Symbols) /\ Len(x) = 1 /\ x[1] = "."
        /\ y \in Seq(Symbols) /\ Len(y) = 2 /\ y[1] = "." /\ y[2] = "/"
    BY Fixed
  <2> HIDE DEF x, y, t
  <2>3. /\ v \in Seq(Symbols) /\ Len(v) = Len(x) + Len(t)
        /\ \A i \in 1 .. Len(x) + Len(t) : v[i] = IF i <= Len(x) THEN x[i] ELSE t[i - Len(x)]
    <3>1. x \in Seq(Symbols) /\ t \in Seq(Symbols)
      BY <2>1, <2>2
    <3> QED
      BY <3>1, ConcatProperties
  <2>4. /\ w \in Seq(Symbols) /\ Len(w) = Len(y) + Len(d)
        /\ \A i \in 1 .. Len(y) + Len(d) : w[i] = IF i <= Len(y) THEN y[i] ELSE d[i - Len(y)]
    BY <2>2, ConcatProperties
  <2> HIDE DEF v, w
  <2>5. Len(v) = l + 2 /\ Len(w) = l + 2
    BY <1>0, <2>1, <2>2, <2>3, <2>4 DEF l
  <2>6. ASSUME NEW i \in 1 .. l + 2 PROVE v[i] = w[i]
    <3>1. CASE i = 1
      BY <1>0, <2>1, <2>2, <2>3, <2>4, <3>1 DEF l
    <3>2. CASE i = 2
      <4>1. v[2] = t[1] /\ t[1] = u[2] /\ w[2] = "/"
        BY <1>0, <2>1, <2>2, <2>3, <2>4 DEF l
      <4> QED
        BY <1>1, <3>2, <4>1
    <3>3. CASE i > 2
      <4>1. /\ i - 2 \in 1 .. l /\ i - 1 \in 1 .. l + 1
            /\ (i - 1) + 1 = (i - 2) + 2 /\ i <= 1 + (l + 1)
        BY <1>0, <3>3
      <4>2. v[i] = t[i - 1]
        BY <1>0, <2>1, <2>2, <2>3, <3>3
      <4>3. t[i - 1] = u[(i - 1) + 1]
        BY <2>1, <4>1
      <4>4. u[(i - 2) + 2] = d[i - 2]
        BY <1>1, <4>1
      <4>5. w[i] = d[i - 2]
        BY <1>0, <2>2, <2>4, <3>3 DEF l
      <4> QED
        BY <4>1, <4>2, <4>3, <4>4, <4>5
    <3> QED
      BY <1>0, <3>1, <3>2, <3>3
  <2>7. \A i \in 1 .. Len(v) : v[i] = w[i]
    BY <2>5, <2>6
  <2>8. v = w
    BY <2>3, <2>4, <2>5, <2>7, SeqEqual
  <2> QED
    BY <2>8 DEF v, w, x, y, t
<1> QED
  BY <1>6, <1>7 DEF FileName, u

-----------------------------------------------------------------------------
(***************************************************************************)
(* What is asked, and the types.                                           *)
(***************************************************************************)

\* A character of the form's text, as the browser sends it.
EncodedChar(c) == IF c \in DOMAIN FormEncoding THEN FormEncoding[c] ELSE <<c>>

\* What is left of them when the separators of a URI are encoded.
Unreserved == Symbols \ {"?", "&", "="}

LEMMA FormEscapes ==
  ASSUME NEW c \in DOMAIN FormEncoding, c # " "
  PROVE  \E x, y \in DOMAIN Hex :
           /\ FormEncoding[c] = <<"%", x, y>> /\ 16 * Hex[x] + Hex[y] \in 32 .. 127
           /\ CharOf[16 * Hex[x] + Hex[y]] = c
<1>1. IF c = " " THEN FormEncoding[c] = <<"+">>
      ELSE \E x, y \in DOMAIN Hex :
             /\ FormEncoding[c] = <<"%", x, y>>
             /\ 16 * Hex[x] + Hex[y] \in 32 .. 127
             /\ CharOf[16 * Hex[x] + Hex[y]] = c
  BY FormAssumption, Zenon
<1> QED
  BY <1>1, Zenon

LEMMA EncodedCharType ==
  ASSUME NEW c \in Symbols
  PROVE  EncodedChar(c) \in Seq(Unreserved)
<1>1. "%" \in Unreserved /\ "+" \in Unreserved /\ DOMAIN Hex \subseteq Unreserved
  <2>1. "%" \in Symbols /\ "+" \in Symbols /\ DOMAIN Hex \subseteq Symbols
    BY DEF Symbols, FixedSymbols
  <2>2. "?" \notin DOMAIN Hex /\ "&" \notin DOMAIN Hex /\ "=" \notin DOMAIN Hex
    BY DEF Hex
  <2> QED
    BY <2>1, <2>2 DEF Unreserved
<1>2. CASE c \notin DOMAIN FormEncoding
  <2>0. "?" \in DOMAIN FormEncoding /\ "&" \in DOMAIN FormEncoding /\ "=" \in DOMAIN FormEncoding
    BY FormAssumption, Zenon
  <2>1. c \in Unreserved
    BY <1>2, <2>0 DEF Unreserved
  <2> QED
    BY <1>2, <2>1 DEF EncodedChar
<1>3. CASE c \in DOMAIN FormEncoding /\ c = " "
  <2>1. FormEncoding[c] = <<"+">>
    BY <1>3, FormAssumption, Zenon
  <2>2. EncodedChar(c) = FormEncoding[c]
    BY <1>3 DEF EncodedChar
  <2>3. <<"+">> \in Seq(Unreserved)
    BY <1>1
  <2> QED
    BY <2>1, <2>2, <2>3, Zenon
<1>4. CASE c \in DOMAIN FormEncoding /\ c # " "
  <2>1. PICK x, y \in DOMAIN Hex : FormEncoding[c] = <<"%", x, y>>
    BY <1>4, FormEscapes, Zenon
  <2>2. x \in Unreserved /\ y \in Unreserved /\ "%" \in Unreserved
    BY <1>1
  <2>3. <<"%", x, y>> \in Seq(Unreserved)
    BY <2>2
  <2>4. EncodedChar(c) = FormEncoding[c]
    BY <1>4 DEF EncodedChar
  <2> QED
    BY <2>1, <2>3, <2>4, Zenon
<1> QED
  BY <1>2, <1>3, <1>4

LEMMA EncodedIs ==
  ASSUME NEW t
  PROVE  Encoded(t) = FlattenSeq([k \in DOMAIN t |-> EncodedChar(t[k])])
BY DEF Encoded, EncodedChar

LEMMA EncodedType ==
  ASSUME NEW t \in Seq(Symbols)
  PROVE  Encoded(t) \in Seq(Unreserved) /\ Encoded(t) \in Seq(Symbols)
<1> DEFINE ss == [k \in DOMAIN t |-> EncodedChar(t[k])]
<1>1. \A k \in DOMAIN t : EncodedChar(t[k]) \in Seq(Unreserved)
  BY EncodedCharType
<1>2. DOMAIN t = 1 .. Len(t) /\ Len(t) \in Nat
  OBVIOUS
<1>3. ss \in Seq(Seq(Unreserved))
  BY <1>1, <1>2
<1>4. Encoded(t) = FlattenSeq(ss)
  BY EncodedIs
<1> HIDE DEF ss
<1>5. FlattenSeq(ss) \in Seq(Unreserved)
  BY <1>3, FlattenType
<1>6. Unreserved \subseteq Symbols
  BY DEF Unreserved
<1> DEFINE e == FlattenSeq(ss)
<1> HIDE DEF e
<1>7. e \in Seq(Unreserved)
  BY <1>5 DEF e
<1>8. e \in Seq(Symbols)
  BY <1>6, <1>7, SeqMonotonic
<1> QED
  BY <1>4, <1>7, <1>8 DEF e

Query == <<"/query", "?", "terms", "=">>

\* What can be asked for, and the URI that asks for it.
Wanted == [kind : {"form"}, what : Texts] \cup [kind : {"uri"}, what : Uris]
            \cup [kind : {"link"}, what : Docs]
UriOf(a) == CASE a.kind = "form" -> Query \o Encoded(a.what)
              [] a.kind = "link" -> Link(a.what) [] OTHER -> a.what

AskInv == \/ ask = Nothing /\ uri = <<>>
          \/ ask \in Wanted /\ uri \in {<<>>, UriOf(ask)}

LEMMA UriOfType ==
  ASSUME NEW a \in Wanted
  PROVE  UriOf(a) \in Seq(Symbols) /\ UriOf(a) # <<>> /\ a # Nothing
<1>1. a # Nothing
  BY DEF Wanted, Nothing
<1>2. CASE a \in [kind : {"form"}, what : Texts]
  <2> DEFINE x == Query
             y == Encoded(a.what)
  <2>1. UriOf(a) = x \o y
    BY <1>2 DEF UriOf
  <2>2. x \in Seq(Symbols) /\ Len(x) = 4
    BY Fixed DEF Query
  <2>3. y \in Seq(Symbols)
    <3>1. a.what \in Seq(Symbols)
      BY <1>2, Universe
    <3> QED
      BY <3>1, EncodedType
  <2> HIDE DEF x, y
  <2>4. x \o y \in Seq(Symbols) /\ Len(x \o y) = 4 + Len(y) /\ Len(y) \in Nat
    <3>1. x \in Seq(Symbols) /\ Len(y) \in Nat
      BY <2>2, <2>3
    <3>2. x \o y \in Seq(Symbols) /\ Len(x \o y) = Len(x) + Len(y)
      BY <2>3, <3>1, ConcatProperties
    <3> QED
      BY <2>2, <3>1, <3>2
  <2>5. x \o y # <<>>
    BY <2>4
  <2> QED
    BY <1>1, <2>1, <2>4, <2>5
<1>3. CASE a \in [kind : {"uri"}, what : Uris]
  BY <1>1, <1>3, Universe, StringsAssumption DEF UriOf
<1>4. CASE a \in [kind : {"link"}, what : Docs]
  <2>1. UriOf(a) = Link(a.what) /\ a.what \in Seq(Symbols)
    BY <1>4, Universe DEF UriOf
  <2> QED
    BY <1>1, <2>1, LinkBegins
<1> QED
  BY <1>2, <1>3, <1>4 DEF Wanted

LEMMA UriType ==
  ASSUME AskInv
  PROVE  uri \in Seq(Symbols)
BY UriOfType, Fixed DEF AskInv

\* The responses.
LEMMA ResponseFields ==
  /\ NoResponse.code = 0 /\ NoResponse.file = <<>> /\ NoResponse.links = {}
  /\ \A d : LET r == [NoResponse EXCEPT !.code = 200, !.file = d]
            IN  r.code = 200 /\ r.file = d /\ r.links = {}
  /\ \A n : /\ NotFound(n).code = 404 /\ NotFound(n).file = <<>> /\ NotFound(n).links = {}
            /\ NotFound(n).shown = escape_html(n)
  /\ \A L : LET r == [NoResponse EXCEPT !.code = 200, !.links = L]
            IN  r.code = 200 /\ r.file = <<>> /\ r.links = L
BY DEF NoResponse, NotFound

\* Every step either sends, or leaves, or answers, or removes a document.
LEMMA StepCases ==
  ASSUME AskInv, TypeOK, Next
  PROVE  \/ \E a \in Wanted : /\ uri = <<>> /\ ask' = a /\ uri' = UriOf(a)
                              /\ response' = NoResponse /\ files' = files
         \/ /\ ask' = Nothing /\ uri' = <<>> /\ uri = <<>>
            /\ response' = NoResponse /\ files' = files
         \/ uri # <<>> /\ uri' = <<>> /\ ask' = ask /\ files' = files
              /\ (ProcessFileRequest \/ ProcessQueryRequest)
         \/ /\ \E d \in files : files' = files \ {d}
            /\ UNCHANGED <<ask, uri, response>>
<1> DEFINE Sends(a) == /\ uri = <<>> /\ ask' = a /\ uri' = UriOf(a)
                       /\ response' = NoResponse /\ files' = files
<1>1. ASSUME NEW text \in Texts, Submit(text) PROVE \E a \in Wanted : Sends(a)
  <2> DEFINE a == [kind |-> "form", what |-> text]
  <2>1. a \in Wanted
    BY DEF Wanted
  <2>2. UriOf(a) = Query \o Encoded(text)
    BY DEF UriOf
  <2>3. Sends(a)
    BY <1>1, <2>2 DEF Submit, Send, Query
  <2> HIDE DEF a, Sends
  <2> QED
    BY <2>1, <2>3
<1>2. ASSUME NEW u \in Uris, Get(u) PROVE \E a \in Wanted : Sends(a)
  <2> DEFINE a == [kind |-> "uri", what |-> u]
  <2>1. a \in Wanted
    BY DEF Wanted
  <2>2. UriOf(a) = u
    BY DEF UriOf
  <2>3. Sends(a)
    BY <1>2, <2>2 DEF Get, Send
  <2> HIDE DEF a, Sends
  <2> QED
    BY <2>1, <2>3
<1>3. ASSUME NEW d \in Docs, Follow(d) PROVE \E a \in Wanted : Sends(a)
  <2> DEFINE a == [kind |-> "link", what |-> d]
  <2>1. a \in Wanted
    BY DEF Wanted
  <2>2. UriOf(a) = Link(d)
    BY DEF UriOf
  <2>3. Sends(a)
    BY <1>3, <2>2 DEF Follow, Send
  <2> HIDE DEF a, Sends
  <2> QED
    BY <2>1, <2>3
<1>4. ASSUME ProcessFileRequest \/ ProcessQueryRequest
      PROVE  uri # <<>> /\ uri' = <<>> /\ ask' = ask /\ files' = files
  BY <1>4 DEF ProcessFileRequest, ProcessQueryRequest, Answer
<1>5. CASE Leave
  BY <1>5 DEF Leave
<1>6. ASSUME NEW d \in Docs, Unlink(d)
      PROVE  (\E e \in files : files' = files \ {e}) /\ UNCHANGED <<ask, uri, response>>
  BY <1>6 DEF Unlink
<1> QED
  BY <1>1, <1>2, <1>3, <1>4, <1>5, <1>6 DEF Next, Browser

\* What a file request is answered with.
Found(name) == /\ response'.code = 200 /\ response'.links = {}
               /\ response'.file \in files \cup Others
               /\ name \in DOMAIN LeadsTo /\ LeadsTo[name] = response'.file
Missing(name) == /\ response'.code = 404 /\ response'.links = {} /\ response'.file = <<>>
                 /\ response'.shown = escape_html(name)
                 /\ name \in DOMAIN LeadsTo => LeadsTo[name] \notin files \cup Others

LEMMA FileAnswer ==
  ASSUME ProcessFileRequest
  PROVE  /\ StaticUri(uri)
         /\ LET name == FileName(parse(URLParser, uri).path) IN Found(name) \/ Missing(name)
<1> DEFINE name == FileName(parse(URLParser, uri).path)
<1>1. StaticUri(uri)
  BY DEF ProcessFileRequest, IsStatic, StaticUri
<1>2. \/ \E f \in Named(name) : Answer([NoResponse EXCEPT !.code = 200, !.file = f])
      \/ Named(name) = {} /\ Answer(NotFound(name))
  BY Zenon DEF ProcessFileRequest
<1> HIDE DEF name
<1>3. ASSUME NEW f \in Named(name), Answer([NoResponse EXCEPT !.code = 200, !.file = f])
      PROVE  Found(name)
  <2>1. f \in files \cup Others /\ name \in DOMAIN LeadsTo /\ LeadsTo[name] = f
    BY Zenon DEF Named
  <2>2. response'.code = 200 /\ response'.links = {} /\ response'.file = f
    BY <1>3, ResponseFields DEF Answer
  <2> QED
    BY <2>1, <2>2, Zenon DEF Found
<1>4. ASSUME Named(name) = {} /\ Answer(NotFound(name)) PROVE Missing(name)
  <2>1. name \in DOMAIN LeadsTo => LeadsTo[name] \notin files \cup Others
    BY <1>4, Zenon DEF Named
  <2>2. /\ response'.code = 404 /\ response'.links = {} /\ response'.file = <<>>
        /\ response'.shown = escape_html(name)
    BY <1>4, ResponseFields DEF Answer
  <2>3. Missing(name)
    BY <2>1, <2>2, Zenon DEF Missing
  <2> QED
    BY <2>3
<1>5. Found(name) \/ Missing(name)
  BY <1>2, <1>3, <1>4, Zenon
<1> QED
  BY <1>1, <1>5 DEF name

LEMMA QueryAnswer ==
  ASSUME ProcessQueryRequest
  PROVE  /\ ~StaticUri(uri) /\ response'.code = 200 /\ response'.file = <<>>
         /\ response'.links = Results(parse(URLParser, uri).args)
<1> DEFINE L == Results(parse(URLParser, uri).args)
<1>1. ~StaticUri(uri)
  BY DEF ProcessQueryRequest, IsStatic, StaticUri
<1>2. response' = [NoResponse EXCEPT !.code = 200, !.links = L]
  BY DEF ProcessQueryRequest, Answer
<1> HIDE DEF L
<1>3. response'.code = 200 /\ response'.file = <<>> /\ response'.links = L
  BY <1>2, ResponseFields
<1> QED
  BY <1>1, <1>3 DEF L

LEMMA AskInvariant == Spec => [](AskInv /\ TypeOK)
<1>1. Init => AskInv /\ TypeOK
  BY DEF Init, AskInv, TypeOK, Nothing, NoResponse
<1>2. AskInv /\ TypeOK /\ [Next]_vars => AskInv' /\ TypeOK'
  <2> SUFFICES ASSUME AskInv, TypeOK, Next PROVE AskInv' /\ TypeOK'
    <3>1. AskInv /\ TypeOK /\ UNCHANGED vars => AskInv' /\ TypeOK'
      BY DEF AskInv, TypeOK, vars
    <3> QED
      BY <3>1
  <2>1. ASSUME NEW a \in Wanted, uri = <<>>, ask' = a, uri' = UriOf(a),
               response' = NoResponse, files' = files
        PROVE  AskInv' /\ TypeOK'
    <3>1. a.kind \in {"nothing", "form", "uri", "link"}
      BY DEF Wanted
    <3>2. UriOf(a) # <<>>
      BY UriOfType
    <3>3. AskInv'
      BY <2>1 DEF AskInv
    <3> QED
      BY <2>1, <3>1, <3>2, <3>3, ResponseFields DEF TypeOK
  <2>2. CASE ask' = Nothing /\ uri' = <<>> /\ response' = NoResponse /\ files' = files
    <3>1. Nothing.kind = "nothing"
      BY DEF Nothing
    <3> QED
      BY <2>2, <3>1, ResponseFields DEF AskInv, TypeOK
  <2>3. ASSUME uri # <<>>, uri' = <<>>, ask' = ask, files' = files,
               ProcessFileRequest \/ ProcessQueryRequest
        PROVE  AskInv' /\ TypeOK'
    <3>1. ask # Nothing
      BY <2>3, UriOfType DEF AskInv
    <3>2. AskInv'
      BY <2>3, <3>1 DEF AskInv
    <3>3. response'.code \in {200, 404} /\ response'.links \subseteq Docs
          /\ response'.file \in Docs \cup Others \cup {<<>>}
          /\ (response'.file # <<>> => response'.code = 200)
      <4>1. CASE ProcessFileRequest
        BY <4>1, FileAnswer DEF TypeOK, Found, Missing
      <4>2. CASE ProcessQueryRequest
        <5>1. \A args : Results(args) \subseteq Docs
          BY DEF Results, lookup_query
        <5> QED
          BY <4>2, <5>1, QueryAnswer
      <4> QED
        BY <2>3, <4>1, <4>2
    <3> QED
      BY <2>3, <3>1, <3>2, <3>3 DEF TypeOK
  <2>4. CASE (\E d \in files : files' = files \ {d}) /\ UNCHANGED <<ask, uri, response>>
    BY <2>4 DEF AskInv, TypeOK
  <2> QED
    BY <2>1, <2>2, <2>3, <2>4, StepCases
<1> QED
  BY <1>1, <1>2, PTL DEF Spec

\* A request that has been answered has a response code, 200 if a file was opened
\* for it, whatever file or directory that is; and only documents of the index are
\* linked (HttpServer.cpp:216-262, 305).
THEOREM TypeCorrect == Spec => []TypeOK
BY AskInvariant, PTL

\* decode_URI replaces every escape of a URI once and nothing else, whatever
\* the URI and however long (HttpUtils.cpp:110-167).
THEOREM Decoding == Spec => []DecodeExact
<1>1. AskInv => DecodeExact
  <2> SUFFICES ASSUME AskInv PROVE DecodeExact
    OBVIOUS
  <2>1. uri \in Seq(Symbols) /\ HoldsCodes(Symbols)
    BY UriType, Universe
  <2>2. decode_URI(uri) = FlattenSeq([k \in DOMAIN uri |-> DecodedAt(uri, k)])
    BY <2>1, DecodeIsExact
  <2> QED
    BY <2>2 DEF DecodeExact
<1> QED
  BY <1>1, AskInvariant, PTL

\* A 404 shows the name of the file with every character escaped once, although
\* escape_html goes over it five times (HttpUtils.cpp:99-103).
THEOREM Escaping == Spec => []EscapedOnce
<1> DEFINE Name == FileName(parse(URLParser, ask.what).path)
           Right == response.shown = FlattenSeq([k \in DOMAIN Name |-> EscapedChar(Name[k])])
<1>1. Init => EscapedOnce
  BY DEF Init, EscapedOnce, Nothing
<1>2. AskInv /\ TypeOK /\ EscapedOnce /\ [Next]_vars => EscapedOnce'
  <2> SUFFICES ASSUME AskInv, TypeOK, EscapedOnce, Next PROVE EscapedOnce'
    <3>1. EscapedOnce /\ UNCHANGED vars => EscapedOnce'
      BY DEF EscapedOnce, vars
    <3> QED
      BY <3>1
  <2>1. CASE response' = NoResponse
    BY <2>1, ResponseFields DEF EscapedOnce
  <2>2. ASSUME uri # <<>>, uri' = <<>>, ask' = ask, ProcessFileRequest \/ ProcessQueryRequest
        PROVE  EscapedOnce'
    <3> SUFFICES ASSUME ask.kind = "uri", response'.code = 404 PROVE Right'
      BY <2>2 DEF EscapedOnce
    <3>1. uri = ask.what
      BY <2>2 DEF AskInv, UriOf, Nothing
    <3>2. ProcessFileRequest
      BY <2>2, QueryAnswer
    <3> DEFINE n == FileName(parse(URLParser, uri).path)
    <3>3. StaticUri(uri) /\ response'.shown = escape_html(n)
      BY <3>2, FileAnswer DEF Found, Missing
    <3>4. n \in Seq(Symbols)
      BY <3>3, UriType, StaticName
    <3> HIDE DEF n
    <3>5. escape_html(n) = FlattenSeq([k \in DOMAIN n |-> EscapedChar(n[k])])
      BY <3>4, Universe, EscapeExact
    <3>6. Name' = n
      BY <2>2, <3>1 DEF n
    <3> HIDE DEF Name
    <3> QED
      BY <3>3, <3>5, <3>6
  <2>3. CASE UNCHANGED <<ask, uri, response>>
    BY <2>3 DEF EscapedOnce
  <2> QED
    BY <2>1, <2>2, <2>3, StepCases
<1> QED
  BY <1>1, <1>2, AskInvariant, PTL DEF Spec

\* A link of a page of results leads to the document it names or, when that has
\* gone, to a 404, never to any other file, whatever else the server can open; for
\* a name that a link can hold as it stands (HttpServer.cpp:332, 208-216).
THEOREM LinksRight == Spec => []LinksLeadBack
<1>1. Init => LinksLeadBack
  BY DEF Init, LinksLeadBack, Nothing
<1>2. AskInv /\ TypeOK /\ LinksLeadBack /\ [Next]_vars => LinksLeadBack'
  <2> SUFFICES ASSUME AskInv, TypeOK, LinksLeadBack, Next PROVE LinksLeadBack'
    <3>1. LinksLeadBack /\ UNCHANGED vars => LinksLeadBack'
      BY DEF LinksLeadBack, Plain, vars
    <3> QED
      BY <3>1
  <2>1. ASSUME NEW a \in Wanted, uri' = UriOf(a) PROVE LinksLeadBack'
    BY <2>1, UriOfType DEF LinksLeadBack
  <2>2. CASE ask' = Nothing
    BY <2>2 DEF LinksLeadBack, Nothing
  <2>3. ASSUME uri # <<>>, uri' = <<>>, ask' = ask, files' = files,
               ProcessFileRequest \/ ProcessQueryRequest
        PROVE  LinksLeadBack'
    <3> DEFINE d == ask.what
    <3> SUFFICES ASSUME ask.kind = "link", Plain(d)
                 PROVE  \/ response'.code = 200 /\ response'.file = d
                        \/ response'.code = 404 /\ d \notin files
      BY <2>3 DEF LinksLeadBack, Plain
    <3>1. d \in Docs /\ uri = Link(d)
      BY <2>3 DEF AskInv, Wanted, UriOf, Nothing
    <3>2. d \in Seq(Symbols) /\ files \subseteq Seq(Symbols)
      BY <3>1, Universe DEF TypeOK
    <3> DEFINE name == FileName(parse(URLParser, uri).path)
               at == <<".", "/">>
    <3>3. ProcessFileRequest
      <4>1. StaticUri(uri)
        BY <3>1, <3>2, LinkBegins
      <4> QED
        BY <2>3, <4>1, QueryAnswer
    <3>4. name = at \o d
      BY <3>1, <3>2, LinkName
    <3>5. Found(name) \/ Missing(name)
      BY <3>3, FileAnswer
    <3>6. at \o d \in DOMAIN LeadsTo /\ LeadsTo[at \o d] = d
      BY <3>1, FilesAssumption
    <3> HIDE DEF name, at, d
    <3>7. CASE Found(name)
      BY <3>4, <3>6, <3>7 DEF Found
    <3>8. CASE Missing(name)
      BY <3>4, <3>6, <3>8 DEF Missing
    <3> QED
      BY <3>5, <3>7, <3>8
  <2>4. CASE (\E e \in files : files' = files \ {e}) /\ UNCHANGED <<ask, uri, response>>
    BY <2>4 DEF LinksLeadBack, Plain
  <2> QED
    BY <2>1, <2>2, <2>3, <2>4, StepCases
<1> QED
  BY <1>1, <1>2, AskInvariant, PTL DEF Spec

-----------------------------------------------------------------------------
(***************************************************************************)
(* What the browser encodes, the server decodes.                           *)
(***************************************************************************)

\* Where the i-th of the sequences lies in their concatenation s: behind l[i - 1].
Lies(l, s, ss) ==
  /\ l \in [0 .. Len(ss) -> Nat] /\ l[0] = 0 /\ l[Len(ss)] = Len(s)
  /\ \A i \in 1 .. Len(ss) : /\ l[i] = l[i - 1] + Len(ss[i]) /\ l[i] <= Len(s)
                             /\ \A j \in 1 .. Len(ss[i]) : s[l[i - 1] + j] = ss[i][j]

LEMMA FlattenLies ==
  ASSUME NEW T, NEW ss \in Seq(Seq(T))
  PROVE  \E l : Lies(l, FlattenSeq(ss), ss)
<1> DEFINE n == Len(ss)
<1>0. n \in Nat
  OBVIOUS
<1>1. PICK g \in [0 .. n -> Seq(T)] :
        /\ g[0] = <<>> /\ \A i \in 1 .. n : g[i] = g[i - 1] \o ss[i]
        /\ FlattenSeq(ss) = g[n]
  BY FlattenPrefixes
<1> DEFINE s == g[n]
           l == [i \in 0 .. n |-> Len(g[i])]
<1>2. /\ \A i \in 0 .. n : g[i] \in Seq(T) /\ Len(g[i]) \in Nat
      /\ \A i \in 1 .. n : ss[i] \in Seq(T) /\ Len(ss[i]) \in Nat
  <2>1. \A x \in Seq(T) : Len(x) \in Nat
    OBVIOUS
  <2>2. \A i \in 0 .. n : g[i] \in Seq(T)
    BY <1>1
  <2>3. \A i \in 1 .. n : ss[i] \in Seq(T)
    OBVIOUS
  <2> QED
    BY <2>1, <2>2, <2>3, Zenon
<1>3. \A i \in 1 .. n :
        /\ i - 1 \in 0 .. n /\ Len(g[i]) = Len(g[i - 1]) + Len(ss[i])
        /\ \A j \in 1 .. Len(g[i - 1]) : g[i][j] = g[i - 1][j]
        /\ \A j \in 1 .. Len(ss[i]) : g[i][Len(g[i - 1]) + j] = ss[i][j]
  <2> TAKE i \in 1 .. n
  <2> DEFINE a == g[i - 1]
             b == ss[i]
             c == g[i]
  <2>0. i - 1 \in 0 .. n
    BY <1>0
  <2>1. a \in Seq(T) /\ b \in Seq(T) /\ c = a \o b
    BY <1>1, <1>2, <2>0
  <2> HIDE DEF a, b, c
  <2>2. /\ Len(a \o b) = Len(a) + Len(b) /\ Len(a) \in Nat /\ Len(b) \in Nat
        /\ \A k \in 1 .. Len(a) + Len(b) : (a \o b)[k] = IF k <= Len(a) THEN a[k]
                                                         ELSE b[k - Len(a)]
    BY <2>1, ConcatProperties
  <2>3. \A j \in 1 .. Len(a) : c[j] = a[j]
    BY <2>1, <2>2
  <2>4. ASSUME NEW j \in 1 .. Len(b) PROVE c[Len(a) + j] = b[j]
    <3>1. /\ Len(a) + j \in 1 .. Len(a) + Len(b) /\ ~(Len(a) + j <= Len(a))
          /\ (Len(a) + j) - Len(a) = j
      BY <2>2
    <3> QED
      BY <2>1, <2>2, <3>1
  <2> QED
    BY <2>0, <2>1, <2>2, <2>3, <2>4 DEF a, b, c
<1> DEFINE Begins(i) == Len(g[i]) <= Len(s) /\ \A j \in 1 .. Len(g[i]) : s[j] = g[i][j]
           E == {m \in Nat : \A i \in 0 .. n : i + m = n => Begins(i)}
<1>4. 0 \in E
  <2>1. Begins(n)
    BY <1>0, <1>2
  <2> HIDE DEF Begins
  <2> QED
    BY <1>0, <2>1
<1>5. ASSUME NEW m \in Nat, m \in E PROVE m + 1 \in E
  <2> SUFFICES ASSUME NEW i \in 0 .. n, i + (m + 1) = n PROVE Begins(i)
    OBVIOUS
  <2>1. i + 1 \in 1 .. n /\ i + 1 \in 0 .. n /\ (i + 1) + m = n /\ (i + 1) - 1 = i
    BY <1>0
  <2>2. Begins(i + 1)
    BY <1>5, <2>1
  <2>3. /\ Len(g[i + 1]) = Len(g[i]) + Len(ss[i + 1])
        /\ \A j \in 1 .. Len(g[i]) : g[i + 1][j] = g[i][j]
    <3>1. /\ Len(g[i + 1]) = Len(g[(i + 1) - 1]) + Len(ss[i + 1])
          /\ \A j \in 1 .. Len(g[(i + 1) - 1]) : g[i + 1][j] = g[(i + 1) - 1][j]
      BY <1>3, <2>1, Zenon
    <3>2. (i + 1) - 1 = i
      BY <2>1
    <3> QED
      BY <3>1, <3>2, Zenon
  <2>4. Len(g[i]) \in Nat /\ Len(ss[i + 1]) \in Nat /\ Len(s) \in Nat
    BY <1>0, <1>2, <2>1
  <2> HIDE DEF s
  <2>5. Len(g[i]) <= Len(s)
    BY <2>2, <2>3, <2>4
  <2>6. ASSUME NEW j \in 1 .. Len(g[i]) PROVE s[j] = g[i][j]
    <3>1. j \in 1 .. Len(g[i + 1])
      BY <2>3, <2>4
    <3> QED
      BY <2>2, <2>3, <3>1
  <2> QED
    BY <2>5, <2>6
<1> HIDE DEF E
<1>6. \A m \in Nat : m \in E
  BY <1>4, <1>5, AllNumbers, Zenon
<1>7. ASSUME NEW i \in 0 .. n PROVE Begins(i)
  <2>1. n - i \in Nat /\ i + (n - i) = n
    BY <1>0
  <2>2. n - i \in E
    BY <1>6, <2>1
  <2> HIDE DEF Begins
  <2> QED
    BY <2>1, <2>2 DEF E
<1>8. l \in [0 .. n -> Nat] /\ l[0] = 0 /\ l[n] = Len(s)
  BY <1>0, <1>1, <1>2
<1>9. ASSUME NEW i \in 1 .. n
      PROVE  /\ l[i] = l[i - 1] + Len(ss[i]) /\ l[i] <= Len(s)
             /\ \A j \in 1 .. Len(ss[i]) : s[l[i - 1] + j] = ss[i][j]
  <2>1. i \in 0 .. n /\ i - 1 \in 0 .. n
    BY <1>0
  <2>2. l[i] = Len(g[i]) /\ l[i - 1] = Len(g[i - 1])
    BY <2>1
  <2>3. Begins(i)
    BY <1>7, <2>1
  <2> HIDE DEF l, s
  <2>4. ASSUME NEW j \in 1 .. Len(ss[i]) PROVE s[l[i - 1] + j] = ss[i][j]
    <3>1. Len(g[i - 1]) + j \in 1 .. Len(g[i])
      <4>1. /\ Len(g[i]) = Len(g[i - 1]) + Len(ss[i])
            /\ Len(g[i - 1]) \in Nat /\ Len(ss[i]) \in Nat
        BY <1>2, <1>3, <2>1, Zenon
      <4>2. \A u \in Nat, v \in Nat : \A k \in 1 .. v : u + k \in 1 .. u + v
        OBVIOUS
      <4> QED
        BY <4>1, <4>2, Zenon
    <3>2. s[Len(g[i - 1]) + j] = g[i][Len(g[i - 1]) + j]
      BY <2>3, <3>1
    <3>3. g[i][Len(g[i - 1]) + j] = ss[i][j]
      BY <1>3
    <3> QED
      BY <2>2, <3>2, <3>3
  <2> QED
    BY <1>3, <2>2, <2>3, <2>4
<1> HIDE DEF l
<1>10. Lies(l, s, ss)
  BY <1>8, <1>9 DEF Lies
<1> QED
  BY <1>1, <1>10

\* At the place of an encoded character, that character is decoded.
LEMMA DecodesChar ==
  ASSUME NEW s \in Seq(Symbols), NEW c \in Symbols, NEW a \in Nat,
         a + Len(EncodedChar(c)) <= Len(s),
         \A j \in 1 .. Len(EncodedChar(c)) : s[a + j] = EncodedChar(c)[j]
  PROVE  /\ a + 1 \in 1 .. Len(s) /\ Decoded(s, a + 1) = <<c>>
         /\ (a + 1) + Jump(s, a + 1) = (a + Len(EncodedChar(c))) + 1
<1> DEFINE p == a + 1
           e == EncodedChar(c)
<1>0. Len(s) \in Nat
  OBVIOUS
<1>1. CASE c \notin DOMAIN FormEncoding
  <2>0. "+" \in DOMAIN FormEncoding /\ "%" \in DOMAIN FormEncoding
    BY FormAssumption, Zenon
  <2>1. e = <<c>> /\ c \notin {"+", "%"}
    BY <1>1, <2>0 DEF EncodedChar
  <2>2. Len(e) = 1 /\ e[1] = c
    BY <2>1
  <2>3. s[p] = c
    BY <2>2
  <2>4. Decoded(s, p) = <<c>> /\ Jump(s, p) = 1
    BY <2>1, <2>3 DEF Decoded, Jump, IsEscape
  <2> HIDE DEF e
  <2> QED
    BY <1>0, <2>2, <2>4 DEF e
<1>2. CASE c \in DOMAIN FormEncoding /\ c = " "
  <2>1. e = <<"+">>
    BY <1>2, FormAssumption, Zenon DEF EncodedChar
  <2>2. Len(e) = 1 /\ e[1] = "+"
    BY <2>1
  <2>3. s[p] = "+"
    BY <2>2
  <2>4. Decoded(s, p) = <<c>> /\ Jump(s, p) = 1
    BY <1>2, <2>3 DEF Decoded, Jump, IsEscape
  <2> HIDE DEF e
  <2> QED
    BY <1>0, <2>2, <2>4 DEF e
<1>3. CASE c \in DOMAIN FormEncoding /\ c # " "
  <2>1. PICK x, y \in DOMAIN Hex :
          /\ FormEncoding[c] = <<"%", x, y>> /\ 16 * Hex[x] + Hex[y] \in 32 .. 127
          /\ CharOf[16 * Hex[x] + Hex[y]] = c
    BY <1>3, FormEscapes, Zenon
  <2>2. e = <<"%", x, y>>
    BY <1>3, <2>1, Zenon DEF EncodedChar
  <2>3. Len(e) = 3 /\ e[1] = "%" /\ e[2] = x /\ e[3] = y
    BY <2>2
  <2>4. s[p] = "%" /\ s[p + 1] = x /\ s[p + 2] = y /\ p + 2 <= Len(s)
    <3>1. s[a + 1] = e[1] /\ s[a + 2] = e[2] /\ s[a + 3] = e[3] /\ a + 3 <= Len(s)
      BY <2>3
    <3>2. p + 1 = a + 2 /\ p + 2 = a + 3
      OBVIOUS
    <3> QED
      BY <2>3, <3>1, <3>2
  <2>5. Look(s, p + 1) = x /\ Look(s, p + 2) = y
    <3>1. p + 1 <= Len(s) /\ p + 2 <= Len(s)
      BY <1>0, <2>4
    <3> QED
      BY <2>4, <3>1, Zenon DEF Look
  <2>6. Code(s, p) = 16 * Hex[x] + Hex[y]
    BY <2>5, Zenon DEF Code
  <2>7. IsEscape(s, p)
    BY <2>1, <2>4, <2>5, <2>6, Zenon DEF IsEscape
  <2>8. Decoded(s, p) = <<c>>
    <3>1. s[p] # "+" /\ CharOf[Code(s, p)] = c
      BY <2>1, <2>4, <2>6
    <3> QED
      BY <2>7, <3>1 DEF Decoded
  <2>9. Jump(s, p) = 3
    BY <2>7 DEF Jump, EscapeLength
  <2> HIDE DEF e
  <2> QED
    BY <1>0, <2>3, <2>8, <2>9 DEF e
<1> QED
  BY <1>1, <1>2, <1>3

LEMMA DecodeEncoded ==
  ASSUME NEW t \in Seq(Symbols)
  PROVE  decode_URI(Encoded(t)) = t
<1> DEFINE ss == [k \in DOMAIN t |-> EncodedChar(t[k])]
           s == Encoded(t)
           n == Len(t)
<1>0. n \in Nat /\ DOMAIN t = 1 .. n /\ \A i \in 1 .. n : t[i] \in Symbols
  OBVIOUS
<1>1. ss \in Seq(Seq(Unreserved)) /\ Len(ss) = n /\ \A i \in 1 .. n : ss[i] = EncodedChar(t[i])
  BY <1>0, EncodedCharType
<1>2. s \in Seq(Symbols) /\ s = FlattenSeq(ss)
  BY EncodedType, EncodedIs
<1> HIDE DEF ss, s, n
<1>3. PICK l : Lies(l, s, ss)
  BY <1>1, <1>2, FlattenLies
<1>4. /\ l \in [0 .. n -> Nat] /\ l[0] = 0 /\ l[n] = Len(s)
      /\ \A i \in 1 .. n : /\ l[i] = l[i - 1] + Len(ss[i]) /\ l[i] <= Len(s)
                           /\ \A j \in 1 .. Len(ss[i]) : s[l[i - 1] + j] = ss[i][j]
  BY <1>1, <1>3 DEF Lies
<1>5. PICK g :
        /\ g \in [1 .. Len(s) + 3 -> Seq(Symbols)] /\ decode_URI(s) = g[1]
        /\ \A p \in Len(s) + 1 .. Len(s) + 3 : g[p] = <<>>
        /\ \A p \in 1 .. Len(s) :
             /\ Decoded(s, p) \in Seq(Symbols) /\ p + Jump(s, p) \in 1 .. Len(s) + 3
             /\ g[p] = Decoded(s, p) \o g[p + Jump(s, p)]
  <2>1. s \in Seq(Symbols) /\ HoldsCodes(Symbols)
    BY <1>2, Universe
  <2>2. \E g : Rests(g, Symbols, s)
    BY <2>1, SomeRests, Zenon
  <2> QED
    BY <2>2, Zenon DEF Rests
<1> DEFINE Ends(i) == g[l[i] + 1] = SubSeq(t, i + 1, n)
           E == {m \in Nat : \A i \in 0 .. n : i + m = n => Ends(i)}
<1>6. 0 \in E
  <2>1. Len(s) \in Nat
    BY <1>2
  <2>2. g[l[n] + 1] = <<>>
    BY <1>4, <1>5, <2>1
  <2>3. SubSeq(t, n + 1, n) = <<>>
    BY <1>0, SubSeqEmpty
  <2>4. Ends(n)
    BY <2>2, <2>3
  <2> HIDE DEF Ends
  <2> QED
    BY <1>0, <2>4
<1>7. ASSUME NEW m \in Nat, m \in E PROVE m + 1 \in E
  <2> SUFFICES ASSUME NEW i \in 0 .. n, i + (m + 1) = n PROVE Ends(i)
    OBVIOUS
  <2>1. i + 1 \in 1 .. n /\ i + 1 \in 0 .. n /\ (i + 1) + m = n /\ (i + 1) - 1 = i
        /\ n \in i + 1 .. n
    BY <1>0
  <2>2. Ends(i + 1)
    BY <1>7, <2>1
  <2> DEFINE c == t[i + 1]
             a == l[i]
  <2>3. /\ c \in Symbols /\ a \in Nat /\ ss[i + 1] = EncodedChar(c)
        /\ l[i + 1] = a + Len(EncodedChar(c)) /\ a + Len(EncodedChar(c)) <= Len(s)
    BY <1>0, <1>1, <1>4, <2>1
  <2>4. \A j \in 1 .. Len(EncodedChar(c)) : s[a + j] = EncodedChar(c)[j]
    <3>1. \A j \in 1 .. Len(ss[i + 1]) : s[l[(i + 1) - 1] + j] = ss[i + 1][j]
      BY <1>4, <2>1
    <3> QED
      BY <2>1, <2>3, <3>1
  <2> HIDE DEF c, a
  <2>5. /\ a + 1 \in 1 .. Len(s) /\ Decoded(s, a + 1) = <<c>>
        /\ (a + 1) + Jump(s, a + 1) = (a + Len(EncodedChar(c))) + 1
    BY <1>2, <2>3, <2>4, DecodesChar
  <2>6. g[a + 1] = <<c>> \o g[l[i + 1] + 1]
    BY <1>5, <2>3, <2>5
  <2>7. SubSeq(t, i + 1, n) = <<t[i + 1]>> \o SubSeq(t, (i + 1) + 1, n)
    BY <2>1, SubSeqRecursiveFirst DEF n
  <2> QED
    BY <2>2, <2>6, <2>7 DEF a, c
<1> HIDE DEF E
<1>8. n \in E
  BY <1>0, <1>6, <1>7, AllNumbers, Zenon
<1>9. Ends(0)
  <2> HIDE DEF Ends
  <2> QED
    BY <1>0, <1>8 DEF E
<1>10. SubSeq(t, 1, n) = t
  BY SubSeqFull DEF n
<1>11. g[1] = SubSeq(t, 1, n)
  BY <1>4, <1>9
<1> QED
  BY <1>5, <1>10, <1>11 DEF s

-----------------------------------------------------------------------------
(***************************************************************************)
(* The pieces of a string are what is between its separators.              *)
(***************************************************************************)

LEMMA SomeCut ==
  ASSUME NEW S, NEW s \in Seq(S), NEW seps
  PROVE  \A k \in 0 .. Len(s) : \E c \in Nat : Cut(s, seps, c, k)
<1> DEFINE n == Len(s)
           E == {m \in Nat : m <= n => \E c \in Nat : Cut(s, seps, c, m)}
<1>0. n \in Nat
  OBVIOUS
<1>1. 0 \in E
  <2>1. Cut(s, seps, 0, 0)
    BY DEF Cut
  <2> QED
    BY <2>1
<1>2. ASSUME NEW m \in Nat, m \in E PROVE m + 1 \in E
  <2> SUFFICES ASSUME m + 1 <= n PROVE \E c \in Nat : Cut(s, seps, c, m + 1)
    OBVIOUS
  <2>1. PICK c \in Nat : Cut(s, seps, c, m)
    BY <1>0, <1>2
  <2>2. CASE s[m + 1] \in seps
    <3>1. Cut(s, seps, m + 1, m + 1)
      BY <2>2 DEF Cut
    <3> QED
      BY <3>1
  <2>3. CASE s[m + 1] \notin seps
    <3>1. Cut(s, seps, c, m + 1)
      BY <2>1, <2>3 DEF Cut
    <3> QED
      BY <3>1
  <2> QED
    BY <2>2, <2>3
<1> HIDE DEF E
<1>3. \A m \in Nat : m \in E
  BY <1>1, <1>2, AllNumbers, Zenon
<1> QED
  BY <1>0, <1>3 DEF E

\* w is what is between a separator, or the beginning, and the next separator,
\* one of the first k symbols.
Between(s, seps, k, w) ==
  \E a, b \in Nat : /\ Cut(s, seps, a, b) /\ b + 1 <= k /\ s[b + 1] \in seps
                    /\ w = SubSeq(s, a + 1, b)

\* w is one of the pieces before the last one.
Complete(h, w) == \E i \in 1 .. Len(h) - 1 : h[i] = w

LEMMA CompletePieces ==
  ASSUME NEW S, NEW s \in Seq(S), NEW seps, NEW g, SplitsUp(g, S, s, seps)
  PROVE  \A k \in 0 .. Len(s) : \A w : Complete(g[k], w) <=> Between(s, seps, k, w)
<1> DEFINE n == Len(s)
           Same(k) == \A w : Complete(g[k], w) <=> Between(s, seps, k, w)
           E == {m \in Nat : m <= n => Same(m)}
<1>0. n \in Nat
  OBVIOUS
<1>1. 0 \in E
  <2>1. Len(g[0]) = 1
    <3>1. g[0] = << <<>> >>
      BY DEF SplitsUp
    <3> QED
      BY <3>1
  <2>2. \A w : ~Complete(g[0], w)
    BY <2>1 DEF Complete
  <2>3. \A w : ~Between(s, seps, 0, w)
    BY DEF Between
  <2>4. Same(0)
    BY <2>2, <2>3, Zenon
  <2> HIDE DEF Same
  <2> QED
    BY <2>4
<1>2. ASSUME NEW m \in Nat, m \in E PROVE m + 1 \in E
  <2> SUFFICES ASSUME m + 1 <= n PROVE Same(m + 1)
    OBVIOUS
  <2>1. Same(m)
    <3> HIDE DEF Same
    <3> QED
      BY <1>0, <1>2
  <2> DEFINE b == g[m]
             h == g[m + 1]
             c == s[m + 1]
  <2>2. Len(b) \in Nat /\ Len(b) >= 1 /\ Grows(h, b, c, seps)
    BY SplitStep
  <2>3. CASE c \notin seps
    <3>1. \A w : Complete(h, w) <=> Complete(b, w)
      <4> HIDE DEF h, b, c
      <4>1. Len(h) = Len(b) /\ \A i \in 1 .. Len(b) - 1 : h[i] = b[i]
        BY <2>2, <2>3 DEF Grows
      <4> QED
        BY <4>1, Zenon DEF Complete
    <3>2. ASSUME NEW w PROVE Between(s, seps, m + 1, w) <=> Between(s, seps, m, w)
      <4>1. ASSUME NEW e \in Nat, e + 1 <= m + 1, s[e + 1] \in seps PROVE e + 1 <= m
        <5>1. e # m
          BY <2>3, <4>1
        <5> QED
          BY <4>1, <5>1
      <4>2. \A e \in Nat : e + 1 <= m => e + 1 <= m + 1
        OBVIOUS
      <4> QED
        BY <4>1, <4>2, Zenon DEF Between
    <3> QED
      BY <2>1, <3>1, <3>2, Zenon
  <2>4. CASE c \in seps
    <3> DEFINE x == b[Len(b)]
    <3>1. \A w : Complete(h, w) <=> Complete(b, w) \/ w = x
      <4> HIDE DEF h, b, c
      <4> DEFINE l == Len(b)
      <4>1. l \in Nat /\ l >= 1 /\ Len(h) - 1 = l /\ \A i \in 1 .. l : h[i] = b[i]
        BY <2>2, <2>4 DEF Grows
      <4> HIDE DEF l
      <4>2. /\ \A i \in 1 .. l - 1 : i \in 1 .. l
            /\ \A i \in 1 .. l : i \in 1 .. l - 1 \/ i = l
            /\ l \in 1 .. l
        BY <4>1
      <4>3. /\ \A w : Complete(h, w) <=> \E i \in 1 .. l : h[i] = w
            /\ \A w : Complete(b, w) <=> \E i \in 1 .. l - 1 : b[i] = w
        BY <4>1, Zenon DEF Complete, l
      <4>4. x = b[l]
        BY DEF l
      <4> HIDE DEF x
      <4>5. ASSUME NEW w, Complete(h, w) PROVE Complete(b, w) \/ w = x
        <5>1. PICK i \in 1 .. l : h[i] = w
          BY <4>3, <4>5, Zenon
        <5>2. b[i] = w /\ (i \in 1 .. l - 1 \/ i = l)
          BY <4>1, <4>2, <5>1, Zenon
        <5> QED
          BY <4>3, <4>4, <5>2, Zenon
      <4>6. ASSUME NEW w, Complete(b, w) PROVE Complete(h, w)
        <5>1. PICK i \in 1 .. l - 1 : b[i] = w
          BY <4>3, <4>6, Zenon
        <5>2. i \in 1 .. l /\ h[i] = w
          BY <4>1, <4>2, <5>1, Zenon
        <5> QED
          BY <4>3, <5>2, Zenon
      <4>7. Complete(h, x)
        BY <4>1, <4>2, <4>3, <4>4, Zenon
      <4> QED
        BY <4>5, <4>6, <4>7, Zenon
    <3>2. \A a \in Nat : Cut(s, seps, a, m) => x = SubSeq(s, a + 1, m)
      BY <1>0, LastPiece
    <3>3. PICK a0 \in Nat : Cut(s, seps, a0, m)
      <4>1. m \in 0 .. n
        BY <1>0
      <4>2. \A k \in 0 .. n : \E a \in Nat : Cut(s, seps, a, k)
        BY SomeCut
      <4> QED
        BY <4>1, <4>2, Zenon
    <3> HIDE DEF x
    <3>4. ASSUME NEW w PROVE Between(s, seps, m + 1, w) <=> Between(s, seps, m, w) \/ w = x
      <4>1. ASSUME NEW e \in Nat, e + 1 <= m + 1 PROVE e + 1 <= m \/ e = m
        BY <4>1
      <4>2. \A e \in Nat : e + 1 <= m => e + 1 <= m + 1
        OBVIOUS
      <4>3. m + 1 <= m + 1
        OBVIOUS
      <4>4. w = x => Between(s, seps, m + 1, w)
        BY <2>4, <3>2, <3>3, <4>3, Zenon DEF Between
      <4>5. Between(s, seps, m, w) => Between(s, seps, m + 1, w)
        BY <4>2, Zenon DEF Between
      <4>6. ASSUME Between(s, seps, m + 1, w) PROVE Between(s, seps, m, w) \/ w = x
        <5>1. PICK a, e \in Nat : /\ Cut(s, seps, a, e) /\ e + 1 <= m + 1 /\ s[e + 1] \in seps
                                  /\ w = SubSeq(s, a + 1, e)
          BY <4>6, Zenon DEF Between
        <5>2. CASE e = m
          <6>1. Cut(s, seps, a, m) /\ w = SubSeq(s, a + 1, m)
            BY <5>1, <5>2, Zenon
          <6> QED
            BY <3>2, <6>1, Zenon
        <5>3. CASE e + 1 <= m
          BY <5>1, <5>3, Zenon DEF Between
        <5> QED
          BY <4>1, <5>1, <5>2, <5>3
      <4> QED
        BY <4>4, <4>5, <4>6
    <3> QED
      BY <2>1, <3>1, <3>4, Zenon
  <2> QED
    BY <2>3, <2>4
<1> HIDE DEF E
<1>3. \A m \in Nat : m \in E
  BY <1>1, <1>2, AllNumbers, Zenon
<1> HIDE DEF Same
<1>4. \A k \in 0 .. n : Same(k)
  BY <1>0, <1>3 DEF E
<1> QED
  BY <1>4 DEF Same

\* A longest stretch without separators, from behind a to b.
Stretch(s, seps, a, b) ==
  Cut(s, seps, a, b) /\ b <= Len(s) /\ (b < Len(s) => s[b + 1] \in seps)

LEMMA PiecesAre ==
  ASSUME NEW S, NEW s \in Seq(S), NEW seps
  PROVE  \A w : w \in ToSet(Split(s, seps)) <=>
                  \E a, b \in Nat : Stretch(s, seps, a, b) /\ w = SubSeq(s, a + 1, b)
<1> DEFINE n == Len(s)
<1>0. n \in Nat /\ n \in 0 .. n
  OBVIOUS
<1>1. PICK g : SplitsUp(g, S, s, seps)
  BY SplitPieces
<1> DEFINE h == g[n]
           x == h[Len(h)]
<1>2. h \in Seq(Seq(S)) /\ Len(h) >= 1 /\ Split(s, seps) = h
  BY <1>0, <1>1 DEF SplitsUp
<1>3. \A w : Complete(h, w) <=> Between(s, seps, n, w)
  BY <1>0, <1>1, CompletePieces
<1>4. \A a \in Nat : Cut(s, seps, a, n) => x = SubSeq(s, a + 1, n)
  BY <1>0, <1>1, LastPiece
<1>5. PICK a0 \in Nat : Cut(s, seps, a0, n)
  BY <1>0, SomeCut
<1> HIDE DEF h
<1>6. \A w : w \in ToSet(h) <=> Complete(h, w) \/ w = x
  <2> DEFINE l == Len(h)
  <2>1. l \in Nat /\ l >= 1 /\ DOMAIN h = 1 .. l
    BY <1>2
  <2> HIDE DEF l
  <2>2. /\ \A i \in 1 .. l - 1 : i \in 1 .. l
        /\ \A i \in 1 .. l : i \in 1 .. l - 1 \/ i = l
        /\ l \in 1 .. l
    BY <2>1
  <2>3. /\ \A w : w \in ToSet(h) <=> \E i \in 1 .. l : w = h[i]
        /\ \A w : Complete(h, w) <=> \E i \in 1 .. l - 1 : h[i] = w
    BY <2>1, Zenon DEF ToSet, Complete, l
  <2>4. x = h[l]
    BY DEF l
  <2> HIDE DEF x
  <2> QED
    BY <2>2, <2>3, <2>4, Zenon
<1> HIDE DEF x
<1> TAKE w
<1>7. ASSUME w = x
      PROVE  \E a, b \in Nat : Stretch(s, seps, a, b) /\ w = SubSeq(s, a + 1, b)
  <2>1. Stretch(s, seps, a0, n)
    BY <1>0, <1>5 DEF Stretch
  <2>2. w = SubSeq(s, a0 + 1, n)
    BY <1>4, <1>5, <1>7
  <2> QED
    BY <1>0, <2>1, <2>2, Zenon
<1>8. ASSUME Between(s, seps, n, w)
      PROVE  \E a, b \in Nat : Stretch(s, seps, a, b) /\ w = SubSeq(s, a + 1, b)
  <2>1. PICK a, b \in Nat : /\ Cut(s, seps, a, b) /\ b + 1 <= n /\ s[b + 1] \in seps
                            /\ w = SubSeq(s, a + 1, b)
    BY <1>8, Zenon DEF Between
  <2>2. Stretch(s, seps, a, b)
    BY <1>0, <2>1 DEF Stretch
  <2> QED
    BY <2>1, <2>2, Zenon
<1>9. ASSUME NEW a \in Nat, NEW b \in Nat, Stretch(s, seps, a, b), w = SubSeq(s, a + 1, b)
      PROVE  Between(s, seps, n, w) \/ w = x
  <2>1. Cut(s, seps, a, b) /\ (b = n \/ (b + 1 <= n /\ s[b + 1] \in seps))
    BY <1>0, <1>9 DEF Stretch
  <2>2. CASE b = n
    <3>1. Cut(s, seps, a, n) /\ w = SubSeq(s, a + 1, n)
      BY <1>9, <2>1, <2>2, Zenon
    <3> QED
      BY <1>4, <3>1, Zenon
  <2>3. CASE b + 1 <= n /\ s[b + 1] \in seps
    BY <1>9, <2>1, <2>3, Zenon DEF Between
  <2> QED
    BY <2>1, <2>2, <2>3
<1> HIDE DEF n
<1> QED
  BY <1>2, <1>3, <1>6, <1>7, <1>8, <1>9, Zenon

LEMMA ToLowerEmpty ==
  ASSUME NEW S, NEW w \in Seq(S)
  PROVE  ToLower(w) = <<>> <=> w = <<>>
<1>1. ToLower(<<>>) = <<>>
  BY DEF ToLower
<1>2. ASSUME w # <<>> PROVE ToLower(w) # <<>>
  <2>1. Len(w) \in Nat \ {0}
    BY <1>2, EmptySeq
  <2>2. 1 \in DOMAIN w
    BY <2>1
  <2>3. DOMAIN ToLower(w) = DOMAIN w
    BY DEF ToLower
  <2>4. 1 \notin DOMAIN <<>>
    OBVIOUS
  <2> QED
    BY <2>2, <2>3, <2>4
<1> QED
  BY <1>1, <1>2

LEMMA StretchBounds ==
  ASSUME NEW n \in Nat, NEW a \in Nat, NEW b \in Nat, a \in 0 .. b, b <= n
  PROVE  /\ a # b => a + 1 \in 1 .. n /\ b \in 1 .. n /\ a + 1 <= b
         /\ a + 1 \in Int /\ b \in Int /\ a + 1 .. b \subseteq 1 .. n
         /\ (IF a + 1 <= b THEN b - (a + 1) + 1 ELSE 0) = 0 <=> a = b
OBVIOUS

\* The words of a text are its pieces in lower case, the empty ones aside.
LEMMA WordsAreTerms ==
  ASSUME NEW S, NEW t \in Seq(S)
  PROVE  {ToLower(w) : w \in ToSet(Split(t, {"+", " "}))} \ {<<>>} = WordsOf(t)
<1> DEFINE n == Len(t)
           seps == {"+", " "}
           D == 1 .. n
           inside(i, j) == \A k \in i .. j : t[k] \notin {" ", "+"}
           Good(y) == /\ y[1] <= y[2] /\ inside(y[1], y[2])
                      /\ y[1] > 1 => ~inside(y[1] - 1, y[1] - 1)
                      /\ y[2] < n => ~inside(y[2] + 1, y[2] + 1)
           Word(v) == \E i, j \in D : Good(<<i, j>>) /\ v = ToLower(SubSeq(t, i, j))
           Term(v) == \E a, b \in Nat : /\ Stretch(t, seps, a, b)
                                        /\ v = ToLower(SubSeq(t, a + 1, b))
<1>0. n \in Nat /\ DOMAIN t = D /\ \A i \in 1 .. n : t[i] \in S
  OBVIOUS
<1>1. \A v : v \in WordsOf(t) <=> \E y \in D \X D : Good(y) /\ v = ToLower(SubSeq(t, y[1], y[2]))
  <2>1. WordsOf(t) = {ToLower(SubSeq(t, x[1], x[2])) : x \in {y \in D \X D : Good(y)}}
    BY <1>0, Zenon DEF WordsOf
  <2> HIDE DEF Good, D
  <2> QED
    BY <2>1
<1>2. \A v : v \in WordsOf(t) <=> Word(v)
  <2> HIDE DEF D, Good
  <2>1. ASSUME NEW v, NEW y \in D \X D, Good(y), v = ToLower(SubSeq(t, y[1], y[2]))
        PROVE  Word(v)
    <3>1. y = <<y[1], y[2]>> /\ y[1] \in D /\ y[2] \in D
      OBVIOUS
    <3> QED
      BY <2>1, <3>1, Zenon
  <2>2. ASSUME NEW v, Word(v)
        PROVE  \E y \in D \X D : Good(y) /\ v = ToLower(SubSeq(t, y[1], y[2]))
    <3>0. PICK i, j \in D : Good(<<i, j>>) /\ v = ToLower(SubSeq(t, i, j))
      BY <2>2
    <3> DEFINE y == <<i, j>>
    <3>1. y \in D \X D /\ y[1] = i /\ y[2] = j
      OBVIOUS
    <3>2. Good(y) /\ v = ToLower(SubSeq(t, y[1], y[2]))
      BY <3>0, <3>1
    <3> HIDE DEF y
    <3> QED
      BY <3>1, <3>2
  <2> HIDE DEF Word
  <2> QED
    BY <1>1, <2>1, <2>2, Zenon
<1>3. \A i, j \in D : Good(<<i, j>>) <=> i <= j /\ Stretch(t, seps, i - 1, j)
  <2> TAKE i, j \in D
  <2> DEFINE y == <<i, j>>
  <2>1. y[1] = i /\ y[2] = j
    OBVIOUS
  <2>2. Good(y) <=> /\ i <= j /\ \A k \in i .. j : t[k] \notin seps
                    /\ i > 1 => t[i - 1] \in seps
                    /\ j < n => t[j + 1] \in seps
    <3>1. \A k \in Int : inside(k, k) <=> t[k] \notin seps
      <4>1. \A k \in Int : k .. k = {k}
        OBVIOUS
      <4> QED
        BY <4>1
    <3>2. inside(i, j) <=> \A k \in i .. j : t[k] \notin seps
      OBVIOUS
    <3>3. i - 1 \in Int /\ j + 1 \in Int
      BY <1>0
    <3> HIDE DEF y, inside, seps
    <3> QED
      BY <2>1, <3>1, <3>2, <3>3
  <2>3. Stretch(t, seps, i - 1, j) <=>
          /\ i - 1 \in 0 .. j /\ (i - 1 = 0 \/ t[i - 1] \in seps)
          /\ \A k \in (i - 1) + 1 .. j : t[k] \notin seps
          /\ j <= n /\ (j < n => t[j + 1] \in seps)
    BY Zenon DEF Stretch, Cut
  <2>4. (i - 1) + 1 = i /\ j <= n /\ (i <= j => i - 1 \in 0 .. j) /\ (i > 1 <=> ~(i - 1 = 0))
    BY <1>0
  <2> HIDE DEF seps, Good
  <2> QED
    BY <2>2, <2>3, <2>4, Zenon DEF y
<1>4. \A a, b \in Nat : Stretch(t, seps, a, b) /\ a # b => a + 1 \in D /\ b \in D /\ a + 1 <= b
  <2> TAKE a, b \in Nat
  <2> HAVE Stretch(t, seps, a, b) /\ a # b
  <2>1. a \in 0 .. b /\ b <= n
    BY DEF Stretch, Cut
  <2> HIDE DEF n
  <2> QED
    BY <1>0, <2>1, StretchBounds, Zenon
<1>5. \A a, b \in Nat : Stretch(t, seps, a, b) =>
        /\ SubSeq(t, a + 1, b) \in Seq(S)
        /\ SubSeq(t, a + 1, b) = <<>> <=> a = b
  <2> SUFFICES ASSUME NEW a \in Nat, NEW b \in Nat, Stretch(t, seps, a, b)
               PROVE  SubSeq(t, a + 1, b) \in Seq(S) /\ (SubSeq(t, a + 1, b) = <<>> <=> a = b)
    OBVIOUS
  <2> DEFINE m == a + 1
             w == SubSeq(t, m, b)
  <2>0. a \in 0 .. b /\ b <= n
    BY DEF Stretch, Cut
  <2>1. m \in Int /\ b \in Int /\ \A i \in m .. b : t[i] \in S
    <3>1. m \in Int /\ b \in Int /\ m .. b \subseteq 1 .. n
      <4> HIDE DEF n
      <4> QED
        BY <1>0, <2>0, StretchBounds, Zenon
    <3> QED
      BY <1>0, <3>1, Zenon
  <2>2. w \in Seq(S) /\ Len(w) = IF m <= b THEN b - m + 1 ELSE 0
    BY <2>1, SubSeqProperties
  <2>3. w = <<>> <=> Len(w) = 0
    <3> HIDE DEF w
    <3> QED
      BY <2>2, EmptySeq
  <2> HIDE DEF w
  <2>4. Len(w) = 0 <=> a = b
    <3>1. Len(w) = IF a + 1 <= b THEN b - (a + 1) + 1 ELSE 0
      BY <2>2
    <3>2. (IF a + 1 <= b THEN b - (a + 1) + 1 ELSE 0) = 0 <=> a = b
      <4> HIDE DEF n
      <4> QED
        BY <1>0, <2>0, StretchBounds, Zenon
    <3> QED
      BY <3>1, <3>2, Zenon
  <2> QED
    BY <2>2, <2>3, <2>4 DEF w
<1>6. \A a, b \in Nat : Stretch(t, seps, a, b) => (ToLower(SubSeq(t, a + 1, b)) = <<>> <=> a = b)
  <2>1. \A w \in Seq(S) : ToLower(w) = <<>> <=> w = <<>>
    BY ToLowerEmpty
  <2> TAKE a, b \in Nat
  <2> HAVE Stretch(t, seps, a, b)
  <2> DEFINE w == SubSeq(t, a + 1, b)
  <2>2. w \in Seq(S) /\ (w = <<>> <=> a = b)
    BY <1>5
  <2> HIDE DEF w
  <2>3. ToLower(w) = <<>> <=> a = b
    BY <2>1, <2>2
  <2> QED
    BY <2>3 DEF w
<1> HIDE DEF D, Good, seps
<1>7. \A v : Word(v) <=> Term(v) /\ v # <<>>
  <2>1. ASSUME NEW v, Word(v) PROVE Term(v) /\ v # <<>>
    <3>1. PICK i, j \in D : Good(<<i, j>>) /\ v = ToLower(SubSeq(t, i, j))
      BY <2>1
    <3> DEFINE a == i - 1
    <3>2. a \in Nat /\ j \in Nat /\ a + 1 = i /\ (i <= j => a # j)
      BY <1>0 DEF D
    <3>3. i <= j /\ Stretch(t, seps, a, j)
      BY <1>3, <3>1, Zenon
    <3> HIDE DEF a
    <3>4. v = ToLower(SubSeq(t, a + 1, j)) /\ a # j
      BY <3>1, <3>2, <3>3, Zenon
    <3> QED
      BY <1>6, <3>2, <3>3, <3>4, Zenon
  <2>2. ASSUME NEW v, Term(v), v # <<>> PROVE Word(v)
    <3>1. PICK a, b \in Nat : Stretch(t, seps, a, b) /\ v = ToLower(SubSeq(t, a + 1, b))
      BY <2>2
    <3>2. a # b
      BY <1>6, <2>2, <3>1, Zenon
    <3> DEFINE i == a + 1
    <3>3. i \in D /\ b \in D /\ i <= b
      BY <1>4, <3>1, <3>2, Zenon
    <3>4. i - 1 = a
      OBVIOUS
    <3> HIDE DEF i
    <3>5. Good(<<i, b>>)
      BY <1>3, <3>1, <3>3, <3>4, Zenon
    <3> QED
      BY <3>1, <3>3, <3>5, Zenon DEF i
  <2> QED
    BY <2>1, <2>2, Zenon
<1>8. \A v : v \in {ToLower(w) : w \in ToSet(Split(t, seps))} <=> Term(v)
  <2>1. \A w : w \in ToSet(Split(t, seps)) <=>
                 \E a, b \in Nat : Stretch(t, seps, a, b) /\ w = SubSeq(t, a + 1, b)
    BY PiecesAre
  <2> DEFINE pieces == ToSet(Split(t, seps))
  <2> HIDE DEF pieces
  <2>2. \A v : v \in {ToLower(w) : w \in pieces} <=> \E w \in pieces : v = ToLower(w)
    BY Zenon
  <2>3. ASSUME NEW v, NEW w \in pieces, v = ToLower(w) PROVE Term(v)
    <3>1. PICK a, b \in Nat : Stretch(t, seps, a, b) /\ w = SubSeq(t, a + 1, b)
      BY <2>1, <2>3, Zenon DEF pieces
    <3> QED
      BY <2>3, <3>1, Zenon
  <2>4. ASSUME NEW v, Term(v) PROVE \E w \in pieces : v = ToLower(w)
    <3>1. PICK a, b \in Nat : Stretch(t, seps, a, b) /\ v = ToLower(SubSeq(t, a + 1, b))
      BY <2>4
    <3>2. SubSeq(t, a + 1, b) \in pieces
      BY <2>1, <3>1, Zenon DEF pieces
    <3> QED
      BY <3>1, <3>2, Zenon
  <2>5. \A v : v \in {ToLower(w) : w \in pieces} <=> Term(v)
    BY <2>2, <2>3, <2>4, Zenon
  <2> QED
    BY <2>5, Zenon DEF pieces
<1>9. \A v : v \in {ToLower(w) : w \in ToSet(Split(t, seps))} \ {<<>>} <=> v \in WordsOf(t)
  BY <1>2, <1>7, <1>8, Zenon
<1> QED
  BY <1>9, Zenon DEF seps

-----------------------------------------------------------------------------
(***************************************************************************)
(* The search.                                                             *)
(***************************************************************************)

\* The strings of the URI that the form sends: a question mark, then the field.
LEMMA QueryBegins ==
  ASSUME NEW e \in Seq(Unreserved)
  PROVE  /\ Query \o e \in Seq(Symbols) /\ Len(Query \o e) = Len(e) + 4
         /\ (Query \o e)[1] = "/query" /\ (Query \o e)[2] = "?"
         /\ (Query \o e)[3] = "terms" /\ (Query \o e)[4] = "="
         /\ \A i \in 1 .. Len(e) : (Query \o e)[i + 4] = e[i]
<1> DEFINE x == Query
           u == x \o e
           l == Len(e)
<1>1. /\ x \in Seq(Symbols) /\ Len(x) = 4
      /\ x[1] = "/query" /\ x[2] = "?" /\ x[3] = "terms" /\ x[4] = "="
  BY Fixed DEF Query
<1>2. e \in Seq(Symbols) /\ l \in Nat
  <2>1. Unreserved \subseteq Symbols
    BY DEF Unreserved
  <2> QED
    BY <2>1, SeqMonotonic
<1> HIDE DEF x
<1>3. /\ u \in Seq(Symbols) /\ Len(u) = Len(x) + l
      /\ \A i \in 1 .. Len(x) + l : u[i] = IF i <= Len(x) THEN x[i] ELSE e[i - Len(x)]
  <2>1. x \in Seq(Symbols)
    BY <1>1
  <2> QED
    BY <1>2, <2>1, ConcatProperties
<1> HIDE DEF u, l
<1>4. Len(u) = l + 4 /\ \A i \in 1 .. l + 4 : u[i] = IF i <= 4 THEN x[i] ELSE e[i - 4]
  BY <1>1, <1>2, <1>3
<1>5. u[1] = x[1] /\ u[2] = x[2] /\ u[3] = x[3] /\ u[4] = x[4]
  BY <1>2, <1>4
<1>6. ASSUME NEW i \in 1 .. l PROVE u[i + 4] = e[i]
  <2>1. i + 4 \in 1 .. l + 4 /\ ~(i + 4 <= 4) /\ (i + 4) - 4 = i
    BY <1>2
  <2> QED
    BY <1>4, <2>1
<1> QED
  BY <1>1, <1>3, <1>4, <1>5, <1>6 DEF u, l, x

\* The rest of a string from behind position k on.
LEMMA RestIs ==
  ASSUME NEW S, NEW s \in Seq(S), NEW k \in Nat, k < Len(s)
  PROVE  /\ SubSeq(s, k + 1, Len(s)) \in Seq(S)
         /\ Len(SubSeq(s, k + 1, Len(s))) = Len(s) - k
         /\ \A i \in 1 .. Len(s) - k : SubSeq(s, k + 1, Len(s))[i] = s[i + k]
<1> DEFINE n == Len(s)
           m == k + 1
           w == SubSeq(s, m, n)
<1>1. n \in Nat /\ m \in Int /\ n \in Int /\ \A i \in m .. n : s[i] \in S
  OBVIOUS
<1>2. /\ w \in Seq(S) /\ Len(w) = IF m <= n THEN n - m + 1 ELSE 0
      /\ \A i \in 1 .. n - m + 1 : w[i] = s[m + i - 1]
  BY <1>1, SubSeqProperties
<1> HIDE DEF w
<1>3. Len(w) = n - k
  BY <1>1, <1>2
<1>4. ASSUME NEW i \in 1 .. n - k PROVE w[i] = s[i + k]
  <2>1. i \in 1 .. n - m + 1 /\ m + i - 1 = i + k
    BY <1>1
  <2> QED
    BY <1>2, <2>1
<1> QED
  BY <1>2, <1>3, <1>4 DEF w

\* parse finds the query behind the first question mark, and the field's value.
LEMMA FormParses ==
  ASSUME NEW e \in Seq(Unreserved)
  PROVE  LET args == parse(URLParser, Query \o e).args
         IN  <<"terms">> \in DOMAIN args /\ args[<<"terms">>] = decode_URI(e)
<1> DEFINE u == Query \o e
           l == Len(e)
           v == SubSeq(u, 3, Len(u))
           T == <<"terms">>
<1>0. l \in Nat /\ \A i \in 1 .. l : e[i] \notin {"?", "&", "="}
  BY DEF Unreserved
<1>1. /\ u \in Seq(Symbols) /\ Len(u) = l + 4
      /\ u[1] = "/query" /\ u[2] = "?" /\ u[3] = "terms" /\ u[4] = "="
      /\ \A i \in 1 .. l : u[i + 4] = e[i]
  BY QueryBegins
<1> HIDE DEF u, l
<1>2. \A i \in 1 .. l + 4 : i \in {1, 2, 3, 4} \/ (i - 4 \in 1 .. l /\ (i - 4) + 4 = i)
  BY <1>0
<1>3. /\ v \in Seq(Symbols) /\ Len(v) = l + 2 /\ v[1] = "terms" /\ v[2] = "="
      /\ \A i \in 1 .. l : v[i + 2] = e[i]
  <2>1. /\ v \in Seq(Symbols) /\ Len(v) = Len(u) - 2
        /\ \A i \in 1 .. Len(u) - 2 : v[i] = u[i + 2]
    <3>1. 2 \in Nat /\ 2 < Len(u) /\ 2 + 1 = 3
      BY <1>0, <1>1
    <3> QED
      BY <1>1, <3>1, RestIs
  <2> HIDE DEF v
  <2>2. Len(u) - 2 = l + 2 /\ 1 \in 1 .. l + 2 /\ 2 \in 1 .. l + 2
    BY <1>0, <1>1
  <2>3. v[1] = "terms" /\ v[2] = "="
    BY <1>1, <2>1, <2>2
  <2>4. ASSUME NEW i \in 1 .. l PROVE v[i + 2] = e[i]
    <3>1. i + 2 \in 1 .. l + 2 /\ (i + 2) + 2 = i + 4
      BY <1>0
    <3> QED
      BY <1>1, <2>1, <2>2, <3>1
  <2> QED
    BY <2>1, <2>2, <2>3, <2>4
<1>4. Split(u, {"?"}) = <<SubSeq(u, 1, 1), v>>
  <2>1. 2 \in 1 .. Len(u) /\ 2 - 1 = 1 /\ 2 + 1 = 3
    BY <1>0, <1>1
  <2>2. \A i \in 1 .. Len(u) : u[i] \in {"?"} <=> i = 2
    <3> TAKE i \in 1 .. Len(u)
    <3>1. CASE i \in {1, 2, 3, 4}
      BY <1>1, <3>1
    <3>2. CASE i - 4 \in 1 .. l /\ (i - 4) + 4 = i
      <4>1. u[i] = e[i - 4] /\ i # 2
        BY <1>0, <1>1, <3>2
      <4> QED
        BY <1>0, <3>2, <4>1
    <3> QED
      BY <1>1, <1>2, <3>1, <3>2
  <2> DEFINE seps == {"?"}
  <2> HIDE DEF seps
  <2>3. Split(u, seps) = <<SubSeq(u, 1, 2 - 1), SubSeq(u, 2 + 1, Len(u))>>
    <3>1. \A i \in 1 .. Len(u) : u[i] \in seps <=> i = 2
      BY <2>2 DEF seps
    <3> QED
      BY <1>1, <2>1, <3>1, SplitOnce
  <2> QED
    BY <2>1, <2>3 DEF seps
<1> HIDE DEF v
<1>5. \A i \in 1 .. l + 2 : i \in {1, 2} \/ (i - 2 \in 1 .. l /\ (i - 2) + 2 = i)
  BY <1>0
<1>6. Split(v, {"&"}) = <<v>>
  <2>1. \A i \in 1 .. Len(v) : v[i] \notin {"&"}
    <3> TAKE i \in 1 .. Len(v)
    <3>1. CASE i \in {1, 2}
      BY <1>3, <3>1
    <3>2. CASE i - 2 \in 1 .. l /\ (i - 2) + 2 = i
      <4>1. v[i] = e[i - 2]
        BY <1>3, <3>2
      <4> QED
        BY <1>0, <3>2, <4>1
    <3> QED
      BY <1>3, <1>5, <3>1, <3>2
  <2> QED
    BY <1>3, <2>1, SplitNone
<1>7. Split(v, {"="}) = <<T, e>>
  <2>1. 2 \in 1 .. Len(v) /\ 2 - 1 = 1 /\ 2 + 1 = 3
    BY <1>0, <1>3
  <2>2. \A i \in 1 .. Len(v) : v[i] \in {"="} <=> i = 2
    <3> TAKE i \in 1 .. Len(v)
    <3>1. CASE i \in {1, 2}
      BY <1>3, <3>1
    <3>2. CASE i - 2 \in 1 .. l /\ (i - 2) + 2 = i
      <4>1. v[i] = e[i - 2] /\ i # 2
        BY <1>0, <1>3, <3>2
      <4> QED
        BY <1>0, <3>2, <4>1
    <3> QED
      BY <1>3, <1>5, <3>1, <3>2
  <2> DEFINE seps == {"="}
  <2> HIDE DEF seps
  <2>3. Split(v, seps) = <<SubSeq(v, 1, 2 - 1), SubSeq(v, 2 + 1, Len(v))>>
    <3>1. \A i \in 1 .. Len(v) : v[i] \in seps <=> i = 2
      BY <2>2 DEF seps
    <3> QED
      BY <1>3, <2>1, <3>1, SplitOnce
  <2>4. SubSeq(v, 1, 1) = T
    <3>1. \A i \in 1 .. 1 : v[i] \in Symbols
      BY <1>0, <1>3
    <3> DEFINE w == SubSeq(v, 1, 1)
    <3>2. /\ w \in Seq(Symbols) /\ Len(w) = IF 1 <= 1 THEN 1 - 1 + 1 ELSE 0
          /\ \A i \in 1 .. 1 - 1 + 1 : w[i] = v[1 + i - 1]
      BY <3>1, SubSeqProperties
    <3> HIDE DEF w
    <3>3. Len(w) = 1 /\ w[1] = "terms"
      BY <1>3, <3>2
    <3>4. T \in Seq(Symbols) /\ Len(T) = 1 /\ T[1] = "terms"
      BY Fixed
    <3> HIDE DEF T
    <3>5. \A i \in 1 .. Len(w) : w[i] = T[i]
      BY <3>3, <3>4
    <3>6. w = T
      BY <3>2, <3>3, <3>4, <3>5, SeqEqual
    <3> QED
      BY <3>6 DEF w
  <2>5. SubSeq(v, 3, Len(v)) = e
    <3> DEFINE w == SubSeq(v, 3, Len(v))
    <3>0. e \in Seq(Symbols)
      <4>1. Unreserved \subseteq Symbols
        BY DEF Unreserved
      <4> QED
        BY <4>1, SeqMonotonic
    <3>1. CASE l = 0
      <4>1. Len(v) < 3 /\ Len(v) \in Int
        BY <1>3, <3>1
      <4>2. w = <<>>
        BY <4>1, SubSeqEmpty
      <4>3. e = <<>>
        BY <3>1, EmptySeq DEF l
      <4> QED
        BY <4>2, <4>3
    <3>2. CASE l # 0
      <4>1. /\ w \in Seq(Symbols) /\ Len(w) = Len(v) - 2
            /\ \A i \in 1 .. Len(v) - 2 : w[i] = v[i + 2]
        <5>1. 2 \in Nat /\ 2 < Len(v) /\ 2 + 1 = 3
          BY <1>0, <1>3, <3>2
        <5> QED
          BY <1>3, <5>1, RestIs
      <4> HIDE DEF w
      <4>2. Len(v) - 2 = l
        BY <1>0, <1>3
      <4>3. Len(w) = Len(e) /\ \A i \in 1 .. Len(w) : w[i] = e[i]
        BY <1>3, <4>1, <4>2 DEF l
      <4>4. w = e
        BY <3>0, <4>1, <4>3, SeqEqual
      <4> QED
        BY <4>4 DEF w
    <3> QED
      BY <3>1, <3>2
  <2> QED
    BY <2>1, <2>3, <2>4, <2>5 DEF seps
<1>8. decode_URI(T) = T
  <2>1. T \in Seq(Symbols) /\ \A i \in 1 .. Len(T) : T[i] \notin {"%", "+"}
    BY Fixed
  <2> HIDE DEF T
  <2> QED
    BY <2>1, Universe, DecodePlain
<1> HIDE DEF T
<1>9. T \in DOMAIN ArgsOf(v) /\ ArgsOf(v)[T] = decode_URI(e)
  <2> DEFINE fv == [k \in DOMAIN Split(v, {"&"}) |-> Split(Split(v, {"&"})[k], {"="})]
             good == {k \in DOMAIN fv : Len(fv[k]) = 2}
             last(f) == Max({k \in good : decode_URI(fv[k][1]) = f})
             fields == {decode_URI(fv[k][1]) : k \in good}
  <2>1. ArgsOf(v) = [f \in fields |-> decode_URI(fv[last(f)][2])]
    BY DEF ArgsOf
  <2>2. DOMAIN fv = {1} /\ fv[1] = <<T, e>>
    <3>1. DOMAIN <<v>> = {1} /\ <<v>>[1] = v
      OBVIOUS
    <3> QED
      BY <1>6, <1>7, <3>1
  <2> HIDE DEF fv
  <2>3. Len(fv[1]) = 2 /\ fv[1][1] = T /\ fv[1][2] = e
    BY <2>2
  <2>4. good = {1}
    BY <2>2, <2>3
  <2>5. {k \in good : decode_URI(fv[k][1]) = T} = {1} /\ T \in fields
    BY <1>8, <2>3, <2>4
  <2>6. Max({1}) = 1
    BY DEF Max
  <2>7. last(T) = 1
    BY <2>5, <2>6
  <2> HIDE DEF good, last, fields
  <2>8. DOMAIN ArgsOf(v) = fields /\ ArgsOf(v)[T] = decode_URI(fv[last(T)][2])
    BY <2>1, <2>5
  <2> QED
    BY <2>3, <2>5, <2>7, <2>8
<1>10. parse(URLParser, u).args = Added(ArgsOf(v), <<>>)
  <2> DEFINE ps == Split(u, {"?"})
  <2>1. Len(ps) = 2 /\ ps[2] = v
    BY <1>4
  <2>2. parse(URLParser, u).args = IF Len(ps) < 2 THEN URLParser.args
                                   ELSE Added(ArgsOf(ps[2]), URLParser.args)
    BY Zenon DEF parse
  <2>3. URLParser.args = <<>>
    BY DEF URLParser
  <2> HIDE DEF ps
  <2> QED
    BY <2>1, <2>2, <2>3
<1> DEFINE args == ArgsOf(v)
<1> HIDE DEF args
<1>11. T \in DOMAIN Added(args, <<>>) /\ Added(args, <<>>)[T] = decode_URI(e)
  BY <1>9 DEF Added, args
<1> QED
  BY <1>10, <1>11 DEF args, u, T

LEMMA FormLinks ==
  ASSUME NEW t \in Texts
  PROVE  /\ ~StaticUri(Query \o Encoded(t))
         /\ Results(parse(URLParser, Query \o Encoded(t)).args) =
              IF WordsOf(t) = {} THEN {} ELSE {d \in Docs : WordsOf(t) \subseteq WordsIn[d]}
<1> DEFINE e == Encoded(t)
           u == Query \o e
           args == parse(URLParser, u).args
           T == <<"terms">>
<1>1. t \in Seq(Symbols)
  BY Universe
<1>2. e \in Seq(Unreserved) /\ decode_URI(e) = t
  BY <1>1, EncodedType, DecodeEncoded
<1> HIDE DEF e
<1>3. ~StaticUri(u)
  <2>1. u \in Seq(Symbols) /\ u[1] = "/query"
    BY <1>2, QueryBegins
  <2> HIDE DEF u
  <2> QED
    BY <2>1, StaticBegins
<1>4. T \in DOMAIN args /\ args[T] = t
  BY <1>2, FormParses
<1>5. Terms(args) = WordsOf(t)
  <2>1. Terms(args) = {ToLower(w) : w \in ToSet(Split(t, {"+", " "}))} \ {<<>>}
    BY <1>4, Zenon DEF Terms
  <2> QED
    BY <1>1, <2>1, WordsAreTerms
<1> HIDE DEF args
<1>6. Results(args) = IF WordsOf(t) = {} THEN {}
                      ELSE {d \in Docs : WordsOf(t) \subseteq WordsIn[d]}
  BY <1>4, <1>5, Zenon DEF Results, lookup_query
<1> QED
  BY <1>3, <1>6 DEF args, u, e

\* Whatever is typed, the page links exactly the documents that contain every
\* word of it, through encoding, parsing, decoding and splitting of strings of
\* any length (HttpServer.cpp:290-336).
THEOREM Search == Spec => []SearchRight
<1> DEFINE Right(t) == IF WordsOf(t) = {} THEN {}
                       ELSE {d \in Docs : WordsOf(t) \subseteq WordsIn[d]}
<1>1. Init => SearchRight
  BY DEF Init, SearchRight, Nothing
<1>2. AskInv /\ TypeOK /\ SearchRight /\ [Next]_vars => SearchRight'
  <2> SUFFICES ASSUME AskInv, TypeOK, SearchRight, Next PROVE SearchRight'
    <3>1. SearchRight /\ UNCHANGED vars => SearchRight'
      BY DEF SearchRight, vars
    <3> QED
      BY <3>1
  <2>1. ASSUME NEW a \in Wanted, uri' = UriOf(a) PROVE SearchRight'
    BY <2>1, UriOfType DEF SearchRight
  <2>2. CASE ask' = Nothing
    BY <2>2 DEF SearchRight, Nothing
  <2>3. ASSUME uri # <<>>, uri' = <<>>, ask' = ask, ProcessFileRequest \/ ProcessQueryRequest
        PROVE  SearchRight'
    <3> DEFINE t == ask.what
    <3> SUFFICES ASSUME ask.kind = "form" PROVE response'.links = Right(t)
      BY <2>3 DEF SearchRight
    <3>1. t \in Texts /\ uri = Query \o Encoded(t)
      BY <2>3 DEF AskInv, Wanted, UriOf, Nothing
    <3> HIDE DEF t
    <3>2. ~StaticUri(uri) /\ Results(parse(URLParser, uri).args) = Right(t)
      BY <3>1, FormLinks
    <3> HIDE DEF Right
    <3>3. ProcessQueryRequest
      BY <2>3, <3>2, FileAnswer
    <3>4. response'.links = Results(parse(URLParser, uri).args)
      BY <3>3, QueryAnswer
    <3> QED
      BY <3>2, <3>4
  <2>4. CASE UNCHANGED <<ask, uri, response>>
    BY <2>4 DEF SearchRight
  <2> QED
    BY <2>1, <2>2, <2>3, <2>4, StepCases
<1> QED
  BY <1>1, <1>2, AskInvariant, PTL DEF Spec

-----------------------------------------------------------------------------
(***************************************************************************)
(* Paths: names joined by slashes.  A path is a prefix of another one if   *)
(* its string, with one more slash, is a prefix of the other's.            *)
(***************************************************************************)
\* A path as a sequence of names without slashes.
Names(T) == {n \in Seq(T) : n # <<>> /\ \A k \in 1 .. Len(n) : n[k] # "/"}
Slashed(p) == [k \in DOMAIN p |-> <<"/">> \o p[k]]

\* Slashes joins the names with their slashes.
LEMMA SlashedType ==
  ASSUME NEW T, "/" \in T, NEW p \in Seq(Seq(T))
  PROVE  Slashed(p) \in Seq(Seq(T)) /\ Slashes(p) \in Seq(T)
<1>1. DOMAIN p = 1 .. Len(p) /\ Len(p) \in Nat /\ \A k \in 1 .. Len(p) : p[k] \in Seq(T)
  OBVIOUS
<1>2. \A k \in 1 .. Len(p) : <<"/">> \o p[k] \in Seq(T)
  BY <1>1
<1>3. Slashed(p) \in Seq(Seq(T))
  BY <1>1, <1>2 DEF Slashed
<1>4. Slashes(p) = FlattenSeq(Slashed(p))
  BY DEF Slashes, Slashed
<1> QED
  BY <1>3, <1>4, FlattenType

LEMMA EmptyString ==
  Slashes(<<>>) = <<>>
<1>1. Slashed(<<>>) = <<>>
  BY DEF Slashed
<1> QED
  BY <1>1, EmptyFlattens DEF Slashes, Slashed

StringGrows(p, n) == Slashes(Append(p, n)) = Slashes(p) \o (<<"/">> \o n)

\* One more name: one more slash and the name.
LEMMA StringAppend ==
  ASSUME NEW T, "/" \in T, NEW p \in Seq(Seq(T)), NEW n \in Seq(T)
  PROVE  StringGrows(p, n)
<1> DEFINE q == Append(p, n)
           x == <<"/">> \o n
           m == Len(p)
<1>1. /\ m \in Nat /\ x \in Seq(T) /\ q \in Seq(Seq(T)) /\ Len(q) = m + 1
      /\ \A k \in 1 .. m : q[k] = p[k]
      /\ q[m + 1] = n
  OBVIOUS
<1>2. DOMAIN q = 1 .. m + 1 /\ DOMAIN p = 1 .. m
  OBVIOUS
<1>3. Slashed(p) \in Seq(Seq(T)) /\ Slashed(q) \in Seq(Seq(T))
  BY <1>1, SlashedType
<1>4. Len(Slashed(p)) = m /\ Len(Slashed(q)) = m + 1
  <2>1. DOMAIN Slashed(p) = 1 .. m /\ DOMAIN Slashed(q) = 1 .. m + 1
    BY <1>2 DEF Slashed
  <2> HIDE DEF q, m
  <2> QED
    BY <1>1, <1>3, <2>1
<1>5. Slashed(q)[m + 1] = x /\ \A k \in 1 .. m : Slashed(q)[k] = Slashed(p)[k]
  <2>1. m + 1 \in 1 .. m + 1 /\ \A k \in 1 .. m : k \in 1 .. m + 1
    BY <1>1
  <2> HIDE DEF q, m
  <2> QED
    BY <1>1, <1>2, <2>1 DEF Slashed
<1> HIDE DEF q, m, x
<1> DEFINE sp == Slashed(p)
           sq == Slashed(q)
<1>6. sq = Append(sp, x)
  <2> HIDE DEF sp, sq
  <2>1. /\ Append(sp, x) \in Seq(Seq(T)) /\ Len(Append(sp, x)) = m + 1
        /\ Append(sp, x)[m + 1] = x /\ \A k \in 1 .. m : Append(sp, x)[k] = sp[k]
    BY <1>1, <1>3, <1>4, AppendProperties DEF sp
  <2>2. Len(sq) = Len(Append(sp, x))
    BY <1>4, <2>1 DEF sq
  <2>3. \A k \in 1 .. m + 1 : sq[k] = Append(sp, x)[k]
    <3>1. \A k \in 1 .. m + 1 : k \in 1 .. m \/ k = m + 1
      BY <1>1
    <3> QED
      BY <1>5, <2>1, <3>1 DEF sp, sq
  <2>4. Len(sq) = m + 1 /\ sq \in Seq(Seq(T))
    BY <1>3, <1>4 DEF sq
  <2> QED
    BY <2>1, <2>2, <2>3, <2>4, SeqEqual
<1>7. FlattenSeq(Append(sp, x)) = FlattenSeq(sp) \o x
  BY <1>1, <1>3, FlattenAppend
<1> QED
  BY <1>6, <1>7 DEF StringGrows, Slashes, Slashed, q, x

\* The string of two paths, one behind the other.
StringJoins(p, q) == Slashes(p \o q) = Slashes(p) \o Slashes(q)

LEMMA StringConcat ==
  ASSUME NEW T, "/" \in T
  PROVE  \A p, q \in Seq(Seq(T)) : StringJoins(p, q)
<1> DEFINE S == {m \in Nat : \A p, q \in Seq(Seq(T)) : Len(q) = m => StringJoins(p, q)}
<1>1. 0 \in S
  <2>1. ASSUME NEW p \in Seq(Seq(T)), NEW q \in Seq(Seq(T)), Len(q) = 0
        PROVE  StringJoins(p, q)
    <3>1. q = <<>>
      BY <2>1, EmptySeq
    <3>2. p \o q = p /\ Slashes(p) \in Seq(T)
      BY <3>1, SlashedType, ConcatEmptySeq
    <3>3. Slashes(p) \o <<>> = Slashes(p)
      BY <3>2, ConcatEmptySeq
    <3> QED
      BY <3>1, <3>2, <3>3, EmptyString DEF StringJoins
  <2> QED
    BY <2>1
<1>2. ASSUME NEW m \in Nat, m \in S PROVE m + 1 \in S
  <2>1. ASSUME NEW p \in Seq(Seq(T)), NEW q \in Seq(Seq(T)), Len(q) = m + 1
        PROVE  StringJoins(p, q)
    <3>1. PICK r \in Seq(Seq(T)), n \in Seq(T) : q = Append(r, n)
      <4>1. q # <<>>
        BY <2>1
      <4> QED
        BY <4>1, SequenceEmptyOrAppend
    <3>2. Len(r) = m
      <4>1. Len(q) = Len(r) + 1 /\ Len(r) \in Nat
        BY <3>1
      <4> QED
        BY <2>1, <4>1
    <3>3. StringJoins(p, r)
      BY <1>2, <3>2
    <3>4. p \o q = Append(p \o r, n) /\ p \o r \in Seq(Seq(T))
      <4>1. /\ q = r \o <<n>> /\ <<n>> \in Seq(Seq(T)) /\ p \o r \in Seq(Seq(T))
            /\ Append(p \o r, n) = (p \o r) \o <<n>>
        BY <3>1, AppendIsConcat, ConcatProperties
      <4>2. Associates(p, r, <<n>>)
        BY <4>1, Concat
      <4> QED
        BY <4>1, <4>2, Zenon DEF Associates
    <3>5. StringGrows(p \o r, n) /\ StringGrows(r, n)
      BY <3>4, StringAppend
    <3>6. <<"/">> \o n \in Seq(T) /\ Slashes(p) \in Seq(T) /\ Slashes(r) \in Seq(T)
      BY SlashedType
    <3>7. Associates(Slashes(p), Slashes(r), <<"/">> \o n)
      BY <3>6, Concat
    <3> QED
      BY <3>1, <3>3, <3>4, <3>5, <3>7, Zenon DEF StringGrows, StringJoins, Associates
  <2> QED
    BY <2>1
<1> HIDE DEF S
<1>3. \A m \in Nat : m \in S
  BY <1>1, <1>2, AllNumbers, Zenon
<1>4. \A q \in Seq(Seq(T)) : Len(q) \in Nat
  OBVIOUS
<1> QED
  BY <1>3, <1>4 DEF S

\* A path that is not empty: its first name and the rest.
FirstName(p, n, q, T) ==
  /\ n \in Names(T) /\ q \in Seq(Names(T)) /\ p = <<n>> \o q /\ Len(p) = Len(q) + 1
  /\ Slashes(p) = <<"/">> \o (n \o Slashes(q))

\* Names are strings, paths sequences of strings.
LEMMA NamesType ==
  ASSUME NEW T
  PROVE  Names(T) \subseteq Seq(T) /\ Seq(Names(T)) \subseteq Seq(Seq(T))
<1>1. Names(T) \subseteq Seq(T)
  BY DEF Names
<1> QED
  BY <1>1, SeqMonotonic

\* A path that is not empty has a first name.
LEMMA FirstNameIs ==
  ASSUME NEW T, "/" \in T, NEW p \in Seq(Names(T)), p # <<>>
  PROVE  \E n, q : FirstName(p, n, q, T)
<1> DEFINE n == Head(p)
           q == Tail(p)
<1>1. n \in Names(T) /\ q \in Seq(Names(T)) /\ Len(q) = Len(p) - 1 /\ Len(p) \in Nat
  BY HeadTailProperties
<1>2. p = <<n>> \o q
  OBVIOUS
<1> HIDE DEF n, q
<1>3. Len(p) = Len(q) + 1
  BY <1>1
<1>4. n \in Seq(T) /\ q \in Seq(Seq(T)) /\ <<n>> \in Seq(Seq(T))
  BY <1>1, NamesType
<1>5. Slashes(<<n>>) = <<"/">> \o n
  <2>1. StringGrows(<<>>, n)
    <3>1. <<>> \in Seq(Seq(T))
      OBVIOUS
    <3> QED
      BY <1>4, <3>1, StringAppend
  <2>2. Append(<<>>, n) = <<n>> /\ <<"/">> \o n \in Seq(T)
    BY <1>4
  <2>3. <<>> \o (<<"/">> \o n) = <<"/">> \o n
    BY <2>2, ConcatEmptySeq
  <2> QED
    BY <2>1, <2>2, <2>3, EmptyString DEF StringGrows
<1>6. StringJoins(<<n>>, q)
  BY <1>4, StringConcat
<1>7. Associates(<<"/">>, n, Slashes(q))
  <2>1. <<"/">> \in Seq(T) /\ Slashes(q) \in Seq(T)
    BY <1>4, SlashedType
  <2> QED
    BY <1>4, <2>1, Concat
<1>8. Slashes(p) = <<"/">> \o (n \o Slashes(q))
  BY <1>2, <1>5, <1>6, <1>7, Zenon DEF StringJoins, Associates
<1> QED
  BY <1>1, <1>2, <1>3, <1>8 DEF FirstName

\* A slash before a string.
LEMMA SlashFirst ==
  ASSUME NEW T, "/" \in T
  PROVE  \A x \in Seq(T) : /\ <<"/">> \o x \in Seq(T) /\ <<"/">> \o x # <<>>
                            /\ (<<"/">> \o x)[1] = "/" /\ Tail(<<"/">> \o x) = x
<1> TAKE x \in Seq(T)
<1> DEFINE y == <<"/">> \o x
<1>1. y \in Seq(T) /\ Len(y) = 1 + Len(x) /\ Len(x) \in Nat /\ y[1] = "/"
  OBVIOUS
<1>2. Tail(y) = x
  OBVIOUS
<1> HIDE DEF y
<1>3. y # <<>>
  BY <1>1
<1> QED
  BY <1>1, <1>2, <1>3 DEF y

\* Nothing, or something behind a slash.
Behind(x) == x = <<>> \/ x[1] = "/"

\* The string of a path is empty or begins with a slash.
LEMMA StringBehind ==
  ASSUME NEW T, "/" \in T, NEW p \in Seq(Names(T))
  PROVE  Slashes(p) \in Seq(T) /\ Behind(Slashes(p))
<1>1. Slashes(p) \in Seq(T)
  BY NamesType, SlashedType
<1>2. CASE p = <<>>
  BY <1>1, <1>2, EmptyString DEF Behind
<1>3. CASE p # <<>>
  <2>1. PICK n, q : FirstName(p, n, q, T)
    BY <1>3, FirstNameIs
  <2> DEFINE y == n \o Slashes(q)
  <2>2. y \in Seq(T) /\ Slashes(p) = <<"/">> \o y
    BY <2>1, NamesType, SlashedType, ConcatProperties DEF FirstName
  <2> HIDE DEF y
  <2>3. (<<"/">> \o y)[1] = "/"
    BY <2>2
  <2> QED
    BY <1>1, <2>2, <2>3 DEF Behind
<1> QED
  BY <1>2, <1>3

\* A name ends where a slash begins, or the string ends.
SameName(a, x, b, y) == a \o x = b \o y => a = b /\ x = y

\* A name that is followed by a slash is not longer than any other at its place.
LEMMA NotLonger ==
  ASSUME NEW T, NEW a \in Names(T), NEW b \in Names(T), NEW x \in Seq(T), NEW y \in Seq(T),
         Behind(x), a \o x = b \o y, Len(a) < Len(b)
  PROVE  FALSE
<1>1. /\ a \in Seq(T) /\ b \in Seq(T) /\ Len(a) \in Nat /\ Len(b) \in Nat
      /\ Len(x) \in Nat /\ Len(y) \in Nat
      /\ \A k \in 1 .. Len(b) : b[k] # "/"
  BY DEF Names
<1>2. PICK m \in Nat, n \in Nat, i \in Nat, j \in Nat :
        m = Len(a) /\ n = Len(b) /\ i = Len(x) /\ j = Len(y)
  BY <1>1
<1>3. /\ Len(a \o x) = m + i /\ Len(b \o y) = n + j
      /\ \A k \in 1 .. m + i : (a \o x)[k] = IF k <= m THEN a[k] ELSE x[k - m]
      /\ \A k \in 1 .. n + j : (b \o y)[k] = IF k <= n THEN b[k] ELSE y[k - n]
  BY <1>1, <1>2, ConcatProperties
<1>4. m + i = n + j /\ m < n
  BY <1>2, <1>3
<1>5. i >= 1 /\ m + 1 \in 1 .. n /\ m + 1 \in 1 .. n + j /\ m + 1 \in 1 .. m + i
      /\ ~(m + 1 <= m) /\ m + 1 <= n /\ (m + 1) - m = 1
  BY <1>4
<1>6. x # <<>>
  BY <1>2, <1>5
<1>7. (a \o x)[m + 1] = x[1] /\ (b \o y)[m + 1] = b[m + 1]
  BY <1>3, <1>5
<1>8. x[1] = "/" /\ b[m + 1] # "/"
  BY <1>1, <1>2, <1>5, <1>6 DEF Behind
<1> QED
  BY <1>7, <1>8

\* Two names that are each followed by a slash or nothing can be told apart.
LEMMA NamesSeparate ==
  ASSUME NEW T, NEW a \in Names(T), NEW b \in Names(T), NEW x \in Seq(T), NEW y \in Seq(T),
         Behind(x), Behind(y)
  PROVE  SameName(a, x, b, y)
<1> SUFFICES ASSUME a \o x = b \o y PROVE a = b /\ x = y
  BY DEF SameName
<1>1. a \in Seq(T) /\ b \in Seq(T) /\ Len(a) \in Nat /\ Len(b) \in Nat
  BY DEF Names
<1>2. Len(a) = Len(b)
  <2>1. ~(Len(a) < Len(b))
    BY NotLonger
  <2>2. b \o y = a \o x
    OBVIOUS
  <2>3. ~(Len(b) < Len(a))
    BY <2>2, NotLonger
  <2> QED
    BY <1>1, <2>1, <2>3
<1>3. a = b
  <2>1. \A k \in 1 .. Len(a) : (a \o x)[k] = a[k] /\ (b \o y)[k] = b[k]
    <3> DEFINE m == Len(a)
    <3>1. /\ \A k \in 1 .. m + Len(x) : (a \o x)[k] = IF k <= m THEN a[k] ELSE x[k - m]
          /\ \A k \in 1 .. m + Len(y) : (b \o y)[k] = IF k <= m THEN b[k] ELSE y[k - m]
      BY <1>1, <1>2, ConcatProperties
    <3>2. \A k \in 1 .. m : k \in 1 .. m + Len(x) /\ k \in 1 .. m + Len(y) /\ k <= m
      BY <1>1
    <3> HIDE DEF m
    <3>3. \A k \in 1 .. m : (a \o x)[k] = a[k] /\ (b \o y)[k] = b[k]
      BY <3>1, <3>2
    <3> QED
      BY <3>3 DEF m
  <2>2. \A k \in 1 .. Len(a) : a[k] = b[k]
    BY <2>1
  <2> QED
    BY <1>1, <1>2, <2>2, SeqEqual
<1>4. x = y
  BY <1>1, <1>3, ConcatSimplifications
<1> QED
  BY <1>3, <1>4

\* A path whose string begins with that of r and a slash goes on from r.
GoesOn(r, t, u, T) ==
  Slashes(t) = Slashes(r) \o (<<"/">> \o u) =>
    \E v \in Seq(Names(T)) : v # <<>> /\ t = r \o v

\* By induction over the names of r.
LEMMA StringPrefix ==
  ASSUME NEW T, "/" \in T
  PROVE  \A r, t \in Seq(Names(T)), u \in Seq(T) : GoesOn(r, t, u, T)
<1> DEFINE S == {m \in Nat : \A r, t \in Seq(Names(T)), u \in Seq(T) :
                   Len(r) = m => GoesOn(r, t, u, T)}
<1>1. 0 \in S
  <2>1. ASSUME NEW r \in Seq(Names(T)), NEW t \in Seq(Names(T)), NEW u \in Seq(T),
               Len(r) = 0, Slashes(t) = Slashes(r) \o (<<"/">> \o u)
        PROVE  \E v \in Seq(Names(T)) : v # <<>> /\ t = r \o v
    <3>1. r = <<>> /\ t = r \o t
      BY <2>1, EmptySeq, ConcatEmptySeq
    <3>2. t # <<>>
      <4> SUFFICES ASSUME t = <<>> PROVE FALSE
        OBVIOUS
      <4>1. <<>> = <<>> \o (<<"/">> \o u)
        BY <2>1, <3>1, EmptyString
      <4>2. <<"/">> \o u \in Seq(T) /\ <<"/">> \o u # <<>>
        OBVIOUS
      <4> QED
        BY <4>1, <4>2, ConcatEmptySeq
    <3> QED
      BY <3>1, <3>2
  <2> QED
    BY <2>1 DEF GoesOn
<1>2. ASSUME NEW m \in Nat, m \in S PROVE m + 1 \in S
  <2>1. ASSUME NEW r \in Seq(Names(T)), NEW t \in Seq(Names(T)), NEW u \in Seq(T),
               Len(r) = m + 1, Slashes(t) = Slashes(r) \o (<<"/">> \o u)
        PROVE  \E v \in Seq(Names(T)) : v # <<>> /\ t = r \o v
    <3>1. PICK a, q : FirstName(r, a, q, T)
      <4>1. r # <<>>
        BY <2>1
      <4> QED
        BY <4>1, FirstNameIs
    <3>2. a \in Names(T) /\ a \in Seq(T) /\ q \in Seq(Names(T)) /\ Slashes(q) \in Seq(T)
      BY <3>1, NamesType, StringBehind DEF FirstName
    <3> DEFINE w == <<"/">> \o u
               y == Slashes(q) \o w
    <3>3. w \in Seq(T) /\ w # <<>> /\ w[1] = "/" /\ y \in Seq(T)
      BY <3>2
    <3> HIDE DEF w
    <3>4. Behind(y)
      <4>1. Behind(Slashes(q))
        BY <3>2, StringBehind
      <4>2. CASE Slashes(q) = <<>>
        BY <3>3, <4>2, ConcatEmptySeq DEF Behind
      <4>3. CASE Slashes(q) # <<>>
        <5>1. Len(Slashes(q)) \in Nat /\ Len(Slashes(q)) >= 1 /\ Len(w) \in Nat
          BY <3>2, <3>3, <4>3
        <5>2. 1 \in 1 .. Len(Slashes(q)) + Len(w)
          BY <5>1
        <5>3. y[1] = Slashes(q)[1]
          BY <3>2, <3>3, <5>1, <5>2, ConcatProperties
        <5> QED
          BY <4>1, <4>3, <5>3 DEF Behind
      <4> QED
        BY <4>2, <4>3
    <3>5. Slashes(t) = <<"/">> \o (a \o y)
      <4>1. Slashes(t) = (<<"/">> \o (a \o Slashes(q))) \o w
        BY <2>1, <3>1 DEF FirstName, w
      <4>2. Associates(a, Slashes(q), w)
        BY <3>2, <3>3, Concat
      <4>3. Associates(<<"/">>, a \o Slashes(q), w)
        <5>1. <<"/">> \in Seq(T) /\ a \o Slashes(q) \in Seq(T)
          BY <3>2
        <5> QED
          BY <3>3, <5>1, Concat
      <4> QED
        BY <4>1, <4>2, <4>3, Zenon DEF Associates, y
    <3> HIDE DEF y
    <3>6. PICK b, z : FirstName(t, b, z, T)
      <4>1. t # <<>>
        <5> SUFFICES ASSUME t = <<>> PROVE FALSE
          OBVIOUS
        <5>1. <<>> = <<"/">> \o (a \o y)
          BY <3>5, EmptyString
        <5>2. a \o y \in Seq(T)
          BY <3>2, <3>3
        <5> QED
          BY <5>1, <5>2, SlashFirst, Zenon
      <4> QED
        BY <4>1, FirstNameIs
    <3>7. b \in Names(T) /\ b \in Seq(T) /\ z \in Seq(Names(T)) /\ Slashes(z) \in Seq(T)
      BY <3>6, NamesType, StringBehind DEF FirstName
    <3>8. b \o Slashes(z) = a \o y
      <4>1. <<"/">> \o (b \o Slashes(z)) = <<"/">> \o (a \o y)
        BY <3>5, <3>6 DEF FirstName
      <4>2. b \o Slashes(z) \in Seq(T) /\ a \o y \in Seq(T) /\ <<"/">> \in Seq(T)
        BY <3>2, <3>3, <3>7
      <4> QED
        BY <4>1, <4>2, ConcatSimplifications
    <3>9. b = a /\ Slashes(z) = y
      <4>1. Behind(Slashes(z))
        BY <3>7, StringBehind
      <4>2. SameName(b, Slashes(z), a, y)
        BY <3>2, <3>3, <3>4, <3>7, <4>1, NamesSeparate
      <4> QED
        BY <3>8, <4>2 DEF SameName
    <3>10. PICK v \in Seq(Names(T)) : v # <<>> /\ z = q \o v
      <4>1. Len(q) = m
        <5>1. Len(q) \in Nat /\ Len(r) = Len(q) + 1
          BY <3>1, <3>2 DEF FirstName
        <5> QED
          BY <2>1, <5>1
      <4>2. GoesOn(q, z, u, T)
        BY <1>2, <3>2, <3>7, <4>1
      <4> QED
        BY <3>9, <4>2 DEF GoesOn, y, w
    <3>11. t = r \o v
      <4>1. t = <<a>> \o (q \o v) /\ r = <<a>> \o q
        BY <3>1, <3>6, <3>9, <3>10 DEF FirstName
      <4>2. Associates(<<a>>, q, v)
        <5>1. <<a>> \in Seq(Names(T))
          BY <3>2
        <5> QED
          BY <3>2, <3>10, <5>1, Concat
      <4> QED
        BY <4>1, <4>2, Zenon DEF Associates
    <3> QED
      BY <3>10, <3>11
  <2>2. \A r, t \in Seq(Names(T)), u \in Seq(T) : Len(r) = m + 1 => GoesOn(r, t, u, T)
    BY <2>1 DEF GoesOn
  <2>3. m + 1 \in Nat
    OBVIOUS
  <2> QED
    BY <2>2, <2>3
<1> HIDE DEF S
<1>3. \A m \in Nat : m \in S
  BY <1>1, <1>2, AllNumbers, Zenon
<1>4. \A r \in Seq(Names(T)) : Len(r) \in Nat
  OBVIOUS
<1> QED
  BY <1>3, <1>4 DEF S

-----------------------------------------------------------------------------
(***************************************************************************)
(* realpath, which folds a step over the names of a path.                  *)
(***************************************************************************)

\* g[s] is where the names at the places s lead, from the last of them back.
Walks(g, fs, start, names) ==
  g = [s \in SUBSET DOMAIN names |->
         IF s = {} THEN start ELSE Step(fs, g[s \ {Max(s)}], names[Max(s)])]

Start(fs, path) == IF path = <<>> THEN {} ELSE IF path[1] = "/" THEN {<<>>} ELSE {fs.cwd}

\* realpath with its fold unfolded.
LEMMA RealpathIsChosen ==
  ASSUME NEW fs, NEW path
  PROVE  LET names == Split(path, {"/"})
         IN  realpath(fs, path)
               = (CHOOSE g : Walks(g, fs, Start(fs, path), names))[DOMAIN names]
BY DEF realpath, FoldLeft, MapThenFoldSet, Walks, Start

\* A set of places that is not empty has a last one.
LEMMA MaxIsIn ==
  ASSUME NEW n \in Nat, NEW s \in SUBSET (1 .. n), s # {}
  PROVE  Max(s) \in s
<1> DEFINE T == {n - k : k \in s}
<1>1. T \in SUBSET Nat /\ T # {}
  <2>1. \A k \in s : n - k \in Nat
    <3>1. \A k \in 1 .. n : n - k \in Nat
      OBVIOUS
    <3> QED
      BY <3>1
  <2> QED
    BY <2>1
<1>2. PICK d \in T : \A e \in T : d <= e
  BY <1>1, LeastNumber
<1>3. PICK k \in s : d = n - k
  BY <1>2
<1>4. \A j \in s : n - k <= n - j
  BY <1>2, <1>3
<1>5. \A j \in s : k >= j
  BY <1>4
<1> QED
  BY <1>5 DEF Max

\* There is such a g: for the sets of up to m places, whatever m.
LEMMA SomethingWalks ==
  ASSUME NEW fs, NEW start, NEW n \in Nat, NEW names, DOMAIN names = 1 .. n
  PROVE  \E g : Walks(g, fs, start, names)
<1> DEFINE D == SUBSET (1 .. n)
           Value(g, s) == IF s = {} THEN start ELSE Step(fs, g[s \ {Max(s)}], names[Max(s)])
           UpTo(m) == \E g : /\ g = [s \in D |-> g[s]]
                             /\ \A s \in D : Cardinality(s) <= m => g[s] = Value(g, s)
           S == {m \in Nat : UpTo(m)}
<1>1. /\ IsFiniteSet(1 .. n) /\ Cardinality(1 .. n) \in Nat
      /\ \A s \in D : /\ IsFiniteSet(s) /\ Cardinality(s) \in Nat
                      /\ Cardinality(s) <= Cardinality(1 .. n)
  <2>1. IsFiniteSet(1 .. n)
    BY FS_Interval
  <2>2. Cardinality(1 .. n) \in Nat
    BY <2>1, FS_CardinalityType
  <2>3. ASSUME NEW s \in D
        PROVE  IsFiniteSet(s) /\ Cardinality(s) \in Nat /\ Cardinality(s) <= Cardinality(1 .. n)
    BY <2>1, <2>2, FS_Subset, FS_CardinalityType
  <2> QED
    BY <2>1, <2>2, <2>3
<1>2. 0 \in S
  <2> DEFINE g == [s \in D |-> start]
  <2>1. \A s \in D : Cardinality(s) <= 0 => s = {}
    BY <1>1, FS_EmptySet
  <2>2. g = [s \in D |-> g[s]]
    OBVIOUS
  <2>3. \A s \in D : Cardinality(s) <= 0 => g[s] = Value(g, s)
    BY <2>1
  <2> HIDE DEF g, Value, D
  <2>4. UpTo(0)
    BY <2>2, <2>3
  <2> QED
    BY <2>4
<1>3. ASSUME NEW m \in Nat, m \in S PROVE m + 1 \in S
  <2>1. PICK g : /\ g = [s \in D |-> g[s]]
                 /\ \A s \in D : Cardinality(s) <= m => g[s] = Value(g, s)
    BY <1>3
  <2> DEFINE h == [s \in D |-> Value(g, s)]
  <2>2. h = [s \in D |-> h[s]]
    OBVIOUS
  <2>3. ASSUME NEW s \in D, Cardinality(s) <= m + 1 PROVE h[s] = Value(h, s)
    <3>1. CASE s = {}
      BY <3>1
    <3>2. CASE s # {}
      <4>1. Max(s) \in s
        BY <3>2, MaxIsIn
      <4>2. Cardinality(s \ {Max(s)}) = Cardinality(s) - 1
        BY <1>1, <4>1, FS_RemoveElement
      <4>3. s \ {Max(s)} \in D /\ Cardinality(s \ {Max(s)}) <= m
        <5>1. Cardinality(s) \in Nat
          BY <1>1
        <5>2. Cardinality(s) - 1 <= m
          BY <2>3, <5>1
        <5> QED
          BY <4>2, <5>2
      <4>4. h[s \ {Max(s)}] = g[s \ {Max(s)}]
        BY <2>1, <4>3
      <4>5. h[s] = Value(g, s)
        OBVIOUS
      <4> QED
        BY <3>2, <4>4, <4>5
    <3> QED
      BY <3>1, <3>2
  <2> HIDE DEF h, Value, D
  <2>4. UpTo(m + 1)
    BY <2>2, <2>3
  <2>5. m + 1 \in Nat
    OBVIOUS
  <2> HIDE DEF UpTo
  <2> QED
    BY <2>4, <2>5
<1> HIDE DEF S
<1>4. Cardinality(1 .. n) \in S
  BY <1>1, <1>2, <1>3, AllNumbers, Zenon
<1>5. PICK g : /\ g = [s \in D |-> g[s]]
               /\ \A s \in D : Cardinality(s) <= Cardinality(1 .. n) => g[s] = Value(g, s)
  BY <1>4 DEF S
<1>6. \A s \in D : g[s] = Value(g, s)
  BY <1>1, <1>5
<1> HIDE DEF Value, D
<1>7. g = [s \in D |-> Value(g, s)]
  BY <1>5, <1>6
<1> QED
  BY <1>7, Zenon DEF Walks, Value, D

\* Where a path leads is a place of the file system.
LEMMA RealpathIn ==
  ASSUME NEW fs, NEW S, NEW path \in Seq(S)
  PROVE  realpath(fs, path) \subseteq fs.paths
<1> DEFINE names == Split(path, {"/"})
           n == Len(names)
           g == CHOOSE h : Walks(h, fs, Start(fs, path), names)
<1>1. names \in Seq(Seq(S)) /\ n \in Nat /\ n >= 1
  <2>1. PICK f : SplitsUp(f, S, path, {"/"})
    BY SplitPieces
  <2>2. Len(path) \in 0 .. Len(path)
    BY LenProperties
  <2> QED
    BY <2>1, <2>2 DEF SplitsUp
<1>2. realpath(fs, path) = g[DOMAIN names]
  BY RealpathIsChosen
<1> HIDE DEF names
<1>3. DOMAIN names = 1 .. n /\ 1 .. n # {}
  BY <1>1
<1> HIDE DEF n
<1>4. Walks(g, fs, Start(fs, path), names)
  BY <1>1, <1>3, SomethingWalks
<1> HIDE DEF g
<1> DEFINE before == g[(1 .. n) \ {Max(1 .. n)}]
<1>5. g[1 .. n] = Step(fs, before, names[Max(1 .. n)])
  BY <1>3, <1>4 DEF Walks
<1> HIDE DEF before
<1>6. Step(fs, before, names[Max(1 .. n)]) \subseteq fs.paths
  BY DEF Step
<1> QED
  BY <1>2, <1>3, <1>5, <1>6

-----------------------------------------------------------------------------
(***************************************************************************)
(* is_path_safe.                                                           *)
(***************************************************************************)
\* A prefix is what something can be put behind, a strict one something not empty.
LEMMA PrefixIs ==
  ASSUME NEW S, NEW s \in Seq(S), NEW t \in Seq(S)
  PROVE  IsPrefix(s, t) <=> \E u \in Seq(S) : t = s \o u
<1>1. PICK m \in Nat, n \in Nat : m = Len(s) /\ n = Len(t)
  OBVIOUS
<1>2. ASSUME IsPrefix(s, t) PROVE \E u \in Seq(S) : t = s \o u
  <2>1. m <= n /\ SubSeq(s, 1, m) = SubSeq(t, 1, m)
    BY <1>1, <1>2 DEF IsPrefix
  <2>2. SubSeq(s, 1, m) = s
    BY <1>1, SubSeqFull
  <2> DEFINE u == SubSeq(t, m + 1, n)
  <2>3. u \in Seq(S)
    BY <1>1
  <2>4. t = SubSeq(t, 1, m) \o u
    <3>1. SubSeq(t, 1, n) = SubSeq(t, 1, m) \o u
      <4>1. 1 \in 1 .. n + 1 /\ m \in 1 - 1 .. n /\ n \in m .. n
        BY <2>1
      <4> QED
        BY <1>1, <4>1, ConcatAdjacentSubSeq
    <3>2. SubSeq(t, 1, n) = t
      BY <1>1, SubSeqFull
    <3> QED
      BY <3>1, <3>2
  <2> HIDE DEF u
  <2> QED
    BY <2>1, <2>2, <2>3, <2>4
<1>3. ASSUME NEW u \in Seq(S), t = s \o u PROVE IsPrefix(s, t)
  <2>1. Len(t) = m + Len(u) /\ Len(u) \in Nat
    BY <1>1, <1>3
  <2>2. m <= n
    BY <1>1, <2>1
  <2>3. SubSeq(t, 1, m) = s
    BY <1>1, <1>3
  <2>4. SubSeq(s, 1, m) = s
    BY <1>1, SubSeqFull
  <2> QED
    BY <1>1, <2>2, <2>3, <2>4 DEF IsPrefix
<1> QED
  BY <1>2, <1>3

LEMMA StrictPrefixIs ==
  ASSUME NEW S, NEW s \in Seq(S), NEW t \in Seq(S)
  PROVE  IsStrictPrefix(s, t) <=> \E u \in Seq(S) : u # <<>> /\ t = s \o u
<1>1. IsPrefix(s, t) <=> \E u \in Seq(S) : t = s \o u
  BY PrefixIs
<1>2. \A u \in Seq(S) : s \o u = s <=> u = <<>>
  BY ConcatEqualIffEmpty
<1> QED
  BY <1>1, <1>2 DEF IsStrictPrefix

\* What erase() leaves of the absolute path of t below the working directory.
LEMMA ErasedIs ==
  ASSUME NEW T, "/" \in T, NEW c \in Seq(T), NEW x \in Seq(T)
  PROVE  SubSeq(c \o (<<"/">> \o x), Len(c) + 2, Len(c \o (<<"/">> \o x))) = x
OBVIOUS

\* And of the working directory itself, whose length erase() passes.
LEMMA NothingErased ==
  ASSUME NEW T, NEW c \in Seq(T)
  PROVE  SubSeq(c, Len(c) + 2, Len(c)) = <<>>
BY SubSeqEmpty

\* For a path p below the working directory the comparison of strings says
\* whether p is below the root.
LEMMA ComparisonRight ==
  ASSUME NEW T, "/" \in T, NEW cwd \in Seq(Names(T)), NEW root \in Seq(Names(T)), root # <<>>,
         NEW p \in Seq(Names(T)), IsPrefix(cwd, p)
  PROVE  IsPrefix(new_root_dir(Joined(root)),
                  SubSeq(Slashes(p), Len(Slashes(cwd)) + 2, Len(Slashes(p))))
           <=> IsStrictPrefix(cwd \o root, p)
<1> DEFINE c == Slashes(cwd)
           j == Joined(root)
           path == SubSeq(Slashes(p), Len(c) + 2, Len(Slashes(p)))
           slash == <<"/">>
<1>1. PICK t \in Seq(Names(T)) : p = cwd \o t
  BY PrefixIs
<1>2. c \in Seq(T) /\ Slashes(t) \in Seq(T) /\ slash \in Seq(T)
  BY StringBehind
<1>3. Slashes(p) = c \o Slashes(t)
  <2>1. StringJoins(cwd, t)
    BY NamesType, StringConcat
  <2> QED
    BY <1>1, <2>1 DEF StringJoins
<1>4. j \in Seq(T) /\ Slashes(root) = slash \o j
  <2>1. PICK n, q : FirstName(root, n, q, T)
    BY FirstNameIs
  <2> DEFINE x == n \o Slashes(q)
  <2>2. x \in Seq(T) /\ Slashes(root) = slash \o x
    BY <2>1, NamesType, StringBehind, ConcatProperties DEF FirstName
  <2> HIDE DEF x
  <2>3. Tail(slash \o x) = x
    BY <2>2, SlashFirst
  <2> QED
    BY <2>2, <2>3 DEF Joined, AsString
<1>5. new_root_dir(j) = j \o slash /\ j \o slash \in Seq(T)
  <2> HIDE DEF j
  <2>1. Append(j, "/") = j \o slash
    BY <1>4, AppendIsConcat
  <2> QED
    BY <1>4, <1>2, <2>1, ConcatProperties DEF new_root_dir
<1>6. cwd \o root \in Seq(Names(T)) /\ Associates(cwd, root, t)
  BY Concat, ConcatProperties
<1> HIDE DEF c, j, slash
<1>7. CASE t = <<>>
  <2>1. path = <<>>
    <3>1. Slashes(p) = c
      BY <1>2, <1>3, <1>7, EmptyString, ConcatEmptySeq
    <3> QED
      BY <1>2, <3>1, NothingErased
  <2>2. ~IsPrefix(j \o slash, <<>>)
    <3>1. Len(j \o slash) = Len(j) + 1 /\ Len(j) \in Nat
      BY <1>4 DEF slash
    <3>2. Len(<<>>) = 0
      OBVIOUS
    <3> QED
      BY <3>1, <3>2 DEF IsPrefix
  <2>3. ~IsStrictPrefix(cwd \o root, p)
    <3>1. p = cwd
      BY <1>1, <1>7, ConcatEmptySeq
    <3>2. Len(cwd \o root) = Len(cwd) + Len(root) /\ Len(cwd) \in Nat /\ Len(root) \in Nat
          /\ Len(root) # 0
      BY EmptySeq
    <3>3. ~(Len(cwd \o root) <= Len(cwd))
      BY <3>2
    <3> QED
      BY <3>1, <3>3 DEF IsStrictPrefix, IsPrefix
  <2> HIDE DEF path
  <2> QED
    BY <1>5, <2>1, <2>2, <2>3 DEF path, c, j
<1>8. CASE t # <<>>
  <2>1. PICK x \in Seq(T) : Slashes(t) = slash \o x
    <3>1. PICK n, q : FirstName(t, n, q, T)
      BY <1>8, FirstNameIs
    <3>2. n \o Slashes(q) \in Seq(T)
      BY <3>1, NamesType, StringBehind, ConcatProperties DEF FirstName
    <3> QED
      BY <3>1, <3>2 DEF FirstName, slash
  <2>2. path = x
    <3>1. SubSeq(c \o (slash \o x), Len(c) + 2, Len(c \o (slash \o x))) = x
      BY <1>2, ErasedIs DEF slash
    <3> QED
      BY <1>3, <2>1, <3>1
  <2>3. \A u \in Seq(T) : slash \o ((j \o slash) \o u) = Slashes(root) \o (slash \o u)
    <3> TAKE u \in Seq(T)
    <3>1. Associates(j, slash, u) /\ slash \o u \in Seq(T)
      BY <1>2, <1>4, Concat, ConcatProperties
    <3>2. Associates(slash, j, slash \o u)
      BY <1>2, <1>4, <3>1, Concat
    <3> QED
      BY <1>4, <3>1, <3>2, Zenon DEF Associates
  <2>4. IsPrefix(j \o slash, x) <=> \E u \in Seq(T) : x = (j \o slash) \o u
    <3> DEFINE y == j \o slash
    <3>1. y \in Seq(T)
      BY <1>5
    <3> HIDE DEF y
    <3>2. IsPrefix(y, x) <=> \E u \in Seq(T) : x = y \o u
      BY <3>1, PrefixIs
    <3> QED
      BY <3>2 DEF y
  <2>5. IsStrictPrefix(cwd \o root, p)
          <=> \E v \in Seq(Names(T)) : v # <<>> /\ p = (cwd \o root) \o v
    BY <1>6, StrictPrefixIs
  <2>6. ASSUME NEW u \in Seq(T), x = (j \o slash) \o u
        PROVE  \E v \in Seq(Names(T)) : v # <<>> /\ p = (cwd \o root) \o v
    <3>1. Slashes(t) = Slashes(root) \o (slash \o u)
      BY <2>1, <2>3, <2>6
    <3>2. GoesOn(root, t, u, T)
      BY StringPrefix
    <3>3. PICK v \in Seq(Names(T)) : v # <<>> /\ t = root \o v
      BY <3>1, <3>2 DEF GoesOn, slash
    <3>4. Associates(cwd, root, v)
      BY Concat
    <3>5. p = (cwd \o root) \o v
      BY <1>1, <3>3, <3>4, Zenon DEF Associates
    <3> QED
      BY <3>3, <3>5
  <2>7. ASSUME NEW v \in Seq(Names(T)), v # <<>>, p = (cwd \o root) \o v
        PROVE  \E u \in Seq(T) : x = (j \o slash) \o u
    <3>1. t = root \o v
      <4>1. Associates(cwd, root, v) /\ root \o v \in Seq(Names(T))
        BY Concat, ConcatProperties
      <4>2. cwd \o t = cwd \o (root \o v)
        BY <1>1, <2>7, <4>1, Zenon DEF Associates
      <4> QED
        BY <4>1, <4>2, ConcatSimplifications
    <3>2. PICK u \in Seq(T) : Slashes(v) = slash \o u
      <4>1. PICK n, q : FirstName(v, n, q, T)
        BY <2>7, FirstNameIs
      <4>2. n \o Slashes(q) \in Seq(T)
        BY <4>1, NamesType, StringBehind, ConcatProperties DEF FirstName
      <4> QED
        BY <4>1, <4>2 DEF FirstName, slash
    <3>3. Slashes(t) = Slashes(root) \o (slash \o u)
      <4>1. StringJoins(root, v)
        BY NamesType, StringConcat
      <4> QED
        BY <3>1, <3>2, <4>1 DEF StringJoins
    <3>4. slash \o x = slash \o ((j \o slash) \o u)
      BY <2>1, <2>3, <3>3
    <3>5. (j \o slash) \o u \in Seq(T)
      BY <1>5, ConcatProperties
    <3>6. x = (j \o slash) \o u
      <4> DEFINE y == (j \o slash) \o u
      <4>1. y \in Seq(T) /\ slash \o x = slash \o y
        BY <3>4, <3>5
      <4> HIDE DEF y
      <4>2. x = y
        BY <1>2, <4>1, ConcatSimplifications
      <4> QED
        BY <4>2 DEF y
    <3> QED
      BY <3>6
  <2>8. IsPrefix(j \o slash, x) <=> IsStrictPrefix(cwd \o root, p)
    BY <2>4, <2>5, <2>6, <2>7
  <2> HIDE DEF path
  <2> QED
    BY <1>5, <2>2, <2>8 DEF path, c, j
<1> QED
  BY <1>7, <1>8

\* Paths have symbols: some set has all of theirs.
LEMMA PathsHaveSymbols ==
  ASSUME NEW P, \A p \in P : IsPath(p)
  PROVE  \E T : "/" \in T /\ P \subseteq Seq(Names(T))
<1> DEFINE N == UNION {ToSet(p) : p \in P}
           T == {"/"} \cup UNION {ToSet(n) : n \in N}
<1>1. ASSUME NEW p \in P PROVE p \in Seq(Names(T))
  <2>1. p \in Seq(ToSet(p)) /\ \A k \in DOMAIN p : IsName(p[k])
    BY DEF IsPath
  <2>2. ASSUME NEW n \in ToSet(p) PROVE n \in Names(T)
    <3>1. IsName(n)
      BY <2>1 DEF ToSet
    <3>2. n \in Seq(ToSet(n)) /\ "/" \notin ToSet(n) /\ n # <<>>
      BY <3>1 DEF IsName
    <3>3. ToSet(n) \subseteq T
      BY <2>2
    <3>4. n \in Seq(T)
      BY <3>2, <3>3, SeqMonotonic
    <3>5. \A k \in 1 .. Len(n) : n[k] # "/"
      <4>1. \A k \in 1 .. Len(n) : n[k] \in ToSet(n)
        <5>1. DOMAIN n = 1 .. Len(n)
          BY <3>4
        <5> QED
          BY <5>1 DEF ToSet
      <4> QED
        BY <3>2, <4>1
    <3> HIDE DEF T
    <3> QED
      BY <3>2, <3>4, <3>5 DEF Names
  <2>3. ToSet(p) \subseteq Names(T)
    BY <2>2
  <2> HIDE DEF T
  <2> QED
    BY <2>1, <2>3, SeqMonotonic
<1>2. "/" \in T
  OBVIOUS
<1> HIDE DEF T
<1> QED
  BY <1>1, <1>2

\* is_path_safe in any file system, from any working directory but its root, for
\* any root directory below that one and any spelling.
LEMMA PathIsSafe ==
  ASSUME NEW fs, IsPath(fs.cwd), fs.cwd # <<>>, \A p \in fs.paths : IsPath(p),
         NEW root, IsPath(root), root # <<>>,
         NEW S, NEW test_file \in Seq(S),
         \A p \in realpath(fs, test_file) : IsPrefix(fs.cwd, p)
  PROVE  is_path_safe(fs, Joined(root), test_file)
           <=> \E p \in realpath(fs, test_file) : IsStrictPrefix(fs.cwd \o root, p)
<1>1. PICK T : "/" \in T /\ {fs.cwd, root} \cup fs.paths \subseteq Seq(Names(T))
  <2>1. \A p \in {fs.cwd, root} \cup fs.paths : IsPath(p)
    OBVIOUS
  <2> QED
    BY <2>1, PathsHaveSymbols
<1>2. realpath(fs, test_file) \subseteq fs.paths
  BY RealpathIn
<1>3. ASSUME NEW p \in realpath(fs, test_file)
      PROVE  IsPrefix(new_root_dir(Joined(root)),
                      SubSeq(AsString(p), Len(AsString(fs.cwd)) + 2, Len(AsString(p))))
               <=> IsStrictPrefix(fs.cwd \o root, p)
  <2>1. /\ fs.cwd \in Seq(Names(T)) /\ root \in Seq(Names(T)) /\ p \in Seq(Names(T))
        /\ IsPrefix(fs.cwd, p)
    BY <1>1, <1>2
  <2>2. p # <<>>
    <3>1. Len(fs.cwd) <= Len(p)
      BY <2>1 DEF IsPrefix
    <3>2. Len(fs.cwd) \in Nat \ {0}
      BY <2>1, EmptySeq
    <3> QED
      BY <3>1, <3>2
  <2>3. AsString(p) = Slashes(p) /\ AsString(fs.cwd) = Slashes(fs.cwd)
    BY <2>2 DEF AsString
  <2> QED
    BY <1>1, <2>1, <2>3, ComparisonRight
<1> QED
  BY <1>3, Zenon DEF is_path_safe

\* is_path_safe is right in every state: for any directories, documents that come
\* and go, root directories and spellings, and any working directory but the root
\* of the file system, for which it is not (HttpUtils.cpp:45-80).
THEOREM Paths == Spec => []PathSafe
<1>1. PathSafe
  <2> SUFFICES ASSUME Cwd # <<>> PROVE PathSafe
    BY DEF PathSafe
  <2> DEFINE fs == Tree
  <2>1. fs.cwd = Cwd /\ IsPath(fs.cwd) /\ \A p \in fs.paths : IsPath(p)
    BY PathsAssumption DEF Tree
  <2> HIDE DEF fs
  <2>2. ASSUME NEW root \in Roots, NEW test_file \in TestFiles,
               \A p \in realpath(fs, test_file) : IsPrefix(Cwd, p)
        PROVE  is_path_safe(fs, Joined(root), test_file)
                 <=> \E p \in realpath(fs, test_file) : IsStrictPrefix(Cwd \o root, p)
    <3>1. IsPath(root) /\ root # <<>> /\ test_file \in Seq(ToSet(test_file))
      BY PathsAssumption
    <3>2. (\A p \in realpath(fs, test_file) : IsPrefix(fs.cwd, p)) /\ fs.cwd # <<>>
      BY <2>1, <2>2
    <3>3. is_path_safe(fs, Joined(root), test_file)
            <=> \E p \in realpath(fs, test_file) : IsStrictPrefix(fs.cwd \o root, p)
      BY <2>1, <3>1, <3>2, PathIsSafe
    <3> QED
      BY <2>1, <3>3
  <2> QED
    BY <2>2 DEF PathSafe, fs
<1> QED
  BY <1>1, PTL
=============================================================================
