-------------------------- MODULE LoadedDictsProofs --------------------------
(***************************************************************************)
(* Proofs about LoadedDicts, for every set of paths and kinds, every       *)
(* length of the lists and all rows: the lists' entries share the files    *)
(* their folders have now, the lists are in the order asked for, and so is *)
(* what a query and a request answer with.                                 *)
(***************************************************************************)
EXTENDS LoadedDicts, SequenceFacts

-----------------------------------------------------------------------------
(* Only.                                                                   *)

LEMMA OnlyEmpty == ASSUME NEW paths PROVE Only(<<>>, paths) = <<>>
<1> DEFINE f == [i \in DOMAIN <<>> |-> IF <<>>[i].path \in paths THEN <<<<>>[i]>> ELSE <<>>]
<1>1. f = <<>>
  OBVIOUS
<1> QED BY <1>1, FlattenEmpty DEF Only

LEMMA OnlyAppend ==
  ASSUME NEW S, NEW s \in Seq(S), NEW e \in S, NEW paths
  PROVE  /\ Only(s, paths) \in Seq(S)
         /\ Only(Append(s, e), paths) = IF e.path \in paths THEN Append(Only(s, paths), e) ELSE Only(s, paths)
<1> DEFINE n == Len(s)
           a == Append(s, e)
           One(x) == IF x.path \in paths THEN <<x>> ELSE <<>>
           f == [i \in DOMAIN s |-> One(s[i])]
           g == [i \in DOMAIN a |-> One(a[i])]
<1>1. n \in Nat /\ DOMAIN s = 1..n /\ DOMAIN a = 1..n + 1 /\ a[n + 1] = e /\ \A i \in 1..n : a[i] = s[i]
  BY AppendProperties, LenProperties
<1>2. \A x \in S : One(x) \in Seq(S)
  OBVIOUS
<1>3. f \in Seq(Seq(S))
  <2>1. \A i \in 1..n : One(s[i]) \in Seq(S)
    BY <1>2
  <2> HIDE DEF One
  <2> QED BY <1>1, <2>1
<1>4. f \in Seq(Seq(S)) /\ Len(f) = n
  BY <1>1, <1>3
<1>5. g = Append(f, One(e))
  <2> DEFINE b == Append(f, One(e))
  <2>1. b \in Seq(Seq(S)) /\ Len(b) = n + 1 /\ b[n + 1] = One(e) /\ \A i \in 1..n : b[i] = f[i]
    BY <1>2, <1>4, AppendProperties
  <2>2. \A i \in 1..n + 1 : One(a[i]) = b[i]
    BY <1>1, <2>1
  <2> HIDE DEF b, One
  <2>3. b = [i \in 1..n + 1 |-> b[i]]
    BY <1>1, <2>1
  <2>4. g = b
    BY <1>1, <2>2, <2>3
  <2> QED BY <2>4 DEF b
<1>6. FlattenSeq(f) = Only(s, paths) /\ FlattenSeq(g) = Only(a, paths)
  BY DEF Only
<1> HIDE DEF f, g
<1>7. FlattenSeq(f) \in Seq(S) /\ FlattenSeq(g) = FlattenSeq(f) \o One(e)
  BY <1>2, <1>4, <1>5, FlattenAppend
<1>8. /\ FlattenSeq(f) \o <<>> = FlattenSeq(f)
      /\ FlattenSeq(f) \o <<e>> = Append(FlattenSeq(f), e)
  BY <1>7, ConcatEmptySeq, AppendIsConcat
<1> QED BY <1>6, <1>7, <1>8

\* Only keeps what it says.
LEMMA OnlySet ==
  ASSUME NEW S, NEW s \in Seq(S), NEW paths
  PROVE  /\ Only(s, paths) \in Seq(S)
         /\ ToSet(Only(s, paths)) = {e \in ToSet(s) : e.path \in paths}
<1> DEFINE T == {r \in Seq(S) : /\ Only(r, paths) \in Seq(S)
                                /\ ToSet(Only(r, paths)) = {e \in ToSet(r) : e.path \in paths}}
<1>1. <<>> \in T
  <2>1. <<>> \in Seq(S) /\ ToSet(<<>>) = {}
    BY DEF ToSet
  <2> QED BY <2>1, OnlyEmpty
<1>2. ASSUME NEW r \in Seq(S), NEW e \in S, r \in T PROVE Append(r, e) \in T
  <2> DEFINE o == Only(r, paths)
             p == Only(Append(r, e), paths)
  <2>1. o \in Seq(S) /\ p = IF e.path \in paths THEN Append(o, e) ELSE o
    BY OnlyAppend
  <2>2. ToSet(o) = {x \in ToSet(r) : x.path \in paths}
    BY <1>2
  <2>3. ToSet(Append(r, e)) = ToSet(r) \cup {e}
    BY AppendSet
  <2>4. Append(r, e) \in Seq(S)
    BY AppendProperties
  <2> HIDE DEF o, p
  <2>5. Append(o, e) \in Seq(S) /\ ToSet(Append(o, e)) = ToSet(o) \cup {e}
    BY <2>1, AppendSet, AppendProperties
  <2>6. p \in Seq(S) /\ ToSet(p) = {x \in ToSet(Append(r, e)) : x.path \in paths}
    <3>1. CASE e.path \in paths
      BY <3>1, <2>1, <2>2, <2>3, <2>5
    <3>2. CASE e.path \notin paths
      BY <3>2, <2>1, <2>2, <2>3
    <3> QED BY <3>1, <3>2
  <2> QED BY <2>4, <2>6 DEF p
<1> HIDE DEF T
<1>3. Seq(S) \subseteq T
  BY <1>1, <1>2, SeqSetInduction
<1> QED BY <1>3 DEF T

LEMMA OnlyOnly ==
  ASSUME NEW S, NEW s \in Seq(S), NEW paths, NEW others
  PROVE  Only(Only(s, paths), others) = Only(s, paths \cap others)
<1> DEFINE T == {r \in Seq(S) : Only(Only(r, paths), others) = Only(r, paths \cap others)}
<1>1. <<>> \in T
  BY OnlyEmpty
<1>2. ASSUME NEW r \in Seq(S), NEW e \in S, r \in T PROVE Append(r, e) \in T
  <2>1. /\ Only(r, paths) \in Seq(S)
        /\ Only(Append(r, e), paths) = IF e.path \in paths THEN Append(Only(r, paths), e) ELSE Only(r, paths)
    BY OnlyAppend
  <2>2. Only(Append(r, e), paths \cap others)
          = IF e.path \in paths \cap others THEN Append(Only(r, paths \cap others), e) ELSE Only(r, paths \cap others)
    BY OnlyAppend
  <2>3. Only(Append(Only(r, paths), e), others)
          = IF e.path \in others THEN Append(Only(Only(r, paths), others), e) ELSE Only(Only(r, paths), others)
    BY <2>1, OnlyAppend
  <2>4. Only(Only(r, paths), others) = Only(r, paths \cap others) /\ Append(r, e) \in Seq(S)
    BY <1>2, AppendProperties
  <2>5. Only(Only(Append(r, e), paths), others) = Only(Append(r, e), paths \cap others)
    <3>1. CASE e.path \in paths
      <4>1. Only(Append(r, e), paths) = Append(Only(r, paths), e)
        BY <2>1, <3>1
      <4>2. e.path \in paths \cap others <=> e.path \in others
        BY <3>1
      <4> QED BY <4>1, <4>2, <2>2, <2>3, <2>4
    <3>2. CASE e.path \notin paths
      BY <3>2, <2>1, <2>2, <2>4
    <3> QED BY <3>1, <3>2
  <2> QED BY <2>4, <2>5
<1> HIDE DEF T
<1>3. Seq(S) \subseteq T
  BY <1>1, <1>2, SeqSetInduction
<1> QED BY <1>3 DEF T

LEMMA OnlyConcat ==
  ASSUME NEW S, NEW s \in Seq(S), NEW t \in Seq(S), NEW paths
  PROVE  Only(s \o t, paths) = Only(s, paths) \o Only(t, paths)
<1> DEFINE T == {r \in Seq(S) : Only(s \o r, paths) = Only(s, paths) \o Only(r, paths)}
<1>0. Only(s, paths) \in Seq(S)
  BY OnlySet
<1>1. <<>> \in T
  <2>1. s \o <<>> = s /\ Only(s, paths) \o <<>> = Only(s, paths) /\ <<>> \in Seq(S)
    BY <1>0, ConcatEmptySeq, EmptySeq
  <2> QED BY <2>1, OnlyEmpty
<1>2. ASSUME NEW r \in Seq(S), NEW e \in S, r \in T PROVE Append(r, e) \in T
  <2> DEFINE o == Only(s, paths)
             p == Only(r, paths)
  <2>1. s \o r \in Seq(S) /\ Append(r, e) \in Seq(S) /\ p \in Seq(S) /\ o \in Seq(S)
    BY <1>0, ConcatProperties, AppendProperties, OnlySet
  <2>2. s \o Append(r, e) = Append(s \o r, e)
    BY AppendIsConcat, ConcatAssociative, <2>1
  <2>3. Only(Append(s \o r, e), paths)
          = IF e.path \in paths THEN Append(Only(s \o r, paths), e) ELSE Only(s \o r, paths)
    <3> DEFINE q == s \o r
    <3>1. q \in Seq(S)
      BY <2>1
    <3> HIDE DEF q
    <3>2. Only(Append(q, e), paths) = IF e.path \in paths THEN Append(Only(q, paths), e) ELSE Only(q, paths)
      BY <3>1, OnlyAppend
    <3> QED BY <3>2 DEF q
  <2>4. Only(Append(r, e), paths) = IF e.path \in paths THEN Append(p, e) ELSE p
    BY OnlyAppend
  <2>5. Only(s \o r, paths) = o \o p
    BY <1>2
  <2> HIDE DEF o, p
  <2>6. o \o Append(p, e) = Append(o \o p, e)
    BY <2>1
  <2>7. Only(s \o Append(r, e), paths) = o \o Only(Append(r, e), paths)
    BY <2>2, <2>3, <2>4, <2>5, <2>6
  <2> QED BY <2>1, <2>7 DEF o
<1> HIDE DEF T
<1>3. Seq(S) \subseteq T
  BY <1>1, <1>2, SeqSetInduction
<1> QED BY <1>3 DEF T

LEMMA OnlyFlatten ==
  ASSUME NEW S, NEW ss \in Seq(Seq(S)), NEW paths
  PROVE  Only(FlattenSeq(ss), paths) = FlattenSeq([i \in 1..Len(ss) |-> Only(ss[i], paths)])
<1> DEFINE Each(r) == [i \in 1..Len(r) |-> Only(r[i], paths)]
           T == {r \in Seq(Seq(S)) : Each(r) \in Seq(Seq(S)) /\ Only(FlattenSeq(r), paths) = FlattenSeq(Each(r))}
<1>1. <<>> \in T
  <2>1. <<>> \in Seq(Seq(S)) /\ Each(<<>>) = <<>>
    OBVIOUS
  <2> QED BY <2>1, FlattenEmpty, OnlyEmpty
<1>2. ASSUME NEW r \in Seq(Seq(S)), NEW t \in Seq(S), r \in T PROVE Append(r, t) \in T
  <2> DEFINE a == Append(r, t)
             n == Len(r)
  <2>1. n \in Nat /\ a \in Seq(Seq(S)) /\ Len(a) = n + 1 /\ a[n + 1] = t /\ \A i \in 1..n : a[i] = r[i]
    BY AppendProperties
  <2>2. Each(r) \in Seq(Seq(S)) /\ Len(Each(r)) = n /\ \A i \in 1..n : Each(r)[i] = Only(r[i], paths)
    BY <1>2, <2>1
  <2>3. Only(t, paths) \in Seq(S)
    BY OnlySet
  <2>4. Each(a) = Append(Each(r), Only(t, paths))
    <3> DEFINE b == Append(Each(r), Only(t, paths))
    <3>1. /\ b \in Seq(Seq(S)) /\ Len(b) = n + 1
          /\ b[n + 1] = Only(t, paths) /\ \A i \in 1..n : b[i] = Each(r)[i]
      BY <2>2, <2>3, AppendProperties
    <3>2. \A i \in 1..n + 1 : b[i] = Only(a[i], paths)
      BY <2>1, <2>2, <3>1
    <3> HIDE DEF b
    <3>3. b = [i \in 1..n + 1 |-> b[i]]
      BY <3>1
    <3>4. Each(a) = [i \in 1..n + 1 |-> Only(a[i], paths)]
      BY <2>1
    <3>5. b = [i \in 1..n + 1 |-> Only(a[i], paths)]
      BY <3>2, <3>3
    <3> QED BY <3>4, <3>5 DEF b
  <2>5. Each(a) \in Seq(Seq(S))
    BY <2>2, <2>3, <2>4, AppendProperties
  <2>6. FlattenSeq(a) = FlattenSeq(r) \o t /\ FlattenSeq(r) \in Seq(S)
    BY FlattenAppend
  <2> HIDE DEF Each, a, n
  <2>7. FlattenSeq(Each(a)) = FlattenSeq(Each(r)) \o Only(t, paths)
    BY <2>2, <2>3, <2>4, FlattenAppend
  <2>8. Only(FlattenSeq(a), paths) = Only(FlattenSeq(r), paths) \o Only(t, paths)
    BY <2>6, OnlyConcat
  <2>9. Only(FlattenSeq(r), paths) = FlattenSeq(Each(r))
    BY <1>2
  <2> QED BY <2>1, <2>5, <2>7, <2>8, <2>9 DEF a
<1> HIDE DEF T
<1>3. Seq(Seq(S)) \subseteq T
  BY <1>1, <1>2, SeqSetInduction
<1> QED BY <1>3 DEF T

-----------------------------------------------------------------------------
(* Reordered is a stable sort.                                             *)

LEMMA RankIs ==
  ASSUME NEW order \in Seq(Paths), NEW p \in Paths
  PROVE  /\ Rank(order, p) \in 1..Len(order) + 1
         /\ p \notin ToSet(order) <=> Rank(order, p) = Len(order) + 1
         /\ Rank(order, p) <= Len(order) => order[Rank(order, p)] = p
         /\ \A k \in 1..Len(order) : order[k] = p => Rank(order, p) <= k
<1> DEFINE n == Len(order)
           s == order \o <<p>>
           I == {i \in 1..Len(s) : s[i] = p}
<1>1. n \in Nat /\ Len(s) = n + 1 /\ s[n + 1] = p /\ \A i \in 1..n : s[i] = order[i]
  OBVIOUS
<1>2. I \in SUBSET Nat /\ n + 1 \in I
  BY <1>1
<1>3. PICK m \in I : \A k \in I : m <= k
  <2> HIDE DEF I
  <2> QED BY <1>2, LeastNat
<1>4. Rank(order, p) = Min(I)
  BY <1>2 DEF Rank, SelectInSeq
<1>5. Min(I) \in I /\ \A k \in I : Min(I) <= k
  <2> HIDE DEF I
  <2> QED BY <1>3 DEF Min
<1>6. ToSet(order) = {order[i] : i \in 1..n}
  BY DEF ToSet
<1> DEFINE m0 == Min(I)
<1>9. /\ m0 \in 1..n + 1 /\ s[m0] = p
      /\ \A k \in 1..n + 1 : s[k] = p => m0 <= k
  BY <1>1, <1>5
<1> HIDE DEF m0, s
<1>7. ASSUME p \notin ToSet(order) PROVE m0 = n + 1
  <2>1. \A i \in 1..n : s[i] # p
    BY <1>1, <1>6, <1>7
  <2> QED BY <1>1, <1>9, <2>1
<1>8. ASSUME p \in ToSet(order) PROVE m0 # n + 1
  <2>1. PICK i \in 1..n : order[i] = p
    BY <1>6, <1>8
  <2>2. i \in 1..n + 1 /\ s[i] = p
    BY <1>1, <2>1
  <2> QED BY <1>1, <1>9, <2>1, <2>2
<1>10. Rank(order, p) = m0
  BY <1>4 DEF m0, s
<1>11. m0 <= n => order[m0] = p
  BY <1>1, <1>9
<1>12. ASSUME NEW k \in 1..n, order[k] = p PROVE m0 <= k
  <2>1. k \in 1..n + 1 /\ s[k] = p
    BY <1>1, <1>12
  <2> QED BY <1>9, <2>1
<1> QED BY <1>7, <1>8, <1>9, <1>10, <1>11, <1>12

\* The parts that Reordered joins.
LEMMA ReorderedParts ==
  ASSUME NEW S, NEW s \in Seq(S), NEW order \in Seq(Paths)
  PROVE  LET part(r) == Only(s, {p \in Paths : Rank(order, p) = r})
             parts == [r \in 1..Len(order) + 1 |-> part(r)]
         IN  /\ parts \in Seq(Seq(S)) /\ Len(parts) = Len(order) + 1
             /\ Reordered(s, order) = FlattenSeq(parts)
             /\ Reordered(s, order) \in Seq(S)
             /\ \A r \in 1..Len(order) + 1 :
                    ToSet(parts[r]) = {e \in ToSet(s) : e.path \in Paths /\ Rank(order, e.path) = r}
<1> DEFINE part(r) == Only(s, {p \in Paths : Rank(order, p) = r})
           parts == [r \in 1..Len(order) + 1 |-> part(r)]
<1>1. Len(order) + 1 \in Nat
  OBVIOUS
<1>2. ASSUME NEW r
      PROVE  part(r) \in Seq(S) /\ ToSet(part(r)) = {e \in ToSet(s) : e.path \in Paths /\ Rank(order, e.path) = r}
  <2> DEFINE ps == {p \in Paths : Rank(order, p) = r}
  <2>1. \A x : x \in ps <=> x \in Paths /\ Rank(order, x) = r
    OBVIOUS
  <2> HIDE DEF ps
  <2>2. Only(s, ps) \in Seq(S) /\ ToSet(Only(s, ps)) = {e \in ToSet(s) : e.path \in ps}
    BY OnlySet
  <2>3. {e \in ToSet(s) : e.path \in ps} = {e \in ToSet(s) : e.path \in Paths /\ Rank(order, e.path) = r}
    BY <2>1
  <2> QED BY <2>2, <2>3 DEF ps
<1>3. Reordered(s, order) = FlattenSeq(parts)
  BY DEF Reordered
<1> HIDE DEF part
<1>4. parts \in Seq(Seq(S)) /\ Len(parts) = Len(order) + 1
  BY <1>1, <1>2
<1>5. FlattenSeq(parts) \in Seq(S)
  <2> HIDE DEF parts
  <2>1. <<>> \in Seq(S)
    BY EmptySeq
  <2> QED BY <1>4, <2>1, FlattenAppend
<1> QED BY <1>2, <1>3, <1>4, <1>5 DEF part

LEMMA ReorderedKeeps ==
  ASSUME NEW S, \A e \in S : e.path \in Paths, NEW s \in Seq(S), NEW order \in Seq(Paths)
  PROVE  Reordered(s, order) \in Seq(S) /\ ToSet(Reordered(s, order)) = ToSet(s)
<1> DEFINE n == Len(order) + 1
           parts == [r \in 1..n |-> Only(s, {p \in Paths : Rank(order, p) = r})]
<1>1. /\ parts \in Seq(Seq(S)) /\ Len(parts) = n
      /\ Reordered(s, order) = FlattenSeq(parts)
      /\ Reordered(s, order) \in Seq(S)
      /\ \A r \in 1..n : ToSet(parts[r]) = {e \in ToSet(s) : e.path \in Paths /\ Rank(order, e.path) = r}
  BY ReorderedParts
<1> HIDE DEF parts
<1>2. ASSUME NEW e \in ToSet(s) PROVE e.path \in Paths /\ Rank(order, e.path) \in 1..n
  <2>1. e \in S
    BY DEF ToSet
  <2> QED BY <2>1, RankIs
<1>3. \A e : e \in ToSet(FlattenSeq(parts)) <=> \E i \in 1..n : e \in ToSet(parts[i])
  BY <1>1, FlattenSeqSet
<1>4. \A e : e \in ToSet(FlattenSeq(parts)) <=> e \in ToSet(s)
  BY <1>1, <1>2, <1>3
<1> QED BY <1>1, <1>4

LEMMA ReorderedSorts ==
  ASSUME NEW S, \A e \in S : e.path \in Paths, NEW s \in Seq(S), NEW order \in Seq(Paths)
  PROVE  LET t == Reordered(s, order)
         IN  \A i, j \in 1..Len(t) : i < j => Rank(order, t[i].path) <= Rank(order, t[j].path)
<1> DEFINE n == Len(order) + 1
           parts == [r \in 1..n |-> Only(s, {p \in Paths : Rank(order, p) = r})]
           rank == [e \in S |-> Rank(order, e.path)]
           t == Reordered(s, order)
<1>1. /\ parts \in Seq(Seq(S)) /\ Len(parts) = n
      /\ Reordered(s, order) = FlattenSeq(parts)
      /\ Reordered(s, order) \in Seq(S)
      /\ \A r \in 1..n : ToSet(parts[r]) = {e \in ToSet(s) : e.path \in Paths /\ Rank(order, e.path) = r}
  <2> HIDE DEF t, rank
  <2> QED BY ReorderedParts
<1>0. t = FlattenSeq(parts) /\ t \in Seq(S)
  <2> HIDE DEF parts
  <2> QED BY <1>1
<1> HIDE DEF parts, t
<1>2. rank \in [S -> Nat]
  <2>1. \A e \in S : Rank(order, e.path) \in Nat
    BY RankIs
  <2> QED BY <2>1
<1>3. \A e \in ToSet(s) : e \in S
  BY DEF ToSet
<1>4. \A r \in 1..n : \A e \in ToSet(parts[r]) : rank[e] = r
  BY <1>1, <1>3
<1>5. \A e \in S : rank[e] = Rank(order, e.path)
  OBVIOUS
<1> HIDE DEF rank
<1>6. \A i, j \in 1..Len(t) : i < j => rank[t[i]] <= rank[t[j]]
  BY <1>0, <1>1, <1>2, <1>4, FlattenSorted
<1>7. \A i \in 1..Len(t) : t[i] \in S
  BY <1>0
<1> QED BY <1>5, <1>6, <1>7 DEF t

LEMMA ReorderedOthers ==
  ASSUME NEW S, NEW s \in Seq(S), NEW order \in Seq(Paths)
  PROVE  Only(Reordered(s, order), Paths \ ToSet(order)) = Only(s, Paths \ ToSet(order))
<1> DEFINE n == Len(order) + 1
           rest == Paths \ ToSet(order)
           at(r) == {p \in Paths : Rank(order, p) = r}
           parts == [r \in 1..n |-> Only(s, at(r))]
           each == [r \in 1..n |-> Only(parts[r], rest)]
           front == [r \in 1..Len(order) |-> each[r]]
<1>1. parts \in Seq(Seq(S)) /\ Len(parts) = n /\ Reordered(s, order) = FlattenSeq(parts)
  BY ReorderedParts
<1>2. Only(FlattenSeq(parts), rest) = FlattenSeq(each)
  <2> HIDE DEF parts, rest
  <2>1. Only(FlattenSeq(parts), rest) = FlattenSeq([r \in 1..Len(parts) |-> Only(parts[r], rest)])
    BY <1>1, OnlyFlatten
  <2> QED BY <1>1, <2>1
<1>3. \A r \in 1..n : each[r] = Only(s, at(r) \cap rest)
  BY OnlyOnly
<1>4. \A r \in 1..Len(order) : at(r) \cap rest = {}
  BY RankIs
<1>5. at(n) \cap rest = rest
  BY RankIs
<1>6. n \in 1..n /\ \A r \in 1..Len(order) : r \in 1..n
  OBVIOUS
<1> HIDE DEF at, parts, each, rest
<1>7. each[n] = Only(s, rest) /\ \A r \in 1..Len(order) : each[r] = Only(s, {})
  BY <1>3, <1>4, <1>5, <1>6
<1>8. Only(s, rest) \in Seq(S) /\ Only(s, {}) = <<>>
  <2>1. Only(s, {}) \in Seq(S) /\ ToSet(Only(s, {})) = {}
    BY OnlySet
  <2> QED BY <2>1, OnlySet, EmptySet
<1>9. front \in Seq(Seq(S)) /\ Len(front) = Len(order) /\ \A r \in 1..Len(order) : front[r] = <<>>
  <2>1. \A r \in 1..Len(order) : each[r] = <<>>
    BY <1>7, <1>8
  <2>2. <<>> \in Seq(S)
    BY EmptySeq
  <2> HIDE DEF each
  <2>3. \A r \in 1..Len(order) : each[r] \in Seq(S)
    BY <2>1, <2>2
  <2>4. front \in [1..Len(order) -> Seq(S)] /\ Len(order) \in Nat
    BY <2>3
  <2>5. \A r \in 1..Len(order) : front[r] = <<>>
    BY <2>1
  <2> HIDE DEF front
  <2> QED BY <2>4, <2>5
<1>10. each = Append(front, Only(s, rest))
  <2> DEFINE b == Append(front, Only(s, rest))
  <2> HIDE DEF front
  <2>1. /\ b \in Seq(Seq(S)) /\ Len(b) = n /\ b[n] = Only(s, rest)
        /\ \A r \in 1..Len(order) : b[r] = <<>>
    BY <1>8, <1>9, AppendProperties
  <2>2. \A r \in 1..n : b[r] = each[r]
    BY <1>7, <1>8, <2>1
  <2> HIDE DEF b
  <2>3. b = [r \in 1..n |-> b[r]]
    BY <2>1
  <2>4. each = [r \in 1..n |-> each[r]]
    BY DEF each
  <2>5. b = each
    BY <2>2, <2>3, <2>4
  <2> QED BY <2>5 DEF b
<1> HIDE DEF front
<1>11. FlattenSeq(front) = <<>>
  <2>1. FlattenSeq(front) \in Seq(S)
    BY <1>8, <1>9, FlattenAppend
  <2>2. ToSet(<<>>) = {}
    BY DEF ToSet
  <2>3. \A e : e \notin ToSet(FlattenSeq(front))
    BY <1>9, <2>2, FlattenSeqSet
  <2>4. ToSet(FlattenSeq(front)) = {}
    BY <2>3
  <2> QED BY <2>1, <2>4, EmptySet
<1>12. FlattenSeq(each) = <<>> \o Only(s, rest)
  BY <1>8, <1>9, <1>10, <1>11, FlattenAppend
<1>13. FlattenSeq(each) = Only(s, rest)
  BY <1>8, <1>12, ConcatEmptySeq
<1> QED BY <1>1, <1>2, <1>13 DEF rest

-----------------------------------------------------------------------------
(* The inductive invariant.                                                *)

Entries == [path : Paths, title : {TitleOf[p] : p \in Paths}, file : Nat \ {0}]

TypesOK ==
  /\ disk \in [Paths -> [condition : {"good", "none", "part"}, scan : BOOLEAN, imported : Nat]]
  /\ lists \in [Kinds -> Seq(Entries)]
  /\ IsFiniteSet(DOMAIN files) /\ DOMAIN files \subseteq Nat \ {0}
  /\ \A id \in DOMAIN files : files[id] \in [path : Paths, imported : Nat, scan : BOOLEAN]
  /\ held \subseteq Paths

\* FilesSharedAndCurrent is inductive once the entries are known to be entries:
\* what it says of the files' age needs that held is what the lists hold, and
\* that of the scan index that the entries of a path have one file.
IInv == TypesOK /\ FilesSharedAndCurrent

LEMMA EntriesOfIs ==
  ASSUME NEW ls
  PROVE  \A e : e \in EntriesOf(ls) <=> \E k \in Kinds : e \in ToSet(ls[k])
BY DEF EntriesOf

LEMMA EntriesTyped ==
  ASSUME TypesOK
  PROVE  \A e \in EntriesOf(lists) : e \in Entries
<1> SUFFICES ASSUME NEW e \in EntriesOf(lists) PROVE e \in Entries
  OBVIOUS
<1>1. PICK k \in Kinds : e \in ToSet(lists[k])
  BY EntriesOfIs
<1>2. lists[k] \in Seq(Entries)
  BY DEF TypesOK
<1> QED BY <1>1, <1>2 DEF ToSet

LEMMA InitInv == Init => IInv
<1> SUFFICES ASSUME Init PROVE IInv
  OBVIOUS
<1>1. \A k \in Kinds : lists[k] = <<>> /\ ToSet(lists[k]) = {}
  BY DEF Init, ToSet
<1>2. \A e : e \notin EntriesOf(lists)
  BY <1>1, EntriesOfIs
<1>3. DOMAIN files = {}
  BY DEF Init
<1>4. lists \in [Kinds -> Seq(Entries)]
  BY EmptySeq DEF Init
<1>5. disk \in [Paths -> [condition : {"good", "none", "part"}, scan : BOOLEAN, imported : Nat]]
  <2> DEFINE w == Written([condition |-> "good", scan |-> TRUE], 1)
  <2>1. w \in [condition : {"good", "none", "part"}, scan : BOOLEAN, imported : Nat]
    BY DEF Written
  <2> HIDE DEF w
  <2>2. disk \in [Paths -> {w}]
    BY DEF Init, w
  <2> QED BY <2>1, <2>2
<1>6. TypesOK
  BY <1>3, <1>4, <1>5, FS_EmptySet DEF TypesOK, Init
<1>7. ToSet(lists["term"]) = {}
  BY <1>1, ConstantsAssumption
<1>8. held = {} /\ {p \in Paths : IsLoaded(p)} = {}
  BY <1>2 DEF Init, IsLoaded
<1>9. DOMAIN files = {e.file : e \in EntriesOf(lists)}
  BY <1>2, <1>3
<1> QED BY <1>2, <1>6, <1>7, <1>8, <1>9 DEF IInv, FilesSharedAndCurrent

LEMMA NewIdIsNew ==
  ASSUME TypesOK
  PROVE  NewId \in Nat \ {0} /\ NewId \notin DOMAIN files
<1> DEFINE n == Cardinality(DOMAIN files)
           free == (1..n + 1) \ DOMAIN files
           New(id) == id \notin DOMAIN files /\ 1..id - 1 \subseteq DOMAIN files
<1>1. IsFiniteSet(DOMAIN files) /\ n \in Nat
  BY FS_CardinalityType DEF TypesOK
<1>2. free # {}
  <2> SUFFICES ASSUME 1..n + 1 \subseteq DOMAIN files PROVE FALSE
    OBVIOUS
  <2>1. Cardinality(1..n + 1) <= n
    BY <1>1, FS_Subset
  <2>2. Cardinality(1..n + 1) = n + 1
    BY <1>1, FS_Interval
  <2> QED BY <1>1, <2>1, <2>2
<1>3. PICK id \in free : \A k \in free : id <= k
  <2>1. free \in SUBSET Nat
    BY <1>1
  <2> HIDE DEF free
  <2> QED BY <1>2, <2>1, LeastNat
<1>4. id \in 1..n + 1 /\ New(id)
  BY <1>1, <1>3
<1>5. NewId \in 1..n + 1 /\ New(NewId)
  BY <1>4 DEF NewId
<1> QED BY <1>1, <1>5

\* Pushing an entry at the end of a list adds it to the entries.
LEMMA PushedEntries ==
  ASSUME TypesOK, NEW k \in Kinds, NEW e \in Entries, lists' = [lists EXCEPT ![k] = Append(@, e)]
  PROVE  /\ lists' \in [Kinds -> Seq(Entries)]
         /\ \A x : x \in EntriesOf(lists') <=> x \in EntriesOf(lists) \/ x = e
         /\ \A l \in Kinds : ToSet(lists'[l]) = IF l = k THEN ToSet(lists[k]) \cup {e} ELSE ToSet(lists[l])
<1>1. lists[k] \in Seq(Entries)
  BY DEF TypesOK
<1>2. Append(lists[k], e) \in Seq(Entries) /\ ToSet(Append(lists[k], e)) = ToSet(lists[k]) \cup {e}
  BY <1>1, AppendSet, AppendProperties
<1>3. lists' \in [Kinds -> Seq(Entries)] /\ lists'[k] = Append(lists[k], e) /\ \A l \in Kinds : l # k => lists'[l] = lists[l]
  BY <1>2 DEF TypesOK
<1>4. \A l \in Kinds : ToSet(lists'[l]) = IF l = k THEN ToSet(lists[k]) \cup {e} ELSE ToSet(lists[l])
  BY <1>2, <1>3
<1>5. ASSUME NEW x PROVE x \in EntriesOf(lists') <=> x \in EntriesOf(lists) \/ x = e
  <2>1. x \in EntriesOf(lists') <=> \E l \in Kinds : x \in ToSet(lists'[l])
    BY EntriesOfIs
  <2>2. x \in EntriesOf(lists) <=> \E l \in Kinds : x \in ToSet(lists[l])
    BY EntriesOfIs
  <2>3. \A l \in Kinds : x \in ToSet(lists'[l]) <=> x \in ToSet(lists[l]) \/ (l = k /\ x = e)
    BY <1>4
  <2> QED BY <2>1, <2>2, <2>3
<1> QED BY <1>3, <1>4, <1>5

LEMMA ShareInv ==
  ASSUME IInv, NEW k \in Kinds, NEW p \in Paths, Share(k, p)
  PROVE  IInv'
<1>1. PICK e \in Found(p) : Push(k, p, e.title, e.file, files[e.file])
  BY DEF Share
<1> DEFINE n == [path |-> p, title |-> e.title, file |-> e.file]
           f == files[e.file]
<1>2. /\ TypesOK /\ FilesSharedAndCurrent /\ UNCHANGED disk
      /\ lists' = [lists EXCEPT ![k] = Append(@, n)]
      /\ files' = [i \in DOMAIN files \cup {e.file} |-> IF i = e.file THEN WithScanIndex(k, f) ELSE files[i]]
      /\ held' = held \cup {p}
  BY <1>1 DEF IInv, Share, Push
<1>3. e \in EntriesOf(lists) /\ e.path = p /\ e \in Entries
  BY <1>1, <1>2, EntriesTyped DEF Found
<1>4. n \in Entries /\ n.path = p /\ n.file = e.file /\ n.title = e.title
  BY <1>3 DEF Entries
<1> HIDE DEF n
<1>5. /\ lists' \in [Kinds -> Seq(Entries)]
      /\ \A x : x \in EntriesOf(lists') <=> x \in EntriesOf(lists) \/ x = n
      /\ \A l \in Kinds : ToSet(lists'[l]) = IF l = k THEN ToSet(lists[k]) \cup {n} ELSE ToSet(lists[l])
  BY <1>2, <1>4, PushedEntries
<1>6. e.file \in DOMAIN files /\ DOMAIN files' = DOMAIN files
  BY <1>2, <1>3 DEF FilesSharedAndCurrent
<1>7. /\ f \in [path : Paths, imported : Nat, scan : BOOLEAN] /\ f.path = p /\ f.imported = disk[p].imported
      /\ disk[p].scan \in BOOLEAN
  BY <1>2, <1>3, <1>6 DEF FilesSharedAndCurrent, TypesOK
<1>8. /\ files'[e.file] \in [path : Paths, imported : Nat, scan : BOOLEAN]
      /\ files'[e.file].path = p /\ files'[e.file].imported = disk[p].imported
      /\ files'[e.file].scan = (f.scan \/ (k = "term" /\ disk[p].scan))
      /\ \A id \in DOMAIN files : id # e.file => files'[id] = files[id]
  <2>1. files'[e.file] = WithScanIndex(k, f) /\ \A id \in DOMAIN files : id # e.file => files'[id] = files[id]
    BY <1>2, <1>6
  <2> HIDE DEF f
  <2>2. CASE k = "term" /\ ~f.scan
    <3>1. WithScanIndex(k, f) = [f EXCEPT !.scan = disk[p].scan]
      BY <2>2, <1>7 DEF WithScanIndex
    <3> QED BY <2>1, <2>2, <3>1, <1>7
  <2>3. CASE ~(k = "term" /\ ~f.scan)
    <3>1. WithScanIndex(k, f) = f
      BY <2>3 DEF WithScanIndex
    <3> QED BY <2>1, <2>3, <3>1, <1>7
  <2> QED BY <2>2, <2>3
<1>9. TypesOK'
  BY <1>2, <1>5, <1>6, <1>8 DEF TypesOK
<1>10. DOMAIN files' = {x.file : x \in EntriesOf(lists')}
  <2>1. DOMAIN files = {x.file : x \in EntriesOf(lists)}
    BY <1>2 DEF FilesSharedAndCurrent
  <2>2. \A id : (\E x \in EntriesOf(lists') : id = x.file) <=> (\E x \in EntriesOf(lists) : id = x.file)
    BY <1>3, <1>4, <1>5
  <2>3. {x.file : x \in EntriesOf(lists')} = {x.file : x \in EntriesOf(lists)}
    BY <2>2
  <2> QED BY <1>6, <2>1, <2>3
<1>11. held' = {q \in Paths : IsLoaded(q)'}
  <2>1. \A q \in Paths : IsLoaded(q)' <=> IsLoaded(q) \/ q = p
    BY <1>4, <1>5 DEF IsLoaded
  <2> QED BY <1>2, <2>1 DEF FilesSharedAndCurrent
<1>12. \A x, y \in EntriesOf(lists') : x.path = y.path <=> x.file = y.file
  BY <1>2, <1>3, <1>4, <1>5 DEF FilesSharedAndCurrent
<1>13. ASSUME NEW x \in EntriesOf(lists')
       PROVE  files'[x.file].path = x.path /\ files'[x.file].imported = disk'[x.path].imported /\ x.title = TitleOf[x.path]
  <2>1. CASE x.file = e.file
    <3>1. x.path = p
      BY <1>3, <1>5, <1>12, <2>1
    <3>2. x.title = TitleOf[p]
      <4>1. \A y \in EntriesOf(lists) : y.title = TitleOf[y.path]
        BY <1>2 DEF FilesSharedAndCurrent
      <4> QED BY <1>3, <1>4, <1>5, <3>1, <4>1
    <3> QED BY <1>2, <1>8, <2>1, <3>1, <3>2
  <2>2. CASE x.file # e.file
    <3>1. x \in EntriesOf(lists) /\ x.file \in DOMAIN files
      BY <1>2, <1>4, <1>5, <2>2 DEF FilesSharedAndCurrent
    <3> QED BY <1>2, <1>8, <2>2, <3>1 DEF FilesSharedAndCurrent
  <2> QED BY <2>1, <2>2
<1>14. ASSUME NEW x \in ToSet(lists'["term"]), disk'[x.path].scan
       PROVE  files'[x.file].scan
  <2>0. "term" \in Kinds
    BY ConstantsAssumption
  <2>1. x \in EntriesOf(lists')
    BY <2>0, EntriesOfIs
  <2>2. CASE x.file = e.file
    <3>1. x.path = p
      BY <1>3, <1>5, <1>12, <2>1, <2>2
    <3>2. CASE k = "term"
      BY <1>2, <1>8, <1>14, <2>2, <3>1, <3>2
    <3>3. CASE k # "term"
      <4>1. x \in ToSet(lists["term"])
        BY <1>5, <2>0, <3>3
      <4>2. f.scan
        BY <1>2, <1>14, <2>2, <4>1 DEF FilesSharedAndCurrent
      <4> QED BY <1>8, <2>2, <4>2
    <3> QED BY <3>2, <3>3
  <2>3. CASE x.file # e.file
    <3>1. x \in ToSet(lists["term"]) /\ x \in EntriesOf(lists)
      BY <1>4, <1>5, <2>0, <2>3, EntriesOfIs
    <3>2. x.file \in DOMAIN files
      BY <1>2, <3>1 DEF FilesSharedAndCurrent
    <3> QED BY <1>2, <1>8, <1>14, <2>3, <3>1, <3>2 DEF FilesSharedAndCurrent
  <2> QED BY <2>2, <2>3
<1> QED BY <1>9, <1>10, <1>11, <1>12, <1>13, <1>14 DEF IInv, FilesSharedAndCurrent

LEMMA OpenInv ==
  ASSUME IInv, NEW k \in Kinds, NEW p \in Paths, Open(k, p)
  PROVE  IInv'
<1> DEFINE id == NewId
           f == WithScanIndex(k, Opened(p))
           n == [path |-> p, title |-> TitleOf[p], file |-> id]
<1>1. /\ TypesOK /\ FilesSharedAndCurrent /\ UNCHANGED disk
      /\ lists' = [lists EXCEPT ![k] = Append(@, n)]
      /\ files' = [i \in DOMAIN files \cup {id} |-> IF i = id THEN f ELSE files[i]]
      /\ held' = held \cup {p}
      /\ Found(p) = {}
  BY DEF IInv, Open, Push
<1>2. id \in Nat \ {0} /\ id \notin DOMAIN files
  BY <1>1, NewIdIsNew
<1>3. f = [path |-> p, imported |-> disk[p].imported, scan |-> k = "term" /\ disk[p].scan]
  <2>1. disk[p].scan \in BOOLEAN
    BY <1>1 DEF TypesOK
  <2>2. CASE k = "term"
    BY <1>1, <2>1, <2>2 DEF WithScanIndex, Opened
  <2>3. CASE k # "term"
    BY <2>3 DEF WithScanIndex, Opened
  <2> QED BY <2>2, <2>3
<1>4. /\ f \in [path : Paths, imported : Nat, scan : BOOLEAN]
      /\ f.path = p /\ f.imported = disk[p].imported /\ f.scan = (k = "term" /\ disk[p].scan)
  <2>1. disk[p].imported \in Nat
    BY <1>1 DEF TypesOK
  <2> QED BY <1>3, <2>1
<1> HIDE DEF id, f
<1>5. n \in Entries /\ n.path = p /\ n.file = id /\ n.title = TitleOf[p]
  BY <1>2 DEF Entries
<1> HIDE DEF n
<1>6. /\ lists' \in [Kinds -> Seq(Entries)]
      /\ \A x : x \in EntriesOf(lists') <=> x \in EntriesOf(lists) \/ x = n
      /\ \A l \in Kinds : ToSet(lists'[l]) = IF l = k THEN ToSet(lists[k]) \cup {n} ELSE ToSet(lists[l])
  BY <1>1, <1>5, PushedEntries
<1>7. /\ DOMAIN files' = DOMAIN files \cup {id} /\ files'[id] = f
      /\ \A i \in DOMAIN files : files'[i] = files[i]
  BY <1>1, <1>2
<1>8. /\ \A x \in EntriesOf(lists) : x.path # p /\ x.file \in DOMAIN files /\ x.file # id
      /\ DOMAIN files = {x.file : x \in EntriesOf(lists)}
  BY <1>1, <1>2 DEF Found, FilesSharedAndCurrent
<1>9. TypesOK'
  <2>1. IsFiniteSet(DOMAIN files')
    BY <1>1, <1>7, FS_AddElement DEF TypesOK
  <2>2. \A i \in DOMAIN files' : files'[i] \in [path : Paths, imported : Nat, scan : BOOLEAN]
    BY <1>1, <1>4, <1>7 DEF TypesOK
  <2> QED BY <1>1, <1>2, <1>6, <1>7, <2>1, <2>2 DEF TypesOK
<1>10. DOMAIN files' = {x.file : x \in EntriesOf(lists')}
  <2>1. \A i : (\E x \in EntriesOf(lists') : i = x.file) <=> (\E x \in EntriesOf(lists) : i = x.file) \/ i = id
    BY <1>5, <1>6
  <2>2. {x.file : x \in EntriesOf(lists')} = {x.file : x \in EntriesOf(lists)} \cup {id}
    BY <2>1
  <2> QED BY <1>7, <1>8, <2>2
<1>11. held' = {q \in Paths : IsLoaded(q)'}
  <2>1. \A q \in Paths : IsLoaded(q)' <=> IsLoaded(q) \/ q = p
    BY <1>5, <1>6 DEF IsLoaded
  <2> QED BY <1>1, <2>1 DEF FilesSharedAndCurrent
<1>12. ASSUME NEW x \in EntriesOf(lists'), NEW y \in EntriesOf(lists')
       PROVE  x.path = y.path <=> x.file = y.file
  <2>1. CASE x \in EntriesOf(lists) /\ y \in EntriesOf(lists)
    BY <1>1, <2>1 DEF FilesSharedAndCurrent
  <2>2. CASE x = n /\ y \in EntriesOf(lists)
    BY <1>5, <1>8, <2>2
  <2>3. CASE x \in EntriesOf(lists) /\ y = n
    BY <1>5, <1>8, <2>3
  <2> QED BY <1>6, <2>1, <2>2, <2>3
<1>13. ASSUME NEW x \in EntriesOf(lists')
       PROVE  files'[x.file].path = x.path /\ files'[x.file].imported = disk'[x.path].imported /\ x.title = TitleOf[x.path]
  <2>1. CASE x \in EntriesOf(lists)
    <3>1. files'[x.file] = files[x.file]
      BY <1>7, <1>8, <2>1
    <3> QED BY <1>1, <2>1, <3>1 DEF FilesSharedAndCurrent
  <2>2. CASE x = n
    BY <1>1, <1>4, <1>5, <1>7, <2>2
  <2> QED BY <1>6, <2>1, <2>2
<1>14. ASSUME NEW x \in ToSet(lists'["term"]), disk'[x.path].scan
       PROVE  files'[x.file].scan
  <2>0. "term" \in Kinds
    BY ConstantsAssumption
  <2>1. CASE x \in ToSet(lists["term"])
    <3>1. x \in EntriesOf(lists)
      BY <2>0, <2>1, EntriesOfIs
    <3>2. files'[x.file] = files[x.file]
      BY <1>7, <1>8, <3>1
    <3> QED BY <1>1, <1>14, <2>1, <3>2 DEF FilesSharedAndCurrent
  <2>2. CASE x = n /\ k = "term"
    BY <1>1, <1>4, <1>5, <1>7, <1>14, <2>2
  <2> QED BY <1>6, <2>0, <2>1, <2>2
<1> QED BY <1>9, <1>10, <1>11, <1>12, <1>13, <1>14 DEF IInv, FilesSharedAndCurrent

LEMMA RemoveInv ==
  ASSUME IInv, NEW p \in Paths, RemoveDict(p)
  PROVE  IInv'
<1>1. /\ TypesOK /\ FilesSharedAndCurrent /\ UNCHANGED disk
      /\ lists' = Without(p) /\ files' = Kept(files, lists') /\ held' = held \ {p}
  BY DEF IInv, RemoveDict
<1>2. ASSUME NEW k \in Kinds
      PROVE  lists'[k] \in Seq(Entries) /\ ToSet(lists'[k]) = {e \in ToSet(lists[k]) : e.path # p}
  <2>1. lists[k] \in Seq(Entries) /\ lists'[k] = Only(lists[k], Paths \ {p})
    BY <1>1 DEF Without, TypesOK
  <2>2. lists'[k] \in Seq(Entries) /\ ToSet(lists'[k]) = {e \in ToSet(lists[k]) : e.path \in Paths \ {p}}
    BY <2>1, OnlySet
  <2>3. \A e \in ToSet(lists[k]) : e.path \in Paths
    <3>1. \A e \in ToSet(lists[k]) : e \in Entries
      BY <2>1 DEF ToSet
    <3> QED BY <3>1 DEF Entries
  <2> QED BY <2>2, <2>3
<1>3. lists' \in [Kinds -> Seq(Entries)]
  BY <1>1, <1>2 DEF Without
<1>4. \A e : e \in EntriesOf(lists') <=> e \in EntriesOf(lists) /\ e.path # p
  BY <1>2, EntriesOfIs
<1>5. DOMAIN files = {e.file : e \in EntriesOf(lists)}
  BY <1>1 DEF FilesSharedAndCurrent
<1>6. /\ DOMAIN files' = {e.file : e \in EntriesOf(lists')}
      /\ \A id \in DOMAIN files' : files'[id] = files[id]
  BY <1>1 DEF Kept
<1>7. DOMAIN files' \subseteq DOMAIN files
  BY <1>4, <1>5, <1>6
<1>8. TypesOK'
  <2>1. IsFiniteSet(DOMAIN files')
    BY <1>1, <1>7, FS_Subset DEF TypesOK
  <2> QED BY <1>1, <1>3, <1>6, <1>7, <2>1 DEF TypesOK
<1>9. held' = {q \in Paths : IsLoaded(q)'}
  <2>1. \A q \in Paths : IsLoaded(q)' <=> IsLoaded(q) /\ q # p
    BY <1>4 DEF IsLoaded
  <2> QED BY <1>1, <2>1 DEF FilesSharedAndCurrent
<1>10. \A e \in EntriesOf(lists') : files'[e.file] = files[e.file]
  BY <1>6
<1>11. "term" \in Kinds
  BY ConstantsAssumption
<1>12. \A e, f \in EntriesOf(lists') : e.path = f.path <=> e.file = f.file
  BY <1>1, <1>4 DEF FilesSharedAndCurrent
<1>13. ASSUME NEW e \in EntriesOf(lists')
       PROVE  files'[e.file].path = e.path /\ files'[e.file].imported = disk'[e.path].imported /\ e.title = TitleOf[e.path]
  BY <1>1, <1>4, <1>10 DEF FilesSharedAndCurrent
<1>14. ASSUME NEW e \in ToSet(lists'["term"]), disk'[e.path].scan
       PROVE  files'[e.file].scan
  <2>1. e \in ToSet(lists["term"]) /\ e \in EntriesOf(lists')
    BY <1>2, <1>11, EntriesOfIs
  <2> QED BY <1>1, <1>10, <1>14, <2>1 DEF FilesSharedAndCurrent
<1> QED BY <1>6, <1>8, <1>9, <1>12, <1>13, <1>14 DEF IInv, FilesSharedAndCurrent

LEMMA SetOrderInv ==
  ASSUME IInv, NEW order \in Orders, SetOrder(order)
  PROVE  IInv'
<1>1. TypesOK /\ FilesSharedAndCurrent /\ lists' = Ordered(order) /\ UNCHANGED <<disk, files, held>>
  BY DEF IInv, SetOrder
<1>2. order \in Seq(Paths) /\ \A e \in Entries : e.path \in Paths
  BY ConstantsAssumption DEF Entries
<1>3. \A k \in Kinds : /\ Reordered(lists[k], order) \in Seq(Entries)
                       /\ ToSet(Reordered(lists[k], order)) = ToSet(lists[k])
  BY <1>1, <1>2, ReorderedKeeps DEF TypesOK
<1>4. lists' \in [Kinds -> Seq(Entries)] /\ \A k \in Kinds : ToSet(lists'[k]) = ToSet(lists[k])
  <2>1. CASE lists' = lists
    BY <1>1, <2>1 DEF TypesOK
  <2>2. CASE lists' = [k \in Kinds |-> Reordered(lists[k], order)]
    BY <1>3, <2>2
  <2> QED BY <1>1, <2>1, <2>2 DEF Ordered
<1>5. EntriesOf(lists') = EntriesOf(lists)
  <2>1. \A e : e \in EntriesOf(lists') <=> \E k \in Kinds : e \in ToSet(lists'[k])
    BY EntriesOfIs
  <2>2. \A e : e \in EntriesOf(lists) <=> \E k \in Kinds : e \in ToSet(lists[k])
    BY EntriesOfIs
  <2>3. \A e : e \in EntriesOf(lists') <=> e \in EntriesOf(lists)
    BY <1>4, <2>1, <2>2
  <2> QED BY <2>3
<1>6. \A p \in Paths : IsLoaded(p)' <=> IsLoaded(p)
  BY <1>5 DEF IsLoaded
<1>7. TypesOK'
  BY <1>1, <1>4 DEF TypesOK
<1>8. "term" \in Kinds
  BY ConstantsAssumption
<1> QED BY <1>1, <1>4, <1>5, <1>6, <1>7, <1>8 DEF IInv, FilesSharedAndCurrent

LEMMA ImportInv ==
  ASSUME IInv, NEW p \in Paths, NEW f \in Folders, Import(p, f)
  PROVE  IInv'
<1>1. /\ TypesOK /\ FilesSharedAndCurrent /\ UNCHANGED <<lists, files, held>>
      /\ p \notin held /\ disk' = [disk EXCEPT ![p] = Written(f, disk[p].imported + 1)]
  BY DEF IInv, Import
<1>2. Written(f, disk[p].imported + 1) \in [condition : {"good", "none", "part"}, scan : BOOLEAN, imported : Nat]
  <2>1. disk[p].imported + 1 \in Nat
    BY <1>1 DEF TypesOK
  <2>2. f.condition \in {"good", "none", "part"} /\ f.scan \in BOOLEAN
    <3>1. CASE \E b \in BOOLEAN : f = [condition |-> "good", scan |-> b]
      BY <3>1
    <3>2. CASE \E c \in {"none", "part"} : f = [condition |-> c, scan |-> FALSE]
      BY <3>2
    <3> QED BY <3>1, <3>2 DEF Folders
  <2> QED BY <2>1, <2>2 DEF Written
<1>3. TypesOK'
  BY <1>1, <1>2 DEF TypesOK
<1>4. EntriesOf(lists') = EntriesOf(lists) /\ \A e \in EntriesOf(lists) : e.path \in Paths
  BY <1>1, EntriesTyped DEF Entries
<1>5. \A e \in EntriesOf(lists) : e.path # p
  BY <1>1 DEF FilesSharedAndCurrent, IsLoaded
<1>6. \A e \in EntriesOf(lists) : disk'[e.path] = disk[e.path]
  BY <1>1, <1>4, <1>5 DEF TypesOK
<1>7. \A e \in ToSet(lists["term"]) : e \in EntriesOf(lists)
  BY ConstantsAssumption, EntriesOfIs
<1>8. \A q \in Paths : IsLoaded(q)' <=> IsLoaded(q)
  BY <1>4 DEF IsLoaded
<1> QED BY <1>1, <1>3, <1>4, <1>6, <1>7, <1>8 DEF IInv, FilesSharedAndCurrent

LEMMA SameInv ==
  ASSUME IInv, UNCHANGED <<disk, lists, files, held>>
  PROVE  IInv'
<1>1. EntriesOf(lists') = EntriesOf(lists)
  OBVIOUS
<1>2. \A q \in Paths : IsLoaded(q)' <=> IsLoaded(q)
  BY <1>1 DEF IsLoaded
<1> QED BY <1>1, <1>2 DEF IInv, TypesOK, FilesSharedAndCurrent

LEMMA NextInv == ASSUME IInv, [Next]_vars PROVE IInv'
<1>1. ASSUME NEW k \in Kinds, NEW p \in Paths, Share(k, p) PROVE IInv'
  BY <1>1, ShareInv
<1>2. ASSUME NEW k \in Kinds, NEW p \in Paths, Open(k, p) PROVE IInv'
  BY <1>2, OpenInv
<1>3. ASSUME NEW p \in Paths, OpenFails(p) PROVE IInv'
  BY <1>3, SameInv DEF OpenFails
<1>4. ASSUME NEW p \in Paths, RemoveDict(p) PROVE IInv'
  BY <1>4, RemoveInv
<1>5. ASSUME NEW order \in Orders, SetOrder(order) PROVE IInv'
  BY <1>5, SetOrderInv
<1>6. ASSUME NEW p \in Paths, NEW f \in Folders, Import(p, f) PROVE IInv'
  BY <1>6, ImportInv
<1>7. CASE UNCHANGED vars
  BY <1>7, SameInv DEF vars
<1> QED BY <1>1, <1>2, <1>3, <1>4, <1>5, <1>6, <1>7 DEF Next

\* What every reachable state of the loaded dictionaries satisfies.
THEOREM Inductive == Spec => []IInv
BY InitInv, NextInv, PTL DEF Spec

\* Whatever is added, removed, reordered and imported again, and in whatever
\* order: one set of files per path, those of its folder as it is now, with the
\* scan index wherever a term dictionary needs it (query.cpp:305-340, 450-456).
THEOREM FilesShared == Spec => []FilesSharedAndCurrent
<1>1. IInv => FilesSharedAndCurrent
  BY DEF IInv
<1> QED BY <1>1, Inductive, PTL

-----------------------------------------------------------------------------
(* The order of the lists.                                                 *)

\* set_dict_order puts every list in the order asked for, unless it changes
\* nothing, and neither it nor remove_dict disturbs the others, for lists of
\* any length with any repetitions (query.cpp:450-477).
THEOREM OrderKept == Spec => OrderAsAsked
<1> DEFINE Others(s) == Only(s, Paths \ ToSet(call'.arg))
           Kept1 == call'.op = "order" /\ ~call'.result => lists' = lists
           Kept2 == call'.op = "order" /\ call'.result =>
                      \A k \in Kinds : \A i, j \in DOMAIN lists'[k] :
                          i < j => Rank(call'.arg, lists'[k][i].path) <= Rank(call'.arg, lists'[k][j].path)
           Kept3 == call'.op \in {"order", "remove"} => \A k \in Kinds : Others(lists'[k]) = Others(lists[k])
<1>1. ASSUME IInv, Next PROVE Kept1 /\ Kept2 /\ Kept3
  <2>1. ASSUME call'.op \notin {"order", "remove"} PROVE Kept1 /\ Kept2 /\ Kept3
    BY <2>1
  <2>2. ASSUME NEW k \in Kinds, NEW p \in Paths, Share(k, p) \/ Open(k, p) PROVE Kept1 /\ Kept2 /\ Kept3
    <3>1. call' = Returned("add", <<p>>, TRUE)
      BY <2>2 DEF Share, Open, Push
    <3>2. call'.op = "add"
      BY <3>1 DEF Returned
    <3> QED BY <2>1, <3>2
  <2>3. ASSUME NEW p \in Paths, OpenFails(p) PROVE Kept1 /\ Kept2 /\ Kept3
    BY <2>1, <2>3 DEF OpenFails, Returned
  <2>4. ASSUME NEW p \in Paths, NEW f \in Folders, Import(p, f) PROVE Kept1 /\ Kept2 /\ Kept3
    BY <2>1, <2>4 DEF Import, Returned
  <2>5. ASSUME NEW p \in Paths, RemoveDict(p) PROVE Kept1 /\ Kept2 /\ Kept3
    <3>1. call'.op = "remove" /\ call'.arg = <<p>> /\ lists' = Without(p)
      BY <2>5 DEF RemoveDict, Returned
    <3>2. ToSet(call'.arg) = {p}
      BY <3>1 DEF ToSet
    <3>3. ASSUME NEW k \in Kinds PROVE Others(lists'[k]) = Others(lists[k])
      <4>1. lists[k] \in Seq(Entries) /\ lists'[k] = Only(lists[k], Paths \ {p})
        BY <1>1, <3>1 DEF IInv, TypesOK, Without
      <4>2. Only(lists'[k], Paths \ {p}) = Only(lists[k], (Paths \ {p}) \cap (Paths \ {p}))
        BY <4>1, OnlyOnly
      <4>3. (Paths \ {p}) \cap (Paths \ {p}) = Paths \ {p}
        OBVIOUS
      <4> QED BY <3>2, <4>2, <4>3
    <3> QED BY <3>1, <3>3
  <2>6. ASSUME NEW order \in Orders, SetOrder(order) PROVE Kept1 /\ Kept2 /\ Kept3
    <3> DEFINE ok == \A i \in DOMAIN order : IsLoaded(order[i])
    <3>1. call'.op = "order" /\ call'.arg = order /\ call'.result = ok /\ lists' = Ordered(order)
      BY <2>6 DEF SetOrder, Returned
    <3>2. order \in Seq(Paths) /\ \A e \in Entries : e.path \in Paths
      BY ConstantsAssumption DEF Entries
    <3>3. \A k \in Kinds : lists[k] \in Seq(Entries)
      BY <1>1 DEF IInv, TypesOK
    <3>4. CASE ~ok
      BY <3>1, <3>4 DEF Ordered
    <3>5. CASE ok
      <4>1. \A k \in Kinds : lists'[k] = Reordered(lists[k], order)
        BY <3>1, <3>5 DEF Ordered
      <4>2. ASSUME NEW k \in Kinds
            PROVE  \A i, j \in DOMAIN lists'[k] : i < j => Rank(order, lists'[k][i].path) <= Rank(order, lists'[k][j].path)
        <5>1. lists'[k] \in Seq(Entries)
          BY <3>2, <3>3, <4>1, ReorderedKeeps
        <5>2. \A i, j \in 1..Len(lists'[k]) :
                i < j => Rank(order, lists'[k][i].path) <= Rank(order, lists'[k][j].path)
          BY <3>2, <3>3, <4>1, ReorderedSorts
        <5> QED BY <5>1, <5>2
      <4>3. \A k \in Kinds : Only(lists'[k], Paths \ ToSet(order)) = Only(lists[k], Paths \ ToSet(order))
        BY <3>2, <3>3, <4>1, ReorderedOthers
      <4> QED BY <3>1, <3>5, <4>2, <4>3
    <3> QED BY <3>4, <3>5
  <2> QED BY <1>1, <2>2, <2>3, <2>4, <2>5, <2>6 DEF Next
<1>2. ASSUME IInv, [Next]_vars PROVE [Kept1 /\ Kept2 /\ Kept3]_vars
  BY <1>1, <1>2
<1> QED BY <1>2, Inductive, PTL DEF Spec, OrderAsAsked

-----------------------------------------------------------------------------
(* A query's answer.                                                       *)

Glossary == [dict : Nat, path : Paths, title : {TitleOf[p] : p \in Paths}, score : Int, row : Nat]

\* The rows of the dictionaries in turn, each of them once.
LEMMA GlossariesAre ==
  ASSUME NEW s \in Seq(Entries), NEW g, g = Glossaries(s)
  PROVE  /\ g \in Seq(Glossary)
         /\ \A x \in ToSet(g) :
                /\ x \in Glossary /\ x.dict \in 1..Len(s)
                /\ x.path = s[x.dict].path /\ x.title = s[x.dict].title /\ x.row \in 1..Len(Rows[x.path])
         /\ \A i \in 1..Len(s) : \A j \in 1..Len(Rows[s[i].path]) : \E x \in ToSet(g) : x.dict = i /\ x.row = j
         /\ \A k, l \in 1..Len(g) :
                k < l => g[k].dict < g[l].dict \/ (g[k].dict = g[l].dict /\ g[k].row < g[l].row)
<1> DEFINE of(i, j) == [dict |-> i, path |-> s[i].path, title |-> s[i].title, score |-> Rows[s[i].path][j], row |-> j]
           part(i) == [j \in DOMAIN Rows[s[i].path] |-> of(i, j)]
           parts == [i \in DOMAIN s |-> part(i)]
           R == {ss \in Glossary \X Glossary :
                    ss[1].dict < ss[2].dict \/ (ss[1].dict = ss[2].dict /\ ss[1].row < ss[2].row)}
<1>1. Len(s) \in Nat /\ DOMAIN s = 1..Len(s)
  BY LenProperties
<1>2. ASSUME NEW i \in 1..Len(s)
      PROVE  s[i].path \in Paths /\ s[i].title \in {TitleOf[p] : p \in Paths} /\ Rows[s[i].path] \in Seq(Int)
  <2>1. s[i] \in Entries
    BY <1>1
  <2> QED BY <2>1, ConstantsAssumption DEF Entries
<1>3. ASSUME NEW i \in 1..Len(s), NEW j \in 1..Len(Rows[s[i].path])
      PROVE  /\ of(i, j) \in Glossary /\ of(i, j).dict = i /\ of(i, j).row = j
             /\ of(i, j).path = s[i].path /\ of(i, j).title = s[i].title
  <2>1. Rows[s[i].path][j] \in Int /\ j \in Nat /\ i \in Nat
    BY <1>1, <1>2
  <2> QED BY <1>2, <2>1 DEF Glossary
<1>4. ASSUME NEW i \in 1..Len(s)
      PROVE  /\ part(i) \in Seq(Glossary) /\ Len(part(i)) = Len(Rows[s[i].path])
             /\ \A j \in 1..Len(Rows[s[i].path]) : part(i)[j] = of(i, j)
  <2> DEFINE n == Len(Rows[s[i].path])
  <2>1. n \in Nat /\ DOMAIN Rows[s[i].path] = 1..n
    BY <1>2, LenProperties
  <2>2. \A j \in 1..n : of(i, j) \in Glossary
    BY <1>3
  <2> HIDE DEF n, of
  <2>3. part(i) \in [1..n -> Glossary] /\ \A j \in 1..n : part(i)[j] = of(i, j)
    BY <2>1, <2>2
  <2> HIDE DEF part
  <2>4. part(i) \in Seq(Glossary) /\ Len(part(i)) = n
    BY <2>1, <2>3
  <2> QED BY <2>3, <2>4 DEF n
<1> HIDE DEF part, of
<1>5. parts \in Seq(Seq(Glossary)) /\ Len(parts) = Len(s) /\ \A i \in 1..Len(s) : parts[i] = part(i)
  BY <1>1, <1>4
<1>6. g = FlattenSeq(parts)
  BY DEF Glossaries, part, of
<1> HIDE DEF parts, R
<1>7. \A e : e \in ToSet(g) <=> \E i \in 1..Len(s) : e \in ToSet(part(i))
  BY <1>5, <1>6, FlattenSeqSet
<1>8. ASSUME NEW i \in 1..Len(s)
      PROVE  \A e : e \in ToSet(part(i)) <=> \E j \in 1..Len(Rows[s[i].path]) : e = of(i, j)
  <2>1. ToSet(part(i)) = {part(i)[j] : j \in 1..Len(Rows[s[i].path])}
    BY <1>4, LenProperties DEF ToSet
  <2> QED BY <1>4, <2>1
<1>9. g \in Seq(Glossary)
  <2>1. <<>> \in Seq(Glossary)
    BY EmptySeq
  <2> QED BY <1>5, <1>6, <2>1, FlattenAppend
<1>10. ASSUME NEW x \in ToSet(g)
       PROVE  /\ x \in Glossary /\ x.dict \in 1..Len(s)
              /\ x.path = s[x.dict].path /\ x.title = s[x.dict].title /\ x.row \in 1..Len(Rows[x.path])
  <2>1. PICK i \in 1..Len(s) : x \in ToSet(part(i))
    BY <1>7
  <2>2. PICK j \in 1..Len(Rows[s[i].path]) : x = of(i, j)
    BY <1>8, <2>1
  <2> QED BY <1>3, <2>2
<1>11. ASSUME NEW i \in 1..Len(s), NEW j \in 1..Len(Rows[s[i].path])
       PROVE  \E x \in ToSet(g) : x.dict = i /\ x.row = j
  <2>1. of(i, j) \in ToSet(g)
    BY <1>7, <1>8
  <2> QED BY <1>3, <2>1
<1>12. ASSUME NEW i \in 1..Len(s), NEW k \in 1..Len(parts[i]), NEW l \in 1..Len(parts[i]), k < l
       PROVE  <<parts[i][k], parts[i][l]>> \in R
  <2>1. k \in 1..Len(Rows[s[i].path]) /\ l \in 1..Len(Rows[s[i].path]) /\ parts[i][k] = of(i, k) /\ parts[i][l] = of(i, l)
    BY <1>4, <1>5
  <2> QED BY <1>3, <1>12, <2>1 DEF R
<1>13. ASSUME NEW i \in 1..Len(s), NEW j \in 1..Len(s), i < j, NEW d \in ToSet(parts[i]), NEW e \in ToSet(parts[j])
       PROVE  <<d, e>> \in R
  <2>1. PICK k \in 1..Len(Rows[s[i].path]) : d = of(i, k)
    BY <1>5, <1>8
  <2>2. PICK l \in 1..Len(Rows[s[j].path]) : e = of(j, l)
    BY <1>5, <1>8
  <2> QED BY <1>3, <1>13, <2>1, <2>2 DEF R
<1>14. \A k, l \in 1..Len(g) : k < l => <<g[k], g[l]>> \in R
  BY <1>5, <1>6, <1>12, <1>13, FlattenOrdered
<1>15. \A k, l \in 1..Len(g) : k < l => g[k].dict < g[l].dict \/ (g[k].dict = g[l].dict /\ g[k].row < g[l].row)
  <2>1. \A d, e : <<d, e>> \in R => d.dict < e.dict \/ (d.dict = e.dict /\ d.row < e.row)
    BY DEF R
  <2> QED BY <1>14, <2>1
<1> QED BY <1>9, <1>10, <1>11, <1>15

\* The runs of equal names are numbered as they stand.
LEMMA RunsOf ==
  ASSUME NEW g \in Seq(Glossary), NEW i \in 1..Len(g), NEW j \in 1..Len(g), i <= j
  PROVE  /\ RunOf(g, i) \in Nat /\ RunOf(g, j) \in Nat /\ RunOf(g, i) <= RunOf(g, j)
         /\ (\A m \in i + 1..j : g[m].title = g[m - 1].title) => RunOf(g, i) = RunOf(g, j)
         /\ RunOf(g, i) = RunOf(g, j) => g[i].title = g[j].title
<1> DEFINE changes(k) == {m \in 2..k : g[m].title # g[m - 1].title}
<1>1. RunOf(g, i) = Cardinality(changes(i)) /\ RunOf(g, j) = Cardinality(changes(j))
  BY DEF RunOf
<1>2. IsFiniteSet(changes(j)) /\ changes(i) \in SUBSET changes(j)
  <2>1. IsFiniteSet(2..j) /\ changes(j) \in SUBSET (2..j)
    BY FS_Interval
  <2>2. changes(i) \in SUBSET changes(j)
    OBVIOUS
  <2> HIDE DEF changes
  <2> QED BY <2>1, <2>2, FS_Subset
<1>3. /\ IsFiniteSet(changes(i)) /\ Cardinality(changes(i)) <= Cardinality(changes(j))
      /\ Cardinality(changes(j)) = Cardinality(changes(i)) => changes(j) = changes(i)
      /\ Cardinality(changes(i)) \in Nat /\ Cardinality(changes(j)) \in Nat
  <2> HIDE DEF changes
  <2> QED BY <1>2, FS_Subset, FS_CardinalityType
<1>4. ASSUME \A m \in i + 1..j : g[m].title = g[m - 1].title PROVE changes(i) = changes(j)
  BY <1>4
<1>5. ASSUME changes(i) = changes(j) PROVE g[i].title = g[j].title
  <2> DEFINE T == {k \in Nat : i + k <= j => g[i + k].title = g[i].title}
  <2>1. 0 \in T
    OBVIOUS
  <2>2. ASSUME NEW k \in Nat, k \in T PROVE k + 1 \in T
    <3> SUFFICES ASSUME i + (k + 1) <= j PROVE g[i + (k + 1)].title = g[i].title
      OBVIOUS
    <3> DEFINE m == i + (k + 1)
    <3>1. m \in 2..j /\ m \notin 2..i /\ m - 1 = i + k /\ i + k <= j
      OBVIOUS
    <3>2. m \notin changes(j)
      BY <1>5, <3>1
    <3>3. g[m].title = g[m - 1].title
      BY <3>1, <3>2
    <3> QED BY <2>2, <3>1, <3>3
  <2> HIDE DEF T
  <2>3. j - i \in T
    BY <2>1, <2>2, NatSetInduction
  <2> QED BY <2>3 DEF T
<1> HIDE DEF changes
<1> QED BY <1>1, <1>3, <1>4, <1>5

\* What build_term answers with: each glossary once, in the order of Precedes.
LEMMA BuildTermIs ==
  ASSUME NEW g \in Seq(Glossary), NEW out, out = BuildTerm(g)
  PROVE  /\ DOMAIN out = 1..Len(g)
         /\ \E order \in Bijection(1..Len(g), 1..Len(g)) :
                /\ \A k \in 1..Len(g) : out[k] = g[order[k]]
                /\ \A k, l \in 1..Len(g) : k < l => Precedes(g, order[k], order[l])
<1> DEFINE n == Len(g)
           R == {ij \in (1..n) \X (1..n) : Precedes(g, ij[1], ij[2])}
           place == [i \in DOMAIN g |-> Cardinality({j \in DOMAIN g : Precedes(g, j, i)}) + 1]
           order == [k \in 1..n |-> CHOOSE i \in 1..n : place[i] = k]
<1>1. n \in Nat /\ DOMAIN g = 1..n
  BY LenProperties
<1>2. ASSUME NEW i \in 1..n PROVE g[i].score \in Int /\ RunOf(g, i) \in Nat
  <2>1. g[i] \in Glossary /\ i <= i
    OBVIOUS
  <2> QED BY <2>1, RunsOf DEF Glossary
<1>3. \A i, j \in 1..n : <<i, j>> \in R <=> Precedes(g, i, j)
  OBVIOUS
<1>4. /\ \A i, j \in 1..n : Precedes(g, i, j) => ~Precedes(g, j, i)
      /\ \A i, j, k \in 1..n : Precedes(g, i, j) /\ Precedes(g, j, k) => Precedes(g, i, k)
      /\ \A i, j \in 1..n : i # j => Precedes(g, i, j) \/ Precedes(g, j, i)
  BY <1>2 DEF Precedes
<1>5. place = [i \in 1..n |-> Cardinality({j \in 1..n : <<j, i>> \in R}) + 1]
  <2>1. \A i \in 1..n : {j \in 1..n : <<j, i>> \in R} = {j \in 1..n : Precedes(g, j, i)}
    BY <1>3
  <2> HIDE DEF R
  <2> QED BY <1>1, <2>1
<1>6. out = [k \in 1..n |-> g[order[k]]]
  BY <1>1 DEF BuildTerm
<1> HIDE DEF R, place
<1>7. place \in Bijection(1..n, 1..n) /\ \A i, j \in 1..n : place[i] < place[j] => <<i, j>> \in R
  BY <1>1, <1>3, <1>4, <1>5, PlacesByOrder, ZenonT(30)
<1>8. ASSUME NEW k \in 1..n PROVE order[k] \in 1..n /\ place[order[k]] = k
  <2>1. \E i \in 1..n : place[i] = k
    BY <1>7 DEF Bijection, Surjection
  <2> QED BY <2>1
<1> HIDE DEF order
<1>9. order \in Bijection(1..n, 1..n)
  <2>1. order \in [1..n -> 1..n]
    BY <1>8 DEF order
  <2>2. \A k, l \in 1..n : order[k] = order[l] => k = l
    BY <1>8
  <2>3. \A i \in 1..n : \E k \in 1..n : order[k] = i
    <3> SUFFICES ASSUME NEW i \in 1..n PROVE order[place[i]] = i /\ place[i] \in 1..n
      OBVIOUS
    <3>1. place[i] \in 1..n
      BY <1>7 DEF Bijection, Injection
    <3>2. place[order[place[i]]] = place[i] /\ order[place[i]] \in 1..n
      BY <1>8, <3>1
    <3> QED BY <1>7, <3>1, <3>2 DEF Bijection, Injection, IsInjective
  <2> QED BY <2>1, <2>2, <2>3 DEF Bijection, Injection, Surjection, IsInjective
<1>10. ASSUME NEW k \in 1..n, NEW l \in 1..n, k < l PROVE Precedes(g, order[k], order[l])
  BY <1>3, <1>7, <1>8, <1>10
<1> QED BY <1>1, <1>6, <1>9, <1>10

\* Nothing else tells glossaries apart: build_term knows a dictionary by its title.
TitlesTellApart == \A p, q \in Paths : TitleOf[p] = TitleOf[q] => p = q
Named(s) == \A i \in 1..Len(s) : s[i].title = TitleOf[s[i].path]

\* What build_term makes of a list's glossaries: in order, and of a path that
\* the list has once, as many as the path has rows.
LEMMA AnswerIs ==
  ASSUME TitlesTellApart, NEW s \in Seq(Entries), Named(s), NEW out, out = BuildTerm(Glossaries(s))
  PROVE  /\ GlossariesInOrder(out)
         /\ \A k \in DOMAIN out : out[k].dict \in 1..Len(s) /\ out[k].path = s[out[k].dict].path
         /\ \A k, l \in DOMAIN out : k < l => k \in Int /\ l \in Int
         /\ \A i \in 1..Len(s) :
                (\A j \in 1..Len(s) : s[j].path = s[i].path => j = i) =>
                    Cardinality({k \in DOMAIN out : out[k].path = s[i].path}) = Len(Rows[s[i].path])
<1> DEFINE g == Glossaries(s)
           n == Len(g)
<1>1. /\ g \in Seq(Glossary)
      /\ \A x \in ToSet(g) :
             /\ x \in Glossary /\ x.dict \in 1..Len(s)
             /\ x.path = s[x.dict].path /\ x.title = s[x.dict].title /\ x.row \in 1..Len(Rows[x.path])
      /\ \A i \in 1..Len(s) : \A j \in 1..Len(Rows[s[i].path]) : \E x \in ToSet(g) : x.dict = i /\ x.row = j
      /\ \A k, l \in 1..n : k < l => g[k].dict < g[l].dict \/ (g[k].dict = g[l].dict /\ g[k].row < g[l].row)
  BY GlossariesAre
<1> HIDE DEF g
<1>2. ToSet(g) = {g[k] : k \in 1..n} /\ n \in Nat
  BY <1>1 DEF ToSet
<1>3. ASSUME NEW k \in 1..n
      PROVE  /\ g[k].dict \in 1..Len(s) /\ g[k].path = s[g[k].dict].path /\ g[k].path \in Paths
             /\ g[k].title = TitleOf[g[k].path] /\ g[k].row \in 1..Len(Rows[g[k].path])
             /\ g[k].score \in Int /\ g[k].dict \in Nat /\ g[k].row \in Nat
  <2>1. g[k] \in ToSet(g)
    BY <1>2
  <2>2. /\ g[k] \in Glossary /\ g[k].dict \in 1..Len(s)
        /\ g[k].path = s[g[k].dict].path /\ g[k].title = s[g[k].dict].title /\ g[k].row \in 1..Len(Rows[g[k].path])
    BY <1>1, <2>1
  <2>3. s[g[k].dict].title = TitleOf[s[g[k].dict].path]
    BY <2>2 DEF Named
  <2> QED BY <2>2, <2>3 DEF Glossary
<1>4. PICK order \in Bijection(1..n, 1..n) :
          /\ DOMAIN out = 1..n
          /\ \A k \in 1..n : out[k] = g[order[k]]
          /\ \A k, l \in 1..n : k < l => Precedes(g, order[k], order[l])
  <2>1. out = BuildTerm(g)
    BY DEF g
  <2> QED BY <1>1, <2>1, BuildTermIs
<1>5. /\ \A k \in 1..n : order[k] \in 1..n
      /\ \A k, l \in 1..n : k # l => order[k] # order[l]
      /\ \A m \in 1..n : \E k \in 1..n : order[k] = m
  <2>1. order \in [1..n -> 1..n]
    BY DEF Bijection, Injection
  <2>2. \A k, l \in 1..n : k # l => order[k] # order[l]
    BY DEF Bijection, Injection, IsInjective
  <2>3. \A m \in 1..n : \E k \in 1..n : order[k] = m
    BY DEF Bijection, Surjection
  <2> QED BY <2>1, <2>2, <2>3
<1>10. ASSUME NEW a \in 1..n, NEW b \in 1..n, a < b
       PROVE  g[a].dict <= g[b].dict /\ (g[a].dict = g[b].dict => g[a].row < g[b].row)
  <2>1. g[a].dict \in Nat /\ g[b].dict \in Nat
    BY <1>3
  <2>2. g[a].dict < g[b].dict \/ (g[a].dict = g[b].dict /\ g[a].row < g[b].row)
    BY <1>1, <1>10
  <2> QED BY <2>1, <2>2
<1>6. ASSUME NEW x \in 1..n, NEW y \in 1..n, Precedes(g, x, y), g[x].path # g[y].path
      PROVE  g[x].dict < g[y].dict
  <2>1. g[x].title # g[y].title
    BY <1>3, <1>6 DEF TitlesTellApart
  <2>2. RunOf(g, x) # RunOf(g, y) /\ RunOf(g, x) \in Nat /\ RunOf(g, y) \in Nat
    <3>1. x <= y \/ y <= x
      OBVIOUS
    <3> QED BY <1>1, <2>1, <3>1, RunsOf
  <2>3. RunOf(g, x) < RunOf(g, y)
    BY <1>6, <2>2 DEF Precedes
  <2>4. ~(y <= x)
    <3> SUFFICES ASSUME y <= x PROVE FALSE
      OBVIOUS
    <3>1. RunOf(g, y) <= RunOf(g, x)
      BY <1>1, RunsOf
    <3> QED BY <2>2, <2>3, <3>1
  <2>5. x < y
    BY <2>4
  <2>6. g[x].dict # g[y].dict
    BY <1>3, <1>6
  <2> QED BY <1>1, <2>5, <2>6
<1>7. ASSUME NEW x \in 1..n, NEW y \in 1..n, g[x].dict = g[y].dict, x <= y
      PROVE  RunOf(g, x) = RunOf(g, y) /\ RunOf(g, x) \in Nat
  <2>1. ASSUME NEW m \in 1..n, x <= m, m <= y PROVE g[m].dict = g[x].dict
    <3>0. \A a, b \in 1..n : a <= b => g[a].dict <= g[b].dict
      BY <1>10, <1>3
    <3>1. g[x].dict <= g[m].dict /\ g[m].dict <= g[y].dict
      BY <2>1, <3>0
    <3> QED BY <1>3, <1>7, <3>1
  <2>2. ASSUME NEW m \in x + 1..y PROVE g[m].title = g[m - 1].title
    <3>1. m \in 1..n /\ m - 1 \in 1..n /\ x <= m /\ m <= y /\ x <= m - 1 /\ m - 1 <= y
      OBVIOUS
    <3>2. g[m].dict = g[m - 1].dict
      BY <2>1, <3>1
    <3>3. /\ g[m].path = s[g[m].dict].path /\ g[m].title = TitleOf[g[m].path]
          /\ g[m - 1].path = s[g[m - 1].dict].path /\ g[m - 1].title = TitleOf[g[m - 1].path]
      BY <1>3, <3>1
    <3> QED BY <3>2, <3>3
  <2> QED BY <1>1, <1>7, <2>2, RunsOf
<1>8. ASSUME NEW x \in 1..n, NEW y \in 1..n, Precedes(g, x, y), g[x].dict = g[y].dict
      PROVE  g[x].score > g[y].score \/ (g[x].score = g[y].score /\ g[x].row < g[y].row)
  <2>1. RunOf(g, x) = RunOf(g, y) /\ RunOf(g, x) \in Nat
    <3>1. x <= y \/ y <= x
      OBVIOUS
    <3> QED BY <1>7, <1>8, <3>1
  <2>2. g[x].score > g[y].score \/ (g[x].score = g[y].score /\ x < y)
    BY <1>8, <2>1 DEF Precedes
  <2>3. x < y => g[x].row < g[y].row
    BY <1>1, <1>3, <1>8
  <2> QED BY <2>2, <2>3
<1>9. GlossariesInOrder(out)
  <2> SUFFICES ASSUME NEW k \in 1..n, NEW l \in 1..n, k < l
               PROVE  /\ out[k].path # out[l].path => out[k].dict < out[l].dict
                      /\ out[k].dict = out[l].dict =>
                             out[k].score > out[l].score \/ (out[k].score = out[l].score /\ out[k].row < out[l].row)
    BY <1>4 DEF GlossariesInOrder
  <2>1. /\ order[k] \in 1..n /\ order[l] \in 1..n /\ Precedes(g, order[k], order[l])
        /\ out[k] = g[order[k]] /\ out[l] = g[order[l]]
    BY <1>4, <1>5
  <2> QED BY <1>6, <1>8, <2>1, SMTT(30)
<1>13. ASSUME NEW k \in DOMAIN out PROVE out[k].dict \in 1..Len(s) /\ out[k].path = s[out[k].dict].path
  <2>1. out[k] = g[order[k]] /\ order[k] \in 1..n
    BY <1>4, <1>5
  <2> QED BY <1>3, <2>1
<1>11. ASSUME NEW i \in 1..Len(s), \A j \in 1..Len(s) : s[j].path = s[i].path => j = i
       PROVE  Cardinality({k \in DOMAIN out : out[k].path = s[i].path}) = Len(Rows[s[i].path])
  <2> DEFINE p == s[i].path
             L == Len(Rows[p])
             D == {k \in 1..n : out[k].path = p}
             f == [k \in D |-> out[k].row]
  <2>1. p \in Paths /\ L \in Nat
    <3>1. s[i] \in Entries
      OBVIOUS
    <3>2. p \in Paths
      BY <3>1 DEF Entries
    <3> QED BY <3>2, ConstantsAssumption
  <2>2. ASSUME NEW k \in D
        PROVE  /\ order[k] \in 1..n /\ out[k] = g[order[k]] /\ out[k].dict = i
               /\ out[k].row \in 1..L
    <3>1. order[k] \in 1..n /\ out[k] = g[order[k]] /\ out[k].path = p
      BY <1>4, <1>5
    <3>2. out[k].dict \in 1..Len(s) /\ s[out[k].dict].path = p /\ out[k].row \in 1..L
      BY <1>3, <3>1
    <3> QED BY <1>11, <3>1, <3>2
  <2>3. ASSUME NEW k \in D, NEW l \in D, k # l PROVE out[k].row # out[l].row
    <3>1. /\ order[k] \in 1..n /\ order[l] \in 1..n /\ out[k] = g[order[k]] /\ out[l] = g[order[l]]
          /\ out[k].dict = i /\ out[l].dict = i
      BY <2>2
    <3>2. order[k] # order[l]
      BY <1>5, <2>3
    <3>3. order[k] < order[l] \/ order[l] < order[k]
      BY <3>1, <3>2
    <3>4. out[k].row < out[l].row \/ out[l].row < out[k].row
      BY <1>10, <3>1, <3>3
    <3>5. out[k].row \in Nat /\ out[l].row \in Nat
      BY <1>3, <3>1
    <3> QED BY <3>4, <3>5
  <2>4. ASSUME NEW j \in 1..L PROVE \E k \in D : out[k].row = j
    <3>1. PICK x \in ToSet(g) : x.dict = i /\ x.row = j
      BY <1>1
    <3>2. PICK m \in 1..n : x = g[m]
      BY <1>2
    <3>3. PICK k \in 1..n : order[k] = m
      BY <1>5
    <3>4. out[k] = x /\ x.path = p
      BY <1>3, <1>4, <3>1, <3>2, <3>3
    <3> QED BY <3>1, <3>4
  <2>5. IsFiniteSet(D)
    <3>1. IsFiniteSet(1..n) /\ D \in SUBSET (1..n)
      BY <1>2, FS_Interval
    <3> HIDE DEF D
    <3> QED BY <3>1, FS_Subset
  <2>6. \A k \in D : f[k] = out[k].row
    OBVIOUS
  <2>7. f \in [D -> 1..L]
    BY <2>2
  <2> HIDE DEF f, D, L, p
  <2>8. f \in Bijection(D, 1..L)
    BY <2>3, <2>4, <2>6, <2>7, SMTT(30) DEF Bijection, Injection, Surjection, IsInjective
  <2>9. Cardinality(D) = Cardinality(1..L)
    BY <2>5, <2>8, FS_Bijection DEF ExistsBijection
  <2>10. Cardinality(1..L) = L
    BY <2>1, FS_Interval
  <2> QED BY <1>4, <2>9, <2>10 DEF D, L, p
<1>12. \A k, l \in DOMAIN out : k < l => k \in Int /\ l \in Int
  BY <1>4
<1> QED BY <1>9, <1>11, <1>12, <1>13

\* The first entry of the path, unless it is chosen already.
LEMMA PickIs ==
  ASSUME NEW s \in Seq(Entries), NEW c, NEW p
  PROVE  \/ /\ Pick(s, c, p) = c
            /\ (\A e \in ToSet(s) : e.path # p) \/ \E j \in DOMAIN c : c[j].path = p
         \/ \E e \in ToSet(s) : /\ e.path = p /\ Pick(s, c, p) = Append(c, e)
                                /\ ~\E j \in DOMAIN c : c[j].path = p
<1> DEFINE I == {i \in 1..Len(s) : s[i].path = p}
           i == SelectInSeq(s, LAMBDA e : e.path = p)
<1>1. ToSet(s) = {s[k] : k \in 1..Len(s)} /\ Len(s) \in Nat
  BY DEF ToSet
<1>2. i = IF I # {} THEN Min(I) ELSE 0
  BY DEF SelectInSeq
<1>3. Pick(s, c, p) = IF i = 0 \/ (\E j \in DOMAIN c : c[j].path = p) THEN c ELSE Append(c, s[i])
  BY DEF Pick
<1>4. I # {} => i \in I
  <2> SUFFICES ASSUME I # {} PROVE Min(I) \in I
    BY <1>2
  <2>1. I \in SUBSET Nat
    BY <1>1
  <2> HIDE DEF I
  <2>2. PICK m \in I : \A k \in I : m <= k
    BY <2>1, LeastNat
  <2> QED BY <2>2 DEF Min
<1> HIDE DEF i
<1>5. CASE I = {}
  <2>1. i = 0 /\ \A e \in ToSet(s) : e.path # p
    BY <1>1, <1>2, <1>5
  <2> QED BY <1>3, <2>1
<1>6. CASE I # {}
  <2>1. i # 0 /\ s[i].path = p /\ s[i] \in ToSet(s)
    BY <1>1, <1>4, <1>6
  <2> QED BY <1>3, <2>1
<1> QED BY <1>5, <1>6

\* What Selected computes along the request's list.
Chooses(f, s, order, m) ==
  f = [i \in 0..m |-> IF i = 0 THEN <<>> ELSE Pick(s, f[i - 1], order[i])]

LEMMA ChoosesExists ==
  ASSUME NEW s, NEW order
  PROVE  \A m \in Nat : \E f : Chooses(f, s, order, m)
<1> DEFINE T == {m \in Nat : \E f : Chooses(f, s, order, m)}
<1>1. 0 \in T
  <2> DEFINE f == [i \in 0..0 |-> <<>>]
  <2>1. f = [i \in 0..0 |-> IF i = 0 THEN <<>> ELSE Pick(s, f[i - 1], order[i])]
    OBVIOUS
  <2>2. Chooses(f, s, order, 0)
    BY <2>1 DEF Chooses
  <2> HIDE DEF f
  <2> QED BY <2>2
<1>2. ASSUME NEW m \in Nat, m \in T PROVE m + 1 \in T
  <2>1. PICK f : Chooses(f, s, order, m)
    BY <1>2
  <2> DEFINE h == [i \in 0..m + 1 |-> IF i = m + 1 THEN Pick(s, f[m], order[i]) ELSE f[i]]
  <2>2. ASSUME NEW i \in 0..m + 1 PROVE h[i] = IF i = 0 THEN <<>> ELSE Pick(s, h[i - 1], order[i])
    <3>1. CASE i = m + 1
      BY <3>1
    <3>2. CASE i # m + 1
      <4>1. i \in 0..m /\ h[i] = f[i] /\ (i # 0 => i - 1 \in 0..m /\ h[i - 1] = f[i - 1])
        BY <3>2
      <4>2. f[i] = IF i = 0 THEN <<>> ELSE Pick(s, f[i - 1], order[i])
        BY <2>1, <4>1 DEF Chooses
      <4> QED BY <4>1, <4>2
    <3> QED BY <3>1, <3>2
  <2>3. h = [i \in 0..m + 1 |-> h[i]]
    OBVIOUS
  <2> HIDE DEF h
  <2>4. Chooses(h, s, order, m + 1)
    BY <2>2, <2>3 DEF Chooses
  <2> QED BY <2>4
<1> HIDE DEF T
<1>3. Nat \subseteq T
  BY <1>1, <1>2, NatSetInduction
<1> QED BY <1>3 DEF T

\* The loaded dictionaries of a request, in its order and each of them once.
LEMMA SelectedIs ==
  ASSUME NEW s \in Seq(Entries), NEW order \in Seq(Paths), NEW sel, sel = Selected(s, order)
  PROVE  /\ sel \in Seq(Entries)
         /\ \A e \in ToSet(sel) : e \in ToSet(s) /\ e.path \in ToSet(order)
         /\ \A p \in ToSet(order) : (\E e \in ToSet(s) : e.path = p) => \E e \in ToSet(sel) : e.path = p
         /\ \A k, l \in 1..Len(sel) : k < l => Rank(order, sel[k].path) < Rank(order, sel[l].path)
<1> DEFINE n == Len(order)
           F == CHOOSE F : F = [i \in 0..n |-> IF i = 0 THEN <<>> ELSE Pick(s, F[i - 1], order[i])]
           Has(c, p) == \E e \in ToSet(c) : e.path = p
           Good(c, i) == /\ c \in Seq(Entries)
                         /\ \A e \in ToSet(c) : e \in ToSet(s) /\ Rank(order, e.path) <= i
                         /\ \A j \in 1..i : Has(s, order[j]) => Has(c, order[j])
                         /\ \A k, l \in 1..Len(c) : k < l => Rank(order, c[k].path) < Rank(order, c[l].path)
           T == {i \in Nat : i <= n => Good(F[i], i)}
<1>1. n \in Nat /\ \A i \in 1..n : order[i] \in Paths
  BY LenProperties
<1>2. sel = F[n]
  BY DEF Selected
<1>3. Chooses(F, s, order, n)
  <2>1. \E f : Chooses(f, s, order, n)
    BY <1>1, ChoosesExists
  <2> QED BY <2>1 DEF Chooses
<1> HIDE DEF F
<1>4. \A i \in 0..n : F[i] = IF i = 0 THEN <<>> ELSE Pick(s, F[i - 1], order[i])
  BY <1>3 DEF Chooses
<1>5. ASSUME NEW e \in ToSet(s) PROVE e \in Entries /\ e.path \in Paths
  <2>1. e \in Entries
    BY DEF ToSet
  <2> QED BY <2>1 DEF Entries
<1>6. 0 \in T
  <2>1. F[0] = <<>> /\ ToSet(<<>>) = {} /\ Len(<<>>) = 0 /\ <<>> \in Seq(Entries)
    BY <1>1, <1>4 DEF ToSet
  <2>2. Good(<<>>, 0)
    BY <2>1
  <2> QED BY <2>1, <2>2
<1>7. ASSUME NEW i \in Nat, i \in T PROVE i + 1 \in T
  <2> SUFFICES ASSUME i + 1 <= n PROVE Good(F[i + 1], i + 1)
    BY SMTT(30)
  <2> DEFINE c == F[i]
             p == order[i + 1]
  <2>1. F[i + 1] = Pick(s, c, p)
    <3>1. i + 1 \in 0..n /\ i + 1 # 0 /\ (i + 1) - 1 = i
      BY <1>1
    <3> QED BY <1>4, <3>1
  <2>2. p \in Paths /\ i + 1 \in 1..n /\ Rank(order, p) \in Nat /\ Rank(order, p) <= i + 1
    <3>1. p \in Paths /\ i + 1 \in 1..n
      BY <1>1
    <3> QED BY <3>1, RankIs
  <2>3. Good(c, i)
    BY <1>1, <1>7
  <2> HIDE DEF c, p
  <2>4. ToSet(c) = {c[k] : k \in 1..Len(c)} /\ DOMAIN c = 1..Len(c) /\ Len(c) \in Nat
    BY <2>3 DEF ToSet
  <2>5. \A j \in 1..i + 1 : j \in 1..i \/ (j = i + 1 /\ order[j] = p)
    BY DEF p
  <2>6. \A e \in ToSet(c) : e.path \in Paths /\ Rank(order, e.path) \in Nat
    <3> SUFFICES ASSUME NEW e \in ToSet(c) PROVE e.path \in Paths /\ Rank(order, e.path) \in Nat
      OBVIOUS
    <3>1. e.path \in Paths
      BY <1>5, <2>3
    <3> QED BY <3>1, RankIs
  <2>7. CASE Pick(s, c, p) = c /\ ((\A e \in ToSet(s) : e.path # p) \/ \E j \in DOMAIN c : c[j].path = p)
    <3>1. Has(s, p) => Has(c, p)
      BY <2>4, <2>7
    <3>2. \A j \in 1..i + 1 : Has(s, order[j]) => Has(c, order[j])
      <4> HIDE DEF Has
      <4> QED BY <2>3, <2>5, <3>1
    <3>3. \A e \in ToSet(c) : Rank(order, e.path) <= i + 1
      BY <2>3, <2>6
    <3>4. Good(c, i + 1)
      BY <2>3, <3>2, <3>3
    <3> HIDE DEF Good
    <3> QED BY <2>1, <2>7, <3>4
  <2>8. ASSUME NEW e \in ToSet(s), e.path = p, Pick(s, c, p) = Append(c, e), ~\E j \in DOMAIN c : c[j].path = p
        PROVE  Good(F[i + 1], i + 1)
    <3> DEFINE a == Append(c, e)
               m == Len(c)
    <3>1. ~Has(c, p) /\ Has(s, p)
      BY <2>4, <2>8
    <3>2. Rank(order, p) = i + 1
      <4> SUFFICES ASSUME Rank(order, p) <= i PROVE FALSE
        BY <2>2
      <4>1. Rank(order, p) \in 1..i /\ order[Rank(order, p)] = p
        BY <2>2, RankIs
      <4> HIDE DEF Has
      <4> QED BY <2>3, <3>1, <4>1
    <3>3. c \in Seq(Entries) /\ e \in Entries
      BY <1>5, <2>3
    <3>4. /\ a \in Seq(Entries) /\ Len(a) = m + 1 /\ a[m + 1] = e /\ (\A k \in 1..m : a[k] = c[k])
          /\ ToSet(a) = ToSet(c) \cup {e}
      BY <3>3, AppendProperties, AppendSet
    <3> HIDE DEF a
    <3>5. \A x \in ToSet(a) : x \in ToSet(s) /\ Rank(order, x.path) <= i + 1
      BY <2>3, <2>6, <2>8, <3>2, <3>4
    <3>6. \A j \in 1..i + 1 : Has(s, order[j]) => Has(a, order[j])
      <4>1. \A q : Has(a, q) <=> Has(c, q) \/ q = p
        BY <2>8, <3>4
      <4> HIDE DEF Has
      <4> QED BY <2>3, <2>5, <4>1
    <3>7. ASSUME NEW k \in 1..m + 1, NEW l \in 1..m + 1, k < l PROVE Rank(order, a[k].path) < Rank(order, a[l].path)
      <4>1. k \in 1..m /\ a[k] = c[k] /\ c[k] \in ToSet(c)
        BY <2>4, <3>4, <3>7
      <4>2. CASE l = m + 1
        <5>1. Rank(order, a[k].path) <= i /\ Rank(order, a[k].path) \in Nat
          BY <2>3, <2>6, <4>1
        <5> QED BY <2>8, <3>2, <3>4, <4>2, <5>1
      <4>3. CASE l # m + 1
        <5>1. l \in 1..m /\ a[l] = c[l]
          BY <2>4, <3>4, <4>3
        <5> QED BY <2>3, <3>7, <4>1, <5>1
      <4> QED BY <4>2, <4>3
    <3>8. Good(a, i + 1)
      BY <3>4, <3>5, <3>6, <3>7
    <3> HIDE DEF Good
    <3> QED BY <2>1, <2>8, <3>8 DEF a
  <2> QED BY <2>7, <2>8, PickIs
<1>8. Good(sel, n)
  <2> HIDE DEF T
  <2>1. n \in T
    BY <1>1, <1>6, <1>7, NatSetInduction
  <2> QED BY <1>1, <1>2, <2>1 DEF T
<1>9. ToSet(order) = {order[j] : j \in 1..n}
  BY DEF ToSet
<1>10. ASSUME NEW e \in ToSet(sel) PROVE e.path \in ToSet(order)
  <2>1. e.path \in Paths /\ Rank(order, e.path) <= n
    BY <1>5, <1>8
  <2> QED BY <1>1, <2>1, RankIs
<1> QED BY <1>8, <1>9, <1>10

LEMMA RequestDecidesFromInv ==
  ASSUME TitlesTellApart, IInv
  PROVE  RequestDecides
<1> DEFINE terms == lists["term"]
<1>1. terms \in Seq(Entries) /\ \A e \in ToSet(terms) : e \in Entries /\ e.title = TitleOf[e.path]
  <2>1. terms \in Seq(Entries)
    BY ConstantsAssumption DEF IInv, TypesOK
  <2>2. \A e \in ToSet(terms) : e \in EntriesOf(lists)
    BY ConstantsAssumption, EntriesOfIs
  <2>3. \A e \in EntriesOf(lists) : e \in Entries /\ e.title = TitleOf[e.path]
    BY EntriesTyped DEF IInv, FilesSharedAndCurrent
  <2> QED BY <2>1, <2>2, <2>3
<1> HIDE DEF terms
<1>2. Named(terms)
  BY <1>1 DEF Named, ToSet
<1>3. QueryInOrder
  <2>1. GlossariesInOrder(BuildTerm(Glossaries(terms)))
    BY <1>1, <1>2, AnswerIs
  <2> QED BY <2>1 DEF QueryInOrder, QueryAll, terms
<1>4. ASSUME NEW order \in Orders
      PROVE  LET out == QueryOf(order)
                 asked == {p \in ToSet(order) : \E e \in ToSet(terms) : e.path = p}
             IN  /\ GlossariesInOrder(out)
                 /\ \A i, j \in DOMAIN out : i < j => Rank(order, out[i].path) <= Rank(order, out[j].path)
                 /\ \A p \in Paths :
                        Cardinality({i \in DOMAIN out : out[i].path = p}) = IF p \in asked THEN Len(Rows[p]) ELSE 0
  <2> DEFINE sel == Selected(terms, order)
             out == QueryOf(order)
             asked == {p \in ToSet(order) : \E e \in ToSet(terms) : e.path = p}
  <2>1. order \in Seq(Paths)
    BY ConstantsAssumption
  <2>2. /\ sel \in Seq(Entries)
        /\ \A e \in ToSet(sel) : e \in ToSet(terms) /\ e.path \in ToSet(order)
        /\ \A p \in ToSet(order) : (\E e \in ToSet(terms) : e.path = p) => \E e \in ToSet(sel) : e.path = p
        /\ \A k, l \in 1..Len(sel) : k < l => Rank(order, sel[k].path) < Rank(order, sel[l].path)
    BY <1>1, <2>1, SelectedIs
  <2>3. out = BuildTerm(Glossaries(sel))
    BY DEF QueryOf, terms
  <2> HIDE DEF sel, out
  <2>4. ToSet(sel) = {sel[k] : k \in 1..Len(sel)} /\ Len(sel) \in Nat
    BY <2>2 DEF ToSet
  <2>5. ASSUME NEW k \in 1..Len(sel)
        PROVE  /\ sel[k] \in ToSet(sel) /\ sel[k].path \in Paths /\ sel[k].title = TitleOf[sel[k].path]
               /\ Rank(order, sel[k].path) \in Nat
    <3>1. sel[k] \in ToSet(sel) /\ sel[k] \in Entries /\ sel[k] \in ToSet(terms)
      BY <2>2, <2>4
    <3>2. sel[k].path \in Paths /\ sel[k].title = TitleOf[sel[k].path]
      BY <1>1, <3>1 DEF Entries
    <3> QED BY <2>1, <3>1, <3>2, RankIs
  <2>6. Named(sel)
    BY <2>5 DEF Named
  <2>7. /\ GlossariesInOrder(out)
        /\ \A k \in DOMAIN out : out[k].dict \in 1..Len(sel) /\ out[k].path = sel[out[k].dict].path
        /\ \A i \in 1..Len(sel) :
               (\A j \in 1..Len(sel) : sel[j].path = sel[i].path => j = i) =>
                   Cardinality({k \in DOMAIN out : out[k].path = sel[i].path}) = Len(Rows[sel[i].path])
    BY <2>2, <2>3, <2>6, AnswerIs
  <2>8. ASSUME NEW k \in DOMAIN out, NEW l \in DOMAIN out, k < l
        PROVE  Rank(order, out[k].path) <= Rank(order, out[l].path)
    <3>1. /\ out[k].dict \in 1..Len(sel) /\ out[k].path = sel[out[k].dict].path
          /\ out[l].dict \in 1..Len(sel) /\ out[l].path = sel[out[l].dict].path
      BY <2>7
    <3>2. Rank(order, out[k].path) \in Nat /\ Rank(order, out[l].path) \in Nat
      BY <2>5, <3>1
    <3>3. CASE out[k].path = out[l].path
      BY <3>2, <3>3
    <3>4. CASE out[k].path # out[l].path
      <4>1. out[k].dict < out[l].dict
        BY <2>7, <2>8, <3>4 DEF GlossariesInOrder
      <4> QED BY <2>2, <3>1, <3>2, <4>1
    <3> QED BY <3>3, <3>4
  <2>9. ASSUME NEW p \in Paths
        PROVE  Cardinality({i \in DOMAIN out : out[i].path = p}) = IF p \in asked THEN Len(Rows[p]) ELSE 0
    <3>1. CASE p \in asked
      <4>1. PICK e \in ToSet(sel) : e.path = p
        BY <2>2, <3>1
      <4>2. PICK i \in 1..Len(sel) : sel[i] = e
        BY <2>4
      <4>3. \A j \in 1..Len(sel) : sel[j].path = sel[i].path => j = i
        <5> SUFFICES ASSUME NEW j \in 1..Len(sel), sel[j].path = sel[i].path, j # i PROVE FALSE
          OBVIOUS
        <5>1. j < i \/ i < j
          BY <2>4
        <5>2. Rank(order, sel[i].path) < Rank(order, sel[i].path)
          BY <2>2, <5>1
        <5> QED BY <2>5, <5>2
      <4>4. sel[i].path = p
        BY <4>1, <4>2
      <4>5. Cardinality({k \in DOMAIN out : out[k].path = sel[i].path}) = Len(Rows[sel[i].path])
        BY <2>7, <4>3
      <4> QED BY <3>1, <4>4, <4>5
    <3>2. CASE p \notin asked
      <4>1. \A k \in DOMAIN out : out[k].path # p
        <5> SUFFICES ASSUME NEW k \in DOMAIN out, out[k].path = p PROVE FALSE
          OBVIOUS
        <5>1. out[k].dict \in 1..Len(sel) /\ p = sel[out[k].dict].path
          BY <2>7
        <5>2. sel[out[k].dict] \in ToSet(sel)
          BY <2>5, <5>1
        <5>3. p \in asked
          BY <2>2, <5>1, <5>2
        <5> QED BY <3>2, <5>3
      <4>2. {i \in DOMAIN out : out[i].path = p} = {}
        BY <4>1
      <4> QED BY <3>2, <4>2, FS_EmptySet
    <3> QED BY <3>1, <3>2
  <2> QED BY <2>7, <2>8, <2>9 DEF out
<1> QED BY <1>3, <1>4 DEF RequestDecides, terms

\* Whatever is added, removed and reordered before it, a query answers in the
\* order of the lists, each dictionary's glossaries by score; and a request's
\* list decides which of the loaded dictionaries answer, in its order, each
\* with all its rows and only once.  Provided that titles tell dictionaries
\* apart, which the code takes for granted and nothing ensures.
THEOREM RequestsDecide ==
  ASSUME TitlesTellApart
  PROVE  Spec => []RequestDecides
<1>1. IInv => RequestDecides
  BY RequestDecidesFromInv
<1> QED BY <1>1, Inductive, PTL
=============================================================================
