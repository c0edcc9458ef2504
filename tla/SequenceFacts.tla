--------------------------- MODULE SequenceFacts ---------------------------
(***************************************************************************)
(* What the proofs need to know of sequences: induction over the naturals  *)
(* and over sequences, put as a set that has 0, or <<>>, and is closed     *)
(* under + 1, or Append; FlattenSeq, the recursive function that the       *)
(* models filter, sort and join with; the places that a strict total order *)
(* gives to the elements of a sequence; and FlatMap, the list that each    *)
(* element of a sequence adds a list to.                                   *)
(***************************************************************************)
EXTENDS Integers, Sequences, FiniteSets, SequencesExt,
        FiniteSetTheorems, SequenceTheorems, WellFoundedInduction, TLAPS

-----------------------------------------------------------------------------
(* Induction.                                                              *)

LEMMA LeastNat ==
  ASSUME NEW S \in SUBSET Nat, S # {}
  PROVE  \E n \in S : \A m \in S : n <= m
<1> DEFINE R == {ss \in Nat \X Nat : ss[1] < ss[2]}
<1>1. IsWellFoundedOn(R, Nat)
  BY NatLessThanWellFounded DEF OpToRel
<1>2. PICK n \in S : \A m \in S : ~(<<m, n>> \in R)
  <2> HIDE DEF R
  <2> QED BY <1>1, WFMin
<1>3. \A m \in S : ~(m < n)
  BY <1>2
<1> QED BY <1>3

\* A property of the naturals, put as a set of naturals.
LEMMA NatSetInduction ==
  ASSUME NEW T, 0 \in T, \A n \in Nat : n \in T => n + 1 \in T
  PROVE  Nat \subseteq T
<1> SUFFICES ASSUME Nat \ T # {} PROVE FALSE
  OBVIOUS
<1>1. PICK n \in Nat \ T : \A m \in Nat \ T : n <= m
  BY LeastNat
<1>2. n # 0 /\ n - 1 \in Nat /\ n - 1 \in T
  BY <1>1
<1> QED BY <1>1, <1>2

\* A property of sequences, put as a set of sequences.
LEMMA SeqSetInduction ==
  ASSUME NEW S, NEW T, <<>> \in T, \A s \in Seq(S), e \in S : s \in T => Append(s, e) \in T
  PROVE  Seq(S) \subseteq T
<1> DEFINE N == {n \in Nat : \A s \in Seq(S) : Len(s) = n => s \in T}
<1>1. 0 \in N
  BY EmptySeq
<1>2. ASSUME NEW n \in Nat, n \in N PROVE n + 1 \in N
  <2> SUFFICES ASSUME NEW s \in Seq(S), Len(s) = n + 1 PROVE s \in T
    OBVIOUS
  <2>1. s # <<>>
    OBVIOUS
  <2>2. PICK r \in Seq(S), e \in S : s = Append(r, e)
    BY <2>1, SequenceEmptyOrAppend
  <2>3. Len(r) = n
    BY <2>2
  <2> QED BY <1>2, <2>2, <2>3
<1> HIDE DEF N
<1>3. Nat \subseteq N
  BY <1>1, <1>2, NatSetInduction
<1> QED BY <1>3, LenProperties DEF N

-----------------------------------------------------------------------------
(* FlattenSeq.                                                             *)

\* What FlattenSeq computes along a sequence of sequences.
Flattens(f, ss) ==
  f = [i \in 1..Len(ss) |-> IF i = 1 THEN ss[i] ELSE f[i - 1] \o ss[i]]

LEMMA FlattensExists ==
  ASSUME NEW S, NEW ss \in Seq(Seq(S))
  PROVE  \E f : Flattens(f, ss) /\ f \in [1..Len(ss) -> Seq(S)]
<1> DEFINE T == {r \in Seq(Seq(S)) : \E f : Flattens(f, r) /\ f \in [1..Len(r) -> Seq(S)]}
<1>1. <<>> \in T
  <2>1. <<>> \in Seq(Seq(S)) /\ Len(<<>>) = 0
    OBVIOUS
  <2> DEFINE f == [i \in {} |-> <<>>]
  <2>2. 1..Len(<<>>) = {}
    BY <2>1
  <2>3. f = [i \in {} |-> IF i = 1 THEN <<>>[i] ELSE f[i - 1] \o <<>>[i]]
    OBVIOUS
  <2>4. Flattens(f, <<>>)
    BY <2>2, <2>3 DEF Flattens
  <2> HIDE DEF f
  <2>5. f \in [{} -> Seq(S)]
    BY DEF f
  <2> QED BY <2>1, <2>2, <2>4, <2>5
<1>2. ASSUME NEW r \in Seq(Seq(S)), NEW e \in Seq(S), r \in T PROVE Append(r, e) \in T
  <2> DEFINE n == Len(r)
             a == Append(r, e)
  <2>1. PICK f : Flattens(f, r) /\ f \in [1..n -> Seq(S)]
    BY <1>2
  <2>2. a \in Seq(Seq(S)) /\ Len(a) = n + 1 /\ n \in Nat /\ a[n + 1] = e /\ \A i \in 1..n : a[i] = r[i]
    BY AppendProperties
  <2> HIDE DEF a, n
  <2> DEFINE g == [i \in 1..n + 1 |-> IF i = n + 1 THEN (IF n = 0 THEN e ELSE f[n] \o e) ELSE f[i]]
  <2>3. g \in [1..n + 1 -> Seq(S)]
    <3>1. n # 0 => f[n] \in Seq(S)
      BY <2>1, <2>2
    <3>2. n # 0 => f[n] \o e \in Seq(S)
      BY <3>1, ConcatProperties
    <3>3. \A i \in 1..n + 1 : (IF i = n + 1 THEN (IF n = 0 THEN e ELSE f[n] \o e) ELSE f[i]) \in Seq(S)
      BY <2>1, <2>2, <3>2
    <3> QED BY <3>3
  <2>4. \A i \in 1..n + 1 : g[i] = IF i = 1 THEN a[i] ELSE g[i - 1] \o a[i]
    <3> SUFFICES ASSUME NEW i \in 1..n + 1 PROVE g[i] = IF i = 1 THEN a[i] ELSE g[i - 1] \o a[i]
      OBVIOUS
    <3>1. CASE i = n + 1
      BY <3>1, <2>2
    <3>2. CASE i # n + 1
      <4>1. i \in 1..n /\ g[i] = f[i] /\ (i # 1 => i - 1 \in 1..n /\ g[i - 1] = f[i - 1])
        BY <3>2, <2>2
      <4>2. f[i] = IF i = 1 THEN r[i] ELSE f[i - 1] \o r[i]
        BY <2>1, <4>1 DEF Flattens, n
      <4> QED BY <4>1, <4>2, <2>2
    <3> QED BY <3>1, <3>2
  <2>5. Flattens(g, a)
    <3> HIDE DEF g
    <3>1. g = [i \in 1..n + 1 |-> g[i]]
      BY <2>3
    <3> QED BY <3>1, <2>4, <2>2 DEF Flattens
  <2> QED BY <2>2, <2>3, <2>5 DEF a
<1> HIDE DEF T
<1>3. Seq(Seq(S)) \subseteq T
  BY <1>1, <1>2, SeqSetInduction
<1> QED BY <1>3 DEF T

LEMMA FlattensUnique ==
  ASSUME NEW ss, Len(ss) \in Nat, NEW f, Flattens(f, ss), NEW g, Flattens(g, ss)
  PROVE  f = g
<1> DEFINE n == Len(ss)
           T == {i \in Nat : i \in 1..n => f[i] = g[i]}
<1>1. /\ \A i \in 1..n : f[i] = IF i = 1 THEN ss[i] ELSE f[i - 1] \o ss[i]
      /\ \A i \in 1..n : g[i] = IF i = 1 THEN ss[i] ELSE g[i - 1] \o ss[i]
      /\ f = [i \in 1..n |-> f[i]] /\ g = [i \in 1..n |-> g[i]]
  BY DEF Flattens
<1>2. 0 \in T
  OBVIOUS
<1>3. ASSUME NEW i \in Nat, i \in T PROVE i + 1 \in T
  <2> SUFFICES ASSUME i + 1 \in 1..n PROVE f[i + 1] = g[i + 1]
    OBVIOUS
  <2> DEFINE j == i + 1
  <2>1. j \in 1..n /\ (j # 1 => j - 1 = i /\ i \in 1..n)
    OBVIOUS
  <2>2. j # 1 => f[j - 1] = g[j - 1]
    BY <1>3, <2>1
  <2> HIDE DEF j
  <2>3. /\ f[j] = IF j = 1 THEN ss[j] ELSE f[j - 1] \o ss[j]
        /\ g[j] = IF j = 1 THEN ss[j] ELSE g[j - 1] \o ss[j]
    BY <1>1, <2>1
  <2>4. f[j] = g[j]
    BY <2>2, <2>3
  <2> QED BY <2>4 DEF j
<1> HIDE DEF T
<1>4. Nat \subseteq T
  BY <1>2, <1>3, NatSetInduction
<1>5. \A i \in 1..n : f[i] = g[i]
  BY <1>4 DEF T
<1> QED BY <1>1, <1>5

\* FlattenSeq is the last value of a function that flattens.
LEMMA FlattenSeqIs ==
  ASSUME NEW S, NEW ss \in Seq(Seq(S)), ss # <<>>, NEW f, Flattens(f, ss)
  PROVE  FlattenSeq(ss) = f[Len(ss)]
<1> DEFINE F == CHOOSE F : F = [i \in 1..Len(ss) |-> IF i = 1 THEN ss[i] ELSE F[i - 1] \o ss[i]]
<1>1. Len(ss) \in Nat \ {0}
  OBVIOUS
<1>2. FlattenSeq(ss) = F[Len(ss)]
  BY <1>1 DEF FlattenSeq
<1>3. Flattens(F, ss)
  BY DEF Flattens
<1> HIDE DEF F
<1> QED BY <1>1, <1>2, <1>3, FlattensUnique

LEMMA FlattenEmpty == FlattenSeq(<<>>) = <<>>
BY DEF FlattenSeq

\* The equation FlattenSeq is known by.
LEMMA FlattenAppend ==
  ASSUME NEW S, NEW ss \in Seq(Seq(S)), NEW t \in Seq(S)
  PROVE  /\ FlattenSeq(ss) \in Seq(S)
         /\ FlattenSeq(Append(ss, t)) = FlattenSeq(ss) \o t
<1> DEFINE n == Len(ss)
           a == Append(ss, t)
<1>1. PICK f : Flattens(f, ss) /\ f \in [1..n -> Seq(S)]
  BY FlattensExists
<1>2. a \in Seq(Seq(S)) /\ a # <<>> /\ Len(a) = n + 1 /\ n \in Nat /\ a[n + 1] = t /\ \A i \in 1..n : a[i] = ss[i]
  BY AppendProperties
<1> HIDE DEF a
<1>3. PICK g : Flattens(g, a) /\ g \in [1..n + 1 -> Seq(S)]
  BY <1>2, FlattensExists
<1>7. \A i \in 1..n + 1 : g[i] = IF i = 1 THEN a[i] ELSE g[i - 1] \o a[i]
  BY <1>2, <1>3 DEF Flattens
<1>4. FlattenSeq(a) = g[n + 1]
  BY <1>2, <1>3, FlattenSeqIs
<1>5. CASE n = 0
  <2>1. ss = <<>> /\ FlattenSeq(ss) = <<>>
    BY <1>5, FlattenEmpty
  <2>2. g[1] = t
    BY <1>2, <1>3, <1>5 DEF Flattens
  <2>3. <<>> \o t = t
    BY ConcatEmptySeq
  <2>4. <<>> \in Seq(S)
    BY EmptySeq
  <2>5. FlattenSeq(a) = t
    BY <1>4, <1>5, <2>2
  <2> QED BY <2>1, <2>3, <2>4, <2>5 DEF a
<1>6. CASE n # 0
  <2> DEFINE h == [i \in 1..n |-> g[i]]
  <2>1. Flattens(h, ss)
    <3>1. \A i \in 1..n : g[i] = IF i = 1 THEN ss[i] ELSE g[i - 1] \o ss[i]
      <4>1. \A i \in 1..n : i \in 1..n + 1
        BY <1>2
      <4> QED BY <1>2, <1>7, <4>1
    <3>2. \A i \in 1..n : i # 1 => i - 1 \in 1..n
      BY <1>2
    <3>3. h = [i \in 1..n |-> IF i = 1 THEN ss[i] ELSE h[i - 1] \o ss[i]]
      BY <3>1, <3>2
    <3> QED BY <3>3 DEF Flattens
  <2>2. h[n] = g[n]
    BY <1>2, <1>6
  <2> HIDE DEF h
  <2>3. FlattenSeq(ss) = h[n] /\ ss # <<>>
    BY <1>2, <1>6, <2>1, FlattenSeqIs
  <2>4. g[n] \in Seq(S)
    BY <1>2, <1>3, <1>6
  <2>5. g[n + 1] = g[n] \o t
    <3>1. n + 1 \in 1..n + 1 /\ n + 1 # 1 /\ (n + 1) - 1 = n
      BY <1>2, <1>6
    <3> QED BY <1>2, <1>7, <3>1
  <2> QED BY <1>4, <2>2, <2>3, <2>4, <2>5 DEF a
<1> QED BY <1>5, <1>6

-----------------------------------------------------------------------------
(* Recursion over 0..n, with a step that may depend on the index.          *)

LEMMA Folds ==
  ASSUME NEW P, NEW start \in P, NEW n \in Nat, NEW step \in [1..n -> [P -> P]]
  PROVE  \E f \in [0..n -> P] : f[0] = start /\ \A k \in 1..n : f[k] = step[k][f[k - 1]]
<1> DEFINE Runs(f, k) == f[0] = start /\ \A i \in 1..k : f[i] = step[i][f[i - 1]]
           T == {k \in Nat : k <= n => \E f \in [0..k -> P] : Runs(f, k)}
<1>1. 0 \in T
  <2> DEFINE f == [i \in 0..0 |-> start]
  <2>1. f \in [0..0 -> P] /\ Runs(f, 0)
    OBVIOUS
  <2> QED BY <2>1
<1>2. ASSUME NEW k \in Nat, k \in T PROVE k + 1 \in T
  <2> SUFFICES ASSUME k + 1 <= n PROVE \E g \in [0..k + 1 -> P] : Runs(g, k + 1)
    OBVIOUS
  <2>1. PICK f \in [0..k -> P] : Runs(f, k)
    BY <1>2
  <2> DEFINE g == [i \in 0..k + 1 |-> IF i = k + 1 THEN step[k + 1][f[k]] ELSE f[i]]
  <2>2. \A i \in 0..k + 1 : i # k + 1 => i \in 0..k
    OBVIOUS
  <2>3. k \in 0..k /\ f[k] \in P /\ k + 1 \in 1..n /\ step[k + 1][f[k]] \in P
    OBVIOUS
  <2>4. g \in [0..k + 1 -> P]
    BY <2>2, <2>3
  <2>5. g[0] = start
    BY <2>1
  <2>6. ASSUME NEW i \in 1..k + 1 PROVE g[i] = step[i][g[i - 1]]
    <3>1. CASE i = k + 1
      BY <3>1
    <3>2. CASE i # k + 1
      <4>1. i \in 1..k /\ i - 1 \in 0..k /\ i - 1 # k + 1 /\ i \in 0..k + 1 /\ i - 1 \in 0..k + 1
        BY <3>2
      <4> QED BY <4>1, <3>2, <2>1
    <3> QED BY <3>1, <3>2
  <2> QED BY <2>4, <2>5, <2>6
<1> HIDE DEF T
<1>3. n \in T
  BY <1>1, <1>2, NatSetInduction
<1> QED BY <1>3 DEF T

-----------------------------------------------------------------------------
(* Longer sequences, index by index.                                       *)

LEMMA ConcatIs ==
  ASSUME NEW S, NEW s \in Seq(S), NEW t \in Seq(S)
  PROVE  /\ s \o t \in Seq(S) /\ Len(s) \in Nat /\ Len(t) \in Nat /\ Len(s \o t) = Len(s) + Len(t)
         /\ \A i \in 1..Len(s) : (s \o t)[i] = s[i]
         /\ \A i \in 1..Len(t) : (s \o t)[Len(s) + i] = t[i]
<1>1. /\ s \o t \in Seq(S) /\ Len(s) \in Nat /\ Len(t) \in Nat /\ Len(s \o t) = Len(s) + Len(t)
      /\ \A i \in 1..Len(s) + Len(t) : (s \o t)[i] = IF i <= Len(s) THEN s[i] ELSE t[i - Len(s)]
  BY ConcatProperties
<1>2. \A i \in 1..Len(s) : i \in 1..Len(s) + Len(t) /\ i <= Len(s)
  BY <1>1
<1>3. \A i \in 1..Len(t) : Len(s) + i \in 1..Len(s) + Len(t) /\ ~(Len(s) + i <= Len(s)) /\ (Len(s) + i) - Len(s) = i
  BY <1>1
<1> QED BY <1>1, <1>2, <1>3

LEMMA AppendIs ==
  ASSUME NEW S, NEW s \in Seq(S), NEW e \in S
  PROVE  /\ Append(s, e) \in Seq(S) /\ Len(s) \in Nat /\ Len(Append(s, e)) = Len(s) + 1
         /\ Append(s, e)[Len(s) + 1] = e
         /\ \A i \in 1..Len(s) : Append(s, e)[i] = s[i] /\ s[i] \in S
BY AppendProperties

-----------------------------------------------------------------------------
(* What is in a list.                                                      *)

LEMMA AppendSet ==
  ASSUME NEW S, NEW s \in Seq(S), NEW e \in S
  PROVE  ToSet(Append(s, e)) = ToSet(s) \cup {e}
<1> DEFINE a == Append(s, e)
           n == Len(s)
<1>1. n \in Nat /\ DOMAIN s = 1..n /\ DOMAIN a = 1..n + 1 /\ a[n + 1] = e /\ \A i \in 1..n : a[i] = s[i]
  BY AppendProperties, LenProperties
<1> HIDE DEF a, n
<1>2. ToSet(s) = {s[i] : i \in 1..n} /\ ToSet(a) = {a[i] : i \in 1..n + 1}
  BY <1>1 DEF ToSet
<1>3. 1..n + 1 = 1..n \cup {n + 1}
  BY <1>1
<1> QED BY <1>1, <1>2, <1>3 DEF a

LEMMA ConcatSet ==
  ASSUME NEW S, NEW s \in Seq(S), NEW t \in Seq(S)
  PROVE  ToSet(s \o t) = ToSet(s) \cup ToSet(t)
<1>1. s \o t \in Seq(S) /\ Len(s \o t) = Len(s) + Len(t)
  BY ConcatProperties
<1>2. \A i \in 1..Len(s) : i \in 1..Len(s) + Len(t) /\ (s \o t)[i] = s[i]
  BY ConcatProperties
<1>3. \A i \in 1..Len(t) : Len(s) + i \in 1..Len(s) + Len(t) /\ (s \o t)[Len(s) + i] = t[i]
  BY ConcatProperties
<1>4. \A i \in 1..Len(s) + Len(t) : i \in 1..Len(s) \/ (i - Len(s) \in 1..Len(t) /\ i = Len(s) + (i - Len(s)))
  OBVIOUS
<1>5. /\ ToSet(s) = {s[i] : i \in 1..Len(s)} /\ ToSet(t) = {t[i] : i \in 1..Len(t)}
      /\ ToSet(s \o t) = {(s \o t)[i] : i \in 1..Len(s) + Len(t)}
  BY <1>1 DEF ToSet
<1>6. ToSet(s) \cup ToSet(t) \subseteq ToSet(s \o t)
  BY <1>2, <1>3, <1>5
<1>7. ToSet(s \o t) \subseteq ToSet(s) \cup ToSet(t)
  <2> SUFFICES ASSUME NEW i \in 1..Len(s) + Len(t) PROVE (s \o t)[i] \in ToSet(s) \cup ToSet(t)
    BY <1>5
  <2>1. CASE i \in 1..Len(s)
    BY <2>1, <1>2, <1>5
  <2>2. CASE i - Len(s) \in 1..Len(t) /\ i = Len(s) + (i - Len(s))
    <3>1. (s \o t)[i] = t[i - Len(s)]
      BY <2>2, <1>3
    <3> QED BY <2>2, <3>1, <1>5
  <2> QED BY <2>1, <2>2, <1>4
<1> QED BY <1>6, <1>7

LEMMA EmptySet ==
  ASSUME NEW S, NEW s \in Seq(S)
  PROVE  ToSet(s) = {} <=> s = <<>>
<1>1. s # <<>> => s[1] \in ToSet(s)
  BY DEF ToSet
<1>2. ToSet(<<>>) = {}
  BY DEF ToSet
<1> QED BY <1>1, <1>2

\* A flattened sequence has the elements of its parts.
LEMMA FlattenSeqSet ==
  ASSUME NEW S, NEW ss \in Seq(Seq(S))
  PROVE  \A e : e \in ToSet(FlattenSeq(ss)) <=> \E i \in 1..Len(ss) : e \in ToSet(ss[i])
<1> DEFINE Holds(r) == \A e : e \in ToSet(FlattenSeq(r)) <=> \E i \in 1..Len(r) : e \in ToSet(r[i])
           T == {r \in Seq(Seq(S)) : Holds(r)}
<1>1. <<>> \in T
  <2>1. <<>> \in Seq(Seq(S)) /\ Len(<<>>) = 0 /\ ToSet(<<>>) = {}
    BY DEF ToSet
  <2> QED BY <2>1, FlattenEmpty
<1>2. ASSUME NEW r \in Seq(Seq(S)), NEW t \in Seq(S), r \in T PROVE Append(r, t) \in T
  <2> DEFINE a == Append(r, t)
             n == Len(r)
  <2>1. n \in Nat /\ a \in Seq(Seq(S)) /\ Len(a) = n + 1 /\ a[n + 1] = t /\ \A i \in 1..n : a[i] = r[i]
    BY AppendProperties
  <2>2. ToSet(FlattenSeq(a)) = ToSet(FlattenSeq(r)) \cup ToSet(t)
    <3>1. FlattenSeq(r) \in Seq(S) /\ FlattenSeq(a) = FlattenSeq(r) \o t
      BY FlattenAppend
    <3>2. ToSet(FlattenSeq(r) \o t) = ToSet(FlattenSeq(r)) \cup ToSet(t)
      BY <3>1, ConcatSet
    <3> QED BY <3>1, <3>2
  <2>3. \A e : e \in ToSet(FlattenSeq(r)) <=> \E i \in 1..n : e \in ToSet(r[i])
    BY <1>2
  <2> HIDE DEF a, n
  <2>4. ASSUME NEW e PROVE e \in ToSet(FlattenSeq(a)) <=> \E i \in 1..n + 1 : e \in ToSet(a[i])
    <3>1. \A i : i \in 1..n + 1 <=> i \in 1..n \/ i = n + 1
      BY <2>1
    <3>2. \A i \in 1..n : e \in ToSet(a[i]) <=> e \in ToSet(r[i])
      BY <2>1
    <3>3. e \in ToSet(a[n + 1]) <=> e \in ToSet(t)
      BY <2>1
    <3> QED BY <2>2, <2>3, <3>1, <3>2, <3>3
  <2>5. Holds(a)
    BY <2>1, <2>4
  <2> QED BY <2>1, <2>5 DEF a
<1> HIDE DEF T
<1>3. Seq(Seq(S)) \subseteq T
  BY <1>1, <1>2, SeqSetInduction
<1> QED BY <1>3 DEF T

\* A flattened sequence is in the order R when every part is and every element
\* of a part precedes those of the parts behind it.
LEMMA FlattenOrdered ==
  ASSUME NEW S, NEW R, NEW ss \in Seq(Seq(S)),
         \A i \in 1..Len(ss) : \A k, l \in 1..Len(ss[i]) : k < l => <<ss[i][k], ss[i][l]>> \in R,
         \A i, j \in 1..Len(ss) : i < j => \A d \in ToSet(ss[i]), e \in ToSet(ss[j]) : <<d, e>> \in R
  PROVE  \A k, l \in 1..Len(FlattenSeq(ss)) : k < l => <<FlattenSeq(ss)[k], FlattenSeq(ss)[l]>> \in R
<1> DEFINE Ordered1(s) == \A k, l \in 1..Len(s) : k < l => <<s[k], s[l]>> \in R
           Parts(r) == /\ \A i \in 1..Len(r) : Ordered1(r[i])
                       /\ \A i, j \in 1..Len(r) : i < j => \A d \in ToSet(r[i]), e \in ToSet(r[j]) : <<d, e>> \in R
           T == {r \in Seq(Seq(S)) : Parts(r) => Ordered1(FlattenSeq(r))}
<1>1. <<>> \in T
  <2>1. <<>> \in Seq(Seq(S)) /\ Len(<<>>) = 0
    OBVIOUS
  <2> QED BY <2>1, FlattenEmpty
<1>2. ASSUME NEW r \in Seq(Seq(S)), NEW t \in Seq(S), r \in T PROVE Append(r, t) \in T
  <2> DEFINE a == Append(r, t)
             n == Len(r)
             f == FlattenSeq(r)
  <2>1. n \in Nat /\ a \in Seq(Seq(S)) /\ Len(a) = n + 1 /\ a[n + 1] = t /\ \A i \in 1..n : a[i] = r[i]
    BY AppendProperties
  <2>2. f \in Seq(S) /\ FlattenSeq(a) = f \o t
    BY FlattenAppend
  <2> HIDE DEF a, n
  <2> SUFFICES ASSUME Parts(a) PROVE Ordered1(f \o t)
    BY <2>1, <2>2 DEF a
  <2>0. n + 1 \in 1..n + 1 /\ \A i \in 1..n : i \in 1..n + 1 /\ i < n + 1
    BY <2>1
  <2>3. Parts(r)
    <3>1. \A i \in 1..n : Ordered1(r[i])
      <4> HIDE DEF Ordered1
      <4> QED BY <2>0, <2>1
    <3>2. \A i, j \in 1..n : i < j => \A d \in ToSet(r[i]), e \in ToSet(r[j]) : <<d, e>> \in R
      <4> HIDE DEF Ordered1
      <4> QED BY <2>0, <2>1
    <3> QED BY <3>1, <3>2 DEF n
  <2>4. Ordered1(f)
    BY <1>2, <2>3
  <2>5. Ordered1(t)
    <3> HIDE DEF Ordered1
    <3> QED BY <2>0, <2>1
  <2>6. \A d \in ToSet(f), e \in ToSet(t) : <<d, e>> \in R
    <3> SUFFICES ASSUME NEW d \in ToSet(f), NEW e \in ToSet(t) PROVE <<d, e>> \in R
      OBVIOUS
    <3>1. PICK i \in 1..n : d \in ToSet(r[i])
      BY FlattenSeqSet DEF n
    <3> HIDE DEF Ordered1
    <3> QED BY <2>0, <2>1, <3>1
  <2> HIDE DEF f, Parts
  <2>7. /\ Len(f \o t) = Len(f) + Len(t)
        /\ \A i \in 1..Len(f) : (f \o t)[i] = f[i] /\ f[i] \in ToSet(f)
        /\ \A i \in 1..Len(f) + Len(t) :
               i \notin 1..Len(f) => (f \o t)[i] = t[i - Len(f)] /\ i - Len(f) \in 1..Len(t) /\ t[i - Len(f)] \in ToSet(t)
    <3>1. /\ Len(f \o t) = Len(f) + Len(t)
          /\ \A i \in 1..Len(f) : (f \o t)[i] = f[i]
          /\ \A i \in 1..Len(f) + Len(t) : i \notin 1..Len(f) => (f \o t)[i] = t[i - Len(f)]
      BY <2>2, ConcatProperties
    <3>2. \A i \in 1..Len(f) + Len(t) : i \notin 1..Len(f) => i - Len(f) \in 1..Len(t)
      BY <2>2
    <3>3. \A i \in 1..Len(f) : f[i] \in ToSet(f)
      BY <2>2 DEF ToSet
    <3>4. \A i \in 1..Len(t) : t[i] \in ToSet(t)
      BY DEF ToSet
    <3> QED BY <3>1, <3>2, <3>3, <3>4
  <2> SUFFICES ASSUME NEW i \in 1..Len(f) + Len(t), NEW j \in 1..Len(f) + Len(t), i < j
               PROVE  <<(f \o t)[i], (f \o t)[j]>> \in R
    BY <2>7
  <2>8. CASE j \in 1..Len(f)
    <3>1. i \in 1..Len(f)
      BY <2>8, <2>2
    <3> QED BY <2>4, <2>7, <2>8, <3>1
  <2>9. CASE j \notin 1..Len(f) /\ i \in 1..Len(f)
    BY <2>6, <2>7, <2>9
  <2>10. CASE j \notin 1..Len(f) /\ i \notin 1..Len(f)
    <3>1. i - Len(f) < j - Len(f)
      BY <2>2
    <3> QED BY <2>5, <2>7, <2>10, <3>1
  <2> QED BY <2>8, <2>9, <2>10
<1> HIDE DEF T
<1>3. Seq(Seq(S)) \subseteq T
  BY <1>1, <1>2, SeqSetInduction
<1> QED BY <1>3 DEF T

\* When the elements of the parts have the rank of their part, a flattened
\* sequence is in the order of ranks.
LEMMA FlattenSorted ==
  ASSUME NEW S, NEW rank \in [S -> Nat], NEW ss \in Seq(Seq(S)),
         \A i \in 1..Len(ss) : \A e \in ToSet(ss[i]) : rank[e] = i
  PROVE  \A i, j \in 1..Len(FlattenSeq(ss)) :
             i < j => rank[FlattenSeq(ss)[i]] <= rank[FlattenSeq(ss)[j]]
<1> DEFINE R == {de \in S \X S : rank[de[1]] <= rank[de[2]]}
<1>1. \A i \in 1..Len(ss) : \A e \in ToSet(ss[i]) : e \in S
  <2> SUFFICES ASSUME NEW i \in 1..Len(ss), NEW e \in ToSet(ss[i]) PROVE e \in S
    OBVIOUS
  <2>1. ss[i] \in Seq(S)
    BY ElementOfSeq
  <2> QED BY <2>1 DEF ToSet
<1>2. \A d, e \in S : rank[d] <= rank[e] => <<d, e>> \in R
  OBVIOUS
<1>3. \A d, e : <<d, e>> \in R => rank[d] <= rank[e]
  OBVIOUS
<1> HIDE DEF R
<1>4. ASSUME NEW i \in 1..Len(ss), NEW k \in 1..Len(ss[i]), NEW l \in 1..Len(ss[i]), k < l
      PROVE  <<ss[i][k], ss[i][l]>> \in R
  <2>1. ss[i][k] \in ToSet(ss[i]) /\ ss[i][l] \in ToSet(ss[i])
    <3>1. ss[i] \in Seq(S)
      BY ElementOfSeq
    <3> QED BY <3>1 DEF ToSet
  <2>2. ss[i][k] \in S /\ ss[i][l] \in S /\ rank[ss[i][k]] = i /\ rank[ss[i][l]] = i
    BY <1>1, <2>1
  <2> QED BY <1>2, <2>2
<1>5. ASSUME NEW i \in 1..Len(ss), NEW j \in 1..Len(ss), i < j, NEW d \in ToSet(ss[i]), NEW e \in ToSet(ss[j])
      PROVE  <<d, e>> \in R
  <2>1. d \in S /\ e \in S /\ rank[d] = i /\ rank[e] = j
    BY <1>1
  <2> QED BY <1>2, <1>5, <2>1
<1>6. \A k, l \in 1..Len(FlattenSeq(ss)) : k < l => <<FlattenSeq(ss)[k], FlattenSeq(ss)[l]>> \in R
  BY <1>4, <1>5, FlattenOrdered
<1> QED BY <1>3, <1>6

-----------------------------------------------------------------------------
(* Sorting.                                                                *)

\* Behind as many as precede it, every element of a strict total order has a
\* place of its own.
LEMMA PlacesByOrder ==
  ASSUME NEW n \in Nat, NEW R,
         \A i, j \in 1..n : <<i, j>> \in R => <<j, i>> \notin R,
         \A i, j, k \in 1..n : <<i, j>> \in R /\ <<j, k>> \in R => <<i, k>> \in R,
         \A i, j \in 1..n : i # j => <<i, j>> \in R \/ <<j, i>> \in R,
         NEW place, place = [i \in 1..n |-> Cardinality({j \in 1..n : <<j, i>> \in R}) + 1]
  PROVE  /\ place \in Bijection(1..n, 1..n)
         /\ \A i, j \in 1..n : place[i] < place[j] => <<i, j>> \in R
<1> DEFINE before(i) == {j \in 1..n : <<j, i>> \in R}
<1>1. IsFiniteSet(1..n) /\ Cardinality(1..n) = n
  BY FS_Interval
<1>2. ASSUME NEW i \in 1..n PROVE IsFiniteSet(before(i)) /\ Cardinality(before(i)) \in Nat /\ place[i] \in 1..n
  <2>1. i \notin before(i) /\ before(i) \in SUBSET (1..n)
    OBVIOUS
  <2> HIDE DEF before
  <2>2. IsFiniteSet(before(i)) /\ Cardinality(before(i)) <= n /\ (Cardinality(before(i)) = n => before(i) = 1..n)
    BY <1>1, <2>1, FS_Subset
  <2>3. Cardinality(before(i)) \in Nat /\ Cardinality(before(i)) # n
    BY <2>1, <2>2, FS_CardinalityType
  <2>4. place[i] = Cardinality(before(i)) + 1
    BY DEF before
  <2> QED BY <2>2, <2>3, <2>4
<1>3. ASSUME NEW i \in 1..n, NEW j \in 1..n, <<i, j>> \in R PROVE place[i] < place[j]
  <2>1. before(i) \in SUBSET before(j) /\ i \in before(j) /\ i \notin before(i)
    BY <1>3
  <2>2. place[i] = Cardinality(before(i)) + 1 /\ place[j] = Cardinality(before(j)) + 1
    OBVIOUS
  <2> HIDE DEF before
  <2>3. /\ Cardinality(before(i)) <= Cardinality(before(j))
        /\ Cardinality(before(j)) = Cardinality(before(i)) => before(j) = before(i)
    BY <1>2, <2>1, FS_Subset
  <2> QED BY <1>2, <2>1, <2>2, <2>3, SMTT(30)
<1>4. place \in [1..n -> 1..n]
  BY <1>2
<1>9. \A i \in 1..n : place[i] \in Nat
  <2> SUFFICES ASSUME NEW i \in 1..n PROVE place[i] \in Nat
    OBVIOUS
  <2>1. place[i] \in 1..n
    BY <1>4
  <2> QED BY <2>1
<1> HIDE DEF before
<1>5. \A i, j \in 1..n : place[i] = place[j] => i = j
  <2> SUFFICES ASSUME NEW i \in 1..n, NEW j \in 1..n, i # j PROVE place[i] # place[j]
    OBVIOUS
  <2>1. place[i] < place[j] \/ place[j] < place[i]
    BY <1>3
  <2>2. place[i] \in Nat /\ place[j] \in Nat
    BY <1>9
  <2> QED BY <2>1, <2>2
<1>6. place \in Injection(1..n, 1..n)
  BY <1>4, <1>5 DEF Injection, IsInjective
<1>7. place \in Surjection(1..n, 1..n)
  BY <1>1, <1>6, FS_Injection
<1>8. ASSUME NEW i \in 1..n, NEW j \in 1..n, place[i] < place[j] PROVE <<i, j>> \in R
  <2>0. place[i] \in Nat /\ place[j] \in Nat
    BY <1>9
  <2>1. i # j /\ ~(place[j] < place[i])
    BY <1>8, <2>0
  <2> QED BY <1>3, <2>1
<1> QED BY <1>6, <1>7, <1>8 DEF Bijection

-----------------------------------------------------------------------------
(* Mapping each element to a list, and joining the lists.                  *)

Maps(S, T) == [S -> Seq(T)]
FlatMap(F, s) == FlattenSeq([i \in 1..Len(s) |-> F[s[i]]])

\* The lists of the elements, not joined yet.
LEMMA MappedIs ==
  ASSUME NEW S, NEW T, NEW F \in Maps(S, T), NEW s \in Seq(S)
  PROVE  [i \in 1..Len(s) |-> F[s[i]]] \in Seq(Seq(T))
<1>1. \A i \in 1..Len(s) : F[s[i]] \in Seq(T)
  BY DEF Maps
<1> QED BY <1>1

\* The equations FlatMap is known by.
LEMMA FlatMapIs ==
  ASSUME NEW S, NEW T, NEW F \in Maps(S, T), NEW s \in Seq(S)
  PROVE  /\ FlatMap(F, <<>>) = <<>>
         /\ FlatMap(F, s) \in Seq(T)
         /\ \A e \in S : FlatMap(F, Append(s, e)) = FlatMap(F, s) \o F[e]
<1> DEFINE ss == [i \in 1..Len(s) |-> F[s[i]]]
<1>1. ss \in Seq(Seq(T)) /\ Len(ss) = Len(s) /\ Len(s) \in Nat
  BY MappedIs
<1>2. FlatMap(F, <<>>) = <<>>
  <2>1. [i \in 1..Len(<<>>) |-> F[<<>>[i]]] = <<>>
    OBVIOUS
  <2> QED BY <2>1, FlattenEmpty DEF FlatMap
<1>3. FlatMap(F, s) \in Seq(T)
  <2> HIDE DEF ss
  <2>1. FlattenSeq(ss) \in Seq(T)
    BY <1>1, EmptySeq, FlattenAppend
  <2> QED BY <2>1 DEF FlatMap, ss
<1>4. ASSUME NEW e \in S PROVE FlatMap(F, Append(s, e)) = FlatMap(F, s) \o F[e]
  <2> DEFINE a == Append(s, e)
             as == [i \in 1..Len(a) |-> F[a[i]]]
             b == Append(ss, F[e])
  <2>1. a \in Seq(S) /\ Len(a) = Len(s) + 1 /\ a[Len(s) + 1] = e /\ \A i \in 1..Len(s) : a[i] = s[i]
    BY AppendIs
  <2>2. as \in Seq(Seq(T)) /\ Len(as) = Len(s) + 1
    <3> HIDE DEF a
    <3> QED BY <2>1, <1>1, MappedIs
  <2>3. /\ b \in Seq(Seq(T)) /\ Len(b) = Len(s) + 1 /\ b[Len(s) + 1] = F[e]
        /\ \A i \in 1..Len(s) : b[i] = ss[i]
    <3> HIDE DEF ss
    <3>1. F[e] \in Seq(T)
      BY DEF Maps
    <3> QED BY <1>1, <3>1, AppendIs
  <2>4. as = b
    <3>1. \A i \in 1..Len(s) + 1 : i \in 1..Len(s) \/ i = Len(s) + 1
      BY <1>1
    <3> HIDE DEF a, b
    <3>2. \A i \in 1..Len(s) + 1 : as[i] = b[i]
      BY <2>1, <2>3, <3>1
    <3> HIDE DEF as
    <3> QED BY <2>2, <2>3, <3>2, SeqEqual
  <2>5. FlattenSeq(b) = FlattenSeq(ss) \o F[e]
    <3>1. F[e] \in Seq(T)
      BY DEF Maps
    <3> HIDE DEF ss
    <3> QED BY <1>1, <3>1, FlattenAppend
  <2> HIDE DEF b
  <2> QED BY <2>4, <2>5 DEF FlatMap
<1> QED BY <1>2, <1>3, <1>4

\* One more element adds its list, and the types of what is added to.
LEMMA FlatMapAppend ==
  ASSUME NEW S, NEW T, NEW F \in Maps(S, T), NEW s \in Seq(S), NEW e \in S
  PROVE  /\ F[e] \in Seq(T) /\ FlatMap(F, s) \in Seq(T) /\ Append(s, e) \in Seq(S)
         /\ FlatMap(F, Append(s, e)) = FlatMap(F, s) \o F[e]
BY FlatMapIs, SMTT(30) DEF Maps

\* The list of one element.
LEMMA FlatMapSingle ==
  ASSUME NEW S, NEW T, NEW F \in Maps(S, T), NEW e \in S
  PROVE  FlatMap(F, <<e>>) = F[e]
<1> DEFINE z == <<>>
<1>1. z \in Seq(S) /\ <<e>> = Append(z, e)
  OBVIOUS
<1>6. FlatMap(F, z) = <<>>
  BY <1>1, FlatMapIs
<1> HIDE DEF z
<1>7. z \in Seq(S)
  BY <1>1
<1>2. F[e] \in Seq(T) /\ FlatMap(F, z) \in Seq(T) /\ Append(z, e) \in Seq(S) /\ FlatMap(F, Append(z, e)) = FlatMap(F, z) \o F[e]
  BY <1>7, FlatMapAppend
<1>3. FlatMap(F, <<e>>) = <<>> \o F[e]
  BY <1>1, <1>2, <1>6
<1> DEFINE d == F[e]
<1>4. d \in Seq(T)
  BY <1>2
<1> HIDE DEF d
<1>5. <<>> \o d = d
  BY <1>4, ConcatEmptySeq
<1> QED BY <1>3, <1>5 DEF d

\* The list of two parts is the lists of the parts.
LEMMA FlatMapConcat ==
  ASSUME NEW S, NEW T, NEW F \in Maps(S, T), NEW s \in Seq(S), NEW t \in Seq(S)
  PROVE  FlatMap(F, s \o t) = FlatMap(F, s) \o FlatMap(F, t)
<1> DEFINE P == {u \in Seq(S) : FlatMap(F, s \o u) = FlatMap(F, s) \o FlatMap(F, u)}
<1>1. <<>> \in P
  <2>1. <<>> \in Seq(S) /\ s \o <<>> = s
    BY ConcatEmptySeq
  <2>2. FlatMap(F, s) \in Seq(T) /\ FlatMap(F, <<>>) = <<>>
    BY FlatMapIs
  <2>3. FlatMap(F, s) \o <<>> = FlatMap(F, s)
    BY <2>2, ConcatEmptySeq
  <2> QED BY <2>1, <2>2, <2>3
<1>2. ASSUME NEW u \in Seq(S), NEW e \in S, u \in P PROVE Append(u, e) \in P
  <2>1. s \o Append(u, e) = Append(s \o u, e) /\ s \o u \in Seq(S) /\ Append(u, e) \in Seq(S)
    <3>1. Append(u, e) = u \o <<e>> /\ <<e>> \in Seq(S) /\ s \o u \in Seq(S)
      BY AppendIsConcat
    <3>2. (s \o u) \o <<e>> = s \o (u \o <<e>>)
      BY <3>1, ConcatAssociative
    <3> QED BY <3>1, <3>2, AppendIsConcat
  <2>2. FlatMap(F, s) \in Seq(T) /\ FlatMap(F, u) \in Seq(T) /\ F[e] \in Seq(T)
    BY FlatMapAppend
  <2>3. FlatMap(F, Append(s \o u, e)) = FlatMap(F, s \o u) \o F[e] /\ FlatMap(F, s \o u) \in Seq(T)
    <3> DEFINE v == s \o u
    <3>1. v \in Seq(S)
      BY <2>1
    <3> HIDE DEF v
    <3>2. FlatMap(F, Append(v, e)) = FlatMap(F, v) \o F[e] /\ FlatMap(F, v) \in Seq(T)
      BY <3>1, FlatMapAppend
    <3> QED BY <3>2 DEF v
  <2>5. FlatMap(F, Append(u, e)) = FlatMap(F, u) \o F[e] /\ F[e] \in Seq(T)
    BY <2>1, FlatMapAppend
  <2>4. (FlatMap(F, s) \o FlatMap(F, u)) \o F[e] = FlatMap(F, s) \o (FlatMap(F, u) \o F[e])
    <3> DEFINE a == FlatMap(F, s)
               b == FlatMap(F, u)
               c == F[e]
    <3>1. a \in Seq(T) /\ b \in Seq(T) /\ c \in Seq(T)
      BY <2>2
    <3> HIDE DEF a, b, c
    <3>2. (a \o b) \o c = a \o (b \o c)
      BY <3>1, ConcatAssociative, SMTT(30)
    <3> QED BY <3>2 DEF a, b, c
  <2> QED BY <1>2, <2>1, <2>3, <2>4, <2>5
<1>3. Seq(S) \subseteq P
  <2> HIDE DEF P
  <2> QED BY <1>1, <1>2, SeqSetInduction
<1> QED BY <1>3

\* Two passes are one, if they are for each element of the list.
LEMMA FlatMapTwice ==
  ASSUME NEW S, NEW T, NEW U, NEW F \in Maps(S, T), NEW G \in Maps(T, U), NEW H \in Maps(S, U),
         NEW s \in Seq(S), \A i \in 1..Len(s) : H[s[i]] = FlatMap(G, F[s[i]])
  PROVE  FlatMap(G, FlatMap(F, s)) = FlatMap(H, s)
<1> DEFINE Like(r) == \A i \in 1..Len(r) : H[r[i]] = FlatMap(G, F[r[i]])
           P == {r \in Seq(S) : Like(r) => FlatMap(G, FlatMap(F, r)) = FlatMap(H, r)}
<1>1. <<>> \in P
  <2>1. <<>> \in Seq(S) /\ <<>> \in Seq(T)
    OBVIOUS
  <2>2. FlatMap(F, <<>>) = <<>> /\ FlatMap(G, <<>>) = <<>> /\ FlatMap(H, <<>>) = <<>>
    BY <2>1, FlatMapIs
  <2> QED BY <2>1, <2>2
<1>2. ASSUME NEW r \in Seq(S), NEW e \in S, r \in P PROVE Append(r, e) \in P
  <2> DEFINE a == Append(r, e)
  <2>1. /\ a \in Seq(S) /\ Len(r) \in Nat /\ Len(a) = Len(r) + 1 /\ a[Len(r) + 1] = e
        /\ \A i \in 1..Len(r) : a[i] = r[i]
    BY AppendIs
  <2>2. /\ FlatMap(F, a) = FlatMap(F, r) \o F[e] /\ FlatMap(H, a) = FlatMap(H, r) \o H[e]
        /\ FlatMap(F, r) \in Seq(T) /\ F[e] \in Seq(T)
    BY FlatMapAppend, SMTT(30)
  <2> HIDE DEF a
  <2>3. ASSUME Like(a) PROVE FlatMap(G, FlatMap(F, a)) = FlatMap(H, a)
    <3>1. Like(r)
      <4>1. \A i \in 1..Len(r) : i \in 1..Len(a)
        BY <2>1
      <4> QED BY <4>1, <2>1, <2>3
    <3>2. H[e] = FlatMap(G, F[e])
      <4>1. Len(r) + 1 \in 1..Len(a)
        BY <2>1
      <4> QED BY <4>1, <2>1, <2>3
    <3>3. FlatMap(G, FlatMap(F, r)) = FlatMap(H, r)
      BY <3>1, <1>2
    <3>4. FlatMap(G, FlatMap(F, r) \o F[e]) = FlatMap(G, FlatMap(F, r)) \o FlatMap(G, F[e])
      BY <2>2, FlatMapConcat, SMTT(30)
    <3> QED BY <3>2, <3>3, <3>4, <2>2
  <2> QED BY <2>1, <2>3 DEF a
<1>3. Seq(S) \subseteq P
  <2> HIDE DEF P
  <2> QED BY <1>1, <1>2, SeqSetInduction
<1> QED BY <1>3

\* One for each element is a list as long.
LEMMA FlatMapOnes ==
  ASSUME NEW S, NEW T, NEW F \in Maps(S, T), NEW g \in [S -> T], \A e \in S : F[e] = <<g[e]>>,
         NEW s \in Seq(S)
  PROVE  FlatMap(F, s) = [i \in 1..Len(s) |-> g[s[i]]]
<1> DEFINE M(r) == [i \in 1..Len(r) |-> g[r[i]]]
           P == {r \in Seq(S) : FlatMap(F, r) = M(r)}
<1>1. <<>> \in P
  <2>1. <<>> \in Seq(S) /\ M(<<>>) = <<>>
    OBVIOUS
  <2> QED BY <2>1, FlatMapIs
<1>2. ASSUME NEW r \in Seq(S), NEW e \in S, r \in P PROVE Append(r, e) \in P
  <2> DEFINE a == Append(r, e)
  <2>1. /\ a \in Seq(S) /\ Len(r) \in Nat /\ Len(a) = Len(r) + 1 /\ a[Len(r) + 1] = e
        /\ \A i \in 1..Len(r) : a[i] = r[i]
    BY AppendIs
  <2>2. FlatMap(F, a) = FlatMap(F, r) \o F[e] /\ FlatMap(F, r) \in Seq(T) /\ F[e] = <<g[e]>>
    BY FlatMapAppend
  <2>3. M(r) \in Seq(T) /\ Len(M(r)) = Len(r) /\ g[e] \in T
    <3>1. \A i \in 1..Len(r) : g[r[i]] \in T
      OBVIOUS
    <3> QED BY <3>1, <2>1
  <2> HIDE DEF a
  <2>4. M(a) \in Seq(T) /\ Len(M(a)) = Len(r) + 1
    <3>1. \A i \in 1..Len(a) : g[a[i]] \in T
      BY <2>1
    <3> QED BY <3>1, <2>1
  <2>5. M(r) \o <<g[e]>> = Append(M(r), g[e])
    <3> HIDE DEF M
    <3> QED BY <2>3, AppendIsConcat
  <2>6. /\ Append(M(r), g[e]) \in Seq(T) /\ Len(Append(M(r), g[e])) = Len(r) + 1
        /\ Append(M(r), g[e])[Len(r) + 1] = g[e]
        /\ \A i \in 1..Len(r) : Append(M(r), g[e])[i] = M(r)[i]
    <3> HIDE DEF M
    <3> QED BY <2>3, AppendIs
  <2>7. \A i \in 1..Len(r) + 1 : M(a)[i] = Append(M(r), g[e])[i]
    <3>1. \A i \in 1..Len(r) + 1 : M(a)[i] = g[a[i]]
      BY <2>1
    <3>2. \A i \in 1..Len(r) : M(r)[i] = g[r[i]]
      OBVIOUS
    <3>3. \A i \in 1..Len(r) + 1 : i \in 1..Len(r) \/ i = Len(r) + 1
      BY <2>1
    <3> HIDE DEF M
    <3> QED BY <3>1, <3>2, <3>3, <2>1, <2>6
  <2>8. M(a) = Append(M(r), g[e])
    <3> HIDE DEF M
    <3> QED BY <2>4, <2>6, <2>7, SeqEqual
  <2> HIDE DEF M
  <2> QED BY <2>1, <2>2, <2>5, <2>8, <1>2 DEF a
<1>3. Seq(S) \subseteq P
  <2> HIDE DEF P
  <2> QED BY <1>1, <1>2, SeqSetInduction
<1> QED BY <1>3

\* Where the elements in A are, and how many of them there are up to a place.
PlacesOf(s, A) == {j \in 1..Len(s) : s[j] \in A}
RankIn(D, i) == Cardinality({j \in D : j <= i})

\* F keeps the elements in A and maps them by v; g is what is kept of s, each
\* element at its rank.
Filters(F, S, A, v) == \A e \in S : F[e] = IF e \in A THEN <<v[e]>> ELSE <<>>
AtItsRank(g, s, D, v) ==
  /\ IsFiniteSet(D) /\ Len(g) = Cardinality(D)
  /\ \A i \in D : RankIn(D, i) \in 1..Len(g) /\ g[RankIn(D, i)] = v[s[i]]
  /\ \A r \in 1..Len(g) : \E i \in D : RankIn(D, i) = r

\* A filter keeps the elements of A in their order: as many as there are, and
\* each at its rank.
LEMMA FilterRank ==
  ASSUME NEW S, NEW T, NEW A, NEW v \in [S -> T], NEW F \in Maps(S, T),
         Filters(F, S, A, v), NEW s \in Seq(S)
  PROVE  FlatMap(F, s) \in Seq(T) /\ AtItsRank(FlatMap(F, s), s, PlacesOf(s, A), v)
<1>0. \A e \in S : F[e] = IF e \in A THEN <<v[e]>> ELSE <<>>
  BY DEF Filters
<1> DEFINE Good(r) == /\ IsFiniteSet(PlacesOf(r, A)) /\ FlatMap(F, r) \in Seq(T)
                      /\ Len(FlatMap(F, r)) = Cardinality(PlacesOf(r, A))
                      /\ \A i \in PlacesOf(r, A) : /\ RankIn(PlacesOf(r, A), i) \in 1..Len(FlatMap(F, r))
                                               /\ FlatMap(F, r)[RankIn(PlacesOf(r, A), i)] = v[r[i]]
                      /\ \A x \in 1..Len(FlatMap(F, r)) : \E i \in PlacesOf(r, A) : RankIn(PlacesOf(r, A), i) = x
           P == {r \in Seq(S) : Good(r)}
<1>1. <<>> \in P
  <2>1. <<>> \in Seq(S) /\ <<>> \in Seq(T) /\ PlacesOf(<<>>, A) = {} /\ Len(<<>>) = 0
    BY DEF PlacesOf
  <2>2. FlatMap(F, <<>>) = <<>>
    BY <2>1, FlatMapIs
  <2>3. IsFiniteSet({}) /\ Cardinality({}) = 0 /\ 1..0 = {}
    BY FS_EmptySet
  <2> DEFINE z == <<>>
  <2>4. z \in Seq(S) /\ z \in Seq(T) /\ PlacesOf(z, A) = {} /\ Len(z) = 0 /\ FlatMap(F, z) = z
    BY <2>1, <2>2
  <2> HIDE DEF z
  <2>5. Good(z)
    BY <2>3, <2>4
  <2> HIDE DEF Good
  <2>6. z \in P
    BY <2>4, <2>5
  <2> QED BY <2>6 DEF z
<1>2. ASSUME NEW r \in Seq(S), NEW e \in S, r \in P PROVE Append(r, e) \in P
  <2> DEFINE a == Append(r, e)
             n == Len(r)
             D == PlacesOf(r, A)
             E == PlacesOf(a, A)
             f == FlatMap(F, r)
             g == FlatMap(F, a)
  <2>1. /\ a \in Seq(S) /\ n \in Nat /\ Len(a) = n + 1 /\ a[n + 1] = e
        /\ \A i \in 1..n : a[i] = r[i]
    BY AppendIs
  <2>2. F[e] \in Seq(T) /\ f \in Seq(T) /\ a \in Seq(S) /\ g = f \o F[e]
    BY FlatMapAppend
  <2>8. F[e] = IF e \in A THEN <<v[e]>> ELSE <<>>
    BY <1>0
  <2>3. /\ IsFiniteSet(D) /\ Len(f) = Cardinality(D) /\ D \subseteq 1..n
        /\ \A i \in D : RankIn(D, i) \in 1..Len(f) /\ f[RankIn(D, i)] = v[r[i]]
        /\ \A x \in 1..Len(f) : \E i \in D : RankIn(D, i) = x
    BY <1>2 DEF PlacesOf
  <2>4. E = IF e \in A THEN D \cup {n + 1} ELSE D
    <3> HIDE DEF a
    <3>1. \A i \in 1..n + 1 : i \in 1..n \/ i = n + 1
      BY <2>1
    <3>2. \A i : i \in E <=> (i \in D \/ (i = n + 1 /\ e \in A))
      BY <3>1, <2>1 DEF PlacesOf
    <3> HIDE DEF E, D
    <3> QED BY <3>2
  <2> HIDE DEF a, D, E, f, g
  <2>5. \A i \in D : RankIn(E, i) = RankIn(D, i) /\ a[i] = r[i]
    <3> SUFFICES ASSUME NEW i \in D PROVE RankIn(E, i) = RankIn(D, i)
      BY <2>1, <2>3
    <3>1. {j \in E : j <= i} = {j \in D : j <= i}
      BY <2>1, <2>3, <2>4
    <3> QED BY <3>1 DEF RankIn
  <2>6. CASE e \in A
    <3>1. IsFiniteSet(E) /\ Cardinality(E) = Cardinality(D) + 1
      <4>1. n + 1 \notin D
        BY <2>1, <2>3
      <4> QED BY <2>3, <2>4, <2>6, <4>1, FS_AddElement
    <3>2. g \in Seq(T) /\ Len(g) = Len(f) + 1 /\ g[Len(f) + 1] = v[e] /\ (\A x \in 1..Len(f) : g[x] = f[x]) /\ Len(f) \in Nat
      <4>1. v[e] \in T /\ g = f \o <<v[e]>>
        BY <2>2, <2>6, <2>8
      <4>2. g = Append(f, v[e])
        BY <4>1, <2>2, AppendIsConcat
      <4> QED BY <4>1, <4>2, <2>2, AppendIs
    <3>3. RankIn(E, n + 1) = Len(f) + 1
      <4>2. \A j \in D \cup {n + 1} : j <= n + 1
        BY <2>1, <2>3
      <4>3. \A j \in E : j <= n + 1
        BY <4>2, <2>4
      <4>1. {j \in E : j <= n + 1} = E
        BY <4>3
      <4> QED BY <4>1, <3>1, <2>3 DEF RankIn
    <3>4. E = D \cup {n + 1}
      BY <2>4, <2>6
    <3>8. \A i \in D : RankIn(E, i) \in 1..Len(f) /\ f[RankIn(E, i)] = v[a[i]]
      BY <2>3, <2>5
    <3>9. 1..Len(g) = 1..Len(f) \cup {Len(f) + 1}
      BY <3>2
    <3>10. \A i \in D : RankIn(E, i) \in 1..Len(g) /\ g[RankIn(E, i)] = v[a[i]]
      BY <3>2, <3>8, <3>9
    <3>11. RankIn(E, n + 1) \in 1..Len(g) /\ g[RankIn(E, n + 1)] = v[a[n + 1]]
      BY <3>2, <3>3, <3>9, <2>1
    <3>5. \A i \in E : RankIn(E, i) \in 1..Len(g) /\ g[RankIn(E, i)] = v[a[i]]
      BY <3>4, <3>10, <3>11
    <3>6. ASSUME NEW x \in 1..Len(g) PROVE \E i \in E : RankIn(E, i) = x
      <4>1. CASE x = Len(f) + 1
        BY <4>1, <3>3, <3>4
      <4>2. CASE x # Len(f) + 1
        <5>1. x \in 1..Len(f)
          BY <4>2, <3>2
        <5>2. PICK i \in D : RankIn(D, i) = x
          BY <5>1, <2>3
        <5> QED BY <5>2, <2>5, <3>4
      <4> QED BY <4>1, <4>2
    <3>7. Good(a)
      BY <3>1, <3>2, <2>3, <3>5, <3>6 DEF E, g
    <3> HIDE DEF Good
    <3> QED BY <3>7, <2>1 DEF a
  <2>7. CASE e \notin A
    <3>1. g = f
      <4>1. g = f \o <<>>
        BY <2>2, <2>7, <2>8
      <4> QED BY <4>1, <2>2, ConcatEmptySeq
    <3>2. E = D
      BY <2>4, <2>7
    <3>3. \A i \in E : RankIn(E, i) \in 1..Len(g) /\ g[RankIn(E, i)] = v[a[i]]
      BY <3>1, <3>2, <2>3, <2>5
    <3>4. Good(a)
      BY <3>1, <3>2, <3>3, <2>2, <2>3 DEF E, g
    <3> HIDE DEF Good
    <3> QED BY <3>4, <2>1 DEF a
  <2> QED BY <2>6, <2>7
<1>3. Seq(S) \subseteq P
  <2> HIDE DEF P
  <2> QED BY <1>1, <1>2, SeqSetInduction
<1>4. Good(s)
  BY <1>3
<1> QED BY <1>4 DEF AtItsRank

\* The i-th part of a flattened sequence begins after w[i - 1] elements.
JoinedAt(w, ss) == w[0] = 0 /\ \A i \in 1..Len(ss) : w[i] \in Nat /\ w[i] = w[i - 1] + Len(ss[i])

\* Each element of each list is in the joined list, at its place.
LEMMA FlattenAt ==
  ASSUME NEW S, NEW ss \in Seq(Seq(S)), NEW w, JoinedAt(w, ss)
  PROVE  /\ FlattenSeq(ss) \in Seq(S) /\ Len(FlattenSeq(ss)) = w[Len(ss)]
         /\ \A i \in 1..Len(ss) : \A k \in 1..Len(ss[i]) :
                w[i - 1] + k \in 1..Len(FlattenSeq(ss)) /\ FlattenSeq(ss)[w[i - 1] + k] = ss[i][k]
<1> DEFINE Good(r) == /\ FlattenSeq(r) \in Seq(S) /\ Len(FlattenSeq(r)) = w[Len(r)]
                      /\ \A i \in 1..Len(r) : \A k \in 1..Len(r[i]) :
                            w[i - 1] + k \in 1..Len(FlattenSeq(r)) /\ FlattenSeq(r)[w[i - 1] + k] = r[i][k]
           P == {r \in Seq(Seq(S)) : JoinedAt(w, r) => Good(r)}
<1>1. <<>> \in P
  <2>1. <<>> \in Seq(Seq(S)) /\ Len(<<>>) = 0 /\ <<>> \in Seq(S)
    OBVIOUS
  <2> DEFINE z == <<>>
  <2>2. z \in Seq(Seq(S)) /\ Len(z) = 0 /\ z \in Seq(S) /\ FlattenSeq(z) = z /\ 1..0 = {}
    BY <2>1, FlattenEmpty
  <2> HIDE DEF z
  <2>3. JoinedAt(w, z) => Good(z)
    BY <2>2 DEF JoinedAt
  <2> HIDE DEF Good
  <2>4. z \in P
    BY <2>2, <2>3
  <2> QED BY <2>4 DEF z
<1>2. ASSUME NEW r \in Seq(Seq(S)), NEW t \in Seq(S), r \in P PROVE Append(r, t) \in P
  <2> DEFINE a == Append(r, t)
             n == Len(r)
             f == FlattenSeq(r)
             g == FlattenSeq(a)
  <2>1. /\ a \in Seq(Seq(S)) /\ n \in Nat /\ Len(a) = n + 1 /\ a[n + 1] = t
        /\ \A i \in 1..n : a[i] = r[i]
    BY AppendIs
  <2>2. f \in Seq(S) /\ g = f \o t
    BY FlattenAppend
  <2> HIDE DEF a
  <2>3. ASSUME JoinedAt(w, a) PROVE Good(a)
    <3>1. JoinedAt(w, r)
      <4>1. \A i \in 1..n : i \in 1..Len(a)
        BY <2>1
      <4> QED BY <4>1, <2>1, <2>3 DEF JoinedAt
    <3>2. Good(r)
      BY <3>1, <1>2
    <3>3. w[n + 1] = w[n] + Len(t) /\ Len(t) \in Nat
      <4>1. n + 1 \in 1..Len(a) /\ (n + 1) - 1 = n
        BY <2>1
      <4> DEFINE m == n + 1
      <4>2. m \in 1..Len(a) /\ m - 1 = n /\ a[m] = t
        BY <4>1, <2>1
      <4> HIDE DEF m
      <4>3. w[m] \in Nat /\ w[m] = w[m - 1] + Len(a[m])
        BY <4>2, <2>3 DEF JoinedAt
      <4>4. w[m] = w[n] + Len(t)
        BY <4>2, <4>3
      <4> QED BY <4>4 DEF m
    <3>4. Len(f) = w[n]
      BY <3>2
    <3> HIDE DEF f, g
    <3>5. /\ g \in Seq(S) /\ Len(f) \in Nat /\ Len(g) = Len(f) + Len(t)
          /\ \A i \in 1..Len(f) : g[i] = f[i]
          /\ \A i \in 1..Len(t) : g[Len(f) + i] = t[i]
      BY <2>2, ConcatIs
    <3>6. ASSUME NEW i \in 1..n + 1, NEW k \in 1..Len(a[i])
          PROVE  w[i - 1] + k \in 1..Len(g) /\ g[w[i - 1] + k] = a[i][k]
      <4>1. CASE i = n + 1
        <5>1. w[i - 1] = Len(f) /\ k \in 1..Len(t) /\ a[i][k] = t[k]
          BY <4>1, <2>1, <3>4
        <5>2. Len(f) + k \in 1..Len(g)
          BY <5>1, <3>5, <3>3
        <5> QED BY <5>1, <5>2, <3>5
      <4>2. CASE i # n + 1
        <5>1. i \in 1..n /\ a[i] = r[i]
          BY <4>2, <2>1, SMTT(30)
        <5>2. w[i - 1] + k \in 1..Len(f) /\ f[w[i - 1] + k] = r[i][k]
          BY <5>1, <3>2 DEF f
        <5>3. w[i - 1] + k \in 1..Len(g)
          BY <5>2, <3>3, <3>5
        <5> QED BY <5>1, <5>2, <5>3, <3>5
      <4> QED BY <4>1, <4>2
    <3> QED BY <3>3, <3>4, <3>5, <3>6, <2>1 DEF g
  <2> QED BY <2>1, <2>3 DEF a
<1>3. Seq(Seq(S)) \subseteq P
  <2> HIDE DEF P
  <2> QED BY <1>1, <1>2, SeqSetInduction
<1> QED BY <1>3

\* Two elements, put as a sequence that grew by one.
LEMMA PairAppended ==
  ASSUME NEW S, NEW d \in S, NEW e \in S
  PROVE  Append(<<d>>, e) = <<d, e>>
<1> DEFINE a == Append(<<d>>, e)
           b == <<d, e>>
           one == <<d>>
<1>1. one \in Seq(S) /\ Len(one) = 1 /\ one[1] = d
  OBVIOUS
<1>2. b \in Seq(S) /\ Len(b) = 2 /\ b[1] = d /\ b[2] = e
  OBVIOUS
<1> HIDE DEF one, b
<1>3. a \in Seq(S) /\ Len(one) \in Nat /\ Len(a) = Len(one) + 1 /\ a[Len(one) + 1] = e /\ \A i \in 1..Len(one) : a[i] = one[i] /\ one[i] \in S
  BY <1>1, AppendIs DEF one
<1> HIDE DEF a
<1>4. Len(a) = 2 /\ a[1] = d /\ a[2] = e
  BY <1>1, <1>3
<1>5. \A i \in 1..2 : i = 1 \/ i = 2
  OBVIOUS
<1>6. \A i \in 1..Len(a) : a[i] = b[i]
  BY <1>2, <1>4, <1>5
<1>7. a = b
  BY <1>2, <1>3, <1>4, <1>6, SeqEqual
<1> QED BY <1>7 DEF a, b

\* The first k elements of a sequence: none, all, and one more.
LEMMA PrefixGrows ==
  ASSUME NEW S, NEW s \in Seq(S)
  PROVE  /\ [i \in 1..0 |-> s[i]] = <<>> /\ [i \in 1..Len(s) |-> s[i]] = s
         /\ \A k \in Nat : k + 1 <= Len(s) => /\ [i \in 1..k |-> s[i]] \in Seq(S) /\ s[k + 1] \in S
                                              /\ [i \in 1..k + 1 |-> s[i]] = Append([i \in 1..k |-> s[i]], s[k + 1])
<1>1. [i \in 1..0 |-> s[i]] = <<>>
  OBVIOUS
<1>2. [i \in 1..Len(s) |-> s[i]] = s
  OBVIOUS
<1>3. ASSUME NEW k \in Nat, k + 1 <= Len(s)
      PROVE  /\ [i \in 1..k |-> s[i]] \in Seq(S) /\ s[k + 1] \in S
             /\ [i \in 1..k + 1 |-> s[i]] = Append([i \in 1..k |-> s[i]], s[k + 1])
  <2> DEFINE r == [i \in 1..k |-> s[i]]
             a == [i \in 1..k + 1 |-> s[i]]
             b == Append(r, s[k + 1])
  <2>1. \A i \in 1..k + 1 : s[i] \in S
    BY <1>3
  <2>2. r \in Seq(S) /\ Len(r) = k /\ a \in Seq(S) /\ Len(a) = k + 1 /\ s[k + 1] \in S
    BY <2>1
  <2>3. (\A i \in 1..k : r[i] = s[i]) /\ \A i \in 1..k + 1 : a[i] = s[i]
    OBVIOUS
  <2> HIDE DEF r, a
  <2>4. /\ b \in Seq(S) /\ Len(r) \in Nat /\ Len(b) = Len(r) + 1 /\ b[Len(r) + 1] = s[k + 1]
        /\ \A i \in 1..Len(r) : b[i] = r[i] /\ r[i] \in S
    BY <2>2, AppendIs, SMTT(30)
  <2> HIDE DEF b
  <2>5. \A i \in 1..k + 1 : i \in 1..k \/ i = k + 1
    OBVIOUS
  <2>6. \A i \in 1..Len(a) : a[i] = b[i]
    BY <2>2, <2>3, <2>4, <2>5
  <2>7. a = b
    BY <2>2, <2>4, <2>6, SeqEqual
  <2> QED BY <2>2, <2>7 DEF a, b, r
<1> QED BY <1>1, <1>2, <1>3
=============================================================================
