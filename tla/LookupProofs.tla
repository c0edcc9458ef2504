---------------------------- MODULE LookupProofs ----------------------------
(***************************************************************************)
(* Proofs about Lookup, for every text, all dictionaries, packs and        *)
(* requests, and whatever the processors and the deinflector make of it.   *)
(***************************************************************************)
EXTENDS Lookup, SequenceFacts

-----------------------------------------------------------------------------
(* Those, and adding hits one by one.                                      *)

\* Those keeps what is in S, in any order R that the sequence is in.
LEMMA ThoseKeeps ==
  ASSUME NEW X, NEW s \in Seq(X), NEW S
  PROVE  /\ Those(s, S) \in Seq(X)
         /\ \A e : e \in ToSet(Those(s, S)) <=> e \in ToSet(s) /\ e \in S
         /\ \A R : (\A i, j \in 1..Len(s) : i < j => <<s[i], s[j]>> \in R)
              => \A i, j \in 1..Len(Those(s, S)) : i < j => <<Those(s, S)[i], Those(s, S)[j]>> \in R
<1> DEFINE ss == [i \in DOMAIN s |-> IF s[i] \in S THEN <<s[i]>> ELSE <<>>]
<1>1. Len(s) \in Nat /\ DOMAIN s = 1..Len(s) /\ \A i \in 1..Len(s) : s[i] \in X
  OBVIOUS
<1>2. \A i \in 1..Len(s) : (IF s[i] \in S THEN <<s[i]>> ELSE <<>>) \in Seq(X)
  BY <1>1
<1>3. ss \in Seq(Seq(X)) /\ Len(ss) = Len(s)
  BY <1>1, <1>2
<1>4. /\ \A i \in 1..Len(ss) : ToSet(ss[i]) = IF s[i] \in S THEN {s[i]} ELSE {}
      /\ \A i \in 1..Len(ss) : Len(ss[i]) <= 1 /\ Len(ss[i]) \in Nat
  <2> SUFFICES ASSUME NEW i \in 1..Len(ss)
               PROVE  ToSet(ss[i]) = (IF s[i] \in S THEN {s[i]} ELSE {}) /\ Len(ss[i]) <= 1 /\ Len(ss[i]) \in Nat
    OBVIOUS
  <2>1. CASE s[i] \in S
    <3>1. ss[i] = <<s[i]>>
      BY <1>1, <1>3, <2>1
    <3> QED BY <3>1, <2>1 DEF ToSet
  <2>2. CASE s[i] \notin S
    <3>1. ss[i] = <<>>
      BY <1>1, <1>3, <2>2
    <3> QED BY <3>1, <2>2 DEF ToSet
  <2> QED BY <2>1, <2>2
<1>5. Those(s, S) = FlattenSeq(ss)
  BY DEF Those
<1> HIDE DEF ss
<1>6. FlattenSeq(ss) \in Seq(X)
  BY <1>3, FlattenAppend, EmptySeq
<1>7. \A e : e \in ToSet(Those(s, S)) <=> e \in ToSet(s) /\ e \in S
  <2>1. \A e : e \in ToSet(s) <=> \E i \in 1..Len(s) : e = s[i]
    BY <1>1 DEF ToSet
  <2>2. \A i \in 1..Len(ss) : \A e : e \in ToSet(ss[i]) <=> s[i] \in S /\ e = s[i]
    BY <1>4
  <2>3. \A e : e \in ToSet(FlattenSeq(ss)) <=> \E i \in 1..Len(ss) : e \in ToSet(ss[i])
    BY <1>3, FlattenSeqSet
  <2>4. ASSUME NEW e PROVE e \in ToSet(FlattenSeq(ss)) <=> \E i \in 1..Len(s) : s[i] \in S /\ e = s[i]
    BY <2>2, <2>3, <1>3
  <2> QED BY <2>1, <2>4, <1>5
<1>8. ASSUME NEW R, \A i, j \in 1..Len(s) : i < j => <<s[i], s[j]>> \in R
      PROVE  \A i, j \in 1..Len(Those(s, S)) : i < j => <<Those(s, S)[i], Those(s, S)[j]>> \in R
  <2>1. \A i \in 1..Len(ss) : \A k, l \in 1..Len(ss[i]) : k < l => <<ss[i][k], ss[i][l]>> \in R
    BY <1>4
  <2>2. \A i, j \in 1..Len(ss) : i < j => \A d \in ToSet(ss[i]), e \in ToSet(ss[j]) : <<d, e>> \in R
    BY <1>3, <1>4, <1>8
  <2> QED BY <2>1, <2>2, <1>3, <1>5, FlattenOrdered
<1> QED BY <1>5, <1>6, <1>7, <1>8

\* AddAll adds the hits one by one; a property that every Add keeps is kept.
LEMMA AddAllSteps ==
  ASSUME NEW P, NEW f \in P, NEW H, NEW hs \in Seq(H), \A g \in P, h \in H : Add(g, h) \in P
  PROVE  \E a \in [0..Len(hs) -> P] : /\ a[0] = f
                                      /\ \A i \in 1..Len(hs) : a[i] = Add(a[i - 1], hs[i])
                                      /\ AddAll(f, hs) = a[Len(hs)]
<1> DEFINE n == Len(hs)
           Runs(a, k) == a = [i \in 0..k |-> IF i = 0 THEN f ELSE Add(a[i - 1], hs[i])]
           T == {k \in Nat : k <= n => \E a \in [0..k -> P] : Runs(a, k)}
<1>1. n \in Nat /\ \A i \in 1..n : hs[i] \in H
  OBVIOUS
<1>2. 0 \in T
  <2> DEFINE a == [i \in 0..0 |-> f]
  <2>1. a \in [0..0 -> P]
    OBVIOUS
  <2>2. a = [i \in 0..0 |-> IF i = 0 THEN f ELSE Add(a[i - 1], hs[i])]
    <3>1. \A i \in 0..0 : i = 0
      OBVIOUS
    <3> QED BY <3>1
  <2>3. Runs(a, 0)
    BY <2>2
  <2> QED BY <2>1, <2>3
<1>3. ASSUME NEW k \in Nat, k \in T PROVE k + 1 \in T
  <2> SUFFICES ASSUME k + 1 <= n PROVE \E b \in [0..k + 1 -> P] : Runs(b, k + 1)
    BY <1>1
  <2>1. PICK a \in [0..k -> P] : Runs(a, k)
    BY <1>1, <1>3
  <2> DEFINE b == [i \in 0..k + 1 |-> IF i = k + 1 THEN Add(a[k], hs[k + 1]) ELSE a[i]]
  <2>2. k + 1 \in 1..n /\ a[k] \in P /\ hs[k + 1] \in H
    BY <1>1
  <2>3. b \in [0..k + 1 -> P]
    <3>1. Add(a[k], hs[k + 1]) \in P
      BY <2>2
    <3>2. \A i \in 0..k + 1 : i # k + 1 => a[i] \in P
      OBVIOUS
    <3> QED BY <3>1, <3>2
  <2>4. \A i \in 0..k + 1 : b[i] = IF i = 0 THEN f ELSE Add(b[i - 1], hs[i])
    <3> SUFFICES ASSUME NEW i \in 0..k + 1 PROVE b[i] = IF i = 0 THEN f ELSE Add(b[i - 1], hs[i])
      OBVIOUS
    <3>1. CASE i = k + 1
      <4>1. i # 0 /\ i - 1 = k /\ b[i - 1] = a[k] /\ b[i] = Add(a[k], hs[k + 1])
        BY <3>1
      <4> QED BY <4>1, <3>1
    <3>2. CASE i # k + 1
      <4>1. i \in 0..k /\ b[i] = a[i] /\ (i # 0 => i - 1 \in 0..k /\ b[i - 1] = a[i - 1])
        BY <3>2
      <4>2. a[i] = IF i = 0 THEN f ELSE Add(a[i - 1], hs[i])
        BY <2>1, <4>1
      <4> QED BY <4>1, <4>2
    <3> QED BY <3>1, <3>2
  <2>5. Runs(b, k + 1)
    <3> HIDE DEF b
    <3>1. b = [i \in 0..k + 1 |-> b[i]]
      BY <2>3
    <3> QED BY <3>1, <2>4
  <2> QED BY <2>3, <2>5
<1>4. PICK a \in [0..n -> P] : Runs(a, n)
  <2> HIDE DEF T
  <2>1. Nat \subseteq T
    BY <1>2, <1>3, NatSetInduction
  <2>2. n \in T
    BY <2>1, <1>1
  <2> QED BY <2>2, <1>1 DEF T
<1>5. a[0] = f /\ \A i \in 1..n : a[i] = Add(a[i - 1], hs[i])
  <2>1. \A i \in 0..n : a[i] = IF i = 0 THEN f ELSE Add(a[i - 1], hs[i])
    BY <1>4
  <2> QED BY <2>1, <1>1
<1> DEFINE F == CHOOSE F : F = [i \in 0..n |-> IF i = 0 THEN f ELSE Add(F[i - 1], hs[i])]
<1>6. AddAll(f, hs) = F[n]
  BY DEF AddAll
<1>7. F = [i \in 0..n |-> IF i = 0 THEN f ELSE Add(F[i - 1], hs[i])]
  BY <1>4
<1> HIDE DEF F
<1>8. \A i \in 0..n : F[i] = IF i = 0 THEN f ELSE Add(F[i - 1], hs[i])
  BY <1>7
<1>9. F[n] = a[n]
  <2> DEFINE U == {i \in Nat : i <= n => F[i] = a[i]}
  <2>1. 0 \in U
    BY <1>1, <1>5, <1>8
  <2>2. ASSUME NEW i \in Nat, i \in U PROVE i + 1 \in U
    <3> SUFFICES ASSUME i + 1 <= n PROVE F[i + 1] = a[i + 1]
      OBVIOUS
    <3>1. i + 1 \in 0..n /\ i + 1 \in 1..n /\ i + 1 # 0 /\ (i + 1) - 1 = i /\ F[i] = a[i]
      BY <1>1, <2>2
    <3>2. F[i + 1] = Add(F[i], hs[i + 1]) /\ a[i + 1] = Add(a[i], hs[i + 1])
      BY <3>1, <1>5, <1>8
    <3> QED BY <3>1, <3>2
  <2> HIDE DEF U
  <2>3. n \in U
    BY <1>1, <2>1, <2>2, NatSetInduction
  <2> QED BY <2>3, <1>1 DEF U
<1> QED BY <1>4, <1>5, <1>6, <1>9

LEMMA AddAllKeeps ==
  ASSUME NEW P, NEW f \in P, NEW H, NEW hs \in Seq(H), \A g \in P, h \in H : Add(g, h) \in P
  PROVE  AddAll(f, hs) \in P
<1>1. PICK a \in [0..Len(hs) -> P] : AddAll(f, hs) = a[Len(hs)]
  BY AddAllSteps
<1> QED BY <1>1

-----------------------------------------------------------------------------
(* What a candidate remembers of its hits.                                 *)

Hits == [term : Terms, len : 1..TextLen, form : Forms, steps : Nat, depth : Nat, whole : BOOLEAN,
            reference : BOOLEAN, confirms : BOOLEAN, sequence : Nat, glossary : BOOLEAN, rank : Nat]
Candidates == [term : Terms, glossary : BOOLEAN, rank : Nat, len : 1..TextLen, form : Forms, steps : Nat,
               depth : Nat, reference : BOOLEAN, confirmed_len : Nat, confirmed_rank : Nat, whole_word_len : Nat]
Founds == [candidates : Seq(Candidates), hits : Seq(Hits)]

\* hit i is better than hit j: longer, or as long and cheaper, or earlier
Cheaper(shortest, hs, i, j) ==
  IF shortest THEN \/ hs[i].steps < hs[j].steps
                   \/ hs[i].steps = hs[j].steps /\ hs[i].depth < hs[j].depth
                   \/ hs[i].steps = hs[j].steps /\ hs[i].depth = hs[j].depth /\ i < j
  ELSE i < j
Beats(shortest, hs, i, j) ==
  hs[i].len > hs[j].len \/ (hs[i].len = hs[j].len /\ Cheaper(shortest, hs, i, j))

Own(c, hs) == {i \in 1..Len(hs) : hs[i].term = c.term}

TraceOfBest(shortest, c, hs) ==
  \E i \in Own(c, hs) : /\ hs[i].len = c.len /\ hs[i].form = c.form /\ hs[i].steps = c.steps
                        /\ hs[i].depth = c.depth /\ hs[i].reference = c.reference
                        /\ \A j \in Own(c, hs) : j # i => Beats(shortest, hs, i, j)
ConfirmedByFirst(c, hs) ==
  /\ \A j \in Own(c, hs) : hs[j].confirms =>
       /\ hs[j].len <= c.confirmed_len
       /\ hs[j].len = c.confirmed_len => c.confirmed_rank <= hs[j].sequence
  /\ c.confirmed_len # 0 =>
       \E j \in Own(c, hs) : hs[j].confirms /\ hs[j].len = c.confirmed_len /\ hs[j].sequence = c.confirmed_rank
WholeByLongest(c, hs) ==
  /\ \A j \in Own(c, hs) : hs[j].whole => hs[j].len <= c.whole_word_len
  /\ c.whole_word_len # 0 => \E j \in Own(c, hs) : hs[j].whole /\ hs[j].len = c.whole_word_len
Remembers(shortest, c, hs) ==
  TraceOfBest(shortest, c, hs) /\ ConfirmedByFirst(c, hs) /\ WholeByLongest(c, hs)

Agree(shortest, f) ==
  /\ \A i, j \in 1..Len(f.candidates) : f.candidates[i].term = f.candidates[j].term => i = j
  /\ \A k \in 1..Len(f.hits) : \E i \in 1..Len(f.candidates) : f.candidates[i].term = f.hits[k].term
  /\ \A i \in 1..Len(f.candidates) : Remembers(shortest, f.candidates[i], f.hits)

-----------------------------------------------------------------------------
(* Adding a hit.                                                           *)

\* What Take makes of a candidate, field by field.
LEMMA TakeIs ==
  ASSUME NEW c \in Candidates, NEW h \in Hits, NEW d, d = Take(c, h)
  PROVE  /\ d \in Candidates
         /\ d.term = c.term /\ d.glossary = c.glossary /\ d.rank = c.rank
         /\ IF Better(h, c)
            THEN d.len = h.len /\ d.form = h.form /\ d.steps = h.steps /\ d.depth = h.depth /\ d.reference = h.reference
            ELSE d.len = c.len /\ d.form = c.form /\ d.steps = c.steps /\ d.depth = c.depth /\ d.reference = c.reference
         /\ IF h.confirms /\ h.len >= c.confirmed_len
            THEN /\ d.confirmed_len = h.len
                 /\ d.confirmed_rank = IF h.len > c.confirmed_len THEN h.sequence ELSE Least(c.confirmed_rank, h.sequence)
            ELSE d.confirmed_len = c.confirmed_len /\ d.confirmed_rank = c.confirmed_rank
         /\ d.whole_word_len = IF h.whole THEN Most(c.whole_word_len, h.len) ELSE c.whole_word_len
<1> DEFINE b == Confirm(c, h)
           k == [b EXCEPT !.whole_word_len = IF h.whole THEN Most(@, h.len) ELSE @]
<1>1. h.len \in Nat /\ h.sequence \in Nat /\ c.confirmed_len \in Nat /\ c.confirmed_rank \in Nat /\ c.whole_word_len \in Nat
  BY DEF Hits, Candidates
<1>2. Least(c.confirmed_rank, h.sequence) \in Nat /\ Most(c.whole_word_len, h.len) \in Nat
  BY <1>1 DEF Least, Most
<1>3. /\ b \in Candidates
      /\ b.term = c.term /\ b.glossary = c.glossary /\ b.rank = c.rank
      /\ b.len = c.len /\ b.form = c.form /\ b.steps = c.steps /\ b.depth = c.depth /\ b.reference = c.reference
      /\ b.whole_word_len = c.whole_word_len
      /\ IF h.confirms /\ h.len >= c.confirmed_len
         THEN /\ b.confirmed_len = h.len
              /\ b.confirmed_rank = IF h.len > c.confirmed_len THEN h.sequence ELSE Least(c.confirmed_rank, h.sequence)
         ELSE b.confirmed_len = c.confirmed_len /\ b.confirmed_rank = c.confirmed_rank
  <2>1. CASE h.confirms /\ h.len >= c.confirmed_len
    <3>1. b = [c EXCEPT !.confirmed_len = h.len,
                        !.confirmed_rank = IF h.len > c.confirmed_len THEN h.sequence ELSE Least(c.confirmed_rank, h.sequence)]
      BY <2>1, <1>1 DEF Confirm
    <3> HIDE DEF b
    <3> QED BY <3>1, <2>1, <1>1, <1>2 DEF Candidates
  <2>2. CASE ~(h.confirms /\ h.len >= c.confirmed_len)
    <3>1. b = c
      BY <2>2, <1>1 DEF Confirm
    <3> HIDE DEF b
    <3> QED BY <3>1, <2>2
  <2> QED BY <2>1, <2>2
<1>4. d = IF Better(h, c) THEN Retrace(k, h) ELSE k
  BY DEF Take
<1> HIDE DEF b
<1>5. /\ k \in Candidates
      /\ k.term = b.term /\ k.glossary = b.glossary /\ k.rank = b.rank
      /\ k.len = b.len /\ k.form = b.form /\ k.steps = b.steps /\ k.depth = b.depth /\ k.reference = b.reference
      /\ k.confirmed_len = b.confirmed_len /\ k.confirmed_rank = b.confirmed_rank
      /\ k.whole_word_len = IF h.whole THEN Most(c.whole_word_len, h.len) ELSE c.whole_word_len
  BY <1>2, <1>3 DEF Candidates
<1> HIDE DEF k
<1>6. CASE Better(h, c)
  <2>1. d = [k EXCEPT !.len = h.len, !.form = h.form, !.steps = h.steps, !.depth = h.depth, !.reference = h.reference]
    BY <1>4, <1>6 DEF Retrace
  <2>2. /\ d \in Candidates
        /\ d.term = k.term /\ d.glossary = k.glossary /\ d.rank = k.rank
        /\ d.len = h.len /\ d.form = h.form /\ d.steps = h.steps /\ d.depth = h.depth /\ d.reference = h.reference
        /\ d.confirmed_len = k.confirmed_len /\ d.confirmed_rank = k.confirmed_rank /\ d.whole_word_len = k.whole_word_len
    BY <2>1, <1>5 DEF Candidates, Hits
  <2> QED BY <2>2, <1>3, <1>5, <1>6
<1>7. CASE ~Better(h, c)
  BY <1>3, <1>4, <1>5, <1>7
<1> QED BY <1>6, <1>7

\* The hits of one key, with one more at the end.
LEMMA OwnAppend ==
  ASSUME NEW hs \in Seq(Hits), NEW h \in Hits, NEW c \in Candidates
  PROVE  /\ Len(hs) \in Nat /\ Append(hs, h) \in Seq(Hits) /\ Len(Append(hs, h)) = Len(hs) + 1
         /\ Append(hs, h)[Len(hs) + 1] = h /\ \A i \in 1..Len(hs) : Append(hs, h)[i] = hs[i]
         /\ h.term = c.term => Own(c, Append(hs, h)) = Own(c, hs) \cup {Len(hs) + 1}
         /\ h.term # c.term => Own(c, Append(hs, h)) = Own(c, hs)
         /\ \A i \in Own(c, hs) : i \in 1..Len(hs) /\ i < Len(hs) + 1 /\ Append(hs, h)[i] = hs[i] /\ hs[i] \in Hits
<1> DEFINE a == Append(hs, h)
<1>1. /\ Len(hs) \in Nat /\ a \in Seq(Hits) /\ Len(a) = Len(hs) + 1
      /\ a[Len(hs) + 1] = h /\ \A i \in 1..Len(hs) : a[i] = hs[i] /\ hs[i] \in Hits
  BY AppendProperties
<1> HIDE DEF a
<1>2. \A i : i \in Own(c, a) <=> i \in 1..Len(hs) + 1 /\ a[i].term = c.term
  BY <1>1 DEF Own
<1>3. \A i : i \in Own(c, hs) <=> i \in 1..Len(hs) /\ hs[i].term = c.term
  BY DEF Own
<1>4. \A i : i \in Own(c, a) <=> i \in Own(c, hs) \/ (i = Len(hs) + 1 /\ h.term = c.term)
  BY <1>1, <1>2, <1>3
<1>5. /\ h.term = c.term => Own(c, a) = Own(c, hs) \cup {Len(hs) + 1}
      /\ h.term # c.term => Own(c, a) = Own(c, hs)
  BY <1>4
<1>6. \A i \in Own(c, hs) : i \in 1..Len(hs) /\ i < Len(hs) + 1 /\ a[i] = hs[i] /\ hs[i] \in Hits
  BY <1>1, <1>3
<1> QED BY <1>1, <1>5, <1>6 DEF a

LEMMA RemembersOther ==
  ASSUME NEW hs \in Seq(Hits), NEW h \in Hits, NEW c \in Candidates, NEW shortest,
         h.term # c.term, Remembers(shortest, c, hs)
  PROVE  Remembers(shortest, c, Append(hs, h))
<1> DEFINE a == Append(hs, h)
<1>1. Own(c, a) = Own(c, hs) /\ \A i \in Own(c, hs) : a[i] = hs[i]
  BY OwnAppend
<1> HIDE DEF a
<1>2. TraceOfBest(shortest, c, a)
  BY <1>1 DEF Remembers, TraceOfBest, Beats, Cheaper
<1>3. ConfirmedByFirst(c, a)
  BY <1>1 DEF Remembers, ConfirmedByFirst
<1>4. WholeByLongest(c, a)
  BY <1>1 DEF Remembers, WholeByLongest
<1> QED BY <1>2, <1>3, <1>4 DEF a, Remembers

LEMMA RemembersTaken ==
  ASSUME NEW hs \in Seq(Hits), NEW h \in Hits, NEW c \in Candidates,
         h.term = c.term, Remembers(ask.shortest, c, hs)
  PROVE  Remembers(ask.shortest, Take(c, h), Append(hs, h))
<1> DEFINE a == Append(hs, h)
           d == Take(c, h)
           n == Len(hs)
           shortest == ask.shortest
<1>1. /\ n \in Nat /\ a[n + 1] = h
      /\ Own(c, a) = Own(c, hs) \cup {n + 1}
      /\ \A i \in Own(c, hs) : i \in 1..n /\ i < n + 1 /\ a[i] = hs[i] /\ hs[i] \in Hits
  BY OwnAppend
<1>2. /\ d \in Candidates
      /\ d.term = c.term
      /\ IF Better(h, c)
         THEN d.len = h.len /\ d.form = h.form /\ d.steps = h.steps /\ d.depth = h.depth /\ d.reference = h.reference
         ELSE d.len = c.len /\ d.form = c.form /\ d.steps = c.steps /\ d.depth = c.depth /\ d.reference = c.reference
      /\ IF h.confirms /\ h.len >= c.confirmed_len
         THEN /\ d.confirmed_len = h.len
              /\ d.confirmed_rank = IF h.len > c.confirmed_len THEN h.sequence ELSE Least(c.confirmed_rank, h.sequence)
         ELSE d.confirmed_len = c.confirmed_len /\ d.confirmed_rank = c.confirmed_rank
      /\ d.whole_word_len = IF h.whole THEN Most(c.whole_word_len, h.len) ELSE c.whole_word_len
  BY TakeIs
<1> HIDE DEF d, a
<1>3. Own(d, a) = Own(c, hs) \cup {n + 1} /\ n + 1 \notin Own(c, hs)
  <2>1. Own(d, a) = Own(c, a)
    BY <1>2 DEF Own
  <2> QED BY <2>1, <1>1
<1>4. \A i \in Own(d, a) : /\ a[i] \in Hits /\ i \in Nat
                           /\ a[i].len \in Nat /\ a[i].steps \in Nat /\ a[i].depth \in Nat /\ a[i].sequence \in Nat
  <2>1. \A i \in Own(d, a) : a[i] \in Hits /\ i \in Nat
    BY <1>1, <1>3
  <2> QED BY <2>1 DEF Hits
<1>5. /\ c.len \in Nat /\ c.steps \in Nat /\ c.depth \in Nat /\ c.confirmed_len \in Nat /\ c.confirmed_rank \in Nat
      /\ c.whole_word_len \in Nat /\ h.len \in Nat /\ h.len > 0 /\ h.sequence \in Nat /\ h.steps \in Nat /\ h.depth \in Nat
  BY DEF Candidates, Hits
<1>6. TraceOfBest(shortest, d, a)
  <2>1. PICK i \in Own(c, hs) :
          /\ hs[i].len = c.len /\ hs[i].form = c.form /\ hs[i].steps = c.steps
          /\ hs[i].depth = c.depth /\ hs[i].reference = c.reference
          /\ \A j \in Own(c, hs) : j # i => Beats(shortest, hs, i, j)
    BY DEF Remembers, TraceOfBest
  <2>2. i \in Own(d, a) /\ n + 1 \in Own(d, a) /\ a[i] = hs[i] /\ i < n + 1
    BY <1>1, <1>3
  <2>3. \A j \in Own(c, hs) : j # i => Beats(shortest, a, i, j)
    BY <1>1, <2>1 DEF Beats, Cheaper
  <2>4. CASE Better(h, c)
    <3>1. Beats(shortest, a, n + 1, i)
      BY <2>4, <2>1, <2>2, <1>1, <1>5 DEF Better, Beats, Cheaper
    <3>2. \A j \in Own(c, hs) : Beats(shortest, a, n + 1, j)
      <4> SUFFICES ASSUME NEW j \in Own(c, hs), j # i PROVE Beats(shortest, a, n + 1, j)
        BY <3>1
      <4>1. Beats(shortest, a, i, j)
        BY <2>3
      <4>2. j \in Own(d, a) /\ j < n + 1
        BY <1>1, <1>3
      <4>3. h.len > a[i].len \/ (h.len = a[i].len /\ shortest /\
              (h.steps < a[i].steps \/ (h.steps = a[i].steps /\ h.depth < a[i].depth)))
        BY <2>4, <2>1, <2>2 DEF Better
      <4>4. /\ a[n + 1] = h /\ a[i].len \in Nat /\ a[i].steps \in Nat /\ a[i].depth \in Nat
            /\ a[j].len \in Nat /\ a[j].steps \in Nat /\ a[j].depth \in Nat
        BY <4>2, <2>2, <1>1, <1>4
      <4>5. CASE a[i].len > a[j].len
        <5>1. h.len > a[i].len \/ h.len = a[i].len
          BY <4>3
        <5>2. h.len > a[j].len
          BY <5>1, <4>4, <4>5, <1>5, SMTT(30)
        <5> QED BY <5>2, <4>4 DEF Beats
      <4>6. CASE a[i].len = a[j].len /\ Cheaper(shortest, a, i, j)
        <5>1. CASE h.len > a[i].len
          BY <5>1, <4>4, <4>6 DEF Beats
        <5>2. CASE ~(h.len > a[i].len)
          <6>1. shortest /\ h.len = a[i].len /\ (h.steps < a[i].steps \/ (h.steps = a[i].steps /\ h.depth < a[i].depth))
            BY <5>2, <4>3
          <6>2. \/ a[i].steps < a[j].steps
                \/ a[i].steps = a[j].steps /\ a[i].depth < a[j].depth
                \/ a[i].steps = a[j].steps /\ a[i].depth = a[j].depth
            BY <6>1, <4>6 DEF Cheaper
          <6>3. h.steps < a[j].steps \/ (h.steps = a[j].steps /\ h.depth < a[j].depth)
            <7>1. h.steps <= a[i].steps /\ (h.steps = a[i].steps => h.depth < a[i].depth)
              BY <6>1, <4>4, <1>5, SMTT(30)
            <7>2. CASE a[i].steps < a[j].steps
              BY <7>1, <7>2, <4>4, <1>5, SMTT(30)
            <7>3. CASE a[i].steps = a[j].steps /\ a[i].depth <= a[j].depth
              BY <7>1, <7>3, <4>4, <1>5, SMTT(30)
            <7> QED BY <7>2, <7>3, <6>2, <4>4
          <6>4. Cheaper(shortest, a, n + 1, j)
            BY <6>1, <6>3, <4>4 DEF Cheaper
          <6> QED BY <6>1, <6>4, <4>4, <4>6 DEF Beats
        <5> QED BY <5>1, <5>2
      <4> QED BY <4>1, <4>5, <4>6 DEF Beats
    <3>3. \A j \in Own(d, a) : j # n + 1 => Beats(shortest, a, n + 1, j)
      BY <3>2, <1>3
    <3> QED BY <3>3, <2>2, <2>4, <1>1, <1>2 DEF TraceOfBest
  <2>5. CASE ~Better(h, c)
    <3>1. Beats(shortest, a, i, n + 1)
      BY <2>5, <2>1, <2>2, <1>1, <1>4, <1>5 DEF Better, Beats, Cheaper
    <3>2. \A j \in Own(d, a) : j # i => Beats(shortest, a, i, j)
      BY <3>1, <2>3, <1>3
    <3> QED BY <3>2, <2>1, <2>2, <2>5, <1>2 DEF TraceOfBest
  <2> QED BY <2>4, <2>5
<1>7. ConfirmedByFirst(d, a)
  <2>1. /\ \A j \in Own(c, hs) : a[j].confirms =>
             /\ a[j].len <= c.confirmed_len
             /\ a[j].len = c.confirmed_len => c.confirmed_rank <= a[j].sequence
        /\ c.confirmed_len # 0 =>
             \E j \in Own(c, hs) : a[j].confirms /\ a[j].len = c.confirmed_len /\ a[j].sequence = c.confirmed_rank
    BY <1>1 DEF Remembers, ConfirmedByFirst
  <2>2. CASE h.confirms /\ h.len >= c.confirmed_len
    <3>1. d.confirmed_len = h.len /\ d.confirmed_len # 0
      BY <2>2, <1>2, <1>5
    <3>2. CASE h.len > c.confirmed_len
      <4>1. d.confirmed_rank = h.sequence
        BY <3>2, <2>2, <1>2
      <4>2. \A j \in Own(d, a) : a[j].confirms =>
              a[j].len <= h.len /\ (a[j].len = h.len => h.sequence <= a[j].sequence)
        BY <2>1, <3>2, <1>1, <1>3, <1>4, <1>5
      <4>3. \E j \in Own(d, a) : a[j].confirms /\ a[j].len = h.len /\ a[j].sequence = h.sequence
        BY <2>2, <1>1, <1>3
      <4> QED BY <3>1, <4>1, <4>2, <4>3 DEF ConfirmedByFirst
    <3>3. CASE h.len = c.confirmed_len
      <4>1. d.confirmed_rank = Least(c.confirmed_rank, h.sequence)
        BY <3>3, <2>2, <1>2, <1>5
      <4>2. \A j \in Own(d, a) : a[j].confirms =>
              a[j].len <= h.len /\ (a[j].len = h.len => d.confirmed_rank <= a[j].sequence)
        BY <2>1, <3>3, <4>1, <1>1, <1>3, <1>4, <1>5, SMTT(30) DEF Least
      <4>3. \E j \in Own(d, a) : a[j].confirms /\ a[j].len = h.len /\ a[j].sequence = d.confirmed_rank
        <5>1. PICK j \in Own(c, hs) : a[j].confirms /\ a[j].len = c.confirmed_len /\ a[j].sequence = c.confirmed_rank
          BY <2>1, <3>3, <1>5
        <5>2. d.confirmed_rank = c.confirmed_rank \/ d.confirmed_rank = h.sequence
          BY <4>1 DEF Least
        <5> QED BY <5>1, <5>2, <2>2, <3>3, <1>1, <1>3
      <4> QED BY <3>1, <4>2, <4>3 DEF ConfirmedByFirst
    <3> QED BY <3>2, <3>3, <2>2, <1>5
  <2>3. CASE ~(h.confirms /\ h.len >= c.confirmed_len)
    <3>1. d.confirmed_len = c.confirmed_len /\ d.confirmed_rank = c.confirmed_rank
      BY <2>3, <1>2
    <3>2. \A j \in Own(d, a) : a[j].confirms =>
            a[j].len <= c.confirmed_len /\ (a[j].len = c.confirmed_len => c.confirmed_rank <= a[j].sequence)
      BY <2>1, <2>3, <1>1, <1>3, <1>4, <1>5
    <3> QED BY <3>1, <3>2, <2>1, <1>3 DEF ConfirmedByFirst
  <2> QED BY <2>2, <2>3
<1>8. WholeByLongest(d, a)
  <2>1. /\ \A j \in Own(c, hs) : a[j].whole => a[j].len <= c.whole_word_len
        /\ c.whole_word_len # 0 => \E j \in Own(c, hs) : a[j].whole /\ a[j].len = c.whole_word_len
    BY <1>1 DEF Remembers, WholeByLongest
  <2>2. CASE h.whole /\ h.len >= c.whole_word_len
    <3>1. d.whole_word_len = h.len
      BY <2>2, <1>2, <1>5 DEF Most
    <3>2. \A j \in Own(d, a) : a[j].whole => a[j].len <= h.len
      BY <2>1, <2>2, <1>1, <1>3, <1>4, <1>5
    <3> QED BY <3>1, <3>2, <2>2, <1>1, <1>3 DEF WholeByLongest
  <2>3. CASE ~(h.whole /\ h.len >= c.whole_word_len)
    <3>1. d.whole_word_len = c.whole_word_len
      BY <2>3, <1>2, <1>5 DEF Most
    <3>2. \A j \in Own(d, a) : a[j].whole => a[j].len <= c.whole_word_len
      BY <2>1, <2>3, <1>1, <1>3, <1>4, <1>5
    <3> QED BY <3>1, <3>2, <2>1, <1>3 DEF WholeByLongest
  <2> QED BY <2>2, <2>3
<1> QED BY <1>6, <1>7, <1>8 DEF a, d, Remembers

\* The first hit of a key makes a candidate that remembers it.
LEMMA RemembersFirst ==
  ASSUME NEW hs \in Seq(Hits), NEW h \in Hits, \A i \in 1..Len(hs) : hs[i].term # h.term
  PROVE  /\ Take(Blank(h), h) \in Candidates /\ Take(Blank(h), h).term = h.term
         /\ Remembers(ask.shortest, Take(Blank(h), h), Append(hs, h))
<1> DEFINE a == Append(hs, h)
           b == Blank(h)
           d == Take(b, h)
           n == Len(hs)
           shortest == ask.shortest
<1>0. /\ h.len \in Nat /\ h.len > 0 /\ h.sequence \in Nat /\ h.steps \in Nat /\ h.depth \in Nat
      /\ h.term \in Terms /\ h.len \in 1..TextLen /\ h.form \in Forms /\ h.glossary \in BOOLEAN /\ h.reference \in BOOLEAN
      /\ h.rank \in Nat
  BY DEF Hits
<1>1. /\ b \in Candidates /\ b.term = h.term
      /\ b.len = h.len /\ b.form = h.form /\ b.steps = h.steps /\ b.depth = h.depth /\ b.reference = h.reference
      /\ b.confirmed_len = 0 /\ b.confirmed_rank = 0 /\ b.whole_word_len = 0
  BY <1>0 DEF Blank, Candidates
<1> HIDE DEF b
<1>2. /\ d \in Candidates
      /\ d.term = h.term
      /\ d.len = h.len /\ d.form = h.form /\ d.steps = h.steps /\ d.depth = h.depth /\ d.reference = h.reference
      /\ IF h.confirms THEN d.confirmed_len = h.len /\ d.confirmed_rank = h.sequence
         ELSE d.confirmed_len = 0
      /\ d.whole_word_len = IF h.whole THEN h.len ELSE 0
  BY <1>0, <1>1, TakeIs DEF Most
<1> HIDE DEF d, a
<1>3. Own(d, a) = {n + 1} /\ a[n + 1] = h
  <2>1. Own(d, hs) = {}
    BY <1>2 DEF Own
  <2> QED BY <2>1, <1>2, OwnAppend DEF a
<1>4. TraceOfBest(shortest, d, a)
  BY <1>2, <1>3 DEF TraceOfBest
<1>5. ConfirmedByFirst(d, a)
  BY <1>0, <1>2, <1>3 DEF ConfirmedByFirst
<1>6. WholeByLongest(d, a)
  BY <1>0, <1>2, <1>3 DEF WholeByLongest
<1> QED BY <1>2, <1>4, <1>5, <1>6 DEF a, b, d, Remembers

\* A hit goes to the candidate of its key, or makes one at the end.
LEMMA CollectIs ==
  ASSUME NEW cs \in Seq(Candidates), NEW h \in Hits
  PROVE  /\ Collect(cs, h) \in Seq(Candidates)
         /\ (\E i \in 1..Len(cs) : cs[i].term = h.term) =>
              /\ Len(Collect(cs, h)) = Len(cs)
              /\ \A i \in 1..Len(cs) : Collect(cs, h)[i] = IF cs[i].term = h.term THEN Take(cs[i], h) ELSE cs[i]
         /\ ~(\E i \in 1..Len(cs) : cs[i].term = h.term) =>
              /\ Len(Collect(cs, h)) = Len(cs) + 1
              /\ Collect(cs, h)[Len(cs) + 1] = Take(Blank(h), h)
              /\ \A i \in 1..Len(cs) : Collect(cs, h)[i] = cs[i]
<1>1. Len(cs) \in Nat /\ DOMAIN cs = 1..Len(cs) /\ \A i \in 1..Len(cs) : cs[i] \in Candidates
  OBVIOUS
<1>2. CASE \E i \in 1..Len(cs) : cs[i].term = h.term
  <2>1. Collect(cs, h) = [i \in 1..Len(cs) |-> IF cs[i].term = h.term THEN Take(cs[i], h) ELSE cs[i]]
    BY <1>1, <1>2 DEF Collect
  <2>2. \A i \in 1..Len(cs) : (IF cs[i].term = h.term THEN Take(cs[i], h) ELSE cs[i]) \in Candidates
    BY <1>1, TakeIs
  <2>3. Collect(cs, h) \in Seq(Candidates) /\ Len(Collect(cs, h)) = Len(cs)
    BY <1>1, <2>1, <2>2
  <2> QED BY <1>2, <2>1, <2>3
<1>3. CASE ~(\E i \in 1..Len(cs) : cs[i].term = h.term)
  <2>1. Collect(cs, h) = Append(cs, Take(Blank(h), h))
    BY <1>1, <1>3 DEF Collect
  <2>2. Take(Blank(h), h) \in Candidates
    <3> DEFINE e == <<>>
    <3>1. e \in Seq(Hits) /\ Len(e) = 0
      OBVIOUS
    <3>2. \A i \in 1..Len(e) : e[i].term # h.term
      BY <3>1
    <3> HIDE DEF e
    <3> QED BY <3>1, <3>2, RemembersFirst
  <2> QED BY <1>3, <2>1, <2>2, AppendProperties
<1> QED BY <1>2, <1>3

LEMMA AddAgrees ==
  ASSUME NEW f \in Founds, NEW h \in Hits, Agree(ask.shortest, f)
  PROVE  Add(f, h) \in Founds /\ Agree(ask.shortest, Add(f, h))
<1> DEFINE cs == f.candidates
           hs == f.hits
           ds == Collect(cs, h)
           a == Append(hs, h)
           n == Len(cs)
           shortest == ask.shortest
<1>1. cs \in Seq(Candidates) /\ hs \in Seq(Hits) /\ n \in Nat /\ Len(hs) \in Nat
  BY LenProperties DEF Founds
<1>2. /\ a \in Seq(Hits) /\ Len(a) = Len(hs) + 1 /\ a[Len(hs) + 1] = h /\ \A k \in 1..Len(hs) : a[k] = hs[k]
  BY <1>1, AppendProperties
<1>3. /\ ds \in Seq(Candidates)
      /\ (\E i \in 1..n : cs[i].term = h.term) =>
           /\ Len(ds) = n
           /\ \A i \in 1..n : ds[i] = IF cs[i].term = h.term THEN Take(cs[i], h) ELSE cs[i]
      /\ ~(\E i \in 1..n : cs[i].term = h.term) =>
           /\ Len(ds) = n + 1
           /\ ds[n + 1] = Take(Blank(h), h)
           /\ \A i \in 1..n : ds[i] = cs[i]
  BY <1>1, CollectIs
<1>4. \A i \in 1..n : cs[i] \in Candidates
  BY <1>1
<1>5. /\ \A i, j \in 1..n : cs[i].term = cs[j].term => i = j
      /\ \A k \in 1..Len(hs) : \E i \in 1..n : cs[i].term = hs[k].term
      /\ \A i \in 1..n : Remembers(shortest, cs[i], hs)
  BY DEF Agree
<1>6. Add(f, h) = [candidates |-> ds, hits |-> a]
  BY DEF Add
<1> HIDE DEF cs, hs, ds, a, n
<1>7. Add(f, h) \in Founds
  BY <1>2, <1>3, <1>6 DEF Founds
<1>8. /\ \A i, j \in 1..Len(ds) : ds[i].term = ds[j].term => i = j
      /\ \A k \in 1..Len(a) : \E i \in 1..Len(ds) : ds[i].term = a[k].term
      /\ \A i \in 1..Len(ds) : Remembers(shortest, ds[i], a)
  <2>1. CASE \E i \in 1..n : cs[i].term = h.term
    <3>1. Len(ds) = n /\ \A i \in 1..n : ds[i].term = cs[i].term
      BY <2>1, <1>3, <1>4, TakeIs
    <3>2. \A k \in 1..Len(a) : \E i \in 1..Len(ds) : ds[i].term = a[k].term
      <4> SUFFICES ASSUME NEW k \in 1..Len(a) PROVE \E i \in 1..n : cs[i].term = a[k].term
        BY <3>1
      <4>1. CASE k = Len(hs) + 1
        BY <4>1, <2>1, <1>2
      <4>2. CASE k # Len(hs) + 1
        <5>1. k \in 1..Len(hs) /\ a[k] = hs[k]
          BY <4>2, <1>1, <1>2
        <5> QED BY <5>1, <1>5
      <4> QED BY <4>1, <4>2
    <3>3. ASSUME NEW i \in 1..n PROVE Remembers(shortest, ds[i], a)
      <4>1. CASE cs[i].term = h.term
        BY <4>1, <2>1, <1>1, <1>3, <1>4, <1>5, RemembersTaken DEF a
      <4>2. CASE cs[i].term # h.term
        BY <4>2, <2>1, <1>1, <1>3, <1>4, <1>5, RemembersOther DEF a
      <4> QED BY <4>1, <4>2
    <3> QED BY <3>1, <3>2, <3>3, <1>5
  <2>2. CASE ~(\E i \in 1..n : cs[i].term = h.term)
    <3>1. Len(ds) = n + 1 /\ ds[n + 1] = Take(Blank(h), h) /\ \A i \in 1..n : ds[i] = cs[i]
      BY <2>2, <1>3
    <3>2. \A k \in 1..Len(hs) : hs[k].term # h.term
      BY <2>2, <1>5
    <3>3. ds[n + 1].term = h.term /\ Remembers(shortest, ds[n + 1], a)
      BY <3>1, <3>2, <1>1, RemembersFirst DEF a
    <3>4. \A i \in 1..n : ds[i].term = cs[i].term /\ ds[i].term # h.term
      BY <3>1, <2>2
    <3>5. \A i, j \in 1..Len(ds) : ds[i].term = ds[j].term => i = j
      <4>1. \A i \in 1..Len(ds) : i \in 1..n \/ i = n + 1
        BY <3>1, <1>1
      <4> QED BY <4>1, <3>3, <3>4, <1>5
    <3>6. ASSUME NEW i \in 1..Len(ds) PROVE Remembers(shortest, ds[i], a)
      <4>1. CASE i = n + 1
        BY <4>1, <3>3
      <4>2. CASE i # n + 1
        <5>1. i \in 1..n
          BY <4>2, <3>1, <1>1
        <5>2. ds[i] = cs[i] /\ h.term # cs[i].term /\ cs[i] \in Candidates /\ Remembers(shortest, cs[i], hs)
          BY <5>1, <3>1, <2>2, <1>4, <1>5
        <5> QED BY <5>2, <1>1, RemembersOther DEF a
      <4> QED BY <4>1, <4>2
    <3>7. ASSUME NEW k \in 1..Len(a) PROVE \E i \in 1..Len(ds) : ds[i].term = a[k].term
      <4>1. CASE k = Len(hs) + 1
        <5>1. n + 1 \in 1..Len(ds)
          BY <3>1, <1>1
        <5> QED BY <4>1, <5>1, <3>3, <1>2
      <4>2. CASE k # Len(hs) + 1
        <5>1. k \in 1..Len(hs) /\ a[k] = hs[k]
          BY <4>2, <1>1, <1>2
        <5>2. PICK i \in 1..n : cs[i].term = hs[k].term
          BY <5>1, <1>5
        <5>3. i \in 1..Len(ds) /\ ds[i].term = cs[i].term
          BY <3>1, <3>4, <1>1
        <5> QED BY <5>1, <5>2, <5>3
      <4> QED BY <4>1, <4>2
    <3> QED BY <3>5, <3>6, <3>7
  <2> QED BY <2>1, <2>2
<1>9. Agree(shortest, Add(f, h))
  BY <1>6, <1>8 DEF Agree
<1> QED BY <1>7, <1>9

-----------------------------------------------------------------------------
(* What the steps add.                                                     *)

Notes == [to : Forms, rules : Nat, len : 1..TextLen, from : Deinflection]
Probes == [len : 1..TextLen, from : Deinflection]

\* FlattenSeq of a function on 1..n to sequences.
LEMMA FlattenTyped ==
  ASSUME NEW X, NEW n \in Nat, NEW ss, ss = [i \in 1..n |-> ss[i]], \A i \in 1..n : ss[i] \in Seq(X)
  PROVE  /\ FlattenSeq(ss) \in Seq(X)
         /\ \A e : e \in ToSet(FlattenSeq(ss)) <=> \E i \in 1..n : e \in ToSet(ss[i])
<1>1. ss \in Seq(Seq(X)) /\ Len(ss) = n
  OBVIOUS
<1> QED BY <1>1, FlattenAppend, FlattenSeqSet, EmptySeq

LEMMA AddAllAgrees ==
  ASSUME NEW f \in Founds, NEW hs \in Seq(Hits), Agree(ask.shortest, f)
  PROVE  AddAll(f, hs) \in Founds /\ Agree(ask.shortest, AddAll(f, hs))
<1> DEFINE P == {g \in Founds : Agree(ask.shortest, g)}
<1>1. \A g \in P, h \in Hits : Add(g, h) \in P
  BY AddAgrees
<1>2. f \in P
  OBVIOUS
<1> HIDE DEF P
<1>3. AddAll(f, hs) \in P
  BY <1>1, <1>2, AddAllKeeps
<1> QED BY <1>3 DEF P

\* Every hit added is in the history, and none is lost from it.
LEMMA AddAllHits ==
  ASSUME NEW f \in Founds, NEW hs \in Seq(Hits)
  PROVE  /\ ToSet(f.hits) \subseteq ToSet(AddAll(f, hs).hits)
         /\ ToSet(hs) \subseteq ToSet(AddAll(f, hs).hits)
<1> DEFINE n == Len(hs)
           H(g) == ToSet(g.hits)
<1>0. n \in Nat /\ \A i \in 1..n : hs[i] \in Hits
  OBVIOUS
<1>1. \A g \in Founds, h \in Hits : Add(g, h) \in Founds /\ H(Add(g, h)) = H(g) \cup {h}
  <2> SUFFICES ASSUME NEW g \in Founds, NEW h \in Hits PROVE Add(g, h) \in Founds /\ H(Add(g, h)) = H(g) \cup {h}
    OBVIOUS
  <2>1. g.hits \in Seq(Hits) /\ g.candidates \in Seq(Candidates)
    BY DEF Founds
  <2>2. Add(g, h) = [candidates |-> Collect(g.candidates, h), hits |-> Append(g.hits, h)]
    BY DEF Add
  <2>3. Collect(g.candidates, h) \in Seq(Candidates) /\ Append(g.hits, h) \in Seq(Hits)
    BY <2>1, CollectIs, AppendProperties
  <2>4. ToSet(Append(g.hits, h)) = ToSet(g.hits) \cup {h}
    BY <2>1, AppendSet
  <2> QED BY <2>2, <2>3, <2>4 DEF Founds
<1>2. PICK a \in [0..n -> Founds] : a[0] = f /\ (\A i \in 1..n : a[i] = Add(a[i - 1], hs[i])) /\ AddAll(f, hs) = a[n]
  <2>1. \A g \in Founds, h \in Hits : Add(g, h) \in Founds
    BY <1>1
  <2> QED BY <2>1, AddAllSteps
<1> DEFINE T == {k \in Nat : k <= n => H(f) \subseteq H(a[k]) /\ \A j \in 1..k : hs[j] \in H(a[k])}
<1>3. 0 \in T
  BY <1>2
<1>4. ASSUME NEW k \in Nat, k \in T PROVE k + 1 \in T
  <2> SUFFICES ASSUME k + 1 <= n PROVE H(f) \subseteq H(a[k + 1]) /\ \A j \in 1..k + 1 : hs[j] \in H(a[k + 1])
    OBVIOUS
  <2>1. k + 1 \in 1..n /\ (k + 1) - 1 = k /\ a[k] \in Founds /\ k <= n
    BY <1>0
  <2>2. a[k + 1] = Add(a[k], hs[k + 1])
    BY <1>2, <2>1
  <2> HIDE DEF H
  <2>3. H(a[k + 1]) = H(a[k]) \cup {hs[k + 1]}
    BY <2>1, <2>2, <1>0, <1>1
  <2>4. H(f) \subseteq H(a[k]) /\ \A j \in 1..k : hs[j] \in H(a[k])
    BY <1>4, <2>1
  <2>5. \A j \in 1..k + 1 : j \in 1..k \/ j = k + 1
    OBVIOUS
  <2> QED BY <2>3, <2>4, <2>5
<1> HIDE DEF T
<1>5. n \in T
  BY <1>0, <1>3, <1>4, NatSetInduction
<1>6. H(f) \subseteq H(a[n]) /\ \A j \in 1..n : hs[j] \in H(a[n])
  BY <1>0, <1>5 DEF T
<1>7. \A h \in ToSet(hs) : \E j \in 1..n : h = hs[j]
  BY <1>0 DEF ToSet
<1> QED BY <1>2, <1>6, <1>7

Glossed == {h \in Hits : h.glossary}
Unconfirming == {h \in Hits : ~h.confirms}

\* The elements of a sequence decide what it is a sequence of.
LEMMA QueryTyped ==
  ASSUME NEW form \in Forms
  PROVE  Query(form) \in Seq(Terms)
BY LookupAssumption, ThoseKeeps DEF Query

LEMMA HitTyped ==
  ASSUME NEW t \in Terms, NEW len \in 1..TextLen, NEW d \in Deinflection, ask \in Requests
  PROVE  /\ Hit(t, len, d) \in Glossed \cap Unconfirming
         /\ Hit(t, len, d).term = t /\ Hit(t, len, d).len = len /\ Hit(t, len, d).depth = d.depth
<1>1. (ask.follow /\ d.whole) \in BOOLEAN
  OBVIOUS
<1>2. d.form \in Forms /\ d.steps \in Nat /\ d.depth \in Nat
  BY DEF Deinflection
<1> QED BY <1>1, <1>2 DEF Hit, Hits, Glossed, Unconfirming

\* the terms that a deinflection finds
LookedUp(d) == {t \in ToSet(Query(d.form)) : Passes(d.conditions, Info[t].tags)}

LEMMA MatchesTyped ==
  ASSUME NEW len \in 1..TextLen, NEW d \in Deinflection, ask \in Requests
  PROVE  /\ Matches(len, d) \in Seq(Glossed) /\ \A h \in ToSet(Matches(len, d)) : h.len = len
         /\ \A t \in LookedUp(d) : \E h \in ToSet(Matches(len, d)) : h.term = t /\ h.len = len
<1> DEFINE S == {t \in Terms : Passes(d.conditions, Info[t].tags)}
           terms == Those(Query(d.form), S)
<1>1. d.form \in Forms
  BY DEF Deinflection
<1>2. terms \in Seq(Terms) /\ \A e : e \in ToSet(terms) <=> e \in ToSet(Query(d.form)) /\ e \in S
  BY <1>1, QueryTyped, ThoseKeeps
<1>3. \A t \in LookedUp(d) : t \in ToSet(Query(d.form)) /\ t \in S
  <2>1. \A t \in ToSet(Query(d.form)) : t \in Terms
    BY <1>1, QueryTyped DEF ToSet
  <2> QED BY <2>1 DEF LookedUp
<1> HIDE DEF S
<1>4. Matches(len, d) = [k \in DOMAIN terms |-> Hit(terms[k], len, d)]
  BY DEF Matches, S
<1> HIDE DEF terms
<1>5. DOMAIN terms = 1..Len(terms) /\ Len(terms) \in Nat /\ \A k \in 1..Len(terms) : terms[k] \in Terms
  BY <1>2
<1>6. \A k \in 1..Len(terms) : /\ Hit(terms[k], len, d) \in Glossed
                               /\ Hit(terms[k], len, d).term = terms[k] /\ Hit(terms[k], len, d).len = len
  BY <1>5, HitTyped
<1>7. Matches(len, d) \in Seq(Glossed)
  BY <1>4, <1>5, <1>6
<1>8. ASSUME NEW t \in ToSet(terms) PROVE \E h \in ToSet(Matches(len, d)) : h.term = t /\ h.len = len
  <2>1. PICK k \in 1..Len(terms) : t = terms[k]
    BY <1>5 DEF ToSet
  <2>2. Matches(len, d)[k] \in ToSet(Matches(len, d)) /\ Matches(len, d)[k] = Hit(terms[k], len, d)
    BY <1>4, <1>5 DEF ToSet
  <2> QED BY <2>1, <2>2, <1>6
<1>9. \A h \in ToSet(Matches(len, d)) : h.len = len
  BY <1>4, <1>5, <1>6 DEF ToSet
<1> QED BY <1>2, <1>3, <1>7, <1>8, <1>9

\* What merge adds for a prefix: hits with glossaries, and notes; every
\* deinflection of it hits all the terms it finds.
MergeHits(len, ds) == FlattenSeq([i \in DOMAIN ds |-> Matches(len, ds[i])])
MergeNotes(len, ds) == FlattenSeq([i \in DOMAIN ds |-> Noted(len, ds[i])])

LEMMA NotedTyped ==
  ASSUME NEW len \in 1..TextLen, NEW d \in Deinflection, ask \in Requests
  PROVE  Noted(len, d) \in Seq(Notes) /\ \A n \in ToSet(Noted(len, d)) : n.len = len
<1> DEFINE rows == RowsAt[d.form]
           One(row) == IF ask.follow /\ Passes(d.conditions, row.tags) /\ ~row.ignored THEN row.references ELSE <<>>
           ss == [i \in DOMAIN rows |-> One(rows[i])]
           refs == References(d)
<1>1. d.form \in Forms
  BY DEF Deinflection
<1>2. rows \in Seq([tags : SUBSET Tags, ignored : BOOLEAN, references : Seq(Reference)])
  BY <1>1, LookupAssumption
<1>3. DOMAIN rows = 1..Len(rows) /\ Len(rows) \in Nat /\ \A i \in 1..Len(rows) : rows[i].references \in Seq(Reference)
  <2> DEFINE R == [tags : SUBSET Tags, ignored : BOOLEAN, references : Seq(Reference)]
  <2> HIDE DEF rows
  <2>1. \A row \in R : row.references \in Seq(Reference)
    OBVIOUS
  <2>2. rows \in Seq(R)
    BY <1>2
  <2> HIDE DEF R
  <2>3. \A i \in 1..Len(rows) : rows[i] \in R
    BY <2>2
  <2> QED BY <2>1, <2>2, <2>3
<1>4. refs = FlattenSeq(ss)
  BY DEF References
<1>5. \A i \in 1..Len(rows) : ss[i] \in Seq(Reference)
  BY <1>3
<1>6. ss = [i \in 1..Len(rows) |-> ss[i]]
  BY <1>3
<1> HIDE DEF ss
<1>7. refs \in Seq(Reference)
  BY <1>3, <1>4, <1>5, <1>6, FlattenTyped
<1>8. Noted(len, d) = [i \in DOMAIN refs |-> [to |-> refs[i].to, rules |-> refs[i].rules, len |-> len, from |-> d]]
  BY DEF Noted
<1> HIDE DEF refs
<1>9. \A i \in DOMAIN refs : [to |-> refs[i].to, rules |-> refs[i].rules, len |-> len, from |-> d] \in Notes
  <2>1. \A i \in DOMAIN refs : refs[i].to \in Forms /\ refs[i].rules \in Nat
    <3>1. \A i \in DOMAIN refs : refs[i] \in Reference
      BY <1>7
    <3> QED BY <3>1 DEF Reference
  <2> QED BY <2>1 DEF Notes
<1>10. \A n \in ToSet(Noted(len, d)) : n.len = len
  BY <1>8 DEF ToSet
<1> QED BY <1>7, <1>8, <1>9, <1>10

LEMMA MergeTyped ==
  ASSUME NEW len \in 1..TextLen, NEW ds \in Seq(Deinflection), ask \in Requests
  PROVE  /\ MergeHits(len, ds) \in Seq(Glossed) /\ MergeNotes(len, ds) \in Seq(Notes)
         /\ \A e \in ToSet(MergeHits(len, ds)) \cup ToSet(MergeNotes(len, ds)) : e.len = len
         /\ \A i \in 1..Len(ds) : \A t \in LookedUp(ds[i]) : \E h \in ToSet(MergeHits(len, ds)) : h.term = t /\ h.len = len
<1> DEFINE hh == [i \in DOMAIN ds |-> Matches(len, ds[i])]
           nn == [i \in DOMAIN ds |-> Noted(len, ds[i])]
<1>1. DOMAIN ds = 1..Len(ds) /\ Len(ds) \in Nat /\ \A i \in 1..Len(ds) : ds[i] \in Deinflection
  OBVIOUS
<1>2. \A i \in 1..Len(ds) : hh[i] \in Seq(Glossed) /\ hh[i] = Matches(len, ds[i]) /\ nn[i] \in Seq(Notes)
  BY <1>1, MatchesTyped, NotedTyped
<1>3. hh = [i \in 1..Len(ds) |-> hh[i]] /\ nn = [i \in 1..Len(ds) |-> nn[i]]
  BY <1>1
<1>4. MergeHits(len, ds) = FlattenSeq(hh) /\ MergeNotes(len, ds) = FlattenSeq(nn)
  BY DEF MergeHits, MergeNotes
<1> HIDE DEF hh, nn
<1>5. /\ FlattenSeq(hh) \in Seq(Glossed)
      /\ \A e : e \in ToSet(FlattenSeq(hh)) <=> \E i \in 1..Len(ds) : e \in ToSet(hh[i])
  BY <1>1, <1>2, <1>3, FlattenTyped
<1>6. /\ FlattenSeq(nn) \in Seq(Notes)
      /\ \A e : e \in ToSet(FlattenSeq(nn)) <=> \E i \in 1..Len(ds) : e \in ToSet(nn[i])
  BY <1>1, <1>2, <1>3, FlattenTyped
<1>7. ASSUME NEW i \in 1..Len(ds), NEW t \in LookedUp(ds[i])
      PROVE  \E h \in ToSet(MergeHits(len, ds)) : h.term = t /\ h.len = len
  <2>1. \A u \in LookedUp(ds[i]) : \E h \in ToSet(Matches(len, ds[i])) : h.term = u /\ h.len = len
    BY <1>1, <1>7, MatchesTyped
  <2>2. PICK h \in ToSet(hh[i]) : h.term = t /\ h.len = len
    BY <2>1, <1>2
  <2> QED BY <2>2, <1>4, <1>5
<1>8. \A i \in 1..Len(ds) : \A e \in ToSet(hh[i]) \cup ToSet(nn[i]) : e.len = len
  BY <1>1, <1>2, MatchesTyped, NotedTyped DEF nn
<1> QED BY <1>4, <1>5, <1>6, <1>7, <1>8

FollowHits == FlattenSeq([k \in 1..Len(followed) - followed_done |-> ReferenceMatches(followed_done + k)])
MetadataHits == FlattenSeq([k \in DOMAIN probes |-> MetadataMatches(probes[k])])

LEMMA FollowTyped ==
  ASSUME followed \in Seq(Notes), followed_done \in 0..Len(followed), ask \in Requests
  PROVE  /\ FollowHits \in Seq(Glossed)
         /\ \A h \in ToSet(FollowHits) : \E k \in followed_done + 1..Len(followed) : h.len = followed[k].len
<1> DEFINE n == Len(followed) - followed_done
           hh == [k \in 1..n |-> ReferenceMatches(followed_done + k)]
<1>1. n \in Nat /\ \A k \in 1..n : followed_done + k \in 1..Len(followed)
  OBVIOUS
<1>2. ASSUME NEW i \in 1..Len(followed) 
      PROVE  ReferenceMatches(i) \in Seq(Glossed) /\ \A h \in ToSet(ReferenceMatches(i)) : h.len = followed[i].len
  <2> DEFINE r == followed[i]
             terms == Query(r.to)
             One(t) == [Hit(t, r.len, r.from) EXCEPT !.form = r.to, !.depth = @ + r.rules, !.reference = TRUE,
                                                     !.confirms = r.from.depth = 0, !.sequence = i]
  <2>1. r \in Notes /\ i \in Nat
    OBVIOUS
  <2>2. r.to \in Forms /\ r.rules \in Nat /\ r.len \in 1..TextLen /\ r.from \in Deinflection
    BY <2>1 DEF Notes
  <2>3. terms \in Seq(Terms)
    BY <2>2, QueryTyped
  <2>4. ASSUME NEW t \in Terms PROVE One(t) \in Glossed /\ One(t).len = r.len
    <3> DEFINE h == Hit(t, r.len, r.from)
    <3>1. h \in Glossed
      BY <2>2, HitTyped
    <3>2. h \in Hits /\ h.depth \in Nat /\ h.glossary /\ h.len = r.len
      BY <3>1, <2>2, HitTyped, SMTT(30) DEF Glossed, Hits
    <3>3. (r.from.depth = 0) \in BOOLEAN
      OBVIOUS
    <3> HIDE DEF h
    <3> DEFINE g == [h EXCEPT !.form = r.to, !.depth = @ + r.rules, !.reference = TRUE,
                              !.confirms = r.from.depth = 0, !.sequence = i]
    <3>4. g \in Hits /\ g.glossary
      <4>1. \A form \in Forms, depth \in Nat, confirms \in BOOLEAN, sequence \in Nat :
              LET e == [h EXCEPT !.form = form, !.depth = depth, !.reference = TRUE, !.confirms = confirms,
                                 !.sequence = sequence]
              IN  e \in Hits /\ e.glossary
        BY <3>2 DEF Hits
      <4>2. h.depth + r.rules \in Nat
        BY <2>2, <3>2
      <4> QED BY <4>1, <4>2, <2>1, <2>2, <3>3
    <3>5. g \in Glossed /\ g.len = r.len
      <4>1. g.len = h.len
        BY <3>2 DEF Hits
      <4> QED BY <4>1, <3>2, <3>4 DEF Glossed
    <3> QED BY <3>5 DEF h
  <2>5. ReferenceMatches(i) = [k \in DOMAIN terms |-> One(terms[k])]
    BY DEF ReferenceMatches
  <2> HIDE DEF terms, One, r
  <2>6. DOMAIN terms = 1..Len(terms) /\ Len(terms) \in Nat /\ \A k \in 1..Len(terms) : terms[k] \in Terms
    BY <2>3
  <2>7. ReferenceMatches(i) \in Seq(Glossed)
    BY <2>4, <2>5, <2>6
  <2>8. \A h \in ToSet(ReferenceMatches(i)) : h.len = r.len
    BY <2>4, <2>5, <2>6 DEF ToSet
  <2> QED BY <2>7, <2>8 DEF r
<1>3. \A k \in 1..n : hh[k] \in Seq(Glossed)
  BY <1>1, <1>2
<1>4. hh = [k \in 1..n |-> hh[k]]
  OBVIOUS
<1>5. FollowHits = FlattenSeq(hh)
  BY DEF FollowHits
<1>6. \A k \in 1..n : \A h \in ToSet(hh[k]) : h.len = followed[followed_done + k].len
  BY <1>1, <1>2
<1>7. \A k \in 1..n : followed_done + k \in followed_done + 1..Len(followed)
  OBVIOUS
<1> HIDE DEF n, hh
<1>8. FollowHits \in Seq(Glossed) /\ \A e : e \in ToSet(FollowHits) <=> \E k \in 1..n : e \in ToSet(hh[k])
  BY <1>1, <1>3, <1>4, <1>5, FlattenTyped
<1> QED BY <1>6, <1>7, <1>8

LEMMA MetadataTyped ==
  ASSUME probes \in Seq(Probes), ask \in Requests
  PROVE  /\ MetadataHits \in Seq(Unconfirming)
         /\ \A h \in ToSet(MetadataHits) : ~h.glossary /\ \A c \in Defined : c.term # h.term
<1> DEFINE hh == [k \in DOMAIN probes |-> MetadataMatches(probes[k])]
           New(h) == ~h.glossary /\ \A c \in Defined : c.term # h.term
<1>1. DOMAIN probes = 1..Len(probes) /\ Len(probes) \in Nat /\ \A k \in 1..Len(probes) : probes[k] \in Probes
  OBVIOUS
<1>2. ASSUME NEW probe \in Probes 
      PROVE  MetadataMatches(probe) \in Seq(Unconfirming) /\ \A h \in ToSet(MetadataMatches(probe)) : New(h)
  <2> DEFINE terms == MetadataTerms(probe.from.form)
             One(i) == [Hit(terms[i], probe.len, probe.from) EXCEPT !.glossary = FALSE, !.rank = i]
             ss == [i \in DOMAIN terms |-> IF \E c \in Defined : c.term = terms[i] THEN <<>> ELSE <<One(i)>>]
  <2>1. probe.len \in 1..TextLen /\ probe.from \in Deinflection /\ probe.from.form \in Forms
    BY DEF Probes, Deinflection
  <2>2. terms \in Seq(Terms)
    BY <2>1, LookupAssumption DEF MetadataTerms
  <2>3. DOMAIN terms = 1..Len(terms) /\ Len(terms) \in Nat /\ \A i \in 1..Len(terms) : terms[i] \in Terms /\ i \in Nat
    BY <2>2
  <2>4. ASSUME NEW i \in 1..Len(terms) PROVE One(i) \in Unconfirming /\ ~One(i).glossary /\ One(i).term = terms[i]
    <3> DEFINE h == Hit(terms[i], probe.len, probe.from)
    <3>1. h \in Unconfirming /\ h.term = terms[i]
      BY <2>1, <2>3, HitTyped
    <3> HIDE DEF h
    <3> DEFINE g == [h EXCEPT !.glossary = FALSE, !.rank = i]
    <3>2. g \in Unconfirming /\ ~g.glossary /\ g.term = terms[i]
      BY <2>3, <3>1 DEF Unconfirming, Hits
    <3> QED BY <3>2 DEF h
  <2>5. MetadataMatches(probe) = FlattenSeq(ss)
    BY DEF MetadataMatches
  <2>6. \A i \in 1..Len(terms) : ss[i] \in Seq(Unconfirming)
    <3> HIDE DEF One, terms
    <3> QED BY <2>3, <2>4
  <2>7. ss = [i \in 1..Len(terms) |-> ss[i]]
    BY <2>3
  <2>8. \A i \in 1..Len(terms) : \A h \in ToSet(ss[i]) : New(h)
    <3> SUFFICES ASSUME NEW i \in 1..Len(terms), NEW h \in ToSet(ss[i]) PROVE New(h)
      OBVIOUS
    <3> HIDE DEF One, terms
    <3>1. ss[i] = IF \E c \in Defined : c.term = terms[i] THEN <<>> ELSE <<One(i)>>
      BY <2>3
    <3>2. ToSet(<<>>) = {} /\ ToSet(<<One(i)>>) = {One(i)}
      BY DEF ToSet
    <3>3. h = One(i) /\ \A c \in Defined : c.term # terms[i]
      <4> HIDE DEF ss
      <4> QED BY <3>1, <3>2
    <3> QED BY <3>3, <2>4
  <2> HIDE DEF ss, terms, New
  <2>9. /\ MetadataMatches(probe) \in Seq(Unconfirming)
        /\ \A e : e \in ToSet(MetadataMatches(probe)) <=> \E i \in 1..Len(terms) : e \in ToSet(ss[i])
    BY <2>3, <2>5, <2>6, <2>7, FlattenTyped
  <2> QED BY <2>8, <2>9
<1> HIDE DEF New
<1>3. \A k \in 1..Len(probes) : hh[k] \in Seq(Unconfirming) /\ \A h \in ToSet(hh[k]) : New(h)
  BY <1>1, <1>2
<1>4. hh = [k \in 1..Len(probes) |-> hh[k]]
  BY <1>1
<1>5. MetadataHits = FlattenSeq(hh)
  BY DEF MetadataHits
<1> HIDE DEF hh
<1>6. /\ MetadataHits \in Seq(Unconfirming)
      /\ \A e : e \in ToSet(MetadataHits) <=> \E k \in 1..Len(probes) : e \in ToSet(hh[k])
  BY <1>1, <1>3, <1>4, <1>5, FlattenTyped
<1>7. \A h \in ToSet(MetadataHits) : New(h)
  BY <1>3, <1>6
<1> QED BY <1>6, <1>7 DEF New

-----------------------------------------------------------------------------
(* The inductive invariant.                                                *)

\* Candidates without glossaries come last, and no reference confirms them.
AllGlossed(f) == \A i \in 1..Len(f.candidates) : f.candidates[i].glossary
Unconfirmed(f) == \A i \in 1..Len(f.candidates) : f.candidates[i].glossary \/ f.candidates[i].confirmed_len = 0

TypesOK ==
  /\ ask \in Requests
  /\ phase \in {"scan", "extension", "passes", "metadata", "rank", "done"}
  /\ todo \in Seq(1..TextLen) /\ scanned \in Seq(1..TextLen)
  /\ results \in Seq(Seq(Deinflection)) /\ Len(results) = Len(scanned)
  /\ prefix_variants \subseteq Forms
  /\ found \in Founds
  /\ followed \in Seq(Notes) /\ followed_done \in 0..Len(followed)
  /\ probes \in Seq(Probes)

CandidatesFit ==
  /\ Agree(ask.shortest, found)
  /\ phase \notin {"rank", "done"} => AllGlossed(found)
  /\ Unconfirmed(found)

ScanInOrder ==
  /\ phase = "scan" => scanned \o todo = Scan
  /\ phase = "extension" => scanned \o todo = Scan \o Extension(prefix_variants)
  /\ phase \notin {"scan", "extension"} => scanned = Scan \o Extension(prefix_variants)
ScannedHit ==
  \A k \in 1..Len(scanned) : \A i \in 1..Len(results[k]) : \A t \in LookedUp(results[k][i]) :
     \E h \in ToSet(found.hits) : h.term = t /\ h.len = scanned[k]

IInv == TypesOK /\ CandidatesFit /\ ScanInOrder /\ ScannedHit

LEMMA AddAllGlossed ==
  ASSUME NEW f \in Founds, NEW hs \in Seq(Glossed), AllGlossed(f)
  PROVE  AllGlossed(AddAll(f, hs))
<1> DEFINE P == {g \in Founds : AllGlossed(g)}
<1>1. ASSUME NEW g \in P, NEW h \in Glossed PROVE Add(g, h) \in P
  <2> DEFINE cs == g.candidates
  <2>1. cs \in Seq(Candidates) /\ g.hits \in Seq(Hits) /\ h \in Hits /\ h.glossary
    BY DEF Founds, Glossed
  <2>2. Add(g, h) = [candidates |-> Collect(cs, h), hits |-> Append(g.hits, h)]
    BY DEF Add
  <2>3. /\ Collect(cs, h) \in Seq(Candidates)
        /\ (\E i \in 1..Len(cs) : cs[i].term = h.term) =>
             /\ Len(Collect(cs, h)) = Len(cs)
             /\ \A i \in 1..Len(cs) : Collect(cs, h)[i] = IF cs[i].term = h.term THEN Take(cs[i], h) ELSE cs[i]
        /\ ~(\E i \in 1..Len(cs) : cs[i].term = h.term) =>
             /\ Len(Collect(cs, h)) = Len(cs) + 1
             /\ Collect(cs, h)[Len(cs) + 1] = Take(Blank(h), h)
             /\ \A i \in 1..Len(cs) : Collect(cs, h)[i] = cs[i]
    BY <2>1, CollectIs
  <2>4. Append(g.hits, h) \in Seq(Hits)
    BY <2>1, AppendProperties
  <2>5. Len(cs) \in Nat /\ \A i \in 1..Len(cs) : cs[i] \in Candidates /\ cs[i].glossary
    BY <2>1 DEF AllGlossed
  <2> HIDE DEF cs
  <2>6. \A i \in 1..Len(cs) : Take(cs[i], h).glossary
    BY <2>1, <2>5, TakeIs
  <2>7. Take(Blank(h), h).glossary
    <3>1. Blank(h) \in Candidates /\ Blank(h).glossary
      BY <2>1 DEF Blank, Candidates, Hits
    <3> QED BY <2>1, <3>1, TakeIs
  <2>8. \A i \in 1..Len(Collect(cs, h)) : Collect(cs, h)[i].glossary
    <3>1. CASE \E i \in 1..Len(cs) : cs[i].term = h.term
      BY <3>1, <2>3, <2>5, <2>6
    <3>2. CASE ~(\E i \in 1..Len(cs) : cs[i].term = h.term)
      <4>1. \A i \in 1..Len(Collect(cs, h)) : i \in 1..Len(cs) \/ i = Len(cs) + 1
        BY <3>2, <2>3, <2>5
      <4> QED BY <4>1, <3>2, <2>3, <2>5, <2>7
    <3> QED BY <3>1, <3>2
  <2>9. Add(g, h) \in Founds /\ AllGlossed(Add(g, h))
    BY <2>2, <2>3, <2>4, <2>8 DEF Founds, AllGlossed
  <2> QED BY <2>9
<1>2. f \in P
  OBVIOUS
<1> HIDE DEF P
<1>3. AddAll(f, hs) \in P
  BY <1>1, <1>2, AddAllKeeps
<1> QED BY <1>3 DEF P

LEMMA AddAllUnconfirmed ==
  ASSUME NEW f \in Founds, NEW hs \in Seq(Unconfirming), Unconfirmed(f)
  PROVE  Unconfirmed(AddAll(f, hs))
<1> DEFINE P == {g \in Founds : Unconfirmed(g)}
           Fits(c) == c.glossary \/ c.confirmed_len = 0
<1>1. ASSUME NEW g \in P, NEW h \in Unconfirming PROVE Add(g, h) \in P
  <2> DEFINE cs == g.candidates
  <2>1. cs \in Seq(Candidates) /\ g.hits \in Seq(Hits) /\ h \in Hits /\ ~h.confirms
    BY DEF Founds, Unconfirming
  <2>2. Add(g, h) = [candidates |-> Collect(cs, h), hits |-> Append(g.hits, h)]
    BY DEF Add
  <2>3. /\ Collect(cs, h) \in Seq(Candidates)
        /\ (\E i \in 1..Len(cs) : cs[i].term = h.term) =>
             /\ Len(Collect(cs, h)) = Len(cs)
             /\ \A i \in 1..Len(cs) : Collect(cs, h)[i] = IF cs[i].term = h.term THEN Take(cs[i], h) ELSE cs[i]
        /\ ~(\E i \in 1..Len(cs) : cs[i].term = h.term) =>
             /\ Len(Collect(cs, h)) = Len(cs) + 1
             /\ Collect(cs, h)[Len(cs) + 1] = Take(Blank(h), h)
             /\ \A i \in 1..Len(cs) : Collect(cs, h)[i] = cs[i]
    BY <2>1, CollectIs
  <2>4. Append(g.hits, h) \in Seq(Hits)
    BY <2>1, AppendProperties
  <2>5. Len(cs) \in Nat /\ \A i \in 1..Len(cs) : cs[i] \in Candidates /\ Fits(cs[i])
    BY <2>1 DEF Unconfirmed
  <2> HIDE DEF cs
  <2>6. \A i \in 1..Len(cs) : Fits(Take(cs[i], h))
    BY <2>1, <2>5, TakeIs
  <2>7. Fits(Take(Blank(h), h))
    <3>1. Blank(h) \in Candidates /\ Blank(h).confirmed_len = 0
      BY <2>1 DEF Blank, Candidates, Hits
    <3> QED BY <2>1, <3>1, TakeIs
  <2> HIDE DEF Fits
  <2>8. \A i \in 1..Len(Collect(cs, h)) : Fits(Collect(cs, h)[i])
    <3>1. CASE \E i \in 1..Len(cs) : cs[i].term = h.term
      BY <3>1, <2>3, <2>5, <2>6
    <3>2. CASE ~(\E i \in 1..Len(cs) : cs[i].term = h.term)
      <4>1. \A i \in 1..Len(Collect(cs, h)) : i \in 1..Len(cs) \/ i = Len(cs) + 1
        BY <3>2, <2>3, <2>5
      <4> QED BY <4>1, <3>2, <2>3, <2>5, <2>7
    <3> QED BY <3>1, <3>2
  <2>9. Add(g, h) \in Founds /\ Unconfirmed(Add(g, h))
    BY <2>2, <2>3, <2>4, <2>8 DEF Founds, Unconfirmed, Fits
  <2> QED BY <2>9
<1>2. f \in P
  OBVIOUS
<1> HIDE DEF P
<1>3. AddAll(f, hs) \in P
  BY <1>1, <1>2, AddAllKeeps
<1> QED BY <1>3 DEF P

-----------------------------------------------------------------------------
(* The prefixes that are read.                                             *)

LEMMA DownIs ==
  ASSUME NEW hi \in Int, NEW lo \in Int
  PROVE  /\ Down(hi, lo) \in Seq(Int)
         /\ \A p : p \in ToSet(Down(hi, lo)) <=> p \in lo..hi
         /\ \A i, j \in 1..Len(Down(hi, lo)) : i < j => Down(hi, lo)[i] > Down(hi, lo)[j]
<1> DEFINE n == Most(0, hi - lo + 1)
           s == Down(hi, lo)
<1>1. n \in Nat /\ (hi < lo => n = 0) /\ (hi >= lo => n = hi - lo + 1)
  BY DEF Most
<1>2. s = [i \in 1..n |-> hi + 1 - i]
  BY DEF Down
<1> HIDE DEF n, s
<1>3. s \in Seq(Int) /\ Len(s) = n /\ DOMAIN s = 1..n /\ \A i \in 1..n : s[i] = hi + 1 - i
  BY <1>1, <1>2
<1>4. \A p : p \in ToSet(s) <=> \E i \in 1..n : p = hi + 1 - i
  BY <1>3 DEF ToSet
<1>5. ASSUME NEW p PROVE p \in ToSet(s) <=> p \in lo..hi
  <2>1. ASSUME p \in lo..hi PROVE p \in ToSet(s)
    <3>1. hi + 1 - p \in 1..n /\ p = hi + 1 - (hi + 1 - p)
      BY <2>1, <1>1
    <3> QED BY <3>1, <1>4
  <2>2. ASSUME p \in ToSet(s) PROVE p \in lo..hi
    BY <2>2, <1>1, <1>4
  <2> QED BY <2>1, <2>2
<1>6. \A i, j \in 1..Len(s) : i < j => s[i] > s[j]
  BY <1>1, <1>3
<1> QED BY <1>3, <1>5, <1>6 DEF s

\* What Down and Boundary leave: a sequence of prefixes, longest first.
LEMMA DescentIs ==
  ASSUME NEW hi \in Int, NEW lo \in Int, lo >= 1, hi <= TextLen, NEW s, s = Those(Down(hi, lo), Boundaries)
  PROVE  /\ s \in Seq(1..TextLen)
         /\ \A p : p \in ToSet(s) <=> p \in lo..hi /\ p \in Boundaries
         /\ \A i, j \in 1..Len(s) : i < j => s[i] > s[j]
<1> DEFINE d == Down(hi, lo)
           R == {ij \in Int \X Int : ij[1] > ij[2]}
<1>1. /\ d \in Seq(Int)
      /\ \A p : p \in ToSet(d) <=> p \in lo..hi
      /\ \A i, j \in 1..Len(d) : i < j => d[i] > d[j]
  BY DownIs
<1> HIDE DEF d
<1>2. \A i, j \in 1..Len(d) : i < j => <<d[i], d[j]>> \in R
  BY <1>1
<1> HIDE DEF R
<1>3. /\ s \in Seq(Int)
      /\ \A e : e \in ToSet(s) <=> e \in ToSet(d) /\ e \in Boundaries
      /\ \A i, j \in 1..Len(s) : i < j => <<s[i], s[j]>> \in R
  BY <1>1, <1>2, ThoseKeeps DEF d
<1>4. \A i \in 1..Len(s) : s[i] \in ToSet(s)
  BY <1>3 DEF ToSet
<1>5. \A e \in Boundaries : e \in 1..TextLen
  BY DEF Boundaries
<1>6. \A i \in 1..Len(s) : s[i] \in 1..TextLen
  BY <1>3, <1>4, <1>5
<1>7. s \in Seq(1..TextLen)
  <2> DEFINE n == Len(s)
  <2>1. n \in Nat /\ s \in [1..n -> Int]
    BY <1>3, LenProperties
  <2> HIDE DEF n
  <2>2. s \in [1..n -> 1..TextLen]
    BY <2>1, <1>6 DEF n
  <2> QED BY <2>1, <2>2, SeqDef
<1>8. \A i, j \in 1..Len(s) : i < j => s[i] > s[j]
  BY <1>3 DEF R
<1> QED BY <1>1, <1>3, <1>7, <1>8

LEMMA WindowIs ==
  ASSUME ask \in Requests
  PROVE  Window \in Nat /\ Window <= TextLen /\ Least(ask.scan_length, TextLen) <= Window
<1> DEFINE start == Least(ask.scan_length, TextLen)
           inside == ask.by_word /\ start \in 1..TextLen - 1 /\ ask.word[start]
           ends == {q \in start..TextLen : \A k \in start + 1..q : ask.word[k]}
<1>1. ask.scan_length \in Nat /\ TextLen \in Nat
  BY LookupAssumption
<1>2. start \in Nat /\ start <= TextLen
  BY <1>1 DEF Least
<1>3. Window = IF inside THEN CHOOSE q \in ends : \A r \in ends : r <= q ELSE start
  BY DEF Window
<1>4. start \in ends
  BY <1>2
<1>5. \A q \in ends : q \in Nat /\ q <= TextLen /\ start <= q
  BY <1>1, <1>2
<1> HIDE DEF start, inside, ends
<1>6. \E q \in ends : \A r \in ends : r <= q
  <2> DEFINE S == {TextLen - q : q \in ends}
  <2>1. S \in SUBSET Nat /\ S # {}
    BY <1>1, <1>4, <1>5
  <2>2. PICK m \in S : \A k \in S : m <= k
    BY <2>1, LeastNat
  <2>3. PICK q \in ends : m = TextLen - q
    OBVIOUS
  <2>4. \A r \in ends : TextLen - q <= TextLen - r
    BY <2>2, <2>3
  <2> QED BY <2>4, <1>1, <1>5
<1>7. inside => Window \in ends
  BY <1>3, <1>6
<1> QED BY <1>2, <1>3, <1>5, <1>7 DEF start

LEMMA ScanIs ==
  ASSUME ask \in Requests
  PROVE  /\ Scan \in Seq(1..TextLen)
         /\ \A p : p \in ToSet(Scan) <=> p \in 1..Window /\ p \in Boundaries
         /\ \A i, j \in 1..Len(Scan) : i < j => Scan[i] > Scan[j]
<1>1. Window \in Int /\ Window <= TextLen /\ TextLen \in Nat
  BY WindowIs, LookupAssumption
<1> QED BY <1>1, DescentIs DEF Scan

LEMMA LongKeyIs ==
  ASSUME ask \in Requests, NEW texts \in SUBSET Forms
  PROVE  LongKey(texts) \in Nat /\ \A t \in texts : ask.long_key[t] <= LongKey(texts)
<1> DEFINE S == {0} \cup {ask.long_key[t] : t \in texts}
           R == {LongMax - x : x \in S}
<1>1. LongMax \in Nat /\ ask.long_key \in [Forms -> 0..LongMax]
  BY LookupAssumption
<1>2. \A x \in S : x \in Nat /\ x <= LongMax
  BY <1>1
<1>3. \A t \in texts : ask.long_key[t] \in S
  OBVIOUS
<1> HIDE DEF S
<1>4. R \in SUBSET Nat /\ R # {}
  BY <1>1, <1>2 DEF S
<1>5. PICK r \in R : \A q \in R : r <= q
  BY <1>4, LeastNat
<1>6. PICK m \in S : r = LongMax - m
  OBVIOUS
<1>7. \A x \in S : m >= x
  <2> SUFFICES ASSUME NEW x \in S PROVE m >= x
    OBVIOUS
  <2>1. LongMax - m <= LongMax - x
    BY <1>5, <1>6
  <2> QED BY <2>1, <1>1, <1>2
<1>8. Max(S) \in S /\ \A x \in S : Max(S) >= x
  BY <1>7 DEF Max
<1>9. LongKey(texts) = Max(S)
  BY DEF LongKey, S
<1> QED BY <1>2, <1>3, <1>8, <1>9

LEMMA ExtensionIs ==
  ASSUME ask \in Requests, NEW texts \in SUBSET Forms
  PROVE  /\ Extension(texts) \in Seq(1..TextLen)
         /\ \A p \in ToSet(Extension(texts)) : p > Window
         /\ \A i, j \in 1..Len(Extension(texts)) : i < j => Extension(texts)[i] > Extension(texts)[j]
         /\ Extends(texts) => \A p \in Boundaries : p > Window /\ p <= LongKey(texts) + Slack => p \in ToSet(Extension(texts))
<1> DEFINE goes == Extends(texts)
           hi == Least(LongKey(texts) + Slack, TextLen)
           s == Those(Down(hi, Window + 1), Boundaries)
<1>1. Window \in Nat /\ TextLen \in Nat /\ Slack \in Nat /\ LongKey(texts) \in Nat
  BY WindowIs, LongKeyIs, LookupAssumption
<1>2. hi \in Int /\ hi <= TextLen /\ Window + 1 \in Int /\ Window + 1 >= 1
  BY <1>1 DEF Least
<1>3. /\ s \in Seq(1..TextLen)
      /\ \A p : p \in ToSet(s) <=> p \in Window + 1..hi /\ p \in Boundaries
      /\ \A i, j \in 1..Len(s) : i < j => s[i] > s[j]
  BY <1>2, DescentIs
<1>4. \A p \in Boundaries : p > Window /\ p <= LongKey(texts) + Slack => p \in Window + 1..hi
  <2>1. \A p \in Boundaries : p \in Nat /\ p <= TextLen
    BY <1>1 DEF Boundaries
  <2> QED BY <2>1, <1>1 DEF Least
<1>5. Extension(texts) = IF goes THEN s ELSE <<>>
  BY DEF Extension
<1>6. \A p \in Window + 1..hi : p > Window
  BY <1>1, <1>2
<1> HIDE DEF s, hi, goes
<1>7. CASE goes
  BY <1>3, <1>4, <1>5, <1>6, <1>7
<1>8. CASE ~goes
  <2>1. Extension(texts) = <<>> /\ ToSet(<<>>) = {}
    BY <1>5, <1>8 DEF ToSet
  <2>2. Extension(texts) \in Seq(1..TextLen) /\ Len(Extension(texts)) = 0
    BY <2>1
  <2> QED BY <2>1, <2>2, <1>8 DEF goes
<1> QED BY <1>7, <1>8

-----------------------------------------------------------------------------
(* The steps.                                                              *)

LEMMA AreHits == Glossed \subseteq Hits /\ Unconfirming \subseteq Hits
BY DEF Glossed, Unconfirming

LEMMA AllGlossedFits ==
  ASSUME NEW f, AllGlossed(f)
  PROVE  Unconfirmed(f)
BY DEF AllGlossed, Unconfirmed

\* merge: hits with glossaries are added, notes are appended.
LEMMA MergeKeeps ==
  ASSUME TypesOK, CandidatesFit, phase \notin {"rank", "done"},
         NEW len \in 1..TextLen, NEW ds \in Seq(Deinflection), Merge(len, ds)
  PROVE  /\ found' \in Founds /\ Agree(ask.shortest, found') /\ AllGlossed(found') /\ Unconfirmed(found')
         /\ ToSet(found.hits) \subseteq ToSet(found'.hits)
         /\ \A i \in 1..Len(ds) : \A t \in LookedUp(ds[i]) : \E h \in ToSet(found'.hits) : h.term = t /\ h.len = len
         /\ followed' \in Seq(Notes) /\ followed_done \in 0..Len(followed')
<1> DEFINE hs == MergeHits(len, ds)
           ns == MergeNotes(len, ds)
<1>1. found' = AddAll(found, hs) /\ followed' = followed \o ns
  BY DEF Merge, MergeHits, MergeNotes
<1>2. /\ hs \in Seq(Glossed) /\ ns \in Seq(Notes)
      /\ \A i \in 1..Len(ds) : \A t \in LookedUp(ds[i]) : \E h \in ToSet(hs) : h.term = t /\ h.len = len
  BY MergeTyped DEF TypesOK
<1>3. found \in Founds /\ Agree(ask.shortest, found) /\ AllGlossed(found)
  BY DEF TypesOK, CandidatesFit
<1> HIDE DEF hs, ns
<1>4. hs \in Seq(Hits)
  <2>1. hs \in Seq(Glossed)
    BY <1>2
  <2> QED BY <2>1, AreHits, SeqMonotonic
<1>5. found' \in Founds /\ Agree(ask.shortest, found')
  BY <1>1, <1>3, <1>4, AddAllAgrees
<1>6. AllGlossed(found')
  BY <1>1, <1>2, <1>3, AddAllGlossed
<1>7. Unconfirmed(found')
  BY <1>6, AllGlossedFits
<1>8. ToSet(found.hits) \subseteq ToSet(found'.hits) /\ ToSet(hs) \subseteq ToSet(found'.hits)
  BY <1>1, <1>3, <1>4, AddAllHits
<1>9. followed' \in Seq(Notes) /\ followed_done \in 0..Len(followed')
  <2>1. followed \in Seq(Notes) /\ followed_done \in 0..Len(followed) /\ Len(followed) \in Nat /\ Len(ns) \in Nat
    BY <1>2 DEF TypesOK
  <2>2. followed \o ns \in Seq(Notes) /\ Len(followed \o ns) = Len(followed) + Len(ns)
    BY <2>1, <1>2, ConcatProperties
  <2> QED BY <2>1, <2>2, <1>1
<1> QED BY <1>2, <1>5, <1>6, <1>7, <1>8, <1>9

LEMMA FollowKeeps ==
  ASSUME TypesOK, CandidatesFit, phase \notin {"rank", "done"}, Follow
  PROVE  /\ found' \in Founds /\ Agree(ask.shortest, found') /\ AllGlossed(found') /\ Unconfirmed(found')
         /\ ToSet(found.hits) \subseteq ToSet(found'.hits)
         /\ followed_done' \in 0..Len(followed)
<1> DEFINE hs == FollowHits
<1>1. found' = AddAll(found, hs) /\ followed_done' = Len(followed)
  BY DEF Follow, FollowHits
<1>2. hs \in Seq(Glossed)
  BY FollowTyped DEF TypesOK
<1>3. found \in Founds /\ Agree(ask.shortest, found) /\ AllGlossed(found) /\ Len(followed) \in Nat
  BY DEF TypesOK, CandidatesFit
<1> HIDE DEF hs
<1>4. hs \in Seq(Hits)
  <2>1. hs \in Seq(Glossed)
    BY <1>2
  <2> QED BY <2>1, AreHits, SeqMonotonic
<1>5. found' \in Founds /\ Agree(ask.shortest, found')
  BY <1>1, <1>3, <1>4, AddAllAgrees
<1>6. AllGlossed(found')
  BY <1>1, <1>2, <1>3, AddAllGlossed
<1>7. Unconfirmed(found')
  BY <1>6, AllGlossedFits
<1>8. ToSet(found.hits) \subseteq ToSet(found'.hits)
  BY <1>1, <1>3, <1>4, AddAllHits
<1> QED BY <1>1, <1>3, <1>5, <1>6, <1>7, <1>8

\* What is read depends on the request alone.
LEMMA RequestKept ==
  ASSUME ask' = ask
  PROVE  /\ Scan' = Scan
         /\ prefix_variants' = prefix_variants => Extension(prefix_variants)' = Extension(prefix_variants)
         /\ \A form : Query(form)' = Query(form)
         /\ \A d : LookedUp(d)' = LookedUp(d)
<1>1. Window' = Window /\ Boundaries' = Boundaries
  BY DEF Window, Boundaries, Boundary
<1>2. Scan' = Scan
  BY <1>1 DEF Scan
<1>3. ASSUME prefix_variants' = prefix_variants PROVE Extension(prefix_variants)' = Extension(prefix_variants)
  <2>1. LongKey(prefix_variants)' = LongKey(prefix_variants)
    BY <1>3 DEF LongKey
  <2> QED BY <2>1, <1>1, <1>3 DEF Extension, Extends
<1>4. \A form : Query(form)' = Query(form)
  BY DEF Query
<1>5. \A d : LookedUp(d)' = LookedUp(d)
  BY <1>4 DEF LookedUp
<1> QED BY <1>2, <1>3, <1>4, <1>5

\* No hit is lost, and no prefix read: what was reached stays reached.
LEMMA StillHit ==
  ASSUME ScannedHit, ask' = ask, scanned' = scanned, results' = results, ToSet(found.hits) \subseteq ToSet(found'.hits)
  PROVE  ScannedHit'
<1>1. \A d : LookedUp(d)' = LookedUp(d)
  BY RequestKept
<1> SUFFICES ASSUME NEW k \in 1..Len(scanned), NEW i \in 1..Len(results[k]), NEW t \in LookedUp(results[k][i])
             PROVE  \E h \in ToSet(found'.hits) : h.term = t /\ h.len = scanned[k]
  BY <1>1 DEF ScannedHit
<1>2. \E h \in ToSet(found.hits) : h.term = t /\ h.len = scanned[k]
  BY DEF ScannedHit
<1> QED BY <1>2

LEMMA ScanPrefixKeeps ==
  ASSUME IInv, ScanPrefix
  PROVE  IInv'
<1> DEFINE p == Head(todo)
<1>1. PICK all \in ReadingsAt[p] :
        LET bare == Those(all, {d \in ToSet(all) : ask.metadata_only /\ d.conditions = {}})
        IN  /\ Merge(p, all)
            /\ probes' = probes \o [i \in DOMAIN bare |-> [len |-> p, from |-> bare[i]]]
            /\ results' = Append(results, all)
  BY DEF ScanPrefix
<1> DEFINE bare == Those(all, {d \in ToSet(all) : ask.metadata_only /\ d.conditions = {}})
<1>2. /\ phase \in {"scan", "extension"} /\ todo # <<>>
      /\ scanned' = Append(scanned, p) /\ todo' = Tail(todo)
      /\ ask' = ask /\ phase' = phase /\ followed_done' = followed_done /\ prefix_variants' = prefix_variants
  BY DEF ScanPrefix
<1>3. /\ todo \in Seq(1..TextLen) /\ scanned \in Seq(1..TextLen) /\ probes \in Seq(Probes)
      /\ results \in Seq(Seq(Deinflection)) /\ Len(results) = Len(scanned)
      /\ ask \in Requests
  BY DEF IInv, TypesOK
<1>4. p \in 1..TextLen /\ Tail(todo) \in Seq(1..TextLen) /\ todo = <<p>> \o Tail(todo)
  <2>1. Head(todo) \in 1..TextLen /\ Tail(todo) \in Seq(1..TextLen)
    BY <1>2, <1>3, HeadTailProperties
  <2>2. todo = <<Head(todo)>> \o Tail(todo)
    BY <1>2, <1>3
  <2> QED BY <2>1, <2>2
<1>6. all \in Seq(Deinflection)
  BY <1>1, <1>4, LookupAssumption
<1>7. /\ Merge(p, all) /\ probes' = probes \o [i \in DOMAIN bare |-> [len |-> p, from |-> bare[i]]]
      /\ results' = Append(results, all)
  BY <1>1
<1>8. bare \in Seq(Deinflection)
  <2> DEFINE S == {d \in ToSet(all) : ask.metadata_only /\ d.conditions = {}}
  <2> HIDE DEF S
  <2>1. Those(all, S) \in Seq(Deinflection)
    BY <1>6, ThoseKeeps
  <2> QED BY <2>1 DEF S
<1> HIDE DEF p, bare
<1>9. probes' \in Seq(Probes)
  <2> DEFINE new == [i \in DOMAIN bare |-> [len |-> p, from |-> bare[i]]]
  <2>1. \A i \in DOMAIN bare : [len |-> p, from |-> bare[i]] \in Probes
    BY <1>4, <1>8 DEF Probes
  <2>2. new \in Seq(Probes)
    BY <2>1, <1>8
  <2> HIDE DEF new
  <2> QED BY <2>2, <1>3, <1>7, ConcatProperties DEF new
<1>10. /\ found' \in Founds /\ Agree(ask.shortest, found') /\ AllGlossed(found') /\ Unconfirmed(found')
       /\ ToSet(found.hits) \subseteq ToSet(found'.hits)
       /\ \A i \in 1..Len(all) : \A t \in LookedUp(all[i]) : \E h \in ToSet(found'.hits) : h.term = t /\ h.len = p
       /\ followed' \in Seq(Notes) /\ followed_done \in 0..Len(followed')
  BY <1>2, <1>4, <1>6, <1>7, MergeKeeps DEF IInv
<1>5. /\ scanned' = Append(scanned, p) /\ results' = Append(results, all)
      /\ all \in Seq(Deinflection) /\ p \in 1..TextLen
  BY <1>2, <1>4, <1>6, <1>7
<1>11. /\ Len(scanned) \in Nat /\ Len(scanned') = Len(scanned) + 1 /\ scanned'[Len(scanned) + 1] = p
       /\ \A k \in 1..Len(scanned) : scanned'[k] = scanned[k]
       /\ Len(results') = Len(results) + 1 /\ results'[Len(results) + 1] = all
       /\ \A k \in 1..Len(results) : results'[k] = results[k]
       /\ scanned' \in Seq(1..TextLen) /\ results' \in Seq(Seq(Deinflection))
  <2>1. /\ Len(scanned') = Len(scanned) + 1 /\ scanned'[Len(scanned) + 1] = p
        /\ (\A k \in 1..Len(scanned) : scanned'[k] = scanned[k]) /\ scanned' \in Seq(1..TextLen)
    BY <1>3, <1>5, AppendProperties
  <2>2. /\ Len(results') = Len(results) + 1 /\ results'[Len(results) + 1] = all
        /\ (\A k \in 1..Len(results) : results'[k] = results[k]) /\ results' \in Seq(Seq(Deinflection))
    BY <1>3, <1>5, AppendProperties
  <2>3. Len(scanned) \in Nat
    BY <1>3
  <2> QED BY <2>1, <2>2, <2>3
<1>12. TypesOK'
  <2>1. prefix_variants \subseteq Forms
    BY DEF IInv, TypesOK
  <2> QED BY <2>1, <1>2, <1>3, <1>4, <1>9, <1>10, <1>11 DEF TypesOK
<1>13. CandidatesFit'
  BY <1>2, <1>10 DEF CandidatesFit
<1>14. ScanInOrder'
  <2>1. scanned' \o todo' = scanned \o todo
    <3> DEFINE q == p
    <3>1. q \in 1..TextLen /\ todo = <<q>> \o Tail(todo) /\ scanned' = Append(scanned, q) /\ todo' = Tail(todo)
      BY <1>2, <1>4
    <3> HIDE DEF q
    <3>2. scanned' = scanned \o <<q>>
      BY <3>1, <1>3
    <3>3. Tail(todo) \in Seq(1..TextLen)
      BY <1>4
    <3> QED BY <3>1, <3>2, <3>3, <1>3
  <2>2. Scan' = Scan /\ Extension(prefix_variants)' = Extension(prefix_variants)
    BY <1>2, RequestKept
  <2> QED BY <2>1, <2>2, <1>2 DEF IInv, ScanInOrder
<1>15. ScannedHit'
  <2>1. \A d : LookedUp(d)' = LookedUp(d)
    BY <1>2, RequestKept
  <2> SUFFICES ASSUME NEW k \in 1..Len(scanned'), NEW i \in 1..Len(results'[k]), NEW t \in LookedUp(results'[k][i])
               PROVE  \E h \in ToSet(found'.hits) : h.term = t /\ h.len = scanned'[k]
    BY <2>1 DEF ScannedHit
  <2>3. CASE k = Len(scanned) + 1
    <3>1. scanned'[k] = p /\ results'[k] = all
      BY <2>3, <1>3, <1>11
    <3> QED BY <3>1, <1>10
  <2>4. CASE k # Len(scanned) + 1
    <3>0. Len(scanned) \in Nat /\ Len(scanned') = Len(scanned) + 1 /\ Len(results) = Len(scanned)
      BY <1>3, <1>11
    <3>1. k \in 1..Len(scanned) /\ k \in 1..Len(results)
      BY <3>0, <2>4
    <3>4. scanned'[k] = scanned[k] /\ results'[k] = results[k]
      BY <3>1, <1>11
    <3>2. \E h \in ToSet(found.hits) : h.term = t /\ h.len = scanned[k]
      <4>1. i \in 1..Len(results[k]) /\ t \in LookedUp(results[k][i])
        BY <3>4
      <4> QED BY <4>1, <3>1 DEF IInv, ScannedHit
    <3> QED BY <3>4, <3>2, <1>10
  <2> QED BY <2>3, <2>4
<1> QED BY <1>12, <1>13, <1>14, <1>15 DEF IInv

LEMMA InitFits == Init => IInv
<1> SUFFICES ASSUME Init PROVE IInv
  OBVIOUS
<1>1. /\ ask \in Requests /\ phase = "scan" /\ todo = Scan /\ scanned = <<>>
      /\ results = <<>> /\ prefix_variants = {}
      /\ found.candidates = <<>> /\ found.hits = <<>> /\ found = [candidates |-> <<>>, hits |-> <<>>]
      /\ followed = <<>> /\ followed_done = 0 /\ probes = <<>>
  BY DEF Init
<1>2. Scan \in Seq(1..TextLen)
  BY <1>1, ScanIs
<1>3. TypesOK
  BY <1>1, <1>2 DEF TypesOK, Founds
<1>4. CandidatesFit
  BY <1>1 DEF CandidatesFit, Agree, AllGlossed, Unconfirmed
<1>5. scanned \o todo = Scan
  <2>1. <<>> \o Scan = Scan
    BY <1>2
  <2> QED BY <2>1, <1>1
<1>6. ScanInOrder /\ ScannedHit
  BY <1>1, <1>5 DEF ScanInOrder, ScannedHit
<1> QED BY <1>3, <1>4, <1>6 DEF IInv

LEMMA ExtendKeeps ==
  ASSUME IInv, Extend
  PROVE  IInv'
<1>1. /\ phase = "scan" /\ todo = <<>> /\ phase' = "extension"
      /\ ask' = ask /\ scanned' = scanned /\ results' = results /\ found' = found
      /\ followed' = followed /\ followed_done' = followed_done /\ probes' = probes
  BY DEF Extend
<1> DEFINE texts == prefix_variants'
<1>2. /\ ask \in Requests /\ scanned \in Seq(1..TextLen) /\ texts \in SUBSET Forms
      /\ todo' = Extension(texts)
  <2>1. texts \in {{}} \cup PrefixTexts /\ todo' = Extension(texts)
    BY DEF Extend
  <2> QED BY <2>1, LookupAssumption DEF IInv, TypesOK
<1> HIDE DEF texts
<1>9. Extension(texts) \in Seq(1..TextLen)
  BY <1>2, ExtensionIs
<1>3. TypesOK'
  BY <1>1, <1>2, <1>9 DEF IInv, TypesOK, texts
<1>4. CandidatesFit'
  BY <1>1 DEF IInv, CandidatesFit
<1>5. Scan' = Scan /\ Extension(prefix_variants)' = Extension(texts)
  <2>1. Window' = Window /\ Boundaries' = Boundaries /\ ask' = ask
    BY <1>1 DEF Window, Boundaries, Boundary
  <2> QED BY <2>1 DEF Scan, Extension, Extends, LongKey, texts
<1>6. scanned = Scan
  <2>1. scanned \o <<>> = scanned
    BY <1>2
  <2> QED BY <2>1, <1>1 DEF IInv, ScanInOrder
<1>7. ScanInOrder'
  BY <1>1, <1>2, <1>5, <1>6 DEF ScanInOrder
<1>8. ScannedHit'
  BY <1>1, StillHit DEF IInv
<1> QED BY <1>3, <1>4, <1>7, <1>8 DEF IInv

LEMMA FollowScanKeeps ==
  ASSUME IInv, FollowScan
  PROVE  IInv'
<1> DEFINE S == {p \in 1..TextLen : p > OrdinaryLen(ordinary')}
<1>1. /\ phase = "extension" /\ todo = <<>> /\ Follow /\ phase' = "passes"
      /\ ask' = ask /\ scanned' = scanned /\ results' = results /\ prefix_variants' = prefix_variants /\ followed' = followed /\ probes' = probes
      /\ todo' = IF ask.passes THEN Those(scanned, S) ELSE <<>>
  BY DEF FollowScan
<1> HIDE DEF S
<1>2. /\ found' \in Founds /\ Agree(ask.shortest, found') /\ AllGlossed(found') /\ Unconfirmed(found')
      /\ ToSet(found.hits) \subseteq ToSet(found'.hits)
      /\ followed_done' \in 0..Len(followed)
  BY <1>1, FollowKeeps DEF IInv
<1>3. todo' \in Seq(1..TextLen) /\ scanned \in Seq(1..TextLen)
  <2>1. scanned \in Seq(1..TextLen)
    BY DEF IInv, TypesOK
  <2>2. Those(scanned, S) \in Seq(1..TextLen)
    BY <2>1, ThoseKeeps
  <2>3. todo' = Those(scanned, S) \/ todo' = <<>>
    BY <1>1
  <2>4. <<>> \in Seq(1..TextLen)
    OBVIOUS
  <2> QED BY <2>1, <2>2, <2>3, <2>4, Zenon
<1>4. TypesOK'
  BY <1>1, <1>2, <1>3 DEF IInv, TypesOK
<1>5. CandidatesFit'
  BY <1>1, <1>2 DEF CandidatesFit
<1>6. ScanInOrder'
  <2>1. Scan' = Scan /\ Extension(prefix_variants)' = Extension(prefix_variants)
    BY <1>1, RequestKept
  <2>2. scanned \o <<>> = scanned
    BY <1>3
  <2> QED BY <2>1, <2>2, <1>1 DEF IInv, ScanInOrder
<1>7. ScannedHit'
  BY <1>1, <1>2, StillHit DEF IInv
<1> QED BY <1>4, <1>5, <1>6, <1>7 DEF IInv

LEMMA ReadPassesKeeps ==
  ASSUME IInv, ReadPasses
  PROVE  IInv'
<1>1. PICK readings \in PassesAt[Head(todo)], more \in BOOLEAN :
        /\ Merge(Head(todo), readings)
        /\ todo' = IF more THEN Tail(todo) ELSE <<>>
  BY DEF ReadPasses
<1>2. /\ phase = "passes" /\ todo # <<>>
      /\ ask' = ask /\ phase' = phase /\ scanned' = scanned /\ results' = results /\ prefix_variants' = prefix_variants /\ followed_done' = followed_done /\ probes' = probes
  BY DEF ReadPasses
<1>3. todo \in Seq(1..TextLen)
  BY DEF IInv, TypesOK
<1>4. Head(todo) \in 1..TextLen /\ Tail(todo) \in Seq(1..TextLen)
  BY <1>2, <1>3, HeadTailProperties
<1>5. readings \in Seq(Deinflection)
  BY <1>1, <1>4, LookupAssumption
<1>6. todo' \in Seq(1..TextLen)
  <2>1. todo' = Tail(todo) \/ todo' = <<>>
    BY <1>1
  <2>2. <<>> \in Seq(1..TextLen)
    OBVIOUS
  <2> QED BY <2>1, <2>2, <1>4, Zenon
<1>7. /\ found' \in Founds /\ Agree(ask.shortest, found') /\ AllGlossed(found') /\ Unconfirmed(found')
      /\ ToSet(found.hits) \subseteq ToSet(found'.hits)
      /\ followed' \in Seq(Notes) /\ followed_done \in 0..Len(followed')
  BY <1>1, <1>2, <1>4, <1>5, MergeKeeps DEF IInv
<1>8. TypesOK'
  BY <1>2, <1>6, <1>7 DEF IInv, TypesOK
<1>9. CandidatesFit'
  BY <1>2, <1>7 DEF CandidatesFit
<1>10. ScanInOrder'
  BY <1>2, RequestKept DEF IInv, ScanInOrder
<1>11. ScannedHit'
  BY <1>2, <1>7, StillHit DEF IInv
<1> QED BY <1>8, <1>9, <1>10, <1>11 DEF IInv

LEMMA FollowPassesKeeps ==
  ASSUME IInv, FollowPasses
  PROVE  IInv'
<1>1. /\ phase = "passes" /\ Follow /\ phase' = "metadata"
      /\ ask' = ask /\ todo' = todo /\ scanned' = scanned /\ results' = results /\ prefix_variants' = prefix_variants /\ followed' = followed /\ probes' = probes
  BY DEF FollowPasses
<1>2. /\ found' \in Founds /\ Agree(ask.shortest, found') /\ AllGlossed(found') /\ Unconfirmed(found')
      /\ ToSet(found.hits) \subseteq ToSet(found'.hits)
      /\ followed_done' \in 0..Len(followed)
  BY <1>1, FollowKeeps DEF IInv
<1>3. TypesOK'
  BY <1>1, <1>2 DEF IInv, TypesOK
<1>4. CandidatesFit'
  BY <1>1, <1>2 DEF CandidatesFit
<1>5. ScanInOrder'
  BY <1>1, RequestKept DEF IInv, ScanInOrder
<1>6. ScannedHit'
  BY <1>1, <1>2, StillHit DEF IInv
<1> QED BY <1>3, <1>4, <1>5, <1>6 DEF IInv

LEMMA AddMetadataKeeps ==
  ASSUME IInv, AddMetadata
  PROVE  IInv'
<1> DEFINE hs == MetadataHits
<1>1. /\ phase = "metadata" /\ found' = AddAll(found, hs) /\ phase' = "rank"
      /\ ask' = ask /\ todo' = todo /\ scanned' = scanned /\ results' = results /\ prefix_variants' = prefix_variants /\ followed' = followed
      /\ followed_done' = followed_done /\ probes' = probes
  BY DEF AddMetadata, MetadataHits
<1>2. found \in Founds /\ Agree(ask.shortest, found) /\ Unconfirmed(found)
  BY DEF IInv, TypesOK, CandidatesFit
<1>3. hs \in Seq(Unconfirming)
  BY MetadataTyped DEF IInv, TypesOK
<1> HIDE DEF hs
<1>4. hs \in Seq(Hits)
  BY <1>3, AreHits, SeqMonotonic
<1>5. found' \in Founds /\ Agree(ask.shortest, found')
  BY <1>1, <1>2, <1>4, AddAllAgrees
<1>6. Unconfirmed(found')
  BY <1>1, <1>2, <1>3, AddAllUnconfirmed
<1>7. ToSet(found.hits) \subseteq ToSet(found'.hits)
  BY <1>1, <1>2, <1>4, AddAllHits
<1>8. TypesOK'
  BY <1>1, <1>5 DEF IInv, TypesOK
<1>9. CandidatesFit'
  BY <1>1, <1>5, <1>6 DEF CandidatesFit
<1>10. ScanInOrder'
  BY <1>1, RequestKept DEF IInv, ScanInOrder
<1>11. ScannedHit'
  BY <1>1, <1>7, StillHit DEF IInv
<1> QED BY <1>8, <1>9, <1>10, <1>11 DEF IInv

LEMMA RankKeeps ==
  ASSUME IInv, Rank
  PROVE  IInv'
<1>1. /\ phase = "rank" /\ phase' = "done"
      /\ ask' = ask /\ todo' = todo /\ scanned' = scanned /\ results' = results /\ prefix_variants' = prefix_variants /\ found' = found /\ followed' = followed
      /\ followed_done' = followed_done /\ probes' = probes
  BY DEF Rank
<1>2. TypesOK' /\ CandidatesFit'
  BY <1>1 DEF IInv, TypesOK, CandidatesFit
<1>3. ScanInOrder'
  BY <1>1, RequestKept DEF IInv, ScanInOrder
<1>4. ScannedHit'
  BY <1>1, StillHit DEF IInv
<1> QED BY <1>2, <1>3, <1>4 DEF IInv

LEMMA NextKeeps ==
  ASSUME IInv, [Next]_vars
  PROVE  IInv'
<1>1. CASE UNCHANGED vars
  <2>1. /\ ask' = ask /\ phase' = phase /\ todo' = todo /\ scanned' = scanned /\ results' = results /\ prefix_variants' = prefix_variants /\ found' = found
        /\ followed' = followed /\ followed_done' = followed_done /\ probes' = probes
    BY <1>1 DEF vars
  <2>2. TypesOK' /\ CandidatesFit'
    BY <2>1 DEF IInv, TypesOK, CandidatesFit
  <2>3. ScanInOrder'
    BY <2>1, RequestKept DEF IInv, ScanInOrder
  <2>4. ScannedHit'
    BY <2>1, StillHit DEF IInv
  <2> QED BY <2>2, <2>3, <2>4 DEF IInv
<1> QED BY <1>1, ScanPrefixKeeps, ExtendKeeps, FollowScanKeeps, ReadPassesKeeps, FollowPassesKeeps,
           AddMetadataKeeps, RankKeeps DEF Next

\* The history's hits are of the candidates' keys, candidates remember them,
\* and every prefix read has left its hits (the whole of lookup_impl).
THEOREM Inductive == Spec => []IInv
BY InitFits, NextKeeps, PTL DEF Spec

-----------------------------------------------------------------------------
(* What the invariant says of the candidates.                              *)

LEMMA MinIs ==
  ASSUME NEW S, NEW m \in S, S \subseteq Int, \A x \in S : m <= x
  PROVE  Min(S) = m
<1>1. Min(S) \in S /\ \A x \in S : Min(S) <= x
  BY DEF Min
<1>2. Min(S) <= m /\ m <= Min(S) /\ Min(S) \in Int /\ m \in Int
  BY <1>1
<1> HIDE DEF Min
<1> QED BY <1>2

LEMMA BeforeOf3 ==
  ASSUME NEW a1 \in Int, NEW a2 \in Int, NEW a3 \in Int, NEW b1 \in Int, NEW b2 \in Int, NEW b3 \in Int,
         a1 < b1 \/ (a1 = b1 /\ a2 < b2) \/ (a1 = b1 /\ a2 = b2 /\ a3 < b3)
  PROVE  Before(<<a1, a2, a3>>, <<b1, b2, b3>>)
<1> DEFINE x == <<a1, a2, a3>>
           y == <<b1, b2, b3>>
<1>1. DOMAIN x = {1, 2, 3} /\ x[1] = a1 /\ x[2] = a2 /\ x[3] = a3 /\ y[1] = b1 /\ y[2] = b2 /\ y[3] = b3
  OBVIOUS
<1> HIDE DEF x, y
<1>2. CASE a1 < b1
  BY <1>1, <1>2 DEF Before
<1>3. CASE a1 = b1 /\ a2 < b2
  BY <1>1, <1>3 DEF Before
<1>4. CASE a1 = b1 /\ a2 = b2 /\ a3 < b3
  BY <1>1, <1>4 DEF Before
<1> QED BY <1>2, <1>3, <1>4 DEF x, y

LEMMA BeforeOf1 ==
  ASSUME NEW a \in Int, NEW b \in Int, a < b
  PROVE  Before(<<a>>, <<b>>)
<1> DEFINE x == <<a>>
           y == <<b>>
<1>1. DOMAIN x = {1} /\ x[1] = a /\ y[1] = b
  OBVIOUS
<1> HIDE DEF x, y
<1>2. x[1] < y[1] /\ \A j \in 1..1 - 1 : x[j] = y[j]
  BY <1>1
<1>3. Before(x, y)
  BY <1>1, <1>2 DEF Before
<1> QED BY <1>3 DEF x, y

\* A candidate that remembers its hits is the best of them.
LEMMA BestOfHits ==
  ASSUME NEW c \in Candidates, NEW hits \in Seq(Hits), Remembers(ask.shortest, c, hits), ask \in Requests
  PROVE  LET own == {i \in DOMAIN hits : hits[i].term = c.term}
             longest == {i \in own : \A j \in own : hits[j].len <= hits[i].len}
             Cost(i) == IF ask.shortest THEN <<hits[i].steps, hits[i].depth, i>> ELSE <<i>>
             confirming == {i \in longest : hits[i].confirms}
         IN  /\ \E i \in longest : /\ \A j \in longest \ {i} : Before(Cost(i), Cost(j))
                                   /\ Trace(hits[i]) = Trace(c)
             /\ Confirmed(c) <=> confirming # {}
             /\ Confirmed(c) => c.confirmed_rank = Min({hits[i].sequence : i \in confirming})
             /\ WholeWord(c) <=> \E i \in longest : hits[i].whole
<1> DEFINE own == {i \in DOMAIN hits : hits[i].term = c.term}
           longest == {i \in own : \A j \in own : hits[j].len <= hits[i].len}
           Cost(i) == IF ask.shortest THEN <<hits[i].steps, hits[i].depth, i>> ELSE <<i>>
           confirming == {i \in longest : hits[i].confirms}
<1>1. own = Own(c, hits) /\ ask.shortest \in BOOLEAN
  BY LookupAssumption DEF Own
<1> HIDE DEF own
<1>2. \A i \in own : /\ hits[i] \in Hits /\ i \in Int
                     /\ hits[i].len \in Nat /\ hits[i].steps \in Nat /\ hits[i].depth \in Nat /\ hits[i].sequence \in Nat
  <2>1. \A i \in own : hits[i] \in Hits /\ i \in Int
    BY <1>1 DEF Own
  <2> QED BY <2>1, SMTT(30) DEF Hits
<1>3. /\ c.len \in Nat /\ c.len # 0 /\ c.confirmed_len \in Nat /\ c.confirmed_rank \in Nat /\ c.whole_word_len \in Nat
  BY DEF Candidates
<1>4. PICK b \in own : /\ hits[b].len = c.len /\ hits[b].form = c.form /\ hits[b].steps = c.steps
                       /\ hits[b].depth = c.depth /\ hits[b].reference = c.reference
                       /\ \A j \in own : j # b => Beats(ask.shortest, hits, b, j)
  BY <1>1 DEF Remembers, TraceOfBest
<1>5. ASSUME NEW j \in own PROVE hits[j].len <= c.len
  <2>1. hits[j].len \in Nat /\ hits[b].len = c.len /\ (j = b \/ hits[b].len > hits[j].len \/ hits[b].len = hits[j].len)
    BY <1>2, <1>4 DEF Beats
  <2> QED BY <2>1, <1>3
<1>6. \A j : j \in longest <=> j \in own /\ hits[j].len = c.len
  BY <1>2, <1>3, <1>4, <1>5
<1>7. b \in longest /\ Trace(hits[b]) = Trace(c)
  BY <1>4, <1>6 DEF Trace
<1>8. ASSUME NEW j \in longest \ {b} PROVE Before(Cost(b), Cost(j))
  <2>1. j \in own /\ hits[j].len = hits[b].len /\ Beats(ask.shortest, hits, b, j)
    BY <1>4, <1>6, <1>8
  <2>2. Cheaper(ask.shortest, hits, b, j)
    BY <2>1, <1>2, <1>4 DEF Beats
  <2>3. CASE ask.shortest
    <3>1. \/ hits[b].steps < hits[j].steps
          \/ hits[b].steps = hits[j].steps /\ hits[b].depth < hits[j].depth
          \/ hits[b].steps = hits[j].steps /\ hits[b].depth = hits[j].depth /\ b < j
      BY <2>2, <2>3 DEF Cheaper
    <3>2. Before(<<hits[b].steps, hits[b].depth, b>>, <<hits[j].steps, hits[j].depth, j>>)
      <4>1. /\ hits[b].steps \in Int /\ hits[b].depth \in Int /\ b \in Int
            /\ hits[j].steps \in Int /\ hits[j].depth \in Int /\ j \in Int
        BY <2>1, <1>2, <1>4
      <4> QED BY <4>1, <3>1, BeforeOf3
    <3> QED BY <3>2, <2>3
  <2>4. CASE ~ask.shortest
    <3>1. b < j /\ b \in Int /\ j \in Int
      BY <2>1, <2>2, <2>4, <1>2, <1>4 DEF Cheaper
    <3> QED BY <3>1, <2>4, BeforeOf1
  <2> QED BY <2>3, <2>4
<1> HIDE DEF longest, Cost
<1>9. \A j : j \in confirming <=> j \in own /\ hits[j].len = c.len /\ hits[j].confirms
  BY <1>6
<1> HIDE DEF confirming
<1>10. /\ \A j \in own : hits[j].confirms =>
            /\ hits[j].len <= c.confirmed_len
            /\ hits[j].len = c.confirmed_len => c.confirmed_rank <= hits[j].sequence
       /\ c.confirmed_len # 0 =>
            \E j \in own : hits[j].confirms /\ hits[j].len = c.confirmed_len /\ hits[j].sequence = c.confirmed_rank
       /\ \A j \in own : hits[j].whole => hits[j].len <= c.whole_word_len
       /\ c.whole_word_len # 0 => \E j \in own : hits[j].whole /\ hits[j].len = c.whole_word_len
  BY <1>1 DEF Remembers, ConfirmedByFirst, WholeByLongest
<1>11. Confirmed(c) <=> confirming # {}
  <2>1. ASSUME c.confirmed_len = c.len PROVE confirming # {}
    BY <2>1, <1>3, <1>9, <1>10
  <2>2. ASSUME NEW j \in confirming PROVE c.confirmed_len = c.len
    <3>1. j \in own /\ hits[j].len = c.len /\ c.len <= c.confirmed_len
      BY <2>2, <1>9, <1>10
    <3>2. c.confirmed_len <= c.len
      BY <3>1, <1>3, <1>5, <1>10
    <3> QED BY <3>1, <3>2, <1>3
  <2> QED BY <2>1, <2>2 DEF Confirmed
<1>12. ASSUME Confirmed(c) PROVE c.confirmed_rank = Min({hits[i].sequence : i \in confirming})
  <2> DEFINE S == {hits[i].sequence : i \in confirming}
  <2>1. c.confirmed_len = c.len /\ c.confirmed_len # 0
    BY <1>3, <1>12 DEF Confirmed
  <2>2. \A i \in confirming : i \in own /\ hits[i].confirms /\ hits[i].len = c.confirmed_len /\ hits[i].sequence \in Int
    BY <2>1, <1>2, <1>9
  <2>3. S \subseteq Int /\ \A x \in S : c.confirmed_rank <= x
    BY <2>2, <1>10
  <2>4. c.confirmed_rank \in S
    <3>1. PICK j \in own : hits[j].confirms /\ hits[j].len = c.confirmed_len /\ hits[j].sequence = c.confirmed_rank
      BY <2>1, <1>10
    <3>2. j \in confirming
      BY <3>1, <2>1, <1>9
    <3> QED BY <3>1, <3>2
  <2> HIDE DEF S
  <2>5. Min(S) = c.confirmed_rank
    BY <2>3, <2>4, MinIs
  <2> QED BY <2>5 DEF S
<1>13. WholeWord(c) <=> \E i \in longest : hits[i].whole
  <2>1. ASSUME c.whole_word_len = c.len PROVE \E i \in longest : hits[i].whole
    BY <2>1, <1>3, <1>6, <1>10
  <2>2. ASSUME NEW j \in longest, hits[j].whole PROVE c.whole_word_len = c.len
    <3>1. j \in own /\ hits[j].len = c.len /\ c.len <= c.whole_word_len
      BY <2>2, <1>6, <1>10
    <3>2. c.whole_word_len <= c.len
      BY <3>1, <1>3, <1>5, <1>10
    <3> QED BY <3>1, <3>2, <1>3
  <2> QED BY <2>1, <2>2 DEF WholeWord
<1>14. \E i \in longest : (\A j \in longest \ {i} : Before(Cost(i), Cost(j))) /\ Trace(hits[i]) = Trace(c)
  BY <1>7, <1>8
<1> QED BY <1>11, <1>12, <1>13, <1>14 DEF own, longest, Cost, confirming

\* "A term keeps the first deinflection that reached it at its longest matched
\* length" (docs/languages.md 9.6): whatever order the scan, its extension,
\* references, passes and metadata add hits in.
THEOREM BestKept == Spec => []EachTermAtItsBest
<1>1. ASSUME IInv PROVE EachTermAtItsBest
  <2> DEFINE cs == found.candidates
             hits == found.hits
  <2>1. /\ cs \in Seq(Candidates) /\ hits \in Seq(Hits) /\ ask \in Requests
        /\ Agree(ask.shortest, found)
    BY <1>1 DEF IInv, TypesOK, CandidatesFit, Founds
  <2>2. DOMAIN cs = 1..Len(cs) /\ DOMAIN hits = 1..Len(hits)
    BY <2>1
  <2>3. \A i, j \in Places : found.candidates[i].term = found.candidates[j].term => i = j
    BY <2>1, <2>2 DEF Agree, Places
  <2>4. ASSUME NEW h \in ToSet(hits) PROVE \E i \in Places : cs[i].term = h.term
    <3>1. PICK k \in 1..Len(hits) : h = hits[k]
      BY <2>2 DEF ToSet
    <3> QED BY <3>1, <2>1, <2>2 DEF Agree, Places
  <2>5. ASSUME NEW c \in ToSet(cs) PROVE c \in Candidates /\ Remembers(ask.shortest, c, hits)
    <3>1. PICK i \in 1..Len(cs) : c = cs[i]
      BY <2>2 DEF ToSet
    <3> QED BY <3>1, <2>1 DEF Agree
  <2> HIDE DEF cs, hits
  <2>6. \A c \in ToSet(cs) :
          LET own == {i \in DOMAIN hits : hits[i].term = c.term}
              longest == {i \in own : \A j \in own : hits[j].len <= hits[i].len}
              Cost(i) == IF ask.shortest THEN <<hits[i].steps, hits[i].depth, i>> ELSE <<i>>
              confirming == {i \in longest : hits[i].confirms}
          IN  /\ \E i \in longest : /\ \A j \in longest \ {i} : Before(Cost(i), Cost(j))
                                    /\ Trace(hits[i]) = Trace(c)
              /\ Confirmed(c) <=> confirming # {}
              /\ Confirmed(c) => c.confirmed_rank = Min({hits[i].sequence : i \in confirming})
              /\ WholeWord(c) <=> \E i \in longest : hits[i].whole
    BY <2>1, <2>5, BestOfHits
  <2> QED BY <2>3, <2>4, <2>6 DEF EachTermAtItsBest, cs, hits
<1> QED BY <1>1, Inductive, PTL

-----------------------------------------------------------------------------
(* Which keys the scan reaches.                                            *)

\* A hit's term is a candidate's, and read at least as far.
LEMMA HitIsCandidate ==
  ASSUME NEW h \in ToSet(found.hits), found \in Founds, ask \in Requests, Agree(ask.shortest, found)
  PROVE  \E c \in ToSet(found.candidates) : c.term = h.term /\ c.len >= h.len
<1> DEFINE hits == found.hits
           cs == found.candidates
<1>1. hits \in Seq(Hits) /\ cs \in Seq(Candidates)
  BY DEF Founds
<1>2. PICK k \in 1..Len(hits) : h = hits[k]
  BY <1>1 DEF ToSet
<1>3. PICK i \in 1..Len(cs) : cs[i].term = h.term
  BY <1>2 DEF Agree
<1>4. Remembers(ask.shortest, cs[i], hits) /\ cs[i] \in ToSet(cs)
  BY <1>1, <1>3 DEF Agree, ToSet
<1>5. k \in Own(cs[i], hits)
  BY <1>2, <1>3 DEF Own
<1>6. PICK b \in Own(cs[i], hits) : /\ hits[b].len = cs[i].len
                                    /\ \A j \in Own(cs[i], hits) : j # b => Beats(ask.shortest, hits, b, j)
  BY <1>4 DEF Remembers, TraceOfBest
<1>7. hits[k].len \in Nat /\ hits[b].len \in Nat
  <2>1. hits[k] \in Hits /\ hits[b] \in Hits
    BY <1>1, <1>5, <1>6 DEF Own
  <2> QED BY <2>1, SMTT(30) DEF Hits
<1>8. k = b \/ hits[b].len > hits[k].len \/ hits[b].len = hits[k].len
  BY <1>5, <1>6 DEF Beats
<1>9. cs[i].len >= h.len
  BY <1>2, <1>6, <1>7, <1>8
<1> QED BY <1>3, <1>4, <1>9

LEMMA ElementIs ==
  ASSUME NEW X, NEW s \in Seq(X)
  PROVE  /\ Len(s) \in Nat /\ \A i \in 1..Len(s) : s[i] \in ToSet(s) /\ s[i] \in X
         /\ \A e \in ToSet(s) : e \in X
<1>1. DOMAIN s = 1..Len(s) /\ Len(s) \in Nat /\ \A i \in 1..Len(s) : s[i] \in X
  OBVIOUS
<1> QED BY <1>1 DEF ToSet

LEMMA ScannedOnce ==
  ASSUME ask \in Requests, NEW texts \in SUBSET Forms
  PROVE  IsInjective(Scan \o Extension(texts))
<1> DEFINE a == Scan
           e == Extension(texts)
           s == a \o e
<1>1. /\ a \in Seq(1..TextLen) /\ e \in Seq(1..TextLen)
      /\ \A i, j \in 1..Len(a) : i < j => a[i] > a[j]
      /\ \A i, j \in 1..Len(e) : i < j => e[i] > e[j]
      /\ \A p \in ToSet(a) : p \in 1..Window
      /\ \A p \in ToSet(e) : p > Window
  BY ScanIs, ExtensionIs
<1> HIDE DEF a, e
<1>2. /\ Window \in Nat /\ Len(a) \in Nat /\ Len(e) \in Nat
      /\ \A i \in 1..Len(a) : a[i] \in Nat /\ a[i] <= Window
      /\ \A i \in 1..Len(e) : e[i] \in Nat /\ e[i] > Window
  <2>1. \A z \in Seq(1..TextLen) : Len(z) \in Nat /\ \A i \in 1..Len(z) : z[i] \in ToSet(z) /\ z[i] \in 1..TextLen
    BY ElementIs
  <2> QED BY <2>1, <1>1, WindowIs
<1>3. /\ s \in Seq(1..TextLen) /\ Len(s) = Len(a) + Len(e)
      /\ \A i \in 1..Len(a) : s[i] = a[i]
      /\ \A i \in 1..Len(e) : s[Len(a) + i] = e[i]
  BY <1>1, ConcatProperties
<1> HIDE DEF s
<1>4. \A i \in 1..Len(s) : i \in 1..Len(a) \/ (i - Len(a) \in 1..Len(e) /\ s[i] = e[i - Len(a)])
  <2> SUFFICES ASSUME NEW i \in 1..Len(s), i \notin 1..Len(a)
               PROVE  i - Len(a) \in 1..Len(e) /\ s[i] = e[i - Len(a)]
    OBVIOUS
  <2>1. i - Len(a) \in 1..Len(e) /\ Len(a) + (i - Len(a)) = i
    BY <1>2, <1>3
  <2> QED BY <2>1, <1>3
<1>5. ASSUME NEW i \in 1..Len(s), NEW j \in 1..Len(s), i < j PROVE s[i] # s[j]
  <2>1. CASE j \in 1..Len(a)
    <3>1. i \in 1..Len(a)
      BY <1>2, <1>3, <1>5, <2>1
    <3> QED BY <3>1, <2>1, <1>1, <1>2, <1>3, <1>5
  <2>2. CASE i \in 1..Len(a) /\ j \notin 1..Len(a)
    <3>1. s[i] = a[i] /\ a[i] <= Window /\ a[i] \in Nat
      BY <2>2, <1>2, <1>3
    <3>2. s[j] > Window /\ s[j] \in Nat
      BY <2>2, <1>2, <1>4
    <3> QED BY <3>1, <3>2, <1>2
  <2>3. CASE i \notin 1..Len(a) /\ j \notin 1..Len(a)
    <3>1. /\ i - Len(a) \in 1..Len(e) /\ s[i] = e[i - Len(a)]
          /\ j - Len(a) \in 1..Len(e) /\ s[j] = e[j - Len(a)]
          /\ i - Len(a) < j - Len(a)
      BY <2>3, <1>2, <1>4, <1>5
    <3>2. e[i - Len(a)] > e[j - Len(a)]
      BY <3>1, <1>1
    <3> QED BY <3>1, <3>2, <1>2
  <2>4. i \in 1..Len(a) \/ j \notin 1..Len(a) \/ j \in 1..Len(a)
    OBVIOUS
  <2> QED BY <2>1, <2>2, <2>3
<1>6. DOMAIN s = 1..Len(s) /\ Len(s) \in Nat
  BY <1>3
<1>7. \A i, j \in DOMAIN s : s[i] = s[j] => i = j
  <2> SUFFICES ASSUME NEW i \in 1..Len(s), NEW j \in 1..Len(s), i # j PROVE s[i] # s[j]
    BY <1>6
  <2>1. i < j \/ j < i
    BY <1>6
  <2>2. CASE i < j
    BY <2>2, <1>5
  <2>3. CASE j < i
    <3>1. s[j] # s[i]
      BY <2>3, <1>5
    <3> QED BY <3>1
  <2> QED BY <2>1, <2>2, <2>3
<1>8. IsInjective(s)
  BY <1>7 DEF IsInjective
<1> QED BY <1>8 DEF s, a, e

\* What is in reach is read by the scan or its extension.
LEMMA ReachedIsScanned ==
  ASSUME ask \in Requests, prefix_variants \in SUBSET Forms, NEW p \in 1..TextLen, Boundary(p), InReach(p)
  PROVE  p \in ToSet(Scan \o Extension(prefix_variants))
<1> DEFINE long == LongKey(prefix_variants)
<1>1. p \in Boundaries
  BY DEF Boundaries
<1>2. ToSet(Scan \o Extension(prefix_variants)) = ToSet(Scan) \cup ToSet(Extension(prefix_variants))
  BY ScanIs, ExtensionIs, ConcatSet
<1>3. /\ Window \in Nat /\ Window <= TextLen /\ Least(ask.scan_length, TextLen) <= Window
      /\ {TextLen, LongMin, Slack, ask.scan_length, long} \subseteq Nat
  BY WindowIs, LongKeyIs, LookupAssumption
<1>4. CASE p <= Window
  BY <1>1, <1>2, <1>3, <1>4, ScanIs
<1>5. CASE p > Window
  <2>1. ~(p <= ask.scan_length) /\ ask.scan_length <= Window /\ ask.scan_length < TextLen
    BY <1>3, <1>5 DEF Least
  <2>2. /\ p \in LongMin + 1..LongMax /\ TextAt[PrefixLen] \in prefix_variants
        /\ ToSet(TermsAt[TextAt[p]]) \cap ask.selected # {}
    BY <2>1 DEF InReach
  <2>3. ask.long_key[TextAt[PrefixLen]] >= p
    BY <2>2, LongKeyAssumption
  <2>4. ask.long_key[TextAt[PrefixLen]] <= long /\ ask.long_key[TextAt[PrefixLen]] \in Nat
    <3>1. TextAt[PrefixLen] \in Forms /\ ask.long_key \in [Forms -> 0..LongMax] /\ LongMax \in Nat
      BY <2>2, LookupAssumption
    <3> QED BY <3>1, <2>2, LongKeyIs
  <2> HIDE DEF long
  <2>5. TextLen > ask.scan_length /\ long > ask.scan_length /\ p <= long + Slack
    BY <2>1, <2>3, <2>4, <1>3, <1>5
  <2>6. Extends(prefix_variants) /\ p <= LongKey(prefix_variants) + Slack
    BY <2>5 DEF Extends, long
  <2> QED BY <2>6, <1>1, <1>2, <1>5, ExtensionIs
<1> QED BY <1>3, <1>4, <1>5

\* Every prefix in reach is read once, a long key's too, and every term that
\* something made of it finds is a candidate that reads at least as far (the
\* scan of lookup_impl), whether or not the text as it is written is of that.
THEOREM KeysReached == Spec => []ReachesKeys
<1>1. ASSUME IInv PROVE ReachesKeys
  <2> SUFFICES ASSUME phase \in {"passes", "metadata", "rank"}
               PROVE  /\ IsInjective(scanned)
                      /\ \A p \in 1..TextLen : Boundary(p) /\ InReach(p) => p \in ToSet(scanned)
                      /\ \A k \in DOMAIN scanned : \A d \in ToSet(results[k]) : \A t \in ToSet(Query(d.form)) :
                            Passes(d.conditions, Info[t].tags) =>
                                \E c \in ToSet(found.candidates) : c.term = t /\ c.len >= scanned[k]
    BY DEF ReachesKeys
  <2>1. /\ scanned = Scan \o Extension(prefix_variants) /\ ask \in Requests /\ prefix_variants \in SUBSET Forms
        /\ found \in Founds /\ Agree(ask.shortest, found)
        /\ scanned \in Seq(1..TextLen) /\ results \in Seq(Seq(Deinflection)) /\ Len(results) = Len(scanned)
    BY <1>1 DEF IInv, TypesOK, CandidatesFit, ScanInOrder
  <2>2. IsInjective(scanned)
    BY <2>1, ScannedOnce
  <2>3. \A p \in 1..TextLen : Boundary(p) /\ InReach(p) => p \in ToSet(scanned)
    BY <2>1, ReachedIsScanned
  <2>4. ASSUME NEW k \in DOMAIN scanned, NEW d \in ToSet(results[k]), NEW t \in ToSet(Query(d.form)),
               Passes(d.conditions, Info[t].tags)
        PROVE  \E c \in ToSet(found.candidates) : c.term = t /\ c.len >= scanned[k]
    <3>1. k \in 1..Len(scanned) /\ results[k] \in Seq(Deinflection)
      BY <2>1
    <3>2. PICK i \in 1..Len(results[k]) : d = results[k][i]
      BY <3>1 DEF ToSet
    <3>3. t \in LookedUp(results[k][i])
      BY <3>2, <2>4 DEF LookedUp
    <3>4. PICK h \in ToSet(found.hits) : h.term = t /\ h.len = scanned[k]
      BY <3>1, <3>3, <1>1 DEF IInv, ScannedHit
    <3> QED BY <3>4, <2>1, HitIsCandidate
  <2> QED BY <2>2, <2>3, <2>4
<1> QED BY <1>1, Inductive, PTL

-----------------------------------------------------------------------------
(* The order of the results.                                               *)

Keys == [1..9 -> Int]

LEMMA BeforeIsOrder ==
  /\ \A x \in Keys : ~Before(x, x)
  /\ \A x, y \in Keys : x # y => Before(x, y) \/ Before(y, x)
  /\ \A x, y, z \in Keys : Before(x, y) /\ Before(y, z) => Before(x, z)
<1>1. ASSUME NEW x \in Keys, NEW y \in Keys
      PROVE  Before(x, y) <=> \E i \in 1..9 : x[i] < y[i] /\ \A j \in 1..i - 1 : x[j] = y[j]
  BY DEF Keys, Before
<1>2. ASSUME NEW x \in Keys PROVE ~Before(x, x)
  <2>1. \A i \in 1..9 : x[i] \in Int
    BY DEF Keys
  <2> QED BY <2>1, <1>1
<1>3. ASSUME NEW x \in Keys, NEW y \in Keys, x # y PROVE Before(x, y) \/ Before(y, x)
  <2> DEFINE S == {i \in 1..9 : x[i] # y[i]}
  <2>1. S \in SUBSET Nat /\ S # {}
    BY <1>3 DEF Keys
  <2>2. PICK i \in S : \A k \in S : i <= k
    BY <2>1, LeastNat
  <2>3. i \in 1..9 /\ x[i] \in Int /\ y[i] \in Int /\ x[i] # y[i]
    BY DEF Keys
  <2>4. \A j \in 1..i - 1 : x[j] = y[j] /\ y[j] = x[j]
    <3> SUFFICES ASSUME NEW j \in 1..i - 1 PROVE x[j] = y[j]
      OBVIOUS
    <3>1. j \in 1..9 /\ ~(i <= j)
      BY <2>3
    <3> QED BY <3>1, <2>2
  <2>5. CASE x[i] < y[i]
    BY <2>3, <2>4, <2>5, <1>1
  <2>6. CASE y[i] < x[i]
    BY <2>3, <2>4, <2>6, <1>1
  <2> QED BY <2>3, <2>5, <2>6
<1>4. ASSUME NEW x \in Keys, NEW y \in Keys, NEW z \in Keys, Before(x, y), Before(y, z) PROVE Before(x, z)
  <2>1. PICK i \in 1..9 : x[i] < y[i] /\ \A j \in 1..i - 1 : x[j] = y[j]
    BY <1>1, <1>4
  <2>2. PICK k \in 1..9 : y[k] < z[k] /\ \A j \in 1..k - 1 : y[j] = z[j]
    BY <1>1, <1>4
  <2>3. \A j \in 1..9 : x[j] \in Int /\ y[j] \in Int /\ z[j] \in Int
    BY DEF Keys
  <2>4. CASE i <= k
    <3>1. x[i] < z[i]
      <4>1. i = k \/ i \in 1..k - 1
        BY <2>4
      <4> QED BY <4>1, <2>1, <2>2, <2>3
    <3>2. \A j \in 1..i - 1 : x[j] = z[j]
      <4> SUFFICES ASSUME NEW j \in 1..i - 1 PROVE x[j] = z[j]
        OBVIOUS
      <4>1. j \in 1..k - 1
        BY <2>4
      <4> QED BY <4>1, <2>1, <2>2
    <3> QED BY <3>1, <3>2, <1>1
  <2>5. CASE k < i
    <3>1. x[k] < z[k]
      <4>1. k \in 1..i - 1
        BY <2>5
      <4> QED BY <4>1, <2>1, <2>2, <2>3
    <3>2. \A j \in 1..k - 1 : x[j] = z[j]
      <4> SUFFICES ASSUME NEW j \in 1..k - 1 PROVE x[j] = z[j]
        OBVIOUS
      <4>1. j \in 1..i - 1
        BY <2>5
      <4> QED BY <4>1, <2>1, <2>2
    <3> QED BY <3>1, <3>2, <1>1
  <2> QED BY <2>4, <2>5
<1> QED BY <1>2, <1>3, <1>4

LEMMA StandingIs ==
  ASSUME NEW c \in Candidates, c.glossary \/ c.confirmed_len = 0, ask \in Requests
  PROVE  /\ Standing(c) \in Int
         /\ ask.follow => (Confirmed(c) <=> Standing(c) \in {2, 4})
<1>1. ~c.glossary => ~Confirmed(c)
  BY DEF Candidates, Confirmed
<1>2. AfterReferences(c) => ~Confirmed(c)
  BY DEF AfterReferences
<1>3. c.glossary \in BOOLEAN /\ ask.follow \in BOOLEAN /\ Confirmed(c) \in BOOLEAN /\ WholeWord(c) \in BOOLEAN
  BY LookupAssumption DEF Candidates, Confirmed, WholeWord
<1> QED BY <1>1, <1>2, <1>3 DEF Standing

LEMMA RankKeysTyped ==
  ASSUME NEW c \in Candidates, c.glossary \/ c.confirmed_len = 0, ask \in Requests, found \in Founds
  PROVE  /\ RankKeys(c) \in Keys /\ RankKeys(c)[5] = -Standing(c)
         /\ RankKeys(c)[1] = First(Primary(c)) /\ RankKeys(c)[2] = -c.len
<1>1. /\ c.term \in Terms /\ c.len \in Int /\ c.steps \in Int /\ c.depth \in Int /\ c.rank \in Int
  BY DEF Candidates
<1>2. Info[c.term].freq \in Int /\ Info[c.term].rank \in Int /\ Info[c.term].score \in Int
  BY <1>1, LookupAssumption
<1>3. \A b : First(b) \in Int
  BY DEF First
<1>4. RankDepth(c) \in Int
  <2>1. ASSUME ConfirmedDepths(c) # {} PROVE Min(ConfirmedDepths(c)) \in Int
    <3>1. \A d \in ToSet(found.candidates) : d.depth \in Nat
      <4>1. found.candidates \in Seq(Candidates)
        BY DEF Founds
      <4>2. \A d \in ToSet(found.candidates) : d \in Candidates
        BY <4>1, ElementIs
      <4> QED BY <4>2 DEF Candidates
    <3>2. ConfirmedDepths(c) \in SUBSET Nat
      BY <3>1 DEF ConfirmedDepths
    <3>3. PICK m \in ConfirmedDepths(c) : \A x \in ConfirmedDepths(c) : m <= x
      BY <2>1, <3>2, LeastNat
    <3>4. Min(ConfirmedDepths(c)) = m
      BY <3>2, <3>3, MinIs
    <3> QED BY <3>2, <3>4
  <2>2. AfterReferences(c) => ConfirmedDepths(c) # {}
    BY DEF AfterReferences
  <2> QED BY <2>1, <2>2, <1>1 DEF RankDepth
<1>5. Standing(c) \in Int
  BY StandingIs
<1> DEFINE e1 == First(Primary(c))
           e2 == -c.len
           e4 == RankDepth(c)
           e5 == -Standing(c)
           e6 == First(Info[c.term].expr = c.form)
           e7 == -Info[c.term].freq
           e8 == IF c.glossary THEN Info[c.term].rank ELSE c.rank
           e9 == -Info[c.term].score
<1>6. e1 \in Int /\ e2 \in Int /\ e4 \in Int /\ e5 \in Int /\ e6 \in Int /\ e7 \in Int /\ e8 \in Int /\ e9 \in Int
  BY <1>1, <1>2, <1>3, <1>4, <1>5
<1>7. RankKeys(c) = <<e1, e2, c.steps, e4, e5, e6, e7, e8, e9>>
  BY DEF RankKeys
<1> HIDE DEF e1, e2, e4, e5, e6, e7, e8, e9
<1>8. RankKeys(c) \in Keys /\ RankKeys(c)[5] = e5 /\ RankKeys(c)[1] = e1 /\ RankKeys(c)[2] = e2
  BY <1>1, <1>6, <1>7 DEF Keys
<1> QED BY <1>8 DEF e1, e2, e5

\* `less`, on whatever the invariant allows, is a strict weak order; and a
\* total one for packs that follow references.
LEMMA LessIs ==
  ASSUME IInv
  PROVE  /\ \A i, j \in Places : Less(i, j) => ~Less(j, i)
         /\ \A i, k, j \in Places : Less(i, k) => Less(i, j) \/ Less(j, k)
         /\ ask.follow => \A i, j \in Places : i # j => Less(i, j) \/ Less(j, i)
<1> DEFINE cs == found.candidates
           K(i) == RankKeys(cs[i])
           F == ask.follow /\ ask.by_references
           R(i) == cs[i].confirmed_rank
           C(i) == Confirmed(cs[i])
           Tie(i, j) == IF F /\ C(i) /\ C(j) /\ R(i) # R(j) THEN R(i) < R(j) ELSE ask.follow /\ i < j
<1>1. ask \in Requests /\ found \in Founds /\ Unconfirmed(found)
  BY DEF IInv, TypesOK, CandidatesFit
<1>2. cs \in Seq(Candidates) /\ Places = 1..Len(cs) /\ Len(cs) \in Nat
  BY <1>1 DEF Founds, Places
<1>3. ASSUME NEW i \in Places PROVE cs[i] \in Candidates /\ (cs[i].glossary \/ cs[i].confirmed_len = 0)
  BY <1>1, <1>2 DEF Unconfirmed
<1>4. \A i \in Places : K(i) \in Keys /\ i \in Nat /\ R(i) \in Nat
  <2>1. \A i \in Places : K(i) \in Keys
    BY <1>1, <1>3, RankKeysTyped
  <2>2. \A i \in Places : R(i) \in Nat
    BY <1>3 DEF Candidates
  <2> QED BY <2>1, <2>2, <1>2
<1>5. ASSUME ask.follow, NEW i \in Places, NEW j \in Places, K(i) = K(j) PROVE C(i) <=> C(j)
  <2>1. /\ Standing(cs[i]) \in Int /\ (C(i) <=> Standing(cs[i]) \in {2, 4})
        /\ Standing(cs[j]) \in Int /\ (C(j) <=> Standing(cs[j]) \in {2, 4})
    BY <1>1, <1>3, <1>5, StandingIs
  <2>2. -Standing(cs[i]) = -Standing(cs[j])
    <3>1. K(i)[5] = -Standing(cs[i]) /\ K(j)[5] = -Standing(cs[j])
      BY <1>1, <1>3, RankKeysTyped
    <3> HIDE DEF K
    <3> QED BY <3>1, <1>5
  <2>3. Standing(cs[i]) = Standing(cs[j])
    BY <2>1, <2>2
  <2> QED BY <2>1, <2>3
<1>6. \A i, j \in Places : Less(i, j) <=> Before(K(i), K(j)) \/ (K(i) = K(j) /\ Tie(i, j))
  BY DEF Less
<1>7. ask.follow \in BOOLEAN /\ ask.by_references \in BOOLEAN
  BY <1>1, LookupAssumption
<1> HIDE DEF K, R, C, cs, F
<1>8. \A i, j \in Places : Before(K(i), K(j)) => Less(i, j)
  BY <1>6
<1>9. ASSUME NEW i \in Places, NEW j \in Places, Less(i, j), Less(j, i) PROVE FALSE
  <2>1. CASE K(i) = K(j)
    <3>1. Tie(i, j) /\ Tie(j, i)
      <4>1. ~Before(K(i), K(j)) /\ ~Before(K(j), K(i))
        BY <2>1, <1>4, BeforeIsOrder
      <4> QED BY <4>1, <1>6, <1>9
    <3> QED BY <3>1, <1>4
  <2>2. CASE K(i) # K(j)
    <3>1. Before(K(i), K(j)) /\ Before(K(j), K(i))
      BY <2>2, <1>6, <1>9
    <3> QED BY <3>1, <1>4, BeforeIsOrder
  <2> QED BY <2>1, <2>2
<1>10. ASSUME NEW i \in Places, NEW k \in Places, NEW j \in Places, Less(i, k) PROVE Less(i, j) \/ Less(j, k)
  <2>1. CASE K(j) # K(i)
    <3>1. CASE Before(K(i), K(j))
      BY <3>1, <1>8
    <3>2. CASE Before(K(j), K(i))
      <4>1. K(i) = K(k) \/ Before(K(i), K(k))
        BY <1>6, <1>10
      <4>2. Before(K(j), K(k))
        BY <4>1, <3>2, <1>4, BeforeIsOrder
      <4> QED BY <4>2, <1>8
    <3> QED BY <3>1, <3>2, <2>1, <1>4, BeforeIsOrder
  <2>2. CASE K(j) = K(i) /\ Before(K(i), K(k))
    <3>1. Before(K(j), K(k))
      BY <2>2
    <3> QED BY <3>1, <1>8
  <2>3. CASE K(j) = K(i) /\ K(i) = K(k)
    <3>1. Tie(i, k)
      <4>1. ~Before(K(i), K(k))
        BY <2>3, <1>4, BeforeIsOrder
      <4> QED BY <4>1, <1>6, <1>10
    <3>2. ask.follow
      BY <3>1 DEF F
    <3>3. (C(i) <=> C(j)) /\ (C(i) <=> C(k))
      BY <2>3, <3>2, <1>5
    <3>4. Tie(i, j) \/ Tie(j, k)
      BY <3>1, <3>2, <3>3, <1>4
    <3> HIDE DEF Tie
    <3> QED BY <3>4, <2>3, <1>6
  <2>4. Before(K(i), K(k)) \/ K(i) = K(k)
    BY <1>6, <1>10
  <2> QED BY <2>1, <2>2, <2>3, <2>4
<1>11. ASSUME ask.follow, NEW i \in Places, NEW j \in Places, i # j PROVE Less(i, j) \/ Less(j, i)
  <2>1. CASE K(i) # K(j)
    BY <2>1, <1>4, <1>8, BeforeIsOrder
  <2>2. CASE K(i) = K(j)
    <3>1. C(i) <=> C(j)
      BY <2>2, <1>5, <1>11
    <3>2. Tie(i, j) \/ Tie(j, i)
      BY <3>1, <1>4, <1>11
    <3> HIDE DEF Tie
    <3> QED BY <3>2, <2>2, <1>6
  <2> QED BY <2>1, <2>2
<1> QED BY <1>9, <1>10, <1>11

\* What std::sort demands of `less` in lookup.cpp, for every set of candidates
\* a lookup can have found.
THEOREM LessOrders == Spec => []LessIsAnOrder
<1>1. ASSUME IInv PROVE LessIsAnOrder
  <2>1. \A i, j \in Places : <<i, j>> \in Lesser <=> Less(i, j)
    BY DEF Lesser
  <2>2. \A p \in Lesser : \E i, k \in Places : p = <<i, k>> /\ p[1] = i /\ p[2] = k
    BY DEF Lesser
  <2>3. \A p \in Lesser, j \in Places : <<p[1], j>> \in Lesser \/ <<j, p[2]>> \in Lesser
    <3> SUFFICES ASSUME NEW p \in Lesser, NEW j \in Places
                 PROVE  <<p[1], j>> \in Lesser \/ <<j, p[2]>> \in Lesser
      OBVIOUS
    <3>1. PICK i \in Places, k \in Places : p = <<i, k>> /\ p[1] = i /\ p[2] = k
      BY <2>2
    <3>2. Less(i, j) \/ Less(j, k)
      BY <3>1, <2>1, <1>1, LessIs
    <3> QED BY <3>1, <3>2, <2>1
  <2>4. \A p \in Lesser : <<p[2], p[1]>> \notin Lesser
    <3> SUFFICES ASSUME NEW p \in Lesser PROVE <<p[2], p[1]>> \notin Lesser
      OBVIOUS
    <3>1. PICK i \in Places, k \in Places : p = <<i, k>> /\ p[1] = i /\ p[2] = k
      BY <2>2
    <3>2. Less(i, k) /\ ~Less(k, i)
      BY <3>1, <2>1, <1>1, LessIs
    <3> QED BY <3>1, <3>2, <2>1
  <2>5. ask.follow => \A i, j \in Places : i # j => <<i, j>> \in Lesser \/ <<j, i>> \in Lesser
    BY <2>1, <1>1, LessIs
  <2> QED BY <2>3, <2>4, <2>5 DEF LessIsAnOrder
<1> QED BY <1>1, Inductive, PTL

-----------------------------------------------------------------------------
(* What passes and metadata leave of the ordinary candidates.              *)

LEMMA OrdinaryLenIs ==
  ASSUME NEW cs \in Seq(Candidates)
  PROVE  OrdinaryLen(cs) \in Nat /\ \A i \in 1..Len(cs) : cs[i].len <= OrdinaryLen(cs)
<1> DEFINE S == {0} \cup {c.len : c \in ToSet(cs)}
           R == {TextLen - x : x \in S}
<1>1. TextLen \in Nat /\ \A c \in ToSet(cs) : c.len \in 1..TextLen
  <2>1. \A c \in ToSet(cs) : c \in Candidates
    BY ElementIs
  <2> QED BY <2>1, LookupAssumption DEF Candidates
<1>2. \A x \in S : x \in Nat /\ x <= TextLen
  BY <1>1
<1>3. \A i \in 1..Len(cs) : cs[i].len \in S
  BY ElementIs
<1> HIDE DEF S
<1>4. R \in SUBSET Nat /\ R # {}
  BY <1>1, <1>2 DEF S
<1>5. PICK r \in R : \A q \in R : r <= q
  BY <1>4, LeastNat
<1>6. PICK m \in S : r = TextLen - m
  OBVIOUS
<1>7. \A x \in S : m >= x
  <2> SUFFICES ASSUME NEW x \in S PROVE m >= x
    OBVIOUS
  <2>1. TextLen - m <= TextLen - x
    BY <1>5, <1>6
  <2> QED BY <2>1, <1>1, <1>2
<1>8. Max(S) \in S /\ \A x \in S : Max(S) >= x
  BY <1>7 DEF Max
<1>9. OrdinaryLen(cs) = Max(S)
  BY DEF OrdinaryLen, S
<1> QED BY <1>2, <1>3, <1>8, <1>9

\* The terms of a list stay in their places, and every candidate with
\* glossaries is the list's own or longer than all of the list.
KeptOrLonger(cs, list) ==
  /\ Len(list) <= Len(cs)
  /\ \A i \in 1..Len(list) : cs[i].term = list[i].term
  /\ \A i \in 1..Len(cs) : cs[i].glossary => (i <= Len(list) /\ cs[i] = list[i]) \/ cs[i].len > OrdinaryLen(list)
Kept(cs, list) ==
  /\ Len(list) <= Len(cs)
  /\ \A i \in 1..Len(list) : cs[i].term = list[i].term
  /\ \A i \in 1..Len(cs) : cs[i].glossary => i <= Len(list) /\ cs[i] = list[i]

LEMMA TakeBlankIs ==
  ASSUME NEW h \in Hits, NEW d, d = Take(Blank(h), h)
  PROVE  d \in Candidates /\ d.term = h.term /\ d.glossary = h.glossary /\ d.len = h.len
<1> DEFINE b == Blank(h)
<1>1. b \in Candidates /\ b.term = h.term /\ b.glossary = h.glossary /\ b.len = h.len
  BY DEF Blank, Candidates, Hits
<1> HIDE DEF b
<1> QED BY <1>1, TakeIs DEF b

LEMMA AddAllLonger ==
  ASSUME NEW f \in Founds, NEW list \in Seq(Candidates), NEW hs \in Seq(Hits),
         \A h \in ToSet(hs) : h.len > OrdinaryLen(list), KeptOrLonger(f.candidates, list)
  PROVE  KeptOrLonger(AddAll(f, hs).candidates, list)
<1> DEFINE ol == OrdinaryLen(list)
           P == {g \in Founds : KeptOrLonger(g.candidates, list)}
           H == {h \in Hits : h.len > ol}
<1>0. ol \in Nat /\ Len(list) \in Nat
  BY OrdinaryLenIs
<1>1. ASSUME NEW g \in P, NEW h \in H PROVE Add(g, h) \in P
  <2> DEFINE cs == g.candidates
             ds == Collect(cs, h)
  <2>1. /\ cs \in Seq(Candidates) /\ g.hits \in Seq(Hits) /\ h \in Hits /\ h.len > ol /\ h.len \in Nat
        /\ KeptOrLonger(cs, list)
    BY DEF Founds, Hits
  <2>2. Add(g, h) = [candidates |-> ds, hits |-> Append(g.hits, h)]
    BY DEF Add
  <2>3. /\ ds \in Seq(Candidates)
        /\ (\E i \in 1..Len(cs) : cs[i].term = h.term) =>
             /\ Len(ds) = Len(cs)
             /\ \A i \in 1..Len(cs) : ds[i] = IF cs[i].term = h.term THEN Take(cs[i], h) ELSE cs[i]
        /\ ~(\E i \in 1..Len(cs) : cs[i].term = h.term) =>
             /\ Len(ds) = Len(cs) + 1
             /\ ds[Len(cs) + 1] = Take(Blank(h), h)
             /\ \A i \in 1..Len(cs) : ds[i] = cs[i]
    BY <2>1, CollectIs
  <2>4. Append(g.hits, h) \in Seq(Hits)
    BY <2>1, AppendProperties
  <2>5. Len(cs) \in Nat /\ \A i \in 1..Len(cs) : cs[i] \in Candidates
    BY <2>1
  <2>6. /\ Len(list) <= Len(cs)
        /\ \A i \in 1..Len(list) : cs[i].term = list[i].term
        /\ \A i \in 1..Len(cs) : cs[i].glossary => (i <= Len(list) /\ cs[i] = list[i]) \/ cs[i].len > ol
    BY <2>1 DEF KeptOrLonger
  <2> HIDE DEF cs, ds, ol
  <2>7. ASSUME NEW i \in 1..Len(cs) PROVE Take(cs[i], h).term = cs[i].term /\ Take(cs[i], h).len > ol
    <3>1. cs[i] \in Candidates /\ cs[i].len \in Nat
      BY <2>5 DEF Candidates
    <3>2. /\ Take(cs[i], h).term = cs[i].term
          /\ Better(h, cs[i]) => Take(cs[i], h).len = h.len
          /\ ~Better(h, cs[i]) => Take(cs[i], h).len = cs[i].len
      BY <3>1, <2>1, TakeIs
    <3>3. ~Better(h, cs[i]) => h.len <= cs[i].len
      BY <2>1, <3>1 DEF Better
    <3> QED BY <3>1, <3>2, <3>3, <2>1, <1>0
  <2>8. Take(Blank(h), h).len > ol
    BY <2>1, TakeBlankIs
  <2>9. /\ Len(cs) <= Len(ds)
        /\ \A i \in 1..Len(cs) : ds[i] = cs[i] \/ (ds[i].term = cs[i].term /\ ds[i].len > ol)
        /\ \A i \in 1..Len(ds) : i \in 1..Len(cs) \/ ds[i].len > ol
    <3>1. CASE \E i \in 1..Len(cs) : cs[i].term = h.term
      BY <3>1, <2>3, <2>5, <2>7
    <3>2. CASE ~(\E i \in 1..Len(cs) : cs[i].term = h.term)
      <4>1. \A i \in 1..Len(ds) : i \in 1..Len(cs) \/ i = Len(cs) + 1
        BY <3>2, <2>3, <2>5
      <4> QED BY <4>1, <3>2, <2>3, <2>5, <2>8
    <3> QED BY <3>1, <3>2
  <2>10. KeptOrLonger(ds, list)
    <3>1. \A i \in 1..Len(list) : i \in 1..Len(cs)
      BY <1>0, <2>5, <2>6
    <3>2. Len(list) <= Len(ds) /\ \A i \in 1..Len(list) : ds[i].term = list[i].term
      <4>1. Len(ds) \in Nat
        BY <2>3
      <4> QED BY <4>1, <3>1, <1>0, <2>5, <2>6, <2>9
    <3>3. \A i \in 1..Len(ds) : ds[i].glossary => (i <= Len(list) /\ ds[i] = list[i]) \/ ds[i].len > ol
      BY <2>6, <2>9
    <3> QED BY <3>2, <3>3 DEF KeptOrLonger, ol
  <2> QED BY <2>2, <2>3, <2>4, <2>10 DEF Founds
<1>2. f \in P
  OBVIOUS
<1>3. hs \in Seq(H)
  <2>1. \A i \in 1..Len(hs) : hs[i] \in H
    BY ElementIs
  <2>2. Len(hs) \in Nat /\ hs = [i \in 1..Len(hs) |-> hs[i]]
    BY LenProperties
  <2> HIDE DEF H
  <2> QED BY <2>1, <2>2
<1> HIDE DEF P, H
<1>4. AddAll(f, hs) \in P
  BY <1>1, <1>2, <1>3, AddAllKeeps
<1> QED BY <1>4 DEF P

\* Hits of terms that no candidate with glossaries is of, and without any.
LEMMA AddAllExtras ==
  ASSUME NEW f \in Founds, NEW hs \in Seq(Hits),
         \A h \in ToSet(hs) : ~h.glossary /\ \A c \in ToSet(f.candidates) : c.glossary => c.term # h.term
  PROVE  Kept(AddAll(f, hs).candidates, f.candidates)
<1> DEFINE list == f.candidates
           P == {g \in Founds : Kept(g.candidates, list)}
           H == {h \in Hits : ~h.glossary /\ \A c \in ToSet(list) : c.glossary => c.term # h.term}
<1>0. list \in Seq(Candidates) /\ Len(list) \in Nat /\ \A i \in 1..Len(list) : list[i] \in ToSet(list) /\ list[i] \in Candidates
  BY ElementIs DEF Founds
<1>1. ASSUME NEW g \in P, NEW h \in H PROVE Add(g, h) \in P
  <2> DEFINE cs == g.candidates
             ds == Collect(cs, h)
  <2>1. /\ cs \in Seq(Candidates) /\ g.hits \in Seq(Hits) /\ h \in Hits /\ ~h.glossary
        /\ \A c \in ToSet(list) : c.glossary => c.term # h.term
        /\ Kept(cs, list)
    BY DEF Founds
  <2>2. Add(g, h) = [candidates |-> ds, hits |-> Append(g.hits, h)]
    BY DEF Add
  <2>3. /\ ds \in Seq(Candidates)
        /\ (\E i \in 1..Len(cs) : cs[i].term = h.term) =>
             /\ Len(ds) = Len(cs)
             /\ \A i \in 1..Len(cs) : ds[i] = IF cs[i].term = h.term THEN Take(cs[i], h) ELSE cs[i]
        /\ ~(\E i \in 1..Len(cs) : cs[i].term = h.term) =>
             /\ Len(ds) = Len(cs) + 1
             /\ ds[Len(cs) + 1] = Take(Blank(h), h)
             /\ \A i \in 1..Len(cs) : ds[i] = cs[i]
    BY <2>1, CollectIs
  <2>4. Append(g.hits, h) \in Seq(Hits)
    BY <2>1, AppendProperties
  <2>5. Len(cs) \in Nat /\ \A i \in 1..Len(cs) : cs[i] \in Candidates /\ cs[i].glossary \in BOOLEAN
    <3>1. \A c \in Candidates : c.glossary \in BOOLEAN
      BY DEF Candidates
    <3> QED BY <2>1, <3>1
  <2>6. /\ Len(list) <= Len(cs)
        /\ \A i \in 1..Len(list) : cs[i].term = list[i].term
        /\ \A i \in 1..Len(cs) : cs[i].glossary => i <= Len(list) /\ cs[i] = list[i]
    BY <2>1 DEF Kept
  <2> HIDE DEF cs, ds, list
  <2>7. \A i \in 1..Len(cs) : Take(cs[i], h).term = cs[i].term /\ Take(cs[i], h).glossary = cs[i].glossary
    BY <2>1, <2>5, TakeIs
  <2>8. \A i \in 1..Len(cs) : cs[i].glossary => cs[i].term # h.term
    <3> SUFFICES ASSUME NEW i \in 1..Len(cs), cs[i].glossary PROVE cs[i].term # h.term
      OBVIOUS
    <3>1. i \in 1..Len(list) /\ cs[i] = list[i]
      BY <1>0, <2>5, <2>6
    <3> QED BY <3>1, <1>0, <2>1
  <2>9. ~Take(Blank(h), h).glossary
    BY <2>1, TakeBlankIs
  <2>10. /\ Len(cs) <= Len(ds)
         /\ \A i \in 1..Len(cs) : ds[i] = cs[i] \/ (ds[i].term = cs[i].term /\ ~ds[i].glossary)
         /\ \A i \in 1..Len(ds) : i \in 1..Len(cs) \/ ~ds[i].glossary
    <3>1. CASE \E i \in 1..Len(cs) : cs[i].term = h.term
      BY <3>1, <2>3, <2>5, <2>7, <2>8
    <3>2. CASE ~(\E i \in 1..Len(cs) : cs[i].term = h.term)
      <4>1. \A i \in 1..Len(ds) : i \in 1..Len(cs) \/ i = Len(cs) + 1
        BY <3>2, <2>3, <2>5
      <4> QED BY <4>1, <3>2, <2>3, <2>5, <2>9
    <3> QED BY <3>1, <3>2
  <2>11. Kept(ds, list)
    <3>1. \A i \in 1..Len(list) : i \in 1..Len(cs)
      BY <1>0, <2>5, <2>6
    <3>2. Len(list) <= Len(ds) /\ \A i \in 1..Len(list) : ds[i].term = list[i].term
      <4>1. Len(ds) \in Nat
        BY <2>3
      <4> QED BY <4>1, <3>1, <1>0, <2>5, <2>6, <2>10
    <3>3. \A i \in 1..Len(ds) : ds[i].glossary => i <= Len(list) /\ ds[i] = list[i]
      BY <2>6, <2>10
    <3> QED BY <3>2, <3>3 DEF Kept
  <2> QED BY <2>2, <2>3, <2>4, <2>11 DEF Founds
<1>2. f \in P
  BY <1>0 DEF Kept
<1>3. hs \in Seq(H)
  <2>1. \A i \in 1..Len(hs) : hs[i] \in H
    BY ElementIs
  <2>2. Len(hs) \in Nat /\ hs = [i \in 1..Len(hs) |-> hs[i]]
    BY LenProperties
  <2> HIDE DEF H
  <2> QED BY <2>1, <2>2
<1> HIDE DEF P, H
<1>4. AddAll(f, hs) \in P
  BY <1>1, <1>2, <1>3, AddAllKeeps
<1> QED BY <1>4 DEF P

OrdinaryKept ==
  phase \notin {"scan", "extension"} =>
    /\ ordinary \in Seq(Candidates)
    /\ KeptOrLonger(found.candidates, ordinary)
    /\ phase = "passes" => \A p \in ToSet(todo) : p > OrdinaryLen(ordinary)
    /\ \A k \in followed_done + 1..Len(followed) : followed[k].len > OrdinaryLen(ordinary)

LEMMA FollowScanKeepsOrdinary ==
  ASSUME IInv, FollowScan
  PROVE  OrdinaryKept'
<1> DEFINE S == {p \in 1..TextLen : p > OrdinaryLen(ordinary')}
<1>1. /\ phase = "extension" /\ Follow /\ ordinary' = found'.candidates /\ phase' = "passes" /\ followed' = followed
      /\ todo' = IF ask.passes THEN Those(scanned, S) ELSE <<>>
  BY DEF FollowScan
<1>2. found' \in Founds
  BY <1>1, FollowKeeps DEF IInv
<1>3. ordinary' \in Seq(Candidates)
  BY <1>1, <1>2 DEF Founds
<1>4. KeptOrLonger(found'.candidates, ordinary')
  <2>1. Len(ordinary') \in Nat
    BY <1>3
  <2> QED BY <1>1, <2>1 DEF KeptOrLonger
<1>5. \A p \in ToSet(todo') : p \in S
  <2> HIDE DEF S
  <2>1. scanned \in Seq(1..TextLen)
    BY DEF IInv, TypesOK
  <2>2. \A p \in ToSet(Those(scanned, S)) : p \in S
    BY <2>1, ThoseKeeps
  <2>3. ToSet(<<>>) = {}
    BY DEF ToSet
  <2> QED BY <2>2, <2>3, <1>1
<1>6. followed_done' + 1..Len(followed') = {}
  <2>1. followed_done' = Len(followed) /\ Len(followed) \in Nat
    BY <1>1 DEF Follow, IInv, TypesOK
  <2> QED BY <2>1, <1>1
<1> QED BY <1>3, <1>4, <1>5, <1>6 DEF OrdinaryKept

LEMMA ReadPassesKeepsOrdinary ==
  ASSUME IInv, OrdinaryKept, ReadPasses
  PROVE  OrdinaryKept'
<1> DEFINE ol == OrdinaryLen(ordinary)
           len == Head(todo)
<1>1. PICK readings \in PassesAt[len], more \in BOOLEAN :
        /\ Merge(len, readings)
        /\ todo' = IF more THEN Tail(todo) ELSE <<>>
  BY DEF ReadPasses
<1> DEFINE hs == MergeHits(len, readings)
           ns == MergeNotes(len, readings)
<1>2. /\ phase = "passes" /\ todo # <<>>
      /\ phase' = phase /\ followed_done' = followed_done /\ ordinary' = ordinary
  BY DEF ReadPasses
<1>3. /\ todo \in Seq(1..TextLen) /\ ask \in Requests /\ found \in Founds
      /\ followed \in Seq(Notes) /\ followed_done \in 0..Len(followed)
  BY DEF IInv, TypesOK
<1>4. /\ ordinary \in Seq(Candidates)
      /\ KeptOrLonger(found.candidates, ordinary)
      /\ \A p \in ToSet(todo) : p > ol
      /\ \A k \in followed_done + 1..Len(followed) : followed[k].len > ol
  BY <1>2 DEF OrdinaryKept
<1>5. len \in 1..TextLen /\ len > ol /\ Tail(todo) \in Seq(1..TextLen) /\ \A p \in ToSet(Tail(todo)) : p > ol
  <2>1. Len(todo) \in Nat \ {0} /\ \A i \in 1..Len(todo) : todo[i] \in ToSet(todo) /\ todo[i] \in 1..TextLen
    BY <1>2, <1>3, ElementIs, EmptySeq
  <2>2. /\ len = todo[1] /\ Tail(todo) \in Seq(1..TextLen) /\ Len(Tail(todo)) = Len(todo) - 1
        /\ \A i \in 1..Len(Tail(todo)) : Tail(todo)[i] = todo[i + 1]
    BY <1>2, <1>3, HeadTailProperties
  <2>3. \A i \in 1..Len(Tail(todo)) : Tail(todo)[i] > ol
    <3> SUFFICES ASSUME NEW i \in 1..Len(Tail(todo)) PROVE todo[i + 1] > ol
      BY <2>2
    <3>1. i + 1 \in 1..Len(todo)
      BY <2>1, <2>2
    <3> QED BY <3>1, <2>1, <1>4
  <2>4. \A p \in ToSet(Tail(todo)) : \E i \in 1..Len(Tail(todo)) : p = Tail(todo)[i]
    BY <2>2 DEF ToSet
  <2>5. 1 \in 1..Len(todo)
    BY <2>1
  <2>6. \A p \in ToSet(Tail(todo)) : p > ol
    BY <2>3, <2>4
  <2> HIDE DEF ol
  <2> QED BY <2>1, <2>2, <2>5, <2>6, <1>4
<1> HIDE DEF len
<1>6. readings \in Seq(Deinflection)
  BY <1>1, <1>5, LookupAssumption
<1>7. /\ hs \in Seq(Glossed) /\ ns \in Seq(Notes)
      /\ \A e \in ToSet(hs) \cup ToSet(ns) : e.len = len
  BY <1>3, <1>5, <1>6, MergeTyped
<1>8. found' = AddAll(found, hs) /\ followed' = followed \o ns
  BY <1>1 DEF Merge, MergeHits, MergeNotes
<1> HIDE DEF hs, ns
<1>9. KeptOrLonger(found'.candidates, ordinary)
  <2>1. hs \in Seq(Hits)
    BY <1>7, AreHits, SeqMonotonic
  <2>2. \A h \in ToSet(hs) : h.len > ol
    BY <1>5, <1>7
  <2> QED BY <2>1, <2>2, <1>3, <1>4, <1>8, AddAllLonger
<1>10. ASSUME NEW k \in followed_done + 1..Len(followed') PROVE followed'[k].len > ol
  <2>1. /\ Len(followed') = Len(followed) + Len(ns) /\ Len(followed) \in Nat /\ Len(ns) \in Nat
        /\ \A i \in 1..Len(followed) : followed'[i] = followed[i]
        /\ \A i \in 1..Len(ns) : followed'[Len(followed) + i] = ns[i]
    BY <1>3, <1>7, <1>8, ConcatProperties, LenProperties
  <2>2. CASE k <= Len(followed)
    <3>1. k \in followed_done + 1..Len(followed) /\ k \in 1..Len(followed)
      BY <2>1, <2>2, <1>3
    <3> QED BY <3>1, <2>1, <1>4
  <2>3. CASE k > Len(followed)
    <3>1. k - Len(followed) \in 1..Len(ns) /\ Len(followed) + (k - Len(followed)) = k
      BY <2>1, <2>3, <1>3
    <3>2. followed'[k] = ns[k - Len(followed)] /\ ns[k - Len(followed)] \in ToSet(ns)
      BY <3>1, <2>1, <1>7, ElementIs
    <3> QED BY <3>2, <1>5, <1>7
  <2>4. k \in Int /\ Len(followed) \in Int
    BY <2>1, <1>3
  <2> QED BY <2>2, <2>3, <2>4
<1>11. \A p \in ToSet(todo') : p > ol
  <2>1. ToSet(<<>>) = {}
    BY DEF ToSet
  <2> QED BY <2>1, <1>1, <1>5
<1> QED BY <1>2, <1>4, <1>9, <1>10, <1>11 DEF OrdinaryKept

LEMMA FollowPassesKeepsOrdinary ==
  ASSUME IInv, OrdinaryKept, FollowPasses
  PROVE  OrdinaryKept'
<1>1. /\ phase = "passes" /\ Follow /\ phase' = "metadata" /\ followed' = followed /\ ordinary' = ordinary
  BY DEF FollowPasses
<1>2. /\ ask \in Requests /\ found \in Founds
      /\ followed \in Seq(Notes) /\ followed_done \in 0..Len(followed) /\ Len(followed) \in Nat
  BY DEF IInv, TypesOK
<1>3. /\ ordinary \in Seq(Candidates)
      /\ KeptOrLonger(found.candidates, ordinary)
      /\ \A k \in followed_done + 1..Len(followed) : followed[k].len > OrdinaryLen(ordinary)
  BY <1>1 DEF OrdinaryKept
<1>4. found' = AddAll(found, FollowHits) /\ followed_done' = Len(followed)
  BY <1>1 DEF Follow, FollowHits
<1>5. FollowHits \in Seq(Hits) /\ \A h \in ToSet(FollowHits) : h.len > OrdinaryLen(ordinary)
  <2>1. /\ FollowHits \in Seq(Glossed)
        /\ \A h \in ToSet(FollowHits) : \E k \in followed_done + 1..Len(followed) : h.len = followed[k].len
    BY <1>2, FollowTyped
  <2>2. FollowHits \in Seq(Hits)
    BY <2>1, AreHits, SeqMonotonic
  <2> QED BY <2>1, <2>2, <1>3
<1>6. KeptOrLonger(found'.candidates, ordinary)
  BY <1>2, <1>3, <1>4, <1>5, AddAllLonger
<1>7. followed_done' + 1..Len(followed') = {}
  BY <1>1, <1>2, <1>4
<1> QED BY <1>1, <1>3, <1>6, <1>7 DEF OrdinaryKept

LEMMA AddMetadataKeepsOrdinary ==
  ASSUME IInv, OrdinaryKept, AddMetadata
  PROVE  OrdinaryKept'
<1>1. /\ phase = "metadata" /\ found' = AddAll(found, MetadataHits) /\ phase' = "rank"
      /\ followed' = followed /\ followed_done' = followed_done /\ ordinary' = ordinary
  BY DEF AddMetadata, MetadataHits
<1>2. /\ found \in Founds /\ ordinary \in Seq(Candidates) /\ KeptOrLonger(found.candidates, ordinary)
      /\ \A k \in followed_done + 1..Len(followed) : followed[k].len > OrdinaryLen(ordinary)
  BY <1>1 DEF OrdinaryKept, IInv, TypesOK
<1>3. /\ MetadataHits \in Seq(Hits)
      /\ \A h \in ToSet(MetadataHits) : ~h.glossary /\ \A c \in ToSet(found.candidates) : c.glossary => c.term # h.term
  <2>1. /\ MetadataHits \in Seq(Unconfirming)
        /\ \A h \in ToSet(MetadataHits) : ~h.glossary /\ \A c \in Defined : c.term # h.term
    BY MetadataTyped DEF IInv, TypesOK
  <2>2. MetadataHits \in Seq(Hits)
    BY <2>1, AreHits, SeqMonotonic
  <2> QED BY <2>1, <2>2 DEF Defined
<1>4. Kept(found'.candidates, found.candidates)
  BY <1>1, <1>2, <1>3, AddAllExtras
<1>5. KeptOrLonger(found'.candidates, ordinary)
  <2> DEFINE cs == found.candidates
             ds == found'.candidates
  <2>0. ds \in Seq(Candidates)
    <3>1. Agree(ask.shortest, found)
      BY DEF IInv, CandidatesFit
    <3>2. found' \in Founds
      BY <3>1, <1>1, <1>2, <1>3, AddAllAgrees
    <3> QED BY <3>2 DEF Founds
  <2>1. Len(cs) \in Nat /\ Len(ds) \in Nat /\ Len(ordinary) \in Nat
    BY <1>2, <2>0, LenProperties DEF Founds
  <2>2. /\ Len(cs) <= Len(ds) /\ \A i \in 1..Len(cs) : ds[i].term = cs[i].term
        /\ \A i \in 1..Len(ds) : ds[i].glossary => i <= Len(cs) /\ ds[i] = cs[i]
    BY <1>4 DEF Kept
  <2>3. /\ Len(ordinary) <= Len(cs) /\ \A i \in 1..Len(ordinary) : cs[i].term = ordinary[i].term
        /\ \A i \in 1..Len(cs) : cs[i].glossary =>
              (i <= Len(ordinary) /\ cs[i] = ordinary[i]) \/ cs[i].len > OrdinaryLen(ordinary)
    BY <1>2 DEF KeptOrLonger
  <2> HIDE DEF cs, ds
  <2>4. \A i \in 1..Len(ordinary) : i \in 1..Len(cs)
    BY <2>1, <2>3
  <2>5. \A i \in 1..Len(ds) : ds[i].glossary => i \in 1..Len(cs) /\ ds[i] = cs[i]
    BY <2>1, <2>2
  <2>6. Len(ordinary) <= Len(ds)
    BY <2>1, <2>2, <2>3
  <2> QED BY <2>2, <2>3, <2>4, <2>5, <2>6 DEF KeptOrLonger, cs, ds
<1> QED BY <1>1, <1>2, <1>5 DEF OrdinaryKept

LEMMA NextKeepsOrdinary ==
  ASSUME IInv, OrdinaryKept, [Next]_vars
  PROVE  OrdinaryKept'
<1>1. CASE ScanPrefix
  BY <1>1 DEF ScanPrefix, OrdinaryKept
<1>2. CASE Extend
  BY <1>2 DEF Extend, OrdinaryKept
<1>3. CASE Rank
  BY <1>3 DEF Rank, OrdinaryKept
<1>4. CASE UNCHANGED vars
  BY <1>4 DEF vars, OrdinaryKept
<1> QED BY <1>1, <1>2, <1>3, <1>4, FollowScanKeepsOrdinary, ReadPassesKeepsOrdinary, FollowPassesKeepsOrdinary,
           AddMetadataKeepsOrdinary DEF Next

-----------------------------------------------------------------------------
(* Sorting.                                                                *)

Once(s) == \A i, j \in 1..Len(s) : s[i] = s[j] => i = j

LEMMA OnceCounts ==
  ASSUME NEW X, IsFiniteSet(X), NEW s \in Seq(X), Once(s)
  PROVE  /\ Cardinality(ToSet(s)) = Len(s)
         /\ Len(s) = Cardinality(X) <=> ToSet(s) = X
<1> DEFINE n == Len(s)
           T == ToSet(s)
<1>1. n \in Nat /\ s \in [1..n -> X] /\ DOMAIN s = 1..n
  BY LenProperties
<1>2. T = {s[i] : i \in 1..n} /\ T \subseteq X
  BY <1>1 DEF ToSet
<1> HIDE DEF n, T
<1>3. s \in Injection(1..n, T)
  BY <1>1, <1>2 DEF n, Once, Injection, IsInjective
<1>4. s \in Surjection(1..n, T)
  BY <1>1, <1>2 DEF Surjection
<1>5. IsFiniteSet(1..n) /\ Cardinality(1..n) = n
  BY <1>1, FS_Interval
<1>6. Cardinality(T) = n
  BY <1>3, <1>4, <1>5, FS_Bijection DEF Bijection, ExistsBijection
<1>7. Cardinality(X) = n => T = X
  BY <1>2, <1>6, FS_Subset
<1> QED BY <1>6, <1>7 DEF n, T

\* Steps of a function, from a start.
LEMMA Iterates ==
  ASSUME NEW P, NEW start \in P, NEW step \in [P -> P], NEW n \in Nat
  PROVE  \E f \in [0..n -> P] : f[0] = start /\ \A k \in 1..n : f[k] = step[f[k - 1]]
<1> DEFINE Runs(f, k) == f[0] = start /\ \A i \in 1..k : f[i] = step[f[i - 1]]
           T == {k \in Nat : \E f \in [0..k -> P] : Runs(f, k)}
<1>1. 0 \in T
  <2> DEFINE f == [i \in 0..0 |-> start]
  <2>1. f \in [0..0 -> P] /\ Runs(f, 0)
    OBVIOUS
  <2> QED BY <2>1
<1>2. ASSUME NEW k \in Nat, k \in T PROVE k + 1 \in T
  <2>1. PICK f \in [0..k -> P] : Runs(f, k)
    BY <1>2
  <2> DEFINE g == [i \in 0..k + 1 |-> IF i = k + 1 THEN step[f[k]] ELSE f[i]]
  <2>2. \A i \in 0..k + 1 : i # k + 1 => i \in 0..k
    OBVIOUS
  <2>3. k \in 0..k /\ f[k] \in P /\ step[f[k]] \in P
    OBVIOUS
  <2>4. g \in [0..k + 1 -> P]
    BY <2>2, <2>3
  <2>5. g[0] = start
    BY <2>1
  <2>6. ASSUME NEW i \in 1..k + 1 PROVE g[i] = step[g[i - 1]]
    <3>1. CASE i = k + 1
      BY <3>1
    <3>2. CASE i # k + 1
      <4>1. i \in 1..k /\ i - 1 \in 0..k /\ i - 1 # k + 1 /\ i \in 0..k + 1 /\ i - 1 \in 0..k + 1
        BY <3>2
      <4> QED BY <4>1, <3>2, <2>1
    <3> QED BY <3>1, <3>2
  <2> QED BY <2>4, <2>5, <2>6, SMTT(30)
<1> HIDE DEF T
<1>3. n \in T
  BY <1>1, <1>2, NatSetInduction
<1> QED BY <1>3 DEF T

\* What a sort may make of a set: each element once, none before a lesser one.
LEMMA SortingsAre ==
  ASSUME NEW S, IsFiniteSet(S), NEW lesser, NEW s \in Sortings(S, lesser)
  PROVE  /\ s \in Seq(S) /\ Once(s) /\ ToSet(s) = S /\ Len(s) = Cardinality(S)
         /\ \A i, j \in 1..Len(s) : i < j => <<s[j], s[i]>> \notin lesser
<1> DEFINE n == Cardinality(S)
           LeastOf(rest) == {i \in rest : \A j \in rest : <<j, i>> \notin lesser}
           Step(A) == UNION {{Append(z, i) : i \in LeastOf(S \ ToSet(z))} : z \in A}
           P == SUBSET Seq(S)
           step == [A \in P |-> Step(A)]
           F == CHOOSE F : F = [k \in 0..n |-> IF k = 0 THEN {<<>>} ELSE Step(F[k - 1])]
           Sorted(z) == /\ Once(z)
                        /\ \A i, j \in 1..Len(z) : i < j => <<z[j], z[i]>> \notin lesser
                        /\ \A i \in 1..Len(z), j \in S \ ToSet(z) : <<j, z[i]>> \notin lesser
           T == {k \in Nat : k <= n => F[k] \in P /\ \A z \in F[k] : Len(z) = k /\ Sorted(z)}
<1>1. n \in Nat
  BY FS_CardinalityType
<1>2. s \in F[n]
  BY DEF Sortings
<1> HIDE DEF n
<1>3. \A A \in P : Step(A) \in P
  <2> SUFFICES ASSUME NEW A \in P, NEW z \in A, NEW i \in LeastOf(S \ ToSet(z)) PROVE Append(z, i) \in Seq(S)
    OBVIOUS
  <2>1. z \in Seq(S) /\ i \in S
    OBVIOUS
  <2> QED BY <2>1, AppendProperties
<1>4. F = [k \in 0..n |-> IF k = 0 THEN {<<>>} ELSE Step(F[k - 1])]
  <2> HIDE DEF Step
  <2>1. step \in [P -> P]
    BY <1>3
  <2>2. {<<>>} \in P
    OBVIOUS
  <2>3. PICK f \in [0..n -> P] : f[0] = {<<>>} /\ \A k \in 1..n : f[k] = step[f[k - 1]]
    <3> DEFINE start == {<<>>}
    <3>1. start \in P
      BY <2>2
    <3> HIDE DEF P, step, start
    <3>2. \E f \in [0..n -> P] : f[0] = start /\ \A k \in 1..n : f[k] = step[f[k - 1]]
      BY <1>1, <2>1, <3>1, Iterates, SMTT(30)
    <3> QED BY <3>2 DEF start
  <2>4. \A k \in 0..n : f[k] = IF k = 0 THEN {<<>>} ELSE Step(f[k - 1])
    <3> SUFFICES ASSUME NEW k \in 0..n, k # 0 PROVE f[k] = Step(f[k - 1])
      BY <2>3
    <3>1. k \in 1..n /\ k - 1 \in 0..n
      BY <1>1
    <3> QED BY <3>1, <2>3
  <2>5. f = [k \in 0..n |-> IF k = 0 THEN {<<>>} ELSE Step(f[k - 1])]
    <3>1. f = [k \in 0..n |-> f[k]]
      BY <2>3
    <3> HIDE DEF P
    <3> QED BY <3>1, <2>4
  <2> QED BY <2>5
<1> HIDE DEF F
<1>5. 0 \in T
  <2>1. F[0] = {<<>>}
    BY <1>1, <1>4
  <2>2. <<>> \in Seq(S) /\ Len(<<>>) = 0 /\ 1..0 = {}
    OBVIOUS
  <2>3. Sorted(<<>>)
    BY <2>2 DEF Once
  <2> QED BY <2>1, <2>2, <2>3
<1>6. ASSUME NEW k \in Nat, k \in T PROVE k + 1 \in T
  <2> SUFFICES ASSUME k + 1 <= n PROVE F[k + 1] \in P /\ \A z \in F[k + 1] : Len(z) = k + 1 /\ Sorted(z)
    OBVIOUS
  <2>1. F[k] \in P /\ \A z \in F[k] : Len(z) = k /\ Sorted(z)
    BY <1>1, <1>6
  <2>2. F[k + 1] = Step(F[k])
    <3> HIDE DEF Step
    <3>1. k + 1 \in 0..n /\ k + 1 # 0 /\ (k + 1) - 1 = k
      BY <1>1
    <3> QED BY <3>1, <1>4
  <2>3. ASSUME NEW t \in F[k + 1] PROVE Len(t) = k + 1 /\ Sorted(t)
    <3>1. PICK z \in F[k] : \E e \in LeastOf(S \ ToSet(z)) : t = Append(z, e)
      BY <2>2
    <3>10. PICK e \in LeastOf(S \ ToSet(z)) : t = Append(z, e)
      BY <3>1
    <3>2. z \in Seq(S) /\ Len(z) = k /\ Sorted(z) /\ e \in S \ ToSet(z) /\ \A j \in S \ ToSet(z) : <<j, e>> \notin lesser
      BY <2>1, <3>1
    <3>3. Len(t) = k + 1 /\ t[k + 1] = e /\ \A i \in 1..k : t[i] = z[i]
      BY <3>10, <3>2, AppendProperties
    <3>4. \A i \in 1..k : z[i] # e /\ z[i] \in ToSet(z)
      BY <3>2, ElementIs
    <3>5. ToSet(t) = ToSet(z) \cup {e}
      BY <3>10, <3>2, AppendSet
    <3>6. \A i \in 1..k + 1 : i \in 1..k \/ i = k + 1
      OBVIOUS
    <3>7. Once(t)
      BY <3>2, <3>3, <3>4, <3>6 DEF Once
    <3>8. ASSUME NEW i \in 1..k + 1, NEW j \in 1..k + 1, i < j PROVE <<t[j], t[i]>> \notin lesser
      <4>1. i \in 1..k
        BY <3>8
      <4>2. CASE j = k + 1
        BY <4>1, <4>2, <3>2, <3>3
      <4>3. CASE j \in 1..k
        BY <4>1, <4>3, <3>2, <3>3, <3>8
      <4> QED BY <4>2, <4>3, <3>6
    <3>9. ASSUME NEW i \in 1..k + 1, NEW j \in S \ ToSet(t) PROVE <<j, t[i]>> \notin lesser
      <4>1. j \in S \ ToSet(z)
        BY <3>5
      <4> QED BY <4>1, <3>2, <3>3, <3>6
    <3> QED BY <3>3, <3>7, <3>8, <3>9
  <2>4. F[k + 1] \in P
    <3> HIDE DEF Step, P
    <3> QED BY <1>3, <2>1, <2>2
  <2> QED BY <2>3, <2>4
<1> HIDE DEF T
<1>7. n \in T
  BY <1>1, <1>5, <1>6, NatSetInduction
<1>8. s \in Seq(S) /\ Len(s) = n /\ Sorted(s)
  BY <1>1, <1>2, <1>7 DEF T
<1>9. ToSet(s) = S
  BY <1>8, OnceCounts DEF n
<1> QED BY <1>8, <1>9 DEF n

\* Orders of the places of a sequence, as sets of pairs.
WeakOrder(n, before) ==
  /\ \A i, j \in 1..n : <<i, j>> \in before => <<j, i>> \notin before
  /\ \A i, j, k \in 1..n : <<i, k>> \in before => <<i, j>> \in before \/ <<j, k>> \in before
TotalOrder(n, R) ==
  /\ \A i, j \in 1..n : <<i, j>> \in R => <<j, i>> \notin R
  /\ \A i, j, k \in 1..n : <<i, j>> \in R /\ <<j, k>> \in R => <<i, k>> \in R
  /\ \A i, j \in 1..n : i # j => <<i, j>> \in R \/ <<j, i>> \in R
KeysDiffer(n, key) ==
  /\ \A i \in 1..n : key[i] \in Int
  /\ \A i, j \in 1..n : key[i] = key[j] => i = j
Ties(n, before, key, R) ==
  \A i, j \in 1..n : <<i, j>> \in R <=> <<i, j>> \in before \/ (<<j, i>> \notin before /\ key[i] < key[j])

\* A weak order with keys that differ for its ties is a total one.
LEMMA TiesByKey ==
  ASSUME NEW n \in Nat, NEW before, NEW key, NEW R,
         WeakOrder(n, before), KeysDiffer(n, key), Ties(n, before, key, R)
  PROVE  TotalOrder(n, R)
<1> USE DEF WeakOrder, KeysDiffer, Ties
<1>1. \A i \in 1..n : key[i] \in Int
  OBVIOUS
<1>2. \A i, j \in 1..n : <<i, j>> \in R => <<j, i>> \notin R
  BY <1>1
<1>3. \A i, j \in 1..n : i # j => <<i, j>> \in R \/ <<j, i>> \in R
  <2>1. \A i, j \in 1..n : i # j => key[i] < key[j] \/ key[j] < key[i]
    BY <1>1
  <2> QED BY <2>1
<1>4. ASSUME NEW i \in 1..n, NEW j \in 1..n, NEW k \in 1..n, <<i, j>> \in R, <<j, k>> \in R PROVE <<i, k>> \in R
  <2> DEFINE B(a, b) == <<a, b>> \in before
  <2>1. /\ B(i, j) \/ (~B(j, i) /\ key[i] < key[j])
        /\ B(j, k) \/ (~B(k, j) /\ key[j] < key[k])
    BY <1>4
  <2>2. /\ B(i, j) => B(i, k) \/ B(k, j)
        /\ B(j, k) => B(j, i) \/ B(i, k)
        /\ B(k, i) => B(k, j) \/ B(j, i)
        /\ B(i, j) => ~B(j, i)
        /\ B(j, k) => ~B(k, j)
    OBVIOUS
  <2>3. key[i] < key[j] /\ key[j] < key[k] => key[i] < key[k]
    BY <1>1
  <2>4. B(i, k) \/ (~B(k, i) /\ key[i] < key[k])
    <3> HIDE DEF B
    <3> QED BY <2>1, <2>2, <2>3
  <2> QED BY <2>4
<1> QED BY <1>2, <1>3, <1>4 DEF TotalOrder

\* Arranged by a strict total order of its places, a sequence is in that order.
LEMMA ArrangedIs ==
  ASSUME NEW X, NEW s \in Seq(X), NEW R, TotalOrder(Len(s), R)
  PROVE  \E order \in Bijection(1..Len(s), 1..Len(s)) :
           /\ Arranged(s, R) = [k \in 1..Len(s) |-> s[order[k]]]
           /\ \A k, l \in 1..Len(s) : k < l => <<order[k], order[l]>> \in R
<1> DEFINE n == Len(s)
           place == [i \in DOMAIN s |-> Cardinality({j \in DOMAIN s : <<j, i>> \in R}) + 1]
           order == [k \in 1..n |-> CHOOSE i \in 1..n : place[i] = k]
<1>1. n \in Nat /\ DOMAIN s = 1..n
  BY LenProperties
<1>2. place = [i \in 1..n |-> Cardinality({j \in 1..n : <<j, i>> \in R}) + 1]
  BY <1>1
<1>3. Arranged(s, R) = [k \in 1..n |-> s[order[k]]]
  BY <1>1 DEF Arranged
<1> HIDE DEF place
<1>4. place \in Bijection(1..n, 1..n) /\ \A i, j \in 1..n : place[i] < place[j] => <<i, j>> \in R
  BY <1>1, <1>2, PlacesByOrder, ZenonT(30) DEF TotalOrder
<1> HIDE DEF n
<1>5. ASSUME NEW k \in 1..n PROVE order[k] \in 1..n /\ place[order[k]] = k
  <2>1. \E i \in 1..n : place[i] = k
    BY <1>4 DEF Bijection, Surjection
  <2> QED BY <2>1
<1> HIDE DEF order
<1>6. order \in Bijection(1..n, 1..n)
  <2>1. order \in [1..n -> 1..n]
    BY <1>5 DEF order
  <2>2. \A k, l \in 1..n : order[k] = order[l] => k = l
    BY <1>5
  <2>3. \A i \in 1..n : \E k \in 1..n : order[k] = i
    <3> SUFFICES ASSUME NEW i \in 1..n PROVE order[place[i]] = i /\ place[i] \in 1..n
      OBVIOUS
    <3>1. place[i] \in 1..n
      BY <1>4 DEF Bijection, Injection
    <3>2. place[order[place[i]]] = place[i] /\ order[place[i]] \in 1..n
      BY <1>5, <3>1
    <3> QED BY <1>4, <3>1, <3>2 DEF Bijection, Injection, IsInjective
  <2> QED BY <2>1, <2>2, <2>3 DEF Bijection, Injection, Surjection, IsInjective
<1>7. \A k, l \in 1..n : k < l => <<order[k], order[l]>> \in R
  BY <1>4, <1>5
<1> QED BY <1>3, <1>6, <1>7 DEF n

-----------------------------------------------------------------------------
(* Merging the metadata terms by length.                                   *)

Primaries == {i \in Places : Primary(found.candidates[i])}
Longer(i, j) ==
  \/ i \in Primaries /\ j \notin Primaries
  \/ (i \in Primaries <=> j \in Primaries) /\ found.candidates[i].len > found.candidates[j].len

LEMMA PlacesAre ==
  ASSUME IInv
  PROVE  /\ Places = 1..Len(found.candidates) /\ Len(found.candidates) \in Nat
         /\ \A i \in Places : found.candidates[i] \in Candidates
         /\ \A i \in Places : found.candidates[i].len \in Nat
         /\ \A i \in Places : i \notin WithGlossaries <=> ~found.candidates[i].glossary
<1>1. found.candidates \in Seq(Candidates)
  BY DEF IInv, TypesOK, Founds
<1>2. Places = 1..Len(found.candidates) /\ Len(found.candidates) \in Nat
  BY <1>1 DEF Places
<1>3. \A i \in Places : found.candidates[i] \in Candidates
  BY <1>1, <1>2
<1>4. \A i \in Places : found.candidates[i].len \in Nat
  <2>1. \A n \in 1..TextLen : n \in Nat
    BY LookupAssumption
  <2> QED BY <1>3, <2>1 DEF Candidates
<1>5. \A i \in Places : i \notin WithGlossaries <=> ~found.candidates[i].glossary
  BY DEF WithGlossaries
<1> QED BY <1>2, <1>3, <1>4, <1>5

\* by_length is what `less` compares first.
LEMMA ByLengthIs ==
  ASSUME IInv
  PROVE  /\ \A i, j \in Places : ByLength(i, j) <=> Longer(i, j)
         /\ \A i, j \in Places : Longer(i, j) => ~Longer(j, i)
         /\ \A i, k, j \in Places : Longer(i, k) => Longer(i, j) \/ Longer(j, k)
         /\ \A i, j \in Places : Longer(i, j) => Less(i, j)
<1> DEFINE cs == found.candidates
<1>1. ask \in Requests /\ found \in Founds /\ Unconfirmed(found)
  BY DEF IInv, TypesOK, CandidatesFit
<1>2. Places = 1..Len(cs) /\ \A i \in Places : cs[i] \in Candidates /\ cs[i].len \in Nat /\ i \in 1..Len(cs)
  BY PlacesAre
<1>3. \A i \in Places : Primary(cs[i]) \in BOOLEAN /\ (i \in Primaries <=> Primary(cs[i]))
  BY DEF Primary, Primaries
<1>4. \A i, j \in Places : ByLength(i, j) <=> IF Primary(cs[i]) # Primary(cs[j]) THEN Primary(cs[i]) ELSE cs[i].len > cs[j].len
  BY DEF ByLength
<1>5. \A i, j \in Places : ByLength(i, j) <=> Longer(i, j)
  BY <1>3, <1>4 DEF Longer
<1>6. \A i, j \in Places : Longer(i, j) => Less(i, j)
  <2> SUFFICES ASSUME NEW i \in Places, NEW j \in Places, Longer(i, j) PROVE Less(i, j)
    OBVIOUS
  <2> DEFINE x == RankKeys(cs[i])
             y == RankKeys(cs[j])
  <2>1. /\ x \in Keys /\ x[1] = First(Primary(cs[i])) /\ x[2] = -cs[i].len
        /\ y \in Keys /\ y[1] = First(Primary(cs[j])) /\ y[2] = -cs[j].len
    BY <1>1, <1>2, RankKeysTyped DEF Unconfirmed
  <2>2. Before(x, y) => Less(i, j)
    BY DEF Less
  <2> HIDE DEF x, y
  <2>3. DOMAIN x = 1..9
    BY <2>1 DEF Keys
  <2>4. CASE i \in Primaries /\ j \notin Primaries
    <3>1. x[1] = 0 /\ y[1] = 1
      BY <2>1, <2>4, <1>3 DEF First
    <3>2. Before(x, y)
      BY <3>1, <2>3 DEF Before
    <3> QED BY <3>2, <2>2
  <2>5. CASE (i \in Primaries <=> j \in Primaries) /\ cs[i].len > cs[j].len
    <3>1. x[1] = y[1]
      BY <2>1, <2>5, <1>3 DEF First
    <3>2. x[2] < y[2]
      BY <2>1, <2>5, <1>2
    <3>3. Before(x, y)
      <4>1. \A k \in 1..2 - 1 : k = 1
        OBVIOUS
      <4> QED BY <4>1, <3>1, <3>2, <2>3 DEF Before
    <3> QED BY <3>3, <2>2
  <2> QED BY <2>4, <2>5 DEF Longer
<1>7. \A i \in Places : cs[i].len \in Nat
  BY <1>2
<1> HIDE DEF cs
<1>8. /\ \A i, j \in Places : Longer(i, j) => ~Longer(j, i)
      /\ \A i, k, j \in Places : Longer(i, k) => Longer(i, j) \/ Longer(j, k)
  BY <1>7 DEF Longer, cs
<1> QED BY <1>5, <1>6, <1>8

LEMMA RearrangedIs ==
  ASSUME NEW X, NEW s \in Seq(X), NEW order \in Bijection(1..Len(s), 1..Len(s)),
         NEW r, r = [k \in 1..Len(s) |-> s[order[k]]]
  PROVE  /\ r \in Seq(X) /\ Len(r) = Len(s) /\ ToSet(r) = ToSet(s)
         /\ Once(s) => Once(r)
         /\ \A k \in 1..Len(s) : order[k] \in 1..Len(s) /\ r[k] = s[order[k]]
<1> DEFINE n == Len(s)
<1>1. n \in Nat /\ \A i \in 1..n : s[i] \in X
  BY ElementIs
<1>2. \A k \in 1..n : order[k] \in 1..n
  BY DEF Bijection, Injection
<1>3. /\ \A k, l \in 1..n : order[k] = order[l] => k = l
      /\ \A i \in 1..n : \E k \in 1..n : order[k] = i
  BY DEF Bijection, Injection, Surjection, IsInjective
<1>4. ToSet(s) = {s[i] : i \in 1..n}
  BY DEF ToSet
<1> HIDE DEF n
<1>5. r \in Seq(X) /\ Len(r) = n /\ \A k \in 1..n : r[k] = s[order[k]]
  BY <1>1, <1>2 DEF n
<1>6. ToSet(r) = {r[k] : k \in 1..n}
  BY <1>5 DEF ToSet
<1>7. Len(r) = Len(s)
  BY <1>5 DEF n
<1>8. ToSet(r) = ToSet(s)
  <2>1. \A k \in 1..n : r[k] \in ToSet(s)
    BY <1>2, <1>4, <1>5
  <2>2. \A i \in 1..n : \E k \in 1..n : s[i] = r[k]
    BY <1>3, <1>5
  <2>3. ToSet(r) \subseteq ToSet(s)
    BY <2>1, <1>6
  <2>4. ToSet(s) \subseteq ToSet(r)
    BY <2>2, <1>4, <1>6
  <2> QED BY <2>3, <2>4
<1>9. ASSUME Once(s) PROVE Once(r)
  <2>1. \A i, j \in 1..n : s[i] = s[j] => i = j
    BY <1>9 DEF Once, n
  <2>2. \A i, j \in 1..n : r[i] = r[j] => i = j
    <3> SUFFICES ASSUME NEW i \in 1..n, NEW j \in 1..n, r[i] = r[j] PROVE i = j
      OBVIOUS
    <3>1. order[i] \in 1..n /\ order[j] \in 1..n /\ s[order[i]] = s[order[j]]
      BY <1>2, <1>5
    <3>2. order[i] = order[j]
      BY <2>1, <3>1
    <3> QED BY <3>2, <1>3
  <2> QED BY <2>2, <1>7 DEF Once, n
<1> QED BY <1>2, <1>5, <1>8, <1>9 DEF n

\* Metadata terms are in the order of `less`, and each is there once.
LEMMA MetadataOrderIs ==
  ASSUME IInv
  PROVE  /\ MetadataOrder \in Seq(Places) /\ Once(MetadataOrder)
         /\ ToSet(MetadataOrder) = Places \ WithGlossaries
         /\ \A k, l \in 1..Len(MetadataOrder) : k < l => ~Less(MetadataOrder[l], MetadataOrder[k])
<1> DEFINE cs == found.candidates
           all == [i \in Places |-> i]
           s == Those(all, Places \ WithGlossaries)
           Key(x) == Info[cs[s[x]].term].key
           R == {p \in (DOMAIN s) \X (DOMAIN s) :
                   \/ Less(s[p[1]], s[p[2]])
                   \/ ~Less(s[p[2]], s[p[1]]) /\ Key(p[1]) < Key(p[2])}
<1>1. Places = 1..Len(cs) /\ Len(cs) \in Nat /\ \A i \in Places : cs[i] \in Candidates
  BY PlacesAre
<1>2. all \in Seq(Places) /\ Len(all) = Len(cs) /\ \A i \in Places : all[i] = i
  BY <1>1
<1>3. MetadataOrder = Arranged(s, R)
  BY DEF MetadataOrder
<1> HIDE DEF all
<1>4. s \in Seq(Places) /\ ToSet(s) = Places \ WithGlossaries /\ Once(s)
  <2> DEFINE Up == {p \in Places \X Places : p[1] < p[2]}
  <2>1. \A i, j \in 1..Len(all) : i < j => <<all[i], all[j]>> \in Up
    BY <1>1, <1>2
  <2>2. /\ s \in Seq(Places) /\ (\A e : e \in ToSet(s) <=> e \in ToSet(all) /\ e \in Places \ WithGlossaries)
        /\ \A i, j \in 1..Len(s) : i < j => <<s[i], s[j]>> \in Up
    BY <1>2, <2>1, ThoseKeeps
  <2>3. \A e : e \in ToSet(all) <=> e \in Places
    BY <1>1, <1>2 DEF ToSet
  <2>7. \A a, b : <<a, b>> \in Up => a < b /\ a \in Nat /\ b \in Nat
    BY <1>1
  <2> HIDE DEF s, Up
  <2>4. Len(s) \in Nat
    BY <2>2
  <2>5. \A i, j \in 1..Len(s) : i < j => s[i] < s[j] /\ s[i] \in Nat /\ s[j] \in Nat
    BY <2>2, <2>7
  <2>6. Once(s)
    <3> SUFFICES ASSUME NEW i \in 1..Len(s), NEW j \in 1..Len(s), i # j PROVE s[i] # s[j]
      BY DEF Once
    <3>1. i < j \/ j < i
      BY <2>4
    <3> QED BY <3>1, <2>5
  <2> QED BY <2>2, <2>3, <2>6
<1> HIDE DEF s
<1> DEFINE n == Len(s)
           key == [x \in 1..n |-> Key(x)]
           before == {p \in (1..n) \X (1..n) : Less(s[p[1]], s[p[2]])}
<1>5. n \in Nat /\ DOMAIN s = 1..n /\ \A x \in 1..n : s[x] \in Places
  BY <1>4, ElementIs
<1>6. \A x \in 1..n : cs[s[x]].term \in Terms /\ Key(x) \in Int
  <2>1. \A x \in 1..n : cs[s[x]].term \in Terms
    BY <1>1, <1>5 DEF Candidates
  <2> QED BY <2>1, LookupAssumption
<1>7. \A x, y \in 1..n : Key(x) = Key(y) => x = y
  <2> SUFFICES ASSUME NEW x \in 1..n, NEW y \in 1..n, Key(x) = Key(y) PROVE x = y
    OBVIOUS
  <2>1. cs[s[x]].term = cs[s[y]].term
    BY <1>6, LookupAssumption
  <2>2. Agree(ask.shortest, found)
    BY DEF IInv, CandidatesFit
  <2>3. s[x] \in 1..Len(cs) /\ s[y] \in 1..Len(cs)
    BY <1>1, <1>5
  <2>4. s[x] = s[y]
    BY <2>1, <2>2, <2>3 DEF Agree
  <2> QED BY <2>4, <1>4 DEF Once
<1> HIDE DEF cs
<1>8. key \in [1..n -> Int] /\ \A x \in 1..n : key[x] = Key(x)
  BY <1>6
<1>9. \A x, y \in 1..n : <<x, y>> \in before <=> Less(s[x], s[y])
  OBVIOUS
<1>10. \A x, y \in 1..n : <<x, y>> \in R <=> Less(s[x], s[y]) \/ (~Less(s[y], s[x]) /\ Key(x) < Key(y))
  BY <1>5
<1>11. /\ \A i, j \in Places : Less(i, j) => ~Less(j, i)
       /\ \A i, k, j \in Places : Less(i, k) => Less(i, j) \/ Less(j, k)
  BY LessIs
<1> HIDE DEF R, before, key, Key, n
<1>12. WeakOrder(n, before)
  BY <1>5, <1>9, <1>11 DEF WeakOrder
<1>13. KeysDiffer(n, key)
  BY <1>6, <1>7, <1>8 DEF KeysDiffer
<1>14. Ties(n, before, key, R)
  BY <1>8, <1>9, <1>10 DEF Ties
<1>15. TotalOrder(n, R)
  BY <1>5, <1>12, <1>13, <1>14, TiesByKey
<1>16. PICK order \in Bijection(1..n, 1..n) :
         /\ Arranged(s, R) = [k \in 1..n |-> s[order[k]]]
         /\ \A k, l \in 1..n : k < l => <<order[k], order[l]>> \in R
  BY <1>4, <1>15, ArrangedIs DEF n
<1> DEFINE m == Arranged(s, R)
<1> HIDE DEF m
<1>17. /\ m \in Seq(Places) /\ Len(m) = n /\ ToSet(m) = ToSet(s) /\ Once(m)
       /\ \A k \in 1..n : order[k] \in 1..n /\ m[k] = s[order[k]]
  BY <1>4, <1>16, RearrangedIs DEF n, m
<1>18. ASSUME NEW k \in 1..n, NEW l \in 1..n, k < l PROVE ~Less(m[l], m[k])
  <2>1. <<order[k], order[l]>> \in R /\ order[k] \in 1..n /\ order[l] \in 1..n /\ m[k] = s[order[k]] /\ m[l] = s[order[l]]
    BY <1>16, <1>17, <1>18
  <2>2. Less(m[k], m[l]) \/ ~Less(m[l], m[k])
    BY <2>1, <1>10
  <2>3. m[k] \in Places /\ m[l] \in Places
    BY <2>1, <1>5
  <2> QED BY <2>2, <2>3, <1>11
<1>19. MetadataOrder = m
  BY <1>3 DEF m
<1> QED BY <1>4, <1>17, <1>18, <1>19

\* s are places of terms with glossaries, each once and in the order of `less`.
Sorted(s) ==
  /\ s \in Seq(Places) /\ ToSet(s) \subseteq WithGlossaries /\ Once(s)
  /\ \A k, l \in 1..Len(s) : k < l => ~Less(s[l], s[k])

LEMMA BothAre ==
  ASSUME IInv, NEW s, Sorted(s), NEW both, both = s \o MetadataOrder
  PROVE  /\ both \in Seq(Places) /\ Len(both) = Len(s) + Len(MetadataOrder) /\ Len(s) \in Nat /\ Len(both) \in Nat
         /\ Once(both) /\ ToSet(both) = ToSet(s) \cup (Places \ WithGlossaries)
         /\ \A a \in 1..Len(both) : both[a] \in WithGlossaries <=> a <= Len(s)
         /\ \A a, b \in 1..Len(s) : a < b => ~Less(both[b], both[a])
<1> DEFINE m == MetadataOrder
<1>1. s \in Seq(Places) /\ ToSet(s) \subseteq WithGlossaries /\ Once(s)
  BY DEF Sorted
<1>2. m \in Seq(Places) /\ Once(m) /\ ToSet(m) = Places \ WithGlossaries
  BY MetadataOrderIs
<1> HIDE DEF m
<1>3. Len(s) \in Nat /\ Len(m) \in Nat
  BY <1>1, <1>2, ElementIs
<1>4. /\ both \in Seq(Places) /\ Len(both) = Len(s) + Len(m)
      /\ \A a \in 1..Len(s) + Len(m) : both[a] = IF a <= Len(s) THEN s[a] ELSE m[a - Len(s)]
  BY <1>1, <1>2, ConcatProperties DEF m
<1>5. ToSet(both) = ToSet(s) \cup ToSet(m)
  BY <1>1, <1>2, ConcatSet DEF m
<1>6. ASSUME NEW a \in 1..Len(both), a <= Len(s)
      PROVE  both[a] = s[a] /\ a \in 1..Len(s) /\ both[a] \in WithGlossaries
  <2>1. a \in 1..Len(s) /\ both[a] = s[a]
    BY <1>3, <1>4, <1>6
  <2>2. s[a] \in ToSet(s)
    BY <2>1, <1>1, ElementIs
  <2> QED BY <2>1, <2>2, <1>1
<1>7. ASSUME NEW a \in 1..Len(both), ~(a <= Len(s))
      PROVE  both[a] = m[a - Len(s)] /\ a - Len(s) \in 1..Len(m) /\ both[a] \notin WithGlossaries
  <2>1. a - Len(s) \in 1..Len(m) /\ both[a] = m[a - Len(s)]
    BY <1>3, <1>4, <1>7
  <2>2. m[a - Len(s)] \in ToSet(m)
    BY <2>1, <1>2, ElementIs
  <2> QED BY <2>1, <2>2, <1>2
<1>8. Once(both)
  <2> SUFFICES ASSUME NEW a \in 1..Len(both), NEW b \in 1..Len(both), both[a] = both[b] PROVE a = b
    BY DEF Once
  <2>1. CASE a <= Len(s)
    <3>1. b <= Len(s)
      BY <2>1, <1>6, <1>7
    <3>2. s[a] = s[b] /\ a \in 1..Len(s) /\ b \in 1..Len(s)
      BY <2>1, <3>1, <1>6
    <3> QED BY <3>2, <1>1 DEF Once
  <2>2. CASE ~(a <= Len(s))
    <3>1. ~(b <= Len(s))
      BY <2>2, <1>6, <1>7
    <3>2. m[a - Len(s)] = m[b - Len(s)] /\ a - Len(s) \in 1..Len(m) /\ b - Len(s) \in 1..Len(m)
      BY <2>2, <3>1, <1>7
    <3>3. a - Len(s) = b - Len(s)
      BY <3>2, <1>2 DEF Once
    <3> QED BY <3>3, <1>3
  <2> QED BY <2>1, <2>2
<1>9. \A a, b \in 1..Len(s) : a < b => ~Less(both[b], both[a])
  <2> SUFFICES ASSUME NEW a \in 1..Len(s), NEW b \in 1..Len(s), a < b PROVE ~Less(both[b], both[a])
    OBVIOUS
  <2>1. both[a] = s[a] /\ both[b] = s[b]
    BY <1>3, <1>4
  <2> QED BY <2>1 DEF Sorted
<1>10. Len(both) \in Nat /\ \A a \in 1..Len(both) : both[a] \in WithGlossaries <=> a <= Len(s)
  BY <1>3, <1>4, <1>6, <1>7
<1> QED BY <1>2, <1>3, <1>4, <1>5, <1>8, <1>9, <1>10 DEF m

\* What the metadata terms leave of the order, and where they come.
InPlace(r) ==
  /\ \A k, l \in 1..Len(r) : k < l /\ r[k] \in WithGlossaries /\ r[l] \in WithGlossaries => ~Less(r[l], r[k])
  /\ \A k, l \in 1..Len(r) :
        r[k] \notin WithGlossaries /\ r[l] \in WithGlossaries /\ (r[k] \in Primaries <=> r[l] \in Primaries)
          => (k < l <=> found.candidates[r[k]].len > found.candidates[r[l]].len)

LEMMA MergedIs ==
  ASSUME IInv, NEW s, Sorted(s), NEW r, r = Merged(s, MetadataOrder)
  PROVE  /\ r \in Seq(Places) /\ Once(r) /\ ToSet(r) = ToSet(s) \cup (Places \ WithGlossaries)
         /\ InPlace(r)
<1> DEFINE both == s \o MetadataOrder
           n == Len(both)
           R == {p \in (DOMAIN both) \X (DOMAIN both) :
                           \/ ByLength(both[p[1]], both[p[2]])
                           \/ ~ByLength(both[p[2]], both[p[1]]) /\ p[1] < p[2]}
           before == {p \in (1..n) \X (1..n) : Longer(both[p[1]], both[p[2]])}
           key == [x \in 1..n |-> x]
<1>1. r = Arranged(both, R)
  BY DEF Merged
<1>2. /\ both \in Seq(Places) /\ Len(s) \in Nat /\ n \in Nat
      /\ Once(both) /\ ToSet(both) = ToSet(s) \cup (Places \ WithGlossaries)
      /\ \A a \in 1..n : both[a] \in WithGlossaries <=> a <= Len(s)
      /\ \A a, b \in 1..Len(s) : a < b => ~Less(both[b], both[a])
  BY BothAre
<1> HIDE DEF both
<1>3. DOMAIN both = 1..n /\ \A a \in 1..n : both[a] \in Places
  BY <1>2, ElementIs
<1>4. /\ \A i, j \in Places : ByLength(i, j) <=> Longer(i, j)
      /\ \A i, j \in Places : Longer(i, j) => ~Longer(j, i)
      /\ \A i, k, j \in Places : Longer(i, k) => Longer(i, j) \/ Longer(j, k)
      /\ \A i, j \in Places : Longer(i, j) => Less(i, j)
  BY ByLengthIs
<1>5. /\ \A a, b \in 1..n : <<a, b>> \in before <=> Longer(both[a], both[b])
      /\ \A a \in 1..n : key[a] = a /\ key[a] \in Int
  BY <1>2
<1>6. \A a, b \in 1..n : <<a, b>> \in R <=> Longer(both[a], both[b]) \/ (~Longer(both[b], both[a]) /\ a < b)
  BY <1>3, <1>4
<1> HIDE DEF R, before, key, n
<1>7. WeakOrder(n, before)
  BY <1>3, <1>4, <1>5 DEF WeakOrder
<1>8. KeysDiffer(n, key) /\ Ties(n, before, key, R)
  BY <1>5, <1>6 DEF KeysDiffer, Ties
<1>9. TotalOrder(n, R)
  BY <1>2, <1>7, <1>8, TiesByKey
<1>10. PICK order \in Bijection(1..n, 1..n) :
         /\ Arranged(both, R) = [k \in 1..n |-> both[order[k]]]
         /\ \A k, l \in 1..n : k < l => <<order[k], order[l]>> \in R
  BY <1>2, <1>9, ArrangedIs DEF n
<1>11. /\ r \in Seq(Places) /\ Len(r) = n /\ ToSet(r) = ToSet(both) /\ Once(r)
       /\ \A k \in 1..n : order[k] \in 1..n /\ r[k] = both[order[k]]
  <2>1. both \in Seq(Places) /\ Once(both)
    BY <1>2
  <2>2. r = [k \in 1..n |-> both[order[k]]]
    BY <1>1, <1>10
  <2> QED BY <2>1, <2>2, RearrangedIs DEF n
<1>12. ASSUME NEW k \in 1..n, NEW l \in 1..n, k < l
       PROVE  Longer(r[k], r[l]) \/ (~Longer(r[l], r[k]) /\ order[k] < order[l])
  <2>1. <<order[k], order[l]>> \in R /\ order[k] \in 1..n /\ order[l] \in 1..n
    BY <1>10, <1>11, <1>12
  <2>2. r[k] = both[order[k]] /\ r[l] = both[order[l]]
    BY <1>11
  <2> QED BY <2>1, <2>2, <1>6
<1>13. \A k \in 1..n : r[k] \in Places /\ order[k] \in 1..n /\ (r[k] \in WithGlossaries <=> order[k] <= Len(s))
  BY <1>2, <1>3, <1>11
<1>14. ASSUME NEW k \in 1..n, NEW l \in 1..n, k < l, r[k] \in WithGlossaries, r[l] \in WithGlossaries
       PROVE  ~Less(r[l], r[k])
  <2>1. CASE Longer(r[k], r[l])
    BY <2>1, <1>4, <1>13, LessIs
  <2>2. CASE order[k] < order[l]
    <3>1. order[k] \in 1..Len(s) /\ order[l] \in 1..Len(s)
      BY <1>2, <1>13, <1>14
    <3> QED BY <3>1, <2>2, <1>2, <1>11
  <2> QED BY <2>1, <2>2, <1>12, <1>14
<1>15. ASSUME NEW k \in 1..n, NEW l \in 1..n, r[k] \notin WithGlossaries, r[l] \in WithGlossaries,
              r[k] \in Primaries <=> r[l] \in Primaries
       PROVE  k < l <=> found.candidates[r[k]].len > found.candidates[r[l]].len
  <2>1. ~(order[k] < order[l])
    BY <1>2, <1>13, <1>15
  <2>2. Longer(r[k], r[l]) <=> found.candidates[r[k]].len > found.candidates[r[l]].len
    BY <1>15 DEF Longer
  <2>3. k < l => Longer(r[k], r[l])
    BY <2>1, <1>12
  <2>4. l < k => ~Longer(r[k], r[l])
    BY <1>4, <1>12, <1>13
  <2>5. k # l
    BY <1>15
  <2>6. k < l \/ l < k
    BY <2>5, <1>2
  <2>7. l < k => ~(k < l)
    BY <1>2
  <2> QED BY <2>2, <2>3, <2>4, <2>6, <2>7
<1>16. InPlace(r)
  BY <1>11, <1>14, <1>15 DEF InPlace
<1> QED BY <1>2, <1>11, <1>16

-----------------------------------------------------------------------------
(* What is returned.                                                       *)

LEMMA UpToIs ==
  ASSUME NEW X, NEW s \in Seq(X), NEW n \in Nat, NEW t, t = UpTo(s, n)
  PROVE  /\ t \in Seq(X) /\ Len(t) \in Nat /\ Len(t) = Least(Len(s), n) /\ Len(t) <= Len(s)
         /\ \A i \in 1..Len(t) : i \in 1..Len(s) /\ t[i] = s[i]
         /\ ToSet(t) \subseteq ToSet(s)
         /\ Once(s) => Once(t)
         /\ \A e \in ToSet(s) \ ToSet(t) : \E j \in 1..Len(s) : e = s[j] /\ \A i \in 1..Len(t) : i < j
<1> DEFINE k == Least(Len(s), n)
<1>1. Len(s) \in Nat /\ \A i \in 1..Len(s) : s[i] \in X /\ s[i] \in ToSet(s)
  BY ElementIs
<1>2. k \in Nat /\ k <= Len(s)
  BY <1>1 DEF Least
<1> HIDE DEF k
<1>3. t = SubSeq(s, 1, k)
  BY DEF UpTo, k
<1>4. \A i \in 1..k : i \in 1..Len(s)
  BY <1>1, <1>2
<1>5. t \in Seq(X) /\ Len(t) = k /\ \A i \in 1..k : t[i] = s[i]
  <2>1. \A i \in 1..k : s[i] \in X
    BY <1>1, <1>4
  <2>2. /\ t \in Seq(X) /\ Len(t) = (IF 1 <= k THEN k - 1 + 1 ELSE 0)
        /\ \A i \in 1..k - 1 + 1 : t[i] = s[1 + i - 1]
    BY <1>2, <1>3, <2>1, SubSeqProperties
  <2>3. Len(t) = k
    BY <2>2, <1>2
  <2>4. ASSUME NEW i \in 1..k PROVE t[i] = s[i]
    <3>1. i \in 1..k - 1 + 1 /\ 1 + i - 1 = i
      BY <1>2
    <3> QED BY <3>1, <2>2
  <2> QED BY <2>2, <2>3, <2>4
<1>6. ToSet(t) = {t[i] : i \in 1..k} /\ ToSet(s) = {s[i] : i \in 1..Len(s)}
  BY <1>5 DEF ToSet
<1>7. ToSet(t) \subseteq ToSet(s)
  BY <1>1, <1>4, <1>5, <1>6
<1>8. Once(s) => Once(t)
  BY <1>4, <1>5 DEF Once
<1>9. ASSUME NEW e \in ToSet(s) \ ToSet(t) PROVE \E j \in 1..Len(s) : e = s[j] /\ \A i \in 1..k : i < j
  <2>1. PICK j \in 1..Len(s) : e = s[j]
    BY <1>6
  <2>2. j \notin 1..k
    BY <2>1, <1>5, <1>6
  <2>3. \A i \in 1..k : i < j
    BY <2>2, <1>1, <1>2
  <2> QED BY <2>1, <2>3
<1> QED BY <1>2, <1>4, <1>5, <1>7, <1>8, <1>9 DEF k

CutLast(r) == \A i \in ToSet(r) \cap WithGlossaries, j \in WithGlossaries \ ToSet(r) : ~Less(j, i)

LEMMA RankedIs ==
  ASSUME IInv, NEW order \in Sortings(WithGlossaries, Lesser),
         NEW res, res = UpTo(Merged(UpTo(order, Retained), MetadataOrder), Retained)
  PROVE  res \in Seq(Places) /\ Once(res) /\ Len(res) = Retained /\ InPlace(res) /\ CutLast(res)
<1> DEFINE G == WithGlossaries
           N == Len(found.candidates)
           kept == UpTo(order, Retained)
           all == Merged(kept, MetadataOrder)
<1>1. Places = 1..N /\ N \in Nat
  BY PlacesAre
<1>2. Retained \in Nat /\ Retained <= N
  <2>1. ask \in Requests
    BY DEF IInv, TypesOK
  <2>2. ask.max_results \in Nat
    BY <2>1, LookupAssumption
  <2> QED BY <1>1, <2>2 DEF Retained, Least
<1>3. G \subseteq Places /\ IsFiniteSet(Places) /\ Cardinality(Places) = N
  BY <1>1, FS_Interval DEF WithGlossaries
<1>4. /\ IsFiniteSet(G) /\ Cardinality(G) \in Nat /\ Cardinality(G) <= N
      /\ IsFiniteSet(Places \ G) /\ Cardinality(Places \ G) = N - Cardinality(G)
  <2>1. Places \cap G = G
    BY <1>3
  <2>2. IsFiniteSet(G) /\ Cardinality(G) <= N
    BY <1>3, FS_Subset
  <2> QED BY <1>3, <2>1, <2>2, FS_Difference, FS_CardinalityType, ZenonT(30)
<1> HIDE DEF G, N, kept, all
<1>5. /\ order \in Seq(G) /\ Once(order) /\ ToSet(order) = G /\ Len(order) = Cardinality(G)
      /\ \A i, j \in 1..Len(order) : i < j => <<order[j], order[i]>> \notin Lesser
  BY <1>4, SortingsAre DEF G
<1>6. \A i, j \in 1..Len(order) : i < j => ~Less(order[j], order[i])
  <2> SUFFICES ASSUME NEW i \in 1..Len(order), NEW j \in 1..Len(order), i < j PROVE ~Less(order[j], order[i])
    OBVIOUS
  <2>1. order[i] \in Places /\ order[j] \in Places
    BY <1>3, <1>5, ElementIs
  <2> QED BY <2>1, <1>5 DEF Lesser
<1>7. /\ kept \in Seq(G) /\ Len(kept) \in Nat /\ Len(kept) = Least(Cardinality(G), Retained)
      /\ \A i \in 1..Len(kept) : i \in 1..Len(order) /\ kept[i] = order[i]
      /\ ToSet(kept) \subseteq G /\ Once(kept)
      /\ \A e \in G \ ToSet(kept) : \E j \in 1..Len(order) : e = order[j] /\ \A i \in 1..Len(kept) : i < j
  BY <1>2, <1>5, UpToIs DEF kept
<1>8. Sorted(kept)
  <2>1. kept \in Seq(Places)
    BY <1>3, <1>7
  <2> QED BY <2>1, <1>6, <1>7 DEF Sorted, G
<1>9. all \in Seq(Places) /\ Once(all) /\ ToSet(all) = ToSet(kept) \cup (Places \ G) /\ InPlace(all)
  BY <1>8, MergedIs DEF all, G
<1>10. Len(all) = Len(kept) + N - Cardinality(G)
  <2>1. Cardinality(ToSet(all)) = Len(all)
    BY <1>3, <1>9, OnceCounts
  <2>2. Cardinality(ToSet(kept)) = Len(kept)
    BY <1>4, <1>7, OnceCounts
  <2>3. IsFiniteSet(ToSet(kept)) /\ ToSet(kept) \cap (Places \ G) = {}
    BY <1>4, <1>7, FS_Subset
  <2>4. Cardinality(ToSet(all)) = Len(kept) + Cardinality(Places \ G) - Cardinality({})
    BY <2>2, <2>3, <1>4, <1>9, FS_Union
  <2>5. Cardinality({}) = 0
    BY FS_EmptySet
  <2> QED BY <2>1, <2>4, <2>5, <1>1, <1>4, <1>7
<1>11. res = UpTo(all, Retained)
  BY DEF all, kept
<1>12. /\ res \in Seq(Places) /\ Len(res) \in Nat /\ Len(res) = Least(Len(all), Retained)
       /\ \A i \in 1..Len(res) : i \in 1..Len(all) /\ res[i] = all[i]
       /\ ToSet(res) \subseteq ToSet(all) /\ Once(res)
       /\ \A e \in ToSet(all) \ ToSet(res) : \E j \in 1..Len(all) : e = all[j] /\ \A i \in 1..Len(res) : i < j
  BY <1>2, <1>9, <1>11, UpToIs
<1>13. Len(res) = Retained
  <2>1. Len(all) >= Retained
    <3>1. Len(kept) = IF Cardinality(G) < Retained THEN Cardinality(G) ELSE Retained
      BY <1>7 DEF Least
    <3> QED BY <3>1, <1>1, <1>2, <1>4, <1>10
  <2>2. Len(all) \in Nat
    BY <1>9, ElementIs
  <2> QED BY <2>1, <2>2, <1>2, <1>12 DEF Least
<1>14. InPlace(res)
  <2>1. \A i \in 1..Len(res) : i \in 1..Len(all) /\ res[i] = all[i]
    BY <1>12
  <2> QED BY <2>1, <1>9 DEF InPlace
<1>15. ASSUME NEW i \in ToSet(res) \cap G, NEW j \in G \ ToSet(res) PROVE ~Less(j, i)
  <2>1. i \in ToSet(all) /\ i \in ToSet(kept)
    BY <1>9, <1>12
  <2>2. CASE j \in ToSet(kept)
    <3>1. j \in ToSet(all) \ ToSet(res)
      BY <2>2, <1>9
    <3>2. PICK b \in 1..Len(all) : j = all[b] /\ \A a \in 1..Len(res) : a < b
      BY <3>1, <1>12
    <3>3. PICK a \in 1..Len(res) : i = res[a]
      BY <1>12 DEF ToSet
    <3>4. a \in 1..Len(all) /\ i = all[a] /\ a < b
      BY <3>2, <3>3, <1>12
    <3> QED BY <3>2, <3>4, <1>9 DEF InPlace, G
  <2>3. CASE j \notin ToSet(kept)
    <3>1. PICK b \in 1..Len(order) : j = order[b] /\ \A a \in 1..Len(kept) : a < b
      BY <2>3, <1>7
    <3>2. PICK a \in 1..Len(kept) : i = kept[a]
      BY <2>1, <1>7 DEF ToSet
    <3>3. a \in 1..Len(order) /\ i = order[a] /\ a < b
      BY <3>1, <3>2, <1>7
    <3> QED BY <3>1, <3>3, <1>6
  <2> QED BY <2>2, <2>3
<1> QED BY <1>12, <1>13, <1>14, <1>15 DEF CutLast, G

Ranked ==
  phase = "done" =>
    /\ result \in Seq(Places) /\ Once(result) /\ Len(result) = Retained
    /\ InPlace(result) /\ CutLast(result)

LEMMA RankRanks ==
  ASSUME IInv, Rank
  PROVE  Ranked'
<1>1. PICK order \in Sortings(WithGlossaries, Lesser) :
         result' = UpTo(Merged(UpTo(order, Retained), MetadataOrder), Retained)
  BY DEF Rank
<1>2. result' \in Seq(Places) /\ Once(result') /\ Len(result') = Retained /\ InPlace(result') /\ CutLast(result')
  BY <1>1, RankedIs
<1>3. found' = found /\ ask' = ask
  BY DEF Rank
<1>4. Places' = Places /\ WithGlossaries' = WithGlossaries /\ Retained' = Retained /\ Primaries' = Primaries
  BY <1>3 DEF Places, WithGlossaries, Retained, Primaries, Primary
<1>5. \A i, j : Less(i, j)' <=> Less(i, j)
  BY <1>3 DEF Less, RankKeys, RankDepth, Standing, AfterReferences, ConfirmedDepths, Primary, Confirmed, WholeWord
<1>6. InPlace(result)' /\ CutLast(result)'
  BY <1>2, <1>3, <1>4, <1>5 DEF InPlace, CutLast
<1> QED BY <1>2, <1>4, <1>6 DEF Ranked, Once

LEMMA NextKeepsRanked ==
  ASSUME IInv, Ranked, [Next]_vars
  PROVE  Ranked'
<1>1. CASE Rank
  BY <1>1, RankRanks
<1>2. CASE ScanPrefix \/ Extend \/ FollowScan \/ ReadPasses \/ FollowPasses \/ AddMetadata
  <2>1. phase' # "done"
    BY <1>2 DEF ScanPrefix, Extend, FollowScan, ReadPasses, FollowPasses, AddMetadata
  <2> QED BY <2>1 DEF Ranked
<1>3. CASE UNCHANGED vars
  <2>1. phase' = phase /\ result' = result /\ found' = found /\ ask' = ask
    BY <1>3 DEF vars
  <2>2. Places' = Places /\ WithGlossaries' = WithGlossaries /\ Retained' = Retained /\ Primaries' = Primaries
    BY <2>1 DEF Places, WithGlossaries, Retained, Primaries, Primary
  <2>3. \A i, j : Less(i, j)' <=> Less(i, j)
    BY <2>1 DEF Less, RankKeys, RankDepth, Standing, AfterReferences, ConfirmedDepths, Primary, Confirmed, WholeWord
  <2>4. (InPlace(result)' <=> InPlace(result)) /\ (CutLast(result)' <=> CutLast(result))
    BY <2>1, <2>2, <2>3 DEF InPlace, CutLast
  <2> QED BY <2>1, <2>2, <2>4 DEF Ranked, Once
<1> QED BY <1>1, <1>2, <1>3 DEF Next

\* The terms with glossaries among what is returned are in the order of `less`.
LEMMA TermsInOrder ==
  ASSUME NEW r \in Seq(Places), \A k, l \in 1..Len(r) : k < l /\ r[k] \in WithGlossaries /\ r[l] \in WithGlossaries
                                  => ~Less(r[l], r[k])
  PROVE  /\ InOrder(Those(r, WithGlossaries), Lesser)
         /\ ToSet(Those(r, WithGlossaries)) = ToSet(r) \cap WithGlossaries
<1> DEFINE G == WithGlossaries
           R == {p \in Places \X Places : p[1] \in G /\ p[2] \in G => ~Less(p[2], p[1])}
           t == Those(r, G)
<1>1. \A k \in 1..Len(r) : r[k] \in Places
  BY ElementIs
<1>2. \A a, b : <<a, b>> \in R => (a \in G /\ b \in G => ~Less(b, a))
  OBVIOUS
<1>3. \A k, l \in 1..Len(r) : k < l => <<r[k], r[l]>> \in R
  BY <1>1
<1> HIDE DEF R, G
<1>4. /\ t \in Seq(Places) /\ (\A e : e \in ToSet(t) <=> e \in ToSet(r) /\ e \in G)
      /\ \A k, l \in 1..Len(t) : k < l => <<t[k], t[l]>> \in R
  BY <1>3, ThoseKeeps
<1> HIDE DEF t
<1>5. DOMAIN t = 1..Len(t) /\ \A k \in 1..Len(t) : t[k] \in G
  BY <1>4, ElementIs
<1>6. \A k, l \in 1..Len(t) : k < l => ~Less(t[l], t[k])
  BY <1>2, <1>4, <1>5
<1>7. \A i, j : <<i, j>> \in Lesser => Less(i, j)
  BY DEF Lesser
<1>8. InOrder(t, Lesser)
  BY <1>5, <1>6, <1>7 DEF InOrder
<1>9. ToSet(t) = ToSet(r) \cap G
  BY <1>4
<1> QED BY <1>8, <1>9 DEF t, G

\* What lookup.cpp says of its passes, and of the metadata terms it merges into
\* the sorted ones: for every text, all dictionaries and any limit.
THEOREM ExtrasKept == Spec => []ExtrasMoveNothing
<1>1. ASSUME IInv, OrdinaryKept, Ranked PROVE ExtrasMoveNothing
  <2> DEFINE cs == found.candidates
             terms == Those(result, WithGlossaries)
             lesser == Lesser
             n == Len(result)
  <2>0. CASE phase # "done"
    BY <2>0 DEF ExtrasMoveNothing
  <2>1. CASE phase = "done"
    <3>1. ordinary \in Seq(Candidates) /\ KeptOrLonger(cs, ordinary)
      BY <2>1, <1>1 DEF OrdinaryKept
    <3>2. result \in Seq(Places) /\ Once(result) /\ n = Retained /\ InPlace(result) /\ CutLast(result)
      BY <2>1, <1>1 DEF Ranked
    <3>3. Places = 1..Len(cs) /\ \A i \in Places : i \notin WithGlossaries <=> ~cs[i].glossary
      BY <1>1, PlacesAre
    <3>4. DOMAIN ordinary = 1..Len(ordinary) /\ DOMAIN result = 1..n
      BY <3>1, <3>2
    <3>5. \A i \in 1..n : result[i] \in Places
      BY <3>2, ElementIs
    <3>6. ASSUME NEW i \in WithGlossaries
          PROVE  (i \in DOMAIN ordinary /\ cs[i] = ordinary[i]) \/ cs[i].len > OrdinaryLen(ordinary)
      <4>1. i \in 1..Len(cs) /\ cs[i].glossary /\ i \in Nat
        BY <3>3 DEF WithGlossaries
      <4>2. i <= Len(ordinary) => i \in DOMAIN ordinary
        BY <4>1, <3>1, <3>4
      <4> QED BY <4>1, <4>2, <3>1 DEF KeptOrLonger
    <3>7. \A i \in DOMAIN ordinary : cs[i].term = ordinary[i].term
      BY <3>1, <3>4 DEF KeptOrLonger
    <3>8. IsInjective(result) /\ Len(result) = Retained
      BY <3>2, <3>4 DEF Once, IsInjective
    <3>9. InOrder(terms, lesser) /\ ToSet(terms) = ToSet(result) \cap WithGlossaries
      BY <3>2, TermsInOrder DEF InPlace
    <3>10. \A i \in ToSet(terms), j \in WithGlossaries \ ToSet(terms) : <<j, i>> \notin lesser
      BY <3>2, <3>9 DEF CutLast, Lesser
    <3>11. ASSUME NEW i \in DOMAIN result, NEW j \in DOMAIN result, ~cs[result[i]].glossary, cs[result[j]].glossary,
                  Primary(cs[result[i]]) = Primary(cs[result[j]])
           PROVE  i < j <=> cs[result[i]].len > cs[result[j]].len
      <4>1. i \in 1..n /\ j \in 1..n /\ result[i] \in Places /\ result[j] \in Places
        BY <3>4, <3>5
      <4>2. result[i] \notin WithGlossaries /\ result[j] \in WithGlossaries
        BY <4>1, <3>3, <3>11
      <4>3. result[i] \in Primaries <=> result[j] \in Primaries
        BY <4>1, <3>11 DEF Primaries
      <4> QED BY <4>1, <4>2, <4>3, <3>2 DEF InPlace
    <3> HIDE DEF terms, lesser, n, cs
    <3> QED BY <3>6, <3>7, <3>8, <3>9, <3>10, <3>11 DEF ExtrasMoveNothing, terms, lesser, cs
  <2> QED BY <2>0, <2>1
<1>2. Init => OrdinaryKept /\ Ranked
  BY DEF Init, OrdinaryKept, Ranked
<1> QED BY <1>1, <1>2, Inductive, NextKeepsOrdinary, NextKeepsRanked, PTL DEF Spec
=============================================================================
