------------------------ MODULE DictionaryFileProofs ------------------------
(***************************************************************************)
(* Proofs about DictionaryFile, for every dictionary, however long its     *)
(* banks and rows, whatever hashes collide, and both sorts.                *)
(*                                                                         *)
(* Inv says what the importer knows of the bytes: where the file ends and  *)
(* where each glossary is.  Recorded adds the records, as a log that the   *)
(* file, the offsets and the rows written so far all follow; Indexed adds  *)
(* where the group of each hash is.  A query reads the group back into the *)
(* rows of the log.  Only these last two need the lengths to fit.          *)
(***************************************************************************)
EXTENDS DictionaryFile, SequenceFacts

-----------------------------------------------------------------------------
(* Cells.                                                                  *)

Numbers == {Number(n) : n \in Nat}
TextCells == {<<x, i>> : x \in Texts \cup {Empty}, i \in Nat}
GlossaryCells == {<<g, i>> : g \in Glossaries, i \in Nat}
Plain == Numbers \cup TextCells
Cells == Plain \cup GlossaryCells

\* A cell of a number or of a text is none of a glossary.
LEMMA PlainIsNoGlossary ==
  ASSUME NEW c \in Plain, NEW g \in Glossaries, NEW i PROVE c # <<g, i>>
<1>1. g # "number" /\ \A x \in Texts \cup {Empty} : g # x
  BY CellsAssumption
<1>2. CASE c \in Numbers
  <2>1. PICK n \in Nat : c = <<"number", n>>
    BY <1>2 DEF Numbers, Number
  <2> QED BY <1>1, <2>1
<1>3. CASE c \in TextCells
  <2>1. PICK x \in Texts \cup {Empty}, k \in Nat : c = <<x, k>>
    BY <1>3 DEF TextCells
  <2> QED BY <1>1, <2>1
<1> QED BY <1>2, <1>3 DEF Plain

LEMMA PiecesAre ==
  ASSUME NEW x \in Texts \cup {Empty} \cup Glossaries
  PROVE  /\ Size[x] \in Nat /\ Len(Pieces(x)) = Size[x] /\ \A i \in 1..Size[x] : Pieces(x)[i] = <<x, i>>
         /\ x \in Texts \cup {Empty} => Pieces(x) \in Seq(Plain)
         /\ x \in Glossaries => Pieces(x) \in Seq(GlossaryCells) /\ Size[x] > 0
<1>1. Size[x] \in Nat /\ (x \in Glossaries => Size[x] > 0)
  BY SizesAssumption
<1>2. Len(Pieces(x)) = Size[x] /\ \A i \in 1..Size[x] : Pieces(x)[i] = <<x, i>>
  BY <1>1 DEF Pieces
<1>3. ASSUME x \in Texts \cup {Empty} PROVE Pieces(x) \in Seq(Plain)
  <2>1. \A i \in 1..Size[x] : <<x, i>> \in Plain
    BY <1>1, <1>3 DEF Plain, TextCells
  <2> QED BY <1>1, <2>1 DEF Pieces
<1>4. ASSUME x \in Glossaries PROVE Pieces(x) \in Seq(GlossaryCells)
  <2>1. \A i \in 1..Size[x] : <<x, i>> \in GlossaryCells
    BY <1>1, <1>4 DEF GlossaryCells
  <2> QED BY <1>1, <2>1 DEF Pieces
<1> QED BY <1>1, <1>2, <1>3, <1>4

LEMMA NumberIsPlain == \A n \in Nat : Number(n) \in Plain
BY DEF Plain, Numbers

LEMMA PrefixedIs ==
  ASSUME NEW x \in Texts \cup {Empty}, NEW w \in Nat \ {0}
  PROVE  Prefixed(x, w) \in Seq(Plain) /\ Len(Prefixed(x, w)) = Size[x] + 1
<1>1. Pieces(x) \in Seq(Plain) /\ Len(Pieces(x)) = Size[x] /\ Size[x] \in Nat
  BY PiecesAre
<1>2. Size[x] % w \in Nat
  BY <1>1
<1>3. Number(Size[x] % w) \in Plain
  BY <1>2, NumberIsPlain
<1>4. <<Number(Size[x] % w)>> \in Seq(Plain) /\ Len(<<Number(Size[x] % w)>>) = 1
  BY <1>3
<1>5. Prefixed(x, w) = <<Number(Size[x] % w)>> \o Pieces(x)
  BY DEF Prefixed
<1> QED BY <1>1, <1>4, <1>5, ConcatProperties

-----------------------------------------------------------------------------
(* Glossaries in a file.                                                   *)

\* Each known glossary is whole where the map says; the first piece of any
\* glossary is where its only copy begins.
Stored(f, known) ==
  /\ \A g \in DOMAIN known : /\ g \in Glossaries /\ known[g] \in Nat /\ known[g] + Size[g] <= Len(f)
                             /\ \A i \in 1..Size[g] : f[known[g] + i] = <<g, i>>
  /\ \A k \in 1..Len(f) : \A g \in Glossaries : f[k] = <<g, 1>> => g \in DOMAIN known /\ k = known[g] + 1

\* What holds no glossary leaves the stored ones as they are.
LEMMA StoredPlain ==
  ASSUME NEW f \in Seq(Cells), NEW known, Stored(f, known), NEW d \in Seq(Plain)
  PROVE  f \o d \in Seq(Cells) /\ Len(f \o d) = Len(f) + Len(d) /\ Stored(f \o d, known)
<1>1. Len(f) \in Nat /\ Len(d) \in Nat /\ d \in Seq(Cells)
  BY DEF Cells
<1>2. /\ f \o d \in Seq(Cells) /\ Len(f \o d) = Len(f) + Len(d)
      /\ \A i \in 1..Len(f) + Len(d) : (f \o d)[i] = IF i <= Len(f) THEN f[i] ELSE d[i - Len(f)]
  BY <1>1, ConcatProperties
<1> DEFINE e == f \o d
<1> HIDE DEF e
<1>3. ASSUME NEW g \in DOMAIN known
      PROVE  /\ g \in Glossaries /\ known[g] \in Nat /\ known[g] + Size[g] <= Len(e)
             /\ \A i \in 1..Size[g] : e[known[g] + i] = <<g, i>>
  <2>1. /\ g \in Glossaries /\ known[g] \in Nat /\ known[g] + Size[g] <= Len(f)
        /\ \A i \in 1..Size[g] : f[known[g] + i] = <<g, i>>
    BY DEF Stored
  <2>2. Size[g] \in Nat
    BY <2>1, PiecesAre
  <2>3. \A i \in 1..Size[g] : known[g] + i \in 1..Len(f) + Len(d) /\ known[g] + i <= Len(f)
    BY <1>1, <2>1, <2>2
  <2>4. \A i \in 1..Size[g] : e[known[g] + i] = <<g, i>>
    BY <1>2, <2>1, <2>3 DEF e
  <2> QED BY <2>1, <2>2, <2>4, <1>1, <1>2 DEF e
<1>4. ASSUME NEW k \in 1..Len(e), NEW g \in Glossaries, e[k] = <<g, 1>> PROVE g \in DOMAIN known /\ k = known[g] + 1
  <2>1. CASE k <= Len(f)
    <3>1. k \in 1..Len(f) /\ e[k] = f[k]
      BY <2>1, <1>1, <1>2 DEF e
    <3> QED BY <3>1, <1>4 DEF Stored
  <2>2. CASE ~(k <= Len(f))
    <3>1. k - Len(f) \in 1..Len(d) /\ e[k] = d[k - Len(f)]
      BY <2>2, <1>1, <1>2 DEF e
    <3>2. d[k - Len(f)] \in Plain
      BY <3>1
    <3> QED BY <3>1, <3>2, <1>4, PlainIsNoGlossary
  <2> QED BY <2>1, <2>2
<1> QED BY <1>2, <1>3, <1>4 DEF Stored, e

\* A new glossary is stored where the file ended.
LEMMA StoredNew ==
  ASSUME NEW f \in Seq(Cells), NEW known, Stored(f, known), NEW g \in Glossaries, g \notin DOMAIN known,
         NEW now, now = With(known, g, Len(f))
  PROVE  /\ f \o Pieces(g) \in Seq(Cells) /\ Len(f \o Pieces(g)) = Len(f) + Size[g]
         /\ Stored(f \o Pieces(g), now)
         /\ DOMAIN now = DOMAIN known \cup {g}
<1> DEFINE d == Pieces(g)
           e == f \o d
<1>1. /\ Len(f) \in Nat /\ d \in Seq(Cells) /\ Len(d) = Size[g] /\ Size[g] \in Nat /\ Size[g] > 0
      /\ \A i \in 1..Size[g] : d[i] = <<g, i>>
  BY PiecesAre DEF Cells
<1> HIDE DEF d
<1>2. /\ e \in Seq(Cells) /\ Len(e) = Len(f) + Size[g]
      /\ \A i \in 1..Len(f) + Size[g] : e[i] = IF i <= Len(f) THEN f[i] ELSE d[i - Len(f)]
  BY <1>1, ConcatProperties
<1> HIDE DEF e
<1>3. DOMAIN now = DOMAIN known \cup {g} /\ now[g] = Len(f) /\ \A x \in DOMAIN known : now[x] = known[x]
  BY DEF With
<1>4. ASSUME NEW x \in DOMAIN known
      PROVE  /\ x \in Glossaries /\ now[x] \in Nat /\ now[x] + Size[x] <= Len(e)
             /\ \A i \in 1..Size[x] : e[now[x] + i] = <<x, i>>
  <2>1. /\ x \in Glossaries /\ known[x] \in Nat /\ known[x] + Size[x] <= Len(f)
        /\ \A i \in 1..Size[x] : f[known[x] + i] = <<x, i>>
    BY DEF Stored
  <2>2. Size[x] \in Nat /\ now[x] = known[x]
    BY <2>1, <1>3, PiecesAre
  <2>3. \A i \in 1..Size[x] : now[x] + i \in 1..Len(f) + Size[g] /\ now[x] + i <= Len(f)
    BY <1>1, <2>1, <2>2
  <2>4. \A i \in 1..Size[x] : e[now[x] + i] = <<x, i>>
    BY <1>2, <2>1, <2>2, <2>3
  <2> QED BY <2>1, <2>2, <2>4, <1>1, <1>2
<1>5. /\ now[g] \in Nat /\ now[g] + Size[g] <= Len(e)
      /\ \A i \in 1..Size[g] : e[now[g] + i] = <<g, i>>
  <2>1. ASSUME NEW i \in 1..Size[g] PROVE e[now[g] + i] = <<g, i>>
    <3>1. Len(f) + i \in 1..Len(f) + Size[g] /\ ~(Len(f) + i <= Len(f)) /\ (Len(f) + i) - Len(f) = i
      BY <1>1
    <3> QED BY <3>1, <1>1, <1>2, <1>3
  <2> QED BY <2>1, <1>1, <1>2, <1>3
<1>6. ASSUME NEW k \in 1..Len(e), NEW x \in Glossaries, e[k] = <<x, 1>> PROVE x \in DOMAIN now /\ k = now[x] + 1
  <2>1. CASE k <= Len(f)
    <3>1. k \in 1..Len(f) /\ e[k] = f[k]
      BY <2>1, <1>1, <1>2
    <3>2. x \in DOMAIN known /\ k = known[x] + 1
      BY <3>1, <1>6 DEF Stored
    <3> QED BY <3>2, <1>3
  <2>2. CASE ~(k <= Len(f))
    <3>1. k - Len(f) \in 1..Size[g] /\ e[k] = d[k - Len(f)]
      BY <2>2, <1>1, <1>2
    <3>2. <<g, k - Len(f)>> = <<x, 1>>
      BY <3>1, <1>1, <1>6
    <3>3. g = x /\ k - Len(f) = 1
      BY <3>2
    <3> QED BY <3>3, <1>1, <1>2, <1>3
  <2> QED BY <2>1, <2>2
<1>7. Stored(e, now)
  <2>1. \A x \in DOMAIN now : x \in DOMAIN known \/ x = g
    BY <1>3
  <2> QED BY <2>1, <1>4, <1>5, <1>6 DEF Stored
<1> QED BY <1>2, <1>3, <1>7 DEF e, d

-----------------------------------------------------------------------------
(* One bank of terms.                                                      *)

Spans0 == [glossary : Glossaries, offset : Nat, size : Nat]
Patches0 == [glossary : Glossaries, pos : Nat]
LongTexts == {t \in Texts : Size[t] > LongMin}
ProcessedFile ==
  [data : Seq(Plain), offsets : Seq(Nat \X Nat), blob : Seq(GlossaryCells), spans : Seq(Spans0),
   patches : Seq(Patches0), long : Seq(LongTexts), count : Nat]

\* The spans of a bank's glossaries follow each other, one for each glossary.
End(spans, k) == IF k = 0 THEN 0 ELSE spans[k].offset + spans[k].size
SpanFits(span, start, blob) ==
  /\ span.offset = start /\ span.size = Size[span.glossary] /\ start + span.size <= Len(blob)
  /\ \A i \in 1..span.size : blob[start + i] = <<span.glossary, i>>
SpansFit(spans, blob) ==
  /\ \A k \in 1..Len(spans) : SpanFits(spans[k], End(spans, k - 1), blob)
  /\ End(spans, Len(spans)) = Len(blob)
  /\ \A j, k \in 1..Len(spans) : spans[j].glossary = spans[k].glossary => j = k
Has(spans, g) == \E j \in 1..Len(spans) : spans[j].glossary = g
Fitting == {p \in ProcessedFile : /\ SpansFit(p.spans, p.blob) /\ p.count <= Len(p.data)
                                  /\ \A k \in 1..Len(p.patches) : Has(p.spans, p.patches[k].glossary)}

LongKeysOf(row) == {t \in {row.expr, Reading(row)} : Size[t] > LongMin}

LEMMA KeysAre ==
  ASSUME NEW row \in TermRow
  PROVE  /\ row.expr \in Texts /\ Reading(row) \in Texts
         /\ KeysOf(row) \in Seq(Texts) /\ Len(KeysOf(row)) \in Nat /\ DOMAIN KeysOf(row) = 1..Len(KeysOf(row))
         /\ ToSet(KeysOf(row)) = {row.expr, Reading(row)}
         /\ Keys(row) \in Seq(Plain) /\ Len(Keys(row)) \in Nat /\ Len(Keys(row)) > 0
<1>1. row.expr \in Texts /\ Reading(row) \in Texts
  BY DEF TermRow, Reading
<1>2. /\ KeysOf(row) \in Seq(Texts) /\ Len(KeysOf(row)) \in Nat /\ DOMAIN KeysOf(row) = 1..Len(KeysOf(row))
      /\ ToSet(KeysOf(row)) = {row.expr, Reading(row)}
  <2>1. CASE Reading(row) = row.expr
    <3>1. KeysOf(row) = <<row.expr>>
      BY <2>1 DEF KeysOf
    <3> QED BY <3>1, <2>1, <1>1 DEF ToSet
  <2>2. CASE Reading(row) # row.expr
    <3>1. KeysOf(row) = <<row.expr, Reading(row)>>
      BY <2>2 DEF KeysOf
    <3>2. 1..2 = {1, 2}
      OBVIOUS
    <3> QED BY <3>1, <3>2, <1>1 DEF ToSet
  <2> QED BY <2>1, <2>2
<1>3. Keys(row) \in Seq(Plain) /\ Len(Keys(row)) \in Nat /\ Len(Keys(row)) > 0
  <2> DEFINE a == Prefixed(row.expr, Width.key)
             b == Prefixed(Reading(row), Width.key)
  <2>1. a \in Seq(Plain) /\ b \in Seq(Plain)
    BY <1>1, WidthAssumption, PrefixedIs
  <2>2. <<Number(0)>> \in Seq(Plain) /\ Len(<<Number(0)>>) = 1
    BY NumberIsPlain
  <2>3. Keys(row) = (<<Number(0)>> \o a) \o b
    BY DEF Keys
  <2> HIDE DEF a, b
  <2> QED BY <2>1, <2>2, <2>3
<1> QED BY <1>1, <1>2, <1>3

LEMMA NotesAre ==
  ASSUME NEW row \in TermRow,
         NEW notes, notes = FlattenSeq([k \in DOMAIN KeysOf(row) |-> NoteLongKey(KeysOf(row)[k])])
  PROVE  notes \in Seq(LongTexts) /\ ToSet(notes) = LongKeysOf(row)
<1> DEFINE ks == KeysOf(row)
           ss == [k \in DOMAIN ks |-> NoteLongKey(ks[k])]
<1>1. ks \in Seq(Texts) /\ Len(ks) \in Nat /\ DOMAIN ks = 1..Len(ks) /\ ToSet(ks) = {row.expr, Reading(row)}
  BY KeysAre
<1> HIDE DEF ks
<1>2. \A k \in 1..Len(ks) : ks[k] \in Texts
  BY <1>1
<1>3. \A k \in 1..Len(ks) : NoteLongKey(ks[k]) \in Seq(LongTexts)
  <2> SUFFICES ASSUME NEW k \in 1..Len(ks) PROVE NoteLongKey(ks[k]) \in Seq(LongTexts)
    OBVIOUS
  <2>1. CASE Size[ks[k]] > LongMin
    <3>1. ks[k] \in LongTexts
      BY <2>1, <1>2 DEF LongTexts
    <3> HIDE DEF LongTexts
    <3> QED BY <3>1, <2>1 DEF NoteLongKey
  <2>2. CASE ~(Size[ks[k]] > LongMin)
    BY <2>2 DEF NoteLongKey
  <2> QED BY <2>1, <2>2
<1>4. \A t : ToSet(NoteLongKey(t)) = IF Size[t] > LongMin THEN {t} ELSE {}
  BY DEF NoteLongKey, ToSet
<1>5. ss \in Seq(Seq(LongTexts)) /\ Len(ss) = Len(ks) /\ \A k \in 1..Len(ks) : ss[k] = NoteLongKey(ks[k])
  BY <1>1, <1>3
<1>6. notes = FlattenSeq(ss)
  BY DEF ks
<1> HIDE DEF ss
<1>7. notes \in Seq(LongTexts)
  BY <1>5, <1>6, FlattenAppend, EmptySeq
<1>8. \A e : e \in ToSet(notes) <=> \E k \in 1..Len(ks) : e \in ToSet(ss[k])
  BY <1>5, <1>6, FlattenSeqSet
<1>9. \A e : e \in ToSet(ks) <=> \E k \in 1..Len(ks) : e = ks[k]
  BY <1>1 DEF ToSet
<1>10. ASSUME NEW e PROVE e \in ToSet(notes) <=> e \in ToSet(ks) /\ Size[e] > LongMin
  <2>1. \A k \in 1..Len(ks) : e \in ToSet(ss[k]) <=> e = ks[k] /\ Size[e] > LongMin
    BY <1>4, <1>5
  <2> QED BY <2>1, <1>8, <1>9
<1>11. ToSet(notes) = LongKeysOf(row)
  BY <1>1, <1>10 DEF LongKeysOf
<1> QED BY <1>7, <1>11

LEMMA SpanAdded ==
  ASSUME NEW spans \in Seq(Spans0), NEW blob \in Seq(GlossaryCells), SpansFit(spans, blob),
         NEW g \in Glossaries, ~Has(spans, g),
         NEW new, new = [glossary |-> g, offset |-> Len(blob), size |-> Size[g]]
  PROVE  /\ Append(spans, new) \in Seq(Spans0) /\ blob \o Pieces(g) \in Seq(GlossaryCells)
         /\ SpansFit(Append(spans, new), blob \o Pieces(g))
<1> DEFINE d == Pieces(g)
           more == Append(spans, new)
           after == blob \o d
           n == Len(spans)
<1>1. d \in Seq(GlossaryCells) /\ Len(d) = Size[g] /\ Size[g] \in Nat /\ \A i \in 1..Size[g] : d[i] = <<g, i>>
  BY PiecesAre
<1> HIDE DEF d
<1>2. /\ after \in Seq(GlossaryCells) /\ Len(blob) \in Nat /\ Len(after) = Len(blob) + Size[g]
      /\ \A i \in 1..Len(blob) : after[i] = blob[i]
      /\ \A i \in 1..Size[g] : after[Len(blob) + i] = <<g, i>>
  <2>1. /\ after \in Seq(GlossaryCells) /\ Len(blob) \in Nat /\ Len(after) = Len(blob) + Len(d)
        /\ \A i \in 1..Len(blob) : after[i] = blob[i]
    BY <1>1, ConcatIs
  <2>2. \A i \in 1..Len(d) : after[Len(blob) + i] = d[i]
    BY <1>1, ConcatIs
  <2> QED BY <2>1, <2>2, <1>1
<1>3. new \in Spans0 /\ new.glossary = g /\ new.offset = Len(blob) /\ new.size = Size[g]
  BY <1>1, <1>2 DEF Spans0
<1>4. /\ n \in Nat /\ more \in Seq(Spans0) /\ Len(more) = n + 1 /\ more[n + 1] = new
      /\ \A k \in 1..n : more[k] = spans[k] /\ spans[k] \in Spans0
  BY <1>3, AppendIs
<1> HIDE DEF after, more
<1>5. \A k \in 0..n : End(more, k) = End(spans, k)
  BY <1>4 DEF End
<1>6. End(more, n + 1) = Len(after) /\ End(more, n) = Len(blob)
  <2>1. End(more, n + 1) = Len(blob) + Size[g]
    BY <1>3, <1>4 DEF End
  <2>2. End(spans, n) = Len(blob)
    BY DEF SpansFit
  <2> QED BY <2>1, <2>2, <1>2, <1>4, <1>5
<1>7. SpanFits(more[n + 1], End(more, n), after)
  BY <1>1, <1>2, <1>3, <1>4, <1>6 DEF SpanFits
<1>8. ASSUME NEW k \in 1..n PROVE SpanFits(more[k], End(more, k - 1), after)
  <2> DEFINE s == spans[k]
             o == End(spans, k - 1)
  <2>1. s.offset \in Nat /\ s.size \in Nat /\ more[k] = s
    BY <1>4 DEF Spans0
  <2>2. /\ s.offset = o /\ s.size = Size[s.glossary] /\ o + s.size <= Len(blob)
        /\ \A i \in 1..s.size : blob[o + i] = <<s.glossary, i>>
    BY DEF SpansFit, SpanFits
  <2>3. End(more, k - 1) = o
    BY <1>4, <1>5
  <2> HIDE DEF s, o
  <2>4. \A i \in 1..s.size : o + i \in 1..Len(blob)
    BY <2>1, <2>2, <1>2
  <2>5. \A i \in 1..s.size : after[o + i] = <<s.glossary, i>>
    BY <2>2, <2>4, <1>2
  <2>6. o + s.size <= Len(after)
    BY <2>1, <2>2, <1>1, <1>2
  <2> QED BY <2>1, <2>2, <2>3, <2>5, <2>6 DEF SpanFits
<1>9. \A k \in 1..n + 1 : SpanFits(more[k], End(more, k - 1), after)
  <2>1. \A k \in 1..n + 1 : k \in 1..n \/ (k = n + 1 /\ k - 1 = n)
    BY <1>4
  <2> QED BY <2>1, <1>7, <1>8
<1>10. \A j, k \in 1..n + 1 : more[j].glossary = more[k].glossary => j = k
  <2>1. \A j, k \in 1..n : spans[j].glossary = spans[k].glossary => j = k
    BY DEF SpansFit
  <2>2. \A j \in 1..n + 1 : j \in 1..n \/ j = n + 1
    BY <1>4
  <2>3. \A j \in 1..n : spans[j].glossary # g
    BY DEF Has
  <2> QED BY <2>1, <2>2, <2>3, <1>3, <1>4
<1>11. SpansFit(more, after)
  BY <1>4, <1>6, <1>9, <1>10 DEF SpansFit
<1> QED BY <1>2, <1>4, <1>11 DEF after, more, d

LEMMA AddTermFits ==
  ASSUME NEW p \in Fitting, NEW row \in TermRow
  PROVE  /\ AddTerm(p, row) \in Fitting /\ AddTerm(p, row).count = p.count + 1
         /\ ToSet(AddTerm(p, row).long) = ToSet(p.long) \cup LongKeysOf(row)
<1> DEFINE g == row.glossary
           at == Len(p.data)
           inserted == \A i \in DOMAIN p.spans : p.spans[i].glossary # g
           new == [glossary |-> g, offset |-> Len(p.blob), size |-> Size[g]]
           patch == [glossary |-> g, pos |-> at + Len(Keys(row))]
           notes == FlattenSeq([k \in DOMAIN KeysOf(row) |-> NoteLongKey(KeysOf(row)[k])])
           more == [k \in DOMAIN KeysOf(row) |-> <<HashOf[KeysOf(row)[k]], at>>]
           end == <<Number(0), Number(Size[g])>>
           tags == Prefixed(row.tags, Width.tag)
           q == AddTerm(p, row)
<1>1. /\ p.data \in Seq(Plain) /\ p.offsets \in Seq(Nat \X Nat) /\ p.blob \in Seq(GlossaryCells)
      /\ p.spans \in Seq(Spans0) /\ p.patches \in Seq(Patches0) /\ p.long \in Seq(LongTexts) /\ p.count \in Nat
      /\ SpansFit(p.spans, p.blob) /\ p.count <= Len(p.data)
      /\ \A k \in 1..Len(p.patches) : Has(p.spans, p.patches[k].glossary)
  BY DEF Fitting, ProcessedFile
<1>2. /\ row.expr \in Texts /\ Reading(row) \in Texts /\ row.tags \in Texts \cup {Empty} /\ g \in Glossaries
      /\ KeysOf(row) \in Seq(Texts) /\ Len(KeysOf(row)) \in Nat /\ DOMAIN KeysOf(row) = 1..Len(KeysOf(row))
      /\ Keys(row) \in Seq(Plain) /\ Len(Keys(row)) \in Nat /\ Len(Keys(row)) > 0
  BY KeysAre DEF TermRow
<1>3. notes \in Seq(LongTexts) /\ ToSet(notes) = LongKeysOf(row)
  BY NotesAre
<1>4. more \in Seq(Nat \X Nat)
  <2>1. \A k \in 1..Len(KeysOf(row)) : KeysOf(row)[k] \in Texts
    BY <1>2
  <2>2. \A k \in 1..Len(KeysOf(row)) : <<HashOf[KeysOf(row)[k]], at>> \in Nat \X Nat
    BY <1>1, <2>1, SizesAssumption
  <2> QED BY <1>2, <2>2
<1>5. tags \in Seq(Plain) /\ end \in Seq(Plain)
  <2>1. tags \in Seq(Plain)
    BY <1>2, WidthAssumption, PrefixedIs
  <2>2. Number(0) \in Plain /\ Number(Size[g]) \in Plain
    BY <1>2, PiecesAre, NumberIsPlain
  <2> QED BY <2>1, <2>2
<1>6. patch \in Patches0 /\ patch.glossary = g
  <2>1. at + Len(Keys(row)) \in Nat
    BY <1>1, <1>2
  <2> QED BY <2>1, <1>2 DEF Patches0
<1>7. q = [p EXCEPT
            !.blob = IF inserted THEN @ \o Pieces(g) ELSE @,
            !.spans = IF inserted THEN Append(@, new) ELSE @,
            !.data = @ \o Keys(row) \o end \o tags,
            !.patches = Append(@, patch),
            !.offsets = @ \o more,
            !.long = @ \o notes,
            !.count = @ + 1]
  BY DEF AddTerm
<1> HIDE DEF notes, more, end, tags, q, patch
<1>8. /\ q.blob = IF inserted THEN p.blob \o Pieces(g) ELSE p.blob
      /\ q.spans = IF inserted THEN Append(p.spans, new) ELSE p.spans
      /\ q.data = p.data \o Keys(row) \o end \o tags
      /\ q.patches = Append(p.patches, patch)
      /\ q.offsets = p.offsets \o more
      /\ q.long = p.long \o notes
      /\ q.count = p.count + 1
  BY <1>7 DEF Fitting, ProcessedFile
<1>9. q = [data |-> q.data, offsets |-> q.offsets, blob |-> q.blob, spans |-> q.spans, patches |-> q.patches,
           long |-> q.long, count |-> q.count]
  BY <1>7 DEF Fitting, ProcessedFile
<1>10. inserted <=> ~Has(p.spans, g)
  <2>1. DOMAIN p.spans = 1..Len(p.spans)
    BY <1>1
  <2> QED BY <2>1 DEF Has
<1> HIDE DEF inserted, at
<1>11. q.data \in Seq(Plain) /\ q.count <= Len(q.data)
  <2> DEFINE d == p.data
             a == Keys(row)
  <2>1. d \in Seq(Plain) /\ a \in Seq(Plain) /\ end \in Seq(Plain) /\ tags \in Seq(Plain) /\ Len(a) > 0
    BY <1>1, <1>2, <1>5
  <2> HIDE DEF d, a
  <2>2. d \o a \in Seq(Plain) /\ Len(d \o a) = Len(d) + Len(a)
    BY <2>1, ConcatIs
  <2>3. (d \o a) \o end \in Seq(Plain) /\ Len((d \o a) \o end) = Len(d) + Len(a) + Len(end)
    BY <2>1, <2>2, ConcatIs
  <2>4. ((d \o a) \o end) \o tags \in Seq(Plain) /\ Len(((d \o a) \o end) \o tags) = Len(d) + Len(a) + Len(end) + Len(tags)
    BY <2>1, <2>3, ConcatIs
  <2>5. Len(a) \in Nat /\ Len(d) \in Nat /\ Len(end) \in Nat /\ Len(tags) \in Nat
    BY <2>1
  <2>6. q.data = ((d \o a) \o end) \o tags
    BY <1>8 DEF d, a
  <2>7. p.count \in Nat /\ p.count <= Len(d)
    BY <1>1 DEF d
  <2>8. p.count + 1 <= Len(d) + Len(a) + Len(end) + Len(tags)
    BY <2>1, <2>5, <2>7
  <2> QED BY <2>4, <2>6, <2>8, <1>8
<1>12. /\ q.blob \in Seq(GlossaryCells) /\ q.spans \in Seq(Spans0) /\ SpansFit(q.spans, q.blob)
       /\ Has(q.spans, g) /\ \A x : Has(p.spans, x) => Has(q.spans, x)
  <2>1. CASE ~inserted
    BY <2>1, <1>1, <1>8, <1>10
  <2>2. CASE inserted
    <3>1. q.blob = p.blob \o Pieces(g) /\ q.spans = Append(p.spans, new)
      BY <2>2, <1>8
    <3>2. q.blob \in Seq(GlossaryCells) /\ q.spans \in Seq(Spans0) /\ SpansFit(q.spans, q.blob)
      BY <2>2, <3>1, <1>1, <1>2, <1>10, SpanAdded
    <3>3. Has(q.spans, g) /\ \A x : Has(p.spans, x) => Has(q.spans, x)
      <4> DEFINE n == Len(p.spans)
      <4>1. n \in Nat /\ Len(q.spans) = n + 1 /\ q.spans[n + 1] = new /\ \A k \in 1..n : q.spans[k] = p.spans[k]
        BY <3>1, <1>1, AppendProperties
      <4>2. n + 1 \in 1..n + 1 /\ \A k \in 1..n : k \in 1..n + 1
        BY <4>1
      <4>3. new.glossary = g
        OBVIOUS
      <4> QED BY <4>1, <4>2, <4>3 DEF Has
    <3> QED BY <3>2, <3>3
  <2> QED BY <2>1, <2>2
<1>13. q.patches \in Seq(Patches0) /\ \A k \in 1..Len(q.patches) : Has(q.spans, q.patches[k].glossary)
  <2> DEFINE n == Len(p.patches)
  <2>1. /\ n \in Nat /\ q.patches \in Seq(Patches0) /\ Len(q.patches) = n + 1 /\ q.patches[n + 1] = patch
        /\ \A k \in 1..n : q.patches[k] = p.patches[k]
    BY <1>1, <1>6, <1>8, AppendProperties
  <2>2. \A k \in 1..n + 1 : k \in 1..n \/ k = n + 1
    BY <2>1
  <2> QED BY <2>1, <2>2, <1>1, <1>6, <1>12
<1>14. q.offsets \in Seq(Nat \X Nat) /\ q.long \in Seq(LongTexts) /\ q.count \in Nat
  <2>1. p.offsets \o more \in Seq(Nat \X Nat)
    BY <1>1, <1>4, ConcatProperties
  <2>2. p.long \o notes \in Seq(LongTexts)
    BY <1>1, <1>3, ConcatProperties
  <2> QED BY <2>1, <2>2, <1>1, <1>8, SMTT(30)
<1>15. q \in ProcessedFile
  BY <1>9, <1>11, <1>12, <1>13, <1>14 DEF ProcessedFile
<1>16. ToSet(q.long) = ToSet(p.long) \cup LongKeysOf(row)
  BY <1>1, <1>3, <1>8, ConcatSet
<1>17. q \in Fitting
  BY <1>11, <1>12, <1>13, <1>15 DEF Fitting
<1> QED BY <1>8, <1>16, <1>17 DEF q

\* A bank is built one row after the other.
LEMMA TermBankSteps ==
  ASSUME NEW rows \in Seq(TermRow)
  PROVE  \E f \in [0..Len(rows) -> Fitting] :
            /\ f[0] = NoBank /\ \A k \in 1..Len(rows) : f[k] = AddTerm(f[k - 1], rows[k])
            /\ ProcessTermBank(rows) = f[Len(rows)] /\ NoBank.count = 0
<1> DEFINE n == Len(rows)
           step == [k \in 1..n |-> [q \in Fitting |-> AddTerm(q, rows[k])]]
           F == CHOOSE F : F = [i \in 0..n |-> IF i = 0 THEN NoBank ELSE AddTerm(F[i - 1], rows[i])]
<1>1. n \in Nat /\ \A k \in 1..n : rows[k] \in TermRow
  OBVIOUS
<1>2. NoBank \in Fitting /\ NoBank.count = 0
  <2>1. NoBank \in ProcessedFile /\ NoBank.spans = <<>> /\ NoBank.blob = <<>> /\ NoBank.data = <<>>
        /\ NoBank.patches = <<>> /\ NoBank.count = 0
    BY EmptySeq DEF NoBank, ProcessedFile
  <2>2. SpansFit(<<>>, <<>>)
    BY DEF SpansFit, End
  <2> QED BY <2>1, <2>2 DEF Fitting
<1>3. step \in [1..n -> [Fitting -> Fitting]]
  BY <1>1, AddTermFits
<1> HIDE DEF step, F, n
<1>4. PICK f \in [0..n -> Fitting] : f[0] = NoBank /\ \A k \in 1..n : f[k] = step[k][f[k - 1]]
  <2>1. NoBank \in Fitting /\ n \in Nat /\ step \in [1..n -> [Fitting -> Fitting]]
    BY <1>1, <1>2, <1>3
  <2>2. \E f \in [0..n -> Fitting] : f[0] = NoBank /\ \A k \in 1..n : f[k] = step[k][f[k - 1]]
    BY <2>1, Folds
  <2> QED BY <2>2
<1>5. \A k \in 1..n : f[k] = AddTerm(f[k - 1], rows[k])
  <2> SUFFICES ASSUME NEW k \in 1..n PROVE f[k] = AddTerm(f[k - 1], rows[k])
    OBVIOUS
  <2>1. k - 1 \in 0..n /\ f[k - 1] \in Fitting
    BY <1>1
  <2>2. step[k][f[k - 1]] = AddTerm(f[k - 1], rows[k])
    BY <2>1 DEF step
  <2> QED BY <2>2, <1>4
<1>6. f = [i \in 0..n |-> IF i = 0 THEN NoBank ELSE AddTerm(f[i - 1], rows[i])]
  <2>1. \A i \in 0..n : i # 0 => i \in 1..n
    BY <1>1
  <2> QED BY <2>1, <1>4, <1>5
<1>7. F = [i \in 0..n |-> IF i = 0 THEN NoBank ELSE AddTerm(F[i - 1], rows[i])]
  BY <1>6 DEF F
<1>8. ProcessTermBank(rows) = F[n]
  BY DEF ProcessTermBank, F, n
<1> DEFINE T == {k \in Nat : k <= n => F[k] = f[k]}
<1>9. 0 \in T
  BY <1>1, <1>4, <1>7
<1>10. ASSUME NEW k \in Nat, k \in T PROVE k + 1 \in T
  <2> SUFFICES ASSUME k + 1 <= n PROVE F[k + 1] = f[k + 1]
    OBVIOUS
  <2>1. F[k] = f[k] /\ k + 1 \in 1..n /\ k + 1 \in 0..n /\ k + 1 # 0 /\ (k + 1) - 1 = k
    BY <1>1, <1>10
  <2>2. F[k + 1] = AddTerm(F[k], rows[k + 1])
    BY <2>1, <1>7
  <2>3. f[k + 1] = AddTerm(f[k], rows[k + 1])
    BY <2>1, <1>5
  <2> QED BY <2>1, <2>2, <2>3
<1> HIDE DEF T
<1>11. n \in T
  BY <1>1, <1>9, <1>10, NatSetInduction
<1>12. F[n] = f[n]
  BY <1>1, <1>11 DEF T
<1>13. f[0] = NoBank /\ (\A k \in 1..n : f[k] = AddTerm(f[k - 1], rows[k])) /\ ProcessTermBank(rows) = f[n]
  BY <1>4, <1>5, <1>8, <1>12
<1> QED BY <1>2, <1>13 DEF n

\* A bank is as long as its rows, and notes their long keys.
LEMMA TermBankFits ==
  ASSUME NEW rows \in Seq(TermRow), NEW p, p = ProcessTermBank(rows)
  PROVE  /\ p \in Fitting /\ p.count = Len(rows)
         /\ \A k \in 1..Len(rows) : LongKeysOf(rows[k]) \subseteq ToSet(p.long)
<1> DEFINE n == Len(rows)
<1>1. n \in Nat /\ \A k \in 1..n : rows[k] \in TermRow
  OBVIOUS
<1>2. PICK F \in [0..n -> Fitting] : /\ F[0] = NoBank /\ \A k \in 1..n : F[k] = AddTerm(F[k - 1], rows[k])
                                     /\ p = F[n] /\ NoBank.count = 0
  BY TermBankSteps
<1> HIDE DEF n
<1> DEFINE Fits(k) == /\ F[k] \in Fitting /\ F[k].count = k
                      /\ \A j \in 1..k : LongKeysOf(rows[j]) \subseteq ToSet(F[k].long)
           T == {k \in Nat : k <= n => Fits(k)}
<1>3. 0 \in T
  <2>1. 0 \in 0..n
    BY <1>1
  <2> QED BY <2>1, <1>2
<1>4. ASSUME NEW k \in Nat, k \in T PROVE k + 1 \in T
  <2> SUFFICES ASSUME k + 1 <= n PROVE Fits(k + 1)
    OBVIOUS
  <2>1. Fits(k) /\ k + 1 \in 1..n /\ (k + 1) - 1 = k
    BY <1>1, <1>4
  <2>2. F[k + 1] = AddTerm(F[k], rows[k + 1]) /\ rows[k + 1] \in TermRow
    BY <2>1, <1>1, <1>2
  <2>3. /\ F[k + 1] \in Fitting /\ F[k + 1].count = k + 1
        /\ ToSet(F[k + 1].long) = ToSet(F[k].long) \cup LongKeysOf(rows[k + 1])
    BY <2>1, <2>2, AddTermFits
  <2>4. \A j \in 1..k + 1 : j \in 1..k \/ j = k + 1
    OBVIOUS
  <2> QED BY <2>1, <2>3, <2>4
<1> HIDE DEF T
<1>5. n \in T
  BY <1>1, <1>3, <1>4, NatSetInduction
<1> QED BY <1>1, <1>2, <1>5 DEF T, n

-----------------------------------------------------------------------------
(* The spans of a bank that an earlier bank wrote are skipped.             *)

LEMMA SubSeqSplits ==
  ASSUME NEW S, NEW s \in Seq(S), NEW i \in Nat, NEW j \in Nat, NEW k \in Nat, i <= j, j <= k, k <= Len(s)
  PROVE  /\ SubSeq(s, i + 1, j) \in Seq(S) /\ Len(SubSeq(s, i + 1, j)) = j - i
         /\ SubSeq(s, i + 1, j) \o SubSeq(s, j + 1, k) = SubSeq(s, i + 1, k)
<1> DEFINE a == SubSeq(s, i + 1, j)
           b == SubSeq(s, j + 1, k)
           c == SubSeq(s, i + 1, k)
<1>1. a \in Seq(S) /\ Len(a) = j - i /\ \A x \in 1..j - i : a[x] = s[i + x]
  BY SubSeqProperties
<1>2. b \in Seq(S) /\ Len(b) = k - j /\ \A x \in 1..k - j : b[x] = s[j + x]
  BY SubSeqProperties
<1>3. c \in Seq(S) /\ Len(c) = k - i /\ \A x \in 1..k - i : c[x] = s[i + x]
  BY SubSeqProperties
<1> HIDE DEF a, b, c
<1>4. /\ a \o b \in Seq(S) /\ Len(a \o b) = k - i
      /\ \A x \in 1..k - i : (a \o b)[x] = IF x <= j - i THEN a[x] ELSE b[x - (j - i)]
  <2>1. /\ a \o b \in Seq(S) /\ Len(a \o b) = Len(a) + Len(b)
        /\ \A x \in 1..Len(a) + Len(b) : (a \o b)[x] = IF x <= Len(a) THEN a[x] ELSE b[x - Len(a)]
    BY <1>1, <1>2, ConcatProperties
  <2>2. Len(a) + Len(b) = k - i /\ Len(a) = j - i
    BY <1>1, <1>2
  <2> QED BY <2>1, <2>2
<1>5. \A x \in 1..k - i : (a \o b)[x] = c[x]
  <2> SUFFICES ASSUME NEW x \in 1..k - i PROVE (a \o b)[x] = c[x]
    OBVIOUS
  <2>1. CASE x <= j - i
    BY <2>1, <1>1, <1>3, <1>4
  <2>2. CASE ~(x <= j - i)
    <3>1. x - (j - i) \in 1..k - j /\ j + (x - (j - i)) = i + x
      BY <2>2
    <3> QED BY <2>2, <3>1, <1>2, <1>3, <1>4
  <2> QED BY <2>1, <2>2
<1>6. a \o b = c
  BY <1>3, <1>4, <1>5, SeqEqual
<1> QED BY <1>1, <1>6 DEF a, b, c

Knowns == UNION {[D -> Int] : D \in SUBSET Glossaries}
Accs == [out : Seq(Cells), run : Nat, skipped : Nat, known : Knowns]

LEMMA WithIs ==
  ASSUME NEW known \in Knowns, NEW g \in Glossaries, NEW n \in Int
  PROVE  With(known, g, n) \in Knowns /\ DOMAIN With(known, g, n) = DOMAIN known \cup {g}
<1>1. PICK D \in SUBSET Glossaries : known \in [D -> Int]
  BY DEF Knowns
<1>2. With(known, g, n) \in [D \cup {g} -> Int]
  BY <1>1 DEF With
<1>3. D \cup {g} \in SUBSET Glossaries
  BY <1>1
<1> QED BY <1>1, <1>2, <1>3 DEF Knowns, With

\* What is copied so far, and the rest of the blob up to the next span.
Copied(acc, blob, at) == acc.out \o SubSeq(blob, acc.run + 1, at)
\* Behind the file, each glossary seen is stored where it is known to be.
SoFar(acc, blob, at) ==
  /\ acc \in Accs /\ acc.run <= at
  /\ Len(file \o Copied(acc, blob, at)) = write_offset + at - acc.skipped
  /\ Stored(file \o Copied(acc, blob, at), acc.known)
Skip(acc, blob, at, size) == [acc EXCEPT !.out = @ \o SubSeq(blob, acc.run + 1, at), !.run = at + size, !.skipped = @ + size]
Learn(acc, at, g) == [acc EXCEPT !.known = With(@, g, write_offset + at - acc.skipped)]
PiecesAt(blob, at, g) == at + Size[g] <= Len(blob) /\ \A i \in 1..Size[g] : blob[at + i] = <<g, i>>
FileCounted == file \in Seq(Cells) /\ write_offset = Len(file)

LEMMA CopiedIs ==
  ASSUME NEW acc \in Accs, NEW b \in Seq(Cells), NEW at \in Nat, acc.run <= at, at <= Len(b), FileCounted
  PROVE  /\ Copied(acc, b, at) \in Seq(Cells) /\ file \o Copied(acc, b, at) \in Seq(Cells)
         /\ Len(file \o Copied(acc, b, at)) \in Nat
<1>1. acc.out \in Seq(Cells) /\ acc.run \in Nat /\ Len(b) \in Nat
  BY DEF Accs
<1>2. SubSeq(b, acc.run + 1, at) \in Seq(Cells)
  BY <1>1, SubSeqSplits
<1>3. Copied(acc, b, at) \in Seq(Cells)
  BY <1>1, <1>2, ConcatProperties DEF Copied
<1>4. file \o Copied(acc, b, at) \in Seq(Cells)
  BY <1>3, ConcatProperties DEF FileCounted
<1> QED BY <1>3, <1>4

\* A span that is known is passed over.
LEMMA SpanSkipped ==
  ASSUME NEW acc, NEW b \in Seq(Cells), NEW at \in Nat, NEW size \in Nat, at + size <= Len(b),
         FileCounted, SoFar(acc, b, at),
         NEW next, next = Skip(acc, b, at, size)
  PROVE  SoFar(next, b, at + size) /\ next.known = acc.known
<1> DEFINE v == Copied(acc, b, at)
<1>1. /\ acc \in Accs /\ acc.run <= at
      /\ Len(file \o v) = write_offset + at - acc.skipped
      /\ Stored(file \o v, acc.known)
  BY DEF SoFar
<1>2. acc.out \in Seq(Cells) /\ acc.run \in Nat /\ acc.skipped \in Nat /\ acc.known \in Knowns
  BY <1>1 DEF Accs
<1>3. v \in Seq(Cells) /\ write_offset \in Nat
  <2>1. at <= Len(b)
    OBVIOUS
  <2> QED BY <2>1, <1>1, CopiedIs DEF FileCounted
<1>4. next = [out |-> v, run |-> at + size, skipped |-> acc.skipped + size, known |-> acc.known]
  BY <1>1 DEF Accs, Copied, Skip
<1> HIDE DEF v
<1>5. next.out = v /\ next.run = at + size /\ next.skipped = acc.skipped + size /\ next.known = acc.known
  BY <1>4
<1>6. acc.skipped + size \in Nat /\ at + size \in Nat
  BY <1>2
<1>7. next \in Accs
  BY <1>2, <1>3, <1>4, <1>6 DEF Accs
<1>8. SubSeq(b, (at + size) + 1, at + size) = <<>>
  <2> DEFINE e == at + size
  <2>1. SubSeq(b, e + 1, e) \in Seq(Cells) /\ Len(SubSeq(b, e + 1, e)) = e - e
    <3>1. e \in Nat /\ e <= Len(b)
      OBVIOUS
    <3> HIDE DEF e
    <3> QED BY <3>1, SubSeqSplits
  <2>2. e - e = 0
    OBVIOUS
  <2> QED BY <2>1, <2>2, EmptySeq
<1>9. Copied(next, b, at + size) = v
  <2>1. Copied(next, b, at + size) = v \o <<>>
    BY <1>5, <1>8 DEF Copied
  <2> QED BY <2>1, <1>3, ConcatEmptySeq
<1>10. write_offset + at - acc.skipped = write_offset + (at + size) - (acc.skipped + size)
  BY <1>2, <1>3
<1> QED BY <1>1, <1>5, <1>7, <1>9, <1>10 DEF SoFar

\* A new span is part of what is copied next.
LEMMA SpanCopied ==
  ASSUME NEW acc, NEW b \in Seq(Cells), NEW at \in Nat, NEW g \in Glossaries, PiecesAt(b, at, g),
         FileCounted, SoFar(acc, b, at), g \notin DOMAIN acc.known,
         NEW next, next = Learn(acc, at, g)
  PROVE  SoFar(next, b, at + Size[g]) /\ DOMAIN next.known = DOMAIN acc.known \cup {g}
<1> DEFINE v == Copied(acc, b, at)
           end == file \o v
           size == Size[g]
           head == SubSeq(b, acc.run + 1, at)
           body == SubSeq(b, at + 1, at + size)
           d == Pieces(g)
<1>1. /\ acc \in Accs /\ acc.run <= at
      /\ Len(end) = write_offset + at - acc.skipped
      /\ Stored(end, acc.known)
  BY DEF SoFar
<1>2. acc.out \in Seq(Cells) /\ acc.run \in Nat /\ acc.skipped \in Nat /\ acc.known \in Knowns /\ Len(b) \in Nat
  BY <1>1 DEF Accs
<1>3. d \in Seq(Cells) /\ Len(d) = size /\ size \in Nat /\ \A i \in 1..size : d[i] = <<g, i>>
  BY PiecesAre DEF Cells
<1>4. at <= Len(b) /\ at + size <= Len(b) /\ at + size \in Nat /\ acc.run <= at + size /\ at <= at + size
  BY <1>1, <1>2, <1>3 DEF PiecesAt
<1>5. v \in Seq(Cells) /\ end \in Seq(Cells) /\ Len(end) \in Nat /\ file \in Seq(Cells) /\ write_offset \in Nat
  BY <1>1, <1>4, CopiedIs DEF FileCounted
<1>6. next = [acc EXCEPT !.known = With(@, g, Len(end))]
  BY <1>1 DEF Learn
<1>7. v = acc.out \o head
  BY DEF Copied
<1> HIDE DEF v, end, head, body, d, size
<1>8. /\ next.out = acc.out /\ next.run = acc.run /\ next.skipped = acc.skipped /\ next.known = With(acc.known, g, Len(end))
      /\ next = [out |-> acc.out, run |-> acc.run, skipped |-> acc.skipped, known |-> With(acc.known, g, Len(end))]
  BY <1>1, <1>6 DEF Accs
<1>9. next.known \in Knowns /\ DOMAIN next.known = DOMAIN acc.known \cup {g}
  <2>1. Len(end) \in Int
    BY <1>5
  <2>2. acc.known \in Knowns
    BY <1>2
  <2>3. With(acc.known, g, Len(end)) \in Knowns /\ DOMAIN With(acc.known, g, Len(end)) = DOMAIN acc.known \cup {g}
    BY <2>1, <2>2, WithIs
  <2> QED BY <2>3, <1>8
<1>10. next \in Accs
  BY <1>2, <1>8, <1>9 DEF Accs
<1>11. /\ head \in Seq(Cells) /\ body \in Seq(Cells) /\ Len(body) = size
       /\ head \o body = SubSeq(b, acc.run + 1, at + size)
  <2>1. head \in Seq(Cells) /\ head \o body = SubSeq(b, acc.run + 1, at + size)
    <3>1. acc.run \in Nat /\ acc.run <= at /\ at <= at + size /\ at + size <= Len(b) /\ at + size \in Nat
      BY <1>1, <1>2, <1>4
    <3>2. head \in Seq(Cells)
      BY <3>1, <1>4, SubSeqSplits DEF head
    <3> DEFINE run == acc.run
               stop == at + size
    <3>3. run \in Nat /\ run <= at /\ at <= stop /\ stop <= Len(b) /\ stop \in Nat
      BY <3>1
    <3> HIDE DEF run, stop
    <3>4. SubSeq(b, run + 1, at) \o SubSeq(b, at + 1, stop) = SubSeq(b, run + 1, stop)
      BY <3>3, SubSeqSplits
    <3> QED BY <3>2, <3>4 DEF head, body, run, stop
  <2>2. body \in Seq(Cells) /\ Len(body) = (at + size) - at
    BY <1>4, SubSeqSplits DEF body
  <2> QED BY <2>1, <2>2, <1>3
<1>12. body = d
  <2>1. ASSUME NEW i \in 1..size PROVE body[i] = d[i]
    <3>1. \A k \in at + 1..at + size : k \in 1..Len(b) /\ b[k] \in Cells
      BY <1>2, <1>4
    <3>2. \A k \in 1..(at + size) - (at + 1) + 1 : body[k] = b[(at + 1) + k - 1]
      <4>1. at + 1 \in Int /\ at + size \in Int
        BY <1>4
      <4> QED BY <3>1, <4>1, SubSeqProperties DEF body
    <3>3. i \in 1..(at + size) - (at + 1) + 1 /\ (at + 1) + i - 1 = at + i
      BY <1>3, <1>4
    <3>4. body[i] = b[at + i]
      BY <3>2, <3>3
    <3> QED BY <3>4, <1>3 DEF size, PiecesAt
  <2> QED BY <2>1, <1>3, <1>11, SeqEqual
<1>13. file \o Copied(next, b, at + size) = end \o d
  <2>1. Copied(next, b, at + size) = acc.out \o (head \o d)
    BY <1>8, <1>11, <1>12 DEF Copied
  <2>2. acc.out \o (head \o d) = v \o d
    <3>1. acc.out \in Seq(Cells) /\ head \in Seq(Cells) /\ d \in Seq(Cells)
      BY <1>2, <1>3, <1>11
    <3>2. (acc.out \o head) \o d = acc.out \o (head \o d)
      <4> DEFINE o == acc.out
      <4>1. o \in Seq(Cells) /\ head \in Seq(Cells) /\ d \in Seq(Cells)
        BY <3>1
      <4> HIDE DEF o
      <4>2. (o \o head) \o d = o \o (head \o d)
        BY <4>1, ConcatAssociative
      <4> QED BY <4>2 DEF o
    <3> QED BY <3>2, <1>7
  <2>3. file \o (v \o d) = end \o d
    BY <1>3, <1>5, ConcatAssociative, SMTT(30) DEF end
  <2> QED BY <2>1, <2>2, <2>3
<1>14. Stored(end \o d, next.known) /\ Len(end \o d) = Len(end) + size
  <2> DEFINE known == acc.known
  <2>1. end \in Seq(Cells) /\ Stored(end, known) /\ g \notin DOMAIN known /\ next.known = With(known, g, Len(end))
    BY <1>1, <1>5, <1>8
  <2> HIDE DEF known
  <2>2. Stored(end \o Pieces(g), next.known) /\ Len(end \o Pieces(g)) = Len(end) + Size[g]
    BY <2>1, StoredNew
  <2> QED BY <2>2 DEF d, size
<1>15. Len(end) + size = write_offset + (at + size) - next.skipped
  BY <1>1, <1>2, <1>3, <1>5, <1>8
<1>16. next.run <= at + size
  BY <1>4, <1>8
<1>17. SoFar(next, b, at + size)
  BY <1>10, <1>13, <1>14, <1>15, <1>16 DEF SoFar
<1> QED BY <1>9, <1>17 DEF size

LEMMA AddSpanKeeps ==
  ASSUME NEW p, p.blob \in Seq(GlossaryCells), NEW span \in Spans0, NEW at \in Nat, SpanFits(span, at, p.blob),
         FileCounted, NEW acc, SoFar(acc, p.blob, at)
  PROVE  /\ SoFar(AddSpan(p, acc, span), p.blob, at + span.size) /\ at + span.size \in Nat
         /\ DOMAIN AddSpan(p, acc, span).known = DOMAIN acc.known \cup {span.glossary}
<1> DEFINE b == p.blob
           g == span.glossary
<1>1. /\ g \in Glossaries /\ span.offset = at /\ span.size = Size[g] /\ span.size \in Nat /\ b \in Seq(Cells)
      /\ PiecesAt(b, at, g)
  BY DEF Spans0, SpanFits, PiecesAt, Cells
<1>2. AddSpan(p, acc, span) = IF g \in DOMAIN acc.known THEN Skip(acc, b, at, span.size) ELSE Learn(acc, at, g)
  BY <1>1 DEF AddSpan, Skip, Learn
<1>3. SoFar(acc, b, at) /\ at + span.size \in Nat /\ at + span.size <= Len(b)
  BY <1>1 DEF PiecesAt
<1> HIDE DEF b
<1>4. CASE g \in DOMAIN acc.known
  <2> DEFINE size == span.size
  <2>1. SoFar(Skip(acc, b, at, size), b, at + size) /\ Skip(acc, b, at, size).known = acc.known
    <3>1. b \in Seq(Cells) /\ size \in Nat /\ at + size <= Len(b) /\ SoFar(acc, b, at)
      BY <1>1, <1>3
    <3> HIDE DEF size
    <3> QED BY <3>1, SpanSkipped
  <2> QED BY <2>1, <1>2, <1>3, <1>4 DEF b
<1>5. CASE g \notin DOMAIN acc.known
  <2>1. SoFar(Learn(acc, at, g), b, at + Size[g]) /\ DOMAIN Learn(acc, at, g).known = DOMAIN acc.known \cup {g}
    <3>1. b \in Seq(Cells) /\ g \in Glossaries /\ PiecesAt(b, at, g) /\ SoFar(acc, b, at) /\ g \notin DOMAIN acc.known
      BY <1>1, <1>3, <1>5
    <3> HIDE DEF g
    <3> QED BY <3>1, SpanCopied
  <2> QED BY <2>1, <1>1, <1>2, <1>3, <1>5 DEF b
<1> QED BY <1>4, <1>5

LEMMA AddSpanTyped ==
  ASSUME NEW p, p.blob \in Seq(GlossaryCells), NEW span \in Spans0, span.offset <= Len(p.blob),
         FileCounted, NEW acc \in Accs
  PROVE  AddSpan(p, acc, span) \in Accs
<1> DEFINE head == SubSeq(p.blob, acc.run + 1, span.offset)
           at == write_offset + span.offset - acc.skipped
<1>1. /\ acc.out \in Seq(Cells) /\ acc.run \in Nat /\ acc.skipped \in Nat /\ acc.known \in Knowns
      /\ span.glossary \in Glossaries /\ span.offset \in Nat /\ span.size \in Nat
  BY DEF Accs, Spans0
<1>2. head \in Seq(Cells)
  <2>1. \A i \in acc.run + 1..span.offset : p.blob[i] \in Cells
    <3>1. \A i \in acc.run + 1..span.offset : i \in 1..Len(p.blob)
      BY <1>1
    <3> QED BY <3>1 DEF Cells
  <2> QED BY <2>1, <1>1, SubSeqProperties
<1>3. acc.out \o head \in Seq(Cells)
  BY <1>1, <1>2, ConcatProperties
<1>4. at \in Int
  BY <1>1 DEF FileCounted
<1>5. With(acc.known, span.glossary, at) \in Knowns
  BY <1>1, <1>4, WithIs
<1>6. AddSpan(p, acc, span) =
        IF span.glossary \in DOMAIN acc.known
        THEN [acc EXCEPT !.out = acc.out \o head, !.run = span.offset + span.size, !.skipped = acc.skipped + span.size]
        ELSE [acc EXCEPT !.known = With(acc.known, span.glossary, at)]
  BY DEF AddSpan, Accs
<1> HIDE DEF head, at
<1>7. span.offset + span.size \in Nat /\ acc.skipped + span.size \in Nat
  BY <1>1
<1> QED BY <1>3, <1>5, <1>6, <1>7 DEF Accs

\* What a bank adds to the file before its records: no glossary twice.
LEMMA SpansStore ==
  ASSUME NEW p \in Fitting, FileCounted, glossaries \in Knowns, Stored(file, glossaries), NEW s, s = Spans(p)
  PROVE  /\ s.out \in Seq(Cells) /\ file \o s.out \in Seq(Cells) /\ s.known \in Knowns /\ Stored(file \o s.out, s.known)
         /\ Len(file \o s.out) = write_offset + Len(p.blob) - s.skipped
         /\ \A k \in 1..Len(p.spans) : p.spans[k].glossary \in DOMAIN s.known
<1> DEFINE n == Len(p.spans)
           b == p.blob
           start == [out |-> <<>>, run |-> 0, skipped |-> 0, known |-> glossaries]
           step == [k \in 1..n |-> [acc \in Accs |-> AddSpan(p, acc, p.spans[k])]]
           F == CHOOSE F : F = [i \in 0..n |-> IF i = 0 THEN start ELSE AddSpan(p, F[i - 1], p.spans[i])]
<1>1. /\ n \in Nat /\ b \in Seq(GlossaryCells) /\ SpansFit(p.spans, b)
      /\ \A k \in 1..n : p.spans[k] \in Spans0
  BY DEF Fitting, ProcessedFile
<1>2. b \in Seq(Cells) /\ Len(b) \in Nat
  BY <1>1 DEF Cells
<1>3. \A k \in 1..n : p.spans[k].offset <= Len(b) /\ SpanFits(p.spans[k], End(p.spans, k - 1), b)
  <2> SUFFICES ASSUME NEW k \in 1..n PROVE p.spans[k].offset <= Len(b) /\ SpanFits(p.spans[k], End(p.spans, k - 1), b)
    OBVIOUS
  <2>1. SpanFits(p.spans[k], End(p.spans, k - 1), b)
    BY <1>1 DEF SpansFit
  <2>2. p.spans[k].offset \in Nat /\ p.spans[k].size \in Nat
    BY <1>1 DEF Spans0
  <2>3. p.spans[k].offset + p.spans[k].size <= Len(b)
    BY <2>1 DEF SpanFits
  <2> QED BY <2>1, <2>2, <2>3, <1>2
<1>4. start \in Accs
  <2>1. <<>> \in Seq(Cells)
    BY EmptySeq
  <2> QED BY <2>1 DEF Accs
<1>5. step \in [1..n -> [Accs -> Accs]]
  BY <1>1, <1>3, AddSpanTyped
<1>6. s = [F[n] EXCEPT !.out = @ \o SubSeq(b, F[n].run + 1, Len(b))]
  BY DEF Spans
<1> HIDE DEF step, F, n, b
<1>7. F = [i \in 0..n |-> IF i = 0 THEN start ELSE AddSpan(p, F[i - 1], p.spans[i])]
  <2>1. \E f \in [0..n -> Accs] : f[0] = start /\ \A k \in 1..n : f[k] = step[k][f[k - 1]]
    <3>1. n \in Nat
      BY <1>1
    <3> HIDE DEF start
    <3> QED BY <3>1, <1>4, <1>5, Folds, SMTT(30)
  <2>2. PICK f \in [0..n -> Accs] : f[0] = start /\ \A k \in 1..n : f[k] = step[k][f[k - 1]]
    BY <2>1
  <2>3. ASSUME NEW k \in 1..n PROVE f[k] = AddSpan(p, f[k - 1], p.spans[k])
    <3>1. k - 1 \in 0..n /\ f[k - 1] \in Accs
      BY <1>1
    <3>2. step[k][f[k - 1]] = AddSpan(p, f[k - 1], p.spans[k])
      BY <3>1 DEF step
    <3> QED BY <3>2, <2>2
  <2>4. \A i \in 0..n : i # 0 => i \in 1..n
    BY <1>1
  <2>5. f = [i \in 0..n |-> IF i = 0 THEN start ELSE AddSpan(p, f[i - 1], p.spans[i])]
    BY <2>2, <2>3, <2>4
  <2> QED BY <2>5 DEF F
<1> DEFINE at(k) == End(p.spans, k)
           Holds(k) == /\ at(k) \in Nat /\ SoFar(F[k], b, at(k))
                       /\ \A j \in 1..k : p.spans[j].glossary \in DOMAIN F[k].known
           T == {k \in Nat : k <= n => Holds(k)}
<1>8. 0 \in T
  <2>1. F[0] = start
    BY <1>1, <1>7
  <2>2. at(0) = 0
    BY DEF End
  <2>3. SubSeq(b, 0 + 1, 0) = <<>>
    <3>1. SubSeq(b, 0 + 1, 0) \in Seq(Cells) /\ Len(SubSeq(b, 0 + 1, 0)) = 0 - 0
      BY <1>2, SubSeqSplits
    <3> QED BY <3>1, EmptySeq
  <2>4. Copied(start, b, 0) = <<>>
    <3>1. Copied(start, b, 0) = <<>> \o <<>>
      BY <2>3 DEF Copied
    <3>2. <<>> \in Seq(Cells)
      BY EmptySeq
    <3> QED BY <3>1, <3>2, ConcatEmptySeq
  <2>5. file \o Copied(start, b, 0) = file /\ write_offset = Len(file) /\ Len(file) \in Nat
    BY <2>4, ConcatEmptySeq DEF FileCounted
  <2>6. SoFar(start, b, 0)
    <3>1. start.run = 0 /\ start.skipped = 0 /\ start.known = glossaries
      OBVIOUS
    <3> HIDE DEF start
    <3>2. Len(file \o Copied(start, b, 0)) = write_offset + 0 - start.skipped
      BY <2>5, <3>1
    <3>3. Stored(file \o Copied(start, b, 0), start.known)
      BY <2>5, <3>1
    <3> QED BY <3>1, <3>2, <3>3, <1>4 DEF SoFar
  <2> QED BY <2>1, <2>2, <2>6
<1>9. ASSUME NEW k \in Nat, k \in T PROVE k + 1 \in T
  <2> SUFFICES ASSUME k + 1 <= n PROVE Holds(k + 1)
    OBVIOUS
  <2>1. Holds(k) /\ k + 1 \in 1..n /\ k + 1 \in 0..n /\ k + 1 # 0 /\ (k + 1) - 1 = k
    BY <1>1, <1>9
  <2> DEFINE span == p.spans[k + 1]
  <2>2. F[k + 1] = AddSpan(p, F[k], span)
    BY <2>1, <1>7
  <2>3. span \in Spans0 /\ SpanFits(span, at(k), b)
    BY <2>1, <1>1, <1>3
  <2>4. at(k + 1) = at(k) + span.size
    BY <2>1, <2>3 DEF End, SpanFits
  <2> HIDE DEF span, at
  <2>5. /\ SoFar(F[k + 1], b, at(k) + span.size) /\ at(k) + span.size \in Nat
        /\ DOMAIN F[k + 1].known = DOMAIN F[k].known \cup {span.glossary}
    BY <2>1, <2>2, <2>3, <1>1, AddSpanKeeps DEF b
  <2>6. \A j \in 1..k + 1 : j \in 1..k \/ j = k + 1
    OBVIOUS
  <2> QED BY <2>1, <2>4, <2>5, <2>6 DEF span
<1> HIDE DEF T
<1>10. Holds(n)
  <2>1. n \in T
    BY <1>1, <1>8, <1>9, NatSetInduction
  <2> QED BY <2>1, <1>1 DEF T
<1>11. at(n) = Len(b)
  BY <1>1 DEF SpansFit, n
<1>12. SoFar(F[n], b, Len(b)) /\ F[n] \in Accs
  BY <1>10, <1>11 DEF SoFar
<1>13. s.out = Copied(F[n], b, Len(b)) /\ s.known = F[n].known /\ s.skipped = F[n].skipped
  BY <1>6, <1>12 DEF Copied, Accs
<1>14. s.out \in Seq(Cells) /\ file \o s.out \in Seq(Cells)
  BY <1>2, <1>12, <1>13, CopiedIs DEF SoFar
<1> QED BY <1>10, <1>12, <1>13, <1>14 DEF SoFar, Accs, b, n

\* The records of a bank, with the offsets of their glossaries.
LEMMA PatchedIs ==
  ASSUME NEW p \in Fitting, NEW known \in Knowns, NEW f, Stored(f, known),
         \A k \in 1..Len(p.spans) : p.spans[k].glossary \in DOMAIN known
  PROVE  Patched(p, known) \in Seq(Plain) /\ Len(Patched(p, known)) = Len(p.data)
<1> DEFINE n == Len(p.data)
           here(k) == {i \in DOMAIN p.patches : p.patches[i].pos + 1 = k}
<1>1. /\ p.data \in Seq(Plain) /\ n \in Nat /\ DOMAIN p.data = 1..n /\ DOMAIN p.patches = 1..Len(p.patches)
      /\ \A k \in 1..Len(p.patches) : Has(p.spans, p.patches[k].glossary)
  BY DEF Fitting, ProcessedFile
<1>2. \A i \in DOMAIN p.patches : Number(known[p.patches[i].glossary]) \in Plain
  <2> SUFFICES ASSUME NEW i \in DOMAIN p.patches PROVE Number(known[p.patches[i].glossary]) \in Plain
    OBVIOUS
  <2>1. p.patches[i].glossary \in DOMAIN known
    BY <1>1 DEF Has
  <2>2. known[p.patches[i].glossary] \in Nat
    BY <2>1 DEF Stored
  <2> QED BY <2>2, NumberIsPlain
<1> DEFINE cell(k) == IF here(k) = {} THEN p.data[k] ELSE Number(known[p.patches[CHOOSE i \in here(k) : TRUE].glossary])
<1>3. Patched(p, known) = [k \in 1..n |-> cell(k)]
  BY <1>1 DEF Patched
<1>4. \A k \in 1..n : cell(k) \in Plain
  <2> SUFFICES ASSUME NEW k \in 1..n PROVE cell(k) \in Plain
    OBVIOUS
  <2>1. CASE here(k) = {}
    BY <2>1, <1>1
  <2>2. CASE here(k) # {}
    <3>1. (CHOOSE i \in here(k) : TRUE) \in DOMAIN p.patches
      BY <2>2
    <3> QED BY <2>2, <3>1, <1>2
  <2> QED BY <2>1, <2>2
<1> HIDE DEF cell
<1>5. [k \in 1..n |-> cell(k)] \in Seq(Plain) /\ Len([k \in 1..n |-> cell(k)]) = n
  BY <1>1, <1>4
<1> QED BY <1>3, <1>5

-----------------------------------------------------------------------------
(* Banks of metadata and of kanji hold no glossary.                        *)

LEMMA AddKeyedFits ==
  ASSUME NEW p \in ProcessedFile, NEW row \in KeyedRow, NEW type \in Nat, NEW w \in Nat \ {0}
  PROVE  AddKeyed(type, w, p, row) \in ProcessedFile
<1> DEFINE key == Prefixed(row.expr, w)
           tags == Prefixed(row.tags, Width.key)
           d == p.data
           more == ((d \o <<Number(type)>>) \o key) \o tags
           at == <<HashOf[row.expr], Len(d)>>
<1>1. row.expr \in Texts /\ row.tags \in Texts \cup {Empty}
  BY DEF KeyedRow
<1>2. key \in Seq(Plain) /\ tags \in Seq(Plain) /\ d \in Seq(Plain) /\ <<Number(type)>> \in Seq(Plain)
  <2>1. key \in Seq(Plain)
    BY <1>1, PrefixedIs
  <2>2. tags \in Seq(Plain)
    BY <1>1, PrefixedIs, WidthAssumption
  <2>3. Number(type) \in Plain
    BY NumberIsPlain
  <2> QED BY <2>1, <2>2, <2>3 DEF ProcessedFile
<1>3. at \in Nat \X Nat
  BY <1>1, <1>2, SizesAssumption
<1>4. AddKeyed(type, w, p, row) = [p EXCEPT !.data = more, !.offsets = Append(p.offsets, at), !.count = p.count + 1]
  BY DEF AddKeyed, ProcessedFile
<1> HIDE DEF key, tags, d, at
<1>5. d \o <<Number(type)>> \in Seq(Plain)
  BY <1>2, ConcatProperties
<1>6. (d \o <<Number(type)>>) \o key \in Seq(Plain)
  BY <1>2, <1>5, ConcatProperties
<1>7. more \in Seq(Plain)
  BY <1>2, <1>6, ConcatProperties
<1> HIDE DEF more
<1>8. Append(p.offsets, at) \in Seq(Nat \X Nat)
  BY <1>3, AppendProperties DEF ProcessedFile
<1>9. p.count + 1 \in Nat
  BY DEF ProcessedFile
<1> QED BY <1>4, <1>7, <1>8, <1>9 DEF ProcessedFile

LEMMA KeyedBankSteps ==
  ASSUME NEW rows \in Seq(KeyedRow), NEW type \in Nat, NEW w \in Nat \ {0}
  PROVE  \E f \in [0..Len(rows) -> ProcessedFile] :
            /\ f[0] = NoBank /\ \A k \in 1..Len(rows) : f[k] = AddKeyed(type, w, f[k - 1], rows[k])
            /\ ProcessKeyedBank(type, w, rows) = f[Len(rows)]
<1> DEFINE n == Len(rows)
           add(q, i) == AddKeyed(type, w, q, rows[i])
           step == [k \in 1..n |-> [q \in ProcessedFile |-> add(q, k)]]
           F == CHOOSE F : F = [i \in 0..n |-> IF i = 0 THEN NoBank ELSE add(F[i - 1], i)]
<1>1. n \in Nat /\ \A k \in 1..n : rows[k] \in KeyedRow
  OBVIOUS
<1>2. NoBank \in ProcessedFile
  BY EmptySeq DEF NoBank, ProcessedFile
<1>3. \A k \in 1..n, q \in ProcessedFile : add(q, k) \in ProcessedFile
  BY <1>1, AddKeyedFits
<1>4. ProcessKeyedBank(type, w, rows) = F[n]
  BY DEF ProcessKeyedBank
<1> HIDE DEF F, n, add
<1>5. step \in [1..n -> [ProcessedFile -> ProcessedFile]]
  BY <1>3
<1> HIDE DEF step
<1>6. PICK f \in [0..n -> ProcessedFile] : f[0] = NoBank /\ \A k \in 1..n : f[k] = step[k][f[k - 1]]
  <2>1. n \in Nat /\ NoBank \in ProcessedFile /\ step \in [1..n -> [ProcessedFile -> ProcessedFile]]
    BY <1>1, <1>2, <1>5
  <2>2. \E f \in [0..n -> ProcessedFile] : f[0] = NoBank /\ \A k \in 1..n : f[k] = step[k][f[k - 1]]
    BY <2>1, Folds
  <2> QED BY <2>2
<1>7. ASSUME NEW k \in 1..n PROVE f[k] = add(f[k - 1], k)
  <2>1. k - 1 \in 0..n /\ f[k - 1] \in ProcessedFile
    BY <1>1
  <2>2. step[k][f[k - 1]] = add(f[k - 1], k)
    BY <2>1 DEF step
  <2> QED BY <2>2, <1>6
<1>8. F = [i \in 0..n |-> IF i = 0 THEN NoBank ELSE add(F[i - 1], i)]
  <2>1. \A i \in 0..n : i # 0 => i \in 1..n
    BY <1>1
  <2>2. f = [i \in 0..n |-> IF i = 0 THEN NoBank ELSE add(f[i - 1], i)]
    BY <1>6, <1>7, <2>1
  <2> QED BY <2>2 DEF F
<1> DEFINE T == {k \in Nat : k <= n => F[k] = f[k]}
<1>9. 0 \in T
  BY <1>1, <1>6, <1>8
<1>10. ASSUME NEW k \in Nat, k \in T PROVE k + 1 \in T
  <2> SUFFICES ASSUME k + 1 <= n PROVE F[k + 1] = f[k + 1]
    OBVIOUS
  <2>1. F[k] = f[k] /\ k + 1 \in 1..n /\ k + 1 \in 0..n /\ k + 1 # 0 /\ (k + 1) - 1 = k
    BY <1>1, <1>10
  <2>2. F[k + 1] = add(F[k], k + 1)
    BY <2>1, <1>8
  <2>3. f[k + 1] = add(f[k], k + 1)
    BY <2>1, <1>7
  <2> QED BY <2>1, <2>2, <2>3
<1> HIDE DEF T
<1>11. n \in T
  BY <1>1, <1>9, <1>10, NatSetInduction
<1>12. F[n] = f[n]
  BY <1>1, <1>11 DEF T
<1>13. f[0] = NoBank /\ (\A k \in 1..n : f[k] = AddKeyed(type, w, f[k - 1], rows[k])) /\ ProcessKeyedBank(type, w, rows) = f[n]
  BY <1>4, <1>6, <1>7, <1>12 DEF add
<1> QED BY <1>13 DEF n

LEMMA KeyedBankFits ==
  ASSUME NEW rows \in Seq(KeyedRow), NEW type \in Nat, NEW w \in Nat \ {0}
  PROVE  /\ ProcessKeyedBank(type, w, rows).data \in Seq(Plain)
         /\ ProcessKeyedBank(type, w, rows).offsets \in Seq(Nat \X Nat)
<1>1. Len(rows) \in 0..Len(rows)
  OBVIOUS
<1>2. PICK f \in [0..Len(rows) -> ProcessedFile] : ProcessKeyedBank(type, w, rows) = f[Len(rows)]
  BY KeyedBankSteps
<1>3. ProcessKeyedBank(type, w, rows) \in ProcessedFile
  BY <1>1, <1>2
<1> QED BY <1>3 DEF ProcessedFile

-----------------------------------------------------------------------------
(* The longest of the keys that start alike.                               *)

Notes == UNION {[D -> 0..(Width.key - 1)] : D \in SUBSET {PrefixOf[t] : t \in Texts}}
Covers(known, key) == PrefixOf[key] \in DOMAIN known /\ known[PrefixOf[key]] >= NotedLength(key)

\* A length is noted as a number of the width, the length itself when it fits.
LEMMA NotedFits ==
  /\ \A t \in Texts : NotedLength(t) \in 0..(Width.key - 1) /\ NotedLength(t) \in Nat
  /\ \A t \in Texts : Size[t] < Width.key => NotedLength(t) = Size[t]
<1> SUFFICES ASSUME NEW t \in Texts
             PROVE  /\ NotedLength(t) \in 0..(Width.key - 1) /\ NotedLength(t) \in Nat
                    /\ Size[t] < Width.key => NotedLength(t) = Size[t]
  OBVIOUS
<1>1. Size[t] \in Nat /\ Width.key \in Nat /\ Width.key > 0
  BY SizesAssumption, WidthAssumption
<1> DEFINE n == Size[t]
           w == Width.key
<1> HIDE DEF n, w
<1>2. n % w \in 0..(w - 1) /\ n % w \in Nat /\ (n < w => n % w = n)
  BY <1>1 DEF n, w
<1> QED BY <1>2 DEF NotedLength, n, w

LEMMA LongerCovers ==
  ASSUME NEW known \in Notes, NEW key \in LongTexts
  PROVE  /\ Longer(known, key) \in Notes /\ Covers(Longer(known, key), key)
         /\ \A t \in Texts : Covers(known, t) => Covers(Longer(known, key), t)
<1> DEFINE L == 0..(Width.key - 1)
           H == {PrefixOf[t] : t \in Texts}
           h == PrefixOf[key]
<1>1. key \in Texts /\ NotedLength(key) \in L /\ h \in H
  BY NotedFits DEF LongTexts
<1>2. PICK D \in SUBSET H : known \in [D -> L]
  BY DEF Notes
<1>3. \A t \in Texts : NotedLength(t) \in Nat
  BY NotedFits
<1>4. \A x \in D : known[x] \in Nat
  BY <1>2
<1>5. CASE h \in DOMAIN known /\ known[h] >= NotedLength(key)
  BY <1>5 DEF Longer, Covers
<1>6. CASE ~(h \in DOMAIN known /\ known[h] >= NotedLength(key))
  <2> DEFINE now == [x \in D \cup {h} |-> IF x = h THEN NotedLength(key) ELSE known[x]]
  <2>1. Longer(known, key) = now
    BY <1>2, <1>6 DEF Longer, With
  <2>2. now \in [D \cup {h} -> L]
    BY <1>1, <1>2
  <2>3. D \cup {h} \in SUBSET H
    BY <1>1
  <2>4. now \in Notes
    BY <2>2, <2>3 DEF Notes
  <2>5. DOMAIN now = D \cup {h} /\ now[h] = NotedLength(key) /\ \A x \in D : x # h => now[x] = known[x]
    OBVIOUS
  <2> HIDE DEF now, h
  <2>6. Covers(now, key)
    BY <2>5, <1>1, <1>3 DEF Covers, h
  <2>7. ASSUME NEW t \in Texts, Covers(known, t) PROVE Covers(now, t)
    <3>1. PrefixOf[t] \in D /\ known[PrefixOf[t]] >= NotedLength(t)
      BY <2>7, <1>2 DEF Covers
    <3>2. CASE PrefixOf[t] # h
      BY <3>1, <3>2, <2>5 DEF Covers
    <3>3. CASE PrefixOf[t] = h
      <4>1. h \in D /\ known[h] >= NotedLength(t) /\ ~(known[h] >= NotedLength(key))
        BY <3>1, <3>3, <1>2, <1>6
      <4>2. NotedLength(key) >= NotedLength(t)
        BY <4>1, <1>1, <1>3, <1>4
      <4> QED BY <4>2, <3>3, <2>5 DEF Covers
    <3> QED BY <3>2, <3>3
  <2> QED BY <2>1, <2>4, <2>6, <2>7
<1> QED BY <1>5, <1>6

LEMMA NoteAllCovers ==
  ASSUME NEW known \in Notes, NEW keys \in Seq(LongTexts)
  PROVE  /\ NoteAll(known, keys) \in Notes
         /\ \A t \in ToSet(keys) : Covers(NoteAll(known, keys), t)
         /\ \A t \in Texts : Covers(known, t) => Covers(NoteAll(known, keys), t)
<1> DEFINE n == Len(keys)
           step == [k \in 1..n |-> [q \in Notes |-> Longer(q, keys[k])]]
           F == CHOOSE F : F = [i \in 0..n |-> IF i = 0 THEN known ELSE Longer(F[i - 1], keys[i])]
<1>1. n \in Nat /\ \A k \in 1..n : keys[k] \in LongTexts
  OBVIOUS
<1>2. step \in [1..n -> [Notes -> Notes]]
  BY <1>1, LongerCovers
<1>3. NoteAll(known, keys) = F[n]
  BY DEF NoteAll
<1> HIDE DEF F, n, step
<1>4. F = [i \in 0..n |-> IF i = 0 THEN known ELSE Longer(F[i - 1], keys[i])]
  <2>1. n \in Nat
    BY <1>1
  <2>2. \E f \in [0..n -> Notes] : f[0] = known /\ \A k \in 1..n : f[k] = step[k][f[k - 1]]
    BY <2>1, <1>2, Folds, SMTT(30)
  <2>3. PICK f \in [0..n -> Notes] : f[0] = known /\ \A k \in 1..n : f[k] = step[k][f[k - 1]]
    BY <2>2
  <2>4. ASSUME NEW k \in 1..n PROVE f[k] = Longer(f[k - 1], keys[k])
    <3>1. k - 1 \in 0..n /\ f[k - 1] \in Notes
      BY <2>1
    <3>2. step[k][f[k - 1]] = Longer(f[k - 1], keys[k])
      BY <3>1 DEF step
    <3> QED BY <3>2, <2>3
  <2>5. \A i \in 0..n : i # 0 => i \in 1..n
    BY <2>1
  <2>6. f = [i \in 0..n |-> IF i = 0 THEN known ELSE Longer(f[i - 1], keys[i])]
    BY <2>3, <2>4, <2>5
  <2> QED BY <2>6 DEF F
<1> DEFINE Holds(k) == /\ F[k] \in Notes /\ \A j \in 1..k : Covers(F[k], keys[j])
                       /\ \A t \in Texts : Covers(known, t) => Covers(F[k], t)
           T == {k \in Nat : k <= n => Holds(k)}
<1>5. 0 \in T
  <2>1. F[0] = known
    BY <1>1, <1>4
  <2> QED BY <2>1
<1>6. ASSUME NEW k \in Nat, k \in T PROVE k + 1 \in T
  <2> SUFFICES ASSUME k + 1 <= n PROVE Holds(k + 1)
    OBVIOUS
  <2>1. Holds(k) /\ k + 1 \in 1..n /\ k + 1 \in 0..n /\ k + 1 # 0 /\ (k + 1) - 1 = k
    BY <1>1, <1>6
  <2>2. F[k + 1] = Longer(F[k], keys[k + 1]) /\ keys[k + 1] \in LongTexts
    BY <2>1, <1>1, <1>4
  <2>3. /\ F[k + 1] \in Notes /\ Covers(F[k + 1], keys[k + 1])
        /\ \A t \in Texts : Covers(F[k], t) => Covers(F[k + 1], t)
    BY <2>1, <2>2, LongerCovers
  <2>4. \A j \in 1..k + 1 : j \in 1..k \/ j = k + 1
    OBVIOUS
  <2>5. \A j \in 1..k : keys[j] \in Texts
    <3>1. \A j \in 1..k : j \in 1..n
      BY <2>1, <1>1
    <3> QED BY <3>1, <1>1 DEF LongTexts
  <2> QED BY <2>1, <2>3, <2>4, <2>5
<1> HIDE DEF T
<1>7. Holds(n)
  <2>1. n \in T
    BY <1>1, <1>5, <1>6, NatSetInduction
  <2> QED BY <2>1, <1>1 DEF T
<1>8. \A t \in ToSet(keys) : \E j \in 1..n : t = keys[j]
  BY DEF ToSet, n
<1> QED BY <1>3, <1>7, <1>8

-----------------------------------------------------------------------------
(* The index behind the records.                                           *)

\* Either sort gives every pair its place, one before the other as they compare.
LEMMA SortedPlaces ==
  ASSUME offsets \in Seq(Nat \X Nat), low_ram \in BOOLEAN
  PROVE  /\ Sorted \in Seq(Nat \X Nat) /\ Len(Sorted) = Len(offsets)
         /\ \E place : /\ place = [i \in 1..Len(offsets) |-> Cardinality({j \in 1..Len(offsets) : Before(j, i)}) + 1]
                       /\ \A i \in 1..Len(offsets) : place[i] \in 1..Len(offsets) /\ Sorted[place[i]] = offsets[i]
                       /\ \A k \in 1..Len(offsets) : \E i \in 1..Len(offsets) : place[i] = k
<1> DEFINE n == Len(offsets)
           R == {ij \in (1..n) \X (1..n) : Before(ij[1], ij[2])}
           place == [i \in 1..n |-> Cardinality({j \in 1..n : Before(j, i)}) + 1]
           pick(k) == CHOOSE i \in 1..n : place[i] = k
           h(i) == offsets[i][1]
           o(i) == IF low_ram THEN offsets[i][2] ELSE 0
<1>1. n \in Nat /\ DOMAIN offsets = 1..n /\ \A i \in 1..n : offsets[i] \in Nat \X Nat
  OBVIOUS
<1>2. \A i \in 1..n : h(i) \in Nat /\ o(i) \in Nat
  BY <1>1
<1>3. \A i, j \in 1..n : Before(i, j) <=> h(i) < h(j) \/ (h(i) = h(j) /\ (o(i) < o(j) \/ (o(i) = o(j) /\ i < j)))
  <2> SUFFICES ASSUME NEW i \in 1..n, NEW j \in 1..n
               PROVE  Before(i, j) <=> h(i) < h(j) \/ (h(i) = h(j) /\ (o(i) < o(j) \/ (o(i) = o(j) /\ i < j)))
    OBVIOUS
  <2>1. offsets[i][2] \in Nat /\ offsets[j][2] \in Nat
    BY <1>1
  <2>2. CASE low_ram
    BY <2>1, <2>2 DEF Before
  <2>3. CASE ~low_ram
    BY <2>3 DEF Before
  <2> QED BY <2>2, <2>3
<1>4. \A i, j \in 1..n : <<i, j>> \in R <=> Before(i, j)
  OBVIOUS
<1> HIDE DEF R, h, o, n
<1>14. \A i, j \in 1..n : <<i, j>> \in R <=> h(i) < h(j) \/ (h(i) = h(j) /\ (o(i) < o(j) \/ (o(i) = o(j) /\ i < j)))
  BY <1>3, <1>4
<1>15. \A i \in 1..n : i \in Nat /\ h(i) \in Nat /\ o(i) \in Nat
  BY <1>2
<1>5. \A i, j \in 1..n : <<i, j>> \in R => <<j, i>> \notin R
  <2> SUFFICES ASSUME NEW i \in 1..n, NEW j \in 1..n, <<i, j>> \in R PROVE <<j, i>> \notin R
    OBVIOUS
  <2>1. /\ h(i) < h(j) \/ (h(i) = h(j) /\ (o(i) < o(j) \/ (o(i) = o(j) /\ i < j)))
        /\ <<j, i>> \in R => h(j) < h(i) \/ (h(j) = h(i) /\ (o(j) < o(i) \/ (o(j) = o(i) /\ j < i)))
    BY <1>14
  <2> QED BY <2>1, <1>15
<1>6. \A i, j, k \in 1..n : <<i, j>> \in R /\ <<j, k>> \in R => <<i, k>> \in R
  BY <1>14, <1>15
<1>7. \A i, j \in 1..n : i # j => <<i, j>> \in R \/ <<j, i>> \in R
  <2> SUFFICES ASSUME NEW i \in 1..n, NEW j \in 1..n, i # j PROVE <<i, j>> \in R \/ <<j, i>> \in R
    OBVIOUS
  <2>1. \/ h(i) < h(j) \/ (h(i) = h(j) /\ (o(i) < o(j) \/ (o(i) = o(j) /\ i < j)))
        \/ h(j) < h(i) \/ (h(j) = h(i) /\ (o(j) < o(i) \/ (o(j) = o(i) /\ j < i)))
    BY <1>15
  <2> QED BY <2>1, <1>14
<1>8. place = [i \in 1..n |-> Cardinality({j \in 1..n : <<j, i>> \in R}) + 1]
  <2>1. \A i \in 1..n : {j \in 1..n : Before(j, i)} = {j \in 1..n : <<j, i>> \in R}
    BY <1>4
  <2> QED BY <2>1
<1>9. Sorted = [k \in 1..n |-> offsets[pick(k)]]
  BY <1>1 DEF Sorted
<1> HIDE DEF place
<1>10. place \in Bijection(1..n, 1..n)
  BY <1>1, <1>5, <1>6, <1>7, <1>8, PlacesByOrder
<1>11. \A k \in 1..n : \E i \in 1..n : place[i] = k
  BY <1>10 DEF Bijection, Surjection
<1>12. \A k \in 1..n : pick(k) \in 1..n
  BY <1>11
<1> HIDE DEF pick
<1>13. [k \in 1..n |-> offsets[pick(k)]] \in Seq(Nat \X Nat)
  <2> DEFINE Pair == Nat \X Nat
             at(k) == offsets[pick(k)]
  <2>1. n \in Nat /\ \A k \in 1..n : at(k) \in Pair
    BY <1>1, <1>12
  <2> HIDE DEF Pair, at
  <2>2. [k \in 1..n |-> at(k)] \in Seq(Pair)
    BY <2>1
  <2> QED BY <2>2 DEF Pair, at
<1>16. \A i \in 1..n : place[i] \in 1..n /\ pick(place[i]) = i
  <2> SUFFICES ASSUME NEW i \in 1..n PROVE place[i] \in 1..n /\ pick(place[i]) = i
    OBVIOUS
  <2>1. place[i] \in 1..n /\ \A j \in 1..n : place[j] = place[i] => j = i
    BY <1>10 DEF Bijection, Injection, IsInjective
  <2> QED BY <2>1 DEF pick
<1>17. Len(Sorted) = n /\ \A k \in 1..n : Sorted[k] = offsets[pick(k)]
  BY <1>1, <1>9
<1>18. \A i \in 1..n : Sorted[place[i]] = offsets[i]
  BY <1>16, <1>17
<1> DEFINE X == [i \in 1..n |-> Cardinality({j \in 1..n : Before(j, i)}) + 1]
<1>19. place = X
  BY DEF place
<1> HIDE DEF X
<1>20. \E pl : /\ pl = X
               /\ \A i \in 1..n : pl[i] \in 1..n /\ Sorted[pl[i]] = offsets[i]
               /\ \A k \in 1..n : \E i \in 1..n : pl[i] = k
  BY <1>11, <1>16, <1>18, <1>19
<1>21. Sorted \in Seq(Nat \X Nat)
  BY <1>9, <1>13
<1> QED BY <1>17, <1>20, <1>21 DEF n, X

LEMMA SortedTyped ==
  ASSUME offsets \in Seq(Nat \X Nat), low_ram \in BOOLEAN
  PROVE  Sorted \in Seq(Nat \X Nat)
BY SortedPlaces

LEMMA IndexTyped ==
  ASSUME NEW s \in Seq(Nat \X Nat)
  PROVE  Index(s) \in Seq(Plain)
<1> DEFINE n == Len(s)
           part(i) == (IF i \in Starts(s) THEN <<Number(GroupSize(s, i))>> ELSE <<>>) \o <<Number(s[i][2])>>
           parts == [i \in 1..n |-> part(i)]
<1>1. n \in Nat /\ DOMAIN s = 1..n /\ \A i \in 1..n : s[i][2] \in Nat
  OBVIOUS
<1>2. \A i \in 1..n : part(i) \in Seq(Plain)
  <2> SUFFICES ASSUME NEW i \in 1..n PROVE part(i) \in Seq(Plain)
    OBVIOUS
  <2>1. GroupSize(s, i) \in Nat
    <3>1. IsFiniteSet({k \in 1..n : s[k][1] = s[i][1]})
      <4>1. {k \in 1..n : s[k][1] = s[i][1]} \in SUBSET (1..n)
        OBVIOUS
      <4>2. IsFiniteSet(1..n)
        BY <1>1, FS_Interval
      <4> QED BY <4>1, <4>2, FS_Subset
    <3> QED BY <3>1, <1>1, FS_CardinalityType DEF GroupSize
  <2>2. Number(GroupSize(s, i)) \in Plain /\ Number(s[i][2]) \in Plain
    BY <2>1, <1>1, NumberIsPlain
  <2>3. CASE i \in Starts(s)
    BY <2>2, <2>3
  <2>4. CASE i \notin Starts(s)
    BY <2>2, <2>4
  <2> QED BY <2>3, <2>4
<1>3. Index(s) = FlattenSeq(parts)
  BY <1>1 DEF Index
<1> HIDE DEF part
<1>4. parts \in Seq(Seq(Plain))
  BY <1>1, <1>2
<1> HIDE DEF parts
<1>5. FlattenSeq(parts) \in Seq(Plain)
  BY <1>4, EmptySeq, FlattenAppend
<1> QED BY <1>3, <1>5

LEMMA RebasedTyped ==
  ASSUME NEW p, p.offsets \in Seq(Nat \X Nat), NEW base \in Nat
  PROVE  Rebased(p, base) \in Seq(Nat \X Nat)
<1> DEFINE n == Len(p.offsets)
           at(i) == <<p.offsets[i][1], p.offsets[i][2] + base>>
<1>1. n \in Nat /\ DOMAIN p.offsets = 1..n /\ \A i \in 1..n : at(i) \in Nat \X Nat
  <2>1. \A i \in 1..n : p.offsets[i] \in Nat \X Nat
    OBVIOUS
  <2> QED BY <2>1
<1>2. Rebased(p, base) = [i \in 1..n |-> at(i)]
  BY <1>1 DEF Rebased
<1> HIDE DEF at, n
<1> QED BY <1>1, <1>2

-----------------------------------------------------------------------------
(* The invariant.                                                          *)

Types ==
  /\ source \in Sources /\ low_ram \in BOOLEAN
  /\ phase \in {"terms", "meta", "kanji", "kanjiMeta", "index", "ready"}
  /\ bank \in Nat \ {0} /\ total \in Nat
  /\ glossaries \in Knowns /\ offsets \in Seq(Nat \X Nat) /\ long_keys \in Notes
\* the long keys of the banks written are noted
KeysNoted ==
  \A b \in 1..Len(source.terms) :
    phase # "terms" \/ b < bank =>
      \A i \in 1..Len(source.terms[b]) : \A t \in LongKeysOf(source.terms[b][i]) : Covers(long_keys, t)
Inv == Types /\ FileCounted /\ Stored(file, glossaries) /\ KeysNoted

LEMMA InitInv == Init => Inv
<1> SUFFICES ASSUME Init PROVE Inv
  OBVIOUS
<1> USE DEF Init
<1>1. <<>> \in Knowns
  <2>1. <<>> \in [{} -> Int] /\ {} \in SUBSET Glossaries
    OBVIOUS
  <2> QED BY <2>1 DEF Knowns
<1>2. <<>> \in Notes
  <2> DEFINE L == 0..(Width.key - 1)
             H == {PrefixOf[t] : t \in Texts}
  <2>1. <<>> \in [{} -> L] /\ {} \in SUBSET H
    OBVIOUS
  <2> HIDE DEF L, H
  <2>2. <<>> \in UNION {[D -> L] : D \in SUBSET H}
    BY <2>1
  <2> QED BY <2>2 DEF Notes, L, H
<1>3. Types
  BY <1>1, <1>2 DEF Types
<1>4. FileCounted
  BY EmptySeq DEF FileCounted
<1>5. Stored(file, glossaries)
  BY DEF Stored
<1>6. KeysNoted
  BY DEF KeysNoted
<1> QED BY <1>3, <1>4, <1>5, <1>6 DEF Inv

LEMMA TermBankInv == Inv /\ WriteTermBank => Inv'
<1> SUFFICES ASSUME Inv, WriteTermBank PROVE Inv'
  OBVIOUS
<1> DEFINE rows == source.terms[bank]
           p == ProcessTermBank(rows)
           s == Spans(p)
           base == write_offset + Len(p.blob) - s.skipped
           d == Patched(p, s.known)
<1>1. Types /\ FileCounted /\ Stored(file, glossaries) /\ KeysNoted
  BY DEF Inv
<1>2. phase = "terms" /\ bank \in Nat /\ bank \in 1..Len(source.terms) /\ bank' = bank + 1
  BY <1>1 DEF WriteTermBank, Types
<1>3. UNCHANGED <<source, low_ram, phase, hash_entries>>
  BY DEF WriteTermBank
<1>4. source.terms \in Seq(Seq(TermRow))
  BY <1>1, SourcesAssumption DEF Types
<1>5. rows \in Seq(TermRow)
  BY <1>2, <1>4
<1>6. IF p.data = <<>>
      THEN UNCHANGED <<file, write_offset, glossaries, offsets, long_keys, total>>
      ELSE /\ file' = file \o s.out \o d
           /\ glossaries' = s.known
           /\ offsets' = offsets \o Rebased(p, base)
           /\ write_offset' = base + Len(p.data)
           /\ long_keys' = NoteAll(long_keys, p.long)
           /\ total' = total + p.count
  BY DEF WriteTermBank
<1>7. /\ p \in Fitting /\ p.count = Len(rows)
      /\ \A k \in 1..Len(rows) : LongKeysOf(rows[k]) \subseteq ToSet(p.long)
  <2> HIDE DEF rows
  <2> QED BY <1>5, TermBankFits
<1> DEFINE Covered(b, keys) ==
             \A i \in 1..Len(source.terms[b]) : \A t \in LongKeysOf(source.terms[b][i]) : Covers(keys, t)
<1>8. \A b \in 1..Len(source.terms) : b < bank => Covered(b, long_keys)
  BY <1>1 DEF KeysNoted
<1>9. ASSUME \A b \in 1..Len(source.terms) : b < bank => Covered(b, long_keys'), Covered(bank, long_keys')
      PROVE  KeysNoted'
  <2>1. \A b \in 1..Len(source.terms) : b < bank + 1 => b < bank \/ b = bank
    BY <1>2
  <2> QED BY <2>1, <1>2, <1>3, <1>9 DEF KeysNoted
<1> HIDE DEF rows, p
<1>10. CASE p.data = <<>>
  <2>1. UNCHANGED <<file, write_offset, glossaries, offsets, long_keys, total>>
    BY <1>6, <1>10
  <2>2. Len(rows) = 0
    <3>1. p.count <= 0 /\ p.count \in Nat
      BY <1>7, <1>10 DEF Fitting, ProcessedFile
    <3> QED BY <3>1, <1>7
  <2>3. Covered(bank, long_keys)
    BY <2>2 DEF rows
  <2>4. KeysNoted'
    BY <2>1, <2>3, <1>8, <1>9
  <2>5. Types'
    BY <2>1, <1>1, <1>2, <1>3 DEF Types
  <2>6. FileCounted' /\ Stored(file', glossaries')
    BY <2>1, <1>1 DEF FileCounted
  <2> QED BY <2>4, <2>5, <2>6 DEF Inv
<1>11. CASE p.data # <<>>
  <2>1. /\ file' = (file \o s.out) \o d /\ glossaries' = s.known /\ offsets' = offsets \o Rebased(p, base)
        /\ write_offset' = base + Len(p.data) /\ long_keys' = NoteAll(long_keys, p.long) /\ total' = total + p.count
    BY <1>6, <1>11
  <2>2. /\ file \o s.out \in Seq(Cells) /\ s.known \in Knowns /\ Stored(file \o s.out, s.known)
        /\ Len(file \o s.out) = base
        /\ \A k \in 1..Len(p.spans) : p.spans[k].glossary \in DOMAIN s.known
    <3>1. glossaries \in Knowns
      BY <1>1 DEF Types
    <3> QED BY <3>1, <1>1, <1>7, SpansStore
  <2> HIDE DEF s, base
  <2>3. d \in Seq(Plain) /\ Len(d) = Len(p.data)
    BY <2>2, <1>7, PatchedIs
  <2> HIDE DEF d
  <2>4. /\ file' \in Seq(Cells) /\ Len(file') = Len(file \o s.out) + Len(d) /\ Stored(file', glossaries')
    <3> DEFINE f == file \o s.out
    <3>1. f \in Seq(Cells) /\ Stored(f, s.known)
      BY <2>2
    <3> HIDE DEF f
    <3>2. f \o d \in Seq(Cells) /\ Len(f \o d) = Len(f) + Len(d) /\ Stored(f \o d, s.known)
      BY <3>1, <2>3, StoredPlain
    <3> QED BY <3>2, <2>1 DEF f
  <2>5. FileCounted'
    BY <2>1, <2>2, <2>3, <2>4 DEF FileCounted
  <2>6. base \in Nat
    BY <2>2
  <2>7. p.offsets \in Seq(Nat \X Nat) /\ p.long \in Seq(LongTexts) /\ p.count \in Nat
    BY <1>7 DEF Fitting, ProcessedFile
  <2>8. offsets' \in Seq(Nat \X Nat)
    <3>1. Rebased(p, base) \in Seq(Nat \X Nat)
      BY <2>6, <2>7, RebasedTyped
    <3>2. offsets \in Seq(Nat \X Nat)
      BY <1>1 DEF Types
    <3> QED BY <3>1, <3>2, <2>1, ConcatProperties
  <2>9. long_keys \in Notes
    BY <1>1 DEF Types
  <2>10. /\ long_keys' \in Notes /\ \A t \in ToSet(p.long) : Covers(long_keys', t)
         /\ \A t \in Texts : Covers(long_keys, t) => Covers(long_keys', t)
    BY <2>1, <2>7, <2>9, NoteAllCovers
  <2>11. Types'
    <3>1. total' \in Nat /\ bank' \in Nat \ {0} /\ glossaries' \in Knowns
      BY <2>1, <2>2, <2>7, <1>1, <1>2 DEF Types
    <3> QED BY <3>1, <2>8, <2>10, <1>1, <1>3 DEF Types
  <2>12. \A b \in 1..Len(source.terms) : b < bank => Covered(b, long_keys')
    <3> SUFFICES ASSUME NEW b \in 1..Len(source.terms), b < bank, NEW i \in 1..Len(source.terms[b]),
                        NEW t \in LongKeysOf(source.terms[b][i])
                 PROVE  Covers(long_keys', t)
      OBVIOUS
    <3>1. Covers(long_keys, t)
      BY <1>8
    <3>2. source.terms[b] \in Seq(TermRow)
      BY <1>4
    <3>3. source.terms[b][i] \in TermRow
      BY <3>2
    <3>4. t \in Texts
      BY <3>3, KeysAre DEF LongKeysOf
    <3> QED BY <3>1, <3>4, <2>10
  <2>13. Covered(bank, long_keys')
    BY <2>10, <1>7 DEF rows
  <2>14. KeysNoted'
    BY <2>12, <2>13, <1>9
  <2> QED BY <2>4, <2>5, <2>11, <2>14 DEF Inv
<1> QED BY <1>10, <1>11

LEMMA KeyedBankInv == Inv /\ WriteKeyedBank => Inv'
<1> SUFFICES ASSUME Inv, WriteKeyedBank PROVE Inv'
  OBVIOUS
<1> DEFINE p == Processed
           d == p.data
<1>1. Types /\ FileCounted /\ Stored(file, glossaries) /\ KeysNoted
  BY DEF Inv
<1>2. /\ phase \in {"meta", "kanji", "kanjiMeta"} /\ bank <= Len(BanksOf(phase))
      /\ file' = file \o d /\ offsets' = offsets \o Rebased(p, write_offset)
      /\ write_offset' = write_offset + Len(d) /\ bank' = bank + 1
      /\ UNCHANGED <<source, low_ram, phase, glossaries, long_keys, hash_entries, total>>
  BY DEF WriteKeyedBank
<1>3. /\ source.meta \in Seq(Seq(KeyedRow)) /\ source.kanji \in Seq(Seq(KeyedRow)) /\ source.kanjiMeta \in Seq(Seq(KeyedRow))
      /\ bank \in Nat \ {0}
  BY <1>1, SourcesAssumption DEF Types
<1>4. p.data \in Seq(Plain) /\ p.offsets \in Seq(Nat \X Nat)
  <2>1. CASE phase = "meta"
    <3>1. source.meta[bank] \in Seq(KeyedRow)
      BY <2>1, <1>2, <1>3 DEF BanksOf
    <3>2. p = ProcessKeyedBank(1, Width.key, source.meta[bank])
      BY <2>1 DEF Processed, ProcessMetaBank
    <3> HIDE DEF p
    <3> QED BY <3>1, <3>2, WidthAssumption, KeyedBankFits
  <2>2. CASE phase = "kanji"
    <3>1. source.kanji[bank] \in Seq(KeyedRow)
      BY <2>2, <1>2, <1>3 DEF BanksOf
    <3>2. p = ProcessKeyedBank(2, Width.tag, source.kanji[bank])
      BY <2>2 DEF Processed, ProcessKanjiBank
    <3> HIDE DEF p
    <3> QED BY <3>1, <3>2, WidthAssumption, KeyedBankFits
  <2>3. CASE phase = "kanjiMeta"
    <3>1. source.kanjiMeta[bank] \in Seq(KeyedRow)
      BY <2>3, <1>2, <1>3 DEF BanksOf
    <3>2. p = ProcessKeyedBank(3, Width.key, source.kanjiMeta[bank])
      BY <2>3 DEF Processed, ProcessMetaBank
    <3> HIDE DEF p
    <3> QED BY <3>1, <3>2, WidthAssumption, KeyedBankFits
  <2> QED BY <2>1, <2>2, <2>3, <1>2
<1> HIDE DEF p
<1>5. file \in Seq(Cells) /\ write_offset = Len(file) /\ write_offset \in Nat
  BY <1>1 DEF FileCounted
<1>6. file' \in Seq(Cells) /\ Len(file') = Len(file) + Len(d) /\ Stored(file', glossaries)
  <2>1. d \in Seq(Plain)
    BY <1>4
  <2> HIDE DEF d
  <2>2. file \o d \in Seq(Cells) /\ Len(file \o d) = Len(file) + Len(d) /\ Stored(file \o d, glossaries)
    BY <2>1, <1>1, <1>5, StoredPlain
  <2> QED BY <2>2, <1>2
<1>7. FileCounted' /\ Stored(file', glossaries')
  BY <1>2, <1>5, <1>6 DEF FileCounted
<1>8. offsets' \in Seq(Nat \X Nat)
  <2>1. Rebased(p, write_offset) \in Seq(Nat \X Nat)
    BY <1>4, <1>5, RebasedTyped
  <2>2. offsets \in Seq(Nat \X Nat)
    BY <1>1 DEF Types
  <2> QED BY <2>1, <2>2, <1>2, ConcatProperties
<1>9. Types'
  <2>1. bank' \in Nat \ {0}
    BY <1>2, <1>3
  <2> QED BY <2>1, <1>1, <1>2, <1>8 DEF Types
<1>10. KeysNoted'
  BY <1>1, <1>2 DEF KeysNoted
<1> QED BY <1>7, <1>9, <1>10 DEF Inv

LEMMA NextPhaseIs ==
  ASSUME phase \in {"terms", "meta", "kanji", "kanjiMeta"}
  PROVE  NextPhase(phase) \in {"meta", "kanji", "kanjiMeta", "index"}
<1> DEFINE i == CHOOSE i \in 1..5 : Phases[i] = phase
<1>1. \A k \in 1..5 : k = 1 \/ k = 2 \/ k = 3 \/ k = 4 \/ k = 5
  OBVIOUS
<1>2. \E k \in 1..5 : Phases[k] = phase
  <2>1. Phases[1] = "terms" /\ Phases[2] = "meta" /\ Phases[3] = "kanji" /\ Phases[4] = "kanjiMeta"
    BY DEF Phases
  <2>2. 1 \in 1..5 /\ 2 \in 1..5 /\ 3 \in 1..5 /\ 4 \in 1..5
    OBVIOUS
  <2> QED BY <2>1, <2>2
<1>3. i \in 1..5 /\ Phases[i] = phase
  BY <1>2
<1>4. NextPhase(phase) = Phases[1 + i]
  BY DEF NextPhase
<1> HIDE DEF i
<1>5. Phases[5] = "index" /\ i # 5
  BY <1>3 DEF Phases
<1>6. i = 1 \/ i = 2 \/ i = 3 \/ i = 4
  BY <1>1, <1>3, <1>5
<1> QED BY <1>4, <1>6 DEF Phases

LEMMA NextWriterInv == Inv /\ NextWriter => Inv'
<1> SUFFICES ASSUME Inv, NextWriter PROVE Inv'
  OBVIOUS
<1>1. Types /\ FileCounted /\ Stored(file, glossaries) /\ KeysNoted
  BY DEF Inv
<1>2. /\ phase \in {"terms", "meta", "kanji", "kanjiMeta"} /\ bank > Len(BanksOf(phase))
      /\ phase' = NextPhase(phase) /\ bank' = 1
      /\ UNCHANGED <<source, low_ram, file, write_offset, glossaries, offsets, long_keys, hash_entries, total>>
  BY DEF NextWriter
<1>3. NextPhase(phase) \in {"meta", "kanji", "kanjiMeta", "index"}
  BY <1>2, NextPhaseIs
<1>4. \A b \in 1..Len(source.terms) : phase # "terms" \/ b < bank
  <2>1. CASE phase = "terms"
    <3>1. bank > Len(source.terms) /\ bank \in Nat /\ Len(source.terms) \in Nat
      BY <2>1, <1>1, <1>2, SourcesAssumption DEF BanksOf, Types
    <3> QED BY <3>1
  <2> QED BY <2>1
<1>5. KeysNoted'
  BY <1>1, <1>2, <1>4 DEF KeysNoted
<1>6. Types'
  BY <1>1, <1>2, <1>3 DEF Types
<1>7. FileCounted' /\ Stored(file', glossaries')
  BY <1>1, <1>2 DEF FileCounted
<1> QED BY <1>5, <1>6, <1>7 DEF Inv

LEMMA IndexInv == Inv /\ BuildOffsetIndex => Inv'
<1> SUFFICES ASSUME Inv, BuildOffsetIndex PROVE Inv'
  OBVIOUS
<1> DEFINE d == Index(Sorted)
<1>1. Types /\ FileCounted /\ Stored(file, glossaries) /\ KeysNoted
  BY DEF Inv
<1>2. /\ phase = "index" /\ file' = file \o d /\ write_offset' = write_offset + Len(d) /\ phase' = "ready"
      /\ UNCHANGED <<source, low_ram, bank, glossaries, offsets, long_keys, total>>
  BY DEF BuildOffsetIndex
<1>3. d \in Seq(Plain)
  <2>1. Sorted \in Seq(Nat \X Nat)
    BY <1>1, SortedTyped DEF Types
  <2> QED BY <2>1, IndexTyped
<1> HIDE DEF d
<1>4. file \in Seq(Cells) /\ write_offset = Len(file)
  BY <1>1 DEF FileCounted
<1>5. file \o d \in Seq(Cells) /\ Len(file \o d) = Len(file) + Len(d) /\ Stored(file \o d, glossaries)
  BY <1>1, <1>3, <1>4, StoredPlain
<1>6. FileCounted' /\ Stored(file', glossaries')
  BY <1>2, <1>4, <1>5 DEF FileCounted
<1>7. Types'
  BY <1>1, <1>2 DEF Types
<1>8. KeysNoted'
  BY <1>1, <1>2 DEF KeysNoted
<1> QED BY <1>6, <1>7, <1>8 DEF Inv

\* The invariant holds in every state of every import.
THEOREM InvHolds == Spec => []Inv
<1>1. Inv /\ [Next]_vars => Inv'
  <2> SUFFICES ASSUME Inv, [Next]_vars PROVE Inv'
    OBVIOUS
  <2>1. CASE WriteTermBank
    BY <2>1, TermBankInv
  <2>2. CASE WriteKeyedBank
    BY <2>2, KeyedBankInv
  <2>3. CASE NextWriter
    BY <2>3, NextWriterInv
  <2>4. CASE BuildOffsetIndex
    BY <2>4, IndexInv
  <2>5. CASE UNCHANGED vars
    BY <2>5 DEF vars, Inv, Types, FileCounted, KeysNoted
  <2> QED BY <2>1, <2>2, <2>3, <2>4, <2>5 DEF Next
<1> QED BY InitInv, <1>1, PTL DEF Spec

-----------------------------------------------------------------------------
(* The properties.                                                         *)

LEMMA InvOnce == Inv => EachGlossaryOnce
<1> SUFFICES ASSUME Inv PROVE EachGlossaryOnce
  OBVIOUS
<1>1. Types /\ file \in Seq(Cells) /\ write_offset = Len(file) /\ Stored(file, glossaries)
  BY DEF Inv, FileCounted
<1>2. TypeOK
  <2>1. phase \in {Phases[i] : i \in 1..6}
    <3>1. /\ Phases[1] = "terms" /\ Phases[2] = "meta" /\ Phases[3] = "kanji" /\ Phases[4] = "kanjiMeta"
          /\ Phases[5] = "index" /\ Phases[6] = "ready"
      BY DEF Phases
    <3>2. 1 \in 1..6 /\ 2 \in 1..6 /\ 3 \in 1..6 /\ 4 \in 1..6 /\ 5 \in 1..6 /\ 6 \in 1..6
      OBVIOUS
    <3>3. phase \in {"terms", "meta", "kanji", "kanjiMeta", "index", "ready"}
      BY <1>1 DEF Types
    <3> QED BY <3>1, <3>2, <3>3
  <2>2. \A g \in DOMAIN glossaries : g \in Glossaries /\ glossaries[g] \in Nat
    BY <1>1 DEF Stored
  <2>3. \A i \in DOMAIN offsets : offsets[i][2] \in Nat
    <3>1. \A i \in DOMAIN offsets : offsets[i] \in Nat \X Nat
      BY <1>1 DEF Types
    <3> QED BY <3>1
  <2>4. \A h \in DOMAIN long_keys : long_keys[h] \in 0..(Width.key - 1)
    <3>1. PICK D : long_keys \in [D -> 0..(Width.key - 1)]
      BY <1>1 DEF Types, Notes
    <3> QED BY <3>1
  <2> QED BY <2>1, <2>2, <2>3, <2>4, <1>1 DEF TypeOK, Types
<1>3. ASSUME NEW g \in Glossaries PROVE Cardinality({i \in DOMAIN file : file[i] = <<g, 1>>}) <= 1
  <2> DEFINE S == {i \in DOMAIN file : file[i] = <<g, 1>>}
  <2>1. \A i \in S : i = glossaries[g] + 1
    BY <1>1 DEF Stored
  <2>2. S = {} \/ S = {glossaries[g] + 1}
    BY <2>1
  <2>3. Cardinality({}) = 0 /\ Cardinality({glossaries[g] + 1}) = 1
    BY FS_EmptySet, FS_Singleton
  <2> HIDE DEF S
  <2>4. Cardinality(S) = 0 \/ Cardinality(S) = 1
    BY <2>2, <2>3
  <2> QED BY <2>4 DEF S
<1>4. ASSUME NEW g \in DOMAIN glossaries PROVE TextAt(glossaries[g], Size[g]) = Pieces(g)
  <2> DEFINE at == glossaries[g]
             t == SubSeq(file, at + 1, at + Size[g])
             d == Pieces(g)
  <2>1. /\ g \in Glossaries /\ at \in Nat /\ at + Size[g] <= Len(file)
        /\ \A i \in 1..Size[g] : file[at + i] = <<g, i>>
    BY <1>1 DEF Stored
  <2>2. /\ Size[g] \in Nat /\ d \in Seq(Cells) /\ Len(d) = Size[g] /\ \A i \in 1..Size[g] : d[i] = <<g, i>>
    BY <2>1, PiecesAre DEF Cells
  <2> HIDE DEF d, at
  <2>3. t \in Seq(Cells) /\ Len(t) = Size[g] /\ \A i \in 1..Size[g] : t[i] = file[at + i]
    <3> DEFINE n == Size[g]
    <3>1. n \in Nat /\ at \in Nat /\ at + n <= Len(file) /\ Len(file) \in Nat
      BY <2>1, <2>2, <1>1
    <3> HIDE DEF n
    <3>2. \A i \in at + 1..at + n : file[i] \in Cells
      <4>1. \A i \in at + 1..at + n : i \in 1..Len(file)
        BY <3>1
      <4> QED BY <4>1, <1>1
    <3>3. at + 1 \in Int /\ at + n \in Int
      BY <3>1
    <3> DEFINE u == SubSeq(file, at + 1, at + n)
    <3>4. /\ u \in Seq(Cells) /\ Len(u) = IF at + 1 <= at + n THEN (at + n) - (at + 1) + 1 ELSE 0
          /\ \A i \in 1..(at + n) - (at + 1) + 1 : u[i] = file[(at + 1) + i - 1]
      BY <3>2, <3>3, SubSeqProperties
    <3> HIDE DEF u
    <3>5. (at + n) - (at + 1) + 1 = n /\ \A i \in 1..n : (at + 1) + i - 1 = at + i
      BY <3>1
    <3>6. Len(u) = n
      BY <3>1, <3>4
    <3>7. \A i \in 1..n : u[i] = file[at + i]
      BY <3>4, <3>5
    <3> QED BY <3>4, <3>6, <3>7 DEF u, n
  <2> HIDE DEF t
  <2>4. t = d
    <3>1. \A i \in 1..Len(t) : t[i] = d[i]
      BY <2>1, <2>2, <2>3
    <3> QED BY <3>1, <2>2, <2>3, SeqEqual
  <2> QED BY <2>4 DEF t, d, at, TextAt
<1> QED BY <1>2, <1>3, <1>4 DEF EachGlossaryOnce

\* EachGlossaryOnce: whatever the banks share, blobs.bin holds each glossary
\* once, where the map says, and the offset the importer counts is its length.
THEOREM GlossariesOnce == Spec => []EachGlossaryOnce
BY InvHolds, InvOnce, PTL

LEMMA InvLongKeys == Inv => LongKeysCovered
<1> SUFFICES ASSUME Inv, phase # "terms", NEW i \in DOMAIN Rows, NEW k \in {Rows[i].expr, Reading(Rows[i])},
                    Size[k] \in (LongMin + 1)..(Width.key - 1)
             PROVE  PrefixOf[k] \in DOMAIN long_keys /\ long_keys[PrefixOf[k]] >= Size[k]
  BY DEF LongKeysCovered
<1>1. source.terms \in Seq(Seq(TermRow)) /\ KeysNoted
  BY SourcesAssumption DEF Inv, Types
<1>2. Rows \in Seq(TermRow)
  BY <1>1, EmptySeq, FlattenAppend DEF Rows
<1>3. Rows[i] \in ToSet(Rows)
  BY <1>2 DEF ToSet
<1>4. PICK b \in 1..Len(source.terms) : Rows[i] \in ToSet(source.terms[b])
  BY <1>1, <1>3, FlattenSeqSet DEF Rows
<1>5. source.terms[b] \in Seq(TermRow)
  BY <1>1
<1>6. PICK j \in 1..Len(source.terms[b]) : Rows[i] = source.terms[b][j]
  BY <1>4, <1>5 DEF ToSet
<1>7. /\ k \in Texts /\ Size[k] > LongMin /\ Size[k] < Width.key
  <2>1. Rows[i] \in TermRow
    BY <1>2
  <2>2. k \in Texts
    BY <2>1 DEF TermRow, Reading
  <2> QED BY <2>2, SizesAssumption, WidthAssumption
<1>8. k \in LongKeysOf(source.terms[b][j])
  BY <1>6, <1>7 DEF LongKeysOf
<1>9. Covers(long_keys, k)
  BY <1>1, <1>8 DEF KeysNoted
<1> QED BY <1>7, <1>9, NotedFits DEF Covers

\* LongKeysCovered: once the terms are written, the scan index promises each
\* long key of each row at least its length, if that fits the uint16_t it is
\* noted as (importer.cpp:171-179).
THEOREM LongKeysReached == Spec => []LongKeysCovered
BY InvHolds, InvLongKeys, PTL

-----------------------------------------------------------------------------
(* Where something is in a file.                                           *)

Located(f, at, d) == at + Len(d) <= Len(f) /\ \A i \in 1..Len(d) : f[at + i] = d[i]

\* What is in a file stays where it is when the file grows.
LEMMA LocatedMore ==
  ASSUME NEW C, NEW f \in Seq(C), NEW e \in Seq(C), NEW at \in Nat, NEW d \in Seq(C), Located(f, at, d)
  PROVE  Located(f \o e, at, d)
<1> DEFINE g == f \o e
<1>1. Len(f) \in Nat /\ Len(e) \in Nat /\ Len(d) \in Nat /\ Len(g) = Len(f) + Len(e) /\ \A i \in 1..Len(f) : g[i] = f[i]
  BY ConcatIs
<1>2. at + Len(d) <= Len(f) /\ \A i \in 1..Len(d) : f[at + i] = d[i]
  BY DEF Located
<1>3. \A i \in 1..Len(d) : at + i \in 1..Len(f)
  BY <1>1, <1>2
<1> HIDE DEF g
<1>4. at + Len(d) <= Len(g) /\ \A i \in 1..Len(d) : g[at + i] = d[i]
  BY <1>1, <1>2, <1>3
<1> QED BY <1>4 DEF Located, g

\* What is in the second of two parts.
LEMMA LocatedAfter ==
  ASSUME NEW C, NEW f \in Seq(C), NEW e \in Seq(C), NEW at \in Nat, NEW d \in Seq(C), Located(e, at, d)
  PROVE  Located(f \o e, Len(f) + at, d)
<1> DEFINE g == f \o e
<1>1. Len(f) \in Nat /\ Len(e) \in Nat /\ Len(d) \in Nat /\ Len(g) = Len(f) + Len(e) /\ \A i \in 1..Len(e) : g[Len(f) + i] = e[i]
  BY ConcatIs
<1>2. at + Len(d) <= Len(e) /\ \A i \in 1..Len(d) : e[at + i] = d[i]
  BY DEF Located
<1>3. \A i \in 1..Len(d) : at + i \in 1..Len(e) /\ Len(f) + (at + i) = (Len(f) + at) + i
  BY <1>1, <1>2
<1> HIDE DEF g
<1>4. (Len(f) + at) + Len(d) <= Len(g) /\ \A i \in 1..Len(d) : g[(Len(f) + at) + i] = d[i]
  BY <1>1, <1>2, <1>3
<1> QED BY <1>4 DEF Located, g

\* What is appended to a file is where the file ended.
LEMMA LocatedEnd ==
  ASSUME NEW C, NEW f \in Seq(C), NEW d \in Seq(C)
  PROVE  Located(f \o d, Len(f), d)
<1>1. Located(d, 0, d)
  BY DEF Located
<1>2. Located(f \o d, Len(f) + 0, d)
  BY <1>1, LocatedAfter
<1> QED BY <1>2

\* A list is where its parts are, one after the other.
LEMMA LocatedParts ==
  ASSUME NEW C, NEW f \in Seq(C), NEW at \in Nat, NEW d \in Seq(C), NEW e \in Seq(C), Located(f, at, d \o e)
  PROVE  Located(f, at, d) /\ Located(f, at + Len(d), e) /\ at + Len(d) \in Nat
<1> DEFINE g == d \o e
<1>1. /\ Len(f) \in Nat /\ Len(e) \in Nat /\ Len(d) \in Nat /\ Len(g) = Len(d) + Len(e)
      /\ \A i \in 1..Len(d) : g[i] = d[i]
      /\ \A i \in 1..Len(e) : g[Len(d) + i] = e[i]
  BY ConcatIs
<1>2. at + Len(g) <= Len(f) /\ \A i \in 1..Len(g) : f[at + i] = g[i]
  BY DEF Located
<1> HIDE DEF g
<1>3. \A i \in 1..Len(d) : i \in 1..Len(g)
  BY <1>1
<1>4. \A i \in 1..Len(e) : Len(d) + i \in 1..Len(g) /\ at + (Len(d) + i) = (at + Len(d)) + i
  BY <1>1
<1>5. at + Len(d) <= Len(f) /\ \A i \in 1..Len(d) : f[at + i] = d[i]
  BY <1>1, <1>2, <1>3
<1>6. (at + Len(d)) + Len(e) <= Len(f) /\ \A i \in 1..Len(e) : f[(at + Len(d)) + i] = e[i]
  BY <1>1, <1>2, <1>4
<1> QED BY <1>1, <1>5, <1>6 DEF Located

-----------------------------------------------------------------------------
(* Reading what is there.                                                  *)

\* A cursor reads the number that is there.
LEMMA ReadsNumber ==
  ASSUME NEW at \in Nat, NEW n, Located(file, at, <<Number(n)>>)
  PROVE  ValueAt(at) = n
<1>1. file[at + 1] = Number(n)
  BY DEF Located
<1> QED BY <1>1 DEF ValueAt, Number

\* A cursor reads a text that is there, given its length.
LEMMA ReadsText ==
  ASSUME NEW at \in Nat, NEW x \in Texts \cup {Empty} \cup Glossaries, file \in Seq(Cells), Located(file, at, Pieces(x))
  PROVE  TextAt(at, Size[x]) = Pieces(x)
<1> DEFINE n == Size[x]
           d == Pieces(x)
           u == SubSeq(file, at + 1, at + n)
<1>1. n \in Nat /\ d \in Seq(Cells) /\ Len(d) = n
  BY PiecesAre DEF Cells
<1> HIDE DEF n, d
<1>2. at + n <= Len(file) /\ Len(file) \in Nat /\ \A i \in 1..n : file[at + i] = d[i]
  BY <1>1 DEF Located, d
<1>3. \A i \in at + 1..at + n : file[i] \in Cells
  <2>1. \A i \in at + 1..at + n : i \in 1..Len(file)
    BY <1>1, <1>2
  <2> QED BY <2>1
<1>4. at + 1 \in Int /\ at + n \in Int
  BY <1>1
<1>5. /\ u \in Seq(Cells) /\ Len(u) = IF at + 1 <= at + n THEN (at + n) - (at + 1) + 1 ELSE 0
      /\ \A i \in 1..(at + n) - (at + 1) + 1 : u[i] = file[(at + 1) + i - 1]
  BY <1>3, <1>4, SubSeqProperties
<1> HIDE DEF u
<1>6. (at + n) - (at + 1) + 1 = n /\ \A i \in 1..n : (at + 1) + i - 1 = at + i
  BY <1>1
<1>7. Len(u) = n /\ \A i \in 1..n : u[i] = d[i]
  BY <1>1, <1>2, <1>5, <1>6
<1>8. u = d
  BY <1>1, <1>5, <1>7, SeqEqual
<1> QED BY <1>8 DEF u, d, n, TextAt

\* A text whose length its prefix can hold is read back whole.
LEMMA ReadsPrefixed ==
  ASSUME NEW at \in Nat, NEW x \in Texts \cup {Empty}, NEW w \in Nat \ {0}, Size[x] < w,
         file \in Seq(Cells), Located(file, at, Prefixed(x, w))
  PROVE  /\ ValueAt(at) = Size[x] /\ TextAt(at + 1, Size[x]) = Pieces(x) /\ Size[x] \in Nat
<1>1. Size[x] \in Nat /\ Pieces(x) \in Seq(Cells)
  BY PiecesAre DEF Cells
<1>2. Size[x] % w = Size[x]
  BY <1>1
<1>3. Prefixed(x, w) = <<Number(Size[x])>> \o Pieces(x)
  BY <1>2 DEF Prefixed
<1> DEFINE one == <<Number(Size[x])>>
<1>4. one \in Seq(Cells) /\ Len(one) = 1
  BY <1>1, NumberIsPlain DEF Cells
<1>5. Located(file, at, one \o Pieces(x))
  BY <1>3
<1> HIDE DEF one
<1>6. Located(file, at, one) /\ Located(file, at + Len(one), Pieces(x)) /\ at + Len(one) \in Nat
  BY <1>1, <1>4, <1>5, LocatedParts
<1>7. ValueAt(at) = Size[x]
  BY <1>6, ReadsNumber DEF one
<1>8. TextAt(at + 1, Size[x]) = Pieces(x)
  BY <1>4, <1>6, ReadsText
<1> QED BY <1>1, <1>7, <1>8

-----------------------------------------------------------------------------
(* Records.                                                                *)

KeyWidth(kind) == IF kind = 2 THEN Width.tag ELSE Width.key

TermBody(row, o) == (Keys(row) \o <<Number(o), Number(Size[row.glossary])>>) \o Prefixed(row.tags, Width.tag)
KeyedBody(kind, row) == (<<Number(kind)>> \o Prefixed(row.expr, KeyWidth(kind))) \o Prefixed(row.tags, Width.key)

\* The widths of keys are not zero.
LEMMA KeyWidthIs == \A k \in 0..3 : KeyWidth(k) \in Nat \ {0}
BY WidthAssumption DEF KeyWidth

\* The cells of a term record: only that of the glossary's offset depends on it.
LEMMA TermBodyIs ==
  ASSUME NEW row \in TermRow, NEW o \in Nat
  PROVE  /\ TermBody(row, o) \in Seq(Plain) /\ Len(Keys(row)) \in Nat
         /\ Len(Keys(row)) + 1 \in 1..Len(TermBody(row, o)) /\ Len(TermBody(row, o)) = Len(TermBody(row, 0))
         /\ TermBody(row, o)[Len(Keys(row)) + 1] = Number(o)
         /\ \A x \in 1..Len(TermBody(row, o)) : x # Len(Keys(row)) + 1 => TermBody(row, o)[x] = TermBody(row, 0)[x]
<1> DEFINE k == Keys(row)
           z == Size[row.glossary]
           mid(n) == <<Number(n), Number(z)>>
           t == Prefixed(row.tags, Width.tag)
<1>1. k \in Seq(Plain) /\ Len(k) \in Nat
  BY KeysAre
<1>2. z \in Nat /\ t \in Seq(Plain)
  BY PrefixedIs, PiecesAre, WidthAssumption DEF TermRow
<1> HIDE DEF z, k, t
<1>3. \A n \in Nat : mid(n) \in Seq(Plain) /\ Len(mid(n)) = 2 /\ mid(n)[1] = Number(n) /\ mid(n)[2] = Number(z)
  BY <1>2, NumberIsPlain
<1> HIDE DEF mid
<1>4. ASSUME NEW n \in Nat
      PROVE  /\ TermBody(row, n) \in Seq(Plain) /\ Len(TermBody(row, n)) = Len(k) + 2 + Len(t)
             /\ \A x \in 1..Len(k) : TermBody(row, n)[x] = k[x]
             /\ TermBody(row, n)[Len(k) + 1] = Number(n) /\ TermBody(row, n)[Len(k) + 2] = Number(z)
             /\ \A x \in 1..Len(t) : TermBody(row, n)[Len(k) + 2 + x] = t[x]
  <2> DEFINE m == mid(n)
             a == k \o m
             b == a \o t
  <2>1. m \in Seq(Plain) /\ Len(m) = 2 /\ m[1] = Number(n) /\ m[2] = Number(z) /\ 1 \in 1..2 /\ 2 \in 1..2
    BY <1>3
  <2> HIDE DEF m
  <2>2. /\ a \in Seq(Plain) /\ Len(k) \in Nat /\ Len(m) \in Nat /\ Len(a) = Len(k) + Len(m)
        /\ \A i \in 1..Len(k) : a[i] = k[i]
    BY <1>1, <2>1, ConcatIs
  <2>7. \A i \in 1..Len(m) : a[Len(k) + i] = m[i]
    <3>1. k \in Seq(Plain) /\ m \in Seq(Plain)
      BY <1>1, <2>1
    <3> QED BY <3>1, ConcatIs
  <2> HIDE DEF a
  <2>3. /\ b \in Seq(Plain) /\ Len(a) \in Nat /\ Len(t) \in Nat /\ Len(b) = Len(a) + Len(t)
        /\ \A i \in 1..Len(a) : b[i] = a[i]
    BY <1>2, <2>2, ConcatIs
  <2>8. \A i \in 1..Len(t) : b[Len(a) + i] = t[i]
    BY <1>2, <2>2, ConcatIs
  <2> HIDE DEF b
  <2>4. /\ Len(k) + 1 \in 1..Len(a) /\ Len(k) + 2 \in 1..Len(a) /\ Len(a) = Len(k) + 2
        /\ \A i \in 1..Len(k) : i \in 1..Len(a)
    BY <1>1, <2>1, <2>2
  <2>5. TermBody(row, n) = b
    BY DEF TermBody, a, b, m, mid, k, t, z
  <2>6. a[Len(k) + 1] = Number(n) /\ a[Len(k) + 2] = Number(z)
    BY <2>1, <2>7
  <2> QED BY <2>2, <2>3, <2>4, <2>5, <2>6, <2>8
<1>5. Len(t) \in Nat /\ 0 \in Nat
  BY <1>2
<1>6. \A x \in 1..Len(k) + 2 + Len(t) : \/ x \in 1..Len(k) \/ x = Len(k) + 1 \/ x = Len(k) + 2
                                        \/ x - (Len(k) + 2) \in 1..Len(t) /\ x = Len(k) + 2 + (x - (Len(k) + 2))
  BY <1>1, <1>5
<1>7. \A x \in 1..Len(TermBody(row, o)) : x # Len(k) + 1 => TermBody(row, o)[x] = TermBody(row, 0)[x]
  <2> SUFFICES ASSUME NEW x \in 1..Len(k) + 2 + Len(t), x # Len(k) + 1 PROVE TermBody(row, o)[x] = TermBody(row, 0)[x]
    BY <1>4
  <2> DEFINE b == TermBody(row, o)
             c == TermBody(row, 0)
  <2>1. /\ \A y \in 1..Len(k) : b[y] = k[y] /\ c[y] = k[y]
        /\ b[Len(k) + 2] = c[Len(k) + 2]
        /\ \A y \in 1..Len(t) : b[Len(k) + 2 + y] = t[y] /\ c[Len(k) + 2 + y] = t[y]
    BY <1>4, <1>5
  <2> HIDE DEF b, c
  <2>2. b[x] = c[x]
    BY <2>1, <1>6
  <2> QED BY <2>2 DEF b, c
<1>8. Len(k) + 1 \in 1..Len(TermBody(row, o)) /\ Len(TermBody(row, o)) = Len(TermBody(row, 0))
  BY <1>1, <1>4, <1>5
<1> QED BY <1>1, <1>4, <1>7, <1>8 DEF k

\* The cells of a record that is not a term.
LEMMA KeyedBodyIs ==
  ASSUME NEW kind \in 1..3, NEW row \in KeyedRow
  PROVE  KeyedBody(kind, row) \in Seq(Plain)
<1> DEFINE a == <<Number(kind)>>
           b == Prefixed(row.expr, KeyWidth(kind))
           c == Prefixed(row.tags, Width.key)
<1>1. a \in Seq(Plain)
  BY NumberIsPlain
<1>4. row.expr \in Texts \cup {Empty} /\ row.tags \in Texts \cup {Empty} /\ KeyWidth(kind) \in Nat \ {0}
  BY KeyWidthIs DEF KeyedRow
<1>2. b \in Seq(Plain) /\ c \in Seq(Plain)
  BY <1>4, PrefixedIs, WidthAssumption
<1> HIDE DEF a, b, c
<1>3. (a \o b) \o c \in Seq(Plain)
  BY <1>1, <1>2
<1> QED BY <1>3 DEF KeyedBody, a, b, c

\* A term record is read back as the row it was written for.
LEMMA ReadsTerm ==
  ASSUME file \in Seq(Cells), NEW at \in Nat, NEW o \in Nat, NEW row \in TermRow, FitsTerm(row),
         Located(file, at, TermBody(row, o)), Located(file, o, Pieces(row.glossary))
  PROVE  ValueAt(at) = 0 /\ TermAt(at) = Read(row)
<1> DEFINE one == <<Number(0)>>
           a == Prefixed(row.expr, Width.key)
           b == Prefixed(Reading(row), Width.key)
           g == Number(o)
           z == Number(Size[row.glossary])
           m == <<g, z>>
           t == Prefixed(row.tags, Width.tag)
           n == Size[row.expr]
           r == Size[Reading(row)]
<1>1. /\ row.expr \in Texts /\ Reading(row) \in Texts /\ row.tags \in Texts \cup {Empty} /\ row.glossary \in Glossaries
  BY KeysAre DEF TermRow
<1>2. /\ a \in Seq(Cells) /\ b \in Seq(Cells) /\ t \in Seq(Cells)
      /\ Len(a) = n + 1 /\ Len(b) = r + 1 /\ n \in Nat /\ r \in Nat
  <2>1. a \in Seq(Plain) /\ Len(a) = n + 1
    BY <1>1, PrefixedIs, WidthAssumption
  <2>2. b \in Seq(Plain) /\ Len(b) = r + 1
    BY <1>1, PrefixedIs, WidthAssumption
  <2>3. t \in Seq(Plain)
    BY <1>1, PrefixedIs, WidthAssumption
  <2>4. n \in Nat /\ r \in Nat
    BY <1>1, SizesAssumption
  <2> HIDE DEF a, b, t
  <2> QED BY <2>1, <2>2, <2>3, <2>4 DEF Cells
<1>3. one \in Seq(Cells) /\ Len(one) = 1 /\ m \in Seq(Cells) /\ Len(m) = 2 /\ m = <<g>> \o <<z>> /\ <<g>> \in Seq(Cells) /\ <<z>> \in Seq(Cells)
  <2>1. Size[row.glossary] \in Nat
    BY <1>1, PiecesAre
  <2>2. g \in Cells /\ z \in Cells /\ Number(0) \in Cells
    BY <2>1, NumberIsPlain DEF Cells
  <2> HIDE DEF g, z
  <2>3. one \in Seq(Cells) /\ Len(one) = 1
    BY <2>2
  <2>4. m \in Seq(Cells) /\ Len(m) = 2
    BY <2>2
  <2>5. <<g>> \in Seq(Cells) /\ <<z>> \in Seq(Cells)
    BY <2>2
  <2>7. <<g>> \o <<z>> = Append(<<g>>, z)
    BY <2>2, <2>5, AppendIsConcat
  <2>8. Append(<<g>>, z) = <<g, z>>
    BY <2>2, PairAppended
  <2>6. m = <<g>> \o <<z>>
    BY <2>7, <2>8
  <2> QED BY <2>3, <2>4, <2>5, <2>6
<1>4. TermBody(row, o) = (((one \o a) \o b) \o m) \o t
  BY DEF TermBody, Keys
<1> HIDE DEF one, a, b, m, t, n, r
<1> DEFINE p == one \o a
           q == p \o b
           u == q \o m
<1>5. p \in Seq(Cells) /\ Len(p) = n + 2
  <2>1. p \in Seq(Cells) /\ Len(p) = Len(one) + Len(a)
    BY <1>2, <1>3, ConcatProperties
  <2> QED BY <2>1, <1>2, <1>3
<1> HIDE DEF p
<1>6. q \in Seq(Cells) /\ Len(q) = n + r + 3
  <2>1. q \in Seq(Cells) /\ Len(q) = Len(p) + Len(b)
    BY <1>2, <1>5, ConcatProperties
  <2> QED BY <2>1, <1>2, <1>5
<1> HIDE DEF q
<1>7. u \in Seq(Cells) /\ Len(u) = n + r + 5
  <2>1. u \in Seq(Cells) /\ Len(u) = Len(q) + Len(m)
    BY <1>3, <1>6, ConcatProperties
  <2> QED BY <2>1, <1>2, <1>3, <1>6
<1> HIDE DEF u
<1>8. Located(file, at, u) /\ Located(file, at + (n + r + 5), t) /\ at + (n + r + 5) \in Nat
  <2>1. Located(file, at, u \o t)
    BY <1>4 DEF p, q, u
  <2>2. Located(file, at, u) /\ Located(file, at + Len(u), t) /\ at + Len(u) \in Nat
    BY <2>1, <1>2, <1>7, LocatedParts
  <2> QED BY <2>2, <1>7
<1>9. Located(file, at, q) /\ Located(file, at + (n + r + 3), m) /\ at + (n + r + 3) \in Nat
  <2>1. Located(file, at, q \o m)
    BY <1>8 DEF u
  <2>2. Located(file, at, q) /\ Located(file, at + Len(q), m) /\ at + Len(q) \in Nat
    <3>1. m \in Seq(Cells) /\ q \in Seq(Cells)
      BY <1>3, <1>6
    <3> QED BY <2>1, <3>1, LocatedParts
  <2> QED BY <2>2, <1>6
<1>10. Located(file, at, p) /\ Located(file, at + (n + 2), b) /\ at + (n + 2) \in Nat
  <2>1. Located(file, at, p \o b)
    BY <1>9 DEF q
  <2>2. Located(file, at, p) /\ Located(file, at + Len(p), b) /\ at + Len(p) \in Nat
    BY <2>1, <1>2, <1>5, LocatedParts
  <2> QED BY <2>2, <1>5
<1>11. Located(file, at, one) /\ Located(file, at + 1, a) /\ at + 1 \in Nat
  <2>1. Located(file, at, one \o a)
    BY <1>10 DEF p
  <2>2. Located(file, at, one) /\ Located(file, at + Len(one), a) /\ at + Len(one) \in Nat
    BY <2>1, <1>2, <1>3, LocatedParts
  <2> QED BY <2>2, <1>3
<1>12. ValueAt(at) = 0
  BY <1>11, ReadsNumber DEF one
<1>13. ValueAt(at + 1) = n /\ TextAt(at + 1 + 1, n) = Pieces(row.expr)
  BY <1>1, <1>11, ReadsPrefixed, WidthAssumption DEF FitsTerm, a, n
<1>14. ValueAt(at + (n + 2)) = r /\ TextAt(at + (n + 2) + 1, r) = Pieces(Reading(row))
  BY <1>1, <1>10, ReadsPrefixed, WidthAssumption DEF FitsTerm, b, r
<1>15. ValueAt(at + (n + r + 3)) = o /\ ValueAt(at + (n + r + 3) + 1) = Size[row.glossary]
  <2>1. Located(file, at + (n + r + 3), <<g>> \o <<z>>)
    BY <1>3, <1>9 DEF m
  <2> DEFINE c == at + (n + r + 3)
             x == <<g>>
             y == <<z>>
  <2>2. c \in Nat /\ x \in Seq(Cells) /\ y \in Seq(Cells) /\ Len(x) = 1
    BY <1>3, <1>9 DEF m
  <2> HIDE DEF c, x, y
  <2>3. Located(file, c, x) /\ Located(file, c + Len(x), y) /\ c + Len(x) \in Nat
    BY <2>1, <2>2, LocatedParts DEF c, x, y
  <2>4. ValueAt(c) = o /\ ValueAt(c + 1) = Size[row.glossary]
    BY <2>2, <2>3, ReadsNumber DEF x, y
  <2> QED BY <2>4 DEF c
<1>16. ValueAt(at + (n + r + 5)) = Size[row.tags] /\ TextAt(at + (n + r + 5) + 1, Size[row.tags]) = Pieces(row.tags)
  BY <1>1, <1>8, ReadsPrefixed, WidthAssumption DEF FitsTerm, t
<1>17. TextAt(o, Size[row.glossary]) = Pieces(row.glossary)
  BY <1>1, ReadsText
<1>18. /\ at + 1 + 1 = at + 2 /\ at + (n + 2) = at + 2 + n /\ at + (n + 2) + 1 = at + 3 + n
       /\ at + (n + r + 3) = at + 3 + n + r /\ at + (n + r + 5) = at + 3 + n + r + 2 /\ at + (n + r + 5) + 1 = at + 3 + n + r + 3
  BY <1>2
<1>19. /\ ValueAt(at + 1) = n /\ TextAt(at + 2, n) = Pieces(row.expr)
       /\ ValueAt(at + 2 + n) = r /\ TextAt(at + 3 + n, r) = Pieces(Reading(row))
       /\ ValueAt(at + 3 + n + r) = o /\ ValueAt(at + 3 + n + r + 1) = Size[row.glossary]
       /\ ValueAt(at + 3 + n + r + 2) = Size[row.tags] /\ TextAt(at + 3 + n + r + 3, Size[row.tags]) = Pieces(row.tags)
  BY <1>13, <1>14, <1>15, <1>16, <1>18
<1>20. TermAt(at) = Read(row)
  BY <1>17, <1>19 DEF TermAt, Read
<1> QED BY <1>12, <1>20

\* So is a record of metadata or of a kanji.
LEMMA ReadsKeyed ==
  ASSUME file \in Seq(Cells), NEW at \in Nat, NEW kind \in 1..3, NEW row \in KeyedRow, FitsKeyed(row, KeyWidth(kind)),
         Located(file, at, KeyedBody(kind, row))
  PROVE  ValueAt(at) = kind /\ KeyedAt(at) = ReadKeyed(row)
<1> DEFINE one == <<Number(kind)>>
           a == Prefixed(row.expr, KeyWidth(kind))
           t == Prefixed(row.tags, Width.key)
           n == Size[row.expr]
<1>1. row.expr \in Texts /\ row.tags \in Texts \cup {Empty} /\ KeyWidth(kind) \in Nat \ {0}
  BY KeyWidthIs DEF KeyedRow
<1>2. a \in Seq(Cells) /\ t \in Seq(Cells) /\ Len(a) = n + 1 /\ n \in Nat
  <2>1. a \in Seq(Plain) /\ Len(a) = n + 1
    BY <1>1, PrefixedIs
  <2>2. t \in Seq(Plain)
    BY <1>1, PrefixedIs, WidthAssumption
  <2>3. n \in Nat
    BY <1>1, SizesAssumption
  <2> HIDE DEF a, t
  <2> QED BY <2>1, <2>2, <2>3 DEF Cells
<1>3. one \in Seq(Cells) /\ Len(one) = 1
  BY NumberIsPlain DEF Cells
<1>4. KeyedBody(kind, row) = (one \o a) \o t
  BY DEF KeyedBody
<1> HIDE DEF one, a, t, n
<1> DEFINE p == one \o a
<1>5. p \in Seq(Cells) /\ Len(p) = n + 2
  <2>1. p \in Seq(Cells) /\ Len(p) = Len(one) + Len(a)
    BY <1>2, <1>3, ConcatProperties
  <2> QED BY <2>1, <1>2, <1>3
<1> HIDE DEF p
<1>6. Located(file, at, p) /\ Located(file, at + (n + 2), t) /\ at + (n + 2) \in Nat
  <2>1. Located(file, at, p \o t)
    BY <1>4 DEF p
  <2>2. Located(file, at, p) /\ Located(file, at + Len(p), t) /\ at + Len(p) \in Nat
    BY <2>1, <1>2, <1>5, LocatedParts
  <2> QED BY <2>2, <1>5
<1>7. Located(file, at, one) /\ Located(file, at + 1, a) /\ at + 1 \in Nat
  <2>1. Located(file, at, one \o a)
    BY <1>6 DEF p
  <2>2. Located(file, at, one) /\ Located(file, at + Len(one), a) /\ at + Len(one) \in Nat
    BY <2>1, <1>2, <1>3, LocatedParts
  <2> QED BY <2>2, <1>3
<1>8. ValueAt(at) = kind
  BY <1>7, ReadsNumber DEF one
<1>9. ValueAt(at + 1) = n /\ TextAt(at + 1 + 1, n) = Pieces(row.expr)
  BY <1>1, <1>7, ReadsPrefixed DEF FitsKeyed, a, n
<1>10. ValueAt(at + (n + 2)) = Size[row.tags] /\ TextAt(at + (n + 2) + 1, Size[row.tags]) = Pieces(row.tags)
  BY <1>1, <1>6, ReadsPrefixed, WidthAssumption DEF FitsKeyed, t
<1>11. at + 1 + 1 = at + 2 /\ at + (n + 2) = at + 2 + n /\ at + (n + 2) + 1 = at + 3 + n
  BY <1>2
<1>12. /\ ValueAt(at + 1) = n /\ TextAt(at + 2, n) = Pieces(row.expr)
       /\ ValueAt(at + 2 + n) = Size[row.tags] /\ TextAt(at + 3 + n, Size[row.tags]) = Pieces(row.tags)
  BY <1>9, <1>10, <1>11
<1>13. KeyedAt(at) = ReadKeyed(row)
  BY <1>12 DEF KeyedAt, ReadKeyed
<1> QED BY <1>8, <1>13

-----------------------------------------------------------------------------
(* The records an import wrote, in their order: what each one is for, and  *)
(* where it begins.                                                        *)

GoodTerm == {r \in TermRow : /\ FitsTerm(r)
                             /\ r.reading \in {Empty, r.expr} \/ HashOf[r.reading] # HashOf[r.expr]}
GoodKeyed(kind) == {r \in KeyedRow : FitsKeyed(r, KeyWidth(kind))}
GoodRow(kind) == IF kind = 0 THEN GoodTerm ELSE GoodKeyed(kind)
AnyRow == TermRow \cup KeyedRow
Recs == {w \in [kind : 0..3, row : AnyRow, at : Nat] : w.row \in GoodRow(w.kind)}

\* what a record leaves in the offsets, and in the list of the rows of a kind
EntriesOf ==
  [w \in Recs |-> IF w.kind = 0 THEN [k \in 1..Len(KeysOf(w.row)) |-> <<HashOf[KeysOf(w.row)[k]], w.at>>]
                  ELSE <<<<HashOf[w.row.expr], w.at>>>>]
RowsOf(kind) == [w \in Recs |-> IF w.kind = kind THEN <<w.row>> ELSE <<>>]
\* its cells in the bank, where no offset of a glossary is patched yet
Draft(w) == IF w.kind = 0 THEN TermBody(w.row, 0) ELSE KeyedBody(w.kind, w.row)

\* The parts of a record, and what its row is by its kind.
LEMMA RecIs ==
  ASSUME NEW w \in Recs
  PROVE  /\ w.kind \in 0..3 /\ w.at \in Nat /\ w.row \in AnyRow
         /\ w = [kind |-> w.kind, row |-> w.row, at |-> w.at]
         /\ w.kind = 0 => w.row \in TermRow /\ w.row \in GoodTerm
         /\ w.kind # 0 => w.row \in KeyedRow /\ w.row \in GoodKeyed(w.kind) /\ w.kind \in 1..3
<1>1. w.kind \in 0..3 /\ w.at \in Nat /\ w.row \in AnyRow /\ w = [kind |-> w.kind, row |-> w.row, at |-> w.at]
  BY DEF Recs
<1>2. w.row \in GoodRow(w.kind)
  BY DEF Recs
<1> QED BY <1>1, <1>2 DEF GoodRow, GoodTerm, GoodKeyed

\* A record is made of a kind, a row of that kind that fits, and a place.
LEMMA RecMade ==
  ASSUME NEW kind \in 0..3, NEW row \in GoodRow(kind), NEW at \in Nat
  PROVE  [kind |-> kind, row |-> row, at |-> at] \in Recs
<1>1. row \in AnyRow
  BY DEF GoodRow, GoodTerm, GoodKeyed, AnyRow
<1> QED BY <1>1 DEF Recs

\* What records leave in the offsets are pairs of a hash and a place.
LEMMA EntriesTyped == EntriesOf \in Maps(Recs, Nat \X Nat)
<1> SUFFICES ASSUME NEW w \in Recs PROVE EntriesOf[w] \in Seq(Nat \X Nat)
  BY DEF Maps, EntriesOf
<1>1. CASE w.kind = 0
  <2> DEFINE ks == KeysOf(w.row)
             e(k) == <<HashOf[ks[k]], w.at>>
             P == Nat \X Nat
  <2>1. ks \in Seq(Texts) /\ Len(ks) \in Nat /\ w.at \in Nat
    BY <1>1, RecIs, KeysAre
  <2> HIDE DEF ks
  <2>2. \A k \in 1..Len(ks) : e(k) \in P
    BY <2>1, SizesAssumption
  <2>3. EntriesOf[w] = [k \in 1..Len(ks) |-> e(k)]
    BY <1>1 DEF EntriesOf, ks
  <2> HIDE DEF e, P
  <2>4. [k \in 1..Len(ks) |-> e(k)] \in Seq(P)
    BY <2>1, <2>2
  <2> QED BY <2>3, <2>4 DEF P
<1>2. CASE w.kind # 0
  <2>1. w.row.expr \in Texts /\ w.at \in Nat
    BY <1>2, RecIs DEF KeyedRow
  <2>2. <<HashOf[w.row.expr], w.at>> \in Nat \X Nat
    BY <2>1, SizesAssumption
  <2>3. EntriesOf[w] = <<<<HashOf[w.row.expr], w.at>>>>
    BY <1>2 DEF EntriesOf
  <2> QED BY <2>2, <2>3
<1> QED BY <1>1, <1>2

\* What is listed of the records of a kind are rows.
LEMMA RowsTyped == \A k : RowsOf(k) \in Maps(Recs, AnyRow)
<1> SUFFICES ASSUME NEW k, NEW w \in Recs PROVE RowsOf(k)[w] \in Seq(AnyRow)
  BY DEF Maps, RowsOf
<1>1. w.row \in AnyRow
  BY RecIs
<1> HIDE DEF AnyRow
<1>2. CASE w.kind = k
  <2>1. RowsOf(k)[w] = <<w.row>>
    BY <1>2 DEF RowsOf
  <2> QED BY <1>1, <2>1
<1>3. CASE w.kind # k
  <2>1. RowsOf(k)[w] = <<>>
    BY <1>3 DEF RowsOf
  <2> QED BY <2>1
<1> QED BY <1>2, <1>3

\* The cells of a record, of which there is at least one.
LEMMA DraftIs ==
  ASSUME NEW w \in Recs
  PROVE  Draft(w) \in Seq(Plain) /\ Len(Draft(w)) \in Nat /\ Len(Draft(w)) > 0
<1>1. CASE w.kind = 0
  <2>1. w.row \in TermRow
    BY <1>1, RecIs
  <2> DEFINE b == TermBody(w.row, 0)
  <2>2. b \in Seq(Plain) /\ Len(Keys(w.row)) + 1 \in 1..Len(b)
    BY <2>1, TermBodyIs
  <2> HIDE DEF b
  <2>3. Len(b) \in Nat /\ Len(b) > 0
    BY <2>2
  <2> QED BY <2>2, <2>3, <1>1 DEF Draft, b
<1>2. CASE w.kind # 0
  <2>1. w.row \in KeyedRow /\ w.kind \in 1..3
    BY <1>2, RecIs
  <2> DEFINE one == <<Number(w.kind)>>
             a == Prefixed(w.row.expr, KeyWidth(w.kind))
             c == Prefixed(w.row.tags, Width.key)
  <2>2. w.row.expr \in Texts \cup {Empty} /\ w.row.tags \in Texts \cup {Empty} /\ KeyWidth(w.kind) \in Nat \ {0}
    BY <2>1, KeyWidthIs DEF KeyedRow
  <2>3. one \in Seq(Plain) /\ Len(one) = 1
    BY <2>1, NumberIsPlain
  <2>4. a \in Seq(Plain) /\ c \in Seq(Plain)
    BY <2>2, PrefixedIs, WidthAssumption
  <2>5. Draft(w) = (one \o a) \o c
    BY <1>2 DEF Draft, KeyedBody
  <2> HIDE DEF one, a, c
  <2>6. one \o a \in Seq(Plain) /\ Len(one \o a) = Len(one) + Len(a)
    BY <2>3, <2>4, ConcatProperties
  <2>7. (one \o a) \o c \in Seq(Plain) /\ Len((one \o a) \o c) = Len(one \o a) + Len(c)
    BY <2>4, <2>6, ConcatProperties
  <2>8. Len(a) \in Nat /\ Len(c) \in Nat
    BY <2>4
  <2> QED BY <2>3, <2>5, <2>6, <2>7, <2>8
<1> QED BY <1>1, <1>2

\* The data and the offsets of a bank are those of the records of its rows,
\* one after the other.
Logs(d, offs, recs, kind, rows) ==
  /\ recs \in Seq(Recs) /\ offs = FlatMap(EntriesOf, recs)
  /\ FlatMap(RowsOf(kind), recs) = rows /\ \A k \in 0..3 : k # kind => FlatMap(RowsOf(k), recs) = <<>>
  /\ \A i \in 1..Len(recs) : recs[i].kind = kind /\ Located(d, recs[i].at, Draft(recs[i]))
  /\ \A i, j \in 1..Len(recs) : i < j => recs[i].at + Len(Draft(recs[i])) <= recs[j].at

\* A bank that holds nothing yet logs no record.
LEMMA LogStarts == \A kind : Logs(<<>>, <<>>, <<>>, kind, <<>>)
<1> DEFINE z == <<>>
<1>1. z \in Seq(Recs) /\ 1..0 = {} /\ Len(z) = 0
  OBVIOUS
<1>2. FlatMap(EntriesOf, <<>>) = <<>>
  BY <1>1, EntriesTyped, FlatMapIs
<1>3. \A k : FlatMap(RowsOf(k), <<>>) = <<>>
  BY <1>1, RowsTyped, FlatMapIs
<1>4. FlatMap(EntriesOf, z) = z /\ \A k : FlatMap(RowsOf(k), z) = z
  BY <1>2, <1>3
<1> HIDE DEF z
<1>5. \A kind : Logs(z, z, z, kind, z)
  <2>1. \A k : k # k => FlatMap(RowsOf(k), z) = <<>>
    OBVIOUS
  <2>2. z = <<>>
    BY DEF z
  <2> QED BY <1>1, <1>4, <2>2 DEF Logs
<1> QED BY <1>5 DEF z

\* A record behind what a bank holds is logged with the others.
LEMMA LogGrows ==
  ASSUME NEW d \in Seq(Plain), NEW offs, NEW recs, NEW rows, NEW w \in Recs, Logs(d, offs, recs, w.kind, rows), w.at = Len(d)
  PROVE  Logs(d \o Draft(w), offs \o EntriesOf[w], Append(recs, w), w.kind, Append(rows, w.row))
<1> DEFINE b == Draft(w)
           e == d \o b
           n == Len(recs)
           a == Append(recs, w)
           kind == w.kind
<1>1. /\ recs \in Seq(Recs) /\ offs = FlatMap(EntriesOf, recs)
      /\ FlatMap(RowsOf(kind), recs) = rows /\ \A k \in 0..3 : k # kind => FlatMap(RowsOf(k), recs) = <<>>
      /\ \A i \in 1..n : recs[i].kind = kind /\ Located(d, recs[i].at, Draft(recs[i]))
      /\ \A i, j \in 1..n : i < j => recs[i].at + Len(Draft(recs[i])) <= recs[j].at
  BY DEF Logs
<1>2. b \in Seq(Plain) /\ Len(d) \in Nat /\ w.row \in AnyRow
  BY DraftIs, RecIs
<1> HIDE DEF b
<1>3. a \in Seq(Recs) /\ n \in Nat /\ Len(a) = n + 1 /\ a[n + 1] = w /\ \A i \in 1..n : a[i] = recs[i] /\ recs[i] \in Recs
  BY <1>1, AppendIs
<1>4. FlatMap(EntriesOf, a) = offs \o EntriesOf[w]
  <2>1. recs \in Seq(Recs) /\ EntriesOf \in Maps(Recs, Nat \X Nat)
    BY <1>1, EntriesTyped
  <2>2. /\ EntriesOf[w] \in Seq(Nat \X Nat) /\ FlatMap(EntriesOf, recs) \in Seq(Nat \X Nat) /\ Append(recs, w) \in Seq(Recs)
        /\ FlatMap(EntriesOf, Append(recs, w)) = FlatMap(EntriesOf, recs) \o EntriesOf[w]
    BY <2>1, FlatMapAppend
  <2> QED BY <1>1, <2>2
<1>5. ASSUME NEW k \in 0..3
      PROVE  FlatMap(RowsOf(k), a) = IF k = kind THEN Append(rows, w.row) ELSE <<>>
  <2> DEFINE F == RowsOf(k)
             r == FlatMap(F, recs)
  <2>1. recs \in Seq(Recs) /\ F \in Maps(Recs, AnyRow)
    BY <1>1, RowsTyped
  <2>2. F[w] = IF w.kind = k THEN <<w.row>> ELSE <<>>
    BY DEF RowsOf
  <2> HIDE DEF F
  <2>3. /\ F[w] \in Seq(AnyRow) /\ FlatMap(F, recs) \in Seq(AnyRow) /\ Append(recs, w) \in Seq(Recs)
        /\ FlatMap(F, Append(recs, w)) = FlatMap(F, recs) \o F[w]
    BY <2>1, FlatMapAppend
  <2>4. r \in Seq(AnyRow) /\ FlatMap(F, a) = r \o F[w]
    BY <2>3
  <2>5. r = IF k = kind THEN rows ELSE <<>>
    BY <1>1 DEF F
  <2> HIDE DEF r
  <2>6. CASE k = kind
    <3>1. FlatMap(F, a) = r \o <<w.row>>
      BY <2>2, <2>4, <2>6
    <3>2. r \o <<w.row>> = Append(r, w.row)
      BY <2>4, <1>2, AppendIsConcat
    <3> QED BY <3>1, <3>2, <2>5, <2>6 DEF F
  <2>7. CASE k # kind
    <3>1. FlatMap(F, a) = r \o <<>>
      BY <2>2, <2>4, <2>7
    <3>2. r \o <<>> = r
      BY <2>4, ConcatEmptySeq
    <3> QED BY <3>1, <3>2, <2>5, <2>7 DEF F
  <2> QED BY <2>6, <2>7
<1>6. Located(e, Len(d), b)
  BY <1>2, LocatedEnd
<1>7. \A i \in 1..n : Located(e, recs[i].at, Draft(recs[i])) /\ recs[i].at + Len(Draft(recs[i])) <= Len(d)
  <2> SUFFICES ASSUME NEW i \in 1..n
               PROVE  Located(e, recs[i].at, Draft(recs[i])) /\ recs[i].at + Len(Draft(recs[i])) <= Len(d)
    OBVIOUS
  <2> DEFINE x == recs[i].at
             y == Draft(recs[i])
  <2>1. recs[i] \in Recs
    BY <1>3
  <2>2. x \in Nat /\ y \in Seq(Plain) /\ Located(d, x, y)
    BY <1>1, <2>1, RecIs, DraftIs
  <2> HIDE DEF x, y
  <2>3. Located(d \o b, x, y)
    BY <2>2, <1>2, LocatedMore
  <2>4. x + Len(y) <= Len(d)
    BY <2>2 DEF Located
  <2> QED BY <2>3, <2>4 DEF x, y
<1> HIDE DEF e, a, n
<1>8. \A i \in 1..n + 1 : i \in 1..n \/ i = n + 1
  BY <1>3
<1>9. \A i \in 1..Len(a) : a[i].kind = kind /\ Located(e, a[i].at, Draft(a[i]))
  BY <1>1, <1>3, <1>6, <1>7, <1>8 DEF b
<1>10. \A i, j \in 1..Len(a) : i < j => a[i].at + Len(Draft(a[i])) <= a[j].at
  <2> SUFFICES ASSUME NEW i \in 1..n + 1, NEW j \in 1..n + 1, i < j PROVE a[i].at + Len(Draft(a[i])) <= a[j].at
    BY <1>3
  <2>1. i \in 1..n
    BY <1>3
  <2>2. CASE j \in 1..n
    BY <2>1, <2>2, <1>1, <1>3
  <2>3. CASE j = n + 1
    BY <2>1, <2>3, <1>3, <1>7
  <2> QED BY <2>2, <2>3, <1>8
<1>11. kind \in 0..3
  BY RecIs
<1> QED BY <1>3, <1>4, <1>5, <1>9, <1>10, <1>11 DEF Logs, e, a, b

-----------------------------------------------------------------------------
(* The records of a bank, as they are processed.                           *)

\* Each term record has its hole: where the offset of its glossary goes.
Holes(patches, recs) ==
  /\ Len(patches) = Len(recs)
  /\ \A i \in 1..Len(recs) :
        patches[i].glossary = recs[i].row.glossary /\ patches[i].pos = recs[i].at + Len(Keys(recs[i].row))

\* AddTerm logs one record more, and its hole.
LEMMA AddTermLogged ==
  ASSUME NEW p \in Fitting, NEW row \in GoodTerm, NEW recs, NEW rows,
         Logs(p.data, p.offsets, recs, 0, rows), Holes(p.patches, recs),
         NEW q, q = AddTerm(p, row), NEW w, w = [kind |-> 0, row |-> row, at |-> Len(p.data)]
  PROVE  Logs(q.data, q.offsets, Append(recs, w), 0, Append(rows, row)) /\ Holes(q.patches, Append(recs, w))
<1> DEFINE g == row.glossary
           at == Len(p.data)
           k == Keys(row)
           m == <<Number(0), Number(Size[g])>>
           t == Prefixed(row.tags, Width.tag)
           patch == [glossary |-> g, pos |-> at + Len(k)]
           more == [i \in DOMAIN KeysOf(row) |-> <<HashOf[KeysOf(row)[i]], at>>]
           n == Len(recs)
<1>1. /\ p.data \in Seq(Plain) /\ at \in Nat /\ p.patches \in Seq(Patches0) /\ row \in TermRow
  BY DEF Fitting, ProcessedFile, GoodTerm
<1>2. k \in Seq(Plain) /\ m \in Seq(Plain) /\ t \in Seq(Plain) /\ Len(k) \in Nat /\ g \in Glossaries
      /\ DOMAIN KeysOf(row) = 1..Len(KeysOf(row))
  <2>1. row.tags \in Texts \cup {Empty} /\ g \in Glossaries
    BY <1>1 DEF TermRow
  <2>2. t \in Seq(Plain)
    BY <2>1, PrefixedIs, WidthAssumption
  <2>3. Number(0) \in Plain /\ Number(Size[g]) \in Plain
    BY <2>1, PiecesAre, NumberIsPlain
  <2> QED BY <1>1, <2>1, <2>2, <2>3, KeysAre
<1>3. /\ q.data = ((p.data \o k) \o m) \o t /\ q.patches = Append(p.patches, patch) /\ q.offsets = p.offsets \o more
  <2> HIDE DEF k, m, t, patch, more
  <2>1. p = [data |-> p.data, offsets |-> p.offsets, blob |-> p.blob, spans |-> p.spans, patches |-> p.patches,
             long |-> p.long, count |-> p.count]
    BY DEF Fitting, ProcessedFile
  <2>2. q.data = ((p.data \o k) \o m) \o t
    BY <2>1 DEF AddTerm, k, m, t
  <2>3. q.patches = Append(p.patches, patch)
    BY <2>1 DEF AddTerm, patch, k
  <2>4. q.offsets = p.offsets \o more
    BY <2>1 DEF AddTerm, more
  <2> QED BY <2>2, <2>3, <2>4
<1>4. w \in Recs /\ w.kind = 0 /\ w.at = at /\ w.row = row
  <2>1. row \in GoodRow(0)
    BY DEF GoodRow
  <2> QED BY <2>1, <1>1, RecMade
<1>5. q.data = p.data \o Draft(w)
  <2>1. Draft(w) = (k \o m) \o t
    BY <1>4 DEF Draft, TermBody
  <2> DEFINE d == p.data
  <2>2. d \in Seq(Plain) /\ k \in Seq(Plain) /\ m \in Seq(Plain) /\ t \in Seq(Plain)
    BY <1>1, <1>2
  <2> HIDE DEF k, m, t, d
  <2>3. ((d \o k) \o m) \o t = d \o ((k \o m) \o t)
    <3>1. (d \o k) \o m = d \o (k \o m)
      BY <2>2, ConcatAssociative, SMTT(30)
    <3> DEFINE r == k \o m
    <3>2. r \in Seq(Plain)
      BY <2>2, ConcatProperties
    <3> HIDE DEF r
    <3>4. d \in Seq(Plain) /\ t \in Seq(Plain)
      BY <2>2
    <3>3. (d \o r) \o t = d \o (r \o t)
      BY <3>4, <3>2, ConcatAssociative
    <3> QED BY <3>1, <3>3 DEF r
  <2>4. q.data = d \o ((k \o m) \o t)
    BY <1>3, <2>3 DEF d
  <2> QED BY <2>1, <2>4 DEF d
<1>6. q.offsets = p.offsets \o EntriesOf[w]
  <2>1. EntriesOf[w] = more
    BY <1>2, <1>4 DEF EntriesOf
  <2> HIDE DEF more
  <2> QED BY <2>1, <1>3
<1>7. Logs(q.data, q.offsets, Append(recs, w), 0, Append(rows, row))
  <2>1. Logs(p.data \o Draft(w), p.offsets \o EntriesOf[w], Append(recs, w), w.kind, Append(rows, w.row))
    <3> DEFINE d == p.data
               offs == p.offsets
    <3>1. d \in Seq(Plain) /\ w \in Recs /\ Logs(d, offs, recs, w.kind, rows) /\ w.at = Len(d)
      BY <1>1, <1>4
    <3> HIDE DEF d, offs
    <3>2. Logs(d \o Draft(w), offs \o EntriesOf[w], Append(recs, w), w.kind, Append(rows, w.row))
      BY <3>1, LogGrows
    <3> QED BY <3>2 DEF d, offs
  <2> QED BY <2>1, <1>4, <1>5, <1>6
<1>8. Holes(q.patches, Append(recs, w))
  <2> DEFINE a == Append(recs, w)
             b == Append(p.patches, patch)
  <2>1. recs \in Seq(Recs)
    BY DEF Logs
  <2>2. Len(a) = n + 1 /\ n \in Nat /\ a[n + 1] = w /\ \A i \in 1..n : a[i] = recs[i]
    BY <2>1, <1>4, AppendIs
  <2>3. Len(p.patches) = n /\ \A i \in 1..n : /\ p.patches[i].glossary = recs[i].row.glossary
                                             /\ p.patches[i].pos = recs[i].at + Len(Keys(recs[i].row))
    BY DEF Holes
  <2>4. patch \in Patches0
    <3>1. at + Len(k) \in Nat
      BY <1>1, <1>2
    <3> QED BY <3>1, <1>2 DEF Patches0
  <2>5. patch.glossary = w.row.glossary /\ patch.pos = w.at + Len(Keys(w.row))
    BY <1>4
  <2> HIDE DEF patch
  <2>6. Len(b) = n + 1 /\ b[n + 1] = patch /\ \A i \in 1..n : b[i] = p.patches[i]
    BY <2>3, <2>4, <1>1, AppendIs
  <2>7. q.patches = b
    BY <1>3
  <2> HIDE DEF a, b
  <2>8. \A i \in 1..n + 1 : i \in 1..n \/ i = n + 1
    BY <2>2
  <2>9. \A i \in 1..n + 1 : b[i].glossary = a[i].row.glossary /\ b[i].pos = a[i].at + Len(Keys(a[i].row))
    BY <2>2, <2>3, <2>5, <2>6, <2>8
  <2> QED BY <2>2, <2>6, <2>7, <2>9 DEF Holes, a
<1> QED BY <1>7, <1>8

\* A bank of terms is the records of its rows.
LEMMA TermBankLogged ==
  ASSUME NEW rows \in Seq(GoodTerm), NEW p, p = ProcessTermBank(rows)
  PROVE  \E recs : Logs(p.data, p.offsets, recs, 0, rows) /\ Holes(p.patches, recs)
<1> DEFINE n == Len(rows)
           upTo(k) == [i \in 1..k |-> rows[i]]
<1>1. n \in Nat /\ rows \in Seq(TermRow) /\ \A k \in 1..n : rows[k] \in GoodTerm
  BY DEF GoodTerm
<1>2. PICK F \in [0..n -> Fitting] : F[0] = NoBank /\ (\A k \in 1..n : F[k] = AddTerm(F[k - 1], rows[k])) /\ p = F[n]
  BY <1>1, TermBankSteps
<1>3. /\ upTo(0) = <<>> /\ upTo(n) = rows
      /\ \A k \in Nat : k + 1 <= n => upTo(k + 1) = Append(upTo(k), rows[k + 1])
  BY PrefixGrows
<1> HIDE DEF n, upTo
<1> DEFINE Good(k) == \E recs : Logs(F[k].data, F[k].offsets, recs, 0, upTo(k)) /\ Holes(F[k].patches, recs)
           T == {k \in Nat : k <= n => Good(k)}
<1>4. 0 \in T
  <2>1. F[0].data = <<>> /\ F[0].offsets = <<>> /\ F[0].patches = <<>>
    BY <1>2 DEF NoBank
  <2>2. Holes(<<>>, <<>>)
    BY DEF Holes
  <2>3. Logs(<<>>, <<>>, <<>>, 0, <<>>)
    BY LogStarts
  <2>4. Good(0)
    BY <2>1, <2>2, <2>3, <1>3
  <2> QED BY <2>4
<1>5. ASSUME NEW k \in Nat, k \in T PROVE k + 1 \in T
  <2> SUFFICES ASSUME k + 1 <= n PROVE Good(k + 1)
    OBVIOUS
  <2>1. k + 1 \in 1..n /\ (k + 1) - 1 = k /\ k \in 0..n /\ k <= n
    BY <1>1
  <2>2. PICK recs : Logs(F[k].data, F[k].offsets, recs, 0, upTo(k)) /\ Holes(F[k].patches, recs)
    BY <2>1, <1>5
  <2>3. F[k + 1] = AddTerm(F[k], rows[k + 1]) /\ rows[k + 1] \in GoodTerm /\ F[k] \in Fitting
    BY <2>1, <1>1, <1>2
  <2> DEFINE w == [kind |-> 0, row |-> rows[k + 1], at |-> Len(F[k].data)]
             new == Append(recs, w)
  <2>4. Logs(F[k + 1].data, F[k + 1].offsets, new, 0, Append(upTo(k), rows[k + 1])) /\ Holes(F[k + 1].patches, new)
    BY <2>2, <2>3, AddTermLogged
  <2>5. Append(upTo(k), rows[k + 1]) = upTo(k + 1)
    BY <1>3
  <2> HIDE DEF new
  <2> QED BY <2>4, <2>5
<1> HIDE DEF T
<1>6. n \in T
  BY <1>1, <1>4, <1>5, NatSetInduction
<1>7. Good(n)
  BY <1>1, <1>6 DEF T
<1> QED BY <1>2, <1>3, <1>7

\* AddKeyed logs one record more.
LEMMA AddKeyedLogged ==
  ASSUME NEW p \in ProcessedFile, NEW kind \in 1..3, NEW row \in GoodKeyed(kind), NEW recs, NEW rows,
         Logs(p.data, p.offsets, recs, kind, rows),
         NEW q, q = AddKeyed(kind, KeyWidth(kind), p, row), NEW w, w = [kind |-> kind, row |-> row, at |-> Len(p.data)]
  PROVE  Logs(q.data, q.offsets, Append(recs, w), kind, Append(rows, row))
<1> DEFINE d == p.data
           offs == p.offsets
           k == <<Number(kind)>>
           m == Prefixed(row.expr, KeyWidth(kind))
           t == Prefixed(row.tags, Width.key)
           e == <<HashOf[row.expr], Len(d)>>
<1>1. d \in Seq(Plain) /\ Len(d) \in Nat /\ offs \in Seq(Nat \X Nat) /\ row \in KeyedRow
  BY DEF ProcessedFile, GoodKeyed
<1>2. k \in Seq(Plain) /\ m \in Seq(Plain) /\ t \in Seq(Plain) /\ row.expr \in Texts
  <2>1. row.tags \in Texts \cup {Empty} /\ row.expr \in Texts /\ KeyWidth(kind) \in Nat \ {0}
    BY <1>1, KeyWidthIs DEF KeyedRow
  <2>2. t \in Seq(Plain)
    BY <2>1, PrefixedIs, WidthAssumption
  <2>3. m \in Seq(Plain)
    BY <2>1, PrefixedIs
  <2>4. Number(kind) \in Plain
    BY NumberIsPlain
  <2> QED BY <2>1, <2>2, <2>3, <2>4
<1>3. q.data = ((d \o k) \o m) \o t /\ q.offsets = Append(offs, e)
  <2>1. p = [data |-> p.data, offsets |-> p.offsets, blob |-> p.blob, spans |-> p.spans, patches |-> p.patches,
             long |-> p.long, count |-> p.count]
    BY DEF ProcessedFile
  <2> HIDE DEF k, m, t, e
  <2>2. q.data = ((d \o k) \o m) \o t
    BY <2>1 DEF AddKeyed, k, m, t
  <2>3. q.offsets = Append(offs, e)
    BY <2>1 DEF AddKeyed, e
  <2> QED BY <2>2, <2>3
<1>4. w \in Recs /\ w.kind = kind /\ w.at = Len(d) /\ w.row = row
  <2>1. row \in GoodRow(kind)
    BY DEF GoodRow
  <2> QED BY <2>1, <1>1, RecMade
<1>5. q.data = d \o Draft(w)
  <2>1. Draft(w) = (k \o m) \o t
    BY <1>4 DEF Draft, KeyedBody
  <2>2. d \in Seq(Plain) /\ k \in Seq(Plain) /\ m \in Seq(Plain) /\ t \in Seq(Plain)
    BY <1>1, <1>2
  <2> HIDE DEF k, m, t, d
  <2>3. ((d \o k) \o m) \o t = d \o ((k \o m) \o t)
    <3>1. (d \o k) \o m = d \o (k \o m)
      <4>1. d \in Seq(Plain) /\ k \in Seq(Plain) /\ m \in Seq(Plain)
        BY <2>2
      <4> QED BY <4>1, ConcatAssociative
    <3> DEFINE r == k \o m
    <3>2. r \in Seq(Plain)
      BY <2>2, ConcatProperties
    <3> HIDE DEF r
    <3>4. d \in Seq(Plain) /\ t \in Seq(Plain)
      BY <2>2
    <3>3. (d \o r) \o t = d \o (r \o t)
      BY <3>4, <3>2, ConcatAssociative
    <3> QED BY <3>1, <3>3 DEF r
  <2>4. q.data = d \o ((k \o m) \o t)
    BY <1>3, <2>3
  <2> QED BY <2>1, <2>4
<1>6. q.offsets = offs \o EntriesOf[w]
  <2>1. EntriesOf[w] = <<e>>
    BY <1>4 DEF EntriesOf
  <2>2. e \in Nat \X Nat
    BY <1>1, <1>2, SizesAssumption
  <2> HIDE DEF e, offs
  <2>3. Append(offs, e) = offs \o <<e>>
    BY <1>1, <2>2, AppendIsConcat
  <2> QED BY <2>1, <2>3, <1>3
<1> HIDE DEF d, offs
<1>7. Logs(d, offs, recs, w.kind, rows) /\ w.at = Len(d)
  BY <1>4 DEF d, offs
<1>8. Logs(d \o Draft(w), offs \o EntriesOf[w], Append(recs, w), w.kind, Append(rows, w.row))
  BY <1>1, <1>4, <1>7, LogGrows
<1> QED BY <1>4, <1>5, <1>6, <1>8

\* So is a bank of another kind.
LEMMA KeyedBankLogged ==
  ASSUME NEW kind \in 1..3, NEW rows \in Seq(GoodKeyed(kind)), NEW p, p = ProcessKeyedBank(kind, KeyWidth(kind), rows)
  PROVE  \E recs : Logs(p.data, p.offsets, recs, kind, rows)
<1> DEFINE n == Len(rows)
           w == KeyWidth(kind)
           upTo(k) == [i \in 1..k |-> rows[i]]
<1>1. n \in Nat /\ rows \in Seq(KeyedRow) /\ (\A k \in 1..n : rows[k] \in GoodKeyed(kind)) /\ w \in Nat \ {0}
  BY KeyWidthIs DEF GoodKeyed
<1>2. PICK F \in [0..n -> ProcessedFile] : F[0] = NoBank /\ (\A k \in 1..n : F[k] = AddKeyed(kind, w, F[k - 1], rows[k])) /\ p = F[n]
  <2>1. kind \in Nat
    OBVIOUS
  <2> HIDE DEF w
  <2>2. \E F \in [0..Len(rows) -> ProcessedFile] :
            /\ F[0] = NoBank /\ \A k \in 1..Len(rows) : F[k] = AddKeyed(kind, w, F[k - 1], rows[k])
            /\ ProcessKeyedBank(kind, w, rows) = F[Len(rows)]
    BY <1>1, <2>1, KeyedBankSteps
  <2> QED BY <2>2 DEF w
<1>3. /\ upTo(0) = <<>> /\ upTo(n) = rows
      /\ \A k \in Nat : k + 1 <= n => upTo(k + 1) = Append(upTo(k), rows[k + 1])
  BY PrefixGrows
<1> HIDE DEF n, upTo, w
<1> DEFINE Good(k) == \E recs : Logs(F[k].data, F[k].offsets, recs, kind, upTo(k))
           T == {k \in Nat : k <= n => Good(k)}
<1>4. 0 \in T
  <2>1. F[0].data = <<>> /\ F[0].offsets = <<>>
    BY <1>2 DEF NoBank
  <2>2. Logs(<<>>, <<>>, <<>>, kind, <<>>)
    BY LogStarts
  <2>3. Good(0)
    BY <2>1, <2>2, <1>3
  <2> QED BY <2>3
<1>5. ASSUME NEW k \in Nat, k \in T PROVE k + 1 \in T
  <2> SUFFICES ASSUME k + 1 <= n PROVE Good(k + 1)
    OBVIOUS
  <2>1. k + 1 \in 1..n /\ (k + 1) - 1 = k /\ k \in 0..n /\ k <= n
    BY <1>1
  <2>2. PICK recs : Logs(F[k].data, F[k].offsets, recs, kind, upTo(k))
    BY <2>1, <1>5
  <2>3. F[k + 1] = AddKeyed(kind, w, F[k], rows[k + 1]) /\ rows[k + 1] \in GoodKeyed(kind) /\ F[k] \in ProcessedFile
    BY <2>1, <1>1, <1>2
  <2> DEFINE x == [kind |-> kind, row |-> rows[k + 1], at |-> Len(F[k].data)]
             new == Append(recs, x)
  <2>4. Logs(F[k + 1].data, F[k + 1].offsets, new, kind, Append(upTo(k), rows[k + 1]))
    BY <2>2, <2>3, AddKeyedLogged DEF w
  <2>5. Append(upTo(k), rows[k + 1]) = upTo(k + 1)
    BY <1>3
  <2> HIDE DEF new
  <2> QED BY <2>4, <2>5
<1> HIDE DEF T
<1>6. n \in T
  BY <1>1, <1>4, <1>5, NatSetInduction
<1>7. Good(n)
  BY <1>1, <1>6 DEF T
<1> QED BY <1>2, <1>3, <1>7

\* Patching a bank completes its records: each has the offset of its glossary.
LEMMA PatchedLocates ==
  ASSUME NEW p \in Fitting, NEW known \in Knowns, NEW f, Stored(f, known),
         \A k \in 1..Len(p.spans) : p.spans[k].glossary \in DOMAIN known,
         NEW recs, NEW rows, Logs(p.data, p.offsets, recs, 0, rows), Holes(p.patches, recs),
         NEW i \in 1..Len(recs), NEW d, d = Patched(p, known), NEW g, g = recs[i].row.glossary
  PROVE  g \in DOMAIN known /\ known[g] \in Nat /\ Located(d, recs[i].at, TermBody(recs[i].row, known[g]))
<1> DEFINE n == Len(recs)
           m == Len(p.data)
           at(j) == recs[j].at
           hole(j) == Len(Keys(recs[j].row)) + 1
           len(j) == Len(Draft(recs[j]))
           here(k) == {j \in DOMAIN p.patches : p.patches[j].pos + 1 = k}
           b == TermBody(recs[i].row, known[g])
           c == Draft(recs[i])
<1>1. /\ recs \in Seq(Recs) /\ n \in Nat
      /\ \A j \in 1..n : recs[j].kind = 0 /\ Located(p.data, at(j), Draft(recs[j]))
      /\ \A j, k \in 1..n : j < k => at(j) + len(j) <= at(k)
  BY DEF Logs
<1>2. p.data \in Seq(Plain) /\ p.patches \in Seq(Patches0) /\ m \in Nat /\ DOMAIN p.data = 1..m
      /\ \A k \in 1..Len(p.patches) : Has(p.spans, p.patches[k].glossary)
  BY DEF Fitting, ProcessedFile
<1>3. /\ DOMAIN p.patches = 1..n
      /\ \A j \in 1..n : p.patches[j].glossary = recs[j].row.glossary /\ p.patches[j].pos = at(j) + Len(Keys(recs[j].row))
  BY <1>2 DEF Holes
<1>4. \A j \in 1..n : /\ recs[j] \in Recs /\ recs[j].row \in TermRow /\ at(j) \in Nat
                      /\ hole(j) \in 1..len(j) /\ len(j) \in Nat /\ Draft(recs[j]) = TermBody(recs[j].row, 0)
                      /\ Len(Keys(recs[j].row)) \in Nat
  <2> SUFFICES ASSUME NEW j \in 1..n
               PROVE  /\ recs[j] \in Recs /\ recs[j].row \in TermRow /\ at(j) \in Nat
                      /\ hole(j) \in 1..len(j) /\ len(j) \in Nat /\ Draft(recs[j]) = TermBody(recs[j].row, 0)
                      /\ Len(Keys(recs[j].row)) \in Nat
    OBVIOUS
  <2>1. recs[j] \in Recs /\ recs[j].kind = 0
    BY <1>1
  <2> DEFINE w == recs[j]
  <2>2. w \in Recs /\ w.kind = 0
    BY <2>1
  <2> HIDE DEF w
  <2>3. w.row \in TermRow /\ w.at \in Nat
    BY <2>2, RecIs
  <2>4. Draft(w) = TermBody(w.row, 0) /\ Len(Draft(w)) \in Nat
    BY <2>2, DraftIs DEF Draft
  <2>5. Len(Keys(w.row)) \in Nat /\ Len(Keys(w.row)) + 1 \in 1..Len(TermBody(w.row, 0))
    BY <2>3, TermBodyIs
  <2> QED BY <2>2, <2>3, <2>4, <2>5 DEF w
<1>5. g \in DOMAIN known /\ known[g] \in Nat
  <2>1. Has(p.spans, g)
    BY <1>2, <1>3
  <2>2. g \in DOMAIN known
    BY <2>1 DEF Has
  <2> QED BY <2>2 DEF Stored
<1>6. /\ Len(b) = len(i) /\ b[hole(i)] = Number(known[g])
      /\ \A x \in 1..len(i) : x # hole(i) => b[x] = c[x]
  <2>1. recs[i].row \in TermRow /\ c = TermBody(recs[i].row, 0)
    BY <1>4
  <2>2. /\ Len(b) = Len(TermBody(recs[i].row, 0)) /\ b[Len(Keys(recs[i].row)) + 1] = Number(known[g])
        /\ \A x \in 1..Len(b) : x # Len(Keys(recs[i].row)) + 1 => b[x] = TermBody(recs[i].row, 0)[x]
    BY <2>1, <1>5, TermBodyIs
  <2> QED BY <2>1, <2>2
<1>7. at(i) + len(i) <= m /\ \A x \in 1..len(i) : p.data[at(i) + x] = c[x]
  BY <1>1 DEF Located
<1>8. Len(d) = m
  BY PatchedIs
<1>9. \A k \in 1..m : d[k] = IF here(k) = {} THEN p.data[k] ELSE Number(known[p.patches[CHOOSE j \in here(k) : TRUE].glossary])
  BY <1>2 DEF Patched
<1> HIDE DEF b, c, n, m
<1>10. ASSUME NEW x \in 1..len(i) PROVE d[at(i) + x] = b[x]
  <2> DEFINE k == at(i) + x
  <2>1. k \in 1..m /\ i \in 1..n
    BY <1>4, <1>7, <1>2, SMTT(30) DEF n, m
  <2>2. ASSUME NEW j \in here(k) PROVE j = i /\ x = hole(i)
    <3>1. j \in 1..n /\ at(j) + hole(j) = at(i) + x
      <4>1. j \in 1..n /\ p.patches[j].pos + 1 = at(i) + x
        BY <1>3
      <4>2. p.patches[j].pos = at(j) + Len(Keys(recs[j].row)) /\ at(j) \in Nat /\ Len(Keys(recs[j].row)) \in Nat
        BY <4>1, <1>3, <1>4
      <4> QED BY <4>1, <4>2
    <3>2. at(j) \in Nat /\ at(i) \in Nat /\ hole(j) \in 1..len(j) /\ len(j) \in Nat /\ len(i) \in Nat /\ hole(i) \in 1..len(i)
      BY <3>1, <2>1, <1>4
    <3>3. ~(j < i)
      <4> SUFFICES ASSUME j < i PROVE FALSE
        OBVIOUS
      <4>1. at(j) + len(j) <= at(i)
        BY <3>1, <2>1, <1>1 DEF n
      <4> HIDE DEF at, hole, len
      <4> QED BY <3>1, <3>2, <4>1
    <3>4. ~(i < j)
      <4> SUFFICES ASSUME i < j PROVE FALSE
        OBVIOUS
      <4>1. at(i) + len(i) <= at(j)
        BY <3>1, <2>1, <1>1 DEF n
      <4> HIDE DEF at, hole, len
      <4> QED BY <3>1, <3>2, <4>1
    <3>5. j = i
      BY <3>1, <3>3, <3>4, <1>1 DEF n
    <3> HIDE DEF at, hole, len
    <3> QED BY <3>1, <3>2, <3>5
  <2>3. CASE x = hole(i)
    <3>1. i \in here(k)
      <4>1. p.patches[i].pos = at(i) + Len(Keys(recs[i].row)) /\ at(i) \in Nat /\ Len(Keys(recs[i].row)) \in Nat /\ i \in DOMAIN p.patches
        BY <2>1, <1>3, <1>4
      <4> QED BY <4>1, <2>3
    <3>2. (CHOOSE j \in here(k) : TRUE) = i
      BY <3>1, <2>2
    <3>3. p.patches[i].glossary = g
      BY <2>1, <1>3
    <3> HIDE DEF here, k
    <3>4. d[k] = Number(known[g])
      BY <2>1, <3>1, <3>2, <3>3, <1>9
    <3> QED BY <3>4, <2>3, <1>6 DEF k
  <2>4. CASE x # hole(i)
    <3>1. here(k) = {}
      BY <2>2, <2>4
    <3> HIDE DEF here
    <3>2. d[k] = p.data[k]
      BY <2>1, <3>1, <1>9
    <3> QED BY <3>2, <2>4, <1>6, <1>7
  <2> QED BY <2>3, <2>4
<1>11. Located(d, at(i), b)
  BY <1>6, <1>7, <1>8, <1>10 DEF Located, m
<1> QED BY <1>5, <1>11 DEF b

\* A record in the file: a term's is followed to where its glossary is.
Holds(f, w) ==
  IF w.kind = 0
  THEN \E o \in Nat : Located(f, w.at, TermBody(w.row, o)) /\ Located(f, o, Pieces(w.row.glossary))
  ELSE Located(f, w.at, KeyedBody(w.kind, w.row))

\* A record in a file stays there when the file grows.
LEMMA HoldsMore ==
  ASSUME NEW f \in Seq(Cells), NEW e \in Seq(Cells), NEW w \in Recs, Holds(f, w)
  PROVE  Holds(f \o e, w)
<1>1. w.at \in Nat
  BY RecIs
<1>2. CASE w.kind = 0
  <2>1. w.row \in TermRow
    BY <1>2, RecIs
  <2>2. PICK o \in Nat : Located(f, w.at, TermBody(w.row, o)) /\ Located(f, o, Pieces(w.row.glossary))
    BY <1>2 DEF Holds
  <2> DEFINE b == TermBody(w.row, o)
             g == Pieces(w.row.glossary)
             at == w.at
  <2>3. b \in Seq(Cells) /\ g \in Seq(Cells)
    <3>1. b \in Seq(Plain)
      BY <2>1, TermBodyIs
    <3>2. w.row.glossary \in Glossaries
      BY <2>1 DEF TermRow
    <3>3. g \in Seq(GlossaryCells)
      BY <3>2, PiecesAre
    <3> HIDE DEF b, g
    <3> QED BY <3>1, <3>3 DEF Cells
  <2>4. at \in Nat /\ Located(f, at, b) /\ Located(f, o, g)
    BY <1>1, <2>2
  <2> HIDE DEF b, g, at
  <2>5. Located(f \o e, at, b)
    BY <2>3, <2>4, LocatedMore
  <2>6. Located(f \o e, o, g)
    BY <2>3, <2>4, LocatedMore
  <2> QED BY <1>2, <2>5, <2>6 DEF Holds, b, g, at
<1>3. CASE w.kind # 0
  <2> DEFINE b == KeyedBody(w.kind, w.row)
             at == w.at
  <2>1. w.row \in KeyedRow /\ w.kind \in 1..3
    BY <1>3, RecIs
  <2>2. b \in Seq(Plain)
    BY <2>1, KeyedBodyIs
  <2>3. at \in Nat /\ Located(f, at, b)
    BY <1>1, <1>3 DEF Holds
  <2> HIDE DEF b, at
  <2>4. b \in Seq(Cells)
    BY <2>2 DEF Cells
  <2>5. Located(f \o e, at, b)
    BY <2>3, <2>4, LocatedMore
  <2> QED BY <1>3, <2>5 DEF Holds, b, at
<1> QED BY <1>2, <1>3

-----------------------------------------------------------------------------
(* The records of a bank where the bank lands.                             *)

Shifted(recs, base) == [i \in 1..Len(recs) |-> [kind |-> recs[i].kind, row |-> recs[i].row, at |-> recs[i].at + base]]

\* A record moved is a record.
LEMMA RecShifted ==
  ASSUME NEW w \in Recs, NEW base \in Nat
  PROVE  [kind |-> w.kind, row |-> w.row, at |-> w.at + base] \in Recs
<1>1. w.kind \in 0..3 /\ w.at + base \in Nat /\ w.row \in AnyRow /\ w.row \in GoodRow(w.kind)
  BY RecIs DEF Recs
<1> QED BY <1>1, RecMade

\* Rebased moves the offsets of all records alike, and no row changes.
LEMMA ShiftedIs ==
  ASSUME NEW recs \in Seq(Recs), NEW base \in Nat, NEW p, p.offsets = FlatMap(EntriesOf, recs)
  PROVE  /\ Shifted(recs, base) \in Seq(Recs) /\ Len(Shifted(recs, base)) = Len(recs)
         /\ Rebased(p, base) = FlatMap(EntriesOf, Shifted(recs, base))
         /\ \A k : FlatMap(RowsOf(k), Shifted(recs, base)) = FlatMap(RowsOf(k), recs)
<1> DEFINE new(w) == [kind |-> w.kind, row |-> w.row, at |-> w.at + base]
           g == [w \in Recs |-> new(w)]
           S == [w \in Recs |-> <<new(w)>>]
           V == Shifted(recs, base)
           P == Nat \X Nat
           r(x) == <<x[1], x[2] + base>>
           rg == [x \in P |-> r(x)]
           R == [x \in P |-> <<r(x)>>]
           H == [w \in Recs |-> EntriesOf[new(w)]]
           offs == FlatMap(EntriesOf, recs)
<1>1. \A w \in Recs : new(w) \in Recs
  BY RecShifted
<1>2. V \in Seq(Recs) /\ Len(V) = Len(recs)
  <2>1. \A i \in 1..Len(recs) : new(recs[i]) \in Recs
    BY <1>1
  <2>2. V = [i \in 1..Len(recs) |-> new(recs[i])] /\ Len(recs) \in Nat
    BY DEF Shifted
  <2> HIDE DEF new, V
  <2> QED BY <2>1, <2>2
<1>3. FlatMap(S, recs) = V
  <2>1. V = [i \in 1..Len(recs) |-> g[recs[i]]]
    <3>1. \A i \in 1..Len(recs) : recs[i] \in Recs
      OBVIOUS
    <3> QED BY <3>1 DEF Shifted
  <2>2. g \in [Recs -> Recs] /\ S \in Maps(Recs, Recs) /\ \A w \in Recs : S[w] = <<g[w]>>
    <3>1. \A w \in Recs : <<new(w)>> \in Seq(Recs)
      BY <1>1
    <3> QED BY <1>1, <3>1 DEF Maps
  <2> HIDE DEF g, S, V
  <2>3. FlatMap(S, recs) = [i \in 1..Len(recs) |-> g[recs[i]]]
    BY <2>2, FlatMapOnes
  <2> QED BY <2>1, <2>3
<1>4. S \in Maps(Recs, Recs) /\ \A w \in Recs : S[w] = <<new(w)>>
  <2>1. \A w \in Recs : <<new(w)>> \in Seq(Recs)
    BY <1>1
  <2> QED BY <2>1 DEF Maps
<1>5. offs \in Seq(P) /\ EntriesOf \in Maps(Recs, P)
  BY EntriesTyped, FlatMapIs
<1>6. FlatMap(R, offs) = Rebased(p, base)
  <2>1. rg \in [P -> P] /\ R \in Maps(P, P) /\ \A x \in P : R[x] = <<rg[x]>>
    <3>1. \A x \in P : r(x) \in P
      OBVIOUS
    <3> HIDE DEF P, r
    <3> QED BY <3>1 DEF Maps
  <2>2. Rebased(p, base) = [i \in 1..Len(offs) |-> rg[offs[i]]]
    <3>1. p.offsets = offs
      OBVIOUS
    <3> HIDE DEF offs
    <3>2. DOMAIN offs = 1..Len(offs) /\ \A i \in 1..Len(offs) : offs[i] \in P
      BY <1>5
    <3>3. Rebased(p, base) = [i \in 1..Len(offs) |-> r(offs[i])]
      BY <3>1, <3>2 DEF Rebased
    <3>4. \A i \in 1..Len(offs) : r(offs[i]) = rg[offs[i]]
      BY <3>2
    <3> HIDE DEF r, rg
    <3> QED BY <3>3, <3>4
  <2> HIDE DEF rg, R, offs, P
  <2>3. FlatMap(R, offs) = [i \in 1..Len(offs) |-> rg[offs[i]]]
    BY <2>1, <1>5, FlatMapOnes
  <2> QED BY <2>2, <2>3
<1>7. R \in Maps(P, P) /\ \A x \in P : R[x] = <<r(x)>>
  <2>1. \A x \in P : r(x) \in P
    OBVIOUS
  <2> HIDE DEF P, r
  <2> QED BY <2>1 DEF Maps
<1>8. H \in Maps(Recs, P) /\ \A w \in Recs : H[w] = EntriesOf[new(w)]
  <2>1. \A w \in Recs : EntriesOf[new(w)] \in Seq(P)
    BY <1>1, EntriesTyped DEF Maps
  <2> HIDE DEF P, new
  <2> QED BY <2>1 DEF Maps
\* an entry of the shifted record is the entry of the record, rebased
<1>9. ASSUME NEW w \in Recs PROVE H[w] = FlatMap(R, EntriesOf[w])
  <2> DEFINE e == EntriesOf[w]
             h == EntriesOf[new(w)]
  <2>1. e \in Seq(P) /\ h \in Seq(P)
    BY <1>1, EntriesTyped DEF Maps
  <2>2. rg \in [P -> P] /\ \A x \in P : R[x] = <<rg[x]>> /\ rg[x] = r(x)
    <3>1. \A x \in P : r(x) \in P
      OBVIOUS
    <3> HIDE DEF P, r
    <3> QED BY <3>1
  <2>3. Len(h) = Len(e) /\ \A i \in 1..Len(e) : h[i] = r(e[i])
    <3>1. CASE w.kind = 0
      <4> DEFINE ks == KeysOf(w.row)
      <4>1. Len(ks) \in Nat
        BY <3>1, RecIs, KeysAre
      <4>2. e = [k \in 1..Len(ks) |-> <<HashOf[ks[k]], w.at>>]
        BY <3>1 DEF EntriesOf
      <4>3. h = [k \in 1..Len(ks) |-> <<HashOf[ks[k]], w.at + base>>]
        BY <3>1, <1>1 DEF EntriesOf
      <4> HIDE DEF ks, e, h
      <4>4. Len(e) = Len(ks) /\ Len(h) = Len(ks)
        BY <4>1, <4>2, <4>3, <2>1
      <4> QED BY <4>2, <4>3, <4>4
    <3>2. CASE w.kind # 0
      <4>1. e = <<<<HashOf[w.row.expr], w.at>>>>
        BY <3>2 DEF EntriesOf
      <4>2. h = <<<<HashOf[w.row.expr], w.at + base>>>>
        BY <3>2, <1>1 DEF EntriesOf
      <4> HIDE DEF e, h
      <4> QED BY <4>1, <4>2
    <3> QED BY <3>1, <3>2
  <2> HIDE DEF e, h, rg, R, P, r
  <2>4. R \in Maps(P, P)
    BY <1>7
  <2>5. FlatMap(R, e) = [i \in 1..Len(e) |-> rg[e[i]]]
    BY <2>1, <2>2, <2>4, FlatMapOnes
  <2>6. \A i \in 1..Len(e) : rg[e[i]] = h[i] /\ rg[e[i]] \in P
    BY <2>1, <2>2, <2>3
  <2>7. h = [i \in 1..Len(e) |-> rg[e[i]]]
    BY <2>1, <2>3, <2>6
  <2> QED BY <2>5, <2>7, <1>8 DEF e, h
<1> HIDE DEF g, S, rg, R, H, offs, P, r
<1>10. FlatMap(R, offs) = FlatMap(H, recs)
  <2>1. \A i \in 1..Len(recs) : H[recs[i]] = FlatMap(R, EntriesOf[recs[i]])
    BY <1>9
  <2>2. FlatMap(R, FlatMap(EntriesOf, recs)) = FlatMap(H, recs)
    BY <2>1, <1>5, <1>7, <1>8, FlatMapTwice
  <2> QED BY <2>2 DEF offs
<1>11. FlatMap(EntriesOf, V) = FlatMap(H, recs)
  <2>1. \A i \in 1..Len(recs) : H[recs[i]] = FlatMap(EntriesOf, S[recs[i]])
    <3> SUFFICES ASSUME NEW i \in 1..Len(recs) PROVE H[recs[i]] = FlatMap(EntriesOf, S[recs[i]])
      OBVIOUS
    <3> DEFINE w == recs[i]
               v == new(w)
    <3>1. w \in Recs /\ v \in Recs
      BY <1>1
    <3>2. H[w] = EntriesOf[v] /\ S[w] = <<v>>
      BY <3>1, <1>4, <1>8
    <3> HIDE DEF w, v
    <3>3. FlatMap(EntriesOf, <<v>>) = EntriesOf[v]
      BY <3>1, <1>5, FlatMapSingle
    <3> QED BY <3>2, <3>3 DEF w
  <2>2. FlatMap(EntriesOf, FlatMap(S, recs)) = FlatMap(H, recs)
    BY <2>1, <1>4, <1>5, <1>8, FlatMapTwice
  <2> QED BY <2>2, <1>3
<1>12. \A k : FlatMap(RowsOf(k), V) = FlatMap(RowsOf(k), recs)
  <2> SUFFICES ASSUME NEW k PROVE FlatMap(RowsOf(k), V) = FlatMap(RowsOf(k), recs)
    OBVIOUS
  <2> DEFINE F == RowsOf(k)
  <2>1. F \in Maps(Recs, AnyRow)
    BY RowsTyped
  <2>2. \A w \in Recs : F[new(w)] = F[w]
    BY <1>1 DEF RowsOf
  <2> HIDE DEF F
  <2>3. \A i \in 1..Len(recs) : F[recs[i]] = FlatMap(F, S[recs[i]])
    <3> SUFFICES ASSUME NEW i \in 1..Len(recs) PROVE F[recs[i]] = FlatMap(F, S[recs[i]])
      OBVIOUS
    <3> DEFINE w == recs[i]
               v == new(w)
    <3>1. w \in Recs /\ v \in Recs
      BY <1>1
    <3>2. F[w] = F[v] /\ S[w] = <<v>>
      BY <3>1, <2>2, <1>4
    <3> HIDE DEF w, v
    <3>3. FlatMap(F, <<v>>) = F[v]
      BY <3>1, <2>1, FlatMapSingle
    <3> QED BY <3>2, <3>3 DEF w
  <2>4. FlatMap(F, FlatMap(S, recs)) = FlatMap(F, recs)
    BY <2>3, <2>1, <1>4, FlatMapTwice
  <2> QED BY <2>4, <1>3 DEF F
<1> QED BY <1>2, <1>6, <1>10, <1>11, <1>12

\* The four kinds of record, by their type: terms, term metadata, kanji and
\* kanji metadata; and the kind that a phase of the import writes.
Banks(s, kind) ==
  IF kind = 0 THEN s.terms ELSE IF kind = 1 THEN s.meta ELSE IF kind = 2 THEN s.kanji ELSE s.kanjiMeta
KindOf(p) ==
  IF p = "terms" THEN 0 ELSE IF p = "meta" THEN 1 ELSE IF p = "kanji" THEN 2 ELSE IF p = "kanjiMeta" THEN 3 ELSE 4
\* how many banks of a kind are written, and their rows
Done(s, now, b, kind) == IF kind < now THEN Len(Banks(s, kind)) ELSE IF kind = now THEN b - 1 ELSE 0
Written(s, kind, n) == FlattenSeq([b \in 1..n |-> Banks(s, kind)[b]])

\* The banks of a kind, and their rows.
LEMMA BanksAre ==
  ASSUME NEW s \in Sources, NEW kind \in 0..3
  PROVE  /\ Banks(s, kind) \in Seq(Seq(AnyRow)) /\ Len(Banks(s, kind)) \in Nat
         /\ kind = 0 => Banks(s, kind) \in Seq(Seq(TermRow))
         /\ kind # 0 => Banks(s, kind) \in Seq(Seq(KeyedRow))
<1>1. /\ s.terms \in Seq(Seq(TermRow)) /\ s.meta \in Seq(Seq(KeyedRow))
      /\ s.kanji \in Seq(Seq(KeyedRow)) /\ s.kanjiMeta \in Seq(Seq(KeyedRow))
  BY SourcesAssumption
<1>2. ASSUME NEW R, R \subseteq AnyRow, NEW bs \in Seq(Seq(R)) PROVE bs \in Seq(Seq(AnyRow))
  <2> HIDE DEF AnyRow
  <2>1. \A b \in 1..Len(bs) : bs[b] \in Seq(R)
    OBVIOUS
  <2>2. \A r \in Seq(R) : r \in Seq(AnyRow)
    BY <1>2
  <2>3. Len(bs) \in Nat /\ bs = [b \in 1..Len(bs) |-> bs[b]] /\ \A b \in 1..Len(bs) : bs[b] \in Seq(AnyRow)
    BY <2>1, <2>2
  <2> QED BY <2>3, SMTT(30)
<1>3. TermRow \subseteq AnyRow /\ KeyedRow \subseteq AnyRow
  BY DEF AnyRow
<1> HIDE DEF AnyRow
<1>4. CASE kind = 0
  <2>1. Banks(s, kind) = s.terms
    BY <1>4 DEF Banks
  <2>2. s.terms \in Seq(Seq(AnyRow))
    BY <1>1, <1>2, <1>3
  <2> QED BY <1>1, <1>4, <2>1, <2>2
<1>5. CASE kind # 0
  <2>1. Banks(s, kind) \in Seq(Seq(KeyedRow))
    BY <1>1, <1>5 DEF Banks
  <2> DEFINE bs == Banks(s, kind)
  <2> HIDE DEF bs
  <2>2. bs \in Seq(Seq(AnyRow))
    BY <2>1, <1>2, <1>3 DEF bs
  <2> QED BY <2>1, <2>2, <1>5 DEF bs
<1> QED BY <1>4, <1>5

\* The rows of each bank of a kind fit.
LEMMA BankGood ==
  ASSUME LengthsFit, NEW s \in Sources, s = source, NEW kind \in 0..3, NEW b \in 1..Len(Banks(s, kind))
  PROVE  Banks(s, kind)[b] \in Seq(GoodRow(kind))
<1> DEFINE rows == Banks(s, kind)[b]
<1>1. \A i \in 1..Len(rows) : IF kind = 0 THEN FitsTerm(rows[i]) ELSE FitsKeyed(rows[i], KeyWidth(kind))
  <2>1. \A b0 \in DOMAIN s.terms : \A i \in DOMAIN s.terms[b0] : FitsTerm(s.terms[b0][i])
    BY DEF LengthsFit
  <2>2. FitKeyed(s.meta, Width.key) /\ FitKeyed(s.kanji, Width.tag) /\ FitKeyed(s.kanjiMeta, Width.key)
    BY DEF LengthsFit
  <2>3. Banks(s, kind) \in Seq(Seq(AnyRow)) /\ rows \in Seq(AnyRow)
    BY BanksAre
  <2>4. DOMAIN Banks(s, kind) = 1..Len(Banks(s, kind)) /\ DOMAIN rows = 1..Len(rows)
    <3> HIDE DEF rows
    <3> QED BY <2>3
  <2>5. CASE kind = 0
    BY <2>1, <2>4, <2>5 DEF Banks
  <2>6. CASE kind # 0
    <3>1. FitKeyed(Banks(s, kind), KeyWidth(kind))
      BY <2>2, <2>6 DEF Banks, KeyWidth
    <3> QED BY <2>4, <2>6, <3>1 DEF FitKeyed
  <2> QED BY <2>5, <2>6
<1>2. CASE kind = 0
  <2>1. rows \in Seq(TermRow) /\ rows = s.terms[b] /\ b \in DOMAIN s.terms
    BY <1>2, BanksAre DEF Banks
  <2>2. \A i \in DOMAIN s.terms[b] : s.terms[b][i].reading \in {Empty, s.terms[b][i].expr}
                                     \/ HashOf[s.terms[b][i].reading] # HashOf[s.terms[b][i].expr]
    BY <2>1, RowHashAssumption
  <2> HIDE DEF rows
  <2>3. \A i \in 1..Len(rows) : rows[i] \in TermRow
    BY <2>1
  <2>4. \A i \in 1..Len(rows) : rows[i] \in GoodTerm
    BY <2>1, <2>2, <2>3, <1>1, <1>2 DEF GoodTerm
  <2>5. rows \in Seq(GoodTerm)
    BY <2>1, <2>4
  <2> QED BY <2>5, <1>2 DEF GoodRow, rows
<1>3. CASE kind # 0
  <2>1. rows \in Seq(KeyedRow)
    BY <1>3, BanksAre
  <2> HIDE DEF rows
  <2>3. \A i \in 1..Len(rows) : rows[i] \in KeyedRow
    BY <2>1
  <2>4. \A i \in 1..Len(rows) : rows[i] \in GoodKeyed(kind)
    BY <2>3, <1>1, <1>3 DEF GoodKeyed
  <2>5. rows \in Seq(GoodKeyed(kind))
    BY <2>1, <2>4
  <2> QED BY <2>5, <1>3 DEF GoodRow, rows
<1> QED BY <1>2, <1>3

\* The rows of no bank, of all banks, and of one more.
LEMMA WrittenIs ==
  ASSUME NEW s \in Sources, NEW kind \in 0..3
  PROVE  /\ Written(s, kind, 0) = <<>> /\ Written(s, kind, Len(Banks(s, kind))) = FlattenSeq(Banks(s, kind))
         /\ \A n \in Nat : n + 1 <= Len(Banks(s, kind)) =>
               Written(s, kind, n + 1) = Written(s, kind, n) \o Banks(s, kind)[n + 1]
<1> DEFINE bs == Banks(s, kind)
<1>1. bs \in Seq(Seq(AnyRow))
  BY BanksAre
<1> HIDE DEF bs, AnyRow
<1>2. /\ [i \in 1..0 |-> bs[i]] = <<>> /\ [i \in 1..Len(bs) |-> bs[i]] = bs
      /\ \A k \in Nat : k + 1 <= Len(bs) => /\ [i \in 1..k |-> bs[i]] \in Seq(Seq(AnyRow)) /\ bs[k + 1] \in Seq(AnyRow)
                                            /\ [i \in 1..k + 1 |-> bs[i]] = Append([i \in 1..k |-> bs[i]], bs[k + 1])
  BY <1>1, PrefixGrows
<1>3. Written(s, kind, 0) = <<>>
  BY <1>2, FlattenEmpty DEF Written, bs
<1>4. Written(s, kind, Len(bs)) = FlattenSeq(bs)
  BY <1>2 DEF Written, bs
<1>5. ASSUME NEW n \in Nat, n + 1 <= Len(bs)
      PROVE  Written(s, kind, n + 1) = Written(s, kind, n) \o bs[n + 1]
  <2> DEFINE r == [i \in 1..n |-> bs[i]]
             t == bs[n + 1]
  <2>1. r \in Seq(Seq(AnyRow)) /\ t \in Seq(AnyRow) /\ [i \in 1..n + 1 |-> bs[i]] = Append(r, t)
    BY <1>2, <1>5
  <2>2. Written(s, kind, n) = FlattenSeq(r) /\ Written(s, kind, n + 1) = FlattenSeq(Append(r, t))
    BY <2>1 DEF Written, bs
  <2> HIDE DEF r, t
  <2>3. FlattenSeq(Append(r, t)) = FlattenSeq(r) \o t
    BY <2>1, FlattenAppend
  <2> QED BY <2>2, <2>3 DEF t
<1> QED BY <1>3, <1>4, <1>5 DEF bs

-----------------------------------------------------------------------------
(* What the file and the offsets hold of the records written so far.       *)

Logged(f, offs, W) ==
  /\ W \in Seq(Recs) /\ offs = FlatMap(EntriesOf, W)
  /\ \A i \in 1..Len(W) : Holds(f, W[i]) /\ W[i].at < Len(f)
  /\ \A i, j \in 1..Len(W) : i < j => W[i].at <= W[j].at

\* An empty file logs no record.
LEMMA LoggedStarts == Logged(<<>>, <<>>, <<>>) /\ \A k : FlatMap(RowsOf(k), <<>>) = <<>>
<1> DEFINE z == <<>>
<1>1. z \in Seq(Recs) /\ 1..0 = {} /\ Len(z) = 0
  OBVIOUS
<1>2. FlatMap(EntriesOf, <<>>) = <<>>
  BY <1>1, EntriesTyped, FlatMapIs
<1>3. \A k : FlatMap(RowsOf(k), <<>>) = <<>>
  BY <1>1, RowsTyped, FlatMapIs
<1>4. FlatMap(EntriesOf, z) = z
  BY <1>2
<1> HIDE DEF z
<1>5. Logged(z, z, z)
  BY <1>1, <1>4 DEF Logged
<1> QED BY <1>3, <1>5 DEF z

\* records that are in e behind f, in their order
Behind(f, e, V) ==
  /\ \A i \in 1..Len(V) : Holds(f \o e, V[i]) /\ Len(f) <= V[i].at /\ V[i].at < Len(f \o e)
  /\ \A i, j \in 1..Len(V) : i < j => V[i].at <= V[j].at

\* Records behind the others are logged in a file that grows.
LEMMA LoggedGrows ==
  ASSUME NEW f \in Seq(Cells), NEW e \in Seq(Cells), NEW offs, NEW W, Logged(f, offs, W), NEW V \in Seq(Recs),
         Behind(f, e, V)
  PROVE  /\ Logged(f \o e, offs \o FlatMap(EntriesOf, V), W \o V)
         /\ \A k : FlatMap(RowsOf(k), W \o V) = FlatMap(RowsOf(k), W) \o FlatMap(RowsOf(k), V)
<1> DEFINE g == f \o e
           U == W \o V
           m == Len(W)
           n == Len(V)
<1>0. /\ \A i \in 1..Len(V) : Holds(f \o e, V[i]) /\ Len(f) <= V[i].at /\ V[i].at < Len(f \o e)
      /\ \A i, j \in 1..Len(V) : i < j => V[i].at <= V[j].at
  BY DEF Behind
<1>1. /\ W \in Seq(Recs) /\ offs = FlatMap(EntriesOf, W)
      /\ \A i \in 1..m : Holds(f, W[i]) /\ W[i].at < Len(f)
      /\ \A i, j \in 1..m : i < j => W[i].at <= W[j].at
  BY DEF Logged
<1>2. /\ U \in Seq(Recs) /\ m \in Nat /\ n \in Nat /\ Len(U) = m + n
      /\ \A i \in 1..m : U[i] = W[i]
      /\ \A i \in 1..n : U[m + i] = V[i]
  BY <1>1, ConcatIs
<1>3. Len(f) \in Nat /\ Len(e) \in Nat /\ Len(g) = Len(f) + Len(e)
  BY ConcatIs
<1>4. FlatMap(EntriesOf, U) = offs \o FlatMap(EntriesOf, V)
  <2>1. EntriesOf \in Maps(Recs, Nat \X Nat) /\ W \in Seq(Recs)
    BY <1>1, EntriesTyped
  <2>2. FlatMap(EntriesOf, W \o V) = FlatMap(EntriesOf, W) \o FlatMap(EntriesOf, V)
    BY <2>1, FlatMapConcat
  <2> QED BY <2>2, <1>1
<1>5. \A k : FlatMap(RowsOf(k), U) = FlatMap(RowsOf(k), W) \o FlatMap(RowsOf(k), V)
  <2> SUFFICES ASSUME NEW k PROVE FlatMap(RowsOf(k), W \o V) = FlatMap(RowsOf(k), W) \o FlatMap(RowsOf(k), V)
    OBVIOUS
  <2>1. RowsOf(k) \in Maps(Recs, AnyRow) /\ W \in Seq(Recs)
    BY <1>1, RowsTyped
  <2> QED BY <2>1, FlatMapConcat
<1>6. ASSUME NEW i \in 1..m PROVE W[i] \in Recs /\ W[i].at \in Nat /\ Holds(g, W[i]) /\ W[i].at < Len(f)
  <2>1. W[i] \in Recs /\ Holds(f, W[i]) /\ W[i].at < Len(f)
    BY <1>1
  <2>2. W[i].at \in Nat
    BY <2>1, RecIs
  <2>3. Holds(f \o e, W[i])
    BY <2>1, HoldsMore
  <2> QED BY <2>1, <2>2, <2>3
<1>7. \A i \in 1..n : V[i].at \in Nat /\ Holds(g, V[i]) /\ Len(f) <= V[i].at /\ V[i].at < Len(g)
  <2>1. \A i \in 1..n : V[i] \in Recs
    OBVIOUS
  <2> QED BY <2>1, <1>0, RecIs
<1> HIDE DEF g, U, m, n
<1>8. \A i \in 1..Len(U) : i \in 1..m \/ (i - m \in 1..n /\ i = m + (i - m))
  BY <1>2
<1>9. \A i \in 1..Len(U) : Holds(g, U[i]) /\ U[i].at < Len(g)
  <2> SUFFICES ASSUME NEW i \in 1..Len(U) PROVE Holds(g, U[i]) /\ U[i].at < Len(g)
    OBVIOUS
  <2>1. CASE i \in 1..m
    BY <2>1, <1>2, <1>3, <1>6, SMTT(30)
  <2>2. CASE i - m \in 1..n /\ i = m + (i - m)
    <3>1. U[i] = V[i - m]
      BY <2>2, <1>2
    <3> QED BY <3>1, <2>2, <1>7
  <2> QED BY <2>1, <2>2, <1>8
<1>10. \A i, j \in 1..Len(U) : i < j => U[i].at <= U[j].at
  <2> SUFFICES ASSUME NEW i \in 1..Len(U), NEW j \in 1..Len(U), i < j PROVE U[i].at <= U[j].at
    OBVIOUS
  <2>1. CASE j \in 1..m
    <3>1. i \in 1..m
      BY <2>1, <1>2
    <3>2. W[i].at <= W[j].at
      BY <2>1, <3>1, <1>1 DEF m
    <3> QED BY <3>1, <3>2, <2>1, <1>2
  <2>2. CASE j - m \in 1..n /\ j = m + (j - m)
    <3> DEFINE y == j - m
    <3>1. U[j] = V[y] /\ y \in 1..n /\ V[y].at \in Nat /\ Len(f) <= V[y].at
      BY <2>2, <1>2, <1>7
    <3>2. CASE i \in 1..m
      BY <3>1, <3>2, <1>2, <1>3, <1>6, SMTT(30)
    <3>3. CASE i - m \in 1..n /\ i = m + (i - m)
      <4> DEFINE x == i - m
      <4>1. x \in 1..n /\ U[i] = V[x] /\ x < y
        BY <3>3, <1>2
      <4> HIDE DEF x, y
      <4>2. V[x].at <= V[y].at
        BY <4>1, <3>1, <1>0 DEF n
      <4> QED BY <4>1, <4>2, <3>1
    <3> QED BY <3>2, <3>3, <1>8
  <2> QED BY <2>1, <2>2, <1>8
<1> QED BY <1>2, <1>4, <1>5, <1>9, <1>10 DEF Logged, g, U

\* The records of one bank of a kind, as they land behind what the file holds.
Lands(f, e, kind, rows, more, V) ==
  /\ V \in Seq(Recs) /\ more = FlatMap(EntriesOf, V)
  /\ FlatMap(RowsOf(kind), V) = rows /\ \A k \in 0..3 : k # kind => FlatMap(RowsOf(k), V) = <<>>
  /\ \A i \in 1..Len(V) : Holds(f \o e, V[i]) /\ Len(f) <= V[i].at /\ V[i].at < Len(f \o e)
  /\ \A i, j \in 1..Len(V) : i < j => V[i].at <= V[j].at

\* It is enough to find each record in the bank itself.
LEMMA LandsWhole ==
  ASSUME NEW f \in Seq(Cells), NEW d \in Seq(Plain), NEW kind \in 0..3, NEW rows, NEW p, NEW recs,
         Logs(p.data, p.offsets, recs, kind, rows), Len(d) = Len(p.data), NEW V, V = Shifted(recs, Len(f)),
         \A i \in 1..Len(recs) : Holds(f \o d, V[i])
  PROVE  Lands(f, d, kind, rows, Rebased(p, Len(f)), V)
<1> DEFINE n == Len(recs)
           base == Len(f)
<1>1. /\ recs \in Seq(Recs) /\ p.offsets = FlatMap(EntriesOf, recs)
      /\ FlatMap(RowsOf(kind), recs) = rows /\ \A k \in 0..3 : k # kind => FlatMap(RowsOf(k), recs) = <<>>
      /\ \A i \in 1..n : recs[i].kind = kind /\ Located(p.data, recs[i].at, Draft(recs[i]))
      /\ \A i, j \in 1..n : i < j => recs[i].at + Len(Draft(recs[i])) <= recs[j].at
  BY DEF Logs
<1>2. base \in Nat /\ Len(d) \in Nat /\ Len(f \o d) = base + Len(d)
  <2>1. d \in Seq(Cells)
    BY DEF Cells
  <2> QED BY <2>1, ConcatIs
<1>3. /\ Shifted(recs, base) \in Seq(Recs) /\ Len(Shifted(recs, base)) = Len(recs)
      /\ Rebased(p, base) = FlatMap(EntriesOf, Shifted(recs, base))
      /\ \A k : FlatMap(RowsOf(k), Shifted(recs, base)) = FlatMap(RowsOf(k), recs)
  BY <1>1, <1>2, ShiftedIs
<1>4. \A i \in 1..n : V[i].at = recs[i].at + base
  BY DEF Shifted
<1> HIDE DEF base
<1>5. V \in Seq(Recs) /\ Len(V) = n /\ Rebased(p, base) = FlatMap(EntriesOf, V)
      /\ \A k : FlatMap(RowsOf(k), V) = FlatMap(RowsOf(k), recs)
  BY <1>3 DEF base
<1> HIDE DEF n
<1>6. \A i \in 1..n : /\ recs[i] \in Recs /\ recs[i].at \in Nat /\ Len(Draft(recs[i])) \in Nat /\ Len(Draft(recs[i])) > 0
                      /\ recs[i].at + Len(Draft(recs[i])) <= Len(d)
  <2> SUFFICES ASSUME NEW i \in 1..n
               PROVE  /\ recs[i] \in Recs /\ recs[i].at \in Nat /\ Len(Draft(recs[i])) \in Nat /\ Len(Draft(recs[i])) > 0
                      /\ recs[i].at + Len(Draft(recs[i])) <= Len(d)
    OBVIOUS
  <2>1. recs[i] \in Recs
    BY <1>1 DEF n
  <2>2. recs[i].at \in Nat /\ Len(Draft(recs[i])) \in Nat /\ Len(Draft(recs[i])) > 0
    BY <2>1, RecIs, DraftIs
  <2>3. recs[i].at + Len(Draft(recs[i])) <= Len(p.data)
    BY <1>1 DEF Located
  <2> QED BY <2>1, <2>2, <2>3
<1>7. \A i \in 1..n : base <= V[i].at /\ V[i].at < Len(f \o d)
  <2> SUFFICES ASSUME NEW i \in 1..n PROVE base <= V[i].at /\ V[i].at < Len(f \o d)
    OBVIOUS
  <2> DEFINE x == recs[i].at
             y == Len(Draft(recs[i]))
  <2>1. x \in Nat /\ y \in Nat /\ y > 0 /\ x + y <= Len(d) /\ V[i].at = x + base
    BY <1>4, <1>6
  <2> HIDE DEF x, y
  <2> QED BY <2>1, <1>2
<1>8. \A i, j \in 1..n : i < j => V[i].at <= V[j].at
  <2> SUFFICES ASSUME NEW i \in 1..n, NEW j \in 1..n, i < j PROVE V[i].at <= V[j].at
    OBVIOUS
  <2> DEFINE x == recs[i].at
             y == Len(Draft(recs[i]))
             z == recs[j].at
  <2>1. x \in Nat /\ y \in Nat /\ z \in Nat /\ x + y <= z /\ V[i].at = x + base /\ V[j].at = z + base
    BY <1>1, <1>4, <1>6
  <2> HIDE DEF x, y, z
  <2> QED BY <2>1, <1>2
<1> QED BY <1>1, <1>5, <1>7, <1>8 DEF Lands, base, n

\* A bank of terms lands with its records, each with its glossary.
LEMMA TermBankLands ==
  ASSUME NEW f \in Seq(Cells), NEW rows \in Seq(GoodTerm), NEW p, p = ProcessTermBank(rows),
         NEW known \in Knowns, Stored(f, known), \A k \in 1..Len(p.spans) : p.spans[k].glossary \in DOMAIN known,
         NEW d, d = Patched(p, known)
  PROVE  \E V : Lands(f, d, 0, rows, Rebased(p, Len(f)), V)
<1>1. rows \in Seq(TermRow)
  BY DEF GoodTerm
<1>2. p \in Fitting
  BY <1>1, TermBankFits
<1>3. d \in Seq(Plain) /\ Len(d) = Len(p.data)
  BY <1>2, PatchedIs
<1>4. PICK recs : Logs(p.data, p.offsets, recs, 0, rows) /\ Holes(p.patches, recs)
  BY TermBankLogged
<1> DEFINE V == Shifted(recs, Len(f))
           e == f \o d
<1>5. e \in Seq(Cells) /\ Stored(e, known) /\ Len(f) \in Nat
  BY <1>3, StoredPlain
<1>6. ASSUME NEW i \in 1..Len(recs) PROVE Holds(e, V[i])
  <2> DEFINE w == recs[i]
             g == w.row.glossary
             o == known[g]
             b == TermBody(w.row, o)
             at == w.at
  <2>1. w \in Recs /\ w.kind = 0
    BY <1>4 DEF Logs
  <2>2. w.row \in TermRow /\ at \in Nat
    BY <2>1, RecIs
  <2>3. g \in DOMAIN known /\ o \in Nat /\ Located(d, at, b)
    <3>1. recs[i].row.glossary \in DOMAIN known /\ known[recs[i].row.glossary] \in Nat
          /\ Located(d, recs[i].at, TermBody(recs[i].row, known[recs[i].row.glossary]))
      BY <1>2, <1>4, PatchedLocates
    <3> QED BY <3>1
  <2>4. b \in Seq(Plain)
    BY <2>2, <2>3, TermBodyIs
  <2>5. Located(e, o, Pieces(g))
    <3>1. g \in Glossaries /\ o + Size[g] <= Len(e) /\ \A k \in 1..Size[g] : e[o + k] = <<g, k>>
      BY <2>3, <1>5 DEF Stored
    <3>2. Len(Pieces(g)) = Size[g] /\ \A k \in 1..Size[g] : Pieces(g)[k] = <<g, k>>
      BY <3>1, PiecesAre
    <3> HIDE DEF e, o, g
    <3> QED BY <3>1, <3>2 DEF Located
  <2>6. V[i] = [kind |-> w.kind, row |-> w.row, at |-> at + Len(f)]
    BY DEF Shifted
  <2>7. V[i].kind = 0 /\ V[i].row = w.row /\ V[i].at = Len(f) + at
    BY <2>1, <2>2, <2>6, <1>5
  <2> HIDE DEF V
  <2>8. Located(f \o d, Len(f) + at, b)
    <3> HIDE DEF at, b
    <3>1. d \in Seq(Cells) /\ b \in Seq(Cells)
      BY <1>3, <2>4 DEF Cells
    <3> QED BY <3>1, <2>2, <2>3, LocatedAfter
  <2> QED BY <2>3, <2>5, <2>7, <2>8 DEF Holds
<1> HIDE DEF V
<1>7. V = Shifted(recs, Len(f)) /\ \A i \in 1..Len(recs) : Holds(f \o d, V[i])
  BY <1>6 DEF V
<1>8. Lands(f, d, 0, rows, Rebased(p, Len(f)), V)
  <2>1. Logs(p.data, p.offsets, recs, 0, rows) /\ Len(d) = Len(p.data) /\ d \in Seq(Plain) /\ 0 \in 0..3
    BY <1>3, <1>4
  <2> QED BY <2>1, <1>7, LandsWhole
<1> QED BY <1>8

\* A bank of another kind lands with its records.
LEMMA KeyedBankLands ==
  ASSUME NEW f \in Seq(Cells), NEW kind \in 1..3, NEW rows \in Seq(GoodKeyed(kind)),
         NEW p, p = ProcessKeyedBank(kind, KeyWidth(kind), rows)
  PROVE  \E V : Lands(f, p.data, kind, rows, Rebased(p, Len(f)), V)
<1> DEFINE d == p.data
<1>1. d \in Seq(Plain)
  <2>1. rows \in Seq(KeyedRow) /\ KeyWidth(kind) \in Nat \ {0} /\ kind \in Nat
    BY KeyWidthIs DEF GoodKeyed
  <2>2. ProcessKeyedBank(kind, KeyWidth(kind), rows).data \in Seq(Plain)
    BY <2>1, KeyedBankFits
  <2> QED BY <2>2
<1>2. PICK recs : Logs(d, p.offsets, recs, kind, rows)
  BY KeyedBankLogged
<1> DEFINE V == Shifted(recs, Len(f))
<1>3. ASSUME NEW i \in 1..Len(recs) PROVE Holds(f \o d, V[i])
  <2> DEFINE w == recs[i]
             b == KeyedBody(kind, w.row)
             at == w.at
  <2>1. w \in Recs /\ w.kind = kind /\ Located(d, at, Draft(w))
    BY <1>2 DEF Logs
  <2>2. w.row \in KeyedRow /\ at \in Nat /\ Draft(w) = b
    BY <2>1, RecIs DEF Draft
  <2>3. b \in Seq(Plain)
    BY <2>2, KeyedBodyIs
  <2>4. V[i] = [kind |-> w.kind, row |-> w.row, at |-> at + Len(f)] /\ Len(f) \in Nat
    BY DEF Shifted
  <2>5. V[i].kind = kind /\ V[i].row = w.row /\ V[i].at = Len(f) + at
    BY <2>1, <2>2, <2>4
  <2> HIDE DEF V
  <2>6. Located(f \o d, Len(f) + at, b)
    <3>1. Located(d, at, b)
      BY <2>1, <2>2
    <3> HIDE DEF at, b, d
    <3>2. d \in Seq(Cells) /\ b \in Seq(Cells)
      BY <1>1, <2>3 DEF Cells
    <3> QED BY <3>1, <3>2, <2>2, LocatedAfter
  <2> QED BY <2>5, <2>6 DEF Holds
<1> HIDE DEF V
<1>4. V = Shifted(recs, Len(f)) /\ \A i \in 1..Len(recs) : Holds(f \o p.data, V[i])
  BY <1>3 DEF V
<1>5. Lands(f, p.data, kind, rows, Rebased(p, Len(f)), V)
  <2>1. Logs(p.data, p.offsets, recs, kind, rows) /\ p.data \in Seq(Plain) /\ kind \in 0..3
    BY <1>1, <1>2
  <2> QED BY <2>1, <1>4, LandsWhole
<1> QED BY <1>5

-----------------------------------------------------------------------------
(* The invariant of the records.                                           *)

RecordedAs(f, offs, s, now, b) ==
  \E W : Logged(f, offs, W) /\ \A k \in 0..3 : FlatMap(RowsOf(k), W) = Written(s, k, Done(s, now, b, k))
Recorded ==
  /\ RecordedAs(file, offsets, source, KindOf(phase), bank)
  /\ KindOf(phase) <= 3 => bank <= Len(Banks(source, KindOf(phase))) + 1

\* Before the first bank nothing is recorded.
LEMMA RecordedStarts == \A s \in Sources : RecordedAs(<<>>, <<>>, s, 0, 1)
<1> SUFFICES ASSUME NEW s \in Sources PROVE RecordedAs(<<>>, <<>>, s, 0, 1)
  OBVIOUS
<1>1. ASSUME NEW k \in 0..3 PROVE FlatMap(RowsOf(k), <<>>) = Written(s, k, Done(s, 0, 1, k))
  <2>1. Done(s, 0, 1, k) = 0
    BY DEF Done
  <2> QED BY <2>1, LoggedStarts, WrittenIs
<1>2. Logged(<<>>, <<>>, <<>>)
  BY LoggedStarts
<1> QED BY <1>1, <1>2 DEF RecordedAs

\* A bank that lands is recorded with those before it.
LEMMA RecordedGrows ==
  ASSUME NEW f \in Seq(Cells), NEW e \in Seq(Cells), NEW offs, NEW s \in Sources, NEW now \in 0..3,
         NEW b \in 1..Len(Banks(s, now)), RecordedAs(f, offs, s, now, b),
         NEW rows, rows = Banks(s, now)[b], NEW more, NEW V, Lands(f, e, now, rows, more, V)
  PROVE  RecordedAs(f \o e, offs \o more, s, now, b + 1)
<1>1. PICK W : Logged(f, offs, W) /\ \A k \in 0..3 : FlatMap(RowsOf(k), W) = Written(s, k, Done(s, now, b, k))
  BY DEF RecordedAs
<1>2. /\ V \in Seq(Recs) /\ more = FlatMap(EntriesOf, V)
      /\ FlatMap(RowsOf(now), V) = rows /\ \A k \in 0..3 : k # now => FlatMap(RowsOf(k), V) = <<>>
      /\ \A i \in 1..Len(V) : Holds(f \o e, V[i]) /\ Len(f) <= V[i].at /\ V[i].at < Len(f \o e)
      /\ \A i, j \in 1..Len(V) : i < j => V[i].at <= V[j].at
  BY DEF Lands
<1>3. /\ Logged(f \o e, offs \o FlatMap(EntriesOf, V), W \o V)
      /\ \A k : FlatMap(RowsOf(k), W \o V) = FlatMap(RowsOf(k), W) \o FlatMap(RowsOf(k), V)
  <2>1. Logged(f, offs, W) /\ V \in Seq(Recs)
    BY <1>1, <1>2
  <2>2. Behind(f, e, V)
    BY <1>2 DEF Behind
  <2> QED BY <2>1, <2>2, LoggedGrows
<1>4. b \in Nat /\ b - 1 \in Nat /\ (b - 1) + 1 = b /\ b <= Len(Banks(s, now)) /\ W \in Seq(Recs)
  BY <1>1, BanksAre DEF Logged
<1> DEFINE U == W \o V
<1>5. ASSUME NEW k \in 0..3 PROVE FlatMap(RowsOf(k), U) = Written(s, k, Done(s, now, b + 1, k))
  <2>1. FlatMap(RowsOf(k), U) = FlatMap(RowsOf(k), W) \o FlatMap(RowsOf(k), V)
    BY <1>3
  <2> HIDE DEF U
  <2>2. CASE k = now
    <3>1. Done(s, now, b, k) = b - 1 /\ Done(s, now, b + 1, k) = b
      BY <2>2, <1>4 DEF Done
    <3>2. Written(s, now, b) = Written(s, now, b - 1) \o Banks(s, now)[b]
      <4> DEFINE n == b - 1
      <4>1. n \in Nat /\ n + 1 <= Len(Banks(s, now)) /\ n + 1 = b
        BY <1>4
      <4> HIDE DEF n
      <4>2. Written(s, now, n + 1) = Written(s, now, n) \o Banks(s, now)[n + 1]
        BY <4>1, WrittenIs
      <4> QED BY <4>1, <4>2 DEF n
    <3>3. FlatMap(RowsOf(k), W) = Written(s, now, b - 1)
      BY <3>1, <1>1, <2>2
    <3> QED BY <3>1, <3>2, <3>3, <2>1, <2>2, <1>2
  <2>3. CASE k # now
    <3>1. Done(s, now, b + 1, k) = Done(s, now, b, k)
      BY <2>3 DEF Done
    <3> DEFINE r == FlatMap(RowsOf(k), W)
    <3>2. r \in Seq(AnyRow)
      BY <1>4, RowsTyped, FlatMapIs
    <3> HIDE DEF r
    <3>3. r \o <<>> = r
      BY <3>2, ConcatEmptySeq
    <3> QED BY <3>1, <3>3, <2>1, <2>3, <1>1, <1>2 DEF r
  <2> QED BY <2>2, <2>3
<1> HIDE DEF U
<1>6. Logged(f \o e, offs \o more, U)
  BY <1>2, <1>3 DEF U
<1> QED BY <1>5, <1>6 DEF RecordedAs

\* The writer of the next kind begins where the one before ended.
LEMMA RecordedNext ==
  ASSUME NEW f, NEW offs, NEW s \in Sources, NEW now \in 0..3, NEW b, b = Len(Banks(s, now)) + 1,
         RecordedAs(f, offs, s, now, b)
  PROVE  RecordedAs(f, offs, s, now + 1, 1)
<1>1. PICK W : Logged(f, offs, W) /\ \A k \in 0..3 : FlatMap(RowsOf(k), W) = Written(s, k, Done(s, now, b, k))
  BY DEF RecordedAs
<1>2. Len(Banks(s, now)) \in Nat
  BY BanksAre
<1>3. ASSUME NEW k \in 0..3 PROVE Done(s, now + 1, 1, k) = Done(s, now, b, k)
  <2>1. k < now + 1 <=> k < now \/ k = now
    OBVIOUS
  <2>2. CASE k < now
    BY <2>1, <2>2 DEF Done
  <2>3. CASE k = now
    BY <2>1, <2>3, <1>2 DEF Done
  <2>4. CASE ~(k < now) /\ k # now
    BY <2>1, <2>4 DEF Done
  <2> QED BY <2>2, <2>3, <2>4
<1> QED BY <1>1, <1>3 DEF RecordedAs

\* What is recorded stays when something else is appended to the file.
LEMMA RecordedKept ==
  ASSUME NEW f \in Seq(Cells), NEW e \in Seq(Cells), NEW offs, NEW s, NEW now, NEW b, RecordedAs(f, offs, s, now, b)
  PROVE  RecordedAs(f \o e, offs, s, now, b)
<1>1. PICK W : Logged(f, offs, W) /\ \A k \in 0..3 : FlatMap(RowsOf(k), W) = Written(s, k, Done(s, now, b, k))
  BY DEF RecordedAs
<1>2. /\ W \in Seq(Recs) /\ offs = FlatMap(EntriesOf, W)
      /\ \A i \in 1..Len(W) : Holds(f, W[i]) /\ W[i].at < Len(f)
      /\ \A i, j \in 1..Len(W) : i < j => W[i].at <= W[j].at
  BY <1>1 DEF Logged
<1>3. Len(f) \in Nat /\ Len(e) \in Nat /\ Len(f \o e) = Len(f) + Len(e)
  BY ConcatIs
<1>4. ASSUME NEW i \in 1..Len(W) PROVE Holds(f \o e, W[i]) /\ W[i].at < Len(f \o e)
  <2>1. W[i] \in Recs /\ Holds(f, W[i]) /\ W[i].at < Len(f)
    BY <1>2
  <2>2. W[i].at \in Nat
    BY <2>1, RecIs
  <2>3. Holds(f \o e, W[i])
    BY <2>1, HoldsMore
  <2> QED BY <2>1, <2>2, <2>3, <1>3
<1>5. Logged(f \o e, offs, W)
  BY <1>2, <1>4 DEF Logged
<1> QED BY <1>1, <1>5 DEF RecordedAs


\* The kind of each phase.
LEMMA KindOfIs ==
  /\ KindOf("terms") = 0 /\ KindOf("meta") = 1 /\ KindOf("kanji") = 2 /\ KindOf("kanjiMeta") = 3
  /\ KindOf("index") = 4 /\ KindOf("ready") = 4
BY DEF KindOf

\* The banks that a phase writes are those of its kind.
LEMMA BanksOfPhase ==
  ASSUME phase \in {"terms", "meta", "kanji", "kanjiMeta"}
  PROVE  BanksOf(phase) = Banks(source, KindOf(phase)) /\ KindOf(phase) \in 0..3
<1>1. CASE phase = "terms"
  BY <1>1 DEF BanksOf, Banks, KindOf
<1>2. CASE phase = "meta"
  BY <1>2 DEF BanksOf, Banks, KindOf
<1>3. CASE phase = "kanji"
  BY <1>3 DEF BanksOf, Banks, KindOf
<1>4. CASE phase = "kanjiMeta"
  BY <1>4 DEF BanksOf, Banks, KindOf
<1> QED BY <1>1, <1>2, <1>3, <1>4

\* An import begins with nothing recorded.
LEMMA RecordedInit == Init => Recorded
<1> SUFFICES ASSUME Init PROVE Recorded
  OBVIOUS
<1>1. source \in Sources /\ phase = "terms" /\ bank = 1 /\ file = <<>> /\ offsets = <<>>
  BY DEF Init
<1>2. KindOf(phase) = 0
  BY <1>1, KindOfIs
<1>3. RecordedAs(<<>>, <<>>, source, 0, 1)
  BY <1>1, RecordedStarts
<1>4. Len(Banks(source, 0)) \in Nat
  BY <1>1, BanksAre
<1>5. bank <= Len(Banks(source, KindOf(phase))) + 1
  BY <1>1, <1>2, <1>4
<1>6. RecordedAs(file, offsets, source, KindOf(phase), bank)
  BY <1>1, <1>2, <1>3
<1> QED BY <1>5, <1>6 DEF Recorded

\* WriteTermBank records the bank.
LEMMA RecordedTermBank == LengthsFit /\ Inv /\ Recorded /\ WriteTermBank => Recorded'
<1> SUFFICES ASSUME LengthsFit, Inv, Recorded, WriteTermBank PROVE Recorded'
  OBVIOUS
<1> DEFINE rows == source.terms[bank]
           p == ProcessTermBank(rows)
           s == Spans(p)
           base == write_offset + Len(p.blob) - s.skipped
           d == Patched(p, s.known)
           more == Rebased(p, base)
           b == bank
           src == source
<1>1. Types /\ FileCounted /\ Stored(file, glossaries)
  BY DEF Inv
<1>2. /\ phase = "terms" /\ bank <= Len(source.terms) /\ bank' = bank + 1
      /\ UNCHANGED <<source, low_ram, phase, hash_entries>>
  BY DEF WriteTermBank
<1>3. KindOf(phase) = 0 /\ Banks(source, 0) = source.terms /\ source \in Sources /\ bank \in Nat \ {0}
  BY <1>1, <1>2, KindOfIs DEF Types, Banks
<1>4. RecordedAs(file, offsets, src, 0, b)
  BY <1>3 DEF Recorded
<1>5. b \in 1..Len(Banks(src, 0)) /\ rows = Banks(src, 0)[b] /\ src \in Sources
  <2>1. Len(Banks(src, 0)) \in Nat
    BY <1>3, BanksAre
  <2> QED BY <2>1, <1>2, <1>3
<1>6. rows \in Seq(GoodTerm)
  <2>1. Banks(src, 0)[b] \in Seq(GoodRow(0))
    BY <1>5, BankGood
  <2> QED BY <2>1, <1>5 DEF GoodRow
<1>7. IF p.data = <<>>
      THEN UNCHANGED <<file, write_offset, glossaries, offsets, long_keys, total>>
      ELSE file' = file \o s.out \o d /\ offsets' = offsets \o more
  BY DEF WriteTermBank
<1>8. p \in Fitting /\ p.count = Len(rows)
  <2>1. rows \in Seq(TermRow)
    BY <1>6 DEF GoodTerm
  <2> HIDE DEF rows
  <2> QED BY <2>1, TermBankFits
<1>9. file \in Seq(Cells) /\ glossaries \in Knowns
  BY <1>1 DEF FileCounted, Types
<1>10. ASSUME RecordedAs(file', offsets', src, 0, b + 1) PROVE Recorded'
  <2>1. KindOf(phase') = 0 /\ source' = src /\ bank' = b + 1
    BY <1>2, <1>3
  <2>2. bank' <= Len(Banks(source', KindOf(phase'))) + 1
    BY <2>1, <1>5
  <2>3. RecordedAs(file', offsets', source', KindOf(phase'), bank')
    BY <2>1, <1>10
  <2> QED BY <2>2, <2>3 DEF Recorded
<1> HIDE DEF rows, p, b, src
<1>11. CASE p.data = <<>>
  <2>1. file' = file /\ offsets' = offsets
    BY <1>7, <1>11
  <2>2. Len(rows) = 0
    <3>1. p.count <= 0 /\ p.count \in Nat
      BY <1>8, <1>11 DEF Fitting, ProcessedFile
    <3> QED BY <3>1, <1>8
  <2>3. rows = <<>>
    BY <2>2, <1>6
  <2> DEFINE z == <<>>
  <2>4. Lands(file, z, 0, rows, z, z)
    <3>1. z \in Seq(Recs) /\ 1..0 = {} /\ Len(z) = 0
      OBVIOUS
    <3>2. FlatMap(EntriesOf, <<>>) = <<>> /\ \A k : FlatMap(RowsOf(k), <<>>) = <<>>
      BY LoggedStarts DEF Logged
    <3>3. FlatMap(EntriesOf, z) = z /\ \A k : FlatMap(RowsOf(k), z) = z
      BY <3>2
    <3>4. rows = z /\ z = <<>>
      BY <2>3
    <3> HIDE DEF z
    <3> QED BY <3>1, <3>3, <3>4 DEF Lands
  <2>5. z \in Seq(Cells) /\ file \o z = file /\ offsets \o z = offsets
    <3>1. offsets \in Seq(Nat \X Nat)
      BY <1>1 DEF Types
    <3> QED BY <3>1, <1>9, ConcatEmptySeq
  <2> HIDE DEF z
  <2>6. RecordedAs(file \o z, offsets \o z, src, 0, b + 1)
    <3>1. 0 \in 0..3
      OBVIOUS
    <3> QED BY <3>1, <2>4, <2>5, <1>4, <1>5, <1>9, RecordedGrows
  <2> QED BY <2>1, <2>5, <2>6, <1>10
<1>12. CASE p.data # <<>>
  <2> DEFINE f == file \o s.out
  <2>1. file' = f \o d /\ offsets' = offsets \o more
    BY <1>7, <1>12
  <2>2. /\ f \in Seq(Cells) /\ s.known \in Knowns /\ Stored(f, s.known) /\ Len(f) = base
        /\ \A k \in 1..Len(p.spans) : p.spans[k].glossary \in DOMAIN s.known
    BY <1>1, <1>8, <1>9, SpansStore
  <2> HIDE DEF base
  <2>3. RecordedAs(f, offsets, src, 0, b)
    <3>1. file \in Seq(Cells) /\ s.out \in Seq(Cells)
      BY <1>1, <1>8, <1>9, SpansStore
    <3> DEFINE e == s.out
    <3> HIDE DEF e, s
    <3>2. RecordedAs(file \o e, offsets, src, 0, b)
      BY <3>1, <1>4, RecordedKept DEF e
    <3> QED BY <3>2 DEF e
  <2>4. d \in Seq(Plain)
    BY <2>2, <1>8, PatchedIs
  <2> HIDE DEF f, s, d
  <2>5. PICK V : Lands(f, d, 0, rows, Rebased(p, Len(f)), V)
    BY <2>2, <1>6, TermBankLands DEF p, d
  <2>6. Lands(f, d, 0, rows, more, V)
    BY <2>2, <2>5
  <2> HIDE DEF more
  <2>7. RecordedAs(f \o d, offsets \o more, src, 0, b + 1)
    <3>1. 0 \in 0..3 /\ d \in Seq(Cells)
      BY <2>4 DEF Cells
    <3> QED BY <3>1, <2>2, <2>3, <2>6, <1>5, RecordedGrows
  <2> QED BY <2>1, <2>7, <1>10
<1> QED BY <1>11, <1>12

\* WriteKeyedBank records the bank.
LEMMA RecordedKeyedBank == LengthsFit /\ Inv /\ Recorded /\ WriteKeyedBank => Recorded'
<1> SUFFICES ASSUME LengthsFit, Inv, Recorded, WriteKeyedBank PROVE Recorded'
  OBVIOUS
<1> DEFINE p == Processed
           d == p.data
           b == bank
           src == source
           kind == KindOf(phase)
           rows == Banks(src, kind)[b]
           more == Rebased(p, write_offset)
<1>1. Types /\ FileCounted
  BY DEF Inv
<1>2. /\ phase \in {"meta", "kanji", "kanjiMeta"} /\ bank <= Len(BanksOf(phase))
      /\ file' = file \o d /\ offsets' = offsets \o more /\ bank' = bank + 1
      /\ UNCHANGED <<source, phase>>
  BY DEF WriteKeyedBank
<1>3. kind \in 1..3 /\ BanksOf(phase) = Banks(src, kind) /\ src \in Sources /\ bank \in Nat \ {0}
  BY <1>1, <1>2, KindOfIs, BanksOfPhase DEF Types
<1>4. RecordedAs(file, offsets, src, kind, b)
  BY DEF Recorded
<1>5. b \in 1..Len(Banks(src, kind))
  <2>1. Len(Banks(src, kind)) \in Nat
    BY <1>3, BanksAre
  <2> QED BY <2>1, <1>2, <1>3
<1>6. p = ProcessKeyedBank(kind, KeyWidth(kind), rows)
  <2>1. CASE phase = "meta"
    BY <2>1 DEF Processed, ProcessMetaBank, KindOf, KeyWidth, Banks
  <2>2. CASE phase = "kanji"
    BY <2>2 DEF Processed, ProcessKanjiBank, KindOf, KeyWidth, Banks
  <2>3. CASE phase = "kanjiMeta"
    BY <2>3 DEF Processed, ProcessMetaBank, KindOf, KeyWidth, Banks
  <2> QED BY <2>1, <2>2, <2>3, <1>2
<1>7. rows \in Seq(GoodKeyed(kind))
  <2>1. kind \in 0..3 /\ kind # 0
    BY <1>3
  <2> HIDE DEF kind
  <2>2. Banks(src, kind)[b] \in Seq(GoodRow(kind))
    BY <2>1, <1>3, <1>5, BankGood
  <2> QED BY <2>1, <2>2 DEF GoodRow
<1>8. file \in Seq(Cells) /\ write_offset = Len(file)
  BY <1>1 DEF FileCounted
<1>9. d \in Seq(Cells)
  <2>1. rows \in Seq(KeyedRow) /\ KeyWidth(kind) \in Nat \ {0} /\ kind \in Nat
    BY <1>3, <1>7, KeyWidthIs DEF GoodKeyed
  <2> HIDE DEF p, rows, kind
  <2>2. ProcessKeyedBank(kind, KeyWidth(kind), rows).data \in Seq(Plain)
    BY <2>1, KeyedBankFits
  <2> QED BY <2>2, <1>6 DEF Cells
<1>10. kind = KindOf(phase') /\ src = source' /\ bank' = b + 1
  BY <1>2
<1> HIDE DEF p, kind, b, src
<1>11. PICK V : Lands(file, p.data, kind, rows, Rebased(p, Len(file)), V)
  <2> HIDE DEF rows
  <2> QED BY <1>3, <1>6, <1>7, <1>8, KeyedBankLands
<1>12. RecordedAs(file \o d, offsets \o more, src, kind, b + 1)
  <2>1. kind \in 0..3 /\ Lands(file, d, kind, rows, more, V)
    BY <1>3, <1>8, <1>11
  <2>2. rows = Banks(src, kind)[b]
    OBVIOUS
  <2> HIDE DEF d, more, rows
  <2> QED BY <2>1, <2>2, <1>3, <1>4, <1>5, <1>8, <1>9, RecordedGrows
<1>13. bank' <= Len(Banks(source', KindOf(phase'))) + 1
  <2>1. b + 1 <= Len(Banks(src, kind)) + 1
    BY <1>5
  <2> QED BY <2>1, <1>10
<1>14. RecordedAs(file', offsets', source', KindOf(phase'), bank')
  BY <1>2, <1>10, <1>12
<1> QED BY <1>13, <1>14 DEF Recorded

\* NextWriter goes on when all banks of its kind are recorded.
LEMMA RecordedNextWriter == Inv /\ Recorded /\ NextWriter => Recorded'
<1> SUFFICES ASSUME Inv, Recorded, NextWriter PROVE Recorded'
  OBVIOUS
<1> DEFINE kind == KindOf(phase)
<1>1. source \in Sources /\ bank \in Nat \ {0}
  BY DEF Inv, Types
<1>2. /\ phase \in {"terms", "meta", "kanji", "kanjiMeta"} /\ bank > Len(BanksOf(phase))
      /\ phase' = NextPhase(phase) /\ bank' = 1
      /\ UNCHANGED <<source, low_ram, file, write_offset, glossaries, offsets, long_keys, hash_entries, total>>
  BY DEF NextWriter
<1>3. kind \in 0..3 /\ BanksOf(phase) = Banks(source, kind)
  BY <1>2, BanksOfPhase
<1>4. KindOf(phase') = kind + 1
  <2> DEFINE i == CHOOSE i \in 1..5 : Phases[i] = phase
  <2>1. Phases[1] = "terms" /\ Phases[2] = "meta" /\ Phases[3] = "kanji" /\ Phases[4] = "kanjiMeta" /\ Phases[5] = "index"
    BY DEF Phases
  <2>2. 1 \in 1..5 /\ 2 \in 1..5 /\ 3 \in 1..5 /\ 4 \in 1..5 /\ \A k \in 1..5 : k = 1 \/ k = 2 \/ k = 3 \/ k = 4 \/ k = 5
    OBVIOUS
  <2>3. \E k \in 1..5 : Phases[k] = phase
    BY <2>1, <2>2, <1>2
  <2>4. i \in 1..5 /\ Phases[i] = phase
    BY <2>3
  <2>5. phase' = Phases[1 + i]
    BY <1>2 DEF NextPhase
  <2> HIDE DEF i
  <2>6. i \in {1, 2, 3, 4, 5}
    BY <2>2, <2>4
  <2>7. i # 5
    BY <2>1, <2>4, <1>2
  <2>8. CASE i = 1
    BY <2>1, <2>4, <2>5, <2>8, KindOfIs
  <2>9. CASE i = 2
    BY <2>1, <2>4, <2>5, <2>9, KindOfIs
  <2>10. CASE i = 3
    BY <2>1, <2>4, <2>5, <2>10, KindOfIs
  <2>11. CASE i = 4
    BY <2>1, <2>4, <2>5, <2>11, KindOfIs
  <2> QED BY <2>6, <2>7, <2>8, <2>9, <2>10, <2>11
<1>5. bank <= Len(Banks(source, kind)) + 1 /\ RecordedAs(file, offsets, source, kind, bank)
  BY <1>3 DEF Recorded
<1> HIDE DEF kind
<1>6. Len(Banks(source, kind)) \in Nat
  BY <1>1, <1>3, BanksAre
<1>7. bank = Len(Banks(source, kind)) + 1
  BY <1>1, <1>2, <1>3, <1>5, <1>6
<1>8. RecordedAs(file, offsets, source, kind + 1, 1)
  BY <1>1, <1>3, <1>5, <1>7, RecordedNext
<1>9. kind + 1 <= 3 => 1 <= Len(Banks(source, kind + 1)) + 1
  <2>1. ASSUME kind + 1 <= 3 PROVE Len(Banks(source, kind + 1)) \in Nat
    <3>1. kind + 1 \in 0..3
      BY <2>1, <1>3
    <3> QED BY <3>1, <1>1, BanksAre
  <2> QED BY <2>1
<1>10. RecordedAs(file', offsets', source', KindOf(phase'), bank')
  BY <1>2, <1>4, <1>8
<1>11. KindOf(phase') <= 3 => bank' <= Len(Banks(source', KindOf(phase'))) + 1
  BY <1>2, <1>4, <1>9
<1> QED BY <1>10, <1>11 DEF Recorded

\* BuildOffsetIndex appends to the file, and the records stay.
LEMMA RecordedIndex == Inv /\ Recorded /\ BuildOffsetIndex => Recorded'
<1> SUFFICES ASSUME Inv, Recorded, BuildOffsetIndex PROVE Recorded'
  OBVIOUS
<1> DEFINE d == Index(Sorted)
<1>1. Types /\ file \in Seq(Cells)
  BY DEF Inv, FileCounted
<1>2. /\ phase = "index" /\ file' = file \o d /\ phase' = "ready" /\ UNCHANGED <<source, bank, offsets>>
  BY DEF BuildOffsetIndex
<1>3. d \in Seq(Cells)
  <2>1. Sorted \in Seq(Nat \X Nat)
    BY <1>1, SortedTyped DEF Types
  <2>2. d \in Seq(Plain)
    BY <2>1, IndexTyped
  <2> QED BY <2>2 DEF Cells
<1> HIDE DEF d
<1>4. RecordedAs(file, offsets, source, 4, bank) /\ KindOf(phase') = 4
  BY <1>2, KindOfIs DEF Recorded
<1>5. RecordedAs(file \o d, offsets, source, 4, bank)
  BY <1>1, <1>3, <1>4, RecordedKept
<1>6. RecordedAs(file', offsets', source', KindOf(phase'), bank')
  BY <1>2, <1>4, <1>5
<1>7. ~(KindOf(phase') <= 3)
  BY <1>4
<1> QED BY <1>6, <1>7 DEF Recorded

-----------------------------------------------------------------------------
(* The index: the records of a hash stand together, its entry finds them.  *)

\* where the records of a hash are, in the order of the offsets
OfHash(h) == [x \in Nat \X Nat |-> IF x[1] = h THEN <<x[2]>> ELSE <<>>]
\* the pairs of a hash stand together in s, in that order
Together(s, h, g) ==
  \E a \in Nat : /\ a + Len(g) <= Len(s) /\ \A r \in 1..Len(g) : s[a + r] = <<h, g[r]>>
                 /\ \A k \in 1..Len(s) : s[k][1] = h => k \in a + 1..a + Len(g)

\* The records of a hash are listed by their places.
LEMMA OfHashTyped == \A h : OfHash(h) \in Maps(Nat \X Nat, Nat)
<1> SUFFICES ASSUME NEW h, NEW x \in Nat \X Nat PROVE OfHash(h)[x] \in Seq(Nat)
  BY DEF Maps, OfHash
<1>1. x[2] \in Nat
  OBVIOUS
<1>2. <<x[2]>> \in Seq(Nat) /\ <<>> \in Seq(Nat)
  BY <1>1
<1>3. OfHash(h)[x] = IF x[1] = h THEN <<x[2]>> ELSE <<>>
  BY DEF OfHash
<1> QED BY <1>2, <1>3

\* Either sort puts the pairs of a hash together and, as a bank lands behind
\* the banks before it, in the order they were written.
LEMMA SortedTogether ==
  ASSUME offsets \in Seq(Nat \X Nat), low_ram \in BOOLEAN,
         \A i, j \in 1..Len(offsets) : i < j => offsets[i][2] <= offsets[j][2], NEW h \in Nat
  PROVE  Together(Sorted, h, FlatMap(OfHash(h), offsets))
<1> DEFINE n == Len(offsets)
           P == Nat \X Nat
           A == {x \in P : x[1] = h}
           v == [x \in P |-> x[2]]
           F == OfHash(h)
           D == PlacesOf(offsets, A)
           L == {j \in 1..n : offsets[j][1] < h}
           g == FlatMap(F, offsets)
           s == Sorted
           a == Cardinality(L)
<1>1. n \in Nat /\ \A i \in 1..n : offsets[i] \in P
  OBVIOUS
<1>2. PICK place : /\ place = [i \in 1..n |-> Cardinality({j \in 1..n : Before(j, i)}) + 1]
                   /\ \A i \in 1..n : place[i] \in 1..n /\ s[place[i]] = offsets[i]
                   /\ \A k \in 1..n : \E i \in 1..n : place[i] = k
  BY SortedPlaces
<1>3. s \in Seq(P) /\ Len(s) = n
  BY SortedPlaces
<1>4. /\ IsFiniteSet(D) /\ g \in Seq(Nat) /\ Len(g) = Cardinality(D)
      /\ \A i \in D : RankIn(D, i) \in 1..Len(g) /\ g[RankIn(D, i)] = v[offsets[i]]
      /\ \A r \in 1..Len(g) : \E i \in D : RankIn(D, i) = r
  <2>1. v \in [P -> Nat]
    OBVIOUS
  <2>2. F \in Maps(P, Nat)
    BY OfHashTyped
  <2>3. Filters(F, P, A, v)
    <3>1. \A e \in P : F[e] = IF e \in A THEN <<v[e]>> ELSE <<>>
      BY DEF OfHash
    <3> HIDE DEF F, P, A, v
    <3> QED BY <3>1 DEF Filters
  <2> DEFINE q == offsets
  <2>4. q \in Seq(P)
    OBVIOUS
  <2> HIDE DEF v, F, A, P, q
  <2>5. FlatMap(F, q) \in Seq(Nat) /\ AtItsRank(FlatMap(F, q), q, PlacesOf(q, A), v)
    BY <2>1, <2>2, <2>3, <2>4, FilterRank
  <2> QED BY <2>5 DEF q, AtItsRank
<1>5. \A i \in 1..n : i \in D <=> offsets[i][1] = h
  BY <1>1 DEF PlacesOf
<1>6. D \subseteq 1..n
  BY DEF PlacesOf
<1>7. IsFiniteSet(L) /\ a \in Nat /\ a <= n
  <2>2. L \in SUBSET (1..n)
    OBVIOUS
  <2> HIDE DEF L, n
  <2>1. IsFiniteSet(1..n) /\ Cardinality(1..n) = n
    BY <1>1, FS_Interval
  <2>3. IsFiniteSet(L) /\ Cardinality(L) <= Cardinality(1..n)
    BY <2>1, <2>2, FS_Subset
  <2> QED BY <2>1, <2>3, FS_CardinalityType
\* each pair of the hash goes behind the pairs of smaller hashes, at its rank
<1>8. ASSUME NEW i \in D PROVE place[i] = a + RankIn(D, i)
  <2> DEFINE B == {j \in 1..n : Before(j, i)}
             E == {j \in D : j < i}
             G == {j \in D : j <= i}
  <2>1. i \in 1..n /\ offsets[i][1] = h /\ offsets[i][2] \in Nat
    BY <1>1, <1>5, <1>6
  <2>2. ASSUME NEW j \in 1..n PROVE Before(j, i) <=> j \in L \/ j \in E
    <3>1. offsets[j][1] \in Nat /\ offsets[j][2] \in Nat /\ (j \in D <=> offsets[j][1] = h)
      BY <1>1, <1>5
    <3>2. i < j => offsets[i][2] <= offsets[j][2]
      BY <2>1
    <3>3. j < i => offsets[j][2] <= offsets[i][2]
      BY <2>1
    <3>4. j < i \/ j = i \/ i < j
      BY <2>1
    <3> QED BY <3>1, <3>2, <3>3, <3>4, <2>1, SMTT(30) DEF Before
  <2>3. B = L \cup E
    <3>1. \A j : j \in E => j \in 1..n
      BY <1>6
    <3> HIDE DEF E
    <3> QED BY <2>2, <3>1
  <2>4. L \cap E = {}
    <3>1. \A j \in D : ~(offsets[j][1] < h)
      BY <1>5, <1>6
    <3> QED BY <3>1
  <2>5. IsFiniteSet(E) /\ Cardinality(E) \in Nat
    <3>1. E \in SUBSET D
      OBVIOUS
    <3> HIDE DEF E, D
    <3> QED BY <3>1, <1>4, FS_Subset, FS_CardinalityType
  <2>6. Cardinality(G) = Cardinality(E) + 1
    <3>1. G = E \cup {i} /\ i \notin E
      <4>1. \A j \in D : (j <= i <=> j < i \/ j = i) /\ ~(i < i)
        BY <1>6, <2>1
      <4> HIDE DEF D
      <4> QED BY <4>1
    <3> HIDE DEF E, G
    <3> QED BY <3>1, <2>5, FS_AddElement
  <2> HIDE DEF L, E
  <2>7. Cardinality(L \cup E) = a + Cardinality(E)
    <3>1. Cardinality(L \cup E) = Cardinality(L) + Cardinality(E) - Cardinality(L \cap E)
      BY <1>7, <2>5, FS_Union
    <3>2. Cardinality(L \cap E) = 0
      BY <2>4, FS_EmptySet
    <3> QED BY <3>1, <3>2, <2>5, <1>7
  <2>8. place[i] = Cardinality(B) + 1
    BY <1>2, <2>1
  <2> HIDE DEF B
  <2>9. RankIn(D, i) = Cardinality(G)
    BY DEF RankIn
  <2> HIDE DEF G
  <2> QED BY <2>3, <2>5, <2>6, <2>7, <2>8, <2>9, <1>7
<1>9. \A i \in D : v[offsets[i]] = offsets[i][2] /\ offsets[i] = <<h, offsets[i][2]>>
  BY <1>1, <1>5, <1>6
<1> HIDE DEF v, D, a, s, n, F, g
<1>10. Len(g) \in Nat
  BY <1>4
<1>11. ASSUME NEW r \in 1..Len(g) PROVE s[a + r] = <<h, g[r]>> /\ a + r <= n
  <2>1. PICK i \in D : RankIn(D, i) = r
    BY <1>4
  <2>2. place[i] = a + r /\ place[i] \in 1..n /\ s[place[i]] = offsets[i] /\ g[r] = offsets[i][2]
    BY <2>1, <1>2, <1>4, <1>6, <1>8, <1>9
  <2> QED BY <2>2, <1>9
<1>12. a + Len(g) <= n
  <2>1. CASE Len(g) = 0
    BY <2>1, <1>7
  <2>2. CASE Len(g) # 0
    <3>1. Len(g) \in 1..Len(g)
      BY <2>2, <1>10
    <3> QED BY <3>1, <1>11
  <2> QED BY <2>1, <2>2
<1>13. ASSUME NEW k \in 1..n, s[k][1] = h PROVE k \in a + 1..a + Len(g)
  <2>1. PICK i \in 1..n : place[i] = k
    BY <1>2
  <2>2. i \in D
    BY <2>1, <1>2, <1>5, <1>13
  <2>3. k = a + RankIn(D, i) /\ RankIn(D, i) \in 1..Len(g)
    BY <2>1, <2>2, <1>4, <1>8
  <2> DEFINE r == RankIn(D, i)
  <2> HIDE DEF r
  <2>4. k = a + r /\ r \in 1..Len(g)
    BY <2>3 DEF r
  <2> QED BY <2>4, <1>7, <1>10
<1> QED BY <1>3, <1>7, <1>11, <1>12, <1>13 DEF Together, s, g, F

\* how many groups begin up to a place
Upto(s, i) == Cardinality({k \in Starts(s) : k <= i})

\* The groups that begin up to a place: one more where a group begins.
LEMMA UptoIs ==
  ASSUME NEW s \in Seq(Nat \X Nat)
  PROVE  /\ Upto(s, 0) = 0 /\ \A i \in 0..Len(s) : Upto(s, i) \in Nat
         /\ \A i \in 1..Len(s) : /\ Upto(s, i) = Upto(s, i - 1) + (IF i \in Starts(s) THEN 1 ELSE 0)
                                 /\ GroupAt(s, i) = (i - 1) + Upto(s, i - 1)
<1> DEFINE n == Len(s)
           A == Starts(s)
           U(i) == {k \in A : k <= i}
<1>1. n \in Nat /\ A \subseteq 1..n
  BY DEF Starts
<1> HIDE DEF A, n
<1>2. \A i \in 0..n : IsFiniteSet(U(i)) /\ Upto(s, i) \in Nat /\ Upto(s, i) = Cardinality(U(i))
  <2> SUFFICES ASSUME NEW i \in 0..n PROVE IsFiniteSet(U(i)) /\ Cardinality(U(i)) \in Nat
    BY DEF Upto, A
  <2>1. IsFiniteSet(1..n)
    BY <1>1, FS_Interval
  <2>2. U(i) \in SUBSET (1..n)
    BY <1>1
  <2> HIDE DEF U
  <2> QED BY <2>1, <2>2, FS_Subset, FS_CardinalityType
<1>3. Upto(s, 0) = 0
  <2>0. \A k \in A : ~(k <= 0)
    BY <1>1
  <2>1. U(0) = {}
    BY <2>0
  <2>2. 0 \in 0..n
    BY <1>1
  <2> HIDE DEF U
  <2> QED BY <2>1, <2>2, <1>2, FS_EmptySet
<1>4. ASSUME NEW i \in 1..n
      PROVE  Upto(s, i) = Upto(s, i - 1) + (IF i \in A THEN 1 ELSE 0) /\ GroupAt(s, i) = (i - 1) + Upto(s, i - 1)
  <2>1. i - 1 \in 0..n /\ i \in 0..n /\ i \in Nat
    BY <1>1
  <2>2. \A k \in A : (k <= i <=> k <= i - 1 \/ k = i) /\ (k < i <=> k <= i - 1)
    BY <1>1, <2>1
  <2>3. U(i) = IF i \in A THEN U(i - 1) \cup {i} ELSE U(i - 1)
    BY <2>1, <2>2
  <2>4. i \notin U(i - 1)
    BY <2>1
  <2>5. {k \in A : k < i} = U(i - 1)
    BY <2>2
  <2>6. GroupAt(s, i) = i - 1 + Cardinality({k \in A : k < i})
    BY DEF GroupAt, A
  <2> HIDE DEF U
  <2>7. Cardinality(U(i - 1) \cup {i}) = Cardinality(U(i - 1)) + 1
    BY <2>1, <2>4, <1>2, FS_AddElement
  <2>8. Upto(s, i) = Cardinality(U(i)) /\ Upto(s, i - 1) = Cardinality(U(i - 1)) /\ Upto(s, i - 1) \in Nat
    BY <2>1, <1>2
  <2>9. GroupAt(s, i) = (i - 1) + Upto(s, i - 1)
    BY <2>5, <2>6, <2>8
  <2>10. Upto(s, i) = Upto(s, i - 1) + (IF i \in A THEN 1 ELSE 0)
    <3>1. CASE i \in A
      BY <3>1, <2>3, <2>7, <2>8
    <3>2. CASE i \notin A
      BY <3>2, <2>3, <2>8
    <3> QED BY <3>1, <3>2
  <2> QED BY <2>9, <2>10
<1> QED BY <1>2, <1>3, <1>4 DEF A, n

\* Where the index writes the offset of each pair, and the size of a group
\* before its first.
LEMMA IndexPlaces ==
  ASSUME NEW s \in Seq(Nat \X Nat)
  PROVE  \A i \in 1..Len(s) :
           LET w == i + Upto(s, i)
           IN  /\ w \in 1..Len(Index(s)) /\ Index(s)[w] = Number(s[i][2])
               /\ i \in Starts(s) => w - 1 \in 1..Len(Index(s)) /\ Index(s)[w - 1] = Number(GroupSize(s, i))
<1> DEFINE n == Len(s)
           A == Starts(s)
           part(i) == (IF i \in A THEN <<Number(GroupSize(s, i))>> ELSE <<>>) \o <<Number(s[i][2])>>
           ss == [i \in 1..n |-> part(i)]
           w == [i \in 0..n |-> i + Upto(s, i)]
           C == {Number(m) : m \in Nat}
<1>1. n \in Nat /\ DOMAIN s = 1..n /\ \A i \in 1..n : s[i][2] \in Nat /\ Number(s[i][2]) \in C
  OBVIOUS
<1>2. \A i \in 1..n : GroupSize(s, i) \in Nat /\ Number(GroupSize(s, i)) \in C
  <2> SUFFICES ASSUME NEW i \in 1..n PROVE GroupSize(s, i) \in Nat
    OBVIOUS
  <2> DEFINE B == {k \in DOMAIN s : s[k][1] = s[i][1]}
  <2>1. B \in SUBSET (1..n)
    BY <1>1
  <2>0. n \in Nat
    OBVIOUS
  <2> HIDE DEF B, n
  <2>2. IsFiniteSet(1..n)
    BY <2>0, FS_Interval
  <2>3. Cardinality(B) \in Nat
    BY <2>1, <2>2, FS_Subset, FS_CardinalityType
  <2> QED BY <2>3 DEF GroupSize, B
<1> HIDE DEF C
<1>3. \A i \in 1..n : /\ part(i) \in Seq(C)
                      /\ i \in A => Len(part(i)) = 2 /\ part(i)[1] = Number(GroupSize(s, i)) /\ part(i)[2] = Number(s[i][2])
                      /\ i \notin A => Len(part(i)) = 1 /\ part(i)[1] = Number(s[i][2])
  <2> SUFFICES ASSUME NEW i \in 1..n
               PROVE  /\ part(i) \in Seq(C)
                      /\ i \in A => Len(part(i)) = 2 /\ part(i)[1] = Number(GroupSize(s, i)) /\ part(i)[2] = Number(s[i][2])
                      /\ i \notin A => Len(part(i)) = 1 /\ part(i)[1] = Number(s[i][2])
    OBVIOUS
  <2> DEFINE x == Number(GroupSize(s, i))
             y == Number(s[i][2])
  <2>1. x \in C /\ y \in C
    BY <1>1, <1>2
  <2> HIDE DEF x, y, A
  <2>2. <<x>> \o <<y>> \in Seq(C) /\ Len(<<x>> \o <<y>>) = 2 /\ (<<x>> \o <<y>>)[1] = x /\ (<<x>> \o <<y>>)[2] = y
    BY <2>1
  <2>3. <<>> \o <<y>> = <<y>> /\ <<y>> \in Seq(C) /\ Len(<<y>>) = 1 /\ <<y>>[1] = y
    BY <2>1
  <2>4. part(i) = (IF i \in A THEN <<x>> ELSE <<>>) \o <<y>>
    BY DEF x, y
  <2> HIDE DEF part
  <2> QED BY <2>2, <2>3, <2>4 DEF x, y
<1>4. ss \in Seq(Seq(C)) /\ Len(ss) = n
  <2> HIDE DEF part, n
  <2> QED BY <1>1, <1>3
<1>5. \A i \in 1..n : ss[i] = part(i)
  OBVIOUS
<1>6. Index(s) = FlattenSeq(ss)
  BY <1>1 DEF Index
<1>7. /\ Upto(s, 0) = 0 /\ \A i \in 0..n : Upto(s, i) \in Nat
      /\ \A i \in 1..n : Upto(s, i) = Upto(s, i - 1) + (IF i \in A THEN 1 ELSE 0)
  BY UptoIs
<1> HIDE DEF part, A, ss, n
<1>8. w[0] = 0 /\ \A i \in 1..n : w[i] \in Nat /\ w[i] = w[i - 1] + Len(ss[i]) /\ w[i] = i + Upto(s, i)
  <2>1. w[0] = 0
    BY <1>1, <1>7
  <2> SUFFICES ASSUME NEW i \in 1..n PROVE w[i] \in Nat /\ w[i] = w[i - 1] + Len(ss[i]) /\ w[i] = i + Upto(s, i)
    BY <2>1
  <2>2. i \in 0..n /\ i - 1 \in 0..n /\ i \in Nat
    BY <1>1
  <2>3. w[i] = i + Upto(s, i) /\ w[i - 1] = (i - 1) + Upto(s, i - 1)
    BY <2>2
  <2>4. Upto(s, i) \in Nat /\ Upto(s, i - 1) \in Nat /\ Upto(s, i) = Upto(s, i - 1) + (IF i \in A THEN 1 ELSE 0)
    BY <2>2, <1>7
  <2>5. Len(ss[i]) = IF i \in A THEN 2 ELSE 1
    BY <1>3, <1>5
  <2> HIDE DEF w
  <2> QED BY <2>2, <2>3, <2>4, <2>5
<1> HIDE DEF w
<1>9. JoinedAt(w, ss)
  BY <1>4, <1>8 DEF JoinedAt
<1>10. \A i \in 1..n : \A k \in 1..Len(ss[i]) :
          w[i - 1] + k \in 1..Len(FlattenSeq(ss)) /\ FlattenSeq(ss)[w[i - 1] + k] = ss[i][k]
  BY <1>4, <1>9, FlattenAt
<1>11. ASSUME NEW i \in 1..n
       PROVE  /\ w[i] \in 1..Len(Index(s)) /\ Index(s)[w[i]] = Number(s[i][2])
              /\ i \in A => w[i] - 1 \in 1..Len(Index(s)) /\ Index(s)[w[i] - 1] = Number(GroupSize(s, i))
  <2>0. w[i - 1] \in Nat
    <3>1. CASE i = 1
      BY <3>1, <1>8
    <3>2. CASE i # 1
      <4>1. i - 1 \in 1..n
        BY <3>2, <1>1
      <4> QED BY <4>1, <1>8
    <3> QED BY <3>1, <3>2
  <2>1. CASE i \in A
    <3>1. Len(ss[i]) = 2 /\ ss[i][1] = Number(GroupSize(s, i)) /\ ss[i][2] = Number(s[i][2])
      BY <2>1, <1>3, <1>5
    <3>2. 1 \in 1..Len(ss[i]) /\ 2 \in 1..Len(ss[i]) /\ w[i] = w[i - 1] + 2 /\ w[i] - 1 = w[i - 1] + 1
      <4> DEFINE a == w[i - 1]
                 b == w[i]
                 l == Len(ss[i])
      <4>1. a \in Nat /\ b = a + l /\ l = 2
        BY <3>1, <2>0, <1>8
      <4> HIDE DEF a, b, l
      <4>2. 1 \in 1..l /\ 2 \in 1..l /\ b = a + 2 /\ b - 1 = a + 1
        BY <4>1
      <4> QED BY <4>2 DEF a, b, l
    <3> QED BY <3>1, <3>2, <1>6, <1>10
  <2>2. CASE i \notin A
    <3>1. Len(ss[i]) = 1 /\ ss[i][1] = Number(s[i][2])
      BY <2>2, <1>3, <1>5
    <3>2. 1 \in 1..Len(ss[i]) /\ w[i] = w[i - 1] + 1
      <4> DEFINE a == w[i - 1]
                 b == w[i]
                 l == Len(ss[i])
      <4>1. a \in Nat /\ b = a + l /\ l = 1
        BY <3>1, <2>0, <1>8
      <4> HIDE DEF a, b, l
      <4>2. 1 \in 1..l /\ b = a + 1
        BY <4>1
      <4> QED BY <4>2 DEF a, b, l
    <3> QED BY <3>1, <3>2, <2>2, <1>6, <1>10
  <2> QED BY <2>1, <2>2
<1> QED BY <1>8, <1>11 DEF A, n

\* The entries are pairs of a hash and a place, one for each group.
LEMMA EntriesAre ==
  ASSUME NEW s \in Seq(Nat \X Nat), write_offset \in Nat
  PROVE  /\ Entries(s) \in Seq(Nat \X Nat)
         /\ \A e : e \in ToSet(Entries(s)) <=> \E i \in Starts(s) : e = <<s[i][1], write_offset + GroupAt(s, i)>>
<1> DEFINE n == Len(s)
           A == Starts(s)
           P == Nat \X Nat
           x(i) == <<s[i][1], write_offset + GroupAt(s, i)>>
           part(i) == IF i \in A THEN <<x(i)>> ELSE <<>>
           ss == [i \in 1..n |-> part(i)]
<1>1. n \in Nat /\ DOMAIN s = 1..n /\ A \subseteq 1..n /\ \A i \in 1..n : s[i][1] \in Nat
  BY DEF Starts
<1>2. \A i \in 1..n : x(i) \in P
  <2> SUFFICES ASSUME NEW i \in 1..n PROVE x(i) \in P
    OBVIOUS
  <2>1. GroupAt(s, i) = (i - 1) + Upto(s, i - 1) /\ i - 1 \in 0..n /\ i - 1 \in Nat
    BY <1>1, UptoIs
  <2>2. Upto(s, i - 1) \in Nat
    BY <2>1, UptoIs
  <2> QED BY <2>1, <2>2, <1>1
<1> HIDE DEF x, P, A
<1>3. \A i \in 1..n : part(i) \in Seq(P) /\ ToSet(part(i)) = IF i \in A THEN {x(i)} ELSE {}
  BY <1>2 DEF ToSet
<1>4. Entries(s) = FlattenSeq(ss)
  BY <1>1 DEF Entries, x, A
<1> HIDE DEF part, n
<1>5. ss \in Seq(Seq(P)) /\ Len(ss) = n /\ \A i \in 1..n : ss[i] = part(i)
  BY <1>1, <1>3
<1> HIDE DEF ss
<1>6. \A e : e \in ToSet(FlattenSeq(ss)) <=> \E i \in 1..Len(ss) : e \in ToSet(ss[i])
  BY <1>5, FlattenSeqSet
<1>7. FlattenSeq(ss) \in Seq(P)
  BY <1>5, FlattenAppend, EmptySeq
<1>8. \A e : e \in ToSet(Entries(s)) <=> \E i \in A : e = x(i)
  <2> TAKE e
  <2>1. ASSUME NEW i \in A, e = x(i) PROVE e \in ToSet(Entries(s))
    <3>1. i \in 1..Len(ss) /\ e \in ToSet(ss[i])
      BY <2>1, <1>1, <1>3, <1>5
    <3> QED BY <3>1, <1>4, <1>6
  <2>2. ASSUME e \in ToSet(Entries(s)) PROVE \E i \in A : e = x(i)
    <3>1. PICK i \in 1..Len(ss) : e \in ToSet(ss[i])
      BY <2>2, <1>4, <1>6
    <3>2. e \in IF i \in A THEN {x(i)} ELSE {}
      BY <3>1, <1>3, <1>5
    <3> QED BY <3>2
  <2> QED BY <2>1, <2>2
<1> QED BY <1>4, <1>7, <1>8 DEF A, x, P

\* The entries E list a hash when it has a group g, and give the place of g in
\* the index d, which begins at o.
Grouped(d, E, h, g, o) ==
  /\ g = <<>> => \A e \in E : e[1] # h
  /\ g # <<>> => \E at \in Nat :
        /\ <<h, o + at>> \in E /\ \A e \in E : e[1] = h => e = <<h, o + at>>
        /\ at + 1 \in 1..Len(d) /\ d[at + 1] = Number(Len(g))
        /\ \A r \in 1..Len(g) : at + 1 + r \in 1..Len(d) /\ d[at + 1 + r] = Number(g[r])

\* A hash whose pairs stand together has one group and one entry for it.
LEMMA IndexGroup ==
  ASSUME NEW s \in Seq(Nat \X Nat), write_offset \in Nat, NEW h \in Nat, NEW g \in Seq(Nat), Together(s, h, g),
         NEW d, d = Index(s), NEW E, E = ToSet(Entries(s))
  PROVE  Grouped(d, E, h, g, write_offset)
<1> DEFINE n == Len(s)
           m == Len(g)
           A == Starts(s)
           first(i) == s[i][1]
<1>1. PICK a \in Nat : /\ a + m <= n /\ \A r \in 1..m : s[a + r] = <<h, g[r]>>
                       /\ \A k \in 1..n : s[k][1] = h => k \in a + 1..a + m
  BY DEF Together
<1>2. n \in Nat /\ m \in Nat /\ A \subseteq 1..n /\ \A i : i \in A <=> i \in 1..n /\ (i = 1 \/ first(i - 1) # first(i))
  BY DEF Starts
<1>3. \A e : e \in E <=> \E i \in A : e = <<first(i), write_offset + GroupAt(s, i)>>
  BY EntriesAre
<1>4. \A r \in 1..m : a + r \in 1..n /\ first(a + r) = h /\ s[a + r][2] = g[r]
  <2> SUFFICES ASSUME NEW r \in 1..m PROVE a + r \in 1..n /\ first(a + r) = h /\ s[a + r][2] = g[r]
    OBVIOUS
  <2>1. s[a + r] = <<h, g[r]>>
    BY <1>1
  <2>2. a + r \in 1..n
    <3> HIDE DEF m, n
    <3> QED BY <1>1, <1>2
  <2> QED BY <2>1, <2>2
<1>5. \A i \in 1..n : first(i) = h => i \in a + 1..a + m
  BY <1>1
<1>6. ASSUME g = <<>> PROVE \A e \in E : e[1] # h
  <2> SUFFICES ASSUME NEW e \in E, e[1] = h PROVE FALSE
    OBVIOUS
  <2>1. PICK i \in A : e = <<first(i), write_offset + GroupAt(s, i)>>
    BY <1>3
  <2>2. i \in 1..n /\ first(i) = h
    BY <2>1, <1>2
  <2>3. i \in a + 1..a + m /\ m = 0
    BY <2>2, <1>5, <1>6
  <2> QED BY <2>3
<1>7. ASSUME g # <<>>
      PROVE  \E at \in Nat :
               /\ <<h, write_offset + at>> \in E /\ \A e \in E : e[1] = h => e = <<h, write_offset + at>>
               /\ at + 1 \in 1..Len(d) /\ d[at + 1] = Number(Len(g))
               /\ \A r \in 1..Len(g) : at + 1 + r \in 1..Len(d) /\ d[at + 1 + r] = Number(g[r])
  <2> DEFINE at == GroupAt(s, a + 1)
             u == Upto(s, a)
  <2>1. m \in Nat \ {0} /\ 1 \in 1..m /\ a + 1 \in 1..n /\ (a + 1) - 1 = a /\ a \in 0..n
    <3>1. m # 0
      BY <1>7
    <3> HIDE DEF m, n
    <3> QED BY <3>1, <1>1, <1>2
  <2>2. a + 1 \in A /\ first(a + 1) = h
    <3>1. first(a + 1) = h
      BY <2>1, <1>4
    <3>2. a # 0 => first(a) # h
      <4> SUFFICES ASSUME a # 0, first(a) = h PROVE FALSE
        OBVIOUS
      <4>1. a \in 1..n
        BY <2>1
      <4>2. a \in a + 1..a + m
        BY <4>1, <1>5
      <4> QED BY <4>2
    <3> HIDE DEF first, n, A
    <3>3. a + 1 = 1 \/ first((a + 1) - 1) # first(a + 1)
      BY <3>1, <3>2, <2>1
    <3> QED BY <3>1, <3>3, <2>1, <1>2
  <2>3. \A r \in 1..m : a + r \in A => r = 1
    <3> SUFFICES ASSUME NEW r \in 1..m, r # 1 PROVE a + r \notin A
      OBVIOUS
    <3>1. r - 1 \in 1..m /\ a + (r - 1) = (a + r) - 1 /\ a + r # 1
      BY <2>1
    <3>2. first(a + r) = h /\ first(a + (r - 1)) = h
      BY <3>1, <1>4
    <3> HIDE DEF first, A
    <3> QED BY <3>1, <3>2, <1>2
  <2>4. u \in Nat /\ at = a + u /\ Upto(s, a + 1) = u + 1
    BY <2>1, <2>2, UptoIs
  <2>5. ASSUME NEW r \in 1..m PROVE Upto(s, a + r) = u + 1
    <3>1. \A k \in A : k <= a + r <=> k <= a + 1
      <4> SUFFICES ASSUME NEW k \in A, k <= a + r, ~(k <= a + 1) PROVE FALSE
        <5>1. \A k \in A : k \in Nat
          BY <1>2
        <5> QED BY <5>1, <2>1
      <4>2. k \in Nat
        BY <1>2
      <4> HIDE DEF A, m
      <4>1. k \in Nat /\ k - a \in 1..m /\ a + (k - a) = k /\ k - a # 1
        <5>1. r \in Nat /\ r <= m /\ a \in Nat /\ k \in Nat
          BY <2>1, <4>2
        <5> QED BY <5>1, <2>1
      <4> QED BY <4>1, <2>3
    <3>2. {k \in A : k <= a + r} = {k \in A : k <= a + 1}
      BY <3>1
    <3>3. Upto(s, a + r) = Upto(s, a + 1)
      BY <3>2 DEF Upto
    <3> QED BY <3>3, <2>4
  <2>6. GroupSize(s, a + 1) = m
    <3>1. {k \in DOMAIN s : s[k][1] = s[a + 1][1]} = a + 1..a + m
      <4>1. \A k : k \in DOMAIN s /\ s[k][1] = s[a + 1][1] => k \in a + 1..a + m
        BY <2>2, <1>5
      <4>2. \A k \in a + 1..a + m : k \in DOMAIN s /\ s[k][1] = s[a + 1][1]
        <5> SUFFICES ASSUME NEW k \in a + 1..a + m PROVE k \in DOMAIN s /\ s[k][1] = s[a + 1][1]
          OBVIOUS
        <5>1. k - a \in 1..m /\ a + (k - a) = k
          BY <2>1
        <5>2. k \in 1..n /\ first(k) = h
          BY <5>1, <1>4
        <5> QED BY <5>2, <2>2
      <4> QED BY <4>1, <4>2
    <3> HIDE DEF m
    <3>2. Cardinality(a + 1..a + m) = m
      BY <2>1, FS_Interval
    <3> QED BY <3>1, <3>2 DEF GroupSize
  <2>7. \A i \in 1..n : LET w == i + Upto(s, i)
                        IN  /\ w \in 1..Len(d) /\ d[w] = Number(s[i][2])
                            /\ i \in A => w - 1 \in 1..Len(d) /\ d[w - 1] = Number(GroupSize(s, i))
    BY IndexPlaces
  <2>8. at \in Nat /\ at + 1 \in 1..Len(d) /\ d[at + 1] = Number(m)
    <3> DEFINE w == a + 1 + Upto(s, a + 1)
    <3>1. w - 1 \in 1..Len(d) /\ d[w - 1] = Number(GroupSize(s, a + 1))
      BY <2>1, <2>2, <2>7
    <3>2. w - 1 = at + 1 /\ at \in Nat
      <4>1. w = a + 1 + (u + 1) /\ at = a + u
        BY <2>4
      <4> HIDE DEF w, at, u
      <4> QED BY <4>1, <2>4
    <3> HIDE DEF w, at, m
    <3> QED BY <3>1, <3>2, <2>6
  <2>9. ASSUME NEW r \in 1..m PROVE at + 1 + r \in 1..Len(d) /\ d[at + 1 + r] = Number(g[r])
    <3> DEFINE i == a + r
               w == i + Upto(s, i)
    <3>1. i \in 1..n /\ s[i][2] = g[r]
      BY <1>4
    <3>2. w \in 1..Len(d) /\ d[w] = Number(s[i][2])
      BY <3>1, <2>7
    <3>3. w = at + 1 + r
      BY <2>1, <2>4, <2>5
    <3> HIDE DEF w, at, m, i
    <3> QED BY <3>1, <3>2, <3>3
  <2>10. <<h, write_offset + at>> \in E
    BY <2>2, <1>3
  <2>11. \A e \in E : e[1] = h => e = <<h, write_offset + at>>
    <3> SUFFICES ASSUME NEW e \in E, e[1] = h PROVE e = <<h, write_offset + at>>
      OBVIOUS
    <3>1. PICK i \in A : e = <<first(i), write_offset + GroupAt(s, i)>>
      BY <1>3
    <3>2. i \in 1..n /\ first(i) = h
      BY <3>1, <1>2
    <3>3. i \in a + 1..a + m
      BY <3>2, <1>5
    <3>4. i - a \in 1..m /\ a + (i - a) = i
      BY <3>3, <2>1
    <3>5. i - a = 1
      <4> HIDE DEF m, A
      <4> QED BY <3>4, <2>3
    <3>6. i = a + 1
      BY <3>4, <3>5
    <3> QED BY <3>1, <3>2, <3>6
  <2> HIDE DEF at
  <2> QED BY <2>8, <2>9, <2>10, <2>11
<1> QED BY <1>6, <1>7 DEF Grouped

\* What a record leaves in the offsets leads to where it is.
LEMMA EntriesPlaced ==
  ASSUME NEW w \in Recs
  PROVE  \A e \in ToSet(EntriesOf[w]) : e[2] = w.at
<1>1. CASE w.kind = 0
  <2> DEFINE ks == KeysOf(w.row)
  <2>1. Len(ks) \in Nat
    BY <1>1, RecIs, KeysAre
  <2>2. EntriesOf[w] = [k \in 1..Len(ks) |-> <<HashOf[ks[k]], w.at>>]
    BY <1>1 DEF EntriesOf
  <2> HIDE DEF ks
  <2> QED BY <2>1, <2>2 DEF ToSet
<1>2. CASE w.kind # 0
  <2>1. EntriesOf[w] = <<<<HashOf[w.row.expr], w.at>>>>
    BY <1>2 DEF EntriesOf
  <2> QED BY <2>1 DEF ToSet
<1> QED BY <1>1, <1>2

\* The offsets are in the order of the records.
LEMMA OffsetsOrdered ==
  ASSUME NEW f, Len(f) \in Nat, NEW offs, NEW W, Logged(f, offs, W)
  PROVE  /\ \A i, j \in 1..Len(offs) : i < j => offs[i][2] <= offs[j][2]
         /\ offs # <<>> => Len(f) > 0
<1> DEFINE P == Nat \X Nat
           R == {de \in P \X P : de[1][2] <= de[2][2]}
           ss == [i \in 1..Len(W) |-> EntriesOf[W[i]]]
<1>1. /\ W \in Seq(Recs) /\ offs = FlatMap(EntriesOf, W)
      /\ \A i \in 1..Len(W) : W[i].at < Len(f)
      /\ \A i, j \in 1..Len(W) : i < j => W[i].at <= W[j].at
  BY DEF Logged
<1>2. ss \in Seq(Seq(P))
  BY <1>1, EntriesTyped, MappedIs
<1>3. Len(ss) = Len(W) /\ Len(W) \in Nat /\ \A i \in 1..Len(W) : ss[i] = EntriesOf[W[i]] /\ W[i] \in Recs /\ W[i].at \in Nat
  <2>1. \A i \in 1..Len(W) : W[i] \in Recs
    BY <1>1
  <2>2. \A i \in 1..Len(W) : W[i].at \in Nat
    BY <2>1, RecIs
  <2> QED BY <2>1, <2>2, <1>1
<1>4. offs = FlattenSeq(ss)
  BY <1>1 DEF FlatMap
<1> HIDE DEF ss
<1>5. ASSUME NEW i \in 1..Len(ss) PROVE ss[i] \in Seq(P) /\ \A e \in ToSet(ss[i]) : e \in P /\ e[2] = W[i].at
  <2>1. ss[i] \in Seq(P)
    BY <1>2
  <2>2. \A e \in ToSet(ss[i]) : e[2] = W[i].at
    BY <1>3, EntriesPlaced
  <2>3. \A e \in ToSet(ss[i]) : e \in P
    <3> HIDE DEF P
    <3> QED BY <2>1 DEF ToSet
  <2> QED BY <2>1, <2>2, <2>3
<1>6. \A i, j \in 1..Len(ss) : i < j => \A d \in ToSet(ss[i]), e \in ToSet(ss[j]) : <<d, e>> \in R
  <2> SUFFICES ASSUME NEW i \in 1..Len(ss), NEW j \in 1..Len(ss), i < j, NEW d \in ToSet(ss[i]), NEW e \in ToSet(ss[j])
               PROVE  <<d, e>> \in R
    OBVIOUS
  <2>1. d \in P /\ e \in P /\ d[2] = W[i].at /\ e[2] = W[j].at
    BY <1>5
  <2>2. W[i].at <= W[j].at
    BY <1>1, <1>3
  <2> QED BY <2>1, <2>2
<1>7. \A i \in 1..Len(ss) : \A k, l \in 1..Len(ss[i]) : k < l => <<ss[i][k], ss[i][l]>> \in R
  <2> SUFFICES ASSUME NEW i \in 1..Len(ss), NEW k \in 1..Len(ss[i]), NEW l \in 1..Len(ss[i])
               PROVE  <<ss[i][k], ss[i][l]>> \in R
    OBVIOUS
  <2>1. ss[i][k] \in ToSet(ss[i]) /\ ss[i][l] \in ToSet(ss[i])
    <3>1. DOMAIN ss[i] = 1..Len(ss[i])
      <4> HIDE DEF P
      <4> QED BY <1>5
    <3> QED BY <3>1 DEF ToSet
  <2>2. ss[i][k] \in P /\ ss[i][l] \in P /\ ss[i][k][2] = W[i].at /\ ss[i][l][2] = W[i].at /\ W[i].at \in Nat
    BY <2>1, <1>3, <1>5
  <2> QED BY <2>2
<1> HIDE DEF R, P
<1>8. \A k, l \in 1..Len(offs) : k < l => <<offs[k], offs[l]>> \in R
  <2>1. \A k, l \in 1..Len(FlattenSeq(ss)) : k < l => <<FlattenSeq(ss)[k], FlattenSeq(ss)[l]>> \in R
    BY <1>2, <1>6, <1>7, FlattenOrdered
  <2> QED BY <2>1, <1>4
<1>9. \A k, l \in 1..Len(offs) : k < l => offs[k][2] <= offs[l][2]
  BY <1>8 DEF R
<1>10. ASSUME offs # <<>> PROVE Len(f) > 0
  <2>1. W # <<>>
    <3>1. FlatMap(EntriesOf, <<>>) = <<>>
      BY LoggedStarts DEF Logged
    <3> QED BY <3>1, <1>1, <1>10
  <2>2. 1 \in 1..Len(W)
    BY <2>1, <1>1
  <2>3. W[1].at \in Nat /\ W[1].at < Len(f)
    BY <2>2, <1>1, <1>3
  <2> QED BY <2>3
<1> QED BY <1>9, <1>10

\* At its place the file has the size of a group, then where each record is.
GroupIn(f, at, g) == f[at + 1] = Number(Len(g)) /\ \A r \in 1..Len(g) : f[at + 1 + r] = Number(g[r])
\* Every hash is listed with the place of its group, if it has one.
GroupListed(f, E, h, g) ==
  IF g = <<>> THEN \A e \in E : e[1] # h
  ELSE \E at \in Nat : /\ at # 0 /\ <<h, at>> \in E /\ \A e \in E : e[1] = h => e = <<h, at>>
                       /\ GroupIn(f, at, g)
Indexed ==
  phase = "ready" =>
    /\ hash_entries \in Seq(Nat \X Nat)
    /\ \A h \in Nat : GroupListed(file, ToSet(hash_entries), h, FlatMap(OfHash(h), offsets))

\* BuildOffsetIndex lists every hash with its group.
LEMMA IndexedIndex == Inv /\ Recorded /\ BuildOffsetIndex => Indexed'
<1> SUFFICES ASSUME Inv, Recorded, BuildOffsetIndex PROVE Indexed'
  OBVIOUS
<1> DEFINE s == Sorted
           d == Index(s)
           E == ToSet(Entries(s))
<1>1. Types /\ file \in Seq(Cells) /\ write_offset = Len(file) /\ offsets \in Seq(Nat \X Nat) /\ low_ram \in BOOLEAN
  BY DEF Inv, FileCounted, Types
<1>2. file' = file \o d /\ hash_entries' = Entries(s) /\ offsets' = offsets
  BY DEF BuildOffsetIndex
<1>3. s \in Seq(Nat \X Nat)
  BY <1>1, SortedTyped
<1> HIDE DEF s
<1>4. d \in Seq(Cells) /\ Len(d) \in Nat /\ write_offset \in Nat /\ Len(file) \in Nat
  <2>1. d \in Seq(Plain)
    BY <1>3, IndexTyped
  <2> QED BY <2>1, <1>1 DEF Cells
<1>5. Entries(s) \in Seq(Nat \X Nat)
  BY <1>3, <1>4, EntriesAre
<1>6. /\ \A i, j \in 1..Len(offsets) : i < j => offsets[i][2] <= offsets[j][2]
      /\ offsets # <<>> => Len(file) > 0
  <2>1. PICK W : Logged(file, offsets, W)
    BY DEF Recorded, RecordedAs
  <2> QED BY <2>1, <1>4, OffsetsOrdered
<1> HIDE DEF d
<1>7. /\ \A i \in 1..Len(d) : (file \o d)[Len(file) + i] = d[i]
  BY <1>1, <1>4, ConcatIs
<1>8. ASSUME NEW h \in Nat, NEW g, g = FlatMap(OfHash(h), offsets) PROVE GroupListed(file \o d, E, h, g)
  <2>1. g \in Seq(Nat)
    BY <1>1, <1>8, OfHashTyped, FlatMapIs
  <2>2. Together(s, h, g)
    BY <1>1, <1>6, <1>8, SortedTogether DEF s
  <2>3. /\ g = <<>> => \A e \in E : e[1] # h
        /\ g # <<>> => \E at \in Nat :
               /\ <<h, write_offset + at>> \in E /\ \A e \in E : e[1] = h => e = <<h, write_offset + at>>
               /\ at + 1 \in 1..Len(d) /\ d[at + 1] = Number(Len(g))
               /\ \A r \in 1..Len(g) : at + 1 + r \in 1..Len(d) /\ d[at + 1 + r] = Number(g[r])
    <3>1. d = Index(s)
      BY DEF d
    <3>2. E = ToSet(Entries(s))
      OBVIOUS
    <3> HIDE DEF E
    <3>3. Grouped(d, E, h, g, write_offset)
      BY <3>1, <3>2, <2>1, <2>2, <1>3, <1>4, IndexGroup
    <3> QED BY <3>3 DEF Grouped
  <2> HIDE DEF E
  <2>4. CASE g = <<>>
    BY <2>3, <2>4 DEF GroupListed
  <2>5. CASE g # <<>>
    <3>1. PICK at \in Nat :
               /\ <<h, write_offset + at>> \in E /\ \A e \in E : e[1] = h => e = <<h, write_offset + at>>
               /\ at + 1 \in 1..Len(d) /\ d[at + 1] = Number(Len(g))
               /\ \A r \in 1..Len(g) : at + 1 + r \in 1..Len(d) /\ d[at + 1 + r] = Number(g[r])
      BY <2>3, <2>5
    <3> DEFINE x == write_offset + at
               f == file \o d
    <3>2. x \in Nat /\ x # 0
      <4>1. offsets # <<>>
        <5>1. FlatMap(OfHash(h), <<>>) = <<>>
          BY <1>1, OfHashTyped, FlatMapIs
        <5> QED BY <5>1, <2>5, <1>8
      <4> QED BY <4>1, <1>1, <1>4, <1>6
    <3>3. f[x + 1] = Number(Len(g))
      <4>1. x + 1 = Len(file) + (at + 1)
        BY <1>1, <1>4
      <4> HIDE DEF x
      <4> QED BY <4>1, <3>1, <1>7
    <3>4. \A r \in 1..Len(g) : f[x + 1 + r] = Number(g[r])
      <4> SUFFICES ASSUME NEW r \in 1..Len(g) PROVE f[x + 1 + r] = Number(g[r])
        OBVIOUS
      <4>1. x + 1 + r = Len(file) + (at + 1 + r)
        <5>1. r \in Nat
          BY <2>1
        <5> QED BY <5>1, <1>1, <1>4
      <4> HIDE DEF x
      <4> QED BY <4>1, <3>1, <1>7
    <3>5. GroupIn(f, x, g)
      BY <3>3, <3>4 DEF GroupIn
    <3>6. <<h, x>> \in E /\ \A e \in E : e[1] = h => e = <<h, x>>
      BY <3>1
    <3> HIDE DEF x, f
    <3>7. GroupListed(f, E, h, g)
      BY <3>2, <3>5, <3>6, <2>5 DEF GroupListed
    <3> QED BY <3>7 DEF f
  <2> QED BY <2>4, <2>5
<1> HIDE DEF E
<1>9. \A h \in Nat : GroupListed(file', E, h, FlatMap(OfHash(h), offsets'))
  BY <1>2, <1>8
<1>10. hash_entries' \in Seq(Nat \X Nat) /\ E = ToSet(hash_entries')
  BY <1>2, <1>5 DEF E
<1> QED BY <1>9, <1>10 DEF Indexed

\* What the program finds for a text is where each record of its hash is.
LEMMA GroupIs ==
  ASSUME Indexed, phase = "ready", offsets \in Seq(Nat \X Nat), NEW t \in Texts, NEW h, h = HashOf[t]
  PROVE  GroupOf(t) = FlatMap(OfHash(h), offsets) /\ FlatMap(OfHash(h), offsets) \in Seq(Nat)
<1> DEFINE g == FlatMap(OfHash(h), offsets)
           E == ToSet(hash_entries)
           found == {i \in DOMAIN hash_entries : hash_entries[i][1] = h}
<1>1. h \in Nat
  BY SizesAssumption
<1>2. g \in Seq(Nat)
  BY OfHashTyped, FlatMapIs
<1>3. GroupListed(file, E, h, g)
  BY <1>1 DEF Indexed
<1>4. E = {hash_entries[i] : i \in DOMAIN hash_entries}
  BY DEF ToSet
<1>5. Table(h) = IF found = {} THEN 0 ELSE hash_entries[CHOOSE i \in found : TRUE][2]
  BY DEF Table
<1>6. GroupOf(t) = IF Table(h) = 0 THEN <<>> ELSE [i \in 1..ValueAt(Table(h)) |-> ValueAt(Table(h) + i)]
  BY DEF GroupOf
<1> HIDE DEF g, E
<1>7. CASE g = <<>>
  <2>1. \A e \in E : e[1] # h
    BY <1>3, <1>7 DEF GroupListed
  <2>2. found = {}
    BY <2>1, <1>4
  <2> HIDE DEF found
  <2> QED BY <2>2, <1>2, <1>5, <1>6, <1>7 DEF g
<1>8. CASE g # <<>>
  <2>1. PICK at \in Nat : /\ at # 0 /\ <<h, at>> \in E /\ \A e \in E : e[1] = h => e = <<h, at>>
                          /\ GroupIn(file, at, g)
    BY <1>3, <1>8 DEF GroupListed
  <2>2. found # {}
    <3>1. PICK i \in DOMAIN hash_entries : hash_entries[i] = <<h, at>>
      BY <2>1, <1>4
    <3>2. i \in found
      BY <3>1
    <3> QED BY <3>2
  <2> DEFINE c == CHOOSE i \in found : TRUE
  <2>3. c \in found
    BY <2>2
  <2> HIDE DEF c
  <2>4. hash_entries[c] = <<h, at>>
    BY <2>1, <2>3, <1>4
  <2> HIDE DEF found
  <2>5. Table(h) = at
    BY <2>2, <2>4, <1>5 DEF c
  <2>6. ValueAt(at) = Len(g) /\ \A i \in 1..Len(g) : ValueAt(at + i) = g[i]
    <3>1. file[at + 1] = Number(Len(g)) /\ \A r \in 1..Len(g) : file[at + 1 + r] = Number(g[r])
      BY <2>1 DEF GroupIn
    <3>2. ASSUME NEW i \in 1..Len(g) PROVE ValueAt(at + i) = g[i]
      <4>1. i \in Nat
        BY <1>2
      <4>2. at + i + 1 = at + 1 + i
        BY <2>1, <4>1
      <4>3. file[at + i + 1] = Number(g[i])
        BY <3>1, <4>2
      <4> QED BY <4>3 DEF ValueAt, Number
    <3> QED BY <3>1, <3>2 DEF ValueAt, Number
  <2>7. GroupOf(t) = [i \in 1..Len(g) |-> g[i]]
    <3>1. GroupOf(t) = [i \in 1..ValueAt(at) |-> ValueAt(at + i)]
      BY <2>1, <2>5, <1>6
    <3> QED BY <3>1, <2>6
  <2>8. [i \in 1..Len(g) |-> g[i]] = g
    BY <1>2
  <2> QED BY <2>7, <2>8, <1>2 DEF g
<1> QED BY <1>7, <1>8

-----------------------------------------------------------------------------
(* The invariant of the records and of the index.                          *)

FullInv == Inv /\ Recorded /\ Indexed

\* The invariant holds before an import.
LEMMA FullInit == Init => FullInv
<1> SUFFICES ASSUME Init PROVE FullInv
  OBVIOUS
<1>1. phase # "ready"
  BY DEF Init
<1> QED BY <1>1, InitInv, RecordedInit DEF FullInv, Indexed

\* Every step of an import keeps it.
LEMMA FullNext == LengthsFit /\ FullInv /\ [Next]_vars => FullInv'
<1> SUFFICES ASSUME LengthsFit, FullInv, [Next]_vars PROVE FullInv'
  OBVIOUS
<1>1. Inv /\ Recorded /\ Indexed
  BY DEF FullInv
<1>2. CASE WriteTermBank
  <2>1. Inv' /\ Recorded'
    BY <1>1, <1>2, TermBankInv, RecordedTermBank
  <2>2. phase' # "ready"
    BY <1>2 DEF WriteTermBank
  <2> QED BY <2>1, <2>2 DEF FullInv, Indexed
<1>3. CASE WriteKeyedBank
  <2>1. Inv' /\ Recorded'
    BY <1>1, <1>3, KeyedBankInv, RecordedKeyedBank
  <2>2. phase' # "ready"
    BY <1>3 DEF WriteKeyedBank
  <2> QED BY <2>1, <2>2 DEF FullInv, Indexed
<1>4. CASE NextWriter
  <2>1. Inv' /\ Recorded'
    BY <1>1, <1>4, NextWriterInv, RecordedNextWriter
  <2>2. phase' # "ready"
    <3>1. phase \in {"terms", "meta", "kanji", "kanjiMeta"} /\ phase' = NextPhase(phase)
      BY <1>4 DEF NextWriter
    <3>2. NextPhase(phase) # "ready"
      BY <3>1, NextPhaseIs
    <3> QED BY <3>1, <3>2
  <2> QED BY <2>1, <2>2 DEF FullInv, Indexed
<1>5. CASE BuildOffsetIndex
  BY <1>1, <1>5, IndexInv, RecordedIndex, IndexedIndex DEF FullInv
<1>6. CASE UNCHANGED vars
  <2>1. Inv'
    BY <1>1, <1>6 DEF vars, Inv, Types, FileCounted, KeysNoted
  <2>2. Recorded' /\ Indexed'
    BY <1>1, <1>6 DEF vars, Recorded, Indexed
  <2> QED BY <2>1, <2>2 DEF FullInv
<1> QED BY <1>2, <1>3, <1>4, <1>5, <1>6 DEF Next

-----------------------------------------------------------------------------
(* What a query makes of the group of a hash.                              *)

\* Texts that differ are stored as cells that differ.
LEMMA PiecesDiffer ==
  ASSUME NEW x \in Texts, NEW y \in Texts
  PROVE  Pieces(x) = Pieces(y) <=> x = y
<1>1. Size[x] \in Nat /\ Size[x] > 0 /\ Size[y] \in Nat /\ Size[y] > 0
  BY SizesAssumption
<1>2. Pieces(x)[1] = <<x, 1>> /\ Pieces(y)[1] = <<y, 1>>
  BY <1>1 DEF Pieces
<1>3. Pieces(x) = Pieces(y) => <<x, 1>> = <<y, 1>>
  BY <1>2
<1> QED BY <1>3

\* the hashes a record is indexed by
Hashes(w) == IF w.kind = 0 THEN {HashOf[w.row.expr], HashOf[Reading(w.row)]} ELSE {HashOf[w.row.expr]}

\* A record is in the group of each of its hashes, once.
LEMMA InGroupOnce ==
  ASSUME NEW w \in Recs, NEW h
  PROVE  FlatMap(OfHash(h), EntriesOf[w]) = IF h \in Hashes(w) THEN <<w.at>> ELSE <<>>
<1> DEFINE O == OfHash(h)
           P == Nat \X Nat
           x(k) == <<HashOf[k], w.at>>
           expr == w.row.expr
           back == Reading(w.row)
<1>1. O \in Maps(P, Nat) /\ w.at \in Nat
  BY OfHashTyped, RecIs
<1>2. \A k \in Texts : x(k) \in P /\ O[x(k)] = IF HashOf[k] = h THEN <<w.at>> ELSE <<>>
  <2> SUFFICES ASSUME NEW k \in Texts PROVE x(k) \in P /\ O[x(k)] = IF HashOf[k] = h THEN <<w.at>> ELSE <<>>
    OBVIOUS
  <2>1. HashOf[k] \in Nat
    BY SizesAssumption
  <2>2. x(k) \in P
    BY <2>1, <1>1
  <2>3. O[x(k)] = IF x(k)[1] = h THEN <<x(k)[2]>> ELSE <<>>
    BY <2>2 DEF OfHash
  <2> QED BY <2>2, <2>3
<1> HIDE DEF O, P
<1>3. \A k \in Texts : FlatMap(O, <<x(k)>>) = IF HashOf[k] = h THEN <<w.at>> ELSE <<>>
  <2> SUFFICES ASSUME NEW k \in Texts PROVE FlatMap(O, <<x(k)>>) = O[x(k)]
    BY <1>2
  <2> DEFINE e == x(k)
  <2>1. e \in P
    BY <1>2
  <2> HIDE DEF e
  <2>2. FlatMap(O, <<e>>) = O[e]
    BY <2>1, <1>1, FlatMapSingle
  <2> QED BY <2>2 DEF e
<1>4. CASE w.kind = 0
  <2>1. w.row \in TermRow /\ w.row \in GoodTerm
    BY <1>4, RecIs
  <2>2. expr \in Texts /\ back \in Texts
    BY <2>1, KeysAre
  <2>3. EntriesOf[w] = [k \in 1..Len(KeysOf(w.row)) |-> <<HashOf[KeysOf(w.row)[k]], w.at>>]
    BY <1>4 DEF EntriesOf
  <2>4. Hashes(w) = {HashOf[expr], HashOf[back]}
    BY <1>4 DEF Hashes
  <2>5. CASE back = expr
    <3>1. KeysOf(w.row) = <<expr>>
      BY <2>5 DEF KeysOf
    <3>2. EntriesOf[w] = <<x(expr)>>
      BY <2>3, <3>1
    <3> HIDE DEF x, expr, back
    <3> QED BY <2>2, <2>4, <2>5, <3>2, <1>3 DEF O
  <2>6. CASE back # expr
    <3>1. KeysOf(w.row) = <<expr, back>>
      BY <2>6 DEF KeysOf
    <3>2. EntriesOf[w] = <<x(expr), x(back)>>
      BY <2>3, <3>1
    <3>3. HashOf[expr] # HashOf[back]
      <4>1. w.row.reading \in {Empty, w.row.expr} \/ HashOf[w.row.reading] # HashOf[w.row.expr]
        BY <2>1 DEF GoodTerm
      <4>2. w.row.reading # Empty /\ back = w.row.reading
        BY <2>6 DEF Reading
      <4> QED BY <4>1, <4>2, <2>6
    <3> DEFINE d == x(expr)
               e == x(back)
    <3>4. d \in P /\ e \in P
      BY <2>2, <1>2
    <3>5. FlatMap(O, <<d>>) = (IF HashOf[expr] = h THEN <<w.at>> ELSE <<>>) /\ O[e] = IF HashOf[back] = h THEN <<w.at>> ELSE <<>>
      BY <2>2, <1>2, <1>3
    <3> HIDE DEF d, e
    <3>6. FlatMap(O, Append(<<d>>, e)) = FlatMap(O, <<d>>) \o O[e]
      <4> DEFINE q == <<d>>
      <4>1. q \in Seq(P)
        BY <3>4
      <4> HIDE DEF q
      <4>2. FlatMap(O, Append(q, e)) = FlatMap(O, q) \o O[e]
        BY <4>1, <3>4, <1>1, FlatMapAppend
      <4> QED BY <4>2 DEF q
    <3>7. EntriesOf[w] = Append(<<d>>, e)
      <4>1. Append(<<d>>, e) = <<d, e>>
        BY <3>4, PairAppended
      <4> QED BY <4>1, <3>2 DEF d, e
    <3>8. <<w.at>> \o <<>> = <<w.at>> /\ <<>> \o <<w.at>> = <<w.at>> /\ <<>> \o <<>> = <<>>
      <4> DEFINE q == <<w.at>>
                 z == <<>>
      <4>1. q \in Seq(Nat) /\ z \in Seq(Nat)
        BY <1>1
      <4>2. q \o <<>> = q /\ <<>> \o q = q /\ z \o <<>> = z
        <5> HIDE DEF q, z
        <5> QED BY <4>1, ConcatEmptySeq
      <4> QED BY <4>2
    <3>9. h \in Hashes(w) <=> HashOf[expr] = h \/ HashOf[back] = h
      BY <2>4
    <3>10. FlatMap(O, EntriesOf[w]) = (IF HashOf[expr] = h THEN <<w.at>> ELSE <<>>) \o (IF HashOf[back] = h THEN <<w.at>> ELSE <<>>)
      BY <3>5, <3>6, <3>7
    <3> HIDE DEF expr, back
    <3>11. CASE HashOf[expr] = h
      BY <3>3, <3>8, <3>9, <3>10, <3>11 DEF O
    <3>12. CASE HashOf[back] = h
      BY <3>3, <3>8, <3>9, <3>10, <3>12 DEF O
    <3>13. CASE HashOf[expr] # h /\ HashOf[back] # h
      BY <3>8, <3>9, <3>10, <3>13 DEF O
    <3> QED BY <3>11, <3>12, <3>13
  <2> QED BY <2>5, <2>6
<1>5. CASE w.kind # 0
  <2>1. expr \in Texts
    BY <1>5, RecIs DEF KeyedRow
  <2>2. EntriesOf[w] = <<x(expr)>> /\ Hashes(w) = {HashOf[expr]}
    BY <1>5 DEF EntriesOf, Hashes
  <2> HIDE DEF x, expr
  <2> QED BY <2>1, <2>2, <1>3 DEF O
<1> QED BY <1>4, <1>5

\* What a reader makes of the group of a hash is what it makes of the rows,
\* when it makes of each record what is made of its row.
LEMMA GroupReads ==
  ASSUME NEW W \in Seq(Recs), NEW h, NEW V, NEW M \in Maps(Nat, V), NEW kind, NEW X \in Maps(AnyRow, V),
         \A i \in 1..Len(W) : FlatMap(M, IF h \in Hashes(W[i]) THEN <<W[i].at>> ELSE <<>>)
                              = IF W[i].kind = kind THEN X[W[i].row] ELSE <<>>
  PROVE  FlatMap(M, FlatMap(OfHash(h), FlatMap(EntriesOf, W))) = FlatMap(X, FlatMap(RowsOf(kind), W))
<1> DEFINE P == Nat \X Nat
           O == OfHash(h)
           F == RowsOf(kind)
           A == [w \in Recs |-> IF h \in Hashes(w) THEN <<w.at>> ELSE <<>>]
           R == [w \in Recs |-> IF w.kind = kind THEN X[w.row] ELSE <<>>]
<1>1. EntriesOf \in Maps(Recs, P) /\ O \in Maps(P, Nat) /\ F \in Maps(Recs, AnyRow)
  BY EntriesTyped, OfHashTyped, RowsTyped
<1>2. A \in Maps(Recs, Nat)
  <2> SUFFICES ASSUME NEW w \in Recs PROVE (IF h \in Hashes(w) THEN <<w.at>> ELSE <<>>) \in Seq(Nat)
    BY DEF Maps
  <2>1. w.at \in Nat
    BY RecIs
  <2>2. <<w.at>> \in Seq(Nat) /\ <<>> \in Seq(Nat)
    BY <2>1
  <2> QED BY <2>2
<1>3. R \in Maps(Recs, V)
  <2> SUFFICES ASSUME NEW w \in Recs PROVE (IF w.kind = kind THEN X[w.row] ELSE <<>>) \in Seq(V)
    BY DEF Maps
  <2>1. w.row \in AnyRow
    BY RecIs
  <2>2. X[w.row] \in Seq(V) /\ <<>> \in Seq(V)
    BY <2>1 DEF Maps
  <2> QED BY <2>2
<1>4. \A i \in 1..Len(W) : W[i] \in Recs
  OBVIOUS
<1>5. \A i \in 1..Len(W) : A[W[i]] = FlatMap(O, EntriesOf[W[i]])
  BY <1>4, InGroupOnce
<1>6. \A i \in 1..Len(W) : R[W[i]] = FlatMap(M, A[W[i]])
  BY <1>4
<1>7. \A w \in Recs : F[w] = IF w.kind = kind THEN <<w.row>> ELSE <<>>
  BY DEF RowsOf
<1>8. \A w \in Recs : R[w] = IF w.kind = kind THEN X[w.row] ELSE <<>>
  OBVIOUS
<1> HIDE DEF O, P, A, R, F
<1>9. \A i \in 1..Len(W) : R[W[i]] = FlatMap(X, F[W[i]])
  <2> SUFFICES ASSUME NEW w \in Recs PROVE R[w] = FlatMap(X, F[w])
    BY <1>4
  <2>1. w.row \in AnyRow
    BY RecIs
  <2>2. FlatMap(X, <<w.row>>) = X[w.row]
    <3> DEFINE e == w.row
    <3> HIDE DEF e
    <3>1. e \in AnyRow
      BY <2>1 DEF e
    <3>2. FlatMap(X, <<e>>) = X[e]
      BY <3>1, FlatMapSingle
    <3> QED BY <3>2 DEF e
  <2>3. FlatMap(X, <<>>) = <<>>
    <3>1. <<>> \in Seq(AnyRow)
      BY EmptySeq
    <3> QED BY <3>1, FlatMapIs
  <2>4. CASE w.kind = kind
    BY <2>2, <2>4, <1>7, <1>8
  <2>5. CASE w.kind # kind
    BY <2>3, <2>5, <1>7, <1>8
  <2> QED BY <2>4, <2>5
<1>10. FlatMap(O, FlatMap(EntriesOf, W)) = FlatMap(A, W)
  BY <1>1, <1>2, <1>5, FlatMapTwice
<1>11. FlatMap(M, FlatMap(A, W)) = FlatMap(R, W)
  BY <1>2, <1>3, <1>6, FlatMapTwice
<1>12. FlatMap(X, FlatMap(F, W)) = FlatMap(R, W)
  BY <1>1, <1>3, <1>9, FlatMapTwice
<1> QED BY <1>10, <1>11, <1>12 DEF O, F

\* What a query makes of the record at a place, and of a row, by the kind of
\* record it reads: terms are 0.
MatchOf(t, kind) == [at \in Nat |-> IF kind = 0 THEN TermMatch(at, t) ELSE KeyedMatch(at, t, kind)]
RowReads(t, kind) ==
  [row \in AnyRow |-> IF kind = 0 THEN IF row \in TermRow THEN IfReads(row, t) ELSE <<>>
                      ELSE IF row \in KeyedRow THEN IfKeyed(row, t) ELSE <<>>]
Readings ==
  {TermAt(at) : at \in Nat} \cup {Read(row) : row \in TermRow}
  \cup {KeyedAt(at) : at \in Nat} \cup {ReadKeyed(row) : row \in KeyedRow}

\* Both list what is read.
LEMMA MatchTyped ==
  ASSUME NEW t, NEW kind
  PROVE  MatchOf(t, kind) \in Maps(Nat, Readings) /\ RowReads(t, kind) \in Maps(AnyRow, Readings)
<1>1. ASSUME NEW at \in Nat PROVE MatchOf(t, kind)[at] \in Seq(Readings)
  <2> DEFINE a == TermAt(at)
             b == KeyedAt(at)
  <2>1. a \in Readings /\ b \in Readings
    BY DEF Readings
  <2>2. /\ TermMatch(at, t) \in {<<a>>, <<>>} /\ KeyedMatch(at, t, kind) \in {<<b>>, <<>>}
    BY DEF TermMatch, KeyedMatch
  <2>3. MatchOf(t, kind)[at] = IF kind = 0 THEN TermMatch(at, t) ELSE KeyedMatch(at, t, kind)
    BY DEF MatchOf
  <2> HIDE DEF a, b
  <2>4. <<a>> \in Seq(Readings) /\ <<b>> \in Seq(Readings) /\ <<>> \in Seq(Readings)
    BY <2>1
  <2> QED BY <2>2, <2>3, <2>4
<1>2. ASSUME NEW row \in AnyRow PROVE RowReads(t, kind)[row] \in Seq(Readings)
  <2> DEFINE a == Read(row)
             b == ReadKeyed(row)
             r == RowReads(t, kind)[row]
  <2>1. (row \in TermRow => a \in Readings) /\ (row \in KeyedRow => b \in Readings)
    BY DEF Readings
  <2>2. IfReads(row, t) \in {<<a>>, <<>>} /\ IfKeyed(row, t) \in {<<b>>, <<>>}
    BY DEF IfReads, IfKeyed
  <2>3. r = IF kind = 0 THEN IF row \in TermRow THEN IfReads(row, t) ELSE <<>>
            ELSE IF row \in KeyedRow THEN IfKeyed(row, t) ELSE <<>>
    BY DEF RowReads
  <2> HIDE DEF a, b, r
  <2>4. (row \in TermRow => <<a>> \in Seq(Readings)) /\ (row \in KeyedRow => <<b>> \in Seq(Readings)) /\ <<>> \in Seq(Readings)
    BY <2>1
  <2>5. r \in Seq(Readings)
    BY <2>2, <2>3, <2>4
  <2> QED BY <2>5 DEF r
<1>3. MatchOf(t, kind) = [at \in Nat |-> MatchOf(t, kind)[at]] /\ RowReads(t, kind) = [row \in AnyRow |-> RowReads(t, kind)[row]]
  BY DEF MatchOf, RowReads
<1> QED BY <1>1, <1>2, <1>3 DEF Maps

\* What a query makes of a record in the file is what it makes of its row, and
\* it makes something only of a record that is in the group of the text.
LEMMA RecordMatch ==
  ASSUME file \in Seq(Cells), NEW w \in Recs, Holds(file, w), NEW t \in Texts, NEW kind \in 0..3
  PROVE  /\ MatchOf(t, kind)[w.at] = IF w.kind = kind THEN RowReads(t, kind)[w.row] ELSE <<>>
         /\ HashOf[t] \notin Hashes(w) => MatchOf(t, kind)[w.at] = <<>>
<1> DEFINE m == MatchOf(t, kind)[w.at]
           r == RowReads(t, kind)[w.row]
<1>1. w.kind \in 0..3 /\ w.at \in Nat /\ w.row \in AnyRow
  BY RecIs
<1>2. m = IF kind = 0 THEN TermMatch(w.at, t) ELSE KeyedMatch(w.at, t, kind)
  BY <1>1 DEF MatchOf
<1>3. r = IF kind = 0 THEN IF w.row \in TermRow THEN IfReads(w.row, t) ELSE <<>>
          ELSE IF w.row \in KeyedRow THEN IfKeyed(w.row, t) ELSE <<>>
  BY <1>1 DEF RowReads
<1> HIDE DEF m, r
<1>4. CASE w.kind = 0
  <2>1. w.row \in TermRow /\ FitsTerm(w.row)
    BY <1>4, RecIs DEF GoodTerm
  <2>2. PICK o \in Nat : Located(file, w.at, TermBody(w.row, o)) /\ Located(file, o, Pieces(w.row.glossary))
    BY <1>4 DEF Holds
  <2>3. ValueAt(w.at) = 0 /\ TermAt(w.at) = Read(w.row)
    BY <2>1, <2>2, <1>1, ReadsTerm
  <2>4. w.row.expr \in Texts /\ Reading(w.row) \in Texts
    BY <2>1, KeysAre
  <2>5. Read(w.row).expr = Pieces(w.row.expr) /\ Read(w.row).reading = Pieces(Reading(w.row))
    BY DEF Read
  <2>6. Read(w.row).expr = Pieces(t) \/ Read(w.row).reading = Pieces(t) <=> t \in {w.row.expr, Reading(w.row)}
    BY <2>4, <2>5, PiecesDiffer
  <2>7. TermMatch(w.at, t) = IfReads(w.row, t)
    BY <2>3, <2>6 DEF TermMatch, IfReads
  <2>8. kind # 0 => KeyedMatch(w.at, t, kind) = <<>>
    BY <2>3 DEF KeyedMatch
  <2>9. HashOf[t] \notin Hashes(w) => IfReads(w.row, t) = <<>>
    BY <1>4 DEF Hashes, IfReads
  <2>10. CASE kind = 0
    BY <2>10, <2>1, <2>7, <2>9, <1>2, <1>3, <1>4 DEF m, r
  <2>11. CASE kind # 0
    BY <2>11, <2>8, <1>2, <1>4 DEF m
  <2> QED BY <2>10, <2>11
<1>5. CASE w.kind # 0
  <2>1. w.row \in KeyedRow /\ w.kind \in 1..3 /\ FitsKeyed(w.row, KeyWidth(w.kind))
    BY <1>5, RecIs DEF GoodKeyed
  <2>2. Located(file, w.at, KeyedBody(w.kind, w.row))
    BY <1>5 DEF Holds
  <2>3. ValueAt(w.at) = w.kind /\ KeyedAt(w.at) = ReadKeyed(w.row)
    BY <2>1, <2>2, <1>1, ReadsKeyed
  <2>4. w.row.expr \in Texts
    BY <2>1 DEF KeyedRow
  <2>5. ReadKeyed(w.row).expr = Pieces(w.row.expr)
    BY DEF ReadKeyed
  <2>6. ReadKeyed(w.row).expr = Pieces(t) <=> w.row.expr = t
    BY <2>4, <2>5, PiecesDiffer
  <2>7. w.kind = kind => KeyedMatch(w.at, t, kind) = IfKeyed(w.row, t)
    BY <2>3, <2>6 DEF KeyedMatch, IfKeyed
  <2>8. w.kind # kind => KeyedMatch(w.at, t, kind) = <<>>
    BY <2>3 DEF KeyedMatch
  <2>9. TermMatch(w.at, t) = <<>>
    BY <2>3, <1>5 DEF TermMatch
  <2>10. HashOf[t] \notin Hashes(w) => IfKeyed(w.row, t) = <<>>
    BY <1>5 DEF Hashes, IfKeyed
  <2>11. CASE kind = 0
    BY <2>11, <2>9, <1>2, <1>5 DEF m
  <2>12. CASE kind # 0 /\ w.kind = kind
    BY <2>12, <2>1, <2>7, <2>10, <1>2, <1>3 DEF m, r
  <2>13. CASE kind # 0 /\ w.kind # kind
    BY <2>13, <2>8, <1>2 DEF m
  <2> QED BY <2>11, <2>12, <2>13
<1> QED BY <1>4, <1>5

\* A query reads each row of its kind, in the order of the dictionary.
LEMMA GroupMatches ==
  ASSUME FullInv, phase = "ready", NEW t \in Texts, NEW kind \in 0..3
  PROVE  FlatMap(MatchOf(t, kind), GroupOf(t)) = FlatMap(RowReads(t, kind), FlattenSeq(Banks(source, kind)))
         /\ GroupOf(t) \in Seq(Nat)
<1> DEFINE h == HashOf[t]
           M == MatchOf(t, kind)
           X == RowReads(t, kind)
<1>1. source \in Sources /\ file \in Seq(Cells) /\ offsets \in Seq(Nat \X Nat) /\ Recorded /\ Indexed
  BY DEF FullInv, Inv, Types, FileCounted
<1>2. KindOf(phase) = 4
  BY DEF KindOf
<1>3. PICK W : Logged(file, offsets, W) /\ \A k \in 0..3 : FlatMap(RowsOf(k), W) = Written(source, k, Done(source, 4, bank, k))
  BY <1>1, <1>2 DEF Recorded, RecordedAs
<1>4. FlatMap(RowsOf(kind), W) = FlattenSeq(Banks(source, kind))
  <2>1. Done(source, 4, bank, kind) = Len(Banks(source, kind))
    BY DEF Done
  <2>2. Written(source, kind, Len(Banks(source, kind))) = FlattenSeq(Banks(source, kind))
    BY <1>1, WrittenIs
  <2> QED BY <2>1, <2>2, <1>3
<1>5. /\ W \in Seq(Recs) /\ offsets = FlatMap(EntriesOf, W)
      /\ \A i \in 1..Len(W) : Holds(file, W[i])
  BY <1>3 DEF Logged
<1>6. M \in Maps(Nat, Readings) /\ X \in Maps(AnyRow, Readings)
  BY MatchTyped
<1>7. ASSUME NEW i \in 1..Len(W)
      PROVE  FlatMap(M, IF h \in Hashes(W[i]) THEN <<W[i].at>> ELSE <<>>) = IF W[i].kind = kind THEN X[W[i].row] ELSE <<>>
  <2> DEFINE w == W[i]
             a == w.at
  <2>1. w \in Recs /\ Holds(file, w)
    BY <1>5
  <2>2. /\ M[a] = IF w.kind = kind THEN X[w.row] ELSE <<>>
        /\ h \notin Hashes(w) => M[a] = <<>>
    BY <2>1, <1>1, RecordMatch
  <2>3. a \in Nat
    BY <2>1, RecIs
  <2> HIDE DEF a, M
  <2>4. FlatMap(M, <<a>>) = M[a]
    BY <2>3, <1>6, FlatMapSingle
  <2>5. FlatMap(M, <<>>) = <<>>
    <3>1. <<>> \in Seq(Nat)
      BY EmptySeq
    <3> QED BY <3>1, <1>6, FlatMapIs
  <2> HIDE DEF w, X, h
  <2>6. FlatMap(M, IF h \in Hashes(w) THEN <<a>> ELSE <<>>) = IF w.kind = kind THEN X[w.row] ELSE <<>>
    BY <2>2, <2>4, <2>5
  <2> QED BY <2>6 DEF a, w
<1>8. GroupOf(t) = FlatMap(OfHash(h), offsets) /\ FlatMap(OfHash(h), offsets) \in Seq(Nat)
  BY <1>1, GroupIs
<1> HIDE DEF M, X, h
<1>9. FlatMap(M, FlatMap(OfHash(h), FlatMap(EntriesOf, W))) = FlatMap(X, FlatMap(RowsOf(kind), W))
  BY <1>5, <1>6, <1>7, GroupReads
<1> QED BY <1>4, <1>5, <1>8, <1>9 DEF M, X

\* What an answer lists of the rows, put with FlatMap.
LEMMA RowsRead ==
  ASSUME NEW s \in Sources, NEW t, NEW kind \in 0..3, NEW rows, rows = FlattenSeq(Banks(s, kind))
  PROVE  FlatMap(RowReads(t, kind), rows)
           = IF kind = 0 THEN FlattenSeq([i \in DOMAIN rows |-> IfReads(rows[i], t)])
             ELSE FlattenSeq([i \in DOMAIN rows |-> IfKeyed(rows[i], t)])
<1> DEFINE X == RowReads(t, kind)
<1>1. FlatMap(X, rows) = FlattenSeq([i \in 1..Len(rows) |-> X[rows[i]]])
  BY DEF FlatMap
<1>2. ASSUME NEW R, Banks(s, kind) \in Seq(Seq(R))
      PROVE  rows \in Seq(R) /\ DOMAIN rows = 1..Len(rows) /\ \A i \in 1..Len(rows) : rows[i] \in R
  <2> DEFINE bs == Banks(s, kind)
  <2>1. bs \in Seq(Seq(R))
    BY <1>2
  <2> HIDE DEF bs
  <2>2. FlattenSeq(bs) \in Seq(R)
    BY <2>1, EmptySeq, FlattenAppend
  <2>3. rows \in Seq(R)
    BY <2>2 DEF bs
  <2> QED BY <2>3
<1>3. CASE kind = 0
  <2>1. rows \in Seq(TermRow) /\ DOMAIN rows = 1..Len(rows) /\ \A i \in 1..Len(rows) : rows[i] \in TermRow
    BY <1>2, <1>3, BanksAre
  <2>2. \A i \in 1..Len(rows) : X[rows[i]] = IfReads(rows[i], t)
    BY <2>1, <1>3 DEF RowReads, AnyRow
  <2> HIDE DEF X
  <2>3. [i \in 1..Len(rows) |-> X[rows[i]]] = [i \in DOMAIN rows |-> IfReads(rows[i], t)]
    BY <2>1, <2>2
  <2> QED BY <2>3, <1>1, <1>3 DEF X
<1>4. CASE kind # 0
  <2>1. rows \in Seq(KeyedRow) /\ DOMAIN rows = 1..Len(rows) /\ \A i \in 1..Len(rows) : rows[i] \in KeyedRow
    BY <1>2, <1>4, BanksAre
  <2>2. \A i \in 1..Len(rows) : X[rows[i]] = IfKeyed(rows[i], t)
    BY <2>1, <1>4 DEF RowReads, AnyRow
  <2> HIDE DEF X
  <2>3. [i \in 1..Len(rows) |-> X[rows[i]]] = [i \in DOMAIN rows |-> IfKeyed(rows[i], t)]
    BY <2>1, <2>2
  <2> QED BY <2>3, <1>1, <1>4 DEF X
<1> QED BY <1>3, <1>4

\* The invariant has a query find exactly the rows of its text.
LEMMA FullExact == FullInv => QueryFindsExactly
<1> SUFFICES ASSUME FullInv, phase = "ready", NEW t \in Texts
             PROVE  /\ QueryTerms(t) = FlattenSeq([i \in DOMAIN Rows |-> IfReads(Rows[i], t)])
                    /\ \A k \in {<<1, "meta">>, <<3, "kanjiMeta">>, <<2, "kanji">>} :
                         QueryKeyed(t, k[1]) = FlattenSeq([i \in DOMAIN FlattenSeq(BanksOf(k[2])) |-> IfKeyed(FlattenSeq(BanksOf(k[2]))[i], t)])
  BY DEF QueryFindsExactly
<1> DEFINE G == GroupOf(t)
<1>1. source \in Sources
  BY DEF FullInv, Inv, Types
<1>2. G \in Seq(Nat)
  <2>1. 0 \in 0..3
    OBVIOUS
  <2> QED BY <2>1, GroupMatches
<1>3. DOMAIN G = 1..Len(G) /\ \A i \in 1..Len(G) : G[i] \in Nat
  <2> HIDE DEF G
  <2> QED BY <1>2
<1>4. QueryTerms(t) = FlattenSeq([i \in DOMAIN Rows |-> IfReads(Rows[i], t)])
  <2> DEFINE M == MatchOf(t, 0)
             rows == FlattenSeq(Banks(source, 0))
  <2>1. QueryTerms(t) = FlattenSeq([i \in DOMAIN G |-> TermMatch(G[i], t)])
    BY DEF QueryTerms
  <2>2. FlatMap(M, G) = FlatMap(RowReads(t, 0), rows)
    BY GroupMatches
  <2>3. FlatMap(RowReads(t, 0), rows) = FlattenSeq([i \in DOMAIN rows |-> IfReads(rows[i], t)])
    <3> HIDE DEF rows
    <3>1. rows = FlattenSeq(Banks(source, 0)) /\ 0 \in 0..3
      BY DEF rows
    <3> QED BY <3>1, <1>1, RowsRead
  <2>4. rows = Rows
    BY DEF Banks, Rows
  <2>5. FlatMap(M, G) = FlattenSeq([i \in 1..Len(G) |-> M[G[i]]])
    BY DEF FlatMap
  <2> HIDE DEF G, rows
  <2>6. \A i \in 1..Len(G) : M[G[i]] = TermMatch(G[i], t)
    BY <1>3 DEF MatchOf
  <2> HIDE DEF M
  <2>7. [i \in 1..Len(G) |-> M[G[i]]] = [i \in DOMAIN G |-> TermMatch(G[i], t)]
    BY <2>6, <1>3
  <2> QED BY <2>1, <2>2, <2>3, <2>4, <2>5, <2>7
<1>5. ASSUME NEW kind \in 1..3, NEW rows, rows = FlattenSeq(Banks(source, kind))
      PROVE  QueryKeyed(t, kind) = FlattenSeq([i \in DOMAIN rows |-> IfKeyed(rows[i], t)])
  <2> DEFINE M == MatchOf(t, kind)
  <2>1. QueryKeyed(t, kind) = FlattenSeq([i \in DOMAIN G |-> KeyedMatch(G[i], t, kind)])
    BY DEF QueryKeyed
  <2>2. kind \in 0..3 /\ kind # 0
    OBVIOUS
  <2>3. FlatMap(M, G) = FlatMap(RowReads(t, kind), rows)
    BY <2>2, <1>5, GroupMatches
  <2>4. FlatMap(RowReads(t, kind), rows) = FlattenSeq([i \in DOMAIN rows |-> IfKeyed(rows[i], t)])
    BY <2>2, <1>1, <1>5, RowsRead
  <2>5. FlatMap(M, G) = FlattenSeq([i \in 1..Len(G) |-> M[G[i]]])
    BY DEF FlatMap
  <2> HIDE DEF G
  <2>6. \A i \in 1..Len(G) : M[G[i]] = KeyedMatch(G[i], t, kind)
    BY <2>2, <1>3 DEF MatchOf
  <2> HIDE DEF M
  <2>7. [i \in 1..Len(G) |-> M[G[i]]] = [i \in DOMAIN G |-> KeyedMatch(G[i], t, kind)]
    BY <2>6, <1>3
  <2> QED BY <2>1, <2>3, <2>4, <2>5, <2>7
<1>6. ASSUME NEW k \in {<<1, "meta">>, <<3, "kanjiMeta">>, <<2, "kanji">>}
      PROVE  k[1] \in 1..3 /\ BanksOf(k[2]) = Banks(source, k[1])
  <2>1. CASE k = <<1, "meta">>
    BY <2>1 DEF BanksOf, Banks
  <2>2. CASE k = <<3, "kanjiMeta">>
    BY <2>2 DEF BanksOf, Banks
  <2>3. CASE k = <<2, "kanji">>
    BY <2>3 DEF BanksOf, Banks
  <2> QED BY <2>1, <2>2, <2>3
<1>7. ASSUME NEW k \in {<<1, "meta">>, <<3, "kanjiMeta">>, <<2, "kanji">>}
      PROVE  QueryKeyed(t, k[1]) = FlattenSeq([i \in DOMAIN FlattenSeq(BanksOf(k[2])) |-> IfKeyed(FlattenSeq(BanksOf(k[2]))[i], t)])
  <2> DEFINE rows == FlattenSeq(BanksOf(k[2]))
             kind == k[1]
  <2>1. kind \in 1..3 /\ rows = FlattenSeq(Banks(source, kind))
    BY <1>6
  <2> HIDE DEF rows, kind
  <2>2. QueryKeyed(t, kind) = FlattenSeq([i \in DOMAIN rows |-> IfKeyed(rows[i], t)])
    BY <2>1, <1>5
  <2> QED BY <2>2 DEF rows, kind
<1> QED BY <1>4, <1>7

\* QueryFindsExactly: when every text fits the width its length is written in,
\* a query of an imported dictionary answers with the rows of its text, all of
\* them, none twice, whole, and in the order of the dictionary, whatever keys
\* share a hash, whatever glossaries the banks share and whichever sort is used.
THEOREM QueriesExact == Spec => []QueryFindsExactly
<1> DEFINE Kept == LengthsFit => FullInv
<1>1. Init => Kept
  BY FullInit
<1>2. Kept /\ [Next]_vars => Kept'
  <2> SUFFICES ASSUME Kept, [Next]_vars, LengthsFit' PROVE FullInv'
    OBVIOUS
  <2>1. source' = source
    BY DEF Next, vars, WriteTermBank, WriteKeyedBank, NextWriter, BuildOffsetIndex
  <2>2. LengthsFit
    BY <2>1 DEF LengthsFit
  <2> QED BY <2>2, FullNext
<1>3. Kept => QueryFindsExactly
  BY FullExact DEF QueryFindsExactly
<1> HIDE DEF Kept
<1> QED BY <1>1, <1>2, <1>3, PTL DEF Spec
=============================================================================
