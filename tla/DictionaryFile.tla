--------------------------- MODULE DictionaryFile ---------------------------
(***************************************************************************)
(* The data side of an import and of a query: what the importer writes to  *)
(* blobs.bin (write_terms, write_meta, write_kanji, build_offset_index) and *)
(* what DictionaryQuery reads back from it.  ImportRun models who runs     *)
(* these steps; this module models what they do to the bytes.              *)
(*                                                                         *)
(* A cell of the file is a number, one piece of a text, or one piece of a  *)
(* compressed glossary; every fixed-width number takes one cell.  Offsets  *)
(* count cells from 0, as the code counts bytes.                           *)
(***************************************************************************)
EXTENDS Integers, Sequences, FiniteSets, SequencesExt

CONSTANTS
    Sources,     \* the dictionaries to import, by their banks of rows
    Texts,       \* the keys, tags and metadata that occur in rows, not empty
    Glossaries,  \* the distinct glossaries, by what they hash to
    Empty,       \* the empty text, which Yomitan writes for "reads as spelt"
    Size,        \* the length of a text, the compressed size of a glossary
    HashOf,      \* the hash of a key: different keys may share one
    PrefixOf,    \* the hash of the first code points of a key
    LongMin,     \* scan_index::long_key_min_codepoints
    Width        \* 2^16 and 2^8 as [key |-> .., tag |-> ..]

TermRow == [expr : Texts, reading : Texts \cup {Empty}, glossary : Glossaries, tags : Texts \cup {Empty}]
KeyedRow == [expr : Texts, tags : Texts \cup {Empty}]

ASSUME SourcesAssumption ==
    \A s \in Sources : /\ s.terms \in Seq(Seq(TermRow)) /\ s.meta \in Seq(Seq(KeyedRow))
                       /\ s.kanji \in Seq(Seq(KeyedRow)) /\ s.kanjiMeta \in Seq(Seq(KeyedRow))
ASSUME SizesAssumption ==
    /\ \A x \in Texts \cup {Empty} \cup Glossaries : Size[x] \in Nat
    /\ Size[Empty] = 0
    /\ \A x \in Texts \cup Glossaries : Size[x] > 0
    /\ LongMin \in Nat /\ \A t \in Texts : HashOf[t] \in Nat
ASSUME WidthAssumption == Width.key \in Nat \ {0} /\ Width.tag \in Nat \ {0}
\* cells of different kinds differ
ASSUME CellsAssumption == Glossaries \cap (Texts \cup {Empty, "number"}) = {}
\* XXH3 of the spelling and of the reading of one row never collide
ASSUME RowHashAssumption ==
    \A s \in Sources : \A b \in DOMAIN s.terms : \A i \in DOMAIN s.terms[b] :
        LET row == s.terms[b][i]
        IN  row.reading \in {Empty, row.expr} \/ HashOf[row.reading] # HashOf[row.expr]

VARIABLES
    source,       \* the dictionary being imported
    low_ram,      \* the option of the import: which sort is used
    phase,        \* the writer at work
    bank,         \* the next bank of that writer
    file,         \* blobs.bin
    write_offset, \* where the importer believes the file ends
    glossaries,   \* glossary hash -> offset of its one copy in the file
    offsets,      \* <<hash, record offset>> of every key of every record
    long_keys,    \* prefix hash -> length of the longest such key
    hash_entries, \* <<hash, group offset>>: what hash.table is built from
    total         \* summary.counts.terms.total
vars == <<source, low_ram, phase, bank, file, write_offset, glossaries, offsets, long_keys, hash_entries, total>>

Phases == <<"terms", "meta", "kanji", "kanjiMeta", "index", "ready">>
NextPhase(p) == Phases[1 + CHOOSE i \in 1..5 : Phases[i] = p]

-----------------------------------------------------------------------------
(* Writing.                                                                *)

Number(n) == <<"number", n>>
Pieces(x) == [i \in 1..Size[x] |-> <<x, i>>]
\* a length prefix of w values, then the text: write_val<..>, write_str
Prefixed(x, w) == <<Number(Size[x] % w)>> \o Pieces(x)
Reading(row) == IF row.reading = Empty THEN row.expr ELSE row.reading

\* Faulty variant: a row that reads as spelt is indexed twice.
KeysOfTwice(row) == <<row.expr, Reading(row)>>
\* the keys of a row, each once: the reading adds one only when it differs
KeysOf(row) == IF Reading(row) = row.expr THEN <<row.expr>> ELSE <<row.expr, Reading(row)>>

NoBank == [data |-> <<>>, offsets |-> <<>>, blob |-> <<>>, spans |-> <<>>, patches |-> <<>>, long |-> <<>>, count |-> 0]

\* the start of a record: its type, its spelling and its reading
Keys(row) == <<Number(0)>> \o Prefixed(row.expr, Width.key) \o Prefixed(Reading(row), Width.key)

\* A long key is noted with its length as a uint16_t: one that does not fit
\* wraps.
NotedLength(t) == Size[t] % Width.key
NoteLongKey(t) == IF Size[t] > LongMin THEN <<t>> ELSE <<>>

AddTerm(p, row) ==
    LET g == row.glossary
        at == Len(p.data)
        hole == at + Len(Keys(row))
        inserted == \A i \in DOMAIN p.spans : p.spans[i].glossary # g
    IN  [p EXCEPT
            !.blob = IF inserted THEN @ \o Pieces(g) ELSE @,
            !.spans = IF inserted THEN Append(@, [glossary |-> g, offset |-> Len(p.blob), size |-> Size[g]]) ELSE @,
            !.data = @ \o Keys(row) \o <<Number(0), Number(Size[g])>> \o Prefixed(row.tags, Width.tag),
            !.patches = Append(@, [glossary |-> g, pos |-> hole]),
            !.offsets = @ \o [k \in DOMAIN KeysOf(row) |-> <<HashOf[KeysOf(row)[k]], at>>],
            !.long = @ \o FlattenSeq([k \in DOMAIN KeysOf(row) |-> NoteLongKey(KeysOf(row)[k])]),
            !.count = @ + 1]
\* left out: a bank comes to nothing when there is no compression context
ProcessTermBank(rows) ==
    LET after[i \in 0..Len(rows)] == IF i = 0 THEN NoBank ELSE AddTerm(after[i - 1], rows[i])
    IN  after[Len(rows)]

\* one row of a bank whose record is a type, a key of width w, and data
AddKeyed(type, w, p, row) ==
    [p EXCEPT !.data = @ \o <<Number(type)>> \o Prefixed(row.expr, w) \o Prefixed(row.tags, Width.key),
              !.offsets = Append(@, <<HashOf[row.expr], Len(p.data)>>),
              !.count = @ + 1]
ProcessKeyedBank(type, w, rows) ==
    LET after[i \in 0..Len(rows)] == IF i = 0 THEN NoBank ELSE AddKeyed(type, w, after[i - 1], rows[i])
    IN  after[Len(rows)]
ProcessMetaBank(rows, type) == ProcessKeyedBank(type, Width.key, rows)
ProcessKanjiBank(rows) == ProcessKeyedBank(2, Width.tag, rows)

\* a map with the value of one key set
With(map, key, value) == [k \in DOMAIN map \cup {key} |-> IF k = key THEN value ELSE map[k]]

\* Faulty variant: no glossary of the bank is skipped.
AddSpanAgain(p, acc, span) ==
    [acc EXCEPT !.known = With(@, span.glossary, write_offset + span.offset - acc.skipped)]
\* The glossary blob without the spans an earlier bank wrote, and the offsets
\* of the spans this bank adds.
AddSpan(p, acc, span) ==
    IF span.glossary \in DOMAIN acc.known
    THEN [acc EXCEPT !.out = @ \o SubSeq(p.blob, acc.run + 1, span.offset),
                     !.run = span.offset + span.size,
                     !.skipped = @ + span.size]
    ELSE [acc EXCEPT !.known = With(@, span.glossary, write_offset + span.offset - acc.skipped)]
Spans(p) ==
    LET start == [out |-> <<>>, run |-> 0, skipped |-> 0, known |-> glossaries]
        after[i \in 0..Len(p.spans)] == IF i = 0 THEN start ELSE AddSpan(p, after[i - 1], p.spans[i])
        end == after[Len(p.spans)]
    IN  [end EXCEPT !.out = @ \o SubSeq(p.blob, end.run + 1, Len(p.blob))]
\* every record has a place for the offset of its glossary
Patched(p, known) ==
    [k \in DOMAIN p.data |->
        LET here == {i \in DOMAIN p.patches : p.patches[i].pos + 1 = k}
        IN  IF here = {} THEN p.data[k] ELSE Number(known[p.patches[CHOOSE i \in here : TRUE].glossary])]

\* Faulty variant: the last long key of a prefix wins.
LongerLast(known, key) == With(known, PrefixOf[key], NotedLength(key))
Longer(known, key) ==
    LET h == PrefixOf[key]
    IN  IF h \in DOMAIN known /\ known[h] >= NotedLength(key) THEN known ELSE With(known, h, NotedLength(key))

NoteAll(known, keys) ==
    LET after[i \in 0..Len(keys)] == IF i = 0 THEN known ELSE Longer(after[i - 1], keys[i])
    IN  after[Len(keys)]

\* offsets of a bank's records, rebased to where the bank lands
Rebased(p, base) == [i \in DOMAIN p.offsets |-> <<p.offsets[i][1], p.offsets[i][2] + base>>]

\* write_terms, one bank, in the order of the banks (TermBanks shows it)
WriteTermBank ==
    /\ phase = "terms" /\ bank <= Len(source.terms)
    /\ bank' = bank + 1
    /\ LET p == ProcessTermBank(source.terms[bank])
           s == Spans(p)
           base == write_offset + Len(p.blob) - s.skipped
       IN  IF p.data = <<>>
           THEN UNCHANGED <<file, write_offset, glossaries, offsets, long_keys, total>>
           ELSE /\ file' = file \o s.out \o Patched(p, s.known)
                /\ glossaries' = s.known
                /\ offsets' = offsets \o Rebased(p, base)
                /\ write_offset' = base + Len(p.data)
                /\ long_keys' = NoteAll(long_keys, p.long)
                /\ total' = total + p.count
    /\ UNCHANGED <<source, low_ram, phase, hash_entries>>

\* write_meta for term and kanji metadata, write_kanji for kanji
Processed == CASE phase = "meta" -> ProcessMetaBank(source.meta[bank], 1)
               [] phase = "kanji" -> ProcessKanjiBank(source.kanji[bank])
               [] phase = "kanjiMeta" -> ProcessMetaBank(source.kanjiMeta[bank], 3)
BanksOf(p) == CASE p = "terms" -> source.terms [] p = "meta" -> source.meta
                [] p = "kanji" -> source.kanji [] p = "kanjiMeta" -> source.kanjiMeta
WriteKeyedBank ==
    /\ phase \in {"meta", "kanji", "kanjiMeta"} /\ bank <= Len(BanksOf(phase))
    /\ file' = file \o Processed.data
    /\ offsets' = offsets \o Rebased(Processed, write_offset)
    /\ write_offset' = write_offset + Len(Processed.data)
    /\ bank' = bank + 1
    /\ UNCHANGED <<source, low_ram, phase, glossaries, long_keys, hash_entries, total>>

\* the writer of one kind of bank returns; an empty dictionary fails
NextWriter ==
    /\ phase \in {"terms", "meta", "kanji", "kanjiMeta"} /\ bank > Len(BanksOf(phase))
    /\ phase = "kanjiMeta" => offsets # <<>>
    /\ phase' = NextPhase(phase) /\ bank' = 1
    /\ UNCHANGED <<source, low_ram, file, write_offset, glossaries, offsets, long_keys, hash_entries, total>>

\* std::sort orders the pairs; radix_sort orders by hash alone and is stable
Before(i, j) ==
    LET a == offsets[i]
        b == offsets[j]
    IN  \/ a[1] < b[1]
        \/ a[1] = b[1] /\ (IF low_ram /\ a[2] # b[2] THEN a[2] < b[2] ELSE i < j)
Sorted ==
    LET place == [i \in DOMAIN offsets |-> Cardinality({j \in DOMAIN offsets : Before(j, i)}) + 1]
    IN  [k \in DOMAIN offsets |-> offsets[CHOOSE i \in DOMAIN offsets : place[i] = k]]

\* one group per hash: how many records, then where each one is
Starts(s) == {i \in DOMAIN s : i = 1 \/ s[i - 1][1] # s[i][1]}
GroupSize(s, i) == Cardinality({k \in DOMAIN s : s[k][1] = s[i][1]})
GroupAt(s, i) == i - 1 + Cardinality({k \in Starts(s) : k < i})
Index(s) ==
    FlattenSeq([i \in DOMAIN s |-> (IF i \in Starts(s) THEN <<Number(GroupSize(s, i))>> ELSE <<>>) \o <<Number(s[i][2])>>])
Entries(s) ==
    FlattenSeq([i \in DOMAIN s |-> IF i \in Starts(s) THEN <<<<s[i][1], write_offset + GroupAt(s, i)>>>> ELSE <<>>])
BuildOffsetIndex ==
    /\ phase = "index"
    /\ LET sorted == Sorted
       IN  /\ file' = file \o Index(sorted)
           /\ write_offset' = write_offset + Len(Index(sorted))
           /\ hash_entries' = Entries(sorted)
    /\ phase' = "ready"
    /\ UNCHANGED <<source, low_ram, bank, glossaries, offsets, long_keys, total>>

Init ==
    /\ source \in Sources /\ low_ram \in BOOLEAN
    /\ phase = "terms" /\ bank = 1
    /\ file = <<>> /\ write_offset = 0
    /\ glossaries = <<>> /\ offsets = <<>> /\ long_keys = <<>> /\ hash_entries = <<>>
    /\ total = 0

Next == WriteTermBank \/ WriteKeyedBank \/ NextWriter \/ BuildOffsetIndex

Spec == Init /\ [][Next]_vars

-----------------------------------------------------------------------------
(* Reading.                                                                *)

\* read_value and str of a cursor at an offset
ValueAt(at) == file[at + 1][2]
TextAt(at, n) == SubSeq(file, at + 1, at + n)

\* linear::operator(): the offset of the group of a hash, or 0
Table(h) ==
    LET found == {i \in DOMAIN hash_entries : hash_entries[i][1] = h}
    IN  IF found = {} THEN 0 ELSE hash_entries[CHOOSE i \in found : TRUE][2]
GroupOf(t) ==
    LET at == Table(HashOf[t])
    IN  IF at = 0 THEN <<>> ELSE [i \in 1..ValueAt(at) |-> ValueAt(at + i)]

TermAt(at) ==
    LET n == ValueAt(at + 1)
        m == ValueAt(at + 2 + n)
        body == at + 3 + n + m
    IN  [expr |-> TextAt(at + 2, n), reading |-> TextAt(at + 3 + n, m),
         glossary |-> TextAt(ValueAt(body), ValueAt(body + 1)),
         tags |-> TextAt(body + 3, ValueAt(body + 2))]
KeyedAt(at) ==
    LET n == ValueAt(at + 1)
    IN  [expr |-> TextAt(at + 2, n), tags |-> TextAt(at + 3 + n, ValueAt(at + 2 + n))]

\* query_raw: a term record of the group, when it matches the expression
TermMatch(at, t) ==
    IF ValueAt(at) = 0 /\ (TermAt(at).expr = Pieces(t) \/ TermAt(at).reading = Pieces(t))
    THEN <<TermAt(at)>>
    ELSE <<>>
QueryTerms(t) == FlattenSeq([i \in DOMAIN GroupOf(t) |-> TermMatch(GroupOf(t)[i], t)])
\* the frequency, pitch and kanji readers: records of one type, by their key
KeyedMatch(at, t, type) ==
    IF ValueAt(at) = type /\ KeyedAt(at).expr = Pieces(t) THEN <<KeyedAt(at)>> ELSE <<>>
QueryKeyed(t, type) == FlattenSeq([i \in DOMAIN GroupOf(t) |-> KeyedMatch(GroupOf(t)[i], t, type)])

-----------------------------------------------------------------------------
(* What an import promises a query.                                        *)

\* Every variable has its type, and the importer, which never asks the stream
\* where it is, counts what it wrote and skipped as the file grows: the offsets
\* of the banks to come are rebased by that count.
TypeOK ==
    /\ source \in Sources /\ low_ram \in BOOLEAN
    /\ phase \in {Phases[i] : i \in 1..6} /\ bank \in Nat
    /\ write_offset = Len(file) /\ total \in Nat
    /\ \A g \in DOMAIN glossaries : g \in Glossaries /\ glossaries[g] \in Nat
    /\ \A i \in DOMAIN offsets : offsets[i][2] \in Nat
    /\ \A h \in DOMAIN long_keys : long_keys[h] \in 0..(Width.key - 1)

\* A glossary that several rows or several banks share is stored once, and
\* where the map says, however many spans of its bank were skipped before it:
\* what was written and skipped is counted as the file grows (TypeOK).
EachGlossaryOnce ==
    /\ TypeOK
    /\ \A g \in Glossaries : Cardinality({i \in DOMAIN file : file[i] = <<g, 1>>}) <= 1
    /\ \A g \in DOMAIN glossaries : TextAt(glossaries[g], Size[g]) = Pieces(g)

Rows == FlattenSeq(source.terms)
Read(row) == [expr |-> Pieces(row.expr), reading |-> Pieces(Reading(row)),
              glossary |-> Pieces(row.glossary), tags |-> Pieces(row.tags)]
ReadKeyed(row) == [expr |-> Pieces(row.expr), tags |-> Pieces(row.tags)]
IfReads(row, t) == IF t \in {row.expr, Reading(row)} THEN <<Read(row)>> ELSE <<>>
IfKeyed(row, t) == IF row.expr = t THEN <<ReadKeyed(row)>> ELSE <<>>

\* What write_str and note_long_key rely on and nothing checks: a text is
\* shorter than the width its length is written in.
FitsTerm(row) == Size[row.expr] < Width.key /\ Size[Reading(row)] < Width.key /\ Size[row.tags] < Width.tag
FitsKeyed(row, w) == Size[row.expr] < w /\ Size[row.tags] < Width.key
FitKeyed(banks, w) == \A b \in DOMAIN banks : \A i \in DOMAIN banks[b] : FitsKeyed(banks[b][i], w)
LengthsFit ==
    /\ \A b \in DOMAIN source.terms : \A i \in DOMAIN source.terms[b] : FitsTerm(source.terms[b][i])
    /\ FitKeyed(source.meta, Width.key) /\ FitKeyed(source.kanji, Width.tag) /\ FitKeyed(source.kanjiMeta, Width.key)

\* Of a dictionary whose texts fit the widths of their lengths, a query for a
\* text returns the rows spelt or read that way, all of them,
\* none twice, whole, and in the order the dictionary lists them, whichever
\* keys share a hash and whichever sort the import used.  Term metadata, kanji
\* and kanji metadata with the same key answer only the reader of their own
\* record type, in the same order.
QueryFindsExactly ==
    phase = "ready" /\ LengthsFit =>
        \A t \in Texts :
            /\ QueryTerms(t) = FlattenSeq([i \in DOMAIN Rows |-> IfReads(Rows[i], t)])
            /\ \A k \in {<<1, "meta">>, <<3, "kanjiMeta">>, <<2, "kanji">>} :
                   LET rows == FlattenSeq(BanksOf(k[2]))
                   IN  QueryKeyed(t, k[1]) = FlattenSeq([i \in DOMAIN rows |-> IfKeyed(rows[i], t)])

\* The scan index promises each long key that fits a uint16_t the length that
\* a scan needs to reach it, whatever longer keys start alike: the length of one
\* that wraps never hides the length of one that fits.
LongKeysCovered ==
    phase # "terms" =>
        \A i \in DOMAIN Rows : \A k \in {Rows[i].expr, Reading(Rows[i])} :
            Size[k] \in (LongMin + 1)..(Width.key - 1) => /\ PrefixOf[k] \in DOMAIN long_keys
                                                        /\ long_keys[PrefixOf[k]] >= Size[k]
=============================================================================
