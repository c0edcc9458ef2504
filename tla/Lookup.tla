------------------------------- MODULE Lookup -------------------------------
(***************************************************************************)
(* One lookup: Lookup::lookup_impl of src/src/lookup.cpp.  It scans the     *)
(* prefixes of a text from the longest down, goes on to longer ones when    *)
(* the text begins like a long key, follows the form-of references it read, *)
(* lets the variant passes read what lies beyond every match, adds terms    *)
(* that only metadata dictionaries have, and ranks what it found.           *)
(*                                                                          *)
(* A text is a name; what the processors and the deinflector make of a      *)
(* prefix is a choice among ReadingsAt of it, which need not hold the text  *)
(* as it is written, and what the dictionaries hold is a constant.  The     *)
(* limits and the work budget of the processors show only in how much these *)
(* return, so they are part of the choice.  Left out: the                   *)
(* normalizers of readings and references (a term is a name too, one for    *)
(* every key), collected frequencies and pitches, and the trace's wording.  *)
(***************************************************************************)
EXTENDS Integers, FiniteSets, SequencesExt

CONSTANTS
    TextLen,     \* length of the text, in code points
    PrefixLen,   \* scan_index::long_key_prefix_codepoints
    LongMin,     \* scan_index::long_key_min_codepoints
    LongMax,     \* longest key whose length its uint16_t holds
    Slack,       \* scan_index::inflection_slack_codepoints
    TextAt,      \* what each prefix reads, as it is written
    ReadingsAt,  \* the deinflections of a prefix: a set of sequences
    PrefixTexts, \* the texts long keys are recognised by: a set of sets
    PassesAt,    \* those of its readings in the variant passes
    Info,        \* per term: expr, tags, only_form_of, freq, rank, score, key
    TermsAt,     \* per text: the terms with glossaries written or read that way
    RowsAt,      \* per text: its rows with form-of references
    MetaAt,      \* per text: the terms its metadata rows name; if none, itself
    Tags,        \* parts of speech
    Requests     \* what packs and callers ask for

Terms == DOMAIN Info
Forms == DOMAIN TermsAt
Deinflection == [form : Forms, steps : Nat, depth : Nat, whole : BOOLEAN, conditions : SUBSET Tags]
Reference == [to : Forms, rules : Nat]

ASSUME LookupAssumption ==
    /\ {TextLen, LongMin, LongMax, Slack} \subseteq Nat /\ PrefixLen \in 1..LongMin
    /\ TextAt \in [1..TextLen -> Forms]
    /\ \A p \in 1..TextLen : ReadingsAt[p] \cup PassesAt[p] \subseteq Seq(Deinflection)
    /\ PrefixTexts \subseteq SUBSET Forms
    /\ \A t \in Terms : Info[t].tags \subseteq Tags /\ {Info[t].freq, Info[t].rank, Info[t].score, Info[t].key} \subseteq Int
    /\ \A t, u \in Terms : Info[t].key = Info[u].key => t = u
    /\ \A f \in Forms : /\ TermsAt[f] \in Seq(Terms)
                        /\ RowsAt[f] \in Seq([tags : SUBSET Tags, ignored : BOOLEAN, references : Seq(Reference)])
                        /\ MetaAt[f].named \in Seq(Terms) /\ MetaAt[f].itself \in Seq(Terms)
    /\ \A r \in Requests :
          /\ {r.follow, r.shortest, r.own_after, r.by_references, r.by_word, r.passes, r.metadata_only} \subseteq BOOLEAN
          /\ {r.scan_length, r.max_results} \subseteq Nat /\ r.long_key \in [Forms -> 0..LongMax]

\* The scan index knows every key longer than its minimum by the text it begins
\* with, as long as its length fits (LongKeysCovered of DictionaryFile), perhaps
\* by a longer one that begins alike.
ASSUME LongKeyAssumption ==
    \A r \in Requests, p \in (LongMin + 1..LongMax) \cap (1..TextLen) :
        ToSet(TermsAt[TextAt[p]]) \cap r.selected # {} => r.long_key[TextAt[PrefixLen]] >= p

VARIABLES
    ask,         \* the request with its language pack, resolved
    phase,
    todo,        \* prefixes still to be read in this phase
    scanned,     \* prefixes read by the scan and its extension, in order
    results,     \* what was made of each of them
    prefix_variants, \* the texts long keys are recognised by
    found,       \* the candidates, and every hit so far
    followed,    \* the references noted, and how many of them are done
    followed_done,
    probes,      \* metadata_probes
    ordinary,    \* the candidates before the variant passes
    result       \* what is returned: places of candidates

vars == <<ask, phase, todo, scanned, results, prefix_variants, found, followed, followed_done, probes, ordinary, result>>

Least(a, b) == IF a < b THEN a ELSE b
Most(a, b) == IF a > b THEN a ELSE b
Down(hi, lo) == [i \in 1..Most(0, hi - lo + 1) |-> hi + 1 - i]

\* the elements of s that are in S, in their order
Those(s, S) == FlattenSeq([i \in DOMAIN s |-> IF s[i] \in S THEN <<s[i]>> ELSE <<>>])

-----------------------------------------------------------------------------
(* Which prefixes are read.                                                 *)

\* a position where a word ends; every position with character resolution
Boundary(p) == \/ ~ask.by_word
               \/ p = TextLen
               \/ ask.word[p] /\ ~ask.word[p + 1]

\* scan_length, up to the end of the word it ends in
Window ==
    LET start == Least(ask.scan_length, TextLen)
        inside == ask.by_word /\ start \in 1..TextLen - 1 /\ ask.word[start]
        ends == {q \in start..TextLen : \A k \in start + 1..q : ask.word[k]}
    IN  IF inside THEN CHOOSE q \in ends : \A r \in ends : r <= q ELSE start

Boundaries == {p \in 1..TextLen : Boundary(p)}
Scan == Those(Down(Window, 1), Boundaries)

\* the longest key that begins like one of the texts
LongKey(texts) == Max({0} \cup {ask.long_key[t] : t \in texts})
Extends(texts) == TextLen > ask.scan_length /\ LongKey(texts) > ask.scan_length

\* Faulty variant: goes on from the scan length, whatever word it ended in.
ExtensionFromScanLength(texts) ==
    IF Extends(texts)
    THEN Those(Down(Least(LongKey(texts) + Slack, TextLen), ask.scan_length + 1), Boundaries) ELSE <<>>

Extension(texts) ==
    IF Extends(texts) THEN Those(Down(Least(LongKey(texts) + Slack, TextLen), Window + 1), Boundaries) ELSE <<>>

-----------------------------------------------------------------------------
(* Merging what one deinflection finds.                                     *)

\* Faulty variant: a later hit of the same length replaces the first.
BetterOrAsLong(h, c) ==
    \/ h.len >= c.len
    \/ /\ ask.shortest /\ h.len = c.len
       /\ h.steps < c.steps \/ (h.steps = c.steps /\ h.depth < c.depth)

Better(h, c) ==
    \/ h.len > c.len
    \/ /\ ask.shortest /\ h.len = c.len
       /\ h.steps < c.steps \/ (h.steps = c.steps /\ h.depth < c.depth)

\* a confirming reference counts at the longest length, and there the first
Confirm(c, h) ==
    IF ~h.confirms \/ h.len < c.confirmed_len THEN c
    ELSE [c EXCEPT !.confirmed_len = h.len,
                   !.confirmed_rank = IF h.len > c.confirmed_len THEN h.sequence
                                      ELSE Least(@, h.sequence)]

\* what a better hit replaces of a candidate
Trace(h) == [len |-> h.len, form |-> h.form, steps |-> h.steps, depth |-> h.depth, reference |-> h.reference]
Retrace(c, h) == [c EXCEPT !.len = h.len, !.form = h.form, !.steps = h.steps, !.depth = h.depth, !.reference = h.reference]

Take(c, h) ==
    LET kept == [Confirm(c, h) EXCEPT !.whole_word_len = IF h.whole THEN Most(@, h.len) ELSE @]
    IN  IF Better(h, c) THEN Retrace(kept, h) ELSE kept

\* a candidate before its first hit
Blank(h) ==
    [term |-> h.term, glossary |-> h.glossary, rank |-> h.rank,
     len |-> h.len, form |-> h.form, steps |-> h.steps, depth |-> h.depth, reference |-> h.reference,
     confirmed_len |-> 0, confirmed_rank |-> 0, whole_word_len |-> 0]

\* one term of add_terms: to the candidate of its key, or as a new one
Collect(cs, h) ==
    IF \E i \in DOMAIN cs : cs[i].term = h.term
    THEN [i \in DOMAIN cs |-> IF cs[i].term = h.term THEN Take(cs[i], h) ELSE cs[i]]
    ELSE Append(cs, Take(Blank(h), h))
Add(f, h) == [candidates |-> Collect(f.candidates, h), hits |-> Append(f.hits, h)]
AddAll(f, hs) ==
    LET after[i \in 0..Len(hs)] == IF i = 0 THEN f ELSE Add(after[i - 1], hs[i])
    IN  after[Len(hs)]

Hit(t, len, d) ==
    [term |-> t, len |-> len, form |-> d.form, steps |-> d.steps, depth |-> d.depth,
     whole |-> ask.follow /\ d.whole, reference |-> FALSE, confirms |-> FALSE, sequence |-> 0,
     glossary |-> TRUE, rank |-> 0]

\* query_raw: with form-of references followed, rows that are nothing else are no terms
Query(form) == Those(TermsAt[form], {t \in Terms \cap ask.selected : ~(ask.follow /\ Info[t].only_form_of)})

\* filter_by_pos, row_passes
Passes(conditions, tags) == conditions = {} \/ conditions \cap tags # {}

\* note_references: those of the rows that pass and carry no ignored rule
References(d) ==
    LET Notes(row) == ask.follow /\ Passes(d.conditions, row.tags) /\ ~row.ignored
    IN  FlattenSeq([i \in DOMAIN RowsAt[d.form] |->
                        IF Notes(RowsAt[d.form][i]) THEN RowsAt[d.form][i].references ELSE <<>>])
Noted(len, d) ==
    [i \in DOMAIN References(d) |->
        [to |-> References(d)[i].to, rules |-> References(d)[i].rules, len |-> len, from |-> d]]

\* what merge adds for one deinflection of a prefix
Matches(len, d) ==
    LET terms == Those(Query(d.form), {t \in Terms : Passes(d.conditions, Info[t].tags)})
    IN  [k \in DOMAIN terms |-> Hit(terms[k], len, d)]
Merge(len, ds) ==
    /\ found' = AddAll(found, FlattenSeq([i \in DOMAIN ds |-> Matches(len, ds[i])]))
    /\ followed' = followed \o FlattenSeq([i \in DOMAIN ds |-> Noted(len, ds[i])])

\* follow_noted: one hop each, from where the last call stopped
ReferenceMatches(i) ==
    LET r == followed[i]
        terms == Query(r.to)
    IN  [k \in DOMAIN terms |->
            [Hit(terms[k], r.len, r.from) EXCEPT !.form = r.to, !.depth = @ + r.rules, !.reference = TRUE,
                                                 !.confirms = r.from.depth = 0, !.sequence = i]]
Follow ==
    /\ found' = AddAll(found, FlattenSeq([k \in 1..Len(followed) - followed_done |->
                                            ReferenceMatches(followed_done + k)]))
    /\ followed_done' = Len(followed)

\* the terms that the metadata rows of a text are
Defined == {c \in ToSet(found.candidates) : c.glossary}
MetadataTerms(form) ==
    IF MetaAt[form].named = <<>> /\ ~(\E c \in Defined : Info[c.term].expr = form)
    THEN MetaAt[form].itself ELSE MetaAt[form].named

\* a term with glossaries has its metadata already
MetadataMatches(probe) ==
    LET terms == MetadataTerms(probe.from.form)
        One(i) == [Hit(terms[i], probe.len, probe.from) EXCEPT !.glossary = FALSE, !.rank = i]
    IN  FlattenSeq([i \in DOMAIN terms |-> IF \E c \in Defined : c.term = terms[i] THEN <<>> ELSE <<One(i)>>])

-----------------------------------------------------------------------------
(* Ranking.                                                                 *)

Confirmed(c) == c.confirmed_len = c.len
WholeWord(c) == c.whole_word_len = c.len

\* the trace lengths of the confirmed terms that a text's own entry goes after
ConfirmedDepths(c) ==
    {d.depth : d \in {e \in ToSet(found.candidates) :
                          e.glossary /\ Confirmed(e) /\ e.len = c.len /\ e.steps = c.steps}}
AfterReferences(c) ==
    /\ ask.follow /\ ask.own_after
    /\ c.glossary /\ c.depth = 0 /\ ~c.reference /\ ~Confirmed(c)
    /\ ConfirmedDepths(c) # {}

RankDepth(c) == IF AfterReferences(c) THEN Min(ConfirmedDepths(c)) ELSE c.depth
\* Faulty variant: confirmed terms have no standing of their own.
StandingUnconfirmed(c) ==
    IF ~(ask.follow /\ c.glossary) THEN 0
    ELSE IF AfterReferences(c) THEN 1
    ELSE IF WholeWord(c) THEN 3
    ELSE 0

Standing(c) ==
    IF ~(ask.follow /\ c.glossary) THEN 0
    ELSE IF AfterReferences(c) THEN 1
    ELSE IF WholeWord(c) THEN (IF Confirmed(c) THEN 4 ELSE 3)
    ELSE IF Confirmed(c) THEN 2 ELSE 0

First(b) == IF b THEN 0 ELSE 1
Primary(c) == c.term \in ask.primary

\* the keys of `less` up to the score, smaller first; the score here includes
\* the last of them, that a term is written as it is read
RankKeys(c) ==
    <<First(Primary(c)), -c.len, c.steps, RankDepth(c), -Standing(c), First(Info[c.term].expr = c.form),
      -Info[c.term].freq, IF c.glossary THEN Info[c.term].rank ELSE c.rank, -Info[c.term].score>>

Before(x, y) == \E i \in DOMAIN x : x[i] < y[i] /\ \A j \in 1..i - 1 : x[j] = y[j]

Less(i, j) ==
    LET a == found.candidates[i]
        b == found.candidates[j]
        ByReference == ask.by_references /\ Confirmed(a) /\ Confirmed(b) /\ a.confirmed_rank # b.confirmed_rank
    IN  \/ Before(RankKeys(a), RankKeys(b))
        \/ /\ RankKeys(a) = RankKeys(b)
           /\ IF ask.follow /\ ByReference THEN a.confirmed_rank < b.confirmed_rank ELSE ask.follow /\ i < j

Places == DOMAIN found.candidates
Lesser == {p \in Places \X Places : Less(p[1], p[2])}
InOrder(s, lesser) == \A i, j \in DOMAIN s : i < j => <<s[j], s[i]>> \notin lesser
WithGlossaries == {i \in Places : found.candidates[i].glossary}

\* by_length, and what std::merge does with it: the first list's on a tie
ByLength(i, j) ==
    LET a == found.candidates[i]
        b == found.candidates[j]
    IN  IF Primary(a) # Primary(b) THEN Primary(a) ELSE a.len > b.len
\* the elements of a sequence by a relation of its places
Arranged(s, before) ==
    LET place == [i \in DOMAIN s |-> Cardinality({j \in DOMAIN s : <<j, i>> \in before}) + 1]
    IN  [k \in DOMAIN s |-> s[CHOOSE i \in DOMAIN s : place[i] = k]]

Merged(s, m) ==
    LET both == s \o m
    IN  Arranged(both, {p \in (DOMAIN both) \X (DOMAIN both) :
                           \/ ByLength(both[p[1]], both[p[2]])
                           \/ ~ByLength(both[p[2]], both[p[1]]) /\ p[1] < p[2]})

MetadataOrder ==
    LET s == Those([i \in Places |-> i], Places \ WithGlossaries)
        Key(x) == Info[found.candidates[s[x]].term].key
    IN  Arranged(s, {p \in (DOMAIN s) \X (DOMAIN s) :
                        \/ Less(s[p[1]], s[p[2]])
                        \/ ~Less(s[p[2]], s[p[1]]) /\ Key(p[1]) < Key(p[2])})

\* what a sort may make of S: any of the least of the rest, one by one
Sortings(S, lesser) ==
    LET LeastOf(rest) == {i \in rest : \A j \in rest : <<j, i>> \notin lesser}
        after[k \in 0..Cardinality(S)] ==
            IF k = 0 THEN {<<>>}
            ELSE UNION {{Append(s, i) : i \in LeastOf(S \ ToSet(s))} : s \in after[k - 1]}
    IN  after[Cardinality(S)]

Retained == Least(Len(found.candidates), ask.max_results)
UpTo(s, n) == SubSeq(s, 1, Least(Len(s), n))

-----------------------------------------------------------------------------
(* The lookup.                                                              *)

Init ==
    /\ ask \in Requests
    /\ phase = "scan"
    /\ todo = Scan
    /\ scanned = <<>> /\ results = <<>> /\ prefix_variants = {}
    /\ found = [candidates |-> <<>>, hits |-> <<>>]
    /\ followed = <<>> /\ followed_done = 0 /\ probes = <<>>
    /\ ordinary = <<>>
    /\ result = <<>>

\* scan_prefix: looks up what the processors and the deinflector make of a
\* prefix, and nothing else: the text as it is written only when it is of that
ScanPrefix ==
    /\ phase \in {"scan", "extension"} /\ todo # <<>>
    /\ \E all \in ReadingsAt[Head(todo)] :
           LET bare == Those(all, {d \in ToSet(all) : ask.metadata_only /\ d.conditions = {}})
           IN  /\ Merge(Head(todo), all)
               /\ probes' = probes \o [i \in DOMAIN bare |-> [len |-> Head(todo), from |-> bare[i]]]
               /\ results' = Append(results, all)
    /\ scanned' = Append(scanned, Head(todo))
    /\ todo' = Tail(todo)
    /\ UNCHANGED <<ask, phase, prefix_variants, followed_done, ordinary, result>>

\* a scan that does not get to the prefix has no texts to recognise keys by
Extend ==
    /\ phase = "scan" /\ todo = <<>>
    /\ prefix_variants' \in IF Window >= PrefixLen THEN PrefixTexts ELSE {{}}
    /\ phase' = "extension"
    /\ todo' = Extension(prefix_variants')
    /\ UNCHANGED <<ask, scanned, results, found, followed, followed_done, probes, ordinary, result>>

OrdinaryLen(cs) == Max({0} \cup {c.len : c \in ToSet(cs)})

\* Faulty variant: measures the ordinary matches before their references.
FollowScanLate ==
    /\ phase = "extension" /\ todo = <<>>
    /\ Follow
    /\ ordinary' = found'.candidates
    /\ todo' = IF ask.passes THEN Those(scanned, {p \in 1..TextLen : p > OrdinaryLen(found.candidates)}) ELSE <<>>
    /\ phase' = "passes"
    /\ UNCHANGED <<ask, scanned, results, prefix_variants, followed, probes, result>>

\* the references of the scan; the passes read what is longer than every match
FollowScan ==
    /\ phase = "extension" /\ todo = <<>>
    /\ Follow
    /\ ordinary' = found'.candidates
    /\ todo' = IF ask.passes THEN Those(scanned, {p \in 1..TextLen : p > OrdinaryLen(ordinary')}) ELSE <<>>
    /\ phase' = "passes"
    /\ UNCHANGED <<ask, scanned, results, prefix_variants, followed, probes, result>>

\* one prefix of read_passes, which stops for good when the budget is spent
ReadPasses ==
    /\ phase = "passes" /\ todo # <<>>
    /\ \E readings \in PassesAt[Head(todo)], more \in BOOLEAN :
           /\ Merge(Head(todo), readings)
           /\ todo' = IF more THEN Tail(todo) ELSE <<>>
    /\ UNCHANGED <<ask, phase, scanned, results, prefix_variants, followed_done, probes, ordinary, result>>

FollowPasses ==
    /\ phase = "passes" /\ todo = <<>>
    /\ Follow
    /\ phase' = "metadata"
    /\ UNCHANGED <<ask, todo, scanned, results, prefix_variants, followed, probes, ordinary, result>>

AddMetadata ==
    /\ phase = "metadata"
    /\ found' = AddAll(found, FlattenSeq([k \in DOMAIN probes |-> MetadataMatches(probes[k])]))
    /\ phase' = "rank"
    /\ UNCHANGED <<ask, todo, scanned, results, prefix_variants, followed, followed_done, probes, ordinary, result>>

\* partial_sort leaves ties as it likes, also at the cut
Rank ==
    /\ phase = "rank"
    /\ \E order \in Sortings(WithGlossaries, Lesser) :
           result' = UpTo(Merged(UpTo(order, Retained), MetadataOrder), Retained)
    /\ phase' = "done"
    /\ UNCHANGED <<ask, todo, scanned, results, prefix_variants, found, followed, followed_done, probes, ordinary>>

Next == ScanPrefix \/ Extend \/ FollowScan \/ ReadPasses \/ FollowPasses \/ AddMetadata \/ Rank

Spec == Init /\ [][Next]_vars

-----------------------------------------------------------------------------
(* What a caller may rely on.                                               *)

\* "A term keeps the first deinflection that reached it at its longest matched
\* length; with `shortest` the one with the fewest processor steps, then the
\* shortest trace, then the first" (docs/languages.md 9.6), in whatever order
\* the scan, its extension, references and passes reached it.  And it is
\* confirmed, with the first reference that confirms it, or reached by a whole
\* word, when any hit of that length says so, whichever trace it keeps.
EachTermAtItsBest ==
    LET hits == found.hits
    IN  /\ \A i, j \in Places : found.candidates[i].term = found.candidates[j].term => i = j
        /\ \A h \in ToSet(hits) : \E i \in Places : found.candidates[i].term = h.term
        /\ \A c \in ToSet(found.candidates) :
            LET own == {i \in DOMAIN hits : hits[i].term = c.term}
                longest == {i \in own : \A j \in own : hits[j].len <= hits[i].len}
                Cost(i) == IF ask.shortest THEN <<hits[i].steps, hits[i].depth, i>> ELSE <<i>>
                confirming == {i \in longest : hits[i].confirms}
            IN  /\ \E i \in longest : /\ \A j \in longest \ {i} : Before(Cost(i), Cost(j))
                                      /\ Trace(hits[i]) = Trace(c)
                /\ Confirmed(c) <=> confirming # {}
                /\ Confirmed(c) => c.confirmed_rank = Min({hits[i].sequence : i \in confirming})
                /\ WholeWord(c) <=> \E i \in longest : hits[i].whole

\* a prefix the scan must read: within its length, or a long key whose first
\* code points are, as written, among the texts long keys are recognised by
InReach(p) ==
    \/ p <= ask.scan_length
    \/ /\ p \in LongMin + 1..LongMax
       /\ TextAt[PrefixLen] \in prefix_variants
       /\ ToSet(TermsAt[TextAt[p]]) \cap ask.selected # {}

\* Every prefix in reach that ends where the scan looks is read, long keys too,
\* no prefix is read twice, and every term that something made of a prefix is
\* written as, or read as, is a candidate of at least that length.  So a key as
\* it is written is found when the processors keep the text, and need not be
\* when they replace it (keepInput, or their limit of variants).
ReachesKeys ==
    phase \in {"passes", "metadata", "rank"} =>
        /\ IsInjective(scanned)
        /\ \A p \in 1..TextLen : Boundary(p) /\ InReach(p) => p \in ToSet(scanned)
        /\ \A k \in DOMAIN scanned : \A d \in ToSet(results[k]) : \A t \in ToSet(Query(d.form)) :
              Passes(d.conditions, Info[t].tags) =>
                  \E c \in ToSet(found.candidates) : c.term = t /\ c.len >= scanned[k]

\* `less` is a strict weak order of whatever a lookup found, as std::sort
\* demands, although its last keys compare only some pairs; and for packs that
\* follow references it leaves no ties ("the same on every platform").
LessIsAnOrder ==
    phase = "rank" =>
        LET lesser == Lesser
        IN  /\ \A p \in lesser : <<p[2], p[1]>> \notin lesser
            /\ \A p \in lesser, j \in Places : <<p[1], j>> \in lesser \/ <<j, p[2]>> \in lesser
            /\ ask.follow => \A i, j \in Places : i # j => <<i, j>> \in lesser \/ <<j, i>> \in lesser

\* Passes "can only add a term or lengthen one; every ordinary result above is
\* otherwise kept as it is", and what they add or lengthen is longer than all
\* of those.  Metadata terms move no term with glossaries: these are in their
\* order, and each metadata term follows those that read as far and precedes
\* those that read less.  What the limit cuts off is last.
ExtrasMoveNothing ==
    phase = "done" =>
        LET At(i) == found.candidates[i]
            terms == Those(result, WithGlossaries)
            lesser == Lesser
        IN  /\ \A i \in WithGlossaries : (i \in DOMAIN ordinary /\ At(i) = ordinary[i]) \/ At(i).len > OrdinaryLen(ordinary)
            /\ \A i \in DOMAIN ordinary : At(i).term = ordinary[i].term
            /\ IsInjective(result) /\ Len(result) = Retained
            /\ InOrder(terms, lesser)
            /\ \A i \in ToSet(terms), j \in WithGlossaries \ ToSet(terms) : <<j, i>> \notin lesser
            /\ \A i, j \in DOMAIN result :
                  LET m == At(result[i])
                      t == At(result[j])
                  IN  ~m.glossary /\ t.glossary /\ Primary(m) = Primary(t) => (i < j <=> m.len > t.len)
=============================================================================
