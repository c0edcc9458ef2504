-------------------------- MODULE MCDictionaryFile --------------------------
EXTENDS DictionaryFile

\* "ab", "ac" and "noun" share a hash, "long" and "longer" a hash and a prefix;
\* "longest" has that prefix too, and no length prefix it fits
MCSize == [ab |-> 1, ac |-> 2, long |-> 3, longer |-> 4, longest |-> 6, none |-> 0, noun |-> 1, g |-> 2, h |-> 1, k |-> 1]
MCHashOf == [ab |-> 2, ac |-> 2, long |-> 1, longer |-> 1, longest |-> 3, noun |-> 2]
MCPrefixOf == [ab |-> 1, ac |-> 1, long |-> 2, longer |-> 2, longest |-> 2, noun |-> 3]
MCWidth == [key |-> 5, tag |-> 4]

Row(e, r, g, t) == [expr |-> e, reading |-> r, glossary |-> g, tags |-> t]
TermRows == {Row("ab", "none", "g", "none"), Row("ab", "long", "h", "none"),
             Row("ac", "longer", "g", "noun"), Row("long", "none", "k", "noun")}
Keyed(e, t) == [expr |-> e, tags |-> t]
Metadata == {[meta |-> <<>>, kanji |-> <<>>, kanjiMeta |-> <<>>],
             [meta |-> <<<<Keyed("ab", "noun"), Keyed("ac", "noun")>>, <<Keyed("ab", "none")>>>>,
              kanji |-> <<<<Keyed("ab", "none")>>>>, kanjiMeta |-> <<<<Keyed("ab", "noun")>>>>]}
Import(t, m) == [terms |-> t, meta |-> m.meta, kanji |-> m.kanji, kanjiMeta |-> m.kanjiMeta]
UpTo(n) == UNION {[1..m -> TermRows] : m \in 0..n}
MCSources == {Import(<<x, y>>, m) : x \in UpTo(2), y \in UpTo(2), m \in Metadata}
\* three banks, so that glossaries of two earlier ones are skipped
MCThreeBanks == {Import(<<x, y, z>>, m) : x \in UpTo(1), y \in UpTo(1), z \in [1..3 -> TermRows],
                                          m \in {[meta |-> <<>>, kanji |-> <<>>, kanjiMeta |-> <<>>]}}
Beyond == Row("longest", "ac", "h", "none")
MCTooLong == {Import(<<<<x, Beyond>>, <<y>>>>, m) : x, y \in TermRows \cup {Beyond}, m \in Metadata}
MCAllSources == MCSources \cup MCThreeBanks \cup MCTooLong
=============================================================================
