----------------------------- MODULE RussianRules -----------------------------
(***************************************************************************)
(* languages/ru/sources/build-own.mjs: the Russian rules.  An oblique noun *)
(* may also leave a stem without its fleeting vowel (fl), which only the   *)
(* rules that write a vowel there take; a comparative in po- loses its     *)
(* prefix first (cmp); a participle is declined as an adjective, whose     *)
(* masculine the participle rules read as its verb.  Two tables that write *)
(* one rule for two forms make one rule of both: that is decided by        *)
(* letters, and left out.                                                  *)
(***************************************************************************)
EXTENDS PackFamilies, Sequences

NOUN == {"n", "name"}
ADJ  == {"adj"}
VERB == {"v"}
PRON == {"pron"}
NUM  == {"num"}
LONG == ADJ \cup NOUN    \* the long forms of adjectives: nouns and names are declined like them too
conditions == Words("verb", VERB) @@ Words("noun", NOUN) @@ Words("adjective", ADJ) @@ Words("pronoun", PRON)
    @@ Words("numeral", NUM) @@ Marks({"noun"}, {"fl"}) @@ Marks({"adjective"}, {"cmp"})

(* The rules of the endings that differ in letters only become one row,    *)
(* crossProducts(): one kind stands for both.                              *)
put(pos, forms, kind, in, out)  == { Family(pos \o "-" \o f, kind, in, out) : f \in forms }
suffix(pos, forms, in, out)     == put(pos, forms, "suffix", in, out)
wholeWord(pos, forms, in, out)  == put(pos, forms, "wholeWord", in, out)
prefixRule(pos, forms, in, out) == put(pos, forms, "prefix", in, out)

(* A verb's form and its reflexive; a participle may have been declined    *)
(* first, so its rule takes an adjective.                                  *)
PARTICIPLES == {"ptcp.pres.act", "ptcp.past.act", "ptcp.pres.pass", "ptcp.past.pass"}
verb(forms) == suffix("verb", forms \ PARTICIPLES, {}, VERB)
               \cup { Deriving(f) : f \in suffix("verb", forms \cap PARTICIPLES, ADJ, VERB) }

(* Nouns.                                                                  *)
PLURAL  == {"nom.pl", "gen.pl", "dat.pl", "ins.pl", "prp.pl"}
OBLIQUE == {"gen.sg", "dat.sg", "ins.sg", "prp.sg", "loc.sg"} \cup PLURAL
noun(forms, fleeting) ==
    suffix("noun", forms, {}, NOUN) \cup (IF fleeting THEN suffix("noun", forms \cap OBLIQUE, {}, {"fl"}) ELSE {})
Masculines    == noun(OBLIQUE, TRUE)
Feminines     == noun((OBLIQUE \ {"loc.sg"}) \cup {"acc.sg"}, FALSE) \cup noun(OBLIQUE \ {"loc.sg"}, TRUE)
Neuters       == noun(OBLIQUE, FALSE)
Plurals       == suffix("noun", PLURAL, {}, NOUN)
FLEETING      == suffix("noun", {"fleeting"}, {"fl"}, NOUN)
IrregularNouns == wholeWord("noun", OBLIQUE, {}, NOUN)

(* Adjectives.                                                             *)
ENDINGS == {"gen.m", "dat.m", "ins.m", "prp.m", "nom.n", "nom.f", "acc.f", "gen.f", "nom.pl", "gen.pl", "dat.pl", "ins.pl"}
adjective(forms, out) == suffix("adj", forms, {}, out)
LongForms == adjective(ENDINGS, LONG)
\* nouns declined as feminine or neuter adjectives; reflexive participles; possessives and surnames
DeclinedAsAdjectives == adjective(ENDINGS, {"n"}) \cup adjective(ENDINGS, ADJ) \cup adjective(ENDINGS \ {"nom.n"}, LONG)
SHORT      == {"short.m", "short.f", "short.n", "short.pl"}
ShortForms == adjective(SHORT, ADJ) \cup wholeWord("adj", SHORT, {}, ADJ)
\* a comparative is read after po- only: the bare one is a word of the dictionary
Comparatives ==
    prefixRule("adj", {"po"}, {}, {"cmp"}) \cup suffix("adj", {"cmp"}, {"cmp"}, ADJ) \cup wholeWord("adj", {"cmp"}, {"cmp"}, ADJ)
        \cup adjective({"adverb"}, ADJ) \cup suffix("adj", {"sup"}, ADJ, ADJ)

(* Verbs.                                                                  *)
PAST    == {"past.m", "past.f", "past.n", "past.pl"}
PRESENT == {"pres.1sg", "pres.2sg", "pres.3sg", "pres.1pl", "pres.2pl", "pres.3pl"}
IMP     == {"imp.2sg", "imp.2pl"}
FromTheInfinitive == verb(PAST \cup {"ptcp.past.act", "ger.past", "ptcp.past.pass"})
presentClass(imp, act, pass, ger) ==
    verb(PRESENT \cup (IF imp THEN IMP ELSE {}) \cup (IF act THEN {"ptcp.pres.act"} ELSE {})
         \cup (IF pass THEN {"ptcp.pres.pass"} ELSE {}) \cup (IF ger THEN {"ger.pres"} ELSE {}))
FirstConjugation  == UNION { presentClass(imp, act, pass, ger) : <<imp, act, pass, ger>> \in
                                {<<TRUE, TRUE, TRUE, TRUE>>, <<FALSE, TRUE, FALSE, FALSE>>, <<TRUE, FALSE, FALSE, FALSE>>} }
SecondConjugation == presentClass(TRUE, TRUE, TRUE, TRUE) \cup wholeWord("verb", {"imp.2sg"}, {}, VERB)
                     \cup verb({"ptcp.past.pass"})
ConsonantPast     == verb(PAST \cup PRESENT \cup IMP \cup {"ptcp.past.act", "ger.past", "ptcp.past.pass"})
                     \cup wholeWord("verb", PAST \cup {"ptcp.past.act"}, {}, VERB)
IRREGULAR         == verb(PAST \cup PRESENT \cup IMP \cup {"ger.past", "ger.pres"} \cup PARTICIPLES)
ToEat             == wholeWord("verb", PRESENT \cup PAST \cup IMP, {}, VERB) \cup suffix("verb", PRESENT \cup PAST \cup IMP, {}, VERB)
OtherVerbs        == verb(PRESENT \cup PAST \cup IMP \cup {"ger.pres", "ger.past"}) \cup wholeWord("verb", PRESENT \cup PAST, {}, VERB)
                     \cup FLEETING \cup Plurals

(* Pronouns and numerals, whole words.                                     *)
closed(pos, cond) == wholeWord(pos, ENDINGS \cup {"gen.sg", "dat.sg", "ins.sg", "prp.sg", "acc.sg"}, {}, cond)
Pronouns == closed("pron", PRON)
Numerals == closed("num", NUM)

(* Frequent words a regular ending reads as a rarer one.                   *)
FrequentWords ==
    wholeWord("adj", ENDINGS \cup SHORT, {}, ADJ) \cup wholeWord("noun", OBLIQUE \cup {"acc.sg"}, {}, NOUN)
        \cup wholeWord("adj", ENDINGS, {}, NOUN) \cup wholeWord("verb", {"pres.1sg", "imp.2sg", "ptcp.past.pass"}, {}, VERB)
        \cup wholeWord("num", {"dat.pl"}, {}, NUM)

Pack == [conditions |-> conditions,
         families   |-> Masculines \cup Feminines \cup Neuters \cup Plurals \cup FLEETING \cup IrregularNouns \cup LongForms
                        \cup DeclinedAsAdjectives \cup ShortForms \cup Comparatives \cup FromTheInfinitive \cup FirstConjugation
                        \cup SecondConjugation \cup ConsonantPast \cup IRREGULAR \cup ToEat \cup OtherVerbs \cup Pronouns
                        \cup Numerals \cup FrequentWords]
===============================================================================
