--------------------------- MODULE AncientGreekRules ---------------------------
(***************************************************************************)
(* languages/grc/sources/own-rules.mjs: the Ancient Greek rules.  A verb's *)
(* ending says which tense stem is left (markers fut, aor, pf ...); a rule *)
(* of that stem brings it to the present, or, for a past tense and a       *)
(* perfect, to a present that still has its augment (aug) or reduplication *)
(* (red, augred), which a prefix rule takes off.                           *)
(*                                                                         *)
(* compact() writes rules of one shape as one row, a whole word as a       *)
(* suffix after an empty stem: both are Suffix here, except the whole      *)
(* words it leaves alone (standing).                                       *)
(***************************************************************************)
EXTENDS PackFamilies

Conditions ==
    [v |-> Word("verb"), n |-> Word("noun"), adj |-> Word("adjective")] @@
    Marks({"adjective"}, {"fem", "neu"}) @@
    Marks({"verb"}, {"aug", "red", "augred", "fut", "aor", "aora", "aor2", "aor2a",
                     "aorp", "aorpa", "pf", "plpf", "pmp", "plpm"})

VB  == {"v"}
NA  == {"n", "adj"}
ADJ == {"adj"}
NAF == {"n", "adj", "fem"}

(* A rule and its twin without accents, and what the accent of the stem    *)
(* does, differ in letters only.                                           *)
emit(slot, in, out)    == { Suffix(slot, in, out) }
endings(slot, outs)    == UNION { emit(slot, {}, out) : out \in outs }

(* A word whose accent a rule removed takes the dictionary form's back:    *)
(* what is a verb stays a verb.                                            *)
AccentTransform ==
    { Suffix("accent", VB, VB), Suffix("accent", NA, NA), Pattern("accent", NA, NA) }

(* Cases of nouns and adjectives.  A genitive plural in -on is a noun's    *)
(* only on an unaccented stem, else a feminine adjective's; a neuter       *)
(* plural in -a may be an adjective's, read further by the neuter rules.   *)
firstGenitivePlural(adjective) ==
    IF adjective THEN emit("gen-pl", {}, {"n"}) \cup emit("gen-pl", {}, {"adj", "fem"})
    ELSE emit("gen-pl", {}, NA)
Cases ==
    emit("case", {}, NA) \cup emit("case", {}, NAF) \cup emit("na-pl", {}, NA \cup {"neu"})
        \cup firstGenitivePlural(TRUE) \cup firstGenitivePlural(FALSE)
Comparatives == emit("acc-sg", {}, ADJ)
Adjectives ==
    emit("feminine", {"fem"}, ADJ) \cup emit("neuter", {"neu"}, ADJ)
        \cup emit("comparative", ADJ, ADJ) \cup emit("superlative", ADJ, ADJ)
        \cup emit("plural-lemma", {}, NA) \cup emit("adverb", {}, ADJ)

(* Endings of the verb, by the stems they stand on.                        *)
OUT_PRIM == {"v", "fut"}
OUT_SUBJ == {"v", "aor", "aor2", "pf"}
OUT_OPT  == {"v", "fut", "aor2", "pf"}
OUT_IMP  == {"v", "aor2"}
OUT_INF  == {"v", "fut"}
OUT_PTC  == {"v", "fut", "aor2"}
OUT_SEC  == {"aug", "aor2a"}
thematicEndings ==
    endings("thematic", {OUT_PRIM, OUT_SEC, OUT_SUBJ, OUT_OPT, OUT_IMP, OUT_INF, {"aor2"}})
participles  == endings("participle", {OUT_PTC, {"aor2"}, {"aor"}, {"aorp"}, {"pf"}})
tenseEndings ==
    endings("tense", {{"aora", "pf"}, {"aora"}, {"pf"}, {"aor"}, {"aorpa"}, {"aorp"}, {"plpf"},
                      {"pmp"}, {"plpm"}})
MergedEndings == endings("merged", {{"red"}, {"augred"}})

(* Contract verbs: only those in -eo read a future too.                    *)
contractEndings ==
    UNION { endings("contract", {{"aug"}, VB, IF lemma = "eo" THEN OUT_PRIM ELSE VB})
              : lemma \in {"eo", "ao", "oo"} }

(* Tense stems to the present.                                             *)
SigmaAndLiquidStems ==
    emit("future", {"fut"}, VB) \cup emit("aorist", {"aor"}, VB) \cup emit("aorist", {"aora"}, {"aug"})
PassiveStems ==
    emit("aorist-passive", {"aorp"}, VB) \cup emit("aorist-passive", {"aorpa"}, {"aug"})
        \cup emit("future-passive", {"fut"}, {"aorp"})
PerfectStems ==
    emit("perfect", {"pf"}, {"red"}) \cup emit("perfect", {"plpf"}, {"augred"})
        \cup emit("perfect-lemma", {"pmp"}, VB) \cup emit("perfect-lemma", {"pf"}, VB)
        \cup emit("perfect-middle", {"pmp"}, {"red"}) \cup emit("perfect-middle", {"plpm"}, {"augred"})

(* Augment and reduplication: the pluperfect loses its augment first.      *)
Augments ==
    { Prefix("augment", {"aug"}, VB), Prefix("augment", {"augred"}, {"red"}),
      Suffix("unaugmented", {"aug"}, VB) }
\* Faulty variant: the marker is the one that is still augmented.
ReduplicationsOfAugmented ==
    { Prefix("reduplication", {"augred"}, VB), Suffix("reduplication", {"augred"}, VB),
      Pattern("reduplication-preverb", {"augred"}, VB) }
Reduplications ==
    { Prefix("reduplication", {"red"}, VB), Suffix("reduplication", {"red"}, VB),
      Pattern("reduplication-preverb", {"red"}, VB) }

(* Irregular stems.  A fused stem has its augment or reduplication in it:  *)
(* it goes to the verb, a pluperfect still to its augment; in a compound   *)
(* of a verb that begins with a consonant it keeps a place for one.        *)
irregularStem(slot, in, out) == { Suffix(slot, in, out) }
fusedStem(slot, in) ==
    LET aug   == in \cap {"plpf", "plpm"}
        plain == in \ aug
    IN  (IF plain = {} THEN {} ELSE irregularStem(slot, plain, VB)) \cup
        (IF aug = {} THEN {} ELSE irregularStem(slot, aug, {"aug"})) \cup
        { Suffix(slot, in, out) : out \in {VB, {"aug"}} }
EchoCompounds ==
    { Suffix("aorist", {"aor2"}, VB), Suffix("aorist", {"fut", "aor"}, VB), Suffix("aorist", {"aor2a"}, VB) }
Irregular ==
    irregularStem("aorist", {"aor2"}, VB) \cup irregularStem("aorist", {"aor2a"}, {"aug"})
        \cup irregularStem("aorist", {"aor"}, VB) \cup irregularStem("aorist", {"aora"}, {"aug"})
        \cup irregularStem("future", {"fut"}, VB)
        \cup irregularStem("aorist-passive", {"aorp"}, VB)
        \cup irregularStem("aorist-passive", {"aorpa"}, {"aug"})
        \cup fusedStem("aorist", {"aor2a"}) \cup fusedStem("aorist", {"aora"})
        \cup fusedStem("perfect", {"pf", "plpf", "pmp"}) \cup fusedStem("perfect-middle", {"pmp", "plpm"})
        \cup fusedStem("aorist-passive", {"aorpa"}) \cup fusedStem("imperfect", {"aug"})

(* Athematic verbs: every form is written out; in a compound one with an   *)
(* augment keeps a place for it.                                           *)
athematic(augmented) ==
    emit("athematic", {}, VB) \cup (IF augmented THEN emit("athematic", {}, {"aug"}) ELSE {})
IrregularAthematics == athematic(TRUE)
MiVerbs             == athematic(TRUE)
RootAorists         == athematic(TRUE) \cup emit("amai", {}, VB)
Nymi                == emit("nymi", {}, VB) \cup emit("nymi", {}, {"aug"})
AthematicCompounds  == emit("compound", VB, VB)

(* closed(): pronouns, numerals and irregular nouns, most with no part of  *)
(* speech.                                                                 *)
closed(slot, out) == emit(slot, {}, out)
Pronouns       == UNION { closed(s, {}) : s \in {"article", "pronoun", "numeral"} }
                      \cup closed("impersonal", VB)
IrregularNouns == closed("irregular-noun", {"n"}) \cup closed("irregular-noun", {})
Comparisons    == closed("irregular-adjective", ADJ) \cup closed("comparison", ADJ)

(* Spelling, elision, crasis and enclitics.                                *)
Spelling == emit("spelling-variant", VB, VB) \cup { Prefix("spelling", {}, {}) }
Clitics  ==
    UNION { emit(s, {}, {}) : s \in {"elision", "enclitic-accent", "enclitic", "enclitic-particle"} }
        \cup { Prefix("crasis", {}, {}) }

(* Common forms read as the word the list says; a standing one stays a     *)
(* whole word.                                                             *)
Exceptions ==
    UNION { emit("exc", {}, tag) : tag \in {{}, VB, {"n"}, ADJ} } \cup
    { WholeWord("exc", {}, {"n"}), WholeWord("exc", {}, ADJ) }

build == Exceptions \cup Cases \cup Comparatives \cup Adjectives \cup thematicEndings \cup participles
         \cup tenseEndings \cup MergedEndings \cup contractEndings \cup SigmaAndLiquidStems
         \cup PassiveStems \cup PerfectStems \cup EchoCompounds \cup Irregular \cup Augments
         \cup Reduplications \cup IrregularAthematics \cup MiVerbs \cup RootAorists \cup Nymi
         \cup AthematicCompounds \cup Pronouns \cup IrregularNouns \cup Comparisons \cup Spelling
         \cup Clitics \cup AccentTransform

Pack == [conditions |-> Conditions, families |-> build]
===============================================================================
