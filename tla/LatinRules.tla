------------------------------ MODULE LatinRules ------------------------------
(***************************************************************************)
(* languages/la/sources/build-own.mjs: the Latin rules.  A form is read in *)
(* several steps where the grammar has several: amatorum is brought to the *)
(* participle amatus (marker ptc) and that to amo; rexerat to rexi (marker *)
(* vpf) and that to rego; amatus est loses esse (marker aux), the          *)
(* participle is brought to its nominative (marker ptcx) and then read.    *)
(***************************************************************************)
EXTENDS PackFamilies

Conditions ==
    Words("noun", {"n1s", "n1p", "n2s", "n2p", "n3s", "n3p", "n4s", "n4p", "n5s", "n5p"}) @@
    [n  |-> Group("noun", {"ns", "np"}),
     ns |-> Group("noun", {"n1s", "n2s", "n3s", "n4s", "n5s"}),
     np |-> Group("noun", {"n1p", "n2p", "n3p", "n4p", "n5p"}),
     n1 |-> Group("noun", {"n1s", "n1p"}), n2 |-> Group("noun", {"n2s", "n2p"}),
     n3 |-> Group("noun", {"n3s", "n3p"}), n4 |-> Group("noun", {"n4s", "n4p"}),
     n5 |-> Group("noun", {"n5s", "n5p"}),
     v  |-> Word("verb"), adv |-> Word("adverb"),
     adj |-> Group("adjective", {"adj3", "adj12"})] @@
    Words("adjective", {"adj12", "adj3"}) @@
    Marks({"verb"}, {"ptc", "vpf", "aux", "auxi", "ptcx"}) @@ Marks({"adjective"}, {"cmp"})

VB            == {"v"}
PARTICIPLE_IN == {"ptc", "aux", "ptcx"}
VPF           == {"vpf", "v"}
VPF_IN        == {"vpf"}
ADJ_PTC       == {"adj12", "ptc", "v"}
ADJ3_PTC      == {"adj3", "ptc", "v"}
CMP           == {"cmp", "adj3"}

(* Present system: endings of five conjugations, active and passive, then  *)
(* imperatives, infinitives and gerunds; each replaces what follows the    *)
(* root.                                                                   *)
FiniteVerbs    == { Suffix("finite", {}, VB) }
NonfiniteVerbs == { Suffix("nonfinite", {}, VB) }

(* A participle has a row of its own; only a word that some rule made a    *)
(* participle or that stood before esse goes on to its verb.               *)
Participles ==
    { Suffix("ptc-pres", {"ptc"}, VB), Suffix("gerundive", PARTICIPLE_IN, VB) }

(* Perfect system: a form is brought to the first person in -i, contracted *)
(* forms too, and that to the verb.                                        *)
PerfectForms    == { Suffix("perfect", {}, VPF) }
ContractedForms == { Suffix("contracted", {}, VPF), WholeWord("nosti", {}, VPF) }
PerfectStems    == { Suffix("perf-stem", VPF_IN, VB) }

(* participles(): perfect always, supines and future only of a whole verb. *)
ParticiplesOf(conditionsIn, all) ==
    { Suffix("ptc-perf", conditionsIn, VB) } \cup
    (IF all THEN { Suffix("supine", {}, VB), Suffix("ptc-fut", PARTICIPLE_IN, VB) } ELSE {})

RegularParticiples ==
    { Suffix("ptc-fut-stem", PARTICIPLE_IN, {"ptc"}), Suffix("supine-abl", {}, {"ptc"}) }
        \cup ParticiplesOf(PARTICIPLE_IN, TRUE)

(* The table of irregular stems, by the kinds of lines it has: of a        *)
(* compound or not, no perfect, a long or a short one or one that is a     *)
(* whole word, no participle, a plain one or one marked noesse, and with   *)
(* or without a future participle of its own.                              *)
Line(compound, perfect, participle, fap) ==
    [compound |-> compound, perfect |-> perfect, participle |-> participle, fap |-> fap]
StemsFromDo ==
    { Line(c, p, q, FALSE) : c \in BOOLEAN, p \in {"none", "long", "short"}, q \in {"plain"} } \cup
    { Line(FALSE, p, "noesse", FALSE) : p \in {"none", "long", "short"} } \cup
    { Line(c, "long", "none", FALSE) : c \in BOOLEAN } \cup
    { Line(FALSE, "long", q, TRUE) : q \in {"none", "plain"} } \cup
    { Line(TRUE, "short", "noesse", FALSE) }
StemsFromRapio ==
    { Line(c, p, "plain", FALSE) : c \in BOOLEAN, p \in {"none", "long"} } \cup
    { Line(c, "long", "none", FALSE) : c \in BOOLEAN } \cup
    { Line(FALSE, "whole", "plain", FALSE), Line(FALSE, "long", "noesse", FALSE),
      Line(FALSE, "short", "plain", FALSE), Line(FALSE, "short", "plain", TRUE),
      Line(FALSE, "long", "none", TRUE) }
StemsOfDeponents ==
    { Line(c, "none", "plain", FALSE) : c \in BOOLEAN } \cup
    { Line(FALSE, "none", q, f) : q \in {"plain", "noesse"}, f \in BOOLEAN } \cup
    { Line(FALSE, "none", "none", TRUE), Line(FALSE, "long", "plain", FALSE) }

(* The rules of one line.  A short perfect of a simple verb is a whole     *)
(* word (-egi would be read in relegi); a noesse participle is not read as *)
(* the verb before esse (altus est).                                       *)
RulesOfLine(line) ==
    LET PerfectKind == IF line.perfect \in {"short", "whole"} /\ ~line.compound
                       THEN WholeWord("perf-stem", VPF_IN, VB)
                       ELSE Suffix("perf-stem", VPF_IN, VB)
        ParticipleIn == IF line.participle = "noesse" THEN {"ptc"} ELSE PARTICIPLE_IN
    IN  (IF line.perfect = "none" THEN {} ELSE {PerfectKind}) \cup
        (IF line.participle = "none" THEN {} ELSE ParticiplesOf(ParticipleIn, FALSE)) \cup
        (IF line.fap THEN { Suffix("ptc-fut", PARTICIPLE_IN, VB) } ELSE {})
PrincipalParts ==
    UNION { RulesOfLine(l) : l \in StemsFromDo \cup StemsFromRapio \cup StemsOfDeponents }

(* fero's compounds, dic duc fac, and the perfects and futures of sum.     *)
FeroSumStems ==
    { Suffix("perf-stem", VPF_IN, VB), Suffix("imp-2s", {}, VB), WholeWord("imp-2s", {}, VB),
      Suffix("ptc-fut", PARTICIPLE_IN, VB) } \cup ParticiplesOf(PARTICIPLE_IN, FALSE)

(* Irregular verbs.  paradigm() writes every form as a whole word; a       *)
(* family of compounds is one circumfix per form, over its prefixes.       *)
Paradigm(slot, conditionsOut) == { WholeWord(slot, {}, conditionsOut) }
Sum == { Circumfix("sum", {}, VB) } \cup Paradigm("possum", VB)
Eo  == { Circumfix("eo", {}, VB), Circumfix("perf-stem", VPF_IN, VB), Circumfix("eo-contracted", {}, VPF),
         WholeWord("eo-perfect", {}, VPF), WholeWord("eo-participles", PARTICIPLE_IN, VB),
         Suffix("gerundive", PARTICIPLE_IN, VB) }
Fero == { Suffix("fero", {}, VB) }
OtherIrregularVerbs ==
    UNION { Paradigm(l, VB) : l \in {"volo", "nolo", "malo", "fio", "inquam", "aio", "memini", "for", "reor"} }
        \cup { Circumfix("do", {}, VB), Circumfix("impersonal", {}, VB) }

(* Nouns: one declension() call gives one class, singular or plural-only.  *)
Declension(slot, conditionsOut) == { Suffix(slot, {}, conditionsOut) }
Nouns == UNION { Declension("n", {c}) : c \in {"n1s", "n2s", "n3s", "n4s", "n5s", "n1p", "n2p", "n3p"} }
IrregularNouns == { WholeWord("n", {}, {"n"}) }

(* Adjectives: a declined form may be a participle's or a gerundive's, so  *)
(* the rules that fit them say ptc and v too.                              *)
FirstSecondAdjectives == { Suffix("adj", {}, ADJ_PTC), Suffix("adj", {}, {"adj12"}) }
ThirdAdjectives ==
    { Suffix("adj3", {}, {"adj3"}), Suffix("adj3", {}, ADJ3_PTC), Suffix("adj3", {}, CMP),
      WholeWord("adj3-is", {}, {"adj12"}) }
Degrees ==
    { Suffix("comparative", {"cmp"}, {"adj"}), Suffix("superlative", {"adj"}, {"adj"}),
      WholeWord("comparative", {"cmp"}, {"adj"}), WholeWord("superlative", {"adj"}, {"adj"}),
      WholeWord("comparative", {}, {"adj"}) }
Adverbs ==
    { Suffix("adverb", {}, out) : out \in {ADJ_PTC, {"adj"}, ADJ3_PTC} } \cup
    { WholeWord("adverb", {}, {"adj"}) }
Iens == { Suffix("adj3", {}, ADJ3_PTC), Suffix("ptc-pres", {"ptc"}, VB) }

(* Names, pronouns and numerals have no part of speech: no conditionsOut.  *)
Names    == Declension("name", {}) \cup { WholeWord("name", {}, {}) }
Pronouns == Paradigm("pron", {})
Enclitics == { WholeWord(s, {}, {}) : s \in {"cum", "met", "nam"} }

(* Esse is removed, then the participle before it read in its nominative;  *)
(* an accusative one only before an infinitive (auxi).                     *)
Esse ==
    { Suffix("esse", {}, {"aux"}), Suffix("esse", {}, {"aux", "auxi"}),
      Suffix("adj", {"aux"}, {"ptcx"}), Suffix("adj", {"auxi"}, {"ptcx"}) }

(* Rare readings: some stems are taken out of rules written above, which   *)
(* keep their conditions; nouns and ordinals that a participle shadows,    *)
(* and frequent words, get rules of their own.                             *)
NounsFirst == { Circumfix("n-first", {}, {"n1s"}), Circumfix("n-first", {}, {"n2s"}),
                Circumfix("ord", {}, {}) }
FrequentWords ==
    { WholeWord("w", {}, out) : out \in {{"n2s"}, {"n3s"}, {"n4s"}, {}, {"adv"}, VB} }

Pack ==
    [conditions |-> Conditions,
     families |->
        FiniteVerbs \cup NonfiniteVerbs \cup Participles \cup PerfectForms \cup ContractedForms
        \cup PerfectStems \cup RegularParticiples \cup PrincipalParts \cup FeroSumStems \cup Sum
        \cup Eo \cup Fero \cup OtherIrregularVerbs \cup Nouns \cup IrregularNouns
        \cup FirstSecondAdjectives \cup ThirdAdjectives \cup Degrees \cup Adverbs \cup Iens
        \cup Names \cup Pronouns \cup Enclitics \cup Esse \cup NounsFirst \cup FrequentWords]
===============================================================================
