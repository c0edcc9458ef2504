--------------------------- MODULE UkrainianRules ---------------------------
(***************************************************************************)
(* languages/uk/sources/build-own.mjs: the Ukrainian rules.  Every rule    *)
(* ends at a word of the dictionary; there are no stems on the way.  Only  *)
(* the degrees of comparison and the participles take a word that another  *)
(* rule has made: an adjective may have been declined before its rule, and *)
(* the long forms say all the parts of speech that decline like it.        *)
(* A noun's transform is named by all the cases of its ending; here each   *)
(* case is a slot of its own.  compact() then writes rules of one slot as  *)
(* a cross product, which stands for the same rules.                       *)
(***************************************************************************)
EXTENDS PackFamilies, Sequences

conditions == [c \in {"v", "n", "adj", "adv", "pron", "num"} |-> Word(c)]

suffix(pos, forms, in, out) == { Suffix(pos \o "." \o f, in, out) : f \in forms }
whole(pos, forms, in, out)  == { WholeWord(pos \o "." \o f, in, out) : f \in forms }

(* Nouns.  A twin rule with another vowel in the last syllable, nounAlt(), *)
(* has the slots and conditions of its rule.                               *)
PLURAL   == {"nom.pl", "gen.pl", "dat.pl", "ins.pl", "loc.pl"}
SINGULAR == {"gen.sg", "dat.sg", "ins.sg", "loc.sg", "voc.sg"}
noun(cases)  == suffix("noun", cases, {}, {"n"})
FirstDeclension    == noun(SINGULAR \cup {"acc.sg"} \cup PLURAL)
HardMasculines     == noun(SINGULAR \cup PLURAL)
FleetingVowels     == noun(SINGULAR \cup PLURAL)
SoftMasculines     == noun(SINGULAR \cup PLURAL)
Neuters            == noun(SINGULAR \cup PLURAL)
ThirdDeclension    == noun(SINGULAR \cup {"acc.sg"} \cup PLURAL)
FourthDeclension   == noun((SINGULAR \ {"voc.sg"}) \cup PLURAL)
IrregularPlurals   == noun(PLURAL) \cup whole("noun", SINGULAR \cup PLURAL, {}, {"n"})

(* Adjectives and what declines like them.                                 *)
ADJ_HARD == {"f", "n", "pl", "gen.mn", "gen.f", "dat-loc.mn", "dat-loc.f", "ins.mn+dat.pl", "acc.f", "ins.f", "loc.mn",
             "gen-loc.pl", "ins.pl"}
ADJ_SOFT == {"f", "n", "pl", "gen.mn", "gen.f", "ins-loc.mn+dat.pl", "acc.f", "gen-loc.pl", "ins.pl"}
ADJ_OUT  == {"adj", "n", "pron", "v"}    \* also a noun, a declined pronoun, or a participle filed under its verb
LongForms   == suffix("adj", ADJ_HARD \cup ADJ_SOFT, {}, ADJ_OUT)
Indefinites == suffix("adj", {"indef"}, {}, {})    \* of no part of speech the dictionary names
Possessives == suffix("adj", {"poss"}, {}, {"adj"})
\* the superlative goes to the positive in one step
Degrees(pos)  == suffix(pos, {"cmp", "sup"}, {pos}, {pos}) \cup whole(pos, {"cmp", "sup"}, {pos}, {pos})
\* Faulty variant: a form of the adjective is typed as one of the adverb.
ComparativesOfAdverbs == suffix("adj", {"cmp", "sup"}, {"adj"}, {"adv"})
Comparatives == Degrees("adj")
ShortForms    == suffix("adj", {"short"}, {}, {"adj"}) \cup whole("adj", {"short"}, {}, {"adj"})
AdverbDegrees == Degrees("adv")

(* Pronouns and numerals, whole words.                                     *)
pronoun(cases, out) == whole("pron", cases, {}, out)
PRONOUNS == pronoun({"gen-acc", "dat-loc", "ins", "dat", "loc", "gen-acc-loc", "gen"}, {"pron"})
DECLINED_PRONOUNS ==
    whole("adj", ADJ_HARD, {}, {"pron"}) \cup whole("adj", ADJ_HARD, {}, {}) \* this and that have no part of speech
IndefinitePronouns == UNION { pronoun({"indef"}, out) : out \in {{}, {"pron"}, {"adj", "pron"}} }
NUMERALS == whole("num", {"case"}, {}, {"num"}) \cup suffix("num", {"case"}, {}, {"num"})

(* A verb's form and its reflexives, which differ in letters only.         *)
PRS  == {"prs1sg", "prs2sg", "prs3sg", "prs1pl", "prs2pl", "prs3pl"}
PAST == {"pstM", "pstF", "pstN", "pstPl"}
IMP  == {"imp2sg", "imp1pl", "imp2pl"}
FUT  == {"fut1sg", "fut2sg", "fut3sg", "fut1pl", "fut2pl", "fut3pl"}
verb(forms)       == suffix("v", forms, {}, {"v"})
participle(forms) == { Deriving(f) : f \in suffix("v", forms, {"adj"}, {"v"}) }
\* the adverbial and the active participle come from the third person plural
conjugation(prs, imp, ptcp) ==
    verb(prs \cup imp) \cup (IF "prs3pl" \in prs THEN verb({"advPrs"}) \cup participle({"ptcpAct"}) ELSE {})
        \cup (IF ptcp THEN participle({"ptcpPass"}) \cup verb({"impers"}) ELSE {})
PastAndFuture       == verb(PAST \cup {"advPst", "infVar"} \cup FUT)
FirstConjugation    == UNION { conjugation(PRS, imp, ptcp) : imp \in {{}, IMP}, ptcp \in BOOLEAN }
                       \cup conjugation({}, IMP, FALSE) \cup conjugation({}, {}, TRUE)
IrregularVerbs      == verb(PAST \cup {"advPst"}) \cup UNION { conjugation(PRS, IMP, ptcp) : ptcp \in BOOLEAN }
                       \cup whole("v", {"be"}, {}, {"v"})
SecondConjugation   == UNION { conjugation(PRS, IMP, ptcp) : ptcp \in BOOLEAN }
ActivePastAndStress == participle({"ptcpAct"}) \cup conjugation(PRS, IMP, FALSE) \cup verb(IMP)

(* Frequent forms that are also spelt as another word's.                   *)
HOMOGRAPHS ==
    whole("noun", SINGULAR \cup {"acc.sg"} \cup PLURAL, {}, {"n"}) \cup whole("adj", {"f", "n", "pl", "acc.f", "ins.f", "gen.f", "dat-loc.f"}, {}, ADJ_OUT)
        \cup whole("v", {"imp2sg", "prs1sg", "pstM"}, {}, {"v"}) \cup whole("adv", {"pos"}, {}, {"adj"}) \cup whole("alt", {"od"}, {}, {})
Names == whole("noun", {"loc.sg"}, {}, {})    \* a name has no part of speech

Pack == [conditions |-> conditions,
         families   |-> FirstDeclension \cup HardMasculines \cup FleetingVowels \cup SoftMasculines \cup Neuters
                        \cup ThirdDeclension \cup FourthDeclension \cup IrregularPlurals \cup LongForms \cup Indefinites
                        \cup Possessives \cup Comparatives \cup ShortForms \cup AdverbDegrees \cup PRONOUNS
                        \cup DECLINED_PRONOUNS \cup IndefinitePronouns \cup NUMERALS \cup PastAndFuture \cup FirstConjugation
                        \cup IrregularVerbs \cup SecondConjugation \cup ActivePastAndStress \cup HOMOGRAPHS \cup Names]
===============================================================================
