--------------------------- MODULE PortugueseRules ---------------------------
(***************************************************************************)
(* languages/pt/sources/build-own.mjs: the Portuguese rules.  A verb form  *)
(* is read from the text or from what is left once an attached pronoun was *)
(* taken off (vf); a pronoun rule takes vf itself, so that pairs of        *)
(* pronouns go one after the other, and an infinitive is written at once.  *)
(***************************************************************************)
EXTENDS PackFamilies

conditions == [v |-> Word("verb"), n |-> Word("noun"), adj |-> Word("adjective"), adv |-> Word("adverb"),
               vf |-> Marker({"verb"})]

(* Suffixes of one transform that differ in their endings only become one  *)
(* circumfix, compact(): one kind stands for both.                         *)
verb(tenses)           == { Suffix(t, {"vf"}, {"v"}) : t \in tenses }
verbWord(tenses)       == { Circumfix(t, {"vf"}, {"v"}) : t \in tenses }
nominal(id, in, out)   == { Suffix(id, in, out) }
word(id, in, out)      == { WholeWord(id, in, out) }

TENSES  == {"present", "preterite", "imperfect", "pluperfect", "future", "conditional", "subjunctive",
            "imperfect-subjunctive", "future-subjunctive", "personal-infinitive"}
ENDINGS == TENSES \cup {"imperative", "gerund", "participle"}

Regular       == verb(ENDINGS)
StemVowels    == verb({"present", "subjunctive"})
HiatusAndUir  == verb({"present", "subjunctive", "preterite", "imperfect", "participle"})

(* An irregular verb: its forms, written whole, and those of the compounds *)
(* with the cells of their own; both are rows of forms with no stem.       *)
irregular(tenses, compounds) == verbWord(tenses) \cup (IF compounds THEN verbWord(tenses) ELSE {})
SerToHaver    == irregular(ENDINGS, TRUE)
VirToTrazer   == irregular(ENDINGS, TRUE)
PoderToRir    == irregular(ENDINGS, TRUE)
CearToProver  == irregular({"present", "subjunctive", "preterite", "imperative"}, FALSE)
Participles   == verb({"participle"}) \cup verbWord({"participle"})

(* Attached pronouns, after the form or inside a future or conditional.    *)
clitic(out) == { Suffix("clitic", {"vf"}, out) }
Clitics ==
    clitic({"vf"}) \cup clitic({"v"}) \cup word("clitic", {"vf"}, {"v"})
        \cup word("clitic", {}, {"adv"}) \cup word("haver-de", {}, {"v"})

(* Nouns and adjectives.  Nothing says of a plural what it was read from,  *)
(* but a feminine is an adjective's.                                       *)
NA == {"n", "adj"}
Plurals      == nominal("plural", {}, NA) \cup word("plural", {}, NA) \cup { Replace("plural", NA, NA) }
Feminines    == nominal("feminine", {"adj"}, NA) \cup word("feminine", {"adj"}, NA)
Diminutives  == nominal("diminutive", NA, NA)
Superlatives == nominal("superlative", {"adj"}, {"adj"}) \cup word("superlative", {"adj"}, {"adj"})
Adverbs      == nominal("superlative", {}, {}) \cup nominal("adverb", {}, {"adj"}) \cup word("adverb", {}, {"adj"})

(* The common reading of a homograph, as the rule that also makes it.      *)
PreferredReading(slot) ==
    CASE slot = "feminine" -> word(slot, {"adj"}, NA)
      [] slot = "plural"   -> word(slot, {}, NA)
      [] OTHER             -> word(slot, {"vf"}, {"v"})
Preferred == UNION { PreferredReading(s) : s \in {"feminine", "plural", "present", "subjunctive", "preterite", "participle"} }

(* A rule that leaves stems out is split in copies that take what it took. *)
withoutStems(family) == { family }
EXACT_STEM_EXCLUSIONS == UNION { withoutStems(f) : f \in Regular \cup nominal("feminine", {"adj"}, NA) }

Pack == [conditions |-> conditions,
         families   |-> Regular \cup StemVowels \cup HiatusAndUir \cup SerToHaver \cup VirToTrazer \cup PoderToRir
                        \cup CearToProver \cup Participles \cup Clitics \cup Plurals \cup Feminines \cup Diminutives
                        \cup Superlatives \cup Adverbs \cup Preferred \cup EXACT_STEM_EXCLUSIONS]
===============================================================================
