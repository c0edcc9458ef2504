----------------------------- MODULE ItalianRules -----------------------------
(***************************************************************************)
(* languages/it/sources/build-own.mjs: the Italian rules.  A pronoun       *)
(* before a verb is marked (refl), the conjugated form after it gives only *)
(* its person (p1s ... p2p, or short_... for fare, dare, dire and bere),   *)
(* and the pronominal rule that agrees with that person gives the verb.    *)
(* A pronoun written after a verb leaves an infinitive without its e       *)
(* (clinf), a gerund (ger) or an imperative (imp, or imp_tu, imp_noi,      *)
(* imp_voi when the moved pronoun must agree).                             *)
(***************************************************************************)
EXTENDS PackFamilies, Sequences

PERSON == {"p1s", "p2s", "p3", "p1p", "p2p"}
SHORT  == [p1s |-> "short_p1s", p2s |-> "short_p2s", p3 |-> "short_p3", p1p |-> "short_p1p", p2p |-> "short_p2p"]
Shortened(persons) == { SHORT[p] : p \in persons }

conditions ==
    [v |-> Word("verb"), n |-> Word("noun"), adj |-> Word("adjective"), adv |-> Word("adverb")]
    @@ Marks({"verb"}, {"imp", "imp_tu", "imp_noi", "imp_voi", "ger", "refl", "ptcp", "clinf"})
    @@ Marks({"verb"}, PERSON \cup Shortened(PERSON))

(* A whole word is a suffix rule with no stem; the compaction turns        *)
(* suffixes with the same constraints into one circumfix, so one kind      *)
(* stands for all three.                                                   *)
suffix(id, in, out) == Suffix(id, in, out)
whole(id, in, out)  == { suffix(id, in, out) }

(* The slots of the conjugation, and the persons a reflexive pronoun       *)
(* before each may agree with.                                             *)
SlotOf == [io |-> {"p1s"}, tu |-> {"p2s"}, lui |-> {"p3"}, noi |-> {"p1p"}, voi |-> {"p2p"}, loro |-> {"p3"}]
Tensed(tenses, who) == [s \in tenses \X who |-> SlotOf[s[2]]]
SLOTS ==
    Tensed({"present", "imperfect", "preterite", "future", "conditional"}, DOMAIN SlotOf)
    @@ Tensed({"subjunctive", "subjunctive-imperfect"}, {"noi", "voi", "loro"})
    @@ (<<"subjunctive-imperfect", "lui">> :> {"p3"} @@ <<"subjunctive-imperfect", "sg">> :> {"p1s", "p2s"}
        @@ <<"subjunctive", "sg">> :> {"p3"})
    @@ [s \in {"imperative"} \X {"tu", "noi", "voi"} |-> {}]
    @@ [s \in {"gerund", "participle-present", "participle"} \X {""} |-> {}]

inFor(slot) == CASE slot[1] = "imperative" -> {"imp", "imp_" \o slot[2]}
                 [] slot[1] = "gerund"     -> {"ger"}
                 [] OTHER                  -> {}
outFor(slot) == {"v"}
PAIR_PERSONS == <<"subjunctive", "sg">> :> {"p2s"}
MARKED == {s \in DOMAIN SLOTS : s[1] \in {"gerund", "imperative"}}

(* One ending: read in a word of its own; after a marked pronoun, giving   *)
(* the person; after the pronoun a clitic rule moved, giving the verb.     *)
forms(slot, short) ==
    LET Said(persons) == IF short THEN Shortened(persons) ELSE persons
    IN  { suffix(slot[1], inFor(slot), outFor(slot)) }
        \cup { suffix(slot[1], {"refl"}, Said(persons)) :
                    persons \in ({SLOTS[slot]} \cup {PAIR_PERSONS[s] : s \in {slot} \cap DOMAIN PAIR_PERSONS}) \ {{}} }
        \cup { suffix(s[1], inFor(s), {"v"}) : s \in {slot} \cap MARKED }
verb(slot) == forms(slot, FALSE)

Regular(slots)  == UNION { verb(s) : s \in slots }
Of(tenses)      == {s \in DOMAIN SLOTS : s[1] \in tenses}
RegularEndings  == Regular(DOMAIN SLOTS)
AreSpelling     == Regular(Of({"future", "conditional", "subjunctive"})
                           \cup {<<"present", "tu">>, <<"present", "noi">>, <<"imperative", "noi">>})
EreIreSpelling  == Regular(Of({"present", "subjunctive", "participle"})
                           \cup {<<"imperative", "tu">>, <<"imperative", "noi">>}
                           \cup {<<"preterite", who>> : who \in {"io", "lui", "loro"}})

(* The irregular verbs: a form is read as the whole word, at the end of    *)
(* compounds, or as the word and its prefixed spellings.  Which slots of a *)
(* verb are irregular is left out.                                         *)
SHORT_LEMMAS == {"fare", "dare", "dire", "bere"}
readForm(slot, mode, lemma) ==
    LET short == lemma \in SHORT_LEMMAS
    IN  CASE mode = "whole"    -> whole(slot[1], inFor(slot), outFor(slot))
          [] mode = "compound" -> forms(slot, short)
          [] mode = "prefixes" ->
                whole(slot[1], inFor(slot), outFor(slot)) \cup
                { suffix(slot[1], {"refl"}, out) :
                     out \in {SLOTS[slot], IF short THEN Shortened(SLOTS[slot]) ELSE SLOTS[slot]} \ {{}} }
Table(mode, lemmas) == UNION { readForm(s, mode, l) : s \in DOMAIN SLOTS, l \in lemmas }

EssereAndModals == Table("whole", {"essere", "avere", "potere", "volere", "dovere", "sapere"})
AndareToBere    == Table("whole", {"andare"}) \cup Table("prefixes", {"dare", "stare", "fare", "dire"})
                   \cup Table("compound", {"andare", "fare", "dire", "bere"})
VenireToCuocere == Table("whole", {"udire", "nuocere"})
                   \cup Table("compound", {"venire", "tenere", "uscire", "salire", "rimanere", "valere", "parere",
                                           "apparire", "comparire", "dolere", "morire", "sedere", "cuocere"})
PorreToEmpiere  == Table("whole", {"porre"})
                   \cup Table("compound", {"porre", "trarre", "durre", "mpiere", "vedere", "vivere", "cadere", "godere"})
\* strong past historics and participles, at the end of any compound
STRONG == UNION { readForm(s, "compound", "prendere") :
                      s \in Of({"participle"}) \cup {<<"preterite", who>> : who \in {"io", "lui", "loro"}} }
PresentParticiples == verb(<<"participle-present", "">>)

(* A participle looked up at the -rsi verb.                                *)
ParticiplesPronominal == { Circumfix("participle", {}, {"ptcp"}), Circumfix("participle-pronominal", {"ptcp"}, {"v"}) }

(* Pronouns written after the verb.                                        *)
REFLEXIVE_OF  == [mi |-> "mi", ti |-> "ti", si |-> "si", ci |-> "ci", vi |-> "vi", me |-> "mi", te |-> "ti",
                  se |-> "si", ce |-> "ci", ve |-> "vi"]
IMPERATIVE_OF == [ti |-> "imp_tu", ci |-> "imp_noi", vi |-> "imp_voi"]
CLUSTERS      == DOMAIN REFLEXIVE_OF \cup {"lo", "gli", "glie"}
Reflexive(p)  == IF p \in DOMAIN REFLEXIVE_OF THEN REFLEXIVE_OF[p] ELSE "none"
clitic(p) ==
    LET hosts     == {"clinf", "ger"} \cup (IF Reflexive(p) = "si" THEN {} ELSE {"imp"})
        agreeing  == {IMPERATIVE_OF[r] : r \in {Reflexive(p)} \cap DOMAIN IMPERATIVE_OF}
    IN  { Suffix("clitic", {}, hosts) }
        \cup { Circumfix("clitic", {}, {"clinf", "ger"}) : r \in {Reflexive(p)} \ {"none"} }
        \cup { Circumfix("clitic", {}, {imp}) : imp \in agreeing }
        \cup UNION { whole("clitic", {}, {"imp"}) : r \in {Reflexive(p)} \ {"si"} }
        \cup UNION { whole("clitic", {}, {"imp_tu"}) : r \in {Reflexive(p)} \cap {"ti"} }
Clitics     == { suffix("imperative", inFor(<<"imperative", "tu">>), {"v"}) } \cup UNION { clitic(p) : p \in CLUSTERS }
Infinitives == { suffix("infinitive", {"clinf"}, {"v"}) }
Gerunds     == forms(<<"gerund", "">>, FALSE)

(* Pronouns before the verb, and the -rsi verb that agrees with them.      *)
Proclitics == { Prefix("proclitic", {}, {"refl"}) }
pronominal(in)          == { Circumfix("pronominal", in, {"v"}) }
shortPronominal(people) == { Circumfix("pronominal", Shortened(people), {"v"}), Circumfix("pronominal", people, {"v"}) }
Agreeing == { {p} : p \in PERSON } \cup { PERSON }
Pronominals == UNION { pronominal(people) \cup shortPronominal(people) : people \in Agreeing }
               \cup pronominal({"refl"}) \cup whole("pronominal", {}, {"v"})
Climbing    == { Circumfix("climbing", {"refl"}, {"ger"}), Circumfix("climbing", {"refl"}, {"v"}) }
MARKERS     == pronominal({"v"})

(* Nouns and adjectives; frequent words written out.                       *)
NOMINAL == {"n", "adj"}
Nouns   == { suffix("plural", {}, out) : out \in {NOMINAL, {"n"}, {"adj"}} }
           \cup { suffix("feminine", {}, {"adj"}), suffix("feminine", NOMINAL, NOMINAL), suffix("feminine-plural", {}, {"adj"}) }
PREFERRED == UNION { whole("preferred", {}, out) : out \in {NOMINAL, {"adj"}, {"v"}} }
Superlatives == { suffix("superlative", {}, {"adj", "adv"}) }
Adverbs      == { suffix("adverb", {}, {"adj"}) }

Pack == [conditions |-> conditions,
         families   |-> RegularEndings \cup AreSpelling \cup EreIreSpelling \cup EssereAndModals \cup AndareToBere
                        \cup VenireToCuocere \cup PorreToEmpiere \cup STRONG \cup PresentParticiples
                        \cup ParticiplesPronominal \cup Clitics \cup Infinitives \cup Gerunds \cup Proclitics
                        \cup Pronominals \cup Climbing \cup MARKERS \cup Nouns \cup PREFERRED \cup Superlatives \cup Adverbs]
===============================================================================
