---------------------------- MODULE AlbanianRules ----------------------------
(***************************************************************************)
(* languages/sq/sources/build-own.mjs: the Albanian rules, which read      *)
(* several words at once.  What a word before says of the next one stays   *)
(* in a marker: the subjunctive after të (v_sbjv), the forms after u       *)
(* (v_aor), an imperative that lost its pronoun (v_imp), the participle    *)
(* after an auxiliary (v_ptcp), an adjective after its article (adj_m,     *)
(* adj_f, adj_fobl, adj_pl) or after the comparative më (adj_cmp).  A rule *)
(* that leaves a marker also leaves v or adj where the text may already be *)
(* a headword.                                                             *)
(***************************************************************************)
EXTENDS PackFamilies, Sequences

conditions ==
    [v |-> Word("verb"), n |-> Group("noun", {"np", "ns"}), np |-> Word("noun"), ns |-> Word("noun"),
     adj |-> Word("adjective"), adv |-> Word("adverb")]
    @@ Marks({"verb"}, {"v_sbjv", "v_aor", "v_imp", "v_ptcp"})
    @@ Marks({"adjective"}, {"adj_m", "adj_f", "adj_fobl", "adj_pl"}) @@ Marks({"adjective", "adverb"}, {"adj_cmp"})

suffix(ids, in, out)    == { Suffix(id, in, out) : id \in ids }
prefix(ids, in, out)    == { Prefix(id, in, out) : id \in ids }
whole(ids, in, out)     == { WholeWord(id, in, out) : id \in ids }
circumfix(ids, in, out) == { Circumfix(id, in, out) : id \in ids }
\* an irregular form: whole when it is short or its verb is, otherwise the end of a compound too
irregular(ids, in, out) == suffix(ids, in, out) \cup whole(ids, in, out)

Contractions == prefix({"neg", "what"}, {}, {}) \cup whole({"what"}, {}, {})

(* Nouns: a case of the plural may be a headword, or the plural its row    *)
(* leads from.                                                             *)
N       == {"ns"}
NPL     == {"np"}
NPL_OUT == {"n"}
MasculineCases == {"n-def-sg-m", "n-def-acc-m", "n-def-obl-m"}
FeminineCases  == {"n-def-nom-f", "n-def-acc-f", "n-def-obl-f", "n-indef-obl-f"}
Masculines == suffix(MasculineCases, {}, N) \cup whole(MasculineCases, {}, N)
Feminines  == suffix(FeminineCases, {}, N) \cup whole({"n-def-nom-f"}, {}, N) \cup whole({"n-indef-obl-f"}, {}, {})
\* the plural of a numeral noun (mijëra) is the numeral
Plurals == suffix({"n-def-pl", "n-obl-pl", "n-abl-pl"}, {}, NPL_OUT) \cup whole({"n-def-pl"}, {}, N)
           \cup irregular({"n-pl"}, NPL, N) \cup { Deriving(f) : f \in whole({"n-pl"}, NPL, {}) }
VerbalNouns == { Deriving(f) : f \in suffix({"vn"}, N, {"v"}) }

(* Adjectives.                                                             *)
A == {"adj"}
Ordinals     == { Deriving(f) : f \in whole({"ord"}, A, {}) }
Comparatives == prefix({"cmp"}, {}, {"adj", "adj_cmp"}) \cup whole({"cmp"}, {}, {"adv"}) \cup circumfix({"cmp"}, {}, {"adv"})
AfterArticle == { {"adj_m"}, {"adj_f"}, {"adj_pl"}, {"adj_f", "adj_fobl"} }    \* what i, e, të, së leave
Articles     == UNION { prefix({"art"}, {"adj_cmp"}, A \cup after) : after \in AfterArticle } \cup whole({"art"}, {"adj_cmp"}, A)
AdjectiveForms ==
    suffix({"adj-f"}, {"adj_f", "adj_pl"}, A) \cup irregular({"adj-f"}, {"adj_f"}, A)
        \cup irregular({"adj-pl-f", "adj-pl-m"}, {"adj_pl"}, A)
        \cup suffix({"adj-def-m"}, {"adj_m", "adj_pl"}, A) \cup irregular({"adj-def-m"}, {"adj_m"}, A)
DefiniteForms ==
    irregular({"adj-def-f"}, {"adj_f"}, A) \cup suffix({"adj-def-f"}, {"adj_f", "adj_pl"}, A)
        \cup suffix({"adj-def-f"}, {"adj_fobl"}, A) \cup suffix({"adj-def-f"}, {"adj_f", "adj_pl"}, {"adj", "adj_f"})
        \cup suffix({"adj-def-f"}, {"adj_fobl"}, {"adj", "adj_f"})
        \cup suffix({"adj-def-pl"}, {"adj_pl"}, {"adj", "adj_pl"}) \cup whole({"adj-def-pl"}, {"adj_pl"}, A)

(* Verbs: the words before.                                                *)
V  == {"v"}
SB == {"v_sbjv"}
PT == {"v_ptcp"}
AO == {"v_aor"}
IMP == {"v_imp"}
SB_OUT  == V \cup SB
PT_OUT  == PT
AO_OUT  == V \cup AO
IMP_OUT == V \cup IMP
persons == {"1sg", "2sg", "3sg", "1pl", "2pl", "3pl"}
Said(tense, who) == { tense \o "-" \o p : p \in who }
Compound == {"perf", "plup", "adm-perf", "adm-plup", "opt-perf"}    \* the tenses of kam and jam with the participle
auxiliaries ==
    prefix({"fut", "sbjv"}, {}, SB_OUT)
        \cup prefix(UNION { Said(voice \o tense, persons) : voice \in {"", "np-"}, tense \in Compound }, SB, PT_OUT)
        \cup prefix(Said("pant", persons) \cup Said("perf-sbjv", persons \ {"1pl", "2pl"})
                    \cup Said("np-perf-sbjv", persons \ {"1pl", "2pl"}), SB, PT_OUT)
        \cup prefix({"ger", "priv", "inf"}, {}, PT_OUT) \cup prefix({"np-u"}, {}, AO_OUT)
\* a non-active form read at the mediopassive verb, and the auxiliary it may have
NonActiveLemmas == suffix({"np-lemma"}, AO, V) \cup circumfix({"np-lemma"}, {}, V) \cup circumfix({"np-lemma"}, SB, V)

(* The endings.                                                            *)
PresentEndings ==
    suffix({"pres-2sg", "pres-1pl", "pres-3pl", "sbjv-2sg", "sbjv-3sg"} \cup Said("impf", persons), SB, V)
        \cup suffix({"pres-2pl"}, SB \cup IMP, V) \cup suffix(Said("opt", persons), AO, V)
aorist == irregular(Said("aor", persons), AO, V) \cup whole({"np-imp-2sg", "np-imp-2pl"}, IMP, V) \cup whole({"pres-2sg"}, SB, V)
OtherEndings ==
    suffix({"np-aor-3sg"}, AO, V) \cup circumfix({"np-aor-3sg"}, {}, V) \cup suffix({"imp-2sg"}, IMP, V)
        \cup suffix({"ptcp"}, PT, V) \cup suffix({"adm-pres", "adm-impf"}, AO, PT_OUT)
NonActiveEndings ==
    suffix(Said("np-pres", persons) \cup Said("np-impf", persons), SB, V)
        \cup suffix({"np-imp-2sg", "np-imp-2pl"}, IMP, V) \cup circumfix({"np-imp-2sg"}, {}, V)
Enclitics == suffix({"cl-e", "cl-i", "cl-me", "cl-na"}, {}, IMP_OUT) \cup whole({"cl-me"}, {}, IMP_OUT)
             \cup whole({"cl-e", "cl-i"}, {}, V)

(* Irregular verbs: the conditions of a form follow from its slot.         *)
SlotIn(id) == CASE id \in Said("aor", persons) \cup Said("opt", persons) \cup {"np-aor-3sg"} -> AO
                [] id = "ptcp" -> PT
                [] id \in {"imp-2sg", "np-imp-2sg", "np-imp-2pl"} -> IMP
                [] id = "pres-2pl" -> SB \cup IMP
                [] OTHER -> SB
Slots == Said("aor", persons) \cup Said("opt", persons) \cup Said("impf", persons) \cup Said("np-pres", persons)
         \cup Said("np-impf", {"3sg", "3pl"}) \cup {"pres-2sg", "pres-1pl", "pres-2pl", "pres-3pl", "sbjv-2sg", "sbjv-3sg",
                                             "imp-2sg", "np-imp-2sg", "np-imp-2pl", "np-aor-3sg", "ptcp"}
verb(table) == UNION { irregular({id}, SlotIn(id), V) : id \in table }
JamToVij   == verb(Slots) \cup whole({"sbjv", "pres-3pl", "impf-1sg"}, SB, V) \cup whole({"pres-2pl"}, IMP, V)
              \cup whole({"pres-2pl"}, SB \cup IMP, V) \cup whole({"sbjv-3sg"}, {}, V)
DuaToFlas  == verb(Slots)
PresToVdes == verb(Slots)
HedhToDuhem == verb(Slots) \cup suffix(Said("np-impf", {"1sg"}), SB, V) \cup whole(Said("aor", persons \ {"3sg"}), {}, V)

Pack == [conditions |-> conditions,
         families   |-> Contractions \cup Masculines \cup Feminines \cup Plurals \cup VerbalNouns \cup Ordinals \cup Comparatives
                        \cup Articles \cup AdjectiveForms \cup DefiniteForms \cup auxiliaries \cup NonActiveLemmas
                        \cup PresentEndings \cup aorist \cup OtherEndings \cup NonActiveEndings \cup Enclitics
                        \cup JamToVij \cup DuaToFlas \cup PresToVdes \cup HedhToDuhem]
===============================================================================
