--------------------------- MODULE ModernGreekRules ---------------------------
(***************************************************************************)
(* languages/el/sources/build-own.mjs: the Modern Greek rules.  An ending  *)
(* that moves the accent writes the lemma with no accent, under a marker   *)
(* that says where the accent belongs (v_acc, n_last, n_ante, adj_last,    *)
(* adj_ante), and one accent rule for every vowel writes it there.  The    *)
(* augment between a verb and its prefix is taken off first (aug); only    *)
(* the endings of verbs follow.                                            *)
(***************************************************************************)
EXTENDS PackFamilies, Sequences

conditions == [v |-> Word("verb"), n |-> Word("noun"), adj |-> Word("adjective")]
    @@ Marks({"verb"}, {"aug", "v_acc"}) @@ Marks({"noun"}, {"n_last", "n_ante"})
    @@ Marks({"adjective"}, {"adj_last", "adj_ante"})

(* Where the accent of the lemma is: the marker each part of speech has.   *)
KIND == [last |-> [v |-> "v_acc", n |-> "n_last", adj |-> "adj_last"],
         ante |-> [n |-> "n_ante", adj |-> "adj_ante"]]

(* An ending that leaves the accent alone; a whole form; a prefix.  The    *)
(* compaction joins endings into one circumfix, so one kind stands for     *)
(* both.                                                                   *)
suffix(slots, in, out) == { Suffix(id, in, out) : id \in slots }
whole(slots, in, out)  == { WholeWord(id, in, out) : id \in slots }
prefix(slots, out)     == { Prefix(id, {}, out) : id \in slots }

(* An ending that moves the accent: left to the accent rules when the      *)
(* lemma has it on its stem, written at once when it is on the ending      *)
(* ("final") or nowhere ("none").                                          *)
shared(slots, then, in, out) ==
    suffix(slots, in, IF then \in DOMAIN KIND THEN { KIND[then][c] : c \in out } ELSE out)

(* Verbs.                                                                  *)
PERSONS == {"1sg", "2sg", "3sg", "1pl", "2pl", "3pl"}
personTransforms(tense, persons) == { tense \o "-" \o p : p \in persons }
VERB == [in |-> {"aug"}, out |-> {"v"}]
verb(slots)         == suffix(slots, VERB.in, VERB.out)
verbMoved(slots, then) == shared(slots, then, VERB.in, VERB.out)
\* the persons of the past stressed before the stem's last vowel, and those stressed on it
PAST_STRESSED == {"1sg", "2sg", "3sg", "3pl"}
PAST_KEEP     == {"1pl", "2pl", "3pl"}

ConjugationI ==
    verb(personTransforms("present", PERSONS \ {"1sg"}) \cup personTransforms("imperfect", PAST_KEEP)
         \cup {"imperative-2sg", "gerund"})
    \cup verbMoved(personTransforms("imperfect", PAST_STRESSED), "last")
PERFECTIVE ==
    verb(personTransforms("aorist", PAST_KEEP) \cup personTransforms("dependent", PERSONS)
         \cup {"perfective-imperative-2sg", "perfective-imperative-2pl"})
    \cup verbMoved(personTransforms("aorist", PAST_STRESSED), "last")
ConjugationII ==
    verb(personTransforms("present", PERSONS) \cup personTransforms("imperfect", PERSONS)
         \cup personTransforms("aorist", PERSONS) \cup personTransforms("dependent", PERSONS)
         \cup {"gerund", "perfective-imperative-2sg", "perfective-imperative-2pl"})
    \cup verbMoved(personTransforms("imperfect", PAST_STRESSED) \cup personTransforms("aorist", PAST_STRESSED)
                   \cup {"imperative-2sg"}, "final")
PassiveI ==
    verb(personTransforms("passive-present", PERSONS \ {"1pl"}) \cup personTransforms("passive-imperfect", {"3pl"})
         \cup personTransforms("passive-aorist", PAST_STRESSED) \cup {"passive-imperative-2sg"})
    \cup verbMoved(personTransforms("passive-present", {"1pl", "2pl"}) \cup personTransforms("passive-imperfect", PERSONS)
                   \cup personTransforms("passive-aorist", PAST_KEEP) \cup personTransforms("passive-dependent", PERSONS), "last")
PassiveII ==
    verb(UNION { personTransforms(tense, PERSONS) :
                     tense \in {"passive-present", "passive-imperfect", "passive-aorist", "passive-dependent"} }
         \cup {"passive-imperative-2sg"})

\* a perfect participle is an adjective, looked up at its verb
FROM_ADJ(family) == Deriving(Suffix("passive-participle", {"adj"}, family.out))
PARTICIPLES == { FROM_ADJ(f) : f \in verb({"passive-participle"}) \cup verbMoved({"passive-participle"}, "last") }
INTERNAL_AUGMENTS ==
    prefix({"internal-augment", "old-augment"}, {"aug"}) \cup suffix({"movable-n"}, {}, {})
        \cup whole({"movable-n"}, {}, {}) \cup prefix({"xana-"}, {})

FINITE == UNION { personTransforms(tense, PERSONS) :
                      tense \in {"present", "imperfect", "aorist", "dependent", "passive-aorist", "passive-dependent"} }
IRREGULAR ==
    whole(FINITE \cup {"imperative-2sg", "perfective-imperative-2sg", "perfective-imperative-2pl", "passive-imperative-2sg",
                       "gerund", "passive-participle"}, {}, VERB.out)
        \cup verb(FINITE)
COMPOUNDED == verb(personTransforms("dependent", PERSONS))
              \cup verbMoved(personTransforms("dependent", PERSONS) \cup {"perfective-imperative-2sg"}, "last")

(* Nouns and adjectives.  KEEPS: the rule moves the accent left in a stem  *)
(* that has one, and is written again for a stem that has none.            *)
N  == {"n"}
NA == {"n", "adj"}
A  == {"adj"}
LEFT == "ante"
Masculines ==
    suffix({"gen-sg", "acc-sg", "voc-sg", "nom-pl", "gen-pl", "acc-pl", "acc-pl-gen-sg", "obl-sg", "plural"}, {}, NA)
    \cup suffix({"acc-sg", "older-ending", "gen-sg", "plural", "gen-pl", "obl-sg"}, {}, N)
    \cup shared({"gen-sg", "gen-pl", "acc-pl-gen-sg"}, LEFT, {}, N) \cup shared({"gen-sg", "gen-pl"}, "last", {}, N)
FemininesAndNeuters ==
    suffix({"gen-sg", "plural", "gen-pl"}, {}, N)
    \cup shared({"gen-sg", "plural", "gen-pl"}, LEFT, {}, N) \cup shared({"gen-pl"}, "last", {}, N)
AdjectiveForms ==
    suffix({"gen-sg", "plural", "acc-sg"}, {}, NA) \cup suffix({"gen-pl"}, {}, N)
    \cup suffix({"feminine", "feminine-gen-sg", "feminine-pl", "neuter-pl", "gen-sg", "acc-sg", "nom-pl", "gen-pl", "acc-pl",
                 "plural"}, {}, A)
\* a comparative is read as its own adjective's form, so only an adjective's
FROM_A ==
    suffix({"comparative", "superlative"}, A, A) \cup whole({"comparative", "superlative"}, A, A)
    \cup shared({"comparative", "superlative"}, "last", A, A) \cup shared({"comparative", "superlative"}, "ante", A, A)
DIM == shared({"diminutive"}, "last", {}, N) \cup shared({"diminutive"}, "none", {}, N)
Pronouns == whole({"acc-sg", "voc-sg", "gen-sg", "nom-pl", "gen-pl", "acc-pl", "feminine", "feminine-gen-sg", "feminine-pl",
                   "neuter-pl", "short-pronoun"}, {}, {})
ELIDED == whole({"elision", "aphaeresis"}, {}, {}) \cup suffix({"elision", "closing-quote"}, {}, {})
          \cup prefix({"aphaeresis", "elided-proclitic"}, {})
MONOSYLLABLES == whole({"monosyllable"}, {}, {})

(* The accent: each marker is taken by the rules of its part of speech.    *)
accentRule(pos, kind) == suffix({"accent"}, {KIND[kind][pos]}, {pos})
Accents == UNION { accentRule(pos, kind) : pos \in {"n", "adj"}, kind \in DOMAIN KIND } \cup accentRule("v", "last")

Pack == [conditions |-> conditions,
         families   |-> ConjugationI \cup PERFECTIVE \cup ConjugationII \cup PassiveI \cup PassiveII \cup PARTICIPLES
                        \cup INTERNAL_AUGMENTS \cup IRREGULAR \cup COMPOUNDED \cup Masculines \cup FemininesAndNeuters
                        \cup AdjectiveForms \cup FROM_A \cup DIM \cup Pronouns \cup ELIDED \cup MONOSYLLABLES \cup Accents]
===============================================================================
