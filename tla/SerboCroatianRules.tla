-------------------------- MODULE SerboCroatianRules --------------------------
(***************************************************************************)
(* languages/sh/sources/build-own.mjs: the Serbo-Croatian rules.  The      *)
(* script collects specs, each of a group; the group says the part of      *)
(* speech unless the spec says its conditions itself.  A declined          *)
(* participle is read as an adjective and then as a verb's, a comparative  *)
(* as an adjective, a superlative as a comparative (marker cmp).           *)
(***************************************************************************)
EXTENDS PackFamilies

conditions == [v |-> Word("verb"), n |-> Word("noun"), adj |-> Word("adjective"), pron |-> Word("pronoun"),
               cmp |-> Marker({"adjective"}), lpart |-> Marker({"verb"})]

GROUP_OUT ==
    [g \in {"irregular-verb", "verb-present", "verb-participle", "verb-past", "verb-imperative",
            "verb-future", "verb-adverbial", "verb-noun"} |-> {"v"}] @@
    [g \in {"irregular-noun", "noun"} |-> {"n"}] @@
    ("pronoun" :> {"pron"} @@ "adjective" :> {"adj", "pron"} @@ "comparative" :> {"adj"} @@ "headword" :> {})

(* Suffix specs of one shape become one circumfix row, compact(); a spec   *)
(* alone stays a suffix.                                                   *)
sfx(group, in, out)     == { Suffix(group, in, out), Circumfix(group, in, out) }
whole(group, in)        == { WholeWord(group, in, GROUP_OUT[group]) }
ending(group)           == sfx(group, {}, GROUP_OUT[group])

(* Nouns: masculine, with the fleeting a and its changes; feminine and     *)
(* neuter; closed classes.                                                 *)
fleeting        == ending("noun")
MasculineNouns  == ending("noun") \cup fleeting
OtherNouns      == ending("noun") \cup whole("noun", {})
IrregularNouns  == whole("irregular-noun", {})
Adjectives      == ending("adjective") \cup whole("adjective", {})

(* Comparatives also follow the prefix rule of superlatives.               *)
CMP == {"adj", "cmp"}
Comparatives ==
    { Prefix("comparative", {"adj"}, {"cmp"}) } \cup
    sfx("comparative", CMP, GROUP_OUT["comparative"]) \cup whole("comparative", CMP)
Pronouns == whole("pronoun", {})

(* Verbs.                                                                  *)
present        == ending("verb-present")
PresentA       == present
PresentStems   == present

(* The masculine singular also reads what the colloquial -'o rule left.    *)
lParticiple(masculine) ==
    IF masculine THEN {Circumfix("verb-participle", {"lpart"}, {"v"})} ELSE ending("verb-participle")
LParticiples ==
    lParticiple(TRUE) \cup lParticiple(FALSE)
        \cup { Circumfix("verb-participle", {}, {"lpart"}) }

(* The passive participle as it is, an adjective to be read as the verb's; *)
(* its forms in -a, -o, -i, -e without one.                                *)
passive(ofAdjective) ==
    IF ofAdjective THEN { Deriving(f) : f \in sfx("verb-participle", {"adj"}, {"v"}) }
    ELSE ending("verb-participle")
Passives    == passive(TRUE) \cup passive(FALSE)
TParticiples == passive(TRUE) \cup passive(FALSE)

Adverbials  == ending("verb-adverbial")
Past        == ending("verb-past")
imperative  == ending("verb-imperative")
Imperatives == imperative
Futures     == ending("verb-future") \cup { Pattern("verb-future", {}, {"v"}) }
VerbalNouns == { Deriving(Circumfix("verb-noun", {"n"}, {"v"})) }
IrregularVerbs == whole("irregular-verb", {})
Headwords   == whole("headword", {})

Specs == MasculineNouns \cup OtherNouns \cup IrregularNouns \cup Adjectives \cup Comparatives
         \cup Pronouns \cup PresentA \cup PresentStems \cup LParticiples \cup Passives
         \cup TParticiples \cup Adverbials \cup Past \cup Imperatives \cup Futures \cup VerbalNouns
         \cup IrregularVerbs \cup Headwords

(* Frequent homographs, and their Cyrillic twins: the reading of a suffix  *)
(* rule written as a whole word, whatever that rule takes.                 *)
Twin(family) == WholeWord(family.slot, {}, family.out)
PREFER == { Twin(f) : f \in {g \in Specs : /\ g.kind \in {"suffix", "circumfix"}
                                           /\ g.slot \in {"noun", "adjective", "comparative"} \/ "v" \in g.out } }
CyrillicTwins == PREFER \cup { Twin(f) : f \in {g \in Specs : g.kind = "wholeWord"} }

Pack == [conditions |-> conditions, families |-> Specs \cup PREFER \cup CyrillicTwins]
===============================================================================
