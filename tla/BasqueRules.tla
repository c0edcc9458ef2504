----------------------------- MODULE BasqueRules -----------------------------
(***************************************************************************)
(* languages/eu/sources/build-own.mjs: the Basque rules.  Endings stack: a *)
(* case rule leaves a declined form without its ending (sg, pl) for the    *)
(* genitive, -ko, a verbal noun or a finite verb with -n to take; a finite *)
(* verb whose suffix (sub) or prefix (pfx) was taken off is read by the    *)
(* forms of its tense that may carry one.                                  *)
(***************************************************************************)
EXTENDS PackFamilies

DECLINED == {"sg", "pl"}
\* what sg and pl were attached to may be any of the four
declinable == {"noun", "adjective", "adverb", "verb"}
conditions ==
    [n |-> Word("noun"), adj |-> Word("adjective"), adv |-> Word("adverb"), v |-> Word("verb"),
     sg |-> Marker(declinable), pl |-> Marker(declinable), sub |-> Marker({"verb"}), pfx |-> Marker({"verb"}),
     dep |-> Markers({"verb"}, {"sub", "pfx"} \cup DECLINED), fin |-> Markers({"verb"}, {"sub", "pfx"})]

(* The cases: the numbers each has, whether a verb (v, by number) or an    *)
(* adverb takes it, and whether other endings follow it (stacker).         *)
Case(numbers, v, adv, stacker) == [numbers |-> numbers, v |-> v, adv |-> adv, stacker |-> stacker]
every == {"sg", "pl", "indef", "prox"}
CASES ==
    { Case({"sg", "pl", "prox"}, every, FALSE, FALSE),                              \* abs
      Case(every, DECLINED, FALSE, FALSE),                                          \* erg
      Case(every, {}, FALSE, FALSE),                                                \* dat, com, ben, mot
      Case(every, every, FALSE, FALSE),                                             \* ins
      Case(every, {}, TRUE, FALSE),                                                 \* ine, abl, all, dir, ter
      Case(every, {}, FALSE, TRUE), Case({"sg", "pl", "indef"}, {}, FALSE, TRUE),   \* gen; comko
      Case(every, {}, TRUE, TRUE), Case({"sg", "pl", "indef"}, {}, TRUE, TRUE),     \* loc, des; ablko, dirko, terko
      Case({"indef"}, {}, FALSE, TRUE),                                             \* insko
      Case({"indef"}, every, FALSE, FALSE), Case({"indef"}, {}, FALSE, FALSE) }     \* par; pro
stemRules == {"after a vowel", "after a consonant"}
declension ==
    { Suffix("case", IF c.stacker THEN DECLINED ELSE {},
             {"n", "adj"} \cup {p \in {"v"} : number \in c.v}
                          \cup {p \in {"adv"} : c.adv /\ stem = "after a vowel"}
                          \cup {IF number \in {"pl", "prox"} THEN "pl" ELSE "sg"}) :
        <<c, number, stem>> \in {x \in CASES \X every \X stemRules : x[2] \in x[1].numbers} }

futureParticiple == { Suffix("future", {}, {"v"}) }
animate  == { Suffix("animate", in, {"sg"}) : in \in {{}, DECLINED} }
degree   == { Suffix("degree", DECLINED, {"adj", "adv"}), WholeWord("comparative", {}, {"n"}) }
            \cup { WholeWord("degree-suppletive", DECLINED, {pos, "adv"}) : pos \in {"adj", "adv"} }
adverbs  == { Suffix("adverb-ki", {}, {"adj"}), Suffix("adverb-ko", DECLINED, {"adv", "sg"}),
              Suffix("adverb-ko", DECLINED, {"adv", "n", "adj", "sg"}), Suffix("adverb-ka", {}, {"n", "adj", "sg"}),
              Suffix("adverb-tik", {}, {"adv"}), WholeWord("adverb-tik", {}, {"adv"}) }
nonFinite ==
    { Suffix("imperfective", {}, {"v"}), Suffix("verbal-noun", DECLINED, {"v"}), Suffix("radical", {}, {"v"}),
      Suffix("resultative", {}, {"v"}), Suffix("relative-participle", DECLINED, {"v"}),
      WholeWord("auxiliary-root", {"v"}, {"v"}), WholeWord("compound", DECLINED, {"v"}), WholeWord("compound", {}, {"v"}),
      WholeWord("future", {}, {"v"}), WholeWord("future", {}, {"n", "adj"}) }

(* Pronouns and determiners: dictionaries give them no part of speech, so  *)
(* the rule forgets what the case ending said.                             *)
closedForm(in) == Deriving(WholeWord("closed", in, {}))
CLOSED         == { closedForm(in) : in \in {{}, DECLINED} }
closedClasses  == CLOSED \cup { closedForm(DECLINED) }

(* The finite verb: a paradigm is a table of forms by tense; the auxiliary *)
(* forms of some tenses also end a compound verb written apart.            *)
finiteIn(tense, endsInN) ==
    CASE tense = "imp"                  -> {}
      [] tense = "hyp"                  -> {"pfx"}
      [] tense \in {"subj", "subjpast"} -> {"sub"}
      [] OTHER                          -> IF endsInN THEN {"dep"} ELSE {"fin"}
COMPOUND_TENSES == {"present", "past", "cond"}
paradigm(tenses) == { WholeWord(t, finiteIn(t, n), {"v"}) : t \in tenses, n \in BOOLEAN }
finiteTransforms(tenses, compound) ==
    paradigm(tenses)
        \cup { Suffix(t, finiteIn(t, n), {"v"}) : t \in {u \in tenses \cap COMPOUND_TENSES : compound}, n \in BOOLEAN }
AUXILIARY_HOMOGRAPHS == finiteTransforms({"present", "past", "imp"}, FALSE)
SyntheticEgonToErabili == finiteTransforms({"present", "past", "imp", "hyp", "cond", "allo", "allopast"}, FALSE)
SyntheticEsanToEntzun  == finiteTransforms({"present", "past", "imp"}, FALSE)
AuxiliariesIzanToEzan  == finiteTransforms({"present", "past", "cond", "condpast", "hyp", "pot", "imp", "allo"}, TRUE)
                          \cup finiteTransforms({"allo", "allopast", "hyp", "pot", "pothyp", "potpast",
                                                "subj", "subjpast", "imp"}, FALSE)
AuxiliariesWithDative  == finiteTransforms({"present", "past", "cond", "condpast"}, TRUE)
                          \cup finiteTransforms({"present", "past", "cond", "hyp", "allo", "allopast", "pot", "pothyp",
                                                "subj", "subjpast", "imp"}, FALSE)
EzanWithDative         == finiteTransforms({"subj", "subjpast", "pot", "pothyp", "potpast", "imp"}, FALSE)

(* What attaches to a finite verb.                                         *)
subordination ==
    { Suffix("relative", DECLINED, {"sub"}), WholeWord("relative", {"sg"}, {"sub"}),
      Suffix("complementizer", {}, {"sub"}), Suffix("complementizer", DECLINED, {"sub"}) }
prefixes ==
    { Prefix("ba", {"fin"}, {"pfx"}), Prefix("bait", {"fin"}, {"pfx"}), Suffix("familiar", {}, {"pfx"}),
      Circumfix("familiar", {}, {"pfx"}), Suffix("past-an", {"fin"}, {"pfx"}), Prefix("ez", {}, {"pfx"}) }

Pack == [conditions |-> conditions,
         families   |-> subordination \cup prefixes \cup degree \cup futureParticiple \cup declension \cup animate
                        \cup adverbs \cup nonFinite \cup closedClasses \cup AUXILIARY_HOMOGRAPHS
                        \cup SyntheticEgonToErabili \cup SyntheticEsanToEntzun \cup AuxiliariesIzanToEzan
                        \cup AuxiliariesWithDative \cup EzanWithDative]
===============================================================================
