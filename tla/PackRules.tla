------------------------------ MODULE PackRules ------------------------------
(***************************************************************************)
(* A word being read with the rules a language's build script writes, as   *)
(* the search applies them: the conditions say which rules may come next.  *)
(* A text as written has no conditions and any rule may take it; a word    *)
(* with conditions only meets the rules that take one of them              *)
(* (transforms.cpp:588).  Each step is one rule; which letters it changes  *)
(* is left out, so every chain the rules allow is followed.                *)
(***************************************************************************)
EXTENDS PackFamilies

CONSTANT Packs    \* the packs, by language code

VARIABLES
  language,       \* the language being read, "none" when none is
  reached,        \* the conditions of the word reached, leaves only
  applied         \* the family of the rule applied last
ruleVars == <<language, reached, applied>>

Rules == [l \in DOMAIN Packs |-> Flattened(Packs[l])]
NoRule == Family("none", "none", {}, {})

RulesInit == language \in DOMAIN Packs /\ reached = {} /\ applied = NoRule

allowed(family) == reached = {} \/ reached \cap family.in # {}

Apply == \E family \in Rules[language] :
            /\ allowed(family)
            /\ reached' = family.out
            /\ applied' = family
            /\ UNCHANGED language

-----------------------------------------------------------------------------
(* What the rules of a language promise.                                   *)

\* by language, the conditions from which a chain of rules reaches a word of the dictionary: as long as
\* it takes, one rule more for every condition
Readable ==
    [l \in DOMAIN Packs |->
        LET all == DOMAIN Packs[l].conditions
            within[n \in 0..Cardinality(all)] ==
                IF n = 0 THEN {c \in all : Packs[l].conditions[c].dictionary}
                ELSE LET before == within[n - 1]
                     IN  before \cup UNION { f.in : f \in {g \in Rules[l] : g.out = {} \/ g.out \cap before # {}} }
        IN  within[Cardinality(all)]]
\* by language, the conditions some rule gives
Given == [l \in DOMAIN Packs |-> UNION { f.out : f \in Rules[l] }]

(* A rule that takes conditions can follow one that gives them.            *)
NoRuleForNothing == language \in DOMAIN Packs => \A f \in Rules[language] : f.in # {} => f.in \cap Given[language] # {}

(* No word is left at a stem that is in no dictionary: after every chain   *)
(* of rules a row can be looked up, or further rules lead to one.  And no  *)
(* rule is written for nothing: a condition misspelt on one side, or       *)
(* renamed in one table and not in the other, either strands a word or     *)
(* leaves rules no text can ever reach.                                    *)
MarkersResolve == NoRuleForNothing /\ (reached = {} \/ reached \cap Readable[language] # {})

(* A rule does not make a word of another part of speech out of one whose  *)
(* part of speech is known, nor forget what is known, unless it derives    *)
(* words on purpose: a verb's form must not end as a noun that happens to  *)
(* be spelt so.                                                            *)
KeepsPartOfSpeech ==
    [][ reached # {} /\ ~applied'.derives =>
          LET PosOf(names) == PartsOfSpeech(Packs[language].conditions, names)
          IN  PosOf(reached') \cap PosOf(reached \cap applied'.in) # {} ]_ruleVars
===============================================================================
