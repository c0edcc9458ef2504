----------------------------- MODULE PackFamilies -----------------------------
(***************************************************************************)
(* What the build scripts of the language packs write, seen as a graph.    *)
(*                                                                         *)
(* A script under languages/<code>/sources writes own.json: conditions and *)
(* deinflection rules.  A rule takes conditionsIn and gives conditionsOut; *)
(* the thousands of rules of a language differ mostly in letters, so a     *)
(* language is modelled by its FAMILIES: one for all the rules a table or  *)
(* a loop of the script writes with the same kind of rule and the same     *)
(* conditions.  The slot names the forms the family reads: a transform of  *)
(* the script, or a table of them.  Letters, names, descriptions and       *)
(* limits on the stem are left out; which rule can follow which is kept    *)
(* whole.                                                                  *)
(*                                                                         *)
(* A pack is [conditions |-> function, families |-> set].                  *)
(***************************************************************************)
EXTENDS Naturals, FiniteSets, TLC

(* Conditions.  pos is the part of speech the condition's name says it is; *)
(* a marker is a condition of no dictionary row (isDictionaryForm false)   *)
(* and may say several; a group stands for its subConditions.              *)
Word(pos)          == [pos |-> {pos}, dictionary |-> TRUE,  subs |-> {}]
Group(pos, subs)   == [pos |-> {pos}, dictionary |-> TRUE,  subs |-> subs]
Marker(pos)        == [pos |-> pos,   dictionary |-> FALSE, subs |-> {}]
Markers(pos, subs) == [pos |-> pos,   dictionary |-> FALSE, subs |-> subs]

(* Several conditions of one kind.                                         *)
Words(pos, names) == [c \in names |-> Word(pos)]
Marks(pos, names) == [c \in names |-> Marker(pos)]

(* Families of rules.  derives: the rule makes a word of another part of   *)
(* speech by intention (an adverb from an adjective, a noun from a verb).  *)
Family(slot, kind, in, out) ==
    [slot |-> slot, kind |-> kind, in |-> in, out |-> out, derives |-> FALSE]
Suffix(slot, in, out)    == Family(slot, "suffix", in, out)
Prefix(slot, in, out)    == Family(slot, "prefix", in, out)
WholeWord(slot, in, out) == Family(slot, "wholeWord", in, out)
Circumfix(slot, in, out) == Family(slot, "circumfix", in, out)
Pattern(slot, in, out)   == Family(slot, "pattern", in, out)
Replace(slot, in, out)   == Family(slot, "replace", in, out)
Deriving(family)         == [family EXCEPT !.derives = TRUE]

(* The leaves a set of conditions stands for.  Groups nest at most         *)
(* Cardinality(DOMAIN conditions) deep.                                    *)
Leaves(conditions, names) ==
    LET expand[d \in 0..Cardinality(DOMAIN conditions)] ==
            IF d = 0 THEN names
            ELSE UNION { IF conditions[c].subs = {} THEN {c}
                         ELSE conditions[c].subs : c \in expand[d - 1] }
    IN expand[Cardinality(DOMAIN conditions)]

(* The same families with every group written out as its leaves, as the    *)
(* engine compares them.                                                   *)
Flattened(pack) ==
    { [f EXCEPT !.in = Leaves(pack.conditions, f.in),
                !.out = Leaves(pack.conditions, f.out)] : f \in pack.families }

PartsOfSpeech(conditions, names) == UNION { conditions[c].pos : c \in names }
===============================================================================
