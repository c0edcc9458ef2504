---------------------------- MODULE TransformSearch ----------------------------
(***************************************************************************)
(* The deinflection search (TransformSet::search, push_frame, next_output, *)
(* src/src/languages/transforms.cpp:466-803): a depth-first search over    *)
(* the texts that a language's rules make of each other, on a stack of its *)
(* own, with a cycle check and four bounds.  A lookup's searches share one *)
(* work budget (src/src/languages/bounds.hpp); where somebody asks whether *)
(* a bound was reached (corpus.cpp:157, cli/main.cpp:357) they also share  *)
(* the BoundHit they report to.                                            *)
(*                                                                         *)
(* Texts are sequences of letters, conditions sets of flags.  Of the rule  *)
(* types, suffix, wholeWord, prefix and replace are modelled, of the stem  *)
(* constraints stemEndsWith; the other types only differ in which output   *)
(* one application gives.  A byte is a letter.                             *)
(***************************************************************************)
EXTENDS Integers, Sequences, FiniteSets, SequencesExt

CONSTANTS
  Packs,        \* the sequences of rules searched with
  Lookups,      \* the sequences of requests that share a budget
  MaxGrowth,    \* SearchBounds::max_growth
  MaxDepth,     \* SearchBounds::max_depth
  MaxResults,   \* SearchBounds::max_results
  MaxWork,      \* SearchBounds::max_work
  WorkBytes,    \* SearchBounds::work_bytes
  OpsPerUnit    \* SearchBounds::ops_per_unit

ASSUME BoundsAssumption ==
  {MaxGrowth, MaxDepth, MaxResults, MaxWork} \subseteq Nat /\ {MaxDepth, MaxResults, WorkBytes, OpsPerUnit} \subseteq Nat \ {0}

VARIABLES
  rules,      \* the pack's rules
  lookup,     \* the requests, and which optional transforms are enabled
  asked,      \* how many of the requests have begun
  pc,         \* "next" between searches, "search" in one
  root,       \* where the search's results begin in out
  out,        \* the deinflections, of all searches
  frames,     \* the deinflections being expanded, each with the rules to come
  budget,     \* the SearchBudget: units left, operations not yet charged
  hit,        \* what the search reports: the bound that cut it short
  reported    \* *run.hit: what the first search with something to report did
vars == <<rules, lookup, asked, pc, root, out, frames, budget, hit, reported>>
still == <<rules, lookup, asked, root>>

npos == 0
none == 0

-----------------------------------------------------------------------------
(* Rules and texts.                                                        *)

SuffixOf(text, n) == SubSeq(text, Len(text) - n + 1, Len(text))
PrefixOf(text, n) == SubSeq(text, 1, n)
OfTypes(types) == {r \in DOMAIN rules : rules[r].type \in types}
\* the rules of a trie node, in file order
RulesAt(types, affix) ==
  SelectSeq([r \in DOMAIN rules |-> r], LAMBDA r : r \in OfTypes(types) /\ rules[r].from = affix)

suffix_types == {"suffix", "wholeWord"}
\* Faulty variant: shorter suffixes first.
MatchesShortestFirst(text) ==
  FlattenSeq([n \in 1..Len(text) + 1 |-> RulesAt(suffix_types, SuffixOf(text, n - 1))])
  \o FlattenSeq([n \in 1..Len(text) + 1 |-> RulesAt({"prefix"}, PrefixOf(text, n - 1))])
  \o SelectSeq([r \in DOMAIN rules |-> r], LAMBDA r : rules[r].type = "replace")
\* The rules that apply to a text, in their order: longest suffix first, the
\* empty one last; prefixes the same way; then the rules in no trie.
Matches(text) ==
  FlattenSeq([n \in 1..Len(text) + 1 |-> RulesAt(suffix_types, SuffixOf(text, Len(text) + 1 - n))])
  \o FlattenSeq([n \in 1..Len(text) + 1 |-> RulesAt({"prefix"}, PrefixOf(text, Len(text) + 1 - n))])
  \o SelectSeq([r \in DOMAIN rules |-> r], LAMBDA r : rules[r].type = "replace")

\* the letters the walks through the tries read, up to the one with no edge
Walked(text) ==
  Cardinality({n \in 1..Len(text) : n = 1 \/ \E r \in OfTypes(suffix_types) : IsSuffix(SuffixOf(text, n - 1), rules[r].from)})
  + Cardinality({n \in 1..Len(text) : OfTypes({"prefix"}) # {} /\
                   (n = 1 \/ \E r \in OfTypes({"prefix"}) : IsPrefix(PrefixOf(text, n - 1), rules[r].from))})

\* allowed: conditions that share a flag, or a text that has none
Allowed(r, conditions) ==
  /\ conditions = {} \/ conditions \cap rules[r].conditionsIn # {}
  /\ rules[r].optional => lookup.enabled

Stem(r, text) ==
  CASE rules[r].type \in suffix_types -> PrefixOf(text, Len(text) - Len(rules[r].from))
    [] rules[r].type = "prefix" -> SuffixOf(text, Len(text) - Len(rules[r].from))
    [] OTHER -> <<>>
StemOk(r, stem) == rules[r].stemEndsWith = {} \/ (stem # <<>> /\ Last(stem) \in rules[r].stemEndsWith)

\* What the rule makes of a text it matches: the empty text when it does not
\* apply after all, which the search treats as it treats an empty output.
Output(r, text) ==
  LET rule == rules[r]
      stem == Stem(r, text)
  IN  CASE rule.type = "suffix" -> IF StemOk(r, stem) THEN stem \o rule.to ELSE <<>>
        [] rule.type = "prefix" -> IF StemOk(r, stem) THEN rule.to \o stem ELSE <<>>
        [] rule.type = "wholeWord" -> IF stem = <<>> THEN rule.to ELSE <<>>
        [] rule.type = "replace" -> IF rule.from \in SubSeqs(text) THEN ReplaceFirstSubSeq(rule.to, rule.from, text) ELSE <<>>

\* the operations of one application: stem checks and the search of replace
RuleOps(r, text) ==
  IF rules[r].type = "replace" THEN Len(text)
  ELSE IF rules[r].stemEndsWith # {} THEN Len(Stem(r, text)) ELSE 0

-----------------------------------------------------------------------------
(* SearchBudget.                                                           *)

Spent(b) == b.left = 0
Spend(b, units) == [b EXCEPT !.left = IF units < @ THEN @ - units ELSE 0]
AddOps(b, n) ==
  [Spend(b, (b.ops + n) \div OpsPerUnit) EXCEPT !.ops = (b.ops + n) % OpsPerUnit]

Init ==
  /\ rules \in Packs /\ lookup \in Lookups
  /\ asked = 0 /\ pc = "next" /\ root = 0 /\ out = <<>> /\ frames = <<>>
  /\ budget = [left |-> MaxWork, ops |-> 0]
  /\ hit = "none" /\ reported = "none"

-----------------------------------------------------------------------------
(* The search.                                                             *)

Deinflection(text, conditions, parent, via) == [text |-> text, conditions |-> conditions, parent |-> parent, via |-> via]
Push(stack, text, index) == Append(stack, [index |-> index, rules |-> Matches(text)])
Top == Last(frames)
Text == out[Top.index].text
Conditions == out[Top.index].conditions
Rule == Head(Top.rules)
\* the stack once the top frame's next rule is done with
RuleDone == Front(frames) \o <<[Top EXCEPT !.rules = Tail(@)]>>
Searching == pc = "search" /\ frames # <<>>

\* the search ends, for the bound given, or else for those that dropped an output
Ends(bound) ==
  /\ pc' = "next" /\ frames' = <<>> /\ hit' = bound
  /\ reported' = IF reported = "none" THEN bound ELSE reported

\* deinflect, and deinflect_from_step for a text of a variant pass.
Request == lookup.requests[asked + 1]
BeginEmpty ==
  /\ pc = "next" /\ asked < Len(lookup.requests) /\ Request.text = <<>>
  /\ asked' = asked + 1
  /\ out' = IF Request.step THEN out ELSE Append(out, Deinflection(<<>>, {}, npos, none))
  /\ root' = Len(out) + 1 /\ hit' = "none"
  /\ UNCHANGED <<rules, lookup, pc, frames, budget, reported>>

BeginSpent ==
  /\ pc = "next" /\ asked < Len(lookup.requests) /\ Request.text # <<>> /\ Spent(budget)
  /\ asked' = asked + 1
  /\ out' = Append(out, Deinflection(Request.text, {}, npos, none))
  /\ root' = Len(out) + 1
  /\ Ends("work")
  /\ UNCHANGED <<rules, lookup, budget>>

Begin ==
  /\ pc = "next" /\ asked < Len(lookup.requests) /\ Request.text # <<>> /\ ~Spent(budget)
  /\ asked' = asked + 1
  /\ out' = Append(out, Deinflection(Request.text, {}, npos, none))
  /\ root' = Len(out) + 1
  /\ frames' = Push(<<>>, Request.text, Len(out) + 1)
  /\ budget' = AddOps(budget, Walked(Request.text))
  /\ pc' = "search" /\ hit' = "none"
  /\ UNCHANGED <<rules, lookup, reported>>

\* next_output: a rule its conditions or options skip
SkipRule ==
  /\ Searching /\ Top.rules # <<>> /\ ~Allowed(Rule, Conditions)
  /\ budget' = AddOps(budget, 1)
  /\ IF Spent(budget')
     THEN Ends("work")
     ELSE frames' = RuleDone /\ UNCHANGED <<pc, hit, reported>>
  /\ UNCHANGED <<still, out>>

\* a rule there are no units left to try
OutOfWork ==
  /\ Searching /\ Top.rules # <<>> /\ Allowed(Rule, Conditions) /\ Spent(budget)
  /\ Ends("work")
  /\ UNCHANGED <<still, out, budget>>

Tries == Searching /\ Top.rules # <<>> /\ Allowed(Rule, Conditions) /\ ~Spent(budget)
Made == Output(Rule, Text)
\* try_rule and settle
Tried == AddOps(Spend(Spend(budget, 1), Len(Made) \div WorkBytes), RuleOps(Rule, Text))

\* the deinflections above one that a rule made, itself first, nearest first
Chain(i) ==
  LET up[k \in 0..Len(out)] == IF k = 0 THEN i ELSE IF up[k - 1] = npos THEN npos ELSE out[up[k - 1]].parent
  IN  SelectSeq([k \in 1..Len(out) + 1 |-> up[k - 1]], LAMBDA n : n # npos /\ out[n].parent # npos)
\* the places of the chain where this rule was applied to this text before
Repeats == {k \in DOMAIN Chain(Top.index) :
              LET n == Chain(Top.index)[k] IN out[n].via = Rule /\ out[out[n].parent].text = Text}
ChecksCycle == Made # <<>> /\ Len(Made) >= Len(Text)
IsCycle == ChecksCycle /\ Repeats # {}
CycleSteps ==
  IF ~ChecksCycle THEN 0
  ELSE IF Repeats = {} THEN Len(Chain(Top.index)) ELSE CHOOSE k \in Repeats : \A j \in Repeats : k <= j
\* the budget once the output has been judged
Judged == AddOps(Tried, CycleSteps)

TooLong == Len(Made) > Len(out[root].text) + MaxGrowth
TooDeep == Len(frames) > MaxDepth
TooMany == Len(out) - root + 1 >= MaxResults
Bound == IF TooLong THEN "growth" ELSE IF TooDeep THEN "depth" ELSE IF TooMany THEN "results" ELSE "none"

NoOutput ==
  /\ Tries /\ (Made = <<>> \/ IsCycle)
  /\ budget' = Judged /\ frames' = RuleDone
  /\ UNCHANGED <<still, pc, out, hit, reported>>

\* Faulty variant: only a bound that stops the search is reported.
DropsSilently ==
  /\ Tries /\ Made # <<>> /\ ~IsCycle /\ Bound \in {"growth", "depth"}
  /\ budget' = Judged /\ frames' = RuleDone
  /\ UNCHANGED <<still, pc, out, hit, reported>>
Drops ==
  /\ Tries /\ Made # <<>> /\ ~IsCycle /\ Bound \in {"growth", "depth"}
  /\ budget' = Judged /\ frames' = RuleDone
  /\ hit' = IF hit = "none" THEN Bound ELSE hit
  /\ UNCHANGED <<still, pc, out, reported>>

HoldsEnough ==
  /\ Tries /\ Made # <<>> /\ ~IsCycle /\ Bound = "results"
  /\ budget' = Judged
  /\ Ends("results")
  /\ UNCHANGED <<still, out>>

Record ==
  /\ Tries /\ Made # <<>> /\ ~IsCycle /\ Bound = "none"
  /\ out' = Append(out, Deinflection(Made, rules[Rule].conditionsOut, Top.index, Rule))
  /\ frames' = Push(RuleDone, Made, Len(out) + 1)
  /\ budget' = AddOps(Judged, Walked(Made))
  /\ UNCHANGED <<still, pc, hit, reported>>

\* Faulty variant: the frame stays.
PopFrameNever ==
  /\ Searching /\ Top.rules = <<>>
  /\ UNCHANGED vars
PopFrame ==
  /\ Searching /\ Top.rules = <<>>
  /\ frames' = Front(frames)
  /\ UNCHANGED <<still, pc, out, budget, hit, reported>>

EndSearch ==
  /\ pc = "search" /\ frames = <<>>
  /\ Ends(hit)
  /\ UNCHANGED <<still, out, budget>>

Next ==
  \/ BeginEmpty \/ BeginSpent \/ Begin
  \/ SkipRule \/ OutOfWork \/ NoOutput \/ Drops \/ HoldsEnough \/ Record
  \/ PopFrame \/ EndSearch

Spec == Init /\ [][Next]_vars
\* the loop runs on the thread of the lookup
FairSpec == Spec /\ WF_vars(Next)
=============================================================================
