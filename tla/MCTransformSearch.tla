--------------------------- MODULE MCTransformSearch ---------------------------
(***************************************************************************)
(* What TransformSearch promises, stated with the recursion that the       *)
(* search's stack replaced (docs/languages.md, sections 7.4 and 12.1): a   *)
(* text, then for each of its rules in order what the rule makes of it,    *)
(* expanded the same way; and the instance it is checked on.               *)
(***************************************************************************)
EXTENDS TransformSearch

\* the rules that match a text, by group, longer affixes first, then file order
Group(r) == CASE rules[r].type \in {"suffix", "wholeWord"} -> 1 [] rules[r].type = "prefix" -> 2 [] OTHER -> 3
Matching(text) ==
  {r \in DOMAIN rules : CASE Group(r) = 1 -> IsSuffix(rules[r].from, text)
                          [] Group(r) = 2 -> IsPrefix(rules[r].from, text)
                          [] OTHER -> TRUE}
InOrder(text) ==
  SetToSortSeq(Matching(text), LAMBDA r, s :
    \/ Group(r) < Group(s)
    \/ Group(r) = Group(s) /\ Group(r) < 3 /\ Len(rules[r].from) > Len(rules[s].from)
    \/ Group(r) = Group(s) /\ (Group(r) = 3 \/ Len(rules[r].from) = Len(rules[s].from)) /\ r < s)

Node(text, conditions, trace) == [text |-> text, conditions |-> conditions, trace |-> trace]

\* The recursion, from a node.  A rule that was applied to the same text
\* before in the node's trace is a cycle; "every" checks each output for that,
\* as Yomitan does, and not only those no shorter than the text.
RECURSIVE Expand(_, _, _, _)
Expand(node, every, longest, deepest) ==
  LET Child(r) ==
        LET output == Output(r, node.text)
            cycle == <<r, node.text>> \in ToSet(node.trace) /\ (every \/ Len(output) >= Len(node.text))
        IN  IF ~Allowed(r, node.conditions) \/ output = <<>> \/ cycle
               \/ Len(output) > longest \/ Len(node.trace) >= deepest
            THEN <<>>
            ELSE Expand(Node(output, rules[r].conditionsOut, Append(node.trace, <<r, node.text>>)), every, longest, deepest)
      order == InOrder(node.text)
  IN  <<node>> \o FlattenSeq([k \in DOMAIN order |-> Child(order[k])])

\* the deinflections of the latest search, with their traces
RECURSIVE TraceTo(_)
TraceTo(i) ==
  IF out[i].parent = npos THEN <<>> ELSE Append(TraceTo(out[i].parent), <<out[i].via, out[out[i].parent].text>>)
Found == [k \in 1..Len(out) - root + 1 |-> Node(out[root + k - 1].text, out[root + k - 1].conditions, TraceTo(root + k - 1))]
Results(nodes) == {<<nodes[k].text, nodes[k].conditions>> : k \in DOMAIN nodes}

Input == lookup.requests[asked].text
Ended == pc = "next" /\ asked > 0 /\ Input # <<>>

-----------------------------------------------------------------------------
\* Every variable has its type, and every search keeps its bounds: no chain is
\* longer than MaxDepth rules, no text more than MaxGrowth longer than the one
\* the search began with, no search holds more than MaxResults, and no text
\* but a request's is empty.  The units taken pay for every deinflection that
\* was found, in all searches of the lookup together.
WithinBounds ==
  /\ rules \in Packs /\ lookup \in Lookups /\ asked \in 0..Len(lookup.requests)
  /\ pc \in {"next", "search"} /\ hit \in {"none", "growth", "depth", "results", "work"}
  /\ budget \in [left : 0..MaxWork, ops : 0..OpsPerUnit - 1]
  /\ Len(out) - root < MaxResults /\ Len(frames) <= MaxDepth + 1
  /\ \A i \in DOMAIN out :
       out[i].parent # npos => /\ out[i].parent < i /\ out[i].text # <<>>
                               /\ Len(TraceTo(i)) <= MaxDepth
                               /\ i >= root => Len(out[i].text) <= Len(out[root].text) + MaxGrowth
  /\ Cardinality({i \in DOMAIN out : out[i].parent # npos}) <= MaxWork - budget.left

\* "Each output is recorded and expanded before the next rule applies to its
\* parent, as a recursion would": a search finds what the recursion finds, in
\* its order and with its traces.  One that the results bound or the work
\* budget stops has found the beginning of it, and one that finds the budget
\* spent its own text: "everything recorded before stays, in the same order".
\* Until then it keeps its bounds.
AsRecursion ==
  WithinBounds /\ (Ended =>
    LET ref == Expand(Node(Input, {}, <<>>), FALSE, Len(Input) + MaxGrowth, MaxDepth)
    IN  CASE hit = "results" -> Len(ref) > MaxResults /\ Found = SubSeq(ref, 1, MaxResults)
          [] hit = "work" -> IsPrefix(Found, ref) /\ Found # <<>>
          [] OTHER -> Found = ref)

\* A lookup that reports no bound has lost nothing, in any of its searches:
\* they found every text with every conditions that a search with wider bounds
\* finds, and that one which checks every output for a cycle finds, as Yomitan
\* does: "the sets the differential check compares ... are the same".
NothingLostSilently ==
  Ended /\ reported = "none" =>
    \A every \in BOOLEAN :
      Results(Found) = Results(Expand(Node(Input, {}, <<>>), every, Len(Input) + MaxGrowth + 1, MaxDepth + 1))

\* Whatever the rules make of each other's outputs, every search ends.
SearchEnds == <>(pc = "next" /\ asked = Len(lookup.requests))

-----------------------------------------------------------------------------
(* The instance: every pair of rules, and some triples and fours: rules     *)
(* that shorten and lengthen, that undo each other, that apply to every     *)
(* text, that need or give conditions, one of every type.  Two requests     *)
(* share a budget.                                                          *)

MCRule(type, from, to, in, result) ==
  [type |-> type, from |-> from, to |-> to, conditionsIn |-> in, conditionsOut |-> result,
   stemEndsWith |-> {}, optional |-> FALSE]
a == <<"a">>
b == <<"b">>
MCRules == <<
  MCRule("suffix", b, <<>>, {}, {}),
  MCRule("suffix", a, a \o b, {}, {}),
  MCRule("suffix", a \o b, b, {"v"}, {"n"}),
  [MCRule("suffix", <<>>, a, {}, {"v"}) EXCEPT !.stemEndsWith = {"b"}],
  MCRule("prefix", a, <<>>, {"n"}, {"v"}),
  MCRule("replace", a \o b, b \o a, {"n", "v"}, {}),
  MCRule("wholeWord", a, b \o b, {"n"}, {}),
  [MCRule("suffix", b, a, {}, {"n"}) EXCEPT !.optional = TRUE],
  MCRule("suffix", a, b, {"n"}, {"n", "v"}),
  MCRule("prefix", <<"b", "a">>, <<"a", "b">>, {"v"}, {"n"})>>
MCPacks ==
  {<<MCRules[i], MCRules[j]>> : i, j \in 1..Len(MCRules)}
  \cup {<<MCRules[i], MCRules[j], MCRules[k]>> : i \in 1..4, j \in {3, 5, 6, 8}, k \in {1, 4, 7, 9, 10}}
  \cup {<<MCRules[i], MCRules[9], MCRules[8], MCRules[j]>> : i \in {1, 2}, j \in {4, 6}}
MCLookups ==
  {[requests |-> <<[text |-> t, step |-> FALSE], [text |-> u, step |-> TRUE]>>, enabled |-> e] :
     t \in {<<>>, a \o b, <<"b", "a", "b">>}, u \in {<<>>, <<"b", "b", "a">>}, e \in BOOLEAN}
=============================================================================
