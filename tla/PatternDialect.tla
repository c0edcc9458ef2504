---------------------------- MODULE PatternDialect ----------------------------
(***************************************************************************)
(* The characters and the patterns of a pack (tools/lib/classes.mjs).      *)
(*                                                                         *)
(* A class is a bracket expression of characters, ranges and {name}        *)
(* references, or one bare reference.  The constructor of ClassSet expands *)
(* every class into a regular expression, refusing references to nothing   *)
(* and cycles; a field of the pack is then read as the code points its     *)
(* expansion accepts.  What stands between the brackets is modelled by the *)
(* code points it names, and a code point by its number.                   *)
(*                                                                         *)
(* A pattern is in the dialect that parsePattern reads, one token at a     *)
(* time.  JavaScript, libstdc++ and libc++ must match a pattern alike, so  *)
(* the parser refuses what they read differently.  A refused pattern is a  *)
(* token no action reads.  Then any of them matches the accepted pattern:  *)
(* a way through the tokens that picks an alternative of each group, or    *)
(* steps over a group that may be repeated zero times.  One round stands   *)
(* for any number of rounds, and a lookahead, which holds nothing that is  *)
(* remembered, for a step.                                                 *)
(***************************************************************************)
EXTENDS Integers, Sequences, FiniteSets, SequencesExt, TLC

CONSTANTS
    MAX_CODE_POINT,
    Surrogates,      \* the surrogates, next to each other
    Fields,          \* the class fields to read once the classes are there
    Definitions      \* the `classes` objects to construct from

CodePoints == 0..MAX_CODE_POINT
ASSUME SurrogatesAssumption ==
    Surrogates \subseteq CodePoints /\ \A a, b \in Surrogates : a..b \subseteq Surrogates

\* what parseClass returns
Reference(name) == [type |-> "ref", name |-> name]
Bracket(negated, items) == [type |-> "set", negated |-> negated, items |-> items]
Span(from, to) == [kind |-> "range", name |-> "", from |-> from, to |-> to]
Refer(name) == [kind |-> "ref", name |-> name, from |-> 0, to |-> 0]
\* "the range is out of order" is all that can be wrong with an item here
Parses(ast) == ast.type = "set" => \A item \in ast.items : item.from <= item.to
Referred(ast) == IF ast.type = "ref" THEN {ast.name}
                 ELSE {item.name : item \in {i \in ast.items : i.kind = "ref"}}

VARIABLES
    classes,      \* #definitions: what parseClass made of each class
    expansions,   \* #expansions: each class expanded so far
    unread,       \* the names the constructor has yet to expand
    verdict,      \* "constructing", "refused" or "constructed"
    field         \* the field read last
classVars == <<classes, expansions, unread, verdict, field>>

Failed == [failed |-> TRUE]
Accepts(e) == IF e.negated THEN CodePoints \ e.inner ELSE e.inner

-----------------------------------------------------------------------------
(* Code points as ranges.                                                  *)

\* one turn of the loop over the code points; first is -1 outside a range
Scan(accepted, surrogates, acc, cp) ==
    LET closed == [ranges |-> Append(acc.ranges, <<acc.first, cp - 1>>), first |-> -1]
    IN  IF cp \in accepted /\ (surrogates \/ cp \notin Surrogates)
        THEN IF acc.first < 0 THEN [acc EXCEPT !.first = cp] ELSE acc
        ELSE IF acc.first >= 0 THEN closed ELSE acc
rangesOfSource(e, surrogates) ==
    LET end == FoldLeft(LAMBDA acc, i : Scan(Accepts(e), surrogates, acc, i - 1),
                        [ranges |-> <<>>, first |-> -1], [i \in 1..(MAX_CODE_POINT + 1) |-> i])
    IN  IF end.first >= 0 THEN Append(end.ranges, <<end.first, MAX_CODE_POINT>>) ELSE end.ranges
rangesToItems(ranges) == UNION {ranges[i][1]..ranges[i][2] : i \in DOMAIN ranges}

-----------------------------------------------------------------------------
(* Expanding.  known is the cache, naming the names being expanded.        *)

\* Faulty variant: the members of a negated class are listed as text has them.
MembersOfText(target) ==
    IF target.negated THEN rangesToItems(rangesOfSource(target, FALSE)) ELSE target.inner
\* a negated class cannot be written inside another one: its members are listed
Members(target) ==
    IF target.negated THEN rangesToItems(rangesOfSource(target, TRUE)) ELSE target.inner

RECURSIVE expandName(_, _, _), expandAst(_, _, _)
expandName(name, known, naming) ==
    CASE name \in DOMAIN known -> known[name]
      [] name \in naming \/ name \notin DOMAIN classes -> Failed
      [] OTHER -> expandAst(classes[name], known, naming \cup {name})
expandAst(ast, known, naming) ==
    IF ast.type = "ref" THEN expandName(ast.name, known, naming)
    ELSE LET referred == {expandName(name, known, naming) : name \in Referred(ast)}
             own == UNION {item.from..item.to : item \in {i \in ast.items : i.kind = "range"}}
         IN  IF Failed \in referred THEN Failed
             ELSE [negated |-> ast.negated, inner |-> own \cup UNION {Members(target) : target \in referred}]

\* parseClass on every definition; the names are expanded in their order
ClassesInit ==
    /\ classes \in Definitions
    /\ expansions = <<>>
    /\ unread = DOMAIN classes
    /\ verdict = CASE \E name \in DOMAIN classes : ~Parses(classes[name]) -> "refused"
                   [] DOMAIN classes = {} -> "constructed"
                   [] OTHER -> "constructing"
    /\ field = <<>>

\* what a name refers to is expanded, and kept, before it is
Within(name) ==
    LET reach[d \in 0..Cardinality(DOMAIN classes)] ==
            IF d = 0 THEN {name}
            ELSE reach[d - 1] \cup UNION {Referred(classes[n]) : n \in reach[d - 1] \cap DOMAIN classes}
    IN  reach[Cardinality(DOMAIN classes)]
ExpandClass == \E name \in unread :
    /\ verdict = "constructing"
    /\ LET e == expandName(name, expansions, {})
       IN  IF e = Failed THEN verdict' = "refused" /\ UNCHANGED expansions
           ELSE /\ expansions' = expansions @@ [n \in Within(name) |-> expandName(n, expansions, {})]
                /\ verdict' = IF unread = {name} THEN "constructed" ELSE verdict
    /\ unread' = unread \ {name}
    /\ UNCHANGED <<classes, field>>

\* ranges, matcher: a field is expanded with the classes there are
ReadField == \E ast \in Fields :
    /\ verdict = "constructed" /\ Parses(ast)
    /\ LET e == expandAst(ast, expansions, {})
       IN  e # Failed /\ field' = [ast |-> ast, accepts |-> Accepts(e), ranges |-> rangesOfSource(e, FALSE)]
    /\ UNCHANGED <<classes, expansions, unread, verdict>>

ClassesNext == ExpandClass \/ ReadField

-----------------------------------------------------------------------------
(* What a class means.                                                     *)

\* what every class means, when each refers to classes in its depth only
Meaning ==
    LET names == DOMAIN classes
        of(ast, known) ==
            IF ast.type = "ref" THEN known[ast.name]
            ELSE LET inner == UNION {item.from..item.to : item \in {i \in ast.items : i.kind = "range"}}
                              \cup UNION {known[n] : n \in Referred(ast)}
                 IN  IF ast.negated THEN CodePoints \ inner ELSE inner
        within[d \in 0..Cardinality(names)] ==
            IF d = 0 THEN [n \in names |-> {}] ELSE [n \in names |-> of(classes[n], within[d - 1])]
    IN  [names |-> within[Cardinality(names)], field |-> [ast \in Fields |->
            IF Referred(ast) \subseteq names THEN of(ast, within[Cardinality(names)]) ELSE {}]]
WellFounded ==
    \A name \in DOMAIN classes :
        /\ Parses(classes[name])
        /\ Within(name) \subseteq DOMAIN classes
        /\ \A n \in Referred(classes[name]) : name \notin Within(n)

\* However the classes refer to each other, negated ones inside negated ones,
\* and in whatever order they are expanded: the set is refused exactly when a
\* reference leads nowhere or in a circle, and a class or a field accepts the
\* code points it means, the surrogates among them; its ranges are those of
\* text, in order, as few as can be and without a surrogate.
ClassesMeanSets ==
    /\ verdict = "constructed" => WellFounded /\ \A n \in DOMAIN classes : Accepts(expansions[n]) = Meaning.names[n]
    /\ verdict = "refused" => ~WellFounded
    /\ field # <<>> =>
        /\ field.accepts = Meaning.field[field.ast]
        /\ rangesToItems(field.ranges) = field.accepts \ Surrogates
        /\ \A i \in 1..(Len(field.ranges) - 1) : field.ranges[i][2] + 1 < field.ranges[i + 1][1]

-----------------------------------------------------------------------------
(* Patterns.                                                               *)

CONSTANTS
    MaxTokens,    \* bound on the length of a pattern
    MaxGroups     \* bound on its capturing groups

\* a quantifier with a minimum of zero (*, ?, {0,n}), one without, none
Quantifiers == {"star", "plus", "once"}
Kinds == {"capture", "plain", "look", "lookNot"}

VARIABLES
    tokens,       \* the pattern, as far as it is read
    stack,        \* the groups and lookaheads that are open, the pattern first
    nextFrame,    \* the next frame: an alternative, a group or a lookahead
    optional,     \* the closed frames that may not take part in a match
    groupFrames,  \* by group: the frames that held it when it opened, and its own
    groupNullable,\* by closed group: whether it can match the empty text
    global,       \* whether the pattern replaces every match
    phase,        \* "parse", "accepted", "match", "matched"
    at,           \* the token the match is at
    inside,       \* the groups the match is in, each with whether it has consumed text
    taken         \* by group that took part: whether it captured any text
parsing == <<tokens, stack, nextFrame, optional, groupFrames, groupNullable>>
matching == <<global, phase, at, inside, taken>>
patternVars == <<parsing, matching>>

Top == stack[Len(stack)]
lookaheads == Cardinality({i \in DOMAIN stack : stack[i].kind \in {"look", "lookNot"}})
\* the open frames, outermost first: of each open group its own, then its alternative's
frames == FlattenSeq([i \in DOMAIN stack |-> <<stack[i].frame, stack[i].alternative>>])
groups == Cardinality(DOMAIN groupFrames)
Opened(kind, group) ==
    [kind |-> kind, group |-> group, frame |-> nextFrame, alternative |-> nextFrame + 1, before |-> group,
     bars |-> FALSE, nullable |-> FALSE, soFar |-> TRUE]
\* a term the alternative goes on with
Then(entry, nullable) == [entry EXCEPT !.soFar = @ /\ nullable]

PatternInit ==
    /\ tokens = <<>> /\ optional = {} /\ groupFrames = <<>> /\ groupNullable = <<>>
    /\ stack = <<[kind |-> "pattern", group |-> 0, frame |-> 0, alternative |-> 1, before |-> 0,
                  bars |-> FALSE, nullable |-> FALSE, soFar |-> TRUE]>>
    /\ nextFrame = 2
    /\ global = FALSE /\ phase = "parse" /\ at = 0 /\ inside = <<>> /\ taken = <<>>

Read(token) ==
    /\ phase = "parse" /\ Len(tokens) < MaxTokens
    /\ tokens' = Append(tokens, token)
    /\ UNCHANGED matching
Becomes(entry) == stack' = [stack EXCEPT ![Len(stack)] = entry]

\* a character, a class, a dot or a {name}
Atom(q) ==
    /\ Read([token |-> "atom", q |-> q])
    /\ Becomes(Then(Top, q = "star"))
    /\ UNCHANGED <<nextFrame, optional, groupFrames, groupNullable>>

\* ^ at the start of the text, or $ at its end
Anchor(start) ==
    /\ Read([token |-> "anchor", q |-> "once"])
    /\ start => lookaheads = 0
    /\ Becomes(Then(Top, TRUE))
    /\ UNCHANGED <<nextFrame, optional, groupFrames, groupNullable>>

Open(kind) ==
    /\ Read([token |-> "open", kind |-> kind])
    /\ kind = "capture" => lookaheads = 0 /\ groups < MaxGroups
    /\ LET group == IF kind = "capture" THEN groups + 1 ELSE groups
       IN  /\ stack' = Append(stack, Opened(kind, group))
           /\ groupFrames' = IF kind = "capture" THEN Append(groupFrames, Append(frames, nextFrame)) ELSE groupFrames
    /\ nextFrame' = nextFrame + 2
    /\ optional' = IF kind = "lookNot" THEN optional \cup {nextFrame} ELSE optional
    /\ UNCHANGED groupNullable

\* the frames that are optional once the alternative read now ends
ended(more) == IF more \/ Top.bars THEN optional \cup {Top.alternative} ELSE optional

Bar ==
    /\ Read([token |-> "bar"])
    /\ Becomes([Top EXCEPT !.nullable = @ \/ Top.soFar, !.soFar = TRUE, !.bars = TRUE, !.alternative = nextFrame])
    /\ nextFrame' = nextFrame + 1
    /\ optional' = ended(TRUE)
    /\ UNCHANGED <<groupFrames, groupNullable>>

\* what a group must be like to carry a quantifier
mayRepeat(q, nullable) == q # "once" => ~nullable /\ groups = Top.before

Close(q) ==
    /\ Len(stack) > 1
    /\ Read([token |-> "close", q |-> q])
    /\ LET look == Top.kind \in {"look", "lookNot"}
           nullable == Top.nullable \/ Top.soFar
           outer == stack[Len(stack) - 1]
       IN  /\ look => q = "once"
           /\ mayRepeat(q, nullable)
           /\ optional' = IF q = "star" THEN ended(FALSE) \cup {Top.frame} ELSE ended(FALSE)
           /\ groupNullable' = IF Top.kind = "capture" THEN groupNullable @@ (Top.group :> nullable) ELSE groupNullable
           /\ stack' = Append(SubSeq(stack, 1, Len(stack) - 2), Then(outer, look \/ nullable \/ q = "star"))
    /\ UNCHANGED <<nextFrame, groupFrames>>

\* Faulty variant: frames at the same depth are taken for the same.
LeftByDepth(group) == {groupFrames[group][i] : i \in (Len(frames) + 1)..Len(groupFrames[group])}
\* the frames that held the group and are closed by now
Left(group) ==
    LET held == groupFrames[group]
        shared == {n \in 1..Len(held) : n <= Len(frames) /\ SubSeq(held, 1, n) = SubSeq(frames, 1, n)}
    IN  {held[i] : i \in (DOMAIN held) \ shared}

BackReference(group, q) ==
    /\ Read([token |-> "back", group |-> group, q |-> q])
    /\ group \in DOMAIN groupNullable
    /\ lookaheads = 0
    /\ Left(group) \cap optional = {}
    /\ q # "once" => ~groupNullable[group]
    /\ Becomes(Then(Top, groupNullable[group] \/ q = "star"))
    /\ UNCHANGED <<nextFrame, optional, groupFrames, groupNullable>>

\* the pattern ends: the last of the disjunction, and what it is used for
Nullable == Top.nullable \/ Top.soFar
Accept ==
    /\ phase = "parse" /\ Len(stack) = 1
    /\ phase' = "accepted"
    /\ global' \in IF Nullable THEN {FALSE} ELSE BOOLEAN
    /\ UNCHANGED <<parsing, at, inside, taken>>

-----------------------------------------------------------------------------
(* Matching.  This is the engines' doing; the parser only foresees it.     *)

Depth(i) == Cardinality({j \in 1..i : tokens[j].token = "open"}) - Cardinality({j \in 1..(i - 1) : tokens[j].token = "close"})
\* the token that closes what the token i opens
CloseOf(i) == CHOOSE j \in (i + 1)..Len(tokens) :
                  /\ tokens[j].token = "close" /\ Depth(j) = Depth(i)
                  /\ \A k \in (i + 1)..(j - 1) : ~(tokens[k].token = "close" /\ Depth(k) = Depth(i))
\* where the alternatives begin of the group opened at i, or of the pattern when i is 0
Alternatives(i) ==
    LET depth == IF i = 0 THEN 0 ELSE Depth(i)
        end == IF i = 0 THEN Len(tokens) ELSE CloseOf(i)
    IN  {i + 1} \cup {j + 1 : j \in {k \in (i + 1)..end : tokens[k].token = "bar" /\ Depth(k) = depth}}
GroupAt(i) == Cardinality({j \in 1..i : tokens[j].token = "open" /\ tokens[j].kind = "capture"})
Here == IF at \in DOMAIN tokens THEN tokens[at] ELSE [token |-> "bar"]
Innermost == inside[Len(inside)]
Consumed(all, text) == [all EXCEPT ![Len(all)].text = @ \/ text]

BeginMatch ==
    /\ phase = "accepted"
    /\ phase' = "match"
    /\ at' \in Alternatives(0)
    /\ inside' = <<[open |-> 0, text |-> FALSE]>> /\ taken' = <<>>
    /\ UNCHANGED <<parsing, global>>

MatchTerm ==
    /\ phase = "match" /\ Here.token \in {"atom", "anchor", "back"}
    /\ at' = at + 1
    /\ \E none \in IF Here.q = "star" THEN BOOLEAN ELSE {FALSE} :
         inside' = Consumed(inside, CASE none \/ Here.token = "anchor" -> FALSE
                                      [] Here.token = "atom" -> TRUE
                                      [] OTHER -> Here.group \in DOMAIN taken /\ taken[Here.group])
    /\ UNCHANGED <<parsing, global, phase, taken>>

EnterGroup ==
    /\ phase = "match" /\ Here.token = "open" /\ Here.kind \in {"capture", "plain"}
    /\ at' \in Alternatives(at)
    /\ inside' = Append(inside, [open |-> at, text |-> FALSE])
    /\ UNCHANGED <<parsing, global, phase, taken>>

StepOver ==
    /\ phase = "match" /\ Here.token = "open"
    /\ Here.kind \in {"look", "lookNot"} \/ tokens[CloseOf(at)].q = "star"
    /\ at' = CloseOf(at) + 1
    /\ UNCHANGED <<parsing, global, phase, inside, taken>>

LeaveGroup ==
    /\ phase = "match" /\ Here.token \in {"bar", "close"} /\ Len(inside) > 1
    /\ at' = CloseOf(Innermost.open) + 1
    /\ inside' = Consumed(SubSeq(inside, 1, Len(inside) - 1), Innermost.text)
    /\ taken' = IF tokens[Innermost.open].kind = "capture"
                THEN (GroupAt(Innermost.open) :> Innermost.text) @@ taken ELSE taken
    /\ UNCHANGED <<parsing, global, phase>>

EndMatch ==
    /\ phase = "match" /\ Here.token = "bar" /\ Len(inside) = 1
    /\ phase' = "matched"
    /\ UNCHANGED <<parsing, global, at, inside, taken>>

PatternNext ==
    \/ \E q \in Quantifiers : Atom(q) \/ Close(q) \/ \E g \in 1..MaxGroups : BackReference(g, q)
    \/ \E kind \in Kinds : Open(kind)
    \/ \E start \in BOOLEAN : Anchor(start)
    \/ Bar \/ Accept
    \/ BeginMatch \/ MatchTerm \/ EnterGroup \/ StepOver \/ LeaveGroup \/ EndMatch

\* Whichever way an accepted pattern matches, a back-reference names a group
\* that took part on that way, a repeated group has consumed text when a round
\* ends, and a global pattern has matched some text: the places where whether
\* the engines part ways depends on what a match does.  What parsePattern turns
\* away wherever it stands is a guard here and no more: a capturing group in a
\* repeated one, and `^`, a capturing group or a back-reference in a lookahead.
PatternsMatchAlike ==
    /\ phase = "match" /\ Here.token = "back" => Here.group \in DOMAIN taken
    /\ (phase = "match" /\ Here.token \in {"bar", "close"} /\ Len(inside) > 1
          /\ tokens[CloseOf(Innermost.open)].q # "once") => Innermost.text
    /\ phase = "matched" /\ global => inside[1].text
===============================================================================
