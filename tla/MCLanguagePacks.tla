----------------------------- MODULE MCLanguagePacks -----------------------------
(* What is done with a language pack, in one specification, for small packs, *)
(* classes, patterns and texts and the rules of the languages whose build    *)
(* scripts are modelled.  The tools are programs of their own that share     *)
(* files and modules but no running state, so a behaviour is of one of them: *)
(* a pack being put together, a ClassSet being constructed and read, a       *)
(* pattern being parsed and matched, a text going through processors; or a   *)
(* word being read with the rules of one of the languages.                   *)
EXTENDS PackBuild, PatternDialect, TextSteps, PackRules

VARIABLE tool
vars == <<tool, packVars, classVars, patternVars, textVars, ruleVars>>

Tools == {"build", "classes", "pattern", "text", "rules"}

\* a tool that does not run is at its beginning, on one of its inputs
Init ==
    /\ tool \in Tools
    /\ PackInit
    /\ PatternInit
    /\ IF tool = "classes" THEN ClassesInit
       ELSE classes = <<>> /\ expansions = <<>> /\ unread = {} /\ verdict = "constructing" /\ field = <<>>
    /\ IF tool = "text" THEN TextInit
       ELSE /\ processors = <<>> /\ enabled = {} /\ source = <<>> /\ limit = 1
            /\ done = 0 /\ variants = <<[text |-> <<>>, steps |-> 0]>>
    /\ IF tool = "rules" THEN RulesInit
       ELSE language = "none" /\ reached = {} /\ applied = NoRule

Next ==
    \/ tool = "build" /\ PackNext /\ UNCHANGED <<tool, classVars, patternVars, textVars, ruleVars>>
    \/ tool = "classes" /\ ClassesNext /\ UNCHANGED <<tool, packVars, patternVars, textVars, ruleVars>>
    \/ tool = "pattern" /\ PatternNext /\ UNCHANGED <<tool, packVars, classVars, textVars, ruleVars>>
    \/ tool = "text" /\ TextNext /\ UNCHANGED <<tool, packVars, classVars, patternVars, ruleVars>>
    \/ tool = "rules" /\ Apply /\ UNCHANGED <<tool, packVars, classVars, patternVars, textVars>>

Spec == Init /\ [][Next]_vars

-----------------------------------------------------------------------------
(* Rules: "s" and "t" are rules, "?" a todo that a person maps to "t".      *)
rule(body, from) == [body |-> body, source |-> from]
transform(id, fields, rules) == [id |-> id, fields |-> fields, source |-> "own", rules |-> rules]
packFile(conditions, transforms) == [conditions |-> conditions, wordLists |-> <<>>, transforms |-> transforms]
Noun == "n" :> [dictionary |-> TRUE]
NounMarker == "n" :> [dictionary |-> FALSE]
Verb == "v" :> [dictionary |-> TRUE]
named(n) == "name" :> n
UpTo(S, n) == UNION {[1..m -> S] : m \in 0..n}
\* copies of the same rules in every order, with sources of their own
MCOwnVersions ==
    {packFile(Noun, <<transform("plural", named("own"), [i \in DOMAIN b |-> rule(b[i], "both")])>>) : b \in UpTo({"s", "t"}, 3)}
    \cup {packFile(c, <<transform("past", named("own"), <<rule("s", "own")>>),
                        transform("plural", named("own"), <<rule("t", "yomitan"), rule("s", "own")>>)>>) :
              c \in {Noun @@ Verb, NounMarker}}
MCDescriptor ==
    packFile(Noun, <<transform("plural", named("yomitan") @@ ("i18n" :> "x"),
                               <<rule("s", "yomitan"), rule("?", "yomitan"), rule("s", "yomitan")>>),
                     transform("-s", named("yomitan"), <<rule("s", "yomitan")>>)>>)
MCTemplate == packFile(Noun, <<transform("plural", named("plural"), <<rule("s", "own")>>)>>)
MCMappedTo == "?" :> "t"

-----------------------------------------------------------------------------
(* Classes over six code points, of which 3 is a surrogate.                 *)
sets(S) == {Bracket(n, i) : n \in BOOLEAN, i \in S}
asts == {Reference("a"), Reference("b"), Reference("none")}
        \cup sets({{Span(1, 2)}, {Span(2, 1)}, {Span(0, 0), Refer("a")}, {Refer("b"), Refer("c")}, {}})
MCDefinitions == {("a" :> x) @@ ("b" :> y) @@ ("c" :> z) : x \in asts, y \in asts, z \in asts}
                 \cup {[name \in {} |-> Reference("a")]}
MCFields == {Reference("c"), Bracket(FALSE, {Span(2, 1)}), Bracket(FALSE, {Span(4, 4), Refer("a")}), Bracket(TRUE, {Refer("b"), Refer("c")})}

-----------------------------------------------------------------------------
(* Texts of e, its capital, and both with an accent, composed or not.       *)
MCLower == ("E" :> "e") @@ ("Ee" :> "ee")
MCUpper == ("e" :> "E") @@ ("ee" :> "Ee")
MCDecomposed == ("ee" :> <<"e", "'">>) @@ ("Ee" :> <<"E", "'">>)
MCCodePoint == ("'" :> 5) @@ ("E" :> 1) @@ ("e" :> 2) @@ ("Ee" :> 3) @@ ("ee" :> 4)
case(mode) == [kind |-> "case", case |-> mode]
form(f, within) == [kind |-> "normalize", normalize |-> f, within |-> within]
strip(class) == [kind |-> "strip", strip |-> class]
map(m, place) == [kind |-> "map", map |-> m, at |-> place]
pattern(p, r, all, again) == [kind |-> "pattern", pattern |-> p, replace |-> r, global |-> all, repeat |-> again]
alternatives(a, n) == [kind |-> "alternatives", alternatives |-> a, limit |-> n]
letters == {"e", "E", "'", "ee", "Ee"}
MCVariants == {
    <<case("lower")>>, <<case("upper")>>, <<case("upperFirst")>>, <<case("lowerFirst")>>,
    <<form("NFD", letters), strip({"'"}), form("NFC", letters)>>, <<form("NFC", letters \ {"E"})>>,
    <<pattern(<<"e", "e">>, <<"e">>, FALSE, TRUE)>>, <<pattern(<<"E">>, <<>>, TRUE, FALSE)>>,
    <<alternatives((<<"e">> :> <<<<"ee">>, <<"E">>>>) @@ (<<"E">> :> <<<<"e">>>>), 4)>>}
    \cup {<<map((<<"e">> :> <<"ee">>) @@ (<<"E", "e">> :> <<"e">>), place)>> : place \in {"all", "first", "last", "start", "end"}}
processor(id, vs, keep, opt) == [id |-> id, variants |-> vs, keepInput |-> keep, optional |-> opt]
MCProcessors ==
    {<<processor("x", <<v>>, k, FALSE), processor("y", <<w>>, TRUE, TRUE)>> : v \in MCVariants, w \in MCVariants, k \in BOOLEAN}
    \cup {<<processor("x", <<v, w>>, TRUE, FALSE), processor("y", <<v>>, TRUE, FALSE), processor("z", <<w>>, FALSE, FALSE)>> :
              v \in MCVariants, w \in MCVariants}
MCInputs == {<<"E", "e">>, <<"e", "'", "e">>, <<"Ee", "e", "e">>}

-----------------------------------------------------------------------------
El  == INSTANCE ModernGreekRules
Eu  == INSTANCE BasqueRules
Grc == INSTANCE AncientGreekRules
It  == INSTANCE ItalianRules
La  == INSTANCE LatinRules
Pt  == INSTANCE PortugueseRules
Ru  == INSTANCE RussianRules
Sh  == INSTANCE SerboCroatianRules
Sq  == INSTANCE AlbanianRules
Uk  == INSTANCE UkrainianRules

MCPacks == [el |-> El!Pack, eu |-> Eu!Pack, grc |-> Grc!Pack, it |-> It!Pack, la |-> La!Pack, pt |-> Pt!Pack,
            ru |-> Ru!Pack, sh |-> Sh!Pack, sq |-> Sq!Pack, uk |-> Uk!Pack]
==============================================================================
