------------------------------ MODULE PackBuild ------------------------------
(***************************************************************************)
(* How the rules of a pack come together: sources/own.json is written by   *)
(* the pack's own script, sources/yomitan.json by port-yomitan-transforms  *)
(* and then mapped by hand where the port left a todo, transforms.json by  *)
(* merge-transforms and then by the pack's final script.  The two tools    *)
(* replace a file that may hold such work only when they are told to.      *)
(*                                                                         *)
(* A rule is its body, which stands for everything but its source; a text  *)
(* is equal to another when the two files hold the same.                   *)
(***************************************************************************)
EXTENDS Integers, Sequences, FiniteSets, SequencesExt, Folds, TLC

CONSTANTS
    OwnVersions,   \* what the own script may write, one after the other
    Descriptor,    \* Yomitan's rules, as the port writes them
    Template,      \* _template/transforms.json
    MappedTo,      \* the body a person writes for a todo, by its body
    Missing        \* no such file

Inherited == "inherited"
Files == {"own", "yomitan", "transforms", "elsewhere"}

VARIABLES
    files,         \* what each file holds
    edited,        \* the files that hold work a tool cannot redo
    last           \* the command run last: what it wrote and whether forced
packVars == <<files, edited, last>>

-----------------------------------------------------------------------------
(* mergeTransforms.                                                        *)

Nothing == [conditions |-> <<>>, wordLists |-> <<>>, transforms |-> <<>>]
OrNothing(file) == IF file = Missing THEN Nothing ELSE file
Differ(a, b) == \E k \in DOMAIN a \cap DOMAIN b : a[k] # b[k]
HasTodo(file) == \E i \in DOMAIN file.transforms : \E j \in DOMAIN file.transforms[i].rules :
                     file.transforms[i].rules[j].body \in DOMAIN MappedTo
MergeFails(own, yomitan) ==
    \/ own = Missing /\ yomitan = Missing
    \/ HasTodo(OrNothing(yomitan))
    \/ Differ(OrNothing(yomitan).conditions, OrNothing(own).conditions)
    \/ Differ(OrNothing(yomitan).wordLists, OrNothing(own).wordLists)

\* a rule says its source only when it is not its transform's
Tagged(rule, source, of) == [rule EXCEPT !.source = IF source = of THEN Inherited ELSE source]
Copies(rules, body) == Cardinality({i \in DOMAIN rules : rules[i].body = body})
Bodies(rules) == {rules[i].body : i \in DOMAIN rules}

\* Faulty variant: one own rule pairs with every copy Yomitan has.
PairSet(acc, rule) ==
    IF rule.body \in DOMAIN acc.unpaired
    THEN [rules |-> Append(acc.rules, Tagged(rule, "both", "both")),
          unpaired |-> [acc.unpaired EXCEPT ![rule.body] = 0]]
    ELSE [acc EXCEPT !.rules = Append(@, Tagged(rule, "yomitan", "both"))]
\* each of own.json's rules pairs with at most one equal Yomitan rule
Pair(acc, rule) ==
    IF rule.body \in DOMAIN acc.unpaired /\ acc.unpaired[rule.body] > 0
    THEN [rules |-> Append(acc.rules, Tagged(rule, "both", "both")),
          unpaired |-> [acc.unpaired EXCEPT ![rule.body] = @ - 1]]
    ELSE [acc EXCEPT !.rules = Append(@, Tagged(rule, "yomitan", "both"))]
AddUnpaired(acc, rule) ==
    IF acc.unpaired[rule.body] > 0
    THEN [rules |-> Append(acc.rules, Tagged(rule, "own", "both")),
          unpaired |-> [acc.unpaired EXCEPT ![rule.body] = @ - 1]]
    ELSE acc
\* the fields of own.json's transform win
Shared(theirs, mine) ==
    LET unpaired == [b \in Bodies(mine.rules) |-> Copies(mine.rules, b)]
        paired == FoldLeft(Pair, [rules |-> <<>>, unpaired |-> unpaired], theirs.rules)
    IN  [id |-> theirs.id, fields |-> mine.fields @@ theirs.fields, source |-> "both",
         rules |-> FoldLeft(AddUnpaired, paired, mine.rules).rules]
OnlyIn(transform, source) ==
    [transform EXCEPT !.source = source,
                      !.rules = [i \in DOMAIN @ |-> Tagged(@[i], source, source)]]
WithId(transforms, id) == {i \in DOMAIN transforms : transforms[i].id = id}
MergeTransforms(own, yomitan) ==
    LET theirs == yomitan.transforms
        mine == own.transforms
    IN  [conditions |-> yomitan.conditions @@ own.conditions,
         wordLists |-> yomitan.wordLists @@ own.wordLists,
         transforms |->
            [i \in DOMAIN theirs |->
                IF WithId(mine, theirs[i].id) = {} THEN OnlyIn(theirs[i], "yomitan")
                ELSE Shared(theirs[i], mine[CHOOSE k \in WithId(mine, theirs[i].id) : TRUE])]
            \o [k \in 1..Len(SelectSeq(mine, LAMBDA t : WithId(theirs, t.id) = {})) |->
                    OnlyIn(SelectSeq(mine, LAMBDA t : WithId(theirs, t.id) = {})[k], "own")]]

-----------------------------------------------------------------------------
(* The commands, and the work of people and scripts between them.          *)

Write(file, content, force) ==
    /\ files' = [files EXCEPT ![file] = content]
    /\ edited' = edited \ {file}
    /\ last' = [wrote |-> file, force |-> force]
Edit(file, content) ==
    /\ files' = [files EXCEPT ![file] = content]
    /\ edited' = edited \cup {file}
    /\ last' = [wrote |-> file, force |-> TRUE]

\* cp -r languages/_template languages/<code>
PackInit ==
    /\ files = [f \in Files |-> IF f = "transforms" THEN Template ELSE Missing]
    /\ edited = {}
    /\ last = [wrote |-> "transforms", force |-> FALSE]

BuildOwn == \E version \in OwnVersions : Write("own", version, TRUE)

Port(file, force) ==
    /\ file \in {"yomitan", "elsewhere"}
    /\ files[file] = Missing \/ force
    /\ Write(file, Descriptor, force)

\* the languages' map-yomitan.mjs: every todo becomes a rule
MapTodos ==
    /\ files["yomitan"] # Missing /\ HasTodo(files["yomitan"])
    /\ LET mapped(rule) == [rule EXCEPT !.body = IF @ \in DOMAIN MappedTo THEN MappedTo[@] ELSE @]
           transforms == files["yomitan"].transforms
       IN  Edit("yomitan", [files["yomitan"] EXCEPT !.transforms =
               [i \in DOMAIN transforms |->
                   [transforms[i] EXCEPT !.rules = [j \in DOMAIN @ |-> mapped(@[j])]]]])

\* Faulty variant: any file of the pack may be replaced.
MergeAlways(file, force) ==
    /\ file \in {"transforms", "elsewhere"}
    /\ ~MergeFails(files["own"], files["yomitan"])
    /\ Write(file, MergeTransforms(OrNothing(files["own"]), OrNothing(files["yomitan"])), force)
Merge(file, force) ==
    /\ file \in {"transforms", "elsewhere"}
    /\ ~MergeFails(files["own"], files["yomitan"])
    /\ LET text == MergeTransforms(OrNothing(files["own"]), OrNothing(files["yomitan"]))
       IN  /\ files[file] \in {Missing, text, Template} \/ force
           /\ Write(file, text, force)

\* build-final.mjs: the own rules only, those Yomitan has too marked as both;
\* that the two stand in corresponding transforms is part of being the same
BuildFinal ==
    /\ files["own"] # Missing /\ files["yomitan"] # Missing
    /\ LET theirs == UNION {Bodies(files["yomitan"].transforms[i].rules) : i \in DOMAIN files["yomitan"].transforms}
           source(rule) == IF rule.body \in theirs THEN "both" ELSE "own"
           final(t) == LET all == {source(t.rules[i]) : i \in DOMAIN t.rules}
                           of == IF all = {"both"} THEN "both" ELSE "own"
                       IN  [t EXCEPT !.source = of,
                                     !.rules = [i \in DOMAIN @ |-> Tagged(@[i], source(@[i]), of)]]
       IN  Edit("transforms", [files["own"] EXCEPT !.transforms = [i \in DOMAIN @ |-> final(@[i])]])

PackNext ==
    \/ BuildOwn \/ MapTodos \/ BuildFinal
    \/ \E file \in Files, force \in BOOLEAN : Port(file, force) \/ Merge(file, force)

-----------------------------------------------------------------------------
(* What the tools promise.                                                 *)

\* What a person mapped or a final script chose is there until somebody
\* writes the file again on purpose: whatever else was rebuilt in between, a
\* tool run without --force leaves it alone.
HandWorkKept ==
    [][ \A f \in edited : files'[f] # files[f] => last'.wrote = f /\ last'.force ]_packVars

Source(transform, rule) == IF rule.source = Inherited THEN transform.source ELSE rule.source
CopiesFrom(transform, body, source) ==
    Cardinality({i \in DOMAIN transform.rules :
                    transform.rules[i].body = body /\ Source(transform, transform.rules[i]) = source})
RulesOf(file, id) ==
    LET at == WithId(file.transforms, id)
    IN  IF at = {} THEN <<>> ELSE file.transforms[CHOOSE i \in at : TRUE].rules
Least(a, b) == IF a < b THEN a ELSE b

\* A merged file has each transform once and each rule as often as the file
\* that has it more often: the copies both have are said to be both's, the
\* others their file's, whatever source the two files claimed; Yomitan's
\* rules come first, in Yomitan's order, and own.json's in its own.
MergedOnce ==
    LET own == OrNothing(files["own"])
        yomitan == OrNothing(files["yomitan"])
        merged == MergeTransforms(own, yomitan).transforms
        ids == {own.transforms[i].id : i \in DOMAIN own.transforms}
               \cup {yomitan.transforms[i].id : i \in DOMAIN yomitan.transforms}
    IN  ~MergeFails(files["own"], files["yomitan"]) =>
            /\ {merged[i].id : i \in DOMAIN merged} = ids /\ Len(merged) = Cardinality(ids)
            /\ \A i \in DOMAIN merged :
                 LET t == merged[i]
                     theirs == RulesOf(yomitan, t.id)
                     mine == RulesOf(own, t.id)
                 IN  /\ SubSeq([k \in DOMAIN t.rules |-> t.rules[k].body], 1, Len(theirs))
                          = [k \in DOMAIN theirs |-> theirs[k].body]
                     /\ \A b \in Bodies(t.rules) \cup Bodies(theirs) \cup Bodies(mine) :
                          LET shared == Least(Copies(theirs, b), Copies(mine, b))
                          IN  /\ CopiesFrom(t, b, "both") = shared
                              /\ CopiesFrom(t, b, "yomitan") = Copies(theirs, b) - shared
                              /\ CopiesFrom(t, b, "own") = Copies(mine, b) - shared
===============================================================================
