----------------------------- MODULE LoadedDicts -----------------------------
(***************************************************************************)
(* DictionaryQuery's set of loaded dictionaries: one list per kind, whose  *)
(* entries of one path share the files that the first of them opened, and  *)
(* what the order of the lists means to a query.  The caller adds, removes *)
(* and reorders dictionaries and replaces the files of a path that it does *)
(* not hold: "a path's files must not change while any kind of it is       *)
(* loaded" (query.hpp) is its side of the contract.                        *)
(***************************************************************************)
EXTENDS Integers, Sequences, FiniteSets, TLC, SequencesExt

CONSTANTS
    Paths,      \* dictionary folders
    Kinds,      \* the kinds the caller loads, "term" among them
    TitleOf,    \* path -> the title its index.json declares
    Rows,       \* path -> the scores of its rows for one expression, in file order
    Orders,     \* the arguments of set_dict_order and the lists of requests
    MaxLoaded,  \* bound on the entries of one list
    MaxImports  \* path -> bound on how often its folder is written

ASSUME ConstantsAssumption ==
    /\ "term" \in Kinds
    /\ \A p \in Paths : p \in DOMAIN TitleOf /\ Rows[p] \in Seq(Int)
    /\ Orders \subseteq Seq(Paths)
    /\ MaxLoaded \in Nat /\ MaxImports \in [Paths -> Nat \ {0}]

VARIABLES
    disk,      \* path -> what its folder holds
    lists,     \* kind -> its entries, in order (term_dicts_, freq_dicts_, ..)
    files,     \* the DictionaryData some entry refers to, by identity
    held,      \* the caller's view: the paths it added and has not removed
    call       \* the caller's last operation and what it returned
vars == <<disk, lists, files, held, call>>

\* "none": no marker file; "part": a file is missing or damaged
Folders ==
    {[condition |-> "good", scan |-> s] : s \in BOOLEAN} \cup {[condition |-> c, scan |-> FALSE] : c \in {"none", "part"}}
Written(f, n) == [condition |-> f.condition, scan |-> f.scan, imported |-> n]
EntriesOf(ls) == UNION {ToSet(ls[k]) : k \in Kinds}
IsLoaded(p) == \E e \in EntriesOf(lists) : e.path = p
Returned(op, arg, result) == [op |-> op, arg |-> arg, result |-> result]

Init ==
    /\ disk \in [Paths -> {Written([condition |-> "good", scan |-> TRUE], 1)}]
    /\ lists = [k \in Kinds |-> <<>>]
    /\ files = <<>> /\ held = {}
    /\ call = Returned("none", <<>>, TRUE)

\* the DictionaryData that the entries of ls keep alive (shared_ptr)
Kept(fs, ls) == [id \in {e.file : e \in EntriesOf(ls)} |-> fs[id]]
NewId == CHOOSE id \in 1..Cardinality(DOMAIN files) + 1 :
             id \notin DOMAIN files /\ 1..id - 1 \subseteq DOMAIN files

-----------------------------------------------------------------------------
\* find_loaded: the entries of the path, of whichever kind
Found(p) == {e \in EntriesOf(lists) : e.path = p}

\* open_dict_: the marker, index.json, hash.table, bloom.filter, blobs.bin
Opens(p) == disk[p].condition = "good"
Opened(p) == [path |-> p, imported |-> disk[p].imported, scan |-> FALSE]

\* Faulty variant: the scan index is left to the kind that opened the files.
WithScanIndexOnOpen(k, f) == IF k = "term" /\ Found(f.path) = {} THEN [f EXCEPT !.scan = disk[f.path].scan] ELSE f
\* add_dict_: a term dictionary maps the scan index the shared files lack
WithScanIndex(k, f) == IF k = "term" /\ ~f.scan THEN [f EXCEPT !.scan = disk[f.path].scan] ELSE f

Push(k, p, title, id, f) ==
    /\ lists' = [lists EXCEPT ![k] = Append(@, [path |-> p, title |-> title, file |-> id])]
    /\ files' = [i \in DOMAIN files \cup {id} |-> IF i = id THEN WithScanIndex(k, f) ELSE files[i]]
    /\ held' = held \cup {p}
    /\ call' = Returned("add", <<p>>, TRUE)

\* Another kind is loaded: its name and files serve this one too.
Share(k, p) ==
    /\ Len(lists[k]) < MaxLoaded
    /\ \E e \in Found(p) : Push(k, p, e.title, e.file, files[e.file])
    /\ UNCHANGED disk
Open(k, p) ==
    /\ Len(lists[k]) < MaxLoaded
    /\ Found(p) = {} /\ Opens(p)
    /\ Push(k, p, TitleOf[p], NewId, Opened(p))
    /\ UNCHANGED disk
\* open_dict_ returns false or throws: the entry it filled is dropped
OpenFails(p) ==
    /\ Found(p) = {} /\ ~Opens(p)
    /\ call' = Returned("add", <<p>>, FALSE)
    /\ UNCHANGED <<disk, lists, files, held>>

\* the entries of some of the paths, in the order they have in a list
Only(s, paths) == FlattenSeq([i \in DOMAIN s |-> IF s[i].path \in paths THEN <<s[i]>> ELSE <<>>])

\* remove_dict
Without(p) == [k \in Kinds |-> Only(lists[k], Paths \ {p})]
RemoveDict(p) ==
    /\ lists' = Without(p)
    /\ files' = Kept(files, lists')
    /\ held' = held \ {p}
    /\ call' = Returned("remove", <<p>>, IsLoaded(p))
    /\ UNCHANGED disk

\* where a path stands in the argument, an unlisted one behind all
Rank(order, p) == SelectInSeq(order \o <<p>>, LAMBDA q : q = p)
\* std::ranges::stable_sort(*dicts, {}, rank)
Reordered(s, order) ==
    FlattenSeq([r \in 1..Len(order) + 1 |-> Only(s, {p \in Paths : Rank(order, p) = r})])

OrderedTermsOnly(order) ==
    IF \A i \in DOMAIN order : IsLoaded(order[i])
    THEN [lists EXCEPT !["term"] = Reordered(@, order)] ELSE lists
\* set_dict_order: nothing moves unless every listed path is loaded
Ordered(order) ==
    IF \A i \in DOMAIN order : IsLoaded(order[i])
    THEN [k \in Kinds |-> Reordered(lists[k], order)] ELSE lists
SetOrder(order) ==
    /\ lists' = Ordered(order)
    /\ call' = Returned("order", order, \A i \in DOMAIN order : IsLoaded(order[i]))
    /\ UNCHANGED <<disk, files, held>>

\* The caller replaces the folder of a path that it does not hold.
Import(p, f) ==
    /\ p \notin held /\ disk[p].imported < MaxImports[p]
    /\ disk' = [disk EXCEPT ![p] = Written(f, @.imported + 1)]
    /\ call' = Returned("none", <<>>, TRUE)
    /\ UNCHANGED <<lists, files, held>>

Next ==
    \/ \E k \in Kinds, p \in Paths : Share(k, p) \/ Open(k, p)
    \/ \E p \in Paths : OpenFails(p) \/ RemoveDict(p)
    \/ \E order \in Orders : SetOrder(order)
    \/ \E p \in Paths, f \in Folders : Import(p, f)

Spec == Init /\ [][Next]_vars

-----------------------------------------------------------------------------
(* What a request makes of the term list.                                  *)

\* Faulty variant: an entry is picked for every mention of its path.
PickRepeats(s, chosen, p) ==
    LET i == SelectInSeq(s, LAMBDA e : e.path = p)
    IN  IF i = 0 THEN chosen ELSE Append(chosen, s[i])
\* select: the first entry of the path, unless it is chosen already
Pick(s, chosen, p) ==
    LET i == SelectInSeq(s, LAMBDA e : e.path = p)
    IN  IF i = 0 \/ (\E j \in DOMAIN chosen : chosen[j].path = p) THEN chosen ELSE Append(chosen, s[i])
Selected(s, order) ==
    LET chosen[i \in 0..Len(order)] == IF i = 0 THEN <<>> ELSE Pick(s, chosen[i - 1], order[i])
    IN  chosen[Len(order)]

\* query_raw: the rows of the dictionaries in turn, linked as one term's glossaries
Glossaries(s) ==
    FlattenSeq([i \in DOMAIN s |->
        [j \in DOMAIN Rows[s[i].path] |->
            [dict |-> i, path |-> s[i].path, title |-> s[i].title, score |-> Rows[s[i].path][j], row |-> j]]])

\* the run of equal names that glossary i belongs to
RunOf(g, i) == Cardinality({j \in 2..i : g[j].title # g[j - 1].title})
\* each run by descending score, ties as they were
Precedes(g, i, j) ==
    \/ RunOf(g, i) < RunOf(g, j)
    \/ RunOf(g, i) = RunOf(g, j) /\ g[i].score > g[j].score
    \/ RunOf(g, i) = RunOf(g, j) /\ g[i].score = g[j].score /\ i < j
\* build_term: glossary i goes behind all that precede it
BuildTerm(g) ==
    LET place == [i \in DOMAIN g |-> Cardinality({j \in DOMAIN g : Precedes(g, j, i)}) + 1]
    IN  [k \in DOMAIN g |-> g[CHOOSE i \in DOMAIN g : place[i] = k]]

QueryAll == BuildTerm(Glossaries(lists["term"]))
QueryOf(order) == BuildTerm(Glossaries(Selected(lists["term"], order)))

-----------------------------------------------------------------------------
\* "A dictionary added as several kinds is loaded once": the entries of one
\* path use one set of files, however often and in whatever order it was added,
\* and those are the files of its folder as they are now: none outlives the
\* folder it was opened from, nor the last entry that used it.  A term
\* dictionary whose folder has a scan index uses it, also when another kind
\* opened the files: else lookups miss its long keys.
FilesSharedAndCurrent ==
    /\ DOMAIN files = {e.file : e \in EntriesOf(lists)}
    /\ held = {p \in Paths : IsLoaded(p)}
    /\ \A e, f \in EntriesOf(lists) : e.path = f.path <=> e.file = f.file
    /\ \A e \in EntriesOf(lists) :
        /\ files[e.file].path = e.path
        /\ files[e.file].imported = disk[e.path].imported
        /\ e.title = TitleOf[e.path]
    /\ \A e \in ToSet(lists["term"]) : disk[e.path].scan => files[e.file].scan

\* set_dict_order "returns false, changing nothing, when a listed path is not
\* loaded"; when it returns true every kind is in the order asked for, the
\* unlisted dictionaries behind the listed ones.  It and remove_dict keep every
\* other dictionary, in the order these had among themselves.
OrderAsAsked ==
    [][LET Others(s) == Only(s, Paths \ ToSet(call'.arg))
       IN  /\ call'.op = "order" /\ ~call'.result => lists' = lists
           /\ call'.op = "order" /\ call'.result =>
                  \A k \in Kinds : \A i, j \in DOMAIN lists'[k] :
                      i < j => Rank(call'.arg, lists'[k][i].path) <= Rank(call'.arg, lists'[k][j].path)
           /\ call'.op \in {"order", "remove"} =>
                  \A k \in Kinds : Others(lists'[k]) = Others(lists[k])]_vars

\* query(): "in the order dictionaries were added.  Within each dictionary,
\* glossaries are ordered by their term-bank score, highest first, with
\* original order kept for equal scores" (README.md).
GlossariesInOrder(out) ==
    \A i, j \in DOMAIN out : i < j =>
        /\ out[i].path # out[j].path => out[i].dict < out[j].dict
        /\ out[i].dict = out[j].dict =>
               out[i].score > out[j].score \/ (out[i].score = out[j].score /\ out[i].row < out[j].row)
QueryInOrder == GlossariesInOrder(QueryAll)

\* Without a request's list, the dictionaries answer in the order of the lists.
\* With one, it decides: its dictionaries answer in its order, each listed and
\* loaded one with all its rows and only once, even when the list names it
\* again or the path was added twice.
RequestDecides ==
    /\ QueryInOrder
    /\ \A order \in Orders :
        LET out == QueryOf(order)
            asked == {p \in ToSet(order) : \E e \in ToSet(lists["term"]) : e.path = p}
        IN  /\ GlossariesInOrder(out)
            /\ \A i, j \in DOMAIN out : i < j => Rank(order, out[i].path) <= Rank(order, out[j].path)
            /\ \A p \in Paths :
                   Cardinality({i \in DOMAIN out : out[i].path = p}) = IF p \in asked THEN Len(Rows[p]) ELSE 0
=============================================================================
