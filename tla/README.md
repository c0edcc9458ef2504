# A verification development for hoshidicts

hoshidicts is a C++ library that imports Yomitan and MDict dictionaries into
folders of binary files, opens such folders, and looks text up in them: it
deinflects the text by a language pack, queries the folders, merges and ranks
what it finds. Scripts in JavaScript write the packs: each language's rules, and
tools that merge them with Yomitan's. This directory holds TLA+ models of its core, the TLC
configurations that check them on small instances, and TLAPS proofs that hold
for every value of the constants. Paths below are relative to `src/`, line
numbers are those of the commit the models were translated from.

`PROJECT.json` is the index: which module models which component, which lines
each definition stands for, what each run checks, a deliberately broken variant
("Faulty variant" in the modules) for each property, and the list of hazards.

## 1. The system

### 1.1 Components

| Component | Source | State it keeps | Operations | What makes it correct |
| --- | --- | --- | --- | --- |
| Worker pool | `src/importer.cpp` 47-120 | task queue, stop flag, threads | submit, run, destructor | every submitted task runs once, to its end, before the destructor returns |
| Term bank pipeline | `src/importer.cpp` 739-851 | claim and write counters, byte window, result slots, first error | claim, process, take, write, abort | bounded memory, banks in order, no lost wake-up, nobody left behind |
| Windows of futures | `src/importer.cpp` 901-981 | a deque of futures | submit, get, write | banks in order, bounded memory |
| Import, second half | `src/importer.cpp` 270-345, 1145-1222 | sort buffers, hash entries, futures | media, sort, hash table, Bloom filter, commit or remove | a success is complete, a failure leaves nothing running |
| What the files hold | `src/importer.cpp` 360-737, 869-1020 | blob offset, glossary map, key offsets, long keys | write banks, sort, group, build the indexes | a query reads back the rows that were imported |
| Output directory | `src/importer.cpp` 1086-1222, `src/query.cpp` 342-432 | folder, marker files, what is in the streams' buffers | create, write over, mark, close, remove, open | a folder that opens is complete and of one import |
| Hash table | `src/hash/hash.cpp` | slots | build, probe | finds every key; never goes round for ever |
| Bloom filter | `src/hash/bloom.cpp` | bits | fill by ranges, test | turns no key away |
| Page cache | `src/memory/page_cache.cpp` | LRU list, hash map, counters | get, trim, forget | agrees with itself, keeps held pages, keeps to its budget |
| Blob files | `src/blob_file.{hpp,cpp}` | pins of a query, cursor | copy, read, skip | reads what a mapping would; trims when the query returns |
| Memory mapping, files | `src/memory/memory.cpp` | mappings | map, read | system calls |
| Row queries | `src/query.cpp`, `src/query_internal.hpp`, `src/scan_index.hpp` | none | query, metadata, kanji, media | exactly the rows of a key, in order |
| Loaded dictionaries | `src/query.cpp` 287-478, 728-790 | a list per kind, shared files | add, remove, reorder, select | files shared and current, order as asked |
| Deinflection search | `src/languages/transforms.cpp` | stack of frames, results, budget | search | ends, keeps its bounds, equals the recursion it replaced |
| Deinflector | `src/deinflector.cpp` | none | deinflect | a facade |
| Lookup | `src/lookup.cpp` | candidates, notes of references | scan, extend, follow, passes, metadata, rank | finds the keys in reach, keeps the best match of each, orders deterministically |
| Language packs | `src/languages/{pack,json,steps,builtin_packs,classes,regex,case_mapping,case_tables,unicode}.cpp` | parsed packs | load, validate, process text | validation; functions on texts |
| Language registry | `src/languages/registry.cpp` | packs by code | add, replace, load directories | one pack per code; errors name each directory |
| Rules of a language | `languages/*/sources/build-own.mjs`, `own-rules.mjs` | conditions and transforms of `own.json` | one script per language | every chain of rules ends at a word, of the part of speech it began with |
| Pack tools | `tools/merge-transforms.mjs`, `tools/port-yomitan-transforms.mjs`, `languages/*/sources/build-final.mjs` | `own.json`, `yomitan.json`, `transforms.json` | write, port, edit, merge | nothing lost or doubled, handwork kept |
| Pack checks | `tools/lib/classes.mjs`, `tools/lib/steps.mjs` | expansions of classes, frames of a pattern, variants of a text | construct, read, parse, process | what the scripts check is what the engine does |
| Conformance reports | `src/languages/corpus.cpp` | counts | report | counts what searches reach |
| Sources | `src/mdict/*`, `src/zip/zip.cpp`, `src/source/*`, `src/json/*` | open archives, redirect sets | list and read banks | parse formats; MDict keeps state that threads share |
| C API, command line | `src/hoshidicts_c.cpp`, `cli/main.cpp` | handles | wrappers | ownership |

### 1.2 How they interact

*Import.* The importing thread opens a source, creates the folder and a pool,
and writes `blobs.bin` from front to back: term banks through the pipeline (pool
tasks claim banks, the importing thread writes them), then metadata and kanji
banks through windows of futures. Then it overlaps media extraction (a pool
task), the radix sort of the key offsets (pool tasks per pass), the hash table (a
pool task that reads `hash_entries` on the importing thread's stack) and the
Bloom filter (ranges on the pool and on the importing thread). An exception
unwinds the importing thread, whose pool's destructor drains the queue and
joins; then the folder is removed.

*Query.* `DictionaryQuery` holds a list of entries per kind; entries of one path
share files. A query hashes a text, asks the Bloom filter, probes the hash table,
reads the list of offsets at the group's offset and each record there. When
files are paged, all reads go through one page cache under one mutex: a query
pins the pages it touches and trims the cache when it returns, an index probe
copies its slot and trims at once.

*Lookup.* For each prefix of a text, from the longest down, the lookup runs the
pack's processors and the deinflection search on one work budget, queries each
result, merges the terms, goes on to longer prefixes when the scan index knows a
long key that begins alike, follows form-of references, lets variant passes
and metadata dictionaries add terms, ranks and cuts.

*Packs.* A language's script writes `own.json`; the port writes `yomitan.json`,
where a person maps what it could not; the merge writes `transforms.json`, and a
final script chooses among the rules. The tools read classes and patterns with
the modules the tests use, in JavaScript; the engine reads the same pack with
`std::regex`. At lookup, rules hand a text on to each other through conditions.

### 1.3 What is hard

* Threads: lost wake-ups in the pipeline, tasks that outlive the stack they
  point into, plain stores of several threads into one bit array, pages that are
  released while the cache trims.
* Failure in the middle: a worker, the writer, the pool or one of several
  overlapped tasks throws while the others go on.
* Order: banks finish in any order and are written in one; offsets are rebased
  by what was written before; results are found in one order and ranked in
  another.
* Boundaries: windows that admit one bank larger than themselves, collisions
  that wrap around the table, length prefixes that wrap, bounds that cut a
  search short, scan lengths that meet the scan index's minimum.
* Long sequences of legal calls: add, remove, reorder, import again; own, port,
  edit, merge, own again.
* Crashes: an import writes over a folder that opens, its marker is made before
  its streams are flushed, and a removal may be cut short.
* Tables of hundreds of rules that meet only through names of conditions.

`PROJECT.json` lists each at its line under "hazards", with the properties that
catch it or the reason none does yet.

## 2. The modules

```
OrderedWrite <---- TermBanks <---- TermBanksProofs
     ^                                                 abstract <---- detailed
     '------------ BankWindow <---- ImportRun <---- ImportRunProofs
WorkerPool <------ BankWindow
HashTable, BloomFilter <---- KeyIndex <---- KeyIndexProofs
PageCache <---- PageCacheProofs
LoadedDicts <---- LoadedDictsProofs ----> SequenceFacts
Lookup <---- LookupProofs ----> SequenceFacts
DictionaryFile <---- DictionaryFileProofs ----> SequenceFacts
TransformSearch    DictionaryFolder
PackFamilies <---- PackRules (and LatinRules, AncientGreekRules, ItalianRules,
                   BasqueRules, PortugueseRules, ModernGreekRules, RussianRules,
                   SerboCroatianRules, AlbanianRules, UkrainianRules)
PackBuild, PatternDialect, TextSteps, PackRules <---- MCLanguagePacks
```

An `MC` module gives the constants of each run's module their values.

**TermBanks** (`importer.cpp` 739-851). Every block under `progress_mutex` is an
action: `Claim`, `Sleep`, `Leave`, `Deliver`, `ProcessingThrows` of a worker;
`Submit`, `Take`, `MainSleeps`, `WriteBank`, `Progress`, `Abort`, `Throw`,
`Return` of the importing thread. `notify_all` comes after the unlock in the
code and is therefore an action of its own, which wakes everybody asleep at that
moment. Banks are numbers with sizes; their content is DictionaryFile's.
**OrderedWrite** is what the call promises: banks appended one by one in their
order, then "returned", or "thrown" at any point. TermBanks and BankWindow
implement it, with `out` and the outcome as the refinement mapping.

**WorkerPool** is the pool alone: `Push` and `NotifyOne` are two steps, `Wait`,
`TakeTask`, `FinishTask`, `Exit` a thread's; with no threads (`{}` in `Pools`)
a task runs inside `submit`. **BankWindow** adds the deque of futures of
`write_meta` and `write_kanji` over three lists of banks. **ImportRun** adds
everything after: `SubmitMedia`, the counting and scattering passes,
`SubmitHash`, `WriteIndex`, the filter's ranges, the three `get`s, `WriteJson`,
and `Unwind`, `StopPool`, `JoinPool`, `RemoveAll`. `alive` is the set of objects
on the importing thread's stack that tasks point to, in the order the code
constructs and destroys them; `Uses(task)` is what each task captures by
reference.

**DictionaryFile** is the data of an import and of a query: `file` is
`blobs.bin` as a sequence of cells (a cell is a number, a piece of a text or a
piece of a compressed glossary). `WriteTermBank` processes a bank as the worker
does, skips the glossaries that earlier banks stored, patches references,
rebases offsets and updates the scan index; `WriteKeyedBank` writes metadata and
kanji banks; `BuildOffsetIndex` sorts (by either sort) and writes the groups.
`QueryTerms` and `QueryKeyed` read the cells back.

**HashTable** builds the table one probe at a time and answers lookups one probe
at a time. **BloomFilter** gives every thread its range of words; `bits[word] |=`
is a `Load` and a `Store`, so that two ranges which shared a word would lose
bits. **KeyIndex** runs both builds side by side, as the import does, and puts
the filter in front of the table, as `operator()` does.

**PageCache** is `page_cache` with its clients: `GetHit`, `GetMiss`, `GetThrows`
inside `Pin` (a query) and `CopyGet` (an index probe), `EndTrim`, `CloseFile`.
`get` and `forget` are under the mutex; a holder lets go of its `shared_ptr`
without it, so the trimming loop (`TrimSkip`, `TrimDrop`) runs one iteration at a
time and pages are released between.

**LoadedDicts** is the list per kind with shared files and the caller's calls:
`Share`, `Open`, `OpenFails`, `RemoveDict`, `SetOrder`, and `Import`, which
replaces the folder of a path that is not loaded. `QueryAll` and `QueryOf` are
what a query returns of one expression, `BuildTerm` with its runs of one title.

**TransformSearch** is the explicit-stack search: `Begin`, `SkipRule`, `Record`,
`NoOutput`, `Drops`, `PopFrame`, `EndSearch`, `OutOfWork`, with the units and
operations of the budget as the code charges them. **MCTransformSearch** adds the
recursion the stack replaced, as a RECURSIVE operator that only TLC uses.

**Lookup** is `lookup_impl`: `ScanPrefix`, `Extend`, `FollowScan`, `ReadPasses`,
`FollowPasses`, `AddMetadata`, `Rank`. What the processors and the deinflector
make of a prefix is chosen from a constant set, and nothing else is looked up: the
text as it is written only when it is of that, for a processor may drop it
(`keepInput: false`, as in the pack of ko) and so may the limit of variants.
`prefix_variants`, the texts long keys are recognised by, are chosen too. What the
dictionaries hold is a constant. `results` is a history of what was made of each
prefix and `found.hits` one of every match, which the properties compare the
candidates with.

**DictionaryFolder** (`importer.cpp` 1086-1222, `query.cpp` 342-432) is the folder
over any number of imports of one title. A file is by this import or an older one
and whole or not; `Begin`, `WriteZstdDict`, `OpenBlobs`, `WriteBanks`, `OpenTable`
and `WriteTable` of each task, `WriteIndex`, `Mark`, `CloseIndex` and `CloseBlobs`
are the steps that touch it, `Throw`, `RemoveOne`, `Removed` and `Kill` what goes
wrong. A stream keeps what it was given until it is closed, its destructor flushes
it or loses it without saying so, and the marker may fail to be made: the code
checks none of these, and `dict.zstd` goes through such a stream too. The table
and the filter are written whole before their step ends. `opens` is `open_dict_`.

**PackBuild** holds the three files of a pack; its actions are the commands:
`BuildOwn`, `Port`, `MapTodos`, `Merge`, `BuildFinal`, `Edit`, each with and
without `--force` where the tool has it. `MergeTransforms` is the merge itself.
**PatternDialect** is `tools/lib/classes.mjs`: the constructor of `ClassSet` and the
fields read from it, one class at a time; then `parsePattern`, one token at a time
with its frames, and any way a backtracking engine can go through the accepted
pattern. **TextSteps** is `processText`, one processor at a time, with six of the
seven kinds of steps: these tools raise an error for the seventh, builtins.

**PackFamilies** says what a rule is here: a family of the rules a script emits
with one transform (`slot`), one type (`kind`) and one pair of conditions. Which
letters it changes is left out; no two families a script distinguishes by
conditions are joined. The ten `*Rules` modules build the families of a language
by the helpers of its script, under the script's names, each table of endings by
the slots and conditions its rows have. **PackRules** reads a word with them:
`Apply` is one rule under the condition test of the search (`transforms.cpp` 588).
**MCLanguagePacks** puts the four together: the tools are programs of their own, so
a behaviour is of one of them, as `tool` says.

## 3. The runs

All of them finish within five minutes on two workers.

| Run | Question | Instance | Why it is enough |
| --- | --- | --- | --- |
| `page_cache` | Does the cache agree with itself, keep held pages and drop the least recently used first? | 2 threads, a 3-page and a 2-page file, budget 1 1/2 pages, reads fail | two holders can together exceed the budget, a short last page makes counting visible, a page can be released behind the loop |
| `term_banks` | Order, window, places, wake-ups, join, termination | 7 banks, one larger than the window and one empty; 3 workers; worker, writer and pool fail | 2 x 3 banks fill the window and the seventh must wait for the writer |
| `import_run` | Windows, lifetimes, FIFO pool, completeness, termination | 0 to 3 threads, lists of 4, 0 and 1 banks, 2 passes of the sort, 3 ranges; every submission may throw before or after its task is queued | every window fills, slides and drains; with no threads tasks run inside `submit`; two passes show that buffers change sides; each loop submits two tasks or more, so an exception can come between them |
| `dictionary_file` | Are offsets true, glossaries stored once, queries exact? | all dictionaries of two banks of up to two rows, and of three banks with three rows in the last; shared keys, hashes, prefixes and glossaries; one text too long for the prefix of its length | a third bank skips glossaries of two earlier ones; two keys collide in their hash; a length wraps |
| `key_index` | Does every lookup answer right whatever the collisions and the split? | 6 entries in 16 slots, two pushed past the end, 3 ranges of 8 words | probes wrap around the end; the bits of one hash lie in different ranges |
| `loaded_dicts` | Are files shared and current, orders as asked? | 3 dictionaries, 2 kinds, lists of up to 3, one folder imported twice, one of each kind of damage | a path can be in both lists and twice in one |
| `transform_search` | Does the search equal the recursion, keep its bounds (`WithinBounds` is part of `AsRecursion`), lose nothing silently? | every pair of ten rules and some 80 longer packs of rules of 4 types, 12 pairs of requests on one budget, growth 1, depth 3, 6 results, 26 units | every bound is hit in some search and none in others |
| `lookup` | Best match, keys in reach, a strict weak order, extras that move nothing | a text of 6 code points, 3 packs, 8 ways to scan it, 3 sets of extras, 3 sets of texts to recognise long keys by; lengths scaled: prefix 2 for 8, minimum 3 for 16, slack 2 for 8, longest 5 for 2^16 - 1 | every standing of the comparator, ties, references, an extension, words, passes and the limit occur; readings replace the text they are of or keep it; one key is too long for the index |
| `dictionary_folder` | Does a folder that opens hold one import, and does one that succeeded open? | sources with and without rows, long keys, media and text to train on; no bound on the number of imports | what one import leaves is all the next one sees, so the states repeat after three |
| `language_packs` | Is handwork kept, the merge exact, a class what it says, an accepted pattern alike for every engine, a variant there once, and no word stranded? | 17 versions of `own.json`; all triples of 13 classes over 6 code points, 1 surrogate; patterns of up to 6 tokens and 2 capturing groups; 588 lists of processors on 3 texts with limits 2, 3 and 6; all rules of 10 languages | copies on both sides in every order; classes that are negated inside negated ones, empty, circular, undefined; a group, its quantifier, an alternative and a reference to it; limits that cut and one that does not; no bound on the chain of rules |

TransformSearch's `reported` and the two requests on one budget are what the
conformance report and `cli form-of` do; Lookup's scaled lengths keep the order
of the code's three (prefix < minimum, slack at least 1).

Two runs show where the code and what it says of itself part ("findings" in
`PROJECT.json` quotes both):

* `import_run_disk_full`: when `blobs.write` or the filter throws, `hash_entries`
  is destroyed before the pool joins the task that reads it (`importer.cpp:1182`).
  `import_run` shows how far it goes when memory may run out anywhere as well
  (`OrphansOfOneLoop`): `submit` or `push_back` can throw between two tasks of a pass
  (`importer.cpp:296`, `333`) or of the filter (`bloom.cpp:83`), and then those tasks
  too outlive their buffers, but never tasks of two loops, and never the pool.
* `dictionary_folder_media`: an import without media leaves the media files of the
  import before it (`importer.cpp:1023`), and queries serve them.

What the properties of `dictionary_folder` name as exceptions is how the code
behaves: an import over a dictionary that is interrupted leaves a mixture the old
marker opens; the end of `blobs.bin` and `index.json` are flushed after the marker
and after success is recorded (`importer.cpp:1206-1208`), silently; `dict.zstd` is
flushed by the destructor of its stream (1125-1128), so that an import may succeed
with a dictionary cut short, whose texts no query can decompress; and a removal
cut short may leave `.hoshidicts_6` without `dict.zstd`, which then hides a later
`.hoshidicts_5` until a dictionary is trained again.

Others were met while modelling and have no run of their own.

* `BlobFile::copy` (`blob_file.cpp:59`) does not trim when a later page fails to
  read, so the cache stays over its budget though no query runs, against
  `README.md:61`. `OverBudgetBounded` shows how far: one page per thread.
* A key of 65536 bytes or more wraps its length prefix (`importer.cpp:471`), and one
  of 65536 code points or more the length the scan index keeps (177); nothing bounds
  keys, though the comment at 170 relies on it.
* Two dictionaries of one title next to each other are sorted by score as one
  (`query.cpp:769`), against the comment at 767 and `README.md:69`. With distinct
  titles, `RequestDecides` shows, the order is right.
* `README.md:130` says that keys longer than the scan length are found when that is
  at least 8, but the scan index only knows keys longer than 16 code points, so
  with a scan length of 8 to 15 a key between the scan length and 16 is not reached
  on its own account; `ReachesKeys` states what the code does.
* The comment on `metadata_only_terms` in `include/hoshidicts/lookup.hpp` leaves
  out the exception for a primary reading that `README.md:145` and the code have.
* In the packs that are not modelled, `own.json` of en, fr and ko holds rules whose
  conditions no other rule gives and no text can reach.
* `languages/la/sources/build-own.mjs` 1276-1279 writes names without conditions,
  unlike the rest of `names`.

### 3.1 Fairness

* TermBanks: weak fairness of the importing thread and of each worker.
  ImportRun: the same for the importing thread and each pool thread. They are
  threads of the operating system, each blocked only on the conditions the model
  has, and reading or processing a bank ends. No fairness is asked of which
  waiter a notification wakes or of the order in which locks are taken.
* KeyIndex: weak fairness of the two builds and of a lookup's probe; the caller
  need never ask.
* TransformSearch: weak fairness of the sequential loop.
* PageCache, DictionaryFile, LoadedDicts, Lookup, DictionaryFolder and
  MCLanguagePacks have safety properties only: a person runs the tools and the
  imports, and need not.

Deadlock is checked except where the modelled call returns and nothing follows:
TermBanks, ImportRun, DictionaryFile, TransformSearch and Lookup, the tools and
rules of MCLanguagePacks, and DictionaryFolder, where an import that fails on an
empty folder has nothing left to remove. Freedom from deadlock of the first two is
what `NoThreadLeftBehind`, `WriteTermsEnds` and `ImportReturns` say; that no wake-up
is lost, the half of it that needs no fairness, is proved (`NoDeadlock`,
`NoLostWakeup`).

## 4. The proofs

Each `*Proofs` module states its inductive invariant `IInv` as a conjunction of
named parts, proves one lemma per action and combines them.

**TermBanksProofs** (assumption `BanksAssumption`: at least one bank, between one
and that many workers, sizes that add up). Proved for all banks, workers and
windows: `TypeCorrect`, `Bounded`, `OnePlace`, `Alone`, `NoDeadlock`, the action
property `NoWriteAfterError` and `Refinement` (TermBanks implements
OrderedWrite). The run's invariants are not inductive: `WriterPosition` says
where the writer stands between writing and counting, `LeftForGood` that a worker
left for a reason that lasts, and `SleepersHaveWaker` and `MainHasWaker` that
whoever sleeps though its predicate holds has a notification on its way. From
those `NeverAllAsleep`, the first half of `NoThreadLeftBehind`, follows without
any fairness: were all asleep, nobody
would be about to notify, so no predicate would hold, yet with the window empty a
worker can claim, and with it full its oldest bank is in its slot or in hand.

**KeyIndexProofs** proves the two parts of the index and then their composition.

* *HashTable* (`EntriesAssumption`: distinct non-zero hashes with non-zero
  offsets, as `build_offset_index` leaves them; at least 3 slots). `TableNeverFull`
  rests on the count of taken slots (`Counted`) and on the arithmetic of the load
  factor; `EntriesReachable` on `InsertPath`: what an insertion has passed is
  taken; `LookupsRight` and `LookupsNeverThrow` on `LookupPath`: what a lookup has
  passed is taken by other hashes, so that an empty slot means "unknown" and going
  once around is impossible.
* *BloomFilter* (`SizesAssumption`; the number of bits is a whole number of
  words). The ranges are pairwise disjoint and cover all words (`RangesApart`,
  `RangesCover`), each loaded word is what memory holds (`LoadedFits`), and no bit
  is lost (`NotLost`). Hence `NoSharedWords`, `SplitChangesNothing`,
  `NeverTurnsAway`.
* *KeyIndex* (and `SameHashesAssumption`: both are built from one list). The
  composition implements both parts (`ImplementsFilter`, `ImplementsTable`: what a
  finished filter turns away is unknown to the table), so `IndexAnswersRight` and
  `IndexTableSound` follow from the theorems of the parts.

**PageCacheProofs** (`CacheAssumption`: finitely many threads, a page of at least
one byte, any budget, files that are not empty; `NoneIsNoPage`). Proved for all
threads, files, sizes and budgets: `BooksCorrect`, `HeldStay`, `BudgetBounded` and
the action property `TrimsOldest`. `BooksAgree` is inductive once `LoopPosition`
says where a loop under the mutex stands. `HeldPagesStayCached` needs `PlacesFit`:
a thread that trims has let go of all it held, and `forget` runs while nobody holds
a page. The budget is the hard one, for a trim that passes over a pinned page may
end over budget although the page is released right behind it. `PassedBehind` says
that what the loop has passed is still held, or was released by a thread that will
trim after it; `Excused` that, unless a thread is certain to trim, what is over the
budget is at most one page per thread, the one `BlobFile::copy` has in its hand,
and during a trim that the pages the loop has passed are.

**ImportRunProofs** (`PoolAssumption`, `WindowAssumption`, `RunAssumption`,
`TasksAssumption`: finite pools, lists of any length, tasks with names). Proved for
every number of threads (none included), lists, banks, passes and ranges, whatever
throws, submissions included: `DataOutlivesTasks`, `SuccessIsWhole`,
`NoLostWakeup` (the part of
`ImportReturns` that needs no fairness), `SortHasThreads`, and `Refinement`: the
banks of an import are written as OrderedWrite says. The invariant is the pool's
own (`PoolInv`: a task is queued, running or ended and in one of the three once;
who sleeps though the queue is not empty has a thread awake or a notification owed)
and what the importing thread knows of the tasks at each place of its code: which it
may have submitted (`Begun`), which may still be queued or running (`Remains`),
which have succeeded (`DoneByNow`) and that it only waits for a task it submitted
(`AwaitedKnown`). The pool's steps move tasks onward without adding any, so each
action of the importing thread has to argue only about its own place.
`DataOutlivesTasks` needs `OneLoop`: what is queued or runs besides banks and media is
of one loop of submissions, for each loop waits for its last task before the next one
begins, and after an exception nothing is submitted (`PendingInOneLoop`).
`SortHasThreads` counts: the threads at work run the media task and parts of the
sort, and the sort is cut into fewer parts than there are threads.

**SequenceFacts** holds what the next proofs need of sequences. Induction is put as
a set that has 0 (or the empty sequence) and is closed under + 1 (or Append), which
the provers can use where an operator as parameter is out of their reach. The
community modules' `FlattenSeq` is a recursive function, so joining and filtering
with it can be proved about: what is in the result (`FlattenSeqSet`) and in which
order (`FlattenOrdered`, `FlattenSorted`). `PlacesByOrder` gives the elements of a sequence
the places of a strict total order on them: with the index as the last key this is a
stable sort. `Folds` is for loops over a sequence that carry a value along, written as
recursive functions: the value after each element is the step's, and of the right type.
`FlatMap` joins the lists that a map gives the elements of a sequence: it distributes
over concatenation, composes (`FlatMapTwice`), and as a filter keeps each element at
its rank (`FilterRank`); `FlattenAt` says at which place an element of a joined list is.

**LoadedDictsProofs** (`ConstantsAssumption`: typed rows and titles). Proved for
every set of paths and kinds, every length of the lists and all rows: `FilesShared`,
`OrderKept` and `RequestsDecide`. `IInv` is `FilesSharedAndCurrent` and the types of
the entries; that reordering is a stable sort of all entries (`ReorderedSorts`) is
where `PlacesByOrder` comes in. `RequestsDecide` has a hypothesis of its own,
`TitlesTellApart`: no two paths have one title. The code
takes that for granted (`query.cpp:769`), and without it the property is false:
section 3 tells how.

**DictionaryFileProofs** (`SourcesAssumption`, `SizesAssumption`, `WidthAssumption`,
`CellsAssumption`: typed rows, lengths and hashes that are numbers, texts that are not
empty, glossaries that are neither texts nor numbers). Proved for every dictionary,
whatever its banks share and whichever hashes and prefixes collide, and for both
sorts: `GlossariesOnce`, and `LongKeysReached` for the keys whose length a uint16_t
holds (a longer one is noted by what is left of its length, `NotedLength`, and lowers
nothing). `Inv` has four parts: `Types`;
`FileCounted`, the count `write_offset` is the length of the file; `Stored`, each
glossary the map knows lies whole where it says, and no cell elsewhere begins one;
`KeysNoted`, the long keys of the banks written so far are covered. The difficult step
is one bank with glossaries of earlier banks in the middle of its blob. A bank's spans
lie in its blob without a gap and name each glossary once (`TermBankFits`). Going
through them, what is copied so far together with the blob from the last hole up to
the span, put behind the file, stores every glossary seen: a span that is skipped
leaves that text as it was (`SpanSkipped`), one that is kept lengthens it by its
glossary (`SpanCopied`), and the offset the code computes from `skipped` is where it
ends (`SpansStore`). Records hold texts and numbers only, patched or not
(`PatchedIs`), and so does the index, so neither adds a glossary.
`LongKeysReached` is about the longest length winning: one more key never lowers what
is noted of any prefix (`LongerCovers`), and so no sequence of keys does
(`NoteAllCovers`).

`QueriesExact` is `QueryFindsExactly` for every dictionary. The property has one
hypothesis, `LengthsFit`: each key, reading and tag is shorter than the width its
length is written in wraps at. Nothing in the code bounds them (`importer.cpp:471`), and a text
of 2^16 bytes reads back as another. It also rests on `RowHashAssumption`: the hashes
of the spelling and the reading of one row differ, or that row would be answered
twice. `Inv` says nothing of records, so the invariant is `FullInv == Inv /\ Recorded
/\ Indexed`:

* `Recorded`: there is a log `W` of records, each a kind, a row and a place, that
  the three things an import keeps all follow. The file holds each record at its
  place, and where a term's hole points, its glossary, whole (`Holds`); `offsets` is
  the hashes of the log's keys, in order; and the rows of each kind in the log are
  the rows of the banks of that kind written so far. One bank's records are first
  logged as drafts, with holes that are not patched (`TermBankLogged`); patching
  changes only the holes (`PatchedLocates`); and the bank lands behind the file with
  every offset moved by the same base (`TermBankLands`, `ShiftedIs`), which is right
  because `Inv` knows what `skipped` left of the blob.
* `Indexed`, once the import is done: each hash with records has one entry, and in
  the file its number of records and their places. Places never decrease along
  `offsets` (`OffsetsOrdered`), so `std::sort`, which orders equal hashes by place,
  and the stable radix sort both put the pairs of a hash together in the order they
  were written (`SortedTogether`).

A query then is a chain of maps over the log (`FlatMap` of SequenceFacts): the group
of a hash is the places of its records, each once (`InGroupOnce`); a cursor reads a
record back as its row, and nothing of another kind or key (`RecordMatch`, from
`ReadsTerm` and `ReadsKeyed`); and mapping twice is mapping once (`FlatMapTwice`), so
what a query lists is what its rows would be read as, in their order (`GroupReads`).

**LookupProofs** (`LookupAssumption`: typed rows, and keys that differ from term to
term, as the code compares candidates by them; `LongKeyAssumption`: the scan index
knows every long key up to `LongMax` by the text it begins with, which is what
`LongKeysReached` proves of DictionaryFile, with the same bound).
Proved for every text, all dictionaries, packs and requests, and whatever the
processors and the deinflector make of a prefix:

* `BestKept`. `Agree` says what each candidate remembers of the hits of its term
  (`Remembers`: its trace is the best hit's, its confirmation the first at its
  longest length, its whole-word length the longest). Adding one hit keeps it
  (`AddAgrees`), and so does any sequence of hits (`AddAllKeeps`), hence every phase.
  That a metadata term is never confirmed and comes after all terms with glossaries
  is part of the invariant (`Unconfirmed`, `AllGlossed`).
* `KeysReached`. `ScanInOrder` says which prefixes are read and `ScannedHit` that each
  term of what was made of one (`results`) has a hit of that length; `Scan` and
  `Extension` go down without a gap (`DescentIs`), and a long key that begins with one
  of `prefix_variants` is in one of them. Nothing is said of the text as it is written
  when the processors made something else of it.
* `LessOrders`. The nine keys compare lexicographically, a strict total order of the
  keys (`BeforeIsOrder`). What `less` compares behind them is asked only of some
  pairs; it is a weak order all the same because candidates with equal keys are
  confirmed alike (`StandingIs`), which holds only with `Unconfirmed`.
* `ExtrasKept`. `OrdinaryKept`: what passes read, and the references noted there, is
  longer than every ordinary match, so that a candidate they touch is longer too.
  `Ranked`: a sort yields each place once (`SortingsAre`), `by_length` is what `less`
  compares first (`ByLengthIs`), so merging the metadata terms by it leaves the others
  in their order (`MergedIs`), and the limit, which is applied twice, keeps as many as
  one sort of everything would (`RankedIs`).

Only model-checked: every liveness property (`WriteTermsEnds`, `ImportReturns`,
`ProbesEnd`, `SearchEnds`), which the provers do not reach; the equality with a
recursive definition (`AsRecursion`, `NothingLostSilently`); the invariants of the runs of DictionaryFolder, TransformSearch and
MCLanguagePacks, which are planned or, where the property is about recursion over data,
out of the provers' reach. DictionaryFolder has no constants and no bound: TLC's
run of it is complete.

## 5. What is not modelled

* Content of compressed data: zstd and its dictionary training; the bits of the
  radix sort's keys (ImportRun has its passes and buffers, DictionaryFile its
  result).
* Media records and their index (DictionaryFolder has the files), MDict redirects
  and the sets its threads share, the cursor's arithmetic across pages, the
  language registry: planned, see below.
* `write_terms` of the builds that are not under `__EMSCRIPTEN_PTHREADS__`, native
  ones included: `std::async` runs a bank on a thread, or inside `get` in a browser
  without threads; BankWindow has the same window with the pool.
* A term bank that is dropped because its compression context could not be made
  (`importer.cpp:434-437`), as one that does not parse is.
* The builtin steps of text processors, which the JavaScript tools raise
  `UnsupportedStepError` for, and the forms NFKC and NFKD.
* Four of the eight rule types and all stem constraints but one, which differ
  only in the output of one application; `max_matches`, which no affix of at
  most 64 code points reaches.
* The letters of the rules, and with them which texts a rule takes: PackRules
  follows every chain the conditions allow, more than any text takes.
* The rules of the other languages (en, fr, de, es, ga, ar, aii, tl, ka, yi, zh,
  ko, eo, vi, sga): scripts of the same form. What the port makes of one Yomitan
  rule. Corpora, measurements, the conformance tools' comparisons.
* The engine's own reading of packs (`src/languages/*.cpp` but `transforms.cpp`):
  validation and functions from texts to texts, of which TextSteps and
  PatternDialect model the JavaScript counterparts.
* File formats (Yomitan JSON, MDX/MDD, zip), HTML conversion, the C API and the
  command line: sequential parsing, wrappers and output.

## 6. Plan

1. *Proofs*: the bounds of TransformSearch, with the depth as a recursive function;
   `QueryFindsExactly` under what the media of step 3 add to the file.
2. *Cursor over pages* (`bytes_slow`, `skip_slow`): read ahead and skip across
   pages as a refinement of reading a mapping; composed into PageCache.
3. *Media*: records, the 32-bit offset, binary search; composed into
   DictionaryFile as a further phase and a further query.
4. *Shared state of MDict banks* and the *registry*: modules of their own.
5. *Deinflector and processors*: the budget that one lookup's passes share, TextSteps
   in front of TransformSearch.
