------------------------------- MODULE ImportRun -------------------------------
(***************************************************************************)
(* dictionary_importer::import from the metadata banks on                  *)
(* (src/src/importer.cpp:1145-1222): the windows of BankWindow, and then   *)
(* the importing thread overlaps media extraction, the radix sort of the   *)
(* offsets (270-345), the hash table and the Bloom filter on the same      *)
(* pool, while objects the tasks point to come and go on its stack.  An    *)
(* exception unwinds that stack, joins the pool and removes the folder.    *)
(* What the tasks compute is left out.                                     *)
(***************************************************************************)
EXTENDS BankWindow

CONSTANTS
  LowRam,       \* the low_ram argument: sort on the importing thread
  HasMedia,     \* whether the source lists media files
  Entries,      \* offsets.size()
  Passes,       \* passes of the radix sort: 4 in the code
  Ranges,       \* ranges the Bloom filter is large enough for
  MayThrow      \* the steps of the importing thread that may throw

\* "lists" is what stands between the banks and the media: finish_banks, the
\* stylesheet, the list of media, an empty dictionary.
Steps == {"lists", "blobs", "bloom", "json"}

\* An import of no entries has failed as an empty dictionary before the sort.
ASSUME RunAssumption ==
  /\ LowRam \in BOOLEAN /\ HasMedia \in BOOLEAN
  /\ Entries \in Nat \ {0} /\ Passes \in Nat \ {0} /\ Ranges \in Nat \ {0}
  /\ MayThrow \subseteq Steps

VARIABLES
  pass,     \* the pass of the radix sort
  part,     \* the part of a pass, or the range of the filter, to submit next
  alive     \* the objects tasks point to that exist

main == <<mpc, list, next, window, out, failed, pass, part, alive>>
vars == <<pool, mpc, list, next, window, out, failed, pass, part, alive>>

media == <<"media", 0, 0>>
hash == <<"hash", 0, 0>>
count(p, t) == <<"count", p, t>>
scatter(p, t) == <<"scatter", p, t>>
range(r) == <<"range", 0, r>>

\* Faulty variant: the sort uses the whole pool whether media runs or not.
sort_threads_all == IF PoolThreads = {} THEN 1 ELSE Cardinality(PoolThreads)

\* The sort keeps one thread short of the pool when media runs on it.
media_on_pool == Cardinality(PoolThreads) > 1 /\ HasMedia
sort_threads == IF media_on_pool THEN Cardinality(PoolThreads) - 1
                ELSE IF PoolThreads = {} THEN 1 ELSE Cardinality(PoolThreads)

\* radix_sort cuts the offsets into num_threads chunks and leaves out the
\* chunks that begin past the end.
num_threads == LET most == IF sort_threads <= 8 THEN sort_threads ELSE 8
               IN  IF most <= Entries THEN most ELSE Entries
chunk == (Entries + num_threads - 1) \div num_threads
Parts == {t \in 0..(num_threads - 1) : t * chunk < Entries}

\* the ranges of the filter: no more than there are threads, and at least one
ranges == IF PoolThreads = {} THEN 1
          ELSE IF Ranges <= Cardinality(PoolThreads) THEN Ranges ELSE Cardinality(PoolThreads)

\* What a task reads or writes through the references it captured; "temp" is
\* radix_sort's temp and local_counts, "hashes" is set_range as well.
Uses(task) == CASE task[1] = "media" -> {"source"}
                [] task[1] = "count" -> {"offsets", "temp"}
                [] task[1] = "scatter" -> {"offsets", "temp", "thread_pos"}
                [] task[1] = "hash" -> {"hash_entries"}
                [] task[1] = "range" -> {"hashes"}
                [] task[1] = "bank" -> {"source"}

ASSUME TasksAssumption ==
  /\ {media, hash} \subseteq Tasks /\ {range(r) : r \in 1..Ranges} \subseteq Tasks
  /\ \A p \in 1..Passes : \A t \in 0..7 : count(p, t) \in Tasks /\ scatter(p, t) \in Tasks

Init ==
  /\ PoolInit /\ WindowInit
  /\ mpc = "loop" /\ pass = 0 /\ part = 0
  /\ alive = {"source", "offsets"} /\ failed = FALSE

-----------------------------------------------------------------------------
(* The importing thread.                                                   *)

SubmitNotifies == NotifyOne /\ UNCHANGED main

\* Unwinding destroys the locals declared after the pool first.
Banks ==
  /\ WindowStep
  /\ alive' = IF failed' THEN {"source"} ELSE alive
  /\ UNCHANGED <<pass, part>>

Unwind == GoTo("stop") /\ alive' = {"source"} /\ failed' = TRUE /\ UNCHANGED <<windows, pass, part>>
Throw == Unwind /\ UNCHANGED pool

\* submit throws before the task is queued, or push_back after it.
ThrowAround(task) == MemoryMayThrow /\ Unwind /\ (Submit(task) \/ UNCHANGED pool)

ListsThrow == At("media") /\ "lists" \in MayThrow /\ Throw

SubmitMedia ==
  /\ At("media")
  /\ Submit(media)
  /\ GoTo("sort") /\ alive' = alive \cup {"hash_entries"}
  /\ UNCHANGED <<windows, pass, part, failed>>

BeginSort ==
  /\ At("sort")
  /\ IF LowRam \/ Entries < 2
     THEN GoTo("index") /\ UNCHANGED <<pass, alive>>
     ELSE GoTo("count") /\ pass' = 1 /\ alive' = alive \cup {"temp"}
  /\ part' = 0
  /\ UNCHANGED <<pool, windows, failed>>

SubmitCount ==
  /\ At("count") /\ part \in Parts
  /\ Submit(count(pass, part))
  /\ part' = part + 1
  /\ UNCHANGED <<mpc, windows, pass, alive, failed>>

SubmitCountThrows == At("count") /\ part \in Parts /\ ThrowAround(count(pass, part))

Counted == At("count") /\ part \notin Parts /\ \A t \in Parts : count(pass, t) \in ended

CountsDone ==
  /\ Counted
  /\ GoTo("scatter") /\ part' = 0 /\ alive' = alive \cup {"thread_pos"}
  /\ UNCHANGED <<pool, windows, pass, failed>>

SubmitScatter ==
  /\ At("scatter") /\ part \in Parts
  /\ Submit(scatter(pass, part))
  /\ part' = part + 1
  /\ UNCHANGED <<mpc, windows, pass, alive, failed>>

SubmitScatterThrows == At("scatter") /\ part \in Parts /\ ThrowAround(scatter(pass, part))

ScatterDone ==
  /\ At("scatter") /\ part \notin Parts
  /\ \A t \in Parts : scatter(pass, t) \in ended
  /\ IF pass = Passes
     THEN GoTo("index") /\ UNCHANGED pass /\ alive' = alive \ {"thread_pos", "temp"}
     ELSE GoTo("count") /\ pass' = pass + 1 /\ alive' = alive \ {"thread_pos"}
  /\ part' = 0
  /\ UNCHANGED <<pool, windows, failed>>

\* The groups are formed, the offsets freed, the hash table handed to the pool.
SubmitHash ==
  /\ At("index")
  /\ Submit(hash)
  /\ GoTo("write") /\ alive' = alive \ {"offsets"}
  /\ UNCHANGED <<windows, pass, part, failed>>

\* No memory for the media task or the table's, for the buffers of the sort, the
\* positions of a pass or the groups.
MemoryThrows ==
  /\ MemoryMayThrow
  /\ At("media") \/ At("sort") \/ At("index") \/ Counted
  /\ Throw

WriteIndex ==
  /\ At("write")
  /\ GoTo("bloom")
  /\ UNCHANGED <<pool, windows, pass, part, alive, failed>>
WriteIndexThrows == At("write") /\ "blobs" \in MayThrow /\ Throw

BeginBloom ==
  /\ At("bloom")
  /\ GoTo("spawn") /\ part' = 1 /\ alive' = alive \cup {"hashes"}
  /\ UNCHANGED <<pool, windows, pass, failed>>
BloomThrows == At("bloom") /\ "bloom" \in MayThrow /\ Throw

SpawnRange ==
  /\ At("spawn") /\ part < ranges
  /\ Submit(range(part))
  /\ part' = part + 1
  /\ UNCHANGED <<mpc, windows, pass, alive, failed>>

SpawnRangeThrows == At("spawn") /\ part < ranges /\ ThrowAround(range(part))

BloomDone ==
  /\ At("spawn") /\ part = ranges
  /\ \A r \in 1..(ranges - 1) : range(r) \in ended
  /\ GoTo("hash_get") /\ alive' = alive \ {"hashes"}
  /\ UNCHANGED <<pool, windows, pass, part, failed>>

\* Faulty variant: the table is not waited for.
HashGetSkipped ==
  /\ At("hash_get")
  /\ GoTo("media_get")
  /\ UNCHANGED <<pool, windows, pass, part, alive, failed>>

HashGet ==
  /\ At("hash_get") /\ hash \in ended \ threw
  /\ GoTo("media_get")
  /\ UNCHANGED <<pool, windows, pass, part, alive, failed>>
HashGetThrows == At("hash_get") /\ hash \in threw /\ Throw

\* Faulty variant: the media task's exception goes unnoticed.
MediaGetUnchecked ==
  /\ At("media_get") /\ media \in ended
  /\ GoTo("json")
  /\ UNCHANGED <<pool, windows, pass, part, alive, failed>>

MediaGet ==
  /\ At("media_get") /\ media \in ended \ threw
  /\ GoTo("json")
  /\ UNCHANGED <<pool, windows, pass, part, alive, failed>>
MediaGetThrows == At("media_get") /\ media \in threw /\ Throw

\* index.json, then the marker, and the end of the try block.
WriteJson ==
  /\ At("json")
  /\ GoTo("stop") /\ alive' = {"source"}
  /\ UNCHANGED <<pool, windows, pass, part, failed>>
WriteJsonThrows == At("json") /\ "json" \in MayThrow /\ Throw

\* The pool's destructor, then the source's, then the folder of a failed
\* import is removed.
StopPool == At("stop") /\ Stop /\ GoTo("notify_stop") /\ UNCHANGED <<windows, pass, part, alive, failed>>
NotifyStop == At("notify_stop") /\ NotifyAll /\ GoTo("join") /\ UNCHANGED <<windows, pass, part, alive, failed>>
JoinPool == At("join") /\ Joined /\ GoTo("left") /\ alive' = {} /\ UNCHANGED <<pool, windows, pass, part, failed>>
RemoveAll == At("left") /\ failed /\ GoTo("removed") /\ UNCHANGED <<pool, windows, pass, part, alive, failed>>

Main ==
  \/ SubmitNotifies \/ Banks \/ ListsThrow \/ SubmitMedia \/ BeginSort
  \/ SubmitCount \/ SubmitCountThrows \/ CountsDone \/ SubmitScatter \/ SubmitScatterThrows \/ ScatterDone
  \/ SubmitHash \/ MemoryThrows \/ WriteIndex \/ WriteIndexThrows
  \/ BeginBloom \/ BloomThrows \/ SpawnRange \/ SpawnRangeThrows \/ BloomDone
  \/ HashGet \/ HashGetThrows \/ MediaGet \/ MediaGetThrows \/ WriteJson \/ WriteJsonThrows
  \/ StopPool \/ NotifyStop \/ JoinPool \/ RemoveAll

Thread(th) ==
  /\ PoolThread(th)
  /\ UNCHANGED main

Next == Main \/ \E th \in PoolThreads : Thread(th)

Spec == Init /\ [][Next]_vars

\* Threads that can run do run; a task ends.
FairSpec == Spec /\ WF_vars(Main) /\ \A th \in UNION Pools : WF_vars(Thread(th))

-----------------------------------------------------------------------------
\* Every variable has its type, and the window its bound.  A task waits in the
\* queue, runs on one thread or has ended, never two of these and never twice,
\* however threads, submits and the destructor race.
TypeOK ==
  /\ PoolTypeOK /\ EachTaskOnce /\ WindowOK
  /\ mpc \in {"loop", "get", "put", "media", "sort", "count", "scatter", "index", "write", "bloom",
              "spawn", "hash_get", "media_get", "json", "stop", "notify_stop", "join", "left", "removed"}
  /\ pass \in 0..Passes /\ part \in Nat
  /\ alive \subseteq {"source", "offsets", "hash_entries", "temp", "thread_pos", "hashes"}

\* The metadata and kanji banks of all lists reach blobs.bin one by one in
\* order, and the import gets past them or throws: what OrderedWrite promises.
WritesInOrder == Abstract!Spec

\* A task that runs finds everything it points to: no task outlives the vector
\* or the buffer it was given, whichever exception unwinds the importing thread.
TasksReadLiveData == \A task \in RunningTasks : Uses(task) \subseteq alive

\* The tasks that run and point to what is gone.
Orphans == {task \in RunningTasks : ~(Uses(task) \subseteq alive)}

\* The loops of submissions between the banks and index.json: the counts of one
\* pass, its moves, the hash table with the ranges of the filter.
Loops ==
  {{count(p, t) : t \in Parts} : p \in 1..Passes} \cup {{scatter(p, t) : t \in Parts} : p \in 1..Passes}
    \cup {{hash} \cup {range(r) : r \in 1..(ranges - 1)}}

\* As long as import has not failed every task finds what it points to.  After
\* a failure, also of a submit in the middle of a loop, the tasks that outlive
\* their data are those of the one loop the exception left: never banks or
\* media, never two passes at once.  And none outlives import's scope, nor
\* writes into the folder of a failed import once that is removed: the tasks an
\* exception abandoned have been run to their end too, each of them once.
OrphansOfOneLoop ==
  /\ TypeOK
  /\ Orphans # {} => failed
  /\ \E loop \in Loops : Orphans \subseteq loop
  /\ mpc \in {"left", "removed"} => Queued = {} /\ RunningTasks = {}

\* The sort never waits behind the media: while media has a pool thread, each
\* part of the sort that is queued has a thread that is free to take it.
SortNeverBehindMedia ==
  media_on_pool => Cardinality({task \in Queued : task[1] \in {"count", "scatter"}})
                     <= Cardinality({th \in PoolThreads : tpc[th] \in {"check", "asleep"}})

\* An import that succeeded has every file the tasks were writing.
WholeOnSuccess ==
  mpc = "left" /\ ~failed => {media, hash} \subseteq ended \ threw /\ \A r \in 1..(ranges - 1) : range(r) \in ended

\* import returns.
ImportReturns == <>(mpc = IF failed THEN "removed" ELSE "left")
=============================================================================
