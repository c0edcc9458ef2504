------------------------------ MODULE BankWindow ------------------------------
(***************************************************************************)
(* The windows of futures through which write_meta and write_kanji process *)
(* their lists of banks on the pool (src/src/importer.cpp:901-981), one    *)
(* list after the other: metadata, kanji, kanji metadata.  The importing   *)
(* thread submits bank after bank, and once max_threads of them are under  *)
(* way it waits for the oldest and writes it.  What comes before and after *)
(* in the import, and where an exception goes, is ImportRun's.             *)
(***************************************************************************)
EXTENDS WorkerPool

CONSTANTS
  Lists,         \* how many lists there are: 3 in the code
  UptoList,      \* UptoList[l]: how many banks the first l lists hold
  WriteMayThrow, \* whether writing to blobs.bin may throw
  MemoryMayThrow \* whether an allocation of the importing thread may throw

VARIABLES
  mpc,       \* where the importing thread is
  list,      \* the list it is writing
  next,      \* the next bank to submit, the lists numbered through
  window,    \* threads: the banks whose futures it has not taken yet
  out,       \* the banks it has written, in order
  failed     \* an exception is on its way out of import

windows == <<list, next, window, out>>

bank(i) == <<"bank", 0, i>>
N == UptoList[Lists]

ASSUME WindowAssumption ==
  /\ Lists \in Nat \ {0} /\ UptoList \in [0..Lists -> Nat]
  /\ \A l, m \in 0..Lists : l <= m => UptoList[l] <= UptoList[m]
  /\ {bank(i) : i \in 0..(N - 1)} \subseteq Tasks
  /\ WriteMayThrow \in BOOLEAN /\ MemoryMayThrow \in BOOLEAN

\* max_import_threads: as many as the pool has; 1 where there are no threads
max_threads == IF PoolThreads = {} THEN 1 ELSE Cardinality(PoolThreads)

WindowInit == list = 1 /\ next = 0 /\ window = <<>> /\ out = <<>>

\* The importing thread is at a place and has no notification to give.
At(place) == mpc = place /\ ~owed
GoTo(place) == mpc' = place

-----------------------------------------------------------------------------
AfterSubmit(n) == IF n = max_threads THEN "get" ELSE "loop"

EnqueueBank ==
  /\ Submit(bank(next))
  /\ window' = Append(window, next) /\ next' = next + 1
  /\ UNCHANGED <<list, out>>

SubmitBank ==
  /\ At("loop") /\ next < UptoList[list]
  /\ EnqueueBank
  /\ GoTo(AfterSubmit(Len(window) + 1))
  /\ UNCHANGED failed

\* submit throws before the bank is queued, or push_back after it.
SubmitBankThrows ==
  /\ At("loop") /\ next < UptoList[list] /\ MemoryMayThrow
  /\ EnqueueBank \/ UNCHANGED <<pool, windows>>
  /\ GoTo("stop") /\ failed' = TRUE

\* The list is submitted: the window drains.
Drain ==
  /\ At("loop") /\ next = UptoList[list] /\ window # <<>>
  /\ GoTo("get")
  /\ UNCHANGED <<pool, windows, failed>>

\* Faulty variant: whichever bank has ended is taken.
GetAny ==
  /\ At("get")
  /\ \E k \in 1..Len(window) :
       /\ bank(window[k]) \in ended \ threw
       /\ window' = <<window[k]>> \o [i \in 1..(Len(window) - 1) |-> IF i < k THEN window[i] ELSE window[i + 1]]
  /\ GoTo("put")
  /\ UNCHANGED <<pool, list, next, out, failed>>

\* threads.front().get()
Get ==
  /\ At("get") /\ bank(Head(window)) \in ended \ threw
  /\ GoTo("put")
  /\ UNCHANGED <<pool, windows, failed>>
GetThrows ==
  /\ At("get") /\ bank(Head(window)) \in threw
  /\ GoTo("stop") /\ failed' = TRUE
  /\ UNCHANGED <<pool, windows>>

\* write_processed
WriteBank ==
  /\ At("put")
  /\ out' = Append(out, Head(window))
  /\ window' = Tail(window)
  /\ GoTo("loop")
  /\ UNCHANGED <<pool, list, next, failed>>
WriteThrows ==
  /\ At("put") /\ WriteMayThrow
  /\ GoTo("stop") /\ failed' = TRUE
  /\ UNCHANGED <<pool, windows>>

\* The call returns: the next list, or what follows the banks.
EndList ==
  /\ At("loop") /\ next = UptoList[list] /\ window = <<>>
  /\ IF list < Lists THEN list' = list + 1 /\ UNCHANGED mpc ELSE GoTo("media") /\ UNCHANGED list
  /\ UNCHANGED <<pool, next, window, out, failed>>

WindowStep == SubmitBank \/ SubmitBankThrows \/ Drain \/ Get \/ GetThrows \/ WriteBank \/ WriteThrows \/ EndList

-----------------------------------------------------------------------------
\* The tasks of banks that are in memory or on their way there: queued, being
\* processed, or processed and not written.
BanksAhead == {i \in 0..(N - 1) : bank(i) \in Queued \cup RunningTasks \cup ended} \ {out[i] : i \in 1..Len(out)}

\* However many banks there are, at most max_threads of them are in memory at
\* a time: this is what bounds the memory of their import.
WindowOK ==
  /\ Cardinality(BanksAhead) <= max_threads
  /\ list \in 1..Lists /\ next \in 0..N
  /\ window \in Seq(0..(N - 1)) /\ out \in Seq(0..(N - 1)) /\ failed \in BOOLEAN

\* OrderedWrite for the banks of all lists.
Abstract == INSTANCE OrderedWrite WITH
  outcome <- IF mpc \in {"loop", "get", "put"} THEN "running"
             ELSE IF Len(out) = N THEN "returned" ELSE "thrown"
=============================================================================
