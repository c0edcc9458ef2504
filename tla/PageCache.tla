------------------------------- MODULE PageCache -------------------------------
(***************************************************************************)
(* The page cache that every paged dictionary file of one DictionaryQuery  *)
(* reads through (src/src/memory/page_cache.cpp) together with its only    *)
(* clients: queries that pin pages through BlobCursor until they return,   *)
(* and index probes that copy a slot page by page (src/src/blob_file.cpp). *)
(*                                                                         *)
(* get, trim and forget run under the cache's mutex, but a holder drops    *)
(* its shared_ptr without it, so the trimming loop is modelled one         *)
(* iteration at a time: a page can be released after the loop has passed   *)
(* it.  A page object is named by its key: a page somebody holds is never  *)
(* dropped from an open file, so a key names one object at a time.         *)
(***************************************************************************)
EXTENDS Integers, Sequences, FiniteSets

CONSTANTS
  Threads,       \* threads that run queries on the same DictionaryQuery
  Files,         \* paged files; a file id is never used twice
  PageBytes,     \* page_bytes_
  FileSize,      \* FileSize[f]: the length of file f in bytes
  KindOf,        \* KindOf[f]: the page_kind the file's pages are counted under
  Budget,        \* budget_bytes_
  FailingKinds,  \* kinds of files whose reads may fail
  None           \* no thread, no file, no page

Kinds == {"entries", "index"}

ASSUME CacheAssumption ==
  /\ IsFiniteSet(Threads)
  /\ PageBytes \in Nat \ {0}
  /\ Budget \in Nat
  /\ FileSize \in [Files -> Nat \ {0}]
  /\ KindOf \in [Files -> Kinds]
  /\ FailingKinds \subseteq Kinds
  /\ None \notin Threads /\ None \notin Files

\* The pages of a file: get throws for an index at or past its end, and the
\* callers check their range against the file's size before they call it.
PagesOf(f) == {<<f, i>> : i \in {j \in 0..FileSize[f] : j * PageBytes < FileSize[f]}}
Pages == UNION {PagesOf(f) : f \in Files}

ASSUME NoneIsNoPage == None \notin Pages

SizeOf(p) == LET remaining == FileSize[p[1]] - p[2] * PageBytes
             IN  IF PageBytes <= remaining THEN PageBytes ELSE remaining

VARIABLES
  status,    \* status[f]: "new", "open" or "gone"
  lru,       \* lru_: the cached pages, most recently used first
  index,     \* index_: the keys the cache finds
  resident,  \* resident_
  bytes,     \* bytes[k]: stats_[k].bytes
  lock,      \* the mutex and the loop its owner runs under it
  pc,        \* pc[t]: what thread t is doing
  pins,      \* pins[t]: the pages t's BlobPins hold
  hand,      \* hand[t]: the page an iteration of BlobFile::copy holds
  left       \* left[t]: the pages the copy has still to read

cache == <<lru, index, resident, bytes>>
vars == <<status, lru, index, resident, bytes, lock, pc, pins, hand, left>>

\* lock.drop is the file forget is dropping, None while trimming; lock.at is
\* the position of the loop's iterator, Len(lru) + 1 being end().
Unlocked == [owner |-> None, drop |-> None, at |-> 0]
Trimming(t, at) == [owner |-> t, drop |-> None, at |-> at]
Free == lock = Unlocked

\* use_count() > 1: someone besides the cache has the page.
Held(p) == \E t \in Threads : p \in pins[t] \/ hand[t] = p

-----------------------------------------------------------------------------
Init ==
  /\ status = [f \in Files |-> "new"]
  /\ lru = <<>> /\ index = {} /\ resident = 0
  /\ bytes = [k \in Kinds |-> 0]
  /\ lock = Unlocked
  /\ pc = [t \in Threads |-> "idle"]
  /\ pins = [t \in Threads |-> {}]
  /\ hand = [t \in Threads |-> None]
  /\ left = [t \in Threads |-> <<>>]

Quiet == Free /\ \A t \in Threads : pc[t] = "idle"

\* BlobFile::open, while a dictionary is added: no query runs.
OpenFile(f) ==
  /\ Quiet /\ status[f] = "new"
  /\ status' = [status EXCEPT ![f] = "open"]
  /\ UNCHANGED <<cache, lock, pc, pins, hand, left>>

\* BlobFile::release, while a dictionary is removed: forget walks the list
\* from its head.
CloseFile(t, f) ==
  /\ Quiet /\ status[f] = "open"
  /\ status' = [status EXCEPT ![f] = "gone"]
  /\ lock' = [owner |-> t, drop |-> f, at |-> 1]
  /\ UNCHANGED <<cache, pc, pins, hand, left>>

-----------------------------------------------------------------------------
(* page_cache::get for thread t, up to the trimming loop of a miss.        *)

PositionOf(p) == CHOOSE i \in 1..Len(lru) : lru[i] = p

ToFront(s, k) == [i \in 1..Len(s) |-> IF i = 1 THEN s[k]
                                      ELSE IF i <= k THEN s[i - 1] ELSE s[i]]

GetHit(p) ==
  /\ Free /\ p \in index
  /\ lru' = ToFront(lru, PositionOf(p))
  /\ UNCHANGED <<index, resident, bytes, lock>>

GetMiss(t, p) ==
  /\ Free /\ p \notin index
  /\ lru' = <<p>> \o lru
  /\ index' = index \cup {p}
  /\ resident' = resident + SizeOf(p)
  /\ bytes' = [bytes EXCEPT ![KindOf[p[1]]] = @ + SizeOf(p)]
  /\ lock' = Trimming(t, Len(lru) + 2)

\* The read of a miss fails: get throws before it has changed anything.
GetThrows(p) ==
  /\ Free /\ p \notin index /\ KindOf[p[1]] \in FailingKinds
  /\ UNCHANGED <<cache, lock>>

-----------------------------------------------------------------------------
(* A query: BlobPins, BlobCursor::pin and BlobFile::copy.                  *)

Running(t) == lock.owner # t

BeginQuery(t) ==
  /\ Running(t) /\ pc[t] = "idle"
  /\ pc' = [pc EXCEPT ![t] = "query"]
  /\ UNCHANGED <<status, cache, lock, pins, hand, left>>

\* BlobCursor::pin. Only blobs.bin is read through cursors, only hash.table
\* through copy (query.cpp, hash.cpp).
Pin(t, p) ==
  /\ pc[t] = "query" /\ status[p[1]] = "open" /\ KindOf[p[1]] = "entries"
  /\ GetHit(p) \/ GetMiss(t, p)
  /\ pins' = [pins EXCEPT ![t] = @ \cup {p}]
  /\ UNCHANGED <<status, pc, hand, left>>

PinThrows(t, p) ==
  /\ pc[t] = "query" /\ status[p[1]] = "open" /\ KindOf[p[1]] = "entries"
  /\ GetThrows(p)
  /\ pc' = [pc EXCEPT ![t] = "unwind"]
  /\ UNCHANGED <<status, pins, hand, left>>

\* BlobFile::copy of a range that begins in page a and ends in page b of f.
BeginCopy(t, f, a, b) ==
  /\ Running(t) /\ pc[t] = "query" /\ status[f] = "open" /\ KindOf[f] = "index"
  /\ a <= b /\ <<f, a>> \in PagesOf(f) /\ <<f, b>> \in PagesOf(f)
  /\ pc' = [pc EXCEPT ![t] = "copy"]
  /\ left' = [left EXCEPT ![t] = [i \in 1..(b - a + 1) |-> <<f, a + i - 1>>]]
  /\ UNCHANGED <<status, cache, lock, pins, hand>>

CopyGet(t) ==
  /\ pc[t] = "copy" /\ hand[t] = None /\ left[t] # <<>>
  /\ LET p == Head(left[t]) IN
       /\ GetHit(p) \/ GetMiss(t, p)
       /\ hand' = [hand EXCEPT ![t] = p]
  /\ left' = [left EXCEPT ![t] = Tail(@)]
  /\ UNCHANGED <<status, pc, pins>>

\* The exception leaves copy without its trim().
CopyThrows(t) ==
  /\ pc[t] = "copy" /\ hand[t] = None /\ left[t] # <<>>
  /\ GetThrows(Head(left[t]))
  /\ pc' = [pc EXCEPT ![t] = "unwind"]
  /\ left' = [left EXCEPT ![t] = <<>>]
  /\ UNCHANGED <<status, pins, hand>>

\* The bytes are copied and the iteration's shared_ptr goes out of scope.
CopyRelease(t) ==
  /\ Running(t) /\ hand[t] # None
  /\ hand' = [hand EXCEPT ![t] = None]
  /\ UNCHANGED <<status, cache, lock, pc, pins, left>>

CopyTrim(t) ==
  /\ Free /\ pc[t] = "copy" /\ hand[t] = None /\ left[t] = <<>>
  /\ lock' = Trimming(t, Len(lru) + 1)
  /\ pc' = [pc EXCEPT ![t] = "query"]
  /\ UNCHANGED <<status, cache, pins, hand, left>>

\* BlobPins::Held::~Held, on return and on unwinding: the pages are cleared
\* first, the cache is trimmed afterwards, and only if there were any.
EndQuery(t) ==
  /\ Running(t) /\ pc[t] \in {"query", "unwind"}
  /\ pins' = [pins EXCEPT ![t] = {}]
  /\ pc' = [pc EXCEPT ![t] = IF pins[t] = {} THEN "idle" ELSE "trim"]
  /\ UNCHANGED <<status, cache, lock, hand, left>>

EndTrim(t) ==
  /\ Free /\ pc[t] = "trim"
  /\ lock' = Trimming(t, Len(lru) + 1)
  /\ pc' = [pc EXCEPT ![t] = "idle"]
  /\ UNCHANGED <<status, cache, pins, hand, left>>

-----------------------------------------------------------------------------
(* The loops under the mutex, one iteration per step.                      *)

WithoutAt(s, k) == [i \in 1..(Len(s) - 1) |-> IF i < k THEN s[i] ELSE s[i + 1]]

\* Faulty variant: the per-kind counter is left alone.
DropAtOneCounter(k) ==
  /\ lru' = WithoutAt(lru, k)
  /\ index' = index \ {lru[k]}
  /\ resident' = resident - SizeOf(lru[k])
  /\ UNCHANGED bytes

DropAt(k) ==
  /\ lru' = WithoutAt(lru, k)
  /\ index' = index \ {lru[k]}
  /\ resident' = resident - SizeOf(lru[k])
  /\ bytes' = [bytes EXCEPT ![KindOf[lru[k][1]]] = @ - SizeOf(lru[k])]

\* Faulty variant: trims down to below the budget.
TrimGoesOnAtBudget == lock.owner # None /\ lock.drop = None /\ resident >= Budget /\ lock.at > 1

\* Faulty variant: keeps a page more than the budget.
TrimGoesOnPageMore == lock.owner # None /\ lock.drop = None /\ resident > Budget + PageBytes /\ lock.at > 1

TrimGoesOn == lock.owner # None /\ lock.drop = None /\ resident > Budget /\ lock.at > 1

TrimSkip ==
  /\ TrimGoesOn /\ Held(lru[lock.at - 1])
  /\ lock' = [lock EXCEPT !.at = @ - 1]
  /\ UNCHANGED cache

\* Faulty variant: use_count() is not looked at.
TrimDropHeldToo ==
  /\ TrimGoesOn
  /\ DropAt(lock.at - 1)
  /\ lock' = [lock EXCEPT !.at = @ - 1]

TrimDrop ==
  /\ TrimGoesOn /\ ~Held(lru[lock.at - 1])
  /\ DropAt(lock.at - 1)
  /\ lock' = [lock EXCEPT !.at = @ - 1]

ForgetGoesOn == lock.owner # None /\ lock.drop # None /\ lock.at <= Len(lru)

ForgetDrop ==
  /\ ForgetGoesOn /\ lru[lock.at][1] = lock.drop
  /\ DropAt(lock.at)
  /\ UNCHANGED lock

ForgetPass ==
  /\ ForgetGoesOn /\ lru[lock.at][1] # lock.drop
  /\ lock' = [lock EXCEPT !.at = @ + 1]
  /\ UNCHANGED cache

Unlock ==
  /\ lock.owner # None /\ ~TrimGoesOn /\ ~ForgetGoesOn
  /\ lock' = Unlocked
  /\ UNCHANGED cache

Sweep == /\ TrimSkip \/ TrimDrop \/ ForgetDrop \/ ForgetPass \/ Unlock
         /\ UNCHANGED <<status, pc, pins, hand, left>>

Query(t) ==
  \/ BeginQuery(t) \/ EndQuery(t) \/ EndTrim(t)
  \/ \E p \in Pages : Pin(t, p) \/ PinThrows(t, p)
  \/ \E f \in Files : \E a, b \in 0..FileSize[f] : BeginCopy(t, f, a, b)
  \/ CopyGet(t) \/ CopyThrows(t) \/ CopyRelease(t) \/ CopyTrim(t)

Next ==
  \/ \E f \in Files : OpenFile(f) \/ \E t \in Threads : CloseFile(t, f)
  \/ \E t \in Threads : Query(t)
  \/ Sweep

Spec == Init /\ [][Next]_vars

-----------------------------------------------------------------------------
\* Every variable has its type.
TypeOK ==
  /\ status \in [Files -> {"new", "open", "gone"}]
  /\ lru \in Seq(Pages) /\ index \in SUBSET Pages
  /\ resident \in Nat /\ bytes \in [Kinds -> Nat]
  /\ lock \in [owner : Threads \cup {None}, drop : Files \cup {None}, at : Nat]
  /\ pc \in [Threads -> {"idle", "query", "copy", "unwind", "trim"}]
  /\ pins \in [Threads -> SUBSET Pages]
  /\ hand \in [Threads -> Pages \cup {None}]
  /\ left \in [Threads -> Seq(Pages)]

\* the list and the hash map hold the same pages, each once
IndexMatchesList ==
  /\ index = {lru[i] : i \in 1..Len(lru)}
  /\ \A i, j \in 1..Len(lru) : lru[i] = lru[j] => i = j

\* The bytes of a set of pages, each byte once, so that counting them needs no
\* sum: Cardinality(BytesOf(S)) is the total size of the pages of S.
BytesOf(S) == UNION {{p} \X (1..SizeOf(p)) : p \in S}
CachedOf(k) == {p \in index : KindOf[p[1]] = k}

\* resident_ and the two byte counters of page_cache_statistics are the sizes
\* of the pages the cache holds
Accounting ==
  /\ resident = Cardinality(BytesOf(index))
  /\ \A k \in Kinds : bytes[k] = Cardinality(BytesOf(CachedOf(k)))

\* A closed file has no page in the cache once forget returns, whatever the
\* queries left there.
ForgottenIsGone ==
  \A p \in index : status[p[1]] = "open" \/ lock.drop = p[1]

\* get, trim_locked and forget each update a list, a hash map and two counters
\* by hand: in every order of calls, of several threads, with reads that fail
\* and files that close, these describe the same pages, all of open files.
BooksAgree == TypeOK /\ IndexMatchesList /\ Accounting /\ ForgottenIsGone

\* A page a query still holds is never dropped: not by another thread's trim,
\* not by the trim of the get that read it, not by a second pass of the loop.
\* Dropping it would read it a second time into a second copy.
HeldPagesStayCached ==
  \A t \in Threads : pins[t] \subseteq index /\ (hand[t] # None => hand[t] \in index)

\* A thread that holds pages or is still going to trim.
WillTrim(t) == pins[t] # {} \/ hand[t] # None \/ pc[t] \in {"copy", "trim"}

\* Outside the mutex, when no thread holds a page or is going to trim, the
\* cache is within its budget, or holds no more than the one page that each
\* thread may have held in a probe whose next read failed.
OverBudgetBounded ==
  Free /\ (\A t \in Threads : ~WillTrim(t)) =>
    resident <= Budget \/ resident <= Cardinality(Threads) * PageBytes

\* trim drops only pages nobody holds, only while over the budget, and the
\* least recently used first: a page further back that it left was held, or
\* was released behind the loop by a thread that trims after it.
DropsOldestUnheld ==
  [][ lock.drop = None /\ index' # index /\ index' \subseteq index =>
        \E k \in 1..Len(lru) :
          /\ lru' = WithoutAt(lru, k) /\ ~Held(lru[k])
          /\ resident > Budget
          /\ \A i \in (k + 1)..Len(lru) :
               Held(lru[i]) \/ \E t \in Threads \ {lock.owner} : pc[t] \in {"copy", "trim"} ]_vars
=============================================================================
