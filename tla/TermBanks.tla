------------------------------- MODULE TermBanks -------------------------------
(***************************************************************************)
(* write_terms under __EMSCRIPTEN_PTHREADS__                               *)
(* (src/src/importer.cpp:739-851): pool threads claim term banks in order  *)
(* and process them outside the lock, never further ahead of the writer    *)
(* than max_tasks_ahead banks and max_bytes_ahead bytes; the importing     *)
(* thread writes the results in order.  Everybody shares one mutex and one *)
(* condition variable.                                                     *)
(*                                                                         *)
(* Each block under the mutex is one action.  notify_all comes after the   *)
(* unlock, so it is an action of its own: it moves everybody asleep on the *)
(* condition variable back to evaluating its predicate.                    *)
(***************************************************************************)
EXTENDS Integers, Sequences, FiniteSets

CONSTANTS
  N,              \* files.size()
  Upto,           \* Upto[i]: the uncompressed bytes of the first i banks
  Workers,        \* the worker_count tasks submitted to the pool
  LowRam,         \* the low_ram argument
  MaxBytes,       \* max_bytes_ahead
  FailingBanks,   \* banks whose reading or processing may throw
  WriteMayThrow,  \* whether writing to blobs.bin may throw
  SubmitMayThrow  \* whether handing a worker to the pool may throw

Banks == 0..(N - 1)
task_bytes(i) == Upto[i + 1] - Upto[i]

\* max_tasks_ahead, from worker_count.
MaxAhead == LET worker_count == Cardinality(Workers) IN
            IF LowRam THEN worker_count ELSE IF 2 * worker_count <= N THEN 2 * worker_count ELSE N

\* worker_count is min(max_threads, files.size()).
ASSUME BanksAssumption ==
  /\ N \in Nat \ {0} /\ MaxBytes \in Nat /\ LowRam \in BOOLEAN
  /\ IsFiniteSet(Workers) /\ Cardinality(Workers) \in 1..N
  /\ Upto \in [0..N -> Nat] /\ \A i, j \in 0..N : i <= j => Upto[i] <= Upto[j]
  /\ FailingBanks \subseteq Banks
  /\ WriteMayThrow \in BOOLEAN /\ SubmitMayThrow \in BOOLEAN

VARIABLES
  next_task, next_to_write, bytes_ahead,   \* shared, under the mutex
  processed,      \* the banks whose std::optional holds a value
  failed,
  worker_error,
  wpc,            \* wpc[w]: where the worker is
  task,           \* task[w]: the bank it claimed last
  mpc,            \* where the importing thread is
  index,          \* the bank it is about to write
  out             \* the banks it has written, in order

shared == <<next_task, next_to_write, bytes_ahead, processed, failed, worker_error>>
vars == <<next_task, next_to_write, bytes_ahead, processed, failed, worker_error,
          wpc, task, mpc, index, out>>

Init ==
  /\ next_task = 0 /\ next_to_write = 0 /\ bytes_ahead = 0
  /\ processed = {} /\ failed = FALSE /\ worker_error = FALSE
  /\ wpc = [w \in Workers |-> "unsubmitted"]
  /\ task = [w \in Workers |-> 0]
  /\ mpc = "submit" /\ index = 0 /\ out = <<>>

\* notify_all: whoever sleeps evaluates its predicate again.
Woken(w) == IF wpc[w] = "asleep" THEN "check" ELSE wpc[w]
MainWoken == IF mpc = "asleep" THEN "check" ELSE mpc

-----------------------------------------------------------------------------
(* A worker.                                                               *)

\* Faulty variants: a bank larger than the window is never admitted; what is
\* already ahead does not count.
can_claim_task_never_oversized ==
  /\ next_task < N /\ next_task < next_to_write + MaxAhead
  /\ bytes_ahead + task_bytes(next_task) <= MaxBytes
can_claim_task_each_alone ==
  /\ next_task < N /\ next_task < next_to_write + MaxAhead
  /\ bytes_ahead = 0 \/ task_bytes(next_task) <= MaxBytes

can_claim_task ==
  /\ next_task < N /\ next_task < next_to_write + MaxAhead
  /\ \/ bytes_ahead = 0
     \/ task_bytes(next_task) <= MaxBytes - (IF bytes_ahead <= MaxBytes THEN bytes_ahead ELSE MaxBytes)

NothingToClaim == failed \/ next_task >= N

Claim(w) ==
  /\ wpc[w] = "check" /\ ~NothingToClaim /\ can_claim_task
  /\ next_task' = next_task + 1
  /\ bytes_ahead' = bytes_ahead + task_bytes(next_task)
  /\ task' = [task EXCEPT ![w] = next_task]
  /\ wpc' = [wpc EXCEPT ![w] = "work"]
  /\ UNCHANGED <<next_to_write, processed, failed, worker_error, mpc, index, out>>

Sleep(w) ==
  /\ wpc[w] = "check" /\ ~NothingToClaim /\ ~can_claim_task
  /\ wpc' = [wpc EXCEPT ![w] = "asleep"]
  /\ UNCHANGED <<shared, task, mpc, index, out>>

Leave(w) ==
  /\ wpc[w] = "check" /\ NothingToClaim
  /\ wpc' = [wpc EXCEPT ![w] = "done"]
  /\ UNCHANGED <<shared, task, mpc, index, out>>

Deliver(w) ==
  /\ wpc[w] = "work"
  /\ processed' = processed \cup {task[w]}
  /\ wpc' = [wpc EXCEPT ![w] = "notify"]
  /\ UNCHANGED <<next_task, next_to_write, bytes_ahead, failed, worker_error, task, mpc, index, out>>

ProcessingThrows(w) ==
  /\ wpc[w] = "work" /\ task[w] \in FailingBanks
  /\ worker_error' = TRUE /\ failed' = TRUE
  /\ wpc' = [wpc EXCEPT ![w] = "last_notify"]
  /\ UNCHANGED <<next_task, next_to_write, bytes_ahead, processed, task, mpc, index, out>>

WorkerNotifies(w) ==
  /\ wpc[w] \in {"notify", "last_notify"}
  /\ wpc' = [v \in Workers |->
               IF v # w THEN Woken(v) ELSE IF wpc[w] = "notify" THEN "check" ELSE "done"]
  /\ mpc' = MainWoken
  /\ UNCHANGED <<shared, task, index, out>>

Worker(w) == Claim(w) \/ Sleep(w) \/ Leave(w) \/ Deliver(w) \/ ProcessingThrows(w) \/ WorkerNotifies(w)

-----------------------------------------------------------------------------
(* The importing thread.                                                   *)

Submit(w) ==
  /\ mpc = "submit" /\ wpc[w] = "unsubmitted"
  /\ wpc' = [wpc EXCEPT ![w] = "check"]
  /\ UNCHANGED <<shared, task, mpc, index, out>>

Submitted ==
  /\ mpc = "submit" /\ \A w \in Workers : wpc[w] # "unsubmitted"
  /\ mpc' = "check"
  /\ UNCHANGED <<shared, wpc, task, index, out>>

SubmitThrows ==
  /\ mpc = "submit" /\ SubmitMayThrow /\ \E w \in Workers : wpc[w] = "unsubmitted"
  /\ mpc' = "abort"
  /\ UNCHANGED <<shared, wpc, task, index, out>>

\* An error is preferred to a bank that is ready.
Rethrow ==
  /\ mpc = "check" /\ index < N /\ worker_error
  /\ mpc' = "abort"
  /\ UNCHANGED <<shared, wpc, task, index, out>>

\* Faulty variants: the slot is not reset; whichever bank is ready is written.
TakeKeepsSlot ==
  /\ mpc = "check" /\ index < N /\ ~worker_error /\ index \in processed
  /\ mpc' = "write"
  /\ UNCHANGED <<shared, wpc, task, index, out>>
TakeAnyReady ==
  /\ mpc = "check" /\ index < N /\ ~worker_error
  /\ \E i \in processed : processed' = processed \ {i} /\ index' = i
  /\ mpc' = "write"
  /\ UNCHANGED <<next_task, next_to_write, bytes_ahead, failed, worker_error, wpc, task, out>>

Take ==
  /\ mpc = "check" /\ index < N /\ ~worker_error /\ index \in processed
  /\ processed' = processed \ {index}
  /\ mpc' = "write"
  /\ UNCHANGED <<next_task, next_to_write, bytes_ahead, failed, worker_error, wpc, task, index, out>>

MainSleeps ==
  /\ mpc = "check" /\ index < N /\ ~worker_error /\ index \notin processed
  /\ mpc' = "asleep"
  /\ UNCHANGED <<shared, wpc, task, index, out>>

WriteBank ==
  /\ mpc = "write"
  /\ out' = Append(out, index)
  /\ mpc' = "progress"
  /\ UNCHANGED <<shared, wpc, task, index>>

WriteThrows ==
  /\ mpc = "write" /\ WriteMayThrow
  /\ mpc' = "abort"
  /\ UNCHANGED <<shared, wpc, task, index, out>>

Progress ==
  /\ mpc = "progress"
  /\ next_to_write' = index + 1
  /\ bytes_ahead' = bytes_ahead - task_bytes(index)
  /\ mpc' = "notify"
  /\ UNCHANGED <<next_task, processed, failed, worker_error, wpc, task, index, out>>

MainNotifies ==
  /\ mpc = "notify"
  /\ wpc' = [w \in Workers |-> Woken(w)]
  /\ index' = index + 1
  /\ mpc' = "check"
  /\ UNCHANGED <<shared, task, out>>

Abort ==
  /\ mpc = "abort"
  /\ failed' = TRUE
  /\ mpc' = "notify_abort"
  /\ UNCHANGED <<next_task, next_to_write, bytes_ahead, processed, worker_error, wpc, task, index, out>>

\* Faulty variant: nobody is woken on the way out.
NotifyAbortSilent ==
  /\ mpc = "notify_abort"
  /\ mpc' = "join"
  /\ UNCHANGED <<shared, wpc, task, index, out>>

NotifyAbort ==
  /\ mpc = "notify_abort"
  /\ wpc' = [w \in Workers |-> Woken(w)]
  /\ mpc' = "join"
  /\ UNCHANGED <<shared, task, index, out>>

\* future.get() of every worker that was submitted.
Joined == \A w \in Workers : wpc[w] \in {"unsubmitted", "done"}

Throw ==
  /\ mpc = "join" /\ Joined
  /\ mpc' = "thrown"
  /\ UNCHANGED <<shared, wpc, task, index, out>>

Return ==
  /\ mpc = "check" /\ index = N /\ Joined
  /\ mpc' = "returned"
  /\ UNCHANGED <<shared, wpc, task, index, out>>

Main ==
  \/ \E w \in Workers : Submit(w)
  \/ Submitted \/ SubmitThrows
  \/ Rethrow \/ Take \/ MainSleeps \/ WriteBank \/ WriteThrows \/ Progress \/ MainNotifies
  \/ Abort \/ NotifyAbort \/ Throw \/ Return

Ended == mpc \in {"returned", "thrown"}

Next == Main \/ \E w \in Workers : Worker(w)

Spec == Init /\ [][Next]_vars

\* Threads that can run do run; a bank's processing ends.
FairSpec == Spec /\ WF_vars(Main) /\ \A w \in Workers : WF_vars(Worker(w))

-----------------------------------------------------------------------------
TypeOK ==
  /\ next_task \in 0..N /\ next_to_write \in 0..N /\ bytes_ahead \in Nat
  /\ processed \subseteq Banks /\ failed \in BOOLEAN /\ worker_error \in BOOLEAN
  /\ wpc \in [Workers -> {"unsubmitted", "check", "asleep", "work", "notify", "last_notify", "done"}]
  /\ task \in [Workers -> Banks]
  /\ mpc \in {"submit", "check", "asleep", "write", "progress", "notify", "abort", "notify_abort",
              "join", "returned", "thrown"}
  /\ index \in 0..N /\ out \in Seq(Banks)

Working(w) == wpc[w] = "work"

\* The window of banks claimed and not yet accounted as written stays within
\* max_tasks_ahead, and its bytes within max_bytes_ahead or the size of one
\* bank that is larger on its own: this is what bounds the import's memory.
WindowBounded ==
  /\ next_to_write <= next_task /\ next_task <= next_to_write + MaxAhead
  /\ bytes_ahead = Upto[next_task] - Upto[next_to_write]
  /\ bytes_ahead <= MaxBytes \/ \E i \in Banks : bytes_ahead <= task_bytes(i)

\* Every claimed bank that is not written yet is in exactly one place: being
\* processed by one worker, waiting in its slot, or in the writer's hands. No
\* bank is processed twice or lost, except when the call is failing.
InWriter == IF mpc \in {"write", "progress"} THEN {index} ELSE {}
EachBankInOnePlace ==
  /\ \A v, w \in Workers : Working(v) /\ Working(w) /\ task[v] = task[w] => v = w
  /\ \A w \in Workers : Working(w) => task[w] \notin processed /\ task[w] \in next_to_write..(next_task - 1)
  /\ processed \subseteq next_to_write..(next_task - 1) /\ processed \cap InWriter = {}
  /\ ~failed /\ mpc # "abort" => next_to_write..(next_task - 1)
                                     = processed \cup InWriter \cup {task[w] : w \in {v \in Workers : Working(v)}}

\* Nobody is left asleep for good: the importing thread and the workers are
\* never all asleep or gone while banks remain.
NeverAllAsleep == ~(mpc = "asleep" /\ \A w \in Workers : wpc[w] \in {"asleep", "done"})

\* Once a worker has failed, no further bank is begun: the writer may only
\* finish the one it already holds.
NoWriteBegunAfterError == [][worker_error /\ mpc' = "write" => mpc = "write"]_vars

\* write_terms leaves, either way, only when no worker can still touch its
\* locals (the slots, the counters, the mutex live on its stack).
LeavesAlone == Ended => Joined

\* No thread is left behind: none asleep for good while the call goes on, and
\* none running once it has ended.
NoThreadLeftBehind == NeverAllAsleep /\ LeavesAlone

\* The call implements OrderedWrite and ends.
Abstract == INSTANCE OrderedWrite WITH
  outcome <- IF mpc \in {"returned", "thrown"} THEN mpc ELSE "running"
WritesInOrder == Abstract!Spec
WriteTermsEnds == Abstract!Ends
=============================================================================
