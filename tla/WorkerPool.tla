------------------------------ MODULE WorkerPool ------------------------------
(***************************************************************************)
(* WorkerPool (src/src/importer.cpp:55-120): the one group of threads that *)
(* serves a whole import.  Tasks are names; a module that EXTENDS this one *)
(* says who submits them and what they need.  Without threads the pool     *)
(* runs a task inside submit.                                              *)
(*                                                                         *)
(* submit notifies after it has given up the mutex, so the push and the    *)
(* notification are two steps, and a thread that finds the queue empty     *)
(* falls asleep under the mutex it tested it under.                        *)
(***************************************************************************)
EXTENDS Integers, Sequences, FiniteSets

CONSTANTS
  Pools,         \* the sets of threads the pool may have: the empty one where
                 \* the build has no threads
  Tasks,         \* everything that may be submitted
  FailingTasks,  \* the tasks that may throw
  None           \* no task

ASSUME PoolAssumption ==
  (\A P \in Pools : IsFiniteSet(P)) /\ IsFiniteSet(Tasks) /\ FailingTasks \subseteq Tasks /\ None \notin Tasks

VARIABLES
  tasks,     \* tasks_
  stop,      \* stop_
  tpc,       \* tpc[th]: "check", "asleep", "run" or "exited"
  current,   \* current[th]: the task th is running
  ended,     \* the tasks whose future is ready
  threw,     \* those of them whose future holds an exception
  owed       \* submit has pushed a task and not notified yet

pool == <<tasks, stop, tpc, current, ended, threw, owed>>

\* threads_: which threads there are never changes
PoolThreads == DOMAIN tpc

PoolInit ==
  /\ tasks = <<>> /\ stop = FALSE /\ ended = {} /\ threw = {} /\ owed = FALSE
  /\ \E threads \in Pools :
       /\ tpc = [th \in threads |-> "check"]
       /\ current = [th \in threads |-> None]

-----------------------------------------------------------------------------
(* What the pool's owner, the importing thread, calls.                     *)

\* The packaged task has run: its future holds a result or an exception.
Ends(task) ==
  /\ ended' = ended \cup {task}
  /\ threw' \in {threw, threw \cup ({task} \cap FailingTasks)}

Push(task) ==
  /\ PoolThreads # {}
  /\ tasks' = Append(tasks, task)
  /\ owed' = TRUE
  /\ UNCHANGED <<stop, tpc, current, ended, threw>>
RunInline(task) ==
  /\ PoolThreads = {}
  /\ Ends(task)
  /\ UNCHANGED <<tasks, stop, tpc, current, owed>>
Submit(task) == Push(task) \/ RunInline(task)

Asleep == {th \in PoolThreads : tpc[th] = "asleep"}

\* Faulty variant: the notification is lost.
NotifyNobody ==
  /\ owed /\ owed' = FALSE
  /\ UNCHANGED <<tasks, stop, tpc, current, ended, threw>>

NotifyOne ==
  /\ owed /\ owed' = FALSE
  /\ IF Asleep = {} THEN UNCHANGED tpc
                    ELSE \E th \in Asleep : tpc' = [tpc EXCEPT ![th] = "check"]
  /\ UNCHANGED <<tasks, stop, current, ended, threw>>

\* The destructor: stop_ under the mutex, notify_all, join.
Stop ==
  /\ stop' = TRUE
  /\ UNCHANGED <<tasks, tpc, current, ended, threw, owed>>

NotifyAll ==
  /\ tpc' = [th \in PoolThreads |-> IF th \in Asleep THEN "check" ELSE tpc[th]]
  /\ UNCHANGED <<tasks, stop, current, ended, threw, owed>>

Joined == \A th \in PoolThreads : tpc[th] = "exited"

-----------------------------------------------------------------------------
(* run(), for thread th.                                                   *)

Wait(th) ==
  /\ tpc[th] = "check" /\ ~stop /\ tasks = <<>>
  /\ tpc' = [tpc EXCEPT ![th] = "asleep"]
  /\ UNCHANGED <<tasks, stop, current, ended, threw, owed>>

Exit(th) ==
  /\ tpc[th] = "check" /\ stop /\ tasks = <<>>
  /\ tpc' = [tpc EXCEPT ![th] = "exited"]
  /\ UNCHANGED <<tasks, stop, current, ended, threw, owed>>

TakeTask(th) ==
  /\ tpc[th] = "check" /\ tasks # <<>>
  /\ current' = [current EXCEPT ![th] = Head(tasks)]
  /\ tasks' = Tail(tasks)
  /\ tpc' = [tpc EXCEPT ![th] = "run"]
  /\ UNCHANGED <<stop, ended, threw, owed>>

FinishTask(th) ==
  /\ tpc[th] = "run"
  /\ Ends(current[th])
  /\ current' = [current EXCEPT ![th] = None]
  /\ tpc' = [tpc EXCEPT ![th] = "check"]
  /\ UNCHANGED <<tasks, stop, owed>>

PoolThread(th) == th \in PoolThreads /\ (Wait(th) \/ Exit(th) \/ TakeTask(th) \/ FinishTask(th))

-----------------------------------------------------------------------------
Queued == {tasks[i] : i \in 1..Len(tasks)}
RunningTasks == {current[th] : th \in PoolThreads} \ {None}

PoolTypeOK ==
  /\ tasks \in Seq(Tasks) /\ stop \in BOOLEAN /\ owed \in BOOLEAN
  /\ threw \subseteq ended \cap FailingTasks /\ ended \subseteq Tasks
  /\ PoolThreads \in Pools /\ tpc \in [PoolThreads -> {"check", "asleep", "run", "exited"}]
  /\ current \in [PoolThreads -> Tasks \cup {None}]
  /\ \A th \in PoolThreads : tpc[th] = "run" <=> current[th] # None

\* a task is in one place
EachTaskOnce ==
  /\ \A i, j \in 1..Len(tasks) : tasks[i] = tasks[j] => i = j
  /\ \A s, th \in PoolThreads : current[s] = current[th] /\ current[s] # None => s = th
  /\ Queued \cap RunningTasks = {} /\ (Queued \cup RunningTasks) \cap ended = {}
=============================================================================
