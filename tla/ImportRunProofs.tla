---------------------------- MODULE ImportRunProofs ----------------------------
(***************************************************************************)
(* What the import after its term banks guarantees for any number of pool  *)
(* threads, of lists and banks, of entries, passes and ranges, whichever   *)
(* tasks and whichever steps of the importing thread throw.                *)
(*                                                                         *)
(* The pool's own invariant (PoolInv) is kept by its threads and by a      *)
(* submit of a task that is new.  What the importing thread knows of the   *)
(* tasks is stated by its place: what it may have submitted (Begun), what  *)
(* may still be queued or running (Remains), what has ended (DoneByNow)    *)
(* and what it is going to wait for (AwaitedKnown).                        *)
(***************************************************************************)
EXTENDS ImportRun, FiniteSetTheorems, TLAPS

BankPlaces == {"loop", "get", "put"}
EndPlaces == {"stop", "notify_stop", "join", "left", "removed"}
Places == BankPlaces \cup {"media", "sort", "count", "scatter", "index", "write", "bloom",
                           "spawn", "hash_get", "media_get", "json"} \cup EndPlaces

Pending == Queued \cup RunningTasks
Known == Pending \cup ended
Good == ended \ threw

\* A pool without threads never queues anything, a thread exits from a stopped
\* and empty pool, and what is queued has a thread awake or a notification
\* owed: a thread falls asleep under the mutex it saw the queue empty under.
PoolInv ==
  /\ PoolTypeOK /\ EachTaskOnce
  /\ PoolThreads = {} => tasks = <<>> /\ ~owed
  /\ \A th \in PoolThreads : tpc[th] = "exited" => stop /\ tasks = <<>>
  /\ tasks # <<>> => owed \/ \E th \in PoolThreads : tpc[th] \in {"check", "run"}

\* The objects that exist while the importing thread is at a place.
AliveAt(place) ==
  CASE place \in BankPlaces \cup {"media"} -> {"source", "offsets"}
    [] place \in {"sort", "index"} -> {"source", "offsets", "hash_entries"}
    [] place = "count" -> {"source", "offsets", "hash_entries", "temp"}
    [] place = "scatter" -> {"source", "offsets", "hash_entries", "temp", "thread_pos"}
    [] place = "spawn" -> {"source", "hash_entries", "hashes"}
    [] place \in {"write", "bloom", "hash_get", "media_get", "json"} -> {"source", "hash_entries"}
    [] place \in {"stop", "notify_stop", "join"} -> {"source"}
    [] place \in {"left", "removed"} -> {}

\* Where the importing thread is and what it has in scope there.
Positions ==
  /\ mpc \in Places /\ pass \in 0..Passes /\ part \in Nat /\ failed \in BOOLEAN
  /\ alive = AliveAt(mpc)
  /\ failed => mpc \in EndPlaces
  /\ mpc \in BankPlaces \cup {"media", "sort"} => pass = 0
  /\ mpc \in {"count", "scatter"} => pass \in 1..Passes
  /\ mpc = "spawn" => part \in 1..ranges
  /\ pass # 0 => Len(out) = N

\* The destructor of the pool stops it, wakes everybody, and joins.
Stopping ==
  /\ stop <=> mpc \in {"notify_stop", "join", "left", "removed"}
  /\ mpc \in {"join", "left", "removed"} => \A th \in PoolThreads : tpc[th] # "asleep"
  /\ mpc \in {"left", "removed"} => \A th \in PoolThreads : tpc[th] = "exited"

\* The banks submitted are those written and, after them, those in the window.
WindowShape ==
  /\ list \in 1..Lists /\ next \in 0..N /\ next <= UptoList[list]
  /\ window \in Seq(0..(N - 1)) /\ out \in Seq(0..(N - 1))
  /\ Len(out) + Len(window) = next
  /\ \A i \in 1..Len(out) : out[i] = i - 1
  /\ \A i \in 1..Len(window) : window[i] = Len(out) + i - 1
  /\ Len(window) <= max_threads
  /\ mpc = "loop" => Len(window) < max_threads
  /\ mpc \in {"get", "put"} => window # <<>>
  /\ mpc \notin BankPlaces /\ ~failed => Len(out) = N

\* A task the importing thread may have submitted.
Begun(task) ==
  \/ \E i \in 0..(next - 1) : task = bank(i)
  \/ task = media /\ mpc \notin BankPlaces \cup {"media"}
  \/ \E p \in 1..pass : \E t \in Parts :
       task = count(p, t) /\ (mpc = "count" /\ p = pass => t < part)
  \/ \E p \in 1..pass : \E t \in Parts :
       task = scatter(p, t) /\ (mpc = "count" => p < pass) /\ (mpc = "scatter" /\ p = pass => t < part)
  \/ task = hash /\ mpc \notin BankPlaces \cup {"media", "sort", "count", "scatter", "index"}
  \/ \E r \in 1..(ranges - 1) :
       /\ task = range(r) /\ (mpc = "spawn" => r < part)
       /\ mpc \notin BankPlaces \cup {"media", "sort", "count", "scatter", "index", "write", "bloom"}

\* A task that may still be queued or running.
Remains(task) ==
  \/ \E i \in Len(out)..(next - 1) : task = bank(i)
  \/ task = media
  \/ \E t \in Parts : task = count(pass, t) /\ (mpc = "count" \/ failed)
  \/ \E t \in Parts : task = scatter(pass, t) /\ (mpc = "scatter" \/ failed)
  \/ task = hash /\ (mpc \in {"write", "bloom", "spawn", "hash_get"} \/ failed)
  \/ \E r \in 1..(ranges - 1) : task = range(r) /\ (mpc = "spawn" \/ failed)

\* The importing thread has taken its results so far from tasks that ended.
DoneByNow ==
  /\ \A i \in 0..(Len(out) - 1) : bank(i) \in Good
  /\ mpc = "put" => bank(Len(out)) \in Good
  /\ mpc \in {"media_get", "json"} \/ (mpc \in EndPlaces /\ ~failed) => hash \in Good
  /\ mpc = "json" \/ (mpc \in EndPlaces /\ ~failed) => media \in Good
  /\ mpc \in {"hash_get", "media_get", "json"} \/ (mpc \in EndPlaces /\ ~failed) =>
       \A r \in 1..(ranges - 1) : range(r) \in ended

\* What the importing thread waits for here, or will have to wait for.
Awaited ==
  {bank(i) : i \in Len(out)..(next - 1)}
  \cup (IF mpc \notin BankPlaces \cup {"media"} THEN {media} ELSE {})
  \cup (IF mpc = "count" THEN {count(pass, t) : t \in {u \in Parts : u < part}} ELSE {})
  \cup (IF mpc = "scatter" THEN {scatter(pass, t) : t \in {u \in Parts : u < part}} ELSE {})
  \cup (IF mpc \in {"write", "bloom", "spawn", "hash_get"} THEN {hash} ELSE {})
  \cup (IF mpc = "spawn" THEN {range(r) : r \in 1..(part - 1)} ELSE {})
AwaitedKnown == mpc \in EndPlaces \/ Awaited \subseteq Known

MainInv ==
  /\ Positions /\ Stopping /\ WindowShape
  /\ \A task \in Known : Begun(task)
  /\ \A task \in Pending : Remains(task)
  /\ DoneByNow /\ AwaitedKnown

IInv == PoolInv /\ MainInv

-----------------------------------------------------------------------------
(* The pool.                                                               *)

\* What a step of the pool may do to the tasks: they move on, and a result
\* that is there stays.
Onward ==
  /\ Pending' \subseteq Pending /\ Known' = Known
  /\ ended \subseteq ended' /\ Good \subseteq Good'
  /\ PoolThreads' = PoolThreads

LEMMA HeadAndTail ==
  ASSUME NEW S, NEW s \in Seq(S), s # <<>>
  PROVE  /\ Len(s) \in Nat \ {0} /\ Head(s) = s[1] /\ Head(s) \in S /\ Tail(s) \in Seq(S)
         /\ Len(Tail(s)) = Len(s) - 1
         /\ \A i \in 1..(Len(s) - 1) : Tail(s)[i] = s[i + 1]
OBVIOUS

LEMMA Appended ==
  ASSUME NEW S, NEW s \in Seq(S), NEW x \in S
  PROVE  /\ Append(s, x) \in Seq(S) /\ Len(Append(s, x)) = Len(s) + 1 /\ Len(s) \in Nat
         /\ \A i \in 1..Len(s) : Append(s, x)[i] = s[i]
         /\ Append(s, x)[Len(s) + 1] = x
OBVIOUS

\* A thread falls asleep or leaves.
LEMMA WaitKeeps ==
  ASSUME PoolInv, NEW th \in PoolThreads, Wait(th) \/ Exit(th)
  PROVE  PoolInv' /\ Onward /\ UNCHANGED <<tasks, stop, current, ended, threw, owed>>
<1>1. /\ tasks = <<>> /\ UNCHANGED <<tasks, stop, current, ended, threw, owed>>
      /\ tpc[th] = "check" /\ PoolThreads' = PoolThreads
      /\ \E pc \in {"asleep", "exited"} : tpc' = [tpc EXCEPT ![th] = pc] /\ (pc = "exited" => stop)
  BY DEF Wait, Exit, PoolThreads
<1>2. PoolTypeOK'
  BY <1>1 DEF PoolInv, PoolTypeOK
<1>3. EachTaskOnce'
  BY <1>1 DEF PoolInv, EachTaskOnce, Queued, RunningTasks
<1>4. Onward
  BY <1>1 DEF Onward, Pending, Known, Good, Queued, RunningTasks
<1>5. \A t \in PoolThreads : tpc'[t] = "exited" => t = th \/ tpc[t] = "exited"
  BY <1>1 DEF PoolInv, PoolTypeOK
<1>6. tpc'[th] = "exited" => stop
  BY <1>1 DEF PoolInv, PoolTypeOK
<1> QED
  BY <1>1, <1>2, <1>3, <1>4, <1>5, <1>6 DEF PoolInv

LEMMA TakeKeeps ==
  ASSUME PoolInv, NEW th \in PoolThreads, TakeTask(th)
  PROVE  PoolInv' /\ Onward
<1> DEFINE first == tasks[1]
<1>1. /\ tpc[th] = "check" /\ tasks # <<>> /\ PoolThreads' = PoolThreads
      /\ tasks' = Tail(tasks) /\ UNCHANGED <<stop, ended, threw, owed>>
      /\ tpc' = [tpc EXCEPT ![th] = "run"] /\ current' = [current EXCEPT ![th] = Head(tasks)]
  BY DEF TakeTask, PoolThreads
<1>2. /\ tasks \in Seq(Tasks) /\ first \in Tasks /\ first # None /\ Len(tasks) \in Nat \ {0}
      /\ tasks' \in Seq(Tasks) /\ Len(tasks') = Len(tasks) - 1 /\ current' = [current EXCEPT ![th] = first]
      /\ \A i \in 1..(Len(tasks) - 1) : tasks'[i] = tasks[i + 1]
  BY <1>1, HeadAndTail, PoolAssumption DEF PoolInv, PoolTypeOK
<1> HIDE DEF first
<1>3. current[th] = None /\ current'[th] = first /\ \A t \in PoolThreads \ {th} : current'[t] = current[t]
  BY <1>1, <1>2 DEF PoolInv, PoolTypeOK
<1>4. Queued = Queued' \cup {first} /\ first \notin Queued'
  <2>1. ASSUME NEW i \in 1..Len(tasks'), tasks'[i] = first PROVE FALSE
    <3>1. i + 1 \in 1..Len(tasks) /\ i + 1 # 1 /\ tasks[i + 1] = tasks[1] /\ 1 \in 1..Len(tasks)
      BY <2>1, <1>2 DEF first
    <3> QED
      BY <3>1 DEF PoolInv, EachTaskOnce
  <2>2. ASSUME NEW i \in 1..Len(tasks) PROVE tasks[i] = first \/ \E j \in 1..Len(tasks') : tasks[i] = tasks'[j]
    <3>1. CASE i = 1
      BY <3>1 DEF first
    <3>2. CASE i # 1
      <4>1. i - 1 \in 1..(Len(tasks) - 1) /\ (i - 1) + 1 = i
        BY <3>2, <1>2
      <4> QED
        BY <4>1, <1>2
    <3> QED
      BY <3>1, <3>2
  <2>3. ASSUME NEW i \in 1..Len(tasks') PROVE \E j \in 1..Len(tasks) : tasks'[i] = tasks[j]
    BY <1>2
  <2>4. 1 \in 1..Len(tasks)
    BY <1>2
  <2>5. Queued' = {tasks'[i] : i \in 1..Len(tasks')} /\ Queued = {tasks[i] : i \in 1..Len(tasks)}
    BY DEF Queued
  <2>6. first \notin Queued' /\ first \in Queued
    BY <2>1, <2>4, <2>5 DEF first
  <2>7. Queued' \subseteq Queued
    BY <2>3, <2>5
  <2>8. Queued \subseteq Queued' \cup {first}
    BY <2>2, <2>5
  <2> QED
    BY <2>6, <2>7, <2>8
<1>5. RunningTasks' = RunningTasks \cup {first}
  BY <1>1, <1>2, <1>3 DEF RunningTasks
<1>6. PoolTypeOK'
  BY <1>1, <1>2, <1>3 DEF PoolInv, PoolTypeOK
<1>7. EachTaskOnce'
  <2>1. \A i, j \in 1..Len(tasks') : tasks'[i] = tasks'[j] => i = j
    BY <1>2 DEF PoolInv, EachTaskOnce
  <2>2. \A s, t \in PoolThreads : current'[s] = current'[t] /\ current'[s] # None => s = t
    <3>1. \A t \in PoolThreads : current[t] # first
      BY <1>2, <1>4 DEF PoolInv, EachTaskOnce, RunningTasks
    <3> QED
      BY <1>3, <3>1 DEF PoolInv, EachTaskOnce
  <2>3. Queued' \cap RunningTasks' = {} /\ (Queued' \cup RunningTasks') \cap ended' = {}
    BY <1>1, <1>4, <1>5 DEF PoolInv, EachTaskOnce
  <2> QED
    BY <2>1, <2>2, <2>3, <1>1 DEF EachTaskOnce
<1>8. Onward
  BY <1>1, <1>4, <1>5 DEF Onward, Pending, Known, Good
<1>9. tpc'[th] = "run" /\ \A t \in PoolThreads : tpc'[t] = "exited" => tpc[t] = "exited"
  BY <1>1 DEF PoolInv, PoolTypeOK
<1> QED
  BY <1>1, <1>6, <1>7, <1>8, <1>9 DEF PoolInv

LEMMA FinishKeeps ==
  ASSUME PoolInv, NEW th \in PoolThreads, FinishTask(th)
  PROVE  PoolInv' /\ Onward
<1> DEFINE task == current[th]
<1>1. /\ tpc[th] = "run" /\ PoolThreads' = PoolThreads /\ UNCHANGED <<tasks, stop, owed>>
      /\ tpc' = [tpc EXCEPT ![th] = "check"] /\ current' = [current EXCEPT ![th] = None]
      /\ ended' = ended \cup {task} /\ threw' \in {threw, threw \cup ({task} \cap FailingTasks)}
  BY DEF FinishTask, Ends, PoolThreads
<1>2. task \in Tasks /\ task # None /\ task \in RunningTasks /\ task \notin ended
  BY <1>1 DEF PoolInv, PoolTypeOK, EachTaskOnce, RunningTasks
<1> HIDE DEF task
<1>3. current'[th] = None /\ \A t \in PoolThreads \ {th} : current'[t] = current[t]
  BY <1>1 DEF PoolInv, PoolTypeOK
<1>4. RunningTasks' = RunningTasks \ {task} /\ Queued' = Queued
  <2>1. \A t \in PoolThreads : current[t] = task => t = th
    BY <1>2 DEF PoolInv, EachTaskOnce, task
  <2> QED
    BY <1>1, <1>3, <2>1 DEF RunningTasks, Queued, task
<1>5. PoolTypeOK'
  BY <1>1, <1>2, <1>3 DEF PoolInv, PoolTypeOK
<1>6. EachTaskOnce'
  <2>1. \A s, t \in PoolThreads : current'[s] = current'[t] /\ current'[s] # None => s = t
    BY <1>3 DEF PoolInv, EachTaskOnce
  <2>2. Queued' \cap RunningTasks' = {} /\ (Queued' \cup RunningTasks') \cap ended' = {}
    BY <1>1, <1>2, <1>4 DEF PoolInv, EachTaskOnce
  <2> QED
    BY <2>1, <2>2, <1>1 DEF PoolInv, EachTaskOnce
<1>7. Onward
  BY <1>1, <1>2, <1>4 DEF Onward, Pending, Known, Good
<1>8. tpc'[th] = "check" /\ \A t \in PoolThreads : tpc'[t] = "exited" => tpc[t] = "exited"
  BY <1>1 DEF PoolInv, PoolTypeOK
<1> QED
  BY <1>1, <1>5, <1>6, <1>7, <1>8 DEF PoolInv

\* submit, of a task nobody has submitted, to a pool that is not stopped.
LEMMA SubmitKeeps ==
  ASSUME PoolInv, NEW task \in Tasks \ Known, Submit(task), ~stop
  PROVE  /\ PoolInv' /\ Known' = Known \cup {task} /\ Pending' \subseteq Pending \cup {task}
         /\ ended \subseteq ended' /\ Good \subseteq Good' /\ PoolThreads' = PoolThreads
         /\ UNCHANGED <<stop, tpc>>
<1>1. task # None
  BY PoolAssumption
<1>2. CASE Push(task)
  <2>1. /\ PoolThreads # {} /\ tasks' = Append(tasks, task) /\ owed' = TRUE /\ PoolThreads' = PoolThreads
        /\ UNCHANGED <<stop, tpc, current, ended, threw>>
    BY <1>2 DEF Push, PoolThreads
  <2>2. /\ tasks' \in Seq(Tasks) /\ Len(tasks') = Len(tasks) + 1 /\ Len(tasks) \in Nat
        /\ \A i \in 1..Len(tasks) : tasks'[i] = tasks[i]
        /\ tasks'[Len(tasks) + 1] = task
    BY <2>1, Appended DEF PoolInv, PoolTypeOK
  <2>3. \A i \in 1..Len(tasks') : i \in 1..Len(tasks) \/ i = Len(tasks) + 1
    BY <2>2
  <2>4. Queued' = Queued \cup {task} /\ RunningTasks' = RunningTasks
    <3>1. \A i \in 1..Len(tasks) : i \in 1..Len(tasks')
      BY <2>2
    <3>2. Len(tasks) + 1 \in 1..Len(tasks')
      BY <2>2
    <3> QED
      BY <2>1, <2>2, <2>3, <3>1, <3>2 DEF Queued, RunningTasks
  <2>5. task \notin Queued /\ task \notin RunningTasks /\ task \notin ended
    BY DEF Known, Pending
  <2>6. EachTaskOnce'
    <3>1. \A i, j \in 1..Len(tasks') : tasks'[i] = tasks'[j] => i = j
      BY <2>2, <2>3, <2>5 DEF PoolInv, EachTaskOnce, Queued
    <3>2. Queued' \cap RunningTasks' = {} /\ (Queued' \cup RunningTasks') \cap ended' = {}
      BY <2>1, <2>4, <2>5 DEF PoolInv, EachTaskOnce
    <3> QED
      BY <2>1, <3>1, <3>2 DEF PoolInv, EachTaskOnce
  <2>7. PoolTypeOK'
    BY <2>1, <2>2 DEF PoolInv, PoolTypeOK
  <2> QED
    BY <2>1, <2>4, <2>6, <2>7 DEF PoolInv, Known, Pending, Good
<1>3. CASE RunInline(task)
  <2>1. /\ PoolThreads = {} /\ UNCHANGED <<tasks, stop, tpc, current, owed>> /\ PoolThreads' = PoolThreads
        /\ ended' = ended \cup {task} /\ threw' \in {threw, threw \cup ({task} \cap FailingTasks)}
    BY <1>3 DEF RunInline, Ends, PoolThreads
  <2>2. Queued' = Queued /\ RunningTasks' = RunningTasks
    BY <2>1 DEF Queued, RunningTasks
  <2>3. task \notin Queued /\ task \notin RunningTasks /\ task \notin ended
    BY DEF Known, Pending
  <2>4. EachTaskOnce'
    BY <2>1, <2>2, <2>3 DEF PoolInv, EachTaskOnce
  <2>5. PoolTypeOK'
    BY <2>1 DEF PoolInv, PoolTypeOK
  <2> QED
    BY <2>1, <2>2, <2>3, <2>4, <2>5 DEF PoolInv, PoolTypeOK, Known, Pending, Good
<1> QED
  BY <1>2, <1>3 DEF Submit

\* notify_one after a submit, notify_all in the destructor.
LEMMA NotifyKeeps ==
  ASSUME PoolInv, NotifyOne \/ NotifyAll
  PROVE  /\ PoolInv' /\ Onward /\ stop' = stop
         /\ \A th \in PoolThreads : tpc'[th] = tpc[th] \/ tpc'[th] = "check"
         /\ \A th \in PoolThreads : tpc[th] = "exited" => tpc'[th] = "exited"
         /\ NotifyAll => \A th \in PoolThreads : tpc'[th] # "asleep"
<1>1. UNCHANGED <<tasks, stop, current, ended, threw>> /\ PoolThreads' = PoolThreads
  BY DEF NotifyOne, NotifyAll, PoolThreads, Asleep, PoolInv, PoolTypeOK
<1>2. /\ tpc' \in [PoolThreads -> {"check", "asleep", "run", "exited"}]
      /\ \A th \in PoolThreads : tpc'[th] = tpc[th] \/ (tpc[th] = "asleep" /\ tpc'[th] = "check")
  <2>1. tpc \in [PoolThreads -> {"check", "asleep", "run", "exited"}]
    BY DEF PoolInv, PoolTypeOK
  <2>2. CASE NotifyAll
    <3>1. tpc' = [th \in PoolThreads |-> IF tpc[th] = "asleep" THEN "check" ELSE tpc[th]]
      BY <2>2 DEF NotifyAll, Asleep
    <3> QED
      BY <2>1, <3>1
  <2>3. CASE NotifyOne /\ tpc' # tpc
    <3>1. PICK th \in PoolThreads : tpc[th] = "asleep" /\ tpc' = [tpc EXCEPT ![th] = "check"]
      BY <2>3 DEF NotifyOne, Asleep
    <3>2. tpc'[th] = "check" /\ \A t \in PoolThreads \ {th} : tpc'[t] = tpc[t]
      BY <2>1, <3>1
    <3> QED
      BY <2>1, <3>1, <3>2
  <2> QED
    BY <2>1, <2>2, <2>3
<1>3. owed' \in BOOLEAN /\ (PoolThreads = {} => ~owed')
  <2>1. owed' = owed \/ owed' = FALSE
    BY DEF NotifyOne, NotifyAll
  <2>2. owed \in BOOLEAN /\ (PoolThreads = {} => ~owed)
    BY DEF PoolInv, PoolTypeOK
  <2>3. CASE owed' = owed
    BY <2>2, <2>3
  <2>4. CASE owed' = FALSE
    BY <2>4
  <2> QED
    BY <2>1, <2>3, <2>4
<1>4. PoolTypeOK'
  BY <1>1, <1>2, <1>3 DEF PoolInv, PoolTypeOK
<1>5. EachTaskOnce' /\ Onward
  BY <1>1 DEF PoolInv, EachTaskOnce, Onward, Pending, Known, Good, Queued, RunningTasks
<1>6. tasks # <<>> => owed' \/ \E th \in PoolThreads : tpc'[th] \in {"check", "run"}
  <2>1. CASE NotifyAll
    BY <2>1, <1>2 DEF NotifyAll, PoolInv
  <2>2. CASE NotifyOne /\ Asleep # {}
    BY <2>2 DEF NotifyOne, Asleep, PoolInv, PoolTypeOK
  <2>3. CASE NotifyOne /\ Asleep = {} /\ tasks # <<>>
    <3>1. PICK th \in PoolThreads : TRUE
      BY <2>3 DEF PoolInv
    <3>2. tpc[th] # "asleep" /\ tpc[th] # "exited" /\ tpc' = tpc
      BY <2>3 DEF PoolInv, Asleep, NotifyOne
    <3> QED
      BY <3>2 DEF PoolInv, PoolTypeOK
  <2> QED
    BY <2>1, <2>2, <2>3
<1>7. NotifyAll => \A th \in PoolThreads : tpc'[th] # "asleep"
  BY DEF NotifyAll, Asleep
<1> QED
  BY <1>1, <1>2, <1>3, <1>4, <1>5, <1>6, <1>7 DEF PoolInv
-----------------------------------------------------------------------------
(* The importing thread: constants and shapes.                             *)

\* The names of different tasks are different.
LEMMA Shapes ==
  /\ \A i, j : bank(i) = bank(j) => i = j
  /\ \A p, t, q, u : count(p, t) = count(q, u) => p = q /\ t = u
  /\ \A p, t, q, u : scatter(p, t) = scatter(q, u) => p = q /\ t = u
  /\ \A r, q : range(r) = range(q) => r = q
  /\ media # hash
  /\ \A i : bank(i) # media /\ bank(i) # hash
  /\ \A p, t : count(p, t) # media /\ count(p, t) # hash
  /\ \A p, t : scatter(p, t) # media /\ scatter(p, t) # hash
  /\ \A r : range(r) # media /\ range(r) # hash
  /\ \A i, p, t : bank(i) # count(p, t) /\ bank(i) # scatter(p, t)
  /\ \A i, r : bank(i) # range(r)
  /\ \A p, t, q, u : count(p, t) # scatter(q, u)
  /\ \A p, t, r : count(p, t) # range(r) /\ scatter(p, t) # range(r)
BY DEF bank, count, scatter, range, media, hash

LEMMA BankNumbers ==
  /\ N \in Nat /\ Lists \in Nat \ {0}
  /\ \A l \in 1..Lists : UptoList[l] \in Nat /\ UptoList[l] <= N
  /\ \A l \in 1..Lists : l < Lists => l + 1 \in 1..Lists /\ UptoList[l] <= UptoList[l + 1]
  /\ \A i \in 0..(N - 1) : bank(i) \in Tasks
BY WindowAssumption DEF N

\* What is computed from the number of threads.
LEMMA Sizes ==
  ASSUME PoolThreads \in Pools
  PROVE  /\ IsFiniteSet(PoolThreads) /\ Cardinality(PoolThreads) \in Nat
         /\ (PoolThreads # {} => Cardinality(PoolThreads) >= 1)
         /\ max_threads \in Nat \ {0} /\ ranges \in 1..Ranges
         /\ sort_threads \in Nat \ {0} /\ num_threads \in 1..8 /\ num_threads <= sort_threads
         /\ Parts \in SUBSET (0..7)
<1>1. IsFiniteSet(PoolThreads)
  BY PoolAssumption
<1>2. Cardinality(PoolThreads) \in Nat /\ (PoolThreads # {} => Cardinality(PoolThreads) # 0)
  BY <1>1, FS_CardinalityType, FS_EmptySet
<1>3. max_threads \in Nat \ {0} /\ sort_threads \in Nat \ {0}
  BY <1>2 DEF max_threads, sort_threads, media_on_pool
<1>4. ranges \in 1..Ranges
  BY <1>2, RunAssumption DEF ranges
<1>5. num_threads \in 1..8 /\ num_threads <= sort_threads
  BY <1>3, RunAssumption DEF num_threads
<1>6. Parts \in SUBSET (0..7)
  BY <1>5 DEF Parts
<1> QED
  BY <1>1, <1>2, <1>3, <1>4, <1>5, <1>6

LEMMA SameSizes ==
  ASSUME PoolThreads' = PoolThreads
  PROVE  max_threads' = max_threads /\ ranges' = ranges /\ Parts' = Parts
<1>1. max_threads' = max_threads /\ ranges' = ranges
  BY DEF max_threads, ranges
<1>2. num_threads' = num_threads
  BY DEF num_threads, sort_threads, media_on_pool
<1>3. Parts' = Parts
  BY <1>2 DEF Parts, chunk
<1> QED
  BY <1>1, <1>3

\* What the proofs below start from.
LEMMA Facts ==
  ASSUME IInv
  PROVE  /\ PoolInv /\ Positions /\ Stopping /\ WindowShape /\ DoneByNow /\ AwaitedKnown
         /\ \A task \in Known : Begun(task)
         /\ \A task \in Pending : Remains(task)
         /\ Pending \cap ended = {} /\ Known = Pending \cup ended
         /\ N \in Nat /\ next \in Nat /\ Len(out) \in Nat /\ Len(window) \in Nat
         /\ max_threads \in Nat \ {0} /\ ranges \in 1..Ranges /\ Parts \in SUBSET (0..7)
<1>1. PoolThreads \in Pools /\ Pending \cap ended = {}
  BY DEF IInv, PoolInv, PoolTypeOK, EachTaskOnce, Pending
<1>2. N \in Nat
  BY BankNumbers
<1>3. next \in Nat /\ Len(out) \in Nat /\ Len(window) \in Nat
  BY <1>2 DEF IInv, MainInv, WindowShape
<1> QED
  BY <1>1, <1>2, <1>3, Sizes DEF IInv, MainInv, Known

LEMMA Initially == Init => IInv
<1> SUFFICES ASSUME Init PROVE IInv
  OBVIOUS
<1>1. PICK threads \in Pools : tpc = [th \in threads |-> "check"] /\ current = [th \in threads |-> None]
  BY DEF Init, PoolInit
<1>2. PoolThreads = threads /\ PoolThreads \in Pools
  BY <1>1 DEF PoolThreads
<1>3. tasks = <<>> /\ stop = FALSE /\ ended = {} /\ threw = {} /\ owed = FALSE
  BY DEF Init, PoolInit
<1>4. Queued = {} /\ RunningTasks = {} /\ Known = {} /\ Pending = {}
  BY <1>1, <1>2, <1>3 DEF Queued, RunningTasks, Known, Pending
<1>5. PoolTypeOK
  <2>1. /\ tpc \in [PoolThreads -> {"check", "asleep", "run", "exited"}]
        /\ current \in [PoolThreads -> Tasks \cup {None}]
        /\ \A th \in PoolThreads : tpc[th] = "run" <=> current[th] # None
    BY <1>1, <1>2
  <2>2. stop \in BOOLEAN /\ owed \in BOOLEAN
    BY <1>3
  <2> QED
    BY <1>2, <1>3, <2>1, <2>2, PoolAssumption DEF PoolTypeOK
<1>6. EachTaskOnce
  BY <1>1, <1>2, <1>3, <1>4 DEF EachTaskOnce
<1>7. PoolInv
  BY <1>1, <1>2, <1>3, <1>5, <1>6 DEF PoolInv
<1>8. mpc = "loop" /\ pass = 0 /\ part = 0 /\ alive = {"source", "offsets"} /\ failed = FALSE
  BY DEF Init
<1>9. Positions /\ Stopping
  <2>1. mpc \in Places /\ alive = AliveAt(mpc)
    BY <1>8 DEF Places, BankPlaces, AliveAt
  <2>2. Stopping
    BY <1>3, <1>8 DEF Stopping
  <2>3. failed \in BOOLEAN
    BY <1>8
  <2> QED
    BY <2>1, <2>2, <2>3, <1>8, RunAssumption DEF Positions
<1>10. WindowShape
  <2>1. list = 1 /\ next = 0 /\ window = <<>> /\ out = <<>>
    BY DEF Init, WindowInit
  <2>2. N \in Nat /\ list \in 1..Lists /\ UptoList[list] \in Nat
    BY <2>1, BankNumbers
  <2>3. max_threads \in Nat \ {0}
    BY <1>2, Sizes
  <2> QED
    BY <2>1, <2>2, <2>3, <1>8 DEF WindowShape, BankPlaces
<1>11. DoneByNow /\ AwaitedKnown
  <2>1. next = 0 /\ out = <<>>
    BY DEF Init, WindowInit
  <2> QED
    BY <2>1, <1>8 DEF DoneByNow, AwaitedKnown, Awaited, BankPlaces, EndPlaces
<1> QED
  BY <1>4, <1>7, <1>9, <1>10, <1>11 DEF IInv, MainInv

\* A step of the pool alone: the importing thread's view stays true.
LEMMA OnwardKeeps ==
  ASSUME IInv, PoolInv', Onward, UNCHANGED main, Stopping'
  PROVE  IInv'
<1>1. UNCHANGED <<mpc, list, next, window, out, failed, pass, part, alive>>
  BY DEF main
<1>2. PoolThreads' = PoolThreads /\ Parts' = Parts /\ ranges' = ranges /\ max_threads' = max_threads
  BY SameSizes DEF Onward
<1>3. Positions' /\ WindowShape'
  BY <1>1, <1>2, Facts DEF Positions, WindowShape
<1>4. \A task \in Known' : Begun(task)'
  BY <1>1, <1>2, Facts DEF Begun, Onward
<1>5. \A task \in Pending' : Remains(task)'
  BY <1>1, <1>2, Facts DEF Remains, Onward
<1>6. DoneByNow'
  BY <1>1, <1>2, Facts DEF DoneByNow, Onward
<1>7. AwaitedKnown'
  BY <1>1, <1>2, Facts DEF AwaitedKnown, Awaited, Onward
<1> QED
  BY <1>3, <1>4, <1>5, <1>6, <1>7 DEF IInv, MainInv
LEMMA ThreadKeeps ==
  ASSUME IInv, NEW th \in PoolThreads, Thread(th) PROVE IInv'
<1>1. UNCHANGED main /\ (Wait(th) \/ Exit(th) \/ TakeTask(th) \/ FinishTask(th))
  BY DEF Thread, PoolThread
<1>2. PoolInv' /\ Onward
  BY <1>1, Facts, WaitKeeps, TakeKeeps, FinishKeeps
<1>3. stop' = stop /\ mpc' = mpc
  BY <1>1 DEF main, Wait, Exit, TakeTask, FinishTask
<1>4. \A t \in PoolThreads : tpc[t] = "exited" => tpc'[t] = "exited"
  BY <1>1, Facts DEF Wait, Exit, TakeTask, FinishTask, PoolInv, PoolTypeOK
<1>5. ASSUME stop PROVE \A t \in PoolThreads : tpc'[t] = "asleep" => tpc[t] = "asleep"
  BY <1>1, <1>5, Facts DEF Wait, Exit, TakeTask, FinishTask, PoolInv, PoolTypeOK
<1>6. Stopping'
  BY <1>2, <1>3, <1>4, <1>5, Facts DEF Stopping, Onward
<1> QED
  BY <1>1, <1>2, <1>6, OnwardKeeps

LEMMA SubmitNotifiesKeeps ==
  ASSUME IInv, SubmitNotifies PROVE IInv'
<1>1. UNCHANGED main /\ NotifyOne
  BY DEF SubmitNotifies
<1>2. /\ PoolInv' /\ Onward /\ stop' = stop /\ mpc' = mpc
      /\ \A th \in PoolThreads : tpc'[th] = tpc[th] \/ tpc'[th] = "check"
      /\ \A th \in PoolThreads : tpc[th] = "exited" => tpc'[th] = "exited"
  BY <1>1, Facts, NotifyKeeps DEF main
<1>3. Stopping'
  BY <1>2, Facts DEF Stopping, Onward
<1> QED
  BY <1>1, <1>2, <1>3, OnwardKeeps

-----------------------------------------------------------------------------
(* Leaving: an exception unwinds, the pool's destructor runs.              *)

\* A step of the importing thread that leaves the pool and the banks alone.
LEMMA PoolStays ==
  ASSUME IInv, UNCHANGED pool
  PROVE  /\ PoolInv' /\ Known' = Known /\ Pending' = Pending /\ ended' = ended /\ Good' = Good
         /\ PoolThreads' = PoolThreads /\ Parts' = Parts /\ ranges' = ranges /\ max_threads' = max_threads
         /\ stop' = stop /\ tpc' = tpc
<1>1. UNCHANGED <<tasks, stop, tpc, current, ended, threw, owed>> /\ PoolThreads' = PoolThreads
  BY DEF pool, PoolThreads
<1>2. Queued' = Queued /\ RunningTasks' = RunningTasks
  BY <1>1 DEF Queued, RunningTasks
<1>3. PoolTypeOK' /\ EachTaskOnce'
  BY <1>1, <1>2, Facts DEF PoolInv, PoolTypeOK, EachTaskOnce
<1>4. PoolInv'
  BY <1>1, <1>3, Facts DEF PoolInv
<1> QED
  BY <1>1, <1>2, <1>4, SameSizes DEF Known, Pending, Good

LEMMA WindowStays ==
  ASSUME IInv, UNCHANGED windows, PoolThreads' = PoolThreads,
         mpc \notin BankPlaces /\ mpc' \notin BankPlaces /\ (failed => failed')
  PROVE  WindowShape'
BY Facts, SameSizes DEF WindowShape, windows, BankPlaces

\* What every exception leaves behind: the stack is unwound, the windows, the
\* pass and the part stay as they were.
LEMMA UnwindKeeps ==
  ASSUME IInv, UNCHANGED <<pool, windows, pass, part>>, mpc' = "stop", failed' = TRUE, alive' = {"source"},
         mpc \notin EndPlaces
  PROVE  IInv'
<1>1. UNCHANGED <<list, next, window, out>>
  BY DEF windows
<1>2. Positions'
  BY <1>1, Facts DEF Positions, Places, EndPlaces, BankPlaces, AliveAt
<1>3. Stopping'
  BY Facts, PoolStays DEF Stopping, EndPlaces
<1>4. WindowShape'
  BY <1>1, Facts, PoolStays DEF WindowShape, BankPlaces
<1>5. \A task \in Known' : Begun(task)'
  BY <1>1, Facts, PoolStays DEF Begun, BankPlaces
<1>6. \A task \in Pending' : Remains(task)'
  BY <1>1, Facts, PoolStays DEF Remains, EndPlaces
<1>7. DoneByNow' /\ AwaitedKnown'
  BY <1>1, Facts, PoolStays DEF DoneByNow, AwaitedKnown, EndPlaces
<1> QED
  BY <1>2, <1>3, <1>4, <1>5, <1>6, <1>7, PoolStays DEF IInv, MainInv

\* The same with a task more: one of a loop that was queued before the throw.
LEMMA UnwindSubmitKeeps ==
  ASSUME IInv, NEW task \in Tasks \ Known, Submit(task), UNCHANGED <<windows, pass, part>>,
         mpc' = "stop", failed' = TRUE, alive' = {"source"},
         mpc \in {"count", "scatter", "spawn"}, Begun(task)', Remains(task)'
  PROVE  IInv'
<1>1. UNCHANGED <<list, next, window, out>> /\ ~stop /\ ~failed
  BY Facts DEF windows, Stopping, Positions, EndPlaces
<1>2. /\ PoolInv' /\ Known' = Known \cup {task} /\ Pending' \subseteq Pending \cup {task}
      /\ Good \subseteq Good' /\ PoolThreads' = PoolThreads /\ stop' = stop
  BY <1>1, Facts, SubmitKeeps
<1>3. Parts' = Parts /\ ranges' = ranges
  BY <1>2, SameSizes
<1>4. Positions'
  BY <1>1, Facts DEF Positions, Places, EndPlaces, BankPlaces, AliveAt
<1>5. Stopping'
  BY <1>1, <1>2 DEF Stopping
<1>6. WindowShape'
  BY <1>1, <1>2, WindowStays DEF BankPlaces
<1>7. \A t \in Known' : Begun(t)'
  <2>1. \A t \in Known : Begun(t)'
    BY <1>1, <1>3, Facts DEF Begun, BankPlaces
  <2> QED
    BY <1>2, <2>1
<1>8. \A t \in Pending' : Remains(t)'
  <2>1. \A t \in Pending : Remains(t)'
    BY <1>1, <1>3, Facts DEF Remains
  <2> QED
    BY <1>2, <2>1
<1>9. DoneByNow' /\ AwaitedKnown'
  BY <1>1, <1>2, Facts DEF DoneByNow, AwaitedKnown, EndPlaces
<1> QED
  BY <1>2, <1>4, <1>5, <1>6, <1>7, <1>8, <1>9 DEF IInv, MainInv

LEMMA ThrowsKeep ==
  ASSUME IInv, \/ GetThrows /\ Banks
               \/ WriteThrows /\ Banks
               \/ ListsThrow \/ MemoryThrows \/ WriteIndexThrows \/ BloomThrows \/ HashGetThrows \/ MediaGetThrows
               \/ WriteJsonThrows
  PROVE  IInv'
<1>1. CASE \/ ListsThrow \/ MemoryThrows \/ WriteIndexThrows \/ BloomThrows \/ HashGetThrows \/ MediaGetThrows
           \/ WriteJsonThrows
  BY <1>1, UnwindKeeps DEF ListsThrow, MemoryThrows, WriteIndexThrows, BloomThrows, HashGetThrows, MediaGetThrows,
     WriteJsonThrows, Throw, Unwind, GoTo, At, Counted, EndPlaces
<1>2. CASE (GetThrows \/ WriteThrows) /\ Banks
  BY <1>2, UnwindKeeps DEF GetThrows, WriteThrows, Banks, GoTo, At, EndPlaces
<1> QED
  BY <1>1, <1>2

\* A place of the destructor or after it follows another.
LEMMA EndStays ==
  ASSUME IInv, UNCHANGED <<windows, pass, part, failed>>, Onward, PoolInv', Stopping',
         mpc \in EndPlaces, mpc' \in EndPlaces \ {"stop"}, alive' = AliveAt(mpc')
  PROVE  IInv'
<1>1. UNCHANGED <<list, next, window, out>>
  BY DEF windows
<1>2. /\ PoolThreads' = PoolThreads /\ Parts' = Parts /\ ranges' = ranges /\ max_threads' = max_threads
  BY SameSizes DEF Onward
<1>3. Positions'
  BY <1>1, Facts, <1>2 DEF Positions, Places, EndPlaces, BankPlaces
<1>4. WindowShape'
  BY <1>2, WindowStays DEF EndPlaces, BankPlaces
<1>5. \A task \in Known' : Begun(task)'
  BY <1>1, <1>2, Facts DEF Begun, Onward, BankPlaces, EndPlaces
<1>6. \A task \in Pending' : Remains(task)'
  BY <1>1, <1>2, Facts DEF Remains, Onward, EndPlaces
<1>7. DoneByNow' /\ AwaitedKnown'
  BY <1>1, <1>2, Facts DEF DoneByNow, AwaitedKnown, Onward, EndPlaces
<1> QED
  BY <1>3, <1>4, <1>5, <1>6, <1>7 DEF IInv, MainInv

LEMMA DestructorKeeps ==
  ASSUME IInv, StopPool \/ NotifyStop \/ JoinPool \/ RemoveAll PROVE IInv'
<1>1. CASE StopPool
  <2>1. /\ mpc = "stop" /\ mpc' = "notify_stop" /\ stop' = TRUE /\ ~stop
        /\ UNCHANGED <<tasks, tpc, current, ended, threw, owed, windows, pass, part, alive, failed>>
    BY <1>1, Facts DEF StopPool, At, Stop, GoTo, Stopping
  <2>2. PoolThreads' = PoolThreads /\ Queued' = Queued /\ RunningTasks' = RunningTasks
    BY <2>1 DEF PoolThreads, Queued, RunningTasks
  <2>3. PoolTypeOK' /\ EachTaskOnce'
    BY <2>1, <2>2, Facts DEF PoolInv, PoolTypeOK, EachTaskOnce
  <2>4. PoolInv' /\ Onward
    BY <2>1, <2>2, <2>3, Facts DEF PoolInv, Onward, Known, Pending, Good
  <2>5. Stopping' /\ alive' = AliveAt(mpc')
    BY <2>1, <2>2, Facts DEF Stopping, Positions, AliveAt, BankPlaces
  <2> QED
    BY <2>1, <2>4, <2>5, EndStays DEF EndPlaces
<1>2. CASE NotifyStop
  <2>1. mpc = "notify_stop" /\ mpc' = "join" /\ NotifyAll /\ UNCHANGED <<windows, pass, part, alive, failed>>
    BY <1>2 DEF NotifyStop, At, GoTo
  <2>2. PoolInv' /\ Onward /\ stop' = stop /\ \A th \in PoolThreads : tpc'[th] # "asleep"
    BY <2>1, Facts, NotifyKeeps
  <2>3. Stopping' /\ alive' = AliveAt(mpc')
    BY <2>1, <2>2, Facts DEF Stopping, Positions, AliveAt, BankPlaces, Onward
  <2> QED
    BY <2>1, <2>2, <2>3, EndStays DEF EndPlaces
<1>3. CASE JoinPool
  <2>1. /\ mpc = "join" /\ mpc' = "left" /\ alive' = {} /\ UNCHANGED <<pool, windows, pass, part, failed>>
        /\ \A th \in PoolThreads : tpc[th] = "exited"
    BY <1>3 DEF JoinPool, At, GoTo, Joined
  <2>2. Stopping' /\ alive' = AliveAt(mpc')
    BY <2>1, Facts, PoolStays DEF Stopping, AliveAt, BankPlaces
  <2>3. PoolInv' /\ Onward
    BY <2>1, PoolStays DEF Onward
  <2> QED
    BY <2>1, <2>2, <2>3, EndStays DEF EndPlaces
<1>4. CASE RemoveAll
  <2>1. mpc = "left" /\ mpc' = "removed" /\ UNCHANGED <<pool, windows, pass, part, alive, failed>>
    BY <1>4 DEF RemoveAll, At, GoTo
  <2>2. Stopping' /\ alive' = AliveAt(mpc')
    BY <2>1, Facts, PoolStays DEF Stopping, Positions, AliveAt, BankPlaces
  <2>3. PoolInv' /\ Onward
    BY <2>1, PoolStays DEF Onward
  <2> QED
    BY <2>1, <2>2, <2>3, EndStays DEF EndPlaces
<1> QED
  BY <1>1, <1>2, <1>3, <1>4

-----------------------------------------------------------------------------
(* The windows of banks.                                                   *)

LEMMA SubmitBankKeeps ==
  ASSUME IInv, SubmitBank \/ SubmitBankThrows, EnqueueBank, Banks PROVE IInv'
<1>1. /\ mpc = "loop" /\ next < UptoList[list] /\ Submit(bank(next)) /\ ~failed /\ ~stop
      /\ window' = Append(window, next) /\ next' = next + 1
      /\ \/ mpc' = AfterSubmit(Len(window) + 1) /\ failed' = FALSE /\ alive' = alive
         \/ mpc' = "stop" /\ failed' = TRUE /\ alive' = {"source"}
      /\ UNCHANGED <<list, out, pass, part>>
  BY Facts DEF SubmitBank, SubmitBankThrows, EnqueueBank, Banks, At, GoTo, Positions, Stopping, EndPlaces, AliveAt,
     BankPlaces
<1>2. next \in 0..(N - 1) /\ list \in 1..Lists /\ UptoList[list] <= N
  BY <1>1, Facts, BankNumbers DEF WindowShape
<1>3. bank(next) \in Tasks \ Known
  <2>1. ~Begun(bank(next))
    BY <1>1, <1>2, Shapes DEF Begun, BankPlaces
  <2> QED
    BY <2>1, <1>2, Facts, BankNumbers
<1>4. /\ PoolInv' /\ Known' = Known \cup {bank(next)} /\ Pending' \subseteq Pending \cup {bank(next)}
      /\ ended \subseteq ended' /\ Good \subseteq Good' /\ PoolThreads' = PoolThreads
      /\ stop' = stop /\ tpc' = tpc
  BY <1>1, <1>3, Facts, SubmitKeeps
<1>5. Parts' = Parts /\ ranges' = ranges /\ max_threads' = max_threads
  BY <1>4, SameSizes
<1>6. /\ (mpc' \in {"loop", "get"} /\ ~failed') \/ (mpc' = "stop" /\ failed')
      /\ mpc' = "loop" => Len(window) + 1 # max_threads
  BY <1>1 DEF AfterSubmit
<1>7. Positions' /\ Stopping'
  BY <1>1, <1>4, <1>5, <1>6, Facts DEF Positions, Stopping, Places, BankPlaces, EndPlaces, AliveAt
<1>8. WindowShape'
  <2>1. /\ window' \in Seq(0..(N - 1)) /\ Len(window') = Len(window) + 1
        /\ \A i \in 1..Len(window) : window'[i] = window[i]
        /\ window'[Len(window) + 1] = next
    BY <1>1, <1>2, Facts, Appended DEF WindowShape
  <2>2. \A i \in 1..Len(window') : i \in 1..Len(window) \/ i = Len(window) + 1
    BY <2>1, Facts
  <2>3. \A i \in 1..Len(window') : window'[i] = Len(out) + i - 1
    <3>1. next = Len(out) + (Len(window) + 1) - 1
      BY Facts DEF WindowShape
    <3> QED
      BY <2>1, <2>2, <3>1, Facts DEF WindowShape
  <2>4. window' # <<>> /\ Len(window') <= max_threads /\ (mpc' = "loop" => Len(window') < max_threads)
    <3>1. Len(window) < max_threads /\ Len(window) \in Nat /\ max_threads \in Nat
      BY <1>1, Facts DEF WindowShape
    <3>2. Len(window') <= max_threads /\ Len(window') # 0
      BY <2>1, <3>1
    <3>3. mpc' = "loop" => Len(window') < max_threads
      BY <2>1, <3>1, <1>6
    <3> QED
      BY <3>2, <3>3
  <2>5. next' \in 0..N /\ next' <= UptoList[list] /\ Len(out) + Len(window') = next'
    BY <1>1, <1>2, <2>1, Facts, BankNumbers DEF WindowShape
  <2> QED
    BY <1>1, <1>5, <1>6, <2>1, <2>3, <2>4, <2>5, Facts DEF WindowShape, BankPlaces
<1>9. \A task \in Known' : Begun(task)'
  <2>1. \A i \in 0..(next - 1) : i \in 0..(next' - 1)
    BY <1>1, Facts
  <2>2. next \in 0..(next' - 1)
    BY <1>1, Facts
  <2>3. \A task \in Known : Begun(task)'
    BY <2>1, <1>1, <1>5, <1>6, Facts DEF Begun, BankPlaces
  <2>4. \A task : task = bank(next) => Begun(task)'
    BY <2>2 DEF Begun
  <2> QED
    BY <2>3, <2>4, <1>4
<1>10. \A task \in Pending' : Remains(task)'
  <2>1. \A i \in Len(out)..(next - 1) : i \in Len(out)..(next' - 1)
    BY <1>1, Facts
  <2>2. next \in Len(out)..(next' - 1)
    BY <1>1, Facts DEF WindowShape
  <2>3. \A task \in Pending : Remains(task)'
    BY <2>1, <1>1, <1>5, <1>6, Facts DEF Remains, BankPlaces
  <2>4. \A task : task = bank(next) => Remains(task)'
    BY <2>2, <1>1 DEF Remains
  <2> QED
    BY <2>3, <2>4, <1>4
<1>11. DoneByNow'
  BY <1>1, <1>4, <1>5, <1>6, Facts DEF DoneByNow, EndPlaces
<1>12. AwaitedKnown'
  <2>1. \A i \in Len(out)..(next' - 1) : i \in Len(out)..(next - 1) \/ i = next
    BY <1>1, Facts
  <2> QED
    BY <2>1, <1>1, <1>4, <1>6, Facts DEF AwaitedKnown, Awaited, BankPlaces, EndPlaces
<1> QED
  BY <1>4, <1>7, <1>8, <1>9, <1>10, <1>11, <1>12 DEF IInv, MainInv

\* The loop goes on to get, get goes on to the write.
LEMMA DrainGetKeep ==
  ASSUME IInv, Drain \/ Get, Banks PROVE IInv'
<1>1. /\ \/ mpc = "loop" /\ mpc' = "get" /\ window # <<>>
         \/ mpc = "get" /\ mpc' = "put" /\ bank(Head(window)) \in Good
      /\ UNCHANGED <<pool, list, next, window, out, failed, pass, part>> /\ ~failed /\ alive' = alive
  BY Facts DEF Drain, Get, Banks, At, GoTo, Positions, EndPlaces, AliveAt, BankPlaces, windows, Good
<1>2. window # <<>> /\ Head(window) = Len(out) /\ Len(window) # 0
  <2>1. window # <<>>
    BY <1>1, Facts DEF WindowShape
  <2>2. 1 \in 1..Len(window) /\ Head(window) = window[1]
    BY <2>1, Facts DEF WindowShape
  <2> QED
    BY <2>1, <2>2, Facts DEF WindowShape
<1>3. Positions' /\ Stopping'
  BY <1>1, Facts, PoolStays DEF Positions, Stopping, Places, BankPlaces, EndPlaces, AliveAt
<1>4. WindowShape'
  BY <1>1, <1>2, Facts, PoolStays DEF WindowShape, BankPlaces
<1>5. \A task \in Known' : Begun(task)'
  BY <1>1, Facts, PoolStays DEF Begun, BankPlaces
<1>6. \A task \in Pending' : Remains(task)'
  BY <1>1, Facts, PoolStays DEF Remains
<1>7. DoneByNow' /\ AwaitedKnown'
  BY <1>1, <1>2, Facts, PoolStays DEF DoneByNow, AwaitedKnown, Awaited, BankPlaces, EndPlaces
<1>8. PoolInv'
  BY <1>1, PoolStays
<1> QED
  BY <1>3, <1>4, <1>5, <1>6, <1>7, <1>8 DEF IInv, MainInv

LEMMA WriteBankKeeps ==
  ASSUME IInv, WriteBank, Banks PROVE IInv'
<1>1. /\ mpc = "put" /\ mpc' = "loop" /\ out' = Append(out, Head(window)) /\ window' = Tail(window)
      /\ UNCHANGED <<pool, list, next, failed, pass, part>> /\ ~failed /\ alive' = alive
  BY Facts DEF WriteBank, Banks, At, GoTo, Positions, EndPlaces, AliveAt, BankPlaces
<1>2. /\ Len(window) # 0 /\ Head(window) = Len(out) /\ Head(window) \in 0..(N - 1)
      /\ window' \in Seq(0..(N - 1)) /\ Len(window') = Len(window) - 1
      /\ \A i \in 1..(Len(window) - 1) : window'[i] = window[i + 1]
  <2>1. window \in Seq(0..(N - 1)) /\ window # <<>>
    BY <1>1, Facts DEF WindowShape
  <2>2. /\ Len(window) \in Nat \ {0} /\ Head(window) = window[1] /\ Head(window) \in 0..(N - 1)
        /\ Tail(window) \in Seq(0..(N - 1)) /\ Len(Tail(window)) = Len(window) - 1
        /\ \A i \in 1..(Len(window) - 1) : Tail(window)[i] = window[i + 1]
    BY <2>1, HeadAndTail
  <2>3. window[1] = Len(out) + 1 - 1
    BY <2>2, Facts DEF WindowShape
  <2> QED
    BY <1>1, <2>2, <2>3, Facts
<1>3. /\ out' \in Seq(0..(N - 1)) /\ Len(out') = Len(out) + 1
      /\ \A i \in 1..Len(out) : out'[i] = out[i]
      /\ out'[Len(out) + 1] = Len(out)
  BY <1>1, <1>2, Facts, Appended DEF WindowShape
<1>4. Positions' /\ Stopping'
  BY <1>1, Facts, PoolStays DEF Positions, Stopping, Places, BankPlaces, EndPlaces, AliveAt
<1>5. WindowShape'
  <2>1. \A i \in 1..Len(out') : i \in 1..Len(out) \/ i = Len(out) + 1
    BY <1>3, Facts
  <2>2. \A i \in 1..Len(out') : out'[i] = i - 1
    <3>1. (Len(out) + 1) - 1 = Len(out)
      BY Facts
    <3> QED
      BY <2>1, <3>1, <1>3, Facts DEF WindowShape
  <2>3. \A i \in 1..Len(window') : i \in 1..(Len(window) - 1) /\ i + 1 \in 1..Len(window)
    BY <1>2, Facts
  <2>4. \A i \in 1..Len(window') : window'[i] = Len(out') + i - 1
    BY <2>3, <1>2, <1>3, Facts, SMTT(30) DEF WindowShape
  <2>5. Len(out') + Len(window') = next /\ Len(window') < max_threads
    BY <1>2, <1>3, Facts DEF WindowShape
  <2> QED
    BY <1>1, <1>2, <1>3, <2>2, <2>4, <2>5, Facts, PoolStays DEF WindowShape, BankPlaces
<1>6. \A task \in Known' : Begun(task)'
  BY <1>1, Facts, PoolStays DEF Begun, BankPlaces
<1>7. \A task \in Pending' : Remains(task)'
  <2>1. bank(Len(out)) \notin Pending
    BY <1>1, Facts DEF DoneByNow, Good
  <2>2. \A i \in Len(out)..(next - 1) : i = Len(out) \/ i \in Len(out')..(next - 1)
    BY <1>3, Facts
  <2> QED
    BY <1>1, <2>1, <2>2, Facts, PoolStays DEF Remains
<1>8. DoneByNow'
  <2>1. \A i \in 0..(Len(out') - 1) : i = Len(out) \/ i \in 0..(Len(out) - 1)
    BY <1>3, Facts
  <2> QED
    BY <1>1, <2>1, Facts, PoolStays DEF DoneByNow, EndPlaces
<1>9. AwaitedKnown'
  <2>1. \A i \in Len(out')..(next - 1) : i \in Len(out)..(next - 1)
    BY <1>3, Facts
  <2> QED
    BY <1>1, <2>1, Facts, PoolStays DEF AwaitedKnown, Awaited, BankPlaces, EndPlaces
<1>10. PoolInv'
  BY <1>1, PoolStays
<1> QED
  BY <1>4, <1>5, <1>6, <1>7, <1>8, <1>9, <1>10 DEF IInv, MainInv

LEMMA EndListKeeps ==
  ASSUME IInv, EndList, Banks PROVE IInv'
<1>1. /\ mpc = "loop" /\ next = UptoList[list] /\ window = <<>>
      /\ \/ list < Lists /\ list' = list + 1 /\ mpc' = "loop"
         \/ ~(list < Lists) /\ list' = list /\ mpc' = "media"
      /\ UNCHANGED <<pool, next, window, out, failed, pass, part>> /\ ~failed /\ alive' = alive
  BY Facts DEF EndList, Banks, At, GoTo, Positions, EndPlaces, AliveAt, BankPlaces
<1>2. /\ list' \in 1..Lists /\ next <= UptoList[list']
      /\ mpc' = "media" => next = N
  <2>1. list \in 1..Lists
    BY Facts DEF WindowShape
  <2>2. CASE list < Lists
    BY <1>1, <2>1, <2>2, BankNumbers
  <2>3. CASE ~(list < Lists)
    BY <1>1, <2>1, <2>3, BankNumbers DEF N
  <2> QED
    BY <2>2, <2>3
<1>3. Len(out) = next
  BY <1>1, Facts DEF WindowShape
<1>4. Positions' /\ Stopping'
  BY <1>1, Facts, PoolStays DEF Positions, Stopping, Places, BankPlaces, EndPlaces, AliveAt
<1>5. WindowShape'
  BY <1>1, <1>2, <1>3, Facts, PoolStays DEF WindowShape, BankPlaces
<1>6. \A task \in Known' : Begun(task)'
  BY <1>1, Facts, PoolStays DEF Begun, BankPlaces
<1>7. \A task \in Pending' : Remains(task)'
  BY <1>1, Facts, PoolStays DEF Remains
<1>8. DoneByNow' /\ AwaitedKnown'
  BY <1>1, Facts, PoolStays DEF DoneByNow, AwaitedKnown, Awaited, BankPlaces, EndPlaces
<1>9. PoolInv'
  BY <1>1, PoolStays
<1> QED
  BY <1>4, <1>5, <1>6, <1>7, <1>8, <1>9 DEF IInv, MainInv

LEMMA BanksKeep ==
  ASSUME IInv, Banks PROVE IInv'
<1>1. CASE (SubmitBank \/ SubmitBankThrows) /\ EnqueueBank
  BY <1>1, SubmitBankKeeps
<1>2. CASE SubmitBankThrows /\ UNCHANGED <<pool, windows>>
  BY <1>2, UnwindKeeps DEF SubmitBankThrows, Banks, At, GoTo, EndPlaces
<1>3. SubmitBank => EnqueueBank
  BY DEF SubmitBank
<1>4. SubmitBankThrows => EnqueueBank \/ UNCHANGED <<pool, windows>>
  BY DEF SubmitBankThrows
<1> QED
  BY <1>1, <1>2, <1>3, <1>4, DrainGetKeep, WriteBankKeeps, EndListKeeps, ThrowsKeep DEF Banks, WindowStep

-----------------------------------------------------------------------------
(* Media, the sort, the hash table and the filter.                         *)

\* Before its end the importing thread has neither failed nor stopped the pool,
\* and past the banks all of them are written.
LEMMA InRun ==
  ASSUME IInv, mpc \notin EndPlaces
  PROVE  /\ ~failed /\ ~stop /\ alive = AliveAt(mpc) /\ mpc \in Places
         /\ (mpc \notin BankPlaces => Len(out) = N /\ next = N)
<1>1. ~failed /\ ~stop /\ alive = AliveAt(mpc) /\ mpc \in Places
  BY Facts DEF Positions, Stopping, EndPlaces
<1>2. mpc \notin BankPlaces => Len(out) = N /\ next = N
  BY <1>1, Facts DEF WindowShape
<1> QED
  BY <1>1, <1>2

LEMMA SubmitMediaKeeps ==
  ASSUME IInv, SubmitMedia PROVE IInv'
<1>1. /\ mpc = "media" /\ mpc' = "sort" /\ Submit(media)
      /\ alive' = alive \cup {"hash_entries"}
      /\ UNCHANGED <<windows, list, next, window, out, failed, pass, part>> /\ ~failed /\ ~stop
  BY InRun DEF SubmitMedia, At, GoTo, EndPlaces, windows
<1>2. media \in Tasks \ Known
  <2>1. ~Begun(media)
    BY <1>1, Facts, Shapes DEF Begun, Positions, BankPlaces
  <2> QED
    BY <2>1, Facts, TasksAssumption
<1>3. /\ PoolInv' /\ Known' = Known \cup {media} /\ Pending' \subseteq Pending \cup {media}
      /\ ended \subseteq ended' /\ Good \subseteq Good' /\ PoolThreads' = PoolThreads
      /\ stop' = stop /\ tpc' = tpc
  BY <1>1, <1>2, Facts, SubmitKeeps
<1>4. Parts' = Parts /\ ranges' = ranges
  BY <1>3, SameSizes
<1>5. Positions' /\ Stopping'
  BY <1>1, <1>3, Facts DEF Positions, Stopping, Places, BankPlaces, EndPlaces, AliveAt
<1>6. WindowShape'
  BY <1>1, <1>3, WindowStays DEF BankPlaces
<1>7. \A task \in Known' : Begun(task)'
  <2>1. \A task : task = media => Begun(task)'
    BY <1>1 DEF Begun, BankPlaces, media
  <2> QED
    BY <2>1, <1>1, <1>3, <1>4, Facts DEF Begun, BankPlaces
<1>8. \A task \in Pending' : Remains(task)'
  <2>1. \A task : task = media => Remains(task)'
    BY DEF Remains, media
  <2> QED
    BY <2>1, <1>1, <1>3, <1>4, Facts DEF Remains
<1>9. DoneByNow'
  BY <1>1, <1>3, <1>4, Facts DEF DoneByNow, EndPlaces
<1>10. AwaitedKnown'
  BY <1>1, <1>3, Facts DEF AwaitedKnown, Awaited, BankPlaces, EndPlaces, media
<1> QED
  BY <1>3, <1>5, <1>6, <1>7, <1>8, <1>9, <1>10 DEF IInv, MainInv

LEMMA BeginSortKeeps ==
  ASSUME IInv, BeginSort PROVE IInv'
<1>1. /\ mpc = "sort" /\ UNCHANGED <<pool, windows, list, next, window, out, failed>> /\ ~failed /\ part' = 0
      /\ \/ mpc' = "index" /\ UNCHANGED <<pass, alive>>
         \/ mpc' = "count" /\ pass' = 1 /\ alive' = alive \cup {"temp"}
  BY InRun DEF BeginSort, At, GoTo, EndPlaces, windows
<1>2. pass = 0 /\ Len(out) = N
  BY <1>1, Facts, InRun DEF Positions, BankPlaces, EndPlaces
<1>3. Positions' /\ Stopping'
  BY <1>1, <1>2, Facts, PoolStays, RunAssumption
     DEF Positions, Stopping, Places, BankPlaces, EndPlaces, AliveAt
<1>4. WindowShape'
  BY <1>1, PoolStays, WindowStays DEF BankPlaces
<1>5. \A task \in Known' : Begun(task)'
  BY <1>1, <1>2, Facts, PoolStays DEF Begun, BankPlaces
<1>6. \A task \in Pending' : Remains(task)'
  BY <1>1, <1>2, Facts, PoolStays DEF Remains
<1>7. DoneByNow' /\ AwaitedKnown'
  BY <1>1, Facts, PoolStays DEF DoneByNow, AwaitedKnown, Awaited, BankPlaces, EndPlaces
<1>8. PoolInv'
  BY <1>1, PoolStays
<1> QED
  BY <1>3, <1>4, <1>5, <1>6, <1>7, <1>8 DEF IInv, MainInv

\* The next task of each loop is new.
LEMMA NextIsNew ==
  ASSUME IInv
  PROVE  /\ mpc = "count" /\ part \in Parts => count(pass, part) \in Tasks \ Known
         /\ mpc = "scatter" /\ part \in Parts => scatter(pass, part) \in Tasks \ Known
         /\ mpc = "spawn" /\ part < ranges => range(part) \in Tasks \ Known
<1>1. ASSUME mpc = "count", part \in Parts PROVE count(pass, part) \in Tasks \ Known
  <2>1. ~Begun(count(pass, part))
    BY <1>1, Facts, Shapes DEF Begun
  <2>2. pass \in 1..Passes /\ part \in 0..7
    BY <1>1, Facts DEF Positions
  <2> QED
    BY <2>1, <2>2, Facts, TasksAssumption
<1>2. ASSUME mpc = "scatter", part \in Parts PROVE scatter(pass, part) \in Tasks \ Known
  <2>1. pass \in 1..Passes /\ part \in 0..7
    BY <1>2, Facts DEF Positions
  <2>2. ~Begun(scatter(pass, part))
    <3>1. \A p, t : scatter(pass, part) = scatter(p, t) => p = pass /\ t = part
      BY Shapes
    <3>2. ~(part < part)
      BY <2>1
    <3> QED
      BY <1>2, <3>1, <3>2, Shapes DEF Begun
  <2> QED
    BY <2>1, <2>2, Facts, TasksAssumption
<1>3. ASSUME mpc = "spawn", part < ranges PROVE range(part) \in Tasks \ Known
  <2>1. part \in 1..(ranges - 1) /\ part \in 1..Ranges /\ ~(part < part)
    BY <1>3, Facts, RunAssumption DEF Positions
  <2>2. ~Begun(range(part))
    BY <1>3, <2>1, Shapes DEF Begun
  <2> QED
    BY <2>1, <2>2, Facts, TasksAssumption
<1> QED
  BY <1>1, <1>2, <1>3

\* An exception leaves a loop with its next task queued or not.
LEMMA LoopThrowsKeep ==
  ASSUME IInv, SubmitCountThrows \/ SubmitScatterThrows \/ SpawnRangeThrows PROVE IInv'
<1>1. /\ mpc \in {"count", "scatter", "spawn"} /\ UNCHANGED <<windows, pass, part>>
      /\ mpc' = "stop" /\ failed' = TRUE /\ alive' = {"source"}
  BY DEF SubmitCountThrows, SubmitScatterThrows, SpawnRangeThrows, ThrowAround, Unwind, At, GoTo
<1>2. CASE UNCHANGED pool
  BY <1>1, <1>2, UnwindKeeps DEF EndPlaces
<1>3. ASSUME NEW task \in Tasks \ Known, Submit(task),
             \/ mpc = "count" /\ part \in Parts /\ task = count(pass, part)
             \/ mpc = "scatter" /\ part \in Parts /\ task = scatter(pass, part)
             \/ mpc = "spawn" /\ part < ranges /\ task = range(part)
      PROVE  IInv'
  <2>1. ~stop /\ pass \in 0..Passes /\ part \in Nat
    BY <1>1, Facts DEF Stopping, Positions
  <2>2. PoolThreads' = PoolThreads
    BY <1>3, <2>1, Facts, SubmitKeeps
  <2>3. Parts' = Parts /\ ranges' = ranges
    BY <2>2, SameSizes
  <2>4. /\ mpc \in {"count", "scatter"} => pass \in 1..pass
        /\ mpc = "spawn" => part \in 1..ranges
    BY <2>1, Facts, RunAssumption DEF Positions
  <2>5. mpc = "spawn" => part \in 1..(ranges - 1)
    BY <1>3, <2>4, Facts, RunAssumption
  <2>6. Begun(task)'
    BY <1>1, <1>3, <2>3, <2>4, <2>5 DEF Begun, BankPlaces
  <2>7. Remains(task)'
    BY <1>1, <1>3, <2>3, <2>5 DEF Remains
  <2> QED
    BY <1>1, <1>3, <2>6, <2>7, UnwindSubmitKeeps
<1> QED
  BY <1>1, <1>2, <1>3, NextIsNew DEF SubmitCountThrows, SubmitScatterThrows, SpawnRangeThrows, ThrowAround, At

LEMMA SubmitCountKeeps ==
  ASSUME IInv, SubmitCount PROVE IInv'
<1>1. /\ mpc = "count" /\ mpc' = "count" /\ part \in Parts /\ Submit(count(pass, part)) /\ part' = part + 1
      /\ UNCHANGED <<windows, list, next, window, out, failed, pass, alive>> /\ ~failed /\ ~stop
  BY InRun DEF SubmitCount, At, EndPlaces, windows
<1>2. count(pass, part) \in Tasks \ Known
  BY <1>1, NextIsNew
<1>3. /\ PoolInv' /\ Known' = Known \cup {count(pass, part)}
      /\ Pending' \subseteq Pending \cup {count(pass, part)}
      /\ ended \subseteq ended' /\ Good \subseteq Good' /\ PoolThreads' = PoolThreads
      /\ stop' = stop /\ tpc' = tpc
  BY <1>1, <1>2, Facts, SubmitKeeps
<1>4. Parts' = Parts /\ ranges' = ranges
  BY <1>3, SameSizes
<1>5. Positions' /\ Stopping'
  BY <1>1, <1>3, Facts DEF Positions, Stopping, Places, BankPlaces, EndPlaces
<1>6. WindowShape'
  BY <1>1, <1>3, WindowStays DEF BankPlaces
<1>7. \A task \in Known' : Begun(task)'
  <2>1. pass \in 1..pass /\ part \in Nat /\ \A t \in Parts : t < part => t < part'
    BY <1>1, Facts DEF Positions
  <2>2. \A task : task = count(pass, part) => Begun(task)'
    BY <1>1, <1>4, <2>1 DEF Begun
  <2>3. \A task \in Known : Begun(task)'
    BY <2>1, <1>1, <1>4, Facts DEF Begun
  <2> QED
    BY <2>2, <2>3, <1>3
<1>8. \A task \in Pending' : Remains(task)'
  <2>1. \A task : task = count(pass, part) => Remains(task)'
    BY <1>1, <1>4 DEF Remains
  <2>2. \A task \in Pending : Remains(task)'
    BY <1>1, <1>4, Facts DEF Remains
  <2> QED
    BY <2>1, <2>2, <1>3
<1>9. DoneByNow'
  BY <1>1, <1>3, <1>4, Facts DEF DoneByNow, EndPlaces
<1>10. AwaitedKnown'
  <2>1. \A t \in Parts : t < part' => t < part \/ t = part
    BY <1>1, Facts DEF Positions
  <2> QED
    BY <2>1, <1>1, <1>3, <1>4, Facts DEF AwaitedKnown, Awaited, BankPlaces, EndPlaces
<1> QED
  BY <1>3, <1>5, <1>6, <1>7, <1>8, <1>9, <1>10 DEF IInv, MainInv

LEMMA SubmitScatterKeeps ==
  ASSUME IInv, SubmitScatter PROVE IInv'
<1>1. /\ mpc = "scatter" /\ mpc' = "scatter" /\ part \in Parts /\ Submit(scatter(pass, part)) /\ part' = part + 1
      /\ UNCHANGED <<windows, list, next, window, out, failed, pass, alive>> /\ ~failed /\ ~stop
  BY InRun DEF SubmitScatter, At, EndPlaces, windows
<1>2. scatter(pass, part) \in Tasks \ Known
  BY <1>1, NextIsNew
<1>3. /\ PoolInv' /\ Known' = Known \cup {scatter(pass, part)}
      /\ Pending' \subseteq Pending \cup {scatter(pass, part)}
      /\ ended \subseteq ended' /\ Good \subseteq Good' /\ PoolThreads' = PoolThreads
      /\ stop' = stop /\ tpc' = tpc
  BY <1>1, <1>2, Facts, SubmitKeeps
<1>4. Parts' = Parts /\ ranges' = ranges
  BY <1>3, SameSizes
<1>5. Positions' /\ Stopping'
  BY <1>1, <1>3, Facts DEF Positions, Stopping, Places, BankPlaces, EndPlaces
<1>6. WindowShape'
  BY <1>1, <1>3, WindowStays DEF BankPlaces
<1>7. \A task \in Known' : Begun(task)'
  <2>1. pass \in 1..pass /\ part \in Nat /\ \A t \in Parts : t < part => t < part'
    BY <1>1, Facts DEF Positions
  <2>2. \A task : task = scatter(pass, part) => Begun(task)'
    BY <1>1, <1>4, <2>1 DEF Begun
  <2>3. \A task \in Known : Begun(task)'
    BY <2>1, <1>1, <1>4, Facts DEF Begun
  <2> QED
    BY <2>2, <2>3, <1>3
<1>8. \A task \in Pending' : Remains(task)'
  <2>1. \A task : task = scatter(pass, part) => Remains(task)'
    BY <1>1, <1>4 DEF Remains
  <2>2. \A task \in Pending : Remains(task)'
    BY <1>1, <1>4, Facts DEF Remains
  <2> QED
    BY <2>1, <2>2, <1>3
<1>9. DoneByNow'
  BY <1>1, <1>3, <1>4, Facts DEF DoneByNow, EndPlaces
<1>10. AwaitedKnown'
  <2>1. \A t \in Parts : t < part' => t < part \/ t = part
    BY <1>1, Facts DEF Positions
  <2> QED
    BY <2>1, <1>1, <1>3, <1>4, Facts DEF AwaitedKnown, Awaited, BankPlaces, EndPlaces
<1> QED
  BY <1>3, <1>5, <1>6, <1>7, <1>8, <1>9, <1>10 DEF IInv, MainInv

\* All parts of the pass have been counted, or all have been moved.
LEMMA PassDoneKeeps ==
  ASSUME IInv, CountsDone \/ ScatterDone PROVE IInv'
<1>1. /\ UNCHANGED <<pool, windows, list, next, window, out, failed>> /\ ~failed /\ part' = 0
      /\ \/ /\ mpc = "count" /\ mpc' = "scatter" /\ pass' = pass /\ alive' = alive \cup {"thread_pos"}
            /\ \A t \in Parts : count(pass, t) \in ended
         \/ /\ mpc = "scatter" /\ \A t \in Parts : scatter(pass, t) \in ended
            /\ \/ mpc' = "index" /\ pass' = pass /\ alive' = alive \ {"thread_pos", "temp"}
               \/ /\ mpc' = "count" /\ pass # Passes /\ pass' = pass + 1
                  /\ alive' = alive \ {"thread_pos"}
  BY InRun DEF CountsDone, Counted, ScatterDone, At, GoTo, EndPlaces, windows
<1>2. pass \in 1..Passes /\ Passes \in Nat
  BY <1>1, Facts, RunAssumption DEF Positions
<1>3. Positions' /\ Stopping'
  BY <1>1, <1>2, Facts, PoolStays DEF Positions, Stopping, Places, BankPlaces, EndPlaces, AliveAt
<1>4. WindowShape'
  BY <1>1, PoolStays, WindowStays DEF BankPlaces
<1>5. \A task \in Known' : Begun(task)'
  <2>1. \A p \in 1..pass : p \in 1..pass' /\ (mpc' = "count" => p < pass')
    BY <1>1, <1>2
  <2> QED
    BY <2>1, <1>1, <1>2, Facts, PoolStays DEF Begun, BankPlaces
<1>6. \A task \in Pending' : Remains(task)'
  BY <1>1, Facts, PoolStays DEF Remains
<1>7. DoneByNow'
  BY <1>1, Facts, PoolStays DEF DoneByNow, EndPlaces
<1>8. AwaitedKnown'
  <2>1. \A t \in Parts : ~(t < part')
    BY <1>1, Facts
  <2> QED
    BY <2>1, <1>1, Facts, PoolStays DEF AwaitedKnown, Awaited, BankPlaces, EndPlaces
<1>9. PoolInv'
  BY <1>1, PoolStays
<1> QED
  BY <1>3, <1>4, <1>5, <1>6, <1>7, <1>8, <1>9 DEF IInv, MainInv

LEMMA SubmitHashKeeps ==
  ASSUME IInv, SubmitHash PROVE IInv'
<1>1. /\ mpc = "index" /\ mpc' = "write" /\ Submit(hash)
      /\ alive' = alive \ {"offsets"}
      /\ UNCHANGED <<windows, list, next, window, out, failed, pass, part>> /\ ~failed /\ ~stop
  BY InRun DEF SubmitHash, At, GoTo, EndPlaces, windows
<1>2. hash \in Tasks \ Known
  <2>1. ~Begun(hash)
    BY <1>1, Facts, Shapes DEF Begun, BankPlaces
  <2> QED
    BY <2>1, Facts, TasksAssumption
<1>3. /\ PoolInv' /\ Known' = Known \cup {hash} /\ Pending' \subseteq Pending \cup {hash}
      /\ ended \subseteq ended' /\ Good \subseteq Good' /\ PoolThreads' = PoolThreads
      /\ stop' = stop /\ tpc' = tpc
  BY <1>1, <1>2, Facts, SubmitKeeps
<1>4. Parts' = Parts /\ ranges' = ranges
  BY <1>3, SameSizes
<1>5. Positions' /\ Stopping'
  BY <1>1, <1>3, Facts DEF Positions, Stopping, Places, BankPlaces, EndPlaces, AliveAt
<1>6. WindowShape'
  BY <1>1, <1>3, WindowStays DEF BankPlaces
<1>7. \A task \in Known' : Begun(task)'
  <2>1. \A task : task = hash => Begun(task)'
    BY <1>1 DEF Begun, BankPlaces, hash
  <2> QED
    BY <2>1, <1>1, <1>3, <1>4, Facts DEF Begun, BankPlaces
<1>8. \A task \in Pending' : Remains(task)'
  <2>1. \A task : task = hash => Remains(task)'
    BY <1>1 DEF Remains, hash
  <2> QED
    BY <2>1, <1>1, <1>3, <1>4, Facts DEF Remains
<1>9. DoneByNow'
  BY <1>1, <1>3, <1>4, Facts DEF DoneByNow, EndPlaces
<1>10. AwaitedKnown'
  BY <1>1, <1>3, Facts DEF AwaitedKnown, Awaited, BankPlaces, EndPlaces, hash
<1> QED
  BY <1>3, <1>5, <1>6, <1>7, <1>8, <1>9, <1>10 DEF IInv, MainInv

LEMMA SpawnRangeKeeps ==
  ASSUME IInv, SpawnRange PROVE IInv'
<1>1. /\ mpc = "spawn" /\ mpc' = "spawn" /\ part < ranges /\ Submit(range(part)) /\ part' = part + 1
      /\ UNCHANGED <<windows, list, next, window, out, failed, pass, alive>> /\ ~failed /\ ~stop
  BY InRun DEF SpawnRange, At, EndPlaces, windows
<1>2. part \in 1..(ranges - 1) /\ part \in 1..Ranges /\ ~(part < part) /\ part \in 1..(part' - 1)
  BY <1>1, Facts, RunAssumption DEF Positions
<1>3. range(part) \in Tasks \ Known
  BY <1>1, NextIsNew
<1>4. /\ PoolInv' /\ Known' = Known \cup {range(part)} /\ Pending' \subseteq Pending \cup {range(part)}
      /\ ended \subseteq ended' /\ Good \subseteq Good' /\ PoolThreads' = PoolThreads
      /\ stop' = stop /\ tpc' = tpc
  BY <1>1, <1>3, Facts, SubmitKeeps
<1>5. Parts' = Parts /\ ranges' = ranges
  BY <1>4, SameSizes
<1>6. Positions' /\ Stopping'
  BY <1>1, <1>2, <1>4, <1>5, Facts DEF Positions, Stopping, Places, BankPlaces, EndPlaces
<1>7. WindowShape'
  BY <1>1, <1>4, WindowStays DEF BankPlaces
<1>8. \A task \in Known' : Begun(task)'
  <2>1. part < part' /\ \A r \in 1..(ranges - 1) : r < part => r < part'
    BY <1>1, <1>2, Facts
  <2>2. \A task : task = range(part) => Begun(task)'
    BY <2>1, <1>1, <1>2, <1>5 DEF Begun, BankPlaces
  <2>3. \A task \in Known : Begun(task)'
    BY <2>1, <1>1, <1>5, Facts DEF Begun, BankPlaces
  <2> QED
    BY <2>2, <2>3, <1>4
<1>9. \A task \in Pending' : Remains(task)'
  <2>1. \A task : task = range(part) => Remains(task)'
    BY <1>1, <1>2, <1>5 DEF Remains
  <2>2. \A task \in Pending : Remains(task)'
    BY <1>1, <1>5, Facts DEF Remains
  <2> QED
    BY <2>1, <2>2, <1>4
<1>10. DoneByNow'
  BY <1>1, <1>4, <1>5, Facts DEF DoneByNow, EndPlaces
<1>11. AwaitedKnown'
  <2>1. \A r \in 1..(part' - 1) : r \in 1..(part - 1) \/ r = part
    BY <1>1, <1>2
  <2> QED
    BY <2>1, <1>1, <1>4, <1>5, Facts DEF AwaitedKnown, Awaited, BankPlaces, EndPlaces
<1> QED
  BY <1>4, <1>6, <1>7, <1>8, <1>9, <1>10, <1>11 DEF IInv, MainInv

\* The steps of the importing thread alone, with what it waits for.
LEMMA AloneKeeps ==
  ASSUME IInv, WriteIndex \/ BeginBloom \/ BloomDone \/ HashGet \/ MediaGet \/ WriteJson PROVE IInv'
<1>1. /\ UNCHANGED <<pool, windows, list, next, window, out, failed, pass>> /\ ~failed /\ ~stop
      /\ \/ mpc = "write" /\ mpc' = "bloom" /\ UNCHANGED <<part, alive>>
         \/ mpc = "bloom" /\ mpc' = "spawn" /\ part' = 1 /\ alive' = alive \cup {"hashes"}
         \/ /\ mpc = "spawn" /\ mpc' = "hash_get" /\ part' = part /\ alive' = alive \ {"hashes"}
            /\ \A r \in 1..(ranges - 1) : range(r) \in ended
         \/ mpc = "hash_get" /\ mpc' = "media_get" /\ hash \in Good /\ UNCHANGED <<part, alive>>
         \/ mpc = "media_get" /\ mpc' = "json" /\ media \in Good /\ UNCHANGED <<part, alive>>
         \/ mpc = "json" /\ mpc' = "stop" /\ part' = part /\ alive' = {"source"}
  BY InRun DEF WriteIndex, BeginBloom, BloomDone, HashGet, MediaGet, WriteJson, At, GoTo, EndPlaces, windows, Good
<1>2. Positions'
  BY <1>1, Facts, PoolStays DEF Positions, Places, BankPlaces, EndPlaces, AliveAt
<1>3. Stopping'
  BY <1>1, PoolStays DEF Stopping
<1>4. WindowShape'
  BY <1>1, PoolStays, WindowStays DEF BankPlaces
<1>5. \A task \in Known' : Begun(task)'
  BY <1>1, Facts, PoolStays DEF Begun, BankPlaces
<1>6. \A task \in Pending' : Remains(task)'
  <2>1. mpc = "hash_get" => hash \notin Pending
    BY <1>1, Facts DEF Good
  <2> QED
    BY <2>1, <1>1, Facts, PoolStays DEF Remains
<1>7. DoneByNow'
  BY <1>1, Facts, PoolStays DEF DoneByNow, EndPlaces
<1>8. AwaitedKnown'
  <2>1. 1..(1 - 1) = {}
    OBVIOUS
  <2> QED
    BY <2>1, <1>1, Facts, PoolStays DEF AwaitedKnown, Awaited, BankPlaces, EndPlaces
<1>9. PoolInv'
  BY <1>1, PoolStays
<1> QED
  BY <1>2, <1>3, <1>4, <1>5, <1>6, <1>7, <1>8, <1>9 DEF IInv, MainInv

LEMMA StutterKeeps ==
  ASSUME IInv, UNCHANGED vars PROVE IInv'
<1>1. UNCHANGED pool /\ UNCHANGED main /\ mpc' = mpc
  BY DEF vars, pool, main
<1>2. Onward /\ PoolInv' /\ Stopping'
  BY <1>1, Facts, PoolStays DEF Onward, Stopping
<1> QED
  BY <1>1, <1>2, OnwardKeeps

\* The invariant holds in every reachable state.
THEOREM Inductive == Spec => []IInv
<1>1. Init => IInv
  BY Initially
<1>2. ASSUME IInv, [Next]_vars PROVE IInv'
  <2>1. ASSUME Main PROVE IInv'
    BY <2>1, <1>2, SubmitNotifiesKeeps, BanksKeep, ThrowsKeep, SubmitMediaKeeps, BeginSortKeeps, SubmitCountKeeps,
       SubmitScatterKeeps, LoopThrowsKeep, PassDoneKeeps, SubmitHashKeeps, SpawnRangeKeeps, AloneKeeps, DestructorKeeps DEF Main
  <2>2. ASSUME NEW th \in PoolThreads, Thread(th) PROVE IInv'
    BY <2>2, <1>2, ThreadKeeps
  <2> QED
    BY <2>1, <2>2, <1>2, StutterKeeps DEF Next
<1> QED
  BY <1>1, <1>2, PTL DEF Spec

-----------------------------------------------------------------------------
(* What the invariant says.                                                *)

LEMMA WindowBounded ==
  ASSUME IInv PROVE WindowOK
<1>1. BanksAhead \in SUBSET (Len(out)..(next - 1))
  <2> SUFFICES ASSUME NEW i \in 0..(N - 1), bank(i) \in Known, i \notin {out[j] : j \in 1..Len(out)}
               PROVE  i \in Len(out)..(next - 1)
    BY DEF BanksAhead, Known, Pending
  <2>1. i \in 0..(next - 1)
    BY Facts, Shapes, SMTT(30) DEF Begun
  <2>2. ASSUME i < Len(out) PROVE FALSE
    <3>1. i + 1 \in 1..Len(out)
      BY <2>2, Facts
    <3>2. out[i + 1] = (i + 1) - 1
      BY <3>1, Facts DEF WindowShape
    <3>3. (i + 1) - 1 = i
      OBVIOUS
    <3> QED
      BY <3>1, <3>2, <3>3
  <2> QED
    BY <2>1, <2>2, Facts
<1>2. IsFiniteSet(Len(out)..(next - 1)) /\ Cardinality(Len(out)..(next - 1)) = Len(window)
  <2>1. Len(out) + Len(window) = next
    BY Facts DEF WindowShape
  <2>2. Len(out) \in Int /\ next - 1 \in Int
    BY Facts
  <2>3. /\ IsFiniteSet(Len(out)..(next - 1))
        /\ Cardinality(Len(out)..(next - 1)) = IF Len(out) > next - 1 THEN 0 ELSE (next - 1) - Len(out) + 1
    BY <2>2, FS_Interval
  <2> QED
    BY <2>1, <2>3, Facts
<1>3. Cardinality(BanksAhead) <= Cardinality(Len(out)..(next - 1)) /\ IsFiniteSet(BanksAhead)
  BY <1>1, <1>2, FS_Subset
<1>4. Cardinality(BanksAhead) \in Nat
  BY <1>3, FS_CardinalityType
<1>5. Cardinality(BanksAhead) <= max_threads
  BY <1>2, <1>3, <1>4, Facts DEF WindowShape
<1> QED
  BY <1>5, Facts DEF WindowOK, WindowShape, Positions

LEMMA TypesRight == ASSUME IInv PROVE TypeOK
<1>1. alive \subseteq {"source", "offsets", "hash_entries", "temp", "thread_pos", "hashes"}
  BY Facts DEF Positions, AliveAt, Places, BankPlaces, EndPlaces
<1>2. mpc \in {"loop", "get", "put", "media", "sort", "count", "scatter", "index", "write", "bloom",
              "spawn", "hash_get", "media_get", "json", "stop", "notify_stop", "join", "left", "removed"}
  BY Facts DEF Positions, Places, BankPlaces, EndPlaces
<1> QED
  BY <1>1, <1>2, Facts, WindowBounded DEF TypeOK, PoolInv, Positions

\* When the pool's destructor has returned nothing is queued and nothing runs.
LEMMA NothingAfterJoin ==
  ASSUME IInv, mpc \in {"left", "removed"} PROVE Queued = {} /\ RunningTasks = {}
<1>1. \A th \in PoolThreads : tpc[th] = "exited"
  BY Facts DEF Stopping
<1>2. tasks = <<>>
  BY <1>1, Facts DEF PoolInv
<1>3. \A th \in PoolThreads : current[th] = None
  BY <1>1, Facts DEF PoolInv, PoolTypeOK
<1> QED
  BY <1>2, <1>3 DEF Queued, RunningTasks

-----------------------------------------------------------------------------
(* What an exception leaves behind.                                        *)

\* The loop of submissions the importing thread is at.
LoopAt == IF mpc = "count" THEN {count(pass, t) : t \in Parts}
          ELSE IF mpc = "scatter" THEN {scatter(pass, t) : t \in Parts}
          ELSE {hash} \cup {range(r) : r \in 1..(ranges - 1)}

\* A task whose data lives as long as the pool.
Lasting(task) == task = media \/ \E i \in Nat : task = bank(i)

\* Of the other tasks under way all are of one loop.
OneLoop == \E loop \in Loops : \A task \in Pending : task \in loop \/ Lasting(task)

LEMMA LoopAtIs ==
  ASSUME IInv, mpc \notin EndPlaces
  PROVE  LoopAt \in Loops /\ \A task \in Pending : task \in LoopAt \/ Lasting(task)
<1>1. ~failed /\ (mpc \in {"count", "scatter"} => pass \in 1..Passes)
  BY Facts, InRun DEF Positions
<1>2. LoopAt \in Loops
  BY <1>1 DEF LoopAt, Loops
<1>3. \A i \in Len(out)..(next - 1) : i \in Nat
  BY Facts
<1> QED
  BY <1>1, <1>2, <1>3, Facts DEF Remains, LoopAt, Lasting

\* Before its end the importing thread submits a task of its loop, or one whose
\* data lasts, or none.
LEMMA OneMore ==
  ASSUME IInv, Main
  PROVE  \/ UNCHANGED pool
         \/ NotifyOne
         \/ mpc \in EndPlaces /\ (Stop \/ NotifyAll)
         \/ \E task \in Tasks : /\ Submit(task) /\ mpc \notin EndPlaces
                                /\ task \in LoopAt \/ Lasting(task)
<1>1. CASE Banks
  <2>1. CASE EnqueueBank /\ mpc = "loop" /\ next < UptoList[list]
    <3>1. next \in Nat /\ next \in 0..(N - 1)
      BY <2>1, Facts, BankNumbers DEF WindowShape
    <3>2. bank(next) \in Tasks /\ Lasting(bank(next)) /\ Submit(bank(next))
      BY <2>1, <3>1, BankNumbers DEF Lasting, EnqueueBank
    <3> QED
      BY <2>1, <3>2 DEF EndPlaces
  <2> QED
    BY <1>1, <2>1 DEF Banks, WindowStep, SubmitBank, SubmitBankThrows, Drain, Get, GetThrows, WriteBank, WriteThrows,
       EndList, At
<1>2. CASE SubmitMedia
  BY <1>2, TasksAssumption DEF SubmitMedia, At, EndPlaces, Lasting
<1>3. CASE SubmitHash
  BY <1>3, TasksAssumption DEF SubmitHash, At, EndPlaces, LoopAt
<1>4. CASE SubmitCount \/ SubmitCountThrows
  <2>1. mpc = "count" /\ part \in Parts /\ (Submit(count(pass, part)) \/ UNCHANGED pool)
    BY <1>4 DEF SubmitCount, SubmitCountThrows, ThrowAround, At
  <2>2. count(pass, part) \in LoopAt
    BY <2>1 DEF LoopAt
  <2> QED
    BY <2>1, <2>2, NextIsNew DEF EndPlaces
<1>5. CASE SubmitScatter \/ SubmitScatterThrows
  <2>1. mpc = "scatter" /\ part \in Parts /\ (Submit(scatter(pass, part)) \/ UNCHANGED pool)
    BY <1>5 DEF SubmitScatter, SubmitScatterThrows, ThrowAround, At
  <2>2. scatter(pass, part) \in LoopAt
    BY <2>1 DEF LoopAt
  <2> QED
    BY <2>1, <2>2, NextIsNew DEF EndPlaces
<1>6. CASE SpawnRange \/ SpawnRangeThrows
  <2>1. mpc = "spawn" /\ part < ranges /\ (Submit(range(part)) \/ UNCHANGED pool)
    BY <1>6 DEF SpawnRange, SpawnRangeThrows, ThrowAround, At
  <2>2. part \in 1..(ranges - 1)
    BY <2>1, Facts, RunAssumption DEF Positions
  <2>3. range(part) \in LoopAt
    BY <2>1, <2>2 DEF LoopAt
  <2> QED
    BY <2>1, <2>3, NextIsNew DEF EndPlaces
<1>7. CASE StopPool \/ NotifyStop
  BY <1>7 DEF StopPool, NotifyStop, At, EndPlaces
<1>8. CASE SubmitNotifies
  BY <1>8 DEF SubmitNotifies
<1>9. CASE \/ ListsThrow \/ BeginSort \/ CountsDone \/ ScatterDone \/ MemoryThrows \/ WriteIndex \/ WriteIndexThrows
           \/ BeginBloom \/ BloomThrows \/ BloomDone \/ HashGet \/ HashGetThrows \/ MediaGet \/ MediaGetThrows
           \/ WriteJson \/ WriteJsonThrows \/ JoinPool \/ RemoveAll
  BY <1>9 DEF ListsThrow, BeginSort, CountsDone, ScatterDone, MemoryThrows, WriteIndex, WriteIndexThrows, BeginBloom,
     BloomThrows, BloomDone, HashGet, HashGetThrows, MediaGet, MediaGetThrows, WriteJson, WriteJsonThrows, JoinPool,
     RemoveAll, Throw
<1> QED
  BY <1>1, <1>2, <1>3, <1>4, <1>5, <1>6, <1>7, <1>8, <1>9 DEF Main

LEMMA SubmitAdds ==
  ASSUME PoolInv, NEW task \in Tasks, Submit(task)
  PROVE  Pending' \subseteq Pending \cup {task} /\ PoolThreads' = PoolThreads
<1>1. CASE Push(task)
  <2>1. tasks' = Append(tasks, task) /\ UNCHANGED <<tpc, current>> /\ tasks \in Seq(Tasks)
    BY <1>1 DEF Push, PoolInv, PoolTypeOK
  <2>2. /\ Len(tasks') = Len(tasks) + 1 /\ Len(tasks) \in Nat
        /\ \A i \in 1..Len(tasks) : tasks'[i] = tasks[i]
        /\ tasks'[Len(tasks) + 1] = task
    BY <2>1, Appended
  <2>3. \A i \in 1..Len(tasks') : i \in 1..Len(tasks) \/ i = Len(tasks) + 1
    BY <2>2
  <2>4. Queued' \subseteq Queued \cup {task}
    BY <2>2, <2>3 DEF Queued
  <2> QED
    BY <2>1, <2>4 DEF Pending, RunningTasks, PoolThreads
<1>2. CASE RunInline(task)
  BY <1>2 DEF RunInline, Pending, Queued, RunningTasks, PoolThreads
<1> QED
  BY <1>1, <1>2 DEF Submit

LEMMA OneLoopKeeps ==
  ASSUME IInv, OneLoop, [Next]_vars PROVE OneLoop'
<1>1. ASSUME Pending' \subseteq Pending, PoolThreads' = PoolThreads PROVE OneLoop'
  <2>1. Loops' = Loops
    BY <1>1, SameSizes DEF Loops
  <2> QED
    BY <1>1, <2>1 DEF OneLoop, Lasting
<1>2. ASSUME NEW task \in Tasks, Submit(task), mpc \notin EndPlaces, task \in LoopAt \/ Lasting(task) PROVE OneLoop'
  <2>1. Pending' \subseteq Pending \cup {task} /\ PoolThreads' = PoolThreads
    BY <1>2, Facts, SubmitAdds
  <2>2. Loops' = Loops
    BY <2>1, SameSizes DEF Loops
  <2>3. LoopAt \in Loops /\ \A t \in Pending' : t \in LoopAt \/ Lasting(t)
    BY <1>2, <2>1, LoopAtIs
  <2> QED
    BY <2>2, <2>3 DEF OneLoop, Lasting
<1>3. CASE UNCHANGED pool \/ Stop
  <2>1. UNCHANGED <<tasks, tpc, current>>
    BY <1>3 DEF pool, Stop
  <2> QED
    BY <1>1, <2>1 DEF Pending, Queued, RunningTasks, PoolThreads
<1>4. CASE NotifyOne \/ NotifyAll
  BY <1>1, <1>4, Facts, NotifyKeeps DEF Onward
<1>5. ASSUME NEW th \in PoolThreads, Thread(th) PROVE OneLoop'
  <2>1. Onward
    BY <1>5, Facts, WaitKeeps, TakeKeeps, FinishKeeps DEF Thread, PoolThread
  <2> QED
    BY <1>1, <2>1 DEF Onward
<1>6. CASE UNCHANGED vars
  BY <1>3, <1>6 DEF vars, pool
<1> QED
  BY <1>2, <1>3, <1>4, <1>5, <1>6, OneMore DEF Next

\* The tasks an exception may find under way are of one loop, banks and media
\* apart (importer.cpp:282-345, 1182-1200, bloom.cpp:76-88).
THEOREM PendingInOneLoop == Spec => []OneLoop
<1>1. Init => OneLoop
  <2> SUFFICES ASSUME Init PROVE OneLoop
    OBVIOUS
  <2>1. mpc = "loop"
    BY DEF Init
  <2> QED
    BY <2>1, Initially, LoopAtIs DEF OneLoop, EndPlaces
<1>2. IInv /\ OneLoop /\ [Next]_vars => OneLoop'
  BY OneLoopKeeps
<1> QED
  BY <1>1, <1>2, Inductive, PTL DEF Spec

\* Without a failure a task that runs finds what it points to.  Whatever throws
\* and wherever, a submit in the middle of a loop included (importer.cpp:296,
\* 333, bloom.cpp:83), the tasks that outlive their data are of the one loop
\* the exception left; and no task is left when import returns or removes its
\* folder.
THEOREM DataOutlivesTasks == Spec => []OrphansOfOneLoop
<1>1. ASSUME IInv, OneLoop PROVE OrphansOfOneLoop
  <2>1. /\ \A i : Uses(bank(i)) = {"source"}
        /\ Uses(media) = {"source"} /\ Uses(hash) = {"hash_entries"}
        /\ \A p, t : Uses(count(p, t)) = {"offsets", "temp"}
        /\ \A p, t : Uses(scatter(p, t)) = {"offsets", "temp", "thread_pos"}
        /\ \A r : Uses(range(r)) = {"hashes"}
    BY DEF Uses, bank, media, hash, count, scatter, range
  <2>2. ASSUME NEW task \in RunningTasks
        PROVE  (~failed => Uses(task) \subseteq alive) /\ (Lasting(task) => Uses(task) \subseteq alive)
    <3>1. task \in Pending /\ mpc \notin {"left", "removed"}
      BY <2>2, <1>1, NothingAfterJoin DEF Pending
    <3>2. Remains(task) /\ alive = AliveAt(mpc) /\ mpc \in Places
      BY <3>1, <1>1, Facts DEF Positions
    <3>3. "source" \in alive
      BY <3>1, <3>2 DEF AliveAt, Places, BankPlaces, EndPlaces
    <3>4. ~failed => Uses(task) \subseteq alive
      BY <2>1, <3>2, <3>3 DEF Remains, AliveAt, BankPlaces
    <3>5. Lasting(task) => Uses(task) \subseteq alive
      BY <2>1, <3>3 DEF Lasting
    <3> QED
      BY <3>4, <3>5
  <2>3. Orphans # {} => failed
    BY <2>2 DEF Orphans
  <2>4. \E loop \in Loops : Orphans \subseteq loop
    BY <1>1, <2>2 DEF OneLoop, Orphans, Pending
  <2> QED
    BY <2>3, <2>4, <1>1, TypesRight, NothingAfterJoin DEF OrphansOfOneLoop
<1> QED
  BY <1>1, Inductive, PendingInOneLoop, PTL

\* An import that returns success has waited for media, table and filter, and
\* none of their futures held an exception.
THEOREM SuccessIsWhole == Spec => []WholeOnSuccess
<1>1. ASSUME IInv PROVE WholeOnSuccess
  BY <1>1, Facts DEF WholeOnSuccess, DoneByNow, EndPlaces, Good
<1> QED
  BY <1>1, Inductive, PTL

\* While the importing thread waits for tasks they are known to the pool, and
\* as long as one of them has not ended a thread is awake or is about to be
\* notified; and when it joins the pool no thread sleeps through it.
NobodyLeftAsleep ==
  /\ mpc \notin EndPlaces /\ ~(Awaited \subseteq ended) =>
       /\ Awaited \subseteq Known
       /\ owed \/ \E th \in PoolThreads : tpc[th] \in {"check", "run"}
  /\ mpc = "join" => \A th \in PoolThreads : tpc[th] # "asleep"

\* No interleaving of submits, notifications and sleeps loses a wake-up: neither
\* a future nor the destructor of the pool is waited for in vain.
THEOREM NoLostWakeup == Spec => []NobodyLeftAsleep
<1>1. ASSUME IInv PROVE NobodyLeftAsleep
  <2>1. mpc = "join" => \A th \in PoolThreads : tpc[th] # "asleep"
    BY <1>1, Facts DEF Stopping
  <2>2. ASSUME mpc \notin EndPlaces, NEW task \in Awaited \ ended
        PROVE  owed \/ \E th \in PoolThreads : tpc[th] \in {"check", "run"}
    <3>1. task \in Queued \/ task \in RunningTasks
      BY <2>2, <1>1, Facts DEF AwaitedKnown, Known, Pending
    <3>2. CASE task \in Queued
      <4>1. tasks # <<>>
        BY <3>2 DEF Queued
      <4> QED
        BY <4>1, <1>1, Facts DEF PoolInv
    <3>3. CASE task \in RunningTasks
      BY <3>3, <1>1, Facts DEF RunningTasks, PoolInv, PoolTypeOK
    <3> QED
      BY <3>1, <3>2, <3>3
  <2>3. mpc \notin EndPlaces => Awaited \subseteq Known
    BY <1>1, Facts DEF AwaitedKnown
  <2> QED
    BY <2>1, <2>2, <2>3 DEF NobodyLeftAsleep
<1> QED
  BY <1>1, Inductive, PTL

-----------------------------------------------------------------------------
(* The sort has its threads.                                               *)

\* While a part of the sort is under way, only parts of the same pass and the
\* media are, whether or not an exception has left the sort.
LEMMA OnlySortAndMedia ==
  ASSUME IInv, OneLoop, NEW part_of \in Pending, part_of[1] \in {"count", "scatter"}
  PROVE  \E parts : \E g \in Surjection(Parts, parts) : Pending \subseteq parts \cup {media}
<1>1. /\ \A i : bank(i)[1] = "bank"
      /\ media[1] = "media" /\ hash[1] = "hash" /\ \A r : range(r)[1] = "range"
  BY DEF bank, media, hash, range
<1>2. pass # 0
  <2>1. Begun(part_of) /\ pass \in Nat
    BY Facts DEF Positions
  <2>2. 1..0 = {}
    OBVIOUS
  <2> QED
    BY <1>1, <2>1, <2>2 DEF Begun
<1>3. Len(out)..(next - 1) = {}
  BY <1>2, Facts DEF Positions, WindowShape
<1>4. PICK loop \in Loops : \A task \in Pending : task \in loop \/ Lasting(task)
  BY DEF OneLoop
<1>5. part_of \in loop
  BY <1>1, <1>4 DEF Lasting
<1>6. \A i : bank(i) \notin Pending
  BY <1>3, Facts, Shapes DEF Remains
<1>7. Pending \subseteq loop \cup {media}
  BY <1>4, <1>6 DEF Lasting
<1>8. CASE \E p \in 1..Passes : loop = {count(p, t) : t \in Parts}
  <2>1. PICK p \in 1..Passes : loop = {count(p, t) : t \in Parts}
    BY <1>8
  <2>2. [t \in Parts |-> count(p, t)] \in Surjection(Parts, loop)
    BY <2>1 DEF Surjection
  <2> QED
    BY <1>7, <2>2
<1>9. CASE \E p \in 1..Passes : loop = {scatter(p, t) : t \in Parts}
  <2>1. PICK p \in 1..Passes : loop = {scatter(p, t) : t \in Parts}
    BY <1>9
  <2>2. [t \in Parts |-> scatter(p, t)] \in Surjection(Parts, loop)
    BY <2>1 DEF Surjection
  <2> QED
    BY <1>7, <2>2
<1>10. loop # {hash} \cup {range(r) : r \in 1..(ranges - 1)}
  BY <1>1, <1>5
<1> QED
  BY <1>8, <1>9, <1>10 DEF Loops

\* There are fewer parts than threads when media is on the pool.
LEMMA PartsFewer ==
  ASSUME PoolThreads \in Pools, media_on_pool
  PROVE  IsFiniteSet(Parts) /\ Cardinality(Parts) + 1 <= Cardinality(PoolThreads)
<1>1. num_threads \in 1..8 /\ num_threads <= sort_threads /\ Cardinality(PoolThreads) \in Nat
  BY Sizes
<1>2. sort_threads = Cardinality(PoolThreads) - 1
  BY DEF sort_threads
<1>3. IsFiniteSet(0..(num_threads - 1)) /\ Cardinality(0..(num_threads - 1)) = num_threads
  <2>1. 0 \in Int /\ num_threads - 1 \in Int
    BY <1>1
  <2>2. /\ IsFiniteSet(0..(num_threads - 1))
        /\ Cardinality(0..(num_threads - 1)) = IF 0 > num_threads - 1 THEN 0 ELSE (num_threads - 1) - 0 + 1
    BY <2>1, FS_Interval
  <2> QED
    BY <1>1, <2>2
<1>4. Parts \in SUBSET (0..(num_threads - 1))
  BY DEF Parts
<1>5. IsFiniteSet(Parts) /\ Cardinality(Parts) <= num_threads
  BY <1>3, <1>4, FS_Subset
<1>6. Cardinality(Parts) \in Nat
  BY <1>5, FS_CardinalityType
<1> QED
  BY <1>1, <1>2, <1>5, <1>6

\* While media runs, each part of the sort in the queue has a thread free to
\* take it: the threads at work run the media and other parts, and the sort is
\* cut into fewer parts than there are threads (importer.cpp:1176, 1183).
THEOREM SortHasThreads == Spec => []SortNeverBehindMedia
<1>1. ASSUME IInv, OneLoop, media_on_pool
      PROVE  Cardinality({task \in Queued : task[1] \in {"count", "scatter"}})
               <= Cardinality({th \in PoolThreads : tpc[th] \in {"check", "asleep"}})
  <2> DEFINE Q == {task \in Queued : task[1] \in {"count", "scatter"}}
             A == {th \in PoolThreads : tpc[th] \in {"check", "asleep"}}
             B == {th \in PoolThreads : tpc[th] = "run"}
             n == Cardinality(PoolThreads)
  <2>1. PoolThreads \in Pools /\ IsFiniteSet(PoolThreads) /\ n \in Nat
    BY <1>1, Facts, Sizes DEF PoolInv, PoolTypeOK
  <2>2. IsFiniteSet(A) /\ IsFiniteSet(B) /\ Cardinality(A) \in Nat /\ Cardinality(B) \in Nat
    <3>1. A \in SUBSET PoolThreads /\ B \in SUBSET PoolThreads
      OBVIOUS
    <3>2. IsFiniteSet(A) /\ IsFiniteSet(B)
      BY <2>1, <3>1, FS_Subset
    <3> QED
      BY <3>2, FS_CardinalityType
  <2>3. CASE Q = {}
    BY <2>2, <2>3, FS_EmptySet
  <2>4. CASE Q # {}
    <3>1. PICK parts : \E g \in Surjection(Parts, parts) : Pending \subseteq parts \cup {media}
      BY <1>1, <2>4, OnlySortAndMedia DEF Pending
    <3>2. Q \cup RunningTasks \subseteq parts \cup {media} /\ Q \cap RunningTasks = {}
      BY <3>1, <1>1, Facts DEF Pending, PoolInv, EachTaskOnce
    <3>3. IsFiniteSet(parts \cup {media}) /\ Cardinality(parts \cup {media}) <= n
      <4>1. IsFiniteSet(Parts) /\ Cardinality(Parts) + 1 <= n /\ Cardinality(Parts) \in Nat
        BY <1>1, <2>1, PartsFewer, FS_CardinalityType
      <4>2. PICK g : g \in Surjection(Parts, parts)
        BY <3>1
      <4>3. IsFiniteSet(parts) /\ Cardinality(parts) <= Cardinality(Parts)
        BY <4>1, <4>2, FS_Surjection
      <4>4. Cardinality(parts) \in Nat
        BY <4>3, FS_CardinalityType
      <4>5. /\ IsFiniteSet(parts \cup {media})
            /\ Cardinality(parts \cup {media})
                 = IF media \in parts THEN Cardinality(parts) ELSE Cardinality(parts) + 1
        BY <4>3, FS_AddElement
      <4> QED
        BY <2>1, <4>1, <4>3, <4>4, <4>5
    <3>4. IsFiniteSet(RunningTasks) /\ Cardinality(RunningTasks) = Cardinality(B)
      <4> DEFINE f == [th \in B |-> current[th]]
      <4>1. \A th \in PoolThreads : th \in B <=> current[th] # None
        BY <1>1, Facts DEF PoolInv, PoolTypeOK
      <4>2. f \in Surjection(B, RunningTasks)
        BY <4>1 DEF Surjection, RunningTasks
      <4>3. f \in Injection(B, RunningTasks)
        <5>1. \A a, b \in B : f[a] = f[b] => a = b
          BY <4>1, <1>1, Facts DEF PoolInv, EachTaskOnce
        <5>2. f \in [B -> RunningTasks]
          BY <4>2 DEF Surjection
        <5> HIDE DEF f, B
        <5> QED
          BY <5>1, <5>2 DEF Injection, IsInjective
      <4> HIDE DEF f
      <4> QED
        BY <4>2, <4>3, <2>2, FS_Surjection
    <3>5. n = Cardinality(A) + Cardinality(B)
      <4>1. \A th \in PoolThreads : tpc[th] # "exited"
        BY <2>4, <1>1, Facts DEF PoolInv, Queued
      <4>2. PoolThreads = A \cup B /\ A \cap B = {}
        BY <4>1, <1>1, Facts DEF PoolInv, PoolTypeOK
      <4>3. Cardinality(A \cup B) = Cardinality(A) + Cardinality(B) - Cardinality(A \cap B)
        BY <2>2, FS_Union
      <4> HIDE DEF A, B
      <4>4. Cardinality(A \cap B) = 0
        BY <4>2, FS_EmptySet
      <4>5. n = Cardinality(A \cup B)
        BY <4>2
      <4> QED
        BY <4>3, <4>4, <4>5, <2>2
    <3>6. IsFiniteSet(Q) /\ Cardinality(Q) + Cardinality(RunningTasks) <= n
      <4> HIDE DEF Q
      <4>1. Q \in SUBSET (parts \cup {media}) /\ Q \cup RunningTasks \in SUBSET (parts \cup {media})
        BY <3>2
      <4>2. IsFiniteSet(Q) /\ Cardinality(Q \cup RunningTasks) <= Cardinality(parts \cup {media})
        BY <4>1, <3>3, FS_Subset
      <4>3. Cardinality(Q \cup RunningTasks)
              = Cardinality(Q) + Cardinality(RunningTasks) - Cardinality(Q \cap RunningTasks)
        BY <4>2, <3>4, FS_Union
      <4>4. Cardinality(Q \cap RunningTasks) = 0
        BY <3>2, FS_EmptySet
      <4>5. /\ Cardinality(Q) \in Nat /\ Cardinality(RunningTasks) \in Nat
            /\ Cardinality(parts \cup {media}) \in Nat
        BY <4>2, <3>3, <3>4, FS_CardinalityType
      <4> QED
        BY <4>2, <4>3, <4>4, <4>5, <3>3, <2>1
    <3>7. Cardinality(Q) \in Nat
      BY <3>6, FS_CardinalityType
    <3>8. Cardinality(Q) <= Cardinality(A)
      <4> HIDE DEF Q, A, B, n
      <4> QED
        BY <3>4, <3>5, <3>6, <3>7, <2>1, <2>2
    <3> QED
      BY <3>8
  <2> QED
    BY <2>3, <2>4
<1>2. IInv /\ OneLoop => SortNeverBehindMedia
  BY <1>1 DEF SortNeverBehindMedia
<1> QED
  BY <1>2, Inductive, PendingInOneLoop, PTL

-----------------------------------------------------------------------------
(* The banks: a refinement of OrderedWrite.                                *)

LEMMA AbstractInit == Init => Abstract!Init
BY DEF Init, WindowInit, Abstract!Init

\* Outside the windows neither the banks nor their outcome change.
LEMMA OutsideBanks ==
  ASSUME UNCHANGED out, \/ mpc' = mpc
                        \/ mpc \notin BankPlaces /\ mpc' \notin BankPlaces
  PROVE  UNCHANGED Abstract!vars
BY DEF Abstract!vars, BankPlaces

LEMMA MainMovesOn ==
  ASSUME Main, ~Banks
  PROVE  UNCHANGED out /\ (mpc' = mpc \/ (mpc \notin BankPlaces /\ mpc' \notin BankPlaces))
BY DEF Main, SubmitNotifies, ListsThrow, SubmitMedia, BeginSort, SubmitCount, CountsDone, SubmitScatter, ScatterDone,
  SubmitHash, WriteIndex, WriteIndexThrows, BeginBloom, BloomThrows, SpawnRange, BloomDone, HashGet, HashGetThrows,
  MediaGet, MediaGetThrows, WriteJson, WriteJsonThrows, StopPool, NotifyStop, JoinPool, RemoveAll, Unwind, Throw,
  MemoryThrows, SubmitCountThrows, SubmitScatterThrows, SpawnRangeThrows, ThrowAround, Counted, At, GoTo, main, windows,
  BankPlaces

LEMMA BanksStep ==
  ASSUME IInv, Banks PROVE [Abstract!Next]_(Abstract!vars)
<1>1. CASE WriteBank
  <2>1. mpc = "put" /\ mpc' = "loop" /\ out' = Append(out, Head(window)) /\ window # <<>>
    BY <1>1, Facts DEF WriteBank, At, GoTo, WindowShape
  <2>2. 1 \in 1..Len(window) /\ Head(window) = window[1]
    BY <2>1, Facts DEF WindowShape
  <2>3. Head(window) = Len(out) /\ Len(out) < N
    BY <2>2, Facts DEF WindowShape
  <2> QED
    BY <2>1, <2>3 DEF Abstract!Next, Abstract!Write
<1>2. CASE GetThrows \/ WriteThrows
  <2>1. mpc \in {"get", "put"} /\ mpc' = "stop" /\ out' = out /\ Len(out) # N
    BY <1>2, Facts DEF GetThrows, WriteThrows, At, GoTo, windows, WindowShape
  <2> QED
    BY <2>1 DEF Abstract!Next, Abstract!Throw
<1>3. CASE EndList
  <2>1. mpc = "loop" /\ out' = out /\ mpc' \in {"loop", "media"}
    BY <1>3 DEF EndList, At, GoTo
  <2>2. CASE mpc' = "loop"
    BY <2>1, <2>2, OutsideBanks
  <2>3. CASE mpc' = "media"
    <3>1. Len(out) = N
      BY <1>3, <2>3, Facts, BankNumbers DEF EndList, At, GoTo, WindowShape, N
    <3> QED
      BY <2>1, <2>3, <3>1 DEF Abstract!Next, Abstract!Return
  <2> QED
    BY <2>1, <2>2, <2>3
<1>4. CASE SubmitBankThrows
  <2>1. mpc = "loop" /\ mpc' = "stop" /\ out' = out /\ next < UptoList[list]
    BY <1>4 DEF SubmitBankThrows, EnqueueBank, At, GoTo, windows
  <2>2. Len(out) # N
    BY <2>1, Facts, BankNumbers DEF WindowShape
  <2> QED
    BY <2>1, <2>2 DEF Abstract!Next, Abstract!Throw
<1>5. CASE SubmitBank \/ Drain \/ Get
  <2>1. mpc \in {"loop", "get"} /\ mpc' \in {"loop", "get", "put"} /\ out' = out
    BY <1>5 DEF SubmitBank, EnqueueBank, Drain, Get, At, GoTo, AfterSubmit, windows
  <2> QED
    BY <2>1 DEF Abstract!vars
<1> QED
  BY <1>1, <1>2, <1>3, <1>4, <1>5 DEF Banks, WindowStep

\* Whatever throws and however the threads interleave, the metadata and kanji
\* banks of all lists are in blobs.bin one by one in order, and the import gets
\* past them only after the last or by an exception.
THEOREM Refinement == Spec => WritesInOrder
<1>1. IInv /\ [Next]_vars => [Abstract!Next]_(Abstract!vars)
  <2> SUFFICES ASSUME IInv, [Next]_vars PROVE [Abstract!Next]_(Abstract!vars)
    OBVIOUS
  <2>1. CASE Banks
    BY <2>1, BanksStep
  <2>2. CASE Main /\ ~Banks
    BY <2>2, MainMovesOn, OutsideBanks
  <2>3. ASSUME NEW th \in PoolThreads, Thread(th) PROVE UNCHANGED Abstract!vars
    BY <2>3, OutsideBanks DEF Thread, main
  <2>4. CASE UNCHANGED vars
    BY <2>4, OutsideBanks DEF vars
  <2> QED
    BY <2>1, <2>2, <2>3, <2>4 DEF Next
<1> QED
  BY <1>1, AbstractInit, Inductive, PTL DEF Spec, WritesInOrder, Abstract!Spec
================================================================================
