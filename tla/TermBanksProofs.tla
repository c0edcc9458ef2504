---------------------------- MODULE TermBanksProofs ----------------------------
(***************************************************************************)
(* The pipeline of write_terms is correct for every number of banks, of    *)
(* workers and every size of the window: types, the window's bounds, the   *)
(* place of every bank, freedom from deadlock, the join on the way out and *)
(* the refinement of OrderedWrite.                                         *)
(*                                                                         *)
(* The inductive invariant IInv adds to the checked invariants where the   *)
(* writer stands (WriterPosition), what a worker that left knows           *)
(* (LeftForGood) and, for deadlock freedom, that a sleeper whose predicate *)
(* has become true always has somebody who is still going to notify it     *)
(* (SleepersHaveWaker, MainHasWaker).                                      *)
(***************************************************************************)
EXTENDS TermBanks, FiniteSetTheorems, TLAPS

\* next_to_write, index and the length of the output agree, up to the two
\* steps between writing a bank and moving on to the next.
WriterPosition ==
  /\ next_to_write = IF mpc = "notify" THEN index + 1 ELSE index
  /\ Len(out) = IF mpc \in {"progress", "notify"} THEN index + 1 ELSE index
  /\ mpc \in {"asleep", "write", "progress", "notify"} => index < N
  /\ mpc \in {"write", "progress"} => index < next_task
  /\ \A w \in Workers : Working(w) => task[w] \notin InWriter

\* failed and worker_error never turn back, and a worker leaves for a reason
\* that stays.
LeftForGood ==
  /\ worker_error \/ mpc \in {"notify_abort", "join", "thrown"} => failed
  /\ failed => worker_error \/ mpc \in {"notify_abort", "join", "thrown"}
  /\ \A w \in Workers :
       /\ wpc[w] = "done" => NothingToClaim
       /\ wpc[w] = "last_notify" => failed
       /\ wpc[w] = "unsubmitted" => mpc \in {"submit", "abort", "notify_abort", "join", "thrown"}

WorkerWillNotify == \E w \in Workers : wpc[w] \in {"notify", "last_notify"}

\* A worker asleep though it could leave or claim has a notification coming.
SleepersHaveWaker ==
  \A w \in Workers : wpc[w] = "asleep" /\ (NothingToClaim \/ can_claim_task) =>
    \/ WorkerWillNotify
    \/ mpc \in {"notify", "notify_abort"}
    \/ \E v \in Workers : Working(v)

\* The importing thread asleep though its bank is ready, or a worker failed.
MainHasWaker ==
  mpc = "asleep" /\ (worker_error \/ index \in processed) => WorkerWillNotify

IInv ==
  /\ TypeOK
  /\ WindowBounded
  /\ EachBankInOnePlace
  /\ WriterPosition
  /\ LeftForGood
  /\ SleepersHaveWaker
  /\ MainHasWaker
  /\ LeavesAlone

LEMMA Constants == N \in Nat \ {0} /\ MaxBytes \in Nat /\ MaxAhead \in Nat \ {0} /\ Workers # {}
<1>1. Cardinality(Workers) \in 1..N
  BY BanksAssumption
<1>2. Workers # {}
  BY <1>1, FS_EmptySet
<1>3. MaxAhead \in Nat \ {0}
  BY <1>1, BanksAssumption DEF MaxAhead
<1> QED
  BY <1>2, <1>3, BanksAssumption

LEMMA UptoGrows ==
  ASSUME NEW i \in 0..N, NEW j \in 0..N, i <= j
  PROVE  Upto[i] \in Nat /\ Upto[j] \in Nat /\ Upto[i] <= Upto[j]
  BY BanksAssumption

LEMMA BankSizes ==
  ASSUME NEW i \in Banks
  PROVE  task_bytes(i) \in Nat /\ Upto[i + 1] = Upto[i] + task_bytes(i)
<1>1. i \in 0..N /\ i + 1 \in 0..N /\ i <= i + 1
  BY Constants DEF Banks
<1>2. Upto[i] \in Nat /\ Upto[i + 1] \in Nat /\ Upto[i] <= Upto[i + 1]
  BY <1>1, UptoGrows
<1> QED
  BY <1>2 DEF task_bytes

LEMMA Initially == Init => IInv
<1> SUFFICES ASSUME Init PROVE IInv
  OBVIOUS
<1> USE Constants DEF Init
<1>1. TypeOK
  <2>1. task \in [Workers -> Banks] /\ index \in 0..N
    BY DEF Banks
  <2>2. wpc \in [Workers -> {"unsubmitted", "check", "asleep", "work", "notify", "last_notify", "done"}]
    OBVIOUS
  <2>3. failed \in BOOLEAN /\ worker_error \in BOOLEAN
    OBVIOUS
  <2>4. out \in Seq(Banks) /\ processed \subseteq Banks
    OBVIOUS
  <2> QED
    BY <2>1, <2>2, <2>3, <2>4 DEF TypeOK
<1>2. WindowBounded
  BY UptoGrows DEF WindowBounded
<1>3. EachBankInOnePlace
  BY DEF EachBankInOnePlace, Working, InWriter
<1>4. WriterPosition /\ LeftForGood
  BY DEF WriterPosition, LeftForGood, Working, InWriter
<1>5. SleepersHaveWaker /\ MainHasWaker /\ LeavesAlone
  BY DEF SleepersHaveWaker, MainHasWaker, LeavesAlone, Ended
<1> QED
  BY <1>1, <1>2, <1>3, <1>4, <1>5 DEF IInv

LEMMA ClaimKeeps ==
  ASSUME IInv, NEW w \in Workers, Claim(w) PROVE IInv'
<1> USE Constants DEF IInv, TypeOK, Claim, Banks
<1>1. TypeOK'
  <2>1. next_task \in Banks
    BY DEF can_claim_task
  <2>2. bytes_ahead' \in Nat
    BY <2>1, BankSizes
  <2>3. task' \in [Workers -> Banks]
    BY <2>1
  <2>4. wpc' \in [Workers -> {"unsubmitted", "check", "asleep", "work", "notify", "last_notify", "done"}]
    OBVIOUS
  <2> QED
    BY <2>1, <2>2, <2>3, <2>4
<1>2. WindowBounded'
  <2>1. next_task \in Banks
    BY DEF can_claim_task
  <2>2. bytes_ahead' = Upto[next_task'] - Upto[next_to_write']
    <3>1. Upto[next_task] \in Nat /\ Upto[next_to_write] \in Nat
      BY UptoGrows DEF WindowBounded
    <3>2. task_bytes(next_task) \in Nat /\ Upto[next_task + 1] = Upto[next_task] + task_bytes(next_task)
      BY <2>1, BankSizes
    <3>3. bytes_ahead = Upto[next_task] - Upto[next_to_write]
      BY DEF WindowBounded
    <3> QED
      BY <3>1, <3>2, <3>3
  <2>3. bytes_ahead' <= MaxBytes \/ \E i \in Banks : bytes_ahead' <= task_bytes(i)
    <3>1. CASE bytes_ahead = 0
      BY <3>1, <2>1, BankSizes
    <3>2. CASE bytes_ahead # 0 /\ bytes_ahead <= MaxBytes
      BY <3>2, <2>1, BankSizes DEF can_claim_task
    <3>3. CASE bytes_ahead > MaxBytes
      <4>1. task_bytes(next_task) = 0
        BY <3>3, <2>1, BankSizes DEF can_claim_task
      <4> QED
        BY <3>3, <4>1 DEF WindowBounded
    <3> QED
      BY <3>1, <3>2, <3>3
  <2> QED
    BY <2>1, <2>2, <2>3 DEF WindowBounded, can_claim_task
<1>3. EachBankInOnePlace'
  <2>1. next_task \in Banks /\ next_to_write <= next_task
    BY DEF can_claim_task, WindowBounded
  <2>2. next_to_write'..(next_task' - 1) = (next_to_write..(next_task - 1)) \cup {next_task}
    BY <2>1
  <2>3. \A v \in Workers : Working(v)' <=> (v = w \/ Working(v))
    BY DEF Working
  <2>4. \A v \in Workers : task'[v] = IF v = w THEN next_task ELSE task[v]
    OBVIOUS
  <2>5. ~Working(w) /\ \A v \in Workers : Working(v) => task[v] < next_task
    BY DEF Working, EachBankInOnePlace
  <2>6. InWriter' = InWriter
    BY DEF InWriter
  <2>7. {task'[v] : v \in {u \in Workers : Working(u)'}}
          = {task[v] : v \in {u \in Workers : Working(u)}} \cup {next_task}
    BY <2>3, <2>4, <2>5
  <2>8. next_task \notin processed /\ processed \subseteq next_to_write'..(next_task' - 1)
    BY <2>1, <2>2 DEF EachBankInOnePlace
  <2>9. \A v, u \in Workers : Working(v)' /\ Working(u)' /\ task'[v] = task'[u] => v = u
    BY <2>3, <2>4, <2>5 DEF EachBankInOnePlace
  <2>10. \A v \in Workers : Working(v)' => task'[v] \notin processed' /\ task'[v] \in next_to_write'..(next_task' - 1)
    BY <2>1, <2>2, <2>3, <2>4, <2>8 DEF EachBankInOnePlace
  <2> QED
    BY <2>2, <2>6, <2>7, <2>8, <2>9, <2>10 DEF EachBankInOnePlace
<1>4. WriterPosition'
  BY DEF WriterPosition, EachBankInOnePlace, WindowBounded, Working, InWriter, shared
<1>5. LeftForGood'
  BY DEF LeftForGood, NothingToClaim, Woken, MainWoken, Joined, shared
<1>6. SleepersHaveWaker'
  BY DEF SleepersHaveWaker, NothingToClaim, can_claim_task, task_bytes, WorkerWillNotify, Working, Woken, MainWoken, shared
<1>7. MainHasWaker'
  BY DEF MainHasWaker, WorkerWillNotify, Woken, MainWoken, shared
<1>8. LeavesAlone'
  BY DEF LeavesAlone, Ended, Joined, Woken, MainWoken, shared
<1> QED
  BY <1>1, <1>2, <1>3, <1>4, <1>5, <1>6, <1>7, <1>8

LEMMA SleepKeeps ==
  ASSUME IInv, NEW w \in Workers, Sleep(w) PROVE IInv'
<1> USE Constants DEF IInv, TypeOK, Sleep, Banks
<1>1. TypeOK'
  BY DEF WindowBounded, WriterPosition, LeftForGood, task_bytes, shared
<1>2. WindowBounded'
  BY DEF WindowBounded, WriterPosition, can_claim_task, task_bytes, shared
<1>3. EachBankInOnePlace'
  BY DEF EachBankInOnePlace, WriterPosition, LeftForGood, WindowBounded, Working, InWriter, shared
<1>4. WriterPosition'
  BY DEF WriterPosition, EachBankInOnePlace, WindowBounded, Working, InWriter, shared
<1>5. LeftForGood'
  BY DEF LeftForGood, NothingToClaim, Woken, MainWoken, Joined, shared
<1>6. SleepersHaveWaker'
  BY DEF SleepersHaveWaker, NothingToClaim, can_claim_task, task_bytes, WorkerWillNotify, Working, Woken, MainWoken, shared
<1>7. MainHasWaker'
  BY DEF MainHasWaker, WorkerWillNotify, Woken, MainWoken, shared
<1>8. LeavesAlone'
  BY DEF LeavesAlone, Ended, Joined, Woken, MainWoken, shared
<1> QED
  BY <1>1, <1>2, <1>3, <1>4, <1>5, <1>6, <1>7, <1>8

LEMMA LeaveKeeps ==
  ASSUME IInv, NEW w \in Workers, Leave(w) PROVE IInv'
<1> USE Constants DEF IInv, TypeOK, Leave, Banks
<1>1. TypeOK'
  BY DEF WindowBounded, WriterPosition, LeftForGood, task_bytes, shared
<1>2. WindowBounded'
  BY DEF WindowBounded, WriterPosition, can_claim_task, task_bytes, shared
<1>3. EachBankInOnePlace'
  BY DEF EachBankInOnePlace, WriterPosition, LeftForGood, WindowBounded, Working, InWriter, shared
<1>4. WriterPosition'
  BY DEF WriterPosition, EachBankInOnePlace, WindowBounded, Working, InWriter, shared
<1>5. LeftForGood'
  BY DEF LeftForGood, NothingToClaim, Woken, MainWoken, Joined, shared
<1>6. SleepersHaveWaker'
  BY DEF SleepersHaveWaker, NothingToClaim, can_claim_task, task_bytes, WorkerWillNotify, Working, Woken, MainWoken, shared
<1>7. MainHasWaker'
  BY DEF MainHasWaker, WorkerWillNotify, Woken, MainWoken, shared
<1>8. LeavesAlone'
  BY DEF LeavesAlone, Ended, Joined, Woken, MainWoken, shared
<1> QED
  BY <1>1, <1>2, <1>3, <1>4, <1>5, <1>6, <1>7, <1>8

LEMMA DeliverKeeps ==
  ASSUME IInv, NEW w \in Workers, Deliver(w) PROVE IInv'
<1> USE Constants DEF IInv, TypeOK, Deliver, Banks
<1>1. TypeOK'
  BY DEF WindowBounded, WriterPosition, LeftForGood, task_bytes, shared
<1>2. WindowBounded'
  BY DEF WindowBounded, WriterPosition, can_claim_task, task_bytes, shared
<1>3. EachBankInOnePlace'
  BY ZenonT(30) DEF EachBankInOnePlace, WriterPosition, LeftForGood, WindowBounded, Working, InWriter, shared
<1>4. WriterPosition'
  BY DEF WriterPosition, EachBankInOnePlace, WindowBounded, Working, InWriter, shared
<1>5. LeftForGood'
  BY DEF LeftForGood, NothingToClaim, Woken, MainWoken, Joined, shared
<1>6. SleepersHaveWaker'
  BY DEF SleepersHaveWaker, NothingToClaim, can_claim_task, task_bytes, WorkerWillNotify, Working, Woken, MainWoken, shared
<1>7. MainHasWaker'
  BY DEF MainHasWaker, WorkerWillNotify, Woken, MainWoken, shared
<1>8. LeavesAlone'
  BY DEF LeavesAlone, Ended, Joined, Woken, MainWoken, shared
<1> QED
  BY <1>1, <1>2, <1>3, <1>4, <1>5, <1>6, <1>7, <1>8

LEMMA ProcessingThrowsKeeps ==
  ASSUME IInv, NEW w \in Workers, ProcessingThrows(w) PROVE IInv'
<1> USE Constants DEF IInv, TypeOK, ProcessingThrows, Banks
<1>1. TypeOK'
  BY DEF WindowBounded, WriterPosition, LeftForGood, task_bytes, shared
<1>2. WindowBounded'
  BY DEF WindowBounded, WriterPosition, can_claim_task, task_bytes, shared
<1>3. EachBankInOnePlace'
  BY DEF EachBankInOnePlace, WriterPosition, LeftForGood, WindowBounded, Working, InWriter, shared
<1>4. WriterPosition'
  BY DEF WriterPosition, EachBankInOnePlace, WindowBounded, Working, InWriter, shared
<1>5. LeftForGood'
  BY DEF LeftForGood, NothingToClaim, Woken, MainWoken, Joined, shared
<1>6. SleepersHaveWaker'
  BY DEF SleepersHaveWaker, NothingToClaim, can_claim_task, task_bytes, WorkerWillNotify, Working, Woken, MainWoken, shared
<1>7. MainHasWaker'
  BY DEF MainHasWaker, WorkerWillNotify, Woken, MainWoken, shared
<1>8. LeavesAlone'
  BY DEF LeavesAlone, Ended, Joined, Woken, MainWoken, shared
<1> QED
  BY <1>1, <1>2, <1>3, <1>4, <1>5, <1>6, <1>7, <1>8

LEMMA WorkerNotifiesKeeps ==
  ASSUME IInv, NEW w \in Workers, WorkerNotifies(w) PROVE IInv'
<1> USE Constants DEF IInv, TypeOK, WorkerNotifies, Banks
<1>1. TypeOK'
  <2>1. wpc' \in [Workers -> {"unsubmitted", "check", "asleep", "work", "notify", "last_notify", "done"}]
    BY DEF Woken
  <2>2. mpc' = mpc \/ mpc' = "check"
    BY DEF MainWoken
  <2> QED
    BY <2>1, <2>2 DEF shared
<1>2. WindowBounded'
  BY DEF WindowBounded, WriterPosition, can_claim_task, task_bytes, shared
<1>3. EachBankInOnePlace'
  <2>1. \A v \in Workers : Working(v)' <=> Working(v)
    BY DEF Working, Woken
  <2>2. InWriter' = InWriter /\ (mpc' = "abort" <=> mpc = "abort")
    BY DEF InWriter, MainWoken
  <2>3. {task'[v] : v \in {u \in Workers : Working(u)'}} = {task[v] : v \in {u \in Workers : Working(u)}}
    BY <2>1 DEF shared
  <2> QED
    BY <2>1, <2>2, <2>3 DEF EachBankInOnePlace, shared
<1>4. WriterPosition'
  <2>1. \A v \in Workers : Working(v)' <=> Working(v)
    BY DEF Working, Woken
  <2>2. mpc' = mpc \/ (mpc = "asleep" /\ mpc' = "check")
    BY DEF MainWoken
  <2>3. InWriter' = InWriter
    BY <2>2 DEF InWriter, shared
  <2> QED
    BY <2>1, <2>2, <2>3 DEF WriterPosition, shared
<1>5. LeftForGood'
  BY DEF LeftForGood, NothingToClaim, Woken, MainWoken, Joined, shared
<1>6. SleepersHaveWaker'
  BY DEF SleepersHaveWaker, NothingToClaim, can_claim_task, task_bytes, WorkerWillNotify, Working, Woken, MainWoken, shared
<1>7. MainHasWaker'
  BY DEF MainHasWaker, WorkerWillNotify, Woken, MainWoken, shared
<1>8. LeavesAlone'
  BY DEF LeavesAlone, Ended, Joined, Woken, MainWoken, shared
<1> QED
  BY <1>1, <1>2, <1>3, <1>4, <1>5, <1>6, <1>7, <1>8

LEMMA SubmitKeeps ==
  ASSUME IInv, NEW w \in Workers, Submit(w) PROVE IInv'
<1> USE Constants DEF IInv, TypeOK, Submit, Banks
<1>1. TypeOK'
  BY DEF WindowBounded, WriterPosition, LeftForGood, task_bytes, shared
<1>2. WindowBounded'
  BY DEF WindowBounded, WriterPosition, can_claim_task, task_bytes, shared
<1>3. EachBankInOnePlace'
  BY DEF EachBankInOnePlace, WriterPosition, LeftForGood, WindowBounded, Working, InWriter, shared
<1>4. WriterPosition'
  BY DEF WriterPosition, EachBankInOnePlace, WindowBounded, Working, InWriter, shared
<1>5. LeftForGood'
  BY DEF LeftForGood, NothingToClaim, Woken, MainWoken, Joined, shared
<1>6. SleepersHaveWaker'
  BY DEF SleepersHaveWaker, NothingToClaim, can_claim_task, task_bytes, WorkerWillNotify, Working, Woken, MainWoken, shared
<1>7. MainHasWaker'
  BY DEF MainHasWaker, WorkerWillNotify, Woken, MainWoken, shared
<1>8. LeavesAlone'
  BY DEF LeavesAlone, Ended, Joined, Woken, MainWoken, shared
<1> QED
  BY <1>1, <1>2, <1>3, <1>4, <1>5, <1>6, <1>7, <1>8

LEMMA SubmittedKeeps ==
  ASSUME IInv, Submitted PROVE IInv'
<1> USE Constants DEF IInv, TypeOK, Submitted, Banks
<1>1. TypeOK'
  BY DEF WindowBounded, WriterPosition, LeftForGood, task_bytes, shared
<1>2. WindowBounded'
  BY DEF WindowBounded, WriterPosition, can_claim_task, task_bytes, shared
<1>3. EachBankInOnePlace'
  BY DEF EachBankInOnePlace, WriterPosition, LeftForGood, WindowBounded, Working, InWriter, shared
<1>4. WriterPosition'
  BY DEF WriterPosition, EachBankInOnePlace, WindowBounded, Working, InWriter, shared
<1>5. LeftForGood'
  BY DEF LeftForGood, NothingToClaim, Woken, MainWoken, Joined, shared
<1>6. SleepersHaveWaker'
  BY DEF SleepersHaveWaker, NothingToClaim, can_claim_task, task_bytes, WorkerWillNotify, Working, Woken, MainWoken, shared
<1>7. MainHasWaker'
  BY DEF MainHasWaker, WorkerWillNotify, Woken, MainWoken, shared
<1>8. LeavesAlone'
  BY DEF LeavesAlone, Ended, Joined, Woken, MainWoken, shared
<1> QED
  BY <1>1, <1>2, <1>3, <1>4, <1>5, <1>6, <1>7, <1>8

LEMMA SubmitThrowsKeeps ==
  ASSUME IInv, SubmitThrows PROVE IInv'
<1> USE Constants DEF IInv, TypeOK, SubmitThrows, Banks
<1>1. TypeOK'
  BY DEF WindowBounded, WriterPosition, LeftForGood, task_bytes, shared
<1>2. WindowBounded'
  BY DEF WindowBounded, WriterPosition, can_claim_task, task_bytes, shared
<1>3. EachBankInOnePlace'
  BY DEF EachBankInOnePlace, WriterPosition, LeftForGood, WindowBounded, Working, InWriter, shared
<1>4. WriterPosition'
  BY DEF WriterPosition, EachBankInOnePlace, WindowBounded, Working, InWriter, shared
<1>5. LeftForGood'
  BY DEF LeftForGood, NothingToClaim, Woken, MainWoken, Joined, shared
<1>6. SleepersHaveWaker'
  BY DEF SleepersHaveWaker, NothingToClaim, can_claim_task, task_bytes, WorkerWillNotify, Working, Woken, MainWoken, shared
<1>7. MainHasWaker'
  BY DEF MainHasWaker, WorkerWillNotify, Woken, MainWoken, shared
<1>8. LeavesAlone'
  BY DEF LeavesAlone, Ended, Joined, Woken, MainWoken, shared
<1> QED
  BY <1>1, <1>2, <1>3, <1>4, <1>5, <1>6, <1>7, <1>8

LEMMA RethrowKeeps ==
  ASSUME IInv, Rethrow PROVE IInv'
<1> USE Constants DEF IInv, TypeOK, Rethrow, Banks
<1>1. TypeOK'
  BY DEF WindowBounded, WriterPosition, LeftForGood, task_bytes, shared
<1>2. WindowBounded'
  BY DEF WindowBounded, WriterPosition, can_claim_task, task_bytes, shared
<1>3. EachBankInOnePlace'
  BY DEF EachBankInOnePlace, WriterPosition, LeftForGood, WindowBounded, Working, InWriter, shared
<1>4. WriterPosition'
  BY DEF WriterPosition, EachBankInOnePlace, WindowBounded, Working, InWriter, shared
<1>5. LeftForGood'
  BY DEF LeftForGood, NothingToClaim, Woken, MainWoken, Joined, shared
<1>6. SleepersHaveWaker'
  BY DEF SleepersHaveWaker, NothingToClaim, can_claim_task, task_bytes, WorkerWillNotify, Working, Woken, MainWoken, shared
<1>7. MainHasWaker'
  BY DEF MainHasWaker, WorkerWillNotify, Woken, MainWoken, shared
<1>8. LeavesAlone'
  BY DEF LeavesAlone, Ended, Joined, Woken, MainWoken, shared
<1> QED
  BY <1>1, <1>2, <1>3, <1>4, <1>5, <1>6, <1>7, <1>8

LEMMA TakeKeeps ==
  ASSUME IInv, Take PROVE IInv'
<1> USE Constants DEF IInv, TypeOK, Take, Banks
<1>1. TypeOK'
  BY DEF WindowBounded, WriterPosition, LeftForGood, task_bytes, shared
<1>2. WindowBounded'
  BY DEF WindowBounded, WriterPosition, can_claim_task, task_bytes, shared
<1>3. EachBankInOnePlace'
  BY DEF EachBankInOnePlace, WriterPosition, LeftForGood, WindowBounded, Working, InWriter, shared
<1>4. WriterPosition'
  BY DEF WriterPosition, EachBankInOnePlace, WindowBounded, Working, InWriter, shared
<1>5. LeftForGood'
  BY DEF LeftForGood, NothingToClaim, Woken, MainWoken, Joined, shared
<1>6. SleepersHaveWaker'
  BY DEF SleepersHaveWaker, NothingToClaim, can_claim_task, task_bytes, WorkerWillNotify, Working, Woken, MainWoken, shared
<1>7. MainHasWaker'
  BY DEF MainHasWaker, WorkerWillNotify, Woken, MainWoken, shared
<1>8. LeavesAlone'
  BY DEF LeavesAlone, Ended, Joined, Woken, MainWoken, shared
<1> QED
  BY <1>1, <1>2, <1>3, <1>4, <1>5, <1>6, <1>7, <1>8

LEMMA MainSleepsKeeps ==
  ASSUME IInv, MainSleeps PROVE IInv'
<1> USE Constants DEF IInv, TypeOK, MainSleeps, Banks
<1>1. TypeOK'
  BY DEF WindowBounded, WriterPosition, LeftForGood, task_bytes, shared
<1>2. WindowBounded'
  BY DEF WindowBounded, WriterPosition, can_claim_task, task_bytes, shared
<1>3. EachBankInOnePlace'
  BY DEF EachBankInOnePlace, WriterPosition, LeftForGood, WindowBounded, Working, InWriter, shared
<1>4. WriterPosition'
  BY DEF WriterPosition, EachBankInOnePlace, WindowBounded, Working, InWriter, shared
<1>5. LeftForGood'
  BY DEF LeftForGood, NothingToClaim, Woken, MainWoken, Joined, shared
<1>6. SleepersHaveWaker'
  BY DEF SleepersHaveWaker, NothingToClaim, can_claim_task, task_bytes, WorkerWillNotify, Working, Woken, MainWoken, shared
<1>7. MainHasWaker'
  BY DEF MainHasWaker, WorkerWillNotify, Woken, MainWoken, shared
<1>8. LeavesAlone'
  BY DEF LeavesAlone, Ended, Joined, Woken, MainWoken, shared
<1> QED
  BY <1>1, <1>2, <1>3, <1>4, <1>5, <1>6, <1>7, <1>8

LEMMA WriteBankKeeps ==
  ASSUME IInv, WriteBank PROVE IInv'
<1> USE Constants DEF IInv, TypeOK, WriteBank, Banks
<1>1. TypeOK'
  BY DEF WindowBounded, WriterPosition, LeftForGood, task_bytes, shared
<1>2. WindowBounded'
  BY DEF WindowBounded, WriterPosition, can_claim_task, task_bytes, shared
<1>3. EachBankInOnePlace'
  BY DEF EachBankInOnePlace, WriterPosition, LeftForGood, WindowBounded, Working, InWriter, shared
<1>4. WriterPosition'
  BY DEF WriterPosition, EachBankInOnePlace, WindowBounded, Working, InWriter, shared
<1>5. LeftForGood'
  BY DEF LeftForGood, NothingToClaim, Woken, MainWoken, Joined, shared
<1>6. SleepersHaveWaker'
  BY DEF SleepersHaveWaker, NothingToClaim, can_claim_task, task_bytes, WorkerWillNotify, Working, Woken, MainWoken, shared
<1>7. MainHasWaker'
  BY DEF MainHasWaker, WorkerWillNotify, Woken, MainWoken, shared
<1>8. LeavesAlone'
  BY DEF LeavesAlone, Ended, Joined, Woken, MainWoken, shared
<1> QED
  BY <1>1, <1>2, <1>3, <1>4, <1>5, <1>6, <1>7, <1>8

LEMMA WriteThrowsKeeps ==
  ASSUME IInv, WriteThrows PROVE IInv'
<1> USE Constants DEF IInv, TypeOK, WriteThrows, Banks
<1>1. TypeOK'
  BY DEF WindowBounded, WriterPosition, LeftForGood, task_bytes, shared
<1>2. WindowBounded'
  BY DEF WindowBounded, WriterPosition, can_claim_task, task_bytes, shared
<1>3. EachBankInOnePlace'
  BY DEF EachBankInOnePlace, WriterPosition, LeftForGood, WindowBounded, Working, InWriter, shared
<1>4. WriterPosition'
  BY DEF WriterPosition, EachBankInOnePlace, WindowBounded, Working, InWriter, shared
<1>5. LeftForGood'
  BY DEF LeftForGood, NothingToClaim, Woken, MainWoken, Joined, shared
<1>6. SleepersHaveWaker'
  BY DEF SleepersHaveWaker, NothingToClaim, can_claim_task, task_bytes, WorkerWillNotify, Working, Woken, MainWoken, shared
<1>7. MainHasWaker'
  BY DEF MainHasWaker, WorkerWillNotify, Woken, MainWoken, shared
<1>8. LeavesAlone'
  BY DEF LeavesAlone, Ended, Joined, Woken, MainWoken, shared
<1> QED
  BY <1>1, <1>2, <1>3, <1>4, <1>5, <1>6, <1>7, <1>8

LEMMA ProgressKeeps ==
  ASSUME IInv, Progress PROVE IInv'
<1> USE Constants DEF IInv, TypeOK, Progress, Banks
<1>1. TypeOK'
  <2>1. index \in Banks /\ index = next_to_write /\ index < next_task
    BY DEF WriterPosition
  <2>2. /\ Upto[index] \in Nat /\ Upto[index + 1] \in Nat /\ Upto[next_task] \in Nat
        /\ Upto[index + 1] <= Upto[next_task] /\ Upto[index] <= Upto[index + 1]
    BY <2>1, UptoGrows
  <2>3. bytes_ahead' = Upto[next_task] - Upto[index + 1] /\ bytes_ahead' <= bytes_ahead
    <3>1. bytes_ahead = Upto[next_task] - Upto[index]
      BY <2>1 DEF WindowBounded
    <3> QED
      BY <2>2, <3>1 DEF task_bytes
  <2> QED
    BY <2>1, <2>2, <2>3
<1>2. WindowBounded'
  <2>1. index \in Banks /\ index = next_to_write /\ index < next_task
    BY DEF WriterPosition
  <2>2. /\ Upto[index] \in Nat /\ Upto[index + 1] \in Nat /\ Upto[next_task] \in Nat
        /\ Upto[index + 1] <= Upto[next_task] /\ Upto[index] <= Upto[index + 1]
    BY <2>1, UptoGrows
  <2>3. bytes_ahead' = Upto[next_task] - Upto[index + 1] /\ bytes_ahead' <= bytes_ahead
    <3>1. bytes_ahead = Upto[next_task] - Upto[index]
      BY <2>1 DEF WindowBounded
    <3> QED
      BY <2>2, <3>1 DEF task_bytes
  <2>4. bytes_ahead' <= MaxBytes \/ \E i \in Banks : bytes_ahead' <= task_bytes(i)
    <3>1. CASE bytes_ahead <= MaxBytes
      BY <3>1, <2>2, <2>3
    <3>2. ASSUME NEW i \in Banks, bytes_ahead <= task_bytes(i)
          PROVE  bytes_ahead' <= task_bytes(i)
      BY <3>2, <2>2, <2>3, BankSizes
    <3> QED
      BY <3>1, <3>2 DEF WindowBounded
  <2>5. bytes_ahead' = Upto[next_task'] - Upto[next_to_write']
    BY <2>1, <2>3
  <2>6. next_to_write' <= next_task' /\ next_task' <= next_to_write' + MaxAhead
    BY <2>1 DEF WindowBounded
  <2>7. (\E i \in Banks : bytes_ahead' <= task_bytes(i)) => (\E i \in Banks : bytes_ahead <= task_bytes(i))'
    BY DEF task_bytes
  <2> QED
    BY <2>4, <2>5, <2>6, <2>7 DEF WindowBounded
<1>3. EachBankInOnePlace'
  BY SMTT(30) DEF EachBankInOnePlace, WriterPosition, LeftForGood, WindowBounded, Working, InWriter, shared
<1>4. WriterPosition'
  BY DEF WriterPosition, EachBankInOnePlace, WindowBounded, Working, InWriter, shared
<1>5. LeftForGood'
  BY DEF LeftForGood, NothingToClaim, Woken, MainWoken, Joined, shared
<1>6. SleepersHaveWaker'
  BY DEF SleepersHaveWaker, NothingToClaim, can_claim_task, task_bytes, WorkerWillNotify, Working, Woken, MainWoken, shared
<1>7. MainHasWaker'
  BY DEF MainHasWaker, WorkerWillNotify, Woken, MainWoken, shared
<1>8. LeavesAlone'
  BY DEF LeavesAlone, Ended, Joined, Woken, MainWoken, shared
<1> QED
  BY <1>1, <1>2, <1>3, <1>4, <1>5, <1>6, <1>7, <1>8

LEMMA MainNotifiesKeeps ==
  ASSUME IInv, MainNotifies PROVE IInv'
<1> USE Constants DEF IInv, TypeOK, MainNotifies, Banks
<1>1. TypeOK'
  <2>1. wpc' \in [Workers -> {"unsubmitted", "check", "asleep", "work", "notify", "last_notify", "done"}]
    BY DEF Woken
  <2>2. index' \in 0..N
    BY DEF WriterPosition
  <2> QED
    BY <2>1, <2>2 DEF shared
<1>2. WindowBounded'
  BY DEF WindowBounded, WriterPosition, can_claim_task, task_bytes, shared
<1>3. EachBankInOnePlace'
  <2>1. \A v \in Workers : Working(v)' <=> Working(v)
    BY DEF Working, Woken
  <2>2. InWriter' = InWriter
    BY DEF InWriter
  <2>3. {task'[v] : v \in {u \in Workers : Working(u)'}} = {task[v] : v \in {u \in Workers : Working(u)}}
    BY <2>1 DEF shared
  <2> QED
    BY <2>1, <2>2, <2>3 DEF EachBankInOnePlace, shared
<1>4. WriterPosition'
  BY DEF WriterPosition, EachBankInOnePlace, WindowBounded, Working, InWriter, shared
<1>5. LeftForGood'
  BY DEF LeftForGood, NothingToClaim, Woken, MainWoken, Joined, shared
<1>6. SleepersHaveWaker'
  BY DEF SleepersHaveWaker, NothingToClaim, can_claim_task, task_bytes, WorkerWillNotify, Working, Woken, MainWoken, shared
<1>7. MainHasWaker'
  BY DEF MainHasWaker, WorkerWillNotify, Woken, MainWoken, shared
<1>8. LeavesAlone'
  BY DEF LeavesAlone, Ended, Joined, Woken, MainWoken, shared
<1> QED
  BY <1>1, <1>2, <1>3, <1>4, <1>5, <1>6, <1>7, <1>8

LEMMA AbortKeeps ==
  ASSUME IInv, Abort PROVE IInv'
<1> USE Constants DEF IInv, TypeOK, Abort, Banks
<1>1. TypeOK'
  BY DEF WindowBounded, WriterPosition, LeftForGood, task_bytes, shared
<1>2. WindowBounded'
  BY DEF WindowBounded, WriterPosition, can_claim_task, task_bytes, shared
<1>3. EachBankInOnePlace'
  BY DEF EachBankInOnePlace, WriterPosition, LeftForGood, WindowBounded, Working, InWriter, shared
<1>4. WriterPosition'
  BY DEF WriterPosition, EachBankInOnePlace, WindowBounded, Working, InWriter, shared
<1>5. LeftForGood'
  BY DEF LeftForGood, NothingToClaim, Woken, MainWoken, Joined, shared
<1>6. SleepersHaveWaker'
  BY DEF SleepersHaveWaker, NothingToClaim, can_claim_task, task_bytes, WorkerWillNotify, Working, Woken, MainWoken, shared
<1>7. MainHasWaker'
  BY DEF MainHasWaker, WorkerWillNotify, Woken, MainWoken, shared
<1>8. LeavesAlone'
  BY DEF LeavesAlone, Ended, Joined, Woken, MainWoken, shared
<1> QED
  BY <1>1, <1>2, <1>3, <1>4, <1>5, <1>6, <1>7, <1>8

LEMMA NotifyAbortKeeps ==
  ASSUME IInv, NotifyAbort PROVE IInv'
<1> USE Constants DEF IInv, TypeOK, NotifyAbort, Banks
<1>1. TypeOK'
  <2>1. wpc' \in [Workers -> {"unsubmitted", "check", "asleep", "work", "notify", "last_notify", "done"}]
    BY DEF Woken
  <2> QED
    BY <2>1 DEF shared
<1>2. WindowBounded'
  BY DEF WindowBounded, WriterPosition, can_claim_task, task_bytes, shared
<1>3. EachBankInOnePlace'
  <2>1. \A v \in Workers : Working(v)' <=> Working(v)
    BY DEF Working, Woken
  <2>2. InWriter' = InWriter
    BY DEF InWriter
  <2>3. {task'[v] : v \in {u \in Workers : Working(u)'}} = {task[v] : v \in {u \in Workers : Working(u)}}
    BY <2>1 DEF shared
  <2>4. failed
    BY DEF LeftForGood
  <2> QED
    BY <2>1, <2>2, <2>3, <2>4 DEF EachBankInOnePlace, shared
<1>4. WriterPosition'
  BY DEF WriterPosition, EachBankInOnePlace, WindowBounded, Working, InWriter, shared
<1>5. LeftForGood'
  BY DEF LeftForGood, NothingToClaim, Woken, MainWoken, Joined, shared
<1>6. SleepersHaveWaker'
  BY DEF SleepersHaveWaker, NothingToClaim, can_claim_task, task_bytes, WorkerWillNotify, Working, Woken, MainWoken, shared
<1>7. MainHasWaker'
  BY DEF MainHasWaker, WorkerWillNotify, Woken, MainWoken, shared
<1>8. LeavesAlone'
  BY DEF LeavesAlone, Ended, Joined, Woken, MainWoken, shared
<1> QED
  BY <1>1, <1>2, <1>3, <1>4, <1>5, <1>6, <1>7, <1>8

LEMMA ThrowKeeps ==
  ASSUME IInv, Throw PROVE IInv'
<1> USE Constants DEF IInv, TypeOK, Throw, Banks
<1>1. TypeOK'
  BY DEF WindowBounded, WriterPosition, LeftForGood, task_bytes, shared
<1>2. WindowBounded'
  BY DEF WindowBounded, WriterPosition, can_claim_task, task_bytes, shared
<1>3. EachBankInOnePlace'
  BY DEF EachBankInOnePlace, WriterPosition, LeftForGood, WindowBounded, Working, InWriter, shared
<1>4. WriterPosition'
  BY DEF WriterPosition, EachBankInOnePlace, WindowBounded, Working, InWriter, shared
<1>5. LeftForGood'
  BY DEF LeftForGood, NothingToClaim, Woken, MainWoken, Joined, shared
<1>6. SleepersHaveWaker'
  BY DEF SleepersHaveWaker, NothingToClaim, can_claim_task, task_bytes, WorkerWillNotify, Working, Woken, MainWoken, shared
<1>7. MainHasWaker'
  BY DEF MainHasWaker, WorkerWillNotify, Woken, MainWoken, shared
<1>8. LeavesAlone'
  BY DEF LeavesAlone, Ended, Joined, Woken, MainWoken, shared
<1> QED
  BY <1>1, <1>2, <1>3, <1>4, <1>5, <1>6, <1>7, <1>8

LEMMA ReturnKeeps ==
  ASSUME IInv, Return PROVE IInv'
<1> USE Constants DEF IInv, TypeOK, Return, Banks
<1>1. TypeOK'
  BY DEF WindowBounded, WriterPosition, LeftForGood, task_bytes, shared
<1>2. WindowBounded'
  BY DEF WindowBounded, WriterPosition, can_claim_task, task_bytes, shared
<1>3. EachBankInOnePlace'
  BY DEF EachBankInOnePlace, WriterPosition, LeftForGood, WindowBounded, Working, InWriter, shared
<1>4. WriterPosition'
  BY DEF WriterPosition, EachBankInOnePlace, WindowBounded, Working, InWriter, shared
<1>5. LeftForGood'
  BY DEF LeftForGood, NothingToClaim, Woken, MainWoken, Joined, shared
<1>6. SleepersHaveWaker'
  BY DEF SleepersHaveWaker, NothingToClaim, can_claim_task, task_bytes, WorkerWillNotify, Working, Woken, MainWoken, shared
<1>7. MainHasWaker'
  BY DEF MainHasWaker, WorkerWillNotify, Woken, MainWoken, shared
<1>8. LeavesAlone'
  BY DEF LeavesAlone, Ended, Joined, Woken, MainWoken, shared
<1> QED
  BY <1>1, <1>2, <1>3, <1>4, <1>5, <1>6, <1>7, <1>8

LEMMA StutterKeeps == IInv /\ UNCHANGED vars => IInv'
  BY DEF IInv, vars, TypeOK, WindowBounded, EachBankInOnePlace, WriterPosition, LeftForGood,
         SleepersHaveWaker, MainHasWaker, LeavesAlone, Working, InWriter, NothingToClaim, can_claim_task,
         WorkerWillNotify, Ended, Joined

LEMMA StepKeeps == IInv /\ [Next]_vars => IInv'
<1> SUFFICES ASSUME IInv, [Next]_vars PROVE IInv'
  OBVIOUS
<1>1. ASSUME NEW w \in Workers, Worker(w) PROVE IInv'
  BY <1>1, ClaimKeeps, SleepKeeps, LeaveKeeps, DeliverKeeps, ProcessingThrowsKeeps, WorkerNotifiesKeeps
     DEF Worker
<1>2. CASE Main
  BY <1>2, SubmitKeeps, SubmittedKeeps, SubmitThrowsKeeps, RethrowKeeps, TakeKeeps, MainSleepsKeeps,
     WriteBankKeeps, WriteThrowsKeeps, ProgressKeeps, MainNotifiesKeeps, AbortKeeps, NotifyAbortKeeps,
     ThrowKeeps, ReturnKeeps
     DEF Main
<1>3. CASE UNCHANGED vars
  BY <1>3, StutterKeeps
<1> QED
  BY <1>1, <1>2, <1>3 DEF Next

THEOREM Invariance == Spec => []IInv
  BY Initially, StepKeeps, PTL DEF Spec

\* Every variable keeps its type, for any number of banks and workers.
THEOREM TypeCorrect == Spec => []TypeOK
  BY Invariance, PTL DEF IInv

\* What is ahead of the writer never exceeds max_tasks_ahead banks, nor
\* max_bytes_ahead bytes unless one bank alone is larger.
THEOREM Bounded == Spec => []WindowBounded
  BY Invariance, PTL DEF IInv

\* No bank is lost, processed twice or processed after it was written.
THEOREM OnePlace == Spec => []EachBankInOnePlace
  BY Invariance, PTL DEF IInv

\* write_terms leaves only after every worker has.
THEOREM Alone == Spec => []LeavesAlone
  BY Invariance, PTL DEF IInv

\* The workers and the importing thread never all sleep: a sleeping writer
\* misses a bank, so either somebody is processing it or it is not claimed; if
\* it is not claimed nothing is ahead of the writer, and then the next bank can
\* be claimed whatever its size, so a sleeping worker has a waker.
LEMMA SomebodyAwake == IInv => NeverAllAsleep
<1> SUFFICES ASSUME IInv, mpc = "asleep", \A w \in Workers : wpc[w] \in {"asleep", "done"} PROVE FALSE
  BY DEF NeverAllAsleep
<1>1. ~WorkerWillNotify /\ \A w \in Workers : ~Working(w)
  BY DEF WorkerWillNotify, Working
<1>2. ~worker_error /\ index \notin processed
  BY <1>1 DEF IInv, MainHasWaker
<1>3. ~failed
  BY <1>2 DEF IInv, LeftForGood
<1>4. index = next_to_write /\ index < N /\ InWriter = {}
  BY DEF IInv, WriterPosition, InWriter
<1>5. next_to_write..(next_task - 1) = processed
  BY <1>1, <1>3, <1>4 DEF IInv, EachBankInOnePlace
<1>6. next_task = next_to_write
  BY <1>2, <1>4, <1>5 DEF IInv, TypeOK, WindowBounded
<1>7. bytes_ahead = 0
  <2>1. Upto[next_task] \in Nat
    BY UptoGrows DEF IInv, TypeOK
  <2> QED
    BY <2>1, <1>6 DEF IInv, WindowBounded
<1>8. can_claim_task
  BY <1>4, <1>6, <1>7, Constants DEF can_claim_task, IInv, TypeOK
<1>9. ~NothingToClaim
  BY <1>3, <1>4, <1>6, Constants DEF NothingToClaim, IInv, TypeOK
<1>10. PICK w \in Workers : wpc[w] = "asleep"
  BY <1>9, Constants DEF IInv, LeftForGood
<1> QED
  BY <1>1, <1>8, <1>10 DEF IInv, SleepersHaveWaker

\* No interleaving of claims, deliveries and notifications puts everybody to
\* sleep: the pipeline is free of deadlock and of lost wake-ups.  And no worker
\* outlives the call.
THEOREM NoDeadlock == Spec => []NoThreadLeftBehind
<1>1. IInv => NoThreadLeftBehind
  BY SomebodyAwake DEF NoThreadLeftBehind, IInv
<1> QED
  BY <1>1, Invariance, PTL

LEMMA AbstractInit == Init => Abstract!Init
  BY DEF Init, Abstract!Init

LEMMA AbstractStep == IInv /\ [Next]_vars => [Abstract!Next]_(Abstract!vars)
<1> SUFFICES ASSUME IInv, [Next]_vars PROVE [Abstract!Next]_(Abstract!vars)
  OBVIOUS
<1> USE DEF Abstract!vars, Abstract!Next
<1>1. ASSUME NEW w \in Workers, Worker(w) PROVE UNCHANGED Abstract!vars
  BY <1>1 DEF Worker, Claim, Sleep, Leave, Deliver, ProcessingThrows, WorkerNotifies, MainWoken, shared
<1>2. CASE WriteBank
  <2>1. Len(out) = index /\ index < N
    BY <1>2 DEF WriteBank, IInv, WriterPosition
  <2>2. Abstract!Write
    BY <1>2, <2>1 DEF WriteBank, Abstract!Write
  <2> QED
    BY <2>2
<1>3. CASE Return
  <2>1. Len(out) = N
    BY <1>3 DEF Return, IInv, WriterPosition
  <2> QED
    BY <1>3, <2>1 DEF Return, Abstract!Return
<1>4. CASE Throw
  BY <1>4 DEF Throw, Abstract!Throw
<1>5. CASE \/ \E w \in Workers : Submit(w)
           \/ Submitted \/ SubmitThrows \/ Rethrow \/ Take \/ MainSleeps
           \/ WriteThrows \/ Progress \/ MainNotifies \/ Abort \/ NotifyAbort
  BY <1>5 DEF Submit, Submitted, SubmitThrows, Rethrow, Take, MainSleeps, WriteThrows, Progress,
              MainNotifies, Abort, NotifyAbort
<1>6. CASE UNCHANGED vars
  BY <1>6 DEF vars
<1> QED
  BY <1>1, <1>2, <1>3, <1>4, <1>5, <1>6 DEF Next, Main

\* write_terms implements OrderedWrite: the banks reach the file in order, each
\* once, and the call returns only after the last.
THEOREM Refinement == Spec => WritesInOrder
<1>1. Init => Abstract!Init
  BY AbstractInit
<1>2. IInv /\ [Next]_vars => [Abstract!Next]_(Abstract!vars)
  BY AbstractStep
<1> QED
  BY <1>1, <1>2, Invariance, PTL DEF Spec, WritesInOrder, Abstract!Spec

\* No step begins to write a bank once a worker has failed.
THEOREM NoWriteAfterError == Spec => NoWriteBegunAfterError
<1>1. [Next]_vars => [worker_error /\ mpc' = "write" => mpc = "write"]_vars
  BY DEF Next, Main, Worker, Claim, Sleep, Leave, Deliver, ProcessingThrows, WorkerNotifies, MainWoken,
         Submit, Submitted, SubmitThrows, Rethrow, Take, MainSleeps, WriteBank, WriteThrows, Progress,
         MainNotifies, Abort, NotifyAbort, Throw, Return, vars
<1> QED
  BY <1>1, PTL DEF Spec, NoWriteBegunAfterError
================================================================================
