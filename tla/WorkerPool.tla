----------------------------- MODULE WorkerPool -----------------------------
(***************************************************************************)
(* The worker pool of the runtime manager (runtime_worker_pool.c) with the *)
(* per-worker watchdog (runtime_watchdog.c).                               *)
(*                                                                         *)
(* A fixed set of FreeRTOS tasks takes work items from two queues, one for *)
(* user work and one for system work.  The tasks have no core affinity and *)
(* the chip has two cores, so every step below can fall between two steps  *)
(* of the esp_timer task (which runs the watchdog callbacks and the window *)
(* callbacks of RuntimeManager) or of the main task.                       *)
(*                                                                         *)
(* This module holds the pool's state and its steps; RuntimeManager        *)
(* composes them with the window state machine.                            *)
(***************************************************************************)
EXTENDS Integers, Sequences, FiniteSets

CONSTANTS
  UserWorkers, SystemWorkers,  \* the entries of workers[], by type
  UserItems, SystemItems,      \* work items, each scheduled at most once
  Hooks,                       \* curfew hooks; a hook is also the item that runs it
  NoItem, NoWorker,            \* null values
  TaskCreateMayFail,           \* can xTaskCreate run out of memory?
  MaxOverruns                  \* bound on how often a task outruns its own deletion

Workers == UserWorkers \cup SystemWorkers
Work    == UserItems \cup SystemItems
Item    == Work \cup Hooks
Type    == {"user", "system"}
Actor   == {"timer", "main"}   \* the esp_timer task and the task that shuts down

ASSUME PoolAssumption ==
  /\ IsFiniteSet(UserWorkers) /\ IsFiniteSet(SystemWorkers)
  /\ UserWorkers \cap SystemWorkers = {}
  /\ UserItems \cap SystemItems = {}
  /\ Work \cap Hooks = {}
  /\ NoItem \notin Item
  /\ NoWorker \notin Workers
  /\ TaskCreateMayFail \in BOOLEAN
  /\ MaxOverruns \in Nat

VARIABLES
  queue,           \* user_work and system_work
  pc,              \* where each worker task is in pool_worker_entry
  item,            \* the item a task has received and not finished
  working,         \* worker_registry_t.working
  abort_flag,      \* worker_registry_t.abort_flag
  suspended,       \* tasks stopped by vTaskSuspend
  soft, hard,      \* workers whose soft_close / hard_close timer is armed
  active_workers,  \* the atomic counter
  victims,         \* per actor: tasks whose working flag recovery exchanged, not yet deleted
  fate,            \* history: what became of each scheduled item
  overrun,         \* history: tasks that had already left when they were deleted
  fault            \* an assertion failed: the firmware aborts and nothing more happens

poolVars == <<queue, pc, item, working, abort_flag, suspended, soft, hard,
              active_workers, victims, fate, overrun, fault>>

(***************************************************************************)
(* The points of pool_worker_entry between which another task can act.     *)
(* "none" is a registry entry without a task.                              *)
(***************************************************************************)
WorkerPC == {"none", "recv", "got", "counted", "reset", "ready", "running",
             "ended", "stopped", "last"}

\* Between atomic_fetch_add and atomic_fetch_sub.
CountedPC == {"counted", "reset", "ready", "running", "ended", "stopped"}

Counted == {w \in Workers : pc[w] \in CountedPC}

TypeOf(w) == IF w \in UserWorkers THEN "user" ELSE "system"

CanRun(w) == ~fault /\ ~suspended[w]

PoolTypeOK ==
  /\ queue \in [Type -> Seq(Item)]
  /\ pc \in [Workers -> WorkerPC]
  /\ item \in [Workers -> Item \cup {NoItem}]
  /\ working \in [Workers -> BOOLEAN]
  /\ abort_flag \in [Workers -> BOOLEAN]
  /\ suspended \in [Workers -> BOOLEAN]
  /\ soft \in SUBSET UserWorkers
  /\ hard \in SUBSET UserWorkers
  /\ active_workers \in Int
  /\ victims \in [Actor -> SUBSET Workers]
  /\ fate \in [Work -> {"new", "live", "done", "lost"}]
  /\ overrun \in Nat
  /\ fault \in BOOLEAN

\* worker_pool_init: every task is created, reaches xQueueReceive and is suspended.
PoolInit ==
  /\ queue = [t \in Type |-> <<>>]
  /\ pc = [w \in Workers |-> "recv"]
  /\ item = [w \in Workers |-> NoItem]
  /\ working = [w \in Workers |-> FALSE]
  /\ abort_flag = [w \in Workers |-> FALSE]
  /\ suspended = [w \in Workers |-> TRUE]
  /\ soft = {}
  /\ hard = {}
  /\ active_workers = 0
  /\ victims = [a \in Actor |-> {}]
  /\ fate = [i \in Work |-> "new"]
  /\ overrun = 0
  /\ fault = FALSE

-----------------------------------------------------------------------------
(***************************************************************************)
(* pool_worker_entry.  ResetSettlement and EvaluateLast, the two points    *)
(* where it calls back into the runtime manager, are in RuntimeManager.    *)
(***************************************************************************)
\* xQueueReceive
Receive(w) ==
  /\ CanRun(w) /\ pc[w] = "recv"
  /\ queue[TypeOf(w)] # <<>>
  /\ item' = [item EXCEPT ![w] = Head(queue[TypeOf(w)])]
  /\ queue' = [queue EXCEPT ![TypeOf(w)] = Tail(@)]
  /\ pc' = [pc EXCEPT ![w] = "got"]
  /\ UNCHANGED <<working, abort_flag, suspended, soft, hard, active_workers,
                 victims, fate, overrun, fault>>

\* atomic_fetch_add
Count(w) ==
  /\ CanRun(w) /\ pc[w] = "got"
  /\ active_workers' = active_workers + 1
  /\ pc' = [pc EXCEPT ![w] = "counted"]
  /\ UNCHANGED <<queue, item, working, abort_flag, suspended, soft, hard,
                 victims, fate, overrun, fault>>

\* Mutant: the watchdog is started for system work too.
ArmWatchdogForAll(w) ==
  /\ CanRun(w) /\ pc[w] = "reset"
  /\ abort_flag' = [abort_flag EXCEPT ![w] = FALSE]
  /\ soft' = soft \cup {w}
  /\ pc' = [pc EXCEPT ![w] = "ready"]
  /\ UNCHANGED <<queue, item, working, suspended, hard, active_workers,
                 victims, fate, overrun, fault>>

\* The soft timer is restarted; an armed hard timer is left alone.
watchdog_start_user_work(w) == soft' = soft \cup {w}

watchdog_stop_user_work(w) ==
  /\ soft' = soft \ {w}
  /\ hard' = hard \ {w}

\* abort_flag := false; the watchdog is started for user work.
ArmWatchdog(w) ==
  /\ CanRun(w) /\ pc[w] = "reset"
  /\ abort_flag' = [abort_flag EXCEPT ![w] = FALSE]
  /\ IF w \in UserWorkers THEN watchdog_start_user_work(w) ELSE UNCHANGED soft
  /\ pc' = [pc EXCEPT ![w] = "ready"]
  /\ UNCHANGED <<queue, item, working, suspended, hard, active_workers,
                 victims, fate, overrun, fault>>

\* working := true; the handler is entered.
StartHandler(w) ==
  /\ CanRun(w) /\ pc[w] = "ready"
  /\ working' = [working EXCEPT ![w] = TRUE]
  /\ pc' = [pc EXCEPT ![w] = "running"]
  /\ UNCHANGED <<queue, item, abort_flag, suspended, soft, hard, active_workers,
                 victims, fate, overrun, fault>>

\* The handler returns; working := false.
FinishHandler(w) ==
  /\ CanRun(w) /\ pc[w] = "running"
  /\ working' = [working EXCEPT ![w] = FALSE]
  /\ item' = [item EXCEPT ![w] = NoItem]
  /\ fate' = [i \in Work |-> IF i = item[w] THEN "done" ELSE fate[i]]
  /\ pc' = [pc EXCEPT ![w] = "ended"]
  /\ UNCHANGED <<queue, abort_flag, suspended, soft, hard, active_workers,
                 victims, overrun, fault>>

\* The watchdog is stopped for user work; abort_flag := true.
StopWatchdog(w) ==
  /\ CanRun(w) /\ pc[w] = "ended"
  /\ IF w \in UserWorkers THEN watchdog_stop_user_work(w) ELSE UNCHANGED <<soft, hard>>
  /\ abort_flag' = [abort_flag EXCEPT ![w] = TRUE]
  /\ pc' = [pc EXCEPT ![w] = "stopped"]
  /\ UNCHANGED <<queue, item, working, suspended, active_workers, victims,
                 fate, overrun, fault>>

\* A task recovery has marked keeps running on the other core until vTaskDelete.
Overrunning(w) == \E a \in Actor : w \in victims[a]

\* atomic_fetch_sub; the task that takes the counter from 1 to 0 evaluates the curfew.
Uncount(w) ==
  /\ CanRun(w) /\ pc[w] = "stopped"
  /\ Overrunning(w) => overrun < MaxOverruns
  /\ active_workers' = active_workers - 1
  /\ pc' = [pc EXCEPT ![w] = IF active_workers = 1 THEN "last" ELSE "recv"]
  /\ UNCHANGED <<queue, item, working, abort_flag, suspended, soft, hard,
                 victims, fate, overrun, fault>>

PoolStep(w) ==
  \/ Receive(w) \/ Count(w) \/ ArmWatchdog(w) \/ StartHandler(w)
  \/ FinishHandler(w) \/ StopWatchdog(w) \/ Uncount(w)

-----------------------------------------------------------------------------
(***************************************************************************)
(* Operations the runtime manager and the watchdog perform on the pool.    *)
(***************************************************************************)
worker_pool_has_work ==
  active_workers > 0 \/ queue["system"] # <<>> \/ queue["user"] # <<>>

\* Mutants: a loop over the registry that covers the entries of one type only.
ResumeUserWorkers    == suspended' = [w \in Workers |-> w \in SystemWorkers /\ suspended[w]]
SuspendUserWorkers   == suspended' = [w \in Workers |-> w \in UserWorkers \/ suspended[w]]

\* vTaskResume / vTaskSuspend on every entry that has a task
worker_pool_resume_all  == suspended' = [w \in Workers |-> FALSE]
worker_pool_suspend_all == suspended' = [w \in Workers |-> TRUE]

\* The items the tasks in S hold.
HeldBy(S) == {item[w] : w \in S}

LoseItems(S) == fate' = [i \in Work |-> IF i \in S THEN "lost" ELSE fate[i]]

(***************************************************************************)
(* worker_pool_recover_stalled_worker, first half: atomic_exchange of the  *)
(* working flag.  Only the workers found working are recovered.            *)
(***************************************************************************)
MarkVictims(a, S) ==
  /\ victims' = [victims EXCEPT ![a] = {w \in S : working[w]}]
  /\ working' = [w \in Workers |-> IF w \in S THEN FALSE ELSE working[w]]

\* Mutant of RecoverVictims below: the counter is not decremented for a deleted task.
RecoverWithoutUncount(a) ==
  /\ \E failed \in SUBSET victims[a] :
       /\ TaskCreateMayFail \/ failed = {}
       /\ pc' = [w \in Workers |->
                   IF w \in failed THEN "none"
                   ELSE IF w \in victims[a] THEN "recv" ELSE pc[w]]
  /\ item' = [w \in Workers |-> IF w \in victims[a] THEN NoItem ELSE item[w]]
  /\ working' = [w \in Workers |-> w \notin victims[a] /\ working[w]]
  /\ abort_flag' = [w \in Workers |-> w \notin victims[a] /\ abort_flag[w]]
  /\ suspended' = [w \in Workers |-> w \notin victims[a] /\ suspended[w]]
  /\ active_workers' = active_workers
  /\ overrun' = overrun + Cardinality(victims[a] \ Counted)
  /\ victims' = [victims EXCEPT ![a] = {}]
  /\ LoseItems(HeldBy(victims[a]))

(***************************************************************************)
(* Second half: vTaskDelete, atomic_fetch_sub, a cleared registry entry    *)
(* and a new task, for every worker the actor marked.  The new task runs   *)
(* at once.  A registry entry whose task cannot be created is left without *)
(* one.                                                                    *)
(***************************************************************************)
RecoverVictims(a) ==
  /\ \E failed \in SUBSET victims[a] :
       /\ TaskCreateMayFail \/ failed = {}
       /\ pc' = [w \in Workers |->
                   IF w \in failed THEN "none"
                   ELSE IF w \in victims[a] THEN "recv" ELSE pc[w]]
  /\ item' = [w \in Workers |-> IF w \in victims[a] THEN NoItem ELSE item[w]]
  /\ working' = [w \in Workers |-> w \notin victims[a] /\ working[w]]
  /\ abort_flag' = [w \in Workers |-> w \notin victims[a] /\ abort_flag[w]]
  /\ suspended' = [w \in Workers |-> w \notin victims[a] /\ suspended[w]]
  /\ active_workers' = active_workers - Cardinality(victims[a])
  /\ overrun' = overrun + Cardinality(victims[a] \ Counted)
  /\ victims' = [victims EXCEPT ![a] = {}]
  /\ LoseItems(HeldBy(victims[a]))

\* assert(): esp_system_abort
FailAssertion ==
  /\ fault' = TRUE
  /\ UNCHANGED <<queue, pc, item, working, abort_flag, suspended, soft, hard,
                 active_workers, victims, fate, overrun>>

\* worker_soft_abort_cb
worker_soft_abort_cb(w) ==
  /\ abort_flag' = [abort_flag EXCEPT ![w] = TRUE]
  /\ soft' = soft \ {w}
  /\ hard' = hard \cup {w}
  /\ UNCHANGED <<queue, pc, item, working, suspended, active_workers, victims,
                 fate, overrun, fault>>

\* worker_hard_abort_cb up to the exchange in worker_pool_recover_stalled_worker
worker_hard_abort_cb(w) ==
  /\ abort_flag' = [abort_flag EXCEPT ![w] = TRUE]
  /\ hard' = hard \ {w}
  /\ MarkVictims("timer", {w})
  /\ UNCHANGED <<queue, pc, item, suspended, soft, active_workers, fate, overrun, fault>>

\* ... and from vTaskDelete on: the new task is left running (resume = true).
RecoverStalledWorker ==
  /\ RecoverVictims("timer")
  /\ UNCHANGED <<queue, soft, hard, fault>>

watchdog_force_all_cooperative_abort == abort_flag' = [w \in Workers |-> TRUE]

\* Mutant: the timers of every worker are stopped, not only of the working ones.
StopAllTimers(S) ==
  /\ soft' = {}
  /\ hard' = {}

\* watchdog_force_all_mandatory_abort, the working flag of every worker read
\* and the timers of the working ones stopped.
StopTimersOf(S) ==
  /\ soft' = soft \ S
  /\ hard' = hard \ S

\* worker_pool_deinit with watchdog_manager_deinit
PoolDeinit ==
  /\ pc' = [w \in Workers |-> "none"]
  /\ item' = [w \in Workers |-> NoItem]
  /\ working' = [w \in Workers |-> FALSE]
  /\ abort_flag' = [w \in Workers |-> FALSE]
  /\ suspended' = [w \in Workers |-> FALSE]
  /\ soft' = {}
  /\ hard' = {}
  /\ active_workers' = 0
  /\ victims' = [a \in Actor |-> {}]
  /\ overrun' = 0
  /\ LoseItems(HeldBy(Workers))
  /\ UNCHANGED queue
=============================================================================
