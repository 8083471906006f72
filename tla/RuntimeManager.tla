--------------------------- MODULE RuntimeManager ---------------------------
(***************************************************************************)
(* The runtime manager (runtime_manager.c): work is only done inside       *)
(* windows that the work tick opens.  A window is active, then in grace    *)
(* (curfew hooks run, new work is deferred), then asleep (every worker     *)
(* suspended).                                                             *)
(*                                                                         *)
(* Tasks: the workers of WorkerPool; the esp_timer task, which runs one    *)
(* callback at a time; the callers of schedule_*_work and of the hook      *)
(* registry; the main task, which shuts the manager down.                  *)
(*                                                                         *)
(* runtime_lock: every locked section is one step, except the transition   *)
(* to SLEEP, whose steps (watchdog abort, then suspension) other tasks can *)
(* fall between.  The lock is therefore held exactly while sleepBy is not  *)
(* "none".  That transition logs a line for every worker it kills, so the  *)
(* 50 ms another task waits for the lock may expire meanwhile; the other   *)
(* locked sections only touch memory.                                      *)
(***************************************************************************)
EXTENDS WorkerPool, SequencesExt

CONSTANTS
  QueueCap,            \* MAX_USER_WORK_PER_WINDOW = MAX_SYSTEM_WORK_PER_WINDOW
  PendingCap,          \* half of it
  MaxHooks             \* MAX_CURFEW_HOOKS

ASSUME RuntimeAssumption ==
  QueueCap \in Nat \ {0} /\ PendingCap \in Nat \ {0} /\ MaxHooks \in Nat

SLEEP == "SLEEP"
GRACE == "GRACE_PERIOD"
Active == {"UI_ACTIVE", "BACKGROUND_ACTIVE"}
RuntimeState == Active \cup {SLEEP, GRACE}

WindowTimer == {"total", "grace", "settle"}
Callback == WindowTimer \cup {"idle", "tick", "soft", "hard", "recover", "sleep"}
MainPC == {"run", "wait", "force", "forcing", "taken", "pooldown", "off"}

VARIABLES
  runtime_state, work_state,
  pending,         \* pending_user_work and pending_system_work
  window_hooks,    \* the registered hooks, active_hook_count = Len(window_hooks)
  armed,           \* the armed timers of window_ctx
  cb, cbWorker,    \* the callback the esp_timer task is in, and its argument
  sleepBy,         \* who is inside set_runtime_state(SLEEP), holding runtime_lock
  sleepStep,       \* how far it has got
  targets,         \* the workers its watchdog abort found working
  main,            \* where runtime_manager_deinit is; "run" before it is called
  shutdown_sem     \* has shutdown_sem been given?

rtVars == <<runtime_state, work_state, pending, window_hooks, armed, cb, cbWorker,
            sleepBy, sleepStep, targets, main, shutdown_sem>>
vars == <<poolVars, rtVars>>

TypeOK ==
  /\ PoolTypeOK
  /\ runtime_state \in RuntimeState
  /\ work_state \in Active
  /\ pending \in [Type -> Seq(Work)]
  /\ window_hooks \in Seq(Hooks)
  /\ armed \in SUBSET WindowTimer
  /\ cb \in Callback
  /\ cbWorker \in UserWorkers \cup {NoWorker}
  /\ cb \in {"soft", "hard"} => cbWorker \in UserWorkers
  /\ sleepBy \in Actor \cup {"none"}
  /\ sleepStep \in {"check", "exchange", "delete", "suspend"}
  /\ targets \in SUBSET Workers
  /\ main \in MainPC
  /\ shutdown_sem \in BOOLEAN

\* runtime_manager_init
Init ==
  /\ PoolInit
  /\ runtime_state = SLEEP
  /\ work_state = "UI_ACTIVE"
  /\ pending = [t \in Type |-> <<>>]
  /\ window_hooks = <<>>
  /\ armed = {}
  /\ cb = "idle"
  /\ cbWorker = NoWorker
  /\ sleepBy = "none"
  /\ sleepStep = "check"
  /\ targets = {}
  /\ ~fault /\ main = "run"
  /\ shutdown_sem = FALSE

\* Mutant: the locked sections take no lock.
LockSkipped == ~fault /\ main # "off"

\* acquire_lock_runtime: the lock is there and free, or the wait for it has failed.
LockTaken    == ~fault /\ sleepBy = "none" /\ main # "off"
LockTimedOut == ~fault /\ (sleepBy # "none" \/ main = "off")

\* initialized and the worker pool is up: worker_pool_deinit clears its queue handles.
PoolUp == main \notin {"pooldown", "off"}

\* Sending a sequence of items to a queue without waiting: what fits, and what is dropped.
Fit(s, cap)   == IF Len(s) <= cap THEN s ELSE SubSeq(s, 1, cap)
Spill(s, cap) == {s[i] : i \in (cap + 1)..Len(s)}

-----------------------------------------------------------------------------
\* Mutants of EnterSleep below: the settlement timer is not stopped; ...
SleepKeepsSettle(by, uq, dropped) ==
  /\ runtime_state' = SLEEP
  /\ armed' = armed \cap {"settle"}
  /\ LET u == uq \o pending["user"]
         s == queue["system"] \o pending["system"]
     IN  /\ queue' = [t \in Type |-> Fit(IF t = "user" THEN u ELSE s, QueueCap)]
         /\ LoseItems(dropped \cup Spill(u, QueueCap) \cup Spill(s, QueueCap))
  /\ pending' = [t \in Type |-> <<>>]
  /\ sleepBy' = by
  /\ sleepStep' = "check"

\* ... pending work is copied to the work queue and stays pending; ...
SleepPeeksPending(by, uq, dropped) ==
  /\ runtime_state' = SLEEP
  /\ armed' = {}
  /\ LET u == uq \o pending["user"]
         s == queue["system"] \o pending["system"]
     IN  /\ queue' = [t \in Type |-> Fit(IF t = "user" THEN u ELSE s, QueueCap)]
         /\ LoseItems(dropped \cup Spill(u, QueueCap) \cup Spill(s, QueueCap))
  /\ UNCHANGED pending
  /\ sleepBy' = by
  /\ sleepStep' = "check"

\* ... system_work is reset as user_work is at the end of the grace period.
SleepResetsSystem(by, uq, dropped) ==
  /\ runtime_state' = SLEEP
  /\ armed' = {}
  /\ LET u == uq \o pending["user"]
         s == pending["system"]
     IN  /\ queue' = [t \in Type |-> Fit(IF t = "user" THEN u ELSE s, QueueCap)]
         /\ LoseItems(dropped \cup ToSet(queue["system"]) \cup Spill(u, QueueCap) \cup Spill(s, QueueCap))
  /\ pending' = [t \in Type |-> <<>>]
  /\ sleepBy' = by
  /\ sleepStep' = "check"

(***************************************************************************)
(* set_runtime_state(SLEEP), up to the watchdog abort: the window timers   *)
(* are stopped and the pending queues drained.  uq is what is left of      *)
(* user_work and dropped what was discarded from it before.                *)
(***************************************************************************)
EnterSleep(by, uq, dropped) ==
  /\ runtime_state' = SLEEP
  /\ armed' = {}
  /\ LET u == uq \o pending["user"]
         s == queue["system"] \o pending["system"]
     IN  /\ queue' = [t \in Type |-> Fit(IF t = "user" THEN u ELSE s, QueueCap)]
         /\ LoseItems(dropped \cup Spill(u, QueueCap) \cup Spill(s, QueueCap))
  /\ pending' = [t \in Type |-> <<>>]
  /\ sleepBy' = by
  /\ sleepStep' = "check"

\* watchdog_force_all_mandatory_abort: read the flags, stop the timers.
SleepCheck ==
  /\ ~fault /\ sleepBy # "none" /\ sleepStep = "check"
  /\ targets' = {w \in Workers : working[w]}
  /\ StopTimersOf({w \in Workers : working[w]})
  /\ sleepStep' = "exchange"
  /\ UNCHANGED <<queue, pc, item, working, abort_flag, suspended, active_workers,
                 victims, fate, overrun>>
  /\ UNCHANGED <<runtime_state, work_state, pending, window_hooks, armed, cb,
                 cbWorker, sleepBy, main, shutdown_sem, fault>>

\* ... recover those still working: the exchange.
SleepExchange ==
  /\ ~fault /\ sleepBy # "none" /\ sleepStep = "exchange"
  /\ MarkVictims(sleepBy, targets)
  /\ sleepStep' = "delete"
  /\ UNCHANGED <<queue, pc, item, abort_flag, suspended, soft, hard,
                 active_workers, fate, overrun>>
  /\ UNCHANGED <<runtime_state, work_state, pending, window_hooks, armed, cb,
                 cbWorker, sleepBy, targets, main, shutdown_sem, fault>>

\* ... delete them and create new tasks, which may run until they are suspended.
SleepRecover ==
  /\ ~fault /\ sleepBy # "none" /\ sleepStep = "delete"
  /\ RecoverVictims(sleepBy)
  /\ targets' = {}
  /\ sleepStep' = "suspend"
  /\ UNCHANGED <<queue, soft, hard, runtime_state, work_state, pending, window_hooks,
                 armed, cb, cbWorker, sleepBy, main, shutdown_sem, fault>>

\* Suspend every worker, give shutdown_sem, release the lock.
SleepSuspend ==
  /\ ~fault /\ sleepBy # "none" /\ sleepStep = "suspend"
  /\ worker_pool_suspend_all
  /\ sleepBy' = "none"
  /\ sleepStep' = "check"
  /\ shutdown_sem' = (shutdown_sem \/ main # "run")
  /\ cb' = IF sleepBy = "timer" THEN "idle" ELSE cb
  /\ main' = IF sleepBy = "main" THEN "taken" ELSE main
  /\ UNCHANGED <<queue, pc, item, working, abort_flag, soft, hard, active_workers,
                 victims, fate, overrun>>
  /\ UNCHANGED <<runtime_state, work_state, pending, window_hooks, armed, cbWorker,
                 targets, fault>>

\* Mutant of the curfew below: the grace timer is not started.
CurfewWithoutGraceTimer ==
  IF window_hooks = <<>> /\ ~worker_pool_has_work
  THEN /\ EnterSleep("timer", queue["user"], {})
       /\ cb' = "sleep"
  ELSE /\ runtime_state' = GRACE
       /\ armed' = (armed \ {"total", "settle"})
       /\ queue' = [queue EXCEPT !["system"] = Fit(@ \o window_hooks, QueueCap)]
       /\ cb' = "idle"
       /\ UNCHANGED <<fate, pending, sleepBy, sleepStep>>

(***************************************************************************)
(* runtime_manager_begin_curfew_unsafe, called by a timer callback with    *)
(* the lock held.                                                          *)
(***************************************************************************)
runtime_manager_begin_curfew_unsafe ==
  IF window_hooks = <<>> /\ ~worker_pool_has_work
  THEN /\ EnterSleep("timer", queue["user"], {})
       /\ cb' = "sleep"
  ELSE /\ runtime_state' = GRACE
       /\ armed' = (armed \ {"total", "settle"}) \cup {"grace"}
       /\ queue' = [queue EXCEPT !["system"] = Fit(@ \o window_hooks, QueueCap)]
       /\ cb' = "idle"
       /\ UNCHANGED <<fate, pending, sleepBy, sleepStep>>

CallbackDone == cb' = "idle" /\ UNCHANGED <<queue, fate, runtime_state, armed,
                                            pending, sleepBy, sleepStep>>

\* What no window callback touches.
UnchangedByWindow ==
  UNCHANGED <<pc, item, working, soft, hard, active_workers, victims, overrun,
              work_state, window_hooks, cbWorker, targets, main, shutdown_sem>>

\* assert(user_work && system_work) in worker_pool_has_work, and assert(workers) in
\* the watchdog
AssertPoolUp == fault' = ~PoolUp

work_window_expiry_cb ==
  /\ cb = "total"
  /\ \/ /\ LockTaken /\ runtime_state \in Active
        /\ runtime_manager_begin_curfew_unsafe
        /\ AssertPoolUp
     \/ /\ LockTimedOut \/ (LockTaken /\ runtime_state \notin Active)
        /\ CallbackDone /\ UNCHANGED fault
  /\ UnchangedByWindow /\ UNCHANGED <<abort_flag, suspended>>

\* the cooperative abort, then xQueueReset(user_work), then SLEEP
grace_period_expiry_cb ==
  /\ cb = "grace"
  /\ \/ /\ LockTaken /\ runtime_state = GRACE
        /\ watchdog_force_all_cooperative_abort
        /\ EnterSleep("timer", <<>>, ToSet(queue["user"]))
        /\ cb' = "sleep"
        /\ AssertPoolUp
     \/ /\ LockTimedOut \/ (LockTaken /\ runtime_state # GRACE)
        /\ CallbackDone /\ UNCHANGED <<abort_flag, fault>>
  /\ UnchangedByWindow /\ UNCHANGED suspended

curfew_settlement_expiry_cb ==
  /\ cb = "settle"
  /\ \/ /\ LockTaken /\ runtime_state \in Active /\ ~worker_pool_has_work
        /\ runtime_manager_begin_curfew_unsafe
     \/ /\ LockTaken /\ runtime_state = GRACE /\ ~worker_pool_has_work
        /\ EnterSleep("timer", queue["user"], {})
        /\ cb' = "sleep"
     \/ /\ LockTimedOut \/ (LockTaken /\ (runtime_state = SLEEP \/ worker_pool_has_work))
        /\ CallbackDone
  /\ fault' = (LockTaken /\ runtime_state # SLEEP /\ ~PoolUp)
  /\ UnchangedByWindow /\ UNCHANGED <<abort_flag, suspended>>

(***************************************************************************)
(* runtime_manager_evaluate_early_curfew, under the lock: an idle system   *)
(* arms the settlement timer unless the window's own timer is due anyway.  *)
(* window_start_time is read before the total timer is started, so once    *)
(* that timer has been dispatched nothing remains of the window.           *)
(***************************************************************************)
EvaluateEarlyCurfew ==
  \/ UNCHANGED armed
  \/ /\ runtime_state = GRACE \/ (runtime_state \in Active /\ "total" \in armed)
     /\ ~worker_pool_has_work
     /\ armed' = armed \cup {"settle"}

\* The work tick: start_work_cb, set_runtime_state(work_state).
start_work_cb ==
  /\ cb = "tick"
  /\ cb' = "idle"
  /\ \/ /\ LockTaken /\ runtime_state = SLEEP
        /\ runtime_state' = work_state
        /\ armed' = {"total"} \cup (IF worker_pool_has_work THEN {} ELSE {"settle"})
        /\ worker_pool_resume_all
        /\ AssertPoolUp
     \/ /\ LockTimedOut \/ (LockTaken /\ runtime_state # SLEEP)
        /\ UNCHANGED <<runtime_state, armed, suspended, fault>>
  /\ UnchangedByWindow
  /\ UNCHANGED <<queue, fate, abort_flag, pending, sleepBy, sleepStep>>

(***************************************************************************)
(* The esp_timer task takes an expired timer off its list and then runs    *)
(* the callback: a timer stopped in between still has its callback run.    *)
(***************************************************************************)
UnchangedByDispatch ==
  UNCHANGED <<queue, pc, item, working, abort_flag, suspended, active_workers,
              victims, fate, overrun, runtime_state, work_state, pending,
              window_hooks, sleepBy, sleepStep, targets, main, shutdown_sem, fault>>

ExpireWindowTimer(t) ==
  /\ ~fault /\ cb = "idle" /\ t \in armed
  /\ armed' = armed \ {t}
  /\ cb' = t
  /\ UNCHANGED <<soft, hard, cbWorker>> /\ UnchangedByDispatch

\* start_work_cb is subscribed until the end of runtime_manager_deinit.
ExpireTick ==
  /\ ~fault /\ cb = "idle" /\ main # "off"
  /\ cb' = "tick"
  /\ UNCHANGED <<soft, hard, armed, cbWorker>> /\ UnchangedByDispatch

ExpireSoft(w) ==
  /\ ~fault /\ cb = "idle" /\ w \in soft
  /\ soft' = soft \ {w}
  /\ cb' = "soft" /\ cbWorker' = w
  /\ UNCHANGED <<hard, armed>> /\ UnchangedByDispatch

ExpireHard(w) ==
  /\ ~fault /\ cb = "idle" /\ w \in hard
  /\ hard' = hard \ {w}
  /\ cb' = "hard" /\ cbWorker' = w
  /\ UNCHANGED <<soft, armed>> /\ UnchangedByDispatch

UnchangedByWatchdog ==
  UNCHANGED <<runtime_state, work_state, pending, window_hooks, armed, sleepBy,
              sleepStep, targets, main, shutdown_sem>>

\* The watchdog callbacks.  watchdog_manager_deinit has deleted the timers once
\* the pool is down, and assert(work->hard_close) fails.
SoftAbort ==
  /\ ~fault /\ cb = "soft"
  /\ IF PoolUp THEN worker_soft_abort_cb(cbWorker) ELSE FailAssertion
  /\ cb' = "idle" /\ cbWorker' = NoWorker
  /\ UnchangedByWatchdog

HardAbort ==
  /\ ~fault /\ cb = "hard"
  /\ IF PoolUp THEN worker_hard_abort_cb(cbWorker) ELSE FailAssertion
  /\ cb' = "recover" /\ cbWorker' = NoWorker
  /\ UnchangedByWatchdog

HardRecover ==
  /\ ~fault /\ cb = "recover"
  /\ RecoverStalledWorker
  /\ cb' = "idle"
  /\ UNCHANGED cbWorker /\ UnchangedByWatchdog

-----------------------------------------------------------------------------
(***************************************************************************)
(* The two calls a worker makes into the runtime manager.                  *)
(***************************************************************************)
UnchangedByWorker ==
  UNCHANGED <<runtime_state, work_state, pending, window_hooks, cb, cbWorker,
              sleepBy, sleepStep, targets, main, shutdown_sem>>

\* runtime_manager_reset_settlement_timer
ResetSettlement(w) ==
  /\ CanRun(w) /\ pc[w] = "counted"
  /\ \/ LockTaken /\ armed' = armed \ {"settle"}
     \/ LockTimedOut /\ UNCHANGED armed
  /\ pc' = [pc EXCEPT ![w] = "reset"]
  /\ UNCHANGED <<queue, item, working, abort_flag, suspended, soft, hard,
                 active_workers, victims, fate, overrun, fault>>
  /\ UnchangedByWorker

\* runtime_manager_evaluate_early_curfew by the worker that emptied the pool
EvaluateLast(w) ==
  /\ CanRun(w) /\ pc[w] = "last"
  /\ \/ LockTaken /\ EvaluateEarlyCurfew
     \/ LockTimedOut /\ UNCHANGED armed
  /\ pc' = [pc EXCEPT ![w] = "recv"]
  /\ UNCHANGED <<queue, item, working, abort_flag, suspended, soft, hard,
                 active_workers, victims, fate, overrun, fault>>
  /\ UnchangedByWorker

WorkerStep(w) ==
  \/ PoolStep(w) /\ UNCHANGED rtVars
  \/ ResetSettlement(w)
  \/ EvaluateLast(w)

-----------------------------------------------------------------------------
(***************************************************************************)
(* The public interface.                                                   *)
(***************************************************************************)
UnchangedByCall ==
  UNCHANGED <<pc, item, working, abort_flag, suspended, soft, hard,
              active_workers, victims, overrun, runtime_state, armed, cb,
              cbWorker, sleepBy, sleepStep, targets, main, shutdown_sem, fault>>

ItemType(i) == IF i \in UserItems THEN "user" ELSE "system"

(***************************************************************************)
(* schedule_user_work / schedule_system_work returning true.  During grace *)
(* the item is deferred.  When the lock times out the call also returns    *)
(* true (result starts as pdPASS) and the item is gone.  A full queue and  *)
(* a shutdown make it return false, which changes nothing.                 *)
(***************************************************************************)
Schedule(i) ==
  /\ fate[i] = "new" /\ main = "run"
  /\ LET t == ItemType(i) IN
     \/ /\ LockTaken /\ runtime_state = GRACE /\ Len(pending[t]) < PendingCap
        /\ pending' = [pending EXCEPT ![t] = Append(@, i)]
        /\ fate' = [fate EXCEPT ![i] = "live"]
        /\ UNCHANGED queue
     \/ /\ LockTaken /\ runtime_state # GRACE /\ Len(queue[t]) < QueueCap
        /\ queue' = [queue EXCEPT ![t] = Append(@, i)]
        /\ fate' = [fate EXCEPT ![i] = "live"]
        /\ UNCHANGED pending
     \/ /\ LockTimedOut
        /\ fate' = [fate EXCEPT ![i] = "lost"]
        /\ UNCHANGED <<queue, pending>>
  /\ UNCHANGED <<work_state, window_hooks>> /\ UnchangedByCall

runtime_manager_register_hook(h) ==
  /\ main = "run" /\ LockTaken
  /\ Len(window_hooks) < MaxHooks
  /\ window_hooks' = Append(window_hooks, h)
  /\ UNCHANGED <<queue, fate, pending, work_state>> /\ UnchangedByCall

\* Only the first occurrence goes, the hooks behind it move up.
runtime_manager_unregister_hook(h) ==
  /\ LockTaken
  /\ \E i \in 1..Len(window_hooks) :
       /\ window_hooks[i] = h
       /\ \A j \in 1..(i - 1) : window_hooks[j] # h
       /\ window_hooks' = RemoveAt(window_hooks, i)
  /\ UNCHANGED <<queue, fate, pending, work_state>> /\ UnchangedByCall

\* runtime_manager_set_active_state, by the power manager
SetActiveState(s) ==
  /\ ~fault
  /\ work_state' = s
  /\ UNCHANGED <<queue, fate, pending, window_hooks>> /\ UnchangedByCall

-----------------------------------------------------------------------------
(***************************************************************************)
(* runtime_manager_deinit.                                                 *)
(***************************************************************************)
UnchangedByShutdown == UNCHANGED <<work_state, cb, cbWorker>>

\* shutdown_initialized, a fresh semaphore, no hooks
BeginShutdown ==
  /\ ~fault /\ main = "run"
  /\ main' = "wait"
  /\ shutdown_sem' = FALSE
  /\ window_hooks' = <<>>
  /\ UNCHANGED poolVars
  /\ UNCHANGED <<runtime_state, pending, armed, sleepBy, sleepStep, targets, fault>>
  /\ UnchangedByShutdown

\* Mutant: the semaphore is awaited without a timeout.
AwaitForever ==
  /\ ~fault /\ main = "wait"
  /\ shutdown_sem /\ main' = "taken" /\ shutdown_sem' = FALSE
  /\ UNCHANGED poolVars
  /\ UNCHANGED <<runtime_state, pending, window_hooks, armed, sleepBy, sleepStep,
                 targets, fault>>
  /\ UnchangedByShutdown

\* xSemaphoreTake succeeds, or its three seconds are over
AwaitShutdown ==
  /\ ~fault /\ main = "wait"
  /\ \/ shutdown_sem /\ main' = "taken" /\ shutdown_sem' = FALSE
     \/ ~shutdown_sem /\ main' = "force" /\ UNCHANGED shutdown_sem
  /\ UNCHANGED poolVars
  /\ UNCHANGED <<runtime_state, pending, window_hooks, armed, sleepBy, sleepStep,
                 targets, fault>>
  /\ UnchangedByShutdown

\* set_runtime_state(SLEEP) by the main task
ForceSleep ==
  /\ main = "force"
  /\ \/ /\ LockTaken /\ runtime_state # SLEEP
        /\ EnterSleep("main", queue["user"], {})
        /\ main' = "forcing"
     \/ /\ LockTimedOut \/ (LockTaken /\ runtime_state = SLEEP)
        /\ main' = "taken"
        /\ UNCHANGED <<queue, fate, runtime_state, armed, pending, sleepBy, sleepStep>>
  /\ UNCHANGED <<pc, item, working, abort_flag, suspended, soft, hard,
                 active_workers, victims, overrun, window_hooks, targets,
                 shutdown_sem, fault>>
  /\ UnchangedByShutdown

\* The semaphore is deleted and the pool torn down.  Recovery by the esp_timer
\* task that is under way would now delete tasks that are already gone.
StopPool ==
  /\ ~fault /\ main = "taken"
  /\ main' = "pooldown"
  /\ shutdown_sem' = FALSE
  /\ PoolDeinit
  /\ fault' = (sleepBy = "timer" \/ cb = "recover")
  /\ UNCHANGED <<runtime_state, pending, window_hooks, armed, sleepBy, sleepStep, targets>>
  /\ UnchangedByShutdown

\* The tick is unsubscribed, the window timers, the queues and the lock deleted.
ReleaseRuntime ==
  /\ ~fault /\ main = "pooldown"
  /\ main' = "off"
  /\ armed' = {}
  /\ LoseItems(UNION {ToSet(queue[t]) \cup ToSet(pending[t]) : t \in Type})
  /\ queue' = [t \in Type |-> <<>>]
  /\ pending' = [t \in Type |-> <<>>]
  /\ UNCHANGED <<pc, item, working, abort_flag, suspended, soft, hard,
                 active_workers, victims, overrun>>
  /\ UNCHANGED <<runtime_state, window_hooks, sleepBy, sleepStep, targets,
                 shutdown_sem, fault>>
  /\ UnchangedByShutdown

-----------------------------------------------------------------------------
SleepTransition == SleepCheck \/ SleepExchange \/ SleepRecover \/ SleepSuspend

TimerCallback ==
  \/ work_window_expiry_cb \/ grace_period_expiry_cb \/ curfew_settlement_expiry_cb
  \/ start_work_cb \/ SoftAbort \/ HardAbort \/ HardRecover

Expire ==
  \/ \E t \in WindowTimer : ExpireWindowTimer(t)
  \/ ExpireTick
  \/ \E w \in UserWorkers : ExpireSoft(w) \/ ExpireHard(w)

Call ==
  \/ \E i \in Work : Schedule(i)
  \/ \E h \in Hooks : runtime_manager_register_hook(h) \/ runtime_manager_unregister_hook(h)
  \/ \E s \in Active : SetActiveState(s)

Shutdown ==
  \/ BeginShutdown \/ AwaitShutdown \/ ForceSleep \/ StopPool \/ ReleaseRuntime

Next ==
  \/ \E w \in Workers : WorkerStep(w)
  \/ SleepTransition \/ TimerCallback \/ Expire \/ Call \/ Shutdown

Spec == Init /\ [][Next]_vars

-----------------------------------------------------------------------------
(***************************************************************************)
(* Safety properties.                                                      *)
(***************************************************************************)
\* The counter that decides whether the system is idle counts exactly the workers
\* that are processing an item, less one for every task that left the counted
\* region on the other core after recovery had exchanged its working flag and
\* before vTaskDelete: recovery decrements for it a second time.
ActiveWorkersExact == active_workers = Cardinality(Counted) - overrun

\* A user handler never runs both unwatched and unaware: its soft timer is armed,
\* or the soft callback is about to run, or its abort flag is up, or the transition
\* to SLEEP has it on its list to kill.  (Suspended between watchdog_start_user_work
\* and working := true, a worker outlives both timers and then runs with no timer.)
UserWorkWatched ==
  \A w \in UserWorkers : pc[w] = "running" =>
    \/ w \in soft
    \/ abort_flag[w]
    \/ cb = "soft" /\ cbWorker = w
    \/ w \in targets

\* The inductive strengthening of UserWorkWatched.  A worker is watched from the
\* moment watchdog_start_user_work arms its timer; the transition to SLEEP stops the
\* timers of the workers it finds working, and from then on either exchanges their
\* working flag and deletes them, or finds that they left their handler, and then
\* they have armed the timer again before entering the next one.
Watched(w) == w \in soft \/ abort_flag[w] \/ (cb = "soft" /\ cbWorker = w)

Doomed(w) ==
  /\ sleepBy # "none" /\ w \in targets
  /\ \/ sleepStep = "exchange" /\ working[w]
     \/ sleepStep = "delete" /\ w \in victims[sleepBy]

WatchInv ==
  /\ \A w \in Workers : working[w] => pc[w] = "running"
  /\ \A w \in UserWorkers : pc[w] = "ready" => Watched(w)
  /\ \A w \in UserWorkers : pc[w] = "running" => Watched(w) \/ Doomed(w)

\* The lock and the tasks that hold it: the esp_timer task is in the transition to
\* SLEEP exactly when its callback has got that far, the main task exactly while it
\* forces the runtime asleep, and a pool that has been torn down stays empty.
LockInv ==
  /\ sleepBy # "none" => runtime_state = SLEEP
  /\ sleepBy = "timer" => cb = "sleep"
  /\ sleepBy = "main" => main = "forcing"
  /\ ~PoolUp /\ ~fault => /\ sleepBy = "none" /\ cb # "recover"
                          /\ \A w \in Workers : pc[w] = "none"

\* Every window ends: while it is active its total timer is armed or expired and on
\* its way, in grace the grace timer is; asleep no window timer is left running.
WindowTimersMatchState ==
  /\ runtime_state \in Active /\ main # "off" => "total" \in armed \/ cb = "total"
  /\ runtime_state = GRACE /\ main # "off" => "grace" \in armed \/ cb = "grace"
  /\ runtime_state = SLEEP => armed = {}

\* Where item i is: queue slots, pending slots, workers that hold it.
Places(i) ==
  {p \in {"queue"} \X Type \X (1..QueueCap) :
     p[3] <= Len(queue[p[2]]) /\ queue[p[2]][p[3]] = i}
  \cup {p \in {"pending"} \X Type \X (1..PendingCap) :
     p[3] <= Len(pending[p[2]]) /\ pending[p[2]][p[3]] = i}
  \cup {w \in Workers : item[w] = i}

\* Work is neither lost unnoticed nor duplicated nor run twice: an accepted item is
\* in exactly one queue slot, pending slot or worker until it is done or lost, and
\* nowhere afterwards.
ItemInOnePlace ==
  \A i \in Work : Cardinality(Places(i)) = IF fate[i] = "live" THEN 1 ELSE 0

\* The only ways work is lost that schedule_*_work has answered with true: its worker is
\* killed, user_work is reset when the grace period expires, the pending queue does not
\* fit into the work queue when the window closes, the manager shuts down, or the call
\* itself met the lock held by the closing of a window and put the item nowhere.
WorkLostOnlyByForce ==
  [][\A i \in Work : fate[i] # "lost" /\ fate'[i] = "lost" =>
       \/ \E w \in Workers : item[w] = i /\ Overrunning(w)
       \/ i \in UserItems /\ cb = "grace"
       \/ /\ runtime_state # SLEEP /\ runtime_state' = SLEEP
          /\ Len(queue[ItemType(i)]) + Len(pending[ItemType(i)]) > QueueCap
       \/ main \in {"taken", "pooldown"}
       \/ fate[i] = "new" /\ sleepBy # "none"]_vars

\* With the pool asleep no system worker runs, whatever happened on the way there.
SystemPoolSleeps ==
  runtime_state = SLEEP /\ sleepBy = "none" /\ main \notin {"pooldown", "off"} =>
    \A w \in SystemWorkers : pc[w] # "none" => suspended[w]

\* The inductive strengthening of SystemPoolSleeps: the one task that may be resumed
\* outside a window is the one the watchdog recreates, and the watchdog is only started
\* for user workers.
SleepInv ==
  /\ SystemPoolSleeps
  /\ cb = "recover" /\ ~fault => victims["timer"] \subseteq UserWorkers

\* Item i is in sequence s at most once.
AtMostOnce(s, i) == \A j, k \in 1..Len(s) : s[j] = i /\ s[k] = i => j = k

Holds(w, i) == item[w] = i

\* A task holds an item from xQueueReceive until its handler returns.
HoldPC == {"got", "counted", "reset", "ready", "running"}

\* An item is only ever in the queues and with the workers of its own type.
KindInv ==
  \A i \in Work :
    /\ \A t \in Type : Contains(queue[t], i) \/ Contains(pending[t], i) => t = ItemType(i)
    /\ \A w \in Workers : Holds(w, i) => TypeOf(w) = ItemType(i)

\* An item is in at most one slot or worker, and somewhere exactly while it is live.
OnePlace(i) ==
  LET q == queue[ItemType(i)]
      p == pending[ItemType(i)]
  IN  /\ AtMostOnce(q, i) /\ AtMostOnce(p, i)
      /\ ~(Contains(q, i) /\ Contains(p, i))
      /\ \A w \in Workers : Holds(w, i) => ~Contains(q, i) /\ ~Contains(p, i)
      /\ \A v, w \in Workers : Holds(v, i) /\ Holds(w, i) => v = w
      /\ fate[i] = "live" <=> \/ Contains(q, i) \/ Contains(p, i)
                              \/ \E w \in Workers : Holds(w, i)

\* The inductive strengthening of ItemInOnePlace: the queues stay within their
\* capacities and a task about to receive holds nothing that it would overwrite.
PlaceInv ==
  /\ \A t \in Type : Len(queue[t]) <= QueueCap /\ Len(pending[t]) <= PendingCap
  /\ \A w \in Workers : item[w] # NoItem => pc[w] \in HoldPC
  /\ KindInv
  /\ \A i \in Work : OnePlace(i)

\* The inductive core of the runtime: types, who may hold runtime_lock and what the
\* pool looks like meanwhile, the exact count of active_workers behind the early exit of
\* a window, for every running user handler the timer, flag or pending deletion that
\* will end it, the sleep of the system workers, and the one place of every work item
\* (runtime_manager.c, runtime_worker_pool.c, runtime_watchdog.c).
RuntimeInv ==
  TypeOK /\ LockInv /\ ActiveWorkersExact /\ WatchInv /\ SleepInv /\ PlaceInv

\* What the pool promises its callers: a submitted item is in exactly one place at a time,
\* however recovery, suspension and requeueing interleave, and outside a window no
\* system worker runs (runtime_worker_pool.c).
PoolCorrect == ItemInOnePlace /\ SystemPoolSleeps

-----------------------------------------------------------------------------
\* The refinement mapping onto RuntimeWindow: the phase of the window and the fate
\* of the system work.
WindowPhase ==
  IF ~PoolUp THEN "OFF" ELSE IF sleepBy # "none" THEN "CLOSING" ELSE runtime_state

SystemFate == [i \in SystemItems |-> fate[i]]

Window == INSTANCE RuntimeWindow
            WITH Work <- SystemItems, phase <- WindowPhase, fate <- SystemFate

\* The runtime manager implements RuntimeWindow: system work completes only inside a
\* window and is lost only when a window closes.
ImplementsWindow == Window!Spec

-----------------------------------------------------------------------------
(***************************************************************************)
(* Liveness.  The esp_timer task runs at the highest priority of the       *)
(* application and dispatches timers in the order of their alarms, so an   *)
(* armed timer is dispatched however often the periodic tick comes in      *)
(* between (SF), and a callback finishes (WF).  Nothing is assumed of      *)
(* handlers: they may run forever.                                         *)
(***************************************************************************)
TimerFairness ==
  /\ WF_vars(SleepTransition)
  /\ WF_vars(TimerCallback)
  /\ \A t \in WindowTimer : SF_vars(ExpireWindowTimer(t))

\* The work tick recurs (shutdown does not rely on it); a resumed worker gets the
\* processor before its window is over (a window with queued work lasts at least 160 ms).
WorkFairness ==
  /\ SF_vars(main = "run" /\ ExpireTick)
  /\ \A w \in Workers : SF_vars(pc[w] # "running" /\ WorkerStep(w))

ShutdownFairness == WF_vars(AwaitShutdown \/ ForceSleep \/ StopPool \/ ReleaseRuntime)

FairSpec == Spec /\ TimerFairness /\ WorkFairness /\ ShutdownFairness

\* Every window closes, even when a handler never returns.
WindowCloses == runtime_state # SLEEP ~> (runtime_state = SLEEP \/ main = "off" \/ fault)

\* Accepted work is not left in a queue for ever: it is done or (see
\* WorkLostOnlyByForce) lost, across as many windows as it takes.
AcceptedWorkSettles ==
  \A i \in Work : fate[i] = "live" ~> (fate[i] # "live" \/ fault)

\* runtime_manager_deinit returns: it waits neither for a window that cannot come
\* nor for a handler that does not end.
ShutdownReturns == main = "wait" ~> (main = "off" \/ fault)
=============================================================================
