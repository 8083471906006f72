------------------------------ MODULE UiPower ------------------------------
(***************************************************************************)
(* Putting the UI to sleep and waking it: the power task and its command   *)
(* queue (power_manager.c), the LVGL task (lvgl_handler_thread.c), and     *)
(* what they switch on and off (lvgl_bridge.c, display_driver.c).          *)
(*                                                                         *)
(* The LVGL task notices that the user is inactive and publishes           *)
(* EVENT_UI_INACTIVE, which becomes a UI_SLEEP command; the button and an  *)
(* alarm become UI_WAKE.  The power task carries the commands out one      *)
(* after the other, and stops or starts the LVGL task in doing so.         *)
(* Modelled from the end of ui_on; shutdown is not modelled.               *)
(***************************************************************************)
EXTENDS UiBase, Sequences

CONSTANTS
  QueueLen,            \* of power_queue
  JoinMayTimeOut,      \* may the LVGL task take longer than 100 ms to stop?
  TaskCreateMayFail,   \* may xTaskCreatePinnedToCore fail?
  PanelMayFail         \* may a command to the display panel fail?

ASSUME PowerAssumption ==
  /\ QueueLen \in Nat \ {0}
  /\ {JoinMayTimeOut, TaskCreateMayFail, PanelMayFail} \subseteq BOOLEAN

UI_ACTIVE == "UI_ACTIVE"
BACKGROUND == "BACKGROUND"
Cmd == {"UI_SLEEP", "UI_WAKE"}
DisplayState == {"OFF", "ON", "SLEEP"}
PowerPC == {"idle", "suspend", "stop", "join", "drivers", "resume", "thread", "finish"}
LvglPC == {"none", "loop", "handler", "closing", "showing", "returning",
           "check", "publish", "give"}

VARIABLES
  power_queue, state, power,   \* power: where power_task_fn is
  work_state,                  \* of the runtime manager
  lvgl_run_flag, worker_handle,
  lvgl_exit_semaphore,         \* "null", "empty" or "given"
  lvgl,                        \* where lvgl_task is
  lateGive,                    \* an old LVGL task has yet to give the semaphore
  timedOut,                    \* history: has a join timed out?
  inactive,                    \* has the inactivity timeout passed?
  display,                     \* what display_fsm.c believes
  panel, panelFailed,          \* the panel itself; did its last command fail?
  encoder, keyboard

powerVars == <<power_queue, state, power, work_state, lvgl_run_flag, worker_handle,
               lvgl_exit_semaphore, lvgl, lateGive, timedOut, inactive, display,
               panel, panelFailed, encoder, keyboard>>
vars == <<uiVars, powerVars>>

\* the variables of one concern, for UNCHANGED
cmdVars == <<power_queue, state, power, work_state>>
runVars == <<lvgl_run_flag, worker_handle, lvgl_exit_semaphore, lateGive, timedOut>>
threadVars == <<lvgl, runVars>>
driverVars == <<display, panel, panelFailed, encoder, keyboard>>

PowerFlagsOK ==
  /\ lvgl_run_flag \in BOOLEAN /\ worker_handle \in BOOLEAN
  /\ lateGive \in BOOLEAN /\ timedOut \in BOOLEAN
  /\ inactive \in BOOLEAN
  /\ panelFailed \in BOOLEAN /\ encoder \in BOOLEAN /\ keyboard \in BOOLEAN

TypeOK ==
  /\ UiTypeOK
  /\ PowerFlagsOK
  /\ power_queue \in Seq(Cmd) /\ Len(power_queue) <= QueueLen
  /\ state \in {UI_ACTIVE, BACKGROUND} /\ work_state \in {UI_ACTIVE, BACKGROUND}
  /\ power \in PowerPC
  /\ lvgl_exit_semaphore \in {"null", "empty", "given"}
  /\ lvgl \in LvglPC
  /\ display \in DisplayState /\ panel \in DisplayState

\* the state after ui_on, where display_on may have failed
Init ==
  /\ UiInit
  /\ power_queue = <<>> /\ state = UI_ACTIVE /\ power = "idle"
  /\ work_state = UI_ACTIVE
  /\ lvgl_run_flag = TRUE /\ worker_handle = TRUE
  /\ lvgl_exit_semaphore = "empty" /\ lvgl = "loop"
  /\ lateGive = FALSE /\ timedOut = FALSE
  /\ inactive = FALSE
  /\ panelFailed \in {FALSE, PanelMayFail}
  /\ display = (IF panelFailed THEN "OFF" ELSE "ON") /\ panel = display
  /\ encoder = TRUE /\ keyboard = TRUE

\* Mutant: the queue grows
SendUnbounded(cmd) == power_queue' = Append(power_queue, cmd)

\* xQueueSend(power_queue, &cmd, 0): a full queue drops the command
Send(cmd) ==
  power_queue' = IF Len(power_queue) < QueueLen
                   THEN Append(power_queue, cmd) ELSE power_queue

-----------------------------------------------------------------------------
(* The display *)

\* fsm_display_state_transition: its answer, and the state it leaves
FsmAccepts(from, next) == from # next /\ ~(next = "SLEEP" /\ from = "OFF")
FsmNext(from, next) == IF FsmAccepts(from, next) THEN next ELSE from

\* Mutant: the state machine is not rolled back when the panel refuses
DisplayCommandWithoutRollback(next) ==
  /\ display' = FsmNext(display, next)
  /\ IF FsmAccepts(display, next)
       THEN \E ok \in {TRUE, ~PanelMayFail} :
              /\ panel' = IF ok THEN next ELSE panel
              /\ panelFailed' = ~ok
       ELSE UNCHANGED <<panel, panelFailed>>

\* display_sleep and display_on: change the state machine, command the panel,
\* roll back if either refuses
DisplayCommand(next) ==
  IF FsmAccepts(display, next)
    THEN \E ok \in {TRUE, ~PanelMayFail} :
           /\ panel' = IF ok THEN next ELSE panel
           /\ panelFailed' = ~ok
           /\ display' = IF ok THEN next ELSE FsmNext(next, display)
    ELSE /\ display' = FsmNext(display, display)
         /\ UNCHANGED <<panel, panelFailed>>

-----------------------------------------------------------------------------
(* The power task *)

\* Mutant: the command is received and ignored
DropSleep ==
  /\ Running /\ power = "idle" /\ power_queue # <<>> /\ Head(power_queue) = "UI_SLEEP"
  /\ power_queue' = Tail(power_queue)
  /\ UNCHANGED <<uiVars, state, power, work_state, threadVars, inactive, driverVars>>

\* POWER_CMD_UI_SLEEP: nothing to do in the background, else ui_sleep
ReceiveSleep ==
  /\ Running /\ power = "idle" /\ power_queue # <<>> /\ Head(power_queue) = "UI_SLEEP"
  /\ power_queue' = Tail(power_queue)
  /\ IF state = BACKGROUND
       THEN UNCHANGED <<state, power, wfop>>
       ELSE /\ state' = BACKGROUND /\ power' = "suspend"
            /\ ui_base_suspend_base_screen("power")
  /\ UNCHANGED <<wfVars, screenVars, lockVars, ui_mutex, alarmVars, worker, fault,
                 work_state, threadVars, inactive, driverVars>>

\* suspend_lvgl asserts that nobody holds a wakelock
AssertNoWakelock ==
  /\ Running /\ power = "suspend" /\ wfop["power"] = "none"
  /\ IF wakelock_manager_is_wake_locked
       THEN fault' = "suspend_lvgl" /\ UNCHANGED power
       ELSE power' = "stop" /\ UNCHANGED fault
  /\ UNCHANGED <<wfVars, wfop, screenVars, lockVars, ui_mutex, alarmVars, worker,
                 power_queue, state, work_state, threadVars, inactive,
                 driverVars>>

\* stop_lvgl_thread: clear the flag, notify the task ...
StopThread ==
  /\ Running /\ power = "stop"
  /\ lvgl_run_flag' = FALSE
  /\ power' = IF lvgl_exit_semaphore = "null" THEN "drivers" ELSE "join"
  /\ UNCHANGED <<uiVars, power_queue, state, work_state, lvgl, worker_handle,
                 lvgl_exit_semaphore, lateGive, timedOut, inactive, driverVars>>

\* Mutant: nobody waits
JoinWithoutWaiting ==
  /\ Running /\ power = "join"
  /\ lvgl_exit_semaphore' = "null"
  /\ power' = "drivers"
  /\ UNCHANGED <<uiVars, power_queue, state, work_state, lvgl, lvgl_run_flag,
                 worker_handle, lateGive, timedOut, inactive, driverVars>>

\* ... and wait for it, for at most 100 ms; the semaphore is deleted either way.
\* Bound: no second task is late while one still is.
JoinThread ==
  /\ Running /\ power = "join"
  /\ lvgl_exit_semaphore = "given" \/ (JoinMayTimeOut /\ ~lateGive)
  /\ timedOut' = (timedOut \/ lvgl_exit_semaphore # "given")
  /\ lvgl_exit_semaphore' = "null"
  /\ power' = "drivers"
  /\ UNCHANGED <<uiVars, power_queue, state, work_state, lvgl, lvgl_run_flag,
                 worker_handle, lateGive, inactive, driverVars>>

\* Mutant: the runtime manager is not told
SuspendDriversQuietly ==
  /\ Running /\ power = "drivers" /\ ~ui_mutex
  /\ encoder' = FALSE /\ keyboard' = FALSE
  /\ DisplayCommand("SLEEP")
  /\ power' = "idle"
  /\ UNCHANGED <<uiVars, power_queue, state, work_state, threadVars, inactive>>

\* encoder_deinit, suspend_keyboard (under the UI lock), display_sleep,
\* runtime_manager_set_active_state(false)
SuspendDrivers ==
  /\ Running /\ power = "drivers" /\ ~ui_mutex
  /\ encoder' = FALSE /\ keyboard' = FALSE
  /\ DisplayCommand("SLEEP")
  /\ work_state' = BACKGROUND
  /\ power' = "idle"
  /\ UNCHANGED <<uiVars, power_queue, state, threadVars, inactive>>

\* Mutant: the command is only acted upon when the UI is active
DropWake ==
  /\ Running /\ power = "idle" /\ power_queue # <<>> /\ Head(power_queue) = "UI_WAKE"
  /\ power_queue' = Tail(power_queue)
  /\ IF state = BACKGROUND
       THEN UNCHANGED <<state, power, work_state>>
       ELSE state' = UI_ACTIVE /\ work_state' = UI_ACTIVE /\ power' = "resume"
  /\ UNCHANGED <<uiVars, threadVars, inactive, driverVars>>

\* POWER_CMD_UI_WAKE: nothing to do when active, else tell the runtime manager
ReceiveWake ==
  /\ Running /\ power = "idle" /\ power_queue # <<>> /\ Head(power_queue) = "UI_WAKE"
  /\ power_queue' = Tail(power_queue)
  /\ IF state = UI_ACTIVE
       THEN UNCHANGED <<state, power, work_state>>
       ELSE state' = UI_ACTIVE /\ work_state' = UI_ACTIVE /\ power' = "resume"
  /\ UNCHANGED <<uiVars, threadVars, inactive, driverVars>>

\* resume_lvgl: display_on, resume_keyboard (under the UI lock), encoder_init
ResumeDrivers ==
  /\ Running /\ power = "resume" /\ ~ui_mutex
  /\ DisplayCommand("ON")
  /\ keyboard' = TRUE /\ encoder' = TRUE
  /\ power' = "thread"
  /\ UNCHANGED <<uiVars, power_queue, state, work_state, threadVars, inactive>>

\* start_lvgl_thread, unless the handle of an old task is still set; the new
\* task triggers activity; then ui_base_resume_base_screen
StartThread ==
  /\ Running /\ power = "thread"
  /\ power' = "finish"
  /\ ui_base_resume_base_screen("power")
  /\ \/ worker_handle /\ UNCHANGED <<threadVars, inactive>>
     \/ /\ ~worker_handle
        /\ lvgl_run_flag' = TRUE /\ worker_handle' = TRUE
        /\ lvgl_exit_semaphore' = "empty"
        /\ lvgl' = "loop" /\ inactive' = FALSE
        /\ lateGive' = (lateGive \/ lvgl = "give")
        /\ UNCHANGED timedOut
     \/ /\ ~worker_handle /\ TaskCreateMayFail
        /\ lvgl_run_flag' = FALSE
        /\ lvgl_exit_semaphore' = "null"
        /\ UNCHANGED <<lvgl, worker_handle, lateGive, timedOut, inactive>>
  /\ UNCHANGED <<wfVars, screenVars, lockVars, ui_mutex, alarmVars, worker, fault,
                 power_queue, state, work_state, driverVars>>

FinishWake ==
  /\ Running /\ power = "finish" /\ wfop["power"] = "none"
  /\ power' = "idle"
  /\ UNCHANGED <<uiVars, power_queue, state, work_state, threadVars, inactive,
                 driverVars>>

-----------------------------------------------------------------------------
(* The LVGL task *)

\* while(lvgl_run_flag): take the UI lock and run LVGL, or leave.  The delay at
\* the end of the loop is spent in "loop".
LvglLoop ==
  /\ Running /\ lvgl = "loop"
  /\ IF lvgl_run_flag
       THEN lvgl' = "handler" /\ ui_mutex' = TRUE /\ UNCHANGED worker_handle
       ELSE lvgl' = "give" /\ worker_handle' = FALSE /\ UNCHANGED ui_mutex
  /\ UNCHANGED <<wfVars, wfop, screenVars, lockVars, alarmVars, worker, fault,
                 cmdVars, lvgl_run_flag, lvgl_exit_semaphore, lateGive, timedOut,
                 inactive, driverVars>>

\* lv_timer_handler without a key: the inactivity time grows
HandleNothing ==
  /\ Running /\ lvgl = "handler"
  /\ lvgl' = "check" /\ ui_mutex' = FALSE
  /\ inactive' \in {inactive, TRUE}
  /\ UNCHANGED <<wfVars, wfop, screenVars, lockVars, alarmVars, worker, fault,
                 cmdVars, runVars, driverVars>>

\* a key is read, which resets the inactivity time
Key ==
  /\ Running /\ lvgl = "handler" /\ keyboard
  /\ inactive' = FALSE
  /\ UNCHANGED <<ui_mutex, alarmVars, worker, fault, cmdVars, runVars,
                 driverVars>>

\* LEFT or RIGHT on the tab: close_curr_page stops the watchface.  The alarm
\* screen and an open app keep the keys to themselves.
KeyNavigate ==
  /\ Key
  /\ ~background /\ ~is_wakelock_acquired
  /\ lvgl' = "closing"
  /\ wfop' = [wfop EXCEPT !["lvgl"] = IF WatchfaceUp THEN "unsubscribe" ELSE "none"]
  /\ UNCHANGED <<wfVars, screenVars, lockVars>>

\* the page is closed and the neighbouring tab selected ...
PageClosed ==
  /\ Running /\ lvgl = "closing" /\ wfop["lvgl"] = "none"
  /\ lvgl' = "showing"
  /\ curr_wf' = FALSE
  /\ \E tab \in Tabs :
       /\ tab = curr_watch_state + 1 \/ tab + 1 = curr_watch_state
       /\ curr_watch_state' = tab
  /\ UNCHANGED <<subscribed, ticking, wfop, screenVars, lockVars, ui_mutex,
                 alarmVars, worker, fault, cmdVars, runVars, inactive,
                 driverVars>>

\* ... and show_page draws it
show_page ==
  /\ Running /\ lvgl = "showing"
  /\ lvgl' = "returning"
  /\ curr_wf' = (curr_watch_state = WATCHFACE)
  /\ wfop' = [wfop EXCEPT !["lvgl"] =
                IF curr_watch_state = WATCHFACE THEN "subscribe" ELSE "none"]
  /\ UNCHANGED <<curr_watch_state, subscribed, ticking, screenVars, lockVars,
                 ui_mutex, alarmVars, worker, fault, cmdVars, runVars, inactive,
                 driverVars>>

\* ENTER on the dismiss button, which asks whether the timer is there
dismiss_btn_click_cb ==
  /\ Key
  /\ background /\ expiry_timer
  /\ alarm_screen_exit_cleanup
  /\ lvgl' = "returning"
  /\ UNCHANGED wfVars

\* ENTER on the stopwatch's button, or leaving the app while it runs
start_stop_btn_click_cb ==
  /\ Key
  /\ curr_watch_state = APP /\ ~background
  /\ is_wakelock_acquired' = ~is_wakelock_acquired
  /\ IF is_wakelock_acquired THEN wakelock_manager_release_wakelock
                             ELSE wakelock_manager_acquire_wakelock
  /\ lvgl' = "returning"
  /\ UNCHANGED <<wfVars, wfop, screenVars>>

\* the screen's timer, or a forgotten one
timer_expiry_cb ==
  /\ Running /\ lvgl = "handler" /\ (expiry_timer \/ orphans)
  /\ alarm_screen_exit_cleanup
  /\ lvgl' = "returning"
  /\ UNCHANGED <<wfVars, ui_mutex, alarmVars, worker, fault, cmdVars, runVars,
                 inactive, driverVars>>

\* the callback returns and the UI lock is given back
CallbackReturns ==
  /\ Running /\ lvgl = "returning" /\ wfop["lvgl"] = "none"
  /\ lvgl' = "check" /\ ui_mutex' = FALSE
  /\ UNCHANGED <<wfVars, wfop, screenVars, lockVars, alarmVars, worker, fault,
                 cmdVars, runVars, inactive, driverVars>>

\* the inactivity check
CheckInactivity ==
  /\ Running /\ lvgl = "check"
  /\ lvgl' = IF inactive /\ ~wakelock_manager_is_wake_locked THEN "publish" ELSE "loop"
  /\ UNCHANGED <<uiVars, cmdVars, runVars, inactive, driverVars>>

\* EVENT_UI_INACTIVE, answered by ui_inactive_event_cb
PublishInactive ==
  /\ Running /\ lvgl = "publish"
  /\ Send("UI_SLEEP")
  /\ lvgl' = "loop"
  /\ UNCHANGED <<uiVars, state, power, work_state, runVars, inactive, driverVars>>

\* xSemaphoreGive, which asserts that there is a semaphore
GiveExit ==
  /\ IF lvgl_exit_semaphore = "null"
       THEN fault' = "xSemaphoreGive" /\ UNCHANGED lvgl_exit_semaphore
       ELSE lvgl_exit_semaphore' = "given" /\ UNCHANGED fault
  /\ UNCHANGED <<wfVars, wfop, screenVars, lockVars, ui_mutex, alarmVars, worker,
                 cmdVars, lvgl_run_flag, worker_handle, timedOut, inactive, driverVars>>

LvglExit ==
  /\ Running /\ lvgl = "give"
  /\ lvgl' = "none"
  /\ GiveExit
  /\ UNCHANGED lateGive

\* the same, of a task that was too late for its join
LateExit ==
  /\ Running /\ lateGive
  /\ lateGive' = FALSE
  /\ GiveExit
  /\ UNCHANGED lvgl

-----------------------------------------------------------------------------
(* Alarms and the button *)

\* EVENT_ALARM_TRIGGERED is published in the esp_timer task; the power manager
\* subscribed first and wakes the UI unless it believes it active ...
alarm_triggered_cb ==
  /\ Running /\ timer_cb = "idle" /\ alarms_left > 0
  /\ alarms_left' = alarms_left - 1
  /\ timer_cb' = "alarm"
  /\ IF state = UI_ACTIVE THEN UNCHANGED power_queue ELSE Send("UI_WAKE")
  /\ UNCHANGED <<wfVars, wfop, screenVars, lockVars, ui_mutex, alarm_work, worker,
                 fault, state, power, work_state, threadVars, inactive,
                 driverVars>>

\* ... then the UI manager schedules the screen, which may be refused
alarm_triggred_event_cb ==
  /\ Running /\ timer_cb = "alarm"
  /\ timer_cb' = "idle"
  /\ alarm_work' \in {alarm_work, alarm_work + 1}
  /\ UNCHANGED <<wfVars, wfop, screenVars, lockVars, ui_mutex, alarms_left,
                 worker, fault, powerVars>>

\* light_sleep_exit_cb after the button woke the chip, which sleeps only when
\* every task is blocked
light_sleep_exit_cb ==
  /\ Running
  /\ power = "join" \/ (power = "idle" /\ power_queue = <<>>)
  /\ lvgl \in {"none", "loop"} /\ ~lateGive
  /\ timer_cb = "idle" /\ \A w \in UiWorkers : worker[w] = "idle"
  /\ Send("UI_WAKE")
  /\ UNCHANGED <<uiVars, state, power, work_state, threadVars, inactive,
                 driverVars>>

-----------------------------------------------------------------------------
(* The specification *)

PowerStep ==
  \/ ReceiveSleep \/ AssertNoWakelock \/ StopThread \/ JoinThread \/ SuspendDrivers
  \/ ReceiveWake \/ ResumeDrivers \/ StartThread \/ FinishWake
  \/ WatchfaceStep("power") /\ UNCHANGED powerVars

LvglStep ==
  \/ LvglLoop \/ HandleNothing \/ PageClosed \/ show_page \/ CallbackReturns
  \/ CheckInactivity \/ PublishInactive \/ LvglExit \/ LateExit
  \/ WatchfaceStep("lvgl") /\ UNCHANGED powerVars

UserStep == KeyNavigate \/ dismiss_btn_click_cb \/ start_stop_btn_click_cb
              \/ light_sleep_exit_cb

TimerStep == alarm_triggered_cb \/ alarm_triggred_event_cb

WorkerStep(w) ==
  (TakeAlarm(w) \/ CheckScreen(w) \/ show_alarm_page(w) \/ WatchfaceStep(w))
    /\ UNCHANGED powerVars

Next ==
  \/ PowerStep \/ LvglStep \/ UserStep \/ TimerStep \/ timer_expiry_cb
  \/ \E w \in UiWorkers : WorkerStep(w)

Spec == Init /\ [][Next]_vars

\* The power task and the LVGL task run on.  An alarm screen that stays for 30
\* seconds while LVGL runs is closed by its timer.  The user, the alarms and the
\* workers owe nothing.
FairSpec ==
  /\ Spec
  /\ WF_vars(PowerStep)
  /\ WF_vars(LvglStep)
  /\ SF_vars(timer_expiry_cb)

-----------------------------------------------------------------------------
(* Properties *)

\* Between two commands (power_task_fn) everything agrees with the power state:
\* encoder, keyboard and the runtime manager always, the display unless the
\* panel refused its last command, the LVGL task unless a join has timed out.
UiSettled ==
  Running /\ power = "idle" =>
    /\ encoder = (state = UI_ACTIVE) /\ keyboard = (state = UI_ACTIVE)
    /\ work_state = state
    /\ panelFailed \/ display = (IF state = UI_ACTIVE THEN "ON" ELSE "SLEEP")
    /\ state = BACKGROUND => ~lvgl_run_flag
    /\ state = BACKGROUND /\ ~timedOut => lvgl = "none"

\* Everything that is switched on with the UI, and off.
DriversActive == encoder /\ keyboard /\ work_state = UI_ACTIVE /\ (panelFailed \/ display = "ON")
DriversAsleep == ~encoder /\ ~keyboard /\ (panelFailed \/ display = "SLEEP")

\* What is on and off at each point of power_task_fn: state changes first, the drivers
\* follow it in the middle of suspend_lvgl and resume_lvgl.
PowerInv ==
  /\ power = "idle" => \/ state = UI_ACTIVE /\ DriversActive
                       \/ state = BACKGROUND /\ DriversAsleep /\ work_state = BACKGROUND
  /\ power \in {"suspend", "stop", "join", "drivers"} => state = BACKGROUND /\ DriversActive
  /\ power = "resume" => state = UI_ACTIVE /\ DriversAsleep /\ work_state = UI_ACTIVE
  /\ power \in {"thread", "finish"} => state = UI_ACTIVE /\ DriversActive

\* Before any join times out there is at most one LVGL task, worker_handle tells
\* whether it runs, and its semaphore outlives it; none is left once it is joined.
ThreadInv ==
  /\ state = BACKGROUND /\ power \in {"idle", "join", "drivers"} => ~lvgl_run_flag
  /\ fault = "xSemaphoreGive" => timedOut
  /\ ~timedOut =>
       /\ ~lateGive
       /\ worker_handle = (lvgl \notin {"none", "give"})
       /\ lvgl_exit_semaphore # "empty" => lvgl = "none"
       /\ power \in {"drivers", "resume", "thread"} => lvgl = "none"
       /\ power = "idle" /\ state = BACKGROUND => lvgl = "none"

\* The display state machine (display_fsm.c) never disagrees with the panel,
\* whichever command fails and wherever the UI went from there.
DisplayTruthful == display = panel

\* The LVGL task only finds its exit semaphore gone (stop_lvgl_thread deletes
\* it) after a join that timed out.
ExitSemaphoreThere == fault = "xSemaphoreGive" => timedOut

\* Somebody will still resume the watchface: the power task until it has woken the UI,
\* whoever closes the alarm screen that is up or about to be, the LVGL task when it has
\* changed the tab, and a task in one of the given steps of its resumption.
ResumeOwed(steps) ==
  \/ power \in {"suspend", "stop", "join", "drivers", "resume", "thread"}
  \/ power = "idle" /\ state = BACKGROUND
  \/ background \/ \E w \in UiWorkers : worker[w] # "idle"
  \/ lvgl \in {"closing", "showing"}
  \/ wfop["power"] \in steps \/ wfop["lvgl"] \in steps

\* The inductive strengthening of WatchfaceTicks: which task may be suspending or resuming
\* the watchface and when, a watchface tab is drawn except while the tab changes, and a
\* watchface without its subscription or its tick is owed a resumption.
WatchfaceInv ==
  /\ wfop["power"] \in {"unsubscribe", "stop"} => power = "suspend"
  /\ wfop["power"] \in {"subscribe", "start"} => power = "finish"
  /\ wfop["lvgl"] \in {"unsubscribe", "stop"} => lvgl = "closing"
  /\ wfop["lvgl"] \in {"subscribe", "start"} => lvgl = "returning"
  /\ \A w \in UiWorkers :
       wfop[w] # "none" => wfop[w] \in {"unsubscribe", "stop"} /\ worker[w] = "suspending"
  /\ ~worker_handle => lvgl \in {"none", "give"}
  /\ curr_watch_state = WATCHFACE => curr_wf \/ lvgl = "showing"
  /\ curr_watch_state = WATCHFACE => subscribed \/ ResumeOwed({"subscribe"})
  /\ curr_watch_state = WATCHFACE => ticking \/ ResumeOwed({"subscribe", "start"})

\* The inductive core of the UI's power handling: what the drivers, the state and the
\* LVGL task are at every step of a sleep or wake command, that the LVGL task finds
\* its exit semaphore unless the wait for it was given up, and who still owes the
\* watchface its tick (power_manager.c, lvgl_bridge.c, wf_manager.c).
UiInv == TypeOK /\ PowerInv /\ ThreadInv /\ ExitSemaphoreThere /\ WatchfaceInv

\* An alarm screen and a running stopwatch each keep the display on, whatever
\* the workers, the timers and the buttons do to the common counter.
ScreenKeepsAwake ==
  wakelock_counter >= (IF background THEN 1 ELSE 0) + (IF is_wakelock_acquired THEN 1 ELSE 0)

\* Once the tasks are done with it, a watchface in view gets its ticks: every
\* suspension, for an alarm or for sleep, is followed by a resumption.
WatchfaceTicks ==
  /\ Running /\ power = "idle" /\ state = UI_ACTIVE /\ ~background
  /\ curr_watch_state = WATCHFACE /\ lvgl \notin {"closing", "showing", "returning"}
  /\ \A w \in UiWorkers : worker[w] = "idle"
  => subscribed /\ ticking

\* A wake command that finds the UI asleep wakes it, unless an assertion stops
\* the program.
WakeAnswered ==
  (state = BACKGROUND /\ \E i \in DOMAIN power_queue : power_queue[i] = "UI_WAKE")
    ~> (power = "idle" /\ state = UI_ACTIVE) \/ ~Running

\* A UI that nobody uses and nothing keeps awake goes to sleep, even though
\* commands are dropped when the queue is full.
InactivitySleeps ==
  (inactive /\ worker_handle /\ wakelock_counter = 0)
    ~> (state = BACKGROUND \/ ~inactive \/ wakelock_counter > 0 \/ ~Running)

\* An alarm screen on a running UI goes away by itself.
ScreenGoesAway ==
  (background /\ state = UI_ACTIVE)
    ~> (~background \/ state = BACKGROUND \/ ~lvgl_run_flag \/ ~Running)

=============================================================================
