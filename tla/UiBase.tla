------------------------------- MODULE UiBase -------------------------------
(***************************************************************************)
(* What the UI shows: the three tabs (base_page.c), the watchface and its  *)
(* tick (wf_manager.c), the alarm screen (ui_event_screen.c) and the       *)
(* wakelock (wakelock_manager.c) that keeps the display on.                *)
(*                                                                         *)
(* Three kinds of tasks work on this state: the LVGL task, which handles   *)
(* keys and LVGL timers while it holds the UI lock; the system workers,    *)
(* which show alarms; the power task, which suspends and resumes the tab.  *)
(* Only the drawing of the alarm screen takes the UI lock outside the LVGL *)
(* task, so everything else interleaves freely.  Timeouts of the UI lock   *)
(* (250 ms) are not modelled.                                              *)
(***************************************************************************)
EXTENDS Naturals

CONSTANTS
  UiWorkers,           \* the system workers that may run handle_ui_event_cb
  MaxAlarms            \* alarms that fire while the model runs

ASSUME UiAssumption ==
  /\ MaxAlarms \in Nat
  /\ UiWorkers \cap {"power", "lvgl"} = {}

NOTIFY == 0
WATCHFACE == 1
APP == 2
Tabs == {NOTIFY, WATCHFACE, APP}

Task == UiWorkers \cup {"power", "lvgl"}

VARIABLES
  curr_watch_state,    \* the open tab
  curr_wf,             \* is a watchface drawn?
  subscribed,          \* is dispatch_wf_update subscribed?
  ticking,             \* does the TICK_WATCHFACE timer run?
  wfop,                \* where each task is in watchface_manager_suspend, _resume, ...
  background,          \* is there an alarm screen?
  expiry_timer,        \* is there a timer that will close it?
  orphans,             \* are there expiry timers nobody knows any more?
  wakelock_counter,
  is_wakelock_acquired,\* the stopwatch has taken a wakelock
  ui_mutex,            \* does the LVGL task hold the UI lock?
  timer_cb,            \* what the esp_timer task is doing
  alarm_work,          \* alarms handed to the runtime manager, not yet taken
  alarms_left,         \* alarms that may still fire
  worker,              \* where each worker is in ui_base_handle_base_screen_event
  fault                \* the assertion that failed, "none" before

uiVars == <<curr_watch_state, curr_wf, subscribed, ticking, wfop, background,
            expiry_timer, orphans, wakelock_counter, is_wakelock_acquired,
            ui_mutex, timer_cb, alarm_work, alarms_left, worker, fault>>

\* the variables of one concern, for UNCHANGED
wfVars == <<curr_watch_state, curr_wf, subscribed, ticking>>
screenVars == <<background, expiry_timer, orphans>>
lockVars == <<wakelock_counter, is_wakelock_acquired>>
alarmVars == <<timer_cb, alarm_work, alarms_left>>

WfOp == {"none", "unsubscribe", "stop", "subscribe", "start"}
Fault == {"none", "suspend_lvgl", "xSemaphoreGive"}

UiFlagsOK ==
  /\ curr_wf \in BOOLEAN /\ subscribed \in BOOLEAN /\ ticking \in BOOLEAN
  /\ background \in BOOLEAN /\ expiry_timer \in BOOLEAN /\ orphans \in BOOLEAN
  /\ is_wakelock_acquired \in BOOLEAN
  /\ ui_mutex \in BOOLEAN

UiTypeOK ==
  /\ UiFlagsOK
  /\ curr_watch_state \in Tabs
  /\ wfop \in [Task -> WfOp]
  /\ wakelock_counter \in Nat
  /\ timer_cb \in {"idle", "alarm"}
  /\ alarm_work \in Nat /\ alarms_left \in 0..MaxAlarms
  /\ worker \in [UiWorkers -> {"idle", "suspending", "drawing"}]
  /\ fault \in Fault

\* ui_base_draw_base_screen, after init_lvgl: the watchface is shown and ticks
UiInit ==
  /\ curr_watch_state = WATCHFACE
  /\ curr_wf = TRUE /\ subscribed = TRUE /\ ticking = TRUE
  /\ wfop = [t \in Task |-> "none"]
  /\ background = FALSE /\ expiry_timer = FALSE /\ orphans = FALSE
  /\ wakelock_counter = 0 /\ is_wakelock_acquired = FALSE
  /\ ui_mutex = FALSE
  /\ timer_cb = "idle"
  /\ alarm_work = 0 /\ alarms_left = MaxAlarms
  /\ worker = [w \in UiWorkers |-> "idle"]
  /\ fault = "none"

\* nothing happens after a failed assertion
Running == fault = "none"

-----------------------------------------------------------------------------
(* The wakelock *)

wakelock_manager_acquire_wakelock == wakelock_counter' = wakelock_counter + 1

\* a release without a wakelock resets the counter
wakelock_manager_release_wakelock ==
  wakelock_counter' = IF wakelock_counter = 0 THEN 0 ELSE wakelock_counter - 1

wakelock_manager_is_wake_locked == wakelock_counter > 0

-----------------------------------------------------------------------------
(* Tabs and watchface *)

\* Only the watchface tab has on_suspend and on_resume (main.c), and they only
\* act on a drawn watchface.  The check, the change of the subscription and
\* that of the tick are three steps.
WatchfaceUp == curr_watch_state = WATCHFACE /\ curr_wf

\* Mutant: the tab is not resumed
ui_base_resume_base_screen_skipped(t) == wfop' = [wfop EXCEPT ![t] = "none"]

ui_base_suspend_base_screen(t) ==
  wfop' = [wfop EXCEPT ![t] = IF WatchfaceUp THEN "unsubscribe" ELSE "none"]

ui_base_resume_base_screen(t) ==
  wfop' = [wfop EXCEPT ![t] = IF WatchfaceUp THEN "subscribe" ELSE "none"]

\* the rest of watchface_manager_suspend, _resume, _start_wf and _stop_wf
WatchfaceStep(t) ==
  /\ Running
  /\ \/ /\ wfop[t] = "unsubscribe"
        /\ subscribed' = FALSE
        /\ wfop' = [wfop EXCEPT ![t] = "stop"]
        /\ UNCHANGED ticking
     \/ /\ wfop[t] = "stop"
        /\ ticking' = FALSE
        /\ wfop' = [wfop EXCEPT ![t] = "none"]
        /\ UNCHANGED subscribed
     \/ /\ wfop[t] = "subscribe"
        /\ subscribed' = TRUE
        /\ wfop' = [wfop EXCEPT ![t] = "start"]
        /\ UNCHANGED ticking
     \/ /\ wfop[t] = "start"
        /\ ticking' = TRUE
        /\ wfop' = [wfop EXCEPT ![t] = "none"]
        /\ UNCHANGED subscribed
  /\ UNCHANGED <<curr_watch_state, curr_wf, screenVars, lockVars, ui_mutex,
                 alarmVars, worker, fault>>

-----------------------------------------------------------------------------
(* The alarm screen *)

\* handle_ui_event_cb: a worker takes the alarm and suspends the tab
TakeAlarm(w) ==
  /\ Running /\ worker[w] = "idle" /\ alarm_work > 0
  /\ alarm_work' = alarm_work - 1
  /\ worker' = [worker EXCEPT ![w] = "suspending"]
  /\ ui_base_suspend_base_screen(w)
  /\ UNCHANGED <<wfVars, screenVars, lockVars, ui_mutex, timer_cb, alarms_left, fault>>

\* show_alarm_page returns early when a screen is up; the check is not locked
CheckScreen(w) ==
  /\ Running /\ worker[w] = "suspending" /\ wfop[w] = "none"
  /\ worker' = [worker EXCEPT ![w] = IF background THEN "idle" ELSE "drawing"]
  /\ UNCHANGED <<wfVars, wfop, screenVars, lockVars, ui_mutex, alarmVars, fault>>

\* Mutant: the expiry timer is not created
show_alarm_page_without_timer(w) ==
  /\ Running /\ worker[w] = "drawing" /\ ~ui_mutex
  /\ wakelock_manager_acquire_wakelock
  /\ background' = TRUE
  /\ worker' = [worker EXCEPT ![w] = "idle"]
  /\ UNCHANGED <<wfVars, wfop, expiry_timer, orphans, is_wakelock_acquired, ui_mutex,
                 alarmVars, fault>>

\* its locked section; a timer that expiry_timer named before is forgotten
show_alarm_page(w) ==
  /\ Running /\ worker[w] = "drawing" /\ ~ui_mutex
  /\ wakelock_manager_acquire_wakelock
  /\ background' = TRUE /\ expiry_timer' = TRUE
  /\ orphans' = (orphans \/ expiry_timer)
  /\ worker' = [worker EXCEPT ![w] = "idle"]
  /\ UNCHANGED <<wfVars, wfop, is_wakelock_acquired, ui_mutex, alarmVars, fault>>

\* Mutant: released whether or not a screen is up
alarm_screen_exit_cleanup_unguarded ==
  /\ background' = FALSE /\ expiry_timer' = FALSE
  /\ wakelock_manager_release_wakelock
  /\ ui_base_resume_base_screen("lvgl")
  /\ UNCHANGED <<orphans, is_wakelock_acquired>>

\* in the LVGL task, which holds the UI lock
alarm_screen_exit_cleanup ==
  IF background
    THEN /\ background' = FALSE /\ expiry_timer' = FALSE
         /\ wakelock_manager_release_wakelock
         /\ ui_base_resume_base_screen("lvgl")
         /\ UNCHANGED <<orphans, is_wakelock_acquired>>
    ELSE UNCHANGED <<screenVars, lockVars, wfop>>

=============================================================================
