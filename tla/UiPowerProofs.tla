--------------------------- MODULE UiPowerProofs ---------------------------
(***************************************************************************)
(* Proofs about UiPower, for every number of workers and alarms and every  *)
(* length of the command queue, with and without joins that time out,      *)
(* tasks that cannot be created and a panel that refuses commands.         *)
(***************************************************************************)
EXTENDS UiPower, SequenceTheorems, TLAPS

\* Sending and receiving leave a queue of at most QueueLen commands.
LEMMA QueueType ==
  ASSUME TypeOK
  PROVE  /\ \A cmd \in Cmd : Send(cmd) => power_queue' \in Seq(Cmd) /\ Len(power_queue') <= QueueLen
         /\ power_queue # <<>> => Tail(power_queue) \in Seq(Cmd) /\ Len(Tail(power_queue)) <= QueueLen
<1> USE PowerAssumption DEF TypeOK
<1>1. ASSUME NEW cmd \in Cmd, Send(cmd)
      PROVE  power_queue' \in Seq(Cmd) /\ Len(power_queue') <= QueueLen
  BY <1>1 DEF Send
<1>2. ASSUME power_queue # <<>>
      PROVE  Tail(power_queue) \in Seq(Cmd) /\ Len(Tail(power_queue)) <= QueueLen
  BY <1>2
<1> QED BY <1>1, <1>2

\* The typing of everything that is not a flag.
ValuesOK ==
  /\ curr_watch_state \in Tabs
  /\ wfop \in [Task -> WfOp]
  /\ wakelock_counter \in Nat
  /\ timer_cb \in {"idle", "alarm"}
  /\ alarm_work \in Nat /\ alarms_left \in 0..MaxAlarms
  /\ worker \in [UiWorkers -> {"idle", "suspending", "drawing"}]
  /\ fault \in Fault
  /\ power_queue \in Seq(Cmd) /\ Len(power_queue) <= QueueLen
  /\ state \in {UI_ACTIVE, BACKGROUND} /\ work_state \in {UI_ACTIVE, BACKGROUND}
  /\ power \in PowerPC
  /\ lvgl_exit_semaphore \in {"null", "empty", "given"}
  /\ lvgl \in LvglPC
  /\ display \in DisplayState /\ panel \in DisplayState

\* Every step keeps the variables in their types.
LEMMA TypeStep == TypeOK /\ [Next]_vars => TypeOK'
<1> SUFFICES ASSUME TypeOK, [Next]_vars PROVE TypeOK'
  OBVIOUS
<1>0. UiFlagsOK /\ PowerFlagsOK /\ ValuesOK
  BY DEF TypeOK, UiTypeOK, ValuesOK
<1> USE <1>0 DEF uiVars, powerVars, wfVars, screenVars, lockVars, alarmVars, cmdVars,
          runVars, threadVars, driverVars
<1>1. CASE ReceiveSleep
  <2>1. UiFlagsOK'
    BY <1>1, Zenon DEF ReceiveSleep, ui_base_suspend_base_screen, UiFlagsOK
  <2>2. PowerFlagsOK'
    BY <1>1, Zenon DEF ReceiveSleep, ui_base_suspend_base_screen, PowerFlagsOK
  <2>3. ValuesOK'
    BY <1>1, QueueType
    DEF ReceiveSleep, ui_base_suspend_base_screen, ValuesOK, PowerPC, WfOp, Task
  <2> QED BY <2>1, <2>2, <2>3 DEF TypeOK, UiTypeOK, ValuesOK
<1>2. CASE AssertNoWakelock
  <2>1. UiFlagsOK'
    BY <1>2, Zenon DEF AssertNoWakelock, UiFlagsOK
  <2>2. PowerFlagsOK'
    BY <1>2, Zenon DEF AssertNoWakelock, PowerFlagsOK
  <2>3. ValuesOK'
    BY <1>2 DEF AssertNoWakelock, ValuesOK, PowerPC, Fault
  <2> QED BY <2>1, <2>2, <2>3 DEF TypeOK, UiTypeOK, ValuesOK
<1>3. CASE StopThread
  <2>1. UiFlagsOK'
    BY <1>3, Zenon DEF StopThread, UiFlagsOK
  <2>2. PowerFlagsOK'
    BY <1>3, Zenon DEF StopThread, PowerFlagsOK
  <2>3. ValuesOK'
    BY <1>3 DEF StopThread, ValuesOK, PowerPC
  <2> QED BY <2>1, <2>2, <2>3 DEF TypeOK, UiTypeOK, ValuesOK
<1>4. CASE JoinThread
  <2>1. UiFlagsOK'
    BY <1>4, Zenon DEF JoinThread, UiFlagsOK
  <2>2. PowerFlagsOK'
    BY <1>4, Zenon DEF JoinThread, PowerFlagsOK
  <2>3. ValuesOK'
    BY <1>4 DEF JoinThread, ValuesOK, PowerPC
  <2> QED BY <2>1, <2>2, <2>3 DEF TypeOK, UiTypeOK, ValuesOK
<1>5. CASE SuspendDrivers
  <2>1. UiFlagsOK'
    BY <1>5, Zenon DEF SuspendDrivers, DisplayCommand, UiFlagsOK
  <2>2. PowerFlagsOK'
    BY <1>5, PowerAssumption, Zenon DEF SuspendDrivers, DisplayCommand, PowerFlagsOK
  <2>3. ValuesOK'
    BY <1>5 DEF SuspendDrivers, DisplayCommand, FsmNext, ValuesOK, PowerPC, DisplayState
  <2> QED BY <2>1, <2>2, <2>3 DEF TypeOK, UiTypeOK, ValuesOK
<1>6. CASE ReceiveWake
  <2>1. UiFlagsOK'
    BY <1>6, Zenon DEF ReceiveWake, UiFlagsOK
  <2>2. PowerFlagsOK'
    BY <1>6, Zenon DEF ReceiveWake, PowerFlagsOK
  <2>3. ValuesOK'
    BY <1>6, QueueType DEF ReceiveWake, ValuesOK, PowerPC
  <2> QED BY <2>1, <2>2, <2>3 DEF TypeOK, UiTypeOK, ValuesOK
<1>7. CASE ResumeDrivers
  <2>1. UiFlagsOK'
    BY <1>7, Zenon DEF ResumeDrivers, DisplayCommand, UiFlagsOK
  <2>2. PowerFlagsOK'
    BY <1>7, PowerAssumption, Zenon DEF ResumeDrivers, DisplayCommand, PowerFlagsOK
  <2>3. ValuesOK'
    BY <1>7 DEF ResumeDrivers, DisplayCommand, FsmNext, ValuesOK, PowerPC, DisplayState
  <2> QED BY <2>1, <2>2, <2>3 DEF TypeOK, UiTypeOK, ValuesOK
<1>8. CASE StartThread
  <2>1. UiFlagsOK'
    BY <1>8, Zenon DEF StartThread, ui_base_resume_base_screen, UiFlagsOK
  <2>2. PowerFlagsOK'
    BY <1>8, Zenon DEF StartThread, ui_base_resume_base_screen, PowerFlagsOK
  <2>3. ValuesOK'
    BY <1>8
    DEF StartThread, ui_base_resume_base_screen, ValuesOK, PowerPC, LvglPC, WfOp, Task
  <2> QED BY <2>1, <2>2, <2>3 DEF TypeOK, UiTypeOK, ValuesOK
<1>9. CASE FinishWake
  <2>1. UiFlagsOK'
    BY <1>9, Zenon DEF FinishWake, UiFlagsOK
  <2>2. PowerFlagsOK'
    BY <1>9, Zenon DEF FinishWake, PowerFlagsOK
  <2>3. ValuesOK'
    BY <1>9 DEF FinishWake, ValuesOK, PowerPC
  <2> QED BY <2>1, <2>2, <2>3 DEF TypeOK, UiTypeOK, ValuesOK
<1>10. CASE LvglLoop
  <2>1. UiFlagsOK'
    BY <1>10, Zenon DEF LvglLoop, UiFlagsOK
  <2>2. PowerFlagsOK'
    BY <1>10, Zenon DEF LvglLoop, PowerFlagsOK
  <2>3. ValuesOK'
    BY <1>10 DEF LvglLoop, ValuesOK, LvglPC
  <2> QED BY <2>1, <2>2, <2>3 DEF TypeOK, UiTypeOK, ValuesOK
<1>11. CASE HandleNothing
  <2>1. UiFlagsOK'
    BY <1>11, Zenon DEF HandleNothing, UiFlagsOK
  <2>2. PowerFlagsOK'
    BY <1>11, Zenon DEF HandleNothing, PowerFlagsOK
  <2>3. ValuesOK'
    BY <1>11 DEF HandleNothing, ValuesOK, LvglPC
  <2> QED BY <2>1, <2>2, <2>3 DEF TypeOK, UiTypeOK, ValuesOK
<1>12. CASE PageClosed
  <2>1. UiFlagsOK'
    BY <1>12, Zenon DEF PageClosed, UiFlagsOK
  <2>2. PowerFlagsOK'
    BY <1>12, Zenon DEF PageClosed, PowerFlagsOK
  <2>3. ValuesOK'
    BY <1>12 DEF PageClosed, ValuesOK, LvglPC
  <2> QED BY <2>1, <2>2, <2>3 DEF TypeOK, UiTypeOK, ValuesOK
<1>13. CASE show_page
  <2>1. UiFlagsOK'
    BY <1>13, Zenon DEF show_page, UiFlagsOK
  <2>2. PowerFlagsOK'
    BY <1>13, Zenon DEF show_page, PowerFlagsOK
  <2>3. ValuesOK'
    BY <1>13 DEF show_page, ValuesOK, LvglPC, WfOp, Task
  <2> QED BY <2>1, <2>2, <2>3 DEF TypeOK, UiTypeOK, ValuesOK
<1>14. CASE CallbackReturns
  <2>1. UiFlagsOK'
    BY <1>14, Zenon DEF CallbackReturns, UiFlagsOK
  <2>2. PowerFlagsOK'
    BY <1>14, Zenon DEF CallbackReturns, PowerFlagsOK
  <2>3. ValuesOK'
    BY <1>14 DEF CallbackReturns, ValuesOK, LvglPC
  <2> QED BY <2>1, <2>2, <2>3 DEF TypeOK, UiTypeOK, ValuesOK
<1>15. CASE CheckInactivity
  <2>1. UiFlagsOK'
    BY <1>15, Zenon DEF CheckInactivity, UiFlagsOK
  <2>2. PowerFlagsOK'
    BY <1>15, Zenon DEF CheckInactivity, PowerFlagsOK
  <2>3. ValuesOK'
    BY <1>15 DEF CheckInactivity, ValuesOK, LvglPC
  <2> QED BY <2>1, <2>2, <2>3 DEF TypeOK, UiTypeOK, ValuesOK
<1>16. CASE PublishInactive
  <2>1. UiFlagsOK'
    BY <1>16, Zenon DEF PublishInactive, UiFlagsOK
  <2>2. PowerFlagsOK'
    BY <1>16, Zenon DEF PublishInactive, PowerFlagsOK
  <2>3. ValuesOK'
    BY <1>16, QueueType DEF PublishInactive, ValuesOK, LvglPC, Cmd
  <2> QED BY <2>1, <2>2, <2>3 DEF TypeOK, UiTypeOK, ValuesOK
<1>17. CASE LvglExit
  <2>1. UiFlagsOK'
    BY <1>17, Zenon DEF LvglExit, GiveExit, UiFlagsOK
  <2>2. PowerFlagsOK'
    BY <1>17, Zenon DEF LvglExit, GiveExit, PowerFlagsOK
  <2>3. ValuesOK'
    BY <1>17 DEF LvglExit, GiveExit, ValuesOK, LvglPC, Fault
  <2> QED BY <2>1, <2>2, <2>3 DEF TypeOK, UiTypeOK, ValuesOK
<1>18. CASE LateExit
  <2>1. UiFlagsOK'
    BY <1>18, Zenon DEF LateExit, GiveExit, UiFlagsOK
  <2>2. PowerFlagsOK'
    BY <1>18, Zenon DEF LateExit, GiveExit, PowerFlagsOK
  <2>3. ValuesOK'
    BY <1>18 DEF LateExit, GiveExit, ValuesOK, Fault
  <2> QED BY <2>1, <2>2, <2>3 DEF TypeOK, UiTypeOK, ValuesOK
<1>19. CASE KeyNavigate
  <2>1. UiFlagsOK'
    BY <1>19, Zenon DEF KeyNavigate, Key, UiFlagsOK
  <2>2. PowerFlagsOK'
    BY <1>19, Zenon DEF KeyNavigate, Key, PowerFlagsOK
  <2>3. ValuesOK'
    BY <1>19 DEF KeyNavigate, Key, ValuesOK, LvglPC, WfOp, Task
  <2> QED BY <2>1, <2>2, <2>3 DEF TypeOK, UiTypeOK, ValuesOK
<1>20. CASE dismiss_btn_click_cb
  <2>1. UiFlagsOK'
    BY <1>20, Zenon
    DEF dismiss_btn_click_cb, Key, alarm_screen_exit_cleanup, ui_base_resume_base_screen,
        UiFlagsOK
  <2>2. PowerFlagsOK'
    BY <1>20, Zenon
    DEF dismiss_btn_click_cb, Key, alarm_screen_exit_cleanup, ui_base_resume_base_screen,
        PowerFlagsOK
  <2>3. ValuesOK'
    BY <1>20
    DEF dismiss_btn_click_cb, Key, alarm_screen_exit_cleanup, ui_base_resume_base_screen,
        wakelock_manager_release_wakelock, ValuesOK, LvglPC, WfOp, Task
  <2> QED BY <2>1, <2>2, <2>3 DEF TypeOK, UiTypeOK, ValuesOK
<1>21. CASE start_stop_btn_click_cb
  <2>1. UiFlagsOK'
    BY <1>21, Zenon DEF start_stop_btn_click_cb, Key, UiFlagsOK
  <2>2. PowerFlagsOK'
    BY <1>21, Zenon DEF start_stop_btn_click_cb, Key, PowerFlagsOK
  <2>3. ValuesOK'
    BY <1>21
    DEF start_stop_btn_click_cb, Key, wakelock_manager_acquire_wakelock,
        wakelock_manager_release_wakelock, ValuesOK, LvglPC
  <2> QED BY <2>1, <2>2, <2>3 DEF TypeOK, UiTypeOK, ValuesOK
<1>22. CASE light_sleep_exit_cb
  <2>1. UiFlagsOK'
    BY <1>22, Zenon DEF light_sleep_exit_cb, UiFlagsOK
  <2>2. PowerFlagsOK'
    BY <1>22, Zenon DEF light_sleep_exit_cb, PowerFlagsOK
  <2>3. ValuesOK'
    BY <1>22, QueueType DEF light_sleep_exit_cb, ValuesOK, Cmd
  <2> QED BY <2>1, <2>2, <2>3 DEF TypeOK, UiTypeOK, ValuesOK
<1>23. CASE alarm_triggered_cb
  <2>1. UiFlagsOK'
    BY <1>23, Zenon DEF alarm_triggered_cb, UiFlagsOK
  <2>2. PowerFlagsOK'
    BY <1>23, Zenon DEF alarm_triggered_cb, PowerFlagsOK
  <2>3. ValuesOK'
    BY <1>23, QueueType, UiAssumption DEF alarm_triggered_cb, ValuesOK, Cmd
  <2> QED BY <2>1, <2>2, <2>3 DEF TypeOK, UiTypeOK, ValuesOK
<1>24. CASE alarm_triggred_event_cb
  <2>1. UiFlagsOK'
    BY <1>24, Zenon DEF alarm_triggred_event_cb, UiFlagsOK
  <2>2. PowerFlagsOK'
    BY <1>24, Zenon DEF alarm_triggred_event_cb, PowerFlagsOK
  <2>3. ValuesOK'
    BY <1>24 DEF alarm_triggred_event_cb, ValuesOK
  <2> QED BY <2>1, <2>2, <2>3 DEF TypeOK, UiTypeOK, ValuesOK
<1>25. CASE timer_expiry_cb
  <2>1. UiFlagsOK'
    BY <1>25, Zenon
    DEF timer_expiry_cb, alarm_screen_exit_cleanup, ui_base_resume_base_screen, UiFlagsOK
  <2>2. PowerFlagsOK'
    BY <1>25, Zenon
    DEF timer_expiry_cb, alarm_screen_exit_cleanup, ui_base_resume_base_screen,
        PowerFlagsOK
  <2>3. ValuesOK'
    BY <1>25
    DEF timer_expiry_cb, alarm_screen_exit_cleanup, ui_base_resume_base_screen,
        wakelock_manager_release_wakelock, ValuesOK, LvglPC, WfOp, Task
  <2> QED BY <2>1, <2>2, <2>3 DEF TypeOK, UiTypeOK, ValuesOK
<1>26. ASSUME NEW t \in Task, WatchfaceStep(t), UNCHANGED powerVars
       PROVE  TypeOK'
  <2>1. UiFlagsOK'
    BY <1>26, Zenon DEF WatchfaceStep, UiFlagsOK
  <2>2. PowerFlagsOK'
    BY <1>26, Zenon DEF PowerFlagsOK
  <2>3. ValuesOK'
    BY <1>26 DEF WatchfaceStep, ValuesOK, WfOp
  <2> QED BY <2>1, <2>2, <2>3 DEF TypeOK, UiTypeOK, ValuesOK
<1>27. ASSUME NEW w \in UiWorkers, WorkerStep(w)
       PROVE  TypeOK'
  <2> USE DEF Task
  <2>1. CASE TakeAlarm(w) /\ UNCHANGED powerVars
    <3>1. UiFlagsOK'
      BY <2>1, Zenon DEF TakeAlarm, UiFlagsOK
    <3>2. PowerFlagsOK'
      BY <2>1, Zenon DEF PowerFlagsOK
    <3>3. ValuesOK'
      BY <2>1 DEF TakeAlarm, ui_base_suspend_base_screen, ValuesOK, WfOp
    <3> QED BY <3>1, <3>2, <3>3 DEF TypeOK, UiTypeOK, ValuesOK
  <2>2. CASE CheckScreen(w) /\ UNCHANGED powerVars
    <3>1. UiFlagsOK'
      BY <2>2, Zenon DEF CheckScreen, UiFlagsOK
    <3>2. PowerFlagsOK'
      BY <2>2, Zenon DEF PowerFlagsOK
    <3>3. ValuesOK'
      BY <2>2 DEF CheckScreen, ValuesOK
    <3> QED BY <3>1, <3>2, <3>3 DEF TypeOK, UiTypeOK, ValuesOK
  <2>3. CASE show_alarm_page(w) /\ UNCHANGED powerVars
    <3>1. UiFlagsOK'
      BY <2>3, Zenon DEF show_alarm_page, UiFlagsOK
    <3>2. PowerFlagsOK'
      BY <2>3, Zenon DEF PowerFlagsOK
    <3>3. ValuesOK'
      BY <2>3 DEF show_alarm_page, wakelock_manager_acquire_wakelock, ValuesOK
    <3> QED BY <3>1, <3>2, <3>3 DEF TypeOK, UiTypeOK, ValuesOK
  <2> QED BY <1>26, <1>27, <2>1, <2>2, <2>3 DEF WorkerStep
<1>28. CASE UNCHANGED vars
  BY <1>28 DEF vars, TypeOK, UiTypeOK, UiFlagsOK, PowerFlagsOK
<1> HIDE <1>0
<1>29. "power" \in Task /\ "lvgl" \in Task
  BY DEF Task
<1>30. CASE PowerStep
  BY <1>1, <1>2, <1>3, <1>4, <1>5, <1>6, <1>7, <1>8, <1>9, <1>26, <1>29, <1>30 DEF PowerStep
<1>31. CASE LvglStep
  BY <1>10, <1>11, <1>12, <1>13, <1>14, <1>15, <1>16, <1>17, <1>18, <1>26, <1>29, <1>31
  DEF LvglStep
<1>32. CASE UserStep \/ TimerStep
  BY <1>19, <1>20, <1>21, <1>22, <1>23, <1>24, <1>32 DEF UserStep, TimerStep
<1> QED BY <1>25, <1>27, <1>28, <1>30, <1>31, <1>32 DEF Next

\* Every variable of the UI keeps its type.
THEOREM TypeCorrect == Spec => []TypeOK
<1>1. Init => TypeOK
  <2> SUFFICES ASSUME Init PROVE TypeOK
    OBVIOUS
  <2>1. UiFlagsOK
    BY Zenon DEF Init, UiInit, UiFlagsOK
  <2>2. PowerFlagsOK
    BY PowerAssumption, Zenon DEF Init, PowerFlagsOK
  <2>3. ValuesOK
    BY UiAssumption, PowerAssumption
    DEF Init, UiInit, ValuesOK, UI_ACTIVE, BACKGROUND, PowerPC, LvglPC, DisplayState, WfOp,
        Tabs, Fault, Task, Cmd
  <2> QED BY <2>1, <2>2, <2>3 DEF TypeOK, UiTypeOK, ValuesOK
<1> QED BY <1>1, TypeStep, PTL DEF Spec

-----------------------------------------------------------------------------
(***************************************************************************)
(* The display and the wakelock.                                           *)
(***************************************************************************)
\* A step other than a command to the panel leaves the display alone.
LEMMA DisplayUntouched ==
  ASSUME [Next]_vars, ~SuspendDrivers, ~ResumeDrivers
  PROVE  UNCHANGED <<display, panel, panelFailed>>
<1> USE DEF driverVars, powerVars
<1>1. CASE PowerStep
  BY <1>1 DEF PowerStep, ReceiveSleep, AssertNoWakelock, StopThread, JoinThread, ReceiveWake,
       StartThread, FinishWake
<1>2. CASE LvglStep
  BY <1>2 DEF LvglStep, LvglLoop, HandleNothing, PageClosed, show_page, CallbackReturns,
       CheckInactivity, PublishInactive, LvglExit, LateExit, GiveExit
<1>3. CASE UserStep \/ TimerStep \/ timer_expiry_cb
  BY <1>3 DEF UserStep, TimerStep, KeyNavigate, Key, dismiss_btn_click_cb,
       start_stop_btn_click_cb, light_sleep_exit_cb, alarm_triggered_cb,
       alarm_triggred_event_cb, timer_expiry_cb
<1>4. CASE \E w \in UiWorkers : WorkerStep(w)
  BY <1>4 DEF WorkerStep
<1>5. CASE UNCHANGED vars
  BY <1>5 DEF vars
<1> QED BY <1>1, <1>2, <1>3, <1>4, <1>5 DEF Next

\* A command to the panel, done or rolled back, keeps state machine and panel equal.
LEMMA DisplayCommandTruthful ==
  ASSUME DisplayTruthful, NEW next \in {"ON", "SLEEP"}, DisplayCommand(next)
  PROVE  DisplayTruthful'
BY DEF DisplayTruthful, DisplayCommand, FsmNext, FsmAccepts

\* display_fsm.c never disagrees with the panel, whichever of its commands fail.
THEOREM DisplayCorrect == Spec => []DisplayTruthful
<1>1. Init => DisplayTruthful
  BY DEF Init, DisplayTruthful
<1>2. DisplayTruthful /\ [Next]_vars => DisplayTruthful'
  <2> SUFFICES ASSUME DisplayTruthful, [Next]_vars PROVE DisplayTruthful'
    OBVIOUS
  <2>1. CASE SuspendDrivers
    BY <2>1, DisplayCommandTruthful DEF SuspendDrivers
  <2>2. CASE ResumeDrivers
    BY <2>2, DisplayCommandTruthful DEF ResumeDrivers
  <2>3. CASE ~SuspendDrivers /\ ~ResumeDrivers
    BY <2>3, DisplayUntouched DEF DisplayTruthful
  <2> QED BY <2>1, <2>2, <2>3
<1> QED BY <1>1, <1>2, PTL DEF Spec

\* A step other than these four leaves the wakelock and those who need it alone.
LEMMA WakelockUntouched ==
  ASSUME [Next]_vars, ~dismiss_btn_click_cb, ~start_stop_btn_click_cb, ~timer_expiry_cb,
         \A w \in UiWorkers : ~show_alarm_page(w)
  PROVE  UNCHANGED <<wakelock_counter, is_wakelock_acquired, background>>
<1> USE DEF uiVars, screenVars, lockVars
<1>1. CASE PowerStep
  BY <1>1 DEF PowerStep, ReceiveSleep, AssertNoWakelock, StopThread, JoinThread, SuspendDrivers,
       ReceiveWake, ResumeDrivers, StartThread, FinishWake, WatchfaceStep
<1>2. CASE LvglStep
  BY <1>2 DEF LvglStep, LvglLoop, HandleNothing, PageClosed, show_page, CallbackReturns,
       CheckInactivity, PublishInactive, LvglExit, LateExit, GiveExit, WatchfaceStep
<1>3. CASE UserStep \/ TimerStep
  BY <1>3 DEF UserStep, TimerStep, KeyNavigate, Key, light_sleep_exit_cb, alarm_triggered_cb,
       alarm_triggred_event_cb
<1>4. CASE \E w \in UiWorkers : WorkerStep(w)
  BY <1>4 DEF WorkerStep, TakeAlarm, CheckScreen, WatchfaceStep
<1>5. CASE UNCHANGED vars
  BY <1>5 DEF vars
<1> QED BY <1>1, <1>2, <1>3, <1>4, <1>5 DEF Next

\* Closing the alarm screen gives back no wakelock but its own.
LEMMA CleanupKeepsAwake ==
  ASSUME TypeOK, ScreenKeepsAwake, alarm_screen_exit_cleanup
  PROVE  ScreenKeepsAwake'
<1>1. wakelock_counter \in Nat /\ background \in BOOLEAN
  BY DEF TypeOK, UiTypeOK, UiFlagsOK
<1>2. CASE background
  BY <1>1, <1>2 DEF alarm_screen_exit_cleanup, wakelock_manager_release_wakelock, ScreenKeepsAwake
<1>3. CASE ~background
  BY <1>3 DEF alarm_screen_exit_cleanup, ScreenKeepsAwake, screenVars, lockVars
<1> QED BY <1>2, <1>3

\* An alarm screen and a running stopwatch are each covered by a wakelock, however
\* many workers draw screens and however the callbacks interleave.
THEOREM ScreenKeepsAwakeCorrect == Spec => []ScreenKeepsAwake
<1>1. Init => ScreenKeepsAwake
  BY DEF Init, UiInit, ScreenKeepsAwake
<1>2. TypeOK /\ ScreenKeepsAwake /\ [Next]_vars => ScreenKeepsAwake'
  <2> SUFFICES ASSUME TypeOK, ScreenKeepsAwake, [Next]_vars PROVE ScreenKeepsAwake'
    OBVIOUS
  <2>0. wakelock_counter \in Nat
    BY DEF TypeOK, UiTypeOK
  <2>1. CASE dismiss_btn_click_cb \/ timer_expiry_cb
    BY <2>1, CleanupKeepsAwake DEF dismiss_btn_click_cb, timer_expiry_cb
  <2>2. CASE start_stop_btn_click_cb
    <3>1. UNCHANGED background /\ ~background
      BY <2>2 DEF start_stop_btn_click_cb, screenVars
    <3>2. CASE is_wakelock_acquired
      <4>1. ~is_wakelock_acquired'
        BY <2>2, <3>2, Zenon DEF start_stop_btn_click_cb
      <4> QED BY <2>0, <2>2, <3>1, <3>2, <4>1
          DEF start_stop_btn_click_cb, wakelock_manager_release_wakelock, ScreenKeepsAwake
    <3>3. CASE ~is_wakelock_acquired
      <4>1. is_wakelock_acquired'
        BY <2>2, <3>3, Zenon DEF start_stop_btn_click_cb
      <4> QED BY <2>0, <2>2, <3>1, <3>3, <4>1
          DEF start_stop_btn_click_cb, wakelock_manager_acquire_wakelock, ScreenKeepsAwake
    <3> QED BY <3>2, <3>3
  <2>3. ASSUME NEW w \in UiWorkers, show_alarm_page(w) PROVE ScreenKeepsAwake'
    BY <2>0, <2>3 DEF show_alarm_page, wakelock_manager_acquire_wakelock, ScreenKeepsAwake
  <2>4. CASE UNCHANGED <<wakelock_counter, is_wakelock_acquired, background>>
    BY <2>4 DEF ScreenKeepsAwake
  <2> QED BY <2>1, <2>2, <2>3, <2>4, WakelockUntouched
<1> QED BY <1>1, <1>2, TypeCorrect, PTL DEF Spec

-----------------------------------------------------------------------------
(***************************************************************************)
(* UiSettled.  PowerInv follows the drivers through power_task_fn,         *)
(* ThreadInv the LVGL task and its semaphore.                              *)
(***************************************************************************)
\* Only the power task changes the power state, the work state and the drivers.
LEMMA PowerUntouched ==
  ASSUME [Next]_vars, ~PowerStep
  PROVE  UNCHANGED <<power, state, work_state, driverVars>>
<1> USE DEF cmdVars, powerVars
<1>1. CASE LvglStep
  BY <1>1 DEF LvglStep, LvglLoop, HandleNothing, PageClosed, show_page, CallbackReturns,
       CheckInactivity, PublishInactive, LvglExit, LateExit, GiveExit, driverVars
<1>2. CASE UserStep \/ TimerStep \/ timer_expiry_cb
  BY <1>2 DEF UserStep, TimerStep, KeyNavigate, Key, dismiss_btn_click_cb,
       start_stop_btn_click_cb, light_sleep_exit_cb, alarm_triggered_cb,
       alarm_triggred_event_cb, timer_expiry_cb, driverVars
<1>3. CASE \E w \in UiWorkers : WorkerStep(w)
  BY <1>3 DEF WorkerStep, driverVars
<1>4. CASE UNCHANGED vars
  BY <1>4 DEF vars, driverVars
<1> QED BY <1>1, <1>2, <1>3, <1>4 DEF Next

\* PowerInv depends on nothing else.
LEMMA PowerInvStutters ==
  ASSUME PowerInv, UNCHANGED <<power, state, work_state, driverVars>>
  PROVE  PowerInv'
BY DEF PowerInv, DriversActive, DriversAsleep, driverVars

\* A panel that was on sleeps after display_sleep, unless it refuses.
LEMMA CommandObeyed ==
  ASSUME NEW next \in {"ON", "SLEEP"}, DisplayCommand(next), PanelMayFail \in BOOLEAN,
         panelFailed \/ display = (IF next = "ON" THEN "SLEEP" ELSE "ON"),
         panelFailed \in BOOLEAN
  PROVE  panelFailed' \/ display' = next
<1>1. CASE FsmAccepts(display, next)
  <2>1. PICK ok \in {TRUE, ~PanelMayFail} :
          panelFailed' = ~ok /\ display' = IF ok THEN next ELSE FsmNext(next, display)
    BY <1>1 DEF DisplayCommand
  <2>2. CASE ok
    BY <2>1, <2>2
  <2>3. CASE ~ok
    BY <2>1, <2>3, Zenon
  <2> QED BY <2>2, <2>3
<1>2. CASE ~FsmAccepts(display, next)
  <2>1. panelFailed
    BY <1>2 DEF FsmAccepts
  <2> QED BY <1>2, <2>1 DEF DisplayCommand
<1> QED BY <1>1, <1>2

\* Every step keeps drivers and power state together.
LEMMA PowerInvStep == TypeOK /\ PowerInv /\ [Next]_vars => PowerInv'
<1> SUFFICES ASSUME TypeOK, PowerInv, [Next]_vars PROVE PowerInv'
  OBVIOUS
<1>0. panelFailed \in BOOLEAN /\ PanelMayFail \in BOOLEAN /\ power \in PowerPC
      /\ state \in {UI_ACTIVE, BACKGROUND}
  BY PowerAssumption DEF TypeOK, PowerFlagsOK
<1> USE DEF UI_ACTIVE, BACKGROUND
<1>1. CASE ReceiveSleep
  BY <1>0, <1>1 DEF ReceiveSleep, PowerInv, DriversActive, DriversAsleep, driverVars
<1>2. CASE AssertNoWakelock
  BY <1>2 DEF AssertNoWakelock, PowerInv, DriversActive, DriversAsleep, driverVars
<1>3. CASE StopThread
  BY <1>3 DEF StopThread, PowerInv, DriversActive, DriversAsleep, driverVars
<1>4. CASE JoinThread
  BY <1>4 DEF JoinThread, PowerInv, DriversActive, DriversAsleep, driverVars
<1>5. CASE SuspendDrivers
  <2>1. panelFailed' \/ display' = "SLEEP"
    BY <1>0, <1>5, CommandObeyed DEF SuspendDrivers, PowerInv, DriversActive
  <2>2. ~encoder' /\ ~keyboard'
    BY <1>5 DEF SuspendDrivers
  <2> QED BY <1>5, <2>1, <2>2 DEF SuspendDrivers, PowerInv, DriversAsleep
<1>6. CASE ReceiveWake
  BY <1>0, <1>6 DEF ReceiveWake, PowerInv, DriversActive, DriversAsleep, driverVars
<1>7. CASE ResumeDrivers
  <2>1. panelFailed' \/ display' = "ON"
    BY <1>0, <1>7, CommandObeyed DEF ResumeDrivers, PowerInv, DriversAsleep
  <2>2. encoder' /\ keyboard'
    BY <1>7 DEF ResumeDrivers
  <2> QED BY <1>7, <2>1, <2>2 DEF ResumeDrivers, PowerInv, DriversActive
<1>8. CASE StartThread
  BY <1>8 DEF StartThread, PowerInv, DriversActive, DriversAsleep, driverVars
<1>9. CASE FinishWake
  BY <1>9 DEF FinishWake, PowerInv, DriversActive, DriversAsleep, driverVars
<1>10. CASE WatchfaceStep("power") /\ UNCHANGED powerVars
  BY <1>10, PowerInvStutters DEF powerVars, driverVars
<1>11. CASE ~PowerStep
  BY <1>11, PowerUntouched, PowerInvStutters
<1> QED BY <1>1, <1>2, <1>3, <1>4, <1>5, <1>6, <1>7, <1>8, <1>9, <1>10, <1>11 DEF PowerStep

\* Keys, alarms, workers and a stuttering step leave the LVGL task as it is, or in
\* another part of its loop.
LEMMA ThreadUntouched ==
  ASSUME [Next]_vars, ~PowerStep, ~LvglStep
  PROVE  /\ UNCHANGED <<power, state, runVars, fault>>
         /\ \/ UNCHANGED lvgl
            \/ lvgl = "handler" /\ lvgl' \in {"closing", "returning"}
<1> USE DEF cmdVars, threadVars, runVars
<1>1. CASE UserStep \/ TimerStep \/ timer_expiry_cb
  BY <1>1 DEF UserStep, TimerStep, KeyNavigate, Key, dismiss_btn_click_cb, uiVars, powerVars,
       start_stop_btn_click_cb, light_sleep_exit_cb, alarm_triggered_cb,
       alarm_triggred_event_cb, timer_expiry_cb
<1>2. CASE \E w \in UiWorkers : WorkerStep(w)
  BY <1>2 DEF WorkerStep, TakeAlarm, CheckScreen, show_alarm_page, WatchfaceStep, powerVars
<1>3. CASE UNCHANGED vars
  BY <1>3 DEF vars, uiVars, powerVars
<1> QED BY <1>1, <1>2, <1>3 DEF Next

\* Every step keeps the LVGL task, its handle and its semaphore together.
LEMMA ThreadInvStep == TypeOK /\ PowerInv /\ ThreadInv /\ [Next]_vars => ThreadInv'
<1> SUFFICES ASSUME TypeOK, PowerInv, ThreadInv, [Next]_vars PROVE ThreadInv'
  OBVIOUS
<1>0. /\ lvgl_run_flag \in BOOLEAN /\ worker_handle \in BOOLEAN /\ lateGive \in BOOLEAN
      /\ timedOut \in BOOLEAN /\ lvgl_exit_semaphore \in {"null", "empty", "given"}
      /\ lvgl \in LvglPC /\ state \in {UI_ACTIVE, BACKGROUND} /\ fault \in Fault
  BY DEF TypeOK, PowerFlagsOK, UiTypeOK
<1> USE <1>0 DEF ThreadInv, UI_ACTIVE, BACKGROUND, threadVars, runVars, cmdVars, uiVars
<1>1. CASE ReceiveSleep
  BY <1>1 DEF ReceiveSleep
<1>2. CASE AssertNoWakelock
  BY <1>2 DEF AssertNoWakelock
<1>3. CASE StopThread
  BY <1>3 DEF StopThread
<1>4. CASE JoinThread
  BY <1>4 DEF JoinThread, PowerInv
<1>5. CASE SuspendDrivers
  BY <1>5 DEF SuspendDrivers
<1>6. CASE ReceiveWake
  BY <1>6 DEF ReceiveWake
<1>7. CASE ResumeDrivers
  BY <1>7 DEF ResumeDrivers
<1>8. CASE StartThread
  <2>1. power' = "finish" /\ state' = "UI_ACTIVE" /\ UNCHANGED <<timedOut, fault>>
    BY <1>8 DEF StartThread, PowerInv
  <2>2. CASE timedOut
    BY <2>1, <2>2
  <2>3. CASE ~timedOut
    <3>1. lvgl = "none" /\ ~worker_handle /\ ~lateGive
      BY <1>8, <2>3 DEF StartThread
    <3>2. \/ worker_handle' /\ worker_handle' \in BOOLEAN /\ lvgl' = "loop"
             /\ lvgl_exit_semaphore' = "empty" /\ lateGive' = (lateGive \/ lvgl = "give")
          \/ UNCHANGED <<worker_handle, lvgl, lateGive>>
      BY <1>8, <3>1, Zenon DEF StartThread
    <3> QED BY <2>1, <2>3, <3>1, <3>2
  <2> QED BY <2>2, <2>3
<1>9. CASE FinishWake
  BY <1>9 DEF FinishWake, PowerInv
<1>10. CASE \E t \in {"power", "lvgl"} : WatchfaceStep(t) /\ UNCHANGED powerVars
  BY <1>10 DEF WatchfaceStep, powerVars
<1>11. CASE LvglLoop
  BY <1>11 DEF LvglLoop
<1>12. CASE HandleNothing \/ PageClosed \/ show_page \/ CallbackReturns
  <2>1. UNCHANGED <<power, state, runVars, fault>>
    BY <1>12 DEF HandleNothing, PageClosed, show_page, CallbackReturns
  <2>2. lvgl \notin {"none", "give"} /\ lvgl' \notin {"none", "give"}
    BY <1>12 DEF HandleNothing, PageClosed, show_page, CallbackReturns
  <2> QED BY <2>1, <2>2
<1>13. CASE CheckInactivity \/ PublishInactive
  BY <1>13 DEF CheckInactivity, PublishInactive
<1>14. CASE LvglExit
  BY <1>14 DEF LvglExit, GiveExit
<1>15. CASE LateExit
  BY <1>15 DEF LateExit, GiveExit
<1>16. CASE ~PowerStep /\ ~LvglStep
  BY <1>16, ThreadUntouched
<1> QED BY <1>1, <1>2, <1>3, <1>4, <1>5, <1>6, <1>7, <1>8, <1>9, <1>10, <1>11, <1>12, <1>13,
           <1>14, <1>15, <1>16 DEF PowerStep, LvglStep

\* PowerInv and ThreadInv hold throughout.
LEMMA PowerInvCorrect == Spec => [](PowerInv /\ ThreadInv)
<1>1. Init => PowerInv
  BY DEF Init, PowerInv, DriversActive, UI_ACTIVE, BACKGROUND
<1>2. Init => ThreadInv
  BY DEF Init, UiInit, ThreadInv, UI_ACTIVE, BACKGROUND
<1> QED BY <1>1, <1>2, TypeCorrect, PowerInvStep, ThreadInvStep, PTL DEF Spec

\* Between two commands encoder, keyboard, display, runtime manager and LVGL task agree
\* with the state of the power manager.
THEOREM UiSettledCorrect == Spec => []UiSettled
<1>1. TypeOK /\ PowerInv /\ ThreadInv => UiSettled
  <2> SUFFICES ASSUME TypeOK, PowerInv, ThreadInv, power = "idle" PROVE UiSettled
    BY DEF UiSettled
  <2>0. encoder \in BOOLEAN /\ keyboard \in BOOLEAN /\ panelFailed \in BOOLEAN
    BY DEF TypeOK, PowerFlagsOK
  <2>1. CASE state = UI_ACTIVE
    BY <2>0, <2>1 DEF PowerInv, DriversActive, UiSettled, UI_ACTIVE, BACKGROUND
  <2>2. CASE state = BACKGROUND
    BY <2>0, <2>2 DEF PowerInv, ThreadInv, DriversAsleep, UiSettled, UI_ACTIVE, BACKGROUND
  <2> QED BY <2>1, <2>2 DEF PowerInv
<1> QED BY <1>1, TypeCorrect, PowerInvCorrect, PTL

\* The LVGL task finds its exit semaphore gone only after a join that timed out.
THEOREM ExitSemaphoreCorrect == Spec => []ExitSemaphoreThere
<1>1. ThreadInv => ExitSemaphoreThere
  BY DEF ThreadInv, ExitSemaphoreThere
<1> QED BY <1>1, PowerInvCorrect, PTL

-----------------------------------------------------------------------------
(***************************************************************************)
(* The tick of the watchface.                                              *)
(***************************************************************************)
\* The tasks that suspend and resume the watchface are distinct.
LEMMA TasksDistinct ==
  /\ "power" \in Task /\ "lvgl" \in Task /\ "power" # "lvgl"
  /\ \A w \in UiWorkers : w \in Task /\ w # "power" /\ w # "lvgl"
BY UiAssumption DEF Task

\* A step that leaves the watchface and its tasks alone.
LEMMA WatchfaceUntouched ==
  ASSUME WatchfaceInv,
         UNCHANGED <<wfVars, wfop, background, worker, worker_handle, lvgl, power, state>>
  PROVE  WatchfaceInv'
BY DEF WatchfaceInv, ResumeOwed, wfVars

\* A task carries on with the suspension or resumption it has begun.
LEMMA WatchfaceTaskStep ==
  ASSUME TypeOK, WatchfaceInv, NEW t \in Task, WatchfaceStep(t), UNCHANGED powerVars
  PROVE  WatchfaceInv'
<1>1. /\ UNCHANGED <<curr_watch_state, curr_wf, background, worker, worker_handle, lvgl,
                     power, state>>
      /\ \A u \in Task : u # t => wfop'[u] = wfop[u]
  BY DEF WatchfaceStep, screenVars, powerVars, TypeOK, UiTypeOK
<1>2. \/ /\ wfop[t] = "unsubscribe" /\ wfop'[t] = "stop" /\ UNCHANGED ticking
      \/ /\ wfop[t] = "stop" /\ wfop'[t] = "none" /\ UNCHANGED subscribed
      \/ /\ wfop[t] = "subscribe" /\ wfop'[t] = "start" /\ UNCHANGED ticking
         /\ subscribed' = TRUE
      \/ /\ wfop[t] = "start" /\ wfop'[t] = "none" /\ UNCHANGED subscribed
         /\ ticking' = TRUE
  BY DEF WatchfaceStep, TypeOK, UiTypeOK
<1>3. /\ t = "power" \/ t = "lvgl" \/ t \in UiWorkers
      /\ "power" \in Task /\ "lvgl" \in Task /\ "power" # "lvgl"
      /\ \A w \in UiWorkers : w \in Task /\ w # "power" /\ w # "lvgl"
  BY TasksDistinct DEF Task
<1> USE DEF WatchfaceInv, ResumeOwed
<1>4. CASE t = "power"
  BY <1>1, <1>2, <1>3, <1>4
<1>5. CASE t = "lvgl"
  BY <1>1, <1>2, <1>3, <1>5
<1>6. CASE t \in UiWorkers
  BY <1>1, <1>2, <1>3, <1>6
<1> QED BY <1>3, <1>4, <1>5, <1>6

\* The power task.
LEMMA PowerWatchface ==
  ASSUME TypeOK, PowerInv, WatchfaceInv, PowerStep
  PROVE  WatchfaceInv'
<1> USE DEF wfVars, screenVars, UI_ACTIVE, BACKGROUND
<1>1. CASE ReceiveSleep
  <2>1. UNCHANGED <<wfVars, background, worker, worker_handle, lvgl>>
    BY <1>1 DEF ReceiveSleep, threadVars, runVars
  <2>2. CASE UNCHANGED <<state, power, wfop>>
    BY <2>1, <2>2, WatchfaceUntouched
  <2>3. CASE power' = "suspend" /\ ui_base_suspend_base_screen("power")
    <3>1. /\ wfop'["power"] \in {"unsubscribe", "none"}
          /\ \A u \in Task : u # "power" => wfop'[u] = wfop[u]
      BY <2>3, TasksDistinct DEF ui_base_suspend_base_screen, TypeOK, UiTypeOK
    <3> QED BY <2>1, <2>3, <3>1, TasksDistinct DEF WatchfaceInv, ResumeOwed
  <2> QED BY <1>1, <2>2, <2>3 DEF ReceiveSleep
<1>2. CASE AssertNoWakelock
  BY <1>2 DEF AssertNoWakelock, threadVars, runVars, WatchfaceInv, ResumeOwed
<1>3. CASE StopThread \/ JoinThread
  BY <1>3 DEF StopThread, JoinThread, uiVars, WatchfaceInv, ResumeOwed
<1>4. CASE SuspendDrivers
  BY <1>4 DEF SuspendDrivers, uiVars, threadVars, runVars, PowerInv, WatchfaceInv, ResumeOwed
<1>5. CASE ReceiveWake
  BY <1>5 DEF ReceiveWake, uiVars, threadVars, runVars, WatchfaceInv, ResumeOwed
<1>6. CASE ResumeDrivers
  BY <1>6 DEF ResumeDrivers, uiVars, threadVars, runVars, WatchfaceInv, ResumeOwed
<1>7. CASE StartThread
  <2>1. /\ UNCHANGED <<wfVars, background, worker, state>> /\ power = "thread" /\ power' = "finish"
        /\ ui_base_resume_base_screen("power")
    BY <1>7 DEF StartThread
  <2>2. /\ wfop'["power"] = IF WatchfaceUp THEN "subscribe" ELSE "none"
        /\ \A u \in Task : u # "power" => wfop'[u] = wfop[u]
    BY <2>1, TasksDistinct DEF ui_base_resume_base_screen, TypeOK, UiTypeOK
  <2>3. \/ UNCHANGED <<worker_handle, lvgl>>
        \/ worker_handle = FALSE /\ worker_handle' = TRUE /\ lvgl' = "loop"
    BY <1>7 DEF StartThread, threadVars, runVars, TypeOK, PowerFlagsOK
  <2>4. lvgl' # lvgl => /\ lvgl \in {"none", "give"} /\ worker_handle' = TRUE
                        /\ wfop["lvgl"] = "none"
    BY <2>3 DEF WatchfaceInv, TypeOK, UiTypeOK, WfOp, Task
  <2>5. WatchfaceUp <=> curr_watch_state = WATCHFACE /\ curr_wf
    BY DEF WatchfaceUp
  <2> QED BY <2>1, <2>2, <2>3, <2>4, <2>5, TasksDistinct DEF WatchfaceInv, ResumeOwed
<1>8. CASE FinishWake
  BY <1>8 DEF FinishWake, uiVars, threadVars, runVars, WatchfaceInv, ResumeOwed
<1>9. CASE WatchfaceStep("power") /\ UNCHANGED powerVars
  BY <1>9, WatchfaceTaskStep, TasksDistinct
<1> QED BY <1>1, <1>2, <1>3, <1>4, <1>5, <1>6, <1>7, <1>8, <1>9 DEF PowerStep

\* The alarm screen is closed in the LVGL task, which resumes the watchface.
LEMMA CleanupWatchface ==
  ASSUME TypeOK, WatchfaceInv, alarm_screen_exit_cleanup, lvgl = "handler", lvgl' = "returning",
         UNCHANGED <<wfVars, worker, worker_handle, power, state>>
  PROVE  WatchfaceInv'
<1> USE DEF wfVars
<1>1. wfop["lvgl"] = "none"
  BY DEF WatchfaceInv, TypeOK, UiTypeOK, WfOp, Task
<1>2. CASE background
  <2>1. /\ wfop'["lvgl"] = IF WatchfaceUp THEN "subscribe" ELSE "none"
        /\ \A u \in Task : u # "lvgl" => wfop'[u] = wfop[u]
    BY <1>2, TasksDistinct
    DEF alarm_screen_exit_cleanup, ui_base_resume_base_screen, TypeOK, UiTypeOK
  <2>2. WatchfaceUp <=> curr_watch_state = WATCHFACE /\ curr_wf
    BY DEF WatchfaceUp
  <2> QED BY <1>1, <2>1, <2>2, TasksDistinct DEF WatchfaceInv, ResumeOwed
<1>3. CASE ~background
  BY <1>1, <1>3 DEF alarm_screen_exit_cleanup, screenVars, WatchfaceInv, ResumeOwed
<1> QED BY <1>2, <1>3

\* The LVGL task.
LEMMA LvglWatchface ==
  ASSUME TypeOK, WatchfaceInv, LvglStep \/ UserStep \/ timer_expiry_cb
  PROVE  WatchfaceInv'
<1> USE DEF wfVars, screenVars, cmdVars
<1>0. /\ lvgl \notin {"closing", "returning"} => wfop["lvgl"] = "none"
      /\ wfop \in [Task -> WfOp]
  BY DEF WatchfaceInv, TypeOK, UiTypeOK, WfOp, Task
<1>1. CASE LvglLoop
  BY <1>0, <1>1 DEF LvglLoop, WatchfaceInv, ResumeOwed
<1>2. CASE HandleNothing
  BY <1>0, <1>2 DEF HandleNothing, runVars, WatchfaceInv, ResumeOwed
<1>3. CASE PageClosed
  <2>1. /\ lvgl = "closing" /\ lvgl' = "showing" /\ wfop["lvgl"] = "none"
        /\ UNCHANGED <<wfop, background, worker, worker_handle, power, state>>
    BY <1>3 DEF PageClosed, runVars
  <2> QED BY <2>1 DEF WatchfaceInv, ResumeOwed
<1>4. CASE show_page
  <2>1. /\ lvgl = "showing" /\ lvgl' = "returning"
        /\ UNCHANGED <<curr_watch_state, subscribed, ticking, background, worker,
                       worker_handle, power, state>>
        /\ curr_wf' = (curr_watch_state = WATCHFACE)
    BY <1>4 DEF show_page, runVars
  <2>2. /\ wfop'["lvgl"] = IF curr_watch_state = WATCHFACE THEN "subscribe" ELSE "none"
        /\ \A u \in Task : u # "lvgl" => wfop'[u] = wfop[u]
    BY <1>0, <1>4, TasksDistinct DEF show_page
  <2> QED BY <2>1, <2>2, TasksDistinct DEF WatchfaceInv, ResumeOwed
<1>5. CASE CallbackReturns
  BY <1>5 DEF CallbackReturns, runVars, WatchfaceInv, ResumeOwed
<1>6. CASE CheckInactivity
  BY <1>0, <1>6 DEF CheckInactivity, uiVars, runVars, WatchfaceInv, ResumeOwed
<1>7. CASE PublishInactive
  BY <1>0, <1>7 DEF PublishInactive, uiVars, runVars, WatchfaceInv, ResumeOwed
<1>8. CASE LvglExit
  BY <1>0, <1>8 DEF LvglExit, GiveExit, WatchfaceInv, ResumeOwed
<1>9. CASE LateExit
  BY <1>9, WatchfaceUntouched DEF LateExit, GiveExit
<1>10. CASE WatchfaceStep("lvgl") /\ UNCHANGED powerVars
  BY <1>10, WatchfaceTaskStep, TasksDistinct
<1>11. CASE KeyNavigate
  <2>1. /\ lvgl = "handler" /\ lvgl' = "closing"
        /\ UNCHANGED <<wfVars, background, worker, worker_handle, power, state>>
    BY <1>11 DEF KeyNavigate, Key, runVars
  <2>2. /\ wfop'["lvgl"] \in {"unsubscribe", "none"}
        /\ \A u \in Task : u # "lvgl" => wfop'[u] = wfop[u]
    BY <1>0, <1>11, TasksDistinct DEF KeyNavigate
  <2> QED BY <2>1, <2>2, TasksDistinct DEF WatchfaceInv, ResumeOwed
<1>12. CASE dismiss_btn_click_cb
  BY <1>12, CleanupWatchface DEF dismiss_btn_click_cb, Key, runVars
<1>13. CASE start_stop_btn_click_cb
  BY <1>0, <1>13 DEF start_stop_btn_click_cb, Key, runVars, WatchfaceInv, ResumeOwed
<1>14. CASE timer_expiry_cb
  BY <1>14, CleanupWatchface DEF timer_expiry_cb, runVars
<1>15. CASE light_sleep_exit_cb
  BY <1>15, WatchfaceUntouched DEF light_sleep_exit_cb, uiVars, threadVars, runVars
<1> QED BY <1>1, <1>2, <1>3, <1>4, <1>5, <1>6, <1>7, <1>8, <1>9, <1>10, <1>11, <1>12, <1>13,
      <1>14, <1>15 DEF LvglStep, UserStep

\* The workers that show alarms.
LEMMA AlarmWatchface ==
  ASSUME TypeOK, WatchfaceInv, NEW w \in UiWorkers, WorkerStep(w)
  PROVE  WatchfaceInv'
<1> USE DEF wfVars, screenVars, powerVars
<1>0. wfop \in [Task -> WfOp] /\ worker \in [UiWorkers -> {"idle", "suspending", "drawing"}]
  BY DEF TypeOK, UiTypeOK
<1>1. CASE TakeAlarm(w) /\ UNCHANGED powerVars
  <2>1. /\ wfop'[w] \in {"unsubscribe", "none"} /\ worker'[w] = "suspending"
        /\ \A u \in Task : u # w => wfop'[u] = wfop[u]
        /\ \A v \in UiWorkers : v # w => worker'[v] = worker[v]
    BY <1>0, <1>1, TasksDistinct DEF TakeAlarm, ui_base_suspend_base_screen
  <2> QED BY <1>1, <2>1, TasksDistinct DEF TakeAlarm, WatchfaceInv, ResumeOwed
<1>2. CASE CheckScreen(w) /\ UNCHANGED powerVars
  <2>1. /\ wfop[w] = "none" /\ (worker'[w] # "idle" \/ background)
        /\ \A v \in UiWorkers : v # w => worker'[v] = worker[v]
    BY <1>0, <1>2 DEF CheckScreen
  <2> QED BY <1>2, <2>1 DEF CheckScreen, WatchfaceInv, ResumeOwed
<1>3. CASE show_alarm_page(w) /\ UNCHANGED powerVars
  <2>1. /\ worker[w] = "drawing" /\ background' = TRUE
        /\ \A v \in UiWorkers : v # w => worker'[v] = worker[v]
    BY <1>0, <1>3 DEF show_alarm_page
  <2> QED BY <1>3, <2>1 DEF show_alarm_page, WatchfaceInv, ResumeOwed
<1>4. CASE WatchfaceStep(w) /\ UNCHANGED powerVars
  BY <1>4, WatchfaceTaskStep, TasksDistinct
<1> QED BY <1>1, <1>2, <1>3, <1>4 DEF WorkerStep

\* Every suspension of the watchface is owed a resumption until it has got it.
LEMMA WatchfaceInvCorrect == Spec => []WatchfaceInv
<1>1. Init => WatchfaceInv
  BY TasksDistinct DEF Init, UiInit, WatchfaceInv
<1>2. TypeOK /\ PowerInv /\ WatchfaceInv /\ [Next]_vars => WatchfaceInv'
  <2> SUFFICES ASSUME TypeOK, PowerInv, WatchfaceInv, [Next]_vars PROVE WatchfaceInv'
    OBVIOUS
  <2>1. CASE UNCHANGED vars
    BY <2>1, WatchfaceUntouched DEF vars, uiVars, powerVars, wfVars
  <2>2. CASE TimerStep
    BY <2>2, WatchfaceUntouched DEF TimerStep, alarm_triggered_cb, alarm_triggred_event_cb,
       wfVars, screenVars, threadVars, runVars, powerVars
  <2> QED BY <2>1, <2>2, PowerWatchface, LvglWatchface, AlarmWatchface DEF Next
<1> QED BY <1>1, <1>2, TypeCorrect, PowerInvCorrect, PTL DEF Spec

\* A watchface in view gets its ticks whenever the tasks that suspend it are done, however
\* alarms, the keys, sleep and wake interleave in the unlocked suspend and resume calls.
THEOREM WatchfaceTicksCorrect == Spec => []WatchfaceTicks
<1>1. TypeOK /\ WatchfaceInv => WatchfaceTicks
  <2> SUFFICES ASSUME TypeOK, WatchfaceInv, Running, power = "idle", state = UI_ACTIVE,
                      ~background, curr_watch_state = WATCHFACE,
                      lvgl \notin {"closing", "showing", "returning"},
                      \A w \in UiWorkers : worker[w] = "idle"
               PROVE  subscribed /\ ticking
    BY DEF WatchfaceTicks
  <2>1. wfop["power"] \notin {"subscribe", "start"} /\ wfop["lvgl"] \notin {"subscribe", "start"}
    BY DEF WatchfaceInv
  <2> QED BY <2>1 DEF WatchfaceInv, ResumeOwed, UI_ACTIVE, BACKGROUND
<1> QED BY <1>1, TypeCorrect, WatchfaceInvCorrect, PTL

\* The inductive core of the UI's power handling and of the watchface's tick, for every
\* number of workers and alarms and every length of the command queue.
THEOREM UiInvCorrect == Spec => []UiInv
<1>1. TypeOK /\ (PowerInv /\ ThreadInv) /\ ExitSemaphoreThere /\ WatchfaceInv => UiInv
  BY DEF UiInv
<1> QED
  BY <1>1, TypeCorrect, PowerInvCorrect, ExitSemaphoreCorrect, WatchfaceInvCorrect, PTL

=============================================================================
