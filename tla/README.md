# Verification of the watch firmware

TLA+ models of the firmware in `src/` (an ESP32-S3 smartwatch on ESP-IDF and
FreeRTOS, two cores), the TLC runs that check them on small instances and the
TLAPS proofs of their main invariants for every value of the constants.
`PROJECT.json` lists components, runs, mutants, the correspondence of
definitions and source lines ("map"), hazards and theorems.

## The system

Everything the watch does is done by a few FreeRTOS tasks: the `esp_timer` task
(all timer callbacks, one at a time), the six workers of the runtime manager, the
LVGL task, the NimBLE host task, the power task and the main task, which starts
and stops the others.  Components call each other directly, publish events
through the event manager, or hand closures to the runtime manager.

| component | state | operations | interacts with |
|---|---|---|---|
| runtime manager (`runtime_manager.c`) | runtime and work state, pending queues, curfew hooks, three window timers, `runtime_lock` | open a window on the work tick, curfew, grace, sleep, schedule work, register hooks, deinit | worker pool, tick manager, everyone who schedules work |
| worker pool, watchdog (`runtime_worker_pool.c`, `runtime_watchdog.c`) | registry of tasks, `working` and `abort_flag`, `active_workers`, two timers per user worker, two queues | worker loop, soft and hard abort, recovery, suspend and resume | runtime manager |
| alarm manager (`alarm_manager.c`) | ordered list in RTC memory, one timer | create, delete, edit, fire, revalidate | state manager (clock), UI, events |
| ring buffer, BLE fifos (`ring_buffer.c`, `ble_fifo.c`) | storage, two indices, count | push, pop, clear | packet layer |
| BLE packet layer (`ble_packet_handler.c`) | transmit and receive context | build and parse packets | fifos, BLE manager |
| BLE manager (`ble_manager.c`, request and response handler) | connection, MTU, subscription | GAP events, curfew hooks, requests, dispatch of responses | NimBLE, runtime manager, events |
| BLE multichunk parser (`ble_multichunk_handler.c`) | parser state, buffer it hands over | header, chunks, CRC | response handler, state and notification managers |
| state manager (`state_manager.c`) | clock, weather, steps in RTC memory | event callbacks | events, alarms |
| power manager, sleep lock (`power_manager.c`, `sleep_lock_service.c`) | command queue, frequency and sleep policy, counters | raise, lower, inhibit sleep | everyone |
| wakelocks (`wakelock_manager.c`) | counter | take, release | UI, LVGL |
| event manager (`event_manager.c`) | subscriber tables | subscribe, publish, unsubscribe | everyone |
| tick manager (`tick_manager.c`) | periodic timer, countdowns | publish the ticks | runtime, UI |
| LVGL bridge (`lvgl_*.c`, `global_locks.c`) | LVGL task, its lock, input queue | start, stop, translate input | UI, display, encoder |
| UI manager, pages (`ui_manager.c`, `ui_base/`) | page stack, event screen | navigate, show an event | LVGL, apps, wakelocks |
| app, watchface, notification managers | current app or face, list of notifications | launch, close, add, dismiss | UI, storage |
| storage manager (`storage_manager.c`) | an NVS partition, settings cached by their users | save through a worker, retrieve | runtime manager, GPIO and watchface managers |
| sensor manager, IMU, barometer, battery | enable bits, IMU queue, calibration, filtered percentage | read on work and sensor ticks | runtime manager, sleep lock, events |
| motion engine (`step_detection_algo.c`, `no_motion_algo.c`) | history of samples, held-back steps | process a window | sensor manager |
| GPIO manager, display, encoder | pins, brightness, display state machine | read, write, power | hardware |
| IR blaster (`ir_driver.c`) | queue, task, abort flag | send, stop | applications |
| firmware update (`uart_ota.c`, `ota_flasher.py`) | partitions, retries, bytes received | size, blocks, validation, restart | main, host |
| start-up and shutdown (`main.c`) | order of init and deinit | firmware update, restart | all |

Hard to test here: callbacks of the `esp_timer` task that are already dispatched
when their timer is stopped; workers killed with `vTaskDelete` on the other core;
indices read under a mutex and used after it was given back; list and clock
changing under an armed timer; packets lost in the middle of a fragmented
message; state that survives a disconnection or a deep sleep; lists and tables
that one task changes while another walks them, without a lock; bus accesses that
fail in the middle of a handshake; power that fails during an update; teardown
while callbacks still arrive.  `PROJECT.json` lists each hazard at its line.

## Modules

- `WorkerPool`: the tasks of the pool.  One step per point of `pool_worker_entry`
  at which another task can act (receive, count, arm the watchdog, enter and
  leave the handler, stop the watchdog, uncount), recovery in its two steps
  (exchange the flag, delete the task), the watchdog callbacks.
- `RuntimeManager` (extends `WorkerPool`): windows, lock, deferred work, hooks,
  the `esp_timer` task and its callbacks, callers, shutdown.
- `RuntimeWindow`: the abstract promise about system work, refined by
  `RuntimeManager` (`ImplementsWindow`).
- `AlarmManager`: the list, its timer, the four locked sections of an edit, the
  callback, the clock and its synchronisation, deep sleep.  `AlarmApp` (extends it):
  the alarm application with its list, its popup and the page that creates an alarm,
  the focus that an alarm's screen takes away and gives back, and the restart after a
  failed assertion.
- `Fifo`, `RingBuffer`: a bounded queue and the ring buffer that implements it
  (`ImplementsFifo`).
- `BlePacket`: sender, link and receiver of the packet protocol.  Both ends run
  the code of `ble_packet_handler.c`; bytes are small numbers.
- `UiBase`: tabs, watchface and its tick, alarm screen, wakelock; the steps of the
  workers that show alarms.
- `UiPower` (extends `UiBase`): the power task with its command queue, the LVGL task
  from its start to its join, what both switch on and off (display state machine,
  encoder, keyboard, runtime manager), the sources of wake-ups.
- `StepDetector`: the motion engine.  Peaks, prominence, spacing, the seam between
  windows and the confirmation of a walk, on small integer levels; the grade that
  the signal's regularity gives a peak is an input.
- `ImuDriver`: the QMI8658A's enable bits, the CTRL9 handshake with its polls, every
  operation of `imu_driver.c` as the steps at which a bus access can fail.
  `Sensors` (extends it): sensor manager, workers and their deletion, the IMU's
  queue, barometer, battery, sleep lock.
- `BleSession`: the multichunk parser on bytes, its buffer, the receive fifo, GAP
  events, advertising, shutdown of the stack.
- `Notifications`, `WeatherApp`: list and page of cards; application manager and
  weather application.  `PhoneData` (extends both): what the phone sends, as
  `ble_response_handler.c` takes it apart, and what the state manager keeps.
- `EventManager`, `IrDriver`, `Storage`, `UartOta`: four components that share only
  the order in which they are started and stopped.  `Lifecycle` (extends them):
  `app_main` from start to update to restart, the tasks that go on meanwhile, power
  failure at any point.
- `MC*`: values for model checking.  `*Proofs`: theorems.

State names and actions keep the names of the source.  Definitions that follow a
"Mutant" comment are variants of the definition below them: substituting one must
violate a property, and this is checked for every property of every passing run.

### How the code was abstracted

- A section under a mutex is one step, except the transition to SLEEP of the
  runtime manager, which kills and suspends tasks while it holds the lock, and
  during which the 50 ms others wait for the lock may pass.
- Time is the order of events in `RuntimeManager` (any armed timer may expire)
  and seconds in `AlarmManager`.
- Work items, hooks and alarms have an identity and nothing else.  History
  variables (`fate`, `overrun`, `sent`, `rcvd`, `sync`) feed properties only.
- `fault` is a failed assertion; nothing happens after it (in `AlarmApp` it is
  `assertion`, and the watch restarts).
- `AlarmApp` follows LVGL's rule that a deleted object hands the focus to the one that
  was added before it; where keys move the focus inside a page is left out.
- In `UiPower` the delay of the LVGL loop is part of its head, and a key is handled
  by what it leads to (another tab, dismissal, the stopwatch).  Pin configuration
  (`gpio_manager_enter_*_mode`) and the stored inactivity timeout are left out.
  Waiting for the UI lock is not bounded (the code gives up after 250 ms and skips
  the guarded block), and a worker is not killed while it shows an alarm.
- Not modelled: killing a task inside a locked section (the model deletes tasks
  between steps); a timeout on `alarm_mutex` (its sections touch only memory);
  the loop over workers in `watchdog_force_all_mandatory_abort` is a check,
  an exchange, a deletion and a suspension for all workers at once.
- Samples, dates, hours and notifications are small numbers; texts of the phone are
  their lengths.  A checksum of the update is right exactly when the units read are
  those of one block; the parser's CRC is computed.
- In `Lifecycle` the start is one step (nothing else runs before it is over except
  what it started last), managers without state here are left out of the shutdown,
  and a unit of the image stands for many bytes.
- The detector's filters and its floating-point shape tests are choices over the
  outcomes they can have; what is checked is the bookkeeping around them.
- History variables that name an exception (`unsure`, `late`, `forced`, `moved`,
  `faults` and their like) make a property precise: it says exactly when the code
  keeps its promise, and the exception is listed below.

## Runs

Properties that are proved or break together are checked as one conjunction, whose
parts have names and comments of their own in the module (`RuntimeInv`, `PoolCorrect`,
`AlarmInv`, `StreamCorrect`, `UiInv` and so on).

| run | properties | shows |
|---|---|---|
| `runtime_safety` | `RuntimeInv`, `UserWorkWatched`, `WindowTimersMatchState`, `PoolCorrect`, `WorkLostOnlyByForce`, `ImplementsWindow` | counter, lock and watchdog invariants of the proofs, window timers, no item lost unnoticed or duplicated, system pool asleep in SLEEP, accepted work lost in five ways only, the refinement of `RuntimeWindow` |
| `runtime_live` | `WindowCloses`, `AcceptedWorkSettles`, `ShutdownReturns` | windows close, accepted work settles, deinit returns |
| `alarms` | `AlarmInv`, `AppInv`, `AlarmsSettle`, `DeletesChosen` | order of the list, timer and first alarm agree before and after the clock is first set, every alarm settles unless alarms are created for ever before that; the application's pointers and its list are in step with the alarms, and the alarm deleted is the one chosen |
| `ring_buffer` | `ImplementsFifo` | the ring buffer is a bounded queue under both policies |
| `ble_packet` | `StreamCorrect`, `PopulateEnds` | from the start of a stream on, messages arrive unchanged and in order until a packet is lost; the transmit loop ends |
| `ui_safety` | `UiInv`, `UiSettled`, `ScreenKeepsAwake`, `WatchfaceTicks` | between commands everything agrees with the power state; wakelocks cover what needs the display; a visible watchface ticks; the exit semaphore is there unless a join timed out; the inductive invariants of the proofs |
| `ui_live` | `DisplayTruthful`, `WakeAnswered`, `InactivitySleeps`, `ScreenGoesAway` | the display state is true although the panel refuses commands; wakes are answered, an idle UI sleeps, alarm screens go away, although tasks cannot be created and full queues drop commands |
| `steps` | `StepsCounted`, `BoutsReported` | windows tile the signal, no peak is counted by two windows, steps of a window keep their distance; a walk is confirmed before it is reported and then reported in full, rest needs several quiet windows |
| `sensors` | `ResourcesReturned`, `CrashHasCause`, `DevicesTruthful` | the sleep lock is balanced on every early return, the IMU's queue recovers, the battery divider is on only while sampled (with the inductive `SensorsInv`); a restart has a failed access or a late read as its cause; one worker at a time drives the IMU, enable bits are as asked, the percentage stays close to the measurement |
| `ble_transfer` | `TransferDelivered`, `Reachable`, `ShutdownEnds` | only whole transfers are delivered and the buffer is freed exactly once, the parser finds back into step (with the inductive `SessionInv`), the watch stays reachable, the stack's shutdown ends |
| `phone_data` | `NotificationsCorrect`, `WeatherCorrect` | a card acts on the notification it shows, the list has no doubles, pages are full; the weather shown is that of the date shown and never served past its validity at a start; updates reach only the application they are for |
| `lifecycle` | `TeardownClean`, `LifecycleInv`, `SettingKept`, `UpdateSafe`, `InStep`, `UpdateEnds` | an undisturbed work tick reaches all subscribers and the IR driver leaves nothing behind but what a sender caught in the stop, or a task deleted while sending, held; the inductive invariants of the proofs, among them that the IR task can be stopped; a setting in use is the one a restart brings back, the watch stays awake in an update and there is always an image to boot, host and watch stay in step, the update ends |

### Deviations

Where the code does not do what its comments, tests or callers expect.  The models
reach these; the properties above exclude exactly them, or they show as a fault.

Runtime:
- A soft callback already dispatched when `watchdog_stop_user_work` stops its timer
  still runs and arms `hard_close`; the stale timer then kills the next handler
  although its flag was never raised (`runtime_watchdog.c:40`), while
  `test_runtime_worker_pool.c:236` expects the soft abort first.
- A worker re-created by the hard watchdog in SLEEP starts running and takes work
  (`runtime_watchdog.c:32`).
- Deinit drops work that was accepted and still queued (`runtime_manager.c:284`);
  a callback between `worker_pool_deinit` and `event_unsubscribe` fails the assertion
  of `worker_pool_has_work` (`runtime_manager.c:293`); `schedule_*_work` returns true
  and drops the item when it could not take the lock (`runtime_manager.c:364`), one of
  the five ways of `WorkLostOnlyByForce`.

Alarms:
- Before the first synchronisation the clock stands at zero, and the manager accepts
  every epoch from six seconds to a year after 1970 (`alarm_manager.c:124`); the page
  that creates an alarm offers 01/01/1970 (`draw_alarm_create_page.c:113`).  A timer
  armed then counts down from the moment its alarm became the first, so a later alarm
  is late by all the time that passed before; earlier alarms can be created for ever and
  keep a later one waiting; a deep sleep wipes them all (`state_manager.c:64`).
- The callback of a timer that expired before the list or the clock changed fires
  and removes an alarm that is not due (`alarm_manager.c:257`).
- A refused edit loses the alarm when its rollback is refused too
  (`alarm_manager.c:232`); an edit deletes by an index of an earlier locked section
  (`alarm_manager.c:225`).
- The application deletes by a position in its copy of the list: an alarm that fires
  while the popup is open makes it delete the next one (`alarm_ui.c:56`).  "Edit"
  deletes the alarm before the new one exists, so that a cancelled edit loses it, as
  the comment at `alarm_ui.c:42` says.
- "Edit" draws the list again after the page that creates an alarm.  When the screen
  of an alarm goes away, LVGL focuses the object drawn before it, an item of the list
  under that page; opening the page again from there, or closing the application and
  opening it again, fails `assert(background == NULL)`
  (`draw_alarm_create_page.c:124`), and the restart loses the alarms.

BLE:
- A header that exactly fills a packet is repeated in the next one
  (`ble_packet_handler.c:131`), which the packet format excludes.
- A half-sent message opens the next connection (`ble_manager.c:151`).
- A disconnection does not reset the multichunk parser: the first transfer after a
  broken one is lost.  The handler of a multichunk response only frees it.
- A curfew hook may still run while `ble_fifo_deinit` deletes its fifo's mutex.

UI and power:
- An alarm shown between the inactivity check and `suspend_lvgl` fails the latter's
  assertion (`lvgl_bridge.c:88`).
- Two workers draw two alarm screens; the first one's timer and wakelock are
  forgotten (`ui_event_screen.c:56`).
- An alarm that fires while UI_SLEEP is queued sends no wake (`power_manager.c:108`);
  a UI_WAKE queued before a UI_SLEEP is undone by it.
- A wake-up that cannot create the LVGL task leaves the UI active without one: nothing
  draws, reads keys or asks for sleep (`lvgl_handler_thread.c:135`).
- `dispatch_wf_update` asserts a watchface that the LVGL task may just have closed
  (`wf_manager.c:137`).

Sensors:
- A read that comes 3 s or more after the IMU was started, or a failed read of the
  sample count, hands the detector more samples than its history holds and fails
  `assert(window_samples < history->elements)` (`step_detection_algo.c:420`).
- A failed access, a handshake that times out after the sensor has carried out the
  request, or a worker deleted in between leaves the IMU's queue in read mode until a
  read that finds samples leaves it again; once the queue is empty none does, since a
  read of an empty queue ends before that.  A deleted worker also keeps the sleep lock
  and the battery divider.
- A barometer that fails to start leaves cleared function pointers, called by the next
  sensor tick; a failed read of its calibration leads to a division by zero.
- Two steps in neighbouring windows may be closer than MIN_SAMPLES_BETWEEN_STEPS
  (compare the comment at `step_detection_algo.c:339`).
- `sensor_manager_init` runs before `gpio_manager_init` releases the pads held over
  deep sleep, and `gpio_manager_deinit` parks the pins before
  `sensor_manager_deinit` talks to the IMU.

Phone data:
- An arrival at the limit moves the list under the cards shown; a dismissal while an
  entry is stored loses that entry and doubles another, and at a full list may call a
  null handler (`notification_manager.c:35`).  At the limit the model moves the list
  down, uncounts its oldest and writes the new entry in one step
  (`notification_manager.c:30`): a drawing or a dismissal between these, when the last
  entry stands in the list twice, is not followed.  It would fall under the exceptions
  `early` and `overlap`.
- With two weather requests under way, or an application closed and reopened, an
  answer is shown under another date (`weather_app.c:397`); a lost answer leaves the
  spinner for ever.  The worker's check of the hour and its use can be separated by
  the LVGL task's change of it, which fails an assertion.
- Weather that expires while the watch runs is wiped only at the next start.

Start to restart:
- A handler removed during a publication makes it skip, repeat or call a null
  pointer (`event_manager.c:94`).
- A setting changes in RAM although its save was refused; two writes of a key may be
  carried out in the wrong order; work queued at shutdown is lost.
- The LVGL task may put a packet into a queue that was just deleted
  (`ir_driver.c:58`).
- A lost acknowledgement makes the host send a block that the watch has written
  already; only the validation of the whole image notices.  A block refused for its
  checksum does not empty the receive buffer (`uart_ota.c:148`), so after a stall in
  the middle of a block host and watch stay out of step until the watch restarts.
  The host does not count timeouts: with the watch gone it sends for ever
  (`ota_flasher.py:90`).

### Bounds

- Runtime: one worker of each type, two system items (symmetric) and a user item in
  `runtime_safety` (no hook, one task that outruns its deletion, tasks that cannot be
  re-created), one system worker, item and hook in `runtime_live`; queues of one.  With
  two items for a queue of one, a full queue, pending work that does not fit when the
  window closes, a killed worker and an item refused by the lock all happen.  The second
  system item is scheduled only without user work and without an overrun
  (`SecondItemAlone`; the proofs have no such limit).
- Alarms: two alarms, a buffer of one second, a horizon of three, epochs from 1 to
  5, so that alarms are set before the clock is, expire, lie too far ahead, fill the
  list and are overtaken by the clock.  `MaxSyncs` bounds clock changes, in both
  directions.  Epochs end at `MaxEpoch`, where the clock stops.  With two alarms one is left in the list while
  the other is edited or fires, which is what the application's popup and focus need.
- Ring buffer: capacity 3, so that indices wrap at different times.
- Packets: MTUs of 7 and 9, where a header fits with two bytes of payload, exactly,
  or not at all, and of 0, which the code sets for an offer of 3 or less; an empty message, one that is fragmented, one whose payload looks
  like a header; `MaxSent`, `MaxFailed`, `MaxLinks` bound messages, failed packets
  and connections.  A fifo of one, two messages, one failure, two connections: a message is left over from a
  connection, lost, or behind another one.
- UI: `ui_safety` has two workers and two alarms (two screens can be drawn at once)
  and joins that time out; `ui_live` one of each, a panel that refuses and tasks that
  cannot be created.  The queue holds two commands (four in the code), so that it
  overflows; at most one old LVGL task is late at a time.
- Steps: three levels of which one makes a weak and one a strong peak, windows of one
  and two samples, a history of six that holds two peaks a step apart.
- Sensors: two workers (symmetric), one failed bus access, one forced sleep or one
  handshake that times out with the queue in read mode (`OneCause`: one of them in a
  behaviour; the proofs have no such limit), a history of two ticks' worth of samples and a
  buffer of three, two battery voltages on either side of the hysteresis.
- Transfers: three, of which one is broken; their bytes include a checksum split over
  two messages.  A fifo of three.
- Phone data: a list of three with two on a page and six notifications; three dates,
  two requests.  `NotBothBusy`: notifications and applications share only the
  screen, so states with both busy are not followed.
- Lifecycle: two values of a setting and an invalid one, two workers and two queued
  writes, an IR queue of two, an image of a block of two units and one of one, a receive buffer of
  three, two retries.  `OneBusy`: of IR driver, settings, subscribers, IMU lock and
  update at most one is away from its plain state, since they share only the order
  in which they are stopped; one setting at a time.  An update starts from the first
  slot, or from an image on trial, which it is refused (`StopEvents`): the slots are
  alike, so updates from the second are those from the first with the names exchanged.

`CHECK_DEADLOCK FALSE` stands in the runtime, packet and UI configurations: after
shutdown or a failed assertion, or with nothing left to send, the system stops.

### Fairness

- `esp_timer` runs at the highest application priority and serves timers by
  alarm time: an armed timer is dispatched however often the tick comes between
  (strong fairness), a callback that has begun ends (weak).
- The work tick recurs while the manager is not shutting down (shutdown does not
  rely on it), and a resumed worker runs before its window is over.
  Handlers owe nothing: they may run for ever.
- Main runs on with a shutdown it has begun.
- Alarms: time passes, an expired timer is dispatched, its callback gets the
  mutex, a synchronisation that has begun ends, a callback of the application draws
  its list before it returns, a failed assertion restarts the watch.  The user owes
  nothing.
- Packets: the transmit hook and the host task run on.  Nobody has to connect,
  subscribe or submit.
- UI: the power task and the LVGL task run on.  LVGL's timers are served whenever
  its handler runs, so an expired screen timer is served although keys come in
  between (strong).  User, alarms and workers owe nothing.
- Shutdown of BLE: main and the host task run on, waits end by their timeout.
- Update: the task that runs it runs on, and its reads time out by themselves.  The
  host owes nothing.

## Proofs

For every number of workers, items, hooks, keys, transfers and every capacity, from
the named assumptions of the modules only: `RuntimeAssumption`, `PoolAssumption`,
`AlarmAssumption`, `RingAssumption`, `UiAssumption`, `PowerAssumption`,
`IrAssumption`, `EventAssumption`, `StorageAssumption`, `OtaAssumption`,
`LifecycleAssumption`, `SessionAssumption`, `SensorsAssumption`, `NotesAssumption`,
`WeatherAssumption`, `StepAssumption`, `PacketAssumption`.  They give the sizes their
types and order (a queue has room for one element, a read fits the buffer, the history of
the detector and the steps it holds back fit a byte together: 126 and 4 in the code, and
so does the length of a payload: 250); TLC evaluates them in the runs.

Each proof has the same shape: an inductive invariant, checked by a run before it was
proved (all but `StreamInv`, whose positions TLC cannot enumerate), a step or lemma for
each action, and the property as a consequence.

- `RuntimeManagerProofs`: `TypeCorrect`; `ActiveWorkersCorrect`, that the idle
  counter is the number of workers with an item less the overruns; `LockCorrect`;
  `WindowTimersCorrect`; `UserWorkWatchedCorrect`.  `UserWorkWatched` is not
  inductive: the transition to SLEEP stops timers before it kills.  `WatchInv`
  follows a worker from the arming of its timer and says that one whose timer was
  stopped is on the list to be exchanged (`Doomed`) until it has left its handler;
  `LockInv` says who holds the lock meanwhile.
  `PoolIsCorrect` needs `PlaceInv`: that an item is in one place is preserved by a
  receive only because the task held nothing before, and by the requeueing of
  unfinished work only because the queues are within their capacities and each type's
  items stay with its workers; and `SleepInv`: the only task resumed outside a window is
  one the watchdog re-creates, which is a user worker.
  `WorkLostOnlyByForceCorrect` is the action property: a step that makes work vanish whose
  caller was answered with true is of one of five kinds (the worker killed, the grace
  period over, pending work that does not fit, shutdown, the call that met the lock).  `RuntimeImplementsWindow` shows step by step that the
  manager refines `RuntimeWindow`: every action maps to one of the window's or to a
  stutter, with `PlaceInv` giving the fate of each item.  `RuntimeInvCorrect` joins the
  invariants.
- `AlarmProofs`: `AlarmInvCorrect`, and from it `AlarmsSortedCorrect` and
  `TimerCorrect`.  `AlarmInv` joins type, order and timer, also for the clock that
  stands at zero before the first synchronisation; lemmas about deletion from and
  insertion into ordered lists carry the steps, whatever index an interleaved edit uses.
  Of the application: `AppInvCorrect`, `AppAlarmInvCorrect`, `DeletesChosenCorrect`.
  What the application does to the alarms are steps of the manager or a restart, so
  `AlarmInv` carries over; `AppInv` is inductive beside it, since it says for every
  page which pointers are set; `DeletesChosen` follows from the agreement of copy and
  list and from what removing a position takes from a list.
- `UiPowerProofs`: `TypeCorrect`, `DisplayCorrect`, `ScreenKeepsAwakeCorrect`,
  `UiSettledCorrect`, `ExitSemaphoreCorrect`, `WatchfaceTicksCorrect`.  `UiSettled`
  speaks of the moments between commands; `PowerInv` says what is on and off at every
  point of `power_task_fn`, and `ThreadInv` ties the LVGL task to its handle and
  semaphore as long as no join has timed out.  `WatchfaceTicks` speaks of the moments
  when no task is suspending or resuming the watchface; `WatchfaceInv` says for the
  others who may be doing so, and that a watchface without its subscription or its tick
  is owed one by a task that has not come to it yet.  `UiInvCorrect` joins them.
- `LifecycleProofs`: `IrTaskStopsCorrect`, from `IrInv`: whoever is past the first
  step of the stop has raised the flag, so that the task enters no new wait, and the
  poison finds the queue empty or need not.  `AwakeInUpdateCorrect`, from `LockInv`,
  which counts the holders of the sleep lock one by one.  `AlwaysBootableCorrect`,
  from `FlashInv`: the other partition is given up only when the running image is the
  one to boot and has declared itself valid, which `AlwaysBootable` alone does not say.
  An image whose declaration failed stays on trial, and `esp_ota_begin` refuses an update
  from it.
  `UpdateSafeCorrect` joins the two about the update.
  `TeardownCleanCorrect` rests on `EventInv`, which says what the subscriber table is at
  every stage of the shutdown and how far an undisturbed walk has come in it, and on
  `IrOwned`, which accounts for every payload.  `SettingKeptCorrect` rests on
  `StorageInv`: the value in use is the last one queued, held by a worker or stored,
  unless the write is on record as unsure.  `InStepCorrect` rests on `OtaInv`, which says
  for every state of the dialogue what is on the line in both directions.
  `LifecycleInvCorrect` joins all of them.
- `BleProofs`: `IndicesCorrect` and `RingRefinesFifo` about the ring buffer.  The
  contents are the stretch between the indices; `StoreAppends` and `AdvanceDrops` say
  what a push and a pop do to a stretch.
  `SessionInvCorrect` and `ReachableCorrect` about the session.  The host task learns of
  a link by events, so `Reachable`, which speaks of the moments when it has seen all of
  them, is not inductive; `LinkInv` says that the events still pending are exactly those
  that lead from what the watch knows to what the link is.  `ParserInv` and `LineInv`
  keep the parser within the size its header announced and the line to the bytes of the
  transfers, wherever they were broken off, and `BufferOwned` ties the buffer on the heap
  to the parser's state.
- `SensorsProofs`: `ResourcesReturnedCorrect`, `CrashHasCauseCorrect`,
  `DevicesTruthfulCorrect`, for any number of workers, failed accesses and windows
  closed by force, in any combination.  Each operation of the IMU driver has a lemma
  (`Yields`): it ends well in one state, and on each of its failures it gives the lock
  back.  Each handler step has one about what it does to the other workers.  The
  properties hold each other up in `Healthy`: the lock is counted right because one worker at
  a time has an item of a kind (`OneOfAKind`), which rests on windows ending with idle
  workers (`TasksInWindow`), and the detector's assertion is kept because a read in time
  finds one tick's worth of samples (`DataInTime`).
  Of the step detector: `StepsAreCounted`, `BoutsAreReported`.  `MarksInv` says that the
  newest sample has not been looked at, so that the window that looks at it adds the only
  mark (`MarksMove`); `BoutInv` that the detector's fields are the length of the bout, of
  the pause and of the rest (`WindowReported`, `StillCounted`).  The peaks come from a
  recursion over the samples: `LeastNumber` and `Induct` state induction over sets of
  numbers, without an operator as a parameter, `RecursionExists` gives the function that a
  recursive definition denotes, and `CandidatesSpaced` and `AcceptedAreCandidates`
  follow.  What makes a peak prominent or timed plays no part.
- `PhoneDataProofs`: `NotificationsAreCorrect`, `WeatherIsCorrect`.  That a card acts on
  what it shows is not inductive: `PageInv` says which part of the list the page is and
  what an interleaved store or dismissal may have done to it.  For the weather,
  `AnswerInv` says which request the answer on its way belongs to, and `DispatchInv` what
  the worker's checks still say about the application after the LVGL task's turn.
- `BlePacketProofs`: `StreamIsCorrect`, for every MTU (0 too, which the code sets when the
  peer offers 3 or less), every size of fifo and every set of messages.  `StreamCorrect`
  compares what both ends have, and says nothing of the bytes between them.  The messages
  taken from the fifo make up one stream of bytes; `StreamInv` says that the packet being
  built, each packet on its way, the bytes not parsed yet and the receiver each have a
  position in it, that the bytes are those of the stream from there on (`Matches`) and
  that each begins where the one before it ends unless a packet was lost in between.  No
  packet ends inside a header (`Whole`), which the parser, that looks for a whole header in
  what is left of a packet, relies on.  `BuildMoves` and the lemmas about the three parser states
  carry it over one iteration of each loop.

Only model-checked:
- everything under fairness, which is out of the prover's reach;
- `TransferDelivered` beyond `SessionInv`: that a broken transfer is not delivered
  and that the parser finds back depends on the bytes of the transfers, a checksum or a
  header may match by chance, so it holds of given transfers, not of all.

## Plan

Every safety property a run checks is a theorem, but for `TransferDelivered` as said.
What is worth adding: for `TransferDelivered`, a condition on a set of transfers under
which it can be proved (no checksum and no header of one within another).

## Not modelled

- Registers: the panel (`st7335_driver.c`), pin configuration and parking, the RMT
  symbols of the IR transmitter, the encoder's counter, NimBLE and the NVS library
  behind their calls.
- Floating-point arithmetic: compensation of the barometer, the battery's Kalman
  filter, the detector's filters.  TLC has integers only, and no decision of the
  system depends on more than what the models choose from.
- The shift of the work window towards BLE wake-ups (`power_manager.c:144`): a mean
  and a variance over microseconds whose effect is the time of the next tick, which
  the models leave open anyway.
- Drawing: settings, stopwatch, remote and game applications, the digits of the date
  picker, the watchfaces.  What they call (alarms, wakelocks, IR, settings, update) is modelled at
  the called side.
- Storage operations without callers (erasing, sizes), `state_manager_check_validity`,
  the request for deep sleep, whose subscription is commented out.
- Host-side tests and mocks, sample generators and other tools of the repository.
