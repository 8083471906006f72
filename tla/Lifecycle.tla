------------------------------ MODULE Lifecycle ------------------------------
(***************************************************************************)
(* From one start of the watch to the next: app_main (main.c) starts every *)
(* manager, declares the firmware valid, waits for the request for an      *)
(* update (power_manager.c), stops the managers in turn while the timer,   *)
(* LVGL, IR and worker tasks still run, and updates.  It composes the      *)
(* subscribers of the work tick, the infrared driver, the settings and     *)
(* the update; power may fail at any time.                                 *)
(***************************************************************************)
EXTENDS EventManager, IrDriver, Storage, UartOta

VARIABLES
  main,   \* where app_main is: the manager it will stop next, one of Stages
  note,   \* its task notification, "none" or "dfu"
  lvgl,   \* the LVGL task runs
  tick,   \* the work tick's timer runs
  lock,   \* times hw_sleep_lock is held
  imu     \* a worker reads the IMU, and holds one of them

mvars == <<main, note, lvgl, tick, lock, imu>>
vars == <<sub, walk, ir, irTask, sender, irStop, irSeen, nvs, ram, ready, writes, held,
          unsure, flash, w, rx, h, resp, faults, main, note, lvgl, tick, lock, imu>>

Stages == {"off", "confirm", "wait", "ir", "ui", "runtime", "runtime_tick", "start_work_cb",
           "tick", "sensor", "schedule_imu_work", "storage", "power", "event", "update"}

Init ==
  /\ sub = NoSubscribers /\ walk = NoWalk /\ IrInit /\ StorageInit /\ OtaInit
  /\ main = "off" /\ note = "none" /\ lvgl = FALSE /\ tick = FALSE /\ lock = 0 /\ imu = FALSE

-----------------------------------------------------------------------------
(* Start                                                                   *)

\* In the order their managers are started
WorkTickHandlers == <<"sleep_debug_cb", "start_work_cb", "schedule_imu_work">>

\* MAX_EVENT_SUBSCRIBERS is 8: there is room for all of them.
ASSUME LifecycleAssumption ==
  /\ \A i \in DOMAIN WorkTickHandlers : WorkTickHandlers[i] \in Handlers
  /\ Len(WorkTickHandlers) <= MaxSubscribers

AllSubscribed ==
  LET Add(t, n) == event_subscribe(t, WorkTickHandlers[n]) IN Add(Add(Add(NoSubscribers, 1), 2), 3)

\* The bootloader, and app_main up to the 5 s it waits.  The host of an
\* earlier update is forgotten: nobody listens to it.
Boot ==
  /\ main = "off" /\ main' = "confirm"
  /\ flash' = Booted(flash)
  /\ sub' = AllSubscribed
  /\ StartStorage
  /\ tick' = TRUE /\ lvgl' = TRUE
  /\ ir' = IrStarted /\ irTask' = "loop"
  /\ h' = HostIdle /\ resp' = <<>> /\ faults' = {}
  /\ UNCHANGED <<walk, sender, irStop, irSeen, w, rx, note, lock, imu>>

\* An error is only logged: the image stays on trial.
MarkFirmwareValid ==
  /\ main = "confirm" /\ main' = "wait" /\ flash' \in {MarkedValid(flash), flash}
  /\ UNCHANGED <<evars, irvars, svars, w, rx, h, resp, faults, note, lvgl, tick, lock, imu>>

\* The power fails, a fault restarts the watch, or the update does.
Restart ==
  /\ main # "off" /\ main' = "off"
  /\ sub' = NoSubscribers /\ walk' = NoWalk
  /\ ir' = IrOff /\ irTask' = "none" /\ sender' = "idle" /\ irStop' = "none"
  /\ irSeen' = IrNothingSeen
  /\ writes' = <<>> /\ held' = <<>> /\ ready' = FALSE /\ unsure' = {}
  /\ ram' = [k \in Keys |-> Default]
  /\ w' = WatchIdle /\ rx' = <<>>
  /\ note' = "none" /\ lvgl' = FALSE /\ tick' = FALSE /\ lock' = 0 /\ imu' = FALSE
  /\ UNCHANGED <<nvs, flash, h, resp, faults>>

-----------------------------------------------------------------------------
(* The other tasks                                                         *)

WorkTick ==
  /\ tick /\ Publish(main = "start_work_cb")
  /\ UNCHANGED <<irvars, svars, ovars, mvars>>

Walk == (TestCount \/ CallHandler) /\ UNCHANGED <<irvars, svars, ovars, mvars>>

\* The LVGL task does one thing at a time.
UserSets(k) ==
  /\ lvgl /\ sender = "idle" /\ \E v \in Values : SetSetting(k, v)
  /\ UNCHANGED <<evars, irvars, ovars, mvars>>

\* The user asks for an update; only the first request counts.
dfu_update_start_handler ==
  /\ lvgl /\ sender = "idle" /\ note = "none" /\ note' = "dfu" /\ lock' = lock + 1
  /\ UNCHANGED <<evars, irvars, svars, ovars, main, lvgl, tick, imu>>

SendIr == lvgl /\ (IrSendCheck \/ IrSend) /\ UNCHANGED <<evars, svars, ovars, mvars>>

TransmitIr ==
  /\ IrLoop \/ IrReceive \/ IrTransmit \/ IrExit
  /\ UNCHANGED <<evars, svars, ovars, mvars>>

Workers ==
  /\ TakeWrite \/ ExecuteWrite
  /\ UNCHANGED <<evars, irvars, ovars, mvars>>

WorkersRun == main \in {"confirm", "wait", "ir", "ui", "runtime"}

\* A worker keeps the watch awake while it reads the IMU.
ReadImu ==
  /\ WorkersRun /\ imu' = ~imu
  /\ lock' = IF imu THEN lock - 1 ELSE lock + 1
  /\ UNCHANGED <<evars, irvars, svars, ovars, main, note, lvgl, tick>>

-----------------------------------------------------------------------------
(* The shutdown                                                            *)

TakeNotification ==
  /\ main = "wait" /\ note = "dfu" /\ main' = "ir"
  /\ UNCHANGED <<evars, irvars, svars, ovars, note, lvgl, tick, lock, imu>>

StopIr ==
  /\ main = "ir"
  /\ \/ IrStopStep /\ UNCHANGED main
     \/ irStop = "done" /\ main' = "ui" /\ UNCHANGED irvars
  /\ UNCHANGED <<evars, svars, ovars, note, lvgl, tick, lock, imu>>

\* ui_manager_deinit waits for the LVGL task; ble_manager_deinit follows.
StopUi ==
  /\ main = "ui" /\ sender = "idle" /\ main' = "runtime" /\ lvgl' = FALSE
  /\ UNCHANGED <<evars, irvars, svars, ovars, note, tick, lock, imu>>

\* The workers end, or are deleted after 3 s with what they hold.
StopRuntime ==
  /\ main = "runtime" /\ main' = "runtime_tick" /\ DropWrites
  /\ UNCHANGED <<evars, irvars, ovars, note, lvgl, tick, lock, imu>>

\* event_unsubscribe in its two halves; between them main is named for the
\* handler.
Unsubscribe(f) ==
  /\ main' = f /\ sub' = Shifted(sub, f) /\ walk' = Meddled
  /\ UNCHANGED <<irvars, svars, ovars, note, lvgl, tick, lock, imu>>

Unsubscribed(next) ==
  /\ main' = next /\ sub' = Shortened(sub) /\ walk' = Meddled
  /\ UNCHANGED <<irvars, svars, ovars, note, lvgl, tick, lock, imu>>

StopTick ==
  /\ main = "tick" /\ tick' = FALSE /\ main' = "sensor"
  /\ UNCHANGED <<evars, irvars, svars, ovars, note, lvgl, lock, imu>>

StopStorage ==
  /\ main = "storage" /\ main' = "power" /\ ready' = FALSE
  /\ UNCHANGED <<evars, irvars, nvs, ram, writes, held, unsure, ovars, note, lvgl, tick, lock, imu>>

\* Mutant: the power manager is stopped for an update too.
LockReleased(l) == 0

\* power_manager_deinit, which gives up the lock, is skipped for an update.
LockAfterStop(l) == IF note = "dfu" THEN l ELSE 0

StopPower ==
  /\ main = "power" /\ main' = "event" /\ lock' = LockAfterStop(lock)
  /\ UNCHANGED <<evars, irvars, svars, ovars, note, lvgl, tick, imu>>

\* event_manager_deinit, and the update begins.  Bound: only an image in the
\* first slot, or one on trial, begins an update.
StopEvents ==
  /\ main = "event" /\ main' = "update" /\ sub' = NoSubscribers /\ walk' = Meddled
  /\ flash.run = 0 \/ flash.state = "trial"
  /\ StartUpdate
  /\ UNCHANGED <<irvars, svars, note, lvgl, tick, lock, imu>>

WatchUpdates == main = "update" /\ WatchStep /\ UNCHANGED <<evars, irvars, svars, mvars>>
HostUpdates == main = "update" /\ HostStep /\ UNCHANGED <<evars, irvars, svars, mvars>>

-----------------------------------------------------------------------------
\* A call through a null pointer or a deleted queue
Crashed == walk.step = "fault" \/ irSeen.fault

Others ==
  \/ WorkTick \/ Walk \/ (\E k \in Keys : UserSets(k)) \/ dfu_update_start_handler
  \/ SendIr \/ TransmitIr \/ Workers \/ ReadImu

Shutdown ==
  \/ TakeNotification \/ StopIr \/ StopUi \/ StopRuntime
  \/ main = "runtime_tick" /\ Unsubscribe("start_work_cb")
  \/ main = "start_work_cb" /\ Unsubscribed("tick")
  \/ StopTick
  \/ main = "sensor" /\ Unsubscribe("schedule_imu_work")
  \/ main = "schedule_imu_work" /\ Unsubscribed("storage")
  \/ StopStorage \/ StopPower \/ StopEvents

Next ==
  \/ ~Crashed /\ (Boot \/ MarkFirmwareValid \/ Others \/ Shutdown \/ WatchUpdates \/ HostUpdates)
  \/ Restart

\* The update task runs: its reads time out by themselves.
Spec == Init /\ [][Next]_vars /\ WF_vars(WatchUpdates)

-----------------------------------------------------------------------------
(* Properties                                                              *)

TypeOK ==
  /\ EventTypeOK /\ StorageTypeOK /\ OtaTypeOK
  /\ main \in Stages /\ lock \in 0..2

\* The handlers of the managers that have started and not stopped
StillSubscribed ==
  CASE WorkersRun \/ main = "runtime_tick"             -> WorkTickHandlers
    [] main \in {"start_work_cb", "tick", "sensor"}    -> <<"sleep_debug_cb", "schedule_imu_work">>
    [] OTHER                                           -> <<"sleep_debug_cb">>

\* A work tick reaches every manager that has started and not stopped,
\* unless a subscriber is removed during the walk.
PublishReachesAll == ReachesAll(StillSubscribed)

\* The request for an update takes the sleep lock and nothing gives it up, so
\* the watch does not fall asleep under the update, whatever the workers did.
AwakeInUpdate == w.pc # "none" => lock >= 1

\* Teardown under traffic: an event whose walk no removal disturbs reaches every handler
\* still subscribed, whatever was removed before, and the IR driver leaves at most the
\* payload of a sender caught between its tests and the queue and that of a task deleted
\* while it transmitted; only such a sender uses the deleted queue (event_manager.c,
\* ir_driver.c).
TeardownClean == TypeOK /\ PublishReachesAll /\ IrLeavesNothing

\* During an update the watch cannot fall asleep, and whenever the power fails it still
\* finds a firmware to start (power_manager.c, uart_ota.c).
UpdateSafe == AwakeInUpdate /\ AlwaysBootable

\* The update task never hangs: it ends, with or without a new image, however
\* the host behaves and whatever is lost.
UpdateEnds == w.pc # "none" ~> w.pc = "none"

-----------------------------------------------------------------------------
(* Inductive invariants                                                    *)

ShuttingDown == main \notin {"off", "confirm", "wait"}

\* Who has raised the flag of the IR task, and what then wakes it.
IrInv ==
  /\ ir = [initialized |-> ir.initialized, abort |-> ir.abort, queue |-> ir.queue,
           exists |-> ir.exists, copies |-> ir.copies, sem |-> ir.sem]
  /\ ir.queue \in Seq({"packet", "poison"})
  /\ irStop # "none" => ir.abort
  /\ main = "off" => irStop = "none"
  /\ IrTaskStops

\* Each holder of the sleep lock accounts for one of its holds.
LockInv ==
  /\ lock \in Nat /\ imu \in BOOLEAN /\ note \in {"none", "dfu"}
  /\ imu => lock >= 1
  /\ note = "dfu" => lock >= 1
  /\ note = "dfu" /\ imu => lock >= 2
  /\ lock <= (IF note = "dfu" THEN 1 ELSE 0) + (IF imu THEN 1 ELSE 0)
  /\ ShuttingDown => note = "dfu"
  /\ w.pc # "none" => main = "update"

\* The running image is the one to boot and declared valid whenever the other
\* partition is given up.
FlashInv ==
  /\ flash \in [run : Slots, boot : Slots, state : {"valid", "new", "trial"}, whole : SUBSET Slots]
  /\ main \notin {"off", "update"} => flash.run = flash.boot /\ flash.state # "new"
  /\ w.pc # "none" => main = "update" /\ flash.run = flash.boot /\ flash.state = "valid"
  /\ AlwaysBootable

Table(hs) ==
  [handlers |-> [i \in 1..MaxSubscribers |-> IF i <= Len(hs) THEN hs[i] ELSE Null],
   count |-> Len(hs)]

\* What event_unsubscribe leaves between its two halves
HalfRemoved == <<"sleep_debug_cb", "schedule_imu_work", "schedule_imu_work">>

\* The table at every stage of app_main
TableInv ==
  /\ main \in {"off", "update"} => sub = NoSubscribers
  /\ main = "start_work_cb" => sub = Table(HalfRemoved)
  /\ main = "schedule_imu_work" => sub = Table(<<"sleep_debug_cb", "schedule_imu_work">>)
  /\ main \notin {"off", "update", "start_work_cb", "schedule_imu_work"} => sub = Table(StillSubscribed)

\* How far a walk has come that no removal disturbed
WalkInv ==
  /\ walk = [step |-> walk.step, i |-> walk.i, called |-> walk.called, moved |-> walk.moved]
  /\ walk.moved \in BOOLEAN /\ walk.i \in Nat \ {0}
  /\ ~walk.moved /\ walk.step # "none" =>
       /\ walk.step \in {"test", "call", "done"} /\ walk.called \in Seq(Handlers)
       /\ Len(walk.called) = walk.i - 1 /\ Len(walk.called) <= Len(StillSubscribed)
       /\ walk.step = "call" => walk.i <= Len(StillSubscribed)
       /\ walk.step = "done" => walk.i = Len(StillSubscribed) + 1
       /\ \A j \in DOMAIN walk.called : walk.called[j] = StillSubscribed[j]

\* No walk is undisturbed between the halves of a removal, nor begins once the timer of
\* the work tick is stopped.
EventInv ==
  /\ TableInv /\ WalkInv
  /\ tick => WorkersRun \/ main \in {"runtime_tick", "start_work_cb", "tick"}
  /\ main \in {"start_work_cb", "schedule_imu_work", "update"} => walk.moved \/ walk.step = "none"
  /\ main = "off" => walk = NoWalk

\* While the watch is off nothing is queued, and whoever uses the IR driver runs.
OffInv ==
  /\ main \in Stages
  /\ main = "off" => /\ ~ready /\ writes = <<>> /\ held = <<>> /\ unsure = {}
                     /\ sender = "idle" /\ irTask = "none" /\ irSeen = IrNothingSeen
                     /\ w.pc = "none" /\ ~lvgl /\ ~tick

\* What start-up and shutdown preserve at every step: the infrared driver can be stopped
\* and owns every payload, the sleep lock has its holders, there is an image to boot, the
\* table of subscribers is the stage's, a setting is where its last write is, and host
\* and watch are at the same block.
LifecycleInv ==
  /\ IrInv /\ IrOwned /\ LockInv /\ FlashInv /\ EventInv /\ OffInv
  /\ StorageTypeOK /\ StorageInv /\ OtaInv

=============================================================================
