------------------------------ MODULE Sensors -------------------------------
(***************************************************************************)
(* Sensor work (sensor_manager.c, with the motion sensor's queue, the      *)
(* barometer and the battery drivers).  A work tick opens a window and     *)
(* schedules a read of the motion sensor, every SensorEvery-th tick also   *)
(* reads of barometer and battery.  System workers carry them out; at the  *)
(* end of the grace period the runtime manager raises their abort flags    *)
(* and deletes the ones still running, wherever they are.                  *)
(*                                                                         *)
(* Samples are counted in ticks' worth (21 samples each).  A window is     *)
(* over (900 ms at most) before the next tick (1025 ms).                   *)
(***************************************************************************)
EXTENDS ImuDriver, Sequences, FiniteSets

CONSTANTS
  Workers,      \* the system workers
  QueueLen,     \* MAX_SYSTEM_WORK_PER_WINDOW
  SensorEvery,  \* work ticks per sensor tick (60)
  Depth,        \* the queue of the motion sensor (128 samples)
  Buffer,       \* imu_fifo (133 samples)
  History,      \* MAX_VERTICAL_ACCEL_HISTORY_SIZE
  MinInference, \* MIN_SAMPLES_BEFORE_STEP_INFERENCE
  MaxPolls,     \* polls of the handshake before its timeout
  Millivolts,   \* smoothed readings of the battery
  ImuOps,       \* the driver's operations that may be called
  MaxFaults,    \* bus failures
  MaxForced     \* windows that are closed by force

\* imu_driver.h: the operations besides starting, stopping and reading
DriverOps ==
  {"enable_gyro", "disable_gyro", "enable_accelerometer", "disable_accelerometer",
   "high_accuracy", "accel_only", "arm_wakeup", "disarm_wakeup", "setup_no_motion",
   "disable_no_motion", "enable_pedometer", "disable_pedometer", "reset_pedometer",
   "reset_fifo"}

ASSUME SensorsAssumption ==
  /\ IsFiniteSet(Workers) /\ ImuOps \subseteq DriverOps /\ Millivolts \subseteq Nat
  /\ QueueLen \in Nat \ {0} /\ SensorEvery \in Nat \ {0}
  /\ History \in Nat /\ Depth \in Nat /\ Buffer \in Nat
  /\ MinInference \in 2..History /\ Depth >= History /\ Buffer > Depth
  /\ MaxPolls \in Nat \ {0} /\ MaxFaults \in Nat /\ MaxForced \in Nat

VARIABLES
  up,        \* the sensors are initialised
  window,    \* a work window is open
  tick,      \* work ticks since the last sensor tick
  queue,     \* system_work
  task,      \* per worker: pc, and the locals of the handler it runs
  imu,       \* the motion sensor (ImuDriver); locks: the hardware sleep lock
  fifo,      \* ticks' worth of samples in the sensor's queue
  elements,  \* length of the detector's history
  bmp,       \* the barometer's bus structure and its calibration
  battery,   \* divider pin, first_run, reported_pct, the last measurement
  crash,     \* an assertion or an exception that restarts the watch
  faults, forced, late, leftover, killed, wanted   \* history: bus failures;
             \* windows closed by force; a read
             \* that was not done before the next tick; an item that outlived
             \* its window; workers deleted in a handler, per kind of state
             \* they held, and a handshake that timed out in read mode; the
             \* enable bits the callers asked for

history == <<forced, late, leftover, killed, wanted>>
svars == <<up, window, tick, queue, task, imu, fifo, elements, bmp, battery,
           crash, faults, history>>

Idle == [pc |-> "idle", len |-> 0, polls |-> 0, flag |-> FALSE]
Kinds == {"imu", "bmp", "battery"}

\* The job a program counter belongs to
Locked == {"poll", "ack", "bmp_temp", "bmp_pressure", "bat_sample"}
ImuPC == {"imu", "ctrl", "poll", "ack", "fetch", "leave", "check"}
BmpPC == {"bmp", "bmp_temp", "bmp_between", "bmp_pressure"}
BatPC == {"battery", "bat_sample"}

\* From the sensor's answer to the request until FIFO_CTRL is written again
ReadMode == {"ack", "fetch", "leave"}

At(w) == task[w].pc
Running(S) == {w \in Workers : At(w) \in S}

-----------------------------------------------------------------------------
(* Starting and stopping                                                   *)

\* bmp180_init: without an answer with the right chip id the bus is released
\* and the structure, function pointers included, is cleared.
\* read_and_store_calibration_data_if_required: the copy in flash (saved
\* asynchronously, so it may be missing), or the registers of the sensor, or,
\* when reading them fails, nothing.
BmpStart ==
  {[bus |-> TRUE, cal |-> TRUE]}
    \cup (IF faults < MaxFaults
          THEN {[bus |-> FALSE, cal |-> FALSE], [bus |-> TRUE, cal |-> FALSE]}
          ELSE {})

\* The outcomes of a driver operation that the remaining faults allow
Outcomes(S) == {o \in S : o.ok \/ faults < MaxFaults}

Init ==
  /\ up = FALSE /\ window = FALSE /\ tick = 0 /\ queue = <<>>
  /\ task = [w \in Workers |-> Idle]
  /\ imu = [aen |-> FALSE, gen |-> FALSE, fifo |-> "bypass", locks |-> 0]
  /\ fifo = 0 /\ elements = 0
  /\ bmp = [bus |-> FALSE, cal |-> FALSE]
  /\ battery = [divider |-> FALSE, first_run |-> TRUE, pct |-> 100, mv |-> 0]
  /\ crash = FALSE /\ faults = 0 /\ forced = 0 /\ late = FALSE /\ leftover = FALSE
  /\ killed = {} /\ wanted = [aen |-> FALSE, gen |-> FALSE]

sensor_manager_init ==
  /\ ~up /\ ~crash
  /\ up' = TRUE /\ elements' = 0
  /\ fifo' \in {0, 1} /\ late' = (fifo' > 0)   \* the rest of the start may be slow
  /\ \E b \in BmpStart, o \in Outcomes(imu_init(imu)) :
       /\ bmp' = b /\ imu' = o.imu
       /\ faults' = IF o.ok /\ b.bus /\ b.cal THEN faults ELSE faults + 1
  /\ battery' = [battery EXCEPT !.first_run = TRUE, !.pct = 100, !.mv = 0]
  /\ tick' = 0
  /\ wanted' = [aen |-> TRUE, gen |-> FALSE]
  /\ UNCHANGED <<window, queue, task, crash, forced, leftover, killed>>

\* bmp180_release_i2c asserts the handles that a failed bmp180_init has
\* cleared.
ReleaseAsserts == bmp.bus

\* Shutdown, after the runtime manager: the pool is gone.
sensor_manager_deinit ==
  /\ up /\ ~crash /\ ~window /\ queue = <<>> /\ Running({"idle"}) = Workers
  /\ \E o \in Outcomes(imu_enter_low_power_mode(imu)) :
       /\ imu' = o.imu
       /\ faults' = IF o.ok THEN faults ELSE faults + 1
  /\ crash' = ~ReleaseAsserts
  /\ bmp' = [bus |-> FALSE, cal |-> FALSE]
  /\ up' = FALSE /\ elements' = 0
  /\ wanted' = [aen |-> FALSE, gen |-> FALSE]
  /\ UNCHANGED <<window, tick, queue, task, fifo, battery, forced, late, leftover, killed>>

\* Any other operation of the driver, called while no worker uses it
ImuResult(op) ==
  CASE op = "enable_accelerometer" -> imu_enable_accelerometer(imu)
    [] op = "disable_accelerometer" -> imu_disable_accelerometer(imu)
    [] op = "enable_gyro" -> imu_enable_gyro(imu)
    [] op = "disable_gyro" -> imu_disable_gyro(imu)
    [] op = "high_accuracy" -> imu_enter_high_accuracy_mode(imu)
    [] op = "accel_only" -> imu_enter_low_power_accel_only_mode(imu)
    [] op = "arm_wakeup" -> imu_setup_wake_on_motion(imu)
    [] op = "disarm_wakeup" -> imu_disable_wake_on_motion(imu)
    [] op = "setup_no_motion" -> imu_setup_detect_no_motion(imu)
    [] op = "disable_no_motion" -> imu_disable_detect_no_motion(imu)
    [] op = "enable_pedometer" -> imu_enable_pedometer(imu)
    [] op = "disable_pedometer" -> imu_disable_pedometer(imu)
    [] op = "reset_pedometer" -> imu_reset_pedometer(imu)
    [] op = "reset_fifo" -> imu_reset_fifo_buffer(imu)

Asked(op) ==
  CASE op = "enable_accelerometer" -> [wanted EXCEPT !.aen = TRUE]
    [] op = "disable_accelerometer" -> [wanted EXCEPT !.aen = FALSE]
    [] op = "enable_gyro" -> [wanted EXCEPT !.gen = TRUE]
    [] op = "disable_gyro" -> [wanted EXCEPT !.gen = FALSE]
    [] op = "high_accuracy" -> [aen |-> TRUE, gen |-> TRUE]
    [] op = "accel_only" -> [aen |-> TRUE, gen |-> FALSE]
    [] OTHER -> wanted

ImuCall(op) ==
  /\ up /\ ~crash /\ ~window /\ queue = <<>> /\ Running({"idle"}) = Workers
  /\ \E o \in Outcomes(ImuResult(op)) :
       /\ imu' = o.imu
       /\ faults' = IF o.ok THEN faults ELSE faults + 1
  /\ fifo' = IF op = "reset_fifo" THEN 0 ELSE fifo
  /\ wanted' = Asked(op)
  /\ UNCHANGED <<up, window, tick, queue, task, elements, bmp, battery, crash,
                 forced, late, leftover, killed>>

-----------------------------------------------------------------------------
(* Windows, as the workers see them (RuntimeManager)                       *)

\* Mutant: the queue is taken to be large enough.
ScheduledAll(items) == queue \o items

\* schedule_imu_work and schedule_sensor_work: an item that does not fit is
\* logged and forgotten.
Scheduled(items) ==
  LET all == queue \o items IN
  IF Len(all) <= QueueLen THEN all ELSE SubSeq(all, 1, QueueLen)

\* EVENT_WORK_TICK; the queue of the sensor has gained a tick's worth.
WorkTick ==
  /\ up /\ ~crash /\ ~window
  /\ window' = TRUE
  /\ tick' = (tick + 1) % SensorEvery
  /\ queue' = Scheduled(IF tick' = 0 THEN <<"imu", "bmp", "battery">> ELSE <<"imu">>)
  /\ fifo' = IF imu.aen /\ imu.fifo = "stream" /\ fifo < Depth THEN fifo + 1 ELSE fifo
  /\ late' = (late \/ fifo > 0)
  /\ UNCHANGED <<up, task, imu, elements, bmp, battery, crash, faults,
                 forced, leftover, killed, wanted>>

\* A worker receives an item.
Receive(w) ==
  /\ window /\ ~crash /\ At(w) = "idle" /\ queue # <<>>
  /\ task' = [task EXCEPT ![w] = [Idle EXCEPT !.pc = Head(queue)]]
  /\ queue' = Tail(queue)
  /\ UNCHANGED <<up, window, tick, imu, fifo, elements, bmp, battery, crash,
                 faults, history>>

\* All work is done and the window closes early.
CloseEarly ==
  /\ window /\ ~crash /\ queue = <<>> /\ Running({"idle"}) = Workers
  /\ window' = FALSE
  /\ UNCHANGED <<up, tick, queue, task, imu, fifo, elements, bmp, battery, crash,
                 faults, history>>

\* grace_period_expiry_cb: first the flags, ...
RaiseFlags ==
  /\ window /\ ~crash /\ \E w \in Workers : At(w) # "idle" /\ ~task[w].flag
  /\ task' = [w \in Workers |-> IF At(w) = "idle" THEN task[w] ELSE [task[w] EXCEPT !.flag = TRUE]]
  /\ UNCHANGED <<up, window, tick, queue, imu, fifo, elements, bmp, battery, crash,
                 faults, history>>

\* Mutant: the window closes over handlers that are still running.
SleepOverHandlers ==
  /\ window /\ ~crash /\ \A w \in Workers : At(w) # "idle" => task[w].flag
  /\ queue = <<>> /\ Running({"idle"}) # Workers
  /\ forced < MaxForced /\ forced' = forced + 1
  /\ window' = FALSE
  /\ UNCHANGED <<up, tick, queue, task, imu, fifo, elements, bmp, battery, crash,
                 faults, late, leftover, killed, wanted>>

\* The mode of the sensor's queue when these workers give up their request: it may
\* still be carried out.
Modes(ws) == {imu.fifo} \cup (IF ws # {} THEN {"reading"} ELSE {})

\* ... then every worker still in a handler is deleted and re-created.  The
\* sleep locks, the divider and the sensor stay as they are.
ForceSleep ==
  /\ window /\ ~crash /\ \A w \in Workers : At(w) # "idle" => task[w].flag
  /\ \/ queue # <<>>
     \/ Running({"idle"}) # Workers
  /\ forced < MaxForced /\ forced' = forced + 1
  /\ window' = FALSE
  /\ task' = [w \in Workers |-> Idle]
  /\ \E m \in Modes(Running({"poll"})) : imu' = [imu EXCEPT !.fifo = m]
  /\ killed' = killed \cup (IF Running(Locked) # {} THEN {"locked"} ELSE {})
                      \cup (IF Running({"bat_sample"}) # {} THEN {"divider"} ELSE {})
                      \cup (IF imu'.fifo = "reading" /\ Running({"poll"} \cup ReadMode) # {}
                            THEN {"reading"} ELSE {})
  /\ leftover' = (leftover \/ queue # <<>>)
  /\ UNCHANGED <<up, tick, queue, fifo, elements, bmp, battery, crash, faults,
                 late, wanted>>

-----------------------------------------------------------------------------
(* Handlers                                                                *)

Goto(w, pc) == task' = [task EXCEPT ![w].pc = pc]
Return(w) == task' = [task EXCEPT ![w] = Idle]
Fail == faults < MaxFaults /\ faults' = faults + 1
Lock == imu' = [imu EXCEPT !.locks = @ + 1]
Unlock == imu' = [imu EXCEPT !.locks = @ - 1]
Rest == UNCHANGED <<up, window, tick, queue, forced, late, leftover, wanted>>

\* Mutant: the number of samples is the size of the buffer, not what is there.
LenWhole(n) == Buffer

\* read_len: what fits of what is there
ReadLen(n) == IF n < Buffer THEN n ELSE Buffer

\* imu_read_temperature, whose result is only logged, and the start of
\* imu_read_fifo_buffer.  When the count cannot be read the length stays the
\* size of the buffer; an empty queue returns at once.
ReadCount(w) ==
  /\ At(w) = "imu"
  /\ \/ /\ task' = [task EXCEPT ![w].len = Buffer, ![w].pc = "check"] /\ Fail
     \/ /\ task' = [task EXCEPT ![w].len = IF fifo = 0 THEN 0 ELSE ReadLen(fifo),
                                ![w].pc = IF fifo = 0 THEN "check" ELSE "ctrl"]
        /\ UNCHANGED faults
  /\ UNCHANGED <<imu, fifo, elements, bmp, battery, crash>>

\* FIFO_CTRL is read and the request written; then the lock is taken.
RequestFifo(w) ==
  /\ At(w) = "ctrl"
  /\ \/ Goto(w, "check") /\ Fail /\ UNCHANGED imu
     \/ /\ task' = [task EXCEPT ![w].pc = "poll", ![w].polls = 0]
        /\ Lock /\ UNCHANGED faults
  /\ UNCHANGED <<fifo, elements, bmp, battery, crash>>

\* Mutant: a read of the status that fails returns with the lock.
PollLeaky(w) ==
  /\ At(w) = "poll" /\ Goto(w, "check") /\ Fail
  /\ UNCHANGED <<imu, fifo, elements, bmp, battery, crash>>

\* The lock is given back, and the handshake may be given up before the sensor has
\* answered.
GiveUp(w) ==
  \E m \in Modes({w} \cap Running({"poll"})) : imu' = [imu EXCEPT !.fifo = m, !.locks = @ - 1]

\* One turn of the polling loop of ctrl9_handshake
PollFails(w) ==
  /\ At(w) \in {"poll", "ack"} /\ Goto(w, "check") /\ Fail /\ GiveUp(w)
  /\ UNCHANGED <<fifo, elements, bmp, battery, crash>>

Poll(w) ==
  /\ \/ /\ At(w) = "ack"                     \* acknowledged and cleared
        /\ Goto(w, "fetch") /\ Unlock /\ UNCHANGED killed
     \/ /\ At(w) = "poll"                    \* done: in read mode; acknowledge
        /\ task[w].polls + 1 < MaxPolls
        /\ task' = [task EXCEPT ![w].polls = @ + 1, ![w].pc = "ack"]
        /\ imu' = [imu EXCEPT !.fifo = "reading"] /\ UNCHANGED killed
     \/ /\ At(w) \in {"poll", "ack"}         \* not done, or not cleared, yet
        /\ task[w].polls + 1 < MaxPolls
        /\ task' = [task EXCEPT ![w].polls = @ + 1]
        /\ UNCHANGED <<imu, killed>>
     \/ /\ At(w) \in {"poll", "ack"}         \* timeout
        /\ task[w].polls + 1 = MaxPolls
        /\ Goto(w, "check") /\ GiveUp(w)
        /\ killed' = IF imu'.fifo = "reading" THEN killed \cup {"timeout"} ELSE killed
  /\ UNCHANGED <<fifo, elements, bmp, battery, crash, faults>>

\* The samples are taken out of the queue.
FetchSamples(w) ==
  /\ At(w) = "fetch" /\ UNCHANGED imu
  /\ \/ Goto(w, "check") /\ Fail /\ UNCHANGED fifo
     \/ /\ Goto(w, "leave")
        /\ fifo' = IF fifo > task[w].len THEN fifo - task[w].len ELSE 0
        /\ UNCHANGED faults
  /\ UNCHANGED <<elements, bmp, battery, crash>>

\* Mutant: FIFO_CTRL is not written after the read.
LeaveForgotten(w) ==
  /\ At(w) = "leave" /\ Goto(w, "check")
  /\ UNCHANGED <<imu, fifo, elements, bmp, battery, crash, faults>>

\* The sensor queues samples again once FIFO_CTRL is written.
LeaveReadMode(w) ==
  /\ At(w) = "leave" /\ Goto(w, "check")
  /\ \/ Fail /\ UNCHANGED imu
     \/ imu' = [imu EXCEPT !.fifo = "stream"] /\ UNCHANGED faults
  /\ UNCHANGED <<fifo, elements, bmp, battery, crash>>

\* The end of process_imu_data: a raised flag or an empty read ends it; else
\* the samples, or zeros when the read failed, go to the detector, whose
\* assertion wants a history longer than the window.
process_imu_data(w) ==
  /\ At(w) = "check" /\ Return(w)
  /\ IF task[w].flag \/ task[w].len = 0
     THEN UNCHANGED <<elements, crash>>
     ELSE LET all == IF elements + task[w].len > History THEN History ELSE elements + task[w].len
          IN  /\ elements' = all
              /\ crash' = (all >= MinInference /\ task[w].len >= all)
  /\ UNCHANGED <<imu, fifo, bmp, battery, faults>>

\* bmp180_read_temp_and_altitude: through a cleared structure it calls a null
\* function; with no calibration it divides by zero.
BmpCommand(w, from, to) ==
  /\ At(w) = from
  /\ IF bmp.bus
     THEN \/ Goto(w, to) /\ Lock /\ UNCHANGED <<faults, crash>>
          \/ Return(w) /\ Fail /\ UNCHANGED <<imu, crash>>     \* released again
     ELSE Goto(w, to) /\ Lock /\ crash' = TRUE /\ UNCHANGED faults
  /\ UNCHANGED <<fifo, elements, bmp, battery>>

BmpRead(w, from) ==
  /\ At(w) = from /\ Unlock
  /\ \/ Return(w) /\ Fail /\ UNCHANGED crash
     \/ /\ IF from = "bmp_temp" THEN Goto(w, "bmp_between") ELSE Return(w)
        /\ crash' = ~bmp.cal /\ UNCHANGED faults
  /\ UNCHANGED <<fifo, elements, bmp, battery>>

process_bmp_data(w) ==
  \/ BmpCommand(w, "bmp", "bmp_temp") \/ BmpRead(w, "bmp_temp")
  \/ BmpCommand(w, "bmp_between", "bmp_pressure") \/ BmpRead(w, "bmp_pressure")

lipo_curve_mv == <<3270, 3610, 3690, 3710, 3730, 3770, 3790, 3820, 3870, 3950, 4200>>

\* The percentage of a voltage, by linear interpolation between the points
CurvePct(mv) ==
  IF mv <= lipo_curve_mv[1] THEN 0
  ELSE IF mv >= lipo_curve_mv[11] THEN 100
  ELSE LET i == CHOOSE k \in 1..10 : /\ lipo_curve_mv[k] <= mv /\ mv <= lipo_curve_mv[k + 1]
                                     /\ \A j \in 1..(k - 1) : mv > lipo_curve_mv[j + 1]
       IN  (i - 1) * 10 + ((mv - lipo_curve_mv[i]) * 10) \div (lipo_curve_mv[i + 1] - lipo_curve_mv[i])

\* Mutant: a reading has to recover by more than it fell.
PctSticky(calculated, is_charging) ==
  IF battery.first_run \/ is_charging \/ calculated >= battery.pct + 3
  THEN calculated ELSE battery.pct

\* The hysteresis filter
ReportedPct(calculated, is_charging) ==
  IF \/ battery.first_run \/ is_charging
     \/ calculated < battery.pct \/ calculated >= battery.pct + 3
  THEN calculated ELSE battery.pct

\* battery_driver_read_battery_percentage: the divider is on for the burst of
\* readings, under the sleep lock; the filters leave one smoothed voltage.
BatteryEnable(w) ==
  /\ At(w) = "battery" /\ Goto(w, "bat_sample") /\ Lock
  /\ battery' = [battery EXCEPT !.divider = TRUE]
  /\ UNCHANGED <<fifo, elements, bmp, crash, faults>>

Measured(divider, mv, is_charging) ==
  [battery EXCEPT !.divider = divider, !.mv = mv, !.first_run = FALSE,
                  !.pct = ReportedPct(CurvePct(mv), is_charging)]

\* Mutant: the divider stays on.
BatteryForgets(w) ==
  /\ At(w) = "bat_sample" /\ Return(w) /\ Unlock
  /\ \E mv \in Millivolts, is_charging \in BOOLEAN :
       battery' = Measured(TRUE, mv, is_charging)
  /\ UNCHANGED <<fifo, elements, bmp, crash, faults>>

BatteryReport(w) ==
  /\ At(w) = "bat_sample" /\ Return(w) /\ Unlock
  /\ \E mv \in Millivolts, is_charging \in BOOLEAN :
       battery' = Measured(FALSE, mv, is_charging)
  /\ UNCHANGED <<fifo, elements, bmp, crash, faults>>

Handler(w) ==
  /\ window /\ ~crash /\ Rest
  /\ \/ Poll(w)
     \/ /\ UNCHANGED killed
        /\ \/ ReadCount(w) \/ RequestFifo(w) \/ PollFails(w)
           \/ FetchSamples(w) \/ LeaveReadMode(w)
           \/ process_imu_data(w) \/ process_bmp_data(w)
           \/ BatteryEnable(w) \/ BatteryReport(w)

\* The watch restarts: memory is fresh; the sensor and the flash keep theirs.
Restart ==
  /\ crash /\ crash' = FALSE
  /\ up' = FALSE /\ window' = FALSE /\ tick' = 0 /\ queue' = <<>>
  /\ task' = [w \in Workers |-> Idle]
  /\ imu' = [imu EXCEPT !.locks = 0]
  /\ elements' = 0 /\ bmp' = [bus |-> FALSE, cal |-> FALSE]
  /\ battery' = [divider |-> FALSE, first_run |-> TRUE, pct |-> 100, mv |-> 0]
  /\ late' = FALSE /\ leftover' = FALSE /\ killed' = {}
  /\ wanted' = [aen |-> FALSE, gen |-> FALSE]
  /\ UNCHANGED <<fifo, faults, forced>>

Next ==
  \/ sensor_manager_init \/ sensor_manager_deinit \/ Restart
  \/ \E op \in ImuOps : ImuCall(op)
  \/ WorkTick \/ CloseEarly \/ RaiseFlags \/ ForceSleep
  \/ \E w \in Workers : Receive(w) \/ Handler(w)

Spec == Init /\ [][Next]_svars

-----------------------------------------------------------------------------
(* Properties                                                              *)

\* Every variable has its type; the work queue and the sensor's queue stay
\* in their bounds and the percentage is one.
TypeOK ==
  /\ up \in BOOLEAN /\ window \in BOOLEAN /\ tick \in 0..(SensorEvery - 1)
  /\ queue \in Seq(Kinds) /\ Len(queue) <= QueueLen
  /\ task \in [Workers -> [pc : {"idle"} \cup ImuPC \cup BmpPC \cup BatPC, len : 0..Buffer,
                           polls : 0..(MaxPolls - 1), flag : BOOLEAN]]
  /\ imu \in ImuState /\ fifo \in 0..Depth /\ elements \in 0..History
  /\ bmp \in [bus : BOOLEAN, cal : BOOLEAN]
  /\ battery \in [divider : BOOLEAN, first_run : BOOLEAN, pct : 0..100, mv : Nat]
  /\ crash \in BOOLEAN /\ faults \in 0..MaxFaults /\ forced \in 0..MaxForced
  /\ late \in BOOLEAN /\ leftover \in BOOLEAN /\ killed \subseteq {"locked", "divider", "reading", "timeout"}
  /\ wanted \in [aen : BOOLEAN, gen : BOOLEAN]

\* Work goes on in a window only, and a worker that waits has no locals.
TasksInWindow ==
  /\ window => up
  /\ \A w \in Workers : At(w) = "idle" => task[w] = Idle
  /\ ~window => /\ \A w \in Workers : At(w) = "idle"
                /\ queue = <<>> \/ leftover

\* An item of each kind is queued or in the hands of a worker, once.
KindOf(pc) == IF pc \in ImuPC THEN "imu" ELSE IF pc \in BmpPC THEN "bmp" ELSE "battery"
Busy(w) == At(w) # "idle"
OneOfAKind ==
  ~leftover =>
    /\ \A i, j \in DOMAIN queue : queue[i] = queue[j] => i = j
    /\ \A i \in DOMAIN queue, w \in Workers : Busy(w) => queue[i] # KindOf(At(w))
    /\ \A v, w \in Workers : Busy(v) /\ Busy(w) /\ KindOf(At(v)) = KindOf(At(w)) => v = w

\* What the sensors give while no bus access has failed: the barometer is calibrated,
\* and a read in time finds one tick's worth of samples.
DataInTime ==
  /\ up => faults > 0 \/ (bmp.bus /\ bmp.cal)
  /\ up /\ ~late => fifo <= 1
  /\ faults = 0 /\ ~late => \A w \in Workers : task[w].len <= 1

\* With the properties below, inductive
SensorsInv == TypeOK /\ TasksInWindow /\ OneOfAKind /\ DataInTime

\* The hardware sleep lock is held exactly by the handlers that wait under
\* it, on every early return of the drivers too: only a worker deleted while
\* it holds the lock keeps the watch from ever sleeping again.
SleepLockBalanced ==
  /\ imu.locks >= Cardinality(Running(Locked))
  /\ "locked" \notin killed => imu.locks = Cardinality(Running(Locked))

\* The watch restarts in a sensor handler only when a bus access failed or a
\* read was not done before the next tick: the detector's assertion, the
\* cleared barometer structure and the missing calibration are not reached
\* otherwise.
CrashHasCause == crash => faults > 0 \/ late

\* Two workers are in process_imu_data at once, sharing imu_fifo and the
\* detector's context, only if an item outlived its window.
ImuExclusive == Cardinality(Running(ImuPC)) > 1 => leftover

\* While no bus access has failed, the enable bits are what the callers asked
\* for whenever the driver is at rest: configuring a detector switches the
\* sensors off and back on as they were.
EnablesAsAsked ==
  up /\ faults = 0 => imu.aen = wanted.aen /\ imu.gen = wanted.gen

\* The sensor goes on queueing samples: its queue is in read mode only while
\* a handler reads it, unless a bus access failed, the handshake timed out or a
\* handler was deleted there.  (Nothing brings back a queue that is empty then: it
\* ends the read.)
SamplesFlow ==
  up /\ imu.fifo = "reading" =>
    Running(ReadMode) # {} \/ faults > 0 \/ killed \cap {"reading", "timeout"} # {}

\* The battery divider is on exactly while a handler samples, unless one was
\* deleted there or two ran at once because an item outlived its window.
DividerOnlySampling ==
  "divider" \notin killed /\ ~leftover =>
    (battery.divider <=> Running({"bat_sample"}) # {})

\* The reported percentage is at most two below the last measurement and
\* never above it, through the hysteresis and restarts of the driver.
ReportNearMeasurement ==
  ~battery.first_run =>
    CurvePct(battery.mv) - battery.pct \in 0..2

\* Whatever read fails and whenever a worker is deleted, what a measurement took is given
\* back unless the cause is on record: the sleep lock, the IMU's queue, the battery's
\* divider (imu_driver.c, bmp180_driver.c, battery_driver.c).
ResourcesReturned == SensorsInv /\ SleepLockBalanced /\ SamplesFlow /\ DividerOnlySampling

\* The devices do what the firmware believes: the IMU is used by one worker at a time
\* unless an item outlived its window, its sensors are enabled as asked while no bus access
\* has failed, and the reported charge is that of the measured voltage up to the hysteresis
\* (sensor_manager.c, imu_driver.c, battery_driver.c).
DevicesTruthful == ImuExclusive /\ EnablesAsAsked /\ ReportNearMeasurement

=============================================================================
