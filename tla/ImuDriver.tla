----------------------------- MODULE ImuDriver ------------------------------
(***************************************************************************)
(* The driver of the motion sensor (imu_driver.c).  An operation is a      *)
(* sequence of bus accesses, each of which may fail; it returns at the     *)
(* first failure and leaves behind what it has written so far.  It is      *)
(* modelled as the set of its outcomes: the sensor afterwards, and whether *)
(* the operation returned IMU_OK.                                          *)
(*                                                                         *)
(* The sensor is a record: aen and gen, the enable bits of CTRL7; fifo,    *)
(* the mode of its queue; locks, how often the hardware sleep lock is      *)
(* taken.  The other registers (ranges, detector parameters and the enable *)
(* bits of the detectors) only matter as accesses that may fail.           *)
(***************************************************************************)
EXTENDS Integers

ImuState ==
  [aen : BOOLEAN, gen : BOOLEAN,
   fifo : {"bypass", "stream", "reading"}, locks : Int]

\* After a reset nothing is enabled and samples are not queued.
ResetState(i) ==
  [i EXCEPT !.aen = FALSE, !.gen = FALSE, !.fifo = "bypass"]

-----------------------------------------------------------------------------
(* Bus accesses, and how an operation is put together of them              *)

\* A write of a register: it changes the sensor to after, or fails.
Write(i, after) == {[imu |-> after, ok |-> TRUE], [imu |-> i, ok |-> FALSE]}

\* A read, or a write of a register that is not part of the state
Access(i) == Write(i, i)

\* if(success != IMU_OK) return success; then the rest
Then(outcomes, Rest(_)) ==
  {o \in outcomes : ~o.ok} \cup UNION {Rest(o.imu) : o \in {p \in outcomes : p.ok}}

\* WITH_SLEEP_LOCK() { ... }: left at the end of the block, and by an early
\* return that calls sleep_lock_service_release_lock first.
WithSleepLock(i, Body(_)) ==
  {[o EXCEPT !.imu.locks = @ - 1] : o \in Body([i EXCEPT !.locks = @ + 1])}

\* The command register: the command, then polling until the sensor is done
\* and has seen the acknowledgement, or until 120 ms have passed.
ctrl9_handshake(i) ==
  Then(Access(i), LAMBDA j : WithSleepLock(j, Access))

\* One register write after the other, under the sleep lock.
execute_sequential_cmds(i, first, rest) ==
  WithSleepLock(i, LAMBDA j :
    Then(Write(j, [first EXCEPT !.locks = j.locks]), LAMBDA k :
      Then(Access(k), LAMBDA l : Write(l, [rest EXCEPT !.locks = l.locks]))))

-----------------------------------------------------------------------------
(* Operations                                                              *)

imu_reset(i) ==
  WithSleepLock(i, LAMBDA j : Then(Write(j, ResetState(j)), Access))

\* Queue in stream mode, then the accelerometer on
init_cmds(i) ==
  execute_sequential_cmds(i, [i EXCEPT !.fifo = "stream"],
                             [i EXCEPT !.fifo = "stream", !.aen = TRUE, !.gen = FALSE])

\* esp32_imu_init aborts when the bus cannot be set up.  Then reset,
\* identity and the commands.
imu_init(i) ==
  Then(imu_reset(i), LAMBDA j : Then(Access(j), init_cmds))

imu_enable_accelerometer(i) ==
  WithSleepLock(i, LAMBDA j : Then(Access(j), LAMBDA k : Write(k, [k EXCEPT !.aen = TRUE])))
imu_disable_accelerometer(i) ==
  WithSleepLock(i, LAMBDA j : Then(Access(j), LAMBDA k : Write(k, [k EXCEPT !.aen = FALSE])))
imu_enable_gyro(i) ==
  WithSleepLock(i, LAMBDA j : Then(Access(j), LAMBDA k : Write(k, [k EXCEPT !.gen = TRUE])))
imu_disable_gyro(i) ==
  WithSleepLock(i, LAMBDA j : Then(Access(j), LAMBDA k : Write(k, [k EXCEPT !.gen = FALSE])))

imu_enter_high_accuracy_mode(i) ==
  execute_sequential_cmds(i, [i EXCEPT !.aen = FALSE, !.gen = FALSE],
                             [i EXCEPT !.aen = TRUE, !.gen = TRUE])
imu_enter_low_power_accel_only_mode(i) ==
  execute_sequential_cmds(i, [i EXCEPT !.aen = FALSE, !.gen = FALSE],
                             [i EXCEPT !.aen = TRUE, !.gen = FALSE])

imu_enter_low_power_mode(i) ==
  Then(Access(i), LAMBDA j : Write(j, [j EXCEPT !.aen = FALSE, !.gen = FALSE]))

\* Switch on again what was on when CTRL7 was read.
RestoreEnables(i, was) ==
  Then(IF was.aen THEN imu_enable_accelerometer(i) ELSE {[imu |-> i, ok |-> TRUE]},
       LAMBDA j : IF was.gen THEN imu_enable_gyro(j) ELSE {[imu |-> j, ok |-> TRUE]})

\* Mutant: the enable bits are read when the sensors are already off.
ConfigureLate(i) ==
  Then(imu_enter_low_power_mode(i), LAMBDA j :
    Then(ctrl9_handshake(j), LAMBDA k : RestoreEnables(k, j)))

\* The way every detector is configured: remember what is on, switch it off,
\* write the parameters, hand them over with the handshake, switch on again.
ConfigureDetector(i) ==
  Then(Access(i), LAMBDA j :
    Then(imu_enter_low_power_mode(j), LAMBDA k :
      Then(Access(k), LAMBDA l :
        Then(ctrl9_handshake(l), LAMBDA n : RestoreEnables(n, j)))))

imu_setup_wake_on_motion(i) == ConfigureDetector(i)

\* STATUS1 is read first, which clears a pending interrupt.
imu_disable_wake_on_motion(i) == Then(Access(i), ConfigureDetector)

\* The parameters take two handshakes; the detector is enabled in CTRL8
\* before the sensors are switched on again ...
imu_setup_detect_no_motion(i) ==
  Then(Access(i), LAMBDA j :
    Then(imu_enter_low_power_mode(j), LAMBDA k :
      Then(ctrl9_handshake(k), LAMBDA l :
        Then(ctrl9_handshake(l), LAMBDA n :
          Then(Access(n), LAMBDA p : RestoreEnables(p, j))))))

\* ... and by the pedometer afterwards, under the sleep lock.
imu_enable_pedometer(i) ==
  Then(Access(i), LAMBDA j :
    Then(imu_enter_low_power_mode(j), LAMBDA k :
      Then(ctrl9_handshake(k), LAMBDA l :
        Then(ctrl9_handshake(l), LAMBDA n :
          Then(RestoreEnables(n, j), LAMBDA p : WithSleepLock(p, Access))))))

imu_disable_detect_no_motion(i) == Then(Access(i), Access)
imu_disable_pedometer(i) == Then(Access(i), Access)
imu_reset_pedometer(i) == ctrl9_handshake(i)

imu_reset_fifo_buffer(i) ==
  Then(Access(i), LAMBDA j : Then(ctrl9_handshake(j), Access))

=============================================================================
