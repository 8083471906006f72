---------------------------- MODULE MCLifecycle ------------------------------
(***************************************************************************)
(* Lifecycle with two valid values of a setting, two system workers, two   *)
(* IR messages and an image of two blocks, the second shorter.             *)
(***************************************************************************)
EXTENDS Lifecycle

MCImage == <<2, 1>>

IrPlain ==
  /\ ir.queue \in {<<>>, <<"poison">>} /\ ir.copies = 0 /\ sender = "idle"
  /\ ~irSeen.late /\ ~irSeen.forced
  /\ irTask \in {"receive", "exit"} \/ main \in {"off", "confirm"} \/ irStop # "none"

\* One setting at a time, and none once the workers have ended.
SettingPlain(k) == ram[k] = Default /\ nvs[k] = Default /\ k \notin unsure /\ ~PendingFor(k)
StoragePlain == \A k \in Keys : SettingPlain(k)
StorageBounded ==
  /\ \E k \in Keys : SettingPlain(k)
  /\ StoragePlain \/ WorkersRun \/ main \in {"off", "runtime_tick"}

WalkPlain == walk.step = "none"
UpdatePlain == main # "update" /\ flash.run = 0 /\ flash.state = "valid"

Count(p) == IF p THEN 1 ELSE 0

\* Bound: the IR driver, the settings, the subscribers, the lock of the IMU's
\* worker and the update share nothing but the order in which they are started
\* and stopped, so at most one of the five is followed away from its plain
\* state at a time.
OneBusy ==
  /\ Count(IrPlain) + Count(StoragePlain) + Count(WalkPlain) + Count(~imu) + Count(UpdatePlain) >= 4
  /\ StorageBounded

=============================================================================
