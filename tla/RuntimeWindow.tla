--------------------------- MODULE RuntimeWindow ----------------------------
(***************************************************************************)
(* What the runtime manager promises to the components that hand it system *)
(* work (storage, sensors, alarms), with no tasks, queues, timers or lock: *)
(* work completes only inside windows, a window goes from active to grace  *)
(* to closed, and accepted work is lost only by the closing of a window or *)
(* by shutting down.  RuntimeManager implements this specification.        *)
(***************************************************************************)
CONSTANT Work

VARIABLES phase, fate

Open == {"UI_ACTIVE", "BACKGROUND_ACTIVE"}
Phase == Open \cup {"SLEEP", "GRACE_PERIOD", "CLOSING", "OFF"}

TypeOK ==
  /\ phase \in Phase
  /\ fate \in [Work -> {"new", "live", "done", "lost"}]

Init ==
  /\ phase = "SLEEP"
  /\ fate = [i \in Work |-> "new"]

\* Some of the live items are lost.
MayLose ==
  \A i \in Work : fate'[i] = fate[i] \/ (fate[i] = "live" /\ fate'[i] = "lost")

OpenWindow ==
  /\ phase = "SLEEP" /\ phase' \in Open
  /\ UNCHANGED fate

Curfew ==
  /\ phase \in Open /\ phase' = "GRACE_PERIOD"
  /\ UNCHANGED fate

BeginClose ==
  /\ phase \in Open \cup {"GRACE_PERIOD"} /\ phase' = "CLOSING"
  /\ fate' \in [Work -> {"new", "live", "done", "lost"}] /\ MayLose

\* Handlers still running are killed while the window closes.
Kill ==
  /\ phase = "CLOSING" /\ UNCHANGED phase
  /\ fate' \in [Work -> {"new", "live", "done", "lost"}] /\ MayLose

EndClose ==
  /\ phase = "CLOSING" /\ phase' = "SLEEP"
  /\ UNCHANGED fate

\* schedule_system_work returns true; a call that collides with the closing of a
\* window may return true for work that is dropped.
Accept(i) ==
  /\ phase # "OFF" /\ fate[i] = "new"
  /\ \/ fate' = [fate EXCEPT ![i] = "live"]
     \/ phase = "CLOSING" /\ fate' = [fate EXCEPT ![i] = "lost"]
  /\ UNCHANGED phase

\* A handler returns.
Complete(i) ==
  /\ phase \notin {"SLEEP", "OFF"} /\ fate[i] = "live"
  /\ fate' = [fate EXCEPT ![i] = "done"]
  /\ UNCHANGED phase

ShutDown ==
  /\ phase' = "OFF"
  /\ fate' \in [Work -> {"new", "live", "done", "lost"}] /\ MayLose

Next ==
  \/ OpenWindow \/ Curfew \/ BeginClose \/ Kill \/ EndClose \/ ShutDown
  \/ \E i \in Work : Accept(i) \/ Complete(i)

Spec == Init /\ [][Next]_<<phase, fate>>
=============================================================================
