----------------------------- MODULE MCSensors ------------------------------
(***************************************************************************)
(* Sensors with two workers, a sensor tick on every second work tick, and  *)
(* a history of two ticks' worth of samples.  3740 and 3748 mV are 42      *)
(* and 44 percent, which the hysteresis tells apart from 42 and 45.        *)
(***************************************************************************)
EXTENDS Sensors, TLC

Symmetry == Permutations(Workers)

\* A failed bus access, a window closed by force, or a queue left in read mode by a
\* handshake that timed out: one of them.
OneCause == faults + forced + Cardinality(killed \cap {"timeout"}) <= 1

MCImuOps == DriverOps

=============================================================================
