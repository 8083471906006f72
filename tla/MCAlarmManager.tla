--------------------------- MODULE MCAlarmManager ---------------------------
(***************************************************************************)
(* The alarm manager and its application, with a list of two alarms and a  *)
(* short day.                                                              *)
(***************************************************************************)
EXTENDS AlarmApp

=============================================================================
