--------------------------- MODULE MCStepDetector ---------------------------
(***************************************************************************)
(* StepDetector with a history of six samples of three levels.  A level 3  *)
(* peak is clearly prominent, a level 2 peak only just a peak; the history *)
(* holds two peaks that are a step apart.                                  *)
(***************************************************************************)
EXTENDS StepDetector

MCGrades == {Skipped, 60, 72, 76}

=============================================================================
