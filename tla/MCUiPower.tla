----------------------------- MODULE MCUiPower -----------------------------
(* Values for model checking UiPower. *)
EXTENDS UiPower, TLC

CONSTANTS w1, w2
OneWorker == {w1}
TwoWorkers == {w1, w2}
WorkerSymmetry == Permutations(TwoWorkers)

=============================================================================
