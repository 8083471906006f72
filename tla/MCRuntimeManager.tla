-------------------------- MODULE MCRuntimeManager --------------------------
(***************************************************************************)
(* RuntimeManager on a small pool: a worker of each type, one or two items *)
(* and hooks.                                                              *)
(***************************************************************************)
EXTENDS RuntimeManager, TLC

\* The items of the system pool are interchangeable.
ItemSymmetry == Permutations(SystemItems)

\* Bound: a second system item is scheduled only without user work and without a task
\* that outruns its deletion.
SecondItemAlone ==
  (\A i \in SystemItems : fate[i] # "new") =>
    overrun = 0 /\ \A i \in UserItems : fate[i] = "new"

=============================================================================
