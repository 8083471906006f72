---------------------------- MODULE MCPhoneData ------------------------------
(***************************************************************************)
(* PhoneData with a list of three notifications, two of them on a page,    *)
(* and three dates with two requests under way.                            *)
(***************************************************************************)
EXTENDS PhoneData

\* Bound: notifications and applications share nothing but the place on the
\* screen, so states in which both are busy are not explored.
NotBothBusy ==
  \/ ~nui.open /\ list = <<>> /\ slot = NoNote
  \/ app = NoApp /\ ~UnderWay

MCPayloads ==
  {[len |-> 7, title |-> 2, body |-> 2], [len |-> 7, title |-> 4, body |-> 1],
   [len |-> 4, title |-> 0, body |-> 0]}

=============================================================================
