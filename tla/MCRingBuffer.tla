---------------------------- MODULE MCRingBuffer ----------------------------
(***************************************************************************)
(* RingBuffer with three slots: the smallest capacity at which the two     *)
(* indices can be different, equal, and wrapped separately.                *)
(***************************************************************************)
EXTENDS RingBuffer

=============================================================================
