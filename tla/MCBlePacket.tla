----------------------------- MODULE MCBlePacket -----------------------------
(***************************************************************************)
(* BlePacket with an empty message, one that is fragmented, and one whose  *)
(* payload looks like a header.                                            *)
(***************************************************************************)
EXTENDS BlePacket

MCMagic == 9
Empty == [op |-> 1, payload |-> <<>>]
Long == [op |-> 2, payload |-> <<5, 6, 7>>]
Lookalike == [op |-> 3, payload |-> <<5, MCMagic, 4, 0, 0>>]
AllMessages == {Empty, Long, Lookalike}
=============================================================================
