---------------------------- MODULE MCBleSession -----------------------------
(***************************************************************************)
(* BleSession with three transfers: two chunks, with the checksum split    *)
(* over two messages; a single message; and one whose header announces     *)
(* more bytes than its chunks bring.                                       *)
(***************************************************************************)
EXTENDS BleSession

Crc12 == CrcBytes(<<1, 2, 3>>)

MCTransfers ==
  <<[good |-> TRUE, data |-> <<1, 2, 3>>,
     msgs |-> <<<<185, 9, 2, 0, 3, 0, 1, 2>>,
                <<1, 3, Crc12[1], Crc12[2]>>,
                <<Crc12[3], Crc12[4]>>>>],
    [good |-> TRUE, data |-> <<1>>,
     msgs |-> <<<<185, 9, 1, 0, 1, 0, 1>> \o CrcBytes(<<1>>)>>],
    [good |-> FALSE, data |-> <<>>,
     msgs |-> <<<<185, 9, 3, 0, 4, 0, 1, 2>>, <<1, 3>>>>]>>

=============================================================================
