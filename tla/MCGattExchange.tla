--------------------------- MODULE MCGattExchange ---------------------------
(***************************************************************************)
(* Every board (16 sets of sensors, both builds), every batch size.  The   *)
(* sequence space is that of the program; timestamps wrap at 10^6 instead  *)
(* of 2^32, which TLC's integers do not hold.                              *)
(***************************************************************************)
EXTENDS GattExchange

MCFirstSequences == {0, 65529, 65533, 65535}
MCFirstTimes ==
  {0, TimeModulus - 8 * 38, TimeModulus - 1 - 7 * 38, TimeModulus - 3 * 38, TimeModulus - 1}
MCConfigStreams == {1, 10, 12, 13}
MCConfigValues ==
  {-1, 0, 1, 4, 5, 9, 10, 19, 20, 260, 261, 1000, 1001, 10000, 10001, 13000, 13001, 65536}

=============================================================================
