----------------------------- MODULE MCTimeline -----------------------------
(***************************************************************************)
(* Timeline in units of half a sample interval (19 ms): the flush delay is *)
(* 100 ms or 5.3 units.  The device was switched on at 0 or 7 units before *)
(* its uptime wraps.                                                       *)
(***************************************************************************)
EXTENDS Timeline

MCBatched == <<"imu6", "orientation">>
MCMaxBatch == [imu6 |-> 3, orientation |-> 2]
MCBoots == {0, -33}
=============================================================================
