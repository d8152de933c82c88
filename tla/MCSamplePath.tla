---------------------------- MODULE MCSamplePath ----------------------------
(***************************************************************************)
(* Firmware with an LSM6DSL (two batched streams, one sequence) and the    *)
(* dummy sensor: the path of the samples.  The sequence space is 4, so     *)
(* that numbers wrap within a run; sizes keep the ratio of protocol.h,     *)
(* where the largest orientation batch fills the payload exactly.          *)
(***************************************************************************)
EXTENDS Firmware

MCReady == {"lsm6dsl"}
MCStreams == {"dummy", "imu6", "orientation"}
MCBatchedStreams == {"imu6", "orientation"}
MCSampleSize == [dummy |-> 6, imu6 |-> 12, orientation |-> 28]
MCMaxBatch == [dummy |-> 1, imu6 |-> 3, orientation |-> 2]
MCMaxPayload == 56
MCCommands == {"START_MEASUREMENT", "STOP_MEASUREMENT", "RESET_SEQUENCE"}
MCDefaultParams == [SET_STREAM_INTERVAL |-> 100]
MCDefaultConfig == [op |-> "SET_STREAM_INTERVAL", value |-> 100]
MCMaxTicks == [dummy |-> 1, lsm6dsl |-> 5]
MCTwoTicks == [dummy |-> 1, lsm6dsl |-> 2]
=============================================================================
