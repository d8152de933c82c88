----------------------------- MODULE MCEndToEnd -----------------------------
(***************************************************************************)
(* EndToEnd on a board with an LSM6DSL whose dummy sensor never fires: two *)
(* batched streams share a sequence.  Batches hold two samples.            *)
(***************************************************************************)
EXTENDS EndToEnd

MCReady == {"lsm6dsl"}
MCStreams == {"dummy", "imu6", "orientation"}
MCBatchedStreams == {"imu6", "orientation"}
MCSampleSize == [dummy |-> 6, imu6 |-> 12, orientation |-> 28]
MCMaxBatch == [dummy |-> 1, imu6 |-> 2, orientation |-> 2]
MCMaxPayload == 56
MCDefaultParams == [SET_STREAM_INTERVAL |-> 100]
MCDefaultConfig == [op |-> "SET_STREAM_INTERVAL", value |-> 100]
MCMeasureReset == {"START_MEASUREMENT", "STOP_MEASUREMENT", "RESET_SEQUENCE"}
\* Four readings pass the wrap of three numbers.
MCMaxTicks == [dummy |-> 0, lsm6dsl |-> 4]
MCMaxTicksTwoLinks == [dummy |-> 0, lsm6dsl |-> 2]
=============================================================================
