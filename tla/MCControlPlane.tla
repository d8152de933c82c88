--------------------------- MODULE MCControlPlane ---------------------------
(***************************************************************************)
(* Firmware on a board whose HTS221 answers and whose other optional       *)
(* sensors do not: the control plane, every command, two config            *)
(* parameters, rejected writes and reconnections.  Nothing is batched, as  *)
(* in a CONFIG_BSL_LATENCY_PRIORITY build.                                 *)
(***************************************************************************)
EXTENDS Firmware

MCReady == {"hts221"}
MCStreams == {"dummy", "hts221"}
MCBatchedStreams == {}
MCSampleSize == [dummy |-> 6, hts221 |-> 4]
MCMaxBatch == [dummy |-> 1, hts221 |-> 1]
MCMaxPayload == 28
MCDefaultParams == [SET_STREAM_INTERVAL |-> 100, SET_MAHONY_KP |-> 500]
MCDefaultConfig == [op |-> "SET_STREAM_INTERVAL", value |-> 100]
MCConfigs == { [op |-> "SET_STREAM_INTERVAL", value |-> 20],
               [op |-> "SET_STREAM_INTERVAL", value |-> 100],
               [op |-> "SET_MAHONY_KP", value |-> 0] }
MCMaxTicks == [dummy |-> 1, hts221 |-> 1]
=============================================================================
