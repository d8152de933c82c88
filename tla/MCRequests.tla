----------------------------- MODULE MCRequests -----------------------------
(***************************************************************************)
(* Two web clients that set the filter at the same time, with a gain the   *)
(* device would refuse and a negative one among them; the shell; the two   *)
(* smoke scripts; one connection lost and made again.                      *)
(***************************************************************************)
EXTENDS Requests, Integers

MCStreams == {"dummy", "imu6", "orientation"}
MCBatched == {"imu6", "orientation"}
MCSampleSize == [dummy |-> 6, imu6 |-> 12, orientation |-> 28]
MCMaxBatch == [dummy |-> 1, imu6 |-> 8, orientation |-> 4]

MCReady == {"lsm6dsl"}
MCParams ==
  [SET_STREAM_INTERVAL |-> 100, SET_COMPLEMENTARY_ALPHA |-> 980, SET_MAHONY_KP |-> 500,
   SET_MAHONY_KI |-> 0, SET_IIR_CUTOFF_MILLIHZ |-> 2000, SET_GYRO_CALIB_THRESHOLD |-> 100,
   SET_GYRO_CALIB_ALPHA |-> 50, SET_GYRO_CALIB_WINDOW |-> 52]
MCDefaultConfig == [op |-> "SET_STREAM_INTERVAL", value |-> 100]
NoTicks == [s \in {"dummy", "lsm6dsl"} |-> 0]

MCWebRequests ==
  { SetOrientationFilterParams(1000, 10000, 10000, 13000),
    SetOrientationFilterParams(500, 20000, 30, 2500),
    SetGyroCalibParams(200, -60, 260), << Poll >> }

MCShellRequests ==
  { SetStreamInterval(1, 500), SetStreamInterval(1, 10), SetStreamInterval(10, 500),
    WriteCommand("START_MEASUREMENT"), WriteCommand("RESET_SEQUENCE"),
    << Notify(TRUE) >>, RequestStatus, << BadInput >>, << Unparsed >> }

MCScripts == [e2e |-> E2ESmoke, negative |-> NegativeSmoke]

\* What of it the device accepts.
Values(op, values) == [op : {op}, value : values]
MCConfigs ==
  UNION { Values("SET_STREAM_INTERVAL", {100, 500}),
          Values("SET_COMPLEMENTARY_ALPHA", {1000, 500, 970}),
          Values("SET_MAHONY_KP", {10000, 600}), Values("SET_MAHONY_KI", {10000, 20, 30}),
          Values("SET_IIR_CUTOFF_MILLIHZ", {13000, 2500}),
          Values("SET_GYRO_CALIB_THRESHOLD", {200}),
          Values("SET_GYRO_CALIB_WINDOW", {260}) }

=============================================================================
