SPECIFICATION EndToEndSpec
CONSTANTS
  SeqSpace = 3
  Streams <- MCStreams
  SampleSize <- MCSampleSize
  MaxBatch <- MCMaxBatch
  MaxPayload <- MCMaxPayload
  BatchedStreams <- MCBatchedStreams
  Ready <- MCReady
  Commands <- MCMeasureReset
  Configs = {}
  DefaultConfig <- MCDefaultConfig
  DefaultParams <- MCDefaultParams
  BadWrites = {}
  HostMayRefuse = TRUE
  MaxTicks <- MCMaxTicks
  MaxWrites = 3
  MaxConnections = 1
  NoSequence = NoSequence
  PatientReset = TRUE
INVARIANTS
  MissedIsLost
