SPECIFICATION EndToEndSpec
CONSTANTS
  SeqSpace = 3
  Streams <- MCStreams
  SampleSize <- MCSampleSize
  MaxBatch <- MCMaxBatch
  MaxPayload <- MCMaxPayload
  BatchedStreams <- MCBatchedStreams
  Ready <- MCReady
  Commands <- MCMeasureReset
  Configs = {}
  DefaultConfig <- MCDefaultConfig
  DefaultParams <- MCDefaultParams
  BadWrites = {}
  HostMayRefuse = TRUE
  MaxTicks <- MCMaxTicksTwoLinks
  MaxWrites = 4
  MaxConnections = 2
  NoSequence = NoSequence
  PatientReset = TRUE
INVARIANTS
  MissedIsLost
