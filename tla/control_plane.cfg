SPECIFICATION FairSpec
CONSTANTS
  SeqSpace = 4
  Streams <- MCStreams
  SampleSize <- MCSampleSize
  MaxBatch <- MCMaxBatch
  MaxPayload <- MCMaxPayload
  BatchedStreams <- MCBatchedStreams
  Ready <- MCReady
  Commands <- AllCommands
  Configs <- MCConfigs
  DefaultConfig <- MCDefaultConfig
  DefaultParams <- MCDefaultParams
  BadWrites <- WriteErrors
  HostMayRefuse = TRUE
  MaxTicks <- MCMaxTicks
  MaxWrites = 3
  MaxConnections = 2
INVARIANTS
  ServedStateIsReal
  ServedConfigIsApplied
  ServedCountIsClose
  IdleRadioIsScheduled
PROPERTIES
  RadioRecovers
  SensorsStop
