SPECIFICATION FairSpec
CONSTANTS
  SeqSpace = 4
  Streams <- MCStreams
  SampleSize <- MCSampleSize
  MaxBatch <- MCMaxBatch
  MaxPayload <- MCMaxPayload
  BatchedStreams <- MCBatchedStreams
  Ready <- MCReady
  Commands <- MCCommands
  Configs = {}
  DefaultConfig <- MCDefaultConfig
  DefaultParams <- MCDefaultParams
  BadWrites = {}
  HostMayRefuse = FALSE
  MaxTicks <- MCTwoTicks
  MaxWrites = 2
  MaxConnections = 2
INVARIANTS
  QuietWhenDisconnected
PROPERTIES
  NoLossWhileSubscribed
  EverySampleSettles
