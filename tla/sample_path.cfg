SPECIFICATION Spec
CONSTANTS
  SeqSpace = 4
  Streams <- MCStreams
  SampleSize <- MCSampleSize
  MaxBatch <- MCMaxBatch
  MaxPayload <- MCMaxPayload
  BatchedStreams <- MCBatchedStreams
  Ready <- MCReady
  Commands <- MCCommands
  Configs = {}
  DefaultConfig <- MCDefaultConfig
  DefaultParams <- MCDefaultParams
  BadWrites = {}
  HostMayRefuse = TRUE
  MaxTicks <- MCMaxTicks
  MaxWrites = 3
  MaxConnections = 1
INVARIANTS
  TypeOK
  BatchConsistent
  ActiveBatchWillFlush
  NotifiedDecodable
  PipelineFifo
PROPERTIES
  ImplementsChannel
