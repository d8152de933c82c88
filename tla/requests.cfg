SPECIFICATION RequestsSpec
CONSTANTS
  SeqSpace = 65536
  Streams <- MCStreams
  SampleSize <- MCSampleSize
  MaxBatch <- MCMaxBatch
  MaxPayload = 112
  BatchedStreams <- MCBatched
  Ready <- MCReady
  Commands <- AllCommands
  Configs <- MCConfigs
  DefaultConfig <- MCDefaultConfig
  DefaultParams <- MCParams
  BadWrites <- WriteErrors
  HostMayRefuse = FALSE
  MaxTicks <- NoTicks
  MaxWrites = 99
  MaxConnections = 2
  Frontends = {"web", "shell", "e2e", "negative"}
  Clients = {c1, c2}
  Main = c1
  WebRequests <- MCWebRequests
  ShellRequests <- MCShellRequests
  Scripts <- MCScripts
  MaxRequests = 2
  MaxLag = 2
INVARIANTS
  RequestsTypeOK
  MixtureIsExplained
  AnsweredIsExecuted
  ErrorsAreExplained
PROPERTIES
  RequestsEnd
CHECK_DEADLOCK FALSE
