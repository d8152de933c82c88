SPECIFICATION Spec
CONSTANTS
  SeqModulus = 65536
  TimeModulus = 1000000
  FirstSequences <- MCFirstSequences
  FirstTimes <- MCFirstTimes
  ConfigStreams <- MCConfigStreams
  ConfigValues <- MCConfigValues
INVARIANTS
  TypeOK
  FramesReadAsMeasured
  SamplesShownAsMeasured
  CapabilityListsPresentStreams
  StatusReadsBack
  ConfigsAgree
  CommandsArriveAsMeant
