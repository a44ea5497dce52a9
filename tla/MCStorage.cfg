SPECIFICATION StorageSpec
CONSTANTS
  CounterBits = 4
  MaxFaults = 2
  Assets = {1, 2, 3, 4, 5}
  AssetSize <- MCAssetSize
  AssetWords = 12
  PerFrame = 2
  Frames = 3
  Entries = 2
  Events = 11
  Batch = 2
  Keys = {1, 2}
  Values = {1}
  Nil = 0
  StreamLen = 5
  Streams <- MCStreams
  CpEvery = 2
  MaxCrashes = 2
  Hash <- MCHash
  Digest <- MCDigest
  ChainStep <- MCChainStep
  Genesis = 3
INVARIANTS
  LoaderSafe
  OneShortCallFits
  CapsuleIsPrefix
  CrashConsistent
PROPERTIES
  LoopsEnd
  RecoveryEnds
CHECK_DEADLOCK FALSE
