CONSTANTS
  CounterBits = 4
  MaxFaults = 2
  Assets = {1, 2, 3, 4, 5}
  AssetSize <- MCAssetSize
  AssetWords = 12
  PerFrame = 2
  Frames = 3
  Entries = 2
  Events = 11
  Batch = 2
SPECIFICATION UringSpec
INVARIANT SubmissionsFit
CHECK_DEADLOCK FALSE
