SPECIFICATION Spec

CONSTANTS
  Ids = {1, 2}
  Frames <- Pictures
  Tables <- Contents
  FrameCacheSize = 2
  HistorySize = 2
  DistThreshold = 1
  ParallelNum = 7
  ParallelDen = 10
  ScaleX = 1
  ScaleY = 2
  LineLimit = 1
  MaxFrames = 4
  MaxEdits = 1
  NoFrame = NoFrame

INVARIANT TypeOK
INVARIANT HistoryIsLatest
INVARIANT TrackedSeenLately
INVARIANT SettingsCurrent
INVARIANT AlertsJustified

CHECK_DEADLOCK FALSE
