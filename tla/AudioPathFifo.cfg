\* Small rings: indexes wrap, the rings fill up and run dry.
CONSTANTS
  SndRingSize = 2
  IndexRange = 6
  DviRingSize = 3
  FrameSamples = 3
  Chunk = 2
  SamplesPerLine = 2
  One = 1
  TimerLines = 2
  VerticalRepeat = 1
  FbHeight = 3
  FrontPorch = 1
  SyncWidth = 1
  BackPorch = 1
  Names = 6
  Silence = Silence
SPECIFICATION FairSpec
INVARIANTS
  TypeOK
  FillsFreeSlots
  ReadsPublished
  NothingCutShort
PROPERTIES
  FairFifo
