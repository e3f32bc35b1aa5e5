\* An encoder in time, and a core 0 that looks at the flag once in the 29 lines of a frame.
CONSTANTS
  BufferCount = 3
  QueueCapacity = 8
  VerticalRepeat = 2
  FbHeight = 9
  FrontPorch = 3
  SyncWidth = 2
  BackPorch = 6
  EncodeIrqs = 2
  PollLines = 29
SPECIFICATION PacedFairSpec
INVARIANTS
  NeverLate
PROPERTIES
  FramePaced
  WaitEnds
