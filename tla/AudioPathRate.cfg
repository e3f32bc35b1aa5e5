\* All samples alike; one and a half samples a line, as 44100 Hz at 30000 lines a second, and a
\* ring of a few refill periods.
CONSTANTS
  SndRingSize = 1
  IndexRange = 2
  DviRingSize = 24
  FrameSamples = 1
  Chunk = 1
  SamplesPerLine = 3
  One = 2
  TimerLines = 3
  VerticalRepeat = 1
  FbHeight = 3
  FrontPorch = 4
  SyncWidth = 1
  BackPorch = 1
  Names = 1
  Silence = 0
SPECIFICATION MCSpec
INVARIANTS
  PositionBounded
  NeverDry
