\* The real timing and an encoder that is too slow.
CONSTANTS
  BufferCount = 3
  QueueCapacity = 8
  VerticalRepeat = 2
  FbHeight = 240
  FrontPorch = 10
  SyncWidth = 2
  BackPorch = 33
  EncodeIrqs = 3
SPECIFICATION Spec
INVARIANTS
  NoHang
CHECK_DEADLOCK FALSE
