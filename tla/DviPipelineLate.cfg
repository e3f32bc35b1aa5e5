\* A slow encoder, up to four rows late in each frame, and one buffer fewer than display_backend_init
\* asks for: the encoder is always after the one being sent.
CONSTANTS
  BufferCount = 2
  QueueCapacity = 8
  VerticalRepeat = 2
  FbHeight = 9
  FrontPorch = 3
  SyncWidth = 2
  BackPorch = 6
  EncodeIrqs = 3
SPECIFICATION FairSpec
INVARIANTS
  TypeOK
  BufferOwners
  NoHang
  LinesAccounted
  ScanOutIntact
PROPERTIES
  FairRaster
  CatchesUp
