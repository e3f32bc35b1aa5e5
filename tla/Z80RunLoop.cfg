\* The real lines in their order, an instruction of one cycle or of two, half
\* lines of four or of five, and a CPDR of a whole line.
CONSTANTS
  LastNtsc = 8
  LastPal = 9
  ExitLine = 1
  Bottom212 = 2
  VBlank <- MCVBlank
  CoincidenceEnd <- MCCoincidenceEnd
  HLines = {2, 7}
  Cycles = {1, 2}
  MaxCycles = 2
  Scans = {9}
  MaxBehind = 4
  HRefresh = {4}
  HPeriod = 9
SPECIFICATION MCFairSpec
INVARIANTS
  IrqLines
  OnTime
  FrameShape
PROPERTIES
  CyclesKept
  ShadowOfEI
  IrqServed
