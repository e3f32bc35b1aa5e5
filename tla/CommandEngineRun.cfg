\* A page of 3 by 4, slices of two to four pixels: every command is cut at every pixel.
CONSTANTS
  Width = 3
  Height = 4
  Slice = 5
  Deltas = {1, 2}
  Operands <- MCOperands
  Picture <- MCPicture
SPECIFICATION FairSpec
INVARIANTS
  Busy
  Outcome
  RegistersLeft
PROPERTY
  Finishes
