\* A byte address 2 is also the block address of the third sector.
CONSTANTS
  Kinds = {"mmc", "v1", "v2", "hc"}
  Size = 4
  BlockSize = 2
  MaxCount = 3
SPECIFICATION FairSpec
INVARIANTS
  Transferred
  Closed
PROPERTY
  Returns
