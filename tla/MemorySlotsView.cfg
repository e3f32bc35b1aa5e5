\* Every mapper, in either slot; those that do not ask what a page shows are seen in both middle
\* pages or in none.
CONSTANTS
  Setups <- AllSetups
  RamPages = 4
  Addresses <- AllAddresses
  Data = {1, 10, 63, 131}
  SlotValues <- AllSlots
  SubslotValues <- MixedSubslots
  MapperPages = {1, 2}
SPECIFICATION Spec
INVARIANTS
  TypeOK
  View
  WriteProtect
  RegistersShown
  BankShown
  OwnImage
