\* Two banks of a generic 16kB cartridge.
CONSTANTS
  Setups <- Generic16Setups
  RamPages = 4
  Addresses <- PairedAddresses
  Data = {1, 2}
  SlotValues <- PairedSlots
  SubslotValues <- MixedSubslots
  MapperPages = {}
SPECIFICATION Spec
INVARIANTS
  WholeBanks
