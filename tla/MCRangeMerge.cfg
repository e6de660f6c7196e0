SPECIFICATION Spec
CONSTANTS
  Base = 2
  Slots <- SomeSlots
  Nullifiers <- SomeNullifiers
  Value = Value
  Tombstone = Tombstone
INVARIANT ScanExact
INVARIANT LookupsExact
PROPERTY ScanEnds
