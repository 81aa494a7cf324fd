CONSTANTS
  Size = 3
  Values = {a, b}
  N = 2
  Entries = {a, b}
SPECIFICATION DiscoveriesSpec
INVARIANTS
  TypeOK
  NoRaceOnSlot
  CacheTypeOK
PROPERTIES
  ImplementsFifo
  KeepsNewest
  DrainKeepsOrder
