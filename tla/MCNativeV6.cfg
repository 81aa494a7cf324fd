CONSTANTS
  s1 = s1  s2 = s2
  e1 = e1  e2 = e2
  NoSlot = NoSlot
  NoKey = NoKey
  Slots = {s1, s2}
  Discoverable = {e1}
  Dialing = {}
  NativeV6 = {e2}
  MaxInbound = 1
  MaxOutbound = 2
  Healthy = 2
  MaxRetries = 2
  CacheSize = 1
  DiscoveryCapacity = 1
  SessionCapacity = 2
  SizeMax = 7
  InitialCount = {0}
  MaxGeneration = 2
SPECIFICATION Spec
INVARIANT
  ReleasedOnce
