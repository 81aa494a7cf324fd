SPECIFICATION FairSpec
CONSTANTS
  PstrLength = 1
  ReservedLength = 1
  HashLength = 2
  IdLength = 2
  Pstrlen = 9
  Bytes <- MCBytes
  Zero = 0
  Exchanges <- MCExchanges
  Ids <- MCIds
  Starts <- MCStarts
INVARIANTS
  TypeOK
  BytesInOrder
  ConnectedKnowsPeer
  EndsAsDemanded
  NeverStuck
PROPERTIES
  EveryCallbackCounts
  ExchangeEnds
CHECK_DEADLOCK FALSE
