SPECIFICATION CSpec
CONSTANTS
  Key = {k1, k2, k3}
  Value = {v1}
  NoEntry = NoEntry
  Capacity = 2
  TTL = {0, 1}
  MaxTime = 3
  Purger = {p1}
  Cleaner = {g1, g2}
  NoChannel = NoChannel
INVARIANTS CTypeOK Coherent ChannelsTracked CleanerAlive OneSweeper
PROPERTIES EvictsOldest ActsAsTTLCache
SYMMETRY Symmetry
