SPECIFICATION Spec
CONSTANTS
  Key = {k1, k2, k3}
  Value = {v1, v2}
  NoEntry = NoEntry
  Capacity = 2
  TTL = {0, 1}
  MaxTime = 3
  Purger = {p1}
PROPERTIES PurgesOldestFirst
