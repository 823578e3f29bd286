SPECIFICATION Spec
CONSTANTS
  Order <- MixedOrders
  NoOrder = NoOrder
  NilUid = noUid
  noUid = noUid
  u1 = u1
  u2 = u2
  a = a
  b = b
  Caller = {c1, c2}
  Main = main
  FaultErrors <- TxFaults
  Hazards <- CrashOnly
INVARIANTS
  TypeOK OrderAtomic KeysUnique CacheMirrorsDB AckedStored ServedWhole FoundIfKnown ConflictReal
PROPERTIES
  StoredForever KeepsPromise
SYMMETRY Callers
