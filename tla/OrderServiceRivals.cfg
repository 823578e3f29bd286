SPECIFICATION FairSpec
CONSTANTS
  Order <- RivalOrders
  NoOrder = NoOrder
  NilUid = noUid
  noUid = noUid
  u1 = u1
  u2 = u2
  a = a
  b = b
  Caller = {c1, c2}
  Main = main
  FaultErrors <- ContextFaults
  Hazards <- Calm
INVARIANTS KeysUnique LocksResolve StatusHonest
PROPERTIES StoredForever KeepsPromise Responds
