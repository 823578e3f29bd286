SPECIFICATION Spec
CONSTANTS
  Order <- OneOrder
  NoOrder = NoOrder
  NilUid = noUid
  noUid = noUid
  u1 = u1
  u2 = u2
  a = a
  b = b
  Caller = {c1}
  Main = main
  FaultErrors <- TxFaults
  Hazards <- Calm
INVARIANTS RetriesTransient
