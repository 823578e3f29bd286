SPECIFICATION Spec
CONSTANTS
  Order <- SomeOrders
  NilUid = NilUid
  u1 = u1
  u2 = u2
  a = a
  b = b
  NoOrder = NoOrder
  Blank <- NoFields
  Topics <- TwoOrders
  MaxAttempts = 10
  MaxRetryCount = 3
  Hazards <- NoFault
INVARIANTS OrdersKept
CHECK_DEADLOCK FALSE
