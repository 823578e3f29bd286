SPECIFICATION FairSpec
CONSTANTS
  Order <- SomeOrders
  NilUid = NilUid
  u1 = u1
  u2 = u2
  a = a
  b = b
  NoOrder = NoOrder
  Blank <- NoFields
  Topics <- ShortTopics
  MaxAttempts = 2
  MaxRetryCount = 1
  Hazards <- AnyFault
INVARIANTS TypeOK ConsumerAccounts ProcessorAccounts NoGap NeverShared
PROPERTIES Drains Stops
