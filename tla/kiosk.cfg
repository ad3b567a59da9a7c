SPECIFICATION FairSpec
CONSTANTS
  BUF_SIZE = 3
  Product <- Products
  Motor <- Motors
  QUEUE_LEN = 1
  MaxOrders = 2
  MaxConnects = 1
CHECK_DEADLOCK FALSE
INVARIANTS
  WritesWholeLines
  EndsForACause
  EarlyOrderNeverReaches
  SlotLostToEarlyOrder
PROPERTIES
  ImplementsOrderService
  EndsWithNextLine
  OrderAloneServed
  AckAloneReturned
