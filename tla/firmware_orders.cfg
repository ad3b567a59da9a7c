SPECIFICATION Spec
CONSTANTS
  NUM_MOTOR_PINS = 2
  SAMPLE_COUNT = 1
  QUEUE_LEN = 2
  Sender <- Senders
  Cut = Cut
  Lines <- MixedLines
  MaxLines = 3
CHECK_DEADLOCK FALSE
INVARIANTS
  OrdersInOrder
  AcksMatchLines
  BurstFits
PROPERTIES
  ImplementsDispenser
