SPECIFICATION FairSpec
CONSTANTS
  NUM_MOTOR_PINS = 1
  SAMPLE_COUNT = 3
  QUEUE_LEN = 1
  Sender <- Senders
  Cut = Cut
  Lines <- OrderLines
  MaxLines = 2
CHECK_DEADLOCK FALSE
INVARIANTS
  StopsAtPassage
PROPERTIES
  EveryOrderServed
  StopsWhenBlocked
