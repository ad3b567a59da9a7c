SPECIFICATION FairSpec
CONSTANTS
  ITEMS = 3
  Stored <- Tables
  MaxMessages = 3
CHECK_DEADLOCK FALSE
INVARIANTS
  RowsAreSales
  AnswersAreTopTwo
  AtMostOneAfterQuit
PROPERTIES
  QuestionAnswered
  EndsWithServer
