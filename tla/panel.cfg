SPECIFICATION FairSpec
CONSTANTS
  Product <- Products
  Recorded <- RecordedProducts
  Breed = {POM, LAB}
  None = None
  Other = Other
  ReadLimit = 2
  MaxClicks = 5
CHECK_DEADLOCK FALSE
INVARIANTS
  PaymentMatchesSelection
  OnePaymentPerPress
  DialogAboutOneBreed
PROPERTIES
  PaymentEnds
  WaitingEnds
