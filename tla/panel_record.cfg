SPECIFICATION Spec
CONSTANTS
  Product <- Products
  Recorded <- RecordedProducts
  Breed = {POM}
  None = None
  Other = Other
  ReadLimit = 2
  MaxClicks = 4
CHECK_DEADLOCK FALSE
INVARIANTS
  RecordIsOfThePress
