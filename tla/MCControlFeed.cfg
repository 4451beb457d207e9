\* One phone; nobody ever chooses anything for the car.
CONSTANTS
  NoVal = NoVal
  p1 = p1
  Phones <- OnePhone
  OldCopies <- ShippedCopy
  OperatorChoices <- NoChoices
  MaxEdits = 1
  MaxShort = 0
  MaxFaults = 0
  MaxOpen = 0
  MaxOutages = 0
  SleepCoversBoot = TRUE
SPECIFICATION Spec
INVARIANT FeedDoesNotDrive
