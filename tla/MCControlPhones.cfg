\* A phone against the operator and the daemon; a download may be garbled.
\* Nothing fails on the board.
CONSTANTS
  NoVal = NoVal
  p1 = p1
  Phones <- OnePhone
  OldCopies <- NoCopy
  OperatorChoices <- FewChoices
  MaxEdits = 2
  MaxShort = 1
  MaxFaults = 0
  MaxOpen = 0
  MaxOutages = 0
  SleepCoversBoot = TRUE
SPECIFICATION Spec
INVARIANTS
  TypeOK
  Commanded
