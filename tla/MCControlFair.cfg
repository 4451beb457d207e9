\* One phone and the operator; nothing fails on the board.
CONSTANTS
  NoVal = NoVal
  p1 = p1
  Phones <- OnePhone
  OldCopies <- NoCopy
  OperatorChoices <- FewChoices
  MaxEdits = 2
  MaxShort = 0
  MaxFaults = 0
  MaxOpen = 0
  MaxOutages = 0
  SleepCoversBoot = TRUE
SPECIFICATION FairSpec
INVARIANT StreamerShown
PROPERTY StreamerFollows
