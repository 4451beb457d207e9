\* The daemon against the operator's edits, a restart or death of the
\* streamer and an outage of the host.
CONSTANTS
  NoVal = NoVal
  p1 = p1
  Phones <- NoPhone
  OldCopies <- ShippedCopy
  OperatorChoices <- ManyChoices
  MaxEdits = 3
  MaxShort = 0
  MaxFaults = 1
  MaxOpen = 0
  MaxOutages = 1
  SleepCoversBoot = FALSE
SPECIFICATION FairSpec
CHECK_DEADLOCK FALSE
INVARIANTS
  RoundSettled
  StoppedWhenStopped
  PinsSweep
PROPERTY Converges
