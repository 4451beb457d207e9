\* One name written over and over and -r, as start.sh:76-78 has it.
CONSTANTS
  NoOne = NoOne
  Cam = Cam
  Rec = Rec
  Reuses = TRUE
  Removes = TRUE
  InputFails = FALSE
  MaxNames = 1
  MaxWrites = 4
  RingSize = 1
  Exceed = 1
  OutputFails = FALSE
  MaxTime = 2
  MaxRestarts = 1
SPECIFICATION Spec
CHECK_DEADLOCK FALSE
INVARIANT InputGoesOn
