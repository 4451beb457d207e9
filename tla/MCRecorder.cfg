\* New names, -r, a ring of one that may hold two, a restart.
CONSTANTS
  NoOne = NoOne
  Cam = Cam
  Rec = Rec
  Reuses = FALSE
  Removes = TRUE
  InputFails = TRUE
  MaxNames = 3
  MaxWrites = 3
  RingSize = 1
  Exceed = 1
  OutputFails = TRUE
  MaxTime = 1
  MaxRestarts = 1
SPECIFICATION FairSpec
CHECK_DEADLOCK FALSE
INVARIANTS
  TypeOK
  SavedWhole
  RingBounded
  RemovedWasShown
  InputGoesOnFresh
  MutexGoesBack
PROPERTIES
  KeepsNewest
  SavesInNewFiles
  FeedSpec
  HeadIsShown
