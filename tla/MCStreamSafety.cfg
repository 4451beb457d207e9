\* A stream and a snapshot; small and empty frames are dropped; the resolution
\* may be changed twice; nothing is interrupted.
CONSTANTS
  NoOne = NoOne
  Cam = Cam
  s1 = s1
  s2 = s2
  snap = snap
  set1 = set1
  NB_BUFFER = 2
  Kinds <- WithEmpties
  MinimumSize = TRUE
  Setters <- OneSetter
  MaxFrames = 3
  MaxResizes = 2
  Streams <- OneStream
  Snapshots <- OneSnapshot
  SpuriousWakeups = FALSE
  Interrupts = FALSE
SPECIFICATION Spec
CHECK_DEADLOCK FALSE
INVARIANTS
  TypeOK
  WholePictures
  FreshPictures
  BuffersConserved
PROPERTY FeedSpec
