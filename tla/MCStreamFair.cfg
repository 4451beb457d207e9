\* Two streams, every thread that can run is scheduled.
CONSTANTS
  NoOne = NoOne
  Cam = Cam
  s1 = s1
  s2 = s2
  snap = snap
  set1 = set1
  NB_BUFFER = 2
  Kinds <- WithEmpties
  MinimumSize = TRUE
  Setters <- None
  MaxFrames = 3
  MaxResizes = 0
  Streams <- TwoStreams
  Snapshots <- None
  SpuriousWakeups = FALSE
  Interrupts = FALSE
SPECIFICATION FairSpec
CHECK_DEADLOCK FALSE
PROPERTIES
  WaitersServed
  CameraGoesOn
