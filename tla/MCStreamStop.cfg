\* The program may be stopped, waits may return by themselves, the resolution
\* may be changed, and no frame is dropped for its size.
CONSTANTS
  NoOne = NoOne
  Cam = Cam
  s1 = s1
  s2 = s2
  snap = snap
  set1 = set1
  NB_BUFFER = 2
  Kinds <- Unfiltered
  MinimumSize = FALSE
  Setters <- OneSetter
  MaxFrames = 2
  MaxResizes = 1
  Streams <- OneStream
  Snapshots <- OneSnapshot
  SpuriousWakeups = TRUE
  Interrupts = TRUE
SPECIFICATION Spec
CHECK_DEADLOCK FALSE
INVARIANTS
  MutualExclusion
  MutexGoesBack
  WholePictures
