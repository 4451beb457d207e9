\* The phone with two SocketThreads; the robot logs in and hears nothing.
CONSTANTS
  NoOne = NoOne
  Nothing = Nothing
  home = home
  cell = cell
  wlan = wlan
  p1 = p1
  p2 = p2
  p3 = p3
  IP <- IPs
  Port <- Ports
  RobotAddr <- RobotAt
  MobileAddrs <- OneAddr
  Duplicates = TRUE
  Deaf <- HomeAddr
  MaxNet = 2
  MaxEntries = 2
  FanPressed = TRUE
  MaxSetups = 2
  MaxRestarts = 0
SPECIFICATION Spec
INVARIANTS
  PhoneHoldsAnnounced
