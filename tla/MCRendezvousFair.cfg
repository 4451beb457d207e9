\* The robot and one login of the phone, no datagram repeated.
CONSTANTS
  NoOne = NoOne
  Nothing = Nothing
  home = home
  cell = cell
  wlan = wlan
  p1 = p1
  p2 = p2
  p3 = p3
  IP <- IPs
  Port <- Ports
  RobotAddr <- RobotAt
  MobileAddrs <- OneAddr
  Duplicates = FALSE
  Deaf <- OneAddr
  MaxNet = 12
  MaxEntries = 2
  FanPressed = FALSE
  MaxSetups = 1
  MaxRestarts = 0
SPECIFICATION FairSpec
PROPERTIES
  RobotFindsMobile
