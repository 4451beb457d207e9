\* The robot; the phone logs in from two addresses and hears nothing.
CONSTANTS
  NoOne = NoOne
  Nothing = Nothing
  home = home
  cell = cell
  wlan = wlan
  p1 = p1
  p2 = p2
  p3 = p3
  IP <- IPs
  Port <- Ports
  RobotAddr <- RobotAt
  MobileAddrs <- TwoAddrs
  Duplicates = FALSE
  Deaf <- TwoAddrs
  MaxNet = 2
  MaxEntries = 3
  FanPressed = FALSE
  MaxSetups = 1
  MaxRestarts = 1
SPECIFICATION Spec
INVARIANTS
  TypeOK
  RobotCallsMobile
PROPERTIES
  RobotEndsInTheRace
