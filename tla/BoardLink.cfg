SPECIFICATION Spec

CONSTANTS
  Alerts = {t1, t2}
  Boards = {b1}
  NoBoard = NoBoard
  TimeSync = TimeSync
  Retries = 2
  MaxSync = 1
  MaxFlight = 2
  CanFail = TRUE

INVARIANT DarkAfterAlerts
PROPERTY CommandsAcknowledged
PROPERTY DetectionsShowAlert

SYMMETRY AlertSymmetry

CHECK_DEADLOCK FALSE
