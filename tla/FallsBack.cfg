SPECIFICATION Spec
CONSTANTS
  Slots = {1, 2, 3, 4, 5, 6}
  MaxTimers = 6
  MaxReconnectOnClose = 2
  Options <- OnlyFbw
PROPERTY FallsBack
CHECK_DEADLOCK FALSE
