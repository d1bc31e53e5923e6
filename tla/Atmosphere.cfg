SPECIFICATION Spec
CONSTANTS
  Slots = {1, 2, 3, 4, 5, 6}
  MaxTimers = 6
  MaxReconnectOnClose = 2
  Options <- AllOptions
INVARIANTS OneConnection OneTimer OpenedFirst EndIsTold EndIsFinal
CHECK_DEADLOCK FALSE
