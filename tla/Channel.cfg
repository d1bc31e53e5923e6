CONSTANTS
  p1 = p1
  p2 = p2
  t1 = t1
  t2 = t2
  NoThread = NoThread
  Pushers = {p1, p2}
  Tabs = {t1, t2}
  Leaves = TRUE
  Ends = TRUE
  MaxMessage = 3
SPECIFICATION SceneSpec
INVARIANTS TypeOK DeliveredInOrder OneTabUpdated OpenIsRegistered
PROPERTIES OneTabOneByOne StayersReturn
CHECK_DEADLOCK FALSE
