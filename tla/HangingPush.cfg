CONSTANTS
  p1 = p1
  p2 = p2
  t1 = t1
  t2 = t2
  NoThread = NoThread
  Pushers = {p1, p2}
  Tabs = {t1, t2}
  Leaves = TRUE
  Ends = FALSE
  MaxMessage = 3
SPECIFICATION FairSpec
PROPERTIES PushesReturn
CHECK_DEADLOCK FALSE
