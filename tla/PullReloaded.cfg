CONSTANTS
  q1 = q1
  q2 = q2
  q3 = q3
  t1 = t1
  t2 = t2
  t3 = t3
  t4 = t4
  None = None
  Slots = {q1, q2}
  Timers = {t1, t2, t3, t4}
  Overtaking = FALSE
  MaxClicks = 4
  MaxLoads = 1
SPECIFICATION FairSpec
PROPERTIES KeepsPolling
CHECK_DEADLOCK FALSE
