CONSTANTS
  q1 = q1
  q2 = q2
  q3 = q3
  t1 = t1
  t2 = t2
  t3 = t3
  t4 = t4
  None = None
  Slots = {q1, q2}
  Timers = {t1, t2, t3, t4}
  Overtaking = FALSE
  MaxClicks = 4
  MaxLoads = 1
  s1 = s1
  s2 = s2
  s3 = s3
  Servlet = Servlet
  Schedulers = {s1, s2, s3}
  e1 = e1
  e2 = e2
  Executors = {e1, e2}
  MaxQueued = 1
  MaxRefires = 1
  MaxKeys = 4
SPECIFICATION PanelsSpec
INVARIANT ClickCounts
CHECK_DEADLOCK FALSE
