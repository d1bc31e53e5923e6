CONSTANTS
  label = label
  button = button
  p1 = p1
  p2 = p2
  r1 = r1
  NoThread = NoThread
  Pushers = {p1}
  Requests = {r1}
  Comps = {label, button}
  Listeners = {button}
  NoEpochCheck = {}
  Direct = {}
  PreventForm = {}
  PreventEpoch = {p1}
  Effects <- LabelEffects
  PushSet <- PushesLabel
  FirstChannels = {"open"}
  Lossy = FALSE
  Throws = {}
  MaxVersion = 2
  MaxEpoch = 2
  MaxWire = 2
SPECIFICATION Spec
CHECK_DEADLOCK FALSE
INVARIANTS EveryUpdateReaches
