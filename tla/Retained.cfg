CONSTANTS
  label = label
  button = button
  p1 = p1
  p2 = p2
  r1 = r1
  NoThread = NoThread
  Pushers = {p1, p2}
  Requests = {}
  Comps = {label, button}
  Listeners = {button}
  NoEpochCheck = {}
  Direct = {}
  PreventForm = {}
  PreventEpoch = {}
  Effects <- MCEffects
  PushSet <- PushesBoth
  FirstChannels = {"never"}
  Lossy = FALSE
  Throws = {"iteration"}
  MaxVersion = 4
  MaxEpoch = 5
  MaxWire = 3
SPECIFICATION Spec
INVARIANTS EveryUpdateReaches
