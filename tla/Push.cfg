CONSTANTS
  label = label
  button = button
  p1 = p1
  p2 = p2
  r1 = r1
  NoThread = NoThread
  Pushers = {p1, p2}
  Requests = {r1}
  Comps = {label, button}
  Listeners = {label, button}
  NoEpochCheck = {}
  Direct = {label}
  PreventForm = {}
  PreventEpoch = {p1}
  Effects <- TwoEffects
  PushSet <- PushesBoth
  FirstChannels = {"never", "open"}
  Lossy = TRUE
  Throws = {"application", "iteration", "write"}
  MaxVersion = 3
  MaxEpoch = 2
  MaxWire = 2
SPECIFICATION TeamSpec
INVARIANTS TypeOK NoLostUpdate PushesInOrder UpdatedBeforeUnlock CleanWhenQuiet ArmedOnlyByPush
PROPERTIES NeverRegresses Converges RequestsAnswered
CHECK_DEADLOCK FALSE
