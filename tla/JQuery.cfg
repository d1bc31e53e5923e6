CONSTANTS
  MaxFires = 2
  MaxLength = 3
  Subordinates = 2
  MaxNotes = 1
  Browsers = {"standard", "ie", "frame"}
  MaxHolds = 3
  MaxItems = 3
  MaxStops = 2
  MaxRequests = 2
  Depth = 2
  MaxHandlers = 2
  MaxNested = 1
  MaxAttaches = 3
  TypeNames = {"text", "script", "json", "xml", "*", "none"}
  ConverterMaps <- Converters
  WantedTypes <- DataTypeLists
  ContentTypes <- KnownTypes
SPECIFICATION JQuerySpec
INVARIANTS OutcomesAgree NotTooEarly QueueInTurn RequestsEndOnce JsonpApart ConvertsRight HandlersConsistent
PROPERTIES CallsEachOnce SettlesOnce EventuallyReady QueueGoesOn Completes
CHECK_DEADLOCK FALSE
