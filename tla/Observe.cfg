SPECIFICATION Spec
CHECK_DEADLOCK FALSE
CONSTANTS
  None = None
  Off = Off
  WebSockets = {w}
  EventStreams = {e}
  MaxLines = 2
  MaxBytes = 3
  Sizes = {1, 2, 4}
  MaxOutput = 4
  Dimensions <- WideOrTall
  Coordinates <- OnAndOffTheGrid
  Inks = {i}
  Blank = b
  Values = {1, 3}
  MaxFrames = 3
  Subscribers = {s, t}
  Channels = {c, d}
  MaxMessages = 3
  MiddleTypes = {"turn:start", "tool:dispatch", "note"}
  Frames = {1, 3}
  MaxPolls = 3
  MaxCount = 3
  Gauges = {1, 2}
  StepKinds <- KindsOfSteps
  KnownCalls = {"grep", "edit"}
  Reads = {"grep"}
  MaxSteps = 5
  MaxIdentical = 2
  MaxCycles = 2
  EditLimit = 2
  Gap = 1
  Adapters = {"anthropic", "openai", "google"}
  SentLines = {"text", "finish", "usage in", "usage out", "call", "[DONE]", "note"}
  MaxSentLines = 3
INVARIANTS
  ViewersFollow
  ReplayIsTrue
  FindingsHold
PROPERTIES
  StreamsKeepOrder
