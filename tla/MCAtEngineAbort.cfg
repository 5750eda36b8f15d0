CONSTANTS
  Depth = 2
  LinesMax = 1
  DefaultTimeout = 1
  PromptTimeout = 2
  EchoCancel = TRUE
  Timeouts = {0}
  Ticks = {1, 2}
  SmsCmds = {2}
  UrcKinds = {"urc"}
  TaskCalls = {"send", "abort", "reset"}
  CbCalls = {"send", "abort"}
  UrcCalls = {"send", "abort", "reset"}
  MaxCmds = 3
  MaxData = 2
  RxCap = 2
  MaxStack = 3
SPECIFICATION Spec
INVARIANT CompletedOnce
