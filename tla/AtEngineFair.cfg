CONSTANTS
  Depth = 2
  LinesMax = 0
  DefaultTimeout = 1
  PromptTimeout = 1
  EchoCancel = TRUE
  Timeouts = {0}
  Ticks = {1}
  SmsCmds = {1}
  UrcKinds = {"urc"}
  TaskCalls = {"send"}
  CbCalls = {"send"}
  UrcCalls = {"abort", "reset"}
  MaxCmds = 2
  MaxData = 0
  MaxHeard = 1
  RxCap = 1
  MaxStack = 4
SPECIFICATION FairSpec
PROPERTIES AcceptedCompletes TaskReturns
