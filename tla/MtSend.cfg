SPECIFICATION Spec
CONSTANTS
  Senders = {s1, s2}
  NoTask = none
  Depth = 2
  MaxCmds = 4
INVARIANTS
  NoneForgotten
