CONSTANTS
  Size = 4
  IdxMod = 8
  Bytes = {b1, b2}
  NoByte = NoByte
  Builds = {"isr", "thread"}
  ResetBuilds = {"isr"}
SPECIFICATION Spec
INVARIANTS TypeOK NoSlotRace
PROPERTY ImplementsFifo
