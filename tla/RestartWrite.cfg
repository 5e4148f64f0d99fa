\* WAIT low as the reset idle ends, after RESET cut a memory write.
SPECIFICATION LockSpec
CONSTANTS
  Pins = {"WAIT", "RESET"}
  Ops = {"NOP", "ST_M_R"}
  PCMod = 1
INVARIANTS
  PinsMatch
