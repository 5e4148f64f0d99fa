SPECIFICATION Spec
CONSTANTS
  Pins = {"WAIT", "RESET"}
  Ops <- HaltOps
  PCMod = 1
INVARIANTS
  HaltHighInReset
