\* RESET, WAIT and BUSREQ in every T-state of every instruction.
SPECIFICATION WbSpec
CONSTANTS
  Pins = {"WAIT", "BUSREQ", "RESET"}
  Ops <- WritingOps
  PCMod = 1
INVARIANTS
  QFollowsFlags
PROPERTIES
  CutKeepsDieEdges
  EveryWriteOnce
  QAfterCut
