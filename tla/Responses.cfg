\* RESET in every T-state of the responses to INT and NMI.
SPECIFICATION WbSpec
CONSTANTS
  Pins = {"INT", "NMI", "RESET"}
  Ops <- ResponseOps
  PCMod = 1
PROPERTIES
  CutKeepsDieEdges
  EveryWriteOnce
  QAfterCut
