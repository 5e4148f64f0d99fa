\* RESET in a bus grant between two M-cycles of EX (SP),HL.
SPECIFICATION WbSpec
CONSTANTS
  Pins = {"BUSREQ", "RESET"}
  Ops = {"EX_SP_HL"}
  PCMod = 1
PROPERTIES
  GrantKeepsDieEdges
