\* A short RESET in an opcode fetch's T2, a prefix's among them.
SPECIFICATION Spec
CONSTANTS
  Pins = {"RESET"}
  Ops = {"NOP", "PREFIX_IDX", "LD_R_R"}
  PCMod = 2
PROPERTIES
  SpecialResetTaken
