\* INT, NMI, BUSREQ and RESET at any time, on both cores: HALT, EI's delay,
\* RETN and the responses in each mode.
SPECIFICATION LockSpec
CONSTANTS
  Pins = {"INT", "NMI", "BUSREQ", "RESET"}
  Ops = {"EI", "HALT", "PREFIX_ED", "IM", "RETN"}
  PCMod = 1
INVARIANTS
  CoresAgree
  HaltedRunsNops
  NmiDeafInReset
PROPERTIES
  HaltChangesAtBoundary
