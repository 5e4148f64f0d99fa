\* WAIT, BUSREQ and RESET at any time, in every kind of bus cycle, on both cores.
SPECIFICATION LockSpec
CONSTANTS
  Pins = {"WAIT", "BUSREQ", "RESET"}
  Ops <- CutOps
  PCMod = 2
INVARIANTS
  CoresAgree
  StrobesExclude
  GrantBetweenMCycles
PROPERTIES
  WriteIsOnePulse
  AddressStable
  BusackCoversDMA
  KeepsBusPromise
