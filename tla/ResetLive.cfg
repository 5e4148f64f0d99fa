SPECIFICATION FairSpec
CONSTANTS
  Pins = {"RESET", "BUSREQ", "WAIT", "INT"}
  Ops <- CutOps
  PCMod = 1
PROPERTIES
  ResetStops
  ResetReleases
