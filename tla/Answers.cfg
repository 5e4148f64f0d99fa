\* NMI and BUSREQ are answered, whatever INT, WAIT and the program do.
SPECIFICATION FairSpec
CONSTANTS
  Pins = {"NMI", "INT", "BUSREQ", "WAIT"}
  Ops <- EndlessOps
  PCMod = 1
PROPERTIES
  NmiAnswered
  BusreqAnswered
