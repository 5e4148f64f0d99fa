\* INT and NMI at any time, in every instruction.
SPECIFICATION Spec
CONSTANTS
  Pins = {"INT", "NMI"}
  Ops <- AllOps
  PCMod = 2
INVARIANTS
  TypeOK
  Iff1ImpliesIff2
  SampledNmiIsPending
  PendingHasItsDecode
  LdAIrSeesIff2
PROPERTIES
  EiShadow
  HaltHoldsPC
  ReturnAddressKept
  NmiNotLost
  KeepsInterruptPromise
