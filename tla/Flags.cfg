\* Every instruction of the ALU and short sequences of them: bytes at the
\* edges, all two-digit decimal numbers, 16-bit adds, block instructions.
SPECIFICATION Spec
CONSTANTS
  Starts <- MCStarts
  Operands <- MCOperands
  PcHighs = {40}
INVARIANTS
  TypeOK
  ArithRight
  IncDecRight
  RoundTrips
  QLeak
  BcdRight
  WordIsTwoBytes
  BlockAgrees
