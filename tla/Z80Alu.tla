------------------------------- MODULE Z80Alu -------------------------------
(***************************************************************************)
(* The ALU of cmodel/z80_alu.c, and the 16-bit adds and the F of a         *)
(* repeated block instruction of cmodel/z80_core.c, as operators on bytes  *)
(* (numbers 0..255) and flags. F is the set of the names of the flags that *)
(* are set. An operator returns the result and F together, as z80_alu()    *)
(* does.                                                                   *)
(***************************************************************************)
EXTENDS Integers, FiniteSets

Byte   == 0 .. 255
Word   == 0 .. 65535
Bits   == 0 .. 7
FlagNames == {"S", "Z", "Y", "H", "X", "P", "N", "C"}

\* A flag, when its condition holds.
Flag(name, cond) == IF cond THEN {name} ELSE {}

Carry(F) == IF "C" \in F THEN 1 ELSE 0

\* A byte as the set of its bits that are 1, and back.
BitsOf == [v \in Byte |-> {i \in Bits : (v \div 2^i) % 2 = 1}]
ByteOf == [B \in SUBSET Bits |->
             LET bit(i, weight) == IF i \in B THEN weight ELSE 0
             IN  bit(0, 1) + bit(1, 2) + bit(2, 4) + bit(3, 8)
                   + bit(4, 16) + bit(5, 32) + bit(6, 64) + bit(7, 128)]

EvenParity == [v \in Byte |-> Cardinality(BitsOf[v]) % 2 = 0]

\* Bits 5 and 3 of a byte, as the undocumented flags.
XY(v) == Flag("Y", (v \div 32) % 2 = 1) \cup Flag("X", (v \div 8) % 2 = 1)

SZXY(v)  == Flag("S", v >= 128) \cup Flag("Z", v = 0) \cup XY(v)
SZPXY(v) == SZXY(v) \cup Flag("P", EvenParity[v])

-----------------------------------------------------------------------------
\* The two halves of an 8-bit add or subtract, low nibble first.
Add4(a, b, cin) ==
  LET s == (a % 16) + (b % 16) + cin IN [res |-> s % 16, out |-> s \div 16]

Sub4(a, b, bin) ==
  LET s == (a % 16) - (b % 16) - bin
  IN  [res |-> s % 16, out |-> IF s < 0 THEN 1 ELSE 0]

Add8(a, b, cin) ==
  LET lo == Add4(a, b, cin)
      hi == Add4(a \div 16, b \div 16, lo.out)
  IN  [res |-> 16 * hi.res + lo.res, half |-> lo.out, carry |-> hi.out]

Sub8(a, b, bin) ==
  LET lo == Sub4(a, b, bin)
      hi == Sub4(a \div 16, b \div 16, lo.out)
  IN  [res |-> 16 * hi.res + lo.res, half |-> lo.out, carry |-> hi.out]

\* P/V as signed overflow, from the operands' and the result's top bits
\* (top: 128 for bytes, 32768 for words).
AddOverflows(a, b, res, top) == (a >= top) = (b >= top) /\ (a >= top) # (res >= top)
\* mutant: a subtract's overflow taken as an add's
SubOverflowsAsAdd(a, b, res, top) == (a >= top) = (b >= top) /\ (a >= top) # (res >= top)

SubOverflows(a, b, res, top) == (a >= top) # (b >= top) /\ (a >= top) # (res >= top)

FlagsAdd8(a, b, cin) ==
  LET s == Add8(a, b, cin)
  IN  [res |-> s.res,
       f |-> SZXY(s.res) \cup Flag("H", s.half = 1) \cup Flag("C", s.carry = 1)
               \cup Flag("P", AddOverflows(a, b, s.res, 128))]

\* CP takes X and Y from the operand.
FlagsSub8(a, b, bin, isCp) ==
  LET s == Sub8(a, b, bin)
  IN  [res |-> s.res,
       f |-> {"N"} \cup Flag("S", s.res >= 128) \cup Flag("Z", s.res = 0)
               \cup XY(IF isCp THEN b ELSE s.res)
               \cup Flag("H", s.half = 1) \cup Flag("C", s.carry = 1)
               \cup Flag("P", SubOverflows(a, b, s.res, 128))]

Logic(op, a, b) ==
  LET A == BitsOf[a]
      B == BitsOf[b]
  IN  ByteOf[CASE op = "AND" -> A \cap B
               [] op = "OR"  -> A \cup B
               [] op = "XOR" -> (A \ B) \cup (B \ A)]

FlagsLogic(op, a, b) ==
  LET r == Logic(op, a, b)
  IN  [res |-> r, f |-> SZPXY(r) \cup Flag("H", op = "AND")]

\* mutants: C from the add; no wrap
FlagsInc8Carries(v, F) == FlagsAdd8(v, 1, 0)
FlagsInc8NoWrap(v, F)  == [res |-> v + 1, f |-> F]

FlagsInc8(v, F) ==
  LET r == (v + 1) % 256
  IN  [res |-> r, f |-> (F \cap {"C"}) \cup SZXY(r) \cup Flag("H", v % 16 = 15)
                          \cup Flag("P", v = 127)]

FlagsDec8(v, F) ==
  LET r == (v - 1) % 256
  IN  [res |-> r, f |-> (F \cap {"C"}) \cup {"N"} \cup SZXY(r)
                          \cup Flag("H", v % 16 = 0) \cup Flag("P", v = 128)]

\* NEG is 0 - A on the same datapath.
FlagsNeg(a) == FlagsSub8(0, a, 0, FALSE)

AluOps == {"ADD", "ADC", "SUB", "SBC", "AND", "XOR", "OR", "CP"}

\* What ALU A,x leaves: FLAG_ADD8 .. FLAG_LOGIC of z80_alu().
AluOp(op, a, b, F) ==
  CASE op \in {"ADD", "ADC"} -> FlagsAdd8(a, b, IF op = "ADC" THEN Carry(F) ELSE 0)
    [] op \in {"SUB", "SBC"} -> FlagsSub8(a, b, IF op = "SBC" THEN Carry(F) ELSE 0, FALSE)
    [] op = "CP"             -> FlagsSub8(a, b, 0, TRUE)
    [] OTHER                 -> FlagsLogic(op, a, b)

-----------------------------------------------------------------------------
\* Rotates and shifts: which way, the bit that comes in, the bit that goes out.
LeftRots  == {"RLC", "RL", "SLA", "SLL"}
RightRots == {"RRC", "RR", "SRA", "SRL"}
Rots      == LeftRots \cup RightRots

\* mutant: RL and RR turn 8 bits, not 9
BitInEight(op, v, F) == IF op \in LeftRots THEN v \div 128 ELSE v % 2

BitIn(op, v, F) ==
  CASE op = "RLC"         -> v \div 128
    [] op = "RRC"         -> v % 2
    [] op \in {"RL", "RR"} -> Carry(F)
    [] op = "SRA"         -> v \div 128
    [] op = "SLL"         -> 1
    [] OTHER              -> 0

Rotated(op, v, F) ==
  IF op \in LeftRots THEN ((2 * v) % 256) + BitIn(op, v, F)
                     ELSE (v \div 2) + 128 * BitIn(op, v, F)

BitOut(op, v) == IF op \in LeftRots THEN v \div 128 ELSE v % 2

\* The CB page's: every flag from the result.
FlagsRot(op, v, F) ==
  LET r == Rotated(op, v, F)
  IN  [res |-> r, f |-> SZPXY(r) \cup Flag("C", BitOut(op, v) = 1)]

\* RLCA RRCA RLA RRA: S, Z and P/V stay.
FlagsRotA(op, a, F) ==
  LET r == Rotated(op, a, F)
  IN  [res |-> r, f |-> (F \cap {"S", "Z", "P"}) \cup XY(r) \cup Flag("C", BitOut(op, a) = 1)]

\* BIT n: xy is the byte X and Y come from (the operand, or W).
FlagsBit(n, v, xy, F) ==
  (F \cap {"C"}) \cup {"H"} \cup XY(xy)
    \cup (IF n \in BitsOf[v] THEN Flag("S", n = 7) ELSE {"Z", "P"})

-----------------------------------------------------------------------------
\* mutant: the high digit corrected without the low one's carry into it
FlagsDaaByDigit(a, F) ==
  LET low  == "H" \in F \/ a % 16 > 9
      high == "C" \in F \/ a \div 16 > 9
      corr == (IF low THEN 6 ELSE 0) + (IF high THEN 96 ELSE 0)
      r    == IF "N" \in F THEN (a - corr) % 256 ELSE (a + corr) % 256
  IN  [res |-> r, f |-> (F \cap {"N"}) \cup SZPXY(r) \cup Flag("C", high)]

FlagsDaa(a, F) ==
  LET low  == "H" \in F \/ a % 16 > 9
      high == "C" \in F \/ a > 153
      corr == (IF low THEN 6 ELSE 0) + (IF high THEN 96 ELSE 0)
      n    == "N" \in F
      r    == IF n THEN (a - corr) % 256 ELSE (a + corr) % 256
  IN  [res |-> r,
       f |-> (F \cap {"N"}) \cup SZPXY(r) \cup Flag("C", high)
               \cup Flag("H", IF n THEN "H" \in F /\ a % 16 < 6 ELSE a % 16 > 9)]

\* SCF and CCF take X and Y from A, and from F where Q, the F the last
\* instruction wrote (or none), differs from it.
XYofQ(a, F, Q) == XY(a) \cup ({"X", "Y"} \cap ((F \ Q) \cup (Q \ F)))

FlagsScf(a, F, Q) == (F \cap {"S", "Z", "P"}) \cup {"C"} \cup XYofQ(a, F, Q)

FlagsCcf(a, F, Q) ==
  (F \cap {"S", "Z", "P"}) \cup (IF "C" \in F THEN {"H"} ELSE {"C"}) \cup XYofQ(a, F, Q)

FlagsCpl(a, F) ==
  LET r == 255 - a
  IN  [res |-> r, f |-> (F \cap {"S", "Z", "P", "C"}) \cup {"H", "N"} \cup XY(r)]

FlagsLdAIr(v, F, iff2) == (F \cap {"C"}) \cup SZXY(v) \cup Flag("P", iff2)

FlagsIn(v, F) == (F \cap {"C"}) \cup SZPXY(v)

\* RRD and RLD: the three digits A low, (HL) high, (HL) low turn round.
\* The byte written back is the sequencer's (z80_core.c).
FlagsRrd(a, m, F) ==
  LET r == 16 * (a \div 16) + (m % 16)
  IN  [res |-> r, mem |-> 16 * (a % 16) + (m \div 16), f |-> (F \cap {"C"}) \cup SZPXY(r)]

FlagsRld(a, m, F) ==
  LET r == 16 * (a \div 16) + (m \div 16)
  IN  [res |-> r, mem |-> 16 * (m % 16) + (a % 16), f |-> (F \cap {"C"}) \cup SZPXY(r)]

-----------------------------------------------------------------------------
\* X and Y of LDI and CPI are bits 3 and 1 of n.
BlockXY(n) == Flag("Y", (n \div 2) % 2 = 1) \cup Flag("X", (n \div 8) % 2 = 1)

FlagsBlockLd(F, a, v, bcNz) ==
  (F \cap {"S", "Z", "C"}) \cup BlockXY((a + v) % 256) \cup Flag("P", bcNz)

FlagsBlockCp(F, a, v, bcNz) ==
  LET res  == (a - v) % 256
      half == a % 16 < v % 16
  IN  (F \cap {"C"}) \cup {"N"} \cup Flag("S", res >= 128) \cup Flag("Z", res = 0)
        \cup Flag("H", half) \cup BlockXY((res - (IF half THEN 1 ELSE 0)) % 256)
        \cup Flag("P", bcNz)

\* INI and OUTI: k is the data plus C+-1 (or L), b is B as stepped.
FlagsBlockIo(v, b, k) ==
  SZXY(b) \cup Flag("N", v >= 128) \cup (IF k > 255 THEN {"H", "C"} ELSE {})
    \cup Flag("P", EvenParity[Logic("XOR", k % 8, b)])

\* F of LDIR, CPIR when they repeat: X and Y from PC's high byte.
RepeatXY(F, pch) == (F \ {"X", "Y"}) \cup XY(pch)

\* F of INIR, OTIR when they repeat: H and P/V from k and b once more.
RepeatIo(v, b, k, pch) ==
  LET n == v >= 128
      p == Logic("XOR", k % 8, b)
      near == IF k <= 255 THEN b ELSE IF n THEN (b - 1) % 256 ELSE (b + 1) % 256
  IN  Flag("S", b >= 128) \cup XY(pch) \cup Flag("N", n) \cup Flag("C", k > 255)
        \cup Flag("H", k > 255 /\ b % 16 = (IF n THEN 0 ELSE 15))
        \cup Flag("P", EvenParity[Logic("XOR", p, near % 8)])

-----------------------------------------------------------------------------
\* ADD HL,rr
Add16(h, r, F) ==
  LET res == (h + r) % 65536
  IN  [res |-> res,
       f |-> (F \cap {"S", "Z", "P"}) \cup XY(res \div 256)
               \cup Flag("H", (h % 4096) + (r % 4096) >= 4096) \cup Flag("C", h + r >= 65536)]

\* S, Z, X and Y of a 16-bit result
SZXY16(res) == Flag("S", res >= 32768) \cup Flag("Z", res = 0) \cup XY(res \div 256)

\* mutant: H without the carry that came in
Adc16NoCarryHalf(h, r, F) ==
  LET sum == h + r + Carry(F)
      res == sum % 65536
  IN  [res |-> res,
       f |-> SZXY16(res) \cup Flag("C", sum >= 65536)
               \cup Flag("H", (h % 4096) + (r % 4096) >= 4096)
               \cup Flag("P", AddOverflows(h, r, res, 32768))]

\* ADC HL,rr and SBC HL,rr
Adc16(h, r, F) ==
  LET sum == h + r + Carry(F)
      res == sum % 65536
  IN  [res |-> res,
       f |-> SZXY16(res) \cup Flag("C", sum >= 65536)
               \cup Flag("H", (h % 4096) + (r % 4096) + Carry(F) >= 4096)
               \cup Flag("P", AddOverflows(h, r, res, 32768))]

Sbc16(h, r, F) ==
  LET diff == h - r - Carry(F)
      res  == diff % 65536
  IN  [res |-> res,
       f |-> {"N"} \cup SZXY16(res) \cup Flag("C", diff < 0)
               \cup Flag("H", (h % 4096) - (r % 4096) - Carry(F) < 0)
               \cup Flag("P", SubOverflows(h, r, res, 32768))]

=============================================================================
