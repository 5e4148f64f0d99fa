---------------------------- MODULE Z80Alu_proofs ----------------------------
(***************************************************************************)
(* Proofs about the ALU: the nibble adders are the integers' add and       *)
(* subtract, for every byte, the 16-bit adds are two byte adds, for every  *)
(* word, and what follows for the instructions of Z80Flags, alone and in   *)
(* sequences that undo themselves.                                         *)
(***************************************************************************)
EXTENDS Z80Flags, TLAPS

\* A byte is two nibbles.
LEMMA Nibbles ==
  ASSUME NEW v \in Byte
  PROVE  /\ v \div 16 \in 0 .. 15
         /\ v % 16 \in 0 .. 15
         /\ v = 16 * (v \div 16) + (v % 16)
         /\ (v \div 16) % 16 = v \div 16
BY DEF Byte

\* Two nibbles make a byte, and the carry of one is the other's carry in.
LEMMA TwoNibbles ==
  ASSUME NEW h \in 0 .. 15, NEW l \in 0 .. 15
  PROVE  16 * h + l \in Byte
BY DEF Byte

LEMMA CarryChain ==
  ASSUME NEW xl \in Int, NEW xh \in Int, NEW yl \in Int, NEW yh \in Int, NEW c \in Int,
         NEW rl \in Int, NEW rh \in Int, NEW cl \in Int, NEW ch \in Int
  PROVE  /\ 16 * cl + rl = xl + yl + c /\ 16 * ch + rh = xh + yh + cl
            => 256 * ch + (16 * rh + rl) = (16 * xh + xl) + (16 * yh + yl) + c
         /\ rl + yl + c = 16 * cl + xl /\ rh + yh + cl = 16 * ch + xh
            => (16 * rh + rl) - 256 * ch = (16 * xh + xl) - (16 * yh + yl) - c
OBVIOUS

\* The nibble adder and subtracter look at the low nibbles alone.
LEMMA Add4Sum ==
  ASSUME NEW x \in Byte, NEW y \in Byte, NEW c \in {0, 1}
  PROVE  \E s \in 0 .. 15, out \in {0, 1} :
           /\ Add4(x, y, c) = [res |-> s, out |-> out]
           /\ 16 * out + s = (x % 16) + (y % 16) + c
<1> DEFINE s == ((x % 16) + (y % 16) + c) % 16
           o == ((x % 16) + (y % 16) + c) \div 16
<1>1. Add4(x, y, c) = [res |-> s, out |-> o]
  BY DEF Add4
<1>2. s \in 0 .. 15 /\ o \in {0, 1} /\ 16 * o + s = (x % 16) + (y % 16) + c
  BY DEF Byte
<1> QED
  BY <1>1, <1>2

LEMMA Sub4Difference ==
  ASSUME NEW x \in Byte, NEW y \in Byte, NEW c \in {0, 1}
  PROVE  \E s \in 0 .. 15, out \in {0, 1} :
           /\ Sub4(x, y, c) = [res |-> s, out |-> out]
           /\ s + (y % 16) + c = 16 * out + (x % 16)
<1> DEFINE s == ((x % 16) - (y % 16) - c) % 16
           o == IF ((x % 16) - (y % 16) - c) < 0 THEN 1 ELSE 0
<1>1. Sub4(x, y, c) = [res |-> s, out |-> o]
  BY DEF Sub4
<1>2. (x % 16) \in 0 .. 15 /\ (y % 16) \in 0 .. 15
  BY DEF Byte
<1>3. s \in 0 .. 15 /\ o \in {0, 1}
  BY <1>2
<1>4. s + (y % 16) + c = 16 * o + (x % 16)
  <2>1. \A d \in -16 .. 15 : (d % 16) = 16 * (IF d < 0 THEN 1 ELSE 0) + d
    OBVIOUS
  <2>2. (x % 16) - (y % 16) - c \in -16 .. 15
    BY <1>2
  <2> QED
    BY <1>2, <2>1, <2>2
<1> QED
  BY <1>1, <1>3, <1>4

\* The byte adder of two nibble adders is addition: the result, the carry out
\* of bit 7 and the half carry are those of the integers.
THEOREM Add8IsSum ==
  ASSUME NEW x \in Byte, NEW y \in Byte, NEW c \in {0, 1}
  PROVE  \E s \in Byte, half \in {0, 1}, carry \in {0, 1} :
           /\ Add8(x, y, c) = [res |-> s, half |-> half, carry |-> carry]
           /\ 256 * carry + s = x + y + c
           /\ half = 1 <=> (x % 16) + (y % 16) + c > 15
<1>1. PICK ls \in 0 .. 15, lo \in {0, 1} :
             /\ Add4(x, y, c) = [res |-> ls, out |-> lo]
             /\ 16 * lo + ls = (x % 16) + (y % 16) + c
  BY Add4Sum
<1>2. /\ x \div 16 \in Byte
      /\ y \div 16 \in Byte
  BY DEF Byte
<1>3. PICK hs \in 0 .. 15, ho \in {0, 1} :
             /\ Add4(x \div 16, y \div 16, lo) = [res |-> hs, out |-> ho]
             /\ 16 * ho + hs = (x \div 16) + (y \div 16) + lo
  BY <1>2, Add4Sum, Nibbles, SMTT(40)
<1>4. Add8(x, y, c) = [res |-> 16 * hs + ls, half |-> lo, carry |-> ho]
  BY <1>1, <1>3 DEF Add8
<1>5. 16 * hs + ls \in Byte
  BY TwoNibbles
<1>6. 256 * ho + (16 * hs + ls) = x + y + c
  BY <1>1, <1>3, Nibbles, CarryChain DEF Byte
<1>7. lo = 1 <=> (x % 16) + (y % 16) + c > 15
  BY <1>1, Nibbles
<1> QED
  BY <1>4, <1>5, <1>6, <1>7

\* And so is the byte subtracter: result, borrow and half borrow.
THEOREM Sub8IsDifference ==
  ASSUME NEW x \in Byte, NEW y \in Byte, NEW c \in {0, 1}
  PROVE  \E s \in Byte, half \in {0, 1}, carry \in {0, 1} :
           /\ Sub8(x, y, c) = [res |-> s, half |-> half, carry |-> carry]
           /\ s - 256 * carry = x - y - c
           /\ half = 1 <=> (x % 16) - (y % 16) - c < 0
<1>1. PICK ls \in 0 .. 15, lo \in {0, 1} :
             /\ Sub4(x, y, c) = [res |-> ls, out |-> lo]
             /\ ls + (y % 16) + c = 16 * lo + (x % 16)
  BY Sub4Difference
<1>2. /\ x \div 16 \in Byte
      /\ y \div 16 \in Byte
  BY DEF Byte
<1>3. PICK hs \in 0 .. 15, ho \in {0, 1} :
             /\ Sub4(x \div 16, y \div 16, lo) = [res |-> hs, out |-> ho]
             /\ hs + (y \div 16) + lo = 16 * ho + (x \div 16)
  <2>1. (x \div 16) % 16 = x \div 16 /\ (y \div 16) % 16 = y \div 16
    BY Nibbles
  <2>2. \E hs \in 0 .. 15, ho \in {0, 1} :
           /\ Sub4(x \div 16, y \div 16, lo) = [res |-> hs, out |-> ho]
           /\ hs + ((y \div 16) % 16) + lo = 16 * ho + ((x \div 16) % 16)
    BY <1>2, Sub4Difference
  <2> QED
    BY <2>1, <2>2
<1>4. Sub8(x, y, c) = [res |-> 16 * hs + ls, half |-> lo, carry |-> ho]
  BY <1>1, <1>3 DEF Sub8
<1>5. 16 * hs + ls \in Byte
  BY TwoNibbles
<1>6. (16 * hs + ls) - 256 * ho = x - y - c
  BY <1>1, <1>3, Nibbles, CarryChain DEF Byte
<1>7. lo = 1 <=> (x % 16) - (y % 16) - c < 0
  BY <1>1, Nibbles
<1> QED
  BY <1>4, <1>5, <1>6, <1>7

-----------------------------------------------------------------------------
\* What an add leaves, in the integers' terms.
AddSays(x, y, c, res, F) ==
  LET u == x + y + c
      s == Signed(x) + Signed(y) + c
  IN  /\ res = u % 256
      /\ "C" \in F <=> u \notin Byte
      /\ "P" \in F <=> s \notin -128 .. 127
      /\ "H" \in F <=> (x % 16) + (y % 16) + c \notin 0 .. 15
      /\ "Z" \in F <=> u % 256 = 0
      /\ ("S" \in F <=> "P" \notin F) <=> s < 0
      /\ "N" \notin F

LEMMA AddLeaves ==
  ASSUME NEW x \in Byte, NEW y \in Byte, NEW c \in {0, 1}
  PROVE  AddSays(x, y, c, FlagsAdd8(x, y, c).res, FlagsAdd8(x, y, c).f)
<1>1. PICK s \in Byte, h \in {0, 1}, k \in {0, 1} :
             /\ Add8(x, y, c) = [res |-> s, half |-> h, carry |-> k]
             /\ 256 * k + s = x + y + c
             /\ h = 1 <=> (x % 16) + (y % 16) + c > 15
  BY Add8IsSum, ZenonT(40)
<1> DEFINE out == FlagsAdd8(x, y, c)
<1>2. /\ out.res = s
      /\ out.f = SZXY(s) \cup Flag("H", h = 1) \cup Flag("C", k = 1)
                  \cup Flag("P", AddOverflows(x, y, s, 128))
  BY <1>1 DEF FlagsAdd8
<1> HIDE DEF out
<1>3. /\ "C" \in out.f <=> k = 1
      /\ "P" \in out.f <=> AddOverflows(x, y, s, 128)
      /\ "H" \in out.f <=> h = 1
      /\ "Z" \in out.f <=> s = 0
      /\ "S" \in out.f <=> s >= 128
      /\ "N" \notin out.f
  BY <1>2 DEF SZXY, XY, Flag
<1>5. s = (x + y + c) % 256 /\ (k = 1 <=> x + y + c \notin Byte)
  BY <1>1 DEF Byte
<1>6. (x % 16) + (y % 16) + c > 15 <=> (x % 16) + (y % 16) + c \notin 0 .. 15
  BY Nibbles
<1>7. /\ AddOverflows(x, y, s, 128) <=> Signed(x) + Signed(y) + c \notin -128 .. 127
      /\ (s >= 128 <=> ~AddOverflows(x, y, s, 128)) <=> Signed(x) + Signed(y) + c < 0
  BY <1>1 DEF AddOverflows, Signed, Byte
<1>8. ("S" \in out.f <=> "P" \notin out.f) <=> Signed(x) + Signed(y) + c < 0
  BY <1>3, <1>7
<1>9. "H" \in out.f <=> (x % 16) + (y % 16) + c \notin 0 .. 15
  BY <1>1, <1>3, <1>6
<1>10. "Z" \in out.f <=> (x + y + c) % 256 = 0
  BY <1>3, <1>5
<1> QED
  BY <1>2, <1>3, <1>5, <1>7, <1>8, <1>9, <1>10 DEF out, AddSays

\* And what a subtract or a compare leaves.
SubSays(x, y, c, res, F) ==
  LET u == x - y - c
      s == Signed(x) - Signed(y) - c
  IN  /\ res = u % 256
      /\ "C" \in F <=> u \notin Byte
      /\ "P" \in F <=> s \notin -128 .. 127
      /\ "H" \in F <=> (x % 16) - (y % 16) - c \notin 0 .. 15
      /\ "Z" \in F <=> u % 256 = 0
      /\ ("S" \in F <=> "P" \notin F) <=> s < 0
      /\ "N" \in F

LEMMA SubLeaves ==
  ASSUME NEW x \in Byte, NEW y \in Byte, NEW c \in {0, 1}, NEW isCp \in BOOLEAN
  PROVE  SubSays(x, y, c, FlagsSub8(x, y, c, isCp).res, FlagsSub8(x, y, c, isCp).f)
<1>1. PICK s \in Byte, h \in {0, 1}, k \in {0, 1} :
             /\ Sub8(x, y, c) = [res |-> s, half |-> h, carry |-> k]
             /\ s - 256 * k = x - y - c
             /\ h = 1 <=> (x % 16) - (y % 16) - c < 0
  BY Sub8IsDifference, ZenonT(40)
<1> DEFINE out == FlagsSub8(x, y, c, isCp)
<1>2. /\ out.res = s
      /\ out.f = {"N"} \cup Flag("S", s >= 128) \cup Flag("Z", s = 0)
                  \cup XY(IF isCp THEN y ELSE s)
                  \cup Flag("H", h = 1) \cup Flag("C", k = 1)
                  \cup Flag("P", SubOverflows(x, y, s, 128))
  BY <1>1 DEF FlagsSub8
<1> HIDE DEF out
<1>3. /\ "C" \in out.f <=> k = 1
      /\ "P" \in out.f <=> SubOverflows(x, y, s, 128)
      /\ "H" \in out.f <=> h = 1
      /\ "Z" \in out.f <=> s = 0
      /\ "S" \in out.f <=> s >= 128
      /\ "N" \in out.f
  BY <1>2 DEF XY, Flag
<1>5. s = (x - y - c) % 256 /\ (k = 1 <=> x - y - c \notin Byte)
  <2>1. x - y - c = s \/ x - y - c = s - 256
    BY <1>1 DEF Byte
  <2>2. \A z \in Byte : z % 256 = z /\ (z - 256) % 256 = z
    BY DEF Byte
  <2> QED
    BY <1>1, <2>1, <2>2 DEF Byte
<1>6. (x % 16) - (y % 16) - c < 0 <=> (x % 16) - (y % 16) - c \notin 0 .. 15
  BY Nibbles
<1>7. /\ SubOverflows(x, y, s, 128) <=> Signed(x) - Signed(y) - c \notin -128 .. 127
      /\ (s >= 128 <=> ~SubOverflows(x, y, s, 128)) <=> Signed(x) - Signed(y) - c < 0
  BY <1>1 DEF SubOverflows, Signed, Byte
<1>8. ("S" \in out.f <=> "P" \notin out.f) <=> Signed(x) - Signed(y) - c < 0
  BY <1>3, <1>7
<1>9. "H" \in out.f <=> (x % 16) - (y % 16) - c \notin 0 .. 15
  BY <1>1, <1>3, <1>6
<1>10. "Z" \in out.f <=> (x - y - c) % 256 = 0
  BY <1>3, <1>5
<1> QED
  BY <1>2, <1>3, <1>5, <1>7, <1>8, <1>9, <1>10 DEF out, SubSays

-----------------------------------------------------------------------------
\* A program of one instruction, not a block one, has either not started, and
\* the registers are those it starts from, or it has run.
Solo ==
  /\ start.a \in Byte /\ start.r \in Byte
  /\ start.hl \in Word /\ rp \in Word
  /\ Len(prog) = 1 => pc \in {1, 2} /\ last \in {"none", prog[1]}
  /\ Len(prog) = 1 /\ prog[1] \notin Blocks =>
       \/ pc = 1 /\ last = "none" /\ a = start.a /\ r = start.r /\ hl = start.hl /\ f = start.f
       \/ pc = 2 /\ last = prog[1]

AddOps == {"ADD", "ADC"}
SubOps == {"SUB", "SBC"}

LEMMA SoloInit == Init => Solo
BY StartsAssumption DEF Init, Solo

\* Every action runs the instruction at pc, and only a block one stays there,
\* or it writes the F that a block instruction left.
LEMMA StepIs ==
  ASSUME Next
  PROVE  \/ UNCHANGED vars
         \/ \E i \in Blocks : /\ Is(i) /\ Ran(i) /\ pc' \in {pc, pc + 1} /\ rp' = rp
                             /\ wbp' = TRUE
         \/ FireBlock
         \/ \E i : i \notin Blocks /\ i # "none" /\ Step(i) /\ rp' = rp
BY DEF Next, AluA, AluOps, IncDec, RotateA, RotA, Rotate, Rots, LeftRots, RightRots, BitUnit,
       Unary, CarryFlag, Load, LoadIR, In, PrefixM1, Prefix, Digits, AddWord,
       Ldir, Cpir, Inir, Round, Defer, Done, Blocks, regs

\* Writing that F leaves the registers and the program alone.
LEMMA FireIs ==
  ASSUME FireBlock
  PROVE  /\ wbp /\ last \in Blocks /\ wbp' = FALSE /\ last' = last /\ pc' = pc /\ at' = at
         /\ prog' = prog /\ start' = start /\ before' = before /\ q' = f'
         /\ UNCHANGED <<a, r, hl, rp, bc, wb_rep>>
BY DEF FireBlock, WriteF, regs

\* An F that waits is that of the instruction that ran last, a block one.
Owes ==
  /\ pc \in Nat \ {0}
  /\ wbp => /\ last \in Blocks /\ at \in 1 .. Len(prog) /\ prog[at] = last
            /\ pc \in {at, at + 1}

LEMMA OwesStep == Owes /\ [Next]_vars => Owes'
<1> SUFFICES ASSUME Owes, [Next]_vars PROVE Owes'
  OBVIOUS
<1>1. CASE UNCHANGED vars
  BY <1>1 DEF Owes, vars, regs
<1>2. ASSUME NEW i \in Blocks, Is(i), Ran(i), pc' \in {pc, pc + 1}
      PROVE  Owes'
  BY <1>2 DEF Owes, Is, Ran
<1>3. CASE FireBlock
  BY <1>3, FireIs DEF Owes
<1>4. ASSUME NEW i, Step(i)
      PROVE  Owes'
  BY <1>4 DEF Owes, Step, Is, Ran
<1> QED
  BY <1>1, <1>2, <1>3, <1>4, StepIs

LEMMA OwesAlways == Spec => []Owes
<1>1. Init => Owes
  BY DEF Init, Owes
<1> QED
  BY <1>1, OwesStep, PTL DEF Spec

LEMMA SoloStep == Solo /\ [Next]_vars => Solo'
<1> SUFFICES ASSUME Solo, [Next]_vars PROVE Solo'
  OBVIOUS
<1>1. CASE UNCHANGED vars
  BY <1>1 DEF Solo, vars, regs
<1>2. ASSUME NEW i \in Blocks, Is(i), Ran(i), pc' \in {pc, pc + 1}, rp' = rp
      PROVE  Solo'
  BY <1>2 DEF Solo, Is, Ran
<1>3. ASSUME NEW i, i \notin Blocks, Step(i), rp' = rp
      PROVE  Solo'
  BY <1>3 DEF Solo, Step, Is, Ran
<1>4. CASE FireBlock
  BY <1>4, FireIs DEF Solo, Blocks
<1> QED
  BY <1>1, <1>2, <1>3, <1>4, StepIs

\* The step that ends a program of one instruction runs it from the start.
LEMMA SoloRuns ==
  ASSUME Solo, Next, ~UNCHANGED vars, Finished', Len(prog') = 1, last' \notin Blocks
  PROVE  /\ Step(last')
         /\ start' = start /\ prog' = prog
         /\ a = start.a /\ r = start.r /\ hl = start.hl /\ f = start.f
<1>1. ~FireBlock
  BY FireIs
<1>2. ASSUME NEW i \in Blocks, Ran(i) PROVE FALSE
  BY <1>2 DEF Ran
<1>3. PICK i : Step(i)
  BY <1>1, <1>2, StepIs
<1>4. /\ last' = i /\ Step(last') /\ start' = start /\ prog' = prog /\ prog[pc] = last'
      /\ pc' = pc + 1 /\ pc <= Len(prog)
  BY <1>3 DEF Step, Is, Ran
<1> QED
  <2>0. Len(prog) = 1 /\ pc <= 1
    BY <1>4
  <2>1. pc = 1
    BY <2>0 DEF Solo
  <2>2. prog[1] \notin Blocks
    BY <1>4, <2>1
  <2> QED
    BY <1>4, <2>0, <2>1, <2>2 DEF Solo

\* An instruction of AluOps is AluA's, INC and DEC are IncDec's, and so on.
LEMMA Runs ==
  ASSUME Next, ~UNCHANGED vars
  PROVE  /\ last' \in AluOps =>
              LET out == AluOp(last', a, r, f)
              IN  a' = (IF last' = "CP" THEN a ELSE out.res) /\ f' = out.f
         /\ last' = "NEG" => a' = FlagsNeg(a).res /\ f' = FlagsNeg(a).f
         /\ last' = "INC" => r' = FlagsInc8(r, f).res /\ f' = FlagsInc8(r, f).f
         /\ last' = "DEC" => r' = FlagsDec8(r, f).res /\ f' = FlagsDec8(r, f).f
BY DEF Next, AluA, AluOps, IncDec, RotateA, RotA, Rotate, Rots, LeftRots, RightRots, BitUnit,
       Unary, CarryFlag, Load, LoadIR, In, PrefixM1, Prefix, Digits, AddWord,
       Ldir, Cpir, Inir, Round, FireBlock, Blocks, Done, Step, Ran, WriteF

\* ArithRight of the accumulator A and the flags F, as an operator: of x + y + c
\* or of x - y - c, and of a compare, which keeps the accumulator at kept.
ArithSays(A, F, isCp, kept, x, y, c, add) ==
  LET u == IF add THEN x + y + c ELSE x - y - c
      s == IF add THEN Signed(x) + Signed(y) + c ELSE Signed(x) - Signed(y) - c
      n == IF add THEN (x % 16) + (y % 16) + c ELSE (x % 16) - (y % 16) - c
  IN  /\ A = IF isCp THEN kept ELSE u % 256
      /\ "C" \in F <=> u \notin Byte
      /\ "P" \in F <=> s \notin -128 .. 127
      /\ "H" \in F <=> n \notin 0 .. 15
      /\ "Z" \in F <=> u % 256 = 0
      /\ ("S" \in F <=> "P" \notin F) <=> s < 0
      /\ "N" \in F <=> ~add

LEMMA AddIsArith ==
  ASSUME NEW x, NEW y, NEW c, NEW res, NEW F, NEW kept, AddSays(x, y, c, res, F)
  PROVE  ArithSays(res, F, FALSE, kept, x, y, c, TRUE)
BY Zenon DEF AddSays, ArithSays

LEMMA SubIsArith ==
  ASSUME NEW x, NEW y, NEW c, NEW res, NEW F, NEW kept, SubSays(x, y, c, res, F)
  PROVE  /\ ArithSays(res, F, FALSE, kept, x, y, c, FALSE)
         /\ ArithSays(kept, F, TRUE, kept, x, y, c, FALSE)
BY Zenon DEF SubSays, ArithSays

\* One instruction of A,x: ArithRight of what it leaves.
LEMMA ArithStep ==
  ASSUME Solo, ArithRight, [Next]_vars PROVE ArithRight'
<1>1. CASE UNCHANGED vars
  <2>1. /\ a' = a /\ r' = r /\ f' = f /\ prog' = prog /\ pc' = pc /\ last' = last
        /\ start' = start /\ wbp' = wbp
    BY <1>1 DEF vars, regs
  <2> DEFINE cin == IF last \in {"ADC", "SBC"} THEN Carry(start.f) ELSE 0
             x   == IF last = "NEG" THEN 0 ELSE start.a
             y   == IF last = "NEG" THEN start.a ELSE start.r
             add == last \in {"ADD", "ADC"}
  <2>2. SUFFICES ASSUME Finished', Len(prog') = 1,
                        last' \in {"ADD", "ADC", "SUB", "SBC", "CP", "NEG"}
                 PROVE  ArithSays(a', f', last' = "CP", start'.a, x', y', cin', add')
    BY Zenon DEF ArithRight, ArithSays
  <2>3. ArithSays(a, f, last = "CP", start.a, x, y, cin, add)
    <3>1. Finished /\ Len(prog) = 1 /\ last \in {"ADD", "ADC", "SUB", "SBC", "CP", "NEG"}
      BY <2>1, <2>2, Zenon DEF Finished
    <3> QED
      BY <3>1, Zenon DEF ArithRight, ArithSays
  <2> QED
    BY <2>1, <2>3, Zenon
<1>2. CASE Next /\ ~UNCHANGED vars
  <2> DEFINE cin == IF last' \in {"ADC", "SBC"} THEN Carry(start'.f) ELSE 0
             x   == IF last' = "NEG" THEN 0 ELSE start'.a
             y   == IF last' = "NEG" THEN start'.a ELSE start'.r
             add == last' \in {"ADD", "ADC"}
  <2>1. SUFFICES ASSUME Finished', Len(prog') = 1,
                        last' \in {"ADD", "ADC", "SUB", "SBC", "CP", "NEG"}
                 PROVE  ArithSays(a', f', last' = "CP", start'.a, x, y, cin, add)
    BY Zenon DEF ArithRight, ArithSays
  <2>2. /\ start' = start /\ a = start.a /\ r = start.r /\ f = start.f
        /\ start.a \in Byte /\ start.r \in Byte
    BY <1>2, <2>1, SoloRuns DEF Blocks, Solo
  <2>3. Carry(start.f) \in {0, 1} /\ 0 \in Byte
    BY DEF Carry, Byte
  <2>4. CASE last' \in {"ADD", "ADC"}
    <3>1. x = start.a /\ y = start.r /\ cin \in {0, 1} /\ add = TRUE /\ (last' = "CP") = FALSE
      BY <2>2, <2>3, <2>4
    <3>2. a' = FlagsAdd8(start.a, start.r, cin).res /\ f' = FlagsAdd8(start.a, start.r, cin).f
      BY <1>2, <2>2, <2>4, Runs DEF AluOps, AluOp
    <3>3. ArithSays(a', f', FALSE, start'.a, start.a, start.r, cin, TRUE)
      BY <2>2, <3>1, <3>2, AddLeaves, AddIsArith
    <3> QED
      BY <3>1, <3>3
  <2>5. CASE last' \in {"SUB", "SBC"}
    <3>1. x = start.a /\ y = start.r /\ cin \in {0, 1} /\ add = FALSE /\ (last' = "CP") = FALSE
      BY <2>2, <2>3, <2>5
    <3>2. /\ a' = FlagsSub8(start.a, start.r, cin, FALSE).res
          /\ f' = FlagsSub8(start.a, start.r, cin, FALSE).f
      BY <1>2, <2>2, <2>5, Runs DEF AluOps, AluOp
    <3>3. ArithSays(a', f', FALSE, start'.a, start.a, start.r, cin, FALSE)
      BY <2>2, <3>1, <3>2, SubLeaves, SubIsArith
    <3> QED
      BY <3>1, <3>3
  <2>6. CASE last' = "CP"
    <3>1. x = start.a /\ y = start.r /\ cin = 0 /\ add = FALSE /\ (last' = "CP") = TRUE
      BY <2>2, <2>6
    <3>2. a' = start'.a /\ f' = FlagsSub8(start.a, start.r, 0, TRUE).f
      BY <1>2, <2>2, <2>6, Runs DEF AluOps, AluOp
    <3>3. ArithSays(a', f', TRUE, start'.a, start.a, start.r, 0, FALSE)
      BY <2>2, <3>2, SubLeaves, SubIsArith
    <3> QED
      BY <3>1, <3>3
  <2>7. CASE last' = "NEG"
    <3>1. x = 0 /\ y = start.a /\ cin = 0 /\ add = FALSE /\ (last' = "CP") = FALSE
      BY <2>2, <2>7
    <3>2. /\ a' = FlagsSub8(0, start.a, 0, FALSE).res
          /\ f' = FlagsSub8(0, start.a, 0, FALSE).f
      BY <1>2, <2>2, <2>7, Runs DEF FlagsNeg
    <3>3. ArithSays(a', f', FALSE, start'.a, 0, start.a, 0, FALSE)
      BY <2>2, <2>3, <3>2, SubLeaves, SubIsArith
    <3> QED
      BY <3>1, <3>3
  <2> QED
    BY <2>1, <2>4, <2>5, <2>6, <2>7
<1> QED
  BY <1>1, <1>2

\* Every 8-bit add, subtract, compare and NEG, on any operands and flags, leaves
\* the integers' result and flags.
THEOREM ArithAlways == Spec => []ArithRight
<1>1. Init => Solo /\ ArithRight
  <2>1. Init => ArithRight
    BY DEF Init, ArithRight
  <2> QED
    BY <2>1, SoloInit
<1>2. Solo /\ ArithRight /\ [Next]_vars => Solo' /\ ArithRight'
  BY SoloStep, ArithStep
<1> QED
  BY <1>1, <1>2, PTL DEF Spec

-----------------------------------------------------------------------------
\* INC's own flag formulas are the adder's for x + 1, DEC's the subtracter's.
LEMMA IncIsAdd ==
  ASSUME NEW v \in Byte, NEW F
  PROVE  /\ FlagsInc8(v, F).res = FlagsAdd8(v, 1, 0).res
         /\ FlagsInc8(v, F).f \ {"C"} = FlagsAdd8(v, 1, 0).f \ {"C"}
         /\ "C" \in FlagsInc8(v, F).f <=> "C" \in F
<1>1. PICK s \in Byte, h \in {0, 1}, k \in {0, 1} :
             /\ Add8(v, 1, 0) = [res |-> s, half |-> h, carry |-> k]
             /\ 256 * k + s = v + 1 + 0
             /\ h = 1 <=> (v % 16) + (1 % 16) + 0 > 15
  <2>1. v \in Byte /\ 1 \in Byte /\ 0 \in {0, 1}
    BY DEF Byte
  <2> QED
    BY <2>1, Add8IsSum
<1>2. s = (v + 1) % 256
  BY <1>1 DEF Byte
<1>3. h = 1 <=> v % 16 = 15
  BY <1>1, Nibbles
<1>4. AddOverflows(v, 1, s, 128) <=> v = 127
  BY <1>1 DEF AddOverflows, Byte
<1>5. /\ FlagsAdd8(v, 1, 0).res = s
      /\ FlagsAdd8(v, 1, 0).f = SZXY(s) \cup Flag("H", h = 1) \cup Flag("C", k = 1)
                                 \cup Flag("P", AddOverflows(v, 1, s, 128))
  BY <1>1 DEF FlagsAdd8
<1>6. /\ FlagsInc8(v, F).res = s
      /\ FlagsInc8(v, F).f = (F \cap {"C"}) \cup SZXY(s) \cup Flag("H", v % 16 = 15)
                                 \cup Flag("P", v = 127)
  BY <1>2 DEF FlagsInc8
<1>7. Flag("H", h = 1) = Flag("H", v % 16 = 15) /\ "C" \notin Flag("H", v % 16 = 15)
  BY <1>3 DEF Flag
<1>8. /\ Flag("P", AddOverflows(v, 1, s, 128)) = Flag("P", v = 127)
      /\ "C" \notin Flag("P", v = 127)
  BY <1>4 DEF Flag
<1>9. "C" \notin SZXY(s) /\ Flag("C", k = 1) \subseteq {"C"}
  BY DEF SZXY, XY, Flag
<1>10. FlagsAdd8(v, 1, 0).f = SZXY(s) \cup Flag("H", v % 16 = 15) \cup Flag("C", k = 1)
                               \cup Flag("P", v = 127)
  BY <1>5, <1>7, <1>8
<1>11. FlagsAdd8(v, 1, 0).f \ {"C"} = SZXY(s) \cup Flag("H", v % 16 = 15) \cup Flag("P", v = 127)
  BY <1>7, <1>8, <1>9, <1>10
<1>12. /\ FlagsInc8(v, F).f \ {"C"} = SZXY(s) \cup Flag("H", v % 16 = 15) \cup Flag("P", v = 127)
       /\ "C" \in FlagsInc8(v, F).f <=> "C" \in F
  BY <1>6, <1>7, <1>8, <1>9
<1> QED
  BY <1>5, <1>6, <1>11, <1>12

LEMMA DecIsSub ==
  ASSUME NEW v \in Byte, NEW F
  PROVE  /\ FlagsDec8(v, F).res = FlagsSub8(v, 1, 0, FALSE).res
         /\ FlagsDec8(v, F).f \ {"C"} = FlagsSub8(v, 1, 0, FALSE).f \ {"C"}
         /\ "C" \in FlagsDec8(v, F).f <=> "C" \in F
<1>1. PICK s \in Byte, h \in {0, 1}, k \in {0, 1} :
             /\ Sub8(v, 1, 0) = [res |-> s, half |-> h, carry |-> k]
             /\ s - 256 * k = v - 1 - 0
             /\ h = 1 <=> (v % 16) - (1 % 16) - 0 < 0
  <2>1. v \in Byte /\ 1 \in Byte /\ 0 \in {0, 1}
    BY DEF Byte
  <2> QED
    BY <2>1, Sub8IsDifference
<1>2. s = (v - 1) % 256
  <2>1. CASE v = 0
    <3>1. s = 255
      BY <1>1, <2>1 DEF Byte
    <3>2. \A z \in Byte : (z - 256) % 256 = z
      BY DEF Byte
    <3>3. (255 - 256) % 256 = 255 /\ v - 1 = 255 - 256
      BY <2>1, <3>2 DEF Byte
    <3> QED
      BY <3>1, <3>3
  <2>2. CASE v # 0
    BY <1>1, <2>2 DEF Byte
  <2> QED
    BY <2>1, <2>2
<1>3. h = 1 <=> v % 16 = 0
  BY <1>1, Nibbles
<1>4. SubOverflows(v, 1, s, 128) <=> v = 128
  BY <1>1 DEF SubOverflows, Byte
<1>5. /\ FlagsSub8(v, 1, 0, FALSE).res = s
      /\ FlagsSub8(v, 1, 0, FALSE).f = {"N"} \cup Flag("S", s >= 128) \cup Flag("Z", s = 0)
             \cup XY(s) \cup Flag("H", h = 1) \cup Flag("C", k = 1)
             \cup Flag("P", SubOverflows(v, 1, s, 128))
  BY <1>1 DEF FlagsSub8
<1>6. /\ FlagsDec8(v, F).res = s
      /\ FlagsDec8(v, F).f = (F \cap {"C"}) \cup {"N"}
             \cup (Flag("S", s >= 128) \cup Flag("Z", s = 0) \cup XY(s))
             \cup Flag("H", v % 16 = 0) \cup Flag("P", v = 128)
  BY <1>2 DEF FlagsDec8, SZXY
<1>7. Flag("H", h = 1) = Flag("H", v % 16 = 0) /\ "C" \notin Flag("H", v % 16 = 0)
  BY <1>3 DEF Flag
<1>8. /\ Flag("P", SubOverflows(v, 1, s, 128)) = Flag("P", v = 128)
      /\ "C" \notin Flag("P", v = 128)
  BY <1>4 DEF Flag
<1>9. /\ "C" \notin Flag("S", s >= 128) /\ "C" \notin Flag("Z", s = 0) /\ "C" \notin XY(s)
      /\ Flag("C", k = 1) \subseteq {"C"}
  BY DEF XY, Flag
<1> DEFINE rest == {"N"} \cup Flag("S", s >= 128) \cup Flag("Z", s = 0) \cup XY(s)
                      \cup Flag("H", v % 16 = 0) \cup Flag("P", v = 128)
<1>10. "C" \notin rest
  BY <1>7, <1>8, <1>9
<1>11. FlagsSub8(v, 1, 0, FALSE).f = rest \cup Flag("C", k = 1)
  <2>1. FlagsSub8(v, 1, 0, FALSE).f = {"N"} \cup Flag("S", s >= 128) \cup Flag("Z", s = 0)
             \cup XY(s) \cup Flag("H", v % 16 = 0) \cup Flag("C", k = 1)
             \cup Flag("P", v = 128)
    BY <1>5, <1>7, <1>8
  <2> QED
    BY <2>1, Zenon
<1>12. FlagsDec8(v, F).f = rest \cup (F \cap {"C"})
  BY <1>6, ZenonT(40)
<1> HIDE DEF rest
<1>13. FlagsSub8(v, 1, 0, FALSE).f \ {"C"} = rest
  BY <1>9, <1>10, <1>11
<1>14. FlagsDec8(v, F).f \ {"C"} = rest /\ ("C" \in FlagsDec8(v, F).f <=> "C" \in F)
  BY <1>10, <1>12
<1> QED
  BY <1>5, <1>6, <1>13, <1>14

LEMMA IncDecStep ==
  ASSUME Solo, IncDecRight, [Next]_vars PROVE IncDecRight'
<1>1. CASE UNCHANGED vars
  BY <1>1 DEF IncDecRight, Finished, vars, regs
<1>2. CASE Next /\ ~UNCHANGED vars
  <2>1. SUFFICES ASSUME Finished', Len(prog') = 1, last' \in {"INC", "DEC"}
                 PROVE  IncDecRight'
    BY DEF IncDecRight, Finished
  <2>2. start' = start /\ r = start.r /\ f = start.f /\ start.r \in Byte
    BY <1>2, <2>1, SoloRuns DEF Blocks, Solo
  <2>3. CASE last' = "INC"
    BY <1>2, <2>2, <2>3, Runs, IncIsAdd DEF IncDecRight, AluOp
  <2>4. CASE last' = "DEC"
    <3>1. r' = FlagsDec8(start.r, start.f).res /\ f' = FlagsDec8(start.r, start.f).f
      BY <1>2, <2>2, <2>4, Runs
    <3>2. AluOp("SUB", start.r, 1, start.f) = FlagsSub8(start.r, 1, 0, FALSE)
      BY DEF AluOp
    <3>3. /\ r' = FlagsSub8(start.r, 1, 0, FALSE).res
          /\ f' \ {"C"} = FlagsSub8(start.r, 1, 0, FALSE).f \ {"C"}
          /\ "C" \in f' <=> "C" \in start.f
      BY <2>2, <3>1, DecIsSub
    <3> QED
      BY <2>1, <2>2, <2>4, <3>2, <3>3 DEF IncDecRight
  <2> QED
    BY <2>1, <2>3, <2>4
<1> QED
  BY <1>1, <1>2

\* INC and DEC, whose flags have formulas of their own, agree with the adder on
\* every byte, and keep C.
THEOREM IncDecAlways == Spec => []IncDecRight
<1>1. Init => Solo /\ IncDecRight
  <2>1. Init => IncDecRight
    BY DEF Init, IncDecRight
  <2> QED
    BY <2>1, SoloInit
<1>2. Solo /\ IncDecRight /\ [Next]_vars => Solo' /\ IncDecRight'
  BY SoloStep, IncDecStep
<1> QED
  BY <1>1, <1>2, PTL DEF Spec

-----------------------------------------------------------------------------
\* Q is the F of the instruction before pc, or no flag where that wrote none;
\* between the rounds of a block instruction it is that one's.
QInv ==
  /\ Owes
  /\ pc > 1 /\ ~wbp /\ ~(pc <= Len(prog) /\ prog[pc] \in Blocks) =>
       q = IF prog[pc - 1] \in Silent \cup Prefix THEN {} ELSE f

\* What each step leaves in Q, and what SCF and CCF leave in F.
LEMMA StepQ ==
  ASSUME Next, ~UNCHANGED vars
  PROVE  /\ prog' = prog
         /\ \/ FireBlock
            \/ /\ Is(last') /\ last' \in Blocks /\ pc' \in {pc, pc + 1} /\ wbp' = TRUE
               /\ f' = f /\ q' = q
            \/ /\ Is(last') /\ last' \notin Blocks /\ pc' = pc + 1 /\ before' = f
               /\ q' = IF last' \in Silent \cup Prefix THEN {} ELSE f'
         /\ last' = "SCF" => f' = FlagsScf(a, f, q) /\ a' = a
         /\ last' = "CCF" => f' = FlagsCcf(a, f, q) /\ a' = a
BY DEF Next, AluA, AluOps, IncDec, RotateA, RotA, Rotate, Rots, LeftRots, RightRots, BitUnit,
       Unary, CarryFlag, Load, LoadIR, In, PrefixM1, Prefix, Silent, Digits, AddWord,
       Ldir, Cpir, Inir, Round, Defer, FireBlock, Done, Blocks, Step, Ran, WriteF, KeepF, regs

LEMMA QStep ==
  ASSUME QInv, [Next]_vars PROVE QInv'
<1>1. CASE UNCHANGED vars
  BY <1>1 DEF QInv, Owes, vars, regs
<1>2. CASE Next /\ ~UNCHANGED vars
  <2>1. Owes'
    BY <1>2, OwesStep DEF QInv
  <2>2. CASE FireBlock
    BY <2>1, <2>2, FireIs DEF QInv, Owes, Blocks, Silent, Prefix
  <2>3. CASE ~FireBlock
    <3>1. CASE last' \in Blocks
      BY <1>2, <2>1, <2>3, <3>1, StepQ DEF QInv
    <3>2. CASE last' \notin Blocks
      <4>1. /\ Is(last') /\ pc' = pc + 1 /\ prog' = prog
            /\ q' = IF last' \in Silent \cup Prefix THEN {} ELSE f'
        BY <1>2, <2>3, <3>2, StepQ
      <4>2. prog'[pc' - 1] = last'
        BY <4>1 DEF Is, QInv, Owes
      <4> QED
        BY <2>1, <4>1, <4>2 DEF QInv
    <3> QED
      BY <3>1, <3>2
  <2> QED
    BY <2>2, <2>3
<1> QED
  BY <1>1, <1>2

\* X and Y of SCF and CCF, as sets of flags.
LEMMA LeakXY ==
  ASSUME NEW v, NEW F, NEW Q
  PROVE  /\ FlagsScf(v, F, Q) \cap {"X", "Y"} = XYofQ(v, F, Q)
         /\ FlagsCcf(v, F, Q) \cap {"X", "Y"} = XYofQ(v, F, Q)
         /\ Q = {} => XYofQ(v, F, Q) = XY(v) \cup (F \cap {"X", "Y"})
         /\ Q = F => XYofQ(v, F, Q) = XY(v)
<1>1. XYofQ(v, F, Q) \subseteq {"X", "Y"}
  BY DEF XYofQ, XY, Flag
<1>2. FlagsScf(v, F, Q) \cap {"X", "Y"} = XYofQ(v, F, Q)
  BY <1>1 DEF FlagsScf
<1>3. FlagsCcf(v, F, Q) \cap {"X", "Y"} = XYofQ(v, F, Q)
  BY <1>1 DEF FlagsCcf
<1> QED
  BY <1>2, <1>3 DEF XYofQ

LEMMA QLeakStep ==
  ASSUME QInv, QLeak, [Next]_vars PROVE QLeak'
<1>1. CASE UNCHANGED vars
  BY <1>1 DEF QLeak, vars, regs
<1>2. CASE Next /\ ~UNCHANGED vars
  <2>1. SUFFICES ASSUME last' \in {"SCF", "CCF"}, pc' > 2
                 PROVE  QLeak'
    BY DEF QLeak
  <2>2. /\ pc' = pc + 1 /\ prog' = prog /\ before' = f /\ a' = a
        /\ pc <= Len(prog) /\ prog[pc] = last'
        /\ f' \in {FlagsScf(a, f, q), FlagsCcf(a, f, q)} /\ ~wbp
    BY <1>2, <2>1, StepQ, FireIs DEF Is, Blocks
  <2>3. q = IF prog[pc - 1] \in Silent \cup Prefix THEN {} ELSE f
    BY <2>1, <2>2 DEF QInv, Owes, Blocks
  <2>4. f' \cap {"X", "Y"} = XYofQ(a, f, q)
    BY <2>2, LeakXY
  <2>5. pc' - 2 = pc - 1
    BY <2>2 DEF QInv, Owes
  <2>6. CASE prog[pc - 1] \in Silent \cup Prefix
    BY <2>1, <2>2, <2>3, <2>4, <2>5, <2>6, LeakXY DEF QLeak
  <2>7. CASE prog[pc - 1] \notin Silent \cup Prefix
    BY <2>1, <2>2, <2>3, <2>4, <2>5, <2>7, LeakXY DEF QLeak
  <2> QED
    BY <2>6, <2>7
<1> QED
  BY <1>1, <1>2

\* SCF and CCF find in Q whether the instruction before them wrote F: their X
\* and Y come from A alone right after one that did, from A and F after one
\* that did not, whatever the program.
THEOREM QLeakAlways == Spec => []QLeak
<1>1. Init => QInv /\ QLeak
  BY DEF Init, QInv, Owes, QLeak
<1>2. QInv /\ QLeak /\ [Next]_vars => QInv' /\ QLeak'
  BY QStep, QLeakStep
<1> QED
  BY <1>1, <1>2, PTL DEF Spec

-----------------------------------------------------------------------------
\* Decimal arithmetic: a packed BCD result and its carry.
DecimalSays(d, res, F) ==
  /\ IsBcd(res)
  /\ Decimal(res) = d % 100
  /\ "C" \in F <=> d \notin 0 .. 99

\* A byte, its half carry and its carry are the sum's, the difference's.
SumOf(x, y, c, s, h, k) ==
  256 * k + s = x + y + c /\ (h = 1 <=> (x % 16) + (y % 16) + c > 15)
DifferenceOf(x, y, c, s, h, k) ==
  s - 256 * k = x - y - c /\ (h = 1 <=> (x % 16) - (y % 16) - c < 0)

\* DAA corrects the binary sum s of two decimal bytes: digit by digit, the 6
\* it adds to a digit above 9 is the 6 that the digit's carry is worth.
LEMMA DaaSum ==
  ASSUME NEW x \in Byte, NEW y \in Byte, NEW c \in {0, 1}, IsBcd(x), IsBcd(y),
         NEW s \in Byte, NEW h \in {0, 1}, NEW k \in {0, 1}, 
         SumOf(x, y, c, s, h, k),
         NEW F, "N" \notin F, "H" \in F <=> h = 1, "C" \in F <=> k = 1
  PROVE  DecimalSays(Decimal(x) + Decimal(y) + c, FlagsDaa(s, F).res, FlagsDaa(s, F).f)
<1> DEFINE xl == x % 16  xh == x \div 16 yl == y % 16 yh == y \div 16
           low == "H" \in F \/ s % 16 > 9
           high == "C" \in F \/ s > 153
           adj == (s + ((IF low THEN 6 ELSE 0) + (IF high THEN 96 ELSE 0))) % 256
           lo == xl + yl + c
           hi == xh + yh + (IF lo > 9 THEN 1 ELSE 0)
<1>1. /\ xl \in 0 .. 9 /\ xh \in 0 .. 9 /\ x = 16 * xh + xl
      /\ yl \in 0 .. 9 /\ yh \in 0 .. 9 /\ y = 16 * yh + yl
  BY DEF IsBcd, Byte
<1>2. low <=> lo > 9
  BY <1>1 DEF Byte, SumOf
<1>3. high <=> hi > 9
  BY <1>1, <1>2 DEF Byte, SumOf
<1>4. adj = 16 * (IF hi > 9 THEN hi - 10 ELSE hi) + (IF lo > 9 THEN lo - 10 ELSE lo)
  BY <1>1, <1>2, <1>3 DEF Byte, SumOf
<1>5. FlagsDaa(s, F).res = adj /\ ("C" \in FlagsDaa(s, F).f <=> high)
  BY DEF FlagsDaa, SZPXY, SZXY, XY, Flag
<1> DEFINE l == IF lo > 9 THEN lo - 10 ELSE lo
           g == IF hi > 9 THEN hi - 10 ELSE hi
<1>6. l \in 0 .. 9 /\ g \in 0 .. 9
  BY <1>1
<1>7. adj = 16 * g + l
  BY <1>4
<1>8. /\ Decimal(x) = 10 * xh + xl
      /\ Decimal(y) = 10 * yh + yl
  BY DEF Decimal
<1>9. Decimal(x) + Decimal(y) + c = 10 * g + l + (IF hi > 9 THEN 100 ELSE 0)
  BY <1>1, <1>8, SMTT(40)
<1> HIDE DEF xl, xh, yl, yh, low, high, adj, lo, hi, l, g
<1>10. adj \in Byte /\ adj % 16 = l /\ adj \div 16 = g
  BY <1>6, <1>7 DEF Byte
<1>11. IsBcd(adj) /\ Decimal(adj) = 10 * g + l
  BY <1>6, <1>10 DEF IsBcd, Decimal
<1>12. \A z \in 0 .. 99 : z % 100 = z /\ (z + 100) % 100 = z
  OBVIOUS
<1>13. 10 * g + l \in 0 .. 99
  BY <1>6
<1>14. /\ (Decimal(x) + Decimal(y) + c) % 100 = 10 * g + l
       /\ Decimal(x) + Decimal(y) + c \notin 0 .. 99 <=> hi > 9
  BY <1>9, <1>12, <1>13
<1> QED
  BY <1>3, <1>5, <1>11, <1>14 DEF DecimalSays

\* And their binary difference, where a digit borrowed.
LEMMA DaaDifference ==
  ASSUME NEW x \in Byte, NEW y \in Byte, NEW c \in {0, 1}, IsBcd(x), IsBcd(y),
         NEW s \in Byte, NEW h \in {0, 1}, NEW k \in {0, 1}, 
         DifferenceOf(x, y, c, s, h, k),
         NEW F, "N" \in F, "H" \in F <=> h = 1, "C" \in F <=> k = 1
  PROVE  DecimalSays(Decimal(x) - Decimal(y) - c, FlagsDaa(s, F).res, FlagsDaa(s, F).f)
<1> DEFINE xl == x % 16  xh == x \div 16 yl == y % 16 yh == y \div 16
           low == "H" \in F \/ s % 16 > 9
           high == "C" \in F \/ s > 153
           adj == (s - ((IF low THEN 6 ELSE 0) + (IF high THEN 96 ELSE 0))) % 256
           lo == xl - yl - c
           hi == xh - yh - (IF lo < 0 THEN 1 ELSE 0)
<1>1. /\ xl \in 0 .. 9 /\ xh \in 0 .. 9 /\ x = 16 * xh + xl
      /\ yl \in 0 .. 9 /\ yh \in 0 .. 9 /\ y = 16 * yh + yl
  BY DEF IsBcd, Byte
<1>2. low <=> lo < 0
  BY <1>1, SMTT(40) DEF Byte, DifferenceOf
<1>3. high <=> hi < 0
  BY <1>1, <1>2 DEF Byte, DifferenceOf
<1>4. adj = 16 * (IF hi < 0 THEN hi + 10 ELSE hi) + (IF lo < 0 THEN lo + 10 ELSE lo)
  BY <1>1, <1>2, <1>3 DEF Byte, DifferenceOf
<1>5. FlagsDaa(s, F).res = adj /\ ("C" \in FlagsDaa(s, F).f <=> high)
  BY DEF FlagsDaa, SZPXY, SZXY, XY, Flag
<1> DEFINE l == IF lo < 0 THEN lo + 10 ELSE lo
           g == IF hi < 0 THEN hi + 10 ELSE hi
<1>6. l \in 0 .. 9 /\ g \in 0 .. 9
  BY <1>1
<1>7. adj = 16 * g + l
  BY <1>4
<1>8. /\ Decimal(x) = 10 * xh + xl
      /\ Decimal(y) = 10 * yh + yl
  BY DEF Decimal
<1>9. Decimal(x) - Decimal(y) - c = 10 * g + l - (IF hi < 0 THEN 100 ELSE 0)
  BY <1>1, <1>8, SMTT(40)
<1> HIDE DEF xl, xh, yl, yh, low, high, adj, lo, hi, l, g
<1>10. adj \in Byte /\ adj % 16 = l /\ adj \div 16 = g
  BY <1>6, <1>7 DEF Byte
<1>11. IsBcd(adj) /\ Decimal(adj) = 10 * g + l
  BY <1>6, <1>10 DEF IsBcd, Decimal
<1>12. \A z \in 0 .. 99 : z % 100 = z /\ (z - 100) % 100 = z
  OBVIOUS
<1>13. 10 * g + l \in 0 .. 99
  BY <1>6
<1>14. /\ (Decimal(x) - Decimal(y) - c) % 100 = 10 * g + l
       /\ Decimal(x) - Decimal(y) - c \notin 0 .. 99 <=> hi < 0
  BY <1>9, <1>12, <1>13
<1> QED
  BY <1>3, <1>5, <1>11, <1>14 DEF DecimalSays

LEMMA DaaAfterAdd ==
  ASSUME NEW x \in Byte, NEW y \in Byte, NEW c \in {0, 1}, IsBcd(x), IsBcd(y)
  PROVE  LET out == FlagsAdd8(x, y, c)
         IN  DecimalSays(Decimal(x) + Decimal(y) + c,
                         FlagsDaa(out.res, out.f).res, FlagsDaa(out.res, out.f).f)
<1>1. PICK s \in Byte, h \in {0, 1}, k \in {0, 1} :
             /\ Add8(x, y, c) = [res |-> s, half |-> h, carry |-> k]
             /\ 256 * k + s = x + y + c
             /\ h = 1 <=> (x % 16) + (y % 16) + c > 15
  BY Add8IsSum, ZenonT(40)
<1> DEFINE out == FlagsAdd8(x, y, c)
<1>2. /\ out.res = s
      /\ "N" \notin out.f
      /\ "H" \in out.f <=> h = 1
      /\ "C" \in out.f <=> k = 1
  BY <1>1 DEF FlagsAdd8, SZXY, XY, Flag
<1> HIDE DEF out
<1>3. DecimalSays(Decimal(x) + Decimal(y) + c, FlagsDaa(s, out.f).res, FlagsDaa(s, out.f).f)
  <2>1. SumOf(x, y, c, s, h, k)
    BY <1>1 DEF SumOf
  <2> QED
    BY <1>2, <2>1, DaaSum
<1> QED
  BY <1>2, <1>3 DEF out

LEMMA DaaAfterSub ==
  ASSUME NEW x \in Byte, NEW y \in Byte, NEW c \in {0, 1}, IsBcd(x), IsBcd(y)
  PROVE  LET out == FlagsSub8(x, y, c, FALSE)
         IN  DecimalSays(Decimal(x) - Decimal(y) - c,
                         FlagsDaa(out.res, out.f).res, FlagsDaa(out.res, out.f).f)
<1>1. PICK s \in Byte, h \in {0, 1}, k \in {0, 1} :
             /\ Sub8(x, y, c) = [res |-> s, half |-> h, carry |-> k]
             /\ s - 256 * k = x - y - c
             /\ h = 1 <=> (x % 16) - (y % 16) - c < 0
  BY Sub8IsDifference, ZenonT(40)
<1> DEFINE out == FlagsSub8(x, y, c, FALSE)
<1>2. /\ out.res = s
      /\ "N" \in out.f
      /\ "H" \in out.f <=> h = 1
      /\ "C" \in out.f <=> k = 1
  BY <1>1 DEF FlagsSub8, XY, Flag
<1> HIDE DEF out
<1>3. DecimalSays(Decimal(x) - Decimal(y) - c, FlagsDaa(s, out.f).res, FlagsDaa(s, out.f).f)
  <2>1. DifferenceOf(x, y, c, s, h, k)
    BY <1>1 DEF DifferenceOf
  <2> QED
    BY <1>2, <2>1, DaaDifference
<1> QED
  BY <1>2, <1>3 DEF out

\* Where a decimal program stands: at the start, or after its binary operation.
FirstOut ==
  IF prog[1] = "NEG" THEN FlagsSub8(0, start.a, 0, FALSE)
                     ELSE AluOp(prog[1], start.a, start.r, start.f)
BcdInv ==
  /\ Owes
  /\ start.a \in Byte /\ start.r \in Byte
  /\ DecimalProgram =>
       /\ pc \in 1 .. 3
       /\ pc = 1 => a = start.a /\ r = start.r /\ f = start.f
       /\ pc = 2 => a = FirstOut.res /\ f = FirstOut.f

LEMMA BcdInit == Init => BcdInv
BY StartsAssumption DEF Init, BcdInv, Owes

\* None of a decimal program's two instructions is a block one.
LEMMA NotDecimal ==
  ASSUME DecimalProgram, NEW i \in 1 .. Len(prog) PROVE prog[i] \notin Blocks
<1>1. i = 1 \/ i = 2
  BY SMT DEF DecimalProgram
<1> QED
  BY <1>1, Zenon DEF DecimalProgram, DecimalOps, Blocks

\* A decimal program still has an instruction to run where anything runs.
LEMMA InDecimal ==
  ASSUME Owes, Next, ~UNCHANGED vars, DecimalProgram PROVE pc <= Len(prog)
<1>1. ~FireBlock
  BY FireIs, NotDecimal DEF Owes
<1> QED
  BY <1>1, StepIs DEF Step, Is

\* The binary operation, and DAA, as Next runs them.
LEMMA RunsDecimal ==
  ASSUME Owes, Next, ~UNCHANGED vars, DecimalProgram, pc \in 1 .. 2
  PROVE  /\ prog' = prog /\ start' = start /\ pc' = pc + 1 /\ last' = prog[pc]
         /\ last' \in {"ADD", "ADC", "SUB", "SBC"} =>
              a' = AluOp(last', a, r, f).res /\ f' = AluOp(last', a, r, f).f
         /\ last' = "NEG" => a' = FlagsSub8(0, a, 0, FALSE).res /\ f' = FlagsSub8(0, a, 0, FALSE).f
         /\ last' = "DAA" => a' = FlagsDaa(a, f).res /\ f' = FlagsDaa(a, f).f
<1>1. ~FireBlock
  BY FireIs, NotDecimal DEF Owes
<1>2. Is(last') /\ prog' = prog /\ start' = start
  BY <1>1, StepIs DEF Step, Ran, Is
<1>3. last' = prog[pc] /\ last' \notin Blocks
  BY <1>2 DEF Is, Blocks, DecimalProgram, DecimalOps
<1>4. pc' = pc + 1
  BY <1>1, <1>3, StepIs DEF Step, Ran, Is
<1>5. last' = "DAA" => a' = FlagsDaa(a, f).res /\ f' = FlagsDaa(a, f).f
  BY DEF Next, AluA, AluOps, IncDec, RotateA, RotA, Rotate, Rots, LeftRots, RightRots, BitUnit,
         Unary, CarryFlag, Load, LoadIR, In, PrefixM1, Prefix, Digits, AddWord,
         Ldir, Cpir, Inir, Round, FireBlock, Blocks, Done, Step, Ran, WriteF
<1> QED
  BY <1>2, <1>3, <1>4, <1>5, Runs DEF FlagsNeg, AluOps

LEMMA BcdStep ==
  ASSUME BcdInv, [Next]_vars PROVE BcdInv'
<1>1. CASE UNCHANGED vars
  BY <1>1 DEF BcdInv, Owes, DecimalProgram, FirstOut, vars, regs
<1>2. CASE Next /\ ~UNCHANGED vars
  <2>1. prog' = prog /\ start' = start /\ (DecimalProgram' <=> DecimalProgram)
    BY <1>2, StepIs, FireIs DEF Step, Ran, DecimalProgram
  <2>o. Owes /\ Owes'
    BY <1>2, OwesStep DEF BcdInv
  <2>2. CASE DecimalProgram
    <3>1. pc \in 1 .. 2
      BY <1>2, <2>2, <2>o, InDecimal DEF BcdInv, DecimalProgram
    <3>2. pc' = pc + 1 /\ last' = prog[pc]
      BY <1>2, <2>o, <2>2, <3>1, RunsDecimal
    <3>3. ASSUME pc = 1 PROVE a' = FirstOut.res /\ f' = FirstOut.f
      BY <1>2, <2>o, <2>2, <3>1, <3>2, <3>3, RunsDecimal
         DEF BcdInv, FirstOut, DecimalProgram, DecimalOps
    <3>4. FirstOut' = FirstOut
      BY <2>1 DEF FirstOut
    <3> QED
      BY <2>1, <2>o, <2>2, <3>1, <3>2, <3>3, <3>4 DEF BcdInv
  <2> QED
    BY <2>1, <2>o, <2>2 DEF BcdInv
<1> QED
  BY <1>1, <1>2

LEMMA BcdRightStep ==
  ASSUME BcdInv, BcdRight, [Next]_vars PROVE BcdRight'
<1>1. CASE UNCHANGED vars
  BY <1>1 DEF BcdRight, Finished, DecimalProgram, vars, regs
<1>2. CASE Next /\ ~UNCHANGED vars
  <2>1. SUFFICES ASSUME Finished', DecimalProgram', IsBcd(start'.a), IsBcd(start'.r)
                 PROVE  BcdRight'
    BY DEF BcdRight
  <2>2. prog' = prog /\ start' = start /\ DecimalProgram
    BY <1>2, <2>1, StepIs, FireIs DEF Step, Ran, DecimalProgram
  <2>3. pc = 2 /\ last' = "DAA"
    <3>1. pc \in 1 .. 2
      BY <1>2, <2>2, InDecimal DEF BcdInv, DecimalProgram
    <3>2. pc' = pc + 1 /\ last' = prog[pc]
      BY <1>2, <2>2, <3>1, RunsDecimal DEF BcdInv
    <3>3. pc' > 2
      BY <2>1 DEF Finished, DecimalProgram
    <3>4. pc = 2
      BY <3>1, <3>2, <3>3
    <3> QED
      BY <2>2, <3>2, <3>4 DEF DecimalProgram
  <2>4. a' = FlagsDaa(FirstOut.res, FirstOut.f).res /\ f' = FlagsDaa(FirstOut.res, FirstOut.f).f
    BY <1>2, <2>2, <2>3, RunsDecimal DEF BcdInv
  <2>5. /\ start.a \in Byte /\ start.r \in Byte /\ IsBcd(start.a) /\ IsBcd(start.r)
        /\ Carry(start.f) \in {0, 1} /\ 0 \in Byte /\ IsBcd(0) /\ Decimal(0) = 0
    BY <2>1, <2>2 DEF BcdInv, Carry, Byte, IsBcd, Decimal
  <2> DEFINE c == IF prog[1] \in {"ADC", "SBC"} THEN Carry(start.f) ELSE 0
  <2>6. CASE prog[1] \in {"ADD", "ADC"}
    <3>1. FirstOut = FlagsAdd8(start.a, start.r, c)
      BY <2>6 DEF FirstOut, AluOp
    <3>2. DecimalSays(Decimal(start.a) + Decimal(start.r) + c, a', f')
      BY <2>4, <2>5, <3>1, DaaAfterAdd
    <3> QED
      BY <2>2, <2>6, <3>2 DEF BcdRight, DecimalSays
  <2>7. CASE prog[1] \in {"SUB", "SBC"}
    <3>1. FirstOut = FlagsSub8(start.a, start.r, c, FALSE)
      BY <2>7 DEF FirstOut, AluOp
    <3>2. DecimalSays(Decimal(start.a) - Decimal(start.r) - c, a', f')
      BY <2>4, <2>5, <3>1, DaaAfterSub
    <3> QED
      BY <2>2, <2>7, <3>2 DEF BcdRight, DecimalSays
  <2>8. CASE prog[1] = "NEG"
    <3>1. FirstOut = FlagsSub8(0, start.a, 0, FALSE)
      BY <2>8 DEF FirstOut
    <3>2. DecimalSays(Decimal(0) - Decimal(start.a) - 0, a', f')
      BY <2>4, <2>5, <3>1, DaaAfterSub
    <3>3. Decimal(0) - Decimal(start.a) - 0 = -Decimal(start.a)
      BY <2>5 DEF Decimal, Byte
    <3> QED
      BY <2>2, <2>8, <3>2, <3>3 DEF BcdRight, DecimalSays
  <2> QED
    BY <2>2, <2>6, <2>7, <2>8 DEF DecimalProgram, DecimalOps
<1> QED
  BY <1>1, <1>2

\* DAA after an add, a subtract or NEG of packed BCD: the decimal result and
\* the decimal carry, for all two-digit operands.
THEOREM BcdAlways == Spec => []BcdRight
<1>1. Init => BcdInv /\ BcdRight
  <2>1. Init => BcdRight
    <3>1. Init => pc = 1
      BY Zenon DEF Init
    <3>2. pc = 1 => ~(Finished /\ DecimalProgram)
      BY SMT DEF Finished, DecimalProgram
    <3> QED
      BY <3>1, <3>2, Zenon DEF BcdRight
  <2> QED
    BY <2>1, BcdInit
<1>2. BcdInv /\ BcdRight /\ [Next]_vars => BcdInv' /\ BcdRight'
  BY BcdStep, BcdRightStep
<1> QED
  BY <1>1, <1>2, PTL DEF Spec

-----------------------------------------------------------------------------
(***************************************************************************)
(* 16 bits. A word is two bytes, and the carries of the low byte's add and *)
(* of the high one's are the word's out of bits 7, 11 and 15.              *)
(***************************************************************************)
LEMMA ByteIs ==
  ASSUME NEW x \in Byte PROVE x \in Int /\ 0 <= x /\ x <= 255
BY SMT DEF Byte

LEMMA InByte ==
  ASSUME NEW x \in Int, 0 <= x, x <= 255 PROVE x \in Byte
BY SMT DEF Byte

\* A word's top: the provers enumerate an interval that ends in a number.
WordTop == 65535

LEMMA WordUpTo == Word = 0 .. WordTop /\ WordTop \in Int
BY SMT DEF Word, WordTop

LEMMA WordIs ==
  ASSUME NEW x \in Word PROVE x \in Int /\ 0 <= x /\ x <= 65535
<1>1. x \in 0 .. WordTop
  BY WordUpTo, Zenon
<1>2. x \in Int /\ 0 <= x /\ x <= WordTop
  BY <1>1, WordUpTo, SMT
<1> QED
  BY <1>2, SMT DEF WordTop

LEMMA BitIs ==
  ASSUME NEW c \in {0, 1} PROVE c \in Int /\ 0 <= c /\ c <= 1
BY SMT

\* A word is its high byte and its low one, and its low 12 bits are the low
\* byte and the high one's low nibble.
LEMMA WordHalves ==
  ASSUME NEW x \in Int, 0 <= x, x <= 65535
  PROVE  /\ 0 <= x \div 256 /\ x \div 256 <= 255 /\ 0 <= x % 256 /\ x % 256 <= 255
         /\ x \div 256 \in Int /\ x % 256 \in Int
         /\ x % 4096 = 256 * ((x \div 256) % 16) + (x % 256)
         /\ x >= 32768 <=> x \div 256 >= 128
BY SMT

LEMMA TopBits ==
  ASSUME NEW h \in Int, NEW l \in Int, 0 <= h, h <= 255, 0 <= l, l <= 255
  PROVE  /\ 256 * h + l \in Int /\ 0 <= 256 * h + l /\ 256 * h + l <= 65535
         /\ (256 * h + l) \div 256 = h
         /\ 256 * h + l >= 32768 <=> h >= 128
BY SMT

LEMMA WordBytes ==
  ASSUME NEW x \in Word
  PROVE  x \div 256 \in Byte /\ x % 256 \in Byte
<1>1. x \in Int /\ 0 <= x /\ x <= 65535
  BY WordIs
<1> QED
  BY <1>1, WordHalves, InByte

IsByte(v) == v \in Int /\ 0 <= v /\ v <= 255
IsWord(v) == v \in Int /\ 0 <= v /\ v <= 65535
IsBit(v)  == v \in Int /\ 0 <= v /\ v <= 1

\* t is u + w + c and k its carry, h that of the low nibbles; and for u - w - c.
Adds(u, w, c, t, h, k) ==
  256 * k + t = u + w + c /\ (h = 1 <=> (u % 16) + (w % 16) + c > 15)
Subtracts(u, w, c, t, h, k) ==
  t - 256 * k = u - w - c /\ (h = 1 <=> (u % 16) - (w % 16) - c < 0)

\* Add16, Adc16 and Sbc16 in parts: the result, C, H and P/V.
WordAdd(x, y, c)  == (x + y + c) % 65536
CarryAdd(x, y, c) == x + y + c >= 65536
HalfAdd(x, y, c)  == (x % 4096) + (y % 4096) + c >= 4096
OverAdd(x, y, c)  == AddOverflows(x, y, WordAdd(x, y, c), 32768)
WordSub(x, y, c)  == (x - y - c) % 65536
CarrySub(x, y, c) == x - y - c < 0
HalfSub(x, y, c)  == (x % 4096) - (y % 4096) - c < 0
OverSub(x, y, c)  == SubOverflows(x, y, WordSub(x, y, c), 32768)
NegWord(v) == v >= 32768

\* The carries of the low byte's add and of the high one's are the word's
\* carries out of bits 7, 11 and 15.
LEMMA AddChain ==
  ASSUME NEW x, NEW y, NEW c, NEW rl, NEW hlo, NEW cl, NEW rh, NEW hh, NEW ch,
         IsWord(x), IsWord(y), IsBit(c), IsByte(rl), IsBit(cl), IsByte(rh), IsBit(ch),
         Adds(x % 256, y % 256, c, rl, hlo, cl),
         Adds(x \div 256, y \div 256, cl, rh, hh, ch)
  PROVE  /\ WordAdd(x, y, c) = 256 * rh + rl
         /\ CarryAdd(x, y, c) <=> ch = 1
         /\ HalfAdd(x, y, c) <=> hh = 1
<1> USE DEF IsWord, IsByte, IsBit
<1>1. x + y + c = 65536 * ch + (256 * rh + rl)
  BY SMT DEF Adds
<1>2. WordAdd(x, y, c) = 256 * rh + rl
  BY <1>1, SMT DEF WordAdd
<1>3. CarryAdd(x, y, c) <=> ch = 1
  BY <1>1, SMT DEF CarryAdd
<1>4. HalfAdd(x, y, c) <=> ((x \div 256) % 16) + ((y \div 256) % 16) + cl > 15
  BY WordHalves, SMT DEF HalfAdd, Adds
<1>5. hh = 1 <=> ((x \div 256) % 16) + ((y \div 256) % 16) + cl > 15
  BY SMT DEF Adds
<1>6. HalfAdd(x, y, c) <=> hh = 1
  BY <1>4, <1>5
<1> HIDE DEF IsWord, IsByte, IsBit
<1> QED
  BY <1>2, <1>3, <1>6, Zenon

LEMMA SubChain ==
  ASSUME NEW x, NEW y, NEW c, NEW rl, NEW hlo, NEW cl, NEW rh, NEW hh, NEW ch,
         IsWord(x), IsWord(y), IsBit(c), IsByte(rl), IsBit(cl), IsByte(rh), IsBit(ch),
         Subtracts(x % 256, y % 256, c, rl, hlo, cl),
         Subtracts(x \div 256, y \div 256, cl, rh, hh, ch)
  PROVE  /\ WordSub(x, y, c) = 256 * rh + rl
         /\ CarrySub(x, y, c) <=> ch = 1
         /\ HalfSub(x, y, c) <=> hh = 1
<1> USE DEF IsWord, IsByte, IsBit
<1>1. x - y - c = (256 * rh + rl) - 65536 * ch
  BY SMT DEF Subtracts
<1>2. WordSub(x, y, c) = 256 * rh + rl
  BY <1>1, SMT DEF WordSub
<1>3. CarrySub(x, y, c) <=> ch = 1
  BY <1>1, SMT DEF CarrySub
<1>4. HalfSub(x, y, c) <=> ((x \div 256) % 16) - ((y \div 256) % 16) - cl < 0
  BY WordHalves, SMT DEF HalfSub, Subtracts
<1>5. hh = 1 <=> ((x \div 256) % 16) - ((y \div 256) % 16) - cl < 0
  BY SMT DEF Subtracts
<1>6. HalfSub(x, y, c) <=> hh = 1
  BY <1>4, <1>5
<1> HIDE DEF IsWord, IsByte, IsBit
<1> QED
  BY <1>2, <1>3, <1>6, Zenon

\* A subtract that is not a compare.
ByteSub(u, w, c) == FlagsSub8(u, w, c, FALSE)

\* F of a byte add and subtract, from the result, the half carry and the carry.
AddF(u, w, t, h, k) ==
  SZXY(t) \cup Flag("H", h = 1) \cup Flag("C", k = 1)
    \cup Flag("P", AddOverflows(u, w, t, 128))

SubF(u, w, t, h, k) ==
  {"N"} \cup Flag("S", t >= 128) \cup Flag("Z", t = 0) \cup XY(t)
    \cup Flag("H", h = 1) \cup Flag("C", k = 1)
    \cup Flag("P", SubOverflows(u, w, t, 128))

\* What the byte add and subtract hand to the next byte.
LEMMA AddHands ==
  ASSUME NEW u \in Byte, NEW w \in Byte, NEW c \in {0, 1}
  PROVE  LET t   == Add8(u, w, c).res
             h   == Add8(u, w, c).half
             k   == Add8(u, w, c).carry
             out == FlagsAdd8(u, w, c)
         IN  /\ IsByte(t) /\ h \in {0, 1} /\ k \in {0, 1} /\ IsBit(k)
             /\ Adds(u, w, c, t, h, k)
             /\ out.res = t /\ out.f = AddF(u, w, t, h, k) /\ Carry(out.f) = k
<1> DEFINE t   == Add8(u, w, c).res
           h   == Add8(u, w, c).half
           k   == Add8(u, w, c).carry
           out == FlagsAdd8(u, w, c)
<1>1. PICK t1 \in Byte, h1 \in {0, 1}, k1 \in {0, 1} :
             /\ Add8(u, w, c) = [res |-> t1, half |-> h1, carry |-> k1]
             /\ 256 * k1 + t1 = u + w + c
             /\ h1 = 1 <=> (u % 16) + (w % 16) + c > 15
  BY Add8IsSum, ZenonT(40)
<1>2. t = t1 /\ h = h1 /\ k = k1
  BY <1>1
<1>3. out.res = t /\ out.f = AddF(u, w, t, h, k)
  BY SMT DEF FlagsAdd8, AddF
<1> HIDE DEF t, h, k, out
<1>4. Adds(u, w, c, t, h, k)
  BY <1>1, <1>2, SMT DEF Adds
<1>5. "C" \in AddF(u, w, t, h, k) <=> k = 1
  BY SMT DEF AddF, SZXY, XY, Flag
<1>6. h \in {0, 1} /\ k \in {0, 1}
  BY <1>1, <1>2
<1>7. IsByte(t) /\ IsBit(k)
  <2>1. t \in Byte
    BY <1>1, <1>2
  <2> QED
    BY <2>1, <1>6, ByteIs, BitIs DEF IsByte, IsBit
<1>8. Carry(out.f) = k
  <2>1. CASE k = 1
    BY <1>3, <1>5, <2>1, Zenon DEF Carry
  <2>2. CASE k = 0
    <3>1. k # 1
      BY <2>2
    <3> QED
      BY <1>3, <1>5, <2>2, <3>1, Zenon DEF Carry
  <2> QED
    BY <1>6, <2>1, <2>2
<1> QED
  BY <1>3, <1>4, <1>6, <1>7, <1>8 DEF t, h, k, out

LEMMA SubHands ==
  ASSUME NEW u \in Byte, NEW w \in Byte, NEW c \in {0, 1}
  PROVE  LET t   == Sub8(u, w, c).res
             h   == Sub8(u, w, c).half
             k   == Sub8(u, w, c).carry
             out == ByteSub(u, w, c)
         IN  /\ IsByte(t) /\ h \in {0, 1} /\ k \in {0, 1} /\ IsBit(k)
             /\ Subtracts(u, w, c, t, h, k)
             /\ out.res = t /\ out.f = SubF(u, w, t, h, k) /\ Carry(out.f) = k
<1> DEFINE t   == Sub8(u, w, c).res
           h   == Sub8(u, w, c).half
           k   == Sub8(u, w, c).carry
           out == ByteSub(u, w, c)
<1>1. PICK t1 \in Byte, h1 \in {0, 1}, k1 \in {0, 1} :
             /\ Sub8(u, w, c) = [res |-> t1, half |-> h1, carry |-> k1]
             /\ t1 - 256 * k1 = u - w - c
             /\ h1 = 1 <=> (u % 16) - (w % 16) - c < 0
  BY Sub8IsDifference, ZenonT(40)
<1>2. t = t1 /\ h = h1 /\ k = k1
  BY <1>1
<1>3. out.res = t /\ out.f = SubF(u, w, t, h, k)
  BY SMT DEF ByteSub, FlagsSub8, SubF
<1> HIDE DEF t, h, k, out
<1>4. Subtracts(u, w, c, t, h, k)
  BY <1>1, <1>2, SMT DEF Subtracts
<1>5. "C" \in SubF(u, w, t, h, k) <=> k = 1
  <2>1. "C" \notin XY(t)
    BY Zenon, "C" # "X", "C" # "Y" DEF XY, Flag
  <2> QED
    BY <2>1, Zenon, "C" # "N", "C" # "S", "C" # "Z", "C" # "H", "C" # "P" DEF SubF, Flag
<1>6. h \in {0, 1} /\ k \in {0, 1}
  BY <1>1, <1>2
<1>7. IsByte(t) /\ IsBit(k)
  <2>1. t \in Byte
    BY <1>1, <1>2
  <2> QED
    BY <2>1, <1>6, ByteIs, BitIs DEF IsByte, IsBit
<1>8. Carry(out.f) = k
  <2>1. CASE k = 1
    BY <1>3, <1>5, <2>1, Zenon DEF Carry
  <2>2. CASE k = 0
    <3>1. k # 1
      BY <2>2
    <3> QED
      BY <1>3, <1>5, <2>2, <3>1, Zenon DEF Carry
  <2> QED
    BY <1>6, <2>1, <2>2
<1> QED
  BY <1>3, <1>4, <1>6, <1>7, <1>8 DEF t, h, k, out

\* The top bits of a word are its high byte's, and so is its overflow.
LEMMA TopIsHigh ==
  ASSUME NEW x, NEW y, NEW rl, NEW rh, IsWord(x), IsWord(y), IsByte(rl), IsByte(rh)
  PROVE  /\ AddOverflows(x, y, 256 * rh + rl, 32768)
              <=> AddOverflows(x \div 256, y \div 256, rh, 128)
         /\ SubOverflows(x, y, 256 * rh + rl, 32768)
              <=> SubOverflows(x \div 256, y \div 256, rh, 128)
<1> USE DEF IsWord, IsByte
<1>1. /\ x >= 32768 <=> x \div 256 >= 128
      /\ y >= 32768 <=> y \div 256 >= 128
  BY WordHalves
<1>2. 256 * rh + rl >= 32768 <=> rh >= 128
  BY TopBits
<1>3. AddOverflows(x, y, 256 * rh + rl, 32768) <=> AddOverflows(x \div 256, y \div 256, rh, 128)
  BY <1>1, <1>2, SMT DEF AddOverflows
<1>4. SubOverflows(x, y, 256 * rh + rl, 32768) <=> SubOverflows(x \div 256, y \div 256, rh, 128)
  BY <1>1, <1>2, SMT DEF SubOverflows
<1> QED
  BY <1>3, <1>4

\* WordIsTwoBytes' low byte and its high one.
LowAdd(x, y, c)  == FlagsAdd8(x % 256, y % 256, c)
HighAdd(x, y, c) == FlagsAdd8(x \div 256, y \div 256, Carry(LowAdd(x, y, c).f))
LowSub(x, y, c)  == ByteSub(x % 256, y % 256, c)
HighSub(x, y, c) == ByteSub(x \div 256, y \div 256, Carry(LowSub(x, y, c).f))

\* The high byte's result and F in the word's own terms.
LEMMA AddHigh ==
  ASSUME NEW x \in Word, NEW y \in Word, NEW c \in {0, 1}
  PROVE  LET high == HighAdd(x, y, c)
             word == WordAdd(x, y, c)
         IN  /\ word = 256 * high.res + LowAdd(x, y, c).res
             /\ word \div 256 = high.res
             /\ NegWord(word) <=> high.res >= 128
             /\ high.f = SZXY(high.res)
                          \cup Flag("H", HalfAdd(x, y, c)) \cup Flag("C", CarryAdd(x, y, c))
                          \cup Flag("P", OverAdd(x, y, c))
<1>1. /\ x \div 256 \in Byte /\ x % 256 \in Byte
      /\ y \div 256 \in Byte /\ y % 256 \in Byte
  <2>1. x \div 256 \in Byte /\ x % 256 \in Byte
    BY WordBytes
  <2>2. y \div 256 \in Byte /\ y % 256 \in Byte
    BY WordBytes
  <2> QED
    BY <2>1, <2>2
<1> DEFINE al == Add8(x % 256, y % 256, c)
           ah == Add8(x \div 256, y \div 256, al.carry)
<1>2. /\ IsByte(al.res) /\ al.carry \in {0, 1} /\ IsBit(al.carry)
      /\ Adds(x % 256, y % 256, c, al.res, al.half, al.carry)
      /\ LowAdd(x, y, c).res = al.res /\ Carry(LowAdd(x, y, c).f) = al.carry
  <2>1. /\ IsByte(al.res) /\ al.carry \in {0, 1} /\ IsBit(al.carry)
        /\ Adds(x % 256, y % 256, c, al.res, al.half, al.carry)
        /\ FlagsAdd8(x % 256, y % 256, c).res = al.res
        /\ Carry(FlagsAdd8(x % 256, y % 256, c).f) = al.carry
    BY <1>1, AddHands, SMT
  <2> QED
    BY <2>1, ZenonT(40) DEF LowAdd
<1>3. HighAdd(x, y, c) = FlagsAdd8(x \div 256, y \div 256, al.carry)
  BY <1>2, ZenonT(40) DEF HighAdd
<1> HIDE DEF al
<1>4. /\ IsByte(ah.res) /\ IsBit(ah.carry)
      /\ Adds(x \div 256, y \div 256, al.carry, ah.res, ah.half, ah.carry)
      /\ HighAdd(x, y, c).res = ah.res
      /\ HighAdd(x, y, c).f = AddF(x \div 256, y \div 256, ah.res, ah.half, ah.carry)
  <2>1. al.carry \in {0, 1} /\ x \div 256 \in Byte /\ y \div 256 \in Byte
    BY <1>1, <1>2
  <2>2. /\ IsByte(ah.res) /\ IsBit(ah.carry)
        /\ Adds(x \div 256, y \div 256, al.carry, ah.res, ah.half, ah.carry)
        /\ FlagsAdd8(x \div 256, y \div 256, al.carry).res = ah.res
        /\ FlagsAdd8(x \div 256, y \div 256, al.carry).f
             = AddF(x \div 256, y \div 256, ah.res, ah.half, ah.carry)
    BY <2>1, AddHands, SMT
  <2> QED
    BY <1>3, <2>2, ZenonT(40)
<1> HIDE DEF ah
<1>5. IsWord(x) /\ IsWord(y) /\ IsBit(c)
  BY WordIs, BitIs DEF IsWord, IsBit
<1>6. /\ WordAdd(x, y, c) = 256 * ah.res + al.res
      /\ CarryAdd(x, y, c) <=> ah.carry = 1
      /\ HalfAdd(x, y, c) <=> ah.half = 1
  BY <1>2, <1>4, <1>5, AddChain, SMT
<1>7. WordAdd(x, y, c) \div 256 = ah.res /\ (NegWord(WordAdd(x, y, c)) <=> ah.res >= 128)
  BY <1>2, <1>4, <1>6, TopBits, SMT DEF IsByte, NegWord
<1>8. OverAdd(x, y, c) <=> AddOverflows(x \div 256, y \div 256, ah.res, 128)
  BY <1>2, <1>4, <1>5, <1>6, TopIsHigh, SMT DEF OverAdd
<1>9. /\ Flag("H", ah.half = 1) = Flag("H", HalfAdd(x, y, c))
      /\ Flag("C", ah.carry = 1) = Flag("C", CarryAdd(x, y, c))
      /\ Flag("P", AddOverflows(x \div 256, y \div 256, ah.res, 128)) = Flag("P", OverAdd(x, y, c))
  BY <1>6, <1>8, ZenonT(40) DEF Flag
<1>10. HighAdd(x, y, c).f = SZXY(ah.res)
                           \cup Flag("H", HalfAdd(x, y, c)) \cup Flag("C", CarryAdd(x, y, c))
                           \cup Flag("P", OverAdd(x, y, c))
  BY <1>4, <1>9, Zenon DEF AddF
<1> QED
  BY <1>2, <1>4, <1>6, <1>7, <1>10, ZenonT(40)

LEMMA SubHigh ==
  ASSUME NEW x \in Word, NEW y \in Word, NEW c \in {0, 1}
  PROVE  LET high == HighSub(x, y, c)
             word == WordSub(x, y, c)
         IN  /\ word = 256 * high.res + LowSub(x, y, c).res
             /\ word \div 256 = high.res
             /\ NegWord(word) <=> high.res >= 128
             /\ high.f = {"N"} \cup Flag("S", high.res >= 128) \cup Flag("Z", high.res = 0) \cup XY(high.res)
                          \cup Flag("H", HalfSub(x, y, c)) \cup Flag("C", CarrySub(x, y, c))
                          \cup Flag("P", OverSub(x, y, c))
<1>1. /\ x \div 256 \in Byte /\ x % 256 \in Byte
      /\ y \div 256 \in Byte /\ y % 256 \in Byte
  <2>1. x \div 256 \in Byte /\ x % 256 \in Byte
    BY WordBytes
  <2>2. y \div 256 \in Byte /\ y % 256 \in Byte
    BY WordBytes
  <2> QED
    BY <2>1, <2>2
<1> DEFINE al == Sub8(x % 256, y % 256, c)
           ah == Sub8(x \div 256, y \div 256, al.carry)
<1>2. /\ IsByte(al.res) /\ al.carry \in {0, 1} /\ IsBit(al.carry)
      /\ Subtracts(x % 256, y % 256, c, al.res, al.half, al.carry)
      /\ LowSub(x, y, c).res = al.res /\ Carry(LowSub(x, y, c).f) = al.carry
  <2>1. /\ IsByte(al.res) /\ al.carry \in {0, 1} /\ IsBit(al.carry)
        /\ Subtracts(x % 256, y % 256, c, al.res, al.half, al.carry)
        /\ ByteSub(x % 256, y % 256, c).res = al.res
        /\ Carry(ByteSub(x % 256, y % 256, c).f) = al.carry
    BY <1>1, SubHands, SMT
  <2> QED
    BY <2>1, ZenonT(40) DEF LowSub
<1>3. HighSub(x, y, c) = ByteSub(x \div 256, y \div 256, al.carry)
  BY <1>2, ZenonT(40) DEF HighSub
<1> HIDE DEF al
<1>4. /\ IsByte(ah.res) /\ IsBit(ah.carry)
      /\ Subtracts(x \div 256, y \div 256, al.carry, ah.res, ah.half, ah.carry)
      /\ HighSub(x, y, c).res = ah.res
      /\ HighSub(x, y, c).f = SubF(x \div 256, y \div 256, ah.res, ah.half, ah.carry)
  <2>1. al.carry \in {0, 1} /\ x \div 256 \in Byte /\ y \div 256 \in Byte
    BY <1>1, <1>2
  <2>2. /\ IsByte(ah.res) /\ IsBit(ah.carry)
        /\ Subtracts(x \div 256, y \div 256, al.carry, ah.res, ah.half, ah.carry)
        /\ ByteSub(x \div 256, y \div 256, al.carry).res = ah.res
        /\ ByteSub(x \div 256, y \div 256, al.carry).f
             = SubF(x \div 256, y \div 256, ah.res, ah.half, ah.carry)
    BY <2>1, SubHands, SMT
  <2> QED
    BY <1>3, <2>2, ZenonT(40)
<1> HIDE DEF ah
<1>5. IsWord(x) /\ IsWord(y) /\ IsBit(c)
  BY WordIs, BitIs DEF IsWord, IsBit
<1>6. /\ WordSub(x, y, c) = 256 * ah.res + al.res
      /\ CarrySub(x, y, c) <=> ah.carry = 1
      /\ HalfSub(x, y, c) <=> ah.half = 1
  BY <1>2, <1>4, <1>5, SubChain, SMT
<1>7. WordSub(x, y, c) \div 256 = ah.res /\ (NegWord(WordSub(x, y, c)) <=> ah.res >= 128)
  BY <1>2, <1>4, <1>6, TopBits, SMT DEF IsByte, NegWord
<1>8. OverSub(x, y, c) <=> SubOverflows(x \div 256, y \div 256, ah.res, 128)
  BY <1>2, <1>4, <1>5, <1>6, TopIsHigh, SMT DEF OverSub
<1>9. /\ Flag("H", ah.half = 1) = Flag("H", HalfSub(x, y, c))
      /\ Flag("C", ah.carry = 1) = Flag("C", CarrySub(x, y, c))
      /\ Flag("P", SubOverflows(x \div 256, y \div 256, ah.res, 128)) = Flag("P", OverSub(x, y, c))
  BY <1>6, <1>8, ZenonT(40) DEF Flag
<1>10. HighSub(x, y, c).f = {"N"} \cup Flag("S", ah.res >= 128) \cup Flag("Z", ah.res = 0) \cup XY(ah.res)
                           \cup Flag("H", HalfSub(x, y, c)) \cup Flag("C", CarrySub(x, y, c))
                           \cup Flag("P", OverSub(x, y, c))
  BY <1>4, <1>9, Zenon DEF SubF
<1> QED
  BY <1>2, <1>4, <1>6, <1>7, <1>10, ZenonT(40)

LEMMA KeptAndOthers ==
  ASSUME NEW K, NEW D, NEW B, D \subseteq K, B \cap K = {}
  PROVE  (D \cup B) \ K = B /\ (D \cup B) \cap K = D
BY Zenon

LEMMA FlagIs ==
  ASSUME NEW n, NEW cond PROVE Flag(n, cond) \subseteq {n} /\ (n \in Flag(n, cond) <=> cond)
BY Zenon DEF Flag

LEMMA XYIs == ASSUME NEW v PROVE XY(v) \subseteq {"X", "Y"}
BY Zenon DEF XY, Flag

\* ADD keeps S, Z and P/V; the rest of F is the high byte's add.
LEMMA Add16IsTwoBytes ==
  ASSUME NEW x \in Word, NEW y \in Word, NEW F
  PROVE  LET out  == Add16(x, y, F)
             high == HighAdd(x, y, 0)
             kept == {"S", "Z", "P"}
         IN  /\ out.res = 256 * high.res + LowAdd(x, y, 0).res
             /\ out.f \ kept = high.f \ kept
             /\ out.f \cap kept = F \cap kept
<1> DEFINE word == WordAdd(x, y, 0)
           high == HighAdd(x, y, 0)
           K    == {"S", "Z", "P"}
           B    == XY(high.res) \cup Flag("H", HalfAdd(x, y, 0)) \cup Flag("C", CarryAdd(x, y, 0))
           D    == Flag("S", high.res >= 128) \cup Flag("Z", high.res = 0)
                    \cup Flag("P", OverAdd(x, y, 0))
<1>0. 0 \in {0, 1}
  OBVIOUS
<1>1. /\ word = 256 * high.res + LowAdd(x, y, 0).res
      /\ word \div 256 = high.res
      /\ high.f = SZXY(high.res) \cup Flag("H", HalfAdd(x, y, 0)) \cup Flag("C", CarryAdd(x, y, 0))
                   \cup Flag("P", OverAdd(x, y, 0))
  BY <1>0, AddHigh, SMT
<1>2. Add16(x, y, F).res = word /\ Add16(x, y, F).f = (F \cap K) \cup B
  <2>1. /\ (x + y) % 65536 = word
        /\ (x % 4096) + (y % 4096) >= 4096 <=> HalfAdd(x, y, 0)
        /\ x + y >= 65536 <=> CarryAdd(x, y, 0)
    <3>1. x \in Int /\ y \in Int
      BY WordIs
    <3> QED
      BY <3>1, SMT DEF WordAdd, HalfAdd, CarryAdd
  <2>2. /\ Flag("H", (x % 4096) + (y % 4096) >= 4096) = Flag("H", HalfAdd(x, y, 0))
        /\ Flag("C", x + y >= 65536) = Flag("C", CarryAdd(x, y, 0))
    BY <2>1, SMT DEF Flag
  <2>3. /\ Add16(x, y, F).res = word
        /\ Add16(x, y, F).f = (F \cap {"S", "Z", "P"}) \cup XY(word \div 256)
              \cup Flag("H", (x % 4096) + (y % 4096) >= 4096) \cup Flag("C", x + y >= 65536)
    BY <2>1, SMT DEF Add16
  <2> HIDE DEF word, high
  <2>4. Add16(x, y, F).f = (F \cap K) \cup XY(high.res)
                             \cup Flag("H", HalfAdd(x, y, 0)) \cup Flag("C", CarryAdd(x, y, 0))
    BY <1>1, <2>2, <2>3, SMT
  <2> QED
    BY <2>3, <2>4, SMT
<1>3. high.f = D \cup B
  <2> HIDE DEF high
  <2> QED
    BY <1>1, Zenon DEF SZXY
<1>4. D \subseteq K /\ (F \cap K) \subseteq K
  <2>1. /\ Flag("S", high.res >= 128) \subseteq {"S"} /\ Flag("Z", high.res = 0) \subseteq {"Z"}
        /\ Flag("P", OverAdd(x, y, 0)) \subseteq {"P"}
    BY FlagIs, ZenonT(40)
  <2> QED
    BY <2>1, SMT
<1>5. B \cap K = {}
  <2>1. /\ XY(high.res) \subseteq {"X", "Y"} /\ Flag("H", HalfAdd(x, y, 0)) \subseteq {"H"}
        /\ Flag("C", CarryAdd(x, y, 0)) \subseteq {"C"}
    BY FlagIs, XYIs, Zenon
  <2> QED
    BY <2>1, SMT
<1> HIDE DEF word, high, K, B, D
<1>6. /\ Add16(x, y, F).f \ K = B /\ Add16(x, y, F).f \cap K = F \cap K
      /\ high.f \ K = B
  BY <1>2, <1>3, <1>4, <1>5, KeptAndOthers, Zenon
<1> QED
  BY <1>1, <1>2, <1>6, Zenon DEF high, word, K

\* ADC and SBC take Z from all 16 bits; the rest of F is the high byte's.
LEMMA Adc16IsTwoBytes ==
  ASSUME NEW x \in Word, NEW y \in Word, NEW F
  PROVE  LET out  == Adc16(x, y, F)
             c    == Carry(F)
             high == HighAdd(x, y, c)
         IN  /\ out.res = 256 * high.res + LowAdd(x, y, c).res
             /\ out.f \ {"Z"} = high.f \ {"Z"}
             /\ "Z" \in out.f <=> out.res = 0
<1> DEFINE c    == Carry(F)
           word == WordAdd(x, y, c)
           high == HighAdd(x, y, c)
           rest == Flag("H", HalfAdd(x, y, c)) \cup Flag("C", CarryAdd(x, y, c))
                    \cup Flag("P", OverAdd(x, y, c))
           B    == Flag("S", high.res >= 128) \cup XY(high.res) \cup rest
           D    == Flag("Z", high.res = 0)
           E    == Flag("Z", word = 0)
<1>0. c \in {0, 1}
  BY Zenon DEF Carry
<1> HIDE DEF c
<1>1. /\ word = 256 * high.res + LowAdd(x, y, c).res
      /\ word \div 256 = high.res
      /\ NegWord(word) <=> high.res >= 128
      /\ high.f = SZXY(high.res) \cup Flag("H", HalfAdd(x, y, c)) \cup Flag("C", CarryAdd(x, y, c))
                   \cup Flag("P", OverAdd(x, y, c))
  BY <1>0, AddHigh, SMT
<1>2. Adc16(x, y, F).res = word
  BY SMT DEF Adc16, WordAdd, c
<1>3. Adc16(x, y, F).f = Flag("S", NegWord(word)) \cup Flag("Z", word = 0) \cup XY(word \div 256)
                         \cup Flag("C", CarryAdd(x, y, c)) \cup Flag("H", HalfAdd(x, y, c))
                         \cup Flag("P", OverAdd(x, y, c))
  BY SMT DEF Adc16, SZXY16, WordAdd, CarryAdd, HalfAdd, OverAdd, NegWord, c
<1> HIDE DEF word, high
<1>4. Flag("S", NegWord(word)) = Flag("S", high.res >= 128)
  BY <1>1, Zenon DEF Flag
<1>5. Adc16(x, y, F).f = E \cup B
  <2>1. Adc16(x, y, F).f = Flag("S", high.res >= 128) \cup Flag("Z", word = 0) \cup XY(high.res)
                         \cup Flag("C", CarryAdd(x, y, c)) \cup Flag("H", HalfAdd(x, y, c))
                         \cup Flag("P", OverAdd(x, y, c))
    BY <1>1, <1>3, <1>4, SMT
  <2> QED
    BY <2>1, SMT
<1>6. high.f = D \cup B
  BY <1>1, Zenon DEF SZXY
<1>7. D \subseteq {"Z"} /\ E \subseteq {"Z"}
  BY FlagIs, Zenon
<1>8. B \cap {"Z"} = {}
  <2>1. XY(high.res) \subseteq {"X", "Y"}
    BY XYIs, Zenon
  <2>2. Flag("S", high.res >= 128) \subseteq {"S"}
    BY FlagIs, SMT
  <2>3. /\ Flag("H", HalfAdd(x, y, c)) \subseteq {"H"} /\ Flag("C", CarryAdd(x, y, c)) \subseteq {"C"}
        /\ Flag("P", OverAdd(x, y, c)) \subseteq {"P"}
    BY FlagIs, Zenon
  <2> QED
    BY <2>1, <2>2, <2>3, SMT
<1>9. "Z" \in E <=> word = 0
  BY FlagIs, Zenon
<1> HIDE DEF B, D, E
<1>10. /\ Adc16(x, y, F).f \ {"Z"} = B /\ high.f \ {"Z"} = B
       /\ Adc16(x, y, F).f \cap {"Z"} = E
  BY <1>5, <1>6, <1>7, <1>8, KeptAndOthers, Zenon
<1>11. "Z" \in Adc16(x, y, F).f <=> word = 0
  BY <1>9, <1>10, Zenon
<1> QED
  BY <1>1, <1>2, <1>10, <1>11, Zenon DEF high, word, c

LEMMA Sbc16IsTwoBytes ==
  ASSUME NEW x \in Word, NEW y \in Word, NEW F
  PROVE  LET out  == Sbc16(x, y, F)
             c    == Carry(F)
             high == HighSub(x, y, c)
         IN  /\ out.res = 256 * high.res + LowSub(x, y, c).res
             /\ out.f \ {"Z"} = high.f \ {"Z"}
             /\ "Z" \in out.f <=> out.res = 0
<1> DEFINE c    == Carry(F)
           word == WordSub(x, y, c)
           high == HighSub(x, y, c)
           rest == Flag("H", HalfSub(x, y, c)) \cup Flag("C", CarrySub(x, y, c))
                    \cup Flag("P", OverSub(x, y, c))
           B    == {"N"} \cup Flag("S", high.res >= 128) \cup XY(high.res) \cup rest
           D    == Flag("Z", high.res = 0)
           E    == Flag("Z", word = 0)
<1>0. c \in {0, 1}
  BY Zenon DEF Carry
<1> HIDE DEF c
<1>1. /\ word = 256 * high.res + LowSub(x, y, c).res
      /\ word \div 256 = high.res
      /\ NegWord(word) <=> high.res >= 128
      /\ high.f = {"N"} \cup Flag("S", high.res >= 128) \cup Flag("Z", high.res = 0) \cup XY(high.res)
                   \cup Flag("H", HalfSub(x, y, c)) \cup Flag("C", CarrySub(x, y, c))
                   \cup Flag("P", OverSub(x, y, c))
  BY <1>0, SubHigh, SMT
<1>2. Sbc16(x, y, F).res = word
  BY SMT DEF Sbc16, WordSub, c
<1>3. Sbc16(x, y, F).f = {"N"} \cup Flag("S", NegWord(word)) \cup Flag("Z", word = 0) \cup XY(word \div 256)
                         \cup Flag("C", CarrySub(x, y, c)) \cup Flag("H", HalfSub(x, y, c))
                         \cup Flag("P", OverSub(x, y, c))
  BY SMT DEF Sbc16, SZXY16, WordSub, CarrySub, HalfSub, OverSub, NegWord, c
<1> HIDE DEF word, high
<1>4. Flag("S", NegWord(word)) = Flag("S", high.res >= 128)
  BY <1>1, Zenon DEF Flag
<1>5. Sbc16(x, y, F).f = E \cup B
  <2>1. Sbc16(x, y, F).f = {"N"} \cup Flag("S", high.res >= 128) \cup Flag("Z", word = 0) \cup XY(high.res)
                         \cup Flag("C", CarrySub(x, y, c)) \cup Flag("H", HalfSub(x, y, c))
                         \cup Flag("P", OverSub(x, y, c))
    BY <1>1, <1>3, <1>4, SMT
  <2> QED
    BY <2>1, SMT
<1>6. high.f = D \cup B
  BY <1>1, Zenon DEF SZXY
<1>7. D \subseteq {"Z"} /\ E \subseteq {"Z"}
  BY FlagIs, Zenon
<1>8. B \cap {"Z"} = {}
  <2>1. XY(high.res) \subseteq {"X", "Y"}
    BY XYIs, Zenon
  <2>2. Flag("S", high.res >= 128) \subseteq {"S"}
    BY FlagIs, SMT
  <2>3. /\ Flag("H", HalfSub(x, y, c)) \subseteq {"H"} /\ Flag("C", CarrySub(x, y, c)) \subseteq {"C"}
        /\ Flag("P", OverSub(x, y, c)) \subseteq {"P"}
    BY FlagIs, Zenon
  <2> QED
    BY <2>1, <2>2, <2>3, SMT
<1>9. "Z" \in E <=> word = 0
  BY FlagIs, Zenon
<1> HIDE DEF B, D, E
<1>10. /\ Sbc16(x, y, F).f \ {"Z"} = B /\ high.f \ {"Z"} = B
       /\ Sbc16(x, y, F).f \cap {"Z"} = E
  BY <1>5, <1>6, <1>7, <1>8, KeptAndOthers, Zenon
<1>11. "Z" \in Sbc16(x, y, F).f <=> word = 0
  BY <1>9, <1>10, Zenon
<1> QED
  BY <1>1, <1>2, <1>10, <1>11, Zenon DEF high, word, c

-----------------------------------------------------------------------------
LEMMA WordRuns ==
  ASSUME Next, ~UNCHANGED vars
  PROVE  /\ last' = "ADD16" => hl' = Add16(hl, rp, f).res /\ f' = Add16(hl, rp, f).f /\ rp' = rp
         /\ last' = "ADC16" => hl' = Adc16(hl, rp, f).res /\ f' = Adc16(hl, rp, f).f /\ rp' = rp
         /\ last' = "SBC16" => hl' = Sbc16(hl, rp, f).res /\ f' = Sbc16(hl, rp, f).f /\ rp' = rp
BY DEF Next, AluA, AluOps, IncDec, RotateA, RotA, Rotate, Rots, LeftRots, RightRots, BitUnit,
       Unary, CarryFlag, Load, LoadIR, In, PrefixM1, Prefix, Digits, AddWord,
       Ldir, Cpir, Inir, Round, FireBlock, Blocks, Done, Step, Ran, WriteF

\* WordIsTwoBytes of HL, F and the pair added, as an operator.
CarryIn(op, F0) == IF op = "ADD16" THEN 0 ELSE Carry(F0)
LowOf(op, x, y, c) ==
  IF op = "SBC16" THEN FlagsSub8(x % 256, y % 256, c, FALSE) ELSE FlagsAdd8(x % 256, y % 256, c)
HighOf(op, x, y, k) ==
  IF op = "SBC16" THEN FlagsSub8(x \div 256, y \div 256, k, FALSE)
                  ELSE FlagsAdd8(x \div 256, y \div 256, k)
KeptBy(op) == IF op = "ADD16" THEN {"S", "Z", "P"} ELSE {"Z"}
WordSays(op, HL, F, y, x, F0) ==
  LET low  == LowOf(op, x, y, CarryIn(op, F0))
      high == HighOf(op, x, y, Carry(low.f))
  IN  /\ HL = 256 * high.res + low.res
      /\ F \ KeptBy(op) = high.f \ KeptBy(op)
      /\ IF op = "ADD16" THEN F \cap KeptBy(op) = F0 \cap KeptBy(op)
                         ELSE "Z" \in F <=> HL = 0

OneWordRun == Finished /\ Len(prog) = 1 /\ last \in {"ADD16", "ADC16", "SBC16"}

LEMMA WordIs2 ==
  /\ WordIsTwoBytes <=> (OneWordRun => WordSays(last, hl, f, rp, start.hl, start.f))
  /\ WordIsTwoBytes' <=> (OneWordRun' => WordSays(last', hl', f', rp', start'.hl, start'.f))
BY Zenon DEF WordIsTwoBytes, OneWordRun, WordSays, CarryIn, LowOf, HighOf, KeptBy

LEMMA Add16Says ==
  ASSUME NEW x \in Word, NEW y \in Word, NEW F0
  PROVE  WordSays("ADD16", Add16(x, y, F0).res, Add16(x, y, F0).f, y, x, F0)
<1> DEFINE HL == Add16(x, y, F0).res
           F  == Add16(x, y, F0).f
<1>1. /\ HL = 256 * HighAdd(x, y, 0).res + LowAdd(x, y, 0).res
      /\ F \ {"S", "Z", "P"} = HighAdd(x, y, 0).f \ {"S", "Z", "P"}
      /\ F \cap {"S", "Z", "P"} = F0 \cap {"S", "Z", "P"}
  BY Add16IsTwoBytes, SMT
<1> HIDE DEF HL, F
<1>2. "ADD16" # "SBC16" /\ "ADC16" # "SBC16" /\ "ADC16" # "ADD16"
  OBVIOUS
<1>3. CarryIn("ADD16", F0) = 0 /\ KeptBy("ADD16") = {"S", "Z", "P"}
  BY <1>2, Zenon DEF CarryIn, KeptBy
<1>4. LowOf("ADD16", x, y, 0) = LowAdd(x, y, 0)
  BY <1>2, Zenon DEF LowOf, LowAdd
<1>5. HighOf("ADD16", x, y, Carry(LowAdd(x, y, 0).f)) = HighAdd(x, y, 0)
  BY <1>2, Zenon DEF HighOf, HighAdd
<1>6. WordSays("ADD16", HL, F, y, x, F0)
  BY <1>1, <1>2, <1>3, <1>4, <1>5, SMT DEF WordSays
<1> QED
  BY <1>6 DEF HL, F

LEMMA Adc16Says ==
  ASSUME NEW x \in Word, NEW y \in Word, NEW F0
  PROVE  WordSays("ADC16", Adc16(x, y, F0).res, Adc16(x, y, F0).f, y, x, F0)
<1> DEFINE HL == Adc16(x, y, F0).res
           F  == Adc16(x, y, F0).f
<1>1. /\ HL = 256 * HighAdd(x, y, Carry(F0)).res + LowAdd(x, y, Carry(F0)).res
      /\ F \ {"Z"} = HighAdd(x, y, Carry(F0)).f \ {"Z"}
      /\ "Z" \in F <=> HL = 0
  BY Adc16IsTwoBytes, SMT
<1> HIDE DEF HL, F
<1>2. "ADD16" # "SBC16" /\ "ADC16" # "SBC16" /\ "ADC16" # "ADD16"
  OBVIOUS
<1>3. CarryIn("ADC16", F0) = Carry(F0) /\ KeptBy("ADC16") = {"Z"}
  BY <1>2, Zenon DEF CarryIn, KeptBy
<1>4. LowOf("ADC16", x, y, Carry(F0)) = LowAdd(x, y, Carry(F0))
  BY <1>2, Zenon DEF LowOf, LowAdd
<1>5. HighOf("ADC16", x, y, Carry(LowAdd(x, y, Carry(F0)).f)) = HighAdd(x, y, Carry(F0))
  BY <1>2, Zenon DEF HighOf, HighAdd
<1>6. WordSays("ADC16", HL, F, y, x, F0)
  BY <1>1, <1>2, <1>3, <1>4, <1>5, SMT DEF WordSays
<1> QED
  BY <1>6 DEF HL, F

LEMMA Sbc16Says ==
  ASSUME NEW x \in Word, NEW y \in Word, NEW F0
  PROVE  WordSays("SBC16", Sbc16(x, y, F0).res, Sbc16(x, y, F0).f, y, x, F0)
<1> DEFINE HL == Sbc16(x, y, F0).res
           F  == Sbc16(x, y, F0).f
<1>1. /\ HL = 256 * HighSub(x, y, Carry(F0)).res + LowSub(x, y, Carry(F0)).res
      /\ F \ {"Z"} = HighSub(x, y, Carry(F0)).f \ {"Z"}
      /\ "Z" \in F <=> HL = 0
  BY Sbc16IsTwoBytes, SMT
<1> HIDE DEF HL, F
<1>2. "ADD16" # "SBC16" /\ "ADC16" # "SBC16" /\ "ADC16" # "ADD16"
  OBVIOUS
<1>3. CarryIn("SBC16", F0) = Carry(F0) /\ KeptBy("SBC16") = {"Z"}
  BY <1>2, Zenon DEF CarryIn, KeptBy
<1>4. LowOf("SBC16", x, y, Carry(F0)) = LowSub(x, y, Carry(F0))
  BY <1>2, Zenon DEF LowOf, LowSub, ByteSub
<1>5. HighOf("SBC16", x, y, Carry(LowSub(x, y, Carry(F0)).f)) = HighSub(x, y, Carry(F0))
  BY <1>2, Zenon DEF HighOf, HighSub, ByteSub
<1>6. WordSays("SBC16", HL, F, y, x, F0)
  BY <1>1, <1>2, <1>3, <1>4, <1>5, SMT DEF WordSays
<1> QED
  BY <1>6 DEF HL, F

\* One 16-bit instruction: WordIsTwoBytes of what it leaves.
LEMMA WordStep ==
  ASSUME Solo, WordIsTwoBytes, [Next]_vars PROVE WordIsTwoBytes'
<1>1. CASE UNCHANGED vars
  BY <1>1, WordIs2 DEF OneWordRun, Finished, vars, regs
<1>2. CASE Next /\ ~UNCHANGED vars
  <2>1. SUFFICES ASSUME OneWordRun'
                 PROVE  WordSays(last', hl', f', rp', start'.hl, start'.f)
    BY WordIs2, Zenon
  <2>2. Finished' /\ Len(prog') = 1 /\ last' \in {"ADD16", "ADC16", "SBC16"}
    BY <2>1 DEF OneWordRun
  <2>3. /\ start' = start /\ hl = start.hl /\ f = start.f
        /\ start.hl \in Word /\ rp \in Word
    BY <1>2, <2>2, SoloRuns DEF Blocks, Solo
  <2>4. CASE last' = "ADD16"
    <3>1. /\ hl' = Add16(start.hl, rp, start.f).res
          /\ f' = Add16(start.hl, rp, start.f).f /\ rp' = rp
      BY <1>2, <2>3, <2>4, WordRuns
    <3>2. WordSays("ADD16", Add16(start.hl, rp, start.f).res, Add16(start.hl, rp, start.f).f,
                   rp, start.hl, start.f)
      BY <2>3, Add16Says, Zenon
    <3> QED
      BY <2>3, <2>4, <3>1, <3>2
  <2>5. CASE last' = "ADC16"
    <3>1. /\ hl' = Adc16(start.hl, rp, start.f).res
          /\ f' = Adc16(start.hl, rp, start.f).f /\ rp' = rp
      BY <1>2, <2>3, <2>5, WordRuns
    <3>2. WordSays("ADC16", Adc16(start.hl, rp, start.f).res, Adc16(start.hl, rp, start.f).f,
                   rp, start.hl, start.f)
      BY <2>3, Adc16Says, Zenon
    <3> QED
      BY <2>3, <2>5, <3>1, <3>2
  <2>6. CASE last' = "SBC16"
    <3>1. /\ hl' = Sbc16(start.hl, rp, start.f).res
          /\ f' = Sbc16(start.hl, rp, start.f).f /\ rp' = rp
      BY <1>2, <2>3, <2>6, WordRuns
    <3>2. WordSays("SBC16", Sbc16(start.hl, rp, start.f).res, Sbc16(start.hl, rp, start.f).f,
                   rp, start.hl, start.f)
      BY <2>3, Sbc16Says, Zenon
    <3> QED
      BY <2>3, <2>6, <3>1, <3>2
  <2> QED
    BY <2>2, <2>4, <2>5, <2>6
<1> QED
  BY <1>1, <1>2

\* A 16-bit add or subtract is that of the low bytes and, with its carry, of
\* the high ones: HL their two results, and F the high byte's, but for Z and
\* for what ADD HL,rr keeps (add_hl, adc_hl and sbc_hl of the C model against
\* the two passes through the ALU that the die makes).
THEOREM WordAlways == Spec => []WordIsTwoBytes
<1>1. Init => Solo /\ WordIsTwoBytes
  <2>1. Init => WordIsTwoBytes
    BY DEF Init, WordIsTwoBytes
  <2> QED
    BY <2>1, SoloInit
<1>2. Solo /\ WordIsTwoBytes /\ [Next]_vars => Solo' /\ WordIsTwoBytes'
  BY SoloStep, WordStep
<1> QED
  BY <1>1, <1>2, PTL DEF Spec

(***************************************************************************)
(* Types: every operator returns bytes, words and sets of flags, so every  *)
(* instruction leaves them in the registers.                               *)
(***************************************************************************)
\* F's parts are flags, and every operator's F is a set of flags.
LEMMA Names ==
  /\ "S" \in FlagNames /\ "Z" \in FlagNames /\ "Y" \in FlagNames /\ "H" \in FlagNames
  /\ "X" \in FlagNames /\ "P" \in FlagNames /\ "N" \in FlagNames /\ "C" \in FlagNames
BY DEF FlagNames

LEMMA FlagNamed ==
  ASSUME NEW n \in FlagNames, NEW cond PROVE Flag(n, cond) \subseteq FlagNames
BY Zenon DEF Flag

LEMMA PartsNamed ==
  ASSUME NEW v
  PROVE  /\ XY(v) \subseteq FlagNames /\ SZXY(v) \subseteq FlagNames
         /\ SZPXY(v) \subseteq FlagNames /\ BlockXY(v) \subseteq FlagNames
<1>1. XY(v) \subseteq FlagNames
  BY Names, FlagNamed, Zenon DEF XY
<1>2. SZXY(v) \subseteq FlagNames
  BY <1>1, Names, FlagNamed, SMT DEF SZXY
<1>3. SZPXY(v) \subseteq FlagNames
  BY <1>2, Names, FlagNamed, Zenon DEF SZPXY
<1>4. BlockXY(v) \subseteq FlagNames
  BY Names, FlagNamed, Zenon DEF BlockXY
<1> QED
  BY <1>1, <1>2, <1>3, <1>4

LEMMA ArithNamed ==
  ASSUME NEW x, NEW y, NEW c, NEW cp
  PROVE  FlagsAdd8(x, y, c).f \subseteq FlagNames /\ FlagsSub8(x, y, c, cp).f \subseteq FlagNames
<1>1. FlagsAdd8(x, y, c).f \subseteq FlagNames
  BY Names, FlagNamed, PartsNamed, SMT DEF FlagsAdd8
<1>2. FlagsSub8(x, y, c, cp).f \subseteq FlagNames
  BY Names, FlagNamed, PartsNamed, SMT DEF FlagsSub8
<1> QED
  BY <1>1, <1>2

LEMMA UnaryNamed ==
  ASSUME NEW v, NEW F, F \subseteq FlagNames, NEW n, NEW w, NEW op
  PROVE  /\ FlagsInc8(v, F).f \subseteq FlagNames /\ FlagsDec8(v, F).f \subseteq FlagNames
         /\ FlagsRot(op, v, F).f \subseteq FlagNames /\ FlagsRotA(op, v, F).f \subseteq FlagNames
         /\ FlagsBit(n, v, w, F) \subseteq FlagNames /\ FlagsDaa(v, F).f \subseteq FlagNames
         /\ FlagsCpl(v, F).f \subseteq FlagNames /\ FlagsLogic(op, v, w).f \subseteq FlagNames
<1>1. FlagsInc8(v, F).f \subseteq FlagNames
  BY Names, FlagNamed, PartsNamed, SMT DEF FlagsInc8
<1>2. FlagsDec8(v, F).f \subseteq FlagNames
  BY Names, FlagNamed, PartsNamed, SMT DEF FlagsDec8
<1>3. FlagsRot(op, v, F).f \subseteq FlagNames
  BY Names, FlagNamed, PartsNamed, Zenon DEF FlagsRot
<1>4. FlagsRotA(op, v, F).f \subseteq FlagNames
  BY Names, FlagNamed, PartsNamed, Zenon DEF FlagsRotA
<1>5. FlagsBit(n, v, w, F) \subseteq FlagNames
  BY Names, FlagNamed, PartsNamed, Zenon DEF FlagsBit
<1>6. FlagsDaa(v, F).f \subseteq FlagNames
  BY Names, FlagNamed, PartsNamed, SMT DEF FlagsDaa
<1>7. FlagsCpl(v, F).f \subseteq FlagNames
  BY Names, FlagNamed, PartsNamed, ZenonT(40) DEF FlagsCpl
<1>8. FlagsLogic(op, v, w).f \subseteq FlagNames
  BY Names, FlagNamed, PartsNamed, Zenon DEF FlagsLogic
<1> QED
  BY <1>1, <1>2, <1>3, <1>4, <1>5, <1>6, <1>7, <1>8

LEMMA OthersNamed ==
  ASSUME NEW v, NEW F, F \subseteq FlagNames, NEW Q, NEW w, NEW b, NEW cond
  PROVE  /\ FlagsScf(v, F, Q) \subseteq FlagNames /\ FlagsCcf(v, F, Q) \subseteq FlagNames
         /\ FlagsLdAIr(v, F, cond) \subseteq FlagNames /\ FlagsIn(v, F) \subseteq FlagNames
         /\ FlagsRrd(v, w, F).f \subseteq FlagNames /\ FlagsRld(v, w, F).f \subseteq FlagNames
         /\ FlagsBlockLd(F, v, w, cond) \subseteq FlagNames
         /\ FlagsBlockCp(F, v, w, cond) \subseteq FlagNames
         /\ FlagsBlockIo(v, b, w) \subseteq FlagNames
         /\ RepeatXY(F, w) \subseteq FlagNames
<1>1. XYofQ(v, F, Q) \subseteq FlagNames
  BY Names, PartsNamed, Zenon DEF XYofQ
<1>2. FlagsScf(v, F, Q) \subseteq FlagNames
  BY <1>1, Names, Zenon DEF FlagsScf
<1>3. FlagsCcf(v, F, Q) \subseteq FlagNames
  BY <1>1, Names, Zenon DEF FlagsCcf
<1>4. FlagsLdAIr(v, F, cond) \subseteq FlagNames /\ FlagsIn(v, F) \subseteq FlagNames
  BY Names, FlagNamed, PartsNamed, Zenon DEF FlagsLdAIr, FlagsIn
<1>5. FlagsRrd(v, w, F).f \subseteq FlagNames /\ FlagsRld(v, w, F).f \subseteq FlagNames
  BY PartsNamed, Zenon DEF FlagsRrd, FlagsRld
<1>6. FlagsBlockLd(F, v, w, cond) \subseteq FlagNames
  BY Names, FlagNamed, PartsNamed, ZenonT(40) DEF FlagsBlockLd
<1>7. FlagsBlockCp(F, v, w, cond) \subseteq FlagNames
  BY Names, FlagNamed, PartsNamed, SMT DEF FlagsBlockCp
<1>8. FlagsBlockIo(v, b, w) \subseteq FlagNames
  BY Names, FlagNamed, PartsNamed, ZenonT(40) DEF FlagsBlockIo
<1>9. RepeatXY(F, w) \subseteq FlagNames
  BY PartsNamed, Zenon DEF RepeatXY
<1> QED
  BY <1>2, <1>3, <1>4, <1>5, <1>6, <1>7, <1>8, <1>9

LEMMA RepeatIoNamed ==
  ASSUME NEW v, NEW b, NEW k, NEW pch PROVE RepeatIo(v, b, k, pch) \subseteq FlagNames
BY Names, FlagNamed, PartsNamed, SMT DEF RepeatIo

LEMMA WordNamed ==
  ASSUME NEW x, NEW y, NEW F, F \subseteq FlagNames
  PROVE  /\ Add16(x, y, F).f \subseteq FlagNames
         /\ Adc16(x, y, F).f \subseteq FlagNames
         /\ Sbc16(x, y, F).f \subseteq FlagNames
<1>1. ASSUME NEW v PROVE SZXY16(v) \subseteq FlagNames
  BY Names, FlagNamed, PartsNamed, SMT DEF SZXY16
<1>2. Add16(x, y, F).f \subseteq FlagNames
  BY Names, FlagNamed, PartsNamed, SMT DEF Add16
<1>3. Adc16(x, y, F).f \subseteq FlagNames
  BY <1>1, Names, FlagNamed, PartsNamed, SMT DEF Adc16
<1>4. Sbc16(x, y, F).f \subseteq FlagNames
  BY <1>1, Names, FlagNamed, PartsNamed, SMT DEF Sbc16
<1> QED
  BY <1>2, <1>3, <1>4

\* A set of bits is a byte, and a byte a set of bits.
LEMMA ByteOfBits ==
  ASSUME NEW S \in SUBSET Bits PROVE ByteOf[S] \in Byte
<1> DEFINE bit(i, weight) == IF i \in S THEN weight ELSE 0
<1>1. ByteOf[S] = bit(0, 1) + bit(1, 2) + bit(2, 4) + bit(3, 8)
                    + bit(4, 16) + bit(5, 32) + bit(6, 64) + bit(7, 128)
  BY DEF ByteOf
<1>2. ASSUME NEW i, NEW w \in Nat PROVE bit(i, w) \in Nat /\ bit(i, w) <= w
  BY <1>2
<1> HIDE DEF bit
<1>3. /\ bit(0, 1) \in Nat /\ bit(0, 1) <= 1 /\ bit(1, 2) \in Nat /\ bit(1, 2) <= 2
      /\ bit(2, 4) \in Nat /\ bit(2, 4) <= 4 /\ bit(3, 8) \in Nat /\ bit(3, 8) <= 8
      /\ bit(4, 16) \in Nat /\ bit(4, 16) <= 16 /\ bit(5, 32) \in Nat /\ bit(5, 32) <= 32
      /\ bit(6, 64) \in Nat /\ bit(6, 64) <= 64 /\ bit(7, 128) \in Nat /\ bit(7, 128) <= 128
  BY <1>2
<1>4. ByteOf[S] \in Nat /\ ByteOf[S] <= 255
  BY <1>1, <1>3, SMT
<1> QED
  BY <1>4 DEF Byte

LEMMA BitsOfByte ==
  ASSUME NEW v \in Byte PROVE BitsOf[v] \in SUBSET Bits
BY DEF BitsOf

\* So AND, OR and XOR leave bytes.
LEMMA LogicByte ==
  ASSUME NEW op \in {"AND", "OR", "XOR"}, NEW x \in Byte, NEW y \in Byte
  PROVE  Logic(op, x, y) \in Byte
<1>1. /\ BitsOf[x] \cap BitsOf[y] \in SUBSET Bits
      /\ BitsOf[x] \cup BitsOf[y] \in SUBSET Bits
      /\ (BitsOf[x] \ BitsOf[y]) \cup (BitsOf[y] \ BitsOf[x]) \in SUBSET Bits
  BY BitsOfByte
<1>2. CASE op = "AND"
  BY <1>1, <1>2, ByteOfBits DEF Logic
<1>3. CASE op = "OR"
  BY <1>1, <1>3, ByteOfBits DEF Logic
<1>4. CASE op = "XOR"
  BY <1>1, <1>4, ByteOfBits DEF Logic
<1> QED
  BY <1>2, <1>3, <1>4

LEMMA CarryBit == ASSUME NEW F PROVE Carry(F) \in {0, 1}
BY DEF Carry

LEMMA Mod256 == ASSUME NEW n \in Int PROVE (n % 256) \in Byte
BY SMT DEF Byte

\* What is reduced to 8 or to 16 bits is a byte or a word.
LEMMA InInterval ==
  ASSUME NEW y \in Int, NEW n \in Int, 0 <= y, y <= n PROVE y \in 0 .. n
BY SMT

LEMMA InWord ==
  ASSUME NEW x \in Int, 0 <= x, x <= 65535 PROVE x \in Word
<1>1. x <= WordTop
  BY SMT DEF WordTop
<1> QED
  BY <1>1, WordUpTo, InInterval

LEMMA Mod65536 == ASSUME NEW n \in Int PROVE (n % 65536) \in Word
<1>1. (n % 65536) \in Int /\ 0 <= (n % 65536) /\ (n % 65536) <= 65535
  BY SMT
<1> QED
  BY <1>1, InWord

\* So does every 8-bit operation ...
LEMMA AddByte ==
  ASSUME NEW x \in Byte, NEW y \in Byte, NEW c \in {0, 1}
  PROVE  FlagsAdd8(x, y, c).res \in Byte
<1>1. PICK s \in Byte, h \in {0, 1}, k \in {0, 1} : 
        /\ Add8(x, y, c) = [res |-> s, half |-> h, carry |-> k]
        /\ 256 * k + s = x + y + c
        /\ h = 1 <=> (x % 16) + (y % 16) + c > 15
  BY Add8IsSum, ZenonT(40)
<1>2. FlagsAdd8(x, y, c).res = Add8(x, y, c).res
  BY DEF FlagsAdd8
<1> QED
  BY <1>1, <1>2

LEMMA SubByte ==
  ASSUME NEW x \in Byte, NEW y \in Byte, NEW c \in {0, 1}, NEW cp
  PROVE  FlagsSub8(x, y, c, cp).res \in Byte
<1>1. PICK s \in Byte, h \in {0, 1}, k \in {0, 1} : 
        /\ Sub8(x, y, c) = [res |-> s, half |-> h, carry |-> k]
        /\ s - 256 * k = x - y - c
        /\ h = 1 <=> (x % 16) - (y % 16) - c < 0
  BY Sub8IsDifference, ZenonT(40)
<1>2. FlagsSub8(x, y, c, cp).res = Sub8(x, y, c).res
  BY DEF FlagsSub8
<1> QED
  BY <1>1, <1>2

LEMMA AluByte ==
  ASSUME NEW op \in AluOps, NEW x \in Byte, NEW y \in Byte, NEW F
  PROVE  AluOp(op, x, y, F).res \in Byte /\ AluOp(op, x, y, F).f \subseteq FlagNames
<1>1. CASE op \in {"ADD", "ADC"}
  <2>1. (IF op = "ADC" THEN Carry(F) ELSE 0) \in {0, 1}
    BY CarryBit
  <2> QED
    BY <1>1, <2>1, AddByte, ArithNamed DEF AluOp
<1>2. CASE op \in {"SUB", "SBC"}
  <2>1. (IF op = "SBC" THEN Carry(F) ELSE 0) \in {0, 1}
    BY CarryBit
  <2> QED
    BY <1>2, <2>1, SubByte, ArithNamed DEF AluOp
<1>3. CASE op = "CP"
  BY <1>3, SubByte, ArithNamed DEF AluOp
<1>4. CASE op \in {"AND", "OR", "XOR"}
  <2>1. AluOp(op, x, y, F) = FlagsLogic(op, x, y)
    BY <1>4 DEF AluOp
  <2>2. FlagsLogic(op, x, y).res \in Byte
    BY <1>4, LogicByte DEF FlagsLogic
  <2>3. FlagsLogic(op, x, y).f \subseteq FlagNames
    BY UnaryNamed, Names
  <2> QED
    BY <2>1, <2>2, <2>3
<1> QED
  BY <1>1, <1>2, <1>3, <1>4 DEF AluOps

LEMMA RotatedByte ==
  ASSUME NEW op \in Rots, NEW v \in Byte, NEW F
  PROVE  Rotated(op, v, F) \in Byte
<1>1. (v \div 128) \in {0, 1} /\ (v % 2) \in {0, 1}
  BY SMT DEF Byte
<1>2. BitIn(op, v, F) \in {0, 1}
  BY <1>1, CarryBit DEF BitIn
<1>3. ASSUME NEW b \in {0, 1}
      PROVE  ((2 * v) % 256) + b \in Byte /\ (v \div 2) + 128 * b \in Byte
  BY <1>3, SMT DEF Byte
<1> QED
  BY <1>2, <1>3 DEF Rotated

LEMMA UnaryByte ==
  ASSUME NEW v \in Byte, NEW F, NEW op \in Rots
  PROVE  /\ FlagsInc8(v, F).res \in Byte /\ FlagsDec8(v, F).res \in Byte
         /\ FlagsNeg(v).res \in Byte /\ FlagsCpl(v, F).res \in Byte
         /\ FlagsDaa(v, F).res \in Byte
         /\ FlagsRot(op, v, F).res \in Byte /\ FlagsRotA(op, v, F).res \in Byte
<1>0. v \in Int /\ v + 1 \in Int /\ v - 1 \in Int /\ 255 - v \in Byte /\ 0 \in Byte
  BY DEF Byte
<1>1. FlagsInc8(v, F).res \in Byte /\ FlagsDec8(v, F).res \in Byte
  BY <1>0, Mod256 DEF FlagsInc8, FlagsDec8
<1>2. FlagsNeg(v).res \in Byte
  BY <1>0, SubByte DEF FlagsNeg
<1>3. FlagsCpl(v, F).res \in Byte
  BY <1>0 DEF FlagsCpl
<1>4. FlagsDaa(v, F).res \in Byte
  <2> DEFINE corr == (IF "H" \in F \/ v % 16 > 9 THEN 6 ELSE 0)
                       + (IF "C" \in F \/ v > 153 THEN 96 ELSE 0)
  <2>1. corr \in Int
    OBVIOUS
  <2>2. FlagsDaa(v, F).res = IF "N" \in F THEN (v - corr) % 256 ELSE (v + corr) % 256
    BY DEF FlagsDaa
  <2> HIDE DEF corr
  <2>3. v - corr \in Int /\ v + corr \in Int
    BY <1>0, <2>1
  <2> QED
    BY <2>2, <2>3, Mod256
<1>5. FlagsRot(op, v, F).res \in Byte /\ FlagsRotA(op, v, F).res \in Byte
  BY RotatedByte DEF FlagsRot, FlagsRotA
<1> QED
  BY <1>1, <1>2, <1>3, <1>4, <1>5

\* ... the digit rotates, both bytes they write ...
LEMMA DigitBytes ==
  ASSUME NEW v \in Byte, NEW m \in Byte, NEW F
  PROVE  /\ FlagsRrd(v, m, F).res \in Byte /\ FlagsRrd(v, m, F).mem \in Byte
         /\ FlagsRld(v, m, F).res \in Byte /\ FlagsRld(v, m, F).mem \in Byte
BY Nibbles, TwoNibbles DEF FlagsRrd, FlagsRld

\* ... and the 16-bit adds leave words.
LEMMA WordResults ==
  ASSUME NEW x \in Word, NEW y \in Word, NEW F
  PROVE  /\ Add16(x, y, F).res \in Word /\ Adc16(x, y, F).res \in Word
         /\ Sbc16(x, y, F).res \in Word
<1>1. x \in Int /\ y \in Int /\ Carry(F) \in Int
  BY WordIs, CarryBit
<1>2. x + y \in Int /\ x + y + Carry(F) \in Int /\ x - y - Carry(F) \in Int
  BY <1>1
<1> QED
  BY <1>2, Mod65536, SMT DEF Add16, Adc16, Sbc16

\* Each part of TypeOK: registers and F, Q, the place in the program.
RegsOK  == /\ a \in Byte /\ r \in Byte /\ hl \in Word /\ rp \in Word /\ bc \in Word
           /\ f \subseteq FlagNames
QOK     == q \in {{}, f}
OwesOK  == wbp \in BOOLEAN /\ wb_rep \in BOOLEAN
PlaceOK == start \in Starts /\ prog = start.prog /\ pc \in 1 .. Len(prog) + 1

LEMMA TypeParts == TypeOK <=> RegsOK /\ QOK /\ OwesOK /\ PlaceOK
BY DEF TypeOK, RegsOK, QOK, OwesOK, PlaceOK

\* The registers a program starts from are bytes, words and flags.
LEMMA TypeInit == Init => TypeOK
<1> SUFFICES ASSUME Init PROVE RegsOK /\ QOK /\ OwesOK /\ PlaceOK
  BY TypeParts
<1>1. PICK s \in Starts :
        /\ a = s.a /\ r = s.r /\ hl = s.hl /\ rp = s.rp /\ bc = s.bc
        /\ f = s.f /\ q \in {{}, s.f} /\ prog = s.prog /\ pc = 1 /\ start = s
        /\ wbp = FALSE /\ wb_rep = FALSE
  BY DEF Init
<1>2. RegsOK /\ QOK /\ OwesOK
  BY <1>1, StartsAssumption DEF RegsOK, QOK, OwesOK
<1>3. Len(prog) \in Nat
  BY <1>1, StartsAssumption
<1> QED
  BY <1>1, <1>2, <1>3 DEF PlaceOK

\* A step stays in the program, and leaves Q empty or F.
LEMMA PlaceStep ==
  ASSUME PlaceOK, Next, ~UNCHANGED vars PROVE PlaceOK'
<1>1. prog \in Seq(STRING) /\ Len(prog) \in Nat
  BY StartsAssumption DEF PlaceOK
<1>2. CASE FireBlock
  BY <1>2, FireIs DEF PlaceOK
<1>3. CASE ~FireBlock
  <2>1. \E i : Is(i) /\ Ran(i) /\ pc' \in {pc, pc + 1}
    BY <1>3, StepIs, Zenon DEF Step
  <2>2. prog' = prog /\ start' = start /\ pc <= Len(prog) /\ pc' \in {pc, pc + 1}
    BY <2>1, Zenon DEF Is, Ran
  <2>3. pc' \in 1 .. Len(prog) + 1
    BY <1>1, <2>2 DEF PlaceOK
  <2> QED
    BY <2>2, <2>3 DEF PlaceOK
<1> QED
  BY <1>2, <1>3

LEMMA QOKStep == ASSUME QOK, Next, ~UNCHANGED vars PROVE QOK'
BY StepQ, FireIs, Zenon DEF QOK

\* What the cases of the next lemma look up.
LEMMA IncDecByte ==
  ASSUME NEW v \in Byte, NEW F PROVE FlagsInc8(v, F).res \in Byte /\ FlagsDec8(v, F).res \in Byte
BY UnaryByte DEF Rots, LeftRots, RightRots

LEMMA RotByte ==
  ASSUME NEW v \in Byte, NEW F, NEW op \in Rots
  PROVE FlagsRot(op, v, F).res \in Byte /\ FlagsRotA(op, v, F).res \in Byte
BY UnaryByte

\* A round of a block instruction: what it leaves, v its byte.
Less1       == (bc - 1) % 65536
Less1Byte   == (bc - 1) % 256

Leaves(i, v, left, rep) ==
  /\ Is(i) /\ Ran(i) /\ pc' = IF rep THEN pc ELSE pc + 1
  /\ r' = v /\ bc' = left /\ a' = a /\ hl' = hl /\ rp' = rp /\ f' = f
  /\ wbp' = TRUE /\ wb_rep' = rep

\* Each block instruction leaves that.
LEMMA LdirIs == Ldir => \E v \in Operands : Leaves("LDIR", v, Less1, Less1 # 0)
BY SMT DEF Ldir, Leaves, Round, Defer, Less1

LEMMA CpirIs == Cpir => \E v \in Operands : Leaves("CPIR", v, Less1, Less1 # 0 /\ a # v)
BY SMT DEF Cpir, Leaves, Round, Defer, Less1

LEMMA InirIs == Inir => \E v \in Operands : Leaves("INIR", v, Less1Byte, Less1Byte # 0)
BY SMT DEF Inir, Leaves, Round, Defer, Less1Byte

LEMMA RoundIs ==
  ASSUME Ldir \/ Cpir \/ Inir
  PROVE  \E v \in Operands, left \in {Less1, Less1Byte}, i \in Blocks, rep \in BOOLEAN :
           Leaves(i, v, left, rep)
BY LdirIs, CpirIs, InirIs, Zenon DEF Blocks

\* The counter counts in words, or in a byte of one.
LEMMA CounterWord ==
  ASSUME bc \in Word PROVE Less1 \in Word /\ Less1Byte \in Word
<1>1. bc - 1 \in Int
  BY WordIs
<1>2. Less1Byte \in Byte
  BY <1>1, Mod256 DEF Less1Byte
<1>3. Less1Byte \in Int /\ 0 <= Less1Byte /\ Less1Byte <= 65535
  BY <1>2, ByteIs
<1> QED
  BY <1>1, <1>3, Mod65536, InWord DEF Less1

\* The F of a block instruction is flags, repeated or not.
LEMMA BlockNamed ==
  ASSUME f \subseteq FlagNames, last \in Blocks, NEW pch
  PROVE  BlockF \subseteq FlagNames /\ RepeatF(pch) \subseteq FlagNames
<1>1. BlockF \subseteq FlagNames
  BY OthersNamed DEF BlockF, Blocks
<1>2. RepeatXY(BlockF, pch) \subseteq FlagNames
  BY <1>1, OthersNamed
<1> QED
  BY <1>1, <1>2, RepeatIoNamed DEF RepeatF

\* Whether an F waits, and for which kind of round, is a Boolean.
LEMMA OwesOKStep == ASSUME OwesOK, Next, ~UNCHANGED vars PROVE OwesOK'
<1>1. CASE Ldir \/ Cpir \/ Inir
  BY <1>1, RoundIs, Zenon DEF Leaves, OwesOK
<1>2. CASE FireBlock
  BY <1>2, FireIs DEF OwesOK
<1>3. CASE ~(Ldir \/ Cpir \/ Inir \/ FireBlock)
  BY <1>3 DEF Next, AluA, IncDec, RotateA, Rotate, BitUnit, Unary, CarryFlag, Load, LoadIR, In,
              PrefixM1, Digits, AddWord, Done, Step, OwesOK, vars
<1> QED
  BY <1>1, <1>2, <1>3

\* Every action leaves bytes, words and flags.
LEMMA RegsStep ==
  ASSUME RegsOK, Next, ~UNCHANGED vars PROVE RegsOK'
<1> USE DEF RegsOK
<1>1. CASE AluA
  BY <1>1, AluByte DEF AluA, WriteF
<1>2. CASE IncDec
  <2>1. r' \in {FlagsInc8(r, f).res, FlagsDec8(r, f).res}
        /\ f' \in {FlagsInc8(r, f).f, FlagsDec8(r, f).f}
        /\ UNCHANGED <<a, hl, rp, bc>>
    BY <1>2, Zenon DEF IncDec, WriteF
  <2> QED
    BY <2>1, IncDecByte, UnaryNamed
<1>3. CASE RotateA
  <2>1. PICK op \in DOMAIN RotA :
          /\ a' = FlagsRotA(RotA[op], a, f).res /\ f' = FlagsRotA(RotA[op], a, f).f
          /\ UNCHANGED <<r, hl, rp, bc>>
    BY <1>3, Zenon DEF RotateA, WriteF
  <2>2. RotA[op] \in Rots
    BY DEF RotA, Rots, LeftRots, RightRots
  <2> QED
    BY <2>1, <2>2, RotByte, UnaryNamed
<1>4. CASE Rotate
  BY <1>4, RotByte, UnaryNamed DEF Rotate, WriteF
<1>5. CASE BitUnit
  <2>1. /\ \/ r' = r /\ f' = FlagsBit(bc % 8, r, r, f)
           \/ r' = ByteOf[BitsOf[r] \ {bc % 8}] /\ f' = f
           \/ r' = ByteOf[BitsOf[r] \cup {bc % 8}] /\ f' = f
        /\ UNCHANGED <<a, hl, rp, bc>>
    BY <1>5 DEF BitUnit, WriteF, KeepF
  <2>2. bc % 8 \in Bits
    BY WordIs DEF Bits
  <2>3. BitsOf[r] \ {bc % 8} \in SUBSET Bits /\ BitsOf[r] \cup {bc % 8} \in SUBSET Bits
    BY <2>2, BitsOfByte
  <2> QED
    BY <2>1, <2>3, UnaryNamed, ByteOfBits
<1>6. CASE Unary
  <2>1. /\ \/ a' = FlagsDaa(a, f).res /\ f' = FlagsDaa(a, f).f
           \/ a' = FlagsCpl(a, f).res /\ f' = FlagsCpl(a, f).f
           \/ a' = FlagsNeg(a).res /\ f' = FlagsNeg(a).f
        /\ UNCHANGED <<r, hl, rp, bc>>
    BY <1>6 DEF Unary, WriteF
  <2>2. FlagsNeg(a).f \subseteq FlagNames
    BY ArithNamed DEF FlagsNeg
  <2>3. f' \subseteq FlagNames
    BY <2>1, <2>2, UnaryNamed
  <2>4. a' \in Byte
    BY <2>1, UnaryByte DEF Rots, LeftRots
  <2> QED
    BY <2>1, <2>3, <2>4
<1>7. CASE CarryFlag
  BY <1>7, OthersNamed DEF CarryFlag, WriteF, regs
<1>8. CASE Load \/ PrefixM1
  BY <1>8, BytesAssumption DEF Load, PrefixM1, KeepF, regs
<1>9. CASE LoadIR
  BY <1>9, OthersNamed DEF LoadIR, WriteF
<1>10. CASE In
  BY <1>10, OthersNamed, BytesAssumption DEF In, WriteF
<1>11. CASE Digits
  BY <1>11, DigitBytes, OthersNamed DEF Digits, WriteF
<1>12. CASE AddWord
  BY <1>12, WordResults, WordNamed DEF AddWord, WriteF
<1>13. CASE Ldir \/ Cpir \/ Inir
  BY <1>13, RoundIs, CounterWord, BytesAssumption DEF Leaves
<1>14. CASE FireBlock
  BY <1>14, FireIs, BlockNamed DEF FireBlock, WriteF
<1>16. CASE Done
  BY <1>16 DEF Done
<1> QED
  BY <1>1, <1>2, <1>3, <1>4, <1>5, <1>6, <1>7, <1>8, <1>9, <1>10, <1>11, <1>12, <1>13,
     <1>14, <1>16 DEF Next

LEMMA TypeStep == TypeOK /\ [Next]_vars => TypeOK'
<1>1. CASE UNCHANGED vars
  BY <1>1 DEF vars, regs, TypeOK
<1>2. CASE ~UNCHANGED vars
  <2> SUFFICES ASSUME RegsOK, QOK, OwesOK, PlaceOK, Next
               PROVE  (RegsOK /\ QOK /\ OwesOK /\ PlaceOK)'
    BY <1>2, TypeParts DEF TypeOK, RegsOK, QOK, OwesOK, PlaceOK
  <2> QED
    BY <1>2, RegsStep, QOKStep, OwesOKStep, PlaceStep
<1> QED
  BY <1>1, <1>2

\* Whatever runs, A, the operand, HL, the pair and the counter stay in their 8 or
\* 16 bits, F holds flags only, Q is F or empty, and PC stays in the program.
THEOREM TypeAlways == Spec => []TypeOK
BY TypeInit, TypeStep, PTL DEF Spec

-----------------------------------------------------------------------------
\* A block instruction is at pc again exactly where it repeats.
LEMMA AgainIsRepeat ==
  ASSUME PlaceOK, NEW i, Ran(i), NEW rep \in BOOLEAN,
         pc' = IF rep THEN pc ELSE pc + 1
  PROVE  pc' = at' <=> rep
<1>1. pc \in Int /\ at' = pc
  BY StartsAssumption DEF PlaceOK, Ran
<1> QED
  BY <1>1

\* What a block instruction's F says of its counter and its byte; a repeat
\* changes X and Y alone.
LEMMA RepeatKeeps ==
  ASSUME NEW F, NEW w, NEW n, n \notin {"X", "Y"} PROVE n \in RepeatXY(F, w) <=> n \in F
BY XYIs, Zenon DEF RepeatXY

LEMMA RepeatGives ==
  ASSUME NEW F, NEW w PROVE RepeatXY(F, w) \cap {"X", "Y"} = XY(w)
BY XYIs, Zenon DEF RepeatXY

LEMMA BlockXYIs == ASSUME NEW n PROVE BlockXY(n) \subseteq {"X", "Y"}
BY FlagIs, Zenon DEF BlockXY

LEMMA BlockLdSays ==
  ASSUME NEW F, NEW x, NEW v, NEW more \in BOOLEAN
  PROVE  /\ "P" \in FlagsBlockLd(F, x, v, more) <=> more
         /\ FlagsBlockLd(F, x, v, more) \cap {"X", "Y"} = BlockXY((x + v) % 256)
<1> DEFINE xy == BlockXY((x + v) % 256)
           G  == FlagsBlockLd(F, x, v, more)
<1>1. G = (F \cap {"S", "Z", "C"}) \cup xy \cup Flag("P", more)
  BY DEF FlagsBlockLd
<1>2. xy \subseteq {"X", "Y"}
  BY BlockXYIs
<1> HIDE DEF G, xy
<1>3. /\ "P" \in G <=> more
      /\ \A n \in {"X", "Y"} : n \in G <=> n \in xy
  BY <1>1, <1>2, SMT DEF Flag
<1>4. G \cap {"X", "Y"} = xy
  BY <1>2, <1>3, Zenon
<1> QED
  BY <1>3, <1>4 DEF G, xy

\* The difference of two bytes is 0 only where they are the same.
LEMMA SameByte ==
  ASSUME NEW x \in Byte, NEW y \in Byte PROVE (x - y) % 256 = 0 <=> x = y
<1>1. ASSUME NEW d \in Int, -255 <= d, d <= 255 PROVE (d % 256) = 0 <=> d = 0
  BY <1>1, SMT
<1>2. x - y \in Int /\ -255 <= x - y /\ x - y <= 255 /\ (x - y = 0 <=> x = y)
  BY ByteIs
<1> QED
  BY <1>1, <1>2

\* CPI's flags: P/V the counter, Z the match, H and S a borrow.
LEMMA BlockCpSays ==
  ASSUME NEW F, NEW x \in Byte, NEW v \in Byte, NEW more \in BOOLEAN
  PROVE  LET G == FlagsBlockCp(F, x, v, more)
         IN  /\ "P" \in G <=> more
             /\ "Z" \in G <=> x = v
             /\ "H" \in G <=> x % 16 < v % 16
             /\ "S" \in G <=> (x - v) % 256 >= 128
             /\ G \cap {"X", "Y"} = BlockXY((x - v - (IF "H" \in G THEN 1 ELSE 0)) % 256)
<1> DEFINE res  == (x - v) % 256
           half == x % 16 < v % 16
           G    == FlagsBlockCp(F, x, v, more)
           xy   == BlockXY((res - (IF half THEN 1 ELSE 0)) % 256)
<1>1. G = (F \cap {"C"}) \cup {"N"} \cup Flag("S", res >= 128) \cup Flag("Z", res = 0)
            \cup Flag("H", half) \cup xy \cup Flag("P", more)
  BY DEF FlagsBlockCp
<1>2. xy \subseteq {"X", "Y"}
  BY BlockXYIs
<1> HIDE DEF res, half, G, xy
<1>3. /\ "P" \in G <=> more
      /\ "Z" \in G <=> res = 0
      /\ "H" \in G <=> half
      /\ "S" \in G <=> res >= 128
  BY <1>1, <1>2, SMT DEF Flag
<1>x. G \cap {"X", "Y"} = xy
  <2>1. \A n \in {"X", "Y"} : n \in G <=> n \in xy
    BY <1>1, <1>2, SMT DEF Flag
  <2> QED
    BY <1>2, <2>1, Zenon
<1>4. res = 0 <=> x = v
  BY SameByte DEF res
<1>5. xy = BlockXY((x - v - (IF "H" \in G THEN 1 ELSE 0)) % 256)
  <2>1. ASSUME NEW h \in {0, 1}
        PROVE  (((x - v) % 256) - h) % 256 = (x - v - h) % 256
    BY <2>1, SMT DEF Byte
  <2>2. ((res - (IF half THEN 1 ELSE 0)) % 256) = (x - v - (IF "H" \in G THEN 1 ELSE 0)) % 256
    BY <1>3, <2>1 DEF res
  <2> QED
    BY <2>2, Zenon DEF xy
<1> QED
  BY <1>3, <1>x, <1>4, <1>5 DEF G, half, res

\* INI's flags, and what a repeat changes them to.
LEMMA BlockIoSays ==
  ASSUME NEW v, NEW b, NEW k
  PROVE  LET G == FlagsBlockIo(v, b, k)
         IN  /\ "S" \in G <=> b >= 128
             /\ "Z" \in G <=> b = 0
             /\ "N" \in G <=> v >= 128
             /\ "C" \in G <=> k > 255
             /\ G \cap {"X", "Y"} = XY(b)
<1>1. XY(b) \subseteq {"X", "Y"}
  BY XYIs
<1> DEFINE parity == Flag("P", EvenParity[Logic("XOR", k % 8, b)])
           G      == FlagsBlockIo(v, b, k)
<1>2. parity \subseteq {"P"}
  BY FlagIs
<1>3. G = SZXY(b) \cup Flag("N", v >= 128) \cup (IF k > 255 THEN {"H", "C"} ELSE {}) \cup parity
  BY DEF FlagsBlockIo
<1> HIDE DEF parity, G
<1>4. /\ "S" \in G <=> b >= 128
      /\ "Z" \in G <=> b = 0
      /\ "N" \in G <=> v >= 128
      /\ "C" \in G <=> k > 255
      /\ G \cap {"X", "Y"} = XY(b)
  BY <1>1, <1>2, <1>3, SMT DEF SZXY, Flag
<1> QED
  BY <1>4, Zenon DEF G

LEMMA RepeatIoSays ==
  ASSUME NEW v, NEW b, NEW k, NEW pch
  PROVE  LET G == RepeatIo(v, b, k, pch)
         IN  /\ "S" \in G <=> b >= 128
             /\ "Z" \notin G
             /\ "N" \in G <=> v >= 128
             /\ "C" \in G <=> k > 255
             /\ G \cap {"X", "Y"} = XY(pch)
<1> DEFINE n == v >= 128
           p == Logic("XOR", k % 8, b)
           near == IF k <= 255 THEN b ELSE IF n THEN (b - 1) % 256 ELSE (b + 1) % 256
           half   == Flag("H", k > 255 /\ b % 16 = (IF n THEN 0 ELSE 15))
           parity == Flag("P", EvenParity[Logic("XOR", p, near % 8)])
           G      == RepeatIo(v, b, k, pch)
<1>1. XY(pch) \subseteq {"X", "Y"} /\ half \subseteq {"H"} /\ parity \subseteq {"P"}
  BY XYIs, FlagIs
<1>2. G = Flag("S", b >= 128) \cup XY(pch) \cup Flag("N", n) \cup Flag("C", k > 255)
            \cup half \cup parity
  BY DEF RepeatIo
<1> HIDE DEF parity, half, G
<1>3. /\ "S" \in G <=> b >= 128
      /\ "Z" \notin G
      /\ "N" \in G <=> v >= 128
      /\ "C" \in G <=> k > 255
      /\ G \cap {"X", "Y"} = XY(pch)
  BY <1>1, <1>2, SMT DEF Flag, n
<1> QED
  BY <1>3, Zenon DEF G

\* While the F of a round waits, what its decision was still shows: in PC, and
\* in the counter and the byte that F will be computed from.
Decided ==
  wbp => /\ wb_rep <=> pc = at
         /\ last \in {"LDIR", "INIR"} => (wb_rep <=> bc # 0)
         /\ last = "CPIR" => (wb_rep <=> bc # 0 /\ a # r)

LEMMA DecidedRound ==
  ASSUME TypeOK, Ldir \/ Cpir \/ Inir PROVE Decided'
<1>1. CASE Ldir
  <2>1. PICK v \in Operands : Leaves("LDIR", v, Less1, Less1 # 0)
    BY <1>1, LdirIs
  <2> QED
    BY <2>1, AgainIsRepeat, TypeParts DEF Leaves, Ran, Decided
<1>2. CASE Cpir
  <2>1. PICK v \in Operands : Leaves("CPIR", v, Less1, Less1 # 0 /\ a # v)
    BY <1>2, CpirIs
  <2> QED
    BY <2>1, AgainIsRepeat, TypeParts DEF Leaves, Ran, Decided
<1>3. CASE Inir
  <2>1. PICK v \in Operands : Leaves("INIR", v, Less1Byte, Less1Byte # 0)
    BY <1>3, InirIs
  <2> QED
    BY <2>1, AgainIsRepeat, TypeParts DEF Leaves, Ran, Decided
<1> QED
  BY <1>1, <1>2, <1>3

\* No other action owes an F.
LEMMA OthersOwe ==
  ASSUME Next, ~(Ldir \/ Cpir \/ Inir \/ FireBlock), ~UNCHANGED vars
  PROVE  ~wbp /\ wbp' = wbp
BY DEF Next, AluA, IncDec, RotateA, Rotate, BitUnit, Unary, CarryFlag, Load, LoadIR, In,
       PrefixM1, Digits, AddWord, Done, Step, Is

LEMMA DecidedStep == TypeOK /\ Decided /\ [Next]_vars => Decided'
<1> SUFFICES ASSUME TypeOK, Decided, [Next]_vars PROVE Decided'
  OBVIOUS
<1>1. CASE UNCHANGED vars
  BY <1>1 DEF Decided, vars, regs
<1>2. CASE Ldir \/ Cpir \/ Inir
  BY <1>2, DecidedRound
<1>3. CASE FireBlock
  BY <1>3, FireIs DEF Decided
<1>4. CASE Next /\ ~(Ldir \/ Cpir \/ Inir \/ FireBlock) /\ ~UNCHANGED vars
  BY <1>4, OthersOwe DEF Decided
<1> QED
  BY <1>1, <1>2, <1>3, <1>4

\* The F that each then writes agrees with its registers and its place.
LEMMA LdirAgrees ==
  ASSUME Decided, FireBlock, last = "LDIR" PROVE BlockAgrees'
<1>1. PICK pch : f' = (IF wb_rep THEN RepeatF(pch) ELSE BlockF) /\ (wb_rep => pch \in PcHighs)
  BY Zenon DEF FireBlock, WriteF
<1> DEFINE more == bc # 0
           F    == FlagsBlockLd(f, a, r, more)
<1>2. BlockF = F /\ RepeatF(pch) = RepeatXY(F, pch)
  BY DEF BlockF, RepeatF
<1>m. more \in BOOLEAN /\ (more <=> bc # 0)
  OBVIOUS
<1> HIDE DEF more
<1>3. ("P" \in F <=> more) /\ F \cap {"X", "Y"} = BlockXY((a + r) % 256)
  BY <1>m, BlockLdSays
<1>4. "P" \in RepeatXY(F, pch) <=> "P" \in F
  BY RepeatKeeps
<1> HIDE DEF F
<1>5. (wb_rep <=> pc = at) /\ (wb_rep <=> bc # 0)
  BY FireIs DEF Decided
<1>6. ("P" \in f' <=> bc # 0)
  BY <1>1, <1>2, <1>3, <1>4, <1>m
<1>7. f' \cap {"X", "Y"} \in
        (IF pc = at THEN {XY(w) : w \in PcHighs} ELSE {BlockXY((a + r) % 256)})
  BY <1>1, <1>2, <1>3, <1>5, RepeatGives
<1> QED
  BY <1>5, <1>6, <1>7, FireIs DEF BlockAgrees, Blocks

LEMMA CpirAgrees ==
  ASSUME TypeOK, Decided, FireBlock, last = "CPIR" PROVE BlockAgrees'
<1>1. PICK pch : f' = (IF wb_rep THEN RepeatF(pch) ELSE BlockF) /\ (wb_rep => pch \in PcHighs)
  BY Zenon DEF FireBlock, WriteF
<1> DEFINE more == bc # 0
           F     == FlagsBlockCp(f, a, r, more)
           xy(G) == BlockXY((a - r - (IF "H" \in G THEN 1 ELSE 0)) % 256)
<1>2. BlockF = F /\ RepeatF(pch) = RepeatXY(F, pch)
  BY DEF BlockF, RepeatF
<1>4. a \in Byte /\ r \in Byte
  BY TypeParts DEF RegsOK
<1>m. more \in BOOLEAN /\ (more <=> bc # 0)
  OBVIOUS
<1> HIDE DEF more
<1>5. /\ "P" \in F <=> more
      /\ "Z" \in F <=> a = r
      /\ "H" \in F <=> a % 16 < r % 16
      /\ "S" \in F <=> (a - r) % 256 >= 128
      /\ F \cap {"X", "Y"} = xy(F)
  BY <1>4, <1>m, BlockCpSays
<1> HIDE DEF F
<1>7. ASSUME NEW n \in {"P", "Z", "H", "S"} PROVE n \in f' <=> n \in F
  BY <1>1, <1>2, RepeatKeeps
<1>8. ("P" \in f' <=> bc # 0) /\ ("Z" \in f' <=> a = r)
  BY <1>5, <1>7, <1>m
<1>9. (wb_rep <=> pc = at) /\ (wb_rep <=> bc # 0 /\ a # r)
  BY FireIs DEF Decided
<1>10. "H" \in f' \/ "S" \in f' => "Z" \notin f'
  <2>1. a = r => ~(a % 16 < r % 16) /\ ~((a - r) % 256 >= 128)
    BY <1>4, ByteIs
  <2> QED
    BY <1>5, <1>7, <2>1
<1>11. pc = at <=> {"P", "Z"} \cap f' = {"P"}
  <2>1. {"P", "Z"} \cap f' = {"P"} <=> ("P" \in f' /\ "Z" \notin f')
    OBVIOUS
  <2> QED
    BY <1>8, <1>9, <2>1
<1>12. f' \cap {"X", "Y"} \in (IF pc = at THEN {XY(w) : w \in PcHighs} ELSE {xy(f')})
  <2>1. CASE wb_rep
    BY <1>1, <1>2, <1>9, <2>1, RepeatGives
  <2>2. CASE ~wb_rep
    BY <1>1, <1>2, <1>5, <1>9, <2>2
  <2> QED
    BY <2>1, <2>2
<1> QED
  BY <1>8, <1>10, <1>11, <1>12, FireIs DEF BlockAgrees, Blocks

LEMMA InirAgrees ==
  ASSUME Decided, FireBlock, last = "INIR" PROVE BlockAgrees'
<1>1. PICK pch : f' = (IF wb_rep THEN RepeatF(pch) ELSE BlockF) /\ (wb_rep => pch \in PcHighs)
  BY Zenon DEF FireBlock, WriteF
<1> DEFINE F == FlagsBlockIo(r, bc, r + a)
           G == RepeatIo(r, bc, r + a, pch)
<1>2. BlockF = F /\ RepeatF(pch) = G
  BY DEF BlockF, RepeatF
<1>3. (wb_rep <=> pc = at) /\ (wb_rep <=> bc # 0)
  BY FireIs DEF Decided
<1>5. ("S" \in F <=> bc >= 128) /\ ("Z" \in F <=> bc = 0)
      /\ ("N" \in F <=> r >= 128) /\ ("C" \in F <=> r + a > 255)
      /\ F \cap {"X", "Y"} = XY(bc)
  BY BlockIoSays
<1>6. ("S" \in G <=> bc >= 128) /\ "Z" \notin G
      /\ ("N" \in G <=> r >= 128) /\ ("C" \in G <=> r + a > 255)
      /\ G \cap {"X", "Y"} = XY(pch)
  BY RepeatIoSays
<1>7. FlagsBlockIo(r', bc', r' + a') = F
  BY FireIs
<1> HIDE DEF F, G
<1>8. pc = at <=> "Z" \notin f'
  BY <1>1, <1>2, <1>3, <1>5, <1>6
<1>9. f' \cap {"S", "Z", "N", "C"} = F \cap {"S", "Z", "N", "C"}
  <2>1. CASE wb_rep
    BY <1>1, <1>2, <1>3, <1>5, <1>6, <2>1
  <2>2. CASE ~wb_rep
    BY <1>1, <1>2, <2>2
  <2> QED
    BY <2>1, <2>2
<1>10. f' \cap {"X", "Y"} \in (IF pc = at THEN {XY(w) : w \in PcHighs} ELSE {XY(bc)})
  BY <1>1, <1>2, <1>3, <1>5, <1>6
<1> QED
  BY <1>7, <1>8, <1>9, <1>10, FireIs DEF BlockAgrees, Blocks

\* No other instruction is a block instruction, so each step keeps it.
LEMMA BlockStep == TypeOK /\ Decided /\ BlockAgrees /\ [Next]_vars => BlockAgrees'
<1> SUFFICES ASSUME TypeOK, Decided, BlockAgrees, [Next]_vars PROVE BlockAgrees'
  OBVIOUS
<1>1. CASE UNCHANGED vars
  BY <1>1 DEF vars, regs, BlockAgrees
<1>2. CASE Ldir \/ Cpir \/ Inir
  BY <1>2, RoundIs DEF Leaves, BlockAgrees
<1>3. CASE FireBlock
  BY <1>3, LdirAgrees, CpirAgrees, InirAgrees, FireIs DEF Blocks
<1>4. CASE Next /\ ~(Ldir \/ Cpir \/ Inir \/ FireBlock) /\ ~UNCHANGED vars
  <2>1. last' \notin Blocks
    BY <1>4 DEF Next, AluA, AluOps, IncDec, RotateA, RotA, Rotate, Rots, LeftRots, RightRots,
         BitUnit, Unary, CarryFlag, Load, LoadIR, In, PrefixM1, Prefix, Digits, AddWord, Done,
         Step, Ran, Blocks
  <2> QED
    BY <2>1 DEF BlockAgrees, Blocks
<1> QED
  BY <1>1, <1>2, <1>3, <1>4

\* LDIR, CPIR and INIR decide to repeat as a round ends and write its F in the
\* next M1, from the registers they find: the two tell of the same round.
THEOREM BlocksAlways == Spec => []BlockAgrees
<1>1. Init => Decided /\ BlockAgrees
  BY DEF Init, Decided, BlockAgrees, Blocks
<1> QED
  BY <1>1, DecidedStep, BlockStep, TypeAlways, PTL DEF Spec

-----------------------------------------------------------------------------
(***************************************************************************)
(* Sequences that undo themselves: what each of their instructions makes   *)
(* of A, the operand and C, in the integers' terms.                        *)
(***************************************************************************)
TurnOps ==
  {"RLC", "RRC", "RL", "RR", "RLCA", "RRCA", "RLA", "RRA", "RLD", "RRD", "CPL", "NEG",
   "INC", "DEC", "ADD", "SUB", "XOR"}

\* A rotate left of v makes w, with the bit k out of the top and b into the
\* bottom; a rotate right the other way round.
Left(v, b, w, k)  == k \in {0, 1} /\ w + 256 * k = 2 * v + b
Right(v, b, w, k) == k \in {0, 1} /\ 2 * w + k = v + 256 * b

\* The digit rotates: A's low digit and the operand's two.
DigitsLeft(v, m, w, n) ==
  w = 16 * (v \div 16) + (m \div 16) /\ n = 16 * (m % 16) + (v % 16)
DigitsRight(v, m, w, n) ==
  w = 16 * (v \div 16) + (m % 16) /\ n = 16 * (v % 16) + (m \div 16)

\* Equal modulo 256.
Same256(x, y) == \E k \in -2 .. 2 : x = y + 256 * k

Turn(op, v, m, c, w, n, k) ==
  /\ op = "RLC" => w = v /\ Left(m, k, n, k)
  /\ op = "RL"  => w = v /\ Left(m, c, n, k)
  /\ op = "RRC" => w = v /\ Right(m, k, n, k)
  /\ op = "RR"  => w = v /\ Right(m, c, n, k)
  /\ op = "RLCA" => n = m /\ Left(v, k, w, k)
  /\ op = "RLA"  => n = m /\ Left(v, c, w, k)
  /\ op = "RRCA" => n = m /\ Right(v, k, w, k)
  /\ op = "RRA"  => n = m /\ Right(v, c, w, k)
  /\ op = "RLD" => k = c /\ DigitsLeft(v, m, w, n)
  /\ op = "RRD" => k = c /\ DigitsRight(v, m, w, n)
  /\ op = "CPL" => n = m /\ k = c /\ w = 255 - v
  /\ op = "NEG" => n = m /\ Same256(w, -v)
  /\ op = "INC" => w = v /\ k = c /\ Same256(n, m + 1)
  /\ op = "DEC" => w = v /\ k = c /\ Same256(n, m - 1)
  /\ op = "ADD" => n = m /\ Same256(w, v + m)
  /\ op = "SUB" => n = m /\ Same256(w, v - m)
  /\ op = "XOR" => n = m /\ w = Logic("XOR", v, m)

\* What each instruction of TurnOps is, as Next runs it.
LEMMA TurnRuns ==
  ASSUME Next, ~UNCHANGED vars, last' \in TurnOps
  PROVE  /\ Is(last') /\ prog' = prog /\ start' = start /\ pc' = pc + 1
         /\ last' \in {"ADD", "SUB", "XOR"} =>
              r' = r /\ a' = AluOp(last', a, r, f).res /\ f' = AluOp(last', a, r, f).f
         /\ last' = "NEG" => r' = r /\ a' = FlagsNeg(a).res /\ f' = FlagsNeg(a).f
         /\ last' = "CPL" => r' = r /\ a' = FlagsCpl(a, f).res /\ f' = FlagsCpl(a, f).f
         /\ last' = "INC" => a' = a /\ r' = FlagsInc8(r, f).res /\ f' = FlagsInc8(r, f).f
         /\ last' = "DEC" => a' = a /\ r' = FlagsDec8(r, f).res /\ f' = FlagsDec8(r, f).f
         /\ last' \in {"RLC", "RRC", "RL", "RR"} =>
              a' = a /\ r' = FlagsRot(last', r, f).res /\ f' = FlagsRot(last', r, f).f
         /\ last' \in {"RLCA", "RRCA", "RLA", "RRA"} =>
              /\ r' = r /\ a' = FlagsRotA(RotA[last'], a, f).res
              /\ f' = FlagsRotA(RotA[last'], a, f).f
         /\ last' = "RRD" => /\ a' = FlagsRrd(a, r, f).res /\ r' = FlagsRrd(a, r, f).mem
                             /\ f' = FlagsRrd(a, r, f).f
         /\ last' = "RLD" => /\ a' = FlagsRld(a, r, f).res /\ r' = FlagsRld(a, r, f).mem
                             /\ f' = FlagsRld(a, r, f).f
BY DEF Next, AluA, AluOps, IncDec, RotateA, RotA, Rotate, Rots, LeftRots, RightRots, BitUnit,
       Unary, CarryFlag, Load, LoadIR, In, PrefixM1, Prefix, Digits, AddWord,
       Ldir, Cpir, Inir, Round, FireBlock, Blocks, Done, Step, Ran, Is, WriteF, TurnOps

\* Rotates as Left and Right.
LEMMA RotTurns ==
  ASSUME NEW op \in {"RLC", "RRC", "RL", "RR"}, NEW v \in Byte, NEW F, NEW G,
         NEW w, w = Rotated(op, v, F), "C" \in G <=> BitOut(op, v) = 1
  PROVE  LET k == Carry(G)
         IN /\ op = "RLC" => Left(v, k, w, k)
            /\ op = "RL"  => Left(v, Carry(F), w, k)
            /\ op = "RRC" => Right(v, k, w, k)
            /\ op = "RR"  => Right(v, Carry(F), w, k)
<1>1. BitOut(op, v) \in {0, 1}
  BY SMT DEF BitOut, Byte
<1>2. Carry(G) = BitOut(op, v) /\ Carry(F) \in {0, 1}
  BY <1>1, CarryBit DEF Carry
<1>3. ASSUME NEW b \in {0, 1}
      PROVE  /\ Left(v, b, ((2 * v) % 256) + b, v \div 128)
             /\ Right(v, b, (v \div 2) + 128 * b, v % 2)
  BY <1>3, SMT DEF Left, Right, Byte
<1>4. CASE op = "RLC"
  BY <1>1, <1>2, <1>3, <1>4 DEF Rotated, BitIn, BitOut, LeftRots
<1>5. CASE op = "RL"
  BY <1>1, <1>2, <1>3, <1>5 DEF Rotated, BitIn, BitOut, LeftRots
<1>6. CASE op = "RRC"
  BY <1>1, <1>2, <1>3, <1>6 DEF Rotated, BitIn, BitOut, LeftRots
<1>7. CASE op = "RR"
  BY <1>1, <1>2, <1>3, <1>7 DEF Rotated, BitIn, BitOut, LeftRots
<1> QED
  BY <1>4, <1>5, <1>6, <1>7

\* C out of a set of flags built as the operators build it.
LEMMA CarryKept ==
  ASSUME NEW F, NEW v
  PROVE  /\ "C" \notin SZPXY(v) /\ "C" \notin SZXY(v) /\ "C" \notin XY(v)
BY DEF SZPXY, SZXY, XY, Flag

\* A byte's sum and difference are the integers', modulo 256.
LEMMA AddSame ==
  ASSUME NEW x \in Byte, NEW y \in Byte PROVE Same256(Add8(x, y, 0).res, x + y)
<1>1. PICK s \in Byte, h \in {0, 1}, k \in {0, 1} :
        /\ Add8(x, y, 0) = [res |-> s, half |-> h, carry |-> k]
        /\ 256 * k + s = x + y + 0
        /\ h = 1 <=> (x % 16) + (y % 16) + 0 > 15
  BY Add8IsSum, ZenonT(40)
<1>2. Add8(x, y, 0).res = s
  BY <1>1
<1>3. s = (x + y) + 256 * (-k) /\ -k \in -2 .. 2
  BY <1>1, SMT DEF Byte
<1> QED
  BY <1>2, <1>3 DEF Same256

\* A difference likewise.
LEMMA SubSame ==
  ASSUME NEW x \in Byte, NEW y \in Byte PROVE Same256(Sub8(x, y, 0).res, x - y)
<1>1. PICK s \in Byte, h \in {0, 1}, k \in {0, 1} :
        /\ Sub8(x, y, 0) = [res |-> s, half |-> h, carry |-> k]
        /\ s - 256 * k = x - y - 0
        /\ h = 1 <=> (x % 16) - (y % 16) - 0 < 0
  BY Sub8IsDifference, ZenonT(40)
<1>2. Sub8(x, y, 0).res = s
  BY <1>1
<1>3. s = (x - y) + 256 * k /\ k \in -2 .. 2
  BY <1>1, SMT DEF Byte
<1> QED
  BY <1>2, <1>3 DEF Same256

\* So every instruction of TurnOps is its Turn.
LEMMA TurnStep ==
  ASSUME Next, ~UNCHANGED vars, last' \in TurnOps, a \in Byte, r \in Byte
  PROVE  Turn(last', a, r, Carry(f), a', r', Carry(f'))
<1> DEFINE op == last'
<1>1. CASE op \in {"RLC", "RRC", "RL", "RR"}
  <2>1. a' = a /\ r' = Rotated(op, r, f) /\ ("C" \in f' <=> BitOut(op, r) = 1)
    BY <1>1, TurnRuns, CarryKept DEF FlagsRot, Flag
  <2>2. /\ op = "RLC" => Left(r, Carry(f'), r', Carry(f'))
        /\ op = "RL"  => Left(r, Carry(f), r', Carry(f'))
        /\ op = "RRC" => Right(r, Carry(f'), r', Carry(f'))
        /\ op = "RR"  => Right(r, Carry(f), r', Carry(f'))
    BY <1>1, <2>1, RotTurns
  <2> QED
    BY <1>1, <2>1, <2>2 DEF Turn
<1>2. CASE op \in {"RLCA", "RRCA", "RLA", "RRA"}
  <2>1. /\ r' = r /\ a' = Rotated(RotA[op], a, f)
        /\ "C" \in f' <=> BitOut(RotA[op], a) = 1
    BY <1>2, TurnRuns, CarryKept DEF FlagsRotA, Flag
  <2>2. /\ op = "RLCA" <=> RotA[op] = "RLC"
        /\ op = "RLA"  <=> RotA[op] = "RL"
        /\ op = "RRCA" <=> RotA[op] = "RRC"
        /\ op = "RRA"  <=> RotA[op] = "RR"
        /\ RotA[op] \in {"RLC", "RRC", "RL", "RR"}
    BY <1>2 DEF RotA
  <2>3. /\ op = "RLCA" => Left(a, Carry(f'), a', Carry(f'))
        /\ op = "RLA"  => Left(a, Carry(f), a', Carry(f'))
        /\ op = "RRCA" => Right(a, Carry(f'), a', Carry(f'))
        /\ op = "RRA"  => Right(a, Carry(f), a', Carry(f'))
    BY <2>1, <2>2, RotTurns
  <2> QED
    BY <1>2, <2>1, <2>3 DEF Turn
<1>3. CASE op \in {"RRD", "RLD"}
  <2>1. Carry(f') = Carry(f)
    BY <1>3, TurnRuns, CarryKept DEF FlagsRrd, FlagsRld, Carry
  <2>2. /\ op = "RLD" => DigitsLeft(a, r, a', r')
        /\ op = "RRD" => DigitsRight(a, r, a', r')
    BY <1>3, TurnRuns DEF FlagsRrd, FlagsRld, DigitsLeft, DigitsRight
  <2> QED
    BY <1>3, <2>1, <2>2 DEF Turn
<1>4. CASE op = "CPL"
  <2>1. Carry(f') = Carry(f)
    BY <1>4, TurnRuns, CarryKept DEF FlagsCpl, Carry
  <2> QED
    BY <1>4, <2>1, TurnRuns DEF FlagsCpl, Turn
<1>5. CASE op \in {"INC", "DEC"}
  <2>1. Carry(f') = Carry(f)
    BY <1>5, TurnRuns, CarryKept DEF FlagsInc8, FlagsDec8, Carry, Flag
  <2>2. /\ op = "INC" => Same256(r', r + 1)
        /\ op = "DEC" => Same256(r', r - 1)
    <3>1. Same256((r + 1) % 256, r + 1) /\ Same256((r - 1) % 256, r - 1)
      BY SMT DEF Same256, Byte
    <3> QED
      BY <1>5, <3>1, TurnRuns DEF FlagsInc8, FlagsDec8
  <2>3. a' = a
    BY <1>5, TurnRuns
  <2> QED
    BY <1>5, <2>1, <2>2, <2>3 DEF Turn
<1>6. CASE op = "ADD"
  <2>1. r' = r /\ a' = Add8(a, r, 0).res
    BY <1>6, TurnRuns DEF AluOp, FlagsAdd8
  <2> QED
    BY <1>6, <2>1, AddSame DEF Turn
<1>8. CASE op = "SUB"
  <2>1. r' = r /\ a' = Sub8(a, r, 0).res
    BY <1>8, TurnRuns DEF AluOp, FlagsSub8
  <2> QED
    BY <1>8, <2>1, SubSame DEF Turn
<1>9. CASE op = "NEG"
  <2>1. r' = r /\ a' = Sub8(0, a, 0).res
    BY <1>9, TurnRuns DEF FlagsNeg, FlagsSub8
  <2>2. 0 \in Byte /\ 0 - a = -a
    BY DEF Byte
  <2>3. Same256(Sub8(0, a, 0).res, 0 - a)
    BY <2>2, SubSame
  <2> QED
    BY <1>9, <2>1, <2>2, <2>3 DEF Turn
<1>10. CASE op = "XOR"
  BY <1>10, TurnRuns DEF AluOp, FlagsLogic, Turn
<1> QED
  BY <1>1, <1>2, <1>3, <1>4, <1>5, <1>6, <1>8, <1>9, <1>10 DEF TurnOps

\* A byte and its eight bits.
Weighs(v, b0, b1, b2, b3, b4, b5, b6, b7) ==
  v = b0 + 2 * b1 + 4 * b2 + 8 * b3 + 16 * b4 + 32 * b5 + 64 * b6 + 128 * b7
Reads(v, b0, b1, b2, b3, b4, b5, b6, b7) ==
  /\ (v \div 1) % 2 = b0 /\ (v \div 2) % 2 = b1 /\ (v \div 4) % 2 = b2
  /\ (v \div 8) % 2 = b3 /\ (v \div 16) % 2 = b4 /\ (v \div 32) % 2 = b5
  /\ (v \div 64) % 2 = b6 /\ (v \div 128) % 2 = b7

\* What eight bits weigh reads back as the eight bits, and the other way round.
LEMMA WeighedReads ==
  ASSUME NEW v \in Int,
         NEW b0 \in {0, 1}, NEW b1 \in {0, 1}, NEW b2 \in {0, 1}, NEW b3 \in {0, 1},
         NEW b4 \in {0, 1}, NEW b5 \in {0, 1}, NEW b6 \in {0, 1}, NEW b7 \in {0, 1},
         Weighs(v, b0, b1, b2, b3, b4, b5, b6, b7)
  PROVE  Reads(v, b0, b1, b2, b3, b4, b5, b6, b7)
BY SMTT(30) DEF Weighs, Reads

\* And the eight bits a byte reads as weigh the byte.
LEMMA ReadWeighs ==
  ASSUME NEW v \in Byte, NEW b0, NEW b1, NEW b2, NEW b3, NEW b4, NEW b5, NEW b6, NEW b7,
         Reads(v, b0, b1, b2, b3, b4, b5, b6, b7)
  PROVE  Weighs(v, b0, b1, b2, b3, b4, b5, b6, b7)
<1>1. ASSUME NEW n \in Int PROVE n = 2 * (n \div 2) + (n % 2) /\ (n \div 2) \in Int
  BY SMT
<1>2. /\ v \in Int /\ v \div 1 = v /\ (v \div 2) \in Int /\ (v \div 4) \in Int /\ (v \div 8) \in Int
      /\ (v \div 16) \in Int /\ (v \div 32) \in Int /\ (v \div 64) \in Int /\ (v \div 128) \in Int
  BY SMT DEF Byte
<1>3. /\ (v \div 2) \div 2 = v \div 4 /\ (v \div 4) \div 2 = v \div 8
      /\ (v \div 8) \div 2 = v \div 16 /\ (v \div 16) \div 2 = v \div 32
  BY SMT DEF Byte
<1>4. /\ (v \div 32) \div 2 = v \div 64 /\ (v \div 64) \div 2 = v \div 128
      /\ (v \div 128) \div 2 = 0
  BY SMT DEF Byte
<1>5. /\ v = 2 * (v \div 2) + b0
      /\ v \div 2 = 2 * (v \div 4) + b1
      /\ v \div 4 = 2 * (v \div 8) + b2
      /\ v \div 8 = 2 * (v \div 16) + b3
      /\ v \div 16 = 2 * (v \div 32) + b4
      /\ v \div 32 = 2 * (v \div 64) + b5
      /\ v \div 64 = 2 * (v \div 128) + b6
      /\ v \div 128 = 2 * 0 + b7
  BY <1>1, <1>2, <1>3, <1>4 DEF Reads
<1>6. /\ b0 \in Int /\ b1 \in Int /\ b2 \in Int /\ b3 \in Int
      /\ b4 \in Int /\ b5 \in Int /\ b6 \in Int /\ b7 \in Int
  BY <1>2 DEF Reads
<1> QED
  BY <1>2, <1>5, <1>6, SMT DEF Weighs

\* The weights as BitsOf writes them.
LEMMA EightPowers ==
  /\ 2^0 = 1 /\ 2^1 = 2 /\ 2^2 = 4 /\ 2^3 = 8 /\ 2^4 = 16 /\ 2^5 = 32 /\ 2^6 = 64 /\ 2^7 = 128
BY SMT

\* XOR twice with one byte: bits there and back ...
LEMMA BitsBack ==
  ASSUME NEW S \in SUBSET Bits PROVE BitsOf[ByteOf[S]] = S
<1> DEFINE bit(i) == IF i \in S THEN 1 ELSE 0
           v == ByteOf[S]
<1>1. v = bit(0) + 2 * bit(1) + 4 * bit(2) + 8 * bit(3)
            + 16 * bit(4) + 32 * bit(5) + 64 * bit(6) + 128 * bit(7)
  BY DEF ByteOf
<1>2. ASSUME NEW i PROVE bit(i) \in {0, 1} /\ (bit(i) = 1 <=> i \in S)
  OBVIOUS
<1>3. v \in Byte /\ v \in Int
  BY ByteOfBits DEF Byte
<1>4. BitsOf[v] = {i \in Bits : (v \div 2^i) % 2 = 1}
  BY <1>3 DEF BitsOf
<1> HIDE DEF v, bit
<1>5. Weighs(v, bit(0), bit(1), bit(2), bit(3), bit(4), bit(5), bit(6), bit(7))
  BY <1>1 DEF Weighs
<1>6. Reads(v, bit(0), bit(1), bit(2), bit(3), bit(4), bit(5), bit(6), bit(7))
  BY <1>2, <1>3, <1>5, WeighedReads
<1>7. ASSUME NEW i \in Bits PROVE (v \div 2^i) % 2 = bit(i)
  <2>1. i \in {0, 1, 2, 3, 4, 5, 6, 7}
    BY SMT DEF Bits
  <2>2. CASE i = 0
    BY <1>6, <2>2, EightPowers DEF Reads
  <2>3. CASE i = 1
    BY <1>6, <2>3, EightPowers DEF Reads
  <2>4. CASE i = 2
    BY <1>6, <2>4, EightPowers DEF Reads
  <2>5. CASE i = 3
    BY <1>6, <2>5, EightPowers DEF Reads
  <2>6. CASE i = 4
    BY <1>6, <2>6, EightPowers DEF Reads
  <2>7. CASE i = 5
    BY <1>6, <2>7, EightPowers DEF Reads
  <2>8. CASE i = 6
    BY <1>6, <2>8, EightPowers DEF Reads
  <2>9. CASE i = 7
    BY <1>6, <2>9, EightPowers DEF Reads
  <2> QED
    BY <2>1, <2>2, <2>3, <2>4, <2>5, <2>6, <2>7, <2>8, <2>9
<1>8. BitsOf[v] = {i \in Bits : i \in S}
  BY <1>2, <1>4, <1>7, Zenon
<1> QED
  BY <1>8 DEF v

\* ... and a byte.
LEMMA ByteBack ==
  ASSUME NEW x \in Byte PROVE ByteOf[BitsOf[x]] = x
<1> DEFINE S == BitsOf[x]
           bit(i) == IF i \in S THEN 1 ELSE 0
<1>1. S \in SUBSET Bits /\ S = {i \in Bits : (x \div 2^i) % 2 = 1}
  BY BitsOfByte DEF BitsOf
<1>2. ByteOf[S] = bit(0) + 2 * bit(1) + 4 * bit(2) + 8 * bit(3)
            + 16 * bit(4) + 32 * bit(5) + 64 * bit(6) + 128 * bit(7)
  BY <1>1 DEF ByteOf
<1> HIDE DEF S
<1>3. /\ 0 \in Bits /\ 1 \in Bits /\ 2 \in Bits /\ 3 \in Bits
      /\ 4 \in Bits /\ 5 \in Bits /\ 6 \in Bits /\ 7 \in Bits
  BY SMT DEF Bits
<1>4. ASSUME NEW n \in Int PROVE n % 2 = 1 \/ n % 2 = 0
  BY SMT
<1>5. /\ x \div 1 \in Int /\ x \div 2 \in Int /\ x \div 4 \in Int /\ x \div 8 \in Int
      /\ x \div 16 \in Int /\ x \div 32 \in Int /\ x \div 64 \in Int /\ x \div 128 \in Int
  BY SMT DEF Byte
<1>6. /\ (x \div 1) % 2 = bit(0) /\ (x \div 2) % 2 = bit(1) /\ (x \div 4) % 2 = bit(2)
      /\ (x \div 8) % 2 = bit(3) /\ (x \div 16) % 2 = bit(4) /\ (x \div 32) % 2 = bit(5)
      /\ (x \div 64) % 2 = bit(6) /\ (x \div 128) % 2 = bit(7)
  BY <1>1, <1>3, <1>4, <1>5, EightPowers
<1>7. Reads(x, bit(0), bit(1), bit(2), bit(3), bit(4), bit(5), bit(6), bit(7))
  BY <1>6 DEF Reads
<1> HIDE DEF bit
<1>8. Weighs(x, bit(0), bit(1), bit(2), bit(3), bit(4), bit(5), bit(6), bit(7))
  BY <1>7, ReadWeighs
<1> QED
  BY <1>2, <1>8 DEF Weighs, S

\* So XOR with the same byte twice is no change.
LEMMA XorBack ==
  ASSUME NEW x \in Byte, NEW y \in Byte PROVE Logic("XOR", Logic("XOR", x, y), y) = x
<1> DEFINE A == BitsOf[x]
           B == BitsOf[y]
           X == (A \ B) \cup (B \ A)
<1>1. X \in SUBSET Bits
  BY BitsOfByte
<1>2. Logic("XOR", x, y) = ByteOf[X]
  BY DEF Logic
<1>3. BitsOf[ByteOf[X]] = X
  BY <1>1, BitsBack
<1>4. (X \ B) \cup (B \ X) = A
  OBVIOUS
<1>5. Logic("XOR", ByteOf[X], y) = ByteOf[(X \ B) \cup (B \ X)]
  BY <1>3 DEF Logic
<1> QED
  BY <1>2, <1>4, <1>5, ByteBack

\* The two steps of a pair of Undone undo each other, and where the pair keeps
\* C the second gives it back as it was.
LEMMA PairBack ==
  ASSUME NEW i, NEW j, <<i, j>> \in Undone,
         NEW v \in Byte, NEW m \in Byte, NEW w \in Byte, NEW n \in Byte,
         NEW x \in Byte, NEW y \in Byte,
         NEW c \in {0, 1}, NEW k \in {0, 1}, NEW l \in {0, 1},
         Turn(i, v, m, c, w, n, k), Turn(j, w, n, k, x, y, l)
  PROVE  x = v /\ y = m /\ (i \in KeepsCarry => l = c)
<1>1. ASSUME NEW p \in Byte, NEW s \in Byte, NEW t \in Byte, NEW b \in {0, 1}, NEW d \in {0, 1}
      PROVE  /\ Left(p, b, s, b) /\ Right(s, d, t, d) => t = p
             /\ Right(p, b, s, b) /\ Left(s, d, t, d) => t = p
  BY <1>1, SMT DEF Left, Right, Byte
<1>2. ASSUME NEW p \in Byte, NEW s \in Byte, NEW t \in Byte,
             NEW b \in {0, 1}, NEW d \in {0, 1}, NEW e \in {0, 1}
      PROVE  /\ Left(p, b, s, d) /\ Right(s, d, t, e) => t = p /\ e = b
             /\ Right(p, b, s, d) /\ Left(s, d, t, e) => t = p /\ e = b
  BY <1>2, SMT DEF Left, Right, Byte
<1>3. /\ DigitsLeft(v, m, w, n) /\ DigitsRight(w, n, x, y) => x = v /\ y = m
      /\ DigitsRight(v, m, w, n) /\ DigitsLeft(w, n, x, y) => x = v /\ y = m
  BY SMTT(30) DEF DigitsLeft, DigitsRight, Byte
<1>4. ASSUME NEW p \in Byte, NEW s \in Byte, NEW t \in Byte, NEW g \in Byte
      PROVE  /\ Same256(s, -p) /\ Same256(t, -s) => t = p
             /\ Same256(s, p + 1) /\ Same256(t, s - 1) => t = p
             /\ Same256(s, p + g) /\ Same256(t, s - g) => t = p
             /\ Same256(s, p - g) /\ Same256(t, s + g) => t = p
  BY <1>4, SMTT(30) DEF Same256, Byte
<1>5. CASE i \in {"RLC", "RRC"}
  BY <1>1, <1>5 DEF Turn, Undone, KeepsCarry
<1>6. CASE i \in {"RL", "RR"}
  BY <1>2, <1>6 DEF Turn, Undone, KeepsCarry
<1>7. CASE i \in {"RLCA", "RRCA"}
  BY <1>1, <1>7 DEF Turn, Undone, KeepsCarry
<1>8. CASE i \in {"RLA", "RRA"}
  BY <1>2, <1>8 DEF Turn, Undone, KeepsCarry
<1>9. CASE i \in {"RLD", "RRD"}
  BY <1>3, <1>9 DEF Turn, Undone, KeepsCarry
<1>10. CASE i = "CPL"
  <2>1. j = "CPL"
    BY <1>10 DEF Undone
  <2>2. w = 255 - v /\ x = 255 - w /\ y = m /\ l = c
    BY <1>10, <2>1 DEF Turn
  <2> QED
    BY <2>2 DEF Byte
<1>11. CASE i = "NEG"
  BY <1>4, <1>11 DEF Turn, Undone, KeepsCarry
<1>12. CASE i = "INC"
  BY <1>4, <1>12 DEF Turn, Undone, KeepsCarry
<1>13. CASE i \in {"ADD", "SUB"}
  BY <1>4, <1>13 DEF Turn, Undone, KeepsCarry
<1>14. CASE i = "XOR"
  BY <1>14, XorBack DEF Turn, Undone, KeepsCarry
<1> QED
  BY <1>5, <1>6, <1>7, <1>8, <1>9, <1>10, <1>11, <1>12, <1>13, <1>14 DEF Undone

\* The same, with what it takes in one place.
PairRan(i, j, v, m, c, w, n, k, x, y, l) ==
  /\ <<i, j>> \in Undone
  /\ v \in Byte /\ m \in Byte /\ w \in Byte /\ n \in Byte /\ x \in Byte /\ y \in Byte
  /\ c \in {0, 1} /\ k \in {0, 1} /\ l \in {0, 1}
  /\ Turn(i, v, m, c, w, n, k) /\ Turn(j, w, n, k, x, y, l)

LEMMA PairRanBack ==
  ASSUME NEW i, NEW j, NEW v, NEW m, NEW c, NEW w, NEW n, NEW k, NEW x, NEW y, NEW l,
         PairRan(i, j, v, m, c, w, n, k, x, y, l)
  PROVE  x = v /\ y = m /\ (i \in KeepsCarry => l = c)
BY PairBack DEF PairRan

\* Two digit rotates one way are one the other way: there are three digits.
LEMMA DigitsRound ==
  ASSUME NEW v \in Byte, NEW m \in Byte, NEW w \in Byte, NEW n \in Byte,
         NEW x \in Byte, NEW y \in Byte
  PROVE  /\ DigitsLeft(v, m, w, n) /\ DigitsLeft(w, n, x, y) => DigitsRight(v, m, x, y)
         /\ DigitsRight(v, m, w, n) /\ DigitsRight(w, n, x, y) => DigitsLeft(v, m, x, y)
BY SMTT(30) DEF DigitsLeft, DigitsRight, Byte

\* A rotate to the left doubles a number modulo one less than a power of 2, of
\* the operand's 8 bits or of these and C. y is p times x, so far.
Ring8 == 255
Ring9 == 511
Doubles(M, x, y)   == \E t \in {0, 1} : y = 2 * x - M * t
Turned(M, p, x, y) == (\E t \in Int : y = p * x - M * t) /\ (x = 0 <=> y = 0)
Wide(v, c)         == v + 256 * c

\* A rotate left of the operand doubles it, of the operand and C both of them;
\* a rotate right is doubled by the way back.
LEMMA RotateDoubles ==
  ASSUME NEW v \in Byte, NEW w \in Byte, NEW c \in {0, 1}, NEW k \in {0, 1}
  PROVE  /\ Left(v, k, w, k) => Doubles(Ring8, v, w)
         /\ Right(v, k, w, k) => Doubles(Ring8, w, v)
         /\ Left(v, c, w, k) => Doubles(Ring9, Wide(v, c), Wide(w, k))
         /\ Right(v, c, w, k) => Doubles(Ring9, Wide(w, k), Wide(v, c))
<1>1. Left(v, k, w, k) => w = 2 * v - 255 * k
  BY SMT DEF Left, Byte
<1>2. Right(v, k, w, k) => v = 2 * w - 255 * k
  BY SMT DEF Right, Byte
<1>3. Left(v, c, w, k) => Wide(w, k) = 2 * Wide(v, c) - 511 * c
  BY SMT DEF Left, Wide, Byte
<1>4. Right(v, c, w, k) => Wide(v, c) = 2 * Wide(w, k) - 511 * k
  BY SMT DEF Right, Wide, Byte
<1>6. Left(v, k, w, k) => Doubles(Ring8, v, w)
  BY <1>1 DEF Doubles, Ring8
<1>7. Right(v, k, w, k) => Doubles(Ring8, w, v)
  BY <1>2 DEF Doubles, Ring8
<1>8. Left(v, c, w, k) => Doubles(Ring9, Wide(v, c), Wide(w, k))
  BY <1>3 DEF Doubles, Ring9
<1>9. Right(v, c, w, k) => Doubles(Ring9, Wide(w, k), Wide(v, c))
  BY <1>4 DEF Doubles, Ring9
<1> QED
  BY <1>6, <1>7, <1>8, <1>9

\* One rotate more is one factor of 2 more, either way.
LEMMA TurnedOnce ==
  ASSUME NEW M \in {Ring8, Ring9}, NEW p \in Nat,
         NEW x \in 0 .. M, NEW y \in 0 .. M, NEW z \in 0 .. M
  PROVE  /\ Turned(M, p, x, y) /\ Doubles(M, y, z) => Turned(M, 2 * p, x, z)
         /\ Doubles(M, z, y) /\ Turned(M, p, y, x) => Turned(M, 2 * p, z, x)
<1>1. ASSUME NEW t \in {0, 1} PROVE /\ z = 2 * y - M * t => (y = 0 <=> z = 0)
                                    /\ y = 2 * z - M * t => (y = 0 <=> z = 0)
  BY <1>1, SMT DEF Ring8, Ring9
<1>2. ASSUME NEW t \in {0, 1}, NEW u \in Int, z = 2 * y - M * t, y = p * x - M * u
      PROVE  z = (2 * p) * x - M * (2 * u + t) /\ 2 * u + t \in Int
  BY <1>2, SMT DEF Ring8, Ring9
<1>3. ASSUME NEW t \in {0, 1}, NEW u \in Int, y = 2 * z - M * t, x = p * y - M * u
      PROVE  x = (2 * p) * z - M * (p * t + u) /\ p * t + u \in Int
  BY <1>3, SMT DEF Ring8, Ring9
<1>4. ASSUME Turned(M, p, x, y), Doubles(M, y, z) PROVE Turned(M, 2 * p, x, z)
  <2>1. PICK t \in {0, 1} : z = 2 * y - M * t
    BY <1>4 DEF Doubles
  <2>2. PICK u \in Int : y = p * x - M * u
    BY <1>4 DEF Turned
  <2>3. z = (2 * p) * x - M * (2 * u + t) /\ 2 * u + t \in Int
    BY <1>2, <2>1, <2>2
  <2>4. x = 0 <=> z = 0
    BY <1>1, <1>4, <2>1 DEF Turned
  <2> QED
    BY <2>3, <2>4 DEF Turned
<1>5. ASSUME Doubles(M, z, y), Turned(M, p, y, x) PROVE Turned(M, 2 * p, z, x)
  <2>1. PICK t \in {0, 1} : y = 2 * z - M * t
    BY <1>5 DEF Doubles
  <2>2. PICK u \in Int : x = p * y - M * u
    BY <1>5 DEF Turned
  <2>3. x = (2 * p) * z - M * (p * t + u) /\ p * t + u \in Int
    BY <1>3, <2>1, <2>2
  <2>4. z = 0 <=> x = 0
    BY <1>1, <1>5, <2>1 DEF Turned
  <2> QED
    BY <2>3, <2>4 DEF Turned
<1> QED
  BY <1>4, <1>5

\* As many rotates as there are bits multiply by 1.
LEMMA TurnedRound ==
  ASSUME NEW M \in {Ring8, Ring9}, NEW x \in 0 .. M, NEW y \in 0 .. M,
         NEW p, p = M + 1, Turned(M, p, x, y)
  PROVE  x = y
<1>1. PICK t \in Int : y = (M + 1) * x - M * t
  BY DEF Turned
<1>2. CASE M = Ring8
  BY <1>1, <1>2, SMT DEF Turned, Ring8, Ring9
<1>3. CASE M = Ring9
  BY <1>1, <1>3, SMT DEF Turned, Ring8, Ring9
<1> QED
  BY <1>2, <1>3

\* No rotate multiplies by 1 as well.
LEMMA TurnedNot == ASSUME NEW M \in {Ring8, Ring9}, NEW x \in Int PROVE Turned(M, 1, x, x)
<1>1. x = 1 * x - M * 0
  BY SMT DEF Ring8, Ring9
<1> QED
  BY <1>1 DEF Turned

\* Where a program of RoundTrips stands: after the first of two or of three,
\* after two of three, which are one the other way, and after pc - 1 of eight
\* or of nine. Power is 2^(pc - 1).
Power == <<1, 2, 4, 8, 16, 32, 64, 128, 256, 512>>
OtherWay(op) == IF op = "RLD" THEN "RRD" ELSE "RLD"
Since(op) == Turn(op, start.a, start.r, Carry(start.f), a, r, Carry(f))
Back == a = start.a /\ r = start.r /\ (prog[1] \in KeepsCarry => Carry(f) = Carry(start.f))
TripInv ==
  RoundTrip =>
    /\ pc = 1 => a = start.a /\ r = start.r /\ Carry(f) = Carry(start.f)
    /\ Len(prog) \in {2, 3} /\ pc = 2 => Since(prog[1])
    /\ Len(prog) = 3 /\ pc = 3 => Since(OtherWay(prog[1]))
    /\ Len(prog) = 8 =>
         /\ a = start.a
         /\ prog[1] = "RLC" => Turned(Ring8, Power[pc], start.r, r)
         /\ prog[1] = "RRC" => Turned(Ring8, Power[pc], r, start.r)
    /\ Len(prog) = 9 =>
         /\ a = start.a
         /\ prog[1] = "RL" =>
              Turned(Ring9, Power[pc], Wide(start.r, Carry(start.f)), Wide(r, Carry(f)))
         /\ prog[1] = "RR" =>
              Turned(Ring9, Power[pc], Wide(r, Carry(f)), Wide(start.r, Carry(start.f)))
    /\ Finished => Back

\* The powers, in the order the program comes to them.
LEMMA PowerDoubles ==
  /\ \A i \in 1 .. 9 : Power[i] \in Nat /\ Power[i + 1] = 2 * Power[i]
  /\ Power[1] = 1 /\ Power[9] = 256 /\ Power[10] = 512
<1>1. ASSUME NEW i \in 1 .. 9 PROVE Power[i] \in Nat /\ Power[i + 1] = 2 * Power[i]
  <2>1. i \in {1, 2, 3, 4, 5, 6, 7, 8, 9}
    BY SMT
  <2> QED
    BY <2>1, SMT DEF Power
<1>2. Power[1] = 1 /\ Power[9] = 256 /\ Power[10] = 512
  BY DEF Power
<1> QED
  BY <1>1, <1>2

\* The two kinds of programs.
LEMMA Trips ==
  ASSUME TypeOK, RoundTrip
  PROVE  /\ Len(prog) \in Nat /\ pc \in 1 .. Len(prog) + 1
         /\ Len(prog) \in {2, 3, 8, 9}
         /\ Len(prog) = 2 => <<prog[1], prog[2]>> \in Undone
         /\ Len(prog) = 3 => prog[1] \in {"RRD", "RLD"}
         /\ Len(prog) = 8 => prog[1] \in {"RLC", "RRC"}
         /\ Len(prog) = 9 => prog[1] \in {"RL", "RR"}
         /\ Len(prog) # 2 => \A i \in 1 .. Len(prog) : prog[i] = prog[1]
         /\ \A i \in 1 .. Len(prog) : prog[i] \in TurnOps
<1>1. prog \in Seq(STRING) /\ Len(prog) \in Nat /\ pc \in 1 .. Len(prog) + 1
  BY StartsAssumption DEF TypeOK
<1>2. ASSUME Len(prog) = 2, prog \in Undone
      PROVE  /\ <<prog[1], prog[2]>> \in Undone
             /\ prog[1] \in TurnOps /\ prog[2] \in TurnOps
  BY <1>2 DEF Undone, TurnOps
<1>3. ASSUME NEW op \in TurnsRound(Len(prog)), \A i \in 1 .. Len(prog) : prog[i] = op
      PROVE  /\ Len(prog) \in {3, 8, 9}
             /\ Len(prog) = 3 => op \in {"RRD", "RLD"}
             /\ Len(prog) = 8 => op \in {"RLC", "RRC"}
             /\ Len(prog) = 9 => op \in {"RL", "RR"}
             /\ prog[1] = op /\ op \in TurnOps
  <2>1. Len(prog) \in {3, 8, 9}
    BY <1>3 DEF TurnsRound
  <2>2. prog[1] = op
    BY <1>3, <2>1
  <2>3. CASE Len(prog) = 3
    BY <1>3, <2>2, <2>3 DEF TurnsRound, TurnOps
  <2>4. CASE Len(prog) = 8
    BY <1>3, <2>2, <2>4 DEF TurnsRound, TurnOps
  <2>5. CASE Len(prog) = 9
    BY <1>3, <2>2, <2>5 DEF TurnsRound, TurnOps
  <2> QED
    BY <2>1, <2>3, <2>4, <2>5
<1>4. \A i : i \in 1 .. 2 => i = 1 \/ i = 2
  BY SMT
<1>5. CASE Len(prog) = 2 /\ prog \in Undone
  BY <1>1, <1>2, <1>4, <1>5
<1>6. CASE \E op \in TurnsRound(Len(prog)) : \A i \in 1 .. Len(prog) : prog[i] = op
  <2>1. PICK op \in TurnsRound(Len(prog)) : \A i \in 1 .. Len(prog) : prog[i] = op
    BY <1>6
  <2>2. /\ Len(prog) \in {3, 8, 9}
        /\ Len(prog) = 3 => op \in {"RRD", "RLD"}
        /\ Len(prog) = 8 => op \in {"RLC", "RRC"}
        /\ Len(prog) = 9 => op \in {"RL", "RR"}
        /\ prog[1] = op /\ op \in TurnOps
    BY <1>3, <2>1
  <2>3. ASSUME NEW i \in 1 .. Len(prog) PROVE prog[i] = prog[1] /\ prog[i] \in TurnOps
    BY <2>1, <2>2
  <2>4. Len(prog) # 2 /\ Len(prog) \in {2, 3, 8, 9}
    <3>1. ASSUME NEW n \in {3, 8, 9} PROVE n # 2 /\ n \in {2, 3, 8, 9}
      BY <3>1
    <3> QED
      BY <2>2, <3>1
  <2> QED
    BY <1>1, <2>2, <2>3, <2>4
<1> QED
  BY <1>5, <1>6 DEF RoundTrip

\* The bytes and the carries a step goes from and to.
LEMMA TripBytes ==
  ASSUME TypeOK
  PROVE  /\ a \in Byte /\ r \in Byte /\ start.a \in Byte /\ start.r \in Byte
         /\ Carry(f) \in {0, 1} /\ Carry(start.f) \in {0, 1}
BY StartsAssumption, CarryBit DEF TypeOK

\* The operand and C in 9 bits are a number below 512, and which one says both.
LEMMA WideRange ==
  ASSUME NEW v \in Byte, NEW c \in {0, 1}
  PROVE  /\ v \in 0 .. Ring8 /\ Wide(v, c) \in 0 .. Ring9
         /\ \A w \in Byte, k \in {0, 1} : Wide(v, c) = Wide(w, k) => v = w /\ c = k
BY SMT DEF Wide, Byte, Ring8, Ring9

\* It holds at the start ...
LEMMA TripInit == Init => TripInv
<1> SUFFICES ASSUME Init PROVE TripInv
  OBVIOUS
<1>1. TypeOK
  BY TypeInit
<1>2. pc = 1 /\ a = start.a /\ r = start.r /\ Carry(f) = Carry(start.f)
  BY DEF Init
<1>3. ASSUME RoundTrip PROVE ~Finished
  BY <1>1, <1>2, <1>3, Trips DEF Finished
<1>4. /\ Turned(Ring8, 1, r, r) /\ Turned(Ring9, 1, Wide(r, Carry(f)), Wide(r, Carry(f)))
  <2>1. r \in Int /\ Wide(r, Carry(f)) \in Int
    <3>1. r \in Byte /\ Carry(f) \in {0, 1}
      BY <1>1, TripBytes
    <3> QED
      BY <3>1, SMT DEF Byte, Wide
  <2> QED
    BY <2>1, TurnedNot
<1> QED
  BY <1>2, <1>3, <1>4, PowerDoubles DEF TripInv

\* A step of a program of RoundTrip, with everything it goes from and to.
LEMMA TripRuns ==
  ASSUME TypeOK, TypeOK', Owes, RoundTrip', Next, ~UNCHANGED vars
  PROVE  /\ RoundTrip /\ prog' = prog /\ start' = start
         /\ pc \in 1 .. Len(prog) /\ pc' = pc + 1
         /\ last' = prog[pc]
         /\ Turn(prog[pc], a, r, Carry(f), a', r', Carry(f'))
         /\ a' \in Byte /\ r' \in Byte /\ Carry(f') \in {0, 1}
<1>0. prog' = prog /\ start' = start
  BY StepIs, FireIs DEF Step, Ran
<1>2. RoundTrip
  BY <1>0 DEF RoundTrip
<1>f. ~FireBlock
  BY <1>2, FireIs, Trips DEF Owes, Blocks, TurnOps
<1>1. prog' = prog /\ start' = start /\ Is(last')
  BY <1>f, StepIs DEF Step, Ran, Is
<1>3. pc \in 1 .. Len(prog) /\ last' = prog[pc] /\ last' \in TurnOps
  <2>1. Len(prog) \in Nat /\ pc \in 1 .. Len(prog) + 1
    BY <1>2, Trips
  <2>2. pc \in 1 .. Len(prog) /\ last' = prog[pc]
    BY <1>1, <2>1 DEF Is
  <2> QED
    BY <1>2, <2>2, Trips
<1>4. pc' = pc + 1
  BY <1>3, TurnRuns
<1>5. a \in Byte /\ r \in Byte
  BY TripBytes
<1>6. Turn(last', a, r, Carry(f), a', r', Carry(f'))
  BY <1>3, <1>5, TurnStep
<1>7. a' \in Byte /\ r' \in Byte /\ Carry(f') \in {0, 1}
  BY CarryBit DEF TypeOK
<1> QED
  BY <1>1, <1>2, <1>3, <1>4, <1>6, <1>7

\* ... and a step keeps it: of two,
LEMMA PairStep ==
  ASSUME TypeOK, TypeOK', Owes, TripInv, RoundTrip', Next, ~UNCHANGED vars, Len(prog) = 2
  PROVE  /\ pc' = 2 => Since(prog[1])'
         /\ Finished' => Back'
         /\ pc' \in 2 .. 3
<1>1. /\ RoundTrip /\ prog' = prog /\ start' = start
      /\ pc \in 1 .. Len(prog) /\ pc' = pc + 1
      /\ Turn(prog[pc], a, r, Carry(f), a', r', Carry(f'))
      /\ a' \in Byte /\ r' \in Byte /\ Carry(f') \in {0, 1}
  BY TripRuns
<1>2. <<prog[1], prog[2]>> \in Undone
  BY <1>1, Trips
<1>5. /\ a \in Byte /\ r \in Byte /\ start.a \in Byte /\ start.r \in Byte
      /\ Carry(f) \in {0, 1} /\ Carry(start.f) \in {0, 1}
  BY TripBytes
<1>3. CASE pc = 1
  <2>1. Since(prog[1])'
    BY <1>1, <1>3 DEF TripInv, Since
  <2>2. ~Finished'
    BY <1>1, <1>3 DEF Finished
  <2> QED
    BY <1>1, <1>3, <2>1, <2>2
<1>4. CASE pc = 2
  <2>1. Turn(prog[1], start.a, start.r, Carry(start.f), a, r, Carry(f))
    BY <1>1, <1>4 DEF TripInv, Since
  <2>2. Turn(prog[2], a, r, Carry(f), a', r', Carry(f'))
    BY <1>1, <1>4
  <2>3. a' = start.a /\ r' = start.r /\ (prog[1] \in KeepsCarry => Carry(f') = Carry(start.f))
    <3>1. PairRan(prog[1], prog[2], start.a, start.r, Carry(start.f), a, r, Carry(f),
                  a', r', Carry(f'))
      BY <1>1, <1>2, <1>5, <2>1, <2>2 DEF PairRan
    <3> QED
      BY <3>1, PairRanBack
  <2>4. Back'
    BY <1>1, <2>3 DEF Back
  <2> QED
    BY <1>1, <1>4, <2>4
<1> QED
  BY <1>1, <1>3, <1>4

\* of three digit rotates,
LEMMA DigitStep ==
  ASSUME TypeOK, TypeOK', Owes, TripInv, RoundTrip', Next, ~UNCHANGED vars, Len(prog) = 3
  PROVE  /\ pc' = 2 => Since(prog[1])'
         /\ pc' = 3 => Since(OtherWay(prog[1]))'
         /\ Finished' => Back'
         /\ pc' \in 2 .. 4
<1>1. /\ RoundTrip /\ prog' = prog /\ start' = start
      /\ pc \in 1 .. Len(prog) /\ pc' = pc + 1
      /\ Turn(prog[pc], a, r, Carry(f), a', r', Carry(f'))
      /\ a' \in Byte /\ r' \in Byte /\ Carry(f') \in {0, 1}
  BY TripRuns
<1>2. prog[1] \in {"RRD", "RLD"} /\ prog[pc] = prog[1]
  BY <1>1, Trips
<1>6. /\ a \in Byte /\ r \in Byte /\ start.a \in Byte /\ start.r \in Byte
      /\ Carry(f) \in {0, 1} /\ Carry(start.f) \in {0, 1}
  BY TripBytes
<1>3. CASE pc = 1
  <2>1. Since(prog[1])'
    BY <1>1, <1>3 DEF TripInv, Since
  <2>2. ~Finished'
    BY <1>1, <1>3 DEF Finished
  <2> QED
    BY <1>1, <1>3, <2>1, <2>2
<1>4. CASE pc = 2
  <2>1. Turn(prog[1], start.a, start.r, Carry(start.f), a, r, Carry(f))
    BY <1>1, <1>4 DEF TripInv, Since
  <2>2. Turn(prog[1], a, r, Carry(f), a', r', Carry(f'))
    BY <1>1, <1>2
  <2>3. Turn(OtherWay(prog[1]), start.a, start.r, Carry(start.f), a', r', Carry(f'))
    BY <1>1, <1>2, <2>1, <2>2, TripBytes, DigitsRound DEF Turn, OtherWay
  <2>4. Since(OtherWay(prog[1]))'
    BY <1>1, <2>3 DEF Since
  <2>5. ~Finished'
    <3>1. pc' = 3 /\ Len(prog') = 3
      BY <1>1, <1>4
    <3> QED
      BY <3>1 DEF Finished
  <2> QED
    BY <1>1, <1>4, <2>4, <2>5
<1>5. CASE pc = 3
  <2>1. Turn(OtherWay(prog[1]), start.a, start.r, Carry(start.f), a, r, Carry(f))
    BY <1>1, <1>5 DEF TripInv, Since
  <2>2. Turn(prog[1], a, r, Carry(f), a', r', Carry(f'))
    BY <1>1, <1>2
  <2>3. <<OtherWay(prog[1]), prog[1]>> \in Undone /\ OtherWay(prog[1]) \in KeepsCarry
    BY <1>2 DEF OtherWay, Undone, KeepsCarry
  <2>4. a' = start.a /\ r' = start.r /\ Carry(f') = Carry(start.f)
    <3>1. PairRan(OtherWay(prog[1]), prog[1], start.a, start.r, Carry(start.f), a, r, Carry(f),
                  a', r', Carry(f'))
      BY <1>1, <1>6, <2>1, <2>2, <2>3 DEF PairRan
    <3> QED
      BY <2>3, <3>1, PairRanBack
  <2>5. Back'
    BY <1>1, <2>4 DEF Back
  <2> QED
    BY <1>1, <1>5, <2>5
<1> QED
  BY <1>1, <1>3, <1>4, <1>5

\* of eight rotates of 8 bits,
LEMMA EightStep ==
  ASSUME TypeOK, TypeOK', Owes, TripInv, RoundTrip', Next, ~UNCHANGED vars, Len(prog) = 8
  PROVE  /\ a' = start.a
         /\ prog[1] = "RLC" => Turned(Ring8, Power[pc + 1], start.r, r')
         /\ prog[1] = "RRC" => Turned(Ring8, Power[pc + 1], r', start.r)
         /\ Finished' => Back'
<1>1. /\ RoundTrip /\ prog' = prog /\ start' = start
      /\ pc \in 1 .. 8 /\ pc' = pc + 1
      /\ Turn(prog[pc], a, r, Carry(f), a', r', Carry(f'))
      /\ a' \in Byte /\ r' \in Byte /\ Carry(f') \in {0, 1}
  BY TripRuns
<1>0. (Finished' => pc = 8) /\ Ring8 \in {Ring8, Ring9}
  <2>1. pc' = pc + 1 /\ pc \in 1 .. 8 /\ Len(prog') = 8
    BY <1>1
  <2> QED
    BY <2>1 DEF Finished
<1>2. prog[1] \in {"RLC", "RRC"} /\ prog[pc] = prog[1]
  BY <1>1, Trips
<1>3. r \in 0 .. Ring8 /\ r' \in 0 .. Ring8 /\ start.r \in 0 .. Ring8
  BY <1>1, TripBytes DEF Byte, Ring8
<1>4. Power[pc] \in Nat /\ Power[pc + 1] = 2 * Power[pc]
  BY <1>1, PowerDoubles
<1>5. a' = start.a
  BY <1>1, <1>2 DEF Turn, TripInv
<1>6. CASE prog[1] = "RLC"
  <2>1. Doubles(Ring8, r, r')
    BY <1>1, <1>2, <1>6, TripBytes, RotateDoubles DEF Turn
  <2>2. Turned(Ring8, Power[pc], start.r, r)
    BY <1>1, <1>6 DEF TripInv
  <2>3. Turned(Ring8, Power[pc + 1], start.r, r')
    <3>1. Turned(Ring8, 2 * Power[pc], start.r, r')
      BY <1>0, <1>3, <1>4, <2>1, <2>2, TurnedOnce, Zenon
    <3> QED
      BY <1>4, <3>1
  <2>4. ASSUME Finished' PROVE r' = start.r
    <3>1. pc = 8
      BY <1>0, <2>4
    <3>2. Power[pc + 1] = Ring8 + 1
      BY <3>1, PowerDoubles DEF Ring8, Ring9
    <3> QED
      BY <1>0, <1>3, <2>3, <3>2, TurnedRound, Zenon
  <2> QED
    BY <1>1, <1>5, <1>6, <2>3, <2>4 DEF Back, KeepsCarry
<1>7. CASE prog[1] = "RRC"
  <2>1. Doubles(Ring8, r', r)
    BY <1>1, <1>2, <1>7, TripBytes, RotateDoubles DEF Turn
  <2>2. Turned(Ring8, Power[pc], r, start.r)
    BY <1>1, <1>7 DEF TripInv
  <2>3. Turned(Ring8, Power[pc + 1], r', start.r)
    <3>1. Turned(Ring8, 2 * Power[pc], r', start.r)
      BY <1>0, <1>3, <1>4, <2>1, <2>2, TurnedOnce, Zenon
    <3> QED
      BY <1>4, <3>1
  <2>4. ASSUME Finished' PROVE r' = start.r
    <3>1. pc = 8
      BY <1>0, <2>4
    <3>2. Power[pc + 1] = Ring8 + 1
      BY <3>1, PowerDoubles DEF Ring8, Ring9
    <3> QED
      BY <1>0, <1>3, <2>3, <3>2, TurnedRound, Zenon
  <2> QED
    BY <1>1, <1>5, <1>7, <2>3, <2>4 DEF Back, KeepsCarry
<1> QED
  BY <1>2, <1>6, <1>7

\* and of nine rotates of 9.
LEMMA NineStep ==
  ASSUME TypeOK, TypeOK', Owes, TripInv, RoundTrip', Next, ~UNCHANGED vars, Len(prog) = 9
  PROVE  /\ a' = start.a
         /\ prog[1] = "RL" =>
              Turned(Ring9, Power[pc + 1], Wide(start.r, Carry(start.f)), Wide(r', Carry(f')))
         /\ prog[1] = "RR" =>
              Turned(Ring9, Power[pc + 1], Wide(r', Carry(f')), Wide(start.r, Carry(start.f)))
         /\ Finished' => Back'
<1> DEFINE V == Wide(r, Carry(f))
           W == Wide(r', Carry(f'))
           S == Wide(start.r, Carry(start.f))
<1>1. /\ RoundTrip /\ prog' = prog /\ start' = start
      /\ pc \in 1 .. 9 /\ pc' = pc + 1
      /\ Turn(prog[pc], a, r, Carry(f), a', r', Carry(f'))
      /\ a' \in Byte /\ r' \in Byte /\ Carry(f') \in {0, 1}
  BY TripRuns
<1>0. (Finished' => pc = 9) /\ Ring9 \in {Ring8, Ring9}
  <2>1. pc' = pc + 1 /\ pc \in 1 .. 9 /\ Len(prog') = 9
    BY <1>1
  <2> QED
    BY <2>1 DEF Finished
<1>2. prog[1] \in {"RL", "RR"} /\ prog[pc] = prog[1]
  BY <1>1, Trips
<1>3. V \in 0 .. Ring9 /\ W \in 0 .. Ring9 /\ S \in 0 .. Ring9
  BY <1>1, TripBytes, WideRange
<1>4. Power[pc] \in Nat /\ Power[pc + 1] = 2 * Power[pc]
  BY <1>1, PowerDoubles
<1>5. a' = start.a
  BY <1>1, <1>2 DEF Turn, TripInv
<1>6. W = S => r' = start.r /\ Carry(f') = Carry(start.f)
  BY <1>1, TripBytes, WideRange
<1>7. CASE prog[1] = "RL"
  <2>1. Doubles(Ring9, V, W)
    BY <1>1, <1>2, <1>7, TripBytes, RotateDoubles DEF Turn
  <2>2. Turned(Ring9, Power[pc], S, V)
    BY <1>1, <1>7 DEF TripInv
  <2> HIDE DEF V, W, S
  <2>3. Turned(Ring9, Power[pc + 1], S, W)
    <3>1. Turned(Ring9, 2 * Power[pc], S, W)
      BY <1>0, <1>3, <1>4, <2>1, <2>2, TurnedOnce, Zenon
    <3> QED
      BY <1>4, <3>1
  <2>4. ASSUME Finished' PROVE W = S
    <3>1. pc = 9
      BY <1>0, <2>4
    <3>2. Power[pc + 1] = Ring9 + 1
      BY <3>1, PowerDoubles DEF Ring8, Ring9
    <3> QED
      BY <1>0, <1>3, <2>3, <3>2, TurnedRound, Zenon
  <2>5. Finished' => Back'
    BY <1>1, <1>5, <1>6, <2>4 DEF Back
  <2> QED
    BY <1>5, <1>7, <2>3, <2>5 DEF V, W, S
<1>8. CASE prog[1] = "RR"
  <2>1. Doubles(Ring9, W, V)
    BY <1>1, <1>2, <1>8, TripBytes, RotateDoubles DEF Turn
  <2>2. Turned(Ring9, Power[pc], V, S)
    BY <1>1, <1>8 DEF TripInv
  <2> HIDE DEF V, W, S
  <2>3. Turned(Ring9, Power[pc + 1], W, S)
    <3>1. Turned(Ring9, 2 * Power[pc], W, S)
      BY <1>0, <1>3, <1>4, <2>1, <2>2, TurnedOnce, Zenon
    <3> QED
      BY <1>4, <3>1
  <2>4. ASSUME Finished' PROVE W = S
    <3>1. pc = 9
      BY <1>0, <2>4
    <3>2. Power[pc + 1] = Ring9 + 1
      BY <3>1, PowerDoubles DEF Ring8, Ring9
    <3> QED
      BY <1>0, <1>3, <2>3, <3>2, TurnedRound, Zenon
  <2>5. Finished' => Back'
    BY <1>1, <1>5, <1>6, <2>4 DEF Back
  <2> QED
    BY <1>5, <1>8, <2>3, <2>5 DEF V, W, S
<1> QED
  BY <1>2, <1>7, <1>8

\* So any step does.
LEMMA TripStep ==
  ASSUME TypeOK, TypeOK', Owes, TripInv, [Next]_vars PROVE TripInv'
<1>1. CASE UNCHANGED vars
  BY <1>1 DEF TripInv, RoundTrip, Finished, Back, Since, vars, regs
<1>2. CASE Next /\ ~UNCHANGED vars
  <2>1. SUFFICES ASSUME RoundTrip' PROVE TripInv'
    BY DEF TripInv
  <2>2. /\ prog' = prog /\ start' = start /\ RoundTrip
        /\ pc \in 1 .. Len(prog) /\ pc' = pc + 1 /\ pc' # 1
    BY <1>2, <2>1, TripRuns
  <2>3. Len(prog) \in {2, 3, 8, 9}
    BY <2>2, Trips
  <2>4. CASE Len(prog) = 2
    BY <1>2, <2>1, <2>2, <2>4, PairStep DEF TripInv
  <2>5. CASE Len(prog) = 3
    BY <1>2, <2>1, <2>2, <2>5, DigitStep DEF TripInv
  <2>6. CASE Len(prog) = 8
    BY <1>2, <2>1, <2>2, <2>6, EightStep DEF TripInv
  <2>7. CASE Len(prog) = 9
    BY <1>2, <2>1, <2>2, <2>7, NineStep DEF TripInv
  <2> QED
    BY <2>3, <2>4, <2>5, <2>6, <2>7
<1> QED
  BY <1>1, <1>2

\* A sequence that undoes itself leaves A, the operand and, where it says so,
\* C as they were: z80_alu()'s rotates, digit rotates, complements and steps,
\* from every state a program can start in.
THEOREM RoundTripsAlways == Spec => []RoundTrips
<1>1. TripInv => RoundTrips
  BY DEF TripInv, RoundTrips, Back, Carry
<1>2. Init => TripInv
  BY TripInit
<1>3. TypeOK /\ TypeOK' /\ Owes /\ TripInv /\ [Next]_vars => TripInv'
  BY TripStep
<1> QED
  BY <1>1, <1>2, <1>3, TypeAlways, OwesAlways, PTL DEF Spec

=============================================================================
