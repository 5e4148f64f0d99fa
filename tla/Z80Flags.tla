------------------------------ MODULE Z80Flags ------------------------------
(***************************************************************************)
(* Short instruction sequences on the accumulator, an operand, F and Q:    *)
(* the ALU instructions as alu_eval() feeds z80_alu() and wb_fire_op()     *)
(* writes what it returns, one action per execution class. The programs    *)
(* are a parameter, with the registers they start from; these stay in      *)
(* start, for the properties, which compare what a program leaves with     *)
(* plain arithmetic.                                                       *)
(***************************************************************************)
EXTENDS Z80Alu, Sequences

CONSTANTS
  Starts,     \* what to run: a program, and the registers it starts from
  Operands,   \* the bytes a load or a block instruction reads
  PcHighs     \* PC's high byte where one repeats

ASSUME StartsAssumption ==
  \A s \in Starts : /\ {s.a, s.r} \subseteq Byte
                    /\ {s.hl, s.rp, s.bc} \subseteq Word
                    /\ s.f \subseteq FlagNames
                    /\ s.prog \in Seq(STRING)
ASSUME BytesAssumption == Operands \subseteq Byte /\ PcHighs \subseteq Byte

VARIABLES
  a, r,       \* A and the operand
  hl, rp,     \* HL and the pair added to it
  bc,         \* the block counter
  f, q,       \* F, and Q: the F the last instruction wrote, or no flag
  wbp,        \* the F of a block instruction waits for the next M1
  wb_rep,     \* the last block instruction that ended did so after a repeat
  prog, pc,   \* the program, and the place in it
  last, at,   \* the instruction that ran last, and its place
  before,     \* F before it
  start       \* the program and the registers it started from

regs == <<a, r, hl, rp, bc>>
vars == <<regs, f, q, wbp, wb_rep, prog, pc, last, at, before, start>>

RotA == [RLCA |-> "RLC", RRCA |-> "RRC", RLA |-> "RL", RRA |-> "RR"]

\* Instructions that write no flag: 8-bit loads, RES and SET.
Silent == {"LD", "RES", "SET"}

\* The classes that repeat.
Blocks == {"LDIR", "CPIR", "INIR"}

\* A prefix is an M1 of its own and clears Q.
Prefix == {"DD"}

TypeOK ==
  /\ {a, r} \subseteq Byte
  /\ {hl, rp} \subseteq Word
  /\ bc \in Word
  /\ f \subseteq FlagNames
  /\ q \in {{}, f}
  /\ {wbp, wb_rep} \subseteq BOOLEAN
  /\ start \in Starts /\ prog = start.prog
  /\ pc \in 1 .. Len(prog) + 1

Init ==
  \E s \in Starts :
    /\ a = s.a /\ r = s.r /\ hl = s.hl /\ rp = s.rp /\ bc = s.bc
    /\ f = s.f /\ q \in {{}, s.f} /\ before = s.f
    /\ wbp = FALSE /\ wb_rep = FALSE
    /\ prog = s.prog /\ pc = 1 /\ last = "none" /\ at = 0
    /\ start = s

\* What a block instruction left to this M1 is written before it executes.
Is(i) == pc <= Len(prog) /\ prog[pc] = i /\ ~wbp

Ran(i) == /\ last' = i /\ at' = pc
          /\ before' = f
          /\ UNCHANGED <<prog, start>>

Step(i) == Is(i) /\ Ran(i) /\ pc' = pc + 1 /\ UNCHANGED <<wbp, wb_rep>>

\* mutant: an instruction that writes no F leaves Q
KeepFandQ == f' = f /\ q' = q

\* wb_fire_op's last lines: Q is the F written, or 0.
WriteF(F) == f' = F /\ q' = F
KeepF == f' = f /\ q' = {}

-----------------------------------------------------------------------------
AluA ==
  \E op \in AluOps :
    /\ Step(op)
    /\ LET out == AluOp(op, a, r, f)
       IN  /\ a' = IF op = "CP" THEN a ELSE out.res
           /\ WriteF(out.f)
    /\ UNCHANGED <<r, hl, rp, bc>>

IncDec ==
  \E op \in {"INC", "DEC"} :
    /\ Step(op)
    /\ LET out == IF op = "INC" THEN FlagsInc8(r, f) ELSE FlagsDec8(r, f)
       IN  r' = out.res /\ WriteF(out.f)
    /\ UNCHANGED <<a, hl, rp, bc>>

RotateA ==
  \E op \in DOMAIN RotA :
    /\ Step(op)
    /\ LET out == FlagsRotA(RotA[op], a, f) IN a' = out.res /\ WriteF(out.f)
    /\ UNCHANGED <<r, hl, rp, bc>>

Rotate ==
  \E op \in Rots :
    /\ Step(op)
    /\ LET out == FlagsRot(op, r, f) IN r' = out.res /\ WriteF(out.f)
    /\ UNCHANGED <<a, hl, rp, bc>>

\* BIT, RES and SET of every bit number (B: the counter's low bits).
BitUnit ==
  LET n == bc % 8
  IN  /\ \/ Step("BIT") /\ WriteF(FlagsBit(n, r, r, f)) /\ UNCHANGED r
         \/ Step("RES") /\ r' = ByteOf[BitsOf[r] \ {n}] /\ KeepF
         \/ Step("SET") /\ r' = ByteOf[BitsOf[r] \cup {n}] /\ KeepF
      /\ UNCHANGED <<a, hl, rp, bc>>

\* The ones that work on A alone: DAA CPL NEG.
Unary ==
  \E op \in {"DAA", "CPL", "NEG"} :
    /\ Step(op)
    /\ LET out == CASE op = "DAA" -> FlagsDaa(a, f)
                    [] op = "CPL" -> FlagsCpl(a, f)
                    [] op = "NEG" -> FlagsNeg(a)
       IN  a' = out.res /\ WriteF(out.f)
    /\ UNCHANGED <<r, hl, rp, bc>>

CarryFlag ==
  /\ \/ Step("SCF") /\ WriteF(FlagsScf(a, f, q))
     \/ Step("CCF") /\ WriteF(FlagsCcf(a, f, q))
  /\ UNCHANGED regs

Load ==
  /\ Step("LD")
  /\ r' \in Operands
  /\ KeepF
  /\ UNCHANGED <<a, hl, rp, bc>>

\* LD A,I and LD A,R take P/V from IFF2 (or 0: wb_pv).
LoadIR ==
  /\ Step("LDAIR")
  /\ a' = r
  /\ \E iff2 \in BOOLEAN : WriteF(FlagsLdAIr(r, f, iff2))
  /\ UNCHANGED <<r, hl, rp, bc>>

In ==
  /\ Step("IN")
  /\ \E v \in Operands : r' = v /\ WriteF(FlagsIn(v, f))
  /\ UNCHANGED <<a, hl, rp, bc>>

PrefixM1 ==
  \E op \in Prefix : Step(op) /\ KeepF /\ UNCHANGED regs

Digits ==
  \E op \in {"RRD", "RLD"} :
    /\ Step(op)
    /\ LET out == IF op = "RRD" THEN FlagsRrd(a, r, f) ELSE FlagsRld(a, r, f)
       IN  a' = out.res /\ r' = out.mem /\ WriteF(out.f)
    /\ UNCHANGED <<hl, rp, bc>>

AddWord ==
  \E op \in {"ADD16", "ADC16", "SBC16"} :
    /\ Step(op)
    /\ LET out == CASE op = "ADD16" -> Add16(hl, rp, f)
                    [] op = "ADC16" -> Adc16(hl, rp, f)
                    [] op = "SBC16" -> Sbc16(hl, rp, f)
       IN  hl' = out.res /\ WriteF(out.f)
    /\ UNCHANGED <<a, r, rp, bc>>

\* mutant: only ever set
DeferSticky(rep) == wbp' = TRUE /\ wb_rep' = (wb_rep \/ rep)

\* wb_defer: F is left to the next M1, and whether the round was repeated.
Defer(rep) == wbp' = TRUE /\ wb_rep' = rep

\* One round of a repeating block instruction: it runs again (PC back to its
\* first byte) while rep. The byte it moves or compares is any operand.
Round(i, rep) == /\ Is(i)
                 /\ Ran(i)
                 /\ pc' = IF rep THEN pc ELSE pc + 1
                 /\ Defer(rep)
                 /\ UNCHANGED <<a, hl, rp, f, q>>

Ldir ==
  LET left == (bc - 1) % 65536
  IN  \E v \in Operands : Round("LDIR", left # 0) /\ r' = v /\ bc' = left

Cpir ==
  LET left == (bc - 1) % 65536
  IN  \E v \in Operands : Round("CPIR", left # 0 /\ a # v) /\ r' = v /\ bc' = left

\* INIR and OTIR: the counter is B.
Inir ==
  LET left == (bc - 1) % 256
  IN  \E v \in Operands : Round("INIR", left # 0) /\ r' = v /\ bc' = left

\* The flags of the round, from the registers as it left them. INIR's k adds
\* C+-1 or L to the byte, here A.
BlockF ==
  CASE last = "LDIR" -> FlagsBlockLd(f, a, r, bc # 0)
    [] last = "CPIR" -> FlagsBlockCp(f, a, r, bc # 0)
    [] last = "INIR" -> FlagsBlockIo(r, bc, r + a)

\* after a repeat, with PC's high byte as rewound
RepeatF(pch) == IF last = "INIR" THEN RepeatIo(r, bc, r + a, pch) ELSE RepeatXY(BlockF, pch)

\* In the next M1, its own opcode's where it repeats: wb_fire_op.
FireBlock ==
  /\ wbp /\ last \in Blocks
  /\ IF wb_rep THEN \E pch \in PcHighs : WriteF(RepeatF(pch)) ELSE WriteF(BlockF)
  /\ wbp' = FALSE
  /\ UNCHANGED <<regs, wb_rep, prog, pc, last, at, before, start>>

Done == pc > Len(prog) /\ ~wbp /\ UNCHANGED vars

Next == \/ AluA \/ IncDec \/ RotateA \/ Rotate \/ BitUnit \/ Unary \/ CarryFlag
        \/ Load \/ LoadIR \/ In \/ PrefixM1 \/ Digits \/ AddWord
        \/ Ldir \/ Cpir \/ Inir \/ FireBlock \/ Done

Spec == Init /\ [][Next]_vars

-----------------------------------------------------------------------------
\* The signed value of a byte.
Signed(v) == IF v >= 128 THEN v - 256 ELSE v

Finished == pc > Len(prog) /\ ~wbp

\* An 8-bit add, subtract or compare agrees with the integers: A modulo 256,
\* C the unsigned carry or borrow, P/V the signed overflow, H the nibble's,
\* S and Z the result's, so that after CP or SUB C says A < x and S # P/V
\* says A < x as signed numbers (two nibble adders and a P/V taken from top
\* bits have to come out as this).
ArithRight ==
  Finished /\ Len(prog) = 1 /\ last \in {"ADD", "ADC", "SUB", "SBC", "CP", "NEG"} =>
    LET cin == IF last \in {"ADC", "SBC"} THEN Carry(start.f) ELSE 0
        x   == IF last = "NEG" THEN 0 ELSE start.a
        y   == IF last = "NEG" THEN start.a ELSE start.r
        add == last \in {"ADD", "ADC"}
        u   == IF add THEN x + y + cin ELSE x - y - cin
        s   == IF add THEN Signed(x) + Signed(y) + cin ELSE Signed(x) - Signed(y) - cin
        n   == IF add THEN (x % 16) + (y % 16) + cin ELSE (x % 16) - (y % 16) - cin
    IN  /\ a = IF last = "CP" THEN start.a ELSE u % 256
        /\ "C" \in f <=> u \notin Byte
        /\ "P" \in f <=> s \notin -128 .. 127
        /\ "H" \in f <=> n \notin 0 .. 15
        /\ "Z" \in f <=> u % 256 = 0
        /\ ("S" \in f <=> "P" \notin f) <=> s < 0
        /\ "N" \in f <=> ~add

\* Two-digit decimal arithmetic: DAA after an add or a subtract of packed BCD
\* leaves the decimal sum or difference, and C the decimal carry, so that a
\* longer number adds up through ADC, SBC.
IsBcd(v)   == v % 16 <= 9 /\ v \div 16 <= 9
Decimal(v) == 10 * (v \div 16) + (v % 16)
DecimalOps == {"ADD", "ADC", "SUB", "SBC", "NEG"}
DecimalProgram == Len(prog) = 2 /\ prog[1] \in DecimalOps /\ prog[2] = "DAA"
BcdRight ==
  Finished /\ DecimalProgram /\ IsBcd(start.a) /\ IsBcd(start.r) =>
    LET c == IF prog[1] \in {"ADC", "SBC"} THEN Carry(start.f) ELSE 0
        x == Decimal(start.a)
        y == Decimal(start.r)
        d == CASE prog[1] \in {"ADD", "ADC"} -> x + y + c
               [] prog[1] \in {"SUB", "SBC"} -> x - y - c
               [] prog[1] = "NEG"            -> -x
    IN  /\ IsBcd(a)
        /\ Decimal(a) = d % 100
        /\ "C" \in f <=> d \notin 0 .. 99

\* INC and DEC are the adder's x+1 and x-1 in all but C, which stays.
IncDecRight ==
  Finished /\ Len(prog) = 1 /\ last \in {"INC", "DEC"} =>
    LET out == AluOp(IF last = "INC" THEN "ADD" ELSE "SUB", start.r, 1, start.f)
    IN  /\ r = out.res
        /\ f \ {"C"} = out.f \ {"C"}
        /\ "C" \in f <=> "C" \in start.f

\* A sequence that undoes itself leaves A and the operand as they were: a
\* rotate and its opposite, eight of the 8-bit or nine of the 9-bit ones
\* (C restored as well), three of the digit rotates, CPL or NEG twice, INC
\* and DEC, ADD and SUB.
Undone ==
  {<<"RLC", "RRC">>, <<"RRC", "RLC">>, <<"RL", "RR">>, <<"RR", "RL">>,
   <<"RLCA", "RRCA">>, <<"RRCA", "RLCA">>, <<"RLA", "RRA">>, <<"RRA", "RLA">>,
   <<"RLD", "RRD">>, <<"RRD", "RLD">>, <<"CPL", "CPL">>, <<"NEG", "NEG">>,
   <<"INC", "DEC">>, <<"ADD", "SUB">>, <<"SUB", "ADD">>, <<"XOR", "XOR">>}
TurnsRound(n) ==
  CASE n = 3 -> {"RRD", "RLD"} [] n = 8 -> {"RLC", "RRC"} [] n = 9 -> {"RL", "RR"} [] OTHER -> {}
RoundTrip ==
  \/ Len(prog) = 2 /\ prog \in Undone
  \/ \E op \in TurnsRound(Len(prog)) : \A i \in 1 .. Len(prog) : prog[i] = op
KeepsCarry == {"RL", "RR", "RLA", "RRA", "RLD", "RRD", "CPL", "INC"}
RoundTrips ==
  Finished /\ RoundTrip =>
    /\ a = start.a
    /\ r = start.r
    /\ prog[1] \in KeepsCarry => ("C" \in f <=> "C" \in start.f)

\* SCF and CCF leak X and Y: from A alone where the instruction right before
\* wrote F, from A and F both where it did not -- a load, RES or SET, or a
\* prefix, whose M1 comes in between.
QLeak ==
  last \in {"SCF", "CCF"} /\ pc > 2 =>
    f \cap {"X", "Y"} =
      XY(a) \cup (IF prog[pc - 2] \in Silent \cup Prefix THEN before \cap {"X", "Y"} ELSE {})

\* A 16-bit add is the two byte adds, low then high: C, H, N, X and Y are
\* the high one's, S and P/V too where ADC and SBC write them, and Z is that
\* of all 16 bits. ADD leaves S, Z and P/V.
WordIsTwoBytes ==
  Finished /\ Len(prog) = 1 /\ last \in {"ADD16", "ADC16", "SBC16"} =>
    LET cin == IF last = "ADD16" THEN 0 ELSE Carry(start.f)
        low  == IF last = "SBC16" THEN FlagsSub8(start.hl % 256, rp % 256, cin, FALSE)
                                  ELSE FlagsAdd8(start.hl % 256, rp % 256, cin)
        high == IF last = "SBC16"
                THEN FlagsSub8(start.hl \div 256, rp \div 256, Carry(low.f), FALSE)
                ELSE FlagsAdd8(start.hl \div 256, rp \div 256, Carry(low.f))
        kept == IF last = "ADD16" THEN {"S", "Z", "P"} ELSE {"Z"}
    IN  /\ hl = 256 * high.res + low.res
        /\ f \ kept = high.f \ kept
        /\ IF last = "ADD16" THEN f \cap kept = start.f \cap kept
                             ELSE "Z" \in f <=> hl = 0

\* A block instruction decides whether to repeat as it ends, from its counter
\* and its byte; the next M1 writes F, from the registers it finds and the
\* repeat it was told of. Then F and PC tell of one round. P/V of LDIR and
\* CPIR says the counter is not 0, CPIR's Z that it found the byte, INIR's Z
\* that B is 0; it repeats exactly where they say so; a repeat changes none of
\* S, Z, N and C, and X and Y are PC's exactly in a repeat.
BlockAgrees ==
  ~wbp =>
  LET again == pc = at
      k     == r + a
      ownXY == CASE last = "LDIR" -> BlockXY((a + r) % 256)
                 [] last = "CPIR" -> BlockXY((a - r - (IF "H" \in f THEN 1 ELSE 0)) % 256)
                 [] last = "INIR" -> XY(bc)
  IN  /\ last \in {"LDIR", "CPIR"} => ("P" \in f <=> bc # 0)
      /\ last = "LDIR" => (again <=> "P" \in f)
      /\ last = "CPIR" => /\ "Z" \in f <=> a = r
                          /\ again <=> {"P", "Z"} \cap f = {"P"}
                          /\ ("H" \in f \/ "S" \in f) => "Z" \notin f
      /\ last = "INIR" => /\ again <=> "Z" \notin f
                          /\ f \cap {"S", "Z", "N", "C"} =
                               FlagsBlockIo(r, bc, k) \cap {"S", "Z", "N", "C"}
      /\ last \in Blocks =>
           f \cap {"X", "Y"} \in (IF again THEN {XY(pch) : pch \in PcHighs} ELSE {ownXY})
=============================================================================
