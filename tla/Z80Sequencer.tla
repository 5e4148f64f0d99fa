---------------------------- MODULE Z80Sequencer ----------------------------
(***************************************************************************)
(* The micro-sequencer's M-cycle templates and the decode that selects     *)
(* them: z80_exec_step() of cmodel/z80_core.c without its datapath, and    *)
(* the classes z80_pla() decodes an opcode to.                             *)
(*                                                                         *)
(* A template lists the M-cycles after the opcode fetch. The data that     *)
(* decides a conditional end (a flag, B or BC at zero, BIT among the CB    *)
(* operations) is left open: MayEnd and MayGoOn say where both happen.     *)
(* EXEC_BLOCK is four classes here, by its category, and EXEC_PREFIX three,*)
(* by its opcode (DD and FD are one: only the register they name differs). *)
(***************************************************************************)
EXTENDS Z80Bus, Sequences

\* An M-cycle: its bus operation, the T-states beyond that operation's own,
\* and where its address comes from (PC, stepping it, or a register).
MCycles == [bus : BusOps, extra : 0 .. 5, src : {"PC", "REG"}]

Operand    == [bus |-> "MRD",  extra |-> 0, src |-> "PC"]
Read       == [bus |-> "MRD",  extra |-> 0, src |-> "REG"]
Write      == [bus |-> "MWR",  extra |-> 0, src |-> "REG"]
Input      == [bus |-> "IORD", extra |-> 0, src |-> "REG"]
Output     == [bus |-> "IOWR", extra |-> 0, src |-> "REG"]
Internal(n) == [bus |-> "INTERNAL", extra |-> n, src |-> "REG"]
Long(c, n)  == [c EXCEPT !.extra = n]

(***************************************************************************)
(* The templates, in the source's groups.                                  *)
(***************************************************************************)
NoMore == << >>

SingleCycle ==
  [ex \in {"NOP", "ILLEGAL", "DI", "EI", "HALT", "LD_R_R", "ALU_R", "INC_R",
           "DEC_R", "ROT_A", "DAA", "CPL", "SCF", "CCF", "EX_DE_HL",
           "EX_AF", "EXX", "JP_HL", "CB_R", "NEG", "IM"} |-> NoMore]

\* d, op, two T-states, the operand and, but for BIT, the write back
IndexedBit == [DDCB |-> <<Operand, Operand, Internal(2), Long(Read, 1), Write>>]

Extended ==
  [INC_RP    |-> <<Internal(2)>>,
   DEC_RP    |-> <<Internal(2)>>,
   LD_SP_HL  |-> <<Internal(2)>>,
   ADD_HL_RP |-> <<Internal(4), Internal(3)>>]

Byte ==
  [LD_R_N |-> <<Operand>>,
   ALU_N  |-> <<Operand>>,
   LD_R_M |-> <<Read>>,
   ALU_M  |-> <<Read>>,
   ST_M_R |-> <<Write>>,
   LD_M_N |-> <<Operand, Write>>,
   INC_M  |-> <<Long(Read, 1), Write>>,
   DEC_M  |-> <<Long(Read, 1), Write>>]

Word ==
  [LD_RP_NN |-> <<Operand, Operand>>,
   JP       |-> <<Operand, Operand>>,
   JP_CC    |-> <<Operand, Operand>>,
   LD_A_NN  |-> <<Operand, Operand, Read>>,
   LD_NN_A  |-> <<Operand, Operand, Write>>,
   LD_HL_NN |-> <<Operand, Operand, Read, Read>>,
   LD_NN_HL |-> <<Operand, Operand, Write, Write>>,
   LD_A_RP  |-> <<Read>>,
   LD_RP_A  |-> <<Write>>]

Relative ==
  [JR    |-> <<Operand, Internal(5)>>,
   JR_CC |-> <<Operand, Internal(5)>>,
   DJNZ  |-> <<Internal(1), Operand, Internal(5)>>]

Stack ==
  [CALL     |-> <<Operand, Operand, Internal(1), Write, Write>>,
   CALL_CC  |-> <<Operand, Operand, Internal(1), Write, Write>>,
   RET      |-> <<Read, Read>>,
   RET_CC   |-> <<Internal(1), Read, Read>>,
   RST      |-> <<Internal(1), Write, Write>>,
   PUSH     |-> <<Internal(1), Write, Write>>,
   POP      |-> <<Read, Read>>,
   EX_SP_HL |-> <<Read, Long(Read, 1), Write, Long(Write, 2)>>]

InputOutput ==
  [IN_A_N  |-> <<Operand, Input>>,
   OUT_N_A |-> <<Operand, Output>>,
   CB_M    |-> <<Long(Read, 1), Write>>]

Extras ==
  [ADC16     |-> <<Internal(4), Internal(3)>>,
   SBC16     |-> <<Internal(4), Internal(3)>>,
   RETN      |-> <<Read, Read>>,
   LD_I_A    |-> <<Internal(1)>>,
   LD_R_A    |-> <<Internal(1)>>,
   LD_A_IR   |-> <<Internal(1)>>,
   LD_NNA_RP |-> <<Operand, Operand, Write, Write>>,
   LD_RP_NNA |-> <<Operand, Operand, Read, Read>>,
   IN_C      |-> <<Input>>,
   OUT_C     |-> <<Output>>,
   RRD       |-> <<Read, Internal(4), Write>>,
   RLD       |-> <<Read, Internal(4), Write>>]

\* the last M-cycle of each is the repeat's
Block ==
  [LDI  |-> <<Read, Long(Write, 2), Internal(5)>>,
   CPI  |-> <<Read, Internal(5), Internal(5)>>,
   INI  |-> <<Internal(1), Input, Write, Internal(5)>>,
   OUTI |-> <<Internal(1), Read, Output, Internal(5)>>]

\* two pushes; in IM 2 the vector's two bytes
Response ==
  [NMI |-> <<Write, Write>>,
   INT |-> <<Write, Write, Read, Read>>]

Prefixes == {"PREFIX_IDX", "PREFIX_ED", "PREFIX_CB"}

Groups == <<SingleCycle, IndexedBit, Extended, Byte, Word, Relative, Stack,
            InputOutput, Extras, Block, Response>>

Classes == (UNION {DOMAIN Groups[i] : i \in 1 .. 11}) \cup Prefixes

Template ==
  [ex \in Classes |->
     IF ex \in Prefixes THEN NoMore
     ELSE LET g == CHOOSE i \in 1 .. 11 : ex \in DOMAIN Groups[i]
          IN Groups[g][ex]]

(***************************************************************************)
(* (IX+d): the displacement and a 5-T address calculation come first; LD   *)
(* (IX+d),n calculates during its operand read.                            *)
(***************************************************************************)
Cycles(ex, disp) ==
  IF ~disp THEN Template[ex]
  ELSE IF ex = "LD_M_N" THEN <<Operand, Long(Operand, 2), Write>>
  ELSE <<Operand, Internal(5)>> \o Template[ex]

\* Where an instruction may end before its template does: <<class, M-cycle>>.
Conditional ==
  {<<"JR_CC", 2>>, <<"DJNZ", 3>>, <<"CALL_CC", 3>>, <<"RET_CC", 2>>,
   <<"CB_M", 2>>, <<"DDCB", 5>>,
   <<"LDI", 3>>, <<"CPI", 3>>, <<"INI", 4>>, <<"OUTI", 4>>}

MayEnd(ex, disp, m, im) ==
  \/ m = 1 + Len(Cycles(ex, disp))
  \/ <<ex, m>> \in Conditional
  \/ ex = "INT" /\ m = 3 /\ im # 2

MayGoOn(ex, disp, m, im) ==
  /\ m <= Len(Cycles(ex, disp))
  /\ ~(ex = "INT" /\ m = 3 /\ im # 2)

\* The instruction loads PC as its M-cycle m ends: it ends there, or it goes
\* on (a relative jump calculates in the M-cycle after); or PC steps back
\* to a block instruction that repeats.
LoadsAtEnd ==
  {<<"JP_HL", 1>>, <<"JP", 3>>, <<"CALL", 6>>, <<"CALL_CC", 6>>, <<"RET", 3>>,
   <<"RET_CC", 4>>, <<"RST", 4>>, <<"RETN", 3>>, <<"NMI", 3>>, <<"INT", 3>>,
   <<"INT", 5>>}

MayLoadAtEnd == {<<"JP_CC", 3>>}

\* mutant: the NMI vector goes into PC before the low byte is pushed
LoadsVectorEarly == {<<"JR", 2>>, <<"JR_CC", 2>>, <<"DJNZ", 3>>, <<"NMI", 2>>}

LoadsGoingOn == {<<"JR", 2>>, <<"JR_CC", 2>>, <<"DJNZ", 3>>}

Repeats == {<<"LDI", 3>>, <<"CPI", 3>>, <<"INI", 4>>, <<"OUTI", 4>>}

(***************************************************************************)
(* What the PLA decodes an opcode to under each prefix.                    *)
(***************************************************************************)
PrefixStates == {"NONE", "IDX", "ED", "CB", "IDXCB"}

EdPage ==
  {"IN_C", "OUT_C", "SBC16", "ADC16", "LD_NNA_RP", "LD_RP_NNA", "NEG", "RETN",
   "IM", "LD_I_A", "LD_R_A", "LD_A_IR", "RRD", "RLD", "LDI", "CPI", "INI",
   "OUTI", "NOP"}

CbPage == {"CB_R", "CB_M"}

MainPage == Classes \ ((EdPage \ {"NOP"}) \cup CbPage \cup
                       {"DDCB", "NMI", "INT", "ILLEGAL"})

Page(prefix) ==
  CASE prefix \in {"NONE", "IDX"} -> MainPage
    [] prefix = "ED" -> EdPage
    [] prefix = "CB" -> CbPage
    [] OTHER -> {"ILLEGAL"}

\* ctl.idx && ctl.use_disp
UsesDisp(prefix, ex) ==
  /\ prefix = "IDX"
  /\ ex \in {"LD_R_M", "ST_M_R", "ALU_M", "INC_M", "DEC_M", "LD_M_N"}

\* set_prefix_from_ir()
PrefixAfter(prefix, ex) ==
  CASE ex = "PREFIX_IDX" -> "IDX"
    [] ex = "PREFIX_ED"  -> "ED"
    [] OTHER -> IF prefix = "IDX" THEN "IDXCB" ELSE "CB"

(***************************************************************************)
(* The writes the die makes in the T1 and T2 of the next opcode fetch      *)
(* (wb_cls, wb_defer and the exchanges): which kinds an instruction leaves *)
(* pending when it ends in its M-cycle m.                                  *)
(***************************************************************************)
PendingKinds == {"ALU", "F1", "F16", "EXAF", "EXX", "EXDH", "DEC"}

AluClasses ==
  {"LD_R_R", "LD_R_N", "LD_R_M", "ALU_R", "ALU_N", "ALU_M", "INC_R", "DEC_R",
   "ROT_A", "DAA", "CPL", "SCF", "CCF", "NEG", "CB_R", "IN_C", "LD_A_IR",
   "INC_M", "DEC_M", "CB_M", "DDCB", "RRD", "RLD"}

Deferred(ex, m) ==
  CASE ex \in AluClasses -> {"ALU"}
    [] ex = "LDI" -> {"ALU"}
    [] ex = "CPI" -> {"F1"}
    [] ex \in {"INI", "OUTI"} -> IF m = 5 THEN {"F1"} ELSE {"ALU"}
    [] ex \in {"ADD_HL_RP", "ADC16", "SBC16"} -> {"F16"}
    [] ex = "EX_AF"    -> {"EXAF"}
    [] ex = "EXX"      -> {"EXX"}
    [] ex = "EX_DE_HL" -> {"EXDH"}
    [] OTHER -> {}
=============================================================================
