----------------------------- MODULE MCZ80Core -----------------------------
(***************************************************************************)
(* Instances of the phase engine for TLC: the opcode classes of each run.  *)
(* A run moves the pins and holds the opcodes whose interplay it is about. *)
(***************************************************************************)
EXTENDS Z80Pins, Z80Contract

\* The halt state under every reset and interrupt.
HaltOps == {"NOP", "EI", "HALT"}

\* One of each bus cycle and of each length of internal one: where a cut can
\* leave the ring.
CutOps ==
  {"NOP", "HALT", "LD_R_M", "ST_M_R", "INC_M", "OUT_N_A", "IN_A_N", "INC_RP",
   "ADD_HL_RP", "PUSH", "PREFIX_IDX"}

\* What can hold an answer off: HALT, prefixes without end, EI and DI, the
\* longest instruction, and one of each bus cycle.
EndlessOps == CutOps \cup {"EI", "DI", "EX_SP_HL"}

\* Every class an opcode decodes to.
AllOps == MainPage \cup EdPage \cup CbPage
=============================================================================
