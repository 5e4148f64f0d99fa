---------------------------- MODULE MCZ80Lockstep ----------------------------
(***************************************************************************)
(* Instances of the two cores in lockstep for TLC.                         *)
(***************************************************************************)
EXTENDS Z80Lockstep, Z80Contract

\* Every class an opcode decodes to.
AllOps == MainPage \cup EdPage \cup CbPage

\* One of each bus cycle and of each length of internal one, the prefixes,
\* the longest instruction of each page and those that end early: where a cut
\* can leave the two rings and the two decoders.
CutOps ==
  {"NOP", "HALT", "LD_R_M", "ST_M_R", "INC_M", "OUT_N_A", "IN_A_N", "INC_RP",
   "ADD_HL_RP", "PUSH", "PREFIX_IDX", "PREFIX_CB", "PREFIX_ED", "CB_M",
   "LD_M_N", "JR", "CALL", "EX_SP_HL", "LDI", "OUTI",
   "INI", "DJNZ", "CALL_CC", "RET_CC", "RRD", "LD_I_A", "LD_SP_HL", "RETN"}
=============================================================================
