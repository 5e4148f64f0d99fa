--------------------------- MODULE MCZ80WriteBack ---------------------------
(***************************************************************************)
(* Instances of the register write-back for TLC.                           *)
(***************************************************************************)
EXTENDS Z80WriteBack

\* Every class an opcode decodes to, but for the three that write nothing
\* but the interrupt enables and the mode.
WritingOps == (MainPage \cup EdPage \cup CbPage) \ {"EI", "DI", "IM"}

\* What runs into a response or the halt state: a write left for each of the
\* T-states of its M1 and with each kind of flags, and what lets INT in.
ResponseOps ==
  {"EI", "IM", "HALT", "PREFIX_ED", "ALU_R", "CPI", "ADC16", "EX_AF", "EX_DE_HL",
   "LD_R_R"}
=============================================================================
