---------------------------- MODULE Z80Interrupts ----------------------------
(***************************************************************************)
(* What the interrupts promise a programmer, with no clock, bus or opcode  *)
(* in it: an NMI edge is answered once and not forgotten, an INT only while*)
(* the program had enabled it before the instruction that ends, a response *)
(* interrupts nothing but the program or another's end, the halt state     *)
(* ends only in a response, and RETN finds in IFF2 what IFF1 was.          *)
(* The phase engine implements it: Z80Contract.                            *)
(***************************************************************************)
VARIABLES
  iff1, iff2,
  halted,
  nmi,      \* an NMI edge waits for its response
  doing     \* the program, a response, or held in reset

vars == <<iff1, iff2, halted, nmi, doing>>

Init ==
  /\ iff1 = FALSE /\ iff2 = FALSE /\ halted = FALSE
  /\ nmi \in BOOLEAN
  /\ doing = "program"

\* An edge may come in any step; what waits goes on waiting.
Sees == nmi' \in {nmi, TRUE}

Edge ==
  /\ doing # "NMI"
  /\ nmi' = TRUE
  /\ UNCHANGED <<iff1, iff2, halted, doing>>

\* EI, DI and RETN; the others leave the enables alone.
Enables ==
  \/ iff1' = TRUE /\ iff2' = TRUE
  \/ iff1' = FALSE /\ iff2' = FALSE
  \/ iff1' = iff2 /\ iff2' = iff2

Instruction ==
  /\ doing = "program" /\ ~halted
  /\ Enables /\ Sees
  /\ UNCHANGED <<halted, doing>>

Halt ==
  /\ doing = "program" /\ ~halted
  /\ halted' = TRUE /\ Sees
  /\ UNCHANGED <<iff1, iff2, doing>>

\* An NMI leaves IFF2 as the program, or the response it follows, had it.
AcceptNMI ==
  /\ doing \in {"program", "INT"} /\ nmi
  /\ doing' = "NMI" /\ nmi' = FALSE
  /\ iff1' = FALSE /\ halted' = FALSE
  /\ \/ iff2' = iff2
     \/ doing = "program" /\ ~halted /\ iff2' \in BOOLEAN

AcceptINT ==
  /\ doing = "program" /\ iff1
  /\ doing' = "INT" /\ Sees
  /\ iff1' = FALSE /\ iff2' = FALSE /\ halted' = FALSE

ResponseEnds ==
  /\ doing \in {"NMI", "INT"}
  /\ doing' = "program"
  /\ IF doing = "NMI" THEN nmi' = FALSE ELSE Sees
  /\ UNCHANGED <<iff1, iff2, halted>>

Reset ==
  /\ doing' = "reset"
  /\ iff1' = FALSE /\ iff2' = FALSE /\ halted' = FALSE /\ nmi' = FALSE

Restart ==
  /\ doing = "reset"
  /\ doing' = "program" /\ Sees
  /\ UNCHANGED <<iff1, iff2, halted>>

Next ==
  \/ Edge \/ Instruction \/ Halt
  \/ AcceptNMI \/ AcceptINT \/ ResponseEnds
  \/ Reset \/ Restart

Spec == Init /\ [][Next]_vars
=============================================================================
