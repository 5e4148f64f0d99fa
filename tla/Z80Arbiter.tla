----------------------------- MODULE Z80Arbiter -----------------------------
(***************************************************************************)
(* What BUSREQ and BUSACK promise a DMA master and the program: one owner  *)
(* of the bus, which changes hands on the master's request alone and only  *)
(* between M-cycles, and a CPU that finds its work as it left it.          *)
(* The phase engine implements it: Z80Contract.                            *)
(***************************************************************************)
VARIABLES
  master,   \* who has the bus
  asks,     \* the master's request, as last sampled
  between,  \* the CPU stands before the first T-state of an M-cycle
  work,     \* everything the instruction and the program's state are made of
  reset     \* the CPU is held in reset

vars == <<master, asks, between, work, reset>>

Init == master = "CPU" /\ reset = FALSE

\* The CPU's own steps are its own affair.
CpuRuns == master = "CPU" /\ master' = "CPU"

Grants ==
  /\ master = "CPU" /\ asks
  /\ master' = "DMA" /\ between' /\ ~reset'

\* The CPU waits while the master keeps asking, and goes on from there.
Waits ==
  /\ master = "DMA" /\ ~reset'
  /\ master' = IF asks THEN "DMA" ELSE "CPU"
  /\ UNCHANGED <<between, work>>

\* A RESET takes the bus back.
Resets == reset' /\ master' = "CPU"

Next == CpuRuns \/ Grants \/ Waits \/ Resets

Spec == Init /\ [][Next]_vars
=============================================================================
