----------------------------- MODULE Z80Contract -----------------------------
(***************************************************************************)
(* The phase engine implements what the interrupts and the bus requests    *)
(* promise (Z80Interrupts, Z80Arbiter): a half T-state maps to a step of   *)
(* each or to none.                                                        *)
(***************************************************************************)
EXTENDS Z80Core

\* A response lasts from the boundary that accepts it to its last M-cycle's
\* end; in IM 0 the INT's lasts until the device's opcode is decoded.
Doing ==
  CASE rst_idle                            -> "reset"
    [] ~rst_idle /\ nmi_resp               -> "NMI"
    [] ~rst_idle /\ ~nmi_resp /\ RespondsToINT -> "INT"
    [] OTHER                               -> "program"

Interrupts == INSTANCE Z80Interrupts WITH nmi <- nmi_pending, doing <- Doing

\* Every half T-state is a step of the interrupts' promise or none of its
\* concern: the sampling, the delays and the shared boundary of begin_next(),
\* z80_phase_step() and enter_reset_idle() lose no edge, answer none twice
\* and take no INT that the program had not enabled.
KeepsInterruptPromise == Interrupts!Spec

\* The work a grant may not touch.
Work == <<ring, pc, prefix, enables, fetch, pending>>

Arbiter ==
  INSTANCE Z80Arbiter WITH
    master  <- IF bus_granted THEN "DMA" ELSE "CPU",
    asks    <- busreq_s,
    between <- t_state = 1 /\ ~in_tw /\ ~Extension,
    work    <- Work,
    reset   <- rst_idle

\* Every half T-state is a step of the arbiter's promise: the end of
\* advance() gives the bus away and takes it back on the request sampled a
\* T-state before, and the instruction goes on where it was.
KeepsBusPromise == Arbiter!Spec
=============================================================================
