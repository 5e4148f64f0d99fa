------------------------------- MODULE Z80Pins -------------------------------
(***************************************************************************)
(* The output pins of the phase engine: the drive section of               *)
(* z80_phase_step(). TRUE is low (asserted), or driven.                    *)
(***************************************************************************)
EXTENDS Z80Core

\* RES2 and the special-reset latch as they stand after this T-state's
\* falling edge.
Res2Now == IF phi = 0 \/ M1T2 THEN res2 ELSE res_s
SresNow == IF phi = 0 THEN sres ELSE ~Res2Now /\ (IF M1T2 THEN res_s ELSE sres)

LongInternal == bus_op = "INTERNAL" /\ ~Extension

\* mutant: a Tw is driven as T2 is
HoldsNoWR == FALSE

\* WAIT repeats T2 of a memory write without raising WR in the Tw's high half.
HoldWR == in_tw /\ phi = 0 /\ bus_op = "MWR"

Undisturbed(s) == Timed(s, bus_op, t_state, phi) \/ (s = "WR" /\ HoldWR)

(***************************************************************************)
(* In the T-state a RESET cut makes the last one: a cut in T1 turns any    *)
(* M-cycle's low half into an opcode fetch's; one in T2 releases the       *)
(* strobes in T2.N; an I/O cycle cut after T2 never asserts, and a cut in  *)
(* an automatic wait state releases IORQ, RD and WR there.                 *)
(***************************************************************************)
InCut(s) ==
  LET io == bus_op \in {"IORD", "IOWR"}
  IN CASE phi = 0 /\ t_state = 2 /\ io /\ s \in {"IORQ", "RD", "WR"} -> FALSE
       [] phi = 0 /\ t_state = 2 /\ LongInternal /\ s = "MREQ" -> TRUE
       [] phi = 1 /\ t_state = 1 /\ s \in {"MREQ", "IORQ", "RD", "WR"} -> s \in {"MREQ", "RD"}
       [] phi = 1 /\ t_state = 2 /\ s \in {"MREQ", "IORQ", "RD", "WR"} -> FALSE
       [] phi = 1 /\ t_state = 3 /\ io /\ s \in {"IORQ", "RD", "WR"} -> FALSE
       [] phi = 1 /\ t_state \in {3, 4} /\ bus_op = "INTA" /\ s = "IORQ" -> FALSE
       [] OTHER -> Undisturbed(s)

Low(s) ==
  IF rst_idle THEN s = "RD" /\ rd_hold /\ (phi = 0 \/ ~res2)
  ELSE IF bus_granted THEN FALSE
  ELSE IF rd_hold /\ phi = 0 THEN s = "RD" \/ Undisturbed(s)
  ELSE IF res2 /\ ~Extension THEN InCut(s)
  ELSE \/ Undisturbed(s)
       \/ s = "MREQ" /\ LongInternal /\ t_state = 1 /\ phi = 1 /\ Res2Now

\* mutant: the cut leaves the data bus driven
DataDrivenInCut ==
  ~rst_idle /\ ~bus_granted /\ TimedData(bus_op, t_state, phi)

DataDriven ==
  /\ ~rst_idle /\ ~bus_granted
  /\ TimedData(bus_op, t_state, phi)
  /\ ~(res2 /\ phi = 1 /\ t_state = 1)

AddressDriven == ~bus_granted /\ ~rst_idle
ControlDriven == ~bus_granted

\* mutant: BUSACK rises with the release itself
BusackWithGrant == bus_granted

BusackLow == bus_granted /\ ~(phi = 1 /\ (~busreq_s \/ res2))

\* mutant: HALT rises as the interrupt is accepted
HaltLowToBoundary ==
  /\ \/ halted
     \/ exec = "HALT" /\ bus_op = "M1" /\ t_state = 4 /\ phi = 1
     \/ exec = "HALT" /\ bus_op = "INTA" /\ t_state = 6 /\ phi = 1
  /\ ~(Res2Now \/ SresNow)

HaltLow ==
  LET inHaltM1 == /\ exec = "HALT" /\ phi = 1
                  /\ \/ bus_op = "M1"   /\ t_state = 4
                     \/ bus_op = "INTA" /\ t_state = 6
      leaves   == /\ t_state = m_len /\ phi = 1
                  /\ nmi_sampled \/ (int_sampled /\ iff1)
  IN (halted \/ inHaltM1) /\ ~leaves /\ ~(Res2Now \/ SresNow)

-----------------------------------------------------------------------------
(***************************************************************************)
(* Properties of the pins.                                                 *)
(***************************************************************************)

\* Whatever WAIT, BUSREQ and RESET do to an M-cycle, a memory and an I/O
\* request never overlap, nor a read and a write, and the CPU never drives
\* the data bus during a read -- though a T1 cut turns a write into a read.
StrobesExclude ==
  /\ ~(Low("MREQ") /\ Low("IORQ"))
  /\ ~(Low("RD") /\ (Low("WR") \/ DataDriven))
  /\ Low("WR") => DataDriven

\* A write strobe is one pulse: it ends in the low half of T3 (MWR) or T4
\* (IOWR), with any number of wait states in between, or by a RESET.
WriteIsOnePulse ==
  [][Low("WR") /\ ~Low("WR")' => (phi = 0 /\ t_state = BaseLen[bus_op]) \/ res2 \/ res2']_vars

\* The address does not move under a low MREQ or IORQ.
AddressStable ==
  [][\A s \in {"MREQ", "IORQ"} : Low(s) /\ Low(s)' => addr' = addr]_vars

\* HALT changes on falling edges, and once low it stays low until the T-state
\* whose end accepts an interrupt, or a RESET: an interrupt pending as HALT
\* ends never lowers it. (The reset idle is HaltHighInReset's.)
HaltChangesAtBoundary ==
  [][(~rst_idle /\ ~rst_idle') =>
       /\ HaltLow' # HaltLow => phi' = 1
       /\ (HaltLow /\ ~HaltLow') =>
            \/ t_state = m_len /\ (nmi_sampled \/ (int_sampled /\ iff1))
            \/ Res2Now' \/ SresNow']_vars

\* BUSACK covers the DMA master's time: the CPU drives the address and the
\* strobes again only after half a T-state with BUSACK high.
BusackCoversDMA == [][BusackLow => ~AddressDriven' /\ ~ControlDriven']_vars

\* "HALT rises on the falling edge where RES2 or the special-reset latch
\* sets, and stays high": HALT is high in the reset idle.
HaltHighInReset == rst_idle => ~HaltLow
=============================================================================
