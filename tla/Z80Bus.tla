------------------------------- MODULE Z80Bus -------------------------------
(***************************************************************************)
(* The bus cycles of the CPU and their timing: how long each kind of       *)
(* M-cycle is, which strobe is low in which half T-state, and the timing   *)
(* points (WAIT sample, data latch, refresh) of cmodel/z80_timing.c and    *)
(* the predicates of cmodel/z80_core.c. All of it is a function of         *)
(* (bus_op, t_state, phi); the phase engine (Z80Core) adds what depends on *)
(* more.                                                                   *)
(*                                                                         *)
(* A half T-state of an M-cycle is numbered from 0: T1.P, T1.N, T2.P, ...  *)
(* A pin is TRUE when it is asserted, that is, low.                        *)
(***************************************************************************)
EXTENDS Integers

BusOps == {"M1", "MRD", "MWR", "IORD", "IOWR", "INTA", "INTERNAL"}

Strobes == {"M1", "MREQ", "IORQ", "RD", "WR", "RFSH"}

\* T-states of an M-cycle before what the caller adds (z80_busop_base_len).
BaseLen ==
  [b \in BusOps |->
     CASE b = "M1"             -> 4
       [] b \in {"MRD", "MWR"}   -> 3
       [] b \in {"IORD", "IOWR"} -> 4
       [] b = "INTA"           -> 6
       [] OTHER                -> 0]

Half(t, p) == 2 * (t - 1) + p

(***************************************************************************)
(* The half T-states in which z80_timing() holds a strobe low.             *)
(***************************************************************************)
Window ==
  [b \in BusOps |->
     [s \in Strobes |->
        CASE b = "M1"   /\ s = "M1"   -> 0 .. 3
          [] b = "M1"   /\ s = "MREQ" -> (1 .. 3) \cup (5 .. 6)
          [] b = "M1"   /\ s = "RD"   -> 1 .. 3
          [] b = "M1"   /\ s = "RFSH" -> 4 .. 7
          [] b = "MRD"  /\ s \in {"MREQ", "RD"} -> 1 .. 4
          [] b = "MWR"  /\ s = "MREQ" -> 1 .. 4
          [] b = "MWR"  /\ s = "WR"   -> 3 .. 4
          [] b = "IORD" /\ s \in {"IORQ", "RD"} -> 2 .. 6
          [] b = "IOWR" /\ s \in {"IORQ", "WR"} -> 2 .. 6
          [] b = "INTA" /\ s = "M1"   -> 0 .. 7
          [] b = "INTA" /\ s = "IORQ" -> 5 .. 7
          [] b = "INTA" /\ s = "MREQ" -> 9 .. 10
          [] b = "INTA" /\ s = "RFSH" -> 8 .. 11
          [] OTHER -> {}]]

Timed(s, b, t, p) == Half(t, p) \in Window[b][s]

\* The CPU drives the data bus: a memory write from T1.N to its end, an
\* output from T1.N through T4.
TimedData(b, t, p) ==
  \/ b = "MWR"  /\ Half(t, p) >= 1
  \/ b = "IOWR" /\ Half(t, p) \in 1 .. 7

\* mutant: the refresh address only in the refresh's first T-state
RefreshT3Only(b, t) == (b = "M1" /\ t = 3) \/ (b = "INTA" /\ t = 5)

\* The address is I:R instead of the M-cycle's own.
RefreshAddress(b, t) ==
  \/ b = "M1"   /\ t \in {3, 4}
  \/ b = "INTA" /\ t \in {5, 6}

\* is_wait_sample_phase(): WAIT is looked at in one half T-state only.
WaitSample(b, t, p) ==
  /\ p = 1
  /\ \/ b \in {"M1", "MRD", "MWR"} /\ t = 2
     \/ b \in {"IORD", "IOWR"}     /\ t = 3
     \/ b = "INTA"                 /\ t = 4

\* is_latch_phase() for the cycles whose byte is decoded.
OpcodeLatch(b, t, p) ==
  /\ p = 0
  /\ \/ b = "M1"   /\ t = 3
     \/ b = "INTA" /\ t = 5

\* is_addr_held(): the address bus keeps what it last carried.
AddressHeld(b, t) ==
  \/ b = "INTERNAL"
  \/ b = "M1"   /\ t >= 5
  \/ b = "INTA" /\ t >= 7
=============================================================================
