----------------------------- MODULE Z80Lockstep -----------------------------
(***************************************************************************)
(* The C model and the RTL core side by side, as scripts/event_sweep.py    *)
(* runs them: the same pins, the same memory. A step of this specification *)
(* is half a T-state of both: one z80_phase_step() and one clock edge.     *)
(*                                                                         *)
(* The RTL takes the pins where z80_top samples them. Where the C model    *)
(* looks at a pin they see the same level; where it does not, the RTL may  *)
(* see any. What depends on data -- the opcode, a taken branch, an address *)
(* -- is as in the C model's step.                                         *)
(***************************************************************************)
EXTENDS Z80Pins

VARIABLES r, image

Rtl == INSTANCE Z80Rtl

lockVars == <<vars, r, image>>

LockInit == Init /\ Rtl!RtlInit(prev_nmi)

\* INT as this T-state's rising edge saw it. Both look at it in an M-cycle's
\* last T-state only, the C model not in the reset idle or a bus grant.
IntRise ==
  IF t_state = m_len /\ (rst_idle \/ bus_granted) THEN Level("INT") ELSE {int_sampled}

\* WAIT at the falling edge. In the reset idle the C model does not look.
IdleSample == rst_idle /\ WaitSample(bus_op, t_state, 1)
WaitNeg    == IF IdleSample THEN Level("WAIT") ELSE {stalled}

\* The byte on the bus as an opcode is latched: the one the C model decoded,
\* or one it discards.
LatchesByte == phi = 1 /\ OpcodeLatch(bus_op, t_state + 1, 0)
Discards    == res2 \/ (bus_op = "M1" /\ (suppress_decode \/ srst_m1))

Bytes ==
  CASE ~LatchesByte -> {Rtl!Opcode("NONE", "NOP")}
    [] LatchesByte /\ Discards -> {Rtl!Opcode("NONE", "NOP"), Rtl!HaltByte("NONE", "HALT")}
    [] OTHER -> (IF exec' = "HALT" THEN {} ELSE {Rtl!Opcode(prefix, exec')})
                  \cup (IF exec' \in {"HALT", "CB_M", "IM"} THEN {Rtl!HaltByte(prefix, exec')} ELSE {})

Inputs ==
  [int : IntRise, wait : WaitNeg, byte : Bytes, res : {res_s}, busreq : {busreq_s},
   nmi_neg : {prev_nmi}, nmi : {prev_nmi'},
   ends : {m_cycle' = 1}, target : {IF m_cycle' = 1 THEN m_addr'[2] ELSE pc'}, mode : {im'}]

RtlStep(in) == IF phi = 1 THEN Rtl!Posedge(in) ELSE Rtl!Negedge(in)

LockNext == Next /\ \E in \in Inputs : RtlStep(in)
LockSpec == LockInit /\ [][LockNext]_lockVars

-----------------------------------------------------------------------------
(***************************************************************************)
(* What the event sweep compares, and what has to agree for it to.         *)
(*                                                                         *)
(* In three places the cores differ:                                       *)
(* - HALT in the reset idle. The RTL's ir keeps the byte of the cut fetch, *)
(*   and with the prefix and the sequence cleared a 76 reads as HALT.      *)
(* - An NMI edge in the low half of the T-state in which RES2 sets. The    *)
(*   RTL drops it, on the new RES2; the C model takes it, on the old. The  *)
(*   reset loses it in both, but in the T-state between, HALT may differ   *)
(*   and the M-cycle that is never run may be the response's.              *)
(* - WAIT low on the last falling edge of the reset idle. The C model does *)
(*   not look; the RTL takes it for a wait of the M-cycle that the cut     *)
(*   left, and if that is a write puts WR out once more (StrayWrite).      *)
(***************************************************************************)
CImage ==
  [strobes    |-> {s \in Strobes : Low(s)},
   halt       |-> HaltLow,
   busack     |-> BusackLow,
   data       |-> DataDriven,
   addr       |-> addr,
   addr_drive |-> AddressDriven,
   ctl_drive  |-> ControlDriven]

RtlImage == IF rst_idle \/ res2 THEN [image EXCEPT !.halt = HaltLow] ELSE image

\* In every half T-state the two cores' pins are the same: strobes, HALT,
\* BUSACK, address, and what is driven. docs/architecture.md says so of the
\* two, and the event sweep asks it of every case it runs.
PinsMatch == RtlImage = CImage

\* T1's high half, straight after the idle, with the wait of the cut M-cycle.
StrayWrite == ~rst_idle /\ phi = 0 /\ t_state = 1 /\ r.in_tw

PinsAgree ==
  [RtlImage EXCEPT !.strobes = IF StrayWrite THEN @ \ {"WR"} ELSE @] = CImage

\* From the opcode's decode on, exec is this instruction's.
Decoded == m_cycle > 1 \/ t_state > (IF bus_op = "M1" THEN 2 ELSE 4)

\* As each T-state starts, the two cores' registers stand for one state. A
\* prefix outlives its instruction in the RTL, until the writes left land.
InStep ==
  phi = 0 =>
    /\ ~rst_idle =>
         /\ r.t_state = t_state /\ r.m_cycle = m_cycle
         /\ r.bus_op = bus_op /\ r.m_len = m_len /\ r.m_addr = m_addr
         /\ Decoded => Rtl!EffExec = exec
    /\ r.prefix = prefix \/ r.pend # 0
    /\ r.pc = pc /\ r.iff1 = iff1 /\ r.iff2 = iff2 /\ r.im = im /\ r.halted = halted
    /\ r.suppress_decode = suppress_decode /\ r.im0_ins = im0_ins
    /\ (r.irq_seq = "NMI") = nmi_resp
    /\ r.prev_nmi = prev_nmi /\ (res2 \/ r.nmi_pending = nmi_pending)
    /\ r.bus_granted = bus_granted
    /\ r.res2 = res2 /\ r.sres = sres /\ r.rst_idle = rst_idle /\ r.srst_m1 = srst_m1

\* z80_core.v, which folds a T-state into one clock edge, and z80_phase_step(),
\* which takes two, keep the same registers and put out the same pins whatever
\* WAIT, BUSREQ, INT, NMI and RESET do, and when -- the three places above
\* aside: each half's work sees the inputs of its own half and the state the
\* half before left.
CoresAgree == PinsAgree /\ InStep
=============================================================================
