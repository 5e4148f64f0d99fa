------------------------------- MODULE Z80Rtl -------------------------------
(***************************************************************************)
(* The sequencer of the RTL core, rtl/z80_core.v: one clock edge per       *)
(* T-state, where the C model takes two half steps. Posedge folds the two  *)
(* halves' work into the rising edge; what the pins show is an image for   *)
(* each half, PosImage of the T-state the edge enters and NegImage of the  *)
(* one under way, which z80_top puts out on the two edges.                 *)
(*                                                                         *)
(* The M-cycles of each instruction are the C model's (Z80Sequencer): the  *)
(* tables of rtl/z80_execute.v hold the same ones. TRUE is active: a low   *)
(* input, a low strobe, a driven pad. Data and registers are left out.     *)
(***************************************************************************)
EXTENDS Z80Sequencer

CONSTANT PCMod    \* addresses are 0 .. PCMod-1 (bound: 16 bits in the code)

VARIABLES r,      \* the core's registers
          image   \* the pins, as z80_top last formed them

(***************************************************************************)
(* ir holds a byte: what it decodes to under the prefix it was fetched     *)
(* with, and whether it is 76, which is HALT under no prefix. What else it *)
(* decodes to under another prefix is never looked at: "OTHER" has no      *)
(* template, so a step that executes it is an error in the model.          *)
(***************************************************************************)
HaltByte(under, ex) == [under |-> under, exec |-> ex, halt |-> TRUE]
Opcode(under, ex)   == [under |-> under, exec |-> ex, halt |-> FALSE]

\* Out of the power-on reset's idle: the edge that enters T1 of the fetch
\* at 0000 has passed. low: the NMI pin was low on it.
RtlInit(low) ==
  /\ r = [t_state |-> 1, m_cycle |-> 1, bus_op |-> "M1", m_len |-> 4, m_addr |-> <<"PC", 0>>,
          prefix |-> "NONE", ir |-> Opcode("NONE", "NOP"), pc |-> 0,
          iff1 |-> FALSE, iff2 |-> FALSE, im |-> 0, halted |-> FALSE,
          nmi_pending |-> low, prev_nmi |-> low,
          suppress_decode |-> FALSE, bus_granted |-> FALSE, irq_seq |-> "NONE", im0_ins |-> FALSE,
          res2 |-> FALSE, sres |-> FALSE, rst_idle |-> FALSE, srst_m1 |-> FALSE,
          rd_hold |-> FALSE, in_tw |-> FALSE, pend |-> 0, addr_hold |-> <<"PC", 0>>]
  /\ image = [strobes |-> {"M1"}, halt |-> FALSE, busack |-> FALSE, data |-> FALSE,
              addr |-> <<"PC", 0>>, addr_drive |-> TRUE, ctl_drive |-> TRUE]

-----------------------------------------------------------------------------
(***************************************************************************)
(* The decode, and the predicates on the registers.                        *)
(***************************************************************************)
ExecW ==
  IF r.prefix = "IDXCB" THEN "DDCB"
  ELSE IF r.prefix = r.ir.under THEN r.ir.exec
  ELSE IF r.prefix = "NONE" /\ r.ir.halt THEN "HALT"
  ELSE "OTHER"

\* An interrupt or HALT sequence overrides the decode.
EffExec ==
  CASE r.irq_seq = "NMI"  -> "NMI"
    [] r.irq_seq = "INT"  -> "INT"
    [] r.irq_seq = "HALT" -> "NOP"
    [] OTHER              -> ExecW

Disp == r.irq_seq = "NONE" /\ UsesDisp(r.prefix, EffExec)

M1Any == r.bus_op \in {"M1", "INTA"}
M1T2  == M1Any /\ r.t_state = 2 /\ ~r.rst_idle /\ ~r.in_tw
Ext   == r.bus_op = "INTERNAL" /\ r.m_len <= 2
IntG  == r.bus_op = "INTERNAL" /\ ~Ext
MEnd  == r.t_state >= r.m_len

\* No guard on the reset idle: there the ring's registers still hold the
\* M-cycle that the cut left, and may name a sample point.
Stall(in) == in.wait /\ WaitSample(r.bus_op, r.t_state, 1)

\* the opcode's latch, at the end of the T-state before the C model's
LatchPos == OpcodeLatch(r.bus_op, r.t_state + 1, 0)

\* RES2 and the special-reset latch from this T-state's falling edge on
Res2N(in) == IF M1T2 THEN r.res2 ELSE in.res
SresN(in) == ~Res2N(in) /\ IF M1T2 THEN in.res ELSE r.sres

Cut   == r.res2 /\ ~r.rst_idle /\ ~r.bus_granted
CutT1 == Cut /\ ~Ext /\ r.t_state = 1
CutT2 == Cut /\ ~Ext /\ r.t_state = 2

\* The edges that end the T1 and the T2 of a fetch: the pending writes land.
Edge(t) == ~r.rst_idle /\ ~r.bus_granted /\ M1Any /\ r.t_state = t /\ (t = 2 => ~r.in_tw)
Fire    == r.pend # 0 /\ Edge(r.pend)

-----------------------------------------------------------------------------
(***************************************************************************)
(* What the rising edge makes of the registers, in the order of the        *)
(* source's always block.                                                  *)
(***************************************************************************)

\* An NMI edge in each half of the T-state; lost while RES2 is set, which
\* for the low half is RES2 as this T-state's falling edge left it.
NmiMid(in) == r.nmi_pending \/ (~r.prev_nmi /\ in.nmi_neg /\ ~r.res2)
NmiHeld    == ~r.rst_idle /\ r.irq_seq = "NMI"

\* mutant: one look a T-state, at its end
NmiNOnce(in) == (r.nmi_pending \/ (~r.prev_nmi /\ in.nmi /\ ~Res2N(in))) /\ ~NmiHeld

NmiN(in) == (NmiMid(in) \/ (~in.nmi_neg /\ in.nmi /\ ~Res2N(in))) /\ ~NmiHeld

PcInc == (r.pc + 1) % PCMod
PcOperand == IF r.im0_ins THEN r.pc ELSE PcInc

Restarted(n) ==
  [n EXCEPT !.rst_idle = FALSE, !.bus_op = "M1", !.m_addr = <<"PC", r.pc>>,
            !.m_len = 4, !.t_state = 1, !.m_cycle = 1]

\* The opcode, or the IM0 device's, at the end of T2 or of the last Tw.
Latched(n, in) ==
  IF ~LatchPos THEN n
  ELSE IF r.bus_op = "M1"
  THEN [n EXCEPT !.ir = IF r.srst_m1 THEN Opcode("NONE", "NOP") ELSE in.byte,
                 !.pc = IF r.srst_m1 THEN 0 ELSE IF r.suppress_decode THEN @ ELSE PcInc,
                 !.suppress_decode = FALSE, !.srst_m1 = FALSE]
  ELSE IF r.im = 0
  THEN [n EXCEPT !.ir = in.byte, !.irq_seq = "NONE", !.im0_ins = TRUE]
  ELSE n

\* ctl_m1, ctl_fin: the next opcode fetch
Fetch(n, b, len, a) ==
  [n EXCEPT !.bus_op = b, !.m_len = len, !.m_addr = <<"PC", a>>, !.t_state = 1, !.m_cycle = 1]

\* ctl_mstart: the instruction's next M-cycle
Start(n, c) ==
  [n EXCEPT !.bus_op = c.bus, !.m_len = BaseLen[c.bus] + c.extra,
            !.m_addr = IF c.src = "PC" THEN <<"PC", r.pc>> ELSE <<"REG", r.m_cycle + 1>>,
            !.t_state = 1, !.m_cycle = r.m_cycle + 1]

ExecPrefix(n) ==
  LET p == PrefixAfter(r.prefix, EffExec)
      m == [n EXCEPT !.prefix = p]
  IN IF p = "IDXCB" THEN [Start(m, Operand) EXCEPT !.pc = PcOperand]
     ELSE IF r.im0_ins THEN Fetch(m, "INTA", 6, r.pc) ELSE Fetch(m, "M1", 4, r.pc)

ExecGoOn(n, in) ==
  LET c  == Cycles(EffExec, Disp)[r.m_cycle]
      at == <<EffExec, r.m_cycle>>
  IN [Start(n, c) EXCEPT
        !.pc = CASE c.src = "PC"        -> PcOperand
                 [] at \in LoadsGoingOn -> in.target
                 [] at \in Repeats      -> (r.pc + PCMod - (2 % PCMod)) % PCMod
                 [] OTHER               -> @]

\* The writes an instruction leaves keep its prefix until they land.
PendN ==
  LET left == IF r.irq_seq = "NONE" THEN Deferred(EffExec, r.m_cycle) ELSE {}
  IN CASE "ALU" \in left -> 2 [] "F1" \in left -> 1 [] OTHER -> 0

\* ctl_fin: the instruction boundary, with what the instruction makes of the
\* interrupt state ahead of the decision.
ExecFin(n, in) ==
  LET e     == EffExec
      at    == <<e, r.m_cycle>>
      i1    == CASE e = "EI" -> TRUE [] e = "DI" -> FALSE [] e = "RETN" -> r.iff2 [] OTHER -> r.iff1
      i2    == CASE e = "EI" -> TRUE [] e = "DI" -> FALSE [] OTHER -> r.iff2
      delay == e = "EI" \/ (e = "RETN" /\ ~r.iff1)
      mode  == IF e = "IM" THEN in.mode ELSE r.im
      halt  == r.halted \/ e = "HALT"
      a     == IF at \in LoadsAtEnd \cup MayLoadAtEnd THEN in.target ELSE r.pc
      m     == [n EXCEPT !.prefix = IF PendN = 0 THEN "NONE" ELSE @, !.im0_ins = FALSE,
                         !.pend = PendN, !.pc = a, !.im = mode]
  IN IF r.nmi_pending      \* as the rising edge of this T-state left it
     THEN [Fetch(m, "M1", 5, a) EXCEPT !.nmi_pending = FALSE, !.halted = FALSE,
             !.iff1 = FALSE, !.iff2 = i2, !.irq_seq = "NMI", !.suppress_decode = TRUE]
     ELSE IF ~delay /\ in.int /\ i1
     THEN [Fetch(m, "INTA", IF mode = 0 THEN 6 ELSE 7, a) EXCEPT !.halted = FALSE,
             !.iff1 = FALSE, !.iff2 = FALSE, !.irq_seq = "INT"]
     ELSE IF halt
     THEN [Fetch(m, "M1", 4, a) EXCEPT !.halted = TRUE, !.iff1 = i1, !.iff2 = i2,
             !.irq_seq = "HALT", !.suppress_decode = TRUE, !.srst_m1 = SresN(in)]
     ELSE [Fetch(m, "M1", 4, a) EXCEPT !.halted = FALSE, !.iff1 = i1, !.iff2 = i2,
             !.irq_seq = "NONE", !.srst_m1 = SresN(in)]

Finishing(in) ==
  /\ MayEnd(EffExec, Disp, r.m_cycle, r.im)
  /\ MayGoOn(EffExec, Disp, r.m_cycle, r.im) => in.ends

Execute(n, in) ==
  IF EffExec \in Prefixes THEN ExecPrefix(n)
  ELSE IF Finishing(in) THEN ExecFin(n, in) ELSE ExecGoOn(n, in)

\* mutant: a grant also ahead of the T-states that extend an M-cycle
GrantsAhead(n, in) == [n EXCEPT !.bus_granted = in.busreq]

\* BUSREQ low on the edge that started an M-cycle's last T-state.
Arbitrated(n, in) ==
  [n EXCEPT !.bus_granted = in.busreq /\ ~(n.bus_op = "INTERNAL" /\ n.m_len <= 2)]

Sequenced(n, in) ==
  IF r.rst_idle THEN IF r.res2 THEN n ELSE Restarted(n)
  ELSE IF r.bus_granted THEN [n EXCEPT !.bus_granted = in.busreq]
  ELSE IF Stall(in) THEN n
  ELSE IF ~MEnd THEN Latched([n EXCEPT !.t_state = @ + 1], in)
  ELSE Arbitrated(Execute(n, in), in)

\* RES2 was set on the falling edge before: no T-state follows this one.
Reset(n) ==
  IF ~r.res2 THEN n
  ELSE [n EXCEPT !.rst_idle = TRUE, !.pc = 0, !.prefix = "NONE",
          !.iff1 = FALSE, !.iff2 = FALSE, !.im = 0, !.halted = FALSE, !.irq_seq = "NONE",
          !.suppress_decode = FALSE, !.im0_ins = FALSE, !.nmi_pending = FALSE,
          !.bus_granted = FALSE, !.srst_m1 = FALSE, !.in_tw = FALSE, !.pend = 0]

\* The defaults of the always block: what each edge takes from its inputs.
Held(in) ==
  [r EXCEPT !.res2 = Res2N(in), !.sres = SresN(in),
            !.in_tw = Stall(in) /\ ~r.bus_granted,
            !.nmi_pending = NmiN(in), !.prev_nmi = in.nmi,
            !.prefix = IF Fire THEN "NONE" ELSE @,
            !.pend = IF Fire THEN 0 ELSE @,
            !.rd_hold = CutT1]

NextRegs(in) == Reset(Sequenced(Held(in), in))

-----------------------------------------------------------------------------
(***************************************************************************)
(* The pin images.                                                         *)
(***************************************************************************)
AddrNeg ==
  LET intCut == IntG /\ r.t_state = 1 /\ r.res2 /\ ~r.rst_idle
      hold   == r.bus_granted \/ r.rst_idle \/ (AddressHeld(r.bus_op, r.t_state) /\ ~intCut)
  IN IF hold THEN r.addr_hold
     ELSE IF RefreshAddress(r.bus_op, r.t_state) THEN <<"IR", 0>> ELSE r.m_addr

NegImage(in) ==
  LET idle == r.bus_granted \/ r.rst_idle
      io   == r.bus_op \in {"IORD", "IOWR"}
      cutTw   == Cut /\ io /\ r.t_state = 3
      cutInta == Cut /\ r.bus_op = "INTA" /\ r.t_state \in {3, 4}
      intMreq == IntG /\ r.t_state = 1 /\ ~r.res2 /\ Res2N(in) /\ ~idle
      tn(s)   == ~idle /\ Timed(s, r.bus_op, r.t_state, 1)
      low(s)  ==
        \/ s = "MREQ" /\ (CutT1 \/ intMreq \/ (tn(s) /\ ~CutT2))
        \/ s = "IORQ" /\ tn(s) /\ ~CutT1 /\ ~CutT2 /\ ~cutTw /\ ~cutInta
        \/ s = "RD"   /\ (CutT1 \/ (r.rst_idle /\ r.rd_hold /\ ~r.res2) \/ (tn(s) /\ ~CutT2 /\ ~cutTw))
        \/ s = "WR"   /\ tn(s) /\ ~CutT1 /\ ~CutT2 /\ ~cutTw
        \/ s \in {"M1", "RFSH"} /\ tn(s)
      inHaltM1 == /\ EffExec = "HALT"
                  /\ \/ r.bus_op = "M1"   /\ r.t_state = 4
                     \/ r.bus_op = "INTA" /\ r.t_state = 6
      exit     == r.t_state = r.m_len /\ (r.nmi_pending \/ (in.int /\ r.iff1))
  IN [strobes    |-> {s \in Strobes : low(s)},
      halt       |-> (r.halted \/ inHaltM1) /\ ~exit /\ ~Res2N(in) /\ ~SresN(in),
      busack     |-> r.bus_granted /\ in.busreq /\ ~r.res2,
      data       |-> ~idle /\ ~CutT1 /\ TimedData(r.bus_op, r.t_state, 1),
      addr       |-> AddrNeg,
      addr_drive |-> ~idle,
      ctl_drive  |-> ~r.bus_granted]

\* The high half of the T-state that the edge enters, from the next registers.
PosImage(n, in) ==
  LET idle == n.bus_granted \/ n.rst_idle
      intGn   == n.bus_op = "INTERNAL" /\ n.m_len > 2
      intMreq == intGn /\ n.t_state = 2 /\ n.res2 /\ ~n.rst_idle
      intCut  == intGn /\ n.t_state = 1 /\ n.res2 /\ ~n.rst_idle
      ioCut   == n.res2 /\ ~n.rst_idle /\ n.t_state = 2 /\ n.bus_op \in {"IORD", "IOWR"}
      holdWr  == Stall(in) /\ r.bus_op = "MWR"
      tp(s)   == ~idle /\ Timed(s, n.bus_op, n.t_state, 0)
      low(s)  ==
        \/ s = "MREQ" /\ (intMreq \/ tp(s))
        \/ s = "IORQ" /\ tp(s) /\ ~ioCut
        \/ s = "RD"   /\ (CutT1 \/ (r.rst_idle /\ r.rd_hold /\ ~r.res2) \/ (tp(s) /\ ~ioCut))
        \/ s = "WR"   /\ (tp(s) \/ (holdWr /\ ~idle)) /\ ~ioCut
        \/ s \in {"M1", "RFSH"} /\ tp(s)
      hold    == idle \/ (AddressHeld(n.bus_op, n.t_state) /\ ~intCut)
  IN [strobes    |-> {s \in Strobes : low(s)},
      halt       |-> n.halted /\ ~n.res2 /\ ~n.sres,
      busack     |-> n.bus_granted,
      data       |-> ~idle /\ TimedData(n.bus_op, n.t_state, 0),
      addr       |-> IF hold THEN AddrNeg
                     ELSE IF RefreshAddress(n.bus_op, n.t_state) THEN <<"IR", 0>> ELSE n.m_addr,
      addr_drive |-> ~idle,
      ctl_drive  |-> ~n.bus_granted]

\* The two clock edges. Only the pins change on the falling one.
Posedge(in) ==
  \E n \in {NextRegs(in)} :
    r' = [n EXCEPT !.addr_hold = AddrNeg] /\ image' = PosImage(n, in)

Negedge(in) == r' = r /\ image' = NegImage(in)
=============================================================================
