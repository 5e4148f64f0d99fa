------------------------- MODULE Z80Lockstep_proofs -------------------------
(***************************************************************************)
(* Proofs about the two cores in lockstep, for every set of pins, every    *)
(* set of opcodes and every size of the address space.                     *)
(***************************************************************************)
EXTENDS Z80Lockstep, Z80Pins_proofs

(***************************************************************************)
(* What the phase engine keeps and the comparison needs: where WAIT was    *)
(* looked at, which M-cycles are opcode fetches, and what may be under way *)
(* in one.                                                                 *)
(***************************************************************************)
ShapeInv ==
  /\ stalled => phi = 1 /\ ~rst_idle /\ ~bus_granted /\ WaitSample(bus_op, t_state, 1)
  /\ im0_ins => im = 0 /\ ~rst_idle /\ bus_op # "M1"
  /\ ~rst_idle /\ m_cycle = 1 => bus_op \in {"M1", "INTA"}
  /\ srst_m1 => prefix = "NONE"
  /\ srst_m1 \/ suppress_decode => ~rst_idle /\ bus_op = "M1" /\ t_state <= 2
  /\ rst_idle => ~bus_granted /\ ~nmi_resp /\ ~in_tw /\ prefix = "NONE"
  /\ in_tw => WaitSample(bus_op, t_state, 1)

(***************************************************************************)
(* How the two cores' registers stand to each other, in both halves of a   *)
(* T-state.                                                                *)
(***************************************************************************)
Fields ==
  {"t_state", "m_cycle", "bus_op", "m_len", "m_addr", "prefix", "ir", "pc", "iff1", "iff2",
   "im", "halted", "nmi_pending", "prev_nmi", "suppress_decode", "bus_granted", "irq_seq",
   "im0_ins", "res2", "sres", "rst_idle", "srst_m1", "rd_hold", "in_tw", "pend", "addr_hold"}

\* The ring: in the reset idle each has its own.
SameRing ==
  ~rst_idle =>
    /\ r.t_state = t_state /\ r.m_cycle = m_cycle
    /\ r.bus_op = bus_op /\ r.m_len = m_len /\ r.m_addr = m_addr

SameRegs ==
  /\ r.pc = pc /\ r.iff1 = iff1 /\ r.iff2 = iff2 /\ r.im = im /\ r.halted = halted
  /\ r.suppress_decode = suppress_decode /\ r.im0_ins = im0_ins /\ r.srst_m1 = srst_m1
  /\ r.bus_granted = bus_granted
  /\ rst_idle \/ t_state # 1 => r.in_tw = in_tw
  /\ r.res2 = res2 /\ r.sres = sres /\ r.rst_idle = rst_idle
  /\ rst_idle => r.rd_hold = rd_hold

\* A prefix outlives its instruction until the writes left to the next fetch
\* land, in its T1 or its T2.
SamePrefix ==
  /\ r.pend \in 0 .. 2
  /\ r.pend = 0 => r.prefix = prefix
  /\ r.pend # 0 =>
       /\ prefix = "NONE" /\ ~rst_idle /\ bus_op \in {"M1", "INTA"}
       /\ t_state <= r.pend /\ (t_state = 2 => ~in_tw)

\* A response or the halt state is in exec from its start; an instruction is
\* from its opcode's latch.
InFetch == bus_op = "M1" /\ t_state <= 2
SameExec ==
  /\ r.irq_seq \in {"NONE", "NMI", "INT", "HALT"}
  /\ rst_idle => r.irq_seq = "NONE"
  /\ nmi_resp <=> r.irq_seq = "NMI"
  /\ r.irq_seq = "NMI"  => exec = "NMI" /\ ~disp /\ bus_op # "INTA"
  /\ r.irq_seq = "INT"  => exec = "INT" /\ ~disp /\ bus_op # "M1"
  /\ r.irq_seq = "HALT" => exec = "NOP" /\ ~disp /\ bus_op # "INTA"
  /\ ~rst_idle /\ r.irq_seq = "NONE" =>
       /\ Decoded => Rtl!ExecW = exec /\ disp = UsesDisp(r.prefix, exec)
       /\ bus_op = "INTA" => im = 0
  /\ ~rst_idle /\ InFetch => (suppress_decode <=> r.irq_seq # "NONE")

\* The flip-flops. As a rising edge leaves them they are one; the C model has
\* taken an edge of the high half where the RTL has not yet. What RES2 does to
\* it each does in its own time.
Deciding == ~rst_idle /\ ~bus_granted /\ t_state = m_len
SameNmi ==
  /\ r.nmi_pending \in BOOLEAN /\ r.prev_nmi \in BOOLEAN
  /\ phi = 0 => r.prev_nmi = prev_nmi
  /\ ~res2 =>
       /\ phi = 0 => r.nmi_pending = nmi_pending
       /\ phi = 1 => (nmi_pending <=> (r.nmi_pending \/ (prev_nmi /\ ~r.prev_nmi)) /\ ~nmi_resp)
       /\ Deciding => r.nmi_pending = nmi_sampled

\* The address bus: the RTL remembers what it put out in the low half before.
HoldsAddress ==
  rst_idle \/ bus_granted \/ (AddressHeld(bus_op, t_state) /\ ~IntCut(bus_op, m_len, t_state, res2))
SameAddr ==
  /\ phi = 0 /\ HoldsAddress => r.addr_hold = addr
  /\ phi = 1 => addr = Rtl!AddrNeg

LockInv ==
  /\ DOMAIN r = Fields
  /\ SameRing /\ SameRegs /\ SamePrefix /\ SameExec /\ SameNmi /\ SameAddr

\* The bus-timing tables the RTL's module instantiates are the phase engine's.
LEMMA SameBus ==
  /\ Rtl!BusOps = BusOps /\ Rtl!BaseLen = BaseLen /\ Rtl!Strobes = Strobes
  /\ \A s, b, t, p : Rtl!Timed(s, b, t, p) <=> Timed(s, b, t, p)
  /\ \A b, t, p : Rtl!TimedData(b, t, p) <=> TimedData(b, t, p)
  /\ \A b, t : Rtl!RefreshAddress(b, t) <=> RefreshAddress(b, t)
  /\ \A b, t, p : Rtl!WaitSample(b, t, p) <=> WaitSample(b, t, p)
  /\ \A b, t, p : Rtl!OpcodeLatch(b, t, p) <=> OpcodeLatch(b, t, p)
  /\ \A b, t : Rtl!AddressHeld(b, t) <=> AddressHeld(b, t)
<1>1. Rtl!BusOps = BusOps /\ Rtl!BaseLen = BaseLen /\ Rtl!Strobes = Strobes
  BY DEF BusOps, BaseLen, Strobes, Rtl!BusOps, Rtl!BaseLen, Rtl!Strobes
<1>2. Rtl!Window = Window
  BY <1>1 DEF Rtl!Window, Window, Rtl!BusOps, BusOps, Rtl!Strobes, Strobes
<1>3. \A s, b, t, p : Rtl!Timed(s, b, t, p) <=> Timed(s, b, t, p)
  BY <1>2 DEF Rtl!Timed, Timed, Rtl!Half, Half
<1> QED
  BY <1>1, <1>3 DEF Rtl!TimedData, TimedData, Rtl!Half, Half, Rtl!RefreshAddress, RefreshAddress,
     Rtl!WaitSample, WaitSample, Rtl!OpcodeLatch, OpcodeLatch, Rtl!AddressHeld, AddressHeld

\* So are the M-cycle templates of the instruction classes.
LEMMA SameTemplates ==
  /\ Rtl!Template = Template
<1>1. Rtl!Groups = Groups
  BY DEF Rtl!Groups, Groups, Rtl!SingleCycle, SingleCycle, Rtl!IndexedBit, IndexedBit,
   Rtl!Extended, Extended, Rtl!Byte, Byte, Rtl!Word, Word, Rtl!Relative, Relative, Rtl!Stack, Stack,
   Rtl!InputOutput, InputOutput, Rtl!Extras, Extras, Rtl!Block, Block, Rtl!Response, Response,
   Rtl!Operand, Operand, Rtl!Read, Read, Rtl!Write, Write, Rtl!Input, Input, Rtl!Output, Output,
   Rtl!Internal, Internal, Rtl!Long, Long, Rtl!NoMore, NoMore
<1>2. Rtl!Prefixes = Prefixes
  BY DEF Rtl!Prefixes, Prefixes
<1>3. Rtl!Classes = Classes
  BY <1>1, <1>2 DEF Rtl!Classes, Classes
<1>4. Rtl!Template = Template
  BY <1>1, <1>2, <1>3 DEF Rtl!Template, Template, Rtl!NoMore, NoMore
<1> QED BY <1>4

\* So is what an instruction does at its M-cycles' ends.
LEMMA SameDecode ==
  /\ Rtl!Prefixes = Prefixes /\ Rtl!Operand = Operand
  /\ \A ex, d : Rtl!Cycles(ex, d) = Cycles(ex, d)
  /\ \A ex, d, m, i : Rtl!MayEnd(ex, d, m, i) <=> MayEnd(ex, d, m, i)
  /\ \A ex, d, m, i : Rtl!MayGoOn(ex, d, m, i) <=> MayGoOn(ex, d, m, i)
  /\ Rtl!LoadsAtEnd = LoadsAtEnd /\ Rtl!MayLoadAtEnd = MayLoadAtEnd
  /\ Rtl!LoadsGoingOn = LoadsGoingOn /\ Rtl!Repeats = Repeats
  /\ \A p, ex : Rtl!UsesDisp(p, ex) <=> UsesDisp(p, ex)
  /\ \A p, ex : Rtl!PrefixAfter(p, ex) = PrefixAfter(p, ex)
  /\ \A ex, m : Rtl!Deferred(ex, m) = Deferred(ex, m)
<1>1. /\ Rtl!Prefixes = Prefixes /\ Rtl!Operand = Operand
      /\ Rtl!LoadsAtEnd = LoadsAtEnd /\ Rtl!MayLoadAtEnd = MayLoadAtEnd
      /\ Rtl!LoadsGoingOn = LoadsGoingOn /\ Rtl!Repeats = Repeats
      /\ Rtl!Conditional = Conditional
  BY DEF Rtl!Prefixes, Prefixes, Rtl!Operand, Operand, Rtl!LoadsAtEnd, LoadsAtEnd,
         Rtl!MayLoadAtEnd, MayLoadAtEnd, Rtl!LoadsGoingOn, LoadsGoingOn, Rtl!Repeats, Repeats,
         Rtl!Conditional, Conditional
<1>2. \A ex, d : Rtl!Cycles(ex, d) = Cycles(ex, d)
  BY SameTemplates DEF Rtl!Cycles, Cycles, Rtl!Operand, Operand, Rtl!Write, Write, Rtl!Long, Long,
     Rtl!Internal, Internal
<1>3. /\ \A ex, d, m, i : Rtl!MayEnd(ex, d, m, i) <=> MayEnd(ex, d, m, i)
      /\ \A ex, d, m, i : Rtl!MayGoOn(ex, d, m, i) <=> MayGoOn(ex, d, m, i)
  BY <1>1, <1>2 DEF Rtl!MayEnd, MayEnd, Rtl!MayGoOn, MayGoOn
<1>4. /\ \A p, ex : Rtl!UsesDisp(p, ex) <=> UsesDisp(p, ex)
      /\ \A p, ex : Rtl!PrefixAfter(p, ex) = PrefixAfter(p, ex)
  BY DEF Rtl!UsesDisp, UsesDisp, Rtl!PrefixAfter, PrefixAfter
<1>5. \A ex, m : Rtl!Deferred(ex, m) = Deferred(ex, m)
  BY DEF Rtl!Deferred, Deferred, Rtl!AluClasses, AluClasses
<1> QED BY <1>1, <1>2, <1>3, <1>4, <1>5

\* The registers every rising edge writes, and those a new M-cycle, a reset,
\* an opcode's latch and an instruction's end write.
HeldFields == {"res2", "sres", "in_tw", "nmi_pending", "prev_nmi", "prefix", "pend", "rd_hold"}

\* What every rising edge writes, whatever else it does.
LEMMA HeldIs ==
  ASSUME DOMAIN r = Fields, NEW in
  PROVE  LET h == Rtl!Held(in)
         IN /\ DOMAIN h = Fields
            /\ \A f \in Fields \ HeldFields : h[f] = r[f]
            /\ h.res2 = Rtl!Res2N(in) /\ h.sres = Rtl!SresN(in)
            /\ h.in_tw = (Rtl!Stall(in) /\ ~r.bus_granted)
            /\ h.nmi_pending = Rtl!NmiN(in) /\ h.prev_nmi = in.nmi
            /\ h.prefix = IF Rtl!Fire THEN "NONE" ELSE r.prefix
            /\ h.pend = IF Rtl!Fire THEN 0 ELSE r.pend
            /\ h.rd_hold = Rtl!CutT1
  BY DEF Rtl!Held, Fields, HeldFields

FetchFields == {"bus_op", "m_len", "m_addr", "t_state", "m_cycle"}

\* The next fetch: the ring is set, and nothing else.
LEMMA FetchIs ==
  ASSUME NEW n, DOMAIN n = Fields, NEW b, NEW len, NEW a
  PROVE  LET m == Rtl!Fetch(n, b, len, a)
         IN /\ DOMAIN m = Fields
            /\ \A f \in Fields \ FetchFields : m[f] = n[f]
            /\ m.bus_op = b /\ m.m_len = len /\ m.m_addr = <<"PC", a>>
            /\ m.t_state = 1 /\ m.m_cycle = 1
  BY DEF Rtl!Fetch, Fields, FetchFields

\* The next M-cycle: the ring is set, and nothing else.
LEMMA StartIs ==
  ASSUME NEW n, DOMAIN n = Fields, NEW c
  PROVE  LET m == Rtl!Start(n, c)
         IN /\ DOMAIN m = Fields
            /\ \A f \in Fields \ FetchFields : m[f] = n[f]
            /\ m.bus_op = c.bus /\ m.m_len = Rtl!BaseLen[c.bus] + c.extra
            /\ m.m_addr = IF c.src = "PC" THEN <<"PC", r.pc>> ELSE <<"REG", r.m_cycle + 1>>
            /\ m.t_state = 1 /\ m.m_cycle = r.m_cycle + 1
  BY DEF Rtl!Start, Fields, FetchFields

ResetFields ==
  {"rst_idle", "pc", "prefix", "iff1", "iff2", "im", "halted", "irq_seq", "suppress_decode",
   "im0_ins", "nmi_pending", "bus_granted", "srst_m1", "in_tw", "pend"}

\* A rising edge under RES2 clears what the reset idle starts from.
LEMMA ResetIs ==
  ASSUME NEW n, DOMAIN n = Fields, r.res2
  PROVE  LET m == Rtl!Reset(n)
         IN /\ DOMAIN m = Fields
            /\ \A f \in Fields \ ResetFields : m[f] = n[f]
            /\ m.rst_idle = TRUE /\ m.pc = 0 /\ m.prefix = "NONE" /\ m.iff1 = FALSE
            /\ m.iff2 = FALSE /\ m.im = 0 /\ m.halted = FALSE /\ m.irq_seq = "NONE"
            /\ m.suppress_decode = FALSE /\ m.im0_ins = FALSE /\ m.nmi_pending = FALSE
            /\ m.bus_granted = FALSE /\ m.srst_m1 = FALSE /\ m.in_tw = FALSE /\ m.pend = 0
  BY DEF Rtl!Reset, Fields, ResetFields

-----------------------------------------------------------------------------
(***************************************************************************)
(* The phase engine's part.                                                *)
(***************************************************************************)
\* What an M-cycle that follows the opcode's leaves of ShapeInv.
LEMMA GoesOnShape ==
  ASSUME TypeInv, GoesOn
  PROVE  bus_op' \notin {"M1", "INTA"} /\ m_cycle' # 1
<1>1. Cycles(exec, disp) \in Short
  BY CyclesShort DEF TypeInv, ExecType
<1>2. Cycles(exec, disp)[m_cycle] \in GoodCycle
  BY <1>1 DEF GoesOn, MayGoOn, TypeInv, RingType, Short
<1>3. m_cycle \in 1 .. 6
  BY DEF TypeInv, RingType
<1> QED BY <1>2, <1>3 DEF GoesOn, StartMCycle, GoodCycle

\* Each action of the phase engine keeps ShapeInv.
LEMMA ShapeInvStep ==
  ASSUME TypeInv, GrantBetweenMCycles, ShapeInv, [Next]_vars
  PROVE  ShapeInv'
<1>1. CASE FallingEdge
  <2>1. /\ phi' = 1
        /\ UNCHANGED <<t_state, bus_op, m_cycle, prefix, im, im0_ins, suppress_decode, srst_m1,
                       nmi_resp, in_tw, bus_granted, rst_idle>>
        /\ stalled' => ~rst_idle /\ ~bus_granted /\ WaitSample(bus_op, t_state, 1)
    BY <1>1 DEF FallingEdge, ring, enables, fetch, grant, reset
  <2> QED BY <2>1 DEF ShapeInv
<1>2. CASE Granted \/ WaitState
  <2>1. /\ ~stalled' /\ ~rst_idle /\ ~rst_idle' /\ (in_tw' => stalled)
        /\ UNCHANGED <<t_state, bus_op, m_cycle, prefix, im, im0_ins, suppress_decode, srst_m1>>
    BY <1>2 DEF Granted, WaitState, Running, RisingEdge, ring, enables, fetch
  <2> QED BY <2>1 DEF ShapeInv
<1>3. CASE NextTState
  <2>1. /\ ~stalled' /\ ~in_tw' /\ ~rst_idle /\ ~rst_idle' /\ t_state' = t_state + 1
        /\ bus_op = "M1" => t_state' # 3
        /\ UNCHANGED <<bus_op, m_cycle, prefix, im, im0_ins, suppress_decode, srst_m1>>
    BY <1>3 DEF NextTState, Ticks, Running, RisingEdge, NextT, OpcodeLatch, enables, fetch
  <2>2. t_state \in Int
    BY DEF TypeInv, RingType
  <2> QED BY <2>1, <2>2 DEF ShapeInv
<1>4. CASE LatchM1
  <2>1. /\ ~stalled' /\ ~in_tw' /\ ~rst_idle' /\ ~rst_idle
        /\ ~srst_m1' /\ ~suppress_decode'
        /\ UNCHANGED <<bus_op, m_cycle, prefix, im, im0_ins>>
    BY <1>4 DEF LatchM1, Ticks, Running, RisingEdge, NextT, enables
  <2> QED BY <2>1 DEF ShapeInv
<1>5. CASE LatchINTA
  <2>1. /\ ~stalled' /\ ~in_tw' /\ ~rst_idle' /\ ~rst_idle /\ bus_op = "INTA"
        /\ im0_ins' => im0_ins \/ im = 0
        /\ UNCHANGED <<bus_op, m_cycle, prefix, im, srst_m1, suppress_decode>>
    BY <1>5 DEF LatchINTA, Ticks, Running, RisingEdge, NextT, enables
  <2> QED BY <2>1 DEF ShapeInv
<1>6. EndsMCycle => ~(bus_op = "M1" /\ t_state <= 2)
  BY DEF EndsMCycle, TypeInv, RingType
<1>7. CASE NextMCycle
  <2>1. /\ ~stalled' /\ ~in_tw' /\ ~rst_idle' /\ ~rst_idle /\ EndsMCycle
        /\ GoesOn
        /\ UNCHANGED <<prefix, im, im0_ins, srst_m1, suppress_decode>>
    BY <1>7 DEF NextMCycle, Ticks, Running, RisingEdge, GoesOn, enables, fetch
  <2> QED BY <1>6, <2>1, GoesOnShape DEF ShapeInv
<1>8. CASE NextPrefix
  <2>1. /\ ~stalled' /\ ~in_tw' /\ ~rst_idle' /\ ~rst_idle /\ EndsMCycle
        /\ GoesOnPrefix
        /\ UNCHANGED <<im, im0_ins, srst_m1, suppress_decode>>
    BY <1>8 DEF NextPrefix, Ticks, Running, RisingEdge, GoesOnPrefix, enables, fetch
  <2>2. CASE bus_op' \in {"M1", "INTA"}
    <3>1. bus_op' = "M1" => ~im0_ins
      BY <2>1, <2>2 DEF GoesOnPrefix, StartFetch, StartMCycle, Operand
    <3> QED BY <1>6, <2>1, <2>2, <3>1 DEF ShapeInv
  <2>3. CASE bus_op' \notin {"M1", "INTA"}
    <3>1. m_cycle' # 1
      BY <2>1, <2>3 DEF GoesOnPrefix, StartFetch, StartMCycle, TypeInv, RingType
    <3> QED BY <1>6, <2>1, <2>3, <3>1 DEF ShapeInv
  <2> QED BY <2>2, <2>3
<1>9. CASE AcceptNMI \/ AcceptINT \/ HaltNOP \/ NextInstruction
  <2>1. /\ ~stalled' /\ ~in_tw' /\ ~rst_idle' /\ ~rst_idle /\ EndsMCycle
        /\ ~im0_ins' /\ prefix' = "NONE"
    BY <1>9 DEF AcceptNMI, AcceptINT, HaltNOP, NextInstruction, EndInstruction, Ticks, Running,
                RisingEdge, StartNMI, StartINT, StartHalt, StartNext, Finishes
  <2>2. t_state' = 1 /\ bus_op' \in {"M1", "INTA"}
    BY <1>9 DEF AcceptNMI, AcceptINT, HaltNOP, NextInstruction, StartNMI, StartINT, StartHalt,
                StartNext, StartFetch
  <2>3. srst_m1' \/ suppress_decode' => bus_op' = "M1" \/ srst_m1 \/ suppress_decode
    BY <1>9 DEF AcceptNMI, AcceptINT, HaltNOP, NextInstruction, StartNMI, StartINT, StartHalt,
                StartNext, StartFetch
  <2> QED BY <1>6, <2>1, <2>2, <2>3 DEF ShapeInv
<1>10. CASE Cut \/ ResetHold
  <2>1. ~stalled' /\ rst_idle' /\ ~im0_ins' /\ ~srst_m1' /\ ~suppress_decode' /\ ~bus_granted'
        /\ ~nmi_resp' /\ ~in_tw' /\ prefix' = "NONE"
    BY <1>10 DEF Cut, ResetHold, EnterResetIdle, RisingEdge
  <2> QED BY <2>1 DEF ShapeInv
<1>11. CASE Restart
  <2>1. /\ ~stalled' /\ ~rst_idle' /\ rst_idle /\ bus_op' = "M1"
        /\ UNCHANGED <<prefix, im, im0_ins, suppress_decode, srst_m1>>
    BY <1>11 DEF Restart, RisingEdge, StartFetch, enables, fetch
  <2>2. ~im0_ins /\ ~in_tw'
    BY <1>11, <2>1 DEF ShapeInv, Restart
  <2> QED BY <2>1, <2>2 DEF ShapeInv
<1>12. CASE UNCHANGED vars
  BY <1>12 DEF vars, ring, enables, fetch, nmi, waits, grant, reset, ShapeInv
<1> QED BY <1>1, <1>2, <1>3, <1>4, <1>5, <1>7, <1>8, <1>9, <1>10, <1>11, <1>12 DEF Next

\* ShapeInv holds from reset on.
LEMMA ShapeInvHolds == Spec => []ShapeInv
<1>1. Init => ShapeInv
  BY DEF Init, ShapeInv
<1>2. TypeInv /\ GrantBetweenMCycles /\ ShapeInv /\ [Next]_vars => ShapeInv'
  BY ShapeInvStep
<1> QED BY <1>1, <1>2, TypeInvHolds, GrantSafe, PTL DEF Spec

\* What the RTL reads in a half T-state is what the phase engine reads or chooses.
LEMMA InputsAre ==
  ASSUME NEW in \in Inputs
  PROVE  /\ in.res = res_s /\ in.busreq = busreq_s
         /\ in.nmi_neg = prev_nmi /\ in.nmi = prev_nmi'
         /\ in.int \in IntRise /\ in.wait \in WaitNeg /\ in.byte \in Bytes
         /\ in.ends = (m_cycle' = 1) /\ in.mode = im'
         /\ in.target = IF m_cycle' = 1 THEN m_addr'[2] ELSE pc'
  BY DEF Inputs

\* The RTL's address of the low half, from the registers both share.
LEMMA AddrNegIs ==
  ASSUME TypeInv, SameRing, SameRegs
  PROVE  Rtl!AddrNeg = IF HoldsAddress THEN r.addr_hold ELSE CycleAddress
<1>1. CASE rst_idle \/ bus_granted
  BY <1>1 DEF Rtl!AddrNeg, SameRegs, HoldsAddress
<1>2. CASE ~rst_idle /\ ~bus_granted
  <2>1. m_len \in Int
    BY DEF TypeInv, RingType
  <2> QED
  BY <1>2, <2>1, SameBus DEF Rtl!AddrNeg, Rtl!IntG, Rtl!Ext, SameRing, SameRegs, HoldsAddress, IntCut,
     CycleAddress, AddressHeld
<1> QED BY <1>1, <1>2

\* What the falling edge leaves alone.
LEMMA FallingKeeps ==
  ASSUME FallingEdge
  PROVE  /\ phi = 0 /\ phi' = 1
         /\ UNCHANGED <<t_state, bus_op, m_len, m_cycle, m_addr, exec, disp, pc, prefix, iff1, iff2,
                        im, halted, im0_ins, suppress_decode, srst_m1, nmi_resp, nmi_sampled,
                        int_sampled, in_tw, busreq_s, bus_granted, res_s, res2, sres, rst_idle,
                        rd_hold>>
  BY DEF FallingEdge, ring, enables, fetch, samples, grant, reset

\* The falling edge writes none of the RTL's registers, and LockInv survives it.
LEMMA FallingLock ==
  ASSUME TypeInv, ShapeInv, LockInv, FallingEdge, NEW in, Rtl!Negedge(in)
  PROVE  LockInv'
<1>1. r' = r
  BY DEF Rtl!Negedge
<1>2. (DOMAIN r = Fields)' /\ SameRing' /\ SameRegs' /\ SamePrefix'
  BY <1>1, FallingKeeps DEF LockInv, SameRing, SameRegs, SamePrefix
<1>3. SameExec'
  <2>1. Rtl!ExecW' = Rtl!ExecW
    BY <1>1 DEF Rtl!ExecW
  <2>2. Decoded' <=> Decoded
    BY FallingKeeps DEF Decoded
  <2> QED BY <1>1, <2>1, <2>2, FallingKeeps DEF LockInv, SameExec, InFetch
<1>4. SameNmi'
  <2>1. r.nmi_pending \in BOOLEAN /\ r.prev_nmi \in BOOLEAN
    BY DEF LockInv, SameNmi
  <2>2. ~res2 => r.nmi_pending = nmi_pending /\ r.prev_nmi = prev_nmi
    BY FallingKeeps DEF LockInv, SameNmi
  <2>3. ~res2' => (nmi_pending' <=> (r.nmi_pending \/ (prev_nmi' /\ ~r.prev_nmi)) /\ ~nmi_resp')
    <3>1. NmiPin(FALSE)
      BY DEF FallingEdge
    <3>2. nmi_pending' <=> (nmi_pending \/ (prev_nmi' /\ ~prev_nmi /\ ~res2)) /\ ~nmi_resp /\ ~nmi_resp'
      BY <3>1 DEF NmiPin
    <3> QED BY <2>2, <3>2, FallingKeeps
  <2>4. ~res2' /\ Deciding' => r.nmi_pending = nmi_sampled'
    BY FallingKeeps DEF LockInv, SameNmi, Deciding
  <2> QED BY <1>1, <2>1, <2>3, <2>4, FallingKeeps DEF SameNmi
<1>5. SameAddr'
  <2>1. Rtl!AddrNeg' = IF HoldsAddress THEN r.addr_hold ELSE CycleAddress
    <3>1. Rtl!AddrNeg' = Rtl!AddrNeg
      BY <1>1 DEF Rtl!AddrNeg, Rtl!IntG, Rtl!Ext
    <3> QED BY <3>1, AddrNegIs DEF LockInv
  <2>2. addr' = IF HoldsAddress THEN addr ELSE CycleAddress
    <3>1. DriveAddress
      BY DEF FallingEdge
    <3> QED BY <3>1, FallingKeeps DEF DriveAddress, HoldsAddress, CycleAddress, AddressHeld,
               RefreshAddress, IntCut
  <2>3. HoldsAddress => r.addr_hold = addr
    BY FallingKeeps DEF LockInv, SameAddr
  <2> QED BY <2>1, <2>2, <2>3, FallingKeeps DEF SameAddr
<1> QED BY <1>2, <1>3, <1>4, <1>5 DEF LockInv

\* The pins' image is the phase engine's if its parts are.
LEMMA ImagesAgree ==
  ASSUME NEW i, i = [strobes |-> i.strobes, halt |-> i.halt, busack |-> i.busack, data |-> i.data,
                     addr |-> i.addr, addr_drive |-> i.addr_drive, ctl_drive |-> i.ctl_drive],
         image' = i, i.strobes \subseteq Strobes,
         \A s \in Strobes : s # "WR" \/ ~StrayWrite' => (s \in i.strobes <=> Low(s)'),
         StrayWrite' => ~Low("WR")',
         ~rst_idle' /\ ~res2' => i.halt = HaltLow',
         i.busack = BusackLow', i.data = DataDriven', i.addr = addr',
         i.addr_drive = AddressDriven', i.ctl_drive = ControlDriven'
  PROVE  PinsAgree'
<1> DEFINE low == IF StrayWrite' THEN i.strobes \ {"WR"} ELSE i.strobes
           j   == IF rst_idle' \/ res2' THEN [i EXCEPT !.halt = HaltLow'] ELSE i
<1>1. low = {s \in Strobes : Low(s)}'
  OBVIOUS
<1>2. RtlImage' = j
  BY DEF RtlImage
<1> HIDE DEF low
<1>3. j = [strobes |-> i.strobes, halt |-> HaltLow', busack |-> i.busack, data |-> i.data,
           addr |-> i.addr, addr_drive |-> i.addr_drive, ctl_drive |-> i.ctl_drive]
  OBVIOUS
<1> HIDE DEF j
<1>4. [j EXCEPT !.strobes = IF StrayWrite' THEN @ \ {"WR"} ELSE @]
        = [strobes |-> low, halt |-> HaltLow', busack |-> i.busack, data |-> i.data,
           addr |-> i.addr, addr_drive |-> i.addr_drive, ctl_drive |-> i.ctl_drive]
  BY <1>3 DEF low
<1> QED BY <1>1, <1>2, <1>4 DEF PinsAgree, CImage

\* The strobes in each half of a T-state, in and out of a cut.
CutNow == res2 /\ ~Extension
SlowIO == bus_op \in {"IORD", "IOWR"}

LowInN(s) ==
  \/ s = "RD" /\ rst_idle /\ rd_hold /\ ~res2
  \/ /\ ~rst_idle /\ ~bus_granted
     /\ \/ s \in {"MREQ", "RD"} /\ CutNow /\ t_state = 1
        \/ s = "MREQ" /\ ~CutNow /\ LongInternal /\ t_state = 1 /\ Res2Now
        \/ /\ Timed(s, bus_op, t_state, 1)
           /\ CutNow /\ s \in Requests =>
                /\ t_state \notin {1, 2}
                /\ ~(t_state = 3 /\ SlowIO /\ s # "MREQ")
                /\ ~(t_state \in {3, 4} /\ bus_op = "INTA" /\ s = "IORQ")

LowInP(s) ==
  \/ s = "RD" /\ rd_hold /\ ~(~rst_idle /\ bus_granted)
  \/ /\ ~rst_idle /\ ~bus_granted
     /\ \/ s = "MREQ" /\ CutNow /\ ~rd_hold /\ LongInternal /\ t_state = 2
        \/ /\ Undisturbed(s)
           /\ ~(CutNow /\ ~rd_hold /\ t_state = 2 /\ SlowIO /\ s \in {"IORQ", "RD", "WR"})

\* Which strobes a special reset's cut leaves low in the low half.
LEMMA InCutN ==
  ASSUME NEW s \in Strobes, phi = 1
  PROVE  InCut(s) <=>
           \/ s \in {"MREQ", "RD"} /\ t_state = 1
           \/ /\ Undisturbed(s)
              /\ s \in Requests =>
                   /\ t_state \notin {1, 2}
                   /\ ~(t_state = 3 /\ SlowIO /\ s # "MREQ")
                   /\ ~(t_state \in {3, 4} /\ bus_op = "INTA" /\ s = "IORQ")
<1>1. CASE t_state = 1
  BY <1>1 DEF InCut, Requests, Strobes
<1>2. CASE t_state = 2
  BY <1>2 DEF InCut, Requests, Strobes
<1>3. CASE t_state = 3 /\ SlowIO /\ s \in {"IORQ", "RD", "WR"}
  BY <1>3 DEF InCut, Requests, SlowIO
<1>4. CASE t_state \in {3, 4} /\ bus_op = "INTA" /\ s = "IORQ"
  BY <1>4 DEF InCut, Requests, SlowIO
<1>5. CASE /\ t_state \notin {1, 2}
           /\ ~(t_state = 3 /\ SlowIO /\ s \in {"IORQ", "RD", "WR"})
           /\ ~(t_state \in {3, 4} /\ bus_op = "INTA" /\ s = "IORQ")
  BY <1>5 DEF InCut, Requests, SlowIO
<1> QED BY <1>1, <1>2, <1>3, <1>4, <1>5

\* Which it leaves low in the high half.
LEMMA InCutP ==
  ASSUME NEW s \in Strobes, phi = 0
  PROVE  InCut(s) <=>
           \/ s = "MREQ" /\ LongInternal /\ t_state = 2
           \/ Undisturbed(s) /\ ~(t_state = 2 /\ SlowIO /\ s \in {"IORQ", "RD", "WR"})
<1>1. CASE t_state = 2 /\ SlowIO /\ s \in {"IORQ", "RD", "WR"}
  BY <1>1 DEF InCut, SlowIO
<1>2. CASE t_state = 2 /\ LongInternal /\ s = "MREQ"
  BY <1>2 DEF InCut, LongInternal
<1>3. CASE /\ ~(t_state = 2 /\ SlowIO /\ s \in {"IORQ", "RD", "WR"})
           /\ ~(t_state = 2 /\ LongInternal /\ s = "MREQ")
  BY <1>3 DEF InCut, SlowIO
<1> QED BY <1>1, <1>2, <1>3

\* The strobes low are those, in each half.
HalvesLow ==
  \A s \in Strobes : (phi = 1 => (Low(s) <=> LowInN(s))) /\ (phi = 0 => (Low(s) <=> LowInP(s)))

\* Low, taken apart by the half of the T-state.
LEMMA LowInHalves == HalvesLow
<1>1. ASSUME NEW s \in Strobes, phi = 1 PROVE Low(s) <=> LowInN(s)
  <2>1. Undisturbed(s) <=> Timed(s, bus_op, t_state, 1)
    BY <1>1 DEF Undisturbed, HoldWR
  <2>2. CASE rst_idle \/ bus_granted
    BY <1>1, <2>2 DEF Low, LowInN
  <2>3. CASE ~rst_idle /\ ~bus_granted /\ CutNow
    BY <1>1, <2>1, <2>3, InCutN DEF Low, LowInN, CutNow
  <2>4. CASE ~rst_idle /\ ~bus_granted /\ ~CutNow
    BY <1>1, <2>1, <2>4 DEF Low, LowInN, CutNow
  <2> QED BY <2>2, <2>3, <2>4
<1>2. ASSUME NEW s \in Strobes, phi = 0 PROVE Low(s) <=> LowInP(s)
  <2>2. CASE rst_idle \/ bus_granted
    BY <1>2, <2>2 DEF Low, LowInP
  <2>3. CASE ~rst_idle /\ ~bus_granted /\ CutNow
    BY <1>2, <2>3, InCutP DEF Low, LowInP, CutNow
  <2>4. CASE ~rst_idle /\ ~bus_granted /\ ~CutNow
    BY <1>2, <2>4 DEF Low, LowInP, CutNow
  <2> QED BY <2>2, <2>3, <2>4
<1> QED BY <1>1, <1>2 DEF HalvesLow

\* RES2 and the special-reset latch from the low half on.
LEMMA LatchesAgree ==
  ASSUME SameRing, SameRegs, NEW in, in.res = res_s
  PROVE  /\ Rtl!M1T2 <=> M1T2
         /\ Rtl!Res2N(in) = IF M1T2 THEN res2 ELSE res_s
         /\ Rtl!SresN(in) = (~Rtl!Res2N(in) /\ IF M1T2 THEN res_s ELSE sres)
<1>1. Rtl!M1T2 <=> M1T2
  BY DEF Rtl!M1T2, Rtl!M1Any, M1T2, SameRing, SameRegs
<1> QED BY <1>1 DEF Rtl!Res2N, Rtl!SresN, SameRegs

\* exec as the RTL decodes it, from the opcode's latch on.
LEMMA ExecAgrees ==
  ASSUME SameExec, ~rst_idle, Decoded
  PROVE  Rtl!EffExec = exec
<1>1. CASE r.irq_seq = "NONE"
  BY <1>1 DEF SameExec, Rtl!EffExec
<1>2. CASE r.irq_seq # "NONE"
  BY <1>2 DEF SameExec, Rtl!EffExec
<1> QED BY <1>1, <1>2

\* Where RES2 cuts an M-cycle, in the RTL's registers.
LEMMA CutsAgree ==
  ASSUME SameRing, SameRegs
  PROVE  /\ Rtl!Cut <=> res2 /\ ~rst_idle /\ ~bus_granted
         /\ Rtl!CutT1 <=> res2 /\ ~rst_idle /\ ~bus_granted /\ ~Extension /\ t_state = 1
         /\ Rtl!CutT2 <=> res2 /\ ~rst_idle /\ ~bus_granted /\ ~Extension /\ t_state = 2
  BY DEF SameRing, SameRegs, Rtl!Cut, Rtl!CutT1, Rtl!CutT2, Rtl!Ext, Extension

\* The bus is given away only at the start of an M-cycle longer than that.
LEMMA GrantedStart ==
  ASSUME TypeInv, GrantBetweenMCycles, LenInv
  PROVE  t_state = m_len => ~bus_granted
<1>1. \A b \in BusOps \ {"INTERNAL"} : BaseLen[b] >= 3
  BY DEF BaseLen, BusOps
<1>2. bus_op \in BusOps /\ m_len \in 1 .. 7 /\ (bus_op \in {"M1", "INTA"} => m_len >= 4)
  BY DEF TypeInv, RingType
<1>3. BaseLen[bus_op] \in Int
  BY <1>2 DEF BaseLen, BusOps
<1> QED BY <1>1, <1>2, <1>3 DEF GrantBetweenMCycles, LenInv, Extension

\* The pins of the low half: the image the RTL's falling edge makes is the
\* phase engine's.
LEMMA FallingPins ==
  ASSUME TypeInv, ShapeInv, GrantBetweenMCycles, LenInv, LockInv, FallingEdge,
         NEW in \in Inputs, Rtl!Negedge(in)
  PROVE  PinsAgree'
<1> DEFINE i == Rtl!NegImage(in)
<1>1. image' = i
  BY DEF Rtl!Negedge
<1>2. SameRing /\ SameRegs /\ SameExec /\ SameNmi
  BY DEF LockInv
<1>3. in.res = res_s /\ in.busreq = busreq_s /\ in.int \in IntRise
  BY InputsAre
<1>4. /\ Res2Now' <=> Rtl!Res2N(in)
      /\ SresNow' <=> Rtl!SresN(in)
  <2>1. M1T2' <=> M1T2
    BY FallingKeeps DEF M1T2
  <2>2. res2 \in BOOLEAN /\ sres \in BOOLEAN /\ res_s \in BOOLEAN
    BY DEF TypeInv, PinsType
  <2>3. Res2Now' <=> IF M1T2 THEN res2 ELSE res_s
    BY <2>1, FallingKeeps DEF Res2Now
  <2>4. SresNow' <=> ~Res2Now' /\ IF M1T2 THEN res_s ELSE sres
    BY <2>1, FallingKeeps DEF SresNow
  <2> QED BY <1>2, <1>3, <2>2, <2>3, <2>4, LatchesAgree
<1>5. ASSUME NEW s \in Strobes PROVE s \in i.strobes <=> Low(s)'
  <2>1. Low(s)' <=> LowInN(s)'
    <3>1. HalvesLow'
      BY LowInHalves, PTL
    <3> QED BY <3>1, FallingKeeps DEF HalvesLow
  <2>2. /\ Rtl!CutT1 <=> CutNow /\ ~rst_idle /\ ~bus_granted /\ t_state = 1
        /\ Rtl!CutT2 <=> CutNow /\ ~rst_idle /\ ~bus_granted /\ t_state = 2
        /\ Rtl!Cut <=> res2 /\ ~rst_idle /\ ~bus_granted
    BY <1>2, CutsAgree DEF CutNow
  <2>3. ~rst_idle => (Rtl!IntG <=> LongInternal)
    BY <1>2 DEF Rtl!IntG, Rtl!Ext, SameRing, LongInternal, Extension
  <2>4. CASE rst_idle \/ bus_granted
    BY <1>2, <2>1, <2>2, <2>4, FallingKeeps DEF Rtl!NegImage, SameRegs, LowInN, Strobes,
       Rtl!Strobes
  <2>5. CASE ~rst_idle /\ ~bus_granted
    <3>1. LowInN(s)' <=>
            \/ s \in {"MREQ", "RD"} /\ CutNow /\ t_state = 1
            \/ s = "MREQ" /\ ~CutNow /\ LongInternal /\ t_state = 1 /\ Rtl!Res2N(in)
            \/ /\ Timed(s, bus_op, t_state, 1)
               /\ CutNow /\ s \in Requests =>
                    /\ t_state \notin {1, 2}
                    /\ ~(t_state = 3 /\ SlowIO /\ s # "MREQ")
                    /\ ~(t_state \in {3, 4} /\ bus_op = "INTA" /\ s = "IORQ")
      BY <1>4, <2>5, FallingKeeps DEF LowInN, CutNow, SlowIO, LongInternal, Extension, Timed
    <3>2. bus_op = "INTERNAL" => ~SlowIO /\ bus_op # "INTA"
      BY DEF SlowIO
    <3>3. res2 => CutNow \/ bus_op = "INTERNAL"
      BY DEF CutNow, Extension
    <3>4. LongInternal => (CutNow <=> res2)
      BY DEF CutNow, LongInternal
    <3> DEFINE tn == Timed(s, bus_op, t_state, 1)
    <3>5. s \in i.strobes <=>
            \/ s = "MREQ" /\ (Rtl!CutT1 \/ (Rtl!IntG /\ t_state = 1 /\ ~res2 /\ Rtl!Res2N(in))
                               \/ (tn /\ ~Rtl!CutT2))
            \/ s = "IORQ" /\ tn /\ ~Rtl!CutT1 /\ ~Rtl!CutT2 /\ ~(Rtl!Cut /\ SlowIO /\ t_state = 3)
                          /\ ~(Rtl!Cut /\ bus_op = "INTA" /\ t_state \in {3, 4})
            \/ s = "RD" /\ (Rtl!CutT1 \/ (tn /\ ~Rtl!CutT2 /\ ~(Rtl!Cut /\ SlowIO /\ t_state = 3)))
            \/ s = "WR" /\ tn /\ ~Rtl!CutT1 /\ ~Rtl!CutT2 /\ ~(Rtl!Cut /\ SlowIO /\ t_state = 3)
            \/ s \in {"M1", "RFSH"} /\ tn
      BY <1>2, <2>5, SameBus DEF Rtl!NegImage, SameRegs, SameRing, SlowIO
    <3>6. CASE CutNow
      <4>1. /\ Rtl!CutT1 <=> t_state = 1
            /\ Rtl!CutT2 <=> t_state = 2
            /\ Rtl!Cut /\ res2
        BY <2>2, <2>5, <3>6 DEF CutNow
      <4> HIDE DEF tn, i
      <4> QED BY <2>1, <3>1, <3>5, <3>6, <4>1 DEF Strobes, Requests, SlowIO, tn
    <3>7. CASE ~CutNow
      <4>1. /\ ~Rtl!CutT1 /\ ~Rtl!CutT2
            /\ Rtl!Cut => bus_op = "INTERNAL"
            /\ Rtl!IntG /\ ~res2 <=> LongInternal
        BY <2>2, <2>3, <2>5, <3>3, <3>4, <3>7
      <4> HIDE DEF tn, i
      <4> QED BY <2>1, <3>1, <3>2, <3>5, <3>7, <4>1 DEF Strobes, Requests, SlowIO, tn
    <3> QED BY <3>6, <3>7
  <2> QED BY <2>4, <2>5
<1>6. ~rst_idle' /\ ~res2' => i.halt = HaltLow'
  <2> SUFFICES ASSUME ~rst_idle, ~res2 PROVE i.halt = HaltLow'
    BY FallingKeeps
  <2> DEFINE inFetch == \/ r.bus_op = "M1"   /\ r.t_state = 4
                        \/ r.bus_op = "INTA" /\ r.t_state = 6
  <2>1. InHaltFetch' <=> Rtl!EffExec = "HALT" /\ inFetch
    <3>1. inFetch => Rtl!EffExec = exec
      <4>1. inFetch => Decoded
        BY <1>2 DEF SameRing, Decoded
      <4> QED BY <1>2, <4>1, ExecAgrees
    <3>2. InHaltFetch' <=> exec = "HALT" /\ inFetch
      BY <1>2, FallingKeeps DEF InHaltFetch, SameRing
    <3> QED BY <3>1, <3>2
  <2>2. LeavesHalt' <=> r.t_state = r.m_len /\ (r.nmi_pending \/ (in.int /\ r.iff1))
    <3>1. t_state = m_len => ~bus_granted
      BY GrantedStart
    <3>2. t_state = m_len => in.int = int_sampled /\ r.nmi_pending = nmi_sampled
      BY <1>2, <1>3, <3>1 DEF IntRise, SameNmi, Deciding
    <3> QED BY <1>2, <3>2, FallingKeeps DEF LeavesHalt, SameRing, SameRegs
  <2>3. HaltLow' <=> (halted \/ InHaltFetch') /\ ~LeavesHalt' /\ ~(Res2Now' \/ SresNow')
    <3>1. HaltLow' <=> (halted' \/ InHaltFetch') /\ ~LeavesHalt' /\ ~(Res2Now' \/ SresNow')
      BY HaltLowIs, PTL
    <3> QED BY <3>1, FallingKeeps
  <2> QED BY <1>2, <1>4, <2>1, <2>2, <2>3 DEF Rtl!NegImage, SameRegs
<1>7. i.busack = BusackLow' /\ i.addr_drive = AddressDriven' /\ i.ctl_drive = ControlDriven'
  BY <1>2, <1>3, FallingKeeps DEF Rtl!NegImage, SameRegs, BusackLow, AddressDriven, ControlDriven
<1>8. i.data = DataDriven'
  <2>1. Rtl!CutT1 <=> res2 /\ ~rst_idle /\ ~bus_granted /\ ~Extension /\ t_state = 1
    BY <1>2, CutsAgree
  <2>2. i.data = (~(bus_granted \/ rst_idle) /\ ~Rtl!CutT1 /\ TimedData(r.bus_op, r.t_state, 1))
    BY <1>2, SameBus DEF Rtl!NegImage, SameRegs
  <2>3. Extension => ~TimedData(bus_op, t_state, 1)
    BY DEF Extension, TimedData
  <2>4. TimedData(bus_op, t_state, phi)' <=> TimedData(bus_op, t_state, 1)
    BY FallingKeeps DEF TimedData
  <2>5. DataDriven' <=> ~(bus_granted \/ rst_idle) /\ ~(res2 /\ t_state = 1) /\ TimedData(bus_op, t_state, 1)
    BY <2>4, FallingKeeps DEF DataDriven
  <2>6. i.data <=> DataDriven'
    BY <1>2, <2>1, <2>2, <2>3, <2>5 DEF SameRing
  <2> QED BY <2>2, <2>6 DEF DataDriven
<1>9. i.addr = addr'
  <2>1. LockInv'
    BY FallingLock
  <2>2. addr' = Rtl!AddrNeg'
    BY <2>1, FallingKeeps DEF LockInv, SameAddr
  <2>3. Rtl!AddrNeg' = Rtl!AddrNeg
    BY DEF Rtl!Negedge, Rtl!AddrNeg, Rtl!IntG, Rtl!Ext
  <2> QED BY <2>2, <2>3 DEF Rtl!NegImage
<1>10. /\ i.strobes \subseteq Strobes
       /\ i = [strobes |-> i.strobes, halt |-> i.halt, busack |-> i.busack, data |-> i.data,
               addr |-> i.addr, addr_drive |-> i.addr_drive, ctl_drive |-> i.ctl_drive]
  BY SameBus DEF Rtl!NegImage
<1> HIDE DEF i
<1>11. ~StrayWrite'
  BY FallingKeeps DEF StrayWrite
<1> QED BY <1>1, <1>5, <1>6, <1>7, <1>8, <1>9, <1>10, <1>11, ImagesAgree

-----------------------------------------------------------------------------
(***************************************************************************)
(* The rising edge: what each part of the RTL's always block writes.       *)
(***************************************************************************)
\* The fields no part of the sequencing writes.
Untouched(n, m) ==
  /\ DOMAIN m = Fields
  /\ m.res2 = n.res2 /\ m.sres = n.sres /\ m.prev_nmi = n.prev_nmi /\ m.rd_hold = n.rd_hold
  /\ m.in_tw = n.in_tw /\ m.addr_hold = n.addr_hold

LatchFields == {"ir", "pc", "suppress_decode", "srst_m1", "irq_seq", "im0_ins"}

\* The latch of an M1 takes the opcode, the acknowledge's one in IM 0.
LatchShape(n, m, in) ==
  /\ DOMAIN m = Fields
  /\ \A f \in Fields \ LatchFields : m[f] = n[f]
  /\ r.bus_op = "M1" =>
       /\ m.ir = IF r.srst_m1 THEN Rtl!Opcode("NONE", "NOP") ELSE in.byte
       /\ m.pc = IF r.srst_m1 THEN 0 ELSE IF r.suppress_decode THEN n.pc ELSE Rtl!PcInc
       /\ m.suppress_decode = FALSE /\ m.srst_m1 = FALSE
       /\ m.irq_seq = n.irq_seq /\ m.im0_ins = n.im0_ins
  /\ r.bus_op # "M1" =>
       /\ m.pc = n.pc /\ m.suppress_decode = n.suppress_decode /\ m.srst_m1 = n.srst_m1
       /\ r.im = 0 => m.ir = in.byte /\ m.irq_seq = "NONE" /\ m.im0_ins = TRUE
       /\ r.im # 0 => m.ir = n.ir /\ m.irq_seq = n.irq_seq /\ m.im0_ins = n.im0_ins

\* The opcode's latch writes the fetch's fields, and nothing else.
LEMMA LatchedIs ==
  ASSUME NEW n, DOMAIN n = Fields, NEW in, Rtl!LatchPos
  PROVE  LatchShape(n, Rtl!Latched(n, in), in)
<1>1. CASE r.bus_op = "M1"
  BY <1>1 DEF LatchShape, Rtl!Latched, Fields, LatchFields
<1>2. CASE r.bus_op # "M1" /\ r.im = 0
  BY <1>2 DEF LatchShape, Rtl!Latched, Fields, LatchFields
<1>3. CASE r.bus_op # "M1" /\ r.im # 0
  BY <1>3 DEF LatchShape, Rtl!Latched, Fields, LatchFields
<1> QED BY <1>1, <1>2, <1>3

\* A T-state begins: the ring, and nothing else, has moved.
LEMMA TickIs ==
  ASSUME NEW n, DOMAIN n = Fields
  PROVE  LET m == [n EXCEPT !.t_state = @ + 1]
         IN /\ DOMAIN m = Fields
            /\ \A f \in Fields \ {"t_state"} : m[f] = n[f]
            /\ m.t_state = n.t_state + 1
  BY DEF Fields

\* The arbiter moves the grant, and nothing else.
LEMMA GrantIs ==
  ASSUME NEW n, DOMAIN n = Fields, NEW in
  PROVE  LET m == Rtl!Arbitrated(n, in)
         IN /\ DOMAIN m = Fields
            /\ \A f \in Fields \ {"bus_granted"} : m[f] = n[f]
            /\ m.bus_granted = (in.busreq /\ ~(n.bus_op = "INTERNAL" /\ n.m_len <= 2))
  BY DEF Rtl!Arbitrated, Fields

\* Leaving the reset idle starts a fetch at PC, and changes nothing else.
LEMMA RestartedIs ==
  ASSUME NEW n, DOMAIN n = Fields
  PROVE  LET m == Rtl!Restarted(n)
         IN /\ DOMAIN m = Fields
            /\ \A f \in Fields \ (FetchFields \cup {"rst_idle"}) : m[f] = n[f]
            /\ m.rst_idle = FALSE /\ m.bus_op = "M1" /\ m.m_addr = <<"PC", r.pc>>
            /\ m.m_len = 4 /\ m.t_state = 1 /\ m.m_cycle = 1
  BY DEF Rtl!Restarted, Fields, FetchFields

\* A prefix byte goes on to the next fetch under the prefix after it.
LEMMA PrefixIs ==
  ASSUME NEW n, DOMAIN n = Fields
  PROVE  LET m == Rtl!ExecPrefix(n)
             p == Rtl!PrefixAfter(r.prefix, Rtl!EffExec)
         IN /\ DOMAIN m = Fields
            /\ \A f \in Fields \ (FetchFields \cup {"prefix", "pc"}) : m[f] = n[f]
            /\ m.prefix = p /\ m.t_state = 1
            /\ p = "IDXCB" =>
                 /\ m.pc = Rtl!PcOperand /\ m.bus_op = Rtl!Operand.bus
                 /\ m.m_len = Rtl!BaseLen[Rtl!Operand.bus] + Rtl!Operand.extra
                 /\ m.m_addr = IF Rtl!Operand.src = "PC" THEN <<"PC", r.pc>>
                               ELSE <<"REG", r.m_cycle + 1>>
                 /\ m.m_cycle = r.m_cycle + 1
            /\ p # "IDXCB" =>
                 /\ m.pc = n.pc /\ m.m_addr = <<"PC", r.pc>> /\ m.m_cycle = 1
                 /\ r.im0_ins => m.bus_op = "INTA" /\ m.m_len = 6
                 /\ ~r.im0_ins => m.bus_op = "M1" /\ m.m_len = 4
<1> DEFINE p == Rtl!PrefixAfter(r.prefix, Rtl!EffExec)
           k == [n EXCEPT !.prefix = p]
           m == Rtl!ExecPrefix(n)
<1>1. /\ DOMAIN k = Fields /\ k.prefix = p
      /\ \A f \in Fields \ {"prefix"} : k[f] = n[f]
  BY DEF Fields
<1>2. CASE p = "IDXCB"
  <2> DEFINE s == Rtl!Start(k, Rtl!Operand)
  <2>1. m = [s EXCEPT !.pc = Rtl!PcOperand]
    BY <1>2 DEF Rtl!ExecPrefix
  <2>2. /\ DOMAIN s = Fields
        /\ \A f \in Fields \ FetchFields : s[f] = k[f]
        /\ s.bus_op = Rtl!Operand.bus /\ s.m_len = Rtl!BaseLen[Rtl!Operand.bus] + Rtl!Operand.extra
        /\ s.m_addr = IF Rtl!Operand.src = "PC" THEN <<"PC", r.pc>> ELSE <<"REG", r.m_cycle + 1>>
        /\ s.t_state = 1 /\ s.m_cycle = r.m_cycle + 1
    <3> HIDE DEF k, p, m
    <3> QED BY <1>1, StartIs
  <2> HIDE DEF s, k, p, m
  <2> QED BY <1>1, <1>2, <2>1, <2>2 DEF Fields, FetchFields, m, p
<1>3. CASE p # "IDXCB"
  <2> DEFINE b == IF r.im0_ins THEN "INTA" ELSE "M1"
             len == IF r.im0_ins THEN 6 ELSE 4
             s == Rtl!Fetch(k, b, len, r.pc)
  <2>1. m = s
    BY <1>3 DEF Rtl!ExecPrefix
  <2>2. /\ DOMAIN s = Fields
        /\ \A f \in Fields \ FetchFields : s[f] = k[f]
        /\ s.bus_op = b /\ s.m_len = len /\ s.m_addr = <<"PC", r.pc>>
        /\ s.t_state = 1 /\ s.m_cycle = 1
    BY <1>1, FetchIs
  <2> HIDE DEF s, k, p, m
  <2> QED BY <1>1, <1>3, <2>1, <2>2 DEF Fields, FetchFields, m, p
<1> QED BY <1>2, <1>3

\* What the end of an M-cycle that another follows does to PC, and to the ring.
GoOnPC(c, at, in) ==
  CASE c.src = "PC" -> Rtl!PcOperand
    [] at \in Rtl!LoadsGoingOn -> in.target
    [] at \in Rtl!Repeats -> (r.pc + PCMod - (2 % PCMod)) % PCMod
    [] OTHER -> r.pc

GoOnShape(n, m, c, in) ==
  /\ DOMAIN m = Fields
  /\ \A f \in Fields \ (FetchFields \cup {"pc"}) : m[f] = n[f]
  /\ m.bus_op = c.bus /\ m.m_len = Rtl!BaseLen[c.bus] + c.extra
  /\ m.m_addr = IF c.src = "PC" THEN <<"PC", r.pc>> ELSE <<"REG", r.m_cycle + 1>>
  /\ m.t_state = 1 /\ m.m_cycle = r.m_cycle + 1
  /\ m.pc = GoOnPC(c, <<Rtl!EffExec, r.m_cycle>>, in)

\* An instruction goes on to its next M-cycle.
LEMMA GoOnIs ==
  ASSUME NEW n, DOMAIN n = Fields, n.pc = r.pc, NEW in
  PROVE  GoOnShape(n, Rtl!ExecGoOn(n, in), Rtl!Cycles(Rtl!EffExec, Rtl!Disp)[r.m_cycle], in)
<1> DEFINE c == Rtl!Cycles(Rtl!EffExec, Rtl!Disp)[r.m_cycle]
           at == <<Rtl!EffExec, r.m_cycle>>
           s == Rtl!Start(n, c)
           a == CASE c.src = "PC" -> Rtl!PcOperand
                  [] at \in Rtl!LoadsGoingOn -> in.target
                  [] at \in Rtl!Repeats -> (r.pc + PCMod - (2 % PCMod)) % PCMod
                  [] OTHER -> s.pc
           m == Rtl!ExecGoOn(n, in)
<1>1. m = [s EXCEPT !.pc = a]
  BY DEF Rtl!ExecGoOn
<1>2. /\ DOMAIN s = Fields
      /\ \A f \in Fields \ FetchFields : s[f] = n[f]
      /\ s.bus_op = c.bus /\ s.m_len = Rtl!BaseLen[c.bus] + c.extra
      /\ s.m_addr = IF c.src = "PC" THEN <<"PC", r.pc>> ELSE <<"REG", r.m_cycle + 1>>
      /\ s.t_state = 1 /\ s.m_cycle = r.m_cycle + 1
  <2> HIDE DEF c
  <2> QED BY StartIs
<1>3. s.pc = n.pc
  BY <1>2 DEF Fields, FetchFields
<1>4. /\ DOMAIN m = Fields /\ m.pc = a
      /\ \A f \in Fields \ {"pc"} : m[f] = s[f]
  <2> HIDE DEF s, a, m
  <2> QED BY <1>1, <1>2 DEF Fields
<1> HIDE DEF s, m, c
<1>5. a = GoOnPC(c, at, in)
  BY <1>3 DEF GoOnPC
<1> HIDE DEF a
<1> QED BY <1>2, <1>4, <1>5 DEF GoOnShape, Fields, FetchFields, m, c

\* The interrupt state an instruction leaves ahead of the decision.
FinIff1(e) == CASE e = "EI" -> TRUE [] e = "DI" -> FALSE [] e = "RETN" -> r.iff2 [] OTHER -> r.iff1
FinIff2(e) == CASE e = "EI" -> TRUE [] e = "DI" -> FALSE [] OTHER -> r.iff2
FinDelay(e) == e = "EI" \/ (e = "RETN" /\ ~r.iff1)
FinMode(e, in) == IF e = "IM" THEN in.mode ELSE r.im
FinPC(e, in) ==
  IF <<e, r.m_cycle>> \in Rtl!LoadsAtEnd \cup Rtl!MayLoadAtEnd THEN in.target ELSE r.pc
FinFields == FetchFields \cup {"prefix", "im0_ins", "pend", "pc", "im", "nmi_pending", "halted",
                               "iff1", "iff2", "irq_seq", "suppress_decode", "srst_m1"}

\* What every instruction's end leaves, and what each of the four does: an
\* NMI or an INT accepted, the halt state, the next instruction.
FinShape(n, m, in) ==
  /\ DOMAIN m = Fields
  /\ \A f \in Fields \ FinFields : m[f] = n[f]
  /\ m.prefix = (IF Rtl!PendN = 0 THEN "NONE" ELSE n.prefix) /\ m.pend = Rtl!PendN
  /\ m.im0_ins = FALSE /\ m.pc = FinPC(Rtl!EffExec, in) /\ m.im = FinMode(Rtl!EffExec, in)
  /\ m.m_addr = <<"PC", FinPC(Rtl!EffExec, in)>> /\ m.t_state = 1 /\ m.m_cycle = 1

FinTakesInt(e, in) == ~r.nmi_pending /\ ~FinDelay(e) /\ in.int /\ FinIff1(e)
FinHalts(e, in) == ~r.nmi_pending /\ ~FinTakesInt(e, in) /\ (r.halted \/ e = "HALT")
FinGoes(e, in)  == ~r.nmi_pending /\ ~FinTakesInt(e, in) /\ ~(r.halted \/ e = "HALT")

FinTo(n, m, e, in) ==
  /\ r.nmi_pending =>
       /\ m.bus_op = "M1" /\ m.m_len = 5 /\ m.nmi_pending = FALSE /\ m.halted = FALSE
       /\ m.iff1 = FALSE /\ m.iff2 = FinIff2(e) /\ m.irq_seq = "NMI"
       /\ m.suppress_decode = TRUE /\ m.srst_m1 = n.srst_m1
  /\ ~r.nmi_pending => m.nmi_pending = n.nmi_pending
  /\ FinTakesInt(e, in) =>
       /\ m.bus_op = "INTA" /\ m.m_len = (IF FinMode(e, in) = 0 THEN 6 ELSE 7)
       /\ m.halted = FALSE /\ m.iff1 = FALSE /\ m.iff2 = FALSE /\ m.irq_seq = "INT"
       /\ m.suppress_decode = n.suppress_decode /\ m.srst_m1 = n.srst_m1
  /\ FinHalts(e, in) =>
       /\ m.bus_op = "M1" /\ m.m_len = 4 /\ m.halted = TRUE
       /\ m.iff1 = FinIff1(e) /\ m.iff2 = FinIff2(e) /\ m.irq_seq = "HALT"
       /\ m.suppress_decode = TRUE /\ m.srst_m1 = Rtl!SresN(in)
  /\ FinGoes(e, in) =>
       /\ m.bus_op = "M1" /\ m.m_len = 4 /\ m.halted = FALSE
       /\ m.iff1 = FinIff1(e) /\ m.iff2 = FinIff2(e) /\ m.irq_seq = "NONE"
       /\ m.suppress_decode = n.suppress_decode /\ m.srst_m1 = Rtl!SresN(in)

\* An instruction ends, and one of the four responses to that is chosen.
LEMMA FinIs ==
  ASSUME NEW n, DOMAIN n = Fields, NEW in
  PROVE  FinShape(n, Rtl!ExecFin(n, in), in) /\ FinTo(n, Rtl!ExecFin(n, in), Rtl!EffExec, in)
<1> DEFINE m == Rtl!ExecFin(n, in)
           e == Rtl!EffExec
           i1 == FinIff1(e)
           i2 == FinIff2(e)
           mode == FinMode(e, in)
           a == FinPC(e, in)
           p == Rtl!PendN
           k == [n EXCEPT !.prefix = IF p = 0 THEN "NONE" ELSE @, !.im0_ins = FALSE,
                          !.pend = p, !.pc = a, !.im = mode]
           s1 == Rtl!Fetch(k, "M1", 5, a)
           s2 == Rtl!Fetch(k, "INTA", IF mode = 0 THEN 6 ELSE 7, a)
           s3 == Rtl!Fetch(k, "M1", 4, a)
           t == Rtl!SresN(in)
<1>1. m = IF r.nmi_pending
          THEN [s1 EXCEPT !.nmi_pending = FALSE, !.halted = FALSE,
                  !.iff1 = FALSE, !.iff2 = i2, !.irq_seq = "NMI", !.suppress_decode = TRUE]
          ELSE IF ~FinDelay(e) /\ in.int /\ i1
          THEN [s2 EXCEPT !.halted = FALSE, !.iff1 = FALSE, !.iff2 = FALSE, !.irq_seq = "INT"]
          ELSE IF r.halted \/ e = "HALT"
          THEN [s3 EXCEPT !.halted = TRUE, !.iff1 = i1, !.iff2 = i2,
                  !.irq_seq = "HALT", !.suppress_decode = TRUE, !.srst_m1 = t]
          ELSE [s3 EXCEPT !.halted = FALSE, !.iff1 = i1, !.iff2 = i2,
                  !.irq_seq = "NONE", !.srst_m1 = t]
  BY Zenon DEF Rtl!ExecFin, FinIff1, FinIff2, FinMode, FinPC, FinDelay
<1> HIDE DEF m, e, i1, i2, mode, a, p, t
<1>2. /\ DOMAIN k = Fields
      /\ \A f \in Fields \ {"prefix", "im0_ins", "pend", "pc", "im"} : k[f] = n[f]
      /\ k.prefix = (IF p = 0 THEN "NONE" ELSE n.prefix) /\ k.pend = p
      /\ k.im0_ins = FALSE /\ k.pc = a /\ k.im = mode
  BY DEF Fields
<1> HIDE DEF k
<1>3. /\ DOMAIN s1 = Fields
      /\ \A f \in Fields \ FetchFields : s1[f] = k[f]
      /\ s1.bus_op = "M1" /\ s1.m_len = 5 /\ s1.m_addr = <<"PC", a>>
      /\ s1.t_state = 1 /\ s1.m_cycle = 1
  BY <1>2, FetchIs
<1>4. /\ DOMAIN s2 = Fields
      /\ \A f \in Fields \ FetchFields : s2[f] = k[f]
      /\ s2.bus_op = "INTA" /\ s2.m_len = (IF mode = 0 THEN 6 ELSE 7) /\ s2.m_addr = <<"PC", a>>
      /\ s2.t_state = 1 /\ s2.m_cycle = 1
  BY <1>2, FetchIs
<1>5. /\ DOMAIN s3 = Fields
      /\ \A f \in Fields \ FetchFields : s3[f] = k[f]
      /\ s3.bus_op = "M1" /\ s3.m_len = 4 /\ s3.m_addr = <<"PC", a>>
      /\ s3.t_state = 1 /\ s3.m_cycle = 1
  BY <1>2, FetchIs
<1> HIDE DEF s1, s2, s3
<1> PICK u, v : u = i1 /\ v = i2
  OBVIOUS
<1> DEFINE
      toNmi  == [s1 EXCEPT !.nmi_pending = FALSE, !.halted = FALSE,
                   !.iff1 = FALSE, !.iff2 = v, !.irq_seq = "NMI", !.suppress_decode = TRUE]
      toInt  == [s2 EXCEPT !.halted = FALSE, !.iff1 = FALSE, !.iff2 = FALSE, !.irq_seq = "INT"]
      toHalt == [s3 EXCEPT !.halted = TRUE, !.iff1 = u, !.iff2 = v,
                   !.irq_seq = "HALT", !.suppress_decode = TRUE, !.srst_m1 = t]
      toNext == [s3 EXCEPT !.halted = FALSE, !.iff1 = u, !.iff2 = v,
                   !.irq_seq = "NONE", !.srst_m1 = t]
      base(x) == /\ DOMAIN x = Fields
                 /\ \A f \in Fields \ FinFields : x[f] = n[f]
                 /\ x.prefix = (IF p = 0 THEN "NONE" ELSE n.prefix) /\ x.pend = p
                 /\ x.im0_ins = FALSE /\ x.pc = a /\ x.im = mode
                 /\ x.m_addr = <<"PC", a>> /\ x.t_state = 1 /\ x.m_cycle = 1
<1>6. /\ base(toNmi)
      /\ toNmi.bus_op = "M1" /\ toNmi.m_len = 5 /\ toNmi.nmi_pending = FALSE /\ toNmi.halted = FALSE
      /\ toNmi.iff1 = FALSE /\ toNmi.iff2 = v /\ toNmi.irq_seq = "NMI"
      /\ toNmi.suppress_decode = TRUE /\ toNmi.srst_m1 = n.srst_m1
  BY <1>2, <1>3, ZenonT(60) DEF Fields, FetchFields, FinFields
<1>7. /\ base(toInt) /\ toInt.nmi_pending = n.nmi_pending
      /\ toInt.bus_op = "INTA" /\ toInt.m_len = (IF mode = 0 THEN 6 ELSE 7)
      /\ toInt.halted = FALSE /\ toInt.iff1 = FALSE /\ toInt.iff2 = FALSE /\ toInt.irq_seq = "INT"
      /\ toInt.suppress_decode = n.suppress_decode /\ toInt.srst_m1 = n.srst_m1
  BY <1>2, <1>4, ZenonT(60) DEF Fields, FetchFields, FinFields
<1>8. /\ base(toHalt) /\ toHalt.nmi_pending = n.nmi_pending
      /\ toHalt.bus_op = "M1" /\ toHalt.m_len = 4 /\ toHalt.halted = TRUE
      /\ toHalt.iff1 = u /\ toHalt.iff2 = v /\ toHalt.irq_seq = "HALT"
      /\ toHalt.suppress_decode = TRUE /\ toHalt.srst_m1 = t
  BY <1>2, <1>5, ZenonT(60) DEF Fields, FetchFields, FinFields
<1>9. /\ base(toNext) /\ toNext.nmi_pending = n.nmi_pending
      /\ toNext.bus_op = "M1" /\ toNext.m_len = 4 /\ toNext.halted = FALSE
      /\ toNext.iff1 = u /\ toNext.iff2 = v /\ toNext.irq_seq = "NONE"
      /\ toNext.suppress_decode = n.suppress_decode /\ toNext.srst_m1 = t
  BY <1>2, <1>5, ZenonT(60) DEF Fields, FetchFields, FinFields
<1>10. m = IF r.nmi_pending THEN toNmi
           ELSE IF ~FinDelay(e) /\ in.int /\ i1 THEN toInt
           ELSE IF r.halted \/ e = "HALT" THEN toHalt ELSE toNext
  BY <1>1
<1> HIDE DEF toNmi, toInt, toHalt, toNext
<1>11. CASE r.nmi_pending
  <2>1. m = toNmi
    BY <1>10, <1>11
  <2> QED BY <1>6, <1>11, <2>1 DEF FinShape, FinTo, FinTakesInt, FinHalts, FinGoes, m, e, i1, i2, mode, a, p, t
<1>12. CASE ~r.nmi_pending /\ ~FinDelay(e) /\ in.int /\ i1
  <2>1. m = toInt
    BY <1>10, <1>12
  <2> QED BY <1>7, <1>12, <2>1 DEF FinShape, FinTo, FinTakesInt, FinHalts, FinGoes, m, e, i1, i2, mode, a, p, t
<1>13. CASE ~r.nmi_pending /\ ~(~FinDelay(e) /\ in.int /\ i1) /\ (r.halted \/ e = "HALT")
  <2>1. m = toHalt
    BY <1>10, <1>13
  <2> QED BY <1>8, <1>13, <2>1 DEF FinShape, FinTo, FinTakesInt, FinHalts, FinGoes, m, e, i1, i2, mode, a, p, t
<1>14. CASE ~r.nmi_pending /\ ~(~FinDelay(e) /\ in.int /\ i1) /\ ~(r.halted \/ e = "HALT")
  <2>1. m = toNext
    BY <1>10, <1>14
  <2> QED BY <1>9, <1>14, <2>1 DEF FinShape, FinTo, FinTakesInt, FinHalts, FinGoes, m, e, i1, i2, mode, a, p, t
<1> QED BY <1>11, <1>12, <1>13, <1>14

-----------------------------------------------------------------------------
(***************************************************************************)
(* The rising edge, in the phase engine's terms.                           *)
(***************************************************************************)
\* The inputs and the waits of a rising edge are the phase engine's, but for
\* a wait of the reset idle.
LEMMA RisingFacts ==
  ASSUME TypeInv, ShapeInv, LockInv, RisingEdge, NEW in \in Inputs
  PROVE  /\ in.res = res_s /\ in.busreq = busreq_s
         /\ in.nmi_neg = prev_nmi /\ in.nmi = prev_nmi'
         /\ Rtl!Res2N(in) = res2' /\ Rtl!SresN(in) = sres'
         /\ ~rst_idle => (Rtl!Stall(in) <=> stalled)
         /\ Rtl!CutT1 <=> res2 /\ ~rst_idle /\ ~bus_granted /\ ~Extension /\ t_state = 1
<1>1. in.res = res_s /\ in.busreq = busreq_s /\ in.nmi_neg = prev_nmi /\ in.nmi = prev_nmi'
      /\ in.wait \in WaitNeg
  BY InputsAre
<1>2. SameRing /\ SameRegs
  BY DEF LockInv
<1>3. Rtl!Res2N(in) = res2' /\ Rtl!SresN(in) = sres'
  BY <1>1, <1>2, LatchesAgree DEF RisingEdge
<1>4. CASE rst_idle
  BY <1>1, <1>2, <1>3, <1>4, CutsAgree
<1>5. CASE ~rst_idle
  <2>1. in.wait = stalled
    BY <1>1, <1>5 DEF WaitNeg, IdleSample
  <2>2. stalled => WaitSample(bus_op, t_state, 1)
    BY DEF ShapeInv
  <2>3. Rtl!Stall(in) <=> stalled /\ WaitSample(bus_op, t_state, 1)
    BY <1>2, <1>5, <2>1, SameBus DEF Rtl!Stall, SameRing
  <2> QED BY <1>1, <1>2, <1>3, <2>2, <2>3, CutsAgree
<1> QED BY <1>4, <1>5

\* The writes left to this fetch land as T1 or T2 ends.
LEMMA FireIs ==
  ASSUME TypeInv, LockInv
  PROVE  Rtl!Fire <=> r.pend # 0 /\ ~bus_granted /\ t_state = r.pend
<1>1. r.pend # 0 => ~rst_idle /\ bus_op \in {"M1", "INTA"} /\ (t_state = 2 => ~in_tw)
  BY DEF LockInv, SamePrefix
<1>2. /\ SameRing /\ r.rst_idle = rst_idle /\ r.bus_granted = bus_granted
      /\ t_state = 2 => r.in_tw = in_tw
  BY DEF LockInv, SameRegs
<1> QED BY <1>1, <1>2 DEF Rtl!Fire, Rtl!Edge, Rtl!M1Any, SameRing

\* What every rising edge writes, in the phase engine's terms.
LEMMA HeldNow ==
  ASSUME TypeInv, ShapeInv, LockInv, RisingEdge, NEW in \in Inputs
  PROVE  LET h == Rtl!Held(in)
         IN /\ DOMAIN h = Fields
            /\ \A f \in Fields \ HeldFields : h[f] = r[f]
            /\ h.res2 = res2' /\ h.sres = sres' /\ h.prev_nmi = prev_nmi'
            /\ ~rst_idle => h.in_tw = (stalled /\ ~bus_granted)
            /\ h.nmi_pending = Rtl!NmiN(in)
            /\ h.prefix = IF r.pend # 0 /\ ~bus_granted /\ t_state = r.pend THEN "NONE" ELSE r.prefix
            /\ h.pend = IF r.pend # 0 /\ ~bus_granted /\ t_state = r.pend THEN 0 ELSE r.pend
            /\ h.rd_hold = Rtl!CutT1
<1> DEFINE h == Rtl!Held(in)
<1>1. DOMAIN r = Fields /\ r.bus_granted = bus_granted
  BY DEF LockInv, SameRegs
<1>2. /\ DOMAIN h = Fields
      /\ \A f \in Fields \ HeldFields : h[f] = r[f]
      /\ h.res2 = Rtl!Res2N(in) /\ h.sres = Rtl!SresN(in)
      /\ h.in_tw = (Rtl!Stall(in) /\ ~r.bus_granted)
      /\ h.nmi_pending = Rtl!NmiN(in) /\ h.prev_nmi = in.nmi
      /\ h.prefix = IF Rtl!Fire THEN "NONE" ELSE r.prefix
      /\ h.pend = IF Rtl!Fire THEN 0 ELSE r.pend
      /\ h.rd_hold = Rtl!CutT1
  BY <1>1, HeldIs
<1>3. /\ Rtl!Res2N(in) = res2' /\ Rtl!SresN(in) = sres' /\ in.nmi = prev_nmi'
      /\ ~rst_idle => (Rtl!Stall(in) <=> stalled)
  BY RisingFacts
<1> HIDE DEF h
<1>4. ~rst_idle => h.in_tw = (stalled /\ ~bus_granted)
  BY <1>1, <1>2, <1>3
<1> QED BY <1>2, <1>3, <1>4, FireIs DEF h

\* What Posedge makes of the next registers.
LEMMA PosIs ==
  ASSUME NEW in, Rtl!Posedge(in), NEW n, n = Rtl!NextRegs(in), DOMAIN n = Fields
  PROVE  /\ DOMAIN r' = Fields
         /\ \A f \in Fields \ {"addr_hold"} : r'[f] = n[f]
         /\ r'.addr_hold = Rtl!AddrNeg
         /\ image' = Rtl!PosImage(n, in)
<1>1. r' = [n EXCEPT !.addr_hold = Rtl!AddrNeg] /\ image' = Rtl!PosImage(n, in)
  BY DEF Rtl!Posedge
<1> QED BY <1>1 DEF Fields

\* The NMI flip-flop, but for the edge that accepts it.
LEMMA NmiRises ==
  ASSUME TypeInv, LockInv, phi = 1, NEW in, in.nmi_neg = prev_nmi, in.nmi = prev_nmi',
         Rtl!Res2N(in) = res2', ~res2, NmiPin(FALSE), nmi_resp' => nmi_resp
  PROVE  ~res2' => Rtl!NmiN(in) = nmi_pending'
<1>1. SameRegs /\ SameExec
  BY DEF LockInv
<1>2. /\ r.nmi_pending \in BOOLEAN /\ r.prev_nmi \in BOOLEAN
      /\ nmi_pending <=> (r.nmi_pending \/ (prev_nmi /\ ~r.prev_nmi)) /\ ~nmi_resp
  BY DEF LockInv, SameNmi
<1>3. Rtl!NmiHeld <=> nmi_resp
  BY <1>1 DEF Rtl!NmiHeld, SameRegs, SameExec
<1>4. nmi_pending' = ((nmi_pending \/ (prev_nmi' /\ ~prev_nmi /\ ~res2)) /\ ~nmi_resp /\ ~nmi_resp')
  BY DEF NmiPin
<1>5. SUFFICES ASSUME ~res2' PROVE Rtl!NmiN(in) <=> nmi_pending'
  BY <1>4 DEF Rtl!NmiN
<1>6. Rtl!NmiN(in) <=> /\ \/ r.nmi_pending \/ (~r.prev_nmi /\ prev_nmi)
                          \/ (~prev_nmi /\ prev_nmi')
                       /\ ~nmi_resp
  BY <1>1, <1>3, <1>5 DEF Rtl!NmiN, Rtl!NmiMid, SameRegs
<1> QED BY <1>2, <1>4, <1>6

\* The address the RTL remembers is the one on the bus.
LEMMA AddressRises ==
  ASSUME LockInv, phi = 1, phi' = 0, DriveAddress, r'.addr_hold = Rtl!AddrNeg
  PROVE  SameAddr'
<1>1. addr = Rtl!AddrNeg
  BY DEF LockInv, SameAddr
<1>2. HoldsAddress' => addr' = addr
  BY DEF DriveAddress, HoldsAddress
<1> QED BY <1>1, <1>2 DEF SameAddr

\* The reset idle: nothing but what RES2 clears matters.
LEMMA ResetLock ==
  ASSUME TypeInv, ShapeInv, LockInv, Cut \/ ResetHold, NEW in \in Inputs,
         Rtl!Posedge(in), NEW q, q = Rtl!Sequenced(Rtl!Held(in), in),
         DOMAIN q = Fields, q.res2 = res2', q.sres = sres', q.prev_nmi = prev_nmi',
         q.rd_hold = Rtl!CutT1
  PROVE  LockInv'
<1>1. /\ phi = 1 /\ phi' = 0 /\ res2 /\ RisingEdge /\ EnterResetIdle
  BY DEF Cut, ResetHold, RisingEdge
<1>2. r.res2
  BY <1>1 DEF LockInv, SameRegs
<1> DEFINE n == Rtl!Reset(q)
<1>3. n = Rtl!NextRegs(in)
  BY DEF Rtl!NextRegs
<1>4. /\ DOMAIN n = Fields
      /\ \A f \in Fields \ ResetFields : n[f] = q[f]
      /\ n.rst_idle = TRUE /\ n.pc = 0 /\ n.prefix = "NONE" /\ n.iff1 = FALSE
      /\ n.iff2 = FALSE /\ n.im = 0 /\ n.halted = FALSE /\ n.irq_seq = "NONE"
      /\ n.suppress_decode = FALSE /\ n.im0_ins = FALSE /\ n.nmi_pending = FALSE
      /\ n.bus_granted = FALSE /\ n.srst_m1 = FALSE /\ n.in_tw = FALSE /\ n.pend = 0
  BY <1>2, ResetIs
<1> HIDE DEF n
<1>5. /\ DOMAIN r' = Fields
      /\ \A f \in Fields \ {"addr_hold"} : r'[f] = n[f]
      /\ r'.addr_hold = Rtl!AddrNeg
  BY <1>3, <1>4, PosIs
<1>6. /\ r'.rst_idle = TRUE /\ r'.pc = 0 /\ r'.prefix = "NONE" /\ r'.iff1 = FALSE
      /\ r'.iff2 = FALSE /\ r'.im = 0 /\ r'.halted = FALSE /\ r'.irq_seq = "NONE"
      /\ r'.suppress_decode = FALSE /\ r'.im0_ins = FALSE /\ r'.nmi_pending = FALSE
      /\ r'.bus_granted = FALSE /\ r'.srst_m1 = FALSE /\ r'.in_tw = FALSE /\ r'.pend = 0
      /\ r'.res2 = res2' /\ r'.sres = sres' /\ r'.prev_nmi = prev_nmi' /\ r'.rd_hold = Rtl!CutT1
  BY <1>4, <1>5 DEF Fields, ResetFields
<1>7. /\ rst_idle' = TRUE /\ pc' = 0 /\ prefix' = "NONE" /\ iff1' = FALSE /\ iff2' = FALSE
      /\ im' = 0 /\ halted' = FALSE /\ im0_ins' = FALSE /\ suppress_decode' = FALSE
      /\ srst_m1' = FALSE /\ nmi_resp' = FALSE /\ in_tw' = FALSE /\ bus_granted' = FALSE
      /\ NmiPin(TRUE) /\ DriveAddress
  BY <1>1 DEF EnterResetIdle
<1>8. rd_hold' = Rtl!CutT1
  <2>1. Rtl!CutT1 <=> res2 /\ ~rst_idle /\ ~bus_granted /\ ~Extension /\ t_state = 1
    BY <1>1, RisingFacts
  <2> QED BY <2>1 DEF Cut, ResetHold, Rtl!CutT1
<1>9. SameRing' /\ SameRegs' /\ SamePrefix' /\ SameExec'
  <2>1. SameRing' /\ SamePrefix'
    BY <1>6, <1>7 DEF SameRing, SamePrefix
  <2>2. SameExec'
    BY <1>6, <1>7 DEF SameExec
  <2>3. SameRegs'
    BY <1>6, <1>7, <1>8 DEF SameRegs
  <2> QED BY <2>1, <2>2, <2>3
<1>10. SameNmi'
  <2>1. prev_nmi' \in BOOLEAN /\ nmi_pending' = FALSE
    BY <1>7 DEF NmiPin, Level
  <2> QED BY <1>1, <1>6, <1>7, <2>1 DEF SameNmi, Deciding
<1>11. SameAddr'
  BY <1>1, <1>5, <1>7, AddressRises
<1> QED BY <1>5, <1>9, <1>10, <1>11 DEF LockInv

\* Whatever the sequencing does, it leaves these fields alone.
LEMMA SequencedKeeps ==
  ASSUME NEW n, DOMAIN n = Fields, n.pc = r.pc, NEW in
  PROVE  Untouched(n, Rtl!Sequenced(n, in))
<1> DEFINE q == Rtl!Sequenced(n, in)
           g == [n EXCEPT !.bus_granted = in.busreq]
           t == [n EXCEPT !.t_state = @ + 1]
           x == Rtl!Execute(n, in)
<1>1. q = IF r.rst_idle THEN IF r.res2 THEN n ELSE Rtl!Restarted(n)
          ELSE IF r.bus_granted THEN g
          ELSE IF Rtl!Stall(in) THEN n
          ELSE IF ~Rtl!MEnd THEN Rtl!Latched(t, in) ELSE Rtl!Arbitrated(x, in)
  BY DEF Rtl!Sequenced
<1>2. Untouched(n, n)
  BY DEF Untouched
<1>3. Untouched(n, Rtl!Restarted(n))
  <2> DEFINE m == Rtl!Restarted(n)
  <2>1. /\ DOMAIN m = Fields
        /\ \A f \in Fields \ (FetchFields \cup {"rst_idle"}) : m[f] = n[f]
    BY RestartedIs
  <2> HIDE DEF m
  <2> QED BY <2>1 DEF Untouched, Fields, FetchFields, m
<1>4. Untouched(n, g)
  BY DEF Untouched, Fields
<1>5. Untouched(n, Rtl!Latched(t, in))
  <2>1. /\ DOMAIN t = Fields
        /\ \A f \in Fields \ {"t_state"} : t[f] = n[f]
    BY TickIs
  <2> HIDE DEF t
  <2>2. CASE Rtl!LatchPos
    <3> DEFINE l == Rtl!Latched(t, in)
    <3>1. LatchShape(t, l, in)
      BY <2>1, <2>2, LatchedIs
    <3> HIDE DEF l
    <3> QED BY <2>1, <3>1 DEF LatchShape, Untouched, Fields, LatchFields, l
  <2>3. CASE ~Rtl!LatchPos
    <3>1. Rtl!Latched(t, in) = t
      BY <2>3 DEF Rtl!Latched
    <3> QED BY <2>1, <3>1 DEF Untouched, Fields
  <2> QED BY <2>2, <2>3
<1>6. Untouched(n, x)
  <2>1. x = IF Rtl!EffExec \in Rtl!Prefixes THEN Rtl!ExecPrefix(n)
            ELSE IF Rtl!Finishing(in) THEN Rtl!ExecFin(n, in) ELSE Rtl!ExecGoOn(n, in)
    BY DEF Rtl!Execute
  <2>2. Untouched(n, Rtl!ExecPrefix(n))
    BY PrefixIs DEF Untouched, Fields, FetchFields
  <2>3. Untouched(n, Rtl!ExecFin(n, in))
    <3> DEFINE m == Rtl!ExecFin(n, in)
    <3>1. FinShape(n, m, in)
      BY FinIs
    <3> HIDE DEF m
    <3> QED BY <3>1 DEF FinShape, Untouched, Fields, FetchFields, FinFields, m
  <2>4. Untouched(n, Rtl!ExecGoOn(n, in))
    <3> DEFINE m == Rtl!ExecGoOn(n, in)
    <3>1. GoOnShape(n, m, Rtl!Cycles(Rtl!EffExec, Rtl!Disp)[r.m_cycle], in)
      BY GoOnIs
    <3> HIDE DEF m
    <3> QED BY <3>1 DEF GoOnShape, Untouched, Fields, FetchFields, m
  <2> QED BY <2>1, <2>2, <2>3, <2>4
<1>7. Untouched(n, Rtl!Arbitrated(x, in))
  <2> DEFINE m == Rtl!Arbitrated(x, in)
  <2> HIDE DEF x
  <2>1. DOMAIN x = Fields
    BY <1>6 DEF Untouched
  <2>2. /\ DOMAIN m = Fields
        /\ \A f \in Fields \ {"bus_granted"} : m[f] = x[f]
    BY <2>1, GrantIs
  <2> HIDE DEF m
  <2> QED BY <1>6, <2>1, <2>2 DEF Untouched, Fields, m
<1> HIDE DEF q, g, t, x
<1> QED BY <1>1, <1>2, <1>3, <1>4, <1>5, <1>7 DEF q

\* Over a cut and in the reset idle the registers stay in step.
LEMMA CutLock ==
  ASSUME TypeInv, ShapeInv, LockInv, Cut \/ ResetHold, NEW in \in Inputs,
         Rtl!Posedge(in)
  PROVE  LockInv'
<1> DEFINE h == Rtl!Held(in)
           q == Rtl!Sequenced(h, in)
<1>1. RisingEdge
  BY DEF Cut, ResetHold
<1>2. /\ DOMAIN h = Fields
      /\ h.res2 = res2' /\ h.sres = sres' /\ h.prev_nmi = prev_nmi' /\ h.rd_hold = Rtl!CutT1
      /\ \A f \in Fields \ HeldFields : h[f] = r[f]
  BY <1>1, HeldNow
<1> HIDE DEF h
<1>3. Untouched(h, q)
  <2>1. h.pc = r.pc
    BY <1>2 DEF Fields, HeldFields
  <2> QED BY <1>2, <2>1, SequencedKeeps
<1>4. /\ DOMAIN q = Fields
      /\ q.res2 = res2' /\ q.sres = sres' /\ q.prev_nmi = prev_nmi' /\ q.rd_hold = Rtl!CutT1
  BY <1>2, <1>3 DEF Untouched
<1> QED BY <1>4, ResetLock DEF h

\* Leaving the reset idle keeps the registers in step.
LEMMA RestartLock ==
  ASSUME TypeInv, ShapeInv, LockInv, Restart, NEW in \in Inputs,
         Rtl!Posedge(in)
  PROVE  LockInv'
<1> DEFINE h == Rtl!Held(in)
           n == Rtl!Restarted(h)
<1>1. /\ RisingEdge /\ phi = 1 /\ phi' = 0 /\ rst_idle /\ ~res2 /\ rst_idle' = FALSE
      /\ StartFetch("M1", 4, pc) /\ NmiPin(FALSE) /\ Sample(nmi_sampled, int_sampled)
      /\ DriveAddress
      /\ UNCHANGED <<exec, disp, pc, prefix, iff1, iff2, im, halted, im0_ins, suppress_decode,
                     srst_m1, nmi_resp, in_tw, bus_granted>>
  BY DEF Restart, RisingEdge, enables, fetch
<1>2. SameRegs /\ SamePrefix /\ SameExec
  BY DEF LockInv
<1>3. r.rst_idle /\ ~r.res2 /\ r.pend = 0 /\ r.prefix = prefix
  BY <1>1, <1>2 DEF SameRegs, SamePrefix
<1>4. /\ DOMAIN h = Fields
      /\ \A f \in Fields \ HeldFields : h[f] = r[f]
      /\ h.res2 = res2' /\ h.sres = sres' /\ h.prev_nmi = prev_nmi'
      /\ h.nmi_pending = Rtl!NmiN(in)
      /\ h.prefix = r.prefix /\ h.pend = 0
  BY <1>1, <1>3, HeldNow
<1> HIDE DEF h
<1>5. /\ DOMAIN n = Fields
      /\ \A f \in Fields \ (FetchFields \cup {"rst_idle"}) : n[f] = h[f]
      /\ n.rst_idle = FALSE /\ n.bus_op = "M1" /\ n.m_addr = <<"PC", r.pc>>
      /\ n.m_len = 4 /\ n.t_state = 1 /\ n.m_cycle = 1
  BY <1>4, RestartedIs
<1>6. n = Rtl!NextRegs(in)
  BY <1>3 DEF Rtl!NextRegs, Rtl!Reset, Rtl!Sequenced, h
<1> HIDE DEF n
<1>7. /\ DOMAIN r' = Fields
      /\ \A f \in Fields \ {"addr_hold"} : r'[f] = n[f]
      /\ r'.addr_hold = Rtl!AddrNeg
  BY <1>5, <1>6, PosIs
<1>8. ~stalled /\ ~nmi_resp /\ ~in_tw /\ ~bus_granted /\ ~suppress_decode /\ ~srst_m1
  BY <1>1 DEF ShapeInv
<1>9. /\ r'.t_state = 1 /\ r'.m_cycle = 1 /\ r'.bus_op = "M1" /\ r'.m_len = 4
      /\ r'.m_addr = <<"PC", r.pc>> /\ r'.rst_idle = FALSE
      /\ r'.pc = r.pc /\ r'.iff1 = r.iff1 /\ r'.iff2 = r.iff2 /\ r'.im = r.im
      /\ r'.halted = r.halted /\ r'.suppress_decode = r.suppress_decode
      /\ r'.im0_ins = r.im0_ins /\ r'.srst_m1 = r.srst_m1 /\ r'.bus_granted = r.bus_granted
      /\ r'.irq_seq = r.irq_seq /\ r'.prefix = r.prefix /\ r'.pend = 0
      /\ r'.res2 = res2' /\ r'.sres = sres' /\ r'.prev_nmi = prev_nmi'
      /\ r'.nmi_pending = Rtl!NmiN(in)
  BY <1>4, <1>5, <1>7 DEF Fields, FetchFields, HeldFields
<1>10. SameRing' /\ SamePrefix'
  BY <1>1, <1>2, <1>3, <1>9 DEF SameRing, SameRegs, SamePrefix, StartFetch
<1>11. SameRegs'
  <2>1. ~rst_idle' /\ t_state' = 1
    BY <1>1 DEF StartFetch
  <2> QED BY <1>1, <1>2, <1>9, <2>1 DEF SameRegs
<1>12. SameExec'
  <2>1. r'.irq_seq = "NONE" /\ ~nmi_resp' /\ ~suppress_decode'
    BY <1>1, <1>2, <1>8, <1>9 DEF SameExec
  <2>2. bus_op' = "M1" /\ t_state' = 1 /\ m_cycle' = 1
    BY <1>1 DEF StartFetch
  <2>3. ~Decoded'
    BY <2>2 DEF Decoded
  <2> QED BY <1>1, <2>1, <2>2, <2>3 DEF SameExec
<1>13. SameNmi'
  <2>1. ~res2' => Rtl!NmiN(in) = nmi_pending'
    BY <1>1, RisingFacts, NmiRises
  <2>2. nmi_pending' \in BOOLEAN /\ prev_nmi' \in BOOLEAN
    BY <1>1 DEF NmiPin, Level
  <2>3. Rtl!NmiN(in) \in BOOLEAN
    BY DEF Rtl!NmiN
  <2>4. ~Deciding'
    BY <1>1 DEF Deciding, StartFetch
  <2> QED BY <1>1, <1>9, <2>1, <2>2, <2>3, <2>4 DEF SameNmi
<1>14. SameAddr'
  BY <1>1, <1>7, AddressRises
<1> QED BY <1>7, <1>10, <1>11, <1>12, <1>13, <1>14 DEF LockInv

-----------------------------------------------------------------------------
(***************************************************************************)
(* The T-states of a running CPU.                                          *)
(***************************************************************************)
\* A running CPU is in no reset, and its rings are one.
LEMMA RunningIs ==
  ASSUME LockInv, Running, NEW in
  PROVE  /\ phi = 1 /\ phi' = 0 /\ RisingEdge
         /\ ~rst_idle /\ ~rst_idle' /\ ~res2 /\ ~rd_hold'
         /\ ~r.rst_idle /\ ~r.res2 /\ SameRing
         /\ Rtl!NextRegs(in) = Rtl!Sequenced(Rtl!Held(in), in)
<1>1. phi = 1 /\ phi' = 0 /\ RisingEdge /\ ~rst_idle /\ ~rst_idle' /\ ~res2 /\ ~rd_hold'
  BY DEF Running, RisingEdge
<1>2. ~r.rst_idle /\ ~r.res2 /\ SameRing
  BY <1>1 DEF LockInv, SameRegs
<1> QED BY <1>1, <1>2 DEF Rtl!NextRegs, Rtl!Reset

\* The flip-flop and its sample as the rising edge leaves them.
LEMMA NmiLock ==
  ASSUME phi' = 0, r'.nmi_pending \in BOOLEAN, ~res2' => r'.nmi_pending = nmi_pending',
         r'.prev_nmi = prev_nmi', prev_nmi' \in BOOLEAN,
         Deciding' => nmi_sampled' = nmi_pending'
  PROVE  SameNmi'
BY DEF SameNmi

\* NMI is sampled as the last T-state of an M-cycle begins.
LEMMA SampleDecides ==
  ASSUME NEW s, NEW i, Sample(s, i)
  PROVE  Deciding' => nmi_sampled' = nmi_pending'
BY DEF Sample, Deciding

\* The flip-flop in a step that accepts nothing.
LEMMA RunningNmi ==
  ASSUME TypeInv, ShapeInv, LockInv, Running, NmiPin(FALSE), nmi_resp' => nmi_resp,
         NEW s, NEW i, Sample(s, i), NEW in \in Inputs,
         r'.nmi_pending = Rtl!NmiN(in), r'.prev_nmi = prev_nmi'
  PROVE  SameNmi'
<1>1. phi = 1 /\ phi' = 0 /\ RisingEdge /\ ~res2
  BY RunningIs
<1>2. in.nmi_neg = prev_nmi /\ in.nmi = prev_nmi' /\ Rtl!Res2N(in) = res2'
  BY <1>1, RisingFacts
<1>3. ~res2' => Rtl!NmiN(in) = nmi_pending'
  BY <1>1, <1>2, NmiRises
<1>4. Rtl!NmiN(in) \in BOOLEAN
  BY DEF Rtl!NmiN
<1>5. prev_nmi' \in BOOLEAN
  BY DEF NmiPin, Level
<1>6. Deciding' => nmi_sampled' = nmi_pending'
  BY SampleDecides
<1> QED BY <1>1, <1>3, <1>4, <1>5, <1>6, NmiLock

\* The prefix, in a T-state that does not end the instruction.
LEMMA PrefixLock ==
  ASSUME TypeInv, LockInv, GrantBetweenMCycles, Running, prefix' = prefix, bus_op' = bus_op,
         \/ t_state' = t_state
         \/ t_state' = t_state + 1 /\ ~bus_granted /\ in_tw' = FALSE,
         r'.prefix = IF r.pend # 0 /\ ~bus_granted /\ t_state = r.pend THEN "NONE" ELSE r.prefix,
         r'.pend = IF r.pend # 0 /\ ~bus_granted /\ t_state = r.pend THEN 0 ELSE r.pend
  PROVE  SamePrefix'
<1>1. SamePrefix /\ ~rst_idle'
  BY DEF LockInv, Running
<1>2. t_state \in Nat
  BY DEF TypeInv, RingType
<1>3. CASE r.pend = 0
  BY <1>1, <1>3 DEF SamePrefix
<1>4. CASE r.pend # 0 /\ ~bus_granted /\ t_state = r.pend
  BY <1>1, <1>4 DEF SamePrefix
<1>5. CASE r.pend # 0 /\ bus_granted
  <2>1. t_state = 1 /\ t_state' = 1
    BY <1>5 DEF GrantBetweenMCycles
  <2> QED BY <1>1, <1>5, <2>1 DEF SamePrefix
<1>6. CASE r.pend # 0 /\ ~bus_granted /\ t_state # r.pend
  <2>1. r'.pend = r.pend /\ r.pend \in 1 .. 2 /\ t_state <= r.pend /\ t_state # r.pend
    BY <1>1, <1>6 DEF SamePrefix
  <2>2. t_state = 1 \/ t_state = 0
    BY <1>2, <2>1
  <2>3. t_state' <= r.pend
    BY <1>2, <2>1
  <2>4. t_state' = 2 => in_tw' = FALSE
    BY <2>2
  <2> QED BY <1>1, <1>6, <2>1, <2>3, <2>4 DEF SamePrefix
<1> QED BY <1>3, <1>4, <1>5, <1>6

\* A T-state in which only the ring and the bus grant move.
LEMMA QuietLock ==
  ASSUME TypeInv, ShapeInv, GrantBetweenMCycles, LockInv, Running,
         NEW in \in Inputs, Rtl!Posedge(in),
         NEW n, n = Rtl!NextRegs(in), DOMAIN n = Fields,
         \A f \in Fields \ {"t_state", "bus_granted"} : n[f] = Rtl!Held(in)[f],
         n.t_state = t_state', n.bus_granted = bus_granted',
         in_tw' = (stalled /\ ~bus_granted),
         \/ t_state' = t_state
         \/ t_state' = t_state + 1 /\ ~bus_granted /\ in_tw' = FALSE
            /\ ~OpcodeLatch(bus_op, t_state + 1, 0),
         UNCHANGED <<bus_op, m_len, m_cycle, m_addr, exec, disp, pc, prefix, iff1, iff2, im,
                     halted, im0_ins, suppress_decode, srst_m1, nmi_resp>>,
         NmiPin(FALSE), Sample(nmi_sampled, int_sampled), DriveAddress
  PROVE  LockInv'
<1>1. phi = 1 /\ phi' = 0 /\ RisingEdge /\ ~rst_idle /\ ~rst_idle' /\ ~res2 /\ SameRing
  BY RunningIs
<1>2. SameRegs /\ SamePrefix /\ SameExec
  BY DEF LockInv
<1> DEFINE h == Rtl!Held(in)
<1>3. /\ \A f \in Fields \ HeldFields : h[f] = r[f]
      /\ h.res2 = res2' /\ h.sres = sres' /\ h.prev_nmi = prev_nmi'
      /\ h.in_tw = (stalled /\ ~bus_granted) /\ h.nmi_pending = Rtl!NmiN(in)
      /\ h.prefix = IF r.pend # 0 /\ ~bus_granted /\ t_state = r.pend THEN "NONE" ELSE r.prefix
      /\ h.pend = IF r.pend # 0 /\ ~bus_granted /\ t_state = r.pend THEN 0 ELSE r.pend
  BY <1>1, HeldNow
<1> HIDE DEF h
<1>4. /\ DOMAIN r' = Fields
      /\ \A f \in Fields \ {"addr_hold"} : r'[f] = n[f]
      /\ r'.addr_hold = Rtl!AddrNeg
  BY PosIs
<1>5. /\ r'.m_cycle = r.m_cycle /\ r'.bus_op = r.bus_op /\ r'.m_len = r.m_len
      /\ r'.m_addr = r.m_addr /\ r'.rst_idle = r.rst_idle /\ r'.ir = r.ir
      /\ r'.pc = r.pc /\ r'.iff1 = r.iff1 /\ r'.iff2 = r.iff2 /\ r'.im = r.im
      /\ r'.halted = r.halted /\ r'.suppress_decode = r.suppress_decode
      /\ r'.im0_ins = r.im0_ins /\ r'.srst_m1 = r.srst_m1 /\ r'.irq_seq = r.irq_seq
      /\ r'.res2 = res2' /\ r'.sres = sres' /\ r'.prev_nmi = prev_nmi'
      /\ r'.in_tw = (stalled /\ ~bus_granted) /\ r'.nmi_pending = Rtl!NmiN(in)
      /\ r'.prefix = IF r.pend # 0 /\ ~bus_granted /\ t_state = r.pend THEN "NONE" ELSE r.prefix
      /\ r'.pend = IF r.pend # 0 /\ ~bus_granted /\ t_state = r.pend THEN 0 ELSE r.pend
      /\ r'.t_state = t_state' /\ r'.bus_granted = bus_granted'
  BY <1>3, <1>4 DEF Fields, HeldFields, h
<1>6. SameRing'
  BY <1>1, <1>5 DEF SameRing
<1>7. SameRegs'
  <2>1. rst_idle' = rst_idle
    BY <1>1 DEF Running, TypeInv, FlagsType
  <2> QED BY <1>1, <1>2, <1>5, <2>1 DEF SameRegs
<1>8. SamePrefix'
  BY <1>5, PrefixLock
<1>9. SameExec'
  <2>1. InFetch' => InFetch
    BY DEF InFetch, TypeInv, RingType
  <2>2. CASE r.pend # 0 /\ ~bus_granted /\ t_state = r.pend
    <3>1. bus_op \in {"M1", "INTA"} /\ m_cycle = 1 /\ t_state \in {1, 2}
      BY <1>2, <2>2 DEF SamePrefix, TypeInv, RingType
    <3>2. ~Decoded'
      BY <3>1 DEF Decoded, OpcodeLatch
    <3> QED BY <1>1, <1>2, <1>5, <2>1, <3>2 DEF SameExec
  <2>3. CASE ~(r.pend # 0 /\ ~bus_granted /\ t_state = r.pend)
    <3>1. r'.prefix = r.prefix
      BY <1>5, <2>3
    <3>2. Rtl!ExecW' = Rtl!ExecW
      BY <1>5, <3>1 DEF Rtl!ExecW
    <3>3. Decoded' => Decoded
      <4>1. m_cycle > 1 \/ bus_op \in {"M1", "INTA"}
        BY <1>1 DEF ShapeInv, TypeInv, RingType
      <4> QED BY <4>1 DEF Decoded, OpcodeLatch, TypeInv, RingType
    <3> QED BY <1>1, <1>2, <1>5, <2>1, <3>1, <3>2, <3>3 DEF SameExec
  <2> QED BY <2>2, <2>3
<1>10. SameNmi'
  BY <1>5, RunningNmi
<1>11. SameAddr'
  BY <1>1, <1>4, AddressRises
<1> QED BY <1>4, <1>6, <1>7, <1>8, <1>9, <1>10, <1>11 DEF LockInv

\* While the bus is given away the registers stay in step.
LEMMA GrantedLock ==
  ASSUME TypeInv, ShapeInv, GrantBetweenMCycles, LockInv, Granted,
         NEW in \in Inputs, Rtl!Posedge(in)
  PROVE  LockInv'
<1> DEFINE h == Rtl!Held(in)
           n == [h EXCEPT !.bus_granted = in.busreq]
<1>1. /\ Running /\ bus_granted /\ bus_granted' = busreq_s /\ in_tw' = FALSE
      /\ UNCHANGED <<t_state, bus_op, m_len, m_cycle, m_addr, exec, disp, pc, prefix, iff1, iff2,
                     im, halted, im0_ins, suppress_decode, srst_m1, nmi_resp>>
      /\ NmiPin(FALSE) /\ Sample(nmi_sampled, int_sampled) /\ DriveAddress
  BY DEF Granted, ring, enables, fetch
<1>2. RisingEdge /\ ~r.rst_idle /\ Rtl!NextRegs(in) = Rtl!Sequenced(h, in)
  BY <1>1, RunningIs
<1>3. r.bus_granted /\ in.busreq = busreq_s
  BY <1>1, InputsAre DEF LockInv, SameRegs
<1>4. n = Rtl!NextRegs(in)
  BY <1>2, <1>3 DEF Rtl!Sequenced
<1>5. DOMAIN h = Fields /\ h.t_state = r.t_state
  <2>1. DOMAIN h = Fields /\ \A f \in Fields \ HeldFields : h[f] = r[f]
    BY <1>2, HeldNow
  <2> QED BY <2>1 DEF Fields, HeldFields
<1>6. r.t_state = t_state
  BY <1>1 DEF LockInv, SameRing, Running
<1> HIDE DEF h
<1>7. /\ DOMAIN n = Fields
      /\ \A f \in Fields \ {"t_state", "bus_granted"} : n[f] = h[f]
      /\ n.t_state = t_state' /\ n.bus_granted = bus_granted'
  BY <1>1, <1>3, <1>5, <1>6 DEF Fields
<1> HIDE DEF n
<1> QED BY <1>1, <1>4, <1>7, QuietLock DEF h

\* A wait state keeps the registers in step.
LEMMA WaitStateLock ==
  ASSUME TypeInv, ShapeInv, GrantBetweenMCycles, LockInv, WaitState,
         NEW in \in Inputs, Rtl!Posedge(in)
  PROVE  LockInv'
<1> DEFINE h == Rtl!Held(in)
<1>1. /\ Running /\ ~bus_granted /\ stalled /\ in_tw' = TRUE
      /\ UNCHANGED <<t_state, bus_op, m_len, m_cycle, m_addr, exec, disp, pc, prefix, iff1, iff2,
                     im, halted, im0_ins, suppress_decode, srst_m1, nmi_resp, bus_granted>>
      /\ NmiPin(FALSE) /\ Sample(nmi_sampled, int_sampled) /\ DriveAddress
  BY DEF WaitState, ring, enables, fetch
<1>2. RisingEdge /\ ~r.rst_idle /\ Rtl!NextRegs(in) = Rtl!Sequenced(h, in)
  BY <1>1, RunningIs
<1>3. ~r.bus_granted /\ r.bus_granted = bus_granted /\ r.t_state = t_state
  BY <1>1 DEF LockInv, SameRegs, SameRing, Running
<1>4. Rtl!Stall(in)
  BY <1>1, <1>2, RisingFacts DEF Running
<1>5. h = Rtl!NextRegs(in)
  BY <1>2, <1>3, <1>4 DEF Rtl!Sequenced
<1>6. DOMAIN h = Fields /\ h.t_state = t_state' /\ h.bus_granted = bus_granted'
  <2>1. DOMAIN h = Fields /\ \A f \in Fields \ HeldFields : h[f] = r[f]
    BY <1>2, HeldNow
  <2> QED BY <1>1, <1>3, <2>1 DEF Fields, HeldFields
<1>7. in_tw' = (stalled /\ ~bus_granted)
  BY <1>1
<1> HIDE DEF h
<1> QED BY <1>1, <1>5, <1>6, <1>7, QuietLock DEF h

\* A T-state inside an M-cycle begins.
LEMMA TicksIs ==
  ASSUME TypeInv, ShapeInv, LockInv, Ticks, NEW in \in Inputs
  PROVE  /\ Running /\ RisingEdge /\ ~bus_granted /\ ~stalled /\ in_tw' = FALSE
         /\ ~r.rst_idle /\ ~r.bus_granted /\ ~Rtl!Stall(in)
         /\ r.t_state = t_state /\ r.m_len = m_len /\ r.bus_op = bus_op
         /\ Rtl!MEnd <=> t_state >= m_len
         /\ Rtl!LatchPos <=> OpcodeLatch(bus_op, t_state + 1, 0)
         /\ t_state < m_len => Rtl!NextRegs(in) = Rtl!Latched([Rtl!Held(in) EXCEPT !.t_state = @ + 1], in)
         /\ t_state >= m_len => Rtl!NextRegs(in) = Rtl!Arbitrated(Rtl!Execute(Rtl!Held(in), in), in)
<1>1. Running /\ ~bus_granted /\ ~stalled /\ in_tw' = FALSE
  BY DEF Ticks
<1>2. RisingEdge /\ ~r.rst_idle /\ SameRing /\ ~rst_idle
      /\ Rtl!NextRegs(in) = Rtl!Sequenced(Rtl!Held(in), in)
  BY <1>1, RunningIs
<1>3. ~r.bus_granted /\ ~Rtl!Stall(in)
  BY <1>1, <1>2, RisingFacts DEF LockInv, SameRegs
<1>4. r.t_state = t_state /\ r.m_len = m_len /\ r.bus_op = bus_op
  BY <1>2 DEF SameRing
<1>5. /\ Rtl!MEnd <=> t_state >= m_len
      /\ Rtl!LatchPos <=> OpcodeLatch(bus_op, t_state + 1, 0)
  BY <1>4, SameBus DEF Rtl!MEnd, Rtl!LatchPos
<1>6. t_state < m_len <=> ~(t_state >= m_len)
  BY DEF TypeInv, RingType
<1> QED BY <1>1, <1>2, <1>3, <1>4, <1>5, <1>6 DEF Rtl!Sequenced

\* The next T-state of an M-cycle keeps the registers in step.
LEMMA NextTStateLock ==
  ASSUME TypeInv, ShapeInv, GrantBetweenMCycles, LockInv, NextTState,
         NEW in \in Inputs, Rtl!Posedge(in)
  PROVE  LockInv'
<1> DEFINE h == Rtl!Held(in)
           n == [h EXCEPT !.t_state = @ + 1]
<1>1. /\ Ticks /\ t_state < m_len /\ t_state' = t_state + 1
      /\ ~OpcodeLatch(bus_op, t_state + 1, 0)
      /\ UNCHANGED <<bus_op, m_len, m_cycle, m_addr, exec, disp, pc, prefix, iff1, iff2,
                     im, halted, im0_ins, suppress_decode, srst_m1, nmi_resp, bus_granted>>
      /\ NmiPin(FALSE) /\ Sample(nmi_sampled, int_sampled) /\ DriveAddress
  BY DEF NextTState, NextT, enables, fetch
<1>2. /\ Running /\ RisingEdge /\ ~bus_granted /\ ~stalled /\ in_tw' = FALSE /\ r.t_state = t_state
      /\ ~Rtl!LatchPos /\ Rtl!NextRegs(in) = Rtl!Latched(n, in)
  BY <1>1, TicksIs
<1>3. n = Rtl!NextRegs(in)
  BY <1>2 DEF Rtl!Latched
<1>4. DOMAIN h = Fields /\ h.t_state = t_state /\ h.bus_granted = bus_granted
  <2>1. DOMAIN h = Fields /\ \A f \in Fields \ HeldFields : h[f] = r[f]
    BY <1>2, HeldNow
  <2>2. r.bus_granted = bus_granted
    BY DEF LockInv, SameRegs
  <2> QED BY <1>2, <2>1, <2>2 DEF Fields, HeldFields
<1> HIDE DEF h
<1>5. /\ DOMAIN n = Fields
      /\ \A f \in Fields \ {"t_state", "bus_granted"} : n[f] = h[f]
      /\ n.t_state = t_state' /\ n.bus_granted = bus_granted'
  BY <1>1, <1>4 DEF Fields
<1>6. in_tw' = (stalled /\ ~bus_granted)
  BY <1>2
<1> HIDE DEF n
<1> QED BY <1>1, <1>2, <1>3, <1>5, <1>6, QuietLock DEF h

\* The opcode the C model decodes is the one the RTL's byte decodes to.
LEMMA DecodeAgrees ==
  ASSUME Decode, NEW b, ~Discards, LatchesByte, b \in Bytes
  PROVE  /\ prefix # "IDXCB" /\ disp' = UsesDisp(prefix, exec')
         /\ b.under = prefix /\ b.exec = exec'
<1>1. PICK op \in Ops \cap Page(prefix) : exec' = op /\ disp' = UsesDisp(prefix, op)
  BY DEF Decode
<1>2. op \notin {"ILLEGAL"} /\ (op = "CB_M" => prefix # "NONE") /\ (op = "IM" => prefix # "NONE")
  BY <1>1, OpsAssumption DEF Page, MainPage, EdPage, CbPage
<1>3. prefix # "IDXCB"
  BY <1>1, <1>2 DEF Page
<1>4. b \in (IF exec' = "HALT" THEN {} ELSE {Rtl!Opcode(prefix, exec')})
              \cup (IF exec' \in {"HALT", "CB_M", "IM"} THEN {Rtl!HaltByte(prefix, exec')} ELSE {})
  BY DEF Bytes
<1>5. b.under = prefix /\ b.exec = exec'
  BY <1>4 DEF Rtl!Opcode, Rtl!HaltByte
<1> QED BY <1>1, <1>3, <1>5

\* The registers after an opcode's latch, but for what it takes.
LEMMA LatchedNow ==
  ASSUME TypeInv, ShapeInv, LockInv, Ticks, NextT, OpcodeLatch(bus_op, t_state + 1, 0),
         NEW in \in Inputs, Rtl!Posedge(in)
  PROVE  LET t == [Rtl!Held(in) EXCEPT !.t_state = @ + 1]
         IN /\ DOMAIN t = Fields /\ LatchShape(t, Rtl!Latched(t, in), in)
            /\ t.pc = r.pc /\ t.ir = r.ir /\ t.suppress_decode = r.suppress_decode
            /\ t.srst_m1 = r.srst_m1 /\ t.irq_seq = r.irq_seq /\ t.im0_ins = r.im0_ins
            /\ DOMAIN r' = Fields /\ r'.addr_hold = Rtl!AddrNeg
            /\ \A f \in LatchFields : r'[f] = Rtl!Latched(t, in)[f]
            /\ r'.t_state = t_state + 1 /\ r'.m_cycle = r.m_cycle /\ r'.bus_op = r.bus_op
            /\ r'.m_len = r.m_len /\ r'.m_addr = r.m_addr /\ r'.rst_idle = r.rst_idle
            /\ r'.iff1 = r.iff1 /\ r'.iff2 = r.iff2 /\ r'.im = r.im /\ r'.halted = r.halted
            /\ r'.bus_granted = r.bus_granted
            /\ r'.res2 = res2' /\ r'.sres = sres' /\ r'.prev_nmi = prev_nmi'
            /\ r'.in_tw = FALSE /\ r'.nmi_pending = Rtl!NmiN(in)
            /\ r'.prefix = prefix /\ r'.pend = 0
<1> DEFINE h == Rtl!Held(in)
           t == [h EXCEPT !.t_state = @ + 1]
           n == Rtl!Latched(t, in)
<1>1. /\ Running /\ RisingEdge /\ ~bus_granted /\ ~stalled /\ r.t_state = t_state
      /\ Rtl!LatchPos /\ Rtl!NextRegs(in) = n
  BY TicksIs DEF NextT
<1>2. r.pend # 0 => t_state = r.pend
  BY DEF LockInv, SamePrefix, OpcodeLatch, TypeInv, RingType
<1>3. /\ DOMAIN h = Fields
      /\ \A f \in Fields \ HeldFields : h[f] = r[f]
      /\ h.res2 = res2' /\ h.sres = sres' /\ h.prev_nmi = prev_nmi'
      /\ h.in_tw = (stalled /\ ~bus_granted) /\ h.nmi_pending = Rtl!NmiN(in)
      /\ h.prefix = IF r.pend # 0 /\ ~bus_granted /\ t_state = r.pend THEN "NONE" ELSE r.prefix
      /\ h.pend = IF r.pend # 0 /\ ~bus_granted /\ t_state = r.pend THEN 0 ELSE r.pend
  BY <1>1, HeldNow DEF Running
<1>4. h.in_tw = FALSE /\ h.prefix = prefix /\ h.pend = 0
  BY <1>1, <1>2, <1>3 DEF LockInv, SamePrefix
<1> HIDE DEF h
<1>5. /\ DOMAIN t = Fields
      /\ \A f \in Fields \ {"t_state"} : t[f] = h[f]
      /\ t.t_state = t_state + 1
  <2>1. h.t_state = t_state
    BY <1>1, <1>3 DEF Fields, HeldFields
  <2> QED BY <1>3, <2>1, TickIs
<1> HIDE DEF t
<1>6. LatchShape(t, n, in)
  BY <1>1, <1>5, LatchedIs
<1> HIDE DEF n
<1>7. DOMAIN n = Fields /\ \A f \in Fields \ LatchFields : n[f] = t[f]
  BY <1>6 DEF LatchShape
<1>8. /\ DOMAIN r' = Fields
      /\ \A f \in Fields \ {"addr_hold"} : r'[f] = n[f]
      /\ r'.addr_hold = Rtl!AddrNeg
  BY <1>1, <1>7, PosIs
<1>9. /\ t.pc = r.pc /\ t.ir = r.ir /\ t.suppress_decode = r.suppress_decode
      /\ t.srst_m1 = r.srst_m1 /\ t.irq_seq = r.irq_seq /\ t.im0_ins = r.im0_ins
  BY <1>3, <1>5 DEF Fields, HeldFields
<1>10. \A f \in LatchFields : r'[f] = n[f]
  BY <1>8 DEF Fields, LatchFields
<1>11. /\ r'.t_state = t_state + 1 /\ r'.m_cycle = r.m_cycle /\ r'.bus_op = r.bus_op
       /\ r'.m_len = r.m_len /\ r'.m_addr = r.m_addr /\ r'.rst_idle = r.rst_idle
       /\ r'.iff1 = r.iff1 /\ r'.iff2 = r.iff2 /\ r'.im = r.im /\ r'.halted = r.halted
       /\ r'.bus_granted = r.bus_granted
  BY <1>3, <1>5, <1>7, <1>8 DEF Fields, LatchFields, HeldFields
<1>12. /\ r'.res2 = res2' /\ r'.sres = sres' /\ r'.prev_nmi = prev_nmi'
       /\ r'.in_tw = FALSE /\ r'.nmi_pending = Rtl!NmiN(in)
       /\ r'.prefix = prefix /\ r'.pend = 0
  BY <1>3, <1>4, <1>5, <1>7, <1>8 DEF Fields, LatchFields, HeldFields
<1> QED BY <1>5, <1>6, <1>8, <1>9, <1>10, <1>11, <1>12 DEF h, t, n

\* The opcode's latch keeps the registers in step.
LEMMA LatchM1Lock ==
  ASSUME TypeInv, ShapeInv, GrantBetweenMCycles, LockInv, LatchM1,
         NEW in \in Inputs, Rtl!Posedge(in)
  PROVE  LockInv'
<1>1. /\ Ticks /\ NextT /\ bus_op = "M1" /\ OpcodeLatch(bus_op, t_state + 1, 0)
      /\ TakeOpcode /\ srst_m1' = FALSE /\ suppress_decode' = FALSE
      /\ UNCHANGED <<im0_ins, prefix, iff1, iff2, im, halted, nmi_resp, bus_granted>>
      /\ NmiPin(FALSE) /\ Sample(nmi_sampled, int_sampled) /\ DriveAddress
  BY DEF LatchM1, enables
<1>2. /\ Running /\ phi = 1 /\ phi' = 0 /\ ~rst_idle /\ ~rst_idle' /\ ~res2
      /\ SameRing /\ SameRegs /\ SamePrefix /\ SameExec /\ in_tw' = FALSE
  BY <1>1, RunningIs DEF Ticks, LockInv
<1>3. /\ t_state = 2 /\ t_state' = 3
      /\ UNCHANGED <<bus_op, m_len, m_cycle, m_addr>>
  BY <1>1 DEF NextT, OpcodeLatch, TypeInv, RingType
<1> DEFINE t == [Rtl!Held(in) EXCEPT !.t_state = @ + 1]
           n == Rtl!Latched(t, in)
<1>4. /\ LatchShape(t, n, in)
      /\ t.pc = r.pc /\ t.irq_seq = r.irq_seq /\ t.im0_ins = r.im0_ins
      /\ DOMAIN r' = Fields /\ r'.addr_hold = Rtl!AddrNeg
      /\ \A f \in LatchFields : r'[f] = n[f]
      /\ r'.t_state = t_state + 1 /\ r'.m_cycle = r.m_cycle /\ r'.bus_op = r.bus_op
      /\ r'.m_len = r.m_len /\ r'.m_addr = r.m_addr /\ r'.rst_idle = r.rst_idle
      /\ r'.iff1 = r.iff1 /\ r'.iff2 = r.iff2 /\ r'.im = r.im /\ r'.halted = r.halted
      /\ r'.bus_granted = r.bus_granted
      /\ r'.res2 = res2' /\ r'.sres = sres' /\ r'.prev_nmi = prev_nmi'
      /\ r'.in_tw = FALSE /\ r'.nmi_pending = Rtl!NmiN(in)
      /\ r'.prefix = prefix /\ r'.pend = 0
  BY <1>1, LatchedNow
<1> HIDE DEF t, n
<1>5. r.bus_op = "M1"
  BY <1>1, <1>2 DEF SameRing
<1>6. /\ r'.ir = IF r.srst_m1 THEN Rtl!Opcode("NONE", "NOP") ELSE in.byte
      /\ r'.pc = IF r.srst_m1 THEN 0 ELSE IF r.suppress_decode THEN r.pc ELSE Rtl!PcInc
      /\ r'.suppress_decode = FALSE /\ r'.srst_m1 = FALSE
      /\ r'.irq_seq = r.irq_seq /\ r'.im0_ins = r.im0_ins
  BY <1>4, <1>5 DEF LatchShape, LatchFields
<1>7. SameRing'
  BY <1>1, <1>2, <1>3, <1>4 DEF SameRing
<1>8. SameRegs'
  <2>1. pc' = IF srst_m1 THEN 0 ELSE IF suppress_decode THEN pc ELSE PCInc
    BY <1>1 DEF TakeOpcode
  <2>2. PCInc = (pc + 1) % PCMod
    BY <1>1 DEF PCInc, ShapeInv
  <2>3. r'.pc = pc'
    BY <1>2, <1>6, <2>1, <2>2 DEF SameRegs, Rtl!PcInc
  <2>4. rst_idle' = rst_idle
    BY <1>2 DEF Running, TypeInv, FlagsType
  <2> QED BY <1>1, <1>2, <1>4, <1>6, <2>3, <2>4 DEF SameRegs
<1>9. SamePrefix'
  BY <1>1, <1>4 DEF SamePrefix
<1>10. SameExec'
  <2>1. suppress_decode <=> r.irq_seq # "NONE"
    BY <1>1, <1>2, <1>3 DEF SameExec, InFetch
  <2>2. CASE suppress_decode
    <3>1. UNCHANGED <<exec, disp>>
      BY <1>1, <2>2 DEF TakeOpcode
    <3> QED BY <1>1, <1>2, <1>3, <1>6, <2>1, <2>2, <3>1 DEF SameExec, InFetch
  <2>3. CASE ~suppress_decode
    <3>1. Rtl!ExecW' = exec' /\ disp' = UsesDisp(r'.prefix, exec')
      <4>1. CASE srst_m1
        <5>1. prefix = "NONE" /\ exec' = "NOP" /\ disp' = FALSE
          BY <1>1, <2>3, <4>1 DEF ShapeInv, TakeOpcode
        <5>2. r'.prefix = "NONE" /\ r'.ir.under = "NONE" /\ r'.ir.exec = "NOP"
          BY <1>2, <1>4, <1>6, <4>1, <5>1 DEF SameRegs, Rtl!Opcode
        <5> QED BY <5>1, <5>2 DEF Rtl!ExecW, UsesDisp
      <4>2. CASE ~srst_m1
        <5>1. Decode
          BY <1>1, <2>3, <4>2 DEF TakeOpcode
        <5>2. ~Discards /\ LatchesByte
          BY <1>1, <1>2, <2>3, <4>2 DEF Discards, LatchesByte
        <5>3. in.byte \in Bytes
          BY InputsAre
        <5>4. /\ prefix # "IDXCB" /\ disp' = UsesDisp(prefix, exec')
              /\ in.byte.under = prefix /\ in.byte.exec = exec'
          BY <5>1, <5>2, <5>3, DecodeAgrees
        <5>5. r'.ir = in.byte
          BY <1>2, <1>6, <4>2 DEF SameRegs
        <5> QED BY <1>4, <5>4, <5>5 DEF Rtl!ExecW
      <4> QED BY <4>1, <4>2
    <3>2. ~InFetch'
      BY <1>3 DEF InFetch
    <3>3. /\ r'.irq_seq = "NONE" /\ bus_op' = "M1" /\ ~rst_idle'
      BY <1>1, <1>2, <1>3, <1>6, <2>1, <2>3 DEF SameExec
    <3>4. ~nmi_resp'
      BY <1>1, <1>2, <2>1, <2>3 DEF SameExec
    <3> QED BY <3>1, <3>2, <3>3, <3>4 DEF SameExec
  <2> QED BY <2>2, <2>3
<1>11. SameNmi'
  BY <1>1, <1>2, <1>4, RunningNmi
<1>12. SameAddr'
  BY <1>1, <1>2, <1>4, AddressRises
<1> QED BY <1>4, <1>7, <1>8, <1>9, <1>10, <1>11, <1>12 DEF LockInv

\* So does the latch of the byte an interrupting device puts out.
LEMMA LatchINTALock ==
  ASSUME TypeInv, ShapeInv, GrantBetweenMCycles, LockInv, LatchINTA,
         NEW in \in Inputs, Rtl!Posedge(in)
  PROVE  LockInv'
<1>1. /\ Ticks /\ NextT /\ bus_op = "INTA" /\ OpcodeLatch(bus_op, t_state + 1, 0)
      /\ IF im = 0 THEN Decode /\ im0_ins' = TRUE ELSE UNCHANGED <<exec, disp, im0_ins>>
      /\ UNCHANGED <<pc, prefix, iff1, iff2, im, halted, suppress_decode, srst_m1, nmi_resp,
                     bus_granted>>
      /\ NmiPin(FALSE) /\ Sample(nmi_sampled, int_sampled) /\ DriveAddress
  BY DEF LatchINTA, enables
<1>2. /\ Running /\ phi = 1 /\ phi' = 0 /\ ~rst_idle /\ ~rst_idle' /\ ~res2
      /\ SameRing /\ SameRegs /\ SamePrefix /\ SameExec /\ in_tw' = FALSE
  BY <1>1, RunningIs DEF Ticks, LockInv
<1>3. /\ t_state = 4 /\ t_state' = 5
      /\ UNCHANGED <<bus_op, m_len, m_cycle, m_addr>>
  BY <1>1 DEF NextT, OpcodeLatch, TypeInv, RingType
<1> DEFINE t == [Rtl!Held(in) EXCEPT !.t_state = @ + 1]
           n == Rtl!Latched(t, in)
<1>4. /\ LatchShape(t, n, in)
      /\ t.pc = r.pc /\ t.ir = r.ir /\ t.suppress_decode = r.suppress_decode
      /\ t.srst_m1 = r.srst_m1 /\ t.irq_seq = r.irq_seq /\ t.im0_ins = r.im0_ins
      /\ DOMAIN r' = Fields /\ r'.addr_hold = Rtl!AddrNeg
      /\ \A f \in LatchFields : r'[f] = n[f]
      /\ r'.t_state = t_state + 1 /\ r'.m_cycle = r.m_cycle /\ r'.bus_op = r.bus_op
      /\ r'.m_len = r.m_len /\ r'.m_addr = r.m_addr /\ r'.rst_idle = r.rst_idle
      /\ r'.iff1 = r.iff1 /\ r'.iff2 = r.iff2 /\ r'.im = r.im /\ r'.halted = r.halted
      /\ r'.bus_granted = r.bus_granted
      /\ r'.res2 = res2' /\ r'.sres = sres' /\ r'.prev_nmi = prev_nmi'
      /\ r'.in_tw = FALSE /\ r'.nmi_pending = Rtl!NmiN(in)
      /\ r'.prefix = prefix /\ r'.pend = 0
  BY <1>1, LatchedNow
<1> HIDE DEF t, n
<1>5. r.bus_op # "M1" /\ r.im = im
  BY <1>1, <1>2 DEF SameRing, SameRegs
<1>6. /\ r'.pc = r.pc /\ r'.suppress_decode = r.suppress_decode /\ r'.srst_m1 = r.srst_m1
      /\ im = 0 => r'.ir = in.byte /\ r'.irq_seq = "NONE" /\ r'.im0_ins = TRUE
      /\ im # 0 => r'.ir = r.ir /\ r'.irq_seq = r.irq_seq /\ r'.im0_ins = r.im0_ins
  BY <1>4, <1>5 DEF LatchShape, LatchFields
<1>7. SameRing'
  BY <1>1, <1>2, <1>3, <1>4 DEF SameRing
<1>8. SameRegs'
  <2>1. rst_idle' = rst_idle
    BY <1>2 DEF Running, TypeInv, FlagsType
  <2>2. r'.im0_ins = im0_ins'
    BY <1>1, <1>2, <1>6 DEF SameRegs
  <2> QED BY <1>1, <1>2, <1>4, <1>6, <2>1, <2>2 DEF SameRegs
<1>9. SamePrefix'
  BY <1>1, <1>4 DEF SamePrefix
<1>10. SameExec'
  <2>1. r.irq_seq \in {"NONE", "INT"} /\ ~nmi_resp /\ ~nmi_resp'
    BY <1>1, <1>2 DEF SameExec
  <2>2. ~InFetch'
    BY <1>1, <1>3 DEF InFetch
  <2>3. CASE im = 0
    <3>1. Decode
      BY <1>1, <2>3
    <3>2. ~Discards /\ LatchesByte
      BY <1>1, <1>2 DEF Discards, LatchesByte
    <3>3. in.byte \in Bytes
      BY InputsAre
    <3>4. /\ prefix # "IDXCB" /\ disp' = UsesDisp(prefix, exec')
          /\ in.byte.under = prefix /\ in.byte.exec = exec'
      BY <3>1, <3>2, <3>3, DecodeAgrees
    <3>5. Rtl!ExecW' = exec'
      BY <1>4, <1>6, <2>3, <3>4 DEF Rtl!ExecW
    <3> QED BY <1>1, <1>2, <1>4, <1>6, <2>1, <2>2, <2>3, <3>4, <3>5 DEF SameExec
  <2>4. CASE im # 0
    <3>1. UNCHANGED <<exec, disp>> /\ r.irq_seq = "INT"
      BY <1>1, <1>2, <2>1, <2>4, RunningIs DEF SameExec
    <3>2. exec' = "INT" /\ disp' = FALSE /\ r'.irq_seq = "INT" /\ bus_op' = "INTA" /\ ~rst_idle'
      BY <1>1, <1>2, <1>3, <1>6, <2>4, <3>1 DEF SameExec, TypeInv
    <3> QED BY <2>1, <2>2, <3>2 DEF SameExec
  <2> QED BY <2>3, <2>4
<1>11. SameNmi'
  BY <1>1, <1>2, <1>4, RunningNmi
<1>12. SameAddr'
  BY <1>1, <1>2, <1>4, AddressRises
<1> QED BY <1>4, <1>7, <1>8, <1>9, <1>10, <1>11, <1>12 DEF LockInv

-----------------------------------------------------------------------------
(***************************************************************************)
(* The M-cycles' ends.                                                     *)
(***************************************************************************)
\* Both cores decide on the same instruction, prefix and samples.
LEMMA MEndNow ==
  ASSUME TypeInv, ShapeInv, LockInv, Ticks, EndsMCycle, NEW in \in Inputs
  PROVE  /\ Decoded /\ r.pend = 0 /\ r.prefix = prefix
         /\ ~suppress_decode /\ ~srst_m1 /\ ~rst_idle /\ ~res2
         /\ Rtl!EffExec = exec /\ Rtl!Disp = disp
         /\ r.nmi_pending = nmi_sampled /\ in.int = int_sampled
<1>1. ~rst_idle /\ ~res2 /\ ~bus_granted /\ t_state = m_len
  BY RunningIs DEF Ticks, EndsMCycle
<1>2. SameRegs /\ SamePrefix /\ SameExec /\ SameNmi
  BY DEF LockInv
<1>3. /\ bus_op \in {"M1", "INTA"} => t_state >= 4
      /\ bus_op = "INTA" => t_state >= 6
      /\ m_cycle > 1 \/ m_cycle = 1
  BY <1>1 DEF TypeInv, RingType
<1>4. Decoded
  BY <1>1, <1>3 DEF ShapeInv, Decoded, TypeInv, RingType
<1>5. r.pend = 0 /\ r.prefix = prefix
  <2>1. r.pend # 0 => bus_op \in {"M1", "INTA"} /\ t_state <= 2
    BY <1>2 DEF SamePrefix, TypeInv, RingType
  <2> QED BY <1>2, <1>3, <2>1 DEF SamePrefix, TypeInv, RingType
<1>6. ~suppress_decode /\ ~srst_m1
  BY <1>3 DEF ShapeInv, TypeInv, RingType
<1>7. Rtl!EffExec = exec
  BY <1>1, <1>2, <1>4, ExecAgrees
<1>8. Rtl!Disp <=> disp
  <2>1. CASE r.irq_seq = "NONE"
    BY <1>1, <1>2, <1>4, <1>7, <2>1, SameDecode DEF SameExec, Rtl!Disp
  <2>2. CASE r.irq_seq # "NONE"
    BY <1>2, <2>2 DEF SameExec, Rtl!Disp
  <2> QED BY <2>1, <2>2
<1>9. Rtl!Disp = disp
  <2>1. Rtl!Disp \in BOOLEAN /\ disp \in BOOLEAN
    BY DEF Rtl!Disp, TypeInv, ExecType
  <2> QED BY <1>8, <2>1
<1>10. r.nmi_pending = nmi_sampled
  BY <1>1, <1>2 DEF SameNmi, Deciding
<1>11. in.int = int_sampled
  BY <1>1, InputsAre DEF IntRise
<1> QED BY <1>1, <1>4, <1>5, <1>6, <1>7, <1>9, <1>10, <1>11

\* The registers the M-cycle's end starts from.
LEMMA MEndHeld ==
  ASSUME TypeInv, ShapeInv, LockInv, Ticks, EndsMCycle, NEW in \in Inputs
  PROVE  LET h == Rtl!Held(in)
         IN /\ DOMAIN h = Fields
            /\ \A f \in Fields \ HeldFields : h[f] = r[f]
            /\ h.res2 = res2' /\ h.sres = sres' /\ h.prev_nmi = prev_nmi'
            /\ h.in_tw = FALSE /\ h.nmi_pending = Rtl!NmiN(in)
            /\ h.prefix = prefix /\ h.pend = 0 /\ h.pc = r.pc
            /\ Rtl!NextRegs(in) = Rtl!Arbitrated(Rtl!Execute(h, in), in)
<1> DEFINE h == Rtl!Held(in)
<1>1. /\ Running /\ RisingEdge /\ ~bus_granted /\ ~stalled
      /\ t_state >= m_len => Rtl!NextRegs(in) = Rtl!Arbitrated(Rtl!Execute(h, in), in)
  BY TicksIs
<1>2. t_state >= m_len
  BY DEF EndsMCycle, TypeInv, RingType
<1>3. /\ DOMAIN h = Fields
      /\ \A f \in Fields \ HeldFields : h[f] = r[f]
      /\ h.res2 = res2' /\ h.sres = sres' /\ h.prev_nmi = prev_nmi'
      /\ h.in_tw = (stalled /\ ~bus_granted) /\ h.nmi_pending = Rtl!NmiN(in)
      /\ h.prefix = IF r.pend # 0 /\ ~bus_granted /\ t_state = r.pend THEN "NONE" ELSE r.prefix
      /\ h.pend = IF r.pend # 0 /\ ~bus_granted /\ t_state = r.pend THEN 0 ELSE r.pend
  BY <1>1, HeldNow DEF Running
<1>4. r.pend = 0 /\ r.prefix = prefix
  BY MEndNow
<1>5. h.in_tw = FALSE
  BY <1>1, <1>3
<1> HIDE DEF h
<1>6. h.pc = r.pc
  BY <1>3 DEF Fields, HeldFields
<1> QED BY <1>1, <1>2, <1>3, <1>4, <1>5, <1>6 DEF h

\* The templates of the relative jumps and of the block instructions.
LEMMA TemplateJumps ==
  /\ \A ex \in {"JR", "JR_CC", "DJNZ"} : Template[ex] = Relative[ex]
  /\ \A ex \in {"LDI", "CPI", "INI", "OUTI"} : Template[ex] = Block[ex]
<1>1. ASSUME NEW ex \in {"JR", "JR_CC", "DJNZ"} PROVE Template[ex] = Relative[ex]
  <2>1. \A i \in 1 .. 11 : ex \in DOMAIN Groups[i] => i = 6
    <3>1. /\ ex \notin DOMAIN SingleCycle /\ ex \notin DOMAIN IndexedBit
          /\ ex \notin DOMAIN Extended /\ ex \notin DOMAIN Byte
          /\ ex \notin DOMAIN Word /\ ex \notin DOMAIN Stack
          /\ ex \notin DOMAIN InputOutput /\ ex \notin DOMAIN Extras
          /\ ex \notin DOMAIN Block /\ ex \notin DOMAIN Response
      BY DEF SingleCycle, IndexedBit, Extended, Byte, Word, Stack, InputOutput, Extras, Block,
             Response
    <3> QED BY <3>1 DEF Groups
  <2>2. ex \in DOMAIN Groups[6] /\ ex \in Classes /\ ex \notin Prefixes /\ Groups[6] = Relative
    BY DEF Groups, Relative, Classes, Prefixes
  <2> QED BY <2>1, <2>2 DEF Template
<1>2. ASSUME NEW ex \in {"LDI", "CPI", "INI", "OUTI"} PROVE Template[ex] = Block[ex]
  <2>1. \A i \in 1 .. 11 : ex \in DOMAIN Groups[i] => i = 10
    <3>1. /\ ex \notin DOMAIN SingleCycle /\ ex \notin DOMAIN IndexedBit
          /\ ex \notin DOMAIN Extended /\ ex \notin DOMAIN Byte
          /\ ex \notin DOMAIN Word /\ ex \notin DOMAIN Stack
          /\ ex \notin DOMAIN InputOutput /\ ex \notin DOMAIN Extras
          /\ ex \notin DOMAIN Relative /\ ex \notin DOMAIN Response
      BY DEF SingleCycle, IndexedBit, Extended, Byte, Word, Stack, InputOutput, Extras, Relative,
             Response
    <3> QED BY <3>1 DEF Groups
  <2>2. ex \in DOMAIN Groups[10] /\ ex \in Classes /\ ex \notin Prefixes /\ Groups[10] = Block
    BY DEF Groups, Block, Classes, Prefixes
  <2> QED BY <2>1, <2>2 DEF Template
<1> QED BY <1>1, <1>2

\* The M-cycle after a PC load or a repeat is an internal one; none does both.
LEMMA JumpCycles ==
  ASSUME NEW ex, NEW m, <<ex, m>> \in LoadsGoingOn \cup Repeats
  PROVE  /\ Cycles(ex, FALSE)[m].src = "REG"
         /\ <<ex, m>> \in LoadsGoingOn => <<ex, m>> \notin Repeats
         /\ ex \notin DispClasses
<1>1. \/ ex \in {"JR", "JR_CC"} /\ m = 2
      \/ ex \in {"DJNZ", "LDI", "CPI"} /\ m = 3
      \/ ex \in {"INI", "OUTI"} /\ m = 4
  BY DEF LoadsGoingOn, Repeats
<1>2. <<ex, m>> \in LoadsGoingOn => <<ex, m>> \notin Repeats
  BY <1>1 DEF LoadsGoingOn, Repeats
<1>3. ex \notin DispClasses
  BY <1>1 DEF DispClasses
<1>4. Cycles(ex, FALSE)[m] = Internal(5)
  <2>1. CASE ex \in {"JR", "JR_CC", "DJNZ"}
    BY <1>1, <2>1, TemplateJumps DEF Cycles, Relative
  <2>2. CASE ex \in {"LDI", "CPI", "INI", "OUTI"}
    BY <1>1, <2>2, TemplateJumps DEF Cycles, Block
  <2> QED BY <1>1, <2>1, <2>2
<1>5. Internal(5).src = "REG"
  BY DEF Internal
<1> QED BY <1>2, <1>3, <1>4, <1>5

\* What both make of an M-cycle's end, once it is known what is executed.
LEMMA MEndLock ==
  ASSUME TypeInv, ShapeInv, LockInv, Ticks, EndsMCycle, Arbitrate, DriveAddress,
         NEW in \in Inputs, Rtl!Posedge(in),
         NEW x, x = Rtl!Execute(Rtl!Held(in), in), DOMAIN x = Fields,
         x.res2 = res2', x.sres = sres', x.rst_idle = r.rst_idle, x.in_tw = FALSE,
         x.t_state = t_state', x.m_cycle = m_cycle', x.bus_op = bus_op', x.m_len = m_len',
         x.m_addr = m_addr', x.pc = pc', x.iff1 = iff1', x.iff2 = iff2', x.im = im',
         x.halted = halted', x.suppress_decode = suppress_decode', x.im0_ins = im0_ins',
         x.srst_m1 = srst_m1'
  PROVE  /\ DOMAIN r' = Fields /\ SameRing' /\ SameRegs' /\ SameAddr'
         /\ \A f \in Fields \ {"bus_granted", "addr_hold"} : r'[f] = x[f]
<1> DEFINE n == Rtl!Arbitrated(x, in)
<1>1. /\ phi = 1 /\ phi' = 0 /\ RisingEdge /\ ~rst_idle /\ ~rst_idle' /\ SameRegs
      /\ in_tw' = FALSE
  BY RunningIs DEF Ticks, LockInv
<1>2. n = Rtl!NextRegs(in)
  BY MEndHeld
<1>3. /\ DOMAIN n = Fields
      /\ \A f \in Fields \ {"bus_granted"} : n[f] = x[f]
      /\ n.bus_granted = (in.busreq /\ ~(x.bus_op = "INTERNAL" /\ x.m_len <= 2))
  BY DEF Rtl!Arbitrated, Fields
<1> HIDE DEF n
<1>4. /\ DOMAIN r' = Fields
      /\ \A f \in Fields \ {"addr_hold"} : r'[f] = n[f]
      /\ r'.addr_hold = Rtl!AddrNeg
  BY <1>2, <1>3, PosIs
<1>5. in.busreq = busreq_s
  BY InputsAre
<1>6. n.bus_granted = bus_granted'
  BY <1>3, <1>5 DEF Arbitrate
<1>7. \A f \in Fields \ {"bus_granted", "addr_hold"} : r'[f] = x[f]
  BY <1>3, <1>4
<1>8. SameRing'
  BY <1>7 DEF SameRing, Fields
<1>9. SameRegs'
  <2>1. rst_idle' = rst_idle
    BY <1>1 DEF Ticks, Running, TypeInv, FlagsType
  <2>2. r'.rst_idle = r.rst_idle /\ r.rst_idle = rst_idle
    BY <1>1, <1>7 DEF Fields, SameRegs
  <2>3. r'.bus_granted = bus_granted'
    BY <1>4, <1>6 DEF Fields
  <2>4. r'.in_tw = FALSE /\ r'.res2 = res2' /\ r'.sres = sres'
    BY <1>7 DEF Fields
  <2>5. /\ r'.pc = pc' /\ r'.iff1 = iff1' /\ r'.iff2 = iff2' /\ r'.im = im' /\ r'.halted = halted'
        /\ r'.suppress_decode = suppress_decode' /\ r'.im0_ins = im0_ins' /\ r'.srst_m1 = srst_m1'
    BY <1>7 DEF Fields
  <2> QED BY <1>1, <2>1, <2>2, <2>3, <2>4, <2>5 DEF SameRegs
<1>10. SameAddr'
  BY <1>1, <1>4, AddressRises
<1> QED BY <1>4, <1>7, <1>8, <1>9, <1>10

\* A prefix byte's end keeps the registers in step.
LEMMA NextPrefixLock ==
  ASSUME TypeInv, ShapeInv, LockInv, NextPrefix,
         NEW in \in Inputs, Rtl!Posedge(in)
  PROVE  LockInv'
<1> DEFINE h == Rtl!Held(in)
           x == Rtl!ExecPrefix(h)
<1>1. /\ Ticks /\ EndsMCycle /\ exec \in Prefixes /\ GoesOnPrefix /\ Arbitrate
      /\ prefix' = PrefixAfter(prefix, exec)
      /\ pc' = IF prefix' = "IDXCB" THEN PCInc ELSE pc
      /\ UNCHANGED <<iff1, iff2, im, halted, im0_ins, suppress_decode, srst_m1, nmi_resp>>
      /\ NmiPin(FALSE) /\ Sample(nmi_sampled, int_sampled) /\ DriveAddress
  BY DEF NextPrefix, GoesOnPrefix, enables, fetch
<1>2. /\ Running /\ ~rst_idle /\ ~rst_idle' /\ SameRing /\ SameRegs /\ SameExec
  BY <1>1, RunningIs DEF LockInv, Ticks
<1>3. /\ Decoded /\ r.pend = 0 /\ r.prefix = prefix /\ ~suppress_decode /\ ~srst_m1
      /\ Rtl!EffExec = exec
  BY <1>1, MEndNow
<1>4. /\ DOMAIN h = Fields
      /\ \A f \in Fields \ HeldFields : h[f] = r[f]
      /\ h.res2 = res2' /\ h.sres = sres' /\ h.prev_nmi = prev_nmi'
      /\ h.in_tw = FALSE /\ h.nmi_pending = Rtl!NmiN(in)
      /\ h.prefix = prefix /\ h.pend = 0 /\ h.pc = r.pc
  BY <1>1, MEndHeld
<1>5. x = Rtl!Execute(h, in)
  BY <1>1, <1>3, SameDecode DEF Rtl!Execute
<1> HIDE DEF h
<1> DEFINE p == PrefixAfter(prefix, exec)
<1>6. Rtl!PrefixAfter(r.prefix, Rtl!EffExec) = p
  BY <1>3, SameDecode
<1>7. /\ DOMAIN x = Fields
      /\ \A f \in Fields \ (FetchFields \cup {"prefix", "pc"}) : x[f] = h[f]
      /\ x.prefix = p /\ x.t_state = 1
      /\ p = "IDXCB" =>
           /\ x.pc = Rtl!PcOperand /\ x.bus_op = Rtl!Operand.bus
           /\ x.m_len = Rtl!BaseLen[Rtl!Operand.bus] + Rtl!Operand.extra
           /\ x.m_addr = IF Rtl!Operand.src = "PC" THEN <<"PC", r.pc>> ELSE <<"REG", r.m_cycle + 1>>
           /\ x.m_cycle = r.m_cycle + 1
      /\ p # "IDXCB" =>
           /\ x.pc = h.pc /\ x.m_addr = <<"PC", r.pc>> /\ x.m_cycle = 1
           /\ r.im0_ins => x.bus_op = "INTA" /\ x.m_len = 6
           /\ ~r.im0_ins => x.bus_op = "M1" /\ x.m_len = 4
  BY <1>4, <1>6, PrefixIs
<1> HIDE DEF x, p
<1>8. /\ r.im0_ins = im0_ins /\ r.pc = pc /\ im0_ins \in BOOLEAN /\ p = prefix'
  BY <1>1, <1>2 DEF SameRegs, TypeInv, FlagsType, p
<1>9. /\ x.pc = pc' /\ x.t_state = t_state' /\ x.m_cycle = m_cycle' /\ x.bus_op = bus_op'
      /\ x.m_len = m_len' /\ x.m_addr = m_addr' /\ disp' = FALSE
      /\ p = "IDXCB" => exec' = "DDCB" /\ m_cycle' > 1 /\ bus_op' = "MRD"
      /\ p # "IDXCB" => m_cycle' = 1 /\ t_state' = 1
      /\ bus_op' = "INTA" => im0_ins
  <2>1. CASE p = "IDXCB"
    <3>1. StartMCycle(Operand) /\ exec' = "DDCB" /\ disp' = FALSE
      BY <1>1, <2>1 DEF GoesOnPrefix, p
    <3>2. Rtl!PcOperand = PCInc
      BY <1>8 DEF Rtl!PcOperand, Rtl!PcInc, PCInc
    <3>3. /\ Operand.src = "PC" /\ Operand.bus = "MRD" /\ Rtl!Operand = Operand
          /\ Rtl!BaseLen = BaseLen
      BY SameDecode, SameBus DEF Operand
    <3>4. m_cycle \in 1 .. 6 /\ r.m_cycle = m_cycle
      BY <1>2 DEF SameRing, TypeInv, RingType
    <3> QED BY <1>1, <1>7, <1>8, <2>1, <3>1, <3>2, <3>3, <3>4 DEF StartMCycle
  <2>2. CASE p # "IDXCB"
    <3>1. /\ disp' = FALSE
          /\ IF im0_ins THEN StartFetch("INTA", 6, pc) ELSE StartFetch("M1", 4, pc)
      BY <1>1, <2>2 DEF GoesOnPrefix, p
    <3> QED BY <1>1, <1>4, <1>7, <1>8, <2>2, <3>1 DEF StartFetch
  <2> QED BY <2>1, <2>2
<1>10. /\ x.res2 = res2' /\ x.sres = sres' /\ x.rst_idle = r.rst_idle /\ x.in_tw = FALSE
       /\ x.prev_nmi = prev_nmi' /\ x.nmi_pending = Rtl!NmiN(in) /\ x.pend = 0
       /\ x.irq_seq = r.irq_seq /\ x.iff1 = r.iff1 /\ x.iff2 = r.iff2 /\ x.im = r.im
       /\ x.halted = r.halted /\ x.suppress_decode = r.suppress_decode
       /\ x.im0_ins = r.im0_ins /\ x.srst_m1 = r.srst_m1
  BY <1>4, <1>7 DEF Fields, FetchFields, HeldFields
<1>11. /\ x.iff1 = iff1' /\ x.iff2 = iff2' /\ x.im = im' /\ x.halted = halted'
       /\ x.suppress_decode = suppress_decode' /\ x.im0_ins = im0_ins' /\ x.srst_m1 = srst_m1'
  BY <1>1, <1>2, <1>10 DEF SameRegs
<1>12. /\ DOMAIN r' = Fields /\ SameRing' /\ SameRegs' /\ SameAddr'
       /\ \A f \in Fields \ {"bus_granted", "addr_hold"} : r'[f] = x[f]
  BY <1>1, <1>5, <1>7, <1>9, <1>10, <1>11, MEndLock, ZenonT(60) DEF h
<1>13. /\ r'.prefix = p /\ r'.pend = 0 /\ r'.irq_seq = r.irq_seq
       /\ r'.nmi_pending = Rtl!NmiN(in) /\ r'.prev_nmi = prev_nmi'
  BY <1>7, <1>10, <1>12 DEF Fields
<1>14. SamePrefix'
  BY <1>8, <1>13 DEF SamePrefix
<1>15. r.irq_seq = "NONE" /\ ~nmi_resp
  <2>1. exec \notin {"NMI", "INT", "NOP"}
    BY <1>1 DEF Prefixes
  <2> QED BY <1>2, <2>1 DEF SameExec
<1>16. SameExec'
  <2>1. r'.irq_seq = "NONE" /\ ~nmi_resp' /\ ~suppress_decode' /\ ~rst_idle'
    BY <1>1, <1>2, <1>3, <1>13, <1>15
  <2>2. bus_op' = "INTA" => im' = 0
    BY <1>1, <1>9 DEF ShapeInv
  <2>3. Decoded' => Rtl!ExecW' = exec' /\ disp' = UsesDisp(r'.prefix, exec')
    <3>1. CASE p = "IDXCB"
      <4>1. Rtl!ExecW' = exec'
        BY <1>9, <1>13, <3>1 DEF Rtl!ExecW
      <4>2. UsesDisp(r'.prefix, exec') = FALSE
        BY <1>13, <3>1 DEF UsesDisp
      <4> QED BY <1>9, <4>1, <4>2
    <3>2. CASE p # "IDXCB"
      BY <1>9, <3>2 DEF Decoded
    <3> QED BY <3>1, <3>2
  <2> QED BY <2>1, <2>2, <2>3 DEF SameExec
<1>17. SameNmi'
  BY <1>1, <1>2, <1>13, RunningNmi
<1> QED BY <1>12, <1>14, <1>16, <1>17 DEF LockInv

\* So does the end of an M-cycle that another of the instruction follows.
LEMMA NextMCycleLock ==
  ASSUME TypeInv, ShapeInv, LockInv, NextMCycle,
         NEW in \in Inputs, Rtl!Posedge(in)
  PROVE  LockInv'
<1> DEFINE h == Rtl!Held(in)
           x == Rtl!ExecGoOn(h, in)
           c == Cycles(exec, disp)[m_cycle]
<1>1. /\ Ticks /\ EndsMCycle /\ exec \notin Prefixes /\ GoesOn /\ Arbitrate
      /\ MayGoOn(exec, disp, m_cycle, im) /\ StartMCycle(c)
      /\ pc' \in PCGoingOn
      /\ UNCHANGED <<exec, disp, prefix, iff1, iff2, im, halted, im0_ins, suppress_decode, srst_m1,
                     nmi_resp>>
      /\ NmiPin(FALSE) /\ Sample(nmi_sampled, int_sampled) /\ DriveAddress
  BY DEF NextMCycle, GoesOn, enables, fetch
<1>2. /\ Running /\ ~rst_idle /\ ~rst_idle' /\ SameRing /\ SameRegs /\ SameExec
  BY <1>1, RunningIs DEF LockInv, Ticks
<1>3. /\ Decoded /\ r.pend = 0 /\ r.prefix = prefix /\ ~suppress_decode /\ ~srst_m1
      /\ Rtl!EffExec = exec /\ Rtl!Disp = disp
  BY <1>1, MEndNow
<1>4. /\ DOMAIN h = Fields
      /\ \A f \in Fields \ HeldFields : h[f] = r[f]
      /\ h.res2 = res2' /\ h.sres = sres' /\ h.prev_nmi = prev_nmi'
      /\ h.in_tw = FALSE /\ h.nmi_pending = Rtl!NmiN(in)
      /\ h.prefix = prefix /\ h.pend = 0 /\ h.pc = r.pc
  BY <1>1, MEndHeld
<1>5. bus_op' \notin {"M1", "INTA"} /\ m_cycle' # 1 /\ m_cycle' > 1
  <2>1. bus_op' \notin {"M1", "INTA"} /\ m_cycle' # 1
    BY <1>1, GoesOnShape
  <2> QED BY <1>1, <2>1 DEF StartMCycle, TypeInv, RingType
<1>6. /\ r.m_cycle = m_cycle /\ r.im = im /\ r.pc = pc /\ r.im0_ins = im0_ins
  BY <1>2 DEF SameRing, SameRegs
<1>7. x = Rtl!Execute(h, in)
  <2>1. ~in.ends /\ in.target = pc'
    BY <1>5, InputsAre
  <2>2. Rtl!MayGoOn(Rtl!EffExec, Rtl!Disp, r.m_cycle, r.im)
    BY <1>1, <1>3, <1>6, SameDecode
  <2>3. ~Rtl!Finishing(in)
    BY <2>1, <2>2 DEF Rtl!Finishing
  <2> QED BY <1>1, <1>3, <2>3, SameDecode DEF Rtl!Execute
<1> HIDE DEF h
<1>8. Rtl!Cycles(Rtl!EffExec, Rtl!Disp)[r.m_cycle] = c
  BY <1>3, <1>6, SameDecode
<1>9. GoOnShape(h, x, c, in)
  BY <1>4, <1>8, GoOnIs
<1> HIDE DEF x
<1>10. GoOnPC(c, <<exec, m_cycle>>, in) = pc'
  <2> DEFINE at == <<exec, m_cycle>>
  <2>1. in.target = pc'
    BY <1>5, InputsAre
  <2>2. Rtl!PcOperand = PCInc
    BY <1>6 DEF Rtl!PcOperand, Rtl!PcInc, PCInc, TypeInv, FlagsType
  <2>3. at \in LoadsGoingOn \cup Repeats => c.src = "REG" /\ (at \in LoadsGoingOn => at \notin Repeats)
    <3>1. SUFFICES ASSUME at \in LoadsGoingOn \cup Repeats
                   PROVE  c.src = "REG" /\ (at \in LoadsGoingOn => at \notin Repeats)
      OBVIOUS
    <3>2. exec \notin DispClasses /\ Cycles(exec, FALSE)[m_cycle].src = "REG"
          /\ (at \in LoadsGoingOn => at \notin Repeats)
      BY <3>1, JumpCycles
    <3>3. disp = FALSE
      BY <3>2 DEF TypeInv, ExecType
    <3> QED BY <3>2, <3>3
  <2>4. Rtl!LoadsGoingOn = LoadsGoingOn /\ Rtl!Repeats = Repeats
    BY SameDecode
  <2>5. CASE c.src = "PC"
    <3>1. at \notin LoadsGoingOn /\ at \notin Repeats
      BY <2>3, <2>5
    <3>2. pc' = PCInc
      BY <1>1, <2>5, <3>1 DEF PCGoingOn
    <3> QED BY <2>2, <2>4, <2>5, <3>1, <3>2 DEF GoOnPC
  <2>6. CASE c.src # "PC" /\ at \in LoadsGoingOn
    BY <2>1, <2>3, <2>4, <2>6 DEF GoOnPC
  <2>7. CASE c.src # "PC" /\ at \notin LoadsGoingOn /\ at \in Repeats
    <3>1. pc' = PCBack
      BY <1>1, <2>7 DEF PCGoingOn
    <3> QED BY <1>6, <2>4, <2>7, <3>1 DEF GoOnPC, PCBack
  <2>8. CASE c.src # "PC" /\ at \notin LoadsGoingOn /\ at \notin Repeats
    <3>1. pc' = pc
      BY <1>1, <2>8 DEF PCGoingOn
    <3> QED BY <1>6, <2>4, <2>8, <3>1 DEF GoOnPC
  <2> QED BY <2>5, <2>6, <2>7, <2>8
<1>11. /\ DOMAIN x = Fields
       /\ x.pc = pc' /\ x.t_state = t_state' /\ x.m_cycle = m_cycle' /\ x.bus_op = bus_op'
       /\ x.m_len = m_len' /\ x.m_addr = m_addr'
       /\ \A f \in Fields \ (FetchFields \cup {"pc"}) : x[f] = h[f]
  <2>1. Rtl!BaseLen = BaseLen
    BY SameBus
  <2> HIDE DEF c
  <2> QED BY <1>1, <1>3, <1>6, <1>9, <1>10, <2>1 DEF GoOnShape, StartMCycle
<1>12. /\ x.res2 = res2' /\ x.sres = sres' /\ x.rst_idle = r.rst_idle /\ x.in_tw = FALSE
       /\ x.prev_nmi = prev_nmi' /\ x.nmi_pending = Rtl!NmiN(in) /\ x.pend = 0
       /\ x.prefix = r.prefix /\ x.ir = r.ir
       /\ x.irq_seq = r.irq_seq /\ x.iff1 = r.iff1 /\ x.iff2 = r.iff2 /\ x.im = r.im
       /\ x.halted = r.halted /\ x.suppress_decode = r.suppress_decode
       /\ x.im0_ins = r.im0_ins /\ x.srst_m1 = r.srst_m1
  BY <1>3, <1>4, <1>11 DEF Fields, FetchFields, HeldFields
<1>13. /\ x.iff1 = iff1' /\ x.iff2 = iff2' /\ x.im = im' /\ x.halted = halted'
       /\ x.suppress_decode = suppress_decode' /\ x.im0_ins = im0_ins' /\ x.srst_m1 = srst_m1'
  BY <1>1, <1>2, <1>12 DEF SameRegs
<1>14. /\ DOMAIN r' = Fields /\ SameRing' /\ SameRegs' /\ SameAddr'
       /\ \A f \in Fields \ {"bus_granted", "addr_hold"} : r'[f] = x[f]
  BY <1>1, <1>7, <1>11, <1>12, <1>13, MEndLock, ZenonT(60) DEF h
<1>15. /\ r'.prefix = r.prefix /\ r'.pend = 0 /\ r'.irq_seq = r.irq_seq /\ r'.ir = r.ir
       /\ r'.nmi_pending = Rtl!NmiN(in) /\ r'.prev_nmi = prev_nmi'
  BY <1>12, <1>14 DEF Fields
<1>16. SamePrefix'
  BY <1>1, <1>3, <1>15 DEF SamePrefix
<1>17. SameExec'
  <2>1. Rtl!ExecW' = Rtl!ExecW
    BY <1>15 DEF Rtl!ExecW
  <2>2. ~InFetch'
    BY <1>5 DEF InFetch
  <2> QED BY <1>1, <1>2, <1>3, <1>5, <1>15, <2>1, <2>2 DEF SameExec
<1>18. SameNmi'
  BY <1>1, <1>2, <1>15, RunningNmi
<1> QED BY <1>14, <1>16, <1>17, <1>18 DEF LockInv

\* What the boundary decides from.
LEMMA EnablesAgree ==
  ASSUME TypeInv, SameRegs, Rtl!EffExec = exec
  PROVE  /\ FinIff1(Rtl!EffExec) = Iff1After /\ FinIff2(Rtl!EffExec) = Iff2After
         /\ FinDelay(Rtl!EffExec) <=> EiDelay
<1>1. r.iff1 = iff1 /\ r.iff2 = iff2
  BY DEF SameRegs
<1>2. FinDelay(exec) <=> EiDelay
  BY <1>1 DEF FinDelay, EiDelay
<1>3. FinIff1(exec) = Iff1After
  <2>1. CASE exec = "EI"
    BY <2>1, Zenon DEF FinIff1, Iff1After
  <2>2. CASE exec = "DI"
    BY <2>2, Zenon DEF FinIff1, Iff1After
  <2>3. CASE exec = "RETN"
    BY <1>1, <2>3, Zenon DEF FinIff1, Iff1After
  <2>4. CASE exec \notin {"EI", "DI", "RETN"}
    BY <1>1, <2>4, Zenon DEF FinIff1, Iff1After
  <2> QED BY <2>1, <2>2, <2>3, <2>4
<1>4. FinIff2(exec) = Iff2After
  <2>1. CASE exec = "EI"
    BY <2>1, Zenon DEF FinIff2, Iff2After
  <2>2. CASE exec = "DI"
    BY <2>2, Zenon DEF FinIff2, Iff2After
  <2>3. CASE exec \notin {"EI", "DI"}
    BY <1>1, <2>3, Zenon DEF FinIff2, Iff2After
  <2> QED BY <2>1, <2>2, <2>3
<1> QED BY <1>2, <1>3, <1>4

\* The writes left wait for the T1 or the T2 of the next fetch, or there are none.
LEMMA PendRange == Rtl!PendN \in 0 .. 2
<1> DEFINE left == IF r.irq_seq = "NONE" THEN Rtl!Deferred(Rtl!EffExec, r.m_cycle) ELSE {}
<1>1. ~("ALU" \in left /\ "F1" \in left)
  <2>1. \A e, m : ~("ALU" \in Deferred(e, m) /\ "F1" \in Deferred(e, m))
    BY DEF Deferred, AluClasses
  <2> QED BY <2>1, SameDecode
<1>2. Rtl!PendN = CASE "ALU" \in left -> 2 [] "F1" \in left -> 1 [] OTHER -> 0
  BY DEF Rtl!PendN
<1> HIDE DEF left
<1> QED BY <1>1, <1>2

\* What the RTL makes of an instruction's end.
LEMMA FinNow ==
  ASSUME TypeInv, ShapeInv, LockInv, Ticks, Finishes, pc' \in PCAfter, im' \in ImAfter,
         NEW b, NEW len, StartFetch(b, len, pc'),
         NEW in \in Inputs
  PROVE  LET h == Rtl!Held(in)
             x == Rtl!ExecFin(h, in)
         IN /\ x = Rtl!Execute(h, in) /\ FinTo(h, x, exec, in)
            /\ DOMAIN x = Fields
            /\ x.t_state = 1 /\ x.m_cycle = 1 /\ x.m_addr = <<"PC", pc'>>
            /\ x.pc = pc' /\ x.im = im' /\ x.im0_ins = FALSE
            /\ x.pend = Rtl!PendN /\ (Rtl!PendN = 0 => x.prefix = "NONE")
            /\ x.res2 = res2' /\ x.sres = sres' /\ x.prev_nmi = prev_nmi' /\ x.in_tw = FALSE
            /\ x.rst_idle = r.rst_idle
            /\ h.nmi_pending = Rtl!NmiN(in) /\ h.suppress_decode = suppress_decode
            /\ h.srst_m1 = srst_m1 /\ FinMode(exec, in) = im' /\ Rtl!SresN(in) = sres'
<1> DEFINE h == Rtl!Held(in)
           x == Rtl!ExecFin(h, in)
<1>1. /\ EndsMCycle /\ exec \notin Prefixes /\ MayEnd(exec, disp, m_cycle, im)
      /\ m_cycle' = 1 /\ m_addr' = <<"PC", pc'>>
  BY DEF Finishes, StartFetch
<1>2. /\ RisingEdge /\ SameRing /\ SameRegs
  BY RunningIs DEF Ticks, LockInv
<1>3. r.prefix = prefix /\ Rtl!EffExec = exec /\ Rtl!Disp = disp
  BY <1>1, MEndNow
<1>4. /\ DOMAIN h = Fields
      /\ \A f \in Fields \ HeldFields : h[f] = r[f]
      /\ h.res2 = res2' /\ h.sres = sres' /\ h.prev_nmi = prev_nmi'
      /\ h.in_tw = FALSE /\ h.nmi_pending = Rtl!NmiN(in)
  BY <1>1, MEndHeld
<1>5. /\ r.m_cycle = m_cycle /\ r.im = im /\ r.pc = pc /\ r.suppress_decode = suppress_decode
      /\ r.srst_m1 = srst_m1
  BY <1>2 DEF SameRing, SameRegs, Ticks, Running
<1>6. in.ends /\ in.target = pc' /\ in.mode = im'
  BY <1>1, InputsAre
<1>7. x = Rtl!Execute(h, in)
  <2>1. Rtl!Finishing(in)
    BY <1>1, <1>3, <1>5, <1>6, SameDecode DEF Rtl!Finishing
  <2> QED BY <1>1, <1>3, <2>1, SameDecode DEF Rtl!Execute
<1>8. Rtl!SresN(in) = sres'
  BY <1>2, RisingFacts
<1> HIDE DEF h
<1>9. FinShape(h, x, in) /\ FinTo(h, x, exec, in)
  BY <1>3, <1>4, FinIs
<1> HIDE DEF x
<1>10. FinPC(exec, in) = pc'
  <2>1. Rtl!LoadsAtEnd = LoadsAtEnd /\ Rtl!MayLoadAtEnd = MayLoadAtEnd
    BY SameDecode
  <2>2. <<exec, m_cycle>> \notin LoadsAtEnd \cup MayLoadAtEnd => pc' = pc
    BY DEF PCAfter
  <2> QED BY <1>5, <1>6, <2>1, <2>2 DEF FinPC
<1>11. FinMode(exec, in) = im'
  BY <1>5, <1>6 DEF FinMode, ImAfter
<1>12. /\ DOMAIN x = Fields
       /\ \A f \in Fields \ FinFields : x[f] = h[f]
       /\ x.prefix = (IF Rtl!PendN = 0 THEN "NONE" ELSE h.prefix) /\ x.pend = Rtl!PendN
       /\ x.im0_ins = FALSE /\ x.pc = pc' /\ x.im = im'
       /\ x.m_addr = <<"PC", pc'>> /\ x.t_state = 1 /\ x.m_cycle = 1
  BY <1>3, <1>9, <1>10, <1>11 DEF FinShape
<1>13. /\ x.res2 = res2' /\ x.sres = sres' /\ x.prev_nmi = prev_nmi' /\ x.in_tw = FALSE
       /\ x.rst_idle = r.rst_idle
       /\ h.suppress_decode = suppress_decode /\ h.srst_m1 = srst_m1
  BY <1>4, <1>5, <1>12 DEF Fields, FetchFields, FinFields, HeldFields
<1> QED BY <1>4, <1>7, <1>8, <1>9, <1>11, <1>12, <1>13 DEF h, x

\* The boundary's two halves meet: what the four have in common.
LEMMA FinLock ==
  ASSUME TypeInv, ShapeInv, LockInv, Ticks, Finishes, pc' \in PCAfter, im' \in ImAfter,
         NEW b \in {"M1", "INTA"}, NEW len, StartFetch(b, len, pc'),
         Arbitrate, DriveAddress, im0_ins' = FALSE, prefix' = "NONE",
         NEW in \in Inputs, Rtl!Posedge(in),
         NEW x, x = Rtl!ExecFin(Rtl!Held(in), in),
         x.bus_op = b, x.m_len = len, x.iff1 = iff1', x.iff2 = iff2', x.halted = halted',
         x.suppress_decode = suppress_decode', x.srst_m1 = srst_m1'
  PROVE  /\ DOMAIN r' = Fields /\ SameRing' /\ SameRegs' /\ SamePrefix' /\ SameAddr'
         /\ r'.irq_seq = x.irq_seq /\ r'.nmi_pending = x.nmi_pending /\ r'.prev_nmi = prev_nmi'
<1>1. /\ x = Rtl!Execute(Rtl!Held(in), in)
      /\ DOMAIN x = Fields
      /\ x.t_state = 1 /\ x.m_cycle = 1 /\ x.m_addr = <<"PC", pc'>>
      /\ x.pc = pc' /\ x.im = im' /\ x.im0_ins = FALSE
      /\ x.pend = Rtl!PendN /\ (Rtl!PendN = 0 => x.prefix = "NONE")
      /\ x.res2 = res2' /\ x.sres = sres' /\ x.prev_nmi = prev_nmi' /\ x.in_tw = FALSE
      /\ x.rst_idle = r.rst_idle
  BY FinNow
<1>2. /\ bus_op' = b /\ m_len' = len /\ m_addr' = <<"PC", pc'>> /\ t_state' = 1 /\ m_cycle' = 1
  BY DEF StartFetch
<1>3. EndsMCycle /\ ~rst_idle'
  BY RunningIs DEF Finishes, Ticks
<1>4. /\ DOMAIN r' = Fields /\ SameRing' /\ SameRegs' /\ SameAddr'
      /\ \A f \in Fields \ {"bus_granted", "addr_hold"} : r'[f] = x[f]
  BY <1>1, <1>2, <1>3, MEndLock
<1>5. /\ r'.pend = Rtl!PendN /\ (Rtl!PendN = 0 => r'.prefix = "NONE")
      /\ r'.irq_seq = x.irq_seq /\ r'.nmi_pending = x.nmi_pending /\ r'.prev_nmi = prev_nmi'
  BY <1>1, <1>4 DEF Fields
<1>6. SamePrefix'
  BY <1>2, <1>3, <1>5, PendRange DEF SamePrefix
<1> QED BY <1>4, <1>5, <1>6

\* The boundary at which an NMI is accepted keeps the registers in step.
LEMMA AcceptNMILock ==
  ASSUME TypeInv, ShapeInv, LockInv, AcceptNMI,
         NEW in \in Inputs, Rtl!Posedge(in)
  PROVE  LockInv'
<1> DEFINE h == Rtl!Held(in)
           x == Rtl!ExecFin(h, in)
<1>1. /\ Ticks /\ Finishes /\ EndsMCycle /\ TakesNMI /\ pc' \in PCAfter /\ im' \in ImAfter
      /\ StartFetch("M1", 5, pc') /\ exec' = "NMI" /\ disp' = FALSE
      /\ Arbitrate /\ im0_ins' = FALSE /\ prefix' = "NONE"
      /\ iff1' = FALSE /\ iff2' = Iff2After /\ halted' = FALSE
      /\ nmi_resp' = TRUE /\ suppress_decode' = TRUE /\ srst_m1' = srst_m1
      /\ NmiPin(FALSE) /\ Sample(FALSE, int_sampled) /\ DriveAddress
  BY DEF AcceptNMI, StartNMI, EndInstruction, Finishes
<1>2. /\ phi' = 0 /\ ~rst_idle' /\ SameRegs
  BY <1>1, RunningIs DEF Ticks, LockInv
<1>3. r.nmi_pending = nmi_sampled /\ Rtl!EffExec = exec
  BY <1>1, MEndNow
<1>4. FinIff2(exec) = Iff2After
  BY <1>2, <1>3, EnablesAgree
<1>5. FinTo(h, x, exec, in) /\ h.srst_m1 = srst_m1
  BY <1>1, FinNow
<1> HIDE DEF h, x
<1>6. /\ x.bus_op = "M1" /\ x.m_len = 5 /\ x.nmi_pending = FALSE /\ x.halted = FALSE
      /\ x.iff1 = FALSE /\ x.iff2 = Iff2After /\ x.irq_seq = "NMI"
      /\ x.suppress_decode = TRUE /\ x.srst_m1 = srst_m1
  BY <1>1, <1>3, <1>4, <1>5 DEF FinTo, TakesNMI
<1>7. /\ DOMAIN r' = Fields /\ SameRing' /\ SameRegs' /\ SamePrefix' /\ SameAddr'
      /\ r'.irq_seq = x.irq_seq /\ r'.nmi_pending = x.nmi_pending /\ r'.prev_nmi = prev_nmi'
  BY <1>1, <1>6, FinLock DEF h, x
<1>8. SameExec'
  <2>1. bus_op' = "M1"
    BY <1>1 DEF StartFetch
  <2> QED BY <1>1, <1>2, <1>6, <1>7, <2>1 DEF SameExec
<1>9. SameNmi'
  <2>1. nmi_pending' = FALSE /\ prev_nmi' \in BOOLEAN
    BY <1>1 DEF NmiPin, Level
  <2>2. ~Deciding'
    BY <1>1 DEF StartFetch, Deciding
  <2> QED BY <1>2, <1>6, <1>7, <2>1, <2>2 DEF SameNmi
<1> QED BY <1>7, <1>8, <1>9 DEF LockInv

\* So does the one at which an interrupt is,
LEMMA AcceptINTLock ==
  ASSUME TypeInv, ShapeInv, LockInv, AcceptINT,
         NEW in \in Inputs, Rtl!Posedge(in)
  PROVE  LockInv'
<1> DEFINE h == Rtl!Held(in)
           x == Rtl!ExecFin(h, in)
           len == IF im' = 0 THEN 6 ELSE 7
<1>1. /\ Ticks /\ Finishes /\ EndsMCycle /\ TakesINT /\ pc' \in PCAfter /\ im' \in ImAfter
      /\ StartFetch("INTA", len, pc') /\ exec' = "INT" /\ disp' = FALSE
      /\ Arbitrate /\ im0_ins' = FALSE /\ prefix' = "NONE"
      /\ iff1' = FALSE /\ iff2' = FALSE /\ halted' = FALSE
      /\ nmi_resp' = FALSE /\ suppress_decode' = suppress_decode /\ srst_m1' = srst_m1
      /\ NmiPin(FALSE) /\ Sample(nmi_sampled, FALSE) /\ DriveAddress
  BY DEF AcceptINT, StartINT, EndInstruction, Finishes
<1>2. Running /\ ~rst_idle' /\ SameRegs
  BY <1>1, RunningIs DEF Ticks, LockInv
<1>3. r.nmi_pending = nmi_sampled /\ in.int = int_sampled /\ Rtl!EffExec = exec
  BY <1>1, MEndNow
<1>4. FinTakesInt(exec, in) /\ ~r.nmi_pending
  BY <1>1, <1>2, <1>3, EnablesAgree DEF TakesINT, FinTakesInt
<1>5. /\ FinTo(h, x, exec, in) /\ h.srst_m1 = srst_m1 /\ h.suppress_decode = suppress_decode
      /\ FinMode(exec, in) = im' /\ h.nmi_pending = Rtl!NmiN(in)
  BY <1>1, FinNow
<1> HIDE DEF h, x
<1>6. /\ x.bus_op = "INTA" /\ x.m_len = len /\ x.nmi_pending = Rtl!NmiN(in) /\ x.halted = FALSE
      /\ x.iff1 = FALSE /\ x.iff2 = FALSE /\ x.irq_seq = "INT"
      /\ x.suppress_decode = suppress_decode /\ x.srst_m1 = srst_m1
  BY <1>4, <1>5 DEF FinTo
<1> HIDE DEF len
<1>7. /\ DOMAIN r' = Fields /\ SameRing' /\ SameRegs' /\ SamePrefix' /\ SameAddr'
      /\ r'.irq_seq = x.irq_seq /\ r'.nmi_pending = x.nmi_pending /\ r'.prev_nmi = prev_nmi'
  BY <1>1, <1>6, FinLock DEF h, x
<1>8. SameExec'
  <2>1. bus_op' = "INTA"
    BY <1>1 DEF StartFetch
  <2>2. ~InFetch'
    BY <2>1 DEF InFetch
  <2> QED BY <1>1, <1>2, <1>6, <1>7, <2>1, <2>2 DEF SameExec
<1>9. SameNmi'
  BY <1>1, <1>2, <1>6, <1>7, RunningNmi
<1> QED BY <1>7, <1>8, <1>9 DEF LockInv

\* the one of the halt state,
LEMMA HaltNOPLock ==
  ASSUME TypeInv, ShapeInv, LockInv, HaltNOP,
         NEW in \in Inputs, Rtl!Posedge(in)
  PROVE  LockInv'
<1> DEFINE h == Rtl!Held(in)
           x == Rtl!ExecFin(h, in)
<1>1. /\ Ticks /\ Finishes /\ EndsMCycle /\ ~TakesNMI /\ ~TakesINT /\ HaltAfter
      /\ pc' \in PCAfter /\ im' \in ImAfter
      /\ StartFetch("M1", 4, pc') /\ exec' = "NOP" /\ disp' = FALSE
      /\ Arbitrate /\ im0_ins' = FALSE /\ prefix' = "NONE"
      /\ iff1' = Iff1After /\ iff2' = Iff2After /\ halted' = TRUE
      /\ nmi_resp' = FALSE /\ suppress_decode' = TRUE /\ srst_m1' = sres'
      /\ NmiPin(FALSE) /\ Sample(nmi_sampled, int_sampled) /\ DriveAddress
  BY DEF HaltNOP, StartHalt, EndInstruction, Finishes
<1>2. Running /\ ~rst_idle' /\ SameRegs
  BY <1>1, RunningIs DEF Ticks, LockInv
<1>3. r.nmi_pending = nmi_sampled /\ in.int = int_sampled /\ Rtl!EffExec = exec
  BY <1>1, MEndNow
<1>4. FinIff1(exec) = Iff1After /\ FinIff2(exec) = Iff2After /\ (FinDelay(exec) <=> EiDelay)
  BY <1>2, <1>3, EnablesAgree
<1>5. FinHalts(exec, in) /\ ~r.nmi_pending
  BY <1>1, <1>2, <1>3, <1>4 DEF TakesNMI, TakesINT, HaltAfter, FinTakesInt, FinHalts, SameRegs
<1>6. /\ FinTo(h, x, exec, in) /\ Rtl!SresN(in) = sres' /\ h.nmi_pending = Rtl!NmiN(in)
  BY <1>1, FinNow
<1> HIDE DEF h, x
<1>7. /\ x.bus_op = "M1" /\ x.m_len = 4 /\ x.nmi_pending = Rtl!NmiN(in) /\ x.halted = TRUE
      /\ x.iff1 = Iff1After /\ x.iff2 = Iff2After /\ x.irq_seq = "HALT"
      /\ x.suppress_decode = TRUE /\ x.srst_m1 = sres'
  BY <1>4, <1>5, <1>6 DEF FinTo
<1>8. /\ DOMAIN r' = Fields /\ SameRing' /\ SameRegs' /\ SamePrefix' /\ SameAddr'
      /\ r'.irq_seq = x.irq_seq /\ r'.nmi_pending = x.nmi_pending /\ r'.prev_nmi = prev_nmi'
  BY <1>1, <1>7, FinLock DEF h, x
<1>9. SameExec'
  <2>1. bus_op' = "M1"
    BY <1>1 DEF StartFetch
  <2> QED BY <1>1, <1>2, <1>7, <1>8, <2>1 DEF SameExec
<1>10. SameNmi'
  BY <1>1, <1>2, <1>7, <1>8, RunningNmi
<1> QED BY <1>8, <1>9, <1>10 DEF LockInv

\* and the one at which the next instruction is fetched.
LEMMA NextInstructionLock ==
  ASSUME TypeInv, ShapeInv, LockInv, NextInstruction,
         NEW in \in Inputs, Rtl!Posedge(in)
  PROVE  LockInv'
<1> DEFINE h == Rtl!Held(in)
           x == Rtl!ExecFin(h, in)
<1>1. /\ Ticks /\ Finishes /\ EndsMCycle /\ ~TakesNMI /\ ~TakesINT /\ ~HaltAfter
      /\ pc' \in PCAfter /\ im' \in ImAfter
      /\ StartFetch("M1", 4, pc')
      /\ Arbitrate /\ im0_ins' = FALSE /\ prefix' = "NONE"
      /\ iff1' = Iff1After /\ iff2' = Iff2After /\ halted' = FALSE
      /\ nmi_resp' = FALSE /\ suppress_decode' = suppress_decode /\ srst_m1' = sres'
      /\ NmiPin(FALSE) /\ Sample(nmi_sampled, int_sampled) /\ DriveAddress
  BY DEF NextInstruction, StartNext, EndInstruction, Finishes
<1>2. Running /\ ~rst_idle' /\ SameRegs
  BY <1>1, RunningIs DEF Ticks, LockInv
<1>3. /\ r.nmi_pending = nmi_sampled /\ in.int = int_sampled /\ Rtl!EffExec = exec
      /\ ~suppress_decode
  BY <1>1, MEndNow
<1>4. FinIff1(exec) = Iff1After /\ FinIff2(exec) = Iff2After /\ (FinDelay(exec) <=> EiDelay)
  BY <1>2, <1>3, EnablesAgree
<1>5. FinGoes(exec, in) /\ ~r.nmi_pending
  BY <1>1, <1>2, <1>3, <1>4 DEF TakesNMI, TakesINT, HaltAfter, FinTakesInt, FinGoes, SameRegs
<1>6. /\ FinTo(h, x, exec, in) /\ Rtl!SresN(in) = sres' /\ h.nmi_pending = Rtl!NmiN(in)
      /\ h.suppress_decode = suppress_decode
  BY <1>1, FinNow
<1> HIDE DEF h, x
<1>7. /\ x.bus_op = "M1" /\ x.m_len = 4 /\ x.nmi_pending = Rtl!NmiN(in) /\ x.halted = FALSE
      /\ x.iff1 = Iff1After /\ x.iff2 = Iff2After /\ x.irq_seq = "NONE"
      /\ x.suppress_decode = suppress_decode /\ x.srst_m1 = sres'
  BY <1>4, <1>5, <1>6 DEF FinTo
<1>8. /\ DOMAIN r' = Fields /\ SameRing' /\ SameRegs' /\ SamePrefix' /\ SameAddr'
      /\ r'.irq_seq = x.irq_seq /\ r'.nmi_pending = x.nmi_pending /\ r'.prev_nmi = prev_nmi'
  BY <1>1, <1>7, FinLock DEF h, x
<1>9. SameExec'
  <2>1. bus_op' = "M1" /\ t_state' = 1 /\ m_cycle' = 1
    BY <1>1 DEF StartFetch
  <2>2. ~Decoded'
    BY <2>1 DEF Decoded
  <2> QED BY <1>1, <1>2, <1>3, <1>7, <1>8, <2>1, <2>2 DEF SameExec
<1>10. SameNmi'
  BY <1>1, <1>2, <1>7, <1>8, RunningNmi
<1> QED BY <1>8, <1>9, <1>10 DEF LockInv

\* The cores' registers stay in step over every rising edge.
LEMMA RisingLock ==
  ASSUME TypeInv, ShapeInv, GrantBetweenMCycles, LockInv, Next, phi = 1,
         NEW in \in Inputs, Rtl!Posedge(in)
  PROVE  LockInv'
<1>1. ~FallingEdge
  BY DEF FallingEdge
<1>2. CASE Granted \/ WaitState \/ NextTState \/ LatchM1 \/ LatchINTA
  BY <1>2, GrantedLock, WaitStateLock, NextTStateLock, LatchM1Lock, LatchINTALock
<1>3. CASE NextMCycle \/ NextPrefix
  BY <1>3, NextMCycleLock, NextPrefixLock
<1>4. CASE AcceptNMI \/ AcceptINT \/ HaltNOP \/ NextInstruction
  BY <1>4, AcceptNMILock, AcceptINTLock, HaltNOPLock, NextInstructionLock
<1>5. CASE Cut \/ ResetHold \/ Restart
  BY <1>5, CutLock, RestartLock
<1> QED BY <1>1, <1>2, <1>3, <1>4, <1>5 DEF Next

-----------------------------------------------------------------------------
(***************************************************************************)
(* The pins of the high half.                                              *)
(***************************************************************************)
\* What a rising edge leaves of the wait state and of RD held over a cut.
LEMMA RisingHolds ==
  ASSUME TypeInv, ShapeInv, GrantBetweenMCycles, Next, phi = 1
  PROVE  /\ RisingEdge /\ phi' = 0 /\ DriveAddress
         /\ rd_hold' /\ (rst_idle' \/ ~bus_granted')
              <=> \/ res2 /\ ~rst_idle /\ ~bus_granted /\ ~Extension /\ t_state = 1
                  \/ rst_idle /\ rd_hold /\ ~res2
         /\ ~rst_idle' /\ rd_hold' => t_state' = 1
         /\ ~rst_idle' => (in_tw' <=> stalled)
         /\ stalled /\ ~rst_idle' => bus_op' = bus_op /\ t_state' = t_state /\ ~rst_idle
<1>1. DriveAddress
  BY NextDrives
<1>2. CASE Granted \/ WaitState
  <2>1. /\ Running /\ bus_op' = bus_op /\ t_state' = t_state /\ (in_tw' <=> stalled)
    BY <1>2 DEF Granted, WaitState, ring, GrantBetweenMCycles
  <2> QED BY <1>1, <2>1 DEF Running, RisingEdge
<1>3. CASE Ticks
  BY <1>1, <1>3 DEF Ticks, Running, RisingEdge
<1>4. CASE Cut
  <2>1. /\ ~rst_idle /\ res2 /\ RisingEdge /\ rst_idle'
        /\ rd_hold' = (~bus_granted /\ ~Extension /\ t_state = 1)
    BY <1>4 DEF Cut, EnterResetIdle
  <2> QED BY <1>1, <2>1 DEF RisingEdge
<1>5. CASE ResetHold
  BY <1>1, <1>5 DEF ResetHold, EnterResetIdle, RisingEdge
<1>6. CASE Restart
  <2>1. /\ rst_idle /\ ~res2 /\ RisingEdge /\ ~rst_idle' /\ t_state' = 1
        /\ in_tw' = in_tw /\ bus_granted' = bus_granted /\ rd_hold' = rd_hold
    BY <1>6 DEF Restart, StartFetch
  <2>2. ~stalled /\ ~in_tw /\ ~bus_granted
    BY <2>1 DEF ShapeInv
  <2> QED BY <1>1, <2>1, <2>2 DEF RisingEdge
<1>7. Granted \/ WaitState \/ Ticks \/ Cut \/ ResetHold \/ Restart
  <2>1. ~FallingEdge
    BY DEF FallingEdge
  <2>2. NextTState \/ LatchM1 \/ LatchINTA \/ NextMCycle \/ NextPrefix => Ticks
    BY DEF NextTState, LatchM1, LatchINTA, NextMCycle, NextPrefix
  <2>3. AcceptNMI \/ AcceptINT \/ HaltNOP \/ NextInstruction => Ticks
    BY DEF AcceptNMI, AcceptINT, HaltNOP, NextInstruction, EndInstruction
  <2> QED BY <2>1, <2>2, <2>3 DEF Next
<1> QED BY <1>2, <1>3, <1>4, <1>5, <1>6, <1>7

\* A wait that the RTL kept into a T1 is one of the reset idle.
LEMMA StrayIs ==
  ASSUME TypeInv, ShapeInv, GrantBetweenMCycles, LockInv, Next, phi = 1,
         NEW in \in Inputs, Rtl!Posedge(in)
  PROVE  /\ rst_idle /\ ~rst_idle' /\ Rtl!Stall(in) => StrayWrite'
         /\ StrayWrite' => rst_idle
<1> DEFINE h == Rtl!Held(in)
           q == Rtl!Sequenced(h, in)
           n == Rtl!Reset(q)
<1>1. /\ DOMAIN r = Fields /\ r.bus_granted = bus_granted /\ r.res2 = res2
  BY DEF LockInv, SameRegs
<1>2. /\ DOMAIN h = Fields /\ h.pc = r.pc /\ h.in_tw = (Rtl!Stall(in) /\ ~bus_granted)
  BY <1>1, HeldIs DEF Fields, HeldFields
<1> HIDE DEF h
<1>3. DOMAIN q = Fields /\ q.in_tw = (Rtl!Stall(in) /\ ~bus_granted)
  BY <1>2, SequencedKeeps DEF Untouched
<1> HIDE DEF q
<1>4. DOMAIN n = Fields /\ n.in_tw = (Rtl!Stall(in) /\ ~bus_granted /\ ~res2)
  <2>1. CASE res2
    BY <1>1, <1>3, <2>1, ResetIs
  <2>2. CASE ~res2
    BY <1>1, <1>3, <2>2 DEF Rtl!Reset
  <2> QED BY <2>1, <2>2
<1>5. n = Rtl!NextRegs(in)
  BY DEF Rtl!NextRegs, q, h
<1> HIDE DEF n
<1>6. r'.in_tw = (Rtl!Stall(in) /\ ~bus_granted /\ ~res2)
  BY <1>4, <1>5, PosIs DEF Fields
<1>7. ASSUME rst_idle, ~rst_idle', Rtl!Stall(in) PROVE StrayWrite'
  <2>1. Restart
    <3>1. ~FallingEdge
      BY DEF FallingEdge
    <3>2. Ticks \/ Granted \/ WaitState => ~rst_idle
      BY DEF Ticks, Granted, WaitState, Running
    <3>3. NextTState \/ LatchM1 \/ LatchINTA \/ NextMCycle \/ NextPrefix => Ticks
      BY DEF NextTState, LatchM1, LatchINTA, NextMCycle, NextPrefix
    <3>4. AcceptNMI \/ AcceptINT \/ HaltNOP \/ NextInstruction => Ticks
      BY DEF AcceptNMI, AcceptINT, HaltNOP, NextInstruction, EndInstruction
    <3>5. Cut \/ ResetHold => rst_idle'
      BY DEF Cut, ResetHold, EnterResetIdle
    <3> QED BY <1>7, <3>1, <3>2, <3>3, <3>4, <3>5 DEF Next
  <2>2. ~res2 /\ phi' = 0 /\ t_state' = 1
    BY <2>1 DEF Restart, StartFetch, RisingEdge
  <2>3. ~bus_granted
    BY <1>7 DEF ShapeInv
  <2> QED BY <1>6, <1>7, <2>2, <2>3 DEF StrayWrite
<1>8. ASSUME ~rst_idle, StrayWrite' PROVE FALSE
  <2>1. Rtl!Stall(in) /\ ~rst_idle' /\ t_state' = 1
    BY <1>6, <1>8 DEF StrayWrite
  <2>2. stalled
    BY <1>8, <2>1, RisingHolds, RisingFacts
  <2>3. t_state' = t_state /\ WaitSample(bus_op, t_state, 1)
    BY <2>1, <2>2, RisingHolds DEF ShapeInv
  <2> QED BY <2>1, <2>3 DEF WaitSample
<1> QED BY <1>7, <1>8

\* What the high half's image takes from the next registers.
PosParts(n, i, in) ==
  LET idle  == n.bus_granted \/ n.rst_idle
      ioCut == n.res2 /\ ~n.rst_idle /\ n.t_state = 2 /\ n.bus_op \in {"IORD", "IOWR"}
      long  == n.bus_op = "INTERNAL" /\ n.m_len > 2
      tp(s) == ~idle /\ Timed(s, n.bus_op, n.t_state, 0)
  IN /\ \A s \in Strobes : s \in i.strobes <=>
          \/ s = "MREQ" /\ ((long /\ n.t_state = 2 /\ n.res2 /\ ~n.rst_idle) \/ tp(s))
          \/ s = "IORQ" /\ tp(s) /\ ~ioCut
          \/ s = "RD"   /\ (Rtl!CutT1 \/ (r.rst_idle /\ r.rd_hold /\ ~r.res2) \/ (tp(s) /\ ~ioCut))
          \/ s = "WR"   /\ (tp(s) \/ (Rtl!Stall(in) /\ r.bus_op = "MWR" /\ ~idle)) /\ ~ioCut
          \/ s \in {"M1", "RFSH"} /\ tp(s)
     /\ i.halt = (n.halted /\ ~n.res2 /\ ~n.sres)
     /\ i.busack = n.bus_granted
     /\ i.data = (~idle /\ TimedData(n.bus_op, n.t_state, 0))
     /\ i.addr = IF idle \/ (AddressHeld(n.bus_op, n.t_state)
                              /\ ~(long /\ n.t_state = 1 /\ n.res2 /\ ~n.rst_idle))
                 THEN Rtl!AddrNeg
                 ELSE IF RefreshAddress(n.bus_op, n.t_state) THEN <<"IR", 0>> ELSE n.m_addr
     /\ i.addr_drive = ~idle
     /\ i.ctl_drive = ~n.bus_granted
     /\ i.strobes \subseteq Strobes
     /\ i = [strobes |-> i.strobes, halt |-> i.halt, busack |-> i.busack, data |-> i.data,
             addr |-> i.addr, addr_drive |-> i.addr_drive, ctl_drive |-> i.ctl_drive]

\* The pins of the high half, part by part.
LEMMA PosImageIs == ASSUME NEW n, NEW in PROVE PosParts(n, Rtl!PosImage(n, in), in)
BY SameBus, SMTT(30) DEF PosParts, Rtl!PosImage

\* The registers that the image is made from are the phase engine's.
LEMMA ImageRegs ==
  ASSUME LockInv', NEW in, Rtl!Posedge(in), NEW n, n = Rtl!NextRegs(in)
  PROVE  /\ image' = Rtl!PosImage(n, in)
         /\ n.bus_granted = bus_granted' /\ n.rst_idle = rst_idle' /\ n.halted = halted'
         /\ n.res2 = res2' /\ n.sres = sres'
         /\ ~rst_idle' => /\ n.bus_op = bus_op' /\ n.m_len = m_len' /\ n.t_state = t_state'
                          /\ n.m_addr = m_addr'
<1>1. r' = [n EXCEPT !.addr_hold = Rtl!AddrNeg] /\ image' = Rtl!PosImage(n, in)
  BY DEF Rtl!Posedge
<1>2. DOMAIN r' = Fields /\ SameRing' /\ SameRegs'
  BY DEF LockInv
<1>3. DOMAIN n = Fields
  BY <1>1, <1>2
<1>4. \A f \in Fields \ {"addr_hold"} : n[f] = r'[f]
  BY <1>1, <1>3
<1>5. /\ n.bus_granted = r'.bus_granted /\ n.rst_idle = r'.rst_idle /\ n.halted = r'.halted
      /\ n.res2 = r'.res2 /\ n.sres = r'.sres /\ n.bus_op = r'.bus_op /\ n.m_len = r'.m_len
      /\ n.t_state = r'.t_state /\ n.m_addr = r'.m_addr
  BY <1>4 DEF Fields
<1> QED BY <1>1, <1>2, <1>5 DEF SameRing, SameRegs

\* The image the RTL's rising edge makes is the phase engine's, but for WR
\* after a wait of the reset idle.
LEMMA RisingPins ==
  ASSUME TypeInv, ShapeInv, GrantBetweenMCycles, LockInv, Next, phi = 1,
         TypeInv', ShapeInv', GrantBetweenMCycles', LockInv',
         NEW in \in Inputs, Rtl!Posedge(in)
  PROVE  PinsAgree'
<1> DEFINE n == Rtl!NextRegs(in)
           i == Rtl!PosImage(n, in)
           idle == bus_granted' \/ rst_idle'
<1>1. /\ image' = i
      /\ n.bus_granted = bus_granted' /\ n.rst_idle = rst_idle' /\ n.halted = halted'
      /\ n.res2 = res2' /\ n.sres = sres'
      /\ ~rst_idle' => /\ n.bus_op = bus_op' /\ n.m_len = m_len' /\ n.t_state = t_state'
                       /\ n.m_addr = m_addr'
  BY ImageRegs
<1>2. PosParts(n, i, in)
  BY PosImageIs
<1> HIDE DEF n
<1> HIDE DEF i
<1>3. /\ RisingEdge /\ phi' = 0 /\ DriveAddress
      /\ rd_hold' /\ (rst_idle' \/ ~bus_granted')
           <=> \/ res2 /\ ~rst_idle /\ ~bus_granted /\ ~Extension /\ t_state = 1
               \/ rst_idle /\ rd_hold /\ ~res2
      /\ ~rst_idle' /\ rd_hold' => t_state' = 1
      /\ ~rst_idle' => (in_tw' <=> stalled)
      /\ stalled /\ ~rst_idle' => bus_op' = bus_op /\ t_state' = t_state /\ ~rst_idle
  BY RisingHolds
<1>4. SameRing /\ SameRegs /\ SameAddr
  BY DEF LockInv
<1>5. /\ ~rst_idle => (Rtl!Stall(in) <=> stalled)
      /\ Rtl!CutT1 <=> res2 /\ ~rst_idle /\ ~bus_granted /\ ~Extension /\ t_state = 1
  BY <1>3, RisingFacts
<1>6. Rtl!CutT1 \/ (r.rst_idle /\ r.rd_hold /\ ~r.res2) <=> rd_hold' /\ (rst_idle' \/ ~bus_granted')
  BY <1>3, <1>4, <1>5 DEF SameRegs
<1>7. bus_granted' \in BOOLEAN /\ rst_idle' \in BOOLEAN /\ halted' \in BOOLEAN
      /\ m_len' \in Int /\ t_state' \in Int
  BY DEF TypeInv, PinsType, FlagsType, EnablesType, RingType
<1>8. ASSUME NEW s \in Strobes, s # "WR" \/ ~StrayWrite' PROVE s \in i.strobes <=> Low(s)'
  <2>1. Low(s)' <=> LowInP(s)'
    <3>1. HalvesLow'
      BY LowInHalves, PTL
    <3> QED BY <1>3, <3>1 DEF HalvesLow
  <2>2. CASE idle
    <3>1. LowInP(s)' <=> s = "RD" /\ rd_hold' /\ (rst_idle' \/ ~bus_granted')
      BY <2>2 DEF LowInP
    <3>2. ~(n.t_state = 2 /\ ~n.rst_idle)
      BY <1>1, <2>2 DEF GrantBetweenMCycles
    <3>3. s \in i.strobes <=> s = "RD" /\ (Rtl!CutT1 \/ (r.rst_idle /\ r.rd_hold /\ ~r.res2))
      BY <1>1, <1>2, <2>2, <3>2 DEF PosParts
    <3> QED BY <1>6, <2>1, <3>1, <3>3
  <2>3. CASE ~idle
    <3> DEFINE tp == Timed(s, bus_op', t_state', 0)
               slow == bus_op' \in {"IORD", "IOWR"}
               long == bus_op' = "INTERNAL" /\ m_len' > 2
    <3>1. LongInternal' <=> long
      BY <1>7 DEF LongInternal, Extension
    <3>2. Undisturbed(s)' <=> tp \/ (s = "WR" /\ stalled /\ bus_op = "MWR")
      BY <1>3, <2>3 DEF Undisturbed, HoldWR, Timed
    <3>3. (long \/ slow) => ~Extension'
      BY <1>7 DEF Extension
    <3>4. t_state' = 2 => ~rd_hold'
      BY <1>3, <2>3
    <3>5. LowInP(s)' <=>
            \/ s = "RD" /\ rd_hold'
            \/ s = "MREQ" /\ res2' /\ long /\ t_state' = 2
            \/ /\ Undisturbed(s)'
               /\ ~(res2' /\ t_state' = 2 /\ slow /\ s \in {"IORQ", "RD", "WR"})
      BY <2>3, <3>1, <3>3, <3>4 DEF LowInP, CutNow, SlowIO
    <3>6. s = "WR" => (Rtl!Stall(in) /\ r.bus_op = "MWR" <=> stalled /\ bus_op = "MWR")
      <4>1. CASE ~rst_idle
        BY <1>3, <1>4, <1>5, <2>3, <4>1 DEF SameRing
      <4>2. CASE rst_idle /\ ~StrayWrite'
        BY <1>3, <2>3, <4>2, StrayIs DEF ShapeInv
      <4> QED BY <1>8, <4>1, <4>2
    <3>7. s \in i.strobes <=>
            \/ s = "MREQ" /\ ((long /\ t_state' = 2 /\ res2') \/ tp)
            \/ s = "IORQ" /\ tp /\ ~(res2' /\ t_state' = 2 /\ slow)
            \/ s = "RD"   /\ (rd_hold' \/ (tp /\ ~(res2' /\ t_state' = 2 /\ slow)))
            \/ s = "WR"   /\ (tp \/ (stalled /\ bus_op = "MWR")) /\ ~(res2' /\ t_state' = 2 /\ slow)
            \/ s \in {"M1", "RFSH"} /\ tp
      BY <1>1, <1>2, <1>6, <2>3, <3>6 DEF PosParts
    <3> HIDE DEF tp, slow, long
    <3> QED BY <2>1, <3>2, <3>5, <3>7 DEF Strobes
  <2> QED BY <2>2, <2>3
<1>9. ~rst_idle' /\ ~res2' => i.halt = HaltLow'
  <2>1. HaltLow' <=> (halted' \/ InHaltFetch') /\ ~LeavesHalt' /\ ~(Res2Now' \/ SresNow')
    BY HaltLowIs, PTL
  <2>2. HaltLow' <=> halted' /\ ~res2' /\ ~sres'
    BY <1>3, <2>1 DEF InHaltFetch, LeavesHalt, Res2Now, SresNow
  <2>3. i.halt = (halted' /\ ~res2' /\ ~sres')
    BY <1>1, <1>2 DEF PosParts
  <2>4. HaltLow' = (halted' /\ ~res2' /\ ~sres')
    BY <2>2 DEF HaltLow
  <2> QED BY <2>3, <2>4
<1>10. i.busack = BusackLow'
  BY <1>1, <1>2, <1>3, <1>7 DEF PosParts, BusackLow
<1>11. i.data = DataDriven'
  <2>1. DataDriven' <=> ~idle /\ TimedData(bus_op', t_state', 0)
    BY <1>3 DEF DataDriven, TimedData
  <2>2. i.data = (~(n.bus_granted \/ n.rst_idle) /\ TimedData(n.bus_op, n.t_state, 0))
    BY <1>2 DEF PosParts
  <2>3. i.data <=> DataDriven'
    BY <1>1, <2>1, <2>2
  <2> QED BY <2>2, <2>3 DEF DataDriven
<1>12. i.addr = addr'
  <2>1. addr = Rtl!AddrNeg
    BY <1>4, phi = 1 DEF SameAddr
  <2>2. CASE idle
    BY <1>1, <1>2, <1>3, <2>1, <2>2 DEF PosParts, DriveAddress
  <2>3. CASE ~idle
    <3>1. IntCut(bus_op', m_len', t_state', res2')
            <=> bus_op' = "INTERNAL" /\ m_len' > 2 /\ t_state' = 1 /\ res2'
      BY DEF IntCut
    <3> QED BY <1>1, <1>2, <1>3, <2>1, <2>3, <3>1 DEF PosParts, DriveAddress
  <2> QED BY <2>2, <2>3
<1>13. i.addr_drive = AddressDriven' /\ i.ctl_drive = ControlDriven'
  BY <1>1, <1>2 DEF PosParts, AddressDriven, ControlDriven
<1>14. /\ i.strobes \subseteq Strobes
       /\ i = [strobes |-> i.strobes, halt |-> i.halt, busack |-> i.busack, data |-> i.data,
               addr |-> i.addr, addr_drive |-> i.addr_drive, ctl_drive |-> i.ctl_drive]
  BY <1>2 DEF PosParts
<1>15. StrayWrite' => ~Low("WR")'
  <2> SUFFICES ASSUME StrayWrite' PROVE ~Low("WR")'
    OBVIOUS
  <2>1. ~rst_idle' /\ t_state' = 1 /\ phi' = 0 /\ "WR" \in Strobes
    BY DEF StrayWrite, Strobes
  <2>2. ~in_tw'
    BY <2>1 DEF ShapeInv, WaitSample
  <2>3. ~Undisturbed("WR")'
    <3>1. bus_op' \in BusOps
      BY DEF TypeInv, RingType
    <3>2. Window[bus_op']["WR"] \in {{}, 3 .. 4, 2 .. 6}
      BY <3>1, Windows DEF BusOps
    <3>3. 0 \notin Window[bus_op']["WR"]
      BY <3>2
    <3> QED BY <2>1, <2>2, <3>3 DEF Undisturbed, HoldWR, Timed, Half
  <2>4. Low("WR")' <=> LowInP("WR")'
    <3>1. HalvesLow'
      BY LowInHalves, PTL
    <3> QED BY <2>1, <3>1 DEF HalvesLow
  <2> QED BY <2>1, <2>3, <2>4 DEF LowInP, CutNow
<1> QED BY <1>1, <1>8, <1>9, <1>10, <1>11, <1>12, <1>13, <1>14, <1>15, ImagesAgree

-----------------------------------------------------------------------------
(***************************************************************************)
(* The two cores from reset on.                                            *)
(***************************************************************************)
\* Out of power-up both cores have one state and the same pins.
LEMMA LockStart == ASSUME LockInit PROVE LockInv /\ PinsAgree
<1>1. /\ phi = 0 /\ t_state = 1 /\ bus_op = "M1" /\ m_len = 4 /\ m_cycle = 1
      /\ m_addr = <<"PC", 0>> /\ exec = "NOP" /\ disp = FALSE /\ pc = 0 /\ prefix = "NONE"
      /\ iff1 = FALSE /\ iff2 = FALSE /\ im = 0 /\ halted = FALSE
      /\ im0_ins = FALSE /\ suppress_decode = FALSE /\ srst_m1 = FALSE
      /\ prev_nmi \in BOOLEAN /\ nmi_pending = prev_nmi /\ nmi_resp = FALSE
      /\ stalled = FALSE /\ in_tw = FALSE /\ bus_granted = FALSE
      /\ res2 = FALSE /\ sres = FALSE /\ rst_idle = FALSE /\ rd_hold = FALSE
      /\ addr = <<"PC", 0>>
  BY DEF LockInit, Init, Level
<1>2. Rtl!RtlInit(prev_nmi)
  BY DEF LockInit
<1>3. /\ DOMAIN r = Fields
      /\ r.t_state = 1 /\ r.m_cycle = 1 /\ r.bus_op = "M1" /\ r.m_len = 4 /\ r.m_addr = <<"PC", 0>>
      /\ r.prefix = "NONE" /\ r.pc = 0 /\ r.im = 0 /\ r.irq_seq = "NONE" /\ r.pend = 0
      /\ r.nmi_pending = prev_nmi /\ r.prev_nmi = prev_nmi
  BY <1>2 DEF Rtl!RtlInit, Fields
<1>4. /\ r.iff1 = FALSE /\ r.iff2 = FALSE /\ r.halted = FALSE /\ r.suppress_decode = FALSE
      /\ r.bus_granted = FALSE /\ r.im0_ins = FALSE /\ r.res2 = FALSE /\ r.sres = FALSE
      /\ r.rst_idle = FALSE /\ r.srst_m1 = FALSE /\ r.in_tw = FALSE
  BY <1>2 DEF Rtl!RtlInit
<1>5. SameRing
  BY <1>1, <1>3 DEF SameRing
<1>6. SameRegs
  BY <1>1, <1>3, <1>4 DEF SameRegs
<1>7. SamePrefix
  BY <1>1, <1>3 DEF SamePrefix
<1>8. SameExec
  <2>1. ~Decoded
    BY <1>1 DEF Decoded
  <2> QED BY <1>1, <1>3, <2>1 DEF SameExec
<1>9. SameNmi
  BY <1>1, <1>3 DEF SameNmi, Deciding
<1>10. SameAddr
  BY <1>1 DEF SameAddr, HoldsAddress, AddressHeld
<1>11. PinsAgree
  <2>1. image = [strobes |-> {"M1"}, halt |-> FALSE, busack |-> FALSE, data |-> FALSE,
                 addr |-> <<"PC", 0>>, addr_drive |-> TRUE, ctl_drive |-> TRUE]
    BY <1>2 DEF Rtl!RtlInit
  <2>2. {s \in Strobes : Low(s)} = {"M1"}
    <3>1. \A s \in Strobes : Low(s) <=> LowInP(s)
      BY <1>1, LowInHalves DEF HalvesLow
    <3>2. \A s \in Strobes : Low(s) <=> Timed(s, "M1", 1, 0)
      BY <1>1, <3>1 DEF LowInP, CutNow, Undisturbed, HoldWR
    <3>3. \A s \in Strobes : Timed(s, "M1", 1, 0) <=> s = "M1"
      BY DEF Timed, Half, Window, BusOps, Strobes
    <3> QED BY <3>2, <3>3 DEF Strobes
  <2>3. HaltLow = FALSE /\ BusackLow = FALSE
    BY <1>1 DEF HaltLow, BusackLow
  <2>4. DataDriven = FALSE
    BY <1>1 DEF DataDriven, TimedData
  <2>5. AddressDriven = TRUE /\ ControlDriven = TRUE
    BY <1>1 DEF AddressDriven, ControlDriven
  <2>6. CImage = image
    BY <1>1, <2>1, <2>2, <2>3, <2>4, <2>5 DEF CImage
  <2>7. ~StrayWrite /\ RtlImage = image
    BY <1>1, <1>4 DEF StrayWrite, RtlImage
  <2>8. [image EXCEPT !.strobes = @] = image
    BY <2>1
  <2> QED BY <2>6, <2>7, <2>8 DEF PinsAgree
<1> QED BY <1>3, <1>5, <1>6, <1>7, <1>8, <1>9, <1>10, <1>11 DEF LockInv

\* The RTL keeps a wait of the reset idle for the half T-state after it.
StrayStep ==
  /\ StrayWrite' => rst_idle
  /\ StrayWrite => phi' = 1 /\ t_state' = 1

\* Each half T-state keeps both.
LEMMA LockStep ==
  ASSUME TypeInv, ShapeInv, GrantBetweenMCycles, LenInv,
         TypeInv', ShapeInv', GrantBetweenMCycles',
         LockInv, PinsAgree, [LockNext]_lockVars
  PROVE  /\ LockInv' /\ PinsAgree'
         /\ [StrayStep]_lockVars
<1>1. CASE UNCHANGED lockVars
  <2>1. UNCHANGED <<vars, r, image>>
    BY <1>1 DEF lockVars
  <2>2. UNCHANGED <<phi, t_state, bus_op, m_len, m_cycle, m_addr, exec, disp, pc, prefix, iff1,
                    iff2, im, halted, im0_ins, suppress_decode, srst_m1, nmi_pending, prev_nmi,
                    nmi_resp, nmi_sampled, int_sampled, stalled, in_tw, busreq_s, bus_granted,
                    res_s, res2, sres, rst_idle, rd_hold, addr>>
    BY <2>1 DEF vars, ring, enables, fetch, nmi, samples, waits, grant, reset
  <2>3. LockInv'
    <3>1. Rtl!ExecW' = Rtl!ExecW /\ Rtl!AddrNeg' = Rtl!AddrNeg
      BY <2>1 DEF Rtl!ExecW, Rtl!AddrNeg, Rtl!IntG, Rtl!Ext
    <3>2. SameRing' /\ SameRegs' /\ SamePrefix' /\ (DOMAIN r = Fields)'
      BY <2>1, <2>2 DEF LockInv, SameRing, SameRegs, SamePrefix
    <3>3. SameExec'
      BY <2>1, <2>2, <3>1 DEF LockInv, SameExec, Decoded, InFetch
    <3>4. SameNmi'
      BY <2>1, <2>2 DEF LockInv, SameNmi, Deciding
    <3>5. SameAddr'
      BY <2>1, <2>2, <3>1 DEF LockInv, SameAddr, HoldsAddress, IntCut, AddressHeld
    <3> QED BY <3>2, <3>3, <3>4, <3>5 DEF LockInv
  <2>4. CImage' = CImage
    <3>1. \A s \in Strobes : Low(s)' <=> Low(s)
      BY <2>2 DEF Low, InCut, Undisturbed, HoldWR, LongInternal, Extension, Timed, Res2Now, M1T2
    <3>2. HaltLow' = HaltLow
      BY <2>2 DEF HaltLow, Res2Now, SresNow, M1T2
    <3>3. /\ BusackLow' = BusackLow /\ DataDriven' = DataDriven
          /\ AddressDriven' = AddressDriven /\ ControlDriven' = ControlDriven
      BY <2>2 DEF BusackLow, DataDriven, AddressDriven, ControlDriven, TimedData
    <3> QED BY <2>2, <3>1, <3>2, <3>3 DEF CImage
  <2>5. HaltLow' = HaltLow
    BY <2>2 DEF HaltLow, Res2Now, SresNow, M1T2
  <2>6. (StrayWrite <=> StrayWrite') /\ RtlImage' = RtlImage
    BY <2>1, <2>2, <2>5 DEF StrayWrite, RtlImage
  <2> QED BY <1>1, <2>3, <2>4, <2>6 DEF PinsAgree
<1>2. CASE LockNext
  <2>1. PICK in \in Inputs : RtlStep(in)
    BY <1>2 DEF LockNext
  <2>2. Next
    BY <1>2 DEF LockNext
  <2>3. CASE phi = 0
    <3>1. FallingEdge
      <4>2. RisingEdge => phi = 1
        BY DEF RisingEdge
      <4>3. Granted \/ WaitState \/ NextTState \/ LatchM1 \/ LatchINTA => RisingEdge
        BY DEF Granted, WaitState, NextTState, LatchM1, LatchINTA, Ticks, Running
      <4>4. NextMCycle \/ NextPrefix => RisingEdge
        BY DEF NextMCycle, NextPrefix, Ticks, Running
      <4>5. AcceptNMI \/ AcceptINT \/ HaltNOP \/ NextInstruction => RisingEdge
        BY DEF AcceptNMI, AcceptINT, HaltNOP, NextInstruction, EndInstruction, Ticks, Running
      <4>6. Cut \/ ResetHold \/ Restart => RisingEdge
        BY DEF Cut, ResetHold, Restart
      <4> QED BY <2>2, <2>3, <4>2, <4>3, <4>4, <4>5, <4>6 DEF Next
    <3>2. Rtl!Negedge(in)
      BY <2>1, <2>3 DEF RtlStep
    <3>3. StrayStep
      BY <3>1, FallingKeeps DEF StrayWrite, StrayStep
    <3> QED BY <2>1, <3>1, <3>2, <3>3, FallingLock, FallingPins
  <2>4. CASE phi = 1
    <3>1. Rtl!Posedge(in)
      BY <2>1, <2>4 DEF RtlStep
    <3>2. LockInv'
      BY <2>1, <2>2, <2>4, <3>1, RisingLock
    <3>3. PinsAgree'
      BY <2>1, <2>2, <2>4, <3>1, <3>2, RisingPins
    <3>4. StrayStep
      BY <2>1, <2>2, <2>4, <3>1, StrayIs DEF StrayStep, StrayWrite
    <3> QED BY <3>2, <3>3, <3>4
  <2>5. phi = 0 \/ phi = 1
    BY DEF TypeInv, FlagsType
  <2> QED BY <2>3, <2>4, <2>5
<1> QED BY <1>1, <1>2

\* As a T-state starts, LockInv is what the comparison asks of the registers.
LEMMA LockIsInStep == ASSUME TypeInv, LockInv PROVE InStep
<1> SUFFICES ASSUME phi = 0 PROVE InStep
  BY DEF InStep
<1>1. SameRing /\ SameRegs /\ SamePrefix /\ SameExec /\ SameNmi
  BY DEF LockInv
<1>2. ~rst_idle /\ Decoded => Rtl!EffExec = exec
  BY <1>1, ExecAgrees
<1>3. (r.irq_seq = "NMI") = nmi_resp
  BY <1>1 DEF SameExec, TypeInv, NmiType
<1>4. r.prev_nmi = prev_nmi /\ (res2 \/ r.nmi_pending = nmi_pending)
  BY <1>1 DEF SameNmi
<1>5. r.prefix = prefix \/ r.pend # 0
  BY <1>1 DEF SamePrefix
<1> QED BY <1>1, <1>2, <1>3, <1>4, <1>5 DEF InStep, SameRing, SameRegs

\* What the theorems about the phase engine give every step, and what a step
\* keeps of the two cores.
Standing == TypeInv /\ ShapeInv /\ GrantBetweenMCycles /\ LenInv
Together == LockInv /\ PinsAgree

\* The lockstep runs the phase engine, and nothing else.
LEMMA LockRefines == LockSpec => Spec
<1>1. LockInit => Init
  BY DEF LockInit
<1>2. [LockNext]_lockVars => [Next]_vars
  BY DEF LockNext, lockVars
<1> QED BY <1>1, <1>2, PTL DEF LockSpec, Spec

\* The two cores together, step by step.
LEMMA TogetherHolds == LockSpec => []Standing /\ []Together /\ [][StrayStep]_lockVars
<1>1. LockInit => Together
  BY LockStart DEF Together
<1>2. Standing /\ Standing' /\ Together /\ [LockNext]_lockVars => Together' /\ [StrayStep]_lockVars
  <2> SUFFICES ASSUME Standing, Standing', Together, [LockNext]_lockVars
               PROVE  Together' /\ [StrayStep]_lockVars
    OBVIOUS
  <2>1. TypeInv /\ ShapeInv /\ GrantBetweenMCycles /\ LenInv
    BY DEF Standing
  <2>2. TypeInv' /\ ShapeInv' /\ GrantBetweenMCycles'
    BY DEF Standing
  <2>3. LockInv /\ PinsAgree
    BY DEF Together
  <2>4. LockInv' /\ PinsAgree' /\ [StrayStep]_lockVars
    BY <2>1, <2>2, <2>3, LockStep
  <2> QED BY <2>4 DEF Together
<1>3. LockSpec => []Standing
  <2>1. TypeInv /\ ShapeInv /\ GrantBetweenMCycles /\ LenInv => Standing
    BY DEF Standing
  <2> QED BY <2>1, LockRefines, TypeInvHolds, ShapeInvHolds, GrantSafe, LenInvHolds, PTL
<1> QED BY <1>1, <1>2, <1>3, PTL DEF LockSpec

\* The folded RTL and the two-phase C model put out the same pins in every
\* half T-state, and stand for one state as each T-state starts, whatever the
\* inputs do. The exceptions are the three of Z80Lockstep: HALT under RES2 and
\* in the reset idle, an NMI edge as RES2 sets, and WR in the half T-state
\* after an idle that ended with WAIT low.
THEOREM CoresSafe == LockSpec => []CoresAgree
<1>1. Standing /\ Together => CoresAgree
  BY LockIsInStep DEF CoresAgree, Standing, Together
<1> QED BY <1>1, TogetherHolds, PTL

-----------------------------------------------------------------------------
(***************************************************************************)
(* What the phase engine's pins promise, the RTL's promise.                *)
(***************************************************************************)

\* StrobesExclude, of the RTL's registered outputs: but for a stray WR, which
\* it may put out with no data, and beside the RD held over the cut.
RtlStrobesExclude ==
  /\ ~({"MREQ", "IORQ"} \subseteq image.strobes)
  /\ ~("RD" \in image.strobes /\ image.data)
  /\ "WR" \in image.strobes /\ ~StrayWrite => "RD" \notin image.strobes /\ image.data

\* WriteIsOnePulse, AddressStable and BusackCoversDMA, of the same; a stray WR
\* comes only straight after the reset idle, and ends with its half T-state.
RtlPinsStep ==
  /\ "WR" \in image.strobes /\ "WR" \notin image'.strobes =>
       StrayWrite \/ (phi = 0 /\ t_state = BaseLen[bus_op]) \/ res2 \/ res2'
  /\ StrayWrite' => rst_idle
  /\ StrayWrite => "WR" \notin image'.strobes
  /\ \A s \in {"MREQ", "IORQ"} :
       s \in image.strobes /\ s \in image'.strobes => image'.addr = image.addr
  /\ image.busack => ~image'.addr_drive /\ ~image'.ctl_drive

\* Where the cores agree, each pin of the RTL is that of the C model.
LEMMA SamePins ==
  ASSUME CoresAgree
  PROVE  /\ \A s \in Strobes : s # "WR" \/ ~StrayWrite => (s \in image.strobes <=> Low(s))
         /\ image.busack = BusackLow /\ image.data = DataDriven
         /\ image.addr = addr
         /\ image.addr_drive = AddressDriven /\ image.ctl_drive = ControlDriven
BY DEF CoresAgree, PinsAgree, RtlImage, CImage

\* A T1 and the reset idle write nothing.
LEMMA NoWriteYet == TypeInv /\ (rst_idle \/ (phi = 1 /\ t_state = 1)) => ~Low("WR")
<1>1. CASE rst_idle
  BY <1>1 DEF Low
<1>2. ASSUME TypeInv, phi = 1, t_state = 1 PROVE ~Low("WR")
  <2>1. bus_op \in BusOps
    BY <1>2 DEF TypeInv, RingType
  <2>2. Window[bus_op]["WR"] \in {{}, 3 .. 4, 2 .. 6}
    BY <2>1, Windows DEF BusOps
  <2>3. 1 \notin Window[bus_op]["WR"]
    BY <2>2
  <2>4. ~Undisturbed("WR")
    BY <1>2, <2>3 DEF Undisturbed, HoldWR, Timed, Half
  <2> QED BY <1>2, <2>4 DEF Low, InCut
<1> QED BY <1>1, <1>2

\* At the RTL's pins a memory and an I/O request never overlap, nor a read
\* and a write, whatever the inputs do; a write is one pulse, the address
\* does not move under a request, and BUSACK covers the DMA master's time
\* (strobe_img and the pins' registers of z80_core.v). There is one exception,
\* WR in the half T-state after a reset idle that ended with WAIT low: it may
\* be low with no data, and beside RD. It ends with that half T-state.
THEOREM RtlPinsSafe == LockSpec => []RtlStrobesExclude /\ [][RtlPinsStep]_lockVars
<1> DEFINE
      OnePulse == Low("WR") /\ ~Low("WR")' => (phi = 0 /\ t_state = BaseLen[bus_op]) \/ res2 \/ res2'
      Stable   == \A s \in {"MREQ", "IORQ"} : Low(s) /\ Low(s)' => addr' = addr
      Covers   == BusackLow => ~AddressDriven' /\ ~ControlDriven'
<1>1. {"MREQ", "IORQ", "RD", "WR"} \subseteq Strobes
  BY DEF Strobes
<1>2. CoresAgree /\ StrobesExclude => RtlStrobesExclude
  BY <1>1, SamePins DEF StrobesExclude, RtlStrobesExclude
<1>3. TypeInv /\ TypeInv' /\ CoresAgree /\ CoresAgree' /\ [StrayStep]_lockVars
        /\ [OnePulse]_vars /\ [Stable]_vars /\ [Covers]_vars => [RtlPinsStep]_lockVars
  <2> SUFFICES ASSUME TypeInv, TypeInv', CoresAgree, CoresAgree',
                      [StrayStep]_lockVars, ~UNCHANGED lockVars,
                      [OnePulse]_vars, [Stable]_vars, [Covers]_vars
               PROVE  RtlPinsStep
    OBVIOUS
  <2>1. /\ \A s \in Strobes : s # "WR" \/ ~StrayWrite' => (s \in image'.strobes <=> Low(s)')
        /\ image'.addr = addr'
        /\ image'.addr_drive = AddressDriven' /\ image'.ctl_drive = ControlDriven'
    BY DEF CoresAgree, PinsAgree, RtlImage, CImage
  <2>2. OnePulse /\ Stable /\ Covers
    <3>1. CASE UNCHANGED vars
      <4>1. addr' = addr /\ \A s \in Strobes : Low(s)' = Low(s)
        BY <3>1 DEF vars, ring, waits, grant, reset, Low, InCut, Undisturbed, HoldWR,
                    LongInternal, Extension, Res2Now, M1T2
      <4>2. AddressDriven' = AddressDriven /\ ControlDriven' = ControlDriven
        BY <3>1 DEF vars, ring, waits, grant, reset, AddressDriven, ControlDriven
      <4>3. BusackLow => ~AddressDriven /\ ~ControlDriven
        BY DEF BusackLow, AddressDriven, ControlDriven
      <4> QED BY <1>1, <4>1, <4>2, <4>3
    <3> QED BY <3>1
  <2>3. (StrayWrite' => rst_idle) /\ (StrayWrite => phi' = 1 /\ t_state' = 1)
    BY DEF StrayStep
  <2>4. /\ "WR" \in image.strobes /\ "WR" \notin image'.strobes =>
              StrayWrite \/ (phi = 0 /\ t_state = BaseLen[bus_op]) \/ res2 \/ res2'
    <3>1. rst_idle /\ ~StrayWrite => "WR" \notin image.strobes
      BY <1>1, SamePins, NoWriteYet
    <3> QED BY <1>1, <2>1, <2>2, <2>3, <3>1, SamePins
  <2>5. StrayWrite => "WR" \notin image'.strobes
    <3>1. phi' = 1 /\ t_state' = 1 => ~Low("WR")'
      <4>1. (TypeInv /\ (rst_idle \/ (phi = 1 /\ t_state = 1)) => ~Low("WR"))'
        BY NoWriteYet, PTL
      <4> QED BY <4>1
    <3>2. phi' = 1 => ~StrayWrite'
      BY DEF StrayWrite
    <3> QED BY <1>1, <2>1, <2>3, <3>1, <3>2
  <2> QED BY <1>1, <2>1, <2>2, <2>3, <2>4, <2>5, SamePins DEF RtlPinsStep
<1> QED
  BY <1>2, <1>3, LockRefines, TypeInvHolds, CoresSafe, TogetherHolds, StrobesSafe, WriteSafe, AddressSafe,
     BusackSafe, PTL
  DEF WriteIsOnePulse, AddressStable, BusackCoversDMA
=============================================================================
