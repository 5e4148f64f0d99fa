------------------------------- MODULE Z80Core -------------------------------
(***************************************************************************)
(* The phase engine of cmodel/z80_core.c: z80_phase_step() and everything  *)
(* it calls that decides what happens next. A step of this specification   *)
(* is one call, half a T-state: FallingEdge takes the CPU from T.P to T.N, *)
(* every other action is the rising edge that ends a T-state.              *)
(*                                                                         *)
(* The environment moves the input pins at will: a step looks at the level *)
(* of a pin where the code reads it. The output pins are functions of the  *)
(* state (the code computes them anew in every phase), but for the address *)
(* bus, which holds its last value in some phases. Opcodes and addresses   *)
(* are tokens; registers, flags and the bytes on the data bus are left out.*)
(***************************************************************************)
EXTENDS Z80Sequencer

CONSTANTS
  Pins,     \* the input pins the environment moves; the others stay high
  Ops,      \* the classes of the opcodes in memory and on an IM0 device
  PCMod     \* addresses are 0 .. PCMod-1 (bound: 16 bits in the code)

InputPins == {"WAIT", "INT", "NMI", "BUSREQ", "RESET"}

ASSUME PinsAssumption  == Pins \subseteq InputPins
ASSUME OpsAssumption   == Ops \subseteq MainPage \cup EdPage \cup CbPage
ASSUME PCModAssumption == PCMod \in Nat \ {0}

VARIABLES
  \* the T-state ring and what the sequencer set up for the M-cycle
  phi,              \* 0: T.P, 1: T.N
  t_state,
  bus_op,
  m_len,
  m_cycle,
  m_addr,
  exec,             \* ctl.exec
  disp,             \* ctl.idx && ctl.use_disp
  \* programmer's state and the instruction's
  pc,
  prefix,
  iff1, iff2, im,
  halted,
  im0_ins,          \* the instruction came from an IM0 device
  suppress_decode,  \* this M1's opcode is discarded
  srst_m1,          \* this M1 is the special reset's
  \* NMI and INT
  nmi_pending,      \* the NMI flip-flop
  prev_nmi,         \* NMI was low in the last phase
  nmi_resp,         \* in an NMI response
  nmi_sampled, int_sampled,  \* the samples of T_last.P
  \* the writes left to the next M1
  wbp,
  wb_exec,          \* the class they belong to, while a response's is in exec
  wb_pv,            \* P/V of LD A,I / LD A,R among them
  \* WAIT, BUSREQ, RESET
  stalled, in_tw,
  busreq_s, bus_granted,
  res_s, res2, sres, rst_idle, rd_hold,
  \* the address pins
  addr

ring     == <<t_state, bus_op, m_len, m_cycle, m_addr, exec, disp>>
enables  == <<iff1, iff2, im, halted>>
fetch    == <<im0_ins, suppress_decode, srst_m1>>
nmi      == <<nmi_pending, prev_nmi, nmi_resp>>
samples  == <<nmi_sampled, int_sampled>>
pending  == <<wbp, wb_exec, wb_pv>>
waits    == <<stalled, in_tw>>
grant    == <<busreq_s, bus_granted>>
reset    == <<res_s, res2, sres, rst_idle, rd_hold>>
vars     == <<phi, ring, pc, prefix, enables, fetch, nmi, samples, pending,
              waits, grant, reset, addr>>

\* An input pin as the code reads it: TRUE is low.
Level(pin) == IF pin \in Pins THEN BOOLEAN ELSE {FALSE}

NoExec == "NONE"

Address == ({"PC"} \X (0 .. PCMod - 1)) \cup ({"REG"} \X Nat) \cup {<<"IR", 0>>}

\* Where a jump, a return or a vector leads (bound: any address of the model).
Targets == 0 .. PCMod - 1

\* mutant: no wrap at the top of memory
PCIncNoWrap == IF im0_ins THEN pc ELSE pc + 1

\* z80_pc_inc(): the bytes of an IM0 instruction are not at PC.
PCInc == IF im0_ins THEN pc ELSE (pc + 1) % PCMod

(***************************************************************************)
(* z80_reset() and the first z80_phase_step(), which drives T1.P of the    *)
(* fetch at 0000 without an edge before it.                                *)
(***************************************************************************)
Init ==
  /\ phi = 0 /\ t_state = 1 /\ bus_op = "M1" /\ m_len = 4 /\ m_cycle = 1
  /\ m_addr = <<"PC", 0>> /\ exec = "NOP" /\ disp = FALSE
  /\ pc = 0 /\ prefix = "NONE"
  /\ iff1 = FALSE /\ iff2 = FALSE /\ im = 0 /\ halted = FALSE
  /\ im0_ins = FALSE /\ suppress_decode = FALSE /\ srst_m1 = FALSE
  /\ prev_nmi \in Level("NMI") /\ nmi_pending = prev_nmi /\ nmi_resp = FALSE
  /\ nmi_sampled = FALSE /\ int_sampled = FALSE
  /\ wbp = {} /\ wb_exec = NoExec /\ wb_pv = FALSE
  /\ stalled = FALSE /\ in_tw = FALSE
  /\ busreq_s = FALSE /\ bus_granted = FALSE
  /\ res_s = FALSE /\ res2 = FALSE /\ sres = FALSE
  /\ rst_idle = FALSE /\ rd_hold = FALSE
  /\ addr = <<"PC", 0>>

-----------------------------------------------------------------------------
(***************************************************************************)
(* What every phase does around advance().                                 *)
(***************************************************************************)

\* mutants: an edge under RES2 counts; NMI as a level
NmiPinInReset(cleared) ==
  \E low \in Level("NMI") :
    /\ prev_nmi' = low
    /\ nmi_pending' = /\ nmi_pending \/ (low /\ ~prev_nmi)
                      /\ ~cleared /\ ~nmi_resp /\ ~nmi_resp'

NmiPinLevel(cleared) ==
  \E low \in Level("NMI") :
    prev_nmi' = low /\ nmi_pending' = (low /\ ~cleared /\ ~nmi_resp /\ ~nmi_resp')

\* The NMI flip-flop takes a falling edge unless RES2 is set, and is held
\* clear during the response, as the edge found it or as it left it.
NmiPin(cleared) ==
  \E low \in Level("NMI") :
    /\ prev_nmi' = low
    /\ nmi_pending' = /\ nmi_pending \/ (low /\ ~prev_nmi /\ ~res2)
                      /\ ~cleared /\ ~nmi_resp /\ ~nmi_resp'

\* mutant: accepting an interrupt leaves its sample
SampleKept(n, i) ==
  IF ~rst_idle' /\ ~bus_granted' /\ t_state' = m_len'
  THEN nmi_sampled' = nmi_pending' /\ int_sampled' \in Level("INT")
  ELSE nmi_sampled' = nmi_sampled /\ int_sampled' = int_sampled

\* The samples of the rising edge that starts an M-cycle's last T-state;
\* elsewhere they keep what advance() left: n and i.
Sample(n, i) ==
  IF ~rst_idle' /\ ~bus_granted' /\ t_state' = m_len'
  THEN nmi_sampled' = nmi_pending' /\ int_sampled' \in Level("INT")
  ELSE nmi_sampled' = n /\ int_sampled' = i

\* A RESET cut in the T1 of a long internal cycle drives its address latch.
IntCut(b, len, t, r2) == b = "INTERNAL" /\ len > 2 /\ t = 1 /\ r2

DriveAddress ==
  addr' = IF \/ rst_idle' \/ bus_granted'
             \/ AddressHeld(bus_op', t_state') /\ ~IntCut(bus_op', m_len', t_state', res2')
          THEN addr
          ELSE IF RefreshAddress(bus_op', t_state') THEN <<"IR", 0>> ELSE m_addr'

FallingEdge ==
  /\ phi = 0
  /\ phi' = 1
  /\ UNCHANGED <<ring, pc, prefix, enables, fetch, nmi_resp, samples, pending,
                 in_tw, grant, reset>>
  /\ NmiPin(FALSE)
  /\ stalled' \in IF ~rst_idle /\ ~bus_granted /\ WaitSample(bus_op, t_state, 1)
                  THEN Level("WAIT") ELSE {FALSE}
  /\ DriveAddress

-----------------------------------------------------------------------------
(***************************************************************************)
(* The rising edge. RES2 follows the pin's last sample, but in an M1's     *)
(* (INTA's) T2, where it holds and the special-reset latch takes it.       *)
(***************************************************************************)
\* mutants: RES2 holds in T2's wait states; RES2 holds in the idle
M1T2OrTw   == ~rst_idle /\ bus_op \in {"M1", "INTA"} /\ t_state = 2
M1T2OrIdle == bus_op \in {"M1", "INTA"} /\ t_state = 2 /\ ~in_tw

M1T2 == ~rst_idle /\ bus_op \in {"M1", "INTA"} /\ t_state = 2 /\ ~in_tw

RisingEdge ==
  /\ phi = 1
  /\ phi' = 0
  /\ stalled' = FALSE
  /\ res2' = IF M1T2 THEN res2 ELSE res_s
  /\ sres' = (~res2' /\ IF M1T2 THEN res_s ELSE sres)
  /\ res_s' \in Level("RESET")
  /\ busreq_s' \in Level("BUSREQ")

\* The CPU runs on: no reset idle, no cut at this T-state's end.
Running == ~rst_idle /\ ~res2 /\ RisingEdge /\ rst_idle' = FALSE /\ rd_hold' = FALSE

\* The writes left to this M1 (INTA) land as its T1 or its T2 ends, not a Tw.
LandWrites ==
  LET lands == bus_op \in {"M1", "INTA"} /\ (t_state = 1 \/ (t_state = 2 /\ ~in_tw))
      left  == IF t_state = 1 THEN wbp \ {"F1", "EXAF"} ELSE {}
  IN IF wbp # {} /\ lands
     THEN IF left \ {"DEC"} = {}
          THEN wbp' = {} /\ wb_exec' = NoExec /\ wb_pv' = FALSE
          ELSE wbp' = left /\ UNCHANGED <<wb_exec, wb_pv>>
     ELSE UNCHANGED pending

(***************************************************************************)
(* How the ring moves. A RESET cut keeps these effects, and no others.     *)
(***************************************************************************)
NextT ==
  /\ t_state < m_len
  /\ t_state' = t_state + 1
  /\ UNCHANGED <<bus_op, m_len, m_cycle, m_addr>>

EndsMCycle == t_state = m_len

\* z80_start_m1() and start_seq_m1() / start_seq_inta()
StartFetch(b, len, a) ==
  /\ bus_op' = b /\ m_len' = len /\ m_addr' = <<"PC", a>>
  /\ t_state' = 1 /\ m_cycle' = 1

\* z80_start_mcycle()
StartMCycle(c) ==
  /\ bus_op' = c.bus
  /\ m_len' = BaseLen[c.bus] + c.extra
  /\ m_addr' = IF c.src = "PC" THEN <<"PC", pc>> ELSE <<"REG", m_cycle + 1>>
  /\ t_state' = 1
  /\ m_cycle' = m_cycle + 1

GoesOn ==
  /\ EndsMCycle
  /\ exec \notin Prefixes
  /\ MayGoOn(exec, disp, m_cycle, im)
  /\ StartMCycle(Cycles(exec, disp)[m_cycle])
  /\ UNCHANGED <<exec, disp>>

\* EXEC_PREFIX: DD CB and FD CB read d next; another prefix fetches on, in an
\* IM0 instruction from the device.
GoesOnPrefix ==
  /\ EndsMCycle
  /\ exec \in Prefixes
  /\ disp' = FALSE
  /\ IF PrefixAfter(prefix, exec) = "IDXCB"
     THEN StartMCycle(Operand) /\ exec' = "DDCB"
     ELSE /\ exec' = exec
          /\ IF im0_ins THEN StartFetch("INTA", 6, pc) ELSE StartFetch("M1", 4, pc)

Finishes == EndsMCycle /\ exec \notin Prefixes /\ MayEnd(exec, disp, m_cycle, im)

\* mutants: EI sets IFF1 only; RETN opens no window
Iff2AfterIff1Only == IF exec = "DI" THEN FALSE ELSE iff2
EiDelayOfEIOnly   == exec = "EI"

\* What the instruction's last step made of the interrupt state, before
\* begin_next() looks at it.
Iff1After == CASE exec = "EI" -> TRUE [] exec = "DI" -> FALSE
               [] exec = "RETN" -> iff2 [] OTHER -> iff1
Iff2After == CASE exec = "EI" -> TRUE [] exec = "DI" -> FALSE [] OTHER -> iff2
ImAfter   == IF exec = "IM" THEN 0 .. 2 ELSE {im}
EiDelay   == exec = "EI" \/ (exec = "RETN" /\ ~iff1)
HaltAfter == halted \/ exec = "HALT"

PCAfter ==
  CASE <<exec, m_cycle>> \in LoadsAtEnd   -> Targets
    [] <<exec, m_cycle>> \in MayLoadAtEnd -> Targets \cup {pc}
    [] OTHER -> {pc}

\* mutant: IFF1 masks the NMI
TakesNMIMasked == nmi_sampled /\ Iff1After

TakesNMI == nmi_sampled
TakesINT == ~nmi_sampled /\ ~EiDelay /\ int_sampled /\ Iff1After

\* mutant: the halt state's fetch keeps HALT decoded
StartHaltDecoded(a) ==
  /\ Finishes /\ ~TakesNMI /\ ~TakesINT /\ HaltAfter
  /\ StartFetch("M1", 4, a) /\ UNCHANGED <<exec, disp>>

\* begin_next(): the instruction boundary, from PC a and interrupt mode mode
StartNMI(a) ==
  Finishes /\ TakesNMI /\ StartFetch("M1", 5, a) /\ exec' = "NMI" /\ disp' = FALSE
StartINT(a, mode) ==
  /\ Finishes /\ TakesINT
  /\ StartFetch("INTA", IF mode = 0 THEN 6 ELSE 7, a)
  /\ exec' = "INT" /\ disp' = FALSE
StartHalt(a) ==
  /\ Finishes /\ ~TakesNMI /\ ~TakesINT /\ HaltAfter
  /\ StartFetch("M1", 4, a) /\ exec' = "NOP" /\ disp' = FALSE
StartNext(a) ==
  /\ Finishes /\ ~TakesNMI /\ ~TakesINT /\ ~HaltAfter
  /\ StartFetch("M1", 4, a) /\ UNCHANGED <<exec, disp>>

Boundary(a, mode) == StartNMI(a) \/ StartINT(a, mode) \/ StartHalt(a) \/ StartNext(a)

-----------------------------------------------------------------------------
(***************************************************************************)
(* The T-states of a running CPU.                                          *)
(***************************************************************************)

\* The bus is the DMA master's: the M-cycle set up for after it waits.
Granted ==
  /\ Running /\ bus_granted
  /\ bus_granted' = busreq_s
  /\ in_tw' = FALSE
  /\ UNCHANGED <<ring, pc, prefix, enables, fetch, nmi_resp, pending>>
  /\ NmiPin(FALSE) /\ Sample(nmi_sampled, int_sampled) /\ DriveAddress

\* WAIT was low: the T-state repeats as a Tw.
WaitState ==
  /\ Running /\ ~bus_granted /\ stalled
  /\ in_tw' = TRUE
  /\ LandWrites
  /\ UNCHANGED <<ring, pc, prefix, enables, fetch, nmi_resp, bus_granted>>
  /\ NmiPin(FALSE) /\ Sample(nmi_sampled, int_sampled) /\ DriveAddress

Ticks == Running /\ ~bus_granted /\ ~stalled /\ in_tw' = FALSE

\* The next T-state of the M-cycle, without an opcode to take.
NextTState ==
  /\ Ticks /\ NextT
  /\ ~OpcodeLatch(bus_op, t_state + 1, 0)
  /\ LandWrites
  /\ UNCHANGED <<exec, disp, pc, prefix, enables, fetch, nmi_resp, bus_granted>>
  /\ NmiPin(FALSE) /\ Sample(nmi_sampled, int_sampled) /\ DriveAddress

\* ctl = z80_pla_rom[prefix][ir]
Decode ==
  \E op \in Ops \cap Page(prefix) : exec' = op /\ disp' = UsesDisp(prefix, op)

\* mutant: PC steps past an opcode before it is discarded
TakeOpcodeStepping ==
  IF srst_m1
  THEN pc' = 0 /\ exec' = "NOP" /\ disp' = FALSE
  ELSE pc' = PCInc /\ IF suppress_decode THEN UNCHANGED <<exec, disp>> ELSE Decode

\* What latch_m1() does with the opcode: the special reset's M1 takes a NOP,
\* with PC at 0000; a response's M1 and the halt state's discard it.
TakeOpcode ==
  \/ /\ srst_m1
     /\ pc' = 0
     /\ IF suppress_decode THEN UNCHANGED <<exec, disp>>
                           ELSE exec' = "NOP" /\ disp' = FALSE
  \/ /\ ~srst_m1 /\ suppress_decode
     /\ UNCHANGED <<pc, exec, disp>>
  \/ /\ ~srst_m1 /\ ~suppress_decode
     /\ pc' = PCInc
     /\ Decode

\* The edge that starts an M1's T3 latches the byte.
LatchM1 ==
  /\ Ticks /\ NextT
  /\ bus_op = "M1" /\ OpcodeLatch(bus_op, t_state + 1, 0)
  /\ LandWrites
  /\ TakeOpcode
  /\ srst_m1' = FALSE /\ suppress_decode' = FALSE
  /\ UNCHANGED <<im0_ins, prefix, enables, nmi_resp, bus_granted>>
  /\ NmiPin(FALSE) /\ Sample(nmi_sampled, int_sampled) /\ DriveAddress

\* latch_inta(): in IM 0 the device's byte is the opcode.
LatchINTA ==
  /\ Ticks /\ NextT
  /\ bus_op = "INTA" /\ OpcodeLatch(bus_op, t_state + 1, 0)
  /\ LandWrites
  /\ IF im = 0 THEN Decode /\ im0_ins' = TRUE ELSE UNCHANGED <<exec, disp, im0_ins>>
  /\ UNCHANGED <<pc, prefix, enables, suppress_decode, srst_m1, nmi_resp, bus_granted>>
  /\ NmiPin(FALSE) /\ Sample(nmi_sampled, int_sampled) /\ DriveAddress

\* mutants: a grant before any M-cycle; none between a prefix and its opcode
ArbitrateAlways  == bus_granted' = busreq_s
ArbitrateUnitary == bus_granted' = (busreq_s /\ exec \notin Prefixes)

\* An M-cycle's end gives the bus away if BUSREQ was low as its last T-state
\* began -- but not before a 1- or 2-T internal cycle, which extends it.
Arbitrate == bus_granted' = (busreq_s /\ ~(bus_op' = "INTERNAL" /\ m_len' <= 2))

\* blk_repeat(): PC back to the block instruction's first byte.
PCBack == (pc + PCMod - (2 % PCMod)) % PCMod

PCGoingOn ==
  LET at == <<exec, m_cycle>>
  IN CASE Cycles(exec, disp)[m_cycle].src = "PC" -> {PCInc}
       [] at \in LoadsGoingOn -> Targets
       [] at \in Repeats      -> {PCBack}
       [] OTHER               -> {pc}

NextMCycle ==
  /\ Ticks /\ GoesOn
  /\ Arbitrate
  /\ pc' \in PCGoingOn
  /\ UNCHANGED <<prefix, enables, fetch, nmi_resp, pending>>
  /\ NmiPin(FALSE) /\ Sample(nmi_sampled, int_sampled) /\ DriveAddress

NextPrefix ==
  /\ Ticks /\ GoesOnPrefix
  /\ Arbitrate
  /\ prefix' = PrefixAfter(prefix, exec)
  /\ pc' = IF prefix' = "IDXCB" THEN PCInc ELSE pc
  /\ UNCHANGED <<enables, fetch, nmi_resp, pending>>
  /\ NmiPin(FALSE) /\ Sample(nmi_sampled, int_sampled) /\ DriveAddress

\* mutant: the response's decode takes the pending writes' place
KeepsNoDecode(replaced) == FALSE

\* The writes the instruction leaves, and whether they need its decode kept
\* aside (wb_keep_decode) because a response or the halt state takes its place.
Left == wbp \cup Deferred(exec, m_cycle)
KeepsDecode(replaced) == replaced /\ Left # {} /\ "DEC" \notin Left

\* mutant: IFF2 before the boundary
PVOfOldIff2 == iff2

\* P/V of LD A,I and LD A,R: IFF2, but 0 when the INT is about to be accepted.
PVOfLdAIr == iff2 /\ ~(int_sampled /\ iff1 /\ ~nmi_sampled)

\* What every instruction boundary does: wb_defer() and the end of the
\* prefix, or of the IM0 instruction.
EndInstruction(replaced) ==
  /\ Ticks
  /\ Arbitrate
  /\ im0_ins' = FALSE /\ prefix' = "NONE"
  /\ wbp' = IF KeepsDecode(replaced) THEN Left \cup {"DEC"} ELSE Left
  /\ wb_exec' = IF KeepsDecode(replaced) THEN exec ELSE wb_exec
  /\ wb_pv' = IF exec = "LD_A_IR" THEN PVOfLdAIr ELSE wb_pv

AcceptNMI ==
  /\ \E a \in PCAfter : StartNMI(a) /\ pc' = a
  /\ EndInstruction(TRUE)
  /\ iff1' = FALSE /\ iff2' = Iff2After /\ im' \in ImAfter /\ halted' = FALSE
  /\ nmi_resp' = TRUE /\ suppress_decode' = TRUE /\ UNCHANGED srst_m1
  /\ NmiPin(FALSE) /\ Sample(FALSE, int_sampled) /\ DriveAddress

AcceptINT ==
  /\ \E a \in PCAfter, mode \in ImAfter :
       StartINT(a, mode) /\ pc' = a /\ im' = mode
  /\ EndInstruction(TRUE)
  /\ iff1' = FALSE /\ iff2' = FALSE /\ halted' = FALSE
  /\ nmi_resp' = FALSE /\ UNCHANGED <<suppress_decode, srst_m1>>
  /\ NmiPin(FALSE) /\ Sample(nmi_sampled, FALSE) /\ DriveAddress

\* The halt state runs NOPs, discarding what it fetches at PC.
HaltNOP ==
  /\ \E a \in PCAfter : StartHalt(a) /\ pc' = a
  /\ EndInstruction(TRUE)
  /\ iff1' = Iff1After /\ iff2' = Iff2After /\ im' \in ImAfter /\ halted' = TRUE
  /\ nmi_resp' = FALSE /\ suppress_decode' = TRUE /\ srst_m1' = sres'
  /\ NmiPin(FALSE) /\ Sample(nmi_sampled, int_sampled) /\ DriveAddress

NextInstruction ==
  /\ \E a \in PCAfter : StartNext(a) /\ pc' = a
  /\ EndInstruction(FALSE)
  /\ iff1' = Iff1After /\ iff2' = Iff2After /\ im' \in ImAfter /\ halted' = FALSE
  /\ nmi_resp' = FALSE /\ UNCHANGED suppress_decode /\ srst_m1' = sres'
  /\ NmiPin(FALSE) /\ Sample(nmi_sampled, int_sampled) /\ DriveAddress

-----------------------------------------------------------------------------
(***************************************************************************)
(* RESET. enter_reset_idle(): what RES2 clears; the ring keeps the place   *)
(* the cut left it at.                                                     *)
(***************************************************************************)
EnterResetIdle ==
  /\ rst_idle' = TRUE
  /\ pc' = 0 /\ prefix' = "NONE"
  /\ iff1' = FALSE /\ iff2' = FALSE /\ im' = 0 /\ halted' = FALSE
  /\ im0_ins' = FALSE /\ suppress_decode' = FALSE /\ srst_m1' = FALSE
  /\ nmi_resp' = FALSE
  /\ wbp' = {} /\ wb_exec' = NoExec /\ wb_pv' = FALSE
  /\ in_tw' = FALSE /\ bus_granted' = FALSE
  /\ NmiPin(TRUE) /\ Sample(FALSE, FALSE) /\ DriveAddress

Extension == bus_op = "INTERNAL" /\ m_len <= 2

\* RES2 was set on the falling edge before: this T-state is the last. It
\* still ends as it would have, but for the state the reset clears.
Cut ==
  /\ ~rst_idle /\ res2 /\ RisingEdge
  /\ IF bus_granted \/ stalled
     THEN UNCHANGED ring
     ELSE \/ NextT /\ UNCHANGED <<exec, disp>>
          \/ GoesOn
          \/ GoesOnPrefix
          \/ \E a \in PCAfter, mode \in ImAfter : Boundary(a, mode)
  /\ rd_hold' = (~bus_granted /\ ~Extension /\ t_state = 1)
  /\ EnterResetIdle

ResetHold ==
  /\ rst_idle /\ res2 /\ RisingEdge
  /\ UNCHANGED ring
  /\ rd_hold' = FALSE
  /\ EnterResetIdle

\* The third rising edge after the release: T1 of the fetch at 0000.
Restart ==
  /\ rst_idle /\ ~res2 /\ RisingEdge
  /\ rst_idle' = FALSE
  /\ StartFetch("M1", 4, pc)
  /\ UNCHANGED <<exec, disp, pc, prefix, enables, fetch, nmi_resp, pending, in_tw,
                 bus_granted, rd_hold>>
  /\ NmiPin(FALSE) /\ Sample(nmi_sampled, int_sampled) /\ DriveAddress

Next ==
  \/ FallingEdge
  \/ Granted \/ WaitState \/ NextTState \/ LatchM1 \/ LatchINTA
  \/ NextMCycle \/ NextPrefix
  \/ AcceptNMI \/ AcceptINT \/ HaltNOP \/ NextInstruction
  \/ Cut \/ ResetHold \/ Restart

Spec == Init /\ [][Next]_vars

\* The clock does not stop.
FairSpec == Spec /\ WF_vars(Next)

-----------------------------------------------------------------------------
(***************************************************************************)
(* Properties of the phase engine's state.                                 *)
(***************************************************************************)

\* Every variable stays in its range; the ring never runs past the M-cycle.
TypeOK ==
  /\ phi \in 0 .. 1
  /\ bus_op \in BusOps /\ m_len \in 1 .. 7 /\ t_state \in 1 .. m_len
  /\ m_cycle \in 1 .. 6
  /\ m_addr \in Address /\ addr \in Address
  /\ exec \in Classes /\ disp \in BOOLEAN
  /\ pc \in 0 .. PCMod - 1 /\ prefix \in PrefixStates
  /\ iff1 \in BOOLEAN /\ iff2 \in BOOLEAN /\ im \in 0 .. 2 /\ halted \in BOOLEAN
  /\ im0_ins \in BOOLEAN /\ suppress_decode \in BOOLEAN /\ srst_m1 \in BOOLEAN
  /\ nmi_pending \in BOOLEAN /\ prev_nmi \in BOOLEAN /\ nmi_resp \in BOOLEAN
  /\ nmi_sampled \in BOOLEAN /\ int_sampled \in BOOLEAN
  /\ wbp \subseteq PendingKinds
  /\ wb_exec \in Classes \cup {NoExec} /\ wb_pv \in BOOLEAN
  /\ stalled \in BOOLEAN /\ in_tw \in BOOLEAN
  /\ busreq_s \in BOOLEAN /\ bus_granted \in BOOLEAN
  /\ res_s \in BOOLEAN /\ res2 \in BOOLEAN /\ sres \in BOOLEAN
  /\ rst_idle \in BOOLEAN /\ rd_hold \in BOOLEAN

\* IFF1 is a copy of IFF2 or clear: an NMI clears IFF1 alone, and EI, DI,
\* RETN and RESET never leave IFF1 set with IFF2 clear (begin_next(),
\* EXEC_RETN, EXEC_EI, EXEC_DI, enter_reset_idle()).
Iff1ImpliesIff2 == iff1 => iff2

\* In the halt state the CPU runs nothing but NOP opcode fetches, whatever
\* it fetches at PC, is reset to or is asked for (begin_next(), latch_m1()).
HaltedRunsNops ==
  halted => bus_op = "M1" /\ m_len = 4 /\ exec = "NOP" /\ prefix = "NONE" /\ ~im0_ins

\* ... and PC stays on the instruction after HALT, so that a response pushes
\* that address; only the special reset moves it (latch_m1()).
HaltHoldsPC == [][halted /\ halted' /\ pc' # pc => srst_m1 /\ pc' = 0]_vars

\* From the boundary that accepts an NMI or an INT to the step that loads the
\* vector, PC is the return address: neither the response's opcode fetch nor
\* a push, wait state or bus grant moves it (latch_m1(), EXEC_NMI, EXEC_INT).
RespondsToINT == exec = "INT" /\ bus_op # "M1"
ReturnAddressKept ==
  [][((nmi_resp /\ nmi_resp') \/ (RespondsToINT /\ RespondsToINT'))
       => pc' = pc \/ rst_idle']_vars

\* An NMI that the flip-flop took is not lost: only the response to it or a
\* RESET clears the flip-flop, however long WAIT, BUSREQ or the instruction
\* hold the response off (z80_phase_step(), begin_next()).
NmiNotLost == [][nmi_pending /\ ~nmi_pending' => nmi_resp' \/ rst_idle']_vars

\* A sample of the flip-flop never outlives what it sampled: the boundary
\* that reads it answers an NMI still pending, and one edge gets one response.
SampledNmiIsPending == nmi_sampled => nmi_pending

\* An NMI edge under RES2 is lost: only one in the last idle T-state, RES2
\* clear again, waits for the restart (z80_phase_step()).
NmiDeafInReset == rst_idle /\ res2 => ~nmi_pending

\* An INT is taken only on the sample of the T-state just ended, with the
\* interrupts enabled before the instruction that ends: never after EI or
\* after a RETN that enables them, and never ahead of an NMI (begin_next()).
EiShadow ==
  [][exec' = "INT" /\ exec # "INT" /\ ~rst_idle'
       => int_sampled /\ iff1 /\ exec # "EI" /\ ~nmi_sampled]_vars

\* The pending writes wait only in T1 and T2 of a fetch or an acknowledge,
\* and the decode they will be made with is the one of an instruction that
\* leaves such writes, though a response or the halt state decodes meanwhile
\* (wb_defer(), wb_keep_decode(), wb_fire()).
PendingOwner == IF "DEC" \in wbp THEN wb_exec ELSE exec
PendingHasItsDecode ==
  wbp # {} =>
    /\ bus_op \in {"M1", "INTA"} /\ t_state <= 2 /\ m_cycle = 1
    /\ \E m \in 1 .. 5 : wbp \ {"DEC"} \subseteq Deferred(PendingOwner, m)

\* P/V of LD A,I and LD A,R, decided at the boundary before begin_next()
\* takes an INT, is IFF2 as the boundary left it (wb_defer(), alu_eval()).
LdAIrSeesIff2 == wbp # {} /\ PendingOwner = "LD_A_IR" => wb_pv = iff2

\* The DMA master has the bus only between M-cycles: never with a wait state
\* under way, nor before the 1 or 2 T-states that extend an M-cycle
\* (end of advance()).
GrantBetweenMCycles ==
  bus_granted => t_state = 1 /\ ~in_tw /\ ~stalled /\ ~rst_idle /\ ~Extension

\* "A pulse that covers that rising edge only lets the instruction finish;
\* the next opcode fetch then runs as a NOP that leaves PC at 0000": what the
\* special-reset latch took replaces a fetch, but for a full reset.
SpecialResetTaken == [][sres /\ ~sres' => srst_m1 \/ res2']_vars

(***************************************************************************)
(* Liveness.                                                               *)
(***************************************************************************)

\* A BUSREQ held low is granted for good, and one released is taken back,
\* unless WAIT is held for ever; no sequence of opcodes, an endless run of
\* prefixes included, keeps the DMA master out.
BusreqAnswered ==
  (<>[]busreq_s => <>[]bus_granted \/ <>[]in_tw) /\ (<>[]~busreq_s => <>[]~bus_granted)

\* A pending NMI is answered if no wait state or bus grant lasts for ever and
\* the opcodes are not prefixes for ever.
NmiAnswered ==
  []<>(~in_tw /\ ~bus_granted) /\ []<>(exec \notin Prefixes)
    => (nmi_pending ~> nmi_resp)

\* RESET held low stops the CPU, whatever WAIT and BUSREQ do: the T2 in which
\* RES2 holds for the special reset does not repeat as a Tw that holds it too.
ResetStops == <>[]res_s => <>[]rst_idle

\* RESET released for good, the CPU runs again: RES2 does not hold in the
\* idle, wherever the cut left the ring (advance()).
ResetReleases == <>[]~res_s => <>[]~rst_idle
=============================================================================
