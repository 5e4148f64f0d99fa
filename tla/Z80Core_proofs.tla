--------------------------- MODULE Z80Core_proofs ---------------------------
(***************************************************************************)
(* Proofs about the phase engine, for every set of pins, every set of      *)
(* opcodes and every size of the address space.                            *)
(***************************************************************************)
EXTENDS Z80Core, Z80Sequencer_proofs

(***************************************************************************)
(* Types. The M-cycle counter stays in range only because a template is    *)
(* short, because (IX+d), which makes it longer, goes only with the        *)
(* classes it was decoded with, and because a prefix is decoded in the     *)
(* first M-cycle and fetches another first one.                            *)
(***************************************************************************)
RingType ==
  /\ bus_op \in BusOps /\ m_len \in 1 .. 7 /\ t_state \in 1 .. m_len
  /\ m_cycle \in 1 .. 6 /\ m_addr \in Address
  /\ bus_op \in {"M1", "INTA"} => m_cycle = 1 /\ m_len >= 4
  /\ bus_op = "INTA" => m_len >= 6

ExecType ==
  /\ exec \in Classes /\ disp \in BOOLEAN
  /\ disp => exec \in DispClasses
  /\ exec \in Prefixes => m_cycle = 1

PCType == pc \in 0 .. PCMod - 1

PendingType ==
  /\ wbp \subseteq PendingKinds
  /\ wb_exec \in Classes \cup {NoExec} /\ wb_pv \in BOOLEAN

EnablesType ==
  iff1 \in BOOLEAN /\ iff2 \in BOOLEAN /\ im \in 0 .. 2 /\ halted \in BOOLEAN

FlagsType ==
  /\ phi \in 0 .. 1 /\ prefix \in PrefixStates
  /\ im0_ins \in BOOLEAN /\ suppress_decode \in BOOLEAN /\ srst_m1 \in BOOLEAN
  /\ rst_idle \in BOOLEAN /\ rd_hold \in BOOLEAN /\ in_tw \in BOOLEAN

PinsType ==
  /\ stalled \in BOOLEAN /\ busreq_s \in BOOLEAN /\ bus_granted \in BOOLEAN
  /\ res_s \in BOOLEAN /\ res2 \in BOOLEAN /\ sres \in BOOLEAN

NmiType ==
  /\ nmi_pending \in BOOLEAN /\ prev_nmi \in BOOLEAN /\ nmi_resp \in BOOLEAN
  /\ nmi_sampled \in BOOLEAN /\ int_sampled \in BOOLEAN

TypeInv ==
  /\ RingType /\ ExecType /\ PCType /\ PendingType /\ EnablesType /\ FlagsType
  /\ PinsType /\ NmiType /\ addr \in Address

LEMMA TypeInvImpliesTypeOK == TypeInv => TypeOK
  BY DEF TypeInv, TypeOK, RingType, ExecType, PCType, PendingType, EnablesType, FlagsType,
         PinsType, NmiType

LEMMA InitType == Init => TypeInv
<1> SUFFICES ASSUME Init PROVE TypeInv
  OBVIOUS
<1>1. RingType /\ PCType /\ addr \in Address
  BY PCModAssumption DEF Init, RingType, PCType, Address, BusOps
<1>2. ExecType /\ PendingType
  BY NamedClasses DEF Init, ExecType, PendingType
<1>3. EnablesType
  <2>1. iff1 \in BOOLEAN /\ iff2 \in BOOLEAN /\ halted \in BOOLEAN
    BY Zenon DEF Init
  <2> QED BY <2>1 DEF Init, EnablesType
<1>4. FlagsType
  <2>1. /\ im0_ins \in BOOLEAN /\ suppress_decode \in BOOLEAN /\ srst_m1 \in BOOLEAN
        /\ rst_idle \in BOOLEAN /\ rd_hold \in BOOLEAN /\ in_tw \in BOOLEAN
    BY Zenon DEF Init
  <2>2. phi \in 0 .. 1 /\ prefix \in PrefixStates
    BY DEF Init, PrefixStates
  <2> QED BY <2>1, <2>2 DEF FlagsType
<1>5. PinsType
  BY DEF Init, PinsType
<1>6. NmiType
  BY DEF Init, NmiType, Level
<1> QED BY <1>1, <1>2, <1>3, <1>4, <1>5, <1>6 DEF TypeInv

LEMMA PCIncType == PCType => PCInc \in Targets /\ PCBack \in Targets
  BY PCModAssumption DEF PCType, PCInc, PCBack, Targets

LEMMA PCSetsType == PCType => PCAfter \subseteq Targets /\ PCGoingOn \subseteq Targets
<1> SUFFICES ASSUME PCType PROVE PCAfter \subseteq Targets /\ PCGoingOn \subseteq Targets
  OBVIOUS
<1>1. pc \in Targets /\ {PCInc} \subseteq Targets /\ {PCBack} \subseteq Targets /\ {pc} \subseteq Targets
  BY PCIncType DEF PCType, Targets
<1>2. PCAfter \subseteq Targets
  BY <1>1, Zenon DEF PCAfter
<1>3. PCGoingOn \subseteq Targets
  BY <1>1, Zenon DEF PCGoingOn
<1> QED BY <1>2, <1>3

(***************************************************************************)
(* What a step does to each group of variables, action by action.          *)
(***************************************************************************)
\* A fetch or an acknowledge that starts; an acknowledge is the longer one.
StartsFetch(b, len, a) == StartFetch(b, len, a) /\ (b = "INTA" => len >= 6)

LEMMA RingSteps ==
  ASSUME PCType, Next
  PROVE  \/ UNCHANGED <<t_state, bus_op, m_len, m_cycle, m_addr>>
         \/ NextT
         \/ \E b \in {"M1", "INTA"}, len \in 4 .. 7, a \in Targets : StartsFetch(b, len, a)
         \/ GoesOn
         \/ exec \in Prefixes /\ StartMCycle(Operand)
<1>1. CASE FallingEdge \/ Granted \/ WaitState \/ ResetHold
  BY <1>1 DEF FallingEdge, Granted, WaitState, ResetHold, ring
<1>2. CASE NextTState \/ LatchM1 \/ LatchINTA
  BY <1>2 DEF NextTState, LatchM1, LatchINTA
<1>3. CASE NextMCycle
  BY <1>3 DEF NextMCycle
<1>4. ASSUME GoesOnPrefix
      PROVE  \/ \E b \in {"M1", "INTA"}, len \in 4 .. 7, a \in Targets : StartsFetch(b, len, a)
             \/ exec \in Prefixes /\ StartMCycle(Operand)
  <2>1. pc \in Targets
    BY DEF PCType, Targets
  <2> QED BY <1>4, <2>1 DEF GoesOnPrefix, StartsFetch
<1>5. ASSUME NEW a \in PCAfter, NEW mode, Boundary(a, mode)
      PROVE  \E b \in {"M1", "INTA"}, len \in 4 .. 7, c \in Targets : StartsFetch(b, len, c)
  <2>1. a \in Targets
    BY PCSetsType
  <2>2. \E b \in {"M1", "INTA"}, len \in 4 .. 7 : StartsFetch(b, len, a)
    BY <1>5 DEF Boundary, StartNMI, StartINT, StartHalt, StartNext, StartsFetch
  <2> QED BY <2>1, <2>2
<1>6. CASE NextPrefix
  BY <1>4, <1>6 DEF NextPrefix
<1>7. CASE AcceptNMI \/ AcceptINT \/ HaltNOP \/ NextInstruction
  BY <1>5, <1>7 DEF AcceptNMI, AcceptINT, HaltNOP, NextInstruction, Boundary
<1>8. CASE Cut
  <2>1. CASE UNCHANGED ring
    BY <2>1 DEF ring
  <2> QED BY <1>4, <1>5, <1>8, <2>1 DEF Cut
<1>9. CASE Restart
  <2>1. pc \in Targets
    BY DEF PCType, Targets
  <2> QED BY <1>9, <2>1 DEF Restart, StartsFetch
<1> QED BY <1>1, <1>2, <1>3, <1>6, <1>7, <1>8, <1>9 DEF Next

LEMMA StartMCycleType ==
  ASSUME NEW c \in GoodCycle, m_cycle \in 1 .. 5, PCType, StartMCycle(c)
  PROVE  RingType'
<1>1. /\ bus_op' \in BusOps /\ bus_op' \notin {"M1", "INTA"}
      /\ m_len' \in 1 .. 7
  BY DEF GoodCycle, MCycles, StartMCycle
<1>2. m_addr' \in Address
  <2>1. <<"PC", pc>> \in Address /\ <<"REG", m_cycle + 1>> \in Address
    BY DEF PCType, Address
  <2> QED BY <2>1 DEF StartMCycle
<1>3. t_state' = 1 /\ m_cycle' \in 1 .. 6
  BY DEF StartMCycle
<1> QED BY <1>1, <1>2, <1>3 DEF RingType

LEMMA RingTypeStep == ASSUME TypeInv, [Next]_vars PROVE RingType'
<1> USE DEF TypeInv
<1>1. CASE UNCHANGED <<t_state, bus_op, m_len, m_cycle, m_addr>>
  BY <1>1 DEF RingType
<1>2. CASE NextT
  BY <1>2 DEF RingType, NextT
<1>3. ASSUME NEW b \in {"M1", "INTA"}, NEW len \in 4 .. 7, NEW a \in Targets, StartsFetch(b, len, a)
      PROVE  RingType'
  BY <1>3 DEF RingType, StartsFetch, StartFetch, BusOps, Address, Targets
<1>4. CASE GoesOn
  <2>1. Cycles(exec, disp) \in Short
    BY CyclesShort DEF ExecType
  <2>2. /\ m_cycle \in 1 .. Len(Cycles(exec, disp)) /\ Len(Cycles(exec, disp)) <= 5
        /\ Cycles(exec, disp) \in Seq(GoodCycle)
    BY <1>4, <2>1 DEF GoesOn, MayGoOn, RingType, Short
  <2>3. Cycles(exec, disp)[m_cycle] \in GoodCycle /\ m_cycle \in 1 .. 5
    BY <2>2
  <2> QED BY <1>4, <2>3, StartMCycleType DEF GoesOn
<1>5. CASE exec \in Prefixes /\ StartMCycle(Operand)
  <2>1. m_cycle \in 1 .. 5
    BY <1>5 DEF ExecType
  <2> QED BY <1>5, <2>1, PiecesGood, StartMCycleType
<1>6. CASE UNCHANGED vars
  BY <1>1, <1>6 DEF vars, ring
<1> QED BY <1>1, <1>2, <1>3, <1>4, <1>5, <1>6, RingSteps

LEMMA DecodeType ==
  ASSUME Decode
  PROVE  exec' \in Classes \ {"INT", "NMI"} /\ disp' \in BOOLEAN
         /\ (disp' => exec' \in DispClasses)
<1>1. PICK op \in Ops \cap Page(prefix) : exec' = op /\ disp' = UsesDisp(prefix, op)
  BY DEF Decode
<1>2. op \in Classes \ {"INT", "NMI"}
  BY OpsAssumption, PagesInClasses
<1>3. UsesDisp(prefix, op) \in BOOLEAN /\ (UsesDisp(prefix, op) => op \in DispClasses)
  BY DispDecode DEF UsesDisp
<1> QED BY <1>1, <1>2, <1>3, Zenon

LEMMA ExecSteps ==
  ASSUME Next
  PROVE  \/ UNCHANGED <<exec, disp>>
            /\ (m_cycle' \in {m_cycle, 1} \/ exec \notin Prefixes)
         \/ Decode /\ bus_op \in {"M1", "INTA"} /\ m_cycle' = m_cycle
         \/ exec' \in {"NOP", "NMI", "INT", "DDCB"} /\ disp' = FALSE
         \/ exec' = exec /\ disp' = FALSE /\ m_cycle' = 1
<1>1. CASE FallingEdge \/ Granted \/ WaitState \/ ResetHold
  BY <1>1 DEF FallingEdge, Granted, WaitState, ResetHold, ring
<1>2. CASE NextTState \/ Restart
  BY <1>2 DEF NextTState, Restart, NextT, StartFetch
<1>3. CASE LatchM1 \/ LatchINTA
  BY <1>3 DEF LatchM1, TakeOpcode, LatchINTA, NextT
<1>4. CASE GoesOn
  BY <1>4 DEF GoesOn
<1>5. CASE GoesOnPrefix
  BY <1>5 DEF GoesOnPrefix, StartFetch
<1>6. ASSUME NEW a, NEW mode, Boundary(a, mode)
      PROVE  \/ UNCHANGED <<exec, disp>> /\ m_cycle' = 1
             \/ exec' \in {"NOP", "NMI", "INT", "DDCB"} /\ disp' = FALSE
  BY <1>6 DEF Boundary, StartNMI, StartINT, StartHalt, StartNext, StartFetch
<1>7. CASE AcceptNMI \/ AcceptINT \/ HaltNOP \/ NextInstruction
  BY <1>6, <1>7 DEF AcceptNMI, AcceptINT, HaltNOP, NextInstruction, Boundary
<1>8. CASE Cut
  BY <1>4, <1>5, <1>6, <1>8 DEF Cut, ring, NextT
<1> QED BY <1>1, <1>2, <1>3, <1>4, <1>5, <1>7, <1>8 DEF Next, NextMCycle, NextPrefix

LEMMA ExecTypeStep == ASSUME TypeInv, [Next]_vars PROVE ExecType'
<1>1. CASE UNCHANGED <<exec, disp>> /\ (m_cycle' \in {m_cycle, 1} \/ exec \notin Prefixes)
  BY <1>1 DEF TypeInv, ExecType
<1>2. CASE Decode /\ bus_op \in {"M1", "INTA"} /\ m_cycle' = m_cycle
  BY <1>2, DecodeType DEF TypeInv, RingType, ExecType
<1>3. CASE exec' \in {"NOP", "NMI", "INT", "DDCB"} /\ disp' = FALSE
  BY <1>3, NamedClasses DEF ExecType, Prefixes
<1>4. CASE exec' = exec /\ disp' = FALSE /\ m_cycle' = 1
  BY <1>4 DEF TypeInv, ExecType
<1>5. CASE UNCHANGED vars
  BY <1>1, <1>5 DEF vars, ring
<1> QED BY <1>1, <1>2, <1>3, <1>4, <1>5, ExecSteps

LEMMA PCTypeStep == ASSUME TypeInv, [Next]_vars PROVE PCType'
<1> SUFFICES pc' \in Targets
  BY DEF PCType, Targets
<1>1. pc \in Targets /\ PCInc \in Targets /\ PCAfter \subseteq Targets /\ PCGoingOn \subseteq Targets
  BY PCIncType, PCSetsType DEF TypeInv, PCType, Targets
<1>2. 0 \in Targets
  BY PCModAssumption DEF Targets
<1>3. CASE FallingEdge \/ Granted \/ WaitState \/ NextTState \/ LatchINTA \/ Restart
  BY <1>1, <1>3 DEF FallingEdge, Granted, WaitState, NextTState, LatchINTA, Restart
<1>4. CASE LatchM1
  BY <1>1, <1>2, <1>4 DEF LatchM1, TakeOpcode
<1>5. CASE NextMCycle \/ NextPrefix
  BY <1>1, <1>5 DEF NextMCycle, NextPrefix
<1>6. CASE AcceptNMI \/ AcceptINT \/ HaltNOP \/ NextInstruction
  BY <1>1, <1>6 DEF AcceptNMI, AcceptINT, HaltNOP, NextInstruction
<1>7. CASE Cut \/ ResetHold
  BY <1>2, <1>7 DEF Cut, ResetHold, EnterResetIdle
<1>8. CASE UNCHANGED vars
  BY <1>1, <1>8 DEF vars
<1> QED BY <1>3, <1>4, <1>5, <1>6, <1>7, <1>8 DEF Next

LEMMA PendingTypeStep == ASSUME TypeInv, [Next]_vars PROVE PendingType'
<1>1. CASE UNCHANGED pending
  BY <1>1 DEF TypeInv, PendingType, pending
<1>2. CASE LandWrites
  BY <1>2 DEF TypeInv, PendingType, LandWrites, pending, PendingKinds
<1>3. ASSUME NEW r, EndInstruction(r)
      PROVE  PendingType'
  <2>1. Left \subseteq PendingKinds
    BY DeferredType DEF Left, TypeInv, PendingType
  <2>2. PVOfLdAIr \in BOOLEAN
    BY DEF PVOfLdAIr, TypeInv, EnablesType
  <2>3. "DEC" \in PendingKinds
    BY DEF PendingKinds
  <2> QED BY <1>3, <2>1, <2>2, <2>3 DEF EndInstruction, TypeInv, PendingType, ExecType
<1>4. CASE wbp' = {} /\ wb_exec' = NoExec /\ wb_pv' = FALSE
  BY <1>4 DEF PendingType
<1>5. Next => \/ UNCHANGED pending \/ LandWrites \/ \E r \in BOOLEAN : EndInstruction(r)
              \/ wbp' = {} /\ wb_exec' = NoExec /\ wb_pv' = FALSE
  BY DEF Next, FallingEdge, Granted, WaitState, NextTState, LatchM1, LatchINTA, NextMCycle,
         NextPrefix, AcceptNMI, AcceptINT, HaltNOP, NextInstruction, Cut, ResetHold,
         EnterResetIdle, Restart
<1> QED BY <1>1, <1>2, <1>3, <1>4, <1>5 DEF vars

LEMMA EnablesTypeStep == ASSUME TypeInv, [Next]_vars PROVE EnablesType'
<1>1. CASE UNCHANGED enables
  BY <1>1 DEF TypeInv, EnablesType, enables
<1>2. Iff1After \in BOOLEAN /\ Iff2After \in BOOLEAN /\ ImAfter \subseteq 0 .. 2
  <2>1. iff1 \in BOOLEAN /\ iff2 \in BOOLEAN /\ im \in 0 .. 2
    BY DEF TypeInv, EnablesType
  <2>2. Iff1After \in BOOLEAN
    BY <2>1, Zenon DEF Iff1After
  <2>3. Iff2After \in BOOLEAN
    BY <2>1, Zenon DEF Iff2After
  <2>4. ImAfter \subseteq 0 .. 2
    BY <2>1 DEF ImAfter
  <2> QED BY <2>2, <2>3, <2>4
<1>3. CASE AcceptNMI \/ AcceptINT \/ HaltNOP \/ NextInstruction
  <2>1. iff1' \in BOOLEAN /\ iff2' \in BOOLEAN /\ halted' \in BOOLEAN
    BY <1>2, <1>3, Zenon DEF AcceptNMI, AcceptINT, HaltNOP, NextInstruction
  <2>2. im' \in 0 .. 2
    BY <1>2, <1>3 DEF AcceptNMI, AcceptINT, HaltNOP, NextInstruction
  <2> QED BY <2>1, <2>2 DEF EnablesType
<1>4. CASE Cut \/ ResetHold
  <2>1. iff1' = FALSE /\ iff2' = FALSE /\ im' = 0 /\ halted' = FALSE
    BY <1>4 DEF Cut, ResetHold, EnterResetIdle
  <2>2. iff1' \in BOOLEAN /\ iff2' \in BOOLEAN /\ halted' \in BOOLEAN
    BY <2>1, Zenon
  <2> QED BY <2>1, <2>2 DEF EnablesType
<1>5. Next => \/ UNCHANGED enables \/ AcceptNMI \/ AcceptINT \/ HaltNOP \/ NextInstruction
              \/ Cut \/ ResetHold
  BY DEF Next, FallingEdge, Granted, WaitState, NextTState, LatchM1, LatchINTA, NextMCycle,
         NextPrefix, Restart
<1> QED BY <1>1, <1>3, <1>4, <1>5 DEF vars

LEMMA NmiTypeStep == ASSUME TypeInv, [Next]_vars PROVE NmiType'
<1>1. ASSUME NEW c \in BOOLEAN, NmiPin(c)
      PROVE  nmi_pending' \in BOOLEAN /\ prev_nmi' \in BOOLEAN
  <2>1. prev_nmi' \in BOOLEAN
    BY <1>1 DEF NmiPin, Level
  <2>2. nmi_pending' \in BOOLEAN
    BY <1>1, Zenon DEF NmiPin
  <2> QED BY <2>1, <2>2
<1>2. ASSUME NEW n \in BOOLEAN, NEW i \in BOOLEAN, Sample(n, i), nmi_pending' \in BOOLEAN
      PROVE  nmi_sampled' \in BOOLEAN /\ int_sampled' \in BOOLEAN
  BY <1>2 DEF Sample, Level
<1>3. CASE FallingEdge
  BY <1>1, <1>3 DEF FallingEdge, samples, TypeInv, NmiType
<1>4. CASE Granted \/ WaitState \/ NextTState \/ LatchM1 \/ LatchINTA
           \/ NextMCycle \/ NextPrefix \/ Restart
  BY <1>1, <1>2, <1>4 DEF Granted, WaitState, NextTState, LatchM1, LatchINTA, NextMCycle,
                          NextPrefix, Restart, TypeInv, NmiType
<1>5. CASE AcceptNMI \/ AcceptINT \/ HaltNOP \/ NextInstruction
  BY <1>1, <1>2, <1>5 DEF AcceptNMI, AcceptINT, HaltNOP, NextInstruction, TypeInv, NmiType
<1>6. CASE Cut \/ ResetHold
  BY <1>1, <1>2, <1>6 DEF Cut, ResetHold, EnterResetIdle, TypeInv, NmiType
<1>7. CASE UNCHANGED vars
  BY <1>7 DEF vars, nmi, samples, TypeInv, NmiType
<1> QED BY <1>3, <1>4, <1>5, <1>6, <1>7 DEF Next

LEMMA PinsTypeStep == ASSUME TypeInv, [Next]_vars PROVE PinsType'
<1> USE DEF TypeInv, PinsType
<1>1. CASE FallingEdge
  BY <1>1 DEF FallingEdge, grant, reset, Level
<1>2. ASSUME RisingEdge
      PROVE  /\ stalled' \in BOOLEAN /\ busreq_s' \in BOOLEAN
             /\ res_s' \in BOOLEAN /\ res2' \in BOOLEAN /\ sres' \in BOOLEAN
  <2>1. stalled' \in BOOLEAN /\ busreq_s' \in BOOLEAN /\ res_s' \in BOOLEAN
    BY <1>2 DEF RisingEdge, Level
  <2>2. res2' \in BOOLEAN
    BY <1>2 DEF RisingEdge
  <2>3. sres' \in BOOLEAN
    BY <1>2, <2>2, Zenon DEF RisingEdge
  <2> QED BY <2>1, <2>2, <2>3
<1>3. ASSUME busreq_s \in BOOLEAN, Arbitrate
      PROVE  bus_granted' \in BOOLEAN
  BY <1>3, Zenon DEF Arbitrate
<1>4. CASE Granted \/ WaitState \/ NextTState \/ LatchM1 \/ LatchINTA \/ Restart
  <2>1. RisingEdge
    BY <1>4 DEF Granted, WaitState, NextTState, LatchM1, LatchINTA, Restart, Ticks, Running
  <2>2. bus_granted' \in BOOLEAN
    BY <1>4 DEF Granted, WaitState, NextTState, LatchM1, LatchINTA, Restart
  <2> QED BY <1>2, <2>1, <2>2
<1>5. CASE NextMCycle \/ NextPrefix \/ AcceptNMI \/ AcceptINT \/ HaltNOP \/ NextInstruction
  <2>1. RisingEdge /\ Arbitrate
    BY <1>5 DEF NextMCycle, NextPrefix, AcceptNMI, AcceptINT, HaltNOP, NextInstruction,
                EndInstruction, Ticks, Running
  <2> QED BY <1>2, <1>3, <2>1
<1>6. CASE Cut \/ ResetHold
  BY <1>2, <1>6 DEF Cut, ResetHold, EnterResetIdle
<1>7. CASE UNCHANGED vars
  BY <1>7 DEF vars, waits, grant, reset
<1> QED BY <1>1, <1>4, <1>5, <1>6, <1>7 DEF Next

LEMMA FlagsTypeStep == ASSUME TypeInv, [Next]_vars PROVE FlagsType'
<1>1. phi' \in 0 .. 1
  <2>1. phi' = 0 \/ phi' = 1 \/ phi' = phi
    BY DEF Next, FallingEdge, Granted, WaitState, NextTState, LatchM1, LatchINTA, NextMCycle,
           NextPrefix, AcceptNMI, AcceptINT, HaltNOP, NextInstruction, EndInstruction, Cut,
           ResetHold, Restart, Ticks, Running, RisingEdge, vars
  <2> QED BY <2>1 DEF TypeInv, FlagsType
<1>2. prefix' \in PrefixStates
  <2>1. "NONE" \in PrefixStates
    BY DEF PrefixStates
  <2> QED BY <2>1, PrefixAfterType
          DEF TypeInv, FlagsType, Next, FallingEdge, Granted, WaitState, NextTState, LatchM1,
              LatchINTA, NextMCycle, NextPrefix, AcceptNMI, AcceptINT, HaltNOP,
              NextInstruction, EndInstruction, Cut, ResetHold, EnterResetIdle, Restart, vars
<1>3. im0_ins' \in BOOLEAN /\ suppress_decode' \in BOOLEAN
  BY DEF TypeInv, FlagsType, fetch, Next, FallingEdge, Granted, WaitState, NextTState,
         LatchM1, LatchINTA, NextMCycle, NextPrefix, AcceptNMI, AcceptINT, HaltNOP,
         NextInstruction, EndInstruction, Cut, ResetHold, EnterResetIdle, Restart, vars
<1>4. srst_m1' \in BOOLEAN
  <2>1. sres' \in BOOLEAN
    BY PinsTypeStep DEF PinsType
  <2> QED BY <2>1
          DEF TypeInv, FlagsType, fetch, Next, FallingEdge, Granted, WaitState, NextTState,
              LatchM1, LatchINTA, NextMCycle, NextPrefix, AcceptNMI, AcceptINT, HaltNOP,
              NextInstruction, Cut, ResetHold, EnterResetIdle, Restart, vars
<1>5. rst_idle' \in BOOLEAN /\ in_tw' \in BOOLEAN
  BY DEF TypeInv, FlagsType, reset, waits, Next, FallingEdge, Granted, WaitState, NextTState,
         LatchM1, LatchINTA, NextMCycle, NextPrefix, AcceptNMI, AcceptINT, HaltNOP,
         NextInstruction, EndInstruction, Cut, ResetHold, EnterResetIdle, Restart, Ticks,
         Running, vars
<1>6. rd_hold' \in BOOLEAN
  BY DEF TypeInv, FlagsType, reset, Next, FallingEdge, Granted, WaitState, NextTState,
         LatchM1, LatchINTA, NextMCycle, NextPrefix, AcceptNMI, AcceptINT, HaltNOP,
         NextInstruction, EndInstruction, Cut, ResetHold, Restart, Ticks, Running, vars
<1> QED BY <1>1, <1>2, <1>3, <1>4, <1>5, <1>6 DEF FlagsType

LEMMA AddrTypeStep == ASSUME TypeInv, RingType', [Next]_vars PROVE (addr \in Address)'
<1>1. <<"IR", 0>> \in Address
  BY DEF Address
<1>2. CASE DriveAddress
  BY <1>1, <1>2 DEF DriveAddress, TypeInv, RingType
<1>3. CASE UNCHANGED vars
  BY <1>3 DEF vars, TypeInv
<1>4. Next => DriveAddress
  BY DEF Next, FallingEdge, Granted, WaitState, NextTState, LatchM1, LatchINTA, NextMCycle,
         NextPrefix, AcceptNMI, AcceptINT, HaltNOP, NextInstruction, Cut, ResetHold,
         EnterResetIdle, Restart
<1> QED BY <1>2, <1>3, <1>4

LEMMA TypeInvHolds == Spec => []TypeInv
<1>1. TypeInv /\ [Next]_vars => TypeInv'
  BY RingTypeStep, ExecTypeStep, PCTypeStep, PendingTypeStep, EnablesTypeStep, FlagsTypeStep,
     PinsTypeStep, NmiTypeStep, AddrTypeStep DEF TypeInv
<1> QED BY <1>1, InitType, PTL DEF Spec

\* Every variable stays in its range for every set of opcodes: no template,
\* displacement or chain of prefixes overruns the M-cycle or T-state counter.
THEOREM TypeSafe == Spec => []TypeOK
  BY TypeInvHolds, TypeInvImpliesTypeOK, PTL

\* An NMI clears IFF1 alone, and no nesting of NMI, EI, DI, RETN and RESET
\* leaves IFF1 set with IFF2 clear (begin_next(), EXEC_RETN).
THEOREM IffSafe == Spec => []Iff1ImpliesIff2
<1>1. Init => Iff1ImpliesIff2
  BY DEF Init, Iff1ImpliesIff2
<1>2. Iff1ImpliesIff2 /\ [Next]_vars => Iff1ImpliesIff2'
  <2> SUFFICES ASSUME Iff1ImpliesIff2, [Next]_vars
               PROVE  Iff1ImpliesIff2'
    OBVIOUS
  <2>1. CASE UNCHANGED enables
    BY <2>1 DEF enables, Iff1ImpliesIff2
  <2>2. CASE iff1' = FALSE
    BY <2>2 DEF Iff1ImpliesIff2
  <2>3. CASE iff1' = Iff1After /\ iff2' = Iff2After
    BY <2>3 DEF Iff1After, Iff2After, Iff1ImpliesIff2
  <2>4. UNCHANGED vars => UNCHANGED enables
    BY DEF vars
  <2>5. Next => UNCHANGED enables \/ iff1' = FALSE \/ (iff1' = Iff1After /\ iff2' = Iff2After)
    BY DEF Next, FallingEdge, Granted, WaitState, NextTState, LatchM1, LatchINTA,
           NextMCycle, NextPrefix, AcceptNMI, AcceptINT, HaltNOP, NextInstruction,
           Cut, ResetHold, Restart, EnterResetIdle
  <2> QED BY <2>1, <2>2, <2>3, <2>4, <2>5
<1> QED BY <1>1, <1>2, PTL DEF Spec

-----------------------------------------------------------------------------
(***************************************************************************)
(* The NMI flip-flop. That the sample implies the flip-flop is inductive   *)
(* only with the second conjunct: a response holds the flip-flop clear, so *)
(* a sample from before it must not outlive its start.                     *)
(***************************************************************************)
NmiInv ==
  /\ nmi_sampled => nmi_pending
  /\ nmi_resp => ~nmi_pending

\* The three things a step does to the flip-flop, its sample and the response.
NmiKept ==
  NmiPin(FALSE) /\ nmi_sampled' \in {nmi_sampled, nmi_pending'} /\ (nmi_resp' => nmi_resp)
NmiTaken ==
  NmiPin(FALSE) /\ nmi_sampled' \in {FALSE, nmi_pending'} /\ nmi_resp'
NmiCleared ==
  NmiPin(TRUE) /\ nmi_sampled' \in {FALSE, nmi_pending'} /\ ~nmi_resp' /\ rst_idle'

LEMMA NmiSteps == ASSUME Next PROVE NmiKept \/ NmiTaken \/ NmiCleared
<1>1. ASSUME NEW n, NEW i, Sample(n, i) PROVE nmi_sampled' \in {n, nmi_pending'}
  BY <1>1 DEF Sample
<1>2. CASE FallingEdge
  BY <1>2 DEF FallingEdge, samples, NmiKept
<1>3. CASE Granted \/ WaitState \/ NextTState \/ LatchM1 \/ LatchINTA
           \/ NextMCycle \/ NextPrefix \/ Restart
  BY <1>1, <1>3 DEF Granted, WaitState, NextTState, LatchM1, LatchINTA, NextMCycle,
                    NextPrefix, Restart, NmiKept
<1>4. CASE AcceptINT \/ HaltNOP \/ NextInstruction
  BY <1>1, <1>4 DEF AcceptINT, HaltNOP, NextInstruction, NmiKept
<1>5. CASE AcceptNMI
  BY <1>1, <1>5 DEF AcceptNMI, NmiTaken
<1>6. CASE Cut \/ ResetHold
  BY <1>1, <1>6 DEF Cut, ResetHold, EnterResetIdle, NmiCleared
<1> QED BY <1>2, <1>3, <1>4, <1>5, <1>6 DEF Next

LEMMA NmiPinLemma ==
  ASSUME NEW c \in BOOLEAN, NmiPin(c)
  PROVE  /\ nmi_pending' => ~c /\ ~nmi_resp /\ ~nmi_resp'
         /\ nmi_pending => nmi_pending' \/ c \/ nmi_resp \/ nmi_resp'
         /\ nmi_pending' \in BOOLEAN
<1>1. PICK low \in Level("NMI") :
        nmi_pending' = /\ nmi_pending \/ (low /\ ~prev_nmi /\ ~res2)
                       /\ ~c /\ ~nmi_resp /\ ~nmi_resp'
  BY DEF NmiPin
<1> QED BY <1>1, Zenon

LEMMA NmiInvStep == ASSUME NmiInv, [Next]_vars PROVE NmiInv'
<1>1. CASE NmiKept
  <2>1. /\ nmi_pending' => ~nmi_resp /\ ~nmi_resp'
        /\ nmi_pending => nmi_pending' \/ nmi_resp \/ nmi_resp'
    BY <1>1, NmiPinLemma DEF NmiKept
  <2>2. nmi_sampled' => nmi_sampled \/ nmi_pending'
    BY <1>1, Zenon DEF NmiKept
  <2> QED BY <1>1, <2>1, <2>2, Zenon DEF NmiKept, NmiInv
<1>2. CASE NmiTaken \/ NmiCleared
  <2>1. nmi_pending' => ~nmi_resp'
    BY <1>2, NmiPinLemma DEF NmiTaken, NmiCleared
  <2>2. nmi_sampled' => nmi_pending'
    BY <1>2, Zenon DEF NmiTaken, NmiCleared
  <2> QED BY <2>1, <2>2 DEF NmiInv
<1>3. CASE UNCHANGED vars
  BY <1>3 DEF vars, nmi, samples, NmiInv
<1> QED BY <1>1, <1>2, <1>3, NmiSteps

LEMMA NmiInvHolds == Spec => []NmiInv
<1>1. Init => NmiInv
  BY DEF Init, NmiInv
<1> QED BY <1>1, NmiInvStep, PTL DEF Spec

\* A sample never outlives the flip-flop: one edge, one response.
THEOREM SampleSafe == Spec => []SampledNmiIsPending
<1>1. NmiInv => SampledNmiIsPending
  BY DEF NmiInv, SampledNmiIsPending
<1> QED BY <1>1, NmiInvHolds, PTL

\* An NMI the flip-flop took is kept until its response or a RESET.
THEOREM NmiKeptUntilAnswered == Spec => NmiNotLost
<1>1. ASSUME NmiInv, [Next]_vars
      PROVE  nmi_pending /\ ~nmi_pending' => nmi_resp' \/ rst_idle'
  <2>1. CASE NmiKept
    BY <1>1, <2>1, NmiPinLemma DEF NmiKept, NmiInv
  <2>2. CASE NmiTaken \/ NmiCleared
    BY <2>2 DEF NmiTaken, NmiCleared
  <2>3. CASE UNCHANGED vars
    BY <2>3 DEF vars, nmi
  <2> QED BY <1>1, <2>1, <2>2, <2>3, NmiSteps
<1> QED BY <1>1, NmiInvHolds, PTL DEF Spec, NmiNotLost

\* Under RES2 the flip-flop is deaf, from the cut's end to the restart.
THEOREM DeafInReset == Spec => []NmiDeafInReset
<1>1. Init => NmiDeafInReset
  BY DEF Init, NmiDeafInReset
<1>2. ASSUME NmiDeafInReset, [Next]_vars PROVE NmiDeafInReset'
  <2>1. CASE FallingEdge
    BY <1>2, <2>1 DEF FallingEdge, reset, NmiPin, NmiDeafInReset
  <2>2. CASE Cut \/ ResetHold
    BY <2>2 DEF Cut, ResetHold, EnterResetIdle, NmiPin, NmiDeafInReset
  <2>3. CASE UNCHANGED vars
    BY <1>2, <2>3 DEF vars, nmi, reset, NmiDeafInReset
  <2>4. Next => FallingEdge \/ Cut \/ ResetHold \/ rst_idle' = FALSE
    BY DEF Next, Granted, WaitState, NextTState, LatchM1, LatchINTA, NextMCycle, NextPrefix,
           AcceptNMI, AcceptINT, HaltNOP, NextInstruction, EndInstruction, Restart, Ticks, Running
  <2>5. CASE rst_idle' = FALSE
    BY <2>5 DEF NmiDeafInReset
  <2> QED BY <1>2, <2>1, <2>2, <2>3, <2>4, <2>5
<1> QED BY <1>1, <1>2, PTL DEF Spec

-----------------------------------------------------------------------------
\* The DMA master gets the bus only between M-cycles, and RESET takes it back.
THEOREM GrantSafe == Spec => []GrantBetweenMCycles
<1>1. Init => GrantBetweenMCycles
  BY DEF Init, GrantBetweenMCycles
<1>2. ASSUME GrantBetweenMCycles, [Next]_vars PROVE GrantBetweenMCycles'
  <2>1. CASE FallingEdge
    BY <1>2, <2>1 DEF FallingEdge, ring, reset, grant, GrantBetweenMCycles, Extension
  <2>2. CASE Granted
    BY <1>2, <2>2 DEF Granted, Running, RisingEdge, ring, GrantBetweenMCycles, Extension
  <2>3. CASE bus_granted' = bus_granted /\ (~bus_granted \/ rst_idle)
    BY <1>2, <2>3 DEF GrantBetweenMCycles
  <2>4. CASE /\ Arbitrate /\ t_state' = 1
             /\ in_tw' = FALSE /\ stalled' = FALSE /\ rst_idle' = FALSE
    BY <2>4 DEF Arbitrate, GrantBetweenMCycles, Extension
  <2>5. CASE bus_granted' = FALSE
    BY <2>5 DEF GrantBetweenMCycles
  <2>6. CASE UNCHANGED vars
    BY <1>2, <2>6 DEF vars, ring, waits, reset, grant, GrantBetweenMCycles, Extension
  <2>7. WaitState \/ NextTState \/ LatchM1 \/ LatchINTA \/ Restart
          => bus_granted' = bus_granted /\ (~bus_granted \/ rst_idle)
    BY DEF WaitState, NextTState, LatchM1, LatchINTA, Restart, Ticks
  <2>8. NextMCycle \/ NextPrefix
          => /\ Arbitrate /\ t_state' = 1
             /\ in_tw' = FALSE /\ stalled' = FALSE /\ rst_idle' = FALSE
    BY DEF NextMCycle, NextPrefix, Ticks, Running, RisingEdge, GoesOn, GoesOnPrefix,
           StartMCycle, StartFetch
  <2>9. AcceptNMI \/ AcceptINT \/ HaltNOP \/ NextInstruction
          => /\ Arbitrate /\ t_state' = 1
             /\ in_tw' = FALSE /\ stalled' = FALSE /\ rst_idle' = FALSE
    BY DEF AcceptNMI, AcceptINT, HaltNOP, NextInstruction, EndInstruction, Ticks, Running,
           RisingEdge, StartNMI, StartINT, StartHalt, StartNext, StartFetch
  <2>10. Cut \/ ResetHold => bus_granted' = FALSE
    BY DEF Cut, ResetHold, EnterResetIdle
  <2> QED BY <1>2, <2>1, <2>2, <2>3, <2>4, <2>5, <2>6, <2>7, <2>8, <2>9, <2>10 DEF Next
<1> QED BY <1>1, <1>2, PTL DEF Spec
=============================================================================
