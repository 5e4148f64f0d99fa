------------------------- MODULE Z80Response_proofs -------------------------
(***************************************************************************)
(* Proofs about what follows an instruction: the halt state, the EI        *)
(* shadow, the interrupt responses and the writes left to the next fetch.  *)
(***************************************************************************)
EXTENDS Z80Core_proofs

(***************************************************************************)
(* The halt state. It runs NOPs because each of its fetches discards the   *)
(* opcode: suppress_decode stands from the boundary to T3.                 *)
(***************************************************************************)
HaltInv ==
  halted =>
    /\ bus_op = "M1" /\ m_len = 4 /\ m_cycle = 1 /\ exec = "NOP" /\ ~disp
    /\ prefix = "NONE" /\ ~im0_ins /\ ~rst_idle
    /\ (t_state <= 2 => suppress_decode)

LEMMA HaltGoesNowhere ==
  ASSUME HaltInv, halted
  PROVE  ~GoesOn /\ ~GoesOnPrefix /\ PCAfter = {pc}
<1>1. ~GoesOn
  BY TemplateNOP DEF HaltInv, GoesOn, MayGoOn, Cycles
<1>2. ~GoesOnPrefix
  BY DEF HaltInv, GoesOnPrefix, Prefixes
<1>3. PCAfter = {pc}
  <2>1. <<exec, m_cycle>> \notin LoadsAtEnd /\ <<exec, m_cycle>> \notin MayLoadAtEnd
    BY DEF HaltInv, LoadsAtEnd, MayLoadAtEnd
  <2> QED BY <2>1, Zenon DEF PCAfter
<1> QED BY <1>1, <1>2, <1>3

LEMMA HaltInvStep == ASSUME TypeInv, HaltInv, [Next]_vars PROVE HaltInv'
<1> SUFFICES ASSUME halted' PROVE HaltInv'
  BY DEF HaltInv
<1>1. CASE FallingEdge \/ Granted \/ WaitState
  <2>1. UNCHANGED <<ring, prefix, fetch, halted>> /\ rst_idle' \in {rst_idle, FALSE}
    BY <1>1 DEF FallingEdge, Granted, WaitState, Running, enables, reset
  <2> QED BY <2>1 DEF HaltInv, ring, fetch
<1>2. CASE NextTState
  <2>1. /\ NextT /\ UNCHANGED <<exec, disp, prefix, fetch, halted>> /\ rst_idle' = FALSE
        /\ ~OpcodeLatch(bus_op, t_state + 1, 0)
    BY <1>2 DEF NextTState, Ticks, Running, enables
  <2>2. halted /\ t_state \in Int
    BY <2>1 DEF TypeInv, RingType
  <2> QED BY <2>1, <2>2 DEF HaltInv, NextT, OpcodeLatch, fetch
<1>3. CASE LatchM1
  <2>1. /\ NextT /\ UNCHANGED <<prefix, halted, im0_ins>> /\ rst_idle' = FALSE
        /\ TakeOpcode /\ t_state + 1 = 3 /\ t_state' = 3
    BY <1>3 DEF LatchM1, Ticks, Running, enables, OpcodeLatch, NextT
  <2>2. halted /\ t_state = 2 /\ suppress_decode
    BY <2>1 DEF HaltInv, TypeInv, RingType
  <2>3. UNCHANGED <<exec, disp>>
    BY <2>1, <2>2 DEF TakeOpcode
  <2> QED BY <2>1, <2>2, <2>3 DEF HaltInv, NextT
<1>4. CASE LatchINTA
  BY <1>4 DEF LatchINTA, enables, HaltInv
<1>5. CASE NextMCycle \/ NextPrefix
  BY <1>5, HaltGoesNowhere DEF NextMCycle, NextPrefix, enables
<1>6. CASE HaltNOP
  BY <1>6 DEF HaltNOP, StartHalt, StartFetch, EndInstruction, Ticks, Running, HaltInv
<1>7. CASE AcceptNMI \/ AcceptINT \/ NextInstruction \/ Cut \/ ResetHold
  BY <1>7 DEF AcceptNMI, AcceptINT, NextInstruction, Cut, ResetHold, EnterResetIdle
<1>8. CASE Restart
  BY <1>8 DEF Restart, enables, HaltInv
<1>9. CASE UNCHANGED vars
  BY <1>9 DEF vars, ring, enables, fetch, reset, HaltInv
<1> QED BY <1>1, <1>2, <1>3, <1>4, <1>5, <1>6, <1>7, <1>8, <1>9 DEF Next

LEMMA HaltInvHolds == Spec => []HaltInv
<1>1. Init => HaltInv
  BY DEF Init, HaltInv
<1>2. TypeInv /\ HaltInv /\ [Next]_vars => HaltInv'
  BY HaltInvStep
<1> QED BY <1>1, <1>2, TypeInvHolds, PTL DEF Spec

\* The halt state runs NOPs only, whatever bytes it fetches.
THEOREM HaltRunsNops == Spec => []HaltedRunsNops
<1>1. HaltInv => HaltedRunsNops
  BY DEF HaltInv, HaltedRunsNops
<1> QED BY <1>1, HaltInvHolds, PTL

\* The halt state does not move PC, but for the special reset to 0000.
THEOREM HaltKeepsPC == Spec => HaltHoldsPC
<1>1. ASSUME TypeInv, HaltInv, [Next]_vars, halted, halted', pc' # pc
      PROVE  srst_m1 /\ pc' = 0
  <2>1. CASE FallingEdge \/ Granted \/ WaitState \/ NextTState \/ LatchINTA \/ Restart
    BY <1>1, <2>1 DEF FallingEdge, Granted, WaitState, NextTState, LatchINTA, Restart
  <2>2. CASE LatchM1
    <3>1. t_state = 2
      <4>1. bus_op = "M1" /\ t_state + 1 = 3
        BY <2>2 DEF LatchM1, OpcodeLatch
      <4> QED BY <1>1, <4>1 DEF TypeInv, RingType
    <3>2. suppress_decode
      BY <1>1, <3>1 DEF HaltInv
    <3> QED BY <1>1, <2>2, <3>2 DEF LatchM1, TakeOpcode
  <2>3. CASE NextMCycle \/ NextPrefix
    BY <1>1, <2>3, HaltGoesNowhere DEF NextMCycle, NextPrefix
  <2>4. CASE HaltNOP
    BY <1>1, <2>4, HaltGoesNowhere DEF HaltNOP
  <2>5. CASE AcceptNMI \/ AcceptINT \/ NextInstruction \/ Cut \/ ResetHold
    BY <1>1, <2>5 DEF AcceptNMI, AcceptINT, NextInstruction, Cut, ResetHold, EnterResetIdle
  <2>6. CASE UNCHANGED vars
    BY <1>1, <2>6 DEF vars
  <2> QED BY <1>1, <2>1, <2>2, <2>3, <2>4, <2>5, <2>6 DEF Next
<1> QED BY <1>1, TypeInvHolds, HaltInvHolds, PTL DEF Spec, HaltHoldsPC

-----------------------------------------------------------------------------
\* No INT is taken after EI, after a RETN that enables, or ahead of an NMI.
THEOREM EiShadowHolds == Spec => EiShadow
<1>1. TakesINT => int_sampled /\ iff1 /\ exec # "EI" /\ ~nmi_sampled
  <2>1. CASE exec \in {"EI", "DI", "RETN"}
    BY <2>1, Zenon DEF TakesINT, EiDelay, Iff1After
  <2>2. CASE exec \notin {"EI", "DI", "RETN"}
    BY <2>2, Zenon DEF TakesINT, EiDelay, Iff1After
  <2> QED BY <2>1, <2>2
<1>2. ASSUME [Next]_vars, exec' = "INT", exec # "INT", ~rst_idle'
      PROVE  int_sampled /\ iff1 /\ exec # "EI" /\ ~nmi_sampled
  <2>1. CASE FallingEdge \/ Granted \/ WaitState \/ NextTState \/ Restart
    BY <1>2, <2>1 DEF FallingEdge, Granted, WaitState, NextTState, Restart, ring
  <2>2. CASE LatchM1 \/ LatchINTA
    BY <1>2, <2>2, DecodeType DEF LatchM1, TakeOpcode, LatchINTA
  <2>3. CASE NextMCycle \/ NextPrefix
    BY <1>2, <2>3 DEF NextMCycle, NextPrefix, GoesOn, GoesOnPrefix
  <2>4. CASE AcceptINT
    BY <1>1, <2>4 DEF AcceptINT, StartINT
  <2>5. CASE AcceptNMI \/ HaltNOP \/ NextInstruction
    BY <1>2, <2>5 DEF AcceptNMI, StartNMI, HaltNOP, StartHalt, NextInstruction, StartNext
  <2>6. CASE Cut \/ ResetHold
    BY <1>2, <2>6 DEF Cut, ResetHold, EnterResetIdle
  <2>7. CASE UNCHANGED vars
    BY <1>2, <2>7 DEF vars, ring
  <2> QED BY <1>2, <2>1, <2>2, <2>3, <2>4, <2>5, <2>6, <2>7 DEF Next
<1> QED BY <1>2, PTL DEF Spec, EiShadow

-----------------------------------------------------------------------------
(***************************************************************************)
(* The writes left to the next opcode fetch. They are gone before a wait   *)
(* state and before anything decodes or changes IFF2 again: WAIT is looked *)
(* at in T2, in which they land, and the next decode is at T3.             *)
(***************************************************************************)
PendingInv ==
  /\ stalled => WaitSample(bus_op, t_state, 1)
  /\ wbp # {} =>
       /\ bus_op \in {"M1", "INTA"} /\ t_state <= 2 /\ m_cycle = 1 /\ ~in_tw
       /\ \E m \in 1 .. 5 : wbp \ {"DEC"} \subseteq Deferred(PendingOwner, m)
       /\ (PendingOwner = "LD_A_IR" => wb_pv = iff2)

LEMMA DeferredInFive ==
  ASSUME NEW ex, NEW m \in 1 .. 6
  PROVE  \E k \in 1 .. 5 : Deferred(ex, m) \subseteq Deferred(ex, k)
<1>1. CASE m \in 1 .. 5
  BY <1>1
<1>2. CASE m = 6
  <2>1. Deferred(ex, 6) = Deferred(ex, 4)
    BY DEF Deferred
  <2> QED BY <1>2, <2>1
<1> QED BY <1>1, <1>2

\* Where an M-cycle ends nothing is pending.
LEMMA NothingAtEnd == ASSUME TypeInv, PendingInv, EndsMCycle PROVE wbp = {}
  BY DEF TypeInv, RingType, PendingInv, EndsMCycle

LEMMA StalledStep == ASSUME PendingInv, [Next]_vars
                     PROVE  stalled' => WaitSample(bus_op', t_state', 1)
<1>1. CASE FallingEdge
  BY <1>1 DEF FallingEdge, ring
<1>2. Next => FallingEdge \/ stalled' = FALSE
  BY DEF Next, Granted, WaitState, NextTState, LatchM1, LatchINTA, NextMCycle, NextPrefix,
         AcceptNMI, AcceptINT, HaltNOP, NextInstruction, EndInstruction, Cut, ResetHold,
         Restart, Ticks, Running, RisingEdge
<1>3. CASE UNCHANGED vars
  BY <1>3 DEF vars, waits, ring, PendingInv
<1> QED BY <1>1, <1>2, <1>3

\* What LandWrites leaves belongs to the same instruction.
LEMMA LandedWrites ==
  ASSUME PendingInv, LandWrites, UNCHANGED <<exec, iff2>>, wbp' # {}
  PROVE  /\ wbp # {} /\ wbp' \subseteq wbp
         /\ \E m \in 1 .. 5 : wbp' \ {"DEC"} \subseteq Deferred(PendingOwner', m)
         /\ (PendingOwner' = "LD_A_IR" => wb_pv' = iff2')
<1>1. wbp # {} /\ wbp' \subseteq wbp /\ UNCHANGED <<wb_exec, wb_pv>>
      /\ ("DEC" \in wbp' <=> "DEC" \in wbp)
  BY DEF LandWrites, pending
<1>2. PendingOwner' = PendingOwner
  BY <1>1 DEF PendingOwner
<1>3. PICK m \in 1 .. 5 : wbp \ {"DEC"} \subseteq Deferred(PendingOwner, m)
  BY <1>1 DEF PendingInv
<1>4. wbp' \ {"DEC"} \subseteq Deferred(PendingOwner', m)
  BY <1>1, <1>2, <1>3
<1> QED BY <1>1, <1>2, <1>4 DEF PendingInv

\* A boundary leaves the writes of the instruction that ended, its decode
\* kept aside if another takes its place.
LEMMA DeferredWrites ==
  ASSUME TypeInv, PendingInv, NEW replaced \in BOOLEAN, EndInstruction(replaced), EndsMCycle,
         ~replaced => exec' = exec, exec = "LD_A_IR" => PVOfLdAIr = iff2', wbp' # {}
  PROVE  /\ \E m \in 1 .. 5 : wbp' \ {"DEC"} \subseteq Deferred(PendingOwner', m)
         /\ (PendingOwner' = "LD_A_IR" => wb_pv' = iff2')
<1>1. wbp = {} /\ Left = Deferred(exec, m_cycle) /\ "DEC" \notin Left
  <2>1. wbp = {}
    BY NothingAtEnd
  <2>2. Left = Deferred(exec, m_cycle)
    BY <2>1, Zenon DEF Left
  <2>3. "DEC" \notin Left
    BY <2>2, DeferredType
  <2> QED BY <2>1, <2>2, <2>3
<1>2. wbp' \ {"DEC"} = Left /\ PendingOwner' = exec
  BY <1>1 DEF EndInstruction, KeepsDecode, PendingOwner
<1>3. PICK m \in 1 .. 5 : Left \subseteq Deferred(exec, m)
  BY <1>1, DeferredInFive DEF TypeInv, RingType
<1>4. exec = "LD_A_IR" => wb_pv' = iff2'
  BY DEF EndInstruction
<1> QED BY <1>2, <1>3, <1>4

LEMMA PVAgrees ==
  ASSUME TypeInv, exec = "LD_A_IR", AcceptNMI \/ AcceptINT \/ HaltNOP \/ NextInstruction
  PROVE  PVOfLdAIr = iff2'
<1>1. iff1 \in BOOLEAN /\ iff2 \in BOOLEAN /\ nmi_sampled \in BOOLEAN /\ int_sampled \in BOOLEAN
  BY DEF TypeInv, EnablesType, NmiType
<1>2. Iff1After = iff1 /\ Iff2After = iff2 /\ ~EiDelay
  BY Zenon DEF Iff1After, Iff2After, EiDelay
<1>3. CASE AcceptNMI
  BY <1>1, <1>2, <1>3 DEF AcceptNMI, StartNMI, TakesNMI, PVOfLdAIr
<1>4. CASE AcceptINT
  BY <1>1, <1>2, <1>4 DEF AcceptINT, StartINT, TakesINT, PVOfLdAIr
<1>5. CASE HaltNOP \/ NextInstruction
  BY <1>1, <1>2, <1>5 DEF HaltNOP, StartHalt, NextInstruction, StartNext, TakesNMI, TakesINT,
                          PVOfLdAIr
<1> QED BY <1>3, <1>4, <1>5

LEMMA PendingInvStep == ASSUME TypeInv, PendingInv, [Next]_vars PROVE PendingInv'
<1> SUFFICES ASSUME wbp' # {}
             PROVE  /\ bus_op' \in {"M1", "INTA"} /\ t_state' <= 2 /\ m_cycle' = 1 /\ ~in_tw'
                    /\ \E m \in 1 .. 5 : wbp' \ {"DEC"} \subseteq Deferred(PendingOwner', m)
                    /\ (PendingOwner' = "LD_A_IR" => wb_pv' = iff2')
  BY StalledStep DEF PendingInv
<1>1. CASE FallingEdge \/ Granted
  <2>1. UNCHANGED <<ring, enables, pending>> /\ in_tw' \in {in_tw, FALSE}
    BY <1>1 DEF FallingEdge, Granted
  <2>2. /\ bus_op' = bus_op /\ t_state' = t_state /\ m_cycle' = m_cycle /\ iff2' = iff2
        /\ wbp' = wbp /\ wb_pv' = wb_pv /\ PendingOwner' = PendingOwner
    BY <2>1 DEF PendingOwner, ring, enables, pending
  <2>3. in_tw' => in_tw
    BY <2>1, Zenon
  <2>4. PICK m \in 1 .. 5 : wbp \ {"DEC"} \subseteq Deferred(PendingOwner, m)
    BY <2>2 DEF PendingInv
  <2>5. wbp' \ {"DEC"} \subseteq Deferred(PendingOwner', m)
    BY <2>2, <2>4
  <2> QED BY <2>2, <2>3, <2>5 DEF PendingInv
<1>2. CASE WaitState
  <2>1. wbp # {} /\ stalled
    BY <1>2 DEF WaitState, LandWrites, pending
  <2>2. t_state = 2 /\ bus_op \in {"M1", "INTA"} /\ ~in_tw
    BY <2>1 DEF PendingInv, WaitSample
  <2>3. wbp' = {}
    BY <1>2, <2>1, <2>2 DEF WaitState, LandWrites
  <2> QED BY <2>3
<1>3. CASE NextTState \/ LatchM1 \/ LatchINTA
  <2>1. LandWrites /\ NextT /\ iff2' = iff2 /\ in_tw' = FALSE
    BY <1>3 DEF NextTState, LatchM1, LatchINTA, Ticks, enables
  <2>2. wbp # {}
    BY <2>1 DEF LandWrites, pending
  <2>3. /\ bus_op \in {"M1", "INTA"} /\ t_state \in {1, 2} /\ ~in_tw /\ m_cycle = 1
    BY <2>2 DEF PendingInv, TypeInv, RingType
  <2>4. t_state = 1
    BY <2>1, <2>2, <2>3 DEF LandWrites
  <2>5. exec' = exec
    BY <1>3, <2>4 DEF NextTState, LatchM1, LatchINTA, OpcodeLatch
  <2> QED BY <2>1, <2>3, <2>4, <2>5, LandedWrites DEF NextT
<1>4. CASE NextMCycle \/ NextPrefix
  BY <1>4, NothingAtEnd DEF NextMCycle, NextPrefix, GoesOn, GoesOnPrefix, pending
<1>5. CASE AcceptNMI \/ AcceptINT \/ HaltNOP \/ NextInstruction
  <2>1. \E r \in BOOLEAN : EndInstruction(r) /\ (~r => exec' = exec)
    BY <1>5 DEF AcceptNMI, AcceptINT, HaltNOP, NextInstruction, StartNext
  <2>2. EndsMCycle /\ bus_op' \in {"M1", "INTA"} /\ t_state' = 1 /\ m_cycle' = 1
    BY <1>5 DEF AcceptNMI, AcceptINT, HaltNOP, NextInstruction, StartNMI, StartINT, StartHalt,
                StartNext, StartFetch, Finishes
  <2>3. in_tw' = FALSE
    BY <2>1 DEF EndInstruction, Ticks
  <2> QED BY <1>5, <2>1, <2>2, <2>3, DeferredWrites, PVAgrees
<1>6. CASE Cut \/ ResetHold
  BY <1>6 DEF Cut, ResetHold, EnterResetIdle
<1>7. CASE Restart
  <2>1. /\ UNCHANGED <<exec, enables, pending, in_tw>>
        /\ bus_op' = "M1" /\ t_state' = 1 /\ m_cycle' = 1
    BY <1>7 DEF Restart, StartFetch
  <2> QED BY <2>1 DEF PendingInv, PendingOwner, enables, pending
<1>8. CASE UNCHANGED vars
  BY <1>8 DEF vars, ring, enables, pending, waits, PendingInv, PendingOwner
<1> QED BY <1>1, <1>2, <1>3, <1>4, <1>5, <1>6, <1>7, <1>8 DEF Next

LEMMA PendingInvHolds == Spec => []PendingInv
<1>1. Init => PendingInv
  BY DEF Init, PendingInv
<1>2. TypeInv /\ PendingInv /\ [Next]_vars => PendingInv'
  BY PendingInvStep
<1> QED BY <1>1, <1>2, TypeInvHolds, PTL DEF Spec

\* The writes an instruction leaves wait only where they land, with the
\* decode of the instruction they belong to.
THEOREM PendingSafe == Spec => []PendingHasItsDecode
<1>1. PendingInv => PendingHasItsDecode
  BY DEF PendingInv, PendingHasItsDecode
<1> QED BY <1>1, PendingInvHolds, PTL

\* LD A,I and LD A,R see IFF2 as the boundary leaves it, an INT it accepts
\* included.
THEOREM LdAIrSafe == Spec => []LdAIrSeesIff2
<1>1. PendingInv => LdAIrSeesIff2
  BY DEF PendingInv, LdAIrSeesIff2
<1> QED BY <1>1, PendingInvHolds, PTL

-----------------------------------------------------------------------------
(***************************************************************************)
(* The responses. PC is the return address throughout because the M1 of    *)
(* an NMI's response discards its opcode and the special reset never goes  *)
(* with it, because an INT's pushes and vector reads step no PC, and       *)
(* because neither response is answered by another: IFF1 is clear, the NMI *)
(* flip-flop held.                                                         *)
(***************************************************************************)
ResponseInv ==
  /\ nmi_resp =>
       /\ exec = "NMI" /\ ~disp /\ bus_op # "INTA" /\ ~rst_idle
       /\ ((bus_op = "M1" /\ t_state <= 2) => suppress_decode)
  /\ srst_m1 => bus_op = "M1" /\ t_state <= 2 /\ ~nmi_resp /\ ~rst_idle
  /\ suppress_decode => bus_op = "M1" /\ t_state <= 2 /\ exec \in {"NMI", "NOP"}
  /\ (exec = "INT" /\ bus_op = "M1" /\ ~rst_idle) => t_state <= 2
  /\ RespondsToINT => ~iff1 /\ ~disp

\* The templates of the responses take nothing from PC.
LEMMA ResponseCycles ==
  ASSUME NEW ex \in {"NMI", "INT"}, NEW m \in 1 .. Len(Cycles(ex, FALSE))
  PROVE  Cycles(ex, FALSE)[m].src = "REG" /\ Cycles(ex, FALSE)[m].bus \notin {"M1", "INTA"}
<1>1. \A i \in 1 .. 11 : ex \in DOMAIN Groups[i] => i = 11
  <2>1. /\ ex \notin DOMAIN SingleCycle /\ ex \notin DOMAIN IndexedBit
        /\ ex \notin DOMAIN Extended /\ ex \notin DOMAIN Byte /\ ex \notin DOMAIN Word
        /\ ex \notin DOMAIN Relative /\ ex \notin DOMAIN Stack
        /\ ex \notin DOMAIN InputOutput /\ ex \notin DOMAIN Extras /\ ex \notin DOMAIN Block
    BY DEF SingleCycle, IndexedBit, Extended, Byte, Word, Relative, Stack, InputOutput, Extras,
           Block
  <2> QED BY <2>1 DEF Groups
<1>2. ex \in DOMAIN Response /\ Groups[11] = Response /\ ex \in Classes /\ ex \notin Prefixes
  BY NamedClasses DEF Response, Groups, Prefixes
<1>3. Cycles(ex, FALSE) = Response[ex]
  BY <1>1, <1>2 DEF Template, Cycles
<1>4. Read.src = "REG" /\ Write.src = "REG" /\ Read.bus = "MRD" /\ Write.bus = "MWR"
  BY DEF Read, Write
<1>5. CASE ex = "NMI"
  <2>1. Cycles(ex, FALSE) = <<Write, Write>>
    BY <1>3, <1>5 DEF Response
  <2>2. Len(<<Write, Write>>) = 2
    OBVIOUS
  <2>3. m \in 1 .. 2
    BY <2>1, <2>2
  <2>4. \A i \in 1 .. 2 : <<Write, Write>>[i] = Write
    OBVIOUS
  <2> QED BY <1>4, <2>1, <2>3, <2>4
<1>6. CASE ex = "INT"
  <2>1. Cycles(ex, FALSE) = <<Write, Write, Read, Read>>
    BY <1>3, <1>6 DEF Response
  <2>2. Len(<<Write, Write, Read, Read>>) = 4
    OBVIOUS
  <2>3. m \in 1 .. 4
    BY <2>1, <2>2
  <2>4. \A i \in 1 .. 4 : <<Write, Write, Read, Read>>[i] \in {Write, Read}
    OBVIOUS
  <2> QED BY <1>4, <2>1, <2>3, <2>4
<1> QED BY <1>5, <1>6

LEMMA ResponseGoesOn ==
  ASSUME TypeInv, GoesOn, exec \in {"NMI", "INT"}, ~disp
  PROVE  PCGoingOn = {pc} /\ bus_op' \notin {"M1", "INTA"} /\ UNCHANGED <<exec, disp>>
<1>1. m_cycle \in 1 .. Len(Cycles(exec, FALSE)) /\ disp = FALSE
  <2>1. disp = FALSE
    BY Zenon DEF TypeInv, ExecType
  <2>2. m_cycle \in 1 .. 6 /\ m_cycle <= Len(Cycles(exec, disp))
    BY DEF GoesOn, MayGoOn, TypeInv, RingType
  <2>3. Len(Cycles(exec, disp)) \in Nat
    BY CyclesShort DEF TypeInv, ExecType, Short
  <2>4. Cycles(exec, disp) = Cycles(exec, FALSE)
    BY <2>1, Zenon
  <2>5. m_cycle \in 1 .. Len(Cycles(exec, disp))
    BY <2>2, <2>3
  <2> QED BY <2>1, <2>4, <2>5
<1>2. /\ Cycles(exec, disp)[m_cycle].src = "REG"
      /\ Cycles(exec, disp)[m_cycle].bus \notin {"M1", "INTA"}
  BY <1>1, ResponseCycles
<1>3. <<exec, m_cycle>> \notin LoadsGoingOn /\ <<exec, m_cycle>> \notin Repeats
  BY DEF LoadsGoingOn, Repeats
<1>4. PCGoingOn = {pc}
  BY <1>2, <1>3, Zenon DEF PCGoingOn
<1>5. bus_op' \notin {"M1", "INTA"} /\ UNCHANGED <<exec, disp>>
  BY <1>2 DEF GoesOn, StartMCycle
<1> QED BY <1>4, <1>5

LEMMA ResponseInvStep == ASSUME TypeInv, NmiInv, ResponseInv, [Next]_vars PROVE ResponseInv'
<1>1. CASE FallingEdge \/ Granted \/ WaitState
  <2>1. UNCHANGED <<ring, enables, fetch, nmi_resp>>
        /\ (rst_idle' = rst_idle \/ (rst_idle' = FALSE /\ ~rst_idle))
    BY <1>1 DEF FallingEdge, Granted, WaitState, Running, reset
  <2> QED BY <2>1 DEF ResponseInv, RespondsToINT, ring, enables, fetch
<1>2. CASE NextTState
  <2>1. /\ NextT /\ UNCHANGED <<exec, disp, enables, fetch, nmi_resp>>
        /\ ~rst_idle /\ rst_idle' = FALSE
    BY <1>2 DEF NextTState, Ticks, Running
  <2>2. t_state \in Int /\ (bus_op = "M1" => t_state # 2)
    BY <1>2 DEF NextTState, OpcodeLatch, TypeInv, RingType
  <2> QED BY <2>1, <2>2 DEF ResponseInv, RespondsToINT, NextT, enables, fetch
<1>3. CASE LatchM1
  <2>1. /\ bus_op = "M1" /\ bus_op' = "M1" /\ t_state = 2 /\ t_state' = 3
        /\ ~rst_idle /\ nmi_resp' = nmi_resp /\ rst_idle' = FALSE
        /\ ~srst_m1' /\ ~suppress_decode' /\ TakeOpcode
    <3>1. bus_op = "M1" /\ t_state + 1 = 3
      BY <1>3 DEF LatchM1, OpcodeLatch
    <3> QED BY <1>3, <3>1 DEF LatchM1, NextT, Ticks, Running, TypeInv, RingType
  <2>2. exec' # "INT"
    <3>1. CASE suppress_decode
      BY <2>1, <3>1 DEF TakeOpcode, ResponseInv
    <3>2. CASE ~suppress_decode
      BY <2>1, <3>2, DecodeType DEF TakeOpcode
    <3> QED BY <3>1, <3>2
  <2>3. nmi_resp => UNCHANGED <<exec, disp>>
    BY <2>1 DEF ResponseInv, TakeOpcode
  <2> QED BY <2>1, <2>2, <2>3 DEF ResponseInv, RespondsToINT
<1>4. CASE LatchINTA
  <2>1. /\ bus_op = "INTA" /\ bus_op' = "INTA" /\ UNCHANGED <<enables, nmi_resp>>
        /\ ~rst_idle /\ rst_idle' = FALSE /\ UNCHANGED <<suppress_decode, srst_m1>>
        /\ (UNCHANGED <<exec, disp>> \/ Decode)
    BY <1>4 DEF LatchINTA, NextT, Ticks, Running
  <2> QED BY <2>1, DecodeType DEF ResponseInv, RespondsToINT, enables
<1>5. CASE NextMCycle
  <2>1. /\ GoesOn /\ UNCHANGED <<exec, disp, enables, fetch, nmi_resp>> /\ ~rst_idle
        /\ rst_idle' = FALSE
    BY <1>5 DEF NextMCycle, GoesOn, Ticks, Running
  <2>2. bus_op = "M1" => t_state >= 4
    BY <2>1 DEF GoesOn, EndsMCycle, TypeInv, RingType
  <2>3. ~srst_m1 /\ ~suppress_decode /\ (exec = "INT" => bus_op # "M1")
    BY <2>1, <2>2 DEF ResponseInv, TypeInv, RingType
  <2>4. (exec = "NMI" /\ ~disp) \/ (exec = "INT" /\ ~disp) => bus_op' \notin {"M1", "INTA"}
    BY <2>1, ResponseGoesOn
  <2> QED BY <2>1, <2>3, <2>4 DEF ResponseInv, RespondsToINT, enables, fetch
<1>6. CASE NextPrefix
  <2>1. /\ GoesOnPrefix /\ UNCHANGED <<fetch, nmi_resp>> /\ ~rst_idle
    BY <1>6 DEF NextPrefix, Ticks, Running
  <2>2. exec \in Prefixes /\ (bus_op = "M1" => t_state >= 4) /\ t_state \in Int
    BY <2>1 DEF GoesOnPrefix, EndsMCycle, TypeInv, RingType
  <2>3. exec' \notin {"INT", "NMI"} /\ ~nmi_resp /\ ~srst_m1 /\ ~suppress_decode
    BY <2>1, <2>2 DEF GoesOnPrefix, ResponseInv, Prefixes
  <2> QED BY <2>1, <2>3 DEF ResponseInv, RespondsToINT, fetch
<1>7. ASSUME AcceptNMI \/ AcceptINT \/ HaltNOP \/ NextInstruction
      PROVE  ~srst_m1 /\ ~suppress_decode /\ EndsMCycle /\ rst_idle' = FALSE
  <2>1. EndsMCycle /\ ~rst_idle /\ rst_idle' = FALSE
    BY <1>7 DEF AcceptNMI, AcceptINT, HaltNOP, NextInstruction, StartNMI, StartINT, StartHalt,
                StartNext, Finishes, EndInstruction, Ticks, Running
  <2>2. bus_op = "M1" => t_state >= 4
    BY <2>1 DEF EndsMCycle, TypeInv, RingType
  <2> QED BY <2>1, <2>2 DEF ResponseInv, TypeInv, RingType
<1>8. CASE AcceptNMI
  <2>1. /\ bus_op' = "M1" /\ t_state' = 1 /\ exec' = "NMI" /\ disp' = FALSE
        /\ suppress_decode' = TRUE /\ srst_m1' = srst_m1
    BY <1>8 DEF AcceptNMI, StartNMI, StartFetch
  <2>2. ~srst_m1 /\ rst_idle' = FALSE
    BY <1>7, <1>8
  <2> QED BY <2>1, <2>2 DEF ResponseInv, RespondsToINT
<1>9. CASE AcceptINT
  BY <1>7, <1>9 DEF AcceptINT, StartINT, StartFetch, ResponseInv, RespondsToINT
<1>10. CASE HaltNOP \/ NextInstruction
  <2>1. bus_op' = "M1" /\ t_state' = 1 /\ nmi_resp' = FALSE
    BY <1>10 DEF HaltNOP, NextInstruction, StartHalt, StartNext, StartFetch
  <2>2. suppress_decode' => exec' = "NOP"
    <3>1. CASE HaltNOP
      BY <3>1 DEF HaltNOP, StartHalt
    <3>2. CASE NextInstruction
      BY <1>7, <3>2 DEF NextInstruction
    <3> QED BY <1>10, <3>1, <3>2
  <2>3. rst_idle' = FALSE
    BY <1>7, <1>10
  <2> QED BY <2>1, <2>2, <2>3 DEF ResponseInv, RespondsToINT
<1>11. CASE Cut \/ ResetHold
  <2>1. /\ ~nmi_resp' /\ ~srst_m1' /\ ~suppress_decode' /\ ~iff1' /\ rst_idle'
    BY <1>11 DEF Cut, ResetHold, EnterResetIdle
  <2>2. RespondsToINT' => ~disp'
    <3>1. CASE ResetHold \/ UNCHANGED ring
      BY <3>1 DEF ResetHold, ring, RespondsToINT, ResponseInv
    <3>2. CASE NextT /\ UNCHANGED <<exec, disp>>
      BY <3>2 DEF NextT, RespondsToINT, ResponseInv
    <3>3. CASE GoesOn /\ Cut
      <4>1. bus_op = "M1" => t_state >= 4
        BY <3>3 DEF GoesOn, EndsMCycle, TypeInv, RingType
      <4>2. exec = "INT" => bus_op # "M1"
        BY <3>3, <4>1 DEF ResponseInv, Cut, TypeInv, RingType
      <4> QED BY <3>3, <4>2 DEF GoesOn, RespondsToINT, ResponseInv
    <3>4. CASE GoesOnPrefix
      BY <3>4 DEF GoesOnPrefix, RespondsToINT, Prefixes
    <3>5. CASE \E a \in PCAfter, mode \in ImAfter : Boundary(a, mode)
      BY <3>5 DEF Boundary, StartNMI, StartINT, StartHalt, StartNext, StartFetch,
                  RespondsToINT
    <3> QED BY <1>11, <3>1, <3>2, <3>3, <3>4, <3>5 DEF Cut
  <2> QED BY <2>1, <2>2 DEF ResponseInv
<1>12. CASE Restart
  BY <1>12 DEF Restart, StartFetch, enables, fetch, ResponseInv, RespondsToINT
<1>13. CASE UNCHANGED vars
  BY <1>13 DEF vars, ring, enables, fetch, nmi, reset, ResponseInv, RespondsToINT
<1> QED BY <1>1, <1>2, <1>3, <1>4, <1>5, <1>6, <1>8, <1>9, <1>10, <1>11, <1>12, <1>13 DEF Next

LEMMA ResponseInvHolds == Spec => []ResponseInv
<1>1. Init => ResponseInv
  BY DEF Init, ResponseInv, RespondsToINT
<1>2. TypeInv /\ NmiInv /\ ResponseInv /\ [Next]_vars => ResponseInv'
  BY ResponseInvStep
<1> QED BY <1>1, <1>2, TypeInvHolds, NmiInvHolds, PTL DEF Spec

\* From the boundary that accepts an NMI or an INT to the step that loads the
\* vector PC is the address the response pushes.
THEOREM ReturnAddressSafe == Spec => ReturnAddressKept
<1>1. ASSUME TypeInv, NmiInv, ResponseInv, [Next]_vars,
             (nmi_resp /\ nmi_resp') \/ (RespondsToINT /\ RespondsToINT')
      PROVE  pc' = pc \/ rst_idle'
  <2>1. CASE FallingEdge \/ Granted \/ WaitState \/ NextTState \/ LatchINTA \/ Restart
    BY <2>1 DEF FallingEdge, Granted, WaitState, NextTState, LatchINTA, Restart
  <2>2. CASE LatchM1
    <3>1. bus_op = "M1" /\ t_state = 2 /\ TakeOpcode
      <4>1. bus_op = "M1" /\ t_state + 1 = 3
        BY <2>2 DEF LatchM1, OpcodeLatch
      <4> QED BY <1>1, <2>2, <4>1 DEF LatchM1, TypeInv, RingType
    <3>2. nmi_resp
      BY <1>1, <3>1 DEF RespondsToINT
    <3>3. suppress_decode /\ ~srst_m1
      BY <1>1, <3>1, <3>2 DEF ResponseInv
    <3> QED BY <3>1, <3>3 DEF TakeOpcode
  <2>3. CASE NextMCycle
    <3>1. exec \in {"NMI", "INT"} /\ ~disp
      BY <1>1 DEF ResponseInv, RespondsToINT
    <3>2. GoesOn /\ pc' \in PCGoingOn
      BY <2>3 DEF NextMCycle
    <3> QED BY <1>1, <3>1, <3>2, ResponseGoesOn
  <2>4. CASE NextPrefix
    BY <1>1, <2>4 DEF NextPrefix, GoesOnPrefix, Prefixes, ResponseInv, RespondsToINT
  <2>5. CASE AcceptNMI
    <3>1. nmi_sampled /\ exec' = "NMI"
      BY <2>5 DEF AcceptNMI, StartNMI, TakesNMI
    <3>2. ~nmi_resp
      BY <1>1, <3>1 DEF NmiInv
    <3> QED BY <1>1, <3>1, <3>2 DEF RespondsToINT
  <2>6. CASE AcceptINT
    <3>1. TakesINT /\ nmi_resp' = FALSE
      BY <2>6 DEF AcceptINT, StartINT
    <3>2. exec = "INT" /\ ~iff1
      BY <1>1, <3>1 DEF ResponseInv, RespondsToINT
    <3> QED BY <3>1, <3>2, Zenon DEF TakesINT, Iff1After
  <2>7. CASE HaltNOP \/ NextInstruction
    <3>1. nmi_resp' = FALSE /\ bus_op' = "M1"
      BY <2>7 DEF HaltNOP, NextInstruction, StartHalt, StartNext, StartFetch
    <3> QED BY <1>1, <3>1 DEF RespondsToINT
  <2>8. CASE Cut \/ ResetHold
    BY <2>8 DEF Cut, ResetHold, EnterResetIdle
  <2>9. CASE UNCHANGED vars
    BY <2>9 DEF vars
  <2> QED BY <1>1, <2>1, <2>2, <2>3, <2>4, <2>5, <2>6, <2>7, <2>8, <2>9 DEF Next
<1> QED BY <1>1, TypeInvHolds, NmiInvHolds, ResponseInvHolds, PTL DEF Spec, ReturnAddressKept
=============================================================================
