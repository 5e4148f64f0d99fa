------------------------- MODULE Z80Contract_proofs -------------------------
(***************************************************************************)
(* Proofs that the phase engine implements its promises: the initial state *)
(* maps to an initial one, and each half T-state to a step or a stutter.   *)
(***************************************************************************)
EXTENDS Z80Response_proofs, Z80Contract

(***************************************************************************)
(* The arbiter. The bus changes hands at the end of an M-cycle (Arbitrate),*)
(* in a grant (Granted) and in a cut, and nothing else steps in a grant.   *)
(***************************************************************************)
LEMMA GrantIsAsked ==
  ASSUME [Next]_vars, ~bus_granted, bus_granted', ~rst_idle'
  PROVE  busreq_s
<1>1. CASE FallingEdge \/ Granted
  BY <1>1 DEF FallingEdge, Granted, grant
<1>2. CASE WaitState \/ NextTState \/ LatchM1 \/ LatchINTA \/ Restart
  BY <1>2 DEF WaitState, NextTState, LatchM1, LatchINTA, Restart
<1>3. CASE NextMCycle \/ NextPrefix \/ AcceptNMI \/ AcceptINT \/ HaltNOP \/ NextInstruction
  <2>1. Arbitrate
    BY <1>3 DEF NextMCycle, NextPrefix, AcceptNMI, AcceptINT, HaltNOP, NextInstruction,
                EndInstruction
  <2> QED BY <2>1 DEF Arbitrate
<1>4. CASE Cut \/ ResetHold
  BY <1>4 DEF Cut, ResetHold, EnterResetIdle
<1>5. CASE UNCHANGED vars
  BY <1>5 DEF vars, grant
<1> QED BY <1>1, <1>2, <1>3, <1>4, <1>5 DEF Next

LEMMA GrantedSteps ==
  ASSUME [Next]_vars, bus_granted, ~rst_idle, ~rst_idle'
  PROVE  FallingEdge \/ Granted \/ UNCHANGED vars
<1>1. ~(WaitState \/ NextTState \/ LatchM1 \/ LatchINTA \/ NextMCycle \/ NextPrefix)
  BY DEF WaitState, NextTState, LatchM1, LatchINTA, NextMCycle, NextPrefix, Ticks
<1>2. ~(AcceptNMI \/ AcceptINT \/ HaltNOP \/ NextInstruction)
  BY DEF AcceptNMI, AcceptINT, HaltNOP, NextInstruction, EndInstruction, Ticks
<1>3. ~(Cut \/ ResetHold \/ Restart)
  BY DEF Cut, ResetHold, Restart, EnterResetIdle
<1> QED BY <1>1, <1>2, <1>3 DEF Next

LEMMA ArbiterStep ==
  ASSUME GrantBetweenMCycles, GrantBetweenMCycles', [Next]_vars
  PROVE  [Arbiter!Next]_(Arbiter!vars)
<1>1. CASE ~bus_granted /\ ~bus_granted'
  BY <1>1 DEF Arbiter!Next, Arbiter!CpuRuns
<1>2. CASE ~bus_granted /\ bus_granted'
  <2>1. t_state' = 1 /\ ~in_tw' /\ ~rst_idle' /\ ~Extension'
    BY <1>2 DEF GrantBetweenMCycles
  <2>2. busreq_s
    BY <1>2, <2>1, GrantIsAsked
  <2> QED BY <1>2, <2>1, <2>2 DEF Arbiter!Next, Arbiter!Grants
<1>3. CASE bus_granted /\ rst_idle'
  BY <1>3 DEF GrantBetweenMCycles, Arbiter!Next, Arbiter!Resets
<1>4. CASE bus_granted /\ ~rst_idle'
  <2>1. /\ UNCHANGED <<ring, Work>> /\ ~in_tw /\ ~in_tw'
        /\ UNCHANGED <<grant, rst_idle>> \/ bus_granted' = busreq_s
    <3>1. ~rst_idle /\ ~in_tw
      BY <1>4 DEF GrantBetweenMCycles
    <3>2. CASE FallingEdge
      BY <3>1, <3>2 DEF FallingEdge, Work, reset
    <3>3. CASE Granted
      BY <3>1, <3>3 DEF Granted, Work
    <3>4. CASE UNCHANGED vars
      BY <3>1, <3>4 DEF vars, Work, waits, reset
    <3> QED BY <1>4, <3>1, <3>2, <3>3, <3>4, GrantedSteps
  <2>2. (t_state = 1 /\ ~in_tw /\ ~Extension)' = (t_state = 1 /\ ~in_tw /\ ~Extension)
    BY <2>1 DEF ring, Extension
  <2>3. CASE UNCHANGED <<grant, rst_idle>>
    BY <2>1, <2>2, <2>3 DEF Arbiter!vars, grant
  <2>4. CASE bus_granted' = busreq_s
    BY <1>4, <2>1, <2>2, <2>4 DEF Arbiter!Next, Arbiter!Waits
  <2> QED BY <2>1, <2>3, <2>4
<1> QED BY <1>1, <1>2, <1>3, <1>4

\* One owner of the bus, changed on the master's request and between M-cycles,
\* and an instruction that a grant leaves as it was: every half T-state of
\* z80_phase_step() and advance() is a step of Z80Arbiter or a stutter.
THEOREM BusPromiseKept == Spec => KeepsBusPromise
<1>1. Init => Arbiter!Init
  BY DEF Init, Arbiter!Init
<1>2. GrantBetweenMCycles /\ GrantBetweenMCycles' /\ [Next]_vars
        => [Arbiter!Next]_(Arbiter!vars)
  BY ArbiterStep
<1> QED BY <1>1, <1>2, GrantSafe, PTL DEF Spec, KeepsBusPromise, Arbiter!Spec

-----------------------------------------------------------------------------
(***************************************************************************)
(* The interrupts. A response is never answered by an INT because its      *)
(* acceptance clears IFF1 and nothing sets it before its end.              *)
(***************************************************************************)
NoIntInResponse == nmi_resp => ~iff1

LEMMA NoIntInResponseStep ==
  ASSUME ResponseInv, NoIntInResponse, [Next]_vars PROVE NoIntInResponse'
<1>1. CASE FallingEdge \/ Granted \/ WaitState \/ NextTState \/ LatchM1 \/ LatchINTA
           \/ NextMCycle \/ NextPrefix \/ Restart
  BY <1>1 DEF FallingEdge, Granted, WaitState, NextTState, LatchM1, LatchINTA, NextMCycle,
              NextPrefix, Restart, enables, NoIntInResponse
<1>2. CASE AcceptNMI \/ AcceptINT \/ HaltNOP \/ NextInstruction
  BY <1>2 DEF AcceptNMI, AcceptINT, HaltNOP, NextInstruction, NoIntInResponse
<1>3. CASE Cut \/ ResetHold
  BY <1>3 DEF Cut, ResetHold, EnterResetIdle, NoIntInResponse
<1>4. CASE UNCHANGED vars
  BY <1>4 DEF vars, enables, nmi, NoIntInResponse
<1> QED BY <1>1, <1>2, <1>3, <1>4 DEF Next

PromiseInv == TypeInv /\ NmiInv /\ HaltInv /\ ResponseInv /\ NoIntInResponse

LEMMA PromiseInvHolds == Spec => []PromiseInv
<1>1. Init => NoIntInResponse
  BY DEF Init, NoIntInResponse
<1>2. ResponseInv /\ NoIntInResponse /\ [Next]_vars => NoIntInResponse'
  BY NoIntInResponseStep
<1> QED BY <1>1, <1>2, TypeInvHolds, NmiInvHolds, HaltInvHolds, ResponseInvHolds, PTL
        DEF Spec, PromiseInv

\* What a response's end and its absence mean for Doing.
LEMMA DoingIs ==
  /\ rst_idle => Doing = "reset"
  /\ ~rst_idle /\ nmi_resp => Doing = "NMI"
  /\ ~rst_idle /\ ~nmi_resp /\ RespondsToINT => Doing = "INT"
  /\ ~rst_idle /\ ~nmi_resp /\ ~RespondsToINT => Doing = "program"
  BY DEF Doing

\* The flip-flop outside a response's two ends.
LEMMA NmiSees ==
  ASSUME TypeInv, NmiPin(FALSE), ~nmi_resp, ~nmi_resp'
  PROVE  Interrupts!Sees
<1>1. nmi_pending' \in BOOLEAN /\ (nmi_pending => nmi_pending') /\ nmi_pending \in BOOLEAN
  BY NmiPinLemma DEF TypeInv, NmiType
<1> QED BY <1>1 DEF Interrupts!Sees

\* A step that leaves the enables and what the CPU is doing alone is an edge
\* or a stutter.
LEMMA QuietStep ==
  ASSUME PromiseInv, NmiPin(FALSE), nmi_resp' = nmi_resp, Doing' = Doing,
         iff1' = iff1, iff2' = iff2, halted' = halted
  PROVE  [Interrupts!Next]_(Interrupts!vars)
<1>1. CASE nmi_resp
  <2>1. nmi_pending = FALSE /\ nmi_pending' = FALSE
    BY <1>1, NmiPinLemma DEF PromiseInv, NmiInv, TypeInv, NmiType
  <2> QED BY <2>1 DEF Interrupts!vars
<1>2. CASE ~nmi_resp
  <2>1. nmi_pending' \in {nmi_pending, TRUE}
    BY <1>2, NmiSees DEF PromiseInv, Interrupts!Sees
  <2>2. Doing # "NMI"
    BY <1>2 DEF Doing
  <2>3. CASE nmi_pending' = nmi_pending
    BY <2>3 DEF Interrupts!vars
  <2>4. CASE nmi_pending' = TRUE
    BY <2>2, <2>4 DEF Interrupts!Next, Interrupts!Edge
  <2> QED BY <2>1, <2>3, <2>4
<1> QED BY <1>1, <1>2

\* Opcode latches: only a device's opcode ends a response, the IM 0 one.
LEMMA LatchSteps ==
  ASSUME PromiseInv, LatchM1 \/ LatchINTA PROVE [Interrupts!Next]_(Interrupts!vars)
<1>1. /\ NmiPin(FALSE) /\ UNCHANGED <<iff1, iff2, halted, nmi_resp, bus_op>>
      /\ ~rst_idle /\ ~rst_idle'
  BY DEF LatchM1, LatchINTA, Ticks, Running, NextT, enables
<1>2. CASE LatchM1
  <2>1. ~RespondsToINT /\ ~RespondsToINT'
    BY <1>1, <1>2 DEF LatchM1, OpcodeLatch, RespondsToINT
  <2>2. Doing' = Doing
    BY <1>1, <2>1 DEF Doing
  <2> QED BY <1>1, <2>2, QuietStep
<1>3. CASE LatchINTA
  <2>1. bus_op = "INTA" /\ ~nmi_resp /\ ~nmi_resp'
    BY <1>1, <1>3 DEF LatchINTA, PromiseInv, ResponseInv
  <2>2. CASE RespondsToINT <=> RespondsToINT'
    <3>1. Doing' = Doing
      BY <1>1, <2>1, <2>2 DEF Doing
    <3> QED BY <1>1, <3>1, QuietStep
  <2>3. CASE RespondsToINT /\ ~RespondsToINT'
    <3>1. Doing = "INT" /\ Doing' = "program"
      BY <1>1, <2>1, <2>3 DEF Doing
    <3>2. Interrupts!Sees
      BY <1>1, <2>1, NmiSees DEF PromiseInv
    <3> QED BY <1>1, <3>1, <3>2 DEF Interrupts!Next, Interrupts!ResponseEnds
  <2>4. CASE ~RespondsToINT /\ RespondsToINT'
    <3>1. exec # "INT" /\ exec' = "INT"
      BY <1>1, <2>1, <2>4 DEF RespondsToINT
    <3> QED BY <1>3, <3>1, DecodeType DEF LatchINTA
  <2> QED BY <2>2, <2>3, <2>4
<1> QED BY <1>2, <1>3

\* The M-cycles of an instruction or a response.
LEMMA CycleSteps ==
  ASSUME PromiseInv, NextMCycle \/ NextPrefix PROVE [Interrupts!Next]_(Interrupts!vars)
<1>1. /\ NmiPin(FALSE) /\ UNCHANGED <<iff1, iff2, halted, nmi_resp>>
      /\ ~rst_idle /\ ~rst_idle'
  BY DEF NextMCycle, NextPrefix, Ticks, Running, enables
<1>2. RespondsToINT <=> RespondsToINT'
  <2>1. CASE NextMCycle
    <3>1. GoesOn /\ exec' = exec
      BY <2>1 DEF NextMCycle, GoesOn
    <3>2. CASE exec = "INT"
      <4>1. bus_op = "M1" => t_state >= 4
        BY <3>1 DEF GoesOn, EndsMCycle, PromiseInv, TypeInv, RingType
      <4>2. bus_op # "M1"
        BY <1>1, <3>2, <4>1 DEF PromiseInv, ResponseInv, TypeInv, RingType
      <4>3. ~disp
        BY <3>2, <4>2 DEF PromiseInv, ResponseInv, RespondsToINT
      <4>4. bus_op' \notin {"M1", "INTA"}
        BY <3>1, <3>2, <4>3, ResponseGoesOn DEF PromiseInv
      <4> QED BY <3>1, <3>2, <4>2, <4>4 DEF RespondsToINT
    <3>3. CASE exec # "INT"
      BY <3>1, <3>3 DEF RespondsToINT
    <3> QED BY <3>2, <3>3
  <2>2. CASE NextPrefix
    BY <2>2 DEF NextPrefix, GoesOnPrefix, Prefixes, RespondsToINT
  <2> QED BY <2>1, <2>2
<1>3. Doing' = Doing
  BY <1>1, <1>2 DEF Doing
<1> QED BY <1>1, <1>3, QuietStep

\* What an instruction boundary finds.
LEMMA BoundaryFinds ==
  ASSUME PromiseInv, AcceptNMI \/ AcceptINT \/ HaltNOP \/ NextInstruction
  PROVE  /\ NmiPin(FALSE) /\ ~rst_idle /\ ~rst_idle' /\ exec \in Classes
         /\ nmi_resp => exec = "NMI" /\ ~halted /\ ~iff1
         /\ halted => exec = "NOP" /\ ~RespondsToINT
         /\ RespondsToINT => exec = "INT" /\ ~iff1 /\ ~halted
         /\ Doing \in {"program", "INT", "NMI"}
<1>1. NmiPin(FALSE) /\ ~rst_idle /\ ~rst_idle'
  BY DEF AcceptNMI, AcceptINT, HaltNOP, NextInstruction, EndInstruction, Ticks, Running
<1>2. halted => exec = "NOP" /\ ~RespondsToINT
  BY DEF PromiseInv, HaltInv, RespondsToINT
<1>3. RespondsToINT => exec = "INT" /\ ~iff1 /\ ~halted
  BY <1>2 DEF PromiseInv, ResponseInv, RespondsToINT
<1>4. nmi_resp => exec = "NMI" /\ ~halted /\ ~iff1
  BY <1>2 DEF PromiseInv, ResponseInv, NoIntInResponse
<1>5. exec \in Classes
  BY DEF PromiseInv, TypeInv, ExecType
<1> QED BY <1>1, <1>2, <1>3, <1>4, <1>5 DEF Doing

LEMMA AcceptNMIStep ==
  ASSUME PromiseInv, AcceptNMI PROVE Interrupts!AcceptNMI
<1>1. /\ nmi_sampled /\ exec' = "NMI" /\ iff1' = FALSE /\ halted' = FALSE /\ nmi_resp' = TRUE
      /\ iff2' = Iff2After
  BY DEF AcceptNMI, StartNMI, TakesNMI
<1>2. nmi_pending /\ ~nmi_resp
  BY <1>1 DEF PromiseInv, NmiInv
<1>3. nmi_pending' = FALSE
  <2>1. nmi_pending' \in BOOLEAN /\ (nmi_pending' => ~nmi_resp')
    BY BoundaryFinds, NmiPinLemma
  <2> QED BY <1>1, <2>1
<1>4. Doing \in {"program", "INT"} /\ Doing' = "NMI"
  BY <1>1, <1>2, BoundaryFinds DEF Doing
<1>5. iff2' = iff2 \/ (Doing = "program" /\ ~halted /\ iff2' \in BOOLEAN)
  <2>1. CASE exec \in {"EI", "DI"}
    <3>1. iff2' \in BOOLEAN
      BY <1>1, <2>1, Zenon DEF Iff2After
    <3>2. ~halted /\ ~RespondsToINT
      BY <2>1, BoundaryFinds
    <3>3. Doing = "program"
      BY <1>2, <3>2, BoundaryFinds, DoingIs
    <3> QED BY <3>1, <3>2, <3>3
  <2>2. CASE exec \notin {"EI", "DI"}
    BY <1>1, <2>2, Zenon DEF Iff2After
  <2> QED BY <2>1, <2>2
<1> QED BY <1>1, <1>2, <1>3, <1>4, <1>5 DEF Interrupts!AcceptNMI

LEMMA AcceptINTStep ==
  ASSUME PromiseInv, AcceptINT PROVE Interrupts!AcceptINT
<1>1. /\ TakesINT /\ exec' = "INT" /\ bus_op' = "INTA" /\ nmi_resp' = FALSE
      /\ iff1' = FALSE /\ iff2' = FALSE /\ halted' = FALSE
  BY DEF AcceptINT, StartINT, StartFetch
<1>2. iff1
  <2>1. CASE exec \in {"EI", "DI", "RETN"}
    BY <1>1, <2>1, Zenon DEF TakesINT, EiDelay, Iff1After
  <2>2. CASE exec \notin {"EI", "DI", "RETN"}
    BY <1>1, <2>2, Zenon DEF TakesINT, EiDelay, Iff1After
  <2> QED BY <2>1, <2>2
<1>3. ~nmi_resp /\ ~RespondsToINT
  BY <1>2, BoundaryFinds
<1>4. Doing = "program" /\ Doing' = "INT"
  BY <1>1, <1>3, BoundaryFinds, DoingIs DEF Doing, RespondsToINT
<1>5. Interrupts!Sees
  BY <1>1, <1>3, BoundaryFinds, NmiSees DEF PromiseInv
<1> QED BY <1>1, <1>2, <1>4, <1>5 DEF Interrupts!AcceptINT

LEMMA HaltStep ==
  ASSUME PromiseInv, HaltNOP PROVE [Interrupts!Next]_(Interrupts!vars)
<1>1. /\ halted \/ exec = "HALT"
      /\ iff1' = Iff1After /\ iff2' = Iff2After /\ halted' = TRUE /\ nmi_resp' = FALSE
      /\ bus_op' = "M1"
  BY DEF HaltNOP, StartHalt, HaltAfter, StartFetch
<1>2. exec \in {"NOP", "HALT"} /\ ~nmi_resp /\ ~RespondsToINT
  BY <1>1, BoundaryFinds
<1>3. iff1' = iff1 /\ iff2' = iff2
  <2>1. exec # "EI" /\ exec # "DI" /\ exec # "RETN"
    BY <1>2
  <2> QED BY <1>1, <2>1, Zenon DEF Iff1After, Iff2After
<1>4. Doing = "program" /\ Doing' = "program"
  BY <1>1, <1>2, BoundaryFinds DEF Doing, RespondsToINT
<1>5. CASE halted
  <2>1. halted' = halted /\ nmi_resp' = nmi_resp
    BY <1>1, <1>2, <1>5 DEF PromiseInv, TypeInv, EnablesType, NmiType
  <2> QED BY <1>3, <1>4, <2>1, QuietStep, BoundaryFinds
<1>6. CASE ~halted
  <2>1. Interrupts!Sees
    BY <1>1, <1>2, BoundaryFinds, NmiSees DEF PromiseInv
  <2> QED BY <1>1, <1>3, <1>4, <1>6, <2>1 DEF Interrupts!Next, Interrupts!Halt
<1> QED BY <1>5, <1>6

LEMMA InstructionStep ==
  ASSUME PromiseInv, NextInstruction PROVE [Interrupts!Next]_(Interrupts!vars)
<1>1. /\ ~halted /\ exec # "HALT"
      /\ iff1' = Iff1After /\ iff2' = Iff2After /\ halted' = FALSE /\ nmi_resp' = FALSE
      /\ bus_op' = "M1"
  BY DEF NextInstruction, StartNext, HaltAfter, StartFetch
<1>2. Doing' = "program"
  BY <1>1, BoundaryFinds DEF Doing, RespondsToINT
<1>3. halted' = halted
  BY <1>1 DEF PromiseInv, TypeInv, EnablesType
<1>4. exec \notin {"EI", "DI", "RETN"} => iff1' = iff1 /\ iff2' = iff2
  <2>1. ASSUME exec # "EI", exec # "DI", exec # "RETN" PROVE iff1' = iff1 /\ iff2' = iff2
    BY <1>1, <2>1, Zenon DEF Iff1After, Iff2After
  <2> QED BY <2>1
<1>5. CASE nmi_resp
  <2>1. nmi_pending' = FALSE
    <3>1. nmi_pending' \in BOOLEAN /\ (nmi_pending' => ~nmi_resp)
      BY BoundaryFinds, NmiPinLemma
    <3> QED BY <1>5, <3>1
  <2>2. Doing = "NMI" /\ exec = "NMI"
    BY <1>5, BoundaryFinds, DoingIs
  <2> QED BY <1>2, <1>3, <1>4, <2>1, <2>2 DEF Interrupts!Next, Interrupts!ResponseEnds
<1>6. ASSUME ~nmi_resp PROVE Interrupts!Sees
  BY <1>1, <1>6, BoundaryFinds, NmiSees DEF PromiseInv
<1>7. CASE ~nmi_resp /\ RespondsToINT
  <2>1. Doing = "INT" /\ exec = "INT"
    BY <1>7, BoundaryFinds, DoingIs
  <2> QED BY <1>2, <1>3, <1>4, <1>6, <1>7, <2>1 DEF Interrupts!Next, Interrupts!ResponseEnds
<1>8. CASE ~nmi_resp /\ ~RespondsToINT
  <2>1. Doing = "program"
    BY <1>8, BoundaryFinds, DoingIs
  <2>2. CASE exec \in {"EI", "DI", "RETN"}
    <3>1. Interrupts!Enables
      <4>1. CASE exec = "EI"
        <5>1. iff1' = TRUE /\ iff2' = TRUE
          BY <1>1, <4>1, Zenon DEF Iff1After, Iff2After
        <5> QED BY <5>1 DEF Interrupts!Enables
      <4>2. CASE exec = "DI"
        <5>1. exec # "EI"
          BY <4>2
        <5>2. iff1' = FALSE /\ iff2' = FALSE
          BY <1>1, <4>2, <5>1, Zenon DEF Iff1After, Iff2After
        <5> QED BY <5>2 DEF Interrupts!Enables
      <4>3. CASE exec = "RETN"
        <5>1. exec # "EI" /\ exec # "DI"
          BY <4>3
        <5>2. iff1' = iff2 /\ iff2' = iff2
          BY <1>1, <4>3, <5>1, Zenon DEF Iff1After, Iff2After
        <5> QED BY <5>2 DEF Interrupts!Enables
      <4> QED BY <2>2, <4>1, <4>2, <4>3
    <3> QED BY <1>1, <1>2, <1>3, <1>6, <1>8, <2>1, <3>1
            DEF Interrupts!Next, Interrupts!Instruction
  <2>3. CASE exec \notin {"EI", "DI", "RETN"}
    <3>1. nmi_resp' = nmi_resp
      BY <1>1, <1>8 DEF PromiseInv, TypeInv, NmiType
    <3> QED BY <1>2, <1>3, <1>4, <2>1, <2>3, <3>1, BoundaryFinds, QuietStep
  <2> QED BY <2>2, <2>3
<1> QED BY <1>5, <1>7, <1>8

LEMMA ResetSteps ==
  ASSUME PromiseInv, Cut \/ ResetHold \/ Restart PROVE [Interrupts!Next]_(Interrupts!vars)
<1>1. CASE Cut \/ ResetHold
  <2>1. /\ rst_idle' /\ NmiPin(TRUE)
        /\ iff1' = FALSE /\ iff2' = FALSE /\ halted' = FALSE
    BY <1>1 DEF Cut, ResetHold, EnterResetIdle
  <2>2. nmi_pending' = FALSE
    BY <2>1, NmiPinLemma
  <2>3. Doing' = "reset"
    BY <2>1 DEF Doing
  <2> QED BY <2>1, <2>2, <2>3 DEF Interrupts!Next, Interrupts!Reset
<1>2. CASE Restart
  <2>1. /\ rst_idle /\ ~rst_idle' /\ NmiPin(FALSE)
        /\ UNCHANGED <<iff1, iff2, halted, nmi_resp>> /\ bus_op' = "M1"
    BY <1>2 DEF Restart, enables, StartFetch
  <2>2. ~nmi_resp /\ ~nmi_resp'
    BY <2>1 DEF PromiseInv, ResponseInv
  <2>3. Doing = "reset" /\ Doing' = "program"
    BY <2>1, <2>2 DEF Doing, RespondsToINT
  <2>4. Interrupts!Sees
    BY <2>1, <2>2, NmiSees DEF PromiseInv
  <2> QED BY <2>1, <2>3, <2>4 DEF Interrupts!Next, Interrupts!Restart
<1> QED BY <1>1, <1>2

LEMMA InterruptsStep ==
  ASSUME PromiseInv, [Next]_vars PROVE [Interrupts!Next]_(Interrupts!vars)
<1>1. CASE FallingEdge \/ Granted \/ WaitState \/ NextTState
  <2>1. /\ NmiPin(FALSE) /\ UNCHANGED <<iff1, iff2, halted, nmi_resp, exec, bus_op>>
        /\ (rst_idle <=> rst_idle')
    <3>1. CASE FallingEdge
      BY <3>1 DEF FallingEdge, ring, enables, reset
    <3>2. CASE Granted
      BY <3>2 DEF Granted, Running, ring, enables
    <3>3. CASE WaitState
      BY <3>3 DEF WaitState, Running, ring, enables
    <3>4. CASE NextTState
      BY <3>4 DEF NextTState, Ticks, Running, NextT, enables
    <3> QED BY <1>1, <3>1, <3>2, <3>3, <3>4
  <2>2. Doing' = Doing
    BY <2>1 DEF Doing, RespondsToINT
  <2> QED BY <2>1, <2>2, QuietStep
<1>2. CASE AcceptNMI \/ AcceptINT
  BY <1>2, AcceptNMIStep, AcceptINTStep DEF Interrupts!Next
<1>3. CASE UNCHANGED vars
  <2>1. UNCHANGED <<iff1, iff2, halted, nmi_pending, nmi_resp, exec, bus_op, rst_idle>>
    BY <1>3 DEF vars, ring, enables, nmi, reset
  <2>2. Doing' = Doing
    BY <2>1 DEF Doing, RespondsToINT
  <2> QED BY <2>1, <2>2 DEF Interrupts!vars
<1> QED BY <1>1, <1>2, <1>3, LatchSteps, CycleSteps, HaltStep, InstructionStep, ResetSteps
        DEF Next

\* An NMI edge is answered once and not forgotten, an INT only while enabled
\* before the instruction that ends, responses do not nest but NMI on INT, and
\* RETN finds in IFF2 what IFF1 was: every half T-state of z80_phase_step(),
\* begin_next() and enter_reset_idle() is a step of Z80Interrupts or a stutter.
THEOREM InterruptPromiseKept == Spec => KeepsInterruptPromise
<1>1. Init => Interrupts!Init
  BY DEF Init, Interrupts!Init, Doing, RespondsToINT, Level
<1>2. PromiseInv /\ [Next]_vars => [Interrupts!Next]_(Interrupts!vars)
  BY InterruptsStep
<1> QED BY <1>1, <1>2, PromiseInvHolds, PTL DEF Spec, KeepsInterruptPromise, Interrupts!Spec
=============================================================================
