--------------------------- MODULE Z80Pins_proofs ---------------------------
(***************************************************************************)
(* Proofs about the output pins: the strobes, the data and address buses,  *)
(* HALT and BUSACK, through wait states, grants and cuts.                  *)
(***************************************************************************)
EXTENDS Z80Pins, Z80Response_proofs

(***************************************************************************)
(* The strobes. Their half T-states are a table; what disturbs them is the *)
(* RD the cut holds, only into the restarted fetch, and WR in a wait       *)
(* state, only where WAIT is looked at.                                    *)
(***************************************************************************)
StrobeInv ==
  /\ rd_hold /\ ~rst_idle => bus_op = "M1"
  /\ in_tw => ~rst_idle /\ WaitSample(bus_op, t_state, 1)

Requests == {"MREQ", "IORQ", "RD", "WR"}

LEMMA StrobeInvStep == ASSUME PendingInv, StrobeInv, [Next]_vars PROVE StrobeInv'
<1>1. CASE FallingEdge
  BY <1>1 DEF FallingEdge, ring, reset, StrobeInv
<1>2. CASE WaitState
  <2>1. /\ stalled /\ ~rst_idle' /\ ~rd_hold' /\ UNCHANGED <<bus_op, t_state>>
    BY <1>2 DEF WaitState, Running, ring
  <2> QED BY <2>1 DEF PendingInv, StrobeInv
<1>3. Granted \/ NextTState \/ LatchM1 \/ LatchINTA \/ NextMCycle \/ NextPrefix
        => ~in_tw' /\ ~rd_hold'
  BY DEF Granted, NextTState, LatchM1, LatchINTA, NextMCycle, NextPrefix, Ticks, Running
<1>4. AcceptNMI \/ AcceptINT \/ HaltNOP \/ NextInstruction => ~in_tw' /\ ~rd_hold'
  BY DEF AcceptNMI, AcceptINT, HaltNOP, NextInstruction, EndInstruction, Ticks, Running
<1>5. Cut \/ ResetHold => ~in_tw' /\ rst_idle'
  BY DEF Cut, ResetHold, EnterResetIdle
<1>6. CASE Restart
  <2>1. rst_idle /\ in_tw' = in_tw /\ bus_op' = "M1"
    BY <1>6 DEF Restart, StartFetch
  <2> QED BY <2>1 DEF StrobeInv
<1>7. CASE UNCHANGED vars
  BY <1>7 DEF vars, ring, waits, reset, StrobeInv
<1> QED BY <1>1, <1>2, <1>3, <1>4, <1>5, <1>6, <1>7 DEF Next, StrobeInv

LEMMA StrobeInvHolds == Spec => []StrobeInv
<1>1. Init => StrobeInv
  BY DEF Init, StrobeInv
<1>2. PendingInv /\ StrobeInv /\ [Next]_vars => StrobeInv'
  BY StrobeInvStep
<1> QED BY <1>1, <1>2, PendingInvHolds, PTL DEF Spec

\* The rows of z80_timing()'s table for the four requests.
LEMMA Windows ==
  /\ \A b \in {"M1", "MRD", "MWR", "INTERNAL"} : Window[b]["IORQ"] = {}
  /\ \A b \in {"IORD", "IOWR", "INTERNAL"} : Window[b]["MREQ"] = {}
  /\ \A b \in {"MWR", "IOWR", "INTA", "INTERNAL"} : Window[b]["RD"] = {}
  /\ \A b \in {"M1", "MRD", "IORD", "INTA", "INTERNAL"} : Window[b]["WR"] = {}
  /\ Window["M1"]["MREQ"] = (1 .. 3) \cup (5 .. 6) /\ Window["INTA"]["MREQ"] = 9 .. 10
  /\ \A b \in {"MRD", "MWR"} : Window[b]["MREQ"] = 1 .. 4
  /\ \A b \in {"IORD", "IOWR"} : Window[b]["IORQ"] = 2 .. 6
  /\ Window["INTA"]["IORQ"] = 5 .. 7
  /\ Window["MWR"]["WR"] = 3 .. 4 /\ Window["IOWR"]["WR"] = 2 .. 6
  BY DEF Window, BusOps, Strobes

(***************************************************************************)
(* When a request may be low in a running CPU: in its window, or WR held   *)
(* by a Tw; RD as the cut left it; or what a cut makes of T1.N and of an   *)
(* internal cycle.                                                         *)
(***************************************************************************)
LatchesInternal ==
  /\ LongInternal
  /\ \/ t_state = 2 /\ phi = 0
     \/ t_state = 1 /\ phi = 1 /\ Res2Now

RequestShape ==
  \A s \in Requests :
    Low(s) /\ (s # "RD" \/ ~rst_idle) =>
      /\ ~rst_idle /\ ~bus_granted
      /\ \/ s = "RD" /\ bus_op = "M1"
         \/ s \in {"MREQ", "RD"} /\ phi = 1 /\ t_state = 1 /\ res2
         \/ s = "MREQ" /\ LatchesInternal
         \/ Undisturbed(s)

LEMMA InCutShape ==
  ASSUME NEW s \in Requests, InCut(s)
  PROVE  \/ s \in {"MREQ", "RD"} /\ phi = 1 /\ t_state = 1
         \/ s = "MREQ" /\ LatchesInternal
         \/ Undisturbed(s)
<1>1. CASE phi = 1 /\ t_state = 1
  BY <1>1 DEF InCut, Requests
<1>2. CASE phi = 0 /\ t_state = 2 /\ LongInternal /\ s = "MREQ"
  BY <1>2 DEF LatchesInternal
<1>3. CASE ~(phi = 1 /\ t_state = 1) /\ ~(phi = 0 /\ t_state = 2 /\ LongInternal /\ s = "MREQ")
  BY <1>3 DEF InCut, Requests
<1> QED BY <1>1, <1>2, <1>3

LEMMA RequestShapeHolds == TypeInv /\ StrobeInv => RequestShape
<1> SUFFICES ASSUME TypeInv, StrobeInv, NEW s \in Requests, Low(s), s # "RD" \/ ~rst_idle
             PROVE  /\ ~rst_idle /\ ~bus_granted
                    /\ \/ s = "RD" /\ bus_op = "M1"
                       \/ s \in {"MREQ", "RD"} /\ phi = 1 /\ t_state = 1 /\ res2
                       \/ s = "MREQ" /\ LatchesInternal
                       \/ Undisturbed(s)
  BY DEF RequestShape
<1>1. ~rst_idle /\ ~bus_granted
  BY DEF Low
<1>2. CASE rd_hold /\ phi = 0
  BY <1>1, <1>2 DEF Low, StrobeInv
<1>3. CASE ~(rd_hold /\ phi = 0) /\ res2 /\ ~Extension
  <2>1. InCut(s)
    BY <1>1, <1>3 DEF Low
  <2> QED BY <1>1, <1>3, <2>1, InCutShape
<1>4. CASE ~(rd_hold /\ phi = 0) /\ ~(res2 /\ ~Extension)
  BY <1>1, <1>4 DEF Low, LatchesInternal
<1> QED BY <1>2, <1>3, <1>4

\* No two of MREQ and IORQ, RD and WR, RD and the CPU's data meet, whatever
\* WAIT, BUSREQ and a RESET cut do to the M-cycle (z80_phase_step()'s drive
\* section): a cut in T1 asserts RD only with the data bus let go.
THEOREM StrobesSafe == Spec => []StrobesExclude
<1> DEFINE Inv == TypeInv /\ StrobeInv /\ RequestShape
<1>1. ASSUME Inv PROVE ~(Low("MREQ") /\ Low("IORQ"))
  <2> SUFFICES ASSUME Low("MREQ"), Low("IORQ") PROVE FALSE
    OBVIOUS
  <2>1. Undisturbed("IORQ")
    BY <1>1 DEF RequestShape, Requests
  <2>2. Half(t_state, phi) \in Window[bus_op]["IORQ"] /\ bus_op \in BusOps
    BY <1>1, <2>1 DEF Undisturbed, Timed, TypeInv, RingType
  <2>3. bus_op \in {"IORD", "IOWR", "INTA"}
    BY <2>2, Windows DEF BusOps
  <2>4. ~(phi = 1 /\ t_state = 1)
    BY <2>2, <2>3, Windows DEF Half
  <2>5. Undisturbed("MREQ")
    BY <1>1, <2>3, <2>4 DEF RequestShape, Requests, LatchesInternal, LongInternal
  <2> QED BY <2>2, <2>3, <2>5, Windows DEF Undisturbed, Timed
<1>2. ASSUME Inv, Low("WR") PROVE DataDriven
  <2>1. Undisturbed("WR") /\ ~rst_idle /\ ~bus_granted
    BY <1>2 DEF RequestShape, Requests
  <2>2. bus_op \in BusOps /\ t_state \in Int /\ phi \in 0 .. 1
    BY <1>2 DEF TypeInv, RingType, FlagsType
  <2>3. CASE HoldWR
    <3>1. bus_op = "MWR" /\ t_state = 2 /\ phi = 0
      BY <1>2, <2>3 DEF HoldWR, StrobeInv, WaitSample
    <3> QED BY <2>1, <3>1 DEF DataDriven, TimedData, Half
  <2>4. CASE Half(t_state, phi) \in Window[bus_op]["WR"]
    <3>1. bus_op \in {"MWR", "IOWR"}
      BY <2>2, <2>4, Windows DEF BusOps
    <3>2. /\ TimedData(bus_op, t_state, phi)
          /\ ~(phi = 1 /\ t_state = 1)
      BY <2>2, <2>4, <3>1, Windows DEF TimedData, Half
    <3> QED BY <2>1, <3>2 DEF DataDriven
  <2> QED BY <2>1, <2>3, <2>4 DEF Undisturbed, Timed
<1>3. ASSUME Inv, Low("RD") PROVE ~DataDriven
  <2> SUFFICES ASSUME DataDriven PROVE FALSE
    OBVIOUS
  <2>1. ~rst_idle /\ bus_op \in {"MWR", "IOWR"}
    BY DEF DataDriven, TimedData
  <2>2. Undisturbed("RD")
    BY <1>3, <2>1 DEF RequestShape, Requests, DataDriven
  <2> QED BY <2>1, <2>2, Windows DEF Undisturbed, Timed
<1>4. Inv => StrobesExclude
  BY <1>1, <1>2, <1>3 DEF StrobesExclude
<1> QED BY <1>4, RequestShapeHolds, TypeInvHolds, StrobeInvHolds, PTL

-----------------------------------------------------------------------------
(***************************************************************************)
(* How a rising edge that neither enters nor leaves the reset idle moves   *)
(* the ring.                                                               *)
(***************************************************************************)
LEMMA RunningSteps ==
  ASSUME Next, ~rst_idle, ~rst_idle', ~FallingEdge
  PROVE  /\ RisingEdge /\ ~res2 /\ ~rd_hold'
         /\ \/ Granted
            \/ WaitState
            \/ ~bus_granted /\ NextT /\ bus_granted' = bus_granted
            \/ ~bus_granted /\ EndsMCycle /\ t_state' = 1
<1>1. ~Cut /\ ~ResetHold /\ ~Restart
  BY DEF Cut, ResetHold, EnterResetIdle, Restart
<1>2. CASE Granted \/ WaitState
  BY <1>2 DEF Granted, WaitState, Running
<1>3. CASE NextTState \/ LatchM1 \/ LatchINTA
  BY <1>3 DEF NextTState, LatchM1, LatchINTA, Ticks, Running
<1>4. CASE NextMCycle \/ NextPrefix
  BY <1>4 DEF NextMCycle, NextPrefix, GoesOn, GoesOnPrefix, StartMCycle, StartFetch, Ticks,
              Running
<1>5. CASE AcceptNMI \/ AcceptINT \/ HaltNOP \/ NextInstruction
  <2>1. Ticks
    BY <1>5 DEF AcceptNMI, AcceptINT, HaltNOP, NextInstruction, EndInstruction
  <2>2. EndsMCycle /\ t_state' = 1
    BY <1>5 DEF AcceptNMI, AcceptINT, HaltNOP, NextInstruction, StartNMI, StartINT, StartHalt,
                StartNext, StartFetch, Finishes
  <2> QED BY <2>1, <2>2 DEF Ticks, Running
<1> QED BY <1>1, <1>2, <1>3, <1>4, <1>5 DEF Next

\* The DMA master's time is covered: the bus is taken back only on the rising
\* edge before which BUSREQ was found high or RES2 set, and BUSACK rose there.
THEOREM BusackSafe == Spec => BusackCoversDMA
<1>1. ASSUME GrantBetweenMCycles, [Next]_vars, BusackLow
      PROVE  ~AddressDriven' /\ ~ControlDriven'
  <2> SUFFICES bus_granted'
    BY DEF AddressDriven, ControlDriven
  <2>1. bus_granted /\ ~rst_idle
    BY <1>1 DEF BusackLow, GrantBetweenMCycles
  <2>2. CASE FallingEdge
    BY <2>1, <2>2 DEF FallingEdge, grant
  <2>3. CASE Granted
    <3>1. phi = 1 /\ bus_granted' = busreq_s
      BY <2>3 DEF Granted, Running, RisingEdge
    <3> QED BY <1>1, <3>1 DEF BusackLow
  <2>4. CASE Cut
    <3>1. phi = 1 /\ res2
      BY <2>4 DEF Cut, RisingEdge
    <3> QED BY <1>1, <3>1 DEF BusackLow
  <2>5. CASE UNCHANGED vars
    BY <2>1, <2>5 DEF vars, grant
  <2>6. ~WaitState /\ ~NextTState /\ ~LatchM1 /\ ~LatchINTA /\ ~NextMCycle /\ ~NextPrefix
    BY <2>1 DEF WaitState, NextTState, LatchM1, LatchINTA, NextMCycle, NextPrefix, Ticks
  <2>7. ~AcceptNMI /\ ~AcceptINT /\ ~HaltNOP /\ ~NextInstruction /\ ~ResetHold /\ ~Restart
    BY <2>1 DEF AcceptNMI, AcceptINT, HaltNOP, NextInstruction, EndInstruction, Ticks,
                ResetHold, Restart
  <2> QED BY <1>1, <2>2, <2>3, <2>4, <2>5, <2>6, <2>7 DEF Next
<1> QED BY <1>1, GrantSafe, PTL DEF Spec, BusackCoversDMA

-----------------------------------------------------------------------------
(***************************************************************************)
(* The write strobe. A write is long enough for its pulse: what starts an  *)
(* M-cycle only ever adds T-states to the bus operation's own.             *)
(***************************************************************************)
LenInv == bus_op \notin {"M1", "INTA"} => m_len >= BaseLen[bus_op]

LEMMA StartMCycleLen ==
  ASSUME NEW c \in GoodCycle, StartMCycle(c)
  PROVE  LenInv'
<1>1. c.bus \in BusOps /\ c.extra \in 0 .. 5 /\ BaseLen[c.bus] \in Nat
  BY DEF GoodCycle, MCycles, BaseLen
<1>2. bus_op' = c.bus /\ m_len' = BaseLen[c.bus] + c.extra
  BY DEF StartMCycle
<1> QED BY <1>1, <1>2 DEF LenInv

LEMMA LenInvStep == ASSUME TypeInv, LenInv, [Next]_vars PROVE LenInv'
<1>1. CASE UNCHANGED <<t_state, bus_op, m_len, m_cycle, m_addr>>
  BY <1>1 DEF LenInv
<1>2. CASE NextT
  BY <1>2 DEF LenInv, NextT
<1>3. ASSUME NEW b \in {"M1", "INTA"}, NEW len, NEW a, StartsFetch(b, len, a)
      PROVE  LenInv'
  BY <1>3 DEF LenInv, StartsFetch, StartFetch
<1>4. CASE GoesOn
  <2>1. Cycles(exec, disp) \in Short
    BY CyclesShort DEF TypeInv, ExecType
  <2>2. Cycles(exec, disp)[m_cycle] \in GoodCycle
    BY <1>4, <2>1 DEF GoesOn, MayGoOn, TypeInv, RingType, Short
  <2> QED BY <1>4, <2>2, StartMCycleLen DEF GoesOn
<1>5. CASE StartMCycle(Operand)
  BY <1>5, PiecesGood, StartMCycleLen
<1>6. CASE UNCHANGED vars
  BY <1>1, <1>6 DEF vars, ring
<1> QED BY <1>1, <1>2, <1>3, <1>4, <1>5, <1>6, RingSteps DEF TypeInv

LEMMA LenInvHolds == Spec => []LenInv
<1>1. Init => LenInv
  BY DEF Init, LenInv
<1>2. TypeInv /\ LenInv /\ [Next]_vars => LenInv'
  BY LenInvStep
<1> QED BY <1>1, <1>2, TypeInvHolds, PTL DEF Spec

LEMMA UndisturbedIsLow ==
  ASSUME NEW s, ~rst_idle', ~bus_granted', ~res2', Undisturbed(s)'
  PROVE  Low(s)'
  BY DEF Low

\* WR is low from where z80_timing() lowers it to the low half of the last
\* T-state, without a break at a wait state; only a RESET ends it sooner.
THEOREM WriteSafe == Spec => WriteIsOnePulse
<1> DEFINE Inv == TypeInv /\ StrobeInv /\ LenInv /\ RequestShape
<1>1. ASSUME Inv, [Next]_vars, Low("WR"), ~res2, ~res2',
             ~(phi = 0 /\ t_state = BaseLen[bus_op])
      PROVE  Low("WR")'
  <2>1. ~rst_idle /\ ~bus_granted /\ Undisturbed("WR")
    BY <1>1 DEF RequestShape, Requests
  <2>2. bus_op \in BusOps /\ t_state \in Int /\ phi \in 0 .. 1 /\ m_len \in Int
    BY <1>1 DEF TypeInv, RingType, FlagsType
  <2>3. \/ bus_op = "MWR"  /\ m_len >= 3 /\ t_state = 2
        \/ bus_op = "IOWR" /\ m_len >= 4 /\ t_state \in {2, 3}
    <3>1. HoldWR => bus_op = "MWR" /\ t_state = 2
      BY <1>1 DEF HoldWR, StrobeInv, WaitSample
    <3>2. \/ HoldWR
          \/ bus_op = "MWR"  /\ Half(t_state, phi) \in 3 .. 4
          \/ bus_op = "IOWR" /\ Half(t_state, phi) \in 2 .. 6
      BY <2>1, <2>2, Windows DEF Undisturbed, Timed, BusOps
    <3>3. BaseLen["MWR"] = 3 /\ BaseLen["IOWR"] = 4
      BY DEF BaseLen, BusOps
    <3> QED BY <1>1, <2>2, <3>1, <3>2, <3>3 DEF Half, LenInv
  <2>4. CASE FallingEdge
    <3>1. /\ phi' = 1 /\ UNCHANGED <<bus_op, t_state, rst_idle, bus_granted>>
      BY <2>4 DEF FallingEdge, ring, grant, reset
    <3>2. Undisturbed("WR")'
      BY <2>3, <3>1, Windows DEF Undisturbed, Timed, Half
    <3> QED BY <1>1, <2>1, <3>1, <3>2, UndisturbedIsLow
  <2>5. CASE ~FallingEdge /\ Next
    <3>1. ~rst_idle'
      BY <1>1, <2>1, <2>5 DEF Next, Granted, WaitState, NextTState, LatchM1, LatchINTA,
            NextMCycle, NextPrefix, AcceptNMI, AcceptINT, HaltNOP, NextInstruction,
            EndInstruction, Ticks, Running, Cut, ResetHold, Restart
    <3>2. phi = 1 /\ phi' = 0
      BY <2>1, <2>5, <3>1, RunningSteps DEF RisingEdge
    <3>3. CASE WaitState
      <4>1. in_tw' /\ UNCHANGED <<bus_op, t_state, bus_granted>>
        BY <3>3 DEF WaitState, ring
      <4>2. Undisturbed("WR")'
        BY <2>3, <3>2, <4>1, Windows DEF Undisturbed, Timed, Half, HoldWR
      <4> QED BY <1>1, <2>1, <3>1, <4>1, <4>2, UndisturbedIsLow
    <3>4. CASE NextT /\ bus_granted' = bus_granted
      <4>1. bus_op' = bus_op /\ t_state' = t_state + 1
        BY <3>4 DEF NextT
      <4>2. Undisturbed("WR")'
        BY <2>3, <3>2, <4>1, Windows DEF Undisturbed, Timed, Half
      <4> QED BY <1>1, <2>1, <3>1, <3>4, <4>2, UndisturbedIsLow
    <3>5. ~EndsMCycle
      BY <2>2, <2>3 DEF EndsMCycle
    <3>6. ~Granted
      BY <2>1 DEF Granted
    <3> QED BY <2>1, <2>5, <3>1, <3>3, <3>4, <3>5, <3>6, RunningSteps
  <2>6. CASE UNCHANGED vars
    <3>1. UNCHANGED <<phi, bus_op, t_state, in_tw, rst_idle, bus_granted>>
      BY <2>6 DEF vars, ring, waits, grant, reset
    <3>2. Undisturbed("WR")'
      BY <2>1, <3>1 DEF Undisturbed, Timed, HoldWR
    <3> QED BY <1>1, <2>1, <3>1, <3>2, UndisturbedIsLow
  <2> QED BY <1>1, <2>4, <2>5, <2>6
<1>2. Inv /\ [Next]_vars
        => (Low("WR") /\ ~Low("WR")' => (phi = 0 /\ t_state = BaseLen[bus_op]) \/ res2 \/ res2')
  BY <1>1
<1> QED BY <1>2, RequestShapeHolds, TypeInvHolds, StrobeInvHolds, LenInvHolds, PTL
        DEF Spec, WriteIsOnePulse

-----------------------------------------------------------------------------
(***************************************************************************)
(* The address bus. Where a running CPU drives it, it carries the M-cycle's*)
(* address or the refresh address: DriveAddress makes that so in each half *)
(* T-state, whatever it was before.                                        *)
(***************************************************************************)
CycleAddress == IF RefreshAddress(bus_op, t_state) THEN <<"IR", 0>> ELSE m_addr

AddrInv ==
  ~rst_idle /\ ~bus_granted /\ ~AddressHeld(bus_op, t_state) => addr = CycleAddress

LEMMA NextDrives == Next => DriveAddress
  BY DEF Next, FallingEdge, Granted, WaitState, NextTState, LatchM1, LatchINTA, NextMCycle,
         NextPrefix, AcceptNMI, AcceptINT, HaltNOP, NextInstruction, Cut, ResetHold,
         EnterResetIdle, Restart

LEMMA AddrInvHolds == Spec => []AddrInv
<1>1. Init => AddrInv
  BY DEF Init, AddrInv, CycleAddress, RefreshAddress
<1>2. ASSUME AddrInv, [Next]_vars PROVE AddrInv'
  <2>1. CASE DriveAddress
    BY <2>1 DEF DriveAddress, AddrInv, CycleAddress
  <2>2. CASE UNCHANGED vars
    BY <1>2, <2>2 DEF vars, ring, reset, grant, AddrInv, CycleAddress
  <2> QED BY <1>2, <2>1, <2>2, NextDrives
<1> QED BY <1>1, <1>2, PTL DEF Spec

\* Where a memory or an I/O request is low after a rising edge of a running
\* CPU the M-cycle has begun before that edge.
LEMMA NoRequestAtStart ==
  ASSUME RequestShape', NEW s \in {"MREQ", "IORQ"}, Low(s)', phi' = 0, t_state' \in Int,
         bus_op' \in BusOps
  PROVE  /\ t_state' # 1
         /\ \/ Half(t_state', 0) \in Window[bus_op'][s]
            \/ bus_op' = "INTERNAL" /\ t_state' = 2
<1>1. \/ LatchesInternal'
      \/ Undisturbed(s)'
  BY DEF RequestShape, Requests
<1>2. CASE LatchesInternal'
  BY <1>2 DEF LatchesInternal, LongInternal
<1>3. CASE Undisturbed(s)'
  <2>1. Half(t_state', 0) \in Window[bus_op'][s]
    BY <1>3 DEF Undisturbed, Timed
  <2>2. 0 \notin Window[bus_op'][s]
    BY Windows DEF BusOps
  <2> QED BY <2>1, <2>2 DEF Half
<1> QED BY <1>1, <1>2, <1>3

\* The address stands still under a memory or an I/O request: the refresh
\* address comes in the half T-state between the fetch's MREQ (INTA's IORQ)
\* and the refresh's, the address a cut latches before the cut's own MREQ.
THEOREM AddressSafe == Spec => AddressStable
<1> DEFINE Inv == TypeInv /\ PendingInv /\ AddrInv /\ RequestShape
<1>1. ASSUME Inv, Inv', [Next]_vars, NEW s \in {"MREQ", "IORQ"}, Low(s), Low(s)'
      PROVE  addr' = addr
  <2>1. ~rst_idle /\ ~bus_granted /\ ~rst_idle' /\ ~bus_granted'
    BY <1>1 DEF RequestShape, Requests
  <2>2. bus_op \in BusOps /\ t_state \in Int /\ phi \in 0 .. 1 /\ m_len \in Int
        /\ bus_op' \in BusOps /\ t_state' \in Int
    BY <1>1 DEF TypeInv, RingType, FlagsType
  <2>3. CASE FallingEdge
    <3>1. phi = 0 /\ UNCHANGED <<bus_op, t_state, m_len, m_addr>> /\ DriveAddress
      BY <2>3 DEF FallingEdge, ring
    <3>2. CASE LatchesInternal
      <4>1. bus_op = "INTERNAL" /\ t_state = 2
        BY <3>1, <3>2 DEF LatchesInternal, LongInternal
      <4> QED BY <3>1, <4>1 DEF DriveAddress, AddressHeld, IntCut
    <3>3. CASE Half(t_state, phi) \in Window[bus_op][s]
      <4>1. ~AddressHeld(bus_op, t_state)
        BY <2>2, <3>1, <3>3, Windows DEF BusOps, AddressHeld, Half
      <4>2. addr = CycleAddress
        BY <1>1, <2>1, <4>1 DEF AddrInv
      <4> QED BY <2>1, <3>1, <4>1, <4>2 DEF DriveAddress, CycleAddress
    <3>4. LatchesInternal \/ Undisturbed(s)
      BY <1>1, <3>1 DEF RequestShape, Requests
    <3> QED BY <3>2, <3>3, <3>4 DEF Undisturbed, Timed
  <2>4. CASE ~FallingEdge /\ Next
    <3>1. phi = 1 /\ phi' = 0 /\ ~res2 /\ ~Granted
      BY <2>1, <2>4, RunningSteps DEF RisingEdge, Granted
    <3>2. LatchesInternal \/ Half(t_state, 1) \in Window[bus_op][s]
      BY <1>1, <3>1 DEF RequestShape, Requests, Undisturbed, Timed
    <3>3. /\ t_state' # 1
          /\ \/ Half(t_state', 0) \in Window[bus_op'][s]
             \/ bus_op' = "INTERNAL" /\ t_state' = 2
      BY <1>1, <2>2, <3>1, NoRequestAtStart
    <3>4. DriveAddress
      BY <2>4, NextDrives
    <3>5. CASE WaitState
      <4>1. stalled /\ UNCHANGED <<bus_op, t_state, m_len, m_addr>>
        BY <3>5 DEF WaitState, ring
      <4>2. ~AddressHeld(bus_op, t_state)
        BY <1>1, <4>1 DEF PendingInv, WaitSample, AddressHeld
      <4>3. addr = CycleAddress
        BY <1>1, <2>1, <4>2 DEF AddrInv
      <4> QED BY <2>1, <3>4, <4>1, <4>2, <4>3 DEF DriveAddress, CycleAddress
    <3>6. CASE NextT
      <4>1. t_state' = t_state + 1 /\ UNCHANGED <<bus_op, m_len, m_addr>>
        BY <3>6 DEF NextT
      <4>2. CASE bus_op = "INTERNAL" \/ AddressHeld(bus_op, t_state')
        BY <2>2, <3>3, <3>4, <4>1, <4>2 DEF DriveAddress, AddressHeld, IntCut
      <4>3. CASE bus_op # "INTERNAL" /\ ~AddressHeld(bus_op, t_state')
        <5>1. Half(t_state, 1) \in Window[bus_op][s] /\ Half(t_state, 1) + 1 \in Window[bus_op][s]
          BY <2>2, <3>2, <3>3, <4>1, <4>3 DEF LatchesInternal, LongInternal, Half
        <5>2. RefreshAddress(bus_op, t_state') <=> RefreshAddress(bus_op, t_state)
          BY <2>2, <4>1, <5>1, Windows DEF BusOps, RefreshAddress, Half
        <5>3. ~AddressHeld(bus_op, t_state)
          BY <2>2, <4>1, <4>3 DEF AddressHeld
        <5>4. addr = CycleAddress
          BY <1>1, <2>1, <5>3 DEF AddrInv
        <5> QED BY <2>1, <3>4, <4>1, <4>3, <5>2, <5>4 DEF DriveAddress, CycleAddress
      <4> QED BY <4>2, <4>3
    <3> QED BY <2>1, <2>4, <3>1, <3>3, <3>5, <3>6, RunningSteps
  <2>5. CASE UNCHANGED vars
    BY <2>5 DEF vars
  <2> QED BY <1>1, <2>3, <2>4, <2>5
<1>2. Inv /\ Inv' /\ [Next]_vars
        => \A s \in {"MREQ", "IORQ"} : Low(s) /\ Low(s)' => addr' = addr
  BY <1>1
<1>3. Spec => []Inv
  BY RequestShapeHolds, TypeInvHolds, StrobeInvHolds, PendingInvHolds, AddrInvHolds, PTL
<1> QED BY <1>2, <1>3, PTL DEF Spec, AddressStable

-----------------------------------------------------------------------------
(***************************************************************************)
(* HALT. The pin falls in the T-state in which HALT's own fetch ends and   *)
(* the flag is set on the edge after: the pin does not move there because  *)
(* HALT is executed only where a fetch or an acknowledge ends, because an  *)
(* extended one is a response's, and because both the pin and begin_next() *)
(* ask the same samples.                                                   *)
(***************************************************************************)
FetchInv ==
  ~rst_idle =>
    /\ bus_op = "M1" /\ m_len # 4 => nmi_resp
    /\ bus_op = "INTA" /\ m_len # 6 => exec = "INT" /\ im # 0
    /\ exec = "HALT" => bus_op \in {"M1", "INTA"}

LEMMA HaltEndsWithFetch == ASSUME TypeInv, exec = "HALT" PROVE ~GoesOn /\ ~GoesOnPrefix
<1>1. Cycles(exec, disp) = <<>>
  BY TemplateNOP DEF Cycles, TypeInv, ExecType, DispClasses
<1>2. m_cycle \in 1 .. 6
  BY DEF TypeInv, RingType
<1> QED BY <1>1, <1>2 DEF GoesOn, GoesOnPrefix, MayGoOn, Prefixes

LEMMA FetchInvStep == ASSUME TypeInv, FetchInv, [Next]_vars PROVE FetchInv'
<1>1. CASE FallingEdge \/ Granted \/ WaitState
  <2>1. ~rst_idle' => ~rst_idle
    BY <1>1 DEF FallingEdge, Granted, WaitState, Running, reset
  <2>2. UNCHANGED <<bus_op, m_len, exec, im, nmi_resp>>
    BY <1>1 DEF FallingEdge, Granted, WaitState, ring, enables
  <2> QED BY <2>1, <2>2 DEF FetchInv
<1>2. CASE NextTState
  <2>1. ~rst_idle /\ UNCHANGED <<bus_op, m_len, exec, im, nmi_resp>>
    BY <1>2 DEF NextTState, Ticks, Running, NextT, enables
  <2> QED BY <2>1 DEF FetchInv
<1>3. CASE LatchM1
  <2>1. ~rst_idle /\ bus_op = "M1" /\ UNCHANGED <<bus_op, m_len, nmi_resp>>
    BY <1>3 DEF LatchM1, Ticks, Running, NextT
  <2> QED BY <2>1 DEF FetchInv
<1>4. CASE LatchINTA
  <2>1. ~rst_idle /\ bus_op = "INTA" /\ UNCHANGED <<bus_op, m_len, im>>
        /\ (im = 0 \/ exec' = exec)
    BY <1>4 DEF LatchINTA, Ticks, Running, NextT, enables
  <2> QED BY <2>1 DEF FetchInv
<1>5. CASE NextMCycle
  <2>1. GoesOn /\ exec' = exec
    BY <1>5 DEF NextMCycle, GoesOn
  <2>2. bus_op' \notin {"M1", "INTA"}
    <3>1. Cycles(exec, disp) \in Short
      BY CyclesShort DEF TypeInv, ExecType
    <3>2. Cycles(exec, disp)[m_cycle] \in GoodCycle
      BY <2>1, <3>1 DEF GoesOn, MayGoOn, TypeInv, RingType, Short
    <3> QED BY <2>1, <3>2 DEF GoesOn, StartMCycle, GoodCycle
  <2> QED BY <2>1, <2>2, HaltEndsWithFetch DEF FetchInv
<1>6. CASE NextPrefix
  <2>1. GoesOnPrefix
    BY <1>6 DEF NextPrefix
  <2>2. exec' # "HALT"
    BY <2>1 DEF GoesOnPrefix, Prefixes
  <2>3. /\ bus_op' = "M1" => m_len' = 4
        /\ bus_op' = "INTA" => m_len' = 6
    BY <2>1 DEF GoesOnPrefix, StartFetch, StartMCycle, Operand
  <2> QED BY <2>2, <2>3 DEF FetchInv
<1>7. CASE AcceptNMI
  BY <1>7 DEF AcceptNMI, StartNMI, StartFetch, FetchInv
<1>8. CASE AcceptINT
  BY <1>8 DEF AcceptINT, StartINT, StartFetch, FetchInv
<1>9. CASE HaltNOP \/ NextInstruction \/ Restart
  BY <1>9 DEF HaltNOP, NextInstruction, Restart, StartHalt, StartNext, StartFetch, FetchInv
<1>10. CASE Cut \/ ResetHold
  BY <1>10 DEF Cut, ResetHold, EnterResetIdle, FetchInv
<1>11. CASE UNCHANGED vars
  BY <1>11 DEF vars, ring, enables, nmi, reset, FetchInv
<1> QED BY <1>1, <1>2, <1>3, <1>4, <1>5, <1>6, <1>7, <1>8, <1>9, <1>10, <1>11 DEF Next

LEMMA FetchInvHolds == Spec => []FetchInv
<1>1. Init => FetchInv
  BY DEF Init, FetchInv
<1>2. TypeInv /\ FetchInv /\ [Next]_vars => FetchInv'
  BY FetchInvStep
<1> QED BY <1>1, <1>2, TypeInvHolds, PTL DEF Spec

\* The parts of HaltLow: HALT's own fetch ends; an interrupt is about to be
\* accepted.
InHaltFetch ==
  /\ exec = "HALT" /\ phi = 1
  /\ \/ bus_op = "M1"   /\ t_state = 4
     \/ bus_op = "INTA" /\ t_state = 6

LeavesHalt == t_state = m_len /\ phi = 1 /\ (nmi_sampled \/ (int_sampled /\ iff1))

LEMMA HaltLowIs ==
  HaltLow <=> (halted \/ InHaltFetch) /\ ~LeavesHalt /\ ~(Res2Now \/ SresNow)
  BY DEF HaltLow, InHaltFetch, LeavesHalt

\* RES2 and the special-reset latch are on the falling edge what the rising
\* edge after it makes them.
LEMMA LatchesSetEarly == ASSUME RisingEdge PROVE Res2Now' \/ SresNow' <=> Res2Now \/ SresNow
<1>1. phi = 1 /\ phi' = 0
  BY DEF RisingEdge
<1>2. Res2Now' <=> res2'
  BY <1>1 DEF Res2Now
<1>3. SresNow' <=> sres'
  BY <1>1 DEF SresNow
<1>4. Res2Now <=> res2'
  BY <1>1 DEF Res2Now, RisingEdge
<1>5. SresNow <=> sres'
  <2>1. phi # 0
    BY <1>1
  <2>2. sres' <=> ~Res2Now /\ (IF M1T2 THEN res_s ELSE sres)
    BY <1>4, Zenon DEF RisingEdge
  <2> QED BY <2>1, <2>2, Zenon DEF SresNow
<1> QED BY <1>2, <1>3, <1>4, <1>5

HaltFacts ==
  /\ TypeInv /\ HaltInv /\ ResponseInv /\ PendingInv /\ FetchInv
  /\ GrantBetweenMCycles

\* No fetch of HALT is longer than a fetch: T4, or an acknowledge's T6, is
\* its last T-state.
LEMMA HaltFetchEnds ==
  ASSUME HaltFacts, ~rst_idle, exec = "HALT"
  PROVE  (bus_op = "M1" /\ m_len = 4) \/ (bus_op = "INTA" /\ m_len = 6)
  BY DEF HaltFacts, FetchInv, ResponseInv

LEMMA HaltFlagFollows ==
  ASSUME HaltFacts, Next, RisingEdge, ~rst_idle, ~rst_idle'
  PROVE  halted' <=> (halted \/ InHaltFetch) /\ ~LeavesHalt
<1>1. phi = 1 /\ phi' = 0 /\ t_state \in Int /\ halted \in BOOLEAN
  BY DEF RisingEdge, HaltFacts, TypeInv, RingType, EnablesType
<1>2. exec = "HALT" => m_len \in {4, 6} /\ (InHaltFetch <=> t_state = m_len)
  BY <1>1, HaltFetchEnds DEF InHaltFetch
<1>3. halted => bus_op = "M1" /\ m_len = 4 /\ exec = "NOP"
  BY DEF HaltFacts, HaltInv
<1>4. CASE Granted \/ WaitState
  <2>1. halted' = halted
    BY <1>4 DEF Granted, WaitState, enables
  <2>2. CASE Granted
    <3>1. t_state = 1
      BY <2>2 DEF Granted, HaltFacts, GrantBetweenMCycles
    <3> QED BY <1>2, <1>3, <2>1, <3>1 DEF InHaltFetch, LeavesHalt
  <2>3. CASE WaitState
    <3>1. WaitSample(bus_op, t_state, 1)
      BY <2>3 DEF WaitState, HaltFacts, PendingInv
    <3> QED BY <1>3, <2>1, <3>1 DEF WaitSample, InHaltFetch, LeavesHalt
  <2> QED BY <1>4, <2>2, <2>3
<1>5. CASE NextTState \/ LatchM1 \/ LatchINTA
  <2>1. halted' = halted /\ t_state < m_len
    BY <1>5 DEF NextTState, LatchM1, LatchINTA, NextT, enables
  <2> QED BY <1>1, <1>2, <2>1 DEF InHaltFetch, LeavesHalt
<1>6. CASE NextMCycle \/ NextPrefix
  <2>1. halted' = halted /\ (GoesOn \/ GoesOnPrefix)
    BY <1>6 DEF NextMCycle, NextPrefix, enables
  <2>2. ~halted
    BY <2>1, HaltGoesNowhere DEF HaltFacts
  <2>3. exec # "HALT"
    BY <2>1, HaltEndsWithFetch DEF HaltFacts
  <2> QED BY <2>1, <2>2, <2>3 DEF InHaltFetch
<1>7. CASE AcceptNMI
  <2>1. halted' = FALSE /\ nmi_sampled /\ t_state = m_len
    BY <1>7 DEF AcceptNMI, StartNMI, TakesNMI, Finishes, EndsMCycle
  <2> QED BY <1>1, <2>1 DEF LeavesHalt
<1>8. exec \in {"NOP", "HALT"} => ~EiDelay /\ Iff1After = iff1
  BY Zenon DEF EiDelay, Iff1After
<1>9. CASE AcceptINT
  <2>1. halted' = FALSE /\ TakesINT /\ t_state = m_len
    BY <1>9 DEF AcceptINT, StartINT, Finishes, EndsMCycle
  <2>2. halted \/ InHaltFetch => LeavesHalt
    BY <1>1, <1>3, <1>8, <2>1 DEF TakesINT, LeavesHalt, InHaltFetch
  <2> QED BY <2>1, <2>2
<1>10. CASE HaltNOP
  <2>1. halted' = TRUE /\ ~TakesNMI /\ ~TakesINT /\ HaltAfter /\ t_state = m_len
    BY <1>10 DEF HaltNOP, StartHalt, Finishes, EndsMCycle
  <2>2. halted \/ exec = "HALT"
    BY <2>1 DEF HaltAfter
  <2>3. ~LeavesHalt
    BY <1>3, <1>8, <2>1, <2>2 DEF TakesNMI, TakesINT, LeavesHalt
  <2> QED BY <1>2, <2>1, <2>2, <2>3
<1>11. CASE NextInstruction
  <2>1. halted' = FALSE /\ ~HaltAfter
    BY <1>11 DEF NextInstruction, StartNext
  <2> QED BY <2>1 DEF HaltAfter, InHaltFetch
<1>12. ~FallingEdge /\ ~Cut /\ ~ResetHold /\ ~Restart
  <2>1. ~FallingEdge
    BY <1>1 DEF FallingEdge
  <2>2. ~Cut /\ ~ResetHold /\ ~Restart
    BY DEF Cut, ResetHold, EnterResetIdle, Restart
  <2> QED BY <2>1, <2>2
<1> QED BY <1>4, <1>5, <1>6, <1>7, <1>9, <1>10, <1>11, <1>12 DEF Next

\* HALT moves on falling edges alone, and up only where begin_next() is about
\* to accept an interrupt or a RESET sets its latches: a sample that finds
\* one pending as HALT itself ends keeps the pin from ever going down.
THEOREM HaltPinSafe == Spec => HaltChangesAtBoundary
<1>1. ASSUME HaltFacts, [Next]_vars, ~rst_idle, ~rst_idle'
      PROVE  /\ HaltLow' # HaltLow => phi' = 1
             /\ (HaltLow /\ ~HaltLow') =>
                  \/ t_state = m_len /\ (nmi_sampled \/ (int_sampled /\ iff1))
                  \/ Res2Now' \/ SresNow'
  <2>1. CASE FallingEdge
    <3>1. /\ phi = 0 /\ phi' = 1
          /\ UNCHANGED <<t_state, m_len, halted, iff1, nmi_sampled, int_sampled>>
      BY <2>1 DEF FallingEdge, ring, enables, samples
    <3>2. HaltLow /\ ~HaltLow' => LeavesHalt' \/ Res2Now' \/ SresNow'
      <4>1. HaltLow => halted
        BY <3>1, HaltLowIs DEF InHaltFetch
      <4> QED BY <3>1, <4>1 DEF HaltLow, LeavesHalt
    <3> QED BY <3>1, <3>2 DEF LeavesHalt
  <2>2. CASE RisingEdge /\ Next
    <3>1. halted' <=> (halted \/ InHaltFetch) /\ ~LeavesHalt
      BY <1>1, <2>2, HaltFlagFollows
    <3>2. phi' = 0
      BY <2>2 DEF RisingEdge
    <3>3. HaltLow' <=> halted' /\ ~(Res2Now \/ SresNow)
      <4>1. HaltLow' <=> halted' /\ ~(Res2Now' \/ SresNow')
        BY <3>2 DEF HaltLow
      <4> QED BY <2>2, <4>1, LatchesSetEarly
    <3>4. HaltLow' <=> HaltLow
      BY <3>1, <3>3, HaltLowIs
    <3> QED BY <3>4 DEF HaltLow
  <2>3. CASE UNCHANGED vars
    <3>1. HaltLow' <=> HaltLow
      BY <2>3 DEF vars, ring, enables, samples, reset, waits, HaltLow, Res2Now, SresNow, M1T2
    <3> QED BY <3>1 DEF HaltLow
  <2>4. ~FallingEdge /\ Next => RisingEdge
    BY <1>1, RunningSteps
  <2> QED BY <1>1, <2>1, <2>2, <2>3, <2>4
<1>2. HaltFacts /\ [Next]_vars =>
        (~rst_idle /\ ~rst_idle' =>
           /\ HaltLow' # HaltLow => phi' = 1
           /\ (HaltLow /\ ~HaltLow') =>
                \/ t_state = m_len /\ (nmi_sampled \/ (int_sampled /\ iff1))
                \/ Res2Now' \/ SresNow')
  BY <1>1
<1>3. Spec => []HaltFacts
  BY TypeInvHolds, HaltInvHolds, ResponseInvHolds, PendingInvHolds, FetchInvHolds, GrantSafe,
     PTL DEF HaltFacts
<1> QED BY <1>2, <1>3, PTL DEF Spec, HaltChangesAtBoundary
=============================================================================
