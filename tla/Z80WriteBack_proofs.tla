------------------------- MODULE Z80WriteBack_proofs -------------------------
(***************************************************************************)
(* Proofs about the register writes: what an M1 that begins owes F and Q,  *)
(* that an instruction makes every write it owes once and those of a       *)
(* register in the die's order, and what a RESET cut leaves of them.       *)
(*                                                                         *)
(* The last two rest on three invariants besides the phase engine's:       *)
(*   OwnerInv   whose writes are under way: those of the instruction under *)
(*              way, or those the one before left to the M1 under way;     *)
(*   ShapeInv   an M-cycle has its instruction's bus cycle and length;     *)
(*   MadeInv    the writes made so far are the owner's whose T-state       *)
(*              has passed, in order.                                      *)
(* They meet the tables of writes in one fact, Rows: where in its M-cycle  *)
(* a class's writes stand.                                                 *)
(***************************************************************************)
EXTENDS Z80WriteBack, Z80Pins_proofs, SequenceTheorems

LEMMA WbNextIsNext == ASSUME [WbNext]_allvars PROVE [Next]_vars
  BY DEF WbNext, InMCycle, ToNextMCycle, AfterPrefix, AtInstructionEnd, CutShort, Restarts,
         Next, allvars

\* The write-back takes only steps of the phase engine: its invariants hold
\* here too (the writes are made inside z80_phase_step()'s own steps).
THEOREM WriteBackKeepsCore == WbSpec => Spec
<1>1. WbInit => Init
  BY DEF WbInit
<1>2. [WbNext]_allvars => [Next]_vars
  BY WbNextIsNext
<1> QED BY <1>1, <1>2, PTL DEF WbSpec, Spec

-----------------------------------------------------------------------------
(***************************************************************************)
(* Q against the flag latches. From the T1 that takes the flags owed to    *)
(* the T3 that writes them the latches say what Q has to be; before that   *)
(* T1 what is owed says it, and outside that stretch they hold none. The   *)
(* reset idle keeps the two in step for the restart's M1.                  *)
(***************************************************************************)
Latched == IF armed THEN "F" ELSE "0"

OweFlags == {"ALU", "F1", "F16"}

Fetching == bus_op \in {"M1", "INTA"} /\ t_state <= (IF bus_op = "INTA" THEN 4 ELSE 3)

OwedInv ==
  wbp # {} =>
    /\ t_state = 1 => ~armed
    /\ t_state = 2 => "F1" \notin wbp /\ (armed <=> "F" \in results)
    /\ wbp \cap OweFlags = {} => q = "0" /\ "F" \notin results
    /\ wbp \cap {"F1", "F16"} # {} => "F" \in results

QInv ==
  /\ armed \in BOOLEAN
  /\ rst_idle => wbp = {} /\ q = Latched
  /\ ~rst_idle /\ armed => ~bus_granted /\ Fetching
  /\ ~rst_idle /\ wbp = {} /\ Fetching => q = Latched
  /\ OwedInv
  /\ q = "stale" => ~rst_idle /\ exec = "POP" /\ m_cycle = 3

LEMMA DeferredOne == \A ex, m : \A a, b \in Deferred(ex, m) : a = b
  BY DEF Deferred

\* One instruction leaves one kind of writes.
LEMMA OneKind ==
  ASSUME PendingInv, NEW a \in wbp \ {"DEC"}, NEW b \in wbp \ {"DEC"}
  PROVE  a = b
<1>1. PICK m \in 1 .. 5 : wbp \ {"DEC"} \subseteq Deferred(PendingOwner, m)
  BY DEF PendingInv
<1> QED BY <1>1, DeferredOne

LEMMA NothingFires == ASSUME wbp = {} PROVE QFired = q
  BY DEF QFired, FiresF16

\* Where QFired reads the pending writes, it leaves Q as the latches are.
LEMMA FiredIsLatched ==
  ASSUME PendingInv, QInv, ~rst_idle, bus_op \in {"M1", "INTA"}, t_state = 2, ~bus_granted
  PROVE  QFired = Latched
<1>1. CASE wbp = {}
  BY <1>1, NothingFires DEF QInv, Fetching
<1>2. CASE wbp # {}
  <2>1. Fires /\ (armed <=> "F" \in results)
    BY <1>2 DEF Fires, PendingInv, QInv, OwedInv
  <2>2. CASE "ALU" \in wbp
    <3>1. "F16" \notin wbp
      BY <2>2, OneKind
    <3> QED BY <2>1, <2>2, <3>1 DEF QFired, FiresF16, Latched
  <2>3. CASE "ALU" \notin wbp /\ "F16" \in wbp
    <3>1. "F" \in results
      BY <2>3 DEF QInv, OwedInv
    <3> QED BY <2>1, <2>3, <3>1 DEF QFired, FiresF16, Latched
  <2>4. CASE "ALU" \notin wbp /\ "F16" \notin wbp
    <3>1. "F1" \notin wbp
      BY <1>2 DEF QInv, OwedInv
    <3>2. q = "0" /\ ~armed
      BY <1>2, <2>1, <2>4, <3>1 DEF QInv, OwedInv, OweFlags
    <3>3. QFired = q
      BY <2>4, <3>1 DEF QFired, FiresF16
    <3> QED BY <3>2, <3>3 DEF Latched
  <2> QED BY <2>2, <2>3, <2>4
<1> QED BY <1>1, <1>2

\* The latches: they take in T1 what is owed, and keep it through T2.
LEMMA LatchesTake ==
  ASSUME bus_op \in {"M1", "INTA"}, ~bus_granted, ~stalled, t_state \in {1, 2}
  PROVE  Taken <=> (armed \/ (t_state = 1 /\ "F" \in results /\ wbp # {}))
<1>1. ~(t_state = IF bus_op = "M1" THEN 3 ELSE 4)
  OBVIOUS
<1> QED BY <1>1, Zenon DEF Taken

LEMMA LatchesIdle ==
  ASSUME bus_op \notin {"M1", "INTA"} \/ bus_granted \/ stalled
  PROVE  Taken = armed
  BY Zenon DEF Taken

LEMMA PopEnds == ASSUME TypeInv, exec = "POP", m_cycle = 3 PROVE ~GoesOn
<1>1. Cycles(exec, disp) = <<Read, Read>>
  BY TemplatePOP DEF Cycles, TypeInv, ExecType, DispClasses
<1> QED BY <1>1 DEF GoesOn, MayGoOn

\* What the fetch's T1 lands, and what it leaves to T2: one or the other.
LEMMA FirstLanding ==
  ASSUME PendingInv, QInv, ~rst_idle, ~res2, bus_op \in {"M1", "INTA"}, t_state = 1,
         ~bus_granted, ~stalled, LandWrites, q' = QFired, armed' = Taken
  PROVE  /\ wbp' = {} => q' = Latched'
         /\ wbp' # {} =>
              /\ wbp' \ {"DEC"} = wbp \ {"DEC"} /\ "F1" \notin wbp'
              /\ q' = q /\ (armed' <=> "F" \in results)
<1>1. CASE wbp = {}
  <2>1. wbp' = {} /\ q' = q
    BY <1>1, NothingFires DEF LandWrites, pending
  <2>3. armed' <=> armed
    BY <1>1, LatchesTake
  <2>2. q = Latched
    BY <1>1 DEF QInv, Fetching
  <2> QED BY <2>1, <2>2, <2>3 DEF Latched
<1>2. CASE wbp # {}
  <2>1. Fires
    BY DEF Fires
  <2>2. armed' <=> "F" \in results
    BY <1>2, LatchesTake DEF QInv, OwedInv
  <2>3. CASE "F1" \in wbp
    <3>1. wbp' = {}
      <4>1. \A b \in wbp \ {"DEC"} : b = "F1"
        BY <2>3, OneKind
      <4> QED BY <1>2, <4>1 DEF LandWrites
    <3>2. "EXAF" \notin wbp /\ "ALU" \notin wbp /\ "F16" \notin wbp
      BY <2>3, OneKind
    <3>3. q' = "F"
      BY <2>1, <2>3, <3>2 DEF QFired, FiresF16
    <3>4. armed'
      BY <2>2, <2>3 DEF QInv, OwedInv
    <3> QED BY <3>1, <3>3, <3>4 DEF Latched
  <2>4. CASE "F1" \notin wbp
    <3>1. "EXAF" \in wbp => q # "F"
      <4>1. "EXAF" \in wbp => wbp \cap OweFlags = {}
        BY OneKind DEF OweFlags
      <4> QED BY <1>2, <4>1 DEF QInv, OwedInv
    <3>2. q' = q
      BY <2>4, <3>1 DEF QFired, FiresF16
    <3>3. CASE wbp' = {}
      <4>1. wbp \cap OweFlags = {}
        BY <1>2, <2>4, <3>3 DEF LandWrites, OweFlags, pending
      <4> QED BY <1>2, <2>2, <3>2, <3>3, <4>1 DEF QInv, OwedInv, Latched
    <3>4. CASE wbp' # {}
      <4>1. wbp' = wbp \ {"F1", "EXAF"} /\ wbp' \ {"DEC"} # {}
        BY <1>2, <3>4 DEF LandWrites
      <4>2. PICK k \in wbp' \ {"DEC"} : TRUE
        BY <4>1
      <4>3. \A b \in wbp \ {"DEC"} : b = k
        BY <4>1, <4>2, OneKind
      <4> QED BY <2>2, <3>2, <3>4, <4>1, <4>2, <4>3
    <3> QED BY <3>3, <3>4
  <2> QED BY <2>3, <2>4
<1> QED BY <1>1, <1>2

\* Once nothing is pending the latches take no more, and clear where T3
\* writes them.
LEMMA LatchesKeep ==
  ASSUME wbp = {}, bus_op \in {"M1", "INTA"}, ~bus_granted, ~stalled
  PROVE  Taken <=> (armed /\ t_state # (IF bus_op = "M1" THEN 3 ELSE 4))
  BY Zenon DEF Taken

\* What a step within an M-cycle leaves as it was.
LEMMA InMCycleIs ==
  ASSUME InMCycle
  PROVE  /\ ~rst_idle /\ ~res2 /\ ~rst_idle' /\ ~bus_granted /\ ~bus_granted'
         /\ bus_op' = bus_op /\ m_cycle' = m_cycle
         /\ LandWrites /\ q' = QFired /\ armed' = Taken
         /\ (Changes \/ results' = results)
         /\ \/ stalled /\ exec' = exec /\ t_state' = t_state
            \/ ~stalled /\ t_state' = t_state + 1
               /\ (exec' = exec \/ OpcodeLatch(bus_op, t_state + 1, 0))
<1>1. LandWrites /\ q' = QFired /\ armed' = Taken /\ (Changes \/ results' = results)
  BY DEF InMCycle, NextTState, LatchM1, LatchINTA, WaitState
<1>2. ~rst_idle /\ ~res2 /\ rst_idle' = FALSE /\ ~bus_granted /\ bus_granted' = bus_granted
  BY DEF InMCycle, NextTState, LatchM1, LatchINTA, WaitState, Running, Ticks
<1>3. ~rst_idle' /\ ~bus_granted'
  BY <1>2, Zenon
<1>4. CASE WaitState
  <2>1. stalled /\ exec' = exec /\ t_state' = t_state /\ bus_op' = bus_op /\ m_cycle' = m_cycle
    BY <1>4 DEF WaitState, ring
  <2> QED BY <1>1, <1>2, <1>3, <2>1
<1>5. CASE NextTState \/ LatchM1 \/ LatchINTA
  <2>1. ~stalled /\ NextT
    BY <1>5 DEF NextTState, LatchM1, LatchINTA, Ticks
  <2>2. exec' = exec \/ OpcodeLatch(bus_op, t_state + 1, 0)
    BY <1>5 DEF NextTState, LatchM1, LatchINTA
  <2> QED BY <1>1, <1>2, <1>3, <2>1, <2>2 DEF NextT
<1> QED BY <1>4, <1>5 DEF InMCycle

\* Outside T1 and T2 of a fetch nothing is pending, and no latch is taken.
LEMMA LaterInMCycle ==
  ASSUME TypeInv, PendingInv, QInv, InMCycle, wbp = {}
  PROVE  QInv'
<1>1. wbp' = {} /\ q' = q
  BY InMCycleIs, NothingFires DEF LandWrites, pending
<1>2. /\ ~rst_idle /\ ~rst_idle' /\ bus_op' = bus_op /\ m_cycle' = m_cycle
      /\ ~bus_granted /\ ~bus_granted' /\ t_state \in Nat
  <2>1. t_state \in Nat
    BY DEF TypeInv, RingType
  <2> QED BY <2>1, InMCycleIs
<1>3. q = "stale" => exec' = exec
  <2>1. ASSUME q = "stale", exec' # exec PROVE FALSE
    <3>1. OpcodeLatch(bus_op, t_state + 1, 0)
      BY <2>1, InMCycleIs
    <3>2. Fetching
      BY <1>2, <3>1 DEF OpcodeLatch, Fetching
    <3> QED BY <1>2, <2>1, <3>2 DEF QInv, Latched
  <2> QED BY <2>1
<1>4. CASE stalled
  <2>1. armed' = armed /\ t_state' = t_state
    BY <1>4, InMCycleIs, LatchesIdle
  <2> QED BY <1>1, <1>2, <1>3, <2>1 DEF QInv, OwedInv, Fetching, Latched
<1>5. CASE ~stalled /\ bus_op \notin {"M1", "INTA"}
  <2>1. armed' = armed
    BY <1>5, InMCycleIs, LatchesIdle
  <2>2. ~Fetching /\ ~Fetching'
    BY <1>2, <1>5 DEF Fetching
  <2> QED BY <1>1, <1>2, <1>3, <2>1, <2>2 DEF QInv, OwedInv
<1>6. CASE ~stalled /\ bus_op \in {"M1", "INTA"}
  <2>1. t_state' = t_state + 1 /\ (armed' <=> (armed /\ t_state # (IF bus_op = "M1" THEN 3 ELSE 4)))
    BY <1>6, InMCycleIs, LatchesKeep
  <2>2. armed' \in BOOLEAN
    BY InMCycleIs DEF Taken, QInv
  <2>3. Fetching' => Fetching /\ t_state # (IF bus_op = "M1" THEN 3 ELSE 4)
    BY <1>2, <1>6, <2>1 DEF Fetching
  <2>4. Fetching /\ t_state # (IF bus_op = "M1" THEN 3 ELSE 4) => Fetching'
    BY <1>2, <1>6, <2>1 DEF Fetching
  <2>5. armed' => Fetching'
    BY <1>2, <2>1, <2>4 DEF QInv
  <2>6. Fetching' => q' = Latched'
    BY <1>1, <1>2, <2>1, <2>3 DEF QInv, Latched
  <2> QED BY <1>1, <1>2, <1>3, <2>2, <2>5, <2>6 DEF QInv, OwedInv
<1> QED BY <1>4, <1>5, <1>6

LEMMA InMCycleStep ==
  ASSUME TypeInv, PendingInv, QInv, InMCycle
  PROVE  QInv'
<1> SUFFICES ASSUME wbp # {} PROVE QInv'
  BY LaterInMCycle
<1>1. /\ bus_op \in {"M1", "INTA"} /\ t_state \in {1, 2} /\ m_cycle = 1 /\ ~in_tw
      /\ ~rst_idle /\ ~rst_idle' /\ ~bus_granted /\ ~bus_granted'
      /\ bus_op' = bus_op /\ results' = results
  <2>1. /\ bus_op \in {"M1", "INTA"} /\ t_state \in {1, 2} /\ m_cycle = 1 /\ ~in_tw
    BY DEF PendingInv, TypeInv, RingType
  <2>2. ~Changes
    BY <2>1 DEF Changes
  <2> QED BY <2>1, <2>2, InMCycleIs
<1>2. armed' \in BOOLEAN
  BY InMCycleIs DEF Taken, QInv
<1>3. CASE t_state = 2
  <2>1. wbp' = {} /\ q' = Latched
    BY <1>1, <1>3, InMCycleIs, FiredIsLatched DEF LandWrites
  <2>2. armed' <=> armed
    <3>1. CASE stalled
      BY <3>1, InMCycleIs, LatchesIdle
    <3>2. CASE ~stalled
      BY <1>1, <1>3, <3>2, InMCycleIs, LatchesTake
    <3> QED BY <3>1, <3>2
  <2>3. Fetching'
    BY <1>1, <1>3, InMCycleIs DEF Fetching
  <2> QED BY <1>1, <1>2, <2>1, <2>2, <2>3 DEF QInv, OwedInv, Latched
<1>4. CASE t_state = 1
  <2>1. ~stalled /\ t_state' = 2 /\ exec' = exec
    BY <1>1, <1>4, InMCycleIs DEF PendingInv, WaitSample, OpcodeLatch
  <2>2. Fetching'
    BY <1>1, <2>1 DEF Fetching
  <2>3. CASE wbp' = {}
    <3>1. q' = Latched'
      BY <1>1, <1>4, <2>1, <2>3, InMCycleIs, FirstLanding
    <3> QED BY <1>1, <1>2, <2>2, <2>3, <3>1 DEF QInv, OwedInv, Latched
  <2>4. CASE wbp' # {}
    <3>1. /\ wbp' \ {"DEC"} = wbp \ {"DEC"} /\ "F1" \notin wbp'
          /\ q' = q /\ (armed' <=> "F" \in results)
      BY <1>1, <1>4, <2>1, <2>4, InMCycleIs, FirstLanding
    <3>2. OwedInv'
      BY <1>1, <2>1, <3>1 DEF QInv, OwedInv, OweFlags
    <3>3. q' = "stale" => exec' = "POP" /\ m_cycle' = 3
      BY <2>1, <3>1, InMCycleIs DEF QInv
    <3> QED BY <1>1, <1>2, <2>2, <2>4, <3>2, <3>3 DEF QInv
  <2> QED BY <2>3, <2>4
<1> QED BY <1>1, <1>3, <1>4

\* A cut leaves in Q what the latches still hold, and clears it where they
\* hold nothing.
LEMMA CutQ ==
  ASSUME TypeInv, PendingInv, QInv, ~rst_idle
  PROVE  (IF KeepQ THEN QFired ELSE "0") = Latched
<1>1. CASE KeepQ
  <2>1. bus_op \in {"M1", "INTA"} /\ ~bus_granted
    BY <1>1 DEF KeepQ
  <2>2. CASE t_state = 2
    BY <1>1, <2>1, <2>2, FiredIsLatched
  <2>3. CASE t_state # 2
    <3>1. wbp = {} /\ Fetching
      BY <1>1, <2>1, <2>3 DEF KeepQ, PendingInv, Fetching, TypeInv, RingType
    <3> QED BY <1>1, <3>1, NothingFires DEF QInv
  <2> QED BY <2>2, <2>3
<1>2. CASE ~KeepQ
  <2>1. ASSUME armed PROVE FALSE
    <3>1. ~bus_granted /\ Fetching
      BY <2>1 DEF QInv
    <3>2. t_state = 1 /\ wbp # {}
      BY <1>2, <3>1 DEF KeepQ, Fetching, TypeInv, RingType
    <3> QED BY <2>1, <3>2 DEF QInv, OwedInv
  <2> QED BY <1>2, <2>1 DEF Latched
<1> QED BY <1>1, <1>2

\* Flags left to the next M1 are those of a class that leaves such writes,
\* and the adder's flags are no register's.
LEMMA FlagResults ==
  ASSUME NEW ex, NEW m, NEW r \in Results(ex, m)
  PROVE  /\ "F" \in r => ex \in AluClasses \cup {"LDI", "CPI", "INI", "OUTI"}
         /\ ex \in {"CPI", "INI", "OUTI"} => r = {"F"}
<1>1. ex \in {"CPI", "INI", "OUTI"} => r = {"F"}
  BY DEF Results
<1>2. "F" \in r => ex \in AluClasses \cup {"LDI", "CPI", "INI", "OUTI"}
  BY DEF Results, AluClasses
<1> QED BY <1>1, <1>2

LEMMA OwedAtEnd ==
  ASSUME NEW r,
         r \in IF "F16" \in Deferred(exec, m_cycle) THEN {{"F"}} ELSE Results(exec, m_cycle)
  PROVE  /\ Deferred(exec, m_cycle) \cap OweFlags = {}
              => "F" \notin r /\ QLeft(Deferred(exec, m_cycle)) = "0"
         /\ Deferred(exec, m_cycle) \cap {"F1", "F16"} # {} => "F" \in r
         /\ exec = "POP" => QLeft(Deferred(exec, m_cycle)) = "0"
<1> DEFINE D == Deferred(exec, m_cycle)
<1>1. "F1" \in D => exec \in {"CPI", "INI", "OUTI"}
  BY DEF Deferred, AluClasses
<1>2. exec \in AluClasses \cup {"LDI", "CPI", "INI", "OUTI"} => D \cap OweFlags # {}
  BY DEF Deferred, AluClasses, OweFlags
<1>3. exec = "POP" => D = {}
  BY DEF Deferred, AluClasses
<1>4. D \cap OweFlags = {} => QLeft(D) = "0"
  BY DEF QLeft, OweFlags
<1>5. CASE "F16" \in D
  BY <1>3, <1>5 DEF OweFlags
<1>6. CASE "F16" \notin D
  <2>1. r \in Results(exec, m_cycle)
    BY <1>6
  <2> QED BY <1>1, <1>2, <1>3, <1>4, <1>6, <2>1, FlagResults
<1> QED BY <1>5, <1>6

\* The latches are done with before an M-cycle ends.
LEMMA LatchesDone == ASSUME TypeInv, QInv, ~rst_idle, EndsMCycle PROVE ~armed
  BY DEF QInv, Fetching, EndsMCycle, TypeInv, RingType

LEMMA AtInstructionEndStep ==
  ASSUME TypeInv, PendingInv, QInv, AtInstructionEnd
  PROVE  QInv'
<1> DEFINE D == Deferred(exec, m_cycle)
<1>1. \E replaced \in BOOLEAN : EndInstruction(replaced)
  BY DEF AtInstructionEnd, AcceptNMI, AcceptINT, HaltNOP, NextInstruction
<1>2. ~rst_idle /\ ~rst_idle'
  BY <1>1 DEF EndInstruction, Ticks, Running
<1>3. EndsMCycle /\ t_state' = 1
  BY DEF AtInstructionEnd, AcceptNMI, AcceptINT, HaltNOP, NextInstruction, StartNMI, StartINT,
         StartHalt, StartNext, StartFetch, Finishes
<1>4. ~armed /\ armed' = armed
  BY <1>2, <1>3, LatchesDone DEF AtInstructionEnd
<1>5. Left = D /\ "DEC" \notin D
  BY <1>3, NothingAtEnd, DeferredType DEF Left
<1>6. wbp' \ {"DEC"} = D /\ (wbp' = {} => D = {})
  BY <1>1, <1>5 DEF EndInstruction
<1>7. q' = QLeft(D)
  BY DEF AtInstructionEnd
<1>8. /\ D \cap OweFlags = {} => "F" \notin results' /\ q' = "0"
      /\ D \cap {"F1", "F16"} # {} => "F" \in results'
      /\ exec = "POP" => q' = "0"
  BY <1>7, OwedAtEnd DEF AtInstructionEnd
<1>9. q' # "stale"
  BY <1>2, <1>7, <1>8 DEF QInv, QLeft
<1>10. wbp' = {} => q' = "0"
  BY <1>6, <1>8
<1>11. OwedInv'
  BY <1>3, <1>4, <1>6, <1>8 DEF OwedInv, OweFlags
<1>12. ~armed' /\ armed' \in BOOLEAN
  BY <1>4 DEF QInv
<1> QED BY <1>2, <1>9, <1>10, <1>11, <1>12 DEF QInv, Latched

LEMMA NextCycleStep ==
  ASSUME TypeInv, PendingInv, QInv, [WbNext]_allvars, ToNextMCycle \/ AfterPrefix
  PROVE  QInv'
<1>1. EndsMCycle /\ ~rst_idle /\ ~rst_idle'
  BY DEF ToNextMCycle, AfterPrefix, NextMCycle, NextPrefix, GoesOn, GoesOnPrefix, Ticks, Running
<1>2. wbp' = {}
  BY <1>1, NothingAtEnd DEF ToNextMCycle, AfterPrefix, NextMCycle, NextPrefix, pending
<1>3. ~armed /\ armed' = armed
  BY <1>1, LatchesDone DEF ToNextMCycle, AfterPrefix
<1>4. ~armed' /\ armed' \in BOOLEAN
  BY <1>3 DEF QInv
<1>5. CASE AfterPrefix
  <2>1. q' = "0"
    BY <1>5 DEF AfterPrefix
  <2> QED BY <1>1, <1>2, <1>4, <2>1 DEF QInv, OwedInv, Latched
<1>6. CASE ToNextMCycle
  <2>1. exec' = exec /\ m_cycle' = m_cycle + 1 /\ GoesOn
    BY <1>6 DEF ToNextMCycle, NextMCycle, GoesOn, StartMCycle
  <2>2. ~Fetching'
    <3>1. RingType'
      BY WbNextIsNext, RingTypeStep
    <3> QED BY <2>1, <3>1 DEF Fetching, RingType, TypeInv
  <2>3. q' = "stale" => exec' = "POP" /\ m_cycle' = 3
    <3>1. q # "stale"
      BY <1>1, <2>1, PopEnds DEF QInv
    <3> QED BY <1>6, <2>1, <3>1 DEF ToNextMCycle, PopsF
  <2> QED BY <1>1, <1>2, <1>4, <2>2, <2>3 DEF QInv, OwedInv
<1> QED BY <1>5, <1>6

LEMMA CutLeavesQ ==
  ASSUME TypeInv, PendingInv, QInv, CutShort
  PROVE  q' = Latched /\ armed' = armed /\ rst_idle' /\ wbp' = {}
<1>1. ~rst_idle
  BY DEF CutShort, Cut
<1> QED BY <1>1, CutQ DEF CutShort, Cut, EnterResetIdle

LEMMA QInvStep ==
  ASSUME TypeInv, PendingInv, GrantBetweenMCycles, QInv, [WbNext]_allvars
  PROVE  QInv'
<1>1. CASE InMCycle
  BY <1>1, InMCycleStep
<1>2. CASE ToNextMCycle \/ AfterPrefix
  BY <1>2, NextCycleStep
<1>3. CASE AtInstructionEnd
  BY <1>3, AtInstructionEndStep
<1>4. CASE CutShort
  <2>1. q' \in {"F", "0"} /\ q' = Latched'
    BY <1>4, CutLeavesQ DEF Latched
  <2> QED BY <1>4, <2>1, CutLeavesQ DEF QInv, OwedInv
<1>5. CASE Restarts
  <2>1. /\ rst_idle /\ ~rst_idle' /\ UNCHANGED <<wbp, q, armed, bus_granted>>
        /\ bus_op' = "M1" /\ t_state' = 1
    BY <1>5 DEF Restarts, Restart, StartFetch, pending
  <2>2. wbp = {} /\ q = Latched /\ ~bus_granted
    BY <2>1 DEF QInv, GrantBetweenMCycles
  <2>3. Fetching'
    BY <2>1 DEF Fetching
  <2> QED BY <2>1, <2>2, <2>3 DEF QInv, OwedInv, Latched
<1>6. CASE FallingEdge /\ UNCHANGED wbvars
  BY <1>6 DEF FallingEdge, ring, pending, grant, reset, wbvars, QInv, OwedInv, Fetching, Latched
<1>7. CASE Granted /\ UNCHANGED wbvars
  <2>1. ~rst_idle /\ ~rst_idle' /\ bus_granted /\ UNCHANGED <<ring, pending, wbvars>>
    BY <1>7 DEF Granted, Running
  <2> QED BY <2>1 DEF ring, pending, wbvars, QInv, OwedInv, Fetching, Latched
<1>8. CASE ResetHold /\ UNCHANGED wbvars
  BY <1>8 DEF ResetHold, EnterResetIdle, wbvars, QInv, OwedInv, Latched
<1>9. CASE UNCHANGED allvars
  BY <1>9 DEF allvars, vars, ring, pending, grant, reset, wbvars, QInv, OwedInv, Fetching,
              Latched
<1> QED BY <1>1, <1>2, <1>3, <1>4, <1>5, <1>6, <1>7, <1>8, <1>9 DEF WbNext

LEMMA QInvHolds == WbSpec => []QInv
<1>1. WbInit => QInv
  BY DEF WbInit, Init, QInv, OwedInv, Latched
<1>2. TypeInv /\ PendingInv /\ GrantBetweenMCycles /\ QInv /\ [WbNext]_allvars => QInv'
  BY QInvStep
<1> QED BY <1>1, <1>2, WriteBackKeepsCore, TypeInvHolds, PendingInvHolds, GrantSafe, PTL
        DEF WbSpec

\* As an opcode is decoded Q is F if flags of the instruction before are on
\* their way into it, and 0 if not: SCF and CCF read that Q.
THEOREM QSafe == WbSpec => []QFollowsFlags
<1>1. ASSUME PendingInv, QInv, ~rst_idle
      PROVE  /\ t_state = 3 /\ bus_op \in {"M1", "INTA"} => q = IF armed THEN "F" ELSE "0"
             /\ q = "stale" => exec = "POP" /\ m_cycle = 3
  <2>1. q = "stale" => exec = "POP" /\ m_cycle = 3
    BY <1>1 DEF QInv
  <2>2. ASSUME t_state = 3, bus_op \in {"M1", "INTA"} PROVE q = Latched
    BY <1>1, <2>2 DEF QInv, PendingInv, Fetching
  <2> QED BY <2>1, <2>2 DEF Latched
<1>2. PendingInv /\ QInv => QFollowsFlags
  BY <1>1 DEF QFollowsFlags
<1> QED BY <1>2, QInvHolds, WriteBackKeepsCore, PendingInvHolds, PTL

\* The RESET cut leaves in Q what the latches will still write into F in the
\* restart's M1 (keep_q), and 0 where they hold nothing.
THEOREM QCutSafe == WbSpec => QAfterCut
<1>1. ASSUME TypeInv, PendingInv, QInv, [WbNext]_allvars
      PROVE  [CutNow => q' = IF armed THEN "F" ELSE "0"]_allvars
  <2> SUFFICES ASSUME CutNow, WbNext PROVE q' = IF armed THEN "F" ELSE "0"
    BY <1>1
  <2>1. CutShort
    BY DEF WbNext, CutNow, InMCycle, ToNextMCycle, AfterPrefix, AtInstructionEnd, Restarts,
           FallingEdge, Granted, ResetHold, NextTState, LatchM1, LatchINTA, WaitState, NextMCycle,
           NextPrefix, AcceptNMI, AcceptINT, HaltNOP, NextInstruction, EndInstruction, Restart,
           Ticks, Running
  <2> QED BY <1>1, <2>1, CutLeavesQ DEF Latched
<1> QED BY <1>1, QInvHolds, WriteBackKeepsCore, TypeInvHolds, PendingInvHolds, PTL
        DEF WbSpec, QAfterCut

-----------------------------------------------------------------------------
(***************************************************************************)
(* The tables. Row by row of the micro-program, where the writes of a      *)
(* class stand in its M-cycles: those of wb_hooks() at T2 or before the    *)
(* end, those of z80_exec_step() at the last T-state or the one before     *)
(* it, WZ where no wait state can come after it, and no two at one place.  *)
(***************************************************************************)
CycleLen(c) == BaseLen[c.bus] + c.extra

\* The bus cycles and lengths of the M-cycles templates are made of.
LEMMA Pieces ==
  /\ Operand.bus = "MRD" /\ CycleLen(Operand) = 3
  /\ Read.bus = "MRD" /\ CycleLen(Read) = 3
  /\ Write.bus = "MWR" /\ CycleLen(Write) = 3
  /\ Input.bus = "IORD" /\ CycleLen(Input) = 4
  /\ Output.bus = "IOWR" /\ CycleLen(Output) = 4
  /\ Long(Read, 1).bus = "MRD" /\ CycleLen(Long(Read, 1)) = 4
  /\ Long(Write, 2).bus = "MWR" /\ CycleLen(Long(Write, 2)) = 5
  /\ Long(Operand, 2).bus = "MRD"
  /\ \A n \in 0 .. 5 : Internal(n).bus = "INTERNAL" /\ CycleLen(Internal(n)) = n
  BY DEF CycleLen, BaseLen, BusOps, Long, Operand, Read, Write, Input, Output, Internal

\* M-cycle m of the instruction of cycles cs.
BusAt(cs, m) == cs[m - 1].bus
LenAt(cs, m) == CycleLen(cs[m - 1])

EarlyM(ex) == IF ex = "EX_SP_HL" THEN 4 ELSE 3
EarlyT(ex) == CASE ex = "EX_SP_HL" -> 1 [] ex = "LDI" -> 3 [] OTHER -> 2

Own(ex, mode) == Pointers[ex] \cup AtEnd[ex] \cup Last(ex, mode)
Once(writes) == \A v, w \in writes : v.m = w.m /\ v.reg = w.reg => v = w

PointersPlaced(ex, cs) ==
  \A w \in Pointers[ex] :
    /\ w.m > 1 /\ w.k = 2 /\ w.reg \notin {"Z", "W"}
    /\ LenAt(cs, w.m) = 3 /\ BusAt(cs, w.m) \in {"MRD", "MWR"}

AtEndPlaced(ex, cs) ==
  \A w \in AtEnd[ex] :
    w.m > 1 /\ w.k = LenAt(cs, w.m) - 1 /\ ~WaitSample(BusAt(cs, w.m), w.k, 1)

LastPlaced(ex, cs, mode) ==
  \A w \in Last(ex, mode) :
    \/ w.m > 1 /\ w.k = LenAt(cs, w.m)
    \/ w.m = 1 /\ ((ex = "NMI" /\ w.k = 5) \/ (ex = "INT" /\ w.k = 7))

LaterPlaced(cs, later) ==
  /\ \A w \in later :
       w.m > 1 /\ w.reg \in {"Z", "W"} /\ (WaitSample(BusAt(cs, w.m), w.k, 1) => w.k = 2)
  /\ Once(later)

LandFirst(ex, later, mode) ==
  \A v \in later, w \in Own(ex, mode) : v.m = w.m /\ v.reg = w.reg => v.k < w.k

EarlyPlaced(ex, cs, mode) ==
  /\ \A w \in Early[ex] :
       /\ w.m = 3 /\ w.reg \notin {"Z", "W"}
       /\ ex \in {"EX_SP_HL", "DJNZ", "LDI", "INI", "OUTI"}
       /\ LenAt(cs, EarlyM(ex)) > EarlyT(ex)
       /\ IF ex = "EX_SP_HL" THEN w.k = 4 /\ LenAt(cs, 3) = 4
          ELSE /\ w.k = EarlyT(ex) - 1
               /\ WaitSample(BusAt(cs, 3), w.k, 1) => w.k = 2
               /\ WaitSample(BusAt(cs, 3), w.k + 1, 1) => w.k = 1
  /\ \A v, w \in Early[ex] : v = w
  /\ \A v \in Early[ex], w \in Own(ex, mode) : v.reg = w.reg => v.m < w.m

Tables(ex, cs, later, mode) ==
  /\ PointersPlaced(ex, cs) /\ AtEndPlaced(ex, cs) /\ LastPlaced(ex, cs, mode)
  /\ LaterPlaced(cs, later) /\ LandFirst(ex, later, mode) /\ EarlyPlaced(ex, cs, mode)
  /\ Once(Own(ex, mode))

LaterOf(ex, mode) == Later(ex, FALSE, mode)

\* Each row of the micro-program has its writes where the tables' shape says.
LEMMA Rows ==
  ASSUME NEW ex \in Classes, NEW mode \in 0 .. 2
  PROVE  Tables(ex, Template[ex], LaterOf(ex, mode), mode)
<1> USE DEF W, Own, Once, PointersPlaced, AtEndPlaced, LastPlaced, LaterPlaced, LandFirst,
           EarlyPlaced
<1>1. CASE ex \in {"INC_RP", "DEC_RP"}
  <2>1. Template[ex] = <<Internal(2)>>
    BY <1>1, GroupTemplates DEF Extended
  <2>2. /\ BusAt(Template[ex], 2) = "INTERNAL" /\ LenAt(Template[ex], 2) = 2
    BY <2>1, Pieces DEF BusAt, LenAt
  <2>3. /\ Pointers[ex] = {} /\ Early[ex] = {}
        /\ AtEnd[ex] = {W(2, 1, "RR")}
        /\ Last(ex, mode) = {}
        /\ LaterOf(ex, mode) = {}
    BY <1>1 DEF Pointers, Early, AtEnd, PushSp, TwoOperands, Last, LaterOf, Later, WZ
  <2> QED BY <1>1, <2>2, <2>3 DEF Tables, WaitSample
<1>2. CASE ex = "LD_SP_HL"
  <2>1. Template[ex] = <<Internal(2)>>
    BY <1>2, GroupTemplates DEF Extended
  <2>2. /\ BusAt(Template[ex], 2) = "INTERNAL" /\ LenAt(Template[ex], 2) = 2
    BY <2>1, Pieces DEF BusAt, LenAt
  <2>3. /\ Pointers[ex] = {} /\ Early[ex] = {}
        /\ AtEnd[ex] = {W(2, 1, "SP")}
        /\ Last(ex, mode) = {}
        /\ LaterOf(ex, mode) = {}
    BY <1>2 DEF Pointers, Early, AtEnd, PushSp, TwoOperands, Last, LaterOf, Later, WZ
  <2> QED BY <1>2, <2>2, <2>3 DEF Tables, WaitSample
<1>3. CASE ex = "ADD_HL_RP"
  <2>1. Template[ex] = <<Internal(4), Internal(3)>>
    BY <1>3, GroupTemplates DEF Extended
  <2>2. /\ BusAt(Template[ex], 2) = "INTERNAL" /\ LenAt(Template[ex], 2) = 4
        /\ BusAt(Template[ex], 3) = "INTERNAL" /\ LenAt(Template[ex], 3) = 3
    BY <2>1, Pieces DEF BusAt, LenAt
  <2>3. /\ Pointers[ex] = {} /\ Early[ex] = {}
        /\ AtEnd[ex] = {W(2, 3, "L")}
        /\ Last(ex, mode) = {W(3, 3, "H")}
        /\ LaterOf(ex, mode) = {W(2, 2, "Z"), W(2, 2, "W")}
    BY <1>3 DEF Pointers, Early, AtEnd, PushSp, TwoOperands, Last, LaterOf, Later, WZ
  <2> QED BY <1>3, <2>2, <2>3 DEF Tables, WaitSample
<1>4. CASE ex \in {"ADC16", "SBC16"}
  <2>1. Template[ex] = <<Internal(4), Internal(3)>>
    BY <1>4, GroupTemplates DEF Extras
  <2>2. /\ BusAt(Template[ex], 2) = "INTERNAL" /\ LenAt(Template[ex], 2) = 4
        /\ BusAt(Template[ex], 3) = "INTERNAL" /\ LenAt(Template[ex], 3) = 3
    BY <2>1, Pieces DEF BusAt, LenAt
  <2>3. /\ Pointers[ex] = {} /\ Early[ex] = {}
        /\ AtEnd[ex] = {W(2, 3, "L")}
        /\ Last(ex, mode) = {W(3, 3, "H")}
        /\ LaterOf(ex, mode) = {W(2, 2, "Z"), W(2, 2, "W")}
    BY <1>4 DEF Pointers, Early, AtEnd, PushSp, TwoOperands, Last, LaterOf, Later, WZ
  <2> QED BY <1>4, <2>2, <2>3 DEF Tables, WaitSample
<1>5. CASE ex = "LD_RP_NN"
  <2>1. Template[ex] = <<Operand, Operand>>
    BY <1>5, GroupTemplates DEF Word
  <2>2. /\ BusAt(Template[ex], 2) = "MRD" /\ LenAt(Template[ex], 2) = 3
        /\ BusAt(Template[ex], 3) = "MRD" /\ LenAt(Template[ex], 3) = 3
    BY <2>1, Pieces DEF BusAt, LenAt
  <2>3. /\ Pointers[ex] = {} /\ Early[ex] = {}
        /\ AtEnd[ex] = {}
        /\ Last(ex, mode) = {W(2, 3, "RL"), W(3, 3, "RH")}
        /\ LaterOf(ex, mode) = {}
    BY <1>5 DEF Pointers, Early, AtEnd, PushSp, TwoOperands, Last, LaterOf, Later, WZ
  <2> QED BY <1>5, <2>2, <2>3 DEF Tables, WaitSample
<1>6. CASE ex \in {"JP", "JP_CC"}
  <2>1. Template[ex] = <<Operand, Operand>>
    BY <1>6, GroupTemplates DEF Word
  <2>2. /\ BusAt(Template[ex], 2) = "MRD" /\ LenAt(Template[ex], 2) = 3
        /\ BusAt(Template[ex], 3) = "MRD" /\ LenAt(Template[ex], 3) = 3
    BY <2>1, Pieces DEF BusAt, LenAt
  <2>3. /\ Pointers[ex] = {} /\ Early[ex] = {}
        /\ AtEnd[ex] = {}
        /\ Last(ex, mode) = {W(2, 3, "Z"), W(3, 3, "W")}
        /\ LaterOf(ex, mode) = {}
    BY <1>6 DEF Pointers, Early, AtEnd, PushSp, TwoOperands, Last, LaterOf, Later, WZ
  <2> QED BY <1>6, <2>2, <2>3 DEF Tables, WaitSample
<1>7. CASE ex = "LD_A_NN"
  <2>1. Template[ex] = <<Operand, Operand, Read>>
    BY <1>7, GroupTemplates DEF Word
  <2>2. /\ BusAt(Template[ex], 2) = "MRD" /\ LenAt(Template[ex], 2) = 3
        /\ BusAt(Template[ex], 3) = "MRD" /\ LenAt(Template[ex], 3) = 3
        /\ BusAt(Template[ex], 4) = "MRD" /\ LenAt(Template[ex], 4) = 3
    BY <2>1, Pieces DEF BusAt, LenAt
  <2>3. /\ Pointers[ex] = {} /\ Early[ex] = {}
        /\ AtEnd[ex] = {}
        /\ Last(ex, mode) = {W(2, 3, "Z"), W(3, 3, "W"), W(4, 3, "A")}
        /\ LaterOf(ex, mode) = {W(2, 1, "W"), W(4, 2, "Z"), W(4, 2, "W")}
    BY <1>7 DEF Pointers, Early, AtEnd, PushSp, TwoOperands, Last, LaterOf, Later, WZ
  <2> QED BY <1>7, <2>2, <2>3 DEF Tables, WaitSample
<1>8. CASE ex = "LD_NN_A"
  <2>1. Template[ex] = <<Operand, Operand, Write>>
    BY <1>8, GroupTemplates DEF Word
  <2>2. /\ BusAt(Template[ex], 2) = "MRD" /\ LenAt(Template[ex], 2) = 3
        /\ BusAt(Template[ex], 3) = "MRD" /\ LenAt(Template[ex], 3) = 3
        /\ BusAt(Template[ex], 4) = "MWR" /\ LenAt(Template[ex], 4) = 3
    BY <2>1, Pieces DEF BusAt, LenAt
  <2>3. /\ Pointers[ex] = {} /\ Early[ex] = {}
        /\ AtEnd[ex] = {}
        /\ Last(ex, mode) = {W(2, 3, "Z"), W(3, 3, "W"), W(4, 3, "W")}
        /\ LaterOf(ex, mode) = {W(2, 1, "W"), W(4, 2, "Z"), W(4, 2, "W")}
    BY <1>8 DEF Pointers, Early, AtEnd, PushSp, TwoOperands, Last, LaterOf, Later, WZ
  <2> QED BY <1>8, <2>2, <2>3 DEF Tables, WaitSample
<1>9. CASE ex = "LD_HL_NN"
  <2>1. Template[ex] = <<Operand, Operand, Read, Read>>
    BY <1>9, GroupTemplates DEF Word
  <2>2. /\ BusAt(Template[ex], 2) = "MRD" /\ LenAt(Template[ex], 2) = 3
        /\ BusAt(Template[ex], 3) = "MRD" /\ LenAt(Template[ex], 3) = 3
        /\ BusAt(Template[ex], 4) = "MRD" /\ LenAt(Template[ex], 4) = 3
        /\ BusAt(Template[ex], 5) = "MRD" /\ LenAt(Template[ex], 5) = 3
    BY <2>1, Pieces DEF BusAt, LenAt
  <2>3. /\ Pointers[ex] = {} /\ Early[ex] = {}
        /\ AtEnd[ex] = {}
        /\ Last(ex, mode) = {W(2, 3, "Z"), W(3, 3, "W"), W(4, 3, "RL"), W(5, 3, "RH")}
        /\ LaterOf(ex, mode) = {W(4, 2, "Z"), W(4, 2, "W")}
    BY <1>9 DEF Pointers, Early, AtEnd, PushSp, TwoOperands, Last, LaterOf, Later, WZ
  <2> QED BY <1>9, <2>2, <2>3 DEF Tables, WaitSample
<1>10. CASE ex = "LD_RP_NNA"
  <2>1. Template[ex] = <<Operand, Operand, Read, Read>>
    BY <1>10, GroupTemplates DEF Extras
  <2>2. /\ BusAt(Template[ex], 2) = "MRD" /\ LenAt(Template[ex], 2) = 3
        /\ BusAt(Template[ex], 3) = "MRD" /\ LenAt(Template[ex], 3) = 3
        /\ BusAt(Template[ex], 4) = "MRD" /\ LenAt(Template[ex], 4) = 3
        /\ BusAt(Template[ex], 5) = "MRD" /\ LenAt(Template[ex], 5) = 3
    BY <2>1, Pieces DEF BusAt, LenAt
  <2>3. /\ Pointers[ex] = {} /\ Early[ex] = {}
        /\ AtEnd[ex] = {}
        /\ Last(ex, mode) = {W(2, 3, "Z"), W(3, 3, "W"), W(4, 3, "RL"), W(5, 3, "RH")}
        /\ LaterOf(ex, mode) = {W(4, 2, "Z"), W(4, 2, "W")}
    BY <1>10 DEF Pointers, Early, AtEnd, PushSp, TwoOperands, Last, LaterOf, Later, WZ
  <2> QED BY <1>10, <2>2, <2>3 DEF Tables, WaitSample
<1>11. CASE ex = "LD_NN_HL"
  <2>1. Template[ex] = <<Operand, Operand, Write, Write>>
    BY <1>11, GroupTemplates DEF Word
  <2>2. /\ BusAt(Template[ex], 2) = "MRD" /\ LenAt(Template[ex], 2) = 3
        /\ BusAt(Template[ex], 3) = "MRD" /\ LenAt(Template[ex], 3) = 3
        /\ BusAt(Template[ex], 4) = "MWR" /\ LenAt(Template[ex], 4) = 3
        /\ BusAt(Template[ex], 5) = "MWR" /\ LenAt(Template[ex], 5) = 3
    BY <2>1, Pieces DEF BusAt, LenAt
  <2>3. /\ Pointers[ex] = {} /\ Early[ex] = {}
        /\ AtEnd[ex] = {}
        /\ Last(ex, mode) = {W(2, 3, "Z"), W(3, 3, "W")}
        /\ LaterOf(ex, mode) = {W(4, 2, "Z"), W(4, 2, "W")}
    BY <1>11 DEF Pointers, Early, AtEnd, PushSp, TwoOperands, Last, LaterOf, Later, WZ
  <2> QED BY <1>11, <2>2, <2>3 DEF Tables, WaitSample
<1>12. CASE ex = "LD_NNA_RP"
  <2>1. Template[ex] = <<Operand, Operand, Write, Write>>
    BY <1>12, GroupTemplates DEF Extras
  <2>2. /\ BusAt(Template[ex], 2) = "MRD" /\ LenAt(Template[ex], 2) = 3
        /\ BusAt(Template[ex], 3) = "MRD" /\ LenAt(Template[ex], 3) = 3
        /\ BusAt(Template[ex], 4) = "MWR" /\ LenAt(Template[ex], 4) = 3
        /\ BusAt(Template[ex], 5) = "MWR" /\ LenAt(Template[ex], 5) = 3
    BY <2>1, Pieces DEF BusAt, LenAt
  <2>3. /\ Pointers[ex] = {} /\ Early[ex] = {}
        /\ AtEnd[ex] = {}
        /\ Last(ex, mode) = {W(2, 3, "Z"), W(3, 3, "W")}
        /\ LaterOf(ex, mode) = {W(4, 2, "Z"), W(4, 2, "W")}
    BY <1>12 DEF Pointers, Early, AtEnd, PushSp, TwoOperands, Last, LaterOf, Later, WZ
  <2> QED BY <1>12, <2>2, <2>3 DEF Tables, WaitSample
<1>13. CASE ex = "LD_A_RP"
  <2>1. Template[ex] = <<Read>>
    BY <1>13, GroupTemplates DEF Word
  <2>2. /\ BusAt(Template[ex], 2) = "MRD" /\ LenAt(Template[ex], 2) = 3
    BY <2>1, Pieces DEF BusAt, LenAt
  <2>3. /\ Pointers[ex] = {} /\ Early[ex] = {}
        /\ AtEnd[ex] = {}
        /\ Last(ex, mode) = {W(2, 3, "A")}
        /\ LaterOf(ex, mode) = {W(2, 2, "Z"), W(2, 2, "W")}
    BY <1>13 DEF Pointers, Early, AtEnd, PushSp, TwoOperands, Last, LaterOf, Later, WZ
  <2> QED BY <1>13, <2>2, <2>3 DEF Tables, WaitSample
<1>14. CASE ex = "LD_RP_A"
  <2>1. Template[ex] = <<Write>>
    BY <1>14, GroupTemplates DEF Word
  <2>2. /\ BusAt(Template[ex], 2) = "MWR" /\ LenAt(Template[ex], 2) = 3
    BY <2>1, Pieces DEF BusAt, LenAt
  <2>3. /\ Pointers[ex] = {} /\ Early[ex] = {}
        /\ AtEnd[ex] = {}
        /\ Last(ex, mode) = {W(2, 3, "W")}
        /\ LaterOf(ex, mode) = {W(2, 2, "Z"), W(2, 2, "W")}
    BY <1>14 DEF Pointers, Early, AtEnd, PushSp, TwoOperands, Last, LaterOf, Later, WZ
  <2> QED BY <1>14, <2>2, <2>3 DEF Tables, WaitSample
<1>15. CASE ex \in {"JR", "JR_CC"}
  <2>1. Template[ex] = <<Operand, Internal(5)>>
    BY <1>15, GroupTemplates DEF Relative
  <2>2. /\ BusAt(Template[ex], 2) = "MRD" /\ LenAt(Template[ex], 2) = 3
        /\ BusAt(Template[ex], 3) = "INTERNAL" /\ LenAt(Template[ex], 3) = 5
    BY <2>1, Pieces DEF BusAt, LenAt
  <2>3. /\ Pointers[ex] = {} /\ Early[ex] = {}
        /\ AtEnd[ex] = {}
        /\ Last(ex, mode) = {}
        /\ LaterOf(ex, mode) = {W(3, 2, "Z"), W(3, 5, "W")}
    BY <1>15 DEF Pointers, Early, AtEnd, PushSp, TwoOperands, Last, LaterOf, Later, WZ
  <2> QED BY <1>15, <2>2, <2>3 DEF Tables, WaitSample
<1>16. CASE ex = "DJNZ"
  <2>1. Template[ex] = <<Internal(1), Operand, Internal(5)>>
    BY <1>16, GroupTemplates DEF Relative
  <2>2. /\ BusAt(Template[ex], 2) = "INTERNAL" /\ LenAt(Template[ex], 2) = 1
        /\ BusAt(Template[ex], 3) = "MRD" /\ LenAt(Template[ex], 3) = 3
        /\ BusAt(Template[ex], 4) = "INTERNAL" /\ LenAt(Template[ex], 4) = 5
    BY <2>1, Pieces DEF BusAt, LenAt
  <2>3. /\ Pointers[ex] = {} /\ Early[ex] = {W(3, 1, "B")}
        /\ AtEnd[ex] = {}
        /\ Last(ex, mode) = {}
        /\ LaterOf(ex, mode) = {W(4, 2, "Z"), W(4, 5, "W")}
    BY <1>16 DEF Pointers, Early, AtEnd, PushSp, TwoOperands, Last, LaterOf, Later, WZ
  <2> QED BY <1>16, <2>2, <2>3 DEF Tables, WaitSample, EarlyM, EarlyT
<1>17. CASE ex \in {"CALL", "CALL_CC"}
  <2>1. Template[ex] = <<Operand, Operand, Internal(1), Write, Write>>
    BY <1>17, GroupTemplates DEF Stack
  <2>2. /\ BusAt(Template[ex], 2) = "MRD" /\ LenAt(Template[ex], 2) = 3
        /\ BusAt(Template[ex], 3) = "MRD" /\ LenAt(Template[ex], 3) = 3
        /\ BusAt(Template[ex], 4) = "INTERNAL" /\ LenAt(Template[ex], 4) = 1
        /\ BusAt(Template[ex], 5) = "MWR" /\ LenAt(Template[ex], 5) = 3
        /\ BusAt(Template[ex], 6) = "MWR" /\ LenAt(Template[ex], 6) = 3
    BY <2>1, Pieces DEF BusAt, LenAt
  <2>3. /\ Pointers[ex] = {W(5, 2, "SP")} /\ Early[ex] = {}
        /\ AtEnd[ex] = {}
        /\ Last(ex, mode) = {W(4, 1, "SP"), W(2, 3, "Z"), W(3, 3, "W")}
        /\ LaterOf(ex, mode) = {}
    BY <1>17 DEF Pointers, Early, AtEnd, PushSp, TwoOperands, Last, LaterOf, Later, WZ
  <2> QED BY <1>17, <2>2, <2>3 DEF Tables, WaitSample
<1>18. CASE ex = "RET"
  <2>1. Template[ex] = <<Read, Read>>
    BY <1>18, GroupTemplates DEF Stack
  <2>2. /\ BusAt(Template[ex], 2) = "MRD" /\ LenAt(Template[ex], 2) = 3
        /\ BusAt(Template[ex], 3) = "MRD" /\ LenAt(Template[ex], 3) = 3
    BY <2>1, Pieces DEF BusAt, LenAt
  <2>3. /\ Pointers[ex] = {W(2, 2, "SP"), W(3, 2, "SP")} /\ Early[ex] = {}
        /\ AtEnd[ex] = {}
        /\ Last(ex, mode) = {W(2, 3, "Z"), W(3, 3, "W")}
        /\ LaterOf(ex, mode) = {}
    BY <1>18 DEF Pointers, Early, AtEnd, PushSp, TwoOperands, Last, LaterOf, Later, WZ
  <2> QED BY <1>18, <2>2, <2>3 DEF Tables, WaitSample
<1>19. CASE ex = "RETN"
  <2>1. Template[ex] = <<Read, Read>>
    BY <1>19, GroupTemplates DEF Extras
  <2>2. /\ BusAt(Template[ex], 2) = "MRD" /\ LenAt(Template[ex], 2) = 3
        /\ BusAt(Template[ex], 3) = "MRD" /\ LenAt(Template[ex], 3) = 3
    BY <2>1, Pieces DEF BusAt, LenAt
  <2>3. /\ Pointers[ex] = {W(2, 2, "SP"), W(3, 2, "SP")} /\ Early[ex] = {}
        /\ AtEnd[ex] = {}
        /\ Last(ex, mode) = {W(2, 3, "Z"), W(3, 3, "W")}
        /\ LaterOf(ex, mode) = {}
    BY <1>19 DEF Pointers, Early, AtEnd, PushSp, TwoOperands, Last, LaterOf, Later, WZ
  <2> QED BY <1>19, <2>2, <2>3 DEF Tables, WaitSample
<1>20. CASE ex = "RET_CC"
  <2>1. Template[ex] = <<Internal(1), Read, Read>>
    BY <1>20, GroupTemplates DEF Stack
  <2>2. /\ BusAt(Template[ex], 2) = "INTERNAL" /\ LenAt(Template[ex], 2) = 1
        /\ BusAt(Template[ex], 3) = "MRD" /\ LenAt(Template[ex], 3) = 3
        /\ BusAt(Template[ex], 4) = "MRD" /\ LenAt(Template[ex], 4) = 3
    BY <2>1, Pieces DEF BusAt, LenAt
  <2>3. /\ Pointers[ex] = {W(3, 2, "SP"), W(4, 2, "SP")} /\ Early[ex] = {}
        /\ AtEnd[ex] = {}
        /\ Last(ex, mode) = {W(3, 3, "Z"), W(4, 3, "W")}
        /\ LaterOf(ex, mode) = {}
    BY <1>20 DEF Pointers, Early, AtEnd, PushSp, TwoOperands, Last, LaterOf, Later, WZ
  <2> QED BY <1>20, <2>2, <2>3 DEF Tables, WaitSample
<1>21. CASE ex = "RST"
  <2>1. Template[ex] = <<Internal(1), Write, Write>>
    BY <1>21, GroupTemplates DEF Stack
  <2>2. /\ BusAt(Template[ex], 2) = "INTERNAL" /\ LenAt(Template[ex], 2) = 1
        /\ BusAt(Template[ex], 3) = "MWR" /\ LenAt(Template[ex], 3) = 3
        /\ BusAt(Template[ex], 4) = "MWR" /\ LenAt(Template[ex], 4) = 3
    BY <2>1, Pieces DEF BusAt, LenAt
  <2>3. /\ Pointers[ex] = {W(3, 2, "SP")} /\ Early[ex] = {}
        /\ AtEnd[ex] = {}
        /\ Last(ex, mode) = {W(2, 1, "SP"), W(3, 3, "Z"), W(4, 3, "W")}
        /\ LaterOf(ex, mode) = {}
    BY <1>21 DEF Pointers, Early, AtEnd, PushSp, TwoOperands, Last, LaterOf, Later, WZ
  <2> QED BY <1>21, <2>2, <2>3 DEF Tables, WaitSample
<1>22. CASE ex = "PUSH"
  <2>1. Template[ex] = <<Internal(1), Write, Write>>
    BY <1>22, GroupTemplates DEF Stack
  <2>2. /\ BusAt(Template[ex], 2) = "INTERNAL" /\ LenAt(Template[ex], 2) = 1
        /\ BusAt(Template[ex], 3) = "MWR" /\ LenAt(Template[ex], 3) = 3
        /\ BusAt(Template[ex], 4) = "MWR" /\ LenAt(Template[ex], 4) = 3
    BY <2>1, Pieces DEF BusAt, LenAt
  <2>3. /\ Pointers[ex] = {W(3, 2, "SP")} /\ Early[ex] = {}
        /\ AtEnd[ex] = {}
        /\ Last(ex, mode) = {W(2, 1, "SP")}
        /\ LaterOf(ex, mode) = {}
    BY <1>22 DEF Pointers, Early, AtEnd, PushSp, TwoOperands, Last, LaterOf, Later, WZ
  <2> QED BY <1>22, <2>2, <2>3 DEF Tables, WaitSample
<1>23. CASE ex = "POP"
  <2>1. Template[ex] = <<Read, Read>>
    BY <1>23, GroupTemplates DEF Stack
  <2>2. /\ BusAt(Template[ex], 2) = "MRD" /\ LenAt(Template[ex], 2) = 3
        /\ BusAt(Template[ex], 3) = "MRD" /\ LenAt(Template[ex], 3) = 3
    BY <2>1, Pieces DEF BusAt, LenAt
  <2>3. /\ Pointers[ex] = {W(2, 2, "SP"), W(3, 2, "SP")} /\ Early[ex] = {}
        /\ AtEnd[ex] = {}
        /\ Last(ex, mode) = {W(2, 3, "RL"), W(3, 3, "RH")}
        /\ LaterOf(ex, mode) = {}
    BY <1>23 DEF Pointers, Early, AtEnd, PushSp, TwoOperands, Last, LaterOf, Later, WZ
  <2> QED BY <1>23, <2>2, <2>3 DEF Tables, WaitSample
<1>24. CASE ex = "EX_SP_HL"
  <2>1. Template[ex] = <<Read, Long(Read, 1), Write, Long(Write, 2)>>
    BY <1>24, GroupTemplates DEF Stack
  <2>2. /\ BusAt(Template[ex], 2) = "MRD" /\ LenAt(Template[ex], 2) = 3
        /\ BusAt(Template[ex], 3) = "MRD" /\ LenAt(Template[ex], 3) = 4
        /\ BusAt(Template[ex], 4) = "MWR" /\ LenAt(Template[ex], 4) = 3
        /\ BusAt(Template[ex], 5) = "MWR" /\ LenAt(Template[ex], 5) = 5
    BY <2>1, Pieces DEF BusAt, LenAt
  <2>3. /\ Pointers[ex] = {W(4, 2, "SP")} /\ Early[ex] = {W(3, 4, "SP")}
        /\ AtEnd[ex] = {W(3, 3, "W"), W(5, 4, "HL")}
        /\ Last(ex, mode) = {W(2, 3, "Z")}
        /\ LaterOf(ex, mode) = {W(2, 2, "Z"), W(2, 2, "W")}
    BY <1>24 DEF Pointers, Early, AtEnd, PushSp, TwoOperands, Last, LaterOf, Later, WZ
  <2> QED BY <1>24, <2>2, <2>3 DEF Tables, WaitSample, EarlyM, EarlyT
<1>25. CASE ex = "IN_A_N"
  <2>1. Template[ex] = <<Operand, Input>>
    BY <1>25, GroupTemplates DEF InputOutput
  <2>2. /\ BusAt(Template[ex], 2) = "MRD" /\ LenAt(Template[ex], 2) = 3
        /\ BusAt(Template[ex], 3) = "IORD" /\ LenAt(Template[ex], 3) = 4
    BY <2>1, Pieces DEF BusAt, LenAt
  <2>3. /\ Pointers[ex] = {} /\ Early[ex] = {}
        /\ AtEnd[ex] = {}
        /\ Last(ex, mode) = {W(2, 3, "Z"), W(3, 4, "A")}
        /\ LaterOf(ex, mode) = {W(2, 1, "W"), W(3, 2, "Z"), W(3, 2, "W")}
    BY <1>25 DEF Pointers, Early, AtEnd, PushSp, TwoOperands, Last, LaterOf, Later, WZ
  <2> QED BY <1>25, <2>2, <2>3 DEF Tables, WaitSample
<1>26. CASE ex = "OUT_N_A"
  <2>1. Template[ex] = <<Operand, Output>>
    BY <1>26, GroupTemplates DEF InputOutput
  <2>2. /\ BusAt(Template[ex], 2) = "MRD" /\ LenAt(Template[ex], 2) = 3
        /\ BusAt(Template[ex], 3) = "IOWR" /\ LenAt(Template[ex], 3) = 4
    BY <2>1, Pieces DEF BusAt, LenAt
  <2>3. /\ Pointers[ex] = {} /\ Early[ex] = {}
        /\ AtEnd[ex] = {}
        /\ Last(ex, mode) = {W(2, 3, "Z"), W(3, 4, "W")}
        /\ LaterOf(ex, mode) = {W(2, 1, "W"), W(3, 2, "Z"), W(3, 2, "W")}
    BY <1>26 DEF Pointers, Early, AtEnd, PushSp, TwoOperands, Last, LaterOf, Later, WZ
  <2> QED BY <1>26, <2>2, <2>3 DEF Tables, WaitSample
<1>27. CASE ex = "IN_C"
  <2>1. Template[ex] = <<Input>>
    BY <1>27, GroupTemplates DEF Extras
  <2>2. /\ BusAt(Template[ex], 2) = "IORD" /\ LenAt(Template[ex], 2) = 4
    BY <2>1, Pieces DEF BusAt, LenAt
  <2>3. /\ Pointers[ex] = {} /\ Early[ex] = {}
        /\ AtEnd[ex] = {}
        /\ Last(ex, mode) = {}
        /\ LaterOf(ex, mode) = {W(2, 2, "Z"), W(2, 2, "W")}
    BY <1>27 DEF Pointers, Early, AtEnd, PushSp, TwoOperands, Last, LaterOf, Later, WZ
  <2> QED BY <1>27, <2>2, <2>3 DEF Tables, WaitSample
<1>28. CASE ex = "OUT_C"
  <2>1. Template[ex] = <<Output>>
    BY <1>28, GroupTemplates DEF Extras
  <2>2. /\ BusAt(Template[ex], 2) = "IOWR" /\ LenAt(Template[ex], 2) = 4
    BY <2>1, Pieces DEF BusAt, LenAt
  <2>3. /\ Pointers[ex] = {} /\ Early[ex] = {}
        /\ AtEnd[ex] = {}
        /\ Last(ex, mode) = {}
        /\ LaterOf(ex, mode) = {W(2, 2, "Z"), W(2, 2, "W")}
    BY <1>28 DEF Pointers, Early, AtEnd, PushSp, TwoOperands, Last, LaterOf, Later, WZ
  <2> QED BY <1>28, <2>2, <2>3 DEF Tables, WaitSample
<1>29. CASE ex \in {"RRD", "RLD"}
  <2>1. Template[ex] = <<Read, Internal(4), Write>>
    BY <1>29, GroupTemplates DEF Extras
  <2>2. /\ BusAt(Template[ex], 2) = "MRD" /\ LenAt(Template[ex], 2) = 3
        /\ BusAt(Template[ex], 3) = "INTERNAL" /\ LenAt(Template[ex], 3) = 4
        /\ BusAt(Template[ex], 4) = "MWR" /\ LenAt(Template[ex], 4) = 3
    BY <2>1, Pieces DEF BusAt, LenAt
  <2>3. /\ Pointers[ex] = {} /\ Early[ex] = {}
        /\ AtEnd[ex] = {}
        /\ Last(ex, mode) = {}
        /\ LaterOf(ex, mode) = {W(4, 2, "Z"), W(4, 2, "W")}
    BY <1>29 DEF Pointers, Early, AtEnd, PushSp, TwoOperands, Last, LaterOf, Later, WZ
  <2> QED BY <1>29, <2>2, <2>3 DEF Tables, WaitSample
<1>30. CASE ex = "LDI"
  <2>1. Template[ex] = <<Read, Long(Write, 2), Internal(5)>>
    BY <1>30, GroupTemplates DEF Block
  <2>2. /\ BusAt(Template[ex], 2) = "MRD" /\ LenAt(Template[ex], 2) = 3
        /\ BusAt(Template[ex], 3) = "MWR" /\ LenAt(Template[ex], 3) = 5
        /\ BusAt(Template[ex], 4) = "INTERNAL" /\ LenAt(Template[ex], 4) = 5
    BY <2>1, Pieces DEF BusAt, LenAt
  <2>3. /\ Pointers[ex] = {W(2, 2, "HL")} /\ Early[ex] = {W(3, 2, "DE")}
        /\ AtEnd[ex] = {W(3, 4, "BC")}
        /\ Last(ex, mode) = {}
        /\ LaterOf(ex, mode) = {W(4, 2, "Z"), W(4, 2, "W")}
    BY <1>30 DEF Pointers, Early, AtEnd, PushSp, TwoOperands, Last, LaterOf, Later, WZ
  <2> QED BY <1>30, <2>2, <2>3 DEF Tables, WaitSample, EarlyM, EarlyT
<1>31. CASE ex = "CPI"
  <2>1. Template[ex] = <<Read, Internal(5), Internal(5)>>
    BY <1>31, GroupTemplates DEF Block
  <2>2. /\ BusAt(Template[ex], 2) = "MRD" /\ LenAt(Template[ex], 2) = 3
        /\ BusAt(Template[ex], 3) = "INTERNAL" /\ LenAt(Template[ex], 3) = 5
        /\ BusAt(Template[ex], 4) = "INTERNAL" /\ LenAt(Template[ex], 4) = 5
    BY <2>1, Pieces DEF BusAt, LenAt
  <2>3. /\ Pointers[ex] = {W(2, 2, "HL")} /\ Early[ex] = {}
        /\ AtEnd[ex] = {W(3, 4, "BC")}
        /\ Last(ex, mode) = {}
        /\ LaterOf(ex, mode) = {W(3, 2, "Z"), W(3, 2, "W"), W(4, 2, "Z"), W(4, 2, "W")}
    BY <1>31 DEF Pointers, Early, AtEnd, PushSp, TwoOperands, Last, LaterOf, Later, WZ
  <2> QED BY <1>31, <2>2, <2>3 DEF Tables, WaitSample
<1>32. CASE ex = "INI"
  <2>1. Template[ex] = <<Internal(1), Input, Write, Internal(5)>>
    BY <1>32, GroupTemplates DEF Block
  <2>2. /\ BusAt(Template[ex], 2) = "INTERNAL" /\ LenAt(Template[ex], 2) = 1
        /\ BusAt(Template[ex], 3) = "IORD" /\ LenAt(Template[ex], 3) = 4
        /\ BusAt(Template[ex], 4) = "MWR" /\ LenAt(Template[ex], 4) = 3
        /\ BusAt(Template[ex], 5) = "INTERNAL" /\ LenAt(Template[ex], 5) = 5
    BY <2>1, Pieces DEF BusAt, LenAt
  <2>3. /\ Pointers[ex] = {W(4, 2, "HL")} /\ Early[ex] = {W(3, 1, "B")}
        /\ AtEnd[ex] = {}
        /\ Last(ex, mode) = {}
        /\ LaterOf(ex, mode) = {W(3, 2, "Z"), W(3, 2, "W"), W(5, 2, "Z"), W(5, 2, "W")}
    BY <1>32 DEF Pointers, Early, AtEnd, PushSp, TwoOperands, Last, LaterOf, Later, WZ
  <2> QED BY <1>32, <2>2, <2>3 DEF Tables, WaitSample, EarlyM, EarlyT
<1>33. CASE ex = "OUTI"
  <2>1. Template[ex] = <<Internal(1), Read, Output, Internal(5)>>
    BY <1>33, GroupTemplates DEF Block
  <2>2. /\ BusAt(Template[ex], 2) = "INTERNAL" /\ LenAt(Template[ex], 2) = 1
        /\ BusAt(Template[ex], 3) = "MRD" /\ LenAt(Template[ex], 3) = 3
        /\ BusAt(Template[ex], 4) = "IOWR" /\ LenAt(Template[ex], 4) = 4
        /\ BusAt(Template[ex], 5) = "INTERNAL" /\ LenAt(Template[ex], 5) = 5
    BY <2>1, Pieces DEF BusAt, LenAt
  <2>3. /\ Pointers[ex] = {W(3, 2, "HL")} /\ Early[ex] = {W(3, 1, "B")}
        /\ AtEnd[ex] = {}
        /\ Last(ex, mode) = {}
        /\ LaterOf(ex, mode) = {W(4, 2, "Z"), W(4, 2, "W"), W(5, 2, "Z"), W(5, 2, "W")}
    BY <1>33 DEF Pointers, Early, AtEnd, PushSp, TwoOperands, Last, LaterOf, Later, WZ
  <2> QED BY <1>33, <2>2, <2>3 DEF Tables, WaitSample, EarlyM, EarlyT
<1>34. CASE ex = "NMI"
  <2>1. Template[ex] = <<Write, Write>>
    BY <1>34, GroupTemplates DEF Response
  <2>2. /\ BusAt(Template[ex], 2) = "MWR" /\ LenAt(Template[ex], 2) = 3
        /\ BusAt(Template[ex], 3) = "MWR" /\ LenAt(Template[ex], 3) = 3
    BY <2>1, Pieces DEF BusAt, LenAt
  <2>3. /\ Pointers[ex] = {W(2, 2, "SP")} /\ Early[ex] = {}
        /\ AtEnd[ex] = {}
        /\ Last(ex, mode) = {W(1, 5, "SP"), W(2, 3, "Z"), W(3, 3, "W")}
        /\ LaterOf(ex, mode) = {}
    BY <1>34 DEF Pointers, Early, AtEnd, PushSp, TwoOperands, Last, LaterOf, Later, WZ
  <2> QED BY <1>34, <2>2, <2>3 DEF Tables, WaitSample
<1>35. CASE ex = "INT" /\ mode # 2
  <2>1. Template[ex] = <<Write, Write, Read, Read>>
    BY <1>35, GroupTemplates DEF Response
  <2>2. /\ BusAt(Template[ex], 2) = "MWR" /\ LenAt(Template[ex], 2) = 3
        /\ BusAt(Template[ex], 3) = "MWR" /\ LenAt(Template[ex], 3) = 3
        /\ BusAt(Template[ex], 4) = "MRD" /\ LenAt(Template[ex], 4) = 3
        /\ BusAt(Template[ex], 5) = "MRD" /\ LenAt(Template[ex], 5) = 3
    BY <2>1, Pieces DEF BusAt, LenAt
  <2>3. /\ Pointers[ex] = {W(2, 2, "SP")} /\ Early[ex] = {}
        /\ AtEnd[ex] = {}
        /\ Last(ex, mode) = {W(1, 7, "SP"), W(2, 3, "Z"), W(3, 3, "W")}
        /\ LaterOf(ex, mode) = {}
    BY <1>35 DEF Pointers, Early, AtEnd, PushSp, TwoOperands, Last, LaterOf, Later, WZ
  <2> QED BY <1>35, <2>2, <2>3 DEF Tables, WaitSample
<1>36. CASE ex = "INT" /\ mode = 2
  <2>1. Template[ex] = <<Write, Write, Read, Read>>
    BY <1>36, GroupTemplates DEF Response
  <2>2. /\ BusAt(Template[ex], 2) = "MWR" /\ LenAt(Template[ex], 2) = 3
        /\ BusAt(Template[ex], 3) = "MWR" /\ LenAt(Template[ex], 3) = 3
        /\ BusAt(Template[ex], 4) = "MRD" /\ LenAt(Template[ex], 4) = 3
        /\ BusAt(Template[ex], 5) = "MRD" /\ LenAt(Template[ex], 5) = 3
    BY <2>1, Pieces DEF BusAt, LenAt
  <2>3. /\ Pointers[ex] = {W(2, 2, "SP")} /\ Early[ex] = {}
        /\ AtEnd[ex] = {}
        /\ Last(ex, mode) = {W(1, 7, "SP"), W(4, 3, "Z"), W(5, 3, "W")}
        /\ LaterOf(ex, mode) = {W(3, 2, "Z"), W(3, 3, "W"), W(4, 2, "Z"), W(4, 2, "W")}
    BY <1>36 DEF Pointers, Early, AtEnd, PushSp, TwoOperands, Last, LaterOf, Later, WZ
  <2> QED BY <1>36, <2>2, <2>3 DEF Tables, WaitSample
<1>37. CASE ex = "DDCB"
  <2>1. Template[ex] = <<Operand, Operand, Internal(2), Long(Read, 1), Write>>
    BY <1>37, GroupTemplates DEF IndexedBit
  <2>2. /\ BusAt(Template[ex], 2) = "MRD" /\ LenAt(Template[ex], 2) = 3
        /\ BusAt(Template[ex], 3) = "MRD" /\ LenAt(Template[ex], 3) = 3
        /\ BusAt(Template[ex], 4) = "INTERNAL" /\ LenAt(Template[ex], 4) = 2
        /\ BusAt(Template[ex], 5) = "MRD" /\ LenAt(Template[ex], 5) = 4
        /\ BusAt(Template[ex], 6) = "MWR" /\ LenAt(Template[ex], 6) = 3
    BY <2>1, Pieces DEF BusAt, LenAt
  <2>3. /\ Pointers[ex] = {} /\ Early[ex] = {}
        /\ AtEnd[ex] = {}
        /\ Last(ex, mode) = {}
        /\ LaterOf(ex, mode) = {W(3, 2, "Z"), W(4, 2, "W")}
    BY <1>37 DEF Pointers, Early, AtEnd, PushSp, TwoOperands, Last, LaterOf, Later, WZ
  <2> QED BY <1>37, <2>2, <2>3 DEF Tables, WaitSample
<1>38. CASE ex \notin {"INC_RP", "DEC_RP", "LD_SP_HL", "ADD_HL_RP", "ADC16", "SBC16",
                    "LD_RP_NN", "JP", "JP_CC", "LD_A_NN", "LD_NN_A", "LD_HL_NN", "LD_RP_NNA",
                    "LD_NN_HL", "LD_NNA_RP", "LD_A_RP", "LD_RP_A", "JR", "JR_CC", "DJNZ",
                    "CALL", "CALL_CC", "RET", "RETN", "RET_CC", "RST", "PUSH", "POP",
                    "EX_SP_HL", "IN_A_N", "OUT_N_A", "IN_C", "OUT_C", "RRD", "RLD", "LDI",
                    "CPI", "INI", "OUTI", "NMI", "INT", "DDCB"}
  <2>3. /\ Pointers[ex] = {} /\ Early[ex] = {} /\ AtEnd[ex] = {}
        /\ Last(ex, mode) = {} /\ LaterOf(ex, mode) = {}
    BY <1>38 DEF Pointers, Early, AtEnd, PushSp, TwoOperands, Last, LaterOf, Later
  <2> QED BY <2>3 DEF Tables
<1> QED BY <1>1, <1>2, <1>3, <1>4, <1>5, <1>6, <1>7, <1>8, <1>9, <1>10, <1>11, <1>12, <1>13,
            <1>14, <1>15, <1>16, <1>17, <1>18, <1>19, <1>20, <1>21, <1>22, <1>23, <1>24, <1>25,
            <1>26, <1>27, <1>28, <1>29, <1>30, <1>31, <1>32, <1>33, <1>34, <1>35, <1>36, <1>37,
            <1>38

-----------------------------------------------------------------------------
(***************************************************************************)
(* The writes made, as a sequence of sets, one for each call: what a call  *)
(* that writes adds to the sequence, and when it keeps the order.          *)
(***************************************************************************)
\* F and Fcut are of the next M1 alone.
Inner == {"A", "B", "BC", "DE", "H", "HL", "L", "RH", "RL", "RR", "SP", "W", "Z"}
Registers == Inner \cup {"AF", "DH", "EX", "F", "Fcut", "R"}
AnyWrite == [m : 1 .. 7, k : 1 .. 7, reg : Registers]

Good(w) == w \in AnyWrite /\ w.reg \in Inner

LEMMA WGood == \A m, k \in 1 .. 7 : \A r \in Inner : Good(W(m, k, r))
  BY DEF Good, AnyWrite, W, Registers

\* No write inside an instruction is of F: the flags wait for the next M1.
LEMMA InsideType ==
  ASSUME NEW ex \in Classes, NEW d, NEW mode
  PROVE  \A w \in Pointers[ex] \cup Early[ex] \cup AtEnd[ex] \cup Last(ex, mode)
                     \cup Later(ex, d, mode) : Good(w)
<1>1. \A w \in Pointers[ex] : Good(w)
  BY WGood DEF Inner, Pointers
<1>2. \A w \in Early[ex] \cup AtEnd[ex] : Good(w)
  BY WGood DEF Inner, Early, AtEnd
<1>3. \A w \in Last(ex, mode) : Good(w)
  BY WGood DEF Inner, Last, PushSp
<1>4. \A w \in Later(ex, d, mode) : Good(w)
  BY WGood DEF Inner, Later, WZ
<1> QED BY <1>1, <1>2, <1>3, <1>4

\* What a call adds to the writes made so far.
Fits(before, writes) ==
  /\ \A v \in before, w \in writes : v.reg = w.reg => Earlier(v, w)
  /\ \A v, w \in writes : v.reg = w.reg => v = w

\* A call's writes, appended, keep the order if they fit what is made.
LEMMA AppendCall ==
  ASSUME NEW s \in Seq(SUBSET AnyWrite), NEW S, NEW C \in SUBSET AnyWrite,
         SameWrites(s, S), Fits(S, C)
  PROVE  s \o Call(C) \in Seq(SUBSET AnyWrite) /\ SameWrites(s \o Call(C), S \cup C)
<1>1. CASE C = {}
  <2>1. s \o Call(C) = s /\ S \cup C = S
    BY <1>1, ConcatEmptySeq DEF Call
  <2> QED BY <2>1
<1>2. CASE C # {}
  <2> DEFINE t == s \o Call(C)
             n == Len(s)
  <2>1. t = Append(s, C)
    BY <1>2, AppendIsConcat DEF Call
  <2>2. t \in Seq(SUBSET AnyWrite) /\ n \in Nat /\ DOMAIN s = 1 .. n /\ DOMAIN t = 1 .. n + 1
    BY <2>1
  <2>3. (\A i \in 1 .. n : t[i] = s[i]) /\ t[n + 1] = C
    BY <2>1, AppendProperties
  <2> HIDE DEF t, n
  <2>4. UNION {s[i] : i \in 1 .. n} = S
    BY <2>2 DEF SameWrites
  <2>5. \A x : x \in UNION {t[i] : i \in 1 .. n + 1} <=> x \in S \cup C
    <3>1. \A x : x \in S <=> \E i \in 1 .. n : x \in s[i]
      BY <2>4
    <3>2. \A i \in 1 .. n + 1 : i \in 1 .. n \/ i = n + 1
      BY <2>2
    <3>3. 1 .. n \subseteq 1 .. n + 1 /\ n + 1 \in 1 .. n + 1
      BY <2>2
    <3> QED BY <2>3, <3>1, <3>2, <3>3
  <2>6. ASSUME NEW i \in 1 .. n + 1, NEW j \in 1 .. n + 1, NEW v \in t[i], NEW w \in t[j],
               i <= j, v.reg = w.reg
        PROVE  Earlier(v, w) \/ (i = j /\ v = w)
    <3>1. CASE j \in 1 .. n
      <4>1. i \in 1 .. n
        BY <2>2, <2>6, <3>1
      <4>2. v \in s[i] /\ w \in s[j]
        BY <2>3, <3>1, <4>1
      <4> QED BY <2>2, <2>6, <3>1, <4>1, <4>2 DEF SameWrites
    <3>2. CASE j = n + 1 /\ i \in 1 .. n
      <4>1. v \in S /\ w \in C
        BY <2>3, <2>4, <3>2
      <4> QED BY <2>6, <4>1 DEF Fits
    <3>3. CASE j = n + 1 /\ i = n + 1
      BY <2>3, <2>6, <3>3 DEF Fits
    <3> QED BY <2>2, <3>1, <3>2, <3>3
  <2>7. SameWrites(t, S \cup C)
    BY <2>2, <2>5, <2>6 DEF SameWrites
  <2> QED BY <2>2, <2>7 DEF t
<1> QED BY <1>1, <1>2

LEMMA CallType == ASSUME NEW C \in SUBSET AnyWrite PROVE Call(C) \in Seq(SUBSET AnyWrite)
<1>1. << >> \in Seq(SUBSET AnyWrite)
  OBVIOUS
<1>2. <<C>> \in Seq(SUBSET AnyWrite)
  OBVIOUS
<1> QED BY <1>1, <1>2, Zenon DEF Call

\* The calls of one step.
LEMMA WritesAdd ==
  ASSUME NEW S, made \in Seq(SUBSET AnyWrite), SameWrites(made, S),
         Fired \cup Hooked \subseteq AnyWrite, Landed \subseteq AnyWrite, Stepped \subseteq AnyWrite,
         Fits(S, Fired \cup Hooked), Fits(S \cup Fired \cup Hooked, Landed),
         Fits(S \cup Fired \cup Hooked \cup Landed, Stepped)
  PROVE  /\ made \o Writes \in Seq(SUBSET AnyWrite)
         /\ SameWrites(made \o Writes, S \cup Fired \cup Hooked \cup Landed \cup Stepped)
<1> DEFINE A == Fired \cup Hooked
           a == made \o Call(A)
           b == a \o Call(Landed)
<1>1. a \in Seq(SUBSET AnyWrite) /\ SameWrites(a, S \cup A)
  BY AppendCall
<1>2. S \cup A = S \cup Fired \cup Hooked
  OBVIOUS
<1> HIDE DEF a
<1>3. b \in Seq(SUBSET AnyWrite) /\ SameWrites(b, (S \cup A) \cup Landed)
  BY <1>1, <1>2, AppendCall
<1> HIDE DEF b
<1>4. b \o Call(Stepped) \in Seq(SUBSET AnyWrite)
      /\ SameWrites(b \o Call(Stepped), ((S \cup A) \cup Landed) \cup Stepped)
  BY <1>2, <1>3, AppendCall
<1>5. b \o Call(Stepped) = made \o Writes
  <2>1. Call(A) \in Seq(SUBSET AnyWrite) /\ Call(Landed) \in Seq(SUBSET AnyWrite)
        /\ Call(Stepped) \in Seq(SUBSET AnyWrite)
    BY CallType
  <2>2. b = made \o (Call(A) \o Call(Landed))
    BY <2>1, ConcatAssociative DEF a, b
  <2>3. Call(A) \o Call(Landed) \in Seq(SUBSET AnyWrite)
    BY <2>1, ConcatProperties
  <2>4. b \o Call(Stepped) = made \o ((Call(A) \o Call(Landed)) \o Call(Stepped))
    <3>1. (made \o (Call(A) \o Call(Landed))) \o Call(Stepped)
            = made \o ((Call(A) \o Call(Landed)) \o Call(Stepped))
      BY <2>1, <2>3, ConcatAssociative
    <3> QED BY <2>2, <3>1
  <2> QED BY <2>4 DEF Writes
<1> QED BY <1>2, <1>4, <1>5

-----------------------------------------------------------------------------
(***************************************************************************)
(* Whose writes they are: of the instruction under way, or of the one      *)
(* before it until its successor's M1 has decoded the opcode.              *)
(***************************************************************************)
\* The T-state in which a fetch (an acknowledge) changes the instruction the
\* writes are of.
FetchLast == IF bus_op = "M1" THEN 3 ELSE 5
Fetches == bus_op \in {"M1", "INTA"}

\* What the instruction before left pending.
Ended == Deferred(owner.exec, owner.end)

Current == [exec |-> exec, disp |-> disp, im |-> im, end |-> 0]

OwnerType ==
  /\ owner \in [exec : Classes, disp : BOOLEAN, im : 0 .. 2, end : 0 .. 6]
  /\ owner.disp => owner.exec \in DispClasses

InsideInv ==
  ~rst_idle /\ owner.end = 0 =>
    /\ owner = Current /\ results = {} /\ wbp = {}
    /\ Fetches => t_state > FetchLast
    /\ wzp = IF m_cycle = 1 THEN {} ELSE OfMCycle(Later(exec, disp, im), m_cycle)

LeftInv ==
  ~rst_idle /\ owner.end # 0 =>
    /\ Fetches /\ t_state <= FetchLast /\ wzp = {}
    /\ wbp \ {"DEC"} = IF t_state = 1 THEN Ended
                       ELSE IF t_state = 2 /\ ~in_tw THEN Ended \ {"F1", "EXAF"} ELSE {}
    /\ results \subseteq {"R", "F"}
    /\ Ended \cap OweFlags = {} => results = {}
    /\ Ended \cap {"F1", "F16"} # {} => results = {"F"}

IdleInv == rst_idle => results = {} /\ wzp = {}

OwnerInv == OwnerType /\ InsideInv /\ LeftInv /\ IdleInv

\* Where an M-cycle ends the instruction is its own.
LEMMA EndsInside ==
  ASSUME TypeInv, OwnerInv, ~rst_idle, EndsMCycle
  PROVE  owner.end = 0 /\ owner = Current
<1>1. ASSUME owner.end # 0 PROVE FALSE
  BY <1>1 DEF OwnerInv, LeftInv, Fetches, FetchLast, TypeInv, RingType, EndsMCycle
<1> QED BY <1>1 DEF OwnerInv, InsideInv

\* What a step within an M-cycle does to the instruction.
LEMMA InMCycleKeeps ==
  ASSUME InMCycle
  PROVE  /\ wzp' = wzp /\ im' = im
         /\ (exec' = exec /\ disp' = disp) \/ OpcodeLatch(bus_op, t_state + 1, 0)
         /\ (stalled /\ in_tw') \/ (~stalled /\ ~in_tw' /\ Ticks)
         /\ ~Changes => owner' = owner /\ made' = made \o Writes /\ results' = results
         /\ Changes => owner' = Current' /\ made' = << >> /\ results' = {}
<1>1. wzp' = wzp
  BY DEF InMCycle
<1>2. /\ im' = im
      /\ (exec' = exec /\ disp' = disp) \/ OpcodeLatch(bus_op, t_state + 1, 0)
      /\ (stalled /\ in_tw') \/ (~stalled /\ ~in_tw' /\ Ticks)
  <2>1. CASE WaitState
    BY <2>1 DEF WaitState, ring, enables
  <2>2. CASE NextTState \/ LatchM1 \/ LatchINTA
    BY <2>2 DEF NextTState, LatchM1, LatchINTA, Ticks, enables
  <2> QED BY <2>1, <2>2 DEF InMCycle
<1>3. /\ ~Changes => owner' = owner /\ made' = made \o Writes /\ results' = results
      /\ Changes => owner' = [exec |-> exec, disp |-> disp, im |-> im, end |-> 0]
                    /\ made' = << >> /\ results' = {}
  BY DEF InMCycle
<1>4. Changes => exec' = exec /\ disp' = disp
  BY <1>2 DEF Changes, OpcodeLatch
<1> QED BY <1>1, <1>2, <1>3, <1>4 DEF Current

\* A T-state within an M-cycle, the opcode's latch among them, keeps it.
LEMMA InMCycleOwner ==
  ASSUME TypeInv, TypeInv', PendingInv, OwnerInv, InMCycle
  PROVE  OwnerInv'
<1>1. /\ ~rst_idle /\ ~rst_idle' /\ bus_op' = bus_op /\ m_cycle' = m_cycle /\ wzp' = wzp
      /\ t_state \in 1 .. 7 /\ (Fetches <=> Fetches') /\ FetchLast' = FetchLast
      /\ (stalled /\ t_state' = t_state) \/ (~stalled /\ t_state' = t_state + 1)
  BY InMCycleIs, InMCycleKeeps DEF Fetches, FetchLast, TypeInv, RingType
<1>2. CASE Changes
  <2>1. owner' = Current' /\ owner'.end = 0 /\ results' = {}
    BY <1>2, InMCycleKeeps DEF Current
  <2>2. Fetches /\ t_state = FetchLast /\ t_state' = t_state + 1
    BY <1>1, <1>2 DEF Changes, Fetches, FetchLast, Ticks
  <2>3. wbp' = {}
    <3>1. wbp = {}
      BY <2>2 DEF PendingInv, FetchLast
    <3> QED BY <3>1, InMCycleIs DEF LandWrites, pending
  <2>4. owner.end # 0 /\ wzp' = {} /\ m_cycle' = 1
    BY <1>1, <2>2 DEF OwnerInv, InsideInv, LeftInv, FetchLast, Fetches, TypeInv, RingType
  <2>5. OwnerType'
    BY <2>1 DEF OwnerType, Current, TypeInv, ExecType, EnablesType
  <2>6. t_state' > FetchLast'
    BY <1>1, <2>2 DEF FetchLast
  <2> QED BY <1>1, <2>1, <2>3, <2>4, <2>5, <2>6 DEF OwnerInv, InsideInv, LeftInv, IdleInv
<1>3. CASE ~Changes
  <2>1. owner' = owner /\ results' = results
    BY <1>3, InMCycleKeeps
  <2>2. OwnerType' /\ IdleInv'
    BY <1>1, <2>1 DEF OwnerInv, OwnerType, IdleInv
  <2>3. InsideInv'
    <3> SUFFICES ASSUME owner.end = 0 PROVE InsideInv'
      BY <2>1 DEF InsideInv
    <3>1. /\ owner = Current /\ results = {} /\ wbp = {} /\ (Fetches => t_state > FetchLast)
          /\ wzp = IF m_cycle = 1 THEN {} ELSE OfMCycle(Later(exec, disp, im), m_cycle)
      BY <1>1 DEF OwnerInv, InsideInv
    <3>2. exec' = exec /\ disp' = disp /\ im' = im
      BY <1>1, <3>1, InMCycleKeeps DEF OpcodeLatch, Fetches, FetchLast
    <3>3. wbp' = {}
      BY <3>1, InMCycleIs DEF LandWrites, pending
    <3>4. Fetches' => t_state' > FetchLast'
      BY <1>1, <3>1 DEF FetchLast
    <3>5. wzp' = IF m_cycle' = 1 THEN {} ELSE OfMCycle(Later(exec', disp', im'), m_cycle')
      BY <1>1, <3>1, <3>2
    <3> QED BY <2>1, <3>1, <3>2, <3>3, <3>4, <3>5 DEF InsideInv, Current
  <2>4. LeftInv'
    <3> SUFFICES ASSUME owner.end # 0 PROVE LeftInv'
      BY <2>1 DEF LeftInv
    <3>1. /\ Fetches /\ t_state <= FetchLast /\ wzp = {}
          /\ wbp \ {"DEC"} = IF t_state = 1 THEN Ended
                             ELSE IF t_state = 2 /\ ~in_tw THEN Ended \ {"F1", "EXAF"} ELSE {}
          /\ results \subseteq {"R", "F"}
          /\ Ended \cap OweFlags = {} => results = {}
          /\ Ended \cap {"F1", "F16"} # {} => results = {"F"}
      BY <1>1 DEF OwnerInv, LeftInv
    <3>2. t_state' <= FetchLast'
      <4>1. ~stalled => t_state # FetchLast
        BY <1>3, <3>1, InMCycleKeeps DEF Changes, FetchLast, Fetches
      <4> QED BY <1>1, <3>1, <4>1 DEF FetchLast
    <3>3. Ended' = Ended
      BY <2>1 DEF Ended
    <3>4. wbp' \ {"DEC"} = IF t_state' = 1 THEN Ended
                           ELSE IF t_state' = 2 /\ ~in_tw' THEN Ended \ {"F1", "EXAF"} ELSE {}
      <4>1. CASE t_state = 1
        <5>1. ~stalled /\ t_state' = 2 /\ ~in_tw'
          <6>1. ~stalled
            BY <3>1, <4>1 DEF PendingInv, WaitSample, Fetches
          <6> QED BY <1>1, <4>1, <6>1, InMCycleKeeps
        <5>2. wbp' \ {"DEC"} = (wbp \ {"DEC"}) \ {"F1", "EXAF"}
          BY <3>1, <4>1, InMCycleIs DEF LandWrites, Fetches, pending
        <5> QED BY <3>1, <4>1, <5>1, <5>2
      <4>2. CASE t_state = 2 /\ ~in_tw
        <5>1. wbp' = {}
          <6>1. CASE wbp = {}
            BY <6>1, InMCycleIs DEF LandWrites, pending
          <6>2. CASE wbp # {}
            <7>1. (IF t_state = 1 THEN wbp \ {"F1", "EXAF"} ELSE {}) = {}
              BY <4>2
            <7> QED BY <3>1, <4>2, <6>2, <7>1, InMCycleIs DEF LandWrites, Fetches
          <6> QED BY <6>1, <6>2
        <5>2. t_state' # 1 /\ ~(t_state' = 2 /\ ~in_tw')
          BY <1>1, <4>2, InMCycleKeeps
        <5> QED BY <5>1, <5>2
      <4>3. CASE t_state # 1 /\ ~(t_state = 2 /\ ~in_tw)
        <5>1. wbp = {}
          BY <4>3, <1>1 DEF PendingInv
        <5>2. wbp' = {}
          BY <5>1, InMCycleIs DEF LandWrites, pending
        <5>3. t_state' # 1 /\ ~(t_state' = 2 /\ ~in_tw')
          BY <1>1, <4>3, InMCycleKeeps
        <5> QED BY <5>2, <5>3
      <4> QED BY <4>1, <4>2, <4>3
    <3> QED BY <1>1, <2>1, <3>1, <3>2, <3>3, <3>4 DEF LeftInv
  <2> QED BY <2>2, <2>3, <2>4 DEF OwnerInv
<1> QED BY <1>2, <1>3

\* So does an M-cycle's end, which leaves the instruction its owner,
LEMMA NextMCycleOwner ==
  ASSUME TypeInv, TypeInv', PendingInv, OwnerInv, ToNextMCycle
  PROVE  OwnerInv'
<1>1. /\ ~rst_idle /\ ~rst_idle' /\ EndsMCycle /\ GoesOn
      /\ UNCHANGED <<exec, disp, im, owner, results, wbp>>
      /\ wzp' = OfMCycle(Later(exec, disp, im), m_cycle + 1)
  BY DEF ToNextMCycle, NextMCycle, GoesOn, Ticks, Running, enables, pending
<1>2. owner.end = 0 /\ owner = Current /\ results = {} /\ wbp = {}
  BY <1>1, EndsInside DEF OwnerInv, InsideInv
<1>3. m_cycle' = m_cycle + 1 /\ m_cycle' # 1 /\ ~Fetches'
  <2>1. m_cycle' = m_cycle + 1 /\ m_cycle \in 1 .. 6
    BY <1>1 DEF GoesOn, StartMCycle, TypeInv, RingType
  <2> QED BY <2>1 DEF Fetches, TypeInv, RingType
<1>4. wzp' = IF m_cycle' = 1 THEN {} ELSE OfMCycle(Later(exec', disp', im'), m_cycle')
  BY <1>1, <1>3
<1>5. InsideInv'
  BY <1>1, <1>2, <1>3, <1>4 DEF InsideInv, Current
<1>6. OwnerType' /\ LeftInv' /\ IdleInv'
  BY <1>1, <1>2 DEF OwnerInv, OwnerType, LeftInv, IdleInv
<1> QED BY <1>5, <1>6 DEF OwnerInv

\* Of the prefixes only DD CB and FD CB leave the instruction under way.
LEMMA PrefixOwner ==
  ASSUME TypeInv, TypeInv', PendingInv, OwnerInv, AfterPrefix
  PROVE  OwnerInv'
<1>1. /\ ~rst_idle /\ ~rst_idle' /\ EndsMCycle /\ exec \in Prefixes /\ disp' = FALSE
      /\ UNCHANGED <<im, wzp, results, wbp>>
      /\ \/ StartMCycle(Operand) /\ exec' = "DDCB"
         \/ exec' = exec /\ Fetches' /\ t_state' = 1 /\ m_cycle' = 1
  <2>1. ~rst_idle /\ ~rst_idle' /\ UNCHANGED <<im, wzp, results, wbp>> /\ GoesOnPrefix
    BY DEF AfterPrefix, NextPrefix, Ticks, Running, enables, pending
  <2> QED BY <2>1 DEF GoesOnPrefix, StartFetch, Fetches
<1>2. owner.end = 0 /\ owner = Current /\ results = {} /\ wbp = {} /\ m_cycle = 1 /\ ~disp
      /\ wzp = {}
  <2>1. owner.end = 0 /\ owner = Current /\ results = {} /\ wbp = {}
    BY <1>1, EndsInside DEF OwnerInv, InsideInv
  <2>2. m_cycle = 1 /\ ~disp
    BY <1>1 DEF TypeInv, ExecType, DispClasses, Prefixes
  <2> QED BY <1>1, <2>1, <2>2 DEF OwnerInv, InsideInv
<1>3. exec # "DDCB"
  BY <1>1 DEF Prefixes
<1>4. disp = FALSE /\ OwnerType
  BY <1>2 DEF TypeInv, ExecType, OwnerInv
<1>5. CASE exec' = "DDCB" /\ StartMCycle(Operand)
  <2>1. owner' = [owner EXCEPT !.exec = "DDCB"]
    BY <1>5 DEF AfterPrefix
  <2>2. owner' = Current' /\ owner'.end = 0
    <3>1. owner' = [exec |-> "DDCB", disp |-> disp, im |-> im, end |-> 0]
      BY <1>2, <2>1 DEF Current
    <3>2. disp' = disp /\ im' = im /\ exec' = "DDCB"
      BY <1>1, <1>4, <1>5, Zenon
    <3>3. owner' = Current'
      BY <3>1, <3>2, Zenon DEF Current
    <3> QED BY <3>1, <3>3
  <2>3. m_cycle' = 2 /\ ~Fetches'
    BY <1>2, <1>5 DEF StartMCycle, Operand, Fetches
  <2>4. OfMCycle(Later(exec', disp', im'), 2) = {}
    BY <1>1, <1>5 DEF Later, OfMCycle, W
  <2>5. InsideInv'
    BY <1>1, <1>2, <2>2, <2>3, <2>4 DEF InsideInv
  <2>6. OwnerType'
    <3>1. ~owner.disp /\ "DDCB" \in Classes
      BY <1>2, NamedClasses DEF Current
    <3> QED BY <1>4, <2>1, <3>1 DEF OwnerType
  <2>7. LeftInv' /\ IdleInv'
    BY <1>1, <2>2 DEF LeftInv, IdleInv
  <2> QED BY <2>5, <2>6, <2>7 DEF OwnerInv
<1>6. CASE exec' = exec /\ Fetches' /\ t_state' = 1 /\ m_cycle' = 1
  <2>1. owner' = [owner EXCEPT !.end = 1]
    BY <1>2, <1>3, <1>6 DEF AfterPrefix
  <2>2. owner'.end = 1 /\ owner'.exec = exec
    BY <1>2, <1>4, <2>1 DEF Current, OwnerType
  <2>3. Ended' = {}
    BY <1>1, <2>2 DEF Ended, Deferred, AluClasses, Prefixes
  <2>4. t_state' <= FetchLast'
    BY <1>6 DEF FetchLast
  <2>5. LeftInv'
    BY <1>1, <1>2, <1>6, <2>2, <2>3, <2>4 DEF LeftInv
  <2>6. OwnerType'
    BY <1>4, <2>1 DEF OwnerType
  <2>7. InsideInv' /\ IdleInv'
    BY <1>1, <2>2 DEF InsideInv, IdleInv
  <2> QED BY <2>5, <2>6, <2>7 DEF OwnerInv
<1> QED BY <1>1, <1>5, <1>6

\* What an instruction leaves to the next M1, by the kind of its writes.
LEMMA ResultsAre ==
  ASSUME NEW ex, NEW m,
         NEW r \in IF "F16" \in Deferred(ex, m) THEN {{"F"}} ELSE Results(ex, m)
  PROVE  /\ r \subseteq {"R", "F"}
         /\ Deferred(ex, m) \cap OweFlags = {} => r = {}
         /\ Deferred(ex, m) \cap {"F1", "F16"} # {} => r = {"F"}
<1>1. CASE "F16" \in Deferred(ex, m)
  BY <1>1 DEF OweFlags
<1>2. CASE "F16" \notin Deferred(ex, m)
  <2>1. r \in Results(ex, m)
    BY <1>2
  <2>2. r \subseteq {"R", "F"}
    BY <2>1 DEF Results
  <2>3. Deferred(ex, m) \cap OweFlags = {} => r = {}
    <3>1. ASSUME Deferred(ex, m) \cap OweFlags = {}
          PROVE  ex \notin AluClasses \cup {"LDI", "CPI", "INI", "OUTI"}
      BY <3>1 DEF Deferred, OweFlags, AluClasses
    <3> QED BY <2>1, <3>1 DEF Results, AluClasses
  <2>4. "F1" \in Deferred(ex, m) => r = {"F"}
    <3>1. "F1" \in Deferred(ex, m) => ex \in {"CPI", "INI", "OUTI"}
      BY DEF Deferred
    <3> QED BY <2>1, <3>1, FlagResults
  <2> QED BY <1>2, <2>2, <2>3, <2>4
<1> QED BY <1>1, <1>2

\* and an instruction's end, which leaves the owner its pending writes.
LEMMA EndOwner ==
  ASSUME TypeInv, TypeInv', PendingInv, OwnerInv, AtInstructionEnd
  PROVE  OwnerInv'
<1>1. \E replaced \in BOOLEAN : EndInstruction(replaced)
  BY DEF AtInstructionEnd, AcceptNMI, AcceptINT, HaltNOP, NextInstruction
<1>2. ~rst_idle /\ ~rst_idle'
  BY <1>1 DEF EndInstruction, Ticks, Running
<1>3. EndsMCycle /\ t_state' = 1 /\ Fetches'
  BY DEF AtInstructionEnd, AcceptNMI, AcceptINT, HaltNOP, NextInstruction, StartNMI, StartINT,
         StartHalt, StartNext, StartFetch, Finishes, Fetches
<1>4. owner.end = 0 /\ owner = Current /\ OwnerType /\ m_cycle \in 1 .. 6
  BY <1>2, <1>3, EndsInside DEF OwnerInv, TypeInv, RingType
<1>5. /\ owner' = [owner EXCEPT !.end = m_cycle] /\ wzp' = {}
      /\ results' \in IF "F16" \in Deferred(exec, m_cycle) THEN {{"F"}} ELSE Results(exec, m_cycle)
  BY DEF AtInstructionEnd
<1>6. Ended' = Deferred(exec, m_cycle) /\ owner'.end = m_cycle
  BY <1>4, <1>5 DEF Ended, Current, OwnerType
<1>7. wbp' \ {"DEC"} = Deferred(exec, m_cycle)
  <2>1. Left = Deferred(exec, m_cycle) /\ "DEC" \notin Deferred(exec, m_cycle)
    BY <1>3, NothingAtEnd, DeferredType DEF Left
  <2> QED BY <1>1, <2>1 DEF EndInstruction
<1>8. /\ results' \subseteq {"R", "F"}
      /\ Ended' \cap OweFlags = {} => results' = {}
      /\ Ended' \cap {"F1", "F16"} # {} => results' = {"F"}
  BY <1>5, <1>6, ResultsAre
<1>9. OwnerType'
  BY <1>4, <1>5 DEF OwnerType
<1>10. LeftInv'
  BY <1>2, <1>3, <1>5, <1>6, <1>7, <1>8 DEF LeftInv, FetchLast
<1>11. InsideInv' /\ IdleInv'
  BY <1>2, <1>4, <1>6 DEF InsideInv, IdleInv
<1> QED BY <1>9, <1>10, <1>11 DEF OwnerInv

LEMMA OwnerInvStep ==
  ASSUME TypeInv, TypeInv', PendingInv, GrantBetweenMCycles, QInv, OwnerInv, [WbNext]_allvars
  PROVE  OwnerInv'
<1>1. CASE InMCycle
  BY <1>1, InMCycleOwner
<1>2. CASE ToNextMCycle
  BY <1>2, NextMCycleOwner
<1>3. CASE AfterPrefix
  BY <1>3, PrefixOwner
<1>4. CASE AtInstructionEnd
  BY <1>4, EndOwner
<1>5. CASE CutShort
  <2>1. rst_idle' /\ results' = {} /\ wzp' = {} /\ owner' = owner
    BY <1>5 DEF CutShort, Cut, EnterResetIdle
  <2> QED BY <2>1 DEF OwnerInv, OwnerType, InsideInv, LeftInv, IdleInv
<1>6. CASE Restarts
  <2>1. /\ rst_idle /\ ~rst_idle' /\ wbp' = wbp /\ wzp' = wzp /\ results' = results
        /\ bus_op' = "M1" /\ t_state' = 1
        /\ owner' = [exec |-> "NOP", disp |-> FALSE, im |-> 0, end |-> 1]
    BY <1>6 DEF Restarts, Restart, StartFetch, pending
  <2>2. wbp = {} /\ wzp = {} /\ results = {}
    BY <2>1 DEF QInv, OwnerInv, IdleInv
  <2>3. OwnerType' /\ owner'.end = 1 /\ Ended' = {}
    BY <2>1, NamedClasses DEF OwnerType, Ended, Deferred, AluClasses
  <2> QED BY <2>1, <2>2, <2>3 DEF OwnerInv, InsideInv, LeftInv, IdleInv, Fetches, FetchLast
<1>7. CASE FallingEdge /\ UNCHANGED wbvars
  <2>1. UNCHANGED <<rst_idle, owner, results, wzp, wbp, exec, disp, im, bus_op, t_state, m_cycle,
                    in_tw>>
    BY <1>7 DEF FallingEdge, ring, pending, reset, enables, wbvars
  <2> QED BY <2>1 DEF OwnerInv, OwnerType, InsideInv, LeftInv, IdleInv, Fetches, FetchLast, Ended,
                      Current
<1>8. CASE Granted /\ UNCHANGED wbvars
  <2>1. /\ UNCHANGED <<owner, results, wzp, wbp, exec, disp, im, bus_op, t_state, m_cycle>>
        /\ ~rst_idle /\ ~rst_idle' /\ ~in_tw' /\ ~in_tw
    BY <1>8 DEF Granted, Running, ring, pending, enables, wbvars, GrantBetweenMCycles
  <2> QED BY <2>1 DEF OwnerInv, OwnerType, InsideInv, LeftInv, IdleInv, Fetches, FetchLast, Ended,
                      Current
<1>9. CASE ResetHold /\ UNCHANGED wbvars
  <2>1. rst_idle /\ rst_idle' /\ UNCHANGED <<owner, results, wzp>>
    BY <1>9 DEF ResetHold, EnterResetIdle, wbvars
  <2> QED BY <2>1 DEF OwnerInv, OwnerType, InsideInv, LeftInv, IdleInv
<1>10. CASE UNCHANGED allvars
  <2>1. UNCHANGED <<rst_idle, owner, results, wzp, wbp, exec, disp, im, bus_op, t_state, m_cycle,
                    in_tw>>
    BY <1>10 DEF allvars, vars, ring, pending, reset, enables, waits, wbvars
  <2> QED BY <2>1 DEF OwnerInv, OwnerType, InsideInv, LeftInv, IdleInv, Fetches, FetchLast, Ended,
                      Current
<1> QED BY <1>1, <1>2, <1>3, <1>4, <1>5, <1>6, <1>7, <1>8, <1>9, <1>10 DEF WbNext

LEMMA OwnerInvHolds == WbSpec => []OwnerInv
<1>1. WbInit => OwnerInv
  BY NamedClasses DEF WbInit, Init, OwnerInv, OwnerType, InsideInv, LeftInv, IdleInv, Fetches,
                      FetchLast, Ended, Deferred, AluClasses
<1>2. /\ TypeInv /\ TypeInv' /\ PendingInv /\ GrantBetweenMCycles /\ QInv /\ OwnerInv
      /\ [WbNext]_allvars
      => OwnerInv'
  BY OwnerInvStep
<1> QED BY <1>1, <1>2, QInvHolds, WriteBackKeepsCore, TypeInvHolds, PendingInvHolds, GrantSafe,
           PTL DEF WbSpec

-----------------------------------------------------------------------------
(***************************************************************************)
(* The shape of an M-cycle: its bus cycle and length are those of the      *)
(* micro-program's row.                                                    *)
(***************************************************************************)
\* The M-cycle under way is its instruction's.
ShapeInv ==
  /\ m_cycle > 1 =>
       bus_op = BusAt(Cycles(exec, disp), m_cycle) /\ m_len = LenAt(Cycles(exec, disp), m_cycle)
  /\ m_cycle = 1 => Fetches
  /\ bus_op = "M1" => m_len <= 5
  /\ exec = "NMI" => bus_op # "INTA"

\* The next M-cycle is the template's; a prefix's is a fetch.
LEMMA GoesOnShape == ASSUME TypeInv, TypeInv', GoesOn PROVE ShapeInv'
<1> DEFINE c == Cycles(exec, disp)[m_cycle]
<1>1. StartMCycle(c) /\ exec' = exec /\ disp' = disp
  BY DEF GoesOn
<1>2. bus_op' = c.bus /\ m_len' = CycleLen(c) /\ m_cycle' = m_cycle + 1 /\ m_cycle \in 1 .. 6
  BY <1>1 DEF StartMCycle, CycleLen, TypeInv, RingType
<1>3. Cycles(exec', disp')[m_cycle' - 1] = c
  BY <1>1, <1>2
<1>4. bus_op' \notin {"M1", "INTA"} /\ m_cycle' # 1
  BY <1>2 DEF TypeInv, RingType
<1> QED BY <1>2, <1>3, <1>4 DEF ShapeInv, BusAt, LenAt

LEMMA PrefixShape == ASSUME TypeInv, GoesOnPrefix PROVE ShapeInv'
<1>1. exec \in Prefixes /\ disp' = FALSE /\ m_cycle = 1
  BY DEF GoesOnPrefix, TypeInv, ExecType
<1>2. CASE StartMCycle(Operand) /\ exec' = "DDCB"
  <2>1. bus_op' = Operand.bus /\ m_len' = CycleLen(Operand) /\ m_cycle' = 2
    BY <1>1, <1>2 DEF StartMCycle, CycleLen
  <2>2. Template["DDCB"] = <<Operand, Operand, Internal(2), Long(Read, 1), Write>>
    BY GroupTemplates DEF IndexedBit
  <2>3. Cycles(exec', disp') = Template["DDCB"]
    BY <1>1, <1>2 DEF Cycles
  <2>4. Cycles(exec', disp')[m_cycle' - 1] = Operand
    BY <2>1, <2>2, <2>3
  <2>5. bus_op' = "MRD"
    BY <2>1, Pieces
  <2>6. m_cycle' # 1 /\ exec' # "NMI" /\ bus_op' # "M1"
    BY <1>2, <2>1, <2>5
  <2>7. bus_op' = BusAt(Cycles(exec', disp'), m_cycle') /\ m_len' = LenAt(Cycles(exec', disp'), m_cycle')
    BY <2>1, <2>4 DEF BusAt, LenAt
  <2> QED BY <2>6, <2>7 DEF ShapeInv
<1>3. CASE exec' = exec /\ (StartFetch("INTA", 6, pc) \/ StartFetch("M1", 4, pc))
  BY <1>1, <1>3 DEF StartFetch, ShapeInv, Prefixes, Fetches
<1> QED BY <1>1, <1>2, <1>3 DEF GoesOnPrefix

LEMMA ShapeInvStep == ASSUME TypeInv, TypeInv', ShapeInv, [Next]_vars PROVE ShapeInv'
<1>1. CASE UNCHANGED ring
  BY <1>1 DEF ring, ShapeInv, Fetches
<1>2. CASE NextT /\ UNCHANGED <<exec, disp>>
  BY <1>2 DEF NextT, ShapeInv, Fetches
<1>3. CASE LatchM1 \/ LatchINTA
  <2>1. NextT /\ bus_op \in {"M1", "INTA"}
    BY <1>3 DEF LatchM1, LatchINTA
  <2>2. bus_op = "INTA" => (exec' = exec \/ Decode)
    BY <1>3 DEF LatchM1, LatchINTA
  <2>3. m_cycle' = 1 /\ bus_op' = bus_op /\ m_len' = m_len
    BY <2>1 DEF NextT, TypeInv, RingType
  <2> QED BY <2>1, <2>2, <2>3, DecodeType DEF ShapeInv, Fetches
<1>4. ASSUME NEW a, NEW mode, Boundary(a, mode) PROVE ShapeInv'
  BY <1>4 DEF Boundary, StartNMI, StartINT, StartHalt, StartNext, StartFetch, ShapeInv, Fetches
<1>5. CASE AcceptNMI \/ AcceptINT \/ HaltNOP \/ NextInstruction
  BY <1>4, <1>5 DEF AcceptNMI, AcceptINT, HaltNOP, NextInstruction, Boundary
<1>6. CASE Cut
  BY <1>1, <1>2, <1>4, <1>6, GoesOnShape, PrefixShape DEF Cut
<1>7. CASE Restart
  BY <1>7 DEF Restart, StartFetch, ShapeInv, Fetches
<1>8. CASE NextMCycle \/ NextPrefix
  BY <1>8, GoesOnShape, PrefixShape DEF NextMCycle, NextPrefix
<1>9. CASE FallingEdge \/ Granted \/ WaitState \/ ResetHold \/ UNCHANGED vars
  BY <1>1, <1>9 DEF FallingEdge, Granted, WaitState, ResetHold, vars
<1>10. CASE NextTState
  BY <1>2, <1>10 DEF NextTState
<1> QED BY <1>3, <1>5, <1>6, <1>7, <1>8, <1>9, <1>10 DEF Next

LEMMA ShapeInvHolds == Spec => []ShapeInv
<1>1. Init => ShapeInv
  BY DEF Init, ShapeInv, Fetches
<1>2. TypeInv /\ TypeInv' /\ ShapeInv /\ [Next]_vars => ShapeInv'
  BY ShapeInvStep
<1> QED BY <1>1, <1>2, TypeInvHolds, PTL DEF Spec

-----------------------------------------------------------------------------
(***************************************************************************)
(* Inside an instruction: what a T-state makes of what its M-cycle has.    *)
(***************************************************************************)
\* (IX+d) goes with classes that write WZ alone.
LEMMA TablesHold ==
  ASSUME NEW ex \in Classes, NEW d \in BOOLEAN, d => ex \in DispClasses, NEW mode \in 0 .. 2
  PROVE  Tables(ex, Cycles(ex, d), Later(ex, d, mode), mode)
<1>1. CASE ~d
  <2>1. Cycles(ex, d) = Template[ex] /\ Later(ex, d, mode) = LaterOf(ex, mode)
    BY <1>1 DEF Cycles, LaterOf, Later
  <2> QED BY <2>1, Rows
<1>2. CASE d
  <2>1. /\ Pointers[ex] = {} /\ Early[ex] = {} /\ AtEnd[ex] = {}
        /\ Last(ex, mode) = {} /\ Later(ex, d, mode) = {W(3, 2, "Z"), W(3, 5, "W")}
    BY <1>2 DEF DispClasses, Pointers, Early, AtEnd, PushSp, TwoOperands, Last, Later, WZ
  <2>2. BusAt(Cycles(ex, d), 3) \in {"MRD", "INTERNAL"}
    <3>1. CASE ex = "LD_M_N"
      BY <1>2, <3>1, Pieces DEF BusAt, Cycles
    <3>2. CASE ex # "LD_M_N"
      <4>1. Cycles(ex, d) = <<Operand, Internal(5)>> \o Template[ex]
        BY <1>2, <3>2 DEF Cycles
      <4>2. Template[ex] \in Seq(GoodCycle) /\ <<Operand, Internal(5)>> \in Seq(GoodCycle)
        BY PiecesGood, TemplateShort, SeqsShort DEF Short
      <4>3. (<<Operand, Internal(5)>> \o Template[ex])[2] = Internal(5)
        BY <4>2
      <4> QED BY <4>1, <4>3, Pieces DEF BusAt
    <3> QED BY <3>1, <3>2
  <2> HIDE DEF Tables
  <2>3. ASSUME NEW cs, NEW later, later = {W(3, 2, "Z"), W(3, 5, "W")},
               BusAt(cs, 3) \in {"MRD", "INTERNAL"}
        PROVE  Tables(ex, cs, later, mode)
    BY <2>1, <2>3 DEF Tables, Own, Once, PointersPlaced, AtEndPlaced, LastPlaced, LaterPlaced,
                      LandFirst, EarlyPlaced, WaitSample, W
  <2> QED BY <2>1, <2>2, <2>3
<1> QED BY <1>1, <1>2

TablesNow == Tables(exec, Cycles(exec, disp), Later(exec, disp, im), im)

OwnNow == Own(exec, im)
LaterNow == Later(exec, disp, im)

\* Inside an instruction: its writes are those of the tables.
Under ==
  /\ ~rst_idle /\ owner.end = 0 /\ owner = Current
  /\ exec \in Classes /\ t_state \in 1 .. m_len /\ m_len \in 1 .. 7 /\ m_cycle \in 1 .. 6
  /\ TablesNow /\ ShapeInv
  /\ wzp = OfMCycle(LaterNow, m_cycle)
  /\ Fetches => t_state > 2

\* Under follows from the invariants.
LEMMA UnderIs ==
  ASSUME TypeInv, ShapeInv, OwnerInv, ~rst_idle, owner.end = 0
  PROVE  Under
<1>1. TablesNow
  BY TablesHold DEF TablesNow, TypeInv, ExecType, EnablesType
<1>2. LaterPlaced(Cycles(exec, disp), LaterNow)
  BY <1>1 DEF TablesNow, Tables, LaterNow
<1>3. OfMCycle(LaterNow, 1) = {}
  BY <1>2 DEF LaterPlaced, OfMCycle
<1>4. wzp = OfMCycle(LaterNow, m_cycle)
  BY <1>3 DEF OwnerInv, InsideInv, LaterNow
<1>5. Fetches => t_state > 2
  BY DEF OwnerInv, InsideInv, FetchLast, TypeInv, RingType
<1> QED BY <1>1, <1>4, <1>5 DEF Under, OwnerInv, InsideInv, TypeInv, RingType, ExecType

LEMMA InsideIs ==
  ASSUME Under
  PROVE  /\ Inside = OwnNow \cup Early[exec] \cup LaterNow
         /\ \A w \in Inside : w \in AnyWrite /\ w.reg \in Inner
<1>1. Inside = OwnNow \cup Early[exec] \cup LaterNow
  BY DEF Under, Inside, Current, OwnNow, Own, LaterNow
<1>2. \A w \in OwnNow \cup Early[exec] \cup LaterNow : Good(w)
  BY InsideType DEF Under, OwnNow, Own, LaterNow
<1> QED BY <1>1, <1>2 DEF Good

ReachedIn(w) ==
  IF w \in Early[exec]
  THEN m_cycle > EarlyM(exec) \/ (m_cycle = EarlyM(exec) /\ t_state > EarlyT(exec))
  ELSE w.m < m_cycle

DoneIn == {w \in Inside : ReachedIn(w)}

\* The one write ahead of its M-cycle's end: where it stands and when it is made.
LEMMA EarlyIs ==
  ASSUME Under, NEW e \in Early[exec]
  PROVE  /\ e.m = 3 /\ EarlyM(exec) \in 3 .. 4 /\ EarlyT(exec) \in 1 .. 3
         /\ exec = "EX_SP_HL" <=> EarlyM(exec) = 4
         /\ exec = "EX_SP_HL" => e.k = 4 /\ EarlyT(exec) = 1
         /\ exec # "EX_SP_HL" => e.k = EarlyT(exec) - 1
         /\ Early[exec] = {e}
         /\ \A w \in OwnNow : w.reg = e.reg => e.m < w.m
         /\ \A w \in LaterNow : w.reg # e.reg
         /\ e \notin OwnNow /\ e \notin LaterNow
         /\ m_cycle = EarlyM(exec) => m_len > EarlyT(exec) /\ WbMid
<1>1. EarlyPlaced(exec, Cycles(exec, disp), im) /\ LaterPlaced(Cycles(exec, disp), LaterNow)
  BY DEF Under, TablesNow, Tables, LaterNow
<1>2. /\ e.m = 3 /\ EarlyM(exec) \in 3 .. 4 /\ EarlyT(exec) \in 1 .. 3
      /\ exec = "EX_SP_HL" <=> EarlyM(exec) = 4
      /\ exec = "EX_SP_HL" => e.k = 4 /\ EarlyT(exec) = 1
      /\ exec # "EX_SP_HL" => e.k = EarlyT(exec) - 1
  BY <1>1 DEF EarlyPlaced, EarlyM, EarlyT
<1>3. Early[exec] = {e} /\ (\A w \in OwnNow : w.reg = e.reg => e.m < w.m)
  BY <1>1 DEF EarlyPlaced, OwnNow
<1>4. \A w \in LaterNow : w.reg # e.reg
  BY <1>1 DEF EarlyPlaced, LaterPlaced
<1>5. m_cycle = EarlyM(exec) => m_len > EarlyT(exec) /\ WbMid
  <2> SUFFICES ASSUME m_cycle = EarlyM(exec) PROVE m_len > EarlyT(exec) /\ WbMid
    OBVIOUS
  <2>1. m_len > EarlyT(exec)
    BY <1>1, <1>2 DEF EarlyPlaced, Under, ShapeInv
  <2>2. WbMid
    BY <1>1 DEF EarlyPlaced, WbMid, EarlyM
  <2> QED BY <2>1, <2>2
<1>6. e \notin OwnNow /\ e \notin LaterNow
  BY <1>2, <1>3, <1>4
<1> QED BY <1>2, <1>3, <1>4, <1>5, <1>6

-----------------------------------------------------------------------------
(***************************************************************************)
(* The T-states of an M-cycle but its last.                                *)
(***************************************************************************)
\* A write to come follows those of its register that are made.
LEMMA DoneBefore ==
  ASSUME Under, NEW v \in DoneIn, NEW w \in OwnNow \cup LaterNow, w.m = m_cycle, v.reg = w.reg
  PROVE  Earlier(v, w)
<1>1. CASE v \in Early[exec]
  <2>1. w \in OwnNow /\ v.m < w.m
    BY <1>1, EarlyIs
  <2> QED BY <2>1 DEF Earlier
<1>2. CASE v \notin Early[exec]
  BY <1>2 DEF DoneIn, ReachedIn, Earlier
<1> QED BY <1>1, <1>2

\* No other write of its register is made before it.
LEMMA EarlyAfter ==
  ASSUME Under, NEW v \in DoneIn, NEW e \in Early[exec], m_cycle <= EarlyM(exec), v.reg = e.reg
  PROVE  v = e
<1>1. v \in OwnNow \cup Early[exec] \cup LaterNow
  BY InsideIs DEF DoneIn
<1>2. v \notin LaterNow
  BY EarlyIs
<1>3. ASSUME v \in OwnNow PROVE FALSE
  <2>1. 3 < v.m /\ v \notin Early[exec] /\ EarlyM(exec) \in 3 .. 4
    BY <1>3, EarlyIs
  <2>2. v.m < m_cycle /\ m_cycle \in 1 .. 6 /\ v.m \in 1 .. 7
    BY <2>1, InsideIs DEF DoneIn, ReachedIn, Under, AnyWrite
  <2> QED BY <2>1, <2>2
<1> QED BY <1>1, <1>2, <1>3, EarlyIs

\* Within an M-cycle wb_hooks() makes the early writes of the T-state.
LEMMA HooksAre ==
  ASSUME Under, t_state < m_len
  PROVE  (IF WbMid THEN Hooks(t_state) ELSE {})
           = {e \in Early[exec] : m_cycle = EarlyM(exec) /\ t_state = EarlyT(exec)}
<1>1. CASE Early[exec] = {}
  <2>1. ASSUME NEW w \in Pointers[exec], w.m = m_cycle, w.k = 2, t_state = 3 PROVE FALSE
    <3>1. w.m > 1 /\ LenAt(Cycles(exec, disp), w.m) = 3
      BY DEF Under, TablesNow, Tables, PointersPlaced
    <3>2. m_len = 3
      BY <2>1, <3>1 DEF Under, ShapeInv
    <3> QED BY <2>1, <3>2
  <2>2. Hooks(t_state) = {}
    BY <1>1, <2>1 DEF Hooks
  <2> QED BY <1>1, <2>2
<1>2. CASE Early[exec] # {}
  <2>1. PICK e \in Early[exec] : TRUE
    BY <1>2
  <2>2. Early[exec] = {e} /\ e.m = 3 /\ EarlyM(exec) \in 3 .. 4 /\ EarlyT(exec) \in 1 .. 3
        /\ (exec = "EX_SP_HL" <=> EarlyM(exec) = 4)
        /\ (exec = "EX_SP_HL" => e.k = 4 /\ EarlyT(exec) = 1)
        /\ (exec # "EX_SP_HL" => e.k = EarlyT(exec) - 1)
        /\ (m_cycle = EarlyM(exec) => WbMid)
    BY EarlyIs
  <2>3. ASSUME WbMid PROVE m_cycle = EarlyM(exec)
    BY <2>3 DEF WbMid, EarlyM
  <2>4. ASSUME NEW w \in Pointers[exec], w.m = m_cycle, w.k = 2, t_state = 3 PROVE FALSE
    <3>1. w.m > 1 /\ LenAt(Cycles(exec, disp), w.m) = 3
      BY DEF Under, TablesNow, Tables, PointersPlaced
    <3>2. m_len = 3
      BY <2>4, <3>1 DEF Under, ShapeInv
    <3> QED BY <2>4, <3>2
  <2>5. ASSUME m_cycle = EarlyM(exec), t_state \in 1 .. 7
        PROVE  Hooks(t_state) = {w \in {e} : t_state = EarlyT(exec)}
    <3>1. CASE t_state = 1
      <4>1. Hooks(t_state) = {w \in {e} : w.m + 1 = m_cycle /\ w.k = 4}
        BY <2>2, <3>1 DEF Hooks
      <4>2. (e.m + 1 = m_cycle /\ e.k = 4) <=> t_state = EarlyT(exec)
        <5>1. CASE exec = "EX_SP_HL"
          BY <2>2, <2>5, <3>1, <5>1
        <5>2. CASE exec # "EX_SP_HL"
          <6>1. e.k = EarlyT(exec) - 1 /\ e.k # 4 /\ e.m = 3 /\ m_cycle # 4
            BY <2>2, <2>5, <5>2
          <6>2. EarlyT(exec) # 1
            BY <2>1, <2>2, <5>2 DEF EarlyT, Early
          <6> QED BY <3>1, <6>1, <6>2
        <5> QED BY <5>1, <5>2
      <4> QED BY <4>1, <4>2
    <3>2. CASE t_state = 2
      <4>1. Hooks(t_state) = {w \in {e} : w.m = m_cycle /\ w.k = 1}
        BY <2>2, <3>2 DEF Hooks
      <4> QED BY <2>2, <2>5, <3>2, <4>1
    <3>3. CASE t_state = 3
      <4>1. Hooks(t_state) = {w \in {e} : w.m = m_cycle /\ w.k = 2}
        BY <2>2, <2>4, <3>3 DEF Hooks
      <4> QED BY <2>2, <2>5, <3>3, <4>1
    <3>4. CASE t_state \notin 1 .. 3
      <4>1. Hooks(t_state) = {}
        BY <3>4, <2>5 DEF Hooks
      <4> QED BY <2>2, <3>4, <4>1
    <3> QED BY <3>1, <3>2, <3>3, <3>4
  <2>6. t_state \in 1 .. 7
    BY DEF Under
  <2> QED BY <2>2, <2>3, <2>5, <2>6
<1> QED BY <1>1, <1>2

\* A step within an M-cycle makes the early writes whose T-state it ends.
LEMMA UnderInMCycle ==
  ASSUME TypeInv, PendingInv, OwnerInv, Under, InMCycle, ~Changes,
         made \in Seq(SUBSET AnyWrite), SameWrites(made, DoneIn)
  PROVE  made' \in Seq(SUBSET AnyWrite) /\ SameWrites(made', DoneIn')
<1> DEFINE New == {e \in Early[exec] : ~stalled /\ m_cycle = EarlyM(exec) /\ t_state = EarlyT(exec)}
<1>1. /\ ~res2 /\ ~bus_granted /\ wbp = {} /\ made' = made \o Writes /\ owner' = owner
      /\ im' = im /\ m_cycle' = m_cycle
      /\ (stalled /\ t_state' = t_state) \/ (~stalled /\ t_state' = t_state + 1 /\ t_state < m_len)
  <2>1. stalled \/ t_state < m_len
    BY DEF InMCycle, WaitState, NextTState, LatchM1, LatchINTA, NextT
  <2> QED BY <2>1, InMCycleIs, InMCycleKeeps DEF Under, OwnerInv, InsideInv
<1>2. exec' = exec
  <2>1. ~OpcodeLatch(bus_op, t_state + 1, 0)
    BY DEF Under, Fetches, OwnerInv, InsideInv, FetchLast, OpcodeLatch
  <2> QED BY <2>1, InMCycleKeeps
<1>3. ~MCycleEnds
  BY <1>1 DEF MCycleEnds, Under
<1>4. Fired = {} /\ Landed = {} /\ Stepped = {}
  BY <1>1, <1>3 DEF Fired, FiresF1, FiresALU, FiresF16, Owes, Landed, Stepped
<1>5. Hooked = New
  <2>1. CASE stalled
    BY <1>1, <2>1 DEF Hooked
  <2>2. CASE ~stalled
    BY <1>1, <1>3, <2>2, HooksAre DEF Hooked
  <2> QED BY <2>1, <2>2
<1>6. DoneIn' = DoneIn \cup New
  <2>1. Inside' = Inside
    BY <1>1 DEF Inside
  <2>2. \A w \in Inside : ReachedIn(w)' <=> ReachedIn(w) \/ w \in New
    <3> SUFFICES ASSUME NEW w \in Inside PROVE ReachedIn(w)' <=> ReachedIn(w) \/ w \in New
      OBVIOUS
    <3>1. CASE w \in Early[exec]
      <4>1. EarlyT(exec) \in 1 .. 3 /\ EarlyM(exec) \in 3 .. 4
        BY <3>1, EarlyIs
      <4>2. t_state \in 1 .. 7 /\ m_cycle \in 1 .. 6
        BY DEF Under
      <4> HIDE DEF New
      <4>3. w \in New <=> (~stalled /\ m_cycle = EarlyM(exec) /\ t_state = EarlyT(exec))
        BY <3>1 DEF New
      <4>4. ReachedIn(w) <=> m_cycle > EarlyM(exec)
                             \/ (m_cycle = EarlyM(exec) /\ t_state > EarlyT(exec))
        BY <3>1 DEF ReachedIn
      <4>5. ReachedIn(w)' <=> m_cycle > EarlyM(exec)
                             \/ (m_cycle = EarlyM(exec) /\ t_state' > EarlyT(exec))
        BY <1>1, <1>2, <3>1 DEF ReachedIn
      <4> QED BY <1>1, <4>1, <4>2, <4>3, <4>4, <4>5
    <3>2. CASE w \notin Early[exec]
      BY <1>1, <1>2, <3>2 DEF ReachedIn
    <3> QED BY <3>1, <3>2
  <2>3. New \subseteq Inside
    BY InsideIs
  <2> HIDE DEF New
  <2> QED BY <2>1, <2>2, <2>3 DEF DoneIn
<1>7. New \subseteq AnyWrite
  BY InsideIs
<1>8. Fits(DoneIn, New)
  <2>1. ASSUME NEW v \in DoneIn, NEW w \in New, v.reg = w.reg PROVE FALSE
    <3>1. w \in Early[exec] /\ m_cycle = EarlyM(exec) /\ t_state = EarlyT(exec)
      OBVIOUS
    <3>2. EarlyT(exec) \in 1 .. 3 /\ EarlyM(exec) \in 3 .. 4
      BY <3>1, EarlyIs
    <3>3. v = w
      BY <2>1, <3>1, <3>2, EarlyAfter
    <3> QED BY <3>1, <3>2, <3>3 DEF DoneIn, ReachedIn
  <2>2. \A v, w \in New : v = w
    BY EarlyIs
  <2> QED BY <2>1, <2>2 DEF Fits
<1> HIDE DEF New
<1>9. Fits(DoneIn \cup New, {})
  BY DEF Fits
<1>10. Fired \cup Hooked = New /\ DoneIn \cup Fired \cup Hooked = DoneIn \cup New
       /\ DoneIn \cup Fired \cup Hooked \cup Landed = DoneIn \cup New
       /\ DoneIn \cup Fired \cup Hooked \cup Landed \cup Stepped = DoneIn \cup New
  BY <1>4, <1>5
<1> QED BY <1>1, <1>4, <1>6, <1>7, <1>8, <1>9, <1>10, WritesAdd

-----------------------------------------------------------------------------
(***************************************************************************)
(* The last T-state of an M-cycle, and the step to the next one.           *)
(***************************************************************************)
\* The writes made by the end of the M-cycle.
DoneByEnd ==
  {w \in Inside : IF w \in Early[exec] THEN m_cycle >= EarlyM(exec) ELSE w.m <= m_cycle}

\* The last T-state makes what the M-cycle still owes.
LEMMA EndMade ==
  ASSUME TypeInv, PendingInv, OwnerInv, Under, Ticks, EndsMCycle,
         made \in Seq(SUBSET AnyWrite), SameWrites(made, DoneIn)
  PROVE  made \o Writes \in Seq(SUBSET AnyWrite) /\ SameWrites(made \o Writes, DoneByEnd)
<1> DEFINE L == OfMCycle(LaterNow, m_cycle)
           O == OfMCycle(OwnNow, m_cycle)
<1>1. ~stalled /\ ~bus_granted /\ ~res2 /\ wbp = {} /\ MCycleEnds
  BY DEF Ticks, Running, Under, OwnerInv, InsideInv, EndsMCycle, MCycleEnds
<1>2. Fired = {} /\ Hooked = {}
  BY <1>1 DEF Fired, FiresF1, FiresALU, FiresF16, Owes, Hooked
<1>3. Landed = L
  BY <1>1 DEF Landed, Under
<1>4. Stepped = O
  <2>1. (Pointers[exec] \cup AtEnd[exec] \cup Last(exec, im)) \ {} = OwnNow
    BY DEF OwnNow, Own
  <2> QED BY <1>1, <2>1 DEF Stepped
<1>5. L \subseteq Inside /\ O \subseteq Inside
  BY InsideIs DEF OfMCycle
<1>6. L \subseteq AnyWrite /\ O \subseteq AnyWrite
  BY <1>5, InsideIs
<1>7. DoneByEnd = (DoneIn \cup L) \cup O
  <2>1. \A w \in Inside : w \in DoneByEnd <=> w \in DoneIn \/ w \in L \/ w \in O
    <3> SUFFICES ASSUME NEW w \in Inside
                 PROVE  w \in DoneByEnd <=> w \in DoneIn \/ w \in L \/ w \in O
      OBVIOUS
    <3>1. m_cycle \in 1 .. 6 /\ w.m \in 1 .. 7
      BY InsideIs DEF Under, AnyWrite
    <3>2. CASE w \in Early[exec]
      <4>1. w \notin L /\ w \notin O
        BY <3>2, EarlyIs DEF OfMCycle
      <4>2. EarlyM(exec) \in 3 .. 4 /\ (m_cycle = EarlyM(exec) => t_state > EarlyT(exec))
        BY <1>1, <3>2, EarlyIs DEF MCycleEnds
      <4>3. w \in DoneIn <=> m_cycle >= EarlyM(exec)
        BY <3>1, <3>2, <4>2 DEF DoneIn, ReachedIn
      <4> QED BY <3>2, <4>1, <4>3 DEF DoneByEnd
    <3>3. CASE w \notin Early[exec]
      <4>1. w \in OwnNow \cup LaterNow
        BY <3>3, InsideIs
      <4>2. w \in L \/ w \in O <=> w.m = m_cycle
        BY <4>1 DEF OfMCycle
      <4>3. w \in DoneIn <=> w.m < m_cycle
        BY <3>3 DEF DoneIn, ReachedIn
      <4>4. w \in DoneByEnd <=> w.m <= m_cycle
        BY <3>3 DEF DoneByEnd
      <4> QED BY <3>1, <4>2, <4>3, <4>4
    <3> QED BY <3>2, <3>3
  <2>2. DoneByEnd \subseteq Inside /\ DoneIn \subseteq Inside
    BY DEF DoneByEnd, DoneIn
  <2> HIDE DEF L, O
  <2> QED BY <1>5, <2>1, <2>2
<1>8. Fits(DoneIn, L)
  <2>1. \A v \in DoneIn, w \in L : v.reg = w.reg => Earlier(v, w)
    BY DoneBefore DEF OfMCycle
  <2>2. Once(LaterNow)
    BY DEF Under, TablesNow, Tables, LaterPlaced, LaterNow
  <2> QED BY <2>1, <2>2 DEF Fits, Once, OfMCycle
<1>9. Fits(DoneIn \cup L, O)
  <2>1. \A v \in DoneIn, w \in O : v.reg = w.reg => Earlier(v, w)
    BY DoneBefore DEF OfMCycle
  <2>2. Once(OwnNow) /\ LandFirst(exec, LaterNow, im)
    BY DEF Under, TablesNow, Tables, OwnNow, LaterNow
  <2>3. \A v \in L, w \in O : v.reg = w.reg => Earlier(v, w)
    BY <2>2 DEF OfMCycle, LandFirst, OwnNow, Earlier
  <2>4. \A v, w \in O : v.reg = w.reg => v = w
    BY <2>2 DEF Once, OfMCycle
  <2> QED BY <2>1, <2>3, <2>4 DEF Fits
<1> HIDE DEF L, O
<1>10. Fits(DoneIn, {}) /\ {} \subseteq AnyWrite
  BY DEF Fits
<1>11. Fired \cup Hooked = {} /\ DoneIn \cup Fired \cup Hooked = DoneIn
       /\ DoneIn \cup Fired \cup Hooked \cup Landed = DoneIn \cup L
       /\ DoneIn \cup Fired \cup Hooked \cup Landed \cup Stepped = (DoneIn \cup L) \cup O
  BY <1>2, <1>3, <1>4
<1> QED BY <1>3, <1>4, <1>6, <1>7, <1>8, <1>9, <1>10, <1>11, WritesAdd

\* What of the writes the state says were made.
ReachedLeft(w) ==
  \/ w.m <= owner.end
  \/ t_state > 2 \/ in_tw
  \/ t_state = 2 /\ (w.reg = "AF" \/ (w.reg = "F" /\ "F1" \in Ended))

DoneLeft == {w \in Owed : ReachedLeft(w)}

Done == IF owner.end = 0 THEN DoneIn ELSE DoneLeft

MadeIs(done) == made \in Seq(SUBSET AnyWrite) /\ SameWrites(made, done)

MadeInv == ~rst_idle => MadeIs(Done)

\* The four ways an M-cycle ends keep MadeInv.
LEMMA NextMCycleMade ==
  ASSUME TypeInv, TypeInv', PendingInv, OwnerInv, ShapeInv, MadeInv, ToNextMCycle
  PROVE  MadeInv'
<1>1. /\ ~rst_idle /\ ~rst_idle' /\ EndsMCycle /\ GoesOn /\ Ticks
      /\ UNCHANGED <<exec, disp, im, owner>>
      /\ made' = made \o Writes
  BY DEF ToNextMCycle, NextMCycle, GoesOn, Ticks, Running, enables
<1>2. owner.end = 0 /\ Under
  BY <1>1, EndsInside, UnderIs
<1>3. MadeIs(DoneIn)
  BY <1>1, <1>2 DEF MadeInv, Done
<1>4. made' \in Seq(SUBSET AnyWrite) /\ SameWrites(made', DoneByEnd)
  BY <1>1, <1>2, <1>3, EndMade DEF MadeIs
<1>5. m_cycle' = m_cycle + 1 /\ t_state' = 1 /\ m_cycle \in 1 .. 6
  BY <1>1 DEF GoesOn, StartMCycle, TypeInv, RingType
<1>6. DoneIn' = DoneByEnd
  <2>1. Inside' = Inside
    BY <1>1 DEF Inside
  <2>2. ASSUME NEW w \in Inside
        PROVE  ReachedIn(w)'
                 <=> IF w \in Early[exec] THEN m_cycle >= EarlyM(exec) ELSE w.m <= m_cycle
    <3>1. CASE w \in Early[exec]
      <4>1. EarlyT(exec) \in 1 .. 3 /\ EarlyM(exec) \in 3 .. 4
        BY <1>2, <3>1, EarlyIs
      <4> QED BY <1>1, <1>5, <3>1, <4>1 DEF ReachedIn
    <3>2. CASE w \notin Early[exec]
      <4>1. w.m \in 1 .. 7
        BY <1>2, InsideIs DEF AnyWrite
      <4> QED BY <1>1, <1>5, <3>2, <4>1 DEF ReachedIn
    <3> QED BY <3>1, <3>2
  <2> QED BY <2>1, <2>2 DEF DoneIn, DoneByEnd
<1> QED BY <1>1, <1>2, <1>4, <1>6 DEF MadeInv, MadeIs, Done

\* EX (SP),HL has no early end.
LEMMA ExchangeLen == ASSUME TypeInv, Finishes, exec = "EX_SP_HL" PROVE m_cycle = 5
<1>1. Cycles(exec, disp) = <<Read, Long(Read, 1), Write, Long(Write, 2)>>
  BY GroupTemplates DEF Stack, Cycles, TypeInv, ExecType, DispClasses
<1>2. Len(Cycles(exec, disp)) = 4
  BY <1>1
<1>3. <<exec, m_cycle>> \notin Conditional /\ exec # "INT"
  BY DEF Conditional
<1>4. m_cycle = 1 + Len(Cycles(exec, disp))
  BY <1>3, Zenon DEF Finishes, MayEnd
<1> QED BY <1>2, <1>4

LEMMA EndInstructionMade ==
  ASSUME TypeInv, TypeInv', PendingInv, OwnerInv, ShapeInv, MadeInv, AtInstructionEnd
  PROVE  MadeInv'
<1>1. /\ ~rst_idle /\ ~rst_idle' /\ Ticks /\ ~in_tw'
  <2>1. \E replaced \in BOOLEAN : EndInstruction(replaced)
    BY DEF AtInstructionEnd, AcceptNMI, AcceptINT, HaltNOP, NextInstruction
  <2>2. Ticks
    BY <2>1 DEF EndInstruction
  <2>3. in_tw' = FALSE /\ rst_idle' = FALSE /\ ~rst_idle
    BY <2>2 DEF Ticks, Running
  <2> QED BY <2>2, <2>3, Zenon
<1>2. Finishes /\ EndsMCycle /\ t_state' = 1
  BY DEF AtInstructionEnd, AcceptNMI, AcceptINT, HaltNOP, NextInstruction, StartNMI, StartINT,
         StartHalt, StartNext, StartFetch, Finishes
<1>3. owner.end = 0 /\ Under /\ OwnerType /\ m_cycle \in 1 .. 6
  BY <1>1, <1>2, EndsInside, UnderIs DEF OwnerInv, TypeInv, RingType
<1>4. owner' = [owner EXCEPT !.end = m_cycle] /\ made' = made \o Writes
  BY DEF AtInstructionEnd
<1>5. made' \in Seq(SUBSET AnyWrite) /\ SameWrites(made', DoneByEnd)
  BY <1>1, <1>2, <1>3, <1>4, EndMade DEF MadeInv, MadeIs, Done
<1>6. /\ owner'.end = m_cycle /\ owner'.exec = owner.exec /\ owner'.disp = owner.disp
      /\ owner'.im = owner.im
  BY <1>3, <1>4 DEF OwnerType
<1>7. Inside' = Inside
  BY <1>6 DEF Inside
<1>8. \A w \in LeftToM1' : w.m = m_cycle + 1
  BY <1>6 DEF LeftToM1, W
<1>9. DoneLeft' = {w \in Inside : w.m <= m_cycle}
  <2>1. Owed' = {w \in Inside : w.m <= m_cycle} \cup LeftToM1'
    BY <1>3, <1>6, <1>7 DEF Owed
  <2>2. \A w : ReachedLeft(w)' <=> w.m <= m_cycle
    BY <1>1, <1>2, <1>6 DEF ReachedLeft
  <2> HIDE DEF LeftToM1, Inside
  <2>3. \A w \in LeftToM1' : ~(w.m <= m_cycle)
    BY <1>3, <1>8
  <2> QED BY <2>1, <2>2, <2>3 DEF DoneLeft
<1>10. DoneByEnd = {w \in Inside : w.m <= m_cycle}
  <2>1. ASSUME NEW w \in Early[exec] PROVE m_cycle >= EarlyM(exec) <=> w.m <= m_cycle
    <3>1. CASE exec = "EX_SP_HL"
      BY <1>2, <1>3, <2>1, <3>1, ExchangeLen, EarlyIs
    <3>2. CASE exec # "EX_SP_HL"
      BY <1>3, <2>1, <3>2, EarlyIs
    <3> QED BY <3>1, <3>2
  <2> QED BY <2>1 DEF DoneByEnd
<1> QED BY <1>1, <1>3, <1>5, <1>6, <1>9, <1>10 DEF MadeInv, MadeIs, Done

\* A prefix writes nothing of its own.
LEMMA NothingOfPrefix ==
  ASSUME NEW ex \in Prefixes, NEW mode
  PROVE  /\ Pointers[ex] \cup Early[ex] \cup AtEnd[ex] \cup Last(ex, mode)
               \cup LaterOf(ex, mode) = {}
         /\ ex \notin {"EX_AF", "EXX", "EX_DE_HL"}
<1>1. ex \in Classes
  BY DEF Classes
<1>2. ex \in {"PREFIX_IDX", "PREFIX_ED", "PREFIX_CB"}
  BY DEF Prefixes
<1> QED BY <1>1, <1>2 DEF Pointers, Early, AtEnd, PushSp, TwoOperands, Last, LaterOf, Later

LEMMA PrefixMade ==
  ASSUME TypeInv, TypeInv', PendingInv, OwnerInv, OwnerInv', ShapeInv, MadeInv, AfterPrefix
  PROVE  MadeInv'
<1>1. /\ ~rst_idle /\ ~rst_idle' /\ EndsMCycle /\ Ticks /\ ~in_tw' /\ exec \in Prefixes
      /\ made' = made \o Writes /\ results' = results /\ t_state' = 1
      /\ \/ m_cycle' = 2 /\ exec' = "DDCB" /\ owner' = [owner EXCEPT !.exec = "DDCB"]
         \/ m_cycle = 1 /\ exec' # "DDCB" /\ owner' = [owner EXCEPT !.end = m_cycle]
  <2>1. GoesOnPrefix /\ Ticks /\ results' = results /\ made' = made \o Writes
        /\ owner' = IF exec' = "DDCB" THEN [owner EXCEPT !.exec = "DDCB"]
                    ELSE [owner EXCEPT !.end = m_cycle]
    BY DEF AfterPrefix, NextPrefix
  <2>2. exec \in Prefixes /\ EndsMCycle /\ m_cycle = 1 /\ exec # "DDCB"
    BY <2>1 DEF GoesOnPrefix, TypeInv, ExecType, Prefixes
  <2>3. /\ t_state' = 1
        /\ (m_cycle' = m_cycle + 1 /\ exec' = "DDCB") \/ exec' = exec
    BY <2>1 DEF GoesOnPrefix, StartFetch, StartMCycle
  <2>4. ~rst_idle /\ rst_idle' = FALSE /\ in_tw' = FALSE
    BY <2>1 DEF Ticks, Running
  <2>5. ~rst_idle' /\ ~in_tw'
    BY <2>4, Zenon
  <2> QED BY <2>1, <2>2, <2>3, <2>4, <2>5
<1>2. owner.end = 0 /\ owner = Current /\ results = {} /\ Under /\ OwnerType /\ ~disp
  <2>1. owner.end = 0 /\ owner = Current /\ Under
    BY <1>1, EndsInside, UnderIs
  <2>2. exec \notin DispClasses
    BY <1>1 DEF Prefixes, DispClasses
  <2> QED BY <1>1, <2>1, <2>2 DEF OwnerInv, InsideInv, TypeInv, ExecType
<1>3. made' \in Seq(SUBSET AnyWrite) /\ SameWrites(made', DoneByEnd)
  BY <1>1, <1>2, EndMade DEF MadeInv, MadeIs, Done
<1>4. Inside = {}
  <2>1. owner.exec = exec /\ ~owner.disp
    BY <1>2 DEF Current
  <2>2. Later(exec, owner.disp, owner.im) = LaterOf(exec, owner.im)
    BY <2>1 DEF LaterOf, Later
  <2>3. Inside = Pointers[exec] \cup Early[exec] \cup AtEnd[exec] \cup Last(exec, owner.im)
                   \cup Later(exec, owner.disp, owner.im)
    BY <2>1 DEF Inside
  <2> QED BY <1>1, <2>2, <2>3, NothingOfPrefix
<1>5. DoneByEnd = {}
  BY <1>4 DEF DoneByEnd
<1>6. CASE m_cycle' = 2 /\ exec' = "DDCB" /\ owner' = [owner EXCEPT !.exec = "DDCB"]
  <2>1. owner'.end = 0 /\ owner' = Current'
    BY <1>1, <1>2, <1>6 DEF OwnerType, OwnerInv, InsideInv
  <2>2. disp' = FALSE
    BY DEF AfterPrefix, NextPrefix, GoesOnPrefix
  <2>3. Inside' = {W(3, 2, "Z"), W(4, 2, "W")}
    <3>1. "DDCB" \in Classes /\ owner'.exec = "DDCB" /\ ~owner'.disp
      BY <1>6, <2>1, <2>2, NamedClasses DEF Current
    <3>2. Inside' = Pointers["DDCB"] \cup Early["DDCB"] \cup AtEnd["DDCB"] \cup Last("DDCB", owner'.im)
                   \cup Later("DDCB", owner'.disp, owner'.im)
      BY <3>1 DEF Inside
    <3>3. Pointers["DDCB"] = {} /\ Early["DDCB"] = {} /\ AtEnd["DDCB"] = {} /\ Last("DDCB", owner'.im) = {}
      BY <3>1 DEF Pointers, Early, AtEnd, PushSp, TwoOperands, Last
    <3>4. Later("DDCB", owner'.disp, owner'.im) = {W(3, 2, "Z"), W(4, 2, "W")}
      BY <3>1 DEF Later
    <3> QED BY <3>2, <3>3, <3>4
  <2>4. Early["DDCB"] = {}
    BY NamedClasses DEF Early
  <2>5. DoneIn' = {}
    BY <1>6, <2>3, <2>4 DEF DoneIn, ReachedIn, W
  <2> QED BY <1>1, <1>3, <1>5, <2>1, <2>5 DEF MadeInv, MadeIs, Done
<1>7. CASE m_cycle = 1 /\ exec' # "DDCB" /\ owner' = [owner EXCEPT !.end = m_cycle]
  <2>1. /\ owner'.end = 1 /\ owner'.exec = owner.exec /\ owner'.disp = owner.disp
        /\ owner'.im = owner.im
    BY <1>2, <1>7 DEF OwnerType
  <2>2. Inside' = {}
    BY <1>4, <2>1 DEF Inside
  <2>3. LeftToM1' = {}
    <3>1. owner'.exec = exec /\ results' = {}
      BY <1>1, <1>2, <2>1 DEF Current
    <3> QED BY <1>1, <3>1, NothingOfPrefix DEF LeftToM1
  <2>4. DoneLeft' = {}
    BY <2>1, <2>2, <2>3 DEF DoneLeft, Owed
  <2> QED BY <1>1, <1>3, <1>5, <2>1, <2>4 DEF MadeInv, MadeIs, Done
<1> QED BY <1>1, <1>6, <1>7

-----------------------------------------------------------------------------
(***************************************************************************)
(* What an instruction leaves to the next M1: F, the result and the        *)
(* exchanges.                                                              *)
(***************************************************************************)
\* In the M1 after an instruction: what it left there, and what is still
\* pending.
AfterIt ==
  /\ ~rst_idle /\ owner.end # 0 /\ owner.end \in 0 .. 6 /\ owner.exec \in Classes
  /\ owner.disp \in BOOLEAN
  /\ Fetches /\ t_state \in 1 .. FetchLast /\ t_state < m_len /\ m_cycle = 1 /\ wzp = {}
  /\ exec \in Classes
  /\ results \subseteq {"R", "F"}
  /\ "R" \in results => "ALU" \in Ended
  /\ "F" \in results => Ended \cap OweFlags # {}
  /\ "F16" \in Ended => "F" \in results
  /\ \A a, b \in Ended : a = b
  /\ wbp \ {"DEC"} = IF t_state = 1 THEN Ended
                     ELSE IF t_state = 2 /\ ~in_tw THEN Ended \ {"F1", "EXAF"} ELSE {}
  /\ t_state = 1 => ~in_tw /\ ~stalled

\* AfterIt follows from the invariants.
LEMMA AfterItIs ==
  ASSUME TypeInv, PendingInv, StrobeInv, OwnerInv, ~rst_idle, owner.end # 0
  PROVE  AfterIt
<1>1. \A a, b \in Ended : a = b
  BY DeferredOne DEF Ended
<1>2. /\ Fetches /\ t_state <= FetchLast /\ wzp = {} /\ results \subseteq {"R", "F"}
      /\ wbp \ {"DEC"} = IF t_state = 1 THEN Ended
                         ELSE IF t_state = 2 /\ ~in_tw THEN Ended \ {"F1", "EXAF"} ELSE {}
      /\ Ended \cap OweFlags = {} => results = {}
      /\ Ended \cap {"F1", "F16"} # {} => results = {"F"}
  BY DEF OwnerInv, LeftInv
<1>3. "R" \in results => "ALU" \in Ended
  <2>1. ASSUME "R" \in results PROVE Ended \cap OweFlags # {} /\ Ended \cap {"F1", "F16"} = {}
    BY <1>2, <2>1
  <2> QED BY <2>1 DEF OweFlags
<1>4. m_cycle = 1 /\ t_state \in 1 .. FetchLast /\ t_state < m_len
  BY <1>2 DEF TypeInv, RingType, Fetches, FetchLast
<1>5. t_state = 1 => ~in_tw /\ ~stalled
  BY <1>2 DEF StrobeInv, PendingInv, WaitSample, Fetches
<1>6. "F" \in results => Ended \cap OweFlags # {}
  BY <1>2
<1>7. "F16" \in Ended => "F" \in results
  BY <1>2
<1> QED BY <1>1, <1>2, <1>3, <1>4, <1>5, <1>6, <1>7 DEF AfterIt, OwnerInv, OwnerType, TypeInv, ExecType

\* The exchanges are of one class each.
LEMMA Exchanges ==
  \A ex, m : /\ "EXAF" \in Deferred(ex, m) <=> ex = "EX_AF"
             /\ "EXX" \in Deferred(ex, m) <=> ex = "EXX"
             /\ "EXDH" \in Deferred(ex, m) <=> ex = "EX_DE_HL"
  BY DEF Deferred, AluClasses

LEMMA PendingAre ==
  ASSUME AfterIt, NEW kind \in PendingKinds \ {"DEC"}
  PROVE  kind \in wbp <=> /\ kind \in Ended
                          /\ \/ t_state = 1
                             \/ t_state = 2 /\ ~in_tw /\ kind \notin {"F1", "EXAF"}
<1>1. kind \in wbp <=> kind \in wbp \ {"DEC"}
  OBVIOUS
<1> QED BY <1>1 DEF AfterIt

\* The writes left to an M1 are of different registers, and of none that is
\* written inside an instruction.
LEMMA LeftApart ==
  ASSUME AfterIt
  PROVE  /\ \A w \in LeftToM1 : w \in AnyWrite /\ w.m = owner.end + 1 /\ w.reg \notin Inner
                                /\ w.reg \in {"F", "R", "AF", "EX", "DH"}
                                /\ w = W(owner.end + 1, IF w.reg \in {"F", "AF"} THEN 1 ELSE 2, w.reg)
         /\ \A r : \A w \in LeftToM1 : w.reg = r =>
              /\ r = "F" => "F" \in results
              /\ r = "R" => "R" \in results
              /\ r = "AF" => "EXAF" \in Ended
              /\ r = "EX" => "EXX" \in Ended
              /\ r = "DH" => "EXDH" \in Ended
         /\ "F" \in results => W(owner.end + 1, 1, "F") \in LeftToM1
         /\ "R" \in results => W(owner.end + 1, 2, "R") \in LeftToM1
         /\ "EXAF" \in Ended => W(owner.end + 1, 1, "AF") \in LeftToM1
         /\ "EXX" \in Ended => W(owner.end + 1, 2, "EX") \in LeftToM1
         /\ "EXDH" \in Ended => W(owner.end + 1, 2, "DH") \in LeftToM1
<1> DEFINE m == owner.end + 1
<1>1. m \in 1 .. 7
  BY DEF AfterIt
<1>2. \A w : w \in LeftToM1 <=>
        \/ "F" \in results /\ w = W(m, 1, "F")
        \/ "R" \in results /\ w = W(m, 2, "R")
        \/ "EXAF" \in Ended /\ w = W(m, 1, "AF")
        \/ "EXX" \in Ended /\ w = W(m, 2, "EX")
        \/ "EXDH" \in Ended /\ w = W(m, 2, "DH")
  <2>1. /\ "EXAF" \in Ended <=> owner.exec = "EX_AF"
        /\ "EXX" \in Ended <=> owner.exec = "EXX"
        /\ "EXDH" \in Ended <=> owner.exec = "EX_DE_HL"
    BY Exchanges DEF Ended
  <2> QED BY <2>1 DEF LeftToM1
<1>3. W(m, 1, "F") \in AnyWrite /\ W(m, 2, "R") \in AnyWrite /\ W(m, 1, "AF") \in AnyWrite
      /\ W(m, 2, "EX") \in AnyWrite /\ W(m, 2, "DH") \in AnyWrite
  BY <1>1 DEF W, AnyWrite, Registers
<1>4. \A w \in LeftToM1 : w \in AnyWrite
  BY <1>2, <1>3
<1>5. \A w \in LeftToM1 : w.m = owner.end + 1 /\ w.reg \in {"F", "R", "AF", "EX", "DH"}
        /\ w = W(owner.end + 1, IF w.reg \in {"F", "AF"} THEN 1 ELSE 2, w.reg)
  BY <1>2 DEF W
<1>6. \A w \in LeftToM1 : w.reg \notin Inner
  BY <1>5 DEF Inner
<1>7. \A r : \A w \in LeftToM1 : w.reg = r =>
              /\ r = "F" => "F" \in results
              /\ r = "R" => "R" \in results
              /\ r = "AF" => "EXAF" \in Ended
              /\ r = "EX" => "EXX" \in Ended
              /\ r = "DH" => "EXDH" \in Ended
  BY <1>2 DEF W
<1> HIDE DEF m
<1>8. /\ "F" \in results => W(m, 1, "F") \in LeftToM1
      /\ "R" \in results => W(m, 2, "R") \in LeftToM1
      /\ "EXAF" \in Ended => W(m, 1, "AF") \in LeftToM1
      /\ "EXX" \in Ended => W(m, 2, "EX") \in LeftToM1
      /\ "EXDH" \in Ended => W(m, 2, "DH") \in LeftToM1
  BY <1>2
<1> QED BY <1>4, <1>5, <1>6, <1>7, <1>8 DEF m

\* The classes that leave writes to the M1 make the others in their own time.
LEMMA InsideOwner ==
  ASSUME AfterIt
  PROVE  \A w \in Inside : w \in AnyWrite /\ w.reg \in Inner
<1>1. \A w \in Inside : Good(w)
  BY InsideType DEF AfterIt, Inside
<1> QED BY <1>1 DEF Good

\* wb_fire(), not cut: what comes within reach as the T-state ends.
LEMMA FiredIs ==
  ASSUME AfterIt, ~res2, ~bus_granted, \/ t_state' = t_state /\ in_tw'
                                       \/ t_state' = t_state + 1 /\ ~in_tw',
         t_state = 1 => t_state' = 2 /\ ~in_tw', owner' = owner
  PROVE  Fired = {w \in LeftToM1 : ReachedLeft(w)' /\ ~ReachedLeft(w)}
<1> DEFINE m == owner.end + 1
           New == {w \in LeftToM1 : ReachedLeft(w)' /\ ~ReachedLeft(w)}
<1>1. \A w \in LeftToM1 : ~(w.m <= owner.end)
  BY LeftApart DEF AfterIt
<1>2. Ended' = Ended
  BY DEF Ended
<1>3. Fires <=> t_state = 1 \/ (t_state = 2 /\ ~in_tw)
  BY DEF Fires, AfterIt, Fetches
<1>4. CASE t_state = 1
  <2>1. \A w \in LeftToM1 : w \in New <=> w.reg = "AF" \/ (w.reg = "F" /\ "F1" \in Ended)
    BY <1>1, <1>2, <1>4 DEF ReachedLeft, AfterIt
  <2>2. "F1" \in wbp <=> "F1" \in Ended
    BY <1>4, PendingAre DEF PendingKinds
  <2>3. "EXAF" \in wbp <=> "EXAF" \in Ended
    BY <1>4, PendingAre DEF PendingKinds
  <2>4. Fired = (IF "F1" \in Ended /\ "F" \in results THEN {W(m, 1, "F")} ELSE {})
                  \cup (IF "EXAF" \in Ended THEN {W(m, 1, "AF")} ELSE {})
    BY <1>3, <1>4, <2>2, <2>3 DEF Fired, FiresF1, FiresALU, FiresF16, Owes
  <2>5. Fired \subseteq LeftToM1
    BY <2>4, LeftApart
  <2>6. ASSUME NEW w \in LeftToM1 PROVE w \in Fired <=> w \in New
    <3>1. CASE w.reg = "AF"
      <4>1. w = W(m, 1, "AF") /\ "EXAF" \in Ended
        BY <3>1, LeftApart
      <4> QED BY <2>1, <2>4, <3>1, <4>1
    <3>2. CASE w.reg = "F"
      <4>1. w = W(m, 1, "F") /\ "F" \in results
        BY <3>2, LeftApart
      <4>2. W(m, 1, "F") # W(m, 1, "AF")
        BY DEF W
      <4> QED BY <2>1, <2>4, <3>2, <4>1, <4>2
    <3>3. CASE w.reg \notin {"AF", "F"}
      <4>1. W(m, 1, "F").reg = "F" /\ W(m, 1, "AF").reg = "AF"
        BY DEF W
      <4> QED BY <2>1, <2>4, <3>3, <4>1
    <3> QED BY <3>1, <3>2, <3>3
  <2> HIDE DEF m
  <2> QED BY <2>5, <2>6
<1>5. CASE t_state = 2 /\ ~in_tw
  <2>1. \A w \in LeftToM1 : w \in New <=> ~(w.reg = "AF" \/ (w.reg = "F" /\ "F1" \in Ended))
    BY <1>1, <1>2, <1>5 DEF ReachedLeft, AfterIt
  <2>2. \A k \in {"ALU", "F16", "EXX", "EXDH"} : k \in wbp <=> k \in Ended
    BY <1>5, PendingAre DEF PendingKinds
  <2>3. Fired = (IF "ALU" \in Ended /\ "R" \in results THEN {W(m, 2, "R")} ELSE {})
                  \cup (IF ("ALU" \in Ended /\ "F" \in results) \/ "F16" \in Ended
                        THEN {W(m, 1, "F")} ELSE {})
                  \cup (IF "EXX" \in Ended THEN {W(m, 2, "EX")} ELSE {})
                  \cup (IF "EXDH" \in Ended THEN {W(m, 2, "DH")} ELSE {})
    <3>1. /\ FiresF1 = FALSE /\ (FiresALU("R") <=> "ALU" \in Ended /\ "R" \in results)
          /\ (FiresALU("F") <=> "ALU" \in Ended /\ "F" \in results)
          /\ (FiresF16 <=> "F16" \in Ended)
      BY <1>3, <1>5, <2>2 DEF FiresF1, FiresALU, FiresF16, Owes
    <3>2. t_state # 1 /\ t_state = 2 /\ Fires
      BY <1>3, <1>5
    <3> QED BY <2>2, <3>1, <3>2 DEF Fired
  <2>4. Fired \subseteq LeftToM1
    BY <2>3, LeftApart DEF AfterIt
  <2>5. W(m, 1, "F").reg = "F" /\ W(m, 2, "R").reg = "R" /\ W(m, 2, "EX").reg = "EX"
        /\ W(m, 2, "DH").reg = "DH"
    BY DEF W
  <2>6. ASSUME NEW w \in LeftToM1 PROVE w \in Fired <=> w \in New
    <3>1. CASE w.reg = "AF"
      BY <2>1, <2>3, <2>5, <3>1
    <3>2. CASE w.reg = "F"
      <4>1. w = W(m, 1, "F") /\ "F" \in results
        BY <3>2, LeftApart
      <4>2. "F1" \notin Ended <=> "ALU" \in Ended \/ "F16" \in Ended
        BY <4>1 DEF AfterIt, OweFlags
      <4> QED BY <2>1, <2>3, <2>5, <3>2, <4>1, <4>2
    <3>3. CASE w.reg = "R"
      <4>1. w = W(m, 2, "R") /\ "R" \in results /\ "ALU" \in Ended
        BY <3>3, LeftApart DEF AfterIt
      <4> QED BY <2>1, <2>3, <3>3, <4>1
    <3>4. CASE w.reg = "EX"
      <4>1. w = W(m, 2, "EX") /\ "EXX" \in Ended
        BY <3>4, LeftApart
      <4> QED BY <2>1, <2>3, <3>4, <4>1
    <3>5. CASE w.reg = "DH"
      <4>1. w = W(m, 2, "DH") /\ "EXDH" \in Ended
        BY <3>5, LeftApart
      <4> QED BY <2>1, <2>3, <3>5, <4>1
    <3>6. w.reg \in {"F", "R", "AF", "EX", "DH"}
      BY LeftApart
    <3> QED BY <3>1, <3>2, <3>3, <3>4, <3>5, <3>6
  <2> HIDE DEF m
  <2> QED BY <2>4, <2>6
<1>6. CASE t_state # 1 /\ ~(t_state = 2 /\ ~in_tw)
  <2>1. Fired = {}
    BY <1>3, <1>6 DEF Fired, FiresF1, FiresALU, FiresF16, Owes
  <2>2. \A w \in LeftToM1 : ReachedLeft(w)
    BY <1>6 DEF ReachedLeft, AfterIt, FetchLast
  <2> QED BY <2>1, <2>2
<1> QED BY <1>4, <1>5, <1>6

-----------------------------------------------------------------------------
(***************************************************************************)
(* The M1's steps, the other actions, and the invariant of them all.       *)
(***************************************************************************)
\* A Fired alone adds to what is made of the owner's.
LEMMA FiredAlone ==
  ASSUME AfterIt, MadeIs(DoneLeft), Fired \subseteq LeftToM1, Fired \cap DoneLeft = {},
         Hooked = {}, Landed = {}, Stepped = {}
  PROVE  made \o Writes \in Seq(SUBSET AnyWrite) /\ SameWrites(made \o Writes, DoneLeft \cup Fired)
<1>1. Fired \subseteq AnyWrite
  BY LeftApart
<1>2. Fits(DoneLeft, Fired)
  <2>1. ASSUME NEW v \in DoneLeft, NEW w \in Fired, v.reg = w.reg PROVE FALSE
    <3>1. v \in Inside \/ v \in LeftToM1
      BY DEF DoneLeft, Owed
    <3>2. w \in LeftToM1
      OBVIOUS
    <3>3. CASE v \in Inside
      BY <2>1, <3>2, <3>3, InsideOwner, LeftApart
    <3>4. CASE v \in LeftToM1
      <4>1. v = w
        BY <2>1, <3>2, <3>4, LeftApart
      <4> QED BY <4>1
    <3> QED BY <3>1, <3>3, <3>4
  <2>2. \A v, w \in Fired : v.reg = w.reg => v = w
    BY LeftApart
  <2> QED BY <2>1, <2>2 DEF Fits
<1>3. Fits(DoneLeft \cup Fired, {}) /\ {} \subseteq AnyWrite
  BY DEF Fits
<1>4. Fired \cup Hooked = Fired /\ DoneLeft \cup Fired \cup Hooked = DoneLeft \cup Fired
       /\ DoneLeft \cup Fired \cup Hooked \cup Landed = DoneLeft \cup Fired
       /\ DoneLeft \cup Fired \cup Hooked \cup Landed \cup Stepped = DoneLeft \cup Fired
  OBVIOUS
<1> QED BY <1>1, <1>2, <1>3, <1>4, WritesAdd DEF MadeIs

\* In an M1 nothing but wb_fire() writes, up to the T-state that changes the
\* instruction.
LEMMA NothingElse ==
  ASSUME AfterIt
  PROVE  Hooked = {} /\ Landed = {} /\ Stepped = {} /\ ~MCycleEnds
<1>1. m_cycle = 1 /\ wzp = {} /\ ~MCycleEnds
  BY DEF AfterIt, MCycleEnds, TypeInv, RingType
<1>2. ~WbMid
  BY <1>1 DEF WbMid
<1>3. \A w \in Early[exec] \cup Pointers[exec] : w.m # 1
  BY DEF AfterIt, Early, Pointers, W
<1>4. Hooks(2) = {} /\ Hooks(3) = {}
  BY <1>1, <1>3 DEF Hooks
<1>5. Hooked = {}
  BY <1>1, <1>2, <1>4 DEF Hooked
<1> QED BY <1>1, <1>5 DEF Landed, Stepped

\* The T-states of the M1 that makes what was left keep it.
LEMMA LeftInMCycle ==
  ASSUME TypeInv, PendingInv, OwnerInv, AfterIt, InMCycle, ~Changes, MadeIs(DoneLeft)
  PROVE  MadeIs(DoneLeft)'
<1>1. /\ ~res2 /\ ~bus_granted /\ made' = made \o Writes /\ owner' = owner /\ results' = results
      /\ \/ stalled /\ t_state' = t_state /\ in_tw'
         \/ ~stalled /\ t_state' = t_state + 1 /\ ~in_tw'
  BY InMCycleIs, InMCycleKeeps
<1>2. t_state = 1 => t_state' = 2 /\ ~in_tw'
  BY <1>1 DEF AfterIt
<1>3. Fired = {w \in LeftToM1 : ReachedLeft(w)' /\ ~ReachedLeft(w)}
  BY <1>1, <1>2, FiredIs
<1>4. made' \in Seq(SUBSET AnyWrite) /\ SameWrites(made', DoneLeft \cup Fired)
  <2>1. Fired \subseteq LeftToM1 /\ Fired \cap DoneLeft = {}
    BY <1>3 DEF DoneLeft
  <2> QED BY <1>1, <2>1, NothingElse, FiredAlone
<1>5. DoneLeft' = DoneLeft \cup Fired
  <2>1. Owed' = Owed /\ LeftToM1 \subseteq Owed
    BY <1>1 DEF Owed, Inside, LeftToM1, AfterIt
  <2>2. \A w : ReachedLeft(w) => ReachedLeft(w)'
    BY <1>1, <1>2 DEF ReachedLeft, AfterIt, Ended, FetchLast
  <2>3. \A w \in Owed : w \in LeftToM1 \/ w.m <= owner.end
    BY DEF Owed, AfterIt
  <2>4. \A w : w.m <= owner.end => ReachedLeft(w)
    BY DEF ReachedLeft
  <2> QED BY <1>3, <2>1, <2>2, <2>3, <2>4 DEF DoneLeft
<1> QED BY <1>4, <1>5 DEF MadeIs

\* Where the instruction changes, all of the last one's is made.
LEMMA AllMade ==
  ASSUME TypeInv, PendingInv, StrobeInv, OwnerInv, MadeInv, Changes
  PROVE  owner.end # 0 /\ ~rst_idle /\ SameWrites(made, Owed)
<1>1. ~rst_idle /\ Fetches /\ t_state = FetchLast
  BY DEF Changes, Ticks, Running, Fetches, FetchLast
<1>2. owner.end # 0 /\ t_state > 2
  BY <1>1 DEF OwnerInv, InsideInv, FetchLast, TypeInv, RingType
<1>3. DoneLeft = Owed
  BY <1>2 DEF DoneLeft, ReachedLeft
<1> QED BY <1>1, <1>2, <1>3 DEF MadeInv, MadeIs, Done

LEMMA NoWrites == << >> \in Seq(SUBSET AnyWrite) /\ SameWrites(<< >>, {})
<1>1. DOMAIN << >> = {} /\ << >> \in Seq(SUBSET AnyWrite)
  OBVIOUS
<1> QED BY <1>1 DEF SameWrites

\* A new owner starts with no writes made.
LEMMA ChangesMade ==
  ASSUME TypeInv, TypeInv', PendingInv, OwnerInv, OwnerInv', InMCycle, Changes
  PROVE  MadeInv'
<1>1. owner' = Current' /\ made' = << >> /\ ~rst_idle' /\ m_cycle' = m_cycle
  BY InMCycleIs, InMCycleKeeps
<1>2. m_cycle = 1 /\ owner'.end = 0
  BY <1>1 DEF Changes, TypeInv, RingType, Current
<1>3. \A w \in Inside' : w.m \in 1 .. 7
  <2>1. owner'.exec \in Classes
    BY DEF OwnerInv, OwnerType
  <2>2. \A w \in Inside' : Good(w)
    BY <2>1, InsideType DEF Inside
  <2> QED BY <2>2 DEF Good, AnyWrite
<1>4. DoneIn' = {}
  <2>1. \A ex : EarlyM(ex) \in 3 .. 4
    BY DEF EarlyM
  <2>2. \A w \in Inside' : ~ReachedIn(w)'
    BY <1>1, <1>2, <1>3, <2>1 DEF ReachedIn
  <2> QED BY <2>2 DEF DoneIn
<1> QED BY <1>1, <1>2, <1>4, NoWrites DEF MadeInv, MadeIs, Done

LEMMA MadeInvStep ==
  ASSUME TypeInv, TypeInv', PendingInv, StrobeInv, GrantBetweenMCycles, OwnerInv, OwnerInv',
         ShapeInv, MadeInv, [WbNext]_allvars
  PROVE  MadeInv'
<1>1. CASE InMCycle
  <2>1. ~rst_idle /\ ~rst_idle'
    BY <1>1, InMCycleIs
  <2>2. CASE Changes
    BY <1>1, <2>2, ChangesMade
  <2>3. CASE ~Changes /\ owner.end = 0
    <3>1. Under /\ made \in Seq(SUBSET AnyWrite) /\ SameWrites(made, DoneIn)
      BY <2>1, <2>3, UnderIs DEF MadeInv, MadeIs, Done
    <3>2. owner' = owner
      BY <1>1, <2>3, InMCycleKeeps
    <3>3. made' \in Seq(SUBSET AnyWrite) /\ SameWrites(made', DoneIn')
      BY <1>1, <2>3, <3>1, UnderInMCycle
    <3> QED BY <2>3, <3>2, <3>3 DEF MadeInv, MadeIs, Done
  <2>4. CASE ~Changes /\ owner.end # 0
    <3>1. AfterIt /\ MadeIs(DoneLeft)
      BY <2>1, <2>4, AfterItIs DEF MadeInv, Done
    <3>2. owner' = owner
      BY <1>1, <2>4, InMCycleKeeps
    <3>3. MadeIs(DoneLeft)'
      BY <1>1, <2>4, <3>1, LeftInMCycle
    <3> QED BY <2>4, <3>2, <3>3 DEF MadeInv, MadeIs, Done
  <2> QED BY <2>2, <2>3, <2>4
<1>2. CASE ToNextMCycle
  BY <1>2, NextMCycleMade
<1>3. CASE AfterPrefix
  BY <1>3, PrefixMade
<1>4. CASE AtInstructionEnd
  BY <1>4, EndInstructionMade
<1>5. CASE CutShort
  <2>1. rst_idle'
    BY <1>5 DEF CutShort, Cut, EnterResetIdle
  <2> QED BY <2>1 DEF MadeInv
<1>6. CASE Restarts
  <2>1. /\ rst_idle /\ results' = results /\ made' = << >>
        /\ owner' = [exec |-> "NOP", disp |-> FALSE, im |-> 0, end |-> 1]
    BY <1>6 DEF Restarts, Restart
  <2>2. Inside' = {}
    <3>1. owner'.exec = "NOP" /\ owner'.disp = FALSE /\ owner'.im = 0 /\ "NOP" \in Classes
      BY <2>1, NamedClasses
    <3>2. Pointers["NOP"] = {} /\ Early["NOP"] = {} /\ AtEnd["NOP"] = {} /\ Last("NOP", 0) = {}
          /\ LaterOf("NOP", 0) = {}
      BY <3>1 DEF Pointers, Early, AtEnd, PushSp, TwoOperands, Last, LaterOf, Later
    <3> QED BY <3>1, <3>2 DEF Inside, LaterOf
  <2>3. LeftToM1' = {}
    BY <2>1 DEF LeftToM1, OwnerInv, IdleInv
  <2>4. DoneLeft' = {} /\ owner'.end = 1
    BY <2>1, <2>2, <2>3 DEF DoneLeft, Owed
  <2> QED BY <2>1, <2>4, NoWrites DEF MadeInv, MadeIs, Done
<1>7. CASE /\ UNCHANGED <<rst_idle, made, owner, results, exec, disp, im, t_state, m_cycle>>
           /\ rst_idle \/ in_tw' = in_tw
  <2>1. UNCHANGED <<Inside, LeftToM1, Ended>>
    BY <1>7 DEF Inside, LeftToM1, Ended
  <2>2. UNCHANGED Owed
    BY <1>7, <2>1 DEF Owed
  <2>3. UNCHANGED DoneIn
    BY <1>7, <2>1 DEF DoneIn, ReachedIn
  <2>4. ~rst_idle => UNCHANGED DoneLeft
    BY <1>7, <2>1, <2>2 DEF DoneLeft, ReachedLeft
  <2> QED BY <1>7, <2>3, <2>4 DEF MadeInv, MadeIs, Done
<1>8. CASE FallingEdge /\ UNCHANGED wbvars
  BY <1>7, <1>8 DEF FallingEdge, ring, enables, reset, wbvars
<1>9. CASE Granted /\ UNCHANGED wbvars
  <2>1. /\ UNCHANGED <<made, owner, results, exec, disp, im, t_state, m_cycle>>
        /\ ~rst_idle /\ rst_idle' = FALSE /\ ~in_tw /\ in_tw' = FALSE
    BY <1>9 DEF Granted, Running, ring, enables, wbvars, GrantBetweenMCycles
  <2>2. (rst_idle' <=> rst_idle) /\ (in_tw' <=> in_tw)
    BY <2>1, Zenon
  <2>3. UNCHANGED <<Inside, LeftToM1, Ended>>
    BY <2>1 DEF Inside, LeftToM1, Ended
  <2>4. UNCHANGED <<Owed, DoneIn>>
    BY <2>1, <2>3 DEF Owed, DoneIn, ReachedIn
  <2>5. UNCHANGED DoneLeft
    BY <2>1, <2>2, <2>3, <2>4 DEF DoneLeft, ReachedLeft
  <2> QED BY <2>1, <2>2, <2>4, <2>5 DEF MadeInv, MadeIs, Done
<1>10. CASE ResetHold /\ UNCHANGED wbvars
  <2>1. rst_idle'
    BY <1>10 DEF ResetHold, EnterResetIdle
  <2> QED BY <2>1 DEF MadeInv
<1>11. CASE UNCHANGED allvars
  BY <1>7, <1>11 DEF allvars, vars, ring, enables, reset, waits, wbvars
<1> QED BY <1>1, <1>2, <1>3, <1>4, <1>5, <1>6, <1>8, <1>9, <1>10, <1>11 DEF WbNext

LEMMA MadeInvHolds == WbSpec => []MadeInv
<1>1. WbInit => MadeInv
  <2> SUFFICES ASSUME WbInit PROVE MadeInv
    OBVIOUS
  <2>1. made = << >> /\ results = {} /\ owner = [exec |-> "NOP", disp |-> FALSE, im |-> 0, end |-> 1]
    BY DEF WbInit
  <2>2. Inside = {}
    <3>1. owner.exec = "NOP" /\ owner.disp = FALSE /\ owner.im = 0 /\ "NOP" \in Classes
      BY <2>1, NamedClasses
    <3>2. Pointers["NOP"] = {} /\ Early["NOP"] = {} /\ AtEnd["NOP"] = {} /\ Last("NOP", 0) = {}
          /\ LaterOf("NOP", 0) = {}
      BY <3>1 DEF Pointers, Early, AtEnd, PushSp, TwoOperands, Last, LaterOf, Later
    <3> QED BY <3>1, <3>2 DEF Inside, LaterOf
  <2>3. LeftToM1 = {}
    BY <2>1 DEF LeftToM1
  <2>4. DoneLeft = {} /\ owner.end = 1
    BY <2>1, <2>2, <2>3 DEF DoneLeft, Owed
  <2> QED BY <2>1, <2>4, NoWrites DEF MadeInv, MadeIs, Done
<1>2. /\ TypeInv /\ TypeInv' /\ PendingInv /\ StrobeInv /\ GrantBetweenMCycles /\ OwnerInv
      /\ OwnerInv' /\ ShapeInv /\ MadeInv /\ [WbNext]_allvars
      => MadeInv'
  BY MadeInvStep
<1> QED BY <1>1, <1>2, OwnerInvHolds, ShapeInvHolds, WriteBackKeepsCore, TypeInvHolds,
           PendingInvHolds, StrobeInvHolds, GrantSafe, PTL DEF WbSpec

\* Every instruction's writes are each made once and in the die's order by the
\* T3 of the next fetch.
THEOREM WritesOnce == WbSpec => EveryWriteOnce
<1>1. TypeInv /\ PendingInv /\ StrobeInv /\ OwnerInv /\ MadeInv
      => [Changes => SameWrites(made, Owed)]_allvars
  BY AllMade
<1> QED BY <1>1, MadeInvHolds, OwnerInvHolds, WriteBackKeepsCore, TypeInvHolds,
           PendingInvHolds, StrobeInvHolds, PTL DEF EveryWriteOnce

-----------------------------------------------------------------------------
(***************************************************************************)
(* The RESET cut inside an instruction: it loses the writes that the die   *)
(* makes as the next M-cycle begins and keeps those of an earlier edge.    *)
(***************************************************************************)
\* The last T-state of an instruction under way, RES2 set.
LastT ==
  /\ Under /\ res2 /\ wbp = {} /\ ~LateInGrant
  /\ bus_granted => t_state = 1 /\ ~in_tw /\ ~stalled
  /\ in_tw => WaitSample(bus_op, t_state, 1)
  /\ stalled => WaitSample(bus_op, t_state, 1)
  /\ \A k : WaitSample(bus_op, k, 1) => k \in 2 .. 4 /\ k < m_len

\* LastT follows from the invariants.
LEMMA LastTIs ==
  ASSUME TypeInv, PendingInv, StrobeInv, LenInv, GrantBetweenMCycles, OwnerInv, ShapeInv, ~rst_idle,
         owner.end = 0, res2, ~LateInGrant
  PROVE  LastT
<1>1. Under /\ wbp = {}
  BY UnderIs DEF OwnerInv, InsideInv
<1>2. \A k : WaitSample(bus_op, k, 1) => k \in 2 .. 4 /\ k < m_len
  BY DEF WaitSample, LenInv, BaseLen, TypeInv, RingType
<1>3. in_tw => WaitSample(bus_op, t_state, 1)
  BY DEF StrobeInv
<1>4. stalled => WaitSample(bus_op, t_state, 1)
  BY DEF PendingInv
<1>5. bus_granted => t_state = 1 /\ ~in_tw /\ ~stalled
  BY DEF GrantBetweenMCycles
<1> QED BY <1>1, <1>2, <1>3, <1>4, <1>5 DEF LastT

\* What wb_hooks() makes of a write.
LEMMA InHooked ==
  ASSUME NEW w
  PROVE  w \in Hooked <=>
           \/ ~bus_granted /\ ~stalled /\ ~MCycleEnds /\ WbMid /\ w \in Hooks(t_state)
           \/ ~bus_granted /\ stalled /\ t_state = 2 /\ res2 /\ w \in Hooks(2)
           \/ Tw /\ res2 /\ w \in Hooks(3)
<1> DEFINE a == ~bus_granted /\ ~stalled /\ ~MCycleEnds /\ WbMid
           b == ~bus_granted /\ stalled /\ t_state = 2 /\ res2
           c == Tw /\ res2
           A == IF a THEN Hooks(t_state) ELSE {}
           B == IF b THEN Hooks(2) ELSE {}
           C == IF c THEN Hooks(3) ELSE {}
<1>1. Hooked = A \cup B \cup C
  BY Zenon DEF Hooked
<1> HIDE DEF a, b, c
<1>2. w \in A <=> a /\ w \in Hooks(t_state)
  OBVIOUS
<1>3. w \in B <=> b /\ w \in Hooks(2)
  OBVIOUS
<1>4. w \in C <=> c /\ w \in Hooks(3)
  OBVIOUS
<1> HIDE DEF A, B, C
<1>5. w \in Hooked <=> w \in A \/ w \in B \/ w \in C
  BY <1>1
<1>6. w \in Hooked <=> (a /\ w \in Hooks(t_state)) \/ (b /\ w \in Hooks(2)) \/ (c /\ w \in Hooks(3))
  BY <1>2, <1>3, <1>4, <1>5
<1> QED BY <1>6, Zenon DEF a, b, c

\* wb_hooks() at a cut: an early write.
LEMMA CutEarly ==
  ASSUME LastT, NEW e \in Early[exec]
  PROVE  /\ Before(e) <=> e \in DoneIn \/ e \in Hooked
         /\ e \in Hooked => e \notin DoneIn /\ m_cycle = EarlyM(exec)
         /\ e \in Hooked /\ exec = "EX_SP_HL" => t_state = 1
<1>1. /\ e.m = 3 /\ EarlyM(exec) \in 3 .. 4 /\ EarlyT(exec) \in 1 .. 3
      /\ exec = "EX_SP_HL" <=> EarlyM(exec) = 4
      /\ exec = "EX_SP_HL" => e.k = 4 /\ EarlyT(exec) = 1
      /\ exec # "EX_SP_HL" => e.k = EarlyT(exec) - 1
      /\ m_cycle = EarlyM(exec) => m_len > EarlyT(exec) /\ WbMid
      /\ e \notin OwnNow
  BY EarlyIs DEF LastT
<1>2. EarlyPlaced(exec, Cycles(exec, disp), im)
  BY DEF LastT, Under, TablesNow, Tables
<1>3. /\ t_state \in 1 .. m_len /\ m_len \in 1 .. 7 /\ m_cycle \in 1 .. 6 /\ owner.end = 0
      /\ (m_cycle > 1 => bus_op = BusAt(Cycles(exec, disp), m_cycle)
                         /\ m_len = LenAt(Cycles(exec, disp), m_cycle))
  BY DEF LastT, Under, ShapeInv
<1>4. e \in DoneIn <=> m_cycle > EarlyM(exec) \/ (m_cycle = EarlyM(exec) /\ t_state > EarlyT(exec))
  <2>1. e \in Inside
    BY InsideIs DEF LastT
  <2> QED BY <2>1 DEF DoneIn, ReachedIn
<1>5. e \notin Pointers[exec]
  BY <1>1 DEF OwnNow, Own
<1>6. Before(e) <=> 3 < m_cycle \/ (3 = m_cycle /\ (e.k < t_state \/ (e.k = t_state /\ in_tw)))
  BY <1>1, <1>3 DEF Before
<1>7. /\ e \in Hooks(1) <=> 4 = m_cycle /\ e.k = 4
      /\ e \in Hooks(2) <=> 3 = m_cycle /\ e.k = 1
      /\ e \in Hooks(3) <=> 3 = m_cycle /\ e.k = 2
  BY <1>1, <1>3, <1>5 DEF Hooks
<1>8. t_state \notin 1 .. 3 => e \notin Hooks(t_state)
  BY <1>3 DEF Hooks
<1>9. e \in Hooked <=>
        \/ ~bus_granted /\ ~stalled /\ ~MCycleEnds /\ WbMid /\ e \in Hooks(t_state)
        \/ ~bus_granted /\ stalled /\ t_state = 2 /\ e \in Hooks(2)
        \/ Tw /\ e \in Hooks(3)
  <2>1. res2
    BY DEF LastT
  <2> QED BY <2>1, InHooked
<1>10. CASE exec = "EX_SP_HL"
  <2>1. e.k = 4 /\ EarlyM(exec) = 4 /\ EarlyT(exec) = 1
    BY <1>1, <1>10
  <2>2. ~(3 = m_cycle /\ e.k = t_state /\ in_tw)
    <3>1. ASSUME 3 = m_cycle, t_state = 4, in_tw PROVE FALSE
      <4>1. m_len = 4
        BY <1>2, <1>3, <1>10, <3>1 DEF EarlyPlaced
      <4> QED BY <3>1, <4>1 DEF LastT
    <3> QED BY <2>1, <3>1
  <2>3. ~(3 = m_cycle /\ e.k < t_state)
    <3>1. ASSUME 3 = m_cycle PROVE m_len = 4
      BY <1>2, <1>3, <1>10, <3>1 DEF EarlyPlaced
    <3> QED BY <1>3, <2>1, <3>1
  <2>4. Before(e) <=> m_cycle >= 4
    BY <1>3, <1>6, <2>2, <2>3
  <2>5. e \notin Hooks(2) /\ e \notin Hooks(3)
    BY <1>7, <2>1
  <2>6. e \in Hooked <=> m_cycle = 4 /\ t_state = 1
    <3>1. ASSUME e \in Hooked PROVE m_cycle = 4 /\ t_state = 1
      <4>1. e \in Hooks(t_state)
        BY <1>9, <2>5, <3>1
      <4> QED BY <1>7, <1>8, <2>5, <4>1
    <3>2. ASSUME m_cycle = 4, t_state = 1 PROVE e \in Hooked
      <4>1. ~bus_granted
        BY <1>10, <3>2 DEF LastT, LateInGrant
      <4>2. ~stalled
        BY <3>2 DEF LastT
      <4>3. ~MCycleEnds /\ WbMid
        BY <1>1, <2>1, <3>2 DEF MCycleEnds
      <4>4. e \in Hooks(t_state)
        BY <1>7, <2>1, <3>2
      <4> QED BY <1>9, <4>1, <4>2, <4>3, <4>4, Zenon
    <3> QED BY <3>1, <3>2
  <2>7. e \in DoneIn <=> m_cycle > 4 \/ (m_cycle = 4 /\ t_state > 1)
    BY <1>4, <2>1
  <2> QED BY <1>3, <2>1, <2>4, <2>6, <2>7
<1>11. CASE exec # "EX_SP_HL"
  <2>1. e.k = EarlyT(exec) - 1 /\ EarlyM(exec) = 3 /\ EarlyT(exec) \in 2 .. 3 /\ e.k \in 1 .. 2
    BY <1>1, <1>11 DEF EarlyM, EarlyT
  <2>2. e \notin Hooks(1)
    BY <1>7, <2>1
  <2>3. ASSUME m_cycle = 3
        PROVE  /\ WaitSample(bus_op, e.k, 1) => e.k = 2
               /\ WaitSample(bus_op, e.k + 1, 1) => e.k = 1
    BY <1>2, <1>3, <1>11, <2>3 DEF EarlyPlaced
  <2>4. e \in Hooked <=> m_cycle = 3 /\ (t_state = e.k + 1 \/ (t_state = e.k /\ in_tw))
    <3>1. ASSUME e \in Hooked PROVE m_cycle = 3 /\ (t_state = e.k + 1 \/ (t_state = e.k /\ in_tw))
      <4>1. CASE e \in Hooks(t_state)
        BY <1>3, <1>7, <1>8, <2>1, <2>2, <4>1
      <4>2. CASE t_state = 2 /\ e \in Hooks(2)
        BY <1>7, <4>2
      <4>3. CASE Tw /\ e \in Hooks(3)
        BY <1>7, <4>3 DEF Tw
      <4> QED BY <1>9, <3>1, <4>1, <4>2, <4>3
    <3>2. ASSUME m_cycle = 3, t_state = e.k + 1 PROVE e \in Hooked
      <4>1. ~bus_granted /\ e \in Hooks(t_state)
        <5>1. t_state # 1
          BY <2>1, <3>2
        <5> QED BY <1>7, <2>1, <3>2, <5>1 DEF LastT
      <4>2. CASE stalled
        <5>1. e.k = 1
          BY <2>3, <3>2, <4>2 DEF LastT
        <5>2. t_state = 2
          BY <3>2, <5>1
        <5>3. e \in Hooks(2)
          BY <4>1, <5>2
        <5> QED BY <1>9, <4>1, <4>2, <5>2, <5>3, Zenon
      <4>3. CASE ~stalled
        <5>1. ~MCycleEnds /\ WbMid
          BY <1>1, <1>3, <2>1, <3>2 DEF MCycleEnds
        <5> QED BY <1>9, <4>1, <4>3, <5>1, Zenon
      <4> QED BY <4>2, <4>3
    <3>3. ASSUME m_cycle = 3, t_state = e.k, in_tw PROVE e \in Hooked
      <4>1. e.k = 2
        BY <2>3, <3>3 DEF LastT
      <4>2. ~bus_granted
        BY <3>3 DEF LastT
      <4>3. Tw
        BY <3>3, <4>1, <4>2 DEF Tw
      <4> QED BY <1>7, <1>9, <3>3, <4>1, <4>3
    <3> QED BY <3>1, <3>2, <3>3
  <2>5. e \in DoneIn <=> m_cycle > 3 \/ (m_cycle = 3 /\ t_state > e.k + 1)
    BY <1>4, <2>1
  <2> QED BY <1>1, <1>3, <1>6, <1>11, <2>1, <2>4, <2>5
<1> QED BY <1>10, <1>11

\* A pointer's, in the T2.N of its bus cycle: with T3, or with the Tw after.
LEMMA CutPointer ==
  ASSUME LastT, NEW p \in Pointers[exec]
  PROVE  /\ Before(p) <=> p.m < m_cycle \/ p \in Hooked \/ p \in Stepped
         /\ p \in Hooked => p.m = m_cycle /\ Tw
<1>1. /\ p.m > 1 /\ p.k = 2 /\ p.m \in 1 .. 7
      /\ p.m = m_cycle => m_len = 3 /\ bus_op \in {"MRD", "MWR"}
      /\ t_state \in 1 .. m_len /\ m_cycle \in 1 .. 6 /\ owner.end = 0
  <2>1. p \in Inside
    BY InsideIs DEF LastT, OwnNow, Own
  <2>2. p.m \in 1 .. 7
    BY <2>1, InsideIs DEF LastT, AnyWrite
  <2>3. p.m > 1 /\ p.k = 2 /\ LenAt(Cycles(exec, disp), p.m) = 3
        /\ BusAt(Cycles(exec, disp), p.m) \in {"MRD", "MWR"}
    BY DEF LastT, Under, TablesNow, Tables, PointersPlaced
  <2> QED BY <2>2, <2>3 DEF LastT, Under, ShapeInv
<1>2. p \notin Early[exec]
  BY EarlyIs DEF LastT, OwnNow, Own
<1>3. p \notin Last(exec, im)
  <2>1. ASSUME p \in Last(exec, im) PROVE p.k = LenAt(Cycles(exec, disp), p.m)
    BY <1>1, <2>1 DEF LastT, Under, TablesNow, Tables, LastPlaced
  <2>2. LenAt(Cycles(exec, disp), p.m) = 3
    BY DEF LastT, Under, TablesNow, Tables, PointersPlaced
  <2> QED BY <1>1, <2>1, <2>2
<1>4. Before(p) <=> p.m < m_cycle \/ (p.m = m_cycle /\ (2 < t_state \/ (2 = t_state /\ in_tw)))
  BY <1>1 DEF Before
<1>5. p \in Stepped <=> MCycleEnds /\ p.m = m_cycle
  <2>1. CASE ~MCycleEnds
    BY <2>1 DEF Stepped
  <2>2. CASE MCycleEnds
    <3>1. Stepped = OfMCycle((Pointers[exec] \cup AtEnd[exec] \cup Last(exec, im)) \ Last(exec, im), m_cycle)
      BY <2>2 DEF Stepped, LastT
    <3> QED BY <1>3, <2>2, <3>1 DEF OfMCycle
  <2> QED BY <2>1, <2>2
<1>6. MCycleEnds /\ p.m = m_cycle <=> p.m = m_cycle /\ t_state = 3
  <2>1. ASSUME p.m = m_cycle, t_state = 3 PROVE MCycleEnds
    <3>1. ~bus_granted
      BY <2>1 DEF LastT
    <3>2. ~stalled
      BY <1>1, <2>1 DEF LastT
    <3> QED BY <1>1, <2>1, <3>1, <3>2 DEF MCycleEnds
  <2> QED BY <1>1, <2>1 DEF MCycleEnds
<1>7. p \in Hooked <=> p.m = m_cycle /\ Tw
  <2>1. \A t \in 1 .. 7 : p \in Hooks(t) <=> t = 3 /\ p.m = m_cycle
    BY <1>1, <1>2 DEF Hooks
  <2>2. ~(t_state = 3 /\ p.m = m_cycle /\ ~bus_granted /\ ~stalled /\ ~MCycleEnds)
    BY <1>6
  <2>3. t_state \in 1 .. 7
    BY DEF LastT, Under
  <2>4. p \in Hooked <=>
          \/ ~bus_granted /\ ~stalled /\ ~MCycleEnds /\ WbMid /\ p \in Hooks(t_state)
          \/ ~bus_granted /\ stalled /\ t_state = 2 /\ p \in Hooks(2)
          \/ Tw /\ p \in Hooks(3)
    <3>1. res2
      BY DEF LastT
    <3> QED BY <3>1, InHooked
  <2> QED BY <2>1, <2>2, <2>3, <2>4
<1>8. Tw <=> t_state = 2 /\ in_tw
  BY DEF Tw, LastT
<1> QED BY <1>1, <1>4, <1>5, <1>6, <1>7, <1>8

-----------------------------------------------------------------------------
(***************************************************************************)
(* What each write of the cut T-state is: made here, or later than the     *)
(* cut.                                                                    *)
(***************************************************************************)
\* What the M-cycle's last edge makes when it is cut.
LEMMA InStepped ==
  ASSUME LastT, NEW w
  PROVE  w \in Stepped <=> MCycleEnds /\ w.m = m_cycle /\ w \notin Last(exec, im)
                           /\ w \in Pointers[exec] \cup AtEnd[exec]
<1>1. CASE ~MCycleEnds
  BY <1>1 DEF Stepped
<1>2. CASE MCycleEnds
  <2>1. Stepped = OfMCycle((Pointers[exec] \cup AtEnd[exec] \cup Last(exec, im)) \ Last(exec, im), m_cycle)
    BY <1>2 DEF Stepped, LastT
  <2> QED BY <1>2, <2>1 DEF OfMCycle
<1> QED BY <1>1, <1>2

\* A step's, from an earlier T-state of the M-cycle that ends: kept.
LEMMA CutAtEnd ==
  ASSUME LastT, NEW a \in AtEnd[exec]
  PROVE  Before(a) <=> a.m < m_cycle \/ a \in Stepped
<1>1. a \in Inside /\ a.m \in 1 .. 7 /\ a.k \in 1 .. 7
  <2>1. a \in Inside
    BY InsideIs DEF LastT, OwnNow, Own
  <2> QED BY <2>1, InsideIs DEF LastT, AnyWrite
<1>2. a.m > 1 /\ a.k = LenAt(Cycles(exec, disp), a.m) - 1
      /\ ~WaitSample(BusAt(Cycles(exec, disp), a.m), a.k, 1)
  BY DEF LastT, Under, TablesNow, Tables, AtEndPlaced
<1>3. t_state \in 1 .. m_len /\ m_len \in 1 .. 7 /\ m_cycle \in 1 .. 6 /\ owner.end = 0
  BY DEF LastT, Under
<1>4. a.m = m_cycle => a.k = m_len - 1 /\ ~WaitSample(bus_op, a.k, 1)
  BY <1>2 DEF LastT, Under, ShapeInv
<1>5. a \notin Last(exec, im)
  <2>1. ASSUME a \in Last(exec, im) PROVE a.k = LenAt(Cycles(exec, disp), a.m)
    BY <1>2, <2>1 DEF LastT, Under, TablesNow, Tables, LastPlaced
  <2>2. ASSUME LenAt(Cycles(exec, disp), a.m) = a.k PROVE FALSE
    BY <1>1, <1>2, <2>2
  <2> QED BY <2>1, <2>2
<1>6. a \in Stepped <=> MCycleEnds /\ a.m = m_cycle
  BY <1>5, InStepped
<1>7. a.m = m_cycle => (MCycleEnds <=> a.k < t_state \/ (a.k = t_state /\ in_tw))
  <2> SUFFICES ASSUME a.m = m_cycle
               PROVE  MCycleEnds <=> a.k < t_state \/ (a.k = t_state /\ in_tw)
    OBVIOUS
  <2>1. ~(a.k = t_state /\ in_tw)
    BY <1>4 DEF LastT
  <2>2. a.k < t_state <=> t_state = m_len
    BY <1>1, <1>3, <1>4
  <2>3. ASSUME t_state = m_len PROVE ~bus_granted /\ ~stalled
    <3>1. t_state # 1
      BY <1>1, <1>3, <1>4, <2>3
    <3> QED BY <1>3, <2>3, <3>1 DEF LastT
  <2> QED BY <2>1, <2>2, <2>3 DEF MCycleEnds
<1> QED BY <1>1, <1>3, <1>6, <1>7 DEF Before

\* Those of the cut's own T-state: not made, since the die makes them only later.
LEMMA CutLast ==
  ASSUME LastT, NEW l \in Last(exec, im)
  PROVE  (Before(l) <=> l.m < m_cycle) /\ l \notin Stepped
<1>1. l.m \in 1 .. 7 /\ l.k \in 1 .. 7
  <2>1. l \in Inside
    BY InsideIs DEF LastT, OwnNow, Own
  <2> QED BY <2>1, InsideIs DEF LastT, AnyWrite
<1>2. t_state \in 1 .. m_len /\ m_len \in 1 .. 7 /\ m_cycle \in 1 .. 6 /\ owner.end = 0
  BY DEF LastT, Under
<1>3. ASSUME l.m = m_cycle PROVE l.k >= m_len
  <2>1. \/ l.m > 1 /\ l.k = LenAt(Cycles(exec, disp), l.m)
        \/ l.m = 1 /\ ((exec = "NMI" /\ l.k = 5) \/ (exec = "INT" /\ l.k = 7))
    BY DEF LastT, Under, TablesNow, Tables, LastPlaced
  <2>2. CASE l.m > 1 /\ l.k = LenAt(Cycles(exec, disp), l.m)
    <3>1. l.k = m_len
      BY <1>3, <2>2 DEF LastT, Under, ShapeInv
    <3> QED BY <1>2, <3>1
  <2>3. CASE l.m = 1 /\ exec = "NMI" /\ l.k = 5
    <3>1. bus_op = "M1"
      BY <1>3, <2>3 DEF LastT, Under, ShapeInv, Fetches
    <3> QED BY <1>2, <2>3, <3>1 DEF LastT, Under, ShapeInv
  <2>4. CASE l.m = 1 /\ exec = "INT" /\ l.k = 7
    BY <1>2, <2>4
  <2> QED BY <2>1, <2>2, <2>3, <2>4
<1>4. in_tw => t_state < m_len
  BY DEF LastT
<1>5. l \notin Stepped
  BY InStepped
<1>6. l.m = m_cycle => ~(l.k < t_state) /\ ~(l.k = t_state /\ in_tw)
  BY <1>1, <1>2, <1>3, <1>4
<1> QED BY <1>1, <1>2, <1>5, <1>6 DEF Before

\* A WZ byte that waited: as far as the cut came.
LEMMA CutLater ==
  ASSUME LastT, NEW z \in LaterNow
  PROVE  /\ Before(z) <=> z.m < m_cycle \/ z \in Landed
         /\ z.reg \in {"Z", "W"}
<1>1. z.m \in 1 .. 7 /\ z.k \in 1 .. 7
  <2>1. z \in Inside
    BY InsideIs DEF LastT
  <2> QED BY <2>1, InsideIs DEF LastT, AnyWrite
<1>2. t_state \in 1 .. m_len /\ m_len \in 1 .. 7 /\ m_cycle \in 1 .. 6 /\ owner.end = 0
  BY DEF LastT, Under
<1>3. z.m > 1 /\ z.reg \in {"Z", "W"} /\ (WaitSample(BusAt(Cycles(exec, disp), z.m), z.k, 1) => z.k = 2)
  BY DEF LastT, Under, TablesNow, Tables, LaterPlaced, LaterNow
<1>4. z \in Landed <=> z.m = m_cycle /\ ~bus_granted /\ (z.k < t_state \/ (z.k = t_state /\ Tw))
  <2>1. Landed = {w \in wzp : ~bus_granted /\ (w.k < t_state \/ (w.k = t_state /\ Tw))}
    BY DEF Landed, LastT
  <2>2. z \in wzp <=> z.m = m_cycle
    BY DEF LastT, Under, OfMCycle
  <2> QED BY <2>1, <2>2
<1>5. z.m = m_cycle =>
        ((z.k < t_state \/ (z.k = t_state /\ in_tw))
          <=> ~bus_granted /\ (z.k < t_state \/ (z.k = t_state /\ Tw)))
  <2> SUFFICES ASSUME z.m = m_cycle
               PROVE  (z.k < t_state \/ (z.k = t_state /\ in_tw))
                        <=> ~bus_granted /\ (z.k < t_state \/ (z.k = t_state /\ Tw))
    OBVIOUS
  <2>1. ASSUME z.k = t_state, in_tw PROVE Tw
    <3>1. WaitSample(bus_op, t_state, 1) /\ ~bus_granted
      BY <2>1 DEF LastT
    <3>2. bus_op = BusAt(Cycles(exec, disp), z.m)
      BY <1>3 DEF LastT, Under, ShapeInv
    <3>3. z.k = 2
      BY <1>3, <2>1, <3>1, <3>2
    <3> QED BY <2>1, <3>1, <3>3 DEF Tw
  <2>2. z.k < t_state => ~bus_granted
    BY <1>1, <1>2 DEF LastT
  <2>3. Tw => in_tw /\ ~bus_granted
    BY DEF Tw
  <2> QED BY <2>1, <2>2, <2>3
<1>6. Before(z) <=> z.m < m_cycle \/ (z.m = m_cycle /\ (z.k < t_state \/ (z.k = t_state /\ in_tw)))
  BY <1>2 DEF Before
<1> QED BY <1>3, <1>4, <1>5, <1>6

\* What the cut's T-state makes is of the instruction and of this M-cycle,
LEMMA CutParts ==
  ASSUME LastT
  PROVE  /\ Hooked \subseteq Early[exec] \cup Pointers[exec]
         /\ Landed \subseteq LaterNow /\ Stepped \subseteq OwnNow
         /\ \A w \in Landed \cup Stepped : w.m = m_cycle
         /\ MCycleEnds => Hooked = {}
<1>1. Hooked \subseteq Early[exec] \cup Pointers[exec]
  <2>1. \A t : Hooks(t) \subseteq Early[exec] \cup Pointers[exec]
    BY DEF Hooks
  <2> QED BY <2>1, InHooked
<1>2. Landed \subseteq wzp
  BY DEF Landed
<1>3. wzp = OfMCycle(LaterNow, m_cycle)
  BY DEF LastT, Under
<1>4. \A w \in Stepped : w \in OwnNow /\ w.m = m_cycle
  BY InStepped DEF OwnNow, Own
<1>5. ASSUME MCycleEnds PROVE Hooked = {}
  <2>1. ~stalled /\ t_state = m_len
    BY <1>5 DEF MCycleEnds
  <2>2. ~Tw
    BY <2>1 DEF Tw, LastT
  <2>3. \A w : w \notin Hooked
    BY <1>5, <2>1, <2>2, InHooked
  <2> QED BY <2>3
<1> QED BY <1>1, <1>2, <1>3, <1>4, <1>5 DEF OfMCycle

\* and, with what was made before, it is what the die's edges leave,
LEMMA CutKept ==
  ASSUME LastT
  PROVE  Kept = DoneIn \cup Hooked \cup Landed \cup Stepped
<1>1. Kept = {w \in Inside : Before(w)}
  <2>1. owner.end = 0 /\ ~HalfLoaded
    BY DEF LastT, Under, HalfLoaded
  <2>2. Owed = Inside
    BY <2>1 DEF Owed
  <2> QED BY <2>1, <2>2 DEF Kept
<1>2. Hooked \cup Landed \cup Stepped \subseteq Inside
  BY CutParts, InsideIs DEF LastT, OwnNow, Own
<1>3. DoneIn \subseteq Inside
  BY DEF DoneIn
<1>4. ASSUME NEW w \in Inside
      PROVE  Before(w) <=> w \in DoneIn \/ w \in Hooked \/ w \in Landed \/ w \in Stepped
  <2>1. w \in OwnNow \cup Early[exec] \cup LaterNow
    BY InsideIs DEF LastT
  <2>2. w \notin Early[exec] => (w \in DoneIn <=> w.m < m_cycle)
    BY DEF DoneIn, ReachedIn
  <2>3. CASE w \in Early[exec]
    <3>1. w \notin OwnNow /\ w \notin LaterNow
      BY <2>3, EarlyIs DEF LastT
    <3>2. w \notin Landed /\ w \notin Stepped
      BY <3>1, CutParts
    <3> QED BY <2>3, <3>2, CutEarly
  <2>4. CASE w \in Pointers[exec]
    <3>1. w \notin Early[exec]
      BY <2>4, EarlyIs DEF LastT, OwnNow, Own
    <3>2. w \notin LaterNow
      <4>1. w.reg \notin {"Z", "W"}
        BY <2>4 DEF LastT, Under, TablesNow, Tables, PointersPlaced
      <4> QED BY <4>1, CutLater
    <3>3. w \notin Landed
      BY <3>2, CutParts
    <3> QED BY <2>2, <2>4, <3>1, <3>3, CutPointer
  <2>5. CASE w \notin Early[exec] /\ w \notin Pointers[exec] /\ w \notin LaterNow
    <3>1. w \notin Hooked /\ w \notin Landed
      BY <2>5, CutParts
    <3>2. w \in AtEnd[exec] \/ w \in Last(exec, im)
      BY <2>1, <2>5 DEF OwnNow, Own
    <3> QED BY <2>2, <2>5, <3>1, <3>2, CutAtEnd, CutLast
  <2>6. CASE w \notin Early[exec] /\ w \notin Pointers[exec] /\ w \in LaterNow
    <3>1. w \notin Hooked
      BY <2>6, CutParts
    <3>2. w \notin OwnNow
      <4>1. LandFirst(exec, LaterNow, im)
        BY DEF LastT, Under, TablesNow, Tables, LaterNow
      <4>2. w \in OwnNow => w.k < w.k
        BY <2>6, <4>1 DEF LandFirst, OwnNow
      <4>3. w.k \in 1 .. 7
        BY InsideIs DEF LastT, AnyWrite
      <4> QED BY <4>2, <4>3
    <3>3. w \notin Stepped
      BY <3>2, CutParts
    <3> QED BY <2>2, <2>6, <3>1, <3>3, CutLater
  <2> QED BY <2>1, <2>3, <2>4, <2>5, <2>6
<1> QED BY <1>1, <1>2, <1>3, <1>4

\* each write once and in order.
LEMMA CutInside ==
  ASSUME LastT, MadeIs(DoneIn)
  PROVE  SameWrites(made \o Writes, Kept)
<1>1. Fired = {}
  BY DEF Fired, FiresF1, FiresALU, FiresF16, Owes, LastT
<1>2. /\ Hooked \subseteq AnyWrite /\ Landed \subseteq AnyWrite /\ Stepped \subseteq AnyWrite
  BY CutParts, InsideIs DEF LastT, OwnNow, Own
<1>3. \A w \in Hooked : w \notin LaterNow /\ w.reg \notin {"Z", "W"}
  <2>1. \A w \in Early[exec] \cup Pointers[exec] : w.reg \notin {"Z", "W"}
    BY DEF LastT, Under, TablesNow, Tables, PointersPlaced, EarlyPlaced
  <2> QED BY <2>1, CutParts, CutLater
<1>4. Fits(DoneIn, Hooked)
  <2>1. ASSUME NEW v \in DoneIn, NEW w \in Hooked, v.reg = w.reg PROVE Earlier(v, w)
    <3>1. CASE w \in Early[exec]
      <4>1. m_cycle = EarlyM(exec) /\ w \notin DoneIn
        BY <3>1, CutEarly
      <4>2. m_cycle <= EarlyM(exec)
        BY <4>1 DEF LastT, Under
      <4>3. v = w
        BY <2>1, <3>1, <4>2, EarlyAfter DEF LastT
      <4> QED BY <4>1, <4>3
    <3>2. CASE w \in Pointers[exec]
      <4>1. w.m = m_cycle /\ w \in OwnNow
        BY <3>2, CutPointer DEF OwnNow, Own
      <4> QED BY <2>1, <4>1, DoneBefore DEF LastT
    <3> QED BY <3>1, <3>2, CutParts
  <2>2. ASSUME NEW v \in Hooked, NEW w \in Hooked, v.reg = w.reg PROVE v = w
    <3>1. CASE v \in Early[exec] /\ w \in Early[exec]
      BY <3>1, EarlyIs DEF LastT
    <3>2. CASE v \in Pointers[exec] /\ w \in Pointers[exec]
      <4>1. v.m = m_cycle /\ w.m = m_cycle
        BY <3>2, CutPointer
      <4>2. Once(OwnNow)
        BY DEF LastT, Under, TablesNow, Tables, OwnNow
      <4> QED BY <2>2, <3>2, <4>1, <4>2 DEF Once, OwnNow, Own
    <3>3. ASSUME NEW e \in Early[exec], NEW p \in Pointers[exec], e \in Hooked, p \in Hooked,
                 e.reg = p.reg
          PROVE  FALSE
      <4>1. m_cycle = EarlyM(exec) /\ (exec = "EX_SP_HL" => t_state = 1)
        BY <3>3, CutEarly
      <4>2. p.m = m_cycle /\ t_state = 2
        BY <3>3, CutPointer DEF Tw
      <4>3. e.m = 3 /\ e.m < p.m
        BY <3>3, EarlyIs DEF LastT, OwnNow, Own
      <4> QED BY <4>1, <4>2, <4>3 DEF EarlyM
    <3> QED BY <2>2, <3>1, <3>2, <3>3, CutParts
  <2> QED BY <2>1, <2>2 DEF Fits
<1>5. Fits(DoneIn \cup Hooked, Landed)
  <2>1. \A v \in DoneIn, w \in Landed : v.reg = w.reg => Earlier(v, w)
    BY DoneBefore, CutParts DEF LastT
  <2>2. \A v \in Hooked, w \in Landed : v.reg # w.reg
    BY <1>3, CutParts, CutLater
  <2>3. Once(LaterNow)
    BY DEF LastT, Under, TablesNow, Tables, LaterPlaced, LaterNow
  <2> QED BY <2>1, <2>2, <2>3, CutParts DEF Fits, Once
<1>6. Fits(DoneIn \cup Hooked \cup Landed, Stepped)
  <2>1. \A v \in DoneIn, w \in Stepped : v.reg = w.reg => Earlier(v, w)
    BY DoneBefore, CutParts DEF LastT
  <2>2. \A v \in Hooked, w \in Stepped : FALSE
    BY InStepped, CutParts
  <2>3. Once(OwnNow) /\ LandFirst(exec, LaterNow, im)
    BY DEF LastT, Under, TablesNow, Tables, OwnNow, LaterNow
  <2>4. \A v \in Landed, w \in Stepped : v.reg = w.reg => Earlier(v, w)
    BY <2>3, CutParts DEF LandFirst, OwnNow, Earlier
  <2>5. \A v, w \in Stepped : v.reg = w.reg => v = w
    BY <2>3, CutParts DEF Once
  <2> QED BY <2>1, <2>2, <2>4, <2>5 DEF Fits
<1>7. Fired \cup Hooked = Hooked /\ DoneIn \cup Fired \cup Hooked = DoneIn \cup Hooked
      /\ DoneIn \cup Fired \cup Hooked \cup Landed = DoneIn \cup Hooked \cup Landed
      /\ DoneIn \cup Fired \cup Hooked \cup Landed \cup Stepped
           = DoneIn \cup Hooked \cup Landed \cup Stepped
  BY <1>1
<1>8. Fits(DoneIn, Fired \cup Hooked) /\ Fits(DoneIn \cup Fired \cup Hooked, Landed)
      /\ Fits(DoneIn \cup Fired \cup Hooked \cup Landed, Stepped)
  BY <1>4, <1>5, <1>6, <1>7
<1>9. SameWrites(made \o Writes, DoneIn \cup Fired \cup Hooked \cup Landed \cup Stepped)
  BY <1>2, <1>7, <1>8, WritesAdd DEF MadeIs
<1> QED BY <1>7, <1>9, CutKept

-----------------------------------------------------------------------------
(***************************************************************************)
(* The RESET cut in the M1 after an instruction, and the theorem.          *)
(***************************************************************************)
\* In the M1 after an instruction a cut makes of the flags what the half
\* loaded latches give.
LEMMA CutFired ==
  ASSUME AfterIt, res2, bus_granted => t_state = 1
  PROVE  Fired = IF t_state = 2 /\ ~in_tw /\ "F1" \notin Ended /\ "F" \in results
                 THEN {W(owner.end + 1, 1, "Fcut")} ELSE {}
<1>1. Fires <=> ~bus_granted /\ (t_state = 1 \/ (t_state = 2 /\ ~in_tw))
  BY DEF Fires, AfterIt, Fetches
<1>2. \A k \in {"ALU", "F16"} : t_state = 2 /\ ~in_tw => (k \in wbp <=> k \in Ended)
  BY PendingAre DEF PendingKinds
<1>3. Fired = IF FiresALU("F") \/ FiresF16 THEN {W(owner.end + 1, 1, "Fcut")} ELSE {}
  BY DEF Fired
<1>4. FiresALU("F") \/ FiresF16 <=>
        t_state = 2 /\ ~in_tw /\ (("ALU" \in Ended /\ "F" \in results) \/ "F16" \in Ended)
  BY <1>1, <1>2 DEF FiresALU, FiresF16, Owes
<1>5. ("ALU" \in Ended /\ "F" \in results) \/ "F16" \in Ended
        <=> "F1" \notin Ended /\ "F" \in results
  BY DEF AfterIt, OweFlags
<1> QED BY <1>3, <1>4, <1>5

\* The same of the writes left to the M1 that is cut.
LEMMA CutLeft ==
  ASSUME AfterIt, res2, bus_granted => t_state = 1, MadeIs(DoneLeft)
  PROVE  SameWrites(made \o Writes, Kept)
<1> DEFINE m == owner.end + 1
           cut == W(m, 1, "Fcut")
<1>1. Hooked = {} /\ Landed = {} /\ Stepped = {}
  BY NothingElse
<1>2. m \in 1 .. 7 /\ owner.end \in 1 .. 6 /\ m_cycle = 1 /\ t_state \in 1 .. 5
      /\ owner.end + m_cycle = m
  BY DEF AfterIt, FetchLast
<1>3. \A w \in Owed : \/ w.m <= owner.end /\ w.m \in 1 .. 7 /\ w.reg \in Inner
                      \/ w \in LeftToM1 /\ w.m = m /\ w.k \in {1, 2}
                         /\ (w.k = 1 <=> w.reg \in {"F", "AF"})
  <2>1. \A w \in LeftToM1 : w.k \in {1, 2} /\ (w.k = 1 <=> w.reg \in {"F", "AF"})
    <3>1. \A r : \A k : W(m, k, r).k = k
      BY DEF W
    <3>2. \A w \in LeftToM1 : w.k = IF w.reg \in {"F", "AF"} THEN 1 ELSE 2
      BY <3>1, LeftApart
    <3> QED BY <3>2
  <2> QED BY <2>1, InsideOwner, LeftApart DEF Owed, AfterIt, AnyWrite
<1>4. HalfLoaded <=> t_state = 2 /\ ~in_tw /\ "F1" \notin Ended
  BY <1>2 DEF HalfLoaded, Ended
<1>5. \A w \in Owed : Before(w) <=>
        \/ w.m <= owner.end
        \/ w.m = m /\ (w.k < t_state \/ (w.k = t_state /\ in_tw))
  BY <1>2, <1>3 DEF Before
<1>6. CASE t_state = 2 /\ ~in_tw /\ "F1" \notin Ended
  <2>1. \A w \in Owed : w \in DoneLeft <=> w.m <= owner.end \/ w.reg = "AF"
    BY <1>6 DEF DoneLeft, ReachedLeft
  <2>2. \A w \in Owed : Before(w) <=> w.m <= owner.end \/ w.reg \in {"F", "AF"}
    <3> SUFFICES ASSUME NEW w \in Owed PROVE Before(w) <=> w.m <= owner.end \/ w.reg \in {"F", "AF"}
      OBVIOUS
    <3>1. CASE w.m <= owner.end
      BY <1>5, <3>1
    <3>2. CASE w \in LeftToM1 /\ w.m = m /\ w.k \in {1, 2} /\ (w.k = 1 <=> w.reg \in {"F", "AF"})
      BY <1>2, <1>5, <1>6, <3>2
    <3> QED BY <1>3, <3>1, <3>2
  <2>3. \A w \in Owed : w.reg = "F" => w \notin DoneLeft /\ w = W(m, 1, "F") /\ "F" \in results
    <3> SUFFICES ASSUME NEW w \in Owed, w.reg = "F"
                 PROVE  w \notin DoneLeft /\ w = W(m, 1, "F") /\ "F" \in results
      OBVIOUS
    <3>1. w \in LeftToM1 /\ w.m = m
      BY <1>3 DEF Inner
    <3>2. w = W(m, 1, "F") /\ "F" \in results
      BY <3>1, LeftApart
    <3>3. ~(w.m <= owner.end)
      BY <1>2, <3>1
    <3> QED BY <2>1, <3>2, <3>3
  <2>4. DoneLeft \subseteq Owed
    BY DEF DoneLeft
  <2>5. [W(m, 1, "F") EXCEPT !.reg = "Fcut"] = cut
    BY DEF W
  <2>6. Kept = {IF w.reg = "F" THEN [w EXCEPT !.reg = "Fcut"] ELSE w : w \in {v \in Owed : Before(v)}}
    BY <1>4, <1>6 DEF Kept
  <2> HIDE DEF cut, m
  <2>7. Kept = DoneLeft \cup (IF "F" \in results THEN {cut} ELSE {})
    <3>1. ASSUME NEW x \in Kept PROVE x \in DoneLeft \/ ("F" \in results /\ x = cut)
      <4>1. PICK w \in Owed : Before(w) /\ x = IF w.reg = "F" THEN [w EXCEPT !.reg = "Fcut"] ELSE w
        BY <2>6
      <4>2. CASE w.reg = "F"
        BY <2>3, <2>5, <4>1, <4>2
      <4>3. CASE w.reg # "F"
        BY <2>1, <2>2, <4>1, <4>3
      <4> QED BY <4>2, <4>3
    <3>2. ASSUME NEW x \in DoneLeft PROVE x \in Kept
      <4>1. x \in Owed /\ Before(x) /\ x.reg # "F"
        BY <2>1, <2>2, <2>3, <2>4
      <4> QED BY <2>6, <4>1
    <3>3. ASSUME "F" \in results PROVE cut \in Kept
      <4>1. W(m, 1, "F") \in LeftToM1
        BY <3>3, LeftApart DEF m
      <4>2. W(m, 1, "F") \in Owed /\ W(m, 1, "F").reg = "F"
        BY <4>1 DEF Owed, W, AfterIt
      <4>3. Before(W(m, 1, "F"))
        BY <2>2, <4>2
      <4> QED BY <2>5, <2>6, <4>2, <4>3
    <3> QED BY <3>1, <3>2, <3>3
  <2>8. Fired = IF "F" \in results THEN {cut} ELSE {}
    BY <1>6, CutFired DEF cut, m
  <2>9. Fits(DoneLeft, Fired) /\ Fired \subseteq AnyWrite
    <3>1. cut \in AnyWrite /\ cut.reg = "Fcut"
      BY <1>2 DEF cut, W, AnyWrite, Registers, m
    <3>2. \A v \in DoneLeft : v.reg # "Fcut"
      <4>1. \A v \in LeftToM1 : v.reg # "Fcut"
        BY LeftApart
      <4> QED BY <1>3, <2>4, <4>1 DEF Inner
    <3> QED BY <2>8, <3>1, <3>2 DEF Fits
  <2>10. Fits(DoneLeft \cup Fired, {}) /\ {} \subseteq AnyWrite
    BY DEF Fits
  <2>11. Fired \cup Hooked = Fired /\ DoneLeft \cup Fired \cup Hooked = DoneLeft \cup Fired
         /\ DoneLeft \cup Fired \cup Hooked \cup Landed = DoneLeft \cup Fired
         /\ DoneLeft \cup Fired \cup Hooked \cup Landed \cup Stepped = DoneLeft \cup Fired
    BY <1>1
  <2>12. SameWrites(made \o Writes, DoneLeft \cup Fired)
    BY <1>1, <2>9, <2>10, <2>11, WritesAdd DEF MadeIs
  <2> QED BY <2>7, <2>8, <2>12
<1>7. CASE ~(t_state = 2 /\ ~in_tw /\ "F1" \notin Ended)
  <2>1. Fired = {}
    BY <1>7, CutFired
  <2>2. SameWrites(made \o Writes, DoneLeft \cup Fired)
    <3>1. Fired \subseteq LeftToM1 /\ Fired \cap DoneLeft = {}
      BY <2>1
    <3> QED BY <1>1, <3>1, FiredAlone
  <2>3. \A w \in Owed : Before(w) <=> ReachedLeft(w)
    <3> SUFFICES ASSUME NEW w \in Owed PROVE Before(w) <=> ReachedLeft(w)
      OBVIOUS
    <3>1. CASE w.m <= owner.end
      BY <1>5, <3>1 DEF ReachedLeft
    <3>2. CASE w \in LeftToM1 /\ w.m = m /\ w.k \in {1, 2} /\ (w.k = 1 <=> w.reg \in {"F", "AF"})
      <4>1. ~(w.m <= owner.end)
        BY <1>2, <3>2
      <4>2. t_state = 1 => ~in_tw
        BY DEF AfterIt
      <4>3. CASE t_state = 1
        BY <1>5, <3>2, <4>1, <4>2, <4>3 DEF ReachedLeft
      <4>4. CASE t_state = 2 /\ ~in_tw
        BY <1>5, <1>7, <3>2, <4>1, <4>4 DEF ReachedLeft
      <4>5. CASE t_state > 2 \/ (t_state = 2 /\ in_tw)
        BY <1>2, <1>5, <3>2, <4>1, <4>5 DEF ReachedLeft
      <4> QED BY <1>2, <4>3, <4>4, <4>5
    <3> QED BY <1>3, <3>1, <3>2
  <2>4. Kept = {v \in Owed : Before(v)}
    BY <1>4, <1>7 DEF Kept
  <2>5. Kept = DoneLeft
    BY <2>3, <2>4 DEF DoneLeft
  <2> QED BY <2>1, <2>2, <2>5
<1> QED BY <1>6, <1>7

LEMMA CutStep ==
  ASSUME TypeInv, PendingInv, StrobeInv, LenInv, GrantBetweenMCycles, OwnerInv, ShapeInv, MadeInv,
         WbNext, CutNow, ~LateInGrant
  PROVE  SameWrites(made', Kept)
<1>1. CutShort
  BY DEF WbNext, CutNow, InMCycle, ToNextMCycle, AfterPrefix, AtInstructionEnd, Restarts,
         FallingEdge, Granted, ResetHold, NextTState, LatchM1, LatchINTA, WaitState, NextMCycle,
         NextPrefix, AcceptNMI, AcceptINT, HaltNOP, NextInstruction, EndInstruction, Restart,
         Ticks, Running
<1>2. ~rst_idle /\ res2 /\ made' = made \o Writes
  BY <1>1 DEF CutNow, CutShort
<1>3. CASE owner.end = 0
  <2>1. LastT /\ MadeIs(DoneIn)
    BY <1>2, <1>3, LastTIs DEF MadeInv, Done
  <2> QED BY <1>2, <2>1, CutInside
<1>4. CASE owner.end # 0
  <2>1. AfterIt /\ MadeIs(DoneLeft)
    BY <1>2, <1>4, AfterItIs DEF MadeInv, Done
  <2>2. bus_granted => t_state = 1
    BY DEF GrantBetweenMCycles
  <2> QED BY <1>2, <2>1, <2>2, CutLeft
<1> QED BY <1>3, <1>4

\* A RESET cut keeps the writes the die had made by the cut's T-state, each
\* once and in the die's order, and no other: but for EX (SP),HL's SP+1 in a
\* bus grant.
THEOREM CutSafe == WbSpec => CutKeepsDieEdges
<1>1. ASSUME TypeInv, PendingInv, StrobeInv, LenInv, GrantBetweenMCycles, OwnerInv, ShapeInv,
             MadeInv, [WbNext]_allvars
      PROVE  [CutNow /\ ~LateInGrant => SameWrites(made', Kept)]_allvars
  BY <1>1, CutStep
<1> QED BY <1>1, MadeInvHolds, OwnerInvHolds, ShapeInvHolds, WriteBackKeepsCore, TypeInvHolds,
           PendingInvHolds, StrobeInvHolds, LenInvHolds, GrantSafe, PTL DEF WbSpec, CutKeepsDieEdges
=============================================================================
