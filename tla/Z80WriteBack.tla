---------------------------- MODULE Z80WriteBack ----------------------------
(***************************************************************************)
(* When a result goes into the register file: the phase engine (Z80Core)   *)
(* with the writes of z80_exec_step(), wb_hooks(), wb_fire() and the       *)
(* waiting WZ bytes of cmodel/z80_core.c. RESET stops an instruction after *)
(* any T-state, and keeps every register as it was written by then.        *)
(*                                                                         *)
(* A write is the register and the die's place for it: the low half of     *)
(* T-state k of M-cycle m, as the source's comments give it. The model     *)
(* makes it on the edge where the code does; values are left out. R is the *)
(* register of an ALU operation or a load, F the flags and Fcut the flags  *)
(* as half-loaded latches give them; RR, RL and RH are a pair and its      *)
(* halves, AF, EX and DH the exchanges.                                    *)
(***************************************************************************)
EXTENDS Z80Core

VARIABLES
  wzp,      \* the WZ bytes that wait for their T-state (wzp_m, wzp_kz, wzp_kw)
  results,  \* what the pending ALU writes are of: R, F or both
  q,        \* Q, against F: "F", "0", or "stale", an F from before the last
  made,     \* the writes made since the last instruction's: those of a call,
            \* then those of the next
  owner,    \* the instruction they are of, and its last M-cycle once it ended
  armed     \* the die's flag latches hold flags its next T3 writes into F

wbvars == <<wzp, results, q, made, owner, armed>>
allvars == <<vars, wbvars>>

W(m, k, reg) == [m |-> m, k |-> k, reg |-> reg]
WZ(m, kz, kw) == {W(m, kz, "Z"), W(m, kw, "W")}

-----------------------------------------------------------------------------
(***************************************************************************)
(* The writes inside the instruction, by the way the code makes them.      *)
(***************************************************************************)

\* SP and the block pointers in a bus cycle's T2.N: z80_exec_step() makes
\* them as the M-cycle ends, wb_hooks() if a cut ends on a Tw before.
Pointers ==
  [ex \in Classes |->
     CASE ex \in {"PUSH", "RST"}        -> {W(3, 2, "SP")}
       [] ex \in {"CALL", "CALL_CC"}    -> {W(5, 2, "SP")}
       [] ex \in {"NMI", "INT"}         -> {W(2, 2, "SP")}
       [] ex \in {"POP", "RET", "RETN"} -> {W(2, 2, "SP"), W(3, 2, "SP")}
       [] ex = "RET_CC"                 -> {W(3, 2, "SP"), W(4, 2, "SP")}
       [] ex = "EX_SP_HL"               -> {W(4, 2, "SP")}
       [] ex \in {"LDI", "CPI"}         -> {W(2, 2, "HL")}
       [] ex = "OUTI"                   -> {W(3, 2, "HL")}
       [] ex = "INI"                    -> {W(4, 2, "HL")}
       [] OTHER -> {}]

\* Those before an M-cycle's last edge, by wb_hooks() alone (wb_mid).
Early ==
  [ex \in Classes |->
     CASE ex = "EX_SP_HL"         -> {W(3, 4, "SP")}
       [] ex \in {"DJNZ", "INI", "OUTI"} -> {W(3, 1, "B")}
       [] ex = "LDI"              -> {W(3, 2, "DE")}
       [] OTHER -> {}]

\* On the M-cycle's last edge, from an earlier T-state: a cut that ends on
\* this one keeps them.
AtEnd ==
  [ex \in Classes |->
     CASE ex \in {"INC_RP", "DEC_RP"} -> {W(2, 1, "RR")}
       [] ex = "LD_SP_HL"             -> {W(2, 1, "SP")}
       [] ex \in {"ADD_HL_RP", "ADC16", "SBC16"} -> {W(2, 3, "L")}
       [] ex = "EX_SP_HL"             -> {W(3, 3, "W"), W(5, 4, "HL")}
       [] ex \in {"LDI", "CPI"}       -> {W(3, 4, "BC")}
       [] OTHER -> {}]

\* Where the operand bytes go: Z then W.
TwoOperands ==
  {"JP", "JP_CC", "CALL", "CALL_CC", "LD_A_NN", "LD_NN_A", "LD_HL_NN",
   "LD_NN_HL", "LD_NNA_RP", "LD_RP_NNA"}

\* A push's first SP-1, in the low half of the T-state before its first write
\* (push_sp).
PushSp ==
  [ex \in Classes |->
     CASE ex \in {"CALL", "CALL_CC"} -> {W(4, 1, "SP")}
       [] ex \in {"RST", "PUSH"}     -> {W(2, 1, "SP")}
       [] ex = "NMI"                 -> {W(1, 5, "SP")}
       [] ex = "INT"                 -> {W(1, 7, "SP")}
       [] OTHER -> {}]

\* In the M-cycle's last T-state: a cut that ends on it (cut_now) blocks them.
Last(ex, mode) ==
  PushSp[ex] \cup
  (IF ex \in TwoOperands THEN {W(2, 3, "Z"), W(3, 3, "W")} ELSE {}) \cup
  CASE ex \in {"ADD_HL_RP", "ADC16", "SBC16"} -> {W(3, 3, "H")}
    [] ex \in {"LD_RP_NN", "POP"}       -> {W(2, 3, "RL"), W(3, 3, "RH")}
    [] ex \in {"LD_HL_NN", "LD_RP_NNA"} -> {W(4, 3, "RL"), W(5, 3, "RH")}
    [] ex = "LD_A_NN"                   -> {W(4, 3, "A")}
    [] ex = "LD_NN_A"                   -> {W(4, 3, "W")}
    [] ex = "LD_A_RP"                   -> {W(2, 3, "A")}
    [] ex = "LD_RP_A"                   -> {W(2, 3, "W")}
    [] ex \in {"RET", "RETN", "NMI"}    -> {W(2, 3, "Z"), W(3, 3, "W")}
    [] ex \in {"RET_CC", "RST"}         -> {W(3, 3, "Z"), W(4, 3, "W")}
    [] ex = "EX_SP_HL"                  -> {W(2, 3, "Z")}
    [] ex = "IN_A_N"                    -> {W(2, 3, "Z"), W(3, 4, "A")}
    [] ex = "OUT_N_A"                   -> {W(2, 3, "Z"), W(3, 4, "W")}
    [] ex = "INT" /\ mode # 2           -> {W(2, 3, "Z"), W(3, 3, "W")}
    [] ex = "INT" /\ mode = 2           -> {W(4, 3, "Z"), W(5, 3, "W")}
    [] OTHER -> {}

\* From the incrementer or the adder, in the M-cycle that follows (wz_later).
Later(ex, d, mode) ==
  IF d THEN WZ(3, 2, 5)
  ELSE CASE ex = "DDCB" -> {W(3, 2, "Z"), W(4, 2, "W")}
         [] ex \in {"ADD_HL_RP", "ADC16", "SBC16", "LD_A_RP", "LD_RP_A",
                    "EX_SP_HL", "IN_C", "OUT_C"} -> WZ(2, 2, 2)
         [] ex \in {"LD_A_NN", "LD_NN_A"}  -> {W(2, 1, "W")} \cup WZ(4, 2, 2)
         [] ex \in {"LD_HL_NN", "LD_NN_HL", "LD_NNA_RP", "LD_RP_NNA", "RRD",
                    "RLD"}                 -> WZ(4, 2, 2)
         [] ex \in {"JR", "JR_CC"}         -> WZ(3, 2, 5)
         [] ex = "DJNZ"                    -> WZ(4, 2, 5)
         [] ex \in {"IN_A_N", "OUT_N_A"}   -> {W(2, 1, "W")} \cup WZ(3, 2, 2)
         [] ex = "LDI"                     -> WZ(4, 2, 2)
         [] ex = "CPI"                     -> WZ(3, 2, 2) \cup WZ(4, 2, 2)
         [] ex = "INI"                     -> WZ(3, 2, 2) \cup WZ(5, 2, 2)
         [] ex = "OUTI"                    -> WZ(4, 2, 2) \cup WZ(5, 2, 2)
         [] ex = "INT" /\ mode = 2         -> WZ(3, 2, 3) \cup WZ(4, 2, 2)
         [] OTHER -> {}

OfMCycle(writes, m) == {w \in writes : w.m = m}

\* What one call writes, if anything.
Call(writes) == IF writes = {} THEN << >> ELSE <<writes>>

-----------------------------------------------------------------------------
(***************************************************************************)
(* The writes left to the next M1.                                         *)
(***************************************************************************)

\* wb_fire_op(): the register, F or both, by the class and the kind of CB
\* operation; a CB operation that ends after its read is BIT.
Results(ex, m) ==
  CASE ex \in {"LD_R_R", "LD_R_N", "LD_R_M"} -> {{"R"}}
    [] ex \in {"SCF", "CCF", "INC_M", "DEC_M", "LDI", "CPI", "INI", "OUTI"} -> {{"F"}}
    [] ex \in {"ALU_R", "ALU_N", "ALU_M", "IN_C"} -> {{"R", "F"}, {"F"}}
    [] ex = "CB_R" -> {{"R", "F"}, {"F"}, {"R"}}
    [] ex = "CB_M" -> IF m = 2 THEN {{"F"}} ELSE {{"F"}, {}}
    [] ex = "DDCB" -> IF m = 5 THEN {{"F"}} ELSE {{"R", "F"}, {"F"}, {"R"}, {}}
    [] ex \in {"INC_R", "DEC_R", "ROT_A", "DAA", "CPL", "NEG", "LD_A_IR", "RRD", "RLD"}
         -> {{"R", "F"}}
    [] OTHER -> {{}}

\* mutant: not in an INTA
FiresInM1 == ~bus_granted /\ bus_op = "M1" /\ (t_state = 1 \/ (t_state = 2 /\ ~in_tw))

\* wb_fire() is called on the edge that ends T1 or T2, not a Tw.
Fires ==
  /\ ~bus_granted /\ bus_op \in {"M1", "INTA"}
  /\ t_state = 1 \/ (t_state = 2 /\ ~in_tw)

Owes(kind, what) == Fires /\ kind \in wbp /\ what \in results

\* F1: CPI's flags, and INI's and OUTI's when they repeat.
FiresF1  == t_state = 1 /\ Owes("F1", "F")
FiresALU(what) == t_state = 2 /\ Owes("ALU", what)
FiresF16 == t_state = 2 /\ Fires /\ "F16" \in wbp

\* wb_fire(): a cut on this edge blocks all but the flags that T1 took.
Fired ==
  LET m == owner.end + 1
  IN (IF FiresF1 /\ ~res2 THEN {W(m, 1, "F")} ELSE {}) \cup
     (IF t_state = 1 /\ Fires /\ "EXAF" \in wbp /\ ~res2 THEN {W(m, 1, "AF")} ELSE {}) \cup
     (IF FiresALU("R") /\ ~res2 THEN {W(m, 2, "R")} ELSE {}) \cup
     (IF FiresALU("F") \/ FiresF16
      THEN {W(m, 1, IF res2 THEN "Fcut" ELSE "F")} ELSE {}) \cup
     (IF t_state = 2 /\ Fires /\ "EXX" \in wbp /\ ~res2 THEN {W(m, 2, "EX")} ELSE {}) \cup
     (IF t_state = 2 /\ Fires /\ "EXDH" \in wbp /\ ~res2 THEN {W(m, 2, "DH")} ELSE {})

\* Q as wb_fire() leaves it: F where F is written, 0 where an ALU write is of
\* a register alone, or its F is lost; EX AF,AF' changes F under it.
QFired ==
  CASE Fires /\ t_state = 1 /\ "F1" \in wbp  -> IF res2 THEN "0" ELSE "F"
    [] Fires /\ t_state = 2 /\ "ALU" \in wbp -> IF "F" \in results THEN "F" ELSE "0"
    [] FiresF16                              -> "F"
    [] Fires /\ t_state = 1 /\ "EXAF" \in wbp /\ ~res2 /\ q = "F" -> "stale"
    [] OTHER -> q

-----------------------------------------------------------------------------
(***************************************************************************)
(* The writes on the edge that ends a T-state.                             *)
(***************************************************************************)
MCycleEnds == ~bus_granted /\ ~stalled /\ t_state = m_len

\* a Tw after T2
Tw == in_tw /\ t_state = 2 /\ ~bus_granted

\* wb_hooks(), on the edge that ends T-state t: EX (SP),HL's SP+1 comes in
\* the M-cycle after.
Hooks(t) ==
  CASE t = 1 -> {w \in Early[exec] : w.m + 1 = m_cycle /\ w.k = 4}
    [] t = 2 -> {w \in Early[exec] : w.m = m_cycle /\ w.k = 1}
    [] t = 3 -> {w \in Early[exec] \cup Pointers[exec] : w.m = m_cycle /\ w.k = 2}
    [] OTHER -> {}

WbMid == <<exec, m_cycle>> \in {<<"EX_SP_HL", 4>>, <<"DJNZ", 3>>, <<"LDI", 3>>,
                                <<"INI", 3>>, <<"OUTI", 3>>}

\* mutant: a cut on a Tw makes only the writes of T1
HookedNoTw ==
  (IF ~bus_granted /\ ~stalled /\ ~MCycleEnds /\ WbMid THEN Hooks(t_state) ELSE {}) \cup
  (IF ~bus_granted /\ stalled /\ t_state = 2 /\ res2 THEN Hooks(2) ELSE {})

Hooked ==
  (IF ~bus_granted /\ ~stalled /\ ~MCycleEnds /\ WbMid THEN Hooks(t_state) ELSE {}) \cup
  (IF ~bus_granted /\ stalled /\ t_state = 2 /\ res2 THEN Hooks(2) ELSE {}) \cup
  (IF Tw /\ res2 THEN Hooks(3) ELSE {})

\* The waiting WZ bytes: all at the M-cycle's end, at a cut those before its
\* T-state, or in T2's low half when that is a Tw (wz_land, wz_land_cut).
Landed ==
  IF res2 THEN {w \in wzp : ~bus_granted /\ (w.k < t_state \/ (w.k = t_state /\ Tw))}
  ELSE {w \in wzp : MCycleEnds}

\* mutant: cut_now is not looked at
SteppedUncut ==
  IF ~MCycleEnds THEN {}
  ELSE OfMCycle(Pointers[exec] \cup AtEnd[exec] \cup Last(exec, im), m_cycle)

\* z80_exec_step() on the M-cycle's last edge.
Stepped ==
  IF ~MCycleEnds THEN {}
  ELSE LET blocked == IF res2 THEN Last(exec, im) ELSE {}
       IN OfMCycle((Pointers[exec] \cup AtEnd[exec] \cup Last(exec, im)) \ blocked, m_cycle)

\* mutant: the WZ bytes that waited land after the M-cycle's own
WritesSwapped == Call(Fired \cup Hooked) \o Call(Stepped) \o Call(Landed)

\* In the order of advance(): wb_fire(), then end_tstate() or the hooks of a
\* cut, then the WZ bytes a cut keeps.
Writes == Call(Fired \cup Hooked) \o Call(Landed) \o Call(Stepped)

\* POP AF's low byte is F.
PopsF == exec = "POP" /\ m_cycle = 2 /\ MCycleEnds

-----------------------------------------------------------------------------
WbInit ==
  /\ Init
  /\ wzp = {} /\ results = {} /\ q = "0" /\ made = << >>
  /\ owner = [exec |-> "NOP", disp |-> FALSE, im |-> 0, end |-> 1]
  /\ armed = FALSE

\* The flag latches take the flags owed in the T1 of the M1 (INTA) that will
\* write them, and are done in its T3 (after the automatic wait states); a
\* restart's M1 owes none, and takes none over what a cut left there.
Taken ==
  LET writes == t_state = IF bus_op = "M1" THEN 3 ELSE 4
  IN IF bus_op \notin {"M1", "INTA"} \/ bus_granted \/ stalled
     THEN armed
     ELSE ~writes /\ (armed \/ (t_state = 1 /\ "F" \in results /\ wbp # {}))

\* The instruction this M1 (INTA) fetched is the one the writes are of from
\* T3 (T5) on: the last one's are made.
Changes == Ticks /\ t_state = (IF bus_op = "M1" THEN 3 ELSE 5) /\ bus_op \in {"M1", "INTA"}

InMCycle ==
  /\ NextTState \/ LatchM1 \/ LatchINTA \/ WaitState
  /\ q' = QFired
  /\ armed' = Taken
  /\ IF Changes
     THEN made' = << >> /\ owner' = [exec |-> exec, disp |-> disp, im |-> im, end |-> 0]
     ELSE made' = made \o Writes /\ owner' = owner
  /\ results' = IF Changes THEN {} ELSE results
  /\ UNCHANGED wzp

ToNextMCycle ==
  /\ NextMCycle
  /\ made' = made \o Writes
  /\ wzp' = OfMCycle(Later(exec, disp, im), m_cycle + 1)
  /\ q' \in {q} \cup (IF PopsF /\ q = "F" THEN {"stale"} ELSE {})
  /\ UNCHANGED <<results, owner, armed>>

\* A prefix leaves Q = 0: its own M1 wrote the flags of the instruction before.
AfterPrefix ==
  /\ NextPrefix
  /\ made' = made \o Writes
  /\ q' = "0"
  /\ owner' = IF exec' = "DDCB" THEN [owner EXCEPT !.exec = "DDCB"]
              ELSE [owner EXCEPT !.end = m_cycle]
  /\ UNCHANGED <<wzp, results, armed>>

\* mutant: EX AF,AF' leaves Q
QLeftByExchange(d) == IF d = {} THEN "0" ELSE q

\* wb_defer(): a class that leaves no flags commits Q = 0.
QLeft(d) == IF d \cap {"ALU", "F1", "F16"} = {} THEN "0" ELSE q

AtInstructionEnd ==
  /\ AcceptNMI \/ AcceptINT \/ HaltNOP \/ NextInstruction
  /\ made' = made \o Writes
  /\ wzp' = {}
  /\ results' \in IF "F16" \in Deferred(exec, m_cycle) THEN {{"F"}} ELSE Results(exec, m_cycle)
  /\ q' = QLeft(Deferred(exec, m_cycle))
  /\ owner' = [owner EXCEPT !.end = m_cycle]
  /\ UNCHANGED armed

\* mutants: no flags pending in T3; nor in an INTA's automatic wait states
KeepQInT2 ==
  /\ ~bus_granted /\ bus_op \in {"M1", "INTA"}
  /\ t_state = 2 \/ (t_state = 1 /\ wbp = {})

KeepQNotInTw ==
  /\ ~bus_granted /\ bus_op \in {"M1", "INTA"}
  /\ t_state \in 2 .. 3 \/ (t_state = 1 /\ wbp = {})

\* keep_q: the cut's T-state is one where the die's flags are pending.
KeepQ ==
  /\ ~bus_granted /\ bus_op \in {"M1", "INTA"}
  /\ \/ t_state \in 2 .. (IF bus_op = "INTA" THEN 4 ELSE 3)
     \/ t_state = 1 /\ wbp = {}

\* The writes up to the cut stand, the others never come (enter_reset_idle).
CutShort ==
  /\ Cut
  /\ made' = made \o Writes
  /\ wzp' = {} /\ results' = {}
  /\ q' = IF KeepQ THEN QFired ELSE "0"
  /\ UNCHANGED <<owner, armed>>

Restarts ==
  /\ Restart
  /\ made' = << >>
  /\ owner' = [exec |-> "NOP", disp |-> FALSE, im |-> 0, end |-> 1]
  /\ UNCHANGED <<wzp, results, q, armed>>

WbNext ==
  \/ InMCycle \/ ToNextMCycle \/ AfterPrefix \/ AtInstructionEnd
  \/ CutShort \/ Restarts
  \/ FallingEdge /\ UNCHANGED wbvars
  \/ Granted /\ UNCHANGED wbvars
  \/ ResetHold /\ UNCHANGED wbvars

WbSpec == WbInit /\ [][WbNext]_allvars

-----------------------------------------------------------------------------
(***************************************************************************)
(* What the die writes ("Register write-back", docs/timing.md).            *)
(***************************************************************************)

\* The owner's writes: those inside it, and those it left to the next M1.
Inside ==
  LET ex == owner.exec
  IN Pointers[ex] \cup Early[ex] \cup AtEnd[ex] \cup Last(ex, owner.im)
       \cup Later(ex, owner.disp, owner.im)

LeftToM1 ==
  LET ex == owner.exec
      m  == owner.end + 1
  IN (IF "F" \in results THEN {W(m, 1, "F")} ELSE {}) \cup
     (IF "R" \in results THEN {W(m, 2, "R")} ELSE {}) \cup
     (IF ex = "EX_AF" THEN {W(m, 1, "AF")} ELSE {}) \cup
     (IF ex = "EXX" THEN {W(m, 2, "EX")} ELSE {}) \cup
     (IF ex = "EX_DE_HL" THEN {W(m, 2, "DH")} ELSE {})

\* What the instruction owes the register file, as far as it went.
Owed ==
  IF owner.end = 0 THEN Inside ELSE {w \in Inside : w.m <= owner.end} \cup LeftToM1

\* A write in T_k's low half is made before a later T-state ends, a granted
\* one and a Tw after T_k among them; M-cycles count from the owner's first.
Before(w) ==
  LET m == owner.end + m_cycle
  IN w.m < m \/ (w.m = m /\ (w.k < t_state \/ (w.k = t_state /\ in_tw)))

\* The flag latches a cut on T2 catches half loaded: not those of F1.
HalfLoaded ==
  /\ owner.end > 0 /\ t_state = 2 /\ ~in_tw
  /\ "F1" \notin Deferred(owner.exec, owner.end)

Kept == {IF w.reg = "F" /\ HalfLoaded THEN [w EXCEPT !.reg = "Fcut"] ELSE w :
           w \in {v \in Owed : Before(v)}}

Earlier(v, w) == v.m < w.m \/ (v.m = w.m /\ v.k < w.k)

\* done are the writes: each is made once, those of a register in the die's
\* order, and no call writes a register twice.
SameWrites(done, writes) ==
  /\ UNION {done[i] : i \in DOMAIN done} = writes
  /\ \A i, j \in DOMAIN done : \A v \in done[i], w \in done[j] :
       i <= j /\ v.reg = w.reg => Earlier(v, w) \/ (i = j /\ v = w)

CutNow == ~rst_idle /\ res2 /\ phi = 1

\* The one place where the code is late: EX (SP),HL's SP+1 waits in a bus
\* grant for the M-cycle after it.
LateInGrant == exec = "EX_SP_HL" /\ m_cycle = 4 /\ bus_granted

\* A RESET cut leaves every register with the writes the die had made by its
\* last T-state, each once and in the die's order, and none of those after:
\* "a write in T_k's low half is kept by a cut that ends on T_k+1 or later. A
\* Tw that WAIT adds after T2 is that later T-state for T2's writes, as a
\* granted T-state is for those of an M-cycle's last" (advance(), wb_hooks(),
\* wz_land_cut(), wb_fire(), push_sp()).
CutKeepsDieEdges == [][CutNow /\ ~LateInGrant => SameWrites(made', Kept)]_allvars

\* The same in a bus grant, "as a granted T-state is for those of an
\* M-cycle's last": EX (SP),HL's SP+1 of "the second read's T4" among them.
GrantKeepsDieEdges == [][CutNow /\ bus_granted => SameWrites(made', Kept)]_allvars

\* An instruction that is not cut makes each of its writes once, in the die's
\* order, by the T3 of the next fetch, whether WAIT or BUSREQ holds it up,
\* a response or the halt state follows or it ends early (end_mcycle(),
\* wb_defer(), wb_fire(), wz_later()).
EveryWriteOnce == [][Changes => SameWrites(made, Owed)]_allvars

\* A cut leaves Q the F it kept if the die's flag latches still held flags
\* for its next T3, which the restart then writes into F; else 0 (keep_q).
QAfterCut == [][CutNow => q' = IF armed THEN "F" ELSE "0"]_allvars

\* As an opcode is decoded, Q is F if the instruction before, or a cut before
\* the restart, left flags for this M1's T3, and 0 if not; it is not the F of
\* an earlier instruction until POP AF, whose end clears it (wb_defer()).
QFollowsFlags ==
  ~rst_idle =>
    /\ t_state = 3 /\ bus_op \in {"M1", "INTA"} => q = IF armed THEN "F" ELSE "0"
    /\ q = "stale" => exec = "POP" /\ m_cycle = 3
=============================================================================
