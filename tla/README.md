# A TLA+ model of the RZ80 CPU core

This directory models the CPU core of the repository: the C model (`cmodel/`) --
its phase engine, the micro-sequencer that feeds it, its pins, the edges on which
it writes its registers, its ALU -- and the sequencer of the RTL core (`rtl/`), in
lockstep with it. TLC checks small instances, TLAPS proves the main safety
properties for every instance. Paths below are relative to the repository's root.

- [1. The system](#1-the-system)
- [2. Modules](#2-modules)
- [3. How the model corresponds to the code](#3-how-the-model-corresponds-to-the-code)
- [4. The runs](#4-the-runs)
- [5. What is proved](#5-what-is-proved)
- [6. Findings](#6-findings)
- [7. Not modelled](#7-not-modelled)
- [8. Plan](#8-plan)

## 1. The system

The core has no threads. What makes it hard is that five input pins (WAIT, INT,
NMI, BUSREQ, RESET) may change in every half T-state, that each is looked at in
its own half T-state, and that an instruction's effects are spread over up to
six M-cycles and the first two T-states of the next opcode fetch, any of which
a wait state, a bus grant, an interrupt or a reset can get between.

| Component | State | Operations | Talks to |
|---|---|---|---|
| Bus timing, `cmodel/z80_timing.c` | none (a table) | the strobes of a bus operation in a half T-state | read by the phase engine |
| Phase engine, `z80_phase_step()`, `advance()`, `begin_next()` in `cmodel/z80_core.c` | the ring (T-state, M-cycle, bus operation), input samples, wait and grant flags, the RESET pipeline, the NMI flip-flop, IFF1, IFF2, IM, the halt state | one half T-state per call: end a T-state, an M-cycle, an instruction; sample; drive the pins | calls the sequencer, the PLA, the write-back; reads and drives the pins |
| Micro-sequencer, `z80_exec_step()` | the decoded control word, prefix | per instruction class: set up the M-cycle after this one, or finish | sets up the ring; moves data through the register file and the ALU |
| Write-back, `wb_defer()`, `wb_fire_op()`, `wb_hooks()`, `wz_later()` | pending writes, the decode they need, latched flags, WZ and SP halves | leave writes at an instruction's end; make them in T1 and T2 of the next M1; lose some at a RESET cut | register file, ALU |
| PLA, `cmodel/z80_pla.c` | none (a ROM) | opcode and prefix to control word | the phase engine's latches |
| ALU and flags, `cmodel/z80_alu.c` | none | pure functions of bytes | the sequencer |
| Register file, `cmodel/z80_regfile.c` | the registers | accessors | sequencer, write-back |
| System harness, `cmodel/z80_sim.c` | 64 KiB of memory, I/O callbacks | answer the pins after each half T-state | the phase engine, only through pins |
| Trace, `cmodel/z80_trace.c` | none | format a phase's pins | reads the pins |
| RTL, `rtl/*.v` | the same in Verilog, plus pin flip-flops on both clock edges | one T-state per clock edge: both halves' work at once | compared phase by phase with the C model |
| Fast engine, `cfast/` | the C model's state in generated steps | run whole M-cycles; hand over to the phase engine on an event | generated from the C model |
| Tests, oracles, `scripts/`, `tests/` | - | event sweeps, lockstep against netlist simulators | drive the pins |
| ASIC and FPGA flow, `asic/` | - | physical design | the RTL |

What makes each correct:

- *Bus timing and pins*: MREQ and IORQ, read and write never overlap; a write is
  one pulse however often WAIT repeats its T2; the address stands while a request
  is low; whatever a RESET cut makes of an M-cycle, the CPU does not drive data
  into a read; BUSACK covers the time in which the bus is not driven.
- *Phase engine*: an NMI edge is answered once, and only once; EI and RETN
  open the interrupts one instruction late; IFF1 is a copy of IFF2 or clear; the
  return address stands until pushed; the halt state runs NOPs and keeps PC; a
  grant comes only between M-cycles; a held RESET stops the CPU and a released one
  starts it.
- *Sequencer and PLA*: every class runs the M-cycles of its template; the
  M-cycle and T-state counters do not overrun, under (IX+d) included.
- *Write-back*: a pending write is made with the decode of the instruction it
  belongs to, though an interrupt response replaces the decode first; what a reset
  cut keeps is what had reached the registers.
- *ALU*: results and flags equal the arithmetic definition.
- *Harness*: memory holds what the last write cycle to it carried.
- *RTL, fast engine*: the same phases as the C model; a hand-over loses no event.

The hazards each property is aimed at are listed, with their lines, in
`PROJECT.json`.

## 2. Modules

    Z80Bus            the bus operations: lengths, strobe windows, sampling points
      Z80Sequencer    the M-cycle templates of the instruction classes; the decode pages
        Z80Core       the phase engine: variables, Init, one action per kind of edge, properties
          Z80Pins     the output pins as functions of the state; properties of the pins
          Z80WriteBack   the phase engine with its register writes, and what the die writes
          Z80Contract    Z80Core implements Z80Interrupts and Z80Arbiter
        Z80Rtl        the RTL core's registers and pin images, one step per clock edge
          Z80Lockstep    Z80Core with Z80Pins and Z80Rtl side by side
    Z80Interrupts     what the interrupts promise: an abstract specification
    Z80Arbiter        what BUSREQ and BUSACK promise: an abstract specification
    Z80Alu            z80_alu() and the 16-bit adds as functions of bytes
      Z80Flags        short programs over A, an operand, F and Q

    MCZ80Core, MCZ80Lockstep, MCZ80WriteBack, MCZ80Flags    what the runs instantiate

    Z80Sequencer_proofs    lemmas about templates and pages
      Z80Core_proofs       types, IFFs, the NMI flip-flop, grants
        Z80Response_proofs halt state, EI shadow, pending writes, interrupt responses
          Z80Contract_proofs the two refinements
          Z80Pins_proofs     strobes, write pulses, the address, BUSACK, the HALT pin
            Z80Lockstep_proofs   the two cores stay in step and drive the same pins
          Z80WriteBack_proofs    the register writes: each once and in order, cut or not; Q
    Z80Alu_proofs          the nibble adders, DAA, INC and DEC, SCF's and CCF's leak,
                           16-bit adds, block instructions

Indentation is EXTENDS, but for `Z80Contract` and `Z80Lockstep`, which INSTANCE the
abstract specifications and `Z80Rtl`. A few definitions are preceded by
`mutant:` variants: the same definition with a plausible bug, kept to show that a
property notices it (`PROJECT.json`, "mutants"). No action uses them.

## 3. How the model corresponds to the code

A step is one call of `z80_phase_step()`, half a T-state. `phi` is the phase:
`FallingEdge` goes from T.P to T.N; every other action is a rising edge, that is
one pass through `advance()` and what it calls:

| Action | Code (`cmodel/z80_core.c`) |
|---|---|
| `FallingEdge` | `z80_phase_step()` with phi 0: NMI pin, WAIT sample |
| `Granted` | `advance()` while the DMA master has the bus |
| `WaitState` | `advance()` with the T-state stalled: a Tw |
| `NextTState` | `end_tstate()` inside an M-cycle |
| `LatchM1`, `LatchINTA` | the same, with `latch_m1()` or `latch_inta()` at the new T-state |
| `NextMCycle` | `end_mcycle()` and `z80_exec_step()`, which sets up another M-cycle |
| `NextPrefix` | `EXEC_PREFIX` |
| `AcceptNMI`, `AcceptINT`, `HaltNOP`, `NextInstruction` | the four exits of `begin_next()` |
| `Cut`, `ResetHold`, `Restart` | the RESET branches of `advance()`, `enter_reset_idle()` |

Every action also does what every phase does: takes the NMI edge (`NmiPin`),
samples NMI and INT when an M-cycle's last T-state begins (`Sample`) and drives
the address (`DriveAddress`). Variables have the names of the C fields.

*Environment.* A pin in `Pins` may have any level whenever the code reads it;
the others stay high. Memory and an IM 0 device hold any sequence of opcodes of the
classes `Ops`; a jump, return or vector leads anywhere.

*What is abstracted.* Bytes, registers and flags are left out: a conditional
instruction may go either way, so the model has every control path of the code and
those a particular flag value would exclude. An opcode is its execution class
(`z80_exec_t`), split only where classes take different templates. An address
is a token: `<<"PC", n>>`, `<<"REG", k>>` for a register address in the k-th M-cycle,
`<<"IR", 0>>` for refresh. Two register addresses of different M-cycles count as
different, which is the strict side for `AddressStable`. The output pins are
operators of the state (`Low(s)`, `DataDriven`, `BusackLow`, `HaltLow`), as the
code computes them anew in each phase.

*How faithful it is.* While it was written `Z80Core` was compared with the C code:
runs of `z80_phase_step()` with random levels on all five pins and random
opcodes, thousands of phases for each of a dozen seeds, were mapped to the
model's variables and pins, and each phase was a step the model allows.

*Undefined behaviour.* None of the code modelled depends on it.

**Register writes** (`Z80WriteBack`). The steps are `Z80Core`'s; each also makes the
register writes the code makes on that edge. A write is a register and the die's
place for it, "the low half of T-state k of M-cycle m", which the tables take from
the templates and their comments; the value is left out. The tables say by which
path the code makes a write -- `Stepped` for `z80_exec_step()`, `Hooked` for
`wb_hooks()`, `Landed` for the waiting WZ bytes, `Fired` for `wb_fire()` --
because each path has its own answer to a RESET cut. `made` is the sequence of
what the code's calls write, a set of writes for each call, in the code's order; it
is right (`SameWrites`) if every write is in it once, those of a register in the die's
order and no two of them of one call. `Owed`, `Before` and `Kept` are the other side:
what the die's edges in `docs/timing.md` ("Register write-back") leave standing
after a cut, from the place of each write alone. `owner`, `made` and `armed` are
auxiliary: which instruction the writes are of, and whether the die's flag
latches hold flags for the next T3. Of `f_cut()`, the F a cut on T2 leaves, the
model has that it is written, not its bits.

**ALU** (`Z80Alu`, `Z80Flags`). A byte is a number, F a set of flag names. The adders
are two nibble adders with a carry between, as in the code; bit operations go
bit by bit. `Z80Flags` runs short programs, one action per execution class, with
what the sequencer feeds `z80_alu()`, what it makes of the F that comes back, and
Q. The properties compare a program's result with plain arithmetic on the
registers it started from, and the actions do not read those. A round of a block
instruction is two steps, as in the code: `Ldir`, `Cpir` and `Inir` move the counter,
decide (`z80_exec_step()`) and leave in `wbp` and `wb_rep` that F is owed and whether
the round was repeated (`wb_defer()`: `Defer`); `FireBlock` is `wb_fire_op()` in
the next M1, which computes F from the registers as it finds them. Between the two
only the next M1 itself begins; every other action waits for it (`Is`). What else
could move these registers between them, a RESET cut or a response, is
`Z80WriteBack`'s. The Q that the prefix of a repeated round clears is left out:
no program reads it before the last round's F is written.

**The promises** (`Z80Interrupts`, `Z80Arbiter`). Two specifications without clock,
ring or opcodes. `Z80Contract` maps the phase engine to both: `nmi` is the NMI
flip-flop, `doing` is read off the response flags and the M-cycle ("INT" lasts to
the response's end, in IM 0 until the device's opcode is decoded), `master` is the
grant flag, `between` says that the ring stands at the T1 of an M-cycle, `work` is
everything the instruction is made of. `KeepsInterruptPromise` and
`KeepsBusPromise` are their specifications under that mapping.

**RTL** (`Z80Rtl`, `Z80Lockstep`). `rtl/z80_core.v` computes a T-state's two halves on
one clock edge, from inputs sampled on two, where the C model takes two calls.
`Z80Rtl` is its always block -- `Held` for the defaults, `Sequenced` for the ring,
`Reset` for the branch that comes last and wins -- and its pin images:
`PosImage` for the T-state an edge enters, formed from the next registers, and
`NegImage` for the low half, from the present ones; `z80_top` puts them out on its
two edges. `Z80Lockstep` steps both cores at once as the event sweep does
(`scripts/event_sweep.py --c-model`): the same pin levels wherever both look, any
level where the C model does not, the same opcodes and the same data-dependent
choices. `CoresAgree` says that the pins are the same in every half T-state
and the registers at every T-state's start.

The two share the M-cycle templates (`Cycles`) and the strobe windows (`Timed`):
`rtl/z80_execute.v`'s case and `rtl/z80_timing.v` were read beside the C tables and hold
the same ones, so a difference between those tables would not be found here.
The NMI input is taken behind `z80_top`'s pulse catcher, as the event sweep's C side
takes it. WAIT, like the other pins, may have any level in each of its samples, in the reset
idle too. `CoresAgree` leaves three differences out, which section 6 tells: HALT in
the reset idle, an NMI edge as RES2 sets, and WR in the half T-state after an idle
that ended with WAIT low (`StrayWrite`). `PinsMatch` is the pins without the third.

## 4. The runs

Bounds, for all runs of the core. `Pins` is the set of pins that move, `Ops` the
classes in memory, `PCMod` the size of the address space (`pc` is modulo `PCMod`).
The state has no counters but the ring (at most 6 M-cycles of 7 T-states) and no
queue but an instruction's writes, so no other bound is needed and every run
explores its whole state space. `PCMod = 2` lets PC move, stay and wrap; runs that
are not about PC use 1. Sets of pins are split between runs by what
interacts: a response, a grant and a reset meet in `lockstep`, a wait state, a
grant and a cut in `bus_cycles` and `write_back`. The classes of `bus_cycles` hold
each kind and length of bus cycle; those left out differ from one of them in the
registers they write or in how many bus cycles follow each other, and
`write_back` cuts them all.

| Run | Module | Pins | Ops | PCMod | About |
|---|---|---|---|---|---|
| `interrupts` | `Z80Core`, `Z80Contract` | INT NMI | all | 2 | acceptance, return address, NMI latch, pending writes in every class; the interrupts' promise |
| `bus_cycles` | `Z80Lockstep`, `Z80Contract` | WAIT BUSREQ RESET | 28 classes | 2 | strobes, write pulses, address, BUSACK in each kind of bus cycle, on both cores; the arbiter's promise |
| `lockstep` | `Z80Lockstep` | INT NMI BUSREQ RESET | EI HALT ED IM RETN | 1 | both cores through HALT, EI's delay, RETN and the responses in each mode |
| `answers` | `Z80Core` | NMI INT BUSREQ WAIT | 14 classes | 1 | a pending NMI is answered, a held BUSREQ granted, a released one ends the grant |
| `reset_live` | `Z80Core` | RESET BUSREQ WAIT INT | 11 classes | 1 | RESET stops the CPU, its release starts it |
| `write_back` | `Z80WriteBack` | WAIT BUSREQ RESET | all but EI DI IM, which write no register | 1 | what a cut keeps, that nothing is lost or made twice, and Q |
| `responses` | `Z80WriteBack` | INT NMI RESET | 10 classes | 1 | the same with a response or the halt state in the place of the next fetch |
| `flags` | `Z80Flags` | - | - | - | ALU, DAA, 16-bit adds, Q, block instructions |
| `halt_in_reset` | `Z80Pins` | WAIT RESET | 3 classes | 1 | finding 1 |
| `special_reset` | `Z80Core` | RESET | 3 classes | 2 | finding 2 |
| `grant_cut` | `Z80WriteBack` | BUSREQ RESET | EX (SP),HL | 1 | finding 3 |
| `restart_write` | `Z80Lockstep` | WAIT RESET | 2 classes | 1 | finding 4 |

`flags` runs each instruction on 13 by 13 bytes (the edges of the nibble, the sign,
the decimals, and X and Y in every way) with four settings of F; every pair of
two-digit decimal numbers through each add or subtract and DAA; 16-bit adds on
words at the edges of bytes, of bit 11 and of the sign; sequences that undo
themselves; what can stand before SCF and CCF; block instructions with counters
1, 2 and 17, alone and with SCF behind them, whose M1 is then the one that writes F. What the edges could miss of adds, DAA, INC and DEC the proofs cover.

What the properties say is in the comments above them. The ones to start with:

- `PendingHasItsDecode`, `LdAIrSeesIff2`: the writes an instruction leaves to the
  next fetch, against the interrupt response that replaces the decode.
- `ReturnAddressKept`: PC stands from acceptance to the vector, through the
  response's discarded fetch, waits and grants.
- `NmiNotLost`, `SampledNmiIsPending`, `NmiDeafInReset`: the NMI flip-flop.
- `EiShadow`, `Iff1ImpliesIff2`: the enables.
- `KeepsInterruptPromise`, `KeepsBusPromise`: the abstract specifications.
- `HaltedRunsNops`, `HaltHoldsPC`, `HaltChangesAtBoundary`: the halt state.
- `StrobesExclude`, `WriteIsOnePulse`, `AddressStable`, `BusackCoversDMA`,
  `GrantBetweenMCycles`: the bus under WAIT, BUSREQ and RESET cuts.
- `CutKeepsDieEdges`, `EveryWriteOnce`, `QAfterCut`, `QFollowsFlags`: the register
  writes, cut or not.
- `CoresAgree`: the two implementations.
- `ArithRight`, `BcdRight`, `WordIsTwoBytes`, `RoundTrips`, `QLeak`, `BlockAgrees`:
  what programs can rely on of the ALU.

*Fairness.* The liveness runs assume `WF_vars(Next)` and no more: the clock does
not stop. What the environment may do for ever (hold WAIT, keep the bus, feed
prefixes) is stated in each property as a premise, not as fairness:

- `BusreqAnswered` has WAIT held for ever as its only way out. Prefixes
  without end do not keep the DMA master out, since every M-cycle's end arbitrates.
- `NmiAnswered` needs wait states and grants to end and an instruction that is not
  a prefix now and then: the CPU answers an NMI only where an instruction ends.
- `ResetStops` and `ResetReleases` need nothing: a reset breaks into a held WAIT or
  a grant, and RES2 holds for the special reset in one T-state only.

Deadlock is checked in every run: the clock can always tick.

## 5. What is proved

For every `Pins`, `Ops` and `PCMod` that meet `PinsAssumption`, `OpsAssumption`
and `PCModAssumption` (known pins; classes an opcode can decode to; a nonempty
address space), and for every `Starts`, `Operands` and `PcHighs` of bytes and words
(`StartsAssumption`, `BytesAssumption`), TLAPS checks:

| Theorem | Property |
|---|---|
| `TypeSafe` | `TypeOK` |
| `IffSafe` | `Iff1ImpliesIff2` |
| `SampleSafe`, `NmiKeptUntilAnswered`, `DeafInReset` | `SampledNmiIsPending`, `NmiNotLost`, `NmiDeafInReset` |
| `GrantSafe` | `GrantBetweenMCycles` |
| `HaltRunsNops`, `HaltKeepsPC` | `HaltedRunsNops`, `HaltHoldsPC` |
| `EiShadowHolds` | `EiShadow` |
| `PendingSafe`, `LdAIrSafe` | `PendingHasItsDecode`, `LdAIrSeesIff2` |
| `ReturnAddressSafe` | `ReturnAddressKept` |
| `StrobesSafe`, `BusackSafe` | `StrobesExclude`, `BusackCoversDMA` |
| `WriteSafe`, `AddressSafe`, `HaltPinSafe` | `WriteIsOnePulse`, `AddressStable`, `HaltChangesAtBoundary` |
| `WriteBackKeepsCore` | the register writes are made in steps of the phase engine |
| `QSafe`, `QCutSafe` | `QFollowsFlags`, `QAfterCut` |
| `WritesOnce`, `CutSafe` | `EveryWriteOnce`, `CutKeepsDieEdges` |
| `CoresSafe` | `CoresAgree` |
| `RtlPinsSafe` | what `StrobesExclude`, `WriteIsOnePulse`, `AddressStable` and `BusackCoversDMA` say, of the RTL's pins, WR in `StrayWrite` excepted |
| `BusPromiseKept`, `InterruptPromiseKept` | `KeepsBusPromise`, `KeepsInterruptPromise` |
| `Add8IsSum`, `Sub8IsDifference` | the two nibble adders are the sum and the difference, C, H and P/V among them |
| `ArithAlways`, `IncDecAlways`, `BcdAlways`, `QLeakAlways` | `ArithRight`, `IncDecRight`, `BcdRight`, `QLeak` |
| `WordAlways`, `BlocksAlways`, `TypeAlways` | `WordIsTwoBytes`, `BlockAgrees`, `TypeOK` of `Z80Flags` |
| `RoundTripsAlways` | `RoundTrips` |

The arguments, and why the invariants are stronger than the properties:

- *Types* (`TypeInv`). The M-cycle counter stays within 6 because templates have
  at most five M-cycles (`TemplateShort`), because (IX+d), which adds two, goes
  only with the six classes it was decoded with (`disp => exec \in DispClasses`),
  and because a prefix is decoded in M-cycle 1 and fetches another M-cycle 1. None
  of these follows from the types alone.
- *NMI* (`NmiInv`). "Sampled implies pending" could be broken by a step in a
  response, which holds the flip-flop clear; so the flip-flop is clear in a
  response is part of the invariant. `NmiNotLost` is then the definition of the
  flip-flop under that invariant.
- *Grants and enables* are inductive as they stand.
- *Halt state* (`HaltInv`). A fetch that decoded its byte would leave the halt
  state's NOP; `suppress_decode` stands in T1 and T2 of each.
- *Pending writes* (`PendingInv`). They must be gone before the next decode
  (T3) and before a boundary changes IFF2. A wait state cannot hold them, because WAIT
  is looked at in T2, where the last of them land as the T-state ends.
- *Responses* (`ResponseInv`). The response's M1 discards its opcode; the
  special reset, which would set PC to 0000, is latched only by ordinary fetches;
  the templates of NMI and INT read nothing at PC; and a response is not itself
  interrupted, since IFF1 is clear and the flip-flop held.

- *The arbiter's promise*. A step from the CPU to the DMA master must have been asked
  for and end between M-cycles, which is `GrantBetweenMCycles` in the next state
  with `Arbitrate`; a granted step leaves the work alone (`GrantedSteps`).
- *The interrupts' promise* (`PromiseInv`: types, NMI, halt state and responses, and
  that INT is not answered within a response). Each action of the engine is one
  lemma: the half steps, latches and M-cycle ends are stutters or an NMI's edge
  (`QuietStep`, `LatchSteps`, `CycleSteps`), the four exits of `begin_next()` are the
  promise's steps of the same names. The hard one is `InstructionStep`: an ordinary
  boundary is the program's step, the end of a response, or, in IM 0, neither.
- *The pins*. What is low depends on the bus operation, the T-state, a wait state, a
  cut and the MREQ+RD kept through one (`rd_hold`), so `RequestShape` says of each
  low request that one of four things holds: a fetch's RD, a cut's in T1, the MREQ of
  an internal opcode latch, or the window `z80_timing()` gives it, undisturbed.
  `StrobeInv` keeps `rd_hold` to fetches and wait states to the T-states that sample
  WAIT. `WriteIsOnePulse` also needs that no cycle ends before its strobes have
  (`LenInv`), `AddressStable` that the driven address is the cycle's own (`AddrInv`).
  `HaltChangesAtBoundary` rests on the halt state's, the responses' and the pending
  writes' invariants and on `FetchInv`: HALT is decoded only in a fetch or an
  acknowledge of its plain length, whose T4 or T6 is where the instruction ends.
- *Register writes*. Every action of the write-back is one of the phase engine
  (`WriteBackKeepsCore`), so the core's invariants carry over. `QInv` ties Q to
  `armed` through three stages: what an instruction owes the next fetch (`OwedInv`),
  what the flag latches hold until T3 (`Latched`), and what a cut keeps of both.
- *Each write once* (`OwnerInv`, `ShapeInv`, `MadeInv`). `EveryWriteOnce` speaks of the
  moment an instruction gives way to the next, so the invariant has to follow `made`
  through every T-state: `MadeInv` says that `made` holds the owner's writes whose
  T-state has passed, and no other. `OwnerInv` says whose they are, the instruction's
  under way or the one's before, and that what is pending is what that one left
  (`Deferred`). `ShapeInv` says that an M-cycle has the bus cycle and the length of its
  row in the micro-program, without which the place of a write in the table says
  nothing about when it comes. What the proof needs of the rows of the tables is
  one lemma, `Rows`: which path makes a write, that no wait state follows its T-state
  but where the path looks for one, and that no register is written twice at one
  place. `WritesAdd` then reduces each action to which writes its calls add.
- *The cut* (`CutSafe`) uses the same three invariants in the step that `CutShort` takes:
  a T-state's writes are those of its paths that a cut lets through (`CutEarly`,
  `CutPointer`, `CutAtEnd`, `CutLast` and `CutLater`, one for each kind of write, and
  `CutFired` in the M1 after an instruction), and with those made before they are
  exactly the ones whose place is before the T-state the cut ends on (`CutKept`). `LateInGrant` is a
  premise because the code is late there; `grant_cut` shows it (section 6).
- *The two cores* (`LockInv`, `ShapeInv`). `CoresAgree` compares registers only as a
  T-state starts, so it is not inductive. `LockInv` says how the RTL's stand to the C
  model's in both halves: the ring is one but in the reset idle (`SameRing`); the RTL
  keeps a prefix past its instruction until the writes left to the next fetch land
  (`SamePrefix`); its `exec` is a decode of `ir` that an interrupt sequence overrides,
  the C model's a register, and they are one from the opcode's latch on
  (`SameExec`); an NMI edge of the high half is taken half a T-state later, and what
  the C model sampled for the boundary is then the RTL's flip-flop (`SameNmi`); and the
  address either holds through a grant, an idle or a refresh is the one the RTL
  remembers (`SameAddr`). `ShapeInv` is what the phase engine keeps that this needs:
  a stall belongs to a T-state that samples WAIT, an M-cycle 1 is a fetch or an
  acknowledge, an IM 0 byte is not a fetch, a discarded opcode is still ahead of its
  latch. Both were checked with TLC as invariants of `LockSpec`. Each action of
  the phase engine is one lemma (`LatchM1Lock`, `NextPrefixLock`, `AcceptNMILock` and so
  on): from `LockInv` and the inputs both read, the one arm of the RTL's always block
  that fits leaves `LockInv`. The pins then follow from the registers, half by half
  (`FallingPins`, `RisingPins`), each strobe from what a RESET cut leaves of its window
  (`InCutN`, `InCutP`). WAIT is free: where it is low as the idle ends, the RTL's
  `in_tw` outlives the restart for half a T-state, and nothing but WR reads it there
  (`StrayIs`). `StrayStep` says that this comes straight after the idle and ends with
  that half T-state. `RtlPinsSafe` follows from the C model's four theorems through
  `PinsAgree`; both its parts make an exception of WR there, and of no other pin or time.
- *The ALU*. A carry between two nibbles is the carry of the byte, and P/V the
  carries into and out of bit 7 apart (`CarryChain`, `TwoNibbles`). DAA's
  correction is worked out for each of the decimal cases of the add or subtract
  before it. A 16-bit sum is shown to be the two byte sums chained by the low one's
  carry, with C, H and P/V those of the high byte (`AddChain`, `SubChain`, `TopIsHigh`).
  A program's properties follow from `Solo` and `BcdInv`, which
  tie the registers to those it started from at each place of a one- or
  two-instruction program. `BlockAgrees` is about the step that writes F, an M1 after
  the decision, so it is not inductive: `Decided` says that while F is owed the
  decision still shows, in `wb_rep`, in PC, and in the counter and the byte that F
  will be computed from; `Owes` that the F owed is of the instruction that ran last,
  which the programs of the other theorems have none of. It also needs the types
  (`TypeAlways`): CPIR's Z is that of a difference modulo 256, which says "found" only
  of two bytes.
- *Sequences that undo themselves* (`TripInv`). A pair is one lemma: each operation is
  injective in the byte and the carry it moves, and its opposite takes both back
  (`BitsBack`, `PairBack`). For eight and nine rotates bits would have to be followed
  through every place, so the proof counts instead: a rotate left doubles its ring of
  eight bits modulo 255, or of nine bits (the carry on top) modulo 511, one to the
  right halves it (`Doubles`, `TurnedOnce`), and `TripInv` says that after n rotates the
  ring is 2^n times what it was. 2^8 is 1 modulo 255 and 2^9 modulo 511
  (`TurnedRound`); the two ends of the ring, 0 and all ones, which are one residue,
  are told apart because a rotate keeps each.

The strengthened invariants were checked with TLC before they were proved.

Only model-checked: liveness (`ResetStops`, `ResetReleases`, `NmiAnswered`,
`BusreqAnswered`), which is beyond the prover (fairness, ENABLED). Every safety
property of a passing run is proved.

## 6. Findings

1. **HALT falls in the reset idle** (`halt_in_reset`). If a RESET cut ends the T3 of
   HALT's own M1, the idle keeps that M1's ring at T4 with HALT decoded.
   `exec_halt_in_m1` (`cmodel/z80_core.c:2033`) looks at both without regard for
   `rst_idle`, so in the low half of the two idle T-states after the release,
   RES2 and the special-reset latch clear again, HALT is driven low for half a
   T-state each. The comment six lines on says HALT "rises on the falling edge where
   RES2 or the special-reset latch sets, and stays high".
2. **A special reset in a prefix's fetch is lost** (`special_reset`). `sres` is
   overwritten in the T2 of every M1 (`cmodel/z80_core.c:1719`) and read only at an
   instruction's end, so a pulse in the T2 of a prefix's M1 is overwritten by the M1 of
   the opcode behind it. `docs/timing.md:318` says that such a pulse "lets the
   instruction finish; the next opcode fetch then runs as a NOP that leaves PC at
   0000", of an opcode fetch in general.

3. **A bus grant loses SP+1 of EX (SP),HL** (`grant_cut`). The die steps SP in the
   second read's T4; the code does it in the T1 of the M-cycle after
   (`wb_hooks()`, `cmodel/z80_core.c:314`). A grant between the two holds it up,
   and a RESET in the grant leaves SP as it was, where `docs/timing.md:341-343`
   has "a granted T-state" keep the writes of an M-cycle's last.
4. **The RTL may pull WR low in the restart's fetch** (`restart_write`). `stall`
   (`rtl/z80_core.v:400`) compares WAIT with the sample point of the ring's
   registers and does not look at `rst_idle`. A RESET that cuts a memory write
   in T1 leaves the ring at T2 of that write; WAIT low at the falling edge of the
   last idle T-state then sets `hold_wr` on the edge that restarts, and WR is
   low in the high half of the T1 of the fetch at 0000, with no data behind it. Where
   the restart follows the cut at once RD is low too, kept from the cut in T1
   (`rd_hold`). The C model keeps WR high.
   `docs/architecture.md:243` says that the two never differ at the pins. The event
   sweep's C side lets a WAIT it holds go when RESET falls
   (`scripts/event_sweep_c.c:155,167`).

The first three were reproduced with the C model itself, the third also against the
repository's transistor-level netlist. The fourth was read off the RTL source; no
Verilog simulator was at hand.

Two smaller differences between the cores, which `CoresAgree` leaves out as it does the
WR of finding 4, and no other:

- *HALT in the reset idle.* The RTL keeps `ir` through the idle with the prefix and
  the interrupt sequence cleared, so a byte 76 that was fetched under a prefix, or
  discarded by a response, reads as HALT at T4 of the stopped fetch
  (`rtl/z80_core.v:341`); the C model decodes what it had decoded (finding 1).
- *An NMI edge as RES2 sets.* In the low half of that T-state the RTL looks at the
  new RES2 (`rtl/z80_core.v:1187`) and drops the edge; the C model looks at the old
  (`cmodel/z80_core.c:1895`) and takes it. The reset clears it in both; in the
  T-state between, the HALT pin may differ.

## 7. Not modelled

- The values in registers, memory and on the data bus, R and I, with the register file
  (`cmodel/z80_regfile.c`, accessors) and the harness (`cmodel/z80_sim.c`, an array behind
  the pins). The ALU is modelled by itself, on registers of its own. The bits of
  the F that a RESET cut on T2 leaves (`f_cut()`, `pf_cut`) come with them.
- The PLA's bit fields beyond class, prefix and displacement.
- The RTL's data path: register file, address unit, write-back, control words; its
  combinational modules are the C functions in Verilog.
- The fast engine (`cfast/`): its steps are the C model's text with the bus operation
  and T-state made constants by `gen_fast.py`; a model would be the phase
  engine again, and what can be wrong is the generator.
- Trace, tests, scripts: formatting and test drivers. `scripts/refs/` and
  `scripts/refs/perfectz80/` hold vendored emulators and a netlist, which are most of
  the repository's lines and none of its logic. ASIC and FPGA flow: physical design.

## 8. Plan

Done:

1. `Z80Bus`, `Z80Sequencer`, `Z80Core`: the phase engine with every input pin.
2. `Z80Pins`: the output pins.
3. Runs for interrupts, bus cycles, liveness.
4. Proofs of the engine's safety properties.
5. `Z80Interrupts` and `Z80Arbiter`, implemented by `Z80Core`, checked and proved.
6. `Z80WriteBack`: register writes and what a cut keeps of them.
7. `Z80Alu` and `Z80Flags`, checked and proved.
8. `Z80Rtl` and `Z80Lockstep`: the RTL's sequencer against the C model, checked and
   proved.
9. The pins' properties proved from `Z80Bus`'s windows, those of the RTL's pins, Q's, and
   those of the register writes: each made once, and what a cut keeps.

Left, should the project go on:

10. Values: the registers, the data bus and a memory behind the pins, to state what a
    completed write leaves and what `f_cut()` makes of F.
11. The RTL's write-back (`fire`, `pex_*`, `wzp_*`) against `Z80WriteBack`.
