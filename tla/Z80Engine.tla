------------------------------ MODULE Z80Engine ------------------------------
(***************************************************************************)
(* The engine of the Z80 core (z80core.c, function advance): what one      *)
(* clock edge does to the cursor, the control pins and the interrupt       *)
(* state, with the host's inputs sampled on that edge.                     *)
(*                                                                         *)
(* Between two edges the host may set any of its input pins, and it may    *)
(* stop the clock.  One step of this module is one call of z80_tick, with  *)
(* the pins the host has put up for it.  Registers, addresses and data     *)
(* are left out: a condition answers either way (EndsHere) and a memory    *)
(* read returns any byte of Bytes.                                         *)
(***************************************************************************)
EXTENDS Z80Instructions, FiniteSets

CONSTANTS
  Bytes,         \* the bytes memory can return to a fetch or a read
  InputPins,     \* the input pins this host drives, of the five
  ResetEdges,    \* edges RESET has to be held for: 6, three T-states
  HeldMax,       \* where the counter of those edges saturates: 255
  MemoryStable   \* TRUE: nobody changes the HALT a halted core re-reads

ASSUME BytesAssumption  == Bytes \subseteq Byte
ASSUME PinsAssumption   == InputPins \subseteq {"WAIT", "INT", "NMI", "RESET", "BUSRQ"}
ASSUME ResetAssumption  == /\ ResetEdges \in Nat \ {0}
                           /\ HeldMax \in Nat
                           /\ ResetEdges <= HeldMax
ASSUME StableAssumption == MemoryStable \in BOOLEAN

VARIABLES
  clk,                  \* the level the core last advanced to
  seq, step,            \* the machine cycle being executed; cursor into it
  instr,                \* the instruction in progress; NoInstr while fetching
  cycle, cycle_limit,   \* which of its cycles; how many it will run
  opcode,               \* what the last fetch latched
  prefix, index,        \* CB or ED in force, or 0; DD or FD in force, or 0
  im, iff1, iff2,       \* interrupt mode and the two enable flip-flops
  halted,
  pv,                   \* the P/V flag as LD A,I or LD A,R last left it
  nmi_previous,         \* the level NMI was at last edge
  nmi_latched,          \* an NMI edge is pending acceptance
  int_inhibit,          \* EI ran last: do not accept at this boundary
  reset_held,           \* edges RESET has been asserted for
  bus_request_latched,  \* BUSRQ seen at this cycle's sampling edge
  bus_released,         \* the host has the buses
  outputs,              \* the output control pins that are asserted
  inputs                \* the input pins the host presented to the last call

cursor  == <<seq, step, instr, cycle, cycle_limit>>
code    == <<opcode, prefix, index>>
irq     == <<im, iff1, iff2, int_inhibit>>
bus     == <<bus_request_latched, bus_released>>
vars    == <<clk, cursor, code, irq, halted, pv, nmi_previous, nmi_latched,
             reset_held, bus, outputs, inputs>>

NoInstr == "none"
HALT_OPCODE == 118

(* The cursor moves to step 0 of cycle s of instruction n, its c-th of l.   *)
MoveTo(s, n, c, l) ==
  seq' = s /\ step' = 0 /\ instr' = n /\ cycle' = c /\ cycle_limit' = l

(* The interrupt state of a core that has been reset. *)
InterruptsOff ==
  im' = 0 /\ iff1' = FALSE /\ iff2' = FALSE /\ int_inhibit' = FALSE

-----------------------------------------------------------------------------
(* z80_new / z80_reset, with the pin structure the hosts clear beside it.   *)
Init ==
  /\ clk = 0
  /\ seq = "m1_fetch" /\ step = 0
  /\ instr = NoInstr /\ cycle = 0 /\ cycle_limit = 0
  /\ opcode = 0 /\ prefix = 0 /\ index = 0
  /\ im = 0 /\ iff1 = FALSE /\ iff2 = FALSE /\ int_inhibit = FALSE
  /\ halted = FALSE
  /\ pv = TRUE                                    \* AF is left at FFFF
  /\ nmi_previous = FALSE /\ nmi_latched = FALSE
  /\ reset_held = 0
  /\ bus_request_latched = FALSE /\ bus_released = FALSE
  /\ outputs = {} /\ inputs = {}

(* The host resets the machine between two calls. *)
HostReset ==
  /\ clk' = 0
  /\ MoveTo("m1_fetch", NoInstr, 0, 0)
  /\ opcode' = 0 /\ prefix' = 0 /\ index' = 0
  /\ InterruptsOff
  /\ halted' = FALSE
  /\ pv' = TRUE
  /\ nmi_previous' = FALSE /\ nmi_latched' = FALSE
  /\ reset_held' = 0
  /\ bus_request_latched' = FALSE /\ bus_released' = FALSE
  /\ outputs' = {} /\ inputs' = {}

(* z80_tick with a level the clock already has: nothing moves. *)
Gated(i) ==
  /\ inputs' = i
  /\ UNCHANGED <<clk, cursor, code, irq, halted, pv, nmi_previous, nmi_latched,
                 reset_held, bus, outputs>>

-----------------------------------------------------------------------------
(***************************************************************************)
(* What every edge begins with: the clock level, and the NMI latch, which  *)
(* remembers a transition rather than a level.                             *)
(***************************************************************************)
(* Mutant: NMI is taken as a level. *)
NmiPendingLevel(i) == nmi_latched \/ "NMI" \in i

NmiPending(i) == nmi_latched \/ (~nmi_previous /\ "NMI" \in i)

Edge(i) ==
  /\ clk' = 1 - clk
  /\ inputs' = i
  /\ nmi_previous' = ("NMI" \in i)

(* Mutant: the counter wraps instead of saturating. *)
HeldWraps == (reset_held + 1) % 256

Held == IF reset_held < HeldMax THEN reset_held + 1 ELSE reset_held

(* Mutant: an NMI that rises while RESET is asserted goes unnoticed. *)
ResetPendingDeaf(i) ==
  /\ "RESET" \in i
  /\ Held < ResetEdges
  /\ Edge(i)
  /\ reset_held' = Held
  /\ UNCHANGED <<nmi_latched, cursor, code, irq, halted, pv, bus, outputs>>

(* Mutant: the outputs are let go as soon as RESET is asserted. *)
ResetPendingAtOnce(i) ==
  /\ "RESET" \in i
  /\ Held < ResetEdges
  /\ Edge(i)
  /\ reset_held' = Held
  /\ nmi_latched' = NmiPending(i)
  /\ outputs' = {}
  /\ UNCHANGED <<cursor, code, irq, halted, pv, bus>>

(* RESET is asserted, but not yet for three T-states: the core stands still. *)
ResetPending(i) ==
  /\ "RESET" \in i
  /\ Held < ResetEdges
  /\ Edge(i)
  /\ reset_held' = Held
  /\ nmi_latched' = NmiPending(i)
  /\ UNCHANGED <<cursor, code, irq, halted, pv, bus, outputs>>

(* Mutant: the reset releases the strobes but leaves HALT asserted. *)
ResetTakenHaltPin(i) ==
  /\ "RESET" \in i
  /\ Held >= ResetEdges
  /\ Edge(i)
  /\ reset_held' = Held
  /\ nmi_latched' = FALSE
  /\ MoveTo("m1_fetch", NoInstr, 0, 0)
  /\ prefix' = 0 /\ index' = 0
  /\ InterruptsOff
  /\ halted' = FALSE
  /\ outputs' = outputs \ Strobes
  /\ UNCHANGED <<opcode, pv, bus>>

(* apply_reset, on every edge from the third T-state on. *)
ResetTaken(i) ==
  /\ "RESET" \in i
  /\ Held >= ResetEdges
  /\ Edge(i)
  /\ reset_held' = Held
  /\ nmi_latched' = FALSE
  /\ MoveTo("m1_fetch", NoInstr, 0, 0)
  /\ prefix' = 0 /\ index' = 0
  /\ InterruptsOff
  /\ halted' = FALSE
  /\ outputs' = {}
  /\ UNCHANGED <<opcode, pv, bus>>

(* No RESET on this edge: the counter of its edges starts over. *)
Runs(i) ==
  /\ "RESET" \notin i
  /\ Edge(i)
  /\ reset_held' = 0

(* Mutant: BUSAK is not withdrawn with BUSRQ. *)
BusHeldBusak(i) ==
  /\ bus_released
  /\ Runs(i)
  /\ nmi_latched' = NmiPending(i)
  /\ bus_released' = ("BUSRQ" \in i)
  /\ UNCHANGED <<cursor, code, irq, halted, pv, bus_request_latched, outputs>>

(* The host has the bus: the core does nothing until BUSRQ is withdrawn. *)
BusHeld(i) ==
  /\ bus_released
  /\ Runs(i)
  /\ nmi_latched' = NmiPending(i)
  /\ bus_released' = ("BUSRQ" \in i)
  /\ outputs' = IF "BUSRQ" \in i THEN outputs ELSE outputs \ {"BUSAK"}
  /\ UNCHANGED <<cursor, code, irq, halted, pv, bus_request_latched>>

-----------------------------------------------------------------------------
(***************************************************************************)
(* The step at the cursor runs.                                            *)
(***************************************************************************)
Executes(i) == ~bus_released /\ Runs(i)

Driven == Drive(seq, step, outputs)

(* The byte the step latches: an opcode on the rising edge of T3. While     *)
(* halted the core reads the HALT again, if memory still holds it.         *)
FetchedBytes == IF halted /\ MemoryStable THEN {HALT_OPCODE} ELSE Bytes

Stretched(i) == step = WaitStep[seq] /\ "WAIT" \in i

(* Mutant: one edge too many is repeated. *)
StretchLong(i) ==
  /\ Executes(i)
  /\ Stretched(i)
  /\ step' = step - 2
  /\ nmi_latched' = NmiPending(i)
  /\ outputs' = Driven
  /\ UNCHANGED <<seq, instr, cycle, cycle_limit, code, irq, halted, pv, bus>>

(* WAIT at the sampling edge: back to repeat the T-state, pins as they are. *)
StretchCycle(i) ==
  /\ Executes(i)
  /\ Stretched(i)
  /\ step' = step - 1
  /\ nmi_latched' = NmiPending(i)
  /\ outputs' = Driven
  /\ UNCHANGED <<seq, instr, cycle, cycle_limit, code, irq, halted, pv, bus>>

(* Mutant: BUSRQ is looked for on the last step, where the cycle ends. *)
WithinCycleLate(i) ==
  /\ Executes(i)
  /\ ~Stretched(i)
  /\ step + 1 < Count[seq]
  /\ step' = step + 1
  /\ nmi_latched' = NmiPending(i)
  /\ outputs' = Driven
  /\ opcode' \in IF Steps[seq][step + 1] = "m1_t3_rise" THEN FetchedBytes
                  ELSE {opcode}
  /\ bus_request_latched' = (bus_request_latched \/
                               ("BUSRQ" \in i /\ step = Count[seq] - 1))
  /\ UNCHANGED <<seq, instr, cycle, cycle_limit, prefix, index, irq, halted, pv,
                 bus_released>>

(* Any step of a machine cycle but its last.  BUSRQ is sampled on the last  *)
(* but one, the rising edge of the last T-state.                           *)
WithinCycle(i) ==
  /\ Executes(i)
  /\ ~Stretched(i)
  /\ step + 1 < Count[seq]
  /\ step' = step + 1
  /\ nmi_latched' = NmiPending(i)
  /\ outputs' = Driven
  /\ opcode' \in IF Steps[seq][step + 1] = "m1_t3_rise" THEN FetchedBytes
                  ELSE {opcode}
  /\ bus_request_latched' = (bus_request_latched \/
                               ("BUSRQ" \in i /\ step = Count[seq] - 2))
  /\ UNCHANGED <<seq, instr, cycle, cycle_limit, prefix, index, irq, halted, pv,
                 bus_released>>

-----------------------------------------------------------------------------
(***************************************************************************)
(* The last step of a machine cycle: the exit hook, then the next cycle of *)
(* the instruction or, when it has none left, its effect.                  *)
(***************************************************************************)
LastStep(i) == Executes(i) /\ ~Stretched(i) /\ step + 1 >= Count[seq]

Fetching == seq = "m1_fetch"

(* The instruction a fetch that ends here decodes, or the one in progress.  *)
Current == IF Fetching THEN Decode(opcode, prefix, index) ELSE instr

(* A latched bus request is granted where a machine cycle ends: every       *)
(* strobe is let go, BUSAK asserted, and HALT stays as it is.              *)
Grant(pins) ==
  /\ bus_request_latched' = FALSE
  /\ bus_released' = bus_request_latched
  /\ outputs' = IF bus_request_latched THEN (pins \ Strobes) \union {"BUSAK"}
                ELSE pins

(* exit_latch_operation: DD CB d op reads its operation byte from memory.   *)
ByteAfterExit ==
  IF ~Fetching /\ instr = "index_cb" /\ cycle = 1 THEN Bytes ELSE {opcode}

Begin(n) == MoveTo(CyclesOf[n][1], n, 0, Len(CyclesOf[n]))

(* A fetch ends and the instruction it decoded has a bus cycle to run.      *)
BeginInstruction(i) ==
  /\ LastStep(i)
  /\ Fetching
  /\ CyclesOf[Current] # << >>
  /\ Begin(Current)
  /\ Grant(Driven)
  /\ nmi_latched' = NmiPending(i)
  /\ UNCHANGED <<code, irq, halted, pv>>

(* Mutant: the cycle is counted before its successor is looked up. *)
NextCycleOffByOne(i) ==
  /\ LastStep(i)
  /\ ~Fetching
  /\ cycle + 1 < cycle_limit
  /\ FALSE \in EndsHere(instr, cycle, opcode)
  /\ MoveTo(CyclesOf[instr][cycle + 1], instr, cycle + 1, cycle_limit)
  /\ opcode' \in ByteAfterExit
  /\ Grant(Driven)
  /\ nmi_latched' = NmiPending(i)
  /\ UNCHANGED <<prefix, index, irq, halted, pv>>

(* A bus cycle ends and the instruction goes on to its next one.            *)
NextCycle(i) ==
  /\ LastStep(i)
  /\ ~Fetching
  /\ cycle + 1 < cycle_limit
  /\ FALSE \in EndsHere(instr, cycle, opcode)
  /\ MoveTo(CyclesOf[instr][cycle + 2], instr, cycle + 1, cycle_limit)
  /\ opcode' \in ByteAfterExit
  /\ Grant(Driven)
  /\ nmi_latched' = NmiPending(i)
  /\ UNCHANGED <<prefix, index, irq, halted, pv>>

(* Every cycle is done: the instruction takes effect on this edge.          *)
Completes(i) ==
  /\ LastStep(i)
  /\ IF Fetching THEN CyclesOf[Current] = << >>
     ELSE cycle + 1 >= cycle_limit \/ TRUE \in EndsHere(instr, cycle, opcode)

CyclesRun == IF Fetching THEN 0 ELSE cycle + 1

BackToFetch == MoveTo("m1_fetch", NoInstr, CyclesRun, CyclesRun)

(* execute_prefix.  DD and FD replace each other, ED drops them, and after  *)
(* a prefix there is no instruction boundary.                              *)
EndPrefix(i) ==
  /\ Completes(i)
  /\ Current = "prefix"
  /\ prefix' = IF opcode \in {DD, FD} THEN 0 ELSE IF opcode = ED THEN ED ELSE CB
  /\ index' = CASE opcode \in {DD, FD} -> opcode
                [] opcode = ED         -> 0
                [] OTHER               -> index
  /\ opcode' = opcode
  /\ BackToFetch
  /\ Grant(Driven)
  /\ nmi_latched' = NmiPending(i)
  /\ UNCHANGED <<irq, halted, pv>>

-----------------------------------------------------------------------------
(***************************************************************************)
(* The instruction boundary.  First the effect of the instruction on what  *)
(* the engine keeps, then accept_interrupt: nothing right after EI, NMI    *)
(* before INT, INT only with IFF1.                                         *)
(***************************************************************************)
Iff1After == CASE Current = "di"      -> FALSE
               [] Current = "ei"      -> TRUE
               [] Current = "ed_retn" -> iff2
               [] OTHER               -> iff1
(* Mutant: EI sets IFF1 alone. *)
Iff2AfterHalfEi == IF Current = "di" THEN FALSE ELSE iff2

Iff2After == CASE Current = "di" -> FALSE
               [] Current = "ei" -> TRUE
               [] OTHER          -> iff2
(* Mutant: EI does not hold interrupts off. *)
NoInhibit == int_inhibit

InhibitAfter == int_inhibit \/ Current = "ei"
HaltedAfter  == halted \/ Current = "halt"
PinsAfter    == IF Current = "halt" THEN Driven \union {"HALT"} ELSE Driven
PinsAwake    == IF HaltedAfter THEN PinsAfter \ {"HALT"} ELSE PinsAfter

(* Mutant: the three bits of the encoding are taken for the mode. *)
ImAfterRaw == IF Current = "ed_im" THEN Y(opcode) ELSE im

(* execute_set_interrupt_mode: eight encodings, three modes.                *)
ImAfter == IF Current = "ed_im"
           THEN <<0, 0, 1, 2, 0, 0, 1, 2>>[Y(opcode) + 1] ELSE im

(* load_a_from_control_register: IFF2, unless an interrupt is about to be   *)
(* accepted at this instruction's end.                                     *)
(* Mutant: only a maskable interrupt is foreseen. *)
IntImminent(i) == ~int_inhibit /\ iff1 /\ "INT" \in i

InterruptImminent(i) == ~int_inhibit /\ (NmiPending(i) \/ (iff1 /\ "INT" \in i))
PvAfter(i) == IF Current \in {"ed_ld_a_i", "ed_ld_a_r"}
              THEN iff2 /\ ~InterruptImminent(i) ELSE pv

(* Mutant: NMI can be masked. *)
TakesNmiMasked(i) == ~InhibitAfter /\ NmiPending(i) /\ Iff1After

TakesNmi(i) == ~InhibitAfter /\ NmiPending(i)
TakesInt(i) == ~InhibitAfter /\ ~NmiPending(i) /\ Iff1After /\ "INT" \in i

(* Mutant: an index prefix outlives its instruction. *)
EndInstructionIndexed(i) ==
  /\ Completes(i)
  /\ Current # "prefix"
  /\ opcode' = opcode /\ prefix' = 0 /\ index' = index
  /\ im' = ImAfter
  /\ pv' = PvAfter(i)
  /\ int_inhibit' = FALSE

EndInstruction(i) ==
  /\ Completes(i)
  /\ Current # "prefix"
  /\ opcode' = opcode /\ prefix' = 0 /\ index' = 0
  /\ im' = ImAfter
  /\ pv' = PvAfter(i)
  /\ int_inhibit' = FALSE

(* No interrupt: the next fetch. *)
EndPlain(i) ==
  /\ EndInstruction(i)
  /\ ~TakesNmi(i)
  /\ ~TakesInt(i)
  /\ BackToFetch
  /\ iff1' = Iff1After
  /\ iff2' = Iff2After
  /\ halted' = HaltedAfter
  /\ nmi_latched' = NmiPending(i)
  /\ Grant(PinsAfter)

(* Mutant: an NMI does not wake the core. *)
AcceptNmiAsleep(i) ==
  /\ EndInstruction(i)
  /\ TakesNmi(i)
  /\ Begin("nmi")
  /\ iff1' = FALSE
  /\ iff2' = Iff1After
  /\ halted' = HaltedAfter
  /\ nmi_latched' = FALSE
  /\ Grant(PinsAfter)

(* NMI: IFF1 is kept in IFF2 for RETN to put back. *)
AcceptNmi(i) ==
  /\ EndInstruction(i)
  /\ TakesNmi(i)
  /\ Begin("nmi")
  /\ iff1' = FALSE
  /\ iff2' = Iff1After
  /\ halted' = FALSE
  /\ nmi_latched' = FALSE
  /\ Grant(PinsAwake)

AcceptInt(i) ==
  /\ EndInstruction(i)
  /\ TakesInt(i)
  /\ Begin(IF ImAfter = 2 THEN "interrupt_mode2" ELSE "interrupt")
  /\ iff1' = FALSE
  /\ iff2' = FALSE
  /\ halted' = FALSE
  /\ nmi_latched' = NmiPending(i)
  /\ Grant(PinsAwake)

-----------------------------------------------------------------------------
Advance(i) ==
  \/ ResetPending(i)
  \/ ResetTaken(i)
  \/ BusHeld(i)
  \/ StretchCycle(i)
  \/ WithinCycle(i)
  \/ BeginInstruction(i)
  \/ NextCycle(i)
  \/ EndPrefix(i)
  \/ EndPlain(i)
  \/ AcceptNmi(i)
  \/ AcceptInt(i)

Next == HostReset \/ \E i \in SUBSET InputPins : Gated(i) \/ Advance(i)

Spec == Init /\ [][Next]_vars

(* The host keeps the clock running. *)
ClockRuns == WF_vars(\E i \in SUBSET InputPins : Advance(i))

FairSpec == Spec /\ ClockRuns

-----------------------------------------------------------------------------
(***************************************************************************)
(* PROPERTIES                                                              *)
(***************************************************************************)

CursorType == /\ seq \in MachineCycles /\ step \in 0 .. Count[seq] - 1
              /\ instr \in Instrs \union {NoInstr}
              /\ cycle \in 0 .. 6 /\ cycle_limit \in 0 .. 6
CodeType   == opcode \in Byte /\ prefix \in {0, CB, ED} /\ index \in {0, DD, FD}
IrqType    == /\ im \in 0 .. 2 /\ iff1 \in BOOLEAN /\ iff2 \in BOOLEAN
              /\ int_inhibit \in BOOLEAN /\ halted \in BOOLEAN /\ pv \in BOOLEAN
              /\ nmi_previous \in BOOLEAN /\ nmi_latched \in BOOLEAN
BusType    == /\ clk \in {0, 1} /\ reset_held \in 0 .. HeldMax
              /\ bus_request_latched \in BOOLEAN /\ bus_released \in BOOLEAN
              /\ outputs \in SUBSET OutputPins /\ inputs \in SUBSET InputPins

(* Every variable has its type: the cursor names a machine cycle and one of *)
(* its steps, the bytes are bytes, the saturating counter is in range.      *)
TypeOK == CursorType /\ CodeType /\ IrqType /\ BusType

(* The cursor is always inside the instruction it says it runs: advance()   *)
(* indexes cycles[cycle] and steps[step] without a check, so a cursor that  *)
(* leaves its tables reads past them.  While fetching there is no           *)
(* instruction; otherwise the machine cycle is the one the table gives.     *)
CursorInInstruction ==
  /\ Fetching <=> instr = NoInstr
  /\ instr # NoInstr => /\ cycle < cycle_limit
                        /\ cycle_limit = Len(CyclesOf[instr])
                        /\ seq = CyclesOf[instr][cycle + 1]

(* The strobes are those of the timing tables at every edge, whatever was   *)
(* stretched, interrupted or reset before: after a WAIT the repeated        *)
(* T-state shows the levels it was sampled with (advance, "holding every    *)
(* pin as it stands").                                                      *)
Repeating == step \in {WaitStep[seq] - 1, WaitStep[seq]}
StrobesFollowCursor ==
  LET shown == outputs \intersect Strobes
  IN \/ shown = Levels(seq, step)
     \/ Repeating /\ shown = Levels(seq, WaitStep[seq] + 1)

(* The bus is let go between two machine cycles and nowhere else, with no   *)
(* strobe left asserted; and the host is never told it has the bus when it  *)
(* has not (the grant at the end of advance).                               *)
ReleasedBetweenCycles ==
  /\ bus_released => step = 0 /\ outputs \intersect Strobes = {}
  /\ "BUSAK" \in outputs => bus_released

(* While the host has the bus it is told so, on every edge (struct z80_t,   *)
(* bus_released: "the host has the buses; BUSAK is asserted").              *)
BusakWhileReleased == bus_released => "BUSAK" \in outputs

BusakStep ==
  bus_released' => \/ "BUSAK" \in outputs'
                   \/ bus_released /\ "BUSAK" \notin outputs
                   \/ reset_held' >= ResetEdges

(* The host is told of a grant on the edge that gives it the bus, and from  *)
(* then on, unless a RESET of three T-states comes between (advance, which  *)
(* looks at RESET before the hold; apply_reset clears BUSAK, not the hold). *)
BusakUntilReset == [][BusakStep]_vars

(* The HALT pin shows the halted state, across interrupts, resets and bus   *)
(* grants (execute_halt, wake_from_halt, apply_reset).                      *)
HaltPin == "HALT" \in outputs <=> halted

(* A halted core does nothing but fetch: no bus cycle of any instruction,   *)
(* and no acknowledge, runs with HALT asserted (wake_from_halt precedes the *)
(* acknowledge; the HALT is what a halted core keeps fetching).             *)
HaltedOnlyFetches == halted => Fetching

(* IFF1 is never set without IFF2, through any nesting of NMI, INT, EI, DI  *)
(* and RETN, so that RETN never enables what the program had disabled.      *)
IffOrder == iff1 => iff2

(* No prefix outlives its instruction or crosses an interrupt: an           *)
(* acknowledge starts from no prefix, and CB or ED is never in force        *)
(* together with DD or FD, so decode() has one table to choose.             *)
PrefixInForce ==
  /\ prefix # 0 => index = 0
  /\ instr \in InterruptSequences => prefix = 0 /\ index = 0

(* Steps are half clocks: even steps run on rising edges and odd ones on    *)
(* falling edges, through every WAIT stretch: stepping back one edge "is    *)
(* exactly that, since a T-state is two edges" (advance).  A RESET or a bus *)
(* hold of an odd number of edges breaks the pairing (WaitSampledOnFall).   *)
PhaseKept == step % 2 = clk

WaitStepOnFall ==
  /\ clk' # clk /\ step = WaitStep[seq]
  /\ ~bus_released /\ "RESET" \notin inputs'
  => clk' = 0

(* Wherever the cursor is, the edge that samples WAIT is a falling edge of  *)
(* the clock (CPU-CORE-SPEC 5.2: "sampled on the falling edge of T2").      *)
WaitSampledOnFall == [][WaitStepOnFall]_vars

-----------------------------------------------------------------------------
(* The cursor enters an acknowledge sequence on this step. *)
Accepts == /\ instr' \in InterruptSequences
           /\ cycle' = 0 /\ step' = 0
           /\ cursor' # cursor

BoundaryStep ==
  Accepts => /\ step + 1 = Count[seq]
             /\ Current \notin {"ei", "prefix"}
             /\ Fetching \/ cycle + 1 = cycle_limit
                         \/ TRUE \in EndsHere(instr, cycle, opcode)

(* An interrupt starts only where an instruction ends, never on the         *)
(* boundary right after EI, and never between a prefix and its opcode       *)
(* (advance: "the only place an interrupt can be accepted").                *)
InterruptsAtBoundaries == [][BoundaryStep]_vars

LdAStep ==
  /\ instr \in {"ed_ld_a_i", "ed_ld_a_r"}
  /\ instr' # instr
  /\ reset_held' = 0 /\ ~HostReset
  => pv' = (iff2 /\ ~Accepts)

(* LD A,I and LD A,R report IFF2 unless an interrupt is accepted at their   *)
(* very end.  load_a_from_control_register predicts the acceptance that     *)
(* accept_interrupt decides later on the same edge: the two must agree.     *)
LdAReadsIff2 == [][LdAStep]_vars

NmiStep ==
  clk' # clk /\ NmiPending(inputs')
    => \/ nmi_latched'
       \/ Accepts /\ instr' = "nmi"
       \/ reset_held' >= ResetEdges
       \/ HostReset

(* An NMI is never lost: from the edge on which NMI rises it stays pending  *)
(* until it is served, unless a reset discards it.                          *)
NmiNotLost == [][NmiStep]_vars

InReset == /\ Fetching /\ step = 0 /\ outputs = {}
           /\ im = 0 /\ ~iff1 /\ ~iff2 /\ ~halted /\ ~nmi_latched
           /\ prefix = 0 /\ index = 0
ResetStep ==
  reset_held >= ResetEdges /\ clk' # clk /\ "RESET" \in inputs'
    => reset_held' >= ResetEdges /\ InReset'

(* However long RESET is held, the core stays in its reset state: the       *)
(* 8-bit counter of the edges must not come round.                          *)
ResetHolds == [][ResetStep]_vars

-----------------------------------------------------------------------------
(* A host that keeps asking for the bus, and neither stretches a cycle nor  *)
(* resets the core for ever, gets it and keeps it.                          *)
BusGranted ==
  <>[]("BUSRQ" \in inputs /\ inputs \intersect {"WAIT", "RESET"} = {})
    => <>[]bus_released

(* An NMI is served, IFF1 or not, halted or not, unless the host keeps the  *)
(* core from running or the program feeds it EI or prefixes for ever.       *)
NmiServed ==
  (/\ <>[](inputs \intersect {"WAIT", "RESET", "BUSRQ"} = {})
   /\ <>[](opcode \notin {251, CB, DD, ED, FD}))
    => (nmi_latched ~> ~nmi_latched)

-----------------------------------------------------------------------------
(* The engine implements the interrupt protocol (module Z80Interrupts).     *)
Protocol == INSTANCE Z80Interrupts WITH
  line    <- nmi_previous,
  pending <- nmi_latched,
  enabled <- iff1,
  saved   <- iff2,
  running <- CASE instr = "nmi"                              -> "nmi"
               [] instr \in {"interrupt", "interrupt_mode2"} -> "int"
               [] OTHER                                      -> "program"

(* Every behaviour of the engine, seen through its NMI latch, its flip-flops *)
(* and the acknowledge in progress, is a behaviour of the protocol.          *)
ImplementsProtocol == Protocol!Spec
=============================================================================
