--------------------------- MODULE Z80EngineProofs ---------------------------
(***************************************************************************)
(* Theorems about the engine of the core (modules Z80Engine and             *)
(* Z80Snapshot), for every memory, every host and every size of the reset  *)
(* counter.                                                                *)
(*                                                                         *)
(* The invariants are proved in layers, each using those before it: the    *)
(* cursor and the bytes (Inv1), the pins and the flip-flops (Inv2), the    *)
(* waveform (Inv3).  Every layer is preserved action by action.            *)
(***************************************************************************)
EXTENDS Z80Snapshot, Z80TableProofs

-----------------------------------------------------------------------------
(***************************************************************************)
(* Layer 1: the types of the cursor and of the bytes it decodes, and the   *)
(* cursor inside its instruction.  Neither is inductive alone: a cursor    *)
(* stays in range because it follows the tables, and the tables are        *)
(* followed because the cursor is in range.                                *)
(***************************************************************************)
Inv1 == CursorType /\ CodeType /\ CursorInInstruction

(* Where an instruction begins: in the first of its cycles. *)
LEMMA BeginType ==
  ASSUME NEW n \in Instrs, CyclesOf[n] # << >>, Begin(n)
  PROVE  CursorType' /\ CursorInInstruction' /\ instr' = n /\ step' = 0
<1>1. /\ CyclesOf[n] \in Seq(MachineCycles \ {"m1_fetch"})
      /\ Len(CyclesOf[n]) \in 0 .. 6
  BY ShapeType
<1>2. Len(CyclesOf[n]) >= 1
  BY <1>1
<1>3. CyclesOf[n][1] \in MachineCycles \ {"m1_fetch"}
  BY <1>1, <1>2
<1>4. Count[CyclesOf[n][1]] \in 2 .. 14
  BY <1>3, CountType
<1>5. n # NoInstr
  BY DEF NoInstr, Instrs, FetchOnly, IndexedInstrs, EdInstrs, BlockInstrs, LoadInstrs,
         ArithmeticInstrs, ControlInstrs, InterruptSequences
<1> QED BY <1>1, <1>2, <1>3, <1>4, <1>5
        DEF Begin, MoveTo, CursorType, CursorInInstruction, Fetching

(* Where a fetch begins: no instruction is in progress. *)
LEMMA FetchType ==
  ASSUME NEW c \in 0 .. 6, MoveTo("m1_fetch", NoInstr, c, c)
  PROVE  CursorType' /\ CursorInInstruction' /\ instr' = NoInstr /\ step' = 0
<1>1. "m1_fetch" \in MachineCycles
  BY DEF MachineCycles
<1>2. Count["m1_fetch"] \in 2 .. 14
  BY <1>1, CountType
<1> QED BY <1>1, <1>2 DEF MoveTo, CursorType, CursorInInstruction, Fetching

(* What ends on this edge is an instruction, and an interrupt sequence only *)
(* if one was in progress.                                                  *)
LEMMA CurrentType ==
  ASSUME Inv1
  PROVE  /\ Current \in Instrs
         /\ Fetching => Current \notin InterruptSequences
         /\ ~Fetching => Current = instr
         /\ Fetching <=> instr = NoInstr
<1>1. Decode(opcode, prefix, index) \in Instrs \ InterruptSequences
  BY DecodeType DEF Inv1, CodeType
<1> QED BY <1>1 DEF Inv1, Current, CursorType, CursorInInstruction

(* The number of cycles an instruction has run when it ends. *)
LEMMA CyclesRunType ==
  ASSUME Inv1
  PROVE  CyclesRun \in 0 .. 6
BY DEF Inv1, CyclesRun, CursorType, CursorInInstruction

(* A condition selects what a completed instruction leaves of the code. *)
LEMMA EndInstructionCode ==
  ASSUME Inv1, NEW i, EndInstruction(i)
  PROVE  CodeType'
BY DEF Inv1, CodeType, EndInstruction

(* Every action preserves the layer. *)
LEMMA Inv1Step ==
  Inv1 /\ [Next]_vars => Inv1'
<1> SUFFICES ASSUME Inv1, [Next]_vars PROVE Inv1'
  OBVIOUS
<1> USE DEF Inv1
<1>1. CASE UNCHANGED vars
  BY <1>1 DEF vars, cursor, code, CursorType, CodeType, CursorInInstruction, Fetching
<1>2. CASE HostReset
  BY <1>2, FetchType DEF HostReset, CodeType, Byte
<1>3. ASSUME NEW i \in SUBSET InputPins, Gated(i)
      PROVE  Inv1'
  BY <1>3 DEF Gated, cursor, code, CursorType, CodeType, CursorInInstruction, Fetching
<1>4. ASSUME NEW i \in SUBSET InputPins, ResetPending(i)
      PROVE  Inv1'
  BY <1>4 DEF ResetPending, cursor, code, CursorType, CodeType, CursorInInstruction,
              Fetching
<1>5. ASSUME NEW i \in SUBSET InputPins, ResetTaken(i)
      PROVE  Inv1'
  BY <1>5, FetchType DEF ResetTaken, CodeType
<1>6. ASSUME NEW i \in SUBSET InputPins, BusHeld(i)
      PROVE  Inv1'
  BY <1>6 DEF BusHeld, cursor, code, CursorType, CodeType, CursorInInstruction, Fetching
<1>7. ASSUME NEW i \in SUBSET InputPins, StretchCycle(i)
      PROVE  Inv1'
  <2>1. step = WaitStep[seq] /\ step \in 0 .. Count[seq] - 1
    BY <1>7 DEF StretchCycle, Stretched, CursorType
  <2>2. step - 1 \in 0 .. Count[seq] - 1
    BY <2>1, CountType DEF CursorType, NoWait
  <2> QED BY <1>7, <2>2 DEF StretchCycle, code, CursorType, CodeType,
                            CursorInInstruction, Fetching
<1>8. ASSUME NEW i \in SUBSET InputPins, WithinCycle(i)
      PROVE  Inv1'
  <2>1. step + 1 \in 0 .. Count[seq] - 1
    BY <1>8, CountType DEF WithinCycle, CursorType
  <2>2. opcode' \in Byte
    BY <1>8, BytesAssumption DEF WithinCycle, FetchedBytes, HALT_OPCODE, CodeType, Byte
  <2> QED BY <1>8, <2>1, <2>2 DEF WithinCycle, CursorType, CodeType,
                                  CursorInInstruction, Fetching
<1>9. ASSUME NEW i \in SUBSET InputPins, BeginInstruction(i)
      PROVE  Inv1'
  <2>1. CursorType' /\ CursorInInstruction'
    BY <1>9, CurrentType, BeginType DEF BeginInstruction
  <2> QED BY <1>9, <2>1 DEF BeginInstruction, code, CodeType
<1>10. ASSUME NEW i \in SUBSET InputPins, NextCycle(i)
       PROVE  Inv1'
  <2>1. instr \in Instrs /\ instr # NoInstr /\ cycle + 1 < cycle_limit
    BY <1>10 DEF NextCycle, CursorType, CursorInInstruction
  <2>2. /\ CyclesOf[instr] \in Seq(MachineCycles \ {"m1_fetch"})
        /\ cycle_limit = Len(CyclesOf[instr])
    BY <2>1, ShapeType DEF CursorInInstruction
  <2>3. CyclesOf[instr][cycle + 2] \in MachineCycles \ {"m1_fetch"}
    BY <2>1, <2>2 DEF CursorType
  <2>4. Count[CyclesOf[instr][cycle + 2]] \in 2 .. 14
    BY <2>3, CountType
  <2>5. CursorType' /\ CursorInInstruction'
    BY <1>10, <2>1, <2>2, <2>3, <2>4
       DEF NextCycle, MoveTo, CursorType, CursorInInstruction, Fetching
  <2> QED BY <1>10, <2>5, BytesAssumption DEF NextCycle, ByteAfterExit, CodeType
<1>11. ASSUME NEW i \in SUBSET InputPins, EndPrefix(i)
       PROVE  Inv1'
  <2>1. CursorType' /\ CursorInInstruction'
    BY <1>11, CyclesRunType, FetchType DEF EndPrefix, BackToFetch
  <2>2. CodeType'
    BY <1>11 DEF EndPrefix, CodeType
  <2> QED BY <2>1, <2>2
<1>12. ASSUME NEW i \in SUBSET InputPins, EndPlain(i)
       PROVE  Inv1'
  BY <1>12, CyclesRunType, FetchType, EndInstructionCode DEF EndPlain, BackToFetch
<1>13. ASSUME NEW i \in SUBSET InputPins, AcceptNmi(i)
       PROVE  Inv1'
  <2>1. "nmi" \in Instrs /\ CyclesOf["nmi"] # << >>
    BY ShapeType DEF Instrs, InterruptSequences
  <2> QED BY <1>13, <2>1, BeginType, EndInstructionCode DEF AcceptNmi
<1>14. ASSUME NEW i \in SUBSET InputPins, AcceptInt(i)
       PROVE  Inv1'
  <2>1. \A n \in {"interrupt", "interrupt_mode2"} : n \in Instrs /\ CyclesOf[n] # << >>
    BY ShapeType DEF Instrs, InterruptSequences
  <2> QED BY <1>14, <2>1, BeginType, EndInstructionCode DEF AcceptInt
<1> QED BY <1>1, <1>2, <1>3, <1>4, <1>5, <1>6, <1>7, <1>8, <1>9, <1>10, <1>11, <1>12,
           <1>13, <1>14 DEF Next, Advance

(* The layer holds at reset. *)
LEMMA InitInv1 ==
  Init => Inv1
<1>1. /\ "m1_fetch" \in MachineCycles
      /\ Count["m1_fetch"] \in 2 .. 14
  BY CountType DEF MachineCycles
<1> QED BY <1>1 DEF Init, Inv1, CursorType, CodeType, CursorInInstruction, Fetching, Byte

(* The layer is an invariant of the engine. *)
LEMMA Inv1Holds ==
  Spec => []Inv1
BY InitInv1, Inv1Step, PTL DEF Spec

-----------------------------------------------------------------------------
(***************************************************************************)
(* Layer 2: the pins, the flip-flops and the prefixes.  NotInhibited is    *)
(* the strengthening the code never states: EI raises int_inhibit and the  *)
(* boundary of the same edge lowers it, so no edge ever starts with it.    *)
(***************************************************************************)
NotInhibited == ~int_inhibit

Inv2 == /\ IrqType /\ BusType
        /\ NotInhibited
        /\ IffOrder
        /\ HaltPin
        /\ PrefixInForce
        /\ ReleasedBetweenCycles

(* The step at the cursor drives output pins, and leaves HALT and BUSAK be. *)
LEMMA DrivenType ==
  ASSUME BusType
  PROVE  /\ Driven \in SUBSET OutputPins
         /\ "HALT" \in Driven  <=> "HALT" \in outputs
         /\ "BUSAK" \in Driven <=> "BUSAK" \in outputs
BY DriveType DEF Driven, BusType

(* A grant keeps HALT, and asserts BUSAK exactly when it gives the bus away. *)
LEMMA GrantType ==
  ASSUME BusType, NEW pins \in SUBSET OutputPins, "BUSAK" \notin pins, Grant(pins),
         step' = 0
  PROVE  /\ outputs' \in SUBSET OutputPins
         /\ bus_request_latched' \in BOOLEAN /\ bus_released' \in BOOLEAN
         /\ "HALT" \in outputs' <=> "HALT" \in pins
         /\ ReleasedBetweenCycles'
BY DEF Grant, BusType, OutputPins, Strobes, ReleasedBetweenCycles

(* While the core executes, BUSAK is not asserted. *)
LEMMA NoBusak ==
  ASSUME Inv2, ~bus_released
  PROVE  "BUSAK" \notin outputs /\ "BUSAK" \notin Driven
BY DrivenType DEF Inv2, ReleasedBetweenCycles

(* The counter of reset edges saturates. *)
LEMMA HeldType ==
  ASSUME BusType
  PROVE  Held \in 0 .. HeldMax
BY ResetAssumption DEF BusType, Held

(* The clock level, the sampled inputs and the NMI latch keep their types.  *)
LEMMA EdgeType ==
  ASSUME IrqType, BusType, NEW i \in SUBSET InputPins, Edge(i)
  PROVE  /\ clk' \in {0, 1} /\ inputs' \in SUBSET InputPins
         /\ nmi_previous' \in BOOLEAN
         /\ NmiPending(i) \in BOOLEAN
BY DEF IrqType, BusType, Edge, NmiPending

LEMMA RunsType ==
  ASSUME IrqType, BusType, NEW i \in SUBSET InputPins, Runs(i)
  PROVE  /\ clk' \in {0, 1} /\ inputs' \in SUBSET InputPins
         /\ nmi_previous' \in BOOLEAN
         /\ NmiPending(i) \in BOOLEAN
         /\ reset_held' \in 0 .. HeldMax
BY EdgeType, ResetAssumption DEF Runs

(* An instruction that completes drives pins of the core, shows HALT if it  *)
(* is one, and keeps the flip-flops in order.                               *)
LEMMA CompletionType ==
  ASSUME Inv1, Inv2, NEW i \in SUBSET InputPins, EndInstruction(i)
  PROVE  /\ PinsAfter \in SUBSET OutputPins /\ PinsAwake \in SUBSET OutputPins
         /\ "BUSAK" \notin PinsAfter /\ "BUSAK" \notin PinsAwake
         /\ "HALT" \in PinsAfter <=> HaltedAfter
         /\ "HALT" \notin PinsAwake
         /\ Iff1After \in BOOLEAN /\ Iff2After \in BOOLEAN /\ HaltedAfter \in BOOLEAN
         /\ Iff1After => Iff2After
         /\ im' \in 0 .. 2 /\ pv' \in BOOLEAN /\ int_inhibit' = FALSE
         /\ prefix' = 0 /\ index' = 0
<1>1. Driven \in SUBSET OutputPins /\ "BUSAK" \notin Driven /\ ("HALT" \in Driven <=> halted)
  BY DrivenType, NoBusak
     DEF Inv2, HaltPin, EndInstruction, Completes, LastStep, Executes
<1>2. HaltedAfter \in BOOLEAN /\ ("HALT" \in PinsAfter <=> HaltedAfter)
  BY <1>1 DEF Inv2, IrqType, HaltedAfter, PinsAfter
<1>3. PinsAfter \in SUBSET OutputPins /\ "BUSAK" \notin PinsAfter
  BY <1>1 DEF PinsAfter, OutputPins
<1>4. /\ PinsAwake \in SUBSET OutputPins
      /\ "BUSAK" \notin PinsAwake /\ "HALT" \notin PinsAwake
  BY <1>2, <1>3 DEF PinsAwake
<1>5. Iff1After \in BOOLEAN /\ Iff2After \in BOOLEAN /\ (Iff1After => Iff2After)
  BY DEF Inv2, IrqType, IffOrder, Iff1After, Iff2After
<1>6. im' \in 0 .. 2
  <2>1. Y(opcode) \in 0 .. 7
    BY FieldsType DEF Inv1, CodeType
  <2> QED BY <2>1 DEF EndInstruction, ImAfter, Inv2, IrqType
<1>7. pv' \in BOOLEAN
  BY DEF EndInstruction, PvAfter, Inv2, IrqType
<1> QED BY <1>2, <1>3, <1>4, <1>5, <1>6, <1>7 DEF EndInstruction

(* Every action preserves the layer. *)
LEMMA Inv2Step ==
  Inv1 /\ Inv2 /\ [Next]_vars => Inv2'
<1> SUFFICES ASSUME Inv1, Inv2, [Next]_vars PROVE Inv2'
  OBVIOUS
<1> USE DEF Inv2
<1>1. CASE UNCHANGED vars
  BY <1>1 DEF vars, cursor, code, irq, bus, IrqType, BusType, NotInhibited, IffOrder,
              HaltPin, PrefixInForce, ReleasedBetweenCycles
<1>2. CASE HostReset
  <2>0. 0 \in {0, 1} /\ 0 \in 0 .. 2 /\ 0 \in 0 .. HeldMax
    BY ResetAssumption
  <2>1. IrqType'
    BY <1>2, <2>0 DEF HostReset, InterruptsOff, IrqType
  <2>2. BusType'
    BY <1>2, <2>0 DEF HostReset, BusType
  <2> QED BY <1>2, <2>1, <2>2 DEF HostReset, MoveTo, InterruptsOff, NotInhibited,
              IffOrder, HaltPin, PrefixInForce, ReleasedBetweenCycles,
              InterruptSequences, NoInstr
<1>3. ASSUME NEW i \in SUBSET InputPins, Gated(i)
      PROVE  Inv2'
  BY <1>3 DEF Gated, cursor, code, irq, bus, IrqType, BusType, NotInhibited, IffOrder,
              HaltPin, PrefixInForce, ReleasedBetweenCycles
<1>4. ASSUME NEW i \in SUBSET InputPins, ResetPending(i)
      PROVE  Inv2'
  <2>1. IrqType' /\ BusType'
    BY <1>4, EdgeType, HeldType DEF ResetPending, irq, bus, IrqType, BusType
  <2> QED BY <1>4, <2>1 DEF ResetPending, cursor, code, irq, bus, NotInhibited, IffOrder,
              HaltPin, PrefixInForce, ReleasedBetweenCycles
<1>5. ASSUME NEW i \in SUBSET InputPins, ResetTaken(i)
      PROVE  Inv2'
  <2>0. 0 \in 0 .. 2
    OBVIOUS
  <2>1. IrqType'
    BY <1>5, <2>0, EdgeType DEF ResetTaken, InterruptsOff, IrqType
  <2>2. BusType'
    BY <1>5, EdgeType, HeldType DEF ResetTaken, bus, BusType
  <2> QED BY <1>5, <2>1, <2>2 DEF ResetTaken, MoveTo, InterruptsOff, bus, NotInhibited, IffOrder,
              HaltPin, PrefixInForce, ReleasedBetweenCycles, InterruptSequences, NoInstr
<1>6. ASSUME NEW i \in SUBSET InputPins, BusHeld(i)
      PROVE  Inv2'
  <2>1. IrqType' /\ BusType'
    BY <1>6, RunsType DEF BusHeld, irq, IrqType, BusType
  <2>2. ReleasedBetweenCycles'
    BY <1>6 DEF BusHeld, cursor, ReleasedBetweenCycles
  <2> QED BY <1>6, <2>1, <2>2 DEF BusHeld, cursor, code, irq, NotInhibited, IffOrder,
              HaltPin, PrefixInForce
<1>7. ASSUME NEW i \in SUBSET InputPins, StretchCycle(i)
      PROVE  Inv2'
  <2>1. IrqType' /\ BusType'
    BY <1>7, RunsType, DrivenType DEF StretchCycle, Executes, irq, bus, IrqType, BusType
  <2>2. HaltPin' /\ ReleasedBetweenCycles'
    BY <1>7, DrivenType, NoBusak
       DEF StretchCycle, Executes, bus, HaltPin, ReleasedBetweenCycles
  <2> QED BY <1>7, <2>1, <2>2 DEF StretchCycle, code, irq, NotInhibited, IffOrder,
              PrefixInForce
<1>8. ASSUME NEW i \in SUBSET InputPins, WithinCycle(i)
      PROVE  Inv2'
  <2>1. IrqType' /\ BusType'
    BY <1>8, RunsType, DrivenType DEF WithinCycle, Executes, irq, IrqType, BusType
  <2>2. HaltPin' /\ ReleasedBetweenCycles'
    BY <1>8, DrivenType, NoBusak
       DEF WithinCycle, Executes, HaltPin, ReleasedBetweenCycles
  <2> QED BY <1>8, <2>1, <2>2 DEF WithinCycle, irq, NotInhibited, IffOrder,
              PrefixInForce
<1>9. ASSUME NEW i \in SUBSET InputPins, BeginInstruction(i)
      PROVE  Inv2'
  <2>1. /\ Driven \in SUBSET OutputPins /\ "BUSAK" \notin Driven
        /\ "HALT" \in Driven <=> halted
        /\ step' = 0 /\ Grant(Driven) /\ Runs(i)
    BY <1>9, DrivenType, NoBusak
       DEF BeginInstruction, LastStep, Executes, Begin, MoveTo, HaltPin
  <2>2. IrqType' /\ BusType' /\ HaltPin' /\ ReleasedBetweenCycles'
    BY <1>9, <2>1, GrantType, RunsType
       DEF BeginInstruction, irq, IrqType, BusType, HaltPin
  <2>3. PrefixInForce'
    BY <1>9, CurrentType
       DEF BeginInstruction, Begin, MoveTo, code, PrefixInForce
  <2> QED BY <1>9, <2>2, <2>3 DEF BeginInstruction, irq, NotInhibited, IffOrder
<1>10. ASSUME NEW i \in SUBSET InputPins, NextCycle(i)
       PROVE  Inv2'
  <2>1. /\ Driven \in SUBSET OutputPins /\ "BUSAK" \notin Driven
        /\ "HALT" \in Driven <=> halted
        /\ step' = 0 /\ Grant(Driven) /\ Runs(i)
    BY <1>10, DrivenType, NoBusak
       DEF NextCycle, LastStep, Executes, MoveTo, HaltPin
  <2>2. IrqType' /\ BusType' /\ HaltPin' /\ ReleasedBetweenCycles'
    BY <1>10, <2>1, GrantType, RunsType DEF NextCycle, irq, IrqType, BusType, HaltPin
  <2>3. PrefixInForce'
    BY <1>10 DEF NextCycle, MoveTo, PrefixInForce
  <2> QED BY <1>10, <2>2, <2>3 DEF NextCycle, irq, NotInhibited, IffOrder
<1>11. ASSUME NEW i \in SUBSET InputPins, EndPrefix(i)
       PROVE  Inv2'
  <2>1. /\ Driven \in SUBSET OutputPins /\ "BUSAK" \notin Driven
        /\ "HALT" \in Driven <=> halted
        /\ step' = 0 /\ Grant(Driven) /\ Runs(i)
    BY <1>11, DrivenType, NoBusak
       DEF EndPrefix, Completes, LastStep, Executes, BackToFetch, MoveTo, HaltPin
  <2>2. IrqType' /\ BusType' /\ HaltPin' /\ ReleasedBetweenCycles'
    BY <1>11, <2>1, GrantType, RunsType DEF EndPrefix, irq, IrqType, BusType, HaltPin
  <2>3. Current = "prefix" /\ Fetching
    <3>1. Len(CyclesOf["prefix"]) = 0
      BY GroupCycles DEF Instrs, FetchOnly
    <3>2. Current = "prefix"
      BY <1>11 DEF EndPrefix
    <3>3. ASSUME ~Fetching PROVE FALSE
      BY <3>1, <3>2, <3>3, CurrentType DEF Inv1, CursorInInstruction, CursorType, NoInstr
    <3> QED BY <3>2, <3>3
  <2>4. PrefixInForce'
    <3>1. opcode \in {CB, DD, ED, FD} /\ (index # 0 => opcode # CB)
      BY <2>3, DecodeType DEF Current, Inv1, CodeType
    <3> QED BY <1>11, <3>1 DEF EndPrefix, BackToFetch, MoveTo, PrefixInForce,
                               InterruptSequences, NoInstr, CB, DD, ED, FD
  <2> QED BY <1>11, <2>2, <2>4 DEF EndPrefix, irq, NotInhibited, IffOrder
<1>12. ASSUME NEW i \in SUBSET InputPins, EndPlain(i)
       PROVE  Inv2'
  <2>1. Runs(i) /\ Grant(PinsAfter) /\ step' = 0 /\ EndInstruction(i)
    BY <1>12 DEF EndPlain, EndInstruction, Completes, LastStep, Executes, BackToFetch,
                 MoveTo
  <2>2. IrqType' /\ BusType' /\ HaltPin' /\ ReleasedBetweenCycles'
    BY <1>12, <2>1, CompletionType, GrantType, RunsType
       DEF EndPlain, IrqType, BusType, HaltPin
  <2> QED BY <1>12, <2>1, <2>2, CompletionType
          DEF EndPlain, NotInhibited, IffOrder, PrefixInForce
<1>13. ASSUME NEW i \in SUBSET InputPins, AcceptNmi(i)
       PROVE  Inv2'
  <2>1. Runs(i) /\ Grant(PinsAwake) /\ step' = 0 /\ EndInstruction(i)
    BY <1>13 DEF AcceptNmi, EndInstruction, Completes, LastStep, Executes, Begin, MoveTo
  <2>2. IrqType' /\ BusType' /\ HaltPin' /\ ReleasedBetweenCycles'
    BY <1>13, <2>1, CompletionType, GrantType, RunsType
       DEF AcceptNmi, IrqType, BusType, HaltPin
  <2> QED BY <1>13, <2>1, <2>2, CompletionType
          DEF AcceptNmi, NotInhibited, IffOrder, PrefixInForce
<1>14. ASSUME NEW i \in SUBSET InputPins, AcceptInt(i)
       PROVE  Inv2'
  <2>1. Runs(i) /\ Grant(PinsAwake) /\ step' = 0 /\ EndInstruction(i)
    BY <1>14 DEF AcceptInt, EndInstruction, Completes, LastStep, Executes, Begin, MoveTo
  <2>2. IrqType' /\ BusType' /\ HaltPin' /\ ReleasedBetweenCycles'
    BY <1>14, <2>1, CompletionType, GrantType, RunsType
       DEF AcceptInt, IrqType, BusType, HaltPin
  <2> QED BY <1>14, <2>1, <2>2, CompletionType
          DEF AcceptInt, NotInhibited, IffOrder, PrefixInForce
<1> QED BY <1>1, <1>2, <1>3, <1>4, <1>5, <1>6, <1>7, <1>8, <1>9, <1>10, <1>11, <1>12,
           <1>13, <1>14 DEF Next, Advance

(* The layer holds at reset. *)
LEMMA InitInv2 ==
  Init => Inv2
<1> SUFFICES ASSUME Init PROVE Inv2
  OBVIOUS
<1>1. 0 \in {0, 1} /\ 0 \in 0 .. 2 /\ 0 \in 0 .. HeldMax
  BY ResetAssumption
<1>2. IrqType
  BY <1>1 DEF Init, IrqType
<1>3. BusType
  BY <1>1 DEF Init, BusType
<1> QED BY <1>2, <1>3 DEF Init, Inv2, NotInhibited, IffOrder, HaltPin, PrefixInForce,
            ReleasedBetweenCycles, InterruptSequences, NoInstr

(* Both layers are invariants of the engine. *)
LEMMA Inv2Holds ==
  Spec => [](Inv1 /\ Inv2)
BY InitInv2, Inv1Holds, Inv2Step, PTL DEF Spec

-----------------------------------------------------------------------------
(***************************************************************************)
(* Layer 3: the waveform.  StrobesFollowCursor is inductive relative to    *)
(* the first layers, by the lemmas on the step tables.                     *)
(***************************************************************************)

(* A machine cycle that has just begun shows no strobe. *)
LEMMA QuietAtStart ==
  ASSUME CursorType, step = 0, outputs \intersect Strobes = {}
  PROVE  StrobesFollowCursor
BY LevelsAtEnds DEF CursorType, StrobesFollowCursor

(* The step that runs takes the strobes to those of the next edge, or, while *)
(* a stretched T-state is repeated, leaves them.                             *)
LEMMA DrivenStrobes ==
  ASSUME CursorType, StrobesFollowCursor
  PROVE  \/ Driven \intersect Strobes = Levels(seq, step + 1)
         \/ /\ Repeating /\ WaitStep[seq] # NoWait
            /\ Driven \intersect Strobes = Levels(seq, WaitStep[seq] + 1)
<1>1. CASE outputs \intersect Strobes = Levels(seq, step)
  BY <1>1, DriveFollowsWave DEF CursorType, Driven
<1>2. CASE Repeating /\ outputs \intersect Strobes = Levels(seq, WaitStep[seq] + 1)
  <2>1. WaitStep[seq] # NoWait
    BY <1>2, CountType DEF Repeating, CursorType, NoWait
  <2> QED BY <1>2, <2>1, DriveRepeats DEF CursorType, Repeating, Driven
<1> QED BY <1>1, <1>2 DEF StrobesFollowCursor

(* Where a machine cycle ends, so do its strobes: the sampling step is not   *)
(* among the last two.                                                       *)
LEMMA WaitBeforeLast ==
  ASSUME NEW s \in MachineCycles
  PROVE  WaitStep[s] = NoWait \/ WaitStep[s] + 1 < Count[s]
BY DEF WaitStep, NoWait, Count, MachineCycles, AckCycles, BusCycles, IdleCycles

LEMMA QuietAtEnd ==
  ASSUME Inv1, StrobesFollowCursor, NEW i, LastStep(i)
  PROVE  Driven \intersect Strobes = {}
<1>1. seq \in MachineCycles /\ step + 1 = Count[seq]
  BY CountType DEF Inv1, CursorType, LastStep
<1>2. ~(Repeating /\ WaitStep[seq] # NoWait)
  BY <1>1, WaitBeforeLast, CountType DEF Inv1, CursorType, Repeating, NoWait
<1>3. Driven \intersect Strobes = Levels(seq, Count[seq])
  BY <1>1, <1>2, DrivenStrobes DEF Inv1
<1> QED BY <1>1, <1>3, LevelsAtEnds

(* A grant shows no strobe if the cycle that ends shows none. *)
LEMMA QuietGrant ==
  ASSUME NEW pins, pins \intersect Strobes = {}, Grant(pins)
  PROVE  outputs' \intersect Strobes = {}
BY DEF Grant, Strobes

LEMMA QuietPins ==
  ASSUME Driven \intersect Strobes = {}
  PROVE  PinsAfter \intersect Strobes = {} /\ PinsAwake \intersect Strobes = {}
BY DEF PinsAfter, PinsAwake, Strobes

(* Every edge keeps the strobes on the waveform of the cycle in progress. *)
LEMMA StrobesStep ==
  Inv1 /\ Inv1' /\ StrobesFollowCursor /\ [Next]_vars => StrobesFollowCursor'
<1> SUFFICES ASSUME Inv1, Inv1', StrobesFollowCursor, [Next]_vars
             PROVE  StrobesFollowCursor'
  OBVIOUS
<1>0. CursorType /\ CursorType'
  BY DEF Inv1
<1>a. ASSUME step' = 0, outputs' \intersect Strobes = {}
      PROVE  StrobesFollowCursor'
  BY <1>0, <1>a, LevelsAtEnds DEF CursorType, StrobesFollowCursor
<1>1. CASE UNCHANGED vars
  BY <1>1 DEF vars, cursor, StrobesFollowCursor, Repeating
<1>2. CASE HostReset
  BY <1>2, <1>a DEF HostReset, MoveTo
<1>3. ASSUME NEW i \in SUBSET InputPins, Gated(i) \/ ResetPending(i)
      PROVE  StrobesFollowCursor'
  BY <1>3 DEF Gated, ResetPending, cursor, StrobesFollowCursor, Repeating
<1>4. ASSUME NEW i \in SUBSET InputPins, ResetTaken(i)
      PROVE  StrobesFollowCursor'
  BY <1>4, <1>a DEF ResetTaken, MoveTo
<1>5. ASSUME NEW i \in SUBSET InputPins, BusHeld(i)
      PROVE  StrobesFollowCursor'
  BY <1>5 DEF BusHeld, cursor, StrobesFollowCursor, Repeating, Strobes
<1>6. ASSUME NEW i \in SUBSET InputPins, StretchCycle(i)
      PROVE  StrobesFollowCursor'
  <2>1. /\ step = WaitStep[seq] /\ step' = step - 1
        /\ seq' = seq /\ outputs' = Driven
    BY <1>6 DEF StretchCycle, Stretched
  <2>2. outputs' \intersect Strobes = Levels(seq, WaitStep[seq] + 1)
    BY <1>0, <2>1, DrivenStrobes
  <2> QED BY <2>1, <2>2 DEF StrobesFollowCursor, Repeating
<1>7. ASSUME NEW i \in SUBSET InputPins, WithinCycle(i)
      PROVE  StrobesFollowCursor'
  <2>1. step' = step + 1 /\ seq' = seq /\ outputs' = Driven
    BY <1>7 DEF WithinCycle
  <2>2. CASE Driven \intersect Strobes = Levels(seq, step + 1)
    BY <2>1, <2>2 DEF StrobesFollowCursor
  <2>3. CASE /\ Repeating /\ WaitStep[seq] # NoWait
             /\ Driven \intersect Strobes = Levels(seq, WaitStep[seq] + 1)
    <3>1. step + 1 \in {WaitStep[seq], WaitStep[seq] + 1}
      BY <1>0, <2>3, CountType DEF Repeating, CursorType
    <3> QED BY <2>1, <2>3, <3>1 DEF StrobesFollowCursor, Repeating
  <2> QED BY <1>0, <2>2, <2>3, DrivenStrobes
<1>8. ASSUME NEW i \in SUBSET InputPins,
             BeginInstruction(i) \/ NextCycle(i) \/ EndPrefix(i)
      PROVE  StrobesFollowCursor'
  <2>1. LastStep(i) /\ step' = 0 /\ Grant(Driven)
    BY <1>8 DEF BeginInstruction, NextCycle, EndPrefix, Completes, Begin, BackToFetch,
                MoveTo
  <2> QED BY <2>1, <1>a, QuietAtEnd, QuietGrant
<1>9. ASSUME NEW i \in SUBSET InputPins, EndPlain(i) \/ AcceptNmi(i) \/ AcceptInt(i)
      PROVE  StrobesFollowCursor'
  <2>1. LastStep(i) /\ step' = 0 /\ (Grant(PinsAfter) \/ Grant(PinsAwake))
    BY <1>9 DEF EndPlain, AcceptNmi, AcceptInt, EndInstruction, Completes, Begin,
                BackToFetch, MoveTo
  <2> QED BY <2>1, <1>a, QuietAtEnd, QuietPins, QuietGrant
<1> QED BY <1>1, <1>2, <1>3, <1>4, <1>5, <1>6, <1>7, <1>8, <1>9 DEF Next, Advance

-----------------------------------------------------------------------------
(***************************************************************************)
(* The invariants of the engine.                                           *)
(***************************************************************************)

(* Every variable keeps its type. *)
THEOREM TypeCorrect == Spec => []TypeOK
BY Inv2Holds, PTL DEF Inv1, Inv2, TypeOK

(* advance() never indexes past its tables: cycles[cycle] and steps[step]   *)
(* are always entries of the instruction and the machine cycle in progress. *)
THEOREM CursorStaysInside == Spec => []CursorInInstruction
BY Inv2Holds, PTL DEF Inv1

(* The HALT pin is the halted state, whatever host, memory and program do.  *)
THEOREM HaltPinShowsHalted == Spec => []HaltPin
BY Inv2Holds, PTL DEF Inv2

(* IFF1 is never set without IFF2.                                          *)
THEOREM IffOrdered == Spec => []IffOrder
BY Inv2Holds, PTL DEF Inv2

(* No prefix survives into an acknowledge, nor CB or ED beside DD or FD.    *)
THEOREM PrefixesExclusive == Spec => []PrefixInForce
BY Inv2Holds, PTL DEF Inv2

(* The bus is let go between machine cycles only, with no strobe asserted,  *)
(* and BUSAK is never asserted while the core has the bus.                  *)
THEOREM ReleaseIsClean == Spec => []ReleasedBetweenCycles
BY Inv2Holds, PTL DEF Inv2

(* Every strobe follows the timing table at every edge, through wait states, *)
(* grants, interrupts and resets in any order.                               *)
THEOREM WaveformFollowed == Spec => []StrobesFollowCursor
<1>1. Init => StrobesFollowCursor
  <2> SUFFICES ASSUME Init PROVE StrobesFollowCursor
    OBVIOUS
  <2>1. "m1_fetch" \in MachineCycles
    BY DEF MachineCycles
  <2> QED BY <2>1, LevelsAtEnds DEF Init, StrobesFollowCursor
<1> QED BY <1>1, StrobesStep, Inv1Holds, PTL DEF Spec

-----------------------------------------------------------------------------
(***************************************************************************)
(* Layer 4: the steps of the engine.  What an interrupt, a reset and a bus *)
(* request may do and when, and that the engine implements the interrupt   *)
(* protocol of module Z80Interrupts.                                       *)
(***************************************************************************)

(* An edge samples the inputs of the host, and runs the core unless RESET   *)
(* is asserted.                                                             *)
LEMMA AdvanceEdge ==
  ASSUME NEW i, Advance(i)
  PROVE  /\ inputs' = i
         /\ ResetPending(i) \/ ResetTaken(i) \/ Runs(i)
<1>1. ResetPending(i) \/ ResetTaken(i) \/ Runs(i)
  BY DEF Advance, BusHeld, StretchCycle, WithinCycle, BeginInstruction, NextCycle,
         EndPrefix, EndPlain, AcceptNmi, AcceptInt, EndInstruction, Completes, LastStep,
         Executes
<1>2. inputs' = i
  BY <1>1 DEF ResetPending, ResetTaken, Runs, Edge
<1> QED BY <1>1, <1>2

(* The actions that leave the core where it is, or take it to a fetch, an   *)
(* instruction or the next cycle of one, accept no interrupt.               *)
LEMMA OthersAcceptNothing ==
  ASSUME Inv1, NEW i \in SUBSET InputPins,
         \/ HostReset \/ Gated(i) \/ ResetPending(i) \/ ResetTaken(i) \/ BusHeld(i)
         \/ StretchCycle(i) \/ WithinCycle(i) \/ BeginInstruction(i) \/ NextCycle(i)
         \/ EndPrefix(i) \/ EndPlain(i)
  PROVE  ~Accepts
<1>1. NoInstr \notin InterruptSequences
  BY DEF NoInstr, InterruptSequences
<1>2. CASE HostReset \/ ResetTaken(i) \/ EndPrefix(i) \/ EndPlain(i)
  BY <1>1, <1>2 DEF HostReset, ResetTaken, EndPrefix, EndPlain, BackToFetch, MoveTo,
                    Accepts
<1>3. CASE Gated(i) \/ ResetPending(i) \/ BusHeld(i)
  BY <1>3 DEF Gated, ResetPending, BusHeld, cursor, Accepts
<1>4. CASE StretchCycle(i)
  <2>1. step = WaitStep[seq] /\ step' = step - 1 /\ WaitStep[seq] \in {3, 5, NoWait}
    BY <1>4, CountType DEF StretchCycle, Stretched, Inv1, CursorType
  <2> QED BY <2>1 DEF Accepts, NoWait
<1>5. CASE WithinCycle(i)
  <2>1. step' = step + 1 /\ step \in Nat
    BY <1>5, CountType DEF WithinCycle, Inv1, CursorType
  <2> QED BY <2>1 DEF Accepts
<1>6. CASE BeginInstruction(i)
  BY <1>6, CurrentType DEF BeginInstruction, Begin, MoveTo, Accepts
<1>7. CASE NextCycle(i)
  <2>1. cycle' = cycle + 1 /\ cycle \in Nat
    BY <1>7 DEF NextCycle, MoveTo, Inv1, CursorType
  <2> QED BY <2>1 DEF Accepts
<1> QED BY <1>2, <1>3, <1>4, <1>5, <1>6, <1>7

(* An acceptance leaves a fetch or a cycle that has run at least a step, so  *)
(* the cursor moves; and it happens at a boundary.                           *)
LEMMA AcceptanceIsBoundary ==
  ASSUME Inv1, NEW i \in SUBSET InputPins, AcceptNmi(i) \/ AcceptInt(i)
  PROVE  /\ Accepts
         /\ instr' = "nmi" \/ AcceptInt(i)
         /\ BoundaryStep
<1>1. Completes(i) /\ Current # "prefix" /\ ~InhibitAfter
  BY DEF AcceptNmi, AcceptInt, EndInstruction, TakesNmi, TakesInt
<1>2. step \in 0 .. Count[seq] - 1 /\ Count[seq] \in 2 .. 14 /\ step + 1 >= Count[seq]
  BY <1>1, CountType DEF Inv1, CursorType, Completes, LastStep
<1>3. /\ step' = 0 /\ cycle' = 0 /\ instr' \in InterruptSequences
      /\ instr' = "nmi" \/ AcceptInt(i)
  BY DEF AcceptNmi, AcceptInt, Begin, MoveTo, InterruptSequences
<1>4. Accepts
  BY <1>2, <1>3 DEF Accepts, cursor
<1>5. BoundaryStep
  <2>1. step + 1 = Count[seq]
    BY <1>2
  <2>2. Current \notin {"ei", "prefix"}
    BY <1>1 DEF InhibitAfter
  <2>3. \/ Fetching \/ cycle + 1 = cycle_limit
        \/ TRUE \in EndsHere(instr, cycle, opcode)
    <3>1. ASSUME ~Fetching, cycle + 1 >= cycle_limit PROVE cycle + 1 = cycle_limit
      BY <3>1 DEF Inv1, CursorType, CursorInInstruction
    <3> QED BY <1>1, <3>1 DEF Completes
  <2> QED BY <2>1, <2>2, <2>3 DEF BoundaryStep
<1> QED BY <1>3, <1>4, <1>5

(* Interrupts start at instruction boundaries only: never after EI, after a  *)
(* prefix, or between two cycles of an instruction.                          *)
THEOREM InterruptsOnlyAtBoundaries == Spec => InterruptsAtBoundaries
<1>1. Inv1 /\ [Next]_vars => [BoundaryStep]_vars
  <2> SUFFICES ASSUME Inv1, [Next]_vars PROVE BoundaryStep \/ UNCHANGED vars
    OBVIOUS
  <2>1. ASSUME HostReset PROVE BoundaryStep
    BY <2>1, OthersAcceptNothing DEF BoundaryStep
  <2>2. ASSUME NEW i \in SUBSET InputPins, Gated(i) \/ Advance(i) PROVE BoundaryStep
    BY <2>2, OthersAcceptNothing, AcceptanceIsBoundary DEF Advance, BoundaryStep
  <2> QED BY <2>1, <2>2 DEF Next
<1> QED BY <1>1, Inv1Holds, PTL DEF Spec, InterruptsAtBoundaries

(* The prediction of load_a_from_control_register is the decision of        *)
(* accept_interrupt, on every edge on which LD A,I or LD A,R completes.     *)
THEOREM LdAPredictsAcceptance == Spec => LdAReadsIff2
<1>1. Inv1 /\ Inv2 /\ [Next]_vars => [LdAStep]_vars
  <2> SUFFICES ASSUME Inv1, Inv2, Next,
                      instr \in {"ed_ld_a_i", "ed_ld_a_r"}, instr' # instr,
                      reset_held' = 0, ~HostReset
               PROVE  pv' = (iff2 /\ ~Accepts)
    BY DEF LdAStep
  <2>1. PICK i \in SUBSET InputPins : Gated(i) \/ Advance(i)
    BY DEF Next
  <2>2. ~Fetching /\ Current = instr
    BY CurrentType DEF NoInstr
  <2>3. ~ResetTaken(i)
    BY ResetAssumption, HeldType DEF ResetTaken, Inv2
  <2>4. EndPlain(i) \/ AcceptNmi(i) \/ AcceptInt(i)
    BY <2>1, <2>2, <2>3
       DEF Advance, Gated, ResetPending, BusHeld, StretchCycle, WithinCycle,
           BeginInstruction, NextCycle, EndPrefix, MoveTo, cursor
  <2>5. /\ pv' = (iff2 /\ ~InterruptImminent(i))
        /\ Iff1After = iff1 /\ InhibitAfter = FALSE /\ int_inhibit = FALSE
    BY <2>2, <2>4 DEF EndPlain, AcceptNmi, AcceptInt, EndInstruction, PvAfter, Iff1After,
                      InhibitAfter, Inv2, NotInhibited, IrqType
  <2>6. CASE EndPlain(i)
    <3>1. ~Accepts
      BY <2>6, OthersAcceptNothing
    <3>2. ~InterruptImminent(i)
      BY <2>5, <2>6 DEF EndPlain, TakesNmi, TakesInt, InterruptImminent
    <3> QED BY <2>5, <3>1, <3>2
  <2>7. CASE AcceptNmi(i) \/ AcceptInt(i)
    <3>1. Accepts
      BY <2>7, AcceptanceIsBoundary
    <3>2. InterruptImminent(i)
      BY <2>5, <2>7 DEF AcceptNmi, AcceptInt, TakesNmi, TakesInt, InterruptImminent
    <3> QED BY <2>5, <3>1, <3>2
  <2> QED BY <2>4, <2>6, <2>7
<1> QED BY <1>1, Inv2Holds, PTL DEF Spec, LdAReadsIff2

(* From the edge on which it rises, an NMI is pending, served or discarded   *)
(* by a reset.                                                               *)
THEOREM NmiIsNotLost == Spec => NmiNotLost
<1>1. Inv1 /\ Inv2 /\ [Next]_vars => [NmiStep]_vars
  <2> SUFFICES ASSUME Inv1, Inv2, Next, clk' # clk, NmiPending(inputs'), ~HostReset
               PROVE  nmi_latched' \/ (Accepts /\ instr' = "nmi")
                        \/ reset_held' >= ResetEdges
    BY DEF NmiStep
  <2>1. PICK i \in SUBSET InputPins : Advance(i)
    BY DEF Next, Gated
  <2>2. inputs' = i
    BY <2>1, AdvanceEdge
  <2>3. NmiPending(i)
    BY <2>2
  <2>4. CASE ResetTaken(i)
    BY <2>4 DEF ResetTaken
  <2>5. CASE AcceptNmi(i)
    BY <2>5, AcceptanceIsBoundary DEF AcceptNmi, Begin, MoveTo
  <2>6. CASE ~ResetTaken(i) /\ ~AcceptNmi(i)
    <3>1. nmi_latched' = NmiPending(i)
      BY <2>1, <2>6
         DEF Advance, ResetPending, BusHeld, StretchCycle, WithinCycle,
             BeginInstruction, NextCycle, EndPrefix, EndPlain, AcceptInt
    <3> QED BY <2>3, <3>1
  <2> QED BY <2>4, <2>5, <2>6
<1> QED BY <1>1, Inv2Holds, PTL DEF Spec, NmiNotLost

(* A core held in RESET stays reset, for however many edges: the counter     *)
(* saturates at HeldMax, which is not below ResetEdges.                      *)
THEOREM ResetIsHeld == Spec => ResetHolds
<1>1. Inv2 /\ [Next]_vars => [ResetStep]_vars
  <2> SUFFICES ASSUME Inv2, Next, reset_held >= ResetEdges, clk' # clk,
                      "RESET" \in inputs'
               PROVE  reset_held' >= ResetEdges /\ InReset'
    BY DEF ResetStep
  <2>1. PICK i \in SUBSET InputPins : Advance(i)
    BY DEF Next, Gated, HostReset
  <2>2. "RESET" \in i
    BY <2>1, AdvanceEdge
  <2>3. Held >= ResetEdges
    BY ResetAssumption DEF Held, Inv2, BusType
  <2>4. ResetTaken(i)
    <3>1. ResetPending(i) \/ ResetTaken(i) \/ Runs(i)
      BY <2>1, AdvanceEdge
    <3>2. ~ResetPending(i)
      BY <2>3, HeldType, ResetAssumption DEF ResetPending, Inv2
    <3> QED BY <2>2, <3>1, <3>2 DEF Runs
  <2> QED BY <2>3, <2>4 DEF ResetTaken, MoveTo, InterruptsOff, InReset, Fetching
<1> QED BY <1>1, Inv2Holds, PTL DEF Spec, ResetHolds

-----------------------------------------------------------------------------
(***************************************************************************)
(* The engine implements the interrupt protocol.  Each action maps to one  *)
(* action of the protocol; Gated stutters.                                 *)
(***************************************************************************)

(* The acknowledge in progress, as the protocol sees it.                    *)
Running(n) == CASE n = "nmi"                              -> "nmi"
                [] n \in {"interrupt", "interrupt_mode2"} -> "int"
                [] OTHER                                  -> "program"

(* The protocol's kind of the instruction that completes. *)
Kind == CASE Current = "di"      -> "DI"
          [] Current = "ei"      -> "EI"
          [] Current = "ed_retn" -> "RETN"
          [] OTHER               -> "ordinary"

LEMMA RunningType ==
  ASSUME NEW n
  PROVE  /\ n \notin InterruptSequences => Running(n) = "program"
         /\ n = "nmi" => Running(n) = "nmi"
         /\ n \in {"interrupt", "interrupt_mode2"} => Running(n) = "int"
BY DEF Running, InterruptSequences

(* Edges within an instruction are samples of the protocol. *)
LEMMA SampleStep ==
  ASSUME NEW i, nmi_previous' = ("NMI" \in i), nmi_latched' = NmiPending(i),
         iff1' = iff1, iff2' = iff2, Running(instr') = Running(instr)
  PROVE  Protocol!Next
<1>1. Protocol!Sample("NMI" \in i)
  BY DEF Protocol!Sample, Protocol!Requested, NmiPending, Running
<1>2. ("NMI" \in i) \in BOOLEAN
  OBVIOUS
<1> QED BY <1>1, <1>2 DEF Protocol!Next

(* Resets, by the pin or by the host, are resets of the protocol. *)
LEMMA ResetStepMaps ==
  ASSUME NEW level \in BOOLEAN, nmi_previous' = level, nmi_latched' = FALSE,
         iff1' = FALSE, iff2' = FALSE, instr' = NoInstr
  PROVE  Protocol!Next
<1>1. Running(instr') = "program"
  BY RunningType DEF NoInstr, InterruptSequences
<1>2. Protocol!Reset(level)
  BY <1>1 DEF Protocol!Reset, Running
<1> QED BY <1>2 DEF Protocol!Next

(* What the effect leaves in the flip-flops is what the protocol computes;   *)
(* an acknowledge completes as an ordinary instruction.                      *)
LEMMA EffectMaps ==
  ASSUME Inv1, Inv2
  PROVE  /\ Kind \in Protocol!Kinds
         /\ Running(instr) # "program" => Kind = "ordinary"
         /\ Iff1After = Protocol!EnabledAfter(Kind)
         /\ Iff2After = Protocol!SavedAfter(Kind)
         /\ InhibitAfter <=> Kind = "EI"
<1>1. Kind \in Protocol!Kinds /\ (InhibitAfter <=> Kind = "EI")
  BY DEF Kind, Protocol!Kinds, InhibitAfter, Inv2, NotInhibited
<1>2. Iff1After = Protocol!EnabledAfter(Kind)
  BY DEF Kind, Iff1After, Protocol!EnabledAfter, Inv2, IrqType
<1>3. Iff2After = Protocol!SavedAfter(Kind)
  BY DEF Kind, Iff2After, Protocol!SavedAfter, Inv2, IrqType
<1>4. ASSUME Running(instr) # "program" PROVE Kind = "ordinary"
  <2>1. instr \in InterruptSequences /\ instr # NoInstr
    BY <1>4, RunningType DEF NoInstr, InterruptSequences
  <2>2. Current = instr
    BY <2>1, CurrentType
  <2> QED BY <2>1, <2>2 DEF Kind, InterruptSequences
<1> QED BY <1>1, <1>2, <1>3, <1>4

LEMMA BoundaryMaps ==
  ASSUME NEW kind \in Protocol!Kinds, NEW level \in BOOLEAN, NEW int \in BOOLEAN,
         Protocol!Boundary(kind, level, int)
  PROVE  Protocol!Next
BY DEF Protocol!Next

(* Every step of the engine is a step or a stutter of the protocol. *)
LEMMA ProtocolStep ==
  Inv1 /\ Inv2 /\ [Next]_vars => [Protocol!Next]_(Protocol!protocolVars)
<1> SUFFICES ASSUME Inv1, Inv2, [Next]_vars
             PROVE  Protocol!Next \/ UNCHANGED Protocol!protocolVars
  OBVIOUS
<1>1. CASE UNCHANGED vars
  BY <1>1 DEF vars, cursor, irq, Protocol!protocolVars
<1>2. CASE HostReset
  BY <1>2, ResetStepMaps DEF HostReset, MoveTo, InterruptsOff
<1>3. ASSUME NEW i \in SUBSET InputPins, Gated(i)
      PROVE  UNCHANGED Protocol!protocolVars
  BY <1>3 DEF Gated, cursor, irq, Protocol!protocolVars
<1>4. ASSUME NEW i \in SUBSET InputPins,
             ResetPending(i) \/ BusHeld(i) \/ StretchCycle(i) \/ WithinCycle(i)
               \/ NextCycle(i)
      PROVE  Protocol!Next
  <2>1. /\ nmi_previous' = ("NMI" \in i) /\ nmi_latched' = NmiPending(i)
        /\ iff1' = iff1 /\ iff2' = iff2 /\ instr' = instr
    BY <1>4 DEF ResetPending, BusHeld, StretchCycle, WithinCycle, NextCycle, LastStep,
                Executes, Runs, Edge, MoveTo, cursor, irq
  <2> QED BY <2>1, SampleStep
<1>5. ASSUME NEW i \in SUBSET InputPins, BeginInstruction(i) \/ EndPrefix(i)
      PROVE  Protocol!Next
  <2>1. /\ nmi_previous' = ("NMI" \in i) /\ nmi_latched' = NmiPending(i)
        /\ iff1' = iff1 /\ iff2' = iff2
    BY <1>5 DEF BeginInstruction, EndPrefix, Completes, LastStep, Executes, Runs, Edge,
                irq
  <2>2. instr \notin InterruptSequences
    <3>1. CASE BeginInstruction(i)
      BY <3>1, CurrentType DEF BeginInstruction, NoInstr, InterruptSequences
    <3>2. CASE EndPrefix(i)
      BY <3>2, CurrentType DEF EndPrefix, NoInstr, InterruptSequences
    <3> QED BY <1>5, <3>1, <3>2
  <2>3. instr' \notin InterruptSequences
    <3>1. CASE BeginInstruction(i)
      BY <3>1, CurrentType DEF BeginInstruction, Begin, MoveTo
    <3>2. CASE EndPrefix(i)
      BY <3>2 DEF EndPrefix, BackToFetch, MoveTo, NoInstr, InterruptSequences
    <3> QED BY <1>5, <3>1, <3>2
  <2> QED BY <2>1, <2>2, <2>3, RunningType, SampleStep
<1>6. ASSUME NEW i \in SUBSET InputPins, ResetTaken(i)
      PROVE  Protocol!Next
  <2>1. ("NMI" \in i) \in BOOLEAN
    OBVIOUS
  <2>2. /\ nmi_previous' = ("NMI" \in i) /\ nmi_latched' = FALSE
        /\ iff1' = FALSE /\ iff2' = FALSE /\ instr' = NoInstr
    BY <1>6 DEF ResetTaken, Edge, MoveTo, InterruptsOff
  <2> QED BY <2>1, <2>2, ResetStepMaps
<1>7. ASSUME NEW i \in SUBSET InputPins, EndPlain(i) \/ AcceptNmi(i) \/ AcceptInt(i)
      PROVE  Protocol!Next
  <2> DEFINE level == "NMI" \in i
             int   == "INT" \in i
  <2>0. level \in BOOLEAN /\ int \in BOOLEAN
    OBVIOUS
  <2>a. ASSUME Protocol!Continue(Kind, level, int) \/ Protocol!ServeNmi(Kind, level)
                 \/ Protocol!ServeInt(Kind, level, int)
        PROVE  Protocol!Next
    <3>1. Protocol!Boundary(Kind, level, int)
      BY <2>a, EffectMaps DEF Protocol!Boundary, Running
    <3> HIDE DEF level, int
    <3> QED BY <2>0, <3>1, EffectMaps, BoundaryMaps
  <2>1. nmi_previous' = level
    BY <1>7 DEF EndPlain, AcceptNmi, AcceptInt, EndInstruction, Completes, LastStep,
                Executes, Runs, Edge
  <2>2. NmiPending(i) <=> Protocol!Requested(level)
    BY DEF NmiPending, Protocol!Requested
  <2>3. CASE EndPlain(i)
    <3>1. /\ iff1' = Iff1After /\ iff2' = Iff2After /\ nmi_latched' = NmiPending(i)
          /\ instr' = NoInstr /\ ~TakesNmi(i) /\ ~TakesInt(i)
      BY <2>3 DEF EndPlain, BackToFetch, MoveTo
    <3>2. Protocol!Continue(Kind, level, int)
      BY <2>1, <2>2, <3>1, EffectMaps, RunningType
         DEF Protocol!Continue, TakesNmi, TakesInt, Running, NoInstr, InterruptSequences,
             NmiPending, Protocol!Requested
    <3> QED BY <3>2, <2>a
  <2>4. CASE AcceptNmi(i)
    <3>1. /\ iff1' = FALSE /\ iff2' = Iff1After /\ nmi_latched' = FALSE
          /\ instr' = "nmi" /\ TakesNmi(i)
      BY <2>4 DEF AcceptNmi, Begin, MoveTo
    <3>2. Protocol!ServeNmi(Kind, level)
      BY <2>1, <2>2, <3>1, EffectMaps DEF Protocol!ServeNmi, TakesNmi
    <3> QED BY <3>2, <2>a
  <2>5. CASE AcceptInt(i)
    <3>1. /\ iff1' = FALSE /\ iff2' = FALSE /\ nmi_latched' = NmiPending(i)
          /\ instr' \in {"interrupt", "interrupt_mode2"} /\ TakesInt(i)
      BY <2>5 DEF AcceptInt, Begin, MoveTo
    <3>2. Protocol!ServeInt(Kind, level, int)
      BY <2>1, <2>2, <3>1, EffectMaps, RunningType
         DEF Protocol!ServeInt, TakesInt, Running, NmiPending, Protocol!Requested
    <3> QED BY <3>2, <2>a
  <2> QED BY <1>7, <2>3, <2>4, <2>5
<1> QED BY <1>1, <1>2, <1>3, <1>4, <1>5, <1>6, <1>7 DEF Next, Advance

(* The engine implements the interrupt protocol, for every host, memory and  *)
(* size of the reset counter.                                                *)
THEOREM EngineImplementsProtocol == Spec => ImplementsProtocol
<1>1. Init => Protocol!Init
  BY DEF Init, Protocol!Init, NoInstr
<1> QED BY <1>1, ProtocolStep, Inv2Holds, PTL DEF Spec, ImplementsProtocol, Protocol!Spec

-----------------------------------------------------------------------------
(***************************************************************************)
(* Three properties that hold of some hosts only.  Their theorems name the *)
(* hosts.  None of the conditions can be dropped: TLC finds violations of   *)
(* BusakWhileReleased and of PhaseKept with BUSRQ and RESET among the       *)
(* inputs, and of HaltedOnlyFetches with MemoryStable FALSE.               *)
(***************************************************************************)

(* A host that never asserts RESET sees BUSAK whenever it has the bus.      *)
THEOREM BusakWithoutReset ==
  ASSUME "RESET" \notin InputPins
  PROVE  Spec => []BusakWhileReleased
<1>1. Init => BusakWhileReleased
  BY DEF Init, BusakWhileReleased
<1>2. BusakWhileReleased /\ [Next]_vars => BusakWhileReleased'
  <2> SUFFICES ASSUME BusakWhileReleased, [Next]_vars PROVE BusakWhileReleased'
    OBVIOUS
  <2>1. CASE UNCHANGED vars
    BY <2>1 DEF vars, bus, BusakWhileReleased
  <2>2. CASE HostReset
    BY <2>2 DEF HostReset, BusakWhileReleased
  <2>3. ASSUME NEW i \in SUBSET InputPins, Gated(i) PROVE BusakWhileReleased'
    BY <2>3 DEF Gated, bus, BusakWhileReleased
  <2>4. ASSUME NEW i \in SUBSET InputPins, ResetPending(i) \/ ResetTaken(i)
        PROVE  BusakWhileReleased'
    BY <2>4 DEF ResetPending, ResetTaken
  <2>5. ASSUME NEW i \in SUBSET InputPins, BusHeld(i) PROVE BusakWhileReleased'
    BY <2>5 DEF BusHeld, BusakWhileReleased
  <2>6. ASSUME NEW i \in SUBSET InputPins, StretchCycle(i) \/ WithinCycle(i)
        PROVE  BusakWhileReleased'
    BY <2>6 DEF StretchCycle, WithinCycle, Executes, bus, BusakWhileReleased
  <2>7. ASSUME NEW pins, Grant(pins) PROVE BusakWhileReleased'
    BY <2>7 DEF Grant, BusakWhileReleased
  <2> QED BY <2>1, <2>2, <2>3, <2>4, <2>5, <2>6, <2>7
          DEF Next, Advance, BeginInstruction, NextCycle, EndPrefix, EndPlain, AcceptNmi,
              AcceptInt
<1> QED BY <1>1, <1>2, PTL DEF Spec

(* Every machine cycle has an even number of steps. *)
LEMMA CountEven ==
  ASSUME NEW s \in MachineCycles
  PROVE  Count[s] % 2 = 0
BY DEF Count, MachineCycles, AckCycles, BusCycles, IdleCycles

(* Without bus requests and resets, steps keep the phase of the clock: the  *)
(* tables have an even number of steps, and WAIT goes back by one.          *)
THEOREM PhaseWithoutHolds ==
  ASSUME InputPins \intersect {"RESET", "BUSRQ"} = {}
  PROVE  Spec => []PhaseKept
<1> DEFINE NoHold == ~bus_released /\ ~bus_request_latched
           Inv    == PhaseKept /\ NoHold
<1>1. Init => Inv
  BY DEF Init, PhaseKept
<1>2. Inv1 /\ Inv2 /\ Inv /\ [Next]_vars => Inv'
  <2> SUFFICES ASSUME Inv1, Inv2, PhaseKept, NoHold, [Next]_vars
               PROVE  PhaseKept' /\ NoHold'
    OBVIOUS
  <2>0. /\ step \in Nat /\ clk \in {0, 1} /\ Count[seq] \in 2 .. 14
        /\ Count[seq] % 2 = 0 /\ step < Count[seq]
    BY CountType, CountEven DEF Inv1, Inv2, CursorType, BusType
  <2>1. CASE UNCHANGED vars
    BY <2>1 DEF vars, cursor, bus, PhaseKept
  <2>2. CASE HostReset
    BY <2>2 DEF HostReset, MoveTo, PhaseKept
  <2>3. ASSUME NEW i \in SUBSET InputPins, Gated(i) PROVE PhaseKept' /\ NoHold'
    BY <2>3 DEF Gated, cursor, bus, PhaseKept
  <2>4. ASSUME NEW i \in SUBSET InputPins,
               ResetPending(i) \/ ResetTaken(i) \/ BusHeld(i)
        PROVE  FALSE
    BY <2>4 DEF ResetPending, ResetTaken, BusHeld
  <2>5. ASSUME NEW i \in SUBSET InputPins, StretchCycle(i)
        PROVE  PhaseKept' /\ NoHold'
    <3>1. step' = step - 1 /\ clk' = 1 - clk /\ step >= 3 /\ UNCHANGED bus
      BY <2>5, CountType
         DEF StretchCycle, Stretched, Executes, Runs, Edge, Inv1, CursorType, NoWait
    <3> QED BY <2>0, <3>1 DEF PhaseKept, bus
  <2>6. ASSUME NEW i \in SUBSET InputPins, WithinCycle(i)
        PROVE  PhaseKept' /\ NoHold'
    <3>1. step' = step + 1 /\ clk' = 1 - clk
      BY <2>6 DEF WithinCycle, Executes, Runs, Edge
    <3>2. "BUSRQ" \notin i
      OBVIOUS
    <3>3. NoHold'
      BY <2>6, <3>2 DEF WithinCycle
    <3> QED BY <2>0, <3>1, <3>3 DEF PhaseKept
  <2>7. ASSUME NEW i, NEW pins, LastStep(i), step' = 0, Grant(pins)
        PROVE  PhaseKept' /\ NoHold'
    <3>1. clk' = 1 - clk /\ step + 1 = Count[seq] /\ NoHold'
      BY <2>0, <2>7 DEF LastStep, Executes, Runs, Edge, Grant
    <3>2. clk = 1
      BY <2>0, <3>1 DEF PhaseKept
    <3> QED BY <2>7, <3>1, <3>2 DEF PhaseKept
  <2>8. ASSUME NEW i \in SUBSET InputPins,
               BeginInstruction(i) \/ NextCycle(i) \/ EndPrefix(i) \/ EndPlain(i)
                 \/ AcceptNmi(i) \/ AcceptInt(i)
        PROVE  PhaseKept' /\ NoHold'
    <3>1. /\ LastStep(i) /\ step' = 0
          /\ Grant(Driven) \/ Grant(PinsAfter) \/ Grant(PinsAwake)
      BY <2>8 DEF BeginInstruction, NextCycle, EndPrefix, EndPlain, AcceptNmi, AcceptInt,
                  EndInstruction, Completes, Begin, BackToFetch, MoveTo
    <3> QED BY <2>7, <3>1
  <2> QED BY <2>1, <2>2, <2>3, <2>4, <2>5, <2>6, <2>8 DEF Next, Advance
<1> QED BY <1>1, <1>2, Inv2Holds, PTL DEF Spec

-----------------------------------------------------------------------------
(* A halted core holds no prefix, and from its T3 on the byte in its latch   *)
(* is the HALT it keeps fetching.                                            *)
HaltLoop == halted => /\ Fetching /\ prefix = 0 /\ index = 0
                      /\ step > 4 => opcode = HALT_OPCODE

(* The latch is loaded by the fifth step of a fetch and by no other.         *)
LEMMA LatchStep ==
  ASSUME NEW k \in 0 .. 7
  PROVE  Steps["m1_fetch"][k + 1] = "m1_t3_rise" <=> k = 4
BY StepsOf DEF m1_fetch_steps

(* HALT is decoded from its opcode and runs no bus cycle. *)
LEMMA HaltDecodes ==
  Decode(HALT_OPCODE, 0, 0) = "halt" /\ CyclesOf["halt"] = << >>
<1>1. X(118) = 1 /\ Y(118) = 6 /\ Z(118) = 6
  BY DEF X, Y, Z
<1>2. Decode(HALT_OPCODE, 0, 0) = DecodeBase(118)
  BY DEF Decode, HALT_OPCODE, CB, ED
<1>3. DecodeBase(118) = "halt"
  BY <1>1 DEF DecodeBase, DecodeX1
<1> QED BY <1>2, <1>3, GroupCycles DEF Instrs, FetchOnly

(* If nobody changes the HALT in memory, a halted core does nothing but      *)
(* fetch: no bus cycle and no acknowledge ever runs with HALT asserted.      *)
THEOREM HaltedFetchesOnly ==
  ASSUME MemoryStable
  PROVE  Spec => []HaltedOnlyFetches
<1>1. Init => HaltLoop
  BY DEF Init, HaltLoop
<1>2. Inv1 /\ Inv2 /\ HaltLoop /\ [Next]_vars => HaltLoop'
  <2> SUFFICES ASSUME Inv1, Inv2, HaltLoop, [Next]_vars, halted' PROVE HaltLoop'
    BY DEF HaltLoop
  <2>1. CASE UNCHANGED vars
    BY <2>1 DEF vars, cursor, code, HaltLoop, Fetching
  <2>2. ~HostReset /\ \A i : ~ResetTaken(i) /\ ~AcceptNmi(i) /\ ~AcceptInt(i)
    BY DEF HostReset, ResetTaken, AcceptNmi, AcceptInt
  <2>3. ASSUME NEW i \in SUBSET InputPins, Gated(i) \/ ResetPending(i) \/ BusHeld(i)
        PROVE  HaltLoop'
    BY <2>3 DEF Gated, ResetPending, BusHeld, cursor, code, HaltLoop, Fetching
  <2>4. ASSUME NEW i \in SUBSET InputPins, StretchCycle(i)
        PROVE  HaltLoop'
    <3>1. /\ step' = step - 1 /\ seq' = seq /\ halted' = halted
          /\ opcode' = opcode /\ prefix' = prefix /\ index' = index
      BY <2>4 DEF StretchCycle, code
    <3>2. step \in Nat
      BY CountType DEF Inv1, CursorType
    <3> QED BY <3>1, <3>2 DEF HaltLoop, Fetching
  <2>5. ASSUME NEW i \in SUBSET InputPins, WithinCycle(i)
        PROVE  HaltLoop'
    <3>1. /\ halted /\ seq = "m1_fetch" /\ prefix = 0 /\ index = 0
          /\ step > 4 => opcode = HALT_OPCODE
      BY <2>5 DEF WithinCycle, HaltLoop, Fetching
    <3>2. /\ step' = step + 1 /\ seq' = seq /\ prefix' = prefix /\ index' = index
          /\ opcode' \in IF Steps[seq][step + 1] = "m1_t3_rise" THEN FetchedBytes
                          ELSE {opcode}
      BY <2>5 DEF WithinCycle
    <3>3. step \in 0 .. 7
      BY <3>1 DEF Inv1, CursorType, Count, MachineCycles
    <3>4. step = 4 => opcode' = HALT_OPCODE
      BY <3>1, <3>2, <3>3, LatchStep DEF FetchedBytes
    <3>5. step # 4 => opcode' = opcode
      BY <3>1, <3>2, <3>3, LatchStep
    <3> QED BY <3>1, <3>2, <3>3, <3>4, <3>5 DEF HaltLoop, Fetching
  <2>6. ASSUME NEW i, LastStep(i), halted
        PROVE  Fetching /\ Current = "halt" /\ CyclesOf[Current] = << >>
    <3>1. Fetching /\ prefix = 0 /\ index = 0 /\ (step > 4 => opcode = HALT_OPCODE)
      BY <2>6 DEF HaltLoop
    <3>2. step > 4
      BY <2>6, <3>1 DEF LastStep, Fetching, Inv1, CursorType, Count, MachineCycles
    <3> QED BY <3>1, <3>2, HaltDecodes DEF Current
  <2>7. ASSUME NEW i \in SUBSET InputPins,
               BeginInstruction(i) \/ NextCycle(i) \/ EndPrefix(i)
        PROVE  FALSE
    <3>1. LastStep(i) /\ halted
      BY <2>7 DEF BeginInstruction, NextCycle, EndPrefix, Completes
    <3> QED BY <2>6, <2>7, <3>1 DEF BeginInstruction, NextCycle, EndPrefix
  <2>8. ASSUME NEW i \in SUBSET InputPins, EndPlain(i)
        PROVE  HaltLoop'
    BY <2>8 DEF EndPlain, EndInstruction, BackToFetch, MoveTo, HaltLoop, Fetching
  <2> QED BY <2>1, <2>2, <2>3, <2>4, <2>5, <2>7, <2>8 DEF Next, Advance
<1>3. HaltLoop => HaltedOnlyFetches
  BY DEF HaltLoop, HaltedOnlyFetches
<1> QED BY <1>1, <1>2, <1>3, Inv2Holds, PTL DEF Spec

-----------------------------------------------------------------------------
(***************************************************************************)
(* A snapshot is exact wherever it is complete (module Z80Snapshot): the   *)
(* loader, which decodes the opcode again, finds the instruction that was  *)
(* in progress.                                                            *)
(***************************************************************************)

(* Outside an acknowledge and the tail of DD CB d op, the instruction in     *)
(* progress is still the one that the latched opcode decodes to.             *)
Redecodes ==
  \/ instr \in InterruptSequences \union {NoInstr}
  \/ instr = "index_cb" /\ cycle >= 2
  \/ instr = Rebuilt

(* Only a fetch loads the opcode latch. *)
LEMMA OnlyFetchLatches ==
  ASSUME NEW s \in MachineCycles, NEW k \in 0 .. Count[s] - 1,
         Steps[s][k + 1] = "m1_t3_rise"
  PROVE  s = "m1_fetch"
<1>1. \A c \in {"nmi_ack", "int_ack"} : s # c
  BY StepsOf, CountType DEF nmi_ack_steps, int_ack_steps, Count, MachineCycles,
     AckCycles, BusCycles, IdleCycles
<1>2. \A c \in {"mem_read", "mem_write", "io_read", "io_write"} : s # c
  BY StepsOf, CountType DEF mem_read_steps, mem_write_steps, io_read_steps,
     io_write_steps, Count, MachineCycles, AckCycles, BusCycles, IdleCycles
<1>3. s \notin IdleCycles
  <2> SUFFICES ASSUME s \in IdleCycles PROVE FALSE
    OBVIOUS
  <2>1. k + 1 \in 1 .. 14
    BY CountType
  <2> QED BY <2>1, StepsOf DEF idle_steps
<1> QED BY <1>1, <1>2, <1>3 DEF MachineCycles, AckCycles, BusCycles

(* What the engine does keeps the opcode that an instruction was decoded     *)
(* from until the instruction is over.                                       *)
LEMMA RedecodesStep ==
  Inv1 /\ Redecodes /\ [Next]_vars => Redecodes'
<1> SUFFICES ASSUME Inv1, Redecodes, [Next]_vars PROVE Redecodes'
  OBVIOUS
<1> USE DEF Redecodes
<1>a. ASSUME UNCHANGED <<instr, cycle, opcode, prefix, index>> PROVE Redecodes'
  BY <1>a DEF Rebuilt
<1>1. CASE UNCHANGED vars
  BY <1>1, <1>a DEF vars, cursor, code
<1>2. CASE HostReset
  BY <1>2 DEF HostReset, MoveTo
<1>3. ASSUME NEW i \in SUBSET InputPins,
             Gated(i) \/ ResetPending(i) \/ BusHeld(i) \/ StretchCycle(i)
      PROVE  Redecodes'
  BY <1>3, <1>a DEF Gated, ResetPending, BusHeld, StretchCycle, cursor, code
<1>4. ASSUME NEW i \in SUBSET InputPins, ResetTaken(i)
      PROVE  Redecodes'
  BY <1>4 DEF ResetTaken, MoveTo
<1>5. ASSUME NEW i \in SUBSET InputPins, WithinCycle(i)
      PROVE  Redecodes'
  <2>1. CASE Fetching
    BY <1>5, <2>1 DEF WithinCycle, Inv1, CursorInInstruction
  <2>2. CASE ~Fetching
    <3>1. Steps[seq][step + 1] # "m1_t3_rise"
      BY <2>2, OnlyFetchLatches DEF Inv1, CursorType, Fetching
    <3> QED BY <1>5, <1>a, <3>1 DEF WithinCycle
  <2> QED BY <2>1, <2>2
<1>6. ASSUME NEW i \in SUBSET InputPins, BeginInstruction(i)
      PROVE  Redecodes'
  BY <1>6 DEF BeginInstruction, Begin, MoveTo, code, Current, Rebuilt
<1>7. ASSUME NEW i \in SUBSET InputPins, NextCycle(i)
      PROVE  Redecodes'
  <2>1. /\ instr' = instr /\ cycle' = cycle + 1 /\ cycle \in Nat
        /\ prefix' = prefix /\ index' = index
        /\ opcode' \in ByteAfterExit
    BY <1>7 DEF NextCycle, MoveTo, Inv1, CursorType
  <2>2. CASE instr = "index_cb" /\ cycle >= 1
    BY <2>1, <2>2
  <2>3. CASE ~(instr = "index_cb" /\ cycle >= 1)
    <3>1. opcode' = opcode
      BY <2>1, <2>3 DEF ByteAfterExit
    <3> QED BY <2>1, <2>3, <3>1 DEF Rebuilt
  <2> QED BY <2>2, <2>3
<1>8. ASSUME NEW i \in SUBSET InputPins, EndPrefix(i) \/ EndPlain(i)
      PROVE  Redecodes'
  BY <1>8 DEF EndPrefix, EndPlain, BackToFetch, MoveTo
<1>9. ASSUME NEW i \in SUBSET InputPins, AcceptNmi(i) \/ AcceptInt(i)
      PROVE  Redecodes'
  BY <1>9 DEF AcceptNmi, AcceptInt, Begin, MoveTo, InterruptSequences
<1> QED BY <1>1, <1>2, <1>3, <1>4, <1>5, <1>6, <1>7, <1>8, <1>9 DEF Next, Advance

(* What a load finds of a complete snapshot. *)
LEMMA LoadsWhatWasSaved ==
  ASSUME Inv1, Redecodes, SnapshotComplete, Restore
  PROVE  /\ seq' = seq /\ step' = step /\ instr' = instr
         /\ ~Fetching => cycle' = cycle /\ cycle_limit' = cycle_limit
         /\ Fetching => cycle' = 0 /\ cycle_limit' = 0
<1>1. CASE Fetching
  <2>1. ~Resumes /\ LoadedSeq = seq /\ instr = NoInstr
    BY <1>1 DEF Resumes, LoadedSeq, Fetching, Inv1, CursorInInstruction
  <2>2. step < Count[seq]
    BY CountType DEF Inv1, CursorType
  <2> QED BY <1>1, <2>1, <2>2 DEF Restore
<1>2. CASE ~Fetching
  <2>1. instr # NoInstr /\ instr = Rebuilt
    BY <1>2 DEF Redecodes, SnapshotComplete, Inv1, CursorInInstruction
  <2>2. /\ Resumes /\ LoadedSeq = CyclesOf[instr][cycle + 1]
        /\ LoadedSeq = seq
    BY <1>2, <2>1 DEF Resumes, LoadedSeq, Inv1, CursorInInstruction
  <2>3. step < Count[seq]
    BY CountType DEF Inv1, CursorType
  <2> QED BY <1>2, <2>1, <2>2, <2>3 DEF Restore
<1> QED BY <1>1, <1>2

(* A snapshot taken where it is complete is exact, for every program and    *)
(* every host, however often the host saves and loads.                      *)
THEOREM CompleteSnapshotIsExact == CarefulSpec => RestoreExact
<1> DEFINE Step == Next \/ (SnapshotComplete /\ Restore)
           Exact == Restore /\ SnapshotComplete
                      => /\ UNCHANGED <<clk, seq, step, instr, code, irq, halted, pv,
                                        nmi_previous, nmi_latched, reset_held, bus,
                                        outputs>>
                         /\ ~Fetching => UNCHANGED <<cycle, cycle_limit>>
<1>1. Init => Inv1 /\ Inv2 /\ Redecodes
  BY InitInv1, InitInv2 DEF Redecodes, Init
<1>2. Inv1 /\ Inv2 /\ Redecodes /\ [Step]_vars => Inv1' /\ Inv2' /\ Redecodes'
  <2>1. ASSUME Inv1, Inv2, Redecodes, SnapshotComplete, Restore
        PROVE  Inv1' /\ Inv2' /\ Redecodes'
    <3>1. UNCHANGED <<clk, seq, step, instr, opcode, prefix, index, im, iff1, iff2,
                      int_inhibit, halted, pv, nmi_latched, bus_released, outputs,
                      inputs>>
      BY <2>1, LoadsWhatWasSaved DEF Restore, code, irq
    <3>2. nmi_previous' = FALSE /\ reset_held' = 0 /\ bus_request_latched' = FALSE
      BY <2>1 DEF Restore
    <3>3. \/ Fetching /\ cycle' = 0 /\ cycle_limit' = 0
          \/ ~Fetching /\ UNCHANGED <<cycle, cycle_limit>>
      BY <2>1, LoadsWhatWasSaved
    <3>4. Fetching <=> instr = NoInstr
      BY <2>1 DEF Inv1, CursorInInstruction
    <3>5. Inv1'
      BY <2>1, <3>1, <3>3, <3>4 DEF Inv1, CursorType, CodeType, CursorInInstruction,
                                    Fetching
    <3>6. Redecodes'
      BY <2>1, <3>1, <3>3, <3>4 DEF Redecodes, Rebuilt
    <3>7. IrqType'
      BY <2>1, <3>1, <3>2 DEF Inv2, IrqType
    <3>8. BusType'
      <4>1. 0 \in 0 .. HeldMax
        BY ResetAssumption
      <4> QED BY <2>1, <3>1, <3>2, <4>1 DEF Inv2, BusType
    <3>9. Inv2'
      BY <2>1, <3>1, <3>7, <3>8 DEF Inv2, NotInhibited, IffOrder, HaltPin,
                                    PrefixInForce, ReleasedBetweenCycles
    <3> QED BY <3>5, <3>6, <3>9
  <2> QED BY <2>1, Inv1Step, Inv2Step, RedecodesStep
<1>3. Inv1 /\ Inv2 /\ Redecodes /\ [Step]_vars => [Exact]_vars
  <2> SUFFICES ASSUME Inv1, Inv2, Redecodes, Restore, SnapshotComplete
               PROVE  Exact
    OBVIOUS
  <2>1. /\ UNCHANGED <<clk, code, irq, halted, pv, nmi_latched, bus_released, outputs>>
        /\ nmi_previous' = FALSE /\ reset_held' = 0 /\ bus_request_latched' = FALSE
    BY DEF Restore
  <2>2. nmi_previous = FALSE /\ reset_held = 0 /\ bus_request_latched = FALSE
    BY DEF SnapshotComplete, Inv2, IrqType, BusType
  <2>3. UNCHANGED bus
    BY <2>1, <2>2 DEF bus
  <2> QED BY <2>1, <2>2, <2>3, LoadsWhatWasSaved
<1> QED BY <1>1, <1>2, <1>3, PTL DEF CarefulSpec, RestoreExact
=============================================================================
