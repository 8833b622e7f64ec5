--------------------------- MODULE Z80MonitorProofs ---------------------------
(***************************************************************************)
(* Theorems about the monitor (module Z80Monitor), for every core, every   *)
(* clock and frame, and every size of the ring and of the counter.         *)
(*                                                                         *)
(* The monitor is a host of the engine, so what is proved of the engine    *)
(* (module Z80EngineProofs) holds in the window too.  On top of it: the    *)
(* ring holds the last edges (Inv4), and an instruction step ends on T1 of *)
(* what comes next (Inv5).                                                 *)
(***************************************************************************)
EXTENDS Z80Monitor, Z80EngineProofs

-----------------------------------------------------------------------------
(***************************************************************************)
(* Counting round a ring and round the edge counter.                       *)
(***************************************************************************)

(* One more, modulo the size. *)
LEMMA Upwards ==
  ASSUME NEW K \in Nat \ {0}, NEW a \in 0 .. K - 1
  PROVE  (a + 1) % K = IF a + 1 = K THEN 0 ELSE a + 1
OBVIOUS

(* Some less, modulo the size. *)
LEMMA Backwards ==
  ASSUME NEW K \in Nat \ {0}, NEW a \in 0 .. K - 1, NEW b \in 0 .. K
  PROVE  /\ (a - b) % K = IF b <= a THEN a - b ELSE a - b + K
         /\ (a + K - b) % K = IF b <= a THEN a - b ELSE a - b + K
OBVIOUS

(* A counter of even size keeps the parity of what it counts. *)
LEMMA ParityKept ==
  ASSUME NEW K \in Nat \ {0}, K % 2 = 0, NEW a \in 0 .. K - 1
  PROVE  ((a + 1) % K) % 2 = 1 - (a % 2)
OBVIOUS

-----------------------------------------------------------------------------
(***************************************************************************)
(* The monitor drives the engine as any host may: by edges with the pins   *)
(* held, and by resets.                                                    *)
(***************************************************************************)
(* The clock the window shows is the one the core is on, and an edge of it  *)
(* is an edge of the core's counter: no edge is gated.                     *)
ClockKept == /\ clk \in {0, 1} /\ clk_ = clk
             /\ edges \in 0 .. CounterSize - 1 /\ edges % 2 = clk_
             /\ hold \in SUBSET InputPins

(* Every way to advance moves the clock. *)
LEMMA AdvanceMovesClock ==
  ASSUME NEW i, Advance(i)
  PROVE  clk' = 1 - clk
BY DEF Advance, ResetPending, ResetTaken, BusHeld, StretchCycle, WithinCycle, BeginInstruction,
       NextCycle, EndPrefix, EndPlain, AcceptNmi, AcceptInt, EndInstruction, Completes,
       LastStep, Executes, Runs, Edge

(* An edge of the host is an edge of the core. *)
LEMMA EdgeAdvances ==
  ASSUME ClockKept, edge
  PROVE  Advance(hold) /\ edges' = (edges + 1) % CounterSize /\ ClockKept'
<1>1. clk_' = 1 - clk /\ clk_' # clk
  BY DEF edge, ClockKept
<1>2. Advance(hold) /\ edges' = (edges + 1) % CounterSize
  BY <1>1 DEF edge, Tick, Inputs
<1>3. clk' = 1 - clk
  BY <1>2, AdvanceMovesClock
<1>4. edges' \in 0 .. CounterSize - 1 /\ edges' % 2 = 1 - (edges % 2)
  <2>1. CounterSize \in Nat \ {0} /\ CounterSize % 2 = 0 /\ edges \in 0 .. CounterSize - 1
    BY MonitorAssumption DEF ClockKept
  <2>2. ((edges + 1) % CounterSize) % 2 = 1 - (edges % 2)
    BY ONLY <2>1, ParityKept
  <2>3. (edges + 1) % CounterSize \in 0 .. CounterSize - 1
    BY ONLY <2>1, Upwards
  <2> QED BY <1>2, <2>2, <2>3
<1> QED BY <1>1, <1>2, <1>3, <1>4 DEF ClockKept, edge

(* What a step of the monitor does to the core. *)
LEMMA MonitorStep ==
  ASSUME ClockKept, [MonitorNext]_all
  PROVE  /\ ClockKept'
         /\ \/ UNCHANGED <<vars, edges, clk_>>
            \/ HostReset /\ edges' = 0 /\ clk_' = 0
            \/ edge
         /\ [Next]_vars
<1>1. CASE UNCHANGED all
  BY <1>1 DEF all, machine, vars, ClockKept
<1>2. CASE FreeEdge \/ stepEdges \/ stepInstruction
  <2>1. edge
    BY <1>2 DEF FreeEdge, stepEdges, stepInstruction
  <2> QED BY <2>1, EdgeAdvances DEF Next, ClockKept
<1>3. CASE reset
  BY <1>3, MonitorAssumption DEF reset, HostReset, Next, ClockKept
<1>4. CASE HoldPin
  BY <1>4 DEF HoldPin, machine, vars, ClockKept
<1>5. CASE runFreely \/ Measure \/ LetAlone \/ RunOrStop \/ ChangeClock \/ StepByHand
             \/ StepAnInstruction
  <2>1. UNCHANGED <<machine, hold>>
    BY <1>5 DEF runFreely, StandStill, RunFlatOut, RunOnTime, RunAtCeiling, OnlyTheRun,
         Measure, LetAlone, RunOrStop, ChangeClock, StepByHand, StepAnInstruction
  <2> QED BY <2>1 DEF machine, vars, ClockKept
<1> QED BY <1>1, <1>2, <1>3, <1>4, <1>5 DEF MonitorNext

LEMMA MonitorStarts ==
  MonitorInit => ClockKept
BY MonitorAssumption DEF MonitorInit, Init, ClockKept

(* The monitor is a host of the engine: what is proved of every host, its   *)
(* cursor, its pins, its flip-flops and its waveform, is true in the window *)
(* (monitor.cpp drives the core by z80_tick and z80_reset alone).          *)
THEOREM MonitorHostsEngine == MonitorSpec => Spec
<1>1. MonitorInit => Init
  BY DEF MonitorInit
<1>2. ClockKept /\ [MonitorNext]_all => ClockKept' /\ [Next]_vars
  BY MonitorStep
<1> QED BY <1>1, <1>2, MonitorStarts, PTL DEF MonitorSpec, Spec

-----------------------------------------------------------------------------
(***************************************************************************)
(* The ring.  Kept(j) is the entry of j edges before the last.             *)
(***************************************************************************)
Slot(j) == IF j < traceHead_ THEN traceHead_ - 1 - j ELSE traceHead_ - 1 - j + kTraceLength
Kept(j) == trace_[Slot(j)]
Ago(j)  == IF j <= edges THEN edges - j ELSE edges - j + CounterSize

RingType == /\ traceHead_ \in 0 .. kTraceLength - 1
            /\ traceCount_ \in 0 .. kTraceLength
            /\ DOMAIN trace_ = 0 .. kTraceLength - 1

RingHoldsLastEdges ==
  \A j \in 0 .. traceCount_ - 1 : Kept(j) = [edge |-> Ago(j), clk |-> Ago(j) % 2]

Inv4 == ClockKept /\ RingType /\ RingHoldsLastEdges

(* What an edge records is the newest entry, and every older one is one     *)
(* edge older than it was.                                                 *)
LEMMA RecordStep ==
  ASSUME Inv4, edge
  PROVE  RingType' /\ RingHoldsLastEdges'
<1>0. /\ kTraceLength \in Nat \ {0} /\ CounterSize \in Nat \ {0}
      /\ kTraceLength < CounterSize
  BY MonitorAssumption
<1>1. /\ edges' = IF edges + 1 = CounterSize THEN 0 ELSE edges + 1
      /\ clk_' = edges' % 2
      /\ edges \in 0 .. CounterSize - 1
  BY <1>0, EdgeAdvances, Upwards DEF Inv4, ClockKept
<1>2. /\ trace_' = [trace_ EXCEPT ![traceHead_] = [edge |-> edges', clk |-> clk_']]
      /\ traceHead_' = IF traceHead_ + 1 = kTraceLength THEN 0 ELSE traceHead_ + 1
      /\ traceCount_' = Smaller(traceCount_ + 1, kTraceLength)
  BY <1>0, Upwards DEF Inv4, RingType, edge, Recorded
<1>3. RingType'
  BY <1>0, <1>2 DEF Inv4, RingType, Smaller
<1>4. ASSUME NEW j \in 0 .. traceCount_' - 1
      PROVE  Kept(j)' = [edge |-> Ago(j)', clk |-> Ago(j)' % 2]
  <2>1. CASE j = 0
    <3>1. Slot(j)' = traceHead_
      BY <1>0, <1>2, <2>1 DEF Inv4, RingType, Slot
    <3>2. Kept(j)' = [edge |-> edges', clk |-> clk_']
      BY <1>2, <3>1 DEF Kept, Inv4, RingType
    <3>3. Ago(j)' = edges'
      BY <1>0, <1>1, <2>1 DEF Ago
    <3> QED BY <1>1, <3>2, <3>3
  <2>2. CASE j # 0
    <3>1. j - 1 \in 0 .. traceCount_ - 1 /\ j < kTraceLength
      BY <1>0, <1>2, <2>2 DEF Inv4, RingType, Smaller
    <3>2. Slot(j)' = Slot(j - 1) /\ Slot(j - 1) # traceHead_
      BY <1>0, <1>2, <3>1 DEF Inv4, RingType, Slot
    <3>3. Kept(j)' = Kept(j - 1)
      BY <1>2, <3>2 DEF Kept, Inv4, RingType
    <3>4. Ago(j)' = Ago(j - 1)
      BY <1>0, <1>1, <3>1 DEF Ago
    <3> QED BY <3>1, <3>3, <3>4 DEF Inv4, RingHoldsLastEdges
  <2> QED BY <2>1, <2>2
<1> QED BY <1>3, <1>4 DEF RingHoldsLastEdges

(* Every step of the monitor keeps the ring. *)
LEMMA Inv4Step ==
  Inv4 /\ [MonitorNext]_all => Inv4'
<1> SUFFICES ASSUME Inv4, [MonitorNext]_all PROVE Inv4'
  OBVIOUS
<1>1. ClockKept'
  BY MonitorStep DEF Inv4
<1>2. CASE FreeEdge \/ stepEdges \/ stepInstruction
  BY <1>1, <1>2, RecordStep DEF FreeEdge, stepEdges, stepInstruction, Inv4
<1>3. CASE reset
  BY <1>1, <1>3, MonitorAssumption DEF reset, Inv4, RingType, RingHoldsLastEdges
<1>4. CASE \/ runFreely \/ Measure \/ LetAlone \/ RunOrStop \/ ChangeClock \/ HoldPin
           \/ StepByHand \/ StepAnInstruction \/ UNCHANGED all
  <2>1. UNCHANGED <<machine, scope>>
    BY <1>4 DEF runFreely, StandStill, RunFlatOut, RunOnTime, RunAtCeiling, OnlyTheRun, Measure,
       LetAlone, RunOrStop, ChangeClock, HoldPin, StepByHand, StepAnInstruction, all
  <2> QED BY <1>1, <2>1
          DEF machine, scope, Inv4, RingType, RingHoldsLastEdges, Kept, Slot, Ago
<1> QED BY <1>2, <1>3, <1>4 DEF MonitorNext

(* The waveform is the ring, read from the oldest entry that is shown. *)
LEMMA RingIsShown ==
  ASSUME Inv4
  PROVE  WaveformShowsLastEdges
<1>0. /\ kTraceLength \in Nat \ {0} /\ CounterSize \in Nat \ {0}
      /\ kTraceLength < CounterSize /\ Visible \in 1 .. kTraceLength
  BY MonitorAssumption
<1>1. Shown \in 0 .. traceCount_ /\ Shown <= kTraceLength
  BY <1>0 DEF Shown, Smaller, Inv4, RingType
<1> SUFFICES ASSUME NEW k \in 0 .. Shown - 1
             PROVE  /\ Drawn_entry(k).edge = (edges - (Shown - 1 - k)) % CounterSize
                    /\ Drawn_entry(k).clk = Drawn_entry(k).edge % 2
  BY DEF WaveformShowsLastEdges
<1> DEFINE j == Shown - 1 - k
<1>2. j \in 0 .. traceCount_ - 1 /\ j < kTraceLength /\ j < CounterSize
  BY <1>0, <1>1 DEF Inv4, RingType
<1>3. (traceHead_ + kTraceLength - Shown + k) % kTraceLength = Slot(j)
  <2>1. j + 1 \in 0 .. kTraceLength /\ traceHead_ \in 0 .. kTraceLength - 1
    BY <1>0, <1>1, <1>2 DEF Inv4, RingType
  <2>2. traceHead_ + kTraceLength - Shown + k = traceHead_ + kTraceLength - (j + 1)
    BY <1>0, <1>1, <2>1
  <2>3. (traceHead_ + kTraceLength - (j + 1)) % kTraceLength
          = IF j + 1 <= traceHead_ THEN traceHead_ - (j + 1)
            ELSE traceHead_ - (j + 1) + kTraceLength
    BY <1>0, <2>1, Backwards
  <2> QED BY <1>0, <1>1, <2>1, <2>2, <2>3 DEF Slot
<1>4. (edges - j) % CounterSize = Ago(j)
  BY <1>0, <1>2, Backwards DEF Ago, Inv4, ClockKept
<1>5. Kept(j) = [edge |-> Ago(j), clk |-> Ago(j) % 2]
  BY <1>2 DEF Inv4, RingHoldsLastEdges
<1>6. Drawn_entry(k) = Kept(j)
  BY <1>3 DEF Drawn_entry, Kept
<1> QED BY <1>4, <1>5, <1>6

(* The waveform shows the last edges of the core, none missing and none from *)
(* before a reset: whatever the sizes of the ring, of the window and of the  *)
(* counter, and however often both have come round (drawWaveform; edge).    *)
(* An entry is told by the number of its edge and the level of the clock on *)
(* it, which stand for the pins that edge() stores: two edges of one level  *)
(* differ in their number, whatever their pins are.                         *)
THEOREM WaveformIsTheLastEdges == MonitorSpec => []WaveformShowsLastEdges
<1>1. MonitorInit => Inv4
  BY MonitorStarts, MonitorAssumption
     DEF MonitorInit, Inv4, RingType, RingHoldsLastEdges
<1> QED BY <1>1, Inv4Step, RingIsShown, PTL DEF MonitorSpec

-----------------------------------------------------------------------------
(***************************************************************************)
(* Where M1 rises: on the first edge of a fetch or an acknowledge, and     *)
(* nowhere else.                                                           *)
(***************************************************************************)
M1Cycles == {"m1_fetch"} \union AckCycles

(* The steps that assert M1 are the first ones of those cycles. *)
LEMMA RaisesM1 ==
  ASSUME NEW s \in MachineCycles, NEW k \in 0 .. Count[s] - 1
  PROVE  "M1" \in Asserts(Steps[s][k + 1]) <=> s \in M1Cycles /\ k = 0
<1> USE StepsOf, CountType
    DEF Asserts, M1Cycles, Count, MachineCycles, AckCycles, BusCycles, IdleCycles
<1>1. CASE s = "m1_fetch"
  BY <1>1 DEF m1_fetch_steps
<1>2. CASE s = "nmi_ack"
  BY <1>2 DEF nmi_ack_steps
<1>3. CASE s = "int_ack"
  BY <1>3 DEF int_ack_steps
<1>4. CASE s \in BusCycles
  BY <1>4 DEF mem_read_steps, mem_write_steps, io_read_steps, io_write_steps
<1>5. CASE s \in IdleCycles
  BY <1>5 DEF idle_steps
<1> QED BY <1>1, <1>2, <1>3, <1>4, <1>5

(* An acknowledge is the first cycle of an interrupt sequence and no cycle  *)
(* of anything else.                                                       *)
LEMMA AckIsFirst ==
  ASSUME NEW n \in Instrs, NEW c \in 0 .. Len(CyclesOf[n]) - 1
  PROVE  CyclesOf[n][c + 1] \in AckCycles <=> n \in InterruptSequences /\ c = 0
<1>1. AckCycles \intersect (BusCycles \union IdleCycles) = {}
  BY DEF AckCycles, BusCycles, IdleCycles
<1>2. CASE n \in InterruptSequences
  BY <1>1, <1>2, InterruptShape
<1>3. CASE n \notin InterruptSequences
  BY <1>1, <1>3, InstructionShape
<1> QED BY <1>2, <1>3

(* Between two instructions the cursor is at the start of such a cycle. *)
LEMMA BetweenIsM1 ==
  ASSUME Inv1
  PROVE  Between <=> step = 0 /\ seq \in M1Cycles
<1>1. CASE Fetching
  BY <1>1 DEF Between, M1Cycles, Fetching
<1>2. CASE ~Fetching
  <2>1. /\ instr \in Instrs /\ cycle \in 0 .. Len(CyclesOf[instr]) - 1
        /\ seq = CyclesOf[instr][cycle + 1]
    BY <1>2 DEF Inv1, CursorType, CursorInInstruction
  <2>2. seq \in AckCycles <=> instr \in InterruptSequences /\ cycle = 0
    BY <2>1, AckIsFirst
  <2> QED BY <1>2, <2>2 DEF Between, M1Cycles, Fetching
<1> QED BY <1>1, <1>2

(* The engine's invariants, which hold in the window too. *)
EngineInv == Inv1 /\ Inv2 /\ StrobesFollowCursor

(* The step at the cursor raises M1 where M1 is down, if it is the first of *)
(* a fetch or an acknowledge.                                              *)
LEMMA DrivenM1 ==
  ASSUME Inv1, "M1" \notin outputs
  PROVE  "M1" \in Driven <=> seq \in M1Cycles /\ step = 0
<1>1. "M1" \in Driven <=> "M1" \in Asserts(Steps[seq][step + 1])
  BY DEF Driven, Drive
<1> QED BY <1>1, RaisesM1 DEF Inv1, CursorType

(* Where a machine cycle begins, M1 is down. *)
LEMMA DownAtStart ==
  ASSUME EngineInv, step = 0
  PROVE  "M1" \notin outputs
<1>1. ~Repeating
  BY CountType DEF EngineInv, Inv1, CursorType, Repeating, NoWait
<1>2. outputs \intersect Strobes = {}
  BY <1>1, LevelsAtEnds DEF EngineInv, Inv1, CursorType, StrobesFollowCursor
<1> QED BY <1>2 DEF Strobes

(* On an edge M1 rises just when the core is between two instructions, has  *)
(* the bus and is not being reset; and the cursor is then on its T1.       *)
LEMMA WhereM1Rises ==
  ASSUME EngineInv, NEW i \in SUBSET InputPins, Advance(i)
  PROVE  /\ M1Rises <=> Between /\ ~bus_released /\ "RESET" \notin i
         /\ M1Rises => step' = 1 /\ seq' = seq /\ seq \in M1Cycles
<1> USE DEF EngineInv, M1Rises
<1>0. /\ step \in 0 .. Count[seq] - 1 /\ Count[seq] \in 2 .. 14
      /\ WaitStep[seq] \in {3, 5, NoWait}
  BY CountType DEF Inv1, CursorType
<1>1. CASE ResetPending(i) \/ ResetTaken(i)
  BY <1>1 DEF ResetPending, ResetTaken
<1>2. CASE BusHeld(i)
  BY <1>2 DEF BusHeld, Runs
<1>3. CASE StretchCycle(i)
  <2>1. step # 0 /\ outputs' = Driven
    BY <1>0, <1>3 DEF StretchCycle, Stretched, NoWait
  <2> QED BY <2>1, DrivenM1, BetweenIsM1
<1>4. CASE WithinCycle(i)
  <2>1. /\ outputs' = Driven /\ step' = step + 1 /\ seq' = seq
        /\ ~bus_released /\ "RESET" \notin i
    BY <1>4 DEF WithinCycle, Executes, Runs
  <2>2. "M1" \in outputs => step # 0
    BY DownAtStart
  <2> QED BY <1>0, <2>1, <2>2, DrivenM1, BetweenIsM1
<1>5. ASSUME LastStep(i), NEW pins \in {Driven, PinsAfter, PinsAwake}, Grant(pins)
      PROVE  /\ M1Rises <=> Between /\ ~bus_released /\ "RESET" \notin i
             /\ M1Rises => step' = 1 /\ seq' = seq /\ seq \in M1Cycles
  <2>1. step # 0
    BY <1>0, <1>5 DEF LastStep
  <2>2. outputs' \intersect Strobes = {}
    BY <1>5, QuietAtEnd, QuietPins, QuietGrant
  <2> QED BY <2>1, <2>2, BetweenIsM1 DEF Strobes
<1>6. CASE BeginInstruction(i) \/ NextCycle(i) \/ EndPrefix(i)
  BY <1>5, <1>6 DEF BeginInstruction, NextCycle, EndPrefix, Completes
<1>7. CASE EndPlain(i) \/ AcceptNmi(i) \/ AcceptInt(i)
  BY <1>5, <1>7 DEF EndPlain, AcceptNmi, AcceptInt, EndInstruction, Completes
<1> QED BY <1>1, <1>2, <1>3, <1>4, <1>6, <1>7 DEF Advance

-----------------------------------------------------------------------------
(***************************************************************************)
(* How long an instruction can take.  EdgesLeft is a ceiling on the edges   *)
(* up to and with the next rise of M1, while nothing stretches a cycle,     *)
(* takes the bus or resets the core: fifteen for each cycle left, one of   *)
(* them to take back a bus that was granted before, and two of what comes   *)
(* next.                                                                   *)
(***************************************************************************)
Steady == hold \intersect {"WAIT", "BUSRQ", "RESET"} = {}

Regain == IF bus_released THEN 1 ELSE 0

ToGo == IF Between THEN 1
        ELSE IF Fetching THEN 15 * 6 + 3 + Count[seq] - step
        ELSE 15 * (cycle_limit - cycle) + 2 - step

EdgesLeft == Regain + ToGo

LEMMA EdgesLeftType ==
  ASSUME Inv1, Inv2
  PROVE  EdgesLeft \in 1 .. 100 /\ ToGo \in 1 .. 100
<1>1. /\ step \in 0 .. Count[seq] - 1 /\ Count[seq] \in 2 .. 14
      /\ bus_released => step = 0
  BY CountType DEF Inv1, Inv2, CursorType, ReleasedBetweenCycles
<1>2. CASE Fetching
  <2>1. Count[seq] = 8
    BY <1>2 DEF Fetching, Count, MachineCycles
  <2>2. Between <=> step = 0
    BY <1>2 DEF Between
  <2> QED BY <1>1, <1>2, <2>1, <2>2 DEF EdgesLeft, ToGo, Regain
<1>3. CASE ~Fetching
  <2>1. cycle_limit - cycle \in 1 .. 6
    BY <1>3 DEF Inv1, CursorType, CursorInInstruction
  <2> QED BY <1>1, <1>3, <2>1 DEF EdgesLeft, ToGo, Regain
<1> QED BY <1>2, <1>3

(* The same of the next state. *)
LEMMA EdgesLeftNext ==
  Inv1' /\ Inv2' => (EdgesLeft \in 1 .. 100)'
<1>1. Inv1 /\ Inv2 => EdgesLeft \in 1 .. 100
  BY EdgesLeftType
<1> QED BY <1>1, PTL

(* An edge on which M1 does not rise brings it nearer, and leaves a core that *)
(* is at the start of a cycle between two instructions if it was.           *)
LEMMA EdgeBringsNearer ==
  ASSUME EngineInv, Inv1', NEW i \in SUBSET InputPins, Advance(i), "RESET" \notin i, ~M1Rises
  PROVE  /\ step = 0 => (Between' <=> Between)
         /\ i \intersect {"WAIT", "BUSRQ"} = {} => EdgesLeft' <= EdgesLeft - 1
<1> USE DEF EngineInv
<1>0. /\ step \in 0 .. Count[seq] - 1 /\ Count[seq] \in 2 .. 14
      /\ WaitStep[seq] \in {3, 5, NoWait}
      /\ bus_released \in BOOLEAN
      /\ cycle \in 0 .. 6 /\ cycle_limit \in 0 .. 6
  BY CountType DEF Inv1, Inv2, CursorType, BusType
<1>1. CASE BusHeld(i)
  <2>1. /\ UNCHANGED cursor /\ bus_released
        /\ bus_released' = ("BUSRQ" \in i)
    BY <1>1 DEF BusHeld
  <2>2. Between' <=> Between
    BY <2>1 DEF cursor, Between, Fetching
  <2>3. ASSUME "BUSRQ" \notin i
        PROVE  EdgesLeft' = EdgesLeft - 1
    <3>1. ToGo' = ToGo
      BY <2>1, <2>2 DEF cursor, ToGo, Fetching
    <3>2. Regain = 1 /\ Regain' = 0
      BY <2>1, <2>3 DEF Regain
    <3> QED BY <3>1, <3>2, EdgesLeftType DEF EdgesLeft
  <2> QED BY <1>0, <2>2, <2>3, EdgesLeftType
<1>2. CASE StretchCycle(i)
  BY <1>0, <1>2 DEF StretchCycle, Stretched, NoWait
<1>3. CASE WithinCycle(i)
  <2>1. /\ step' = step + 1 /\ UNCHANGED <<seq, instr, cycle, cycle_limit, bus_released>>
        /\ ~bus_released
    BY <1>3 DEF WithinCycle, Executes
  <2>2. ~Between
    BY <2>1, WhereM1Rises
  <2>3. ~Between'
    BY <1>0, <2>1 DEF Between
  <2> QED BY <1>0, <2>1, <2>2, <2>3 DEF EdgesLeft, ToGo, Regain, Fetching
<1>4. ASSUME LastStep(i)
      PROVE  /\ step # 0 /\ ~Between /\ Regain = 0
             /\ EdgesLeft = IF Fetching THEN 94 ELSE 15 * (cycle_limit - cycle) + 2 - step
  <2>1. step + 1 = Count[seq] /\ ~bus_released
    BY <1>0, <1>4 DEF LastStep, Executes
  <2> QED BY <1>0, <2>1 DEF Between, EdgesLeft, ToGo, Regain
<1>5. PICK r \in 0 .. 1 : Regain' = r
  BY DEF Regain
<1>6. CASE BeginInstruction(i)
  <2>1. EdgesLeft = 94 /\ step # 0
    BY <1>4, <1>6 DEF BeginInstruction
  <2>2. /\ step' = 0 /\ cycle' = 0 /\ cycle_limit' \in 0 .. 6 /\ ~Fetching'
    <3>1. Begin(Current) /\ Current \in Instrs /\ CyclesOf[Current] # << >>
      BY <1>6, CurrentType DEF BeginInstruction
    <3>2. instr' # NoInstr
      BY <3>1, BeginType DEF NoInstr, Instrs, FetchOnly, IndexedInstrs, EdInstrs, BlockInstrs,
         LoadInstrs, ArithmeticInstrs, ControlInstrs, InterruptSequences
    <3> QED BY <3>1, <3>2 DEF Begin, MoveTo, Inv1, CursorType, CursorInInstruction
  <2>3. EdgesLeft' <= 93
    <3>1. PICK l \in 0 .. 6 : cycle_limit' = l
      BY <2>2
    <3>2. ToGo' = 1 \/ ToGo' = 15 * l + 2
      BY <2>2, <3>1 DEF ToGo
    <3> QED BY <1>5, <3>1, <3>2 DEF EdgesLeft
  <2> QED BY <2>1, <2>3
<1>7. CASE NextCycle(i)
  <2>1. /\ ~Fetching /\ step' = 0 /\ cycle' = cycle + 1 /\ cycle_limit' = cycle_limit
        /\ cycle + 1 < cycle_limit /\ instr' = instr
    BY <1>7 DEF NextCycle, MoveTo
  <2>2. ~Fetching' /\ ~Between'
    BY <1>0, <2>1 DEF Inv1, CursorInInstruction, Between, Fetching
  <2>3. step # 0 /\ EdgesLeft = 15 * (cycle_limit - cycle) + 2 - step
    BY <1>4, <1>7, <2>1 DEF NextCycle
  <2>4. ToGo' = 15 * (cycle_limit - cycle - 1) + 2
    BY <1>0, <2>1, <2>2 DEF ToGo, Fetching
  <2> QED BY <1>0, <1>5, <2>3, <2>4 DEF EdgesLeft
<1>8. ASSUME LastStep(i), Between'
      PROVE  EdgesLeft' <= EdgesLeft - 1
  <2>1. EdgesLeft' <= 2
    <3>1. ToGo' = 1
      BY <1>8 DEF ToGo
    <3> QED BY <1>5, <3>1 DEF EdgesLeft
  <2>2. ~Fetching => cycle < cycle_limit
    BY DEF Inv1, CursorInInstruction
  <2>3. EdgesLeft >= 3
    BY <1>0, <1>4, <1>8, <2>2
  <2>4. PICK e \in Int : EdgesLeft' = e
    BY <1>5, <1>8 DEF EdgesLeft, ToGo
  <2> QED BY <1>0, <2>1, <2>3, <2>4, EdgesLeftType
<1>9. CASE EndPrefix(i) \/ EndPlain(i)
  <2>1. LastStep(i) /\ Between'
    BY <1>9 DEF EndPrefix, EndPlain, EndInstruction, Completes, BackToFetch, MoveTo, Between,
                Fetching
  <2> QED BY <1>4, <1>8, <2>1
<1>10. CASE AcceptNmi(i) \/ AcceptInt(i)
  <2>1. LastStep(i) /\ Between'
    BY <1>10 DEF AcceptNmi, AcceptInt, EndInstruction, Completes, Begin, MoveTo, Between,
                 InterruptSequences
  <2> QED BY <1>4, <1>8, <2>1
<1> QED BY <1>1, <1>2, <1>3, <1>6, <1>7, <1>9, <1>10, <1>4
        DEF Advance, ResetPending, ResetTaken, BeginInstruction, NextCycle

-----------------------------------------------------------------------------
(***************************************************************************)
(* An instruction step.  While it runs, what it has counted is whether it   *)
(* has come to a boundary, and its limit leaves room for the edges that     *)
(* are left.                                                               *)
(***************************************************************************)
LongEnough == StepLimit >= 100

Inv5 == phase = "instruction" =>
          /\ todo \in Nat \ {0}
          /\ "RESET" \notin hold => ended = IF Between THEN 1 ELSE 0
          /\ Steady /\ LongEnough => EdgesLeft <= todo

(* One edge of an instruction step. *)
LEMMA InstructionEdge ==
  ASSUME EngineInv, EngineInv', ClockKept, Inv5, stepInstruction
  PROVE  /\ Inv5'
         /\ M1Rises => ended' = 1 /\ step' = 1 /\ seq' \in M1Cycles
         /\ phase' = "frame" /\ ~M1Rises /\ LongEnough => ~Steady
<1>1. /\ phase = "instruction" /\ edge /\ todo' = todo - 1
      /\ phase' = IF M1Rises \/ todo = 1 THEN "frame" ELSE phase
      /\ hold' = hold
  BY DEF stepInstruction, edge
<1>2. Advance(hold) /\ hold \in SUBSET InputPins
  BY <1>1, EdgeAdvances DEF ClockKept
<1>3. ended' = IF step # 0 /\ Between' THEN Smaller(ended + 1, 2) ELSE ended
  BY <1>1 DEF edge
<1>4. /\ M1Rises <=> Between /\ ~bus_released /\ "RESET" \notin hold
      /\ M1Rises => step' = 1 /\ seq' = seq /\ seq \in M1Cycles
  BY <1>2, WhereM1Rises
<1>5. Between => step = 0
  BY DEF Between
<1>6. ASSUME M1Rises
      PROVE  ended' = 1
  BY <1>1, <1>3, <1>4, <1>5, <1>6 DEF Inv5
<1>7. ASSUME ~M1Rises, "RESET" \notin hold
      PROVE  ended' = IF Between' THEN 1 ELSE 0
  <2>1. step = 0 => (Between' <=> Between)
    BY <1>2, <1>7, EdgeBringsNearer DEF EngineInv
  <2>2. ended = IF Between THEN 1 ELSE 0
    BY <1>1, <1>7 DEF Inv5
  <2> QED BY <1>3, <1>5, <2>1, <2>2 DEF Smaller
<1>8. ASSUME ~M1Rises, Steady, LongEnough
      PROVE  todo # 1 /\ EdgesLeft' <= todo'
  <2>1. EdgesLeft' <= EdgesLeft - 1
    BY <1>2, <1>8, EdgeBringsNearer DEF EngineInv, Steady
  <2>2. EdgesLeft <= todo /\ todo \in Nat
    BY <1>1, <1>8 DEF Inv5
  <2>3. EdgesLeft \in 1 .. 100
    BY EdgesLeftType DEF EngineInv
  <2>4. PICK e \in 1 .. 100 : EdgesLeft' = e
    BY EdgesLeftNext DEF EngineInv
  <2> QED BY <1>1, <2>1, <2>2, <2>3, <2>4
<1>9. Steady' <=> Steady
  BY <1>1 DEF Steady
<1>10. Inv5'
  <2> SUFFICES ASSUME phase' = "instruction" PROVE Inv5'
    BY DEF Inv5
  <2>1. ~M1Rises /\ todo # 1
    BY <1>1
  <2> QED BY <1>1, <1>7, <1>8, <1>9, <2>1 DEF Inv5, LongEnough
<1> QED BY <1>1, <1>4, <1>6, <1>8, <1>10

(* No other step of the monitor is part of an instruction step, but the one *)
(* that begins it.                                                         *)
LEMMA Inv5Step ==
  EngineInv /\ EngineInv' /\ ClockKept /\ Inv5 /\ [MonitorNext]_all => Inv5'
<1> SUFFICES ASSUME EngineInv, EngineInv', ClockKept, Inv5, [MonitorNext]_all
             PROVE  Inv5'
  OBVIOUS
<1>1. CASE stepInstruction
  BY <1>1, InstructionEdge
<1>2. CASE StepAnInstruction
  <2>1. /\ todo' = StepLimit /\ ended' = IF Between THEN 1 ELSE 0
        /\ UNCHANGED <<machine, hold>>
    BY <1>2 DEF StepAnInstruction
  <2>2. EdgesLeft \in 1 .. 100
    BY EdgesLeftType DEF EngineInv
  <2>3. /\ Between' <=> Between
        /\ EdgesLeft' = EdgesLeft
    BY <2>1 DEF machine, vars, cursor, bus, Between, Fetching, EdgesLeft, Regain, ToGo
  <2> QED BY <2>1, <2>2, <2>3, MonitorAssumption DEF Inv5, LongEnough
<1>3. CASE UNCHANGED all
  BY <1>3 DEF all, machine, vars, cursor, bus, history, Inv5, Steady, LongEnough, Between, Fetching,
     EdgesLeft, Regain, ToGo
<1>4. CASE \/ runFreely \/ FreeEdge \/ Measure \/ LetAlone \/ RunOrStop \/ reset \/ ChangeClock
           \/ HoldPin \/ StepByHand \/ stepEdges
  <2>1. phase' # "instruction"
    BY <1>4 DEF runFreely, StandStill, RunFlatOut, RunOnTime, RunAtCeiling, Starts, FreeEdge,
       Measure, LetAlone, RunOrStop, reset, ChangeClock, HoldPin, Drawn, StepByHand, stepEdges
  <2> QED BY <2>1 DEF Inv5
<1> QED BY <1>1, <1>2, <1>3, <1>4 DEF MonitorNext

(* Everything the proof has of the monitor holds at every step of it. *)
LEMMA Inv5Holds ==
  MonitorSpec => [](EngineInv /\ ClockKept /\ Inv5)
<1>1. MonitorInit => Inv5
  BY DEF MonitorInit, Inv5
<1>2. ClockKept /\ [MonitorNext]_all => ClockKept'
  BY MonitorStep
<1>3. MonitorSpec => []EngineInv
  BY MonitorHostsEngine, Inv2Holds, WaveformFollowed, PTL DEF EngineInv
<1> QED BY <1>1, <1>2, <1>3, MonitorStarts, Inv5Step, PTL DEF MonitorSpec

(* An instruction step that stops where M1 rises has finished one opcode, or *)
(* the acknowledge it was in, and stands on T1: whatever its limit, and     *)
(* whatever pins are held (stepInstruction).                               *)
THEOREM StopsOnT1 ==
  MonitorSpec =>
    [][stepInstruction /\ M1Rises =>
         ended' = 1 /\ step' = 1 /\ seq' \in {"m1_fetch"} \union AckCycles]_all
<1>1. EngineInv /\ EngineInv' /\ ClockKept /\ Inv5
        => [stepInstruction /\ M1Rises =>
              ended' = 1 /\ step' = 1 /\ seq' \in {"m1_fetch"} \union AckCycles]_all
  BY InstructionEdge DEF M1Cycles
<1> QED BY <1>1, Inv5Holds, PTL

(* With a limit of a hundred edges or more (the monitor's is 4096) an        *)
(* instruction step always gets there, unless the user holds WAIT, BUSRQ or *)
(* RESET: no instruction is longer, with the bus it may have to take back   *)
(* and the acknowledge that may follow (stepInstruction).                   *)
THEOREM StepsLandOnT1 ==
  ASSUME LongEnough
  PROVE  MonitorSpec => StepLandsOnT1
<1>1. EngineInv /\ EngineInv' /\ ClockKept /\ Inv5
        => [stepInstruction /\ phase' = "frame" =>
              \/ M1Rises /\ ended' = 1 /\ step' = 1 /\ seq' \in {"m1_fetch"} \union AckCycles
              \/ ~M1Rises /\ hold \intersect {"WAIT", "BUSRQ", "RESET"} # {}]_all
  BY InstructionEdge DEF M1Cycles, Steady
<1> QED BY <1>1, Inv5Holds, PTL DEF StepLandsOnT1

=============================================================================
