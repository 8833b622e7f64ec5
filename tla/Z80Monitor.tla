------------------------------ MODULE Z80Monitor ------------------------------
(***************************************************************************)
(* The monitor (src/tools/z80mon/monitor.cpp): a host of the core with a    *)
(* window.  Each frame it runs the edges that real time asks for, measures  *)
(* what it achieved, and then lets the user press a button: run or stop,    *)
(* reset, step by hand, hold an input pin, move the clock.                 *)
(*                                                                         *)
(* One step is one clock edge, or what a frame does between edges.  The    *)
(* core is Z80Engine's, edge by edge; its memory may change under it, since *)
(* loading a program leaves the core alone.  Time is in ticks, the debt in  *)
(* parts of an edge, and both are exact here.                              *)
(***************************************************************************)
EXTENDS Z80Engine, Integers

CONSTANTS
  FrameTimes,        \* how many ticks a frame can take
  Second,            \* ticks in a second
  Rates,             \* the clocks on the slider: parts of an edge in a tick
  Grain,             \* parts in an edge
  kMaxEdgesPerFrame, \* the ceiling on a frame's edges: 400000
  IntMax,            \* what an int can hold
  HandSteps,         \* the edges of the step buttons: 1, 2 and 8
  StepLimit,         \* the edges an instruction step tries: 4096
  kTraceLength,      \* the edges that are kept: 2048
  Visible,           \* the edges that are drawn: 256
  CounterSize,       \* where the core's edge counter wraps: 2^64
  DebtMax            \* bound: the debt is followed no further

ASSUME MonitorAssumption ==
  /\ FrameTimes \subseteq Nat /\ Rates \subseteq Nat \ {0} /\ HandSteps \subseteq Nat \ {0}
  /\ Second \in Nat \ {0} /\ Grain \in Nat \ {0} /\ StepLimit \in Nat \ {0}
  /\ IntMax \in Nat /\ kMaxEdgesPerFrame \in 1 .. IntMax
  /\ kTraceLength \in Nat /\ Visible \in 1 .. kTraceLength
  /\ CounterSize \in Nat /\ CounterSize > kTraceLength /\ CounterSize % 2 = 0

VARIABLES
  edges,                                        \* the core's edge counter
  clk_, hold,                                   \* the host's clock; the pins the user holds
  running_, unthrottled_, clockHz_, edgeDebt_,  \* the free run
  rateTimer_, rateMark_, measuredEdgeRate_,     \* what the last second achieved
  trace_, traceHead_, traceCount_,              \* the ring of the last edges
  phase, todo, seconds,                         \* where frame() is, its edges left, its length
  since, ended, hands_off                       \* what an observer remembers

freerun == <<running_, unthrottled_, clockHz_, edgeDebt_>>
rate    == <<rateTimer_, rateMark_, measuredEdgeRate_>>
scope   == <<trace_, traceHead_, traceCount_>>
history == <<since, ended, hands_off>>
machine == <<vars, edges, clk_>>
all     == <<machine, hold, freerun, rate, scope, phase, todo, seconds, history>>

Smaller(m, n) == IF m < n THEN m ELSE n
Phases == {"frame", "free", "controls", "step", "instruction"}

-----------------------------------------------------------------------------
(***************************************************************************)
(* One clock edge.                                                         *)
(***************************************************************************)
Inputs == hold

(* z80_tick, and the counter of the edges it has advanced by.               *)
Tick(i, level) ==
  IF level = clk THEN Gated(i) /\ UNCHANGED edges
  ELSE Advance(i) /\ edges' = (edges + 1) % CounterSize

Recorded(entry) ==
  /\ trace_' = [trace_ EXCEPT ![traceHead_] = entry]
  /\ traceHead_' = (traceHead_ + 1) % kTraceLength
  /\ traceCount_' = Smaller(traceCount_ + 1, kTraceLength)

(* The core is between two instructions, the next one's M1 not yet up.      *)
Between == step = 0 /\ (Fetching \/ (instr \in InterruptSequences /\ cycle = 0))

edge ==
  /\ clk_' = 1 - clk_
  /\ Tick(Inputs, clk_')
  /\ Recorded([edge |-> edges', clk |-> clk_'])
  /\ since' = Smaller(since + 1, CounterSize)
  /\ ended' = IF phase = "instruction" /\ step # 0 /\ Between' THEN Smaller(ended + 1, 2)
              ELSE IF phase = "instruction" THEN ended ELSE 0
  /\ UNCHANGED <<hold, freerun, rate, seconds, hands_off>>

-----------------------------------------------------------------------------
(***************************************************************************)
(* A frame: runFreely, then the measurement.                               *)
(***************************************************************************)
(* The edges the free run owes after a frame of s ticks, in parts.          *)
Debt(s) == edgeDebt_ + s * clockHz_

(* (int) of a double that no int can hold is undefined: x86-64 answers      *)
(* INT_MIN, AArch64 INT_MAX.                                               *)
AsInt(n) == IF n <= IntMax THEN {n} ELSE {-IntMax - 1, IntMax}

Starts(s) == phase = "frame" /\ phase' = "free" /\ seconds' = s
OnlyTheRun == UNCHANGED <<machine, hold, running_, unthrottled_, clockHz_, rate, scope, since,
                          ended, hands_off>>

(* Stopped: no edges in this frame. *)
StandStill(s) ==
  /\ Starts(s)
  /\ ~running_
  /\ todo' = 0
  /\ OnlyTheRun /\ UNCHANGED edgeDebt_

(* As fast as possible. *)
RunFlatOut(s) ==
  /\ Starts(s)
  /\ running_ /\ unthrottled_
  /\ todo' = kMaxEdgesPerFrame
  /\ OnlyTheRun /\ UNCHANGED edgeDebt_

(* Mutant: the fraction of an edge is dropped at the end of the frame. *)
RunOnTime_rounded(s) ==
  \E due \in AsInt(Debt(s) \div Grain) :
    /\ Starts(s)
    /\ running_ /\ ~unthrottled_
    /\ due <= kMaxEdgesPerFrame
    /\ todo' = due
    /\ edgeDebt_' = 0
    /\ OnlyTheRun

(* The whole edges that are due; the rest is carried to the next frame.     *)
RunOnTime(s) ==
  \E due \in AsInt(Debt(s) \div Grain) :
    /\ Starts(s)
    /\ running_ /\ ~unthrottled_
    /\ due <= kMaxEdgesPerFrame
    /\ todo' = due
    /\ edgeDebt_' = Smaller(Debt(s) - due * Grain, DebtMax)
    /\ OnlyTheRun

(* More than the ceiling: the ceiling, and the rest of the debt is forgiven. *)
RunAtCeiling(s) ==
  \E due \in AsInt(Debt(s) \div Grain) :
    /\ Starts(s)
    /\ running_ /\ ~unthrottled_
    /\ due > kMaxEdgesPerFrame
    /\ todo' = kMaxEdgesPerFrame
    /\ edgeDebt_' = 0
    /\ OnlyTheRun

FreeEdge ==
  /\ phase = "free" /\ todo > 0
  /\ edge
  /\ todo' = todo - 1
  /\ UNCHANGED phase

(* Once a second: how many edges since the last time, modulo the counter.   *)
Measures == rateTimer_ + seconds >= Second


Measure ==
  /\ phase = "free" /\ todo <= 0
  /\ phase' = "controls"
  /\ rateTimer_' = IF Measures THEN 0 ELSE rateTimer_ + seconds
  /\ measuredEdgeRate_' = IF Measures THEN (edges - rateMark_) % CounterSize ELSE measuredEdgeRate_
  /\ rateMark_' = IF Measures THEN edges ELSE rateMark_
  /\ since' = IF Measures THEN 0 ELSE since
  /\ UNCHANGED <<machine, hold, freerun, scope, todo, seconds, ended, hands_off>>

-----------------------------------------------------------------------------
(***************************************************************************)
(* The controls: at most one of them in a frame.                           *)
(***************************************************************************)
Pressed == phase = "controls" /\ hands_off' = FALSE
Drawn   == phase' = "frame" /\ UNCHANGED <<todo, seconds>>

LetAlone ==
  /\ phase = "controls" /\ hands_off' = TRUE
  /\ Drawn
  /\ UNCHANGED <<machine, hold, freerun, rate, scope, since, ended>>

RunOrStop ==
  /\ Pressed /\ Drawn
  /\ running_' = ~running_
  /\ edgeDebt_' = 0
  /\ UNCHANGED <<machine, hold, unthrottled_, clockHz_, rate, scope, since, ended>>

(* Mutant: the edges before the reset stay in the ring. *)
reset_dirty ==
  /\ Pressed /\ Drawn
  /\ HostReset /\ edges' = 0 /\ clk_' = 0
  /\ traceHead_' = 0
  /\ edgeDebt_' = 0
  /\ UNCHANGED <<hold, running_, unthrottled_, clockHz_, rate, trace_, traceCount_, since, ended>>

(* A new core, with its counter; the mark of the measurement stays.         *)
reset ==
  /\ Pressed /\ Drawn
  /\ HostReset /\ edges' = 0 /\ clk_' = 0
  /\ traceHead_' = 0 /\ traceCount_' = 0
  /\ edgeDebt_' = 0
  /\ since' = CounterSize
  /\ UNCHANGED <<hold, running_, unthrottled_, clockHz_, rate, trace_, ended>>

ChangeClock ==
  /\ Pressed /\ Drawn
  /\ \/ unthrottled_' = ~unthrottled_ /\ UNCHANGED clockHz_
     \/ ~unthrottled_ /\ clockHz_' \in Rates /\ UNCHANGED unthrottled_
  /\ UNCHANGED <<machine, hold, running_, edgeDebt_, rate, scope, since, ended>>

HoldPin ==
  /\ Pressed /\ Drawn
  /\ \E pin \in InputPins :
       hold' = IF pin \in hold THEN hold \ {pin} ELSE hold \union {pin}
  /\ UNCHANGED <<machine, freerun, rate, scope, since, ended>>

(* Edge, T-state and M1 cycle; disabled while running.                      *)
StepByHand ==
  /\ Pressed /\ ~running_
  /\ phase' = "step" /\ todo' \in HandSteps
  /\ UNCHANGED <<machine, hold, freerun, rate, scope, seconds, since, ended>>

StepAnInstruction ==
  /\ Pressed /\ ~running_
  /\ phase' = "instruction" /\ todo' = StepLimit
  /\ ended' = IF Between THEN 1 ELSE 0
  /\ UNCHANGED <<machine, hold, freerun, rate, scope, seconds, since>>

stepEdges ==
  /\ phase = "step"
  /\ edge
  /\ todo' = todo - 1
  /\ phase' = IF todo = 1 THEN "frame" ELSE phase

(* Mutant: M1 is taken as a level. *)
M1Rises_level == "M1" \in outputs'

M1Rises == "M1" \notin outputs /\ "M1" \in outputs'

stepInstruction ==
  /\ phase = "instruction"
  /\ edge
  /\ todo' = todo - 1
  /\ phase' = IF M1Rises \/ todo = 1 THEN "frame" ELSE phase

-----------------------------------------------------------------------------
MonitorInit ==
  /\ Init
  /\ edges = 0 /\ clk_ = 0 /\ hold = {}
  /\ running_ = FALSE /\ unthrottled_ = FALSE /\ clockHz_ \in Rates /\ edgeDebt_ = 0
  /\ rateTimer_ = 0 /\ rateMark_ = 0 /\ measuredEdgeRate_ = 0
  /\ trace_ = [k \in 0 .. kTraceLength - 1 |-> [edge |-> 0, clk |-> 0]]
  /\ traceHead_ = 0 /\ traceCount_ = 0
  /\ phase = "frame" /\ todo = 0 /\ seconds = 0
  /\ since = 0 /\ ended = 0 /\ hands_off = TRUE

runFreely == \E s \in FrameTimes : StandStill(s) \/ RunFlatOut(s) \/ RunOnTime(s) \/ RunAtCeiling(s)

MonitorNext ==
  \/ runFreely
  \/ FreeEdge
  \/ Measure
  \/ LetAlone
  \/ RunOrStop
  \/ reset
  \/ ChangeClock
  \/ HoldPin
  \/ StepByHand
  \/ StepAnInstruction
  \/ stepEdges
  \/ stepInstruction

(* The window keeps drawing frames. *)
MonitorSpec == MonitorInit /\ [][MonitorNext]_all /\ WF_all(MonitorNext)

-----------------------------------------------------------------------------
(***************************************************************************)
(* Properties.                                                             *)
(***************************************************************************)
Shown == Smaller(traceCount_, Visible)
Drawn_entry(k) == trace_[(traceHead_ + kTraceLength - Shown + k) % kTraceLength]

(* The waveform shows the last edges of this core, oldest on the left and    *)
(* none missing, each with the level of its half of a T-state: so no edge   *)
(* was gated, and none from before a reset is left (drawWaveform, "most     *)
(* recent %d edges"; edge; reset).                                         *)
WaveformShowsLastEdges ==
  \A k \in 0 .. Shown - 1 :
    /\ Drawn_entry(k).edge = (edges - (Shown - 1 - k)) % CounterSize
    /\ Drawn_entry(k).clk = Drawn_entry(k).edge % 2

(* An instruction step has finished one opcode, or the acknowledge it was   *)
(* in, and stands on T1 of what comes next: after any steps by hand, with    *)
(* pins held, across interrupts and bus grants.  Only a pin that the user   *)
(* holds, WAIT, BUSRQ or RESET, keeps it from getting there: the limit is   *)
(* no shorter than any instruction (stepInstruction; README of z80mon: "the  *)
(* view always lands on T1 of the next fetch").                            *)
StepLandsOnT1 ==
  [][stepInstruction /\ phase' = "frame" =>
       \/ M1Rises /\ ended' = 1 /\ step' = 1 /\ seq' \in {"m1_fetch"} \union AckCycles
       \/ ~M1Rises /\ hold \intersect {"WAIT", "BUSRQ", "RESET"} # {}]_all


(* Left running, at any clock and with any frames that owe no more edges    *)
(* than an int holds, the core gets edges (README of z80mon: "Free running  *)
(* takes a clock rate in Hz and issues two edges per period").              *)
FreeRunGoesOn ==
  <>[](running_ /\ ~unthrottled_ /\ hands_off) /\ []<>(seconds > 0)
    => []<>(clk = 0) /\ []<>(clk = 1)
=============================================================================
