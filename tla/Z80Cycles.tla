------------------------------ MODULE Z80Cycles ------------------------------
(***************************************************************************)
(* The machine cycles of the Z80 core: the step tables of z80core.c.       *)
(*                                                                         *)
(* A machine cycle (struct z80_seq) is a sequence of steps, one per clock  *)
(* edge, and the index of the step at which it samples WAIT.  The engine   *)
(* (module Z80Engine) owns the cursor; a step only drives pins.  Of the    *)
(* pins, this module keeps the six control strobes; the address and data   *)
(* pins are abstracted away.                                               *)
(***************************************************************************)
EXTENDS Naturals, Sequences

(***************************************************************************)
(* The machine cycles, named after the arrays of the source.               *)
(***************************************************************************)
AckCycles   == {"int_ack", "nmi_ack"}
BusCycles   == {"mem_read", "mem_write", "io_read", "io_write"}
IdleCycles  == {"idle1", "idle2", "idle4", "idle5", "idle7"}
MachineCycles == {"m1_fetch"} \union AckCycles \union BusCycles \union IdleCycles

(* The control pins a step may drive, and those that stay with the core    *)
(* when the bus is not being requested: HALT and BUSAK are the engine's.   *)
Strobes    == {"M1", "MREQ", "IORQ", "RD", "WR", "RFSH"}
OutputPins == Strobes \union {"HALT", "BUSAK"}

(***************************************************************************)
(* The steps of each machine cycle, one per clock edge.                    *)
(***************************************************************************)
m1_fetch_steps  == <<"m1_t1_rise", "m1_t1_fall", "nothing", "nothing",
                     "m1_t3_rise", "m1_t3_fall", "nothing", "m1_t4_fall">>
mem_read_steps  == <<"addr_out", "read_assert", "nothing", "nothing",
                     "read_sample", "read_release">>
mem_write_steps == <<"addr_out", "write_assert_mreq", "write_data_out",
                     "write_assert_wr", "nothing", "write_release">>
io_read_steps   == <<"addr_out", "nothing", "io_assert_rd", "nothing",
                     "nothing", "nothing", "read_sample", "io_release">>
io_write_steps  == <<"addr_out", "write_data_out", "io_assert_wr", "nothing",
                     "nothing", "nothing", "nothing", "io_release">>
idle_steps      == [k \in 1 .. 14 |-> "nothing"]
int_ack_steps   == <<"int_ack_start", "nothing", "int_ack_iorq", "nothing",
                     "nothing", "nothing", "nothing", "nothing",
                     "int_ack_sample", "m1_t3_fall", "nothing", "m1_t4_fall",
                     "nothing", "nothing">>
nmi_ack_steps   == <<"m1_t1_rise", "m1_t1_fall", "nothing", "nothing",
                     "nmi_ack_discard", "m1_t3_fall", "nothing", "m1_t4_fall",
                     "nothing", "nothing">>

Steps ==
  [seq \in MachineCycles |->
     CASE seq = "m1_fetch"   -> m1_fetch_steps
       [] seq = "mem_read"   -> mem_read_steps
       [] seq = "mem_write"  -> mem_write_steps
       [] seq = "io_read"    -> io_read_steps
       [] seq = "io_write"   -> io_write_steps
       [] seq = "int_ack"    -> int_ack_steps
       [] seq = "nmi_ack"    -> nmi_ack_steps
       [] seq \in IdleCycles -> idle_steps]

(* How many of the steps a cycle runs: the idle cycles share one array.     *)
Count ==
  [seq \in MachineCycles |->
     CASE seq \in {"mem_read", "mem_write"}           -> 6
       [] seq \in {"m1_fetch", "io_read", "io_write"} -> 8
       [] seq = "int_ack" -> 14
       [] seq = "nmi_ack" -> 10
       [] seq = "idle1"   -> 2
       [] seq = "idle2"   -> 4
       [] seq = "idle4"   -> 8
       [] seq = "idle5"   -> 10
       [] seq = "idle7"   -> 14]

(* The step that samples WAIT; NoWait is Z80_NO_WAIT, which no step equals. *)
NoWait == 255
WaitStep ==
  [seq \in MachineCycles |-> IF seq \in IdleCycles THEN NoWait
                             ELSE IF seq \in {"io_read", "io_write"} THEN 5
                             ELSE 3]

(***************************************************************************)
(* What a step does to the strobes: the pins it sets and those it clears.  *)
(***************************************************************************)
Asserts(fn) ==
  CASE fn \in {"m1_t1_rise", "int_ack_start"}                      -> {"M1"}
    [] fn \in {"m1_t1_fall", "read_assert"}                        -> {"MREQ", "RD"}
    [] fn \in {"m1_t3_rise", "int_ack_sample", "nmi_ack_discard"}  -> {"RFSH"}
    [] fn \in {"m1_t3_fall", "write_assert_mreq"}                  -> {"MREQ"}
    [] fn = "write_assert_wr"                                      -> {"WR"}
    [] fn = "io_assert_rd"                                         -> {"IORQ", "RD"}
    [] fn = "io_assert_wr"                                         -> {"IORQ", "WR"}
    [] fn = "int_ack_iorq"                                         -> {"IORQ"}
    [] OTHER                                                       -> {}

Releases(fn) ==
  CASE fn \in {"m1_t3_rise", "nmi_ack_discard"} -> {"M1", "MREQ", "RD"}
    [] fn = "int_ack_sample"                    -> {"M1", "IORQ"}
    [] fn = "m1_t4_fall"                        -> {"MREQ", "RFSH"}
    [] fn = "read_release"                      -> {"MREQ", "RD"}
    [] fn = "write_release"                     -> {"MREQ", "WR"}
    [] fn = "io_release"                        -> {"IORQ", "RD", "WR"}
    [] OTHER                                    -> {}

(* The pins after the step at the cursor: ctrl = (ctrl & ~cleared) | set. *)
Drive(seq, step, pins) ==
  LET fn == Steps[seq][step + 1] IN (pins \ Releases(fn)) \union Asserts(fn)

(***************************************************************************)
(* The waveform each cycle has to show: the edges before which a strobe is *)
(* active, rather than the steps that switch it.  This is the timing table *)
(* of the specification (SPEC.md 5.3 and the comments over the step        *)
(* tables), stated independently of Steps so that the two can be compared. *)
(***************************************************************************)
FetchCycles == {"m1_fetch", "nmi_ack"}

ActiveEdges(p, seq) ==
  CASE seq \in FetchCycles /\ p = "M1"               -> 1 .. 4
    [] seq \in FetchCycles /\ p = "RD"               -> 2 .. 4
    [] seq \in FetchCycles /\ p = "MREQ"             -> (2 .. 4) \union (6 .. 7)
    [] seq \in FetchCycles /\ p = "RFSH"             -> 5 .. 7
    [] seq = "mem_read"  /\ p \in {"MREQ", "RD"}     -> 2 .. 5
    [] seq = "mem_write" /\ p = "MREQ"               -> 2 .. 5
    [] seq = "mem_write" /\ p = "WR"                 -> 4 .. 5
    [] seq = "io_read"   /\ p \in {"IORQ", "RD"}     -> 3 .. 7
    [] seq = "io_write"  /\ p \in {"IORQ", "WR"}     -> 3 .. 7
    [] seq = "int_ack"   /\ p = "M1"                 -> 1 .. 8
    [] seq = "int_ack"   /\ p = "IORQ"               -> 3 .. 8
    [] seq = "int_ack"   /\ p = "RFSH"               -> 9 .. 11
    [] seq = "int_ack"   /\ p = "MREQ"               -> 10 .. 11
    [] OTHER                                         -> {}

(* The strobes that are active just before the step with index step runs. *)
Levels(seq, step) == {p \in Strobes : step \in ActiveEdges(p, seq)}
=============================================================================
