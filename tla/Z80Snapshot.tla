----------------------------- MODULE Z80Snapshot -----------------------------
(***************************************************************************)
(* Snapshots of the core (z80core.c, z80_save and z80_load): between two   *)
(* clock edges the host saves the machine, and later loads it into a core  *)
(* it has just created, with the pins as they were.                        *)
(*                                                                         *)
(* A snapshot does not say which instruction was in progress.  It holds    *)
(* the opcode, the prefixes and the index of the cycle, and the loader     *)
(* decodes the opcode again.  It leaves out the level NMI was last seen    *)
(* at, the count of RESET edges and a latched bus request.                 *)
(***************************************************************************)
EXTENDS Z80Engine

(* Mutant: the loader decodes without the prefixes. *)
RebuiltPlain == DecodeBase(opcode)

(* The instruction z80_load takes the core to have been in. *)
Rebuilt == Decode(opcode, prefix, index)

(* It has a cycle with the saved number: cycles[cycle].seq is not null.     *)
Resumes == ~Fetching /\ cycle < cycle_limit /\ cycle < Len(CyclesOf[Rebuilt])

LoadedSeq == IF Resumes THEN CyclesOf[Rebuilt][cycle + 1] ELSE "m1_fetch"

(* z80_save, z80_new and z80_load. *)
Restore ==
  /\ seq' = LoadedSeq
  /\ instr' = IF Resumes THEN Rebuilt ELSE NoInstr
  /\ step' = IF step < Count[LoadedSeq] THEN step ELSE 0
  /\ cycle' = IF Fetching THEN 0 ELSE cycle
  /\ cycle_limit' = IF Fetching THEN 0 ELSE cycle_limit
  /\ nmi_previous' = FALSE
  /\ reset_held' = 0
  /\ bus_request_latched' = FALSE
  /\ UNCHANGED <<clk, code, irq, halted, pv, nmi_latched, bus_released, outputs,
                 inputs>>

AnySpec == Init /\ [][Next \/ Restore]_vars

-----------------------------------------------------------------------------
(* Where a snapshot does say everything: not in an acknowledge, which has   *)
(* no opcode; not once DD CB d op has latched its operation byte over the   *)
(* opcode; and not while one of the fields it leaves out is set.            *)
SnapshotComplete ==
  /\ instr \notin InterruptSequences
  /\ ~(instr = "index_cb" /\ cycle >= 2)
  /\ ~nmi_previous /\ reset_held = 0 /\ ~bus_request_latched

CarefulSpec == Init /\ [][Next \/ (SnapshotComplete /\ Restore)]_vars

(* The loaded core is in the same instruction, the same machine cycle and   *)
(* the same step as the one that was saved (z80core.h: "Capture the         *)
(* machine, mid-instruction included").                                     *)
RestoreKeepsPlace == [][Restore => UNCHANGED <<seq, step, instr>>]_vars

(* A snapshot taken where it is complete is exact: nothing the engine will  *)
(* ever read differs after the load.  Cycle counters are dead in a fetch.   *)
RestoreExact ==
  [][Restore /\ SnapshotComplete
     => /\ UNCHANGED <<clk, seq, step, instr, code, irq, halted, pv,
                       nmi_previous, nmi_latched, reset_held, bus, outputs>>
        /\ ~Fetching => UNCHANGED <<cycle, cycle_limit>>]_vars
=============================================================================
