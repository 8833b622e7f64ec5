--------------------------- MODULE Z80Accumulator ---------------------------
(***************************************************************************)
(* A, HL, F and Q under sequences of arithmetic instructions.              *)
(*                                                                         *)
(* One step is one instruction, except that an instruction which computes  *)
(* its flags before its last machine cycle (the ones that write back to    *)
(* memory and the block instructions that repeat) has two: the exit hook   *)
(* that computes, and the end.  Between the two the host may pull RESET or *)
(* replace the core by a snapshot of itself.  Where an instruction can name *)
(* any register, here it names A.                                          *)
(*                                                                         *)
(* Q is the flags the last instruction left on the flag bus.  The code     *)
(* gathers them in q_pending and raises q_written; both are read only      *)
(* together, so here they are one sequence: empty, or with the flags.      *)
(***************************************************************************)
EXTENDS Z80Alu, Sequences

CONSTANTS
  Starts,        \* what POP AF and POP HL set the registers to
  Operands,      \* the other operand of a byte operation
  WordOperands,  \* the pair that is added to or subtracted from HL
  CbFields,      \* which of the eight CB shifts and bits
  Host,          \* what the host does in mid-instruction: RESET, LOAD
  Length         \* how many instructions run before the registers are set up

ASSUME StartsAssumption   == Starts \subseteq [a : Byte, hl : Word, f : SUBSET Flags]
ASSUME OperandsAssumption == Operands \subseteq Byte /\ WordOperands \subseteq Word
ASSUME FieldsAssumption   == CbFields \subseteq 0 .. 7
ASSUME HostAssumption     == Host \subseteq {"RESET", "LOAD"}
ASSUME LengthAssumption   == Length \in Nat

VARIABLES
  a, hl, f,      \* the accumulator, HL and the flags
  bus_data,      \* the byte last written back to memory, or moved by a block
  q,             \* what the last instruction left on the flag bus
  pending,       \* what the running one has left so far
  tail,          \* it has computed its flags and has a cycle to go
  trace,         \* history: the instructions since the last start
  cut            \* history: the host broke into a tail, and Q may show it

vars == <<a, hl, f, bus_data, q, pending, tail, trace, cut>>

(* An instruction of the trace, its operand and the state it started from.  *)
Entry(op, v) == [op |-> op, v |-> v, a |-> a, hl |-> hl, f |-> f, bus_data |-> bus_data]

Init ==
  /\ a = 255 /\ f = Flags                 \* z80_reset leaves AF at FFFF
  /\ hl = 0 /\ bus_data = 0 /\ q = {}
  /\ pending = << >> /\ tail = FALSE
  /\ trace = << >> /\ cut = FALSE

Starting(op, v) ==
  /\ ~tail
  /\ Len(trace) < Length
  /\ trace' = Append(trace, Entry(op, v))
  /\ cut' = (cut /\ pending # << >>)

-----------------------------------------------------------------------------
(* write_flags and, on the same edge, the end of the instruction.           *)
Writes(flags) ==
  /\ f' = flags
  /\ q' = flags
  /\ pending' = << >>
  /\ tail' = FALSE

(* Mutant: an instruction that writes no flags leaves Q alone. *)
WritesNothingKeepsQ ==
  /\ q' = IF pending = << >> THEN q ELSE pending[1]
  /\ pending' = << >>
  /\ tail' = FALSE

(* The end of an instruction that wrote none on this edge.                  *)
WritesNothing ==
  /\ q' = IF pending = << >> THEN {} ELSE pending[1]
  /\ pending' = << >>
  /\ tail' = FALSE

(* write_flags in an exit hook: the instruction has a cycle to go.          *)
WritesEarly(flags) ==
  /\ f' = flags
  /\ pending' = << flags >>
  /\ tail' = TRUE
  /\ q' = q

ToA(out) == a' = out.value /\ Writes(out.flags) /\ UNCHANGED <<hl, bus_data>>
ToHl(out) == hl' = out.value /\ Writes(out.flags) /\ UNCHANGED <<a, bus_data>>
FlagsOnly(flags) == Writes(flags) /\ UNCHANGED <<a, hl, bus_data>>

AluNames    == <<"add", "adc", "sub", "sbc", "and", "xor", "or", "cp">>
RotateNames == <<"rlc", "rrc", "rl", "rr", "sla", "sra", "sll", "srl">>

(* execute_alu_reg, execute_alu_bus *)
Operate(which, v) ==
  Starting(AluNames[which + 1], v) /\ ToA(alu_operation(which, a, f, v))

(* INC A, DEC A, NEG and DAA. *)
IncA == Starting("inc", 1) /\ ToA(alu_inc(f, a))
DecA == Starting("dec", 1) /\ ToA(alu_dec(f, a))
Neg  == Starting("neg", a) /\ ToA(execute_neg(a))
Daa  == Starting("daa", 0) /\ ToA(alu_daa(a, f))

(* RLCA, RRCA, RLA, RRA; and the CB forms on A. *)
RotateA(which) == Starting(RotateNames[which + 1], 0) /\ ToA(alu_rotate_a(which, a, f))
ShiftA(which)  == Starting("cb", which) /\ ToA(alu_shift(which, f, a))

(* BIT n,A *)
TestBit(bit) == Starting("bit", bit) /\ ToA(alu_bit(BitMask(bit), f, a, a))

(* BIT n,(HL) and BIT n,(IX+d): X and Y are those of the high half of WZ.   *)
TestBitMemory(bit, v, wz_high) ==
  Starting("bit", bit) /\ FlagsOnly(alu_bit(BitMask(bit), f, v, wz_high).flags)

(* CPL puts its flags into F and not on the flag bus. *)
Cpl ==
  /\ Starting("cpl", 0)
  /\ a' = execute_cpl(a, f).value
  /\ f' = execute_cpl(a, f).flags
  /\ WritesNothing
  /\ UNCHANGED <<hl, bus_data>>

Scf == Starting("scf", 0) /\ FlagsOnly(execute_scf(a, f, q))
Ccf == Starting("ccf", 0) /\ FlagsOnly(execute_ccf(a, f, q))

(* LD A,I and LD A,R. *)
LoadControl(v, iff2) ==
  Starting("ld_a_i", v) /\ ToA(Out(v, load_a_flags(f, v, iff2)))

(* IN r,(C), into a register other than A. *)
InC(v) == Starting("in", v) /\ FlagsOnly(digit_rotate_flags(f, v))

(* ADD HL,rr, ADC HL,rr and SBC HL,rr. *)
AddWord(v) == Starting("add16", v) /\ ToHl(alu_add16(hl, f, v))
AdcWord(v) == Starting("adc16", v) /\ ToHl(alu_adc16(hl, f, v))
SbcWord(v) == Starting("sbc16", v) /\ ToHl(alu_sbc16(hl, f, v))

(* Anything without flags: NOP, LD, PUSH, RET, an interrupt acknowledge.    *)
Quiet ==
  /\ Starting("quiet", 0)
  /\ WritesNothing
  /\ UNCHANGED <<a, hl, f, bus_data>>

-----------------------------------------------------------------------------
(* INC (HL), DEC (HL) and the CB forms on memory, up to the exit hook.      *)
ModifyMemory(op, v, out) ==
  /\ Starting(op, v)
  /\ bus_data' = out.value
  /\ WritesEarly(out.flags)
  /\ UNCHANGED <<a, hl>>

RotateDigits(right, v) ==
  /\ Starting(IF right THEN "rrd" ELSE "rld", v)
  /\ a' = DigitRotated(right, a, v)
  /\ bus_data' = DigitStored(right, a, v)
  /\ WritesEarly(digit_rotate_flags(f, DigitRotated(right, a, v)))
  /\ hl' = hl

(* The exit hook of a block instruction: over, or about to repeat at an     *)
(* address in page pc_high.                                                *)
Block(flags, v, repeats, pc_high) ==
  /\ Starting("block", v)
  /\ bus_data' = v
  /\ IF repeats THEN WritesEarly(block_repeat_undocumented(flags, pc_high))
                ELSE Writes(flags)
  /\ UNCHANGED <<a, hl>>

(* A transfer, a comparison or an I/O step.  Whether it repeats is its own  *)
(* opcode bit, and then only if there is more to do.                       *)
BlockStep(v) ==
  \E more \in BOOLEAN :
    \E repeats \in {FALSE, more}, pc_high \in Operands :
      \/ Block(block_transfer_flags(a, f, v, more), v, repeats, pc_high)
      \/ Block(block_compare_flags(a, f, v, more), v, repeats /\ a # v, pc_high)
      \/ \E b \in IF more THEN Operands \ {0} ELSE {0}, addend \in Operands :
           Block(block_io_flags(b, v, addend), v, repeats, pc_high)

(* The last cycle is over. *)
Finish ==
  /\ tail
  /\ WritesNothing
  /\ UNCHANGED <<a, hl, f, bus_data, trace, cut>>

-----------------------------------------------------------------------------
(* POP AF and POP HL: neither writes flags through the ALU, and the second  *)
(* leaves the byte it read last on the bus.                                *)
PopRegisters ==
  /\ ~tail
  /\ \E s \in Starts :
       a' = s.a /\ hl' = s.hl /\ f' = s.f /\ bus_data' = s.hl \div 256
  /\ q' = {}
  /\ pending' = << >>
  /\ trace' = << >>
  /\ cut' = FALSE
  /\ tail' = tail

(* RESET drops the instruction; AF, HL, Q and what is pending stay.  The     *)
(* bound: once after each start.                                           *)
ResetPin ==
  /\ "RESET" \in Host
  /\ tail
  /\ trace[1].op # "reset"
  /\ tail' = FALSE
  /\ trace' = << Entry("reset", 0) >>
  /\ cut' = TRUE
  /\ UNCHANGED <<a, hl, f, bus_data, q, pending>>

(* z80_save and z80_load into a new core: what is pending is not saved.     *)
LoadSnapshot ==
  /\ "LOAD" \in Host
  /\ pending # << >>
  /\ pending' = << >>
  /\ cut' = TRUE
  /\ UNCHANGED <<a, hl, f, bus_data, q, tail, trace>>

Arithmetic ==
  \/ \E which \in 0 .. 7, v \in Operands : Operate(which, v)
  \/ IncA \/ DecA \/ Neg \/ Daa \/ Cpl \/ Scf \/ Ccf
  \/ \E which \in 0 .. 3 : RotateA(which)
  \/ \E which \in CbFields : ShiftA(which)
  \/ \E bit \in CbFields : TestBit(bit)
  \/ \E v \in Operands, iff2 \in BOOLEAN : LoadControl(v, iff2)
  \/ \E v \in Operands : InC(v)
  \/ \E bit \in CbFields, v, wz_high \in Operands : TestBitMemory(bit, v, wz_high)

WordArithmetic ==
  \E v \in WordOperands : AddWord(v) \/ AdcWord(v) \/ SbcWord(v)

(* The byte in memory is any operand, or what the last write left there.    *)
OnMemory ==
  \E v \in Operands \union {bus_data} :
    \/ ModifyMemory("inc_mem", v, alu_inc(f, v))
    \/ ModifyMemory("dec_mem", v, alu_dec(f, v))
    \/ \E which \in CbFields : ModifyMemory("cb_mem", v, alu_shift(which, f, v))
    \/ \E right \in BOOLEAN : RotateDigits(right, v)
    \/ BlockStep(v)

Next ==
  \/ Arithmetic \/ WordArithmetic \/ Quiet \/ OnMemory \/ Finish
  \/ PopRegisters \/ ResetPin \/ LoadSnapshot

Spec == Init /\ [][Next]_vars

-----------------------------------------------------------------------------
Ops == {"add", "adc", "sub", "sbc", "and", "xor", "or", "cp", "inc", "dec", "neg",
        "daa", "rlc", "rrc", "rl", "rr", "cb", "bit", "cpl", "scf", "ccf", "ld_a_i",
        "in", "add16", "adc16", "sbc16", "quiet", "inc_mem", "dec_mem", "cb_mem",
        "rrd", "rld", "block", "reset"}

(* Every register keeps its width, whatever is computed (the casts to        *)
(* uint8_t and uint16_t throughout z80core.c).                             *)
TypeOK ==
  /\ a \in Byte /\ hl \in Word /\ bus_data \in Byte
  /\ f \subseteq Flags /\ q \subseteq Flags
  /\ pending \in Seq(SUBSET Flags) /\ Len(pending) <= 1
  /\ tail \in BOOLEAN /\ cut \in BOOLEAN
  /\ trace \in Seq([op : Ops, v : Word, a : Byte, hl : Word, f : SUBSET Flags,
                    bus_data : Byte])

Last   == trace[Len(trace)]
Before == trace[Len(trace) - 1]

Signed(x) == IF x >= 128 THEN x - 256 ELSE x

(* The operand and the carry of an instruction that adds or subtracts; NEG  *)
(* subtracts from nothing.                                                 *)
Augend(e)  == IF e.op = "neg" THEN 0 ELSE e.a
CarryIn(e) == IF e.op \in {"adc", "sbc"} THEN Carry(e.f) ELSE 0

(* What instruction e should leave of its operands.  INC and DEC leave C     *)
(* alone (z80core.c:601).                                                   *)
Exact(e, result, flags) ==
  LET x == Augend(e)
      c == CarryIn(e)
  IN /\ e.op \in {"add", "adc", "inc"} =>
          /\ result = (x + e.v + c) % 256
          /\ "H" \in flags <=> (x % 16) + (e.v % 16) + c > 15
          /\ "PV" \in flags <=> Signed(x) + Signed(e.v) + c \notin -128 .. 127
          /\ "C" \in flags <=> IF e.op = "inc" THEN "C" \in e.f ELSE x + e.v + c > 255
     /\ e.op \in {"sub", "sbc", "dec", "neg"} =>
          /\ result = (x - e.v - c) % 256
          /\ "H" \in flags <=> x % 16 < (e.v % 16) + c
          /\ "PV" \in flags <=> Signed(x) - Signed(e.v) - c \notin -128 .. 127
          /\ "C" \in flags <=> IF e.op = "dec" THEN "C" \in e.f ELSE x < e.v + c

(* The flags of a sum say what happened to the numbers: C that it left the  *)
(* byte, H that the lower digits left theirs, P/V that the signed sum did.  *)
SumsAreExact == trace # << >> => Exact(Last, a, f)

(* The branches after CP compare: JR Z equal, JR C below, and below as       *)
(* signed numbers where JP M and JP PE disagree.                           *)
ComparisonBranches ==
  (trace # << >> /\ Last.op = "cp") =>
    /\ a = Last.a
    /\ condition_met(f, 1) <=> a = Last.v
    /\ condition_met(f, 3) <=> a < Last.v
    /\ condition_met(f, 7) # condition_met(f, 5) <=> Signed(a) < Signed(Last.v)

Digits(x)  == x % 16 < 10 /\ x \div 16 < 10
Decimal(x) == 10 * (x \div 16) + (x % 16)

(* DAA after an addition or subtraction of two decimal bytes gives their     *)
(* decimal sum or difference, and C its carry or borrow (z80core.c:714).   *)
DecimalCorrect ==
  (Len(trace) >= 2 /\ Last.op = "daa" /\ Digits(Before.a) /\ Digits(Before.v)) =>
    LET sum == Decimal(Before.a) + Decimal(Before.v) + CarryIn(Before)
        dif == Decimal(Before.a) - Decimal(Before.v) - CarryIn(Before)
    IN /\ Before.op \in {"add", "adc"} =>
            Digits(a) /\ Decimal(a) = sum % 100 /\ ("C" \in f <=> sum > 99)
       /\ Before.op \in {"sub", "sbc"} =>
            Digits(a) /\ Decimal(a) = dif % 100 /\ ("C" \in f <=> dif < 0)

(* A rotation undoes its opposite: A of RLCA and RRCA, A and C of RLA and   *)
(* RRA, which leave S, Z and P/V alone (z80core.c:664), and both the digit *)
(* in A and the byte in memory of RRD and RLD, INC (HL) and DEC (HL).      *)
RotationsUndo ==
  Len(trace) >= 2 =>
    /\ <<Before.op, Last.op>> \in {<<"rlc", "rrc">>, <<"rrc", "rlc">>} => a = Before.a
    /\ <<Before.op, Last.op>> \in {<<"rl", "rr">>, <<"rr", "rl">>} =>
         a = Before.a /\ \A g \in SZPV \union {"C"} : g \in f <=> g \in Before.f
    /\ (/\ <<Before.op, Last.op>> \in {<<"rrd", "rld">>, <<"rld", "rrd">>,
                                       <<"inc_mem", "dec_mem">>, <<"dec_mem", "inc_mem">>}
        /\ Last.v = Last.bus_data) => a = Before.a /\ bus_data = Before.v

(* The 16-bit sum is built from two 8-bit ones, and the flags show it        *)
(* (z80core.c:633): they are those of the upper byte, but Z is of the pair. *)
WordsAreTwoBytes ==
  (trace # << >> /\ Last.op \in {"add16", "adc16", "sbc16"}) =>
    LET e == Last
        Half(x, y, c) == IF e.op = "sbc16" THEN sub_flags(x, y, c) ELSE alu_add(x, y, c)
        low  == Half(e.hl % 256, e.v % 256, IF e.op = "add16" THEN 0 ELSE Carry(e.f))
        high == Half(e.hl \div 256, e.v \div 256, Carry(low.flags))
    IN /\ hl = 256 * high.value + low.value
       /\ f = IF e.op = "add16" THEN (e.f \intersect SZPV) \union (high.flags \ SZPV)
              ELSE (high.flags \ {"Z"}) \union FlagIf("Z", hl = 0)

(* The instructions that put nothing on the flag bus. *)
Silent(op) == op \in {"quiet", "cpl"}

(* Q is what the last instruction left: its flags, or nothing.  Only where   *)
(* the host has cut one short between its flags and its end, by RESET or by *)
(* a snapshot, may Q be off, and then for one instruction.                 *)
QFollowsFlags ==
  (~tail /\ ~cut /\ trace # << >> /\ Last.op # "reset") =>
    q = IF Silent(Last.op) THEN {} ELSE f

(* What a program sees of it: SCF and CCF take X and Y from A alone after an *)
(* instruction that computed flags, and from A and F after any other        *)
(* (z80core.c:1543).                                                       *)
ScfReadsTheFlagBus ==
  [][(Scf \/ Ccf) /\ trace # << >> /\ Last.op # "reset" /\ ~cut
     => f' \intersect XY =
          CopyXY(a) \union IF Silent(Last.op) THEN f \intersect XY ELSE {}]_vars
=============================================================================
