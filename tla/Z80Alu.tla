------------------------------- MODULE Z80Alu -------------------------------
(***************************************************************************)
(* The arithmetic of the Z80 core (z80core.c, "The ALU and its flags"):    *)
(* what each operation makes of its operands and of F.                     *)
(*                                                                         *)
(* A byte is a number, F is the set of the flags that are up.  The code    *)
(* tests single bits of sums, differences and exclusive ors; so do these   *)
(* definitions, bit by bit and with the code's widths.                     *)
(***************************************************************************)
EXTENDS Integers, FiniteSets

Byte == 0 .. 255
Word == {n \in Nat : n < 65536}   \* not 0 .. 65535, which the prover would write out
Flags == {"S", "Z", "Y", "H", "X", "PV", "N", "C"}
SZPV  == {"S", "Z", "PV"}
XY    == {"X", "Y"}

(* value & mask, of one bit; and that bit of an exclusive or. *)
Has(value, mask) == (value \div mask) % 2 = 1
HasXor(x, y, mask) == Has(x, mask) # Has(y, mask)

BitsOfByte == {1, 2, 4, 8, 16, 32, 64, 128}
BitMask(bit) == <<1, 2, 4, 8, 16, 32, 64, 128>>[bit + 1]

(* The byte with these bits. *)
FromBits(bits) ==
  LET One(bit) == IF bit \in bits THEN bit ELSE 0
  IN One(128) + One(64) + One(32) + One(16) + One(8) + One(4) + One(2) + One(1)

AndByte(x, y) == FromBits({b \in BitsOfByte : Has(x, b) /\ Has(y, b)})
XorByte(x, y) == FromBits({b \in BitsOfByte : HasXor(x, y, b)})
OrByte(x, y)  == FromBits({b \in BitsOfByte : Has(x, b) \/ Has(y, b)})

FlagIf(flag, condition) == IF condition THEN {flag} ELSE {}
Carry(f) == IF "C" \in f THEN 1 ELSE 0

parity_even(value) == Cardinality({w \in BitsOfByte : Has(value, w)}) % 2 = 0
ParityFlag(value)  == FlagIf("PV", parity_even(value))

CopyXY(value) == FlagIf("Y", Has(value, 32)) \union FlagIf("X", Has(value, 8))

flags_sz_xy(result) ==
  FlagIf("S", Has(result, 128)) \union FlagIf("Z", result = 0) \union CopyXY(result)

-----------------------------------------------------------------------------
(* What an operation leaves: the result and the new F. *)
Out(value, flags) == [value |-> value, flags |-> flags]

(* (a ^ value ^ result) & bit: a carry came into that bit. *)
CarryInto(bit, a, value, result) == HasXor(a, value, bit) # Has(result, bit)

(* (a ^ result) & (value ^ result) & sign *)
AddOverflow(sign, a, value, result) ==
  HasXor(a, result, sign) /\ HasXor(value, result, sign)

(* (a ^ value) & (a ^ result) & sign *)
SubOverflow(sign, a, value, result) ==
  HasXor(a, value, sign) /\ HasXor(a, result, sign)

alu_add(a, value, carry) ==
  LET wide   == (a + value + carry) % 65536
      result == wide % 256
  IN Out(result, flags_sz_xy(result)
                   \union FlagIf("H", CarryInto(16, a, value, result))
                   \union FlagIf("PV", AddOverflow(128, a, value, result))
                   \union FlagIf("C", Has(wide, 256)))

(* Mutant: the signs are compared as in an addition. *)
sub_flags_as_add(a, value, carry) ==
  LET wide   == (a - value - carry) % 65536
      result == wide % 256
  IN Out(result, flags_sz_xy(result) \union {"N"}
                   \union FlagIf("H", CarryInto(16, a, value, result))
                   \union FlagIf("PV", AddOverflow(128, a, value, result))
                   \union FlagIf("C", Has(wide, 256)))

(* Shared by SUB, SBC, CP and NEG. *)
sub_flags(a, value, carry) ==
  LET wide   == (a - value - carry) % 65536
      result == wide % 256
  IN Out(result, flags_sz_xy(result) \union {"N"}
                   \union FlagIf("H", CarryInto(16, a, value, result))
                   \union FlagIf("PV", SubOverflow(128, a, value, result))
                   \union FlagIf("C", Has(wide, 256)))

(* Mutant: CP keeps the difference. *)
alu_cp_stores(a, value) ==
  Out(sub_flags(a, value, 0).value,
      (sub_flags(a, value, 0).flags \ XY) \union CopyXY(value))

(* CP keeps A, and X and Y copy the operand. *)
alu_cp(a, value) == Out(a, (sub_flags(a, value, 0).flags \ XY) \union CopyXY(value))

alu_logic(result, half_carry) ==
  Out(result, flags_sz_xy(result) \union half_carry \union ParityFlag(result))

(* The eight operations that bits 5-3 of an opcode select. *)
alu_operation(which, a, f, value) ==
  CASE which = 0 -> alu_add(a, value, 0)
    [] which = 1 -> alu_add(a, value, Carry(f))
    [] which = 2 -> sub_flags(a, value, 0)
    [] which = 3 -> sub_flags(a, value, Carry(f))
    [] which = 4 -> alu_logic(AndByte(a, value), {"H"})
    [] which = 5 -> alu_logic(XorByte(a, value), {})
    [] which = 6 -> alu_logic(OrByte(a, value), {})
    [] which = 7 -> alu_cp(a, value)

alu_inc(f, value) ==
  LET result == (value + 1) % 256
  IN Out(result, (f \intersect {"C"}) \union flags_sz_xy(result)
                   \union FlagIf("H", result % 16 = 0)
                   \union FlagIf("PV", result = 128))

alu_dec(f, value) ==
  LET result == (value - 1) % 256
  IN Out(result, (f \intersect {"C"}) \union {"N"} \union flags_sz_xy(result)
                   \union FlagIf("H", result % 16 = 15)
                   \union FlagIf("PV", result = 127))

execute_neg(a) == sub_flags(0, a, 0)

(* CPL, the one that changes F without write_flags. *)
execute_cpl(a, f) ==
  LET result == 255 - a
  IN Out(result, (f \ XY) \union CopyXY(result) \union {"H", "N"})

-----------------------------------------------------------------------------
(* ADD HL,rr: a 16-bit sum that leaves S, Z and P/V alone. *)
alu_add16(a, f, value) ==
  LET wide   == a + value
      result == wide % 65536
  IN Out(result, (f \intersect SZPV) \union CopyXY(result \div 256)
                   \union FlagIf("H", CarryInto(4096, a, value, result))
                   \union FlagIf("C", Has(wide, 65536)))

WordFlags(result) ==
  FlagIf("S", Has(result, 32768)) \union CopyXY(result \div 256)
    \union FlagIf("Z", result = 0)

(* ADC HL,rr sets every flag. *)
alu_adc16(a, f, value) ==
  LET wide   == a + value + Carry(f)
      result == wide % 65536
  IN Out(result, WordFlags(result)
                   \union FlagIf("H", CarryInto(4096, a, value, result))
                   \union FlagIf("PV", AddOverflow(32768, a, value, result))
                   \union FlagIf("C", Has(wide, 65536)))

(* Mutant: the signs are compared as in an addition. *)
alu_sbc16_as_add(a, f, value) ==
  LET wide   == (a - value - Carry(f)) % 131072
      result == wide % 65536
  IN Out(result, WordFlags(result) \union {"N"}
                   \union FlagIf("H", CarryInto(4096, a, value, result))
                   \union FlagIf("PV", AddOverflow(32768, a, value, result))
                   \union FlagIf("C", Has(wide, 65536)))

(* SBC HL,rr.  Of the 32 bits of the difference only bit 16 is looked at.   *)
alu_sbc16(a, f, value) ==
  LET wide   == (a - value - Carry(f)) % 131072
      result == wide % 65536
  IN Out(result, WordFlags(result) \union {"N"}
                   \union FlagIf("H", CarryInto(4096, a, value, result))
                   \union FlagIf("PV", SubOverflow(32768, a, value, result))
                   \union FlagIf("C", Has(wide, 65536)))

-----------------------------------------------------------------------------
(* The left and right moves every rotate and shift is made of. *)
Left(value, bit)  == ((2 * value) % 256) + bit
Right(value, bit) == (value \div 2) + 128 * bit
TopBit(value)     == value \div 128
LowBit(value)     == value % 2

(* Mutant: RRA brings in the bit it shifts out. *)
RotatedStale(which, value, carry) ==
  CASE which = 0 -> Left(value, TopBit(value))
    [] which = 1 -> Right(value, LowBit(value))
    [] which = 2 -> Left(value, carry)
    [] which = 3 -> Right(value, LowBit(value))
    [] which = 4 -> Left(value, 0)
    [] which = 5 -> Right(value, TopBit(value))
    [] which = 6 -> Left(value, 1)
    [] which = 7 -> Right(value, 0)

(* RLC, RRC, RL, RR, SLA, SRA, SLL and SRL: the bit that comes in.           *)
Rotated(which, value, carry) ==
  CASE which = 0 -> Left(value, TopBit(value))
    [] which = 1 -> Right(value, LowBit(value))
    [] which = 2 -> Left(value, carry)
    [] which = 3 -> Right(value, carry)
    [] which = 4 -> Left(value, 0)
    [] which = 5 -> Right(value, TopBit(value))
    [] which = 6 -> Left(value, 1)
    [] which = 7 -> Right(value, 0)

CarryOut(which, value) ==
  FlagIf("C", (IF which % 2 = 0 THEN TopBit(value) ELSE LowBit(value)) = 1)

(* RLCA, RRCA, RLA and RRA test nothing and keep S, Z and P/V.              *)
alu_rotate_a(which, a, f) ==
  LET result == Rotated(which, a, Carry(f))
  IN Out(result, (f \intersect SZPV) \union CopyXY(result) \union CarryOut(which, a))

alu_shift(which, f, value) ==
  LET result == Rotated(which, value, Carry(f))
  IN Out(result, flags_sz_xy(result) \union ParityFlag(result)
                   \union CarryOut(which, value))

(* BIT: Z and P/V agree, S only for bit 7, X and Y from elsewhere.          *)
alu_bit(mask, f, value, undocumented) ==
  Out(value, (f \intersect {"C"}) \union {"H"} \union CopyXY(undocumented)
               \union FlagIf("S", mask = 128 /\ Has(value, mask))
               \union IF Has(value, mask) THEN {} ELSE {"Z", "PV"})

(* Mutant: the upper digit is corrected only for a value above 9F. *)
daa_adjust_high(a, f) ==
  (IF "H" \in f \/ a % 16 > 9 THEN 6 ELSE 0) + (IF "C" \in f \/ a > 159 THEN 96 ELSE 0)

(* What DAA adds or subtracts. *)
daa_adjust(a, f) ==
  (IF "H" \in f \/ a % 16 > 9 THEN 6 ELSE 0) + (IF "C" \in f \/ a > 153 THEN 96 ELSE 0)

alu_daa(a, f) ==
  LET subtracting == "N" \in f
      result == IF subtracting THEN (a - daa_adjust(a, f)) % 256
                ELSE (a + daa_adjust(a, f)) % 256
  IN Out(result, flags_sz_xy(result) \union ParityFlag(result)
                   \union (f \intersect {"N"})
                   \union FlagIf("C", "C" \in f \/ a > 153)
                   \union FlagIf("H", IF subtracting THEN "H" \in f /\ a % 16 < 6
                                      ELSE a % 16 > 9))

-----------------------------------------------------------------------------
(* RRD and RLD: what becomes of A; the byte in memory takes the other digit. *)
DigitRotated(right, a, memory) ==
  (a - (a % 16)) + (IF right THEN memory % 16 ELSE memory \div 16)
DigitStored(right, a, memory) ==
  IF right THEN 16 * (a % 16) + (memory \div 16)
           ELSE ((16 * memory) % 256) + (a % 16)

(* Also the flags of IN r,(C). *)
digit_rotate_flags(f, value) ==
  (f \intersect {"C"}) \union flags_sz_xy(value) \union ParityFlag(value)

(* Block transfers: X and Y are bits 3 and 1 of A plus the byte; P/V says   *)
(* that there is more to do.                                               *)
BlockXY(n) == FlagIf("X", Has(n, 8)) \union FlagIf("Y", Has(n, 2))

block_transfer_flags(a, f, value, more) ==
  (f \intersect {"S", "Z", "C"}) \union BlockXY((a + value) % 256)
    \union FlagIf("PV", more)

block_compare_flags(a, f, value, more) ==
  LET result == (a - value) % 256
      half   == CarryInto(16, a, value, result)
  IN (f \intersect {"C"}) \union {"N"} \union FlagIf("S", Has(result, 128))
       \union FlagIf("Z", result = 0) \union FlagIf("H", half)
       \union BlockXY(IF half THEN (result - 1) % 256 ELSE result)
       \union FlagIf("PV", more)

(* Block I/O: b is B after its decrement. *)
block_io_flags(b, value, addend) ==
  LET k == value + addend
  IN flags_sz_xy(b) \union FlagIf("N", Has(value, 128))
       \union (IF k > 255 THEN {"H", "C"} ELSE {})
       \union ParityFlag(XorByte(k % 8, b))

(* While it repeats, X and Y come from the address it resumes at. *)
block_repeat_undocumented(f, pc_high) == (f \ XY) \union CopyXY(pc_high)

(* LD A,I and LD A,R: P/V reports IFF2. *)
load_a_flags(f, value, iff2) ==
  (f \intersect {"C"}) \union flags_sz_xy(value) \union FlagIf("PV", iff2)

(* Mutant: X and Y are those of A. *)
ResidueXYOfA(a, f, q) == CopyXY(a)

(* SCF and CCF: A, or what Q and F disagree about. *)
ResidueXY(a, f, q) == CopyXY(a) \union (((q \ f) \union (f \ q)) \intersect XY)

execute_scf(a, f, q) == (f \intersect SZPV) \union ResidueXY(a, f, q) \union {"C"}

execute_ccf(a, f, q) ==
  (f \intersect SZPV) \union ResidueXY(a, f, q)
    \union (IF "C" \in f THEN {"H"} ELSE {"C"})

(* NZ, Z, NC, C, PO, PE, P and M. *)
condition_met(f, code) ==
  LET flag == <<"Z", "C", "PV", "S">>[code \div 2 + 1]
  IN (flag \in f) = (code % 2 = 1)
=============================================================================
