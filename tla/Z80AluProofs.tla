---------------------------- MODULE Z80AluProofs ----------------------------
(***************************************************************************)
(* Proofs about the arithmetic: the bits the code tests mean what the      *)
(* manual says they mean, for every operand; Q follows the flags; and what *)
(* two instructions in a row do together is decimal, undone or a word.     *)
(*                                                                         *)
(* The code finds a half carry by comparing bit 4 of the operands and the  *)
(* result, an overflow by comparing their signs.  The lemmas relate these  *)
(* bits to sums and differences of digits and of signed numbers.           *)
(***************************************************************************)
EXTENDS Z80Accumulator, TLAPS

(* The parity of a sum is the exclusive or of the parities. *)
LEMMA Parity ==
  ASSUME NEW x \in Int, NEW y \in Int, NEW h \in {0, 1}
  PROVE  ((x % 2 = 1) # (y % 2 = 1)) # ((x + y + h) % 2 = 1) <=> h = 1
<1>1. x % 2 \in {0, 1} /\ y % 2 \in {0, 1}
  OBVIOUS
<1>2. (x + y + h) % 2 = ((x % 2) + (y % 2) + h) % 2
  OBVIOUS
<1> QED BY <1>1, <1>2

(* And so is that of a difference. *)
LEMMA ParityOfDifference ==
  ASSUME NEW x \in Int, NEW y \in Int, NEW h \in {0, 1}
  PROVE  ((x % 2 = 1) # (y % 2 = 1)) # ((x - y - h) % 2 = 1) <=> h = 1
<1>1. x % 2 \in {0, 1} /\ y % 2 \in {0, 1}
  OBVIOUS
<1>2. (x - y - h) % 2 = ((x % 2) + (y % 2) + h) % 2
  OBVIOUS
<1> QED BY <1>1, <1>2

(* A byte and its two digits. *)
LEMMA TwoDigits ==
  ASSUME NEW x \in Byte
  PROVE  /\ x \div 16 \in 0 .. 15 /\ x % 16 \in 0 .. 15
         /\ x = 16 * (x \div 16) + (x % 16)
BY DEF Byte

(* Bit 4 of a sum shows the carry out of the lower digits. *)
LEMMA HalfCarry ==
  ASSUME NEW x \in Byte, NEW y \in Byte, NEW c \in {0, 1}, NEW r \in Byte,
         r = (x + y + c) % 256
  PROVE  CarryInto(16, x, y, r) <=> (x % 16) + (y % 16) + c > 15
<1> DEFINE A == x \div 16
           B == y \div 16
           R == r \div 16
           h == IF (x % 16) + (y % 16) + c > 15 THEN 1 ELSE 0
           l == (x % 16) + (y % 16) + c - 16 * h
           S == A + B + h
<1>1. /\ A \in 0 .. 15 /\ B \in 0 .. 15 /\ h \in {0, 1}
      /\ S \in 0 .. 31 /\ l \in 0 .. 15 /\ x + y + c = 16 * S + l
  BY TwoDigits
<1>2. R = S % 16
  <2> HIDE DEF A, B, h, l, S
  <2>1. CASE S < 16
    <3>1. r = 16 * S + l
      BY <1>1, <2>1
    <3>2. r \div 16 = S
      BY <3>1, <1>1, <2>1
    <3>3. S % 16 = S
      BY <1>1, <2>1
    <3> QED BY <3>2, <3>3
  <2>2. CASE S >= 16
    <3>1. r = 16 * (S - 16) + l
      BY <1>1, <2>2
    <3>2. r \div 16 = S - 16
      BY <3>1, <1>1, <2>2
    <3>3. S % 16 = S - 16
      BY <1>1, <2>2
    <3> QED BY <3>2, <3>3
  <2> QED BY <1>1, <2>1, <2>2
<1>3. R % 2 = 1 <=> S % 2 = 1
  <2> HIDE DEF S, R
  <2> QED BY <1>1, <1>2
<1>4. ((A % 2 = 1) # (B % 2 = 1)) # (S % 2 = 1) <=> h = 1
  <2> HIDE DEF A, B, h
  <2> QED BY <1>1, Parity
<1> QED BY <1>3, <1>4 DEF CarryInto, HasXor, Has

(* Bit 4 of a difference shows the borrow of the lower digits. *)
LEMMA HalfBorrow ==
  ASSUME NEW x \in Byte, NEW y \in Byte, NEW c \in {0, 1}, NEW r \in Byte,
         r = (x - y - c) % 256
  PROVE  CarryInto(16, x, y, r) <=> x % 16 < (y % 16) + c
<1> DEFINE A == x \div 16
           B == y \div 16
           R == r \div 16
           h == IF x % 16 < (y % 16) + c THEN 1 ELSE 0
           l == (x % 16) - (y % 16) - c + 16 * h
           S == A - B - h
<1>1. /\ A \in 0 .. 15 /\ B \in 0 .. 15 /\ h \in {0, 1}
      /\ S \in -16 .. 15 /\ l \in 0 .. 15 /\ x - y - c = 16 * S + l
  BY TwoDigits
<1>2. R = S % 16
  <2> HIDE DEF A, B, h, l, S
  <2>1. CASE S >= 0
    <3>1. r = 16 * S + l
      BY <1>1, <2>1
    <3>2. r \div 16 = S
      BY <3>1, <1>1, <2>1
    <3>3. S % 16 = S
      BY <1>1, <2>1
    <3> QED BY <3>2, <3>3
  <2>2. CASE S < 0
    <3>1. r = 16 * (S + 16) + l
      BY <1>1, <2>2
    <3>2. r \div 16 = S + 16
      BY <3>1, <1>1, <2>2
    <3>3. S % 16 = S + 16
      BY <1>1, <2>2
    <3> QED BY <3>2, <3>3
  <2> QED BY <1>1, <2>1, <2>2
<1>3. R % 2 = 1 <=> S % 2 = 1
  <2> HIDE DEF S, R
  <2> QED BY <1>1, <1>2
<1>4. ((A % 2 = 1) # (B % 2 = 1)) # (S % 2 = 1) <=> h = 1
  <2> HIDE DEF A, B, h
  <2> QED BY <1>1, ParityOfDifference
<1> QED BY <1>3, <1>4 DEF CarryInto, HasXor, Has

(* Bit 7 is the sign. *)
LEMMA SignBit ==
  ASSUME NEW x \in Byte
  PROVE  Has(x, 128) <=> x > 127
BY DEF Has, Byte

(* A number less than a byte out of range, brought back. *)
LEMMA OneTurn ==
  ASSUME NEW n \in -256 .. 511
  PROVE  /\ n < 0 => n % 256 = n + 256
         /\ n \in 0 .. 255 => n % 256 = n
         /\ n > 255 => n % 256 = n - 256
OBVIOUS

(* The signs show that a signed sum or difference has left the byte. *)
LEMMA Overflow ==
  ASSUME NEW x \in Byte, NEW y \in Byte, NEW c \in {0, 1}, NEW r \in Byte
  PROVE  /\ r = (x + y + c) % 256 =>
              (AddOverflow(128, x, y, r) <=> Signed(x) + Signed(y) + c \notin -128 .. 127)
         /\ r = (x - y - c) % 256 =>
              (SubOverflow(128, x, y, r) <=> Signed(x) - Signed(y) - c \notin -128 .. 127)
<1> DEFINE X == Signed(x)
           Y == Signed(y)
<1>1. /\ Has(x, 128) = (x > 127) /\ Has(y, 128) = (y > 127)
      /\ Has(r, 128) = (r > 127)
  <2>1. \A n \in Byte : Has(n, 128) = (n > 127)
    BY DEF Has, Byte
  <2> QED BY <2>1
<1>2. /\ X = IF x > 127 THEN x - 256 ELSE x
      /\ Y = IF y > 127 THEN y - 256 ELSE y
      /\ x \in 0 .. 255 /\ y \in 0 .. 255 /\ r \in 0 .. 255
  BY DEF Signed, Byte
<1>3. ASSUME r = (x + y + c) % 256
      PROVE  AddOverflow(128, x, y, r) <=> X + Y + c \notin -128 .. 127
  <2>1. r = x + y + c \/ r = x + y + c - 256
    BY <1>2, <1>3, OneTurn
  <2>2. AddOverflow(128, x, y, r) <=>
          ((x > 127) # (r > 127)) /\ ((y > 127) # (r > 127))
    BY <1>1 DEF AddOverflow, HasXor
  <2> HIDE DEF X, Y
  <2> QED BY <1>2, <2>1, <2>2
<1>4. ASSUME r = (x - y - c) % 256
      PROVE  SubOverflow(128, x, y, r) <=> X - Y - c \notin -128 .. 127
  <2>1. r = x - y - c \/ r = x - y - c + 256
    BY <1>2, <1>4, OneTurn
  <2>2. SubOverflow(128, x, y, r) <=>
          ((x > 127) # (y > 127)) /\ ((x > 127) # (r > 127))
    BY <1>1 DEF SubOverflow, HasXor
  <2> HIDE DEF X, Y
  <2> QED BY <1>2, <2>1, <2>2
<1> QED BY <1>3, <1>4

(* What an addition leaves. *)
LEMMA AddExact ==
  ASSUME NEW x \in Byte, NEW y \in Byte, NEW c \in {0, 1}
  PROVE  /\ alu_add(x, y, c).value = (x + y + c) % 256
         /\ "H" \in alu_add(x, y, c).flags <=> (x % 16) + (y % 16) + c > 15
         /\ "PV" \in alu_add(x, y, c).flags
              <=> Signed(x) + Signed(y) + c \notin -128 .. 127
         /\ "C" \in alu_add(x, y, c).flags <=> x + y + c > 255
         /\ "N" \notin alu_add(x, y, c).flags
<1> DEFINE w == (x + y + c) % 65536
           r == w % 256
<1>1. w = x + y + c /\ r \in Byte /\ r = (x + y + c) % 256
  BY DEF Byte
<1>2. /\ alu_add(x, y, c).value = r
      /\ "H" \in alu_add(x, y, c).flags <=> CarryInto(16, x, y, r)
      /\ "PV" \in alu_add(x, y, c).flags <=> AddOverflow(128, x, y, r)
      /\ "C" \in alu_add(x, y, c).flags <=> Has(w, 256)
      /\ "N" \notin alu_add(x, y, c).flags
  <2> HIDE DEF w
  <2> QED BY DEF w, alu_add, Out, FlagIf, flags_sz_xy, CopyXY
<1>3. Has(w, 256) <=> x + y + c > 255
  <2> HIDE DEF w
  <2>1. w \in 0 .. 511
    BY <1>1 DEF Byte
  <2>2. CASE w < 256
    <3>1. w \div 256 = 0
      BY <2>1, <2>2
    <3> QED BY <1>1, <2>2, <3>1 DEF Has
  <2>3. CASE w >= 256
    <3>1. w \div 256 = 1
      BY <2>1, <2>3
    <3> QED BY <1>1, <2>3, <3>1 DEF Has, Byte
  <2> QED BY <2>1, <2>2, <2>3
<1> HIDE DEF w, r
<1>4. "H" \in alu_add(x, y, c).flags <=> (x % 16) + (y % 16) + c > 15
  <2>1. CarryInto(16, x, y, r) <=> (x % 16) + (y % 16) + c > 15
    <3>1. r \in Byte /\ r = (x + y + c) % 256
      BY <1>1
    <3> HIDE DEF CarryInto
    <3> QED BY ONLY <3>1, HalfCarry, x \in Byte, y \in Byte, c \in {0, 1}, ZenonT(40)
  <2> QED BY <1>2, <2>1
<1>5. "PV" \in alu_add(x, y, c).flags <=> Signed(x) + Signed(y) + c \notin -128 .. 127
  <2>1. AddOverflow(128, x, y, r) <=> Signed(x) + Signed(y) + c \notin -128 .. 127
    <3>1. r \in Byte /\ r = (x + y + c) % 256
      BY <1>1
    <3> HIDE DEF AddOverflow, SubOverflow, Signed
    <3> QED BY ONLY <3>1, Overflow, x \in Byte, y \in Byte, c \in {0, 1}, ZenonT(40)
  <2> QED BY <1>2, <2>1
<1> QED BY <1>1, <1>2, <1>3, <1>4, <1>5

(* What a subtraction leaves. *)
LEMMA SubExact ==
  ASSUME NEW x \in Byte, NEW y \in Byte, NEW c \in {0, 1}
  PROVE  /\ sub_flags(x, y, c).value = (x - y - c) % 256
         /\ "H" \in sub_flags(x, y, c).flags <=> x % 16 < (y % 16) + c
         /\ "PV" \in sub_flags(x, y, c).flags
              <=> Signed(x) - Signed(y) - c \notin -128 .. 127
         /\ "C" \in sub_flags(x, y, c).flags <=> x < y + c
         /\ "N" \in sub_flags(x, y, c).flags
         /\ "Z" \in sub_flags(x, y, c).flags <=> sub_flags(x, y, c).value = 0
         /\ "S" \in sub_flags(x, y, c).flags <=> sub_flags(x, y, c).value > 127
<1> DEFINE w == (x - y - c) % 65536
           r == w % 256
<1>1. /\ w = IF x - y - c < 0 THEN x - y - c + 65536 ELSE x - y - c
      /\ r \in Byte /\ r = (x - y - c) % 256
  BY SMTT(30) DEF Byte
<1>2. /\ sub_flags(x, y, c).value = r
      /\ "H" \in sub_flags(x, y, c).flags <=> CarryInto(16, x, y, r)
      /\ "PV" \in sub_flags(x, y, c).flags <=> SubOverflow(128, x, y, r)
      /\ "C" \in sub_flags(x, y, c).flags <=> Has(w, 256)
      /\ "N" \in sub_flags(x, y, c).flags
      /\ "Z" \in sub_flags(x, y, c).flags <=> r = 0
      /\ "S" \in sub_flags(x, y, c).flags <=> Has(r, 128)
  <2> HIDE DEF w
  <2> QED BY DEF w, sub_flags, Out, FlagIf, flags_sz_xy, CopyXY
<1>3. Has(w, 256) <=> x < y + c
  <2>1. CASE x < y + c
    <3>1. w \in 65280 .. 65535
      BY <1>1, <2>1 DEF Byte
    <3> HIDE DEF w
    <3>2. w \div 256 = 255
      BY <3>1
    <3> QED BY <2>1, <3>2 DEF Has
  <2>2. CASE ~(x < y + c)
    <3>1. w \in 0 .. 255
      BY <1>1, <2>2 DEF Byte
    <3> HIDE DEF w
    <3>2. w \div 256 = 0
      BY <3>1
    <3> QED BY <2>2, <3>2 DEF Has
  <2> QED BY <2>1, <2>2
<1> HIDE DEF w, r
<1>4. "H" \in sub_flags(x, y, c).flags <=> x % 16 < (y % 16) + c
  <2>1. CarryInto(16, x, y, r) <=> x % 16 < (y % 16) + c
    <3>1. r \in Byte /\ r = (x - y - c) % 256
      BY <1>1
    <3> HIDE DEF CarryInto
    <3> QED BY ONLY <3>1, HalfBorrow, x \in Byte, y \in Byte, c \in {0, 1}, ZenonT(40)
  <2> QED BY <1>2, <2>1
<1>5. "PV" \in sub_flags(x, y, c).flags <=> Signed(x) - Signed(y) - c \notin -128 .. 127
  <2>1. SubOverflow(128, x, y, r) <=> Signed(x) - Signed(y) - c \notin -128 .. 127
    <3>1. r \in Byte /\ r = (x - y - c) % 256
      BY <1>1
    <3> HIDE DEF AddOverflow, SubOverflow, Signed
    <3> QED BY ONLY <3>1, Overflow, x \in Byte, y \in Byte, c \in {0, 1}, ZenonT(40)
  <2> QED BY <1>2, <2>1
<1>6. "S" \in sub_flags(x, y, c).flags <=> r > 127
  BY <1>1, <1>2, SignBit
<1> QED BY <1>1, <1>2, <1>3, <1>4, <1>5, <1>6

-----------------------------------------------------------------------------
(* What the operations leave has its width. *)
ByteOut(out) == out.value \in Byte /\ out.flags \subseteq Flags
WordOut(out) == out.value \in Word /\ out.flags \subseteq Flags

LEMMA FlagSets ==
  ASSUME NEW x, NEW g \in SUBSET Flags
  PROVE  /\ CopyXY(x) \subseteq Flags /\ flags_sz_xy(x) \subseteq Flags
         /\ ParityFlag(x) \subseteq Flags /\ BlockXY(x) \subseteq Flags
         /\ WordFlags(x) \subseteq Flags
         /\ \A n : CarryOut(n, x) \subseteq Flags
         /\ Carry(g) \in {0, 1}
BY DEF CopyXY, flags_sz_xy, ParityFlag, BlockXY, WordFlags, CarryOut, Carry, FlagIf, Flags

LEMMA AddSubTyped ==
  ASSUME NEW x \in Byte, NEW y \in Byte, NEW c \in {0, 1}
  PROVE  ByteOut(alu_add(x, y, c)) /\ ByteOut(sub_flags(x, y, c))
<1>1. /\ ((x + y + c) % 65536) % 256 \in Byte
      /\ ((x - y - c) % 65536) % 256 \in Byte
  BY DEF Byte
<1>2. \A r : flags_sz_xy(r) \subseteq Flags
  BY FlagSets, {} \in SUBSET Flags
<1> QED BY <1>1, <1>2 DEF ByteOut, alu_add, sub_flags, Out, FlagIf, Flags

LEMMA BitsTyped ==
  ASSUME NEW S
  PROVE  FromBits(S) \in Byte
BY DEF FromBits, Byte

LEMMA LogicTyped ==
  ASSUME NEW r \in Byte, NEW h \in SUBSET Flags
  PROVE  ByteOut(alu_logic(r, h))
BY FlagSets DEF ByteOut, alu_logic, Out

LEMMA OperationTyped ==
  ASSUME NEW which \in 0 .. 7, NEW x \in Byte, NEW y \in Byte, NEW g \in SUBSET Flags
  PROVE  ByteOut(alu_operation(which, x, g, y))
<1>1. Carry(g) \in {0, 1} /\ 0 \in {0, 1}
  BY FlagSets
<1>2. /\ ByteOut(alu_add(x, y, 0)) /\ ByteOut(alu_add(x, y, Carry(g)))
      /\ ByteOut(sub_flags(x, y, 0)) /\ ByteOut(sub_flags(x, y, Carry(g)))
  BY <1>1, AddSubTyped
<1>3. ByteOut(alu_cp(x, y))
  <2>1. CopyXY(y) \subseteq Flags
    BY FlagSets
  <2> QED BY <1>2, <2>1 DEF ByteOut, alu_cp, Out
<1>4. /\ ByteOut(alu_logic(AndByte(x, y), {"H"}))
      /\ ByteOut(alu_logic(XorByte(x, y), {}))
      /\ ByteOut(alu_logic(OrByte(x, y), {}))
  <2>1. /\ AndByte(x, y) \in Byte /\ XorByte(x, y) \in Byte /\ OrByte(x, y) \in Byte
        /\ {"H"} \in SUBSET Flags /\ {} \in SUBSET Flags
    BY BitsTyped DEF AndByte, XorByte, OrByte, Flags
  <2> QED BY <2>1, LogicTyped
<1> HIDE DEF ByteOut
<1> QED BY <1>2, <1>3, <1>4 DEF alu_operation

LEMMA RotatedTyped ==
  ASSUME NEW which \in 0 .. 7, NEW x \in Byte, NEW c \in {0, 1}
  PROVE  Rotated(which, x, c) \in Byte
<1>1. /\ (2 * x) % 256 \in 0 .. 254 /\ x \div 2 \in 0 .. 127
      /\ TopBit(x) \in {0, 1} /\ LowBit(x) \in {0, 1}
  BY DEF Byte, TopBit, LowBit
<1>2. \A b \in {0, 1} : Left(x, b) \in Byte /\ Right(x, b) \in Byte
  BY <1>1 DEF Left, Right, Byte
<1> QED BY <1>1, <1>2 DEF Rotated

(* Every other operation on a byte. *)
LEMMA ByteOperationsTyped ==
  ASSUME NEW x \in Byte, NEW g \in SUBSET Flags, NEW which \in 0 .. 7, NEW b
  PROVE  /\ ByteOut(alu_inc(g, x)) /\ ByteOut(alu_dec(g, x))
         /\ ByteOut(execute_neg(x)) /\ ByteOut(execute_cpl(x, g))
         /\ ByteOut(alu_daa(x, g)) /\ ByteOut(alu_bit(b, g, x, x))
         /\ ByteOut(alu_shift(which, g, x)) /\ ByteOut(alu_rotate_a(which, x, g))
<1>1. /\ \A r : /\ flags_sz_xy(r) \subseteq Flags /\ CopyXY(r) \subseteq Flags
               /\ ParityFlag(r) \subseteq Flags /\ CarryOut(which, r) \subseteq Flags
      /\ Carry(g) \in {0, 1}
  BY FlagSets
<1>2. (x + 1) % 256 \in Byte /\ (x - 1) % 256 \in Byte /\ 255 - x \in Byte
  BY DEF Byte
<1>3. ByteOut(alu_inc(g, x)) /\ ByteOut(alu_dec(g, x))
  BY <1>1, <1>2 DEF ByteOut, alu_inc, alu_dec, Out, FlagIf, Flags
<1>4. ByteOut(execute_neg(x))
  <2>1. 0 \in Byte /\ 0 \in {0, 1}
    BY DEF Byte
  <2> QED BY <2>1, AddSubTyped DEF execute_neg
<1>5. ByteOut(execute_cpl(x, g))
  BY <1>1, <1>2 DEF ByteOut, execute_cpl, Out, Flags
<1>6. ByteOut(alu_daa(x, g))
  <2>1. daa_adjust(x, g) \in 0 .. 102
    BY DEF daa_adjust
  <2>2. \A d \in 0 .. 102 : (x - d) % 256 \in Byte /\ (x + d) % 256 \in Byte
    BY SMTT(30) DEF Byte
  <2>3. (x - daa_adjust(x, g)) % 256 \in Byte /\ (x + daa_adjust(x, g)) % 256 \in Byte
    BY <2>1, <2>2
  <2> HIDE DEF daa_adjust
  <2> QED BY <1>1, <2>3 DEF ByteOut, alu_daa, Out, FlagIf, Flags
<1>7. ByteOut(alu_bit(b, g, x, x))
  BY <1>1 DEF ByteOut, alu_bit, Out, FlagIf, Flags
<1>8. ByteOut(alu_shift(which, g, x)) /\ ByteOut(alu_rotate_a(which, x, g))
  BY <1>1, RotatedTyped DEF ByteOut, alu_shift, alu_rotate_a, Out
<1> QED BY <1>3, <1>4, <1>5, <1>6, <1>7, <1>8

LEMMA WordOperationsTyped ==
  ASSUME NEW x \in Word, NEW y \in Word, NEW g \in SUBSET Flags
  PROVE  WordOut(alu_add16(x, g, y)) /\ WordOut(alu_adc16(x, g, y))
         /\ WordOut(alu_sbc16(x, g, y))
<1>1. /\ \A r : WordFlags(r) \subseteq Flags /\ CopyXY(r) \subseteq Flags
      /\ Carry(g) \in {0, 1}
  BY FlagSets
<1>2. \A n \in Int : n % 65536 \in Word
  BY DEF Word
<1>3. ASSUME NEW n \in Int PROVE n % 131072 \in Int
  OBVIOUS
<1>4. /\ x + y \in Int /\ x + y + Carry(g) \in Int /\ x - y - Carry(g) \in Int
  BY <1>1 DEF Word
<1>5. /\ (x + y) % 65536 \in Word /\ (x + y + Carry(g)) % 65536 \in Word
      /\ ((x - y - Carry(g)) % 131072) % 65536 \in Word
  <2>1. (x - y - Carry(g)) % 131072 \in Int
    BY <1>3, <1>4
  <2>2. /\ (x + y) % 65536 \in Word /\ (x + y + Carry(g)) % 65536 \in Word
    BY <1>2, <1>4
  <2>3. ((x - y - Carry(g)) % 131072) % 65536 \in Word
    BY <1>2, <2>1
  <2> QED BY <2>2, <2>3
<1>6. WordOut(alu_add16(x, g, y))
  <2>1. alu_add16(x, g, y).value \in Word
    BY <1>5 DEF alu_add16, Out
  <2>2. alu_add16(x, g, y).flags \subseteq Flags
    <3>1. g \intersect SZPV \subseteq Flags
      OBVIOUS
    <3>2. \A P : FlagIf("H", P) \subseteq Flags /\ FlagIf("C", P) \subseteq Flags
      BY DEF FlagIf, Flags
    <3> HIDE DEF FlagIf
    <3> QED BY <1>1, <3>1, <3>2 DEF alu_add16, Out
  <2> QED BY <2>1, <2>2 DEF WordOut
<1>7. WordOut(alu_adc16(x, g, y))
  BY <1>1, <1>5 DEF WordOut, alu_adc16, Out, FlagIf, Flags
<1>8. WordOut(alu_sbc16(x, g, y))
  BY <1>1, <1>5 DEF WordOut, alu_sbc16, Out, FlagIf, Flags
<1> QED BY <1>6, <1>7, <1>8

LEMMA DigitsTyped ==
  ASSUME NEW x \in Byte, NEW y \in Byte, NEW right \in BOOLEAN
  PROVE  DigitRotated(right, x, y) \in Byte /\ DigitStored(right, x, y) \in Byte
<1>1. /\ x \div 16 \in 0 .. 15 /\ x % 16 \in 0 .. 15 /\ x - (x % 16) \in 0 .. 240
      /\ y \div 16 \in 0 .. 15 /\ y % 16 \in 0 .. 15
  BY TwoDigits DEF Byte
<1>2. (16 * y) % 256 \in 0 .. 240
  <2>1. (16 * y) % 256 = 16 * (y % 16)
    BY TwoDigits DEF Byte
  <2> QED BY <1>1, <2>1
<1> QED BY <1>1, <1>2 DEF DigitRotated, DigitStored, Byte

-----------------------------------------------------------------------------
(* What the parts of an action leave typed. *)
LEMMA StartTyped ==
  ASSUME TypeOK, NEW op \in Ops, NEW v \in Word, Starting(op, v)
  PROVE  /\ trace' \in Seq([op : Ops, v : Word, a : Byte, hl : Word, f : SUBSET Flags,
                            bus_data : Byte])
         /\ cut' \in BOOLEAN
         /\ trace' # << >> /\ Len(trace') = Len(trace) + 1
         /\ trace'[Len(trace')] = Entry(op, v)
         /\ Len(trace) > 0 => trace'[Len(trace') - 1] = trace[Len(trace)]
<1>1. Entry(op, v) \in [op : Ops, v : Word, a : Byte, hl : Word, f : SUBSET Flags,
                        bus_data : Byte]
  BY DEF TypeOK, Entry
<1>2. trace' = Append(trace, Entry(op, v)) /\ cut' = (cut /\ pending # << >>)
  BY DEF Starting
<1> HIDE DEF Entry
<1> QED BY <1>1, <1>2 DEF TypeOK

LEMMA WritesTyped ==
  ASSUME TypeOK, NEW g \in SUBSET Flags, Writes(g) \/ WritesNothing \/ WritesEarly(g)
  PROVE  /\ q' \subseteq Flags /\ tail' \in BOOLEAN
         /\ pending' \in Seq(SUBSET Flags) /\ Len(pending') <= 1
         /\ Writes(g) \/ WritesEarly(g) => f' \subseteq Flags
<1>1. pending # << >> => pending[1] \subseteq Flags
  BY DEF TypeOK
<1>2. /\ << >> \in Seq(SUBSET Flags) /\ Len(<< >>) = 0
      /\ << g >> \in Seq(SUBSET Flags) /\ Len(<< g >>) = 1
  OBVIOUS
<1>3. Writes(g) \/ WritesEarly(g) => f' \subseteq Flags
  BY DEF Writes, WritesEarly
<1>4. CASE Writes(g)
  <2>1. q' = g /\ pending' = << >> /\ tail' = FALSE
    BY <1>4 DEF Writes
  <2>2. pending' \in Seq(SUBSET Flags)
    BY <2>1
  <2>3. Len(pending') = 0 /\ 0 <= 1
    BY <2>1
  <2>4. Len(pending') <= 1
    BY <2>3
  <2>5. tail' \in BOOLEAN
    BY <2>1
  <2> QED BY <1>3, <2>1, <2>2, <2>4, <2>5
<1>5. CASE WritesNothing
  <2>1. q' \subseteq Flags /\ pending' = << >> /\ tail' = FALSE
    BY <1>1, <1>5 DEF WritesNothing
  <2>2. pending' \in Seq(SUBSET Flags)
    BY <2>1
  <2>3. Len(pending') = 0 /\ 0 <= 1
    BY <2>1
  <2>4. Len(pending') <= 1
    BY <2>3
  <2>5. tail' \in BOOLEAN
    BY <2>1
  <2> QED BY <1>3, <2>1, <2>2, <2>4, <2>5
<1>6. CASE WritesEarly(g)
  <2>1. q' \subseteq Flags /\ pending' = << g >> /\ tail' = TRUE
    BY <1>6 DEF WritesEarly, TypeOK
  <2> QED BY <1>2, <1>3, <2>1
<1> QED BY <1>4, <1>5, <1>6

LEMMA ToATyped ==
  ASSUME TypeOK, NEW op \in Ops, NEW v \in Word, Starting(op, v),
         NEW out, ByteOut(out), ToA(out)
  PROVE  TypeOK'
<1>1. a' \in Byte /\ hl' \in Word /\ bus_data' \in Byte
  BY DEF ToA, ByteOut, TypeOK
<1>2. out.flags \in SUBSET Flags /\ Writes(out.flags)
  BY DEF ToA, ByteOut
<1> QED BY <1>1, <1>2, StartTyped, WritesTyped DEF TypeOK

LEMMA ToHlTyped ==
  ASSUME TypeOK, NEW op \in Ops, NEW v \in Word, Starting(op, v),
         NEW out, WordOut(out), ToHl(out)
  PROVE  TypeOK'
<1>1. a' \in Byte /\ hl' \in Word /\ bus_data' \in Byte
  BY DEF ToHl, WordOut, TypeOK
<1>2. out.flags \in SUBSET Flags /\ Writes(out.flags)
  BY DEF ToHl, WordOut
<1> QED BY <1>1, <1>2, StartTyped, WritesTyped DEF TypeOK

LEMMA FlagsOnlyTyped ==
  ASSUME TypeOK, NEW op \in Ops, NEW v \in Word, Starting(op, v),
         NEW g \in SUBSET Flags, FlagsOnly(g)
  PROVE  TypeOK'
<1>1. a' \in Byte /\ hl' \in Word /\ bus_data' \in Byte /\ Writes(g)
  BY DEF FlagsOnly, TypeOK
<1> QED BY <1>1, StartTyped, WritesTyped DEF TypeOK

LEMMA ArithmeticTyped ==
  ASSUME TypeOK, Arithmetic
  PROVE  TypeOK'
<1>1. /\ a \in Byte /\ f \in SUBSET Flags /\ q \in SUBSET Flags
      /\ \A n \in Byte : n \in Word
      /\ \A n \in 0 .. 7 : n \in Word
  <2>1. a \in Byte /\ f \in SUBSET Flags /\ q \in SUBSET Flags
    BY DEF TypeOK
  <2>2. \A n \in Byte : n \in Word
    BY DEF Byte, Word
  <2>3. \A n \in 0 .. 7 : n \in Word
    BY DEF Word
  <2> QED BY <2>1, <2>2, <2>3
<1>0. /\ \A n \in 0 .. 7 : AluNames[n + 1] \in Ops
      /\ \A n \in 0 .. 3 : RotateNames[n + 1] \in Ops
  <2>1. ASSUME NEW n \in 0 .. 7
        PROVE  AluNames[n + 1] \in Ops
    <3>1. n \in {0, 1, 2, 3, 4, 5, 6, 7}
      OBVIOUS
    <3> QED BY <3>1 DEF AluNames, Ops
  <2>2. ASSUME NEW n \in 0 .. 3
        PROVE  RotateNames[n + 1] \in Ops
    <3>1. n \in {0, 1, 2, 3}
      OBVIOUS
    <3> QED BY <3>1 DEF RotateNames, Ops
  <2> QED BY <2>1, <2>2
<1>2. /\ Operands \subseteq Byte /\ CbFields \subseteq 0 .. 7 /\ 0 .. 3 \subseteq 0 .. 7
      /\ 0 \in Word /\ 1 \in Word /\ 0 \in 0 .. 7
  <2>1. Operands \subseteq Byte /\ CbFields \subseteq 0 .. 7
    BY OperandsAssumption, FieldsAssumption
  <2>2. 0 .. 3 \subseteq 0 .. 7 /\ 0 \in 0 .. 7
    OBVIOUS
  <2>3. 0 \in Word /\ 1 \in Word
    BY DEF Word
  <2> QED BY <2>1, <2>2, <2>3
<1>3. ASSUME NEW which \in 0 .. 7, NEW v \in Operands, Operate(which, v)
      PROVE  TypeOK'
  <2>1. ByteOut(alu_operation(which, a, f, v)) /\ v \in Word /\ AluNames[which + 1] \in Ops
    BY <1>0, <1>1, <1>2, OperationTyped
  <2> HIDE DEF ByteOut
  <2> QED BY <1>3, <2>1, ToATyped DEF Operate
<1>4. ASSUME IncA \/ DecA \/ Neg \/ Daa
      PROVE  TypeOK'
  <2>1. /\ ByteOut(alu_inc(f, a)) /\ ByteOut(alu_dec(f, a))
        /\ ByteOut(execute_neg(a)) /\ ByteOut(alu_daa(a, f))
    BY <1>1, <1>2, ByteOperationsTyped
  <2>2. /\ a \in Word /\ 0 \in Word /\ 1 \in Word
        /\ "inc" \in Ops /\ "dec" \in Ops /\ "neg" \in Ops /\ "daa" \in Ops
    BY <1>1, <1>2 DEF Ops
  <2> HIDE DEF ByteOut
  <2> QED BY <1>4, <2>1, <2>2, ToATyped DEF IncA, DecA, Neg, Daa
<1>5. ASSUME Cpl
      PROVE  TypeOK'
  <2>1. ByteOut(execute_cpl(a, f)) /\ 0 \in Word /\ "cpl" \in Ops
    BY <1>1, <1>2, ByteOperationsTyped DEF Ops
  <2>2. /\ a' \in Byte /\ f' \subseteq Flags /\ hl' \in Word /\ bus_data' \in Byte
        /\ WritesNothing /\ {} \in SUBSET Flags
    BY <1>5, <2>1 DEF Cpl, ByteOut, TypeOK
  <2>3. /\ q' \subseteq Flags /\ tail' \in BOOLEAN
        /\ pending' \in Seq(SUBSET Flags) /\ Len(pending') <= 1
    BY <2>2, WritesTyped
  <2>4. Starting("cpl", 0)
    BY <1>5 DEF Cpl
  <2> QED BY <2>1, <2>2, <2>3, <2>4, StartTyped DEF TypeOK
<1>6. ASSUME Scf \/ Ccf
      PROVE  TypeOK'
  <2>1. ResidueXY(a, f, q) \subseteq Flags
    BY <1>1, FlagSets DEF ResidueXY
  <2>2. /\ execute_scf(a, f, q) \in SUBSET Flags /\ execute_ccf(a, f, q) \in SUBSET Flags
    BY <1>1, <2>1 DEF execute_scf, execute_ccf, Flags
  <2>3. 0 \in Word /\ "scf" \in Ops /\ "ccf" \in Ops
    BY DEF Word, Ops
  <2> QED BY <1>6, <2>2, <2>3, FlagsOnlyTyped DEF Scf, Ccf
<1>7. ASSUME NEW which \in 0 .. 3, RotateA(which)
      PROVE  TypeOK'
  <2>1. ByteOut(alu_rotate_a(which, a, f)) /\ 0 \in Word /\ RotateNames[which + 1] \in Ops
    BY <1>0, <1>1, <1>2, ByteOperationsTyped
  <2> HIDE DEF ByteOut
  <2> QED BY <1>7, <2>1, ToATyped DEF RotateA
<1>8. ASSUME NEW which \in CbFields, ShiftA(which) \/ TestBit(which)
      PROVE  TypeOK'
  <2>1. /\ ByteOut(alu_shift(which, f, a)) /\ ByteOut(alu_bit(BitMask(which), f, a, a))
        /\ which \in Word /\ "cb" \in Ops /\ "bit" \in Ops
    BY <1>1, <1>2, ByteOperationsTyped DEF Ops
  <2> HIDE DEF ByteOut
  <2> QED BY <1>8, <2>1, ToATyped DEF ShiftA, TestBit
<1>9. ASSUME NEW v \in Operands, NEW iff2 \in BOOLEAN, LoadControl(v, iff2)
      PROVE  TypeOK'
  <2>1. load_a_flags(f, v, iff2) \subseteq Flags
    BY <1>1, FlagSets DEF load_a_flags, FlagIf, Flags
  <2>2. /\ ByteOut(Out(v, load_a_flags(f, v, iff2))) /\ v \in Word /\ "ld_a_i" \in Ops
    BY <1>1, <1>2, <2>1 DEF ByteOut, Out, Ops
  <2> HIDE DEF ByteOut
  <2> QED BY <1>9, <2>2, ToATyped DEF LoadControl
<1>10. ASSUME NEW v \in Operands, InC(v)
       PROVE  TypeOK'
  <2>1. digit_rotate_flags(f, v) \in SUBSET Flags /\ v \in Word /\ "in" \in Ops
    BY <1>1, <1>2, FlagSets DEF digit_rotate_flags, Ops
  <2> QED BY <1>10, <2>1, FlagsOnlyTyped DEF InC
<1>11. ASSUME NEW bit \in CbFields, NEW v \in Operands, NEW wz_high \in Operands,
              TestBitMemory(bit, v, wz_high)
       PROVE  TypeOK'
  <2>1. alu_bit(BitMask(bit), f, v, wz_high).flags \in SUBSET Flags
    BY <1>1, FlagSets DEF alu_bit, Out, FlagIf, Flags
  <2>2. bit \in Word /\ "bit" \in Ops
    BY <1>1, <1>2 DEF Ops
  <2> QED BY <1>11, <2>1, <2>2, FlagsOnlyTyped DEF TestBitMemory
<1> QED BY <1>3, <1>4, <1>5, <1>6, <1>7, <1>8, <1>9, <1>10, <1>11 DEF Arithmetic

LEMMA EarlyTyped ==
  ASSUME TypeOK, NEW op \in Ops, NEW v \in Word, Starting(op, v),
         NEW g \in SUBSET Flags, WritesEarly(g) \/ Writes(g),
         a' \in Byte, hl' = hl, bus_data' \in Byte
  PROVE  TypeOK'
<1>1. hl' \in Word
  BY DEF TypeOK
<1>2. f' \subseteq Flags
  BY DEF WritesEarly, Writes
<1> QED BY <1>1, <1>2, StartTyped, WritesTyped DEF TypeOK

LEMMA BlockTyped ==
  ASSUME TypeOK, NEW v \in Byte, NEW g \in SUBSET Flags, NEW repeats, NEW pc_high,
         Block(g, v, repeats, pc_high)
  PROVE  TypeOK'
<1>1. /\ Starting("block", v) /\ bus_data' = v /\ a' = a /\ hl' = hl
      /\ WritesEarly(block_repeat_undocumented(g, pc_high)) \/ Writes(g)
  BY DEF Block
<1>2. block_repeat_undocumented(g, pc_high) \in SUBSET Flags
  BY FlagSets DEF block_repeat_undocumented
<1>3. v \in Word /\ "block" \in Ops /\ a \in Byte
  <2>1. v \in Word
    BY DEF Byte, Word
  <2>2. "block" \in Ops /\ a \in Byte
    BY DEF TypeOK, Ops
  <2> QED BY <2>1, <2>2
<1> QED BY <1>1, <1>2, <1>3, EarlyTyped

LEMMA OnMemoryTyped ==
  ASSUME TypeOK, OnMemory
  PROVE  TypeOK'
<1> PICK v \in Operands \union {bus_data} :
      \/ ModifyMemory("inc_mem", v, alu_inc(f, v))
      \/ ModifyMemory("dec_mem", v, alu_dec(f, v))
      \/ \E which \in CbFields : ModifyMemory("cb_mem", v, alu_shift(which, f, v))
      \/ \E right \in BOOLEAN : RotateDigits(right, v)
      \/ BlockStep(v)
  BY DEF OnMemory
<1>1. a \in Byte /\ f \in SUBSET Flags /\ v \in Byte
  BY OperandsAssumption DEF TypeOK
<1>2. v \in Word
  BY <1>1 DEF Byte, Word
<1>3. ASSUME NEW op \in Ops, NEW out, ByteOut(out), ModifyMemory(op, v, out)
      PROVE  TypeOK'
  <2>1. /\ Starting(op, v) /\ bus_data' \in Byte /\ a' \in Byte /\ hl' = hl
        /\ out.flags \in SUBSET Flags /\ WritesEarly(out.flags)
    BY <1>1, <1>3 DEF ModifyMemory, ByteOut
  <2> QED BY <1>2, <2>1, EarlyTyped
<1>4. CASE \/ ModifyMemory("inc_mem", v, alu_inc(f, v))
           \/ ModifyMemory("dec_mem", v, alu_dec(f, v))
  <2>1. 0 \in 0 .. 7
    OBVIOUS
  <2>2. /\ ByteOut(alu_inc(f, v)) /\ ByteOut(alu_dec(f, v))
        /\ "inc_mem" \in Ops /\ "dec_mem" \in Ops
    BY <1>1, <2>1, ByteOperationsTyped DEF Ops
  <2> HIDE DEF ByteOut
  <2> QED BY <1>3, <1>4, <2>2
<1>5. CASE \E which \in CbFields : ModifyMemory("cb_mem", v, alu_shift(which, f, v))
  <2> PICK which \in CbFields : ModifyMemory("cb_mem", v, alu_shift(which, f, v))
    BY <1>5
  <2>1. ByteOut(alu_shift(which, f, v)) /\ "cb_mem" \in Ops
    BY <1>1, FieldsAssumption, ByteOperationsTyped DEF Ops
  <2> HIDE DEF ByteOut
  <2> QED BY <1>3, <2>1
<1>6. CASE \E right \in BOOLEAN : RotateDigits(right, v)
  <2> PICK right \in BOOLEAN : RotateDigits(right, v)
    BY <1>6
  <2> DEFINE x == DigitRotated(right, a, v)
  <2>1. /\ x \in Byte /\ DigitStored(right, a, v) \in Byte
        /\ digit_rotate_flags(f, x) \in SUBSET Flags
    BY <1>1, DigitsTyped, FlagSets DEF digit_rotate_flags
  <2>2. (IF right THEN "rrd" ELSE "rld") \in Ops
    BY DEF Ops
  <2>3. /\ Starting(IF right THEN "rrd" ELSE "rld", v)
        /\ a' = x /\ bus_data' = DigitStored(right, a, v) /\ hl' = hl
        /\ WritesEarly(digit_rotate_flags(f, x))
    BY DEF RotateDigits
  <2> HIDE DEF x
  <2> QED BY <1>2, <2>1, <2>2, <2>3, EarlyTyped
<1>7. CASE BlockStep(v)
  <2>1. ASSUME NEW more \in BOOLEAN
        PROVE  /\ block_transfer_flags(a, f, v, more) \in SUBSET Flags
               /\ block_compare_flags(a, f, v, more) \in SUBSET Flags
               /\ \A b, addend : block_io_flags(b, v, addend) \in SUBSET Flags
    <3>1. \A x : /\ BlockXY(x) \subseteq Flags /\ flags_sz_xy(x) \subseteq Flags
                 /\ ParityFlag(x) \subseteq Flags
      BY <1>1, FlagSets
    <3> QED BY <1>1, <3>1
            DEF block_transfer_flags, block_compare_flags, block_io_flags, FlagIf, Flags
  <2>2. ASSUME NEW g \in SUBSET Flags, NEW repeats, NEW pc_high, Block(g, v, repeats, pc_high)
        PROVE  TypeOK'
    BY <1>1, <2>2, BlockTyped
  <2> HIDE DEF Block
  <2> QED BY <1>7, <2>1, <2>2 DEF BlockStep
<1> QED BY <1>4, <1>5, <1>6, <1>7

(* Every register keeps its width, whatever is computed. *)
THEOREM TypeCorrect == Spec => []TypeOK
<1> DEFINE Entries == [op : Ops, v : Word, a : Byte, hl : Word, f : SUBSET Flags,
                      bus_data : Byte]
<1>0. /\ << >> \in Seq(SUBSET Flags) /\ Len(<< >>) <= 1 /\ << >> \in Seq(Entries)
      /\ \A e \in Entries : << e >> \in Seq(Entries)
  OBVIOUS
<1>1. Init => TypeOK
  <2>1. 255 \in Byte /\ 0 \in Byte /\ 0 \in Word
    BY DEF Byte, Word
  <2>2. Flags \subseteq Flags /\ {} \subseteq Flags
    OBVIOUS
  <2> QED BY <1>0, <2>1, <2>2, Zenon DEF Init, TypeOK
<1>2. TypeOK /\ [Next]_vars => TypeOK'
  <2> SUFFICES ASSUME TypeOK, [Next]_vars
               PROVE  TypeOK'
    OBVIOUS
  <2>1. CASE Arithmetic
    BY <2>1, ArithmeticTyped
  <2>2. CASE WordArithmetic
    <3> PICK v \in WordOperands : AddWord(v) \/ AdcWord(v) \/ SbcWord(v)
      BY <2>2 DEF WordArithmetic
    <3>1. v \in Word /\ hl \in Word /\ f \in SUBSET Flags
      BY OperandsAssumption DEF TypeOK
    <3>2. /\ WordOut(alu_add16(hl, f, v)) /\ WordOut(alu_adc16(hl, f, v))
          /\ WordOut(alu_sbc16(hl, f, v))
      BY <3>1, WordOperationsTyped
    <3>3. "add16" \in Ops /\ "adc16" \in Ops /\ "sbc16" \in Ops
      BY DEF Ops
    <3> HIDE DEF WordOut
    <3> QED BY <3>1, <3>2, <3>3, ToHlTyped DEF AddWord, AdcWord, SbcWord
  <2>3. CASE Quiet
    <3>1. /\ Starting("quiet", 0) /\ WritesNothing
          /\ a' \in Byte /\ f' \subseteq Flags /\ hl' \in Word /\ bus_data' \in Byte
      BY <2>3 DEF Quiet, TypeOK
    <3>2. 0 \in Word /\ "quiet" \in Ops /\ {} \in SUBSET Flags
      BY DEF Word, Ops
    <3> QED BY <3>1, <3>2, StartTyped, WritesTyped DEF TypeOK
  <2>4. CASE OnMemory
    BY <2>4, OnMemoryTyped
  <2>5. CASE Finish
    <3>1. {} \in SUBSET Flags /\ WritesNothing
      BY <2>5 DEF Finish
    <3> QED BY <2>5, <3>1, WritesTyped DEF Finish, TypeOK
  <2>6. CASE PopRegisters
    <3>1. a' \in Byte /\ hl' \in Word /\ f' \subseteq Flags /\ bus_data' \in Byte
      <4> PICK s \in Starts :
            a' = s.a /\ hl' = s.hl /\ f' = s.f /\ bus_data' = s.hl \div 256
        BY <2>6 DEF PopRegisters
      <4>1. s.a \in Byte /\ s.hl \in Word /\ s.f \in SUBSET Flags
        BY StartsAssumption
      <4>2. ASSUME NEW n \in Word
            PROVE  n \div 256 \in Byte
        <5>1. n \in Int /\ 0 <= n /\ n < 65536
          BY DEF Word
        <5>2. n \div 256 \in Int /\ 0 <= n \div 256 /\ n \div 256 < 256
          BY <5>1
        <5> QED BY <5>2 DEF Byte
      <4>3. s.hl \div 256 \in Byte
        BY <4>1, <4>2
      <4> QED BY <4>1, <4>3, Zenon
    <3>2. /\ q' = {} /\ pending' = << >> /\ trace' = << >> /\ cut' = FALSE
          /\ tail' \in BOOLEAN
      BY <2>6 DEF PopRegisters, TypeOK
    <3>3. {} \subseteq Flags /\ FALSE \in BOOLEAN
      OBVIOUS
    <3> QED BY <1>0, <3>1, <3>2, <3>3, Zenon DEF TypeOK
  <2>7. CASE ResetPin
    <3>1. "reset" \in Ops /\ 0 \in Word
      BY DEF Ops, Word
    <3>2. Entry("reset", 0) \in Entries
      BY <3>1 DEF TypeOK, Entry
    <3>3. trace' = << Entry("reset", 0) >> /\ tail' = FALSE /\ cut' = TRUE
      BY <2>7 DEF ResetPin
    <3> HIDE DEF Entry
    <3>4. trace' \in Seq(Entries) /\ tail' \in BOOLEAN /\ cut' \in BOOLEAN
      BY <1>0, <3>2, <3>3
    <3>5. /\ a' = a /\ hl' = hl /\ f' = f /\ bus_data' = bus_data /\ q' = q
          /\ pending' = pending
      BY <2>7 DEF ResetPin
    <3> QED BY <3>4, <3>5, Zenon DEF TypeOK
  <2>8. CASE LoadSnapshot
    BY <2>8 DEF LoadSnapshot, TypeOK
  <2>9. CASE UNCHANGED vars
    BY <2>9 DEF vars, TypeOK
  <2> QED BY <2>1, <2>2, <2>3, <2>4, <2>5, <2>6, <2>7, <2>8, <2>9 DEF Next
<1> QED BY <1>1, <1>2, PTL DEF Spec

-----------------------------------------------------------------------------
Sums == {"add", "adc", "sub", "sbc", "and", "xor", "or", "cp", "inc", "dec", "neg"}

(* How an instruction that is no sum begins, and what it leaves for Q. *)
Other(op, v) ==
  /\ Starting(op, v)
  /\ op \in Ops \ (Sums \union {"reset"})
  /\ IF Silent(op) THEN f' \subseteq Flags /\ WritesNothing
                   ELSE \E g \in SUBSET Flags : Writes(g) \/ WritesEarly(g)

LEMMA Steps ==
  ASSUME TypeOK, TypeOK', [Next]_vars
  PROVE  \/ \E which \in 0 .. 7, v \in Byte : Operate(which, v)
         \/ IncA \/ DecA \/ Neg
         \/ \E op \in Ops, v \in Word : Other(op, v)
         \/ Finish \/ PopRegisters \/ ResetPin \/ LoadSnapshot \/ UNCHANGED vars
<1> DEFINE Goal == \/ \E which \in 0 .. 7, v \in Byte : Operate(which, v)
                   \/ IncA \/ DecA \/ Neg
                   \/ \E op \in Ops, v \in Word : Other(op, v)
                   \/ Finish \/ PopRegisters \/ ResetPin \/ LoadSnapshot \/ UNCHANGED vars
<1>1. /\ \A n \in Byte : n \in Word
      /\ \A n \in 0 .. 7 : n \in Word
      /\ 0 \in Word
  <2>1. \A n \in Byte : n \in Word
    BY DEF Byte, Word
  <2>2. \A n \in 0 .. 7 : n \in Word
    BY DEF Word
  <2>3. 0 \in Word
    BY DEF Word
  <2> QED BY <2>1, <2>2, <2>3
<1>2. ASSUME NEW op \in Ops, NEW v \in Word, Starting(op, v), NEW g,
             Writes(g) \/ WritesEarly(g), op \notin Sums, op # "reset", ~Silent(op)
      PROVE  Goal
  <2>1. g \in SUBSET Flags
    BY <1>2 DEF Writes, WritesEarly, TypeOK
  <2>2. Other(op, v)
    BY <1>2, <2>1 DEF Other
  <2> QED BY <2>2
<1>3. ASSUME NEW op \in {"quiet", "cpl"}, Starting(op, 0), WritesNothing
      PROVE  Goal
  <2>1. op \in Ops /\ op \notin Sums /\ op # "reset" /\ Silent(op)
    BY DEF Ops, Sums, Silent
  <2>2. f' \subseteq Flags
    BY DEF TypeOK
  <2>3. Other(op, 0)
    BY <1>3, <2>1, <2>2 DEF Other
  <2> QED BY <1>1, <2>1, <2>3
<1>4. /\ \A op \in {"daa", "rlc", "rrc", "rl", "rr", "cb", "bit", "scf", "ccf", "ld_a_i",
                    "in", "add16", "adc16", "sbc16", "inc_mem", "dec_mem", "cb_mem",
                    "rrd", "rld", "block"} :
           op \in Ops /\ op \notin Sums /\ op # "reset" /\ ~Silent(op)
      /\ \A n \in 0 .. 3 : RotateNames[n + 1] \in {"rlc", "rrc", "rl", "rr"}
  <2>1. ASSUME NEW n \in 0 .. 3
        PROVE  RotateNames[n + 1] \in {"rlc", "rrc", "rl", "rr"}
    <3>1. n \in {0, 1, 2, 3}
      OBVIOUS
    <3> QED BY <3>1 DEF RotateNames
  <2> QED BY <2>1 DEF Ops, Sums, Silent
<1>5. ASSUME Arithmetic
      PROVE  Goal
  <2>1. ASSUME NEW which \in 0 .. 7, NEW v \in Operands, Operate(which, v)
        PROVE  Goal
    BY <2>1, OperandsAssumption
  <2>2. CASE IncA \/ DecA \/ Neg
    BY <2>2
  <2>3. CASE Cpl
    BY <2>3, <1>3 DEF Cpl
  <2>4. CASE Daa \/ Scf \/ Ccf
    BY <1>1, <1>2, <1>4, <2>4 DEF Daa, Scf, Ccf, ToA, FlagsOnly
  <2>5. ASSUME NEW which \in 0 .. 3, RotateA(which)
        PROVE  Goal
    BY <1>1, <1>2, <1>4, <2>5 DEF RotateA, ToA
  <2>6. ASSUME NEW which \in CbFields, ShiftA(which) \/ TestBit(which)
        PROVE  Goal
    BY <1>1, <1>2, <1>4, <2>6, FieldsAssumption DEF ShiftA, TestBit, ToA
  <2>7. ASSUME NEW v \in Operands, NEW iff2 \in BOOLEAN, LoadControl(v, iff2)
        PROVE  Goal
    BY <1>1, <1>2, <1>4, <2>7, OperandsAssumption DEF LoadControl, ToA
  <2>8. ASSUME NEW v \in Operands, InC(v)
        PROVE  Goal
    BY <1>1, <1>2, <1>4, <2>8, OperandsAssumption DEF InC, FlagsOnly
  <2>9. ASSUME NEW bit \in CbFields, NEW v, NEW wz_high, TestBitMemory(bit, v, wz_high)
        PROVE  Goal
    BY <1>1, <1>2, <1>4, <2>9, FieldsAssumption DEF TestBitMemory, FlagsOnly
  <2> HIDE DEF Goal
  <2> QED BY <1>5, <2>1, <2>2, <2>3, <2>4, <2>5, <2>6, <2>7, <2>8, <2>9 DEF Arithmetic
<1>6. ASSUME WordArithmetic
      PROVE  Goal
  BY <1>2, <1>4, <1>6, OperandsAssumption
     DEF WordArithmetic, AddWord, AdcWord, SbcWord, ToHl
<1>7. ASSUME Quiet
      PROVE  Goal
  BY <1>3, <1>7 DEF Quiet
<1>8. ASSUME OnMemory
      PROVE  Goal
  <2> PICK v \in Operands \union {bus_data} :
        \/ ModifyMemory("inc_mem", v, alu_inc(f, v))
        \/ ModifyMemory("dec_mem", v, alu_dec(f, v))
        \/ \E which \in CbFields : ModifyMemory("cb_mem", v, alu_shift(which, f, v))
        \/ \E right \in BOOLEAN : RotateDigits(right, v)
        \/ BlockStep(v)
    BY <1>8 DEF OnMemory
  <2>1. v \in Word
    BY <1>1, OperandsAssumption DEF TypeOK
  <2>2. ASSUME NEW op \in {"inc_mem", "dec_mem", "cb_mem"}, NEW out, ModifyMemory(op, v, out)
        PROVE  Goal
    BY <1>2, <1>4, <2>1, <2>2 DEF ModifyMemory
  <2>3. ASSUME NEW right \in BOOLEAN, RotateDigits(right, v)
        PROVE  Goal
    BY <1>2, <1>4, <2>1, <2>3 DEF RotateDigits
  <2>4. ASSUME NEW g, NEW repeats, NEW pc_high, Block(g, v, repeats, pc_high)
        PROVE  Goal
    BY <1>2, <1>4, <2>1, <2>4 DEF Block
  <2>5. CASE BlockStep(v)
    <3> HIDE DEF Goal, Block
    <3> QED BY <2>4, <2>5 DEF BlockStep
  <2> HIDE DEF Goal
  <2> QED BY <2>2, <2>3, <2>5
<1> QED BY <1>5, <1>6, <1>7, <1>8 DEF Next

(* The instructions that are sums write flags, into A and on this edge. *)
LEMMA SumSteps ==
  ASSUME TypeOK, \/ \E which \in 0 .. 7, v \in Byte : Operate(which, v)
                 \/ IncA \/ DecA \/ Neg
  PROVE  \E op \in Sums, v \in Byte : \E g : Starting(op, v) /\ Writes(g)
<1>1. ASSUME NEW which \in 0 .. 7, NEW v \in Byte, Operate(which, v)
      PROVE  \E op \in Sums, w \in Byte : \E g : Starting(op, w) /\ Writes(g)
  <2>1. AluNames[which + 1] \in Sums
    <3>1. which \in {0, 1, 2, 3, 4, 5, 6, 7}
      OBVIOUS
    <3> QED BY <3>1 DEF AluNames, Sums
  <2> QED BY <1>1, <2>1 DEF Operate, ToA
<1>2. CASE IncA \/ DecA \/ Neg
  <2>1. 1 \in Byte /\ a \in Byte /\ "inc" \in Sums /\ "dec" \in Sums /\ "neg" \in Sums
    BY DEF TypeOK, Byte, Sums
  <2> QED BY <1>2, <2>1 DEF IncA, DecA, Neg, ToA
<1> QED BY <1>1, <1>2

(* Why Q follows the flags.  While an instruction that has computed its     *)
(* flags still runs, they are in F and pending both; when it is over,       *)
(* nothing is pending.  The host can break either, and then cut says so.    *)
QInv ==
  /\ ~cut /\ ~tail => pending = << >>
  /\ ~cut /\ tail => pending = << f >> /\ trace # << >> /\ ~Silent(Last.op)
  /\ ~cut /\ ~tail /\ trace # << >> => q = IF Silent(Last.op) THEN {} ELSE f

LEMMA QInvStep ==
  ASSUME TypeOK, TypeOK', [Next]_vars, QInv
  PROVE  QInv'
<1>1. ASSUME NEW op \in Ops, NEW v \in Word, Starting(op, v)
      PROVE  /\ trace' # << >> /\ Last'.op = op
             /\ ~cut' => pending = << >>
  <2>1. trace' # << >> /\ Last' = Entry(op, v)
    BY <1>1, StartTyped DEF Last
  <2>2. ~cut' => pending = << >>
    BY <1>1 DEF Starting, QInv
  <2> QED BY <2>1, <2>2 DEF Entry
<1>2. ASSUME NEW op \in Ops, NEW v \in Word, Starting(op, v), ~Silent(op),
             NEW g, Writes(g) \/ WritesEarly(g)
      PROVE  QInv'
  <2>1. trace' # << >> /\ Last'.op = op /\ f' = g
    BY <1>1, <1>2 DEF Writes, WritesEarly
  <2>2. CASE Writes(g)
    <3>1. pending' = << >> /\ tail' = FALSE /\ q' = f'
      BY <2>2 DEF Writes
    <3> QED BY <1>2, <2>1, <3>1 DEF QInv, Silent
  <2>3. CASE WritesEarly(g)
    <3>1. pending' = << f' >> /\ tail' = TRUE
      BY <2>3 DEF WritesEarly
    <3> QED BY <1>2, <2>1, <3>1 DEF QInv, Silent
  <2> QED BY <1>2, <2>2, <2>3
<1>3. CASE \/ \E which \in 0 .. 7, v \in Byte : Operate(which, v)
           \/ IncA \/ DecA \/ Neg
  <2> PICK op \in Sums, v \in Byte : \E g : Starting(op, v) /\ Writes(g)
    BY <1>3, SumSteps
  <2>1. op \in Ops /\ ~Silent(op)
    BY DEF Sums, Ops, Silent
  <2>2. v \in Word
    BY DEF Byte, Word
  <2> QED BY <1>2, <2>1, <2>2
<1>4. ASSUME NEW op \in Ops, NEW v \in Word, Other(op, v)
      PROVE  QInv'
  <2>1. Starting(op, v)
    BY <1>4 DEF Other
  <2>2. CASE Silent(op)
    <3>1. WritesNothing
      BY <1>4, <2>2 DEF Other
    <3>2. /\ pending' = << >> /\ tail' = FALSE
          /\ ~cut' => q' = {}
      BY <1>1, <2>1, <3>1 DEF WritesNothing
    <3> QED BY <1>1, <2>1, <2>2, <3>2 DEF QInv, Silent
  <2>3. CASE ~Silent(op)
    BY <1>2, <1>4, <2>1, <2>3 DEF Other
  <2> QED BY <2>2, <2>3
<1>5. CASE Finish
  <2>1. /\ tail /\ tail' = FALSE /\ pending' = << >> /\ trace' = trace /\ cut' = cut
        /\ f' = f /\ q' = IF pending = << >> THEN {} ELSE pending[1]
    BY <1>5 DEF Finish, WritesNothing
  <2>2. ~cut => q' = f /\ ~Silent(Last.op)
    BY <2>1 DEF QInv
  <2> QED BY <2>1, <2>2 DEF QInv, Last, Silent
<1>6. CASE PopRegisters
  <2>1. pending' = << >> /\ tail' = FALSE /\ trace' = << >>
    BY <1>6 DEF PopRegisters, TypeOK
  <2> QED BY <2>1 DEF QInv
<1>7. CASE ResetPin \/ LoadSnapshot
  BY <1>7 DEF ResetPin, LoadSnapshot, QInv
<1>8. CASE UNCHANGED vars
  BY <1>8 DEF vars, QInv, Last, Silent
<1> QED BY Steps, <1>3, <1>4, <1>5, <1>6, <1>7, <1>8

(* Q is what the last instruction left on the flag bus, or nothing. *)
THEOREM QIsTheFlagBus == Spec => []QFollowsFlags
<1>1. Init => QInv
  BY DEF Init, QInv
<1>2. TypeOK /\ TypeOK' /\ [Next]_vars /\ QInv => QInv'
  BY QInvStep
<1>3. QInv => QFollowsFlags
  BY DEF QInv, QFollowsFlags
<1> QED BY <1>1, <1>2, <1>3, TypeCorrect, PTL DEF Spec

(* X and Y after SCF and CCF: of A, and after an instruction that wrote no  *)
(* flags of F too.                                                         *)
THEOREM ScfAndCcf == Spec => ScfReadsTheFlagBus
<1>1. Init => QInv
  BY DEF Init, QInv
<1>2. TypeOK /\ TypeOK' /\ [Next]_vars /\ QInv => QInv'
  BY QInvStep
<1> DEFINE Residue == (Scf \/ Ccf) /\ trace # << >> /\ Last.op # "reset" /\ ~cut
              => f' \intersect XY =
                   CopyXY(a) \union IF Silent(Last.op) THEN f \intersect XY ELSE {}
<1>3. ASSUME TypeOK, QInv
      PROVE  Residue
  <2> SUFFICES ASSUME Scf \/ Ccf, trace # << >>, ~cut
               PROVE  f' \intersect XY =
                        CopyXY(a) \union IF Silent(Last.op) THEN f \intersect XY ELSE {}
    OBVIOUS
  <2>1. ~tail
    BY DEF Scf, Ccf, Starting
  <2>2. q = IF Silent(Last.op) THEN {} ELSE f
    BY <1>3, <2>1 DEF QInv
  <2>3. ResidueXY(a, f, q) = CopyXY(a) \union IF Silent(Last.op) THEN f \intersect XY ELSE {}
    <3> HIDE DEF CopyXY, Silent
    <3> QED BY <2>2 DEF ResidueXY
  <2>4. ResidueXY(a, f, q) \subseteq XY
    BY DEF ResidueXY, CopyXY, FlagIf, XY
  <2>5. f' = execute_scf(a, f, q) \/ f' = execute_ccf(a, f, q)
    BY DEF Scf, Ccf, FlagsOnly, Writes
  <2>6. \A g : g \subseteq {"C", "H"} =>
          ((f \intersect SZPV) \union ResidueXY(a, f, q) \union g) \intersect XY
            = ResidueXY(a, f, q)
    BY <2>4 DEF SZPV, XY
  <2>7. f' \intersect XY = ResidueXY(a, f, q)
    <3> HIDE DEF ResidueXY
    <3> QED BY <2>5, <2>6 DEF execute_scf, execute_ccf
  <2> QED BY <2>3, <2>7
<1>4. TypeOK /\ QInv => [Residue]_vars
  BY <1>3
<1> QED BY <1>1, <1>2, <1>4, TypeCorrect, PTL DEF Spec, ScfReadsTheFlagBus

-----------------------------------------------------------------------------
(* What INC and DEC leave: the sum or difference with 1, without its carry. *)
LEMMA IncExact ==
  ASSUME NEW x \in Byte, NEW g \in SUBSET Flags
  PROVE  /\ alu_inc(g, x).value = (x + 1) % 256
         /\ "H" \in alu_inc(g, x).flags <=> (x % 16) + 1 > 15
         /\ "PV" \in alu_inc(g, x).flags <=> Signed(x) + 1 \notin -128 .. 127
         /\ "C" \in alu_inc(g, x).flags <=> "C" \in g
<1> DEFINE r == (x + 1) % 256
<1>1. /\ alu_inc(g, x).value = r
      /\ "H" \in alu_inc(g, x).flags <=> r % 16 = 0
      /\ "PV" \in alu_inc(g, x).flags <=> r = 128
      /\ "C" \in alu_inc(g, x).flags <=> "C" \in g
  BY DEF alu_inc, Out, FlagIf, flags_sz_xy, CopyXY
<1>2. r = IF x = 255 THEN 0 ELSE x + 1
  BY DEF Byte
<1>3. r % 16 = 0 <=> (x % 16) + 1 > 15
  <2>1. x % 16 \in 0 .. 15 /\ x \div 16 \in 0 .. 15 /\ x = 16 * (x \div 16) + (x % 16)
    BY TwoDigits
  <2> HIDE DEF r
  <2> QED BY <1>2, <2>1 DEF Byte
<1>4. r = 128 <=> Signed(x) + 1 \notin -128 .. 127
  BY <1>2 DEF Signed, Byte
<1> HIDE DEF r
<1> QED BY <1>1, <1>3, <1>4 DEF r

LEMMA DecExact ==
  ASSUME NEW x \in Byte, NEW g \in SUBSET Flags
  PROVE  /\ alu_dec(g, x).value = (x - 1) % 256
         /\ "H" \in alu_dec(g, x).flags <=> x % 16 < 1
         /\ "PV" \in alu_dec(g, x).flags <=> Signed(x) - 1 \notin -128 .. 127
         /\ "C" \in alu_dec(g, x).flags <=> "C" \in g
<1> DEFINE r == (x - 1) % 256
<1>1. /\ alu_dec(g, x).value = r
      /\ "H" \in alu_dec(g, x).flags <=> r % 16 = 15
      /\ "PV" \in alu_dec(g, x).flags <=> r = 127
      /\ "C" \in alu_dec(g, x).flags <=> "C" \in g
  BY DEF alu_dec, Out, FlagIf, flags_sz_xy, CopyXY
<1>2. r = IF x = 0 THEN 255 ELSE x - 1
  BY DEF Byte
<1>3. r % 16 = 15 <=> x % 16 < 1
  <2>1. x % 16 \in 0 .. 15 /\ x \div 16 \in 0 .. 15 /\ x = 16 * (x \div 16) + (x % 16)
    BY TwoDigits
  <2> HIDE DEF r
  <2> QED BY <1>2, <2>1 DEF Byte
<1>4. r = 127 <=> Signed(x) - 1 \notin -128 .. 127
  BY <1>2 DEF Signed, Byte
<1> HIDE DEF r
<1> QED BY <1>1, <1>3, <1>4 DEF r

(* A new entry holds the registers the instruction found. *)
LEMMA Begun ==
  ASSUME TypeOK, NEW op \in Ops, NEW v \in Word, Starting(op, v)
  PROVE  /\ trace' # << >> /\ Last' = Entry(op, v)
         /\ Last'.op = op /\ Last'.v = v /\ Last'.a = a /\ Last'.f = f
<1>1. trace' # << >> /\ Last' = Entry(op, v)
  BY StartTyped DEF Last
<1> QED BY <1>1 DEF Entry

(* What each of the eight operations leaves, by name. *)
LEMMA Operations ==
  ASSUME TypeOK, NEW which \in 0 .. 7, NEW v \in Byte, Operate(which, v)
  PROVE  LET op  == AluNames[which + 1]
             out == alu_operation(which, a, f, v)
         IN /\ op \in Ops /\ v \in Word /\ Starting(op, v)
            /\ a' = out.value /\ f' = out.flags
            /\ op \notin {"inc", "dec", "neg"}
            /\ op = "add" => out = alu_add(a, v, 0)
            /\ op = "adc" => out = alu_add(a, v, Carry(f))
            /\ op = "sub" => out = sub_flags(a, v, 0)
            /\ op = "sbc" => out = sub_flags(a, v, Carry(f))
            /\ op = "cp"  => out = alu_cp(a, v)
<1>1. v \in Word
  BY DEF Byte, Word
<1>2. which \in {0, 1, 2, 3, 4, 5, 6, 7}
  OBVIOUS
<1>3. /\ Starting(AluNames[which + 1], v)
      /\ a' = alu_operation(which, a, f, v).value
      /\ f' = alu_operation(which, a, f, v).flags
  BY DEF Operate, ToA, Writes
<1>4. /\ AluNames[which + 1] \in Ops
      /\ AluNames[which + 1] \notin {"inc", "dec", "neg"}
  BY <1>2 DEF AluNames, Ops
<1>5. /\ AluNames[which + 1] = "add" => which = 0
      /\ AluNames[which + 1] = "adc" => which = 1
      /\ AluNames[which + 1] = "sub" => which = 2
      /\ AluNames[which + 1] = "sbc" => which = 3
      /\ AluNames[which + 1] = "cp"  => which = 7
  BY <1>2 DEF AluNames
<1>6. /\ alu_operation(0, a, f, v) = alu_add(a, v, 0)
      /\ alu_operation(1, a, f, v) = alu_add(a, v, Carry(f))
      /\ alu_operation(2, a, f, v) = sub_flags(a, v, 0)
      /\ alu_operation(3, a, f, v) = sub_flags(a, v, Carry(f))
      /\ alu_operation(7, a, f, v) = alu_cp(a, v)
  BY DEF alu_operation
<1> QED BY <1>1, <1>3, <1>4, <1>5, <1>6

(* An entry whose operation left a sum, or a difference, of its operands.   *)
LEMMA AddCase ==
  ASSUME NEW e, e.op \in {"add", "adc", "inc"},
         Augend(e) \in Byte, e.v \in Byte, CarryIn(e) \in {0, 1}, NEW result, NEW flags,
         result = (Augend(e) + e.v + CarryIn(e)) % 256,
         "H" \in flags <=> (Augend(e) % 16) + (e.v % 16) + CarryIn(e) > 15,
         "PV" \in flags <=>
           Signed(Augend(e)) + Signed(e.v) + CarryIn(e) \notin -128 .. 127,
         "C" \in flags <=> IF e.op = "inc" THEN "C" \in e.f
                          ELSE Augend(e) + e.v + CarryIn(e) > 255
  PROVE  Exact(e, result, flags)
<1>1. e.op \notin {"sub", "sbc", "dec", "neg"}
  OBVIOUS
<1> HIDE DEF Augend, CarryIn, Signed
<1> QED BY <1>1, Zenon DEF Exact

LEMMA SubCase ==
  ASSUME NEW e, e.op \in {"sub", "sbc", "dec", "neg"},
         Augend(e) \in Byte, e.v \in Byte, CarryIn(e) \in {0, 1}, NEW result, NEW flags,
         result = (Augend(e) - e.v - CarryIn(e)) % 256,
         "H" \in flags <=> Augend(e) % 16 < (e.v % 16) + CarryIn(e),
         "PV" \in flags <=>
           Signed(Augend(e)) - Signed(e.v) - CarryIn(e) \notin -128 .. 127,
         "C" \in flags <=> IF e.op = "dec" THEN "C" \in e.f
                          ELSE Augend(e) < e.v + CarryIn(e)
  PROVE  Exact(e, result, flags)
<1>1. e.op \notin {"add", "adc", "inc"}
  OBVIOUS
<1> HIDE DEF Augend, CarryIn, Signed
<1> QED BY <1>1, Zenon DEF Exact

(* The sums: ADD, ADC, SUB, SBC and NEG; INC and DEC. *)
LEMMA SumCase ==
  ASSUME NEW e, NEW x \in Byte, NEW v \in Byte, NEW c \in {0, 1},
         Augend(e) = x, e.v = v, CarryIn(e) = c, NEW out,
         \/ e.op \in {"add", "adc"} /\ out = alu_add(x, v, c)
         \/ e.op \in {"sub", "sbc", "neg"} /\ out = sub_flags(x, v, c)
  PROVE  Exact(e, out.value, out.flags)
<1>1. CASE e.op \in {"add", "adc"} /\ out = alu_add(x, v, c)
  <2>1. /\ out.value = (x + v + c) % 256
        /\ "H" \in out.flags <=> (x % 16) + (v % 16) + c > 15
        /\ "PV" \in out.flags <=> Signed(x) + Signed(v) + c \notin -128 .. 127
        /\ "C" \in out.flags <=> x + v + c > 255
    BY <1>1, AddExact
  <2>2. e.op \in {"add", "adc", "inc"} /\ e.op # "inc"
    BY <1>1
  <2> QED BY <2>1, <2>2, AddCase
<1>2. CASE e.op \in {"sub", "sbc", "neg"} /\ out = sub_flags(x, v, c)
  <2>1. /\ out.value = (x - v - c) % 256
        /\ "H" \in out.flags <=> x % 16 < (v % 16) + c
        /\ "PV" \in out.flags <=> Signed(x) - Signed(v) - c \notin -128 .. 127
        /\ "C" \in out.flags <=> x < v + c
    <3> DEFINE d == sub_flags(x, v, c)
    <3>1. /\ d.value = (x - v - c) % 256
          /\ "H" \in d.flags <=> x % 16 < (v % 16) + c
          /\ "PV" \in d.flags <=> Signed(x) - Signed(v) - c \notin -128 .. 127
          /\ "C" \in d.flags <=> x < v + c
      <4>1. d.value = (x - v - c) % 256
        BY SubExact
      <4>2. "H" \in d.flags <=> x % 16 < (v % 16) + c
        BY SubExact
      <4>3. "PV" \in d.flags <=> Signed(x) - Signed(v) - c \notin -128 .. 127
        BY SubExact
      <4>4. "C" \in d.flags <=> x < v + c
        BY SubExact
      <4> QED BY <4>1, <4>2, <4>3, <4>4
    <3>2. out = d
      BY <1>2
    <3> HIDE DEF d
    <3> QED BY <3>1, <3>2, Zenon
  <2>2. e.op \in {"sub", "sbc", "dec", "neg"} /\ e.op # "dec"
    BY <1>2
  <2> QED BY <2>1, <2>2, SubCase
<1> QED BY <1>1, <1>2

LEMMA StepCase ==
  ASSUME NEW e, e.a \in Byte, e.v = 1, e.f \in SUBSET Flags, NEW out,
         \/ e.op = "inc" /\ out = alu_inc(e.f, e.a)
         \/ e.op = "dec" /\ out = alu_dec(e.f, e.a)
  PROVE  Exact(e, out.value, out.flags)
<1>1. Augend(e) = e.a /\ CarryIn(e) = 0 /\ Signed(1) = 1 /\ 1 % 16 = 1
  BY DEF Augend, CarryIn, Signed
<1>2. 1 \in Byte /\ 0 \in {0, 1} /\ e.a % 16 \in Int /\ Signed(e.a) \in Int /\ e.a \in Int
  BY DEF Byte, Signed
<1>3. CASE e.op = "inc" /\ out = alu_inc(e.f, e.a)
  <2>1. /\ out.value = (e.a + 1) % 256
        /\ "H" \in out.flags <=> (e.a % 16) + 1 > 15
        /\ "PV" \in out.flags <=> Signed(e.a) + 1 \notin -128 .. 127
        /\ "C" \in out.flags <=> "C" \in e.f
    BY <1>3, IncExact
  <2>2. /\ e.a + 1 + 0 = e.a + 1 /\ (e.a % 16) + 1 + 0 = (e.a % 16) + 1
        /\ Signed(e.a) + 1 + 0 = Signed(e.a) + 1
    BY <1>2
  <2>3. e.op \in {"add", "adc", "inc"}
    BY <1>3
  <2> HIDE DEF Signed
  <2> QED BY <1>1, <1>2, <1>3, <2>1, <2>2, <2>3, AddCase
<1>4. CASE e.op = "dec" /\ out = alu_dec(e.f, e.a)
  <2>1. /\ out.value = (e.a - 1) % 256
        /\ "H" \in out.flags <=> e.a % 16 < 1
        /\ "PV" \in out.flags <=> Signed(e.a) - 1 \notin -128 .. 127
        /\ "C" \in out.flags <=> "C" \in e.f
    BY <1>4, DecExact
  <2>2. /\ e.a - 1 - 0 = e.a - 1 /\ 1 + 0 = 1
        /\ Signed(e.a) - 1 - 0 = Signed(e.a) - 1
    BY <1>2
  <2>3. e.op \in {"sub", "sbc", "dec", "neg"}
    BY <1>4
  <2> HIDE DEF Signed
  <2> QED BY <1>1, <1>2, <1>4, <2>1, <2>2, <2>3, SubCase
<1> QED BY <1>3, <1>4

LEMMA SumsStep ==
  ASSUME TypeOK, TypeOK', [Next]_vars, SumsAreExact
  PROVE  SumsAreExact'
<1>1. /\ a \in Byte /\ f \in SUBSET Flags /\ Carry(f) \in {0, 1} /\ 0 \in {0, 1}
      /\ 0 \in Byte /\ 1 \in Byte /\ 1 \in Word /\ a \in Word
  <2>1. a \in Byte /\ f \in SUBSET Flags /\ 0 \in {0, 1}
    BY DEF TypeOK
  <2>2. Carry(f) \in {0, 1}
    BY <2>1, FlagSets
  <2>3. 0 \in Byte /\ 1 \in Byte /\ 1 \in Word
    BY DEF Byte, Word
  <2>4. a \in Word
    BY <2>1 DEF Byte, Word
  <2> QED BY <2>1, <2>2, <2>3, <2>4
<1>2. ASSUME NEW which \in 0 .. 7, NEW v \in Byte, Operate(which, v)
      PROVE  SumsAreExact'
  <2> DEFINE op  == AluNames[which + 1]
             out == alu_operation(which, a, f, v)
  <2>1. /\ op \in Ops /\ v \in Word /\ Starting(op, v)
        /\ op \notin {"inc", "dec", "neg"}
        /\ a' = out.value /\ f' = out.flags
        /\ op = "add" => out = alu_add(a, v, 0)
        /\ op = "adc" => out = alu_add(a, v, Carry(f))
        /\ op = "sub" => out = sub_flags(a, v, 0)
        /\ op = "sbc" => out = sub_flags(a, v, Carry(f))
    BY <1>2, Operations
  <2>2. /\ trace' # << >> /\ Last'.op = op /\ Last'.v = v /\ Last'.a = a /\ Last'.f = f
    BY <2>1, Begun
  <2>3. Augend(Last') = a /\ CarryIn(Last') = IF op \in {"adc", "sbc"} THEN Carry(f) ELSE 0
    BY <2>1, <2>2 DEF Augend, CarryIn
  <2> HIDE DEF op, out
  <2>4. Augend(Last') \in Byte /\ Last'.v \in Byte /\ CarryIn(Last') \in {0, 1}
    BY <1>1, <2>2, <2>3
  <2>5. CASE op \in {"add", "adc", "sub", "sbc"}
    <3>1. \/ /\ Last'.op \in {"add", "adc"}
             /\ out = alu_add(Augend(Last'), Last'.v, CarryIn(Last'))
          \/ /\ Last'.op \in {"sub", "sbc", "neg"}
             /\ out = sub_flags(Augend(Last'), Last'.v, CarryIn(Last'))
      BY <2>1, <2>2, <2>3, <2>5
    <3>2. Exact(Last', out.value, out.flags)
      BY <2>4, <3>1, SumCase
    <3> QED BY <2>1, <3>2 DEF SumsAreExact
  <2>6. CASE op \notin {"add", "adc", "sub", "sbc"}
    BY <2>1, <2>2, <2>6 DEF SumsAreExact, Exact
  <2> QED BY <2>5, <2>6
<1>3. CASE IncA \/ DecA
  <2> PICK op \in {"inc", "dec"} :
        /\ Starting(op, 1) /\ op \in Ops
        /\ op = "inc" => a' = alu_inc(f, a).value /\ f' = alu_inc(f, a).flags
        /\ op = "dec" => a' = alu_dec(f, a).value /\ f' = alu_dec(f, a).flags
    BY <1>3 DEF IncA, DecA, ToA, Writes, Ops
  <2>1. /\ trace' # << >> /\ Last'.op = op /\ Last'.v = 1 /\ Last'.a = a /\ Last'.f = f
    BY <1>1, Begun
  <2>2. CASE op = "inc"
    <3>1. Exact(Last', alu_inc(f, a).value, alu_inc(f, a).flags)
      BY <1>1, <2>1, <2>2, StepCase
    <3> QED BY <2>2, <3>1 DEF SumsAreExact
  <2>3. CASE op = "dec"
    <3>1. Exact(Last', alu_dec(f, a).value, alu_dec(f, a).flags)
      BY <1>1, <2>1, <2>3, StepCase
    <3> QED BY <2>3, <3>1 DEF SumsAreExact
  <2> QED BY <2>2, <2>3
<1>4. CASE Neg
  <2>1. /\ Starting("neg", a) /\ "neg" \in Ops
        /\ a' = sub_flags(0, a, 0).value /\ f' = sub_flags(0, a, 0).flags
    BY <1>4 DEF Neg, ToA, Writes, Ops, execute_neg
  <2>2. trace' # << >> /\ Last'.op = "neg" /\ Last'.v = a
    BY <1>1, <2>1, Begun
  <2>3. Augend(Last') = 0 /\ CarryIn(Last') = 0
    BY <2>2 DEF Augend, CarryIn
  <2>4. Exact(Last', sub_flags(0, a, 0).value, sub_flags(0, a, 0).flags)
    BY <1>1, <2>2, <2>3, SumCase
  <2> QED BY <2>1, <2>4 DEF SumsAreExact
<1>5. ASSUME NEW op \in Ops, NEW v \in Word, Other(op, v)
      PROVE  SumsAreExact'
  <2>1. Starting(op, v) /\ op \notin Sums
    BY <1>5 DEF Other
  <2>2. Last'.op = op
    BY <2>1, Begun
  <2> QED BY <2>1, <2>2 DEF SumsAreExact, Exact, Sums
<1>6. CASE Finish \/ LoadSnapshot \/ UNCHANGED vars
  <2>1. a' = a /\ f' = f /\ trace' = trace
    BY <1>6 DEF Finish, LoadSnapshot, vars
  <2>2. Last' = Last
    BY <2>1 DEF Last
  <2> QED BY <2>1, <2>2 DEF SumsAreExact
<1>7. CASE PopRegisters
  BY <1>7 DEF PopRegisters, SumsAreExact
<1>8. CASE ResetPin
  <2>1. trace' = << Entry("reset", 0) >>
    BY <1>8 DEF ResetPin
  <2>2. Last'.op = "reset"
    BY <2>1 DEF Last, Entry
  <2> QED BY <2>2 DEF SumsAreExact, Exact
<1> QED BY Steps, <1>2, <1>3, <1>4, <1>5, <1>6, <1>7, <1>8

(* After every addition, subtraction, increment and negation A is the sum    *)
(* or difference, and C, H and P/V say what was lost on the way.           *)
THEOREM SumsExact == Spec => []SumsAreExact
<1>1. Init => SumsAreExact
  BY DEF Init, SumsAreExact
<1>2. TypeOK /\ TypeOK' /\ [Next]_vars /\ SumsAreExact => SumsAreExact'
  BY SumsStep
<1> QED BY <1>1, <1>2, TypeCorrect, PTL DEF Spec

-----------------------------------------------------------------------------
(* What CP leaves: A, and the flags of the difference but for X and Y. *)
LEMMA CpExact ==
  ASSUME NEW x \in Byte, NEW v \in Byte
  PROVE  /\ alu_cp(x, v).value = x
         /\ "Z" \in alu_cp(x, v).flags <=> x = v
         /\ "C" \in alu_cp(x, v).flags <=> x < v
         /\ ("S" \in alu_cp(x, v).flags) # ("PV" \in alu_cp(x, v).flags)
              <=> Signed(x) < Signed(v)
<1> DEFINE d == sub_flags(x, v, 0)
           r == (x - v) % 256
<1>1. /\ d.value = r
      /\ "PV" \in d.flags <=> Signed(x) - Signed(v) \notin -128 .. 127
      /\ "C" \in d.flags <=> x < v
      /\ "Z" \in d.flags <=> r = 0
      /\ "S" \in d.flags <=> r > 127
  <2>1. /\ d.value = (x - v - 0) % 256
        /\ "PV" \in d.flags <=> Signed(x) - Signed(v) - 0 \notin -128 .. 127
        /\ "C" \in d.flags <=> x < v + 0
        /\ "Z" \in d.flags <=> d.value = 0
        /\ "S" \in d.flags <=> d.value > 127
    <3>1. 0 \in {0, 1}
      OBVIOUS
    <3>2. d.value = (x - v - 0) % 256
      BY <3>1, SubExact
    <3>3. "PV" \in d.flags <=> Signed(x) - Signed(v) - 0 \notin -128 .. 127
      BY <3>1, SubExact
    <3>4. "C" \in d.flags <=> x < v + 0
      BY <3>1, SubExact
    <3>5. "Z" \in d.flags <=> d.value = 0
      BY <3>1, SubExact
    <3>6. "S" \in d.flags <=> d.value > 127
      BY <3>1, SubExact
    <3> QED BY <3>2, <3>3, <3>4, <3>5, <3>6
  <2>2. x - v - 0 = x - v /\ v + 0 = v /\ Signed(x) - Signed(v) - 0 = Signed(x) - Signed(v)
    BY DEF Byte, Signed
  <2> HIDE DEF d, Signed
  <2> QED BY <2>1, <2>2
<1>2. /\ alu_cp(x, v).value = x
      /\ \A g \in {"Z", "C", "S", "PV"} : g \in alu_cp(x, v).flags <=> g \in d.flags
  <2> HIDE DEF d
  <2> QED BY DEF d, alu_cp, Out, XY, CopyXY, FlagIf
<1>3. r = IF x < v THEN x - v + 256 ELSE x - v
  <2>1. x - v \in -256 .. 511
    BY DEF Byte
  <2> QED BY <2>1, OneTurn DEF Byte
<1>4. (r > 127) # (Signed(x) - Signed(v) \notin -128 .. 127) <=> Signed(x) < Signed(v)
  <2> HIDE DEF r
  <2> QED BY <1>3 DEF Signed, Byte
<1>5. r = 0 <=> x = v
  <2> HIDE DEF r
  <2> QED BY <1>3 DEF Byte
<1> HIDE DEF d, r, Signed
<1>6. ("S" \in alu_cp(x, v).flags) # ("PV" \in alu_cp(x, v).flags)
        <=> Signed(x) < Signed(v)
  BY <1>1, <1>2, <1>4
<1> QED BY <1>1, <1>2, <1>5, <1>6

(* The branches after CP compare A with the operand. *)
THEOREM CpBranches == Spec => []ComparisonBranches
<1>1. Init => ComparisonBranches
  BY DEF Init, ComparisonBranches
<1>2. TypeOK /\ TypeOK' /\ [Next]_vars /\ ComparisonBranches => ComparisonBranches'
  <2> SUFFICES ASSUME TypeOK, TypeOK', [Next]_vars, ComparisonBranches
               PROVE  ComparisonBranches'
    OBVIOUS
  <2>1. ASSUME NEW op \in Ops, NEW v \in Word, Starting(op, v), op # "cp"
        PROVE  ComparisonBranches'
    BY <2>1, Begun DEF ComparisonBranches
  <2>2. ASSUME NEW which \in 0 .. 7, NEW v \in Byte, Operate(which, v)
        PROVE  ComparisonBranches'
    <3> DEFINE op  == AluNames[which + 1]
               out == alu_operation(which, a, f, v)
    <3>1. /\ op \in Ops /\ v \in Word /\ Starting(op, v)
          /\ a' = out.value /\ f' = out.flags
          /\ op = "cp"  => out = alu_cp(a, v)
      BY <2>2, Operations
    <3> HIDE DEF op, out
    <3>2. CASE op # "cp"
      BY <2>1, <3>1, <3>2
    <3>3. CASE op = "cp"
      <4>1. Last'.v = v /\ Last'.a = a
        BY <3>1, Begun
      <4>2. a \in Byte
        BY DEF TypeOK
      <4>3. a' = alu_cp(a, v).value /\ f' = alu_cp(a, v).flags
        BY <3>1, <3>3
      <4>4. /\ a' = a
            /\ "Z" \in f' <=> a = v
            /\ "C" \in f' <=> a < v
            /\ ("S" \in f') # ("PV" \in f') <=> Signed(a) < Signed(v)
        BY <4>2, <4>3, CpExact
      <4>5. /\ condition_met(f', 1) <=> "Z" \in f'
            /\ condition_met(f', 3) <=> "C" \in f'
        BY DEF condition_met
      <4>6. /\ condition_met(f', 7) = ("S" \in f')
            /\ condition_met(f', 5) = ("PV" \in f')
        BY DEF condition_met
      <4>7. (condition_met(f', 7) # condition_met(f', 5)) <=> Signed(a) < Signed(v)
        BY <4>4, <4>6
      <4> HIDE DEF condition_met, Signed
      <4> QED BY <4>1, <4>4, <4>5, <4>7, Zenon DEF ComparisonBranches
    <3> QED BY <3>2, <3>3
  <2>3. CASE IncA \/ DecA \/ Neg
    <3>1. 1 \in Word /\ a \in Word
      <4>1. a \in Byte
        BY DEF TypeOK
      <4> QED BY <4>1 DEF Byte, Word
    <3>2. "inc" \in Ops /\ "dec" \in Ops /\ "neg" \in Ops
      BY DEF Ops
    <3> QED BY <2>1, <2>3, <3>1, <3>2 DEF IncA, DecA, Neg
  <2>4. ASSUME NEW op \in Ops, NEW v \in Word, Other(op, v)
        PROVE  ComparisonBranches'
    BY <2>1, <2>4 DEF Other, Sums
  <2>5. CASE Finish \/ LoadSnapshot \/ UNCHANGED vars
    <3>1. a' = a /\ f' = f /\ trace' = trace
      BY <2>5 DEF Finish, LoadSnapshot, vars
    <3>2. Last' = Last
      BY <3>1 DEF Last
    <3> HIDE DEF Last
    <3> QED BY <3>1, <3>2 DEF ComparisonBranches
  <2>6. CASE PopRegisters
    BY <2>6 DEF PopRegisters, ComparisonBranches
  <2>7. CASE ResetPin
    <3>1. trace' = << Entry("reset", 0) >>
      BY <2>7 DEF ResetPin
    <3>2. Last'.op = "reset"
      BY <3>1 DEF Last, Entry
    <3> QED BY <3>2 DEF ComparisonBranches
  <2> QED BY Steps, <2>2, <2>3, <2>4, <2>5, <2>6, <2>7
<1> QED BY <1>1, <1>2, TypeCorrect, PTL DEF Spec

-----------------------------------------------------------------------------
(* DAA after an addition of decimal bytes, and after a subtraction.  Each    *)
(* digit is a sum or difference of digits and a carry or borrow between.   *)
LEMMA DaaAfterAdd ==
  ASSUME NEW x \in Byte, NEW y \in Byte, NEW c \in {0, 1}, Digits(x), Digits(y),
         NEW s, s = alu_add(x, y, c), NEW d, d = alu_daa(s.value, s.flags)
  PROVE  /\ Digits(d.value)
         /\ Decimal(d.value) = (Decimal(x) + Decimal(y) + c) % 100
         /\ "C" \in d.flags <=> Decimal(x) + Decimal(y) + c > 99
<1> DEFINE n    == x + y + c
           low  == IF (x % 16) + (y % 16) + c > 15 \/ s.value % 16 > 9 THEN 6 ELSE 0
           high == IF n > 255 \/ s.value > 153 THEN 96 ELSE 0
           S    == s.value
           R    == d.value
<1>1. /\ s.value = n % 256
      /\ "H" \in s.flags <=> (x % 16) + (y % 16) + c > 15
      /\ "C" \in s.flags <=> n > 255
      /\ "N" \notin s.flags
  BY AddExact
<1>2. /\ d.value = (s.value + daa_adjust(s.value, s.flags)) % 256
      /\ "C" \in d.flags <=> "C" \in s.flags \/ s.value > 153
  <2>1. /\ d.value = (s.value + daa_adjust(s.value, s.flags)) % 256
        /\ d.flags = flags_sz_xy(d.value) \union ParityFlag(d.value)
                       \union (s.flags \intersect {"N"})
                       \union FlagIf("C", "C" \in s.flags \/ s.value > 153)
                       \union FlagIf("H", s.value % 16 > 9)
    BY <1>1 DEF alu_daa, Out
  <2> QED BY <2>1 DEF flags_sz_xy, ParityFlag, FlagIf, CopyXY
<1>3. daa_adjust(s.value, s.flags) = low + high
  BY <1>1 DEF daa_adjust
<1>4. S = n % 256 /\ R = (S + (low + high)) % 256
  BY <1>1, <1>2, <1>3
<1>5. /\ low \in {0, 6} /\ high \in {0, 96}
      /\ low = 6 <=> (x % 16) + (y % 16) + c > 15 \/ S % 16 > 9
      /\ high = 96 <=> n > 255 \/ S > 153
  OBVIOUS
<1> HIDE DEF S, R, low, high
<1> DEFINE x0 == x % 16
           x1 == x \div 16
           y0 == y % 16
           y1 == y \div 16
<1>6. /\ x0 \in 0 .. 9 /\ x1 \in 0 .. 9 /\ y0 \in 0 .. 9 /\ y1 \in 0 .. 9
      /\ x = 16 * x1 + x0 /\ y = 16 * y1 + y0
  BY TwoDigits DEF Digits
<1> DEFINE l == x0 + y0 + c
           h == x1 + y1
           up == IF l > 9 THEN 1 ELSE 0
           R0 == l - 10 * up
           over == IF h + up > 9 THEN 1 ELSE 0
           R1 == h + up - 10 * over
           sum == Decimal(x) + Decimal(y) + c
<1>7. /\ l \in 0 .. 19 /\ h \in 0 .. 18 /\ up \in {0, 1} /\ over \in {0, 1}
      /\ R0 \in 0 .. 9 /\ R1 \in 0 .. 9 /\ n = 16 * h + l /\ sum = 10 * h + l
  <2> HIDE DEF x0, x1, y0, y1
  <2>1. Decimal(x) = 10 * x1 + x0 /\ Decimal(y) = 10 * y1 + y0
    BY DEF Decimal, x0, x1, y0, y1
  <2> QED BY <1>6, <2>1
<1>8. S = IF l + 16 * h > 255 THEN 16 * h + l - 256 ELSE 16 * h + l
  <2> HIDE DEF l, h, n
  <2>1. 16 * h + l \in -256 .. 511 /\ 16 * h + l >= 0
    BY <1>7
  <2> QED BY <1>4, <1>7, <2>1, OneTurn
<1> HIDE DEF n, sum
<1>9. n > 255 \/ S > 153 <=> over = 1
  <2> HIDE DEF x0, x1, y0, y1
  <2> QED BY <1>6, <1>7, <1>8
<1>10. (x % 16) + (y % 16) + c > 15 \/ S % 16 > 9 <=> up = 1
  <2>1. S % 16 = IF l > 15 THEN l - 16 ELSE l
    <3> HIDE DEF l, h
    <3> QED BY <1>7, <1>8
  <2>2. (x % 16) + (y % 16) + c = l
    OBVIOUS
  <2> HIDE DEF l
  <2> QED BY <1>7, <2>1, <2>2
<1>11. R = 16 * R1 + R0
  <2>1. low = 6 * up /\ high = 96 * over
    <3> HIDE DEF up, over
    <3> QED BY <1>5, <1>7, <1>9, <1>10
  <2>2. /\ S + (6 * up + 96 * over) \in 0 .. 511
        /\ \/ S + (6 * up + 96 * over) = 16 * R1 + R0
           \/ S + (6 * up + 96 * over) = 16 * R1 + R0 + 256
    <3> HIDE DEF l, h
    <3> QED BY <1>7, <1>8
  <2> HIDE DEF up, over, R0, R1
  <2> QED BY <1>4, <1>7, <2>1, <2>2, OneTurn
<1>12. Digits(R) /\ Decimal(R) = 10 * R1 + R0
  <2>1. R \div 16 = R1 /\ R % 16 = R0
    <3> HIDE DEF R0, R1
    <3> QED BY <1>7, <1>11
  <2> HIDE DEF R0, R1
  <2> QED BY <1>7, <2>1 DEF Digits, Decimal
<1>13. 10 * R1 + R0 = sum % 100 /\ (over = 1 <=> sum > 99)
  <2>1. sum = 100 * over + (10 * R1 + R0) /\ 10 * R1 + R0 \in 0 .. 99
    <3> HIDE DEF l, h
    <3> QED BY <1>7
  <2> HIDE DEF R0, R1, over
  <2> QED BY <1>7, <2>1
<1> QED BY <1>1, <1>2, <1>9, <1>12, <1>13 DEF S, R, sum

LEMMA DaaAfterSub ==
  ASSUME NEW x \in Byte, NEW y \in Byte, NEW c \in {0, 1}, Digits(x), Digits(y),
         NEW s, s = sub_flags(x, y, c), NEW d, d = alu_daa(s.value, s.flags)
  PROVE  /\ Digits(d.value)
         /\ Decimal(d.value) = (Decimal(x) - Decimal(y) - c) % 100
         /\ "C" \in d.flags <=> Decimal(x) - Decimal(y) - c < 0
<1> DEFINE n    == x - y - c
           low  == IF x % 16 < (y % 16) + c \/ s.value % 16 > 9 THEN 6 ELSE 0
           high == IF n < 0 \/ s.value > 153 THEN 96 ELSE 0
           S    == s.value
           R    == d.value
<1>1. /\ s.value = n % 256
      /\ "H" \in s.flags <=> x % 16 < (y % 16) + c
      /\ "C" \in s.flags <=> n < 0
      /\ "N" \in s.flags
  <2>1. s.value = n % 256
    BY SubExact
  <2>2. "H" \in s.flags <=> x % 16 < (y % 16) + c
    BY SubExact
  <2>3. "C" \in s.flags <=> n < 0
    <3>1. "C" \in s.flags <=> x < y + c
      BY SubExact
    <3> QED BY <3>1 DEF Byte
  <2>4. "N" \in s.flags
    BY SubExact
  <2> QED BY <2>1, <2>2, <2>3, <2>4
<1>2. /\ d.value = (s.value - daa_adjust(s.value, s.flags)) % 256
      /\ "C" \in d.flags <=> "C" \in s.flags \/ s.value > 153
  <2>1. /\ d.value = (s.value - daa_adjust(s.value, s.flags)) % 256
        /\ d.flags = flags_sz_xy(d.value) \union ParityFlag(d.value)
                       \union (s.flags \intersect {"N"})
                       \union FlagIf("C", "C" \in s.flags \/ s.value > 153)
                       \union FlagIf("H", "H" \in s.flags /\ s.value % 16 < 6)
    BY <1>1 DEF alu_daa, Out
  <2> QED BY <2>1 DEF flags_sz_xy, ParityFlag, FlagIf, CopyXY
<1>3. daa_adjust(s.value, s.flags) = low + high
  BY <1>1 DEF daa_adjust
<1>4. S = n % 256 /\ R = (S - (low + high)) % 256
  BY <1>1, <1>2, <1>3
<1>5. /\ low \in {0, 6} /\ high \in {0, 96}
      /\ low = 6 <=> x % 16 < (y % 16) + c \/ S % 16 > 9
      /\ high = 96 <=> n < 0 \/ S > 153
  OBVIOUS
<1> HIDE DEF S, R, low, high
<1> DEFINE x0 == x % 16
           x1 == x \div 16
           y0 == y % 16
           y1 == y \div 16
<1>6. /\ x0 \in 0 .. 9 /\ x1 \in 0 .. 9 /\ y0 \in 0 .. 9 /\ y1 \in 0 .. 9
      /\ x = 16 * x1 + x0 /\ y = 16 * y1 + y0
  BY TwoDigits DEF Digits
<1> DEFINE l == x0 - y0 - c
           h == x1 - y1
           borrow == IF l < 0 THEN 1 ELSE 0
           R0 == l + 10 * borrow
           under == IF h - borrow < 0 THEN 1 ELSE 0
           R1 == h - borrow + 10 * under
           dif == Decimal(x) - Decimal(y) - c
<1>7. /\ l \in -10 .. 9 /\ h \in -9 .. 9 /\ borrow \in {0, 1} /\ under \in {0, 1}
      /\ R0 \in 0 .. 9 /\ R1 \in 0 .. 9 /\ n = 16 * h + l /\ dif = 10 * h + l
  <2> HIDE DEF x0, x1, y0, y1
  <2>1. Decimal(x) = 10 * x1 + x0 /\ Decimal(y) = 10 * y1 + y0
    BY DEF Decimal, x0, x1, y0, y1
  <2> QED BY <1>6, <2>1
<1>8. S = IF 16 * h + l < 0 THEN 16 * h + l + 256 ELSE 16 * h + l
  <2> HIDE DEF l, h, n
  <2>1. 16 * h + l \in -256 .. 511 /\ 16 * h + l <= 255
    BY <1>7
  <2> QED BY <1>4, <1>7, <2>1, OneTurn
<1> HIDE DEF n, dif
<1>9. n < 0 \/ S > 153 <=> under = 1
  <2> HIDE DEF x0, x1, y0, y1
  <2> QED BY <1>6, <1>7, <1>8
<1>10. x % 16 < (y % 16) + c \/ S % 16 > 9 <=> borrow = 1
  <2>1. S % 16 = IF l < 0 THEN l + 16 ELSE l
    <3> HIDE DEF l, h
    <3> QED BY <1>7, <1>8
  <2>2. x % 16 < (y % 16) + c <=> l < 0
    <3> HIDE DEF x0, y0
    <3> QED BY <1>6 DEF x0, y0
  <2> HIDE DEF l
  <2> QED BY <1>7, <2>1, <2>2
<1>11. R = 16 * R1 + R0
  <2>1. low = 6 * borrow /\ high = 96 * under
    <3> HIDE DEF borrow, under
    <3> QED BY <1>5, <1>7, <1>9, <1>10
  <2>2. /\ S - (6 * borrow + 96 * under) \in -256 .. 255
        /\ \/ S - (6 * borrow + 96 * under) = 16 * R1 + R0
           \/ S - (6 * borrow + 96 * under) = 16 * R1 + R0 - 256
    <3> HIDE DEF l, h
    <3> QED BY <1>7, <1>8
  <2> HIDE DEF borrow, under, R0, R1
  <2> QED BY <1>4, <1>7, <2>1, <2>2, OneTurn
<1>12. Digits(R) /\ Decimal(R) = 10 * R1 + R0
  <2>1. R \div 16 = R1 /\ R % 16 = R0
    <3> HIDE DEF R0, R1
    <3> QED BY <1>7, <1>11
  <2> HIDE DEF R0, R1
  <2> QED BY <1>7, <2>1 DEF Digits, Decimal
<1>13. 10 * R1 + R0 = dif % 100 /\ (under = 1 <=> dif < 0)
  <2>1. dif = 10 * R1 + R0 - 100 * under /\ 10 * R1 + R0 \in 0 .. 99
    <3> HIDE DEF l, h
    <3> QED BY <1>7
  <2> HIDE DEF R0, R1, under
  <2> QED BY <1>7, <2>1
<1> QED BY <1>1, <1>2, <1>9, <1>12, <1>13 DEF S, R, dif

(* A rotation and its opposite. *)
LEMMA Moves ==
  ASSUME NEW x \in Byte, NEW c \in {0, 1}
  PROVE  /\ LowBit(Left(x, c)) = c /\ Left(x, c) \div 2 + 128 * TopBit(x) = x
         /\ TopBit(Right(x, c)) = c
         /\ ((2 * Right(x, c)) % 256) + LowBit(x) = x
         /\ TopBit(x) \in {0, 1} /\ LowBit(x) \in {0, 1}
         /\ Left(x, c) \in Byte /\ Right(x, c) \in Byte
<1>1. x \in 0 .. 255
  BY DEF Byte
<1>2. x = 2 * (x \div 2) + (x % 2) /\ x \div 2 \in 0 .. 127 /\ x % 2 \in {0, 1}
  BY <1>1
<1>3. x = 128 * (x \div 128) + (x % 128) /\ x \div 128 \in {0, 1} /\ x % 128 \in 0 .. 127
  BY <1>1
<1>4. (2 * x) % 256 = 2 * (x % 128)
  <2> DEFINE t == x \div 128
             s == x % 128
  <2>1. 2 * x = 256 * t + 2 * s /\ t \in {0, 1} /\ 2 * s \in 0 .. 255
    BY <1>3
  <2> HIDE DEF t, s
  <2>2. (2 * x) % 256 = 2 * s
    BY <2>1
  <2> QED BY <2>2 DEF s
<1>5. Left(x, c) = 2 * (x % 128) + c
  BY <1>4 DEF Left
<1>6. Left(x, c) \div 2 = x % 128 /\ Left(x, c) % 2 = c
  <2> DEFINE s == x % 128
  <2>1. s \in 0 .. 127 /\ Left(x, c) = 2 * s + c
    BY <1>3, <1>5
  <2> HIDE DEF s
  <2>2. Left(x, c) \div 2 = s /\ Left(x, c) % 2 = c
    BY <2>1
  <2> QED BY <2>2 DEF s
<1>7. Right(x, c) \div 128 = c /\ Right(x, c) % 128 = x \div 2 /\ Right(x, c) \in 0 .. 255
  <2> DEFINE s == x \div 2
  <2>1. s \in 0 .. 127 /\ Right(x, c) = s + 128 * c
    BY <1>2 DEF Right
  <2> HIDE DEF s
  <2>2. Right(x, c) \div 128 = c /\ Right(x, c) % 128 = s /\ Right(x, c) \in 0 .. 255
    BY <2>1
  <2> QED BY <2>2 DEF s
<1>8. ((2 * Right(x, c)) % 256) = 2 * (x \div 2)
  <2> DEFINE s == x \div 2
             y == Right(x, c)
  <2>1. s \in 0 .. 127 /\ y = s + 128 * c
    BY <1>2 DEF Right
  <2> HIDE DEF s, y
  <2>2. 2 * y = 2 * s + 256 * c /\ 2 * s \in 0 .. 255
    BY <2>1
  <2>3. (2 * y) % 256 = 2 * s
    BY <2>1, <2>2
  <2> QED BY <2>3 DEF s, y
<1>9. Left(x, c) \in 0 .. 255
  BY <1>3, <1>5
<1>10. LowBit(Left(x, c)) = c /\ TopBit(Right(x, c)) = c
  BY <1>6, <1>7 DEF LowBit, TopBit
<1>11. Left(x, c) \div 2 + 128 * TopBit(x) = x
  BY <1>1, <1>3, <1>6 DEF TopBit
<1>12. ((2 * Right(x, c)) % 256) + LowBit(x) = x
  BY <1>2, <1>8 DEF LowBit
<1>13. TopBit(x) \in {0, 1} /\ LowBit(x) \in {0, 1}
  BY <1>2, <1>3 DEF LowBit, TopBit
<1>14. Left(x, c) \in Byte /\ Right(x, c) \in Byte
  BY <1>7, <1>9 DEF Byte
<1> QED BY <1>10, <1>11, <1>12, <1>13, <1>14

LEMMA RotationUndone ==
  ASSUME NEW x \in Byte, NEW g \in SUBSET Flags, NEW there \in 0 .. 3, NEW back \in 0 .. 3,
         NEW out, out = alu_rotate_a(there, x, g),
         NEW end, end = alu_rotate_a(back, out.value, out.flags)
  PROVE  /\ <<there, back>> \in {<<0, 1>>, <<1, 0>>} => end.value = x
         /\ <<there, back>> \in {<<2, 3>>, <<3, 2>>} =>
              end.value = x /\ \A h \in SZPV \union {"C"} : h \in end.flags <=> h \in g
<1> DEFINE c == Carry(g)
<1>1. /\ out.value = Rotated(there, x, c)
      /\ out.flags = (g \intersect SZPV) \union CopyXY(out.value) \union CarryOut(there, x)
      /\ end.value = Rotated(back, out.value, Carry(out.flags))
      /\ end.flags = (out.flags \intersect SZPV) \union CopyXY(end.value)
                       \union CarryOut(back, out.value)
  BY DEF alu_rotate_a, Out
<1>2. c \in {0, 1} /\ (c = 1 <=> "C" \in g)
  BY DEF Carry
<1>3. \A n, y : /\ CarryOut(n, y) \subseteq {"C"} /\ CopyXY(y) \subseteq XY
  BY DEF CarryOut, CopyXY, FlagIf, XY
<1>4. \A h \in SZPV : h \in end.flags <=> h \in g
  BY <1>1, <1>3 DEF SZPV, XY
<1>5. /\ "C" \in out.flags <=> "C" \in CarryOut(there, x)
      /\ "C" \in end.flags <=> "C" \in CarryOut(back, out.value)
  BY <1>1, <1>3 DEF SZPV, XY
<1>6. /\ \A y : "C" \in CarryOut(0, y) <=> TopBit(y) = 1
      /\ \A y : "C" \in CarryOut(2, y) <=> TopBit(y) = 1
      /\ \A y : "C" \in CarryOut(1, y) <=> LowBit(y) = 1
      /\ \A y : "C" \in CarryOut(3, y) <=> LowBit(y) = 1
  BY DEF CarryOut, FlagIf
<1>7. /\ \A y, k : Rotated(0, y, k) = Left(y, TopBit(y))
      /\ \A y, k : Rotated(1, y, k) = Right(y, LowBit(y))
      /\ \A y, k : Rotated(2, y, k) = Left(y, k)
      /\ \A y, k : Rotated(3, y, k) = Right(y, k)
  BY DEF Rotated
<1> HIDE DEF c
<1>8. TopBit(x) \in {0, 1} /\ LowBit(x) \in {0, 1}
  BY <1>2, Moves
<1>9. CASE there = 0 /\ back = 1
  <2>1. out.value = Left(x, TopBit(x))
    BY <1>1, <1>7, <1>9
  <2>2. LowBit(out.value) = TopBit(x) /\ out.value \div 2 + 128 * TopBit(x) = x
    BY <1>8, <2>1, Moves
  <2>3. end.value = out.value \div 2 + 128 * LowBit(out.value)
    BY <1>1, <1>7, <1>9 DEF Right
  <2> QED BY <1>9, <2>2, <2>3
<1>10. CASE there = 1 /\ back = 0
  <2>1. out.value = Right(x, LowBit(x))
    BY <1>1, <1>7, <1>10
  <2>2. TopBit(out.value) = LowBit(x) /\ ((2 * out.value) % 256) + LowBit(x) = x
    BY <1>8, <2>1, Moves
  <2>3. end.value = ((2 * out.value) % 256) + TopBit(out.value)
    BY <1>1, <1>7, <1>10 DEF Left
  <2> QED BY <1>10, <2>2, <2>3
<1>11. CASE there = 2 /\ back = 3
  <2>1. out.value = Left(x, c)
    BY <1>1, <1>7, <1>11
  <2>2. LowBit(out.value) = c /\ out.value \div 2 + 128 * TopBit(x) = x
    BY <1>2, <2>1, Moves
  <2>3. Carry(out.flags) = TopBit(x)
    BY <1>5, <1>6, <1>8, <1>11 DEF Carry
  <2>4. end.value = out.value \div 2 + 128 * TopBit(x)
    BY <1>1, <1>7, <1>11, <2>3 DEF Right
  <2>5. "C" \in end.flags <=> "C" \in g
    BY <1>2, <1>5, <1>6, <1>11, <2>2
  <2> QED BY <1>4, <1>11, <2>2, <2>4, <2>5
<1>12. CASE there = 3 /\ back = 2
  <2>1. out.value = Right(x, c)
    BY <1>1, <1>7, <1>12
  <2>2. TopBit(out.value) = c /\ ((2 * out.value) % 256) + LowBit(x) = x
    BY <1>2, <2>1, Moves
  <2>3. Carry(out.flags) = LowBit(x)
    BY <1>5, <1>6, <1>8, <1>12 DEF Carry
  <2>4. end.value = ((2 * out.value) % 256) + LowBit(x)
    BY <1>1, <1>7, <1>12, <2>3 DEF Left
  <2>5. "C" \in end.flags <=> "C" \in g
    BY <1>2, <1>5, <1>6, <1>12, <2>2
  <2> QED BY <1>4, <1>12, <2>2, <2>4, <2>5
<1>13. CASE <<there, back>> \notin {<<0, 1>>, <<1, 0>>, <<2, 3>>, <<3, 2>>}
  BY <1>13
<1> QED BY <1>9, <1>10, <1>11, <1>12, <1>13

(* RRD and RLD turn three digits around, opposite ways. *)
LEMMA DigitsUndone ==
  ASSUME NEW x \in Byte, NEW m \in Byte, NEW right \in BOOLEAN, NEW back \in BOOLEAN, back # right,
         NEW x1, x1 = DigitRotated(right, x, m), NEW m1, m1 = DigitStored(right, x, m)
  PROVE  DigitRotated(back, x1, m1) = x /\ DigitStored(back, x1, m1) = m
<1> DEFINE X1 == x \div 16
           X0 == x % 16
           M1 == m \div 16
           M0 == m % 16
<1>1. /\ X1 \in 0 .. 15 /\ X0 \in 0 .. 15 /\ M1 \in 0 .. 15 /\ M0 \in 0 .. 15
      /\ x = 16 * X1 + X0 /\ m = 16 * M1 + M0
  BY TwoDigits
<1>2. CASE right /\ ~back
  <2>1. x1 = x - X0 + M0 /\ m1 = 16 * X0 + M1
    BY <1>2 DEF DigitRotated, DigitStored
  <2> HIDE DEF X1, X0, M1, M0
  <2>2. /\ x1 = 16 * X1 + M0 /\ x1 % 16 = M0
        /\ m1 \div 16 = X0 /\ m1 % 16 = M1 /\ (16 * m1) % 256 = 16 * M1
    BY <1>1, <2>1
  <2> QED BY <1>1, <1>2, <2>1, <2>2 DEF DigitRotated, DigitStored
<1>3. CASE ~right /\ back
  <2>1. x1 = x - X0 + M1 /\ m1 = ((16 * m) % 256) + X0
    BY <1>3 DEF DigitRotated, DigitStored
  <2> HIDE DEF X1, X0, M1, M0
  <2>2. (16 * m) % 256 = 16 * M0
    BY <1>1
  <2>3. /\ x1 = 16 * X1 + M1 /\ x1 % 16 = M1
        /\ m1 \div 16 = M0 /\ m1 % 16 = X0
    BY <1>1, <2>1, <2>2
  <2> QED BY <1>1, <1>3, <2>1, <2>3 DEF DigitRotated, DigitStored
<1> QED BY <1>2, <1>3

LEMMA StepsUndone ==
  ASSUME NEW v \in Byte, NEW g, NEW h
  PROVE  /\ alu_dec(h, alu_inc(g, v).value).value = v
         /\ alu_inc(h, alu_dec(g, v).value).value = v
<1>1. /\ alu_dec(h, alu_inc(g, v).value).value = (((v + 1) % 256) - 1) % 256
      /\ alu_inc(h, alu_dec(g, v).value).value = (((v - 1) % 256) + 1) % 256
  BY DEF alu_inc, alu_dec, Out
<1> QED BY <1>1 DEF Byte

-----------------------------------------------------------------------------
(* A word and its two bytes, and its bits as bits of the upper one. *)
LEMMA TwoBytes ==
  ASSUME NEW x \in Word
  PROVE  /\ x \div 256 \in Byte /\ x % 256 \in Byte
         /\ x = 256 * (x \div 256) + (x % 256)
         /\ x \div 4096 = (x \div 256) \div 16
         /\ x \div 32768 = (x \div 256) \div 128
<1>1. x \in Int /\ 0 <= x /\ x < 65536
  BY DEF Word
<1>2. /\ x \div 256 \in Int /\ 0 <= x \div 256 /\ x \div 256 < 256
      /\ x % 256 \in Int /\ 0 <= x % 256 /\ x % 256 < 256
      /\ x = 256 * (x \div 256) + (x % 256)
  BY <1>1
<1>3. x \div 4096 = (x \div 256) \div 16 /\ x \div 32768 = (x \div 256) \div 128
  BY <1>1
<1> QED BY <1>2, <1>3 DEF Byte

(* The sum, or the difference, of two words from those of their bytes.      *)
LEMMA WordSum ==
  ASSUME NEW x \in Word, NEW y \in Word, NEW c \in {0, 1},
         NEW low, low = alu_add(x % 256, y % 256, c),
         NEW high, high = alu_add(x \div 256, y \div 256, Carry(low.flags))
  PROVE  /\ low.value \in Byte /\ high.value \in Byte
         /\ (x + y + c) % 65536 = 256 * high.value + low.value
         /\ Has(x + y + c, 65536) <=> "C" \in high.flags
<1> DEFINE X1 == x \div 256
           X0 == x % 256
           Y1 == y \div 256
           Y0 == y % 256
           k  == Carry(low.flags)
<1>1. /\ X1 \in Byte /\ X0 \in Byte /\ Y1 \in Byte /\ Y0 \in Byte
      /\ x = 256 * X1 + X0 /\ y = 256 * Y1 + Y0
  BY TwoBytes
<1> HIDE DEF X1, X0, Y1, Y0
<1>2. low.value = (X0 + Y0 + c) % 256 /\ ("C" \in low.flags <=> X0 + Y0 + c > 255)
  BY <1>1, AddExact DEF X1, X0, Y1, Y0
<1>3. k \in {0, 1} /\ (k = 1 <=> X0 + Y0 + c > 255)
  BY <1>2 DEF Carry
<1>4. high.value = (X1 + Y1 + k) % 256 /\ ("C" \in high.flags <=> X1 + Y1 + k > 255)
  BY <1>1, <1>3, AddExact DEF X1, X0, Y1, Y0
<1> HIDE DEF k
<1>5. low.value \in Byte /\ X0 + Y0 + c = 256 * k + low.value
  <2>1. X0 + Y0 + c \in -256 .. 511 /\ X0 + Y0 + c >= 0
    BY <1>1 DEF Byte
  <2> QED BY <1>2, <1>3, <2>1, OneTurn DEF Byte
<1> DEFINE j == IF X1 + Y1 + k > 255 THEN 1 ELSE 0
<1>6. high.value \in Byte /\ X1 + Y1 + k = 256 * j + high.value
  <2>1. X1 + Y1 + k \in -256 .. 511 /\ X1 + Y1 + k >= 0
    BY <1>1, <1>3 DEF Byte
  <2> QED BY <1>4, <2>1, OneTurn DEF Byte
<1>7. j \in {0, 1} /\ (j = 1 <=> "C" \in high.flags)
  BY <1>4
<1> HIDE DEF j
<1> DEFINE r == 256 * high.value + low.value
           n == x + y + c
<1>8. n = 65536 * j + r /\ r \in Int /\ 0 <= r /\ r < 65536
  <2>1. /\ low.value \in Int /\ 0 <= low.value /\ low.value < 256
        /\ high.value \in Int /\ 0 <= high.value /\ high.value < 256
        /\ X1 \in Int /\ X0 \in Int /\ Y1 \in Int /\ Y0 \in Int
    BY <1>1, <1>5, <1>6 DEF Byte
  <2> QED BY <1>1, <1>3, <1>5, <1>6, <1>7, <2>1
<1> HIDE DEF r, n
<1>9. n % 65536 = r /\ n \div 65536 = j
  BY <1>7, <1>8
<1>10. Has(n, 65536) <=> j = 1
  BY <1>7, <1>9 DEF Has
<1> QED BY <1>5, <1>6, <1>7, <1>9, <1>10 DEF r, n

LEMMA WordDifference ==
  ASSUME NEW x \in Word, NEW y \in Word, NEW c \in {0, 1},
         NEW low, low = sub_flags(x % 256, y % 256, c),
         NEW high, high = sub_flags(x \div 256, y \div 256, Carry(low.flags))
  PROVE  /\ low.value \in Byte /\ high.value \in Byte
         /\ ((x - y - c) % 131072) % 65536 = 256 * high.value + low.value
         /\ Has((x - y - c) % 131072, 65536) <=> "C" \in high.flags
<1> DEFINE X1 == x \div 256
           X0 == x % 256
           Y1 == y \div 256
           Y0 == y % 256
           k  == Carry(low.flags)
<1>1. /\ X1 \in Byte /\ X0 \in Byte /\ Y1 \in Byte /\ Y0 \in Byte
      /\ x = 256 * X1 + X0 /\ y = 256 * Y1 + Y0
  BY TwoBytes
<1> HIDE DEF X1, X0, Y1, Y0
<1>2. low.value = (X0 - Y0 - c) % 256 /\ ("C" \in low.flags <=> X0 < Y0 + c)
  <2>1. low = sub_flags(X0, Y0, c)
    BY DEF X0, Y0
  <2>2. sub_flags(X0, Y0, c).value = (X0 - Y0 - c) % 256
    BY <1>1, SubExact
  <2>3. "C" \in sub_flags(X0, Y0, c).flags <=> X0 < Y0 + c
    BY <1>1, SubExact
  <2> QED BY <2>1, <2>2, <2>3
<1>3. k \in {0, 1} /\ (k = 1 <=> X0 < Y0 + c)
  BY <1>2 DEF Carry
<1>4. high.value = (X1 - Y1 - k) % 256 /\ ("C" \in high.flags <=> X1 < Y1 + k)
  <2>1. high = sub_flags(X1, Y1, k)
    BY DEF X1, Y1
  <2> HIDE DEF k
  <2>2. sub_flags(X1, Y1, k).value = (X1 - Y1 - k) % 256
    BY <1>1, <1>3, SubExact
  <2>3. "C" \in sub_flags(X1, Y1, k).flags <=> X1 < Y1 + k
    BY <1>1, <1>3, SubExact
  <2> QED BY <2>1, <2>2, <2>3
<1> HIDE DEF k
<1>5. low.value \in Byte /\ X0 - Y0 - c = low.value - 256 * k
  <2>1. X0 - Y0 - c \in -256 .. 511 /\ X0 - Y0 - c <= 255
    BY <1>1 DEF Byte
  <2>2. X0 < Y0 + c <=> X0 - Y0 - c < 0
    BY <1>1 DEF Byte
  <2> QED BY <1>2, <1>3, <2>1, <2>2, OneTurn DEF Byte
<1> DEFINE j == IF X1 < Y1 + k THEN 1 ELSE 0
<1>6. high.value \in Byte /\ X1 - Y1 - k = high.value - 256 * j
  <2>1. X1 - Y1 - k \in -256 .. 511 /\ X1 - Y1 - k <= 255
    BY <1>1, <1>3 DEF Byte
  <2>2. X1 < Y1 + k <=> X1 - Y1 - k < 0
    BY <1>1, <1>3 DEF Byte
  <2> QED BY <1>4, <2>1, <2>2, OneTurn DEF Byte
<1>7. j \in {0, 1} /\ (j = 1 <=> "C" \in high.flags)
  BY <1>4
<1> HIDE DEF j
<1> DEFINE r == 256 * high.value + low.value
           n == x - y - c
<1>8. n = r - 65536 * j /\ r \in Int /\ 0 <= r /\ r < 65536
  <2>1. /\ low.value \in Int /\ 0 <= low.value /\ low.value < 256
        /\ high.value \in Int /\ 0 <= high.value /\ high.value < 256
        /\ X1 \in Int /\ X0 \in Int /\ Y1 \in Int /\ Y0 \in Int
    BY <1>1, <1>5, <1>6 DEF Byte
  <2> QED BY <1>1, <1>3, <1>5, <1>6, <1>7, <2>1
<1> HIDE DEF r, n
<1>9. n % 131072 = r + 65536 * j
  <2>1. CASE j = 0
    BY <1>8, <2>1
  <2>2. CASE j = 1
    BY <1>8, <2>2
  <2> QED BY <1>7, <2>1, <2>2
<1>10. (n % 131072) % 65536 = r /\ (n % 131072) \div 65536 = j
  BY <1>7, <1>8, <1>9
<1>11. Has(n % 131072, 65536) <=> j = 1
  BY <1>7, <1>10 DEF Has
<1> QED BY <1>5, <1>6, <1>7, <1>10, <1>11 DEF r, n

(* The bits that the word operations test are those of the upper byte. *)
LEMMA UpperBits ==
  ASSUME NEW x \in Word, NEW y \in Word, NEW u \in Byte, NEW l \in Byte,
         NEW r, r = 256 * u + l
  PROVE  /\ r \in Word /\ r \div 256 = u
         /\ Has(r, 32768) <=> Has(u, 128)
         /\ CarryInto(4096, x, y, r) <=> CarryInto(16, x \div 256, y \div 256, u)
         /\ AddOverflow(32768, x, y, r) <=> AddOverflow(128, x \div 256, y \div 256, u)
         /\ SubOverflow(32768, x, y, r) <=> SubOverflow(128, x \div 256, y \div 256, u)
<1>1. r \in Int /\ 0 <= r /\ r < 65536 /\ r \div 256 = u
  <2>1. u \in Int /\ 0 <= u /\ u < 256 /\ l \in Int /\ 0 <= l /\ l < 256
    BY DEF Byte
  <2> QED BY <2>1
<1>2. r \in Word
  BY <1>1 DEF Word
<1>3. /\ r \div 4096 = u \div 16 /\ r \div 32768 = u \div 128
      /\ x \div 4096 = (x \div 256) \div 16 /\ x \div 32768 = (x \div 256) \div 128
      /\ y \div 4096 = (y \div 256) \div 16 /\ y \div 32768 = (y \div 256) \div 128
  BY <1>1, <1>2, TwoBytes
<1>4. Has(r, 32768) <=> Has(u, 128)
  BY <1>3 DEF Has
<1>5. CarryInto(4096, x, y, r) <=> CarryInto(16, x \div 256, y \div 256, u)
  BY <1>3 DEF CarryInto, HasXor, Has
<1>6. AddOverflow(32768, x, y, r) <=> AddOverflow(128, x \div 256, y \div 256, u)
  BY <1>3 DEF AddOverflow, HasXor, Has
<1>7. SubOverflow(32768, x, y, r) <=> SubOverflow(128, x \div 256, y \div 256, u)
  BY <1>3 DEF SubOverflow, HasXor, Has
<1> QED BY <1>1, <1>2, <1>4, <1>5, <1>6, <1>7

(* The flags of a sum and of a difference, from their value. *)
LEMMA FlagsOfValue ==
  ASSUME NEW x, NEW y, NEW c, NEW r
  PROVE  /\ r = alu_add(x, y, c).value =>
              alu_add(x, y, c).flags
                = flags_sz_xy(r) \union FlagIf("H", CarryInto(16, x, y, r))
                    \union FlagIf("PV", AddOverflow(128, x, y, r))
                    \union FlagIf("C", Has((x + y + c) % 65536, 256))
         /\ r = sub_flags(x, y, c).value =>
              sub_flags(x, y, c).flags
                = flags_sz_xy(r) \union {"N"} \union FlagIf("H", CarryInto(16, x, y, r))
                    \union FlagIf("PV", SubOverflow(128, x, y, r))
                    \union FlagIf("C", Has((x - y - c) % 65536, 256))
<1>1. /\ alu_add(x, y, c).value = ((x + y + c) % 65536) % 256
      /\ sub_flags(x, y, c).value = ((x - y - c) % 65536) % 256
  BY DEF alu_add, sub_flags, Out
<1>2. ASSUME r = ((x + y + c) % 65536) % 256
      PROVE  alu_add(x, y, c).flags
                = flags_sz_xy(r) \union FlagIf("H", CarryInto(16, x, y, r))
                    \union FlagIf("PV", AddOverflow(128, x, y, r))
                    \union FlagIf("C", Has((x + y + c) % 65536, 256))
  BY <1>2 DEF alu_add, Out
<1>3. ASSUME r = ((x - y - c) % 65536) % 256
      PROVE  sub_flags(x, y, c).flags
                = flags_sz_xy(r) \union {"N"} \union FlagIf("H", CarryInto(16, x, y, r))
                    \union FlagIf("PV", SubOverflow(128, x, y, r))
                    \union FlagIf("C", Has((x - y - c) % 65536, 256))
  BY <1>3 DEF sub_flags, Out
<1> QED BY <1>1, <1>2, <1>3

(* The word operations are those on two bytes: value and flags. *)
LEMMA WordsOfBytes ==
  ASSUME NEW x \in Word, NEW y \in Word, NEW g \in SUBSET Flags,
         NEW sub \in BOOLEAN, NEW c \in {0, 1},
         NEW low, low = IF sub THEN sub_flags(x % 256, y % 256, c)
                        ELSE alu_add(x % 256, y % 256, c),
         NEW high, high = IF sub THEN sub_flags(x \div 256, y \div 256, Carry(low.flags))
                          ELSE alu_add(x \div 256, y \div 256, Carry(low.flags)),
         NEW out
  PROVE  /\ out = alu_add16(x, g, y) /\ c = 0 /\ ~sub =>
              /\ out.value = 256 * high.value + low.value
              /\ out.flags = (g \intersect SZPV) \union (high.flags \ SZPV)
         /\ \/ out = alu_adc16(x, g, y) /\ c = Carry(g) /\ ~sub
            \/ out = alu_sbc16(x, g, y) /\ c = Carry(g) /\ sub
            => /\ out.value = 256 * high.value + low.value
               /\ out.flags = (high.flags \ {"Z"}) \union FlagIf("Z", out.value = 0)
<1> DEFINE X == x \div 256
           Y == y \div 256
           u == high.value
           r == 256 * u + low.value
           SgnU == FlagIf("S", Has(u, 128))
           ZerU == FlagIf("Z", u = 0)
           Half == FlagIf("H", CarryInto(16, X, Y, u))
           OvfA == FlagIf("PV", AddOverflow(128, X, Y, u))
           OvfS == FlagIf("PV", SubOverflow(128, X, Y, u))
           CarU == FlagIf("C", "C" \in high.flags)
<1>1. /\ low.value \in Byte /\ u \in Byte
      /\ ~sub => (x + y + c) % 65536 = r /\ (Has(x + y + c, 65536) <=> "C" \in high.flags)
      /\ sub => /\ ((x - y - c) % 131072) % 65536 = r
                /\ Has((x - y - c) % 131072, 65536) <=> "C" \in high.flags
  <2>1. CASE sub
    BY <2>1, WordDifference
  <2>2. CASE ~sub
    BY <2>2, WordSum
  <2> QED BY <2>1, <2>2
<1>2. /\ r \div 256 = u
      /\ Has(r, 32768) <=> Has(u, 128)
      /\ CarryInto(4096, x, y, r) <=> CarryInto(16, X, Y, u)
      /\ AddOverflow(32768, x, y, r) <=> AddOverflow(128, X, Y, u)
      /\ SubOverflow(32768, x, y, r) <=> SubOverflow(128, X, Y, u)
  BY <1>1, UpperBits
<1>3. /\ WordFlags(r) = SgnU \union CopyXY(u) \union FlagIf("Z", r = 0)
      /\ CopyXY(r \div 256) = CopyXY(u)
      /\ FlagIf("H", CarryInto(4096, x, y, r)) = Half
      /\ FlagIf("PV", AddOverflow(32768, x, y, r)) = OvfA
      /\ FlagIf("PV", SubOverflow(32768, x, y, r)) = OvfS
      /\ ~sub => FlagIf("C", Has(x + y + c, 65536)) = CarU
      /\ sub => FlagIf("C", Has((x - y - c) % 131072, 65536)) = CarU
  BY <1>1, <1>2 DEF FlagIf, WordFlags
<1>4. /\ SgnU \subseteq {"S"} /\ CopyXY(u) \subseteq XY /\ ZerU \subseteq {"Z"}
      /\ Half \subseteq {"H", "N"} /\ Half \union {"N"} \subseteq {"H", "N"}
      /\ OvfA \subseteq {"PV"} /\ OvfS \subseteq {"PV"} /\ CarU \subseteq {"C"}
  BY DEF FlagIf, CopyXY, XY
<1>5. /\ ~sub => high.flags = SgnU \union CopyXY(u) \union ZerU \union Half \union OvfA
                                \union CarU
      /\ sub => high.flags = SgnU \union CopyXY(u) \union ZerU \union (Half \union {"N"})
                               \union OvfS \union CarU
  <2> DEFINE k == Carry(low.flags)
  <2>1. CASE sub
    <3>1. \E C : high.flags = flags_sz_xy(u) \union {"N"} \union Half \union OvfS
                               \union FlagIf("C", C)
      BY <2>1, FlagsOfValue
    <3>2. PICK C : high.flags = SgnU \union ZerU \union CopyXY(u) \union {"N"} \union Half
                                  \union OvfS \union FlagIf("C", C)
      BY <3>1 DEF flags_sz_xy
    <3>3. FlagIf("C", C) = CarU
      <4> HIDE DEF SgnU, ZerU, Half, OvfS
      <4> QED BY <1>4, <3>2 DEF FlagIf, XY
    <3> HIDE DEF SgnU, ZerU, Half, OvfS, CarU
    <3> QED BY <2>1, <3>2, <3>3
  <2>2. CASE ~sub
    <3>1. \E C : high.flags = flags_sz_xy(u) \union Half \union OvfA \union FlagIf("C", C)
      BY <2>2, FlagsOfValue
    <3>2. PICK C : high.flags = SgnU \union ZerU \union CopyXY(u) \union Half
                                  \union OvfA \union FlagIf("C", C)
      BY <3>1 DEF flags_sz_xy
    <3>3. FlagIf("C", C) = CarU
      <4> HIDE DEF SgnU, ZerU, Half, OvfA
      <4> QED BY <1>4, <3>2 DEF FlagIf, XY
    <3> HIDE DEF SgnU, ZerU, Half, OvfA, CarU
    <3> QED BY <2>2, <3>2, <3>3
  <2> QED BY <2>1, <2>2
<1>6. ASSUME out = alu_add16(x, g, y), c = 0, ~sub
      PROVE  /\ out.value = r
             /\ out.flags = (g \intersect SZPV) \union (high.flags \ SZPV)
  <2>1. x + y + c = x + y
    BY <1>6 DEF Word
  <2>2. /\ out.value = r
        /\ out.flags = (g \intersect SZPV) \union CopyXY(r \div 256)
                         \union FlagIf("H", CarryInto(4096, x, y, r))
                         \union FlagIf("C", Has(x + y, 65536))
    BY <1>1, <1>6, <2>1 DEF alu_add16, Out
  <2> HIDE DEF u, X, Y, r, SgnU, ZerU, Half, OvfA, CarU
  <2>3. out.flags = (g \intersect SZPV) \union CopyXY(u) \union Half \union CarU
    BY <1>3, <1>6, <2>1, <2>2
  <2>4. high.flags \ SZPV = CopyXY(u) \union Half \union CarU
    <3>1. high.flags = SgnU \union CopyXY(u) \union ZerU \union Half \union OvfA \union CarU
      BY <1>5, <1>6
    <3>2. (SgnU \union CopyXY(u) \union ZerU \union Half \union OvfA \union CarU) \ SZPV
            = CopyXY(u) \union Half \union CarU
      BY <1>4, Zenon DEF XY, SZPV
    <3> QED BY <3>1, <3>2
  <2> QED BY <2>2, <2>3, <2>4
<1>7. ASSUME \/ out = alu_adc16(x, g, y) /\ c = Carry(g) /\ ~sub
             \/ out = alu_sbc16(x, g, y) /\ c = Carry(g) /\ sub
      PROVE  /\ out.value = r
             /\ out.flags = (high.flags \ {"Z"}) \union FlagIf("Z", out.value = 0)
  <2>1. CASE ~sub
    <3>1. /\ out.value = r
          /\ out.flags = WordFlags(r)
                           \union FlagIf("H", CarryInto(4096, x, y, r))
                           \union FlagIf("PV", AddOverflow(32768, x, y, r))
                           \union FlagIf("C", Has(x + y + c, 65536))
      BY <1>1, <1>7, <2>1 DEF alu_adc16, Out
    <3> HIDE DEF u, X, Y, r, SgnU, ZerU, Half, OvfA, CarU
    <3>2. out.flags = (SgnU \union CopyXY(u) \union FlagIf("Z", r = 0)) \union Half
                        \union OvfA \union CarU
      BY <1>3, <2>1, <3>1
    <3>3. high.flags \ {"Z"} = SgnU \union CopyXY(u) \union Half \union OvfA \union CarU
      BY <1>4, <1>5, <2>1 DEF XY, SZPV
    <3> QED BY <3>1, <3>2, <3>3
  <2>2. CASE sub
    <3>1. /\ out.value = r
          /\ out.flags = WordFlags(r) \union {"N"}
                           \union FlagIf("H", CarryInto(4096, x, y, r))
                           \union FlagIf("PV", SubOverflow(32768, x, y, r))
                           \union FlagIf("C", Has((x - y - c) % 131072, 65536))
      BY <1>1, <1>7, <2>2 DEF alu_sbc16, Out
    <3> HIDE DEF u, X, Y, r, SgnU, ZerU, Half, OvfS, CarU
    <3>2. out.flags = (SgnU \union CopyXY(u) \union FlagIf("Z", r = 0)) \union {"N"}
                        \union Half \union OvfS \union CarU
      BY <1>3, <2>2, <3>1
    <3>3. high.flags \ {"Z"} = SgnU \union CopyXY(u) \union (Half \union {"N"}) \union OvfS
                                 \union CarU
      <4>1. high.flags = SgnU \union CopyXY(u) \union ZerU \union (Half \union {"N"})
                           \union OvfS \union CarU
        BY <1>5, <2>2
      <4>2. (SgnU \union CopyXY(u) \union ZerU \union (Half \union {"N"}) \union OvfS
               \union CarU) \ {"Z"}
              = SgnU \union CopyXY(u) \union (Half \union {"N"}) \union OvfS \union CarU
        BY <1>4, Zenon DEF XY, SZPV
      <4> QED BY <4>1, <4>2
    <3> QED BY <3>1, <3>2, <3>3
  <2> QED BY <2>1, <2>2
<1> QED BY <1>6, <1>7

-----------------------------------------------------------------------------
(* What instruction e leaves in A, HL, F and on the bus. *)
LeftBy(e, x, w, g, b) ==
  /\ e.op \in {"add", "adc"} => Out(x, g) = alu_add(e.a, e.v, CarryIn(e))
  /\ e.op \in {"sub", "sbc"} => Out(x, g) = sub_flags(e.a, e.v, CarryIn(e))
  /\ e.op = "daa" => Out(x, g) = alu_daa(e.a, e.f)
  /\ \A which \in 0 .. 3 :
       e.op = RotateNames[which + 1] => Out(x, g) = alu_rotate_a(which, e.a, e.f)
  /\ \A right \in BOOLEAN :
       e.op = (IF right THEN "rrd" ELSE "rld") =>
         x = DigitRotated(right, e.a, e.v) /\ b = DigitStored(right, e.a, e.v)
  /\ e.op \in {"rrd", "rld", "inc_mem", "dec_mem"} => e.v \in Byte
  /\ e.op = "inc_mem" => x = e.a /\ b = alu_inc(e.f, e.v).value
  /\ e.op = "dec_mem" => x = e.a /\ b = alu_dec(e.f, e.v).value
  /\ e.op = "add16" => Out(w, g) = alu_add16(e.hl, e.f, e.v)
  /\ e.op = "adc16" => Out(w, g) = alu_adc16(e.hl, e.f, e.v)
  /\ e.op = "sbc16" => Out(w, g) = alu_sbc16(e.hl, e.f, e.v)

(* The inductive invariant behind what follows: the last two instructions    *)
(* of the trace left what the next one, or the machine, now has.           *)
Chained ==
  /\ trace # << >> => LeftBy(Last, a, hl, f, bus_data)
  /\ Len(trace) > 1 => LeftBy(Before, Last.a, Last.hl, Last.f, Last.bus_data)

(* The operations that LeftBy speaks of. *)
Told == {"add", "adc", "sub", "sbc", "daa", "rlc", "rrc", "rl", "rr", "rrd", "rld",
         "inc_mem", "dec_mem", "add16", "adc16", "sbc16"}

LEMMA NamesOfRotations ==
  /\ \A which \in 0 .. 3 : RotateNames[which + 1] \in {"rlc", "rrc", "rl", "rr"}
  /\ \A m, n \in 0 .. 3 : RotateNames[m + 1] = RotateNames[n + 1] => m = n
<1>1. /\ RotateNames[1] = "rlc" /\ RotateNames[2] = "rrc"
      /\ RotateNames[3] = "rl" /\ RotateNames[4] = "rr"
  BY DEF RotateNames
<1>2. \A n \in 0 .. 3 : n = 0 \/ n = 1 \/ n = 2 \/ n = 3
  OBVIOUS
<1> QED BY <1>1, <1>2

LEMMA Untold ==
  ASSUME NEW e, e.op \notin Told, NEW x, NEW w, NEW g, NEW b
  PROVE  LeftBy(e, x, w, g, b)
BY NamesOfRotations, Zenon DEF LeftBy, Told

LEMMA ToldSum ==
  ASSUME NEW e, e.op \in {"add", "adc", "sub", "sbc", "daa"},
         NEW x, NEW w, NEW g, NEW b,
         e.op \in {"add", "adc"} => Out(x, g) = alu_add(e.a, e.v, CarryIn(e)),
         e.op \in {"sub", "sbc"} => Out(x, g) = sub_flags(e.a, e.v, CarryIn(e)),
         e.op = "daa" => Out(x, g) = alu_daa(e.a, e.f)
  PROVE  LeftBy(e, x, w, g, b)
BY NamesOfRotations, Zenon DEF LeftBy

(* Each step begins an instruction, which leaves what it should; or changes  *)
(* nothing that the trace tells of; or starts the trace anew.              *)
LEMMA StepLeaves ==
  ASSUME TypeOK, TypeOK', [Next]_vars
  PROVE  \/ \E op \in Ops, v \in Word :
              Starting(op, v) /\ LeftBy(Entry(op, v), a', hl', f', bus_data')
         \/ UNCHANGED <<a, hl, f, bus_data, trace>>
         \/ trace' = << >>
         \/ trace' = << Entry("reset", 0) >>
<1> DEFINE Leaves == \E op \in Ops, v \in Word :
                       Starting(op, v) /\ LeftBy(Entry(op, v), a', hl', f', bus_data')
<1>1. /\ \A n \in Byte : n \in Word
      /\ \A n \in 0 .. 7 : n \in Word
      /\ 0 \in Word /\ 1 \in Word
      /\ Operands \subseteq Byte /\ WordOperands \subseteq Word /\ CbFields \subseteq 0 .. 7
      /\ a \in Byte /\ bus_data \in Byte
  <2>1. /\ \A n \in Byte : n \in Word
        /\ \A n \in 0 .. 7 : n \in Word
    BY DEF Byte, Word
  <2>2. 0 \in Word /\ 1 \in Word
    BY DEF Word
  <2> QED BY <2>1, <2>2, OperandsAssumption, FieldsAssumption DEF TypeOK
<1>2. ASSUME NEW op \in Ops \ Told, NEW v \in Word, Starting(op, v)
      PROVE  Leaves
  <2>1. Entry(op, v).op = op
    BY DEF Entry
  <2>2. LeftBy(Entry(op, v), a', hl', f', bus_data')
    BY <2>1, Untold
  <2> QED BY <1>2, <2>2
<1>3. ASSUME NEW op \in Ops, NEW v \in Word
      PROVE  /\ Entry(op, v).op = op /\ Entry(op, v).v = v /\ Entry(op, v).a = a
             /\ Entry(op, v).f = f /\ Entry(op, v).hl = hl
             /\ CarryIn(Entry(op, v)) = IF op \in {"adc", "sbc"} THEN Carry(f) ELSE 0
  BY DEF Entry, CarryIn
<1>4. ASSUME NEW which \in 0 .. 7, NEW v \in Byte, Operate(which, v)
      PROVE  Leaves
  <2> DEFINE op  == AluNames[which + 1]
             out == alu_operation(which, a, f, v)
  <2>1. /\ op \in Ops /\ v \in Word /\ Starting(op, v)
        /\ a' = out.value /\ f' = out.flags
        /\ op = "add" => out = alu_add(a, v, 0)
        /\ op = "adc" => out = alu_add(a, v, Carry(f))
        /\ op = "sub" => out = sub_flags(a, v, 0)
        /\ op = "sbc" => out = sub_flags(a, v, Carry(f))
    BY <1>4, Operations
  <2> HIDE DEF op, out
  <2>2. CASE op \in {"add", "adc", "sub", "sbc"}
    <3>1. \/ op \in {"add", "adc"} /\ out = alu_add(a, v, CarryIn(Entry(op, v)))
          \/ op \in {"sub", "sbc"} /\ out = sub_flags(a, v, CarryIn(Entry(op, v)))
      BY <1>3, <2>1, <2>2
    <3>2. Out(a', f') = out
      BY <2>1, <3>1 DEF alu_add, sub_flags, Out
    <3>3. LET e == Entry(op, v)
          IN /\ e.op = op
             /\ op \in {"add", "adc"} => Out(a', f') = alu_add(e.a, e.v, CarryIn(e))
             /\ op \in {"sub", "sbc"} => Out(a', f') = sub_flags(e.a, e.v, CarryIn(e))
      BY <1>3, <2>1, <3>1, <3>2
    <3>4. LeftBy(Entry(op, v), a', hl', f', bus_data')
      BY <2>2, <3>3, ToldSum
    <3> QED BY <2>1, <3>4
  <2>3. CASE op \notin Told
    BY <1>2, <2>1, <2>3
  <2>4. op \in Told => op \in {"add", "adc", "sub", "sbc"}
    BY <1>4 DEF op, AluNames, Told
  <2> QED BY <2>2, <2>3, <2>4
<1>5. CASE IncA \/ DecA \/ Neg \/ Cpl \/ Scf \/ Ccf \/ Quiet
  <2>1. {"inc", "dec", "neg", "cpl", "scf", "ccf", "quiet"} \subseteq Ops \ Told
    BY DEF Ops, Told
  <2>2. \E op \in {"inc", "dec", "neg", "cpl", "scf", "ccf", "quiet"}, v \in Word :
          Starting(op, v)
    BY <1>1, <1>5 DEF IncA, DecA, Neg, Cpl, Scf, Ccf, Quiet
  <2> QED BY <1>2, <2>1, <2>2
<1>6. CASE Daa
  <2>1. Starting("daa", 0) /\ "daa" \in Ops /\ Out(a', f') = alu_daa(a, f)
    BY <1>6 DEF Daa, ToA, Writes, alu_daa, Out, Ops
  <2>2. LeftBy(Entry("daa", 0), a', hl', f', bus_data')
    <3>1. LET e == Entry("daa", 0)
          IN e.op = "daa" /\ Out(a', f') = alu_daa(e.a, e.f)
      BY <1>1, <1>3, <2>1
    <3> QED BY <3>1, ToldSum
  <2> QED BY <1>1, <2>1, <2>2
<1>7. ASSUME NEW which \in 0 .. 3, RotateA(which)
      PROVE  Leaves
  <2> DEFINE op == RotateNames[which + 1]
  <2>1. /\ Starting(op, 0) /\ Out(a', f') = alu_rotate_a(which, a, f)
    BY <1>7 DEF RotateA, ToA, Writes, alu_rotate_a, Out
  <2>2. op \in {"rlc", "rrc", "rl", "rr"}
    BY NamesOfRotations
  <2>3. op \in Ops
    BY <2>2 DEF Ops
  <2>4. \A n \in 0 .. 3 : op = RotateNames[n + 1] => n = which
    BY NamesOfRotations
  <2> HIDE DEF op
  <2>5. LeftBy(Entry(op, 0), a', hl', f', bus_data')
    BY <1>1, <1>3, <2>1, <2>2, <2>3, <2>4, Zenon DEF LeftBy
  <2> QED BY <1>1, <2>1, <2>3, <2>5
<1>8. ASSUME NEW which \in CbFields, ShiftA(which) \/ TestBit(which)
      PROVE  Leaves
  <2>1. {"cb", "bit"} \subseteq Ops \ Told
    BY DEF Ops, Told
  <2> QED BY <1>1, <1>2, <1>8, <2>1 DEF ShiftA, TestBit
<1>9. ASSUME NEW v \in Operands, \/ \E iff2 \in BOOLEAN : LoadControl(v, iff2)
                                 \/ InC(v)
      PROVE  Leaves
  <2>1. {"ld_a_i", "in"} \subseteq Ops \ Told
    BY DEF Ops, Told
  <2> QED BY <1>1, <1>2, <1>9, <2>1 DEF LoadControl, InC
<1>10. ASSUME NEW bit \in CbFields, NEW v \in Operands, NEW wz_high \in Operands,
              TestBitMemory(bit, v, wz_high)
       PROVE  Leaves
  <2>1. "bit" \in Ops \ Told
    BY DEF Ops, Told
  <2> QED BY <1>1, <1>2, <1>10, <2>1 DEF TestBitMemory
<1>11. ASSUME NEW v \in WordOperands, AddWord(v) \/ AdcWord(v) \/ SbcWord(v)
       PROVE  Leaves
  <2>1. PICK op \in {"add16", "adc16", "sbc16"} :
          /\ Starting(op, v)
          /\ op = "add16" => Out(hl', f') = alu_add16(hl, f, v)
          /\ op = "adc16" => Out(hl', f') = alu_adc16(hl, f, v)
          /\ op = "sbc16" => Out(hl', f') = alu_sbc16(hl, f, v)
    <3>1. CASE AddWord(v)
      BY <3>1 DEF AddWord, ToHl, Writes, alu_add16, Out
    <3>2. CASE AdcWord(v)
      BY <3>2 DEF AdcWord, ToHl, Writes, alu_adc16, Out
    <3>3. CASE SbcWord(v)
      BY <3>3 DEF SbcWord, ToHl, Writes, alu_sbc16, Out
    <3> QED BY <1>11, <3>1, <3>2, <3>3
  <2>2. op \in Ops /\ v \in Word
    BY <1>1, <2>1 DEF Ops
  <2>3. LeftBy(Entry(op, v), a', hl', f', bus_data')
    <3>1. LET e == Entry(op, v)
          IN e.op = op /\ e.v = v /\ e.hl = hl /\ e.f = f
      BY <1>3, <2>2
    <3>2. CASE op = "add16"
      BY <2>1, <3>1, <3>2, NamesOfRotations, Zenon DEF LeftBy
    <3>3. CASE op = "adc16"
      BY <2>1, <3>1, <3>3, NamesOfRotations, Zenon DEF LeftBy
    <3>4. CASE op = "sbc16"
      BY <2>1, <3>1, <3>4, NamesOfRotations, Zenon DEF LeftBy
    <3> QED BY <2>1, <3>2, <3>3, <3>4
  <2> QED BY <2>1, <2>2, <2>3
<1>12. CASE Arithmetic \/ WordArithmetic \/ Quiet
  BY <1>1, <1>4, <1>5, <1>6, <1>7, <1>8, <1>9, <1>10, <1>11, <1>12
     DEF Arithmetic, WordArithmetic
<1>13. CASE OnMemory
  <2> PICK v \in Operands \union {bus_data} :
        \/ ModifyMemory("inc_mem", v, alu_inc(f, v))
        \/ ModifyMemory("dec_mem", v, alu_dec(f, v))
        \/ \E which \in CbFields : ModifyMemory("cb_mem", v, alu_shift(which, f, v))
        \/ \E right \in BOOLEAN : RotateDigits(right, v)
        \/ BlockStep(v)
    BY <1>13 DEF OnMemory
  <2>1. v \in Word /\ v \in Byte
    BY <1>1
  <2>2. CASE \/ ModifyMemory("inc_mem", v, alu_inc(f, v))
             \/ ModifyMemory("dec_mem", v, alu_dec(f, v))
    <3>1. PICK op \in {"inc_mem", "dec_mem"} :
            /\ Starting(op, v) /\ a' = a
            /\ op = "inc_mem" => bus_data' = alu_inc(f, v).value
            /\ op = "dec_mem" => bus_data' = alu_dec(f, v).value
      BY <2>2 DEF ModifyMemory
    <3>2. op \in Ops
      BY <3>1 DEF Ops
    <3>3. LET e == Entry(op, v)
          IN e.op = op /\ e.v = v /\ e.a = a /\ e.f = f /\ e.v \in Byte
      BY <1>3, <2>1, <3>2
    <3>4. LeftBy(Entry(op, v), a', hl', f', bus_data')
      BY <3>1, <3>3, NamesOfRotations, Zenon DEF LeftBy
    <3> QED BY <2>1, <3>1, <3>2, <3>4
  <2>3. CASE \E which \in CbFields : ModifyMemory("cb_mem", v, alu_shift(which, f, v))
    <3>1. Starting("cb_mem", v) /\ "cb_mem" \in Ops \ Told
      BY <2>3 DEF ModifyMemory, Ops, Told
    <3> QED BY <1>2, <2>1, <3>1
  <2>4. ASSUME NEW right \in BOOLEAN, RotateDigits(right, v)
        PROVE  Leaves
    <3> DEFINE op == IF right THEN "rrd" ELSE "rld"
    <3>1. /\ Starting(op, v) /\ a' = DigitRotated(right, a, v)
          /\ bus_data' = DigitStored(right, a, v)
      BY <2>4 DEF RotateDigits
    <3>2. op \in {"rrd", "rld"} /\ \A r \in BOOLEAN : op = (IF r THEN "rrd" ELSE "rld") => r = right
      OBVIOUS
    <3>3. op \in Ops
      BY <3>2 DEF Ops
    <3> HIDE DEF op
    <3>4. LeftBy(Entry(op, v), a', hl', f', bus_data')
      BY <1>3, <2>1, <3>1, <3>2, <3>3, NamesOfRotations, Zenon DEF LeftBy
    <3> QED BY <2>1, <3>1, <3>3, <3>4
  <2>5. CASE BlockStep(v)
    <3>1. Starting("block", v) /\ "block" \in Ops \ Told
      BY <2>5 DEF BlockStep, Block, Ops, Told
    <3> QED BY <1>2, <2>1, <3>1
  <2> QED BY <2>2, <2>3, <2>4, <2>5
<1>14. CASE Finish \/ LoadSnapshot \/ UNCHANGED vars
  BY <1>14 DEF Finish, LoadSnapshot, vars
<1>15. CASE PopRegisters \/ ResetPin
  BY <1>15 DEF PopRegisters, ResetPin
<1> QED BY <1>12, <1>13, <1>14, <1>15 DEF Next

LEMMA ChainedStep ==
  ASSUME TypeOK, TypeOK', [Next]_vars, Chained
  PROVE  Chained'
<1>1. ASSUME NEW op \in Ops, NEW v \in Word, Starting(op, v),
             LeftBy(Entry(op, v), a', hl', f', bus_data')
      PROVE  Chained'
  <2>1. /\ trace' # << >> /\ Len(trace') = Len(trace) + 1
        /\ Last' = Entry(op, v)
        /\ Len(trace) > 0 => Before' = Last
        /\ Len(trace) \in Nat
    BY <1>1, StartTyped DEF Last, Before, TypeOK
  <2>2. LeftBy(Last', a', hl', f', bus_data')
    BY <1>1, <2>1
  <2>3. ASSUME Len(trace') > 1
        PROVE  LeftBy(Before', Last'.a, Last'.hl, Last'.f, Last'.bus_data)
    <3>1. Len(trace) > 0 /\ trace # << >>
      BY <2>1, <2>3 DEF TypeOK
    <3>2. LeftBy(Last, a, hl, f, bus_data)
      BY <3>1 DEF Chained
    <3>3. Last'.a = a /\ Last'.hl = hl /\ Last'.f = f /\ Last'.bus_data = bus_data
      BY <2>1 DEF Entry
    <3> QED BY <2>1, <3>1, <3>2, <3>3
  <2> QED BY <2>2, <2>3 DEF Chained
<1>2. CASE UNCHANGED <<a, hl, f, bus_data, trace>>
  <2>1. Last' = Last /\ Before' = Before
    BY <1>2 DEF Last, Before
  <2> HIDE DEF Last, Before
  <2> QED BY <1>2, <2>1 DEF Chained
<1>3. CASE trace' = << >>
  BY <1>3 DEF Chained
<1>4. CASE trace' = << Entry("reset", 0) >>
  <2>1. Last'.op = "reset" /\ Len(trace') = 1
    BY <1>4 DEF Last, Entry
  <2>2. LeftBy(Last', a', hl', f', bus_data')
    BY <2>1, Untold DEF Told
  <2> QED BY <2>1, <2>2 DEF Chained
<1> QED BY StepLeaves, <1>1, <1>2, <1>3, <1>4

(* What an instruction leaves is what the next one starts from, whatever the *)
(* host does between its flags and its end.                                *)
THEOREM InstructionsChain == Spec => []Chained
<1>1. Init => Chained
  BY DEF Init, Chained
<1>2. TypeOK /\ TypeOK' /\ [Next]_vars /\ Chained => Chained'
  BY ChainedStep
<1> QED BY <1>1, <1>2, TypeCorrect, PTL DEF Spec

LEMMA LastTyped ==
  ASSUME TypeOK, trace # << >>
  PROVE  /\ Last.op \in Ops /\ Last.v \in Word /\ Last.a \in Byte /\ Last.hl \in Word
         /\ Last.f \in SUBSET Flags /\ Last.bus_data \in Byte
<1> DEFINE Entries == [op : Ops, v : Word, a : Byte, hl : Word, f : SUBSET Flags,
                       bus_data : Byte]
<1>1. trace \in Seq(Entries)
  BY DEF TypeOK
<1>2. Last \in Entries
  <2> HIDE DEF Entries
  <2> QED BY <1>1 DEF Last
<1> QED BY <1>2

LEMMA BeforeTyped ==
  ASSUME TypeOK, Len(trace) > 1
  PROVE  /\ Before.op \in Ops /\ Before.v \in Word /\ Before.a \in Byte
         /\ Before.f \in SUBSET Flags /\ Before.bus_data \in Byte
<1> DEFINE Entries == [op : Ops, v : Word, a : Byte, hl : Word, f : SUBSET Flags,
                       bus_data : Byte]
<1>1. trace \in Seq(Entries)
  BY DEF TypeOK
<1>2. Before \in Entries
  <2> HIDE DEF Entries
  <2> QED BY <1>1 DEF Before
<1> QED BY <1>2

(* DAA after an addition or subtraction of two decimal bytes gives their     *)
(* decimal sum or difference, and C its carry or borrow (z80core.c:714).   *)
THEOREM DaaDecimal == Spec => []DecimalCorrect
<1>1. TypeOK /\ Chained => DecimalCorrect
  <2> SUFFICES ASSUME TypeOK, Chained, Len(trace) >= 2, Last.op = "daa",
                      Digits(Before.a), Digits(Before.v)
               PROVE  LET sum == Decimal(Before.a) + Decimal(Before.v) + CarryIn(Before)
                          dif == Decimal(Before.a) - Decimal(Before.v) - CarryIn(Before)
                      IN /\ Before.op \in {"add", "adc"} =>
                              Digits(a) /\ Decimal(a) = sum % 100 /\ ("C" \in f <=> sum > 99)
                         /\ Before.op \in {"sub", "sbc"} =>
                              Digits(a) /\ Decimal(a) = dif % 100 /\ ("C" \in f <=> dif < 0)
    BY Zenon DEF DecimalCorrect
  <2> DEFINE x == Before.a
             y == Before.v
             c == CarryIn(Before)
  <2>1. Len(trace) > 1 /\ trace # << >>
    BY DEF TypeOK
  <2>2. x \in Byte /\ y \in Word /\ c \in {0, 1}
    BY <2>1, BeforeTyped, FlagSets DEF CarryIn
  <2>3. y \in Byte
    <3> HIDE DEF y
    <3>1. y \in Int /\ 0 <= y /\ y % 16 < 10 /\ y \div 16 < 10
      BY <2>2 DEF Digits, Word, y
    <3>2. y < 256
      BY <3>1
    <3> QED BY <3>1, <3>2 DEF Byte
  <2>4. /\ Before.op \in {"add", "adc"} => Out(Last.a, Last.f) = alu_add(x, y, c)
        /\ Before.op \in {"sub", "sbc"} => Out(Last.a, Last.f) = sub_flags(x, y, c)
        /\ Out(a, f) = alu_daa(Last.a, Last.f)
    <3>1. /\ LeftBy(Last, a, hl, f, bus_data)
          /\ LeftBy(Before, Last.a, Last.hl, Last.f, Last.bus_data)
      BY <2>1 DEF Chained
    <3> QED BY <3>1, Zenon DEF LeftBy
  <2> HIDE DEF x, y, c
  <2>5. /\ Out(a, f).value = a /\ Out(a, f).flags = f
        /\ Out(Last.a, Last.f).value = Last.a /\ Out(Last.a, Last.f).flags = Last.f
    BY DEF Out
  <2>6. Digits(x) /\ Digits(y)
    BY DEF x, y
  <2>7. Before.op \in {"add", "adc"} =>
          /\ Digits(a) /\ Decimal(a) = (Decimal(x) + Decimal(y) + c) % 100
          /\ "C" \in f <=> Decimal(x) + Decimal(y) + c > 99
    BY <2>2, <2>3, <2>4, <2>5, <2>6, DaaAfterAdd
  <2>8. Before.op \in {"sub", "sbc"} =>
          /\ Digits(a) /\ Decimal(a) = (Decimal(x) - Decimal(y) - c) % 100
          /\ "C" \in f <=> Decimal(x) - Decimal(y) - c < 0
    BY <2>2, <2>3, <2>4, <2>5, <2>6, DaaAfterSub
  <2> QED BY <2>7, <2>8 DEF x, y, c
<1> QED BY <1>1, TypeCorrect, InstructionsChain, PTL

(* A rotation undoes its opposite, of bits and of digits, and so do INC and  *)
(* DEC in memory (z80core.c:664).                                          *)
THEOREM RotationsUndone == Spec => []RotationsUndo
<1>1. TypeOK /\ Chained => RotationsUndo
  <2> SUFFICES ASSUME TypeOK, Chained, Len(trace) >= 2
               PROVE  RotationsUndo
    BY DEF RotationsUndo
  <2>1. Len(trace) > 1 /\ trace # << >>
    BY DEF TypeOK
  <2>2. /\ LeftBy(Last, a, hl, f, bus_data)
        /\ LeftBy(Before, Last.a, Last.hl, Last.f, Last.bus_data)
        /\ Before.a \in Byte /\ Before.f \in SUBSET Flags
    BY <2>1, BeforeTyped DEF Chained
  <2>3. /\ RotateNames[0 + 1] = "rlc" /\ RotateNames[1 + 1] = "rrc"
        /\ RotateNames[2 + 1] = "rl" /\ RotateNames[3 + 1] = "rr"
    BY DEF RotateNames
  <2>4. ASSUME NEW there \in 0 .. 3, NEW back \in 0 .. 3,
               Before.op = RotateNames[there + 1], Last.op = RotateNames[back + 1]
        PROVE  /\ <<there, back>> \in {<<0, 1>>, <<1, 0>>} => a = Before.a
               /\ <<there, back>> \in {<<2, 3>>, <<3, 2>>} =>
                    a = Before.a /\ \A g \in SZPV \union {"C"} : g \in f <=> g \in Before.f
    <3> DEFINE out == alu_rotate_a(there, Before.a, Before.f)
               end == alu_rotate_a(back, out.value, out.flags)
    <3>1. Out(Last.a, Last.f) = out /\ Out(a, f) = alu_rotate_a(back, Last.a, Last.f)
      BY <2>2, <2>4, Zenon DEF LeftBy
    <3>2. Last.a = out.value /\ Last.f = out.flags
      BY <3>1 DEF Out
    <3>3. Out(a, f) = end
      BY <3>1, <3>2
    <3>4. a = end.value /\ f = end.flags
      <4> HIDE DEF end
      <4> QED BY <3>3 DEF Out
    <3>5. /\ <<there, back>> \in {<<0, 1>>, <<1, 0>>} => end.value = Before.a
          /\ <<there, back>> \in {<<2, 3>>, <<3, 2>>} =>
               /\ end.value = Before.a
               /\ \A h \in SZPV \union {"C"} : h \in end.flags <=> h \in Before.f
      BY <2>2, RotationUndone
    <3> HIDE DEF end
    <3> QED BY <3>4, <3>5
  <2>5. <<Before.op, Last.op>> \in {<<"rlc", "rrc">>, <<"rrc", "rlc">>} => a = Before.a
    <3>1. Before.op = "rlc" /\ Last.op = "rrc" => a = Before.a
      BY <2>3, <2>4
    <3>2. Before.op = "rrc" /\ Last.op = "rlc" => a = Before.a
      BY <2>3, <2>4
    <3> QED BY <3>1, <3>2
  <2>6. <<Before.op, Last.op>> \in {<<"rl", "rr">>, <<"rr", "rl">>} =>
          a = Before.a /\ \A g \in SZPV \union {"C"} : g \in f <=> g \in Before.f
    <3>1. Before.op = "rl" /\ Last.op = "rr" =>
            a = Before.a /\ \A g \in SZPV \union {"C"} : g \in f <=> g \in Before.f
      BY <2>3, <2>4
    <3>2. Before.op = "rr" /\ Last.op = "rl" =>
            a = Before.a /\ \A g \in SZPV \union {"C"} : g \in f <=> g \in Before.f
      BY <2>3, <2>4
    <3> QED BY <3>1, <3>2
  <2>7. ASSUME Last.v = Last.bus_data,
               <<Before.op, Last.op>> \in {<<"rrd", "rld">>, <<"rld", "rrd">>}
        PROVE  a = Before.a /\ bus_data = Before.v
    <3>1. PICK right \in BOOLEAN, back \in BOOLEAN :
            /\ Before.op = (IF right THEN "rrd" ELSE "rld")
            /\ Last.op = (IF back THEN "rrd" ELSE "rld")
            /\ back # right
      BY <2>7
    <3>2. /\ Last.a = DigitRotated(right, Before.a, Before.v)
          /\ Last.v = DigitStored(right, Before.a, Before.v)
          /\ a = DigitRotated(back, Last.a, Last.v)
          /\ bus_data = DigitStored(back, Last.a, Last.v)
          /\ Before.v \in Byte
      BY <2>2, <2>7, <3>1, Zenon DEF LeftBy
    <3> QED BY <2>2, <3>1, <3>2, DigitsUndone
  <2>8. ASSUME Last.v = Last.bus_data,
               <<Before.op, Last.op>> \in {<<"inc_mem", "dec_mem">>, <<"dec_mem", "inc_mem">>}
        PROVE  a = Before.a /\ bus_data = Before.v
    <3>1. CASE Before.op = "inc_mem" /\ Last.op = "dec_mem"
      <4>1. /\ Last.a = Before.a /\ Last.v = alu_inc(Before.f, Before.v).value
            /\ a = Last.a /\ bus_data = alu_dec(Last.f, Last.v).value /\ Before.v \in Byte
        BY <2>2, <2>8, <3>1, Zenon DEF LeftBy
      <4>2. alu_dec(Last.f, alu_inc(Before.f, Before.v).value).value = Before.v
        BY <4>1, StepsUndone, Zenon
      <4> QED BY <4>1, <4>2
    <3>2. CASE Before.op = "dec_mem" /\ Last.op = "inc_mem"
      <4>1. /\ Last.a = Before.a /\ Last.v = alu_dec(Before.f, Before.v).value
            /\ a = Last.a /\ bus_data = alu_inc(Last.f, Last.v).value /\ Before.v \in Byte
        BY <2>2, <2>8, <3>2, Zenon DEF LeftBy
      <4>2. alu_inc(Last.f, alu_dec(Before.f, Before.v).value).value = Before.v
        BY <4>1, StepsUndone, Zenon
      <4> QED BY <4>1, <4>2
    <3> QED BY <2>8, <3>1, <3>2
  <2> QED BY <2>5, <2>6, <2>7, <2>8 DEF RotationsUndo
<1> QED BY <1>1, TypeCorrect, InstructionsChain, PTL

(* A word operation is two byte operations, and shows the flags of the upper *)
(* one, but Z is that of the pair (z80core.c:633).                         *)
THEOREM WordsTwoBytes == Spec => []WordsAreTwoBytes
<1>1. TypeOK /\ Chained => WordsAreTwoBytes
  <2> SUFFICES ASSUME TypeOK, Chained, trace # << >>,
                      Last.op \in {"add16", "adc16", "sbc16"}
               PROVE  WordsAreTwoBytes
    BY DEF WordsAreTwoBytes
  <2> DEFINE e == Last
             sub == e.op = "sbc16"
             c == IF e.op = "add16" THEN 0 ELSE Carry(e.f)
             Half(x, y, k) == IF sub THEN sub_flags(x, y, k) ELSE alu_add(x, y, k)
             low  == Half(e.hl % 256, e.v % 256, c)
             high == Half(e.hl \div 256, e.v \div 256, Carry(low.flags))
  <2>1. e.hl \in Word /\ e.v \in Word /\ e.f \in SUBSET Flags /\ c \in {0, 1}
    BY LastTyped, FlagSets
  <2>2. LeftBy(e, a, hl, f, bus_data)
    BY DEF Chained
  <2>3. sub \in BOOLEAN
    OBVIOUS
  <2> DEFINE out == Out(hl, f)
  <2>4. /\ e.op = "add16" => out = alu_add16(e.hl, e.f, e.v)
        /\ e.op = "adc16" => out = alu_adc16(e.hl, e.f, e.v)
        /\ e.op = "sbc16" => out = alu_sbc16(e.hl, e.f, e.v)
    BY <2>2, Zenon DEF LeftBy
  <2>5. out.value = hl /\ out.flags = f
    BY DEF Out
  <2>6. /\ out = alu_add16(e.hl, e.f, e.v) /\ c = 0 /\ ~sub =>
              /\ out.value = 256 * high.value + low.value
              /\ out.flags = (e.f \intersect SZPV) \union (high.flags \ SZPV)
        /\ \/ out = alu_adc16(e.hl, e.f, e.v) /\ c = Carry(e.f) /\ ~sub
           \/ out = alu_sbc16(e.hl, e.f, e.v) /\ c = Carry(e.f) /\ sub
           => /\ out.value = 256 * high.value + low.value
              /\ out.flags = (high.flags \ {"Z"}) \union FlagIf("Z", out.value = 0)
    <3>1. /\ low = IF sub THEN sub_flags(e.hl % 256, e.v % 256, c)
                    ELSE alu_add(e.hl % 256, e.v % 256, c)
          /\ high = IF sub THEN sub_flags(e.hl \div 256, e.v \div 256, Carry(low.flags))
                     ELSE alu_add(e.hl \div 256, e.v \div 256, Carry(low.flags))
      OBVIOUS
    <3> HIDE DEF e, c, out, sub, low, high
    <3> QED BY <2>1, <2>3, <3>1, WordsOfBytes
  <2> HIDE DEF out, high, low
  <2>7. CASE e.op = "add16"
    <3>1. /\ hl = 256 * high.value + low.value
          /\ f = (e.f \intersect SZPV) \union (high.flags \ SZPV)
      BY <2>4, <2>5, <2>6, <2>7
    <3> QED BY <2>7, <3>1 DEF WordsAreTwoBytes, high, low
  <2>8. CASE e.op # "add16"
    <3>1. /\ hl = 256 * high.value + low.value
          /\ f = (high.flags \ {"Z"}) \union FlagIf("Z", hl = 0)
      BY <2>4, <2>5, <2>6, <2>8
    <3> QED BY <2>8, <3>1 DEF WordsAreTwoBytes, high, low
  <2> QED BY <2>7, <2>8
<1> QED BY <1>1, TypeCorrect, InstructionsChain, PTL
=============================================================================
