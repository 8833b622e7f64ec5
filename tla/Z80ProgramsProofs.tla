------------------------- MODULE Z80ProgramsProofs -------------------------
(***************************************************************************)
(* What holds of the register transfers under every program, every memory  *)
(* and every host: the fields of the core keep their widths, a debugger    *)
(* reads all of the state there is, a DD or FD prefix only substitutes.    *)
(*                                                                         *)
(* The hooks and effects are read as assignments of single fields (Put),   *)
(* one after the other; what is shown of Put is then shown of all of them. *)
(*                                                                         *)
(* The second half reads whole machine cycles like that, for the theorem   *)
(* of module Z80PromiseProofs, which compares them with the manual.        *)
(***************************************************************************)
EXTENDS Z80Programs, Z80TableProofs, TLAPS

Word == Alu!Word

-----------------------------------------------------------------------------
(* One field assigned. *)
Put(c, field, value) == [c EXCEPT ![field] = value]

(* What a hook may do to the cursor: end the instruction here, no more.     *)
Shaped(c)  == c = [field \in CpuFields |-> c[field]]
Cursor     == {"instr", "cycle", "prefix", "index", "opcode"}
Onto(c, d) ==
  /\ Typed(d)
  /\ \A field \in Cursor : d[field] = c[field]
  /\ d.cycle_limit = c.cycle_limit \/ d.cycle_limit = c.cycle + 1

LEMMA OntoItself == ASSUME NEW c, Typed(c) PROVE Onto(c, c)
  BY DEF Onto

LEMMA OntoWord ==
  ASSUME NEW c, NEW d, Onto(c, d), NEW x \in WordFields, NEW v \in Word
  PROVE  Onto(c, Put(d, x, v))
<1>1. Put(d, x, v) = [y \in CpuFields |-> IF y = x THEN v ELSE d[y]]
  BY DEF Put, Onto, Typed, CpuFields
<1> QED BY <1>1 DEF Onto, Typed, Cursor, Word, CpuFields, ByteFields, WordFields, FlagFields,
               BoolFields

LEMMA OntoByte ==
  ASSUME NEW c, NEW d, Onto(c, d), NEW x \in ByteFields \ {"opcode"}, NEW v \in Byte
  PROVE  Onto(c, Put(d, x, v))
<1>1. Put(d, x, v) = [y \in CpuFields |-> IF y = x THEN v ELSE d[y]]
  BY DEF Put, Onto, Typed, CpuFields
<1> QED BY <1>1 DEF Onto, Typed, Cursor, CpuFields, ByteFields, WordFields, FlagFields,
               BoolFields

LEMMA OntoFlags ==
  ASSUME NEW c, NEW d, Onto(c, d), NEW x \in FlagFields, NEW v \in SUBSET Alu!Flags
  PROVE  Onto(c, Put(d, x, v))
<1>1. Put(d, x, v) = [y \in CpuFields |-> IF y = x THEN v ELSE d[y]]
  BY DEF Put, Onto, Typed, CpuFields
<1> QED BY <1>1 DEF Onto, Typed, Cursor, CpuFields, ByteFields, WordFields, FlagFields,
               BoolFields

LEMMA OntoBool ==
  ASSUME NEW c, NEW d, Onto(c, d), NEW x \in BoolFields, NEW v \in BOOLEAN
  PROVE  Onto(c, Put(d, x, v))
<1>1. Put(d, x, v) = [y \in CpuFields |-> IF y = x THEN v ELSE d[y]]
  BY DEF Put, Onto, Typed, CpuFields
<1> QED BY <1>1 DEF Onto, Typed, Cursor, CpuFields, ByteFields, WordFields, FlagFields,
               BoolFields

LEMMA OntoEnd ==
  ASSUME NEW c, NEW d, Onto(c, d)
  PROVE  Onto(c, Put(d, "cycle_limit", d.cycle + 1))
<1>1. Put(d, "cycle_limit", d.cycle + 1)
        = [y \in CpuFields |-> IF y = "cycle_limit" THEN d.cycle + 1 ELSE d[y]]
  BY DEF Put, Onto, Typed, CpuFields
<1> QED BY <1>1 DEF Onto, Typed, Cursor, CpuFields, ByteFields, WordFields, FlagFields,
               BoolFields

(* What a field assigned reads. *)
LEMMA GetPut ==
  ASSUME NEW c, Shaped(c), NEW x \in CpuFields, NEW v
  PROVE  /\ Shaped(Put(c, x, v)) /\ Put(c, x, v)[x] = v
         /\ \A y \in CpuFields : y # x => Put(c, x, v)[y] = c[y]
<1>1. Put(c, x, v) = [y \in CpuFields |-> IF y = x THEN v ELSE c[y]]
  BY DEF Put, Shaped
<1> QED BY <1>1 DEF Shaped

(* The fields of a typed core. *)
LEMMA Fields ==
  ASSUME NEW c, Typed(c)
  PROVE  /\ Shaped(c)
         /\ \A x \in WordFields : c[x] \in Word /\ x \in CpuFields
         /\ \A x \in ByteFields : c[x] \in Byte /\ x \in CpuFields
         /\ \A x \in FlagFields : c[x] \in SUBSET Alu!Flags /\ x \in CpuFields
         /\ \A x \in BoolFields : c[x] \in BOOLEAN /\ x \in CpuFields
  BY DEF Typed, Shaped, CpuFields, Word
-----------------------------------------------------------------------------
(* The widths of what the hooks put together. *)
LEMMA Widths ==
  ASSUME NEW w \in Word, NEW b \in Byte
  PROVE  /\ High(w) \in Byte /\ Low(w) \in Byte
         /\ WithHigh(w, b) \in Word /\ WithLow(w, b) \in Word
         /\ Plus(w, 1) \in Word /\ Plus(w, -1) \in Word /\ Plus(w, -2) \in Word
         /\ Plus(w, Signed(b)) \in Word
         /\ 256 * b + ((Low(w) + 1) % 256) \in Word
         /\ (b - 1) % 256 \in Byte
         /\ 128 * (b \div 128) + ((b + 1) % 128) \in Byte
<1>1. w \in Nat /\ w < 65536
  BY DEF Word, Alu!Word
<1>2. w \div 256 \in 0 .. 255 /\ w % 256 \in 0 .. 255
  BY <1>1
<1>3. \A n \in Int : n % 65536 \in Word
  BY DEF Word, Alu!Word
<1>4. \A h, l \in 0 .. 255 : 256 * h + l \in Word
  BY DEF Word, Alu!Word
<1>5. High(w) \in Byte /\ Low(w) \in Byte
  BY <1>2 DEF High, Low, Byte
<1>6. WithHigh(w, b) \in Word /\ WithLow(w, b) \in Word
  BY <1>2, <1>4 DEF WithHigh, WithLow, Byte
<1>7. Signed(b) \in Int
  BY DEF Signed, Byte
<1>8. /\ Plus(w, 1) \in Word /\ Plus(w, -1) \in Word /\ Plus(w, -2) \in Word
      /\ Plus(w, Signed(b)) \in Word
  BY <1>1, <1>3, <1>7 DEF Plus
<1>9. 256 * b + ((Low(w) + 1) % 256) \in Word
  <2>1. (Low(w) + 1) % 256 \in 0 .. 255
    BY <1>2 DEF Low
  <2> QED BY <1>4, <2>1 DEF Byte
<1>10. (b - 1) % 256 \in Byte /\ 128 * (b \div 128) + ((b + 1) % 128) \in Byte
  BY DEF Byte
<1> QED BY <1>5, <1>6, <1>8, <1>9, <1>10

LEMMA SmallWords == 0 \in Word /\ 56 \in Word /\ 102 \in Word /\ \A y \in 0 .. 7 : 8 * y \in Word
  BY DEF Word, Alu!Word

LEMMA BytesOfAWord == \A b \in Byte, d \in Byte : 256 * b + d \in Word
  BY DEF Byte, Word, Alu!Word

(* What the ALU leaves has its width.  Here the ALU is the instance of the  *)
(* core; the accumulator's proofs are about the module itself.             *)
ByteOut(out) == out.value \in Byte /\ out.flags \in SUBSET Alu!Flags
WordOut(out) == out.value \in Word /\ out.flags \in SUBSET Alu!Flags

LEMMA TwoDigits ==
  ASSUME NEW x \in Byte
  PROVE  /\ x \div 16 \in 0 .. 15 /\ x % 16 \in 0 .. 15
         /\ x = 16 * (x \div 16) + (x % 16)
BY DEF Byte

LEMMA FlagSets ==
  ASSUME NEW x, NEW g \in SUBSET Alu!Flags
  PROVE  /\ Alu!CopyXY(x) \subseteq Alu!Flags /\ Alu!flags_sz_xy(x) \subseteq Alu!Flags
         /\ Alu!ParityFlag(x) \subseteq Alu!Flags /\ Alu!BlockXY(x) \subseteq Alu!Flags
         /\ Alu!WordFlags(x) \subseteq Alu!Flags
         /\ \A n : Alu!CarryOut(n, x) \subseteq Alu!Flags
         /\ Alu!Carry(g) \in {0, 1}
BY DEF Alu!CopyXY, Alu!flags_sz_xy, Alu!ParityFlag, Alu!BlockXY, Alu!WordFlags, Alu!CarryOut,
   Alu!Carry, Alu!FlagIf, Alu!Flags

LEMMA AddSubTyped ==
  ASSUME NEW x \in Byte, NEW y \in Byte, NEW c \in {0, 1}
  PROVE  ByteOut(Alu!alu_add(x, y, c)) /\ ByteOut(Alu!sub_flags(x, y, c))
<1>1. /\ ((x + y + c) % 65536) % 256 \in Byte
      /\ ((x - y - c) % 65536) % 256 \in Byte
  BY DEF Byte
<1>2. \A r : Alu!flags_sz_xy(r) \subseteq Alu!Flags
  BY FlagSets, {} \in SUBSET Alu!Flags
<1> QED BY <1>1, <1>2 DEF ByteOut, Alu!alu_add, Alu!sub_flags, Alu!Out, Alu!FlagIf, Alu!Flags

LEMMA BitsTyped ==
  ASSUME NEW S
  PROVE  Alu!FromBits(S) \in Byte
BY DEF Alu!FromBits, Byte

LEMMA LogicTyped ==
  ASSUME NEW r \in Byte, NEW h \in SUBSET Alu!Flags
  PROVE  ByteOut(Alu!alu_logic(r, h))
BY FlagSets DEF ByteOut, Alu!alu_logic, Alu!Out

LEMMA OperationTyped ==
  ASSUME NEW which \in 0 .. 7, NEW x \in Byte, NEW y \in Byte, NEW g \in SUBSET Alu!Flags
  PROVE  ByteOut(Alu!alu_operation(which, x, g, y))
<1>1. Alu!Carry(g) \in {0, 1} /\ 0 \in {0, 1}
  BY FlagSets
<1>2. /\ ByteOut(Alu!alu_add(x, y, 0)) /\ ByteOut(Alu!alu_add(x, y, Alu!Carry(g)))
      /\ ByteOut(Alu!sub_flags(x, y, 0)) /\ ByteOut(Alu!sub_flags(x, y, Alu!Carry(g)))
  BY <1>1, AddSubTyped
<1>3. ByteOut(Alu!alu_cp(x, y))
  <2>1. Alu!CopyXY(y) \subseteq Alu!Flags
    BY FlagSets
  <2> QED BY <1>2, <2>1 DEF ByteOut, Alu!alu_cp, Alu!Out
<1>4. /\ ByteOut(Alu!alu_logic(Alu!AndByte(x, y), {"H"}))
      /\ ByteOut(Alu!alu_logic(Alu!XorByte(x, y), {}))
      /\ ByteOut(Alu!alu_logic(Alu!OrByte(x, y), {}))
  <2>1. /\ Alu!AndByte(x, y) \in Byte /\ Alu!XorByte(x, y) \in Byte /\ Alu!OrByte(x, y) \in Byte
        /\ {"H"} \in SUBSET Alu!Flags /\ {} \in SUBSET Alu!Flags
    BY BitsTyped DEF Alu!AndByte, Alu!XorByte, Alu!OrByte, Alu!Flags
  <2> QED BY <2>1, LogicTyped
<1> HIDE DEF ByteOut
<1> QED BY <1>2, <1>3, <1>4 DEF Alu!alu_operation

LEMMA RotatedTyped ==
  ASSUME NEW which \in 0 .. 7, NEW x \in Byte, NEW c \in {0, 1}
  PROVE  Alu!Rotated(which, x, c) \in Byte
<1>1. /\ (2 * x) % 256 \in 0 .. 254 /\ x \div 2 \in 0 .. 127
      /\ Alu!TopBit(x) \in {0, 1} /\ Alu!LowBit(x) \in {0, 1}
  BY DEF Byte, Alu!TopBit, Alu!LowBit
<1>2. \A b \in {0, 1} : Alu!Left(x, b) \in Byte /\ Alu!Right(x, b) \in Byte
  BY <1>1 DEF Alu!Left, Alu!Right, Byte
<1> QED BY <1>1, <1>2 DEF Alu!Rotated

LEMMA ByteOperationsTyped ==
  ASSUME NEW x \in Byte, NEW g \in SUBSET Alu!Flags, NEW which \in 0 .. 7, NEW b
  PROVE  /\ ByteOut(Alu!alu_inc(g, x)) /\ ByteOut(Alu!alu_dec(g, x))
         /\ ByteOut(Alu!execute_neg(x)) /\ ByteOut(Alu!execute_cpl(x, g))
         /\ ByteOut(Alu!alu_daa(x, g)) /\ ByteOut(Alu!alu_bit(b, g, x, x))
         /\ ByteOut(Alu!alu_shift(which, g, x)) /\ ByteOut(Alu!alu_rotate_a(which, x, g))
<1>1. /\ \A r : /\ Alu!flags_sz_xy(r) \subseteq Alu!Flags /\ Alu!CopyXY(r) \subseteq Alu!Flags
               /\ Alu!ParityFlag(r) \subseteq Alu!Flags
                  /\ Alu!CarryOut(which, r) \subseteq Alu!Flags
      /\ Alu!Carry(g) \in {0, 1}
  BY FlagSets
<1>2. (x + 1) % 256 \in Byte /\ (x - 1) % 256 \in Byte /\ 255 - x \in Byte
  BY DEF Byte
<1>3. ByteOut(Alu!alu_inc(g, x)) /\ ByteOut(Alu!alu_dec(g, x))
  BY <1>1, <1>2 DEF ByteOut, Alu!alu_inc, Alu!alu_dec, Alu!Out, Alu!FlagIf, Alu!Flags
<1>4. ByteOut(Alu!execute_neg(x))
  <2>1. 0 \in Byte /\ 0 \in {0, 1}
    BY DEF Byte
  <2> QED BY <2>1, AddSubTyped DEF Alu!execute_neg
<1>5. ByteOut(Alu!execute_cpl(x, g))
  BY <1>1, <1>2 DEF ByteOut, Alu!execute_cpl, Alu!Out, Alu!Flags
<1>6. ByteOut(Alu!alu_daa(x, g))
  <2>1. Alu!daa_adjust(x, g) \in 0 .. 102
    BY DEF Alu!daa_adjust
  <2>2. \A d \in 0 .. 102 : (x - d) % 256 \in Byte /\ (x + d) % 256 \in Byte
    BY SMTT(30) DEF Byte
  <2>3. (x - Alu!daa_adjust(x, g)) % 256 \in Byte /\ (x + Alu!daa_adjust(x, g)) % 256 \in Byte
    BY <2>1, <2>2
  <2> HIDE DEF Alu!daa_adjust
  <2> QED BY <1>1, <2>3 DEF ByteOut, Alu!alu_daa, Alu!Out, Alu!FlagIf, Alu!Flags
<1>7. ByteOut(Alu!alu_bit(b, g, x, x))
  BY <1>1 DEF ByteOut, Alu!alu_bit, Alu!Out, Alu!FlagIf, Alu!Flags
<1>8. ByteOut(Alu!alu_shift(which, g, x)) /\ ByteOut(Alu!alu_rotate_a(which, x, g))
  BY <1>1, RotatedTyped DEF ByteOut, Alu!alu_shift, Alu!alu_rotate_a, Alu!Out
<1> QED BY <1>3, <1>4, <1>5, <1>6, <1>7, <1>8

LEMMA WordOperationsTyped ==
  ASSUME NEW x \in Word, NEW y \in Word, NEW g \in SUBSET Alu!Flags
  PROVE  WordOut(Alu!alu_add16(x, g, y)) /\ WordOut(Alu!alu_adc16(x, g, y))
         /\ WordOut(Alu!alu_sbc16(x, g, y))
<1>1. /\ \A r : Alu!WordFlags(r) \subseteq Alu!Flags /\ Alu!CopyXY(r) \subseteq Alu!Flags
      /\ Alu!Carry(g) \in {0, 1}
  BY FlagSets
<1>2. \A n \in Int : n % 65536 \in Word
  BY DEF Word, Alu!Word, Alu!Word
<1>3. ASSUME NEW n \in Int PROVE n % 131072 \in Int
  OBVIOUS
<1>4. /\ x + y \in Int /\ x + y + Alu!Carry(g) \in Int /\ x - y - Alu!Carry(g) \in Int
  BY <1>1 DEF Word, Alu!Word
<1>5. /\ (x + y) % 65536 \in Word /\ (x + y + Alu!Carry(g)) % 65536 \in Word
      /\ ((x - y - Alu!Carry(g)) % 131072) % 65536 \in Word
  <2>1. (x - y - Alu!Carry(g)) % 131072 \in Int
    BY <1>3, <1>4
  <2>2. /\ (x + y) % 65536 \in Word /\ (x + y + Alu!Carry(g)) % 65536 \in Word
    BY <1>2, <1>4
  <2>3. ((x - y - Alu!Carry(g)) % 131072) % 65536 \in Word
    BY <1>2, <2>1
  <2> QED BY <2>2, <2>3
<1>6. WordOut(Alu!alu_add16(x, g, y))
  <2>1. Alu!alu_add16(x, g, y).value \in Word
    BY <1>5 DEF Alu!alu_add16, Alu!Out
  <2>2. Alu!alu_add16(x, g, y).flags \subseteq Alu!Flags
    <3>1. g \intersect Alu!SZPV \subseteq Alu!Flags
      OBVIOUS
    <3>2. \A P : Alu!FlagIf("H", P) \subseteq Alu!Flags /\ Alu!FlagIf("C", P) \subseteq Alu!Flags
      BY DEF Alu!FlagIf, Alu!Flags
    <3> HIDE DEF Alu!FlagIf
    <3> QED BY <1>1, <3>1, <3>2 DEF Alu!alu_add16, Alu!Out
  <2> QED BY <2>1, <2>2 DEF WordOut
<1>7. WordOut(Alu!alu_adc16(x, g, y))
  BY <1>1, <1>5 DEF WordOut, Alu!alu_adc16, Alu!Out, Alu!FlagIf, Alu!Flags
<1>8. WordOut(Alu!alu_sbc16(x, g, y))
  BY <1>1, <1>5 DEF WordOut, Alu!alu_sbc16, Alu!Out, Alu!FlagIf, Alu!Flags
<1> QED BY <1>6, <1>7, <1>8

LEMMA DigitsTyped ==
  ASSUME NEW x \in Byte, NEW y \in Byte, NEW right \in BOOLEAN
  PROVE  Alu!DigitRotated(right, x, y) \in Byte /\ Alu!DigitStored(right, x, y) \in Byte
<1>1. /\ x \div 16 \in 0 .. 15 /\ x % 16 \in 0 .. 15 /\ x - (x % 16) \in 0 .. 240
      /\ y \div 16 \in 0 .. 15 /\ y % 16 \in 0 .. 15
  BY TwoDigits DEF Byte
<1>2. (16 * y) % 256 \in 0 .. 240
  <2>1. (16 * y) % 256 = 16 * (y % 16)
    BY TwoDigits DEF Byte
  <2> QED BY <1>1, <2>1
<1> QED BY <1>1, <1>2 DEF Alu!DigitRotated, Alu!DigitStored, Byte

(* The flags alone, and the masks. *)
LEMMA FlagsTyped ==
  ASSUME NEW x \in Byte, NEW y, NEW z, NEW f \in SUBSET Alu!Flags, NEW q \in SUBSET Alu!Flags,
         NEW more \in BOOLEAN
  PROVE  /\ Alu!digit_rotate_flags(f, y) \in SUBSET Alu!Flags
         /\ Alu!block_transfer_flags(x, f, y, more) \in SUBSET Alu!Flags
         /\ Alu!block_compare_flags(x, f, y, more) \in SUBSET Alu!Flags
         /\ Alu!block_io_flags(x, y, z) \in SUBSET Alu!Flags
         /\ Alu!block_repeat_undocumented(f, y) \in SUBSET Alu!Flags
         /\ Alu!load_a_flags(f, y, more) \in SUBSET Alu!Flags
         /\ Alu!execute_scf(x, f, q) \in SUBSET Alu!Flags
         /\ Alu!execute_ccf(x, f, q) \in SUBSET Alu!Flags
         /\ Alu!alu_bit(z, f, x, y).flags \in SUBSET Alu!Flags
         /\ FlagsOf(z) \in SUBSET Alu!Flags
<1>1. \A r : /\ Alu!flags_sz_xy(r) \subseteq Alu!Flags /\ Alu!CopyXY(r) \subseteq Alu!Flags
             /\ Alu!ParityFlag(r) \subseteq Alu!Flags /\ Alu!BlockXY(r) \subseteq Alu!Flags
  BY FlagSets
<1>2. \A name \in Alu!Flags : \A P : Alu!FlagIf(name, P) \subseteq Alu!Flags
  BY DEF Alu!FlagIf
<1>3. /\ {"C"} \subseteq Alu!Flags /\ {"N"} \subseteq Alu!Flags /\ {"H"} \subseteq Alu!Flags
      /\ {"H", "C"} \subseteq Alu!Flags /\ {} \subseteq Alu!Flags /\ {"Z", "PV"} \subseteq Alu!Flags
      /\ "S" \in Alu!Flags /\ "Z" \in Alu!Flags /\ "H" \in Alu!Flags /\ "N" \in Alu!Flags
      /\ "PV" \in Alu!Flags
  BY DEF Alu!Flags
<1>4. Alu!ResidueXY(x, f, q) \subseteq Alu!Flags
  BY <1>1 DEF Alu!ResidueXY
<1> HIDE DEF Alu!Flags, Alu!ResidueXY
<1>5. /\ Alu!digit_rotate_flags(f, y) \in SUBSET Alu!Flags
      /\ Alu!load_a_flags(f, y, more) \in SUBSET Alu!Flags
      /\ Alu!block_repeat_undocumented(f, y) \in SUBSET Alu!Flags
      /\ Alu!block_transfer_flags(x, f, y, more) \in SUBSET Alu!Flags
  BY <1>1, <1>2, <1>3 DEF Alu!digit_rotate_flags, Alu!load_a_flags,
        Alu!block_repeat_undocumented, Alu!block_transfer_flags
<1>6. Alu!block_compare_flags(x, f, y, more) \in SUBSET Alu!Flags
  BY <1>1, <1>2, <1>3 DEF Alu!block_compare_flags
<1>7. Alu!block_io_flags(x, y, z) \in SUBSET Alu!Flags
  BY <1>1, <1>2, <1>3 DEF Alu!block_io_flags
<1>8. /\ Alu!execute_scf(x, f, q) \in SUBSET Alu!Flags
      /\ Alu!execute_ccf(x, f, q) \in SUBSET Alu!Flags
  BY <1>3, <1>4 DEF Alu!execute_scf, Alu!execute_ccf
<1>9. Alu!alu_bit(z, f, x, y).flags \in SUBSET Alu!Flags
  BY <1>1, <1>2, <1>3 DEF Alu!alu_bit, Alu!Out
<1> QED BY <1>5, <1>6, <1>7, <1>8, <1>9 DEF FlagsOf

LEMMA MasksTyped ==
  ASSUME NEW x \in Byte, NEW y \in 0 .. 7
  PROVE  /\ Alu!Has(x, Alu!BitMask(y)) => x - Alu!BitMask(y) \in Byte
         /\ \A S : Alu!OrByte(S, Alu!BitMask(y)) \in Byte
<1>1. Alu!BitMask(y) \in {1, 2, 4, 8, 16, 32, 64, 128}
  BY DEF Alu!BitMask
<1>2. ASSUME NEW m \in {1, 2, 4, 8, 16, 32, 64, 128}, Alu!Has(x, m)
      PROVE  x - m \in Byte
  BY <1>2 DEF Alu!Has, Byte
<1> QED BY <1>1, <1>2, BitsTyped DEF Alu!OrByte
-----------------------------------------------------------------------------
(* A core that came from a typed one stays typed, whatever field is         *)
(* assigned; and so with the assignments the hooks have in common.         *)
LEMMA OntoPut ==
  ASSUME NEW c
  PROVE  /\ \A d, x, v : Onto(c, d) /\ x \in WordFields /\ v \in Word => Onto(c, Put(d, x, v))
         /\ \A d, x, v : Onto(c, d) /\ x \in ByteFields \ {"opcode"} /\ v \in Byte
                  => Onto(c, Put(d, x, v))
         /\ \A d, x, v : Onto(c, d) /\ x \in FlagFields /\ v \in SUBSET Alu!Flags
                           => Onto(c, Put(d, x, v))
         /\ \A d, x, v : Onto(c, d) /\ x \in BoolFields /\ v \in BOOLEAN => Onto(c, Put(d, x, v))
BY OntoWord, OntoByte, OntoFlags, OntoBool

LEMMA FieldNames ==
  /\ \A x \in {"bc", "de", "hl", "ix", "iy", "sp", "pc", "wz", "tmp", "bus_addr"} : x \in WordFields
  /\ \A x \in {"a", "i", "r", "bus_data"} : x \in ByteFields \ {"opcode"}
  /\ \A x \in {"f", "pending"} : x \in FlagFields
  /\ \A x \in {"iff1", "iff2", "halted", "nmi_latched", "int_inhibit"} : x \in BoolFields
BY DEF WordFields, ByteFields, FlagFields, BoolFields

(* The three fields of the opcode a typed core holds, and the registers     *)
(* they name.                                                              *)
LEMMA Names ==
  ASSUME NEW c, Typed(c)
  PROVE  /\ X(c.opcode) \in 0 .. 3 /\ Y(c.opcode) \in 0 .. 7 /\ Z(c.opcode) \in 0 .. 7
         /\ index_pair(c) \in {"hl", "ix", "iy"} /\ "hl" \in {"hl", "ix", "iy"}
         /\ PairField(c) \in 0 .. 3
         /\ pair_rp(c) \in {"bc", "de", "hl", "ix", "iy", "sp"}
         /\ pair_rp2(c) \in {"bc", "de", "hl", "ix", "iy", "sp", "af"}
<1>1. c.opcode \in Byte
  BY Fields DEF ByteFields
<1>2. X(c.opcode) \in 0 .. 3 /\ Y(c.opcode) \in 0 .. 7 /\ Z(c.opcode) \in 0 .. 7
  BY <1>1, FieldsType
<1>3. index_pair(c) \in {"hl", "ix", "iy"}
  BY DEF index_pair
<1>4. PairField(c) \in 0 .. 3
  BY <1>1 DEF PairField, Byte
<1>5. pair_rp(c) \in {"bc", "de", "hl", "ix", "iy", "sp"}
  BY <1>3, <1>4 DEF pair_rp
<1>6. pair_rp2(c) \in {"bc", "de", "hl", "ix", "iy", "sp", "af"}
  BY <1>5 DEF pair_rp2
<1> QED BY <1>2, <1>3, <1>4, <1>5, <1>6

LEMMA HalfTyped ==
  ASSUME NEW c, Typed(c), NEW which \in 0 .. 7, NEW pair \in {"hl", "ix", "iy"}
  PROVE  HalfOf(c, which, pair) \in Byte
<1>1. c.bc \in Word /\ c.de \in Word /\ c[pair] \in Word /\ c.a \in Byte
  BY Fields, FieldNames
<1>2. \A w \in Word : High(w) \in Byte /\ Low(w) \in Byte
  BY Widths, 0 \in Byte DEF Byte
<1>3. 0 \in Byte
  BY DEF Byte
<1> QED BY <1>1, <1>2, <1>3 DEF HalfOf

LEMMA PairTyped ==
  ASSUME NEW c, Typed(c), NEW pair \in {"bc", "de", "hl", "ix", "iy", "sp", "af"}
  PROVE  PairOf(c, pair) \in Word
<1>1. pair # "af" => c[pair] \in Word
  BY Fields, FieldNames
<1>2. c.a \in Byte /\ FlagsByte(c.f) \in Byte
  BY Fields, FieldNames, BitsTyped DEF FlagsByte
<1> QED BY <1>1, <1>2, BytesOfAWord DEF PairOf

(* Half a pair written, as one field assigned. *)
LEMMA HalfForms ==
  ASSUME NEW d, NEW which \in 0 .. 7, NEW pair, NEW b
  PROVE  WithHalf(d, which, pair, b) =
           CASE which = 0 -> Put(d, "bc", WithHigh(d.bc, b))
             [] which = 1 -> Put(d, "bc", WithLow(d.bc, b))
             [] which = 2 -> Put(d, "de", WithHigh(d.de, b))
             [] which = 3 -> Put(d, "de", WithLow(d.de, b))
             [] which = 4 -> Put(d, pair, WithHigh(d[pair], b))
             [] which = 5 -> Put(d, pair, WithLow(d[pair], b))
             [] which = 7 -> Put(d, "a", b)
             [] which = 6 -> d
BY DEF WithHalf, Put

(* Writing half a pair, a pair, the flags, PC and WZ. *)
LEMMA OntoHalf ==
  ASSUME NEW c, NEW d, Onto(c, d), NEW which \in 0 .. 7, NEW pair \in {"hl", "ix", "iy"},
         NEW b \in Byte
  PROVE  Onto(c, WithHalf(d, which, pair, b))
<1>1. Typed(d)
  BY DEF Onto
<1>2. \A w \in Word : WithHigh(w, b) \in Word /\ WithLow(w, b) \in Word
  BY Widths
<1>3. d.bc \in Word /\ d.de \in Word /\ d[pair] \in Word
  BY <1>1, Fields, FieldNames
<1>4. /\ \A v \in Word : /\ Onto(c, Put(d, "bc", v)) /\ Onto(c, Put(d, "de", v))
                         /\ Onto(c, Put(d, pair, v))
      /\ Onto(c, Put(d, "a", b))
  BY OntoPut, FieldNames
<1> QED BY <1>2, <1>3, <1>4, HalfForms

LEMMA OntoSlot ==
  ASSUME NEW c, NEW d, Onto(c, d), NEW which \in 0 .. 7, NEW b \in Byte
  PROVE  Onto(c, WithSlot(d, which, b))
<1>1. index_pair(d) \in {"hl", "ix", "iy"}
  BY DEF index_pair
<1> QED BY <1>1, OntoHalf DEF WithSlot

LEMMA OntoPair ==
  ASSUME NEW c, NEW d, Onto(c, d), NEW pair \in {"bc", "de", "hl", "ix", "iy", "sp", "af"},
         NEW w \in Word
  PROVE  Onto(c, WithPair(d, pair, w))
<1>1. High(w) \in Byte /\ FlagsOf(Low(w)) \in SUBSET Alu!Flags
  BY Widths, 0 \in Byte DEF Byte, FlagsOf
<1>2. CASE pair = "af"
  <2>1. WithPair(d, pair, w) = Put(Put(d, "a", High(w)), "f", FlagsOf(Low(w)))
    BY <1>2 DEF WithPair, Put
  <2> QED BY <1>1, <2>1, OntoPut, FieldNames
<1>3. CASE pair # "af"
  BY <1>3, OntoPut, FieldNames DEF WithPair, Put
<1> QED BY <1>2, <1>3

LEMMA OntoCommon ==
  ASSUME NEW c
  PROVE  /\ \A d, f : Onto(c, d) /\ f \in SUBSET Alu!Flags => Onto(c, WriteFlags(d, f))
         /\ \A d, w : Onto(c, d) /\ w \in Word => Onto(c, GoTo(d, w)) /\ Onto(c, At(d, w))
         /\ \A d, w, b : Onto(c, d) /\ w \in Word /\ b \in Byte => Onto(c, write_at(d, w, b))
         /\ \A d, b : Onto(c, d) /\ b \in Byte => Onto(c, push_at(d, b))
         /\ \A d : Onto(c, d) => Onto(c, end_instruction_here(d))
         /\ \A d, P : Onto(c, d) => Onto(c, EndUnless(P, d))
<1>1. ASSUME NEW d, Onto(c, d)
      PROVE  /\ \A f \in SUBSET Alu!Flags : Onto(c, WriteFlags(d, f))
             /\ \A w \in Word : Onto(c, GoTo(d, w)) /\ Onto(c, At(d, w))
             /\ \A w \in Word, b \in Byte : Onto(c, write_at(d, w, b))
  <2>1. \A f : WriteFlags(d, f) = Put(Put(d, "f", f), "pending", f)
    BY DEF WriteFlags, Put
  <2>2. \A w : GoTo(d, w) = Put(Put(d, "pc", w), "wz", w) /\ At(d, w) = Put(d, "bus_addr", w)
    BY DEF GoTo, At, Put
  <2>3. \A w, b : write_at(d, w, b) = Put(Put(d, "bus_addr", w), "bus_data", b)
    BY DEF write_at, Put
  <2> QED BY <1>1, <2>1, <2>2, <2>3, OntoPut, FieldNames
<1>2. ASSUME NEW d, Onto(c, d), NEW b \in Byte
      PROVE  Onto(c, push_at(d, b))
  <2>1. Typed(d) /\ d.sp \in Word
    BY <1>2, Fields, FieldNames DEF Onto
  <2>2. Plus(d.sp, -1) \in Word
    BY <2>1, <1>2, Widths
  <2>3. Onto(c, write_at(d, Plus(d.sp, -1), b))
    BY <1>1, <1>2, <2>2
  <2>4. write_at(d, Plus(d.sp, -1), b).sp = d.sp
    BY <2>1, Fields DEF write_at, Shaped, CpuFields
  <2>5. push_at(d, b) = Put(write_at(d, Plus(d.sp, -1), b), "sp", Plus(d.sp, -1))
    BY <2>4 DEF push_at, Put
  <2> QED BY <2>2, <2>3, <2>5, OntoPut, FieldNames
<1>3. ASSUME NEW d, Onto(c, d)
      PROVE  Onto(c, end_instruction_here(d)) /\ \A P : Onto(c, EndUnless(P, d))
  BY <1>3, OntoEnd DEF end_instruction_here, EndUnless, Put
<1> QED BY <1>1, <1>2, <1>3
-----------------------------------------------------------------------------
(* Every enter hook leaves a typed core typed, and its cursor where it is.  *)
EnterHooks == {"none"} \union ReadHooks \union PushHooks \union WriteHooks \union IoHooks
                \union JumpHooks
ExitHooks  == {"none"} \union CollectHooks \union BranchHooks \union VectorHooks
                \union ByteHooks \union BlockHooks

(* The words and bytes a hook can put on the bus. *)
LEMMA Operands ==
  ASSUME NEW c, Typed(c)
  PROVE  /\ \A x \in {"bc", "de", "hl", "ix", "iy", "sp", "pc", "wz", "tmp", "bus_addr"} :
              /\ c[x] \in Word /\ High(c[x]) \in Byte /\ Low(c[x]) \in Byte
              /\ Plus(c[x], 1) \in Word /\ Plus(c[x], -1) \in Word /\ Plus(c[x], -2) \in Word
              /\ Plus(c[x], Signed(c.bus_data)) \in Word
              /\ WithLow(c[x], c.bus_data) \in Word
              /\ \A b \in Byte : WithHigh(c[x], b) \in Word
         /\ c.a \in Byte /\ c.i \in Byte /\ c.r \in Byte /\ c.bus_data \in Byte
         /\ (High(c.bc) - 1) % 256 \in Byte
         /\ 8 * Y(c.opcode) \in Word
<1>1. c.a \in Byte /\ c.i \in Byte /\ c.r \in Byte /\ c.bus_data \in Byte
  BY Fields, FieldNames
<1>2. ASSUME NEW x \in {"bc", "de", "hl", "ix", "iy", "sp", "pc", "wz", "tmp", "bus_addr"}
      PROVE  /\ c[x] \in Word /\ High(c[x]) \in Byte /\ Low(c[x]) \in Byte
             /\ Plus(c[x], 1) \in Word /\ Plus(c[x], -1) \in Word /\ Plus(c[x], -2) \in Word
             /\ Plus(c[x], Signed(c.bus_data)) \in Word
             /\ WithLow(c[x], c.bus_data) \in Word
             /\ \A b \in Byte : WithHigh(c[x], b) \in Word
  <2>1. c[x] \in Word
    BY <1>2, Fields, FieldNames
  <2> QED BY <1>1, <2>1, Widths
<1>3. (High(c.bc) - 1) % 256 \in Byte
  <2>1. High(c.bc) \in 0 .. 255
    BY <1>2 DEF Byte
  <2> QED BY <2>1 DEF Byte
<1>4. 8 * Y(c.opcode) \in Word
  BY Names, SmallWords
<1> QED BY <1>1, <1>2, <1>3, <1>4

LEMMA ReadTyped ==
  ASSUME NEW c, Typed(c), NEW h \in ReadHooks
  PROVE  Onto(c, ReadHook(h, c))
<1>1. Onto(c, c)
  BY OntoItself
<1> USE Operands, OntoCommon, OntoPut, FieldNames
<1>2. CASE h = "at_pc"
  <2>1. At(c, c.pc).pc = c.pc
    BY Fields DEF At, Shaped, CpuFields
  <2>2. ReadHook(h, c) = Put(At(c, c.pc), "pc", Plus(c.pc, 1))
    BY <1>2, <2>1 DEF ReadHook, Put
  <2> QED BY <1>1, <2>2
<1>3. CASE h = "at_pop"
  <2>1. At(c, c.sp).sp = c.sp
    BY Fields DEF At, Shaped, CpuFields
  <2>2. ReadHook(h, c) = Put(At(c, c.sp), "sp", Plus(c.sp, 1))
    BY <1>3, <2>1 DEF ReadHook, Put
  <2> QED BY <1>1, <2>2
<1>4. CASE h = "at_interrupt_table"
  <2>1. ReadHook(h, c) = Put(At(c, WithHigh(c.tmp, c.i)), "tmp", WithHigh(c.tmp, c.i))
    BY <1>4 DEF ReadHook, Put
  <2> QED BY <1>1, <2>1
<1>5. CASE h \in {"at_hl", "at_bc", "at_de", "at_wz", "at_tmp", "at_tmp_high", "at_sp",
                  "at_sp_high"}
  <2>1. ReadHook(h, c) \in {At(c, c.hl), At(c, c.bc), At(c, c.de), At(c, c.wz), At(c, c.tmp),
                            At(c, Plus(c.tmp, 1)), At(c, c.sp), At(c, Plus(c.sp, 1))}
    BY <1>5 DEF ReadHook
  <2> QED BY <1>1, <2>1
<1> QED BY <1>2, <1>3, <1>4, <1>5 DEF ReadHooks

LEMMA PushTyped ==
  ASSUME NEW c, Typed(c), NEW h \in PushHooks
  PROVE  Onto(c, PushHook(h, c))
<1>1. Onto(c, c)
  BY OntoItself
<1>2. /\ High(PairOf(c, pair_rp2(c))) \in Byte /\ Low(PairOf(c, pair_rp2(c))) \in Byte
      /\ High(c.pc) \in Byte /\ Low(c.pc) \in Byte
  BY PairTyped, Names, Operands, Widths
<1>3. CASE h = "rst_target"
  <2>1. Onto(c, Put(c, "wz", 8 * Y(c.opcode)))
    BY <1>1, Operands, OntoPut, FieldNames
  <2>2. PushHook(h, c) = push_at(Put(c, "wz", 8 * Y(c.opcode)), High(c.pc))
    BY <1>3 DEF PushHook, Put
  <2> QED BY <1>2, <2>1, <2>2, OntoCommon
<1>4. CASE h # "rst_target"
  <2>1. PushHook(h, c) \in {push_at(c, High(c.pc)), push_at(c, Low(c.pc)),
          push_at(c, High(PairOf(c, pair_rp2(c)))), push_at(c, Low(PairOf(c, pair_rp2(c))))}
    BY <1>4 DEF PushHook, PushHooks
  <2> QED BY <1>1, <1>2, <2>1, OntoCommon
<1> QED BY <1>3, <1>4

LEMMA WriteTyped ==
  ASSUME NEW c, Typed(c), NEW h \in WriteHooks
  PROVE  Onto(c, WriteHook(h, c))
<1>1. Onto(c, c)
  BY OntoItself
<1>2. /\ \A x \in {index_pair(c), pair_rp(c)} : High(c[x]) \in Byte /\ Low(c[x]) \in Byte
      /\ Slot(c, Z(c.opcode)) \in Byte /\ HalfOf(c, Z(c.opcode), "hl") \in Byte
  BY Operands, Names, HalfTyped DEF Slot
<1>3. \E w \in Word, b \in Byte : WriteHook(h, c) = write_at(c, w, b)
  <2>1. CASE h \in {"reg_to_hl", "plain_reg_at_wz"}
    BY <1>2, <2>1, Operands DEF WriteHook
  <2>2. CASE h \in {"a_at_bc", "a_at_de", "a_at_tmp"}
    BY <2>2, Operands DEF WriteHook
  <2>3. CASE h \in {"l_at_tmp", "h_at_tmp", "h_at_sp", "l_at_sp"}
    BY <1>2, <2>3, Operands DEF WriteHook
  <2>4. CASE h \in {"rp_low", "rp_high"}
    BY <1>2, <2>4, Operands DEF WriteHook
  <2> QED BY <2>1, <2>2, <2>3, <2>4 DEF WriteHooks
<1> QED BY <1>1, <1>3, OntoCommon

LEMMA IoTyped ==
  ASSUME NEW c, Typed(c), NEW h \in IoHooks
  PROVE  Onto(c, IoHook(h, c))
<1>1. Onto(c, c)
  BY OntoItself
<1>2. Slot(c, Y(c.opcode)) \in Byte
  BY Names, HalfTyped DEF Slot
<1>3. CASE h = "block_out"
  <2>1. PICK port \in Word : IoHook(h, c) = Put(At(c, port), "bc", port)
    BY <1>3, Operands DEF IoHook, Put
  <2> QED BY <1>1, <2>1, OntoCommon, OntoPut, FieldNames
<1>4. CASE h # "block_out"
  <2>1. IoHook(h, c) \in {At(c, WithHigh(c.tmp, c.a)), write_at(c, WithHigh(c.tmp, c.a), c.a),
                          At(c, c.bc), write_at(c, c.bc, Slot(c, Y(c.opcode)))}
    BY <1>4 DEF IoHook, IoHooks
  <2> QED BY <1>1, <1>2, <2>1, Operands, OntoCommon
<1> QED BY <1>3, <1>4

LEMMA JumpTyped ==
  ASSUME NEW c, Typed(c), NEW h \in JumpHooks
  PROVE  Onto(c, JumpHook(h, c))
<1>1. Onto(c, c)
  BY OntoItself
<1>2. PICK v \in Word, w \in Word : JumpHook(h, c) = Put(Put(c, "pc", v), "wz", w)
  BY Operands DEF JumpHook, JumpHooks, Put
<1> QED BY <1>1, <1>2, OntoPut, FieldNames

LEMMA EnterTyped ==
  ASSUME NEW c, Typed(c), NEW h \in EnterHooks
  PROVE  Onto(c, Enter(h, c))
<1>1. CASE h = "none"
  BY <1>1, OntoItself DEF Enter, ReadHooks, PushHooks, WriteHooks, IoHooks, JumpHooks
<1>2. CASE h \in ReadHooks
  BY <1>2, ReadTyped DEF Enter, ReadHooks, PushHooks, WriteHooks, IoHooks, JumpHooks
<1>3. CASE h \in PushHooks
  BY <1>3, PushTyped DEF Enter, ReadHooks, PushHooks, WriteHooks, IoHooks, JumpHooks
<1>4. CASE h \in WriteHooks
  BY <1>4, WriteTyped DEF Enter, ReadHooks, PushHooks, WriteHooks, IoHooks, JumpHooks
<1>5. CASE h \in IoHooks
  BY <1>5, IoTyped DEF Enter, ReadHooks, PushHooks, WriteHooks, IoHooks, JumpHooks
<1>6. CASE h \in JumpHooks
  BY <1>6, JumpTyped DEF Enter, ReadHooks, PushHooks, WriteHooks, IoHooks, JumpHooks
<1> QED BY <1>1, <1>2, <1>3, <1>4, <1>5, <1>6 DEF EnterHooks

(* And every exit hook, which may also end the instruction.  Only DD CB and *)
(* FD CB read their operation where others have their operand.             *)
LEMMA CollectTyped ==
  ASSUME NEW c, Typed(c), NEW h \in CollectHooks \ {"latch_operation"}
  PROVE  Onto(c, CollectHook(h, c))
<1>1. Onto(c, c)
  BY OntoItself
<1>2. CASE h \in {"to_tmp_low", "to_tmp_high", "to_wz_low", "to_wz_high", "to_displacement"}
  <2>1. PICK x \in {"tmp", "wz"}, w \in Word : CollectHook(h, c) = Put(c, x, w)
    BY <1>2, Operands, Names DEF CollectHook, Put
  <2> QED BY <1>1, <2>1, OntoPut, FieldNames
<1>3. CASE h \in {"to_l", "to_rp_low"}
  <2>1. PICK x \in {"bc", "de", "hl", "ix", "iy", "sp"}, w \in Word :
          CollectHook(h, c) = Put(c, x, w)
    BY <1>3, Operands, Names DEF CollectHook, Put
  <2> QED BY <1>1, <2>1, OntoPut, FieldNames
<1> QED BY <1>2, <1>3 DEF CollectHooks

LEMMA BranchTyped ==
  ASSUME NEW c, Typed(c), NEW h \in BranchHooks
  PROVE  Onto(c, BranchHook(h, c))
<1>1. Onto(c, c)
  BY OntoItself
<1>2. Onto(c, Put(c, "bc", WithHigh(c.bc, (High(c.bc) - 1) % 256)))
      /\ Onto(c, Put(c, "wz", WithHigh(c.wz, c.bus_data)))
  BY <1>1, Operands, OntoPut, FieldNames
<1>3. \E P : BranchHook(h, c) \in
        {EndUnless(P, c), EndUnless(P, Put(c, "wz", WithHigh(c.wz, c.bus_data))),
         EndUnless(P, Put(c, "bc", WithHigh(c.bc, (High(c.bc) - 1) % 256)))}
  BY DEF BranchHook, BranchHooks, Put
<1> QED BY <1>1, <1>2, <1>3, OntoCommon

LEMMA VectorTyped ==
  ASSUME NEW c, Typed(c), NEW h \in VectorHooks
  PROVE  Onto(c, VectorHook(h, c))
<1>1. Onto(c, c)
  BY OntoItself
<1>2. /\ WithHigh(c.wz, c.bus_data) \in Word /\ c.wz \in Word
      /\ 8 * Y(Low(c.tmp)) \in Word /\ 102 \in Word /\ 56 \in Word
  BY Operands, SmallWords, FieldsType
<1>3. CASE h = "return_from_interrupt"
  <2>1. c.iff2 \in BOOLEAN
    BY Fields, FieldNames
  <2>2. VectorHook(h, c) = Put(GoTo(c, WithHigh(c.wz, c.bus_data)), "iff1", c.iff2)
    BY <1>3 DEF VectorHook, Put
  <2> QED BY <1>1, <1>2, <2>1, <2>2, OntoCommon, OntoPut, FieldNames
<1>4. CASE h = "take_wz"
  <2>1. VectorHook(h, c) = Put(c, "pc", c.wz)
    BY <1>4 DEF VectorHook, Put
  <2> QED BY <1>1, <1>2, <2>1, OntoPut, FieldNames
<1>5. CASE h \in {"return_to_wz_high", "nmi_vector", "interrupt_vector"}
  <2>1. \E w \in Word : VectorHook(h, c) = GoTo(c, w)
    BY <1>2, <1>5 DEF VectorHook
  <2> QED BY <1>1, <2>1, OntoCommon
<1> QED BY <1>3, <1>4, <1>5 DEF VectorHooks

LEMMA OperationOnByte ==
  ASSUME NEW c, NEW d, Onto(c, d), NEW out, ByteOut(out), NEW x \in {"a", "bus_data"}
  PROVE  /\ Onto(c, WriteFlags(d, out.flags))
         /\ Onto(c, Put(WriteFlags(d, out.flags), x, out.value))
BY OntoCommon, OntoPut, FieldNames DEF ByteOut

(* The CB groups. *)
LEMMA CbTyped ==
  ASSUME NEW c, NEW d, Onto(c, d), NEW b \in Byte, NEW u
  PROVE  /\ X(d.opcode) # 1 => ByteOut(CbResult(d, b)) /\ Onto(c, CbFlags(d, b))
         /\ Onto(c, CbBit(d, b, u))
<1>1. /\ Typed(d) /\ d.f \in SUBSET Alu!Flags
      /\ X(d.opcode) \in 0 .. 3 /\ Y(d.opcode) \in 0 .. 7
  BY Names, Fields, FieldNames DEF Onto
<1>2. /\ Alu!Has(b, Mask(d)) => b - Mask(d) \in Byte
      /\ Alu!OrByte(b, Mask(d)) \in Byte
  BY <1>1, MasksTyped DEF Mask
<1>3. ByteOut(Alu!alu_shift(Y(d.opcode), d.f, b))
  BY <1>1, ByteOperationsTyped
<1>4. ASSUME X(d.opcode) # 1
      PROVE  ByteOut(CbResult(d, b))
  <2>1. CASE X(d.opcode) = 0
    BY <1>3, <2>1 DEF CbResult
  <2>2. CASE X(d.opcode) = 2
    BY <1>1, <1>2, <2>2 DEF CbResult, ByteOut, Alu!Out
  <2>3. CASE X(d.opcode) = 3
    BY <1>1, <1>2, <2>3 DEF CbResult, ByteOut, Alu!Out
  <2> QED BY <1>1, <1>4, <2>1, <2>2, <2>3
<1>5. ASSUME X(d.opcode) # 1
      PROVE  Onto(c, CbFlags(d, b))
  <2>1. CbResult(d, b).flags \in SUBSET Alu!Flags
    BY <1>4, <1>5 DEF ByteOut
  <2> QED BY <2>1, OntoCommon DEF CbFlags
<1>6. Onto(c, CbBit(d, b, u))
  <2>1. Alu!alu_bit(Mask(d), d.f, b, u).flags \in SUBSET Alu!Flags
    BY <1>1, FlagsTyped, TRUE \in BOOLEAN
  <2> QED BY <2>1, OntoCommon DEF CbBit
<1> QED BY <1>4, <1>5, <1>6

LEMMA DigitTyped ==
  ASSUME NEW c, Typed(c), NEW right \in BOOLEAN
  PROVE  Onto(c, DigitHook(right, c))
<1>1. PICK a \in Byte : a = Alu!DigitRotated(right, c.a, c.bus_data)
  BY Operands, DigitsTyped
<1>2. PICK b \in Byte : b = Alu!DigitStored(right, c.a, c.bus_data)
  BY Operands, DigitsTyped
<1>3. PICK f \in SUBSET Alu!Flags : f = Alu!digit_rotate_flags(c.f, a)
  BY FlagsTyped, Fields, FieldNames, TRUE \in BOOLEAN
<1>4. PICK w \in Word : w = Plus(c.hl, 1)
  BY Operands
<1>5. DigitHook(right, c) = Put(Put(Put(WriteFlags(c, f), "a", a), "bus_data", b), "wz", w)
  BY <1>1, <1>2, <1>3, <1>4 DEF DigitHook, Put
<1> QED BY <1>5, OntoItself, OntoCommon, OntoPut, FieldNames

LEMMA IndexCbTyped ==
  ASSUME NEW c, Typed(c)
  PROVE  Onto(c, IndexCbHook(c))
<1>1. Onto(c, c) /\ c.bus_data \in Byte /\ X(c.opcode) \in 0 .. 3 /\ Z(c.opcode) \in 0 .. 7
  BY OntoItself, Operands, Names
<1>2. CASE X(c.opcode) = 1
  <2>1. Onto(c, CbBit(c, c.bus_data, High(c.wz)))
    BY <1>1, CbTyped
  <2> QED BY <1>2, <2>1, OntoCommon DEF IndexCbHook
<1>3. CASE X(c.opcode) # 1
  <2>1. PICK b \in Byte : b = CbResult(c, c.bus_data).value
    BY <1>1, <1>3, CbTyped DEF ByteOut
  <2>2. Onto(c, CbFlags(c, c.bus_data))
    BY <1>1, <1>3, CbTyped
  <2>3. Onto(c, Put(CbFlags(c, c.bus_data), "bus_data", b))
    BY <2>2, OntoPut, FieldNames
  <2>4. IndexCbHook(c) = WithHalf(Put(CbFlags(c, c.bus_data), "bus_data", b), Z(c.opcode), "hl", b)
    BY <1>3, <2>1 DEF IndexCbHook, Put
  <2> QED BY <1>1, <2>3, <2>4, OntoHalf
<1> QED BY <1>2, <1>3

LEMMA ByteTyped ==
  ASSUME NEW c, Typed(c), NEW h \in ByteHooks, h = "cb_bus" => X(c.opcode) # 1
  PROVE  Onto(c, ByteHook(h, c))
<1>1. Onto(c, c) /\ c.bus_data \in Byte /\ c.f \in SUBSET Alu!Flags
  BY OntoItself, Operands, Fields, FieldNames
<1>2. CASE h \in {"inc_bus", "dec_bus"}
  <2>1. PICK out : ByteOut(out) /\ ByteHook(h, c) = Modified(c, out)
    <3>1. 0 \in 0 .. 7
      OBVIOUS
    <3> QED BY <1>1, <1>2, <3>1, ByteOperationsTyped DEF ByteHook
  <2>2. Modified(c, out) = Put(WriteFlags(c, out.flags), "bus_data", out.value)
    BY DEF Modified, Put
  <2> QED BY <1>1, <2>1, <2>2, OperationOnByte
<1>3. CASE h = "cb_bus"
  <2>1. /\ CbResult(c, c.bus_data).value \in Byte /\ Onto(c, CbFlags(c, c.bus_data))
    BY <1>1, <1>3, CbTyped DEF ByteOut
  <2>2. ByteHook(h, c) = Put(CbFlags(c, c.bus_data), "bus_data", CbResult(c, c.bus_data).value)
    BY <1>3 DEF ByteHook, Put
  <2> QED BY <2>1, <2>2, OntoPut, FieldNames
<1>4. CASE h \in {"rrd", "rld", "index_cb_apply"}
  BY <1>4, DigitTyped, IndexCbTyped DEF ByteHook
<1> QED BY <1>2, <1>3, <1>4 DEF ByteHooks

LEMMA OnceMoreTyped ==
  ASSUME NEW c, NEW d, Onto(c, d), NEW more
  PROVE  Onto(c, OnceMore(d, more))
<1>1. Typed(d) /\ d.f \in SUBSET Alu!Flags /\ d.a \in Byte
  BY Fields, FieldNames DEF Onto
<1>2. Alu!block_repeat_undocumented(d.f, High(Plus(d.pc, -2))) \in SUBSET Alu!Flags
  BY <1>1, FlagsTyped, TRUE \in BOOLEAN
<1> QED BY <1>2, OntoCommon DEF OnceMore

(* Counting a pass: the three words a block instruction moves. *)
LEMMA CountedTyped ==
  ASSUME NEW c, Typed(c), NEW delta \in {1, -1}
  PROVE  /\ \A x \in {"hl", "de", "bc", "wz"} : Plus(c[x], delta) \in Word
         /\ Plus(c.bc, -1) \in Word
         /\ WithHigh(c.bc, (High(c.bc) - 1) % 256) \in Word
BY Operands

LEMMA BlockTyped ==
  ASSUME NEW c, Typed(c), NEW h \in BlockHooks
  PROVE  Onto(c, BlockHook(h, c))
<1>1. /\ Onto(c, c) /\ c.bus_data \in Byte /\ c.a \in Byte /\ c.f \in SUBSET Alu!Flags
      /\ (High(c.bc) - 1) % 256 \in Byte /\ High(c.bc) \in Byte
  BY OntoItself, Operands, Fields, FieldNames
<1>2. PICK delta \in {1, -1} : delta = block_delta(c)
  BY DEF block_delta
<1>3. PICK count \in Word : count = Plus(c.bc, -1)
  BY CountedTyped
<1>4. (count # 0) \in BOOLEAN
  OBVIOUS
<1>5. CASE h = "block_transfer"
  <2>1. PICK moved : /\ moved = Put(Put(Put(c, "hl", Plus(c.hl, delta)), "de", Plus(c.de, delta)),
                                      "bc", count)
                     /\ moved
                          = [c EXCEPT !.hl = Plus(@, delta), !.de = Plus(@, delta), !.bc = count]
    BY Fields DEF Put, Shaped, CpuFields
  <2>2. Onto(c, moved)
    BY <1>1, <2>1, CountedTyped, OntoPut, FieldNames
  <2>3. PICK f \in SUBSET Alu!Flags :
          f = Alu!block_transfer_flags(c.a, c.f, c.bus_data, count # 0)
    BY <1>1, <1>4, FlagsTyped
  <2>4. BlockHook(h, c) = OnceMore(WriteFlags(moved, f), count # 0)
    BY <1>2, <1>3, <1>5, <2>1, <2>3 DEF BlockHook, TransferHook
  <2> QED BY <2>2, <2>4, OntoCommon, OnceMoreTyped
<1>6. CASE h = "block_compare"
  <2>1. PICK moved : /\ moved = Put(Put(Put(c, "hl", Plus(c.hl, delta)), "wz", Plus(c.wz, delta)),
                                      "bc", count)
                     /\ moved
                          = [c EXCEPT !.hl = Plus(@, delta), !.wz = Plus(@, delta), !.bc = count]
    BY Fields DEF Put, Shaped, CpuFields
  <2>2. Onto(c, moved)
    BY <1>1, <2>1, CountedTyped, OntoPut, FieldNames
  <2>3. PICK f \in SUBSET Alu!Flags :
          f = Alu!block_compare_flags(c.a, c.f, c.bus_data, count # 0)
    BY <1>1, <1>4, FlagsTyped
  <2>4. BlockHook(h, c) = OnceMore(WriteFlags(moved, f), count # 0 /\ "Z" \notin f)
    BY <1>2, <1>3, <1>6, <2>1, <2>3 DEF BlockHook, CompareHook
  <2> QED BY <2>2, <2>4, OntoCommon, OnceMoreTyped
<1>7. CASE h = "block_in"
  <2>1. PICK b \in Byte : b = (High(c.bc) - 1) % 256
    BY <1>1
  <2>2. PICK moved : /\ moved = Put(Put(Put(c, "wz", Plus(c.bc, delta)), "bc", WithHigh(c.bc, b)),
                                      "hl", Plus(c.hl, delta))
                     /\ moved = [c EXCEPT !.wz = Plus(c.bc, delta), !.bc = WithHigh(@, b),
                                           !.hl = Plus(@, delta)]
    BY Fields DEF Put, Shaped, CpuFields
  <2>3. Onto(c, moved)
    BY <1>1, <2>1, <2>2, CountedTyped, OntoPut, FieldNames
  <2>4. PICK f \in SUBSET Alu!Flags :
          f = Alu!block_io_flags(b, c.bus_data, (Low(c.bc) + delta) % 256)
    <3>1. \A k : Alu!block_io_flags(b, c.bus_data, k) \in SUBSET Alu!Flags
      BY <1>1, FlagsTyped, TRUE \in BOOLEAN
    <3> QED BY <3>1
  <2>5. BlockHook(h, c) = OnceMore(WriteFlags(moved, f), b # 0)
    BY <1>2, <1>7, <2>1, <2>2, <2>4 DEF BlockHook, BlockInHook
  <2> QED BY <2>3, <2>5, OntoCommon, OnceMoreTyped
<1>8. CASE h = "block_exit_out"
  <2>1. PICK moved : /\ moved = Put(Put(c, "hl", Plus(c.hl, delta)), "wz", Plus(c.bc, delta))
                     /\ moved = [c EXCEPT !.hl = Plus(@, delta), !.wz = Plus(c.bc, delta)]
    BY Fields DEF Put, Shaped, CpuFields
  <2>2. Onto(c, moved)
    BY <1>1, <2>1, CountedTyped, OntoPut, FieldNames
  <2>3. PICK f \in SUBSET Alu!Flags :
          f = Alu!block_io_flags(High(c.bc), c.bus_data, Low(moved.hl))
    BY <1>1, FlagsTyped, TRUE \in BOOLEAN
  <2>4. BlockHook(h, c) = OnceMore(WriteFlags(moved, f), High(c.bc) # 0)
    BY <1>2, <1>8, <2>1, <2>3 DEF BlockHook, BlockOutHook
  <2> QED BY <2>2, <2>4, OntoCommon, OnceMoreTyped
<1> QED BY <1>5, <1>6, <1>7, <1>8 DEF BlockHooks

LEMMA ExitTyped ==
  ASSUME NEW c, Typed(c), NEW h \in ExitHooks \ {"latch_operation"},
         h = "cb_bus" => X(c.opcode) # 1
  PROVE  Onto(c, Exit(h, c))
<1> USE DEF Exit, CollectHooks, BranchHooks, VectorHooks, ByteHooks, BlockHooks
<1>1. CASE h = "none"
  BY <1>1, OntoItself
<1>2. CASE h \in CollectHooks
  BY <1>2, CollectTyped
<1>3. CASE h \in BranchHooks
  BY <1>3, BranchTyped
<1>4. CASE h \in VectorHooks
  BY <1>4, VectorTyped
<1>5. CASE h \in ByteHooks
  BY <1>5, ByteTyped
<1>6. CASE h \in BlockHooks
  BY <1>6, BlockTyped
<1> QED BY <1>1, <1>2, <1>3, <1>4, <1>5, <1>6 DEF ExitHooks
-----------------------------------------------------------------------------
(* The instructions of the first table that have no (HL), EX DE,HL and EXX  *)
(* apart: what DD and FD leave as it is.                                   *)
Substituted ==
  {"nop", "halt", "ld_reg_reg", "alu_reg", "inc_reg", "dec_reg", "rotate_a", "daa", "cpl",
   "scf", "ccf", "ex_af", "jp_hl", "di", "ei", "ld_reg_immediate", "ld_a_bc", "ld_a_de",
   "ld_bc_a", "ld_de_a", "ld_a_nn", "ld_nn_a", "ld_rp_nn", "ld_nn_hl", "ld_hl_nn",
   "ld_sp_hl", "push", "pop", "ex_sp_hl", "alu_n", "inc_rp", "dec_rp", "add_hl_rp"}
   \union ControlInstrs

(* Their hooks know no HL but the one a prefix can replace. *)
SwapEnter ==
  {"none", "at_pc", "at_pop", "at_bc", "at_de", "at_tmp", "at_tmp_high", "at_sp",
   "at_sp_high", "push_pc_high", "push_pc_low", "push_pair_high", "push_pair_low",
   "rst_target", "a_at_bc", "a_at_de", "a_at_tmp", "l_at_tmp", "h_at_tmp", "h_at_sp",
   "l_at_sp", "io_address", "io_write", "jump_relative"}
SwapExit ==
  {"none", "to_tmp_low", "to_tmp_high", "to_wz_low", "to_wz_high", "to_l",
   "jr_condition", "djnz_condition", "call_condition", "return_condition",
   "return_to_wz_high", "take_wz"}

(* The hooks of instruction n. *)
HooksFor(n) ==
  {pair \in EnterHooks \X ExitHooks :
     /\ pair[2] = "cb_bus" => n = "cb_mem"
     /\ pair[2] = "latch_operation" => n = "index_cb"
     /\ n \in Substituted => pair[1] \in SwapEnter /\ pair[2] \in SwapExit}

LEMMA HookNames ==
  /\ ReadHooks \union PushHooks \union WriteHooks \union IoHooks \union JumpHooks
       \union {"none"} \subseteq EnterHooks
  /\ CollectHooks \union BranchHooks \union VectorHooks \union ByteHooks \union BlockHooks
       \union {"none"} \subseteq ExitHooks
BY DEF EnterHooks, ExitHooks

(* The pairs that several instructions share. *)
LEMMA SharedPairs ==
  ASSUME NEW n
  PROVE  /\ Idle \in HooksFor(n)
         /\ \A x \in {"to_tmp_low", "to_tmp_high", "to_wz_low", "to_wz_high",
                      "jr_condition", "djnz_condition", "call_condition", "return_to_wz_high"} :
              AtPcTo(x) \in HooksFor(n) /\ AtPopTo(x) \in HooksFor(n)
         /\ \A x \in SwapEnter : On(x) \in HooksFor(n)
         /\ n \notin Substituted => \A x \in EnterHooks : On(x) \in HooksFor(n)
         /\ Operand \in Seq(HooksFor(n)) /\ Called \in Seq(HooksFor(n))
<1> USE DEF HooksFor, Idle, AtPcTo, AtPopTo, On
<1>1. SwapEnter \subseteq EnterHooks
  BY DEF SwapEnter, EnterHooks, ReadHooks, PushHooks, WriteHooks, IoHooks, JumpHooks
<1>2. SwapExit \subseteq ExitHooks
  BY DEF SwapExit, ExitHooks, CollectHooks, BranchHooks, VectorHooks
<1>3. "none" \in SwapEnter /\ "none" \in SwapExit /\ "at_pc" \in SwapEnter /\ "at_pop" \in SwapEnter
  BY DEF SwapEnter, SwapExit
<1>4. \A x \in {"to_tmp_low", "to_tmp_high", "to_wz_low", "to_wz_high", "take_wz",
                "jr_condition", "djnz_condition", "call_condition", "return_to_wz_high"} :
        x \in SwapExit
  BY DEF SwapExit
<1>5. /\ Idle \in HooksFor(n)
      /\ \A x \in {"to_tmp_low", "to_tmp_high", "to_wz_low", "to_wz_high",
                   "jr_condition", "djnz_condition", "call_condition", "return_to_wz_high"} :
           AtPcTo(x) \in HooksFor(n) /\ AtPopTo(x) \in HooksFor(n)
  BY <1>1, <1>2, <1>3, <1>4
<1>6. \A x \in SwapEnter : On(x) \in HooksFor(n)
  BY <1>1, <1>2, <1>3
<1>7. n \notin Substituted => \A x \in EnterHooks : On(x) \in HooksFor(n)
  BY <1>2, <1>3
<1>8. "push_pc_high" \in SwapEnter /\ "push_pc_low" \in SwapEnter
  BY DEF SwapEnter
<1>9. <<"push_pc_low", "take_wz">> \in HooksFor(n)
  BY <1>1, <1>2, <1>4, <1>8
<1>10. Operand \in Seq(HooksFor(n)) /\ Called \in Seq(HooksFor(n))
  BY <1>5, <1>6, <1>8, <1>9 DEF Operand, Called
<1> QED BY <1>5, <1>6, <1>7, <1>10

(* Each group's hooks. *)
LEMMA IndexedHooksType == \A n \in IndexedInstrs : IndexedHooks(n) \in Seq(HooksFor(n))
<1> SUFFICES ASSUME NEW n \in IndexedInstrs PROVE IndexedHooks(n) \in Seq(HooksFor(n))
  OBVIOUS
<1>1. n \notin Substituted
  BY DEF Substituted, IndexedInstrs, ControlInstrs
<1>2. /\ Idle \in HooksFor(n) /\ On("at_wz") \in HooksFor(n) /\ On("at_pc") \in HooksFor(n)
      /\ On("plain_reg_at_wz") \in HooksFor(n)
  BY <1>1, SharedPairs DEF EnterHooks, ReadHooks, WriteHooks
<1>3. /\ AtPcTo("to_displacement") \in HooksFor(n) /\ <<"at_wz", "inc_bus">> \in HooksFor(n)
      /\ <<"at_wz", "dec_bus">> \in HooksFor(n) /\ <<"none", "index_cb_apply">> \in HooksFor(n)
  BY <1>1 DEF HooksFor, AtPcTo, EnterHooks, ExitHooks, ReadHooks, CollectHooks, ByteHooks
<1>4. n = "index_cb" => AtPcTo("latch_operation") \in HooksFor(n)
  BY <1>1 DEF HooksFor, AtPcTo, EnterHooks, ExitHooks, ReadHooks, CollectHooks
<1> HIDE DEF HooksFor
<1> QED BY <1>2, <1>3, <1>4 DEF IndexedHooks, IndexedInstrs

LEMMA EdHooksType == \A n \in EdInstrs : EdHooks(n) \in Seq(HooksFor(n))
<1> SUFFICES ASSUME NEW n \in EdInstrs PROVE EdHooks(n) \in Seq(HooksFor(n))
  OBVIOUS
<1>1. n \notin Substituted
  BY DEF Substituted, EdInstrs, ControlInstrs
<1>2. \A h \in {"io_at_bc", "out_c", "rp_low", "rp_high", "at_tmp_high", "at_hl"} :
        On(h) \in HooksFor(n)
  BY <1>1, SharedPairs DEF EnterHooks, ReadHooks, WriteHooks, IoHooks
<1>3. /\ AtPopTo("return_from_interrupt") \in HooksFor(n)
      /\ <<"at_tmp", "to_rp_low">> \in HooksFor(n)
      /\ <<"at_hl", "rrd">> \in HooksFor(n) /\ <<"at_hl", "rld">> \in HooksFor(n)
  BY <1>1 DEF HooksFor, AtPopTo, EnterHooks, ExitHooks, ReadHooks, CollectHooks, VectorHooks,
              ByteHooks
<1>4. AtPopTo("to_wz_low") \in HooksFor(n) /\ Idle \in HooksFor(n) /\ Operand \in Seq(HooksFor(n))
  BY SharedPairs
<1>5. /\ <<On("rp_low"), On("rp_high")>> \in Seq(HooksFor(n))
      /\ << <<"at_tmp", "to_rp_low">>, On("at_tmp_high") >> \in Seq(HooksFor(n))
  BY <1>2, <1>3
<1> HIDE DEF HooksFor
<1> QED BY <1>2, <1>3, <1>4, <1>5 DEF EdHooks, EdInstrs

LEMMA BlockHooksType == \A n \in BlockInstrs : BlockCycleHooks(n) \in Seq(HooksFor(n))
<1> SUFFICES ASSUME NEW n \in BlockInstrs PROVE BlockCycleHooks(n) \in Seq(HooksFor(n))
  OBVIOUS
<1>1. n \notin Substituted
  BY DEF Substituted, BlockInstrs, ControlInstrs
<1>2. \A h \in {"at_hl", "at_de", "io_at_bc", "block_repeat"} : On(h) \in HooksFor(n)
  BY <1>1, SharedPairs DEF EnterHooks, ReadHooks, IoHooks, JumpHooks
<1>3. /\ <<"none", "block_transfer">> \in HooksFor(n) /\ <<"none", "block_compare">> \in HooksFor(n)
      /\ <<"at_hl", "block_in">> \in HooksFor(n)
      /\ <<"block_out", "block_exit_out">> \in HooksFor(n)
  BY <1>1 DEF HooksFor, EnterHooks, ExitHooks, ReadHooks, IoHooks, BlockHooks
<1>4. Idle \in HooksFor(n)
  BY SharedPairs
<1> HIDE DEF HooksFor
<1> QED BY <1>2, <1>3, <1>4 DEF BlockCycleHooks, BlockInstrs

LEMMA LoadHooksType == \A n \in LoadInstrs : LoadHooks(n) \in Seq(HooksFor(n))
<1> SUFFICES ASSUME NEW n \in LoadInstrs PROVE LoadHooks(n) \in Seq(HooksFor(n))
  OBVIOUS
<1>1. /\ \A h \in {"at_pc", "at_bc", "at_de", "a_at_bc", "a_at_de", "at_tmp", "a_at_tmp",
                   "l_at_tmp", "h_at_tmp", "at_tmp_high", "push_pair_high", "push_pair_low",
                   "at_pop", "h_at_sp", "l_at_sp"} : On(h) \in HooksFor(n)
      /\ Idle \in HooksFor(n) /\ Operand \in Seq(HooksFor(n))
         /\ AtPopTo("to_tmp_low") \in HooksFor(n)
  BY SharedPairs DEF SwapEnter
<1>2. n \in {"ld_reg_from_hl", "ld_hl_from_reg", "ld_hl_n"}
        => On("at_hl") \in HooksFor(n) /\ On("reg_to_hl") \in HooksFor(n)
  <2>1. n \in {"ld_reg_from_hl", "ld_hl_from_reg", "ld_hl_n"} => n \notin Substituted
    BY DEF Substituted, ControlInstrs
  <2> QED BY <2>1, SharedPairs DEF EnterHooks, ReadHooks, WriteHooks
<1>3. /\ <<"at_tmp", "to_l">> \in HooksFor(n) /\ <<"at_sp", "to_tmp_low">> \in HooksFor(n)
      /\ <<"at_sp_high", "to_tmp_high">> \in HooksFor(n)
  BY DEF HooksFor, EnterHooks, ExitHooks, ReadHooks, CollectHooks, SwapEnter, SwapExit
<1>4. /\ <<On("at_tmp")>> \in Seq(HooksFor(n)) /\ <<On("a_at_tmp")>> \in Seq(HooksFor(n))
      /\ <<On("l_at_tmp"), On("h_at_tmp")>> \in Seq(HooksFor(n))
      /\ << <<"at_tmp", "to_l">>, On("at_tmp_high") >> \in Seq(HooksFor(n))
  BY <1>1, <1>3
<1> HIDE DEF HooksFor
<1>5. CASE n \in {"ld_a_nn", "ld_nn_a", "ld_rp_nn", "ld_nn_hl", "ld_hl_nn"}
  BY <1>1, <1>4, <1>5 DEF LoadHooks
<1>6. CASE n \notin {"ld_a_nn", "ld_nn_a", "ld_rp_nn", "ld_nn_hl", "ld_hl_nn"}
  BY <1>1, <1>2, <1>3, <1>6 DEF LoadHooks, LoadInstrs
<1> QED BY <1>5, <1>6

LEMMA ArithmeticHooksType == \A n \in ArithmeticInstrs : ArithmeticHooks(n) \in Seq(HooksFor(n))
<1> SUFFICES ASSUME NEW n \in ArithmeticInstrs PROVE ArithmeticHooks(n) \in Seq(HooksFor(n))
  OBVIOUS
<1>1. On("at_pc") \in HooksFor(n) /\ Idle \in HooksFor(n)
  BY SharedPairs DEF SwapEnter
<1>2. n \in {"alu_mem", "inc_mem", "dec_mem", "cb_mem", "cb_bit_mem"} => n \notin Substituted
  BY DEF Substituted, ControlInstrs
<1>3. n \in {"alu_mem", "inc_mem", "dec_mem", "cb_mem", "cb_bit_mem"} => On("at_hl") \in HooksFor(n)
  BY <1>2, SharedPairs DEF EnterHooks, ReadHooks
<1>4. /\ n = "inc_mem" => <<"at_hl", "inc_bus">> \in HooksFor(n)
      /\ n = "dec_mem" => <<"at_hl", "dec_bus">> \in HooksFor(n)
      /\ n = "cb_mem" => <<"at_hl", "cb_bus">> \in HooksFor(n)
  BY <1>2 DEF HooksFor, EnterHooks, ExitHooks, ReadHooks, ByteHooks
<1> HIDE DEF HooksFor
<1> QED BY <1>1, <1>3, <1>4 DEF ArithmeticHooks, ArithmeticInstrs

LEMMA ControlHooksType == \A n \in ControlInstrs : ControlHooks(n) \in Seq(HooksFor(n))
<1> SUFFICES ASSUME NEW n \in ControlInstrs PROVE ControlHooks(n) \in Seq(HooksFor(n))
  OBVIOUS
<1>1. /\ \A h \in {"at_pc", "jump_relative", "io_address", "io_write", "rst_target"} :
           On(h) \in HooksFor(n)
      /\ Idle \in HooksFor(n) /\ Called \in Seq(HooksFor(n))
      /\ \A x \in {"to_wz_low", "to_wz_high", "to_tmp_low", "jr_condition", "djnz_condition",
                   "call_condition", "return_to_wz_high"} :
           AtPcTo(x) \in HooksFor(n) /\ AtPopTo(x) \in HooksFor(n)
  BY SharedPairs DEF SwapEnter
<1>2. <<"none", "return_condition">> \in HooksFor(n) /\ <<"push_pc_low", "take_wz">> \in HooksFor(n)
  BY DEF HooksFor, EnterHooks, ExitHooks, PushHooks, BranchHooks, VectorHooks, SwapEnter, SwapExit
<1>3. /\ <<AtPcTo("to_wz_low"), AtPcTo("to_wz_high"), Idle>> \in Seq(HooksFor(n))
      /\ <<AtPcTo("to_wz_low"), AtPcTo("call_condition"), Idle>> \in Seq(HooksFor(n))
  BY <1>1
<1> HIDE DEF HooksFor
<1>4. CASE n \in {"call", "call_cc"}
  BY <1>1, <1>3, <1>4 DEF ControlHooks
<1>5. CASE n \notin {"call", "call_cc"}
  BY <1>1, <1>2, <1>5 DEF ControlHooks, ControlInstrs
<1> QED BY <1>4, <1>5

LEMMA InterruptHooksType == \A n \in InterruptSequences : InterruptHooks(n) \in Seq(HooksFor(n))
<1> SUFFICES ASSUME NEW n \in InterruptSequences PROVE InterruptHooks(n) \in Seq(HooksFor(n))
  OBVIOUS
<1>1. n \notin Substituted
  BY DEF Substituted, InterruptSequences, ControlInstrs
<1>2. On("push_pc_high") \in HooksFor(n) /\ On("push_pc_low") \in HooksFor(n)
      /\ Idle \in HooksFor(n)
  BY SharedPairs DEF SwapEnter
<1>3. /\ <<"push_pc_low", "nmi_vector">> \in HooksFor(n) /\ <<"none", "to_tmp_low">> \in HooksFor(n)
      /\ <<"push_pc_low", "interrupt_vector">> \in HooksFor(n)
      /\ <<"at_interrupt_table", "to_wz_low">> \in HooksFor(n)
      /\ <<"at_tmp_high", "return_to_wz_high">> \in HooksFor(n)
  BY <1>1 DEF HooksFor, EnterHooks, ExitHooks, PushHooks, ReadHooks, CollectHooks, VectorHooks
<1> HIDE DEF HooksFor
<1> QED BY <1>2, <1>3 DEF InterruptHooks, InterruptSequences

LEMMA NoHooks == ASSUME NEW S PROVE << >> \in Seq(S)
OBVIOUS

(* Every cycle of an instruction has hooks, and only such hooks.            *)
LEMMA HooksType ==
  ASSUME NEW n \in Instrs, NEW k \in Nat, k < Len(CyclesOf[n])
  PROVE  HooksOf[n][k + 1] \in HooksFor(n)
<1>1. HooksOf[n] \in Seq(HooksFor(n))
  <2> USE DEF HooksOf, FetchOnly, IndexedInstrs, EdInstrs, BlockInstrs, LoadInstrs,
              ArithmeticInstrs, ControlInstrs, InterruptSequences
  <2> HIDE DEF HooksFor
  <2>1. CASE n \in FetchOnly
    <3>1. HooksOf[n] = << >>
      BY <2>1
    <3> QED BY ONLY <3>1, NoHooks
  <2>2. CASE n \in IndexedInstrs
    <3>1. HooksOf[n] = IndexedHooks(n)
      BY <2>2
    <3> QED BY ONLY <2>2, <3>1, IndexedHooksType
  <2>3. CASE n \in EdInstrs
    <3>1. HooksOf[n] = EdHooks(n)
      BY <2>3
    <3> QED BY ONLY <2>3, <3>1, EdHooksType
  <2>4. CASE n \in BlockInstrs
    <3>1. HooksOf[n] = BlockCycleHooks(n)
      BY <2>4
    <3> QED BY ONLY <2>4, <3>1, BlockHooksType
  <2>5. CASE n \in LoadInstrs
    <3>1. HooksOf[n] = LoadHooks(n)
      BY <2>5
    <3> QED BY ONLY <2>5, <3>1, LoadHooksType
  <2>6. CASE n \in ArithmeticInstrs
    <3>1. HooksOf[n] = ArithmeticHooks(n)
      BY <2>6
    <3> QED BY ONLY <2>6, <3>1, ArithmeticHooksType
  <2>7. CASE n \in ControlInstrs
    <3>1. HooksOf[n] = ControlHooks(n)
      BY <2>7
    <3> QED BY ONLY <2>7, <3>1, ControlHooksType
  <2>8. CASE n \in InterruptSequences
    <3>1. HooksOf[n] = InterruptHooks(n)
      BY <2>8
    <3> QED BY ONLY <2>8, <3>1, InterruptHooksType
  <2>9. n \in FetchOnly \union IndexedInstrs \union EdInstrs \union BlockInstrs
          \union LoadInstrs \union ArithmeticInstrs \union ControlInstrs \union InterruptSequences
    BY DEF Instrs
  <2> QED BY ONLY <2>1, <2>2, <2>3, <2>4, <2>5, <2>6, <2>7, <2>8, <2>9
<1>2. Len(HooksOf[n]) = Len(CyclesOf[n])
  BY HooksAssumption
<1> QED BY <1>1, <1>2
-----------------------------------------------------------------------------
(* The effect of an instruction leaves a typed core typed. *)
LEMMA OntoOthers ==
  ASSUME NEW c, NEW d, Onto(c, d)
  PROVE  /\ \A m \in 0 .. 2 : Onto(c, Put(d, "im", m))
         /\ \A x \in {"bc_alt", "de_alt", "hl_alt"}, w \in Word : Onto(c, Put(d, x, w))
         /\ \A v \in [a : Byte, f : SUBSET Alu!Flags] : Onto(c, Put(d, "af_alt", v))
         /\ \A f \in SUBSET Alu!Flags : Onto(c, Put(d, "q", f))
<1>1. \A x \in CpuFields : \A v : Put(d, x, v) = [y \in CpuFields |-> IF y = x THEN v ELSE d[y]]
  BY DEF Put, Onto, Typed
<1>2. {"im", "af_alt", "q"} \subseteq CpuFields
      /\ {"bc_alt", "de_alt", "hl_alt"} \subseteq WordFields
  BY DEF CpuFields, WordFields, FlagFields
<1>3. ASSUME NEW m \in 0 .. 2
      PROVE  Onto(c, Put(d, "im", m))
  <2>1. Put(d, "im", m) = [y \in CpuFields |-> IF y = "im" THEN m ELSE d[y]]
    BY <1>1, <1>2
  <2> QED BY <2>1 DEF Onto, Typed, Cursor, CpuFields, ByteFields, WordFields, FlagFields, BoolFields
<1>4. ASSUME NEW v \in [a : Byte, f : SUBSET Alu!Flags]
      PROVE  Onto(c, Put(d, "af_alt", v))
  <2>1. Put(d, "af_alt", v) = [y \in CpuFields |-> IF y = "af_alt" THEN v ELSE d[y]]
    BY <1>1, <1>2
  <2> QED BY <2>1 DEF Onto, Typed, Cursor, CpuFields, ByteFields, WordFields, FlagFields, BoolFields
<1>5. ASSUME NEW x \in {"bc_alt", "de_alt", "hl_alt"}, NEW w \in Word
      PROVE  Onto(c, Put(d, x, w))
  BY <1>2, OntoWord
<1>6. ASSUME NEW f \in SUBSET Alu!Flags
      PROVE  Onto(c, Put(d, "q", f))
  BY OntoFlags DEF FlagFields
<1> QED BY <1>3, <1>4, <1>5, <1>6

LEMMA LoadTyped ==
  ASSUME NEW c, Typed(c), NEW n \in Loads
  PROVE  Onto(c, LoadEffect(n, c))
<1>1. Onto(c, c)
  BY OntoItself
<1> USE OntoPut, FieldNames
<1>2. CASE n \in {"ld_reg_reg", "ld_reg_immediate", "ld_reg_from_hl"}
  <2>1. \E b \in Byte : LoadEffect(n, c) = WithSlot(c, Y(c.opcode), b)
    BY <1>2, Operands, Names, HalfTyped DEF LoadEffect, Slot
  <2> QED BY <1>1, <2>1, OntoSlot, Names
<1>3. CASE n \in {"ld_a_bc", "ld_a_de", "ld_a_nn", "in_a_n"}
  <2>1. LoadEffect(n, c) = Put(Put(c, "a", c.bus_data), "wz", Plus(c.bus_addr, 1))
    BY <1>3, Fields DEF LoadEffect, Put, Shaped, CpuFields
  <2> QED BY <1>1, <2>1, Operands
<1>4. CASE n \in {"ld_bc_a", "ld_de_a", "ld_nn_a", "out_n_a"}
  <2>1. LoadEffect(n, c) = Put(c, "wz", 256 * c.a + ((Low(c.bus_addr) + 1) % 256))
    BY <1>4 DEF LoadEffect, StoredA, Put
  <2>2. 256 * c.a + ((Low(c.bus_addr) + 1) % 256) \in Word
    BY Operands, Widths
  <2> QED BY <1>1, <2>1, <2>2
<1>5. CASE n \in {"ld_rp_nn", "ld_sp_hl", "ld_nn_hl", "ed_ld_nn_rp"}
  <2>1. PICK x \in {"bc", "de", "hl", "ix", "iy", "sp", "wz"}, w \in Word :
          LoadEffect(n, c) = Put(c, x, w)
    BY <1>5, Operands, Names DEF LoadEffect, MemptrAfterTmp, Put
  <2> QED BY <1>1, <2>1
<1>6. CASE n \in {"ld_hl_nn", "ed_ld_rp_nn"}
  <2>1. PICK d : d = Put(c, "wz", Plus(c.tmp, 1))
    OBVIOUS
  <2>2. Onto(c, d) /\ MemptrAfterTmp(c) = d
    BY <1>1, <2>1, Operands DEF MemptrAfterTmp, Put
  <2>3. PICK x \in {"bc", "de", "hl", "ix", "iy", "sp"} :
          LoadEffect(n, c) = Put(d, x, WithHigh(d[x], c.bus_data))
    BY <1>6, <2>2, Names DEF LoadEffect, Put
  <2>4. WithHigh(d[x], c.bus_data) \in Word
    BY <2>2, Operands DEF Onto
  <2> QED BY <2>2, <2>3, <2>4
<1>7. CASE n = "pop"
  <2>1. PICK w \in Word : w = WithHigh(c.tmp, c.bus_data)
    BY Operands
  <2>2. LoadEffect(n, c) = WithPair(Put(c, "tmp", w), pair_rp2(c), w)
    BY <1>7, <2>1 DEF LoadEffect, Put
  <2> QED BY <1>1, <2>2, OntoPair, Names
<1>8. CASE n = "index_ld_reg_mem"
  <2>1. LoadEffect(n, c) = WithHalf(c, Y(c.opcode), "hl", c.bus_data)
    BY <1>8 DEF LoadEffect
  <2> QED BY <1>1, <2>1, OntoHalf, Names, Operands
<1> QED BY <1>2, <1>3, <1>4, <1>5, <1>6, <1>7, <1>8 DEF Loads

LEMMA ExchangeTyped ==
  ASSUME NEW c, Typed(c), NEW n \in Exchanges
  PROVE  Onto(c, ExchangeEffect(n, c))
<1>1. Onto(c, c) /\ Shaped(c)
  BY OntoItself, Fields
<1> USE OntoPut, FieldNames
<1>2. CASE n = "ex_de_hl"
  <2>1. ExchangeEffect(n, c) = Put(Put(c, "de", c.hl), "hl", c.de)
    BY <1>1, <1>2 DEF ExchangeEffect, Put, Shaped, CpuFields
  <2> QED BY <1>1, <2>1, Operands
<1>3. CASE n = "ex_af"
  <2>1. PICK d, v : /\ d = Put(Put(c, "a", c.af_alt.a), "f", c.af_alt.f)
                    /\ v = [a |-> c.a, f |-> c.f]
                    /\ ExchangeEffect(n, c) = Put(d, "af_alt", v)
    BY <1>1, <1>3 DEF ExchangeEffect, Put, Shaped, CpuFields
  <2>2. c.af_alt.a \in Byte /\ c.af_alt.f \in SUBSET Alu!Flags /\ c.f \in SUBSET Alu!Flags
        /\ c.a \in Byte
    BY Fields DEF Typed
  <2>3. v \in [a : Byte, f : SUBSET Alu!Flags]
    BY <2>1, <2>2
  <2>4. Onto(c, d)
    BY <1>1, <2>1, <2>2
  <2> QED BY <2>1, <2>3, <2>4, OntoOthers
<1>4. CASE n = "exx"
  <2>1. ExchangeEffect(n, c) =
          Put(Put(Put(Put(Put(Put(c, "bc", c.bc_alt), "bc_alt", c.bc), "de", c.de_alt),
                          "de_alt", c.de), "hl", c.hl_alt), "hl_alt", c.hl)
    BY <1>1, <1>4 DEF ExchangeEffect, Put, Shaped, CpuFields
  <2>2. /\ c.bc_alt \in Word /\ c.de_alt \in Word /\ c.hl_alt \in Word
        /\ c.bc \in Word /\ c.de \in Word /\ c.hl \in Word
    BY Fields DEF WordFields
  <2>3. \A x \in {"bc", "bc_alt", "de", "de_alt", "hl", "hl_alt"} : x \in WordFields
    BY DEF WordFields
  <2> QED BY <1>1, <2>1, <2>2, <2>3
<1>5. CASE n = "ex_sp_hl"
  <2>1. PICK x \in {"hl", "ix", "iy"} : x = index_pair(c)
    BY Names
  <2>2. Put(c, x, c.tmp).tmp = c.tmp
    BY <1>1 DEF Put, Shaped, CpuFields
  <2>3. ExchangeEffect(n, c) = Put(Put(c, x, c.tmp), "wz", c.tmp)
    BY <1>5, <2>1, <2>2 DEF ExchangeEffect, Put
  <2> QED BY <1>1, <2>3, Operands
<1> QED BY <1>2, <1>3, <1>4, <1>5 DEF Exchanges

LEMMA WideTyped ==
  ASSUME NEW c, Typed(c), NEW x \in {"hl", "ix", "iy"}, NEW out, WordOut(out)
  PROVE  Onto(c, WideOut(c, x, out))
<1>1. PICK w \in Word : w = Plus(c[x], 1)
  BY Operands
<1>2. WideOut(c, x, out) = Put(Put(WriteFlags(c, out.flags), "wz", w), x, out.value)
  BY <1>1 DEF WideOut, Put
<1>3. Onto(c, Put(WriteFlags(c, out.flags), "wz", w))
  BY OntoItself, OntoCommon, OntoPut, FieldNames DEF WordOut
<1>4. x \in WordFields /\ out.value \in Word
  BY FieldNames DEF WordOut
<1> QED BY <1>2, <1>3, <1>4, OntoWord

LEMMA ArithmeticTyped ==
  ASSUME NEW c, Typed(c), NEW n \in Arithmetics
  PROVE  Onto(c, ArithmeticEffect(n, c))
<1>1. /\ Onto(c, c) /\ c.a \in Byte /\ c.bus_data \in Byte
      /\ c.f \in SUBSET Alu!Flags /\ c.q \in SUBSET Alu!Flags
      /\ Y(c.opcode) \in 0 .. 7 /\ Z(c.opcode) \in 0 .. 7
      /\ index_pair(c) \in {"hl", "ix", "iy"} /\ "hl" \in {"hl", "ix", "iy"}
      /\ c[index_pair(c)] \in Word /\ c[pair_rp(c)] \in Word /\ c.hl \in Word
      /\ Slot(c, Y(c.opcode)) \in Byte /\ Slot(c, Z(c.opcode)) \in Byte
  BY OntoItself, Operands, Names, Fields, HalfTyped DEF FlagFields, Slot
<1>2. ASSUME NEW out, ByteOut(out)
      PROVE  Onto(c, WithOut(c, out)) /\ Onto(c, SlotOut(c, Y(c.opcode), out))
  <2>1. WithOut(c, out) = Put(WriteFlags(c, out.flags), "a", out.value)
    BY DEF WithOut, Put
  <2>2. Onto(c, WriteFlags(c, out.flags)) /\ out.value \in Byte
    BY <1>1, <1>2, OperationOnByte DEF ByteOut
  <2> QED BY <1>1, <1>2, <2>1, <2>2, OperationOnByte, OntoSlot DEF SlotOut
<1>3. CASE n \in {"alu_reg", "alu_mem", "alu_n", "index_alu_mem"}
  <2>1. PICK b \in Byte : ArithmeticEffect(n, c) = AluOperation(c, b)
    BY <1>1, <1>3 DEF ArithmeticEffect
  <2> QED BY <1>1, <1>2, <2>1, OperationTyped DEF AluOperation
<1>4. CASE n \in {"inc_reg", "dec_reg"}
  <2>1. PICK out : ByteOut(out) /\ ArithmeticEffect(n, c) = SlotOut(c, Y(c.opcode), out)
    BY <1>1, <1>4, ByteOperationsTyped DEF ArithmeticEffect
  <2> QED BY <1>2, <2>1
<1>5. CASE n \in {"inc_rp", "dec_rp"}
  <2>1. PICK x \in {"bc", "de", "hl", "ix", "iy", "sp"} : x = pair_rp(c)
    BY Names
  <2>2. PICK w \in Word : w = IF n = "inc_rp" THEN Plus(c[x], 1) ELSE Plus(c[x], -1)
    BY Operands
  <2>3. ArithmeticEffect(n, c) = Put(c, x, w)
    BY <1>5, <2>1, <2>2 DEF ArithmeticEffect, Put
  <2> QED BY <1>1, <2>3, OntoPut, FieldNames
<1>6. CASE n \in {"add_hl_rp", "ed_adc_hl", "ed_sbc_hl"}
  <2>1. PICK x, out :
          x \in {"hl", "ix", "iy"} /\ WordOut(out) /\ ArithmeticEffect(n, c) = WideOut(c, x, out)
    BY <1>1, <1>6, WordOperationsTyped DEF ArithmeticEffect
  <2> QED BY <2>1, WideTyped
<1>7. CASE n \in {"rotate_a", "daa", "ed_neg"}
  <2>1. PICK out : ByteOut(out) /\ ArithmeticEffect(n, c) = WithOut(c, out)
    BY <1>1, <1>7, ByteOperationsTyped DEF ArithmeticEffect
  <2> QED BY <1>2, <2>1
<1>8. CASE n = "cpl"
  <2>1. PICK out : out = Alu!execute_cpl(c.a, c.f)
    OBVIOUS
  <2>2. ByteOut(out)
    BY <1>1, <2>1, ByteOperationsTyped
  <2>3. ArithmeticEffect(n, c) = Put(Put(c, "a", out.value), "f", out.flags)
    BY <1>8, <2>1 DEF ArithmeticEffect, Put
  <2> QED BY <1>1, <2>2, <2>3, OntoPut, FieldNames DEF ByteOut
<1>9. CASE n \in {"scf", "ccf"}
  <2>1. PICK f \in SUBSET Alu!Flags : ArithmeticEffect(n, c) = WriteFlags(c, f)
    BY <1>1, <1>9, FlagsTyped, TRUE \in BOOLEAN DEF ArithmeticEffect
  <2> QED BY <1>1, <2>1, OntoCommon
<1> QED BY <1>3, <1>4, <1>5, <1>6, <1>7, <1>8, <1>9 DEF Arithmetics

LEMMA CbEffectTyped ==
  ASSUME NEW c, Typed(c), NEW n \in {"cb_reg", "cb_bit_mem"}
  PROVE  Onto(c, CbEffect(n, c))
<1>1. Onto(c, c) /\ c.bus_data \in Byte /\ Z(c.opcode) \in 0 .. 7
  BY OntoItself, Operands, Names
<1>2. PICK b \in Byte : b = Slot(c, Z(c.opcode))
  BY Names, HalfTyped DEF Slot
<1>3. CASE n = "cb_bit_mem"
  BY <1>1, <1>3, CbTyped DEF CbEffect
<1>4. CASE n = "cb_reg" /\ X(c.opcode) = 1
  BY <1>1, <1>2, <1>4, CbTyped DEF CbEffect
<1>5. CASE n = "cb_reg" /\ X(c.opcode) # 1
  <2>1. CbEffect(n, c) = WithSlot(CbFlags(c, b), Z(c.opcode), CbResult(c, b).value)
    BY <1>2, <1>5 DEF CbEffect
  <2>2. Onto(c, CbFlags(c, b)) /\ CbResult(c, b).value \in Byte
    BY <1>1, <1>5, CbTyped DEF ByteOut
  <2> QED BY <1>1, <2>1, <2>2, OntoSlot
<1> QED BY <1>3, <1>4, <1>5

LEMMA ControlTyped ==
  ASSUME NEW c, Typed(c), NEW n \in Controls
  PROVE  Onto(c, ControlEffect(n, c))
<1>1. /\ Onto(c, c) /\ Shaped(c) /\ WithHigh(c.wz, c.bus_data) \in Word
      /\ c.pc \in Word /\ Plus(c.pc, -1) \in Word /\ c[index_pair(c)] \in Word
  BY OntoItself, Fields, Operands, Names
<1> USE OntoPut, FieldNames
<1>2. CASE n = "halt"
  <2>1. ControlEffect(n, c) = Put(Put(c, "halted", TRUE), "pc", Plus(c.pc, -1))
    BY <1>1, <1>2 DEF ControlEffect, execute_halt, Put, Shaped, CpuFields
  <2> QED BY <1>1, <2>1
<1>3. CASE n = "ei"
  <2>1. ControlEffect(n, c) = Put(Put(Put(c, "iff1", TRUE), "iff2", TRUE), "int_inhibit", TRUE)
    BY <1>3 DEF ControlEffect, execute_ei, Put
  <2> QED BY <1>1, <2>1
<1>4. CASE n = "di"
  <2>1. ControlEffect(n, c) = Put(Put(c, "iff1", FALSE), "iff2", FALSE)
    BY <1>4 DEF ControlEffect, Put
  <2> QED BY <1>1, <2>1
<1>5. CASE n = "ed_im"
  <2>1. PICK y \in 0 .. 7 : y = Y(c.opcode)
    BY Names
  <2>2. PICK m \in 0 .. 2 : m = <<0, 0, 1, 2, 0, 0, 1, 2>>[y + 1]
    OBVIOUS
  <2>3. ControlEffect(n, c) = Put(c, "im", m)
    BY <1>5, <2>1, <2>2 DEF ControlEffect, execute_im, Put
  <2> QED BY <1>1, <2>3, OntoOthers
<1>6. CASE n = "jump"
  BY <1>1, <1>6, OntoCommon DEF ControlEffect
<1>7. CASE n = "jp_cc"
  <2>1. ControlEffect(n, c) \in {GoTo(c, WithHigh(c.wz, c.bus_data)),
                                Put(c, "wz", WithHigh(c.wz, c.bus_data))}
    BY <1>7 DEF ControlEffect, Put
  <2> QED BY <1>1, <2>1, OntoCommon
<1>8. CASE n = "jp_hl"
  <2>1. ControlEffect(n, c) = Put(c, "pc", c[index_pair(c)])
    BY <1>8 DEF ControlEffect, Put
  <2> QED BY <1>1, <2>1
<1> QED BY <1>2, <1>3, <1>4, <1>5, <1>6, <1>7, <1>8 DEF Controls

LEMMA RefreshTyped ==
  ASSUME NEW c, Typed(c), NEW n \in Refreshes, NEW int
  PROVE  Onto(c, RefreshEffect(n, c, int))
<1>1. Onto(c, c) /\ c.a \in Byte /\ c.i \in Byte /\ c.r \in Byte /\ c.f \in SUBSET Alu!Flags
  BY OntoItself, Operands, Fields, FieldNames
<1>2. ASSUME NEW b \in Byte
      PROVE  Onto(c, load_a_from_control_register(c, b, int))
  <2>1. PICK more \in BOOLEAN :
          more = (c.iff2 /\ ~(~c.int_inhibit /\ (c.nmi_latched \/ (c.iff1 /\ int))))
    BY DEF Typed
  <2>2. PICK f \in SUBSET Alu!Flags : f = Alu!load_a_flags(c.f, b, more)
    BY <1>1, FlagsTyped
  <2>3. load_a_from_control_register(c, b, int) = Put(WriteFlags(c, f), "a", b)
    BY <2>1, <2>2 DEF load_a_from_control_register, Put
  <2> QED BY <1>1, <1>2, <2>3, OntoCommon, OntoPut, FieldNames
<1>3. Onto(c, Put(c, "i", c.a)) /\ Onto(c, Put(c, "r", c.a))
  BY <1>1, OntoPut, FieldNames
<1> QED BY <1>1, <1>2, <1>3 DEF RefreshEffect, Refreshes, Put

LEMMA PortTyped ==
  ASSUME NEW c, Typed(c), NEW n \in {"ed_in_c", "ed_out_c"}
  PROVE  Onto(c, PortEffect(n, c))
<1>1. Onto(c, c) /\ c.a \in Byte /\ c.bus_data \in Byte /\ c.f \in SUBSET Alu!Flags
      /\ Y(c.opcode) \in 0 .. 7
  BY OntoItself, Operands, Fields, FieldNames, Names
<1>2. CASE n = "ed_in_c"
  <2>1. PICK f \in SUBSET Alu!Flags : f = Alu!digit_rotate_flags(c.f, c.bus_data)
    BY <1>1, FlagsTyped, TRUE \in BOOLEAN
  <2>2. PICK taken : taken = WithSlot(WriteFlags(c, f), Y(c.opcode), c.bus_data)
    OBVIOUS
  <2>3. Onto(c, taken)
    BY <1>1, <2>2, OntoCommon, OntoSlot
  <2>4. PortEffect(n, c) = Put(taken, "wz", Plus(taken.bc, 1))
    BY <1>2, <2>1, <2>2 DEF PortEffect, Put
  <2>5. Plus(taken.bc, 1) \in Word
    BY <2>3, Operands DEF Onto
  <2> QED BY <2>3, <2>4, <2>5, OntoPut, FieldNames
<1>3. CASE n = "ed_out_c"
  <2>1. PortEffect(n, c) = Put(c, "wz", Plus(c.bc, 1))
    BY <1>3 DEF PortEffect, Put
  <2> QED BY <1>1, <2>1, Operands, OntoPut, FieldNames
<1> QED BY <1>2, <1>3

LEMMA ExecuteTyped ==
  ASSUME NEW c, Typed(c), NEW n, n # "prefix", NEW int
  PROVE  Onto(c, Execute(n, c, int))
<1> USE DEF Execute, Loads, Exchanges, Arithmetics, Controls, Refreshes
<1>1. CASE n \in Loads
  BY <1>1, LoadTyped
<1>2. CASE n \in Exchanges
  BY <1>2, ExchangeTyped
<1>3. CASE n \in Arithmetics
  BY <1>3, ArithmeticTyped
<1>4. CASE n \in {"cb_reg", "cb_bit_mem"}
  BY <1>4, CbEffectTyped
<1>5. CASE n \in Controls
  BY <1>5, ControlTyped
<1>6. CASE n \in Refreshes
  BY <1>6, RefreshTyped
<1>7. CASE n \in {"ed_in_c", "ed_out_c"}
  BY <1>7, PortTyped
<1>8. CASE n \notin Loads \union Exchanges \union Arithmetics \union {"cb_reg", "cb_bit_mem"}
                    \union Controls \union Refreshes \union {"ed_in_c", "ed_out_c"}
  BY <1>8, OntoItself
<1> QED BY <1>1, <1>2, <1>3, <1>4, <1>5, <1>6, <1>7, <1>8
-----------------------------------------------------------------------------
(* What is decoded: under a prefix, the same instruction or one that has a  *)
(* displacement.                                                           *)
LEMMA IndexedOrBase ==
  ASSUME NEW o \in Byte
  PROVE  \/ DecodeIndexed(o) \in IndexedInstrs \union {"prefix"}
         \/ /\ DecodeIndexed(o) = DecodeBase(o)
            /\ DecodeBase(o) \in Substituted \union {"ex_de_hl", "exx"}
<1>1. X(o) \in 0 .. 3 /\ Y(o) \in 0 .. 7 /\ Z(o) \in 0 .. 7 /\ o = 64 * X(o) + 8 * Y(o) + Z(o)
  BY FieldsType DEF Byte, X, Y, Z
<1>2. CASE o \in {203, 221, 237, 253}
  BY <1>2 DEF DecodeIndexed, IndexedInstrs
<1>3. CASE o \notin {203, 221, 237, 253}
  <2> DEFINE x == X(o)
             y == Y(o)
             z == Z(o)
  <2>1. \/ DecodeIndexed(o) \in IndexedInstrs
        \/ /\ DecodeIndexed(o) = DecodeBase(o)
           /\ ~(x = 0 /\ y = 6 /\ z \in {4, 5, 6}) /\ ~(x = 1 /\ y # 6 /\ z = 6)
           /\ ~(x = 1 /\ y = 6 /\ z # 6) /\ ~(x = 2 /\ z = 6)
    BY <1>1, <1>3 DEF DecodeIndexed, IndexedInstrs
  <2>2. ASSUME ~(x = 0 /\ y = 6 /\ z \in {4, 5, 6}), ~(x = 1 /\ y # 6 /\ z = 6),
               ~(x = 1 /\ y = 6 /\ z # 6), ~(x = 2 /\ z = 6)
        PROVE  DecodeBase(o) \in Substituted \union {"ex_de_hl", "exx"}
    <3>1. /\ x \in 0 .. 3 /\ y \in 0 .. 7 /\ z \in 0 .. 7
          /\ ~(x = 3 /\ y = 1 /\ z = 3) /\ ~(x = 3 /\ y \in {3, 5, 7} /\ z = 5)
      BY <1>1, <1>3
    <3>2. DecodeBase(o) = CASE x = 0 -> DecodeX0(y, z) [] x = 1 -> DecodeX1(y, z)
                            [] x = 2 -> IF z = 6 THEN "alu_mem" ELSE "alu_reg"
                            [] x = 3 -> DecodeX3(y, z)
      BY DEF DecodeBase
    <3> HIDE DEF x, y, z
    <3>3. CASE x = 0
      <4>1. DecodeX0(y, z) \in {"nop", "ex_af", "djnz", "jr", "jr_cc", "add_hl_rp", "ld_rp_nn",
              "ld_bc_a", "ld_a_bc", "ld_de_a", "ld_a_de", "ld_nn_hl", "ld_hl_nn", "ld_nn_a",
              "ld_a_nn", "dec_rp", "inc_rp", "inc_reg", "dec_reg", "ld_reg_immediate",
              "rotate_a", "daa", "cpl", "scf", "ccf"}
        BY <2>2, <3>1, <3>3 DEF DecodeX0
      <4> QED BY <3>2, <3>3, <4>1 DEF Substituted, ControlInstrs
    <3>4. CASE x = 1
      BY <2>2, <3>1, <3>2, <3>4 DEF DecodeX1, Substituted, ControlInstrs
    <3>5. CASE x = 2
      BY <2>2, <3>2, <3>5 DEF Substituted, ControlInstrs
    <3>6. CASE x = 3
      <4>1. DecodeX3(y, z) \in {"ret_cc", "pop", "ret", "exx", "jp_hl", "ld_sp_hl", "jp_cc",
              "jump", "out_n_a", "in_a_n", "ex_sp_hl", "ex_de_hl", "di", "ei", "call_cc",
              "push", "call", "alu_n", "rst"}
        BY <3>1, <3>6 DEF DecodeX3
      <4> QED BY <3>2, <3>6, <4>1 DEF Substituted, ControlInstrs
    <3> QED BY <3>1, <3>3, <3>4, <3>5, <3>6
  <2> HIDE DEF x, y, z
  <2> QED BY <2>1, <2>2
<1> QED BY <1>2, <1>3

(* The shifts of memory are not BIT. *)
LEMMA CbMemNoBit ==
  ASSUME NEW o \in Byte, NEW p \in {0, CB, ED}, NEW x \in {0, DD, FD}, Decode(o, p, x) = "cb_mem"
  PROVE  X(o) # 1
<1>1. X(o) \in 0 .. 3 /\ Y(o) \in 0 .. 7 /\ Z(o) \in 0 .. 7
  BY FieldsType
<1>2. ASSUME NEW y \in 0 .. 7, NEW z \in 0 .. 7
      PROVE  DecodeX0(y, z) # "cb_mem" /\ DecodeX3(y, z) # "cb_mem" /\ DecodeEdX1(y, z) # "cb_mem"
  <2>1. DecodeX0(y, z) # "cb_mem"
    BY DEF DecodeX0
  <2>2. DecodeX3(y, z) # "cb_mem"
    BY DEF DecodeX3
  <2>3. DecodeEdX1(y, z) # "cb_mem"
    BY DEF DecodeEdX1
  <2> QED BY <2>1, <2>2, <2>3
<1>3. DecodeBase(o) # "cb_mem"
  <2>1. CASE X(o) = 0
    BY <1>1, <1>2, <2>1 DEF DecodeBase
  <2>2. CASE X(o) = 1
    BY <1>1, <2>2 DEF DecodeBase, DecodeX1
  <2>3. CASE X(o) = 2
    BY <1>1, <2>3 DEF DecodeBase
  <2>4. CASE X(o) = 3
    BY <1>1, <1>2, <2>4 DEF DecodeBase
  <2> QED BY <1>1, <2>1, <2>2, <2>3, <2>4
<1>4. DecodeIndexed(o) # "cb_mem"
  BY <1>3, IndexedOrBase DEF IndexedInstrs
<1>5. DecodeEd(o) # "cb_mem"
  <2>1. CASE X(o) = 2 /\ Z(o) <= 3 /\ Y(o) >= 4
    BY <1>1, <2>1 DEF DecodeEd
  <2>2. CASE ~(X(o) = 2 /\ Z(o) <= 3 /\ Y(o) >= 4)
    BY <1>1, <1>2, <2>2 DEF DecodeEd
  <2> QED BY <2>1, <2>2
<1>6. Decode(o, p, x) = DecodeCb(o)
  BY <1>3, <1>4, <1>5 DEF Decode
<1> QED BY <1>6 DEF DecodeCb

-----------------------------------------------------------------------------
(* Moving the cursor. *)
LEMMA CursorTyped ==
  ASSUME NEW d, Typed(d)
  PROVE  /\ \A n \in Instrs \union {NoInstr} : Typed(Put(d, "instr", n))
         /\ \A k \in Nat : Typed(Put(d, "cycle", k)) /\ Typed(Put(d, "cycle_limit", k))
         /\ \A b \in Byte : Typed(Put(d, "opcode", b))
         /\ \A p \in {0, CB, ED} : Typed(Put(d, "prefix", p))
         /\ \A x \in {0, DD, FD} : Typed(Put(d, "index", x))
<1>1. \A x \in CpuFields : \A v : Put(d, x, v) = [y \in CpuFields |-> IF y = x THEN v ELSE d[y]]
  BY DEF Put, Typed
<1> USE DEF Typed, CpuFields, ByteFields, WordFields, FlagFields, BoolFields
<1>2. ASSUME NEW n \in Instrs \union {NoInstr} PROVE Typed(Put(d, "instr", n))
  <2>1. Put(d, "instr", n) = [y \in CpuFields |-> IF y = "instr" THEN n ELSE d[y]]
    BY <1>1
  <2> QED BY <2>1
<1>3. ASSUME NEW k \in Nat PROVE Typed(Put(d, "cycle", k))
  <2>1. Put(d, "cycle", k) = [y \in CpuFields |-> IF y = "cycle" THEN k ELSE d[y]]
    BY <1>1
  <2> QED BY <2>1
<1>4. ASSUME NEW k \in Nat PROVE Typed(Put(d, "cycle_limit", k))
  <2>1. Put(d, "cycle_limit", k) = [y \in CpuFields |-> IF y = "cycle_limit" THEN k ELSE d[y]]
    BY <1>1
  <2> QED BY <2>1
<1>5. ASSUME NEW b \in Byte PROVE Typed(Put(d, "opcode", b))
  <2>1. Put(d, "opcode", b) = [y \in CpuFields |-> IF y = "opcode" THEN b ELSE d[y]]
    BY <1>1
  <2> QED BY <2>1
<1>6. ASSUME NEW p \in {0, CB, ED} PROVE Typed(Put(d, "prefix", p))
  <2>1. Put(d, "prefix", p) = [y \in CpuFields |-> IF y = "prefix" THEN p ELSE d[y]]
    BY <1>1
  <2> QED BY <2>1
<1>7. ASSUME NEW x \in {0, DD, FD} PROVE Typed(Put(d, "index", x))
  <2>1. Put(d, "index", x) = [y \in CpuFields |-> IF y = "index" THEN x ELSE d[y]]
    BY <1>1
  <2> QED BY <2>1
<1> HIDE DEF Typed
<1> QED BY <1>2, <1>3, <1>4, <1>5, <1>6, <1>7

(* Where the cursor can be.  The prefixes exclude one another; an index     *)
(* register is in force under the instructions that a prefix can precede;   *)
(* and the shifts of memory are never a BIT, whose result they would write. *)
Placed(c) ==
  /\ c.prefix # 0 => c.index = 0
  /\ Fetching(c) => c.cycle = 0 /\ c.cycle_limit = 0
  /\ ~Fetching(c) => c.cycle < c.cycle_limit /\ c.cycle_limit <= Len(CyclesOf[c.instr])
  /\ ~Fetching(c) /\ c.index # 0 => c.instr \in Substituted \union IndexedInstrs
  /\ c.instr = "cb_mem" => X(c.opcode) # 1

LEMMA KindOfCycle ==
  ASSUME NEW c, Typed(c), Placed(c)
  PROVE  /\ Fetching(c) <=> Kind(c) = "m1_fetch"
         /\ ~Fetching(c) => HooksAt(c) \in HooksFor(c.instr)
<1>1. CASE Fetching(c)
  BY <1>1 DEF Kind
<1>2. CASE ~Fetching(c)
  <2>1. /\ c.instr \in Instrs /\ c.cycle \in Nat /\ c.cycle < Len(CyclesOf[c.instr])
        /\ CyclesOf[c.instr] \in Seq(MachineCycles \ {"m1_fetch"})
    <3>1. c.instr \in Instrs /\ c.cycle \in Nat /\ c.cycle_limit \in Nat
      BY <1>2 DEF Typed, Fetching
    <3>2. Len(CyclesOf[c.instr]) \in Nat /\ CyclesOf[c.instr] \in Seq(MachineCycles \ {"m1_fetch"})
      BY <3>1, ShapeType
    <3> QED BY <1>2, <3>1, <3>2 DEF Placed
  <2>2. Kind(c) \in MachineCycles \ {"m1_fetch"}
    BY <1>2, <2>1 DEF Kind
  <2> QED BY <1>2, <2>1, <2>2, HooksType DEF HooksAt
<1> QED BY <1>1, <1>2

(* The sampling step: it fetches an opcode, or leaves the cursor alone.     *)
LEMMA SampledTyped ==
  ASSUME NEW c, Typed(c), Placed(c), NEW byte \in Byte
  PROVE  /\ ~Fetching(c) => Onto(c, Sampled(c, byte)) /\ Sampled(c, byte).cycle = c.cycle
                            /\ Sampled(c, byte).cycle_limit = c.cycle_limit
         /\ Fetching(c) =>
              LET s == Sampled(c, byte)
              IN /\ Typed(s) /\ s.opcode = byte /\ s.pending = c.pending
                 /\ s.prefix = c.prefix /\ s.index = c.index
<1>1. Shaped(c) /\ c.r \in Byte /\ c.pc \in Word /\ Plus(c.pc, 1) \in Word
  BY Fields, Operands
<1>2. PICK r \in Byte : r = 128 * (c.r \div 128) + ((c.r + 1) % 128)
  BY <1>1, Widths
<1>3. Refreshed(c) = Put(c, "r", r)
  BY <1>2 DEF Refreshed, Put
<1>4. Onto(c, c) /\ Onto(c, Put(c, "r", r)) /\ Onto(c, Put(Put(c, "r", r), "bus_data", byte))
      /\ Onto(c, Put(c, "bus_data", byte)) /\ Onto(c, Put(Put(c, "r", r), "pc", Plus(c.pc, 1)))
  BY <1>1, OntoItself, OntoPut, FieldNames
<1>5. ASSUME Fetching(c)
      PROVE  LET s == Sampled(c, byte)
             IN /\ Typed(s) /\ s.opcode = byte /\ s.pending = c.pending
                /\ s.prefix = c.prefix /\ s.index = c.index
  <2>1. Sampled(c, byte) = [[c EXCEPT !.r = r] EXCEPT !.opcode = byte, !.pc = Plus(@, 1)]
    BY <1>3, <1>5, KindOfCycle DEF Sampled, Put
  <2>2. Sampled(c, byte) = Put(Put(Put(c, "r", r), "pc", Plus(c.pc, 1)), "opcode", byte)
    BY <1>1, <2>1 DEF Put, Shaped, CpuFields, WordFields, ByteFields
  <2>3. Typed(Sampled(c, byte))
    BY <1>4, <2>2, CursorTyped DEF Onto
  <2>4. /\ Sampled(c, byte).opcode = byte /\ Sampled(c, byte).pending = c.pending
        /\ Sampled(c, byte).prefix = c.prefix /\ Sampled(c, byte).index = c.index
    BY <1>1, <2>1 DEF Shaped, CpuFields, WordFields, ByteFields, FlagFields
  <2> QED BY <2>3, <2>4
<1>6. ASSUME ~Fetching(c)
      PROVE  /\ Onto(c, Sampled(c, byte)) /\ Sampled(c, byte).cycle = c.cycle
             /\ Sampled(c, byte).cycle_limit = c.cycle_limit
  <2>1. Kind(c) # "m1_fetch"
    BY <1>6, KindOfCycle
  <2>2. Sampled(c, byte) \in {c, Put(c, "r", r), Put(c, "bus_data", byte),
                              Put(Put(c, "r", r), "bus_data", byte)}
    BY <1>3, <2>1 DEF Sampled, Put
  <2>3. \A d \in {c, Put(c, "r", r), Put(c, "bus_data", byte),
              Put(Put(c, "r", r), "bus_data", byte)} :
          d.cycle = c.cycle /\ d.cycle_limit = c.cycle_limit
    BY <1>1 DEF Put, Shaped, CpuFields, ByteFields
  <2> QED BY <1>4, <2>2, <2>3
<1> QED BY <1>5, <1>6

(* The end of a machine cycle. *)
LEMMA EndedFetch ==
  ASSUME NEW c, Typed(c), Placed(c), NEW byte \in Byte, Fetching(c)
  PROVE  LET e == Ended(c, byte)
         IN /\ Typed(e) /\ e.prefix = c.prefix /\ e.index = c.index /\ e.pending = c.pending
            /\ e.opcode = byte /\ e.instr = Decode(byte, c.prefix, c.index)
            /\ e.instr \in Instrs \ InterruptSequences
            /\ e.cycle = 0 /\ e.cycle_limit = Len(CyclesOf[e.instr])
            /\ e.instr = "prefix" => /\ c.prefix = 0 /\ byte \in {CB, DD, ED, FD}
                                     /\ c.index # 0 => byte # CB
            /\ e.instr = "cb_mem" => X(byte) # 1
            /\ e.index # 0 => e.instr \in Substituted \union IndexedInstrs
                                            \union {"prefix", "ex_de_hl", "exx"}
<1> DEFINE s == Sampled(c, byte)
           n == Decode(byte, c.prefix, c.index)
           e == Ended(c, byte)
<1>1. /\ Typed(s) /\ s.opcode = byte /\ s.pending = c.pending
      /\ s.prefix = c.prefix /\ s.index = c.index
  BY SampledTyped
<1>2. c.prefix \in {0, CB, ED} /\ c.index \in {0, DD, FD}
  BY DEF Typed
<1>3. /\ n \in Instrs \ InterruptSequences
      /\ n = "prefix" => c.prefix = 0 /\ byte \in {CB, DD, ED, FD} /\ (c.index # 0 => byte # CB)
      /\ n = "cb_mem" => X(byte) # 1
  BY <1>2, DecodeType, CbMemNoBit
<1>4. c.index # 0 => n \in Substituted \union IndexedInstrs \union {"prefix", "ex_de_hl", "exx"}
  <2>1. ASSUME c.index # 0
        PROVE  n = DecodeIndexed(byte)
    BY <2>1 DEF Placed, Decode, CB, ED
  <2> QED BY <2>1, IndexedOrBase
<1>5. Len(CyclesOf[n]) \in Nat
  BY <1>3, ShapeType
<1>6. e = Put(Put(Put(s, "instr", n), "cycle", 0), "cycle_limit", Len(CyclesOf[n]))
  BY DEF Ended, Put
<1> HIDE DEF s, n
<1>7. Typed(e)
  <2>1. Typed(Put(s, "instr", n))
    BY <1>1, <1>3, CursorTyped
  <2>2. Typed(Put(Put(s, "instr", n), "cycle", 0))
    BY <2>1, CursorTyped
  <2> QED BY <1>5, <1>6, <2>2, CursorTyped
<1>8. /\ e.prefix = s.prefix /\ e.index = s.index /\ e.pending = s.pending /\ e.opcode = s.opcode
      /\ e.instr = n /\ e.cycle = 0 /\ e.cycle_limit = Len(CyclesOf[n])
  BY <1>1, <1>6, Fields DEF Put, Shaped, CpuFields, FlagFields, ByteFields
<1> QED BY <1>1, <1>3, <1>4, <1>7, <1>8 DEF n

LEMMA EndedCycle ==
  ASSUME NEW c, Typed(c), Placed(c), NEW byte \in Byte, ~Fetching(c)
  PROVE  LET e == Ended(c, byte)
         IN /\ Typed(e) /\ e.prefix = c.prefix /\ e.index = c.index
            /\ e.instr = c.instr /\ e.instr \in Instrs
            /\ e.cycle = c.cycle + 1 /\ e.cycle_limit <= Len(CyclesOf[e.instr])
            /\ e.instr = "cb_mem" => X(e.opcode) # 1
<1>1. PICK s : s = Sampled(c, byte)
  OBVIOUS
<1>2. Onto(c, s) /\ s.cycle = c.cycle /\ s.cycle_limit = c.cycle_limit
  BY <1>1, SampledTyped
<1>3. /\ s.instr = c.instr /\ s.prefix = c.prefix /\ s.index = c.index /\ s.opcode = c.opcode
      /\ Typed(s)
  BY <1>2 DEF Onto, Cursor
<1>4. PICK h : h = HooksAt(c)[2]
  OBVIOUS
<1>5. /\ h \in ExitHooks /\ (h = "cb_bus" => c.instr = "cb_mem")
      /\ (h = "latch_operation" => c.instr = "index_cb")
  BY <1>4, KindOfCycle DEF HooksFor
<1>6. PICK x : x = Exit(h, s)
  OBVIOUS
<1>7. /\ Typed(x) /\ x.instr = c.instr /\ x.prefix = c.prefix /\ x.index = c.index
      /\ x.cycle = c.cycle /\ x.cycle_limit \in {c.cycle_limit, c.cycle + 1}
      /\ x.instr = "cb_mem" => x.opcode = c.opcode
  <2>1. CASE h = "latch_operation"
    <3>0. Exit("latch_operation", s) = [s EXCEPT !.opcode = s.bus_data]
      BY DEF Exit, CollectHook, CollectHooks, BranchHooks, VectorHooks, ByteHooks, BlockHooks
    <3>1. x = Put(s, "opcode", s.bus_data) /\ s.bus_data \in Byte
      BY <1>3, <1>6, <2>1, <3>0, Operands DEF Put
    <3>2. Typed(x)
      BY <1>3, <3>1, CursorTyped
    <3>3. /\ x.instr = s.instr /\ x.prefix = s.prefix /\ x.index = s.index
          /\ x.cycle = s.cycle /\ x.cycle_limit = s.cycle_limit
      BY <1>3, <3>1, Fields DEF Put, Shaped, CpuFields, ByteFields
    <3> QED BY <1>2, <1>3, <1>5, <2>1, <3>2, <3>3
  <2>2. CASE h # "latch_operation"
    <3>1. h = "cb_bus" => X(s.opcode) # 1
      BY <1>3, <1>5 DEF Placed
    <3>2. Onto(s, x)
      BY <1>3, <1>5, <1>6, <2>2, <3>1, ExitTyped
    <3> QED BY <1>2, <1>3, <3>2 DEF Onto, Cursor
  <2> QED BY <2>1, <2>2
<1>8. Ended(c, byte) = Put(x, "cycle", x.cycle + 1)
  BY <1>1, <1>4, <1>6 DEF Ended, Put
<1>9. c.cycle \in Nat /\ c.cycle_limit \in Nat /\ c.instr \in Instrs
  BY DEF Typed, Fetching
<1>10. Typed(Ended(c, byte))
  BY <1>7, <1>8, <1>9, CursorTyped
<1>11. /\ Ended(c, byte).prefix = x.prefix /\ Ended(c, byte).index = x.index
       /\ Ended(c, byte).instr = x.instr /\ Ended(c, byte).opcode = x.opcode
       /\ Ended(c, byte).cycle = x.cycle + 1 /\ Ended(c, byte).cycle_limit = x.cycle_limit
  BY <1>7, <1>8, Fields DEF Put, Shaped, CpuFields, ByteFields
<1>12. Len(CyclesOf[c.instr]) \in Nat
  BY <1>9, ShapeType
<1> QED BY <1>7, <1>9, <1>10, <1>11, <1>12 DEF Placed

(* And what both have in common. *)
LEMMA EndedTyped ==
  ASSUME NEW c, Typed(c), Placed(c), NEW byte \in Byte
  PROVE  LET e == Ended(c, byte)
         IN /\ Typed(e) /\ e.prefix = c.prefix /\ e.index = c.index /\ e.instr \in Instrs
            /\ e.cycle_limit <= Len(CyclesOf[e.instr])
            /\ e.instr = "cb_mem" => X(e.opcode) # 1
            /\ e.index # 0 => e.instr \in Substituted \union IndexedInstrs
                                            \union {"prefix", "ex_de_hl", "exx"}
            /\ e.instr \in InterruptSequences => e.cycle # 0
<1> PICK e : e = Ended(c, byte)
  OBVIOUS
<1>1. CASE Fetching(c)
  <2>1. /\ Typed(e) /\ e.prefix = c.prefix /\ e.index = c.index
        /\ e.opcode = byte
        /\ e.instr \in Instrs \ InterruptSequences
        /\ e.cycle_limit = Len(CyclesOf[e.instr])
        /\ e.instr = "cb_mem" => X(byte) # 1
        /\ e.index # 0 => e.instr \in Substituted \union IndexedInstrs
                                        \union {"prefix", "ex_de_hl", "exx"}
    BY <1>1, EndedFetch
  <2>2. Len(CyclesOf[e.instr]) \in Nat
    BY <2>1, ShapeType
  <2> QED BY <2>1, <2>2
<1>2. CASE ~Fetching(c)
  <2>1. c.cycle \in Nat /\ c.cycle + 1 # 0
    BY DEF Typed
  <2>2. /\ Typed(e) /\ e.prefix = c.prefix /\ e.index = c.index
        /\ e.instr = c.instr /\ e.instr \in Instrs
        /\ e.cycle = c.cycle + 1 /\ e.cycle_limit <= Len(CyclesOf[e.instr])
        /\ e.instr = "cb_mem" => X(e.opcode) # 1
    BY <1>2, EndedCycle
  <2> QED BY <1>2, <2>1, <2>2 DEF Placed
<1> QED BY <1>1, <1>2

(* An instruction goes on only while it has cycles. *)
LEMMA BegunTyped ==
  ASSUME NEW c, Typed(c), Placed(c), NEW byte \in Byte, GoesOn(Ended(c, byte))
  PROVE  LET d == Begun(Ended(c, byte))
         IN /\ Typed(d) /\ Placed(d) /\ ~Fetching(d) /\ d.prefix = c.prefix /\ d.index = c.index
            /\ d.instr \in InterruptSequences => d.cycle # 0
<1>1. PICK e : e = Ended(c, byte)
  OBVIOUS
<1>2. /\ Typed(e) /\ e.prefix = c.prefix /\ e.index = c.index /\ e.instr \in Instrs
      /\ e.cycle < e.cycle_limit /\ e.cycle_limit <= Len(CyclesOf[e.instr])
      /\ e.instr = "cb_mem" => X(e.opcode) # 1
      /\ e.index # 0 => e.instr \in Substituted \union IndexedInstrs
                                      \union {"prefix", "ex_de_hl", "exx"}
      /\ e.instr \in InterruptSequences => e.cycle # 0
  BY <1>1, EndedTyped DEF GoesOn
<1>3. e.cycle \in Nat /\ e.cycle_limit \in Nat /\ Len(CyclesOf[e.instr]) \in Nat
  BY <1>2, ShapeType DEF Typed
<1>4. e.instr # NoInstr
  BY <1>2 DEF NoInstr, Instrs, FetchOnly, IndexedInstrs, EdInstrs, BlockInstrs, LoadInstrs,
              ArithmeticInstrs, ControlInstrs, InterruptSequences
<1>5. e.instr \notin {"prefix", "ex_de_hl", "exx"}
  <2>1. \A n \in FetchOnly : Len(CyclesOf[n]) = 0
    <3>1. \A n \in FetchOnly : n \in Instrs
      BY DEF Instrs
    <3>2. \A n \in FetchOnly : CyclesOf[n] = << >>
      BY <3>1, GroupCycles
    <3> QED BY <3>2
  <2> QED BY <1>2, <1>3, <2>1 DEF FetchOnly
<1>6. HooksAt(e)[1] \in EnterHooks
  <2>1. e.cycle < Len(CyclesOf[e.instr])
    BY <1>2, <1>3
  <2> QED BY <1>2, <1>3, <2>1, HooksType DEF HooksAt, HooksFor
<1>7. Begun(e) = Enter(HooksAt(e)[1], e)
  BY DEF Begun
<1>8. PICK d : d = Begun(e)
  OBVIOUS
<1>9. Onto(e, d)
  BY <1>2, <1>6, <1>7, <1>8, EnterTyped
<1>10. /\ Typed(d) /\ d.instr = e.instr /\ d.cycle = e.cycle /\ d.prefix = e.prefix
       /\ d.index = e.index /\ d.opcode = e.opcode
       /\ d.cycle_limit = e.cycle_limit \/ d.cycle_limit = e.cycle + 1
  BY <1>9 DEF Onto, Cursor
<1>11. d.cycle < d.cycle_limit /\ d.cycle_limit <= Len(CyclesOf[d.instr])
  BY <1>2, <1>3, <1>10
<1>12. d.prefix # 0 => d.index = 0
  BY <1>2, <1>10 DEF Placed
<1>13. ~Fetching(d)
  BY <1>4, <1>10 DEF Fetching
<1>14. Placed(d)
  BY <1>2, <1>5, <1>10, <1>11, <1>12, <1>13 DEF Placed
<1> QED BY <1>1, <1>2, <1>8, <1>10, <1>13, <1>14

(* What the core is at the boundary of an instruction. *)
LEMMA FinishedTyped ==
  ASSUME NEW e, Typed(e), e.instr # "prefix", NEW nmi \in BOOLEAN, NEW int
  PROVE  LET d == Finished(Pinned(e, nmi), int)
         IN /\ Typed(d) /\ d.instr = NoInstr /\ d.cycle = 0 /\ d.cycle_limit = 0
            /\ d.prefix = 0 /\ d.index = 0 /\ d.pending = {}
<1>1. PICK p : p = Pinned(e, nmi)
  OBVIOUS
<1>2. Typed(p) /\ p.instr = e.instr
  <2>1. PICK b \in BOOLEAN : b = (e.nmi_latched \/ nmi)
    OBVIOUS
  <2>2. p = Put(e, "nmi_latched", b)
    BY <1>1, <2>1 DEF Pinned, Put
  <2> QED BY <2>2, OntoItself, OntoPut, FieldNames DEF Onto, Cursor
<1>3. PICK x : x = Execute(p.instr, p, int)
  OBVIOUS
<1>4. Typed(x)
  BY <1>2, <1>3, ExecuteTyped DEF Onto
<1>5. PICK y : y = BackToFetch(x)
  OBVIOUS
<1>6. /\ Typed(y) /\ y.instr = NoInstr /\ y.cycle = 0 /\ y.cycle_limit = 0
      /\ y.pending = x.pending
  <2>1. y = Put(Put(Put(x, "instr", NoInstr), "cycle", 0), "cycle_limit", 0)
    BY <1>5 DEF BackToFetch, Put
  <2>2. NoInstr \in Instrs \union {NoInstr} /\ 0 \in Nat
    OBVIOUS
  <2>3. Typed(Put(Put(x, "instr", NoInstr), "cycle", 0))
    BY <1>4, <2>2, CursorTyped
  <2>4. Typed(y)
    BY <2>1, <2>2, <2>3, CursorTyped
  <2> QED BY <1>4, <2>1, <2>4, Fields DEF Put, Shaped, CpuFields, FlagFields
<1>7. PICK f \in SUBSET Alu!Flags : f = x.pending
  BY <1>4, Fields, FieldNames
<1>8. PICK d : d = Finished(Pinned(e, nmi), int)
  OBVIOUS
<1>9. d = Put(Put(Put(Put(y, "prefix", 0), "index", 0), "q", f), "pending", {})
  BY <1>1, <1>3, <1>5, <1>7, <1>8 DEF Finished, Put
<1>10. PICK z : z = Put(Put(y, "prefix", 0), "index", 0)
  OBVIOUS
<1>11. Typed(z)
  BY <1>6, <1>10, CursorTyped
<1>12. Typed(d)
  BY <1>9, <1>10, <1>11, OntoItself, OntoPut DEF Onto, FlagFields
<1>13. /\ d.instr = y.instr /\ d.cycle = y.cycle /\ d.cycle_limit = y.cycle_limit
       /\ d.prefix = 0 /\ d.index = 0 /\ d.pending = {}
  BY <1>6, <1>9, Fields DEF Put, Shaped, CpuFields, FlagFields
<1> QED BY <1>6, <1>8, <1>12, <1>13

(* A prefix comes to the next fetch. *)
LEMMA PrefixTyped ==
  ASSUME NEW c, Typed(c), Placed(c), NEW byte \in Byte, Ended(c, byte).instr = "prefix"
  PROVE  LET d == BackToFetch(execute_prefix(Ended(c, byte)))
         IN /\ Fetching(c) /\ Typed(d) /\ Placed(d) /\ Fetching(d) /\ d.pending = c.pending
<1>1. Fetching(c)
  <2> SUFFICES ASSUME ~Fetching(c) PROVE FALSE
    OBVIOUS
  <2>1. c.instr = "prefix" /\ c.cycle \in Nat /\ c.cycle_limit \in Nat
    BY EndedCycle DEF Typed
  <2>2. "prefix" \in Instrs /\ "prefix" \in FetchOnly
    BY DEF Instrs, FetchOnly
  <2>3. CyclesOf["prefix"] = << >>
    BY <2>2, GroupCycles
  <2> QED BY <2>1, <2>3 DEF Placed
<1>2. PICK e : e = Ended(c, byte)
  OBVIOUS
<1>3. /\ Typed(e) /\ e.opcode = byte /\ e.instr = "prefix" /\ e.pending = c.pending
      /\ e.prefix = 0 /\ e.index = c.index /\ byte \in {CB, DD, ED, FD}
         /\ (e.index # 0 => byte # CB)
  BY <1>1, <1>2, EndedFetch
<1>4. PICK x : x = execute_prefix(e)
  OBVIOUS
<1>5. Typed(x) /\ x.pending = e.pending /\ (x.prefix # 0 => x.index = 0)
  <2>1. CASE byte \in {DD, FD}
    <3>0. x = [e EXCEPT !.index = e.opcode, !.prefix = 0]
      BY <1>3, <1>4, <2>1 DEF execute_prefix, CB, DD, ED, FD
    <3>1. x = Put(Put(e, "index", byte), "prefix", 0)
      BY <1>3, <3>0 DEF Put
    <3>2. Typed(Put(e, "index", byte))
      BY <1>3, <2>1, CursorTyped
    <3>3. Typed(x)
      BY <3>1, <3>2, CursorTyped
    <3> QED BY <1>3, <3>1, <3>3, Fields DEF Put, Shaped, CpuFields, FlagFields
  <2>2. CASE byte = ED
    <3>0. x = [e EXCEPT !.index = 0, !.prefix = ED]
      BY <1>3, <1>4, <2>2 DEF execute_prefix, CB, DD, ED, FD
    <3>1. x = Put(Put(e, "index", 0), "prefix", ED)
      BY <3>0 DEF Put
    <3>2. Typed(Put(e, "index", 0))
      BY <1>3, CursorTyped
    <3>3. Typed(x)
      BY <3>1, <3>2, CursorTyped
    <3> QED BY <1>3, <3>1, <3>3, Fields DEF Put, Shaped, CpuFields, FlagFields
  <2>3. CASE byte = CB
    <3>1. x = Put(e, "prefix", CB)
      BY <1>3, <1>4, <2>3 DEF execute_prefix, Put, CB, DD, ED, FD
    <3>2. Typed(x)
      BY <1>3, <3>1, CursorTyped
    <3> QED BY <1>3, <2>3, <3>1, <3>2, Fields DEF Put, Shaped, CpuFields, FlagFields
  <2> QED BY <1>3, <2>1, <2>2, <2>3
<1>6. PICK d : d = BackToFetch(x)
  OBVIOUS
<1>7. d = Put(Put(Put(x, "instr", NoInstr), "cycle", 0), "cycle_limit", 0)
  BY <1>6 DEF BackToFetch, Put
<1>8. Typed(d)
  <2>1. NoInstr \in Instrs \union {NoInstr} /\ 0 \in Nat
    OBVIOUS
  <2>2. Typed(Put(Put(x, "instr", NoInstr), "cycle", 0))
    BY <1>5, <2>1, CursorTyped
  <2> QED BY <1>7, <2>1, <2>2, CursorTyped
<1>9. /\ d.instr = NoInstr /\ d.cycle = 0 /\ d.cycle_limit = 0
      /\ d.prefix = x.prefix /\ d.index = x.index /\ d.pending = x.pending
  BY <1>5, <1>7, Fields DEF Put, Shaped, CpuFields, FlagFields
<1>10. Fetching(d)
  BY <1>9 DEF Fetching
<1>11. Placed(d)
  BY <1>5, <1>9, <1>10 DEF Placed, NoInstr
<1> QED BY <1>1, <1>2, <1>3, <1>4, <1>5, <1>6, <1>8, <1>9, <1>10, <1>11

-----------------------------------------------------------------------------
(* What the bus carries, and what memory keeps, are bytes. *)
LEMMA BytesOnTheBus ==
  ASSUME Typed(cpu), ByteMemory(memory)
  PROVE  BusBytes \subseteq Byte
<1>1. Address(cpu) \in Word /\ cpu.bus_data \in Byte
  BY Operands DEF Address
<1>2. ASSUME NEW w \in Word
      PROVE  ByteAt(w) \in Byte
  <2>1. PICK high \in Byte, low \in Byte : w = 256 * high + low
    <3>1. High(w) \in Byte /\ Low(w) \in Byte
      BY Widths, 0 \in Byte DEF Byte
    <3>2. w = 256 * High(w) + Low(w)
      BY DEF Word, Alu!Word, High, Low
    <3> QED BY <3>1, <3>2
  <2>2. Background(w) \in Byte
    BY <2>1, RegistersAssumption
  <2> QED BY <2>2 DEF ByteAt, ByteMemory
<1> QED BY <1>1, <1>2, RegistersAssumption DEF BusBytes

LEMMA StoresBytes ==
  ASSUME Typed(cpu), ByteMemory(memory), Stores
  PROVE  ByteMemory(memory')
<1>1. Address(cpu) \in Word /\ cpu.bus_data \in Byte
  BY Operands DEF Address
<1>2. CASE Kind(cpu) = "mem_write"
  <2>1. memory' = [address \in DOMAIN memory \union {Address(cpu)} |->
                     IF address = Address(cpu) THEN cpu.bus_data ELSE memory[address]]
    BY <1>2 DEF Stores
  <2> QED BY <1>1, <2>1 DEF ByteMemory, Word
<1>3. CASE Kind(cpu) # "mem_write"
  BY <1>3 DEF Stores
<1> QED BY <1>2, <1>3

-----------------------------------------------------------------------------
(* The inductive invariant: besides types, where the cursor is; and that    *)
(* between two instructions no flags wait for Q, unless a RESET has left    *)
(* them there.                                                             *)
EventsOK == events \in [left : Nat, nmi : Nat, int : Nat, resets : Nat, debug : Nat]

AtRest(c) == Fetching(c) \/ (c.instr \in InterruptSequences /\ c.cycle = 0)
QSettled  == AtRest(cpu) => cpu.pending = {} \/ cut

CoreInv == Typed(cpu) /\ Placed(cpu) /\ ByteMemory(memory) /\ EventsOK /\ QSettled

LEMMA InitInv == Init => CoreInv
<1> SUFFICES ASSUME Init PROVE CoreInv
  OBVIOUS
<1>1. PICK world \in Worlds :
        cpu = AtFetch(world.registers) /\ memory = world.program /\ events = world.bounds
  BY DEF Init, Starts
<1>2. /\ Typed(cpu) /\ ByteMemory(memory) /\ EventsOK
      /\ \A field \in {"prefix", "index", "instr", "cycle", "cycle_limit", "pending"} :
           cpu[field] = NewRegisters[field]
  BY <1>1, WorldsAssumption DEF EventsOK
<1>3. /\ cpu.prefix = 0 /\ cpu.index = 0 /\ cpu.instr = NoInstr /\ cpu.cycle = 0
      /\ cpu.cycle_limit = 0 /\ cpu.pending = {}
  BY <1>2 DEF NewRegisters
<1>4. Placed(cpu) /\ QSettled
  BY <1>3 DEF Placed, QSettled, Fetching, NoInstr
<1> QED BY <1>2, <1>4 DEF CoreInv

(* The host's pins, and the instruction counted. *)
LEMMA RaisesTyped ==
  ASSUME EventsOK, NEW nmi \in BOOLEAN, NEW int \in BOOLEAN, NEW byte, Completes(byte, nmi, int)
  PROVE  EventsOK' /\ events'.left < events.left
<1>1. /\ events.left \in Nat /\ events.nmi \in Nat /\ events.int \in Nat
      /\ events.resets \in Nat /\ events.debug \in Nat
      /\ events.left > 0 /\ (nmi => events.nmi > 0) /\ (int => events.int > 0)
  BY DEF EventsOK, Completes, Raises
<1>2. events' = [events EXCEPT !.nmi = IF nmi THEN @ - 1 ELSE @,
                               !.int = IF int THEN @ - 1 ELSE @, !.left = @ - 1]
  BY DEF Completes, Raises
<1>3. events' = [left |-> events.left - 1, nmi |-> IF nmi THEN events.nmi - 1 ELSE events.nmi,
                 int |-> IF int THEN events.int - 1 ELSE events.int,
                 resets |-> events.resets, debug |-> events.debug]
  BY <1>2 DEF EventsOK
<1> QED BY <1>1, <1>3 DEF EventsOK

(* Leaving HALT. *)
LEMMA WokenTyped ==
  ASSUME NEW d, Typed(d), NEW w, w = wake_from_halt(d)
  PROVE  Onto(d, w) /\ Typed(w) /\ w.pending = d.pending
<1>1. CASE d.halted
  <2>1. w = Put(Put(d, "halted", FALSE), "pc", Plus(d.pc, 1))
    BY <1>1, Fields DEF wake_from_halt, Put, Shaped, CpuFields, BoolFields
  <2>2. Onto(d, w)
    BY <2>1, Operands, OntoItself, OntoPut, FieldNames
  <2> QED BY <2>1, <2>2, Fields DEF Onto, Put, Shaped, CpuFields, FlagFields
<1>2. CASE ~d.halted
  BY <1>2, OntoItself DEF wake_from_halt
<1> QED BY <1>1, <1>2 DEF Onto

(* What an accepted interrupt leaves of the core. *)
LEMMA AcceptedTyped ==
  ASSUME NEW d, Typed(d), d.prefix = 0, d.index = 0, NEW p \in BOOLEAN, NEW q \in BOOLEAN,
         NEW l \in BOOLEAN, NEW n \in InterruptSequences, NEW x,
         x = Put(Put(Put(wake_from_halt(d), "nmi_latched", l), "iff2", p), "iff1", q)
  PROVE  /\ Typed(begin_interrupt(x, n)) /\ Placed(begin_interrupt(x, n))
         /\ begin_interrupt(x, n).pending = d.pending
<1>1. PICK w : w = wake_from_halt(d)
  OBVIOUS
<1>2. Onto(d, w) /\ w.pending = d.pending
  BY <1>1, WokenTyped
<1>3. Onto(d, x) /\ x.pending = d.pending
  <2>1. Onto(d, x)
    BY <1>1, <1>2, OntoPut, FieldNames
  <2>2. x.pending = w.pending
    BY <1>1, <1>2, Fields DEF Onto, Put, Shaped, CpuFields, FlagFields
  <2> QED BY <1>2, <2>1, <2>2
<1>4. Typed(x) /\ x.prefix = 0 /\ x.index = 0
  BY <1>3 DEF Onto, Cursor
<1>5. n \in Instrs /\ Len(CyclesOf[n]) \in Nat /\ Len(CyclesOf[n]) >= 1 /\ n # NoInstr
      /\ n # "cb_mem"
  BY ShapeType DEF Instrs, InterruptSequences, NoInstr
<1>6. PICK b : b = begin_interrupt(x, n)
  OBVIOUS
<1>7. b = Put(Put(Put(Put(x, "instr", n), "cycle", 0), "cycle_limit", Len(CyclesOf[n])),
              "int_inhibit", FALSE)
  BY <1>6 DEF begin_interrupt, Put
<1>8. Typed(b)
  <2>1. Typed(Put(x, "instr", n))
    BY <1>4, <1>5, CursorTyped
  <2>2. Typed(Put(Put(x, "instr", n), "cycle", 0))
    BY <2>1, CursorTyped
  <2>3. PICK y : y = Put(Put(Put(x, "instr", n), "cycle", 0), "cycle_limit", Len(CyclesOf[n]))
    OBVIOUS
  <2>4. Typed(y)
    BY <1>5, <2>2, <2>3, CursorTyped
  <2> QED BY <1>7, <2>3, <2>4, OntoItself, OntoPut, FieldNames DEF Onto
<1>9. /\ b.instr = n /\ b.cycle = 0 /\ b.cycle_limit = Len(CyclesOf[n])
      /\ b.prefix = x.prefix /\ b.index = x.index /\ b.pending = x.pending
  <2>1. Shaped(x)
    BY <1>4, Fields
  <2>2. PICK y : y = Put(Put(x, "instr", n), "cycle", 0)
    OBVIOUS
  <2>3. /\ Shaped(y) /\ y.instr = n /\ y.cycle = 0
        /\ y.prefix = x.prefix /\ y.index = x.index /\ y.pending = x.pending
    BY <2>1, <2>2 DEF Put, Shaped, CpuFields, FlagFields
  <2>4. b = Put(Put(y, "cycle_limit", Len(CyclesOf[n])), "int_inhibit", FALSE)
    BY <1>7, <2>2
  <2> QED BY <2>3, <2>4 DEF Put, Shaped, CpuFields, FlagFields, BoolFields
<1>10. Placed(b)
  BY <1>4, <1>5, <1>9 DEF Placed, Fetching
<1> QED BY <1>3, <1>6, <1>8, <1>9, <1>10

-----------------------------------------------------------------------------
(* F is on the stack, and in a debugger, as a byte: nothing is lost of it.  *)
LEMMA BitsRead ==
  ASSUME NEW b7 \in {0, 1}, NEW b6 \in {0, 1}, NEW b5 \in {0, 1}, NEW b4 \in {0, 1},
         NEW b3 \in {0, 1}, NEW b2 \in {0, 1}, NEW b1 \in {0, 1}, NEW b0 \in {0, 1}, NEW v,
         v = 128 * b7 + 64 * b6 + 32 * b5 + 16 * b4 + 8 * b3 + 4 * b2 + 2 * b1 + b0
  PROVE  /\ (v \div 128) % 2 = b7 /\ (v \div 64) % 2 = b6 /\ (v \div 32) % 2 = b5
         /\ (v \div 16) % 2 = b4 /\ (v \div 8) % 2 = b3 /\ (v \div 4) % 2 = b2
         /\ (v \div 2) % 2 = b1 /\ (v \div 1) % 2 = b0
<1>1. v \div 128 = b7 /\ v \div 64 = 2 * b7 + b6
  OBVIOUS
<1>2. v \div 32 = 4 * b7 + 2 * b6 + b5 /\ v \div 16 = 8 * b7 + 4 * b6 + 2 * b5 + b4
  OBVIOUS
<1>3. v \div 8 = 16 * b7 + 8 * b6 + 4 * b5 + 2 * b4 + b3
  OBVIOUS
<1>4. v \div 4 = 32 * b7 + 16 * b6 + 8 * b5 + 4 * b4 + 2 * b3 + b2
  OBVIOUS
<1>5. v \div 2 = 64 * b7 + 32 * b6 + 16 * b5 + 8 * b4 + 4 * b3 + 2 * b2 + b1 /\ v \div 1 = v
  OBVIOUS
<1>6. \A n \in Nat, b \in {0, 1} : (2 * n + b) % 2 = b
  OBVIOUS
<1>7. b7 % 2 = b7 /\ (v \div 64) % 2 = b6
  BY <1>1, <1>6
<1>8. (v \div 32) % 2 = b5
  <2>1. v \div 32 = 2 * (2 * b7 + b6) + b5
    BY <1>2
  <2> QED BY <2>1, <1>6
<1>9. (v \div 16) % 2 = b4
  <2>1. v \div 16 = 2 * (4 * b7 + 2 * b6 + b5) + b4
    BY <1>2
  <2> QED BY <2>1, <1>6
<1>10. (v \div 8) % 2 = b3
  <2>1. v \div 8 = 2 * (8 * b7 + 4 * b6 + 2 * b5 + b4) + b3
    BY <1>3
  <2> QED BY <2>1, <1>6
<1>11. (v \div 4) % 2 = b2
  <2>1. v \div 4 = 2 * (16 * b7 + 8 * b6 + 4 * b5 + 2 * b4 + b3) + b2
    BY <1>4
  <2> QED BY <2>1, <1>6
<1>12. (v \div 2) % 2 = b1
  <2>1. v \div 2 = 2 * (32 * b7 + 16 * b6 + 8 * b5 + 4 * b4 + 2 * b3 + b2) + b1
    BY <1>5
  <2> QED BY <2>1, <1>6
<1>13. (v \div 1) % 2 = b0
  <2>1. v \div 1 = 2 * (64 * b7 + 32 * b6 + 16 * b5 + 8 * b4 + 4 * b3 + 2 * b2 + b1) + b0
    BY <1>5
  <2> QED BY <2>1, <1>6
<1> QED BY <1>1, <1>7, <1>8, <1>9, <1>10, <1>11, <1>12, <1>13

LEMMA FlagsReadBack == ASSUME NEW f \in SUBSET Alu!Flags PROVE FlagsOf(FlagsByte(f)) = f
<1>1. PICK bit : bit = [flag \in Alu!Flags |-> IF flag \in f THEN 1 ELSE 0]
  OBVIOUS
<1>2. /\ bit["S"] \in {0, 1} /\ bit["Z"] \in {0, 1} /\ bit["Y"] \in {0, 1} /\ bit["H"] \in {0, 1}
      /\ bit["X"] \in {0, 1} /\ bit["PV"] \in {0, 1} /\ bit["N"] \in {0, 1} /\ bit["C"] \in {0, 1}
  BY <1>1 DEF Alu!Flags
<1>3. PICK w : w = {FlagBit[flag] : flag \in f}
  OBVIOUS
<1>4. /\ (128 \in w) = ("S" \in f) /\ (64 \in w) = ("Z" \in f) /\ (32 \in w) = ("Y" \in f)
      /\ (16 \in w) = ("H" \in f)  /\ (8 \in w) = ("X" \in f)  /\ (4 \in w) = ("PV" \in f)
      /\ (2 \in w) = ("N" \in f)   /\ (1 \in w) = ("C" \in f)
  <2>1. \A x : x \in w <=> \E flag \in f : x = FlagBit[flag]
    BY <1>3
  <2> QED BY <2>1 DEF FlagBit, Alu!Flags
<1>5. FlagsByte(f) = 128 * bit["S"] + 64 * bit["Z"] + 32 * bit["Y"] + 16 * bit["H"]
                     + 8 * bit["X"] + 4 * bit["PV"] + 2 * bit["N"] + bit["C"]
  <2>1. FlagsByte(f) = Alu!FromBits(w)
    BY <1>3 DEF FlagsByte
  <2>2. \A flag \in Alu!Flags, n \in Nat : (IF flag \in f THEN n ELSE 0) = n * bit[flag]
    BY <1>1
  <2>3. /\ (IF 128 \in w THEN 128 ELSE 0) = 128 * bit["S"]
        /\ (IF 64 \in w THEN 64 ELSE 0) = 64 * bit["Z"]
        /\ (IF 32 \in w THEN 32 ELSE 0) = 32 * bit["Y"]
        /\ (IF 16 \in w THEN 16 ELSE 0) = 16 * bit["H"]
        /\ (IF 8 \in w THEN 8 ELSE 0) = 8 * bit["X"]
        /\ (IF 4 \in w THEN 4 ELSE 0) = 4 * bit["PV"]
        /\ (IF 2 \in w THEN 2 ELSE 0) = 2 * bit["N"]
        /\ (IF 1 \in w THEN 1 ELSE 0) = bit["C"]
    BY <1>2, <1>4, <2>2 DEF Alu!Flags
  <2> QED BY <2>1, <2>3, <1>2 DEF Alu!FromBits
<1>6. \A flag \in Alu!Flags : (FlagsByte(f) \div FlagBit[flag]) % 2 = bit[flag]
  BY <1>2, <1>5, BitsRead DEF FlagBit, Alu!Flags
<1>7. \A flag \in Alu!Flags : Alu!Has(FlagsByte(f), FlagBit[flag]) <=> flag \in f
  BY <1>1, <1>6 DEF Alu!Has
<1> QED BY <1>7 DEF FlagsOf

LEMMA PairReadBack ==
  ASSUME NEW a \in Byte, NEW f \in SUBSET Alu!Flags
  PROVE  /\ High(256 * a + FlagsByte(f)) = a /\ FlagsOf(Low(256 * a + FlagsByte(f))) = f
<1>1. FlagsByte(f) \in Byte
  BY BitsTyped DEF FlagsByte
<1>2. \A x, y \in 0 .. 255 : (256 * x + y) \div 256 = x /\ (256 * x + y) % 256 = y
  OBVIOUS
<1> QED BY <1>1, <1>2, FlagsReadBack DEF High, Low, Byte

-----------------------------------------------------------------------------
(* Every step keeps the invariant. *)
LEMMA CyclesInv == CoreInv /\ (NextCycle \/ EndPrefix \/ EndPlain) /\ Observes => CoreInv'
<1> SUFFICES ASSUME CoreInv, NextCycle \/ EndPrefix \/ EndPlain, Observes
             PROVE  CoreInv'
  OBVIOUS
<1>1. /\ Typed(cpu) /\ Placed(cpu) /\ ByteMemory(memory) /\ EventsOK /\ QSettled
  BY DEF CoreInv
<1>2. BusBytes \subseteq Byte
  BY <1>1, BytesOnTheBus
<1>3. ASSUME NextCycle
      PROVE  CoreInv'
  <2>1. PICK byte \in BusBytes : /\ GoesOn(Ended(cpu, byte)) /\ cpu' = Begun(Ended(cpu, byte))
                                 /\ Stores /\ UNCHANGED events
    BY <1>3 DEF NextCycle
  <2>2. /\ Typed(cpu') /\ Placed(cpu') /\ ~Fetching(cpu')
        /\ cpu'.instr \in InterruptSequences => cpu'.cycle # 0
    BY <1>1, <1>2, <2>1, BegunTyped
  <2>3. ByteMemory(memory')
    BY <1>1, <2>1, StoresBytes
  <2>4. EventsOK' /\ QSettled'
    BY <1>1, <2>1, <2>2 DEF EventsOK, QSettled, AtRest
  <2> QED BY <2>2, <2>3, <2>4 DEF CoreInv
<1>4. ASSUME EndPrefix
      PROVE  CoreInv'
  <2>1. PICK byte \in BusBytes : /\ Ended(cpu, byte).instr = "prefix"
                                 /\ cpu' = BackToFetch(execute_prefix(Ended(cpu, byte)))
                                 /\ Stores /\ UNCHANGED events
    BY <1>4 DEF EndPrefix
  <2>2. /\ Fetching(cpu) /\ Typed(cpu') /\ Placed(cpu') /\ cpu'.pending = cpu.pending
    BY <1>1, <1>2, <2>1, PrefixTyped
  <2>3. ByteMemory(memory')
    BY <1>1, <2>1, StoresBytes
  <2>4. EventsOK' /\ ~Ends
    BY <1>1, <2>1 DEF EventsOK, Ends
  <2>5. cut' <=> cut
    BY <1>1, <2>4 DEF Observes
  <2>6. QSettled'
    BY <1>1, <2>2, <2>5 DEF QSettled, AtRest
  <2> QED BY <2>2, <2>3, <2>4, <2>6 DEF CoreInv
<1>5. ASSUME EndPlain
      PROVE  CoreInv'
  <2>1. PICK byte \in BusBytes, nmi \in BOOLEAN, int \in BOOLEAN :
          /\ Completes(byte, nmi, int)
          /\ cpu' = [Settled(byte, nmi, int) EXCEPT !.int_inhibit = FALSE]
    BY <1>5 DEF EndPlain
  <2>2. PICK c : c = Settled(byte, nmi, int)
    OBVIOUS
  <2>3. /\ Typed(c) /\ c.instr = NoInstr /\ c.cycle = 0 /\ c.cycle_limit = 0
        /\ c.prefix = 0 /\ c.index = 0 /\ c.pending = {}
    <3>1. Typed(Ended(cpu, byte)) /\ Ended(cpu, byte).instr # "prefix"
      BY <1>1, <1>2, <2>1, EndedTyped DEF Completes
    <3> QED BY <3>1, <2>2, FinishedTyped DEF Settled
  <2>4. cpu' = Put(c, "int_inhibit", FALSE)
    BY <2>1, <2>2 DEF Put
  <2>5. Onto(c, cpu') /\ cpu'.pending = {} /\ cpu'.cycle_limit = 0 /\ cpu'.cycle = 0
    <3>1. Onto(c, cpu')
      BY <2>3, <2>4, OntoItself, OntoPut, FieldNames, FALSE \in BOOLEAN
    <3>2. Shaped(c)
      BY <2>3, Fields
    <3> QED BY <2>3, <2>4, <3>1, <3>2 DEF Put, Shaped, CpuFields, FlagFields, BoolFields
  <2>6. /\ Typed(cpu') /\ cpu'.instr = NoInstr /\ cpu'.prefix = 0 /\ cpu'.index = 0
    BY <2>3, <2>5 DEF Onto, Cursor
  <2>7. Placed(cpu') /\ QSettled'
    BY <2>5, <2>6 DEF Placed, QSettled, Fetching, NoInstr
  <2>8. ByteMemory(memory') /\ EventsOK'
    BY <1>1, <2>1, StoresBytes, RaisesTyped DEF Completes
  <2> QED BY <2>6, <2>7, <2>8 DEF CoreInv
<1> QED BY <1>3, <1>4, <1>5

LEMMA AcceptsInv == CoreInv /\ (AcceptNmi \/ AcceptInt) => CoreInv'
<1> SUFFICES ASSUME CoreInv, AcceptNmi \/ AcceptInt
             PROVE  CoreInv'
  OBVIOUS
<1>1. /\ Typed(cpu) /\ Placed(cpu) /\ ByteMemory(memory) /\ EventsOK
  BY DEF CoreInv
<1>2. PICK byte \in BusBytes, nmi \in BOOLEAN, int \in BOOLEAN :
        /\ Completes(byte, nmi, int)
        /\ LET c == Settled(byte, nmi, int)
           IN \/ cpu' = begin_interrupt([wake_from_halt(c) EXCEPT
                          !.nmi_latched = FALSE, !.iff2 = c.iff1, !.iff1 = FALSE], "nmi")
              \/ cpu' = begin_interrupt([wake_from_halt(c) EXCEPT !.iff1 = FALSE, !.iff2 = FALSE],
                          IF c.im = 2 THEN "interrupt_mode2" ELSE "interrupt")
  BY DEF AcceptNmi, AcceptInt
<1>3. PICK c : c = Settled(byte, nmi, int)
  OBVIOUS
<1>4. /\ Typed(c) /\ c.prefix = 0 /\ c.index = 0 /\ c.pending = {}
  <2>1. Typed(Ended(cpu, byte)) /\ Ended(cpu, byte).instr # "prefix"
    BY <1>1, <1>2, BytesOnTheBus, EndedTyped DEF Completes
  <2> QED BY <2>1, <1>3, FinishedTyped DEF Settled
<1>5. PICK w : w = wake_from_halt(c)
  OBVIOUS
<1>6. \E n \in InterruptSequences, l \in BOOLEAN, p \in BOOLEAN, q \in BOOLEAN :
        cpu' = begin_interrupt(Put(Put(Put(w, "nmi_latched", l), "iff2", p), "iff1", q), n)
  <2>1. c.iff1 \in BOOLEAN
    BY <1>4 DEF Typed, BoolFields
  <2>2. CASE cpu' = begin_interrupt([w EXCEPT !.nmi_latched = FALSE, !.iff2 = c.iff1,
                                              !.iff1 = FALSE], "nmi")
    <3>1. cpu' = begin_interrupt(Put(Put(Put(w, "nmi_latched", FALSE), "iff2", c.iff1),
                                     "iff1", FALSE), "nmi")
      BY <2>2 DEF Put
    <3> QED BY <2>1, <3>1 DEF InterruptSequences
  <2>3. CASE cpu' = begin_interrupt([w EXCEPT !.iff1 = FALSE, !.iff2 = FALSE],
                                    IF c.im = 2 THEN "interrupt_mode2" ELSE "interrupt")
    <3>1. Typed(w)
      BY <1>4, <1>5, WokenTyped
    <3>2. w.nmi_latched \in BOOLEAN /\ Shaped(w)
      BY <3>1, Fields DEF BoolFields
    <3>3. [w EXCEPT !.iff1 = FALSE, !.iff2 = FALSE]
            = Put(Put(Put(w, "nmi_latched", w.nmi_latched), "iff2", FALSE), "iff1", FALSE)
      BY <3>2 DEF Put, Shaped, CpuFields, BoolFields
    <3> QED BY <2>3, <3>2, <3>3 DEF InterruptSequences
  <2> QED BY <1>2, <1>3, <1>5, <2>2, <2>3
<1>7. PICK n \in InterruptSequences, l \in BOOLEAN, p \in BOOLEAN, q \in BOOLEAN :
        cpu' = begin_interrupt(Put(Put(Put(w, "nmi_latched", l), "iff2", p), "iff1", q), n)
  BY <1>6
<1>8. PICK x : x = Put(Put(Put(w, "nmi_latched", l), "iff2", p), "iff1", q)
  OBVIOUS
<1>9. Typed(cpu') /\ Placed(cpu') /\ cpu'.pending = {}
  BY <1>4, <1>5, <1>7, <1>8, AcceptedTyped
<1>10. ByteMemory(memory') /\ EventsOK'
  BY <1>1, <1>2, StoresBytes, RaisesTyped DEF Completes
<1> QED BY <1>9, <1>10 DEF CoreInv, QSettled

LEMMA SetTyped ==
  ASSUME Typed(cpu), NEW which \in Named \union {"ir"}, NEW word \in Word,
         NEW d, d = z80_set(cpu, which, word)
  PROVE  Onto(cpu, d) /\ d.cycle_limit = cpu.cycle_limit /\ d.pending = cpu.pending
                      /\ d.cycle = cpu.cycle
<1>1. High(word) \in Byte /\ Low(word) \in Byte /\ FlagsOf(Low(word)) \in SUBSET Alu!Flags
  BY Widths, 0 \in Byte DEF FlagsOf, Byte
<1>2. Onto(cpu, cpu) /\ Shaped(cpu)
  BY OntoItself, Fields
<1>3. CASE which = "ir"
  <2>1. d = Put(Put(cpu, "i", High(word)), "r", Low(word))
    BY <1>3 DEF z80_set, Put
  <2>2. Onto(cpu, d)
    BY <1>1, <1>2, <2>1, OntoPut, FieldNames
  <2> QED BY <1>2, <2>1, <2>2 DEF Put, Shaped, CpuFields, ByteFields, FlagFields
<1>4. CASE which = "af"
  <2>1. d = Put(Put(cpu, "a", High(word)), "f", FlagsOf(Low(word)))
    BY <1>4 DEF z80_set, WithPair, Put
  <2>2. Onto(cpu, d)
    BY <1>1, <1>2, <2>1, OntoPut, FieldNames
  <2> QED BY <1>2, <2>1, <2>2 DEF Put, Shaped, CpuFields, ByteFields, FlagFields
<1>5. CASE which = "af_alt"
  <2>1. d = Put(cpu, "af_alt", [cpu.af_alt EXCEPT !.a = High(word), !.f = FlagsOf(Low(word))])
    BY <1>5 DEF z80_set, WithPair, Put
  <2>2. [cpu.af_alt EXCEPT !.a = High(word), !.f = FlagsOf(Low(word))]
          \in [a : Byte, f : SUBSET Alu!Flags]
    BY <1>1 DEF Typed
  <2>3. \A v \in [a : Byte, f : SUBSET Alu!Flags] : Onto(cpu, Put(cpu, "af_alt", v))
    BY <1>2, OntoOthers
  <2>4. Onto(cpu, d)
    BY <2>1, <2>2, <2>3
  <2> QED BY <1>2, <2>1, <2>4 DEF Put, Shaped, CpuFields, FlagFields
<1>6. CASE which \notin {"ir", "af", "af_alt"}
  <2>1. d = Put(cpu, which, word) /\ which \in WordFields
    BY <1>6 DEF z80_set, Put, Named, WordFields
  <2>2. Onto(cpu, d)
    BY <1>2, <2>1, OntoPut
  <2>3. which \notin {"cycle_limit", "pending", "cycle"} /\ which \in CpuFields
    BY <2>1 DEF WordFields, CpuFields
  <2> QED BY <1>2, <2>1, <2>2, <2>3 DEF Put, Shaped, CpuFields, FlagFields
<1> QED BY <1>3, <1>4, <1>5, <1>6

LEMMA ResetFields ==
  ASSUME Typed(cpu), NEW d, d = apply_reset(cpu)
  PROVE  /\ Typed(d) /\ d.pending = cpu.pending
         /\ d.instr = NoInstr /\ d.prefix = 0 /\ d.index = 0 /\ d.cycle = 0 /\ d.cycle_limit = 0
<1>1. Shaped(cpu)
  BY Fields
<1>2. PICK e : e = [cpu EXCEPT !.pc = 0, !.i = 0, !.r = 0, !.im = 0, !.iff1 = FALSE,
                              !.iff2 = FALSE, !.halted = FALSE]
  OBVIOUS
<1>3. d = [e EXCEPT !.nmi_latched = FALSE, !.int_inhibit = FALSE, !.prefix = 0, !.index = 0,
                    !.instr = NoInstr, !.cycle = 0, !.cycle_limit = 0]
  BY <1>2 DEF apply_reset
<1>4. /\ Shaped(e) /\ e.pc = 0 /\ e.i = 0 /\ e.r = 0 /\ e.im = 0
      /\ e.iff1 = FALSE /\ e.iff2 = FALSE /\ e.halted = FALSE
      /\ \A x \in CpuFields \ {"pc", "i", "r", "im", "iff1", "iff2", "halted"} : e[x] = cpu[x]
  BY <1>1, <1>2 DEF Shaped, CpuFields, ByteFields, WordFields, BoolFields
<1>5. /\ Shaped(d) /\ d.nmi_latched = FALSE /\ d.int_inhibit = FALSE
      /\ d.instr = NoInstr /\ d.prefix = 0 /\ d.index = 0 /\ d.cycle = 0 /\ d.cycle_limit = 0
      /\ \A x \in CpuFields \ {"nmi_latched", "int_inhibit", "prefix", "index", "instr",
                                "cycle", "cycle_limit"} : d[x] = e[x]
  BY <1>3, <1>4 DEF Shaped, CpuFields, BoolFields
<1>6. /\ 0 \in Byte /\ 0 \in Alu!Word /\ 0 \in 0 .. 2 /\ 0 \in {0, CB, ED} /\ 0 \in {0, DD, FD}
      /\ FALSE \in BOOLEAN /\ 0 \in Nat
  BY SmallWords DEF Byte, Word
<1>7. /\ \A x \in ByteFields : d[x] \in Byte
      /\ \A x \in WordFields : d[x] \in Alu!Word
      /\ \A x \in FlagFields : d[x] \subseteq Alu!Flags
      /\ \A x \in BoolFields : d[x] \in BOOLEAN
  <2>1. \A x \in ByteFields : d[x] \in Byte
    BY <1>4, <1>5, <1>6 DEF Typed, ByteFields, CpuFields
  <2>2. \A x \in WordFields : d[x] \in Alu!Word
    BY <1>4, <1>5, <1>6 DEF Typed, WordFields, CpuFields
  <2>3. \A x \in FlagFields : d[x] \subseteq Alu!Flags
    BY <1>4, <1>5, <1>6 DEF Typed, FlagFields, CpuFields
  <2>4. \A x \in BoolFields : d[x] \in BOOLEAN
    BY <1>4, <1>5, <1>6 DEF BoolFields, CpuFields
  <2> QED BY <2>1, <2>2, <2>3, <2>4
<1>8. d.pending = cpu.pending /\ d.im = 0 /\ d.af_alt = cpu.af_alt
  BY <1>4, <1>5 DEF CpuFields, FlagFields
<1> QED BY <1>5, <1>6, <1>7, <1>8 DEF Typed, Shaped

LEMMA HostsInv == CoreInv /\ Hosts /\ Forgets => CoreInv'
<1> SUFFICES ASSUME CoreInv, Hosts, Forgets
             PROVE  CoreInv'
  OBVIOUS
<1>1. /\ Typed(cpu) /\ Placed(cpu) /\ ByteMemory(memory) /\ EventsOK /\ QSettled
  BY DEF CoreInv
<1>2. ASSUME HostResets
      PROVE  CoreInv'
  <2>1. /\ Typed(cpu') /\ cpu'.pending = cpu.pending
        /\ cpu'.instr = NoInstr /\ cpu'.prefix = 0 /\ cpu'.index = 0
        /\ cpu'.cycle = 0 /\ cpu'.cycle_limit = 0
    BY <1>1, <1>2, ResetFields DEF HostResets
  <2>2. Placed(cpu')
    BY <2>1 DEF Placed, Fetching, NoInstr
  <2>3. AtBoundary(cpu) => AtRest(cpu)
    BY DEF AtBoundary, AtRest
  <2>4. QSettled'
    BY <1>1, <2>1, <2>3 DEF QSettled, Forgets
  <2>5. ByteMemory(memory') /\ EventsOK'
    BY <1>1, <1>2 DEF HostResets, EventsOK
  <2> QED BY <2>1, <2>2, <2>4, <2>5 DEF CoreInv
<1>3. ASSUME HostSets
      PROVE  CoreInv'
  <2>1. PICK which \in Named \union {"ir"}, word \in DebugWords : cpu' = z80_set(cpu, which, word)
    BY <1>3 DEF HostSets
  <2>2. Onto(cpu, cpu') /\ cpu'.cycle_limit = cpu.cycle_limit /\ cpu'.pending = cpu.pending
                        /\ cpu'.cycle = cpu.cycle
    BY <1>1, <2>1, RegistersAssumption, SetTyped DEF Word
  <2>3. /\ Typed(cpu') /\ cpu'.instr = cpu.instr /\ cpu'.prefix = cpu.prefix
        /\ cpu'.index = cpu.index /\ cpu'.opcode = cpu.opcode
    BY <2>2 DEF Onto, Cursor
  <2>4. Placed(cpu')
    BY <1>1, <2>2, <2>3 DEF Placed, Fetching
  <2>5. Fetching(cpu)
    BY <1>3 DEF HostSets
  <2>6. QSettled'
    BY <1>1, <2>2, <2>5 DEF QSettled, Forgets, AtRest
  <2>7. ByteMemory(memory') /\ EventsOK'
    BY <1>1, <1>3 DEF HostSets, EventsOK
  <2> QED BY <2>3, <2>4, <2>6, <2>7 DEF CoreInv
<1> QED BY <1>2, <1>3 DEF Hosts

LEMMA StepInv == CoreInv /\ [Next]_vars => CoreInv'
<1>1. CoreInv /\ UNCHANGED vars => CoreInv'
  BY DEF CoreInv, EventsOK, QSettled, AtRest, vars, history
<1>2. CoreInv /\ Rests /\ UNCHANGED history => CoreInv'
  BY DEF CoreInv, EventsOK, QSettled, AtRest, Rests, history
<1> QED BY <1>1, <1>2, CyclesInv, AcceptsInv, HostsInv DEF Next, Cycles

(* Whatever the program, the memory and the host: every field of the core   *)
(* keeps the width struct z80_t gives it, the cursor stays inside the       *)
(* cycles of its instruction, and memory holds bytes.                      *)
THEOREM FieldsKeepTheirWidths == Spec => []TypeOK
<1>1. CoreInv => TypeOK
  BY DEF CoreInv, TypeOK, Placed, EventsOK
<1> QED BY <1>1, InitInv, StepInv, PTL DEF Spec

-----------------------------------------------------------------------------
(* What z80_set_state puts into a new core is what z80_state read.          *)
LEMMA CopyIsWhole == CoreInv => StateCarriesOver
<1> SUFFICES ASSUME CoreInv, Fetching(cpu), AtBoundary(cpu), NEW copy,
                    copy = z80_set_state(NewRegisters, z80_state(cpu)),
                    NEW field \in DOMAIN cpu \ Unreported
             PROVE  copy[field] = cpu[field] \/ (field = "pending" /\ cut)
  BY DEF StateCarriesOver
<1>1. Typed(cpu) /\ Placed(cpu) /\ QSettled /\ Shaped(cpu)
  BY Fields DEF CoreInv
<1>2. field \in CpuFields
  BY <1>1 DEF Shaped
<1>3. DOMAIN NewRegisters = CpuFields
  BY DEF NewRegisters, CpuFields, ByteFields, WordFields, FlagFields, BoolFields
<1>4. PICK state : state = z80_state(cpu)
  OBVIOUS
<1>5. /\ state.pairs["af"] = 256 * cpu.a + FlagsByte(cpu.f)
      /\ state.pairs["af_alt"] = 256 * cpu.af_alt.a + FlagsByte(cpu.af_alt.f)
      /\ \A which \in Named \ {"af", "af_alt"} : state.pairs[which] = cpu[which]
      /\ \A which \in Reported : state.rest[which] = cpu[which]
  BY <1>4 DEF z80_state, z80_get, PairOf, Named
<1>6. CASE field \in {"a", "f"}
  <2>1. copy[field] = WithPair(NewRegisters, "af", state.pairs["af"])[field]
    BY <1>2, <1>3, <1>4, <1>6 DEF z80_set_state, Named, Reported
  <2>2. /\ cpu.a \in Byte /\ cpu.f \in SUBSET Alu!Flags
    BY <1>1 DEF Typed, ByteFields, FlagFields
  <2>3. /\ High(state.pairs["af"]) = cpu.a /\ FlagsOf(Low(state.pairs["af"])) = cpu.f
    BY <1>5, <2>2, PairReadBack
  <2>4. PICK c : c = NewRegisters
    OBVIOUS
  <2>5. "a" \in DOMAIN c /\ "f" \in DOMAIN c
    BY <1>3, <2>4 DEF CpuFields, ByteFields, FlagFields
  <2>6. WithPair(c, "af", state.pairs["af"]) = [c EXCEPT !.a = cpu.a, !.f = cpu.f]
    BY <2>3 DEF WithPair
  <2> QED BY <1>6, <2>1, <2>4, <2>5, <2>6
<1>7. CASE field = "af_alt"
  <2>1. copy[field] = WithPair(NewRegisters.af_alt, "af", state.pairs["af_alt"])
    BY <1>2, <1>3, <1>4, <1>7 DEF z80_set_state, Named, Reported
  <2>2. cpu.af_alt \in [a : Byte, f : SUBSET Alu!Flags]
    BY <1>1 DEF Typed
  <2>3. /\ High(state.pairs["af_alt"]) = cpu.af_alt.a
        /\ FlagsOf(Low(state.pairs["af_alt"])) = cpu.af_alt.f
    BY <1>5, <2>2, PairReadBack
  <2>4. NewRegisters.af_alt = [a |-> 0, f |-> {}]
    BY DEF NewRegisters
  <2>5. copy[field] = [a |-> cpu.af_alt.a, f |-> cpu.af_alt.f]
    BY <2>1, <2>3, <2>4 DEF WithPair
  <2> QED BY <1>7, <2>2, <2>5
<1>8. CASE field \in Named \ {"af_alt"}
  <2>1. copy[field] = state.pairs[field] /\ field # "af"
    BY <1>2, <1>3, <1>4, <1>8
    DEF z80_set_state, Named, Reported, CpuFields, ByteFields, WordFields, FlagFields, BoolFields
  <2> QED BY <1>5, <1>8, <2>1
<1>9. CASE field = "pending"
  <2>1. copy[field] = {}
    BY <1>2, <1>3, <1>4, <1>9 DEF z80_set_state, Named, Reported
  <2> QED BY <1>1, <1>9, <2>1 DEF QSettled, AtRest
<1>10. CASE field \in Reported
  <2>1. copy[field] = state.rest[field]
    BY <1>2, <1>3, <1>4, <1>10 DEF z80_set_state, Reported, Named
  <2> QED BY <1>5, <1>10, <2>1
<1>11. CASE field \in {"prefix", "index", "instr", "cycle", "cycle_limit"}
  <2>1. copy[field] = NewRegisters[field]
    BY <1>2, <1>3, <1>4, <1>11 DEF z80_set_state, Reported, Named
  <2>2. /\ cpu.prefix = 0 /\ cpu.index = 0 /\ cpu.instr = NoInstr
        /\ cpu.cycle = 0 /\ cpu.cycle_limit = 0
    BY <1>1 DEF AtBoundary, Fetching, Placed
  <2> QED BY <1>11, <2>1, <2>2 DEF NewRegisters
<1>12. \/ field \in {"a", "f", "af_alt", "pending"} \/ field \in Named \ {"af_alt"}
       \/ field \in Reported \/ field \in {"prefix", "index", "instr", "cycle", "cycle_limit"}
  BY <1>2 DEF Unreported, Named, Reported, CpuFields, ByteFields, WordFields, FlagFields,
              BoolFields
<1> QED BY <1>6, <1>7, <1>8, <1>9, <1>10, <1>11, <1>12

(* StateCarriesOver for every program: a debugger that stops between two    *)
(* instructions, copies z80_state into a new core and goes on there, goes   *)
(* on with the same core, but for the flags a RESET left waiting.           *)
THEOREM StateCarries == Spec => []StateCarriesOver
  BY InitInv, StepInv, CopyIsWhole, PTL DEF Spec

-----------------------------------------------------------------------------
(* A core under a DD or FD prefix, and its image in the mirror: the index   *)
(* register and HL exchanged, and no prefix.                               *)
Facing == {"hl", "ix", "iy", "index", "opcode"}

Mirror(c, d) ==
  /\ Shaped(c) /\ Shaped(d) /\ c.opcode \in Byte
  /\ c.index \in {DD, FD} /\ d.index = 0
  /\ d.hl = c[index_pair(c)] /\ d[index_pair(c)] = c.hl
  /\ \A x \in CpuFields \ {"hl", index_pair(c), "index"} : d[x] = c[x]

LEMMA MirrorSwaps ==
  ASSUME NEW c, Shaped(c), c.opcode \in Byte, c.index \in {DD, FD},
         NEW p, p = index_pair(c)
  PROVE  /\ Mirror(c, SwapWith(c, p))
         /\ \A d : Mirror(c, d) => d = SwapWith(c, p)
<1>1. p \in {"ix", "iy"}
  BY DEF index_pair, DD, FD
<1>2. PICK s : s = SwapWith(c, p)
  OBVIOUS
<1>3. /\ Shaped(s) /\ s.index = 0 /\ s.hl = c[p] /\ s[p] = c.hl
      /\ \A x \in CpuFields \ {"hl", p, "index"} : s[x] = c[x]
  BY <1>1, <1>2 DEF SwapWith, Shaped, CpuFields, WordFields
<1>4. ASSUME NEW d, Mirror(c, d)
      PROVE  d = s
  <2>1. /\ Shaped(d) /\ d.index = 0 /\ d.hl = c[p] /\ d[p] = c.hl
        /\ \A x \in CpuFields \ {"hl", p, "index"} : d[x] = c[x]
    BY <1>4 DEF Mirror
  <2>2. \A x \in CpuFields : d[x] = s[x]
    BY <1>3, <2>1
  <2> QED BY <1>3, <2>1, <2>2 DEF Shaped
<1> QED BY <1>2, <1>3, <1>4 DEF Mirror

(* What the two have in common.                                            *)
LEMMA MirrorReads ==
  ASSUME NEW c, NEW d, Mirror(c, d)
  PROVE  /\ Shaped(c) /\ Shaped(d)
         /\ index_pair(c) \in {"ix", "iy"} /\ index_pair(d) = "hl"
         /\ d.hl = c[index_pair(c)] /\ d.opcode = c.opcode
         /\ \A x \in CpuFields \ Facing : d[x] = c[x]
<1>1. c.index \in {DD, FD} /\ d.index = 0
  BY DEF Mirror
<1>2. index_pair(c) \in {"ix", "iy"} /\ index_pair(d) = "hl"
  BY <1>1 DEF index_pair, DD, FD
<1> QED BY <1>2 DEF Mirror, Facing, CpuFields, ByteFields

(* One field assigned to both; and the index register to the one, HL to the *)
(* other.                                                                  *)
LEMMA MirrorOne ==
  ASSUME NEW c, NEW d, Mirror(c, d), NEW x, NEW v,
         x \in CpuFields \ Facing \/ (x = "opcode" /\ v \in Byte)
  PROVE  Mirror(Put(c, x, v), Put(d, x, v)) /\ Put(c, x, v).index = c.index
<1>1. PICK e : e = Put(c, x, v)
  OBVIOUS
<1>2. PICK g : g = Put(d, x, v)
  OBVIOUS
<1>3. /\ x \in CpuFields /\ Shaped(c) /\ Shaped(d)
      /\ x \notin {"hl", "ix", "iy", "index"}
      /\ {"hl", "ix", "iy", "index", "opcode"} \subseteq CpuFields
  BY DEF Mirror, Facing, CpuFields, ByteFields, WordFields
<1>4. /\ Shaped(e) /\ e[x] = v /\ \A y \in CpuFields : y # x => e[y] = c[y]
      /\ Shaped(g) /\ g[x] = v /\ \A y \in CpuFields : y # x => g[y] = d[y]
  BY <1>1, <1>2, <1>3, GetPut
<1>5. e.index = c.index /\ index_pair(c) \in {"hl", "ix", "iy"} /\ index_pair(e) = index_pair(c)
  BY <1>3, <1>4 DEF index_pair
<1>6. e.opcode \in Byte
  BY <1>3, <1>4 DEF Mirror, Facing
<1>7. Mirror(e, g)
  BY <1>3, <1>4, <1>5, <1>6 DEF Mirror
<1> QED BY <1>1, <1>2, <1>5, <1>7

LEMMA MirrorIndexed ==
  ASSUME NEW c, NEW d, Mirror(c, d), NEW v
  PROVE  Mirror(Put(c, index_pair(c), v), Put(d, "hl", v))
<1>1. PICK p \in {"ix", "iy"} : p = index_pair(c)
  BY MirrorReads
<1>2. PICK e : e = Put(c, p, v)
  OBVIOUS
<1>3. PICK g : g = Put(d, "hl", v)
  OBVIOUS
<1>4. /\ Shaped(c) /\ Shaped(d)
      /\ {"hl", "ix", "iy", "index", "opcode"} \subseteq CpuFields
  BY DEF Mirror, CpuFields, ByteFields, WordFields
<1>5. /\ Shaped(e) /\ e[p] = v /\ \A y \in CpuFields : y # p => e[y] = c[y]
      /\ Shaped(g) /\ g["hl"] = v /\ \A y \in CpuFields : y # "hl" => g[y] = d[y]
  BY <1>2, <1>3, <1>4, GetPut
<1>6. e.index = c.index /\ index_pair(e) = p /\ e.opcode = c.opcode
  BY <1>1, <1>4, <1>5 DEF index_pair
<1>7. Mirror(e, g)
  BY <1>1, <1>4, <1>5, <1>6 DEF Mirror
<1> QED BY <1>1, <1>2, <1>3, <1>7

(* The same, for every use of them.                                        *)
LEMMA MirrorPut ==
  /\ \A c, d, x, v : Mirror(c, d) /\ x \in CpuFields \ Facing
                       => Mirror(Put(c, x, v), Put(d, x, v))
  /\ \A c, d, v : Mirror(c, d) /\ v \in Byte
                    => Mirror(Put(c, "opcode", v), Put(d, "opcode", v))
  /\ \A c, d, v : Mirror(c, d) => Mirror(Put(c, index_pair(c), v), Put(d, "hl", v))
  BY MirrorOne, MirrorIndexed

LEMMA OwnFields ==
  \A x \in {"a", "f", "bc", "de", "sp", "pc", "wz", "tmp", "bus_addr", "bus_data", "i", "r",
            "im", "iff1", "iff2", "halted", "nmi_latched", "int_inhibit", "af_alt", "q",
            "pending", "instr", "cycle", "cycle_limit", "prefix"} : x \in CpuFields \ Facing
  BY DEF CpuFields, Facing, ByteFields, WordFields, FlagFields, BoolFields

LEMMA MirrorFields ==
  ASSUME NEW c, NEW d, Mirror(c, d)
  PROVE  /\ d.a = c.a /\ d.f = c.f /\ d.bc = c.bc /\ d.de = c.de /\ d.sp = c.sp /\ d.pc = c.pc
         /\ d.wz = c.wz /\ d.tmp = c.tmp /\ d.bus_addr = c.bus_addr /\ d.bus_data = c.bus_data
         /\ d.r = c.r /\ d.af_alt = c.af_alt /\ d.q = c.q /\ d.pending = c.pending
         /\ d.instr = c.instr /\ d.cycle = c.cycle /\ d.cycle_limit = c.cycle_limit
         /\ d.prefix = c.prefix /\ d.opcode = c.opcode
         /\ d.hl = c[index_pair(c)] /\ d[index_pair(d)] = c[index_pair(c)]
<1>1. \A x \in CpuFields \ Facing : d[x] = c[x]
  BY MirrorReads
<1> QED BY <1>1, OwnFields, MirrorReads

(* What several hooks do. *)
LEMMA MirrorCommon ==
  ASSUME NEW c, NEW d, Mirror(c, d)
  PROVE  /\ \A w : Mirror(At(c, w), At(d, w)) /\ Mirror(GoTo(c, w), GoTo(d, w))
         /\ \A w, b : Mirror(write_at(c, w, b), write_at(d, w, b))
         /\ \A b : Mirror(push_at(c, b), push_at(d, b))
         /\ \A g : Mirror(WriteFlags(c, g), WriteFlags(d, g))
         /\ \A P : Mirror(EndUnless(P, c), EndUnless(P, d))
<1>1. /\ Shaped(c) /\ Shaped(d) /\ d.sp = c.sp /\ d.cycle = c.cycle
  BY MirrorReads, MirrorFields
<1>2. ASSUME NEW e, Shaped(e)
      PROVE  /\ \A w : At(e, w) = Put(e, "bus_addr", w)
             /\ \A w : GoTo(e, w) = Put(Put(e, "pc", w), "wz", w)
             /\ \A w, b : write_at(e, w, b) = Put(Put(e, "bus_addr", w), "bus_data", b)
             /\ \A g : WriteFlags(e, g) = Put(Put(e, "f", g), "pending", g)
             /\ end_instruction_here(e) = Put(e, "cycle_limit", e.cycle + 1)
  BY <1>2 DEF At, GoTo, write_at, WriteFlags, end_instruction_here, Put, Shaped
<1>3. ASSUME NEW e, Shaped(e), NEW b
      PROVE  push_at(e, b) = Put(write_at(e, Plus(e.sp, -1), b), "sp", Plus(e.sp, -1))
  BY <1>3 DEF write_at, push_at, Put, Shaped, CpuFields, WordFields
<1>4. \A w : Mirror(At(c, w), At(d, w)) /\ Mirror(GoTo(c, w), GoTo(d, w))
  BY <1>1, <1>2, MirrorPut, OwnFields
<1>5. \A w, b : Mirror(write_at(c, w, b), write_at(d, w, b))
  BY <1>1, <1>2, MirrorPut, OwnFields
<1>6. \A b : Mirror(push_at(c, b), push_at(d, b))
  BY <1>1, <1>5, <1>3, MirrorPut, OwnFields
<1>7. \A g : Mirror(WriteFlags(c, g), WriteFlags(d, g))
  BY <1>1, <1>2, MirrorPut, OwnFields
<1>8. Mirror(end_instruction_here(c), end_instruction_here(d))
  BY <1>1, <1>2, MirrorPut, OwnFields
<1> QED BY <1>4, <1>5, <1>6, <1>7, <1>8 DEF EndUnless

-----------------------------------------------------------------------------
(* The registers an opcode names are each other's images. *)
LEMMA MirrorPairs ==
  ASSUME NEW c, NEW d, Mirror(c, d), c.opcode \in Byte
  PROVE  /\ c[pair_rp(c)] = d[pair_rp(d)]
         /\ PairOf(c, pair_rp2(c)) = PairOf(d, pair_rp2(d))
         /\ \A v : Mirror(Put(c, pair_rp(c), v), Put(d, pair_rp(d), v))
<1>1. /\ index_pair(c) \in {"ix", "iy"} /\ index_pair(d) = "hl" /\ d.hl = c[index_pair(c)]
      /\ d.bc = c.bc /\ d.de = c.de /\ d.sp = c.sp /\ d.a = c.a /\ d.f = c.f
      /\ PairField(d) = PairField(c)
  BY MirrorReads, MirrorFields DEF PairField
<1>2. PairField(c) \in 0 .. 3
  BY DEF PairField, Byte
<1>3. \/ pair_rp(c) \in {"bc", "de", "sp"} /\ pair_rp(d) = pair_rp(c)
      \/ pair_rp(c) = index_pair(c) /\ pair_rp(d) = "hl"
  BY <1>1, <1>2 DEF pair_rp
<1>4. c[pair_rp(c)] = d[pair_rp(d)]
  BY <1>1, <1>3
<1>5. PairOf(c, pair_rp2(c)) = PairOf(d, pair_rp2(d))
  BY <1>1, <1>3, <1>4 DEF PairOf, pair_rp2
<1>6. ASSUME NEW v
      PROVE  Mirror(Put(c, pair_rp(c), v), Put(d, pair_rp(d), v))
  BY <1>3, MirrorPut, OwnFields
<1> QED BY <1>4, <1>5, <1>6

LEMMA MirrorSlots ==
  ASSUME NEW c, NEW d, Mirror(c, d), NEW which \in 0 .. 7
  PROVE  /\ Slot(d, which) = Slot(c, which)
         /\ \A b : Mirror(WithSlot(c, which, b), WithSlot(d, which, b))
<1>1. /\ index_pair(c) \in {"ix", "iy"} /\ index_pair(d) = "hl" /\ d.hl = c[index_pair(c)]
      /\ d.bc = c.bc /\ d.de = c.de /\ d.a = c.a
  BY MirrorReads, MirrorFields
<1>2. Slot(d, which) = Slot(c, which)
  BY <1>1 DEF Slot, HalfOf
<1>3. ASSUME NEW b
      PROVE  Mirror(WithSlot(c, which, b), WithSlot(d, which, b))
  <2>1. \A v : /\ Mirror(Put(c, "bc", v), Put(d, "bc", v))
               /\ Mirror(Put(c, "de", v), Put(d, "de", v))
               /\ Mirror(Put(c, "a", v), Put(d, "a", v))
               /\ Mirror(Put(c, index_pair(c), v), Put(d, "hl", v))
    BY MirrorPut, OwnFields
  <2>2. /\ WithSlot(c, which, b) = WithHalf(c, which, index_pair(c), b)
        /\ WithSlot(d, which, b) = WithHalf(d, which, "hl", b)
    BY <1>1 DEF WithSlot
  <2> QED BY <1>1, <2>1, <2>2, HalfForms
<1> QED BY <1>2, <1>3

(* Every hook a prefix can be put in front of does to the image what it     *)
(* does to the core.                                                       *)
LEMMA EnterMirrors ==
  ASSUME NEW c, NEW d, Mirror(c, d), NEW h \in SwapEnter
  PROVE  Mirror(Enter(h, c), Enter(h, d))
<1>1. /\ Shaped(c) /\ Shaped(d) /\ c.opcode \in Byte
  BY MirrorReads DEF Mirror
<1>2. /\ d.a = c.a /\ d.bc = c.bc /\ d.de = c.de /\ d.sp = c.sp /\ d.pc = c.pc
      /\ d.wz = c.wz /\ d.tmp = c.tmp /\ d.bus_data = c.bus_data /\ d.opcode = c.opcode
      /\ d[index_pair(d)] = c[index_pair(c)]
  BY MirrorFields
<1> USE DEF Enter, ReadHooks, PushHooks, WriteHooks, IoHooks, JumpHooks
<1>3. CASE h = "none"
  BY <1>3
<1>4. CASE h \in {"at_pc", "at_pop"}
  <2>1. PICK x \in {"pc", "sp"} :
          \A e : Shaped(e) => Enter(h, e) = Put(At(e, e[x]), x, Plus(e[x], 1))
    BY <1>4 DEF ReadHook, At, Put, Shaped, CpuFields, WordFields
  <2> QED BY <1>1, <1>2, <2>1, MirrorCommon, MirrorPut, OwnFields
<1>5. CASE h \in {"at_bc", "at_de", "at_tmp", "at_sp", "at_tmp_high", "at_sp_high", "io_address"}
  <2>1. \E w : Enter(h, c) = At(c, w) /\ Enter(h, d) = At(d, w)
    BY <1>2, <1>5 DEF ReadHook, IoHook
  <2> QED BY <2>1, MirrorCommon
<1>6. CASE h \in {"push_pc_high", "push_pc_low", "push_pair_high", "push_pair_low"}
  <2>1. PairOf(c, pair_rp2(c)) = PairOf(d, pair_rp2(d))
    BY <1>1, MirrorPairs
  <2>2. \E b : Enter(h, c) = push_at(c, b) /\ Enter(h, d) = push_at(d, b)
    BY <1>2, <1>6, <2>1 DEF PushHook
  <2> QED BY <2>2, MirrorCommon
<1>7. CASE h = "rst_target"
  <2>1. \A e : Enter(h, e) = push_at(Put(e, "wz", 8 * Y(e.opcode)), High(e.pc))
    BY <1>7 DEF PushHook, Put
  <2>2. Mirror(Put(c, "wz", 8 * Y(c.opcode)), Put(d, "wz", 8 * Y(d.opcode)))
    BY <1>2, MirrorPut, OwnFields
  <2> QED BY <1>2, <2>1, <2>2, MirrorCommon
<1>8. CASE h \in {"a_at_bc", "a_at_de", "a_at_tmp", "l_at_tmp", "h_at_tmp", "h_at_sp",
                  "l_at_sp", "io_write"}
  <2>1. \E w, b : Enter(h, c) = write_at(c, w, b) /\ Enter(h, d) = write_at(d, w, b)
    BY <1>2, <1>8 DEF WriteHook, IoHook
  <2> QED BY <2>1, MirrorCommon
<1>9. CASE h = "jump_relative"
  <2>1. PICK w : w = Plus(c.pc, Signed(c.bus_data))
    OBVIOUS
  <2>2. Enter(h, c) = GoTo(c, w) /\ Enter(h, d) = GoTo(d, w)
    BY <1>2, <1>9, <2>1 DEF JumpHook, GoTo
  <2> QED BY <2>2, MirrorCommon
<1> QED BY <1>3, <1>4, <1>5, <1>6, <1>7, <1>8, <1>9 DEF SwapEnter

LEMMA ExitMirrors ==
  ASSUME NEW c, NEW d, Mirror(c, d), NEW h \in SwapExit
  PROVE  Mirror(Exit(h, c), Exit(h, d))
<1>1. /\ Shaped(c) /\ Shaped(d) /\ index_pair(d) = "hl"
  BY MirrorReads
<1>2. /\ d.f = c.f /\ d.bc = c.bc /\ d.opcode = c.opcode
      /\ d.wz = c.wz /\ d.tmp = c.tmp /\ d.bus_data = c.bus_data
      /\ d.hl = c[index_pair(c)]
  BY MirrorFields
<1> USE DEF Exit, CollectHooks, BranchHooks, VectorHooks, ByteHooks, BlockHooks
<1>3. CASE h = "none"
  BY <1>3
<1>4. CASE h \in {"to_tmp_low", "to_tmp_high", "to_wz_low", "to_wz_high", "take_wz"}
  <2>1. PICK x : x = IF h \in {"to_tmp_low", "to_tmp_high"} THEN "tmp"
                    ELSE IF h = "take_wz" THEN "pc" ELSE "wz"
    OBVIOUS
  <2>2. PICK v : v = IF h = "take_wz" THEN c.wz
                     ELSE IF h \in {"to_tmp_low", "to_wz_low"} THEN WithLow(c[x], c.bus_data)
                     ELSE WithHigh(c[x], c.bus_data)
    OBVIOUS
  <2>3. Exit(h, c) = Put(c, x, v)
    BY <1>2, <1>4, <2>1, <2>2 DEF CollectHook, VectorHook, Put
  <2>4. Exit(h, d) = Put(d, x, v)
    BY <1>2, <1>4, <2>1, <2>2 DEF CollectHook, VectorHook, Put
  <2> QED BY <2>1, <2>3, <2>4, MirrorPut, OwnFields
<1>5. CASE h = "to_l"
  <2>1. PICK v : v = WithLow(c[index_pair(c)], c.bus_data)
    OBVIOUS
  <2>2. Exit(h, c) = Put(c, index_pair(c), v) /\ Exit(h, d) = Put(d, "hl", v)
    BY <1>1, <1>2, <1>5, <2>1 DEF CollectHook, Put
  <2> QED BY <2>2, MirrorPut
<1>6. CASE h \in {"jr_condition", "return_condition"}
  <2>1. \E P : Exit(h, c) = EndUnless(P, c) /\ Exit(h, d) = EndUnless(P, d)
    BY <1>2, <1>6 DEF BranchHook
  <2> QED BY <2>1, MirrorCommon
<1>7. CASE h = "djnz_condition"
  <2>1. PICK v : v = WithHigh(c.bc, (High(c.bc) - 1) % 256)
    OBVIOUS
  <2>2. /\ Exit(h, c) = EndUnless(High(c.bc) # 1, Put(c, "bc", v))
        /\ Exit(h, d) = EndUnless(High(c.bc) # 1, Put(d, "bc", v))
    BY <1>2, <1>7, <2>1 DEF BranchHook, Put
  <2>3. Mirror(Put(c, "bc", v), Put(d, "bc", v))
    BY MirrorPut, OwnFields
  <2> QED BY <2>2, <2>3, MirrorCommon
<1>8. CASE h = "call_condition"
  <2>1. PICK v : v = WithHigh(c.wz, c.bus_data)
    OBVIOUS
  <2>2. /\ Exit(h, c) = EndUnless(Alu!condition_met(c.f, Y(c.opcode)), Put(c, "wz", v))
        /\ Exit(h, d) = EndUnless(Alu!condition_met(c.f, Y(c.opcode)), Put(d, "wz", v))
    BY <1>2, <1>8, <2>1 DEF BranchHook, Put
  <2>3. Mirror(Put(c, "wz", v), Put(d, "wz", v))
    BY MirrorPut, OwnFields
  <2> QED BY <2>2, <2>3, MirrorCommon
<1>9. CASE h = "return_to_wz_high"
  <2>1. \E w : Exit(h, c) = GoTo(c, w) /\ Exit(h, d) = GoTo(d, w)
    BY <1>2, <1>9 DEF VectorHook
  <2> QED BY <2>1, MirrorCommon
<1> QED BY <1>3, <1>4, <1>5, <1>6, <1>7, <1>8, <1>9 DEF SwapExit

-----------------------------------------------------------------------------
(* So does the effect of the instruction. *)
LEMMA LoadMirrors ==
  ASSUME NEW c, NEW d, Mirror(c, d), NEW n \in Loads \intersect Substituted
  PROVE  Mirror(LoadEffect(n, c), LoadEffect(n, d))
<1>1. /\ Shaped(c) /\ Shaped(d) /\ index_pair(d) = "hl" /\ c.opcode \in Byte
  BY MirrorReads DEF Mirror
<1>2. /\ d.a = c.a /\ d.tmp = c.tmp /\ d.bus_addr = c.bus_addr /\ d.bus_data = c.bus_data
      /\ d.opcode = c.opcode /\ d.hl = c[index_pair(c)]
  BY MirrorFields
<1>3. Y(c.opcode) \in 0 .. 7 /\ Z(c.opcode) \in 0 .. 7
  BY <1>1 DEF Y, Z, Byte
<1>4. CASE n \in {"ld_reg_reg", "ld_reg_immediate"}
  <2>1. Slot(d, Z(c.opcode)) = Slot(c, Z(c.opcode))
    BY <1>3, MirrorSlots
  <2>2. \E b : /\ LoadEffect(n, c) = WithSlot(c, Y(c.opcode), b)
               /\ LoadEffect(n, d) = WithSlot(d, Y(c.opcode), b)
    BY <1>2, <1>4, <2>1 DEF LoadEffect
  <2> QED BY <1>3, <2>2, MirrorSlots
<1>5. CASE n \in {"ld_a_bc", "ld_a_de", "ld_a_nn", "in_a_n"}
  <2>1. \A e : Shaped(e) =>
          LoadEffect(n, e) = Put(Put(e, "a", e.bus_data), "wz", Plus(e.bus_addr, 1))
    BY <1>5 DEF LoadEffect, Put, Shaped, CpuFields
  <2> QED BY <1>1, <1>2, <2>1, MirrorPut, OwnFields
<1>6. CASE n \in {"ld_bc_a", "ld_de_a", "ld_nn_a", "out_n_a", "ld_nn_hl", "ld_sp_hl"}
  <2>1. CASE n \in {"ld_bc_a", "ld_de_a", "ld_nn_a", "out_n_a"}
    <3>1. \A e : LoadEffect(n, e) = Put(e, "wz", 256 * e.a + ((Low(e.bus_addr) + 1) % 256))
      BY <2>1 DEF LoadEffect, StoredA, Put
    <3> QED BY <1>2, <3>1, MirrorPut, OwnFields
  <2>2. CASE n = "ld_nn_hl"
    <3>1. \A e : LoadEffect(n, e) = Put(e, "wz", Plus(e.tmp, 1))
      BY <2>2 DEF LoadEffect, MemptrAfterTmp, Put
    <3> QED BY <1>2, <3>1, MirrorPut, OwnFields
  <2>3. CASE n = "ld_sp_hl"
    <3>1. \A e : LoadEffect(n, e) = Put(e, "sp", e[index_pair(e)])
      BY <2>3 DEF LoadEffect, Put
    <3> QED BY <1>1, <1>2, <3>1, MirrorPut, OwnFields
  <2> QED BY <1>6, <2>1, <2>2, <2>3
<1>7. CASE n = "ld_rp_nn"
  <2>1. /\ LoadEffect(n, c) = Put(c, pair_rp(c), c.tmp)
        /\ LoadEffect(n, d) = Put(d, pair_rp(d), c.tmp)
    BY <1>2, <1>7 DEF LoadEffect, Put
  <2> QED BY <1>1, <2>1, MirrorPairs
<1>8. CASE n = "ld_hl_nn"
  <2>1. PICK e : e = Put(c, "wz", Plus(c.tmp, 1))
    OBVIOUS
  <2>2. PICK g : g = Put(d, "wz", Plus(c.tmp, 1))
    OBVIOUS
  <2>3. Mirror(e, g) /\ index_pair(e) = index_pair(c)
    <3>1. Mirror(e, g)
      BY <2>1, <2>2, MirrorPut, OwnFields
    <3>2. e.index = c.index
      BY <2>1, OwnFields, MirrorOne
    <3> QED BY <3>1, <3>2 DEF index_pair
  <2>4. PICK v : v = WithHigh(e[index_pair(c)], c.bus_data)
    OBVIOUS
  <2>5. LoadEffect(n, c) = Put(e, index_pair(e), v)
    BY <1>8, <2>1, <2>3, <2>4 DEF LoadEffect, MemptrAfterTmp, Put
  <2>6. g.hl = e[index_pair(e)]
    BY <2>3, MirrorReads
  <2>7. LoadEffect(n, d) = Put(g, "hl", v)
    BY <1>1, <1>2, <1>8, <2>2, <2>3, <2>4, <2>6 DEF LoadEffect, MemptrAfterTmp, Put
  <2> QED BY <2>3, <2>5, <2>7, MirrorPut
<1>9. CASE n = "pop"
  <2>1. PICK w : w = WithHigh(c.tmp, c.bus_data)
    OBVIOUS
  <2>2. PICK e : e = Put(c, "tmp", w)
    OBVIOUS
  <2>3. PICK g : g = Put(d, "tmp", w)
    OBVIOUS
  <2>4. Mirror(e, g) /\ e.index = c.index /\ e.opcode = c.opcode
    <3>1. Mirror(e, g) /\ e.index = c.index
      BY <2>2, <2>3, MirrorPut, MirrorOne, OwnFields
    <3> QED BY <1>1, <2>2, <3>1, OwnFields, GetPut DEF Facing, CpuFields, ByteFields
  <2>5. g.index = d.index /\ g.opcode = d.opcode
    BY <1>1, <2>3, OwnFields, GetPut DEF Facing, CpuFields, ByteFields
  <2>6. pair_rp2(e) = pair_rp2(c) /\ pair_rp(e) = pair_rp(c)
        /\ pair_rp2(g) = pair_rp2(d) /\ pair_rp(g) = pair_rp(d)
    BY <2>4, <2>5 DEF pair_rp2, pair_rp, PairField, index_pair
  <2>7. /\ LoadEffect(n, c) = WithPair(e, pair_rp2(e), w)
        /\ LoadEffect(n, d) = WithPair(g, pair_rp2(g), w)
    <3>1. LoadEffect(n, c) = WithPair(e, pair_rp2(c), w)
      BY <1>9, <2>1, <2>2 DEF LoadEffect, Put
    <3>2. LoadEffect(n, d) = WithPair(g, pair_rp2(d), w)
      BY <1>2, <1>9, <2>1, <2>3 DEF LoadEffect, Put
    <3> QED BY <2>6, <3>1, <3>2
  <2>8. PairField(g) = PairField(e) /\ e.opcode \in Byte
    BY <1>1, <1>2, <2>4, <2>5 DEF PairField
  <2>9. CASE PairField(e) = 3
    <3>1. \A x : PairField(x) = 3 =>
            WithPair(x, pair_rp2(x), w) = Put(Put(x, "a", High(w)), "f", FlagsOf(Low(w)))
      BY DEF WithPair, pair_rp2, Put
    <3> QED BY <2>4, <2>7, <2>8, <2>9, <3>1, MirrorPut, OwnFields
  <2>10. CASE PairField(e) # 3
    <3>1. pair_rp(e) # "af" /\ pair_rp(g) # "af"
      <4>1. PairField(e) \in 0 .. 3 /\ index_pair(e) \in {"ix", "iy"} /\ index_pair(g) = "hl"
        BY <2>4, <2>8, MirrorReads DEF PairField, Byte
      <4> QED BY <2>8, <4>1 DEF pair_rp
    <3>2. \A x : PairField(x) # 3 /\ pair_rp(x) # "af" =>
            WithPair(x, pair_rp2(x), w) = Put(x, pair_rp(x), w)
      BY DEF WithPair, pair_rp2, Put
    <3> QED BY <2>4, <2>7, <2>8, <2>10, <3>1, <3>2, MirrorPairs
  <2> QED BY <2>9, <2>10
<1> QED BY <1>4, <1>5, <1>6, <1>7, <1>8, <1>9 DEF Loads, Substituted, ControlInstrs

LEMMA ExchangeMirrors ==
  ASSUME NEW c, NEW d, Mirror(c, d), NEW n \in Exchanges \intersect Substituted
  PROVE  Mirror(ExchangeEffect(n, c), ExchangeEffect(n, d))
<1>1. /\ Shaped(c) /\ Shaped(d) /\ index_pair(c) \in {"ix", "iy"} /\ index_pair(d) = "hl"
      /\ d.a = c.a /\ d.f = c.f /\ d.af_alt = c.af_alt /\ d.tmp = c.tmp
  BY MirrorReads, MirrorFields
<1>2. CASE n = "ex_af"
  <2>1. PICK v : v = [a |-> c.a, f |-> c.f]
    OBVIOUS
  <2>2. \A e : Shaped(e) /\ e.a = c.a /\ e.f = c.f /\ e.af_alt = c.af_alt =>
          ExchangeEffect(n, e)
            = Put(Put(Put(e, "a", c.af_alt.a), "f", c.af_alt.f), "af_alt", v)
    BY <1>2, <2>1 DEF ExchangeEffect, Put, Shaped, CpuFields
  <2> QED BY <1>1, <2>2, MirrorPut, OwnFields
<1>3. CASE n = "ex_sp_hl"
  <2>1. /\ ExchangeEffect(n, c) = Put(Put(c, index_pair(c), c.tmp), "wz", c.tmp)
        /\ ExchangeEffect(n, d) = Put(Put(d, "hl", c.tmp), "wz", c.tmp)
    BY <1>1, <1>3 DEF ExchangeEffect, Put
  <2> QED BY <2>1, MirrorPut, OwnFields
<1> QED BY <1>2, <1>3 DEF Exchanges, Substituted, ControlInstrs

LEMMA ArithmeticMirrors ==
  ASSUME NEW c, NEW d, Mirror(c, d), NEW n \in Arithmetics \intersect Substituted
  PROVE  Mirror(ArithmeticEffect(n, c), ArithmeticEffect(n, d))
<1>1. /\ Shaped(c) /\ Shaped(d) /\ c.opcode \in Byte
      /\ index_pair(c) \in {"ix", "iy"} /\ index_pair(d) = "hl"
  BY MirrorReads DEF Mirror
<1>2. /\ d.a = c.a /\ d.f = c.f /\ d.q = c.q /\ d.bus_data = c.bus_data
      /\ d.opcode = c.opcode /\ d.hl = c[index_pair(c)]
  BY MirrorFields
<1>3. Y(c.opcode) \in 0 .. 7 /\ Z(c.opcode) \in 0 .. 7
  BY <1>1 DEF Y, Z, Byte
<1>4. /\ Slot(d, Y(c.opcode)) = Slot(c, Y(c.opcode)) /\ Slot(d, Z(c.opcode)) = Slot(c, Z(c.opcode))
  BY <1>3, MirrorSlots
<1>5. ASSUME NEW out
      PROVE  /\ Mirror(WithOut(c, out), WithOut(d, out))
             /\ Mirror(SlotOut(c, Y(c.opcode), out), SlotOut(d, Y(c.opcode), out))
  <2>1. \A e : WithOut(e, out) = Put(WriteFlags(e, out.flags), "a", out.value)
    BY DEF WithOut, Put
  <2>2. Mirror(WriteFlags(c, out.flags), WriteFlags(d, out.flags))
    BY MirrorCommon
  <2>3. Mirror(WithOut(c, out), WithOut(d, out))
    BY <2>1, <2>2, MirrorPut, OwnFields
  <2> QED BY <1>3, <2>2, <2>3, MirrorSlots DEF SlotOut
<1>6. CASE n \in {"alu_reg", "alu_n", "rotate_a", "daa"}
  <2>1. \E out : /\ ArithmeticEffect(n, c) = WithOut(c, out)
                 /\ ArithmeticEffect(n, d) = WithOut(d, out)
    BY <1>2, <1>4, <1>6 DEF ArithmeticEffect, AluOperation
  <2> QED BY <1>5, <2>1
<1>7. CASE n \in {"inc_reg", "dec_reg"}
  <2>1. \E out : /\ ArithmeticEffect(n, c) = SlotOut(c, Y(c.opcode), out)
                 /\ ArithmeticEffect(n, d) = SlotOut(d, Y(c.opcode), out)
    BY <1>2, <1>4, <1>7 DEF ArithmeticEffect
  <2> QED BY <1>5, <2>1
<1>8. CASE n \in {"inc_rp", "dec_rp"}
  <2>1. d[pair_rp(d)] = c[pair_rp(c)]
    BY <1>1, MirrorPairs
  <2>2. \E v : /\ ArithmeticEffect(n, c) = Put(c, pair_rp(c), v)
               /\ ArithmeticEffect(n, d) = Put(d, pair_rp(d), v)
    BY <1>8, <2>1 DEF ArithmeticEffect, Put
  <2> QED BY <1>1, <2>2, MirrorPairs
<1>9. CASE n = "add_hl_rp"
  <2>1. d[pair_rp(d)] = c[pair_rp(c)]
    BY <1>1, MirrorPairs
  <2>2. PICK out : out = Alu!alu_add16(c[index_pair(c)], c.f, c[pair_rp(c)])
    OBVIOUS
  <2>3. PICK w : w = Plus(c[index_pair(c)], 1)
    OBVIOUS
  <2>4. PICK e : e = Put(WriteFlags(c, out.flags), "wz", w)
    OBVIOUS
  <2>5. PICK g : g = Put(WriteFlags(d, out.flags), "wz", w)
    OBVIOUS
  <2>6. /\ ArithmeticEffect(n, c) = Put(e, index_pair(c), out.value)
        /\ ArithmeticEffect(n, d) = Put(g, "hl", out.value)
    BY <1>1, <1>2, <1>9, <2>1, <2>2, <2>3, <2>4, <2>5 DEF ArithmeticEffect, WideOut, Put
  <2>7. Mirror(e, g)
    BY <2>4, <2>5, MirrorCommon, MirrorPut, OwnFields
  <2>8. index_pair(e) = index_pair(c)
    <3>1. e = Put(Put(Put(c, "f", out.flags), "pending", out.flags), "wz", w)
      BY <2>4 DEF WriteFlags, Put
    <3>2. e.index = c.index
      BY <1>1, <3>1, OwnFields, GetPut DEF CpuFields
    <3> QED BY <3>2 DEF index_pair
  <2> QED BY <2>6, <2>7, <2>8, MirrorPut
<1>10. CASE n = "cpl"
  <2>1. PICK out : out = Alu!execute_cpl(c.a, c.f)
    OBVIOUS
  <2>2. \A e : e.a = c.a /\ e.f = c.f =>
          ArithmeticEffect(n, e) = Put(Put(e, "a", out.value), "f", out.flags)
    BY <1>10, <2>1 DEF ArithmeticEffect, Put
  <2> QED BY <1>2, <2>2, MirrorPut, OwnFields
<1>11. CASE n \in {"scf", "ccf"}
  <2>1. \E g : /\ ArithmeticEffect(n, c) = WriteFlags(c, g)
               /\ ArithmeticEffect(n, d) = WriteFlags(d, g)
    BY <1>2, <1>11 DEF ArithmeticEffect
  <2> QED BY <2>1, MirrorCommon
<1> QED BY <1>6, <1>7, <1>8, <1>9, <1>10, <1>11 DEF Arithmetics, Substituted, ControlInstrs

LEMMA ControlMirrors ==
  ASSUME NEW c, NEW d, Mirror(c, d), NEW n \in Controls \intersect Substituted
  PROVE  Mirror(ControlEffect(n, c), ControlEffect(n, d))
<1>1. /\ Shaped(c) /\ Shaped(d) /\ index_pair(d) = "hl"
      /\ d.pc = c.pc /\ d.f = c.f /\ d.wz = c.wz /\ d.bus_data = c.bus_data
      /\ d.opcode = c.opcode /\ d.hl = c[index_pair(c)]
  BY MirrorReads, MirrorFields
<1>2. CASE n = "halt"
  <2>1. \A e : Shaped(e) =>
          ControlEffect(n, e) = Put(Put(e, "halted", TRUE), "pc", Plus(e.pc, -1))
    BY <1>2 DEF ControlEffect, execute_halt, Put, Shaped, CpuFields
  <2> QED BY <1>1, <2>1, MirrorPut, OwnFields
<1>3. CASE n \in {"ei", "di"}
  <2>2. CASE n = "ei"
    <3>1. \A e : ControlEffect(n, e)
                   = Put(Put(Put(e, "iff1", TRUE), "iff2", TRUE), "int_inhibit", TRUE)
      BY <2>2 DEF ControlEffect, execute_ei, Put
    <3> QED BY <3>1, MirrorPut, OwnFields
  <2>3. CASE n = "di"
    <3>1. \A e : ControlEffect(n, e) = Put(Put(e, "iff1", FALSE), "iff2", FALSE)
      BY <2>3 DEF ControlEffect, Put
    <3> QED BY <3>1, MirrorPut, OwnFields
  <2> QED BY <1>3, <2>2, <2>3
<1>4. CASE n \in {"jump", "jp_cc"}
  <2>1. \E w : \/ ControlEffect(n, c) = GoTo(c, w) /\ ControlEffect(n, d) = GoTo(d, w)
               \/ ControlEffect(n, c) = Put(c, "wz", w) /\ ControlEffect(n, d) = Put(d, "wz", w)
    BY <1>1, <1>4 DEF ControlEffect, Put
  <2> QED BY <2>1, MirrorCommon, MirrorPut, OwnFields
<1>5. CASE n = "jp_hl"
  <2>1. \E w : ControlEffect(n, c) = Put(c, "pc", w) /\ ControlEffect(n, d) = Put(d, "pc", w)
    BY <1>1, <1>5 DEF ControlEffect, Put
  <2> QED BY <2>1, MirrorPut, OwnFields
<1> QED BY <1>2, <1>3, <1>4, <1>5 DEF Controls, Substituted, ControlInstrs

LEMMA ExecuteMirrors ==
  ASSUME NEW c, NEW d, Mirror(c, d), NEW n \in Substituted
  PROVE  Mirror(Execute(n, c, FALSE), Execute(n, d, FALSE))
<1> USE DEF Execute, Loads, Exchanges, Arithmetics, Controls, Refreshes
<1>1. CASE n \in Loads
  BY <1>1, LoadMirrors
<1>2. CASE n \in Exchanges
  BY <1>2, ExchangeMirrors
<1>3. CASE n \in Arithmetics
  BY <1>3, ArithmeticMirrors
<1>4. CASE n \in Controls
  BY <1>4, ControlMirrors
<1>5. CASE n \notin Loads \union Exchanges \union Arithmetics \union Controls
  <2>1. n \notin {"cb_reg", "cb_bit_mem", "ed_in_c", "ed_out_c", "prefix"} \union Refreshes
    BY DEF Substituted, ControlInstrs
  <2> QED BY <1>5, <2>1
<1> QED BY <1>1, <1>2, <1>3, <1>4, <1>5

-----------------------------------------------------------------------------
(* A whole machine cycle. *)
LEMMA SampledMirrors ==
  ASSUME NEW c, NEW d, Mirror(c, d), NEW byte \in Byte
  PROVE  Mirror(Sampled(c, byte), Sampled(d, byte)) /\ Kind(d) = Kind(c)
<1>1. /\ Shaped(c) /\ Shaped(d) /\ d.r = c.r /\ d.pc = c.pc
      /\ d.instr = c.instr /\ d.cycle = c.cycle
  BY MirrorReads, MirrorFields
<1>2. Kind(d) = Kind(c)
  BY <1>1 DEF Kind, Fetching
<1>3. PICK e : e = Refreshed(c)
  OBVIOUS
<1>4. PICK g : g = Refreshed(d)
  OBVIOUS
<1>5. PICK v : v = 128 * (c.r \div 128) + ((c.r + 1) % 128)
  OBVIOUS
<1>6. e = Put(c, "r", v) /\ g = Put(d, "r", v)
  BY <1>1, <1>3, <1>4, <1>5 DEF Refreshed, Put
<1>7. Mirror(e, g)
  BY <1>6, MirrorPut, OwnFields
<1>8. CASE Kind(c) = "m1_fetch"
  <2>1. \A x : Shaped(x) => [x EXCEPT !.opcode = byte, !.pc = Plus(@, 1)]
                              = Put(Put(x, "opcode", byte), "pc", Plus(x.pc, 1))
    BY DEF Put, Shaped, CpuFields
  <2>2. Shaped(e) /\ Shaped(g) /\ g.pc = e.pc
    BY <1>7, MirrorReads, MirrorFields
  <2>3. /\ Sampled(c, byte) = Put(Put(e, "opcode", byte), "pc", Plus(e.pc, 1))
        /\ Sampled(d, byte) = Put(Put(g, "opcode", byte), "pc", Plus(g.pc, 1))
    BY <1>2, <1>3, <1>4, <1>8, <2>1, <2>2 DEF Sampled
  <2>4. Mirror(Put(e, "opcode", byte), Put(g, "opcode", byte))
    BY <1>7, MirrorPut
  <2> QED BY <1>2, <2>2, <2>3, <2>4, MirrorPut, OwnFields
<1>9. CASE Kind(c) \in {"mem_read", "io_read"}
  <2>1. Sampled(c, byte) = Put(c, "bus_data", byte) /\ Sampled(d, byte) = Put(d, "bus_data", byte)
    BY <1>2, <1>9 DEF Sampled, Put
  <2> QED BY <1>2, <2>1, MirrorPut, OwnFields
<1>10. CASE Kind(c) = "int_ack"
  <2>1. Sampled(c, byte) = Put(e, "bus_data", byte) /\ Sampled(d, byte) = Put(g, "bus_data", byte)
    BY <1>2, <1>3, <1>4, <1>10 DEF Sampled, Put
  <2> QED BY <1>2, <1>7, <2>1, MirrorPut, OwnFields
<1>11. CASE Kind(c) = "nmi_ack"
  BY <1>2, <1>3, <1>4, <1>7, <1>11 DEF Sampled
<1>12. CASE Kind(c) \notin {"m1_fetch", "mem_read", "io_read", "int_ack", "nmi_ack"}
  BY <1>2, <1>12 DEF Sampled
<1> QED BY <1>8, <1>9, <1>10, <1>11, <1>12

(* The instruction in progress is one a prefix only substitutes in. *)
LEMMA EndedMirrors ==
  ASSUME NEW c, Typed(c), Placed(c), NEW d, Mirror(c, d), NEW byte \in Byte,
         IF Fetching(c) THEN Decode(byte, c.prefix, c.index) \in Substituted
                        ELSE c.instr \in Substituted
  PROVE  Mirror(Ended(c, byte), Ended(d, byte)) /\ Ended(c, byte).instr \in Substituted
<1>1. PICK s : s = Sampled(c, byte)
  OBVIOUS
<1>2. PICK t : t = Sampled(d, byte)
  OBVIOUS
<1>3. Mirror(s, t)
  BY <1>1, <1>2, SampledMirrors
<1>4. /\ d.instr = c.instr /\ d.cycle = c.cycle /\ d.prefix = c.prefix
      /\ c.index \in {DD, FD} /\ d.index = 0 /\ Fetching(d) = Fetching(c)
  BY MirrorFields DEF Mirror, Fetching
<1>5. CASE Fetching(c)
  <2>1. c.prefix = 0
    BY <1>4 DEF Placed, DD, FD
  <2>2. PICK n : n = Decode(byte, c.prefix, c.index)
    OBVIOUS
  <2>3. n = DecodeIndexed(byte) /\ Decode(byte, d.prefix, d.index) = DecodeBase(byte)
    BY <1>4, <2>1, <2>2 DEF Decode, DD, FD, CB, ED
  <2>4. Decode(byte, d.prefix, d.index) = n
    <3>1. n \notin IndexedInstrs \union {"prefix"}
      BY <1>5, <2>2 DEF Substituted, IndexedInstrs, ControlInstrs
    <3> QED BY <2>3, <3>1, IndexedOrBase
  <2>5. \A x : [x EXCEPT !.instr = n, !.cycle = 0, !.cycle_limit = Len(CyclesOf[n])]
                 = Put(Put(Put(x, "instr", n), "cycle", 0), "cycle_limit", Len(CyclesOf[n]))
    BY DEF Put
  <2>6. /\ Ended(c, byte)
             = Put(Put(Put(s, "instr", n), "cycle", 0), "cycle_limit", Len(CyclesOf[n]))
        /\ Ended(d, byte)
             = Put(Put(Put(t, "instr", n), "cycle", 0), "cycle_limit", Len(CyclesOf[n]))
    BY <1>1, <1>2, <1>4, <1>5, <2>2, <2>4, <2>5 DEF Ended
  <2>7. Mirror(Ended(c, byte), Ended(d, byte))
    BY <1>3, <2>6, MirrorPut, OwnFields
  <2>8. Ended(c, byte).instr = n
    BY <1>5, <2>2, EndedFetch
  <2> QED BY <1>5, <2>2, <2>7, <2>8
<1>6. CASE ~Fetching(c)
  <2>1. HooksAt(c) \in HooksFor(c.instr) /\ HooksAt(d) = HooksAt(c)
    BY <1>4, <1>6, KindOfCycle DEF HooksAt
  <2>2. PICK h \in SwapExit : h = HooksAt(c)[2]
    BY <1>6, <2>1 DEF HooksFor
  <2>3. PICK x : x = Exit(h, s)
    OBVIOUS
  <2>4. PICK y : y = Exit(h, t)
    OBVIOUS
  <2>5. Mirror(x, y)
    BY <1>3, <2>3, <2>4, ExitMirrors
  <2>6. /\ Ended(c, byte) = Put(x, "cycle", x.cycle + 1)
        /\ Ended(d, byte) = Put(y, "cycle", y.cycle + 1)
    BY <1>1, <1>2, <1>4, <1>6, <2>1, <2>2, <2>3, <2>4 DEF Ended, Put
  <2>7. Mirror(Ended(c, byte), Ended(d, byte))
    BY <2>5, <2>6, MirrorFields, MirrorPut, OwnFields
  <2>8. Ended(c, byte).instr = c.instr
    BY <1>6, EndedCycle
  <2> QED BY <1>6, <2>7, <2>8
<1> QED BY <1>5, <1>6

(* DD and FD stand for an index register and for nothing else. *)
LEMMA PrefixSubstitutesNow == CoreInv => PrefixOnlySubstitutes
<1> SUFFICES ASSUME CoreInv, cpu.index # 0,
                    Running \notin IndexedInstrs \union {"prefix", "ex_de_hl", "exx"},
                    NEW byte \in BusBytes, NEW p, p = IF cpu.index = DD THEN "ix" ELSE "iy"
             PROVE  AfterCycle(SwapWith(cpu, p), byte) = SwapWith(AfterCycle(cpu, byte), p)
  BY DEF PrefixOnlySubstitutes
<1>1. Typed(cpu) /\ Placed(cpu) /\ Shaped(cpu) /\ byte \in Byte
  BY Fields, BytesOnTheBus DEF CoreInv
<1>2. cpu.index \in {DD, FD} /\ cpu.opcode \in Byte
  BY <1>1 DEF Typed, ByteFields
<1>3. p = index_pair(cpu) /\ p \in {"ix", "iy"}
  BY <1>2 DEF index_pair, DD, FD
<1>4. PICK d : d = SwapWith(cpu, p)
  OBVIOUS
<1>5. Mirror(cpu, d)
  BY <1>1, <1>2, <1>3, <1>4, MirrorSwaps
<1>6. IF Fetching(cpu) THEN Decode(byte, cpu.prefix, cpu.index) \in Substituted
                       ELSE cpu.instr \in Substituted
  <2>1. CASE Fetching(cpu)
    <3>1. byte = ByteAt(cpu.pc)
      BY <2>1 DEF BusBytes, Kind, Address
    <3>2. cpu.prefix = 0
      BY <1>1, <1>2 DEF Placed, DD, FD
    <3>3. Decode(byte, cpu.prefix, cpu.index) = DecodeIndexed(byte)
      BY <1>2, <3>2 DEF Decode, DD, FD, CB, ED
    <3>4. DecodeIndexed(byte) \notin IndexedInstrs \union {"prefix", "ex_de_hl", "exx"}
      BY <2>1, <3>1, <3>3 DEF Running
    <3> QED BY <1>1, <2>1, <3>3, <3>4, IndexedOrBase
  <2>2. CASE ~Fetching(cpu)
    BY <1>1, <1>2, <2>2 DEF Placed, Running, DD, FD
  <2> QED BY <2>1, <2>2
<1>7. PICK e : e = Ended(cpu, byte)
  OBVIOUS
<1>8. PICK g : g = Ended(d, byte)
  OBVIOUS
<1>9. Mirror(e, g) /\ e.instr \in Substituted /\ GoesOn(g) = GoesOn(e)
  <2>1. Mirror(e, g) /\ e.instr \in Substituted
    BY <1>1, <1>5, <1>6, <1>7, <1>8, EndedMirrors
  <2> QED BY <2>1, MirrorFields DEF GoesOn
<1>10. e.index = cpu.index /\ Typed(e)
  BY <1>1, <1>7, EndedTyped
<1>11. CASE GoesOn(e)
  <2>1. PICK b : b = Begun(e)
    OBVIOUS
  <2>2. /\ Typed(b) /\ b.index = cpu.index
    BY <1>1, <1>7, <1>11, <2>1, BegunTyped
  <2>3. /\ HooksAt(e) \in HooksFor(e.instr) /\ HooksAt(g) = HooksAt(e)
    <3>1. e.instr \in Instrs /\ e.cycle \in Nat /\ e.cycle < Len(CyclesOf[e.instr])
      <4>1. /\ e.instr \in Instrs /\ e.cycle_limit <= Len(CyclesOf[e.instr])
            /\ e.cycle \in Nat /\ e.cycle_limit \in Nat
        BY <1>1, <1>7, EndedTyped DEF Typed
      <4>2. Len(CyclesOf[e.instr]) \in Nat
        BY <4>1, ShapeType
      <4> QED BY <1>11, <4>1, <4>2 DEF GoesOn
    <3> QED BY <1>9, <3>1, HooksType, MirrorFields DEF HooksAt
  <2>4. PICK h \in SwapEnter : h = HooksAt(e)[1]
    BY <1>9, <2>3 DEF HooksFor
  <2>5. Mirror(b, Begun(g))
    BY <1>9, <2>1, <2>3, <2>4, EnterMirrors DEF Begun
  <2>6. Begun(g) = SwapWith(b, p)
    <3>1. Shaped(b) /\ b.opcode \in Byte /\ b.index \in {DD, FD} /\ p = index_pair(b)
      BY <1>2, <1>3, <2>2, Fields DEF index_pair, ByteFields
    <3> QED BY <2>5, <3>1, MirrorSwaps
  <2> QED BY <1>4, <1>7, <1>8, <1>9, <1>11, <2>1, <2>6 DEF AfterCycle
<1>12. CASE ~GoesOn(e)
  <2>1. PICK x : x = Execute(e.instr, e, FALSE)
    OBVIOUS
  <2>2. PICK y : y = Execute(e.instr, g, FALSE)
    OBVIOUS
  <2>3. Mirror(x, y) /\ g.instr = e.instr
    BY <1>9, <2>1, <2>2, ExecuteMirrors, MirrorFields
  <2>4. x.index = cpu.index /\ Typed(x)
    <3>1. e.instr # "prefix"
      BY <1>9 DEF Substituted, ControlInstrs
    <3>2. Onto(e, x)
      BY <1>10, <2>1, <3>1, ExecuteTyped
    <3> QED BY <1>10, <3>2 DEF Onto, Cursor
  <2>5. y = SwapWith(x, p) /\ Shaped(x)
    <3>1. Shaped(x) /\ x.opcode \in Byte /\ x.index \in {DD, FD} /\ p = index_pair(x)
      BY <1>2, <1>3, <2>4, Fields DEF index_pair, ByteFields
    <3> QED BY <2>3, <3>1, MirrorSwaps
  <2>6. Finished(g, FALSE) = SwapWith(Finished(e, FALSE), p)
    <3>1. /\ Finished(e, FALSE) = [BackToFetch(x) EXCEPT !.prefix = 0, !.index = 0,
                                     !.q = x.pending, !.pending = {}]
          /\ Finished(g, FALSE) = [BackToFetch(y) EXCEPT !.prefix = 0, !.index = 0,
                                     !.q = y.pending, !.pending = {}]
      BY <2>1, <2>2, <2>3 DEF Finished
    <3>2. PICK u : u = Finished(e, FALSE)
      OBVIOUS
    <3>3. PICK v : v = Finished(g, FALSE)
      OBVIOUS
    <3>4. Shaped(y) /\ y.pending = x.pending
      BY <2>3, MirrorFields, MirrorReads
    <3>5. /\ Shaped(u) /\ u.instr = NoInstr /\ u.cycle = 0 /\ u.cycle_limit = 0
          /\ u.prefix = 0 /\ u.index = 0 /\ u.q = x.pending /\ u.pending = {}
          /\ \A f \in CpuFields \ {"instr", "cycle", "cycle_limit", "prefix", "index", "q",
                                   "pending"} : u[f] = x[f]
      BY <2>5, <3>1, <3>2 DEF BackToFetch, Shaped, CpuFields, FlagFields
    <3>6. /\ Shaped(v) /\ v.instr = NoInstr /\ v.cycle = 0 /\ v.cycle_limit = 0
          /\ v.prefix = 0 /\ v.index = 0 /\ v.q = x.pending /\ v.pending = {}
          /\ \A f \in CpuFields \ {"instr", "cycle", "cycle_limit", "prefix", "index", "q",
                                   "pending"} : v[f] = y[f]
      BY <3>1, <3>3, <3>4 DEF BackToFetch, Shaped, CpuFields, FlagFields
    <3>7. /\ y.hl = x[p] /\ y[p] = x.hl
          /\ \A f \in CpuFields \ {"hl", p, "index"} : y[f] = x[f]
      BY <2>3, <2>4, <1>3 DEF Mirror, index_pair
    <3>8. PICK w : w = SwapWith(u, p)
      OBVIOUS
    <3>9. /\ Shaped(w) /\ w.index = 0 /\ w.hl = u[p] /\ w[p] = u.hl
          /\ \A f \in CpuFields \ {"hl", p, "index"} : w[f] = u[f]
      BY <1>3, <3>5, <3>8 DEF SwapWith, Shaped, CpuFields, WordFields
    <3>10. \A f \in CpuFields : v[f] = w[f]
      BY <1>3, <3>5, <3>6, <3>7, <3>9 DEF CpuFields, WordFields
    <3>11. v = w
      BY <3>6, <3>9, <3>10 DEF Shaped
    <3> QED BY <3>2, <3>3, <3>8, <3>11
  <2> QED BY <1>4, <1>7, <1>8, <1>9, <1>12, <2>6 DEF AfterCycle
<1> QED BY <1>11, <1>12

(* PrefixOnlySubstitutes for every program: under DD or FD every machine    *)
(* cycle of an instruction that is not about (IX+d) is the cycle without    *)
(* the prefix, seen in the mirror that exchanges HL and the index register. *)
THEOREM PrefixSubstitutes == Spec => []PrefixOnlySubstitutes
  BY InitInv, StepInv, PrefixSubstitutesNow, PTL DEF Spec

-----------------------------------------------------------------------------
(***************************************************************************)
(* The hooks, read as assignments of single fields of the core (Put): what *)
(* an enter hook puts on the bus.                                          *)
(***************************************************************************)

(* d is c but for the fields in changed. *)
Same(c, d, changed) == Shaped(d) /\ \A y \in CpuFields \ changed : d[y] = c[y]

(* The fields of the core, by name. *)
FieldsOfCore ==
  {"a", "i", "r", "opcode", "bus_data", "bc", "de", "hl", "ix", "iy", "sp", "pc", "wz", "tmp",
   "bus_addr", "bc_alt", "de_alt", "hl_alt", "f", "q", "pending", "iff1", "iff2", "halted",
   "nmi_latched", "int_inhibit", "im", "af_alt", "prefix", "index", "instr", "cycle",
   "cycle_limit"}

(* They are all of them. *)
LEMMA CoreFields == CpuFields = FieldsOfCore
BY DEF CpuFields, ByteFields, WordFields, FlagFields, BoolFields, FieldsOfCore

(* What an enter hook leaves, as assignments of single fields. *)
LEMMA EnterReads ==
  ASSUME NEW c, Shaped(c)
  PROVE  /\ Enter("none", c) = c
         /\ Enter("at_pc", c) = Put(Put(c, "bus_addr", c.pc), "pc", Plus(c.pc, 1))
         /\ Enter("at_pop", c) = Put(Put(c, "bus_addr", c.sp), "sp", Plus(c.sp, 1))
         /\ Enter("at_hl", c) = Put(c, "bus_addr", c.hl)
         /\ Enter("at_bc", c) = Put(c, "bus_addr", c.bc)
         /\ Enter("at_de", c) = Put(c, "bus_addr", c.de)
         /\ Enter("at_wz", c) = Put(c, "bus_addr", c.wz)
         /\ Enter("at_tmp", c) = Put(c, "bus_addr", c.tmp)
         /\ Enter("at_tmp_high", c) = Put(c, "bus_addr", Plus(c.tmp, 1))
         /\ Enter("at_sp", c) = Put(c, "bus_addr", c.sp)
         /\ Enter("at_sp_high", c) = Put(c, "bus_addr", Plus(c.sp, 1))
         /\ Enter("at_interrupt_table", c)
              = Put(Put(c, "bus_addr", WithHigh(c.tmp, c.i)), "tmp", WithHigh(c.tmp, c.i))
<1> USE DEF Put, Enter, ReadHooks, PushHooks, WriteHooks, IoHooks, JumpHooks, ReadHook, At
<1>1. Enter("none", c) = c
  OBVIOUS
<1>2. Enter("at_pc", c) = Put(Put(c, "bus_addr", c.pc), "pc", Plus(c.pc, 1))
  BY CoreFields DEF Shaped, FieldsOfCore
<1>3. Enter("at_pop", c) = Put(Put(c, "bus_addr", c.sp), "sp", Plus(c.sp, 1))
  BY CoreFields DEF Shaped, FieldsOfCore
<1>4. /\ Enter("at_hl", c) = Put(c, "bus_addr", c.hl)
      /\ Enter("at_bc", c) = Put(c, "bus_addr", c.bc)
      /\ Enter("at_de", c) = Put(c, "bus_addr", c.de)
  OBVIOUS
<1>5. /\ Enter("at_wz", c) = Put(c, "bus_addr", c.wz)
      /\ Enter("at_tmp", c) = Put(c, "bus_addr", c.tmp)
      /\ Enter("at_tmp_high", c) = Put(c, "bus_addr", Plus(c.tmp, 1))
  OBVIOUS
<1>6. /\ Enter("at_sp", c) = Put(c, "bus_addr", c.sp)
      /\ Enter("at_sp_high", c) = Put(c, "bus_addr", Plus(c.sp, 1))
      /\ Enter("at_interrupt_table", c)
           = Put(Put(c, "bus_addr", WithHigh(c.tmp, c.i)), "tmp", WithHigh(c.tmp, c.i))
  OBVIOUS
<1> QED BY <1>1, <1>2, <1>3, <1>4, <1>5, <1>6

(* A cycle that writes puts up an address and a byte; a push moves SP first. *)
Puts(c, address, byte) == Put(Put(c, "bus_addr", address), "bus_data", byte)
Pushed(c, byte) == Put(Puts(c, Plus(c.sp, -1), byte), "sp", Plus(c.sp, -1))

(* An enter hook that pushes puts the byte below SP, and moves SP there. *)
LEMMA PushAt ==
  ASSUME NEW c, Shaped(c), NEW byte
  PROVE  push_at(c, byte) = Pushed(c, byte)
BY CoreFields DEF push_at, write_at, Put, Puts, Pushed, Shaped, FieldsOfCore

(* What each of the pushing hooks puts up. *)
LEMMA EnterPushes ==
  ASSUME NEW c, Shaped(c)
  PROVE  /\ Enter("push_pc_high", c) = Pushed(c, High(c.pc))
         /\ Enter("push_pc_low", c) = Pushed(c, Low(c.pc))
         /\ Enter("push_pair_high", c) = Pushed(c, High(PairOf(c, pair_rp2(c))))
         /\ Enter("push_pair_low", c) = Pushed(c, Low(PairOf(c, pair_rp2(c))))
         /\ Enter("rst_target", c) = Pushed(Put(c, "wz", 8 * Y(c.opcode)), High(c.pc))
<1> USE DEF Enter, ReadHooks, PushHooks, WriteHooks, IoHooks, JumpHooks, PushHook
<1>1. Enter("push_pc_high", c) = Pushed(c, High(c.pc))
  BY PushAt
<1>2. Enter("push_pc_low", c) = Pushed(c, Low(c.pc))
  BY PushAt
<1>3. Enter("push_pair_high", c) = Pushed(c, High(PairOf(c, pair_rp2(c))))
  BY PushAt
<1>4. Enter("push_pair_low", c) = Pushed(c, Low(PairOf(c, pair_rp2(c))))
  BY PushAt
<1>5. Enter("rst_target", c) = Pushed(Put(c, "wz", 8 * Y(c.opcode)), High(c.pc))
  <2>1. Enter("rst_target", c) = push_at(Put(c, "wz", 8 * Y(c.opcode)), High(c.pc))
    BY DEF Put
  <2>2. Shaped(Put(c, "wz", 8 * Y(c.opcode)))
    BY GetPut, CoreFields DEF FieldsOfCore
  <2> QED BY <2>1, <2>2, PushAt
<1> QED BY <1>1, <1>2, <1>3, <1>4, <1>5

(* What each of the hooks that write puts up. *)
LEMMA EnterWrites ==
  ASSUME NEW c
  PROVE  /\ Enter("reg_to_hl", c) = Puts(c, c.hl, Slot(c, Z(c.opcode)))
         /\ Enter("a_at_bc", c) = Puts(c, c.bc, c.a)
         /\ Enter("a_at_de", c) = Puts(c, c.de, c.a)
         /\ Enter("a_at_tmp", c) = Puts(c, c.tmp, c.a)
         /\ Enter("l_at_tmp", c) = Puts(c, c.tmp, Low(c[index_pair(c)]))
         /\ Enter("h_at_tmp", c) = Puts(c, Plus(c.tmp, 1), High(c[index_pair(c)]))
         /\ Enter("h_at_sp", c) = Puts(c, Plus(c.sp, 1), High(c[index_pair(c)]))
         /\ Enter("l_at_sp", c) = Puts(c, c.sp, Low(c[index_pair(c)]))
         /\ Enter("rp_low", c) = Puts(c, c.tmp, Low(c[pair_rp(c)]))
         /\ Enter("rp_high", c) = Puts(c, Plus(c.tmp, 1), High(c[pair_rp(c)]))
         /\ Enter("plain_reg_at_wz", c) = Puts(c, c.wz, HalfOf(c, Z(c.opcode), "hl"))
<1> USE DEF Enter, ReadHooks, PushHooks, WriteHooks, IoHooks, JumpHooks, WriteHook
<1>1. \A w, b : write_at(c, w, b) = Puts(c, w, b)
  BY DEF write_at, Puts, Put
<1>2. /\ Enter("reg_to_hl", c) = Puts(c, c.hl, Slot(c, Z(c.opcode)))
      /\ Enter("a_at_bc", c) = Puts(c, c.bc, c.a)
      /\ Enter("a_at_de", c) = Puts(c, c.de, c.a)
      /\ Enter("a_at_tmp", c) = Puts(c, c.tmp, c.a)
  BY <1>1
<1>3. /\ Enter("l_at_tmp", c) = Puts(c, c.tmp, Low(c[index_pair(c)]))
      /\ Enter("h_at_tmp", c) = Puts(c, Plus(c.tmp, 1), High(c[index_pair(c)]))
      /\ Enter("h_at_sp", c) = Puts(c, Plus(c.sp, 1), High(c[index_pair(c)]))
      /\ Enter("l_at_sp", c) = Puts(c, c.sp, Low(c[index_pair(c)]))
  BY <1>1
<1>4. /\ Enter("rp_low", c) = Puts(c, c.tmp, Low(c[pair_rp(c)]))
      /\ Enter("rp_high", c) = Puts(c, Plus(c.tmp, 1), High(c[pair_rp(c)]))
      /\ Enter("plain_reg_at_wz", c) = Puts(c, c.wz, HalfOf(c, Z(c.opcode), "hl"))
  BY <1>1
<1> QED BY <1>2, <1>3, <1>4

(* What the hooks of ports and jumps do. *)
LEMMA EnterOthers ==
  ASSUME NEW c, Shaped(c)
  PROVE  /\ Enter("io_address", c) = Put(c, "bus_addr", WithHigh(c.tmp, c.a))
         /\ Enter("io_write", c) = Puts(c, WithHigh(c.tmp, c.a), c.a)
         /\ Enter("io_at_bc", c) = Put(c, "bus_addr", c.bc)
         /\ Enter("out_c", c) = Puts(c, c.bc, Slot(c, Y(c.opcode)))
         /\ \A port : port = WithHigh(c.bc, (High(c.bc) - 1) % 256) =>
              Enter("block_out", c) = Put(Put(c, "bus_addr", port), "bc", port)
         /\ \A target : target = Plus(c.pc, Signed(c.bus_data)) =>
              Enter("jump_relative", c) = Put(Put(c, "pc", target), "wz", target)
         /\ Enter("block_repeat", c)
              = Put(Put(c, "pc", Plus(c.pc, -2)), "wz", Plus(c.pc, -1))
<1> USE DEF Enter, ReadHooks, PushHooks, WriteHooks, IoHooks, JumpHooks, IoHook, JumpHook,
            Put, Puts, At, write_at
<1>1. /\ Enter("io_address", c) = Put(c, "bus_addr", WithHigh(c.tmp, c.a))
      /\ Enter("io_write", c) = Puts(c, WithHigh(c.tmp, c.a), c.a)
      /\ Enter("io_at_bc", c) = Put(c, "bus_addr", c.bc)
      /\ Enter("out_c", c) = Puts(c, c.bc, Slot(c, Y(c.opcode)))
  OBVIOUS
<1>2. \A port : port = WithHigh(c.bc, (High(c.bc) - 1) % 256) =>
        Enter("block_out", c) = Put(Put(c, "bus_addr", port), "bc", port)
  OBVIOUS
<1>3. \A target : target = Plus(c.pc, Signed(c.bus_data)) =>
        Enter("jump_relative", c) = Put(Put(c, "pc", target), "wz", target)
  OBVIOUS
<1>4. Enter("block_repeat", c) = Put(Put(c, "pc", Plus(c.pc, -2)), "wz", Plus(c.pc, -1))
  BY CoreFields DEF Shaped, FieldsOfCore
<1> QED BY <1>1, <1>2, <1>3, <1>4
-----------------------------------------------------------------------------
(***************************************************************************)
(* What an exit hook leaves of the byte that came back.                    *)
(***************************************************************************)

(* What an exit hook leaves, likewise. *)
LEMMA ExitCollects ==
  ASSUME NEW c
  PROVE  /\ Exit("none", c) = c
         /\ Exit("to_tmp_low", c) = Put(c, "tmp", WithLow(c.tmp, c.bus_data))
         /\ Exit("to_tmp_high", c) = Put(c, "tmp", WithHigh(c.tmp, c.bus_data))
         /\ Exit("to_wz_low", c) = Put(c, "wz", WithLow(c.wz, c.bus_data))
         /\ Exit("to_wz_high", c) = Put(c, "wz", WithHigh(c.wz, c.bus_data))
         /\ Exit("to_l", c) = Put(c, index_pair(c), WithLow(c[index_pair(c)], c.bus_data))
         /\ Exit("to_rp_low", c) = Put(c, pair_rp(c), WithLow(c[pair_rp(c)], c.bus_data))
         /\ Exit("to_displacement", c)
              = Put(c, "wz", Plus(c[index_pair(c)], Signed(c.bus_data)))
         /\ Exit("latch_operation", c) = Put(c, "opcode", c.bus_data)
<1> USE DEF Put, Exit, CollectHooks, BranchHooks, VectorHooks, ByteHooks, BlockHooks, CollectHook
<1>1. Exit("none", c) = c
  OBVIOUS
<1>2. /\ Exit("to_tmp_low", c) = Put(c, "tmp", WithLow(c.tmp, c.bus_data))
      /\ Exit("to_tmp_high", c) = Put(c, "tmp", WithHigh(c.tmp, c.bus_data))
      /\ Exit("to_wz_low", c) = Put(c, "wz", WithLow(c.wz, c.bus_data))
      /\ Exit("to_wz_high", c) = Put(c, "wz", WithHigh(c.wz, c.bus_data))
  OBVIOUS
<1>3. /\ Exit("to_l", c) = Put(c, index_pair(c), WithLow(c[index_pair(c)], c.bus_data))
      /\ Exit("to_rp_low", c) = Put(c, pair_rp(c), WithLow(c[pair_rp(c)], c.bus_data))
  OBVIOUS
<1>4. /\ Exit("to_displacement", c)
           = Put(c, "wz", Plus(c[index_pair(c)], Signed(c.bus_data)))
      /\ Exit("latch_operation", c) = Put(c, "opcode", c.bus_data)
  OBVIOUS
<1> QED BY <1>1, <1>2, <1>3, <1>4

(* A condition that fails ends the instruction where it is. *)
Stops(c) == Put(c, "cycle_limit", c.cycle + 1)

(* The exit hooks that decide a jump, a call or a return. *)
LEMMA ExitBranches ==
  ASSUME NEW c
  PROVE  /\ Exit("jr_condition", c)
              = IF Alu!condition_met(c.f, Y(c.opcode) % 4) THEN c ELSE Stops(c)
         /\ Exit("return_condition", c)
              = IF Alu!condition_met(c.f, Y(c.opcode)) THEN c ELSE Stops(c)
         /\ \A d : d = Put(c, "wz", WithHigh(c.wz, c.bus_data)) =>
              Exit("call_condition", c)
                = IF Alu!condition_met(c.f, Y(c.opcode)) THEN d ELSE Stops(d)
         /\ \A d : d = Put(c, "bc", WithHigh(c.bc, (High(c.bc) - 1) % 256)) =>
              Exit("djnz_condition", c) = IF High(c.bc) # 1 THEN d ELSE Stops(d)
<1> USE DEF Exit, CollectHooks, BranchHooks, VectorHooks, ByteHooks, BlockHooks, BranchHook
<1>1. /\ Exit("jr_condition", c)
           = IF Alu!condition_met(c.f, Y(c.opcode) % 4) THEN c ELSE Stops(c)
      /\ Exit("return_condition", c)
           = IF Alu!condition_met(c.f, Y(c.opcode)) THEN c ELSE Stops(c)
  BY DEF Put, EndUnless, end_instruction_here, Stops
<1>2. ASSUME NEW d, d = Put(c, "wz", WithHigh(c.wz, c.bus_data))
      PROVE  Exit("call_condition", c)
               = IF Alu!condition_met(c.f, Y(c.opcode)) THEN d ELSE Stops(d)
  <2>1. d = [c EXCEPT !.wz = WithHigh(@, c.bus_data)]
    BY <1>2 DEF Put
  <2>2. Exit("call_condition", c) = EndUnless(Alu!condition_met(c.f, Y(c.opcode)), d)
    BY <2>1
  <2> QED BY <2>2 DEF Put, EndUnless, end_instruction_here, Stops
<1>3. ASSUME NEW d, d = Put(c, "bc", WithHigh(c.bc, (High(c.bc) - 1) % 256))
      PROVE  Exit("djnz_condition", c) = IF High(c.bc) # 1 THEN d ELSE Stops(d)
  <2>1. d = [c EXCEPT !.bc = WithHigh(@, (High(@) - 1) % 256)]
    BY <1>3 DEF Put
  <2>2. Exit("djnz_condition", c) = EndUnless(High(c.bc) # 1, d)
    BY <2>1
  <2> QED BY <2>2 DEF Put, EndUnless, end_instruction_here, Stops
<1> QED BY <1>1, <1>2, <1>3

(* The exit hooks that go somewhere. *)
LEMMA ExitVectors ==
  ASSUME NEW c, Shaped(c)
  PROVE  /\ \A w : w = WithHigh(c.wz, c.bus_data) =>
              /\ Exit("return_to_wz_high", c) = Put(Put(c, "pc", w), "wz", w)
              /\ Exit("return_from_interrupt", c)
                   = Put(Put(Put(c, "pc", w), "wz", w), "iff1", c.iff2)
         /\ Exit("take_wz", c) = Put(c, "pc", c.wz)
         /\ Exit("nmi_vector", c) = Put(Put(c, "pc", 102), "wz", 102)
         /\ \A w : w = (IF c.im = 0 THEN 8 * Y(Low(c.tmp)) ELSE 56) =>
              Exit("interrupt_vector", c) = Put(Put(c, "pc", w), "wz", w)
<1> USE DEF Put, Exit, CollectHooks, BranchHooks, VectorHooks, ByteHooks, BlockHooks,
            VectorHook, GoTo
<1>1. ASSUME NEW w, w = WithHigh(c.wz, c.bus_data)
      PROVE  Exit("return_to_wz_high", c) = Put(Put(c, "pc", w), "wz", w)
  BY <1>1
<1>2. ASSUME NEW w, w = WithHigh(c.wz, c.bus_data)
      PROVE  Exit("return_from_interrupt", c)
               = Put(Put(Put(c, "pc", w), "wz", w), "iff1", c.iff2)
  BY <1>2
<1>3. Exit("take_wz", c) = Put(c, "pc", c.wz)
  OBVIOUS
<1>4. Exit("nmi_vector", c) = Put(Put(c, "pc", 102), "wz", 102)
  OBVIOUS
<1>5. ASSUME NEW w, w = (IF c.im = 0 THEN 8 * Y(Low(c.tmp)) ELSE 56)
      PROVE  Exit("interrupt_vector", c) = Put(Put(c, "pc", w), "wz", w)
  BY <1>5
<1> QED BY <1>1, <1>2, <1>3, <1>4, <1>5

(* Flags written, and a result of the ALU with them. *)
Flagged(c, flags) == Put(Put(c, "f", flags), "pending", flags)

(* Flags and results, as assignments. *)
LEMMA FlagsWritten ==
  ASSUME NEW c, NEW flags
  PROVE  /\ WriteFlags(c, flags) = Flagged(c, flags)
         /\ Shaped(c) => /\ Same(c, Flagged(c, flags), {"f", "pending"})
                         /\ Flagged(c, flags).f = flags /\ Flagged(c, flags).pending = flags
<1>1. WriteFlags(c, flags) = Flagged(c, flags)
  BY DEF WriteFlags, Flagged, Put
<1>2. ASSUME Shaped(c)
      PROVE  /\ Same(c, Flagged(c, flags), {"f", "pending"})
             /\ Flagged(c, flags).f = flags /\ Flagged(c, flags).pending = flags
  BY <1>2, GetPut, CoreFields DEF Flagged, Same, FieldsOfCore
<1> QED BY <1>1, <1>2

(* The exit hooks that turn the byte read into a result. *)
LEMMA ExitBytes ==
  ASSUME NEW c
  PROVE  /\ \A out : out = Alu!alu_inc(c.f, c.bus_data) =>
              Exit("inc_bus", c) = Put(Flagged(c, out.flags), "bus_data", out.value)
         /\ \A out : out = Alu!alu_dec(c.f, c.bus_data) =>
              Exit("dec_bus", c) = Put(Flagged(c, out.flags), "bus_data", out.value)
         /\ Exit("cb_bus", c)
              = Put(CbFlags(c, c.bus_data), "bus_data", CbResult(c, c.bus_data).value)
         /\ Exit("rrd", c) = DigitHook(TRUE, c)
         /\ Exit("rld", c) = DigitHook(FALSE, c)
         /\ Exit("index_cb_apply", c) = IndexCbHook(c)
<1> USE DEF Exit, CollectHooks, BranchHooks, VectorHooks, ByteHooks, BlockHooks, ByteHook
<1>1. ASSUME NEW out, out = Alu!alu_inc(c.f, c.bus_data)
      PROVE  Exit("inc_bus", c) = Put(Flagged(c, out.flags), "bus_data", out.value)
  BY <1>1, FlagsWritten DEF Modified, Put
<1>2. ASSUME NEW out, out = Alu!alu_dec(c.f, c.bus_data)
      PROVE  Exit("dec_bus", c) = Put(Flagged(c, out.flags), "bus_data", out.value)
  BY <1>2, FlagsWritten DEF Modified, Put
<1>3. Exit("cb_bus", c)
        = Put(CbFlags(c, c.bus_data), "bus_data", CbResult(c, c.bus_data).value)
  BY DEF Put
<1>4. /\ Exit("rrd", c) = DigitHook(TRUE, c) /\ Exit("rld", c) = DigitHook(FALSE, c)
      /\ Exit("index_cb_apply", c) = IndexCbHook(c)
  OBVIOUS
<1> QED BY <1>1, <1>2, <1>3, <1>4

(* The exit hooks that end a pass of a block instruction. *)
LEMMA ExitBlocks ==
  ASSUME NEW c
  PROVE  /\ Exit("block_transfer", c) = TransferHook(c)
         /\ Exit("block_compare", c) = CompareHook(c)
         /\ Exit("block_in", c) = BlockInHook(c)
         /\ Exit("block_exit_out", c) = BlockOutHook(c)
BY DEF Exit, CollectHooks, BranchHooks, VectorHooks, ByteHooks, BlockHooks, BlockHook

(* The tables of hooks, group by group, as GroupCycles has the cycles.      *)
LEMMA GroupHooks ==
  ASSUME NEW n \in Instrs
  PROVE  /\ n \in IndexedInstrs      => HooksOf[n] = IndexedHooks(n)
         /\ n \in EdInstrs           => HooksOf[n] = EdHooks(n)
         /\ n \in BlockInstrs        => HooksOf[n] = BlockCycleHooks(n)
         /\ n \in LoadInstrs         => HooksOf[n] = LoadHooks(n)
         /\ n \in ArithmeticInstrs   => HooksOf[n] = ArithmeticHooks(n)
         /\ n \in ControlInstrs      => HooksOf[n] = ControlHooks(n)
         /\ n \in InterruptSequences => HooksOf[n] = InterruptHooks(n)
<1> USE DEF HooksOf, FetchOnly, IndexedInstrs, EdInstrs, BlockInstrs, LoadInstrs,
            ArithmeticInstrs, ControlInstrs, InterruptSequences
<1>1. ASSUME n \in IndexedInstrs      PROVE HooksOf[n] = IndexedHooks(n)
  BY <1>1
<1>2. ASSUME n \in EdInstrs           PROVE HooksOf[n] = EdHooks(n)
  BY <1>2
<1>3. ASSUME n \in BlockInstrs        PROVE HooksOf[n] = BlockCycleHooks(n)
  BY <1>3
<1>4. ASSUME n \in LoadInstrs         PROVE HooksOf[n] = LoadHooks(n)
  BY <1>4
<1>5. ASSUME n \in ArithmeticInstrs   PROVE HooksOf[n] = ArithmeticHooks(n)
  BY <1>5
<1>6. ASSUME n \in ControlInstrs      PROVE HooksOf[n] = ControlHooks(n)
  BY <1>6
<1>7. ASSUME n \in InterruptSequences PROVE HooksOf[n] = InterruptHooks(n)
  BY <1>7
<1> QED BY <1>1, <1>2, <1>3, <1>4, <1>5, <1>6, <1>7
-----------------------------------------------------------------------------
(***************************************************************************)
(* One machine cycle of an instruction: enter hook, bus, exit hook, as one *)
(* relation (OneCycle) between the core and memory before it and after it. *)
(***************************************************************************)

(* One machine cycle of an instruction, from the core d that enters it to   *)
(* the core e that leaves it: what the bus answers, and what memory keeps.  *)
Heard(c, m, byte) ==
  /\ byte \in Byte
  /\ Kind(c) = "mem_read" => byte = Manual!Peek(m, c.bus_addr)
  /\ Kind(c) = "io_read"  => byte \in PortBytes
  /\ Kind(c) = "int_ack"  => byte \in Vectors
Kept(c, m) == IF Kind(c) = "mem_write" THEN Manual!Poke(m, c.bus_addr, c.bus_data) ELSE m
OneCycle(d, m, e, l) ==
  /\ Typed(d) /\ Typed(e) /\ d.instr \in Instrs
  /\ Begun(d).instr = d.instr /\ Begun(d).cycle = d.cycle
  /\ e.instr = d.instr /\ e.cycle = d.cycle + 1
  /\ \E byte : /\ Heard(Begun(d), m, byte)
               /\ e = Ended(Begun(d), byte)
               /\ l = Kept(Begun(d), m)

(* Core d is about to enter such a cycle, with these hooks. *)
Enters(d, kind, h, x) ==
  /\ CyclesOf[d.instr][d.cycle + 1] = kind
  /\ HooksOf[d.instr][d.cycle + 1] = <<h, x>>

(* What the exit hook leaves is counted as one cycle more. *)
LEMMA CycleLeaves ==
  ASSUME NEW d, NEW m, NEW e, NEW l, OneCycle(d, m, e, l),
         NEW kind, NEW h, NEW x, Enters(d, kind, h, x)
  PROVE  \E byte : /\ Heard(Begun(d), m, byte)
                   /\ Kind(Begun(d)) = kind /\ Begun(d) = Enter(h, d)
                   /\ e = Put(Exit(x, Sampled(Enter(h, d), byte)), "cycle", d.cycle + 1)
                   /\ l = Kept(Begun(d), m)
<1>1. PICK byte : /\ Heard(Begun(d), m, byte)
                  /\ e = Ended(Begun(d), byte)
                  /\ l = Kept(Begun(d), m)
  BY DEF OneCycle
<1>2. Begun(d) = Enter(h, d)
  BY DEF Begun, HooksAt, Enters
<1>3. /\ ~Fetching(Begun(d)) /\ HooksAt(Begun(d)) = <<h, x>> /\ Kind(Begun(d)) = kind
  <2>1. d.instr # NoInstr
    BY DEF OneCycle, NoInstr, Instrs, FetchOnly, IndexedInstrs, EdInstrs, BlockInstrs, LoadInstrs,
           ArithmeticInstrs, ControlInstrs, InterruptSequences
  <2> QED BY <2>1 DEF OneCycle, Fetching, HooksAt, Kind, Enters
<1>4. PICK s : s = Exit(x, Sampled(Enter(h, d), byte))
  OBVIOUS
<1>5. e = [s EXCEPT !.cycle = @ + 1]
  BY <1>1, <1>2, <1>3, <1>4 DEF Ended
<1>6. e = Put(s, "cycle", d.cycle + 1)
  <2>1. "cycle" \in DOMAIN e
    BY CoreFields DEF OneCycle, Typed, FieldsOfCore
  <2>2. e.cycle = s.cycle + 1
    BY <1>5, <2>1
  <2> QED BY <1>5, <2>2 DEF OneCycle, Put
<1> QED BY <1>1, <1>2, <1>3, <1>4, <1>6

(* A byte of a memory that holds bytes. *)
LEMMA PeekIsAByte ==
  ASSUME NEW m, ByteMemory(m), NEW address \in Word
  PROVE  Manual!Peek(m, address) \in Byte
<1>1. address % 65536 = address
  BY DEF Word, Alu!Word
<1>2. Background(address) \in Byte
  <2>1. High(address) \in Byte /\ Low(address) \in Byte
    BY Widths, 0 \in Byte DEF Byte
  <2>2. address = 256 * High(address) + Low(address)
    BY DEF Word, Alu!Word, High, Low
  <2> QED BY <2>1, <2>2, RegistersAssumption
<1> QED BY <1>1, <1>2 DEF Manual!Peek, ByteMemory

(* The cycles that move no byte into the core. *)
LEMMA QuietCycle ==
  ASSUME NEW d, NEW m, NEW e, NEW l, OneCycle(d, m, e, l),
         NEW kind, NEW h, NEW x, Enters(d, kind, h, x),
         kind \in IdleCycles \union {"io_write"}
  PROVE  e = Put(Exit(x, Enter(h, d)), "cycle", d.cycle + 1) /\ l = m
<1>1. kind \notin {"m1_fetch", "mem_read", "io_read", "int_ack", "nmi_ack", "mem_write"}
  BY DEF IdleCycles
<1>2. PICK byte : /\ Heard(Begun(d), m, byte)
                  /\ Kind(Begun(d)) = kind /\ Begun(d) = Enter(h, d)
                  /\ e = Put(Exit(x, Sampled(Enter(h, d), byte)), "cycle", d.cycle + 1)
                  /\ l = Kept(Begun(d), m)
  BY CycleLeaves
<1>3. Sampled(Enter(h, d), byte) = Enter(h, d)
  BY <1>1, <1>2 DEF Sampled
<1> QED BY <1>1, <1>2, <1>3 DEF Kept

(* A cycle that writes changes one byte of memory. *)
LEMMA WriteCycle ==
  ASSUME NEW d, NEW m, NEW e, NEW l, OneCycle(d, m, e, l),
         NEW h, NEW x, Enters(d, "mem_write", h, x)
  PROVE  /\ e = Put(Exit(x, Enter(h, d)), "cycle", d.cycle + 1)
         /\ l = Manual!Poke(m, Enter(h, d).bus_addr, Enter(h, d).bus_data)
<1>1. PICK byte : /\ Heard(Begun(d), m, byte)
                  /\ Kind(Begun(d)) = "mem_write" /\ Begun(d) = Enter(h, d)
                  /\ e = Put(Exit(x, Sampled(Enter(h, d), byte)), "cycle", d.cycle + 1)
                  /\ l = Kept(Begun(d), m)
  BY CycleLeaves
<1>2. Sampled(Enter(h, d), byte) = Enter(h, d)
  BY <1>1 DEF Sampled
<1> QED BY <1>1, <1>2 DEF Kept

(* A cycle that reads brings back what memory holds. *)
LEMMA ReadCycle ==
  ASSUME NEW d, NEW m, NEW e, NEW l, OneCycle(d, m, e, l),
         NEW h, NEW x, Enters(d, "mem_read", h, x),
         NEW byte, byte = Manual!Peek(m, Enter(h, d).bus_addr)
  PROVE  /\ e = Put(Exit(x, Put(Enter(h, d), "bus_data", byte)), "cycle", d.cycle + 1)
         /\ l = m /\ byte \in Byte
<1>1. PICK b : /\ Heard(Begun(d), m, b)
               /\ Kind(Begun(d)) = "mem_read" /\ Begun(d) = Enter(h, d)
               /\ e = Put(Exit(x, Sampled(Enter(h, d), b)), "cycle", d.cycle + 1)
               /\ l = Kept(Begun(d), m)
  BY CycleLeaves
<1>2. Sampled(Enter(h, d), b) = Put(Enter(h, d), "bus_data", b) /\ b = byte
  BY <1>1 DEF Sampled, Heard, Put
<1> QED BY <1>1, <1>2 DEF Kept, Heard

(* A cycle that reads a port brings back some byte of the port. *)
LEMMA PortCycle ==
  ASSUME NEW d, NEW m, NEW e, NEW l, OneCycle(d, m, e, l),
         NEW h, NEW x, Enters(d, "io_read", h, x)
  PROVE  \E byte \in PortBytes :
           /\ e = Put(Exit(x, Put(Enter(h, d), "bus_data", byte)), "cycle", d.cycle + 1)
           /\ l = m /\ byte \in Byte
<1>1. PICK b : /\ Heard(Begun(d), m, b)
               /\ Kind(Begun(d)) = "io_read" /\ Begun(d) = Enter(h, d)
               /\ e = Put(Exit(x, Sampled(Enter(h, d), b)), "cycle", d.cycle + 1)
               /\ l = Kept(Begun(d), m)
  BY CycleLeaves
<1>2. Sampled(Enter(h, d), b) = Put(Enter(h, d), "bus_data", b)
  BY <1>1 DEF Sampled, Put
<1> QED BY <1>1, <1>2 DEF Kept, Heard

(* An acknowledge has no enter hook; it counts R. *)
LEMMA AckCycle ==
  ASSUME NEW d, NEW m, NEW e, NEW l, OneCycle(d, m, e, l),
         NEW kind \in {"int_ack", "nmi_ack"}, NEW x, Enters(d, kind, "none", x),
         NEW r, r = 128 * (d.r \div 128) + ((d.r + 1) % 128)
  PROVE  /\ l = m
         /\ kind = "nmi_ack" => e = Put(Exit(x, Put(d, "r", r)), "cycle", d.cycle + 1)
         /\ kind = "int_ack" =>
              \E byte \in Vectors :
                /\ e = Put(Exit(x, Put(Put(d, "r", r), "bus_data", byte)), "cycle", d.cycle + 1)
                /\ byte \in Byte
<1>1. PICK b : /\ Heard(Begun(d), m, b)
               /\ Kind(Begun(d)) = kind /\ Begun(d) = Enter("none", d)
               /\ e = Put(Exit(x, Sampled(Enter("none", d), b)), "cycle", d.cycle + 1)
               /\ l = Kept(Begun(d), m)
  BY CycleLeaves
<1>2. Enter("none", d) = d
  BY Fields, EnterReads DEF OneCycle
<1>3. Refreshed(d) = Put(d, "r", r)
  BY DEF Refreshed, Put
<1>4. CASE kind = "nmi_ack"
  <2>1. Sampled(d, b) = Put(d, "r", r)
    BY <1>1, <1>2, <1>3, <1>4 DEF Sampled
  <2> QED BY <1>1, <1>2, <1>4, <2>1 DEF Kept
<1>5. CASE kind = "int_ack"
  <2>1. Sampled(d, b) = Put(Put(d, "r", r), "bus_data", b)
    BY <1>1, <1>2, <1>3, <1>5 DEF Sampled, Put
  <2> QED BY <1>1, <1>2, <1>5, <2>1 DEF Kept, Heard
<1> QED BY <1>4, <1>5
-----------------------------------------------------------------------------
(***************************************************************************)
(* What a cycle that reads leaves, enter hook by enter hook.               *)
(***************************************************************************)

(* A cycle up to its exit hook x: what its enter hook has put up, and the   *)
(* byte that came back, are in f.                                          *)
LEMMA InCore ==
  /\ "a" \in CpuFields /\ "i" \in CpuFields /\ "r" \in CpuFields /\ "opcode" \in CpuFields
  /\ "bus_data" \in CpuFields /\ "bc" \in CpuFields /\ "de" \in CpuFields /\ "hl" \in CpuFields
  /\ "ix" \in CpuFields /\ "iy" \in CpuFields /\ "sp" \in CpuFields /\ "pc" \in CpuFields
  /\ "wz" \in CpuFields /\ "tmp" \in CpuFields /\ "bus_addr" \in CpuFields /\ "bc_alt" \in CpuFields
  /\ "de_alt" \in CpuFields /\ "hl_alt" \in CpuFields /\ "f" \in CpuFields /\ "q" \in CpuFields
  /\ "pending" \in CpuFields /\ "iff1" \in CpuFields /\ "iff2" \in CpuFields /\
       "halted" \in CpuFields
  /\ "nmi_latched" \in CpuFields /\ "int_inhibit" \in CpuFields /\ "im" \in CpuFields /\
       "af_alt" \in CpuFields
  /\ "prefix" \in CpuFields /\ "index" \in CpuFields /\ "instr" \in CpuFields /\
       "cycle" \in CpuFields
  /\ "cycle_limit" \in CpuFields
BY CoreFields DEF FieldsOfCore

(* A read at any address that its hook puts up. *)
LEMMA ReadLeaves ==
  ASSUME NEW d, NEW m, NEW e, NEW l, OneCycle(d, m, e, l), NEW h, NEW x,
         Enters(d, "mem_read", h, x), NEW c, c = Enter(h, d), Shaped(c)
  PROVE  \E f : /\ Same(c, f, {"bus_data"}) /\ f.bus_data = Manual!Peek(m, c.bus_addr)
                /\ f.bus_data \in Byte /\ l = m
                /\ e = Put(Exit(x, f), "cycle", d.cycle + 1)
<1>1. PICK byte : byte = Manual!Peek(m, c.bus_addr)
  OBVIOUS
<1>2. /\ e = Put(Exit(x, Put(c, "bus_data", byte)), "cycle", d.cycle + 1)
      /\ l = m /\ byte \in Byte
  BY <1>1, ReadCycle
<1>3. PICK f : f = Put(c, "bus_data", byte)
  OBVIOUS
<1>4. Same(c, f, {"bus_data"}) /\ f.bus_data = byte
  BY <1>3, GetPut, InCore DEF Same
<1> QED BY <1>1, <1>2, <1>3, <1>4

LEMMA AtPcReads ==
  ASSUME NEW d, NEW m, NEW e, NEW l, OneCycle(d, m, e, l), NEW x, Enters(d, "mem_read", "at_pc", x)
  PROVE  \E f : /\ Same(d, f, {"bus_addr", "bus_data", "pc"})
                /\ f.bus_addr = d.pc /\ f.pc = Plus(d.pc, 1)
                /\ f.bus_data = Manual!Peek(m, d.pc) /\ f.bus_data \in Byte /\ l = m
                /\ e = Put(Exit(x, f), "cycle", d.cycle + 1)
<1>1. PICK c : c = Enter("at_pc", d)
  OBVIOUS
<1>2. Shaped(d)
  BY Fields DEF OneCycle
<1>3. Same(d, c, {"bus_addr", "pc"}) /\ c.bus_addr = d.pc /\ c.pc = Plus(d.pc, 1)
  <2>1. c = Put(Put(d, "bus_addr", d.pc), "pc", Plus(d.pc, 1))
    BY <1>1, <1>2, EnterReads
  <2> QED BY <1>2, <2>1, GetPut, InCore DEF Same
<1>4. PICK f : /\ Same(c, f, {"bus_data"}) /\ f.bus_data = Manual!Peek(m, c.bus_addr)
               /\ f.bus_data \in Byte /\ l = m
               /\ e = Put(Exit(x, f), "cycle", d.cycle + 1)
  BY <1>1, <1>3, ReadLeaves DEF Same
<1> QED BY <1>3, <1>4, InCore DEF Same

LEMMA AtPopReads ==
  ASSUME NEW d, NEW m, NEW e, NEW l, OneCycle(d, m, e, l), NEW x, Enters(d, "mem_read", "at_pop", x)
  PROVE  \E f : /\ Same(d, f, {"bus_addr", "bus_data", "sp"})
                /\ f.bus_addr = d.sp /\ f.sp = Plus(d.sp, 1)
                /\ f.bus_data = Manual!Peek(m, d.sp) /\ f.bus_data \in Byte /\ l = m
                /\ e = Put(Exit(x, f), "cycle", d.cycle + 1)
<1>1. PICK c : c = Enter("at_pop", d)
  OBVIOUS
<1>2. Shaped(d)
  BY Fields DEF OneCycle
<1>3. Same(d, c, {"bus_addr", "sp"}) /\ c.bus_addr = d.sp /\ c.sp = Plus(d.sp, 1)
  <2>1. c = Put(Put(d, "bus_addr", d.sp), "sp", Plus(d.sp, 1))
    BY <1>1, <1>2, EnterReads
  <2> QED BY <1>2, <2>1, GetPut, InCore DEF Same
<1>4. PICK f : /\ Same(c, f, {"bus_data"}) /\ f.bus_data = Manual!Peek(m, c.bus_addr)
               /\ f.bus_data \in Byte /\ l = m
               /\ e = Put(Exit(x, f), "cycle", d.cycle + 1)
  BY <1>1, <1>3, ReadLeaves DEF Same
<1> QED BY <1>3, <1>4, InCore DEF Same

LEMMA AtTableReads ==
  ASSUME NEW d, NEW m, NEW e, NEW l, OneCycle(d, m, e, l), NEW x,
           Enters(d, "mem_read", "at_interrupt_table", x)
  PROVE  \E f : /\ Same(d, f, {"bus_addr", "bus_data", "tmp"})
                /\ f.bus_addr = WithHigh(d.tmp, d.i) /\ f.tmp = WithHigh(d.tmp, d.i)
                /\ f.bus_data = Manual!Peek(m, WithHigh(d.tmp, d.i)) /\ f.bus_data \in Byte /\ l = m
                /\ e = Put(Exit(x, f), "cycle", d.cycle + 1)
<1>1. PICK c : c = Enter("at_interrupt_table", d)
  OBVIOUS
<1>2. Shaped(d)
  BY Fields DEF OneCycle
<1>3. Same(d, c, {"bus_addr", "tmp"}) /\ c.bus_addr = WithHigh(d.tmp, d.i) /\
        c.tmp = WithHigh(d.tmp, d.i)
  <2>1. c = Put(Put(d, "bus_addr", WithHigh(d.tmp, d.i)), "tmp", WithHigh(d.tmp, d.i))
    BY <1>1, <1>2, EnterReads
  <2> QED BY <1>2, <2>1, GetPut, InCore DEF Same
<1>4. PICK f : /\ Same(c, f, {"bus_data"}) /\ f.bus_data = Manual!Peek(m, c.bus_addr)
               /\ f.bus_data \in Byte /\ l = m
               /\ e = Put(Exit(x, f), "cycle", d.cycle + 1)
  BY <1>1, <1>3, ReadLeaves DEF Same
<1> QED BY <1>3, <1>4, InCore DEF Same

LEMMA AtHlReads ==
  ASSUME NEW d, NEW m, NEW e, NEW l, OneCycle(d, m, e, l), NEW x, Enters(d, "mem_read", "at_hl", x)
  PROVE  \E f : /\ Same(d, f, {"bus_addr", "bus_data"}) /\ f.bus_addr = d.hl
                /\ f.bus_data = Manual!Peek(m, d.hl) /\ f.bus_data \in Byte /\ l = m
                /\ e = Put(Exit(x, f), "cycle", d.cycle + 1)
<1>1. PICK c : c = Enter("at_hl", d)
  OBVIOUS
<1>2. Shaped(d)
  BY Fields DEF OneCycle
<1>3. Same(d, c, {"bus_addr"}) /\ c.bus_addr = d.hl
  <2>1. c = Put(d, "bus_addr", d.hl)
    BY <1>1, <1>2, EnterReads
  <2> QED BY <1>2, <2>1, GetPut, InCore DEF Same
<1>4. PICK f : /\ Same(c, f, {"bus_data"}) /\ f.bus_data = Manual!Peek(m, c.bus_addr)
               /\ f.bus_data \in Byte /\ l = m
               /\ e = Put(Exit(x, f), "cycle", d.cycle + 1)
  BY <1>1, <1>3, ReadLeaves DEF Same
<1> QED BY <1>3, <1>4, InCore DEF Same

LEMMA AtBcReads ==
  ASSUME NEW d, NEW m, NEW e, NEW l, OneCycle(d, m, e, l), NEW x, Enters(d, "mem_read", "at_bc", x)
  PROVE  \E f : /\ Same(d, f, {"bus_addr", "bus_data"}) /\ f.bus_addr = d.bc
                /\ f.bus_data = Manual!Peek(m, d.bc) /\ f.bus_data \in Byte /\ l = m
                /\ e = Put(Exit(x, f), "cycle", d.cycle + 1)
<1>1. PICK c : c = Enter("at_bc", d)
  OBVIOUS
<1>2. Shaped(d)
  BY Fields DEF OneCycle
<1>3. Same(d, c, {"bus_addr"}) /\ c.bus_addr = d.bc
  <2>1. c = Put(d, "bus_addr", d.bc)
    BY <1>1, <1>2, EnterReads
  <2> QED BY <1>2, <2>1, GetPut, InCore DEF Same
<1>4. PICK f : /\ Same(c, f, {"bus_data"}) /\ f.bus_data = Manual!Peek(m, c.bus_addr)
               /\ f.bus_data \in Byte /\ l = m
               /\ e = Put(Exit(x, f), "cycle", d.cycle + 1)
  BY <1>1, <1>3, ReadLeaves DEF Same
<1> QED BY <1>3, <1>4, InCore DEF Same

LEMMA AtDeReads ==
  ASSUME NEW d, NEW m, NEW e, NEW l, OneCycle(d, m, e, l), NEW x, Enters(d, "mem_read", "at_de", x)
  PROVE  \E f : /\ Same(d, f, {"bus_addr", "bus_data"}) /\ f.bus_addr = d.de
                /\ f.bus_data = Manual!Peek(m, d.de) /\ f.bus_data \in Byte /\ l = m
                /\ e = Put(Exit(x, f), "cycle", d.cycle + 1)
<1>1. PICK c : c = Enter("at_de", d)
  OBVIOUS
<1>2. Shaped(d)
  BY Fields DEF OneCycle
<1>3. Same(d, c, {"bus_addr"}) /\ c.bus_addr = d.de
  <2>1. c = Put(d, "bus_addr", d.de)
    BY <1>1, <1>2, EnterReads
  <2> QED BY <1>2, <2>1, GetPut, InCore DEF Same
<1>4. PICK f : /\ Same(c, f, {"bus_data"}) /\ f.bus_data = Manual!Peek(m, c.bus_addr)
               /\ f.bus_data \in Byte /\ l = m
               /\ e = Put(Exit(x, f), "cycle", d.cycle + 1)
  BY <1>1, <1>3, ReadLeaves DEF Same
<1> QED BY <1>3, <1>4, InCore DEF Same

LEMMA AtWzReads ==
  ASSUME NEW d, NEW m, NEW e, NEW l, OneCycle(d, m, e, l), NEW x, Enters(d, "mem_read", "at_wz", x)
  PROVE  \E f : /\ Same(d, f, {"bus_addr", "bus_data"}) /\ f.bus_addr = d.wz
                /\ f.bus_data = Manual!Peek(m, d.wz) /\ f.bus_data \in Byte /\ l = m
                /\ e = Put(Exit(x, f), "cycle", d.cycle + 1)
<1>1. PICK c : c = Enter("at_wz", d)
  OBVIOUS
<1>2. Shaped(d)
  BY Fields DEF OneCycle
<1>3. Same(d, c, {"bus_addr"}) /\ c.bus_addr = d.wz
  <2>1. c = Put(d, "bus_addr", d.wz)
    BY <1>1, <1>2, EnterReads
  <2> QED BY <1>2, <2>1, GetPut, InCore DEF Same
<1>4. PICK f : /\ Same(c, f, {"bus_data"}) /\ f.bus_data = Manual!Peek(m, c.bus_addr)
               /\ f.bus_data \in Byte /\ l = m
               /\ e = Put(Exit(x, f), "cycle", d.cycle + 1)
  BY <1>1, <1>3, ReadLeaves DEF Same
<1> QED BY <1>3, <1>4, InCore DEF Same

LEMMA AtTmpReads ==
  ASSUME NEW d, NEW m, NEW e, NEW l, OneCycle(d, m, e, l), NEW x, Enters(d, "mem_read", "at_tmp", x)
  PROVE  \E f : /\ Same(d, f, {"bus_addr", "bus_data"}) /\ f.bus_addr = d.tmp
                /\ f.bus_data = Manual!Peek(m, d.tmp) /\ f.bus_data \in Byte /\ l = m
                /\ e = Put(Exit(x, f), "cycle", d.cycle + 1)
<1>1. PICK c : c = Enter("at_tmp", d)
  OBVIOUS
<1>2. Shaped(d)
  BY Fields DEF OneCycle
<1>3. Same(d, c, {"bus_addr"}) /\ c.bus_addr = d.tmp
  <2>1. c = Put(d, "bus_addr", d.tmp)
    BY <1>1, <1>2, EnterReads
  <2> QED BY <1>2, <2>1, GetPut, InCore DEF Same
<1>4. PICK f : /\ Same(c, f, {"bus_data"}) /\ f.bus_data = Manual!Peek(m, c.bus_addr)
               /\ f.bus_data \in Byte /\ l = m
               /\ e = Put(Exit(x, f), "cycle", d.cycle + 1)
  BY <1>1, <1>3, ReadLeaves DEF Same
<1> QED BY <1>3, <1>4, InCore DEF Same

LEMMA AtTmpHighReads ==
  ASSUME NEW d, NEW m, NEW e, NEW l, OneCycle(d, m, e, l), NEW x,
           Enters(d, "mem_read", "at_tmp_high", x)
  PROVE  \E f : /\ Same(d, f, {"bus_addr", "bus_data"}) /\ f.bus_addr = Plus(d.tmp, 1)
                /\ f.bus_data = Manual!Peek(m, Plus(d.tmp, 1)) /\ f.bus_data \in Byte /\ l = m
                /\ e = Put(Exit(x, f), "cycle", d.cycle + 1)
<1>1. PICK c : c = Enter("at_tmp_high", d)
  OBVIOUS
<1>2. Shaped(d)
  BY Fields DEF OneCycle
<1>3. Same(d, c, {"bus_addr"}) /\ c.bus_addr = Plus(d.tmp, 1)
  <2>1. c = Put(d, "bus_addr", Plus(d.tmp, 1))
    BY <1>1, <1>2, EnterReads
  <2> QED BY <1>2, <2>1, GetPut, InCore DEF Same
<1>4. PICK f : /\ Same(c, f, {"bus_data"}) /\ f.bus_data = Manual!Peek(m, c.bus_addr)
               /\ f.bus_data \in Byte /\ l = m
               /\ e = Put(Exit(x, f), "cycle", d.cycle + 1)
  BY <1>1, <1>3, ReadLeaves DEF Same
<1> QED BY <1>3, <1>4, InCore DEF Same

LEMMA AtSpReads ==
  ASSUME NEW d, NEW m, NEW e, NEW l, OneCycle(d, m, e, l), NEW x, Enters(d, "mem_read", "at_sp", x)
  PROVE  \E f : /\ Same(d, f, {"bus_addr", "bus_data"}) /\ f.bus_addr = d.sp
                /\ f.bus_data = Manual!Peek(m, d.sp) /\ f.bus_data \in Byte /\ l = m
                /\ e = Put(Exit(x, f), "cycle", d.cycle + 1)
<1>1. PICK c : c = Enter("at_sp", d)
  OBVIOUS
<1>2. Shaped(d)
  BY Fields DEF OneCycle
<1>3. Same(d, c, {"bus_addr"}) /\ c.bus_addr = d.sp
  <2>1. c = Put(d, "bus_addr", d.sp)
    BY <1>1, <1>2, EnterReads
  <2> QED BY <1>2, <2>1, GetPut, InCore DEF Same
<1>4. PICK f : /\ Same(c, f, {"bus_data"}) /\ f.bus_data = Manual!Peek(m, c.bus_addr)
               /\ f.bus_data \in Byte /\ l = m
               /\ e = Put(Exit(x, f), "cycle", d.cycle + 1)
  BY <1>1, <1>3, ReadLeaves DEF Same
<1> QED BY <1>3, <1>4, InCore DEF Same

LEMMA AtSpHighReads ==
  ASSUME NEW d, NEW m, NEW e, NEW l, OneCycle(d, m, e, l), NEW x,
           Enters(d, "mem_read", "at_sp_high", x)
  PROVE  \E f : /\ Same(d, f, {"bus_addr", "bus_data"}) /\ f.bus_addr = Plus(d.sp, 1)
                /\ f.bus_data = Manual!Peek(m, Plus(d.sp, 1)) /\ f.bus_data \in Byte /\ l = m
                /\ e = Put(Exit(x, f), "cycle", d.cycle + 1)
<1>1. PICK c : c = Enter("at_sp_high", d)
  OBVIOUS
<1>2. Shaped(d)
  BY Fields DEF OneCycle
<1>3. Same(d, c, {"bus_addr"}) /\ c.bus_addr = Plus(d.sp, 1)
  <2>1. c = Put(d, "bus_addr", Plus(d.sp, 1))
    BY <1>1, <1>2, EnterReads
  <2> QED BY <1>2, <2>1, GetPut, InCore DEF Same
<1>4. PICK f : /\ Same(c, f, {"bus_data"}) /\ f.bus_data = Manual!Peek(m, c.bus_addr)
               /\ f.bus_data \in Byte /\ l = m
               /\ e = Put(Exit(x, f), "cycle", d.cycle + 1)
  BY <1>1, <1>3, ReadLeaves DEF Same
<1> QED BY <1>3, <1>4, InCore DEF Same
-----------------------------------------------------------------------------
(***************************************************************************)
(* What a cycle that writes leaves, and one that only takes time.          *)
(***************************************************************************)

(* The cycles that write, and the idle ones. *)
LEMMA PutsLeave ==
  ASSUME NEW d, Shaped(d), NEW address, NEW byte
  PROVE  /\ Same(d, Puts(d, address, byte), {"bus_addr", "bus_data"})
         /\ Puts(d, address, byte).bus_addr = address /\ Puts(d, address, byte).bus_data = byte
         /\ Same(d, Pushed(d, byte), {"bus_addr", "bus_data", "sp"})
         /\ Pushed(d, byte).bus_addr = Plus(d.sp, -1) /\ Pushed(d, byte).bus_data = byte
         /\ Pushed(d, byte).sp = Plus(d.sp, -1)
<1>1. \A a : /\ Same(d, Puts(d, a, byte), {"bus_addr", "bus_data"})
             /\ Puts(d, a, byte).bus_addr = a /\ Puts(d, a, byte).bus_data = byte
  BY GetPut, InCore DEF Same, Puts
<1>2. PICK c : c = Puts(d, Plus(d.sp, -1), byte)
  OBVIOUS
<1>3. /\ Same(d, c, {"bus_addr", "bus_data"}) /\ c.bus_addr = Plus(d.sp, -1)
      /\ c.bus_data = byte
  BY <1>1, <1>2
<1>4. Pushed(d, byte) = Put(c, "sp", Plus(d.sp, -1))
  BY <1>2 DEF Pushed
<1>5. /\ Same(d, Pushed(d, byte), {"bus_addr", "bus_data", "sp"})
      /\ Pushed(d, byte).bus_addr = Plus(d.sp, -1) /\ Pushed(d, byte).bus_data = byte
      /\ Pushed(d, byte).sp = Plus(d.sp, -1)
  BY <1>3, <1>4, GetPut, InCore DEF Same
<1> QED BY <1>1, <1>5

(* A write at any address that its hook puts up. *)
LEMMA Writes ==
  ASSUME NEW d, NEW m, NEW e, NEW l, OneCycle(d, m, e, l), NEW h, NEW x,
         Enters(d, "mem_write", h, x),
         NEW address, NEW byte, Enter(h, d) = Puts(d, address, byte)
  PROVE  \E f : /\ Same(d, f, {"bus_addr", "bus_data"})
                /\ f.bus_addr = address /\ f.bus_data = byte
                /\ e = Put(Exit(x, f), "cycle", d.cycle + 1)
                /\ l = Manual!Poke(m, address, byte)
<1>1. Shaped(d)
  BY Fields DEF OneCycle
<1>2. PICK f : f = Enter(h, d)
  OBVIOUS
<1>3. /\ Same(d, f, {"bus_addr", "bus_data"}) /\ f.bus_addr = address /\ f.bus_data = byte
  BY <1>1, <1>2, PutsLeave
<1>4. /\ e = Put(Exit(x, f), "cycle", d.cycle + 1)
      /\ l = Manual!Poke(m, f.bus_addr, f.bus_data)
  BY <1>2, WriteCycle
<1> QED BY <1>3, <1>4

LEMMA PushWrites ==
  ASSUME NEW d, NEW m, NEW e, NEW l, OneCycle(d, m, e, l), NEW h, NEW x,
         Enters(d, "mem_write", h, x), NEW byte, Enter(h, d) = Pushed(d, byte)
  PROVE  \E f : /\ Same(d, f, {"bus_addr", "bus_data", "sp"}) /\ f.sp = Plus(d.sp, -1)
                /\ f.bus_addr = Plus(d.sp, -1) /\ f.bus_data = byte
                /\ e = Put(Exit(x, f), "cycle", d.cycle + 1)
                /\ l = Manual!Poke(m, Plus(d.sp, -1), byte)
<1>1. Shaped(d)
  BY Fields DEF OneCycle
<1>2. PICK f : f = Enter(h, d)
  OBVIOUS
<1>3. /\ Same(d, f, {"bus_addr", "bus_data", "sp"}) /\ f.sp = Plus(d.sp, -1)
      /\ f.bus_addr = Plus(d.sp, -1) /\ f.bus_data = byte
  BY <1>1, <1>2, PutsLeave
<1>4. /\ e = Put(Exit(x, f), "cycle", d.cycle + 1)
      /\ l = Manual!Poke(m, f.bus_addr, f.bus_data)
  BY <1>2, WriteCycle
<1> QED BY <1>3, <1>4

(* An idle cycle moves nothing. *)
LEMMA Idles ==
  ASSUME NEW d, NEW m, NEW e, NEW l, OneCycle(d, m, e, l),
         NEW kind \in IdleCycles, NEW x, Enters(d, kind, "none", x)
  PROVE  e = Put(Exit(x, d), "cycle", d.cycle + 1) /\ l = m
<1>1. Enter("none", d) = d
  BY Fields, EnterReads DEF OneCycle
<1> QED BY <1>1, QuietCycle

LEMMA PortWrites ==
  ASSUME NEW d, NEW m, NEW e, NEW l, OneCycle(d, m, e, l), NEW h, NEW x,
         Enters(d, "io_write", h, x),
         NEW address, NEW byte, Enter(h, d) = Puts(d, address, byte)
  PROVE  \E f : /\ Same(d, f, {"bus_addr", "bus_data"})
                /\ f.bus_addr = address /\ f.bus_data = byte
                /\ e = Put(Exit(x, f), "cycle", d.cycle + 1) /\ l = m
<1>1. Shaped(d)
  BY Fields DEF OneCycle
<1>2. PICK f : f = Enter(h, d)
  OBVIOUS
<1>3. /\ Same(d, f, {"bus_addr", "bus_data"}) /\ f.bus_addr = address /\ f.bus_data = byte
  BY <1>1, <1>2, PutsLeave
<1>4. e = Put(Exit(x, f), "cycle", d.cycle + 1) /\ l = m
  BY <1>2, QuietCycle
<1> QED BY <1>3, <1>4

(* A port read at this address. *)
LEMMA PortReads ==
  ASSUME NEW d, NEW m, NEW e, NEW l, OneCycle(d, m, e, l), NEW h, NEW x,
         Enters(d, "io_read", h, x),
         NEW address, Enter(h, d) = Put(d, "bus_addr", address)
  PROVE  \E f : /\ Same(d, f, {"bus_addr", "bus_data"}) /\ f.bus_addr = address
                /\ f.bus_data \in PortBytes /\ f.bus_data \in Byte /\ l = m
                /\ e = Put(Exit(x, f), "cycle", d.cycle + 1)
<1>1. Shaped(d)
  BY Fields DEF OneCycle
<1>2. PICK byte \in PortBytes :
        /\ e = Put(Exit(x, Put(Enter(h, d), "bus_data", byte)), "cycle", d.cycle + 1)
        /\ l = m /\ byte \in Byte
  BY PortCycle
<1>3. PICK f : f = Put(Put(d, "bus_addr", address), "bus_data", byte)
  OBVIOUS
<1>4. Same(d, f, {"bus_addr", "bus_data"}) /\ f.bus_addr = address /\ f.bus_data = byte
  BY <1>1, <1>3, GetPut, InCore DEF Same
<1> QED BY <1>2, <1>3, <1>4

(* An idle cycle whose hook adds the displacement. *)
LEMMA Jumps ==
  ASSUME NEW d, NEW m, NEW e, NEW l, OneCycle(d, m, e, l), NEW kind \in IdleCycles
  PROVE  /\ Enters(d, kind, "jump_relative", "none") =>
              /\ Same(d, e, {"pc", "wz", "cycle"}) /\ l = m
              /\ e.pc = Plus(d.pc, Signed(d.bus_data))
         /\ Enters(d, kind, "block_repeat", "none") =>
              /\ Same(d, e, {"pc", "wz", "cycle"}) /\ l = m
              /\ e.pc = Plus(d.pc, -2)
<1>1. Shaped(d)
  BY Fields DEF OneCycle
<1>2. ASSUME Enters(d, kind, "jump_relative", "none")
      PROVE  /\ Same(d, e, {"pc", "wz", "cycle"}) /\ l = m
             /\ e.pc = Plus(d.pc, Signed(d.bus_data))
  <2>1. PICK target : target = Plus(d.pc, Signed(d.bus_data))
    OBVIOUS
  <2>2. Enter("jump_relative", d) = Put(Put(d, "pc", target), "wz", target)
    BY <1>1, <2>1, EnterOthers
  <2>3. e = Put(Put(Put(d, "pc", target), "wz", target), "cycle", d.cycle + 1) /\ l = m
    BY <1>2, <2>2, QuietCycle, ExitCollects
  <2> QED BY <1>1, <2>1, <2>3, GetPut, InCore DEF Same
<1>3. ASSUME Enters(d, kind, "block_repeat", "none")
      PROVE  /\ Same(d, e, {"pc", "wz", "cycle"}) /\ l = m
             /\ e.pc = Plus(d.pc, -2)
  <2>2. Enter("block_repeat", d) = Put(Put(d, "pc", Plus(d.pc, -2)), "wz", Plus(d.pc, -1))
    BY <1>1, EnterOthers
  <2>3. e = Put(Put(Put(d, "pc", Plus(d.pc, -2)), "wz", Plus(d.pc, -1)), "cycle", d.cycle + 1)
        /\ l = m
    BY <1>3, <2>2, QuietCycle, ExitCollects
  <2> QED BY <1>1, <2>3, GetPut, InCore DEF Same
<1> QED BY <1>2, <1>3

(* What the exit hooks leave that only collect or go somewhere. *)
LEMMA Leaves ==
  ASSUME NEW f, Shaped(f), NEW x, NEW k, NEW e, e = Put(Exit(x, f), "cycle", k)
  PROVE  /\ x = "none" => Same(f, e, {"cycle"})
         /\ x = "to_tmp_low" =>
              Same(f, e, {"tmp", "cycle"}) /\ e.tmp = WithLow(f.tmp, f.bus_data)
         /\ x = "to_tmp_high" =>
              Same(f, e, {"tmp", "cycle"}) /\ e.tmp = WithHigh(f.tmp, f.bus_data)
         /\ x = "to_wz_low" =>
              Same(f, e, {"wz", "cycle"}) /\ e.wz = WithLow(f.wz, f.bus_data)
         /\ x = "to_wz_high" =>
              Same(f, e, {"wz", "cycle"}) /\ e.wz = WithHigh(f.wz, f.bus_data)
         /\ x = "to_displacement" =>
              /\ Same(f, e, {"wz", "cycle"})
              /\ e.wz = Plus(f[index_pair(f)], Signed(f.bus_data))
         /\ x = "latch_operation" => Same(f, e, {"opcode", "cycle"}) /\ e.opcode = f.bus_data
         /\ x = "return_to_wz_high" =>
              Same(f, e, {"pc", "wz", "cycle"}) /\ e.pc = WithHigh(f.wz, f.bus_data)
         /\ x = "return_from_interrupt" =>
              Same(f, e, {"pc", "wz", "iff1", "cycle"}) /\ e.pc = WithHigh(f.wz, f.bus_data)
         /\ x = "take_wz" => Same(f, e, {"pc", "cycle"}) /\ e.pc = f.wz
         /\ x = "nmi_vector" => Same(f, e, {"pc", "wz", "cycle"}) /\ e.pc = 102
         /\ x = "interrupt_vector" =>
              /\ Same(f, e, {"pc", "wz", "cycle"})
              /\ e.pc = IF f.im = 0 THEN 8 * Y(Low(f.tmp)) ELSE 56
<1>1. \A n, v : n \in CpuFields =>
        /\ Same(f, Put(Put(f, n, v), "cycle", k), {n, "cycle"})
        /\ n # "cycle" => Put(Put(f, n, v), "cycle", k)[n] = v
        /\ Put(Put(f, n, v), "cycle", k).cycle = k
  BY GetPut, InCore DEF Same
<1>2. x = "none" => Same(f, e, {"cycle"})
  <2>1. x = "none" => e = Put(f, "cycle", k)
    BY ExitCollects
  <2>2. Same(f, Put(f, "cycle", k), {"cycle"})
    BY GetPut, InCore DEF Same
  <2> QED BY <2>1, <2>2
<1>3. /\ x = "to_tmp_low" => e = Put(Put(f, "tmp", WithLow(f.tmp, f.bus_data)), "cycle", k)
      /\ x = "to_tmp_high" => e = Put(Put(f, "tmp", WithHigh(f.tmp, f.bus_data)), "cycle", k)
      /\ x = "to_wz_low" => e = Put(Put(f, "wz", WithLow(f.wz, f.bus_data)), "cycle", k)
      /\ x = "to_wz_high" => e = Put(Put(f, "wz", WithHigh(f.wz, f.bus_data)), "cycle", k)
      /\ x = "to_displacement" =>
           e = Put(Put(f, "wz", Plus(f[index_pair(f)], Signed(f.bus_data))), "cycle", k)
      /\ x = "latch_operation" => e = Put(Put(f, "opcode", f.bus_data), "cycle", k)
      /\ x = "take_wz" => e = Put(Put(f, "pc", f.wz), "cycle", k)
  BY ExitCollects, ExitVectors
<1>4. \A v, p : p = Put(Put(Put(f, "pc", v), "wz", v), "cycle", k) =>
        Same(f, p, {"pc", "wz", "cycle"}) /\ p.pc = v /\ p.cycle = k
  BY GetPut, InCore DEF Same
<1>5. \A v, i, p : p = Put(Put(Put(Put(f, "pc", v), "wz", v), "iff1", i), "cycle", k) =>
        Same(f, p, {"pc", "wz", "iff1", "cycle"}) /\ p.pc = v /\ p.cycle = k
  BY GetPut, InCore DEF Same
<1>6. PICK w : w = WithHigh(f.wz, f.bus_data)
  OBVIOUS
<1>7. PICK v : v = IF f.im = 0 THEN 8 * Y(Low(f.tmp)) ELSE 56
  OBVIOUS
<1>8. /\ x = "return_to_wz_high" => e = Put(Put(Put(f, "pc", w), "wz", w), "cycle", k)
      /\ x = "return_from_interrupt" =>
           e = Put(Put(Put(Put(f, "pc", w), "wz", w), "iff1", f.iff2), "cycle", k)
      /\ x = "nmi_vector" => e = Put(Put(Put(f, "pc", 102), "wz", 102), "cycle", k)
      /\ x = "interrupt_vector" => e = Put(Put(Put(f, "pc", v), "wz", v), "cycle", k)
  BY <1>6, <1>7, ExitVectors
<1>9. /\ x = "to_tmp_low" =>
           Same(f, e, {"tmp", "cycle"}) /\ e.tmp = WithLow(f.tmp, f.bus_data)
      /\ x = "to_tmp_high" =>
           Same(f, e, {"tmp", "cycle"}) /\ e.tmp = WithHigh(f.tmp, f.bus_data)
  BY <1>1, <1>3, InCore
<1>10. /\ x = "to_wz_low" =>
            Same(f, e, {"wz", "cycle"}) /\ e.wz = WithLow(f.wz, f.bus_data)
       /\ x = "to_wz_high" =>
            Same(f, e, {"wz", "cycle"}) /\ e.wz = WithHigh(f.wz, f.bus_data)
       /\ x = "to_displacement" =>
            /\ Same(f, e, {"wz", "cycle"})
            /\ e.wz = Plus(f[index_pair(f)], Signed(f.bus_data))
  BY <1>1, <1>3, InCore
<1>11. /\ x = "latch_operation" => Same(f, e, {"opcode", "cycle"}) /\ e.opcode = f.bus_data
       /\ x = "take_wz" => Same(f, e, {"pc", "cycle"}) /\ e.pc = f.wz
  BY <1>1, <1>3, InCore
<1> QED BY <1>2, <1>9, <1>10, <1>11, <1>4, <1>5, <1>6, <1>7, <1>8
-----------------------------------------------------------------------------
(***************************************************************************)
(* The manual's words for the core's arithmetic, its memory and its        *)
(* registers.                                                              *)
(***************************************************************************)

(* The manual and the core share their arithmetic. *)
LEMMA SameArithmetic ==
  /\ \A bits : Manual!FromBits(bits) = Alu!FromBits(bits)
  /\ \A x, y : Manual!AndByte(x, y) = Alu!AndByte(x, y)
  /\ \A x, y : Manual!XorByte(x, y) = Alu!XorByte(x, y)
  /\ \A x, y : Manual!OrByte(x, y) = Alu!OrByte(x, y)
  /\ \A value : Manual!parity_even(value) = Alu!parity_even(value)
  /\ \A value : Manual!ParityFlag(value) = Alu!ParityFlag(value)
  /\ \A value : Manual!CopyXY(value) = Alu!CopyXY(value)
  /\ \A result : Manual!flags_sz_xy(result) = Alu!flags_sz_xy(result)
  /\ \A a, value, carry : Manual!alu_add(a, value, carry) = Alu!alu_add(a, value, carry)
  /\ \A a, value, carry : Manual!sub_flags(a, value, carry) = Alu!sub_flags(a, value, carry)
  /\ \A a, value : Manual!alu_cp(a, value) = Alu!alu_cp(a, value)
  /\ \A result, half_carry : Manual!alu_logic(result, half_carry)
       = Alu!alu_logic(result, half_carry)
  /\ \A which, a, f, value : Manual!alu_operation(which, a, f, value)
       = Alu!alu_operation(which, a, f, value)
  /\ \A f, value : Manual!alu_inc(f, value) = Alu!alu_inc(f, value)
  /\ \A f, value : Manual!alu_dec(f, value) = Alu!alu_dec(f, value)
  /\ \A a : Manual!execute_neg(a) = Alu!execute_neg(a)
  /\ \A a, f : Manual!execute_cpl(a, f) = Alu!execute_cpl(a, f)
  /\ \A a, f, value : Manual!alu_add16(a, f, value) = Alu!alu_add16(a, f, value)
  /\ \A result : Manual!WordFlags(result) = Alu!WordFlags(result)
  /\ \A a, f, value : Manual!alu_adc16(a, f, value) = Alu!alu_adc16(a, f, value)
  /\ \A a, f, value : Manual!alu_sbc16(a, f, value) = Alu!alu_sbc16(a, f, value)
  /\ \A value, bit : Manual!Left(value, bit) = Alu!Left(value, bit)
  /\ \A value, bit : Manual!Right(value, bit) = Alu!Right(value, bit)
  /\ \A value : Manual!TopBit(value) = Alu!TopBit(value)
  /\ \A value : Manual!LowBit(value) = Alu!LowBit(value)
  /\ \A which, value, carry : Manual!Rotated(which, value, carry) = Alu!Rotated(which, value, carry)
  /\ \A which, value : Manual!CarryOut(which, value) = Alu!CarryOut(which, value)
  /\ \A which, a, f : Manual!alu_rotate_a(which, a, f) = Alu!alu_rotate_a(which, a, f)
  /\ \A which, f, value : Manual!alu_shift(which, f, value) = Alu!alu_shift(which, f, value)
  /\ \A mask, f, value, undocumented : Manual!alu_bit(mask, f, value, undocumented)
       = Alu!alu_bit(mask, f, value, undocumented)
  /\ \A a, f : Manual!daa_adjust(a, f) = Alu!daa_adjust(a, f)
  /\ \A a, f : Manual!alu_daa(a, f) = Alu!alu_daa(a, f)
  /\ \A right, a, b : Manual!DigitRotated(right, a, b) = Alu!DigitRotated(right, a, b)
  /\ \A right, a, b : Manual!DigitStored(right, a, b) = Alu!DigitStored(right, a, b)
  /\ \A f, value : Manual!digit_rotate_flags(f, value) = Alu!digit_rotate_flags(f, value)
  /\ \A n : Manual!BlockXY(n) = Alu!BlockXY(n)
  /\ \A a, f, value, more : Manual!block_transfer_flags(a, f, value, more)
       = Alu!block_transfer_flags(a, f, value, more)
  /\ \A a, f, value, more : Manual!block_compare_flags(a, f, value, more)
       = Alu!block_compare_flags(a, f, value, more)
  /\ \A b, value, addend : Manual!block_io_flags(b, value, addend)
       = Alu!block_io_flags(b, value, addend)
  /\ \A f, pc_high : Manual!block_repeat_undocumented(f, pc_high)
       = Alu!block_repeat_undocumented(f, pc_high)
  /\ \A f, value, iff2 : Manual!load_a_flags(f, value, iff2) = Alu!load_a_flags(f, value, iff2)
  /\ \A a, f, q : Manual!ResidueXY(a, f, q) = Alu!ResidueXY(a, f, q)
  /\ \A a, f, q : Manual!execute_scf(a, f, q) = Alu!execute_scf(a, f, q)
  /\ \A a, f, q : Manual!execute_ccf(a, f, q) = Alu!execute_ccf(a, f, q)
  /\ \A f, code : Manual!condition_met(f, code) = Alu!condition_met(f, code)
<1>0. \A S : Manual!Cardinality(S) = Alu!Cardinality(S)
  BY DEF Manual!Cardinality, Alu!Cardinality
<1>1. ASSUME NEW bits PROVE Manual!FromBits(bits) = Alu!FromBits(bits)
  BY DEF Manual!FromBits, Alu!FromBits
<1>2. ASSUME NEW x, NEW y PROVE Manual!AndByte(x, y) = Alu!AndByte(x, y)
  BY <1>1 DEF Manual!AndByte, Alu!AndByte, Manual!BitsOfByte, Alu!BitsOfByte, Manual!Has, Alu!Has
<1>3. ASSUME NEW x, NEW y PROVE Manual!XorByte(x, y) = Alu!XorByte(x, y)
  BY <1>1 DEF Manual!XorByte, Alu!XorByte, Manual!BitsOfByte, Alu!BitsOfByte, Manual!Has, Alu!Has,
     Manual!HasXor, Alu!HasXor
<1>4. ASSUME NEW x, NEW y PROVE Manual!OrByte(x, y) = Alu!OrByte(x, y)
  BY <1>1 DEF Manual!OrByte, Alu!OrByte, Manual!BitsOfByte, Alu!BitsOfByte, Manual!Has, Alu!Has
<1>5. ASSUME NEW value PROVE Manual!parity_even(value) = Alu!parity_even(value)
  BY <1>0 DEF Manual!parity_even, Alu!parity_even, Manual!BitsOfByte, Alu!BitsOfByte, Manual!Has,
     Alu!Has
<1>6. ASSUME NEW value PROVE Manual!ParityFlag(value) = Alu!ParityFlag(value)
  BY <1>5 DEF Manual!ParityFlag, Alu!ParityFlag, Manual!FlagIf, Alu!FlagIf
<1>7. ASSUME NEW value PROVE Manual!CopyXY(value) = Alu!CopyXY(value)
  BY DEF Manual!CopyXY, Alu!CopyXY, Manual!FlagIf, Alu!FlagIf, Manual!Has, Alu!Has
<1>8. ASSUME NEW result PROVE Manual!flags_sz_xy(result) = Alu!flags_sz_xy(result)
  BY <1>7 DEF Manual!flags_sz_xy, Alu!flags_sz_xy, Manual!FlagIf, Alu!FlagIf, Manual!Has, Alu!Has
<1>9. ASSUME NEW a, NEW value, NEW carry
      PROVE Manual!alu_add(a, value, carry) = Alu!alu_add(a, value, carry)
  BY DEF Manual!alu_add, Alu!alu_add, Manual!AddOverflow, Alu!AddOverflow, Manual!CarryInto,
     Alu!CarryInto, Manual!CopyXY, Alu!CopyXY, Manual!FlagIf, Alu!FlagIf, Manual!Has, Alu!Has,
     Manual!HasXor, Alu!HasXor, Manual!Out, Alu!Out, Manual!flags_sz_xy, Alu!flags_sz_xy
<1>10. ASSUME NEW a, NEW value, NEW carry
       PROVE Manual!sub_flags(a, value, carry) = Alu!sub_flags(a, value, carry)
  BY DEF Manual!sub_flags, Alu!sub_flags, Manual!CarryInto, Alu!CarryInto, Manual!CopyXY,
     Alu!CopyXY, Manual!FlagIf, Alu!FlagIf, Manual!Has, Alu!Has, Manual!HasXor, Alu!HasXor,
     Manual!Out, Alu!Out, Manual!SubOverflow, Alu!SubOverflow, Manual!flags_sz_xy, Alu!flags_sz_xy
<1>11. ASSUME NEW a, NEW value PROVE Manual!alu_cp(a, value) = Alu!alu_cp(a, value)
  BY <1>7, <1>10 DEF Manual!alu_cp, Alu!alu_cp, Manual!Out, Alu!Out, Manual!XY, Alu!XY
<1>12. ASSUME NEW result, NEW half_carry
       PROVE Manual!alu_logic(result, half_carry) = Alu!alu_logic(result, half_carry)
  BY <1>6, <1>8 DEF Manual!alu_logic, Alu!alu_logic, Manual!Out, Alu!Out
<1>13. ASSUME NEW which, NEW a, NEW f, NEW value
       PROVE Manual!alu_operation(which, a, f, value) = Alu!alu_operation(which, a, f, value)
  BY <1>2, <1>3, <1>4, <1>9, <1>10, <1>11, <1>12 DEF Manual!alu_operation, Alu!alu_operation,
     Manual!Carry, Alu!Carry
<1>14. ASSUME NEW f, NEW value PROVE Manual!alu_inc(f, value) = Alu!alu_inc(f, value)
  BY <1>8 DEF Manual!alu_inc, Alu!alu_inc, Manual!FlagIf, Alu!FlagIf, Manual!Out, Alu!Out
<1>15. ASSUME NEW f, NEW value PROVE Manual!alu_dec(f, value) = Alu!alu_dec(f, value)
  BY <1>8 DEF Manual!alu_dec, Alu!alu_dec, Manual!FlagIf, Alu!FlagIf, Manual!Out, Alu!Out
<1>16. ASSUME NEW a PROVE Manual!execute_neg(a) = Alu!execute_neg(a)
  BY <1>10 DEF Manual!execute_neg, Alu!execute_neg
<1>17. ASSUME NEW a, NEW f PROVE Manual!execute_cpl(a, f) = Alu!execute_cpl(a, f)
  BY <1>7 DEF Manual!execute_cpl, Alu!execute_cpl, Manual!Out, Alu!Out, Manual!XY, Alu!XY
<1>18. ASSUME NEW a, NEW f, NEW value
       PROVE Manual!alu_add16(a, f, value) = Alu!alu_add16(a, f, value)
  BY <1>7 DEF Manual!alu_add16, Alu!alu_add16, Manual!CarryInto, Alu!CarryInto, Manual!FlagIf,
     Alu!FlagIf, Manual!Has, Alu!Has, Manual!HasXor, Alu!HasXor, Manual!Out, Alu!Out, Manual!SZPV,
     Alu!SZPV
<1>19. ASSUME NEW result PROVE Manual!WordFlags(result) = Alu!WordFlags(result)
  BY <1>7 DEF Manual!WordFlags, Alu!WordFlags, Manual!FlagIf, Alu!FlagIf, Manual!Has, Alu!Has
<1>20. ASSUME NEW a, NEW f, NEW value
       PROVE Manual!alu_adc16(a, f, value) = Alu!alu_adc16(a, f, value)
  BY DEF Manual!alu_adc16, Alu!alu_adc16, Manual!AddOverflow, Alu!AddOverflow, Manual!Carry,
     Alu!Carry, Manual!CarryInto, Alu!CarryInto, Manual!CopyXY, Alu!CopyXY, Manual!FlagIf,
     Alu!FlagIf, Manual!Has, Alu!Has, Manual!HasXor, Alu!HasXor, Manual!Out, Alu!Out,
     Manual!WordFlags, Alu!WordFlags
<1>21. ASSUME NEW a, NEW f, NEW value
       PROVE Manual!alu_sbc16(a, f, value) = Alu!alu_sbc16(a, f, value)
  BY DEF Manual!alu_sbc16, Alu!alu_sbc16, Manual!Carry, Alu!Carry, Manual!CarryInto,
     Alu!CarryInto, Manual!CopyXY, Alu!CopyXY, Manual!FlagIf, Alu!FlagIf, Manual!Has, Alu!Has,
     Manual!HasXor, Alu!HasXor, Manual!Out, Alu!Out, Manual!SubOverflow, Alu!SubOverflow,
     Manual!WordFlags, Alu!WordFlags
<1>22. ASSUME NEW value, NEW bit PROVE Manual!Left(value, bit) = Alu!Left(value, bit)
  BY DEF Manual!Left, Alu!Left
<1>23. ASSUME NEW value, NEW bit PROVE Manual!Right(value, bit) = Alu!Right(value, bit)
  BY DEF Manual!Right, Alu!Right
<1>24. ASSUME NEW value PROVE Manual!TopBit(value) = Alu!TopBit(value)
  BY DEF Manual!TopBit, Alu!TopBit
<1>25. ASSUME NEW value PROVE Manual!LowBit(value) = Alu!LowBit(value)
  BY DEF Manual!LowBit, Alu!LowBit
<1>26. ASSUME NEW which, NEW value, NEW carry
       PROVE Manual!Rotated(which, value, carry) = Alu!Rotated(which, value, carry)
  BY <1>22, <1>23, <1>24, <1>25 DEF Manual!Rotated, Alu!Rotated
<1>27. ASSUME NEW which, NEW value PROVE Manual!CarryOut(which, value) = Alu!CarryOut(which, value)
  BY <1>24, <1>25 DEF Manual!CarryOut, Alu!CarryOut, Manual!FlagIf, Alu!FlagIf
<1>28. ASSUME NEW which, NEW a, NEW f
       PROVE Manual!alu_rotate_a(which, a, f) = Alu!alu_rotate_a(which, a, f)
  BY <1>7, <1>26, <1>27 DEF Manual!alu_rotate_a, Alu!alu_rotate_a, Manual!Carry, Alu!Carry,
     Manual!Out, Alu!Out, Manual!SZPV, Alu!SZPV
<1>29. ASSUME NEW which, NEW f, NEW value
       PROVE Manual!alu_shift(which, f, value) = Alu!alu_shift(which, f, value)
  BY <1>6, <1>8, <1>26, <1>27 DEF Manual!alu_shift, Alu!alu_shift, Manual!Carry, Alu!Carry,
     Manual!Out, Alu!Out
<1>30. ASSUME NEW mask, NEW f, NEW value, NEW undocumented
       PROVE Manual!alu_bit(mask, f, value, undocumented)
               = Alu!alu_bit(mask, f, value, undocumented)
  BY <1>7 DEF Manual!alu_bit, Alu!alu_bit, Manual!FlagIf, Alu!FlagIf, Manual!Has, Alu!Has,
     Manual!Out, Alu!Out
<1>31. ASSUME NEW a, NEW f PROVE Manual!daa_adjust(a, f) = Alu!daa_adjust(a, f)
  BY DEF Manual!daa_adjust, Alu!daa_adjust
<1>32. ASSUME NEW a, NEW f PROVE Manual!alu_daa(a, f) = Alu!alu_daa(a, f)
  <2>1. PICK r : r = IF "N" \in f THEN (a - Alu!daa_adjust(a, f)) % 256
                   ELSE (a + Alu!daa_adjust(a, f)) % 256
    OBVIOUS
  <2>2. Alu!alu_daa(a, f) = Alu!Out(r, Alu!flags_sz_xy(r) \union Alu!ParityFlag(r)
                   \union (f \intersect {"N"})
                   \union Alu!FlagIf("C", "C" \in f \/ a > 153)
                   \union Alu!FlagIf("H", IF "N" \in f THEN "H" \in f /\
                     a % 16 < 6 ELSE a % 16 > 9))
    BY <2>1 DEF Alu!alu_daa
  <2>3. Manual!alu_daa(a, f) = Manual!Out(r, Manual!flags_sz_xy(r) \union Manual!ParityFlag(r)
                   \union (f \intersect {"N"})
                   \union Manual!FlagIf("C", "C" \in f \/ a > 153)
                   \union Manual!FlagIf("H", IF "N" \in f THEN "H" \in f /\
                     a % 16 < 6 ELSE a % 16 > 9))
    BY <2>1, <1>31 DEF Manual!alu_daa
  <2> QED BY <2>2, <2>3, <1>8, <1>6 DEF Manual!Out, Alu!Out, Manual!FlagIf, Alu!FlagIf
<1>33. ASSUME NEW right, NEW a, NEW b
       PROVE Manual!DigitRotated(right, a, b) = Alu!DigitRotated(right, a, b)
  BY DEF Manual!DigitRotated, Alu!DigitRotated
<1>34. ASSUME NEW right, NEW a, NEW b
       PROVE Manual!DigitStored(right, a, b) = Alu!DigitStored(right, a, b)
  BY DEF Manual!DigitStored, Alu!DigitStored
<1>35. ASSUME NEW f, NEW value PROVE Manual!digit_rotate_flags(f, value)
                = Alu!digit_rotate_flags(f, value)
  BY <1>6, <1>8 DEF Manual!digit_rotate_flags, Alu!digit_rotate_flags
<1>36. ASSUME NEW n PROVE Manual!BlockXY(n) = Alu!BlockXY(n)
  BY DEF Manual!BlockXY, Alu!BlockXY, Manual!FlagIf, Alu!FlagIf, Manual!Has, Alu!Has
<1>37. ASSUME NEW a, NEW f, NEW value, NEW more
       PROVE Manual!block_transfer_flags(a, f, value, more)
               = Alu!block_transfer_flags(a, f, value, more)
  BY <1>36 DEF Manual!block_transfer_flags, Alu!block_transfer_flags, Manual!FlagIf, Alu!FlagIf
<1>38. ASSUME NEW a, NEW f, NEW value, NEW more
       PROVE Manual!block_compare_flags(a, f, value, more)
               = Alu!block_compare_flags(a, f, value, more)
  BY <1>36 DEF Manual!block_compare_flags, Alu!block_compare_flags, Manual!CarryInto,
     Alu!CarryInto, Manual!FlagIf, Alu!FlagIf, Manual!Has, Alu!Has, Manual!HasXor, Alu!HasXor
<1>39. ASSUME NEW b, NEW value, NEW addend
       PROVE Manual!block_io_flags(b, value, addend) = Alu!block_io_flags(b, value, addend)
  BY <1>3, <1>6, <1>8 DEF Manual!block_io_flags, Alu!block_io_flags, Manual!FlagIf, Alu!FlagIf,
     Manual!Has, Alu!Has
<1>40. ASSUME NEW f, NEW pc_high PROVE Manual!block_repeat_undocumented(f, pc_high)
                = Alu!block_repeat_undocumented(f, pc_high)
  BY <1>7 DEF Manual!block_repeat_undocumented, Alu!block_repeat_undocumented, Manual!XY, Alu!XY
<1>41. ASSUME NEW f, NEW value, NEW iff2
       PROVE Manual!load_a_flags(f, value, iff2) = Alu!load_a_flags(f, value, iff2)
  BY <1>8 DEF Manual!load_a_flags, Alu!load_a_flags, Manual!FlagIf, Alu!FlagIf
<1>42. ASSUME NEW a, NEW f, NEW q PROVE Manual!ResidueXY(a, f, q) = Alu!ResidueXY(a, f, q)
  BY <1>7 DEF Manual!ResidueXY, Alu!ResidueXY, Manual!XY, Alu!XY
<1>43. ASSUME NEW a, NEW f, NEW q PROVE Manual!execute_scf(a, f, q) = Alu!execute_scf(a, f, q)
  BY <1>42 DEF Manual!execute_scf, Alu!execute_scf, Manual!SZPV, Alu!SZPV
<1>44. ASSUME NEW a, NEW f, NEW q PROVE Manual!execute_ccf(a, f, q) = Alu!execute_ccf(a, f, q)
  BY <1>42 DEF Manual!execute_ccf, Alu!execute_ccf, Manual!SZPV, Alu!SZPV
<1>45. ASSUME NEW f, NEW code PROVE Manual!condition_met(f, code) = Alu!condition_met(f, code)
  BY DEF Manual!condition_met, Alu!condition_met
<1> QED BY <1>1, <1>2, <1>3, <1>4, <1>5, <1>6, <1>7, <1>8, <1>9, <1>10, <1>11, <1>12, <1>13,
     <1>14, <1>15, <1>16, <1>17, <1>18, <1>19, <1>20, <1>21, <1>22, <1>23, <1>24, <1>25, <1>26,
     <1>27, <1>28, <1>29, <1>30, <1>31, <1>32, <1>33, <1>34, <1>35, <1>36, <1>37, <1>38, <1>39,
     <1>40, <1>41, <1>42, <1>43, <1>44, <1>45

LEMMA SameWords ==
  /\ \A w : Manual!Hi(w) = High(w) /\ Manual!Lo(w) = Low(w)
  /\ \A w, n : Manual!Add(w, n) = Plus(w, n)
  /\ \A w, b : Manual!Displaced(w, b) = Plus(w, Signed(b))
BY DEF Manual!Hi, High, Manual!Lo, Low, Manual!Add, Plus, Manual!Displaced, Signed

(* Two bytes make a word, and addresses wrap. *)
LEMMA WordOfTwo ==
  ASSUME NEW w \in Word, NEW x \in Byte, NEW y \in Byte
  PROVE  /\ WithHigh(WithLow(w, x), y) = x + 256 * y
         /\ x + 256 * y \in Word
         /\ High(x + 256 * y) = y /\ Low(x + 256 * y) = x
<1>1. (256 * (w \div 256) + x) % 256 = x
  BY DEF Word, Alu!Word, Byte
<1> QED BY <1>1 DEF WithHigh, WithLow, Word, Alu!Word, Byte, High, Low

LEMMA WithHighOf ==
  ASSUME NEW w \in Word, NEW y \in Byte
  PROVE  WithHigh(w, y) = Low(w) + 256 * y
BY DEF WithHigh, Low, Word, Alu!Word, Byte

LEMMA Places ==
  ASSUME NEW w \in Word
  PROVE  /\ Plus(Plus(w, 1), 1) = Plus(w, 2) /\ Plus(Plus(w, 2), 1) = Plus(w, 3)
         /\ Plus(Plus(w, -1), -1) = Plus(w, -2)
         /\ Plus(w, 0) = w
         /\ Plus(w, 1) \in Word /\ Plus(w, 2) \in Word /\ Plus(w, -1) \in Word
         /\ Plus(w, -2) \in Word
         /\ \A m : /\ Manual!Peek(m, Plus(w, 1)) = Manual!Peek(m, w + 1)
                   /\ Manual!Peek(m, Plus(w, 2)) = Manual!Peek(m, w + 2)
<1>1. w \in Nat /\ w < 65536
  BY DEF Word, Alu!Word
<1>2. \A n \in Int : n % 65536 \in Word
  BY DEF Word, Alu!Word
<1>3. /\ (((w + 1) % 65536) + 1) % 65536 = (w + 2) % 65536
      /\ (((w + 2) % 65536) + 1) % 65536 = (w + 3) % 65536
      /\ (((w - 1) % 65536) - 1) % 65536 = (w - 2) % 65536
      /\ w % 65536 = w
  BY <1>1
<1>4. /\ ((w + 1) % 65536) % 65536 = (w + 1) % 65536
      /\ ((w + 2) % 65536) % 65536 = (w + 2) % 65536
  BY <1>1
<1>5. \A m : /\ Manual!Peek(m, Plus(w, 1)) = Manual!Peek(m, w + 1)
            /\ Manual!Peek(m, Plus(w, 2)) = Manual!Peek(m, w + 2)
  BY <1>4 DEF Manual!Peek, Plus
<1> QED BY <1>1, <1>2, <1>3, <1>5 DEF Plus

LEMMA PeeksAreBytes ==
  ASSUME NEW m, ByteMemory(m), NEW w \in Word
  PROVE  /\ Manual!Peek(m, w) \in Byte /\ Manual!Peek(m, w + 1) \in Byte
         /\ Manual!Peek(m, w + 2) \in Byte
BY Places, PeekIsAByte

LEMMA WordsRead ==
  ASSUME NEW m, ByteMemory(m), NEW w \in Word, NEW a \in Word
  PROVE  /\ WithHigh(WithLow(w, Manual!Peek(m, a)), Manual!Peek(m, a + 1)) = Manual!PeekWord(m, a)
         /\ Manual!PeekWord(m, a) \in Word
BY PeeksAreBytes, WordOfTwo DEF Manual!PeekWord

(* The cycles of an instruction, one after the other, while it goes on. *)
After1(e, m, d, l) == OneCycle(e, m, d, l)
After2(e, m, d, l) ==
  \E c, k : After1(e, m, c, k) /\ GoesOn(c) /\ OneCycle(c, k, d, l)
After3(e, m, d, l) ==
  \E c, k : After2(e, m, c, k) /\ GoesOn(c) /\ OneCycle(c, k, d, l)
After4(e, m, d, l) ==
  \E c, k : After3(e, m, c, k) /\ GoesOn(c) /\ OneCycle(c, k, d, l)
After5(e, m, d, l) ==
  \E c, k : After4(e, m, c, k) /\ GoesOn(c) /\ OneCycle(c, k, d, l)
After6(e, m, d, l) ==
  \E c, k : After5(e, m, c, k) /\ GoesOn(c) /\ OneCycle(c, k, d, l)

(* What a programmer sees of a core that is awake. *)
Seen(c) == [field \in VisibleFields |-> c[field]]

(* The fields that a programmer sees are fields of the core. *)
LEMMA SeenFields ==
  /\ VisibleFields \subseteq CpuFields
  /\ "a" \in VisibleFields /\ "f" \in VisibleFields /\ "bc" \in VisibleFields
  /\ "de" \in VisibleFields /\ "hl" \in VisibleFields /\ "ix" \in VisibleFields
  /\ "iy" \in VisibleFields /\ "sp" \in VisibleFields /\ "pc" \in VisibleFields
  /\ "i" \in VisibleFields /\ "r" \in VisibleFields /\ "im" \in VisibleFields
  /\ "af_alt" \in VisibleFields /\ "bc_alt" \in VisibleFields
  /\ "de_alt" \in VisibleFields /\ "hl_alt" \in VisibleFields
  /\ "bus_addr" \notin VisibleFields /\ "bus_data" \notin VisibleFields
  /\ "tmp" \notin VisibleFields /\ "wz" \notin VisibleFields
  /\ "cycle" \notin VisibleFields /\ "cycle_limit" \notin VisibleFields
  /\ "opcode" \notin VisibleFields /\ "pending" \notin VisibleFields
  /\ "q" \notin VisibleFields /\ "nmi_latched" \notin VisibleFields
  /\ "iff1" \notin VisibleFields /\ "iff2" \notin VisibleFields
  /\ "halted" \notin VisibleFields /\ "int_inhibit" \notin VisibleFields
  /\ "prefix" \notin VisibleFields /\ "index" \notin VisibleFields
  /\ "instr" \notin VisibleFields
BY InCore DEF VisibleFields
-----------------------------------------------------------------------------
(***************************************************************************)
(* What a programmer sees of a core of which one field is written.         *)
(***************************************************************************)

(* What a programmer sees of a core one of whose fields is written. *)
LEMMA SeenPut ==
  ASSUME NEW c, Shaped(c), NEW n \in CpuFields, NEW v
  PROVE  /\ Shaped(Put(c, n, v))
         /\ n \in VisibleFields => Seen(Put(c, n, v)) = [Seen(c) EXCEPT ![n] = v]
         /\ n \notin VisibleFields => Seen(Put(c, n, v)) = Seen(c)
<1>1. /\ Shaped(Put(c, n, v)) /\ Put(c, n, v)[n] = v
      /\ \A y \in CpuFields : y # n => Put(c, n, v)[y] = c[y]
  BY GetPut
<1> QED BY <1>1, SeenFields DEF Seen

(* What of the core its slots and pairs are read from. *)
OperandsOf(c, d) ==
  /\ d.a = c.a /\ d.bc = c.bc /\ d.de = c.de /\ d.hl = c.hl /\ d.ix = c.ix /\ d.iy = c.iy
  /\ d.index = c.index /\ d.opcode = c.opcode

LEMMA OperandsAgree ==
  ASSUME NEW c, NEW d, OperandsOf(c, d)
  PROVE  /\ index_pair(d) = index_pair(c) /\ d[index_pair(d)] = c[index_pair(c)]
         /\ pair_rp(d) = pair_rp(c) /\ pair_rp2(d) = pair_rp2(c)
         /\ \A pair \in {"hl", "ix", "iy"} : \A w : HalfOf(d, w, pair) = HalfOf(c, w, pair)
         /\ \A w : Slot(d, w) = Slot(c, w)
<1>1. index_pair(d) = index_pair(c) /\ index_pair(c) \in {"hl", "ix", "iy"}
  BY DEF OperandsOf, index_pair
<1>2. \A pair \in {"hl", "ix", "iy"} : d[pair] = c[pair]
  BY DEF OperandsOf
<1>3. pair_rp(d) = pair_rp(c) /\ pair_rp2(d) = pair_rp2(c)
  BY <1>1 DEF OperandsOf, pair_rp, pair_rp2, PairField
<1>4. \A pair \in {"hl", "ix", "iy"} : \A w : HalfOf(d, w, pair) = HalfOf(c, w, pair)
  BY <1>2 DEF OperandsOf, HalfOf
<1>5. ASSUME NEW w PROVE Slot(d, w) = Slot(c, w)
  <2>1. PICK pair \in {"hl", "ix", "iy"} : pair = index_pair(c)
    BY <1>1
  <2>2. HalfOf(d, w, pair) = HalfOf(c, w, pair)
    BY <1>4
  <2> QED BY <1>1, <2>1, <2>2 DEF Slot
<1> QED BY <1>1, <1>2, <1>3, <1>4, <1>5

(* The manual's registers are the core's slots. *)
LEMMA RegIsHalf ==
  ASSUME NEW c, NEW w \in 0 .. 7, w # 6, NEW pair \in {"hl", "ix", "iy"}
  PROVE  Manual!Reg(Seen(c), w, pair) = HalfOf(c, w, pair)
<1>1. \A x \in VisibleFields : Seen(c)[x] = c[x]
  BY DEF Seen
<1>2. CASE w = 0
  <2>1. Manual!Reg(Seen(c), w, pair) = Manual!Hi(Seen(c)["bc"])
    BY <1>2 DEF Manual!Reg
  <2> QED BY <1>1, <1>2, <2>1, SeenFields, SameWords DEF HalfOf
<1>3. CASE w = 1
  <2>1. Manual!Reg(Seen(c), w, pair) = Manual!Lo(Seen(c)["bc"])
    BY <1>3 DEF Manual!Reg
  <2> QED BY <1>1, <1>3, <2>1, SeenFields, SameWords DEF HalfOf
<1>4. CASE w = 2
  <2>1. Manual!Reg(Seen(c), w, pair) = Manual!Hi(Seen(c)["de"])
    BY <1>4 DEF Manual!Reg
  <2> QED BY <1>1, <1>4, <2>1, SeenFields, SameWords DEF HalfOf
<1>5. CASE w = 3
  <2>1. Manual!Reg(Seen(c), w, pair) = Manual!Lo(Seen(c)["de"])
    BY <1>5 DEF Manual!Reg
  <2> QED BY <1>1, <1>5, <2>1, SeenFields, SameWords DEF HalfOf
<1>6. CASE w = 4
  <2>1. Manual!Reg(Seen(c), w, pair) = Manual!Hi(Seen(c)[pair])
    BY <1>6 DEF Manual!Reg
  <2> QED BY <1>1, <1>6, <2>1, SeenFields, SameWords DEF HalfOf
<1>7. CASE w = 5
  <2>1. Manual!Reg(Seen(c), w, pair) = Manual!Lo(Seen(c)[pair])
    BY <1>7 DEF Manual!Reg
  <2> QED BY <1>1, <1>7, <2>1, SeenFields, SameWords DEF HalfOf
<1>8. CASE w = 7
  BY <1>1, <1>8, SeenFields DEF Manual!Reg, HalfOf
<1> QED BY <1>2, <1>3, <1>4, <1>5, <1>6, <1>7, <1>8

(* The arithmetic of a word one of whose bytes is written. *)
LEMMA BytesOfWord ==
  ASSUME NEW w \in Word, NEW b \in Byte
  PROVE  /\ WithHigh(w, b) = 256 * b + Low(w)
         /\ WithLow(w, b) = w - Low(w) + b
BY DEF WithHigh, WithLow, Low, Word, Alu!Word, Byte

LEMMA WriteHalf ==
  ASSUME NEW c, Typed(c), NEW w \in 0 .. 7, w # 6, NEW pair \in {"hl", "ix", "iy"},
         NEW b \in Byte, NEW r, r = WithHalf(c, w, pair, b)
  PROVE  Seen(r) = Manual!WithReg(Seen(c), w, pair, b)
<1>1. \A x \in VisibleFields : Seen(c)[x] = c[x]
  BY DEF Seen
<1>2. Shaped(c) /\ \A x \in {"bc", "de", pair} : c[x] \in Word /\ x \in VisibleFields /\
        x \in CpuFields
  BY Fields, SeenFields, InCore DEF WordFields
<1>3. CASE w = 7
  <2>1. r = Put(c, "a", b)
    BY <1>3 DEF WithHalf, Put
  <2> QED BY <1>2, <1>3, <2>1, SeenPut, SeenFields, InCore DEF Manual!WithReg
<1>4. ASSUME NEW x \in {"bc", "de", pair}
      PROVE  /\ Seen(Put(c, x, WithHigh(c[x], b)))
                  = [Seen(c) EXCEPT ![x] = 256 * b + Manual!Lo(@)]
             /\ Seen(Put(c, x, WithLow(c[x], b)))
                  = [Seen(c) EXCEPT ![x] = @ - Manual!Lo(@) + b]
  <2>1. \A v : Seen(Put(c, x, v)) = [Seen(c) EXCEPT ![x] = v]
    BY <1>2, SeenPut
  <2>2. /\ WithHigh(c[x], b) = 256 * b + Manual!Lo(Seen(c)[x])
        /\ WithLow(c[x], b) = Seen(c)[x] - Manual!Lo(Seen(c)[x]) + b
    BY <1>1, <1>2, BytesOfWord, SameWords
  <2> QED BY <2>1, <2>2
<1>5. CASE w = 0
  <2>1. r = Put(c, "bc", WithHigh(c["bc"], b))
    BY <1>5 DEF WithHalf, Put
  <2>2. Manual!WithReg(Seen(c), w, pair, b) = [Seen(c) EXCEPT !["bc"] = 256 * b + Manual!Lo(@)]
    BY <1>5 DEF Manual!WithReg
  <2> QED BY <1>4, <2>1, <2>2
<1>6. CASE w = 1
  <2>1. r = Put(c, "bc", WithLow(c["bc"], b))
    BY <1>6 DEF WithHalf, Put
  <2>2. Manual!WithReg(Seen(c), w, pair, b) = [Seen(c) EXCEPT !["bc"] = @ - Manual!Lo(@) + b]
    BY <1>6 DEF Manual!WithReg
  <2> QED BY <1>4, <2>1, <2>2
<1>7. CASE w = 2
  <2>1. r = Put(c, "de", WithHigh(c["de"], b))
    BY <1>7 DEF WithHalf, Put
  <2>2. Manual!WithReg(Seen(c), w, pair, b) = [Seen(c) EXCEPT !["de"] = 256 * b + Manual!Lo(@)]
    BY <1>7 DEF Manual!WithReg
  <2> QED BY <1>4, <2>1, <2>2
<1>8. CASE w = 3
  <2>1. r = Put(c, "de", WithLow(c["de"], b))
    BY <1>8 DEF WithHalf, Put
  <2>2. Manual!WithReg(Seen(c), w, pair, b) = [Seen(c) EXCEPT !["de"] = @ - Manual!Lo(@) + b]
    BY <1>8 DEF Manual!WithReg
  <2> QED BY <1>4, <2>1, <2>2
<1>9. CASE w = 4
  <2>1. r = Put(c, pair, WithHigh(c[pair], b))
    BY <1>9 DEF WithHalf, Put
  <2>2. Manual!WithReg(Seen(c), w, pair, b) = [Seen(c) EXCEPT ![pair] = 256 * b + Manual!Lo(@)]
    BY <1>9 DEF Manual!WithReg
  <2> QED BY <1>4, <2>1, <2>2
<1>10. CASE w = 5
  <2>1. r = Put(c, pair, WithLow(c[pair], b))
    BY <1>10 DEF WithHalf, Put
  <2>2. Manual!WithReg(Seen(c), w, pair, b) = [Seen(c) EXCEPT ![pair] = @ - Manual!Lo(@) + b]
    BY <1>10 DEF Manual!WithReg
  <2> QED BY <1>4, <2>1, <2>2
<1> QED BY <1>3, <1>5, <1>6, <1>7, <1>8, <1>9, <1>10

(* The pair that bits 5-4 name. *)
LEMMA PairNamed ==
  ASSUME NEW c, c.opcode \in Byte
  PROVE  /\ pair_rp(c) = <<"bc", "de", index_pair(c), "sp">>[Y(c.opcode) \div 2 + 1]
         /\ pair_rp(c) \in {"bc", "de", "hl", "ix", "iy", "sp"}
         /\ index_pair(c) \in {"hl", "ix", "iy"}
         /\ (pair_rp2(c) = "af") <=> (Y(c.opcode) \in {6, 7})
         /\ Y(c.opcode) \notin {6, 7} => pair_rp2(c) = pair_rp(c)
<1>1. PairField(c) = Y(c.opcode) \div 2 /\ Y(c.opcode) \in 0 .. 7
  BY DEF PairField, Y, Byte
<1>2. index_pair(c) \in {"hl", "ix", "iy"}
  BY DEF index_pair
<1>3. pair_rp(c) = <<"bc", "de", index_pair(c), "sp">>[Y(c.opcode) \div 2 + 1]
  BY <1>1 DEF pair_rp
<1>4. pair_rp(c) \in {"bc", "de", "hl", "ix", "iy", "sp"}
  <2>1. Y(c.opcode) \div 2 \in {0, 1, 2, 3}
    BY <1>1
  <2> QED BY <1>2, <1>3, <2>1
<1>5. (PairField(c) = 3) <=> (Y(c.opcode) \in {6, 7})
  BY <1>1
<1> QED BY <1>2, <1>3, <1>4, <1>5 DEF pair_rp2

(* Flags and results, seen. *)
LEMMA SeenFlags ==
  ASSUME NEW c, Shaped(c), NEW flags
  PROVE  /\ Shaped(WriteFlags(c, flags))
         /\ Seen(WriteFlags(c, flags)) = Manual!Flagged(Seen(c), flags)
         /\ OperandsOf(c, WriteFlags(c, flags))
         /\ Same(c, WriteFlags(c, flags), {"f", "pending"})
<1>1. PICK d : d = Put(c, "f", flags)
  OBVIOUS
<1>2. WriteFlags(c, flags) = Put(d, "pending", flags)
  BY <1>1 DEF WriteFlags, Put
<1>3. Shaped(d) /\ Seen(d) = [Seen(c) EXCEPT !["f"] = flags]
  BY <1>1, SeenPut, SeenFields, InCore
<1>4. Shaped(WriteFlags(c, flags)) /\ Seen(WriteFlags(c, flags)) = Seen(d)
  BY <1>2, <1>3, SeenPut, SeenFields, InCore
<1>5. Same(c, WriteFlags(c, flags), {"f", "pending"})
  BY FlagsWritten
<1> QED BY <1>3, <1>4, <1>5, InCore DEF Manual!Flagged, OperandsOf, Same

LEMMA SeenOut ==
  ASSUME NEW c, Shaped(c), NEW out
  PROVE  Seen(WithOut(c, out)) = Manual!Accumulates(Seen(c), out)
<1>1. PICK d : d = WriteFlags(c, out.flags)
  OBVIOUS
<1>2. WithOut(c, out) = Put(d, "a", out.value)
  BY <1>1 DEF WithOut, Put
<1>3. Shaped(d) /\ Seen(d) = [Seen(c) EXCEPT !.f = out.flags]
  BY <1>1, SeenFlags DEF Manual!Flagged
<1>4. Seen(WithOut(c, out)) = [Seen(d) EXCEPT !["a"] = out.value]
  <2>1. Shaped(d) /\ "a" \in CpuFields /\ "a" \in VisibleFields
    BY <1>3, SeenFields, InCore
  <2>2. \A v : Seen(Put(d, "a", v)) = [Seen(d) EXCEPT !["a"] = v]
    BY <2>1, SeenPut
  <2> QED BY <1>2, <2>2
<1>5. [Seen(d) EXCEPT !["a"] = out.value] = [Seen(c) EXCEPT !.a = out.value, !.f = out.flags]
  BY <1>3, SeenFields DEF Seen
<1> QED BY <1>4, <1>5 DEF Manual!Accumulates

(* What an instruction has left is what the manual says. *)
Meets(r, l, both) == Seen(r) = both.regs /\ l = both.mem

(* A core that is awake looks as it is. *)
LEMMA AwakeSeen ==
  ASSUME NEW c, ~c.halted
  PROVE  Visible(c) = Seen(c)
BY DEF Visible, Seen

(* Calls and returns. *)
LEMMA CallsMean ==
  ASSUME NEW s, s = [x \in VisibleFields |-> s[x]], NEW m, NEW target
  PROVE  Manual!Calls(s, m, target)
           = Manual!Both([s EXCEPT !.sp = Plus(@, -2), !.pc = target],
                         Manual!Poke(Manual!Poke(m, Plus(s.sp, -1), High(s.pc)),
                                     Plus(s.sp, -2), Low(s.pc)))
<1>1. PICK t : t = [s EXCEPT !.sp = Plus(@, -2)]
  OBVIOUS
<1>2. PICK k : k = Manual!Poke(Manual!Poke(m, Plus(s.sp, -1), High(s.pc)),
                               Plus(s.sp, -2), Low(s.pc))
  OBVIOUS
<1>3. Manual!Pushes(s, m, s.pc) = Manual!Both(t, k)
  BY <1>1, <1>2, SameWords DEF Manual!Pushes
<1>4. Manual!Calls(s, m, target) = Manual!Both([t EXCEPT !.pc = target], k)
  BY <1>3 DEF Manual!Calls, Manual!Both
<1> QED BY <1>1, <1>2, <1>4

LEMMA ReturnsMean ==
  ASSUME NEW s, NEW m
  PROVE  Manual!Returns(s, m)
           = Manual!Both([s EXCEPT !.pc = Manual!PeekWord(m, s.sp), !.sp = Plus(@, 2)], m)
BY SameWords DEF Manual!Returns

(* A word poked, low byte first or high byte first. *)
LEMMA PokedWord ==
  ASSUME NEW m, NEW w \in Word, NEW word
  PROVE  /\ Manual!PokeWord(m, w, word)
              = Manual!Poke(Manual!Poke(m, w, Low(word)), Plus(w, 1), High(word))
         /\ Manual!PokeWord(m, w, word)
              = Manual!Poke(Manual!Poke(m, Plus(w, 1), High(word)), w, Low(word))
<1>1. Plus(w, 1) # w
  BY DEF Plus, Word, Alu!Word
<1>2. PICK v : v = Plus(w, 1)
  OBVIOUS
<1>3. \A x, y : Manual!Poke(Manual!Poke(m, w, x), v, y) = Manual!Poke(Manual!Poke(m, v, y), w, x)
  BY <1>1, <1>2 DEF Manual!Poke
<1> QED BY <1>2, <1>3, SameWords DEF Manual!PokeWord
-----------------------------------------------------------------------------
(***************************************************************************)
(* What the remaining exit hooks leave, conditions included.               *)
(***************************************************************************)

(* A write cycle that puts up an address and leaves the byte that was read. *)
LEMMA KeepsWrites ==
  ASSUME NEW d, NEW m, NEW e, NEW l, OneCycle(d, m, e, l), NEW h, NEW x,
         Enters(d, "mem_write", h, x), NEW address, Enter(h, d) = Put(d, "bus_addr", address)
  PROVE  \E f : /\ Same(d, f, {"bus_addr"}) /\ f.bus_addr = address
                /\ e = Put(Exit(x, f), "cycle", d.cycle + 1)
                /\ l = Manual!Poke(m, address, d.bus_data)
<1>1. Shaped(d)
  BY Fields DEF OneCycle
<1>2. PICK f : f = Enter(h, d)
  OBVIOUS
<1>3. /\ Same(d, f, {"bus_addr"}) /\ f.bus_addr = address
  BY <1>1, <1>2, GetPut, InCore DEF Same
<1>4. /\ e = Put(Exit(x, f), "cycle", d.cycle + 1)
      /\ l = Manual!Poke(m, f.bus_addr, f.bus_data)
  BY <1>2, WriteCycle
<1> QED BY <1>3, <1>4, InCore DEF Same

(* The other exit hooks. *)
LEMMA LeavesPair ==
  ASSUME NEW f, Shaped(f), NEW x, NEW k, NEW e, e = Put(Exit(x, f), "cycle", k),
         NEW pair \in {"bc", "de", "hl", "ix", "iy", "sp"}
  PROVE  /\ x = "to_l" /\ pair = index_pair(f) =>
              Same(f, e, {pair, "cycle"}) /\ e[pair] = WithLow(f[pair], f.bus_data)
         /\ x = "to_rp_low" /\ pair = pair_rp(f) =>
              Same(f, e, {pair, "cycle"}) /\ e[pair] = WithLow(f[pair], f.bus_data)
<1>1. pair \in CpuFields /\ pair # "cycle"
  BY InCore
<1>2. \A v : Shaped(Put(f, pair, v))
  BY <1>1, GetPut
<1>3. \A v, g : g = Put(Put(f, pair, v), "cycle", k) =>
        Same(f, g, {pair, "cycle"}) /\ g[pair] = v
  BY <1>1, <1>2, GetPut, InCore DEF Same
<1>4. /\ x = "to_l" /\ pair = index_pair(f) =>
           e = Put(Put(f, pair, WithLow(f[pair], f.bus_data)), "cycle", k)
      /\ x = "to_rp_low" /\ pair = pair_rp(f) =>
           e = Put(Put(f, pair, WithLow(f[pair], f.bus_data)), "cycle", k)
  BY ExitCollects
<1> QED BY <1>3, <1>4

LEMMA LeavesByte ==
  ASSUME NEW f, Shaped(f), NEW x, NEW k, NEW e, e = Put(Exit(x, f), "cycle", k), NEW out,
         \/ x = "inc_bus" /\ out = Alu!alu_inc(f.f, f.bus_data)
         \/ x = "dec_bus" /\ out = Alu!alu_dec(f.f, f.bus_data)
  PROVE  /\ Same(f, e, {"f", "pending", "bus_data", "cycle"})
         /\ e.f = out.flags /\ e.bus_data = out.value
<1>1. PICK g : g = Flagged(f, out.flags)
  OBVIOUS
<1>2. Same(f, g, {"f", "pending"}) /\ g.f = out.flags
  BY <1>1, FlagsWritten
<1>3. e = Put(Put(g, "bus_data", out.value), "cycle", k)
  BY <1>1, ExitBytes
<1> QED BY <1>2, <1>3, GetPut, InCore DEF Same

LEMMA CbKeeps ==
  ASSUME NEW c, Shaped(c), NEW byte, X(c.opcode) # 1, c.opcode \in Byte
  PROVE  /\ Same(c, CbFlags(c, byte), {"f", "pending"})
         /\ CbFlags(c, byte).f = CbResult(c, byte).flags
<1>1. X(c.opcode) \in {0, 2, 3}
  BY FieldsType
<1>2. CASE X(c.opcode) = 0
  BY <1>2, FlagsWritten DEF CbFlags
<1>3. CASE X(c.opcode) \in {2, 3}
  BY <1>3 DEF CbFlags, CbResult, Alu!Out, Same
<1> QED BY <1>1, <1>2, <1>3

LEMMA LeavesCb ==
  ASSUME NEW f, Shaped(f), NEW k, NEW e, e = Put(Exit("cb_bus", f), "cycle", k),
         X(f.opcode) # 1, f.opcode \in Byte, NEW out, out = CbResult(f, f.bus_data)
  PROVE  /\ Same(f, e, {"f", "pending", "bus_data", "cycle"})
         /\ e.f = out.flags /\ e.bus_data = out.value
<1>1. PICK g : g = CbFlags(f, f.bus_data)
  OBVIOUS
<1>2. Same(f, g, {"f", "pending"}) /\ g.f = out.flags
  BY <1>1, CbKeeps
<1>3. e = Put(Put(g, "bus_data", out.value), "cycle", k)
  BY <1>1, ExitBytes
<1> QED BY <1>2, <1>3, GetPut, InCore DEF Same

LEMMA LeavesDigit ==
  ASSUME NEW f, Shaped(f), NEW right \in BOOLEAN, NEW k, NEW e,
         NEW x, right => x = "rrd", ~right => x = "rld", e = Put(Exit(x, f), "cycle", k),
         NEW a, a = Alu!DigitRotated(right, f.a, f.bus_data)
  PROVE  /\ Same(f, e, {"f", "pending", "a", "bus_data", "wz", "cycle"})
         /\ e.f = Alu!digit_rotate_flags(f.f, a) /\ e.a = a
         /\ e.bus_data = Alu!DigitStored(right, f.a, f.bus_data)
<1>1. PICK g : g = WriteFlags(f, Alu!digit_rotate_flags(f.f, a))
  OBVIOUS
<1>2. Same(f, g, {"f", "pending"}) /\ g.f = Alu!digit_rotate_flags(f.f, a)
  BY <1>1, FlagsWritten
<1>3. PICK b : b = Alu!DigitStored(right, f.a, f.bus_data)
  OBVIOUS
<1>4. Exit(x, f) = DigitHook(right, f)
  <2>1. CASE right
    BY <2>1, ExitBytes
  <2>2. CASE ~right
    BY <2>2, ExitBytes
  <2> QED BY <2>1, <2>2
<1>5. DigitHook(right, f) = Put(Put(Put(g, "a", a), "bus_data", b), "wz", Plus(f.hl, 1))
  BY <1>1, <1>3 DEF DigitHook, Put
<1>6. e = Put(Put(Put(Put(g, "a", a), "bus_data", b), "wz", Plus(f.hl, 1)), "cycle", k)
  BY <1>4, <1>5
<1> QED BY <1>2, <1>3, <1>6, GetPut, InCore DEF Same

(* Conditions: the instruction goes on, or its limit is the next cycle.     *)
LEMMA StopsLeave ==
  ASSUME NEW c, Shaped(c)
  PROVE  Same(c, Stops(c), {"cycle_limit"}) /\ Stops(c).cycle_limit = c.cycle + 1
BY GetPut, InCore DEF Same, Stops

LEMMA LeavesOrEnds ==
  ASSUME NEW f, Shaped(f), NEW x, NEW k, NEW e, e = Put(Exit(x, f), "cycle", k)
  PROVE  /\ x \in {"jr_condition", "return_condition"} =>
              LET met == Alu!condition_met(f.f, IF x = "jr_condition" THEN Y(f.opcode) % 4
                                                ELSE Y(f.opcode))
              IN /\ Same(f, e, {"cycle", "cycle_limit"})
                 /\ e.cycle_limit = IF met THEN f.cycle_limit ELSE f.cycle + 1
         /\ x = "call_condition" =>
              /\ Same(f, e, {"wz", "cycle", "cycle_limit"})
              /\ e.wz = WithHigh(f.wz, f.bus_data)
              /\ e.cycle_limit = IF Alu!condition_met(f.f, Y(f.opcode)) THEN f.cycle_limit
                                 ELSE f.cycle + 1
         /\ x = "djnz_condition" =>
              /\ Same(f, e, {"bc", "cycle", "cycle_limit"})
              /\ e.bc = WithHigh(f.bc, (High(f.bc) - 1) % 256)
              /\ e.cycle_limit = IF High(f.bc) # 1 THEN f.cycle_limit ELSE f.cycle + 1
<1>1. ASSUME NEW g, Shaped(g)
      PROVE  /\ Same(g, Put(g, "cycle", k), {"cycle", "cycle_limit"})
             /\ Put(g, "cycle", k).cycle_limit = g.cycle_limit
             /\ Same(g, Put(Stops(g), "cycle", k), {"cycle", "cycle_limit"})
             /\ Put(Stops(g), "cycle", k).cycle_limit = g.cycle + 1
  <2>1. Same(g, Stops(g), {"cycle_limit"}) /\ Stops(g).cycle_limit = g.cycle + 1
    BY <1>1, StopsLeave
  <2> QED BY <1>1, <2>1, GetPut, InCore DEF Same
<1>2. ASSUME x \in {"jr_condition", "return_condition"},
             NEW met, met = Alu!condition_met(f.f, IF x = "jr_condition" THEN Y(f.opcode) % 4
                                                   ELSE Y(f.opcode))
      PROVE  /\ Same(f, e, {"cycle", "cycle_limit"})
             /\ e.cycle_limit = IF met THEN f.cycle_limit ELSE f.cycle + 1
  <2>1. e = IF met THEN Put(f, "cycle", k) ELSE Put(Stops(f), "cycle", k)
    BY <1>2, ExitBranches
  <2> QED BY <1>1, <2>1
<1>3. ASSUME x = "call_condition"
      PROVE  /\ Same(f, e, {"wz", "cycle", "cycle_limit"})
             /\ e.wz = WithHigh(f.wz, f.bus_data)
             /\ e.cycle_limit = IF Alu!condition_met(f.f, Y(f.opcode)) THEN f.cycle_limit
                                ELSE f.cycle + 1
  <2>1. PICK g : g = Put(f, "wz", WithHigh(f.wz, f.bus_data))
    OBVIOUS
  <2>2. Same(f, g, {"wz"}) /\ g.wz = WithHigh(f.wz, f.bus_data)
    BY <2>1, GetPut, InCore DEF Same
  <2>3. e = IF Alu!condition_met(f.f, Y(f.opcode)) THEN Put(g, "cycle", k)
            ELSE Put(Stops(g), "cycle", k)
    BY <1>3, <2>1, ExitBranches
  <2>4. /\ Same(g, e, {"cycle", "cycle_limit"})
        /\ e.cycle_limit = IF Alu!condition_met(f.f, Y(f.opcode)) THEN g.cycle_limit
                           ELSE g.cycle + 1
    BY <1>1, <2>2, <2>3 DEF Same
  <2> QED BY <2>2, <2>4, InCore DEF Same
<1>4. ASSUME x = "djnz_condition"
      PROVE  /\ Same(f, e, {"bc", "cycle", "cycle_limit"})
             /\ e.bc = WithHigh(f.bc, (High(f.bc) - 1) % 256)
             /\ e.cycle_limit = IF High(f.bc) # 1 THEN f.cycle_limit ELSE f.cycle + 1
  <2>1. PICK g : g = Put(f, "bc", WithHigh(f.bc, (High(f.bc) - 1) % 256))
    OBVIOUS
  <2>2. Same(f, g, {"bc"}) /\ g.bc = WithHigh(f.bc, (High(f.bc) - 1) % 256)
    BY <2>1, GetPut, InCore DEF Same
  <2>3. e = IF High(f.bc) # 1 THEN Put(g, "cycle", k) ELSE Put(Stops(g), "cycle", k)
    BY <1>4, <2>1, ExitBranches
  <2>4. /\ Same(g, e, {"cycle", "cycle_limit"})
        /\ e.cycle_limit = IF High(f.bc) # 1 THEN g.cycle_limit ELSE g.cycle + 1
    BY <1>1, <2>2, <2>3 DEF Same
  <2> QED BY <2>2, <2>4, InCore DEF Same
<1> QED BY <1>2, <1>3, <1>4
-----------------------------------------------------------------------------
(***************************************************************************)
(* The effects an instruction has once its last cycle is over, and where   *)
(* it begins.                                                              *)
(***************************************************************************)

(* The types of the fields, by name. *)
LEMMA CoreTypes ==
  ASSUME NEW c, Typed(c)
  PROVE  /\ Shaped(c)
         /\ c.a \in Byte /\ c.i \in Byte /\ c.r \in Byte /\ c.opcode \in Byte /\ c.bus_data \in Byte
         /\ c.bc \in Word /\ c.de \in Word /\ c.hl \in Word /\ c.ix \in Word /\ c.iy \in Word
         /\ c.sp \in Word /\ c.pc \in Word /\ c.wz \in Word /\ c.tmp \in Word
         /\ c.bus_addr \in Word
         /\ c.f \in SUBSET Alu!Flags /\ c.q \in SUBSET Alu!Flags
<1>1. Shaped(c)
  BY Fields
<1>2. \A x \in {"a", "i", "r", "opcode", "bus_data"} : c[x] \in Byte
  BY Fields DEF ByteFields
<1>3. \A x \in {"bc", "de", "hl", "ix", "iy", "sp", "pc", "wz", "tmp", "bus_addr"} : c[x] \in Word
  BY Fields DEF WordFields
<1>4. c.f \in SUBSET Alu!Flags /\ c.q \in SUBSET Alu!Flags
  BY Fields DEF FlagFields
<1> QED BY <1>1, <1>2, <1>3, <1>4

(* Which part of the table of effects an instruction is in. *)
LEMMA Executes ==
  ASSUME NEW c, NEW int, NEW n
  PROVE  /\ n \in Loads => Execute(n, c, int) = LoadEffect(n, c)
         /\ n \in Exchanges => Execute(n, c, int) = ExchangeEffect(n, c)
         /\ n \in Arithmetics => Execute(n, c, int) = ArithmeticEffect(n, c)
         /\ n \in {"cb_reg", "cb_bit_mem"} => Execute(n, c, int) = CbEffect(n, c)
         /\ n \in Controls => Execute(n, c, int) = ControlEffect(n, c)
         /\ n \in Refreshes => Execute(n, c, int) = RefreshEffect(n, c, int)
         /\ n \in {"ed_in_c", "ed_out_c"} => Execute(n, c, int) = PortEffect(n, c)
BY DEF Execute, Loads, Exchanges, Arithmetics, Controls, Refreshes

(* The others have done everything in their hooks. *)
Hooked == {"nop", "ed_nop", "ld_hl_from_reg", "ld_hl_n", "push", "inc_mem", "dec_mem", "cb_mem",
           "jr", "jr_cc", "djnz", "call", "call_cc", "ret", "ret_cc", "rst", "ed_retn",
           "ed_rrd", "ed_rld", "index_ld_mem_reg", "index_ld_mem_n", "index_inc_mem",
           "index_dec_mem", "index_cb", "nmi", "interrupt", "interrupt_mode2"} \union BlockInstrs

LEMMA ExecutesNothing ==
  ASSUME NEW c, NEW int, NEW n \in Hooked
  PROVE  Execute(n, c, int) = c
BY DEF Execute, Loads, Exchanges, Arithmetics, Controls, Refreshes, Hooked, BlockInstrs

(* An instruction of the unprefixed table is about to run: its opcode has   *)
(* been decoded and nothing else has happened.  place and at are where the  *)
(* manual has the byte (HL) names and the operand bytes.                    *)
OperandsAt(m, at, w) == /\ Manual!Peek(m, at) = Manual!Peek(m, w)
                 /\ Manual!PeekWord(m, at) = Manual!PeekWord(m, w)
Begins(e, m, place, at) ==
  /\ Typed(e) /\ ByteMemory(m) /\ e.cycle = 0
  /\ e.instr = DecodeBase(e.opcode)
  /\ e.index # 0 => ~Manual!NamesMemory(e.opcode)
  /\ e.index = 0 => place = e.hl
  /\ OperandsAt(m, at, e.pc)

(* The registers when all of its bytes have been read. *)
Past(e) == [Seen(e) EXCEPT !.pc = Plus(@, Manual!OperandBytes(e.opcode))]
Table(e, m, place, at, port) ==
  Manual!Main(Past(e), m, e.opcode, index_pair(e), place, at, port, e.q)

LEMMA SeenIs ==
  ASSUME NEW c
  PROVE  Seen(c) = [x \in VisibleFields |-> Seen(c)[x]] /\
           \A x \in VisibleFields : Seen(c)[x] = c[x]
BY DEF Seen

(* The three fields of an opcode are all of it. *)
LEMMA OpcodeOf ==
  ASSUME NEW o \in Byte
  PROVE  o = 64 * X(o) + 8 * Y(o) + Z(o)
BY DEF X, Y, Z, Byte
-----------------------------------------------------------------------------
(***************************************************************************)
(* What no cycle disturbs: HALT, and the length of the instruction in      *)
(* progress unless a condition decides it.                                 *)
(***************************************************************************)

(* What no hook moves: halted; and the limit of the instruction, but for    *)
(* the exit hooks that decide whether it goes on.                          *)
Steady(c, d) == Shaped(d) /\ d.halted = c.halted /\ d.cycle_limit = c.cycle_limit

(* The core stays awake. *)
Awake(c, d)  == Shaped(d) /\ d.halted = c.halted

(* The exit hooks that may end the instruction early. *)
Deciding == BranchHooks \union BlockHooks \union {"index_cb_apply"}

LEMMA SteadyPut ==
  ASSUME NEW c, NEW d, Steady(c, d), NEW x \in CpuFields \ {"halted", "cycle_limit"}, NEW v
  PROVE  Steady(c, Put(d, x, v))
BY GetPut, InCore DEF Steady

LEMMA SteadyItself ==
  ASSUME NEW c, Shaped(c)
  PROVE  Steady(c, c)
BY DEF Steady

LEMMA SteadyFields ==
  {"bus_addr", "bus_data", "pc", "sp", "tmp", "wz", "bc", "de", "hl", "ix", "iy", "a", "f",
   "pending", "opcode", "iff1", "cycle", "r", "i"}
    \subseteq CpuFields \ {"halted", "cycle_limit"}
BY InCore

LEMMA EnterSteady ==
  ASSUME NEW c, Shaped(c), NEW h \in EnterHooks
  PROVE  Steady(c, Enter(h, c))
<1>1. Steady(c, c)
  BY SteadyItself
<1>2. \A v : /\ Steady(c, Put(c, "bus_addr", v)) /\ Steady(c, Put(c, "pc", v))
             /\ Steady(c, Put(c, "wz", v))
  BY <1>1, SteadyPut, SteadyFields
<1>3. \A v, w : /\ Steady(c, Put(Put(c, "bus_addr", v), "pc", w))
                /\ Steady(c, Put(Put(c, "bus_addr", v), "sp", w))
                /\ Steady(c, Put(Put(c, "bus_addr", v), "tmp", w))
                /\ Steady(c, Put(Put(c, "bus_addr", v), "bc", w))
                /\ Steady(c, Put(Put(c, "bus_addr", v), "bus_data", w))
                /\ Steady(c, Put(Put(c, "pc", v), "wz", w))
                /\ Steady(c, Put(Put(c, "wz", v), "bus_addr", w))
  BY <1>2, SteadyPut, SteadyFields
<1>4. \A d : Steady(c, d) => \A b : Steady(c, Pushed(d, b))
  <2> SUFFICES ASSUME NEW d, Steady(c, d), NEW b PROVE Steady(c, Pushed(d, b))
    OBVIOUS
  <2>1. Steady(c, Put(d, "bus_addr", Plus(d.sp, -1)))
    BY SteadyPut, SteadyFields
  <2>2. Steady(c, Puts(d, Plus(d.sp, -1), b))
    BY <2>1, SteadyPut, SteadyFields DEF Puts
  <2> QED BY <2>2, SteadyPut, SteadyFields DEF Pushed
<1>5. CASE h \in ReadHooks \union {"none"}
  BY <1>1, <1>2, <1>3, <1>5, EnterReads DEF ReadHooks
<1>6. CASE h \in PushHooks
  BY <1>1, <1>2, <1>4, <1>6, EnterPushes DEF PushHooks
<1>7. CASE h \in WriteHooks
  BY <1>3, <1>7, EnterWrites DEF WriteHooks, Puts
<1>8. CASE h \in IoHooks \union JumpHooks
  BY <1>2, <1>3, <1>8, EnterOthers DEF IoHooks, JumpHooks, Puts
<1> QED BY <1>5, <1>6, <1>7, <1>8 DEF EnterHooks

LEMMA SteadyWrites ==
  ASSUME NEW c, NEW d, Steady(c, d), NEW flags
  PROVE  Steady(c, WriteFlags(d, flags))
<1>1. Steady(c, Put(d, "f", flags))
  BY SteadyPut, SteadyFields
<1> QED BY <1>1, SteadyPut, SteadyFields, FlagsWritten DEF Flagged

LEMMA SteadyHalf ==
  ASSUME NEW c, NEW d, Steady(c, d), NEW w \in 0 .. 7, NEW pair \in {"hl", "ix", "iy"}, NEW b
  PROVE  Steady(c, WithHalf(d, w, pair, b))
<1>1. \A v : /\ Steady(c, Put(d, "bc", v)) /\ Steady(c, Put(d, "de", v))
             /\ Steady(c, Put(d, "a", v)) /\ Steady(c, Put(d, "hl", v))
             /\ Steady(c, Put(d, "ix", v)) /\ Steady(c, Put(d, "iy", v))
  BY SteadyPut, SteadyFields
<1>2. \A v : Steady(c, Put(d, pair, v))
  BY <1>1
<1>3. CASE w = 0
  <2>1. WithHalf(d, w, pair, b) = Put(d, "bc", WithHigh(d.bc, b))
    BY <1>3 DEF WithHalf, Put
  <2> QED BY <1>1, <1>2, <2>1
<1>4. CASE w = 1
  <2>1. WithHalf(d, w, pair, b) = Put(d, "bc", WithLow(d.bc, b))
    BY <1>4 DEF WithHalf, Put
  <2> QED BY <1>1, <1>2, <2>1
<1>5. CASE w = 2
  <2>1. WithHalf(d, w, pair, b) = Put(d, "de", WithHigh(d.de, b))
    BY <1>5 DEF WithHalf, Put
  <2> QED BY <1>1, <1>2, <2>1
<1>6. CASE w = 3
  <2>1. WithHalf(d, w, pair, b) = Put(d, "de", WithLow(d.de, b))
    BY <1>6 DEF WithHalf, Put
  <2> QED BY <1>1, <1>2, <2>1
<1>7. CASE w = 4
  <2>1. WithHalf(d, w, pair, b) = Put(d, pair, WithHigh(d[pair], b))
    BY <1>7 DEF WithHalf, Put
  <2> QED BY <1>1, <1>2, <2>1
<1>8. CASE w = 5
  <2>1. WithHalf(d, w, pair, b) = Put(d, pair, WithLow(d[pair], b))
    BY <1>8 DEF WithHalf, Put
  <2> QED BY <1>1, <1>2, <2>1
<1>9. CASE w = 6
  BY <1>9 DEF WithHalf, Steady
<1>10. CASE w = 7
  <2>1. WithHalf(d, w, pair, b) = Put(d, "a", b)
    BY <1>10 DEF WithHalf, Put
  <2> QED BY <1>1, <1>2, <2>1
<1> QED BY <1>3, <1>4, <1>5, <1>6, <1>7, <1>8, <1>9, <1>10

LEMMA ExitSteady ==
  ASSUME NEW c, Typed(c), NEW h \in ExitHooks \ Deciding
  PROVE  Steady(c, Exit(h, c))
<1>1. Shaped(c) /\ Steady(c, c)
  BY SteadyItself, Fields
<1>2. \A v : /\ Steady(c, Put(c, "tmp", v)) /\ Steady(c, Put(c, "wz", v))
             /\ Steady(c, Put(c, "opcode", v)) /\ Steady(c, Put(c, "pc", v))
             /\ \A pair \in {"bc", "de", "hl", "ix", "iy", "sp"} : Steady(c, Put(c, pair, v))
  BY <1>1, SteadyPut, SteadyFields
<1>3. \A v : Steady(c, Put(Put(c, "pc", v), "wz", v))
  BY <1>2, SteadyPut, SteadyFields
<1>4. \A v, w : Steady(c, Put(Put(Put(c, "pc", v), "wz", v), "iff1", w))
  BY <1>3, SteadyPut, SteadyFields
<1>5. index_pair(c) \in {"bc", "de", "hl", "ix", "iy", "sp"}
      /\ pair_rp(c) \in {"bc", "de", "hl", "ix", "iy", "sp"}
  BY Names
<1>6. CASE h \in CollectHooks \union {"none"}
  BY <1>1, <1>2, <1>5, <1>6, ExitCollects DEF CollectHooks
<1>7. CASE h \in VectorHooks
  BY <1>1, <1>2, <1>3, <1>4, <1>7, ExitVectors DEF VectorHooks
<1>8. CASE h \in {"inc_bus", "dec_bus", "cb_bus"}
  <2>1. \A flags, v : Steady(c, Put(Flagged(c, flags), "bus_data", v))
    BY <1>1, SteadyWrites, SteadyPut, SteadyFields, FlagsWritten
  <2>2. \A v : Steady(c, Put(CbFlags(c, c.bus_data), "bus_data", v))
    <3>1. Steady(c, CbFlags(c, c.bus_data))
      BY <1>1, SteadyWrites DEF CbFlags
    <3> QED BY <3>1, SteadyPut, SteadyFields
  <2> QED BY <1>8, <2>1, <2>2, ExitBytes
<1>9. CASE h \in {"rrd", "rld"}
  <2>1. ASSUME NEW right \in BOOLEAN PROVE Steady(c, DigitHook(right, c))
    <3>1. PICK a : a = Alu!DigitRotated(right, c.a, c.bus_data)
      OBVIOUS
    <3>2. PICK b : b = Alu!DigitStored(right, c.a, c.bus_data)
      OBVIOUS
    <3>3. PICK g : g = WriteFlags(c, Alu!digit_rotate_flags(c.f, a))
      OBVIOUS
    <3>4. DigitHook(right, c) = Put(Put(Put(g, "a", a), "bus_data", b), "wz", Plus(c.hl, 1))
      BY <3>1, <3>2, <3>3 DEF DigitHook, Put
    <3>5. Steady(c, Put(g, "a", a))
      BY <1>1, <3>3, SteadyWrites, SteadyPut, SteadyFields
    <3>6. Steady(c, Put(Put(g, "a", a), "bus_data", b))
      BY <3>5, SteadyPut, SteadyFields
    <3> QED BY <3>4, <3>6, SteadyPut, SteadyFields
  <2>2. Steady(c, DigitHook(TRUE, c)) /\ Steady(c, DigitHook(FALSE, c))
    BY <2>1
  <2> QED BY <1>9, <2>2, ExitBytes
<1>10. h \in CollectHooks \union {"none"} \union VectorHooks
              \union {"inc_bus", "dec_bus", "cb_bus", "rrd", "rld"}
  BY DEF ExitHooks, Deciding, ByteHooks
<1> QED BY <1>6, <1>7, <1>8, <1>9, <1>10

(* The deciding hooks set the limit and leave halted alone. *)
LEMMA StopsAwake ==
  ASSUME NEW c, NEW d, Awake(c, d)
  PROVE  /\ Awake(c, Stops(d))
         /\ \A flags : Awake(c, WriteFlags(d, flags))
         /\ \A x \in CpuFields \ {"halted"} : \A v : Awake(c, Put(d, x, v))
<1>1. \A x \in CpuFields \ {"halted"} : \A v : Awake(c, Put(d, x, v))
  BY GetPut, InCore DEF Awake
<1>2. Awake(c, Stops(d))
  BY <1>1, InCore DEF Stops
<1>3. \A flags : Awake(c, WriteFlags(d, flags))
  <2> SUFFICES ASSUME NEW flags PROVE Awake(c, WriteFlags(d, flags))
    OBVIOUS
  <2>1. Awake(c, Put(d, "f", flags))
    BY <1>1, InCore
  <2> QED BY <2>1, GetPut, InCore, FlagsWritten DEF Flagged, Awake
<1> QED BY <1>1, <1>2, <1>3

LEMMA ExitAwake ==
  ASSUME NEW c, Typed(c), NEW h \in ExitHooks
  PROVE  Awake(c, Exit(h, c))
<1>1. Shaped(c) /\ Awake(c, c)
  BY Fields DEF Awake
<1>2. CASE h \notin Deciding
  BY <1>2, ExitSteady DEF Steady, Awake
<1>3. CASE h \in BranchHooks
  <2>1. \A v : Awake(c, Put(c, "wz", v)) /\ Awake(c, Put(c, "bc", v))
    BY <1>1, StopsAwake, InCore
  <2>2. Awake(c, Stops(c)) /\ \A v : Awake(c, Stops(Put(c, "wz", v))) /\
          Awake(c, Stops(Put(c, "bc", v)))
    BY <1>1, <2>1, StopsAwake
  <2> QED BY <1>1, <1>3, <2>1, <2>2, ExitBranches DEF BranchHooks
<1>4. CASE h = "index_cb_apply"
  <2>1. CASE X(c.opcode) = 1
    <3>1. PICK g : g = CbBit(c, c.bus_data, High(c.wz))
      OBVIOUS
    <3>2. Awake(c, g)
      BY <1>1, <3>1, StopsAwake DEF CbBit
    <3>3. Exit(h, c) = Stops(g)
      BY <1>4, <2>1, <3>1, ExitBytes DEF IndexCbHook, Stops, end_instruction_here, Put
    <3> QED BY <3>2, <3>3, StopsAwake
  <2>2. CASE X(c.opcode) # 1
    <3>1. PICK g : g = CbFlags(c, c.bus_data)
      OBVIOUS
    <3>2. PICK b : b = CbResult(c, c.bus_data).value
      OBVIOUS
    <3>3. Exit(h, c) = WithHalf(Put(g, "bus_data", b), Z(c.opcode), "hl", b)
      BY <1>4, <2>2, <3>1, <3>2, ExitBytes DEF IndexCbHook, Put
    <3>4. Steady(c, g)
      BY <1>1, <3>1, SteadyItself, SteadyWrites DEF CbFlags
    <3>5. Steady(c, Put(g, "bus_data", b))
      BY <3>4, SteadyPut, SteadyFields
    <3>6. Steady(c, Exit(h, c))
      BY <3>3, <3>5, SteadyHalf, Names
    <3> QED BY <3>6 DEF Steady, Awake
  <2> QED BY <2>1, <2>2
<1>5. CASE h \in BlockHooks
  <2>1. ASSUME NEW d, Awake(c, d), NEW more PROVE Awake(c, OnceMore(d, more))
    BY <2>1, StopsAwake DEF OnceMore, Stops, end_instruction_here, Put
  <2>2. ASSUME NEW v, NEW w, NEW u
        PROVE  /\ Awake(c, Put(Put(Put(c, "hl", v), "de", w), "bc", u))
               /\ Awake(c, Put(Put(Put(c, "hl", v), "wz", w), "bc", u))
               /\ Awake(c, Put(Put(Put(c, "wz", v), "bc", w), "hl", u))
               /\ Awake(c, Put(Put(c, "hl", v), "wz", w))
    <3>1. Awake(c, Put(c, "hl", v)) /\ Awake(c, Put(c, "wz", v))
      BY <1>1, StopsAwake, InCore
    <3>2. /\ Awake(c, Put(Put(c, "hl", v), "de", w)) /\ Awake(c, Put(Put(c, "hl", v), "wz", w))
          /\ Awake(c, Put(Put(c, "wz", v), "bc", w))
      BY <3>1, StopsAwake, InCore
    <3> QED BY <3>2, StopsAwake, InCore
  <2>3. PICK delta : delta = block_delta(c)
    OBVIOUS
  <2>4. CASE h = "block_transfer"
    <3>1. PICK m : m = Put(Put(Put(c, "hl", Plus(c.hl, delta)), "de", Plus(c.de, delta)), "bc",
            Plus(c.bc, -1))
      OBVIOUS
    <3>2. m = [c EXCEPT !.hl = Plus(@, delta), !.de = Plus(@, delta), !.bc = Plus(c.bc, -1)]
      BY <1>1, <3>1, CoreFields DEF Put, Shaped, FieldsOfCore
    <3>5. PICK flags : flags = Alu!block_transfer_flags(c.a, c.f, c.bus_data, Plus(c.bc, -1) # 0)
      OBVIOUS
    <3>6. PICK more \in BOOLEAN : more = (Plus(c.bc, -1) # 0)
      OBVIOUS
    <3>7. Exit(h, c) = TransferHook(c)
      BY <2>4, ExitBlocks
    <3>3. Exit(h, c) = OnceMore(WriteFlags(m, flags), more)
      BY <2>3, <3>2, <3>5, <3>6, <3>7 DEF TransferHook
    <3>4. Awake(c, m)
      BY <2>2, <3>1
    <3> QED BY <2>1, <3>3, <3>4, StopsAwake
  <2>5. CASE h = "block_compare"
    <3>1. PICK m : m = Put(Put(Put(c, "hl", Plus(c.hl, delta)), "wz", Plus(c.wz, delta)), "bc",
            Plus(c.bc, -1))
      OBVIOUS
    <3>2. m = [c EXCEPT !.hl = Plus(@, delta), !.wz = Plus(@, delta), !.bc = Plus(c.bc, -1)]
      BY <1>1, <3>1, CoreFields DEF Put, Shaped, FieldsOfCore
    <3>5. PICK flags : flags = Alu!block_compare_flags(c.a, c.f, c.bus_data, Plus(c.bc, -1) # 0)
      OBVIOUS
    <3>6. PICK more \in BOOLEAN : more = (Plus(c.bc, -1) # 0 /\ "Z" \notin flags)
      OBVIOUS
    <3>7. Exit(h, c) = CompareHook(c)
      BY <2>5, ExitBlocks
    <3>3. Exit(h, c) = OnceMore(WriteFlags(m, flags), more)
      BY <2>3, <3>2, <3>5, <3>6, <3>7 DEF CompareHook
    <3>4. Awake(c, m)
      BY <2>2, <3>1
    <3> QED BY <2>1, <3>3, <3>4, StopsAwake
  <2>6. CASE h = "block_in"
    <3>0. PICK b : b = (High(c.bc) - 1) % 256
      OBVIOUS
    <3>1. PICK m : m = Put(Put(Put(c, "wz", Plus(c.bc, delta)), "bc", WithHigh(c.bc, b)), "hl",
            Plus(c.hl, delta))
      OBVIOUS
    <3>2. m = [c EXCEPT !.wz = Plus(c.bc, delta), !.bc = WithHigh(@, b), !.hl = Plus(@, delta)]
      BY <1>1, <3>1, CoreFields DEF Put, Shaped, FieldsOfCore
    <3>5. PICK flags : flags = Alu!block_io_flags(b, c.bus_data, (Low(c.bc) + delta) % 256)
      OBVIOUS
    <3>6. PICK more \in BOOLEAN : more = (b # 0)
      OBVIOUS
    <3>7. Exit(h, c) = BlockInHook(c)
      BY <2>6, ExitBlocks
    <3>3. Exit(h, c) = OnceMore(WriteFlags(m, flags), more)
      BY <2>3, <3>0, <3>2, <3>5, <3>6, <3>7 DEF BlockInHook
    <3>4. Awake(c, m)
      BY <2>2, <3>1
    <3> QED BY <2>1, <3>3, <3>4, StopsAwake
  <2>7. CASE h = "block_exit_out"
    <3>1. PICK m : m = Put(Put(c, "hl", Plus(c.hl, delta)), "wz", Plus(c.bc, delta))
      OBVIOUS
    <3>2. m = [c EXCEPT !.hl = Plus(@, delta), !.wz = Plus(c.bc, delta)]
      BY <1>1, <3>1, CoreFields DEF Put, Shaped, FieldsOfCore
    <3>3. \E flags, more : Exit(h, c) = OnceMore(WriteFlags(m, flags), more)
      BY <2>3, <2>7, <3>2, ExitBlocks DEF BlockOutHook
    <3>4. Awake(c, m)
      BY <2>2, <3>1
    <3> QED BY <2>1, <3>3, <3>4, StopsAwake
  <2> QED BY <1>5, <2>4, <2>5, <2>6, <2>7 DEF BlockHooks
<1> QED BY <1>2, <1>3, <1>4, <1>5 DEF Deciding
-----------------------------------------------------------------------------
(***************************************************************************)
(* The cycles that decide.                                                 *)
(***************************************************************************)

(* Which cycles decide that the instruction ends, and so may end it early.  *)
PlainPairs == {pair \in EnterHooks \X ExitHooks : pair[2] \notin Deciding}

(* The cycles that have such a hook. *)
DecidingCycles ==
  {<<"jr_cc", 0>>, <<"djnz", 1>>, <<"call_cc", 1>>, <<"ret_cc", 0>>,
   <<"ed_block_transfer", 2>>, <<"ed_block_compare", 1>>, <<"ed_block_in", 2>>,
   <<"ed_block_out", 2>>, <<"index_cb", 4>>}

LEMMA PlainShared ==
  /\ Idle \in PlainPairs
  /\ \A x \in {"to_tmp_low", "to_tmp_high", "to_wz_low", "to_wz_high", "to_displacement",
               "return_to_wz_high", "return_from_interrupt"} :
       AtPcTo(x) \in PlainPairs /\ AtPopTo(x) \in PlainPairs
  /\ \A x \in EnterHooks : On(x) \in PlainPairs
  /\ Operand \in Seq(PlainPairs) /\ Called \in Seq(PlainPairs)
<1> USE DEF PlainPairs, Idle, AtPcTo, AtPopTo, On
<1>1. {"none", "at_pc", "at_pop", "push_pc_high", "push_pc_low"} \subseteq EnterHooks
  BY DEF EnterHooks, ReadHooks, PushHooks
<1>2. \A x \in {"none", "to_tmp_low", "to_tmp_high", "to_wz_low", "to_wz_high", "to_displacement",
                "return_to_wz_high", "return_from_interrupt", "take_wz"} :
        x \in ExitHooks /\ x \notin Deciding
  BY DEF ExitHooks, Deciding, CollectHooks, BranchHooks, VectorHooks, BlockHooks
<1>3. /\ Idle \in PlainPairs
      /\ \A x \in {"to_tmp_low", "to_tmp_high", "to_wz_low", "to_wz_high", "to_displacement",
                   "return_to_wz_high", "return_from_interrupt"} :
           AtPcTo(x) \in PlainPairs /\ AtPopTo(x) \in PlainPairs
      /\ \A x \in EnterHooks : On(x) \in PlainPairs
  BY <1>1, <1>2
<1>4. <<"push_pc_low", "take_wz">> \in PlainPairs
  BY <1>1, <1>2
<1>5. Operand \in Seq(PlainPairs) /\ Called \in Seq(PlainPairs)
  BY <1>1, <1>3, <1>4 DEF Operand, Called
<1> QED BY <1>3, <1>5

LEMMA PlainIndexed == \A n \in IndexedInstrs \ {"index_cb"} : IndexedHooks(n) \in Seq(PlainPairs)
<1> SUFFICES ASSUME NEW n \in IndexedInstrs \ {"index_cb"} PROVE IndexedHooks(n) \in Seq(PlainPairs)
  OBVIOUS
<1>2. /\ Idle \in PlainPairs /\ On("at_wz") \in PlainPairs /\ On("at_pc") \in PlainPairs
      /\ On("plain_reg_at_wz") \in PlainPairs /\ AtPcTo("to_displacement") \in PlainPairs
  BY PlainShared DEF EnterHooks, ReadHooks, WriteHooks
<1>3. <<"at_wz", "inc_bus">> \in PlainPairs /\ <<"at_wz", "dec_bus">> \in PlainPairs
  BY DEF PlainPairs, EnterHooks, ExitHooks, ReadHooks, ByteHooks, Deciding, BranchHooks, BlockHooks
<1> QED BY <1>2, <1>3 DEF IndexedHooks, IndexedInstrs

LEMMA PlainEd == \A n \in EdInstrs : EdHooks(n) \in Seq(PlainPairs)
<1> SUFFICES ASSUME NEW n \in EdInstrs PROVE EdHooks(n) \in Seq(PlainPairs)
  OBVIOUS
<1>2. \A h \in {"io_at_bc", "out_c", "rp_low", "rp_high", "at_tmp_high", "at_hl"} :
        On(h) \in PlainPairs
  BY PlainShared DEF EnterHooks, ReadHooks, WriteHooks, IoHooks
<1>3. /\ <<"at_tmp", "to_rp_low">> \in PlainPairs
      /\ <<"at_hl", "rrd">> \in PlainPairs /\ <<"at_hl", "rld">> \in PlainPairs
  BY DEF PlainPairs, EnterHooks, ExitHooks, ReadHooks, CollectHooks, ByteHooks, Deciding,
         BranchHooks, BlockHooks
<1>4. /\ AtPopTo("to_wz_low") \in PlainPairs /\ Idle \in PlainPairs /\ Operand \in Seq(PlainPairs)
      /\ AtPopTo("return_from_interrupt") \in PlainPairs
  BY PlainShared
<1>5. /\ <<On("rp_low"), On("rp_high")>> \in Seq(PlainPairs)
      /\ << <<"at_tmp", "to_rp_low">>, On("at_tmp_high") >> \in Seq(PlainPairs)
  BY <1>2, <1>3
<1> QED BY <1>2, <1>3, <1>4, <1>5 DEF EdHooks, EdInstrs

LEMMA PlainLoads == \A n \in LoadInstrs : LoadHooks(n) \in Seq(PlainPairs)
<1> SUFFICES ASSUME NEW n \in LoadInstrs PROVE LoadHooks(n) \in Seq(PlainPairs)
  OBVIOUS
<1>1. /\ \A h \in {"at_pc", "at_bc", "at_de", "a_at_bc", "a_at_de", "at_tmp", "a_at_tmp",
                   "l_at_tmp", "h_at_tmp", "at_tmp_high", "push_pair_high", "push_pair_low",
                   "at_pop", "h_at_sp", "l_at_sp", "at_hl", "reg_to_hl"} : On(h) \in PlainPairs
      /\ Idle \in PlainPairs /\ Operand \in Seq(PlainPairs)
      /\ AtPopTo("to_tmp_low") \in PlainPairs
  BY PlainShared DEF EnterHooks, ReadHooks, WriteHooks, PushHooks
<1>3. /\ <<"at_tmp", "to_l">> \in PlainPairs /\ <<"at_sp", "to_tmp_low">> \in PlainPairs
      /\ <<"at_sp_high", "to_tmp_high">> \in PlainPairs
  BY DEF PlainPairs, EnterHooks, ExitHooks, ReadHooks, CollectHooks, Deciding, BranchHooks,
         BlockHooks
<1>4. /\ <<On("at_tmp")>> \in Seq(PlainPairs) /\ <<On("a_at_tmp")>> \in Seq(PlainPairs)
      /\ <<On("l_at_tmp"), On("h_at_tmp")>> \in Seq(PlainPairs)
      /\ << <<"at_tmp", "to_l">>, On("at_tmp_high") >> \in Seq(PlainPairs)
  BY <1>1, <1>3
<1>5. CASE n \in {"ld_a_nn", "ld_nn_a", "ld_rp_nn", "ld_nn_hl", "ld_hl_nn"}
  BY <1>1, <1>4, <1>5 DEF LoadHooks
<1>6. CASE n \notin {"ld_a_nn", "ld_nn_a", "ld_rp_nn", "ld_nn_hl", "ld_hl_nn"}
  BY <1>1, <1>3, <1>6 DEF LoadHooks, LoadInstrs
<1> QED BY <1>5, <1>6

LEMMA PlainArithmetic == \A n \in ArithmeticInstrs : ArithmeticHooks(n) \in Seq(PlainPairs)
<1> SUFFICES ASSUME NEW n \in ArithmeticInstrs PROVE ArithmeticHooks(n) \in Seq(PlainPairs)
  OBVIOUS
<1>1. On("at_pc") \in PlainPairs /\ Idle \in PlainPairs /\ On("at_hl") \in PlainPairs
  BY PlainShared DEF EnterHooks, ReadHooks
<1>4. /\ <<"at_hl", "inc_bus">> \in PlainPairs /\ <<"at_hl", "dec_bus">> \in PlainPairs
      /\ <<"at_hl", "cb_bus">> \in PlainPairs
  BY DEF PlainPairs, EnterHooks, ExitHooks, ReadHooks, ByteHooks, Deciding, BranchHooks,
         BlockHooks
<1> QED BY <1>1, <1>4 DEF ArithmeticHooks, ArithmeticInstrs

LEMMA PlainControl ==
  \A n \in ControlInstrs \ {"jr_cc", "djnz", "call_cc", "ret_cc"} :
    ControlHooks(n) \in Seq(PlainPairs)
<1> SUFFICES ASSUME NEW n \in ControlInstrs \ {"jr_cc", "djnz", "call_cc", "ret_cc"}
             PROVE  ControlHooks(n) \in Seq(PlainPairs)
  OBVIOUS
<1>1. /\ \A h \in {"at_pc", "jump_relative", "io_address", "io_write", "rst_target"} :
           On(h) \in PlainPairs
      /\ Idle \in PlainPairs /\ Called \in Seq(PlainPairs)
      /\ \A x \in {"to_wz_low", "to_wz_high", "to_tmp_low", "return_to_wz_high"} :
           AtPcTo(x) \in PlainPairs /\ AtPopTo(x) \in PlainPairs
  BY PlainShared DEF EnterHooks, ReadHooks, IoHooks, JumpHooks, PushHooks
<1>2. <<"push_pc_low", "take_wz">> \in PlainPairs
  BY DEF PlainPairs, EnterHooks, ExitHooks, PushHooks, VectorHooks, Deciding, BranchHooks,
         BlockHooks
<1>3. <<AtPcTo("to_wz_low"), AtPcTo("to_wz_high"), Idle>> \in Seq(PlainPairs)
  BY <1>1
<1>4. CASE n = "call"
  BY <1>1, <1>3, <1>4 DEF ControlHooks
<1>5. CASE n # "call"
  BY <1>1, <1>2, <1>5 DEF ControlHooks, ControlInstrs
<1> QED BY <1>4, <1>5

LEMMA PlainInterrupts == \A n \in InterruptSequences : InterruptHooks(n) \in Seq(PlainPairs)
<1> SUFFICES ASSUME NEW n \in InterruptSequences PROVE InterruptHooks(n) \in Seq(PlainPairs)
  OBVIOUS
<1>2. On("push_pc_high") \in PlainPairs /\ On("push_pc_low") \in PlainPairs
      /\ Idle \in PlainPairs
  BY PlainShared DEF EnterHooks, PushHooks
<1>3. /\ <<"push_pc_low", "nmi_vector">> \in PlainPairs /\ <<"none", "to_tmp_low">> \in PlainPairs
      /\ <<"push_pc_low", "interrupt_vector">> \in PlainPairs
      /\ <<"at_interrupt_table", "to_wz_low">> \in PlainPairs
      /\ <<"at_tmp_high", "return_to_wz_high">> \in PlainPairs
  BY DEF PlainPairs, EnterHooks, ExitHooks, PushHooks, ReadHooks, CollectHooks, VectorHooks,
         Deciding, BranchHooks, BlockHooks
<1> QED BY <1>2, <1>3 DEF InterruptHooks, InterruptSequences

(* No other cycle has one. *)
LEMMA DecidingHooks ==
  ASSUME NEW n \in Instrs, NEW k \in Nat, k < Len(CyclesOf[n]), <<n, k>> \notin DecidingCycles
  PROVE  HooksOf[n][k + 1] \in PlainPairs
<1>1. Len(HooksOf[n]) = Len(CyclesOf[n])
  BY HooksAssumption
<1>2. CASE HooksOf[n] \in Seq(PlainPairs)
  BY <1>1, <1>2
<1>3. CASE n \in FetchOnly
  <2>1. CyclesOf[n] = << >>
    BY <1>3, GroupCycles
  <2> QED BY <2>1
<1>4. CASE n \in IndexedInstrs \ {"index_cb"}
  BY <1>2, <1>4, GroupHooks, PlainIndexed
<1>5. CASE n \in EdInstrs
  BY <1>2, <1>5, GroupHooks, PlainEd
<1>6. CASE n \in LoadInstrs
  BY <1>2, <1>6, GroupHooks, PlainLoads
<1>7. CASE n \in ArithmeticInstrs
  BY <1>2, <1>7, GroupHooks, PlainArithmetic
<1>8. CASE n \in ControlInstrs \ {"jr_cc", "djnz", "call_cc", "ret_cc"}
  BY <1>2, <1>8, GroupHooks, PlainControl
<1>9. CASE n \in InterruptSequences
  BY <1>2, <1>9, GroupHooks, PlainInterrupts
<1>10. /\ Idle \in PlainPairs
       /\ \A x \in {"to_wz_low", "to_wz_high", "to_displacement", "return_to_wz_high"} :
            AtPcTo(x) \in PlainPairs /\ AtPopTo(x) \in PlainPairs
       /\ \A x \in {"jump_relative", "at_hl", "at_de", "block_repeat", "io_at_bc", "at_wz",
                    "push_pc_high"} : On(x) \in PlainPairs
  BY PlainShared DEF EnterHooks, ReadHooks, PushHooks, WriteHooks, IoHooks, JumpHooks
<1>11. /\ AtPcTo("latch_operation") \in PlainPairs /\ <<"push_pc_low", "take_wz">> \in PlainPairs
  BY DEF PlainPairs, EnterHooks, ExitHooks, PushHooks, ReadHooks, CollectHooks, VectorHooks,
         Deciding, BranchHooks, BlockHooks, AtPcTo
<1>12. CASE n = "index_cb"
  <2>1. HooksOf[n] = IndexedHooks(n) /\ Len(CyclesOf[n]) = 6
    BY <1>12, GroupHooks, GroupCycles DEF IndexedInstrs, IndexedCycles
  <2>2. k \in 0 .. 5 /\ k # 4
    BY <1>12, <2>1 DEF DecidingCycles
  <2> QED BY <1>10, <1>11, <1>12, <2>1, <2>2 DEF IndexedHooks
<1>13. CASE n = "jr_cc"
  <2>1. HooksOf[n] = ControlHooks(n) /\ Len(CyclesOf[n]) = 2
    <3>1. n \in ControlInstrs
      BY <1>13 DEF ControlInstrs
    <3>2. HooksOf[n] = ControlHooks(n)
      BY <3>1, GroupHooks
    <3>3. CyclesOf[n] = ControlCycles(n)
      BY <3>1, GroupCycles
    <3> QED BY <1>13, <3>2, <3>3 DEF ControlCycles
  <2>2. k = 1
    BY <1>13, <2>1 DEF DecidingCycles
  <2> QED BY <1>10, <1>13, <2>1, <2>2 DEF ControlHooks
<1>14. CASE n = "djnz"
  <2>1. HooksOf[n] = ControlHooks(n) /\ Len(CyclesOf[n]) = 3
    <3>1. n \in ControlInstrs
      BY <1>14 DEF ControlInstrs
    <3>2. HooksOf[n] = ControlHooks(n)
      BY <3>1, GroupHooks
    <3>3. CyclesOf[n] = ControlCycles(n)
      BY <3>1, GroupCycles
    <3> QED BY <1>14, <3>2, <3>3 DEF ControlCycles
  <2>2. k \in {0, 2}
    BY <1>14, <2>1 DEF DecidingCycles
  <2> QED BY <1>10, <1>14, <2>1, <2>2 DEF ControlHooks
<1>15. CASE n = "call_cc"
  <2>1. HooksOf[n] = ControlHooks(n) /\ Len(CyclesOf[n]) = 5
    <3>1. n \in ControlInstrs
      BY <1>15 DEF ControlInstrs
    <3>2. HooksOf[n] = ControlHooks(n)
      BY <3>1, GroupHooks
    <3>3. CyclesOf[n] = ControlCycles(n)
      BY <3>1, GroupCycles
    <3> QED BY <1>15, <3>2, <3>3 DEF ControlCycles
  <2>2. k \in {0, 2, 3, 4}
    BY <1>15, <2>1 DEF DecidingCycles
  <2> QED BY <1>10, <1>11, <1>15, <2>1, <2>2 DEF ControlHooks, Called
<1>16. CASE n = "ret_cc"
  <2>1. HooksOf[n] = ControlHooks(n) /\ Len(CyclesOf[n]) = 3
    <3>1. n \in ControlInstrs
      BY <1>16 DEF ControlInstrs
    <3>2. HooksOf[n] = ControlHooks(n)
      BY <3>1, GroupHooks
    <3>3. CyclesOf[n] = ControlCycles(n)
      BY <3>1, GroupCycles
    <3> QED BY <1>16, <3>2, <3>3 DEF ControlCycles
  <2>2. k \in {1, 2}
    BY <1>16, <2>1 DEF DecidingCycles
  <2> QED BY <1>10, <1>16, <2>1, <2>2 DEF ControlHooks
<1>17. CASE n = "ed_block_transfer"
  <2>1. HooksOf[n] = BlockCycleHooks(n) /\ Len(CyclesOf[n]) = 4
    BY <1>17, GroupHooks, GroupCycles DEF BlockInstrs, BlockCycles
  <2>2. k \in {0, 1, 3}
    BY <1>17, <2>1 DEF DecidingCycles
  <2> QED BY <1>10, <1>17, <2>1, <2>2 DEF BlockCycleHooks
<1>18. CASE n = "ed_block_compare"
  <2>1. HooksOf[n] = BlockCycleHooks(n) /\ Len(CyclesOf[n]) = 3
    BY <1>18, GroupHooks, GroupCycles DEF BlockInstrs, BlockCycles
  <2>2. k \in {0, 2}
    BY <1>18, <2>1 DEF DecidingCycles
  <2> QED BY <1>10, <1>18, <2>1, <2>2 DEF BlockCycleHooks
<1>19. CASE n = "ed_block_in"
  <2>1. HooksOf[n] = BlockCycleHooks(n) /\ Len(CyclesOf[n]) = 4
    BY <1>19, GroupHooks, GroupCycles DEF BlockInstrs, BlockCycles
  <2>2. k \in {0, 1, 3}
    BY <1>19, <2>1 DEF DecidingCycles
  <2> QED BY <1>10, <1>19, <2>1, <2>2 DEF BlockCycleHooks
<1>20. CASE n = "ed_block_out"
  <2>1. HooksOf[n] = BlockCycleHooks(n) /\ Len(CyclesOf[n]) = 4
    BY <1>20, GroupHooks, GroupCycles DEF BlockInstrs, BlockCycles
  <2>2. k \in {0, 1, 3}
    BY <1>20, <2>1 DEF DecidingCycles
  <2> QED BY <1>10, <1>20, <2>1, <2>2 DEF BlockCycleHooks
<1>21. \/ n \in FetchOnly \union (IndexedInstrs \ {"index_cb"}) \union EdInstrs \union LoadInstrs
            \union ArithmeticInstrs \union (ControlInstrs \ {"jr_cc", "djnz", "call_cc", "ret_cc"})
            \union InterruptSequences
       \/ n \in {"index_cb", "jr_cc", "djnz", "call_cc", "ret_cc"}
       \/ n \in {"ed_block_transfer", "ed_block_compare", "ed_block_in", "ed_block_out"}
  BY DEF Instrs, BlockInstrs
<1> QED BY ONLY <1>3, <1>4, <1>5, <1>6, <1>7, <1>8, <1>9, <1>12, <1>13, <1>14, <1>15, <1>16,
                <1>17, <1>18, <1>19, <1>20, <1>21

(* One cycle more: the limit stands unless the cycle decides. *)
LEMMA CycleKeeps ==
  ASSUME NEW d, NEW m, NEW e, NEW l, OneCycle(d, m, e, l), d.cycle < Len(CyclesOf[d.instr])
  PROVE  /\ e.halted = d.halted
         /\ <<d.instr, d.cycle>> \notin DecidingCycles => e.cycle_limit = d.cycle_limit
         /\ e.cycle_limit = d.cycle_limit \/ e.cycle_limit = d.cycle + 1
<1>1. /\ Typed(d) /\ Typed(e) /\ d.instr \in Instrs /\ d.cycle \in Nat /\ Shaped(d)
      /\ Begun(d).instr = d.instr /\ Begun(d).cycle = d.cycle
  BY Fields DEF OneCycle, Typed
<1>2. PICK h \in EnterHooks, x \in ExitHooks : HooksOf[d.instr][d.cycle + 1] = <<h, x>>
  BY <1>1, HooksType DEF HooksFor
<1>3. PICK kind : kind = CyclesOf[d.instr][d.cycle + 1]
  OBVIOUS
<1>4. Enters(d, kind, h, x)
  BY <1>2, <1>3 DEF Enters
<1>5. PICK byte : /\ Heard(Begun(d), m, byte) /\ Begun(d) = Enter(h, d)
                  /\ e = Put(Exit(x, Sampled(Enter(h, d), byte)), "cycle", d.cycle + 1)
  BY <1>4, CycleLeaves
<1>6. PICK f : f = Enter(h, d)
  OBVIOUS
<1>7. Steady(d, f) /\ Typed(f)
  BY <1>1, <1>6, EnterSteady, EnterTyped DEF Onto
<1>8. PICK s : s = Sampled(f, byte)
  OBVIOUS
<1>9. Steady(d, s) /\ Typed(s) /\ s.cycle = d.cycle
  <2>1. f.instr \in Instrs
    BY <1>1, <1>5, <1>6
  <2>2. ~Fetching(f)
    BY <2>1 DEF Fetching, NoInstr, Instrs, FetchOnly, IndexedInstrs, EdInstrs, BlockInstrs,
                LoadInstrs, ArithmeticInstrs, ControlInstrs, InterruptSequences
  <2>3. f.cycle = d.cycle /\ f.instr = d.instr
    BY <1>5, <1>6, <1>1
  <2>4. CyclesOf[f.instr] \in Seq(MachineCycles \ {"m1_fetch"}) /\
          f.cycle + 1 \in 1 .. Len(CyclesOf[f.instr])
    <3>1. Len(CyclesOf[d.instr]) \in Nat /\ CyclesOf[d.instr] \in Seq(MachineCycles \ {"m1_fetch"})
      BY <1>1, ShapeType
    <3> QED BY <1>1, <2>3, <3>1
  <2>5. Kind(f) # "m1_fetch"
    BY <2>2, <2>4 DEF Kind
  <2>6. byte \in Byte
    BY <1>5 DEF Heard
  <2>7. Shaped(f) /\ f.r \in Byte
    BY <1>7, Fields, InCore, FieldNames
  <2>8. PICK r \in Byte : r = 128 * (f.r \div 128) + ((f.r + 1) % 128)
    BY <2>7, Widths, 0 \in Word DEF Word, Alu!Word
  <2>9. Refreshed(f) = Put(f, "r", r)
    BY <2>8 DEF Refreshed, Put
  <2>10. s \in {f, Put(f, "r", r), Put(f, "bus_data", byte), Put(Put(f, "r", r), "bus_data", byte)}
    BY <1>8, <2>5, <2>9 DEF Sampled, Put
  <2>11. \A g \in {f, Put(f, "r", r), Put(f, "bus_data", byte),
           Put(Put(f, "r", r), "bus_data", byte)} :
           Onto(f, g)
    BY <1>7, <2>6, <2>7, OntoItself, OntoPut, FieldNames
  <2>12. Steady(d, Put(f, "r", r)) /\ Steady(d, Put(f, "bus_data", byte))
    BY <1>7, SteadyPut, SteadyFields
  <2>13. Steady(d, Put(Put(f, "r", r), "bus_data", byte))
    BY <2>12, SteadyPut, SteadyFields
  <2>14. \A g : Onto(f, g) => Typed(g) /\ g.cycle = d.cycle
    BY <2>3 DEF Onto, Cursor
  <2> QED BY <1>7, <2>10, <2>11, <2>12, <2>13, <2>14
<1>10. PICK g : g = Exit(x, s)
  OBVIOUS
<1>11. e = Put(g, "cycle", d.cycle + 1)
  BY <1>5, <1>6, <1>8, <1>10
<1>12. Awake(s, g) /\ (x \notin Deciding => Steady(s, g))
  BY <1>9, <1>10, ExitAwake, ExitSteady
<1>13. e.halted = g.halted /\ e.cycle_limit = g.cycle_limit
  BY <1>11, <1>12, GetPut, InCore DEF Awake
<1>14. <<d.instr, d.cycle>> \notin DecidingCycles => x \notin Deciding
  BY <1>1, <1>2, DecidingHooks DEF PlainPairs
<1>15. e.cycle_limit = d.cycle_limit \/ e.cycle_limit = d.cycle + 1
  <2>1. CASE x \in Deciding
    <3>1. x # "latch_operation" /\ x # "cb_bus"
      BY <2>1 DEF Deciding, BranchHooks, BlockHooks
    <3>2. Onto(s, g)
      BY <1>9, <1>10, <3>1, ExitTyped
    <3>3. s.cycle = d.cycle /\ s.cycle_limit = d.cycle_limit
      BY <1>9 DEF Steady
    <3> QED BY <1>13, <3>2, <3>3 DEF Onto
  <2>2. CASE x \notin Deciding
    BY <1>9, <1>12, <1>13, <2>2 DEF Steady
  <2> QED BY <2>1, <2>2
<1> QED BY <1>9, <1>12, <1>13, <1>14, <1>15 DEF Steady, Awake
-----------------------------------------------------------------------------
(***************************************************************************)
(* No effect but that of HALT puts the core to sleep.                      *)
(***************************************************************************)

(* Only HALT puts the core to sleep.                                        *)
LEMMA AwakeHalf ==
  ASSUME NEW c, NEW d, Awake(c, d), NEW w \in 0 .. 7, NEW pair \in {"hl", "ix", "iy"}, NEW b
  PROVE  Awake(c, WithHalf(d, w, pair, b))
<1>1. Steady(d, d)
  BY SteadyItself DEF Awake
<1>2. Steady(d, WithHalf(d, w, pair, b))
  BY <1>1, SteadyHalf
<1> QED BY <1>2 DEF Awake, Steady

LEMMA AwakeSlot ==
  ASSUME NEW c, Typed(c), NEW d, Awake(c, d), Onto(c, d), NEW w \in 0 .. 7, NEW b
  PROVE  Awake(c, WithSlot(d, w, b))
<1>1. index_pair(d) \in {"hl", "ix", "iy"}
  BY Names DEF Onto
<1> QED BY <1>1, AwakeHalf DEF WithSlot

LEMMA AwakePair ==
  ASSUME NEW c, NEW d, Awake(c, d), NEW pair \in {"bc", "de", "hl", "ix", "iy", "sp", "af"}, NEW w
  PROVE  Awake(c, WithPair(d, pair, w))
<1>1. CASE pair = "af"
  <2>1. WithPair(d, pair, w) = Put(Put(d, "a", High(w)), "f", FlagsOf(Low(w)))
    BY <1>1 DEF WithPair, Put
  <2>2. Awake(c, Put(d, "a", High(w)))
    BY StopsAwake, InCore
  <2> QED BY <2>1, <2>2, StopsAwake, InCore
<1>2. CASE pair # "af"
  <2>1. WithPair(d, pair, w) = Put(d, pair, w)
    BY <1>2 DEF WithPair, Put
  <2> QED BY <1>2, <2>1, StopsAwake, InCore
<1> QED BY <1>1, <1>2

LEMMA AwakeFields ==
  {"bus_addr", "bus_data", "pc", "sp", "tmp", "wz", "bc", "de", "hl", "ix", "iy", "a", "f",
   "pending", "opcode", "iff1", "iff2", "int_inhibit", "im", "cycle", "r", "i", "af_alt", "bc_alt",
   "de_alt", "hl_alt"}
    \subseteq CpuFields \ {"halted"}
BY InCore

LEMMA LoadAwake ==
  ASSUME NEW c, Typed(c), NEW n \in Loads
  PROVE  Awake(c, LoadEffect(n, c))
<1>1. Awake(c, c) /\ Onto(c, c) /\ Shaped(c)
  BY OntoItself, Fields DEF Awake
<1>0. \A x \in CpuFields \ {"halted"} : \A v : Awake(c, Put(c, x, v))
  BY <1>1, StopsAwake
<1>2. CASE n \in {"ld_reg_reg", "ld_reg_immediate", "ld_reg_from_hl"}
  <2>1. \E b : LoadEffect(n, c) = WithSlot(c, Y(c.opcode), b)
    BY <1>2 DEF LoadEffect
  <2> QED BY <1>1, <2>1, AwakeSlot, Names
<1>3. CASE n \in {"ld_a_bc", "ld_a_de", "ld_a_nn", "in_a_n"}
  <2>1. LoadEffect(n, c) = Put(Put(c, "a", c.bus_data), "wz", Plus(c.bus_addr, 1))
    BY <1>3, Fields DEF LoadEffect, Put, Shaped, CpuFields
  <2>2. Awake(c, Put(c, "a", c.bus_data))
    BY <1>0, AwakeFields
  <2> QED BY <2>1, <2>2, StopsAwake, AwakeFields
<1>4. CASE n \in {"ld_bc_a", "ld_de_a", "ld_nn_a", "out_n_a"}
  <2>1. LoadEffect(n, c) = Put(c, "wz", 256 * c.a + ((Low(c.bus_addr) + 1) % 256))
    BY <1>4 DEF LoadEffect, StoredA, Put
  <2> QED BY <1>0, <2>1, AwakeFields
<1>5. CASE n \in {"ld_rp_nn", "ld_sp_hl", "ld_nn_hl", "ed_ld_nn_rp"}
  <2>1. PICK x, w : /\ x \in {"bc", "de", "hl", "ix", "iy", "sp", "wz"}
                    /\ LoadEffect(n, c) = Put(c, x, w)
    <3>1. LoadEffect(n, c) \in {Put(c, pair_rp(c), c.tmp), Put(c, "sp", c[index_pair(c)]),
                               Put(c, "wz", Plus(c.tmp, 1))}
      BY <1>5 DEF LoadEffect, MemptrAfterTmp, Put
    <3>2. pair_rp(c) \in {"bc", "de", "hl", "ix", "iy", "sp"}
      BY Names
    <3>3. \A v : v \in {pair_rp(c), "sp", "wz"} => v \in {"bc", "de", "hl", "ix", "iy", "sp", "wz"}
      BY <3>2
    <3> QED BY <3>1, <3>3
  <2> QED BY <1>0, <2>1, AwakeFields
<1>6. CASE n \in {"ld_hl_nn", "ed_ld_rp_nn"}
  <2>1. PICK d : d = Put(c, "wz", Plus(c.tmp, 1))
    OBVIOUS
  <2>2. Awake(c, d) /\ MemptrAfterTmp(c) = d
    BY <1>0, <2>1, AwakeFields DEF MemptrAfterTmp, Put
  <2>3. PICK x \in {"bc", "de", "hl", "ix", "iy", "sp"} :
          LoadEffect(n, c) = Put(d, x, WithHigh(d[x], c.bus_data))
    BY <1>6, <2>2, Names DEF LoadEffect, Put
  <2> QED BY <2>2, <2>3, StopsAwake, AwakeFields
<1>7. CASE n = "pop"
  <2>1. PICK w : w = WithHigh(c.tmp, c.bus_data)
    OBVIOUS
  <2>2. LoadEffect(n, c) = WithPair(Put(c, "tmp", w), pair_rp2(c), w)
    BY <1>7, <2>1 DEF LoadEffect, Put
  <2>3. Awake(c, Put(c, "tmp", w))
    BY <1>0, AwakeFields
  <2> QED BY <2>2, <2>3, AwakePair, Names
<1>8. CASE n = "index_ld_reg_mem"
  <2>1. LoadEffect(n, c) = WithHalf(c, Y(c.opcode), "hl", c.bus_data)
    BY <1>8 DEF LoadEffect
  <2> QED BY <1>1, <2>1, AwakeHalf, Names
<1> QED BY <1>2, <1>3, <1>4, <1>5, <1>6, <1>7, <1>8 DEF Loads

LEMMA ExchangeAwake ==
  ASSUME NEW c, Typed(c), NEW n \in Exchanges
  PROVE  Awake(c, ExchangeEffect(n, c))
<1>1. Awake(c, c) /\ Shaped(c)
  BY Fields DEF Awake
<1>0. \A x \in CpuFields \ {"halted"} : \A v : Awake(c, Put(c, x, v))
  BY <1>1, StopsAwake
<1>2. CASE n = "ex_de_hl"
  <2>1. ExchangeEffect(n, c) = Put(Put(c, "de", c.hl), "hl", c.de)
    BY <1>1, <1>2 DEF ExchangeEffect, Put, Shaped, CpuFields
  <2>2. Awake(c, Put(c, "de", c.hl))
    BY <1>0, AwakeFields
  <2> QED BY <2>1, <2>2, StopsAwake, AwakeFields
<1>3. CASE n = "ex_af"
  <2>1. PICK d, v : /\ d = Put(Put(c, "a", c.af_alt.a), "f", c.af_alt.f)
                    /\ v = [a |-> c.a, f |-> c.f]
                    /\ ExchangeEffect(n, c) = Put(d, "af_alt", v)
    BY <1>1, <1>3 DEF ExchangeEffect, Put, Shaped, CpuFields
  <2>2. Awake(c, Put(c, "a", c.af_alt.a))
    BY <1>0, AwakeFields
  <2>3. Awake(c, d)
    BY <2>1, <2>2, StopsAwake, AwakeFields
  <2> QED BY <2>1, <2>3, StopsAwake, AwakeFields
<1>4. CASE n = "exx"
  <2>1. PICK d, g : /\ d = Put(Put(c, "bc", c.bc_alt), "bc_alt", c.bc)
                    /\ g = Put(Put(d, "de", c.de_alt), "de_alt", c.de)
                    /\ ExchangeEffect(n, c) = Put(Put(g, "hl", c.hl_alt), "hl_alt", c.hl)
    BY <1>1, <1>4 DEF ExchangeEffect, Put, Shaped, CpuFields
  <2>2. Awake(c, Put(c, "bc", c.bc_alt))
    BY <1>0, AwakeFields
  <2>3. Awake(c, d)
    BY <2>1, <2>2, StopsAwake, AwakeFields
  <2>4. Awake(c, Put(d, "de", c.de_alt))
    BY <2>3, StopsAwake, AwakeFields
  <2>5. Awake(c, g)
    BY <2>1, <2>4, StopsAwake, AwakeFields
  <2>6. Awake(c, Put(g, "hl", c.hl_alt))
    BY <2>5, StopsAwake, AwakeFields
  <2> QED BY <2>1, <2>6, StopsAwake, AwakeFields
<1>5. CASE n = "ex_sp_hl"
  <2>1. PICK x \in {"hl", "ix", "iy"} : x = index_pair(c)
    BY Names
  <2>2. Put(c, x, c.tmp).tmp = c.tmp
    BY <1>1 DEF Put, Shaped, CpuFields
  <2>3. ExchangeEffect(n, c) = Put(Put(c, x, c.tmp), "wz", c.tmp)
    BY <1>5, <2>1, <2>2 DEF ExchangeEffect, Put
  <2>4. Awake(c, Put(c, x, c.tmp))
    BY <1>0, AwakeFields
  <2> QED BY <2>3, <2>4, StopsAwake, AwakeFields
<1> QED BY <1>2, <1>3, <1>4, <1>5 DEF Exchanges

LEMMA ArithmeticAwake ==
  ASSUME NEW c, Typed(c), NEW n \in Arithmetics
  PROVE  Awake(c, ArithmeticEffect(n, c))
<1>1. Awake(c, c) /\ Onto(c, c) /\ Shaped(c) /\ Y(c.opcode) \in 0 .. 7
  BY OntoItself, Fields, Names DEF Awake
<1>0. /\ \A x \in CpuFields \ {"halted"} : \A v : Awake(c, Put(c, x, v))
      /\ \A flags : Awake(c, WriteFlags(c, flags))
  BY <1>1, StopsAwake
<1>2. ASSUME NEW out
      PROVE  Awake(c, WithOut(c, out)) /\ Awake(c, SlotOut(c, Y(c.opcode), out))
  <2>1. WithOut(c, out) = Put(WriteFlags(c, out.flags), "a", out.value)
    BY DEF WithOut, Put
  <2>2. Awake(c, WriteFlags(c, out.flags))
    BY <1>0
  <2>3. index_pair(WriteFlags(c, out.flags)) = index_pair(c)
    BY <1>1, FlagsWritten, GetPut, InCore DEF index_pair, WriteFlags, Shaped
  <2>4. Awake(c, SlotOut(c, Y(c.opcode), out))
    BY <1>1, <2>2, <2>3, AwakeHalf, Names DEF SlotOut, WithSlot
  <2> QED BY <2>1, <2>2, <2>4, StopsAwake, AwakeFields
<1>3. CASE n \in {"alu_reg", "alu_mem", "alu_n", "index_alu_mem"}
  <2>1. PICK b : ArithmeticEffect(n, c) = AluOperation(c, b)
    BY <1>3 DEF ArithmeticEffect
  <2> QED BY <1>2, <2>1 DEF AluOperation
<1>4. CASE n \in {"inc_reg", "dec_reg"}
  <2>1. PICK out : ArithmeticEffect(n, c) = SlotOut(c, Y(c.opcode), out)
    BY <1>4 DEF ArithmeticEffect
  <2> QED BY <1>2, <2>1
<1>5. CASE n \in {"inc_rp", "dec_rp"}
  <2>1. PICK x \in {"bc", "de", "hl", "ix", "iy", "sp"} : x = pair_rp(c)
    BY Names
  <2>2. PICK w : w = IF n = "inc_rp" THEN Plus(c[x], 1) ELSE Plus(c[x], -1)
    OBVIOUS
  <2>3. ArithmeticEffect(n, c) = Put(c, x, w)
    BY <1>5, <2>1, <2>2 DEF ArithmeticEffect, Put
  <2> QED BY <1>0, <2>3, AwakeFields
<1>6. CASE n \in {"add_hl_rp", "ed_adc_hl", "ed_sbc_hl"}
  <2>1. PICK x, out : x \in {"hl", "ix", "iy"} /\ ArithmeticEffect(n, c) = WideOut(c, x, out)
    BY <1>6, Names DEF ArithmeticEffect
  <2>2. PICK w : w = Plus(c[x], 1)
    OBVIOUS
  <2>3. WideOut(c, x, out) = Put(Put(WriteFlags(c, out.flags), "wz", w), x, out.value)
    BY <2>2 DEF WideOut, Put
  <2>4. Awake(c, WriteFlags(c, out.flags))
    BY <1>0
  <2>5. Awake(c, Put(WriteFlags(c, out.flags), "wz", w))
    BY <2>4, StopsAwake, AwakeFields
  <2> QED BY <2>1, <2>3, <2>5, StopsAwake, AwakeFields
<1>7. CASE n \in {"rotate_a", "daa", "ed_neg"}
  <2>1. PICK out : ArithmeticEffect(n, c) = WithOut(c, out)
    BY <1>7 DEF ArithmeticEffect
  <2> QED BY <1>2, <2>1
<1>8. CASE n = "cpl"
  <2>1. PICK out : out = Alu!execute_cpl(c.a, c.f)
    OBVIOUS
  <2>3. ArithmeticEffect(n, c) = Put(Put(c, "a", out.value), "f", out.flags)
    BY <1>8, <2>1 DEF ArithmeticEffect, Put
  <2>4. Awake(c, Put(c, "a", out.value))
    BY <1>0, AwakeFields
  <2> QED BY <2>3, <2>4, StopsAwake, AwakeFields
<1>9. CASE n \in {"scf", "ccf"}
  <2>1. PICK f : ArithmeticEffect(n, c) = WriteFlags(c, f)
    BY <1>9 DEF ArithmeticEffect
  <2> QED BY <1>0, <2>1
<1> QED BY <1>3, <1>4, <1>5, <1>6, <1>7, <1>8, <1>9 DEF Arithmetics

LEMMA OthersAwake ==
  ASSUME NEW c, Typed(c), NEW int
  PROVE  /\ \A n \in {"cb_reg", "cb_bit_mem"} : Awake(c, CbEffect(n, c))
         /\ \A n \in Controls \ {"halt"} : Awake(c, ControlEffect(n, c))
         /\ \A n \in Refreshes : Awake(c, RefreshEffect(n, c, int))
         /\ \A n \in {"ed_in_c", "ed_out_c"} : Awake(c, PortEffect(n, c))
<1>1. Awake(c, c) /\ Onto(c, c) /\ Shaped(c) /\ Y(c.opcode) \in 0 .. 7 /\ Z(c.opcode) \in 0 .. 7
      /\ index_pair(c) \in {"hl", "ix", "iy"}
  BY OntoItself, Fields, Names DEF Awake
<1>0. /\ \A x \in CpuFields \ {"halted"} : \A v : Awake(c, Put(c, x, v))
      /\ \A flags : Awake(c, WriteFlags(c, flags))
  BY <1>1, StopsAwake
<1>2. ASSUME NEW flags PROVE index_pair(WriteFlags(c, flags)) = index_pair(c)
  BY <1>1, InCore DEF index_pair, WriteFlags, Shaped
<1>3. ASSUME NEW n \in {"cb_reg", "cb_bit_mem"} PROVE Awake(c, CbEffect(n, c))
  <2>0. \A b, u : Awake(c, CbBit(c, b, u))
    BY <1>0 DEF CbBit
  <2>1. CASE n = "cb_bit_mem"
    BY <2>0, <2>1 DEF CbEffect
  <2>2. CASE n = "cb_reg"
    <3>1. PICK b : b = Slot(c, Z(c.opcode))
      OBVIOUS
    <3>2. Awake(c, CbFlags(c, b)) /\ index_pair(CbFlags(c, b)) = index_pair(c)
      BY <1>0, <1>1, <1>2 DEF CbFlags
    <3>3. \A v : Awake(c, WithSlot(CbFlags(c, b), Z(c.opcode), v))
      BY <1>1, <3>2, AwakeHalf DEF WithSlot
    <3> QED BY <2>0, <2>2, <3>1, <3>3 DEF CbEffect
  <2> QED BY <2>1, <2>2
<1>4. ASSUME NEW n \in Controls \ {"halt"} PROVE Awake(c, ControlEffect(n, c))
  <2>0. \A w : Awake(c, GoTo(c, w))
    <3> SUFFICES ASSUME NEW w PROVE Awake(c, GoTo(c, w))
      OBVIOUS
    <3>1. GoTo(c, w) = Put(Put(c, "pc", w), "wz", w)
      BY DEF GoTo, Put
    <3>2. Awake(c, Put(c, "pc", w))
      BY <1>0, AwakeFields
    <3> QED BY <3>1, <3>2, StopsAwake, AwakeFields
  <2>1. CASE n = "ei"
    <3>1. ControlEffect(n, c) = Put(Put(Put(c, "iff1", TRUE), "iff2", TRUE), "int_inhibit", TRUE)
      BY <2>1 DEF ControlEffect, execute_ei, Put
    <3>2. Awake(c, Put(c, "iff1", TRUE))
      BY <1>0, AwakeFields
    <3>3. Awake(c, Put(Put(c, "iff1", TRUE), "iff2", TRUE))
      BY <3>2, StopsAwake, AwakeFields
    <3> QED BY <3>1, <3>3, StopsAwake, AwakeFields
  <2>2. CASE n = "di"
    <3>1. ControlEffect(n, c) = Put(Put(c, "iff1", FALSE), "iff2", FALSE)
      BY <2>2 DEF ControlEffect, Put
    <3>2. Awake(c, Put(c, "iff1", FALSE))
      BY <1>0, AwakeFields
    <3> QED BY <3>1, <3>2, StopsAwake, AwakeFields
  <2>3. CASE n = "ed_im"
    <3>1. PICK m : m = <<0, 0, 1, 2, 0, 0, 1, 2>>[Y(c.opcode) + 1]
      OBVIOUS
    <3>2. ControlEffect(n, c) = Put(c, "im", m)
      BY <2>3, <3>1 DEF ControlEffect, execute_im, Put
    <3> QED BY <1>0, <3>2, AwakeFields
  <2>4. CASE n = "jump"
    BY <2>0, <2>4 DEF ControlEffect
  <2>5. CASE n = "jp_cc"
    <3>1. ControlEffect(n, c) \in {GoTo(c, WithHigh(c.wz, c.bus_data)),
                                  Put(c, "wz", WithHigh(c.wz, c.bus_data))}
      BY <2>5 DEF ControlEffect, Put
    <3> QED BY <1>0, <2>0, <3>1, AwakeFields
  <2>6. CASE n = "jp_hl"
    <3>1. ControlEffect(n, c) = Put(c, "pc", c[index_pair(c)])
      BY <2>6 DEF ControlEffect, Put
    <3> QED BY <1>0, <3>1, AwakeFields
  <2> QED BY <2>1, <2>2, <2>3, <2>4, <2>5, <2>6 DEF Controls
<1>5. ASSUME NEW n \in Refreshes PROVE Awake(c, RefreshEffect(n, c, int))
  <2>1. ASSUME NEW b PROVE Awake(c, load_a_from_control_register(c, b, int))
    <3>1. PICK f : load_a_from_control_register(c, b, int) = Put(WriteFlags(c, f), "a", b)
      BY DEF load_a_from_control_register, Put
    <3>2. Awake(c, WriteFlags(c, f))
      BY <1>0
    <3> QED BY <3>1, <3>2, StopsAwake, AwakeFields
  <2>2. Awake(c, Put(c, "i", c.a)) /\ Awake(c, Put(c, "r", c.a))
    BY <1>0, AwakeFields
  <2> QED BY <2>1, <2>2 DEF RefreshEffect, Refreshes, Put
<1>6. ASSUME NEW n \in {"ed_in_c", "ed_out_c"} PROVE Awake(c, PortEffect(n, c))
  <2>1. CASE n = "ed_in_c"
    <3>1. PICK f : f = Alu!digit_rotate_flags(c.f, c.bus_data)
      OBVIOUS
    <3>2. PICK taken : taken = WithSlot(WriteFlags(c, f), Y(c.opcode), c.bus_data)
      OBVIOUS
    <3>3. Awake(c, WriteFlags(c, f)) /\ index_pair(WriteFlags(c, f)) = index_pair(c)
      BY <1>0, <1>2
    <3>4. Awake(c, taken)
      BY <1>1, <3>2, <3>3, AwakeHalf DEF WithSlot
    <3>5. PortEffect(n, c) = Put(taken, "wz", Plus(taken.bc, 1))
      BY <2>1, <3>1, <3>2 DEF PortEffect, Put
    <3> QED BY <3>4, <3>5, StopsAwake, AwakeFields
  <2>2. CASE n = "ed_out_c"
    <3>1. PortEffect(n, c) = Put(c, "wz", Plus(c.bc, 1))
      BY <2>2 DEF PortEffect, Put
    <3> QED BY <1>0, <3>1, AwakeFields
  <2> QED BY <2>1, <2>2
<1> QED BY <1>3, <1>4, <1>5, <1>6

LEMMA ExecuteAwake ==
  ASSUME NEW c, Typed(c), NEW n, n \notin {"halt", "prefix"}, NEW int
  PROVE  Execute(n, c, int).halted = c.halted
<1>1. Awake(c, Execute(n, c, int))
  <2>1. CASE n \in Loads
    BY <2>1, LoadAwake, Executes
  <2>2. CASE n \in Exchanges
    BY <2>2, ExchangeAwake, Executes
  <2>3. CASE n \in Arithmetics
    BY <2>3, ArithmeticAwake, Executes
  <2>4. CASE n \in {"cb_reg", "cb_bit_mem"}
    BY <2>4, OthersAwake, Executes
  <2>5. CASE n \in Controls
    BY <2>5, OthersAwake, Executes
  <2>6. CASE n \in Refreshes
    BY <2>6, OthersAwake, Executes
  <2>7. CASE n \in {"ed_in_c", "ed_out_c"}
    BY <2>7, OthersAwake, Executes
  <2>8. CASE n \notin Loads \union Exchanges \union Arithmetics \union {"cb_reg", "cb_bit_mem"}
                      \union Controls \union Refreshes \union {"ed_in_c", "ed_out_c"}
    <3>1. Execute(n, c, int) = c
      BY <2>8 DEF Execute
    <3> QED BY <3>1, Fields DEF Awake
  <2> QED BY <2>1, <2>2, <2>3, <2>4, <2>5, <2>6, <2>7, <2>8
<1> QED BY <1>1 DEF Awake
-----------------------------------------------------------------------------
(***************************************************************************)
(* From the steps of the specification to runs of cycles: an instruction   *)
(* in progress has run its first cycles (Partway) or all of them           *)
(* (Complete).                                                             *)
(***************************************************************************)

(* A step of the core is such a cycle. *)
LEMMA CycleOfAStep ==
  ASSUME Typed(cpu), Placed(cpu), ByteMemory(memory), ~Fetching(cpu),
         NEW c, Typed(c), c.instr = cpu.instr, c.cycle = cpu.cycle, cpu = Begun(c),
         NEW byte \in BusBytes, Stores
  PROVE  OneCycle(c, memory, Ended(cpu, byte), memory')
<1>1. byte \in Byte
  BY BytesOnTheBus
<1>2. PICK e : e = Ended(cpu, byte)
  OBVIOUS
<1>3. Typed(e) /\ e.instr = cpu.instr /\ e.instr \in Instrs /\ e.cycle = cpu.cycle + 1
  BY <1>1, <1>2, EndedCycle
<1>4. cpu.bus_addr \in Word /\ Address(cpu) = cpu.bus_addr
  BY CoreTypes DEF Address
<1>5. Manual!Peek(memory, cpu.bus_addr) = ByteAt(cpu.bus_addr)
  <2>1. cpu.bus_addr % 65536 = cpu.bus_addr
    BY <1>4 DEF Word, Alu!Word
  <2> QED BY <2>1 DEF Manual!Peek, ByteAt
<1>6. Heard(cpu, memory, byte)
  <2>1. PICK kind : kind = Kind(cpu)
    OBVIOUS
  <2>2. kind = "mem_read" => byte = ByteAt(cpu.bus_addr)
    BY <1>4, <2>1 DEF BusBytes
  <2>3. kind = "io_read" => byte \in PortBytes
    BY <2>1 DEF BusBytes
  <2>4. kind = "int_ack" => byte \in Vectors
    BY <2>1 DEF BusBytes
  <2> QED BY <1>1, <1>5, <2>1, <2>2, <2>3, <2>4 DEF Heard
<1>7. memory' = Kept(cpu, memory)
  <2>1. CASE Kind(cpu) = "mem_write"
    <3>1. memory' = [a \in DOMAIN memory \union {cpu.bus_addr} |->
                       IF a = cpu.bus_addr THEN cpu.bus_data ELSE memory[a]]
      BY <1>4, <2>1 DEF Stores
    <3> QED BY <2>1, <3>1 DEF Kept, Manual!Poke
  <2>2. CASE Kind(cpu) # "mem_write"
    BY <2>2 DEF Stores, Kept
  <2> QED BY <2>1, <2>2
<1> QED BY <1>2, <1>3, <1>6, <1>7 DEF OneCycle

(* Cycle by cycle: the core d and the memory l that instruction e has come  *)
(* to after k cycles.                                                      *)
Ran(k, e, m, d, l) ==
  \/ k = 0 /\ d = e /\ l = m
  \/ k = 1 /\ After1(e, m, d, l)
  \/ k = 2 /\ After2(e, m, d, l)
  \/ k = 3 /\ After3(e, m, d, l)
  \/ k = 4 /\ After4(e, m, d, l)
  \/ k = 5 /\ After5(e, m, d, l)
  \/ k = 6 /\ After6(e, m, d, l)

(* No instruction has more than six. *)
LEMMA SixCycles == \A n \in Instrs : Len(CyclesOf[n]) <= 6
<1>1. ASSUME NEW n \in Instrs PROVE Len(CyclesOf[n]) <= 6
  <2>1. PICK k \in 0 .. 6 : k = Len(CyclesOf[n])
    BY ShapeType
  <2>2. k <= 6
    OBVIOUS
  <2> QED BY <2>1, <2>2
<1> QED BY <1>1

LEMMA RanOn ==
  ASSUME NEW e, NEW m, NEW k \in Nat, NEW c, NEW n, Ran(k, e, m, c, n), GoesOn(c), k < 6,
         NEW d, NEW l, OneCycle(c, n, d, l)
  PROVE  Ran(k + 1, e, m, d, l)
<1>1. CASE k = 0
  BY <1>1 DEF Ran, After1
<1>2. CASE k = 1
  BY <1>2 DEF Ran, After2
<1>3. CASE k = 2
  BY <1>3 DEF Ran, After3
<1>4. CASE k = 3
  BY <1>4 DEF Ran, After4
<1>5. CASE k = 4
  BY <1>5 DEF Ran, After5
<1>6. CASE k = 5
  BY <1>6 DEF Ran, After6
<1> QED BY <1>1, <1>2, <1>3, <1>4, <1>5, <1>6

(* The instruction e has come to its end. *)
Complete(e, m, d, l) ==
  /\ e.cycle_limit = Len(CyclesOf[e.instr]) /\ ~GoesOn(d)
  /\ \E k \in Nat : /\ Ran(k, e, m, d, l)
                    /\ k = Len(CyclesOf[e.instr]) \/
                         \E j \in Nat : k = j + 1 /\ <<e.instr, j>> \in DecidingCycles

(* The instruction e is in its cycle k, with core c and memory l. *)
Partway(e, m, c, l) ==
  /\ Typed(e) /\ e.instr \in Instrs /\ e.cycle_limit = Len(CyclesOf[e.instr])
  /\ Typed(c) /\ c.instr = e.instr /\ GoesOn(c) /\ Ran(c.cycle, e, m, c, l)
  /\ c.cycle_limit = Len(CyclesOf[e.instr]) /\ c.halted = e.halted

LEMMA NextIsPartway ==
  ASSUME NEW e, NEW m, NEW c, NEW n, Partway(e, m, c, n), NEW d, NEW l, OneCycle(c, n, d, l)
  PROVE  /\ d.halted = e.halted
         /\ GoesOn(d) => Partway(e, m, d, l)
         /\ ~GoesOn(d) => Complete(e, m, d, l)
<1>1. /\ c.instr \in Instrs /\ Typed(d) /\ d.instr = e.instr /\ d.cycle = c.cycle + 1
      /\ c.instr = e.instr /\ c.halted = e.halted /\ GoesOn(c)
  BY DEF Partway, OneCycle
<1>2. PICK last \in Nat : last = Len(CyclesOf[e.instr])
  BY <1>1, ShapeType
<1>3. c.cycle \in Nat /\ d.cycle_limit \in Nat /\ c.cycle < last /\ c.cycle_limit = last
      /\ d.cycle \in Nat /\ e.cycle_limit = last
  BY <1>1, <1>2 DEF Partway, Typed, GoesOn
<1>4. /\ d.halted = e.halted
      /\ <<e.instr, c.cycle>> \notin DecidingCycles => d.cycle_limit = last
  BY <1>1, <1>2, <1>3, CycleKeeps
<1>5. Ran(d.cycle, e, m, d, l)
  <2>1. last <= 6
    BY <1>1, <1>2, SixCycles
  <2>2. Ran(c.cycle + 1, e, m, d, l)
    BY <1>1, <1>3, <2>1, RanOn DEF Partway
  <2> QED BY <1>1, <2>2
<1>6. d.cycle_limit = last \/ d.cycle_limit = c.cycle + 1
  BY <1>1, <1>2, <1>3, CycleKeeps
<1>7. ASSUME GoesOn(d) PROVE Partway(e, m, d, l)
  <2>1. d.cycle_limit = last
    BY <1>1, <1>3, <1>6, <1>7 DEF GoesOn
  <2> QED BY <1>1, <1>2, <1>3, <1>4, <1>5, <1>7, <2>1 DEF Partway
<1>8. ASSUME ~GoesOn(d) PROVE Complete(e, m, d, l)
  <2>1. CASE <<e.instr, c.cycle>> \in DecidingCycles
    BY <1>1, <1>2, <1>3, <1>5, <1>8, <2>1 DEF Complete
  <2>2. CASE <<e.instr, c.cycle>> \notin DecidingCycles
    <3>1. d.cycle = last
      BY <1>1, <1>3, <1>4, <1>8, <2>2 DEF GoesOn
    <3> QED BY <1>1, <1>2, <1>3, <1>5, <1>8, <3>1 DEF Complete
  <2> QED BY <2>1, <2>2
<1> QED BY <1>4, <1>7, <1>8
=============================================================================
