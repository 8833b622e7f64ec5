-------------------------- MODULE Z80ManualProofs ---------------------------
(***************************************************************************)
(* Module Z80Registers keeps what module Z80Programmer promises, part one: *)
(* the unprefixed instructions and those behind CB. Every instruction is   *)
(* followed, cycle by cycle, through its hooks to what the manual says it  *)
(* leaves.                                                                 *)
(***************************************************************************)
EXTENDS Z80ProgramsProofs

-----------------------------------------------------------------------------
(***************************************************************************)
(* What the manual reads behind an opcode and on the stack, and which row  *)
(* of its table an opcode is in.                                           *)
(***************************************************************************)

(* The bytes after the opcode, and those on the stack. *)
LEMMA BytesAt ==
  ASSUME NEW c, Typed(c), NEW m, ByteMemory(m)
  PROVE  /\ Plus(Plus(c.pc, 1), 1) = Plus(c.pc, 2) /\ Plus(c.pc, 0) = c.pc
         /\ Plus(Plus(c.sp, 1), 1) = Plus(c.sp, 2) /\ Plus(Plus(c.sp, -1), -1) = Plus(c.sp, -2)
         /\ Manual!Peek(m, Plus(c.pc, 1)) = Manual!Peek(m, c.pc + 1)
         /\ Manual!Peek(m, Plus(c.sp, 1)) = Manual!Peek(m, c.sp + 1)
         /\ Manual!Peek(m, c.pc) \in Byte /\ Manual!Peek(m, c.pc + 1) \in Byte
         /\ Manual!Peek(m, c.sp) \in Byte /\ Manual!Peek(m, c.sp + 1) \in Byte
         /\ Manual!PeekWord(m, c.pc) \in Word /\ Manual!PeekWord(m, c.sp) \in Word
         /\ WithHigh(WithLow(c.tmp, Manual!Peek(m, c.pc)), Manual!Peek(m, c.pc + 1))
              = Manual!PeekWord(m, c.pc)
         /\ WithHigh(WithLow(c.wz, Manual!Peek(m, c.pc)), Manual!Peek(m, c.pc + 1))
              = Manual!PeekWord(m, c.pc)
         /\ WithHigh(WithLow(c.tmp, Manual!Peek(m, c.sp)), Manual!Peek(m, c.sp + 1))
              = Manual!PeekWord(m, c.sp)
         /\ WithHigh(WithLow(c.wz, Manual!Peek(m, c.sp)), Manual!Peek(m, c.sp + 1))
              = Manual!PeekWord(m, c.sp)
<1>1. c.pc \in Word /\ c.sp \in Word /\ c.tmp \in Word /\ c.wz \in Word
  BY CoreTypes
<1> QED BY <1>1, Places, PeeksAreBytes, WordsRead

(* The arms of the manual's table, one by one. *)
LEMMA QuarterOf ==
  ASSUME NEW o \in Byte, NEW s, NEW m, NEW xy, NEW place, NEW at, NEW port, NEW q
  PROVE  /\ X(o) = 0 => Manual!Main(s, m, o, xy, place, at, port, q)
                          = Manual!Quarter0(s, m, Y(o), Z(o), xy, place, at, q)
         /\ X(o) = 3 => Manual!Main(s, m, o, xy, place, at, port, q)
                          = Manual!Quarter3(s, m, Y(o), Z(o), xy, at, port)
         /\ X(o) = 1 /\ o # 118 =>
              Manual!Main(s, m, o, xy, place, at, port, q)
                = LET h == IF Y(o) = 6 \/ Z(o) = 6 THEN "hl" ELSE xy
                  IN Manual!Stores(s, m, Y(o), h, place, Manual!Operand(s, m, Z(o), h, place))
         /\ o = 118 => Manual!Main(s, m, o, xy, place, at, port, q) = Manual!Both(s, m)
         /\ X(o) = 2 =>
              Manual!Main(s, m, o, xy, place, at, port, q)
                = Manual!Both(Manual!Accumulates(s,
                    Manual!alu_operation(Y(o), s.a, s.f, Manual!Operand(s, m, Z(o), xy, place))), m)
<1>1. o \div 64 = X(o) /\ (o \div 8) % 8 = Y(o) /\ o % 8 = Z(o) /\ X(o) \in 0 .. 3
  BY FieldsType DEF X, Y, Z
<1>2. o = 118 => X(o) = 1
  BY DEF X
<1> QED BY <1>1, <1>2 DEF Manual!Main

LEMMA MeetsBoth ==
  ASSUME NEW r, NEW l, NEW t, NEW regs, NEW mem,
         t = Manual!Both(regs, mem), Seen(r) = regs, l = mem
  PROVE  Meets(r, l, t)
BY DEF Meets, Manual!Both

(* A pair that an instruction names, and its halves. *)
LEMMA PairsAgree ==
  ASSUME NEW c, c.opcode \in Byte, NEW d, OperandsOf(c, d)
  PROVE  /\ d.sp = c.sp => d[pair_rp(d)] = c[pair_rp(c)]
         /\ d.f = c.f => PairOf(d, pair_rp2(d)) = PairOf(c, pair_rp2(c))
<1>1. pair_rp(d) = pair_rp(c) /\ pair_rp2(d) = pair_rp2(c)
  BY OperandsAgree
<1>2. pair_rp(c) \in {"bc", "de", "hl", "ix", "iy", "sp"}
  BY PairNamed
<1>3. ASSUME d.sp = c.sp PROVE d[pair_rp(d)] = c[pair_rp(c)]
  BY <1>1, <1>2, <1>3 DEF OperandsOf
<1>4. pair_rp2(c) = "af" \/ pair_rp2(c) \in {"bc", "de", "hl", "ix", "iy"}
  BY DEF pair_rp2, pair_rp, PairField, index_pair, Byte
<1>5. ASSUME d.f = c.f PROVE PairOf(d, pair_rp2(d)) = PairOf(c, pair_rp2(c))
  BY <1>1, <1>4, <1>5 DEF OperandsOf, PairOf
<1> QED BY <1>3, <1>5
-----------------------------------------------------------------------------
(***************************************************************************)
(* The effects of the core in the manual's words.                          *)
(***************************************************************************)

(* The effects, seen. *)
LEMMA FlagsKeepType ==
  ASSUME NEW c, Typed(c), NEW flags \in SUBSET Alu!Flags
  PROVE  Typed(WriteFlags(c, flags))
BY OntoItself, OntoCommon DEF Onto

LEMMA SlotMeans ==
  ASSUME NEW c, Typed(c), NEW which \in 0 .. 7, which # 6, NEW b \in Byte
  PROVE  Seen(WithSlot(c, which, b)) = Manual!WithReg(Seen(c), which, index_pair(c), b)
<1>1. index_pair(c) \in {"hl", "ix", "iy"}
  BY DEF index_pair
<1>2. WithSlot(c, which, b) = WithHalf(c, which, index_pair(c), b)
  BY DEF WithSlot
<1> QED BY <1>1, <1>2, WriteHalf

LEMMA SlotOutMeans ==
  ASSUME NEW c, Typed(c), NEW which \in 0 .. 7, which # 6,
         NEW out, out.flags \in SUBSET Alu!Flags, out.value \in Byte
  PROVE  Seen(SlotOut(c, which, out))
           = Manual!WithReg(Manual!Flagged(Seen(c), out.flags), which, index_pair(c), out.value)
<1>1. PICK d : d = WriteFlags(c, out.flags)
  OBVIOUS
<1>2. Typed(d) /\ Shaped(c)
  BY <1>1, FlagsKeepType, Fields
<1>3. Seen(d) = Manual!Flagged(Seen(c), out.flags) /\ index_pair(d) = index_pair(c)
  BY <1>1, <1>2, SeenFlags, OperandsAgree
<1>4. SlotOut(c, which, out) = WithSlot(d, which, out.value)
  BY <1>1 DEF SlotOut
<1> QED BY <1>2, <1>3, <1>4, SlotMeans

LEMMA SlotIsReg ==
  ASSUME NEW c, Typed(c), NEW which \in 0 .. 7, which # 6
  PROVE  /\ Manual!Reg(Seen(c), which, index_pair(c)) = Slot(c, which)
         /\ Slot(c, which) \in Byte
<1>1. index_pair(c) \in {"hl", "ix", "iy"}
  BY DEF index_pair
<1> QED BY <1>1, RegIsHalf, HalfTyped DEF Slot

LEMMA PairMeans ==
  ASSUME NEW c, Typed(c), NEW pair \in {"bc", "de", "hl", "ix", "iy", "sp"}, NEW v
  PROVE  /\ Shaped(Put(c, pair, v))
         /\ Seen(Put(c, pair, v)) = [Seen(c) EXCEPT ![pair] = v]
<1>1. Shaped(c) /\ pair \in CpuFields /\ pair \in VisibleFields
  BY Fields, SeenFields, InCore
<1> QED BY <1>1, SeenPut

LEMMA GoToMeans ==
  ASSUME NEW c, Typed(c), NEW target
  PROVE  Seen(GoTo(c, target)) = [Seen(c) EXCEPT !.pc = target]
<1>1. Shaped(c) /\ "pc" \in CpuFields /\ "wz" \in CpuFields
  BY Fields, InCore
<1>2. PICK d : d = Put(c, "pc", target)
  OBVIOUS
<1>3. Shaped(d) /\ Seen(d) = [Seen(c) EXCEPT !["pc"] = target]
  BY <1>1, <1>2, SeenPut, SeenFields
<1>4. Seen(Put(d, "wz", target)) = Seen(d)
  BY <1>1, <1>3, SeenPut, SeenFields
<1>5. GoTo(c, target) = Put(d, "wz", target)
  BY <1>2 DEF GoTo, Put
<1> QED BY <1>3, <1>4, <1>5

LEMMA WideMeans ==
  ASSUME NEW c, Typed(c), NEW pair \in {"hl", "ix", "iy"}, NEW out
  PROVE  Seen(WideOut(c, pair, out))
           = Manual!Flagged([Seen(c) EXCEPT ![pair] = out.value], out.flags)
<1>1. Shaped(c) /\ pair \in CpuFields /\ pair \in VisibleFields /\ "wz" \in CpuFields
      /\ pair # "wz" /\ pair # "f"
  BY Fields, SeenFields, InCore
<1>2. PICK g : g = WriteFlags(c, out.flags)
  OBVIOUS
<1>3. PICK d : d = Put(g, "wz", Plus(c[pair], 1))
  OBVIOUS
<1>4. WideOut(c, pair, out) = Put(d, pair, out.value)
  BY <1>2, <1>3 DEF WideOut, Put
<1>5. Shaped(g) /\ Seen(g) = [Seen(c) EXCEPT !.f = out.flags]
  BY <1>1, <1>2, SeenFlags DEF Manual!Flagged
<1>6. Shaped(d) /\ Seen(d) = Seen(g)
  BY <1>1, <1>3, <1>5, SeenPut, SeenFields
<1>7. Seen(Put(d, pair, out.value)) = [Seen(d) EXCEPT ![pair] = out.value]
  BY <1>1, <1>6, SeenPut
<1>8. [[Seen(c) EXCEPT !.f = out.flags] EXCEPT ![pair] = out.value]
        = [[Seen(c) EXCEPT ![pair] = out.value] EXCEPT !.f = out.flags]
  BY <1>1, SeenFields DEF Seen
<1> QED BY <1>4, <1>5, <1>6, <1>7, <1>8 DEF Manual!Flagged

(* POP. *)
LEMMA FlagsFromByte ==
  ASSUME NEW word
  PROVE  FlagsOf(Low(word))
           = {flag \in Manual!Flags : Manual!Has(Manual!Lo(word), Manual!BitsOfF[flag])}
<1>1. Manual!Flags = Alu!Flags /\ Manual!Lo(word) = Low(word)
  BY SameWords DEF Manual!Flags, Alu!Flags
<1>2. \A flag \in Alu!Flags : FlagBit[flag] = Manual!BitsOfF[flag]
  BY DEF FlagBit, Manual!BitsOfF, Alu!Flags
<1>3. \A x, y : Manual!Has(x, y) = Alu!Has(x, y)
  BY DEF Manual!Has, Alu!Has
<1> QED BY <1>1, <1>2, <1>3 DEF FlagsOf

LEMMA PopMeans ==
  ASSUME NEW c, Typed(c), NEW word,
         NEW pair \in {"bc", "de", "hl", "ix", "iy", "af"}
  PROVE  Seen(WithPair(Put(c, "tmp", word), pair, word))
           = IF pair = "af" THEN Manual!WithAf(Seen(c), word) ELSE [Seen(c) EXCEPT ![pair] = word]
<1>1. PICK d : d = Put(c, "tmp", word)
  OBVIOUS
<1>2. Shaped(d) /\ Seen(d) = Seen(c)
  BY <1>1, Fields, InCore, SeenPut, SeenFields
<1>3. CASE pair = "af"
  <2>1. PICK g : g = Put(d, "a", High(word))
    OBVIOUS
  <2>2. Shaped(g) /\ Seen(g) = [Seen(d) EXCEPT !["a"] = High(word)]
    BY <1>2, <2>1, InCore, SeenPut, SeenFields
  <2>3. Seen(Put(g, "f", FlagsOf(Low(word)))) = [Seen(g) EXCEPT !["f"] = FlagsOf(Low(word))]
    BY <2>2, InCore, SeenPut, SeenFields
  <2>4. WithPair(d, pair, word) = Put(g, "f", FlagsOf(Low(word)))
    BY <1>3, <2>1 DEF WithPair, Put
  <2>5. Manual!WithAf(Seen(c), word)
          = [Seen(c) EXCEPT !.a = High(word), !.f = FlagsOf(Low(word))]
    BY FlagsFromByte, SameWords DEF Manual!WithAf
  <2> QED BY <1>1, <1>2, <1>3, <2>2, <2>3, <2>4, <2>5
<1>4. CASE pair # "af"
  <2>1. WithPair(d, pair, word) = Put(d, pair, word)
    BY <1>4 DEF WithPair, Put
  <2>2. pair \in CpuFields /\ pair \in VisibleFields
    BY <1>4, SeenFields, InCore
  <2> QED BY <1>1, <1>2, <1>4, <2>1, <2>2, SeenPut
<1> QED BY <1>3, <1>4
-----------------------------------------------------------------------------
(***************************************************************************)
(* Which opcodes decode to which instruction of the unprefixed table.      *)
(***************************************************************************)

(* Where in the opcode map each instruction of the unprefixed table is. *)
LEMMA PlacedX0 ==
  ASSUME NEW y \in 0 .. 7, NEW z \in 0 .. 7, NEW n, n = DecodeX0(y, z)
  PROVE  /\ n = "nop" => z = 0 /\ y = 0
         /\ n = "ex_af" => z = 0 /\ y = 1
         /\ n = "djnz" => z = 0 /\ y = 2
         /\ n = "jr" => z = 0 /\ y = 3
         /\ n = "jr_cc" => z = 0 /\ y \in 4 .. 7
         /\ n = "ld_rp_nn" => z = 1 /\ y % 2 = 0
         /\ n = "add_hl_rp" => z = 1 /\ y % 2 = 1
         /\ n = "ld_bc_a" => z = 2 /\ y = 0
         /\ n = "ld_a_bc" => z = 2 /\ y = 1
         /\ n = "ld_de_a" => z = 2 /\ y = 2
         /\ n = "ld_a_de" => z = 2 /\ y = 3
         /\ n = "ld_nn_hl" => z = 2 /\ y = 4
         /\ n = "ld_hl_nn" => z = 2 /\ y = 5
         /\ n = "ld_nn_a" => z = 2 /\ y = 6
         /\ n = "ld_a_nn" => z = 2 /\ y = 7
         /\ n = "inc_rp" => z = 3 /\ y % 2 = 0
         /\ n = "dec_rp" => z = 3 /\ y % 2 = 1
         /\ n = "inc_reg" => z = 4 /\ y # 6
         /\ n = "inc_mem" => z = 4 /\ y = 6
         /\ n = "dec_reg" => z = 5 /\ y # 6
         /\ n = "dec_mem" => z = 5 /\ y = 6
         /\ n = "ld_reg_immediate" => z = 6 /\ y # 6
         /\ n = "ld_hl_n" => z = 6 /\ y = 6
         /\ n = "rotate_a" => z = 7 /\ y \in 0 .. 3
         /\ n = "daa" => z = 7 /\ y = 4
         /\ n = "cpl" => z = 7 /\ y = 5
         /\ n = "scf" => z = 7 /\ y = 6
         /\ n = "ccf" => z = 7 /\ y = 7
         /\ n \notin {"halt", "ld_reg_from_hl", "ld_hl_from_reg", "ld_reg_reg", "alu_mem",
              "alu_reg",
                      "ret_cc", "pop", "ret", "exx", "jp_hl", "ld_sp_hl", "jp_cc", "jump",
                        "out_n_a",
                      "in_a_n", "ex_sp_hl", "ex_de_hl", "di", "ei", "call_cc", "push", "call",
                      "alu_n", "rst", "prefix"}
<1>1. z \in {0, 1, 2, 3, 4, 5, 6, 7} /\ y \in {0, 1, 2, 3, 4, 5, 6, 7} /\ y % 2 \in {0, 1}
  OBVIOUS
<1>2. CASE z = 0
  BY <1>1, <1>2 DEF DecodeX0
<1>3. CASE z = 1
  BY <1>1, <1>3 DEF DecodeX0
<1>4. CASE z = 2
  <2>1. n = <<"ld_bc_a", "ld_a_bc", "ld_de_a", "ld_a_de", "ld_nn_hl", "ld_hl_nn", "ld_nn_a",
          "ld_a_nn">>[y + 1]
    BY <1>4 DEF DecodeX0
  <2>2. /\ y = 0 => n = "ld_bc_a"
        /\ y = 1 => n = "ld_a_bc"
        /\ y = 2 => n = "ld_de_a"
        /\ y = 3 => n = "ld_a_de"
        /\ y = 4 => n = "ld_nn_hl"
        /\ y = 5 => n = "ld_hl_nn"
        /\ y = 6 => n = "ld_nn_a"
        /\ y = 7 => n = "ld_a_nn"
    BY <2>1
  <2> QED BY <1>1, <1>4, <2>2
<1>5. CASE z = 3
  BY <1>1, <1>5 DEF DecodeX0
<1>6. CASE z = 4
  BY <1>1, <1>6 DEF DecodeX0
<1>7. CASE z = 5
  BY <1>1, <1>7 DEF DecodeX0
<1>8. CASE z = 6
  BY <1>1, <1>8 DEF DecodeX0
<1>9. CASE z = 7
  BY <1>1, <1>9 DEF DecodeX0
<1> QED BY <1>1, <1>2, <1>3, <1>4, <1>5, <1>6, <1>7, <1>8, <1>9

LEMMA PlacedX3 ==
  ASSUME NEW y \in 0 .. 7, NEW z \in 0 .. 7, NEW n, n = DecodeX3(y, z)
  PROVE  /\ n = "ret_cc" => z = 0
         /\ n = "pop" => z = 1 /\ y \in {0, 2, 4, 6}
         /\ n = "ret" => z = 1 /\ y = 1
         /\ n = "exx" => z = 1 /\ y = 3
         /\ n = "jp_hl" => z = 1 /\ y = 5
         /\ n = "ld_sp_hl" => z = 1 /\ y = 7
         /\ n = "jp_cc" => z = 2
         /\ n = "jump" => z = 3 /\ y = 0
         /\ n = "out_n_a" => z = 3 /\ y = 2
         /\ n = "in_a_n" => z = 3 /\ y = 3
         /\ n = "ex_sp_hl" => z = 3 /\ y = 4
         /\ n = "ex_de_hl" => z = 3 /\ y = 5
         /\ n = "di" => z = 3 /\ y = 6
         /\ n = "ei" => z = 3 /\ y = 7
         /\ n = "call_cc" => z = 4
         /\ n = "push" => z = 5 /\ y \in {0, 2, 4, 6}
         /\ n = "call" => z = 5 /\ y = 1
         /\ n = "alu_n" => z = 6
         /\ n = "rst" => z = 7
         /\ n = "prefix" => (z = 3 /\ y = 1) \/ (z = 5 /\ y \in {3, 5, 7})
         /\ n \in {"ret_cc", "pop", "ret", "exx", "jp_hl", "ld_sp_hl", "jp_cc", "jump", "out_n_a",
                      "in_a_n", "ex_sp_hl", "ex_de_hl", "di", "ei", "call_cc", "push", "call",
                      "alu_n", "rst", "prefix"}
<1>1. z \in {0, 1, 2, 3, 4, 5, 6, 7} /\ y \in {0, 1, 2, 3, 4, 5, 6, 7} /\ y % 2 \in {0, 1}
  OBVIOUS
<1>2. CASE z = 0
  BY <1>1, <1>2 DEF DecodeX3
<1>3. CASE z = 1
  BY <1>1, <1>3 DEF DecodeX3
<1>4. CASE z = 2
  BY <1>1, <1>4 DEF DecodeX3
<1>5. CASE z = 3
  <2>1. n = <<"jump", "prefix", "out_n_a", "in_a_n", "ex_sp_hl", "ex_de_hl", "di", "ei">>[y + 1]
    BY <1>5 DEF DecodeX3
  <2>2. /\ y = 0 => n = "jump"
        /\ y = 1 => n = "prefix"
        /\ y = 2 => n = "out_n_a"
        /\ y = 3 => n = "in_a_n"
        /\ y = 4 => n = "ex_sp_hl"
        /\ y = 5 => n = "ex_de_hl"
        /\ y = 6 => n = "di"
        /\ y = 7 => n = "ei"
    BY <2>1
  <2> QED BY <1>1, <1>5, <2>2
<1>6. CASE z = 4
  BY <1>1, <1>6 DEF DecodeX3
<1>7. CASE z = 5
  BY <1>1, <1>7 DEF DecodeX3
<1>8. CASE z = 6
  BY <1>1, <1>8 DEF DecodeX3
<1>9. CASE z = 7
  BY <1>1, <1>9 DEF DecodeX3
<1> QED BY <1>1, <1>2, <1>3, <1>4, <1>5, <1>6, <1>7, <1>8, <1>9

(* The instructions with opcodes below 40, and from C0. *)
InX0 == {"nop", "ex_af", "djnz", "jr", "jr_cc", "ld_rp_nn", "add_hl_rp", "ld_bc_a", "ld_a_bc",
         "ld_de_a", "ld_a_de", "ld_nn_hl", "ld_hl_nn", "ld_nn_a", "ld_a_nn", "inc_rp", "dec_rp",
         "inc_reg", "inc_mem", "dec_reg", "dec_mem", "ld_reg_immediate", "ld_hl_n", "rotate_a",
         "daa", "cpl", "scf", "ccf"}
InX3 == {"ret_cc", "pop", "ret", "exx", "jp_hl", "ld_sp_hl", "jp_cc", "jump", "out_n_a", "in_a_n",
         "ex_sp_hl", "ex_de_hl", "di", "ei", "call_cc", "push", "call", "alu_n", "rst", "prefix"}

(* Every opcode is that of one of these. *)
LEMMA PlacedAt ==
  ASSUME NEW o \in Byte, NEW n, n = DecodeBase(o)
  PROVE  /\ X(o) \in 0 .. 3 /\ Y(o) \in 0 .. 7 /\ Z(o) \in 0 .. 7
         /\ n \in InX0 => X(o) = 0 /\ n = DecodeX0(Y(o), Z(o))
         /\ n \in InX3 => X(o) = 3 /\ n = DecodeX3(Y(o), Z(o))
         /\ n = "halt" => o = 118
         /\ n = "ld_reg_from_hl" => X(o) = 1 /\ Y(o) # 6 /\ Z(o) = 6 /\ o # 118
         /\ n = "ld_hl_from_reg" => X(o) = 1 /\ Y(o) = 6 /\ Z(o) # 6 /\ o # 118
         /\ n = "ld_reg_reg" => X(o) = 1 /\ Y(o) # 6 /\ Z(o) # 6 /\ o # 118
         /\ n = "alu_mem" => X(o) = 2 /\ Z(o) = 6
         /\ n = "alu_reg" => X(o) = 2 /\ Z(o) # 6
         /\ n \in InX0 \union InX3 \union
                 {"halt", "ld_reg_from_hl", "ld_hl_from_reg", "ld_reg_reg", "alu_mem", "alu_reg"}
<1>1. X(o) \in {0, 1, 2, 3} /\ Y(o) \in 0 .. 7 /\ Z(o) \in 0 .. 7
  BY FieldsType DEF Byte
<1>2. o = 64 * X(o) + 8 * Y(o) + Z(o)
  BY OpcodeOf
<1>3. CASE X(o) = 0
  <2>1. n = DecodeX0(Y(o), Z(o))
    BY <1>3 DEF DecodeBase
  <2>2. n \in InX0
    <3>1. Z(o) \in {0, 1, 2, 3, 4, 5, 6, 7} /\ Y(o) \in {0, 1, 2, 3, 4, 5, 6, 7} /\
            Y(o) % 2 \in {0, 1}
      BY <1>1
    <3> QED BY <2>1, <3>1 DEF DecodeX0, InX0
  <2> QED BY <1>1, <1>3, <2>1, <2>2, PlacedX0 DEF InX0, InX3
<1>4. CASE X(o) = 1
  <2>1. n = DecodeX1(Y(o), Z(o))
    BY <1>4 DEF DecodeBase
  <2> QED BY <1>1, <1>2, <1>4, <2>1 DEF DecodeX1, InX0, InX3
<1>5. CASE X(o) = 2
  <2>1. n = IF Z(o) = 6 THEN "alu_mem" ELSE "alu_reg"
    BY <1>5 DEF DecodeBase
  <2> QED BY <1>1, <1>5, <2>1 DEF InX0, InX3
<1>6. CASE X(o) = 3
  <2>1. n = DecodeX3(Y(o), Z(o))
    BY <1>6 DEF DecodeBase
  <2>2. n \in InX3
    BY <1>1, <2>1, PlacedX3 DEF InX3
  <2> QED BY <1>1, <1>6, <2>1, <2>2 DEF InX0, InX3
<1> QED BY <1>1, <1>3, <1>4, <1>5, <1>6

(* Where in the map an instruction is: the fields x, y and z of its opcode. *)
LEMMA MapPlace ==
  ASSUME NEW o \in Byte, NEW n, n = DecodeBase(o)
  PROVE  /\ X(o) \in 0 .. 3 /\ Y(o) \in 0 .. 7 /\ Z(o) \in 0 .. 7
         /\ n = "halt" => o = 118
         /\ n = "ld_reg_from_hl" => X(o) = 1 /\ Y(o) # 6 /\ Z(o) = 6 /\ o # 118
         /\ n = "ld_hl_from_reg" => X(o) = 1 /\ Y(o) = 6 /\ Z(o) # 6 /\ o # 118
         /\ n = "ld_reg_reg" => X(o) = 1 /\ Y(o) # 6 /\ Z(o) # 6 /\ o # 118
         /\ n = "alu_mem" => X(o) = 2 /\ Z(o) = 6
         /\ n = "alu_reg" => X(o) = 2 /\ Z(o) # 6
         /\ n = "nop" => X(o) = 0 /\ Z(o) = 0 /\ Y(o) = 0
         /\ n = "ex_af" => X(o) = 0 /\ Z(o) = 0 /\ Y(o) = 1
         /\ n = "djnz" => X(o) = 0 /\ Z(o) = 0 /\ Y(o) = 2
         /\ n = "jr" => X(o) = 0 /\ Z(o) = 0 /\ Y(o) = 3
         /\ n = "jr_cc" => X(o) = 0 /\ Z(o) = 0 /\ Y(o) \in 4 .. 7
         /\ n = "ld_rp_nn" => X(o) = 0 /\ Z(o) = 1 /\ Y(o) % 2 = 0
         /\ n = "add_hl_rp" => X(o) = 0 /\ Z(o) = 1 /\ Y(o) % 2 = 1
         /\ n = "ld_bc_a" => X(o) = 0 /\ Z(o) = 2 /\ Y(o) = 0
         /\ n = "ld_a_bc" => X(o) = 0 /\ Z(o) = 2 /\ Y(o) = 1
         /\ n = "ld_de_a" => X(o) = 0 /\ Z(o) = 2 /\ Y(o) = 2
         /\ n = "ld_a_de" => X(o) = 0 /\ Z(o) = 2 /\ Y(o) = 3
         /\ n = "ld_nn_hl" => X(o) = 0 /\ Z(o) = 2 /\ Y(o) = 4
         /\ n = "ld_hl_nn" => X(o) = 0 /\ Z(o) = 2 /\ Y(o) = 5
         /\ n = "ld_nn_a" => X(o) = 0 /\ Z(o) = 2 /\ Y(o) = 6
         /\ n = "ld_a_nn" => X(o) = 0 /\ Z(o) = 2 /\ Y(o) = 7
         /\ n = "inc_rp" => X(o) = 0 /\ Z(o) = 3 /\ Y(o) % 2 = 0
         /\ n = "dec_rp" => X(o) = 0 /\ Z(o) = 3 /\ Y(o) % 2 = 1
         /\ n = "inc_reg" => X(o) = 0 /\ Z(o) = 4 /\ Y(o) # 6
         /\ n = "inc_mem" => X(o) = 0 /\ Z(o) = 4 /\ Y(o) = 6
         /\ n = "dec_reg" => X(o) = 0 /\ Z(o) = 5 /\ Y(o) # 6
         /\ n = "dec_mem" => X(o) = 0 /\ Z(o) = 5 /\ Y(o) = 6
         /\ n = "ld_reg_immediate" => X(o) = 0 /\ Z(o) = 6 /\ Y(o) # 6
         /\ n = "ld_hl_n" => X(o) = 0 /\ Z(o) = 6 /\ Y(o) = 6
         /\ n = "rotate_a" => X(o) = 0 /\ Z(o) = 7 /\ Y(o) \in 0 .. 3
         /\ n = "daa" => X(o) = 0 /\ Z(o) = 7 /\ Y(o) = 4
         /\ n = "cpl" => X(o) = 0 /\ Z(o) = 7 /\ Y(o) = 5
         /\ n = "scf" => X(o) = 0 /\ Z(o) = 7 /\ Y(o) = 6
         /\ n = "ccf" => X(o) = 0 /\ Z(o) = 7 /\ Y(o) = 7
         /\ n = "ret_cc" => X(o) = 3 /\ Z(o) = 0
         /\ n = "pop" => X(o) = 3 /\ Z(o) = 1 /\ Y(o) \in {0, 2, 4, 6}
         /\ n = "ret" => X(o) = 3 /\ Z(o) = 1 /\ Y(o) = 1
         /\ n = "exx" => X(o) = 3 /\ Z(o) = 1 /\ Y(o) = 3
         /\ n = "jp_hl" => X(o) = 3 /\ Z(o) = 1 /\ Y(o) = 5
         /\ n = "ld_sp_hl" => X(o) = 3 /\ Z(o) = 1 /\ Y(o) = 7
         /\ n = "jp_cc" => X(o) = 3 /\ Z(o) = 2
         /\ n = "jump" => X(o) = 3 /\ Z(o) = 3 /\ Y(o) = 0
         /\ n = "out_n_a" => X(o) = 3 /\ Z(o) = 3 /\ Y(o) = 2
         /\ n = "in_a_n" => X(o) = 3 /\ Z(o) = 3 /\ Y(o) = 3
         /\ n = "ex_sp_hl" => X(o) = 3 /\ Z(o) = 3 /\ Y(o) = 4
         /\ n = "ex_de_hl" => X(o) = 3 /\ Z(o) = 3 /\ Y(o) = 5
         /\ n = "di" => X(o) = 3 /\ Z(o) = 3 /\ Y(o) = 6
         /\ n = "ei" => X(o) = 3 /\ Z(o) = 3 /\ Y(o) = 7
         /\ n = "call_cc" => X(o) = 3 /\ Z(o) = 4
         /\ n = "push" => X(o) = 3 /\ Z(o) = 5 /\ Y(o) \in {0, 2, 4, 6}
         /\ n = "call" => X(o) = 3 /\ Z(o) = 5 /\ Y(o) = 1
         /\ n = "alu_n" => X(o) = 3 /\ Z(o) = 6
         /\ n = "rst" => X(o) = 3 /\ Z(o) = 7
         /\ n = "prefix" => X(o) = 3 /\ ((Z(o) = 3 /\ Y(o) = 1) \/ (Z(o) = 5 /\ Y(o) \in {3, 5, 7}))
<1>1. ASSUME n \in InX0
      PROVE  /\ n = "nop" => X(o) = 0 /\ Z(o) = 0 /\ Y(o) = 0
             /\ n = "ex_af" => X(o) = 0 /\ Z(o) = 0 /\ Y(o) = 1
             /\ n = "djnz" => X(o) = 0 /\ Z(o) = 0 /\ Y(o) = 2
             /\ n = "jr" => X(o) = 0 /\ Z(o) = 0 /\ Y(o) = 3
             /\ n = "jr_cc" => X(o) = 0 /\ Z(o) = 0 /\ Y(o) \in 4 .. 7
             /\ n = "ld_rp_nn" => X(o) = 0 /\ Z(o) = 1 /\ Y(o) % 2 = 0
             /\ n = "add_hl_rp" => X(o) = 0 /\ Z(o) = 1 /\ Y(o) % 2 = 1
             /\ n = "ld_bc_a" => X(o) = 0 /\ Z(o) = 2 /\ Y(o) = 0
             /\ n = "ld_a_bc" => X(o) = 0 /\ Z(o) = 2 /\ Y(o) = 1
             /\ n = "ld_de_a" => X(o) = 0 /\ Z(o) = 2 /\ Y(o) = 2
             /\ n = "ld_a_de" => X(o) = 0 /\ Z(o) = 2 /\ Y(o) = 3
             /\ n = "ld_nn_hl" => X(o) = 0 /\ Z(o) = 2 /\ Y(o) = 4
             /\ n = "ld_hl_nn" => X(o) = 0 /\ Z(o) = 2 /\ Y(o) = 5
             /\ n = "ld_nn_a" => X(o) = 0 /\ Z(o) = 2 /\ Y(o) = 6
             /\ n = "ld_a_nn" => X(o) = 0 /\ Z(o) = 2 /\ Y(o) = 7
             /\ n = "inc_rp" => X(o) = 0 /\ Z(o) = 3 /\ Y(o) % 2 = 0
             /\ n = "dec_rp" => X(o) = 0 /\ Z(o) = 3 /\ Y(o) % 2 = 1
             /\ n = "inc_reg" => X(o) = 0 /\ Z(o) = 4 /\ Y(o) # 6
             /\ n = "inc_mem" => X(o) = 0 /\ Z(o) = 4 /\ Y(o) = 6
             /\ n = "dec_reg" => X(o) = 0 /\ Z(o) = 5 /\ Y(o) # 6
             /\ n = "dec_mem" => X(o) = 0 /\ Z(o) = 5 /\ Y(o) = 6
             /\ n = "ld_reg_immediate" => X(o) = 0 /\ Z(o) = 6 /\ Y(o) # 6
             /\ n = "ld_hl_n" => X(o) = 0 /\ Z(o) = 6 /\ Y(o) = 6
             /\ n = "rotate_a" => X(o) = 0 /\ Z(o) = 7 /\ Y(o) \in 0 .. 3
             /\ n = "daa" => X(o) = 0 /\ Z(o) = 7 /\ Y(o) = 4
             /\ n = "cpl" => X(o) = 0 /\ Z(o) = 7 /\ Y(o) = 5
             /\ n = "scf" => X(o) = 0 /\ Z(o) = 7 /\ Y(o) = 6
             /\ n = "ccf" => X(o) = 0 /\ Z(o) = 7 /\ Y(o) = 7
  <2>1. X(o) = 0 /\ n = DecodeX0(Y(o), Z(o)) /\ Y(o) \in 0 .. 7 /\ Z(o) \in 0 .. 7
    BY <1>1, PlacedAt
  <2> QED BY <2>1, PlacedX0
<1>2. ASSUME n \in InX3
      PROVE  /\ n = "ret_cc" => X(o) = 3 /\ Z(o) = 0
             /\ n = "pop" => X(o) = 3 /\ Z(o) = 1 /\ Y(o) \in {0, 2, 4, 6}
             /\ n = "ret" => X(o) = 3 /\ Z(o) = 1 /\ Y(o) = 1
             /\ n = "exx" => X(o) = 3 /\ Z(o) = 1 /\ Y(o) = 3
             /\ n = "jp_hl" => X(o) = 3 /\ Z(o) = 1 /\ Y(o) = 5
             /\ n = "ld_sp_hl" => X(o) = 3 /\ Z(o) = 1 /\ Y(o) = 7
             /\ n = "jp_cc" => X(o) = 3 /\ Z(o) = 2
             /\ n = "jump" => X(o) = 3 /\ Z(o) = 3 /\ Y(o) = 0
             /\ n = "out_n_a" => X(o) = 3 /\ Z(o) = 3 /\ Y(o) = 2
             /\ n = "in_a_n" => X(o) = 3 /\ Z(o) = 3 /\ Y(o) = 3
             /\ n = "ex_sp_hl" => X(o) = 3 /\ Z(o) = 3 /\ Y(o) = 4
             /\ n = "ex_de_hl" => X(o) = 3 /\ Z(o) = 3 /\ Y(o) = 5
             /\ n = "di" => X(o) = 3 /\ Z(o) = 3 /\ Y(o) = 6
             /\ n = "ei" => X(o) = 3 /\ Z(o) = 3 /\ Y(o) = 7
             /\ n = "call_cc" => X(o) = 3 /\ Z(o) = 4
             /\ n = "push" => X(o) = 3 /\ Z(o) = 5 /\ Y(o) \in {0, 2, 4, 6}
             /\ n = "call" => X(o) = 3 /\ Z(o) = 5 /\ Y(o) = 1
             /\ n = "alu_n" => X(o) = 3 /\ Z(o) = 6
             /\ n = "rst" => X(o) = 3 /\ Z(o) = 7
             /\ n = "prefix" => X(o) = 3 /\
                  ((Z(o) = 3 /\ Y(o) = 1) \/ (Z(o) = 5 /\ Y(o) \in {3, 5, 7}))
  <2>1. X(o) = 3 /\ n = DecodeX3(Y(o), Z(o)) /\ Y(o) \in 0 .. 7 /\ Z(o) \in 0 .. 7
    BY <1>2, PlacedAt
  <2> QED BY <2>1, PlacedX3
<1>3. n \in InX0 \/ (n # "nop" /\ n # "ex_af" /\ n # "djnz" /\ n # "jr" /\ n # "jr_cc" /\
        n # "ld_rp_nn" /\ n # "add_hl_rp" /\ n # "ld_bc_a" /\ n # "ld_a_bc" /\ n # "ld_de_a" /\
          n # "ld_a_de" /\ n # "ld_nn_hl" /\ n # "ld_hl_nn" /\ n # "ld_nn_a" /\ n # "ld_a_nn" /\
            n # "inc_rp" /\ n # "dec_rp" /\ n # "inc_reg" /\ n # "inc_mem" /\ n # "dec_reg" /\
              n # "dec_mem" /\ n # "ld_reg_immediate" /\ n # "ld_hl_n" /\ n # "rotate_a" /\
                n # "daa" /\ n # "cpl" /\ n # "scf" /\ n # "ccf")
  BY DEF InX0
<1>4. n \in InX3 \/ (n # "ret_cc" /\ n # "pop" /\ n # "ret" /\ n # "exx" /\ n # "jp_hl" /\
        n # "ld_sp_hl" /\ n # "jp_cc" /\ n # "jump" /\ n # "out_n_a" /\ n # "in_a_n" /\
          n # "ex_sp_hl" /\ n # "ex_de_hl" /\ n # "di" /\ n # "ei" /\ n # "call_cc" /\
            n # "push" /\ n # "call" /\ n # "alu_n" /\ n # "rst" /\ n # "prefix")
  BY DEF InX3
<1> QED BY <1>1, <1>2, <1>3, <1>4, PlacedAt
-----------------------------------------------------------------------------
(***************************************************************************)
(* PUSH and POP name AF where the other rows name SP.                      *)
(***************************************************************************)

(* What PUSH pushes and where POP puts it. *)
LEMMA PushedPair ==
  ASSUME NEW c, Typed(c), Y(c.opcode) \in {0, 2, 4, 6}
  PROVE  /\ PairOf(c, pair_rp2(c))
              = IF Y(c.opcode) = 6 THEN Manual!AfWord(Seen(c))
                ELSE c[<<"bc", "de", index_pair(c)>>[Y(c.opcode) \div 2 + 1]]
         /\ pair_rp2(c) = IF Y(c.opcode) = 6 THEN "af"
                          ELSE <<"bc", "de", index_pair(c)>>[Y(c.opcode) \div 2 + 1]
         /\ pair_rp2(c) \in {"bc", "de", "hl", "ix", "iy", "af"}
<1>1. c.opcode \in Byte /\ index_pair(c) \in {"hl", "ix", "iy"}
  BY CoreTypes DEF index_pair
<1>2. PairField(c) = Y(c.opcode) \div 2
  BY <1>1 DEF PairField, Y, Byte
<1>3. CASE Y(c.opcode) = 6
  <2>1. pair_rp2(c) = "af"
    BY <1>2, <1>3 DEF pair_rp2
  <2>2. \A flag \in c.f : Manual!BitsOfF[flag] = FlagBit[flag]
    BY CoreTypes DEF Manual!BitsOfF, FlagBit, Alu!Flags
  <2>3. Seen(c).a = c.a /\ Seen(c).f = c.f
    BY SeenFields DEF Seen
  <2>4. {Manual!BitsOfF[flag] : flag \in c.f} = {FlagBit[flag] : flag \in c.f}
    BY <2>2
  <2>5. Manual!AfWord(Seen(c)) = 256 * c.a + FlagsByte(c.f)
    BY <2>3, <2>4, SameArithmetic DEF Manual!AfWord, FlagsByte
  <2> QED BY <1>3, <2>1, <2>5 DEF PairOf
<1>4. CASE Y(c.opcode) # 6
  <2>1. Y(c.opcode) \div 2 \in {0, 1, 2} /\ PairField(c) # 3
    BY <1>2, <1>4
  <2>2. pair_rp2(c) = <<"bc", "de", index_pair(c), "sp">>[Y(c.opcode) \div 2 + 1]
    BY <1>2, <2>1 DEF pair_rp2, pair_rp
  <2>3. /\ pair_rp2(c) = <<"bc", "de", index_pair(c)>>[Y(c.opcode) \div 2 + 1]
        /\ pair_rp2(c) \in {"bc", "de", "hl", "ix", "iy"}
    BY <1>1, <2>1, <2>2
  <2> QED BY <1>4, <2>3 DEF PairOf
<1> QED BY <1>3, <1>4

(* Of a pair and WZ written together only the pair is seen. *)
LEMMA PutBehind ==
  ASSUME NEW c, Typed(c), NEW pair \in {"bc", "de", "hl", "ix", "iy", "sp"}
  PROVE  /\ \A v, w : Seen(Put(Put(c, "wz", w), pair, v)) = [Seen(c) EXCEPT ![pair] = v]
         /\ \A v, w : Seen(Put(Put(c, pair, v), "wz", w)) = [Seen(c) EXCEPT ![pair] = v]
<1>1. /\ Shaped(c) /\ pair \in CpuFields /\ pair \in VisibleFields
      /\ "wz" \in CpuFields /\ "wz" \notin VisibleFields
  BY Fields, SeenFields, InCore
<1>2. ASSUME NEW v, NEW w PROVE Seen(Put(Put(c, "wz", w), pair, v)) = [Seen(c) EXCEPT ![pair] = v]
  <2>1. PICK d : d = Put(c, "wz", w)
    OBVIOUS
  <2>2. Shaped(d) /\ Seen(d) = Seen(c)
    BY <1>1, <2>1, SeenPut
  <2> QED BY <1>1, <2>1, <2>2, SeenPut
<1>3. ASSUME NEW v, NEW w PROVE Seen(Put(Put(c, pair, v), "wz", w)) = [Seen(c) EXCEPT ![pair] = v]
  <2>1. PICK d : d = Put(c, pair, v)
    OBVIOUS
  <2>2. Shaped(d) /\ Seen(d) = [Seen(c) EXCEPT ![pair] = v]
    BY <1>1, <2>1, SeenPut
  <2> QED BY <1>1, <2>1, <2>2, SeenPut
<1> QED BY <1>2, <1>3
-----------------------------------------------------------------------------
(***************************************************************************)
(* The rows of the table that name a pair.                                 *)
(***************************************************************************)

(* The rows of the table that name a pair. *)
LEMMA PairRows ==
  ASSUME NEW s, NEW m, NEW xy, NEW place, NEW at, NEW q, NEW y \in 0 .. 7,
         NEW pair, pair = <<"bc", "de", xy, "sp">>[y \div 2 + 1]
  PROVE  /\ y % 2 = 0 => Manual!Quarter0(s, m, y, 1, xy, place, at, q)
                           = Manual!Both(Put(s, pair, Manual!PeekWord(m, at)), m)
         /\ y % 2 = 1 => \A out : out = Manual!alu_add16(s[xy], s.f, s[pair]) =>
                           Manual!Quarter0(s, m, y, 1, xy, place, at, q)
                             = Manual!Both(Manual!Flagged(Put(s, xy, out.value), out.flags), m)
         /\ y % 2 = 0 => Manual!Quarter0(s, m, y, 3, xy, place, at, q)
                           = Manual!Both(Put(s, pair, Plus(s[pair], 1)), m)
         /\ y % 2 = 1 => Manual!Quarter0(s, m, y, 3, xy, place, at, q)
                           = Manual!Both(Put(s, pair, Plus(s[pair], -1)), m)
<1>1. ASSUME NEW k \in {0, 2, 4, 6}, NEW rp, rp = <<"bc", "de", xy, "sp">>[k \div 2 + 1]
      PROVE  Manual!Quarter0(s, m, k, 1, xy, place, at, q)
               = Manual!Both([s EXCEPT ![rp] = Manual!PeekWord(m, at)], m)
  <2>1. CASE k = 0
    BY <1>1, <2>1 DEF Manual!Quarter0
  <2>2. CASE k = 2
    BY <1>1, <2>2 DEF Manual!Quarter0
  <2>3. CASE k = 4
    BY <1>1, <2>3 DEF Manual!Quarter0
  <2>4. CASE k = 6
    BY <1>1, <2>4 DEF Manual!Quarter0
  <2> QED BY <1>1, <2>1, <2>2, <2>3, <2>4
<1>2. ASSUME NEW k \in {1, 3, 5, 7}, NEW rp, rp = <<"bc", "de", xy, "sp">>[k \div 2 + 1], NEW out,
               out = Manual!alu_add16(s[xy], s.f, s[rp])
      PROVE  Manual!Quarter0(s, m, k, 1, xy, place, at, q)
               = Manual!Both(Manual!Flagged([s EXCEPT ![xy] = out.value], out.flags), m)
  <2>1. CASE k = 1
    BY <1>2, <2>1 DEF Manual!Quarter0
  <2>2. CASE k = 3
    BY <1>2, <2>2 DEF Manual!Quarter0
  <2>3. CASE k = 5
    BY <1>2, <2>3 DEF Manual!Quarter0
  <2>4. CASE k = 7
    BY <1>2, <2>4 DEF Manual!Quarter0
  <2> QED BY <1>2, <2>1, <2>2, <2>3, <2>4
<1>3. ASSUME NEW k \in {0, 2, 4, 6}, NEW rp, rp = <<"bc", "de", xy, "sp">>[k \div 2 + 1]
      PROVE  Manual!Quarter0(s, m, k, 3, xy, place, at, q)
               = Manual!Both([s EXCEPT ![rp] = Manual!Add(@, 1)], m)
  <2>1. CASE k = 0
    BY <1>3, <2>1 DEF Manual!Quarter0
  <2>2. CASE k = 2
    BY <1>3, <2>2 DEF Manual!Quarter0
  <2>3. CASE k = 4
    BY <1>3, <2>3 DEF Manual!Quarter0
  <2>4. CASE k = 6
    BY <1>3, <2>4 DEF Manual!Quarter0
  <2> QED BY <1>3, <2>1, <2>2, <2>3, <2>4
<1>4. ASSUME NEW k \in {1, 3, 5, 7}, NEW rp, rp = <<"bc", "de", xy, "sp">>[k \div 2 + 1]
      PROVE  Manual!Quarter0(s, m, k, 3, xy, place, at, q)
               = Manual!Both([s EXCEPT ![rp] = Manual!Add(@, -1)], m)
  <2>1. CASE k = 1
    BY <1>4, <2>1 DEF Manual!Quarter0
  <2>2. CASE k = 3
    BY <1>4, <2>2 DEF Manual!Quarter0
  <2>3. CASE k = 5
    BY <1>4, <2>3 DEF Manual!Quarter0
  <2>4. CASE k = 7
    BY <1>4, <2>4 DEF Manual!Quarter0
  <2> QED BY <1>4, <2>1, <2>2, <2>3, <2>4
<1>5. y % 2 = 0 => y \in {0, 2, 4, 6}
  OBVIOUS
<1>6. y % 2 = 1 => y \in {1, 3, 5, 7}
  OBVIOUS
<1>8. y % 2 = 0 => Manual!Quarter0(s, m, y, 1, xy, place, at, q)
                     = Manual!Both(Put(s, pair, Manual!PeekWord(m, at)), m)
  BY <1>1, <1>5 DEF Put
<1>9. ASSUME y % 2 = 1, NEW out, out = Manual!alu_add16(s[xy], s.f, s[pair])
      PROVE  Manual!Quarter0(s, m, y, 1, xy, place, at, q)
               = Manual!Both(Manual!Flagged(Put(s, xy, out.value), out.flags), m)
  BY <1>2, <1>6, <1>9 DEF Put
<1>10. ASSUME y % 2 = 0
      PROVE  Manual!Quarter0(s, m, y, 3, xy, place, at, q)
               = Manual!Both(Put(s, pair, Plus(s[pair], 1)), m)
  <2>1. Manual!Quarter0(s, m, y, 3, xy, place, at, q)
          = Manual!Both([s EXCEPT ![pair] = Manual!Add(@, 1)], m)
    BY <1>3, <1>5, <1>10
  <2>2. Manual!Add(s[pair], 1) = Plus(s[pair], 1)
    BY SameWords
  <2> QED BY <2>1, <2>2 DEF Put
<1>11. ASSUME y % 2 = 1
      PROVE  Manual!Quarter0(s, m, y, 3, xy, place, at, q)
               = Manual!Both(Put(s, pair, Plus(s[pair], -1)), m)
  <2>1. Manual!Quarter0(s, m, y, 3, xy, place, at, q)
          = Manual!Both([s EXCEPT ![pair] = Manual!Add(@, -1)], m)
    BY <1>4, <1>6, <1>11
  <2>2. Manual!Add(s[pair], -1) = Plus(s[pair], -1)
    BY SameWords
  <2> QED BY <2>1, <2>2 DEF Put
<1> QED BY <1>8, <1>9, <1>10, <1>11

(* In these rows y names a pair. *)
LEMMA RowsOfPairs ==
  ASSUME NEW c, c.opcode \in Byte, NEW pair, pair = pair_rp(c), NEW s, NEW m, NEW place, NEW at,
           NEW q
  PROVE  /\ Y(c.opcode) % 2 = 0 =>
              Manual!Quarter0(s, m, Y(c.opcode), 1, index_pair(c), place, at, q)
                = Manual!Both(Put(s, pair, Manual!PeekWord(m, at)), m)
         /\ Y(c.opcode) % 2 = 1 => \A out : out
              = Manual!alu_add16(s[index_pair(c)], s.f, s[pair]) =>
              Manual!Quarter0(s, m, Y(c.opcode), 1, index_pair(c), place, at, q)
                = Manual!Both(Manual!Flagged(Put(s, index_pair(c), out.value), out.flags), m)
         /\ Y(c.opcode) % 2 = 0 =>
              Manual!Quarter0(s, m, Y(c.opcode), 3, index_pair(c), place, at, q)
                = Manual!Both(Put(s, pair, Plus(s[pair], 1)), m)
         /\ Y(c.opcode) % 2 = 1 =>
              Manual!Quarter0(s, m, Y(c.opcode), 3, index_pair(c), place, at, q)
                = Manual!Both(Put(s, pair, Plus(s[pair], -1)), m)
<1>1. PICK y, xy : y = Y(c.opcode) /\ xy = index_pair(c)
  OBVIOUS
<1>2. y \in 0 .. 7
  BY <1>1, FieldsType
<1>3. pair = <<"bc", "de", xy, "sp">>[y \div 2 + 1]
  BY <1>1, PairNamed
<1>4. /\ y % 2 = 0 => Manual!Quarter0(s, m, y, 1, xy, place, at, q)
                           = Manual!Both(Put(s, pair, Manual!PeekWord(m, at)), m)
      /\ y % 2 = 1 => \A out : out = Manual!alu_add16(s[xy], s.f, s[pair]) =>
                           Manual!Quarter0(s, m, y, 1, xy, place, at, q)
                             = Manual!Both(Manual!Flagged(Put(s, xy, out.value), out.flags), m)
      /\ y % 2 = 0 => Manual!Quarter0(s, m, y, 3, xy, place, at, q)
                           = Manual!Both(Put(s, pair, Plus(s[pair], 1)), m)
      /\ y % 2 = 1 => Manual!Quarter0(s, m, y, 3, xy, place, at, q)
                           = Manual!Both(Put(s, pair, Plus(s[pair], -1)), m)
  BY <1>2, <1>3, PairRows
<1> QED BY <1>1, <1>4
-----------------------------------------------------------------------------
(***************************************************************************)
(* RST pushes PC and notes where it goes.                                  *)
(***************************************************************************)

(* RST's push, which also notes where it goes. *)
LEMMA RstWrites ==
  ASSUME NEW d, NEW m, NEW e, NEW l, OneCycle(d, m, e, l), NEW x,
         Enters(d, "mem_write", "rst_target", x)
  PROVE  \E f : /\ Same(d, f, {"bus_addr", "bus_data", "sp", "wz"}) /\ f.sp = Plus(d.sp, -1)
                /\ f.bus_addr = Plus(d.sp, -1) /\ f.bus_data = High(d.pc)
                /\ f.wz = 8 * Y(d.opcode)
                /\ e = Put(Exit(x, f), "cycle", d.cycle + 1)
                /\ l = Manual!Poke(m, Plus(d.sp, -1), High(d.pc))
<1>1. Shaped(d)
  BY Fields DEF OneCycle
<1>2. PICK g : g = Put(d, "wz", 8 * Y(d.opcode))
  OBVIOUS
<1>3. Same(d, g, {"wz"}) /\ g.wz = 8 * Y(d.opcode) /\ Shaped(g)
  BY <1>1, <1>2, GetPut, InCore DEF Same
<1>4. PICK f : f = Pushed(g, High(d.pc))
  OBVIOUS
<1>5. /\ Same(g, f, {"bus_addr", "bus_data", "sp"}) /\ f.sp = Plus(g.sp, -1)
      /\ f.bus_addr = Plus(g.sp, -1) /\ f.bus_data = High(d.pc)
  BY <1>3, <1>4, PutsLeave
<1>6. g.sp = d.sp
  BY <1>3, InCore DEF Same
<1>7. /\ Same(d, f, {"bus_addr", "bus_data", "sp", "wz"}) /\ f.wz = 8 * Y(d.opcode)
      /\ f.sp = Plus(d.sp, -1) /\ f.bus_addr = Plus(d.sp, -1)
  BY <1>3, <1>5, <1>6, InCore DEF Same
<1>8. Enter("rst_target", d) = f
  BY <1>1, <1>2, <1>4, EnterPushes
<1>9. /\ e = Put(Exit(x, f), "cycle", d.cycle + 1)
      /\ l = Manual!Poke(m, f.bus_addr, f.bus_data)
  BY <1>8, WriteCycle
<1> QED BY <1>5, <1>7, <1>9
-----------------------------------------------------------------------------
(***************************************************************************)
(* Instruction by instruction: after its cycles and its effect, the core   *)
(* and memory are as the manual's row for it says. Each proof follows the  *)
(* cycles of the instruction through its hooks, sees what they leave of    *)
(* the registers (Seen), and meets the row. First the loads that name a    *)
(* word of memory.                                                         *)
(***************************************************************************)

(* LD A,(nn). *)
LEMMA Does_ld_a_nn ==
  ASSUME NEW e, NEW m, NEW place, NEW at, Begins(e, m, place, at), e.instr = "ld_a_nn",
         NEW d, NEW l, After3(e, m, d, l),
         NEW p, Typed(p), Same(d, p, {"nmi_latched"}), NEW int, NEW port
  PROVE  Meets(Execute("ld_a_nn", p, int), l, Table(e, m, place, at, port))
<1>1. /\ Typed(e) /\ Shaped(e) /\ e.opcode \in Byte /\ ByteMemory(m)
      /\ index_pair(e) \in {"hl", "ix", "iy"}
  BY CoreTypes DEF Begins, index_pair
<1>2. "ld_a_nn" = DecodeBase(e.opcode)
  BY DEF Begins
<1>3. /\ X(e.opcode) = 0
      /\ Z(e.opcode) = 2
      /\ Y(e.opcode) = 7
  BY <1>1, <1>2, MapPlace
<1>4. Manual!OperandBytes(e.opcode) = 2
  BY <1>1, <1>3, FieldsType, OpcodeOf DEF Manual!OperandBytes, X, Y, Z
<1>5. PICK d1, m1, d2, m2 :
      /\ OneCycle(e, m, d1, m1)
      /\ OneCycle(d1, m1, d2, m2)
      /\ OneCycle(d2, m2, d, l)
  BY DEF After1, After2, After3
<1>6. /\ e.instr = "ld_a_nn" /\ e.cycle = 0 /\ Shaped(e)
      /\ d1.instr = "ld_a_nn" /\ d1.cycle = 1 /\ Shaped(d1)
      /\ d2.instr = "ld_a_nn" /\ d2.cycle = 2 /\ Shaped(d2)
  BY <1>5, Fields DEF OneCycle, Begins
<1>7. CyclesOf["ld_a_nn"] = LoadCycles("ld_a_nn") /\ HooksOf["ld_a_nn"] = LoadHooks("ld_a_nn")
  BY GroupCycles, GroupHooks DEF Instrs, LoadInstrs
<1>8. /\ Enters(e, "mem_read", "at_pc", "to_tmp_low")
      /\ Enters(d1, "mem_read", "at_pc", "to_tmp_high")
      /\ Enters(d2, "mem_read", "at_tmp", "none")
  BY <1>6, <1>7 DEF Enters, LoadCycles, LoadHooks, Operand, Called, AtPcTo, AtPopTo, On, Idle,
     Read, Write,
       IoIn, IoOut, Idle1, Idle2, Idle4, Idle5, Idle7
<1>9. PICK f1 :
      /\ Same(e, f1, {"bus_addr", "bus_data", "pc"})
      /\ f1.bus_addr = e.pc
      /\ f1.bus_data = Manual!Peek(m, e.pc)
      /\ f1.bus_data \in Byte
      /\ m1 = m
      /\ f1.pc = Plus(e.pc, 1)
      /\ d1 = Put(Exit("to_tmp_low", f1), "cycle", e.cycle + 1)
  BY <1>5, <1>8, AtPcReads
<1>10. /\ Same(e, d1, {"bus_addr", "bus_data", "pc", "tmp", "cycle"})
       /\ d1.bus_addr = e.pc
       /\ d1.bus_data = Manual!Peek(m, e.pc)
       /\ d1.pc = Plus(e.pc, 1)
       /\ d1.tmp = WithLow(e.tmp, Manual!Peek(m, e.pc))
       /\ m1 = m
  BY <1>6, <1>9, Leaves, InCore DEF Same
<1>11. PICK f2 :
       /\ Same(d1, f2, {"bus_addr", "bus_data", "pc"})
       /\ f2.bus_addr = d1.pc
       /\ f2.bus_data = Manual!Peek(m1, d1.pc)
       /\ f2.bus_data \in Byte
       /\ m2 = m1
       /\ f2.pc = Plus(d1.pc, 1)
       /\ d2 = Put(Exit("to_tmp_high", f2), "cycle", d1.cycle + 1)
  BY <1>5, <1>8, AtPcReads
<1>12. /\ Same(e, d2, {"bus_addr", "bus_data", "pc", "tmp", "cycle"})
       /\ d2.bus_addr = d1.pc
       /\ d2.bus_data = Manual!Peek(m1, d1.pc)
       /\ d2.pc = Plus(d1.pc, 1)
       /\ d2.tmp = WithHigh(d1.tmp, Manual!Peek(m1, d1.pc))
       /\ m2 = m1
  BY <1>10, <1>6, <1>11, Leaves, InCore DEF Same
<1>13. /\ Same(e, d2, {"bus_addr", "bus_data", "pc", "tmp", "cycle"})
       /\ d2.bus_addr = Plus(e.pc, 1)
       /\ d2.bus_data = Manual!Peek(m, e.pc + 1)
       /\ d2.pc = Plus(e.pc, 2)
       /\ d2.tmp = Manual!PeekWord(m, e.pc)
       /\ m2 = m
  BY <1>10, <1>12, <1>1, BytesAt
<1>14. PICK f3 :
       /\ Same(d2, f3, {"bus_addr", "bus_data"})
       /\ f3.bus_addr = d2.tmp
       /\ f3.bus_data = Manual!Peek(m2, d2.tmp)
       /\ f3.bus_data \in Byte
       /\ l = m2
       /\ d = Put(Exit("none", f3), "cycle", d2.cycle + 1)
  BY <1>5, <1>8, AtTmpReads
<1>15. /\ Same(e, d, {"bus_addr", "bus_data", "pc", "tmp", "cycle"})
       /\ d.bus_addr = d2.tmp
       /\ d.bus_data = Manual!Peek(m2, d2.tmp)
       /\ d.pc = d2.pc
       /\ d.tmp = d2.tmp
       /\ l = m2
  BY <1>13, <1>6, <1>14, Leaves, InCore DEF Same
<1>16. /\ Same(e, d, {"bus_addr", "bus_data", "pc", "tmp", "cycle"})
       /\ d.pc = Plus(e.pc, 2)
       /\ d.tmp = Manual!PeekWord(m, e.pc)
       /\ d.bus_addr = Manual!PeekWord(m, e.pc)
       /\ d.bus_data = Manual!Peek(m, Manual!PeekWord(m, e.pc))
       /\ l = m
  BY <1>13, <1>15, <1>1, BytesAt
<1>17. /\ Same(e, p, {"bus_addr", "bus_data", "pc", "tmp", "cycle", "nmi_latched"})
       /\ p.pc = Plus(e.pc, 2)
       /\ p.tmp = Manual!PeekWord(m, e.pc)
       /\ p.bus_addr = Manual!PeekWord(m, e.pc)
       /\ p.bus_data = Manual!Peek(m, Manual!PeekWord(m, e.pc))
       /\ l = m
  BY <1>16, InCore DEF Same
<1>18. PICK s : s = Past(e)
  OBVIOUS
<1>19. s = [Seen(e) EXCEPT !.pc = Plus(e.pc, 2)]
  BY <1>4, <1>18, SeenFields DEF Past, Seen
<1>20. p.pc = Plus(e.pc, 2)
  BY <1>17, <1>1, BytesAt, InCore DEF Same
<1>21. Seen(p) = s /\ \A x \in VisibleFields : s[x] = p[x]
  BY <1>19, <1>17, <1>20, SeenFields DEF Same, Seen
<1>22. Table(e, m, place, at, port) = Manual!Quarter0(s, m, 7, 2, index_pair(e), place, at, e.q)
  BY <1>1, <1>3, <1>18, QuarterOf DEF Table
<1>23. Manual!Quarter0(s, m, 7, 2, index_pair(e), place, at, e.q)
         = Manual!Both([s EXCEPT !.a = Manual!Peek(m, Manual!PeekWord(m, at))],
                       m)
  BY DEF Manual!Quarter0
<1>24. PICK r : r = Execute("ld_a_nn", p, int)
  OBVIOUS
<1>25. r = LoadEffect("ld_a_nn", p)
  BY <1>24, Executes DEF Loads
<1>26. Shaped(p)
  BY CoreTypes
<1>27. r = Put(Put(p, "a", p.bus_data), "wz", Plus(p.bus_addr, 1))
  BY <1>25, <1>26 DEF LoadEffect, Put
<1>28. /\ Same(p, r, {"a", "wz"})
       /\ r["a"] = p.bus_data
  BY <1>27, <1>26, GetPut, InCore DEF Same
<1>29. Seen(r) = [s EXCEPT !.a = p.bus_data]
  BY <1>28, <1>21, SeenFields DEF Same, Seen
<1>30. p.bus_data = Manual!Peek(m, Manual!PeekWord(m, at))
  BY <1>17, <1>21, <1>1, SeenFields, InCore DEF Same, OperandsAt, Begins
<1>31. Seen(r) = [s EXCEPT !.a = Manual!Peek(m, Manual!PeekWord(m, at))]
  BY <1>29, <1>30, <1>17
<1> QED BY <1>24, <1>31, <1>30, <1>17, <1>22, <1>23, MeetsBoth

(* LD (nn),HL. *)
LEMMA Does_ld_nn_hl ==
  ASSUME NEW e, NEW m, NEW place, NEW at, Begins(e, m, place, at), e.instr = "ld_nn_hl",
         NEW d, NEW l, After4(e, m, d, l),
         NEW p, Typed(p), Same(d, p, {"nmi_latched"}), NEW int, NEW port
  PROVE  Meets(Execute("ld_nn_hl", p, int), l, Table(e, m, place, at, port))
<1>1. /\ Typed(e) /\ Shaped(e) /\ e.opcode \in Byte /\ ByteMemory(m)
      /\ index_pair(e) \in {"hl", "ix", "iy"}
  BY CoreTypes DEF Begins, index_pair
<1>2. "ld_nn_hl" = DecodeBase(e.opcode)
  BY DEF Begins
<1>3. /\ X(e.opcode) = 0
      /\ Z(e.opcode) = 2
      /\ Y(e.opcode) = 4
  BY <1>1, <1>2, MapPlace
<1>4. Manual!OperandBytes(e.opcode) = 2
  BY <1>1, <1>3, FieldsType, OpcodeOf DEF Manual!OperandBytes, X, Y, Z
<1>5. PICK d1, m1, d2, m2, d3, m3 :
      /\ OneCycle(e, m, d1, m1)
      /\ OneCycle(d1, m1, d2, m2)
      /\ OneCycle(d2, m2, d3, m3)
      /\ OneCycle(d3, m3, d, l)
  BY DEF After1, After2, After3, After4
<1>6. /\ e.instr = "ld_nn_hl" /\ e.cycle = 0 /\ Shaped(e)
      /\ d1.instr = "ld_nn_hl" /\ d1.cycle = 1 /\ Shaped(d1)
      /\ d2.instr = "ld_nn_hl" /\ d2.cycle = 2 /\ Shaped(d2)
      /\ d3.instr = "ld_nn_hl" /\ d3.cycle = 3 /\ Shaped(d3)
  BY <1>5, Fields DEF OneCycle, Begins
<1>7. CyclesOf["ld_nn_hl"] = LoadCycles("ld_nn_hl") /\ HooksOf["ld_nn_hl"] = LoadHooks("ld_nn_hl")
  BY GroupCycles, GroupHooks DEF Instrs, LoadInstrs
<1>8. /\ Enters(e, "mem_read", "at_pc", "to_tmp_low")
      /\ Enters(d1, "mem_read", "at_pc", "to_tmp_high")
      /\ Enters(d2, "mem_write", "l_at_tmp", "none")
      /\ Enters(d3, "mem_write", "h_at_tmp", "none")
  BY <1>6, <1>7 DEF Enters, LoadCycles, LoadHooks, Operand, Called, AtPcTo, AtPopTo, On, Idle,
     Read, Write,
       IoIn, IoOut, Idle1, Idle2, Idle4, Idle5, Idle7
<1>9. PICK f1 :
      /\ Same(e, f1, {"bus_addr", "bus_data", "pc"})
      /\ f1.bus_addr = e.pc
      /\ f1.bus_data = Manual!Peek(m, e.pc)
      /\ f1.bus_data \in Byte
      /\ m1 = m
      /\ f1.pc = Plus(e.pc, 1)
      /\ d1 = Put(Exit("to_tmp_low", f1), "cycle", e.cycle + 1)
  BY <1>5, <1>8, AtPcReads
<1>10. /\ Same(e, d1, {"bus_addr", "bus_data", "pc", "tmp", "cycle"})
       /\ d1.bus_addr = e.pc
       /\ d1.bus_data = Manual!Peek(m, e.pc)
       /\ d1.pc = Plus(e.pc, 1)
       /\ d1.tmp = WithLow(e.tmp, Manual!Peek(m, e.pc))
       /\ m1 = m
  BY <1>6, <1>9, Leaves, InCore DEF Same
<1>11. PICK f2 :
       /\ Same(d1, f2, {"bus_addr", "bus_data", "pc"})
       /\ f2.bus_addr = d1.pc
       /\ f2.bus_data = Manual!Peek(m1, d1.pc)
       /\ f2.bus_data \in Byte
       /\ m2 = m1
       /\ f2.pc = Plus(d1.pc, 1)
       /\ d2 = Put(Exit("to_tmp_high", f2), "cycle", d1.cycle + 1)
  BY <1>5, <1>8, AtPcReads
<1>12. /\ Same(e, d2, {"bus_addr", "bus_data", "pc", "tmp", "cycle"})
       /\ d2.bus_addr = d1.pc
       /\ d2.bus_data = Manual!Peek(m1, d1.pc)
       /\ d2.pc = Plus(d1.pc, 1)
       /\ d2.tmp = WithHigh(d1.tmp, Manual!Peek(m1, d1.pc))
       /\ m2 = m1
  BY <1>10, <1>6, <1>11, Leaves, InCore DEF Same
<1>13. /\ Same(e, d2, {"bus_addr", "bus_data", "pc", "tmp", "cycle"})
       /\ d2.bus_addr = Plus(e.pc, 1)
       /\ d2.bus_data = Manual!Peek(m, e.pc + 1)
       /\ d2.pc = Plus(e.pc, 2)
       /\ d2.tmp = Manual!PeekWord(m, e.pc)
       /\ m2 = m
  BY <1>10, <1>12, <1>1, BytesAt
<1>14. OperandsOf(e, d2)
  BY <1>13, InCore DEF Same, OperandsOf
<1>15. Low(d2[index_pair(d2)]) = Low(e[index_pair(e)])
  BY <1>14, <1>1, OperandsAgree
<1>16. Enter("l_at_tmp", d2) = Puts(d2, d2.tmp, Low(e[index_pair(e)]))
  BY <1>6, <1>15, EnterWrites
<1>17. PICK f3 :
       /\ Same(d2, f3, {"bus_addr", "bus_data"})
       /\ f3.bus_addr = d2.tmp
       /\ f3.bus_data = Low(e[index_pair(e)])
       /\ d3 = Put(Exit("none", f3), "cycle", d2.cycle + 1)
       /\ m3 = Manual!Poke(m2, d2.tmp, Low(e[index_pair(e)]))
  BY <1>5, <1>8, <1>16, Writes
<1>18. /\ Same(e, d3, {"bus_addr", "bus_data", "pc", "tmp", "cycle"})
       /\ d3.bus_addr = d2.tmp
       /\ d3.bus_data = Low(e[index_pair(e)])
       /\ d3.pc = d2.pc
       /\ d3.tmp = d2.tmp
       /\ m3 = Manual!Poke(m2, d2.tmp, Low(e[index_pair(e)]))
  BY <1>13, <1>6, <1>17, Leaves, InCore DEF Same
<1>19. /\ Same(e, d3, {"bus_addr", "bus_data", "pc", "tmp", "cycle"})
       /\ d3.pc = Plus(e.pc, 2)
       /\ d3.tmp = Manual!PeekWord(m, e.pc)
       /\ d3.bus_addr = Manual!PeekWord(m, e.pc)
       /\ d3.bus_data = Low(e[index_pair(e)])
       /\ m3 = Manual!Poke(m, Manual!PeekWord(m, e.pc), Low(e[index_pair(e)]))
  BY <1>13, <1>18, <1>1, BytesAt
<1>20. OperandsOf(e, d3)
  BY <1>19, InCore DEF Same, OperandsOf
<1>21. High(d3[index_pair(d3)]) = High(e[index_pair(e)])
  BY <1>20, <1>1, OperandsAgree
<1>22. Enter("h_at_tmp", d3) = Puts(d3, Plus(d3.tmp, 1), High(e[index_pair(e)]))
  BY <1>6, <1>21, EnterWrites
<1>23. PICK f4 :
       /\ Same(d3, f4, {"bus_addr", "bus_data"})
       /\ f4.bus_addr = Plus(d3.tmp, 1)
       /\ f4.bus_data = High(e[index_pair(e)])
       /\ d = Put(Exit("none", f4), "cycle", d3.cycle + 1)
       /\ l = Manual!Poke(m3, Plus(d3.tmp, 1), High(e[index_pair(e)]))
  BY <1>5, <1>8, <1>22, Writes
<1>24. /\ Same(e, d, {"bus_addr", "bus_data", "pc", "tmp", "cycle"})
       /\ d.bus_addr = Plus(d3.tmp, 1)
       /\ d.bus_data = High(e[index_pair(e)])
       /\ d.pc = d3.pc
       /\ d.tmp = d3.tmp
       /\ l = Manual!Poke(m3, Plus(d3.tmp, 1), High(e[index_pair(e)]))
  BY <1>19, <1>6, <1>23, Leaves, InCore DEF Same
<1>25. /\ Same(e, d, {"bus_addr", "bus_data", "pc", "tmp", "cycle"})
       /\ d.pc = Plus(e.pc, 2)
       /\ d.tmp = Manual!PeekWord(m, e.pc)
       /\ d.bus_addr = Plus(Manual!PeekWord(m, e.pc), 1)
       /\ d.bus_data = High(e[index_pair(e)])
       /\ l = Manual!Poke(Manual!Poke(m, Manual!PeekWord(m, e.pc), Low(e[index_pair(e)])),
            Plus(Manual!PeekWord(m, e.pc), 1), High(e[index_pair(e)]))
  BY <1>19, <1>24, <1>1, BytesAt
<1>26. /\ Same(e, p, {"bus_addr", "bus_data", "pc", "tmp", "cycle", "nmi_latched"})
       /\ p.pc = Plus(e.pc, 2)
       /\ p.tmp = Manual!PeekWord(m, e.pc)
       /\ p.bus_addr = Plus(Manual!PeekWord(m, e.pc), 1)
       /\ p.bus_data = High(e[index_pair(e)])
       /\ l = Manual!Poke(Manual!Poke(m, Manual!PeekWord(m, e.pc), Low(e[index_pair(e)])),
            Plus(Manual!PeekWord(m, e.pc), 1), High(e[index_pair(e)]))
  BY <1>25, InCore DEF Same
<1>27. PICK s : s = Past(e)
  OBVIOUS
<1>28. s = [Seen(e) EXCEPT !.pc = Plus(e.pc, 2)]
  BY <1>4, <1>27, SeenFields DEF Past, Seen
<1>29. p.pc = Plus(e.pc, 2)
  BY <1>26, <1>1, BytesAt, InCore DEF Same
<1>30. Seen(p) = s /\ \A x \in VisibleFields : s[x] = p[x]
  BY <1>28, <1>26, <1>29, SeenFields DEF Same, Seen
<1>31. Table(e, m, place, at, port) = Manual!Quarter0(s, m, 4, 2, index_pair(e), place, at, e.q)
  BY <1>1, <1>3, <1>27, QuarterOf DEF Table
<1>32. Manual!Quarter0(s, m, 4, 2, index_pair(e), place, at, e.q)
         = Manual!Both(s,
                       Manual!PokeWord(m, Manual!PeekWord(m, at), s[index_pair(e)]))
  BY DEF Manual!Quarter0
<1>33. PICK r : r = Execute("ld_nn_hl", p, int)
  OBVIOUS
<1>34. r = LoadEffect("ld_nn_hl", p)
  BY <1>33, Executes DEF Loads
<1>35. Shaped(p)
  BY CoreTypes
<1>36. r = Put(p, "wz", Plus(p.tmp, 1))
  BY <1>34, <1>35 DEF LoadEffect, MemptrAfterTmp, Put
<1>37. Same(p, r, {"wz"})
  BY <1>36, <1>35, GetPut, InCore DEF Same
<1>38. Seen(r) = s
  BY <1>37, <1>30, SeenFields DEF Same, Seen
<1>39. /\ s[index_pair(e)] = e[index_pair(e)]
       /\ Manual!PeekWord(m, at) = Manual!PeekWord(m, e.pc)
  BY <1>26, <1>30, <1>1, SeenFields, InCore DEF Same, OperandsAt, Begins
<1>40. l = Manual!PokeWord(m, Manual!PeekWord(m, e.pc), e[index_pair(e)])
  BY <1>26, <1>1, BytesAt, PokedWord
<1>41. l = Manual!PokeWord(m, Manual!PeekWord(m, at), s[index_pair(e)])
  BY <1>39, <1>40, <1>26, <1>30, <1>1, SeenFields, InCore DEF Same, OperandsAt, Begins
<1>42. Seen(r) = s
  BY <1>38, <1>39, <1>40, <1>41
<1> QED BY <1>33, <1>42, <1>39, <1>40, <1>41, <1>31, <1>32, MeetsBoth
-----------------------------------------------------------------------------
(***************************************************************************)
(* The instructions that their fetch completes.                            *)
(***************************************************************************)

(* NOP. *)
LEMMA Does_nop ==
  ASSUME NEW e, NEW m, NEW place, NEW at, Begins(e, m, place, at), e.instr = "nop",
         NEW p, Typed(p), Same(e, p, {"nmi_latched"}), NEW int, NEW port
  PROVE  Meets(Execute("nop", p, int), m, Table(e, m, place, at, port))
<1>1. /\ Typed(e) /\ Shaped(e) /\ e.opcode \in Byte /\ ByteMemory(m)
      /\ index_pair(e) \in {"hl", "ix", "iy"}
  BY CoreTypes DEF Begins, index_pair
<1>2. "nop" = DecodeBase(e.opcode)
  BY DEF Begins
<1>3. /\ X(e.opcode) = 0
      /\ Z(e.opcode) = 0
      /\ Y(e.opcode) = 0
  BY <1>1, <1>2, MapPlace
<1>4. Manual!OperandBytes(e.opcode) = 0
  BY <1>1, <1>3, FieldsType, OpcodeOf DEF Manual!OperandBytes, X, Y, Z
<1>5. Same(e, p, {"nmi_latched"})
  OBVIOUS
<1>6. PICK s : s = Past(e)
  OBVIOUS
<1>7. s = [Seen(e) EXCEPT !.pc = Plus(e.pc, 0)]
  BY <1>4, <1>6, SeenFields DEF Past, Seen
<1>8. p.pc = Plus(e.pc, 0)
  BY <1>5, <1>1, BytesAt, InCore DEF Same
<1>9. Seen(p) = s /\ \A x \in VisibleFields : s[x] = p[x]
  BY <1>7, <1>5, <1>8, SeenFields DEF Same, Seen
<1>10. Table(e, m, place, at, port) = Manual!Quarter0(s, m, 0, 0, index_pair(e), place, at, e.q)
  BY <1>1, <1>3, <1>6, QuarterOf DEF Table
<1>11. Manual!Quarter0(s, m, 0, 0, index_pair(e), place, at, e.q)
         = Manual!Both(s,
                       m)
  BY DEF Manual!Quarter0
<1>12. PICK r : r = Execute("nop", p, int)
  OBVIOUS
<1>13. r = p
  BY <1>12, ExecutesNothing DEF Hooked
<1>14. Seen(r) = s
  BY <1>13, <1>9
<1>15. Seen(r) = s
  BY <1>14, <1>5
<1> QED BY <1>12, <1>15, <1>5, <1>10, <1>11, MeetsBoth

(* LD r,r'. *)
LEMMA Does_ld_reg_reg ==
  ASSUME NEW e, NEW m, NEW place, NEW at, Begins(e, m, place, at), e.instr = "ld_reg_reg",
         NEW p, Typed(p), Same(e, p, {"nmi_latched"}), NEW int, NEW port
  PROVE  Meets(Execute("ld_reg_reg", p, int), m, Table(e, m, place, at, port))
<1>1. /\ Typed(e) /\ Shaped(e) /\ e.opcode \in Byte /\ ByteMemory(m)
      /\ index_pair(e) \in {"hl", "ix", "iy"}
  BY CoreTypes DEF Begins, index_pair
<1>2. "ld_reg_reg" = DecodeBase(e.opcode)
  BY DEF Begins
<1>3. /\ X(e.opcode) = 1
      /\ Z(e.opcode) # 6 /\ Y(e.opcode) # 6
      /\ Z(e.opcode) \in 0 .. 7 /\ Y(e.opcode) \in 0 .. 7
      /\ e.opcode # 118
  BY <1>1, <1>2, MapPlace
<1>4. Manual!OperandBytes(e.opcode) = 0
  BY <1>1, <1>3, FieldsType, OpcodeOf DEF Manual!OperandBytes, X, Y, Z
<1>5. Same(e, p, {"nmi_latched"})
  OBVIOUS
<1>6. PICK s : s = Past(e)
  OBVIOUS
<1>7. s = [Seen(e) EXCEPT !.pc = Plus(e.pc, 0)]
  BY <1>4, <1>6, SeenFields DEF Past, Seen
<1>8. p.pc = Plus(e.pc, 0)
  BY <1>5, <1>1, BytesAt, InCore DEF Same
<1>9. Seen(p) = s /\ \A x \in VisibleFields : s[x] = p[x]
  BY <1>7, <1>5, <1>8, SeenFields DEF Same, Seen
<1>10. Table(e, m, place, at, port)
         = Manual!Both(Manual!WithReg(s, Y(e.opcode), index_pair(e),
           Manual!Reg(s, Z(e.opcode), index_pair(e))),
                       m)
  BY <1>1, <1>3, <1>6, QuarterOf DEF Table, Manual!Stores, Manual!Operand
<1>11. OperandsOf(e, p) /\ p.opcode = e.opcode
  BY <1>5, InCore DEF Same, OperandsOf
<1>12. /\ index_pair(p) = index_pair(e) /\ pair_rp(p) = pair_rp(e)
       /\ \A w : Slot(p, w) = Slot(e, w)
  BY <1>11, OperandsAgree
<1>13. Slot(p, Z(e.opcode)) \in Byte /\
         Manual!Reg(s, Z(e.opcode), index_pair(e)) = Slot(p, Z(e.opcode))
  BY <1>11, <1>12, <1>3, <1>9, SlotIsReg
<1>14. Y(p.opcode) = Y(e.opcode) /\ Z(p.opcode) = Z(e.opcode) /\ Y(e.opcode) \in 0 .. 7 /\
         Y(e.opcode) # 6
  BY <1>11, <1>12, <1>13, <1>3
<1>15. PICK r : r = Execute("ld_reg_reg", p, int)
  OBVIOUS
<1>16. r = LoadEffect("ld_reg_reg", p)
  BY <1>15, Executes DEF Loads
<1>17. r = WithSlot(p, Y(p.opcode), Slot(p, Z(p.opcode)))
  BY <1>16, <1>11, <1>12, <1>13, <1>14 DEF LoadEffect
<1>18. Seen(r) = Manual!WithReg(s, Y(e.opcode), index_pair(e),
         Manual!Reg(s, Z(e.opcode), index_pair(e)))
  BY <1>17, <1>9, <1>11, <1>12, <1>13, <1>14, SlotMeans
<1>19. Seen(r) = Manual!WithReg(s, Y(e.opcode), index_pair(e),
         Manual!Reg(s, Z(e.opcode), index_pair(e)))
  BY <1>18, <1>5
<1> QED BY <1>15, <1>19, <1>5, <1>10, MeetsBoth

(* ALU r. *)
LEMMA Does_alu_reg ==
  ASSUME NEW e, NEW m, NEW place, NEW at, Begins(e, m, place, at), e.instr = "alu_reg",
         NEW p, Typed(p), Same(e, p, {"nmi_latched"}), NEW int, NEW port
  PROVE  Meets(Execute("alu_reg", p, int), m, Table(e, m, place, at, port))
<1>1. /\ Typed(e) /\ Shaped(e) /\ e.opcode \in Byte /\ ByteMemory(m)
      /\ index_pair(e) \in {"hl", "ix", "iy"}
  BY CoreTypes DEF Begins, index_pair
<1>2. "alu_reg" = DecodeBase(e.opcode)
  BY DEF Begins
<1>3. /\ X(e.opcode) = 2
      /\ Z(e.opcode) # 6
      /\ Z(e.opcode) \in 0 .. 7
  BY <1>1, <1>2, MapPlace
<1>4. Manual!OperandBytes(e.opcode) = 0
  BY <1>1, <1>3, FieldsType, OpcodeOf DEF Manual!OperandBytes, X, Y, Z
<1>5. Same(e, p, {"nmi_latched"})
  OBVIOUS
<1>6. PICK s : s = Past(e)
  OBVIOUS
<1>7. s = [Seen(e) EXCEPT !.pc = Plus(e.pc, 0)]
  BY <1>4, <1>6, SeenFields DEF Past, Seen
<1>8. p.pc = Plus(e.pc, 0)
  BY <1>5, <1>1, BytesAt, InCore DEF Same
<1>9. Seen(p) = s /\ \A x \in VisibleFields : s[x] = p[x]
  BY <1>7, <1>5, <1>8, SeenFields DEF Same, Seen
<1>10. Table(e, m, place, at, port)
         = Manual!Both(Manual!Accumulates(s,
           Manual!alu_operation(Y(e.opcode), s.a, s.f, Manual!Reg(s, Z(e.opcode), index_pair(e)))),
                       m)
  BY <1>1, <1>3, <1>6, QuarterOf DEF Table, Manual!Operand
<1>11. OperandsOf(e, p) /\ p.opcode = e.opcode
  BY <1>5, InCore DEF Same, OperandsOf
<1>12. /\ index_pair(p) = index_pair(e) /\ pair_rp(p) = pair_rp(e)
       /\ \A w : Slot(p, w) = Slot(e, w)
  BY <1>11, OperandsAgree
<1>13. Slot(p, Z(e.opcode)) \in Byte /\
         Manual!Reg(s, Z(e.opcode), index_pair(e)) = Slot(p, Z(e.opcode))
  BY <1>11, <1>12, <1>3, <1>9, SlotIsReg
<1>14. Y(p.opcode) = Y(e.opcode) /\ Z(p.opcode) = Z(e.opcode) /\ s.a = p.a /\ s.f = p.f /\ Shaped(p)
  BY <1>11, <1>12, <1>13, <1>9, SeenFields, CoreTypes
<1>15. \A which, a, f, value : Manual!alu_operation(which, a, f, value)
         = Alu!alu_operation(which, a, f, value)
  BY SameArithmetic
<1>16. PICK r : r = Execute("alu_reg", p, int)
  OBVIOUS
<1>17. r = ArithmeticEffect("alu_reg", p)
  BY <1>16, Executes DEF Arithmetics
<1>18. r = WithOut(p, Alu!alu_operation(Y(p.opcode), p.a, p.f, Slot(p, Z(p.opcode))))
  BY <1>17, <1>11, <1>12, <1>13, <1>14, <1>15 DEF ArithmeticEffect, AluOperation
<1>19. Seen(r) = Manual!Accumulates(s,
         Manual!alu_operation(Y(e.opcode), s.a, s.f, Manual!Reg(s, Z(e.opcode), index_pair(e))))
  BY <1>18, <1>9, <1>11, <1>12, <1>13, <1>14, <1>15, SeenOut
<1>20. Seen(r) = Manual!Accumulates(s,
         Manual!alu_operation(Y(e.opcode), s.a, s.f, Manual!Reg(s, Z(e.opcode), index_pair(e))))
  BY <1>19, <1>5
<1> QED BY <1>16, <1>20, <1>5, <1>10, MeetsBoth

(* INC r. *)
LEMMA Does_inc_reg ==
  ASSUME NEW e, NEW m, NEW place, NEW at, Begins(e, m, place, at), e.instr = "inc_reg",
         NEW p, Typed(p), Same(e, p, {"nmi_latched"}), NEW int, NEW port
  PROVE  Meets(Execute("inc_reg", p, int), m, Table(e, m, place, at, port))
<1>1. /\ Typed(e) /\ Shaped(e) /\ e.opcode \in Byte /\ ByteMemory(m)
      /\ index_pair(e) \in {"hl", "ix", "iy"}
  BY CoreTypes DEF Begins, index_pair
<1>2. "inc_reg" = DecodeBase(e.opcode)
  BY DEF Begins
<1>3. /\ X(e.opcode) = 0
      /\ Z(e.opcode) = 4
      /\ Y(e.opcode) # 6
      /\ Y(e.opcode) \in 0 .. 7
  BY <1>1, <1>2, MapPlace
<1>4. Manual!OperandBytes(e.opcode) = 0
  BY <1>1, <1>3, FieldsType, OpcodeOf DEF Manual!OperandBytes, X, Y, Z
<1>5. Same(e, p, {"nmi_latched"})
  OBVIOUS
<1>6. PICK s : s = Past(e)
  OBVIOUS
<1>7. s = [Seen(e) EXCEPT !.pc = Plus(e.pc, 0)]
  BY <1>4, <1>6, SeenFields DEF Past, Seen
<1>8. p.pc = Plus(e.pc, 0)
  BY <1>5, <1>1, BytesAt, InCore DEF Same
<1>9. Seen(p) = s /\ \A x \in VisibleFields : s[x] = p[x]
  BY <1>7, <1>5, <1>8, SeenFields DEF Same, Seen
<1>10. Table(e, m, place, at, port)
         = Manual!Quarter0(s, m, Y(e.opcode), 4, index_pair(e), place, at, e.q)
  BY <1>1, <1>3, <1>6, QuarterOf DEF Table
<1>11. Manual!Quarter0(s, m, Y(e.opcode), 4, index_pair(e), place, at, e.q)
         = Manual!Both(Manual!WithReg(Manual!Flagged(s,
           Manual!alu_inc(s.f, Manual!Reg(s, Y(e.opcode), index_pair(e))).flags),
         Y(e.opcode), index_pair(e), Manual!alu_inc(s.f, Manual!Reg(s, Y(e.opcode),
         index_pair(e))).value),
                       m)
  BY <1>3 DEF Manual!Quarter0, Manual!Stores, Manual!Operand
<1>12. OperandsOf(e, p) /\ p.opcode = e.opcode
  BY <1>5, InCore DEF Same, OperandsOf
<1>13. /\ index_pair(p) = index_pair(e) /\ pair_rp(p) = pair_rp(e)
       /\ \A w : Slot(p, w) = Slot(e, w)
  BY <1>12, OperandsAgree
<1>14. Slot(p, Y(e.opcode)) \in Byte /\
         Manual!Reg(s, Y(e.opcode), index_pair(e)) = Slot(p, Y(e.opcode))
  BY <1>12, <1>13, <1>3, <1>9, SlotIsReg
<1>15. Y(p.opcode) = Y(e.opcode) /\ s.f = p.f /\ p.f \in SUBSET Alu!Flags /\
         Y(e.opcode) \in 0 .. 7 /\ Y(e.opcode) # 6
  BY <1>12, <1>13, <1>14, <1>9, <1>3, SeenFields, CoreTypes
<1>16. PICK out : out = Alu!alu_inc(p.f, Slot(p, Y(p.opcode)))
  OBVIOUS
<1>17. out.flags \in SUBSET Alu!Flags /\ out.value \in Byte
  BY <1>12, <1>13, <1>14, <1>15, <1>16, ByteOperationsTyped DEF ByteOut
<1>18. \A f, value : Manual!alu_inc(f, value) = Alu!alu_inc(f, value)
  BY SameArithmetic
<1>19. PICK r : r = Execute("inc_reg", p, int)
  OBVIOUS
<1>20. r = ArithmeticEffect("inc_reg", p)
  BY <1>19, Executes DEF Arithmetics
<1>21. r = SlotOut(p, Y(p.opcode), out)
  BY <1>20, <1>12, <1>13, <1>14, <1>15, <1>16, <1>17, <1>18 DEF ArithmeticEffect
<1>22. Seen(r) = Manual!WithReg(Manual!Flagged(s, out.flags), Y(e.opcode), index_pair(e), out.value)
  BY <1>21, <1>9, <1>12, <1>13, <1>14, <1>15, <1>16, <1>17, <1>18, SlotOutMeans
<1>23. out = Manual!alu_inc(s.f, Manual!Reg(s, Y(e.opcode), index_pair(e)))
  BY <1>12, <1>13, <1>14, <1>15, <1>16, <1>17, <1>18, <1>5, <1>9, <1>1, SeenFields, InCore
     DEF Same, OperandsAt, Begins
<1>24. Seen(r) = Manual!WithReg(Manual!Flagged(s,
         Manual!alu_inc(s.f, Manual!Reg(s, Y(e.opcode), index_pair(e))).flags),
         Y(e.opcode), index_pair(e), Manual!alu_inc(s.f, Manual!Reg(s, Y(e.opcode),
         index_pair(e))).value)
  BY <1>22, <1>23, <1>5
<1> QED BY <1>19, <1>24, <1>23, <1>5, <1>10, <1>11, MeetsBoth

(* DEC r. *)
LEMMA Does_dec_reg ==
  ASSUME NEW e, NEW m, NEW place, NEW at, Begins(e, m, place, at), e.instr = "dec_reg",
         NEW p, Typed(p), Same(e, p, {"nmi_latched"}), NEW int, NEW port
  PROVE  Meets(Execute("dec_reg", p, int), m, Table(e, m, place, at, port))
<1>1. /\ Typed(e) /\ Shaped(e) /\ e.opcode \in Byte /\ ByteMemory(m)
      /\ index_pair(e) \in {"hl", "ix", "iy"}
  BY CoreTypes DEF Begins, index_pair
<1>2. "dec_reg" = DecodeBase(e.opcode)
  BY DEF Begins
<1>3. /\ X(e.opcode) = 0
      /\ Z(e.opcode) = 5
      /\ Y(e.opcode) # 6
      /\ Y(e.opcode) \in 0 .. 7
  BY <1>1, <1>2, MapPlace
<1>4. Manual!OperandBytes(e.opcode) = 0
  BY <1>1, <1>3, FieldsType, OpcodeOf DEF Manual!OperandBytes, X, Y, Z
<1>5. Same(e, p, {"nmi_latched"})
  OBVIOUS
<1>6. PICK s : s = Past(e)
  OBVIOUS
<1>7. s = [Seen(e) EXCEPT !.pc = Plus(e.pc, 0)]
  BY <1>4, <1>6, SeenFields DEF Past, Seen
<1>8. p.pc = Plus(e.pc, 0)
  BY <1>5, <1>1, BytesAt, InCore DEF Same
<1>9. Seen(p) = s /\ \A x \in VisibleFields : s[x] = p[x]
  BY <1>7, <1>5, <1>8, SeenFields DEF Same, Seen
<1>10. Table(e, m, place, at, port)
         = Manual!Quarter0(s, m, Y(e.opcode), 5, index_pair(e), place, at, e.q)
  BY <1>1, <1>3, <1>6, QuarterOf DEF Table
<1>11. Manual!Quarter0(s, m, Y(e.opcode), 5, index_pair(e), place, at, e.q)
         = Manual!Both(Manual!WithReg(Manual!Flagged(s,
           Manual!alu_dec(s.f, Manual!Reg(s, Y(e.opcode), index_pair(e))).flags),
         Y(e.opcode), index_pair(e), Manual!alu_dec(s.f, Manual!Reg(s, Y(e.opcode),
         index_pair(e))).value),
                       m)
  BY <1>3 DEF Manual!Quarter0, Manual!Stores, Manual!Operand
<1>12. OperandsOf(e, p) /\ p.opcode = e.opcode
  BY <1>5, InCore DEF Same, OperandsOf
<1>13. /\ index_pair(p) = index_pair(e) /\ pair_rp(p) = pair_rp(e)
       /\ \A w : Slot(p, w) = Slot(e, w)
  BY <1>12, OperandsAgree
<1>14. Slot(p, Y(e.opcode)) \in Byte /\
         Manual!Reg(s, Y(e.opcode), index_pair(e)) = Slot(p, Y(e.opcode))
  BY <1>12, <1>13, <1>3, <1>9, SlotIsReg
<1>15. Y(p.opcode) = Y(e.opcode) /\ s.f = p.f /\ p.f \in SUBSET Alu!Flags /\
         Y(e.opcode) \in 0 .. 7 /\ Y(e.opcode) # 6
  BY <1>12, <1>13, <1>14, <1>9, <1>3, SeenFields, CoreTypes
<1>16. PICK out : out = Alu!alu_dec(p.f, Slot(p, Y(p.opcode)))
  OBVIOUS
<1>17. out.flags \in SUBSET Alu!Flags /\ out.value \in Byte
  BY <1>12, <1>13, <1>14, <1>15, <1>16, ByteOperationsTyped DEF ByteOut
<1>18. \A f, value : Manual!alu_dec(f, value) = Alu!alu_dec(f, value)
  BY SameArithmetic
<1>19. PICK r : r = Execute("dec_reg", p, int)
  OBVIOUS
<1>20. r = ArithmeticEffect("dec_reg", p)
  BY <1>19, Executes DEF Arithmetics
<1>21. r = SlotOut(p, Y(p.opcode), out)
  BY <1>20, <1>12, <1>13, <1>14, <1>15, <1>16, <1>17, <1>18 DEF ArithmeticEffect
<1>22. Seen(r) = Manual!WithReg(Manual!Flagged(s, out.flags), Y(e.opcode), index_pair(e), out.value)
  BY <1>21, <1>9, <1>12, <1>13, <1>14, <1>15, <1>16, <1>17, <1>18, SlotOutMeans
<1>23. out = Manual!alu_dec(s.f, Manual!Reg(s, Y(e.opcode), index_pair(e)))
  BY <1>12, <1>13, <1>14, <1>15, <1>16, <1>17, <1>18, <1>5, <1>9, <1>1, SeenFields, InCore
     DEF Same, OperandsAt, Begins
<1>24. Seen(r) = Manual!WithReg(Manual!Flagged(s,
         Manual!alu_dec(s.f, Manual!Reg(s, Y(e.opcode), index_pair(e))).flags),
         Y(e.opcode), index_pair(e), Manual!alu_dec(s.f, Manual!Reg(s, Y(e.opcode),
         index_pair(e))).value)
  BY <1>22, <1>23, <1>5
<1> QED BY <1>19, <1>24, <1>23, <1>5, <1>10, <1>11, MeetsBoth

(* RLCA, RRCA, RLA, RRA. *)
LEMMA Does_rotate_a ==
  ASSUME NEW e, NEW m, NEW place, NEW at, Begins(e, m, place, at), e.instr = "rotate_a",
         NEW p, Typed(p), Same(e, p, {"nmi_latched"}), NEW int, NEW port
  PROVE  Meets(Execute("rotate_a", p, int), m, Table(e, m, place, at, port))
<1>1. /\ Typed(e) /\ Shaped(e) /\ e.opcode \in Byte /\ ByteMemory(m)
      /\ index_pair(e) \in {"hl", "ix", "iy"}
  BY CoreTypes DEF Begins, index_pair
<1>2. "rotate_a" = DecodeBase(e.opcode)
  BY DEF Begins
<1>3. /\ X(e.opcode) = 0
      /\ Z(e.opcode) = 7
      /\ Y(e.opcode) \in 0 .. 3
  BY <1>1, <1>2, MapPlace
<1>4. Manual!OperandBytes(e.opcode) = 0
  BY <1>1, <1>3, FieldsType, OpcodeOf DEF Manual!OperandBytes, X, Y, Z
<1>5. Same(e, p, {"nmi_latched"})
  OBVIOUS
<1>6. PICK s : s = Past(e)
  OBVIOUS
<1>7. s = [Seen(e) EXCEPT !.pc = Plus(e.pc, 0)]
  BY <1>4, <1>6, SeenFields DEF Past, Seen
<1>8. p.pc = Plus(e.pc, 0)
  BY <1>5, <1>1, BytesAt, InCore DEF Same
<1>9. Seen(p) = s /\ \A x \in VisibleFields : s[x] = p[x]
  BY <1>7, <1>5, <1>8, SeenFields DEF Same, Seen
<1>10. Table(e, m, place, at, port)
         = Manual!Quarter0(s, m, Y(e.opcode), 7, index_pair(e), place, at, e.q)
  BY <1>1, <1>3, <1>6, QuarterOf DEF Table
<1>11. Manual!Quarter0(s, m, Y(e.opcode), 7, index_pair(e), place, at, e.q)
         = Manual!Both(Manual!Accumulates(s, Manual!alu_rotate_a(Y(e.opcode), s.a, s.f)),
                       m)
  BY <1>3 DEF Manual!Quarter0
<1>12. OperandsOf(e, p) /\ p.opcode = e.opcode
  BY <1>5, InCore DEF Same, OperandsOf
<1>13. Y(p.opcode) = Y(e.opcode) /\ s.a = p.a /\ s.f = p.f /\ Shaped(p)
  BY <1>12, <1>9, SeenFields, CoreTypes
<1>14. \A which, a, f : Manual!alu_rotate_a(which, a, f) = Alu!alu_rotate_a(which, a, f)
  BY SameArithmetic
<1>15. PICK r : r = Execute("rotate_a", p, int)
  OBVIOUS
<1>16. r = ArithmeticEffect("rotate_a", p)
  BY <1>15, Executes DEF Arithmetics
<1>17. r = WithOut(p, Alu!alu_rotate_a(Y(p.opcode), p.a, p.f))
  BY <1>16, <1>12, <1>13, <1>14 DEF ArithmeticEffect
<1>18. Seen(r) = Manual!Accumulates(s, Manual!alu_rotate_a(Y(e.opcode), s.a, s.f))
  BY <1>17, <1>9, <1>12, <1>13, <1>14, SeenOut
<1>19. Seen(r) = Manual!Accumulates(s, Manual!alu_rotate_a(Y(e.opcode), s.a, s.f))
  BY <1>18, <1>5
<1> QED BY <1>15, <1>19, <1>5, <1>10, <1>11, MeetsBoth

(* DAA. *)
LEMMA Does_daa ==
  ASSUME NEW e, NEW m, NEW place, NEW at, Begins(e, m, place, at), e.instr = "daa",
         NEW p, Typed(p), Same(e, p, {"nmi_latched"}), NEW int, NEW port
  PROVE  Meets(Execute("daa", p, int), m, Table(e, m, place, at, port))
<1>1. /\ Typed(e) /\ Shaped(e) /\ e.opcode \in Byte /\ ByteMemory(m)
      /\ index_pair(e) \in {"hl", "ix", "iy"}
  BY CoreTypes DEF Begins, index_pair
<1>2. "daa" = DecodeBase(e.opcode)
  BY DEF Begins
<1>3. /\ X(e.opcode) = 0
      /\ Z(e.opcode) = 7
      /\ Y(e.opcode) = 4
  BY <1>1, <1>2, MapPlace
<1>4. Manual!OperandBytes(e.opcode) = 0
  BY <1>1, <1>3, FieldsType, OpcodeOf DEF Manual!OperandBytes, X, Y, Z
<1>5. Same(e, p, {"nmi_latched"})
  OBVIOUS
<1>6. PICK s : s = Past(e)
  OBVIOUS
<1>7. s = [Seen(e) EXCEPT !.pc = Plus(e.pc, 0)]
  BY <1>4, <1>6, SeenFields DEF Past, Seen
<1>8. p.pc = Plus(e.pc, 0)
  BY <1>5, <1>1, BytesAt, InCore DEF Same
<1>9. Seen(p) = s /\ \A x \in VisibleFields : s[x] = p[x]
  BY <1>7, <1>5, <1>8, SeenFields DEF Same, Seen
<1>10. Table(e, m, place, at, port) = Manual!Quarter0(s, m, 4, 7, index_pair(e), place, at, e.q)
  BY <1>1, <1>3, <1>6, QuarterOf DEF Table
<1>11. Manual!Quarter0(s, m, 4, 7, index_pair(e), place, at, e.q)
         = Manual!Both(Manual!Accumulates(s, Manual!alu_daa(s.a, s.f)),
                       m)
  BY DEF Manual!Quarter0
<1>12. OperandsOf(e, p) /\ p.opcode = e.opcode
  BY <1>5, InCore DEF Same, OperandsOf
<1>13. Y(p.opcode) = Y(e.opcode) /\ s.a = p.a /\ s.f = p.f /\ Shaped(p)
  BY <1>12, <1>9, SeenFields, CoreTypes
<1>14. \A a, f : Manual!alu_daa(a, f) = Alu!alu_daa(a, f)
  BY SameArithmetic
<1>15. PICK r : r = Execute("daa", p, int)
  OBVIOUS
<1>16. r = ArithmeticEffect("daa", p)
  BY <1>15, Executes DEF Arithmetics
<1>17. r = WithOut(p, Alu!alu_daa(p.a, p.f))
  BY <1>16, <1>12, <1>13, <1>14 DEF ArithmeticEffect
<1>18. Seen(r) = Manual!Accumulates(s, Manual!alu_daa(s.a, s.f))
  BY <1>17, <1>9, <1>12, <1>13, <1>14, SeenOut
<1>19. Seen(r) = Manual!Accumulates(s, Manual!alu_daa(s.a, s.f))
  BY <1>18, <1>5
<1> QED BY <1>15, <1>19, <1>5, <1>10, <1>11, MeetsBoth

(* CPL. *)
LEMMA Does_cpl ==
  ASSUME NEW e, NEW m, NEW place, NEW at, Begins(e, m, place, at), e.instr = "cpl",
         NEW p, Typed(p), Same(e, p, {"nmi_latched"}), NEW int, NEW port
  PROVE  Meets(Execute("cpl", p, int), m, Table(e, m, place, at, port))
<1>1. /\ Typed(e) /\ Shaped(e) /\ e.opcode \in Byte /\ ByteMemory(m)
      /\ index_pair(e) \in {"hl", "ix", "iy"}
  BY CoreTypes DEF Begins, index_pair
<1>2. "cpl" = DecodeBase(e.opcode)
  BY DEF Begins
<1>3. /\ X(e.opcode) = 0
      /\ Z(e.opcode) = 7
      /\ Y(e.opcode) = 5
  BY <1>1, <1>2, MapPlace
<1>4. Manual!OperandBytes(e.opcode) = 0
  BY <1>1, <1>3, FieldsType, OpcodeOf DEF Manual!OperandBytes, X, Y, Z
<1>5. Same(e, p, {"nmi_latched"})
  OBVIOUS
<1>6. PICK s : s = Past(e)
  OBVIOUS
<1>7. s = [Seen(e) EXCEPT !.pc = Plus(e.pc, 0)]
  BY <1>4, <1>6, SeenFields DEF Past, Seen
<1>8. p.pc = Plus(e.pc, 0)
  BY <1>5, <1>1, BytesAt, InCore DEF Same
<1>9. Seen(p) = s /\ \A x \in VisibleFields : s[x] = p[x]
  BY <1>7, <1>5, <1>8, SeenFields DEF Same, Seen
<1>10. Table(e, m, place, at, port) = Manual!Quarter0(s, m, 5, 7, index_pair(e), place, at, e.q)
  BY <1>1, <1>3, <1>6, QuarterOf DEF Table
<1>11. Manual!Quarter0(s, m, 5, 7, index_pair(e), place, at, e.q)
         = Manual!Both([s EXCEPT !.a = Manual!execute_cpl(s.a, s.f).value,
           !.f = Manual!execute_cpl(s.a, s.f).flags],
                       m)
  BY DEF Manual!Quarter0, Manual!Accumulates
<1>12. PICK r : r = Execute("cpl", p, int)
  OBVIOUS
<1>13. r = ArithmeticEffect("cpl", p)
  BY <1>12, Executes DEF Arithmetics
<1>14. Shaped(p)
  BY CoreTypes
<1>15. r = Put(Put(p, "a", Alu!execute_cpl(p.a, p.f).value), "f", Alu!execute_cpl(p.a, p.f).flags)
  BY <1>13, <1>14 DEF ArithmeticEffect, Put
<1>16. /\ Same(p, r, {"a", "f"})
       /\ r["a"] = Alu!execute_cpl(p.a, p.f).value
       /\ r["f"] = Alu!execute_cpl(p.a, p.f).flags
  BY <1>15, <1>14, GetPut, InCore DEF Same
<1>17. Seen(r) = [s EXCEPT !.a = Alu!execute_cpl(p.a, p.f).value,
         !.f = Alu!execute_cpl(p.a, p.f).flags]
  BY <1>16, <1>9, SeenFields DEF Same, Seen
<1>18. \A a, f : Manual!execute_cpl(a, f) = Alu!execute_cpl(a, f)
  BY SameArithmetic
<1>19. Alu!execute_cpl(p.a, p.f) = Manual!execute_cpl(s.a, s.f)
  BY <1>18, <1>5, <1>9, <1>1, SeenFields, InCore DEF Same, OperandsAt, Begins
<1>20. Seen(r) = [s EXCEPT !.a = Manual!execute_cpl(s.a, s.f).value,
         !.f = Manual!execute_cpl(s.a, s.f).flags]
  BY <1>17, <1>19, <1>5
<1> QED BY <1>12, <1>20, <1>19, <1>5, <1>10, <1>11, MeetsBoth

(* SCF. *)
LEMMA Does_scf ==
  ASSUME NEW e, NEW m, NEW place, NEW at, Begins(e, m, place, at), e.instr = "scf",
         NEW p, Typed(p), Same(e, p, {"nmi_latched"}), NEW int, NEW port
  PROVE  Meets(Execute("scf", p, int), m, Table(e, m, place, at, port))
<1>1. /\ Typed(e) /\ Shaped(e) /\ e.opcode \in Byte /\ ByteMemory(m)
      /\ index_pair(e) \in {"hl", "ix", "iy"}
  BY CoreTypes DEF Begins, index_pair
<1>2. "scf" = DecodeBase(e.opcode)
  BY DEF Begins
<1>3. /\ X(e.opcode) = 0
      /\ Z(e.opcode) = 7
      /\ Y(e.opcode) = 6
  BY <1>1, <1>2, MapPlace
<1>4. Manual!OperandBytes(e.opcode) = 0
  BY <1>1, <1>3, FieldsType, OpcodeOf DEF Manual!OperandBytes, X, Y, Z
<1>5. Same(e, p, {"nmi_latched"})
  OBVIOUS
<1>6. PICK s : s = Past(e)
  OBVIOUS
<1>7. s = [Seen(e) EXCEPT !.pc = Plus(e.pc, 0)]
  BY <1>4, <1>6, SeenFields DEF Past, Seen
<1>8. p.pc = Plus(e.pc, 0)
  BY <1>5, <1>1, BytesAt, InCore DEF Same
<1>9. Seen(p) = s /\ \A x \in VisibleFields : s[x] = p[x]
  BY <1>7, <1>5, <1>8, SeenFields DEF Same, Seen
<1>10. Table(e, m, place, at, port) = Manual!Quarter0(s, m, 6, 7, index_pair(e), place, at, e.q)
  BY <1>1, <1>3, <1>6, QuarterOf DEF Table
<1>11. Manual!Quarter0(s, m, 6, 7, index_pair(e), place, at, e.q)
         = Manual!Both(Manual!Flagged(s, Manual!execute_scf(s.a, s.f, e.q)),
                       m)
  BY DEF Manual!Quarter0
<1>12. s.a = p.a /\ s.f = p.f /\ p.q = e.q /\ Shaped(p)
  BY <1>5, <1>9, SeenFields, InCore, CoreTypes DEF Same
<1>13. \A a, f, q : Manual!execute_scf(a, f, q) = Alu!execute_scf(a, f, q)
  BY SameArithmetic
<1>14. PICK r : r = Execute("scf", p, int)
  OBVIOUS
<1>15. r = ArithmeticEffect("scf", p)
  BY <1>14, Executes DEF Arithmetics
<1>16. r = WriteFlags(p, Alu!execute_scf(p.a, p.f, p.q))
  BY <1>15, <1>12, <1>13 DEF ArithmeticEffect
<1>17. Seen(r) = Manual!Flagged(s, Manual!execute_scf(s.a, s.f, e.q))
  BY <1>16, <1>9, <1>12, <1>13, SeenFlags
<1>18. Seen(r) = Manual!Flagged(s, Manual!execute_scf(s.a, s.f, e.q))
  BY <1>17, <1>5
<1> QED BY <1>14, <1>18, <1>5, <1>10, <1>11, MeetsBoth

(* CCF. *)
LEMMA Does_ccf ==
  ASSUME NEW e, NEW m, NEW place, NEW at, Begins(e, m, place, at), e.instr = "ccf",
         NEW p, Typed(p), Same(e, p, {"nmi_latched"}), NEW int, NEW port
  PROVE  Meets(Execute("ccf", p, int), m, Table(e, m, place, at, port))
<1>1. /\ Typed(e) /\ Shaped(e) /\ e.opcode \in Byte /\ ByteMemory(m)
      /\ index_pair(e) \in {"hl", "ix", "iy"}
  BY CoreTypes DEF Begins, index_pair
<1>2. "ccf" = DecodeBase(e.opcode)
  BY DEF Begins
<1>3. /\ X(e.opcode) = 0
      /\ Z(e.opcode) = 7
      /\ Y(e.opcode) = 7
  BY <1>1, <1>2, MapPlace
<1>4. Manual!OperandBytes(e.opcode) = 0
  BY <1>1, <1>3, FieldsType, OpcodeOf DEF Manual!OperandBytes, X, Y, Z
<1>5. Same(e, p, {"nmi_latched"})
  OBVIOUS
<1>6. PICK s : s = Past(e)
  OBVIOUS
<1>7. s = [Seen(e) EXCEPT !.pc = Plus(e.pc, 0)]
  BY <1>4, <1>6, SeenFields DEF Past, Seen
<1>8. p.pc = Plus(e.pc, 0)
  BY <1>5, <1>1, BytesAt, InCore DEF Same
<1>9. Seen(p) = s /\ \A x \in VisibleFields : s[x] = p[x]
  BY <1>7, <1>5, <1>8, SeenFields DEF Same, Seen
<1>10. Table(e, m, place, at, port) = Manual!Quarter0(s, m, 7, 7, index_pair(e), place, at, e.q)
  BY <1>1, <1>3, <1>6, QuarterOf DEF Table
<1>11. Manual!Quarter0(s, m, 7, 7, index_pair(e), place, at, e.q)
         = Manual!Both(Manual!Flagged(s, Manual!execute_ccf(s.a, s.f, e.q)),
                       m)
  BY DEF Manual!Quarter0
<1>12. s.a = p.a /\ s.f = p.f /\ p.q = e.q /\ Shaped(p)
  BY <1>5, <1>9, SeenFields, InCore, CoreTypes DEF Same
<1>13. \A a, f, q : Manual!execute_ccf(a, f, q) = Alu!execute_ccf(a, f, q)
  BY SameArithmetic
<1>14. PICK r : r = Execute("ccf", p, int)
  OBVIOUS
<1>15. r = ArithmeticEffect("ccf", p)
  BY <1>14, Executes DEF Arithmetics
<1>16. r = WriteFlags(p, Alu!execute_ccf(p.a, p.f, p.q))
  BY <1>15, <1>12, <1>13 DEF ArithmeticEffect
<1>17. Seen(r) = Manual!Flagged(s, Manual!execute_ccf(s.a, s.f, e.q))
  BY <1>16, <1>9, <1>12, <1>13, SeenFlags
<1>18. Seen(r) = Manual!Flagged(s, Manual!execute_ccf(s.a, s.f, e.q))
  BY <1>17, <1>5
<1> QED BY <1>14, <1>18, <1>5, <1>10, <1>11, MeetsBoth

(* EX AF,AF'. *)
LEMMA Does_ex_af ==
  ASSUME NEW e, NEW m, NEW place, NEW at, Begins(e, m, place, at), e.instr = "ex_af",
         NEW p, Typed(p), Same(e, p, {"nmi_latched"}), NEW int, NEW port
  PROVE  Meets(Execute("ex_af", p, int), m, Table(e, m, place, at, port))
<1>1. /\ Typed(e) /\ Shaped(e) /\ e.opcode \in Byte /\ ByteMemory(m)
      /\ index_pair(e) \in {"hl", "ix", "iy"}
  BY CoreTypes DEF Begins, index_pair
<1>2. "ex_af" = DecodeBase(e.opcode)
  BY DEF Begins
<1>3. /\ X(e.opcode) = 0
      /\ Z(e.opcode) = 0
      /\ Y(e.opcode) = 1
  BY <1>1, <1>2, MapPlace
<1>4. Manual!OperandBytes(e.opcode) = 0
  BY <1>1, <1>3, FieldsType, OpcodeOf DEF Manual!OperandBytes, X, Y, Z
<1>5. Same(e, p, {"nmi_latched"})
  OBVIOUS
<1>6. PICK s : s = Past(e)
  OBVIOUS
<1>7. s = [Seen(e) EXCEPT !.pc = Plus(e.pc, 0)]
  BY <1>4, <1>6, SeenFields DEF Past, Seen
<1>8. p.pc = Plus(e.pc, 0)
  BY <1>5, <1>1, BytesAt, InCore DEF Same
<1>9. Seen(p) = s /\ \A x \in VisibleFields : s[x] = p[x]
  BY <1>7, <1>5, <1>8, SeenFields DEF Same, Seen
<1>10. Table(e, m, place, at, port) = Manual!Quarter0(s, m, 1, 0, index_pair(e), place, at, e.q)
  BY <1>1, <1>3, <1>6, QuarterOf DEF Table
<1>11. Manual!Quarter0(s, m, 1, 0, index_pair(e), place, at, e.q)
         = Manual!Both([s EXCEPT !.a = s.af_alt.a, !.f = s.af_alt.f,
           !.af_alt = [a |-> s.a, f |-> s.f]],
                       m)
  BY DEF Manual!Quarter0
<1>12. PICK r : r = Execute("ex_af", p, int)
  OBVIOUS
<1>13. r = ExchangeEffect("ex_af", p)
  BY <1>12, Executes DEF Exchanges
<1>14. Shaped(p)
  BY CoreTypes
<1>15. r = Put(Put(Put(p, "a", p.af_alt.a), "f", p.af_alt.f), "af_alt", [a |-> p.a, f |-> p.f])
  BY <1>13, <1>14 DEF ExchangeEffect, Put
<1>16. /\ Same(p, r, {"a", "f", "af_alt"})
       /\ r["a"] = p.af_alt.a
       /\ r["f"] = p.af_alt.f
       /\ r["af_alt"] = [a |-> p.a, f |-> p.f]
  BY <1>15, <1>14, GetPut, InCore DEF Same
<1>17. Seen(r) = [s EXCEPT !.a = p.af_alt.a, !.f = p.af_alt.f, !.af_alt = [a |-> p.a, f |-> p.f]]
  BY <1>16, <1>9, SeenFields DEF Same, Seen
<1>18. /\ p.af_alt = s.af_alt
       /\ p.a = s.a
       /\ p.f = s.f
  BY <1>5, <1>9, <1>1, SeenFields, InCore DEF Same, OperandsAt, Begins
<1>19. Seen(r) = [s EXCEPT !.a = s.af_alt.a, !.f = s.af_alt.f, !.af_alt = [a |-> s.a, f |-> s.f]]
  BY <1>17, <1>18, <1>5
<1> QED BY <1>12, <1>19, <1>18, <1>5, <1>10, <1>11, MeetsBoth

(* EX DE,HL. *)
LEMMA Does_ex_de_hl ==
  ASSUME NEW e, NEW m, NEW place, NEW at, Begins(e, m, place, at), e.instr = "ex_de_hl",
         NEW p, Typed(p), Same(e, p, {"nmi_latched"}), NEW int, NEW port
  PROVE  Meets(Execute("ex_de_hl", p, int), m, Table(e, m, place, at, port))
<1>1. /\ Typed(e) /\ Shaped(e) /\ e.opcode \in Byte /\ ByteMemory(m)
      /\ index_pair(e) \in {"hl", "ix", "iy"}
  BY CoreTypes DEF Begins, index_pair
<1>2. "ex_de_hl" = DecodeBase(e.opcode)
  BY DEF Begins
<1>3. /\ X(e.opcode) = 3
      /\ Z(e.opcode) = 3
      /\ Y(e.opcode) = 5
  BY <1>1, <1>2, MapPlace
<1>4. Manual!OperandBytes(e.opcode) = 0
  BY <1>1, <1>3, FieldsType, OpcodeOf DEF Manual!OperandBytes, X, Y, Z
<1>5. Same(e, p, {"nmi_latched"})
  OBVIOUS
<1>6. PICK s : s = Past(e)
  OBVIOUS
<1>7. s = [Seen(e) EXCEPT !.pc = Plus(e.pc, 0)]
  BY <1>4, <1>6, SeenFields DEF Past, Seen
<1>8. p.pc = Plus(e.pc, 0)
  BY <1>5, <1>1, BytesAt, InCore DEF Same
<1>9. Seen(p) = s /\ \A x \in VisibleFields : s[x] = p[x]
  BY <1>7, <1>5, <1>8, SeenFields DEF Same, Seen
<1>10. Table(e, m, place, at, port) = Manual!Quarter3(s, m, 5, 3, index_pair(e), at, port)
  BY <1>1, <1>3, <1>6, QuarterOf DEF Table
<1>11. Manual!Quarter3(s, m, 5, 3, index_pair(e), at, port)
         = Manual!Both([s EXCEPT !.de = s.hl, !.hl = s.de],
                       m)
  BY DEF Manual!Quarter3
<1>12. PICK r : r = Execute("ex_de_hl", p, int)
  OBVIOUS
<1>13. r = ExchangeEffect("ex_de_hl", p)
  BY <1>12, Executes DEF Exchanges
<1>14. Shaped(p)
  BY CoreTypes
<1>15. r = Put(Put(p, "de", p.hl), "hl", p.de)
  BY <1>13, <1>14 DEF ExchangeEffect, Put
<1>16. /\ Same(p, r, {"de", "hl"})
       /\ r["de"] = p.hl
       /\ r["hl"] = p.de
  BY <1>15, <1>14, GetPut, InCore DEF Same
<1>17. Seen(r) = [s EXCEPT !.de = p.hl, !.hl = p.de]
  BY <1>16, <1>9, SeenFields DEF Same, Seen
<1>18. /\ p.hl = s.hl
       /\ p.de = s.de
  BY <1>5, <1>9, <1>1, SeenFields, InCore DEF Same, OperandsAt, Begins
<1>19. Seen(r) = [s EXCEPT !.de = s.hl, !.hl = s.de]
  BY <1>17, <1>18, <1>5
<1> QED BY <1>12, <1>19, <1>18, <1>5, <1>10, <1>11, MeetsBoth

(* EXX. *)
LEMMA Does_exx ==
  ASSUME NEW e, NEW m, NEW place, NEW at, Begins(e, m, place, at), e.instr = "exx",
         NEW p, Typed(p), Same(e, p, {"nmi_latched"}), NEW int, NEW port
  PROVE  Meets(Execute("exx", p, int), m, Table(e, m, place, at, port))
<1>1. /\ Typed(e) /\ Shaped(e) /\ e.opcode \in Byte /\ ByteMemory(m)
      /\ index_pair(e) \in {"hl", "ix", "iy"}
  BY CoreTypes DEF Begins, index_pair
<1>2. "exx" = DecodeBase(e.opcode)
  BY DEF Begins
<1>3. /\ X(e.opcode) = 3
      /\ Z(e.opcode) = 1
      /\ Y(e.opcode) = 3
  BY <1>1, <1>2, MapPlace
<1>4. Manual!OperandBytes(e.opcode) = 0
  BY <1>1, <1>3, FieldsType, OpcodeOf DEF Manual!OperandBytes, X, Y, Z
<1>5. Same(e, p, {"nmi_latched"})
  OBVIOUS
<1>6. PICK s : s = Past(e)
  OBVIOUS
<1>7. s = [Seen(e) EXCEPT !.pc = Plus(e.pc, 0)]
  BY <1>4, <1>6, SeenFields DEF Past, Seen
<1>8. p.pc = Plus(e.pc, 0)
  BY <1>5, <1>1, BytesAt, InCore DEF Same
<1>9. Seen(p) = s /\ \A x \in VisibleFields : s[x] = p[x]
  BY <1>7, <1>5, <1>8, SeenFields DEF Same, Seen
<1>10. Table(e, m, place, at, port) = Manual!Quarter3(s, m, 3, 1, index_pair(e), at, port)
  BY <1>1, <1>3, <1>6, QuarterOf DEF Table
<1>11. Manual!Quarter3(s, m, 3, 1, index_pair(e), at, port)
         = Manual!Both([s EXCEPT !.bc = s.bc_alt, !.de = s.de_alt, !.hl = s.hl_alt,
           !.bc_alt = s.bc, !.de_alt = s.de, !.hl_alt = s.hl],
                       m)
  BY DEF Manual!Quarter3, Manual!Exchanged
<1>12. PICK r : r = Execute("exx", p, int)
  OBVIOUS
<1>13. r = ExchangeEffect("exx", p)
  BY <1>12, Executes DEF Exchanges
<1>14. Shaped(p)
  BY CoreTypes
<1>15. r = Put(Put(Put(Put(Put(Put(p, "bc", p.bc_alt), "de", p.de_alt), "hl", p.hl_alt), "bc_alt",
         p.bc), "de_alt", p.de), "hl_alt", p.hl)
  BY <1>13, <1>14 DEF ExchangeEffect, Put
<1>16. /\ Same(p, r, {"bc", "de", "hl", "bc_alt", "de_alt", "hl_alt"})
       /\ r["bc"] = p.bc_alt
       /\ r["de"] = p.de_alt
       /\ r["hl"] = p.hl_alt
       /\ r["bc_alt"] = p.bc
       /\ r["de_alt"] = p.de
       /\ r["hl_alt"] = p.hl
  BY <1>15, <1>14, GetPut, InCore DEF Same
<1>17. Seen(r) = [s EXCEPT !.bc = p.bc_alt, !.de = p.de_alt, !.hl = p.hl_alt, !.bc_alt = p.bc,
         !.de_alt = p.de, !.hl_alt = p.hl]
  BY <1>16, <1>9, SeenFields DEF Same, Seen
<1>18. /\ p.bc = s.bc
       /\ p.de = s.de
       /\ p.hl = s.hl
       /\ p.bc_alt = s.bc_alt
       /\ p.de_alt = s.de_alt
       /\ p.hl_alt = s.hl_alt
  BY <1>5, <1>9, <1>1, SeenFields, InCore DEF Same, OperandsAt, Begins
<1>19. Seen(r) = [s EXCEPT !.bc = s.bc_alt, !.de = s.de_alt, !.hl = s.hl_alt, !.bc_alt = s.bc,
         !.de_alt = s.de, !.hl_alt = s.hl]
  BY <1>17, <1>18, <1>5
<1> QED BY <1>12, <1>19, <1>18, <1>5, <1>10, <1>11, MeetsBoth

(* JP (HL). *)
LEMMA Does_jp_hl ==
  ASSUME NEW e, NEW m, NEW place, NEW at, Begins(e, m, place, at), e.instr = "jp_hl",
         NEW p, Typed(p), Same(e, p, {"nmi_latched"}), NEW int, NEW port
  PROVE  Meets(Execute("jp_hl", p, int), m, Table(e, m, place, at, port))
<1>1. /\ Typed(e) /\ Shaped(e) /\ e.opcode \in Byte /\ ByteMemory(m)
      /\ index_pair(e) \in {"hl", "ix", "iy"}
  BY CoreTypes DEF Begins, index_pair
<1>2. "jp_hl" = DecodeBase(e.opcode)
  BY DEF Begins
<1>3. /\ X(e.opcode) = 3
      /\ Z(e.opcode) = 1
      /\ Y(e.opcode) = 5
  BY <1>1, <1>2, MapPlace
<1>4. Manual!OperandBytes(e.opcode) = 0
  BY <1>1, <1>3, FieldsType, OpcodeOf DEF Manual!OperandBytes, X, Y, Z
<1>5. Same(e, p, {"nmi_latched"})
  OBVIOUS
<1>6. PICK s : s = Past(e)
  OBVIOUS
<1>7. s = [Seen(e) EXCEPT !.pc = Plus(e.pc, 0)]
  BY <1>4, <1>6, SeenFields DEF Past, Seen
<1>8. p.pc = Plus(e.pc, 0)
  BY <1>5, <1>1, BytesAt, InCore DEF Same
<1>9. Seen(p) = s /\ \A x \in VisibleFields : s[x] = p[x]
  BY <1>7, <1>5, <1>8, SeenFields DEF Same, Seen
<1>10. Table(e, m, place, at, port) = Manual!Quarter3(s, m, 5, 1, index_pair(e), at, port)
  BY <1>1, <1>3, <1>6, QuarterOf DEF Table
<1>11. Manual!Quarter3(s, m, 5, 1, index_pair(e), at, port)
         = Manual!Both([s EXCEPT !.pc = s[index_pair(e)]],
                       m)
  BY DEF Manual!Quarter3
<1>12. OperandsOf(e, p) /\ p.opcode = e.opcode
  BY <1>5, InCore DEF Same, OperandsOf
<1>13. /\ index_pair(p) = index_pair(e) /\ pair_rp(p) = pair_rp(e)
       /\ \A w : Slot(p, w) = Slot(e, w)
  BY <1>12, OperandsAgree
<1>14. p[index_pair(p)] = s[index_pair(e)] /\ Shaped(p)
  BY <1>12, <1>13, <1>1, <1>9, SeenFields, CoreTypes
<1>15. PICK r : r = Execute("jp_hl", p, int)
  OBVIOUS
<1>16. r = ControlEffect("jp_hl", p)
  BY <1>15, Executes DEF Controls
<1>17. r = Put(p, "pc", p[index_pair(p)])
  BY <1>16, <1>12, <1>13, <1>14 DEF ControlEffect, Put
<1>18. Seen(r) = [s EXCEPT !.pc = s[index_pair(e)]]
  BY <1>17, <1>9, <1>12, <1>13, <1>14, SeenPut, SeenFields, InCore
<1>19. Seen(r) = [s EXCEPT !.pc = s[index_pair(e)]]
  BY <1>18, <1>5
<1> QED BY <1>15, <1>19, <1>5, <1>10, <1>11, MeetsBoth

(* DI. *)
LEMMA Does_di ==
  ASSUME NEW e, NEW m, NEW place, NEW at, Begins(e, m, place, at), e.instr = "di",
         NEW p, Typed(p), Same(e, p, {"nmi_latched"}), NEW int, NEW port
  PROVE  Meets(Execute("di", p, int), m, Table(e, m, place, at, port))
<1>1. /\ Typed(e) /\ Shaped(e) /\ e.opcode \in Byte /\ ByteMemory(m)
      /\ index_pair(e) \in {"hl", "ix", "iy"}
  BY CoreTypes DEF Begins, index_pair
<1>2. "di" = DecodeBase(e.opcode)
  BY DEF Begins
<1>3. /\ X(e.opcode) = 3
      /\ Z(e.opcode) = 3
      /\ Y(e.opcode) = 6
  BY <1>1, <1>2, MapPlace
<1>4. Manual!OperandBytes(e.opcode) = 0
  BY <1>1, <1>3, FieldsType, OpcodeOf DEF Manual!OperandBytes, X, Y, Z
<1>5. Same(e, p, {"nmi_latched"})
  OBVIOUS
<1>6. PICK s : s = Past(e)
  OBVIOUS
<1>7. s = [Seen(e) EXCEPT !.pc = Plus(e.pc, 0)]
  BY <1>4, <1>6, SeenFields DEF Past, Seen
<1>8. p.pc = Plus(e.pc, 0)
  BY <1>5, <1>1, BytesAt, InCore DEF Same
<1>9. Seen(p) = s /\ \A x \in VisibleFields : s[x] = p[x]
  BY <1>7, <1>5, <1>8, SeenFields DEF Same, Seen
<1>10. Table(e, m, place, at, port) = Manual!Quarter3(s, m, 6, 3, index_pair(e), at, port)
  BY <1>1, <1>3, <1>6, QuarterOf DEF Table
<1>11. Manual!Quarter3(s, m, 6, 3, index_pair(e), at, port)
         = Manual!Both(s,
                       m)
  BY DEF Manual!Quarter3
<1>12. PICK r : r = Execute("di", p, int)
  OBVIOUS
<1>13. r = ControlEffect("di", p)
  BY <1>12, Executes DEF Controls
<1>14. Shaped(p)
  BY CoreTypes
<1>15. PICK no : no = FALSE
  OBVIOUS
<1>16. r = Put(Put(p, "iff1", no), "iff2", no)
  BY <1>13, <1>15, <1>14 DEF ControlEffect, Put
<1>17. Same(p, r, {"iff1", "iff2"})
  BY <1>16, <1>14, GetPut, InCore DEF Same
<1>18. Seen(r) = s
  BY <1>17, <1>9, SeenFields DEF Same, Seen
<1>19. Seen(r) = s
  BY <1>18, <1>5
<1> QED BY <1>12, <1>19, <1>5, <1>10, <1>11, MeetsBoth

(* EI. *)
LEMMA Does_ei ==
  ASSUME NEW e, NEW m, NEW place, NEW at, Begins(e, m, place, at), e.instr = "ei",
         NEW p, Typed(p), Same(e, p, {"nmi_latched"}), NEW int, NEW port
  PROVE  Meets(Execute("ei", p, int), m, Table(e, m, place, at, port))
<1>1. /\ Typed(e) /\ Shaped(e) /\ e.opcode \in Byte /\ ByteMemory(m)
      /\ index_pair(e) \in {"hl", "ix", "iy"}
  BY CoreTypes DEF Begins, index_pair
<1>2. "ei" = DecodeBase(e.opcode)
  BY DEF Begins
<1>3. /\ X(e.opcode) = 3
      /\ Z(e.opcode) = 3
      /\ Y(e.opcode) = 7
  BY <1>1, <1>2, MapPlace
<1>4. Manual!OperandBytes(e.opcode) = 0
  BY <1>1, <1>3, FieldsType, OpcodeOf DEF Manual!OperandBytes, X, Y, Z
<1>5. Same(e, p, {"nmi_latched"})
  OBVIOUS
<1>6. PICK s : s = Past(e)
  OBVIOUS
<1>7. s = [Seen(e) EXCEPT !.pc = Plus(e.pc, 0)]
  BY <1>4, <1>6, SeenFields DEF Past, Seen
<1>8. p.pc = Plus(e.pc, 0)
  BY <1>5, <1>1, BytesAt, InCore DEF Same
<1>9. Seen(p) = s /\ \A x \in VisibleFields : s[x] = p[x]
  BY <1>7, <1>5, <1>8, SeenFields DEF Same, Seen
<1>10. Table(e, m, place, at, port) = Manual!Quarter3(s, m, 7, 3, index_pair(e), at, port)
  BY <1>1, <1>3, <1>6, QuarterOf DEF Table
<1>11. Manual!Quarter3(s, m, 7, 3, index_pair(e), at, port)
         = Manual!Both(s,
                       m)
  BY DEF Manual!Quarter3
<1>12. PICK r : r = Execute("ei", p, int)
  OBVIOUS
<1>13. r = ControlEffect("ei", p)
  BY <1>12, Executes DEF Controls
<1>14. Shaped(p)
  BY CoreTypes
<1>15. PICK no : no = TRUE
  OBVIOUS
<1>16. r = Put(Put(Put(p, "iff1", no), "iff2", no), "int_inhibit", no)
  BY <1>13, <1>15, <1>14 DEF ControlEffect, execute_ei, Put
<1>17. Same(p, r, {"iff1", "iff2", "int_inhibit"})
  BY <1>16, <1>14, GetPut, InCore DEF Same
<1>18. Seen(r) = s
  BY <1>17, <1>9, SeenFields DEF Same, Seen
<1>19. Seen(r) = s
  BY <1>18, <1>5
<1> QED BY <1>12, <1>19, <1>5, <1>10, <1>11, MeetsBoth
-----------------------------------------------------------------------------
(***************************************************************************)
(* Loads, exchanges and the stack.                                         *)
(***************************************************************************)

(* LD r,n. *)
LEMMA Does_ld_reg_immediate ==
  ASSUME NEW e, NEW m, NEW place, NEW at, Begins(e, m, place, at), e.instr = "ld_reg_immediate",
         NEW d, NEW l, After1(e, m, d, l),
         NEW p, Typed(p), Same(d, p, {"nmi_latched"}), NEW int, NEW port
  PROVE  Meets(Execute("ld_reg_immediate", p, int), l, Table(e, m, place, at, port))
<1>1. /\ Typed(e) /\ Shaped(e) /\ e.opcode \in Byte /\ ByteMemory(m)
      /\ index_pair(e) \in {"hl", "ix", "iy"}
  BY CoreTypes DEF Begins, index_pair
<1>2. "ld_reg_immediate" = DecodeBase(e.opcode)
  BY DEF Begins
<1>3. /\ X(e.opcode) = 0
      /\ Z(e.opcode) = 6
      /\ Y(e.opcode) \in 0 .. 7 /\ Y(e.opcode) # 6
  BY <1>1, <1>2, MapPlace
<1>4. Manual!OperandBytes(e.opcode) = 1
  BY <1>1, <1>3, FieldsType, OpcodeOf DEF Manual!OperandBytes, X, Y, Z
<1>5. OneCycle(e, m, d, l)
  BY DEF After1
<1>6. e.instr = "ld_reg_immediate" /\ e.cycle = 0 /\ Shaped(e)
  BY <1>5, Fields DEF OneCycle, Begins
<1>7. CyclesOf["ld_reg_immediate"] = LoadCycles("ld_reg_immediate") /\
        HooksOf["ld_reg_immediate"] = LoadHooks("ld_reg_immediate")
  BY GroupCycles, GroupHooks DEF Instrs, LoadInstrs
<1>8. Enters(e, "mem_read", "at_pc", "none")
  BY <1>6, <1>7 DEF Enters, LoadCycles, LoadHooks, Operand, Called, AtPcTo, AtPopTo, On, Idle,
     Read, Write,
       IoIn, IoOut, Idle1, Idle2, Idle4, Idle5, Idle7
<1>9. PICK f1 :
      /\ Same(e, f1, {"bus_addr", "bus_data", "pc"})
      /\ f1.bus_addr = e.pc
      /\ f1.bus_data = Manual!Peek(m, e.pc)
      /\ f1.bus_data \in Byte
      /\ l = m
      /\ f1.pc = Plus(e.pc, 1)
      /\ d = Put(Exit("none", f1), "cycle", e.cycle + 1)
  BY <1>5, <1>8, AtPcReads
<1>10. /\ Same(e, d, {"bus_addr", "bus_data", "pc", "cycle"})
       /\ d.bus_addr = e.pc
       /\ d.bus_data = Manual!Peek(m, e.pc)
       /\ d.pc = Plus(e.pc, 1)
       /\ l = m
  BY <1>6, <1>9, Leaves, InCore DEF Same
<1>11. /\ Same(e, p, {"bus_addr", "bus_data", "pc", "cycle", "nmi_latched"})
       /\ p.bus_addr = e.pc
       /\ p.bus_data = Manual!Peek(m, e.pc)
       /\ p.pc = Plus(e.pc, 1)
       /\ l = m
  BY <1>10, InCore DEF Same
<1>12. PICK s : s = Past(e)
  OBVIOUS
<1>13. s = [Seen(e) EXCEPT !.pc = Plus(e.pc, 1)]
  BY <1>4, <1>12, SeenFields DEF Past, Seen
<1>14. p.pc = Plus(e.pc, 1)
  BY <1>11, <1>1, BytesAt, InCore DEF Same
<1>15. Seen(p) = s /\ \A x \in VisibleFields : s[x] = p[x]
  BY <1>13, <1>11, <1>14, SeenFields DEF Same, Seen
<1>16. Table(e, m, place, at, port)
         = Manual!Quarter0(s, m, Y(e.opcode), 6, index_pair(e), place, at, e.q)
  BY <1>1, <1>3, <1>12, QuarterOf DEF Table
<1>17. Manual!Quarter0(s, m, Y(e.opcode), 6, index_pair(e), place, at, e.q)
         = Manual!Both(Manual!WithReg(s, Y(e.opcode), index_pair(e), Manual!Peek(m, at)),
                       m)
  BY <1>3 DEF Manual!Quarter0, Manual!Stores
<1>18. OperandsOf(e, p) /\ p.opcode = e.opcode
  BY <1>11, InCore DEF Same, OperandsOf
<1>19. /\ index_pair(p) = index_pair(e) /\ pair_rp(p) = pair_rp(e)
       /\ \A w : Slot(p, w) = Slot(e, w)
  BY <1>18, OperandsAgree
<1>20. Y(p.opcode) = Y(e.opcode) /\ Z(p.opcode) = Z(e.opcode)
  BY <1>18, <1>19
<1>21. p.bus_data \in Byte
  BY CoreTypes
<1>22. PICK r : r = Execute("ld_reg_immediate", p, int)
  OBVIOUS
<1>23. r = LoadEffect("ld_reg_immediate", p)
  BY <1>22, Executes DEF Loads
<1>24. r = WithSlot(p, Y(p.opcode), p.bus_data)
  BY <1>23, <1>18, <1>19, <1>20, <1>21 DEF LoadEffect
<1>25. Seen(r) = Manual!WithReg(s, Y(e.opcode), index_pair(e), p.bus_data)
  BY <1>24, <1>15, <1>18, <1>19, <1>20, <1>21, <1>3, SlotMeans
<1>26. p.bus_data = Manual!Peek(m, at)
  BY <1>11, <1>15, <1>1, SeenFields, InCore DEF Same, OperandsAt, Begins
<1>27. Seen(r) = Manual!WithReg(s, Y(e.opcode), index_pair(e), Manual!Peek(m, at))
  BY <1>25, <1>26, <1>11
<1> QED BY <1>22, <1>27, <1>26, <1>11, <1>16, <1>17, MeetsBoth

(* LD r,(HL). *)
LEMMA Does_ld_reg_from_hl ==
  ASSUME NEW e, NEW m, NEW place, NEW at, Begins(e, m, place, at), e.instr = "ld_reg_from_hl",
         NEW d, NEW l, After1(e, m, d, l),
         NEW p, Typed(p), Same(d, p, {"nmi_latched"}), NEW int, NEW port
  PROVE  Meets(Execute("ld_reg_from_hl", p, int), l, Table(e, m, place, at, port))
<1>1. /\ Typed(e) /\ Shaped(e) /\ e.opcode \in Byte /\ ByteMemory(m)
      /\ index_pair(e) \in {"hl", "ix", "iy"}
  BY CoreTypes DEF Begins, index_pair
<1>2. "ld_reg_from_hl" = DecodeBase(e.opcode)
  BY DEF Begins
<1>3. /\ X(e.opcode) = 1
      /\ Z(e.opcode) = 6
      /\ Y(e.opcode) \in 0 .. 7 /\ Y(e.opcode) # 6
      /\ e.opcode # 118
  BY <1>1, <1>2, MapPlace
<1>4. Manual!OperandBytes(e.opcode) = 0
  BY <1>1, <1>3, FieldsType, OpcodeOf DEF Manual!OperandBytes, X, Y, Z
<1>5. Manual!NamesMemory(e.opcode)
  BY <1>1, <1>3 DEF Manual!NamesMemory, X, Y, Z
<1>6. e.index = 0 /\ index_pair(e) = "hl" /\ place = e.hl
  BY <1>5 DEF Begins, index_pair, DD, FD
<1>7. OneCycle(e, m, d, l)
  BY DEF After1
<1>8. e.instr = "ld_reg_from_hl" /\ e.cycle = 0 /\ Shaped(e)
  BY <1>7, Fields DEF OneCycle, Begins
<1>9. CyclesOf["ld_reg_from_hl"] = LoadCycles("ld_reg_from_hl") /\
        HooksOf["ld_reg_from_hl"] = LoadHooks("ld_reg_from_hl")
  BY GroupCycles, GroupHooks DEF Instrs, LoadInstrs
<1>10. Enters(e, "mem_read", "at_hl", "none")
  BY <1>8, <1>9 DEF Enters, LoadCycles, LoadHooks, Operand, Called, AtPcTo, AtPopTo, On, Idle,
     Read, Write,
       IoIn, IoOut, Idle1, Idle2, Idle4, Idle5, Idle7
<1>11. PICK f1 :
       /\ Same(e, f1, {"bus_addr", "bus_data"})
       /\ f1.bus_addr = e.hl
       /\ f1.bus_data = Manual!Peek(m, e.hl)
       /\ f1.bus_data \in Byte
       /\ l = m
       /\ d = Put(Exit("none", f1), "cycle", e.cycle + 1)
  BY <1>7, <1>10, AtHlReads
<1>12. /\ Same(e, d, {"bus_addr", "bus_data", "cycle"})
       /\ d.bus_addr = e.hl
       /\ d.bus_data = Manual!Peek(m, e.hl)
       /\ l = m
  BY <1>8, <1>11, Leaves, InCore DEF Same
<1>13. /\ Same(e, p, {"bus_addr", "bus_data", "cycle", "nmi_latched"})
       /\ p.bus_addr = e.hl
       /\ p.bus_data = Manual!Peek(m, e.hl)
       /\ l = m
  BY <1>12, InCore DEF Same
<1>14. PICK s : s = Past(e)
  OBVIOUS
<1>15. s = [Seen(e) EXCEPT !.pc = Plus(e.pc, 0)]
  BY <1>4, <1>14, SeenFields DEF Past, Seen
<1>16. p.pc = Plus(e.pc, 0)
  BY <1>13, <1>1, BytesAt, InCore DEF Same
<1>17. Seen(p) = s /\ \A x \in VisibleFields : s[x] = p[x]
  BY <1>15, <1>13, <1>16, SeenFields DEF Same, Seen
<1>18. Table(e, m, place, at, port)
         = Manual!Both(Manual!WithReg(s, Y(e.opcode), "hl", Manual!Peek(m, place)),
                       m)
  BY <1>1, <1>6, <1>3, <1>14, QuarterOf DEF Table, Manual!Stores, Manual!Operand
<1>19. OperandsOf(e, p) /\ p.opcode = e.opcode
  BY <1>13, InCore DEF Same, OperandsOf
<1>20. /\ index_pair(p) = index_pair(e) /\ pair_rp(p) = pair_rp(e)
       /\ \A w : Slot(p, w) = Slot(e, w)
  BY <1>19, OperandsAgree
<1>21. Y(p.opcode) = Y(e.opcode) /\ Z(p.opcode) = Z(e.opcode)
  BY <1>19, <1>20
<1>22. p.bus_data \in Byte
  BY CoreTypes
<1>23. PICK r : r = Execute("ld_reg_from_hl", p, int)
  OBVIOUS
<1>24. r = LoadEffect("ld_reg_from_hl", p)
  BY <1>23, Executes DEF Loads
<1>25. r = WithSlot(p, Y(p.opcode), p.bus_data)
  BY <1>24, <1>19, <1>20, <1>21, <1>22 DEF LoadEffect
<1>26. Seen(r) = Manual!WithReg(s, Y(e.opcode), "hl", p.bus_data)
  BY <1>25, <1>17, <1>19, <1>20, <1>21, <1>22, <1>3, <1>6, SlotMeans
<1>27. p.bus_data = Manual!Peek(m, place)
  BY <1>13, <1>17, <1>1, <1>6, SeenFields, InCore DEF Same, OperandsAt, Begins
<1>28. Seen(r) = Manual!WithReg(s, Y(e.opcode), "hl", Manual!Peek(m, place))
  BY <1>26, <1>27, <1>13
<1> QED BY <1>23, <1>28, <1>27, <1>13, <1>18, MeetsBoth

(* LD (HL),r. *)
LEMMA Does_ld_hl_from_reg ==
  ASSUME NEW e, NEW m, NEW place, NEW at, Begins(e, m, place, at), e.instr = "ld_hl_from_reg",
         NEW d, NEW l, After1(e, m, d, l),
         NEW p, Typed(p), Same(d, p, {"nmi_latched"}), NEW int, NEW port
  PROVE  Meets(Execute("ld_hl_from_reg", p, int), l, Table(e, m, place, at, port))
<1>1. /\ Typed(e) /\ Shaped(e) /\ e.opcode \in Byte /\ ByteMemory(m)
      /\ index_pair(e) \in {"hl", "ix", "iy"}
  BY CoreTypes DEF Begins, index_pair
<1>2. "ld_hl_from_reg" = DecodeBase(e.opcode)
  BY DEF Begins
<1>3. /\ X(e.opcode) = 1
      /\ Y(e.opcode) = 6
      /\ Z(e.opcode) \in 0 .. 7 /\ Z(e.opcode) # 6
      /\ e.opcode # 118
  BY <1>1, <1>2, MapPlace
<1>4. Manual!OperandBytes(e.opcode) = 0
  BY <1>1, <1>3, FieldsType, OpcodeOf DEF Manual!OperandBytes, X, Y, Z
<1>5. Manual!NamesMemory(e.opcode)
  BY <1>1, <1>3 DEF Manual!NamesMemory, X, Y, Z
<1>6. e.index = 0 /\ index_pair(e) = "hl" /\ place = e.hl
  BY <1>5 DEF Begins, index_pair, DD, FD
<1>7. OneCycle(e, m, d, l)
  BY DEF After1
<1>8. e.instr = "ld_hl_from_reg" /\ e.cycle = 0 /\ Shaped(e)
  BY <1>7, Fields DEF OneCycle, Begins
<1>9. CyclesOf["ld_hl_from_reg"] = LoadCycles("ld_hl_from_reg") /\
        HooksOf["ld_hl_from_reg"] = LoadHooks("ld_hl_from_reg")
  BY GroupCycles, GroupHooks DEF Instrs, LoadInstrs
<1>10. Enters(e, "mem_write", "reg_to_hl", "none")
  BY <1>8, <1>9 DEF Enters, LoadCycles, LoadHooks, Operand, Called, AtPcTo, AtPopTo, On, Idle,
     Read, Write,
       IoIn, IoOut, Idle1, Idle2, Idle4, Idle5, Idle7
<1>11. Enter("reg_to_hl", e) = Puts(e, e.hl, Slot(e, Z(e.opcode)))
  BY <1>8, EnterWrites
<1>12. PICK f1 :
       /\ Same(e, f1, {"bus_addr", "bus_data"})
       /\ f1.bus_addr = e.hl
       /\ f1.bus_data = Slot(e, Z(e.opcode))
       /\ d = Put(Exit("none", f1), "cycle", e.cycle + 1)
       /\ l = Manual!Poke(m, e.hl, Slot(e, Z(e.opcode)))
  BY <1>7, <1>10, <1>11, Writes
<1>13. /\ Same(e, d, {"bus_addr", "bus_data", "cycle"})
       /\ d.bus_addr = e.hl
       /\ d.bus_data = Slot(e, Z(e.opcode))
       /\ l = Manual!Poke(m, e.hl, Slot(e, Z(e.opcode)))
  BY <1>8, <1>12, Leaves, InCore DEF Same
<1>14. /\ Same(e, p, {"bus_addr", "bus_data", "cycle", "nmi_latched"})
       /\ p.bus_addr = e.hl
       /\ p.bus_data = Slot(e, Z(e.opcode))
       /\ l = Manual!Poke(m, e.hl, Slot(e, Z(e.opcode)))
  BY <1>13, InCore DEF Same
<1>15. PICK s : s = Past(e)
  OBVIOUS
<1>16. s = [Seen(e) EXCEPT !.pc = Plus(e.pc, 0)]
  BY <1>4, <1>15, SeenFields DEF Past, Seen
<1>17. p.pc = Plus(e.pc, 0)
  BY <1>14, <1>1, BytesAt, InCore DEF Same
<1>18. Seen(p) = s /\ \A x \in VisibleFields : s[x] = p[x]
  BY <1>16, <1>14, <1>17, SeenFields DEF Same, Seen
<1>19. Table(e, m, place, at, port)
         = Manual!Both(s,
                       Manual!Poke(m, place, Manual!Reg(s, Z(e.opcode), "hl")))
  BY <1>1, <1>6, <1>3, <1>15, QuarterOf DEF Table, Manual!Stores, Manual!Operand
<1>20. OperandsOf(e, p) /\ p.opcode = e.opcode
  BY <1>14, InCore DEF Same, OperandsOf
<1>21. /\ index_pair(p) = index_pair(e) /\ pair_rp(p) = pair_rp(e)
       /\ \A w : Slot(p, w) = Slot(e, w)
  BY <1>20, OperandsAgree
<1>22. Slot(p, Z(e.opcode)) \in Byte /\ Manual!Reg(s, Z(e.opcode), "hl") = Slot(p, Z(e.opcode))
  BY <1>20, <1>21, <1>3, <1>6, <1>18, SlotIsReg
<1>23. PICK r : r = Execute("ld_hl_from_reg", p, int)
  OBVIOUS
<1>24. r = p
  BY <1>23, ExecutesNothing DEF Hooked
<1>25. Seen(r) = s
  BY <1>24, <1>18
<1>26. l = Manual!Poke(m, place, Manual!Reg(s, Z(e.opcode), "hl"))
  BY <1>14, <1>18, <1>1, <1>6, <1>20, <1>21, <1>22, <1>6, SeenFields, InCore DEF Same, OperandsAt, Begins
<1>27. Seen(r) = s
  BY <1>25, <1>26
<1> QED BY <1>23, <1>27, <1>26, <1>19, MeetsBoth

(* LD (HL),n. *)
LEMMA Does_ld_hl_n ==
  ASSUME NEW e, NEW m, NEW place, NEW at, Begins(e, m, place, at), e.instr = "ld_hl_n",
         NEW d, NEW l, After2(e, m, d, l),
         NEW p, Typed(p), Same(d, p, {"nmi_latched"}), NEW int, NEW port
  PROVE  Meets(Execute("ld_hl_n", p, int), l, Table(e, m, place, at, port))
<1>1. /\ Typed(e) /\ Shaped(e) /\ e.opcode \in Byte /\ ByteMemory(m)
      /\ index_pair(e) \in {"hl", "ix", "iy"}
  BY CoreTypes DEF Begins, index_pair
<1>2. "ld_hl_n" = DecodeBase(e.opcode)
  BY DEF Begins
<1>3. /\ X(e.opcode) = 0
      /\ Z(e.opcode) = 6
      /\ Y(e.opcode) = 6
  BY <1>1, <1>2, MapPlace
<1>4. Manual!OperandBytes(e.opcode) = 1
  BY <1>1, <1>3, FieldsType, OpcodeOf DEF Manual!OperandBytes, X, Y, Z
<1>5. Manual!NamesMemory(e.opcode)
  BY <1>1, <1>3 DEF Manual!NamesMemory, X, Y, Z
<1>6. e.index = 0 /\ index_pair(e) = "hl" /\ place = e.hl
  BY <1>5 DEF Begins, index_pair, DD, FD
<1>7. PICK d1, m1 :
      /\ OneCycle(e, m, d1, m1)
      /\ OneCycle(d1, m1, d, l)
  BY DEF After1, After2
<1>8. /\ e.instr = "ld_hl_n" /\ e.cycle = 0 /\ Shaped(e)
      /\ d1.instr = "ld_hl_n" /\ d1.cycle = 1 /\ Shaped(d1)
  BY <1>7, Fields DEF OneCycle, Begins
<1>9. CyclesOf["ld_hl_n"] = LoadCycles("ld_hl_n") /\ HooksOf["ld_hl_n"] = LoadHooks("ld_hl_n")
  BY GroupCycles, GroupHooks DEF Instrs, LoadInstrs
<1>10. /\ Enters(e, "mem_read", "at_pc", "none")
       /\ Enters(d1, "mem_write", "at_hl", "none")
  BY <1>8, <1>9 DEF Enters, LoadCycles, LoadHooks, Operand, Called, AtPcTo, AtPopTo, On, Idle,
     Read, Write,
       IoIn, IoOut, Idle1, Idle2, Idle4, Idle5, Idle7
<1>11. PICK f1 :
       /\ Same(e, f1, {"bus_addr", "bus_data", "pc"})
       /\ f1.bus_addr = e.pc
       /\ f1.bus_data = Manual!Peek(m, e.pc)
       /\ f1.bus_data \in Byte
       /\ m1 = m
       /\ f1.pc = Plus(e.pc, 1)
       /\ d1 = Put(Exit("none", f1), "cycle", e.cycle + 1)
  BY <1>7, <1>10, AtPcReads
<1>12. /\ Same(e, d1, {"bus_addr", "bus_data", "pc", "cycle"})
       /\ d1.bus_addr = e.pc
       /\ d1.bus_data = Manual!Peek(m, e.pc)
       /\ d1.pc = Plus(e.pc, 1)
       /\ m1 = m
  BY <1>8, <1>11, Leaves, InCore DEF Same
<1>13. Enter("at_hl", d1) = Put(d1, "bus_addr", d1.hl)
  BY <1>8, EnterReads
<1>14. PICK f2 :
       /\ Same(d1, f2, {"bus_addr"})
       /\ f2.bus_addr = d1.hl
       /\ d = Put(Exit("none", f2), "cycle", d1.cycle + 1)
       /\ l = Manual!Poke(m1, d1.hl, d1.bus_data)
  BY <1>7, <1>10, <1>13, KeepsWrites
<1>15. /\ Same(e, d, {"bus_addr", "bus_data", "pc", "cycle"})
       /\ d.bus_addr = d1.hl
       /\ d.bus_data = d1.bus_data
       /\ d.pc = d1.pc
       /\ l = Manual!Poke(m1, d1.hl, d1.bus_data)
  BY <1>12, <1>8, <1>14, Leaves, InCore DEF Same
<1>16. d1.hl = e.hl
  BY <1>12, InCore DEF Same
<1>17. /\ Same(e, d, {"bus_addr", "bus_data", "pc", "cycle"})
       /\ d.bus_data = Manual!Peek(m, e.pc)
       /\ d.pc = Plus(e.pc, 1)
       /\ d.bus_addr = e.hl
       /\ l = Manual!Poke(m, e.hl, Manual!Peek(m, e.pc))
  BY <1>12, <1>15, <1>16, <1>1, BytesAt
<1>18. /\ Same(e, p, {"bus_addr", "bus_data", "pc", "cycle", "nmi_latched"})
       /\ p.bus_data = Manual!Peek(m, e.pc)
       /\ p.pc = Plus(e.pc, 1)
       /\ p.bus_addr = e.hl
       /\ l = Manual!Poke(m, e.hl, Manual!Peek(m, e.pc))
  BY <1>17, InCore DEF Same
<1>19. PICK s : s = Past(e)
  OBVIOUS
<1>20. s = [Seen(e) EXCEPT !.pc = Plus(e.pc, 1)]
  BY <1>4, <1>19, SeenFields DEF Past, Seen
<1>21. p.pc = Plus(e.pc, 1)
  BY <1>18, <1>1, BytesAt, InCore DEF Same
<1>22. Seen(p) = s /\ \A x \in VisibleFields : s[x] = p[x]
  BY <1>20, <1>18, <1>21, SeenFields DEF Same, Seen
<1>23. Table(e, m, place, at, port) = Manual!Quarter0(s, m, 6, 6, index_pair(e), place, at, e.q)
  BY <1>1, <1>3, <1>19, QuarterOf DEF Table
<1>24. Manual!Quarter0(s, m, 6, 6, index_pair(e), place, at, e.q)
         = Manual!Both(s,
                       Manual!Poke(m, place, Manual!Peek(m, at)))
  BY <1>6 DEF Manual!Quarter0, Manual!Stores
<1>25. PICK r : r = Execute("ld_hl_n", p, int)
  OBVIOUS
<1>26. r = p
  BY <1>25, ExecutesNothing DEF Hooked
<1>27. Seen(r) = s
  BY <1>26, <1>22
<1>28. l = Manual!Poke(m, place, Manual!Peek(m, at))
  BY <1>18, <1>22, <1>1, <1>6, SeenFields, InCore DEF Same, OperandsAt, Begins
<1>29. Seen(r) = s
  BY <1>27, <1>28
<1> QED BY <1>25, <1>29, <1>28, <1>23, <1>24, MeetsBoth

(* LD A,(BC). *)
LEMMA Does_ld_a_bc ==
  ASSUME NEW e, NEW m, NEW place, NEW at, Begins(e, m, place, at), e.instr = "ld_a_bc",
         NEW d, NEW l, After1(e, m, d, l),
         NEW p, Typed(p), Same(d, p, {"nmi_latched"}), NEW int, NEW port
  PROVE  Meets(Execute("ld_a_bc", p, int), l, Table(e, m, place, at, port))
<1>1. /\ Typed(e) /\ Shaped(e) /\ e.opcode \in Byte /\ ByteMemory(m)
      /\ index_pair(e) \in {"hl", "ix", "iy"}
  BY CoreTypes DEF Begins, index_pair
<1>2. "ld_a_bc" = DecodeBase(e.opcode)
  BY DEF Begins
<1>3. /\ X(e.opcode) = 0
      /\ Z(e.opcode) = 2
      /\ Y(e.opcode) = 1
  BY <1>1, <1>2, MapPlace
<1>4. Manual!OperandBytes(e.opcode) = 0
  BY <1>1, <1>3, FieldsType, OpcodeOf DEF Manual!OperandBytes, X, Y, Z
<1>5. OneCycle(e, m, d, l)
  BY DEF After1
<1>6. e.instr = "ld_a_bc" /\ e.cycle = 0 /\ Shaped(e)
  BY <1>5, Fields DEF OneCycle, Begins
<1>7. CyclesOf["ld_a_bc"] = LoadCycles("ld_a_bc") /\ HooksOf["ld_a_bc"] = LoadHooks("ld_a_bc")
  BY GroupCycles, GroupHooks DEF Instrs, LoadInstrs
<1>8. Enters(e, "mem_read", "at_bc", "none")
  BY <1>6, <1>7 DEF Enters, LoadCycles, LoadHooks, Operand, Called, AtPcTo, AtPopTo, On, Idle,
     Read, Write,
       IoIn, IoOut, Idle1, Idle2, Idle4, Idle5, Idle7
<1>9. PICK f1 :
      /\ Same(e, f1, {"bus_addr", "bus_data"})
      /\ f1.bus_addr = e.bc
      /\ f1.bus_data = Manual!Peek(m, e.bc)
      /\ f1.bus_data \in Byte
      /\ l = m
      /\ d = Put(Exit("none", f1), "cycle", e.cycle + 1)
  BY <1>5, <1>8, AtBcReads
<1>10. /\ Same(e, d, {"bus_addr", "bus_data", "cycle"})
       /\ d.bus_addr = e.bc
       /\ d.bus_data = Manual!Peek(m, e.bc)
       /\ l = m
  BY <1>6, <1>9, Leaves, InCore DEF Same
<1>11. /\ Same(e, p, {"bus_addr", "bus_data", "cycle", "nmi_latched"})
       /\ p.bus_addr = e.bc
       /\ p.bus_data = Manual!Peek(m, e.bc)
       /\ l = m
  BY <1>10, InCore DEF Same
<1>12. PICK s : s = Past(e)
  OBVIOUS
<1>13. s = [Seen(e) EXCEPT !.pc = Plus(e.pc, 0)]
  BY <1>4, <1>12, SeenFields DEF Past, Seen
<1>14. p.pc = Plus(e.pc, 0)
  BY <1>11, <1>1, BytesAt, InCore DEF Same
<1>15. Seen(p) = s /\ \A x \in VisibleFields : s[x] = p[x]
  BY <1>13, <1>11, <1>14, SeenFields DEF Same, Seen
<1>16. Table(e, m, place, at, port) = Manual!Quarter0(s, m, 1, 2, index_pair(e), place, at, e.q)
  BY <1>1, <1>3, <1>12, QuarterOf DEF Table
<1>17. Manual!Quarter0(s, m, 1, 2, index_pair(e), place, at, e.q)
         = Manual!Both([s EXCEPT !.a = Manual!Peek(m, s.bc)],
                       m)
  BY DEF Manual!Quarter0
<1>18. PICK r : r = Execute("ld_a_bc", p, int)
  OBVIOUS
<1>19. r = LoadEffect("ld_a_bc", p)
  BY <1>18, Executes DEF Loads
<1>20. Shaped(p)
  BY CoreTypes
<1>21. r = Put(Put(p, "a", p.bus_data), "wz", Plus(p.bus_addr, 1))
  BY <1>19, <1>20 DEF LoadEffect, Put
<1>22. /\ Same(p, r, {"a", "wz"})
       /\ r["a"] = p.bus_data
  BY <1>21, <1>20, GetPut, InCore DEF Same
<1>23. Seen(r) = [s EXCEPT !.a = p.bus_data]
  BY <1>22, <1>15, SeenFields DEF Same, Seen
<1>24. p.bus_data = Manual!Peek(m, s.bc)
  BY <1>11, <1>15, <1>1, SeenFields, InCore DEF Same, OperandsAt, Begins
<1>25. Seen(r) = [s EXCEPT !.a = Manual!Peek(m, s.bc)]
  BY <1>23, <1>24, <1>11
<1> QED BY <1>18, <1>25, <1>24, <1>11, <1>16, <1>17, MeetsBoth

(* LD A,(DE). *)
LEMMA Does_ld_a_de ==
  ASSUME NEW e, NEW m, NEW place, NEW at, Begins(e, m, place, at), e.instr = "ld_a_de",
         NEW d, NEW l, After1(e, m, d, l),
         NEW p, Typed(p), Same(d, p, {"nmi_latched"}), NEW int, NEW port
  PROVE  Meets(Execute("ld_a_de", p, int), l, Table(e, m, place, at, port))
<1>1. /\ Typed(e) /\ Shaped(e) /\ e.opcode \in Byte /\ ByteMemory(m)
      /\ index_pair(e) \in {"hl", "ix", "iy"}
  BY CoreTypes DEF Begins, index_pair
<1>2. "ld_a_de" = DecodeBase(e.opcode)
  BY DEF Begins
<1>3. /\ X(e.opcode) = 0
      /\ Z(e.opcode) = 2
      /\ Y(e.opcode) = 3
  BY <1>1, <1>2, MapPlace
<1>4. Manual!OperandBytes(e.opcode) = 0
  BY <1>1, <1>3, FieldsType, OpcodeOf DEF Manual!OperandBytes, X, Y, Z
<1>5. OneCycle(e, m, d, l)
  BY DEF After1
<1>6. e.instr = "ld_a_de" /\ e.cycle = 0 /\ Shaped(e)
  BY <1>5, Fields DEF OneCycle, Begins
<1>7. CyclesOf["ld_a_de"] = LoadCycles("ld_a_de") /\ HooksOf["ld_a_de"] = LoadHooks("ld_a_de")
  BY GroupCycles, GroupHooks DEF Instrs, LoadInstrs
<1>8. Enters(e, "mem_read", "at_de", "none")
  BY <1>6, <1>7 DEF Enters, LoadCycles, LoadHooks, Operand, Called, AtPcTo, AtPopTo, On, Idle,
     Read, Write,
       IoIn, IoOut, Idle1, Idle2, Idle4, Idle5, Idle7
<1>9. PICK f1 :
      /\ Same(e, f1, {"bus_addr", "bus_data"})
      /\ f1.bus_addr = e.de
      /\ f1.bus_data = Manual!Peek(m, e.de)
      /\ f1.bus_data \in Byte
      /\ l = m
      /\ d = Put(Exit("none", f1), "cycle", e.cycle + 1)
  BY <1>5, <1>8, AtDeReads
<1>10. /\ Same(e, d, {"bus_addr", "bus_data", "cycle"})
       /\ d.bus_addr = e.de
       /\ d.bus_data = Manual!Peek(m, e.de)
       /\ l = m
  BY <1>6, <1>9, Leaves, InCore DEF Same
<1>11. /\ Same(e, p, {"bus_addr", "bus_data", "cycle", "nmi_latched"})
       /\ p.bus_addr = e.de
       /\ p.bus_data = Manual!Peek(m, e.de)
       /\ l = m
  BY <1>10, InCore DEF Same
<1>12. PICK s : s = Past(e)
  OBVIOUS
<1>13. s = [Seen(e) EXCEPT !.pc = Plus(e.pc, 0)]
  BY <1>4, <1>12, SeenFields DEF Past, Seen
<1>14. p.pc = Plus(e.pc, 0)
  BY <1>11, <1>1, BytesAt, InCore DEF Same
<1>15. Seen(p) = s /\ \A x \in VisibleFields : s[x] = p[x]
  BY <1>13, <1>11, <1>14, SeenFields DEF Same, Seen
<1>16. Table(e, m, place, at, port) = Manual!Quarter0(s, m, 3, 2, index_pair(e), place, at, e.q)
  BY <1>1, <1>3, <1>12, QuarterOf DEF Table
<1>17. Manual!Quarter0(s, m, 3, 2, index_pair(e), place, at, e.q)
         = Manual!Both([s EXCEPT !.a = Manual!Peek(m, s.de)],
                       m)
  BY DEF Manual!Quarter0
<1>18. PICK r : r = Execute("ld_a_de", p, int)
  OBVIOUS
<1>19. r = LoadEffect("ld_a_de", p)
  BY <1>18, Executes DEF Loads
<1>20. Shaped(p)
  BY CoreTypes
<1>21. r = Put(Put(p, "a", p.bus_data), "wz", Plus(p.bus_addr, 1))
  BY <1>19, <1>20 DEF LoadEffect, Put
<1>22. /\ Same(p, r, {"a", "wz"})
       /\ r["a"] = p.bus_data
  BY <1>21, <1>20, GetPut, InCore DEF Same
<1>23. Seen(r) = [s EXCEPT !.a = p.bus_data]
  BY <1>22, <1>15, SeenFields DEF Same, Seen
<1>24. p.bus_data = Manual!Peek(m, s.de)
  BY <1>11, <1>15, <1>1, SeenFields, InCore DEF Same, OperandsAt, Begins
<1>25. Seen(r) = [s EXCEPT !.a = Manual!Peek(m, s.de)]
  BY <1>23, <1>24, <1>11
<1> QED BY <1>18, <1>25, <1>24, <1>11, <1>16, <1>17, MeetsBoth

(* LD (BC),A. *)
LEMMA Does_ld_bc_a ==
  ASSUME NEW e, NEW m, NEW place, NEW at, Begins(e, m, place, at), e.instr = "ld_bc_a",
         NEW d, NEW l, After1(e, m, d, l),
         NEW p, Typed(p), Same(d, p, {"nmi_latched"}), NEW int, NEW port
  PROVE  Meets(Execute("ld_bc_a", p, int), l, Table(e, m, place, at, port))
<1>1. /\ Typed(e) /\ Shaped(e) /\ e.opcode \in Byte /\ ByteMemory(m)
      /\ index_pair(e) \in {"hl", "ix", "iy"}
  BY CoreTypes DEF Begins, index_pair
<1>2. "ld_bc_a" = DecodeBase(e.opcode)
  BY DEF Begins
<1>3. /\ X(e.opcode) = 0
      /\ Z(e.opcode) = 2
      /\ Y(e.opcode) = 0
  BY <1>1, <1>2, MapPlace
<1>4. Manual!OperandBytes(e.opcode) = 0
  BY <1>1, <1>3, FieldsType, OpcodeOf DEF Manual!OperandBytes, X, Y, Z
<1>5. OneCycle(e, m, d, l)
  BY DEF After1
<1>6. e.instr = "ld_bc_a" /\ e.cycle = 0 /\ Shaped(e)
  BY <1>5, Fields DEF OneCycle, Begins
<1>7. CyclesOf["ld_bc_a"] = LoadCycles("ld_bc_a") /\ HooksOf["ld_bc_a"] = LoadHooks("ld_bc_a")
  BY GroupCycles, GroupHooks DEF Instrs, LoadInstrs
<1>8. Enters(e, "mem_write", "a_at_bc", "none")
  BY <1>6, <1>7 DEF Enters, LoadCycles, LoadHooks, Operand, Called, AtPcTo, AtPopTo, On, Idle,
     Read, Write,
       IoIn, IoOut, Idle1, Idle2, Idle4, Idle5, Idle7
<1>9. Enter("a_at_bc", e) = Puts(e, e.bc, e.a)
  BY <1>6, EnterWrites
<1>10. PICK f1 :
       /\ Same(e, f1, {"bus_addr", "bus_data"})
       /\ f1.bus_addr = e.bc
       /\ f1.bus_data = e.a
       /\ d = Put(Exit("none", f1), "cycle", e.cycle + 1)
       /\ l = Manual!Poke(m, e.bc, e.a)
  BY <1>5, <1>8, <1>9, Writes
<1>11. /\ Same(e, d, {"bus_addr", "bus_data", "cycle"})
       /\ d.bus_addr = e.bc
       /\ d.bus_data = e.a
       /\ l = Manual!Poke(m, e.bc, e.a)
  BY <1>6, <1>10, Leaves, InCore DEF Same
<1>12. /\ Same(e, p, {"bus_addr", "bus_data", "cycle", "nmi_latched"})
       /\ p.bus_addr = e.bc
       /\ p.bus_data = e.a
       /\ l = Manual!Poke(m, e.bc, e.a)
  BY <1>11, InCore DEF Same
<1>13. PICK s : s = Past(e)
  OBVIOUS
<1>14. s = [Seen(e) EXCEPT !.pc = Plus(e.pc, 0)]
  BY <1>4, <1>13, SeenFields DEF Past, Seen
<1>15. p.pc = Plus(e.pc, 0)
  BY <1>12, <1>1, BytesAt, InCore DEF Same
<1>16. Seen(p) = s /\ \A x \in VisibleFields : s[x] = p[x]
  BY <1>14, <1>12, <1>15, SeenFields DEF Same, Seen
<1>17. Table(e, m, place, at, port) = Manual!Quarter0(s, m, 0, 2, index_pair(e), place, at, e.q)
  BY <1>1, <1>3, <1>13, QuarterOf DEF Table
<1>18. Manual!Quarter0(s, m, 0, 2, index_pair(e), place, at, e.q)
         = Manual!Both(s,
                       Manual!Poke(m, s.bc, s.a))
  BY DEF Manual!Quarter0
<1>19. PICK r : r = Execute("ld_bc_a", p, int)
  OBVIOUS
<1>20. r = LoadEffect("ld_bc_a", p)
  BY <1>19, Executes DEF Loads
<1>21. Shaped(p)
  BY CoreTypes
<1>22. r = Put(p, "wz", 256 * p.a + ((Low(p.bus_addr) + 1) % 256))
  BY <1>20, <1>21 DEF LoadEffect, StoredA, Put
<1>23. Same(p, r, {"wz"})
  BY <1>22, <1>21, GetPut, InCore DEF Same
<1>24. Seen(r) = s
  BY <1>23, <1>16, SeenFields DEF Same, Seen
<1>25. l = Manual!Poke(m, s.bc, s.a)
  BY <1>12, <1>16, <1>1, SeenFields, InCore DEF Same, OperandsAt, Begins
<1>26. Seen(r) = s
  BY <1>24, <1>25
<1> QED BY <1>19, <1>26, <1>25, <1>17, <1>18, MeetsBoth

(* LD (DE),A. *)
LEMMA Does_ld_de_a ==
  ASSUME NEW e, NEW m, NEW place, NEW at, Begins(e, m, place, at), e.instr = "ld_de_a",
         NEW d, NEW l, After1(e, m, d, l),
         NEW p, Typed(p), Same(d, p, {"nmi_latched"}), NEW int, NEW port
  PROVE  Meets(Execute("ld_de_a", p, int), l, Table(e, m, place, at, port))
<1>1. /\ Typed(e) /\ Shaped(e) /\ e.opcode \in Byte /\ ByteMemory(m)
      /\ index_pair(e) \in {"hl", "ix", "iy"}
  BY CoreTypes DEF Begins, index_pair
<1>2. "ld_de_a" = DecodeBase(e.opcode)
  BY DEF Begins
<1>3. /\ X(e.opcode) = 0
      /\ Z(e.opcode) = 2
      /\ Y(e.opcode) = 2
  BY <1>1, <1>2, MapPlace
<1>4. Manual!OperandBytes(e.opcode) = 0
  BY <1>1, <1>3, FieldsType, OpcodeOf DEF Manual!OperandBytes, X, Y, Z
<1>5. OneCycle(e, m, d, l)
  BY DEF After1
<1>6. e.instr = "ld_de_a" /\ e.cycle = 0 /\ Shaped(e)
  BY <1>5, Fields DEF OneCycle, Begins
<1>7. CyclesOf["ld_de_a"] = LoadCycles("ld_de_a") /\ HooksOf["ld_de_a"] = LoadHooks("ld_de_a")
  BY GroupCycles, GroupHooks DEF Instrs, LoadInstrs
<1>8. Enters(e, "mem_write", "a_at_de", "none")
  BY <1>6, <1>7 DEF Enters, LoadCycles, LoadHooks, Operand, Called, AtPcTo, AtPopTo, On, Idle,
     Read, Write,
       IoIn, IoOut, Idle1, Idle2, Idle4, Idle5, Idle7
<1>9. Enter("a_at_de", e) = Puts(e, e.de, e.a)
  BY <1>6, EnterWrites
<1>10. PICK f1 :
       /\ Same(e, f1, {"bus_addr", "bus_data"})
       /\ f1.bus_addr = e.de
       /\ f1.bus_data = e.a
       /\ d = Put(Exit("none", f1), "cycle", e.cycle + 1)
       /\ l = Manual!Poke(m, e.de, e.a)
  BY <1>5, <1>8, <1>9, Writes
<1>11. /\ Same(e, d, {"bus_addr", "bus_data", "cycle"})
       /\ d.bus_addr = e.de
       /\ d.bus_data = e.a
       /\ l = Manual!Poke(m, e.de, e.a)
  BY <1>6, <1>10, Leaves, InCore DEF Same
<1>12. /\ Same(e, p, {"bus_addr", "bus_data", "cycle", "nmi_latched"})
       /\ p.bus_addr = e.de
       /\ p.bus_data = e.a
       /\ l = Manual!Poke(m, e.de, e.a)
  BY <1>11, InCore DEF Same
<1>13. PICK s : s = Past(e)
  OBVIOUS
<1>14. s = [Seen(e) EXCEPT !.pc = Plus(e.pc, 0)]
  BY <1>4, <1>13, SeenFields DEF Past, Seen
<1>15. p.pc = Plus(e.pc, 0)
  BY <1>12, <1>1, BytesAt, InCore DEF Same
<1>16. Seen(p) = s /\ \A x \in VisibleFields : s[x] = p[x]
  BY <1>14, <1>12, <1>15, SeenFields DEF Same, Seen
<1>17. Table(e, m, place, at, port) = Manual!Quarter0(s, m, 2, 2, index_pair(e), place, at, e.q)
  BY <1>1, <1>3, <1>13, QuarterOf DEF Table
<1>18. Manual!Quarter0(s, m, 2, 2, index_pair(e), place, at, e.q)
         = Manual!Both(s,
                       Manual!Poke(m, s.de, s.a))
  BY DEF Manual!Quarter0
<1>19. PICK r : r = Execute("ld_de_a", p, int)
  OBVIOUS
<1>20. r = LoadEffect("ld_de_a", p)
  BY <1>19, Executes DEF Loads
<1>21. Shaped(p)
  BY CoreTypes
<1>22. r = Put(p, "wz", 256 * p.a + ((Low(p.bus_addr) + 1) % 256))
  BY <1>20, <1>21 DEF LoadEffect, StoredA, Put
<1>23. Same(p, r, {"wz"})
  BY <1>22, <1>21, GetPut, InCore DEF Same
<1>24. Seen(r) = s
  BY <1>23, <1>16, SeenFields DEF Same, Seen
<1>25. l = Manual!Poke(m, s.de, s.a)
  BY <1>12, <1>16, <1>1, SeenFields, InCore DEF Same, OperandsAt, Begins
<1>26. Seen(r) = s
  BY <1>24, <1>25
<1> QED BY <1>19, <1>26, <1>25, <1>17, <1>18, MeetsBoth

(* LD (nn),A. *)
LEMMA Does_ld_nn_a ==
  ASSUME NEW e, NEW m, NEW place, NEW at, Begins(e, m, place, at), e.instr = "ld_nn_a",
         NEW d, NEW l, After3(e, m, d, l),
         NEW p, Typed(p), Same(d, p, {"nmi_latched"}), NEW int, NEW port
  PROVE  Meets(Execute("ld_nn_a", p, int), l, Table(e, m, place, at, port))
<1>1. /\ Typed(e) /\ Shaped(e) /\ e.opcode \in Byte /\ ByteMemory(m)
      /\ index_pair(e) \in {"hl", "ix", "iy"}
  BY CoreTypes DEF Begins, index_pair
<1>2. "ld_nn_a" = DecodeBase(e.opcode)
  BY DEF Begins
<1>3. /\ X(e.opcode) = 0
      /\ Z(e.opcode) = 2
      /\ Y(e.opcode) = 6
  BY <1>1, <1>2, MapPlace
<1>4. Manual!OperandBytes(e.opcode) = 2
  BY <1>1, <1>3, FieldsType, OpcodeOf DEF Manual!OperandBytes, X, Y, Z
<1>5. PICK d1, m1, d2, m2 :
      /\ OneCycle(e, m, d1, m1)
      /\ OneCycle(d1, m1, d2, m2)
      /\ OneCycle(d2, m2, d, l)
  BY DEF After1, After2, After3
<1>6. /\ e.instr = "ld_nn_a" /\ e.cycle = 0 /\ Shaped(e)
      /\ d1.instr = "ld_nn_a" /\ d1.cycle = 1 /\ Shaped(d1)
      /\ d2.instr = "ld_nn_a" /\ d2.cycle = 2 /\ Shaped(d2)
  BY <1>5, Fields DEF OneCycle, Begins
<1>7. CyclesOf["ld_nn_a"] = LoadCycles("ld_nn_a") /\ HooksOf["ld_nn_a"] = LoadHooks("ld_nn_a")
  BY GroupCycles, GroupHooks DEF Instrs, LoadInstrs
<1>8. /\ Enters(e, "mem_read", "at_pc", "to_tmp_low")
      /\ Enters(d1, "mem_read", "at_pc", "to_tmp_high")
      /\ Enters(d2, "mem_write", "a_at_tmp", "none")
  BY <1>6, <1>7 DEF Enters, LoadCycles, LoadHooks, Operand, Called, AtPcTo, AtPopTo, On, Idle,
     Read, Write,
       IoIn, IoOut, Idle1, Idle2, Idle4, Idle5, Idle7
<1>9. PICK f1 :
      /\ Same(e, f1, {"bus_addr", "bus_data", "pc"})
      /\ f1.bus_addr = e.pc
      /\ f1.bus_data = Manual!Peek(m, e.pc)
      /\ f1.bus_data \in Byte
      /\ m1 = m
      /\ f1.pc = Plus(e.pc, 1)
      /\ d1 = Put(Exit("to_tmp_low", f1), "cycle", e.cycle + 1)
  BY <1>5, <1>8, AtPcReads
<1>10. /\ Same(e, d1, {"bus_addr", "bus_data", "pc", "tmp", "cycle"})
       /\ d1.bus_addr = e.pc
       /\ d1.bus_data = Manual!Peek(m, e.pc)
       /\ d1.pc = Plus(e.pc, 1)
       /\ d1.tmp = WithLow(e.tmp, Manual!Peek(m, e.pc))
       /\ m1 = m
  BY <1>6, <1>9, Leaves, InCore DEF Same
<1>11. PICK f2 :
       /\ Same(d1, f2, {"bus_addr", "bus_data", "pc"})
       /\ f2.bus_addr = d1.pc
       /\ f2.bus_data = Manual!Peek(m1, d1.pc)
       /\ f2.bus_data \in Byte
       /\ m2 = m1
       /\ f2.pc = Plus(d1.pc, 1)
       /\ d2 = Put(Exit("to_tmp_high", f2), "cycle", d1.cycle + 1)
  BY <1>5, <1>8, AtPcReads
<1>12. /\ Same(e, d2, {"bus_addr", "bus_data", "pc", "tmp", "cycle"})
       /\ d2.bus_addr = d1.pc
       /\ d2.bus_data = Manual!Peek(m1, d1.pc)
       /\ d2.pc = Plus(d1.pc, 1)
       /\ d2.tmp = WithHigh(d1.tmp, Manual!Peek(m1, d1.pc))
       /\ m2 = m1
  BY <1>10, <1>6, <1>11, Leaves, InCore DEF Same
<1>13. /\ Same(e, d2, {"bus_addr", "bus_data", "pc", "tmp", "cycle"})
       /\ d2.bus_addr = Plus(e.pc, 1)
       /\ d2.bus_data = Manual!Peek(m, e.pc + 1)
       /\ d2.pc = Plus(e.pc, 2)
       /\ d2.tmp = Manual!PeekWord(m, e.pc)
       /\ m2 = m
  BY <1>10, <1>12, <1>1, BytesAt
<1>14. Enter("a_at_tmp", d2) = Puts(d2, d2.tmp, d2.a)
  BY <1>6, EnterWrites
<1>15. PICK f3 :
       /\ Same(d2, f3, {"bus_addr", "bus_data"})
       /\ f3.bus_addr = d2.tmp
       /\ f3.bus_data = d2.a
       /\ d = Put(Exit("none", f3), "cycle", d2.cycle + 1)
       /\ l = Manual!Poke(m2, d2.tmp, d2.a)
  BY <1>5, <1>8, <1>14, Writes
<1>16. /\ Same(e, d, {"bus_addr", "bus_data", "pc", "tmp", "cycle"})
       /\ d.bus_addr = d2.tmp
       /\ d.bus_data = d2.a
       /\ d.pc = d2.pc
       /\ d.tmp = d2.tmp
       /\ l = Manual!Poke(m2, d2.tmp, d2.a)
  BY <1>13, <1>6, <1>15, Leaves, InCore DEF Same
<1>17. d2.a = e.a
  BY <1>13, InCore DEF Same
<1>18. /\ Same(e, d, {"bus_addr", "bus_data", "pc", "tmp", "cycle"})
       /\ d.pc = Plus(e.pc, 2)
       /\ d.tmp = Manual!PeekWord(m, e.pc)
       /\ d.bus_addr = Manual!PeekWord(m, e.pc)
       /\ d.bus_data = e.a
       /\ l = Manual!Poke(m, Manual!PeekWord(m, e.pc), e.a)
  BY <1>13, <1>16, <1>17, <1>1, BytesAt
<1>19. /\ Same(e, p, {"bus_addr", "bus_data", "pc", "tmp", "cycle", "nmi_latched"})
       /\ p.pc = Plus(e.pc, 2)
       /\ p.tmp = Manual!PeekWord(m, e.pc)
       /\ p.bus_addr = Manual!PeekWord(m, e.pc)
       /\ p.bus_data = e.a
       /\ l = Manual!Poke(m, Manual!PeekWord(m, e.pc), e.a)
  BY <1>18, InCore DEF Same
<1>20. PICK s : s = Past(e)
  OBVIOUS
<1>21. s = [Seen(e) EXCEPT !.pc = Plus(e.pc, 2)]
  BY <1>4, <1>20, SeenFields DEF Past, Seen
<1>22. p.pc = Plus(e.pc, 2)
  BY <1>19, <1>1, BytesAt, InCore DEF Same
<1>23. Seen(p) = s /\ \A x \in VisibleFields : s[x] = p[x]
  BY <1>21, <1>19, <1>22, SeenFields DEF Same, Seen
<1>24. Table(e, m, place, at, port) = Manual!Quarter0(s, m, 6, 2, index_pair(e), place, at, e.q)
  BY <1>1, <1>3, <1>20, QuarterOf DEF Table
<1>25. Manual!Quarter0(s, m, 6, 2, index_pair(e), place, at, e.q)
         = Manual!Both(s,
                       Manual!Poke(m, Manual!PeekWord(m, at), s.a))
  BY DEF Manual!Quarter0
<1>26. PICK r : r = Execute("ld_nn_a", p, int)
  OBVIOUS
<1>27. r = LoadEffect("ld_nn_a", p)
  BY <1>26, Executes DEF Loads
<1>28. Shaped(p)
  BY CoreTypes
<1>29. r = Put(p, "wz", 256 * p.a + ((Low(p.bus_addr) + 1) % 256))
  BY <1>27, <1>28 DEF LoadEffect, StoredA, Put
<1>30. Same(p, r, {"wz"})
  BY <1>29, <1>28, GetPut, InCore DEF Same
<1>31. Seen(r) = s
  BY <1>30, <1>23, SeenFields DEF Same, Seen
<1>32. l = Manual!Poke(m, Manual!PeekWord(m, at), s.a)
  BY <1>19, <1>23, <1>1, SeenFields, InCore DEF Same, OperandsAt, Begins
<1>33. Seen(r) = s
  BY <1>31, <1>32
<1> QED BY <1>26, <1>33, <1>32, <1>24, <1>25, MeetsBoth

(* LD rp,nn. *)
LEMMA Does_ld_rp_nn ==
  ASSUME NEW e, NEW m, NEW place, NEW at, Begins(e, m, place, at), e.instr = "ld_rp_nn",
         NEW d, NEW l, After2(e, m, d, l),
         NEW p, Typed(p), Same(d, p, {"nmi_latched"}), NEW int, NEW port
  PROVE  Meets(Execute("ld_rp_nn", p, int), l, Table(e, m, place, at, port))
<1>1. /\ Typed(e) /\ Shaped(e) /\ e.opcode \in Byte /\ ByteMemory(m)
      /\ index_pair(e) \in {"hl", "ix", "iy"}
  BY CoreTypes DEF Begins, index_pair
<1>2. "ld_rp_nn" = DecodeBase(e.opcode)
  BY DEF Begins
<1>3. /\ X(e.opcode) = 0
      /\ Z(e.opcode) = 1
      /\ Y(e.opcode) % 2 = 0
      /\ Y(e.opcode) \in 0 .. 7
  BY <1>1, <1>2, MapPlace
<1>4. Manual!OperandBytes(e.opcode) = 2
  BY <1>1, <1>3, FieldsType, OpcodeOf DEF Manual!OperandBytes, X, Y, Z
<1>5. PICK pair : pair = pair_rp(e) /\ pair \in {"bc", "de", "hl", "ix", "iy", "sp"}
  BY <1>1, PairNamed
<1>6. PICK d1, m1 :
      /\ OneCycle(e, m, d1, m1)
      /\ OneCycle(d1, m1, d, l)
  BY DEF After1, After2
<1>7. /\ e.instr = "ld_rp_nn" /\ e.cycle = 0 /\ Shaped(e)
      /\ d1.instr = "ld_rp_nn" /\ d1.cycle = 1 /\ Shaped(d1)
  BY <1>6, Fields DEF OneCycle, Begins
<1>8. CyclesOf["ld_rp_nn"] = LoadCycles("ld_rp_nn") /\ HooksOf["ld_rp_nn"] = LoadHooks("ld_rp_nn")
  BY GroupCycles, GroupHooks DEF Instrs, LoadInstrs
<1>9. /\ Enters(e, "mem_read", "at_pc", "to_tmp_low")
      /\ Enters(d1, "mem_read", "at_pc", "to_tmp_high")
  BY <1>7, <1>8 DEF Enters, LoadCycles, LoadHooks, Operand, Called, AtPcTo, AtPopTo, On, Idle,
     Read, Write,
       IoIn, IoOut, Idle1, Idle2, Idle4, Idle5, Idle7
<1>10. PICK f1 :
       /\ Same(e, f1, {"bus_addr", "bus_data", "pc"})
       /\ f1.bus_addr = e.pc
       /\ f1.bus_data = Manual!Peek(m, e.pc)
       /\ f1.bus_data \in Byte
       /\ m1 = m
       /\ f1.pc = Plus(e.pc, 1)
       /\ d1 = Put(Exit("to_tmp_low", f1), "cycle", e.cycle + 1)
  BY <1>6, <1>9, AtPcReads
<1>11. /\ Same(e, d1, {"bus_addr", "bus_data", "pc", "tmp", "cycle"})
       /\ d1.bus_addr = e.pc
       /\ d1.bus_data = Manual!Peek(m, e.pc)
       /\ d1.pc = Plus(e.pc, 1)
       /\ d1.tmp = WithLow(e.tmp, Manual!Peek(m, e.pc))
       /\ m1 = m
  BY <1>5, <1>7, <1>10, Leaves, InCore DEF Same
<1>12. PICK f2 :
       /\ Same(d1, f2, {"bus_addr", "bus_data", "pc"})
       /\ f2.bus_addr = d1.pc
       /\ f2.bus_data = Manual!Peek(m1, d1.pc)
       /\ f2.bus_data \in Byte
       /\ l = m1
       /\ f2.pc = Plus(d1.pc, 1)
       /\ d = Put(Exit("to_tmp_high", f2), "cycle", d1.cycle + 1)
  BY <1>6, <1>9, AtPcReads
<1>13. /\ Same(e, d, {"bus_addr", "bus_data", "pc", "tmp", "cycle"})
       /\ d.bus_addr = d1.pc
       /\ d.bus_data = Manual!Peek(m1, d1.pc)
       /\ d.pc = Plus(d1.pc, 1)
       /\ d.tmp = WithHigh(d1.tmp, Manual!Peek(m1, d1.pc))
       /\ l = m1
  BY <1>11, <1>5, <1>7, <1>12, Leaves, InCore DEF Same
<1>14. /\ Same(e, d, {"bus_addr", "bus_data", "pc", "tmp", "cycle"})
       /\ d.bus_addr = Plus(e.pc, 1)
       /\ d.bus_data = Manual!Peek(m, e.pc + 1)
       /\ d.pc = Plus(e.pc, 2)
       /\ d.tmp = Manual!PeekWord(m, e.pc)
       /\ l = m
  BY <1>11, <1>13, <1>1, BytesAt, <1>5
<1>15. /\ Same(e, p, {"bus_addr", "bus_data", "pc", "tmp", "cycle", "nmi_latched"})
       /\ p.bus_addr = Plus(e.pc, 1)
       /\ p.bus_data = Manual!Peek(m, e.pc + 1)
       /\ p.pc = Plus(e.pc, 2)
       /\ p.tmp = Manual!PeekWord(m, e.pc)
       /\ l = m
  BY <1>14, <1>5, InCore DEF Same
<1>16. PICK s : s = Past(e)
  OBVIOUS
<1>17. s = [Seen(e) EXCEPT !.pc = Plus(e.pc, 2)]
  BY <1>4, <1>16, SeenFields DEF Past, Seen
<1>18. p.pc = Plus(e.pc, 2)
  BY <1>15, <1>1, BytesAt, InCore DEF Same
<1>19. Seen(p) = s /\ \A x \in VisibleFields : s[x] = p[x]
  BY <1>17, <1>15, <1>18, SeenFields DEF Same, Seen
<1>20. Manual!Quarter0(s, m, Y(e.opcode), 1, index_pair(e), place, at, e.q)
         = Manual!Both(Put(s, pair, Manual!PeekWord(m, at)), m)
  BY <1>1, <1>3, <1>5, RowsOfPairs
<1>21. Table(e, m, place, at, port)
         = Manual!Quarter0(s, m, Y(e.opcode), 1, index_pair(e), place, at, e.q)
  BY <1>1, <1>3, <1>16, QuarterOf DEF Table
<1>22. Manual!Quarter0(s, m, Y(e.opcode), 1, index_pair(e), place, at, e.q)
         = Manual!Both([s EXCEPT ![pair] = Manual!PeekWord(m, at)],
                       m)
  BY <1>20 DEF Put
<1>23. OperandsOf(e, p) /\ p.opcode = e.opcode
  BY <1>15, InCore DEF Same, OperandsOf
<1>24. /\ index_pair(p) = index_pair(e) /\ pair_rp(p) = pair_rp(e)
       /\ \A w : Slot(p, w) = Slot(e, w)
  BY <1>23, OperandsAgree
<1>25. pair_rp(p) = pair
  BY <1>23, <1>24, <1>5
<1>26. PICK r : r = Execute("ld_rp_nn", p, int)
  OBVIOUS
<1>27. r = LoadEffect("ld_rp_nn", p)
  BY <1>26, Executes DEF Loads
<1>28. r = Put(p, pair, p.tmp)
  BY <1>27, <1>23, <1>24, <1>25 DEF LoadEffect, Put
<1>29. Seen(r) = [s EXCEPT ![pair] = p.tmp]
  BY <1>28, <1>19, <1>23, <1>24, <1>25, <1>5, PairMeans
<1>30. p.tmp = Manual!PeekWord(m, at)
  BY <1>15, <1>19, <1>1, SeenFields, InCore DEF Same, OperandsAt, Begins
<1>31. Seen(r) = [s EXCEPT ![pair] = Manual!PeekWord(m, at)]
  BY <1>29, <1>30, <1>15
<1> QED BY <1>26, <1>31, <1>30, <1>15, <1>21, <1>22, MeetsBoth

(* LD SP,HL. *)
LEMMA Does_ld_sp_hl ==
  ASSUME NEW e, NEW m, NEW place, NEW at, Begins(e, m, place, at), e.instr = "ld_sp_hl",
         NEW d, NEW l, After1(e, m, d, l),
         NEW p, Typed(p), Same(d, p, {"nmi_latched"}), NEW int, NEW port
  PROVE  Meets(Execute("ld_sp_hl", p, int), l, Table(e, m, place, at, port))
<1>1. /\ Typed(e) /\ Shaped(e) /\ e.opcode \in Byte /\ ByteMemory(m)
      /\ index_pair(e) \in {"hl", "ix", "iy"}
  BY CoreTypes DEF Begins, index_pair
<1>2. "ld_sp_hl" = DecodeBase(e.opcode)
  BY DEF Begins
<1>3. /\ X(e.opcode) = 3
      /\ Z(e.opcode) = 1
      /\ Y(e.opcode) = 7
  BY <1>1, <1>2, MapPlace
<1>4. Manual!OperandBytes(e.opcode) = 0
  BY <1>1, <1>3, FieldsType, OpcodeOf DEF Manual!OperandBytes, X, Y, Z
<1>5. OneCycle(e, m, d, l)
  BY DEF After1
<1>6. e.instr = "ld_sp_hl" /\ e.cycle = 0 /\ Shaped(e)
  BY <1>5, Fields DEF OneCycle, Begins
<1>7. CyclesOf["ld_sp_hl"] = LoadCycles("ld_sp_hl") /\ HooksOf["ld_sp_hl"] = LoadHooks("ld_sp_hl")
  BY GroupCycles, GroupHooks DEF Instrs, LoadInstrs
<1>8. Enters(e, "idle2", "none", "none")
  BY <1>6, <1>7 DEF Enters, LoadCycles, LoadHooks, Operand, Called, AtPcTo, AtPopTo, On, Idle,
     Read, Write,
       IoIn, IoOut, Idle1, Idle2, Idle4, Idle5, Idle7
<1>9. d = Put(Exit("none", e), "cycle", e.cycle + 1) /\ l = m
  BY <1>5, <1>8, Idles DEF IdleCycles
<1>10. /\ Same(e, d, {"cycle"})
       /\ l = m
  BY <1>6, <1>9, Leaves, InCore DEF Same
<1>11. /\ Same(e, p, {"cycle", "nmi_latched"})
       /\ l = m
  BY <1>10, InCore DEF Same
<1>12. PICK s : s = Past(e)
  OBVIOUS
<1>13. s = [Seen(e) EXCEPT !.pc = Plus(e.pc, 0)]
  BY <1>4, <1>12, SeenFields DEF Past, Seen
<1>14. p.pc = Plus(e.pc, 0)
  BY <1>11, <1>1, BytesAt, InCore DEF Same
<1>15. Seen(p) = s /\ \A x \in VisibleFields : s[x] = p[x]
  BY <1>13, <1>11, <1>14, SeenFields DEF Same, Seen
<1>16. Table(e, m, place, at, port) = Manual!Quarter3(s, m, 7, 1, index_pair(e), at, port)
  BY <1>1, <1>3, <1>12, QuarterOf DEF Table
<1>17. Manual!Quarter3(s, m, 7, 1, index_pair(e), at, port)
         = Manual!Both([s EXCEPT !.sp = s[index_pair(e)]],
                       m)
  BY DEF Manual!Quarter3
<1>18. OperandsOf(e, p) /\ p.opcode = e.opcode
  BY <1>11, InCore DEF Same, OperandsOf
<1>19. /\ index_pair(p) = index_pair(e) /\ pair_rp(p) = pair_rp(e)
       /\ \A w : Slot(p, w) = Slot(e, w)
  BY <1>18, OperandsAgree
<1>20. p[index_pair(p)] = s[index_pair(e)]
  BY <1>18, <1>19, <1>15, <1>1, SeenFields
<1>21. PICK r : r = Execute("ld_sp_hl", p, int)
  OBVIOUS
<1>22. r = LoadEffect("ld_sp_hl", p)
  BY <1>21, Executes DEF Loads
<1>23. r = Put(p, "sp", p[index_pair(p)])
  BY <1>22, <1>18, <1>19, <1>20 DEF LoadEffect, Put
<1>24. Seen(r) = [s EXCEPT !.sp = s[index_pair(e)]]
  BY <1>23, <1>15, <1>18, <1>19, <1>20, PairMeans
<1>25. Seen(r) = [s EXCEPT !.sp = s[index_pair(e)]]
  BY <1>24, <1>11
<1> QED BY <1>21, <1>25, <1>11, <1>16, <1>17, MeetsBoth

(* LD HL,(nn). *)
LEMMA Does_ld_hl_nn ==
  ASSUME NEW e, NEW m, NEW place, NEW at, Begins(e, m, place, at), e.instr = "ld_hl_nn",
         NEW d, NEW l, After4(e, m, d, l),
         NEW p, Typed(p), Same(d, p, {"nmi_latched"}), NEW int, NEW port
  PROVE  Meets(Execute("ld_hl_nn", p, int), l, Table(e, m, place, at, port))
<1>1. /\ Typed(e) /\ Shaped(e) /\ e.opcode \in Byte /\ ByteMemory(m)
      /\ index_pair(e) \in {"hl", "ix", "iy"}
  BY CoreTypes DEF Begins, index_pair
<1>2. "ld_hl_nn" = DecodeBase(e.opcode)
  BY DEF Begins
<1>3. /\ X(e.opcode) = 0
      /\ Z(e.opcode) = 2
      /\ Y(e.opcode) = 5
  BY <1>1, <1>2, MapPlace
<1>4. Manual!OperandBytes(e.opcode) = 2
  BY <1>1, <1>3, FieldsType, OpcodeOf DEF Manual!OperandBytes, X, Y, Z
<1>5. PICK pair : pair = index_pair(e) /\ pair \in {"hl", "ix", "iy"}
  BY <1>1, PairNamed
<1>6. PICK d1, m1, d2, m2, d3, m3 :
      /\ OneCycle(e, m, d1, m1)
      /\ OneCycle(d1, m1, d2, m2)
      /\ OneCycle(d2, m2, d3, m3)
      /\ OneCycle(d3, m3, d, l)
  BY DEF After1, After2, After3, After4
<1>7. /\ e.instr = "ld_hl_nn" /\ e.cycle = 0 /\ Shaped(e)
      /\ d1.instr = "ld_hl_nn" /\ d1.cycle = 1 /\ Shaped(d1)
      /\ d2.instr = "ld_hl_nn" /\ d2.cycle = 2 /\ Shaped(d2)
      /\ d3.instr = "ld_hl_nn" /\ d3.cycle = 3 /\ Shaped(d3)
  BY <1>6, Fields DEF OneCycle, Begins
<1>8. CyclesOf["ld_hl_nn"] = LoadCycles("ld_hl_nn") /\ HooksOf["ld_hl_nn"] = LoadHooks("ld_hl_nn")
  BY GroupCycles, GroupHooks DEF Instrs, LoadInstrs
<1>9. /\ Enters(e, "mem_read", "at_pc", "to_tmp_low")
      /\ Enters(d1, "mem_read", "at_pc", "to_tmp_high")
      /\ Enters(d2, "mem_read", "at_tmp", "to_l")
      /\ Enters(d3, "mem_read", "at_tmp_high", "none")
  BY <1>7, <1>8 DEF Enters, LoadCycles, LoadHooks, Operand, Called, AtPcTo, AtPopTo, On, Idle,
     Read, Write,
       IoIn, IoOut, Idle1, Idle2, Idle4, Idle5, Idle7
<1>10. PICK f1 :
       /\ Same(e, f1, {"bus_addr", "bus_data", "pc"})
       /\ f1.bus_addr = e.pc
       /\ f1.bus_data = Manual!Peek(m, e.pc)
       /\ f1.bus_data \in Byte
       /\ m1 = m
       /\ f1.pc = Plus(e.pc, 1)
       /\ d1 = Put(Exit("to_tmp_low", f1), "cycle", e.cycle + 1)
  BY <1>6, <1>9, AtPcReads
<1>11. /\ Same(e, d1, {"bus_addr", "bus_data", "pc", "tmp", "cycle"})
       /\ d1.bus_addr = e.pc
       /\ d1.bus_data = Manual!Peek(m, e.pc)
       /\ d1.pc = Plus(e.pc, 1)
       /\ d1.tmp = WithLow(e.tmp, Manual!Peek(m, e.pc))
       /\ m1 = m
  BY <1>5, <1>7, <1>10, Leaves, InCore DEF Same
<1>12. PICK f2 :
       /\ Same(d1, f2, {"bus_addr", "bus_data", "pc"})
       /\ f2.bus_addr = d1.pc
       /\ f2.bus_data = Manual!Peek(m1, d1.pc)
       /\ f2.bus_data \in Byte
       /\ m2 = m1
       /\ f2.pc = Plus(d1.pc, 1)
       /\ d2 = Put(Exit("to_tmp_high", f2), "cycle", d1.cycle + 1)
  BY <1>6, <1>9, AtPcReads
<1>13. /\ Same(e, d2, {"bus_addr", "bus_data", "pc", "tmp", "cycle"})
       /\ d2.bus_addr = d1.pc
       /\ d2.bus_data = Manual!Peek(m1, d1.pc)
       /\ d2.pc = Plus(d1.pc, 1)
       /\ d2.tmp = WithHigh(d1.tmp, Manual!Peek(m1, d1.pc))
       /\ m2 = m1
  BY <1>11, <1>5, <1>7, <1>12, Leaves, InCore DEF Same
<1>14. /\ Same(e, d2, {"bus_addr", "bus_data", "pc", "tmp", "cycle"})
       /\ d2.bus_addr = Plus(e.pc, 1)
       /\ d2.bus_data = Manual!Peek(m, e.pc + 1)
       /\ d2.pc = Plus(e.pc, 2)
       /\ d2.tmp = Manual!PeekWord(m, e.pc)
       /\ m2 = m
  BY <1>11, <1>13, <1>1, BytesAt, <1>5
<1>15. PICK f3 :
       /\ Same(d2, f3, {"bus_addr", "bus_data"})
       /\ f3.bus_addr = d2.tmp
       /\ f3.bus_data = Manual!Peek(m2, d2.tmp)
       /\ f3.bus_data \in Byte
       /\ m3 = m2
       /\ d3 = Put(Exit("to_l", f3), "cycle", d2.cycle + 1)
  BY <1>6, <1>9, AtTmpReads
<1>16. index_pair(f3) = pair
  BY <1>5, <1>15, <1>14, InCore DEF Same, index_pair, pair_rp, PairField
<1>17. /\ Same(e, d3, {"bus_addr", "bus_data", "pc", "tmp", "cycle", pair})
       /\ d3.bus_addr = d2.tmp
       /\ d3.bus_data = Manual!Peek(m2, d2.tmp)
       /\ d3[pair] = WithLow(d2[pair], Manual!Peek(m2, d2.tmp))
       /\ d3.pc = d2.pc
       /\ d3.tmp = d2.tmp
       /\ m3 = m2
  BY <1>14, <1>5, <1>7, <1>15, LeavesPair, <1>16, <1>5, InCore DEF Same
<1>18. d2[pair] = e[pair]
  BY <1>14, <1>5, InCore DEF Same
<1>19. /\ Same(e, d3, {"bus_addr", "bus_data", "pc", "tmp", "cycle", pair})
       /\ d3.pc = Plus(e.pc, 2)
       /\ d3.tmp = Manual!PeekWord(m, e.pc)
       /\ d3.bus_addr = Manual!PeekWord(m, e.pc)
       /\ d3.bus_data = Manual!Peek(m, Manual!PeekWord(m, e.pc))
       /\ d3[pair] = WithLow(e[pair], Manual!Peek(m, Manual!PeekWord(m, e.pc)))
       /\ m3 = m
  BY <1>14, <1>17, <1>18, <1>1, BytesAt, <1>5
<1>20. PICK f4 :
       /\ Same(d3, f4, {"bus_addr", "bus_data"})
       /\ f4.bus_addr = Plus(d3.tmp, 1)
       /\ f4.bus_data = Manual!Peek(m3, Plus(d3.tmp, 1))
       /\ f4.bus_data \in Byte
       /\ l = m3
       /\ d = Put(Exit("none", f4), "cycle", d3.cycle + 1)
  BY <1>6, <1>9, AtTmpHighReads
<1>21. /\ Same(e, d, {"bus_addr", "bus_data", "pc", "tmp", "cycle", pair})
       /\ d.bus_addr = Plus(d3.tmp, 1)
       /\ d.bus_data = Manual!Peek(m3, Plus(d3.tmp, 1))
       /\ d.pc = d3.pc
       /\ d.tmp = d3.tmp
       /\ d[pair] = d3[pair]
       /\ l = m3
  BY <1>19, <1>5, <1>7, <1>20, Leaves, InCore DEF Same
<1>22. /\ Same(e, d, {"bus_addr", "bus_data", "pc", "tmp", "cycle", pair})
       /\ d.pc = Plus(e.pc, 2)
       /\ d.tmp = Manual!PeekWord(m, e.pc)
       /\ d[pair] = WithLow(e[pair], Manual!Peek(m, Manual!PeekWord(m, e.pc)))
       /\ d.bus_addr = Plus(Manual!PeekWord(m, e.pc), 1)
       /\ d.bus_data = Manual!Peek(m, Plus(Manual!PeekWord(m, e.pc), 1))
       /\ l = m
  BY <1>19, <1>21, <1>1, BytesAt, <1>5
<1>23. /\ Same(e, p, {"bus_addr", "bus_data", "pc", "tmp", "cycle", pair, "nmi_latched"})
       /\ p.pc = Plus(e.pc, 2)
       /\ p.tmp = Manual!PeekWord(m, e.pc)
       /\ p[pair] = WithLow(e[pair], Manual!Peek(m, Manual!PeekWord(m, e.pc)))
       /\ p.bus_addr = Plus(Manual!PeekWord(m, e.pc), 1)
       /\ p.bus_data = Manual!Peek(m, Plus(Manual!PeekWord(m, e.pc), 1))
       /\ l = m
  BY <1>22, <1>5, InCore DEF Same
<1>24. PICK s : s = Past(e)
  OBVIOUS
<1>25. s = [Seen(e) EXCEPT !.pc = Plus(e.pc, 2)]
  BY <1>4, <1>24, SeenFields DEF Past, Seen
<1>26. p.pc = Plus(e.pc, 2)
  BY <1>23, <1>1, BytesAt, InCore DEF Same
<1>27. /\ Seen(p) = [s EXCEPT ![pair] = p[pair]]
       /\ \A x \in VisibleFields \ {pair} : s[x] = p[x]
       /\ s[pair] = e[pair]
  BY <1>25, <1>23, <1>26, <1>5, SeenFields DEF Same, Seen
<1>28. Table(e, m, place, at, port) = Manual!Quarter0(s, m, 5, 2, index_pair(e), place, at, e.q)
  BY <1>1, <1>3, <1>24, QuarterOf DEF Table
<1>29. Manual!Quarter0(s, m, 5, 2, index_pair(e), place, at, e.q)
         = Manual!Both([s EXCEPT ![pair] = Manual!PeekWord(m, Manual!PeekWord(m, at))],
                       m)
  BY <1>5 DEF Manual!Quarter0
<1>30. index_pair(p) = pair
  BY <1>23, <1>5, InCore DEF Same, index_pair
<1>31. Put(p, "wz", Plus(p.tmp, 1))[pair] = p[pair]
  BY <1>5, CoreTypes, GetPut, InCore
<1>32. MemptrAfterTmp(p) = Put(p, "wz", Plus(p.tmp, 1))
  BY DEF MemptrAfterTmp, Put
<1>33. \A v, w : Seen(Put(Put(p, "wz", w), pair, v)) = [Seen(p) EXCEPT ![pair] = v]
  BY <1>5, PutBehind
<1>34. PICK r : r = Execute("ld_hl_nn", p, int)
  OBVIOUS
<1>35. r = LoadEffect("ld_hl_nn", p)
  BY <1>34, Executes DEF Loads
<1>36. r = Put(Put(p, "wz", Plus(p.tmp, 1)), pair, WithHigh(p[pair], p.bus_data))
  BY <1>35, <1>30, <1>31, <1>32, <1>33 DEF LoadEffect, Put
<1>37. Seen(r) = [Seen(p) EXCEPT ![pair] = WithHigh(p[pair], p.bus_data)]
  BY <1>36, <1>27, <1>30, <1>31, <1>32, <1>33, <1>33
<1>38. \A w \in Word : WithHigh(WithLow(e[pair], Manual!Peek(m, w)), Manual!Peek(m, Plus(w, 1)))
                        = Manual!PeekWord(m, w)
  BY <1>1, <1>5, CoreTypes, Places, WordsRead
<1>39. WithHigh(p[pair], p.bus_data) = Manual!PeekWord(m, Manual!PeekWord(m, at))
  BY <1>38, <1>23, <1>27, <1>1, SeenFields, InCore, <1>5, BytesAt DEF Same, OperandsAt, Begins
<1>40. Seen(r) = [s EXCEPT ![pair] = Manual!PeekWord(m, Manual!PeekWord(m, at))]
  BY <1>37, <1>39, <1>23, <1>27, <1>23
<1> QED BY <1>34, <1>40, <1>39, <1>23, <1>27, <1>23, <1>28, <1>29, MeetsBoth

(* PUSH rp. *)
LEMMA Does_push ==
  ASSUME NEW e, NEW m, NEW place, NEW at, Begins(e, m, place, at), e.instr = "push",
         NEW d, NEW l, After3(e, m, d, l),
         NEW p, Typed(p), Same(d, p, {"nmi_latched"}), NEW int, NEW port
  PROVE  Meets(Execute("push", p, int), l, Table(e, m, place, at, port))
<1>1. /\ Typed(e) /\ Shaped(e) /\ e.opcode \in Byte /\ ByteMemory(m)
      /\ index_pair(e) \in {"hl", "ix", "iy"}
  BY CoreTypes DEF Begins, index_pair
<1>2. "push" = DecodeBase(e.opcode)
  BY DEF Begins
<1>3. /\ X(e.opcode) = 3
      /\ Z(e.opcode) = 5
      /\ Y(e.opcode) \in {0, 2, 4, 6}
      /\ Y(e.opcode) # 1
  BY <1>1, <1>2, MapPlace
<1>4. Manual!OperandBytes(e.opcode) = 0
  BY <1>1, <1>3, FieldsType, OpcodeOf DEF Manual!OperandBytes, X, Y, Z
<1>5. PICK word : word = PairOf(e, pair_rp2(e))
  OBVIOUS
<1>6. PICK d1, m1, d2, m2 :
      /\ OneCycle(e, m, d1, m1)
      /\ OneCycle(d1, m1, d2, m2)
      /\ OneCycle(d2, m2, d, l)
  BY DEF After1, After2, After3
<1>7. /\ e.instr = "push" /\ e.cycle = 0 /\ Shaped(e)
      /\ d1.instr = "push" /\ d1.cycle = 1 /\ Shaped(d1)
      /\ d2.instr = "push" /\ d2.cycle = 2 /\ Shaped(d2)
  BY <1>6, Fields DEF OneCycle, Begins
<1>8. CyclesOf["push"] = LoadCycles("push") /\ HooksOf["push"] = LoadHooks("push")
  BY GroupCycles, GroupHooks DEF Instrs, LoadInstrs
<1>9. /\ Enters(e, "idle1", "none", "none")
      /\ Enters(d1, "mem_write", "push_pair_high", "none")
      /\ Enters(d2, "mem_write", "push_pair_low", "none")
  BY <1>7, <1>8 DEF Enters, LoadCycles, LoadHooks, Operand, Called, AtPcTo, AtPopTo, On, Idle,
     Read, Write,
       IoIn, IoOut, Idle1, Idle2, Idle4, Idle5, Idle7
<1>10. d1 = Put(Exit("none", e), "cycle", e.cycle + 1) /\ m1 = m
  BY <1>6, <1>9, Idles DEF IdleCycles
<1>11. /\ Same(e, d1, {"cycle"})
       /\ m1 = m
  BY <1>7, <1>10, Leaves, InCore DEF Same
<1>12. OperandsOf(e, d1) /\ d1.f = e.f
  BY <1>11, InCore DEF Same, OperandsOf
<1>13. High(PairOf(d1, pair_rp2(d1))) = High(PairOf(e, pair_rp2(e)))
  BY <1>12, <1>1, OperandsAgree, PairsAgree
<1>14. Enter("push_pair_high", d1) = Pushed(d1, High(PairOf(e, pair_rp2(e))))
  BY <1>7, <1>13, EnterPushes
<1>15. PICK f2 :
       /\ Same(d1, f2, {"bus_addr", "bus_data", "sp"})
       /\ f2.sp = Plus(d1.sp, -1)
       /\ f2.bus_addr = Plus(d1.sp, -1)
       /\ f2.bus_data = High(PairOf(e, pair_rp2(e)))
       /\ d2 = Put(Exit("none", f2), "cycle", d1.cycle + 1)
       /\ m2 = Manual!Poke(m1, Plus(d1.sp, -1), High(PairOf(e, pair_rp2(e))))
  BY <1>6, <1>9, <1>14, PushWrites
<1>16. /\ Same(e, d2, {"cycle", "bus_addr", "bus_data", "sp"})
       /\ d2.bus_addr = Plus(d1.sp, -1)
       /\ d2.bus_data = High(PairOf(e, pair_rp2(e)))
       /\ d2.sp = Plus(d1.sp, -1)
       /\ m2 = Manual!Poke(m1, Plus(d1.sp, -1), High(PairOf(e, pair_rp2(e))))
  BY <1>11, <1>7, <1>15, Leaves, InCore DEF Same
<1>17. d1.sp = e.sp
  BY <1>11, InCore DEF Same
<1>18. /\ Same(e, d2, {"cycle", "bus_addr", "bus_data", "sp"})
       /\ d2.bus_addr = Plus(e.sp, -1)
       /\ d2.bus_data = High(PairOf(e, pair_rp2(e)))
       /\ d2.sp = Plus(e.sp, -1)
       /\ m2 = Manual!Poke(m, Plus(e.sp, -1), High(PairOf(e, pair_rp2(e))))
  BY <1>11, <1>16, <1>17, <1>1, BytesAt
<1>19. OperandsOf(e, d2) /\ d2.f = e.f
  BY <1>18, InCore DEF Same, OperandsOf
<1>20. Low(PairOf(d2, pair_rp2(d2))) = Low(PairOf(e, pair_rp2(e)))
  BY <1>19, <1>1, OperandsAgree, PairsAgree
<1>21. Enter("push_pair_low", d2) = Pushed(d2, Low(PairOf(e, pair_rp2(e))))
  BY <1>7, <1>20, EnterPushes
<1>22. PICK f3 :
       /\ Same(d2, f3, {"bus_addr", "bus_data", "sp"})
       /\ f3.sp = Plus(d2.sp, -1)
       /\ f3.bus_addr = Plus(d2.sp, -1)
       /\ f3.bus_data = Low(PairOf(e, pair_rp2(e)))
       /\ d = Put(Exit("none", f3), "cycle", d2.cycle + 1)
       /\ l = Manual!Poke(m2, Plus(d2.sp, -1), Low(PairOf(e, pair_rp2(e))))
  BY <1>6, <1>9, <1>21, PushWrites
<1>23. /\ Same(e, d, {"cycle", "bus_addr", "bus_data", "sp"})
       /\ d.bus_addr = Plus(d2.sp, -1)
       /\ d.bus_data = Low(PairOf(e, pair_rp2(e)))
       /\ d.sp = Plus(d2.sp, -1)
       /\ l = Manual!Poke(m2, Plus(d2.sp, -1), Low(PairOf(e, pair_rp2(e))))
  BY <1>18, <1>7, <1>22, Leaves, InCore DEF Same
<1>24. /\ Same(e, d, {"cycle", "bus_addr", "bus_data", "sp"})
       /\ d.bus_addr = Plus(e.sp, -2)
       /\ d.bus_data = Low(PairOf(e, pair_rp2(e)))
       /\ d.sp = Plus(e.sp, -2)
       /\ l = Manual!Poke(Manual!Poke(m, Plus(e.sp, -1), High(PairOf(e, pair_rp2(e)))),
            Plus(e.sp, -2), Low(PairOf(e, pair_rp2(e))))
  BY <1>18, <1>23, <1>1, BytesAt
<1>25. /\ Same(e, p, {"cycle", "bus_addr", "bus_data", "sp", "nmi_latched"})
       /\ p.bus_addr = Plus(e.sp, -2)
       /\ p.bus_data = Low(PairOf(e, pair_rp2(e)))
       /\ p.sp = Plus(e.sp, -2)
       /\ l = Manual!Poke(Manual!Poke(m, Plus(e.sp, -1), High(PairOf(e, pair_rp2(e)))),
            Plus(e.sp, -2), Low(PairOf(e, pair_rp2(e))))
  BY <1>24, InCore DEF Same
<1>26. PICK s : s = Past(e)
  OBVIOUS
<1>27. s = [Seen(e) EXCEPT !.pc = Plus(e.pc, 0)]
  BY <1>4, <1>26, SeenFields DEF Past, Seen
<1>28. p.pc = Plus(e.pc, 0)
  BY <1>25, <1>1, BytesAt, InCore DEF Same
<1>29. /\ Seen(p) = [s EXCEPT !.sp = p.sp]
       /\ \A x \in VisibleFields \ {"sp"} : s[x] = p[x]
       /\ s.sp = e.sp
  BY <1>27, <1>25, <1>28, SeenFields DEF Same, Seen
<1>30. word = IF Y(e.opcode) = 6 THEN Manual!AfWord(Seen(e))
         ELSE e[<<"bc", "de", index_pair(e)>>[Y(e.opcode) \div 2 + 1]]
  BY <1>5, <1>3, <1>1, PushedPair
<1>31. Manual!AfWord(Seen(e)) = Manual!AfWord(s)
  BY <1>26 DEF Past, Seen, VisibleFields, Manual!AfWord
<1>32. Y(e.opcode) # 6 => <<"bc", "de", index_pair(e)>>[Y(e.opcode) \div 2 + 1] \in {"bc", "de",
         "hl", "ix", "iy"}
  BY <1>3, <1>1
<1>33. Y(e.opcode) # 6 => e[<<"bc", "de", index_pair(e)>>[Y(e.opcode) \div 2 + 1]]
         = s[<<"bc", "de", index_pair(e)>>[Y(e.opcode) \div 2 + 1]]
  BY <1>32, <1>25, <1>29, SeenFields, InCore DEF Same
<1>34. Table(e, m, place, at, port) = Manual!Quarter3(s, m, Y(e.opcode), 5, index_pair(e), at, port)
  BY <1>1, <1>3, <1>26, QuarterOf DEF Table
<1>35. Manual!Quarter3(s, m, Y(e.opcode), 5, index_pair(e), at, port)
         = Manual!Both([s EXCEPT !.sp = Plus(@, -2)],
                       Manual!Poke(Manual!Poke(m, Plus(s.sp, -1), High(word)), Plus(s.sp, -2),
                       Low(word)))
  BY <1>3, <1>5, <1>30, <1>31, <1>32, <1>33, SameWords DEF Manual!Quarter3, Manual!Pushes
<1>36. PICK r : r = Execute("push", p, int)
  OBVIOUS
<1>37. r = p
  BY <1>36, ExecutesNothing DEF Hooked
<1>38. Seen(r) = Seen(p)
  BY <1>37, <1>29
<1>39. l = Manual!Poke(Manual!Poke(m, Plus(s.sp, -1), High(word)), Plus(s.sp, -2), Low(word))
  BY <1>25, <1>29, <1>1, <1>5, SeenFields, InCore DEF Same, OperandsAt, Begins
<1>40. Seen(r) = [s EXCEPT !.sp = Plus(@, -2)]
  BY <1>38, <1>39, <1>29, <1>25
<1> QED BY <1>36, <1>40, <1>39, <1>29, <1>25, <1>34, <1>35, MeetsBoth

(* POP rp. *)
LEMMA Does_pop ==
  ASSUME NEW e, NEW m, NEW place, NEW at, Begins(e, m, place, at), e.instr = "pop",
         NEW d, NEW l, After2(e, m, d, l),
         NEW p, Typed(p), Same(d, p, {"nmi_latched"}), NEW int, NEW port
  PROVE  Meets(Execute("pop", p, int), l, Table(e, m, place, at, port))
<1>1. /\ Typed(e) /\ Shaped(e) /\ e.opcode \in Byte /\ ByteMemory(m)
      /\ index_pair(e) \in {"hl", "ix", "iy"}
  BY CoreTypes DEF Begins, index_pair
<1>2. "pop" = DecodeBase(e.opcode)
  BY DEF Begins
<1>3. /\ X(e.opcode) = 3
      /\ Z(e.opcode) = 1
      /\ Y(e.opcode) \in {0, 2, 4, 6}
  BY <1>1, <1>2, MapPlace
<1>4. Manual!OperandBytes(e.opcode) = 0
  BY <1>1, <1>3, FieldsType, OpcodeOf DEF Manual!OperandBytes, X, Y, Z
<1>5. PICK pair : pair = pair_rp2(e)
  OBVIOUS
<1>6. /\ pair = IF Y(e.opcode) = 6 THEN "af"
           ELSE <<"bc", "de", index_pair(e)>>[Y(e.opcode) \div 2 + 1]
      /\ pair \in {"bc", "de", "hl", "ix", "iy", "af"}
      /\ Y(e.opcode) # 6 => pair # "af"
  BY <1>5, <1>3, <1>1, PushedPair
<1>7. PICK d1, m1 :
      /\ OneCycle(e, m, d1, m1)
      /\ OneCycle(d1, m1, d, l)
  BY DEF After1, After2
<1>8. /\ e.instr = "pop" /\ e.cycle = 0 /\ Shaped(e)
      /\ d1.instr = "pop" /\ d1.cycle = 1 /\ Shaped(d1)
  BY <1>7, Fields DEF OneCycle, Begins
<1>9. CyclesOf["pop"] = LoadCycles("pop") /\ HooksOf["pop"] = LoadHooks("pop")
  BY GroupCycles, GroupHooks DEF Instrs, LoadInstrs
<1>10. /\ Enters(e, "mem_read", "at_pop", "to_tmp_low")
       /\ Enters(d1, "mem_read", "at_pop", "none")
  BY <1>8, <1>9 DEF Enters, LoadCycles, LoadHooks, Operand, Called, AtPcTo, AtPopTo, On, Idle,
     Read, Write,
       IoIn, IoOut, Idle1, Idle2, Idle4, Idle5, Idle7
<1>11. PICK f1 :
       /\ Same(e, f1, {"bus_addr", "bus_data", "sp"})
       /\ f1.bus_addr = e.sp
       /\ f1.bus_data = Manual!Peek(m, e.sp)
       /\ f1.bus_data \in Byte
       /\ m1 = m
       /\ f1.sp = Plus(e.sp, 1)
       /\ d1 = Put(Exit("to_tmp_low", f1), "cycle", e.cycle + 1)
  BY <1>7, <1>10, AtPopReads
<1>12. /\ Same(e, d1, {"bus_addr", "bus_data", "sp", "tmp", "cycle"})
       /\ d1.bus_addr = e.sp
       /\ d1.bus_data = Manual!Peek(m, e.sp)
       /\ d1.sp = Plus(e.sp, 1)
       /\ d1.tmp = WithLow(e.tmp, Manual!Peek(m, e.sp))
       /\ m1 = m
  BY <1>8, <1>11, Leaves, InCore DEF Same
<1>13. PICK f2 :
       /\ Same(d1, f2, {"bus_addr", "bus_data", "sp"})
       /\ f2.bus_addr = d1.sp
       /\ f2.bus_data = Manual!Peek(m1, d1.sp)
       /\ f2.bus_data \in Byte
       /\ l = m1
       /\ f2.sp = Plus(d1.sp, 1)
       /\ d = Put(Exit("none", f2), "cycle", d1.cycle + 1)
  BY <1>7, <1>10, AtPopReads
<1>14. /\ Same(e, d, {"bus_addr", "bus_data", "sp", "tmp", "cycle"})
       /\ d.bus_addr = d1.sp
       /\ d.bus_data = Manual!Peek(m1, d1.sp)
       /\ d.sp = Plus(d1.sp, 1)
       /\ d.tmp = d1.tmp
       /\ l = m1
  BY <1>12, <1>8, <1>13, Leaves, InCore DEF Same
<1>15. /\ Same(e, d, {"bus_addr", "bus_data", "sp", "tmp", "cycle"})
       /\ d.tmp = WithLow(e.tmp, Manual!Peek(m, e.sp))
       /\ d.bus_addr = Plus(e.sp, 1)
       /\ d.bus_data = Manual!Peek(m, e.sp + 1)
       /\ d.sp = Plus(e.sp, 2)
       /\ l = m
  BY <1>12, <1>14, <1>1, BytesAt
<1>16. /\ Same(e, p, {"bus_addr", "bus_data", "sp", "tmp", "cycle", "nmi_latched"})
       /\ p.tmp = WithLow(e.tmp, Manual!Peek(m, e.sp))
       /\ p.bus_addr = Plus(e.sp, 1)
       /\ p.bus_data = Manual!Peek(m, e.sp + 1)
       /\ p.sp = Plus(e.sp, 2)
       /\ l = m
  BY <1>15, InCore DEF Same
<1>17. PICK s : s = Past(e)
  OBVIOUS
<1>18. s = [Seen(e) EXCEPT !.pc = Plus(e.pc, 0)]
  BY <1>4, <1>17, SeenFields DEF Past, Seen
<1>19. p.pc = Plus(e.pc, 0)
  BY <1>16, <1>1, BytesAt, InCore DEF Same
<1>20. /\ Seen(p) = [s EXCEPT !.sp = p.sp]
       /\ \A x \in VisibleFields \ {"sp"} : s[x] = p[x]
       /\ s.sp = e.sp
  BY <1>18, <1>16, <1>19, SeenFields DEF Same, Seen
<1>21. Manual!Quarter3(s, m, Y(e.opcode), 1, index_pair(e), at, port)
         = Manual!PopsTo(s, m, Y(e.opcode), index_pair(e))
  BY <1>3 DEF Manual!Quarter3
<1>22. pair = IF Y(e.opcode) = 6 THEN "af"
         ELSE <<"bc", "de", index_pair(e)>>[Y(e.opcode) \div 2 + 1]
  BY <1>5, <1>6
<1>23. Y(e.opcode) = 6 <=> pair = "af"
  BY <1>5, <1>6
<1>24. Table(e, m, place, at, port) = Manual!Quarter3(s, m, Y(e.opcode), 1, index_pair(e), at, port)
  BY <1>1, <1>3, <1>17, QuarterOf DEF Table
<1>25. Manual!Quarter3(s, m, Y(e.opcode), 1, index_pair(e), at, port)
         = Manual!Both(IF pair = "af"
           THEN Manual!WithAf([s EXCEPT !.sp = Plus(@, 2)], Manual!PeekWord(m, s.sp))
         ELSE [[s EXCEPT !.sp = Plus(@, 2)] EXCEPT ![pair] = Manual!PeekWord(m, s.sp)],
                       m)
  BY <1>21, <1>22, <1>23, SameWords DEF Manual!PopsTo
<1>26. OperandsOf(e, p) /\ p.opcode = e.opcode
  BY <1>16, InCore DEF Same, OperandsOf
<1>27. /\ index_pair(p) = index_pair(e) /\ pair_rp(p) = pair_rp(e)
       /\ \A w : Slot(p, w) = Slot(e, w)
  BY <1>26, OperandsAgree
<1>28. pair_rp2(p) = pair
  BY <1>26, <1>27, <1>5, <1>6, OperandsAgree
<1>29. PICK word : word = WithHigh(p.tmp, p.bus_data)
  OBVIOUS
<1>30. Seen(WithPair(Put(p, "tmp", word), pair, word))
         = IF pair = "af" THEN Manual!WithAf(Seen(p), word) ELSE [Seen(p) EXCEPT ![pair] = word]
  BY <1>5, <1>6, PopMeans
<1>31. PICK r : r = Execute("pop", p, int)
  OBVIOUS
<1>32. r = LoadEffect("pop", p)
  BY <1>31, Executes DEF Loads
<1>33. r = WithPair(Put(p, "tmp", word), pair, word)
  BY <1>32, <1>26, <1>27, <1>28, <1>29, <1>30 DEF LoadEffect, Put
<1>34. Seen(r) = IF pair = "af" THEN Manual!WithAf(Seen(p), word)
         ELSE [Seen(p) EXCEPT ![pair] = word]
  BY <1>33, <1>20, <1>26, <1>27, <1>28, <1>29, <1>30, <1>30
<1>35. /\ word = Manual!PeekWord(m, s.sp)
       /\ Seen(p) = [s EXCEPT !.sp = Plus(@, 2)]
  BY <1>26, <1>27, <1>28, <1>29, <1>30, <1>16, <1>20, <1>1, SeenFields, InCore, BytesAt DEF Same,
     OperandsAt, Begins
<1>36. Seen(r) = IF pair = "af"
         THEN Manual!WithAf([s EXCEPT !.sp = Plus(@, 2)], Manual!PeekWord(m, s.sp))
         ELSE [[s EXCEPT !.sp = Plus(@, 2)] EXCEPT ![pair] = Manual!PeekWord(m, s.sp)]
  BY <1>34, <1>35, <1>16, <1>20, <1>16
<1> QED BY <1>31, <1>36, <1>35, <1>16, <1>20, <1>16, <1>24, <1>25, MeetsBoth

(* EX (SP),HL. *)
LEMMA Does_ex_sp_hl ==
  ASSUME NEW e, NEW m, NEW place, NEW at, Begins(e, m, place, at), e.instr = "ex_sp_hl",
         NEW d, NEW l, After6(e, m, d, l),
         NEW p, Typed(p), Same(d, p, {"nmi_latched"}), NEW int, NEW port
  PROVE  Meets(Execute("ex_sp_hl", p, int), l, Table(e, m, place, at, port))
<1>1. /\ Typed(e) /\ Shaped(e) /\ e.opcode \in Byte /\ ByteMemory(m)
      /\ index_pair(e) \in {"hl", "ix", "iy"}
  BY CoreTypes DEF Begins, index_pair
<1>2. "ex_sp_hl" = DecodeBase(e.opcode)
  BY DEF Begins
<1>3. /\ X(e.opcode) = 3
      /\ Z(e.opcode) = 3
      /\ Y(e.opcode) = 4
  BY <1>1, <1>2, MapPlace
<1>4. Manual!OperandBytes(e.opcode) = 0
  BY <1>1, <1>3, FieldsType, OpcodeOf DEF Manual!OperandBytes, X, Y, Z
<1>5. PICK pair : pair = index_pair(e) /\ pair \in {"hl", "ix", "iy"}
  BY <1>1, PairNamed
<1>6. PICK d1, m1, d2, m2, d3, m3, d4, m4, d5, m5 :
      /\ OneCycle(e, m, d1, m1)
      /\ OneCycle(d1, m1, d2, m2)
      /\ OneCycle(d2, m2, d3, m3)
      /\ OneCycle(d3, m3, d4, m4)
      /\ OneCycle(d4, m4, d5, m5)
      /\ OneCycle(d5, m5, d, l)
  BY DEF After1, After2, After3, After4, After5, After6
<1>7. /\ e.instr = "ex_sp_hl" /\ e.cycle = 0 /\ Shaped(e)
      /\ d1.instr = "ex_sp_hl" /\ d1.cycle = 1 /\ Shaped(d1)
      /\ d2.instr = "ex_sp_hl" /\ d2.cycle = 2 /\ Shaped(d2)
      /\ d3.instr = "ex_sp_hl" /\ d3.cycle = 3 /\ Shaped(d3)
      /\ d4.instr = "ex_sp_hl" /\ d4.cycle = 4 /\ Shaped(d4)
      /\ d5.instr = "ex_sp_hl" /\ d5.cycle = 5 /\ Shaped(d5)
  BY <1>6, Fields DEF OneCycle, Begins
<1>8. CyclesOf["ex_sp_hl"] = LoadCycles("ex_sp_hl") /\ HooksOf["ex_sp_hl"] = LoadHooks("ex_sp_hl")
  BY GroupCycles, GroupHooks DEF Instrs, LoadInstrs
<1>9. /\ Enters(e, "mem_read", "at_sp", "to_tmp_low")
      /\ Enters(d1, "mem_read", "at_sp_high", "to_tmp_high")
      /\ Enters(d2, "idle1", "none", "none")
      /\ Enters(d3, "mem_write", "h_at_sp", "none")
      /\ Enters(d4, "mem_write", "l_at_sp", "none")
      /\ Enters(d5, "idle2", "none", "none")
  BY <1>7, <1>8 DEF Enters, LoadCycles, LoadHooks, Operand, Called, AtPcTo, AtPopTo, On, Idle,
     Read, Write,
       IoIn, IoOut, Idle1, Idle2, Idle4, Idle5, Idle7
<1>10. PICK f1 :
       /\ Same(e, f1, {"bus_addr", "bus_data"})
       /\ f1.bus_addr = e.sp
       /\ f1.bus_data = Manual!Peek(m, e.sp)
       /\ f1.bus_data \in Byte
       /\ m1 = m
       /\ d1 = Put(Exit("to_tmp_low", f1), "cycle", e.cycle + 1)
  BY <1>6, <1>9, AtSpReads
<1>11. /\ Same(e, d1, {"bus_addr", "bus_data", "tmp", "cycle"})
       /\ d1.bus_addr = e.sp
       /\ d1.bus_data = Manual!Peek(m, e.sp)
       /\ d1.tmp = WithLow(e.tmp, Manual!Peek(m, e.sp))
       /\ m1 = m
  BY <1>5, <1>7, <1>10, Leaves, InCore DEF Same
<1>12. PICK f2 :
       /\ Same(d1, f2, {"bus_addr", "bus_data"})
       /\ f2.bus_addr = Plus(d1.sp, 1)
       /\ f2.bus_data = Manual!Peek(m1, Plus(d1.sp, 1))
       /\ f2.bus_data \in Byte
       /\ m2 = m1
       /\ d2 = Put(Exit("to_tmp_high", f2), "cycle", d1.cycle + 1)
  BY <1>6, <1>9, AtSpHighReads
<1>13. /\ Same(e, d2, {"bus_addr", "bus_data", "tmp", "cycle"})
       /\ d2.bus_addr = Plus(d1.sp, 1)
       /\ d2.bus_data = Manual!Peek(m1, Plus(d1.sp, 1))
       /\ d2.tmp = WithHigh(d1.tmp, Manual!Peek(m1, Plus(d1.sp, 1)))
       /\ m2 = m1
  BY <1>11, <1>5, <1>7, <1>12, Leaves, InCore DEF Same
<1>14. d1.sp = e.sp
  BY <1>11, <1>5, InCore DEF Same
<1>15. /\ Same(e, d2, {"bus_addr", "bus_data", "tmp", "cycle"})
       /\ d2.bus_addr = Plus(e.sp, 1)
       /\ d2.bus_data = Manual!Peek(m, e.sp + 1)
       /\ d2.tmp = Manual!PeekWord(m, e.sp)
       /\ m2 = m
  BY <1>11, <1>13, <1>14, <1>1, BytesAt, <1>5
<1>16. d3 = Put(Exit("none", d2), "cycle", d2.cycle + 1) /\ m3 = m2
  BY <1>6, <1>9, Idles DEF IdleCycles
<1>17. /\ Same(e, d3, {"bus_addr", "bus_data", "tmp", "cycle"})
       /\ d3.bus_addr = d2.bus_addr
       /\ d3.bus_data = d2.bus_data
       /\ d3.tmp = d2.tmp
       /\ m3 = m2
  BY <1>15, <1>5, <1>7, <1>16, Leaves, InCore DEF Same
<1>18. /\ Same(e, d3, {"bus_addr", "bus_data", "tmp", "cycle"})
       /\ d3.bus_addr = Plus(e.sp, 1)
       /\ d3.bus_data = Manual!Peek(m, e.sp + 1)
       /\ d3.tmp = Manual!PeekWord(m, e.sp)
       /\ m3 = m
  BY <1>15, <1>17, <1>1, BytesAt, <1>5
<1>19. OperandsOf(e, d3)
  BY <1>18, InCore DEF Same, OperandsOf
<1>20. High(d3[index_pair(d3)]) = High(e[index_pair(e)])
  BY <1>19, <1>1, OperandsAgree
<1>21. Enter("h_at_sp", d3) = Puts(d3, Plus(d3.sp, 1), High(e[index_pair(e)]))
  BY <1>7, <1>20, EnterWrites
<1>22. PICK f4 :
       /\ Same(d3, f4, {"bus_addr", "bus_data"})
       /\ f4.bus_addr = Plus(d3.sp, 1)
       /\ f4.bus_data = High(e[index_pair(e)])
       /\ d4 = Put(Exit("none", f4), "cycle", d3.cycle + 1)
       /\ m4 = Manual!Poke(m3, Plus(d3.sp, 1), High(e[index_pair(e)]))
  BY <1>6, <1>9, <1>21, Writes
<1>23. /\ Same(e, d4, {"bus_addr", "bus_data", "tmp", "cycle"})
       /\ d4.bus_addr = Plus(d3.sp, 1)
       /\ d4.bus_data = High(e[index_pair(e)])
       /\ d4.tmp = d3.tmp
       /\ m4 = Manual!Poke(m3, Plus(d3.sp, 1), High(e[index_pair(e)]))
  BY <1>18, <1>5, <1>7, <1>22, Leaves, InCore DEF Same
<1>24. d3.sp = e.sp
  BY <1>18, <1>5, InCore DEF Same
<1>25. /\ Same(e, d4, {"bus_addr", "bus_data", "tmp", "cycle"})
       /\ d4.tmp = Manual!PeekWord(m, e.sp)
       /\ d4.bus_addr = Plus(e.sp, 1)
       /\ d4.bus_data = High(e[index_pair(e)])
       /\ m4 = Manual!Poke(m, Plus(e.sp, 1), High(e[index_pair(e)]))
  BY <1>18, <1>23, <1>24, <1>1, BytesAt, <1>5
<1>26. OperandsOf(e, d4)
  BY <1>25, InCore DEF Same, OperandsOf
<1>27. Low(d4[index_pair(d4)]) = Low(e[index_pair(e)])
  BY <1>26, <1>1, OperandsAgree
<1>28. Enter("l_at_sp", d4) = Puts(d4, d4.sp, Low(e[index_pair(e)]))
  BY <1>7, <1>27, EnterWrites
<1>29. PICK f5 :
       /\ Same(d4, f5, {"bus_addr", "bus_data"})
       /\ f5.bus_addr = d4.sp
       /\ f5.bus_data = Low(e[index_pair(e)])
       /\ d5 = Put(Exit("none", f5), "cycle", d4.cycle + 1)
       /\ m5 = Manual!Poke(m4, d4.sp, Low(e[index_pair(e)]))
  BY <1>6, <1>9, <1>28, Writes
<1>30. /\ Same(e, d5, {"bus_addr", "bus_data", "tmp", "cycle"})
       /\ d5.bus_addr = d4.sp
       /\ d5.bus_data = Low(e[index_pair(e)])
       /\ d5.tmp = d4.tmp
       /\ m5 = Manual!Poke(m4, d4.sp, Low(e[index_pair(e)]))
  BY <1>25, <1>5, <1>7, <1>29, Leaves, InCore DEF Same
<1>31. d4.sp = e.sp
  BY <1>25, <1>5, InCore DEF Same
<1>32. /\ Same(e, d5, {"bus_addr", "bus_data", "tmp", "cycle"})
       /\ d5.tmp = Manual!PeekWord(m, e.sp)
       /\ d5.bus_addr = e.sp
       /\ d5.bus_data = Low(e[index_pair(e)])
       /\ m5 = Manual!Poke(Manual!Poke(m, Plus(e.sp, 1), High(e[index_pair(e)])), e.sp,
            Low(e[index_pair(e)]))
  BY <1>25, <1>30, <1>31, <1>1, BytesAt, <1>5
<1>33. d = Put(Exit("none", d5), "cycle", d5.cycle + 1) /\ l = m5
  BY <1>6, <1>9, Idles DEF IdleCycles
<1>34. /\ Same(e, d, {"bus_addr", "bus_data", "tmp", "cycle"})
       /\ d.tmp = d5.tmp
       /\ d.bus_addr = d5.bus_addr
       /\ d.bus_data = d5.bus_data
       /\ l = m5
  BY <1>32, <1>5, <1>7, <1>33, Leaves, InCore DEF Same
<1>35. /\ Same(e, d, {"bus_addr", "bus_data", "tmp", "cycle"})
       /\ d.tmp = Manual!PeekWord(m, e.sp)
       /\ d.bus_addr = e.sp
       /\ d.bus_data = Low(e[index_pair(e)])
       /\ l = Manual!Poke(Manual!Poke(m, Plus(e.sp, 1), High(e[index_pair(e)])), e.sp,
            Low(e[index_pair(e)]))
  BY <1>32, <1>34, <1>1, BytesAt, <1>5
<1>36. /\ Same(e, p, {"bus_addr", "bus_data", "tmp", "cycle", "nmi_latched"})
       /\ p.tmp = Manual!PeekWord(m, e.sp)
       /\ p.bus_addr = e.sp
       /\ p.bus_data = Low(e[index_pair(e)])
       /\ l = Manual!Poke(Manual!Poke(m, Plus(e.sp, 1), High(e[index_pair(e)])), e.sp,
            Low(e[index_pair(e)]))
  BY <1>35, <1>5, InCore DEF Same
<1>37. PICK s : s = Past(e)
  OBVIOUS
<1>38. s = [Seen(e) EXCEPT !.pc = Plus(e.pc, 0)]
  BY <1>4, <1>37, SeenFields DEF Past, Seen
<1>39. p.pc = Plus(e.pc, 0)
  BY <1>36, <1>1, BytesAt, InCore DEF Same
<1>40. Seen(p) = s /\ \A x \in VisibleFields : s[x] = p[x]
  BY <1>38, <1>36, <1>39, SeenFields DEF Same, Seen
<1>41. Table(e, m, place, at, port) = Manual!Quarter3(s, m, 4, 3, index_pair(e), at, port)
  BY <1>1, <1>3, <1>37, QuarterOf DEF Table
<1>42. Manual!Quarter3(s, m, 4, 3, index_pair(e), at, port)
         = Manual!Both([s EXCEPT ![pair] = Manual!PeekWord(m, s.sp)],
                       Manual!PokeWord(m, s.sp, s[pair]))
  BY <1>5 DEF Manual!Quarter3
<1>43. index_pair(p) = pair
  BY <1>36, <1>5, InCore DEF Same, index_pair
<1>44. \A v, w : Seen(Put(Put(p, pair, v), "wz", w)) = [Seen(p) EXCEPT ![pair] = v]
  BY <1>5, PutBehind
<1>45. PICK r : r = Execute("ex_sp_hl", p, int)
  OBVIOUS
<1>46. r = ExchangeEffect("ex_sp_hl", p)
  BY <1>45, Executes DEF Exchanges
<1>47. r = Put(Put(p, pair, p.tmp), "wz", p.tmp)
  BY <1>46, <1>43, <1>44 DEF ExchangeEffect, Put
<1>48. Seen(r) = [s EXCEPT ![pair] = p.tmp]
  BY <1>47, <1>40, <1>43, <1>44, <1>44
<1>49. /\ p.tmp = Manual!PeekWord(m, s.sp)
       /\ s[pair] = e[index_pair(e)]
  BY <1>36, <1>40, <1>1, SeenFields, InCore, <1>5 DEF Same, OperandsAt, Begins
<1>50. l = Manual!PokeWord(m, e.sp, e[index_pair(e)])
  BY <1>36, <1>1, CoreTypes, PokedWord
<1>51. l = Manual!PokeWord(m, s.sp, s[pair])
  BY <1>49, <1>50, <1>36, <1>40, <1>1, SeenFields, InCore DEF Same, OperandsAt, Begins
<1>52. Seen(r) = [s EXCEPT ![pair] = Manual!PeekWord(m, s.sp)]
  BY <1>48, <1>49, <1>50, <1>51
<1> QED BY <1>45, <1>52, <1>49, <1>50, <1>51, <1>41, <1>42, MeetsBoth
-----------------------------------------------------------------------------
(***************************************************************************)
(* Arithmetic on memory, on operand bytes and on pairs.                    *)
(***************************************************************************)

(* ALU (HL). *)
LEMMA Does_alu_mem ==
  ASSUME NEW e, NEW m, NEW place, NEW at, Begins(e, m, place, at), e.instr = "alu_mem",
         NEW d, NEW l, After1(e, m, d, l),
         NEW p, Typed(p), Same(d, p, {"nmi_latched"}), NEW int, NEW port
  PROVE  Meets(Execute("alu_mem", p, int), l, Table(e, m, place, at, port))
<1>1. /\ Typed(e) /\ Shaped(e) /\ e.opcode \in Byte /\ ByteMemory(m)
      /\ index_pair(e) \in {"hl", "ix", "iy"}
  BY CoreTypes DEF Begins, index_pair
<1>2. "alu_mem" = DecodeBase(e.opcode)
  BY DEF Begins
<1>3. /\ X(e.opcode) = 2
      /\ Z(e.opcode) = 6
  BY <1>1, <1>2, MapPlace
<1>4. Manual!OperandBytes(e.opcode) = 0
  BY <1>1, <1>3, FieldsType, OpcodeOf DEF Manual!OperandBytes, X, Y, Z
<1>5. Manual!NamesMemory(e.opcode)
  BY <1>1, <1>3 DEF Manual!NamesMemory, X, Y, Z
<1>6. e.index = 0 /\ index_pair(e) = "hl" /\ place = e.hl
  BY <1>5 DEF Begins, index_pair, DD, FD
<1>7. OneCycle(e, m, d, l)
  BY DEF After1
<1>8. e.instr = "alu_mem" /\ e.cycle = 0 /\ Shaped(e)
  BY <1>7, Fields DEF OneCycle, Begins
<1>9. CyclesOf["alu_mem"] = ArithmeticCycles("alu_mem") /\
        HooksOf["alu_mem"] = ArithmeticHooks("alu_mem")
  BY GroupCycles, GroupHooks DEF Instrs, ArithmeticInstrs
<1>10. Enters(e, "mem_read", "at_hl", "none")
  BY <1>8, <1>9 DEF Enters, ArithmeticCycles, ArithmeticHooks, Operand, Called, AtPcTo, AtPopTo,
     On, Idle, Read, Write,
       IoIn, IoOut, Idle1, Idle2, Idle4, Idle5, Idle7
<1>11. PICK f1 :
       /\ Same(e, f1, {"bus_addr", "bus_data"})
       /\ f1.bus_addr = e.hl
       /\ f1.bus_data = Manual!Peek(m, e.hl)
       /\ f1.bus_data \in Byte
       /\ l = m
       /\ d = Put(Exit("none", f1), "cycle", e.cycle + 1)
  BY <1>7, <1>10, AtHlReads
<1>12. /\ Same(e, d, {"bus_addr", "bus_data", "cycle"})
       /\ d.bus_addr = e.hl
       /\ d.bus_data = Manual!Peek(m, e.hl)
       /\ l = m
  BY <1>8, <1>11, Leaves, InCore DEF Same
<1>13. /\ Same(e, p, {"bus_addr", "bus_data", "cycle", "nmi_latched"})
       /\ p.bus_addr = e.hl
       /\ p.bus_data = Manual!Peek(m, e.hl)
       /\ l = m
  BY <1>12, InCore DEF Same
<1>14. PICK s : s = Past(e)
  OBVIOUS
<1>15. s = [Seen(e) EXCEPT !.pc = Plus(e.pc, 0)]
  BY <1>4, <1>14, SeenFields DEF Past, Seen
<1>16. p.pc = Plus(e.pc, 0)
  BY <1>13, <1>1, BytesAt, InCore DEF Same
<1>17. Seen(p) = s /\ \A x \in VisibleFields : s[x] = p[x]
  BY <1>15, <1>13, <1>16, SeenFields DEF Same, Seen
<1>18. Table(e, m, place, at, port)
         = Manual!Both(Manual!Accumulates(s,
           Manual!alu_operation(Y(e.opcode), s.a, s.f, Manual!Peek(m, place))),
                       m)
  BY <1>1, <1>6, <1>3, <1>14, QuarterOf DEF Table, Manual!Operand
<1>19. OperandsOf(e, p) /\ p.opcode = e.opcode
  BY <1>13, InCore DEF Same, OperandsOf
<1>20. Y(p.opcode) = Y(e.opcode) /\ s.a = p.a /\ s.f = p.f /\ Shaped(p)
  BY <1>19, <1>17, SeenFields, CoreTypes
<1>21. \A which, a, f, value : Manual!alu_operation(which, a, f, value)
         = Alu!alu_operation(which, a, f, value)
  BY SameArithmetic
<1>22. PICK r : r = Execute("alu_mem", p, int)
  OBVIOUS
<1>23. r = ArithmeticEffect("alu_mem", p)
  BY <1>22, Executes DEF Arithmetics
<1>24. r = WithOut(p, Alu!alu_operation(Y(p.opcode), p.a, p.f, p.bus_data))
  BY <1>23, <1>19, <1>20, <1>21 DEF ArithmeticEffect, AluOperation
<1>25. Seen(r) = Manual!Accumulates(s, Manual!alu_operation(Y(e.opcode), s.a, s.f, p.bus_data))
  BY <1>24, <1>17, <1>19, <1>20, <1>21, SeenOut
<1>26. p.bus_data = Manual!Peek(m, place)
  BY <1>13, <1>17, <1>1, <1>6, SeenFields, InCore DEF Same, OperandsAt, Begins
<1>27. Seen(r) = Manual!Accumulates(s,
         Manual!alu_operation(Y(e.opcode), s.a, s.f, Manual!Peek(m, place)))
  BY <1>25, <1>26, <1>13
<1> QED BY <1>22, <1>27, <1>26, <1>13, <1>18, MeetsBoth

(* ALU n. *)
LEMMA Does_alu_n ==
  ASSUME NEW e, NEW m, NEW place, NEW at, Begins(e, m, place, at), e.instr = "alu_n",
         NEW d, NEW l, After1(e, m, d, l),
         NEW p, Typed(p), Same(d, p, {"nmi_latched"}), NEW int, NEW port
  PROVE  Meets(Execute("alu_n", p, int), l, Table(e, m, place, at, port))
<1>1. /\ Typed(e) /\ Shaped(e) /\ e.opcode \in Byte /\ ByteMemory(m)
      /\ index_pair(e) \in {"hl", "ix", "iy"}
  BY CoreTypes DEF Begins, index_pair
<1>2. "alu_n" = DecodeBase(e.opcode)
  BY DEF Begins
<1>3. /\ X(e.opcode) = 3
      /\ Z(e.opcode) = 6
  BY <1>1, <1>2, MapPlace
<1>4. Manual!OperandBytes(e.opcode) = 1
  BY <1>1, <1>3, FieldsType, OpcodeOf DEF Manual!OperandBytes, X, Y, Z
<1>5. OneCycle(e, m, d, l)
  BY DEF After1
<1>6. e.instr = "alu_n" /\ e.cycle = 0 /\ Shaped(e)
  BY <1>5, Fields DEF OneCycle, Begins
<1>7. CyclesOf["alu_n"] = ArithmeticCycles("alu_n") /\ HooksOf["alu_n"] = ArithmeticHooks("alu_n")
  BY GroupCycles, GroupHooks DEF Instrs, ArithmeticInstrs
<1>8. Enters(e, "mem_read", "at_pc", "none")
  BY <1>6, <1>7 DEF Enters, ArithmeticCycles, ArithmeticHooks, Operand, Called, AtPcTo, AtPopTo,
     On, Idle, Read, Write,
       IoIn, IoOut, Idle1, Idle2, Idle4, Idle5, Idle7
<1>9. PICK f1 :
      /\ Same(e, f1, {"bus_addr", "bus_data", "pc"})
      /\ f1.bus_addr = e.pc
      /\ f1.bus_data = Manual!Peek(m, e.pc)
      /\ f1.bus_data \in Byte
      /\ l = m
      /\ f1.pc = Plus(e.pc, 1)
      /\ d = Put(Exit("none", f1), "cycle", e.cycle + 1)
  BY <1>5, <1>8, AtPcReads
<1>10. /\ Same(e, d, {"bus_addr", "bus_data", "pc", "cycle"})
       /\ d.bus_addr = e.pc
       /\ d.bus_data = Manual!Peek(m, e.pc)
       /\ d.pc = Plus(e.pc, 1)
       /\ l = m
  BY <1>6, <1>9, Leaves, InCore DEF Same
<1>11. /\ Same(e, p, {"bus_addr", "bus_data", "pc", "cycle", "nmi_latched"})
       /\ p.bus_addr = e.pc
       /\ p.bus_data = Manual!Peek(m, e.pc)
       /\ p.pc = Plus(e.pc, 1)
       /\ l = m
  BY <1>10, InCore DEF Same
<1>12. PICK s : s = Past(e)
  OBVIOUS
<1>13. s = [Seen(e) EXCEPT !.pc = Plus(e.pc, 1)]
  BY <1>4, <1>12, SeenFields DEF Past, Seen
<1>14. p.pc = Plus(e.pc, 1)
  BY <1>11, <1>1, BytesAt, InCore DEF Same
<1>15. Seen(p) = s /\ \A x \in VisibleFields : s[x] = p[x]
  BY <1>13, <1>11, <1>14, SeenFields DEF Same, Seen
<1>16. Table(e, m, place, at, port) = Manual!Quarter3(s, m, Y(e.opcode), 6, index_pair(e), at, port)
  BY <1>1, <1>3, <1>12, QuarterOf DEF Table
<1>17. Manual!Quarter3(s, m, Y(e.opcode), 6, index_pair(e), at, port)
         = Manual!Both(Manual!Accumulates(s,
           Manual!alu_operation(Y(e.opcode), s.a, s.f, Manual!Peek(m, at))),
                       m)
  BY DEF Manual!Quarter3
<1>18. OperandsOf(e, p) /\ p.opcode = e.opcode
  BY <1>11, InCore DEF Same, OperandsOf
<1>19. Y(p.opcode) = Y(e.opcode) /\ s.a = p.a /\ s.f = p.f /\ Shaped(p)
  BY <1>18, <1>15, SeenFields, CoreTypes
<1>20. \A which, a, f, value : Manual!alu_operation(which, a, f, value)
         = Alu!alu_operation(which, a, f, value)
  BY SameArithmetic
<1>21. PICK r : r = Execute("alu_n", p, int)
  OBVIOUS
<1>22. r = ArithmeticEffect("alu_n", p)
  BY <1>21, Executes DEF Arithmetics
<1>23. r = WithOut(p, Alu!alu_operation(Y(p.opcode), p.a, p.f, p.bus_data))
  BY <1>22, <1>18, <1>19, <1>20 DEF ArithmeticEffect, AluOperation
<1>24. Seen(r) = Manual!Accumulates(s, Manual!alu_operation(Y(e.opcode), s.a, s.f, p.bus_data))
  BY <1>23, <1>15, <1>18, <1>19, <1>20, SeenOut
<1>25. p.bus_data = Manual!Peek(m, at)
  BY <1>11, <1>15, <1>1, SeenFields, InCore DEF Same, OperandsAt, Begins
<1>26. Seen(r) = Manual!Accumulates(s,
         Manual!alu_operation(Y(e.opcode), s.a, s.f, Manual!Peek(m, at)))
  BY <1>24, <1>25, <1>11
<1> QED BY <1>21, <1>26, <1>25, <1>11, <1>16, <1>17, MeetsBoth

(* INC (HL). *)
LEMMA Does_inc_mem ==
  ASSUME NEW e, NEW m, NEW place, NEW at, Begins(e, m, place, at), e.instr = "inc_mem",
         NEW d, NEW l, After3(e, m, d, l),
         NEW p, Typed(p), Same(d, p, {"nmi_latched"}), NEW int, NEW port
  PROVE  Meets(Execute("inc_mem", p, int), l, Table(e, m, place, at, port))
<1>1. /\ Typed(e) /\ Shaped(e) /\ e.opcode \in Byte /\ ByteMemory(m)
      /\ index_pair(e) \in {"hl", "ix", "iy"}
  BY CoreTypes DEF Begins, index_pair
<1>2. "inc_mem" = DecodeBase(e.opcode)
  BY DEF Begins
<1>3. /\ X(e.opcode) = 0
      /\ Z(e.opcode) = 4
      /\ Y(e.opcode) = 6
  BY <1>1, <1>2, MapPlace
<1>4. Manual!OperandBytes(e.opcode) = 0
  BY <1>1, <1>3, FieldsType, OpcodeOf DEF Manual!OperandBytes, X, Y, Z
<1>5. Manual!NamesMemory(e.opcode)
  BY <1>1, <1>3 DEF Manual!NamesMemory, X, Y, Z
<1>6. e.index = 0 /\ index_pair(e) = "hl" /\ place = e.hl
  BY <1>5 DEF Begins, index_pair, DD, FD
<1>7. PICK d1, m1, d2, m2 :
      /\ OneCycle(e, m, d1, m1)
      /\ OneCycle(d1, m1, d2, m2)
      /\ OneCycle(d2, m2, d, l)
  BY DEF After1, After2, After3
<1>8. /\ e.instr = "inc_mem" /\ e.cycle = 0 /\ Shaped(e)
      /\ d1.instr = "inc_mem" /\ d1.cycle = 1 /\ Shaped(d1)
      /\ d2.instr = "inc_mem" /\ d2.cycle = 2 /\ Shaped(d2)
  BY <1>7, Fields DEF OneCycle, Begins
<1>9. CyclesOf["inc_mem"] = ArithmeticCycles("inc_mem") /\
        HooksOf["inc_mem"] = ArithmeticHooks("inc_mem")
  BY GroupCycles, GroupHooks DEF Instrs, ArithmeticInstrs
<1>10. /\ Enters(e, "mem_read", "at_hl", "inc_bus")
       /\ Enters(d1, "idle1", "none", "none")
       /\ Enters(d2, "mem_write", "at_hl", "none")
  BY <1>8, <1>9 DEF Enters, ArithmeticCycles, ArithmeticHooks, Operand, Called, AtPcTo, AtPopTo,
     On, Idle, Read, Write,
       IoIn, IoOut, Idle1, Idle2, Idle4, Idle5, Idle7
<1>11. PICK f1 :
       /\ Same(e, f1, {"bus_addr", "bus_data"})
       /\ f1.bus_addr = e.hl
       /\ f1.bus_data = Manual!Peek(m, e.hl)
       /\ f1.bus_data \in Byte
       /\ m1 = m
       /\ d1 = Put(Exit("inc_bus", f1), "cycle", e.cycle + 1)
  BY <1>7, <1>10, AtHlReads
<1>12. PICK out : out = Alu!alu_inc(f1.f, f1.bus_data)
  OBVIOUS
<1>13. /\ Same(e, d1, {"bus_addr", "bus_data", "f", "pending", "cycle"})
       /\ d1.bus_addr = e.hl
       /\ d1.bus_data = out.value
       /\ d1.f = out.flags
       /\ out = Alu!alu_inc(e.f, Manual!Peek(m, e.hl))
       /\ m1 = m
  BY <1>8, <1>11, <1>12, LeavesByte, InCore DEF Same
<1>14. /\ Same(e, d1, {"bus_addr", "bus_data", "f", "pending", "cycle"})
       /\ d1.bus_addr = e.hl
       /\ d1.bus_data = out.value
       /\ d1.f = out.flags
       /\ m1 = m
  BY <1>13, <1>1, BytesAt
<1>15. d2 = Put(Exit("none", d1), "cycle", d1.cycle + 1) /\ m2 = m1
  BY <1>7, <1>10, Idles DEF IdleCycles
<1>16. /\ Same(e, d2, {"bus_addr", "bus_data", "f", "pending", "cycle"})
       /\ d2.bus_addr = d1.bus_addr
       /\ d2.bus_data = d1.bus_data
       /\ d2.f = d1.f
       /\ m2 = m1
  BY <1>14, <1>13, <1>8, <1>15, Leaves, InCore DEF Same
<1>17. /\ Same(e, d2, {"bus_addr", "bus_data", "f", "pending", "cycle"})
       /\ d2.bus_addr = e.hl
       /\ d2.bus_data = out.value
       /\ d2.f = out.flags
       /\ m2 = m
  BY <1>14, <1>13, <1>16, <1>1, BytesAt
<1>18. Enter("at_hl", d2) = Put(d2, "bus_addr", d2.hl)
  BY <1>8, EnterReads
<1>19. PICK f3 :
       /\ Same(d2, f3, {"bus_addr"})
       /\ f3.bus_addr = d2.hl
       /\ d = Put(Exit("none", f3), "cycle", d2.cycle + 1)
       /\ l = Manual!Poke(m2, d2.hl, d2.bus_data)
  BY <1>7, <1>10, <1>18, KeepsWrites
<1>20. /\ Same(e, d, {"bus_addr", "bus_data", "f", "pending", "cycle"})
       /\ d.bus_addr = d2.hl
       /\ d.bus_data = d2.bus_data
       /\ d.f = d2.f
       /\ l = Manual!Poke(m2, d2.hl, d2.bus_data)
  BY <1>17, <1>8, <1>19, Leaves, InCore DEF Same
<1>21. d2.hl = e.hl
  BY <1>17, InCore DEF Same
<1>22. /\ Same(e, d, {"bus_addr", "bus_data", "f", "pending", "cycle"})
       /\ d.bus_data = out.value
       /\ d.f = out.flags
       /\ d.bus_addr = e.hl
       /\ l = Manual!Poke(m, e.hl, out.value)
  BY <1>17, <1>20, <1>21, <1>1, BytesAt
<1>23. /\ Same(e, p, {"bus_addr", "bus_data", "f", "pending", "cycle", "nmi_latched"})
       /\ p.bus_data = out.value
       /\ p.f = out.flags
       /\ p.bus_addr = e.hl
       /\ l = Manual!Poke(m, e.hl, out.value)
       /\ out = Alu!alu_inc(e.f, Manual!Peek(m, e.hl))
  BY <1>22, <1>13, InCore DEF Same
<1>24. PICK s : s = Past(e)
  OBVIOUS
<1>25. s = [Seen(e) EXCEPT !.pc = Plus(e.pc, 0)]
  BY <1>4, <1>24, SeenFields DEF Past, Seen
<1>26. p.pc = Plus(e.pc, 0)
  BY <1>23, <1>1, BytesAt, InCore DEF Same
<1>27. /\ Seen(p) = [s EXCEPT !.f = p.f]
       /\ \A x \in VisibleFields \ {"f"} : s[x] = p[x]
       /\ s.f = e.f
  BY <1>25, <1>23, <1>26, SeenFields DEF Same, Seen
<1>28. Table(e, m, place, at, port) = Manual!Quarter0(s, m, 6, 4, index_pair(e), place, at, e.q)
  BY <1>1, <1>3, <1>24, QuarterOf DEF Table
<1>29. Manual!Quarter0(s, m, 6, 4, index_pair(e), place, at, e.q)
         = Manual!Both(Manual!Flagged(s, Manual!alu_inc(s.f, Manual!Peek(m, place)).flags),
                       Manual!Poke(m, place, Manual!alu_inc(s.f, Manual!Peek(m, place)).value))
  BY <1>6 DEF Manual!Quarter0, Manual!Stores, Manual!Operand
<1>30. out = Manual!alu_inc(s.f, Manual!Peek(m, place))
  BY <1>23, <1>27, <1>6, SameArithmetic
<1>31. PICK r : r = Execute("inc_mem", p, int)
  OBVIOUS
<1>32. r = p
  BY <1>31, ExecutesNothing DEF Hooked
<1>33. Seen(r) = Seen(p)
  BY <1>32, <1>27
<1>34. l = Manual!Poke(m, place, Manual!alu_inc(s.f, Manual!Peek(m, place)).value)
  BY <1>23, <1>27, <1>1, <1>6, <1>30, SeenFields, InCore DEF Same, OperandsAt, Begins
<1>35. Seen(r) = Manual!Flagged(s, Manual!alu_inc(s.f, Manual!Peek(m, place)).flags)
  BY <1>33, <1>34, <1>27, <1>23, <1>30 DEF Manual!Flagged
<1> QED BY <1>31, <1>35, <1>34, <1>27, <1>23, <1>28, <1>29, MeetsBoth

(* DEC (HL). *)
LEMMA Does_dec_mem ==
  ASSUME NEW e, NEW m, NEW place, NEW at, Begins(e, m, place, at), e.instr = "dec_mem",
         NEW d, NEW l, After3(e, m, d, l),
         NEW p, Typed(p), Same(d, p, {"nmi_latched"}), NEW int, NEW port
  PROVE  Meets(Execute("dec_mem", p, int), l, Table(e, m, place, at, port))
<1>1. /\ Typed(e) /\ Shaped(e) /\ e.opcode \in Byte /\ ByteMemory(m)
      /\ index_pair(e) \in {"hl", "ix", "iy"}
  BY CoreTypes DEF Begins, index_pair
<1>2. "dec_mem" = DecodeBase(e.opcode)
  BY DEF Begins
<1>3. /\ X(e.opcode) = 0
      /\ Z(e.opcode) = 5
      /\ Y(e.opcode) = 6
  BY <1>1, <1>2, MapPlace
<1>4. Manual!OperandBytes(e.opcode) = 0
  BY <1>1, <1>3, FieldsType, OpcodeOf DEF Manual!OperandBytes, X, Y, Z
<1>5. Manual!NamesMemory(e.opcode)
  BY <1>1, <1>3 DEF Manual!NamesMemory, X, Y, Z
<1>6. e.index = 0 /\ index_pair(e) = "hl" /\ place = e.hl
  BY <1>5 DEF Begins, index_pair, DD, FD
<1>7. PICK d1, m1, d2, m2 :
      /\ OneCycle(e, m, d1, m1)
      /\ OneCycle(d1, m1, d2, m2)
      /\ OneCycle(d2, m2, d, l)
  BY DEF After1, After2, After3
<1>8. /\ e.instr = "dec_mem" /\ e.cycle = 0 /\ Shaped(e)
      /\ d1.instr = "dec_mem" /\ d1.cycle = 1 /\ Shaped(d1)
      /\ d2.instr = "dec_mem" /\ d2.cycle = 2 /\ Shaped(d2)
  BY <1>7, Fields DEF OneCycle, Begins
<1>9. CyclesOf["dec_mem"] = ArithmeticCycles("dec_mem") /\
        HooksOf["dec_mem"] = ArithmeticHooks("dec_mem")
  BY GroupCycles, GroupHooks DEF Instrs, ArithmeticInstrs
<1>10. /\ Enters(e, "mem_read", "at_hl", "dec_bus")
       /\ Enters(d1, "idle1", "none", "none")
       /\ Enters(d2, "mem_write", "at_hl", "none")
  BY <1>8, <1>9 DEF Enters, ArithmeticCycles, ArithmeticHooks, Operand, Called, AtPcTo, AtPopTo,
     On, Idle, Read, Write,
       IoIn, IoOut, Idle1, Idle2, Idle4, Idle5, Idle7
<1>11. PICK f1 :
       /\ Same(e, f1, {"bus_addr", "bus_data"})
       /\ f1.bus_addr = e.hl
       /\ f1.bus_data = Manual!Peek(m, e.hl)
       /\ f1.bus_data \in Byte
       /\ m1 = m
       /\ d1 = Put(Exit("dec_bus", f1), "cycle", e.cycle + 1)
  BY <1>7, <1>10, AtHlReads
<1>12. PICK out : out = Alu!alu_dec(f1.f, f1.bus_data)
  OBVIOUS
<1>13. /\ Same(e, d1, {"bus_addr", "bus_data", "f", "pending", "cycle"})
       /\ d1.bus_addr = e.hl
       /\ d1.bus_data = out.value
       /\ d1.f = out.flags
       /\ out = Alu!alu_dec(e.f, Manual!Peek(m, e.hl))
       /\ m1 = m
  BY <1>8, <1>11, <1>12, LeavesByte, InCore DEF Same
<1>14. /\ Same(e, d1, {"bus_addr", "bus_data", "f", "pending", "cycle"})
       /\ d1.bus_addr = e.hl
       /\ d1.bus_data = out.value
       /\ d1.f = out.flags
       /\ m1 = m
  BY <1>13, <1>1, BytesAt
<1>15. d2 = Put(Exit("none", d1), "cycle", d1.cycle + 1) /\ m2 = m1
  BY <1>7, <1>10, Idles DEF IdleCycles
<1>16. /\ Same(e, d2, {"bus_addr", "bus_data", "f", "pending", "cycle"})
       /\ d2.bus_addr = d1.bus_addr
       /\ d2.bus_data = d1.bus_data
       /\ d2.f = d1.f
       /\ m2 = m1
  BY <1>14, <1>13, <1>8, <1>15, Leaves, InCore DEF Same
<1>17. /\ Same(e, d2, {"bus_addr", "bus_data", "f", "pending", "cycle"})
       /\ d2.bus_addr = e.hl
       /\ d2.bus_data = out.value
       /\ d2.f = out.flags
       /\ m2 = m
  BY <1>14, <1>13, <1>16, <1>1, BytesAt
<1>18. Enter("at_hl", d2) = Put(d2, "bus_addr", d2.hl)
  BY <1>8, EnterReads
<1>19. PICK f3 :
       /\ Same(d2, f3, {"bus_addr"})
       /\ f3.bus_addr = d2.hl
       /\ d = Put(Exit("none", f3), "cycle", d2.cycle + 1)
       /\ l = Manual!Poke(m2, d2.hl, d2.bus_data)
  BY <1>7, <1>10, <1>18, KeepsWrites
<1>20. /\ Same(e, d, {"bus_addr", "bus_data", "f", "pending", "cycle"})
       /\ d.bus_addr = d2.hl
       /\ d.bus_data = d2.bus_data
       /\ d.f = d2.f
       /\ l = Manual!Poke(m2, d2.hl, d2.bus_data)
  BY <1>17, <1>8, <1>19, Leaves, InCore DEF Same
<1>21. d2.hl = e.hl
  BY <1>17, InCore DEF Same
<1>22. /\ Same(e, d, {"bus_addr", "bus_data", "f", "pending", "cycle"})
       /\ d.bus_data = out.value
       /\ d.f = out.flags
       /\ d.bus_addr = e.hl
       /\ l = Manual!Poke(m, e.hl, out.value)
  BY <1>17, <1>20, <1>21, <1>1, BytesAt
<1>23. /\ Same(e, p, {"bus_addr", "bus_data", "f", "pending", "cycle", "nmi_latched"})
       /\ p.bus_data = out.value
       /\ p.f = out.flags
       /\ p.bus_addr = e.hl
       /\ l = Manual!Poke(m, e.hl, out.value)
       /\ out = Alu!alu_dec(e.f, Manual!Peek(m, e.hl))
  BY <1>22, <1>13, InCore DEF Same
<1>24. PICK s : s = Past(e)
  OBVIOUS
<1>25. s = [Seen(e) EXCEPT !.pc = Plus(e.pc, 0)]
  BY <1>4, <1>24, SeenFields DEF Past, Seen
<1>26. p.pc = Plus(e.pc, 0)
  BY <1>23, <1>1, BytesAt, InCore DEF Same
<1>27. /\ Seen(p) = [s EXCEPT !.f = p.f]
       /\ \A x \in VisibleFields \ {"f"} : s[x] = p[x]
       /\ s.f = e.f
  BY <1>25, <1>23, <1>26, SeenFields DEF Same, Seen
<1>28. Table(e, m, place, at, port) = Manual!Quarter0(s, m, 6, 5, index_pair(e), place, at, e.q)
  BY <1>1, <1>3, <1>24, QuarterOf DEF Table
<1>29. Manual!Quarter0(s, m, 6, 5, index_pair(e), place, at, e.q)
         = Manual!Both(Manual!Flagged(s, Manual!alu_dec(s.f, Manual!Peek(m, place)).flags),
                       Manual!Poke(m, place, Manual!alu_dec(s.f, Manual!Peek(m, place)).value))
  BY <1>6 DEF Manual!Quarter0, Manual!Stores, Manual!Operand
<1>30. out = Manual!alu_dec(s.f, Manual!Peek(m, place))
  BY <1>23, <1>27, <1>6, SameArithmetic
<1>31. PICK r : r = Execute("dec_mem", p, int)
  OBVIOUS
<1>32. r = p
  BY <1>31, ExecutesNothing DEF Hooked
<1>33. Seen(r) = Seen(p)
  BY <1>32, <1>27
<1>34. l = Manual!Poke(m, place, Manual!alu_dec(s.f, Manual!Peek(m, place)).value)
  BY <1>23, <1>27, <1>1, <1>6, <1>30, SeenFields, InCore DEF Same, OperandsAt, Begins
<1>35. Seen(r) = Manual!Flagged(s, Manual!alu_dec(s.f, Manual!Peek(m, place)).flags)
  BY <1>33, <1>34, <1>27, <1>23, <1>30 DEF Manual!Flagged
<1> QED BY <1>31, <1>35, <1>34, <1>27, <1>23, <1>28, <1>29, MeetsBoth

(* INC rp. *)
LEMMA Does_inc_rp ==
  ASSUME NEW e, NEW m, NEW place, NEW at, Begins(e, m, place, at), e.instr = "inc_rp",
         NEW d, NEW l, After1(e, m, d, l),
         NEW p, Typed(p), Same(d, p, {"nmi_latched"}), NEW int, NEW port
  PROVE  Meets(Execute("inc_rp", p, int), l, Table(e, m, place, at, port))
<1>1. /\ Typed(e) /\ Shaped(e) /\ e.opcode \in Byte /\ ByteMemory(m)
      /\ index_pair(e) \in {"hl", "ix", "iy"}
  BY CoreTypes DEF Begins, index_pair
<1>2. "inc_rp" = DecodeBase(e.opcode)
  BY DEF Begins
<1>3. /\ X(e.opcode) = 0
      /\ Z(e.opcode) = 3
      /\ Y(e.opcode) % 2 = 0
      /\ Y(e.opcode) \in 0 .. 7
  BY <1>1, <1>2, MapPlace
<1>4. Manual!OperandBytes(e.opcode) = 0
  BY <1>1, <1>3, FieldsType, OpcodeOf DEF Manual!OperandBytes, X, Y, Z
<1>5. PICK pair : pair = pair_rp(e) /\ pair \in {"bc", "de", "hl", "ix", "iy", "sp"}
  BY <1>1, PairNamed
<1>6. OneCycle(e, m, d, l)
  BY DEF After1
<1>7. e.instr = "inc_rp" /\ e.cycle = 0 /\ Shaped(e)
  BY <1>6, Fields DEF OneCycle, Begins
<1>8. CyclesOf["inc_rp"] = ArithmeticCycles("inc_rp") /\
        HooksOf["inc_rp"] = ArithmeticHooks("inc_rp")
  BY GroupCycles, GroupHooks DEF Instrs, ArithmeticInstrs
<1>9. Enters(e, "idle2", "none", "none")
  BY <1>7, <1>8 DEF Enters, ArithmeticCycles, ArithmeticHooks, Operand, Called, AtPcTo, AtPopTo,
     On, Idle, Read, Write,
       IoIn, IoOut, Idle1, Idle2, Idle4, Idle5, Idle7
<1>10. d = Put(Exit("none", e), "cycle", e.cycle + 1) /\ l = m
  BY <1>6, <1>9, Idles DEF IdleCycles
<1>11. /\ Same(e, d, {"cycle"})
       /\ l = m
  BY <1>5, <1>7, <1>10, Leaves, InCore DEF Same
<1>12. /\ Same(e, p, {"cycle", "nmi_latched"})
       /\ l = m
  BY <1>11, <1>5, InCore DEF Same
<1>13. PICK s : s = Past(e)
  OBVIOUS
<1>14. s = [Seen(e) EXCEPT !.pc = Plus(e.pc, 0)]
  BY <1>4, <1>13, SeenFields DEF Past, Seen
<1>15. p.pc = Plus(e.pc, 0)
  BY <1>12, <1>1, BytesAt, InCore DEF Same
<1>16. Seen(p) = s /\ \A x \in VisibleFields : s[x] = p[x]
  BY <1>14, <1>12, <1>15, SeenFields DEF Same, Seen
<1>17. Manual!Quarter0(s, m, Y(e.opcode), 3, index_pair(e), place, at, e.q)
         = Manual!Both(Put(s, pair, Plus(s[pair], 1)), m)
  BY <1>1, <1>3, <1>5, RowsOfPairs
<1>18. Table(e, m, place, at, port)
         = Manual!Quarter0(s, m, Y(e.opcode), 3, index_pair(e), place, at, e.q)
  BY <1>1, <1>3, <1>13, QuarterOf DEF Table
<1>19. Manual!Quarter0(s, m, Y(e.opcode), 3, index_pair(e), place, at, e.q)
         = Manual!Both([s EXCEPT ![pair] = Plus(@, 1)],
                       m)
  BY <1>17 DEF Put
<1>20. OperandsOf(e, p) /\ p.opcode = e.opcode
  BY <1>12, InCore DEF Same, OperandsOf
<1>21. /\ index_pair(p) = index_pair(e) /\ pair_rp(p) = pair_rp(e)
       /\ \A w : Slot(p, w) = Slot(e, w)
  BY <1>20, OperandsAgree
<1>22. pair_rp(p) = pair
  BY <1>20, <1>21, <1>5
<1>23. PICK r : r = Execute("inc_rp", p, int)
  OBVIOUS
<1>24. r = ArithmeticEffect("inc_rp", p)
  BY <1>23, Executes DEF Arithmetics
<1>25. r = Put(p, pair, Plus(p[pair], 1))
  BY <1>24, <1>20, <1>21, <1>22 DEF ArithmeticEffect, Put
<1>26. Seen(r) = [s EXCEPT ![pair] = Plus(p[pair], 1)]
  BY <1>25, <1>16, <1>20, <1>21, <1>22, <1>5, PairMeans
<1>27. p[pair] = s[pair]
  BY <1>12, <1>16, <1>1, SeenFields, InCore, <1>5 DEF Same, OperandsAt, Begins
<1>28. Seen(r) = [s EXCEPT ![pair] = Plus(@, 1)]
  BY <1>26, <1>27, <1>12
<1> QED BY <1>23, <1>28, <1>27, <1>12, <1>18, <1>19, MeetsBoth

(* DEC rp. *)
LEMMA Does_dec_rp ==
  ASSUME NEW e, NEW m, NEW place, NEW at, Begins(e, m, place, at), e.instr = "dec_rp",
         NEW d, NEW l, After1(e, m, d, l),
         NEW p, Typed(p), Same(d, p, {"nmi_latched"}), NEW int, NEW port
  PROVE  Meets(Execute("dec_rp", p, int), l, Table(e, m, place, at, port))
<1>1. /\ Typed(e) /\ Shaped(e) /\ e.opcode \in Byte /\ ByteMemory(m)
      /\ index_pair(e) \in {"hl", "ix", "iy"}
  BY CoreTypes DEF Begins, index_pair
<1>2. "dec_rp" = DecodeBase(e.opcode)
  BY DEF Begins
<1>3. /\ X(e.opcode) = 0
      /\ Z(e.opcode) = 3
      /\ Y(e.opcode) % 2 = 1
      /\ Y(e.opcode) \in 0 .. 7
  BY <1>1, <1>2, MapPlace
<1>4. Manual!OperandBytes(e.opcode) = 0
  BY <1>1, <1>3, FieldsType, OpcodeOf DEF Manual!OperandBytes, X, Y, Z
<1>5. PICK pair : pair = pair_rp(e) /\ pair \in {"bc", "de", "hl", "ix", "iy", "sp"}
  BY <1>1, PairNamed
<1>6. OneCycle(e, m, d, l)
  BY DEF After1
<1>7. e.instr = "dec_rp" /\ e.cycle = 0 /\ Shaped(e)
  BY <1>6, Fields DEF OneCycle, Begins
<1>8. CyclesOf["dec_rp"] = ArithmeticCycles("dec_rp") /\
        HooksOf["dec_rp"] = ArithmeticHooks("dec_rp")
  BY GroupCycles, GroupHooks DEF Instrs, ArithmeticInstrs
<1>9. Enters(e, "idle2", "none", "none")
  BY <1>7, <1>8 DEF Enters, ArithmeticCycles, ArithmeticHooks, Operand, Called, AtPcTo, AtPopTo,
     On, Idle, Read, Write,
       IoIn, IoOut, Idle1, Idle2, Idle4, Idle5, Idle7
<1>10. d = Put(Exit("none", e), "cycle", e.cycle + 1) /\ l = m
  BY <1>6, <1>9, Idles DEF IdleCycles
<1>11. /\ Same(e, d, {"cycle"})
       /\ l = m
  BY <1>5, <1>7, <1>10, Leaves, InCore DEF Same
<1>12. /\ Same(e, p, {"cycle", "nmi_latched"})
       /\ l = m
  BY <1>11, <1>5, InCore DEF Same
<1>13. PICK s : s = Past(e)
  OBVIOUS
<1>14. s = [Seen(e) EXCEPT !.pc = Plus(e.pc, 0)]
  BY <1>4, <1>13, SeenFields DEF Past, Seen
<1>15. p.pc = Plus(e.pc, 0)
  BY <1>12, <1>1, BytesAt, InCore DEF Same
<1>16. Seen(p) = s /\ \A x \in VisibleFields : s[x] = p[x]
  BY <1>14, <1>12, <1>15, SeenFields DEF Same, Seen
<1>17. Manual!Quarter0(s, m, Y(e.opcode), 3, index_pair(e), place, at, e.q)
         = Manual!Both(Put(s, pair, Plus(s[pair], -1)), m)
  BY <1>1, <1>3, <1>5, RowsOfPairs
<1>18. Table(e, m, place, at, port)
         = Manual!Quarter0(s, m, Y(e.opcode), 3, index_pair(e), place, at, e.q)
  BY <1>1, <1>3, <1>13, QuarterOf DEF Table
<1>19. Manual!Quarter0(s, m, Y(e.opcode), 3, index_pair(e), place, at, e.q)
         = Manual!Both([s EXCEPT ![pair] = Plus(@, -1)],
                       m)
  BY <1>17 DEF Put
<1>20. OperandsOf(e, p) /\ p.opcode = e.opcode
  BY <1>12, InCore DEF Same, OperandsOf
<1>21. /\ index_pair(p) = index_pair(e) /\ pair_rp(p) = pair_rp(e)
       /\ \A w : Slot(p, w) = Slot(e, w)
  BY <1>20, OperandsAgree
<1>22. pair_rp(p) = pair
  BY <1>20, <1>21, <1>5
<1>23. PICK r : r = Execute("dec_rp", p, int)
  OBVIOUS
<1>24. r = ArithmeticEffect("dec_rp", p)
  BY <1>23, Executes DEF Arithmetics
<1>25. r = Put(p, pair, Plus(p[pair], -1))
  BY <1>24, <1>20, <1>21, <1>22 DEF ArithmeticEffect, Put
<1>26. Seen(r) = [s EXCEPT ![pair] = Plus(p[pair], -1)]
  BY <1>25, <1>16, <1>20, <1>21, <1>22, <1>5, PairMeans
<1>27. p[pair] = s[pair]
  BY <1>12, <1>16, <1>1, SeenFields, InCore, <1>5 DEF Same, OperandsAt, Begins
<1>28. Seen(r) = [s EXCEPT ![pair] = Plus(@, -1)]
  BY <1>26, <1>27, <1>12
<1> QED BY <1>23, <1>28, <1>27, <1>12, <1>18, <1>19, MeetsBoth

(* ADD HL,rp. *)
LEMMA Does_add_hl_rp ==
  ASSUME NEW e, NEW m, NEW place, NEW at, Begins(e, m, place, at), e.instr = "add_hl_rp",
         NEW d, NEW l, After1(e, m, d, l),
         NEW p, Typed(p), Same(d, p, {"nmi_latched"}), NEW int, NEW port
  PROVE  Meets(Execute("add_hl_rp", p, int), l, Table(e, m, place, at, port))
<1>1. /\ Typed(e) /\ Shaped(e) /\ e.opcode \in Byte /\ ByteMemory(m)
      /\ index_pair(e) \in {"hl", "ix", "iy"}
  BY CoreTypes DEF Begins, index_pair
<1>2. "add_hl_rp" = DecodeBase(e.opcode)
  BY DEF Begins
<1>3. /\ X(e.opcode) = 0
      /\ Z(e.opcode) = 1
      /\ Y(e.opcode) % 2 = 1
      /\ Y(e.opcode) \in 0 .. 7
  BY <1>1, <1>2, MapPlace
<1>4. Manual!OperandBytes(e.opcode) = 0
  BY <1>1, <1>3, FieldsType, OpcodeOf DEF Manual!OperandBytes, X, Y, Z
<1>5. PICK pair : pair = pair_rp(e) /\ pair \in {"bc", "de", "hl", "ix", "iy", "sp"}
  BY <1>1, PairNamed
<1>6. OneCycle(e, m, d, l)
  BY DEF After1
<1>7. e.instr = "add_hl_rp" /\ e.cycle = 0 /\ Shaped(e)
  BY <1>6, Fields DEF OneCycle, Begins
<1>8. CyclesOf["add_hl_rp"] = ArithmeticCycles("add_hl_rp") /\
        HooksOf["add_hl_rp"] = ArithmeticHooks("add_hl_rp")
  BY GroupCycles, GroupHooks DEF Instrs, ArithmeticInstrs
<1>9. Enters(e, "idle7", "none", "none")
  BY <1>7, <1>8 DEF Enters, ArithmeticCycles, ArithmeticHooks, Operand, Called, AtPcTo, AtPopTo,
     On, Idle, Read, Write,
       IoIn, IoOut, Idle1, Idle2, Idle4, Idle5, Idle7
<1>10. d = Put(Exit("none", e), "cycle", e.cycle + 1) /\ l = m
  BY <1>6, <1>9, Idles DEF IdleCycles
<1>11. /\ Same(e, d, {"cycle"})
       /\ l = m
  BY <1>5, <1>7, <1>10, Leaves, InCore DEF Same
<1>12. /\ Same(e, p, {"cycle", "nmi_latched"})
       /\ l = m
  BY <1>11, <1>5, InCore DEF Same
<1>13. PICK s : s = Past(e)
  OBVIOUS
<1>14. s = [Seen(e) EXCEPT !.pc = Plus(e.pc, 0)]
  BY <1>4, <1>13, SeenFields DEF Past, Seen
<1>15. p.pc = Plus(e.pc, 0)
  BY <1>12, <1>1, BytesAt, InCore DEF Same
<1>16. Seen(p) = s /\ \A x \in VisibleFields : s[x] = p[x]
  BY <1>14, <1>12, <1>15, SeenFields DEF Same, Seen
<1>17. PICK out : out = Manual!alu_add16(s[index_pair(e)], s.f, s[pair])
  OBVIOUS
<1>18. Manual!Quarter0(s, m, Y(e.opcode), 1, index_pair(e), place, at, e.q)
         = Manual!Both(Manual!Flagged(Put(s, index_pair(e), out.value), out.flags), m)
  BY <1>17, <1>1, <1>3, <1>5, RowsOfPairs
<1>19. Table(e, m, place, at, port)
         = Manual!Quarter0(s, m, Y(e.opcode), 1, index_pair(e), place, at, e.q)
  BY <1>1, <1>3, <1>13, QuarterOf DEF Table
<1>20. Manual!Quarter0(s, m, Y(e.opcode), 1, index_pair(e), place, at, e.q)
         = Manual!Both(Manual!Flagged([s EXCEPT ![index_pair(e)] = out.value], out.flags),
                       m)
  BY <1>17, <1>18 DEF Put
<1>21. OperandsOf(e, p) /\ p.opcode = e.opcode
  BY <1>12, InCore DEF Same, OperandsOf
<1>22. /\ index_pair(p) = index_pair(e) /\ pair_rp(p) = pair_rp(e)
       /\ \A w : Slot(p, w) = Slot(e, w)
  BY <1>21, OperandsAgree
<1>23. pair_rp(p) = pair
  BY <1>21, <1>22, <1>5
<1>24. p[index_pair(e)] = s[index_pair(e)] /\ p[pair] = s[pair] /\ p.f = s.f
  BY <1>1, <1>5, <1>16, SeenFields
<1>25. out = Alu!alu_add16(p[index_pair(p)], p.f, p[pair_rp(p)])
  BY <1>17, <1>18, <1>21, <1>22, <1>23, <1>24, SameArithmetic
<1>26. PICK r : r = Execute("add_hl_rp", p, int)
  OBVIOUS
<1>27. r = ArithmeticEffect("add_hl_rp", p)
  BY <1>26, Executes DEF Arithmetics
<1>28. r = WideOut(p, index_pair(e), out)
  BY <1>27, <1>21, <1>22, <1>23, <1>24, <1>25 DEF ArithmeticEffect
<1>29. Seen(r) = Manual!Flagged([s EXCEPT ![index_pair(e)] = out.value], out.flags)
  BY <1>28, <1>16, <1>21, <1>22, <1>23, <1>24, <1>25, <1>1, WideMeans
<1>30. Seen(r) = Manual!Flagged([s EXCEPT ![index_pair(e)] = out.value], out.flags)
  BY <1>29, <1>12
<1> QED BY <1>26, <1>30, <1>12, <1>19, <1>20, MeetsBoth
-----------------------------------------------------------------------------
(***************************************************************************)
(* Jumps, calls, returns and ports. A condition that fails ends the        *)
(* instruction earlier: the lemmas whose names end in _not.                *)
(***************************************************************************)

(* JP nn. *)
LEMMA Does_jump ==
  ASSUME NEW e, NEW m, NEW place, NEW at, Begins(e, m, place, at), e.instr = "jump",
         NEW d, NEW l, After2(e, m, d, l),
         NEW p, Typed(p), Same(d, p, {"nmi_latched"}), NEW int, NEW port
  PROVE  Meets(Execute("jump", p, int), l, Table(e, m, place, at, port))
<1>1. /\ Typed(e) /\ Shaped(e) /\ e.opcode \in Byte /\ ByteMemory(m)
      /\ index_pair(e) \in {"hl", "ix", "iy"}
  BY CoreTypes DEF Begins, index_pair
<1>2. "jump" = DecodeBase(e.opcode)
  BY DEF Begins
<1>3. /\ X(e.opcode) = 3
      /\ Z(e.opcode) = 3
      /\ Y(e.opcode) = 0
  BY <1>1, <1>2, MapPlace
<1>4. Manual!OperandBytes(e.opcode) = 2
  BY <1>1, <1>3, FieldsType, OpcodeOf DEF Manual!OperandBytes, X, Y, Z
<1>5. PICK d1, m1 :
      /\ OneCycle(e, m, d1, m1)
      /\ OneCycle(d1, m1, d, l)
  BY DEF After1, After2
<1>6. /\ e.instr = "jump" /\ e.cycle = 0 /\ Shaped(e)
      /\ d1.instr = "jump" /\ d1.cycle = 1 /\ Shaped(d1)
  BY <1>5, Fields DEF OneCycle, Begins
<1>7. CyclesOf["jump"] = ControlCycles("jump") /\ HooksOf["jump"] = ControlHooks("jump")
  BY GroupCycles, GroupHooks DEF Instrs, ControlInstrs
<1>8. /\ Enters(e, "mem_read", "at_pc", "to_wz_low")
      /\ Enters(d1, "mem_read", "at_pc", "none")
  BY <1>6, <1>7 DEF Enters, ControlCycles, ControlHooks, Operand, Called, AtPcTo, AtPopTo, On,
     Idle, Read, Write,
       IoIn, IoOut, Idle1, Idle2, Idle4, Idle5, Idle7
<1>9. PICK f1 :
      /\ Same(e, f1, {"bus_addr", "bus_data", "pc"})
      /\ f1.bus_addr = e.pc
      /\ f1.bus_data = Manual!Peek(m, e.pc)
      /\ f1.bus_data \in Byte
      /\ m1 = m
      /\ f1.pc = Plus(e.pc, 1)
      /\ d1 = Put(Exit("to_wz_low", f1), "cycle", e.cycle + 1)
  BY <1>5, <1>8, AtPcReads
<1>10. /\ Same(e, d1, {"bus_addr", "bus_data", "pc", "wz", "cycle"})
       /\ d1.bus_addr = e.pc
       /\ d1.bus_data = Manual!Peek(m, e.pc)
       /\ d1.pc = Plus(e.pc, 1)
       /\ d1.wz = WithLow(e.wz, Manual!Peek(m, e.pc))
       /\ m1 = m
  BY <1>6, <1>9, Leaves, InCore DEF Same
<1>11. PICK f2 :
       /\ Same(d1, f2, {"bus_addr", "bus_data", "pc"})
       /\ f2.bus_addr = d1.pc
       /\ f2.bus_data = Manual!Peek(m1, d1.pc)
       /\ f2.bus_data \in Byte
       /\ l = m1
       /\ f2.pc = Plus(d1.pc, 1)
       /\ d = Put(Exit("none", f2), "cycle", d1.cycle + 1)
  BY <1>5, <1>8, AtPcReads
<1>12. /\ Same(e, d, {"bus_addr", "bus_data", "pc", "wz", "cycle"})
       /\ d.bus_addr = d1.pc
       /\ d.bus_data = Manual!Peek(m1, d1.pc)
       /\ d.pc = Plus(d1.pc, 1)
       /\ d.wz = d1.wz
       /\ l = m1
  BY <1>10, <1>6, <1>11, Leaves, InCore DEF Same
<1>13. /\ Same(e, d, {"bus_addr", "bus_data", "pc", "wz", "cycle"})
       /\ d.wz = WithLow(e.wz, Manual!Peek(m, e.pc))
       /\ d.bus_addr = Plus(e.pc, 1)
       /\ d.bus_data = Manual!Peek(m, e.pc + 1)
       /\ d.pc = Plus(e.pc, 2)
       /\ l = m
  BY <1>10, <1>12, <1>1, BytesAt
<1>14. /\ Same(e, p, {"bus_addr", "bus_data", "pc", "wz", "cycle", "nmi_latched"})
       /\ p.wz = WithLow(e.wz, Manual!Peek(m, e.pc))
       /\ p.bus_addr = Plus(e.pc, 1)
       /\ p.bus_data = Manual!Peek(m, e.pc + 1)
       /\ p.pc = Plus(e.pc, 2)
       /\ l = m
  BY <1>13, InCore DEF Same
<1>15. PICK s : s = Past(e)
  OBVIOUS
<1>16. s = [Seen(e) EXCEPT !.pc = Plus(e.pc, 2)]
  BY <1>4, <1>15, SeenFields DEF Past, Seen
<1>17. p.pc = Plus(e.pc, 2)
  BY <1>14, <1>1, BytesAt, InCore DEF Same
<1>18. Seen(p) = s /\ \A x \in VisibleFields : s[x] = p[x]
  BY <1>16, <1>14, <1>17, SeenFields DEF Same, Seen
<1>19. Table(e, m, place, at, port) = Manual!Quarter3(s, m, 0, 3, index_pair(e), at, port)
  BY <1>1, <1>3, <1>15, QuarterOf DEF Table
<1>20. Manual!Quarter3(s, m, 0, 3, index_pair(e), at, port)
         = Manual!Both([s EXCEPT !.pc = Manual!PeekWord(m, at)],
                       m)
  BY DEF Manual!Quarter3
<1>21. PICK r : r = Execute("jump", p, int)
  OBVIOUS
<1>22. r = ControlEffect("jump", p)
  BY <1>21, Executes DEF Controls
<1>23. r = GoTo(p, WithHigh(p.wz, p.bus_data))
  BY <1>22 DEF ControlEffect
<1>24. Seen(r) = [s EXCEPT !.pc = WithHigh(p.wz, p.bus_data)]
  BY <1>23, <1>18, GoToMeans
<1>25. WithHigh(p.wz, p.bus_data) = Manual!PeekWord(m, at)
  BY <1>14, <1>18, <1>1, SeenFields, InCore, BytesAt DEF Same, OperandsAt, Begins
<1>26. Seen(r) = [s EXCEPT !.pc = Manual!PeekWord(m, at)]
  BY <1>24, <1>25, <1>14
<1> QED BY <1>21, <1>26, <1>25, <1>14, <1>19, <1>20, MeetsBoth

(* JR e. *)
LEMMA Does_jr ==
  ASSUME NEW e, NEW m, NEW place, NEW at, Begins(e, m, place, at), e.instr = "jr",
         NEW d, NEW l, After2(e, m, d, l),
         NEW p, Typed(p), Same(d, p, {"nmi_latched"}), NEW int, NEW port
  PROVE  Meets(Execute("jr", p, int), l, Table(e, m, place, at, port))
<1>1. /\ Typed(e) /\ Shaped(e) /\ e.opcode \in Byte /\ ByteMemory(m)
      /\ index_pair(e) \in {"hl", "ix", "iy"}
  BY CoreTypes DEF Begins, index_pair
<1>2. "jr" = DecodeBase(e.opcode)
  BY DEF Begins
<1>3. /\ X(e.opcode) = 0
      /\ Z(e.opcode) = 0
      /\ Y(e.opcode) = 3
  BY <1>1, <1>2, MapPlace
<1>4. Manual!OperandBytes(e.opcode) = 1
  BY <1>1, <1>3, FieldsType, OpcodeOf DEF Manual!OperandBytes, X, Y, Z
<1>5. PICK d1, m1 :
      /\ OneCycle(e, m, d1, m1)
      /\ OneCycle(d1, m1, d, l)
  BY DEF After1, After2
<1>6. /\ e.instr = "jr" /\ e.cycle = 0 /\ Shaped(e)
      /\ d1.instr = "jr" /\ d1.cycle = 1 /\ Shaped(d1)
  BY <1>5, Fields DEF OneCycle, Begins
<1>7. CyclesOf["jr"] = ControlCycles("jr") /\ HooksOf["jr"] = ControlHooks("jr")
  BY GroupCycles, GroupHooks DEF Instrs, ControlInstrs
<1>8. /\ Enters(e, "mem_read", "at_pc", "none")
      /\ Enters(d1, "idle5", "jump_relative", "none")
  BY <1>6, <1>7 DEF Enters, ControlCycles, ControlHooks, Operand, Called, AtPcTo, AtPopTo, On,
     Idle, Read, Write,
       IoIn, IoOut, Idle1, Idle2, Idle4, Idle5, Idle7
<1>9. PICK f1 :
      /\ Same(e, f1, {"bus_addr", "bus_data", "pc"})
      /\ f1.bus_addr = e.pc
      /\ f1.bus_data = Manual!Peek(m, e.pc)
      /\ f1.bus_data \in Byte
      /\ m1 = m
      /\ f1.pc = Plus(e.pc, 1)
      /\ d1 = Put(Exit("none", f1), "cycle", e.cycle + 1)
  BY <1>5, <1>8, AtPcReads
<1>10. /\ Same(e, d1, {"bus_addr", "bus_data", "pc", "cycle"})
       /\ d1.bus_addr = e.pc
       /\ d1.bus_data = Manual!Peek(m, e.pc)
       /\ d1.pc = Plus(e.pc, 1)
       /\ m1 = m
  BY <1>6, <1>9, Leaves, InCore DEF Same
<1>11. /\ Same(d1, d, {"pc", "wz", "cycle"})
       /\ d.pc = Plus(d1.pc, Signed(d1.bus_data))
       /\ l = m1
  BY <1>5, <1>8, Jumps DEF IdleCycles
<1>12. /\ Same(e, d, {"bus_addr", "bus_data", "pc", "cycle", "wz"})
       /\ d.pc = Plus(d1.pc, Signed(d1.bus_data))
       /\ d.bus_addr = d1.bus_addr
       /\ d.bus_data = d1.bus_data
       /\ l = m1
  BY <1>10, <1>6, <1>11, Leaves, InCore DEF Same
<1>13. /\ Same(e, d, {"bus_addr", "bus_data", "pc", "cycle", "wz"})
       /\ d.bus_addr = e.pc
       /\ d.bus_data = Manual!Peek(m, e.pc)
       /\ d.pc = Plus(Plus(e.pc, 1), Signed(Manual!Peek(m, e.pc)))
       /\ l = m
  BY <1>10, <1>12, <1>1, BytesAt
<1>14. /\ Same(e, p, {"bus_addr", "bus_data", "pc", "cycle", "wz", "nmi_latched"})
       /\ p.bus_addr = e.pc
       /\ p.bus_data = Manual!Peek(m, e.pc)
       /\ p.pc = Plus(Plus(e.pc, 1), Signed(Manual!Peek(m, e.pc)))
       /\ l = m
  BY <1>13, InCore DEF Same
<1>15. PICK s : s = Past(e)
  OBVIOUS
<1>16. s = [Seen(e) EXCEPT !.pc = Plus(e.pc, 1)]
  BY <1>4, <1>15, SeenFields DEF Past, Seen
<1>17. /\ Seen(p) = [s EXCEPT !.pc = p.pc]
       /\ \A x \in VisibleFields \ {"pc"} : s[x] = p[x]
       /\ s.pc = Plus(e.pc, 1)
  BY <1>16, <1>14, SeenFields DEF Same, Seen
<1>18. Table(e, m, place, at, port) = Manual!Quarter0(s, m, 3, 0, index_pair(e), place, at, e.q)
  BY <1>1, <1>3, <1>15, QuarterOf DEF Table
<1>19. Manual!Quarter0(s, m, 3, 0, index_pair(e), place, at, e.q)
         = Manual!Both([s EXCEPT !.pc = Plus(@, Signed(Manual!Peek(m, at)))],
                       m)
  BY SameWords DEF Manual!Quarter0
<1>20. PICK r : r = Execute("jr", p, int)
  OBVIOUS
<1>21. r = p
  BY <1>20, ExecutesNothing DEF Hooked
<1>22. Seen(r) = Seen(p)
  BY <1>21, <1>17
<1>23. Seen(r) = [s EXCEPT !.pc = Plus(@, Signed(Manual!Peek(m, at)))]
  BY <1>22, <1>14, <1>17, <1>14, <1>14, <1>1 DEF Begins, OperandsAt
<1> QED BY <1>20, <1>23, <1>14, <1>17, <1>14, <1>18, <1>19, MeetsBoth

(* JR cc,e, taken. *)
LEMMA Does_jr_cc ==
  ASSUME NEW e, NEW m, NEW place, NEW at, Begins(e, m, place, at), e.instr = "jr_cc",
         NEW d, NEW l, After2(e, m, d, l),
         NEW p, Typed(p), Same(d, p, {"nmi_latched"}), NEW int, NEW port
  PROVE  Meets(Execute("jr_cc", p, int), l, Table(e, m, place, at, port))
<1>1. /\ Typed(e) /\ Shaped(e) /\ e.opcode \in Byte /\ ByteMemory(m)
      /\ index_pair(e) \in {"hl", "ix", "iy"}
  BY CoreTypes DEF Begins, index_pair
<1>2. "jr_cc" = DecodeBase(e.opcode)
  BY DEF Begins
<1>3. /\ X(e.opcode) = 0
      /\ Z(e.opcode) = 0
      /\ Y(e.opcode) \in 4 .. 7
      /\ Y(e.opcode) % 4 = Y(e.opcode) - 4
  BY <1>1, <1>2, MapPlace
<1>4. Manual!OperandBytes(e.opcode) = 1
  BY <1>1, <1>3, FieldsType, OpcodeOf DEF Manual!OperandBytes, X, Y, Z
<1>5. PICK d1, m1 :
      /\ OneCycle(e, m, d1, m1)
      /\ OneCycle(d1, m1, d, l)
      /\ GoesOn(d1)
  BY DEF After1, After2
<1>6. /\ e.instr = "jr_cc" /\ e.cycle = 0 /\ Shaped(e)
      /\ d1.instr = "jr_cc" /\ d1.cycle = 1 /\ Shaped(d1)
  BY <1>5, Fields DEF OneCycle, Begins
<1>7. CyclesOf["jr_cc"] = ControlCycles("jr_cc") /\ HooksOf["jr_cc"] = ControlHooks("jr_cc")
  BY GroupCycles, GroupHooks DEF Instrs, ControlInstrs
<1>8. /\ Enters(e, "mem_read", "at_pc", "jr_condition")
      /\ Enters(d1, "idle5", "jump_relative", "none")
  BY <1>6, <1>7 DEF Enters, ControlCycles, ControlHooks, Operand, Called, AtPcTo, AtPopTo, On,
     Idle, Read, Write,
       IoIn, IoOut, Idle1, Idle2, Idle4, Idle5, Idle7
<1>9. PICK f1 :
      /\ Same(e, f1, {"bus_addr", "bus_data", "pc"})
      /\ f1.bus_addr = e.pc
      /\ f1.bus_data = Manual!Peek(m, e.pc)
      /\ f1.bus_data \in Byte
      /\ m1 = m
      /\ f1.pc = Plus(e.pc, 1)
      /\ d1 = Put(Exit("jr_condition", f1), "cycle", e.cycle + 1)
  BY <1>5, <1>8, AtPcReads
<1>10. /\ Same(e, d1, {"bus_addr", "bus_data", "pc", "cycle_limit", "cycle"})
       /\ d1.bus_addr = e.pc
       /\ d1.bus_data = Manual!Peek(m, e.pc)
       /\ d1.pc = Plus(e.pc, 1)
       /\ d1.cycle_limit = IF Alu!condition_met(e.f, Y(e.opcode) % 4) THEN e.cycle_limit
            ELSE e.cycle + 1
       /\ m1 = m
  BY <1>6, <1>9, LeavesOrEnds, InCore DEF Same
<1>11. /\ Same(e, d1, {"bus_addr", "bus_data", "pc", "cycle_limit", "cycle"})
       /\ d1.bus_addr = e.pc
       /\ d1.bus_data = Manual!Peek(m, e.pc)
       /\ d1.pc = Plus(e.pc, 1)
       /\ m1 = m
  BY <1>10, <1>1, BytesAt
<1>12. /\ Same(d1, d, {"pc", "wz", "cycle"})
       /\ d.pc = Plus(d1.pc, Signed(d1.bus_data))
       /\ l = m1
  BY <1>5, <1>8, Jumps DEF IdleCycles
<1>13. /\ Same(e, d, {"bus_addr", "bus_data", "pc", "cycle_limit", "cycle", "wz"})
       /\ d.pc = Plus(d1.pc, Signed(d1.bus_data))
       /\ d.bus_addr = d1.bus_addr
       /\ d.bus_data = d1.bus_data
       /\ l = m1
  BY <1>11, <1>10, <1>6, <1>12, Leaves, InCore DEF Same
<1>14. /\ Same(e, d, {"bus_addr", "bus_data", "pc", "cycle_limit", "cycle", "wz"})
       /\ d.bus_addr = e.pc
       /\ d.bus_data = Manual!Peek(m, e.pc)
       /\ d.pc = Plus(Plus(e.pc, 1), Signed(Manual!Peek(m, e.pc)))
       /\ l = m
  BY <1>11, <1>10, <1>13, <1>1, BytesAt
<1>15. d1.cycle = e.cycle + 1 /\ d1.cycle \in Nat
  BY <1>5 DEF OneCycle, Typed
<1>16. Alu!condition_met(e.f, Y(e.opcode) % 4)
  BY <1>5, <1>6, <1>10, <1>15, <1>1 DEF GoesOn
<1>17. /\ Same(e, p, {"bus_addr", "bus_data", "pc", "cycle_limit", "cycle", "wz", "nmi_latched"})
       /\ p.bus_addr = e.pc
       /\ p.bus_data = Manual!Peek(m, e.pc)
       /\ p.pc = Plus(Plus(e.pc, 1), Signed(Manual!Peek(m, e.pc)))
       /\ l = m
  BY <1>14, InCore DEF Same
<1>18. PICK s : s = Past(e)
  OBVIOUS
<1>19. s = [Seen(e) EXCEPT !.pc = Plus(e.pc, 1)]
  BY <1>4, <1>18, SeenFields DEF Past, Seen
<1>20. /\ Seen(p) = [s EXCEPT !.pc = p.pc]
       /\ \A x \in VisibleFields \ {"pc"} : s[x] = p[x]
       /\ s.pc = Plus(e.pc, 1)
  BY <1>19, <1>17, SeenFields DEF Same, Seen
<1>21. s.f = e.f
  BY <1>20, <1>17, SeenFields, InCore DEF Same
<1>22. Manual!condition_met(s.f, Y(e.opcode) - 4)
  BY <1>16, <1>3, <1>21, SameArithmetic
<1>23. Table(e, m, place, at, port)
         = Manual!Quarter0(s, m, Y(e.opcode), 0, index_pair(e), place, at, e.q)
  BY <1>1, <1>3, <1>18, QuarterOf DEF Table
<1>24. Manual!Quarter0(s, m, Y(e.opcode), 0, index_pair(e), place, at, e.q)
         = Manual!Both([s EXCEPT !.pc = Plus(@, Signed(Manual!Peek(m, at)))],
                       m)
  BY <1>21, <1>22, <1>3, SameWords DEF Manual!Quarter0
<1>25. PICK r : r = Execute("jr_cc", p, int)
  OBVIOUS
<1>26. r = p
  BY <1>25, ExecutesNothing DEF Hooked
<1>27. Seen(r) = Seen(p)
  BY <1>26, <1>20
<1>28. Seen(r) = [s EXCEPT !.pc = Plus(@, Signed(Manual!Peek(m, at)))]
  BY <1>27, <1>17, <1>20, <1>17, <1>17, <1>1 DEF Begins, OperandsAt
<1> QED BY <1>25, <1>28, <1>17, <1>20, <1>17, <1>23, <1>24, MeetsBoth

(* JR cc,e, not taken. *)
LEMMA Does_jr_cc_not ==
  ASSUME NEW e, NEW m, NEW place, NEW at, Begins(e, m, place, at), e.instr = "jr_cc",
         NEW d, NEW l, After1(e, m, d, l),
         ~GoesOn(d), e.cycle_limit = 2,
         NEW p, Typed(p), Same(d, p, {"nmi_latched"}), NEW int, NEW port
  PROVE  Meets(Execute("jr_cc", p, int), l, Table(e, m, place, at, port))
<1>1. /\ Typed(e) /\ Shaped(e) /\ e.opcode \in Byte /\ ByteMemory(m)
      /\ index_pair(e) \in {"hl", "ix", "iy"}
  BY CoreTypes DEF Begins, index_pair
<1>2. "jr_cc" = DecodeBase(e.opcode)
  BY DEF Begins
<1>3. /\ X(e.opcode) = 0
      /\ Z(e.opcode) = 0
      /\ Y(e.opcode) \in 4 .. 7
      /\ Y(e.opcode) % 4 = Y(e.opcode) - 4
  BY <1>1, <1>2, MapPlace
<1>4. Manual!OperandBytes(e.opcode) = 1
  BY <1>1, <1>3, FieldsType, OpcodeOf DEF Manual!OperandBytes, X, Y, Z
<1>5. OneCycle(e, m, d, l)
  BY DEF After1
<1>6. e.instr = "jr_cc" /\ e.cycle = 0 /\ Shaped(e)
  BY <1>5, Fields DEF OneCycle, Begins
<1>7. CyclesOf["jr_cc"] = ControlCycles("jr_cc") /\ HooksOf["jr_cc"] = ControlHooks("jr_cc")
  BY GroupCycles, GroupHooks DEF Instrs, ControlInstrs
<1>8. Enters(e, "mem_read", "at_pc", "jr_condition")
  BY <1>6, <1>7 DEF Enters, ControlCycles, ControlHooks, Operand, Called, AtPcTo, AtPopTo, On,
     Idle, Read, Write,
       IoIn, IoOut, Idle1, Idle2, Idle4, Idle5, Idle7
<1>9. PICK f1 :
      /\ Same(e, f1, {"bus_addr", "bus_data", "pc"})
      /\ f1.bus_addr = e.pc
      /\ f1.bus_data = Manual!Peek(m, e.pc)
      /\ f1.bus_data \in Byte
      /\ l = m
      /\ f1.pc = Plus(e.pc, 1)
      /\ d = Put(Exit("jr_condition", f1), "cycle", e.cycle + 1)
  BY <1>5, <1>8, AtPcReads
<1>10. /\ Same(e, d, {"bus_addr", "bus_data", "pc", "cycle_limit", "cycle"})
       /\ d.bus_addr = e.pc
       /\ d.bus_data = Manual!Peek(m, e.pc)
       /\ d.pc = Plus(e.pc, 1)
       /\ d.cycle_limit = IF Alu!condition_met(e.f, Y(e.opcode) % 4) THEN e.cycle_limit
            ELSE e.cycle + 1
       /\ l = m
  BY <1>6, <1>9, LeavesOrEnds, InCore DEF Same
<1>11. /\ Same(e, d, {"bus_addr", "bus_data", "pc", "cycle_limit", "cycle"})
       /\ d.bus_addr = e.pc
       /\ d.bus_data = Manual!Peek(m, e.pc)
       /\ d.pc = Plus(e.pc, 1)
       /\ l = m
  BY <1>10, <1>1, BytesAt
<1>12. d.cycle = e.cycle + 1 /\ d.cycle \in Nat
  BY <1>5 DEF OneCycle, Typed
<1>13. ~(Alu!condition_met(e.f, Y(e.opcode) % 4))
  BY <1>5, <1>6, <1>10, <1>12, <1>1 DEF GoesOn
<1>14. /\ Same(e, p, {"bus_addr", "bus_data", "pc", "cycle_limit", "cycle", "nmi_latched"})
       /\ p.bus_addr = e.pc
       /\ p.bus_data = Manual!Peek(m, e.pc)
       /\ p.pc = Plus(e.pc, 1)
       /\ l = m
  BY <1>11, <1>10, InCore DEF Same
<1>15. PICK s : s = Past(e)
  OBVIOUS
<1>16. s = [Seen(e) EXCEPT !.pc = Plus(e.pc, 1)]
  BY <1>4, <1>15, SeenFields DEF Past, Seen
<1>17. p.pc = Plus(e.pc, 1)
  BY <1>14, <1>1, BytesAt, InCore DEF Same
<1>18. Seen(p) = s /\ \A x \in VisibleFields : s[x] = p[x]
  BY <1>16, <1>14, <1>17, SeenFields DEF Same, Seen
<1>19. s.f = e.f
  BY <1>18, <1>14, SeenFields, InCore DEF Same
<1>20. ~Manual!condition_met(s.f, Y(e.opcode) - 4)
  BY <1>13, <1>3, <1>19, SameArithmetic
<1>21. Table(e, m, place, at, port)
         = Manual!Quarter0(s, m, Y(e.opcode), 0, index_pair(e), place, at, e.q)
  BY <1>1, <1>3, <1>15, QuarterOf DEF Table
<1>22. Manual!Quarter0(s, m, Y(e.opcode), 0, index_pair(e), place, at, e.q)
         = Manual!Both(s,
                       m)
  BY <1>19, <1>20, <1>3 DEF Manual!Quarter0
<1>23. PICK r : r = Execute("jr_cc", p, int)
  OBVIOUS
<1>24. r = p
  BY <1>23, ExecutesNothing DEF Hooked
<1>25. Seen(r) = s
  BY <1>24, <1>18
<1>26. Seen(r) = s
  BY <1>25, <1>14
<1> QED BY <1>23, <1>26, <1>14, <1>21, <1>22, MeetsBoth

(* DJNZ e, taken. *)
LEMMA Does_djnz ==
  ASSUME NEW e, NEW m, NEW place, NEW at, Begins(e, m, place, at), e.instr = "djnz",
         NEW d, NEW l, After3(e, m, d, l),
         NEW p, Typed(p), Same(d, p, {"nmi_latched"}), NEW int, NEW port
  PROVE  Meets(Execute("djnz", p, int), l, Table(e, m, place, at, port))
<1>1. /\ Typed(e) /\ Shaped(e) /\ e.opcode \in Byte /\ ByteMemory(m)
      /\ index_pair(e) \in {"hl", "ix", "iy"}
  BY CoreTypes DEF Begins, index_pair
<1>2. "djnz" = DecodeBase(e.opcode)
  BY DEF Begins
<1>3. /\ X(e.opcode) = 0
      /\ Z(e.opcode) = 0
      /\ Y(e.opcode) = 2
  BY <1>1, <1>2, MapPlace
<1>4. Manual!OperandBytes(e.opcode) = 1
  BY <1>1, <1>3, FieldsType, OpcodeOf DEF Manual!OperandBytes, X, Y, Z
<1>5. PICK d1, m1, d2, m2 :
      /\ OneCycle(e, m, d1, m1)
      /\ OneCycle(d1, m1, d2, m2)
      /\ OneCycle(d2, m2, d, l)
      /\ GoesOn(d1)
      /\ GoesOn(d2)
  BY DEF After1, After2, After3
<1>6. /\ e.instr = "djnz" /\ e.cycle = 0 /\ Shaped(e)
      /\ d1.instr = "djnz" /\ d1.cycle = 1 /\ Shaped(d1)
      /\ d2.instr = "djnz" /\ d2.cycle = 2 /\ Shaped(d2)
  BY <1>5, Fields DEF OneCycle, Begins
<1>7. CyclesOf["djnz"] = ControlCycles("djnz") /\ HooksOf["djnz"] = ControlHooks("djnz")
  BY GroupCycles, GroupHooks DEF Instrs, ControlInstrs
<1>8. /\ Enters(e, "idle1", "none", "none")
      /\ Enters(d1, "mem_read", "at_pc", "djnz_condition")
      /\ Enters(d2, "idle5", "jump_relative", "none")
  BY <1>6, <1>7 DEF Enters, ControlCycles, ControlHooks, Operand, Called, AtPcTo, AtPopTo, On,
     Idle, Read, Write,
       IoIn, IoOut, Idle1, Idle2, Idle4, Idle5, Idle7
<1>9. d1 = Put(Exit("none", e), "cycle", e.cycle + 1) /\ m1 = m
  BY <1>5, <1>8, Idles DEF IdleCycles
<1>10. /\ Same(e, d1, {"cycle"})
       /\ m1 = m
  BY <1>6, <1>9, Leaves, InCore DEF Same
<1>11. PICK f2 :
       /\ Same(d1, f2, {"bus_addr", "bus_data", "pc"})
       /\ f2.bus_addr = d1.pc
       /\ f2.bus_data = Manual!Peek(m1, d1.pc)
       /\ f2.bus_data \in Byte
       /\ m2 = m1
       /\ f2.pc = Plus(d1.pc, 1)
       /\ d2 = Put(Exit("djnz_condition", f2), "cycle", d1.cycle + 1)
  BY <1>5, <1>8, AtPcReads
<1>12. /\ Same(e, d2, {"cycle", "bus_addr", "bus_data", "pc", "bc", "cycle_limit"})
       /\ d2.bus_addr = d1.pc
       /\ d2.bus_data = Manual!Peek(m1, d1.pc)
       /\ d2.pc = Plus(d1.pc, 1)
       /\ d2.bc = WithHigh(d1.bc, (High(d1.bc) - 1) % 256)
       /\ d2.cycle_limit = IF High(d1.bc) # 1 THEN d1.cycle_limit ELSE d1.cycle + 1
       /\ m2 = m1
  BY <1>10, <1>6, <1>11, LeavesOrEnds, InCore DEF Same
<1>13. /\ d1.pc = e.pc
       /\ d1.bc = e.bc
  BY <1>10, InCore DEF Same
<1>14. /\ Same(e, d2, {"cycle", "bus_addr", "bus_data", "pc", "bc", "cycle_limit"})
       /\ d2.bus_addr = e.pc
       /\ d2.bus_data = Manual!Peek(m, e.pc)
       /\ d2.pc = Plus(e.pc, 1)
       /\ d2.bc = WithHigh(e.bc, (High(e.bc) - 1) % 256)
       /\ m2 = m
  BY <1>10, <1>12, <1>13, <1>1, BytesAt
<1>15. /\ Same(d2, d, {"pc", "wz", "cycle"})
       /\ d.pc = Plus(d2.pc, Signed(d2.bus_data))
       /\ l = m2
  BY <1>5, <1>8, Jumps DEF IdleCycles
<1>16. /\ Same(e, d, {"cycle", "bus_addr", "bus_data", "pc", "bc", "cycle_limit", "wz"})
       /\ d.pc = Plus(d2.pc, Signed(d2.bus_data))
       /\ d.bus_addr = d2.bus_addr
       /\ d.bus_data = d2.bus_data
       /\ d.bc = d2.bc
       /\ l = m2
  BY <1>14, <1>12, <1>6, <1>15, Leaves, InCore DEF Same
<1>17. /\ Same(e, d, {"cycle", "bus_addr", "bus_data", "pc", "bc", "cycle_limit", "wz"})
       /\ d.bus_addr = e.pc
       /\ d.bus_data = Manual!Peek(m, e.pc)
       /\ d.bc = WithHigh(e.bc, (High(e.bc) - 1) % 256)
       /\ d.pc = Plus(Plus(e.pc, 1), Signed(Manual!Peek(m, e.pc)))
       /\ l = m
  BY <1>14, <1>12, <1>16, <1>1, BytesAt
<1>18. d2.cycle = d1.cycle + 1 /\ d2.cycle \in Nat
  BY <1>5 DEF OneCycle, Typed
<1>19. d1.f = e.f /\ d1.opcode = e.opcode /\ d1.bc = e.bc /\ d1.cycle_limit = e.cycle_limit
  BY <1>10, InCore DEF Same
<1>20. High(e.bc) # 1
  BY <1>5, <1>6, <1>12, <1>18, <1>19, <1>1 DEF GoesOn
<1>21. /\ Same(e, p, {"cycle", "bus_addr", "bus_data", "pc", "bc", "cycle_limit", "wz",
            "nmi_latched"})
       /\ p.bus_addr = e.pc
       /\ p.bus_data = Manual!Peek(m, e.pc)
       /\ p.bc = WithHigh(e.bc, (High(e.bc) - 1) % 256)
       /\ p.pc = Plus(Plus(e.pc, 1), Signed(Manual!Peek(m, e.pc)))
       /\ l = m
  BY <1>17, InCore DEF Same
<1>22. PICK s : s = Past(e)
  OBVIOUS
<1>23. s = [Seen(e) EXCEPT !.pc = Plus(e.pc, 1)]
  BY <1>4, <1>22, SeenFields DEF Past, Seen
<1>24. /\ Seen(p) = [s EXCEPT !.bc = p.bc, !.pc = p.pc]
       /\ \A x \in VisibleFields \ {"bc", "pc"} : s[x] = p[x]
       /\ s.bc = e.bc
       /\ s.pc = Plus(e.pc, 1)
  BY <1>23, <1>21, SeenFields DEF Same, Seen
<1>25. s.bc = e.bc
  BY <1>24, <1>21, SeenFields, InCore DEF Same
<1>26. Manual!Hi(s.bc) = High(s.bc) /\ Manual!Lo(s.bc) = Low(s.bc)
       /\ Manual!Displaced(s.pc, Manual!Peek(m, at)) = Plus(s.pc, Signed(Manual!Peek(m, at)))
  BY SameWords
<1>27. (Manual!Hi(s.bc) - 1) % 256 # 0
  BY <1>20, <1>25, <1>26, <1>1, CoreTypes DEF High, Word, Alu!Word
<1>28. Manual!Quarter0(s, m, 2, 0, index_pair(e), place, at, e.q)
         = Manual!Both([s EXCEPT !.bc = 256 * ((Manual!Hi(s.bc) - 1) % 256) + Manual!Lo(@),
                                 !.pc = Manual!Displaced(@, Manual!Peek(m, at))], m)
  BY <1>27 DEF Manual!Quarter0
<1>29. Table(e, m, place, at, port) = Manual!Quarter0(s, m, 2, 0, index_pair(e), place, at, e.q)
  BY <1>1, <1>3, <1>22, QuarterOf DEF Table
<1>30. Manual!Quarter0(s, m, 2, 0, index_pair(e), place, at, e.q)
         = Manual!Both([s EXCEPT !.bc = 256 * ((High(s.bc) - 1) % 256) + Low(@),
           !.pc = Plus(@, Signed(Manual!Peek(m, at)))],
                       m)
  BY <1>25, <1>26, <1>27, <1>28
<1>31. PICK r : r = Execute("djnz", p, int)
  OBVIOUS
<1>32. r = p
  BY <1>31, ExecutesNothing DEF Hooked
<1>33. Seen(r) = Seen(p)
  BY <1>32, <1>24
<1>34. Seen(r) = [s EXCEPT !.bc = 256 * ((High(s.bc) - 1) % 256) + Low(@),
         !.pc = Plus(@, Signed(Manual!Peek(m, at)))]
  BY <1>33, <1>21, <1>24, <1>21, <1>21, <1>1 DEF Begins, OperandsAt, WithHigh, Low
<1> QED BY <1>31, <1>34, <1>21, <1>24, <1>21, <1>29, <1>30, MeetsBoth

(* DJNZ e, not taken. *)
LEMMA Does_djnz_not ==
  ASSUME NEW e, NEW m, NEW place, NEW at, Begins(e, m, place, at), e.instr = "djnz",
         NEW d, NEW l, After2(e, m, d, l),
         ~GoesOn(d), e.cycle_limit = 3,
         NEW p, Typed(p), Same(d, p, {"nmi_latched"}), NEW int, NEW port
  PROVE  Meets(Execute("djnz", p, int), l, Table(e, m, place, at, port))
<1>1. /\ Typed(e) /\ Shaped(e) /\ e.opcode \in Byte /\ ByteMemory(m)
      /\ index_pair(e) \in {"hl", "ix", "iy"}
  BY CoreTypes DEF Begins, index_pair
<1>2. "djnz" = DecodeBase(e.opcode)
  BY DEF Begins
<1>3. /\ X(e.opcode) = 0
      /\ Z(e.opcode) = 0
      /\ Y(e.opcode) = 2
  BY <1>1, <1>2, MapPlace
<1>4. Manual!OperandBytes(e.opcode) = 1
  BY <1>1, <1>3, FieldsType, OpcodeOf DEF Manual!OperandBytes, X, Y, Z
<1>5. PICK d1, m1 :
      /\ OneCycle(e, m, d1, m1)
      /\ OneCycle(d1, m1, d, l)
  BY DEF After1, After2
<1>6. /\ e.instr = "djnz" /\ e.cycle = 0 /\ Shaped(e)
      /\ d1.instr = "djnz" /\ d1.cycle = 1 /\ Shaped(d1)
  BY <1>5, Fields DEF OneCycle, Begins
<1>7. CyclesOf["djnz"] = ControlCycles("djnz") /\ HooksOf["djnz"] = ControlHooks("djnz")
  BY GroupCycles, GroupHooks DEF Instrs, ControlInstrs
<1>8. /\ Enters(e, "idle1", "none", "none")
      /\ Enters(d1, "mem_read", "at_pc", "djnz_condition")
  BY <1>6, <1>7 DEF Enters, ControlCycles, ControlHooks, Operand, Called, AtPcTo, AtPopTo, On,
     Idle, Read, Write,
       IoIn, IoOut, Idle1, Idle2, Idle4, Idle5, Idle7
<1>9. d1 = Put(Exit("none", e), "cycle", e.cycle + 1) /\ m1 = m
  BY <1>5, <1>8, Idles DEF IdleCycles
<1>10. /\ Same(e, d1, {"cycle"})
       /\ m1 = m
  BY <1>6, <1>9, Leaves, InCore DEF Same
<1>11. PICK f2 :
       /\ Same(d1, f2, {"bus_addr", "bus_data", "pc"})
       /\ f2.bus_addr = d1.pc
       /\ f2.bus_data = Manual!Peek(m1, d1.pc)
       /\ f2.bus_data \in Byte
       /\ l = m1
       /\ f2.pc = Plus(d1.pc, 1)
       /\ d = Put(Exit("djnz_condition", f2), "cycle", d1.cycle + 1)
  BY <1>5, <1>8, AtPcReads
<1>12. /\ Same(e, d, {"cycle", "bus_addr", "bus_data", "pc", "bc", "cycle_limit"})
       /\ d.bus_addr = d1.pc
       /\ d.bus_data = Manual!Peek(m1, d1.pc)
       /\ d.pc = Plus(d1.pc, 1)
       /\ d.bc = WithHigh(d1.bc, (High(d1.bc) - 1) % 256)
       /\ d.cycle_limit = IF High(d1.bc) # 1 THEN d1.cycle_limit ELSE d1.cycle + 1
       /\ l = m1
  BY <1>10, <1>6, <1>11, LeavesOrEnds, InCore DEF Same
<1>13. /\ d1.pc = e.pc
       /\ d1.bc = e.bc
  BY <1>10, InCore DEF Same
<1>14. /\ Same(e, d, {"cycle", "bus_addr", "bus_data", "pc", "bc", "cycle_limit"})
       /\ d.bus_addr = e.pc
       /\ d.bus_data = Manual!Peek(m, e.pc)
       /\ d.pc = Plus(e.pc, 1)
       /\ d.bc = WithHigh(e.bc, (High(e.bc) - 1) % 256)
       /\ l = m
  BY <1>10, <1>12, <1>13, <1>1, BytesAt
<1>15. d.cycle = d1.cycle + 1 /\ d.cycle \in Nat
  BY <1>5 DEF OneCycle, Typed
<1>16. d1.f = e.f /\ d1.opcode = e.opcode /\ d1.bc = e.bc /\ d1.cycle_limit = e.cycle_limit
  BY <1>10, InCore DEF Same
<1>17. ~(High(e.bc) # 1)
  BY <1>5, <1>6, <1>12, <1>15, <1>16, <1>1 DEF GoesOn
<1>18. /\ Same(e, p, {"cycle", "bus_addr", "bus_data", "pc", "bc", "cycle_limit", "nmi_latched"})
       /\ p.bus_addr = e.pc
       /\ p.bus_data = Manual!Peek(m, e.pc)
       /\ p.pc = Plus(e.pc, 1)
       /\ p.bc = WithHigh(e.bc, (High(e.bc) - 1) % 256)
       /\ l = m
  BY <1>14, <1>12, InCore DEF Same
<1>19. PICK s : s = Past(e)
  OBVIOUS
<1>20. s = [Seen(e) EXCEPT !.pc = Plus(e.pc, 1)]
  BY <1>4, <1>19, SeenFields DEF Past, Seen
<1>21. p.pc = Plus(e.pc, 1)
  BY <1>18, <1>1, BytesAt, InCore DEF Same
<1>22. /\ Seen(p) = [s EXCEPT !.bc = p.bc]
       /\ \A x \in VisibleFields \ {"bc"} : s[x] = p[x]
       /\ s.bc = e.bc
  BY <1>20, <1>18, <1>21, SeenFields DEF Same, Seen
<1>23. s.bc = e.bc
  BY <1>22, <1>18, SeenFields, InCore DEF Same
<1>24. Manual!Hi(s.bc) = High(s.bc) /\ Manual!Lo(s.bc) = Low(s.bc)
  BY SameWords
<1>25. (Manual!Hi(s.bc) - 1) % 256 = 0
  BY <1>17, <1>23, <1>24
<1>26. Manual!Quarter0(s, m, 2, 0, index_pair(e), place, at, e.q)
         = Manual!Both([s EXCEPT !.bc = 256 * ((Manual!Hi(s.bc) - 1) % 256) + Manual!Lo(@),
                                 !.pc = IF (Manual!Hi(s.bc) - 1) % 256 = 0 THEN @
                                        ELSE Manual!Displaced(@, Manual!Peek(m, at))], m)
  BY DEF Manual!Quarter0
<1>27. [s EXCEPT !.bc = 256 * ((Manual!Hi(s.bc) - 1) % 256) + Manual!Lo(@),
                 !.pc = IF (Manual!Hi(s.bc) - 1) % 256 = 0 THEN @
                   ELSE Manual!Displaced(@, Manual!Peek(m, at))]
         = [s EXCEPT !.bc = 256 * ((High(s.bc) - 1) % 256) + Low(@)]
  BY <1>19, <1>23, <1>24, <1>25, <1>26, SeenFields DEF Past, Seen
<1>28. Table(e, m, place, at, port) = Manual!Quarter0(s, m, 2, 0, index_pair(e), place, at, e.q)
  BY <1>1, <1>3, <1>19, QuarterOf DEF Table
<1>29. Manual!Quarter0(s, m, 2, 0, index_pair(e), place, at, e.q)
         = Manual!Both([s EXCEPT !.bc = 256 * ((High(s.bc) - 1) % 256) + Low(@)],
                       m)
  BY <1>23, <1>24, <1>25, <1>26, <1>27
<1>30. PICK r : r = Execute("djnz", p, int)
  OBVIOUS
<1>31. r = p
  BY <1>30, ExecutesNothing DEF Hooked
<1>32. Seen(r) = Seen(p)
  BY <1>31, <1>22
<1>33. Seen(r) = [s EXCEPT !.bc = 256 * ((High(s.bc) - 1) % 256) + Low(@)]
  BY <1>32, <1>18, <1>22, <1>18, <1>18, <1>1 DEF WithHigh, Low
<1> QED BY <1>30, <1>33, <1>18, <1>22, <1>18, <1>28, <1>29, MeetsBoth

(* CALL nn. *)
LEMMA Does_call ==
  ASSUME NEW e, NEW m, NEW place, NEW at, Begins(e, m, place, at), e.instr = "call",
         NEW d, NEW l, After5(e, m, d, l),
         NEW p, Typed(p), Same(d, p, {"nmi_latched"}), NEW int, NEW port
  PROVE  Meets(Execute("call", p, int), l, Table(e, m, place, at, port))
<1>1. /\ Typed(e) /\ Shaped(e) /\ e.opcode \in Byte /\ ByteMemory(m)
      /\ index_pair(e) \in {"hl", "ix", "iy"}
  BY CoreTypes DEF Begins, index_pair
<1>2. "call" = DecodeBase(e.opcode)
  BY DEF Begins
<1>3. /\ X(e.opcode) = 3
      /\ Z(e.opcode) = 5
      /\ Y(e.opcode) = 1
  BY <1>1, <1>2, MapPlace
<1>4. Manual!OperandBytes(e.opcode) = 2
  BY <1>1, <1>3, FieldsType, OpcodeOf DEF Manual!OperandBytes, X, Y, Z
<1>5. PICK d1, m1, d2, m2, d3, m3, d4, m4 :
      /\ OneCycle(e, m, d1, m1)
      /\ OneCycle(d1, m1, d2, m2)
      /\ OneCycle(d2, m2, d3, m3)
      /\ OneCycle(d3, m3, d4, m4)
      /\ OneCycle(d4, m4, d, l)
  BY DEF After1, After2, After3, After4, After5
<1>6. /\ e.instr = "call" /\ e.cycle = 0 /\ Shaped(e)
      /\ d1.instr = "call" /\ d1.cycle = 1 /\ Shaped(d1)
      /\ d2.instr = "call" /\ d2.cycle = 2 /\ Shaped(d2)
      /\ d3.instr = "call" /\ d3.cycle = 3 /\ Shaped(d3)
      /\ d4.instr = "call" /\ d4.cycle = 4 /\ Shaped(d4)
  BY <1>5, Fields DEF OneCycle, Begins
<1>7. CyclesOf["call"] = ControlCycles("call") /\ HooksOf["call"] = ControlHooks("call")
  BY GroupCycles, GroupHooks DEF Instrs, ControlInstrs
<1>8. /\ Enters(e, "mem_read", "at_pc", "to_wz_low")
      /\ Enters(d1, "mem_read", "at_pc", "to_wz_high")
      /\ Enters(d2, "idle1", "none", "none")
      /\ Enters(d3, "mem_write", "push_pc_high", "none")
      /\ Enters(d4, "mem_write", "push_pc_low", "take_wz")
  BY <1>6, <1>7 DEF Enters, ControlCycles, ControlHooks, Operand, Called, AtPcTo, AtPopTo, On,
     Idle, Read, Write,
       IoIn, IoOut, Idle1, Idle2, Idle4, Idle5, Idle7
<1>9. PICK f1 :
      /\ Same(e, f1, {"bus_addr", "bus_data", "pc"})
      /\ f1.bus_addr = e.pc
      /\ f1.bus_data = Manual!Peek(m, e.pc)
      /\ f1.bus_data \in Byte
      /\ m1 = m
      /\ f1.pc = Plus(e.pc, 1)
      /\ d1 = Put(Exit("to_wz_low", f1), "cycle", e.cycle + 1)
  BY <1>5, <1>8, AtPcReads
<1>10. /\ Same(e, d1, {"bus_addr", "bus_data", "pc", "wz", "cycle"})
       /\ d1.bus_addr = e.pc
       /\ d1.bus_data = Manual!Peek(m, e.pc)
       /\ d1.pc = Plus(e.pc, 1)
       /\ d1.wz = WithLow(e.wz, Manual!Peek(m, e.pc))
       /\ m1 = m
  BY <1>6, <1>9, Leaves, InCore DEF Same
<1>11. PICK f2 :
       /\ Same(d1, f2, {"bus_addr", "bus_data", "pc"})
       /\ f2.bus_addr = d1.pc
       /\ f2.bus_data = Manual!Peek(m1, d1.pc)
       /\ f2.bus_data \in Byte
       /\ m2 = m1
       /\ f2.pc = Plus(d1.pc, 1)
       /\ d2 = Put(Exit("to_wz_high", f2), "cycle", d1.cycle + 1)
  BY <1>5, <1>8, AtPcReads
<1>12. /\ Same(e, d2, {"bus_addr", "bus_data", "pc", "wz", "cycle"})
       /\ d2.bus_addr = d1.pc
       /\ d2.bus_data = Manual!Peek(m1, d1.pc)
       /\ d2.pc = Plus(d1.pc, 1)
       /\ d2.wz = WithHigh(d1.wz, Manual!Peek(m1, d1.pc))
       /\ m2 = m1
  BY <1>10, <1>6, <1>11, Leaves, InCore DEF Same
<1>13. /\ Same(e, d2, {"bus_addr", "bus_data", "pc", "wz", "cycle"})
       /\ d2.bus_addr = Plus(e.pc, 1)
       /\ d2.bus_data = Manual!Peek(m, e.pc + 1)
       /\ d2.pc = Plus(e.pc, 2)
       /\ d2.wz = Manual!PeekWord(m, e.pc)
       /\ m2 = m
  BY <1>10, <1>12, <1>1, BytesAt
<1>14. d3 = Put(Exit("none", d2), "cycle", d2.cycle + 1) /\ m3 = m2
  BY <1>5, <1>8, Idles DEF IdleCycles
<1>15. /\ Same(e, d3, {"bus_addr", "bus_data", "pc", "wz", "cycle"})
       /\ d3.bus_addr = d2.bus_addr
       /\ d3.bus_data = d2.bus_data
       /\ d3.pc = d2.pc
       /\ d3.wz = d2.wz
       /\ m3 = m2
  BY <1>13, <1>6, <1>14, Leaves, InCore DEF Same
<1>16. /\ Same(e, d3, {"bus_addr", "bus_data", "pc", "wz", "cycle"})
       /\ d3.bus_addr = Plus(e.pc, 1)
       /\ d3.bus_data = Manual!Peek(m, e.pc + 1)
       /\ d3.pc = Plus(e.pc, 2)
       /\ d3.wz = Manual!PeekWord(m, e.pc)
       /\ m3 = m
  BY <1>13, <1>15, <1>1, BytesAt
<1>17. Enter("push_pc_high", d3) = Pushed(d3, High(d3.pc))
  BY <1>6, EnterPushes
<1>18. PICK f4 :
       /\ Same(d3, f4, {"bus_addr", "bus_data", "sp"})
       /\ f4.sp = Plus(d3.sp, -1)
       /\ f4.bus_addr = Plus(d3.sp, -1)
       /\ f4.bus_data = High(d3.pc)
       /\ d4 = Put(Exit("none", f4), "cycle", d3.cycle + 1)
       /\ m4 = Manual!Poke(m3, Plus(d3.sp, -1), High(d3.pc))
  BY <1>5, <1>8, <1>17, PushWrites
<1>19. /\ Same(e, d4, {"bus_addr", "bus_data", "pc", "wz", "cycle", "sp"})
       /\ d4.bus_addr = Plus(d3.sp, -1)
       /\ d4.bus_data = High(d3.pc)
       /\ d4.sp = Plus(d3.sp, -1)
       /\ d4.pc = d3.pc
       /\ d4.wz = d3.wz
       /\ m4 = Manual!Poke(m3, Plus(d3.sp, -1), High(d3.pc))
  BY <1>16, <1>6, <1>18, Leaves, InCore DEF Same
<1>20. d3.sp = e.sp
  BY <1>16, InCore DEF Same
<1>21. /\ Same(e, d4, {"bus_addr", "bus_data", "pc", "wz", "cycle", "sp"})
       /\ d4.pc = Plus(e.pc, 2)
       /\ d4.wz = Manual!PeekWord(m, e.pc)
       /\ d4.bus_addr = Plus(e.sp, -1)
       /\ d4.bus_data = High(Plus(e.pc, 2))
       /\ d4.sp = Plus(e.sp, -1)
       /\ m4 = Manual!Poke(m, Plus(e.sp, -1), High(Plus(e.pc, 2)))
  BY <1>16, <1>19, <1>20, <1>1, BytesAt
<1>22. Enter("push_pc_low", d4) = Pushed(d4, Low(d4.pc))
  BY <1>6, EnterPushes
<1>23. PICK f5 :
       /\ Same(d4, f5, {"bus_addr", "bus_data", "sp"})
       /\ f5.sp = Plus(d4.sp, -1)
       /\ f5.bus_addr = Plus(d4.sp, -1)
       /\ f5.bus_data = Low(d4.pc)
       /\ d = Put(Exit("take_wz", f5), "cycle", d4.cycle + 1)
       /\ l = Manual!Poke(m4, Plus(d4.sp, -1), Low(d4.pc))
  BY <1>5, <1>8, <1>22, PushWrites
<1>24. /\ Same(e, d, {"bus_addr", "bus_data", "pc", "wz", "cycle", "sp"})
       /\ d.bus_addr = Plus(d4.sp, -1)
       /\ d.bus_data = Low(d4.pc)
       /\ d.sp = Plus(d4.sp, -1)
       /\ d.pc = d4.wz
       /\ d.wz = d4.wz
       /\ l = Manual!Poke(m4, Plus(d4.sp, -1), Low(d4.pc))
  BY <1>21, <1>6, <1>23, Leaves, InCore DEF Same
<1>25. /\ Same(e, d, {"bus_addr", "bus_data", "pc", "wz", "cycle", "sp"})
       /\ d.wz = Manual!PeekWord(m, e.pc)
       /\ d.bus_addr = Plus(e.sp, -2)
       /\ d.bus_data = Low(Plus(e.pc, 2))
       /\ d.sp = Plus(e.sp, -2)
       /\ d.pc = Manual!PeekWord(m, e.pc)
       /\ l = Manual!Poke(Manual!Poke(m, Plus(e.sp, -1), High(Plus(e.pc, 2))), Plus(e.sp, -2),
            Low(Plus(e.pc, 2)))
  BY <1>21, <1>24, <1>1, BytesAt
<1>26. /\ Same(e, p, {"bus_addr", "bus_data", "pc", "wz", "cycle", "sp", "nmi_latched"})
       /\ p.wz = Manual!PeekWord(m, e.pc)
       /\ p.bus_addr = Plus(e.sp, -2)
       /\ p.bus_data = Low(Plus(e.pc, 2))
       /\ p.sp = Plus(e.sp, -2)
       /\ p.pc = Manual!PeekWord(m, e.pc)
       /\ l = Manual!Poke(Manual!Poke(m, Plus(e.sp, -1), High(Plus(e.pc, 2))), Plus(e.sp, -2),
            Low(Plus(e.pc, 2)))
  BY <1>25, InCore DEF Same
<1>27. PICK s : s = Past(e)
  OBVIOUS
<1>28. s = [Seen(e) EXCEPT !.pc = Plus(e.pc, 2)]
  BY <1>4, <1>27, SeenFields DEF Past, Seen
<1>29. /\ Seen(p) = [s EXCEPT !.sp = p.sp, !.pc = p.pc]
       /\ \A x \in VisibleFields \ {"sp", "pc"} : s[x] = p[x]
       /\ s.sp = e.sp
       /\ s.pc = Plus(e.pc, 2)
  BY <1>28, <1>26, SeenFields DEF Same, Seen
<1>30. s = [x \in VisibleFields |-> s[x]]
  BY <1>27, SeenIs DEF Past, Seen
<1>31. Manual!Calls(s, m, Manual!PeekWord(m, at))
         = Manual!Both([s EXCEPT !.sp = Plus(@, -2), !.pc = Manual!PeekWord(m, at)],
                       Manual!Poke(Manual!Poke(m, Plus(s.sp, -1), High(s.pc)), Plus(s.sp, -2),
                       Low(s.pc)))
  BY <1>30, CallsMean
<1>32. Table(e, m, place, at, port) = Manual!Quarter3(s, m, 1, 5, index_pair(e), at, port)
  BY <1>1, <1>3, <1>27, QuarterOf DEF Table
<1>33. Manual!Quarter3(s, m, 1, 5, index_pair(e), at, port)
         = Manual!Both([s EXCEPT !.sp = Plus(@, -2), !.pc = Manual!PeekWord(m, at)],
                       Manual!Poke(Manual!Poke(m, Plus(s.sp, -1), High(s.pc)), Plus(s.sp, -2),
                       Low(s.pc)))
  BY <1>30, <1>31 DEF Manual!Quarter3
<1>34. PICK r : r = Execute("call", p, int)
  OBVIOUS
<1>35. r = p
  BY <1>34, ExecutesNothing DEF Hooked
<1>36. Seen(r) = Seen(p)
  BY <1>35, <1>29
<1>37. l = Manual!Poke(Manual!Poke(m, Plus(s.sp, -1), High(s.pc)), Plus(s.sp, -2), Low(s.pc))
  BY <1>26, <1>29, <1>1, SeenFields, InCore DEF Same, OperandsAt, Begins
<1>38. Seen(r) = [s EXCEPT !.sp = Plus(@, -2), !.pc = Manual!PeekWord(m, at)]
  BY <1>36, <1>37, <1>29, <1>26, <1>1 DEF Begins, OperandsAt
<1> QED BY <1>34, <1>38, <1>37, <1>29, <1>26, <1>32, <1>33, MeetsBoth

(* CALL cc,nn, taken. *)
LEMMA Does_call_cc ==
  ASSUME NEW e, NEW m, NEW place, NEW at, Begins(e, m, place, at), e.instr = "call_cc",
         NEW d, NEW l, After5(e, m, d, l),
         NEW p, Typed(p), Same(d, p, {"nmi_latched"}), NEW int, NEW port
  PROVE  Meets(Execute("call_cc", p, int), l, Table(e, m, place, at, port))
<1>1. /\ Typed(e) /\ Shaped(e) /\ e.opcode \in Byte /\ ByteMemory(m)
      /\ index_pair(e) \in {"hl", "ix", "iy"}
  BY CoreTypes DEF Begins, index_pair
<1>2. "call_cc" = DecodeBase(e.opcode)
  BY DEF Begins
<1>3. /\ X(e.opcode) = 3
      /\ Z(e.opcode) = 4
  BY <1>1, <1>2, MapPlace
<1>4. Manual!OperandBytes(e.opcode) = 2
  BY <1>1, <1>3, FieldsType, OpcodeOf DEF Manual!OperandBytes, X, Y, Z
<1>5. PICK d1, m1, d2, m2, d3, m3, d4, m4 :
      /\ OneCycle(e, m, d1, m1)
      /\ OneCycle(d1, m1, d2, m2)
      /\ OneCycle(d2, m2, d3, m3)
      /\ OneCycle(d3, m3, d4, m4)
      /\ OneCycle(d4, m4, d, l)
      /\ GoesOn(d1)
      /\ GoesOn(d2)
      /\ GoesOn(d3)
      /\ GoesOn(d4)
  BY DEF After1, After2, After3, After4, After5
<1>6. /\ e.instr = "call_cc" /\ e.cycle = 0 /\ Shaped(e)
      /\ d1.instr = "call_cc" /\ d1.cycle = 1 /\ Shaped(d1)
      /\ d2.instr = "call_cc" /\ d2.cycle = 2 /\ Shaped(d2)
      /\ d3.instr = "call_cc" /\ d3.cycle = 3 /\ Shaped(d3)
      /\ d4.instr = "call_cc" /\ d4.cycle = 4 /\ Shaped(d4)
  BY <1>5, Fields DEF OneCycle, Begins
<1>7. CyclesOf["call_cc"] = ControlCycles("call_cc") /\ HooksOf["call_cc"] = ControlHooks("call_cc")
  BY GroupCycles, GroupHooks DEF Instrs, ControlInstrs
<1>8. /\ Enters(e, "mem_read", "at_pc", "to_wz_low")
      /\ Enters(d1, "mem_read", "at_pc", "call_condition")
      /\ Enters(d2, "idle1", "none", "none")
      /\ Enters(d3, "mem_write", "push_pc_high", "none")
      /\ Enters(d4, "mem_write", "push_pc_low", "take_wz")
  BY <1>6, <1>7 DEF Enters, ControlCycles, ControlHooks, Operand, Called, AtPcTo, AtPopTo, On,
     Idle, Read, Write,
       IoIn, IoOut, Idle1, Idle2, Idle4, Idle5, Idle7
<1>9. PICK f1 :
      /\ Same(e, f1, {"bus_addr", "bus_data", "pc"})
      /\ f1.bus_addr = e.pc
      /\ f1.bus_data = Manual!Peek(m, e.pc)
      /\ f1.bus_data \in Byte
      /\ m1 = m
      /\ f1.pc = Plus(e.pc, 1)
      /\ d1 = Put(Exit("to_wz_low", f1), "cycle", e.cycle + 1)
  BY <1>5, <1>8, AtPcReads
<1>10. /\ Same(e, d1, {"bus_addr", "bus_data", "pc", "wz", "cycle"})
       /\ d1.bus_addr = e.pc
       /\ d1.bus_data = Manual!Peek(m, e.pc)
       /\ d1.pc = Plus(e.pc, 1)
       /\ d1.wz = WithLow(e.wz, Manual!Peek(m, e.pc))
       /\ m1 = m
  BY <1>6, <1>9, Leaves, InCore DEF Same
<1>11. PICK f2 :
       /\ Same(d1, f2, {"bus_addr", "bus_data", "pc"})
       /\ f2.bus_addr = d1.pc
       /\ f2.bus_data = Manual!Peek(m1, d1.pc)
       /\ f2.bus_data \in Byte
       /\ m2 = m1
       /\ f2.pc = Plus(d1.pc, 1)
       /\ d2 = Put(Exit("call_condition", f2), "cycle", d1.cycle + 1)
  BY <1>5, <1>8, AtPcReads
<1>12. /\ Same(e, d2, {"bus_addr", "bus_data", "pc", "wz", "cycle", "cycle_limit"})
       /\ d2.bus_addr = d1.pc
       /\ d2.bus_data = Manual!Peek(m1, d1.pc)
       /\ d2.pc = Plus(d1.pc, 1)
       /\ d2.wz = WithHigh(d1.wz, Manual!Peek(m1, d1.pc))
       /\ d2.cycle_limit = IF Alu!condition_met(d1.f, Y(d1.opcode)) THEN d1.cycle_limit
            ELSE d1.cycle + 1
       /\ m2 = m1
  BY <1>10, <1>6, <1>11, LeavesOrEnds, InCore DEF Same
<1>13. /\ Same(e, d2, {"bus_addr", "bus_data", "pc", "wz", "cycle", "cycle_limit"})
       /\ d2.bus_addr = Plus(e.pc, 1)
       /\ d2.bus_data = Manual!Peek(m, e.pc + 1)
       /\ d2.pc = Plus(e.pc, 2)
       /\ d2.wz = Manual!PeekWord(m, e.pc)
       /\ m2 = m
  BY <1>10, <1>12, <1>1, BytesAt
<1>14. d3 = Put(Exit("none", d2), "cycle", d2.cycle + 1) /\ m3 = m2
  BY <1>5, <1>8, Idles DEF IdleCycles
<1>15. /\ Same(e, d3, {"bus_addr", "bus_data", "pc", "wz", "cycle", "cycle_limit"})
       /\ d3.bus_addr = d2.bus_addr
       /\ d3.bus_data = d2.bus_data
       /\ d3.pc = d2.pc
       /\ d3.wz = d2.wz
       /\ m3 = m2
  BY <1>13, <1>12, <1>6, <1>14, Leaves, InCore DEF Same
<1>16. /\ Same(e, d3, {"bus_addr", "bus_data", "pc", "wz", "cycle", "cycle_limit"})
       /\ d3.bus_addr = Plus(e.pc, 1)
       /\ d3.bus_data = Manual!Peek(m, e.pc + 1)
       /\ d3.pc = Plus(e.pc, 2)
       /\ d3.wz = Manual!PeekWord(m, e.pc)
       /\ m3 = m
  BY <1>13, <1>12, <1>15, <1>1, BytesAt
<1>17. Enter("push_pc_high", d3) = Pushed(d3, High(d3.pc))
  BY <1>6, EnterPushes
<1>18. PICK f4 :
       /\ Same(d3, f4, {"bus_addr", "bus_data", "sp"})
       /\ f4.sp = Plus(d3.sp, -1)
       /\ f4.bus_addr = Plus(d3.sp, -1)
       /\ f4.bus_data = High(d3.pc)
       /\ d4 = Put(Exit("none", f4), "cycle", d3.cycle + 1)
       /\ m4 = Manual!Poke(m3, Plus(d3.sp, -1), High(d3.pc))
  BY <1>5, <1>8, <1>17, PushWrites
<1>19. /\ Same(e, d4, {"bus_addr", "bus_data", "pc", "wz", "cycle", "cycle_limit", "sp"})
       /\ d4.bus_addr = Plus(d3.sp, -1)
       /\ d4.bus_data = High(d3.pc)
       /\ d4.sp = Plus(d3.sp, -1)
       /\ d4.pc = d3.pc
       /\ d4.wz = d3.wz
       /\ m4 = Manual!Poke(m3, Plus(d3.sp, -1), High(d3.pc))
  BY <1>16, <1>6, <1>18, Leaves, InCore DEF Same
<1>20. d3.sp = e.sp
  BY <1>16, InCore DEF Same
<1>21. /\ Same(e, d4, {"bus_addr", "bus_data", "pc", "wz", "cycle", "cycle_limit", "sp"})
       /\ d4.pc = Plus(e.pc, 2)
       /\ d4.wz = Manual!PeekWord(m, e.pc)
       /\ d4.bus_addr = Plus(e.sp, -1)
       /\ d4.bus_data = High(Plus(e.pc, 2))
       /\ d4.sp = Plus(e.sp, -1)
       /\ m4 = Manual!Poke(m, Plus(e.sp, -1), High(Plus(e.pc, 2)))
  BY <1>16, <1>19, <1>20, <1>1, BytesAt
<1>22. Enter("push_pc_low", d4) = Pushed(d4, Low(d4.pc))
  BY <1>6, EnterPushes
<1>23. PICK f5 :
       /\ Same(d4, f5, {"bus_addr", "bus_data", "sp"})
       /\ f5.sp = Plus(d4.sp, -1)
       /\ f5.bus_addr = Plus(d4.sp, -1)
       /\ f5.bus_data = Low(d4.pc)
       /\ d = Put(Exit("take_wz", f5), "cycle", d4.cycle + 1)
       /\ l = Manual!Poke(m4, Plus(d4.sp, -1), Low(d4.pc))
  BY <1>5, <1>8, <1>22, PushWrites
<1>24. /\ Same(e, d, {"bus_addr", "bus_data", "pc", "wz", "cycle", "cycle_limit", "sp"})
       /\ d.bus_addr = Plus(d4.sp, -1)
       /\ d.bus_data = Low(d4.pc)
       /\ d.sp = Plus(d4.sp, -1)
       /\ d.pc = d4.wz
       /\ d.wz = d4.wz
       /\ l = Manual!Poke(m4, Plus(d4.sp, -1), Low(d4.pc))
  BY <1>21, <1>6, <1>23, Leaves, InCore DEF Same
<1>25. /\ Same(e, d, {"bus_addr", "bus_data", "pc", "wz", "cycle", "cycle_limit", "sp"})
       /\ d.wz = Manual!PeekWord(m, e.pc)
       /\ d.bus_addr = Plus(e.sp, -2)
       /\ d.bus_data = Low(Plus(e.pc, 2))
       /\ d.sp = Plus(e.sp, -2)
       /\ d.pc = Manual!PeekWord(m, e.pc)
       /\ l = Manual!Poke(Manual!Poke(m, Plus(e.sp, -1), High(Plus(e.pc, 2))), Plus(e.sp, -2),
            Low(Plus(e.pc, 2)))
  BY <1>21, <1>24, <1>1, BytesAt
<1>26. d2.cycle = d1.cycle + 1 /\ d2.cycle \in Nat
  BY <1>5 DEF OneCycle, Typed
<1>27. d1.f = e.f /\ d1.opcode = e.opcode /\ d1.bc = e.bc /\ d1.cycle_limit = e.cycle_limit
  BY <1>10, InCore DEF Same
<1>28. Alu!condition_met(e.f, Y(e.opcode))
  BY <1>5, <1>6, <1>12, <1>26, <1>27, <1>1 DEF GoesOn
<1>29. /\ Same(e, p, {"bus_addr", "bus_data", "pc", "wz", "cycle", "cycle_limit", "sp",
            "nmi_latched"})
       /\ p.wz = Manual!PeekWord(m, e.pc)
       /\ p.bus_addr = Plus(e.sp, -2)
       /\ p.bus_data = Low(Plus(e.pc, 2))
       /\ p.sp = Plus(e.sp, -2)
       /\ p.pc = Manual!PeekWord(m, e.pc)
       /\ l = Manual!Poke(Manual!Poke(m, Plus(e.sp, -1), High(Plus(e.pc, 2))), Plus(e.sp, -2),
            Low(Plus(e.pc, 2)))
  BY <1>25, InCore DEF Same
<1>30. PICK s : s = Past(e)
  OBVIOUS
<1>31. s = [Seen(e) EXCEPT !.pc = Plus(e.pc, 2)]
  BY <1>4, <1>30, SeenFields DEF Past, Seen
<1>32. /\ Seen(p) = [s EXCEPT !.sp = p.sp, !.pc = p.pc]
       /\ \A x \in VisibleFields \ {"sp", "pc"} : s[x] = p[x]
       /\ s.sp = e.sp
       /\ s.pc = Plus(e.pc, 2)
  BY <1>31, <1>29, SeenFields DEF Same, Seen
<1>33. s = [x \in VisibleFields |-> s[x]]
  BY <1>30, SeenIs DEF Past, Seen
<1>34. Manual!Calls(s, m, Manual!PeekWord(m, at))
         = Manual!Both([s EXCEPT !.sp = Plus(@, -2), !.pc = Manual!PeekWord(m, at)],
                       Manual!Poke(Manual!Poke(m, Plus(s.sp, -1), High(s.pc)), Plus(s.sp, -2),
                       Low(s.pc)))
  BY <1>33, CallsMean
<1>35. s.f = e.f
  BY <1>32, <1>29, SeenFields, InCore DEF Same
<1>36. Manual!condition_met(s.f, Y(e.opcode))
  BY <1>28, <1>35, SameArithmetic
<1>37. Table(e, m, place, at, port) = Manual!Quarter3(s, m, Y(e.opcode), 4, index_pair(e), at, port)
  BY <1>1, <1>3, <1>30, QuarterOf DEF Table
<1>38. Manual!Quarter3(s, m, Y(e.opcode), 4, index_pair(e), at, port)
         = Manual!Both([s EXCEPT !.sp = Plus(@, -2), !.pc = Manual!PeekWord(m, at)],
                       Manual!Poke(Manual!Poke(m, Plus(s.sp, -1), High(s.pc)), Plus(s.sp, -2),
                       Low(s.pc)))
  BY <1>33, <1>34, <1>35, <1>36 DEF Manual!Quarter3
<1>39. PICK r : r = Execute("call_cc", p, int)
  OBVIOUS
<1>40. r = p
  BY <1>39, ExecutesNothing DEF Hooked
<1>41. Seen(r) = Seen(p)
  BY <1>40, <1>32
<1>42. l = Manual!Poke(Manual!Poke(m, Plus(s.sp, -1), High(s.pc)), Plus(s.sp, -2), Low(s.pc))
  BY <1>29, <1>32, <1>1, SeenFields, InCore DEF Same, OperandsAt, Begins
<1>43. Seen(r) = [s EXCEPT !.sp = Plus(@, -2), !.pc = Manual!PeekWord(m, at)]
  BY <1>41, <1>42, <1>32, <1>29, <1>1 DEF Begins, OperandsAt
<1> QED BY <1>39, <1>43, <1>42, <1>32, <1>29, <1>37, <1>38, MeetsBoth

(* CALL cc,nn, not taken. *)
LEMMA Does_call_cc_not ==
  ASSUME NEW e, NEW m, NEW place, NEW at, Begins(e, m, place, at), e.instr = "call_cc",
         NEW d, NEW l, After2(e, m, d, l),
         ~GoesOn(d), e.cycle_limit = 5,
         NEW p, Typed(p), Same(d, p, {"nmi_latched"}), NEW int, NEW port
  PROVE  Meets(Execute("call_cc", p, int), l, Table(e, m, place, at, port))
<1>1. /\ Typed(e) /\ Shaped(e) /\ e.opcode \in Byte /\ ByteMemory(m)
      /\ index_pair(e) \in {"hl", "ix", "iy"}
  BY CoreTypes DEF Begins, index_pair
<1>2. "call_cc" = DecodeBase(e.opcode)
  BY DEF Begins
<1>3. /\ X(e.opcode) = 3
      /\ Z(e.opcode) = 4
  BY <1>1, <1>2, MapPlace
<1>4. Manual!OperandBytes(e.opcode) = 2
  BY <1>1, <1>3, FieldsType, OpcodeOf DEF Manual!OperandBytes, X, Y, Z
<1>5. PICK d1, m1 :
      /\ OneCycle(e, m, d1, m1)
      /\ OneCycle(d1, m1, d, l)
  BY DEF After1, After2
<1>6. /\ e.instr = "call_cc" /\ e.cycle = 0 /\ Shaped(e)
      /\ d1.instr = "call_cc" /\ d1.cycle = 1 /\ Shaped(d1)
  BY <1>5, Fields DEF OneCycle, Begins
<1>7. CyclesOf["call_cc"] = ControlCycles("call_cc") /\ HooksOf["call_cc"] = ControlHooks("call_cc")
  BY GroupCycles, GroupHooks DEF Instrs, ControlInstrs
<1>8. /\ Enters(e, "mem_read", "at_pc", "to_wz_low")
      /\ Enters(d1, "mem_read", "at_pc", "call_condition")
  BY <1>6, <1>7 DEF Enters, ControlCycles, ControlHooks, Operand, Called, AtPcTo, AtPopTo, On,
     Idle, Read, Write,
       IoIn, IoOut, Idle1, Idle2, Idle4, Idle5, Idle7
<1>9. PICK f1 :
      /\ Same(e, f1, {"bus_addr", "bus_data", "pc"})
      /\ f1.bus_addr = e.pc
      /\ f1.bus_data = Manual!Peek(m, e.pc)
      /\ f1.bus_data \in Byte
      /\ m1 = m
      /\ f1.pc = Plus(e.pc, 1)
      /\ d1 = Put(Exit("to_wz_low", f1), "cycle", e.cycle + 1)
  BY <1>5, <1>8, AtPcReads
<1>10. /\ Same(e, d1, {"bus_addr", "bus_data", "pc", "wz", "cycle"})
       /\ d1.bus_addr = e.pc
       /\ d1.bus_data = Manual!Peek(m, e.pc)
       /\ d1.pc = Plus(e.pc, 1)
       /\ d1.wz = WithLow(e.wz, Manual!Peek(m, e.pc))
       /\ m1 = m
  BY <1>6, <1>9, Leaves, InCore DEF Same
<1>11. PICK f2 :
       /\ Same(d1, f2, {"bus_addr", "bus_data", "pc"})
       /\ f2.bus_addr = d1.pc
       /\ f2.bus_data = Manual!Peek(m1, d1.pc)
       /\ f2.bus_data \in Byte
       /\ l = m1
       /\ f2.pc = Plus(d1.pc, 1)
       /\ d = Put(Exit("call_condition", f2), "cycle", d1.cycle + 1)
  BY <1>5, <1>8, AtPcReads
<1>12. /\ Same(e, d, {"bus_addr", "bus_data", "pc", "wz", "cycle", "cycle_limit"})
       /\ d.bus_addr = d1.pc
       /\ d.bus_data = Manual!Peek(m1, d1.pc)
       /\ d.pc = Plus(d1.pc, 1)
       /\ d.wz = WithHigh(d1.wz, Manual!Peek(m1, d1.pc))
       /\ d.cycle_limit = IF Alu!condition_met(d1.f, Y(d1.opcode)) THEN d1.cycle_limit
            ELSE d1.cycle + 1
       /\ l = m1
  BY <1>10, <1>6, <1>11, LeavesOrEnds, InCore DEF Same
<1>13. /\ Same(e, d, {"bus_addr", "bus_data", "pc", "wz", "cycle", "cycle_limit"})
       /\ d.bus_addr = Plus(e.pc, 1)
       /\ d.bus_data = Manual!Peek(m, e.pc + 1)
       /\ d.pc = Plus(e.pc, 2)
       /\ d.wz = Manual!PeekWord(m, e.pc)
       /\ l = m
  BY <1>10, <1>12, <1>1, BytesAt
<1>14. d.cycle = d1.cycle + 1 /\ d.cycle \in Nat
  BY <1>5 DEF OneCycle, Typed
<1>15. d1.f = e.f /\ d1.opcode = e.opcode /\ d1.bc = e.bc /\ d1.cycle_limit = e.cycle_limit
  BY <1>10, InCore DEF Same
<1>16. ~(Alu!condition_met(e.f, Y(e.opcode)))
  BY <1>5, <1>6, <1>12, <1>14, <1>15, <1>1 DEF GoesOn
<1>17. /\ Same(e, p, {"bus_addr", "bus_data", "pc", "wz", "cycle", "cycle_limit", "nmi_latched"})
       /\ p.bus_addr = Plus(e.pc, 1)
       /\ p.bus_data = Manual!Peek(m, e.pc + 1)
       /\ p.pc = Plus(e.pc, 2)
       /\ p.wz = Manual!PeekWord(m, e.pc)
       /\ l = m
  BY <1>13, <1>12, InCore DEF Same
<1>18. PICK s : s = Past(e)
  OBVIOUS
<1>19. s = [Seen(e) EXCEPT !.pc = Plus(e.pc, 2)]
  BY <1>4, <1>18, SeenFields DEF Past, Seen
<1>20. p.pc = Plus(e.pc, 2)
  BY <1>17, <1>1, BytesAt, InCore DEF Same
<1>21. Seen(p) = s /\ \A x \in VisibleFields : s[x] = p[x]
  BY <1>19, <1>17, <1>20, SeenFields DEF Same, Seen
<1>22. s.f = e.f
  BY <1>21, <1>17, SeenFields, InCore DEF Same
<1>23. ~Manual!condition_met(s.f, Y(e.opcode))
  BY <1>16, <1>22, SameArithmetic
<1>24. Table(e, m, place, at, port) = Manual!Quarter3(s, m, Y(e.opcode), 4, index_pair(e), at, port)
  BY <1>1, <1>3, <1>18, QuarterOf DEF Table
<1>25. Manual!Quarter3(s, m, Y(e.opcode), 4, index_pair(e), at, port)
         = Manual!Both(s,
                       m)
  BY <1>22, <1>23 DEF Manual!Quarter3
<1>26. PICK r : r = Execute("call_cc", p, int)
  OBVIOUS
<1>27. r = p
  BY <1>26, ExecutesNothing DEF Hooked
<1>28. Seen(r) = s
  BY <1>27, <1>21
<1>29. Seen(r) = s
  BY <1>28, <1>17
<1> QED BY <1>26, <1>29, <1>17, <1>24, <1>25, MeetsBoth

(* RET. *)
LEMMA Does_ret ==
  ASSUME NEW e, NEW m, NEW place, NEW at, Begins(e, m, place, at), e.instr = "ret",
         NEW d, NEW l, After2(e, m, d, l),
         NEW p, Typed(p), Same(d, p, {"nmi_latched"}), NEW int, NEW port
  PROVE  Meets(Execute("ret", p, int), l, Table(e, m, place, at, port))
<1>1. /\ Typed(e) /\ Shaped(e) /\ e.opcode \in Byte /\ ByteMemory(m)
      /\ index_pair(e) \in {"hl", "ix", "iy"}
  BY CoreTypes DEF Begins, index_pair
<1>2. "ret" = DecodeBase(e.opcode)
  BY DEF Begins
<1>3. /\ X(e.opcode) = 3
      /\ Z(e.opcode) = 1
      /\ Y(e.opcode) = 1
  BY <1>1, <1>2, MapPlace
<1>4. Manual!OperandBytes(e.opcode) = 0
  BY <1>1, <1>3, FieldsType, OpcodeOf DEF Manual!OperandBytes, X, Y, Z
<1>5. PICK d1, m1 :
      /\ OneCycle(e, m, d1, m1)
      /\ OneCycle(d1, m1, d, l)
  BY DEF After1, After2
<1>6. /\ e.instr = "ret" /\ e.cycle = 0 /\ Shaped(e)
      /\ d1.instr = "ret" /\ d1.cycle = 1 /\ Shaped(d1)
  BY <1>5, Fields DEF OneCycle, Begins
<1>7. CyclesOf["ret"] = ControlCycles("ret") /\ HooksOf["ret"] = ControlHooks("ret")
  BY GroupCycles, GroupHooks DEF Instrs, ControlInstrs
<1>8. /\ Enters(e, "mem_read", "at_pop", "to_wz_low")
      /\ Enters(d1, "mem_read", "at_pop", "return_to_wz_high")
  BY <1>6, <1>7 DEF Enters, ControlCycles, ControlHooks, Operand, Called, AtPcTo, AtPopTo, On,
     Idle, Read, Write,
       IoIn, IoOut, Idle1, Idle2, Idle4, Idle5, Idle7
<1>9. PICK f1 :
      /\ Same(e, f1, {"bus_addr", "bus_data", "sp"})
      /\ f1.bus_addr = e.sp
      /\ f1.bus_data = Manual!Peek(m, e.sp)
      /\ f1.bus_data \in Byte
      /\ m1 = m
      /\ f1.sp = Plus(e.sp, 1)
      /\ d1 = Put(Exit("to_wz_low", f1), "cycle", e.cycle + 1)
  BY <1>5, <1>8, AtPopReads
<1>10. /\ Same(e, d1, {"bus_addr", "bus_data", "sp", "wz", "cycle"})
       /\ d1.bus_addr = e.sp
       /\ d1.bus_data = Manual!Peek(m, e.sp)
       /\ d1.sp = Plus(e.sp, 1)
       /\ d1.wz = WithLow(e.wz, Manual!Peek(m, e.sp))
       /\ m1 = m
  BY <1>6, <1>9, Leaves, InCore DEF Same
<1>11. PICK f2 :
       /\ Same(d1, f2, {"bus_addr", "bus_data", "sp"})
       /\ f2.bus_addr = d1.sp
       /\ f2.bus_data = Manual!Peek(m1, d1.sp)
       /\ f2.bus_data \in Byte
       /\ l = m1
       /\ f2.sp = Plus(d1.sp, 1)
       /\ d = Put(Exit("return_to_wz_high", f2), "cycle", d1.cycle + 1)
  BY <1>5, <1>8, AtPopReads
<1>12. /\ Same(e, d, {"bus_addr", "bus_data", "sp", "wz", "cycle", "pc"})
       /\ d.bus_addr = d1.sp
       /\ d.bus_data = Manual!Peek(m1, d1.sp)
       /\ d.sp = Plus(d1.sp, 1)
       /\ d.pc = WithHigh(d1.wz, Manual!Peek(m1, d1.sp))
       /\ l = m1
  BY <1>10, <1>6, <1>11, Leaves, InCore DEF Same
<1>13. /\ Same(e, d, {"bus_addr", "bus_data", "sp", "wz", "cycle", "pc"})
       /\ d.bus_addr = Plus(e.sp, 1)
       /\ d.bus_data = Manual!Peek(m, e.sp + 1)
       /\ d.sp = Plus(e.sp, 2)
       /\ d.pc = Manual!PeekWord(m, e.sp)
       /\ l = m
  BY <1>10, <1>12, <1>1, BytesAt
<1>14. /\ Same(e, p, {"bus_addr", "bus_data", "sp", "wz", "cycle", "pc", "nmi_latched"})
       /\ p.bus_addr = Plus(e.sp, 1)
       /\ p.bus_data = Manual!Peek(m, e.sp + 1)
       /\ p.sp = Plus(e.sp, 2)
       /\ p.pc = Manual!PeekWord(m, e.sp)
       /\ l = m
  BY <1>13, InCore DEF Same
<1>15. PICK s : s = Past(e)
  OBVIOUS
<1>16. s = [Seen(e) EXCEPT !.pc = Plus(e.pc, 0)]
  BY <1>4, <1>15, SeenFields DEF Past, Seen
<1>17. /\ Seen(p) = [s EXCEPT !.sp = p.sp, !.pc = p.pc]
       /\ \A x \in VisibleFields \ {"sp", "pc"} : s[x] = p[x]
       /\ s.sp = e.sp
       /\ s.pc = Plus(e.pc, 0)
  BY <1>16, <1>14, SeenFields DEF Same, Seen
<1>18. Manual!Quarter3(s, m, 1, 1, index_pair(e), at, port) = Manual!Returns(s, m)
  BY DEF Manual!Quarter3
<1>19. Table(e, m, place, at, port) = Manual!Quarter3(s, m, 1, 1, index_pair(e), at, port)
  BY <1>1, <1>3, <1>15, QuarterOf DEF Table
<1>20. Manual!Quarter3(s, m, 1, 1, index_pair(e), at, port)
         = Manual!Both([s EXCEPT !.pc = Manual!PeekWord(m, s.sp), !.sp = Plus(@, 2)],
                       m)
  BY <1>18, ReturnsMean
<1>21. PICK r : r = Execute("ret", p, int)
  OBVIOUS
<1>22. r = p
  BY <1>21, ExecutesNothing DEF Hooked
<1>23. Seen(r) = Seen(p)
  BY <1>22, <1>17
<1>24. Seen(r) = [s EXCEPT !.pc = Manual!PeekWord(m, s.sp), !.sp = Plus(@, 2)]
  BY <1>23, <1>14, <1>17, <1>14, <1>1, BytesAt
<1> QED BY <1>21, <1>24, <1>14, <1>17, <1>14, <1>19, <1>20, MeetsBoth

(* RET cc, taken. *)
LEMMA Does_ret_cc ==
  ASSUME NEW e, NEW m, NEW place, NEW at, Begins(e, m, place, at), e.instr = "ret_cc",
         NEW d, NEW l, After3(e, m, d, l),
         NEW p, Typed(p), Same(d, p, {"nmi_latched"}), NEW int, NEW port
  PROVE  Meets(Execute("ret_cc", p, int), l, Table(e, m, place, at, port))
<1>1. /\ Typed(e) /\ Shaped(e) /\ e.opcode \in Byte /\ ByteMemory(m)
      /\ index_pair(e) \in {"hl", "ix", "iy"}
  BY CoreTypes DEF Begins, index_pair
<1>2. "ret_cc" = DecodeBase(e.opcode)
  BY DEF Begins
<1>3. /\ X(e.opcode) = 3
      /\ Z(e.opcode) = 0
  BY <1>1, <1>2, MapPlace
<1>4. Manual!OperandBytes(e.opcode) = 0
  BY <1>1, <1>3, FieldsType, OpcodeOf DEF Manual!OperandBytes, X, Y, Z
<1>5. PICK d1, m1, d2, m2 :
      /\ OneCycle(e, m, d1, m1)
      /\ OneCycle(d1, m1, d2, m2)
      /\ OneCycle(d2, m2, d, l)
      /\ GoesOn(d1)
      /\ GoesOn(d2)
  BY DEF After1, After2, After3
<1>6. /\ e.instr = "ret_cc" /\ e.cycle = 0 /\ Shaped(e)
      /\ d1.instr = "ret_cc" /\ d1.cycle = 1 /\ Shaped(d1)
      /\ d2.instr = "ret_cc" /\ d2.cycle = 2 /\ Shaped(d2)
  BY <1>5, Fields DEF OneCycle, Begins
<1>7. CyclesOf["ret_cc"] = ControlCycles("ret_cc") /\ HooksOf["ret_cc"] = ControlHooks("ret_cc")
  BY GroupCycles, GroupHooks DEF Instrs, ControlInstrs
<1>8. /\ Enters(e, "idle1", "none", "return_condition")
      /\ Enters(d1, "mem_read", "at_pop", "to_wz_low")
      /\ Enters(d2, "mem_read", "at_pop", "return_to_wz_high")
  BY <1>6, <1>7 DEF Enters, ControlCycles, ControlHooks, Operand, Called, AtPcTo, AtPopTo, On,
     Idle, Read, Write,
       IoIn, IoOut, Idle1, Idle2, Idle4, Idle5, Idle7
<1>9. d1 = Put(Exit("return_condition", e), "cycle", e.cycle + 1) /\ m1 = m
  BY <1>5, <1>8, Idles DEF IdleCycles
<1>10. /\ Same(e, d1, {"cycle_limit", "cycle"})
       /\ d1.cycle_limit = IF Alu!condition_met(e.f, Y(e.opcode)) THEN e.cycle_limit
            ELSE e.cycle + 1
       /\ m1 = m
  BY <1>6, <1>9, LeavesOrEnds, InCore DEF Same
<1>11. /\ Same(e, d1, {"cycle_limit", "cycle"})
       /\ m1 = m
  BY <1>10, <1>1, BytesAt
<1>12. PICK f2 :
       /\ Same(d1, f2, {"bus_addr", "bus_data", "sp"})
       /\ f2.bus_addr = d1.sp
       /\ f2.bus_data = Manual!Peek(m1, d1.sp)
       /\ f2.bus_data \in Byte
       /\ m2 = m1
       /\ f2.sp = Plus(d1.sp, 1)
       /\ d2 = Put(Exit("to_wz_low", f2), "cycle", d1.cycle + 1)
  BY <1>5, <1>8, AtPopReads
<1>13. /\ Same(e, d2, {"cycle_limit", "cycle", "bus_addr", "bus_data", "sp", "wz"})
       /\ d2.bus_addr = d1.sp
       /\ d2.bus_data = Manual!Peek(m1, d1.sp)
       /\ d2.sp = Plus(d1.sp, 1)
       /\ d2.wz = WithLow(d1.wz, Manual!Peek(m1, d1.sp))
       /\ m2 = m1
  BY <1>11, <1>10, <1>6, <1>12, Leaves, InCore DEF Same
<1>14. /\ d1.sp = e.sp
       /\ d1.wz = e.wz
  BY <1>11, <1>10, InCore DEF Same
<1>15. /\ Same(e, d2, {"cycle_limit", "cycle", "bus_addr", "bus_data", "sp", "wz"})
       /\ d2.bus_addr = e.sp
       /\ d2.bus_data = Manual!Peek(m, e.sp)
       /\ d2.sp = Plus(e.sp, 1)
       /\ d2.wz = WithLow(e.wz, Manual!Peek(m, e.sp))
       /\ m2 = m
  BY <1>11, <1>10, <1>13, <1>14, <1>1, BytesAt
<1>16. PICK f3 :
       /\ Same(d2, f3, {"bus_addr", "bus_data", "sp"})
       /\ f3.bus_addr = d2.sp
       /\ f3.bus_data = Manual!Peek(m2, d2.sp)
       /\ f3.bus_data \in Byte
       /\ l = m2
       /\ f3.sp = Plus(d2.sp, 1)
       /\ d = Put(Exit("return_to_wz_high", f3), "cycle", d2.cycle + 1)
  BY <1>5, <1>8, AtPopReads
<1>17. /\ Same(e, d, {"cycle_limit", "cycle", "bus_addr", "bus_data", "sp", "wz", "pc"})
       /\ d.bus_addr = d2.sp
       /\ d.bus_data = Manual!Peek(m2, d2.sp)
       /\ d.sp = Plus(d2.sp, 1)
       /\ d.pc = WithHigh(d2.wz, Manual!Peek(m2, d2.sp))
       /\ l = m2
  BY <1>15, <1>6, <1>16, Leaves, InCore DEF Same
<1>18. /\ Same(e, d, {"cycle_limit", "cycle", "bus_addr", "bus_data", "sp", "wz", "pc"})
       /\ d.bus_addr = Plus(e.sp, 1)
       /\ d.bus_data = Manual!Peek(m, e.sp + 1)
       /\ d.sp = Plus(e.sp, 2)
       /\ d.pc = Manual!PeekWord(m, e.sp)
       /\ l = m
  BY <1>15, <1>17, <1>1, BytesAt
<1>19. d1.cycle = e.cycle + 1 /\ d1.cycle \in Nat
  BY <1>5 DEF OneCycle, Typed
<1>20. Alu!condition_met(e.f, Y(e.opcode))
  BY <1>5, <1>6, <1>10, <1>19, <1>1 DEF GoesOn
<1>21. /\ Same(e, p, {"cycle_limit", "cycle", "bus_addr", "bus_data", "sp", "wz", "pc",
            "nmi_latched"})
       /\ p.bus_addr = Plus(e.sp, 1)
       /\ p.bus_data = Manual!Peek(m, e.sp + 1)
       /\ p.sp = Plus(e.sp, 2)
       /\ p.pc = Manual!PeekWord(m, e.sp)
       /\ l = m
  BY <1>18, InCore DEF Same
<1>22. PICK s : s = Past(e)
  OBVIOUS
<1>23. s = [Seen(e) EXCEPT !.pc = Plus(e.pc, 0)]
  BY <1>4, <1>22, SeenFields DEF Past, Seen
<1>24. /\ Seen(p) = [s EXCEPT !.sp = p.sp, !.pc = p.pc]
       /\ \A x \in VisibleFields \ {"sp", "pc"} : s[x] = p[x]
       /\ s.sp = e.sp
       /\ s.pc = Plus(e.pc, 0)
  BY <1>23, <1>21, SeenFields DEF Same, Seen
<1>25. s.f = e.f
  BY <1>24, <1>21, SeenFields, InCore DEF Same
<1>26. Manual!condition_met(s.f, Y(e.opcode))
  BY <1>20, <1>25, SameArithmetic
<1>27. Manual!Quarter3(s, m, Y(e.opcode), 0, index_pair(e), at, port) = Manual!Returns(s, m)
  BY <1>26 DEF Manual!Quarter3
<1>28. Table(e, m, place, at, port) = Manual!Quarter3(s, m, Y(e.opcode), 0, index_pair(e), at, port)
  BY <1>1, <1>3, <1>22, QuarterOf DEF Table
<1>29. Manual!Quarter3(s, m, Y(e.opcode), 0, index_pair(e), at, port)
         = Manual!Both([s EXCEPT !.pc = Manual!PeekWord(m, s.sp), !.sp = Plus(@, 2)],
                       m)
  BY <1>25, <1>26, <1>27, ReturnsMean
<1>30. PICK r : r = Execute("ret_cc", p, int)
  OBVIOUS
<1>31. r = p
  BY <1>30, ExecutesNothing DEF Hooked
<1>32. Seen(r) = Seen(p)
  BY <1>31, <1>24
<1>33. Seen(r) = [s EXCEPT !.pc = Manual!PeekWord(m, s.sp), !.sp = Plus(@, 2)]
  BY <1>32, <1>21, <1>24, <1>21, <1>1, BytesAt
<1> QED BY <1>30, <1>33, <1>21, <1>24, <1>21, <1>28, <1>29, MeetsBoth

(* RET cc, not taken. *)
LEMMA Does_ret_cc_not ==
  ASSUME NEW e, NEW m, NEW place, NEW at, Begins(e, m, place, at), e.instr = "ret_cc",
         NEW d, NEW l, After1(e, m, d, l),
         ~GoesOn(d), e.cycle_limit = 3,
         NEW p, Typed(p), Same(d, p, {"nmi_latched"}), NEW int, NEW port
  PROVE  Meets(Execute("ret_cc", p, int), l, Table(e, m, place, at, port))
<1>1. /\ Typed(e) /\ Shaped(e) /\ e.opcode \in Byte /\ ByteMemory(m)
      /\ index_pair(e) \in {"hl", "ix", "iy"}
  BY CoreTypes DEF Begins, index_pair
<1>2. "ret_cc" = DecodeBase(e.opcode)
  BY DEF Begins
<1>3. /\ X(e.opcode) = 3
      /\ Z(e.opcode) = 0
  BY <1>1, <1>2, MapPlace
<1>4. Manual!OperandBytes(e.opcode) = 0
  BY <1>1, <1>3, FieldsType, OpcodeOf DEF Manual!OperandBytes, X, Y, Z
<1>5. OneCycle(e, m, d, l)
  BY DEF After1
<1>6. e.instr = "ret_cc" /\ e.cycle = 0 /\ Shaped(e)
  BY <1>5, Fields DEF OneCycle, Begins
<1>7. CyclesOf["ret_cc"] = ControlCycles("ret_cc") /\ HooksOf["ret_cc"] = ControlHooks("ret_cc")
  BY GroupCycles, GroupHooks DEF Instrs, ControlInstrs
<1>8. Enters(e, "idle1", "none", "return_condition")
  BY <1>6, <1>7 DEF Enters, ControlCycles, ControlHooks, Operand, Called, AtPcTo, AtPopTo, On,
     Idle, Read, Write,
       IoIn, IoOut, Idle1, Idle2, Idle4, Idle5, Idle7
<1>9. d = Put(Exit("return_condition", e), "cycle", e.cycle + 1) /\ l = m
  BY <1>5, <1>8, Idles DEF IdleCycles
<1>10. /\ Same(e, d, {"cycle_limit", "cycle"})
       /\ d.cycle_limit = IF Alu!condition_met(e.f, Y(e.opcode)) THEN e.cycle_limit ELSE e.cycle + 1
       /\ l = m
  BY <1>6, <1>9, LeavesOrEnds, InCore DEF Same
<1>11. /\ Same(e, d, {"cycle_limit", "cycle"})
       /\ l = m
  BY <1>10, <1>1, BytesAt
<1>12. d.cycle = e.cycle + 1 /\ d.cycle \in Nat
  BY <1>5 DEF OneCycle, Typed
<1>13. ~(Alu!condition_met(e.f, Y(e.opcode)))
  BY <1>5, <1>6, <1>10, <1>12, <1>1 DEF GoesOn
<1>14. /\ Same(e, p, {"cycle_limit", "cycle", "nmi_latched"})
       /\ l = m
  BY <1>11, <1>10, InCore DEF Same
<1>15. PICK s : s = Past(e)
  OBVIOUS
<1>16. s = [Seen(e) EXCEPT !.pc = Plus(e.pc, 0)]
  BY <1>4, <1>15, SeenFields DEF Past, Seen
<1>17. p.pc = Plus(e.pc, 0)
  BY <1>14, <1>1, BytesAt, InCore DEF Same
<1>18. Seen(p) = s /\ \A x \in VisibleFields : s[x] = p[x]
  BY <1>16, <1>14, <1>17, SeenFields DEF Same, Seen
<1>19. s.f = e.f
  BY <1>18, <1>14, SeenFields, InCore DEF Same
<1>20. ~Manual!condition_met(s.f, Y(e.opcode))
  BY <1>13, <1>19, SameArithmetic
<1>21. Table(e, m, place, at, port) = Manual!Quarter3(s, m, Y(e.opcode), 0, index_pair(e), at, port)
  BY <1>1, <1>3, <1>15, QuarterOf DEF Table
<1>22. Manual!Quarter3(s, m, Y(e.opcode), 0, index_pair(e), at, port)
         = Manual!Both(s,
                       m)
  BY <1>19, <1>20 DEF Manual!Quarter3
<1>23. PICK r : r = Execute("ret_cc", p, int)
  OBVIOUS
<1>24. r = p
  BY <1>23, ExecutesNothing DEF Hooked
<1>25. Seen(r) = s
  BY <1>24, <1>18
<1>26. Seen(r) = s
  BY <1>25, <1>14
<1> QED BY <1>23, <1>26, <1>14, <1>21, <1>22, MeetsBoth

(* RST p. *)
LEMMA Does_rst ==
  ASSUME NEW e, NEW m, NEW place, NEW at, Begins(e, m, place, at), e.instr = "rst",
         NEW d, NEW l, After3(e, m, d, l),
         NEW p, Typed(p), Same(d, p, {"nmi_latched"}), NEW int, NEW port
  PROVE  Meets(Execute("rst", p, int), l, Table(e, m, place, at, port))
<1>1. /\ Typed(e) /\ Shaped(e) /\ e.opcode \in Byte /\ ByteMemory(m)
      /\ index_pair(e) \in {"hl", "ix", "iy"}
  BY CoreTypes DEF Begins, index_pair
<1>2. "rst" = DecodeBase(e.opcode)
  BY DEF Begins
<1>3. /\ X(e.opcode) = 3
      /\ Z(e.opcode) = 7
  BY <1>1, <1>2, MapPlace
<1>4. Manual!OperandBytes(e.opcode) = 0
  BY <1>1, <1>3, FieldsType, OpcodeOf DEF Manual!OperandBytes, X, Y, Z
<1>5. PICK d1, m1, d2, m2 :
      /\ OneCycle(e, m, d1, m1)
      /\ OneCycle(d1, m1, d2, m2)
      /\ OneCycle(d2, m2, d, l)
  BY DEF After1, After2, After3
<1>6. /\ e.instr = "rst" /\ e.cycle = 0 /\ Shaped(e)
      /\ d1.instr = "rst" /\ d1.cycle = 1 /\ Shaped(d1)
      /\ d2.instr = "rst" /\ d2.cycle = 2 /\ Shaped(d2)
  BY <1>5, Fields DEF OneCycle, Begins
<1>7. CyclesOf["rst"] = ControlCycles("rst") /\ HooksOf["rst"] = ControlHooks("rst")
  BY GroupCycles, GroupHooks DEF Instrs, ControlInstrs
<1>8. /\ Enters(e, "idle1", "none", "none")
      /\ Enters(d1, "mem_write", "rst_target", "none")
      /\ Enters(d2, "mem_write", "push_pc_low", "take_wz")
  BY <1>6, <1>7 DEF Enters, ControlCycles, ControlHooks, Operand, Called, AtPcTo, AtPopTo, On,
     Idle, Read, Write,
       IoIn, IoOut, Idle1, Idle2, Idle4, Idle5, Idle7
<1>9. d1 = Put(Exit("none", e), "cycle", e.cycle + 1) /\ m1 = m
  BY <1>5, <1>8, Idles DEF IdleCycles
<1>10. /\ Same(e, d1, {"cycle"})
       /\ m1 = m
  BY <1>6, <1>9, Leaves, InCore DEF Same
<1>11. PICK f2 :
       /\ Same(d1, f2, {"bus_addr", "bus_data", "sp", "wz"})
       /\ f2.sp = Plus(d1.sp, -1)
       /\ f2.bus_addr = Plus(d1.sp, -1)
       /\ f2.bus_data = High(d1.pc)
       /\ f2.wz = 8 * Y(d1.opcode)
       /\ d2 = Put(Exit("none", f2), "cycle", d1.cycle + 1)
       /\ m2 = Manual!Poke(m1, Plus(d1.sp, -1), High(d1.pc))
  BY <1>5, <1>8, RstWrites
<1>12. /\ Same(e, d2, {"cycle", "bus_addr", "bus_data", "sp", "wz"})
       /\ d2.bus_addr = Plus(d1.sp, -1)
       /\ d2.bus_data = High(d1.pc)
       /\ d2.sp = Plus(d1.sp, -1)
       /\ d2.wz = 8 * Y(d1.opcode)
       /\ m2 = Manual!Poke(m1, Plus(d1.sp, -1), High(d1.pc))
  BY <1>10, <1>6, <1>11, Leaves, InCore DEF Same
<1>13. /\ d1.sp = e.sp
       /\ d1.pc = e.pc
       /\ d1.opcode = e.opcode
  BY <1>10, InCore DEF Same
<1>14. /\ Same(e, d2, {"cycle", "bus_addr", "bus_data", "sp", "wz"})
       /\ d2.bus_addr = Plus(e.sp, -1)
       /\ d2.bus_data = High(e.pc)
       /\ d2.sp = Plus(e.sp, -1)
       /\ d2.wz = 8 * Y(e.opcode)
       /\ m2 = Manual!Poke(m, Plus(e.sp, -1), High(e.pc))
  BY <1>10, <1>12, <1>13, <1>1, BytesAt
<1>15. Enter("push_pc_low", d2) = Pushed(d2, Low(d2.pc))
  BY <1>6, EnterPushes
<1>16. PICK f3 :
       /\ Same(d2, f3, {"bus_addr", "bus_data", "sp"})
       /\ f3.sp = Plus(d2.sp, -1)
       /\ f3.bus_addr = Plus(d2.sp, -1)
       /\ f3.bus_data = Low(d2.pc)
       /\ d = Put(Exit("take_wz", f3), "cycle", d2.cycle + 1)
       /\ l = Manual!Poke(m2, Plus(d2.sp, -1), Low(d2.pc))
  BY <1>5, <1>8, <1>15, PushWrites
<1>17. /\ Same(e, d, {"cycle", "bus_addr", "bus_data", "sp", "wz", "pc"})
       /\ d.bus_addr = Plus(d2.sp, -1)
       /\ d.bus_data = Low(d2.pc)
       /\ d.sp = Plus(d2.sp, -1)
       /\ d.pc = d2.wz
       /\ d.wz = d2.wz
       /\ l = Manual!Poke(m2, Plus(d2.sp, -1), Low(d2.pc))
  BY <1>14, <1>6, <1>16, Leaves, InCore DEF Same
<1>18. d2.pc = e.pc
  BY <1>14, InCore DEF Same
<1>19. /\ Same(e, d, {"cycle", "bus_addr", "bus_data", "sp", "wz", "pc"})
       /\ d.wz = 8 * Y(e.opcode)
       /\ d.bus_addr = Plus(e.sp, -2)
       /\ d.bus_data = Low(e.pc)
       /\ d.sp = Plus(e.sp, -2)
       /\ d.pc = 8 * Y(e.opcode)
       /\ l = Manual!Poke(Manual!Poke(m, Plus(e.sp, -1), High(e.pc)), Plus(e.sp, -2), Low(e.pc))
  BY <1>14, <1>17, <1>18, <1>1, BytesAt
<1>20. /\ Same(e, p, {"cycle", "bus_addr", "bus_data", "sp", "wz", "pc", "nmi_latched"})
       /\ p.wz = 8 * Y(e.opcode)
       /\ p.bus_addr = Plus(e.sp, -2)
       /\ p.bus_data = Low(e.pc)
       /\ p.sp = Plus(e.sp, -2)
       /\ p.pc = 8 * Y(e.opcode)
       /\ l = Manual!Poke(Manual!Poke(m, Plus(e.sp, -1), High(e.pc)), Plus(e.sp, -2), Low(e.pc))
  BY <1>19, InCore DEF Same
<1>21. PICK s : s = Past(e)
  OBVIOUS
<1>22. s = [Seen(e) EXCEPT !.pc = Plus(e.pc, 0)]
  BY <1>4, <1>21, SeenFields DEF Past, Seen
<1>23. /\ Seen(p) = [s EXCEPT !.sp = p.sp, !.pc = p.pc]
       /\ \A x \in VisibleFields \ {"sp", "pc"} : s[x] = p[x]
       /\ s.sp = e.sp
       /\ s.pc = Plus(e.pc, 0)
  BY <1>22, <1>20, SeenFields DEF Same, Seen
<1>24. s = [x \in VisibleFields |-> s[x]]
  BY <1>21, SeenIs DEF Past, Seen
<1>25. Manual!Calls(s, m, 8 * Y(e.opcode))
         = Manual!Both([s EXCEPT !.sp = Plus(@, -2), !.pc = 8 * Y(e.opcode)],
                       Manual!Poke(Manual!Poke(m, Plus(s.sp, -1), High(s.pc)), Plus(s.sp, -2),
                       Low(s.pc)))
  BY <1>24, CallsMean
<1>26. Table(e, m, place, at, port) = Manual!Quarter3(s, m, Y(e.opcode), 7, index_pair(e), at, port)
  BY <1>1, <1>3, <1>21, QuarterOf DEF Table
<1>27. Manual!Quarter3(s, m, Y(e.opcode), 7, index_pair(e), at, port)
         = Manual!Both([s EXCEPT !.sp = Plus(@, -2), !.pc = 8 * Y(e.opcode)],
                       Manual!Poke(Manual!Poke(m, Plus(s.sp, -1), High(s.pc)), Plus(s.sp, -2),
                       Low(s.pc)))
  BY <1>24, <1>25 DEF Manual!Quarter3
<1>28. PICK r : r = Execute("rst", p, int)
  OBVIOUS
<1>29. r = p
  BY <1>28, ExecutesNothing DEF Hooked
<1>30. Seen(r) = Seen(p)
  BY <1>29, <1>23
<1>31. l = Manual!Poke(Manual!Poke(m, Plus(s.sp, -1), High(s.pc)), Plus(s.sp, -2), Low(s.pc))
  BY <1>20, <1>23, <1>1, BytesAt, SeenFields, InCore DEF Same, OperandsAt, Begins
<1>32. Seen(r) = [s EXCEPT !.sp = Plus(@, -2), !.pc = 8 * Y(e.opcode)]
  BY <1>30, <1>31, <1>23, <1>20
<1> QED BY <1>28, <1>32, <1>31, <1>23, <1>20, <1>26, <1>27, MeetsBoth

(* JP cc,nn. *)
LEMMA Does_jp_cc ==
  ASSUME NEW e, NEW m, NEW place, NEW at, Begins(e, m, place, at), e.instr = "jp_cc",
         NEW d, NEW l, After2(e, m, d, l),
         NEW p, Typed(p), Same(d, p, {"nmi_latched"}), NEW int, NEW port
  PROVE  Meets(Execute("jp_cc", p, int), l, Table(e, m, place, at, port))
<1>1. /\ Typed(e) /\ Shaped(e) /\ e.opcode \in Byte /\ ByteMemory(m)
      /\ index_pair(e) \in {"hl", "ix", "iy"}
  BY CoreTypes DEF Begins, index_pair
<1>2. "jp_cc" = DecodeBase(e.opcode)
  BY DEF Begins
<1>3. /\ X(e.opcode) = 3
      /\ Z(e.opcode) = 2
  BY <1>1, <1>2, MapPlace
<1>4. Manual!OperandBytes(e.opcode) = 2
  BY <1>1, <1>3, FieldsType, OpcodeOf DEF Manual!OperandBytes, X, Y, Z
<1>5. PICK d1, m1 :
      /\ OneCycle(e, m, d1, m1)
      /\ OneCycle(d1, m1, d, l)
  BY DEF After1, After2
<1>6. /\ e.instr = "jp_cc" /\ e.cycle = 0 /\ Shaped(e)
      /\ d1.instr = "jp_cc" /\ d1.cycle = 1 /\ Shaped(d1)
  BY <1>5, Fields DEF OneCycle, Begins
<1>7. CyclesOf["jp_cc"] = ControlCycles("jp_cc") /\ HooksOf["jp_cc"] = ControlHooks("jp_cc")
  BY GroupCycles, GroupHooks DEF Instrs, ControlInstrs
<1>8. /\ Enters(e, "mem_read", "at_pc", "to_wz_low")
      /\ Enters(d1, "mem_read", "at_pc", "none")
  BY <1>6, <1>7 DEF Enters, ControlCycles, ControlHooks, Operand, Called, AtPcTo, AtPopTo, On,
     Idle, Read, Write,
       IoIn, IoOut, Idle1, Idle2, Idle4, Idle5, Idle7
<1>9. PICK f1 :
      /\ Same(e, f1, {"bus_addr", "bus_data", "pc"})
      /\ f1.bus_addr = e.pc
      /\ f1.bus_data = Manual!Peek(m, e.pc)
      /\ f1.bus_data \in Byte
      /\ m1 = m
      /\ f1.pc = Plus(e.pc, 1)
      /\ d1 = Put(Exit("to_wz_low", f1), "cycle", e.cycle + 1)
  BY <1>5, <1>8, AtPcReads
<1>10. /\ Same(e, d1, {"bus_addr", "bus_data", "pc", "wz", "cycle"})
       /\ d1.bus_addr = e.pc
       /\ d1.bus_data = Manual!Peek(m, e.pc)
       /\ d1.pc = Plus(e.pc, 1)
       /\ d1.wz = WithLow(e.wz, Manual!Peek(m, e.pc))
       /\ m1 = m
  BY <1>6, <1>9, Leaves, InCore DEF Same
<1>11. PICK f2 :
       /\ Same(d1, f2, {"bus_addr", "bus_data", "pc"})
       /\ f2.bus_addr = d1.pc
       /\ f2.bus_data = Manual!Peek(m1, d1.pc)
       /\ f2.bus_data \in Byte
       /\ l = m1
       /\ f2.pc = Plus(d1.pc, 1)
       /\ d = Put(Exit("none", f2), "cycle", d1.cycle + 1)
  BY <1>5, <1>8, AtPcReads
<1>12. /\ Same(e, d, {"bus_addr", "bus_data", "pc", "wz", "cycle"})
       /\ d.bus_addr = d1.pc
       /\ d.bus_data = Manual!Peek(m1, d1.pc)
       /\ d.pc = Plus(d1.pc, 1)
       /\ d.wz = d1.wz
       /\ l = m1
  BY <1>10, <1>6, <1>11, Leaves, InCore DEF Same
<1>13. /\ Same(e, d, {"bus_addr", "bus_data", "pc", "wz", "cycle"})
       /\ d.wz = WithLow(e.wz, Manual!Peek(m, e.pc))
       /\ d.bus_addr = Plus(e.pc, 1)
       /\ d.bus_data = Manual!Peek(m, e.pc + 1)
       /\ d.pc = Plus(e.pc, 2)
       /\ l = m
  BY <1>10, <1>12, <1>1, BytesAt
<1>14. /\ Same(e, p, {"bus_addr", "bus_data", "pc", "wz", "cycle", "nmi_latched"})
       /\ p.wz = WithLow(e.wz, Manual!Peek(m, e.pc))
       /\ p.bus_addr = Plus(e.pc, 1)
       /\ p.bus_data = Manual!Peek(m, e.pc + 1)
       /\ p.pc = Plus(e.pc, 2)
       /\ l = m
  BY <1>13, InCore DEF Same
<1>15. PICK s : s = Past(e)
  OBVIOUS
<1>16. s = [Seen(e) EXCEPT !.pc = Plus(e.pc, 2)]
  BY <1>4, <1>15, SeenFields DEF Past, Seen
<1>17. p.pc = Plus(e.pc, 2)
  BY <1>14, <1>1, BytesAt, InCore DEF Same
<1>18. Seen(p) = s /\ \A x \in VisibleFields : s[x] = p[x]
  BY <1>16, <1>14, <1>17, SeenFields DEF Same, Seen
<1>19. Table(e, m, place, at, port) = Manual!Quarter3(s, m, Y(e.opcode), 2, index_pair(e), at, port)
  BY <1>1, <1>3, <1>15, QuarterOf DEF Table
<1>20. Manual!Quarter3(s, m, Y(e.opcode), 2, index_pair(e), at, port)
         = Manual!Both(IF Manual!condition_met(s.f, Y(e.opcode))
           THEN [s EXCEPT !.pc = Manual!PeekWord(m, at)] ELSE s,
                       m)
  BY DEF Manual!Quarter3
<1>21. OperandsOf(e, p) /\ p.opcode = e.opcode
  BY <1>14, InCore DEF Same, OperandsOf
<1>22. /\ index_pair(p) = index_pair(e) /\ pair_rp(p) = pair_rp(e)
       /\ \A w : Slot(p, w) = Slot(e, w)
  BY <1>21, OperandsAgree
<1>23. PICK target : target = WithHigh(p.wz, p.bus_data)
  OBVIOUS
<1>24. Seen(GoTo(p, target)) = [s EXCEPT !.pc = target]
  BY <1>18, GoToMeans
<1>25. Seen(Put(p, "wz", target)) = s
  BY <1>18, CoreTypes, InCore, SeenFields, SeenPut
<1>26. /\ Seen(Put(p, "wz", target)) = s
       /\ Seen(GoTo(p, target)) = [s EXCEPT !.pc = target]
       /\ Manual!condition_met(s.f, Y(e.opcode)) <=> Alu!condition_met(p.f, Y(p.opcode))
  BY <1>21, <1>22, <1>23, <1>24, <1>25, <1>18, SeenFields, SameArithmetic
<1>27. PICK r : r = Execute("jp_cc", p, int)
  OBVIOUS
<1>28. r = ControlEffect("jp_cc", p)
  BY <1>27, Executes DEF Controls
<1>29. r = IF Alu!condition_met(p.f, Y(p.opcode)) THEN GoTo(p, target) ELSE Put(p, "wz", target)
  BY <1>28, <1>21, <1>22, <1>23, <1>24, <1>25, <1>26 DEF ControlEffect, Put
<1>30. Seen(r) = IF Alu!condition_met(p.f, Y(p.opcode)) THEN [s EXCEPT !.pc = target] ELSE s
  BY <1>29, <1>18, <1>21, <1>22, <1>23, <1>24, <1>25, <1>26, <1>26
<1>31. target = Manual!PeekWord(m, at)
  BY <1>21, <1>22, <1>23, <1>24, <1>25, <1>26, <1>14, <1>18, <1>1, SeenFields, InCore,
     BytesAt DEF Same, OperandsAt, Begins
<1>32. Seen(r) = IF Manual!condition_met(s.f, Y(e.opcode))
         THEN [s EXCEPT !.pc = Manual!PeekWord(m, at)] ELSE s
  BY <1>30, <1>31, <1>14, <1>21, <1>22, <1>23, <1>24, <1>25, <1>26
<1> QED BY <1>27, <1>32, <1>31, <1>14, <1>19, <1>20, MeetsBoth

(* IN A,(n). *)
LEMMA Does_in_a_n ==
  ASSUME NEW e, NEW m, NEW place, NEW at, Begins(e, m, place, at), e.instr = "in_a_n",
         NEW d, NEW l, After2(e, m, d, l),
         NEW p, Typed(p), Same(d, p, {"nmi_latched"}), NEW int
  PROVE  \E port \in PortBytes : Meets(Execute("in_a_n", p, int), l, Table(e, m, place, at, port))
<1>1. /\ Typed(e) /\ Shaped(e) /\ e.opcode \in Byte /\ ByteMemory(m)
      /\ index_pair(e) \in {"hl", "ix", "iy"}
  BY CoreTypes DEF Begins, index_pair
<1>2. "in_a_n" = DecodeBase(e.opcode)
  BY DEF Begins
<1>3. /\ X(e.opcode) = 3
      /\ Z(e.opcode) = 3
      /\ Y(e.opcode) = 3
  BY <1>1, <1>2, MapPlace
<1>4. Manual!OperandBytes(e.opcode) = 1
  BY <1>1, <1>3, FieldsType, OpcodeOf DEF Manual!OperandBytes, X, Y, Z
<1>5. PICK d1, m1 :
      /\ OneCycle(e, m, d1, m1)
      /\ OneCycle(d1, m1, d, l)
  BY DEF After1, After2
<1>6. /\ e.instr = "in_a_n" /\ e.cycle = 0 /\ Shaped(e)
      /\ d1.instr = "in_a_n" /\ d1.cycle = 1 /\ Shaped(d1)
  BY <1>5, Fields DEF OneCycle, Begins
<1>7. CyclesOf["in_a_n"] = ControlCycles("in_a_n") /\ HooksOf["in_a_n"] = ControlHooks("in_a_n")
  BY GroupCycles, GroupHooks DEF Instrs, ControlInstrs
<1>8. /\ Enters(e, "mem_read", "at_pc", "to_tmp_low")
      /\ Enters(d1, "io_read", "io_address", "none")
  BY <1>6, <1>7 DEF Enters, ControlCycles, ControlHooks, Operand, Called, AtPcTo, AtPopTo, On,
     Idle, Read, Write,
       IoIn, IoOut, Idle1, Idle2, Idle4, Idle5, Idle7
<1>9. PICK f1 :
      /\ Same(e, f1, {"bus_addr", "bus_data", "pc"})
      /\ f1.bus_addr = e.pc
      /\ f1.bus_data = Manual!Peek(m, e.pc)
      /\ f1.bus_data \in Byte
      /\ m1 = m
      /\ f1.pc = Plus(e.pc, 1)
      /\ d1 = Put(Exit("to_tmp_low", f1), "cycle", e.cycle + 1)
  BY <1>5, <1>8, AtPcReads
<1>10. /\ Same(e, d1, {"bus_addr", "bus_data", "pc", "tmp", "cycle"})
       /\ d1.bus_addr = e.pc
       /\ d1.bus_data = Manual!Peek(m, e.pc)
       /\ d1.pc = Plus(e.pc, 1)
       /\ d1.tmp = WithLow(e.tmp, Manual!Peek(m, e.pc))
       /\ m1 = m
  BY <1>6, <1>9, Leaves, InCore DEF Same
<1>11. Enter("io_address", d1) = Put(d1, "bus_addr", WithHigh(d1.tmp, d1.a))
  BY <1>6, EnterOthers
<1>12. PICK f2 :
       /\ Same(d1, f2, {"bus_addr", "bus_data"})
       /\ f2.bus_addr = WithHigh(d1.tmp, d1.a)
       /\ f2.bus_data \in PortBytes
       /\ f2.bus_data \in Byte
       /\ l = m1
       /\ d = Put(Exit("none", f2), "cycle", d1.cycle + 1)
  BY <1>5, <1>8, <1>11, PortReads
<1>13. /\ Same(e, d, {"bus_addr", "bus_data", "pc", "tmp", "cycle"})
       /\ d.bus_addr = WithHigh(d1.tmp, d1.a)
       /\ d.pc = d1.pc
       /\ d.tmp = d1.tmp
       /\ d.bus_data \in PortBytes /\ d.bus_data \in Byte
       /\ l = m1
  BY <1>10, <1>6, <1>12, Leaves, InCore DEF Same
<1>14. d1.a = e.a
  BY <1>10, InCore DEF Same
<1>15. /\ Same(e, d, {"bus_addr", "bus_data", "pc", "tmp", "cycle"})
       /\ d.pc = Plus(e.pc, 1)
       /\ d.tmp = WithLow(e.tmp, Manual!Peek(m, e.pc))
       /\ d.bus_addr = WithHigh(WithLow(e.tmp, Manual!Peek(m, e.pc)), e.a)
       /\ l = m
  BY <1>10, <1>13, <1>14, <1>1, BytesAt
<1>16. /\ Same(e, p, {"bus_addr", "bus_data", "pc", "tmp", "cycle", "nmi_latched"})
       /\ p.pc = Plus(e.pc, 1)
       /\ p.tmp = WithLow(e.tmp, Manual!Peek(m, e.pc))
       /\ p.bus_addr = WithHigh(WithLow(e.tmp, Manual!Peek(m, e.pc)), e.a)
       /\ l = m
       /\ p.bus_data \in PortBytes
  BY <1>15, <1>13, <1>13, InCore DEF Same
<1>17. PICK port \in PortBytes : port = p.bus_data
  BY <1>16
<1>18. PICK s : s = Past(e)
  OBVIOUS
<1>19. s = [Seen(e) EXCEPT !.pc = Plus(e.pc, 1)]
  BY <1>4, <1>18, SeenFields DEF Past, Seen
<1>20. p.pc = Plus(e.pc, 1)
  BY <1>16, <1>1, BytesAt, InCore DEF Same
<1>21. Seen(p) = s /\ \A x \in VisibleFields : s[x] = p[x]
  BY <1>19, <1>16, <1>20, SeenFields DEF Same, Seen
<1>22. Table(e, m, place, at, port) = Manual!Quarter3(s, m, 3, 3, index_pair(e), at, port)
  BY <1>1, <1>3, <1>18, QuarterOf DEF Table
<1>23. Manual!Quarter3(s, m, 3, 3, index_pair(e), at, port)
         = Manual!Both([s EXCEPT !.a = port],
                       m)
  BY DEF Manual!Quarter3
<1>24. PICK r : r = Execute("in_a_n", p, int)
  OBVIOUS
<1>25. r = LoadEffect("in_a_n", p)
  BY <1>24, Executes DEF Loads
<1>26. Shaped(p)
  BY CoreTypes
<1>27. r = Put(Put(p, "a", p.bus_data), "wz", Plus(p.bus_addr, 1))
  BY <1>25, <1>26 DEF LoadEffect, Put
<1>28. /\ Same(p, r, {"a", "wz"})
       /\ r["a"] = p.bus_data
  BY <1>27, <1>26, GetPut, InCore DEF Same
<1>29. Seen(r) = [s EXCEPT !.a = p.bus_data]
  BY <1>28, <1>21, SeenFields DEF Same, Seen
<1>30. p.bus_data = port
  BY <1>16, <1>21, <1>1, SeenFields, InCore, <1>17 DEF Same, OperandsAt, Begins
<1>31. Seen(r) = [s EXCEPT !.a = port]
  BY <1>29, <1>30, <1>16
<1>32. Meets(r, l, Table(e, m, place, at, port))
  BY <1>31, <1>30, <1>16, <1>22, <1>23, MeetsBoth
<1> QED BY <1>24, <1>32, <1>17

(* OUT (n),A. *)
LEMMA Does_out_n_a ==
  ASSUME NEW e, NEW m, NEW place, NEW at, Begins(e, m, place, at), e.instr = "out_n_a",
         NEW d, NEW l, After2(e, m, d, l),
         NEW p, Typed(p), Same(d, p, {"nmi_latched"}), NEW int, NEW port
  PROVE  Meets(Execute("out_n_a", p, int), l, Table(e, m, place, at, port))
<1>1. /\ Typed(e) /\ Shaped(e) /\ e.opcode \in Byte /\ ByteMemory(m)
      /\ index_pair(e) \in {"hl", "ix", "iy"}
  BY CoreTypes DEF Begins, index_pair
<1>2. "out_n_a" = DecodeBase(e.opcode)
  BY DEF Begins
<1>3. /\ X(e.opcode) = 3
      /\ Z(e.opcode) = 3
      /\ Y(e.opcode) = 2
  BY <1>1, <1>2, MapPlace
<1>4. Manual!OperandBytes(e.opcode) = 1
  BY <1>1, <1>3, FieldsType, OpcodeOf DEF Manual!OperandBytes, X, Y, Z
<1>5. PICK d1, m1 :
      /\ OneCycle(e, m, d1, m1)
      /\ OneCycle(d1, m1, d, l)
  BY DEF After1, After2
<1>6. /\ e.instr = "out_n_a" /\ e.cycle = 0 /\ Shaped(e)
      /\ d1.instr = "out_n_a" /\ d1.cycle = 1 /\ Shaped(d1)
  BY <1>5, Fields DEF OneCycle, Begins
<1>7. CyclesOf["out_n_a"] = ControlCycles("out_n_a") /\ HooksOf["out_n_a"] = ControlHooks("out_n_a")
  BY GroupCycles, GroupHooks DEF Instrs, ControlInstrs
<1>8. /\ Enters(e, "mem_read", "at_pc", "to_tmp_low")
      /\ Enters(d1, "io_write", "io_write", "none")
  BY <1>6, <1>7 DEF Enters, ControlCycles, ControlHooks, Operand, Called, AtPcTo, AtPopTo, On,
     Idle, Read, Write,
       IoIn, IoOut, Idle1, Idle2, Idle4, Idle5, Idle7
<1>9. PICK f1 :
      /\ Same(e, f1, {"bus_addr", "bus_data", "pc"})
      /\ f1.bus_addr = e.pc
      /\ f1.bus_data = Manual!Peek(m, e.pc)
      /\ f1.bus_data \in Byte
      /\ m1 = m
      /\ f1.pc = Plus(e.pc, 1)
      /\ d1 = Put(Exit("to_tmp_low", f1), "cycle", e.cycle + 1)
  BY <1>5, <1>8, AtPcReads
<1>10. /\ Same(e, d1, {"bus_addr", "bus_data", "pc", "tmp", "cycle"})
       /\ d1.bus_addr = e.pc
       /\ d1.bus_data = Manual!Peek(m, e.pc)
       /\ d1.pc = Plus(e.pc, 1)
       /\ d1.tmp = WithLow(e.tmp, Manual!Peek(m, e.pc))
       /\ m1 = m
  BY <1>6, <1>9, Leaves, InCore DEF Same
<1>11. Enter("io_write", d1) = Puts(d1, WithHigh(d1.tmp, d1.a), d1.a)
  BY <1>6, EnterOthers
<1>12. PICK f2 :
       /\ Same(d1, f2, {"bus_addr", "bus_data"})
       /\ f2.bus_addr = WithHigh(d1.tmp, d1.a)
       /\ f2.bus_data = d1.a
       /\ d = Put(Exit("none", f2), "cycle", d1.cycle + 1)
       /\ l = m1
  BY <1>5, <1>8, <1>11, PortWrites
<1>13. /\ Same(e, d, {"bus_addr", "bus_data", "pc", "tmp", "cycle"})
       /\ d.bus_addr = WithHigh(d1.tmp, d1.a)
       /\ d.bus_data = d1.a
       /\ d.pc = d1.pc
       /\ d.tmp = d1.tmp
       /\ l = m1
  BY <1>10, <1>6, <1>12, Leaves, InCore DEF Same
<1>14. d1.a = e.a
  BY <1>10, InCore DEF Same
<1>15. /\ Same(e, d, {"bus_addr", "bus_data", "pc", "tmp", "cycle"})
       /\ d.pc = Plus(e.pc, 1)
       /\ d.tmp = WithLow(e.tmp, Manual!Peek(m, e.pc))
       /\ d.bus_addr = WithHigh(WithLow(e.tmp, Manual!Peek(m, e.pc)), e.a)
       /\ d.bus_data = e.a
       /\ l = m
  BY <1>10, <1>13, <1>14, <1>1, BytesAt
<1>16. /\ Same(e, p, {"bus_addr", "bus_data", "pc", "tmp", "cycle", "nmi_latched"})
       /\ p.pc = Plus(e.pc, 1)
       /\ p.tmp = WithLow(e.tmp, Manual!Peek(m, e.pc))
       /\ p.bus_addr = WithHigh(WithLow(e.tmp, Manual!Peek(m, e.pc)), e.a)
       /\ p.bus_data = e.a
       /\ l = m
  BY <1>15, InCore DEF Same
<1>17. PICK s : s = Past(e)
  OBVIOUS
<1>18. s = [Seen(e) EXCEPT !.pc = Plus(e.pc, 1)]
  BY <1>4, <1>17, SeenFields DEF Past, Seen
<1>19. p.pc = Plus(e.pc, 1)
  BY <1>16, <1>1, BytesAt, InCore DEF Same
<1>20. Seen(p) = s /\ \A x \in VisibleFields : s[x] = p[x]
  BY <1>18, <1>16, <1>19, SeenFields DEF Same, Seen
<1>21. Table(e, m, place, at, port) = Manual!Quarter3(s, m, 2, 3, index_pair(e), at, port)
  BY <1>1, <1>3, <1>17, QuarterOf DEF Table
<1>22. Manual!Quarter3(s, m, 2, 3, index_pair(e), at, port)
         = Manual!Both(s,
                       m)
  BY DEF Manual!Quarter3
<1>23. PICK r : r = Execute("out_n_a", p, int)
  OBVIOUS
<1>24. r = LoadEffect("out_n_a", p)
  BY <1>23, Executes DEF Loads
<1>25. Shaped(p)
  BY CoreTypes
<1>26. r = Put(p, "wz", 256 * p.a + ((Low(p.bus_addr) + 1) % 256))
  BY <1>24, <1>25 DEF LoadEffect, StoredA, Put
<1>27. Same(p, r, {"wz"})
  BY <1>26, <1>25, GetPut, InCore DEF Same
<1>28. Seen(r) = s
  BY <1>27, <1>20, SeenFields DEF Same, Seen
<1>29. Seen(r) = s
  BY <1>28, <1>16
<1> QED BY <1>23, <1>29, <1>16, <1>21, <1>22, MeetsBoth
-----------------------------------------------------------------------------
(***************************************************************************)
(* All of the unprefixed table together, each instruction after as many    *)
(* cycles as it has.                                                       *)
(***************************************************************************)

(* How many cycles each instruction has after its fetch. *)
Of0 == {"alu_reg", "cb_reg", "ccf", "cpl", "daa", "dec_reg", "di", "ed_im",
        "ed_neg", "ed_nop", "ei", "ex_af", "ex_de_hl", "exx", "halt", "inc_reg",
        "jp_hl", "ld_reg_reg", "nop", "rotate_a", "scf"}
Of1 == {"add_hl_rp", "alu_mem", "alu_n", "dec_rp", "ed_adc_hl", "ed_in_c",
        "ed_ld_a_i", "ed_ld_a_r", "ed_ld_i_a", "ed_ld_r_a", "ed_out_c",
        "ed_sbc_hl", "inc_rp", "ld_a_bc", "ld_a_de", "ld_bc_a", "ld_de_a",
        "ld_hl_from_reg", "ld_reg_from_hl", "ld_reg_immediate", "ld_sp_hl"}
Of2 == {"cb_bit_mem", "ed_retn", "in_a_n", "jp_cc", "jr", "jr_cc", "jump",
        "ld_hl_n", "ld_rp_nn", "out_n_a", "pop", "ret"}
Of3 == {"cb_mem", "dec_mem", "djnz", "ed_block_compare", "ed_rld", "ed_rrd",
        "inc_mem", "index_alu_mem", "index_ld_mem_reg", "index_ld_reg_mem",
        "interrupt", "ld_a_nn", "ld_nn_a", "nmi", "push", "ret_cc", "rst"}
Of4 == {"ed_block_in", "ed_block_out", "ed_block_transfer", "ed_ld_nn_rp",
        "ed_ld_rp_nn", "index_ld_mem_n", "ld_hl_nn", "ld_nn_hl"}
Of5 == {"call", "call_cc", "index_dec_mem", "index_inc_mem", "interrupt_mode2"}
Of6 == {"ex_sp_hl", "index_cb"}

(* Those are the lengths of the tables. *)
LEMMA Lengths ==
  ASSUME NEW n \in Instrs
  PROVE  /\ n \in Of0 => Len(CyclesOf[n]) = 0
         /\ n \in Of1 => Len(CyclesOf[n]) = 1
         /\ n \in Of2 => Len(CyclesOf[n]) = 2
         /\ n \in Of3 => Len(CyclesOf[n]) = 3
         /\ n \in Of4 => Len(CyclesOf[n]) = 4
         /\ n \in Of5 => Len(CyclesOf[n]) = 5
         /\ n \in Of6 => Len(CyclesOf[n]) = 6
<1>1. ASSUME n \in Of0 PROVE Len(CyclesOf[n]) = 0
  <2>1. CASE n \in {"alu_reg", "cb_reg", "ccf", "cpl", "daa", "dec_reg", "di",
                    "ed_im", "ed_neg", "ed_nop", "ei", "ex_af", "ex_de_hl", "exx",
                    "halt", "inc_reg", "jp_hl", "ld_reg_reg", "nop", "rotate_a",
                    "scf"}
    BY <2>1, GroupCycles DEF FetchOnly
  <2> QED BY <1>1, <2>1 DEF Of0
<1>2. ASSUME n \in Of1 PROVE Len(CyclesOf[n]) = 1
  <2>1. CASE n \in {"ed_adc_hl", "ed_in_c", "ed_ld_a_i", "ed_ld_a_r", "ed_ld_i_a",
                    "ed_ld_r_a", "ed_out_c", "ed_sbc_hl"}
    BY <2>1, GroupCycles DEF EdInstrs, EdCycles
  <2>2. CASE n \in {"ld_a_bc", "ld_a_de", "ld_bc_a", "ld_de_a", "ld_hl_from_reg",
                    "ld_reg_from_hl", "ld_reg_immediate", "ld_sp_hl"}
    BY <2>2, GroupCycles DEF LoadInstrs, LoadCycles
  <2>3. CASE n \in {"add_hl_rp", "alu_mem", "alu_n", "dec_rp", "inc_rp"}
    BY <2>3, GroupCycles DEF ArithmeticInstrs, ArithmeticCycles
  <2> QED BY <1>2, <2>1, <2>2, <2>3 DEF Of1
<1>3. ASSUME n \in Of2 PROVE Len(CyclesOf[n]) = 2
  <2>1. CASE n \in {"ed_retn"}
    BY <2>1, GroupCycles DEF EdInstrs, EdCycles
  <2>2. CASE n \in {"ld_hl_n", "ld_rp_nn", "pop"}
    BY <2>2, GroupCycles DEF LoadInstrs, LoadCycles
  <2>3. CASE n \in {"cb_bit_mem"}
    BY <2>3, GroupCycles DEF ArithmeticInstrs, ArithmeticCycles
  <2>4. CASE n \in {"in_a_n", "jp_cc", "jr", "jr_cc", "jump", "out_n_a", "ret"}
    BY <2>4, GroupCycles DEF ControlInstrs, ControlCycles
  <2> QED BY <1>3, <2>1, <2>2, <2>3, <2>4 DEF Of2
<1>4. ASSUME n \in Of3 PROVE Len(CyclesOf[n]) = 3
  <2>1. CASE n \in {"index_alu_mem", "index_ld_mem_reg", "index_ld_reg_mem"}
    BY <2>1, GroupCycles DEF IndexedInstrs, IndexedCycles
  <2>2. CASE n \in {"ed_rld", "ed_rrd"}
    BY <2>2, GroupCycles DEF EdInstrs, EdCycles
  <2>3. CASE n \in {"ed_block_compare"}
    BY <2>3, GroupCycles DEF BlockInstrs, BlockCycles
  <2>4. CASE n \in {"ld_a_nn", "ld_nn_a", "push"}
    BY <2>4, GroupCycles DEF LoadInstrs, LoadCycles
  <2>5. CASE n \in {"cb_mem", "dec_mem", "inc_mem"}
    BY <2>5, GroupCycles DEF ArithmeticInstrs, ArithmeticCycles
  <2>6. CASE n \in {"djnz", "ret_cc", "rst"}
    BY <2>6, GroupCycles DEF ControlInstrs, ControlCycles
  <2>7. CASE n \in {"interrupt", "nmi"}
    BY <2>7, GroupCycles DEF InterruptSequences, InterruptCycles
  <2> QED BY <1>4, <2>1, <2>2, <2>3, <2>4, <2>5, <2>6, <2>7 DEF Of3
<1>5. ASSUME n \in Of4 PROVE Len(CyclesOf[n]) = 4
  <2>1. CASE n \in {"index_ld_mem_n"}
    BY <2>1, GroupCycles DEF IndexedInstrs, IndexedCycles
  <2>2. CASE n \in {"ed_ld_nn_rp", "ed_ld_rp_nn"}
    BY <2>2, GroupCycles DEF EdInstrs, EdCycles
  <2>3. CASE n \in {"ed_block_in", "ed_block_out", "ed_block_transfer"}
    BY <2>3, GroupCycles DEF BlockInstrs, BlockCycles
  <2>4. CASE n \in {"ld_hl_nn", "ld_nn_hl"}
    BY <2>4, GroupCycles DEF LoadInstrs, LoadCycles
  <2> QED BY <1>5, <2>1, <2>2, <2>3, <2>4 DEF Of4
<1>6. ASSUME n \in Of5 PROVE Len(CyclesOf[n]) = 5
  <2>1. CASE n \in {"index_dec_mem", "index_inc_mem"}
    BY <2>1, GroupCycles DEF IndexedInstrs, IndexedCycles
  <2>2. CASE n \in {"call", "call_cc"}
    BY <2>2, GroupCycles DEF ControlInstrs, ControlCycles
  <2>3. CASE n \in {"interrupt_mode2"}
    BY <2>3, GroupCycles DEF InterruptSequences, InterruptCycles
  <2> QED BY <1>6, <2>1, <2>2, <2>3 DEF Of5
<1>7. ASSUME n \in Of6 PROVE Len(CyclesOf[n]) = 6
  <2>1. CASE n \in {"index_cb"}
    BY <2>1, GroupCycles DEF IndexedInstrs, IndexedCycles
  <2>2. CASE n \in {"ex_sp_hl"}
    BY <2>2, GroupCycles DEF LoadInstrs, LoadCycles
  <2> QED BY <1>7, <2>1, <2>2 DEF Of6
<1> QED BY <1>1, <1>2, <1>3, <1>4, <1>5, <1>6, <1>7

(* Where an instruction that is over has come to. *)
Deciders == {"jr_cc", "djnz", "call_cc", "ret_cc", "ed_block_transfer", "ed_block_compare",
             "ed_block_in", "ed_block_out", "index_cb"}

(* An instruction that is complete has run all of its cycles. *)
LEMMA Came ==
  ASSUME NEW e, NEW m, NEW d, NEW l, Complete(e, m, d, l), e.instr \in Instrs \ Deciders
  PROVE  /\ e.instr \in Of0 => d = e /\ l = m
         /\ e.instr \in Of1 => After1(e, m, d, l)
         /\ e.instr \in Of2 => After2(e, m, d, l)
         /\ e.instr \in Of3 => After3(e, m, d, l)
         /\ e.instr \in Of4 => After4(e, m, d, l)
         /\ e.instr \in Of5 => After5(e, m, d, l)
         /\ e.instr \in Of6 => After6(e, m, d, l)
<1>1. \A j : <<e.instr, j>> \notin DecidingCycles
  BY DEF Deciders, DecidingCycles
<1>2. Ran(Len(CyclesOf[e.instr]), e, m, d, l)
  BY <1>1 DEF Complete
<1>3. ASSUME e.instr \in Of0 PROVE d = e /\ l = m
  <2>1. Len(CyclesOf[e.instr]) = 0
    BY <1>3, Lengths
  <2>2. Ran(0, e, m, d, l)
    BY <1>2, <2>1
  <2> QED BY <2>2 DEF Ran
<1>4. ASSUME e.instr \in Of1 PROVE After1(e, m, d, l)
  <2>1. Len(CyclesOf[e.instr]) = 1
    BY <1>4, Lengths
  <2>2. Ran(1, e, m, d, l)
    BY <1>2, <2>1
  <2> QED BY <2>2 DEF Ran
<1>5. ASSUME e.instr \in Of2 PROVE After2(e, m, d, l)
  <2>1. Len(CyclesOf[e.instr]) = 2
    BY <1>5, Lengths
  <2>2. Ran(2, e, m, d, l)
    BY <1>2, <2>1
  <2> QED BY <2>2 DEF Ran
<1>6. ASSUME e.instr \in Of3 PROVE After3(e, m, d, l)
  <2>1. Len(CyclesOf[e.instr]) = 3
    BY <1>6, Lengths
  <2>2. Ran(3, e, m, d, l)
    BY <1>2, <2>1
  <2> QED BY <2>2 DEF Ran
<1>7. ASSUME e.instr \in Of4 PROVE After4(e, m, d, l)
  <2>1. Len(CyclesOf[e.instr]) = 4
    BY <1>7, Lengths
  <2>2. Ran(4, e, m, d, l)
    BY <1>2, <2>1
  <2> QED BY <2>2 DEF Ran
<1>8. ASSUME e.instr \in Of5 PROVE After5(e, m, d, l)
  <2>1. Len(CyclesOf[e.instr]) = 5
    BY <1>8, Lengths
  <2>2. Ran(5, e, m, d, l)
    BY <1>2, <2>1
  <2> QED BY <2>2 DEF Ran
<1>9. ASSUME e.instr \in Of6 PROVE After6(e, m, d, l)
  <2>1. Len(CyclesOf[e.instr]) = 6
    BY <1>9, Lengths
  <2>2. Ran(6, e, m, d, l)
    BY <1>2, <2>1
  <2> QED BY <2>2 DEF Ran
<1> QED BY <1>3, <1>4, <1>5, <1>6, <1>7, <1>8, <1>9

(* Or it was ended by the cycle that decides. *)
LEMMA CameOrEnded ==
  ASSUME NEW e, NEW m, NEW d, NEW l, Complete(e, m, d, l), e.instr \in Deciders
  PROVE  /\ ~GoesOn(d)
         /\ e.instr = "jr_cc" => /\ e.cycle_limit = 2
                                 /\ After1(e, m, d, l) \/ After2(e, m, d, l)
         /\ e.instr = "djnz" => /\ e.cycle_limit = 3
                                /\ After2(e, m, d, l) \/ After3(e, m, d, l)
         /\ e.instr = "call_cc" => /\ e.cycle_limit = 5
                                   /\ After2(e, m, d, l) \/ After5(e, m, d, l)
         /\ e.instr = "ret_cc" => /\ e.cycle_limit = 3
                                  /\ After1(e, m, d, l) \/ After3(e, m, d, l)
         /\ e.instr = "ed_block_transfer" => /\ e.cycle_limit = 4
                                             /\ After3(e, m, d, l) \/ After4(e, m, d, l)
         /\ e.instr = "ed_block_compare" => /\ e.cycle_limit = 3
                                            /\ After2(e, m, d, l) \/ After3(e, m, d, l)
         /\ e.instr = "ed_block_in" => /\ e.cycle_limit = 4
                                       /\ After3(e, m, d, l) \/ After4(e, m, d, l)
         /\ e.instr = "ed_block_out" => /\ e.cycle_limit = 4
                                        /\ After3(e, m, d, l) \/ After4(e, m, d, l)
         /\ e.instr = "index_cb" => /\ e.cycle_limit = 6
                                    /\ After5(e, m, d, l) \/ After6(e, m, d, l)
<1>1. ~GoesOn(d) /\ e.cycle_limit = Len(CyclesOf[e.instr]) /\ e.instr \in Instrs
  BY DEF Complete, Deciders, Instrs, ControlInstrs, BlockInstrs, IndexedInstrs
<1>2. \/ Ran(Len(CyclesOf[e.instr]), e, m, d, l)
      \/ \E j \in Nat : <<e.instr, j>> \in DecidingCycles /\ Ran(j + 1, e, m, d, l)
  BY DEF Complete
<1>3. ASSUME e.instr = "jr_cc" PROVE e.cycle_limit = 2 /\ (After1(e, m, d, l) \/ After2(e, m, d, l))
  <2>1. Len(CyclesOf[e.instr]) = 2
    BY <1>1, <1>3, Lengths DEF Of2
  <2>2. \A j : <<e.instr, j>> \in DecidingCycles => j = 0
    BY <1>3 DEF DecidingCycles
  <2>3. CASE Ran(Len(CyclesOf[e.instr]), e, m, d, l)
    <3>1. Ran(2, e, m, d, l)
      BY <2>1, <2>3
    <3> QED BY <1>1, <2>1, <3>1 DEF Ran
  <2>4. CASE \E j \in Nat : <<e.instr, j>> \in DecidingCycles /\ Ran(j + 1, e, m, d, l)
    <3>1. PICK j \in Nat : <<e.instr, j>> \in DecidingCycles /\ Ran(j + 1, e, m, d, l)
      BY <2>4
    <3>2. j + 1 = 1
      BY <2>2, <3>1
    <3>3. Ran(1, e, m, d, l)
      BY <3>1, <3>2
    <3> QED BY <1>1, <2>1, <3>3 DEF Ran
  <2> QED BY <1>2, <2>3, <2>4
<1>4. ASSUME e.instr = "djnz" PROVE e.cycle_limit = 3 /\ (After2(e, m, d, l) \/ After3(e, m, d, l))
  <2>1. Len(CyclesOf[e.instr]) = 3
    BY <1>1, <1>4, Lengths DEF Of3
  <2>2. \A j : <<e.instr, j>> \in DecidingCycles => j = 1
    BY <1>4 DEF DecidingCycles
  <2>3. CASE Ran(Len(CyclesOf[e.instr]), e, m, d, l)
    <3>1. Ran(3, e, m, d, l)
      BY <2>1, <2>3
    <3> QED BY <1>1, <2>1, <3>1 DEF Ran
  <2>4. CASE \E j \in Nat : <<e.instr, j>> \in DecidingCycles /\ Ran(j + 1, e, m, d, l)
    <3>1. PICK j \in Nat : <<e.instr, j>> \in DecidingCycles /\ Ran(j + 1, e, m, d, l)
      BY <2>4
    <3>2. j + 1 = 2
      BY <2>2, <3>1
    <3>3. Ran(2, e, m, d, l)
      BY <3>1, <3>2
    <3> QED BY <1>1, <2>1, <3>3 DEF Ran
  <2> QED BY <1>2, <2>3, <2>4
<1>5. ASSUME e.instr = "call_cc" PROVE e.cycle_limit = 5 /\
               (After2(e, m, d, l) \/ After5(e, m, d, l))
  <2>1. Len(CyclesOf[e.instr]) = 5
    BY <1>1, <1>5, Lengths DEF Of5
  <2>2. \A j : <<e.instr, j>> \in DecidingCycles => j = 1
    BY <1>5 DEF DecidingCycles
  <2>3. CASE Ran(Len(CyclesOf[e.instr]), e, m, d, l)
    <3>1. Ran(5, e, m, d, l)
      BY <2>1, <2>3
    <3> QED BY <1>1, <2>1, <3>1 DEF Ran
  <2>4. CASE \E j \in Nat : <<e.instr, j>> \in DecidingCycles /\ Ran(j + 1, e, m, d, l)
    <3>1. PICK j \in Nat : <<e.instr, j>> \in DecidingCycles /\ Ran(j + 1, e, m, d, l)
      BY <2>4
    <3>2. j + 1 = 2
      BY <2>2, <3>1
    <3>3. Ran(2, e, m, d, l)
      BY <3>1, <3>2
    <3> QED BY <1>1, <2>1, <3>3 DEF Ran
  <2> QED BY <1>2, <2>3, <2>4
<1>6. ASSUME e.instr = "ret_cc" PROVE e.cycle_limit = 3 /\
               (After1(e, m, d, l) \/ After3(e, m, d, l))
  <2>1. Len(CyclesOf[e.instr]) = 3
    BY <1>1, <1>6, Lengths DEF Of3
  <2>2. \A j : <<e.instr, j>> \in DecidingCycles => j = 0
    BY <1>6 DEF DecidingCycles
  <2>3. CASE Ran(Len(CyclesOf[e.instr]), e, m, d, l)
    <3>1. Ran(3, e, m, d, l)
      BY <2>1, <2>3
    <3> QED BY <1>1, <2>1, <3>1 DEF Ran
  <2>4. CASE \E j \in Nat : <<e.instr, j>> \in DecidingCycles /\ Ran(j + 1, e, m, d, l)
    <3>1. PICK j \in Nat : <<e.instr, j>> \in DecidingCycles /\ Ran(j + 1, e, m, d, l)
      BY <2>4
    <3>2. j + 1 = 1
      BY <2>2, <3>1
    <3>3. Ran(1, e, m, d, l)
      BY <3>1, <3>2
    <3> QED BY <1>1, <2>1, <3>3 DEF Ran
  <2> QED BY <1>2, <2>3, <2>4
<1>7. ASSUME e.instr = "ed_block_transfer"
      PROVE e.cycle_limit = 4 /\ (After3(e, m, d, l) \/ After4(e, m, d, l))
  <2>1. Len(CyclesOf[e.instr]) = 4
    BY <1>1, <1>7, Lengths DEF Of4
  <2>2. \A j : <<e.instr, j>> \in DecidingCycles => j = 2
    BY <1>7 DEF DecidingCycles
  <2>3. CASE Ran(Len(CyclesOf[e.instr]), e, m, d, l)
    <3>1. Ran(4, e, m, d, l)
      BY <2>1, <2>3
    <3> QED BY <1>1, <2>1, <3>1 DEF Ran
  <2>4. CASE \E j \in Nat : <<e.instr, j>> \in DecidingCycles /\ Ran(j + 1, e, m, d, l)
    <3>1. PICK j \in Nat : <<e.instr, j>> \in DecidingCycles /\ Ran(j + 1, e, m, d, l)
      BY <2>4
    <3>2. j + 1 = 3
      BY <2>2, <3>1
    <3>3. Ran(3, e, m, d, l)
      BY <3>1, <3>2
    <3> QED BY <1>1, <2>1, <3>3 DEF Ran
  <2> QED BY <1>2, <2>3, <2>4
<1>8. ASSUME e.instr = "ed_block_compare"
      PROVE e.cycle_limit = 3 /\ (After2(e, m, d, l) \/ After3(e, m, d, l))
  <2>1. Len(CyclesOf[e.instr]) = 3
    BY <1>1, <1>8, Lengths DEF Of3
  <2>2. \A j : <<e.instr, j>> \in DecidingCycles => j = 1
    BY <1>8 DEF DecidingCycles
  <2>3. CASE Ran(Len(CyclesOf[e.instr]), e, m, d, l)
    <3>1. Ran(3, e, m, d, l)
      BY <2>1, <2>3
    <3> QED BY <1>1, <2>1, <3>1 DEF Ran
  <2>4. CASE \E j \in Nat : <<e.instr, j>> \in DecidingCycles /\ Ran(j + 1, e, m, d, l)
    <3>1. PICK j \in Nat : <<e.instr, j>> \in DecidingCycles /\ Ran(j + 1, e, m, d, l)
      BY <2>4
    <3>2. j + 1 = 2
      BY <2>2, <3>1
    <3>3. Ran(2, e, m, d, l)
      BY <3>1, <3>2
    <3> QED BY <1>1, <2>1, <3>3 DEF Ran
  <2> QED BY <1>2, <2>3, <2>4
<1>9. ASSUME e.instr = "ed_block_in"
      PROVE e.cycle_limit = 4 /\ (After3(e, m, d, l) \/ After4(e, m, d, l))
  <2>1. Len(CyclesOf[e.instr]) = 4
    BY <1>1, <1>9, Lengths DEF Of4
  <2>2. \A j : <<e.instr, j>> \in DecidingCycles => j = 2
    BY <1>9 DEF DecidingCycles
  <2>3. CASE Ran(Len(CyclesOf[e.instr]), e, m, d, l)
    <3>1. Ran(4, e, m, d, l)
      BY <2>1, <2>3
    <3> QED BY <1>1, <2>1, <3>1 DEF Ran
  <2>4. CASE \E j \in Nat : <<e.instr, j>> \in DecidingCycles /\ Ran(j + 1, e, m, d, l)
    <3>1. PICK j \in Nat : <<e.instr, j>> \in DecidingCycles /\ Ran(j + 1, e, m, d, l)
      BY <2>4
    <3>2. j + 1 = 3
      BY <2>2, <3>1
    <3>3. Ran(3, e, m, d, l)
      BY <3>1, <3>2
    <3> QED BY <1>1, <2>1, <3>3 DEF Ran
  <2> QED BY <1>2, <2>3, <2>4
<1>10. ASSUME e.instr = "ed_block_out"
       PROVE e.cycle_limit = 4 /\ (After3(e, m, d, l) \/ After4(e, m, d, l))
  <2>1. Len(CyclesOf[e.instr]) = 4
    BY <1>1, <1>10, Lengths DEF Of4
  <2>2. \A j : <<e.instr, j>> \in DecidingCycles => j = 2
    BY <1>10 DEF DecidingCycles
  <2>3. CASE Ran(Len(CyclesOf[e.instr]), e, m, d, l)
    <3>1. Ran(4, e, m, d, l)
      BY <2>1, <2>3
    <3> QED BY <1>1, <2>1, <3>1 DEF Ran
  <2>4. CASE \E j \in Nat : <<e.instr, j>> \in DecidingCycles /\ Ran(j + 1, e, m, d, l)
    <3>1. PICK j \in Nat : <<e.instr, j>> \in DecidingCycles /\ Ran(j + 1, e, m, d, l)
      BY <2>4
    <3>2. j + 1 = 3
      BY <2>2, <3>1
    <3>3. Ran(3, e, m, d, l)
      BY <3>1, <3>2
    <3> QED BY <1>1, <2>1, <3>3 DEF Ran
  <2> QED BY <1>2, <2>3, <2>4
<1>11. ASSUME e.instr = "index_cb" PROVE e.cycle_limit = 6 /\
                (After5(e, m, d, l) \/ After6(e, m, d, l))
  <2>1. Len(CyclesOf[e.instr]) = 6
    BY <1>1, <1>11, Lengths DEF Of6
  <2>2. \A j : <<e.instr, j>> \in DecidingCycles => j = 4
    BY <1>11 DEF DecidingCycles
  <2>3. CASE Ran(Len(CyclesOf[e.instr]), e, m, d, l)
    <3>1. Ran(6, e, m, d, l)
      BY <2>1, <2>3
    <3> QED BY <1>1, <2>1, <3>1 DEF Ran
  <2>4. CASE \E j \in Nat : <<e.instr, j>> \in DecidingCycles /\ Ran(j + 1, e, m, d, l)
    <3>1. PICK j \in Nat : <<e.instr, j>> \in DecidingCycles /\ Ran(j + 1, e, m, d, l)
      BY <2>4
    <3>2. j + 1 = 5
      BY <2>2, <3>1
    <3>3. Ran(5, e, m, d, l)
      BY <3>1, <3>2
    <3> QED BY <1>1, <2>1, <3>3 DEF Ran
  <2> QED BY <1>2, <2>3, <2>4
<1> QED BY <1>1, <1>3, <1>4, <1>5, <1>6, <1>7, <1>8, <1>9, <1>10, <1>11

(* Every instruction of the unprefixed table but HALT. *)
LEMMA FetchesMeet ==
  ASSUME NEW e, NEW m, NEW place, NEW at, Begins(e, m, place, at),
         e.instr \in {"nop", "ld_reg_reg", "alu_reg", "inc_reg", "dec_reg",
                      "rotate_a", "daa", "cpl", "scf", "ccf", "ex_af", "ex_de_hl",
                      "exx", "jp_hl", "di", "ei"},
         NEW d, NEW l, Complete(e, m, d, l),
         NEW p, Typed(p), Same(d, p, {"nmi_latched"}), NEW int
  PROVE  \E port \in PortBytes :
           Meets(Execute(e.instr, p, int), l, Table(e, m, place, at, port))
<1>1. PICK octet \in PortBytes : TRUE
  BY RegistersAssumption
<1>2. CASE e.instr = "nop"
  <2>1. d = e /\ l = m
    BY <1>2, Came DEF Of0, Deciders, Instrs, FetchOnly
  <2>2. Same(e, p, {"nmi_latched"})
    BY <2>1
  <2>3. Meets(Execute("nop", p, int), m, Table(e, m, place, at, octet))
    BY <1>2, <2>2, Does_nop
  <2> QED BY <1>1, <1>2, <2>1, <2>3
<1>3. CASE e.instr = "ld_reg_reg"
  <2>1. d = e /\ l = m
    BY <1>3, Came DEF Of0, Deciders, Instrs, FetchOnly
  <2>2. Same(e, p, {"nmi_latched"})
    BY <2>1
  <2>3. Meets(Execute("ld_reg_reg", p, int), m, Table(e, m, place, at, octet))
    BY <1>3, <2>2, Does_ld_reg_reg
  <2> QED BY <1>1, <1>3, <2>1, <2>3
<1>4. CASE e.instr = "alu_reg"
  <2>1. d = e /\ l = m
    BY <1>4, Came DEF Of0, Deciders, Instrs, FetchOnly
  <2>2. Same(e, p, {"nmi_latched"})
    BY <2>1
  <2>3. Meets(Execute("alu_reg", p, int), m, Table(e, m, place, at, octet))
    BY <1>4, <2>2, Does_alu_reg
  <2> QED BY <1>1, <1>4, <2>1, <2>3
<1>5. CASE e.instr = "inc_reg"
  <2>1. d = e /\ l = m
    BY <1>5, Came DEF Of0, Deciders, Instrs, FetchOnly
  <2>2. Same(e, p, {"nmi_latched"})
    BY <2>1
  <2>3. Meets(Execute("inc_reg", p, int), m, Table(e, m, place, at, octet))
    BY <1>5, <2>2, Does_inc_reg
  <2> QED BY <1>1, <1>5, <2>1, <2>3
<1>6. CASE e.instr = "dec_reg"
  <2>1. d = e /\ l = m
    BY <1>6, Came DEF Of0, Deciders, Instrs, FetchOnly
  <2>2. Same(e, p, {"nmi_latched"})
    BY <2>1
  <2>3. Meets(Execute("dec_reg", p, int), m, Table(e, m, place, at, octet))
    BY <1>6, <2>2, Does_dec_reg
  <2> QED BY <1>1, <1>6, <2>1, <2>3
<1>7. CASE e.instr = "rotate_a"
  <2>1. d = e /\ l = m
    BY <1>7, Came DEF Of0, Deciders, Instrs, FetchOnly
  <2>2. Same(e, p, {"nmi_latched"})
    BY <2>1
  <2>3. Meets(Execute("rotate_a", p, int), m, Table(e, m, place, at, octet))
    BY <1>7, <2>2, Does_rotate_a
  <2> QED BY <1>1, <1>7, <2>1, <2>3
<1>8. CASE e.instr = "daa"
  <2>1. d = e /\ l = m
    BY <1>8, Came DEF Of0, Deciders, Instrs, FetchOnly
  <2>2. Same(e, p, {"nmi_latched"})
    BY <2>1
  <2>3. Meets(Execute("daa", p, int), m, Table(e, m, place, at, octet))
    BY <1>8, <2>2, Does_daa
  <2> QED BY <1>1, <1>8, <2>1, <2>3
<1>9. CASE e.instr = "cpl"
  <2>1. d = e /\ l = m
    BY <1>9, Came DEF Of0, Deciders, Instrs, FetchOnly
  <2>2. Same(e, p, {"nmi_latched"})
    BY <2>1
  <2>3. Meets(Execute("cpl", p, int), m, Table(e, m, place, at, octet))
    BY <1>9, <2>2, Does_cpl
  <2> QED BY <1>1, <1>9, <2>1, <2>3
<1>10. CASE e.instr = "scf"
  <2>1. d = e /\ l = m
    BY <1>10, Came DEF Of0, Deciders, Instrs, FetchOnly
  <2>2. Same(e, p, {"nmi_latched"})
    BY <2>1
  <2>3. Meets(Execute("scf", p, int), m, Table(e, m, place, at, octet))
    BY <1>10, <2>2, Does_scf
  <2> QED BY <1>1, <1>10, <2>1, <2>3
<1>11. CASE e.instr = "ccf"
  <2>1. d = e /\ l = m
    BY <1>11, Came DEF Of0, Deciders, Instrs, FetchOnly
  <2>2. Same(e, p, {"nmi_latched"})
    BY <2>1
  <2>3. Meets(Execute("ccf", p, int), m, Table(e, m, place, at, octet))
    BY <1>11, <2>2, Does_ccf
  <2> QED BY <1>1, <1>11, <2>1, <2>3
<1>12. CASE e.instr = "ex_af"
  <2>1. d = e /\ l = m
    BY <1>12, Came DEF Of0, Deciders, Instrs, FetchOnly
  <2>2. Same(e, p, {"nmi_latched"})
    BY <2>1
  <2>3. Meets(Execute("ex_af", p, int), m, Table(e, m, place, at, octet))
    BY <1>12, <2>2, Does_ex_af
  <2> QED BY <1>1, <1>12, <2>1, <2>3
<1>13. CASE e.instr = "ex_de_hl"
  <2>1. d = e /\ l = m
    BY <1>13, Came DEF Of0, Deciders, Instrs, FetchOnly
  <2>2. Same(e, p, {"nmi_latched"})
    BY <2>1
  <2>3. Meets(Execute("ex_de_hl", p, int), m, Table(e, m, place, at, octet))
    BY <1>13, <2>2, Does_ex_de_hl
  <2> QED BY <1>1, <1>13, <2>1, <2>3
<1>14. CASE e.instr = "exx"
  <2>1. d = e /\ l = m
    BY <1>14, Came DEF Of0, Deciders, Instrs, FetchOnly
  <2>2. Same(e, p, {"nmi_latched"})
    BY <2>1
  <2>3. Meets(Execute("exx", p, int), m, Table(e, m, place, at, octet))
    BY <1>14, <2>2, Does_exx
  <2> QED BY <1>1, <1>14, <2>1, <2>3
<1>15. CASE e.instr = "jp_hl"
  <2>1. d = e /\ l = m
    BY <1>15, Came DEF Of0, Deciders, Instrs, FetchOnly
  <2>2. Same(e, p, {"nmi_latched"})
    BY <2>1
  <2>3. Meets(Execute("jp_hl", p, int), m, Table(e, m, place, at, octet))
    BY <1>15, <2>2, Does_jp_hl
  <2> QED BY <1>1, <1>15, <2>1, <2>3
<1>16. CASE e.instr = "di"
  <2>1. d = e /\ l = m
    BY <1>16, Came DEF Of0, Deciders, Instrs, FetchOnly
  <2>2. Same(e, p, {"nmi_latched"})
    BY <2>1
  <2>3. Meets(Execute("di", p, int), m, Table(e, m, place, at, octet))
    BY <1>16, <2>2, Does_di
  <2> QED BY <1>1, <1>16, <2>1, <2>3
<1>17. CASE e.instr = "ei"
  <2>1. d = e /\ l = m
    BY <1>17, Came DEF Of0, Deciders, Instrs, FetchOnly
  <2>2. Same(e, p, {"nmi_latched"})
    BY <2>1
  <2>3. Meets(Execute("ei", p, int), m, Table(e, m, place, at, octet))
    BY <1>17, <2>2, Does_ei
  <2> QED BY <1>1, <1>17, <2>1, <2>3
<1> QED BY <1>2, <1>3, <1>4, <1>5, <1>6, <1>7, <1>8, <1>9, <1>10, <1>11, <1>12,
           <1>13, <1>14, <1>15, <1>16, <1>17

(* The loads, exchanges and stack instructions together. *)
LEMMA LoadsMeet ==
  ASSUME NEW e, NEW m, NEW place, NEW at, Begins(e, m, place, at),
         e.instr \in {"ld_a_nn", "ld_nn_hl", "ld_reg_immediate", "ld_reg_from_hl",
                      "ld_hl_from_reg", "ld_hl_n", "ld_a_bc", "ld_a_de", "ld_bc_a",
                      "ld_de_a", "ld_nn_a", "ld_rp_nn", "ld_sp_hl", "ld_hl_nn",
                      "push", "pop", "ex_sp_hl"},
         NEW d, NEW l, Complete(e, m, d, l),
         NEW p, Typed(p), Same(d, p, {"nmi_latched"}), NEW int
  PROVE  \E port \in PortBytes :
           Meets(Execute(e.instr, p, int), l, Table(e, m, place, at, port))
<1>1. PICK octet \in PortBytes : TRUE
  BY RegistersAssumption
<1>2. CASE e.instr = "ld_a_nn"
  <2>1. After3(e, m, d, l)
    BY <1>2, Came DEF Of3, Deciders, Instrs, LoadInstrs
  <2>2. Meets(Execute("ld_a_nn", p, int), l, Table(e, m, place, at, octet))
    BY <1>2, <2>1, Does_ld_a_nn
  <2> QED BY <1>1, <1>2, <2>2
<1>3. CASE e.instr = "ld_nn_hl"
  <2>1. After4(e, m, d, l)
    BY <1>3, Came DEF Of4, Deciders, Instrs, LoadInstrs
  <2>2. Meets(Execute("ld_nn_hl", p, int), l, Table(e, m, place, at, octet))
    BY <1>3, <2>1, Does_ld_nn_hl
  <2> QED BY <1>1, <1>3, <2>2
<1>4. CASE e.instr = "ld_reg_immediate"
  <2>1. After1(e, m, d, l)
    BY <1>4, Came DEF Of1, Deciders, Instrs, LoadInstrs
  <2>2. Meets(Execute("ld_reg_immediate", p, int), l, Table(e, m, place, at, octet))
    BY <1>4, <2>1, Does_ld_reg_immediate
  <2> QED BY <1>1, <1>4, <2>2
<1>5. CASE e.instr = "ld_reg_from_hl"
  <2>1. After1(e, m, d, l)
    BY <1>5, Came DEF Of1, Deciders, Instrs, LoadInstrs
  <2>2. Meets(Execute("ld_reg_from_hl", p, int), l, Table(e, m, place, at, octet))
    BY <1>5, <2>1, Does_ld_reg_from_hl
  <2> QED BY <1>1, <1>5, <2>2
<1>6. CASE e.instr = "ld_hl_from_reg"
  <2>1. After1(e, m, d, l)
    BY <1>6, Came DEF Of1, Deciders, Instrs, LoadInstrs
  <2>2. Meets(Execute("ld_hl_from_reg", p, int), l, Table(e, m, place, at, octet))
    BY <1>6, <2>1, Does_ld_hl_from_reg
  <2> QED BY <1>1, <1>6, <2>2
<1>7. CASE e.instr = "ld_hl_n"
  <2>1. After2(e, m, d, l)
    BY <1>7, Came DEF Of2, Deciders, Instrs, LoadInstrs
  <2>2. Meets(Execute("ld_hl_n", p, int), l, Table(e, m, place, at, octet))
    BY <1>7, <2>1, Does_ld_hl_n
  <2> QED BY <1>1, <1>7, <2>2
<1>8. CASE e.instr = "ld_a_bc"
  <2>1. After1(e, m, d, l)
    BY <1>8, Came DEF Of1, Deciders, Instrs, LoadInstrs
  <2>2. Meets(Execute("ld_a_bc", p, int), l, Table(e, m, place, at, octet))
    BY <1>8, <2>1, Does_ld_a_bc
  <2> QED BY <1>1, <1>8, <2>2
<1>9. CASE e.instr = "ld_a_de"
  <2>1. After1(e, m, d, l)
    BY <1>9, Came DEF Of1, Deciders, Instrs, LoadInstrs
  <2>2. Meets(Execute("ld_a_de", p, int), l, Table(e, m, place, at, octet))
    BY <1>9, <2>1, Does_ld_a_de
  <2> QED BY <1>1, <1>9, <2>2
<1>10. CASE e.instr = "ld_bc_a"
  <2>1. After1(e, m, d, l)
    BY <1>10, Came DEF Of1, Deciders, Instrs, LoadInstrs
  <2>2. Meets(Execute("ld_bc_a", p, int), l, Table(e, m, place, at, octet))
    BY <1>10, <2>1, Does_ld_bc_a
  <2> QED BY <1>1, <1>10, <2>2
<1>11. CASE e.instr = "ld_de_a"
  <2>1. After1(e, m, d, l)
    BY <1>11, Came DEF Of1, Deciders, Instrs, LoadInstrs
  <2>2. Meets(Execute("ld_de_a", p, int), l, Table(e, m, place, at, octet))
    BY <1>11, <2>1, Does_ld_de_a
  <2> QED BY <1>1, <1>11, <2>2
<1>12. CASE e.instr = "ld_nn_a"
  <2>1. After3(e, m, d, l)
    BY <1>12, Came DEF Of3, Deciders, Instrs, LoadInstrs
  <2>2. Meets(Execute("ld_nn_a", p, int), l, Table(e, m, place, at, octet))
    BY <1>12, <2>1, Does_ld_nn_a
  <2> QED BY <1>1, <1>12, <2>2
<1>13. CASE e.instr = "ld_rp_nn"
  <2>1. After2(e, m, d, l)
    BY <1>13, Came DEF Of2, Deciders, Instrs, LoadInstrs
  <2>2. Meets(Execute("ld_rp_nn", p, int), l, Table(e, m, place, at, octet))
    BY <1>13, <2>1, Does_ld_rp_nn
  <2> QED BY <1>1, <1>13, <2>2
<1>14. CASE e.instr = "ld_sp_hl"
  <2>1. After1(e, m, d, l)
    BY <1>14, Came DEF Of1, Deciders, Instrs, LoadInstrs
  <2>2. Meets(Execute("ld_sp_hl", p, int), l, Table(e, m, place, at, octet))
    BY <1>14, <2>1, Does_ld_sp_hl
  <2> QED BY <1>1, <1>14, <2>2
<1>15. CASE e.instr = "ld_hl_nn"
  <2>1. After4(e, m, d, l)
    BY <1>15, Came DEF Of4, Deciders, Instrs, LoadInstrs
  <2>2. Meets(Execute("ld_hl_nn", p, int), l, Table(e, m, place, at, octet))
    BY <1>15, <2>1, Does_ld_hl_nn
  <2> QED BY <1>1, <1>15, <2>2
<1>16. CASE e.instr = "push"
  <2>1. After3(e, m, d, l)
    BY <1>16, Came DEF Of3, Deciders, Instrs, LoadInstrs
  <2>2. Meets(Execute("push", p, int), l, Table(e, m, place, at, octet))
    BY <1>16, <2>1, Does_push
  <2> QED BY <1>1, <1>16, <2>2
<1>17. CASE e.instr = "pop"
  <2>1. After2(e, m, d, l)
    BY <1>17, Came DEF Of2, Deciders, Instrs, LoadInstrs
  <2>2. Meets(Execute("pop", p, int), l, Table(e, m, place, at, octet))
    BY <1>17, <2>1, Does_pop
  <2> QED BY <1>1, <1>17, <2>2
<1>18. CASE e.instr = "ex_sp_hl"
  <2>1. After6(e, m, d, l)
    BY <1>18, Came DEF Of6, Deciders, Instrs, LoadInstrs
  <2>2. Meets(Execute("ex_sp_hl", p, int), l, Table(e, m, place, at, octet))
    BY <1>18, <2>1, Does_ex_sp_hl
  <2> QED BY <1>1, <1>18, <2>2
<1> QED BY <1>2, <1>3, <1>4, <1>5, <1>6, <1>7, <1>8, <1>9, <1>10, <1>11, <1>12,
           <1>13, <1>14, <1>15, <1>16, <1>17, <1>18

(* The arithmetic on memory, operand bytes and pairs together. *)
LEMMA ArithmeticMeets ==
  ASSUME NEW e, NEW m, NEW place, NEW at, Begins(e, m, place, at),
         e.instr \in {"alu_mem", "alu_n", "inc_mem", "dec_mem", "inc_rp", "dec_rp",
                      "add_hl_rp"},
         NEW d, NEW l, Complete(e, m, d, l),
         NEW p, Typed(p), Same(d, p, {"nmi_latched"}), NEW int
  PROVE  \E port \in PortBytes :
           Meets(Execute(e.instr, p, int), l, Table(e, m, place, at, port))
<1>1. PICK octet \in PortBytes : TRUE
  BY RegistersAssumption
<1>2. CASE e.instr = "alu_mem"
  <2>1. After1(e, m, d, l)
    BY <1>2, Came DEF Of1, Deciders, Instrs, ArithmeticInstrs
  <2>2. Meets(Execute("alu_mem", p, int), l, Table(e, m, place, at, octet))
    BY <1>2, <2>1, Does_alu_mem
  <2> QED BY <1>1, <1>2, <2>2
<1>3. CASE e.instr = "alu_n"
  <2>1. After1(e, m, d, l)
    BY <1>3, Came DEF Of1, Deciders, Instrs, ArithmeticInstrs
  <2>2. Meets(Execute("alu_n", p, int), l, Table(e, m, place, at, octet))
    BY <1>3, <2>1, Does_alu_n
  <2> QED BY <1>1, <1>3, <2>2
<1>4. CASE e.instr = "inc_mem"
  <2>1. After3(e, m, d, l)
    BY <1>4, Came DEF Of3, Deciders, Instrs, ArithmeticInstrs
  <2>2. Meets(Execute("inc_mem", p, int), l, Table(e, m, place, at, octet))
    BY <1>4, <2>1, Does_inc_mem
  <2> QED BY <1>1, <1>4, <2>2
<1>5. CASE e.instr = "dec_mem"
  <2>1. After3(e, m, d, l)
    BY <1>5, Came DEF Of3, Deciders, Instrs, ArithmeticInstrs
  <2>2. Meets(Execute("dec_mem", p, int), l, Table(e, m, place, at, octet))
    BY <1>5, <2>1, Does_dec_mem
  <2> QED BY <1>1, <1>5, <2>2
<1>6. CASE e.instr = "inc_rp"
  <2>1. After1(e, m, d, l)
    BY <1>6, Came DEF Of1, Deciders, Instrs, ArithmeticInstrs
  <2>2. Meets(Execute("inc_rp", p, int), l, Table(e, m, place, at, octet))
    BY <1>6, <2>1, Does_inc_rp
  <2> QED BY <1>1, <1>6, <2>2
<1>7. CASE e.instr = "dec_rp"
  <2>1. After1(e, m, d, l)
    BY <1>7, Came DEF Of1, Deciders, Instrs, ArithmeticInstrs
  <2>2. Meets(Execute("dec_rp", p, int), l, Table(e, m, place, at, octet))
    BY <1>7, <2>1, Does_dec_rp
  <2> QED BY <1>1, <1>7, <2>2
<1>8. CASE e.instr = "add_hl_rp"
  <2>1. After1(e, m, d, l)
    BY <1>8, Came DEF Of1, Deciders, Instrs, ArithmeticInstrs
  <2>2. Meets(Execute("add_hl_rp", p, int), l, Table(e, m, place, at, octet))
    BY <1>8, <2>1, Does_add_hl_rp
  <2> QED BY <1>1, <1>8, <2>2
<1> QED BY <1>2, <1>3, <1>4, <1>5, <1>6, <1>7, <1>8

(* The jumps, calls, returns and ports together. *)
LEMMA ControlMeets ==
  ASSUME NEW e, NEW m, NEW place, NEW at, Begins(e, m, place, at),
         e.instr \in {"jump", "jr", "jr_cc", "djnz", "call", "call_cc", "ret",
                      "ret_cc", "rst", "jp_cc", "in_a_n", "out_n_a"},
         NEW d, NEW l, Complete(e, m, d, l),
         NEW p, Typed(p), Same(d, p, {"nmi_latched"}), NEW int
  PROVE  \E port \in PortBytes :
           Meets(Execute(e.instr, p, int), l, Table(e, m, place, at, port))
<1>1. PICK octet \in PortBytes : TRUE
  BY RegistersAssumption
<1>2. CASE e.instr = "jump"
  <2>1. After2(e, m, d, l)
    BY <1>2, Came DEF Of2, Deciders, Instrs, ControlInstrs
  <2>2. Meets(Execute("jump", p, int), l, Table(e, m, place, at, octet))
    BY <1>2, <2>1, Does_jump
  <2> QED BY <1>1, <1>2, <2>2
<1>3. CASE e.instr = "jr"
  <2>1. After2(e, m, d, l)
    BY <1>3, Came DEF Of2, Deciders, Instrs, ControlInstrs
  <2>2. Meets(Execute("jr", p, int), l, Table(e, m, place, at, octet))
    BY <1>3, <2>1, Does_jr
  <2> QED BY <1>1, <1>3, <2>2
<1>4. CASE e.instr = "jr_cc"
  <2>1. ~GoesOn(d) /\ e.cycle_limit = 2 /\ (After1(e, m, d, l) \/ After2(e, m, d, l))
    BY <1>4, CameOrEnded DEF Deciders
  <2>2. ASSUME After1(e, m, d, l) PROVE Meets(Execute("jr_cc", p, int), l,
                 Table(e, m, place, at, octet))
    BY <1>4, <2>1, <2>2, Does_jr_cc_not
  <2>3. ASSUME After2(e, m, d, l) PROVE Meets(Execute("jr_cc", p, int), l,
                 Table(e, m, place, at, octet))
    BY <1>4, <2>1, <2>3, Does_jr_cc
  <2> QED BY <1>1, <1>4, <2>1, <2>2, <2>3
<1>5. CASE e.instr = "djnz"
  <2>1. ~GoesOn(d) /\ e.cycle_limit = 3 /\ (After2(e, m, d, l) \/ After3(e, m, d, l))
    BY <1>5, CameOrEnded DEF Deciders
  <2>2. ASSUME After2(e, m, d, l) PROVE Meets(Execute("djnz", p, int), l,
                 Table(e, m, place, at, octet))
    BY <1>5, <2>1, <2>2, Does_djnz_not
  <2>3. ASSUME After3(e, m, d, l) PROVE Meets(Execute("djnz", p, int), l,
                 Table(e, m, place, at, octet))
    BY <1>5, <2>1, <2>3, Does_djnz
  <2> QED BY <1>1, <1>5, <2>1, <2>2, <2>3
<1>6. CASE e.instr = "call"
  <2>1. After5(e, m, d, l)
    BY <1>6, Came DEF Of5, Deciders, Instrs, ControlInstrs
  <2>2. Meets(Execute("call", p, int), l, Table(e, m, place, at, octet))
    BY <1>6, <2>1, Does_call
  <2> QED BY <1>1, <1>6, <2>2
<1>7. CASE e.instr = "call_cc"
  <2>1. ~GoesOn(d) /\ e.cycle_limit = 5 /\ (After2(e, m, d, l) \/ After5(e, m, d, l))
    BY <1>7, CameOrEnded DEF Deciders
  <2>2. ASSUME After2(e, m, d, l) PROVE Meets(Execute("call_cc", p, int), l,
                 Table(e, m, place, at, octet))
    BY <1>7, <2>1, <2>2, Does_call_cc_not
  <2>3. ASSUME After5(e, m, d, l) PROVE Meets(Execute("call_cc", p, int), l,
                 Table(e, m, place, at, octet))
    BY <1>7, <2>1, <2>3, Does_call_cc
  <2> QED BY <1>1, <1>7, <2>1, <2>2, <2>3
<1>8. CASE e.instr = "ret"
  <2>1. After2(e, m, d, l)
    BY <1>8, Came DEF Of2, Deciders, Instrs, ControlInstrs
  <2>2. Meets(Execute("ret", p, int), l, Table(e, m, place, at, octet))
    BY <1>8, <2>1, Does_ret
  <2> QED BY <1>1, <1>8, <2>2
<1>9. CASE e.instr = "ret_cc"
  <2>1. ~GoesOn(d) /\ e.cycle_limit = 3 /\ (After1(e, m, d, l) \/ After3(e, m, d, l))
    BY <1>9, CameOrEnded DEF Deciders
  <2>2. ASSUME After1(e, m, d, l) PROVE Meets(Execute("ret_cc", p, int), l,
                 Table(e, m, place, at, octet))
    BY <1>9, <2>1, <2>2, Does_ret_cc_not
  <2>3. ASSUME After3(e, m, d, l) PROVE Meets(Execute("ret_cc", p, int), l,
                 Table(e, m, place, at, octet))
    BY <1>9, <2>1, <2>3, Does_ret_cc
  <2> QED BY <1>1, <1>9, <2>1, <2>2, <2>3
<1>10. CASE e.instr = "rst"
  <2>1. After3(e, m, d, l)
    BY <1>10, Came DEF Of3, Deciders, Instrs, ControlInstrs
  <2>2. Meets(Execute("rst", p, int), l, Table(e, m, place, at, octet))
    BY <1>10, <2>1, Does_rst
  <2> QED BY <1>1, <1>10, <2>2
<1>11. CASE e.instr = "jp_cc"
  <2>1. After2(e, m, d, l)
    BY <1>11, Came DEF Of2, Deciders, Instrs, ControlInstrs
  <2>2. Meets(Execute("jp_cc", p, int), l, Table(e, m, place, at, octet))
    BY <1>11, <2>1, Does_jp_cc
  <2> QED BY <1>1, <1>11, <2>2
<1>12. CASE e.instr = "in_a_n"
  <2>1. After2(e, m, d, l)
    BY <1>12, Came DEF Of2, Deciders, Instrs, ControlInstrs
  <2>2. \E port \in PortBytes : Meets(Execute("in_a_n", p, int), l, Table(e, m, place, at, port))
    BY <1>12, <2>1, Does_in_a_n
  <2> QED BY <1>1, <1>12, <2>2
<1>13. CASE e.instr = "out_n_a"
  <2>1. After2(e, m, d, l)
    BY <1>13, Came DEF Of2, Deciders, Instrs, ControlInstrs
  <2>2. Meets(Execute("out_n_a", p, int), l, Table(e, m, place, at, octet))
    BY <1>13, <2>1, Does_out_n_a
  <2> QED BY <1>1, <1>13, <2>2
<1> QED BY <1>2, <1>3, <1>4, <1>5, <1>6, <1>7, <1>8, <1>9, <1>10, <1>11, <1>12,
           <1>13
-----------------------------------------------------------------------------
(***************************************************************************)
(* Behind CB. SET and RES are unions and differences of bits in the core,  *)
(* and additions and subtractions in the manual.                           *)
(***************************************************************************)

(* The CB table: a bit that is set or reset is added or taken away. *)
LEMMA ByteOfBits ==
  ASSUME NEW x \in Byte
  PROVE  \E k1, k2, k4, k8, k16, k32, k64, k128 \in {0, 1} :
           /\ x = k1 + 2 * k2 + 4 * k4 + 8 * k8 + 16 * k16 + 32 * k32 + 64 * k64 + 128 * k128
           /\ Alu!Has(x, 1) <=> k1 = 1
           /\ Alu!Has(x, 2) <=> k2 = 1
           /\ Alu!Has(x, 4) <=> k4 = 1
           /\ Alu!Has(x, 8) <=> k8 = 1
           /\ Alu!Has(x, 16) <=> k16 = 1
           /\ Alu!Has(x, 32) <=> k32 = 1
           /\ Alu!Has(x, 64) <=> k64 = 1
           /\ Alu!Has(x, 128) <=> k128 = 1
<1>1. PICK k1, k2, k4, k8, k16, k32, k64, k128 :
        /\ k1 = (x \div 1) % 2 /\ k2 = (x \div 2) % 2 /\ k4 = (x \div 4) % 2
        /\ k8 = (x \div 8) % 2 /\ k16 = (x \div 16) % 2 /\ k32 = (x \div 32) % 2
        /\ k64 = (x \div 64) % 2 /\ k128 = (x \div 128) % 2
  OBVIOUS
<1>2. /\ k1 \in {0, 1} /\ k2 \in {0, 1} /\ k4 \in {0, 1} /\ k8 \in {0, 1} /\ k16 \in {0, 1}
      /\ k32 \in {0, 1} /\ k64 \in {0, 1} /\ k128 \in {0, 1}
  BY <1>1 DEF Byte
<1>3. /\ x \div 64 = 2 * k128 + k64 /\ x \div 16 = 4 * (x \div 64) + 2 * k32 + k16
      /\ x \div 4 = 4 * (x \div 16) + 2 * k8 + k4 /\ x = 4 * (x \div 4) + 2 * k2 + k1
  BY <1>1 DEF Byte
<1>4. x = k1 + 2 * k2 + 4 * k4 + 8 * k8 + 16 * k16 + 32 * k32 + 64 * k64 + 128 * k128
  BY <1>2, <1>3
<1>5. /\ Alu!Has(x, 1) <=> k1 = 1
      /\ Alu!Has(x, 2) <=> k2 = 1
      /\ Alu!Has(x, 4) <=> k4 = 1
      /\ Alu!Has(x, 8) <=> k8 = 1
      /\ Alu!Has(x, 16) <=> k16 = 1
      /\ Alu!Has(x, 32) <=> k32 = 1
      /\ Alu!Has(x, 64) <=> k64 = 1
      /\ Alu!Has(x, 128) <=> k128 = 1
  BY <1>1 DEF Alu!Has
<1> QED BY <1>2, <1>4, <1>5

(* OR with one bit. *)
LEMMA OrOneBit ==
  ASSUME NEW x \in Byte, NEW mask \in Alu!BitsOfByte
  PROVE  Alu!OrByte(x, mask) = x + (IF Alu!Has(x, mask) THEN 0 ELSE mask)
<1>1. PICK k1, k2, k4, k8, k16, k32, k64, k128 \in {0, 1} :
        /\ x = k1 + 2 * k2 + 4 * k4 + 8 * k8 + 16 * k16 + 32 * k32 + 64 * k64 + 128 * k128
        /\ Alu!Has(x, 1) <=> k1 = 1
        /\ Alu!Has(x, 2) <=> k2 = 1
        /\ Alu!Has(x, 4) <=> k4 = 1
        /\ Alu!Has(x, 8) <=> k8 = 1
        /\ Alu!Has(x, 16) <=> k16 = 1
        /\ Alu!Has(x, 32) <=> k32 = 1
        /\ Alu!Has(x, 64) <=> k64 = 1
        /\ Alu!Has(x, 128) <=> k128 = 1
  BY ByteOfBits
<1>2. CASE mask = 1
  <2>1. /\ Alu!Has(1, 1)
        /\ ~Alu!Has(1, 2)
        /\ ~Alu!Has(1, 4)
        /\ ~Alu!Has(1, 8)
        /\ ~Alu!Has(1, 16)
        /\ ~Alu!Has(1, 32)
        /\ ~Alu!Has(1, 64)
        /\ ~Alu!Has(1, 128)
    BY DEF Alu!Has
  <2>2. PICK w : w = {b \in Alu!BitsOfByte : Alu!Has(x, b) \/ Alu!Has(mask, b)}
    OBVIOUS
  <2>3. /\ (1 \in w) <=> TRUE
        /\ (2 \in w) <=> k2 = 1
        /\ (4 \in w) <=> k4 = 1
        /\ (8 \in w) <=> k8 = 1
        /\ (16 \in w) <=> k16 = 1
        /\ (32 \in w) <=> k32 = 1
        /\ (64 \in w) <=> k64 = 1
        /\ (128 \in w) <=> k128 = 1
    BY <1>1, <1>2, <2>1, <2>2 DEF Alu!BitsOfByte
  <2>4. /\ (IF 1 \in w THEN 1 ELSE 0) = 1
        /\ (IF 2 \in w THEN 2 ELSE 0) = 2 * k2
        /\ (IF 4 \in w THEN 4 ELSE 0) = 4 * k4
        /\ (IF 8 \in w THEN 8 ELSE 0) = 8 * k8
        /\ (IF 16 \in w THEN 16 ELSE 0) = 16 * k16
        /\ (IF 32 \in w THEN 32 ELSE 0) = 32 * k32
        /\ (IF 64 \in w THEN 64 ELSE 0) = 64 * k64
        /\ (IF 128 \in w THEN 128 ELSE 0) = 128 * k128
    BY <1>1, <2>3
  <2>5. Alu!OrByte(x, mask) = x - 1 * k1 + 1
    BY <1>1, <2>2, <2>4 DEF Alu!OrByte, Alu!FromBits
  <2> QED BY <1>1, <1>2, <2>5
<1>3. CASE mask = 2
  <2>1. /\ ~Alu!Has(2, 1)
        /\ Alu!Has(2, 2)
        /\ ~Alu!Has(2, 4)
        /\ ~Alu!Has(2, 8)
        /\ ~Alu!Has(2, 16)
        /\ ~Alu!Has(2, 32)
        /\ ~Alu!Has(2, 64)
        /\ ~Alu!Has(2, 128)
    BY DEF Alu!Has
  <2>2. PICK w : w = {b \in Alu!BitsOfByte : Alu!Has(x, b) \/ Alu!Has(mask, b)}
    OBVIOUS
  <2>3. /\ (1 \in w) <=> k1 = 1
        /\ (2 \in w) <=> TRUE
        /\ (4 \in w) <=> k4 = 1
        /\ (8 \in w) <=> k8 = 1
        /\ (16 \in w) <=> k16 = 1
        /\ (32 \in w) <=> k32 = 1
        /\ (64 \in w) <=> k64 = 1
        /\ (128 \in w) <=> k128 = 1
    BY <1>1, <1>3, <2>1, <2>2 DEF Alu!BitsOfByte
  <2>4. /\ (IF 1 \in w THEN 1 ELSE 0) = 1 * k1
        /\ (IF 2 \in w THEN 2 ELSE 0) = 2
        /\ (IF 4 \in w THEN 4 ELSE 0) = 4 * k4
        /\ (IF 8 \in w THEN 8 ELSE 0) = 8 * k8
        /\ (IF 16 \in w THEN 16 ELSE 0) = 16 * k16
        /\ (IF 32 \in w THEN 32 ELSE 0) = 32 * k32
        /\ (IF 64 \in w THEN 64 ELSE 0) = 64 * k64
        /\ (IF 128 \in w THEN 128 ELSE 0) = 128 * k128
    BY <1>1, <2>3
  <2>5. Alu!OrByte(x, mask) = x - 2 * k2 + 2
    BY <1>1, <2>2, <2>4 DEF Alu!OrByte, Alu!FromBits
  <2> QED BY <1>1, <1>3, <2>5
<1>4. CASE mask = 4
  <2>1. /\ ~Alu!Has(4, 1)
        /\ ~Alu!Has(4, 2)
        /\ Alu!Has(4, 4)
        /\ ~Alu!Has(4, 8)
        /\ ~Alu!Has(4, 16)
        /\ ~Alu!Has(4, 32)
        /\ ~Alu!Has(4, 64)
        /\ ~Alu!Has(4, 128)
    BY DEF Alu!Has
  <2>2. PICK w : w = {b \in Alu!BitsOfByte : Alu!Has(x, b) \/ Alu!Has(mask, b)}
    OBVIOUS
  <2>3. /\ (1 \in w) <=> k1 = 1
        /\ (2 \in w) <=> k2 = 1
        /\ (4 \in w) <=> TRUE
        /\ (8 \in w) <=> k8 = 1
        /\ (16 \in w) <=> k16 = 1
        /\ (32 \in w) <=> k32 = 1
        /\ (64 \in w) <=> k64 = 1
        /\ (128 \in w) <=> k128 = 1
    BY <1>1, <1>4, <2>1, <2>2 DEF Alu!BitsOfByte
  <2>4. /\ (IF 1 \in w THEN 1 ELSE 0) = 1 * k1
        /\ (IF 2 \in w THEN 2 ELSE 0) = 2 * k2
        /\ (IF 4 \in w THEN 4 ELSE 0) = 4
        /\ (IF 8 \in w THEN 8 ELSE 0) = 8 * k8
        /\ (IF 16 \in w THEN 16 ELSE 0) = 16 * k16
        /\ (IF 32 \in w THEN 32 ELSE 0) = 32 * k32
        /\ (IF 64 \in w THEN 64 ELSE 0) = 64 * k64
        /\ (IF 128 \in w THEN 128 ELSE 0) = 128 * k128
    BY <1>1, <2>3
  <2>5. Alu!OrByte(x, mask) = x - 4 * k4 + 4
    BY <1>1, <2>2, <2>4 DEF Alu!OrByte, Alu!FromBits
  <2> QED BY <1>1, <1>4, <2>5
<1>5. CASE mask = 8
  <2>1. /\ ~Alu!Has(8, 1)
        /\ ~Alu!Has(8, 2)
        /\ ~Alu!Has(8, 4)
        /\ Alu!Has(8, 8)
        /\ ~Alu!Has(8, 16)
        /\ ~Alu!Has(8, 32)
        /\ ~Alu!Has(8, 64)
        /\ ~Alu!Has(8, 128)
    BY DEF Alu!Has
  <2>2. PICK w : w = {b \in Alu!BitsOfByte : Alu!Has(x, b) \/ Alu!Has(mask, b)}
    OBVIOUS
  <2>3. /\ (1 \in w) <=> k1 = 1
        /\ (2 \in w) <=> k2 = 1
        /\ (4 \in w) <=> k4 = 1
        /\ (8 \in w) <=> TRUE
        /\ (16 \in w) <=> k16 = 1
        /\ (32 \in w) <=> k32 = 1
        /\ (64 \in w) <=> k64 = 1
        /\ (128 \in w) <=> k128 = 1
    BY <1>1, <1>5, <2>1, <2>2 DEF Alu!BitsOfByte
  <2>4. /\ (IF 1 \in w THEN 1 ELSE 0) = 1 * k1
        /\ (IF 2 \in w THEN 2 ELSE 0) = 2 * k2
        /\ (IF 4 \in w THEN 4 ELSE 0) = 4 * k4
        /\ (IF 8 \in w THEN 8 ELSE 0) = 8
        /\ (IF 16 \in w THEN 16 ELSE 0) = 16 * k16
        /\ (IF 32 \in w THEN 32 ELSE 0) = 32 * k32
        /\ (IF 64 \in w THEN 64 ELSE 0) = 64 * k64
        /\ (IF 128 \in w THEN 128 ELSE 0) = 128 * k128
    BY <1>1, <2>3
  <2>5. Alu!OrByte(x, mask) = x - 8 * k8 + 8
    BY <1>1, <2>2, <2>4 DEF Alu!OrByte, Alu!FromBits
  <2> QED BY <1>1, <1>5, <2>5
<1>6. CASE mask = 16
  <2>1. /\ ~Alu!Has(16, 1)
        /\ ~Alu!Has(16, 2)
        /\ ~Alu!Has(16, 4)
        /\ ~Alu!Has(16, 8)
        /\ Alu!Has(16, 16)
        /\ ~Alu!Has(16, 32)
        /\ ~Alu!Has(16, 64)
        /\ ~Alu!Has(16, 128)
    BY DEF Alu!Has
  <2>2. PICK w : w = {b \in Alu!BitsOfByte : Alu!Has(x, b) \/ Alu!Has(mask, b)}
    OBVIOUS
  <2>3. /\ (1 \in w) <=> k1 = 1
        /\ (2 \in w) <=> k2 = 1
        /\ (4 \in w) <=> k4 = 1
        /\ (8 \in w) <=> k8 = 1
        /\ (16 \in w) <=> TRUE
        /\ (32 \in w) <=> k32 = 1
        /\ (64 \in w) <=> k64 = 1
        /\ (128 \in w) <=> k128 = 1
    BY <1>1, <1>6, <2>1, <2>2 DEF Alu!BitsOfByte
  <2>4. /\ (IF 1 \in w THEN 1 ELSE 0) = 1 * k1
        /\ (IF 2 \in w THEN 2 ELSE 0) = 2 * k2
        /\ (IF 4 \in w THEN 4 ELSE 0) = 4 * k4
        /\ (IF 8 \in w THEN 8 ELSE 0) = 8 * k8
        /\ (IF 16 \in w THEN 16 ELSE 0) = 16
        /\ (IF 32 \in w THEN 32 ELSE 0) = 32 * k32
        /\ (IF 64 \in w THEN 64 ELSE 0) = 64 * k64
        /\ (IF 128 \in w THEN 128 ELSE 0) = 128 * k128
    BY <1>1, <2>3
  <2>5. Alu!OrByte(x, mask) = x - 16 * k16 + 16
    BY <1>1, <2>2, <2>4 DEF Alu!OrByte, Alu!FromBits
  <2> QED BY <1>1, <1>6, <2>5
<1>7. CASE mask = 32
  <2>1. /\ ~Alu!Has(32, 1)
        /\ ~Alu!Has(32, 2)
        /\ ~Alu!Has(32, 4)
        /\ ~Alu!Has(32, 8)
        /\ ~Alu!Has(32, 16)
        /\ Alu!Has(32, 32)
        /\ ~Alu!Has(32, 64)
        /\ ~Alu!Has(32, 128)
    BY DEF Alu!Has
  <2>2. PICK w : w = {b \in Alu!BitsOfByte : Alu!Has(x, b) \/ Alu!Has(mask, b)}
    OBVIOUS
  <2>3. /\ (1 \in w) <=> k1 = 1
        /\ (2 \in w) <=> k2 = 1
        /\ (4 \in w) <=> k4 = 1
        /\ (8 \in w) <=> k8 = 1
        /\ (16 \in w) <=> k16 = 1
        /\ (32 \in w) <=> TRUE
        /\ (64 \in w) <=> k64 = 1
        /\ (128 \in w) <=> k128 = 1
    BY <1>1, <1>7, <2>1, <2>2 DEF Alu!BitsOfByte
  <2>4. /\ (IF 1 \in w THEN 1 ELSE 0) = 1 * k1
        /\ (IF 2 \in w THEN 2 ELSE 0) = 2 * k2
        /\ (IF 4 \in w THEN 4 ELSE 0) = 4 * k4
        /\ (IF 8 \in w THEN 8 ELSE 0) = 8 * k8
        /\ (IF 16 \in w THEN 16 ELSE 0) = 16 * k16
        /\ (IF 32 \in w THEN 32 ELSE 0) = 32
        /\ (IF 64 \in w THEN 64 ELSE 0) = 64 * k64
        /\ (IF 128 \in w THEN 128 ELSE 0) = 128 * k128
    BY <1>1, <2>3
  <2>5. Alu!OrByte(x, mask) = x - 32 * k32 + 32
    BY <1>1, <2>2, <2>4 DEF Alu!OrByte, Alu!FromBits
  <2> QED BY <1>1, <1>7, <2>5
<1>8. CASE mask = 64
  <2>1. /\ ~Alu!Has(64, 1)
        /\ ~Alu!Has(64, 2)
        /\ ~Alu!Has(64, 4)
        /\ ~Alu!Has(64, 8)
        /\ ~Alu!Has(64, 16)
        /\ ~Alu!Has(64, 32)
        /\ Alu!Has(64, 64)
        /\ ~Alu!Has(64, 128)
    BY DEF Alu!Has
  <2>2. PICK w : w = {b \in Alu!BitsOfByte : Alu!Has(x, b) \/ Alu!Has(mask, b)}
    OBVIOUS
  <2>3. /\ (1 \in w) <=> k1 = 1
        /\ (2 \in w) <=> k2 = 1
        /\ (4 \in w) <=> k4 = 1
        /\ (8 \in w) <=> k8 = 1
        /\ (16 \in w) <=> k16 = 1
        /\ (32 \in w) <=> k32 = 1
        /\ (64 \in w) <=> TRUE
        /\ (128 \in w) <=> k128 = 1
    BY <1>1, <1>8, <2>1, <2>2 DEF Alu!BitsOfByte
  <2>4. /\ (IF 1 \in w THEN 1 ELSE 0) = 1 * k1
        /\ (IF 2 \in w THEN 2 ELSE 0) = 2 * k2
        /\ (IF 4 \in w THEN 4 ELSE 0) = 4 * k4
        /\ (IF 8 \in w THEN 8 ELSE 0) = 8 * k8
        /\ (IF 16 \in w THEN 16 ELSE 0) = 16 * k16
        /\ (IF 32 \in w THEN 32 ELSE 0) = 32 * k32
        /\ (IF 64 \in w THEN 64 ELSE 0) = 64
        /\ (IF 128 \in w THEN 128 ELSE 0) = 128 * k128
    BY <1>1, <2>3
  <2>5. Alu!OrByte(x, mask) = x - 64 * k64 + 64
    BY <1>1, <2>2, <2>4 DEF Alu!OrByte, Alu!FromBits
  <2> QED BY <1>1, <1>8, <2>5
<1>9. CASE mask = 128
  <2>1. /\ ~Alu!Has(128, 1)
        /\ ~Alu!Has(128, 2)
        /\ ~Alu!Has(128, 4)
        /\ ~Alu!Has(128, 8)
        /\ ~Alu!Has(128, 16)
        /\ ~Alu!Has(128, 32)
        /\ ~Alu!Has(128, 64)
        /\ Alu!Has(128, 128)
    BY DEF Alu!Has
  <2>2. PICK w : w = {b \in Alu!BitsOfByte : Alu!Has(x, b) \/ Alu!Has(mask, b)}
    OBVIOUS
  <2>3. /\ (1 \in w) <=> k1 = 1
        /\ (2 \in w) <=> k2 = 1
        /\ (4 \in w) <=> k4 = 1
        /\ (8 \in w) <=> k8 = 1
        /\ (16 \in w) <=> k16 = 1
        /\ (32 \in w) <=> k32 = 1
        /\ (64 \in w) <=> k64 = 1
        /\ (128 \in w) <=> TRUE
    BY <1>1, <1>9, <2>1, <2>2 DEF Alu!BitsOfByte
  <2>4. /\ (IF 1 \in w THEN 1 ELSE 0) = 1 * k1
        /\ (IF 2 \in w THEN 2 ELSE 0) = 2 * k2
        /\ (IF 4 \in w THEN 4 ELSE 0) = 4 * k4
        /\ (IF 8 \in w THEN 8 ELSE 0) = 8 * k8
        /\ (IF 16 \in w THEN 16 ELSE 0) = 16 * k16
        /\ (IF 32 \in w THEN 32 ELSE 0) = 32 * k32
        /\ (IF 64 \in w THEN 64 ELSE 0) = 64 * k64
        /\ (IF 128 \in w THEN 128 ELSE 0) = 128
    BY <1>1, <2>3
  <2>5. Alu!OrByte(x, mask) = x - 128 * k128 + 128
    BY <1>1, <2>2, <2>4 DEF Alu!OrByte, Alu!FromBits
  <2> QED BY <1>1, <1>9, <2>5
<1> QED BY <1>2, <1>3, <1>4, <1>5, <1>6, <1>7, <1>8, <1>9 DEF Alu!BitsOfByte
-----------------------------------------------------------------------------
(***************************************************************************)
(* The rows of the manual's CB table.                                      *)
(***************************************************************************)

(* What the manual's CB table does, in the core's words. *)
LEMMA SameMasks ==
  ASSUME NEW y \in 0 .. 7
  PROVE  /\ Manual!BitMask(y) = Alu!BitMask(y) /\ Alu!BitMask(y) \in Alu!BitsOfByte
         /\ \A x, b : Manual!Has(x, b) <=> Alu!Has(x, b)
         /\ \A v, f : Manual!Out(v, f) = Alu!Out(v, f)
BY DEF Manual!BitMask, Alu!BitMask, Alu!BitsOfByte, Manual!Has, Alu!Has, Manual!Out, Alu!Out

LEMMA CbResults ==
  ASSUME NEW c, NEW o \in Byte, c.opcode = o, X(o) # 1, NEW byte \in Byte, NEW mask,
         mask = Manual!BitMask(Y(o))
  PROVE  CbResult(c, byte)
           = CASE X(o) = 0 -> Manual!alu_shift(Y(o), c.f, byte)
               [] X(o) = 2 -> Manual!Out(byte - (IF Manual!Has(byte, mask) THEN mask ELSE 0), c.f)
               [] X(o) = 3 -> Manual!Out(byte + (IF Manual!Has(byte, mask) THEN 0 ELSE mask), c.f)
<1>1. X(o) \in {0, 2, 3} /\ Y(o) \in 0 .. 7
  BY FieldsType DEF Byte
<1>2. mask = Mask(c) /\ mask \in Alu!BitsOfByte
  BY <1>1, SameMasks DEF Mask
<1>3. mask \in Int /\ byte \in Int
  BY <1>2 DEF Alu!BitsOfByte, Byte
<1>4. CASE X(o) = 0
  <2>1. CbResult(c, byte) = Alu!alu_shift(Y(o), c.f, byte)
    BY <1>4 DEF CbResult
  <2>2. Manual!alu_shift(Y(o), c.f, byte) = Alu!alu_shift(Y(o), c.f, byte)
    BY SameArithmetic
  <2> QED BY <1>4, <2>1, <2>2
<1>5. CASE X(o) = 2
  <2>1. CbResult(c, byte) = Alu!Out(IF Alu!Has(byte, mask) THEN byte - mask ELSE byte, c.f)
    BY <1>2, <1>5 DEF CbResult
  <2>2. (IF Alu!Has(byte, mask) THEN byte - mask ELSE byte)
          = byte - (IF Manual!Has(byte, mask) THEN mask ELSE 0)
    BY <1>1, <1>3, SameMasks
  <2> QED BY <1>1, <1>5, <2>1, <2>2, SameMasks
<1>6. CASE X(o) = 3
  <2>1. CbResult(c, byte) = Alu!Out(Alu!OrByte(byte, mask), c.f)
    BY <1>2, <1>6 DEF CbResult
  <2>2. Alu!OrByte(byte, mask) = byte + (IF Manual!Has(byte, mask) THEN 0 ELSE mask)
    <3>1. Manual!Has(byte, mask) <=> Alu!Has(byte, mask)
      BY <1>1, SameMasks
    <3> QED BY <1>2, <3>1, OrOneBit
  <2> QED BY <1>1, <1>6, <2>1, <2>2, SameMasks
<1> QED BY <1>1, <1>4, <1>5, <1>6

LEMMA BitsAre ==
  ASSUME NEW c, NEW o \in Byte, c.opcode = o, NEW s, s.f = c.f, NEW m, NEW place,
         NEW indexed \in BOOLEAN, NEW wz, NEW byte \in Byte,
         byte = IF indexed \/ Z(o) = 6 THEN Manual!Peek(m, place) ELSE Manual!Reg(s, Z(o), "hl"),
         NEW shown, shown = IF indexed THEN High(place) ELSE IF Z(o) = 6 THEN High(wz) ELSE byte
  PROVE  /\ X(o) = 1 =>
              Manual!Bits(s, m, o, place, indexed, wz)
                = Manual!Both(Manual!Flagged(s, Alu!alu_bit(Mask(c), c.f, byte, shown).flags), m)
         /\ X(o) # 1 =>
              \A out : out = CbResult(c, byte) =>
                Manual!Bits(s, m, o, place, indexed, wz)
                  = Manual!Both(IF Z(o) = 6 THEN Manual!Flagged(s, out.flags)
                                ELSE Manual!WithReg(Manual!Flagged(s, out.flags), Z(o), "hl",
                                  out.value),
                                IF indexed \/ Z(o) = 6 THEN Manual!Poke(m, place, out.value) ELSE m)
<1>1. o \div 64 = X(o) /\ (o \div 8) % 8 = Y(o) /\ o % 8 = Z(o) /\ X(o) \in {0, 1, 2, 3} /\
        Y(o) \in 0 .. 7
  BY FieldsType DEF X, Y, Z, Byte
<1>2. PICK mask : mask = Manual!BitMask(Y(o))
  OBVIOUS
<1>3. mask = Mask(c)
  BY <1>1, <1>2, SameMasks DEF Mask
<1>4. ASSUME X(o) = 1
      PROVE  Manual!Bits(s, m, o, place, indexed, wz)
                = Manual!Both(Manual!Flagged(s, Alu!alu_bit(Mask(c), c.f, byte, shown).flags), m)
  <2>1. PICK v : v = IF indexed THEN Manual!Hi(place) ELSE IF indexed \/
          Z(o) = 6 THEN Manual!Hi(wz) ELSE byte
    OBVIOUS
  <2>2. v = shown
    BY <2>1, SameWords
  <2>3. Manual!Bits(s, m, o, place, indexed, wz)
          = Manual!Both(Manual!Flagged(s, Manual!alu_bit(mask, s.f, byte, v).flags), m)
    BY <1>1, <1>2, <1>4, <2>1 DEF Manual!Bits
  <2>4. Manual!alu_bit(mask, s.f, byte, v) = Alu!alu_bit(mask, s.f, byte, v)
    BY SameArithmetic
  <2> QED BY <1>3, <2>2, <2>3, <2>4
<1>5. ASSUME X(o) # 1, NEW out, out = CbResult(c, byte)
      PROVE  Manual!Bits(s, m, o, place, indexed, wz)
                  = Manual!Both(IF Z(o) = 6 THEN Manual!Flagged(s, out.flags)
                                ELSE Manual!WithReg(Manual!Flagged(s, out.flags), Z(o), "hl",
                                  out.value),
                                IF indexed \/ Z(o) = 6 THEN Manual!Poke(m, place, out.value) ELSE m)
  <2>1. CASE X(o) = 0
    <3>1. out = Manual!alu_shift(Y(o), s.f, byte)
      BY <1>2, <1>5, <2>1, CbResults
    <3> QED BY <1>1, <1>2, <1>5, <2>1, <3>1 DEF Manual!Bits
  <2>2. CASE X(o) = 2
    <3>1. out = Manual!Out(byte - (IF Manual!Has(byte, mask) THEN mask ELSE 0), s.f)
      BY <1>2, <1>5, <2>2, CbResults
    <3> QED BY <1>1, <1>2, <1>5, <2>2, <3>1 DEF Manual!Bits
  <2>3. CASE X(o) = 3
    <3>1. out = Manual!Out(byte + (IF Manual!Has(byte, mask) THEN 0 ELSE mask), s.f)
      BY <1>2, <1>5, <2>3, CbResults
    <3> QED BY <1>1, <1>2, <1>5, <2>3, <3>1 DEF Manual!Bits
  <2> QED BY <1>1, <1>5, <2>1, <2>2, <2>3
<1> QED BY <1>4, <1>5
-----------------------------------------------------------------------------
(***************************************************************************)
(* CB on a register.                                                       *)
(***************************************************************************)

(* An instruction of the CB table is about to run. *)
BeginsCb(e, m) ==
  /\ Typed(e) /\ ByteMemory(m) /\ e.cycle = 0
  /\ e.instr = DecodeCb(e.opcode) /\ e.index = 0
CbTable(e, m) == Manual!Bits(Seen(e), m, e.opcode, e.hl, FALSE, e.wz)

LEMMA MapCb ==
  ASSUME NEW o \in Byte, NEW n, n = DecodeCb(o)
  PROVE  /\ X(o) \in {0, 1, 2, 3} /\ Y(o) \in 0 .. 7 /\ Z(o) \in 0 .. 7
         /\ n \in {"cb_reg", "cb_bit_mem", "cb_mem"}
         /\ n = "cb_reg" => Z(o) # 6
         /\ n = "cb_bit_mem" => Z(o) = 6 /\ X(o) = 1
         /\ n = "cb_mem" => Z(o) = 6 /\ X(o) # 1
<1>1. X(o) \in {0, 1, 2, 3} /\ Y(o) \in 0 .. 7 /\ Z(o) \in 0 .. 7
  BY FieldsType DEF Byte
<1> QED BY <1>1 DEF DecodeCb

LEMMA CbResultOf ==
  ASSUME NEW c, NEW d, c.opcode = d.opcode, c.f = d.f, NEW b
  PROVE  CbResult(c, b) = CbResult(d, b)
BY DEF CbResult, Mask

LEMMA CbFlagsMean ==
  ASSUME NEW c, Typed(c), NEW byte \in Byte, X(c.opcode) # 1, NEW out, out = CbResult(c, byte)
  PROVE  /\ Typed(CbFlags(c, byte))
         /\ Seen(CbFlags(c, byte)) = Manual!Flagged(Seen(c), out.flags)
         /\ OperandsOf(c, CbFlags(c, byte))
         /\ out.value \in Byte
<1>1. Shaped(c) /\ c.opcode \in Byte
  BY CoreTypes
<1>2. PICK d : d = CbFlags(c, byte)
  OBVIOUS
<1>3. Same(c, d, {"f", "pending"}) /\ d.f = out.flags
  BY <1>1, <1>2, CbKeeps
<1>4. Onto(c, c)
  BY OntoItself
<1>5. ByteOut(out) /\ Onto(c, d)
  BY <1>2, <1>4, CbTyped
<1>6. Seen(d) = [Seen(c) EXCEPT !.f = out.flags]
  BY <1>3, SeenFields DEF Same, Seen
<1>7. OperandsOf(c, d)
  BY <1>3, InCore DEF Same, OperandsOf
<1> QED BY <1>2, <1>5, <1>6, <1>7 DEF Onto, ByteOut, Manual!Flagged

(* The CB table on a register. *)
LEMMA Does_cb_reg ==
  ASSUME NEW e, NEW m, BeginsCb(e, m), e.instr = "cb_reg",
         NEW p, Typed(p), Same(e, p, {"nmi_latched"}), NEW int
  PROVE  Meets(Execute("cb_reg", p, int), m, CbTable(e, m))
<1>1. Typed(e) /\ e.opcode \in Byte /\ e.index = 0
  BY CoreTypes DEF BeginsCb
<1>2. "cb_reg" = DecodeCb(e.opcode)
  BY DEF BeginsCb
<1>3. Z(e.opcode) # 6 /\ Z(e.opcode) \in 0 .. 7 /\ X(e.opcode) \in {0, 1, 2, 3}
  BY <1>1, <1>2, MapCb
<1>4. PICK o \in Byte : o = e.opcode
  BY <1>1
<1>5. p.opcode = o /\ p.index = 0 /\ Seen(p) = Seen(e) /\ p.f = Seen(e).f
  BY <1>1, <1>4, SeenFields, InCore DEF Same, Seen
<1>6. index_pair(p) = "hl"
  BY <1>5 DEF index_pair, DD, FD
<1>7. PICK byte : byte = Slot(p, Z(o))
  OBVIOUS
<1>8. byte \in Byte /\ byte = Manual!Reg(Seen(e), Z(o), "hl")
  BY <1>3, <1>4, <1>5, <1>6, <1>7, SlotIsReg
<1>9. PICK r : r = Execute("cb_reg", p, int)
  OBVIOUS
<1>10. r = IF X(o) = 1 THEN CbBit(p, byte, byte)
           ELSE WithSlot(CbFlags(p, byte), Z(o), CbResult(p, byte).value)
  BY <1>5, <1>7, <1>9, Executes DEF CbEffect
<1>17. PICK indexed \in BOOLEAN : indexed = FALSE
  OBVIOUS
<1>18. CbTable(e, m) = Manual!Bits(Seen(e), m, o, e.hl, indexed, e.wz)
  BY <1>4, <1>17 DEF CbTable
<1>13. byte = IF indexed \/ Z(o) = 6 THEN Manual!Peek(m, e.hl) ELSE Manual!Reg(Seen(e), Z(o), "hl")
  BY <1>3, <1>4, <1>8, <1>17
<1>14. PICK shown : shown = IF indexed THEN High(e.hl) ELSE IF Z(o) = 6 THEN High(e.wz) ELSE byte
  OBVIOUS
<1>15. shown = byte
  BY <1>3, <1>4, <1>14, <1>17
<1>16. /\ X(o) = 1 => CbTable(e, m)
           = Manual!Both(Manual!Flagged(Seen(e), Alu!alu_bit(Mask(p), p.f, byte, shown).flags), m)
       /\ X(o) # 1 => \A out : out = CbResult(p, byte) =>
           CbTable(e, m)
             = Manual!Both(IF Z(o) = 6 THEN Manual!Flagged(Seen(e), out.flags)
                           ELSE Manual!WithReg(Manual!Flagged(Seen(e), out.flags), Z(o), "hl",
                             out.value),
                           IF indexed \/ Z(o) = 6 THEN Manual!Poke(m, e.hl, out.value) ELSE m)
  BY <1>4, <1>5, <1>8, <1>13, <1>14, <1>18, BitsAre
<1>11. CASE X(o) = 1
  <2>1. PICK flags : flags = Alu!alu_bit(Mask(p), p.f, byte, byte).flags
    OBVIOUS
  <2>2. r = WriteFlags(p, flags)
    BY <1>10, <1>11, <2>1 DEF CbBit
  <2>3. Seen(r) = Manual!Flagged(Seen(e), flags)
    BY <1>5, <2>2, SeenFlags, CoreTypes
  <2>4. CbTable(e, m) = Manual!Both(Manual!Flagged(Seen(e), flags), m)
    BY <1>11, <1>15, <1>16, <2>1
  <2> QED BY <1>9, <2>3, <2>4, MeetsBoth
<1>12. CASE X(o) # 1
  <2>1. PICK out : out = CbResult(p, byte)
    OBVIOUS
  <2>2. PICK g : g = CbFlags(p, byte)
    OBVIOUS
  <2>3. Typed(g) /\ Seen(g) = Manual!Flagged(Seen(e), out.flags) /\ OperandsOf(p, g) /\
          out.value \in Byte
    BY <1>5, <1>8, <1>12, <2>1, <2>2, CbFlagsMean
  <2>4. index_pair(g) = "hl"
    BY <1>6, <2>3, OperandsAgree
  <2>5. Seen(r) = Manual!WithReg(Seen(g), Z(o), "hl", out.value)
    BY <1>3, <1>4, <1>10, <1>12, <2>1, <2>2, <2>3, <2>4, SlotMeans
  <2>6. CbTable(e, m) = Manual!Both(Manual!WithReg(Manual!Flagged(Seen(e), out.flags), Z(o), "hl",
          out.value), m)
    BY <1>3, <1>4, <1>12, <1>16, <1>17, <2>1
  <2> QED BY <1>9, <2>3, <2>5, <2>6, MeetsBoth
<1> QED BY <1>11, <1>12
-----------------------------------------------------------------------------
(***************************************************************************)
(* CB on memory.                                                           *)
(***************************************************************************)

LEMMA CbOfMemory ==
  ASSUME NEW e, NEW m, BeginsCb(e, m), Z(e.opcode) = 6, NEW byte, byte = Manual!Peek(m, e.hl)
  PROVE  /\ byte \in Byte
         /\ X(e.opcode) = 1 =>
              CbTable(e, m)
                = Manual!Both(Manual!Flagged(Seen(e),
                  Alu!alu_bit(Mask(e), e.f, byte, High(e.wz)).flags), m)
         /\ X(e.opcode) # 1 =>
              \A out : out = CbResult(e, byte) =>
                CbTable(e, m)
                  = Manual!Both(Manual!Flagged(Seen(e), out.flags), Manual!Poke(m, e.hl, out.value))
<1>1. e.opcode \in Byte /\ Seen(e).f = e.f /\ e.hl \in Word /\ ByteMemory(m)
  BY CoreTypes, SeenFields DEF BeginsCb, Seen
<1>2. byte \in Byte
  BY <1>1, PeekIsAByte
<1>3. PICK indexed \in BOOLEAN : indexed = FALSE
  OBVIOUS
<1>4. byte = IF indexed \/ Z(e.opcode) = 6 THEN Manual!Peek(m, e.hl)
             ELSE Manual!Reg(Seen(e), Z(e.opcode), "hl")
  OBVIOUS
<1>5. PICK shown : shown = IF indexed THEN High(e.hl) ELSE IF Z(e.opcode) = 6 THEN High(e.wz)
        ELSE byte
  OBVIOUS
<1>6. shown = High(e.wz)
  BY <1>3, <1>5
<1>7. CbTable(e, m) = Manual!Bits(Seen(e), m, e.opcode, e.hl, indexed, e.wz)
  BY <1>3 DEF CbTable
<1>8. /\ X(e.opcode) = 1 => CbTable(e, m)
           = Manual!Both(Manual!Flagged(Seen(e), Alu!alu_bit(Mask(e), e.f, byte, shown).flags), m)
      /\ X(e.opcode) # 1 => \A out : out = CbResult(e, byte) =>
           CbTable(e, m)
             = Manual!Both(IF Z(e.opcode) = 6 THEN Manual!Flagged(Seen(e), out.flags)
                           ELSE Manual!WithReg(Manual!Flagged(Seen(e), out.flags), Z(e.opcode),
                             "hl", out.value),
                           IF indexed \/ Z(e.opcode) = 6 THEN Manual!Poke(m, e.hl, out.value)
                             ELSE m)
  BY <1>1, <1>2, <1>4, <1>5, <1>7, BitsAre
<1> QED BY <1>2, <1>6, <1>8

LEMMA CbBitMeans ==
  ASSUME NEW c, Typed(c), NEW byte, NEW shown
  PROVE  Seen(CbBit(c, byte, shown))
           = Manual!Flagged(Seen(c), Alu!alu_bit(Mask(c), c.f, byte, shown).flags)
BY CoreTypes, SeenFlags DEF CbBit

(* The mask is in the opcode. *)
LEMMA MaskOf ==
  ASSUME NEW c, NEW d, c.opcode = d.opcode
  PROVE  Mask(c) = Mask(d)
BY DEF Mask
-----------------------------------------------------------------------------
(***************************************************************************)
(* The instructions behind CB that name memory.                            *)
(***************************************************************************)

(* The CB table on (HL), BIT apart. *)
LEMMA Does_cb_mem ==
  ASSUME NEW e, NEW m, BeginsCb(e, m), e.instr = "cb_mem",
         NEW d, NEW l, After3(e, m, d, l),
         NEW p, Typed(p), Same(d, p, {"nmi_latched"}), NEW int, NEW port
  PROVE  Meets(Execute("cb_mem", p, int), l, CbTable(e, m))
<1>1. /\ Typed(e) /\ Shaped(e) /\ e.opcode \in Byte /\ ByteMemory(m)
      /\ index_pair(e) \in {"hl", "ix", "iy"}
  BY CoreTypes DEF BeginsCb, index_pair
<1>2. "cb_mem" = DecodeCb(e.opcode)
  BY DEF BeginsCb
<1>3. /\ X(e.opcode) # 1
      /\ Z(e.opcode) = 6
  BY <1>1, <1>2, MapCb
<1>4. PICK d1, m1, d2, m2 :
      /\ OneCycle(e, m, d1, m1)
      /\ OneCycle(d1, m1, d2, m2)
      /\ OneCycle(d2, m2, d, l)
  BY DEF After1, After2, After3
<1>5. /\ e.instr = "cb_mem" /\ e.cycle = 0 /\ Shaped(e)
      /\ d1.instr = "cb_mem" /\ d1.cycle = 1 /\ Shaped(d1)
      /\ d2.instr = "cb_mem" /\ d2.cycle = 2 /\ Shaped(d2)
  BY <1>4, Fields DEF OneCycle, BeginsCb
<1>6. CyclesOf["cb_mem"] = ArithmeticCycles("cb_mem") /\
        HooksOf["cb_mem"] = ArithmeticHooks("cb_mem")
  BY GroupCycles, GroupHooks DEF Instrs, ArithmeticInstrs
<1>7. /\ Enters(e, "mem_read", "at_hl", "cb_bus")
      /\ Enters(d1, "idle1", "none", "none")
      /\ Enters(d2, "mem_write", "at_hl", "none")
  BY <1>5, <1>6 DEF Enters, ArithmeticCycles, ArithmeticHooks, Operand, Called, AtPcTo, AtPopTo,
     On, Idle, Read, Write,
       IoIn, IoOut, Idle1, Idle2, Idle4, Idle5, Idle7
<1>8. PICK f1 :
      /\ Same(e, f1, {"bus_addr", "bus_data"})
      /\ f1.bus_addr = e.hl
      /\ f1.bus_data = Manual!Peek(m, e.hl)
      /\ f1.bus_data \in Byte
      /\ m1 = m
      /\ d1 = Put(Exit("cb_bus", f1), "cycle", e.cycle + 1)
  BY <1>4, <1>7, AtHlReads
<1>9. PICK out : out = CbResult(f1, f1.bus_data)
  OBVIOUS
<1>10. f1.opcode = e.opcode /\ f1.f = e.f /\ Shaped(f1) /\ f1.bus_data = Manual!Peek(m, e.hl)
  BY <1>8, InCore DEF Same
<1>11. out = CbResult(e, Manual!Peek(m, e.hl)) /\ X(f1.opcode) # 1 /\ f1.opcode \in Byte
  BY <1>9, <1>10, <1>1, <1>3, CbResultOf
<1>12. /\ Same(f1, d1, {"f", "pending", "bus_data", "cycle"})
       /\ d1.f = out.flags /\ d1.bus_data = out.value
  BY <1>8, <1>9, <1>10, <1>11, LeavesCb
<1>13. /\ Same(e, d1, {"bus_addr", "bus_data", "f", "pending", "cycle"})
       /\ d1.bus_addr = e.hl
       /\ d1.bus_data = out.value
       /\ d1.f = out.flags
       /\ out = CbResult(e, Manual!Peek(m, e.hl))
       /\ m1 = m
  BY <1>5, <1>8, <1>10, <1>11, <1>12, InCore DEF Same
<1>14. /\ Same(e, d1, {"bus_addr", "bus_data", "f", "pending", "cycle"})
       /\ d1.bus_addr = e.hl
       /\ d1.bus_data = out.value
       /\ d1.f = out.flags
       /\ m1 = m
  BY <1>13, <1>1, BytesAt
<1>15. d2 = Put(Exit("none", d1), "cycle", d1.cycle + 1) /\ m2 = m1
  BY <1>4, <1>7, Idles DEF IdleCycles
<1>16. /\ Same(e, d2, {"bus_addr", "bus_data", "f", "pending", "cycle"})
       /\ d2.bus_addr = d1.bus_addr
       /\ d2.bus_data = d1.bus_data
       /\ d2.f = d1.f
       /\ m2 = m1
  BY <1>14, <1>13, <1>5, <1>15, Leaves, InCore DEF Same
<1>17. /\ Same(e, d2, {"bus_addr", "bus_data", "f", "pending", "cycle"})
       /\ d2.bus_addr = e.hl
       /\ d2.bus_data = out.value
       /\ d2.f = out.flags
       /\ m2 = m
  BY <1>14, <1>13, <1>16, <1>1, BytesAt
<1>18. Enter("at_hl", d2) = Put(d2, "bus_addr", d2.hl)
  BY <1>5, EnterReads
<1>19. PICK f3 :
       /\ Same(d2, f3, {"bus_addr"})
       /\ f3.bus_addr = d2.hl
       /\ d = Put(Exit("none", f3), "cycle", d2.cycle + 1)
       /\ l = Manual!Poke(m2, d2.hl, d2.bus_data)
  BY <1>4, <1>7, <1>18, KeepsWrites
<1>20. /\ Same(e, d, {"bus_addr", "bus_data", "f", "pending", "cycle"})
       /\ d.bus_addr = d2.hl
       /\ d.bus_data = d2.bus_data
       /\ d.f = d2.f
       /\ l = Manual!Poke(m2, d2.hl, d2.bus_data)
  BY <1>17, <1>5, <1>19, Leaves, InCore DEF Same
<1>21. d2.hl = e.hl
  BY <1>17, InCore DEF Same
<1>22. /\ Same(e, d, {"bus_addr", "bus_data", "f", "pending", "cycle"})
       /\ d.bus_data = out.value
       /\ d.f = out.flags
       /\ d.bus_addr = e.hl
       /\ l = Manual!Poke(m, e.hl, out.value)
  BY <1>17, <1>20, <1>21, <1>1, BytesAt
<1>23. /\ Same(e, p, {"bus_addr", "bus_data", "f", "pending", "cycle", "nmi_latched"})
       /\ p.bus_data = out.value
       /\ p.f = out.flags
       /\ p.bus_addr = e.hl
       /\ l = Manual!Poke(m, e.hl, out.value)
       /\ out = CbResult(e, Manual!Peek(m, e.hl))
  BY <1>22, <1>13, InCore DEF Same
<1>24. PICK s : s = Seen(e)
  OBVIOUS
<1>25. p.pc = e.pc
  BY <1>23, <1>1, BytesAt, InCore DEF Same
<1>26. /\ Seen(p) = [s EXCEPT !.f = p.f]
       /\ \A x \in VisibleFields \ {"f"} : s[x] = p[x]
       /\ s.f = e.f
  BY <1>24, <1>23, <1>25, SeenFields DEF Same, Seen
<1>27. CbTable(e, m)
         = Manual!Both(Manual!Flagged(s, out.flags),
                       Manual!Poke(m, e.hl, out.value))
  BY <1>23, <1>24, <1>3, CbOfMemory
<1>28. PICK r : r = Execute("cb_mem", p, int)
  OBVIOUS
<1>29. r = p
  BY <1>28, ExecutesNothing DEF Hooked
<1>30. Seen(r) = Seen(p)
  BY <1>29, <1>26
<1>31. l = Manual!Poke(m, e.hl, out.value)
  BY <1>23, <1>26, <1>1, SeenFields, InCore DEF Same, BeginsCb
<1>32. Seen(r) = Manual!Flagged(s, out.flags)
  BY <1>30, <1>31, <1>26, <1>23 DEF Manual!Flagged
<1> QED BY <1>28, <1>32, <1>31, <1>26, <1>23, <1>27, MeetsBoth

(* BIT b,(HL). *)
LEMMA Does_cb_bit_mem ==
  ASSUME NEW e, NEW m, BeginsCb(e, m), e.instr = "cb_bit_mem",
         NEW d, NEW l, After2(e, m, d, l),
         NEW p, Typed(p), Same(d, p, {"nmi_latched"}), NEW int, NEW port
  PROVE  Meets(Execute("cb_bit_mem", p, int), l, CbTable(e, m))
<1>1. /\ Typed(e) /\ Shaped(e) /\ e.opcode \in Byte /\ ByteMemory(m)
      /\ index_pair(e) \in {"hl", "ix", "iy"}
  BY CoreTypes DEF BeginsCb, index_pair
<1>2. "cb_bit_mem" = DecodeCb(e.opcode)
  BY DEF BeginsCb
<1>3. /\ X(e.opcode) = 1
      /\ Z(e.opcode) = 6
  BY <1>1, <1>2, MapCb
<1>4. PICK d1, m1 :
      /\ OneCycle(e, m, d1, m1)
      /\ OneCycle(d1, m1, d, l)
  BY DEF After1, After2
<1>5. /\ e.instr = "cb_bit_mem" /\ e.cycle = 0 /\ Shaped(e)
      /\ d1.instr = "cb_bit_mem" /\ d1.cycle = 1 /\ Shaped(d1)
  BY <1>4, Fields DEF OneCycle, BeginsCb
<1>6. CyclesOf["cb_bit_mem"] = ArithmeticCycles("cb_bit_mem") /\
        HooksOf["cb_bit_mem"] = ArithmeticHooks("cb_bit_mem")
  BY GroupCycles, GroupHooks DEF Instrs, ArithmeticInstrs
<1>7. /\ Enters(e, "mem_read", "at_hl", "none")
      /\ Enters(d1, "idle1", "none", "none")
  BY <1>5, <1>6 DEF Enters, ArithmeticCycles, ArithmeticHooks, Operand, Called, AtPcTo, AtPopTo,
     On, Idle, Read, Write,
       IoIn, IoOut, Idle1, Idle2, Idle4, Idle5, Idle7
<1>8. PICK f1 :
      /\ Same(e, f1, {"bus_addr", "bus_data"})
      /\ f1.bus_addr = e.hl
      /\ f1.bus_data = Manual!Peek(m, e.hl)
      /\ f1.bus_data \in Byte
      /\ m1 = m
      /\ d1 = Put(Exit("none", f1), "cycle", e.cycle + 1)
  BY <1>4, <1>7, AtHlReads
<1>9. /\ Same(e, d1, {"bus_addr", "bus_data", "cycle"})
      /\ d1.bus_addr = e.hl
      /\ d1.bus_data = Manual!Peek(m, e.hl)
      /\ m1 = m
  BY <1>5, <1>8, Leaves, InCore DEF Same
<1>10. d = Put(Exit("none", d1), "cycle", d1.cycle + 1) /\ l = m1
  BY <1>4, <1>7, Idles DEF IdleCycles
<1>11. /\ Same(e, d, {"bus_addr", "bus_data", "cycle"})
       /\ d.bus_addr = d1.bus_addr
       /\ d.bus_data = d1.bus_data
       /\ l = m1
  BY <1>9, <1>5, <1>10, Leaves, InCore DEF Same
<1>12. /\ Same(e, d, {"bus_addr", "bus_data", "cycle"})
       /\ d.bus_addr = e.hl
       /\ d.bus_data = Manual!Peek(m, e.hl)
       /\ l = m
  BY <1>9, <1>11, <1>1, BytesAt
<1>13. /\ Same(e, p, {"bus_addr", "bus_data", "cycle", "nmi_latched"})
       /\ p.bus_addr = e.hl
       /\ p.bus_data = Manual!Peek(m, e.hl)
       /\ l = m
  BY <1>12, InCore DEF Same
<1>14. PICK s : s = Seen(e)
  OBVIOUS
<1>15. p.pc = e.pc
  BY <1>13, <1>1, BytesAt, InCore DEF Same
<1>16. Seen(p) = s /\ \A x \in VisibleFields : s[x] = p[x]
  BY <1>14, <1>13, <1>15, SeenFields DEF Same, Seen
<1>17. CbTable(e, m)
         = Manual!Both(Manual!Flagged(s,
           Alu!alu_bit(Mask(e), e.f, Manual!Peek(m, e.hl), High(e.wz)).flags),
                       m)
  BY <1>13, <1>14, <1>3, CbOfMemory
<1>18. /\ p.opcode = e.opcode /\ p.f = e.f /\ p.wz = e.wz
       /\ p.bus_data = Manual!Peek(m, e.hl)
  BY <1>13, InCore DEF Same
<1>19. Mask(p) = Mask(e)
  BY <1>18, MaskOf
<1>20. PICK r : r = Execute("cb_bit_mem", p, int)
  OBVIOUS
<1>21. r = CbEffect("cb_bit_mem", p)
  BY <1>20, Executes
<1>22. r = CbBit(p, p.bus_data, High(p.wz))
  BY <1>21, <1>18, <1>19 DEF CbEffect
<1>23. Seen(r) = Manual!Flagged(s,
         Alu!alu_bit(Mask(e), e.f, Manual!Peek(m, e.hl), High(e.wz)).flags)
  BY <1>22, <1>16, <1>18, <1>19, CbBitMeans
<1>24. Seen(r) = Manual!Flagged(s,
         Alu!alu_bit(Mask(e), e.f, Manual!Peek(m, e.hl), High(e.wz)).flags)
  BY <1>23, <1>13
<1> QED BY <1>20, <1>24, <1>13, <1>17, MeetsBoth
=============================================================================
