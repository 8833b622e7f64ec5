-------------------------- MODULE Z80PromiseProofs --------------------------
(***************************************************************************)
(* Module Z80Registers keeps what module Z80Programmer promises, part two: *)
(* the instructions behind ED, DD and FD, the interrupts, and the theorem. *)
(* The manual executes an instruction in one step; the core fetches its    *)
(* bytes one by one, runs its cycles, and is interrupted at its end. The   *)
(* invariant (Story) says at every step how far the instruction that began *)
(* at start has come.                                                      *)
(***************************************************************************)
EXTENDS Z80ManualProofs

-----------------------------------------------------------------------------
(***************************************************************************)
(* Behind ED: the rows of the manual's table.                              *)
(***************************************************************************)

(* An instruction of the ED table is about to run. *)
BeginsEd(e, m, at) ==
  /\ Typed(e) /\ ByteMemory(m) /\ e.cycle = 0
  /\ e.instr = DecodeEd(e.opcode) /\ e.index = 0
  /\ OperandsAt(m, at, e.pc)

(* The ED opcodes that are no block instruction. *)
EdBytes(o) == IF X(o) = 1 /\ Z(o) = 3 THEN 2 ELSE 0
PastEd(e) == [Seen(e) EXCEPT !.pc = Plus(@, EdBytes(e.opcode))]
EdTable(e, m, at, port, ie) ==
  IF X(e.opcode) = 1 THEN Manual!Extended(PastEd(e), m, e.opcode, at, port, ie)
  ELSE Manual!Both(Seen(e), m)
BlockTable(e, m, port) == Manual!Pass(Seen(e), m, e.opcode, port, Plus(e.pc, -2))

LEMMA MapEd ==
  ASSUME NEW o \in Byte, NEW n, n = DecodeEd(o)
  PROVE  /\ X(o) \in {0, 1, 2, 3} /\ Y(o) \in 0 .. 7 /\ Z(o) \in 0 .. 7
         /\ n \in BlockInstrs \union EdInstrs \union {"ed_neg", "ed_im", "ed_nop"}
         /\ n = "ed_block_transfer" => X(o) = 2 /\ Y(o) \in 4 .. 7 /\ Z(o) = 0
         /\ n = "ed_block_compare" => X(o) = 2 /\ Y(o) \in 4 .. 7 /\ Z(o) = 1
         /\ n = "ed_block_in" => X(o) = 2 /\ Y(o) \in 4 .. 7 /\ Z(o) = 2
         /\ n = "ed_block_out" => X(o) = 2 /\ Y(o) \in 4 .. 7 /\ Z(o) = 3
         /\ n = "ed_in_c" => X(o) = 1 /\ Z(o) = 0
         /\ n = "ed_out_c" => X(o) = 1 /\ Z(o) = 1
         /\ n = "ed_adc_hl" => X(o) = 1 /\ Z(o) = 2 /\ Y(o) % 2 = 1
         /\ n = "ed_sbc_hl" => X(o) = 1 /\ Z(o) = 2 /\ Y(o) % 2 = 0
         /\ n = "ed_ld_rp_nn" => X(o) = 1 /\ Z(o) = 3 /\ Y(o) % 2 = 1
         /\ n = "ed_ld_nn_rp" => X(o) = 1 /\ Z(o) = 3 /\ Y(o) % 2 = 0
         /\ n = "ed_neg" => X(o) = 1 /\ Z(o) = 4
         /\ n = "ed_retn" => X(o) = 1 /\ Z(o) = 5
         /\ n = "ed_im" => X(o) = 1 /\ Z(o) = 6
         /\ n = "ed_ld_i_a" => X(o) = 1 /\ Z(o) = 7 /\ Y(o) = 0
         /\ n = "ed_ld_r_a" => X(o) = 1 /\ Z(o) = 7 /\ Y(o) = 1
         /\ n = "ed_ld_a_i" => X(o) = 1 /\ Z(o) = 7 /\ Y(o) = 2
         /\ n = "ed_ld_a_r" => X(o) = 1 /\ Z(o) = 7 /\ Y(o) = 3
         /\ n = "ed_rrd" => X(o) = 1 /\ Z(o) = 7 /\ Y(o) = 4
         /\ n = "ed_rld" => X(o) = 1 /\ Z(o) = 7 /\ Y(o) = 5
         /\ n = "ed_nop" => X(o) # 1 \/ (Z(o) = 7 /\ Y(o) \in {6, 7})
         /\ n \in BlockInstrs <=> X(o) = 2 /\ Y(o) >= 4 /\ Z(o) <= 3
<1>1. X(o) \in {0, 1, 2, 3} /\ Y(o) \in 0 .. 7 /\ Z(o) \in 0 .. 7
  BY FieldsType DEF Byte
<1>2. CASE X(o) = 2 /\ Z(o) <= 3 /\ Y(o) >= 4
  <2>1. n = <<"ed_block_transfer", "ed_block_compare", "ed_block_in", "ed_block_out">>[Z(o) + 1]
    BY <1>2 DEF DecodeEd
  <2>2. Z(o) \in {0, 1, 2, 3} /\ Y(o) \in 4 .. 7
    BY <1>1, <1>2
  <2>3. /\ Z(o) = 0 => n = "ed_block_transfer"
        /\ Z(o) = 1 => n = "ed_block_compare"
        /\ Z(o) = 2 => n = "ed_block_in"
        /\ Z(o) = 3 => n = "ed_block_out"
    BY <2>1
  <2> QED BY <1>1, <1>2, <2>2, <2>3 DEF BlockInstrs
<1>3. CASE X(o) = 1
  <2>1. n = DecodeEdX1(Y(o), Z(o))
    BY <1>3 DEF DecodeEd
  <2>2. CASE Z(o) = 7
    <3>1. n = <<"ed_ld_i_a", "ed_ld_r_a", "ed_ld_a_i", "ed_ld_a_r",
                "ed_rrd", "ed_rld", "ed_nop", "ed_nop">>[Y(o) + 1]
      BY <2>1, <2>2 DEF DecodeEdX1
    <3>2. /\ Y(o) = 0 => n = "ed_ld_i_a"
          /\ Y(o) = 1 => n = "ed_ld_r_a"
          /\ Y(o) = 2 => n = "ed_ld_a_i"
          /\ Y(o) = 3 => n = "ed_ld_a_r"
          /\ Y(o) = 4 => n = "ed_rrd"
          /\ Y(o) = 5 => n = "ed_rld"
          /\ Y(o) = 6 => n = "ed_nop"
          /\ Y(o) = 7 => n = "ed_nop"
      BY <3>1
    <3> QED BY <1>1, <1>3, <2>2, <3>2 DEF EdInstrs, BlockInstrs
  <2>3. CASE Z(o) # 7
    <3>1. /\ Z(o) = 0 => n = "ed_in_c"
          /\ Z(o) = 1 => n = "ed_out_c"
          /\ Z(o) = 2 /\ Y(o) % 2 = 1 => n = "ed_adc_hl"
          /\ Z(o) = 2 /\ Y(o) % 2 = 0 => n = "ed_sbc_hl"
          /\ Z(o) = 3 /\ Y(o) % 2 = 1 => n = "ed_ld_rp_nn"
          /\ Z(o) = 3 /\ Y(o) % 2 = 0 => n = "ed_ld_nn_rp"
          /\ Z(o) = 4 => n = "ed_neg"
          /\ Z(o) = 5 => n = "ed_retn"
          /\ Z(o) = 6 => n = "ed_im"
      BY <2>1, <2>3 DEF DecodeEdX1
    <3>2. Z(o) \in {0, 1, 2, 3, 4, 5, 6} /\ Y(o) % 2 \in {0, 1}
      BY <1>1, <2>3
    <3> QED BY <1>1, <1>3, <3>1, <3>2 DEF EdInstrs, BlockInstrs
  <2> QED BY <2>2, <2>3
<1>4. CASE X(o) # 1 /\ ~(X(o) = 2 /\ Z(o) <= 3 /\ Y(o) >= 4)
  <2>1. n = "ed_nop"
    BY <1>4 DEF DecodeEd
  <2> QED BY <1>1, <1>4, <2>1 DEF BlockInstrs
<1> QED BY <1>2, <1>3, <1>4

(* The rows of the manual's ED table. *)
LEMMA EdOut ==
  ASSUME NEW s, NEW m, NEW o \in Byte, NEW at, NEW port, NEW ie, Z(o) = 1
  PROVE  Manual!Extended(s, m, o, at, port, ie) = Manual!Both(s, m)
<1>1. (o \div 8) % 8 = Y(o) /\ o % 8 = Z(o)
  BY DEF Y, Z
<1> QED BY <1>1 DEF Manual!Extended

LEMMA EdWithCarry ==
  ASSUME NEW s, NEW m, NEW o \in Byte, NEW at, NEW port, NEW ie, Z(o) = 2
  PROVE  Manual!Extended(s, m, o, at, port, ie)
           = Manual!WithCarry(s, m, Y(o), Manual!ExtendedPair(Y(o)))
<1>1. (o \div 8) % 8 = Y(o) /\ o % 8 = Z(o)
  BY DEF Y, Z
<1> QED BY <1>1 DEF Manual!Extended

LEMMA EdMoves ==
  ASSUME NEW s, NEW m, NEW o \in Byte, NEW at, NEW port, NEW ie, Z(o) = 3
  PROVE  Manual!Extended(s, m, o, at, port, ie)
           = Manual!MovesPair(s, m, Y(o), Manual!ExtendedPair(Y(o)), Manual!PeekWord(m, at))
<1>1. (o \div 8) % 8 = Y(o) /\ o % 8 = Z(o)
  BY DEF Y, Z
<1> QED BY <1>1 DEF Manual!Extended

LEMMA EdNeg ==
  ASSUME NEW s, NEW m, NEW o \in Byte, NEW at, NEW port, NEW ie, Z(o) = 4
  PROVE  Manual!Extended(s, m, o, at, port, ie)
           = Manual!Both(Manual!Accumulates(s, Manual!sub_flags(0, s.a, 0)), m)
<1>1. (o \div 8) % 8 = Y(o) /\ o % 8 = Z(o)
  BY DEF Y, Z
<1> QED BY <1>1 DEF Manual!Extended

LEMMA EdReturns ==
  ASSUME NEW s, NEW m, NEW o \in Byte, NEW at, NEW port, NEW ie, Z(o) = 5
  PROVE  Manual!Extended(s, m, o, at, port, ie) = Manual!Returns(s, m)
<1>1. (o \div 8) % 8 = Y(o) /\ o % 8 = Z(o)
  BY DEF Y, Z
<1> QED BY <1>1 DEF Manual!Extended

LEMMA EdToI ==
  ASSUME NEW s, NEW m, NEW o \in Byte, NEW at, NEW port, NEW ie, Z(o) = 7, Y(o) = 0
  PROVE  Manual!Extended(s, m, o, at, port, ie) = Manual!Both(Put(s, "i", s.a), m)
<1>1. (o \div 8) % 8 = Y(o) /\ o % 8 = Z(o)
  BY DEF Y, Z
<1> QED BY <1>1 DEF Manual!Extended, Put

LEMMA EdToR ==
  ASSUME NEW s, NEW m, NEW o \in Byte, NEW at, NEW port, NEW ie, Z(o) = 7, Y(o) = 1
  PROVE  Manual!Extended(s, m, o, at, port, ie) = Manual!Both(Put(s, "r", s.a), m)
<1>1. (o \div 8) % 8 = Y(o) /\ o % 8 = Z(o)
  BY DEF Y, Z
<1> QED BY <1>1 DEF Manual!Extended, Put

LEMMA EdFromI ==
  ASSUME NEW s, NEW m, NEW o \in Byte, NEW at, NEW port, NEW ie, Z(o) = 7, Y(o) = 2
  PROVE  Manual!Extended(s, m, o, at, port, ie) = Manual!LoadsA(s, m, s.i, ie)
<1>1. (o \div 8) % 8 = Y(o) /\ o % 8 = Z(o)
  BY DEF Y, Z
<1> QED BY <1>1 DEF Manual!Extended

LEMMA EdFromR ==
  ASSUME NEW s, NEW m, NEW o \in Byte, NEW at, NEW port, NEW ie, Z(o) = 7, Y(o) = 3
  PROVE  Manual!Extended(s, m, o, at, port, ie) = Manual!LoadsA(s, m, s.r, ie)
<1>1. (o \div 8) % 8 = Y(o) /\ o % 8 = Z(o)
  BY DEF Y, Z
<1> QED BY <1>1 DEF Manual!Extended

LEMMA EdNops ==
  ASSUME NEW s, NEW m, NEW o \in Byte, NEW at, NEW port, NEW ie, Z(o) = 7, Y(o) \in {6, 7}
  PROVE  Manual!Extended(s, m, o, at, port, ie) = Manual!Both(s, m)
<1>1. (o \div 8) % 8 = Y(o) /\ o % 8 = Z(o)
  BY DEF Y, Z
<1> QED BY <1>1 DEF Manual!Extended

LEMMA EdIn ==
  ASSUME NEW s, NEW m, NEW o \in Byte, NEW at, NEW port, NEW ie, Z(o) = 0
  PROVE  Manual!Extended(s, m, o, at, port, ie)
           = Manual!Both(IF Y(o) = 6 THEN Manual!Flagged(s, Manual!digit_rotate_flags(s.f, port))
                         ELSE Manual!WithReg(Manual!Flagged(s,
                           Manual!digit_rotate_flags(s.f, port)),
                                             Y(o), "hl", port), m)
<1>1. (o \div 8) % 8 = Y(o) /\ o % 8 = Z(o)
  BY DEF Y, Z
<1> QED BY <1>1 DEF Manual!Extended

LEMMA EdModes ==
  ASSUME NEW s, NEW m, NEW o \in Byte, NEW at, NEW port, NEW ie, Z(o) = 6
  PROVE  Manual!Extended(s, m, o, at, port, ie)
           = Manual!Both(Put(s, "im", <<0, 0, 1, 2>>[(Y(o) % 4) + 1]), m)
<1>1. (o \div 8) % 8 = Y(o) /\ o % 8 = Z(o)
  BY DEF Y, Z
<1> QED BY <1>1 DEF Manual!Extended, Put

TurnsRight(o, right) == right <=> (Y(o) = 4)

LEMMA EdDigits ==
  ASSUME NEW s, NEW m, NEW o \in Byte, NEW at, NEW port, NEW ie, Z(o) = 7, Y(o) \in {4, 5},
         NEW right \in BOOLEAN, TurnsRight(o, right)
  PROVE  Manual!Extended(s, m, o, at, port, ie)
           = Manual!TurnsDigits(s, m, right, Manual!Peek(m, s.hl))
<1>1. (o \div 8) % 8 = Y(o) /\ o % 8 = Z(o)
  BY DEF Y, Z
<1>2. Y(o) = 4 \/ Y(o) = 5
  OBVIOUS
<1>3. right = (Y(o) = 4)
  BY DEF TurnsRight
<1> QED BY <1>1, <1>2, <1>3 DEF Manual!Extended
-----------------------------------------------------------------------------
(***************************************************************************)
(* What the rows that name a pair, I, R, IM and ports come to.             *)
(***************************************************************************)

(* The pair an ED opcode names; what the rows that name it come to. *)
LEMMA EdPair ==
  ASSUME NEW e, NEW m, NEW at, BeginsEd(e, m, at)
  PROVE  /\ Manual!ExtendedPair(Y(e.opcode)) = pair_rp(e)
         /\ pair_rp(e) \in {"bc", "de", "hl", "sp"}
<1>1. Y(e.opcode) \in 0 .. 7
  BY FieldsType, CoreTypes DEF BeginsEd, Byte
<1>2. index_pair(e) = "hl"
  BY DEF BeginsEd, index_pair, DD, FD
<1>4. PairField(e) = Y(e.opcode) \div 2 /\ Y(e.opcode) \div 2 \in {0, 1, 2, 3}
  BY <1>1, CoreTypes DEF BeginsEd, PairField, Y, Byte
<1>3. pair_rp(e) = <<"bc", "de", "hl", "sp">>[Y(e.opcode) \div 2 + 1]
  BY <1>2, <1>4 DEF pair_rp
<1>5. pair_rp(e) \in {"bc", "de", "hl", "sp"}
  BY <1>3, <1>4
<1> QED BY <1>3, <1>5 DEF Manual!ExtendedPair

LEMMA WithCarryIs ==
  ASSUME NEW s, NEW m, NEW y, NEW pair, NEW out
  PROVE  /\ y % 2 = 1 /\ out = Manual!alu_adc16(s.hl, s.f, s[pair]) =>
              Manual!WithCarry(s, m, y, pair)
                = Manual!Both(Manual!Flagged([s EXCEPT !.hl = out.value], out.flags), m)
         /\ y % 2 = 0 /\ out = Manual!alu_sbc16(s.hl, s.f, s[pair]) =>
              Manual!WithCarry(s, m, y, pair)
                = Manual!Both(Manual!Flagged([s EXCEPT !.hl = out.value], out.flags), m)
<1>1. [s EXCEPT !.hl = out.value, !.f = out.flags]
        = Manual!Flagged([s EXCEPT !.hl = out.value], out.flags)
  BY DEF Manual!Flagged
<1>2. ASSUME y % 2 = 1, out = Manual!alu_adc16(s.hl, s.f, s[pair])
      PROVE  Manual!WithCarry(s, m, y, pair)
               = Manual!Both([s EXCEPT !.hl = out.value, !.f = out.flags], m)
  BY <1>2 DEF Manual!WithCarry
<1>3. ASSUME y % 2 = 0, out = Manual!alu_sbc16(s.hl, s.f, s[pair])
      PROVE  Manual!WithCarry(s, m, y, pair)
               = Manual!Both([s EXCEPT !.hl = out.value, !.f = out.flags], m)
  <2>1. PICK wide : wide = IF y % 2 = 1 THEN Manual!alu_adc16(s.hl, s.f, s[pair])
                           ELSE Manual!alu_sbc16(s.hl, s.f, s[pair])
    OBVIOUS
  <2>2. wide = out
    BY <1>3, <2>1
  <2>3. Manual!WithCarry(s, m, y, pair)
          = Manual!Both([s EXCEPT !.hl = wide.value, !.f = wide.flags], m)
    BY <2>1 DEF Manual!WithCarry
  <2> QED BY <2>2, <2>3
<1> QED BY <1>1, <1>2, <1>3

LEMMA MovesPairIs ==
  ASSUME NEW s, NEW m, NEW y, NEW pair, NEW nn
  PROVE  /\ y % 2 = 1 => Manual!MovesPair(s, m, y, pair, nn)
                           = Manual!Both(Put(s, pair, Manual!PeekWord(m, nn)), m)
         /\ y % 2 = 0 => Manual!MovesPair(s, m, y, pair, nn)
                           = Manual!Both(s, Manual!PokeWord(m, nn, s[pair]))
BY DEF Manual!MovesPair, Put

(* LD A,I and LD A,R; ie is the flip-flop they see. *)
LoadsEnable(c, int, ie) ==
  ie <=> (c.iff2 /\ ~(~c.int_inhibit /\ (c.nmi_latched \/ (c.iff1 /\ int))))

LEMMA LoadsAMeans ==
  ASSUME NEW c, Shaped(c), NEW value, NEW int, NEW ie,
         LoadsEnable(c, int, ie),
         NEW flags, flags = Alu!load_a_flags(c.f, value, ie)
  PROVE  Seen(load_a_from_control_register(c, value, int))
           = Put(Put(Seen(c), "a", value), "f", flags)
<1>1. flags = Alu!load_a_flags(c.f, value, ie)
  OBVIOUS
<1>2. PICK d : d = WriteFlags(c, flags)
  OBVIOUS
<1>3. load_a_from_control_register(c, value, int) = Put(d, "a", value)
  BY <1>1, <1>2 DEF LoadsEnable, load_a_from_control_register, Put, Alu!load_a_flags, Alu!FlagIf
<1>4. Shaped(d) /\ Seen(d) = [Seen(c) EXCEPT !.f = flags]
  BY <1>2, SeenFlags DEF Manual!Flagged
<1>5. Seen(Put(d, "a", value)) = [Seen(d) EXCEPT !["a"] = value]
  <2>1. Shaped(d) /\ "a" \in CpuFields /\ "a" \in VisibleFields
    BY <1>4, SeenFields, InCore
  <2>2. \A v : Seen(Put(d, "a", v)) = [Seen(d) EXCEPT !["a"] = v]
    BY <2>1, SeenPut
  <2> QED BY <2>2
<1>6. [Seen(d) EXCEPT !.a = value] = [Seen(c) EXCEPT !.a = value, !.f = flags]
  BY <1>4, SeenFields DEF Seen
<1> QED BY <1>1, <1>3, <1>5, <1>6 DEF Put

(* IN r,(C) and OUT (C),r. *)
LEMMA PortEffectMeans ==
  ASSUME NEW c, Typed(c), NEW y, y = Y(c.opcode), index_pair(c) = "hl",
         NEW flags, flags = Alu!digit_rotate_flags(c.f, c.bus_data)
  PROVE  /\ Seen(PortEffect("ed_in_c", c))
              = IF y = 6 THEN Manual!Flagged(Seen(c), flags)
                ELSE Manual!WithReg(Manual!Flagged(Seen(c), flags), y, "hl", c.bus_data)
         /\ Seen(PortEffect("ed_out_c", c)) = Seen(c)
<1>1. /\ y \in 0 .. 7 /\ c.bus_data \in Byte /\ Shaped(c)
      /\ flags \in SUBSET Alu!Flags
  <2>1. c.opcode \in Byte /\ c.bus_data \in Byte /\ Shaped(c) /\ c.f \in SUBSET Alu!Flags
    BY CoreTypes
  <2>2. y \in 0 .. 7
    BY <2>1, FieldsType DEF Byte
  <2> QED BY <2>1, <2>2, FlagsTyped
<1>2. PICK d : d = WriteFlags(c, flags)
  OBVIOUS
<1>3. Typed(d) /\ Shaped(d) /\ Seen(d) = Manual!Flagged(Seen(c), flags) /\ index_pair(d) = "hl"
  BY <1>1, <1>2, FlagsKeepType, SeenFlags, OperandsAgree, Fields
<1>4. PICK taken : taken = WithSlot(d, y, c.bus_data)
  OBVIOUS
<1>5. PortEffect("ed_in_c", c) = Put(taken, "wz", Plus(taken.bc, 1))
  BY <1>2, <1>4 DEF PortEffect, Put
<1>6. Seen(taken) = IF y = 6 THEN Seen(d) ELSE Manual!WithReg(Seen(d), y, "hl", c.bus_data)
  <2>1. CASE y = 6
    BY <1>4, <2>1 DEF WithSlot, WithHalf
  <2>2. CASE y # 6
    BY <1>1, <1>3, <1>4, <2>2, SlotMeans
  <2> QED BY <2>1, <2>2
<1>7. \A w : Seen(Put(taken, "wz", w)) = Seen(taken)
  BY SeenFields DEF Seen, Put
<1>8. Seen(PortEffect("ed_out_c", c)) = Seen(c)
  <2>1. PortEffect("ed_out_c", c) = Put(c, "wz", Plus(c.bc, 1))
    BY DEF PortEffect, Put
  <2>2. \A w : Seen(Put(c, "wz", w)) = Seen(c)
    BY SeenFields DEF Seen, Put
  <2> QED BY <2>1, <2>2
<1> QED BY <1>3, <1>5, <1>6, <1>7, <1>8

LEMMA ModesAre ==
  ASSUME NEW y \in 0 .. 7
  PROVE  <<0, 0, 1, 2, 0, 0, 1, 2>>[y + 1] = <<0, 0, 1, 2>>[(y % 4) + 1]
<1>1. y % 4 = IF y > 3 THEN y - 4 ELSE y
  OBVIOUS
<1>2. y \in {0, 1, 2, 3, 4, 5, 6, 7}
  OBVIOUS
<1>3. \A k \in {0, 1, 2, 3, 4, 5, 6, 7} :
        <<0, 0, 1, 2, 0, 0, 1, 2>>[k + 1] = <<0, 0, 1, 2>>[(IF k > 3 THEN k - 4 ELSE k) + 1]
  OBVIOUS
<1> QED BY <1>1, <1>2, <1>3
-----------------------------------------------------------------------------
(***************************************************************************)
(* The instructions behind ED, the block instructions apart.               *)
(***************************************************************************)

(* An ED opcode that does nothing. *)
LEMMA Does_ed_nop ==
  ASSUME NEW e, NEW m, NEW at, NEW ie, BeginsEd(e, m, at), e.instr = "ed_nop",
         NEW p, Typed(p), Same(e, p, {"nmi_latched"}), NEW int, NEW port
  PROVE  Meets(Execute("ed_nop", p, int), m, EdTable(e, m, at, port, ie))
<1>1. /\ Typed(e) /\ Shaped(e) /\ e.opcode \in Byte /\ ByteMemory(m)
      /\ index_pair(e) \in {"hl", "ix", "iy"}
  BY CoreTypes DEF BeginsEd, index_pair
<1>2. "ed_nop" = DecodeEd(e.opcode)
  BY DEF BeginsEd
<1>3. /\ X(e.opcode) # 1 \/ (Z(e.opcode) = 7 /\ Y(e.opcode) \in {6, 7})
      /\ Y(e.opcode) \in 0 .. 7
  BY <1>1, <1>2, MapEd
<1>4. EdBytes(e.opcode) = 0
  BY <1>1, <1>3, FieldsType, OpcodeOf DEF EdBytes
<1>5. Same(e, p, {"nmi_latched"})
  OBVIOUS
<1>6. PICK s : s = PastEd(e)
  OBVIOUS
<1>7. s = [Seen(e) EXCEPT !.pc = Plus(e.pc, 0)]
  BY <1>4, <1>6, SeenFields DEF PastEd, Seen
<1>8. p.pc = Plus(e.pc, 0)
  BY <1>5, <1>1, BytesAt, InCore DEF Same
<1>9. Seen(p) = s /\ \A x \in VisibleFields : s[x] = p[x]
  BY <1>7, <1>5, <1>8, SeenFields DEF Same, Seen
<1>10. X(e.opcode) = 1 => Manual!Extended(s, m, e.opcode, at, port, ie) = Manual!Both(s, m)
  BY <1>1, <1>3, EdNops
<1>11. s = Seen(e)
  BY <1>9, <1>5, SeenFields DEF Same, Seen
<1>12. EdTable(e, m, at, port, ie)
         = Manual!Both(s,
                       m)
  BY <1>10, <1>11, <1>6 DEF EdTable
<1>13. PICK r : r = Execute("ed_nop", p, int)
  OBVIOUS
<1>14. r = p
  BY <1>13, ExecutesNothing DEF Hooked
<1>15. Seen(r) = s
  BY <1>14, <1>9
<1>16. Seen(r) = s
  BY <1>15, <1>5
<1> QED BY <1>13, <1>16, <1>5, <1>12, MeetsBoth

(* NEG. *)
LEMMA Does_ed_neg ==
  ASSUME NEW e, NEW m, NEW at, NEW ie, BeginsEd(e, m, at), e.instr = "ed_neg",
         NEW p, Typed(p), Same(e, p, {"nmi_latched"}), NEW int, NEW port
  PROVE  Meets(Execute("ed_neg", p, int), m, EdTable(e, m, at, port, ie))
<1>1. /\ Typed(e) /\ Shaped(e) /\ e.opcode \in Byte /\ ByteMemory(m)
      /\ index_pair(e) \in {"hl", "ix", "iy"}
  BY CoreTypes DEF BeginsEd, index_pair
<1>2. "ed_neg" = DecodeEd(e.opcode)
  BY DEF BeginsEd
<1>3. /\ X(e.opcode) = 1
      /\ Y(e.opcode) \in 0 .. 7
      /\ Z(e.opcode) = 4
  BY <1>1, <1>2, MapEd
<1>4. EdBytes(e.opcode) = 0
  BY <1>1, <1>3, FieldsType, OpcodeOf DEF EdBytes
<1>5. Same(e, p, {"nmi_latched"})
  OBVIOUS
<1>6. PICK s : s = PastEd(e)
  OBVIOUS
<1>7. s = [Seen(e) EXCEPT !.pc = Plus(e.pc, 0)]
  BY <1>4, <1>6, SeenFields DEF PastEd, Seen
<1>8. p.pc = Plus(e.pc, 0)
  BY <1>5, <1>1, BytesAt, InCore DEF Same
<1>9. Seen(p) = s /\ \A x \in VisibleFields : s[x] = p[x]
  BY <1>7, <1>5, <1>8, SeenFields DEF Same, Seen
<1>10. EdTable(e, m, at, port, ie) = Manual!Extended(s, m, e.opcode, at, port, ie)
  BY <1>1, <1>3, <1>6, <1>1 DEF EdTable
<1>11. Manual!Extended(s, m, e.opcode, at, port, ie)
         = Manual!Both(Manual!Accumulates(s, Manual!sub_flags(0, s.a, 0)),
                       m)
  BY <1>1, <1>3, EdNeg DEF Put
<1>12. PICK out : out = Alu!execute_neg(p.a)
  OBVIOUS
<1>13. s.a = p.a /\ Shaped(p)
  BY <1>9, SeenFields, CoreTypes
<1>14. out = Manual!sub_flags(0, s.a, 0)
  BY <1>12, <1>13, SameArithmetic DEF Alu!execute_neg
<1>15. PICK r : r = Execute("ed_neg", p, int)
  OBVIOUS
<1>16. r = ArithmeticEffect("ed_neg", p)
  BY <1>15, Executes DEF Arithmetics
<1>17. r = WithOut(p, out)
  BY <1>16, <1>12, <1>13, <1>14 DEF ArithmeticEffect
<1>18. Seen(r) = Manual!Accumulates(s, out)
  BY <1>17, <1>9, <1>12, <1>13, <1>14, SeenOut
<1>19. out = Manual!sub_flags(0, s.a, 0)
  BY <1>12, <1>13, <1>14, <1>5, <1>9, <1>1, SeenFields, InCore DEF Same, OperandsAt, BeginsEd
<1>20. Seen(r) = Manual!Accumulates(s, Manual!sub_flags(0, s.a, 0))
  BY <1>18, <1>19, <1>5
<1> QED BY <1>15, <1>20, <1>19, <1>5, <1>10, <1>11, MeetsBoth

(* IM 0, 1, 2. *)
LEMMA Does_ed_im ==
  ASSUME NEW e, NEW m, NEW at, NEW ie, BeginsEd(e, m, at), e.instr = "ed_im",
         NEW p, Typed(p), Same(e, p, {"nmi_latched"}), NEW int, NEW port
  PROVE  Meets(Execute("ed_im", p, int), m, EdTable(e, m, at, port, ie))
<1>1. /\ Typed(e) /\ Shaped(e) /\ e.opcode \in Byte /\ ByteMemory(m)
      /\ index_pair(e) \in {"hl", "ix", "iy"}
  BY CoreTypes DEF BeginsEd, index_pair
<1>2. "ed_im" = DecodeEd(e.opcode)
  BY DEF BeginsEd
<1>3. /\ X(e.opcode) = 1
      /\ Y(e.opcode) \in 0 .. 7
      /\ Z(e.opcode) = 6
  BY <1>1, <1>2, MapEd
<1>4. EdBytes(e.opcode) = 0
  BY <1>1, <1>3, FieldsType, OpcodeOf DEF EdBytes
<1>5. Same(e, p, {"nmi_latched"})
  OBVIOUS
<1>6. PICK s : s = PastEd(e)
  OBVIOUS
<1>7. s = [Seen(e) EXCEPT !.pc = Plus(e.pc, 0)]
  BY <1>4, <1>6, SeenFields DEF PastEd, Seen
<1>8. p.pc = Plus(e.pc, 0)
  BY <1>5, <1>1, BytesAt, InCore DEF Same
<1>9. Seen(p) = s /\ \A x \in VisibleFields : s[x] = p[x]
  BY <1>7, <1>5, <1>8, SeenFields DEF Same, Seen
<1>10. EdTable(e, m, at, port, ie) = Manual!Extended(s, m, e.opcode, at, port, ie)
  BY <1>1, <1>3, <1>6, <1>1 DEF EdTable
<1>11. Manual!Extended(s, m, e.opcode, at, port, ie)
         = Manual!Both([s EXCEPT !.im = <<0, 0, 1, 2>>[(Y(e.opcode) % 4) + 1]],
                       m)
  BY <1>1, <1>3, EdModes DEF Put
<1>12. PICK mode : mode = <<0, 0, 1, 2, 0, 0, 1, 2>>[Y(p.opcode) + 1]
  OBVIOUS
<1>13. Y(p.opcode) = Y(e.opcode)
  BY <1>5, InCore DEF Same
<1>14. mode = <<0, 0, 1, 2>>[(Y(e.opcode) % 4) + 1]
  BY <1>12, <1>13, <1>3, ModesAre
<1>15. Shaped(p) /\ "im" \in CpuFields /\ "im" \in VisibleFields
  BY CoreTypes, SeenFields, InCore
<1>16. \A v : Seen(Put(p, "im", v)) = [s EXCEPT !["im"] = v]
  BY <1>15, <1>9, SeenPut
<1>17. PICK r : r = Execute("ed_im", p, int)
  OBVIOUS
<1>18. r = ControlEffect("ed_im", p)
  BY <1>17, Executes DEF Controls
<1>19. r = Put(p, "im", mode)
  BY <1>18, <1>12, <1>13, <1>14, <1>15, <1>16 DEF ControlEffect, execute_im, Put
<1>20. Seen(r) = [s EXCEPT !.im = mode]
  BY <1>19, <1>9, <1>12, <1>13, <1>14, <1>15, <1>16, <1>12, <1>13, <1>14, <1>15, <1>16
<1>21. mode = <<0, 0, 1, 2>>[(Y(e.opcode) % 4) + 1]
  BY <1>12, <1>13, <1>14, <1>15, <1>16, <1>5, <1>9, <1>1, SeenFields, InCore DEF Same, OperandsAt, BeginsEd
<1>22. Seen(r) = [s EXCEPT !.im = <<0, 0, 1, 2>>[(Y(e.opcode) % 4) + 1]]
  BY <1>20, <1>21, <1>5
<1> QED BY <1>17, <1>22, <1>21, <1>5, <1>10, <1>11, MeetsBoth

(* ADC HL,rp. *)
LEMMA Does_ed_adc_hl ==
  ASSUME NEW e, NEW m, NEW at, NEW ie, BeginsEd(e, m, at), e.instr = "ed_adc_hl",
         NEW d, NEW l, After1(e, m, d, l),
         NEW p, Typed(p), Same(d, p, {"nmi_latched"}), NEW int, NEW port
  PROVE  Meets(Execute("ed_adc_hl", p, int), l, EdTable(e, m, at, port, ie))
<1>1. /\ Typed(e) /\ Shaped(e) /\ e.opcode \in Byte /\ ByteMemory(m)
      /\ index_pair(e) \in {"hl", "ix", "iy"}
  BY CoreTypes DEF BeginsEd, index_pair
<1>2. "ed_adc_hl" = DecodeEd(e.opcode)
  BY DEF BeginsEd
<1>3. /\ X(e.opcode) = 1
      /\ Y(e.opcode) \in 0 .. 7
      /\ Z(e.opcode) = 2
      /\ Y(e.opcode) % 2 = 1
  BY <1>1, <1>2, MapEd
<1>4. EdBytes(e.opcode) = 0
  BY <1>1, <1>3, FieldsType, OpcodeOf DEF EdBytes
<1>5. PICK pair : pair = pair_rp(e) /\ pair \in {"bc", "de", "hl", "ix", "iy", "sp"}
  BY <1>1, PairNamed
<1>6. OneCycle(e, m, d, l)
  BY DEF After1
<1>7. e.instr = "ed_adc_hl" /\ e.cycle = 0 /\ Shaped(e)
  BY <1>6, Fields DEF OneCycle, BeginsEd
<1>8. CyclesOf["ed_adc_hl"] = EdCycles("ed_adc_hl") /\ HooksOf["ed_adc_hl"] = EdHooks("ed_adc_hl")
  BY GroupCycles, GroupHooks DEF Instrs, EdInstrs
<1>9. Enters(e, "idle7", "none", "none")
  BY <1>7, <1>8 DEF Enters, EdCycles, EdHooks, Operand, Called, AtPcTo, AtPopTo, On, Idle, Read,
     Write,
       IoIn, IoOut, Idle1, Idle2, Idle4, Idle5, Idle7
<1>10. d = Put(Exit("none", e), "cycle", e.cycle + 1) /\ l = m
  BY <1>6, <1>9, Idles DEF IdleCycles
<1>11. /\ Same(e, d, {"cycle"})
       /\ l = m
  BY <1>5, <1>7, <1>10, Leaves, InCore DEF Same
<1>12. /\ Same(e, p, {"cycle", "nmi_latched"})
       /\ l = m
  BY <1>11, <1>5, InCore DEF Same
<1>13. PICK s : s = PastEd(e)
  OBVIOUS
<1>14. s = [Seen(e) EXCEPT !.pc = Plus(e.pc, 0)]
  BY <1>4, <1>13, SeenFields DEF PastEd, Seen
<1>15. p.pc = Plus(e.pc, 0)
  BY <1>12, <1>1, BytesAt, InCore DEF Same
<1>16. Seen(p) = s /\ \A x \in VisibleFields : s[x] = p[x]
  BY <1>14, <1>12, <1>15, SeenFields DEF Same, Seen
<1>17. BeginsEd(e, m, at)
  OBVIOUS
<1>18. pair_rp(e) = pair /\ Manual!ExtendedPair(Y(e.opcode)) = pair /\
         pair \in {"bc", "de", "hl", "sp"}
  BY <1>17, <1>5, EdPair
<1>19. PICK out : out = Manual!alu_adc16(s.hl, s.f, s[pair])
  OBVIOUS
<1>20. Manual!Extended(s, m, e.opcode, at, port, ie) = Manual!WithCarry(s, m, Y(e.opcode), pair)
  BY <1>17, <1>18, <1>19, <1>1, <1>3, EdWithCarry
<1>21. Manual!Extended(s, m, e.opcode, at, port, ie)
         = Manual!Both(Manual!Flagged([s EXCEPT !.hl = out.value], out.flags), m)
  BY <1>17, <1>18, <1>19, <1>20, <1>3, WithCarryIs
<1>22. EdTable(e, m, at, port, ie) = Manual!Extended(s, m, e.opcode, at, port, ie)
  BY <1>1, <1>3, <1>13, <1>1 DEF EdTable
<1>23. Manual!Extended(s, m, e.opcode, at, port, ie)
         = Manual!Both(Manual!Flagged([s EXCEPT !.hl = out.value], out.flags),
                       m)
  BY <1>17, <1>18, <1>19, <1>20, <1>21
<1>24. OperandsOf(e, p) /\ p.opcode = e.opcode
  BY <1>12, InCore DEF Same, OperandsOf
<1>25. /\ index_pair(p) = index_pair(e) /\ pair_rp(p) = pair_rp(e)
       /\ \A w : Slot(p, w) = Slot(e, w)
  BY <1>24, OperandsAgree
<1>26. pair_rp(p) = pair
  BY <1>24, <1>25, <1>5
<1>27. p.hl = s.hl /\ p[pair] = s[pair] /\ p.f = s.f
  BY <1>1, <1>5, <1>16, SeenFields
<1>28. out = Alu!alu_adc16(p.hl, p.f, p[pair_rp(p)])
  BY <1>17, <1>18, <1>19, <1>20, <1>21, <1>24, <1>25, <1>26, <1>27, SameArithmetic
<1>29. PICK r : r = Execute("ed_adc_hl", p, int)
  OBVIOUS
<1>30. r = ArithmeticEffect("ed_adc_hl", p)
  BY <1>29, Executes DEF Arithmetics
<1>31. r = WideOut(p, "hl", out)
  BY <1>30, <1>24, <1>25, <1>26, <1>27, <1>28 DEF ArithmeticEffect
<1>32. Seen(r) = Manual!Flagged([s EXCEPT !["hl"] = out.value], out.flags)
  BY <1>31, <1>16, <1>24, <1>25, <1>26, <1>27, <1>28, WideMeans
<1>33. Seen(r) = Manual!Flagged([s EXCEPT !.hl = out.value], out.flags)
  BY <1>32, <1>12
<1> QED BY <1>29, <1>33, <1>12, <1>22, <1>23, MeetsBoth

(* SBC HL,rp. *)
LEMMA Does_ed_sbc_hl ==
  ASSUME NEW e, NEW m, NEW at, NEW ie, BeginsEd(e, m, at), e.instr = "ed_sbc_hl",
         NEW d, NEW l, After1(e, m, d, l),
         NEW p, Typed(p), Same(d, p, {"nmi_latched"}), NEW int, NEW port
  PROVE  Meets(Execute("ed_sbc_hl", p, int), l, EdTable(e, m, at, port, ie))
<1>1. /\ Typed(e) /\ Shaped(e) /\ e.opcode \in Byte /\ ByteMemory(m)
      /\ index_pair(e) \in {"hl", "ix", "iy"}
  BY CoreTypes DEF BeginsEd, index_pair
<1>2. "ed_sbc_hl" = DecodeEd(e.opcode)
  BY DEF BeginsEd
<1>3. /\ X(e.opcode) = 1
      /\ Y(e.opcode) \in 0 .. 7
      /\ Z(e.opcode) = 2
      /\ Y(e.opcode) % 2 = 0
  BY <1>1, <1>2, MapEd
<1>4. EdBytes(e.opcode) = 0
  BY <1>1, <1>3, FieldsType, OpcodeOf DEF EdBytes
<1>5. PICK pair : pair = pair_rp(e) /\ pair \in {"bc", "de", "hl", "ix", "iy", "sp"}
  BY <1>1, PairNamed
<1>6. OneCycle(e, m, d, l)
  BY DEF After1
<1>7. e.instr = "ed_sbc_hl" /\ e.cycle = 0 /\ Shaped(e)
  BY <1>6, Fields DEF OneCycle, BeginsEd
<1>8. CyclesOf["ed_sbc_hl"] = EdCycles("ed_sbc_hl") /\ HooksOf["ed_sbc_hl"] = EdHooks("ed_sbc_hl")
  BY GroupCycles, GroupHooks DEF Instrs, EdInstrs
<1>9. Enters(e, "idle7", "none", "none")
  BY <1>7, <1>8 DEF Enters, EdCycles, EdHooks, Operand, Called, AtPcTo, AtPopTo, On, Idle, Read,
     Write,
       IoIn, IoOut, Idle1, Idle2, Idle4, Idle5, Idle7
<1>10. d = Put(Exit("none", e), "cycle", e.cycle + 1) /\ l = m
  BY <1>6, <1>9, Idles DEF IdleCycles
<1>11. /\ Same(e, d, {"cycle"})
       /\ l = m
  BY <1>5, <1>7, <1>10, Leaves, InCore DEF Same
<1>12. /\ Same(e, p, {"cycle", "nmi_latched"})
       /\ l = m
  BY <1>11, <1>5, InCore DEF Same
<1>13. PICK s : s = PastEd(e)
  OBVIOUS
<1>14. s = [Seen(e) EXCEPT !.pc = Plus(e.pc, 0)]
  BY <1>4, <1>13, SeenFields DEF PastEd, Seen
<1>15. p.pc = Plus(e.pc, 0)
  BY <1>12, <1>1, BytesAt, InCore DEF Same
<1>16. Seen(p) = s /\ \A x \in VisibleFields : s[x] = p[x]
  BY <1>14, <1>12, <1>15, SeenFields DEF Same, Seen
<1>17. BeginsEd(e, m, at)
  OBVIOUS
<1>18. pair_rp(e) = pair /\ Manual!ExtendedPair(Y(e.opcode)) = pair /\
         pair \in {"bc", "de", "hl", "sp"}
  BY <1>17, <1>5, EdPair
<1>19. PICK out : out = Manual!alu_sbc16(s.hl, s.f, s[pair])
  OBVIOUS
<1>20. Manual!Extended(s, m, e.opcode, at, port, ie) = Manual!WithCarry(s, m, Y(e.opcode), pair)
  BY <1>17, <1>18, <1>19, <1>1, <1>3, EdWithCarry
<1>21. Manual!Extended(s, m, e.opcode, at, port, ie)
         = Manual!Both(Manual!Flagged([s EXCEPT !.hl = out.value], out.flags), m)
  BY <1>17, <1>18, <1>19, <1>20, <1>3, WithCarryIs
<1>22. EdTable(e, m, at, port, ie) = Manual!Extended(s, m, e.opcode, at, port, ie)
  BY <1>1, <1>3, <1>13, <1>1 DEF EdTable
<1>23. Manual!Extended(s, m, e.opcode, at, port, ie)
         = Manual!Both(Manual!Flagged([s EXCEPT !.hl = out.value], out.flags),
                       m)
  BY <1>17, <1>18, <1>19, <1>20, <1>21
<1>24. OperandsOf(e, p) /\ p.opcode = e.opcode
  BY <1>12, InCore DEF Same, OperandsOf
<1>25. /\ index_pair(p) = index_pair(e) /\ pair_rp(p) = pair_rp(e)
       /\ \A w : Slot(p, w) = Slot(e, w)
  BY <1>24, OperandsAgree
<1>26. pair_rp(p) = pair
  BY <1>24, <1>25, <1>5
<1>27. p.hl = s.hl /\ p[pair] = s[pair] /\ p.f = s.f
  BY <1>1, <1>5, <1>16, SeenFields
<1>28. out = Alu!alu_sbc16(p.hl, p.f, p[pair_rp(p)])
  BY <1>17, <1>18, <1>19, <1>20, <1>21, <1>24, <1>25, <1>26, <1>27, SameArithmetic
<1>29. PICK r : r = Execute("ed_sbc_hl", p, int)
  OBVIOUS
<1>30. r = ArithmeticEffect("ed_sbc_hl", p)
  BY <1>29, Executes DEF Arithmetics
<1>31. r = WideOut(p, "hl", out)
  BY <1>30, <1>24, <1>25, <1>26, <1>27, <1>28 DEF ArithmeticEffect
<1>32. Seen(r) = Manual!Flagged([s EXCEPT !["hl"] = out.value], out.flags)
  BY <1>31, <1>16, <1>24, <1>25, <1>26, <1>27, <1>28, WideMeans
<1>33. Seen(r) = Manual!Flagged([s EXCEPT !.hl = out.value], out.flags)
  BY <1>32, <1>12
<1> QED BY <1>29, <1>33, <1>12, <1>22, <1>23, MeetsBoth

(* LD I,A. *)
LEMMA Does_ed_ld_i_a ==
  ASSUME NEW e, NEW m, NEW at, NEW ie, BeginsEd(e, m, at), e.instr = "ed_ld_i_a",
         NEW d, NEW l, After1(e, m, d, l),
         NEW p, Typed(p), Same(d, p, {"nmi_latched"}), NEW int, NEW port
  PROVE  Meets(Execute("ed_ld_i_a", p, int), l, EdTable(e, m, at, port, ie))
<1>1. /\ Typed(e) /\ Shaped(e) /\ e.opcode \in Byte /\ ByteMemory(m)
      /\ index_pair(e) \in {"hl", "ix", "iy"}
  BY CoreTypes DEF BeginsEd, index_pair
<1>2. "ed_ld_i_a" = DecodeEd(e.opcode)
  BY DEF BeginsEd
<1>3. /\ X(e.opcode) = 1
      /\ Y(e.opcode) \in 0 .. 7
      /\ Z(e.opcode) = 7
      /\ Y(e.opcode) = 0
  BY <1>1, <1>2, MapEd
<1>4. EdBytes(e.opcode) = 0
  BY <1>1, <1>3, FieldsType, OpcodeOf DEF EdBytes
<1>5. OneCycle(e, m, d, l)
  BY DEF After1
<1>6. e.instr = "ed_ld_i_a" /\ e.cycle = 0 /\ Shaped(e)
  BY <1>5, Fields DEF OneCycle, BeginsEd
<1>7. CyclesOf["ed_ld_i_a"] = EdCycles("ed_ld_i_a") /\ HooksOf["ed_ld_i_a"] = EdHooks("ed_ld_i_a")
  BY GroupCycles, GroupHooks DEF Instrs, EdInstrs
<1>8. Enters(e, "idle1", "none", "none")
  BY <1>6, <1>7 DEF Enters, EdCycles, EdHooks, Operand, Called, AtPcTo, AtPopTo, On, Idle, Read,
     Write,
       IoIn, IoOut, Idle1, Idle2, Idle4, Idle5, Idle7
<1>9. d = Put(Exit("none", e), "cycle", e.cycle + 1) /\ l = m
  BY <1>5, <1>8, Idles DEF IdleCycles
<1>10. /\ Same(e, d, {"cycle"})
       /\ l = m
  BY <1>6, <1>9, Leaves, InCore DEF Same
<1>11. /\ Same(e, p, {"cycle", "nmi_latched"})
       /\ l = m
  BY <1>10, InCore DEF Same
<1>12. PICK s : s = PastEd(e)
  OBVIOUS
<1>13. s = [Seen(e) EXCEPT !.pc = Plus(e.pc, 0)]
  BY <1>4, <1>12, SeenFields DEF PastEd, Seen
<1>14. p.pc = Plus(e.pc, 0)
  BY <1>11, <1>1, BytesAt, InCore DEF Same
<1>15. Seen(p) = s /\ \A x \in VisibleFields : s[x] = p[x]
  BY <1>13, <1>11, <1>14, SeenFields DEF Same, Seen
<1>16. EdTable(e, m, at, port, ie) = Manual!Extended(s, m, e.opcode, at, port, ie)
  BY <1>1, <1>3, <1>12, <1>1 DEF EdTable
<1>17. Manual!Extended(s, m, e.opcode, at, port, ie)
         = Manual!Both([s EXCEPT !.i = s.a],
                       m)
  BY <1>1, <1>3, EdToI DEF Put
<1>18. PICK r : r = Execute("ed_ld_i_a", p, int)
  OBVIOUS
<1>19. r = RefreshEffect("ed_ld_i_a", p, int)
  BY <1>18, Executes DEF Refreshes
<1>20. Shaped(p)
  BY CoreTypes
<1>21. r = Put(p, "i", p.a)
  BY <1>19, <1>20 DEF RefreshEffect, Put
<1>22. /\ Same(p, r, {"i"})
       /\ r["i"] = p.a
  BY <1>21, <1>20, GetPut, InCore DEF Same
<1>23. Seen(r) = [s EXCEPT !.i = p.a]
  BY <1>22, <1>15, SeenFields DEF Same, Seen
<1>24. p.a = s.a
  BY <1>11, <1>15, <1>1, SeenFields, InCore DEF Same, OperandsAt, BeginsEd
<1>25. Seen(r) = [s EXCEPT !.i = s.a]
  BY <1>23, <1>24, <1>11
<1> QED BY <1>18, <1>25, <1>24, <1>11, <1>16, <1>17, MeetsBoth

(* LD R,A. *)
LEMMA Does_ed_ld_r_a ==
  ASSUME NEW e, NEW m, NEW at, NEW ie, BeginsEd(e, m, at), e.instr = "ed_ld_r_a",
         NEW d, NEW l, After1(e, m, d, l),
         NEW p, Typed(p), Same(d, p, {"nmi_latched"}), NEW int, NEW port
  PROVE  Meets(Execute("ed_ld_r_a", p, int), l, EdTable(e, m, at, port, ie))
<1>1. /\ Typed(e) /\ Shaped(e) /\ e.opcode \in Byte /\ ByteMemory(m)
      /\ index_pair(e) \in {"hl", "ix", "iy"}
  BY CoreTypes DEF BeginsEd, index_pair
<1>2. "ed_ld_r_a" = DecodeEd(e.opcode)
  BY DEF BeginsEd
<1>3. /\ X(e.opcode) = 1
      /\ Y(e.opcode) \in 0 .. 7
      /\ Z(e.opcode) = 7
      /\ Y(e.opcode) = 1
  BY <1>1, <1>2, MapEd
<1>4. EdBytes(e.opcode) = 0
  BY <1>1, <1>3, FieldsType, OpcodeOf DEF EdBytes
<1>5. OneCycle(e, m, d, l)
  BY DEF After1
<1>6. e.instr = "ed_ld_r_a" /\ e.cycle = 0 /\ Shaped(e)
  BY <1>5, Fields DEF OneCycle, BeginsEd
<1>7. CyclesOf["ed_ld_r_a"] = EdCycles("ed_ld_r_a") /\ HooksOf["ed_ld_r_a"] = EdHooks("ed_ld_r_a")
  BY GroupCycles, GroupHooks DEF Instrs, EdInstrs
<1>8. Enters(e, "idle1", "none", "none")
  BY <1>6, <1>7 DEF Enters, EdCycles, EdHooks, Operand, Called, AtPcTo, AtPopTo, On, Idle, Read,
     Write,
       IoIn, IoOut, Idle1, Idle2, Idle4, Idle5, Idle7
<1>9. d = Put(Exit("none", e), "cycle", e.cycle + 1) /\ l = m
  BY <1>5, <1>8, Idles DEF IdleCycles
<1>10. /\ Same(e, d, {"cycle"})
       /\ l = m
  BY <1>6, <1>9, Leaves, InCore DEF Same
<1>11. /\ Same(e, p, {"cycle", "nmi_latched"})
       /\ l = m
  BY <1>10, InCore DEF Same
<1>12. PICK s : s = PastEd(e)
  OBVIOUS
<1>13. s = [Seen(e) EXCEPT !.pc = Plus(e.pc, 0)]
  BY <1>4, <1>12, SeenFields DEF PastEd, Seen
<1>14. p.pc = Plus(e.pc, 0)
  BY <1>11, <1>1, BytesAt, InCore DEF Same
<1>15. Seen(p) = s /\ \A x \in VisibleFields : s[x] = p[x]
  BY <1>13, <1>11, <1>14, SeenFields DEF Same, Seen
<1>16. EdTable(e, m, at, port, ie) = Manual!Extended(s, m, e.opcode, at, port, ie)
  BY <1>1, <1>3, <1>12, <1>1 DEF EdTable
<1>17. Manual!Extended(s, m, e.opcode, at, port, ie)
         = Manual!Both([s EXCEPT !.r = s.a],
                       m)
  BY <1>1, <1>3, EdToR DEF Put
<1>18. PICK r : r = Execute("ed_ld_r_a", p, int)
  OBVIOUS
<1>19. r = RefreshEffect("ed_ld_r_a", p, int)
  BY <1>18, Executes DEF Refreshes
<1>20. Shaped(p)
  BY CoreTypes
<1>21. r = Put(p, "r", p.a)
  BY <1>19, <1>20 DEF RefreshEffect, Put
<1>22. /\ Same(p, r, {"r"})
       /\ r["r"] = p.a
  BY <1>21, <1>20, GetPut, InCore DEF Same
<1>23. Seen(r) = [s EXCEPT !.r = p.a]
  BY <1>22, <1>15, SeenFields DEF Same, Seen
<1>24. p.a = s.a
  BY <1>11, <1>15, <1>1, SeenFields, InCore DEF Same, OperandsAt, BeginsEd
<1>25. Seen(r) = [s EXCEPT !.r = s.a]
  BY <1>23, <1>24, <1>11
<1> QED BY <1>18, <1>25, <1>24, <1>11, <1>16, <1>17, MeetsBoth

(* LD A,I. *)
LEMMA Does_ed_ld_a_i ==
  ASSUME NEW e, NEW m, NEW at, NEW ie, BeginsEd(e, m, at), e.instr = "ed_ld_a_i",
         NEW d, NEW l, After1(e, m, d, l),
         NEW p, Typed(p), Same(d, p, {"nmi_latched"}), NEW int, NEW port,
         LoadsEnable(p, int, ie)
  PROVE  Meets(Execute("ed_ld_a_i", p, int), l, EdTable(e, m, at, port, ie))
<1>1. /\ Typed(e) /\ Shaped(e) /\ e.opcode \in Byte /\ ByteMemory(m)
      /\ index_pair(e) \in {"hl", "ix", "iy"}
  BY CoreTypes DEF BeginsEd, index_pair
<1>2. "ed_ld_a_i" = DecodeEd(e.opcode)
  BY DEF BeginsEd
<1>3. /\ X(e.opcode) = 1
      /\ Y(e.opcode) \in 0 .. 7
      /\ Z(e.opcode) = 7
      /\ Y(e.opcode) = 2
  BY <1>1, <1>2, MapEd
<1>4. EdBytes(e.opcode) = 0
  BY <1>1, <1>3, FieldsType, OpcodeOf DEF EdBytes
<1>5. OneCycle(e, m, d, l)
  BY DEF After1
<1>6. e.instr = "ed_ld_a_i" /\ e.cycle = 0 /\ Shaped(e)
  BY <1>5, Fields DEF OneCycle, BeginsEd
<1>7. CyclesOf["ed_ld_a_i"] = EdCycles("ed_ld_a_i") /\ HooksOf["ed_ld_a_i"] = EdHooks("ed_ld_a_i")
  BY GroupCycles, GroupHooks DEF Instrs, EdInstrs
<1>8. Enters(e, "idle1", "none", "none")
  BY <1>6, <1>7 DEF Enters, EdCycles, EdHooks, Operand, Called, AtPcTo, AtPopTo, On, Idle, Read,
     Write,
       IoIn, IoOut, Idle1, Idle2, Idle4, Idle5, Idle7
<1>9. d = Put(Exit("none", e), "cycle", e.cycle + 1) /\ l = m
  BY <1>5, <1>8, Idles DEF IdleCycles
<1>10. /\ Same(e, d, {"cycle"})
       /\ l = m
  BY <1>6, <1>9, Leaves, InCore DEF Same
<1>11. /\ Same(e, p, {"cycle", "nmi_latched"})
       /\ l = m
  BY <1>10, InCore DEF Same
<1>12. PICK s : s = PastEd(e)
  OBVIOUS
<1>13. s = [Seen(e) EXCEPT !.pc = Plus(e.pc, 0)]
  BY <1>4, <1>12, SeenFields DEF PastEd, Seen
<1>14. p.pc = Plus(e.pc, 0)
  BY <1>11, <1>1, BytesAt, InCore DEF Same
<1>15. Seen(p) = s /\ \A x \in VisibleFields : s[x] = p[x]
  BY <1>13, <1>11, <1>14, SeenFields DEF Same, Seen
<1>16. Manual!Extended(s, m, e.opcode, at, port, ie) = Manual!LoadsA(s, m, s.i, ie)
  BY <1>1, <1>3, EdFromI
<1>17. EdTable(e, m, at, port, ie) = Manual!Extended(s, m, e.opcode, at, port, ie)
  BY <1>1, <1>3, <1>12, <1>1 DEF EdTable
<1>18. Manual!Extended(s, m, e.opcode, at, port, ie)
         = Manual!Both([s EXCEPT !.a = s.i, !.f = Manual!load_a_flags(s.f, s.i, ie)],
                       m)
  BY <1>16 DEF Manual!LoadsA
<1>19. PICK flags : flags = Alu!load_a_flags(p.f, p.i, ie)
  OBVIOUS
<1>20. Shaped(p)
  BY CoreTypes
<1>21. Seen(load_a_from_control_register(p, p.i, int)) = Put(Put(Seen(p), "a", p.i), "f", flags)
  BY <1>19, <1>20, LoadsAMeans
<1>22. s.i = p.i /\ s.f = p.f
  BY <1>15, SeenFields
<1>23. flags = Manual!load_a_flags(s.f, s.i, ie)
  BY <1>19, <1>20, <1>21, <1>22, SameArithmetic
<1>24. Seen(load_a_from_control_register(p, p.i, int)) = [s EXCEPT !.a = p.i, !.f = flags]
  BY <1>19, <1>20, <1>21, <1>22, <1>23, <1>15 DEF Put
<1>25. PICK r : r = Execute("ed_ld_a_i", p, int)
  OBVIOUS
<1>26. r = RefreshEffect("ed_ld_a_i", p, int)
  BY <1>25, Executes DEF Refreshes
<1>27. r = load_a_from_control_register(p, p.i, int)
  BY <1>26, <1>19, <1>20, <1>21, <1>22, <1>23, <1>24 DEF RefreshEffect
<1>28. Seen(r) = [s EXCEPT !.a = p.i, !.f = flags]
  BY <1>27, <1>15, <1>19, <1>20, <1>21, <1>22, <1>23, <1>24, <1>24
<1>29. /\ p.i = s.i
       /\ flags = Manual!load_a_flags(s.f, s.i, ie)
  BY <1>19, <1>20, <1>21, <1>22, <1>23, <1>24, <1>11, <1>15, <1>1, SeenFields, InCore DEF Same,
     OperandsAt, BeginsEd
<1>30. Seen(r) = [s EXCEPT !.a = s.i, !.f = Manual!load_a_flags(s.f, s.i, ie)]
  BY <1>28, <1>29, <1>11
<1> QED BY <1>25, <1>30, <1>29, <1>11, <1>17, <1>18, MeetsBoth

(* LD A,R. *)
LEMMA Does_ed_ld_a_r ==
  ASSUME NEW e, NEW m, NEW at, NEW ie, BeginsEd(e, m, at), e.instr = "ed_ld_a_r",
         NEW d, NEW l, After1(e, m, d, l),
         NEW p, Typed(p), Same(d, p, {"nmi_latched"}), NEW int, NEW port,
         LoadsEnable(p, int, ie)
  PROVE  Meets(Execute("ed_ld_a_r", p, int), l, EdTable(e, m, at, port, ie))
<1>1. /\ Typed(e) /\ Shaped(e) /\ e.opcode \in Byte /\ ByteMemory(m)
      /\ index_pair(e) \in {"hl", "ix", "iy"}
  BY CoreTypes DEF BeginsEd, index_pair
<1>2. "ed_ld_a_r" = DecodeEd(e.opcode)
  BY DEF BeginsEd
<1>3. /\ X(e.opcode) = 1
      /\ Y(e.opcode) \in 0 .. 7
      /\ Z(e.opcode) = 7
      /\ Y(e.opcode) = 3
  BY <1>1, <1>2, MapEd
<1>4. EdBytes(e.opcode) = 0
  BY <1>1, <1>3, FieldsType, OpcodeOf DEF EdBytes
<1>5. OneCycle(e, m, d, l)
  BY DEF After1
<1>6. e.instr = "ed_ld_a_r" /\ e.cycle = 0 /\ Shaped(e)
  BY <1>5, Fields DEF OneCycle, BeginsEd
<1>7. CyclesOf["ed_ld_a_r"] = EdCycles("ed_ld_a_r") /\ HooksOf["ed_ld_a_r"] = EdHooks("ed_ld_a_r")
  BY GroupCycles, GroupHooks DEF Instrs, EdInstrs
<1>8. Enters(e, "idle1", "none", "none")
  BY <1>6, <1>7 DEF Enters, EdCycles, EdHooks, Operand, Called, AtPcTo, AtPopTo, On, Idle, Read,
     Write,
       IoIn, IoOut, Idle1, Idle2, Idle4, Idle5, Idle7
<1>9. d = Put(Exit("none", e), "cycle", e.cycle + 1) /\ l = m
  BY <1>5, <1>8, Idles DEF IdleCycles
<1>10. /\ Same(e, d, {"cycle"})
       /\ l = m
  BY <1>6, <1>9, Leaves, InCore DEF Same
<1>11. /\ Same(e, p, {"cycle", "nmi_latched"})
       /\ l = m
  BY <1>10, InCore DEF Same
<1>12. PICK s : s = PastEd(e)
  OBVIOUS
<1>13. s = [Seen(e) EXCEPT !.pc = Plus(e.pc, 0)]
  BY <1>4, <1>12, SeenFields DEF PastEd, Seen
<1>14. p.pc = Plus(e.pc, 0)
  BY <1>11, <1>1, BytesAt, InCore DEF Same
<1>15. Seen(p) = s /\ \A x \in VisibleFields : s[x] = p[x]
  BY <1>13, <1>11, <1>14, SeenFields DEF Same, Seen
<1>16. Manual!Extended(s, m, e.opcode, at, port, ie) = Manual!LoadsA(s, m, s.r, ie)
  BY <1>1, <1>3, EdFromR
<1>17. EdTable(e, m, at, port, ie) = Manual!Extended(s, m, e.opcode, at, port, ie)
  BY <1>1, <1>3, <1>12, <1>1 DEF EdTable
<1>18. Manual!Extended(s, m, e.opcode, at, port, ie)
         = Manual!Both([s EXCEPT !.a = s.r, !.f = Manual!load_a_flags(s.f, s.r, ie)],
                       m)
  BY <1>16 DEF Manual!LoadsA
<1>19. PICK flags : flags = Alu!load_a_flags(p.f, p.r, ie)
  OBVIOUS
<1>20. Shaped(p)
  BY CoreTypes
<1>21. Seen(load_a_from_control_register(p, p.r, int)) = Put(Put(Seen(p), "a", p.r), "f", flags)
  BY <1>19, <1>20, LoadsAMeans
<1>22. s.r = p.r /\ s.f = p.f
  BY <1>15, SeenFields
<1>23. flags = Manual!load_a_flags(s.f, s.r, ie)
  BY <1>19, <1>20, <1>21, <1>22, SameArithmetic
<1>24. Seen(load_a_from_control_register(p, p.r, int)) = [s EXCEPT !.a = p.r, !.f = flags]
  BY <1>19, <1>20, <1>21, <1>22, <1>23, <1>15 DEF Put
<1>25. PICK r : r = Execute("ed_ld_a_r", p, int)
  OBVIOUS
<1>26. r = RefreshEffect("ed_ld_a_r", p, int)
  BY <1>25, Executes DEF Refreshes
<1>27. r = load_a_from_control_register(p, p.r, int)
  BY <1>26, <1>19, <1>20, <1>21, <1>22, <1>23, <1>24 DEF RefreshEffect
<1>28. Seen(r) = [s EXCEPT !.a = p.r, !.f = flags]
  BY <1>27, <1>15, <1>19, <1>20, <1>21, <1>22, <1>23, <1>24, <1>24
<1>29. /\ p.r = s.r
       /\ flags = Manual!load_a_flags(s.f, s.r, ie)
  BY <1>19, <1>20, <1>21, <1>22, <1>23, <1>24, <1>11, <1>15, <1>1, SeenFields, InCore DEF Same,
     OperandsAt, BeginsEd
<1>30. Seen(r) = [s EXCEPT !.a = s.r, !.f = Manual!load_a_flags(s.f, s.r, ie)]
  BY <1>28, <1>29, <1>11
<1> QED BY <1>25, <1>30, <1>29, <1>11, <1>17, <1>18, MeetsBoth

(* LD rp,(nn). *)
LEMMA Does_ed_ld_rp_nn ==
  ASSUME NEW e, NEW m, NEW at, NEW ie, BeginsEd(e, m, at), e.instr = "ed_ld_rp_nn",
         NEW d, NEW l, After4(e, m, d, l),
         NEW p, Typed(p), Same(d, p, {"nmi_latched"}), NEW int, NEW port
  PROVE  Meets(Execute("ed_ld_rp_nn", p, int), l, EdTable(e, m, at, port, ie))
<1>1. /\ Typed(e) /\ Shaped(e) /\ e.opcode \in Byte /\ ByteMemory(m)
      /\ index_pair(e) \in {"hl", "ix", "iy"}
  BY CoreTypes DEF BeginsEd, index_pair
<1>2. "ed_ld_rp_nn" = DecodeEd(e.opcode)
  BY DEF BeginsEd
<1>3. /\ X(e.opcode) = 1
      /\ Y(e.opcode) \in 0 .. 7
      /\ Z(e.opcode) = 3
      /\ Y(e.opcode) % 2 = 1
  BY <1>1, <1>2, MapEd
<1>4. EdBytes(e.opcode) = 2
  BY <1>1, <1>3, FieldsType, OpcodeOf DEF EdBytes
<1>5. PICK pair : pair = pair_rp(e) /\ pair \in {"bc", "de", "hl", "ix", "iy", "sp"}
  BY <1>1, PairNamed
<1>6. PICK d1, m1, d2, m2, d3, m3 :
      /\ OneCycle(e, m, d1, m1)
      /\ OneCycle(d1, m1, d2, m2)
      /\ OneCycle(d2, m2, d3, m3)
      /\ OneCycle(d3, m3, d, l)
  BY DEF After1, After2, After3, After4
<1>7. /\ e.instr = "ed_ld_rp_nn" /\ e.cycle = 0 /\ Shaped(e)
      /\ d1.instr = "ed_ld_rp_nn" /\ d1.cycle = 1 /\ Shaped(d1)
      /\ d2.instr = "ed_ld_rp_nn" /\ d2.cycle = 2 /\ Shaped(d2)
      /\ d3.instr = "ed_ld_rp_nn" /\ d3.cycle = 3 /\ Shaped(d3)
  BY <1>6, Fields DEF OneCycle, BeginsEd
<1>8. CyclesOf["ed_ld_rp_nn"] = EdCycles("ed_ld_rp_nn") /\
        HooksOf["ed_ld_rp_nn"] = EdHooks("ed_ld_rp_nn")
  BY GroupCycles, GroupHooks DEF Instrs, EdInstrs
<1>9. /\ Enters(e, "mem_read", "at_pc", "to_tmp_low")
      /\ Enters(d1, "mem_read", "at_pc", "to_tmp_high")
      /\ Enters(d2, "mem_read", "at_tmp", "to_rp_low")
      /\ Enters(d3, "mem_read", "at_tmp_high", "none")
  BY <1>7, <1>8 DEF Enters, EdCycles, EdHooks, Operand, Called, AtPcTo, AtPopTo, On, Idle, Read,
     Write,
       IoIn, IoOut, Idle1, Idle2, Idle4, Idle5, Idle7
<1>10. PICK f1 :
       /\ Same(e, f1, {"bus_addr", "bus_data", "pc"})
       /\ f1.bus_addr = e.pc
       /\ f1.bus_data = Manual!Peek(m, e.pc)
       /\ f1.bus_data \in Byte
       /\ m1 = m
       /\ f1.pc = Plus(e.pc, 1)
       /\ d1 = Put(Exit("to_tmp_low", f1), "cycle", e.cycle + 1)
  BY <1>6, <1>9, AtPcReads
<1>11. /\ Same(e, d1, {"bus_addr", "bus_data", "pc", "tmp", "cycle"})
       /\ d1.bus_addr = e.pc
       /\ d1.bus_data = Manual!Peek(m, e.pc)
       /\ d1.pc = Plus(e.pc, 1)
       /\ d1.tmp = WithLow(e.tmp, Manual!Peek(m, e.pc))
       /\ m1 = m
  BY <1>5, <1>7, <1>10, Leaves, InCore DEF Same
<1>12. PICK f2 :
       /\ Same(d1, f2, {"bus_addr", "bus_data", "pc"})
       /\ f2.bus_addr = d1.pc
       /\ f2.bus_data = Manual!Peek(m1, d1.pc)
       /\ f2.bus_data \in Byte
       /\ m2 = m1
       /\ f2.pc = Plus(d1.pc, 1)
       /\ d2 = Put(Exit("to_tmp_high", f2), "cycle", d1.cycle + 1)
  BY <1>6, <1>9, AtPcReads
<1>13. /\ Same(e, d2, {"bus_addr", "bus_data", "pc", "tmp", "cycle"})
       /\ d2.bus_addr = d1.pc
       /\ d2.bus_data = Manual!Peek(m1, d1.pc)
       /\ d2.pc = Plus(d1.pc, 1)
       /\ d2.tmp = WithHigh(d1.tmp, Manual!Peek(m1, d1.pc))
       /\ m2 = m1
  BY <1>11, <1>5, <1>7, <1>12, Leaves, InCore DEF Same
<1>14. /\ Same(e, d2, {"bus_addr", "bus_data", "pc", "tmp", "cycle"})
       /\ d2.bus_addr = Plus(e.pc, 1)
       /\ d2.bus_data = Manual!Peek(m, e.pc + 1)
       /\ d2.pc = Plus(e.pc, 2)
       /\ d2.tmp = Manual!PeekWord(m, e.pc)
       /\ m2 = m
  BY <1>11, <1>13, <1>1, BytesAt, <1>5
<1>15. PICK f3 :
       /\ Same(d2, f3, {"bus_addr", "bus_data"})
       /\ f3.bus_addr = d2.tmp
       /\ f3.bus_data = Manual!Peek(m2, d2.tmp)
       /\ f3.bus_data \in Byte
       /\ m3 = m2
       /\ d3 = Put(Exit("to_rp_low", f3), "cycle", d2.cycle + 1)
  BY <1>6, <1>9, AtTmpReads
<1>16. pair_rp(f3) = pair
  BY <1>5, <1>15, <1>14, InCore DEF Same, index_pair, pair_rp, PairField
<1>17. /\ Same(e, d3, {"bus_addr", "bus_data", "pc", "tmp", "cycle", pair})
       /\ d3.bus_addr = d2.tmp
       /\ d3.bus_data = Manual!Peek(m2, d2.tmp)
       /\ d3[pair] = WithLow(d2[pair], Manual!Peek(m2, d2.tmp))
       /\ d3.pc = d2.pc
       /\ d3.tmp = d2.tmp
       /\ m3 = m2
  BY <1>14, <1>5, <1>7, <1>15, LeavesPair, <1>16, <1>5, InCore DEF Same
<1>18. d2[pair] = e[pair]
  BY <1>14, <1>5, InCore DEF Same
<1>19. /\ Same(e, d3, {"bus_addr", "bus_data", "pc", "tmp", "cycle", pair})
       /\ d3.pc = Plus(e.pc, 2)
       /\ d3.tmp = Manual!PeekWord(m, e.pc)
       /\ d3.bus_addr = Manual!PeekWord(m, e.pc)
       /\ d3.bus_data = Manual!Peek(m, Manual!PeekWord(m, e.pc))
       /\ d3[pair] = WithLow(e[pair], Manual!Peek(m, Manual!PeekWord(m, e.pc)))
       /\ m3 = m
  BY <1>14, <1>17, <1>18, <1>1, BytesAt, <1>5
<1>20. PICK f4 :
       /\ Same(d3, f4, {"bus_addr", "bus_data"})
       /\ f4.bus_addr = Plus(d3.tmp, 1)
       /\ f4.bus_data = Manual!Peek(m3, Plus(d3.tmp, 1))
       /\ f4.bus_data \in Byte
       /\ l = m3
       /\ d = Put(Exit("none", f4), "cycle", d3.cycle + 1)
  BY <1>6, <1>9, AtTmpHighReads
<1>21. /\ Same(e, d, {"bus_addr", "bus_data", "pc", "tmp", "cycle", pair})
       /\ d.bus_addr = Plus(d3.tmp, 1)
       /\ d.bus_data = Manual!Peek(m3, Plus(d3.tmp, 1))
       /\ d.pc = d3.pc
       /\ d.tmp = d3.tmp
       /\ d[pair] = d3[pair]
       /\ l = m3
  BY <1>19, <1>5, <1>7, <1>20, Leaves, InCore DEF Same
<1>22. /\ Same(e, d, {"bus_addr", "bus_data", "pc", "tmp", "cycle", pair})
       /\ d.pc = Plus(e.pc, 2)
       /\ d.tmp = Manual!PeekWord(m, e.pc)
       /\ d[pair] = WithLow(e[pair], Manual!Peek(m, Manual!PeekWord(m, e.pc)))
       /\ d.bus_addr = Plus(Manual!PeekWord(m, e.pc), 1)
       /\ d.bus_data = Manual!Peek(m, Plus(Manual!PeekWord(m, e.pc), 1))
       /\ l = m
  BY <1>19, <1>21, <1>1, BytesAt, <1>5
<1>23. /\ Same(e, p, {"bus_addr", "bus_data", "pc", "tmp", "cycle", pair, "nmi_latched"})
       /\ p.pc = Plus(e.pc, 2)
       /\ p.tmp = Manual!PeekWord(m, e.pc)
       /\ p[pair] = WithLow(e[pair], Manual!Peek(m, Manual!PeekWord(m, e.pc)))
       /\ p.bus_addr = Plus(Manual!PeekWord(m, e.pc), 1)
       /\ p.bus_data = Manual!Peek(m, Plus(Manual!PeekWord(m, e.pc), 1))
       /\ l = m
  BY <1>22, <1>5, InCore DEF Same
<1>24. PICK s : s = PastEd(e)
  OBVIOUS
<1>25. s = [Seen(e) EXCEPT !.pc = Plus(e.pc, 2)]
  BY <1>4, <1>24, SeenFields DEF PastEd, Seen
<1>26. p.pc = Plus(e.pc, 2)
  BY <1>23, <1>1, BytesAt, InCore DEF Same
<1>27. /\ Seen(p) = [s EXCEPT ![pair] = p[pair]]
       /\ \A x \in VisibleFields \ {pair} : s[x] = p[x]
       /\ s[pair] = e[pair]
  BY <1>25, <1>23, <1>26, <1>5, SeenFields DEF Same, Seen
<1>28. BeginsEd(e, m, at)
  OBVIOUS
<1>29. pair_rp(e) = pair /\ Manual!ExtendedPair(Y(e.opcode)) = pair /\
         pair \in {"bc", "de", "hl", "sp"}
  BY <1>28, <1>5, EdPair
<1>30. Manual!Extended(s, m, e.opcode, at, port, ie)
         = Manual!MovesPair(s, m, Y(e.opcode), pair, Manual!PeekWord(m, at))
  BY <1>28, <1>29, <1>1, <1>3, EdMoves
<1>31. Manual!Extended(s, m, e.opcode, at, port, ie)
         = Manual!Both(Put(s, pair, Manual!PeekWord(m, Manual!PeekWord(m, at))), m)
  BY <1>28, <1>29, <1>30, <1>3, MovesPairIs
<1>32. EdTable(e, m, at, port, ie) = Manual!Extended(s, m, e.opcode, at, port, ie)
  BY <1>1, <1>3, <1>24, <1>1 DEF EdTable
<1>33. Manual!Extended(s, m, e.opcode, at, port, ie)
         = Manual!Both([s EXCEPT ![pair] = Manual!PeekWord(m, Manual!PeekWord(m, at))],
                       m)
  BY <1>28, <1>29, <1>30, <1>31 DEF Put
<1>34. pair_rp(p) = pair
  BY <1>23, <1>5, InCore DEF Same, index_pair, pair_rp, PairField
<1>35. Put(p, "wz", Plus(p.tmp, 1))[pair] = p[pair]
  BY <1>5, CoreTypes, GetPut, InCore
<1>36. MemptrAfterTmp(p) = Put(p, "wz", Plus(p.tmp, 1))
  BY DEF MemptrAfterTmp, Put
<1>37. \A v, w : Seen(Put(Put(p, "wz", w), pair, v)) = [Seen(p) EXCEPT ![pair] = v]
  BY <1>5, PutBehind
<1>38. PICK r : r = Execute("ed_ld_rp_nn", p, int)
  OBVIOUS
<1>39. r = LoadEffect("ed_ld_rp_nn", p)
  BY <1>38, Executes DEF Loads
<1>40. r = Put(Put(p, "wz", Plus(p.tmp, 1)), pair, WithHigh(p[pair], p.bus_data))
  BY <1>39, <1>34, <1>35, <1>36, <1>37 DEF LoadEffect, Put
<1>41. Seen(r) = [Seen(p) EXCEPT ![pair] = WithHigh(p[pair], p.bus_data)]
  BY <1>40, <1>27, <1>34, <1>35, <1>36, <1>37, <1>37
<1>42. \A w \in Word : WithHigh(WithLow(e[pair], Manual!Peek(m, w)), Manual!Peek(m, Plus(w, 1)))
                        = Manual!PeekWord(m, w)
  BY <1>1, <1>5, CoreTypes, Places, WordsRead
<1>43. WithHigh(p[pair], p.bus_data) = Manual!PeekWord(m, Manual!PeekWord(m, at))
  BY <1>42, <1>23, <1>27, <1>1, SeenFields, InCore, <1>5, BytesAt DEF Same, OperandsAt, BeginsEd
<1>44. Seen(r) = [s EXCEPT ![pair] = Manual!PeekWord(m, Manual!PeekWord(m, at))]
  BY <1>41, <1>43, <1>23, <1>27, <1>23
<1> QED BY <1>38, <1>44, <1>43, <1>23, <1>27, <1>23, <1>32, <1>33, MeetsBoth

(* LD (nn),rp. *)
LEMMA Does_ed_ld_nn_rp ==
  ASSUME NEW e, NEW m, NEW at, NEW ie, BeginsEd(e, m, at), e.instr = "ed_ld_nn_rp",
         NEW d, NEW l, After4(e, m, d, l),
         NEW p, Typed(p), Same(d, p, {"nmi_latched"}), NEW int, NEW port
  PROVE  Meets(Execute("ed_ld_nn_rp", p, int), l, EdTable(e, m, at, port, ie))
<1>1. /\ Typed(e) /\ Shaped(e) /\ e.opcode \in Byte /\ ByteMemory(m)
      /\ index_pair(e) \in {"hl", "ix", "iy"}
  BY CoreTypes DEF BeginsEd, index_pair
<1>2. "ed_ld_nn_rp" = DecodeEd(e.opcode)
  BY DEF BeginsEd
<1>3. /\ X(e.opcode) = 1
      /\ Y(e.opcode) \in 0 .. 7
      /\ Z(e.opcode) = 3
      /\ Y(e.opcode) % 2 = 0
  BY <1>1, <1>2, MapEd
<1>4. EdBytes(e.opcode) = 2
  BY <1>1, <1>3, FieldsType, OpcodeOf DEF EdBytes
<1>5. PICK pair : pair = pair_rp(e) /\ pair \in {"bc", "de", "hl", "ix", "iy", "sp"}
  BY <1>1, PairNamed
<1>6. PICK d1, m1, d2, m2, d3, m3 :
      /\ OneCycle(e, m, d1, m1)
      /\ OneCycle(d1, m1, d2, m2)
      /\ OneCycle(d2, m2, d3, m3)
      /\ OneCycle(d3, m3, d, l)
  BY DEF After1, After2, After3, After4
<1>7. /\ e.instr = "ed_ld_nn_rp" /\ e.cycle = 0 /\ Shaped(e)
      /\ d1.instr = "ed_ld_nn_rp" /\ d1.cycle = 1 /\ Shaped(d1)
      /\ d2.instr = "ed_ld_nn_rp" /\ d2.cycle = 2 /\ Shaped(d2)
      /\ d3.instr = "ed_ld_nn_rp" /\ d3.cycle = 3 /\ Shaped(d3)
  BY <1>6, Fields DEF OneCycle, BeginsEd
<1>8. CyclesOf["ed_ld_nn_rp"] = EdCycles("ed_ld_nn_rp") /\
        HooksOf["ed_ld_nn_rp"] = EdHooks("ed_ld_nn_rp")
  BY GroupCycles, GroupHooks DEF Instrs, EdInstrs
<1>9. /\ Enters(e, "mem_read", "at_pc", "to_tmp_low")
      /\ Enters(d1, "mem_read", "at_pc", "to_tmp_high")
      /\ Enters(d2, "mem_write", "rp_low", "none")
      /\ Enters(d3, "mem_write", "rp_high", "none")
  BY <1>7, <1>8 DEF Enters, EdCycles, EdHooks, Operand, Called, AtPcTo, AtPopTo, On, Idle, Read,
     Write,
       IoIn, IoOut, Idle1, Idle2, Idle4, Idle5, Idle7
<1>10. PICK f1 :
       /\ Same(e, f1, {"bus_addr", "bus_data", "pc"})
       /\ f1.bus_addr = e.pc
       /\ f1.bus_data = Manual!Peek(m, e.pc)
       /\ f1.bus_data \in Byte
       /\ m1 = m
       /\ f1.pc = Plus(e.pc, 1)
       /\ d1 = Put(Exit("to_tmp_low", f1), "cycle", e.cycle + 1)
  BY <1>6, <1>9, AtPcReads
<1>11. /\ Same(e, d1, {"bus_addr", "bus_data", "pc", "tmp", "cycle"})
       /\ d1.bus_addr = e.pc
       /\ d1.bus_data = Manual!Peek(m, e.pc)
       /\ d1.pc = Plus(e.pc, 1)
       /\ d1.tmp = WithLow(e.tmp, Manual!Peek(m, e.pc))
       /\ m1 = m
  BY <1>5, <1>7, <1>10, Leaves, InCore DEF Same
<1>12. PICK f2 :
       /\ Same(d1, f2, {"bus_addr", "bus_data", "pc"})
       /\ f2.bus_addr = d1.pc
       /\ f2.bus_data = Manual!Peek(m1, d1.pc)
       /\ f2.bus_data \in Byte
       /\ m2 = m1
       /\ f2.pc = Plus(d1.pc, 1)
       /\ d2 = Put(Exit("to_tmp_high", f2), "cycle", d1.cycle + 1)
  BY <1>6, <1>9, AtPcReads
<1>13. /\ Same(e, d2, {"bus_addr", "bus_data", "pc", "tmp", "cycle"})
       /\ d2.bus_addr = d1.pc
       /\ d2.bus_data = Manual!Peek(m1, d1.pc)
       /\ d2.pc = Plus(d1.pc, 1)
       /\ d2.tmp = WithHigh(d1.tmp, Manual!Peek(m1, d1.pc))
       /\ m2 = m1
  BY <1>11, <1>5, <1>7, <1>12, Leaves, InCore DEF Same
<1>14. /\ Same(e, d2, {"bus_addr", "bus_data", "pc", "tmp", "cycle"})
       /\ d2.bus_addr = Plus(e.pc, 1)
       /\ d2.bus_data = Manual!Peek(m, e.pc + 1)
       /\ d2.pc = Plus(e.pc, 2)
       /\ d2.tmp = Manual!PeekWord(m, e.pc)
       /\ m2 = m
  BY <1>11, <1>13, <1>1, BytesAt, <1>5
<1>15. OperandsOf(e, d2) /\ d2.sp = e.sp
  BY <1>14, InCore DEF Same, OperandsOf
<1>16. Low(d2[pair_rp(d2)]) = Low(e[pair_rp(e)])
  BY <1>15, <1>1, OperandsAgree, PairsAgree
<1>17. Enter("rp_low", d2) = Puts(d2, d2.tmp, Low(e[pair_rp(e)]))
  BY <1>7, <1>16, EnterWrites
<1>18. PICK f3 :
       /\ Same(d2, f3, {"bus_addr", "bus_data"})
       /\ f3.bus_addr = d2.tmp
       /\ f3.bus_data = Low(e[pair_rp(e)])
       /\ d3 = Put(Exit("none", f3), "cycle", d2.cycle + 1)
       /\ m3 = Manual!Poke(m2, d2.tmp, Low(e[pair_rp(e)]))
  BY <1>6, <1>9, <1>17, Writes
<1>19. /\ Same(e, d3, {"bus_addr", "bus_data", "pc", "tmp", "cycle"})
       /\ d3.bus_addr = d2.tmp
       /\ d3.bus_data = Low(e[pair_rp(e)])
       /\ d3.pc = d2.pc
       /\ d3.tmp = d2.tmp
       /\ m3 = Manual!Poke(m2, d2.tmp, Low(e[pair_rp(e)]))
  BY <1>14, <1>5, <1>7, <1>18, Leaves, InCore DEF Same
<1>20. /\ Same(e, d3, {"bus_addr", "bus_data", "pc", "tmp", "cycle"})
       /\ d3.pc = Plus(e.pc, 2)
       /\ d3.tmp = Manual!PeekWord(m, e.pc)
       /\ d3.bus_addr = Manual!PeekWord(m, e.pc)
       /\ d3.bus_data = Low(e[pair_rp(e)])
       /\ m3 = Manual!Poke(m, Manual!PeekWord(m, e.pc), Low(e[pair_rp(e)]))
  BY <1>14, <1>19, <1>1, BytesAt, <1>5
<1>21. OperandsOf(e, d3) /\ d3.sp = e.sp
  BY <1>20, InCore DEF Same, OperandsOf
<1>22. High(d3[pair_rp(d3)]) = High(e[pair_rp(e)])
  BY <1>21, <1>1, OperandsAgree, PairsAgree
<1>23. Enter("rp_high", d3) = Puts(d3, Plus(d3.tmp, 1), High(e[pair_rp(e)]))
  BY <1>7, <1>22, EnterWrites
<1>24. PICK f4 :
       /\ Same(d3, f4, {"bus_addr", "bus_data"})
       /\ f4.bus_addr = Plus(d3.tmp, 1)
       /\ f4.bus_data = High(e[pair_rp(e)])
       /\ d = Put(Exit("none", f4), "cycle", d3.cycle + 1)
       /\ l = Manual!Poke(m3, Plus(d3.tmp, 1), High(e[pair_rp(e)]))
  BY <1>6, <1>9, <1>23, Writes
<1>25. /\ Same(e, d, {"bus_addr", "bus_data", "pc", "tmp", "cycle"})
       /\ d.bus_addr = Plus(d3.tmp, 1)
       /\ d.bus_data = High(e[pair_rp(e)])
       /\ d.pc = d3.pc
       /\ d.tmp = d3.tmp
       /\ l = Manual!Poke(m3, Plus(d3.tmp, 1), High(e[pair_rp(e)]))
  BY <1>20, <1>5, <1>7, <1>24, Leaves, InCore DEF Same
<1>26. /\ Same(e, d, {"bus_addr", "bus_data", "pc", "tmp", "cycle"})
       /\ d.pc = Plus(e.pc, 2)
       /\ d.tmp = Manual!PeekWord(m, e.pc)
       /\ d.bus_addr = Plus(Manual!PeekWord(m, e.pc), 1)
       /\ d.bus_data = High(e[pair_rp(e)])
       /\ l = Manual!Poke(Manual!Poke(m, Manual!PeekWord(m, e.pc), Low(e[pair_rp(e)])),
            Plus(Manual!PeekWord(m, e.pc), 1), High(e[pair_rp(e)]))
  BY <1>20, <1>25, <1>1, BytesAt, <1>5
<1>27. /\ Same(e, p, {"bus_addr", "bus_data", "pc", "tmp", "cycle", "nmi_latched"})
       /\ p.pc = Plus(e.pc, 2)
       /\ p.tmp = Manual!PeekWord(m, e.pc)
       /\ p.bus_addr = Plus(Manual!PeekWord(m, e.pc), 1)
       /\ p.bus_data = High(e[pair_rp(e)])
       /\ l = Manual!Poke(Manual!Poke(m, Manual!PeekWord(m, e.pc), Low(e[pair_rp(e)])),
            Plus(Manual!PeekWord(m, e.pc), 1), High(e[pair_rp(e)]))
  BY <1>26, <1>5, InCore DEF Same
<1>28. PICK s : s = PastEd(e)
  OBVIOUS
<1>29. s = [Seen(e) EXCEPT !.pc = Plus(e.pc, 2)]
  BY <1>4, <1>28, SeenFields DEF PastEd, Seen
<1>30. p.pc = Plus(e.pc, 2)
  BY <1>27, <1>1, BytesAt, InCore DEF Same
<1>31. Seen(p) = s /\ \A x \in VisibleFields : s[x] = p[x]
  BY <1>29, <1>27, <1>30, SeenFields DEF Same, Seen
<1>32. BeginsEd(e, m, at)
  OBVIOUS
<1>33. pair_rp(e) = pair /\ Manual!ExtendedPair(Y(e.opcode)) = pair /\
         pair \in {"bc", "de", "hl", "sp"}
  BY <1>32, <1>5, EdPair
<1>34. Manual!Extended(s, m, e.opcode, at, port, ie)
         = Manual!MovesPair(s, m, Y(e.opcode), pair, Manual!PeekWord(m, at))
  BY <1>32, <1>33, <1>1, <1>3, EdMoves
<1>35. Manual!Extended(s, m, e.opcode, at, port, ie)
         = Manual!Both(s, Manual!PokeWord(m, Manual!PeekWord(m, at), s[pair]))
  BY <1>32, <1>33, <1>34, <1>3, MovesPairIs
<1>36. EdTable(e, m, at, port, ie) = Manual!Extended(s, m, e.opcode, at, port, ie)
  BY <1>1, <1>3, <1>28, <1>1 DEF EdTable
<1>37. Manual!Extended(s, m, e.opcode, at, port, ie)
         = Manual!Both(s,
                       Manual!PokeWord(m, Manual!PeekWord(m, at), s[pair]))
  BY <1>32, <1>33, <1>34, <1>35
<1>38. PICK r : r = Execute("ed_ld_nn_rp", p, int)
  OBVIOUS
<1>39. r = LoadEffect("ed_ld_nn_rp", p)
  BY <1>38, Executes DEF Loads
<1>40. Shaped(p)
  BY CoreTypes
<1>41. r = Put(p, "wz", Plus(p.tmp, 1))
  BY <1>39, <1>40 DEF LoadEffect, MemptrAfterTmp, Put
<1>42. Same(p, r, {"wz"})
  BY <1>41, <1>40, GetPut, InCore DEF Same
<1>43. Seen(r) = s
  BY <1>42, <1>31, SeenFields DEF Same, Seen
<1>44. /\ s[pair] = e[pair_rp(e)]
       /\ Manual!PeekWord(m, at) = Manual!PeekWord(m, e.pc)
  BY <1>27, <1>31, <1>1, SeenFields, InCore, <1>5 DEF Same, OperandsAt, BeginsEd
<1>45. l = Manual!PokeWord(m, Manual!PeekWord(m, e.pc), e[pair_rp(e)])
  BY <1>27, <1>1, BytesAt, PokedWord
<1>46. l = Manual!PokeWord(m, Manual!PeekWord(m, at), s[pair])
  BY <1>44, <1>45, <1>27, <1>31, <1>1, SeenFields, InCore DEF Same, OperandsAt, BeginsEd
<1>47. Seen(r) = s
  BY <1>43, <1>44, <1>45, <1>46
<1> QED BY <1>38, <1>47, <1>44, <1>45, <1>46, <1>36, <1>37, MeetsBoth

(* RETN and RETI. *)
LEMMA Does_ed_retn ==
  ASSUME NEW e, NEW m, NEW at, NEW ie, BeginsEd(e, m, at), e.instr = "ed_retn",
         NEW d, NEW l, After2(e, m, d, l),
         NEW p, Typed(p), Same(d, p, {"nmi_latched"}), NEW int, NEW port
  PROVE  Meets(Execute("ed_retn", p, int), l, EdTable(e, m, at, port, ie))
<1>1. /\ Typed(e) /\ Shaped(e) /\ e.opcode \in Byte /\ ByteMemory(m)
      /\ index_pair(e) \in {"hl", "ix", "iy"}
  BY CoreTypes DEF BeginsEd, index_pair
<1>2. "ed_retn" = DecodeEd(e.opcode)
  BY DEF BeginsEd
<1>3. /\ X(e.opcode) = 1
      /\ Y(e.opcode) \in 0 .. 7
      /\ Z(e.opcode) = 5
  BY <1>1, <1>2, MapEd
<1>4. EdBytes(e.opcode) = 0
  BY <1>1, <1>3, FieldsType, OpcodeOf DEF EdBytes
<1>5. PICK d1, m1 :
      /\ OneCycle(e, m, d1, m1)
      /\ OneCycle(d1, m1, d, l)
  BY DEF After1, After2
<1>6. /\ e.instr = "ed_retn" /\ e.cycle = 0 /\ Shaped(e)
      /\ d1.instr = "ed_retn" /\ d1.cycle = 1 /\ Shaped(d1)
  BY <1>5, Fields DEF OneCycle, BeginsEd
<1>7. CyclesOf["ed_retn"] = EdCycles("ed_retn") /\ HooksOf["ed_retn"] = EdHooks("ed_retn")
  BY GroupCycles, GroupHooks DEF Instrs, EdInstrs
<1>8. /\ Enters(e, "mem_read", "at_pop", "to_wz_low")
      /\ Enters(d1, "mem_read", "at_pop", "return_from_interrupt")
  BY <1>6, <1>7 DEF Enters, EdCycles, EdHooks, Operand, Called, AtPcTo, AtPopTo, On, Idle, Read,
     Write,
       IoIn, IoOut, Idle1, Idle2, Idle4, Idle5, Idle7
<1>9. PICK f1 :
      /\ Same(e, f1, {"bus_addr", "bus_data", "sp"})
      /\ f1.bus_addr = e.sp
      /\ f1.bus_data = Manual!Peek(m, e.sp)
      /\ f1.bus_data \in Byte
      /\ m1 = m
      /\ f1.sp = Plus(e.sp, 1)
      /\ d1 = Put(Exit("to_wz_low", f1), "cycle", e.cycle + 1)
  BY <1>5, <1>8, AtPopReads
<1>10. /\ Same(e, d1, {"bus_addr", "bus_data", "sp", "wz", "cycle"})
       /\ d1.bus_addr = e.sp
       /\ d1.bus_data = Manual!Peek(m, e.sp)
       /\ d1.sp = Plus(e.sp, 1)
       /\ d1.wz = WithLow(e.wz, Manual!Peek(m, e.sp))
       /\ m1 = m
  BY <1>6, <1>9, Leaves, InCore DEF Same
<1>11. PICK f2 :
       /\ Same(d1, f2, {"bus_addr", "bus_data", "sp"})
       /\ f2.bus_addr = d1.sp
       /\ f2.bus_data = Manual!Peek(m1, d1.sp)
       /\ f2.bus_data \in Byte
       /\ l = m1
       /\ f2.sp = Plus(d1.sp, 1)
       /\ d = Put(Exit("return_from_interrupt", f2), "cycle", d1.cycle + 1)
  BY <1>5, <1>8, AtPopReads
<1>12. /\ Same(e, d, {"bus_addr", "bus_data", "sp", "wz", "cycle", "pc", "iff1"})
       /\ d.bus_addr = d1.sp
       /\ d.bus_data = Manual!Peek(m1, d1.sp)
       /\ d.sp = Plus(d1.sp, 1)
       /\ d.pc = WithHigh(d1.wz, Manual!Peek(m1, d1.sp))
       /\ l = m1
  BY <1>10, <1>6, <1>11, Leaves, InCore DEF Same
<1>13. /\ Same(e, d, {"bus_addr", "bus_data", "sp", "wz", "cycle", "pc", "iff1"})
       /\ d.bus_addr = Plus(e.sp, 1)
       /\ d.bus_data = Manual!Peek(m, e.sp + 1)
       /\ d.sp = Plus(e.sp, 2)
       /\ d.pc = Manual!PeekWord(m, e.sp)
       /\ l = m
  BY <1>10, <1>12, <1>1, BytesAt
<1>14. /\ Same(e, p, {"bus_addr", "bus_data", "sp", "wz", "cycle", "pc", "iff1", "nmi_latched"})
       /\ p.bus_addr = Plus(e.sp, 1)
       /\ p.bus_data = Manual!Peek(m, e.sp + 1)
       /\ p.sp = Plus(e.sp, 2)
       /\ p.pc = Manual!PeekWord(m, e.sp)
       /\ l = m
  BY <1>13, InCore DEF Same
<1>15. PICK s : s = PastEd(e)
  OBVIOUS
<1>16. s = [Seen(e) EXCEPT !.pc = Plus(e.pc, 0)]
  BY <1>4, <1>15, SeenFields DEF PastEd, Seen
<1>17. /\ Seen(p) = [s EXCEPT !.sp = p.sp, !.pc = p.pc]
       /\ \A x \in VisibleFields \ {"sp", "pc"} : s[x] = p[x]
       /\ s.sp = e.sp
       /\ s.pc = Plus(e.pc, 0)
  BY <1>16, <1>14, SeenFields DEF Same, Seen
<1>18. Manual!Extended(s, m, e.opcode, at, port, ie) = Manual!Returns(s, m)
  BY <1>1, <1>3, EdReturns
<1>19. EdTable(e, m, at, port, ie) = Manual!Extended(s, m, e.opcode, at, port, ie)
  BY <1>1, <1>3, <1>15, <1>1 DEF EdTable
<1>20. Manual!Extended(s, m, e.opcode, at, port, ie)
         = Manual!Both([s EXCEPT !.pc = Manual!PeekWord(m, s.sp), !.sp = Plus(@, 2)],
                       m)
  BY <1>18, ReturnsMean
<1>21. PICK r : r = Execute("ed_retn", p, int)
  OBVIOUS
<1>22. r = p
  BY <1>21, ExecutesNothing DEF Hooked
<1>23. Seen(r) = Seen(p)
  BY <1>22, <1>17
<1>24. Seen(r) = [s EXCEPT !.pc = Manual!PeekWord(m, s.sp), !.sp = Plus(@, 2)]
  BY <1>23, <1>14, <1>17, <1>14, <1>1, BytesAt
<1> QED BY <1>21, <1>24, <1>14, <1>17, <1>14, <1>19, <1>20, MeetsBoth

(* RRD. *)
LEMMA Does_ed_rrd ==
  ASSUME NEW e, NEW m, NEW at, NEW ie, BeginsEd(e, m, at), e.instr = "ed_rrd",
         NEW d, NEW l, After3(e, m, d, l),
         NEW p, Typed(p), Same(d, p, {"nmi_latched"}), NEW int, NEW port
  PROVE  Meets(Execute("ed_rrd", p, int), l, EdTable(e, m, at, port, ie))
<1>1. /\ Typed(e) /\ Shaped(e) /\ e.opcode \in Byte /\ ByteMemory(m)
      /\ index_pair(e) \in {"hl", "ix", "iy"}
  BY CoreTypes DEF BeginsEd, index_pair
<1>2. "ed_rrd" = DecodeEd(e.opcode)
  BY DEF BeginsEd
<1>3. /\ X(e.opcode) = 1
      /\ Y(e.opcode) \in 0 .. 7
      /\ Z(e.opcode) = 7
      /\ Y(e.opcode) = 4
  BY <1>1, <1>2, MapEd
<1>4. EdBytes(e.opcode) = 0
  BY <1>1, <1>3, FieldsType, OpcodeOf DEF EdBytes
<1>5. PICK right \in BOOLEAN : TurnsRight(e.opcode, right)
  BY DEF TurnsRight
<1>6. PICK d1, m1, d2, m2 :
      /\ OneCycle(e, m, d1, m1)
      /\ OneCycle(d1, m1, d2, m2)
      /\ OneCycle(d2, m2, d, l)
  BY DEF After1, After2, After3
<1>7. /\ e.instr = "ed_rrd" /\ e.cycle = 0 /\ Shaped(e)
      /\ d1.instr = "ed_rrd" /\ d1.cycle = 1 /\ Shaped(d1)
      /\ d2.instr = "ed_rrd" /\ d2.cycle = 2 /\ Shaped(d2)
  BY <1>6, Fields DEF OneCycle, BeginsEd
<1>8. CyclesOf["ed_rrd"] = EdCycles("ed_rrd") /\ HooksOf["ed_rrd"] = EdHooks("ed_rrd")
  BY GroupCycles, GroupHooks DEF Instrs, EdInstrs
<1>9. /\ Enters(e, "mem_read", "at_hl", "rrd")
      /\ Enters(d1, "idle4", "none", "none")
      /\ Enters(d2, "mem_write", "at_hl", "none")
  BY <1>7, <1>8 DEF Enters, EdCycles, EdHooks, Operand, Called, AtPcTo, AtPopTo, On, Idle, Read,
     Write,
       IoIn, IoOut, Idle1, Idle2, Idle4, Idle5, Idle7
<1>10. PICK f1 :
       /\ Same(e, f1, {"bus_addr", "bus_data"})
       /\ f1.bus_addr = e.hl
       /\ f1.bus_data = Manual!Peek(m, e.hl)
       /\ f1.bus_data \in Byte
       /\ m1 = m
       /\ d1 = Put(Exit("rrd", f1), "cycle", e.cycle + 1)
  BY <1>6, <1>9, AtHlReads
<1>11. PICK out : out = Alu!DigitRotated(right, f1.a, f1.bus_data)
  OBVIOUS
<1>12. f1.f = e.f /\ f1.a = e.a /\ Shaped(f1) /\ f1.bus_data = Manual!Peek(m, e.hl)
  BY <1>10, <1>7, InCore DEF Same
<1>13. d1 = Put(Exit("rrd", f1), "cycle", e.cycle + 1) /\ (right => "rrd" = "rrd") /\
         (~right => "rrd" = "rld")
  BY <1>10, <1>5, <1>3 DEF TurnsRight
<1>14. /\ Same(f1, d1, {"f", "pending", "a", "bus_data", "wz", "cycle"})
       /\ d1.f = Alu!digit_rotate_flags(f1.f, out) /\ d1.a = out
       /\ d1.bus_data = Alu!DigitStored(right, f1.a, f1.bus_data)
  BY <1>11, <1>12, <1>13, <1>5, LeavesDigit
<1>15. /\ Same(e, d1, {"bus_addr", "bus_data", "f", "pending", "a", "wz", "cycle"})
       /\ d1.bus_addr = e.hl
       /\ d1.bus_data = Alu!DigitStored(right, e.a, Manual!Peek(m, e.hl))
       /\ d1.f = Alu!digit_rotate_flags(e.f, out)
       /\ d1.a = out
       /\ out = Alu!DigitRotated(right, e.a, Manual!Peek(m, e.hl))
       /\ m1 = m
  BY <1>7, <1>10, <1>11, <1>12, <1>14, InCore DEF Same
<1>16. /\ Same(e, d1, {"bus_addr", "bus_data", "f", "pending", "a", "wz", "cycle"})
       /\ d1.bus_addr = e.hl
       /\ d1.bus_data = Alu!DigitStored(right, e.a, Manual!Peek(m, e.hl))
       /\ d1.f = Alu!digit_rotate_flags(e.f, out)
       /\ d1.a = out
       /\ m1 = m
  BY <1>15, <1>1, BytesAt
<1>17. d2 = Put(Exit("none", d1), "cycle", d1.cycle + 1) /\ m2 = m1
  BY <1>6, <1>9, Idles DEF IdleCycles
<1>18. /\ Same(e, d2, {"bus_addr", "bus_data", "f", "pending", "a", "wz", "cycle"})
       /\ d2.bus_addr = d1.bus_addr
       /\ d2.bus_data = d1.bus_data
       /\ d2.f = d1.f
       /\ d2.a = d1.a
       /\ m2 = m1
  BY <1>16, <1>15, <1>7, <1>17, Leaves, InCore DEF Same
<1>19. /\ Same(e, d2, {"bus_addr", "bus_data", "f", "pending", "a", "wz", "cycle"})
       /\ d2.bus_addr = e.hl
       /\ d2.bus_data = Alu!DigitStored(right, e.a, Manual!Peek(m, e.hl))
       /\ d2.f = Alu!digit_rotate_flags(e.f, out)
       /\ d2.a = out
       /\ m2 = m
  BY <1>16, <1>15, <1>18, <1>1, BytesAt
<1>20. Enter("at_hl", d2) = Put(d2, "bus_addr", d2.hl)
  BY <1>7, EnterReads
<1>21. PICK f3 :
       /\ Same(d2, f3, {"bus_addr"})
       /\ f3.bus_addr = d2.hl
       /\ d = Put(Exit("none", f3), "cycle", d2.cycle + 1)
       /\ l = Manual!Poke(m2, d2.hl, d2.bus_data)
  BY <1>6, <1>9, <1>20, KeepsWrites
<1>22. /\ Same(e, d, {"bus_addr", "bus_data", "f", "pending", "a", "wz", "cycle"})
       /\ d.bus_addr = d2.hl
       /\ d.bus_data = d2.bus_data
       /\ d.f = d2.f
       /\ d.a = d2.a
       /\ l = Manual!Poke(m2, d2.hl, d2.bus_data)
  BY <1>19, <1>7, <1>21, Leaves, InCore DEF Same
<1>23. d2.hl = e.hl
  BY <1>19, InCore DEF Same
<1>24. /\ Same(e, d, {"bus_addr", "bus_data", "f", "pending", "a", "wz", "cycle"})
       /\ d.bus_data = Alu!DigitStored(right, e.a, Manual!Peek(m, e.hl))
       /\ d.f = Alu!digit_rotate_flags(e.f, out)
       /\ d.a = out
       /\ d.bus_addr = e.hl
       /\ l = Manual!Poke(m, e.hl, Alu!DigitStored(right, e.a, Manual!Peek(m, e.hl)))
  BY <1>19, <1>22, <1>23, <1>1, BytesAt
<1>25. /\ Same(e, p, {"bus_addr", "bus_data", "f", "pending", "a", "wz", "cycle", "nmi_latched"})
       /\ p.bus_data = Alu!DigitStored(right, e.a, Manual!Peek(m, e.hl))
       /\ p.f = Alu!digit_rotate_flags(e.f, out)
       /\ p.a = out
       /\ p.bus_addr = e.hl
       /\ l = Manual!Poke(m, e.hl, Alu!DigitStored(right, e.a, Manual!Peek(m, e.hl)))
       /\ out = Alu!DigitRotated(right, e.a, Manual!Peek(m, e.hl))
  BY <1>24, <1>15, InCore DEF Same
<1>26. PICK s : s = PastEd(e)
  OBVIOUS
<1>27. s = [Seen(e) EXCEPT !.pc = Plus(e.pc, 0)]
  BY <1>4, <1>26, SeenFields DEF PastEd, Seen
<1>28. p.pc = Plus(e.pc, 0)
  BY <1>25, <1>1, BytesAt, InCore DEF Same
<1>29. /\ Seen(p) = [s EXCEPT !.f = p.f, !.a = p.a]
       /\ \A x \in VisibleFields \ {"f", "a"} : s[x] = p[x]
       /\ s.f = e.f
       /\ s.a = e.a
  BY <1>27, <1>25, <1>28, SeenFields DEF Same, Seen
<1>30. s.a = e.a /\ s.hl = e.hl /\ s.f = e.f
  BY <1>29, <1>25, SeenFields, InCore DEF Same
<1>31. out = Manual!DigitRotated(right, s.a, Manual!Peek(m, s.hl))
  BY <1>30, <1>25, SameArithmetic
<1>32. Manual!Extended(s, m, e.opcode, at, port, ie)
         = Manual!TurnsDigits(s, m, right, Manual!Peek(m, s.hl))
  BY <1>5, <1>1, <1>3, EdDigits
<1>33. EdTable(e, m, at, port, ie) = Manual!Extended(s, m, e.opcode, at, port, ie)
  BY <1>1, <1>3, <1>26, <1>1 DEF EdTable
<1>34. Manual!Extended(s, m, e.opcode, at, port, ie)
         = Manual!Both([s EXCEPT !.a = out, !.f = Manual!digit_rotate_flags(s.f, out)],
                       Manual!Poke(m, s.hl, Manual!DigitStored(right, s.a, Manual!Peek(m, s.hl))))
  BY <1>30, <1>31, <1>32 DEF Manual!TurnsDigits
<1>35. PICK r : r = Execute("ed_rrd", p, int)
  OBVIOUS
<1>36. r = p
  BY <1>35, ExecutesNothing DEF Hooked
<1>37. Seen(r) = Seen(p)
  BY <1>36, <1>29
<1>38. l = Manual!Poke(m, s.hl, Manual!DigitStored(right, s.a, Manual!Peek(m, s.hl)))
  BY <1>25, <1>29, <1>1, <1>30, <1>31, <1>32, SameArithmetic, SeenFields, InCore DEF Same, OperandsAt,
     BeginsEd
<1>39. Seen(r) = [s EXCEPT !.a = out, !.f = Manual!digit_rotate_flags(s.f, out)]
  BY <1>37, <1>38, <1>29, <1>25, <1>25, SameArithmetic
<1> QED BY <1>35, <1>39, <1>38, <1>29, <1>25, <1>33, <1>34, MeetsBoth

(* RLD. *)
LEMMA Does_ed_rld ==
  ASSUME NEW e, NEW m, NEW at, NEW ie, BeginsEd(e, m, at), e.instr = "ed_rld",
         NEW d, NEW l, After3(e, m, d, l),
         NEW p, Typed(p), Same(d, p, {"nmi_latched"}), NEW int, NEW port
  PROVE  Meets(Execute("ed_rld", p, int), l, EdTable(e, m, at, port, ie))
<1>1. /\ Typed(e) /\ Shaped(e) /\ e.opcode \in Byte /\ ByteMemory(m)
      /\ index_pair(e) \in {"hl", "ix", "iy"}
  BY CoreTypes DEF BeginsEd, index_pair
<1>2. "ed_rld" = DecodeEd(e.opcode)
  BY DEF BeginsEd
<1>3. /\ X(e.opcode) = 1
      /\ Y(e.opcode) \in 0 .. 7
      /\ Z(e.opcode) = 7
      /\ Y(e.opcode) = 5
  BY <1>1, <1>2, MapEd
<1>4. EdBytes(e.opcode) = 0
  BY <1>1, <1>3, FieldsType, OpcodeOf DEF EdBytes
<1>5. PICK right \in BOOLEAN : TurnsRight(e.opcode, right)
  BY DEF TurnsRight
<1>6. PICK d1, m1, d2, m2 :
      /\ OneCycle(e, m, d1, m1)
      /\ OneCycle(d1, m1, d2, m2)
      /\ OneCycle(d2, m2, d, l)
  BY DEF After1, After2, After3
<1>7. /\ e.instr = "ed_rld" /\ e.cycle = 0 /\ Shaped(e)
      /\ d1.instr = "ed_rld" /\ d1.cycle = 1 /\ Shaped(d1)
      /\ d2.instr = "ed_rld" /\ d2.cycle = 2 /\ Shaped(d2)
  BY <1>6, Fields DEF OneCycle, BeginsEd
<1>8. CyclesOf["ed_rld"] = EdCycles("ed_rld") /\ HooksOf["ed_rld"] = EdHooks("ed_rld")
  BY GroupCycles, GroupHooks DEF Instrs, EdInstrs
<1>9. /\ Enters(e, "mem_read", "at_hl", "rld")
      /\ Enters(d1, "idle4", "none", "none")
      /\ Enters(d2, "mem_write", "at_hl", "none")
  BY <1>7, <1>8 DEF Enters, EdCycles, EdHooks, Operand, Called, AtPcTo, AtPopTo, On, Idle, Read,
     Write,
       IoIn, IoOut, Idle1, Idle2, Idle4, Idle5, Idle7
<1>10. PICK f1 :
       /\ Same(e, f1, {"bus_addr", "bus_data"})
       /\ f1.bus_addr = e.hl
       /\ f1.bus_data = Manual!Peek(m, e.hl)
       /\ f1.bus_data \in Byte
       /\ m1 = m
       /\ d1 = Put(Exit("rld", f1), "cycle", e.cycle + 1)
  BY <1>6, <1>9, AtHlReads
<1>11. PICK out : out = Alu!DigitRotated(right, f1.a, f1.bus_data)
  OBVIOUS
<1>12. f1.f = e.f /\ f1.a = e.a /\ Shaped(f1) /\ f1.bus_data = Manual!Peek(m, e.hl)
  BY <1>10, <1>7, InCore DEF Same
<1>13. d1 = Put(Exit("rld", f1), "cycle", e.cycle + 1) /\ (right => "rld" = "rrd") /\
         (~right => "rld" = "rld")
  BY <1>10, <1>5, <1>3 DEF TurnsRight
<1>14. /\ Same(f1, d1, {"f", "pending", "a", "bus_data", "wz", "cycle"})
       /\ d1.f = Alu!digit_rotate_flags(f1.f, out) /\ d1.a = out
       /\ d1.bus_data = Alu!DigitStored(right, f1.a, f1.bus_data)
  BY <1>11, <1>12, <1>13, <1>5, LeavesDigit
<1>15. /\ Same(e, d1, {"bus_addr", "bus_data", "f", "pending", "a", "wz", "cycle"})
       /\ d1.bus_addr = e.hl
       /\ d1.bus_data = Alu!DigitStored(right, e.a, Manual!Peek(m, e.hl))
       /\ d1.f = Alu!digit_rotate_flags(e.f, out)
       /\ d1.a = out
       /\ out = Alu!DigitRotated(right, e.a, Manual!Peek(m, e.hl))
       /\ m1 = m
  BY <1>7, <1>10, <1>11, <1>12, <1>14, InCore DEF Same
<1>16. /\ Same(e, d1, {"bus_addr", "bus_data", "f", "pending", "a", "wz", "cycle"})
       /\ d1.bus_addr = e.hl
       /\ d1.bus_data = Alu!DigitStored(right, e.a, Manual!Peek(m, e.hl))
       /\ d1.f = Alu!digit_rotate_flags(e.f, out)
       /\ d1.a = out
       /\ m1 = m
  BY <1>15, <1>1, BytesAt
<1>17. d2 = Put(Exit("none", d1), "cycle", d1.cycle + 1) /\ m2 = m1
  BY <1>6, <1>9, Idles DEF IdleCycles
<1>18. /\ Same(e, d2, {"bus_addr", "bus_data", "f", "pending", "a", "wz", "cycle"})
       /\ d2.bus_addr = d1.bus_addr
       /\ d2.bus_data = d1.bus_data
       /\ d2.f = d1.f
       /\ d2.a = d1.a
       /\ m2 = m1
  BY <1>16, <1>15, <1>7, <1>17, Leaves, InCore DEF Same
<1>19. /\ Same(e, d2, {"bus_addr", "bus_data", "f", "pending", "a", "wz", "cycle"})
       /\ d2.bus_addr = e.hl
       /\ d2.bus_data = Alu!DigitStored(right, e.a, Manual!Peek(m, e.hl))
       /\ d2.f = Alu!digit_rotate_flags(e.f, out)
       /\ d2.a = out
       /\ m2 = m
  BY <1>16, <1>15, <1>18, <1>1, BytesAt
<1>20. Enter("at_hl", d2) = Put(d2, "bus_addr", d2.hl)
  BY <1>7, EnterReads
<1>21. PICK f3 :
       /\ Same(d2, f3, {"bus_addr"})
       /\ f3.bus_addr = d2.hl
       /\ d = Put(Exit("none", f3), "cycle", d2.cycle + 1)
       /\ l = Manual!Poke(m2, d2.hl, d2.bus_data)
  BY <1>6, <1>9, <1>20, KeepsWrites
<1>22. /\ Same(e, d, {"bus_addr", "bus_data", "f", "pending", "a", "wz", "cycle"})
       /\ d.bus_addr = d2.hl
       /\ d.bus_data = d2.bus_data
       /\ d.f = d2.f
       /\ d.a = d2.a
       /\ l = Manual!Poke(m2, d2.hl, d2.bus_data)
  BY <1>19, <1>7, <1>21, Leaves, InCore DEF Same
<1>23. d2.hl = e.hl
  BY <1>19, InCore DEF Same
<1>24. /\ Same(e, d, {"bus_addr", "bus_data", "f", "pending", "a", "wz", "cycle"})
       /\ d.bus_data = Alu!DigitStored(right, e.a, Manual!Peek(m, e.hl))
       /\ d.f = Alu!digit_rotate_flags(e.f, out)
       /\ d.a = out
       /\ d.bus_addr = e.hl
       /\ l = Manual!Poke(m, e.hl, Alu!DigitStored(right, e.a, Manual!Peek(m, e.hl)))
  BY <1>19, <1>22, <1>23, <1>1, BytesAt
<1>25. /\ Same(e, p, {"bus_addr", "bus_data", "f", "pending", "a", "wz", "cycle", "nmi_latched"})
       /\ p.bus_data = Alu!DigitStored(right, e.a, Manual!Peek(m, e.hl))
       /\ p.f = Alu!digit_rotate_flags(e.f, out)
       /\ p.a = out
       /\ p.bus_addr = e.hl
       /\ l = Manual!Poke(m, e.hl, Alu!DigitStored(right, e.a, Manual!Peek(m, e.hl)))
       /\ out = Alu!DigitRotated(right, e.a, Manual!Peek(m, e.hl))
  BY <1>24, <1>15, InCore DEF Same
<1>26. PICK s : s = PastEd(e)
  OBVIOUS
<1>27. s = [Seen(e) EXCEPT !.pc = Plus(e.pc, 0)]
  BY <1>4, <1>26, SeenFields DEF PastEd, Seen
<1>28. p.pc = Plus(e.pc, 0)
  BY <1>25, <1>1, BytesAt, InCore DEF Same
<1>29. /\ Seen(p) = [s EXCEPT !.f = p.f, !.a = p.a]
       /\ \A x \in VisibleFields \ {"f", "a"} : s[x] = p[x]
       /\ s.f = e.f
       /\ s.a = e.a
  BY <1>27, <1>25, <1>28, SeenFields DEF Same, Seen
<1>30. s.a = e.a /\ s.hl = e.hl /\ s.f = e.f
  BY <1>29, <1>25, SeenFields, InCore DEF Same
<1>31. out = Manual!DigitRotated(right, s.a, Manual!Peek(m, s.hl))
  BY <1>30, <1>25, SameArithmetic
<1>32. Manual!Extended(s, m, e.opcode, at, port, ie)
         = Manual!TurnsDigits(s, m, right, Manual!Peek(m, s.hl))
  BY <1>5, <1>1, <1>3, EdDigits
<1>33. EdTable(e, m, at, port, ie) = Manual!Extended(s, m, e.opcode, at, port, ie)
  BY <1>1, <1>3, <1>26, <1>1 DEF EdTable
<1>34. Manual!Extended(s, m, e.opcode, at, port, ie)
         = Manual!Both([s EXCEPT !.a = out, !.f = Manual!digit_rotate_flags(s.f, out)],
                       Manual!Poke(m, s.hl, Manual!DigitStored(right, s.a, Manual!Peek(m, s.hl))))
  BY <1>30, <1>31, <1>32 DEF Manual!TurnsDigits
<1>35. PICK r : r = Execute("ed_rld", p, int)
  OBVIOUS
<1>36. r = p
  BY <1>35, ExecutesNothing DEF Hooked
<1>37. Seen(r) = Seen(p)
  BY <1>36, <1>29
<1>38. l = Manual!Poke(m, s.hl, Manual!DigitStored(right, s.a, Manual!Peek(m, s.hl)))
  BY <1>25, <1>29, <1>1, <1>30, <1>31, <1>32, SameArithmetic, SeenFields, InCore DEF Same, OperandsAt,
     BeginsEd
<1>39. Seen(r) = [s EXCEPT !.a = out, !.f = Manual!digit_rotate_flags(s.f, out)]
  BY <1>37, <1>38, <1>29, <1>25, <1>25, SameArithmetic
<1> QED BY <1>35, <1>39, <1>38, <1>29, <1>25, <1>33, <1>34, MeetsBoth

(* OUT (C),r. *)
LEMMA Does_ed_out_c ==
  ASSUME NEW e, NEW m, NEW at, NEW ie, BeginsEd(e, m, at), e.instr = "ed_out_c",
         NEW d, NEW l, After1(e, m, d, l),
         NEW p, Typed(p), Same(d, p, {"nmi_latched"}), NEW int, NEW port
  PROVE  Meets(Execute("ed_out_c", p, int), l, EdTable(e, m, at, port, ie))
<1>1. /\ Typed(e) /\ Shaped(e) /\ e.opcode \in Byte /\ ByteMemory(m)
      /\ index_pair(e) \in {"hl", "ix", "iy"}
  BY CoreTypes DEF BeginsEd, index_pair
<1>2. "ed_out_c" = DecodeEd(e.opcode)
  BY DEF BeginsEd
<1>3. /\ X(e.opcode) = 1
      /\ Y(e.opcode) \in 0 .. 7
      /\ Z(e.opcode) = 1
  BY <1>1, <1>2, MapEd
<1>4. EdBytes(e.opcode) = 0
  BY <1>1, <1>3, FieldsType, OpcodeOf DEF EdBytes
<1>5. OneCycle(e, m, d, l)
  BY DEF After1
<1>6. e.instr = "ed_out_c" /\ e.cycle = 0 /\ Shaped(e)
  BY <1>5, Fields DEF OneCycle, BeginsEd
<1>7. CyclesOf["ed_out_c"] = EdCycles("ed_out_c") /\ HooksOf["ed_out_c"] = EdHooks("ed_out_c")
  BY GroupCycles, GroupHooks DEF Instrs, EdInstrs
<1>8. Enters(e, "io_write", "out_c", "none")
  BY <1>6, <1>7 DEF Enters, EdCycles, EdHooks, Operand, Called, AtPcTo, AtPopTo, On, Idle, Read,
     Write,
       IoIn, IoOut, Idle1, Idle2, Idle4, Idle5, Idle7
<1>9. Enter("out_c", e) = Puts(e, e.bc, Slot(e, Y(e.opcode)))
  BY <1>6, EnterOthers
<1>10. PICK f1 :
       /\ Same(e, f1, {"bus_addr", "bus_data"})
       /\ f1.bus_addr = e.bc
       /\ f1.bus_data = Slot(e, Y(e.opcode))
       /\ d = Put(Exit("none", f1), "cycle", e.cycle + 1)
       /\ l = m
  BY <1>5, <1>8, <1>9, PortWrites
<1>11. /\ Same(e, d, {"bus_addr", "bus_data", "cycle"})
       /\ d.bus_addr = e.bc
       /\ d.bus_data = Slot(e, Y(e.opcode))
       /\ l = m
  BY <1>6, <1>10, Leaves, InCore DEF Same
<1>12. /\ Same(e, p, {"bus_addr", "bus_data", "cycle", "nmi_latched"})
       /\ p.bus_addr = e.bc
       /\ p.bus_data = Slot(e, Y(e.opcode))
       /\ l = m
  BY <1>11, InCore DEF Same
<1>13. PICK s : s = PastEd(e)
  OBVIOUS
<1>14. s = [Seen(e) EXCEPT !.pc = Plus(e.pc, 0)]
  BY <1>4, <1>13, SeenFields DEF PastEd, Seen
<1>15. p.pc = Plus(e.pc, 0)
  BY <1>12, <1>1, BytesAt, InCore DEF Same
<1>16. Seen(p) = s /\ \A x \in VisibleFields : s[x] = p[x]
  BY <1>14, <1>12, <1>15, SeenFields DEF Same, Seen
<1>17. EdTable(e, m, at, port, ie) = Manual!Extended(s, m, e.opcode, at, port, ie)
  BY <1>1, <1>3, <1>13, <1>1 DEF EdTable
<1>18. Manual!Extended(s, m, e.opcode, at, port, ie)
         = Manual!Both(s,
                       m)
  BY <1>1, <1>3, EdOut DEF Put
<1>19. index_pair(p) = "hl"
  BY <1>12, InCore DEF Same, BeginsEd, index_pair, DD, FD
<1>20. Seen(PortEffect("ed_out_c", p)) = s
  BY <1>19, <1>16, PortEffectMeans
<1>21. PICK r : r = Execute("ed_out_c", p, int)
  OBVIOUS
<1>22. r = PortEffect("ed_out_c", p)
  BY <1>21, Executes
<1>23. r = PortEffect("ed_out_c", p)
  BY <1>22, <1>19, <1>20 DEF PortEffect
<1>24. Seen(r) = s
  BY <1>23, <1>16, <1>19, <1>20, <1>20
<1>25. Seen(r) = s
  BY <1>24, <1>12
<1> QED BY <1>21, <1>25, <1>12, <1>17, <1>18, MeetsBoth

(* IN r,(C). *)
LEMMA Does_ed_in_c ==
  ASSUME NEW e, NEW m, NEW at, NEW ie, BeginsEd(e, m, at), e.instr = "ed_in_c",
         NEW d, NEW l, After1(e, m, d, l),
         NEW p, Typed(p), Same(d, p, {"nmi_latched"}), NEW int
  PROVE  \E port \in PortBytes : Meets(Execute("ed_in_c", p, int), l, EdTable(e, m, at, port, ie))
<1>1. /\ Typed(e) /\ Shaped(e) /\ e.opcode \in Byte /\ ByteMemory(m)
      /\ index_pair(e) \in {"hl", "ix", "iy"}
  BY CoreTypes DEF BeginsEd, index_pair
<1>2. "ed_in_c" = DecodeEd(e.opcode)
  BY DEF BeginsEd
<1>3. /\ X(e.opcode) = 1
      /\ Y(e.opcode) \in 0 .. 7
      /\ Z(e.opcode) = 0
  BY <1>1, <1>2, MapEd
<1>4. EdBytes(e.opcode) = 0
  BY <1>1, <1>3, FieldsType, OpcodeOf DEF EdBytes
<1>5. OneCycle(e, m, d, l)
  BY DEF After1
<1>6. e.instr = "ed_in_c" /\ e.cycle = 0 /\ Shaped(e)
  BY <1>5, Fields DEF OneCycle, BeginsEd
<1>7. CyclesOf["ed_in_c"] = EdCycles("ed_in_c") /\ HooksOf["ed_in_c"] = EdHooks("ed_in_c")
  BY GroupCycles, GroupHooks DEF Instrs, EdInstrs
<1>8. Enters(e, "io_read", "io_at_bc", "none")
  BY <1>6, <1>7 DEF Enters, EdCycles, EdHooks, Operand, Called, AtPcTo, AtPopTo, On, Idle, Read,
     Write,
       IoIn, IoOut, Idle1, Idle2, Idle4, Idle5, Idle7
<1>9. Enter("io_at_bc", e) = Put(e, "bus_addr", e.bc)
  BY <1>6, EnterOthers
<1>10. PICK f1 :
       /\ Same(e, f1, {"bus_addr", "bus_data"})
       /\ f1.bus_addr = e.bc
       /\ f1.bus_data \in PortBytes
       /\ f1.bus_data \in Byte
       /\ l = m
       /\ d = Put(Exit("none", f1), "cycle", e.cycle + 1)
  BY <1>5, <1>8, <1>9, PortReads
<1>11. /\ Same(e, d, {"bus_addr", "bus_data", "cycle"})
       /\ d.bus_addr = e.bc
       /\ d.bus_data \in PortBytes /\ d.bus_data \in Byte
       /\ l = m
  BY <1>6, <1>10, Leaves, InCore DEF Same
<1>12. /\ Same(e, d, {"bus_addr", "bus_data", "cycle"})
       /\ d.bus_addr = e.bc
       /\ l = m
  BY <1>11, <1>1, BytesAt
<1>13. /\ Same(e, p, {"bus_addr", "bus_data", "cycle", "nmi_latched"})
       /\ p.bus_addr = e.bc
       /\ l = m
       /\ p.bus_data \in PortBytes
  BY <1>12, <1>11, <1>11, InCore DEF Same
<1>14. PICK port \in PortBytes : port = p.bus_data
  BY <1>13
<1>15. PICK s : s = PastEd(e)
  OBVIOUS
<1>16. s = [Seen(e) EXCEPT !.pc = Plus(e.pc, 0)]
  BY <1>4, <1>15, SeenFields DEF PastEd, Seen
<1>17. p.pc = Plus(e.pc, 0)
  BY <1>13, <1>1, BytesAt, InCore DEF Same
<1>18. Seen(p) = s /\ \A x \in VisibleFields : s[x] = p[x]
  BY <1>16, <1>13, <1>17, SeenFields DEF Same, Seen
<1>19. EdTable(e, m, at, port, ie) = Manual!Extended(s, m, e.opcode, at, port, ie)
  BY <1>1, <1>3, <1>15, <1>1 DEF EdTable
<1>20. Manual!Extended(s, m, e.opcode, at, port, ie)
         = Manual!Both(IF Y(e.opcode) = 6
           THEN Manual!Flagged(s, Manual!digit_rotate_flags(s.f, port))
         ELSE Manual!WithReg(Manual!Flagged(s, Manual!digit_rotate_flags(s.f, port)), Y(e.opcode),
           "hl", port),
                       m)
  BY <1>1, <1>3, EdIn DEF Put
<1>21. index_pair(p) = "hl" /\ Y(p.opcode) = Y(e.opcode)
  BY <1>13, InCore DEF Same, BeginsEd, index_pair, DD, FD
<1>22. PICK flags : flags = Alu!digit_rotate_flags(p.f, p.bus_data)
  OBVIOUS
<1>23. s.f = p.f /\ p.bus_data = port
  BY <1>18, <1>14, SeenFields
<1>24. flags = Manual!digit_rotate_flags(s.f, port)
  BY <1>21, <1>22, <1>23, SameArithmetic
<1>25. Seen(PortEffect("ed_in_c", p))
         = IF Y(e.opcode) = 6 THEN Manual!Flagged(s, flags)
           ELSE Manual!WithReg(Manual!Flagged(s, flags), Y(e.opcode), "hl", port)
  BY <1>21, <1>22, <1>23, <1>24, <1>18, PortEffectMeans
<1>26. PICK r : r = Execute("ed_in_c", p, int)
  OBVIOUS
<1>27. r = PortEffect("ed_in_c", p)
  BY <1>26, Executes
<1>28. r = PortEffect("ed_in_c", p)
  BY <1>27, <1>21, <1>22, <1>23, <1>24, <1>25 DEF PortEffect
<1>29. Seen(r) = IF Y(e.opcode) = 6 THEN Manual!Flagged(s, flags)
         ELSE Manual!WithReg(Manual!Flagged(s, flags), Y(e.opcode), "hl", port)
  BY <1>28, <1>18, <1>21, <1>22, <1>23, <1>24, <1>25, <1>25
<1>30. flags = Manual!digit_rotate_flags(s.f, port)
  BY <1>21, <1>22, <1>23, <1>24, <1>25, <1>13, <1>18, <1>1, SeenFields, InCore DEF Same, OperandsAt,
     BeginsEd
<1>31. Seen(r) = IF Y(e.opcode) = 6 THEN Manual!Flagged(s, Manual!digit_rotate_flags(s.f, port))
         ELSE Manual!WithReg(Manual!Flagged(s, Manual!digit_rotate_flags(s.f, port)), Y(e.opcode),
           "hl", port)
  BY <1>29, <1>30, <1>13
<1>32. Meets(r, l, EdTable(e, m, at, port, ie))
  BY <1>31, <1>30, <1>13, <1>19, <1>20, MeetsBoth
<1> QED BY <1>26, <1>32, <1>14
-----------------------------------------------------------------------------
(***************************************************************************)
(* The block instructions: the hooks that end a pass, and the manual's     *)
(* pass.                                                                   *)
(***************************************************************************)

(* The hooks that end a pass of a block instruction.  GoesAgain says        *)
(* whether there is another one.                                           *)
Turned(f, g, e, again, k) ==
  /\ again => e = Put(WriteFlags(g, Alu!block_repeat_undocumented(g.f, High(Plus(f.pc, -2)))),
       "cycle", k)
  /\ ~again => e = Put(Stops(g), "cycle", k)

LEMMA TurnedLeaves ==
  ASSUME NEW f, NEW g, Shaped(g), g.pc = f.pc, NEW e, NEW again \in BOOLEAN, NEW k,
           Turned(f, g, e, again, k)
  PROVE  /\ Same(g, e, {"f", "pending", "cycle_limit", "cycle"})
         /\ again => /\ e.cycle_limit = g.cycle_limit
                     /\ e.f = Alu!block_repeat_undocumented(g.f, High(Plus(f.pc, -2)))
         /\ ~again => e.cycle_limit = g.cycle + 1 /\ e.f = g.f
<1>1. CASE again
  <2>1. PICK flags : flags = Alu!block_repeat_undocumented(g.f, High(Plus(f.pc, -2)))
    OBVIOUS
  <2>2. PICK d : d = WriteFlags(g, flags)
    OBVIOUS
  <2>3. Same(g, d, {"f", "pending"}) /\ d.f = flags
    BY <2>2, FlagsWritten
  <2>4. e = Put(d, "cycle", k)
    BY <1>1, <2>1, <2>2 DEF Turned
  <2>5. Same(g, e, {"f", "pending", "cycle"}) /\ e.f = flags
    BY <2>3, <2>4, GetPut, InCore DEF Same
  <2> QED BY <1>1, <2>1, <2>5, InCore DEF Same
<1>2. CASE ~again
  <2>1. PICK d : d = Stops(g)
    OBVIOUS
  <2>2. Same(g, d, {"cycle_limit"}) /\ d.cycle_limit = g.cycle + 1
    BY <2>1, StopsLeave
  <2>3. e = Put(d, "cycle", k)
    BY <1>2, <2>1 DEF Turned
  <2>4. Same(g, e, {"cycle_limit", "cycle"}) /\ e.cycle_limit = g.cycle + 1
    BY <2>2, <2>3, GetPut, InCore DEF Same
  <2> QED BY <1>2, <2>4, InCore DEF Same
<1> QED BY <1>1, <1>2

LEMMA LeavesTransfer ==
  ASSUME NEW f, Shaped(f), NEW k, NEW e, e = Put(Exit("block_transfer", f), "cycle", k),
         NEW by, by = block_delta(f), NEW count, count = Plus(f.bc, -1),
         NEW flags, flags = Alu!block_transfer_flags(f.a, f.f, f.bus_data, count # 0),
         NEW again \in BOOLEAN, again <=> (block_repeats(f) /\ count # 0)
  PROVE  /\ Same(f, e, {"hl", "de", "bc", "f", "pending", "cycle_limit", "cycle"})
         /\ e.hl = Plus(f.hl, by)
         /\ e.de = Plus(f.de, by)
         /\ e.bc = count
         /\ again => /\ e.cycle_limit = f.cycle_limit
                     /\ e.f = Alu!block_repeat_undocumented(flags, High(Plus(f.pc, -2)))
         /\ ~again => e.cycle_limit = f.cycle + 1 /\ e.f = flags
<1>1. PICK moved : moved = Put(Put(Put(f, "hl", Plus(f.hl, by)), "de", Plus(f.de, by)), "bc", count)
  OBVIOUS
<1>2. PICK g : g = WriteFlags(moved, flags)
  OBVIOUS
<1>3. /\ Same(f, moved, {"hl", "de", "bc"})
      /\ moved.hl = Plus(f.hl, by) /\ moved.de = Plus(f.de, by) /\ moved.bc = count
  BY <1>1, GetPut, InCore DEF Same
<1>4. Same(moved, g, {"f", "pending"}) /\ g.f = flags
  BY <1>2, <1>3, FlagsWritten DEF Same
<1>5. /\ Same(f, g, {"hl", "de", "bc", "f", "pending"})
      /\ g.hl = moved.hl /\ g.de = moved.de /\ g.bc = moved.bc
  BY <1>3, <1>4, InCore DEF Same
<1>6. moved = [f EXCEPT !.hl = Plus(@, by), !.de = Plus(@, by), !.bc = count]
  BY <1>1 DEF Put
<1>7. TransferHook(f) = IF ~block_repeats(g) \/ ~(count # 0) THEN end_instruction_here(g)
        ELSE WriteFlags(g, Alu!block_repeat_undocumented(g.f, High(Plus(g.pc, -2))))
  BY <1>2, <1>3, <1>6 DEF TransferHook, OnceMore
<1>8. block_repeats(g) <=> block_repeats(f)
  BY <1>5, InCore DEF Same, block_repeats
<1>9. Exit("block_transfer", f) = TransferHook(f) /\ end_instruction_here(g) = Stops(g) /\
        g.pc = f.pc
  BY <1>5, ExitBlocks, InCore DEF end_instruction_here, Stops, Put, Same
<1>10. Turned(f, g, e, again, k)
  BY <1>7, <1>8, <1>9 DEF Turned
<1>11. /\ Same(g, e, {"f", "pending", "cycle_limit", "cycle"})
       /\ again => /\ e.cycle_limit = g.cycle_limit
                   /\ e.f = Alu!block_repeat_undocumented(g.f, High(Plus(f.pc, -2)))
       /\ ~again => e.cycle_limit = g.cycle + 1 /\ e.f = g.f
  BY <1>9, <1>10, <1>5, TurnedLeaves DEF Same
<1> QED BY <1>3, <1>4, <1>5, <1>11, InCore DEF Same

LEMMA LeavesCompare ==
  ASSUME NEW f, Shaped(f), NEW k, NEW e, e = Put(Exit("block_compare", f), "cycle", k),
         NEW by, by = block_delta(f), NEW count, count = Plus(f.bc, -1),
         NEW flags, flags = Alu!block_compare_flags(f.a, f.f, f.bus_data, count # 0),
         NEW again \in BOOLEAN, again <=> (block_repeats(f) /\ count # 0 /\ "Z" \notin flags)
  PROVE  /\ Same(f, e, {"hl", "wz", "bc", "f", "pending", "cycle_limit", "cycle"})
         /\ e.hl = Plus(f.hl, by)
         /\ e.wz = Plus(f.wz, by)
         /\ e.bc = count
         /\ again => /\ e.cycle_limit = f.cycle_limit
                     /\ e.f = Alu!block_repeat_undocumented(flags, High(Plus(f.pc, -2)))
         /\ ~again => e.cycle_limit = f.cycle + 1 /\ e.f = flags
<1>1. PICK moved : moved = Put(Put(Put(f, "hl", Plus(f.hl, by)), "wz", Plus(f.wz, by)), "bc", count)
  OBVIOUS
<1>2. PICK g : g = WriteFlags(moved, flags)
  OBVIOUS
<1>3. /\ Same(f, moved, {"hl", "wz", "bc"})
      /\ moved.hl = Plus(f.hl, by) /\ moved.wz = Plus(f.wz, by) /\ moved.bc = count
  BY <1>1, GetPut, InCore DEF Same
<1>4. Same(moved, g, {"f", "pending"}) /\ g.f = flags
  BY <1>2, <1>3, FlagsWritten DEF Same
<1>5. /\ Same(f, g, {"hl", "wz", "bc", "f", "pending"})
      /\ g.hl = moved.hl /\ g.wz = moved.wz /\ g.bc = moved.bc
  BY <1>3, <1>4, InCore DEF Same
<1>6. moved = [f EXCEPT !.hl = Plus(@, by), !.wz = Plus(@, by), !.bc = count]
  BY <1>1 DEF Put
<1>7. CompareHook(f) = IF ~block_repeats(g) \/
        ~(count # 0 /\ "Z" \notin flags) THEN end_instruction_here(g)
        ELSE WriteFlags(g, Alu!block_repeat_undocumented(g.f, High(Plus(g.pc, -2))))
  BY <1>2, <1>3, <1>6 DEF CompareHook, OnceMore
<1>8. block_repeats(g) <=> block_repeats(f)
  BY <1>5, InCore DEF Same, block_repeats
<1>9. Exit("block_compare", f) = CompareHook(f) /\ end_instruction_here(g) = Stops(g) /\ g.pc = f.pc
  BY <1>5, ExitBlocks, InCore DEF end_instruction_here, Stops, Put, Same
<1>10. Turned(f, g, e, again, k)
  BY <1>7, <1>8, <1>9 DEF Turned
<1>11. /\ Same(g, e, {"f", "pending", "cycle_limit", "cycle"})
       /\ again => /\ e.cycle_limit = g.cycle_limit
                   /\ e.f = Alu!block_repeat_undocumented(g.f, High(Plus(f.pc, -2)))
       /\ ~again => e.cycle_limit = g.cycle + 1 /\ e.f = g.f
  BY <1>9, <1>10, <1>5, TurnedLeaves DEF Same
<1> QED BY <1>3, <1>4, <1>5, <1>11, InCore DEF Same

LEMMA LeavesBlockIn ==
  ASSUME NEW f, Shaped(f), NEW k, NEW e, e = Put(Exit("block_in", f), "cycle", k),
         NEW by, by = block_delta(f), NEW b, b = (High(f.bc) - 1) % 256,
         NEW flags, flags = Alu!block_io_flags(b, f.bus_data, (Low(f.bc) + by) % 256),
         NEW again \in BOOLEAN, again <=> (block_repeats(f) /\ b # 0)
  PROVE  /\ Same(f, e, {"wz", "bc", "hl", "f", "pending", "cycle_limit", "cycle"})
         /\ e.wz = Plus(f.bc, by)
         /\ e.bc = WithHigh(f.bc, b)
         /\ e.hl = Plus(f.hl, by)
         /\ again => /\ e.cycle_limit = f.cycle_limit
                     /\ e.f = Alu!block_repeat_undocumented(flags, High(Plus(f.pc, -2)))
         /\ ~again => e.cycle_limit = f.cycle + 1 /\ e.f = flags
<1>1. PICK moved : moved = Put(Put(Put(f, "wz", Plus(f.bc, by)), "bc", WithHigh(f.bc, b)), "hl",
        Plus(f.hl, by))
  OBVIOUS
<1>2. PICK g : g = WriteFlags(moved, flags)
  OBVIOUS
<1>3. /\ Same(f, moved, {"wz", "bc", "hl"})
      /\ moved.wz = Plus(f.bc, by) /\ moved.bc = WithHigh(f.bc, b) /\ moved.hl = Plus(f.hl, by)
  BY <1>1, GetPut, InCore DEF Same
<1>4. Same(moved, g, {"f", "pending"}) /\ g.f = flags
  BY <1>2, <1>3, FlagsWritten DEF Same
<1>5. /\ Same(f, g, {"wz", "bc", "hl", "f", "pending"})
      /\ g.wz = moved.wz /\ g.bc = moved.bc /\ g.hl = moved.hl
  BY <1>3, <1>4, InCore DEF Same
<1>6. moved = [f EXCEPT !.wz = Plus(f.bc, by), !.bc = WithHigh(@, b), !.hl = Plus(@, by)]
  BY <1>1 DEF Put
<1>7. BlockInHook(f) = IF ~block_repeats(g) \/ ~(b # 0) THEN end_instruction_here(g)
        ELSE WriteFlags(g, Alu!block_repeat_undocumented(g.f, High(Plus(g.pc, -2))))
  BY <1>2, <1>3, <1>6 DEF BlockInHook, OnceMore
<1>8. block_repeats(g) <=> block_repeats(f)
  BY <1>5, InCore DEF Same, block_repeats
<1>9. Exit("block_in", f) = BlockInHook(f) /\ end_instruction_here(g) = Stops(g) /\ g.pc = f.pc
  BY <1>5, ExitBlocks, InCore DEF end_instruction_here, Stops, Put, Same
<1>10. Turned(f, g, e, again, k)
  BY <1>7, <1>8, <1>9 DEF Turned
<1>11. /\ Same(g, e, {"f", "pending", "cycle_limit", "cycle"})
       /\ again => /\ e.cycle_limit = g.cycle_limit
                   /\ e.f = Alu!block_repeat_undocumented(g.f, High(Plus(f.pc, -2)))
       /\ ~again => e.cycle_limit = g.cycle + 1 /\ e.f = g.f
  BY <1>9, <1>10, <1>5, TurnedLeaves DEF Same
<1> QED BY <1>3, <1>4, <1>5, <1>11, InCore DEF Same

LEMMA LeavesBlockOut ==
  ASSUME NEW f, Shaped(f), NEW k, NEW e, e = Put(Exit("block_exit_out", f), "cycle", k),
         NEW by, by = block_delta(f), NEW b, b = High(f.bc),
         NEW flags, flags = Alu!block_io_flags(b, f.bus_data, Low(Plus(f.hl, by))),
         NEW again \in BOOLEAN, again <=> (block_repeats(f) /\ b # 0)
  PROVE  /\ Same(f, e, {"hl", "wz", "f", "pending", "cycle_limit", "cycle"})
         /\ e.hl = Plus(f.hl, by)
         /\ e.wz = Plus(f.bc, by)
         /\ again => /\ e.cycle_limit = f.cycle_limit
                     /\ e.f = Alu!block_repeat_undocumented(flags, High(Plus(f.pc, -2)))
         /\ ~again => e.cycle_limit = f.cycle + 1 /\ e.f = flags
<1>1. PICK moved : moved = Put(Put(f, "hl", Plus(f.hl, by)), "wz", Plus(f.bc, by))
  OBVIOUS
<1>2. PICK g : g = WriteFlags(moved, flags)
  OBVIOUS
<1>3. /\ Same(f, moved, {"hl", "wz"})
      /\ moved.hl = Plus(f.hl, by) /\ moved.wz = Plus(f.bc, by)
  BY <1>1, GetPut, InCore DEF Same
<1>4. Same(moved, g, {"f", "pending"}) /\ g.f = flags
  BY <1>2, <1>3, FlagsWritten DEF Same
<1>5. /\ Same(f, g, {"hl", "wz", "f", "pending"})
      /\ g.hl = moved.hl /\ g.wz = moved.wz
  BY <1>3, <1>4, InCore DEF Same
<1>6. moved = [f EXCEPT !.hl = Plus(@, by), !.wz = Plus(f.bc, by)]
  BY <1>1 DEF Put
<1>7. BlockOutHook(f) = IF ~block_repeats(g) \/ ~(b # 0) THEN end_instruction_here(g)
        ELSE WriteFlags(g, Alu!block_repeat_undocumented(g.f, High(Plus(g.pc, -2))))
  BY <1>2, <1>3, <1>6 DEF BlockOutHook, OnceMore
<1>8. block_repeats(g) <=> block_repeats(f)
  BY <1>5, InCore DEF Same, block_repeats
<1>9. Exit("block_exit_out", f) = BlockOutHook(f) /\ end_instruction_here(g) = Stops(g) /\
        g.pc = f.pc
  BY <1>5, ExitBlocks, InCore DEF end_instruction_here, Stops, Put, Same
<1>10. Turned(f, g, e, again, k)
  BY <1>7, <1>8, <1>9 DEF Turned
<1>11. /\ Same(g, e, {"f", "pending", "cycle_limit", "cycle"})
       /\ again => /\ e.cycle_limit = g.cycle_limit
                   /\ e.f = Alu!block_repeat_undocumented(g.f, High(Plus(f.pc, -2)))
       /\ ~again => e.cycle_limit = g.cycle + 1 /\ e.f = g.f
  BY <1>9, <1>10, <1>5, TurnedLeaves DEF Same
<1> QED BY <1>3, <1>4, <1>5, <1>11, InCore DEF Same

(* The rows of the manual's table of passes: what a row computes on its     *)
(* way, and what it then leaves, going on or not.                          *)
Direction(o, up) == up = (IF (o \div 8) % 2 = 1 THEN -1 ELSE 1)
PassTransfersRow(s, m, port, up, count, flags, v) ==
  /\ count = Manual!Add(s.bc, -1)
  /\ flags = Manual!block_transfer_flags(s.a, s.f, Manual!Peek(m, s.hl), count # 0)
  /\ \E u : /\ u = [[s EXCEPT !.hl = Manual!Add(s.hl, up), !.bc = count] EXCEPT !.f = flags]
           /\ v = [u EXCEPT !.de = Manual!Add(@, up)]

LEMMA PassTransfersIs ==
  ASSUME NEW s, NEW m, NEW o, o % 4 = 0, NEW port, NEW pc, NEW up, NEW count, NEW flags, NEW v,
         Direction(o, up), PassTransfersRow(s, m, port, up, count, flags, v)
  PROVE  Manual!Pass(s, m, o, port, pc)
           = Manual!Both(Manual!Again(v, o >= 176 /\ count # 0, pc),
             Manual!Poke(m, s.de, Manual!Peek(m, s.hl)))
<1>1. up = IF (o \div 8) % 2 = 1 THEN -1 ELSE 1
  BY DEF Direction
<1> QED BY <1>1 DEF Manual!Pass, Manual!Flagged, PassTransfersRow

PassTransfersTerms(s, m, o, up, port, count, flags, again, t) ==
  /\ o % 4 = 0 /\ Direction(o, up) /\ count = Plus(s.bc, -1)
  /\ flags = Manual!block_transfer_flags(s.a, s.f, Manual!Peek(m, s.hl), count # 0)
  /\ again \in BOOLEAN /\ (again <=> (o >= 176 /\ count # 0))
  /\ t = [s EXCEPT !.hl = Plus(@, up), !.bc = count, !.de = Plus(@, up), !.f = flags]
PassTransfersLeft(s, m, o, port, pc, again, t) ==
  /\ again => Manual!Pass(s, m, o, port, pc)
               = Manual!Both([t EXCEPT !.pc = pc,
                 !.f = Alu!block_repeat_undocumented(@, High(pc))],
                   Manual!Poke(m, s.de, Manual!Peek(m, s.hl)))
  /\ ~again => Manual!Pass(s, m, o, port, pc)
       = Manual!Both(t, Manual!Poke(m, s.de, Manual!Peek(m, s.hl)))

LEMMA PassTransfers ==
  ASSUME NEW s, NEW m, NEW o, NEW up, NEW port, NEW count, NEW flags, NEW again, NEW t, NEW pc,
         PassTransfersTerms(s, m, o, up, port, count, flags, again, t)
  PROVE  PassTransfersLeft(s, m, o, port, pc, again, t)
<1>0. o % 4 = 0 /\ Direction(o, up) /\ again \in BOOLEAN
  BY DEF PassTransfersTerms
<1>20. count = Plus(s.bc, -1) /\
         flags = Manual!block_transfer_flags(s.a, s.f, Manual!Peek(m, s.hl), count # 0)
  BY DEF PassTransfersTerms
<1>21. again <=> (o >= 176 /\ count # 0)
  BY DEF PassTransfersTerms
<1>22. t = [s EXCEPT !.hl = Plus(@, up), !.bc = count, !.de = Plus(@, up), !.f = flags]
  BY DEF PassTransfersTerms
<1>1. PICK u : u = [[s EXCEPT !.hl = Manual!Add(s.hl, up), !.bc = count] EXCEPT !.f = flags]
  OBVIOUS
<1>2. flags = Manual!block_transfer_flags(s.a, s.f, Manual!Peek(m, s.hl), count # 0)
  BY <1>20, SameWords
<1>3. count = Manual!Add(s.bc, -1)
  BY <1>20, SameWords
<1>4. PICK v : v = [u EXCEPT !.de = Manual!Add(@, up)]
  OBVIOUS
<1>5. PassTransfersRow(s, m, port, up, count, flags, v)
  BY <1>1, <1>2, <1>3, <1>4 DEF PassTransfersRow
<1>6. Manual!Pass(s, m, o, port, pc)
        = Manual!Both(Manual!Again(v, o >= 176 /\ count # 0, pc),
          Manual!Poke(m, s.de, Manual!Peek(m, s.hl)))
  BY <1>0, <1>5, PassTransfersIs
<1>7. v = t
  <2>1. u = [s EXCEPT !.hl = Plus(@, up), !.bc = count, !.f = flags]
    BY <1>1, SameWords
  <2> QED BY <1>4, <1>22, <2>1, SameWords
<1>8. Manual!Again(t, o >= 176 /\ count # 0, pc)
        = IF o >= 176 /\ count # 0
          THEN [t EXCEPT !.pc = pc, !.f = Manual!block_repeat_undocumented(@, Manual!Hi(pc))] ELSE t
  BY DEF Manual!Again
<1>9. PICK w : w = [t EXCEPT !.pc = pc, !.f = Manual!block_repeat_undocumented(@, Manual!Hi(pc))]
  OBVIOUS
<1>10. w = [t EXCEPT !.pc = pc, !.f = Alu!block_repeat_undocumented(@, High(pc))]
  BY <1>9, SameWords, SameArithmetic
<1>11. Manual!Again(t, o >= 176 /\ count # 0, pc) = IF o >= 176 /\ count # 0 THEN w ELSE t
  BY <1>8, <1>9
<1>12. CASE again
  BY <1>6, <1>7, <1>10, <1>11, <1>12, <1>21 DEF PassTransfersLeft
<1>13. CASE ~again
  BY <1>6, <1>7, <1>11, <1>13, <1>21 DEF PassTransfersLeft
<1> QED BY <1>0, <1>12, <1>13

PassComparesRow(s, m, port, up, count, flags, v) ==
  /\ count = Manual!Add(s.bc, -1)
  /\ flags = Manual!block_compare_flags(s.a, s.f, Manual!Peek(m, s.hl), count # 0)
  /\ \E u : /\ u = [[s EXCEPT !.hl = Manual!Add(s.hl, up), !.bc = count] EXCEPT !.f = flags]
           /\ v = u

LEMMA PassComparesIs ==
  ASSUME NEW s, NEW m, NEW o, o % 4 = 1, NEW port, NEW pc, NEW up, NEW count, NEW flags, NEW v,
         Direction(o, up), PassComparesRow(s, m, port, up, count, flags, v)
  PROVE  Manual!Pass(s, m, o, port, pc)
           = Manual!Both(Manual!Again(v, o >= 176 /\ count # 0 /\ "Z" \notin flags, pc), m)
<1>1. up = IF (o \div 8) % 2 = 1 THEN -1 ELSE 1
  BY DEF Direction
<1> QED BY <1>1 DEF Manual!Pass, Manual!Flagged, PassComparesRow

PassComparesTerms(s, m, o, up, port, count, flags, again, t) ==
  /\ o % 4 = 1 /\ Direction(o, up) /\ count = Plus(s.bc, -1)
  /\ flags = Manual!block_compare_flags(s.a, s.f, Manual!Peek(m, s.hl), count # 0)
  /\ again \in BOOLEAN /\ (again <=> (o >= 176 /\ count # 0 /\ "Z" \notin flags))
  /\ t = [s EXCEPT !.hl = Plus(@, up), !.bc = count, !.f = flags]
PassComparesLeft(s, m, o, port, pc, again, t) ==
  /\ again => Manual!Pass(s, m, o, port, pc)
               = Manual!Both([t EXCEPT !.pc = pc,
                 !.f = Alu!block_repeat_undocumented(@, High(pc))], m)
  /\ ~again => Manual!Pass(s, m, o, port, pc) = Manual!Both(t, m)

LEMMA PassCompares ==
  ASSUME NEW s, NEW m, NEW o, NEW up, NEW port, NEW count, NEW flags, NEW again, NEW t, NEW pc,
         PassComparesTerms(s, m, o, up, port, count, flags, again, t)
  PROVE  PassComparesLeft(s, m, o, port, pc, again, t)
<1>0. o % 4 = 1 /\ Direction(o, up) /\ again \in BOOLEAN
  BY DEF PassComparesTerms
<1>20. count = Plus(s.bc, -1) /\
         flags = Manual!block_compare_flags(s.a, s.f, Manual!Peek(m, s.hl), count # 0)
  BY DEF PassComparesTerms
<1>21. again <=> (o >= 176 /\ count # 0 /\ "Z" \notin flags)
  BY DEF PassComparesTerms
<1>22. t = [s EXCEPT !.hl = Plus(@, up), !.bc = count, !.f = flags]
  BY DEF PassComparesTerms
<1>1. PICK u : u = [[s EXCEPT !.hl = Manual!Add(s.hl, up), !.bc = count] EXCEPT !.f = flags]
  OBVIOUS
<1>2. flags = Manual!block_compare_flags(s.a, s.f, Manual!Peek(m, s.hl), count # 0)
  BY <1>20, SameWords
<1>3. count = Manual!Add(s.bc, -1)
  BY <1>20, SameWords
<1>4. PICK v : v = u
  OBVIOUS
<1>5. PassComparesRow(s, m, port, up, count, flags, v)
  BY <1>1, <1>2, <1>3, <1>4 DEF PassComparesRow
<1>6. Manual!Pass(s, m, o, port, pc)
        = Manual!Both(Manual!Again(v, o >= 176 /\ count # 0 /\ "Z" \notin flags, pc), m)
  BY <1>0, <1>5, PassComparesIs
<1>7. v = t
  <2>1. u = [s EXCEPT !.hl = Plus(@, up), !.bc = count, !.f = flags]
    BY <1>1, SameWords
  <2> QED BY <1>4, <1>22, <2>1, SameWords
<1>8. Manual!Again(t, o >= 176 /\ count # 0 /\ "Z" \notin flags, pc)
        = IF o >= 176 /\ count # 0 /\ "Z" \notin flags
          THEN [t EXCEPT !.pc = pc, !.f = Manual!block_repeat_undocumented(@, Manual!Hi(pc))] ELSE t
  BY DEF Manual!Again
<1>9. PICK w : w = [t EXCEPT !.pc = pc, !.f = Manual!block_repeat_undocumented(@, Manual!Hi(pc))]
  OBVIOUS
<1>10. w = [t EXCEPT !.pc = pc, !.f = Alu!block_repeat_undocumented(@, High(pc))]
  BY <1>9, SameWords, SameArithmetic
<1>11. Manual!Again(t, o >= 176 /\ count # 0 /\ "Z" \notin flags, pc) = IF o >= 176 /\ count # 0 /\
         "Z" \notin flags THEN w ELSE t
  BY <1>8, <1>9
<1>12. CASE again
  BY <1>6, <1>7, <1>10, <1>11, <1>12, <1>21 DEF PassComparesLeft
<1>13. CASE ~again
  BY <1>6, <1>7, <1>11, <1>13, <1>21 DEF PassComparesLeft
<1> QED BY <1>0, <1>12, <1>13

PassReadsRow(s, m, port, up, count, flags, v) ==
  /\ count = (Manual!Hi(s.bc) - 1) % 256
  /\ flags = Manual!block_io_flags(count, port, (Manual!Lo(s.bc) + up) % 256)
  /\ \E u : /\ u = [[s EXCEPT !.hl = Manual!Add(s.hl, up),
                 !.bc = 256 * count + Manual!Lo(@)] EXCEPT !.f = flags]
           /\ v = u

LEMMA PassReadsIs ==
  ASSUME NEW s, NEW m, NEW o, o % 4 = 2, NEW port, NEW pc, NEW up, NEW count, NEW flags, NEW v,
         Direction(o, up), PassReadsRow(s, m, port, up, count, flags, v)
  PROVE  Manual!Pass(s, m, o, port, pc)
           = Manual!Both(Manual!Again(v, o >= 176 /\ count # 0, pc), Manual!Poke(m, s.hl, port))
<1>1. Manual!Pass(s, m, o, port, pc)
        = Manual!Both(Manual!Again([[s EXCEPT !.hl = Manual!Add(s.hl, IF (o \div 8) % 2 = 1 THEN -1
          ELSE 1), !.bc = 256 * ((Manual!Hi(s.bc) - 1) % 256) + Manual!Lo(@)] EXCEPT !.f
            = Manual!block_io_flags((Manual!Hi(s.bc) - 1) % 256, port,
              (Manual!Lo(s.bc) + (IF (o \div 8) % 2 = 1 THEN -1 ELSE 1)) % 256)], o >= 176 /\
                ((Manual!Hi(s.bc) - 1) % 256) # 0, pc),
       Manual!Poke(m, s.hl, port))
  BY DEF Manual!Pass, Manual!Flagged
<1>2. PICK k : k = (Manual!Lo(s.bc) + (IF (o \div 8) % 2 = 1 THEN -1 ELSE 1)) % 256
  OBVIOUS
<1>3. k = (Manual!Lo(s.bc) + up) % 256
  BY <1>2 DEF Direction
<1>4. PICK c : c = (Manual!Hi(s.bc) - 1) % 256
  OBVIOUS
<1>5. Manual!Pass(s, m, o, port, pc)
        = Manual!Both(Manual!Again([[s EXCEPT !.hl = Manual!Add(s.hl, IF (o \div 8) % 2 = 1 THEN -1
          ELSE 1), !.bc = 256 * c + Manual!Lo(@)] EXCEPT !.f = Manual!block_io_flags(c, port, k)],
            o >= 176 /\ c # 0, pc),
       Manual!Poke(m, s.hl, port))
  BY <1>1, <1>2, <1>4
<1>6. PICK x : x = (IF (o \div 8) % 2 = 1 THEN -1 ELSE 1)
  OBVIOUS
<1>7. Manual!Pass(s, m, o, port, pc)
        = Manual!Both(Manual!Again([[s EXCEPT !.hl = Manual!Add(s.hl, x),
          !.bc = 256 * c + Manual!Lo(@)] EXCEPT !.f = Manual!block_io_flags(c, port, k)],
            o >= 176 /\ c # 0, pc),
       Manual!Poke(m, s.hl, port))
  BY <1>5, <1>6
<1>8. x = up
  BY <1>6 DEF Direction
<1>9. c = count /\ Manual!block_io_flags(c, port, k) = flags
  BY <1>3, <1>4 DEF PassReadsRow
<1>10. v = [[s EXCEPT !.hl = Manual!Add(s.hl, up), !.bc = 256 * count + Manual!Lo(@)] EXCEPT !.f
         = flags]
  BY DEF PassReadsRow
<1> QED BY <1>7, <1>8, <1>9, <1>10

PassReadsTerms(s, m, o, up, port, count, flags, again, t) ==
  /\ o % 4 = 2 /\ Direction(o, up) /\ count = (High(s.bc) - 1) % 256
  /\ flags = Manual!block_io_flags(count, port, (Low(s.bc) + up) % 256)
  /\ again \in BOOLEAN /\ (again <=> (o >= 176 /\ count # 0))
  /\ t = [s EXCEPT !.hl = Plus(@, up), !.bc = 256 * count + Low(@), !.f = flags]
PassReadsLeft(s, m, o, port, pc, again, t) ==
  /\ again => Manual!Pass(s, m, o, port, pc)
               = Manual!Both([t EXCEPT !.pc = pc,
                 !.f = Alu!block_repeat_undocumented(@, High(pc))], Manual!Poke(m, s.hl, port))
  /\ ~again => Manual!Pass(s, m, o, port, pc) = Manual!Both(t, Manual!Poke(m, s.hl, port))

LEMMA PassReads ==
  ASSUME NEW s, NEW m, NEW o, NEW up, NEW port, NEW count, NEW flags, NEW again, NEW t, NEW pc,
         PassReadsTerms(s, m, o, up, port, count, flags, again, t)
  PROVE  PassReadsLeft(s, m, o, port, pc, again, t)
<1>0. o % 4 = 2 /\ Direction(o, up) /\ again \in BOOLEAN
  BY DEF PassReadsTerms
<1>20. count = (High(s.bc) - 1) % 256 /\
         flags = Manual!block_io_flags(count, port, (Low(s.bc) + up) % 256)
  BY DEF PassReadsTerms
<1>21. again <=> (o >= 176 /\ count # 0)
  BY DEF PassReadsTerms
<1>22. t = [s EXCEPT !.hl = Plus(@, up), !.bc = 256 * count + Low(@), !.f = flags]
  BY DEF PassReadsTerms
<1>1. PICK u : u = [[s EXCEPT !.hl = Manual!Add(s.hl, up),
        !.bc = 256 * count + Manual!Lo(@)] EXCEPT !.f = flags]
  OBVIOUS
<1>2. flags = Manual!block_io_flags(count, port, (Manual!Lo(s.bc) + up) % 256)
  BY <1>20, SameWords
<1>3. count = (Manual!Hi(s.bc) - 1) % 256
  BY <1>20, SameWords
<1>4. PICK v : v = u
  OBVIOUS
<1>5. PassReadsRow(s, m, port, up, count, flags, v)
  BY <1>1, <1>2, <1>3, <1>4 DEF PassReadsRow
<1>6. Manual!Pass(s, m, o, port, pc)
        = Manual!Both(Manual!Again(v, o >= 176 /\ count # 0, pc), Manual!Poke(m, s.hl, port))
  BY <1>0, <1>5, PassReadsIs
<1>7. v = t
  <2>1. u = [s EXCEPT !.hl = Plus(@, up), !.bc = 256 * count + Low(@), !.f = flags]
    BY <1>1, SameWords
  <2> QED BY <1>4, <1>22, <2>1, SameWords
<1>8. Manual!Again(t, o >= 176 /\ count # 0, pc)
        = IF o >= 176 /\ count # 0
          THEN [t EXCEPT !.pc = pc, !.f = Manual!block_repeat_undocumented(@, Manual!Hi(pc))] ELSE t
  BY DEF Manual!Again
<1>9. PICK w : w = [t EXCEPT !.pc = pc, !.f = Manual!block_repeat_undocumented(@, Manual!Hi(pc))]
  OBVIOUS
<1>10. w = [t EXCEPT !.pc = pc, !.f = Alu!block_repeat_undocumented(@, High(pc))]
  BY <1>9, SameWords, SameArithmetic
<1>11. Manual!Again(t, o >= 176 /\ count # 0, pc) = IF o >= 176 /\ count # 0 THEN w ELSE t
  BY <1>8, <1>9
<1>12. CASE again
  BY <1>6, <1>7, <1>10, <1>11, <1>12, <1>21 DEF PassReadsLeft
<1>13. CASE ~again
  BY <1>6, <1>7, <1>11, <1>13, <1>21 DEF PassReadsLeft
<1> QED BY <1>0, <1>12, <1>13

PassWritesRow(s, m, port, up, count, flags, v) ==
  /\ count = (Manual!Hi(s.bc) - 1) % 256
  /\ flags = Manual!block_io_flags(count, Manual!Peek(m, s.hl), Manual!Lo(Manual!Add(s.hl, up)))
  /\ \E u : /\ u = [[s EXCEPT !.hl = Manual!Add(s.hl, up),
                 !.bc = 256 * count + Manual!Lo(@)] EXCEPT !.f = flags]
           /\ v = u

LEMMA PassWritesIs ==
  ASSUME NEW s, NEW m, NEW o, o % 4 = 3, NEW port, NEW pc, NEW up, NEW count, NEW flags, NEW v,
         Direction(o, up), PassWritesRow(s, m, port, up, count, flags, v)
  PROVE  Manual!Pass(s, m, o, port, pc) = Manual!Both(Manual!Again(v, o >= 176 /\ count # 0, pc), m)
<1>1. up = IF (o \div 8) % 2 = 1 THEN -1 ELSE 1
  BY DEF Direction
<1> QED BY <1>1 DEF Manual!Pass, Manual!Flagged, PassWritesRow

PassWritesTerms(s, m, o, up, port, count, flags, again, t) ==
  /\ o % 4 = 3 /\ Direction(o, up) /\ count = (High(s.bc) - 1) % 256
  /\ flags = Manual!block_io_flags(count, Manual!Peek(m, s.hl), Low(Plus(s.hl, up)))
  /\ again \in BOOLEAN /\ (again <=> (o >= 176 /\ count # 0))
  /\ t = [s EXCEPT !.hl = Plus(@, up), !.bc = 256 * count + Low(@), !.f = flags]
PassWritesLeft(s, m, o, port, pc, again, t) ==
  /\ again => Manual!Pass(s, m, o, port, pc)
               = Manual!Both([t EXCEPT !.pc = pc,
                 !.f = Alu!block_repeat_undocumented(@, High(pc))], m)
  /\ ~again => Manual!Pass(s, m, o, port, pc) = Manual!Both(t, m)

LEMMA PassWrites ==
  ASSUME NEW s, NEW m, NEW o, NEW up, NEW port, NEW count, NEW flags, NEW again, NEW t, NEW pc,
         PassWritesTerms(s, m, o, up, port, count, flags, again, t)
  PROVE  PassWritesLeft(s, m, o, port, pc, again, t)
<1>0. o % 4 = 3 /\ Direction(o, up) /\ again \in BOOLEAN
  BY DEF PassWritesTerms
<1>20. count = (High(s.bc) - 1) % 256 /\
         flags = Manual!block_io_flags(count, Manual!Peek(m, s.hl), Low(Plus(s.hl, up)))
  BY DEF PassWritesTerms
<1>21. again <=> (o >= 176 /\ count # 0)
  BY DEF PassWritesTerms
<1>22. t = [s EXCEPT !.hl = Plus(@, up), !.bc = 256 * count + Low(@), !.f = flags]
  BY DEF PassWritesTerms
<1>1. PICK u : u = [[s EXCEPT !.hl = Manual!Add(s.hl, up),
        !.bc = 256 * count + Manual!Lo(@)] EXCEPT !.f = flags]
  OBVIOUS
<1>2. flags = Manual!block_io_flags(count, Manual!Peek(m, s.hl), Manual!Lo(Manual!Add(s.hl, up)))
  BY <1>20, SameWords
<1>3. count = (Manual!Hi(s.bc) - 1) % 256
  BY <1>20, SameWords
<1>4. PICK v : v = u
  OBVIOUS
<1>5. PassWritesRow(s, m, port, up, count, flags, v)
  BY <1>1, <1>2, <1>3, <1>4 DEF PassWritesRow
<1>6. Manual!Pass(s, m, o, port, pc) = Manual!Both(Manual!Again(v, o >= 176 /\ count # 0, pc), m)
  BY <1>0, <1>5, PassWritesIs
<1>7. v = t
  <2>1. u = [s EXCEPT !.hl = Plus(@, up), !.bc = 256 * count + Low(@), !.f = flags]
    BY <1>1, SameWords
  <2> QED BY <1>4, <1>22, <2>1, SameWords
<1>8. Manual!Again(t, o >= 176 /\ count # 0, pc)
        = IF o >= 176 /\ count # 0
          THEN [t EXCEPT !.pc = pc, !.f = Manual!block_repeat_undocumented(@, Manual!Hi(pc))] ELSE t
  BY DEF Manual!Again
<1>9. PICK w : w = [t EXCEPT !.pc = pc, !.f = Manual!block_repeat_undocumented(@, Manual!Hi(pc))]
  OBVIOUS
<1>10. w = [t EXCEPT !.pc = pc, !.f = Alu!block_repeat_undocumented(@, High(pc))]
  BY <1>9, SameWords, SameArithmetic
<1>11. Manual!Again(t, o >= 176 /\ count # 0, pc) = IF o >= 176 /\ count # 0 THEN w ELSE t
  BY <1>8, <1>9
<1>12. CASE again
  BY <1>6, <1>7, <1>10, <1>11, <1>12, <1>21 DEF PassWritesLeft
<1>13. CASE ~again
  BY <1>6, <1>7, <1>11, <1>13, <1>21 DEF PassWritesLeft
<1> QED BY <1>0, <1>12, <1>13
-----------------------------------------------------------------------------
(***************************************************************************)
(* The cycles of a pass up to the one that decides.                        *)
(***************************************************************************)

(* One pass of a block instruction: its cycles up to the one that decides   *)
(* whether there is another.                                               *)
LEMMA HighOfPort ==
  ASSUME NEW w \in Word, NEW v, v = WithHigh(w, (High(w) - 1) % 256)
  PROVE  High(v) = (High(w) - 1) % 256
<1>1. w \div 256 \in 0 .. 255
  BY DEF Word, Alu!Word
<1>2. PICK h \in 0 .. 255 : h = High(w)
  BY <1>1 DEF High
<1>3. PICK b \in 0 .. 255 : b = (h - 1) % 256
  OBVIOUS
<1>4. PICK k \in 0 .. 255 : k = w % 256
  BY DEF Word, Alu!Word
<1>5. v = 256 * b + k
  BY <1>2, <1>3, <1>4 DEF WithHigh
<1>6. v \div 256 = b
  BY <1>5
<1> QED BY <1>2, <1>3, <1>6 DEF High

LEMMA BlockOpcode ==
  ASSUME NEW e, NEW m, NEW at, BeginsEd(e, m, at), e.instr \in BlockInstrs
  PROVE  /\ X(e.opcode) = 2 /\ Y(e.opcode) \in 4 .. 7
         /\ block_repeats(e) <=> e.opcode >= 176
         /\ Direction(e.opcode, block_delta(e))
<1>1. e.opcode \in Byte /\ e.instr = DecodeEd(e.opcode)
  BY CoreTypes DEF BeginsEd
<1>2. X(e.opcode) = 2 /\ Y(e.opcode) \in 4 .. 7
  BY <1>1, MapEd DEF BlockInstrs
<1>3. Z(e.opcode) \in 0 .. 7 /\ e.opcode = 64 * X(e.opcode) + 8 * Y(e.opcode) + Z(e.opcode)
  BY <1>1, FieldsType, OpcodeOf
<1>4. PICK y \in {4, 5, 6, 7}, z \in 0 .. 7 : e.opcode = 128 + 8 * y + z
  BY <1>2, <1>3
<1>5. (e.opcode \div 16) % 2 = 1 <=> e.opcode >= 176
  BY <1>4
<1>6. Y(e.opcode) = y /\ (e.opcode \div 8) % 2 = y % 2
  BY <1>4, <1>2, <1>3
<1>7. block_delta(e) = IF (e.opcode \div 8) % 2 = 1 THEN -1 ELSE 1
  BY <1>6 DEF block_delta
<1> QED BY <1>2, <1>5, <1>7 DEF block_repeats, Direction

TransferSums(c, byte, by, count, flags, again) ==
  /\ by = block_delta(c)
  /\ count = Plus(c.bc, -1)
  /\ flags = Alu!block_transfer_flags(c.a, c.f, byte, count # 0)
  /\ again <=> (block_repeats(c) /\ count # 0)
CompareSums(c, byte, by, count, flags, again) ==
  /\ by = block_delta(c)
  /\ count = Plus(c.bc, -1)
  /\ flags = Alu!block_compare_flags(c.a, c.f, byte, count # 0)
  /\ again <=> (block_repeats(c) /\ count # 0 /\ "Z" \notin flags)
InSums(c, byte, by, count, flags, again) ==
  /\ by = block_delta(c)
  /\ count = (High(c.bc) - 1) % 256
  /\ flags = Alu!block_io_flags(count, byte, (Low(c.bc) + by) % 256)
  /\ again <=> (block_repeats(c) /\ count # 0)
OutSums(c, byte, by, count, flags, again) ==
  /\ by = block_delta(c)
  /\ count = (High(c.bc) - 1) % 256
  /\ flags = Alu!block_io_flags(count, byte, Low(Plus(c.hl, by)))
  /\ again <=> (block_repeats(c) /\ count # 0)

LEMMA TransferTurns ==
  ASSUME NEW e, NEW m, NEW at, BeginsEd(e, m, at), e.instr = "ed_block_transfer",
         NEW d1, NEW m1, NEW d2, NEW m2, NEW d, NEW l,
         OneCycle(e, m, d1, m1), OneCycle(d1, m1, d2, m2), OneCycle(d2, m2, d, l)
  PROVE  \E by, count, flags : \E again \in BOOLEAN :
           /\ TransferSums(e, Manual!Peek(m, e.hl), by, count, flags, again)
           /\ Same(e, d, {"bus_addr", "bus_data", "hl", "de", "bc", "f", "pending", "cycle_limit",
                "cycle"})
           /\ d.hl = Plus(e.hl, by)
           /\ d.de = Plus(e.de, by)
           /\ d.bc = count
           /\ l = Manual!Poke(m, e.de, Manual!Peek(m, e.hl))
           /\ d.cycle = 3
           /\ again => d.cycle_limit = e.cycle_limit /\
                d.f = Alu!block_repeat_undocumented(flags, High(Plus(e.pc, -2)))
           /\ ~again => d.cycle_limit = 3 /\ d.f = flags
<1>1. Typed(e) /\ Shaped(e) /\ ByteMemory(m)
  BY CoreTypes DEF BeginsEd
<1>2. /\ e.instr = "ed_block_transfer" /\ e.cycle = 0 /\ Shaped(e)
      /\ d1.instr = "ed_block_transfer" /\ d1.cycle = 1 /\ Shaped(d1)
      /\ d2.instr = "ed_block_transfer" /\ d2.cycle = 2 /\ Shaped(d2)
      /\ d.cycle = 3
  BY Fields DEF OneCycle, BeginsEd
<1>3. CyclesOf["ed_block_transfer"] = BlockCycles("ed_block_transfer") /\
        HooksOf["ed_block_transfer"] = BlockCycleHooks("ed_block_transfer")
  BY GroupCycles, GroupHooks DEF Instrs, BlockInstrs
<1>4. /\ Enters(e, "mem_read", "at_hl", "none")
      /\ Enters(d1, "mem_write", "at_de", "none")
      /\ Enters(d2, "idle2", "none", "block_transfer")
  BY <1>2, <1>3 DEF Enters, BlockCycles, BlockCycleHooks, On, Idle, Read, Write, IoIn, IoOut,
     Idle1, Idle2, Idle5
<1>5. PICK f1 :
       /\ Same(e, f1, {"bus_addr", "bus_data"}) /\ f1.bus_data = Manual!Peek(m, e.hl)
       /\ d1 = Put(Exit("none", f1), "cycle", 1) /\ m1 = m
  BY <1>2, <1>4, AtHlReads
<1>6. Same(e, d1, {"bus_addr", "bus_data", "cycle"}) /\ d1.bus_data = Manual!Peek(m, e.hl) /\
        m1 = m /\ d1.de = e.de
  BY <1>5, Leaves, <1>1, InCore DEF Same
<1>7. Enter("at_de", d1) = Put(d1, "bus_addr", d1.de)
  BY <1>2, EnterReads
<1>8. PICK f2 : /\ Same(d1, f2, {"bus_addr"}) /\ d2 = Put(Exit("none", f2), "cycle", 2)
                /\ m2 = Manual!Poke(m1, d1.de, d1.bus_data)
  BY <1>2, <1>4, <1>7, KeepsWrites
<1>9. Same(d1, d2, {"bus_addr", "cycle"}) /\ m2 = Manual!Poke(m, e.de, Manual!Peek(m, e.hl))
  BY <1>2, <1>6, <1>8, Leaves, InCore DEF Same
<1>10. /\ d = Put(Exit("block_transfer", d2), "cycle", 3) /\ l = m2
  BY <1>2, <1>4, Idles DEF IdleCycles
<1>11. /\ Same(e, d2, {"bus_addr", "bus_data", "cycle"}) /\ Shaped(d2) /\ d2.cycle = 2
       /\ d2.a = e.a /\ d2.f = e.f /\ d2.bc = e.bc /\ d2.hl = e.hl /\ d2.de = e.de /\ d2.pc = e.pc
       /\ d2.opcode = e.opcode /\ d2.cycle_limit = e.cycle_limit /\
            d2.bus_data = Manual!Peek(m, e.hl)
       /\ d = Put(Exit("block_transfer", d2), "cycle", 3)
  BY <1>2, <1>6, <1>9, <1>10, InCore DEF Same
<1>12. PICK by, count : by = block_delta(d2) /\ count = Plus(d2.bc, -1)
  OBVIOUS
<1>13. PICK flags : flags = Alu!block_transfer_flags(d2.a, d2.f, d2.bus_data, count # 0)
  OBVIOUS
<1>14. PICK again \in BOOLEAN : again <=> (block_repeats(d2) /\ count # 0)
  OBVIOUS
<1>15. /\ Same(d2, d, {"hl", "de", "bc", "f", "pending", "cycle_limit", "cycle"})
       /\ d.hl = Plus(d2.hl, by)
       /\ d.de = Plus(d2.de, by)
       /\ d.bc = count
       /\ again => d.cycle_limit = d2.cycle_limit /\
            d.f = Alu!block_repeat_undocumented(flags, High(Plus(d2.pc, -2)))
       /\ ~again => d.cycle_limit = d2.cycle + 1 /\ d.f = flags
  BY <1>11, <1>12, <1>13, <1>14, LeavesTransfer
<1>16. TransferSums(e, Manual!Peek(m, e.hl), by, count, flags, again)
  BY <1>11, <1>12, <1>13, <1>14, <1>1 DEF TransferSums, block_delta, block_repeats
<1>17. /\ Same(e, d, {"bus_addr", "bus_data", "hl", "de", "bc", "f", "pending", "cycle_limit",
            "cycle"})
       /\ d.hl = Plus(e.hl, by)
       /\ d.de = Plus(e.de, by)
       /\ d.bc = count
       /\ again => d.cycle_limit = e.cycle_limit /\
            d.f = Alu!block_repeat_undocumented(flags, High(Plus(e.pc, -2)))
       /\ ~again => d.cycle_limit = 3 /\ d.f = flags
  BY <1>2, <1>11, <1>12, <1>15, InCore DEF Same
<1>18. l = Manual!Poke(m, e.de, Manual!Peek(m, e.hl))
  BY <1>9, <1>10
<1> QED BY <1>2, <1>16, <1>17, <1>18

LEMMA CompareTurns ==
  ASSUME NEW e, NEW m, NEW at, BeginsEd(e, m, at), e.instr = "ed_block_compare",
         NEW d1, NEW m1, NEW d, NEW l,
         OneCycle(e, m, d1, m1), OneCycle(d1, m1, d, l)
  PROVE  \E by, count, flags : \E again \in BOOLEAN :
           /\ CompareSums(e, Manual!Peek(m, e.hl), by, count, flags, again)
           /\ Same(e, d, {"bus_addr", "bus_data", "hl", "wz", "bc", "f", "pending", "cycle_limit",
                "cycle"})
           /\ d.hl = Plus(e.hl, by)
           /\ d.bc = count
           /\ l = m
           /\ d.cycle = 2
           /\ again => d.cycle_limit = e.cycle_limit /\
                d.f = Alu!block_repeat_undocumented(flags, High(Plus(e.pc, -2)))
           /\ ~again => d.cycle_limit = 2 /\ d.f = flags
<1>1. Typed(e) /\ Shaped(e) /\ ByteMemory(m)
  BY CoreTypes DEF BeginsEd
<1>2. /\ e.instr = "ed_block_compare" /\ e.cycle = 0 /\ Shaped(e)
      /\ d1.instr = "ed_block_compare" /\ d1.cycle = 1 /\ Shaped(d1)
      /\ d.cycle = 2
  BY Fields DEF OneCycle, BeginsEd
<1>3. CyclesOf["ed_block_compare"] = BlockCycles("ed_block_compare") /\
        HooksOf["ed_block_compare"] = BlockCycleHooks("ed_block_compare")
  BY GroupCycles, GroupHooks DEF Instrs, BlockInstrs
<1>4. /\ Enters(e, "mem_read", "at_hl", "none")
      /\ Enters(d1, "idle5", "none", "block_compare")
  BY <1>2, <1>3 DEF Enters, BlockCycles, BlockCycleHooks, On, Idle, Read, Write, IoIn, IoOut,
     Idle1, Idle2, Idle5
<1>5. PICK f1 :
       /\ Same(e, f1, {"bus_addr", "bus_data"}) /\ f1.bus_data = Manual!Peek(m, e.hl)
       /\ d1 = Put(Exit("none", f1), "cycle", 1) /\ m1 = m
  BY <1>2, <1>4, AtHlReads
<1>6. Same(e, d1, {"bus_addr", "bus_data", "cycle"}) /\ d1.bus_data = Manual!Peek(m, e.hl) /\ m1 = m
  BY <1>5, Leaves, <1>1, InCore DEF Same
<1>7. d = Put(Exit("block_compare", d1), "cycle", 2) /\ l = m1
  BY <1>2, <1>4, Idles DEF IdleCycles
<1>8. /\ Same(e, d1, {"bus_addr", "bus_data", "cycle"}) /\ Shaped(d1) /\ d1.cycle = 1
       /\ d1.a = e.a /\ d1.f = e.f /\ d1.bc = e.bc /\ d1.hl = e.hl /\ d1.pc = e.pc
       /\ d1.opcode = e.opcode /\ d1.cycle_limit = e.cycle_limit /\
            d1.bus_data = Manual!Peek(m, e.hl)
       /\ d = Put(Exit("block_compare", d1), "cycle", 2)
  BY <1>2, <1>6, <1>7, InCore DEF Same
<1>9. PICK by, count : by = block_delta(d1) /\ count = Plus(d1.bc, -1)
  OBVIOUS
<1>10. PICK flags : flags = Alu!block_compare_flags(d1.a, d1.f, d1.bus_data, count # 0)
  OBVIOUS
<1>11. PICK again \in BOOLEAN : again <=> (block_repeats(d1) /\ count # 0 /\ "Z" \notin flags)
  OBVIOUS
<1>12. /\ Same(d1, d, {"hl", "wz", "bc", "f", "pending", "cycle_limit", "cycle"})
       /\ d.hl = Plus(d1.hl, by)
       /\ d.bc = count
       /\ again => d.cycle_limit = d1.cycle_limit /\
            d.f = Alu!block_repeat_undocumented(flags, High(Plus(d1.pc, -2)))
       /\ ~again => d.cycle_limit = d1.cycle + 1 /\ d.f = flags
  BY <1>8, <1>9, <1>10, <1>11, LeavesCompare
<1>13. CompareSums(e, Manual!Peek(m, e.hl), by, count, flags, again)
  BY <1>8, <1>9, <1>10, <1>11, <1>1 DEF CompareSums, block_delta, block_repeats
<1>14. /\ Same(e, d, {"bus_addr", "bus_data", "hl", "wz", "bc", "f", "pending", "cycle_limit",
            "cycle"})
       /\ d.hl = Plus(e.hl, by)
       /\ d.bc = count
       /\ again => d.cycle_limit = e.cycle_limit /\
            d.f = Alu!block_repeat_undocumented(flags, High(Plus(e.pc, -2)))
       /\ ~again => d.cycle_limit = 2 /\ d.f = flags
  BY <1>2, <1>8, <1>9, <1>12, InCore DEF Same
<1>15. l = m
  BY <1>6, <1>7
<1> QED BY <1>2, <1>13, <1>14, <1>15

LEMMA InTurns ==
  ASSUME NEW e, NEW m, NEW at, BeginsEd(e, m, at), e.instr = "ed_block_in",
         NEW d1, NEW m1, NEW d2, NEW m2, NEW d, NEW l,
         OneCycle(e, m, d1, m1), OneCycle(d1, m1, d2, m2), OneCycle(d2, m2, d, l)
  PROVE  \E port \in PortBytes : \E by, count, flags : \E again \in BOOLEAN :
           /\ InSums(e, port, by, count, flags, again)
           /\ Same(e, d, {"bus_addr", "bus_data", "hl", "wz", "bc", "f", "pending", "cycle_limit",
                "cycle"})
           /\ d.hl = Plus(e.hl, by)
           /\ d.bc = WithHigh(e.bc, count)
           /\ l = Manual!Poke(m, e.hl, port)
           /\ d.cycle = 3
           /\ again => d.cycle_limit = e.cycle_limit /\
                d.f = Alu!block_repeat_undocumented(flags, High(Plus(e.pc, -2)))
           /\ ~again => d.cycle_limit = 3 /\ d.f = flags
<1>1. Typed(e) /\ Shaped(e) /\ ByteMemory(m)
  BY CoreTypes DEF BeginsEd
<1>2. /\ e.instr = "ed_block_in" /\ e.cycle = 0 /\ Shaped(e)
      /\ d1.instr = "ed_block_in" /\ d1.cycle = 1 /\ Shaped(d1)
      /\ d2.instr = "ed_block_in" /\ d2.cycle = 2 /\ Shaped(d2)
      /\ d.cycle = 3
  BY Fields DEF OneCycle, BeginsEd
<1>3. CyclesOf["ed_block_in"] = BlockCycles("ed_block_in") /\
        HooksOf["ed_block_in"] = BlockCycleHooks("ed_block_in")
  BY GroupCycles, GroupHooks DEF Instrs, BlockInstrs
<1>4. /\ Enters(e, "idle1", "none", "none")
      /\ Enters(d1, "io_read", "io_at_bc", "none")
      /\ Enters(d2, "mem_write", "at_hl", "block_in")
  BY <1>2, <1>3 DEF Enters, BlockCycles, BlockCycleHooks, On, Idle, Read, Write, IoIn, IoOut,
     Idle1, Idle2, Idle5
<1>5. d1 = Put(Exit("none", e), "cycle", 1) /\ m1 = m
  BY <1>2, <1>4, Idles DEF IdleCycles
<1>6. Same(e, d1, {"cycle"}) /\ m1 = m
  BY <1>5, Leaves, <1>1, InCore DEF Same
<1>7. Enter("io_at_bc", d1) = Put(d1, "bus_addr", d1.bc)
  BY <1>2, EnterOthers
<1>8. PICK f2 :
       /\ Same(d1, f2, {"bus_addr", "bus_data"}) /\ f2.bus_data \in PortBytes
       /\ d2 = Put(Exit("none", f2), "cycle", 2) /\ m2 = m1
  BY <1>2, <1>4, <1>7, PortReads
<1>9. PICK port \in PortBytes : port = f2.bus_data
  BY <1>8
<1>10. Same(e, d2, {"bus_addr", "bus_data", "cycle"}) /\ d2.bus_data = port /\ m2 = m /\
         d2.hl = e.hl
  BY <1>2, <1>6, <1>8, <1>9, Leaves, InCore DEF Same
<1>11. Enter("at_hl", d2) = Put(d2, "bus_addr", d2.hl)
  BY <1>2, EnterReads
<1>12. PICK f : /\ Same(d2, f, {"bus_addr"}) /\ d = Put(Exit("block_in", f), "cycle", 3)
                /\ l = Manual!Poke(m2, d2.hl, d2.bus_data)
  BY <1>2, <1>4, <1>11, KeepsWrites
<1>13. /\ Same(e, f, {"bus_addr", "bus_data", "cycle"}) /\ Shaped(f) /\ f.cycle = 2
       /\ f.bc = e.bc /\ f.hl = e.hl /\ f.pc = e.pc
       /\ f.opcode = e.opcode /\ f.cycle_limit = e.cycle_limit /\ f.bus_data = port
       /\ d = Put(Exit("block_in", f), "cycle", 3)
  BY <1>2, <1>10, <1>12, InCore DEF Same
<1>14. PICK by, count : by = block_delta(f) /\ count = (High(f.bc) - 1) % 256
  OBVIOUS
<1>15. PICK flags : flags = Alu!block_io_flags(count, f.bus_data, (Low(f.bc) + by) % 256)
  OBVIOUS
<1>16. PICK again \in BOOLEAN : again <=> (block_repeats(f) /\ count # 0)
  OBVIOUS
<1>17. /\ Same(f, d, {"wz", "bc", "hl", "f", "pending", "cycle_limit", "cycle"})
       /\ d.hl = Plus(f.hl, by)
       /\ d.bc = WithHigh(f.bc, count)
       /\ again => d.cycle_limit = f.cycle_limit /\
            d.f = Alu!block_repeat_undocumented(flags, High(Plus(f.pc, -2)))
       /\ ~again => d.cycle_limit = f.cycle + 1 /\ d.f = flags
  BY <1>13, <1>14, <1>15, <1>16, LeavesBlockIn
<1>18. InSums(e, port, by, count, flags, again)
  BY <1>13, <1>14, <1>15, <1>16, <1>1 DEF InSums, block_delta, block_repeats
<1>19. /\ Same(e, d, {"bus_addr", "bus_data", "hl", "wz", "bc", "f", "pending", "cycle_limit",
            "cycle"})
       /\ d.hl = Plus(e.hl, by)
       /\ d.bc = WithHigh(e.bc, count)
       /\ again => d.cycle_limit = e.cycle_limit /\
            d.f = Alu!block_repeat_undocumented(flags, High(Plus(e.pc, -2)))
       /\ ~again => d.cycle_limit = 3 /\ d.f = flags
  BY <1>2, <1>13, <1>14, <1>17, InCore DEF Same
<1>20. l = Manual!Poke(m, e.hl, port)
  BY <1>10, <1>12
<1> QED BY <1>2, <1>18, <1>19, <1>20

LEMMA OutTurns ==
  ASSUME NEW e, NEW m, NEW at, BeginsEd(e, m, at), e.instr = "ed_block_out",
         NEW d1, NEW m1, NEW d2, NEW m2, NEW d, NEW l,
         OneCycle(e, m, d1, m1), OneCycle(d1, m1, d2, m2), OneCycle(d2, m2, d, l)
  PROVE  \E by, count, flags : \E again \in BOOLEAN :
           /\ OutSums(e, Manual!Peek(m, e.hl), by, count, flags, again)
           /\ Same(e, d, {"bus_addr", "bus_data", "bc", "hl", "wz", "f", "pending", "cycle_limit",
                "cycle"})
           /\ d.hl = Plus(e.hl, by)
           /\ d.bc = WithHigh(e.bc, count)
           /\ l = m
           /\ d.cycle = 3
           /\ again => d.cycle_limit = e.cycle_limit /\
                d.f = Alu!block_repeat_undocumented(flags, High(Plus(e.pc, -2)))
           /\ ~again => d.cycle_limit = 3 /\ d.f = flags
<1>1. Typed(e) /\ Shaped(e) /\ ByteMemory(m)
  BY CoreTypes DEF BeginsEd
<1>2. /\ e.instr = "ed_block_out" /\ e.cycle = 0 /\ Shaped(e)
      /\ d1.instr = "ed_block_out" /\ d1.cycle = 1 /\ Shaped(d1)
      /\ d2.instr = "ed_block_out" /\ d2.cycle = 2 /\ Shaped(d2)
      /\ d.cycle = 3
  BY Fields DEF OneCycle, BeginsEd
<1>3. CyclesOf["ed_block_out"] = BlockCycles("ed_block_out") /\
        HooksOf["ed_block_out"] = BlockCycleHooks("ed_block_out")
  BY GroupCycles, GroupHooks DEF Instrs, BlockInstrs
<1>4. /\ Enters(e, "idle1", "none", "none")
      /\ Enters(d1, "mem_read", "at_hl", "none")
      /\ Enters(d2, "io_write", "block_out", "block_exit_out")
  BY <1>2, <1>3 DEF Enters, BlockCycles, BlockCycleHooks, On, Idle, Read, Write, IoIn, IoOut,
     Idle1, Idle2, Idle5
<1>5. d1 = Put(Exit("none", e), "cycle", 1) /\ m1 = m
  BY <1>2, <1>4, Idles DEF IdleCycles
<1>6. Same(e, d1, {"cycle"}) /\ m1 = m /\ d1.hl = e.hl
  BY <1>5, Leaves, <1>1, InCore DEF Same
<1>7. PICK f2 :
       /\ Same(d1, f2, {"bus_addr", "bus_data"}) /\ f2.bus_data = Manual!Peek(m1, d1.hl)
       /\ d2 = Put(Exit("none", f2), "cycle", 2) /\ m2 = m1
  BY <1>2, <1>4, AtHlReads
<1>8. Same(e, d2, {"bus_addr", "bus_data", "cycle"}) /\ d2.bus_data = Manual!Peek(m, e.hl) /\
        m2 = m /\ d2.bc = e.bc
  BY <1>2, <1>6, <1>7, Leaves, InCore DEF Same
<1>9. PICK port : port = WithHigh(d2.bc, (High(d2.bc) - 1) % 256)
  OBVIOUS
<1>10. Enter("block_out", d2) = Put(Put(d2, "bus_addr", port), "bc", port)
  BY <1>2, <1>9, EnterOthers
<1>11. PICK f : f = Enter("block_out", d2)
  OBVIOUS
<1>12. d = Put(Exit("block_exit_out", f), "cycle", 3) /\ l = m2
  BY <1>2, <1>4, <1>11, QuietCycle
<1>13. Same(d2, f, {"bus_addr", "bc"}) /\ f.bc = port
  BY <1>2, <1>10, <1>11, GetPut, InCore DEF Same
<1>14. Same(e, f, {"bus_addr", "bus_data", "cycle", "bc"}) /\
         f.bc = WithHigh(e.bc, (High(e.bc) - 1) % 256)
  BY <1>8, <1>9, <1>13, InCore DEF Same
<1>15. High(f.bc) = (High(e.bc) - 1) % 256
  BY <1>14, <1>1, CoreTypes, HighOfPort
<1>16. /\ Same(e, f, {"bus_addr", "bus_data", "cycle", "bc"}) /\ Shaped(f) /\ f.cycle = 2
       /\ f.bc = WithHigh(e.bc, (High(e.bc) - 1) % 256) /\ High(f.bc) = (High(e.bc) - 1) % 256 /\
            f.hl = e.hl /\ f.pc = e.pc
       /\ f.opcode = e.opcode /\ f.cycle_limit = e.cycle_limit /\ f.bus_data = Manual!Peek(m, e.hl)
       /\ d = Put(Exit("block_exit_out", f), "cycle", 3)
  BY <1>2, <1>8, <1>12, <1>13, <1>14, <1>15, InCore DEF Same
<1>17. PICK by, count : by = block_delta(f) /\ count = High(f.bc)
  OBVIOUS
<1>18. PICK flags : flags = Alu!block_io_flags(count, f.bus_data, Low(Plus(f.hl, by)))
  OBVIOUS
<1>19. PICK again \in BOOLEAN : again <=> (block_repeats(f) /\ count # 0)
  OBVIOUS
<1>20. /\ Same(f, d, {"hl", "wz", "f", "pending", "cycle_limit", "cycle"})
       /\ d.hl = Plus(f.hl, by)
       /\ again => d.cycle_limit = f.cycle_limit /\
            d.f = Alu!block_repeat_undocumented(flags, High(Plus(f.pc, -2)))
       /\ ~again => d.cycle_limit = f.cycle + 1 /\ d.f = flags
  BY <1>16, <1>17, <1>18, <1>19, LeavesBlockOut
<1>21. OutSums(e, Manual!Peek(m, e.hl), by, count, flags, again)
  BY <1>16, <1>17, <1>18, <1>19, <1>1 DEF OutSums, block_delta, block_repeats
<1>22. /\ Same(e, d, {"bus_addr", "bus_data", "bc", "hl", "wz", "f", "pending", "cycle_limit",
            "cycle"})
       /\ d.hl = Plus(e.hl, by)
       /\ d.bc = WithHigh(e.bc, count)
       /\ again => d.cycle_limit = e.cycle_limit /\
            d.f = Alu!block_repeat_undocumented(flags, High(Plus(e.pc, -2)))
       /\ ~again => d.cycle_limit = 3 /\ d.f = flags
  BY <1>2, <1>16, <1>17, <1>20, InCore DEF Same
<1>23. l = m
  BY <1>8, <1>12
<1> QED BY <1>2, <1>21, <1>22, <1>23
-----------------------------------------------------------------------------
(***************************************************************************)
(* The block instructions, going on or (their names ending in _ends) not.  *)
(***************************************************************************)

(* LDI and LDD, and the last pass of LDIR and LDDR. *)
LEMMA Does_ed_block_transfer_ends ==
  ASSUME NEW e, NEW m, NEW at, BeginsEd(e, m, at), e.instr = "ed_block_transfer",
         NEW d, NEW l, After3(e, m, d, l),
         ~GoesOn(d), e.cycle_limit = 4,
         NEW p, Typed(p), Same(d, p, {"nmi_latched"}), NEW int, NEW port
  PROVE  Meets(Execute("ed_block_transfer", p, int), l, BlockTable(e, m, port))
<1>1. PICK d1, m1, d2, m2 :
       /\ OneCycle(e, m, d1, m1)
       /\ OneCycle(d1, m1, d2, m2)
       /\ OneCycle(d2, m2, d, l)
  BY DEF After1, After2, After3
<1>2. PICK by, count, flags :
       \E again \in BOOLEAN :
         /\ TransferSums(e, Manual!Peek(m, e.hl), by, count, flags, again)
         /\ Same(e, d, {"bus_addr", "bus_data", "hl", "de", "bc", "f", "pending", "cycle_limit",
              "cycle"})
         /\ d.hl = Plus(e.hl, by)
         /\ d.de = Plus(e.de, by)
         /\ d.bc = count
         /\ l = Manual!Poke(m, e.de, Manual!Peek(m, e.hl))
         /\ d.cycle = 3
         /\ again => d.cycle_limit = e.cycle_limit /\
              d.f = Alu!block_repeat_undocumented(flags, High(Plus(e.pc, -2)))
         /\ ~again => d.cycle_limit = 3 /\ d.f = flags
  BY <1>1, TransferTurns
<1>4. PICK again \in BOOLEAN :
         /\ TransferSums(e, Manual!Peek(m, e.hl), by, count, flags, again)
         /\ Same(e, d, {"bus_addr", "bus_data", "hl", "de", "bc", "f", "pending", "cycle_limit",
              "cycle"})
         /\ d.hl = Plus(e.hl, by)
         /\ d.de = Plus(e.de, by)
         /\ d.bc = count
         /\ l = Manual!Poke(m, e.de, Manual!Peek(m, e.hl))
         /\ d.cycle = 3
         /\ again => d.cycle_limit = e.cycle_limit /\
              d.f = Alu!block_repeat_undocumented(flags, High(Plus(e.pc, -2)))
         /\ ~again => d.cycle_limit = 3 /\ d.f = flags
  BY <1>2
<1>5. ~again
  BY <1>1, <1>4 DEF GoesOn
<1>6. /\ Typed(e) /\ Shaped(e) /\ ByteMemory(m) /\ e.opcode \in Byte /\ e.pc \in Word
  BY CoreTypes DEF BeginsEd
<1>7. e.instr \in BlockInstrs /\ "ed_block_transfer" = DecodeEd(e.opcode)
  BY DEF BlockInstrs, BeginsEd
<1>8. Z(e.opcode) = 0 /\ (block_repeats(e) <=> e.opcode >= 176) /\
        Direction(e.opcode, block_delta(e))
  BY <1>6, <1>7, MapEd, BlockOpcode
<1>9. e.opcode % 4 = 0
  BY <1>6, <1>8 DEF Z, Byte
<1>10. PICK s : s = Seen(e)
  OBVIOUS
<1>11. s.a = e.a /\ s.f = e.f /\ s.bc = e.bc /\ s.hl = e.hl /\ s.de = e.de /\ s.pc = e.pc
  BY <1>10, SeenFields DEF Seen
<1>12. /\ Direction(e.opcode, by) /\ count = Plus(s.bc, -1)
       /\ again <=> (e.opcode >= 176 /\ count # 0)
  BY <1>4, <1>8, <1>11 DEF TransferSums
<1>13. flags = Alu!block_transfer_flags(e.a, e.f, Manual!Peek(m, e.hl), count # 0)
  BY <1>4 DEF TransferSums
<1>14. flags = Manual!block_transfer_flags(s.a, s.f, Manual!Peek(m, s.hl), count # 0)
  BY <1>11, <1>13, SameArithmetic
<1>15. PICK t : t = [s EXCEPT !.hl = Plus(@, by), !.bc = count, !.de = Plus(@, by), !.f = flags]
  OBVIOUS
<1>16. PICK pc : pc = Plus(e.pc, -2)
  OBVIOUS
<1>30. PassTransfersTerms(s, m, e.opcode, by, port, count, flags, again, t)
  BY <1>9, <1>12, <1>14, <1>15 DEF PassTransfersTerms
<1>17. PassTransfersLeft(s, m, e.opcode, port, pc, again, t)
  BY <1>30, PassTransfers
<1>18. BlockTable(e, m, port) = Manual!Both(t, Manual!Poke(m, s.de, Manual!Peek(m, s.hl)))
  BY <1>5, <1>10, <1>16, <1>17 DEF BlockTable, PassTransfersLeft
<1>23. /\ Same(e, p, {"nmi_latched", "bus_addr", "bus_data", "hl", "de", "bc", "f", "pending",
            "cycle_limit", "cycle"})
       /\ p.hl = Plus(e.hl, by)
       /\ p.de = Plus(e.de, by)
       /\ p.bc = count
       /\ p.f = flags
       /\ l = Manual!Poke(m, s.de, Manual!Peek(m, s.hl))
  BY <1>4, <1>5, <1>11, InCore DEF Same
<1>24. Seen(p) = [s EXCEPT !.hl = p.hl, !.de = p.de, !.bc = p.bc, !.f = p.f]
  BY <1>10, <1>23, SeenFields DEF Same, Seen
<1>31. t.f = flags
  BY <1>10, <1>15, SeenFields DEF Seen
<1>25. Seen(p) = t
  BY <1>11, <1>15, <1>23, <1>24, <1>31
<1>26. Execute("ed_block_transfer", p, int) = p
  BY ExecutesNothing DEF Hooked, BlockInstrs
<1>27. Meets(Execute("ed_block_transfer", p, int), l, BlockTable(e, m, port))
  BY <1>18, <1>23, <1>25, <1>26, MeetsBoth
<1> QED BY <1>27

(* LDIR and LDDR, going on. *)
LEMMA Does_ed_block_transfer ==
  ASSUME NEW e, NEW m, NEW at, BeginsEd(e, m, at), e.instr = "ed_block_transfer",
         NEW d, NEW l, After4(e, m, d, l),
         NEW p, Typed(p), Same(d, p, {"nmi_latched"}), NEW int, NEW port
  PROVE  Meets(Execute("ed_block_transfer", p, int), l, BlockTable(e, m, port))
<1>1. PICK d1, m1, d2, m2, c, k :
       /\ OneCycle(e, m, d1, m1)
       /\ OneCycle(d1, m1, d2, m2)
       /\ OneCycle(d2, m2, c, k)
       /\ OneCycle(c, k, d, l)
       /\ GoesOn(c)
  BY DEF After1, After2, After3, After4
<1>2. PICK by, count, flags :
       \E again \in BOOLEAN :
         /\ TransferSums(e, Manual!Peek(m, e.hl), by, count, flags, again)
         /\ Same(e, c, {"bus_addr", "bus_data", "hl", "de", "bc", "f", "pending", "cycle_limit",
              "cycle"})
         /\ c.hl = Plus(e.hl, by)
         /\ c.de = Plus(e.de, by)
         /\ c.bc = count
         /\ k = Manual!Poke(m, e.de, Manual!Peek(m, e.hl))
         /\ c.cycle = 3
         /\ again => c.cycle_limit = e.cycle_limit /\
              c.f = Alu!block_repeat_undocumented(flags, High(Plus(e.pc, -2)))
         /\ ~again => c.cycle_limit = 3 /\ c.f = flags
  BY <1>1, TransferTurns
<1>4. PICK again \in BOOLEAN :
         /\ TransferSums(e, Manual!Peek(m, e.hl), by, count, flags, again)
         /\ Same(e, c, {"bus_addr", "bus_data", "hl", "de", "bc", "f", "pending", "cycle_limit",
              "cycle"})
         /\ c.hl = Plus(e.hl, by)
         /\ c.de = Plus(e.de, by)
         /\ c.bc = count
         /\ k = Manual!Poke(m, e.de, Manual!Peek(m, e.hl))
         /\ c.cycle = 3
         /\ again => c.cycle_limit = e.cycle_limit /\
              c.f = Alu!block_repeat_undocumented(flags, High(Plus(e.pc, -2)))
         /\ ~again => c.cycle_limit = 3 /\ c.f = flags
  BY <1>2
<1>5. again
  BY <1>1, <1>4 DEF GoesOn
<1>6. /\ Typed(e) /\ Shaped(e) /\ ByteMemory(m) /\ e.opcode \in Byte /\ e.pc \in Word
  BY CoreTypes DEF BeginsEd
<1>7. e.instr \in BlockInstrs /\ "ed_block_transfer" = DecodeEd(e.opcode)
  BY DEF BlockInstrs, BeginsEd
<1>8. Z(e.opcode) = 0 /\ (block_repeats(e) <=> e.opcode >= 176) /\
        Direction(e.opcode, block_delta(e))
  BY <1>6, <1>7, MapEd, BlockOpcode
<1>9. e.opcode % 4 = 0
  BY <1>6, <1>8 DEF Z, Byte
<1>10. PICK s : s = Seen(e)
  OBVIOUS
<1>11. s.a = e.a /\ s.f = e.f /\ s.bc = e.bc /\ s.hl = e.hl /\ s.de = e.de /\ s.pc = e.pc
  BY <1>10, SeenFields DEF Seen
<1>12. /\ Direction(e.opcode, by) /\ count = Plus(s.bc, -1)
       /\ again <=> (e.opcode >= 176 /\ count # 0)
  BY <1>4, <1>8, <1>11 DEF TransferSums
<1>13. flags = Alu!block_transfer_flags(e.a, e.f, Manual!Peek(m, e.hl), count # 0)
  BY <1>4 DEF TransferSums
<1>14. flags = Manual!block_transfer_flags(s.a, s.f, Manual!Peek(m, s.hl), count # 0)
  BY <1>11, <1>13, SameArithmetic
<1>15. PICK t : t = [s EXCEPT !.hl = Plus(@, by), !.bc = count, !.de = Plus(@, by), !.f = flags]
  OBVIOUS
<1>16. PICK pc : pc = Plus(e.pc, -2)
  OBVIOUS
<1>30. PassTransfersTerms(s, m, e.opcode, by, port, count, flags, again, t)
  BY <1>9, <1>12, <1>14, <1>15 DEF PassTransfersTerms
<1>17. PassTransfersLeft(s, m, e.opcode, port, pc, again, t)
  BY <1>30, PassTransfers
<1>18. BlockTable(e, m, port)
         = Manual!Both([t EXCEPT !.pc = pc, !.f = Alu!block_repeat_undocumented(@, High(pc))],
           Manual!Poke(m, s.de, Manual!Peek(m, s.hl)))
  BY <1>5, <1>10, <1>16, <1>17 DEF BlockTable, PassTransfersLeft
<1>19. c.instr = "ed_block_transfer" /\ c.cycle = 3
  BY <1>1, <1>4, Fields DEF OneCycle
<1>20. CyclesOf["ed_block_transfer"] = BlockCycles("ed_block_transfer") /\
         HooksOf["ed_block_transfer"] = BlockCycleHooks("ed_block_transfer")
  BY GroupCycles, GroupHooks DEF Instrs, BlockInstrs
<1>21. Enters(c, "idle5", "block_repeat", "none")
  BY <1>19, <1>20 DEF Enters, BlockCycles, BlockCycleHooks, On, Idle5
<1>22. Same(c, d, {"pc", "wz", "cycle"}) /\ l = k /\ d.pc = Plus(c.pc, -2)
  BY <1>1, <1>21, Jumps DEF IdleCycles
<1>23. /\ Same(e, p, {"nmi_latched", "bus_addr", "bus_data", "hl", "de", "bc", "f", "pending",
            "cycle_limit", "cycle", "pc", "wz"})
       /\ p.hl = Plus(e.hl, by)
       /\ p.de = Plus(e.de, by)
       /\ p.bc = count
       /\ p.pc = pc
       /\ p.f = Alu!block_repeat_undocumented(flags, High(pc))
       /\ l = Manual!Poke(m, s.de, Manual!Peek(m, s.hl))
  BY <1>4, <1>5, <1>11, <1>16, <1>22, InCore DEF Same
<1>24. Seen(p) = [s EXCEPT !.hl = p.hl, !.de = p.de, !.bc = p.bc, !.pc = p.pc, !.f = p.f]
  BY <1>10, <1>23, SeenFields DEF Same, Seen
<1>31. t.f = flags
  BY <1>10, <1>15, SeenFields DEF Seen
<1>25. Seen(p) = [t EXCEPT !.pc = pc, !.f = Alu!block_repeat_undocumented(@, High(pc))]
  BY <1>11, <1>15, <1>23, <1>24, <1>31
<1>26. Execute("ed_block_transfer", p, int) = p
  BY ExecutesNothing DEF Hooked, BlockInstrs
<1>27. Meets(Execute("ed_block_transfer", p, int), l, BlockTable(e, m, port))
  BY <1>18, <1>23, <1>25, <1>26, MeetsBoth
<1> QED BY <1>27

(* CPI and CPD, and the last pass of CPIR and CPDR. *)
LEMMA Does_ed_block_compare_ends ==
  ASSUME NEW e, NEW m, NEW at, BeginsEd(e, m, at), e.instr = "ed_block_compare",
         NEW d, NEW l, After2(e, m, d, l),
         ~GoesOn(d), e.cycle_limit = 3,
         NEW p, Typed(p), Same(d, p, {"nmi_latched"}), NEW int, NEW port
  PROVE  Meets(Execute("ed_block_compare", p, int), l, BlockTable(e, m, port))
<1>1. PICK d1, m1 :
       /\ OneCycle(e, m, d1, m1)
       /\ OneCycle(d1, m1, d, l)
  BY DEF After1, After2
<1>2. PICK by, count, flags :
       \E again \in BOOLEAN :
         /\ CompareSums(e, Manual!Peek(m, e.hl), by, count, flags, again)
         /\ Same(e, d, {"bus_addr", "bus_data", "hl", "wz", "bc", "f", "pending", "cycle_limit",
              "cycle"})
         /\ d.hl = Plus(e.hl, by)
         /\ d.bc = count
         /\ l = m
         /\ d.cycle = 2
         /\ again => d.cycle_limit = e.cycle_limit /\
              d.f = Alu!block_repeat_undocumented(flags, High(Plus(e.pc, -2)))
         /\ ~again => d.cycle_limit = 2 /\ d.f = flags
  BY <1>1, CompareTurns
<1>4. PICK again \in BOOLEAN :
         /\ CompareSums(e, Manual!Peek(m, e.hl), by, count, flags, again)
         /\ Same(e, d, {"bus_addr", "bus_data", "hl", "wz", "bc", "f", "pending", "cycle_limit",
              "cycle"})
         /\ d.hl = Plus(e.hl, by)
         /\ d.bc = count
         /\ l = m
         /\ d.cycle = 2
         /\ again => d.cycle_limit = e.cycle_limit /\
              d.f = Alu!block_repeat_undocumented(flags, High(Plus(e.pc, -2)))
         /\ ~again => d.cycle_limit = 2 /\ d.f = flags
  BY <1>2
<1>5. ~again
  BY <1>1, <1>4 DEF GoesOn
<1>6. /\ Typed(e) /\ Shaped(e) /\ ByteMemory(m) /\ e.opcode \in Byte /\ e.pc \in Word
  BY CoreTypes DEF BeginsEd
<1>7. e.instr \in BlockInstrs /\ "ed_block_compare" = DecodeEd(e.opcode)
  BY DEF BlockInstrs, BeginsEd
<1>8. Z(e.opcode) = 1 /\ (block_repeats(e) <=> e.opcode >= 176) /\
        Direction(e.opcode, block_delta(e))
  BY <1>6, <1>7, MapEd, BlockOpcode
<1>9. e.opcode % 4 = 1
  BY <1>6, <1>8 DEF Z, Byte
<1>10. PICK s : s = Seen(e)
  OBVIOUS
<1>11. s.a = e.a /\ s.f = e.f /\ s.bc = e.bc /\ s.hl = e.hl /\ s.pc = e.pc
  BY <1>10, SeenFields DEF Seen
<1>12. /\ Direction(e.opcode, by) /\ count = Plus(s.bc, -1)
       /\ again <=> (e.opcode >= 176 /\ count # 0 /\ "Z" \notin flags)
  BY <1>4, <1>8, <1>11 DEF CompareSums
<1>13. flags = Alu!block_compare_flags(e.a, e.f, Manual!Peek(m, e.hl), count # 0)
  BY <1>4 DEF CompareSums
<1>14. flags = Manual!block_compare_flags(s.a, s.f, Manual!Peek(m, s.hl), count # 0)
  BY <1>11, <1>13, SameArithmetic
<1>15. PICK t : t = [s EXCEPT !.hl = Plus(@, by), !.bc = count, !.f = flags]
  OBVIOUS
<1>16. PICK pc : pc = Plus(e.pc, -2)
  OBVIOUS
<1>30. PassComparesTerms(s, m, e.opcode, by, port, count, flags, again, t)
  BY <1>9, <1>12, <1>14, <1>15 DEF PassComparesTerms
<1>17. PassComparesLeft(s, m, e.opcode, port, pc, again, t)
  BY <1>30, PassCompares
<1>18. BlockTable(e, m, port) = Manual!Both(t, m)
  BY <1>5, <1>10, <1>16, <1>17 DEF BlockTable, PassComparesLeft
<1>23. /\ Same(e, p, {"nmi_latched", "bus_addr", "bus_data", "hl", "wz", "bc", "f", "pending",
            "cycle_limit", "cycle"})
       /\ p.hl = Plus(e.hl, by)
       /\ p.bc = count
       /\ p.f = flags
       /\ l = m
  BY <1>4, <1>5, <1>11, InCore DEF Same
<1>24. Seen(p) = [s EXCEPT !.hl = p.hl, !.bc = p.bc, !.f = p.f]
  BY <1>10, <1>23, SeenFields DEF Same, Seen
<1>31. t.f = flags
  BY <1>10, <1>15, SeenFields DEF Seen
<1>25. Seen(p) = t
  BY <1>11, <1>15, <1>23, <1>24, <1>31
<1>26. Execute("ed_block_compare", p, int) = p
  BY ExecutesNothing DEF Hooked, BlockInstrs
<1>27. Meets(Execute("ed_block_compare", p, int), l, BlockTable(e, m, port))
  BY <1>18, <1>23, <1>25, <1>26, MeetsBoth
<1> QED BY <1>27

(* CPIR and CPDR, going on. *)
LEMMA Does_ed_block_compare ==
  ASSUME NEW e, NEW m, NEW at, BeginsEd(e, m, at), e.instr = "ed_block_compare",
         NEW d, NEW l, After3(e, m, d, l),
         NEW p, Typed(p), Same(d, p, {"nmi_latched"}), NEW int, NEW port
  PROVE  Meets(Execute("ed_block_compare", p, int), l, BlockTable(e, m, port))
<1>1. PICK d1, m1, c, k :
       /\ OneCycle(e, m, d1, m1)
       /\ OneCycle(d1, m1, c, k)
       /\ OneCycle(c, k, d, l)
       /\ GoesOn(c)
  BY DEF After1, After2, After3
<1>2. PICK by, count, flags :
       \E again \in BOOLEAN :
         /\ CompareSums(e, Manual!Peek(m, e.hl), by, count, flags, again)
         /\ Same(e, c, {"bus_addr", "bus_data", "hl", "wz", "bc", "f", "pending", "cycle_limit",
              "cycle"})
         /\ c.hl = Plus(e.hl, by)
         /\ c.bc = count
         /\ k = m
         /\ c.cycle = 2
         /\ again => c.cycle_limit = e.cycle_limit /\
              c.f = Alu!block_repeat_undocumented(flags, High(Plus(e.pc, -2)))
         /\ ~again => c.cycle_limit = 2 /\ c.f = flags
  BY <1>1, CompareTurns
<1>4. PICK again \in BOOLEAN :
         /\ CompareSums(e, Manual!Peek(m, e.hl), by, count, flags, again)
         /\ Same(e, c, {"bus_addr", "bus_data", "hl", "wz", "bc", "f", "pending", "cycle_limit",
              "cycle"})
         /\ c.hl = Plus(e.hl, by)
         /\ c.bc = count
         /\ k = m
         /\ c.cycle = 2
         /\ again => c.cycle_limit = e.cycle_limit /\
              c.f = Alu!block_repeat_undocumented(flags, High(Plus(e.pc, -2)))
         /\ ~again => c.cycle_limit = 2 /\ c.f = flags
  BY <1>2
<1>5. again
  BY <1>1, <1>4 DEF GoesOn
<1>6. /\ Typed(e) /\ Shaped(e) /\ ByteMemory(m) /\ e.opcode \in Byte /\ e.pc \in Word
  BY CoreTypes DEF BeginsEd
<1>7. e.instr \in BlockInstrs /\ "ed_block_compare" = DecodeEd(e.opcode)
  BY DEF BlockInstrs, BeginsEd
<1>8. Z(e.opcode) = 1 /\ (block_repeats(e) <=> e.opcode >= 176) /\
        Direction(e.opcode, block_delta(e))
  BY <1>6, <1>7, MapEd, BlockOpcode
<1>9. e.opcode % 4 = 1
  BY <1>6, <1>8 DEF Z, Byte
<1>10. PICK s : s = Seen(e)
  OBVIOUS
<1>11. s.a = e.a /\ s.f = e.f /\ s.bc = e.bc /\ s.hl = e.hl /\ s.pc = e.pc
  BY <1>10, SeenFields DEF Seen
<1>12. /\ Direction(e.opcode, by) /\ count = Plus(s.bc, -1)
       /\ again <=> (e.opcode >= 176 /\ count # 0 /\ "Z" \notin flags)
  BY <1>4, <1>8, <1>11 DEF CompareSums
<1>13. flags = Alu!block_compare_flags(e.a, e.f, Manual!Peek(m, e.hl), count # 0)
  BY <1>4 DEF CompareSums
<1>14. flags = Manual!block_compare_flags(s.a, s.f, Manual!Peek(m, s.hl), count # 0)
  BY <1>11, <1>13, SameArithmetic
<1>15. PICK t : t = [s EXCEPT !.hl = Plus(@, by), !.bc = count, !.f = flags]
  OBVIOUS
<1>16. PICK pc : pc = Plus(e.pc, -2)
  OBVIOUS
<1>30. PassComparesTerms(s, m, e.opcode, by, port, count, flags, again, t)
  BY <1>9, <1>12, <1>14, <1>15 DEF PassComparesTerms
<1>17. PassComparesLeft(s, m, e.opcode, port, pc, again, t)
  BY <1>30, PassCompares
<1>18. BlockTable(e, m, port)
         = Manual!Both([t EXCEPT !.pc = pc, !.f = Alu!block_repeat_undocumented(@, High(pc))], m)
  BY <1>5, <1>10, <1>16, <1>17 DEF BlockTable, PassComparesLeft
<1>19. c.instr = "ed_block_compare" /\ c.cycle = 2
  BY <1>1, <1>4, Fields DEF OneCycle
<1>20. CyclesOf["ed_block_compare"] = BlockCycles("ed_block_compare") /\
         HooksOf["ed_block_compare"] = BlockCycleHooks("ed_block_compare")
  BY GroupCycles, GroupHooks DEF Instrs, BlockInstrs
<1>21. Enters(c, "idle5", "block_repeat", "none")
  BY <1>19, <1>20 DEF Enters, BlockCycles, BlockCycleHooks, On, Idle5
<1>22. Same(c, d, {"pc", "wz", "cycle"}) /\ l = k /\ d.pc = Plus(c.pc, -2)
  BY <1>1, <1>21, Jumps DEF IdleCycles
<1>23. /\ Same(e, p, {"nmi_latched", "bus_addr", "bus_data", "hl", "wz", "bc", "f", "pending",
            "cycle_limit", "cycle", "pc"})
       /\ p.hl = Plus(e.hl, by)
       /\ p.bc = count
       /\ p.pc = pc
       /\ p.f = Alu!block_repeat_undocumented(flags, High(pc))
       /\ l = m
  BY <1>4, <1>5, <1>11, <1>16, <1>22, InCore DEF Same
<1>24. Seen(p) = [s EXCEPT !.hl = p.hl, !.bc = p.bc, !.pc = p.pc, !.f = p.f]
  BY <1>10, <1>23, SeenFields DEF Same, Seen
<1>31. t.f = flags
  BY <1>10, <1>15, SeenFields DEF Seen
<1>25. Seen(p) = [t EXCEPT !.pc = pc, !.f = Alu!block_repeat_undocumented(@, High(pc))]
  BY <1>11, <1>15, <1>23, <1>24, <1>31
<1>26. Execute("ed_block_compare", p, int) = p
  BY ExecutesNothing DEF Hooked, BlockInstrs
<1>27. Meets(Execute("ed_block_compare", p, int), l, BlockTable(e, m, port))
  BY <1>18, <1>23, <1>25, <1>26, MeetsBoth
<1> QED BY <1>27

(* INI and IND, and the last pass of INIR and INDR. *)
LEMMA Does_ed_block_in_ends ==
  ASSUME NEW e, NEW m, NEW at, BeginsEd(e, m, at), e.instr = "ed_block_in",
         NEW d, NEW l, After3(e, m, d, l),
         ~GoesOn(d), e.cycle_limit = 4,
         NEW p, Typed(p), Same(d, p, {"nmi_latched"}), NEW int
  PROVE  \E port \in PortBytes : Meets(Execute("ed_block_in", p, int), l, BlockTable(e, m, port))
<1>1. PICK d1, m1, d2, m2 :
       /\ OneCycle(e, m, d1, m1)
       /\ OneCycle(d1, m1, d2, m2)
       /\ OneCycle(d2, m2, d, l)
  BY DEF After1, After2, After3
<1>2. PICK port \in PortBytes :
       \E by, count, flags : \E again \in BOOLEAN :
         /\ InSums(e, port, by, count, flags, again)
         /\ Same(e, d, {"bus_addr", "bus_data", "hl", "wz", "bc", "f", "pending", "cycle_limit",
              "cycle"})
         /\ d.hl = Plus(e.hl, by)
         /\ d.bc = WithHigh(e.bc, count)
         /\ l = Manual!Poke(m, e.hl, port)
         /\ d.cycle = 3
         /\ again => d.cycle_limit = e.cycle_limit /\
              d.f = Alu!block_repeat_undocumented(flags, High(Plus(e.pc, -2)))
         /\ ~again => d.cycle_limit = 3 /\ d.f = flags
  BY <1>1, InTurns
<1>3. PICK by, count, flags : \E again \in BOOLEAN :
         /\ InSums(e, port, by, count, flags, again)
         /\ Same(e, d, {"bus_addr", "bus_data", "hl", "wz", "bc", "f", "pending", "cycle_limit",
              "cycle"})
         /\ d.hl = Plus(e.hl, by)
         /\ d.bc = WithHigh(e.bc, count)
         /\ l = Manual!Poke(m, e.hl, port)
         /\ d.cycle = 3
         /\ again => d.cycle_limit = e.cycle_limit /\
              d.f = Alu!block_repeat_undocumented(flags, High(Plus(e.pc, -2)))
         /\ ~again => d.cycle_limit = 3 /\ d.f = flags
  BY <1>2
<1>4. PICK again \in BOOLEAN :
         /\ InSums(e, port, by, count, flags, again)
         /\ Same(e, d, {"bus_addr", "bus_data", "hl", "wz", "bc", "f", "pending", "cycle_limit",
              "cycle"})
         /\ d.hl = Plus(e.hl, by)
         /\ d.bc = WithHigh(e.bc, count)
         /\ l = Manual!Poke(m, e.hl, port)
         /\ d.cycle = 3
         /\ again => d.cycle_limit = e.cycle_limit /\
              d.f = Alu!block_repeat_undocumented(flags, High(Plus(e.pc, -2)))
         /\ ~again => d.cycle_limit = 3 /\ d.f = flags
  BY <1>3
<1>5. ~again
  BY <1>1, <1>4 DEF GoesOn
<1>6. /\ Typed(e) /\ Shaped(e) /\ ByteMemory(m) /\ e.opcode \in Byte /\ e.pc \in Word
  BY CoreTypes DEF BeginsEd
<1>7. e.instr \in BlockInstrs /\ "ed_block_in" = DecodeEd(e.opcode)
  BY DEF BlockInstrs, BeginsEd
<1>8. Z(e.opcode) = 2 /\ (block_repeats(e) <=> e.opcode >= 176) /\
        Direction(e.opcode, block_delta(e))
  BY <1>6, <1>7, MapEd, BlockOpcode
<1>9. e.opcode % 4 = 2
  BY <1>6, <1>8 DEF Z, Byte
<1>10. PICK s : s = Seen(e)
  OBVIOUS
<1>11. s.bc = e.bc /\ s.hl = e.hl /\ s.pc = e.pc
  BY <1>10, SeenFields DEF Seen
<1>12. /\ Direction(e.opcode, by) /\ count = (High(s.bc) - 1) % 256
       /\ again <=> (e.opcode >= 176 /\ count # 0)
  BY <1>4, <1>8, <1>11 DEF InSums
<1>13. flags = Alu!block_io_flags(count, port, (Low(e.bc) + by) % 256)
  BY <1>4 DEF InSums
<1>14. flags = Manual!block_io_flags(count, port, (Low(s.bc) + by) % 256)
  BY <1>11, <1>13, SameArithmetic
<1>15. PICK t : t = [s EXCEPT !.hl = Plus(@, by), !.bc = 256 * count + Low(@), !.f = flags]
  OBVIOUS
<1>16. PICK pc : pc = Plus(e.pc, -2)
  OBVIOUS
<1>30. PassReadsTerms(s, m, e.opcode, by, port, count, flags, again, t)
  BY <1>9, <1>12, <1>14, <1>15 DEF PassReadsTerms
<1>17. PassReadsLeft(s, m, e.opcode, port, pc, again, t)
  BY <1>30, PassReads
<1>18. BlockTable(e, m, port) = Manual!Both(t, Manual!Poke(m, s.hl, port))
  BY <1>5, <1>10, <1>16, <1>17 DEF BlockTable, PassReadsLeft
<1>23. /\ Same(e, p, {"nmi_latched", "bus_addr", "bus_data", "hl", "wz", "bc", "f", "pending",
            "cycle_limit", "cycle"})
       /\ p.hl = Plus(e.hl, by)
       /\ p.bc = WithHigh(e.bc, count)
       /\ p.f = flags
       /\ l = Manual!Poke(m, s.hl, port)
  BY <1>4, <1>5, <1>11, InCore DEF Same
<1>24. Seen(p) = [s EXCEPT !.hl = p.hl, !.bc = p.bc, !.f = p.f]
  BY <1>10, <1>23, SeenFields DEF Same, Seen
<1>31. t.f = flags
  BY <1>10, <1>15, SeenFields DEF Seen
<1>32. p.bc = 256 * count + Low(s.bc)
  BY <1>11, <1>23 DEF WithHigh, Low
<1>25. Seen(p) = t
  BY <1>11, <1>15, <1>23, <1>24, <1>31, <1>32
<1>26. Execute("ed_block_in", p, int) = p
  BY ExecutesNothing DEF Hooked, BlockInstrs
<1>27. Meets(Execute("ed_block_in", p, int), l, BlockTable(e, m, port))
  BY <1>18, <1>23, <1>25, <1>26, MeetsBoth
<1> QED BY <1>27

(* INIR and INDR, going on. *)
LEMMA Does_ed_block_in ==
  ASSUME NEW e, NEW m, NEW at, BeginsEd(e, m, at), e.instr = "ed_block_in",
         NEW d, NEW l, After4(e, m, d, l),
         NEW p, Typed(p), Same(d, p, {"nmi_latched"}), NEW int
  PROVE  \E port \in PortBytes : Meets(Execute("ed_block_in", p, int), l, BlockTable(e, m, port))
<1>1. PICK d1, m1, d2, m2, c, k :
       /\ OneCycle(e, m, d1, m1)
       /\ OneCycle(d1, m1, d2, m2)
       /\ OneCycle(d2, m2, c, k)
       /\ OneCycle(c, k, d, l)
       /\ GoesOn(c)
  BY DEF After1, After2, After3, After4
<1>2. PICK port \in PortBytes :
       \E by, count, flags : \E again \in BOOLEAN :
         /\ InSums(e, port, by, count, flags, again)
         /\ Same(e, c, {"bus_addr", "bus_data", "hl", "wz", "bc", "f", "pending", "cycle_limit",
              "cycle"})
         /\ c.hl = Plus(e.hl, by)
         /\ c.bc = WithHigh(e.bc, count)
         /\ k = Manual!Poke(m, e.hl, port)
         /\ c.cycle = 3
         /\ again => c.cycle_limit = e.cycle_limit /\
              c.f = Alu!block_repeat_undocumented(flags, High(Plus(e.pc, -2)))
         /\ ~again => c.cycle_limit = 3 /\ c.f = flags
  BY <1>1, InTurns
<1>3. PICK by, count, flags : \E again \in BOOLEAN :
         /\ InSums(e, port, by, count, flags, again)
         /\ Same(e, c, {"bus_addr", "bus_data", "hl", "wz", "bc", "f", "pending", "cycle_limit",
              "cycle"})
         /\ c.hl = Plus(e.hl, by)
         /\ c.bc = WithHigh(e.bc, count)
         /\ k = Manual!Poke(m, e.hl, port)
         /\ c.cycle = 3
         /\ again => c.cycle_limit = e.cycle_limit /\
              c.f = Alu!block_repeat_undocumented(flags, High(Plus(e.pc, -2)))
         /\ ~again => c.cycle_limit = 3 /\ c.f = flags
  BY <1>2
<1>4. PICK again \in BOOLEAN :
         /\ InSums(e, port, by, count, flags, again)
         /\ Same(e, c, {"bus_addr", "bus_data", "hl", "wz", "bc", "f", "pending", "cycle_limit",
              "cycle"})
         /\ c.hl = Plus(e.hl, by)
         /\ c.bc = WithHigh(e.bc, count)
         /\ k = Manual!Poke(m, e.hl, port)
         /\ c.cycle = 3
         /\ again => c.cycle_limit = e.cycle_limit /\
              c.f = Alu!block_repeat_undocumented(flags, High(Plus(e.pc, -2)))
         /\ ~again => c.cycle_limit = 3 /\ c.f = flags
  BY <1>3
<1>5. again
  BY <1>1, <1>4 DEF GoesOn
<1>6. /\ Typed(e) /\ Shaped(e) /\ ByteMemory(m) /\ e.opcode \in Byte /\ e.pc \in Word
  BY CoreTypes DEF BeginsEd
<1>7. e.instr \in BlockInstrs /\ "ed_block_in" = DecodeEd(e.opcode)
  BY DEF BlockInstrs, BeginsEd
<1>8. Z(e.opcode) = 2 /\ (block_repeats(e) <=> e.opcode >= 176) /\
        Direction(e.opcode, block_delta(e))
  BY <1>6, <1>7, MapEd, BlockOpcode
<1>9. e.opcode % 4 = 2
  BY <1>6, <1>8 DEF Z, Byte
<1>10. PICK s : s = Seen(e)
  OBVIOUS
<1>11. s.bc = e.bc /\ s.hl = e.hl /\ s.pc = e.pc
  BY <1>10, SeenFields DEF Seen
<1>12. /\ Direction(e.opcode, by) /\ count = (High(s.bc) - 1) % 256
       /\ again <=> (e.opcode >= 176 /\ count # 0)
  BY <1>4, <1>8, <1>11 DEF InSums
<1>13. flags = Alu!block_io_flags(count, port, (Low(e.bc) + by) % 256)
  BY <1>4 DEF InSums
<1>14. flags = Manual!block_io_flags(count, port, (Low(s.bc) + by) % 256)
  BY <1>11, <1>13, SameArithmetic
<1>15. PICK t : t = [s EXCEPT !.hl = Plus(@, by), !.bc = 256 * count + Low(@), !.f = flags]
  OBVIOUS
<1>16. PICK pc : pc = Plus(e.pc, -2)
  OBVIOUS
<1>30. PassReadsTerms(s, m, e.opcode, by, port, count, flags, again, t)
  BY <1>9, <1>12, <1>14, <1>15 DEF PassReadsTerms
<1>17. PassReadsLeft(s, m, e.opcode, port, pc, again, t)
  BY <1>30, PassReads
<1>18. BlockTable(e, m, port)
         = Manual!Both([t EXCEPT !.pc = pc, !.f = Alu!block_repeat_undocumented(@, High(pc))],
           Manual!Poke(m, s.hl, port))
  BY <1>5, <1>10, <1>16, <1>17 DEF BlockTable, PassReadsLeft
<1>19. c.instr = "ed_block_in" /\ c.cycle = 3
  BY <1>1, <1>4, Fields DEF OneCycle
<1>20. CyclesOf["ed_block_in"] = BlockCycles("ed_block_in") /\
         HooksOf["ed_block_in"] = BlockCycleHooks("ed_block_in")
  BY GroupCycles, GroupHooks DEF Instrs, BlockInstrs
<1>21. Enters(c, "idle5", "block_repeat", "none")
  BY <1>19, <1>20 DEF Enters, BlockCycles, BlockCycleHooks, On, Idle5
<1>22. Same(c, d, {"pc", "wz", "cycle"}) /\ l = k /\ d.pc = Plus(c.pc, -2)
  BY <1>1, <1>21, Jumps DEF IdleCycles
<1>23. /\ Same(e, p, {"nmi_latched", "bus_addr", "bus_data", "hl", "wz", "bc", "f", "pending",
            "cycle_limit", "cycle", "pc"})
       /\ p.hl = Plus(e.hl, by)
       /\ p.bc = WithHigh(e.bc, count)
       /\ p.pc = pc
       /\ p.f = Alu!block_repeat_undocumented(flags, High(pc))
       /\ l = Manual!Poke(m, s.hl, port)
  BY <1>4, <1>5, <1>11, <1>16, <1>22, InCore DEF Same
<1>24. Seen(p) = [s EXCEPT !.hl = p.hl, !.bc = p.bc, !.pc = p.pc, !.f = p.f]
  BY <1>10, <1>23, SeenFields DEF Same, Seen
<1>31. t.f = flags
  BY <1>10, <1>15, SeenFields DEF Seen
<1>32. p.bc = 256 * count + Low(s.bc)
  BY <1>11, <1>23 DEF WithHigh, Low
<1>25. Seen(p) = [t EXCEPT !.pc = pc, !.f = Alu!block_repeat_undocumented(@, High(pc))]
  BY <1>11, <1>15, <1>23, <1>24, <1>31, <1>32
<1>26. Execute("ed_block_in", p, int) = p
  BY ExecutesNothing DEF Hooked, BlockInstrs
<1>27. Meets(Execute("ed_block_in", p, int), l, BlockTable(e, m, port))
  BY <1>18, <1>23, <1>25, <1>26, MeetsBoth
<1> QED BY <1>27

(* OUTI and OUTD, and the last pass of OTIR and OTDR. *)
LEMMA Does_ed_block_out_ends ==
  ASSUME NEW e, NEW m, NEW at, BeginsEd(e, m, at), e.instr = "ed_block_out",
         NEW d, NEW l, After3(e, m, d, l),
         ~GoesOn(d), e.cycle_limit = 4,
         NEW p, Typed(p), Same(d, p, {"nmi_latched"}), NEW int, NEW port
  PROVE  Meets(Execute("ed_block_out", p, int), l, BlockTable(e, m, port))
<1>1. PICK d1, m1, d2, m2 :
       /\ OneCycle(e, m, d1, m1)
       /\ OneCycle(d1, m1, d2, m2)
       /\ OneCycle(d2, m2, d, l)
  BY DEF After1, After2, After3
<1>2. PICK by, count, flags :
       \E again \in BOOLEAN :
         /\ OutSums(e, Manual!Peek(m, e.hl), by, count, flags, again)
         /\ Same(e, d, {"bus_addr", "bus_data", "bc", "hl", "wz", "f", "pending", "cycle_limit",
              "cycle"})
         /\ d.hl = Plus(e.hl, by)
         /\ d.bc = WithHigh(e.bc, count)
         /\ l = m
         /\ d.cycle = 3
         /\ again => d.cycle_limit = e.cycle_limit /\
              d.f = Alu!block_repeat_undocumented(flags, High(Plus(e.pc, -2)))
         /\ ~again => d.cycle_limit = 3 /\ d.f = flags
  BY <1>1, OutTurns
<1>4. PICK again \in BOOLEAN :
         /\ OutSums(e, Manual!Peek(m, e.hl), by, count, flags, again)
         /\ Same(e, d, {"bus_addr", "bus_data", "bc", "hl", "wz", "f", "pending", "cycle_limit",
              "cycle"})
         /\ d.hl = Plus(e.hl, by)
         /\ d.bc = WithHigh(e.bc, count)
         /\ l = m
         /\ d.cycle = 3
         /\ again => d.cycle_limit = e.cycle_limit /\
              d.f = Alu!block_repeat_undocumented(flags, High(Plus(e.pc, -2)))
         /\ ~again => d.cycle_limit = 3 /\ d.f = flags
  BY <1>2
<1>5. ~again
  BY <1>1, <1>4 DEF GoesOn
<1>6. /\ Typed(e) /\ Shaped(e) /\ ByteMemory(m) /\ e.opcode \in Byte /\ e.pc \in Word
  BY CoreTypes DEF BeginsEd
<1>7. e.instr \in BlockInstrs /\ "ed_block_out" = DecodeEd(e.opcode)
  BY DEF BlockInstrs, BeginsEd
<1>8. Z(e.opcode) = 3 /\ (block_repeats(e) <=> e.opcode >= 176) /\
        Direction(e.opcode, block_delta(e))
  BY <1>6, <1>7, MapEd, BlockOpcode
<1>9. e.opcode % 4 = 3
  BY <1>6, <1>8 DEF Z, Byte
<1>10. PICK s : s = Seen(e)
  OBVIOUS
<1>11. s.bc = e.bc /\ s.hl = e.hl /\ s.pc = e.pc
  BY <1>10, SeenFields DEF Seen
<1>12. /\ Direction(e.opcode, by) /\ count = (High(s.bc) - 1) % 256
       /\ again <=> (e.opcode >= 176 /\ count # 0)
  BY <1>4, <1>8, <1>11 DEF OutSums
<1>13. flags = Alu!block_io_flags(count, Manual!Peek(m, e.hl), Low(Plus(e.hl, by)))
  BY <1>4 DEF OutSums
<1>14. flags = Manual!block_io_flags(count, Manual!Peek(m, s.hl), Low(Plus(s.hl, by)))
  BY <1>11, <1>13, SameArithmetic
<1>15. PICK t : t = [s EXCEPT !.hl = Plus(@, by), !.bc = 256 * count + Low(@), !.f = flags]
  OBVIOUS
<1>16. PICK pc : pc = Plus(e.pc, -2)
  OBVIOUS
<1>30. PassWritesTerms(s, m, e.opcode, by, port, count, flags, again, t)
  BY <1>9, <1>12, <1>14, <1>15 DEF PassWritesTerms
<1>17. PassWritesLeft(s, m, e.opcode, port, pc, again, t)
  BY <1>30, PassWrites
<1>18. BlockTable(e, m, port) = Manual!Both(t, m)
  BY <1>5, <1>10, <1>16, <1>17 DEF BlockTable, PassWritesLeft
<1>23. /\ Same(e, p, {"nmi_latched", "bus_addr", "bus_data", "bc", "hl", "wz", "f", "pending",
            "cycle_limit", "cycle"})
       /\ p.hl = Plus(e.hl, by)
       /\ p.bc = WithHigh(e.bc, count)
       /\ p.f = flags
       /\ l = m
  BY <1>4, <1>5, <1>11, InCore DEF Same
<1>24. Seen(p) = [s EXCEPT !.hl = p.hl, !.bc = p.bc, !.f = p.f]
  BY <1>10, <1>23, SeenFields DEF Same, Seen
<1>31. t.f = flags
  BY <1>10, <1>15, SeenFields DEF Seen
<1>32. p.bc = 256 * count + Low(s.bc)
  BY <1>11, <1>23 DEF WithHigh, Low
<1>25. Seen(p) = t
  BY <1>11, <1>15, <1>23, <1>24, <1>31, <1>32
<1>26. Execute("ed_block_out", p, int) = p
  BY ExecutesNothing DEF Hooked, BlockInstrs
<1>27. Meets(Execute("ed_block_out", p, int), l, BlockTable(e, m, port))
  BY <1>18, <1>23, <1>25, <1>26, MeetsBoth
<1> QED BY <1>27

(* OTIR and OTDR, going on. *)
LEMMA Does_ed_block_out ==
  ASSUME NEW e, NEW m, NEW at, BeginsEd(e, m, at), e.instr = "ed_block_out",
         NEW d, NEW l, After4(e, m, d, l),
         NEW p, Typed(p), Same(d, p, {"nmi_latched"}), NEW int, NEW port
  PROVE  Meets(Execute("ed_block_out", p, int), l, BlockTable(e, m, port))
<1>1. PICK d1, m1, d2, m2, c, k :
       /\ OneCycle(e, m, d1, m1)
       /\ OneCycle(d1, m1, d2, m2)
       /\ OneCycle(d2, m2, c, k)
       /\ OneCycle(c, k, d, l)
       /\ GoesOn(c)
  BY DEF After1, After2, After3, After4
<1>2. PICK by, count, flags :
       \E again \in BOOLEAN :
         /\ OutSums(e, Manual!Peek(m, e.hl), by, count, flags, again)
         /\ Same(e, c, {"bus_addr", "bus_data", "bc", "hl", "wz", "f", "pending", "cycle_limit",
              "cycle"})
         /\ c.hl = Plus(e.hl, by)
         /\ c.bc = WithHigh(e.bc, count)
         /\ k = m
         /\ c.cycle = 3
         /\ again => c.cycle_limit = e.cycle_limit /\
              c.f = Alu!block_repeat_undocumented(flags, High(Plus(e.pc, -2)))
         /\ ~again => c.cycle_limit = 3 /\ c.f = flags
  BY <1>1, OutTurns
<1>4. PICK again \in BOOLEAN :
         /\ OutSums(e, Manual!Peek(m, e.hl), by, count, flags, again)
         /\ Same(e, c, {"bus_addr", "bus_data", "bc", "hl", "wz", "f", "pending", "cycle_limit",
              "cycle"})
         /\ c.hl = Plus(e.hl, by)
         /\ c.bc = WithHigh(e.bc, count)
         /\ k = m
         /\ c.cycle = 3
         /\ again => c.cycle_limit = e.cycle_limit /\
              c.f = Alu!block_repeat_undocumented(flags, High(Plus(e.pc, -2)))
         /\ ~again => c.cycle_limit = 3 /\ c.f = flags
  BY <1>2
<1>5. again
  BY <1>1, <1>4 DEF GoesOn
<1>6. /\ Typed(e) /\ Shaped(e) /\ ByteMemory(m) /\ e.opcode \in Byte /\ e.pc \in Word
  BY CoreTypes DEF BeginsEd
<1>7. e.instr \in BlockInstrs /\ "ed_block_out" = DecodeEd(e.opcode)
  BY DEF BlockInstrs, BeginsEd
<1>8. Z(e.opcode) = 3 /\ (block_repeats(e) <=> e.opcode >= 176) /\
        Direction(e.opcode, block_delta(e))
  BY <1>6, <1>7, MapEd, BlockOpcode
<1>9. e.opcode % 4 = 3
  BY <1>6, <1>8 DEF Z, Byte
<1>10. PICK s : s = Seen(e)
  OBVIOUS
<1>11. s.bc = e.bc /\ s.hl = e.hl /\ s.pc = e.pc
  BY <1>10, SeenFields DEF Seen
<1>12. /\ Direction(e.opcode, by) /\ count = (High(s.bc) - 1) % 256
       /\ again <=> (e.opcode >= 176 /\ count # 0)
  BY <1>4, <1>8, <1>11 DEF OutSums
<1>13. flags = Alu!block_io_flags(count, Manual!Peek(m, e.hl), Low(Plus(e.hl, by)))
  BY <1>4 DEF OutSums
<1>14. flags = Manual!block_io_flags(count, Manual!Peek(m, s.hl), Low(Plus(s.hl, by)))
  BY <1>11, <1>13, SameArithmetic
<1>15. PICK t : t = [s EXCEPT !.hl = Plus(@, by), !.bc = 256 * count + Low(@), !.f = flags]
  OBVIOUS
<1>16. PICK pc : pc = Plus(e.pc, -2)
  OBVIOUS
<1>30. PassWritesTerms(s, m, e.opcode, by, port, count, flags, again, t)
  BY <1>9, <1>12, <1>14, <1>15 DEF PassWritesTerms
<1>17. PassWritesLeft(s, m, e.opcode, port, pc, again, t)
  BY <1>30, PassWrites
<1>18. BlockTable(e, m, port)
         = Manual!Both([t EXCEPT !.pc = pc, !.f = Alu!block_repeat_undocumented(@, High(pc))], m)
  BY <1>5, <1>10, <1>16, <1>17 DEF BlockTable, PassWritesLeft
<1>19. c.instr = "ed_block_out" /\ c.cycle = 3
  BY <1>1, <1>4, Fields DEF OneCycle
<1>20. CyclesOf["ed_block_out"] = BlockCycles("ed_block_out") /\
         HooksOf["ed_block_out"] = BlockCycleHooks("ed_block_out")
  BY GroupCycles, GroupHooks DEF Instrs, BlockInstrs
<1>21. Enters(c, "idle5", "block_repeat", "none")
  BY <1>19, <1>20 DEF Enters, BlockCycles, BlockCycleHooks, On, Idle5
<1>22. Same(c, d, {"pc", "wz", "cycle"}) /\ l = k /\ d.pc = Plus(c.pc, -2)
  BY <1>1, <1>21, Jumps DEF IdleCycles
<1>23. /\ Same(e, p, {"nmi_latched", "bus_addr", "bus_data", "bc", "hl", "wz", "f", "pending",
            "cycle_limit", "cycle", "pc"})
       /\ p.hl = Plus(e.hl, by)
       /\ p.bc = WithHigh(e.bc, count)
       /\ p.pc = pc
       /\ p.f = Alu!block_repeat_undocumented(flags, High(pc))
       /\ l = m
  BY <1>4, <1>5, <1>11, <1>16, <1>22, InCore DEF Same
<1>24. Seen(p) = [s EXCEPT !.hl = p.hl, !.bc = p.bc, !.pc = p.pc, !.f = p.f]
  BY <1>10, <1>23, SeenFields DEF Same, Seen
<1>31. t.f = flags
  BY <1>10, <1>15, SeenFields DEF Seen
<1>32. p.bc = 256 * count + Low(s.bc)
  BY <1>11, <1>23 DEF WithHigh, Low
<1>25. Seen(p) = [t EXCEPT !.pc = pc, !.f = Alu!block_repeat_undocumented(@, High(pc))]
  BY <1>11, <1>15, <1>23, <1>24, <1>31, <1>32
<1>26. Execute("ed_block_out", p, int) = p
  BY ExecutesNothing DEF Hooked, BlockInstrs
<1>27. Meets(Execute("ed_block_out", p, int), l, BlockTable(e, m, port))
  BY <1>18, <1>23, <1>25, <1>26, MeetsBoth
<1> QED BY <1>27
-----------------------------------------------------------------------------
(***************************************************************************)
(* Behind DD and FD: the instructions that name (IX+d).                    *)
(***************************************************************************)

(* An instruction under DD or FD that names (IX+d) is about to run; at is   *)
(* where the manual has its operand bytes.                                 *)
BeginsIndexed(e, m, at) ==
  /\ Typed(e) /\ ByteMemory(m) /\ e.cycle = 0 /\ e.index # 0
  /\ e.instr = DecodeIndexed(e.opcode) /\ OperandsAt(m, at, Plus(e.pc, 1))
PlaceOf(e, m) == Manual!Displaced(e[index_pair(e)], Manual!Peek(m, e.pc))
PastIndexed(e) == [Seen(e) EXCEPT !.pc = Plus(@, 1 + Manual!OperandBytes(e.opcode))]
IndexedTable(e, m, at, port) ==
  Manual!Main(PastIndexed(e), m, e.opcode, index_pair(e), PlaceOf(e, m), at, port, e.q)

LEMMA MapIndexed ==
  ASSUME NEW o \in Byte, NEW n, n = DecodeIndexed(o)
  PROVE  /\ X(o) \in 0 .. 3 /\ Y(o) \in 0 .. 7 /\ Z(o) \in 0 .. 7
         /\ n = "index_cb" => o = 203
         /\ n = "index_inc_mem" => X(o) = 0 /\ Y(o) = 6 /\ Z(o) = 4
         /\ n = "index_dec_mem" => X(o) = 0 /\ Y(o) = 6 /\ Z(o) = 5
         /\ n = "index_ld_mem_n" => X(o) = 0 /\ Y(o) = 6 /\ Z(o) = 6
         /\ n = "index_ld_reg_mem" => X(o) = 1 /\ Y(o) # 6 /\ Z(o) = 6 /\ o # 118
         /\ n = "index_ld_mem_reg" => X(o) = 1 /\ Y(o) = 6 /\ Z(o) # 6 /\ o # 118
         /\ n = "index_alu_mem" => X(o) = 2 /\ Z(o) = 6
<1>1. X(o) \in 0 .. 3 /\ Y(o) \in 0 .. 7 /\ Z(o) \in 0 .. 7 /\ o = 64 * X(o) + 8 * Y(o) + Z(o)
  BY FieldsType, OpcodeOf
<1>2. DecodeBase(o) \in Instrs /\ DecodeBase(o) \notin IndexedInstrs
  <2>1. DecodeBase(o) \in Instrs
    BY DecodeBaseType
  <2>2. DecodeBase(o) \notin IndexedInstrs
    BY PlacedAt DEF InX0, InX3, IndexedInstrs
  <2> QED BY <2>1, <2>2
<1>3. CASE o \in {203, 221, 237, 253}
  BY <1>1, <1>3 DEF DecodeIndexed
<1>4. CASE o \notin {203, 221, 237, 253} /\ X(o) = 0
  BY <1>1, <1>2, <1>4 DEF DecodeIndexed, IndexedInstrs
<1>5. CASE o \notin {203, 221, 237, 253} /\ X(o) = 1
  BY <1>1, <1>2, <1>5 DEF DecodeIndexed, IndexedInstrs
<1>6. CASE o \notin {203, 221, 237, 253} /\ X(o) \in {2, 3}
  BY <1>1, <1>2, <1>6 DEF DecodeIndexed, IndexedInstrs
<1> QED BY <1>1, <1>3, <1>4, <1>5, <1>6

(* The byte that (IX+d) is. *)
LEMMA PlaceIs ==
  ASSUME NEW e, NEW m, Typed(e), ByteMemory(m)
  PROVE  /\ PlaceOf(e, m) = Plus(e[index_pair(e)], Signed(Manual!Peek(m, e.pc)))
         /\ PlaceOf(e, m) \in Word
         /\ Manual!Peek(m, PlaceOf(e, m)) \in Byte
<1>1. PlaceOf(e, m) = Plus(e[index_pair(e)], Signed(Manual!Peek(m, e.pc)))
  BY SameWords DEF PlaceOf
<1>2. e[index_pair(e)] \in Word /\ Manual!Peek(m, e.pc) \in Byte
  BY CoreTypes, BytesAt DEF index_pair
<1>3. PlaceOf(e, m) \in Word
  BY <1>1, <1>2 DEF Plus, Signed, Word, Alu!Word, Byte
<1> QED BY <1>1, <1>3, PeekIsAByte
-----------------------------------------------------------------------------
(***************************************************************************)
(* The instructions that name (IX+d).                                      *)
(***************************************************************************)

(* LD r,(IX+d). *)
LEMMA Does_index_ld_reg_mem ==
  ASSUME NEW e, NEW m, NEW at, BeginsIndexed(e, m, at), e.instr = "index_ld_reg_mem",
         NEW d, NEW l, After3(e, m, d, l),
         NEW p, Typed(p), Same(d, p, {"nmi_latched"}), NEW int, NEW port
  PROVE  Meets(Execute("index_ld_reg_mem", p, int), l, IndexedTable(e, m, at, port))
<1>1. /\ Typed(e) /\ Shaped(e) /\ e.opcode \in Byte /\ ByteMemory(m)
      /\ index_pair(e) \in {"hl", "ix", "iy"}
  BY CoreTypes DEF BeginsIndexed, index_pair
<1>2. "index_ld_reg_mem" = DecodeIndexed(e.opcode)
  BY DEF BeginsIndexed
<1>3. /\ X(e.opcode) = 1
      /\ Z(e.opcode) = 6
      /\ Y(e.opcode) \in 0 .. 7 /\ Y(e.opcode) # 6
      /\ e.opcode # 118
  BY <1>1, <1>2, MapIndexed
<1>4. 1 + Manual!OperandBytes(e.opcode) = 1
  BY <1>1, <1>3, FieldsType, OpcodeOf DEF Manual!OperandBytes, X, Y, Z
<1>5. PICK place \in Word :
      /\ place = PlaceOf(e, m)
      /\ place = Plus(e[index_pair(e)], Signed(Manual!Peek(m, e.pc)))
  BY <1>1, PlaceIs
<1>6. PICK d1, m1, d2, m2 :
      /\ OneCycle(e, m, d1, m1)
      /\ OneCycle(d1, m1, d2, m2)
      /\ OneCycle(d2, m2, d, l)
  BY DEF After1, After2, After3
<1>7. /\ e.instr = "index_ld_reg_mem" /\ e.cycle = 0 /\ Shaped(e)
      /\ d1.instr = "index_ld_reg_mem" /\ d1.cycle = 1 /\ Shaped(d1)
      /\ d2.instr = "index_ld_reg_mem" /\ d2.cycle = 2 /\ Shaped(d2)
  BY <1>6, Fields DEF OneCycle, BeginsIndexed
<1>8. CyclesOf["index_ld_reg_mem"] = IndexedCycles("index_ld_reg_mem") /\
        HooksOf["index_ld_reg_mem"] = IndexedHooks("index_ld_reg_mem")
  BY GroupCycles, GroupHooks DEF Instrs, IndexedInstrs
<1>9. /\ Enters(e, "mem_read", "at_pc", "to_displacement")
      /\ Enters(d1, "idle5", "none", "none")
      /\ Enters(d2, "mem_read", "at_wz", "none")
  BY <1>7, <1>8 DEF Enters, IndexedCycles, IndexedHooks, Operand, Called, AtPcTo, AtPopTo, On,
     Idle, Read, Write,
       IoIn, IoOut, Idle1, Idle2, Idle4, Idle5, Idle7
<1>10. PICK f1 :
       /\ Same(e, f1, {"bus_addr", "bus_data", "pc"})
       /\ f1.bus_addr = e.pc
       /\ f1.bus_data = Manual!Peek(m, e.pc)
       /\ f1.bus_data \in Byte
       /\ m1 = m
       /\ f1.pc = Plus(e.pc, 1)
       /\ d1 = Put(Exit("to_displacement", f1), "cycle", e.cycle + 1)
  BY <1>6, <1>9, AtPcReads
<1>11. f1[index_pair(f1)] = e[index_pair(e)]
  BY <1>10, <1>1, InCore, OperandsAgree DEF Same, OperandsOf
<1>12. Plus(f1[index_pair(f1)], Signed(Manual!Peek(m, e.pc))) = place
  BY <1>11, <1>5
<1>13. /\ Same(e, d1, {"bus_addr", "bus_data", "pc", "wz", "cycle"})
       /\ d1.bus_addr = e.pc
       /\ d1.bus_data = Manual!Peek(m, e.pc)
       /\ d1.pc = Plus(e.pc, 1)
       /\ d1.wz = place
       /\ m1 = m
  BY <1>7, <1>10, Leaves, <1>12, InCore DEF Same
<1>14. d2 = Put(Exit("none", d1), "cycle", d1.cycle + 1) /\ m2 = m1
  BY <1>6, <1>9, Idles DEF IdleCycles
<1>15. /\ Same(e, d2, {"bus_addr", "bus_data", "pc", "wz", "cycle"})
       /\ d2.bus_addr = d1.bus_addr
       /\ d2.bus_data = d1.bus_data
       /\ d2.pc = d1.pc
       /\ d2.wz = d1.wz
       /\ m2 = m1
  BY <1>13, <1>7, <1>14, Leaves, InCore DEF Same
<1>16. /\ Same(e, d2, {"bus_addr", "bus_data", "pc", "wz", "cycle"})
       /\ d2.bus_addr = e.pc
       /\ d2.bus_data = Manual!Peek(m, e.pc)
       /\ d2.pc = Plus(e.pc, 1)
       /\ d2.wz = place
       /\ m2 = m
  BY <1>13, <1>15, <1>1, BytesAt
<1>17. PICK f3 :
       /\ Same(d2, f3, {"bus_addr", "bus_data"})
       /\ f3.bus_addr = d2.wz
       /\ f3.bus_data = Manual!Peek(m2, d2.wz)
       /\ f3.bus_data \in Byte
       /\ l = m2
       /\ d = Put(Exit("none", f3), "cycle", d2.cycle + 1)
  BY <1>6, <1>9, AtWzReads
<1>18. /\ Same(e, d, {"bus_addr", "bus_data", "pc", "wz", "cycle"})
       /\ d.bus_addr = d2.wz
       /\ d.bus_data = Manual!Peek(m2, d2.wz)
       /\ d.pc = d2.pc
       /\ d.wz = d2.wz
       /\ l = m2
  BY <1>16, <1>7, <1>17, Leaves, InCore DEF Same
<1>19. /\ Same(e, d, {"bus_addr", "bus_data", "pc", "wz", "cycle"})
       /\ d.pc = Plus(e.pc, 1)
       /\ d.wz = place
       /\ d.bus_addr = place
       /\ d.bus_data = Manual!Peek(m, place)
       /\ l = m
  BY <1>16, <1>18, <1>1, BytesAt
<1>20. /\ Same(e, p, {"bus_addr", "bus_data", "pc", "wz", "cycle", "nmi_latched"})
       /\ p.pc = Plus(e.pc, 1)
       /\ p.wz = place
       /\ p.bus_addr = place
       /\ p.bus_data = Manual!Peek(m, place)
       /\ l = m
  BY <1>19, InCore DEF Same
<1>21. PICK s : s = PastIndexed(e)
  OBVIOUS
<1>22. s = [Seen(e) EXCEPT !.pc = Plus(e.pc, 1)]
  BY <1>4, <1>21, SeenFields DEF PastIndexed, Seen
<1>23. p.pc = Plus(e.pc, 1)
  BY <1>20, <1>1, BytesAt, InCore DEF Same
<1>24. Seen(p) = s /\ \A x \in VisibleFields : s[x] = p[x]
  BY <1>22, <1>20, <1>23, SeenFields DEF Same, Seen
<1>25. IndexedTable(e, m, at, port)
         = Manual!Both(Manual!WithReg(s, Y(e.opcode), "hl", Manual!Peek(m, place)),
                       m)
  BY <1>1, <1>5, <1>3, <1>21, QuarterOf DEF IndexedTable, Manual!Stores, Manual!Operand
<1>26. OperandsOf(e, p) /\ p.opcode = e.opcode
  BY <1>20, InCore DEF Same, OperandsOf
<1>27. /\ index_pair(p) = index_pair(e) /\ pair_rp(p) = pair_rp(e)
       /\ \A w : Slot(p, w) = Slot(e, w)
  BY <1>26, OperandsAgree
<1>28. Y(p.opcode) = Y(e.opcode) /\ Z(p.opcode) = Z(e.opcode)
  BY <1>26, <1>27
<1>29. p.bus_data \in Byte
  BY CoreTypes
<1>30. PICK r : r = Execute("index_ld_reg_mem", p, int)
  OBVIOUS
<1>31. r = LoadEffect("index_ld_reg_mem", p)
  BY <1>30, Executes DEF Loads
<1>32. r = WithHalf(p, Y(p.opcode), "hl", p.bus_data)
  BY <1>31, <1>26, <1>27, <1>28, <1>29 DEF LoadEffect
<1>33. Seen(r) = Manual!WithReg(s, Y(e.opcode), "hl", p.bus_data)
  BY <1>32, <1>24, <1>26, <1>27, <1>28, <1>29, <1>3, WriteHalf
<1>34. p.bus_data = Manual!Peek(m, place)
  BY <1>20, <1>24, <1>1, <1>5, SeenFields, InCore DEF Same, OperandsAt, BeginsIndexed
<1>35. Seen(r) = Manual!WithReg(s, Y(e.opcode), "hl", Manual!Peek(m, place))
  BY <1>33, <1>34, <1>20
<1> QED BY <1>30, <1>35, <1>34, <1>20, <1>25, MeetsBoth

(* ALU (IX+d). *)
LEMMA Does_index_alu_mem ==
  ASSUME NEW e, NEW m, NEW at, BeginsIndexed(e, m, at), e.instr = "index_alu_mem",
         NEW d, NEW l, After3(e, m, d, l),
         NEW p, Typed(p), Same(d, p, {"nmi_latched"}), NEW int, NEW port
  PROVE  Meets(Execute("index_alu_mem", p, int), l, IndexedTable(e, m, at, port))
<1>1. /\ Typed(e) /\ Shaped(e) /\ e.opcode \in Byte /\ ByteMemory(m)
      /\ index_pair(e) \in {"hl", "ix", "iy"}
  BY CoreTypes DEF BeginsIndexed, index_pair
<1>2. "index_alu_mem" = DecodeIndexed(e.opcode)
  BY DEF BeginsIndexed
<1>3. /\ X(e.opcode) = 2
      /\ Z(e.opcode) = 6
  BY <1>1, <1>2, MapIndexed
<1>4. 1 + Manual!OperandBytes(e.opcode) = 1
  BY <1>1, <1>3, FieldsType, OpcodeOf DEF Manual!OperandBytes, X, Y, Z
<1>5. PICK place \in Word :
      /\ place = PlaceOf(e, m)
      /\ place = Plus(e[index_pair(e)], Signed(Manual!Peek(m, e.pc)))
  BY <1>1, PlaceIs
<1>6. PICK d1, m1, d2, m2 :
      /\ OneCycle(e, m, d1, m1)
      /\ OneCycle(d1, m1, d2, m2)
      /\ OneCycle(d2, m2, d, l)
  BY DEF After1, After2, After3
<1>7. /\ e.instr = "index_alu_mem" /\ e.cycle = 0 /\ Shaped(e)
      /\ d1.instr = "index_alu_mem" /\ d1.cycle = 1 /\ Shaped(d1)
      /\ d2.instr = "index_alu_mem" /\ d2.cycle = 2 /\ Shaped(d2)
  BY <1>6, Fields DEF OneCycle, BeginsIndexed
<1>8. CyclesOf["index_alu_mem"] = IndexedCycles("index_alu_mem") /\
        HooksOf["index_alu_mem"] = IndexedHooks("index_alu_mem")
  BY GroupCycles, GroupHooks DEF Instrs, IndexedInstrs
<1>9. /\ Enters(e, "mem_read", "at_pc", "to_displacement")
      /\ Enters(d1, "idle5", "none", "none")
      /\ Enters(d2, "mem_read", "at_wz", "none")
  BY <1>7, <1>8 DEF Enters, IndexedCycles, IndexedHooks, Operand, Called, AtPcTo, AtPopTo, On,
     Idle, Read, Write,
       IoIn, IoOut, Idle1, Idle2, Idle4, Idle5, Idle7
<1>10. PICK f1 :
       /\ Same(e, f1, {"bus_addr", "bus_data", "pc"})
       /\ f1.bus_addr = e.pc
       /\ f1.bus_data = Manual!Peek(m, e.pc)
       /\ f1.bus_data \in Byte
       /\ m1 = m
       /\ f1.pc = Plus(e.pc, 1)
       /\ d1 = Put(Exit("to_displacement", f1), "cycle", e.cycle + 1)
  BY <1>6, <1>9, AtPcReads
<1>11. f1[index_pair(f1)] = e[index_pair(e)]
  BY <1>10, <1>1, InCore, OperandsAgree DEF Same, OperandsOf
<1>12. Plus(f1[index_pair(f1)], Signed(Manual!Peek(m, e.pc))) = place
  BY <1>11, <1>5
<1>13. /\ Same(e, d1, {"bus_addr", "bus_data", "pc", "wz", "cycle"})
       /\ d1.bus_addr = e.pc
       /\ d1.bus_data = Manual!Peek(m, e.pc)
       /\ d1.pc = Plus(e.pc, 1)
       /\ d1.wz = place
       /\ m1 = m
  BY <1>7, <1>10, Leaves, <1>12, InCore DEF Same
<1>14. d2 = Put(Exit("none", d1), "cycle", d1.cycle + 1) /\ m2 = m1
  BY <1>6, <1>9, Idles DEF IdleCycles
<1>15. /\ Same(e, d2, {"bus_addr", "bus_data", "pc", "wz", "cycle"})
       /\ d2.bus_addr = d1.bus_addr
       /\ d2.bus_data = d1.bus_data
       /\ d2.pc = d1.pc
       /\ d2.wz = d1.wz
       /\ m2 = m1
  BY <1>13, <1>7, <1>14, Leaves, InCore DEF Same
<1>16. /\ Same(e, d2, {"bus_addr", "bus_data", "pc", "wz", "cycle"})
       /\ d2.bus_addr = e.pc
       /\ d2.bus_data = Manual!Peek(m, e.pc)
       /\ d2.pc = Plus(e.pc, 1)
       /\ d2.wz = place
       /\ m2 = m
  BY <1>13, <1>15, <1>1, BytesAt
<1>17. PICK f3 :
       /\ Same(d2, f3, {"bus_addr", "bus_data"})
       /\ f3.bus_addr = d2.wz
       /\ f3.bus_data = Manual!Peek(m2, d2.wz)
       /\ f3.bus_data \in Byte
       /\ l = m2
       /\ d = Put(Exit("none", f3), "cycle", d2.cycle + 1)
  BY <1>6, <1>9, AtWzReads
<1>18. /\ Same(e, d, {"bus_addr", "bus_data", "pc", "wz", "cycle"})
       /\ d.bus_addr = d2.wz
       /\ d.bus_data = Manual!Peek(m2, d2.wz)
       /\ d.pc = d2.pc
       /\ d.wz = d2.wz
       /\ l = m2
  BY <1>16, <1>7, <1>17, Leaves, InCore DEF Same
<1>19. /\ Same(e, d, {"bus_addr", "bus_data", "pc", "wz", "cycle"})
       /\ d.pc = Plus(e.pc, 1)
       /\ d.wz = place
       /\ d.bus_addr = place
       /\ d.bus_data = Manual!Peek(m, place)
       /\ l = m
  BY <1>16, <1>18, <1>1, BytesAt
<1>20. /\ Same(e, p, {"bus_addr", "bus_data", "pc", "wz", "cycle", "nmi_latched"})
       /\ p.pc = Plus(e.pc, 1)
       /\ p.wz = place
       /\ p.bus_addr = place
       /\ p.bus_data = Manual!Peek(m, place)
       /\ l = m
  BY <1>19, InCore DEF Same
<1>21. PICK s : s = PastIndexed(e)
  OBVIOUS
<1>22. s = [Seen(e) EXCEPT !.pc = Plus(e.pc, 1)]
  BY <1>4, <1>21, SeenFields DEF PastIndexed, Seen
<1>23. p.pc = Plus(e.pc, 1)
  BY <1>20, <1>1, BytesAt, InCore DEF Same
<1>24. Seen(p) = s /\ \A x \in VisibleFields : s[x] = p[x]
  BY <1>22, <1>20, <1>23, SeenFields DEF Same, Seen
<1>25. IndexedTable(e, m, at, port)
         = Manual!Both(Manual!Accumulates(s,
           Manual!alu_operation(Y(e.opcode), s.a, s.f, Manual!Peek(m, place))),
                       m)
  BY <1>1, <1>5, <1>3, <1>21, QuarterOf DEF IndexedTable, Manual!Operand
<1>26. OperandsOf(e, p) /\ p.opcode = e.opcode
  BY <1>20, InCore DEF Same, OperandsOf
<1>27. Y(p.opcode) = Y(e.opcode) /\ s.a = p.a /\ s.f = p.f /\ Shaped(p)
  BY <1>26, <1>24, SeenFields, CoreTypes
<1>28. \A which, a, f, value : Manual!alu_operation(which, a, f, value)
         = Alu!alu_operation(which, a, f, value)
  BY SameArithmetic
<1>29. PICK r : r = Execute("index_alu_mem", p, int)
  OBVIOUS
<1>30. r = ArithmeticEffect("index_alu_mem", p)
  BY <1>29, Executes DEF Arithmetics
<1>31. r = WithOut(p, Alu!alu_operation(Y(p.opcode), p.a, p.f, p.bus_data))
  BY <1>30, <1>26, <1>27, <1>28 DEF ArithmeticEffect, AluOperation
<1>32. Seen(r) = Manual!Accumulates(s, Manual!alu_operation(Y(e.opcode), s.a, s.f, p.bus_data))
  BY <1>31, <1>24, <1>26, <1>27, <1>28, SeenOut
<1>33. p.bus_data = Manual!Peek(m, place)
  BY <1>20, <1>24, <1>1, <1>5, SeenFields, InCore DEF Same, OperandsAt, BeginsIndexed
<1>34. Seen(r) = Manual!Accumulates(s,
         Manual!alu_operation(Y(e.opcode), s.a, s.f, Manual!Peek(m, place)))
  BY <1>32, <1>33, <1>20
<1> QED BY <1>29, <1>34, <1>33, <1>20, <1>25, MeetsBoth

(* LD (IX+d),r. *)
LEMMA Does_index_ld_mem_reg ==
  ASSUME NEW e, NEW m, NEW at, BeginsIndexed(e, m, at), e.instr = "index_ld_mem_reg",
         NEW d, NEW l, After3(e, m, d, l),
         NEW p, Typed(p), Same(d, p, {"nmi_latched"}), NEW int, NEW port
  PROVE  Meets(Execute("index_ld_mem_reg", p, int), l, IndexedTable(e, m, at, port))
<1>1. /\ Typed(e) /\ Shaped(e) /\ e.opcode \in Byte /\ ByteMemory(m)
      /\ index_pair(e) \in {"hl", "ix", "iy"}
  BY CoreTypes DEF BeginsIndexed, index_pair
<1>2. "index_ld_mem_reg" = DecodeIndexed(e.opcode)
  BY DEF BeginsIndexed
<1>3. /\ X(e.opcode) = 1
      /\ Y(e.opcode) = 6
      /\ Z(e.opcode) \in 0 .. 7 /\ Z(e.opcode) # 6
      /\ e.opcode # 118
  BY <1>1, <1>2, MapIndexed
<1>4. 1 + Manual!OperandBytes(e.opcode) = 1
  BY <1>1, <1>3, FieldsType, OpcodeOf DEF Manual!OperandBytes, X, Y, Z
<1>5. PICK place \in Word :
      /\ place = PlaceOf(e, m)
      /\ place = Plus(e[index_pair(e)], Signed(Manual!Peek(m, e.pc)))
  BY <1>1, PlaceIs
<1>6. PICK d1, m1, d2, m2 :
      /\ OneCycle(e, m, d1, m1)
      /\ OneCycle(d1, m1, d2, m2)
      /\ OneCycle(d2, m2, d, l)
  BY DEF After1, After2, After3
<1>7. /\ e.instr = "index_ld_mem_reg" /\ e.cycle = 0 /\ Shaped(e)
      /\ d1.instr = "index_ld_mem_reg" /\ d1.cycle = 1 /\ Shaped(d1)
      /\ d2.instr = "index_ld_mem_reg" /\ d2.cycle = 2 /\ Shaped(d2)
  BY <1>6, Fields DEF OneCycle, BeginsIndexed
<1>8. CyclesOf["index_ld_mem_reg"] = IndexedCycles("index_ld_mem_reg") /\
        HooksOf["index_ld_mem_reg"] = IndexedHooks("index_ld_mem_reg")
  BY GroupCycles, GroupHooks DEF Instrs, IndexedInstrs
<1>9. /\ Enters(e, "mem_read", "at_pc", "to_displacement")
      /\ Enters(d1, "idle5", "none", "none")
      /\ Enters(d2, "mem_write", "plain_reg_at_wz", "none")
  BY <1>7, <1>8 DEF Enters, IndexedCycles, IndexedHooks, Operand, Called, AtPcTo, AtPopTo, On,
     Idle, Read, Write,
       IoIn, IoOut, Idle1, Idle2, Idle4, Idle5, Idle7
<1>10. PICK f1 :
       /\ Same(e, f1, {"bus_addr", "bus_data", "pc"})
       /\ f1.bus_addr = e.pc
       /\ f1.bus_data = Manual!Peek(m, e.pc)
       /\ f1.bus_data \in Byte
       /\ m1 = m
       /\ f1.pc = Plus(e.pc, 1)
       /\ d1 = Put(Exit("to_displacement", f1), "cycle", e.cycle + 1)
  BY <1>6, <1>9, AtPcReads
<1>11. f1[index_pair(f1)] = e[index_pair(e)]
  BY <1>10, <1>1, InCore, OperandsAgree DEF Same, OperandsOf
<1>12. Plus(f1[index_pair(f1)], Signed(Manual!Peek(m, e.pc))) = place
  BY <1>11, <1>5
<1>13. /\ Same(e, d1, {"bus_addr", "bus_data", "pc", "wz", "cycle"})
       /\ d1.bus_addr = e.pc
       /\ d1.bus_data = Manual!Peek(m, e.pc)
       /\ d1.pc = Plus(e.pc, 1)
       /\ d1.wz = place
       /\ m1 = m
  BY <1>7, <1>10, Leaves, <1>12, InCore DEF Same
<1>14. d2 = Put(Exit("none", d1), "cycle", d1.cycle + 1) /\ m2 = m1
  BY <1>6, <1>9, Idles DEF IdleCycles
<1>15. /\ Same(e, d2, {"bus_addr", "bus_data", "pc", "wz", "cycle"})
       /\ d2.bus_addr = d1.bus_addr
       /\ d2.bus_data = d1.bus_data
       /\ d2.pc = d1.pc
       /\ d2.wz = d1.wz
       /\ m2 = m1
  BY <1>13, <1>7, <1>14, Leaves, InCore DEF Same
<1>16. /\ Same(e, d2, {"bus_addr", "bus_data", "pc", "wz", "cycle"})
       /\ d2.bus_addr = e.pc
       /\ d2.bus_data = Manual!Peek(m, e.pc)
       /\ d2.pc = Plus(e.pc, 1)
       /\ d2.wz = place
       /\ m2 = m
  BY <1>13, <1>15, <1>1, BytesAt
<1>17. OperandsOf(e, d2) /\ d2.opcode = e.opcode
  BY <1>16, InCore DEF Same, OperandsOf
<1>18. HalfOf(d2, Z(d2.opcode), "hl") = HalfOf(e, Z(e.opcode), "hl")
  BY <1>17, <1>1, OperandsAgree
<1>19. Enter("plain_reg_at_wz", d2) = Puts(d2, d2.wz, HalfOf(e, Z(e.opcode), "hl"))
  BY <1>7, <1>18, EnterWrites
<1>20. PICK f3 :
       /\ Same(d2, f3, {"bus_addr", "bus_data"})
       /\ f3.bus_addr = d2.wz
       /\ f3.bus_data = HalfOf(e, Z(e.opcode), "hl")
       /\ d = Put(Exit("none", f3), "cycle", d2.cycle + 1)
       /\ l = Manual!Poke(m2, d2.wz, HalfOf(e, Z(e.opcode), "hl"))
  BY <1>6, <1>9, <1>19, Writes
<1>21. /\ Same(e, d, {"bus_addr", "bus_data", "pc", "wz", "cycle"})
       /\ d.bus_addr = d2.wz
       /\ d.bus_data = HalfOf(e, Z(e.opcode), "hl")
       /\ d.pc = d2.pc
       /\ d.wz = d2.wz
       /\ l = Manual!Poke(m2, d2.wz, HalfOf(e, Z(e.opcode), "hl"))
  BY <1>16, <1>7, <1>20, Leaves, InCore DEF Same
<1>22. /\ Same(e, d, {"bus_addr", "bus_data", "pc", "wz", "cycle"})
       /\ d.pc = Plus(e.pc, 1)
       /\ d.wz = place
       /\ d.bus_addr = place
       /\ d.bus_data = HalfOf(e, Z(e.opcode), "hl")
       /\ l = Manual!Poke(m, place, HalfOf(e, Z(e.opcode), "hl"))
  BY <1>16, <1>21, <1>1, BytesAt
<1>23. /\ Same(e, p, {"bus_addr", "bus_data", "pc", "wz", "cycle", "nmi_latched"})
       /\ p.pc = Plus(e.pc, 1)
       /\ p.wz = place
       /\ p.bus_addr = place
       /\ p.bus_data = HalfOf(e, Z(e.opcode), "hl")
       /\ l = Manual!Poke(m, place, HalfOf(e, Z(e.opcode), "hl"))
  BY <1>22, InCore DEF Same
<1>24. PICK s : s = PastIndexed(e)
  OBVIOUS
<1>25. s = [Seen(e) EXCEPT !.pc = Plus(e.pc, 1)]
  BY <1>4, <1>24, SeenFields DEF PastIndexed, Seen
<1>26. p.pc = Plus(e.pc, 1)
  BY <1>23, <1>1, BytesAt, InCore DEF Same
<1>27. Seen(p) = s /\ \A x \in VisibleFields : s[x] = p[x]
  BY <1>25, <1>23, <1>26, SeenFields DEF Same, Seen
<1>28. IndexedTable(e, m, at, port)
         = Manual!Both(s,
                       Manual!Poke(m, place, Manual!Reg(s, Z(e.opcode), "hl")))
  BY <1>1, <1>5, <1>3, <1>24, QuarterOf DEF IndexedTable, Manual!Stores, Manual!Operand
<1>29. OperandsOf(e, p) /\ p.opcode = e.opcode
  BY <1>23, InCore DEF Same, OperandsOf
<1>30. /\ index_pair(p) = index_pair(e) /\ pair_rp(p) = pair_rp(e)
       /\ \A w : Slot(p, w) = Slot(e, w)
  BY <1>29, OperandsAgree
<1>31. HalfOf(p, Z(e.opcode), "hl") = HalfOf(e, Z(e.opcode), "hl")
  BY <1>29, <1>30, OperandsAgree
<1>32. Manual!Reg(s, Z(e.opcode), "hl") = HalfOf(e, Z(e.opcode), "hl")
  BY <1>31, <1>3, <1>27, RegIsHalf
<1>33. PICK r : r = Execute("index_ld_mem_reg", p, int)
  OBVIOUS
<1>34. r = p
  BY <1>33, ExecutesNothing DEF Hooked
<1>35. Seen(r) = s
  BY <1>34, <1>27
<1>36. l = Manual!Poke(m, place, Manual!Reg(s, Z(e.opcode), "hl"))
  BY <1>23, <1>27, <1>1, <1>5, <1>29, <1>30, <1>31, <1>32, <1>5, SeenFields, InCore DEF Same, OperandsAt,
     BeginsIndexed
<1>37. Seen(r) = s
  BY <1>35, <1>36
<1> QED BY <1>33, <1>37, <1>36, <1>28, MeetsBoth

(* LD (IX+d),n. *)
LEMMA Does_index_ld_mem_n ==
  ASSUME NEW e, NEW m, NEW at, BeginsIndexed(e, m, at), e.instr = "index_ld_mem_n",
         NEW d, NEW l, After4(e, m, d, l),
         NEW p, Typed(p), Same(d, p, {"nmi_latched"}), NEW int, NEW port
  PROVE  Meets(Execute("index_ld_mem_n", p, int), l, IndexedTable(e, m, at, port))
<1>1. /\ Typed(e) /\ Shaped(e) /\ e.opcode \in Byte /\ ByteMemory(m)
      /\ index_pair(e) \in {"hl", "ix", "iy"}
  BY CoreTypes DEF BeginsIndexed, index_pair
<1>2. "index_ld_mem_n" = DecodeIndexed(e.opcode)
  BY DEF BeginsIndexed
<1>3. /\ X(e.opcode) = 0
      /\ Z(e.opcode) = 6
      /\ Y(e.opcode) = 6
  BY <1>1, <1>2, MapIndexed
<1>4. 1 + Manual!OperandBytes(e.opcode) = 2
  BY <1>1, <1>3, FieldsType, OpcodeOf DEF Manual!OperandBytes, X, Y, Z
<1>5. PICK place \in Word :
      /\ place = PlaceOf(e, m)
      /\ place = Plus(e[index_pair(e)], Signed(Manual!Peek(m, e.pc)))
  BY <1>1, PlaceIs
<1>6. PICK d1, m1, d2, m2, d3, m3 :
      /\ OneCycle(e, m, d1, m1)
      /\ OneCycle(d1, m1, d2, m2)
      /\ OneCycle(d2, m2, d3, m3)
      /\ OneCycle(d3, m3, d, l)
  BY DEF After1, After2, After3, After4
<1>7. /\ e.instr = "index_ld_mem_n" /\ e.cycle = 0 /\ Shaped(e)
      /\ d1.instr = "index_ld_mem_n" /\ d1.cycle = 1 /\ Shaped(d1)
      /\ d2.instr = "index_ld_mem_n" /\ d2.cycle = 2 /\ Shaped(d2)
      /\ d3.instr = "index_ld_mem_n" /\ d3.cycle = 3 /\ Shaped(d3)
  BY <1>6, Fields DEF OneCycle, BeginsIndexed
<1>8. CyclesOf["index_ld_mem_n"] = IndexedCycles("index_ld_mem_n") /\
        HooksOf["index_ld_mem_n"] = IndexedHooks("index_ld_mem_n")
  BY GroupCycles, GroupHooks DEF Instrs, IndexedInstrs
<1>9. /\ Enters(e, "mem_read", "at_pc", "to_displacement")
      /\ Enters(d1, "mem_read", "at_pc", "none")
      /\ Enters(d2, "idle2", "none", "none")
      /\ Enters(d3, "mem_write", "at_wz", "none")
  BY <1>7, <1>8 DEF Enters, IndexedCycles, IndexedHooks, Operand, Called, AtPcTo, AtPopTo, On,
     Idle, Read, Write,
       IoIn, IoOut, Idle1, Idle2, Idle4, Idle5, Idle7
<1>10. PICK f1 :
       /\ Same(e, f1, {"bus_addr", "bus_data", "pc"})
       /\ f1.bus_addr = e.pc
       /\ f1.bus_data = Manual!Peek(m, e.pc)
       /\ f1.bus_data \in Byte
       /\ m1 = m
       /\ f1.pc = Plus(e.pc, 1)
       /\ d1 = Put(Exit("to_displacement", f1), "cycle", e.cycle + 1)
  BY <1>6, <1>9, AtPcReads
<1>11. f1[index_pair(f1)] = e[index_pair(e)]
  BY <1>10, <1>1, InCore, OperandsAgree DEF Same, OperandsOf
<1>12. Plus(f1[index_pair(f1)], Signed(Manual!Peek(m, e.pc))) = place
  BY <1>11, <1>5
<1>13. /\ Same(e, d1, {"bus_addr", "bus_data", "pc", "wz", "cycle"})
       /\ d1.bus_addr = e.pc
       /\ d1.bus_data = Manual!Peek(m, e.pc)
       /\ d1.pc = Plus(e.pc, 1)
       /\ d1.wz = place
       /\ m1 = m
  BY <1>7, <1>10, Leaves, <1>12, InCore DEF Same
<1>14. PICK f2 :
       /\ Same(d1, f2, {"bus_addr", "bus_data", "pc"})
       /\ f2.bus_addr = d1.pc
       /\ f2.bus_data = Manual!Peek(m1, d1.pc)
       /\ f2.bus_data \in Byte
       /\ m2 = m1
       /\ f2.pc = Plus(d1.pc, 1)
       /\ d2 = Put(Exit("none", f2), "cycle", d1.cycle + 1)
  BY <1>6, <1>9, AtPcReads
<1>15. /\ Same(e, d2, {"bus_addr", "bus_data", "pc", "wz", "cycle"})
       /\ d2.bus_addr = d1.pc
       /\ d2.bus_data = Manual!Peek(m1, d1.pc)
       /\ d2.pc = Plus(d1.pc, 1)
       /\ d2.wz = d1.wz
       /\ m2 = m1
  BY <1>13, <1>7, <1>14, Leaves, InCore DEF Same
<1>16. /\ Same(e, d2, {"bus_addr", "bus_data", "pc", "wz", "cycle"})
       /\ d2.wz = place
       /\ d2.bus_addr = Plus(e.pc, 1)
       /\ d2.bus_data = Manual!Peek(m, e.pc + 1)
       /\ d2.pc = Plus(e.pc, 2)
       /\ m2 = m
  BY <1>13, <1>15, <1>1, BytesAt
<1>17. d3 = Put(Exit("none", d2), "cycle", d2.cycle + 1) /\ m3 = m2
  BY <1>6, <1>9, Idles DEF IdleCycles
<1>18. /\ Same(e, d3, {"bus_addr", "bus_data", "pc", "wz", "cycle"})
       /\ d3.wz = d2.wz
       /\ d3.bus_addr = d2.bus_addr
       /\ d3.bus_data = d2.bus_data
       /\ d3.pc = d2.pc
       /\ m3 = m2
  BY <1>16, <1>7, <1>17, Leaves, InCore DEF Same
<1>19. /\ Same(e, d3, {"bus_addr", "bus_data", "pc", "wz", "cycle"})
       /\ d3.wz = place
       /\ d3.bus_addr = Plus(e.pc, 1)
       /\ d3.bus_data = Manual!Peek(m, e.pc + 1)
       /\ d3.pc = Plus(e.pc, 2)
       /\ m3 = m
  BY <1>16, <1>18, <1>1, BytesAt
<1>20. Enter("at_wz", d3) = Put(d3, "bus_addr", d3.wz)
  BY <1>7, EnterReads
<1>21. PICK f4 :
       /\ Same(d3, f4, {"bus_addr"})
       /\ f4.bus_addr = d3.wz
       /\ d = Put(Exit("none", f4), "cycle", d3.cycle + 1)
       /\ l = Manual!Poke(m3, d3.wz, d3.bus_data)
  BY <1>6, <1>9, <1>20, KeepsWrites
<1>22. /\ Same(e, d, {"bus_addr", "bus_data", "pc", "wz", "cycle"})
       /\ d.bus_addr = d3.wz
       /\ d.wz = d3.wz
       /\ d.bus_data = d3.bus_data
       /\ d.pc = d3.pc
       /\ l = Manual!Poke(m3, d3.wz, d3.bus_data)
  BY <1>19, <1>7, <1>21, Leaves, InCore DEF Same
<1>23. /\ Same(e, d, {"bus_addr", "bus_data", "pc", "wz", "cycle"})
       /\ d.wz = place
       /\ d.bus_data = Manual!Peek(m, e.pc + 1)
       /\ d.pc = Plus(e.pc, 2)
       /\ d.bus_addr = place
       /\ l = Manual!Poke(m, place, Manual!Peek(m, e.pc + 1))
  BY <1>19, <1>22, <1>1, BytesAt
<1>24. /\ Same(e, p, {"bus_addr", "bus_data", "pc", "wz", "cycle", "nmi_latched"})
       /\ p.wz = place
       /\ p.bus_data = Manual!Peek(m, e.pc + 1)
       /\ p.pc = Plus(e.pc, 2)
       /\ p.bus_addr = place
       /\ l = Manual!Poke(m, place, Manual!Peek(m, e.pc + 1))
  BY <1>23, InCore DEF Same
<1>25. PICK s : s = PastIndexed(e)
  OBVIOUS
<1>26. s = [Seen(e) EXCEPT !.pc = Plus(e.pc, 2)]
  BY <1>4, <1>25, SeenFields DEF PastIndexed, Seen
<1>27. p.pc = Plus(e.pc, 2)
  BY <1>24, <1>1, BytesAt, InCore DEF Same
<1>28. Seen(p) = s /\ \A x \in VisibleFields : s[x] = p[x]
  BY <1>26, <1>24, <1>27, SeenFields DEF Same, Seen
<1>29. IndexedTable(e, m, at, port) = Manual!Quarter0(s, m, 6, 6, index_pair(e), place, at, e.q)
  BY <1>1, <1>5, <1>3, <1>25, QuarterOf DEF IndexedTable
<1>30. Manual!Quarter0(s, m, 6, 6, index_pair(e), place, at, e.q)
         = Manual!Both(s,
                       Manual!Poke(m, place, Manual!Peek(m, at)))
  BY <1>5 DEF Manual!Quarter0, Manual!Stores
<1>31. PICK r : r = Execute("index_ld_mem_n", p, int)
  OBVIOUS
<1>32. r = p
  BY <1>31, ExecutesNothing DEF Hooked
<1>33. Seen(r) = s
  BY <1>32, <1>28
<1>34. l = Manual!Poke(m, place, Manual!Peek(m, at))
  BY <1>24, <1>28, <1>1, <1>5, BytesAt, SeenFields, InCore DEF Same, OperandsAt, BeginsIndexed
<1>35. Seen(r) = s
  BY <1>33, <1>34
<1> QED BY <1>31, <1>35, <1>34, <1>29, <1>30, MeetsBoth

(* INC (IX+d). *)
LEMMA Does_index_inc_mem ==
  ASSUME NEW e, NEW m, NEW at, BeginsIndexed(e, m, at), e.instr = "index_inc_mem",
         NEW d, NEW l, After5(e, m, d, l),
         NEW p, Typed(p), Same(d, p, {"nmi_latched"}), NEW int, NEW port
  PROVE  Meets(Execute("index_inc_mem", p, int), l, IndexedTable(e, m, at, port))
<1>1. /\ Typed(e) /\ Shaped(e) /\ e.opcode \in Byte /\ ByteMemory(m)
      /\ index_pair(e) \in {"hl", "ix", "iy"}
  BY CoreTypes DEF BeginsIndexed, index_pair
<1>2. "index_inc_mem" = DecodeIndexed(e.opcode)
  BY DEF BeginsIndexed
<1>3. /\ X(e.opcode) = 0
      /\ Z(e.opcode) = 4
      /\ Y(e.opcode) = 6
  BY <1>1, <1>2, MapIndexed
<1>4. 1 + Manual!OperandBytes(e.opcode) = 1
  BY <1>1, <1>3, FieldsType, OpcodeOf DEF Manual!OperandBytes, X, Y, Z
<1>5. PICK place \in Word :
      /\ place = PlaceOf(e, m)
      /\ place = Plus(e[index_pair(e)], Signed(Manual!Peek(m, e.pc)))
  BY <1>1, PlaceIs
<1>6. PICK d1, m1, d2, m2, d3, m3, d4, m4 :
      /\ OneCycle(e, m, d1, m1)
      /\ OneCycle(d1, m1, d2, m2)
      /\ OneCycle(d2, m2, d3, m3)
      /\ OneCycle(d3, m3, d4, m4)
      /\ OneCycle(d4, m4, d, l)
  BY DEF After1, After2, After3, After4, After5
<1>7. /\ e.instr = "index_inc_mem" /\ e.cycle = 0 /\ Shaped(e)
      /\ d1.instr = "index_inc_mem" /\ d1.cycle = 1 /\ Shaped(d1)
      /\ d2.instr = "index_inc_mem" /\ d2.cycle = 2 /\ Shaped(d2)
      /\ d3.instr = "index_inc_mem" /\ d3.cycle = 3 /\ Shaped(d3)
      /\ d4.instr = "index_inc_mem" /\ d4.cycle = 4 /\ Shaped(d4)
  BY <1>6, Fields DEF OneCycle, BeginsIndexed
<1>8. CyclesOf["index_inc_mem"] = IndexedCycles("index_inc_mem") /\
        HooksOf["index_inc_mem"] = IndexedHooks("index_inc_mem")
  BY GroupCycles, GroupHooks DEF Instrs, IndexedInstrs
<1>9. /\ Enters(e, "mem_read", "at_pc", "to_displacement")
      /\ Enters(d1, "idle5", "none", "none")
      /\ Enters(d2, "mem_read", "at_wz", "inc_bus")
      /\ Enters(d3, "idle1", "none", "none")
      /\ Enters(d4, "mem_write", "at_wz", "none")
  BY <1>7, <1>8 DEF Enters, IndexedCycles, IndexedHooks, Operand, Called, AtPcTo, AtPopTo, On,
     Idle, Read, Write,
       IoIn, IoOut, Idle1, Idle2, Idle4, Idle5, Idle7
<1>10. PICK f1 :
       /\ Same(e, f1, {"bus_addr", "bus_data", "pc"})
       /\ f1.bus_addr = e.pc
       /\ f1.bus_data = Manual!Peek(m, e.pc)
       /\ f1.bus_data \in Byte
       /\ m1 = m
       /\ f1.pc = Plus(e.pc, 1)
       /\ d1 = Put(Exit("to_displacement", f1), "cycle", e.cycle + 1)
  BY <1>6, <1>9, AtPcReads
<1>11. f1[index_pair(f1)] = e[index_pair(e)]
  BY <1>10, <1>1, InCore, OperandsAgree DEF Same, OperandsOf
<1>12. Plus(f1[index_pair(f1)], Signed(Manual!Peek(m, e.pc))) = place
  BY <1>11, <1>5
<1>13. /\ Same(e, d1, {"bus_addr", "bus_data", "pc", "wz", "cycle"})
       /\ d1.bus_addr = e.pc
       /\ d1.bus_data = Manual!Peek(m, e.pc)
       /\ d1.pc = Plus(e.pc, 1)
       /\ d1.wz = place
       /\ m1 = m
  BY <1>7, <1>10, Leaves, <1>12, InCore DEF Same
<1>14. d2 = Put(Exit("none", d1), "cycle", d1.cycle + 1) /\ m2 = m1
  BY <1>6, <1>9, Idles DEF IdleCycles
<1>15. /\ Same(e, d2, {"bus_addr", "bus_data", "pc", "wz", "cycle"})
       /\ d2.bus_addr = d1.bus_addr
       /\ d2.bus_data = d1.bus_data
       /\ d2.pc = d1.pc
       /\ d2.wz = d1.wz
       /\ m2 = m1
  BY <1>13, <1>7, <1>14, Leaves, InCore DEF Same
<1>16. /\ Same(e, d2, {"bus_addr", "bus_data", "pc", "wz", "cycle"})
       /\ d2.bus_addr = e.pc
       /\ d2.bus_data = Manual!Peek(m, e.pc)
       /\ d2.pc = Plus(e.pc, 1)
       /\ d2.wz = place
       /\ m2 = m
  BY <1>13, <1>15, <1>1, BytesAt
<1>17. PICK f3 :
       /\ Same(d2, f3, {"bus_addr", "bus_data"})
       /\ f3.bus_addr = d2.wz
       /\ f3.bus_data = Manual!Peek(m2, d2.wz)
       /\ f3.bus_data \in Byte
       /\ m3 = m2
       /\ d3 = Put(Exit("inc_bus", f3), "cycle", d2.cycle + 1)
  BY <1>6, <1>9, AtWzReads
<1>18. PICK out : out = Alu!alu_inc(f3.f, f3.bus_data)
  OBVIOUS
<1>19. /\ Same(e, d3, {"bus_addr", "bus_data", "pc", "wz", "cycle", "f", "pending"})
       /\ d3.bus_addr = d2.wz
       /\ d3.bus_data = out.value
       /\ d3.f = out.flags
       /\ d3.pc = d2.pc
       /\ d3.wz = d2.wz
       /\ out = Alu!alu_inc(d2.f, Manual!Peek(m2, d2.wz))
       /\ m3 = m2
  BY <1>16, <1>7, <1>17, <1>18, LeavesByte, InCore DEF Same
<1>20. d2.f = e.f
  BY <1>16, InCore DEF Same
<1>21. /\ Same(e, d3, {"bus_addr", "bus_data", "pc", "wz", "cycle", "f", "pending"})
       /\ d3.pc = Plus(e.pc, 1)
       /\ d3.wz = place
       /\ d3.bus_addr = place
       /\ d3.bus_data = out.value
       /\ d3.f = out.flags
       /\ out = Alu!alu_inc(e.f, Manual!Peek(m, place))
       /\ m3 = m
  BY <1>16, <1>19, <1>20, <1>1, BytesAt
<1>22. d4 = Put(Exit("none", d3), "cycle", d3.cycle + 1) /\ m4 = m3
  BY <1>6, <1>9, Idles DEF IdleCycles
<1>23. /\ Same(e, d4, {"bus_addr", "bus_data", "pc", "wz", "cycle", "f", "pending"})
       /\ d4.pc = d3.pc
       /\ d4.wz = d3.wz
       /\ d4.bus_addr = d3.bus_addr
       /\ d4.bus_data = d3.bus_data
       /\ d4.f = d3.f
       /\ m4 = m3
  BY <1>21, <1>19, <1>7, <1>22, Leaves, InCore DEF Same
<1>24. /\ Same(e, d4, {"bus_addr", "bus_data", "pc", "wz", "cycle", "f", "pending"})
       /\ d4.pc = Plus(e.pc, 1)
       /\ d4.wz = place
       /\ d4.bus_addr = place
       /\ d4.bus_data = out.value
       /\ d4.f = out.flags
       /\ m4 = m
  BY <1>21, <1>19, <1>23, <1>1, BytesAt
<1>25. Enter("at_wz", d4) = Put(d4, "bus_addr", d4.wz)
  BY <1>7, EnterReads
<1>26. PICK f5 :
       /\ Same(d4, f5, {"bus_addr"})
       /\ f5.bus_addr = d4.wz
       /\ d = Put(Exit("none", f5), "cycle", d4.cycle + 1)
       /\ l = Manual!Poke(m4, d4.wz, d4.bus_data)
  BY <1>6, <1>9, <1>25, KeepsWrites
<1>27. /\ Same(e, d, {"bus_addr", "bus_data", "pc", "wz", "cycle", "f", "pending"})
       /\ d.bus_addr = d4.wz
       /\ d.pc = d4.pc
       /\ d.wz = d4.wz
       /\ d.bus_data = d4.bus_data
       /\ d.f = d4.f
       /\ l = Manual!Poke(m4, d4.wz, d4.bus_data)
  BY <1>24, <1>7, <1>26, Leaves, InCore DEF Same
<1>28. /\ Same(e, d, {"bus_addr", "bus_data", "pc", "wz", "cycle", "f", "pending"})
       /\ d.pc = Plus(e.pc, 1)
       /\ d.wz = place
       /\ d.bus_data = out.value
       /\ d.f = out.flags
       /\ d.bus_addr = place
       /\ l = Manual!Poke(m, place, out.value)
  BY <1>24, <1>27, <1>1, BytesAt
<1>29. /\ Same(e, p, {"bus_addr", "bus_data", "pc", "wz", "cycle", "f", "pending", "nmi_latched"})
       /\ p.pc = Plus(e.pc, 1)
       /\ p.wz = place
       /\ p.bus_data = out.value
       /\ p.f = out.flags
       /\ p.bus_addr = place
       /\ l = Manual!Poke(m, place, out.value)
       /\ out = Alu!alu_inc(e.f, Manual!Peek(m, place))
  BY <1>28, <1>19, <1>21, InCore DEF Same
<1>30. PICK s : s = PastIndexed(e)
  OBVIOUS
<1>31. s = [Seen(e) EXCEPT !.pc = Plus(e.pc, 1)]
  BY <1>4, <1>30, SeenFields DEF PastIndexed, Seen
<1>32. p.pc = Plus(e.pc, 1)
  BY <1>29, <1>1, BytesAt, InCore DEF Same
<1>33. /\ Seen(p) = [s EXCEPT !.f = p.f]
       /\ \A x \in VisibleFields \ {"f"} : s[x] = p[x]
       /\ s.f = e.f
  BY <1>31, <1>29, <1>32, SeenFields DEF Same, Seen
<1>34. IndexedTable(e, m, at, port) = Manual!Quarter0(s, m, 6, 4, index_pair(e), place, at, e.q)
  BY <1>1, <1>5, <1>3, <1>30, QuarterOf DEF IndexedTable
<1>35. Manual!Quarter0(s, m, 6, 4, index_pair(e), place, at, e.q)
         = Manual!Both(Manual!Flagged(s, Manual!alu_inc(s.f, Manual!Peek(m, place)).flags),
                       Manual!Poke(m, place, Manual!alu_inc(s.f, Manual!Peek(m, place)).value))
  BY <1>5 DEF Manual!Quarter0, Manual!Stores, Manual!Operand
<1>36. out = Manual!alu_inc(s.f, Manual!Peek(m, place))
  BY <1>29, <1>33, <1>5, SameArithmetic
<1>37. PICK r : r = Execute("index_inc_mem", p, int)
  OBVIOUS
<1>38. r = p
  BY <1>37, ExecutesNothing DEF Hooked
<1>39. Seen(r) = Seen(p)
  BY <1>38, <1>33
<1>40. l = Manual!Poke(m, place, Manual!alu_inc(s.f, Manual!Peek(m, place)).value)
  BY <1>29, <1>33, <1>1, <1>5, <1>36, SeenFields, InCore DEF Same, OperandsAt, BeginsIndexed
<1>41. Seen(r) = Manual!Flagged(s, Manual!alu_inc(s.f, Manual!Peek(m, place)).flags)
  BY <1>39, <1>40, <1>33, <1>29, <1>36 DEF Manual!Flagged
<1> QED BY <1>37, <1>41, <1>40, <1>33, <1>29, <1>34, <1>35, MeetsBoth

(* DEC (IX+d). *)
LEMMA Does_index_dec_mem ==
  ASSUME NEW e, NEW m, NEW at, BeginsIndexed(e, m, at), e.instr = "index_dec_mem",
         NEW d, NEW l, After5(e, m, d, l),
         NEW p, Typed(p), Same(d, p, {"nmi_latched"}), NEW int, NEW port
  PROVE  Meets(Execute("index_dec_mem", p, int), l, IndexedTable(e, m, at, port))
<1>1. /\ Typed(e) /\ Shaped(e) /\ e.opcode \in Byte /\ ByteMemory(m)
      /\ index_pair(e) \in {"hl", "ix", "iy"}
  BY CoreTypes DEF BeginsIndexed, index_pair
<1>2. "index_dec_mem" = DecodeIndexed(e.opcode)
  BY DEF BeginsIndexed
<1>3. /\ X(e.opcode) = 0
      /\ Z(e.opcode) = 5
      /\ Y(e.opcode) = 6
  BY <1>1, <1>2, MapIndexed
<1>4. 1 + Manual!OperandBytes(e.opcode) = 1
  BY <1>1, <1>3, FieldsType, OpcodeOf DEF Manual!OperandBytes, X, Y, Z
<1>5. PICK place \in Word :
      /\ place = PlaceOf(e, m)
      /\ place = Plus(e[index_pair(e)], Signed(Manual!Peek(m, e.pc)))
  BY <1>1, PlaceIs
<1>6. PICK d1, m1, d2, m2, d3, m3, d4, m4 :
      /\ OneCycle(e, m, d1, m1)
      /\ OneCycle(d1, m1, d2, m2)
      /\ OneCycle(d2, m2, d3, m3)
      /\ OneCycle(d3, m3, d4, m4)
      /\ OneCycle(d4, m4, d, l)
  BY DEF After1, After2, After3, After4, After5
<1>7. /\ e.instr = "index_dec_mem" /\ e.cycle = 0 /\ Shaped(e)
      /\ d1.instr = "index_dec_mem" /\ d1.cycle = 1 /\ Shaped(d1)
      /\ d2.instr = "index_dec_mem" /\ d2.cycle = 2 /\ Shaped(d2)
      /\ d3.instr = "index_dec_mem" /\ d3.cycle = 3 /\ Shaped(d3)
      /\ d4.instr = "index_dec_mem" /\ d4.cycle = 4 /\ Shaped(d4)
  BY <1>6, Fields DEF OneCycle, BeginsIndexed
<1>8. CyclesOf["index_dec_mem"] = IndexedCycles("index_dec_mem") /\
        HooksOf["index_dec_mem"] = IndexedHooks("index_dec_mem")
  BY GroupCycles, GroupHooks DEF Instrs, IndexedInstrs
<1>9. /\ Enters(e, "mem_read", "at_pc", "to_displacement")
      /\ Enters(d1, "idle5", "none", "none")
      /\ Enters(d2, "mem_read", "at_wz", "dec_bus")
      /\ Enters(d3, "idle1", "none", "none")
      /\ Enters(d4, "mem_write", "at_wz", "none")
  BY <1>7, <1>8 DEF Enters, IndexedCycles, IndexedHooks, Operand, Called, AtPcTo, AtPopTo, On,
     Idle, Read, Write,
       IoIn, IoOut, Idle1, Idle2, Idle4, Idle5, Idle7
<1>10. PICK f1 :
       /\ Same(e, f1, {"bus_addr", "bus_data", "pc"})
       /\ f1.bus_addr = e.pc
       /\ f1.bus_data = Manual!Peek(m, e.pc)
       /\ f1.bus_data \in Byte
       /\ m1 = m
       /\ f1.pc = Plus(e.pc, 1)
       /\ d1 = Put(Exit("to_displacement", f1), "cycle", e.cycle + 1)
  BY <1>6, <1>9, AtPcReads
<1>11. f1[index_pair(f1)] = e[index_pair(e)]
  BY <1>10, <1>1, InCore, OperandsAgree DEF Same, OperandsOf
<1>12. Plus(f1[index_pair(f1)], Signed(Manual!Peek(m, e.pc))) = place
  BY <1>11, <1>5
<1>13. /\ Same(e, d1, {"bus_addr", "bus_data", "pc", "wz", "cycle"})
       /\ d1.bus_addr = e.pc
       /\ d1.bus_data = Manual!Peek(m, e.pc)
       /\ d1.pc = Plus(e.pc, 1)
       /\ d1.wz = place
       /\ m1 = m
  BY <1>7, <1>10, Leaves, <1>12, InCore DEF Same
<1>14. d2 = Put(Exit("none", d1), "cycle", d1.cycle + 1) /\ m2 = m1
  BY <1>6, <1>9, Idles DEF IdleCycles
<1>15. /\ Same(e, d2, {"bus_addr", "bus_data", "pc", "wz", "cycle"})
       /\ d2.bus_addr = d1.bus_addr
       /\ d2.bus_data = d1.bus_data
       /\ d2.pc = d1.pc
       /\ d2.wz = d1.wz
       /\ m2 = m1
  BY <1>13, <1>7, <1>14, Leaves, InCore DEF Same
<1>16. /\ Same(e, d2, {"bus_addr", "bus_data", "pc", "wz", "cycle"})
       /\ d2.bus_addr = e.pc
       /\ d2.bus_data = Manual!Peek(m, e.pc)
       /\ d2.pc = Plus(e.pc, 1)
       /\ d2.wz = place
       /\ m2 = m
  BY <1>13, <1>15, <1>1, BytesAt
<1>17. PICK f3 :
       /\ Same(d2, f3, {"bus_addr", "bus_data"})
       /\ f3.bus_addr = d2.wz
       /\ f3.bus_data = Manual!Peek(m2, d2.wz)
       /\ f3.bus_data \in Byte
       /\ m3 = m2
       /\ d3 = Put(Exit("dec_bus", f3), "cycle", d2.cycle + 1)
  BY <1>6, <1>9, AtWzReads
<1>18. PICK out : out = Alu!alu_dec(f3.f, f3.bus_data)
  OBVIOUS
<1>19. /\ Same(e, d3, {"bus_addr", "bus_data", "pc", "wz", "cycle", "f", "pending"})
       /\ d3.bus_addr = d2.wz
       /\ d3.bus_data = out.value
       /\ d3.f = out.flags
       /\ d3.pc = d2.pc
       /\ d3.wz = d2.wz
       /\ out = Alu!alu_dec(d2.f, Manual!Peek(m2, d2.wz))
       /\ m3 = m2
  BY <1>16, <1>7, <1>17, <1>18, LeavesByte, InCore DEF Same
<1>20. d2.f = e.f
  BY <1>16, InCore DEF Same
<1>21. /\ Same(e, d3, {"bus_addr", "bus_data", "pc", "wz", "cycle", "f", "pending"})
       /\ d3.pc = Plus(e.pc, 1)
       /\ d3.wz = place
       /\ d3.bus_addr = place
       /\ d3.bus_data = out.value
       /\ d3.f = out.flags
       /\ out = Alu!alu_dec(e.f, Manual!Peek(m, place))
       /\ m3 = m
  BY <1>16, <1>19, <1>20, <1>1, BytesAt
<1>22. d4 = Put(Exit("none", d3), "cycle", d3.cycle + 1) /\ m4 = m3
  BY <1>6, <1>9, Idles DEF IdleCycles
<1>23. /\ Same(e, d4, {"bus_addr", "bus_data", "pc", "wz", "cycle", "f", "pending"})
       /\ d4.pc = d3.pc
       /\ d4.wz = d3.wz
       /\ d4.bus_addr = d3.bus_addr
       /\ d4.bus_data = d3.bus_data
       /\ d4.f = d3.f
       /\ m4 = m3
  BY <1>21, <1>19, <1>7, <1>22, Leaves, InCore DEF Same
<1>24. /\ Same(e, d4, {"bus_addr", "bus_data", "pc", "wz", "cycle", "f", "pending"})
       /\ d4.pc = Plus(e.pc, 1)
       /\ d4.wz = place
       /\ d4.bus_addr = place
       /\ d4.bus_data = out.value
       /\ d4.f = out.flags
       /\ m4 = m
  BY <1>21, <1>19, <1>23, <1>1, BytesAt
<1>25. Enter("at_wz", d4) = Put(d4, "bus_addr", d4.wz)
  BY <1>7, EnterReads
<1>26. PICK f5 :
       /\ Same(d4, f5, {"bus_addr"})
       /\ f5.bus_addr = d4.wz
       /\ d = Put(Exit("none", f5), "cycle", d4.cycle + 1)
       /\ l = Manual!Poke(m4, d4.wz, d4.bus_data)
  BY <1>6, <1>9, <1>25, KeepsWrites
<1>27. /\ Same(e, d, {"bus_addr", "bus_data", "pc", "wz", "cycle", "f", "pending"})
       /\ d.bus_addr = d4.wz
       /\ d.pc = d4.pc
       /\ d.wz = d4.wz
       /\ d.bus_data = d4.bus_data
       /\ d.f = d4.f
       /\ l = Manual!Poke(m4, d4.wz, d4.bus_data)
  BY <1>24, <1>7, <1>26, Leaves, InCore DEF Same
<1>28. /\ Same(e, d, {"bus_addr", "bus_data", "pc", "wz", "cycle", "f", "pending"})
       /\ d.pc = Plus(e.pc, 1)
       /\ d.wz = place
       /\ d.bus_data = out.value
       /\ d.f = out.flags
       /\ d.bus_addr = place
       /\ l = Manual!Poke(m, place, out.value)
  BY <1>24, <1>27, <1>1, BytesAt
<1>29. /\ Same(e, p, {"bus_addr", "bus_data", "pc", "wz", "cycle", "f", "pending", "nmi_latched"})
       /\ p.pc = Plus(e.pc, 1)
       /\ p.wz = place
       /\ p.bus_data = out.value
       /\ p.f = out.flags
       /\ p.bus_addr = place
       /\ l = Manual!Poke(m, place, out.value)
       /\ out = Alu!alu_dec(e.f, Manual!Peek(m, place))
  BY <1>28, <1>19, <1>21, InCore DEF Same
<1>30. PICK s : s = PastIndexed(e)
  OBVIOUS
<1>31. s = [Seen(e) EXCEPT !.pc = Plus(e.pc, 1)]
  BY <1>4, <1>30, SeenFields DEF PastIndexed, Seen
<1>32. p.pc = Plus(e.pc, 1)
  BY <1>29, <1>1, BytesAt, InCore DEF Same
<1>33. /\ Seen(p) = [s EXCEPT !.f = p.f]
       /\ \A x \in VisibleFields \ {"f"} : s[x] = p[x]
       /\ s.f = e.f
  BY <1>31, <1>29, <1>32, SeenFields DEF Same, Seen
<1>34. IndexedTable(e, m, at, port) = Manual!Quarter0(s, m, 6, 5, index_pair(e), place, at, e.q)
  BY <1>1, <1>5, <1>3, <1>30, QuarterOf DEF IndexedTable
<1>35. Manual!Quarter0(s, m, 6, 5, index_pair(e), place, at, e.q)
         = Manual!Both(Manual!Flagged(s, Manual!alu_dec(s.f, Manual!Peek(m, place)).flags),
                       Manual!Poke(m, place, Manual!alu_dec(s.f, Manual!Peek(m, place)).value))
  BY <1>5 DEF Manual!Quarter0, Manual!Stores, Manual!Operand
<1>36. out = Manual!alu_dec(s.f, Manual!Peek(m, place))
  BY <1>29, <1>33, <1>5, SameArithmetic
<1>37. PICK r : r = Execute("index_dec_mem", p, int)
  OBVIOUS
<1>38. r = p
  BY <1>37, ExecutesNothing DEF Hooked
<1>39. Seen(r) = Seen(p)
  BY <1>38, <1>33
<1>40. l = Manual!Poke(m, place, Manual!alu_dec(s.f, Manual!Peek(m, place)).value)
  BY <1>29, <1>33, <1>1, <1>5, <1>36, SeenFields, InCore DEF Same, OperandsAt, BeginsIndexed
<1>41. Seen(r) = Manual!Flagged(s, Manual!alu_dec(s.f, Manual!Peek(m, place)).flags)
  BY <1>39, <1>40, <1>33, <1>29, <1>36 DEF Manual!Flagged
<1> QED BY <1>37, <1>41, <1>40, <1>33, <1>29, <1>34, <1>35, MeetsBoth
-----------------------------------------------------------------------------
(***************************************************************************)
(* Behind DD CB and FD CB.                                                 *)
(***************************************************************************)

(* What DD CB d op leaves: BIT stops there, the others have a result. *)
LEMMA HalfKeeps ==
  ASSUME NEW c, Shaped(c), NEW w \in 0 .. 7, NEW b, NEW r, r = WithHalf(c, w, "hl", b)
  PROVE  Same(c, r, {"a", "bc", "de", "hl"})
<1>1. \/ r = c \/ \E v : \/ r = Put(c, "a", v) \/ r = Put(c, "bc", v) \/ r = Put(c, "de", v)
                        \/ r = Put(c, "hl", v)
  <2>1. CASE w = 0
    <3>1. r = Put(c, "bc", WithHigh(c["bc"], b))
      BY <2>1 DEF WithHalf, Put
    <3> QED BY <3>1
  <2>2. CASE w = 1
    <3>1. r = Put(c, "bc", WithLow(c["bc"], b))
      BY <2>2 DEF WithHalf, Put
    <3> QED BY <3>1
  <2>3. CASE w = 2
    <3>1. r = Put(c, "de", WithHigh(c["de"], b))
      BY <2>3 DEF WithHalf, Put
    <3> QED BY <3>1
  <2>4. CASE w = 3
    <3>1. r = Put(c, "de", WithLow(c["de"], b))
      BY <2>4 DEF WithHalf, Put
    <3> QED BY <3>1
  <2>5. CASE w = 4
    <3>1. r = Put(c, "hl", WithHigh(c["hl"], b))
      BY <2>5 DEF WithHalf, Put
    <3> QED BY <3>1
  <2>6. CASE w = 5
    <3>1. r = Put(c, "hl", WithLow(c["hl"], b))
      BY <2>6 DEF WithHalf, Put
    <3> QED BY <3>1
  <2>7. CASE w = 6
    BY <2>7 DEF WithHalf
  <2>8. CASE w = 7
    <3>1. r = Put(c, "a", b)
      BY <2>8 DEF WithHalf, Put
    <3> QED BY <3>1
  <2> QED BY <2>1, <2>2, <2>3, <2>4, <2>5, <2>6, <2>7, <2>8
<1>2. ASSUME NEW n \in {"a", "bc", "de", "hl"}, NEW v
      PROVE  Same(c, Put(c, n, v), {"a", "bc", "de", "hl"})
  BY GetPut, InCore DEF Same
<1>3. Same(c, c, {"a", "bc", "de", "hl"})
  BY DEF Same
<1> QED BY <1>1, <1>2, <1>3

LEMMA LeavesIndexedBit ==
  ASSUME NEW f, Shaped(f), X(f.opcode) = 1, NEW k, NEW e,
         e = Put(Exit("index_cb_apply", f), "cycle", k)
  PROVE  /\ Same(f, e, {"f", "pending", "cycle", "cycle_limit"})
         /\ e.f = Alu!alu_bit(Mask(f), f.f, f.bus_data, High(f.wz)).flags
         /\ e.cycle_limit = f.cycle + 1
<1>1. PICK g : g = CbBit(f, f.bus_data, High(f.wz))
  OBVIOUS
<1>2. PICK flags : flags = Alu!alu_bit(Mask(f), f.f, f.bus_data, High(f.wz)).flags
  OBVIOUS
<1>3. Same(f, g, {"f", "pending"}) /\ g.f = flags
  BY <1>1, <1>2, FlagsWritten DEF CbBit
<1>4. Exit("index_cb_apply", f) = Stops(g)
  <2>1. Exit("index_cb_apply", f) = end_instruction_here(g)
    BY <1>1, ExitBytes DEF IndexCbHook
  <2> QED BY <2>1 DEF Stops, end_instruction_here, Put
<1>5. Same(g, Stops(g), {"cycle_limit"}) /\ Stops(g).cycle_limit = g.cycle + 1
  BY <1>3, StopsLeave DEF Same
<1> QED BY <1>2, <1>3, <1>4, <1>5, GetPut, InCore DEF Same

LEMMA LeavesIndexedResult ==
  ASSUME NEW f, Typed(f), X(f.opcode) # 1, NEW k, NEW e,
         e = Put(Exit("index_cb_apply", f), "cycle", k),
         NEW out, out = CbResult(f, f.bus_data)
  PROVE  /\ Shaped(e) /\ e.bus_data = out.value /\ e.wz = f.wz /\ e.cycle_limit = f.cycle_limit
         /\ Seen(e) = IF Z(f.opcode) = 6 THEN Manual!Flagged(Seen(f), out.flags)
                      ELSE Manual!WithReg(Manual!Flagged(Seen(f), out.flags), Z(f.opcode), "hl",
                                          out.value)
<1>1. Shaped(f) /\ f.bus_data \in Byte /\ f.opcode \in Byte
  BY CoreTypes
<1>2. Z(f.opcode) \in 0 .. 7
  BY <1>1, FieldsType
<1>3. PICK g : g = CbFlags(f, f.bus_data)
  OBVIOUS
<1>4. Typed(g) /\ Seen(g) = Manual!Flagged(Seen(f), out.flags) /\ out.value \in Byte
  BY <1>1, <1>3, CbFlagsMean
<1>5. Same(f, g, {"f", "pending"})
  BY <1>1, <1>3, CbKeeps
<1>6. PICK h : h = Put(g, "bus_data", out.value)
  OBVIOUS
<1>7. Same(g, h, {"bus_data"}) /\ h.bus_data = out.value
  BY <1>5, <1>6, GetPut, InCore DEF Same
<1>8. Typed(h)
  <2>1. Onto(g, g) /\ "bus_data" \in ByteFields \ {"opcode"}
    BY <1>4, OntoItself, FieldNames
  <2> QED BY <1>4, <1>6, <2>1, OntoPut DEF Onto
<1>9. Seen(h) = Seen(g)
  BY <1>5, <1>6, SeenPut, SeenFields, InCore DEF Same
<1>10. PICK r : r = WithHalf(h, Z(f.opcode), "hl", out.value)
  OBVIOUS
<1>11. Exit("index_cb_apply", f) = r
  <2>1. h = [CbFlags(f, f.bus_data) EXCEPT !.bus_data = CbResult(f, f.bus_data).value]
    BY <1>3, <1>6 DEF Put
  <2> QED BY <1>10, <2>1, ExitBytes DEF IndexCbHook
<1>12. Same(h, r, {"a", "bc", "de", "hl"})
  BY <1>2, <1>7, <1>10, HalfKeeps DEF Same
<1>13. Seen(e) = Seen(r) /\ Shaped(e) /\ \A y \in CpuFields : y # "cycle" => e[y] = r[y]
  BY <1>11, <1>12, GetPut, SeenPut, SeenFields, InCore DEF Same
<1>14. e.bus_data = out.value /\ e.wz = f.wz /\ e.cycle_limit = f.cycle_limit
  BY <1>5, <1>7, <1>12, <1>13, InCore DEF Same
<1>15. CASE Z(f.opcode) = 6
  <2>1. r = h
    BY <1>10, <1>15 DEF WithHalf
  <2> QED BY <1>4, <1>9, <1>13, <1>14, <1>15, <2>1
<1>16. CASE Z(f.opcode) # 6
  <2>1. Seen(r) = Manual!WithReg(Seen(h), Z(f.opcode), "hl", out.value)
    BY <1>2, <1>4, <1>8, <1>10, <1>16, WriteHalf
  <2> QED BY <1>4, <1>9, <1>13, <1>14, <1>16, <2>1
<1> QED BY <1>15, <1>16

(* The CB table under DD or FD: d and the operation follow. *)
IndexedCbTable(e, m) ==
  Manual!Bits([Seen(e) EXCEPT !.pc = Plus(@, 2)], m, Manual!Peek(m, Plus(e.pc, 1)),
              PlaceOf(e, m), TRUE, e.wz)

(* A truth value that is named, so that the provers keep its name. *)
Holds(x) == x = TRUE

(* What is put in front of the table: the operation o of core c on byte.    *)
IndexedTerms(c, o, s, m, place, byte, indexed) ==
  /\ o \in Byte /\ c.opcode = o /\ s.f = c.f /\ byte \in Byte /\ byte = Manual!Peek(m, place)
  /\ indexed \in BOOLEAN /\ Holds(indexed)

LEMMA BitIndexed ==
  ASSUME NEW c, NEW o, NEW s, NEW m, NEW place, NEW wz, NEW byte, NEW indexed,
         IndexedTerms(c, o, s, m, place, byte, indexed), X(o) = 1
  PROVE  Manual!Bits(s, m, o, place, indexed, wz)
           = Manual!Both(Manual!Flagged(s, Alu!alu_bit(Mask(c), c.f, byte, High(place)).flags), m)
<1>1. /\ o \in Byte /\ c.opcode = o /\ s.f = c.f /\ byte \in Byte /\ byte = Manual!Peek(m, place)
      /\ indexed \in BOOLEAN /\ Holds(indexed)
  BY DEF IndexedTerms
<1>2. PICK shown : shown = IF indexed THEN High(place) ELSE IF Z(o) = 6 THEN High(wz) ELSE byte
  OBVIOUS
<1>3. byte = IF indexed \/ Z(o) = 6 THEN Manual!Peek(m, place) ELSE Manual!Reg(s, Z(o), "hl")
  BY <1>1 DEF Holds
<1>4. Manual!Bits(s, m, o, place, indexed, wz)
        = Manual!Both(Manual!Flagged(s, Alu!alu_bit(Mask(c), c.f, byte, shown).flags), m)
  BY <1>1, <1>2, <1>3, BitsAre
<1>6. shown = High(place)
  BY <1>1, <1>2 DEF Holds
<1> QED BY <1>4, <1>6

LEMMA ResultIndexed ==
  ASSUME NEW c, NEW o, NEW s, NEW m, NEW place, NEW wz, NEW byte, NEW indexed,
         IndexedTerms(c, o, s, m, place, byte, indexed), X(o) # 1
  PROVE  \A out : out = CbResult(c, byte) =>
           Manual!Bits(s, m, o, place, indexed, wz)
             = Manual!Both(IF Z(o) = 6 THEN Manual!Flagged(s, out.flags)
                         ELSE Manual!WithReg(Manual!Flagged(s, out.flags), Z(o), "hl", out.value),
                         Manual!Poke(m, place, out.value))
<1> TAKE out
<1> HAVE out = CbResult(c, byte)
<1>1. /\ o \in Byte /\ c.opcode = o /\ s.f = c.f /\ byte \in Byte /\ byte = Manual!Peek(m, place)
      /\ indexed \in BOOLEAN /\ Holds(indexed)
  BY DEF IndexedTerms
<1>2. PICK shown : shown = IF indexed THEN High(place) ELSE IF Z(o) = 6 THEN High(wz) ELSE byte
  OBVIOUS
<1>3. byte = IF indexed \/ Z(o) = 6 THEN Manual!Peek(m, place) ELSE Manual!Reg(s, Z(o), "hl")
  BY <1>1 DEF Holds
<1>5. Manual!Bits(s, m, o, place, indexed, wz)
        = Manual!Both(IF Z(o) = 6 THEN Manual!Flagged(s, out.flags)
                      ELSE Manual!WithReg(Manual!Flagged(s, out.flags), Z(o), "hl", out.value),
                      IF indexed \/ Z(o) = 6 THEN Manual!Poke(m, place, out.value) ELSE m)
  BY <1>1, <1>2, <1>3, BitsAre
<1> QED BY <1>1, <1>5 DEF Holds
-----------------------------------------------------------------------------
(***************************************************************************)
(* The instructions behind DD CB and FD CB.                                *)
(***************************************************************************)

(* The first four cycles of DD CB d op: the place and the operation.        *)
LEMMA IndexedCbReads ==
  ASSUME NEW e, NEW m, Typed(e), ByteMemory(m), e.cycle = 0, e.instr = "index_cb",
         NEW d, NEW l, After4(e, m, d, l)
  PROVE  /\ Same(e, d, {"bus_addr", "bus_data", "pc", "wz", "opcode", "cycle"})
         /\ d.pc = Plus(e.pc, 2) /\ d.opcode = Manual!Peek(m, Plus(e.pc, 1))
         /\ d.wz = PlaceOf(e, m) /\ d.bus_data = Manual!Peek(m, PlaceOf(e, m)) /\ l = m
<1>1. Shaped(e) /\ index_pair(e) \in {"hl", "ix", "iy"}
  BY CoreTypes DEF index_pair
<1>2. PICK place \in Word :
        place = PlaceOf(e, m) /\ place = Plus(e[index_pair(e)], Signed(Manual!Peek(m, e.pc)))
  BY PlaceIs
<1>3. PICK d1, m1, d2, m2, d3, m3 :
        /\ OneCycle(e, m, d1, m1) /\ OneCycle(d1, m1, d2, m2) /\ OneCycle(d2, m2, d3, m3)
        /\ OneCycle(d3, m3, d, l)
  BY DEF After1, After2, After3, After4
<1>4. /\ d1.instr = "index_cb" /\ d1.cycle = 1 /\ Shaped(d1)
      /\ d2.instr = "index_cb" /\ d2.cycle = 2 /\ Shaped(d2)
      /\ d3.instr = "index_cb" /\ d3.cycle = 3 /\ Shaped(d3)
  BY <1>3, Fields DEF OneCycle
<1>5. /\ CyclesOf["index_cb"] = IndexedCycles("index_cb")
      /\ HooksOf["index_cb"] = IndexedHooks("index_cb")
  BY GroupCycles, GroupHooks DEF Instrs, IndexedInstrs
<1>6. /\ Enters(e, "mem_read", "at_pc", "to_displacement")
      /\ Enters(d1, "mem_read", "at_pc", "latch_operation")
      /\ Enters(d2, "idle2", "none", "none")
      /\ Enters(d3, "mem_read", "at_wz", "none")
  BY <1>4, <1>5 DEF Enters, IndexedCycles, IndexedHooks, AtPcTo, On, Idle, Read, Write, Idle1, Idle2
<1>7. PICK f1 : /\ Same(e, f1, {"bus_addr", "bus_data", "pc"}) /\ f1.pc = Plus(e.pc, 1)
                /\ f1.bus_data = Manual!Peek(m, e.pc) /\ m1 = m
                /\ d1 = Put(Exit("to_displacement", f1), "cycle", e.cycle + 1)
  BY <1>3, <1>6, AtPcReads
<1>8. f1[index_pair(f1)] = e[index_pair(e)]
  BY <1>1, <1>7, InCore, OperandsAgree DEF Same, OperandsOf
<1>9. Plus(f1[index_pair(f1)], Signed(f1.bus_data)) = place
  BY <1>2, <1>7, <1>8
<1>10. /\ Same(e, d1, {"bus_addr", "bus_data", "pc", "wz", "cycle"})
       /\ d1.pc = Plus(e.pc, 1) /\ d1.wz = place /\ m1 = m
  BY <1>7, <1>9, Leaves, InCore DEF Same
<1>11. PICK f2 : /\ Same(d1, f2, {"bus_addr", "bus_data", "pc"}) /\ f2.pc = Plus(d1.pc, 1)
                 /\ f2.bus_data = Manual!Peek(m1, d1.pc) /\ m2 = m1
                 /\ d2 = Put(Exit("latch_operation", f2), "cycle", d1.cycle + 1)
  BY <1>3, <1>6, AtPcReads
<1>12. Same(f2, d2, {"opcode", "cycle"}) /\ d2.opcode = f2.bus_data
  BY <1>11, Leaves DEF Same
<1>13. /\ Same(e, d2, {"bus_addr", "bus_data", "pc", "wz", "opcode", "cycle"})
       /\ d2.pc = Plus(d1.pc, 1) /\ d2.wz = place /\ d2.opcode = Manual!Peek(m1, d1.pc) /\ m2 = m
  BY <1>10, <1>11, <1>12, InCore DEF Same
<1>14. d3 = Put(Exit("none", d2), "cycle", d2.cycle + 1) /\ m3 = m2
  BY <1>3, <1>6, Idles DEF IdleCycles
<1>15. Same(d2, d3, {"cycle"})
  BY <1>4, <1>14, Leaves
<1>16. /\ Same(e, d3, {"bus_addr", "bus_data", "pc", "wz", "opcode", "cycle"})
       /\ d3.pc = d2.pc /\ d3.wz = place /\ d3.opcode = d2.opcode /\ m3 = m
  BY <1>13, <1>14, <1>15, InCore DEF Same
<1>17. PICK f4 : /\ Same(d3, f4, {"bus_addr", "bus_data"})
                 /\ f4.bus_data = Manual!Peek(m3, d3.wz) /\ l = m3
                 /\ d = Put(Exit("none", f4), "cycle", d3.cycle + 1)
  BY <1>3, <1>6, AtWzReads
<1>18. Same(f4, d, {"cycle"})
  BY <1>17, Leaves DEF Same
<1>19. /\ Same(e, d, {"bus_addr", "bus_data", "pc", "wz", "opcode", "cycle"})
       /\ d.pc = d2.pc /\ d.wz = place /\ d.opcode = d2.opcode
       /\ d.bus_data = Manual!Peek(m3, d3.wz) /\ l = m
  BY <1>16, <1>17, <1>18, InCore DEF Same
<1>20. d.pc = Plus(e.pc, 2) /\ d.opcode = Manual!Peek(m, Plus(e.pc, 1))
  BY <1>10, <1>13, <1>19, BytesAt
<1>21. d.bus_data = Manual!Peek(m, place)
  BY <1>16, <1>19
<1> QED BY <1>2, <1>19, <1>20, <1>21

(* BIT b,(IX+d). *)
LEMMA Does_index_cb_bit ==
  ASSUME NEW e, NEW m, NEW at, BeginsIndexed(e, m, at), e.instr = "index_cb", e.cycle_limit = 6,
         NEW d, NEW l, After5(e, m, d, l), ~GoesOn(d),
         NEW p, Typed(p), Same(d, p, {"nmi_latched"}), NEW int
  PROVE  Meets(Execute("index_cb", p, int), l, IndexedCbTable(e, m))
<1>1. Typed(e) /\ ByteMemory(m) /\ e.cycle = 0 /\ Shaped(e)
  BY CoreTypes DEF BeginsIndexed
<1>2. PICK c, k : After4(e, m, c, k) /\ OneCycle(c, k, d, l)
  BY DEF After5
<1>3. /\ Same(e, c, {"bus_addr", "bus_data", "pc", "wz", "opcode", "cycle"})
      /\ c.pc = Plus(e.pc, 2) /\ c.opcode = Manual!Peek(m, Plus(e.pc, 1))
      /\ c.wz = PlaceOf(e, m) /\ c.bus_data = Manual!Peek(m, PlaceOf(e, m)) /\ k = m
  BY <1>1, <1>2, IndexedCbReads
<1>4. c.instr = "index_cb" /\ c.cycle = 4 /\ Typed(c) /\ c.cycle_limit = 6 /\ d.cycle = 5
  <2>1. PICK d1, m1, d2, m2, d3, m3 :
          /\ OneCycle(e, m, d1, m1) /\ OneCycle(d1, m1, d2, m2) /\ OneCycle(d2, m2, d3, m3)
          /\ OneCycle(d3, m3, c, k)
    BY <1>2 DEF After1, After2, After3, After4
  <2>2. c.instr = "index_cb" /\ c.cycle = 4 /\ Typed(c)
    BY <1>1, <2>1 DEF OneCycle
  <2> QED BY <1>2, <1>3, <2>2, InCore DEF Same, OneCycle
<1>5. /\ CyclesOf["index_cb"] = IndexedCycles("index_cb")
      /\ HooksOf["index_cb"] = IndexedHooks("index_cb")
  BY GroupCycles, GroupHooks DEF Instrs, IndexedInstrs
<1>6. Enters(c, "idle1", "none", "index_cb_apply")
  BY <1>4, <1>5 DEF Enters, IndexedCycles, IndexedHooks, AtPcTo, On, Idle, Read, Write, Idle1, Idle2
<1>7. d = Put(Exit("index_cb_apply", c), "cycle", c.cycle + 1) /\ l = k
  BY <1>2, <1>6, Idles DEF IdleCycles
<1>8. X(c.opcode) = 1
  <2> SUFFICES ASSUME X(c.opcode) # 1 PROVE FALSE
    OBVIOUS
  <2>1. PICK out : out = CbResult(c, c.bus_data)
    OBVIOUS
  <2>2. d.cycle_limit = c.cycle_limit
    BY <1>4, <1>7, <2>1, LeavesIndexedResult
  <2> QED BY <1>4, <2>2 DEF GoesOn
<1>9. PICK flags : flags = Alu!alu_bit(Mask(c), c.f, c.bus_data, High(c.wz)).flags
  OBVIOUS
<1>10. Same(c, d, {"f", "pending", "cycle", "cycle_limit"}) /\ d.f = flags
  BY <1>4, <1>7, <1>8, <1>9, Fields, LeavesIndexedBit
<1>11. PICK s : s = [Seen(e) EXCEPT !.pc = Plus(@, 2)]
  OBVIOUS
<1>12. s = [Seen(e) EXCEPT !.pc = Plus(e.pc, 2)]
  BY <1>11, SeenFields DEF Seen
<1>13. PICK place : place = PlaceOf(e, m)
  OBVIOUS
<1>14. PICK byte : byte = Manual!Peek(m, place)
  OBVIOUS
<1>15. /\ c.bus_data = byte /\ c.wz = place /\ c.f = e.f /\ c.opcode = Manual!Peek(m, Plus(e.pc, 1))
       /\ c.opcode \in Byte /\ byte \in Byte
  <2>1. c.bus_data \in Byte /\ c.opcode \in Byte
    BY <1>4, CoreTypes
  <2> QED BY <1>3, <1>13, <1>14, <2>1, InCore DEF Same
<1>16. PICK o \in Byte : o = Manual!Peek(m, Plus(e.pc, 1))
  BY <1>15
<1>17. s.f = c.f /\ c.opcode = o
  BY <1>12, <1>15, <1>16, SeenFields DEF Seen
<1>30. PICK indexed \in BOOLEAN : indexed = TRUE
  OBVIOUS
<1>28. IndexedTerms(c, o, s, m, place, byte, indexed)
  BY <1>8, <1>14, <1>15, <1>17, <1>30 DEF Holds, IndexedTerms
<1>31. X(o) = 1
  BY <1>8, <1>17
<1>18. Manual!Bits(s, m, o, place, indexed, e.wz)
         = Manual!Both(Manual!Flagged(s, Alu!alu_bit(Mask(c), c.f, byte, High(place)).flags), m)
  BY <1>31, <1>28, BitIndexed
<1>19. IndexedCbTable(e, m) = Manual!Both(Manual!Flagged(s, flags), m)
  BY <1>9, <1>11, <1>13, <1>15, <1>16, <1>18, <1>30 DEF IndexedCbTable
<1>20. p.pc = Plus(e.pc, 2) /\ p.f = flags
  BY <1>3, <1>10, InCore DEF Same
<1>21. \A x \in VisibleFields : x \notin {"pc", "f"} => p[x] = e[x]
  BY <1>3, <1>10, SeenFields DEF Same
<1>22. Seen(p) = Manual!Flagged(s, flags)
  BY <1>12, <1>20, <1>21, SeenFields DEF Seen, Manual!Flagged
<1>23. Execute("index_cb", p, int) = p
  BY ExecutesNothing DEF Hooked
<1> QED BY <1>3, <1>7, <1>19, <1>22, <1>23, MeetsBoth

(* The CB table on (IX+d), BIT apart. *)
LEMMA Does_index_cb ==
  ASSUME NEW e, NEW m, NEW at, BeginsIndexed(e, m, at), e.instr = "index_cb", e.cycle_limit = 6,
         NEW d, NEW l, After6(e, m, d, l),
         NEW p, Typed(p), Same(d, p, {"nmi_latched"}), NEW int
  PROVE  Meets(Execute("index_cb", p, int), l, IndexedCbTable(e, m))
<1>1. Typed(e) /\ ByteMemory(m) /\ e.cycle = 0 /\ Shaped(e)
  BY CoreTypes DEF BeginsIndexed
<1>2. PICK c, k, b, n : /\ After4(e, m, c, k) /\ OneCycle(c, k, b, n)
                       /\ GoesOn(b) /\ OneCycle(b, n, d, l)
  BY DEF After5, After6
<1>3. /\ Same(e, c, {"bus_addr", "bus_data", "pc", "wz", "opcode", "cycle"})
      /\ c.pc = Plus(e.pc, 2) /\ c.opcode = Manual!Peek(m, Plus(e.pc, 1))
      /\ c.wz = PlaceOf(e, m) /\ c.bus_data = Manual!Peek(m, PlaceOf(e, m)) /\ k = m
  BY <1>1, <1>2, IndexedCbReads
<1>4. /\ c.instr = "index_cb" /\ c.cycle = 4 /\ Typed(c)
      /\ b.instr = "index_cb" /\ b.cycle = 5 /\ Shaped(b)
  <2>1. PICK d1, m1, d2, m2, d3, m3 :
          /\ OneCycle(e, m, d1, m1) /\ OneCycle(d1, m1, d2, m2) /\ OneCycle(d2, m2, d3, m3)
          /\ OneCycle(d3, m3, c, k)
    BY <1>2 DEF After1, After2, After3, After4
  <2>2. c.instr = "index_cb" /\ c.cycle = 4 /\ Typed(c)
    BY <1>1, <2>1 DEF OneCycle
  <2> QED BY <1>2, <2>2, Fields DEF OneCycle
<1>5. /\ CyclesOf["index_cb"] = IndexedCycles("index_cb")
      /\ HooksOf["index_cb"] = IndexedHooks("index_cb")
  BY GroupCycles, GroupHooks DEF Instrs, IndexedInstrs
<1>6. Enters(c, "idle1", "none", "index_cb_apply") /\ Enters(b, "mem_write", "at_wz", "none")
  BY <1>4, <1>5 DEF Enters, IndexedCycles, IndexedHooks, AtPcTo, On, Idle, Read, Write, Idle1, Idle2
<1>7. b = Put(Exit("index_cb_apply", c), "cycle", c.cycle + 1) /\ n = k
  BY <1>2, <1>6, Idles DEF IdleCycles
<1>8. X(c.opcode) # 1
  <2> SUFFICES ASSUME X(c.opcode) = 1 PROVE FALSE
    OBVIOUS
  <2>1. b.cycle_limit = c.cycle + 1
    BY <1>4, <1>7, Fields, LeavesIndexedBit
  <2> QED BY <1>2, <1>4, <2>1 DEF GoesOn
<1>9. PICK out : out = CbResult(c, c.bus_data)
  OBVIOUS
<1>10. /\ b.bus_data = out.value /\ b.wz = c.wz
       /\ Seen(b) = IF Z(c.opcode) = 6 THEN Manual!Flagged(Seen(c), out.flags)
                    ELSE Manual!WithReg(Manual!Flagged(Seen(c), out.flags), Z(c.opcode), "hl",
                                        out.value)
  BY <1>4, <1>7, <1>8, <1>9, LeavesIndexedResult
<1>11. Enter("at_wz", b) = Put(b, "bus_addr", b.wz)
  BY <1>4, EnterReads
<1>12. PICK f : /\ Same(b, f, {"bus_addr"})
                /\ d = Put(Exit("none", f), "cycle", b.cycle + 1)
                /\ l = Manual!Poke(n, b.wz, b.bus_data)
  BY <1>2, <1>6, <1>11, KeepsWrites
<1>13. Same(f, d, {"cycle"})
  BY <1>12, Leaves DEF Same
<1>14. Seen(p) = Seen(b)
  BY <1>12, <1>13, SeenFields DEF Same, Seen
<1>15. PICK s : s = [Seen(e) EXCEPT !.pc = Plus(@, 2)]
  OBVIOUS
<1>16. s = [Seen(e) EXCEPT !.pc = Plus(e.pc, 2)]
  BY <1>15, SeenFields DEF Seen
<1>17. \A x \in VisibleFields : x # "pc" => c[x] = e[x]
  BY <1>3, SeenFields DEF Same
<1>18. s = Seen(c)
  BY <1>3, <1>16, <1>17, SeenFields DEF Seen
<1>19. PICK place : place = PlaceOf(e, m)
  OBVIOUS
<1>20. PICK byte : byte = Manual!Peek(m, place)
  OBVIOUS
<1>21. /\ c.bus_data = byte /\ c.wz = place /\ c.opcode = Manual!Peek(m, Plus(e.pc, 1))
       /\ c.opcode \in Byte /\ byte \in Byte
  <2>1. c.bus_data \in Byte /\ c.opcode \in Byte
    BY <1>4, CoreTypes
  <2> QED BY <1>3, <1>19, <1>20, <2>1
<1>22. PICK o \in Byte : o = Manual!Peek(m, Plus(e.pc, 1))
  BY <1>21
<1>23. s.f = c.f /\ c.opcode = o /\ out = CbResult(c, byte)
  BY <1>9, <1>18, <1>21, <1>22, SeenFields DEF Seen
<1>30. PICK indexed \in BOOLEAN : indexed = TRUE
  OBVIOUS
<1>29. IndexedTerms(c, o, s, m, place, byte, indexed)
  BY <1>8, <1>20, <1>21, <1>23, <1>30 DEF Holds, IndexedTerms
<1>31. X(o) # 1
  BY <1>8, <1>23
<1>32. \A v : v = CbResult(c, byte) =>
         Manual!Bits(s, m, o, place, indexed, e.wz)
           = Manual!Both(IF Z(o) = 6 THEN Manual!Flagged(s, v.flags)
                         ELSE Manual!WithReg(Manual!Flagged(s, v.flags), Z(o), "hl", v.value),
                         Manual!Poke(m, place, v.value))
  BY <1>31, <1>29, ResultIndexed
<1>24. Manual!Bits(s, m, o, place, indexed, e.wz)
         = Manual!Both(IF Z(o) = 6 THEN Manual!Flagged(s, out.flags)
                       ELSE Manual!WithReg(Manual!Flagged(s, out.flags), Z(o), "hl", out.value),
                       Manual!Poke(m, place, out.value))
  BY <1>23, <1>32
<1>25. IndexedCbTable(e, m)
         = Manual!Both(IF Z(o) = 6 THEN Manual!Flagged(s, out.flags)
                       ELSE Manual!WithReg(Manual!Flagged(s, out.flags), Z(o), "hl", out.value),
                       Manual!Poke(m, place, out.value))
  BY <1>15, <1>19, <1>22, <1>24, <1>30 DEF IndexedCbTable
<1>26. Seen(p) = IF Z(o) = 6 THEN Manual!Flagged(s, out.flags)
                 ELSE Manual!WithReg(Manual!Flagged(s, out.flags), Z(o), "hl", out.value)
  BY <1>10, <1>14, <1>18, <1>23
<1>27. l = Manual!Poke(m, place, out.value)
  BY <1>3, <1>7, <1>10, <1>12, <1>19
<1>28. Execute("index_cb", p, int) = p
  BY ExecutesNothing DEF Hooked
<1> QED BY <1>25, <1>26, <1>27, <1>28, MeetsBoth
-----------------------------------------------------------------------------
(***************************************************************************)
(* The sequences that accept an interrupt.                                 *)
(***************************************************************************)

(* Interrupts: an acknowledge, the return address on the stack, a vector.   *)
Counted(r) == 128 * (r \div 128) + ((r + 1) % 128)

(* Memory with the return address on the stack. *)
WithReturn(m, sp, pc) ==
  Manual!Poke(Manual!Poke(m, Plus(sp, -1), High(pc)), Plus(sp, -2), Low(pc))

(* The two cycles that push PC. *)
LEMMA PushesPc ==
  ASSUME NEW c, NEW m, NEW d, NEW k, NEW e, NEW l, OneCycle(c, m, d, k), OneCycle(d, k, e, l),
         NEW x, Enters(c, "mem_write", "push_pc_high", "none"),
         Enters(d, "mem_write", "push_pc_low", x)
  PROVE  \E f : /\ Same(c, f, {"bus_addr", "bus_data", "sp", "cycle"})
                /\ f.sp = Plus(c.sp, -2)
                /\ e = Put(Exit(x, f), "cycle", d.cycle + 1)
                /\ l = WithReturn(m, c.sp, c.pc)
<1>1. Shaped(c) /\ Shaped(d) /\ Plus(Plus(c.sp, -1), -1) = Plus(c.sp, -2)
  BY CoreTypes, Places DEF OneCycle
<1>2. Enter("push_pc_high", c) = Pushed(c, High(c.pc)) /\
        Enter("push_pc_low", d) = Pushed(d, Low(d.pc))
  BY <1>1, EnterPushes
<1>3. PICK g : /\ Same(c, g, {"bus_addr", "bus_data", "sp"}) /\ g.sp = Plus(c.sp, -1)
               /\ d = Put(Exit("none", g), "cycle", c.cycle + 1)
               /\ k = Manual!Poke(m, Plus(c.sp, -1), High(c.pc))
  BY <1>2, PushWrites
<1>4. Same(g, d, {"cycle"})
  BY <1>3, Leaves DEF Same
<1>5. Same(c, d, {"bus_addr", "bus_data", "sp", "cycle"}) /\ d.sp = Plus(c.sp, -1) /\ d.pc = c.pc
  BY <1>3, <1>4, InCore DEF Same
<1>6. PICK f : /\ Same(d, f, {"bus_addr", "bus_data", "sp"}) /\ f.sp = Plus(d.sp, -1)
               /\ e = Put(Exit(x, f), "cycle", d.cycle + 1)
               /\ l = Manual!Poke(k, Plus(d.sp, -1), Low(d.pc))
  BY <1>2, PushWrites
<1>7. Same(c, f, {"bus_addr", "bus_data", "sp", "cycle"}) /\ f.sp = Plus(c.sp, -2)
  BY <1>1, <1>5, <1>6, InCore DEF Same
<1>8. l = WithReturn(m, c.sp, c.pc)
  BY <1>1, <1>3, <1>5, <1>6 DEF WithReturn
<1> QED BY <1>6, <1>7, <1>8

(* The manual's interrupt, as assignments. *)
LEMMA InterruptMeans ==
  ASSUME NEW e, Typed(e), NEW m, NEW p, NEW l, NEW target,
         Same(e, p, {"bus_addr", "bus_data", "sp", "pc", "wz", "tmp", "r", "cycle", "nmi_latched"}),
         p.sp = Plus(e.sp, -2), p.pc = target, p.r = Counted(e.r), l = WithReturn(m, e.sp, e.pc)
  PROVE  Meets(p, l, Manual!Interrupt(Seen(e), m, target))
<1>1. PICK s : s = Manual!Read(Seen(e), 0, 1)
  OBVIOUS
<1>2. Plus(e.pc, 0) = e.pc
  BY CoreTypes, Places
<1>3. s = [Seen(e) EXCEPT !.pc = e.pc, !.r = Counted(e.r)]
  BY <1>1, <1>2, SameWords, SeenFields DEF Manual!Read, Counted, Seen
<1>4. s = [x \in VisibleFields |-> s[x]] /\ s.pc = e.pc /\ s.sp = e.sp /\ s.r = Counted(e.r)
  BY <1>3, SeenFields DEF Seen
<1>5. Manual!Interrupt(Seen(e), m, target) = Manual!Calls(s, m, target)
  BY <1>1 DEF Manual!Interrupt
<1>6. Manual!Calls(s, m, target)
        = Manual!Both([s EXCEPT !.sp = Plus(@, -2), !.pc = target], WithReturn(m, s.sp, s.pc))
  BY <1>4, CallsMean DEF WithReturn
<1>7. [s EXCEPT !.sp = Plus(@, -2), !.pc = target]
        = [Seen(e) EXCEPT !.sp = Plus(e.sp, -2), !.pc = target, !.r = Counted(e.r)]
  BY <1>3, <1>4, SeenFields DEF Seen
<1>8. Seen(p) = [Seen(e) EXCEPT !.sp = Plus(e.sp, -2), !.pc = target, !.r = Counted(e.r)]
  BY SeenFields, InCore DEF Same, Seen
<1> QED BY <1>4, <1>5, <1>6, <1>7, <1>8, MeetsBoth

(* The NMI's sequence pushes PC and goes to 0066. *)
LEMMA Does_nmi ==
  ASSUME NEW e, Typed(e), NEW m, e.cycle = 0, e.instr = "nmi",
         NEW d, NEW l, After3(e, m, d, l),
         NEW p, Typed(p), Same(d, p, {"nmi_latched"}), NEW int
  PROVE  Meets(Execute("nmi", p, int), l, Manual!Interrupt(Seen(e), m, 102))
<1>1. PICK d1, m1, d2, m2 :
        OneCycle(e, m, d1, m1) /\ OneCycle(d1, m1, d2, m2) /\ OneCycle(d2, m2, d, l)
  BY DEF After1, After2, After3
<1>2. Shaped(e) /\ d1.instr = "nmi" /\ d1.cycle = 1 /\ d2.instr = "nmi" /\ d2.cycle = 2
  BY <1>1, Fields DEF OneCycle
<1>3. CyclesOf["nmi"] = InterruptCycles("nmi") /\ HooksOf["nmi"] = InterruptHooks("nmi")
  BY GroupCycles, GroupHooks DEF Instrs, InterruptSequences
<1>4. /\ Enters(e, "nmi_ack", "none", "none") /\ Enters(d1, "mem_write", "push_pc_high", "none")
      /\ Enters(d2, "mem_write", "push_pc_low", "nmi_vector")
  BY <1>2, <1>3 DEF Enters, InterruptCycles, InterruptHooks, On, Idle, Write
<1>5. PICK r : r = Counted(e.r)
  OBVIOUS
<1>6. d1 = Put(Exit("none", Put(e, "r", r)), "cycle", e.cycle + 1) /\ m1 = m
  BY <1>1, <1>4, <1>5, AckCycle DEF Counted
<1>7. Same(e, d1, {"r", "cycle"}) /\ d1.r = r
  <2>1. Exit("none", Put(e, "r", r)) = Put(e, "r", r)
    BY ExitCollects
  <2> QED BY <1>2, <1>6, <2>1, GetPut, InCore DEF Same
<1>8. PICK f : /\ Same(d1, f, {"bus_addr", "bus_data", "sp", "cycle"})
               /\ f.sp = Plus(d1.sp, -2)
               /\ d = Put(Exit("nmi_vector", f), "cycle", d2.cycle + 1)
               /\ l = WithReturn(m1, d1.sp, d1.pc)
  BY <1>1, <1>4, PushesPc
<1>9. Same(f, d, {"pc", "wz", "cycle"}) /\ d.pc = 102
  BY <1>8, Leaves DEF Same
<1>10. /\ Same(e, p, {"bus_addr", "bus_data", "sp", "pc", "wz", "tmp", "r", "cycle", "nmi_latched"})
       /\ p.sp = Plus(e.sp, -2) /\ p.pc = 102 /\ p.r = Counted(e.r) /\ l = WithReturn(m, e.sp, e.pc)
  BY <1>5, <1>6, <1>7, <1>8, <1>9, InCore DEF Same
<1>11. Execute("nmi", p, int) = p
  BY ExecutesNothing DEF Hooked
<1> QED BY <1>10, <1>11, InterruptMeans

(* The acknowledge that reads the low byte of the table's address. *)
LEMMA AcknowledgedLow ==
  ASSUME NEW e, Typed(e), NEW m, e.cycle = 0, NEW d, NEW l, OneCycle(e, m, d, l),
         Enters(e, "int_ack", "none", "to_tmp_low")
  PROVE  \E vector \in Vectors :
           /\ vector \in Byte /\ Same(e, d, {"r", "bus_data", "tmp", "cycle"}) /\ l = m
           /\ d.r = Counted(e.r) /\ d.tmp = WithLow(e.tmp, vector)
<1>1. PICK r : r = Counted(e.r)
  OBVIOUS
<1>2. PICK vector \in Vectors :
        /\ d = Put(Exit("to_tmp_low", Put(Put(e, "r", r), "bus_data", vector)), "cycle",
             e.cycle + 1)
        /\ vector \in Byte /\ l = m
  BY <1>1, AckCycle DEF Counted
<1>3. PICK f : f = Put(Put(e, "r", r), "bus_data", vector)
  OBVIOUS
<1>4. Same(e, f, {"r", "bus_data"}) /\ f.r = r /\ f.bus_data = vector
  BY <1>3, Fields, GetPut, InCore DEF Same
<1>5. Same(f, d, {"tmp", "cycle"}) /\ d.tmp = WithLow(f.tmp, f.bus_data)
  BY <1>2, <1>3, <1>4, Leaves DEF Same
<1> QED BY <1>1, <1>2, <1>4, <1>5, InCore DEF Same

LEMMA RstOf ==
  ASSUME NEW b \in Byte, NEW w \in Word
  PROVE  8 * Y(Low(WithLow(w, b))) = b - (b % 8) - 64 * (b \div 64)
<1>1. Low(WithLow(w, b)) = b
  BY DEF Low, WithLow, Word, Alu!Word, Byte
<1>2. (b \div 8) % 8 = (b \div 8) - 8 * (b \div 64) /\ b = 8 * (b \div 8) + (b % 8)
  BY DEF Byte
<1> QED BY <1>1, <1>2 DEF Y, Byte

(* In modes 0 and 1 the sequence pushes PC and goes to the RST's target. *)
LEMMA Does_interrupt ==
  ASSUME NEW e, Typed(e), NEW m, e.cycle = 0, e.instr = "interrupt",
         NEW d, NEW l, After3(e, m, d, l),
         NEW p, Typed(p), Same(d, p, {"nmi_latched"}), NEW int
  PROVE  \E vector \in Vectors :
           Meets(Execute("interrupt", p, int), l,
                 Manual!Interrupt(Seen(e), m,
                   IF e.im = 0 THEN vector - (vector % 8) - 64 * (vector \div 64) ELSE 56))
<1>1. PICK d1, m1, d2, m2 :
        OneCycle(e, m, d1, m1) /\ OneCycle(d1, m1, d2, m2) /\ OneCycle(d2, m2, d, l)
  BY DEF After1, After2, After3
<1>2. /\ Shaped(e) /\ e.tmp \in Word /\ d1.instr = "interrupt" /\ d1.cycle = 1
      /\ d2.instr = "interrupt" /\ d2.cycle = 2
  BY <1>1, CoreTypes DEF OneCycle
<1>3. CyclesOf["interrupt"] = InterruptCycles("interrupt") /\
        HooksOf["interrupt"] = InterruptHooks("interrupt")
  BY GroupCycles, GroupHooks DEF Instrs, InterruptSequences
<1>4. /\ Enters(e, "int_ack", "none", "to_tmp_low") /\
           Enters(d1, "mem_write", "push_pc_high", "none")
      /\ Enters(d2, "mem_write", "push_pc_low", "interrupt_vector")
  BY <1>2, <1>3 DEF Enters, InterruptCycles, InterruptHooks, On, Idle, Write
<1>5. PICK vector \in Vectors :
        /\ vector \in Byte /\ Same(e, d1, {"r", "bus_data", "tmp", "cycle"}) /\ m1 = m
        /\ d1.r = Counted(e.r) /\ d1.tmp = WithLow(e.tmp, vector)
  BY <1>1, <1>4, AcknowledgedLow
<1>6. PICK f : /\ Same(d1, f, {"bus_addr", "bus_data", "sp", "cycle"})
               /\ f.sp = Plus(d1.sp, -2)
               /\ d = Put(Exit("interrupt_vector", f), "cycle", d2.cycle + 1)
               /\ l = WithReturn(m1, d1.sp, d1.pc)
  BY <1>1, <1>4, PushesPc
<1>7. Same(f, d, {"pc", "wz", "cycle"}) /\ d.pc = IF f.im = 0 THEN 8 * Y(Low(f.tmp)) ELSE 56
  BY <1>6, Leaves DEF Same
<1>8. PICK target : target = IF e.im = 0 THEN vector - (vector % 8) - 64 * (vector \div 64) ELSE 56
  OBVIOUS
<1>9. f.im = e.im /\ f.tmp = WithLow(e.tmp, vector)
  BY <1>5, <1>6, InCore DEF Same
<1>10. d.pc = target
  BY <1>2, <1>5, <1>7, <1>8, <1>9, RstOf
<1>11. /\ Same(e, p, {"bus_addr", "bus_data", "sp", "pc", "wz", "tmp", "r", "cycle", "nmi_latched"})
       /\ p.sp = Plus(e.sp, -2) /\ p.pc = target /\ p.r = Counted(e.r) /\
            l = WithReturn(m, e.sp, e.pc)
  BY <1>5, <1>6, <1>7, <1>10, InCore DEF Same
<1>12. Execute("interrupt", p, int) = p
  BY ExecutesNothing DEF Hooked
<1>13. Meets(Execute("interrupt", p, int), l, Manual!Interrupt(Seen(e), m, target))
  BY <1>11, <1>12, InterruptMeans
<1> QED BY <1>8, <1>13

LEMMA LowIsKept ==
  ASSUME NEW w \in Word, NEW b \in Byte
  PROVE  WithLow(w, b) \in Word /\ Low(WithLow(w, b)) = b
<1>1. (256 * (w \div 256) + b) % 256 = b
  BY DEF Word, Alu!Word, Byte
<1> QED BY <1>1 DEF WithLow, Low, Word, Alu!Word, Byte

LEMMA PokeKeepsBytes ==
  ASSUME NEW m, ByteMemory(m), NEW a \in Word, NEW b \in Byte
  PROVE  ByteMemory(Manual!Poke(m, a, b))
BY DEF ByteMemory, Manual!Poke, Word

(* In mode 2 the handler is the word of the table that I and the vector name. *)
LEMMA Does_interrupt_mode2 ==
  ASSUME NEW e, Typed(e), NEW m, ByteMemory(m), e.cycle = 0, e.instr = "interrupt_mode2",
         NEW d, NEW l, After5(e, m, d, l),
         NEW p, Typed(p), Same(d, p, {"nmi_latched"}), NEW int
  PROVE  \E vector \in Vectors :
           Meets(Execute("interrupt_mode2", p, int), l,
                 Manual!Interrupt(Seen(e), m,
                   Manual!PeekWord(Manual!Pushes(Seen(e), m, e.pc).mem, 256 * e.i + vector)))
<1>1. PICK d1, m1, d2, m2, d3, m3, d4, m4 :
        /\ OneCycle(e, m, d1, m1) /\ OneCycle(d1, m1, d2, m2) /\ OneCycle(d2, m2, d3, m3)
        /\ OneCycle(d3, m3, d4, m4) /\ OneCycle(d4, m4, d, l)
  BY DEF After1, After2, After3, After4, After5
<1>2. /\ Shaped(e) /\ e.tmp \in Word /\ e.pc \in Word /\ e.sp \in Word /\ e.i \in Byte
      /\ d1.instr = "interrupt_mode2" /\ d1.cycle = 1 /\ d2.instr = "interrupt_mode2" /\
           d2.cycle = 2
      /\ d3.instr = "interrupt_mode2" /\ d3.cycle = 3 /\ d4.instr = "interrupt_mode2" /\
           d4.cycle = 4
      /\ d3.wz \in Word /\ Shaped(d3) /\ Shaped(d4)
  BY <1>1, CoreTypes DEF OneCycle
<1>3. /\ CyclesOf["interrupt_mode2"] = InterruptCycles("interrupt_mode2")
      /\ HooksOf["interrupt_mode2"] = InterruptHooks("interrupt_mode2")
  BY GroupCycles, GroupHooks DEF Instrs, InterruptSequences
<1>4. /\ Enters(e, "int_ack", "none", "to_tmp_low") /\
           Enters(d1, "mem_write", "push_pc_high", "none")
      /\ Enters(d2, "mem_write", "push_pc_low", "none")
      /\ Enters(d3, "mem_read", "at_interrupt_table", "to_wz_low")
      /\ Enters(d4, "mem_read", "at_tmp_high", "return_to_wz_high")
  BY <1>2, <1>3 DEF Enters, InterruptCycles, InterruptHooks, On, Idle, Write, Read
<1>5. PICK vector \in Vectors :
        /\ vector \in Byte /\ Same(e, d1, {"r", "bus_data", "tmp", "cycle"}) /\ m1 = m
        /\ d1.r = Counted(e.r) /\ d1.tmp = WithLow(e.tmp, vector)
  BY <1>1, <1>4, AcknowledgedLow
<1>6. PICK f : /\ Same(d1, f, {"bus_addr", "bus_data", "sp", "cycle"})
               /\ f.sp = Plus(d1.sp, -2)
               /\ d3 = Put(Exit("none", f), "cycle", d2.cycle + 1)
               /\ m3 = WithReturn(m1, d1.sp, d1.pc)
  BY <1>1, <1>4, PushesPc
<1>7. Same(f, d3, {"cycle"})
  BY <1>6, Leaves DEF Same
<1>8. /\ Same(e, d3, {"r", "bus_data", "tmp", "cycle", "bus_addr", "sp"})
      /\ d3.sp = Plus(e.sp, -2) /\ d3.r = Counted(e.r) /\ d3.tmp = WithLow(e.tmp, vector)
      /\ m3 = WithReturn(m, e.sp, e.pc) /\ d3.i = e.i
  BY <1>5, <1>6, <1>7, InCore DEF Same
<1>9. PICK table : table = 256 * e.i + vector
  OBVIOUS
<1>10. WithHigh(d3.tmp, d3.i) = table /\ table \in Word
  <2>1. d3.tmp \in Word /\ Low(d3.tmp) = vector
    BY <1>2, <1>5, <1>8, LowIsKept
  <2>2. WithHigh(d3.tmp, d3.i) = vector + 256 * e.i
    BY <1>2, <1>8, <2>1, WithHighOf
  <2>3. vector + 256 * e.i \in Word
    BY <1>2, <1>5, <2>1, WordOfTwo
  <2>4. vector + 256 * e.i = table
    <3>1. PICK high : high = e.i
      OBVIOUS
    <3>2. high \in Int /\ vector \in Int
      BY <1>2, <1>5, <3>1 DEF Byte
    <3>3. table = 256 * high + vector
      BY <1>9, <3>1
    <3>4. vector + 256 * high = table
      BY <3>2, <3>3
    <3> QED BY <3>1, <3>4
  <2> QED BY <2>2, <2>3, <2>4
<1>11. PICK g : /\ Same(d3, g, {"bus_addr", "bus_data", "tmp"}) /\ g.tmp = table
                /\ g.bus_data = Manual!Peek(m3, table) /\ m4 = m3
                /\ d4 = Put(Exit("to_wz_low", g), "cycle", d3.cycle + 1)
  BY <1>1, <1>4, <1>10, AtTableReads
<1>12. Same(g, d4, {"wz", "cycle"}) /\ d4.wz = WithLow(g.wz, g.bus_data)
  BY <1>11, Leaves DEF Same
<1>13. PICK h : /\ Same(d4, h, {"bus_addr", "bus_data"})
                /\ h.bus_data = Manual!Peek(m4, Plus(d4.tmp, 1)) /\ l = m4
                /\ d = Put(Exit("return_to_wz_high", h), "cycle", d4.cycle + 1)
  BY <1>1, <1>4, AtTmpHighReads
<1>14. Same(h, d, {"pc", "wz", "cycle"}) /\ d.pc = WithHigh(h.wz, h.bus_data)
  BY <1>13, Leaves DEF Same
<1>15. /\ d4.tmp = table /\ g.wz = d3.wz /\ h.wz = d4.wz
  BY <1>11, <1>12, <1>13, InCore DEF Same
<1>16. ByteMemory(m3)
  <2>1. /\ Plus(e.sp, -1) \in Word /\ Plus(e.sp, -2) \in Word /\ High(e.pc) \in Byte
        /\ Low(e.pc) \in Byte
    BY <1>2, <1>5, Widths
  <2> QED BY <1>8, <2>1, PokeKeepsBytes DEF WithReturn
<1>17. d.pc = Manual!PeekWord(m3, table)
  <2>1. Manual!Peek(m3, Plus(table, 1)) = Manual!Peek(m3, table + 1)
    BY <1>10, Places
  <2>2. d.pc = WithHigh(WithLow(d3.wz, Manual!Peek(m3, table)), Manual!Peek(m3, table + 1))
    BY <1>11, <1>12, <1>13, <1>14, <1>15, <2>1
  <2> QED BY <1>2, <1>10, <1>16, <2>2, WordsRead
<1>18. Manual!Pushes(Seen(e), m, e.pc).mem = m3
  <2>1. Seen(e).sp = e.sp
    BY SeenFields DEF Seen
  <2> QED BY <1>8, <2>1, SameWords DEF Manual!Pushes, Manual!Both, WithReturn
<1>19. PICK target : target = Manual!PeekWord(m3, table)
  OBVIOUS
<1>20. /\ Same(e, p, {"bus_addr", "bus_data", "sp", "pc", "wz", "tmp", "r", "cycle", "nmi_latched"})
       /\ p.sp = Plus(e.sp, -2) /\ p.pc = target /\ p.r = Counted(e.r) /\
            l = WithReturn(m, e.sp, e.pc)
  BY <1>8, <1>11, <1>12, <1>13, <1>14, <1>17, <1>19, InCore DEF Same
<1>21. Execute("interrupt_mode2", p, int) = p
  BY ExecutesNothing DEF Hooked
<1>22. Meets(Execute("interrupt_mode2", p, int), l, Manual!Interrupt(Seen(e), m, target))
  BY <1>20, <1>21, InterruptMeans
<1> QED BY <1>9, <1>18, <1>19, <1>22
-----------------------------------------------------------------------------
(***************************************************************************)
(* All of the prefixed tables together.                                    *)
(***************************************************************************)

(* Every instruction behind a prefix. *)
LEMMA CbMeets ==
  ASSUME NEW e, NEW m, BeginsCb(e, m),
         e.instr \in {"cb_reg", "cb_mem", "cb_bit_mem"},
         NEW d, NEW l, Complete(e, m, d, l),
         NEW p, Typed(p), Same(d, p, {"nmi_latched"}), NEW int
  PROVE  Meets(Execute(e.instr, p, int), l, CbTable(e, m))
<1>1. PICK octet \in PortBytes : TRUE
  BY RegistersAssumption
<1>2. CASE e.instr = "cb_reg"
  <2>1. d = e /\ l = m
    BY <1>2, Came DEF Of0, Deciders, Instrs, FetchOnly
  <2>2. Same(e, p, {"nmi_latched"})
    BY <2>1
  <2>3. Meets(Execute("cb_reg", p, int), m, CbTable(e, m))
    BY <1>2, <2>2, Does_cb_reg
  <2> QED BY <1>1, <1>2, <2>1, <2>3
<1>3. CASE e.instr = "cb_mem"
  <2>1. After3(e, m, d, l)
    BY <1>3, Came DEF Of3, Deciders, Instrs, ArithmeticInstrs
  <2>2. Meets(Execute("cb_mem", p, int), l, CbTable(e, m))
    BY <1>3, <2>1, Does_cb_mem
  <2> QED BY <1>1, <1>3, <2>2
<1>4. CASE e.instr = "cb_bit_mem"
  <2>1. After2(e, m, d, l)
    BY <1>4, Came DEF Of2, Deciders, Instrs, ArithmeticInstrs
  <2>2. Meets(Execute("cb_bit_mem", p, int), l, CbTable(e, m))
    BY <1>4, <2>1, Does_cb_bit_mem
  <2> QED BY <1>1, <1>4, <2>2
<1> QED BY <1>2, <1>3, <1>4

(* The ED table together. *)
LEMMA EdMeets ==
  ASSUME NEW e, NEW m, NEW at, NEW ie, BeginsEd(e, m, at),
         e.instr \in {"ed_nop", "ed_neg", "ed_im", "ed_adc_hl", "ed_sbc_hl",
                      "ed_ld_i_a", "ed_ld_r_a", "ed_ld_a_i", "ed_ld_a_r",
                      "ed_ld_rp_nn", "ed_ld_nn_rp", "ed_retn", "ed_rrd", "ed_rld",
                      "ed_out_c", "ed_in_c"},
         NEW d, NEW l, Complete(e, m, d, l),
         NEW p, Typed(p), Same(d, p, {"nmi_latched"}), NEW int,
         e.instr \in {"ed_ld_a_i", "ed_ld_a_r"} => LoadsEnable(p, int, ie)
  PROVE  \E port \in PortBytes :
           Meets(Execute(e.instr, p, int), l, EdTable(e, m, at, port, ie))
<1>1. PICK octet \in PortBytes : TRUE
  BY RegistersAssumption
<1>2. CASE e.instr = "ed_nop"
  <2>1. d = e /\ l = m
    BY <1>2, Came DEF Of0, Deciders, Instrs, FetchOnly
  <2>2. Same(e, p, {"nmi_latched"})
    BY <2>1
  <2>3. Meets(Execute("ed_nop", p, int), m, EdTable(e, m, at, octet, ie))
    BY <1>2, <2>2, Does_ed_nop
  <2> QED BY <1>1, <1>2, <2>1, <2>3
<1>3. CASE e.instr = "ed_neg"
  <2>1. d = e /\ l = m
    BY <1>3, Came DEF Of0, Deciders, Instrs, FetchOnly
  <2>2. Same(e, p, {"nmi_latched"})
    BY <2>1
  <2>3. Meets(Execute("ed_neg", p, int), m, EdTable(e, m, at, octet, ie))
    BY <1>3, <2>2, Does_ed_neg
  <2> QED BY <1>1, <1>3, <2>1, <2>3
<1>4. CASE e.instr = "ed_im"
  <2>1. d = e /\ l = m
    BY <1>4, Came DEF Of0, Deciders, Instrs, FetchOnly
  <2>2. Same(e, p, {"nmi_latched"})
    BY <2>1
  <2>3. Meets(Execute("ed_im", p, int), m, EdTable(e, m, at, octet, ie))
    BY <1>4, <2>2, Does_ed_im
  <2> QED BY <1>1, <1>4, <2>1, <2>3
<1>5. CASE e.instr = "ed_adc_hl"
  <2>1. After1(e, m, d, l)
    BY <1>5, Came DEF Of1, Deciders, Instrs, EdInstrs
  <2>2. Meets(Execute("ed_adc_hl", p, int), l, EdTable(e, m, at, octet, ie))
    BY <1>5, <2>1, Does_ed_adc_hl
  <2> QED BY <1>1, <1>5, <2>2
<1>6. CASE e.instr = "ed_sbc_hl"
  <2>1. After1(e, m, d, l)
    BY <1>6, Came DEF Of1, Deciders, Instrs, EdInstrs
  <2>2. Meets(Execute("ed_sbc_hl", p, int), l, EdTable(e, m, at, octet, ie))
    BY <1>6, <2>1, Does_ed_sbc_hl
  <2> QED BY <1>1, <1>6, <2>2
<1>7. CASE e.instr = "ed_ld_i_a"
  <2>1. After1(e, m, d, l)
    BY <1>7, Came DEF Of1, Deciders, Instrs, EdInstrs
  <2>2. Meets(Execute("ed_ld_i_a", p, int), l, EdTable(e, m, at, octet, ie))
    BY <1>7, <2>1, Does_ed_ld_i_a
  <2> QED BY <1>1, <1>7, <2>2
<1>8. CASE e.instr = "ed_ld_r_a"
  <2>1. After1(e, m, d, l)
    BY <1>8, Came DEF Of1, Deciders, Instrs, EdInstrs
  <2>2. Meets(Execute("ed_ld_r_a", p, int), l, EdTable(e, m, at, octet, ie))
    BY <1>8, <2>1, Does_ed_ld_r_a
  <2> QED BY <1>1, <1>8, <2>2
<1>9. CASE e.instr = "ed_ld_a_i"
  <2>1. After1(e, m, d, l)
    BY <1>9, Came DEF Of1, Deciders, Instrs, EdInstrs
  <2>2. Meets(Execute("ed_ld_a_i", p, int), l, EdTable(e, m, at, octet, ie))
    BY <1>9, <2>1, Does_ed_ld_a_i
  <2> QED BY <1>1, <1>9, <2>2
<1>10. CASE e.instr = "ed_ld_a_r"
  <2>1. After1(e, m, d, l)
    BY <1>10, Came DEF Of1, Deciders, Instrs, EdInstrs
  <2>2. Meets(Execute("ed_ld_a_r", p, int), l, EdTable(e, m, at, octet, ie))
    BY <1>10, <2>1, Does_ed_ld_a_r
  <2> QED BY <1>1, <1>10, <2>2
<1>11. CASE e.instr = "ed_ld_rp_nn"
  <2>1. After4(e, m, d, l)
    BY <1>11, Came DEF Of4, Deciders, Instrs, EdInstrs
  <2>2. Meets(Execute("ed_ld_rp_nn", p, int), l, EdTable(e, m, at, octet, ie))
    BY <1>11, <2>1, Does_ed_ld_rp_nn
  <2> QED BY <1>1, <1>11, <2>2
<1>12. CASE e.instr = "ed_ld_nn_rp"
  <2>1. After4(e, m, d, l)
    BY <1>12, Came DEF Of4, Deciders, Instrs, EdInstrs
  <2>2. Meets(Execute("ed_ld_nn_rp", p, int), l, EdTable(e, m, at, octet, ie))
    BY <1>12, <2>1, Does_ed_ld_nn_rp
  <2> QED BY <1>1, <1>12, <2>2
<1>13. CASE e.instr = "ed_retn"
  <2>1. After2(e, m, d, l)
    BY <1>13, Came DEF Of2, Deciders, Instrs, EdInstrs
  <2>2. Meets(Execute("ed_retn", p, int), l, EdTable(e, m, at, octet, ie))
    BY <1>13, <2>1, Does_ed_retn
  <2> QED BY <1>1, <1>13, <2>2
<1>14. CASE e.instr = "ed_rrd"
  <2>1. After3(e, m, d, l)
    BY <1>14, Came DEF Of3, Deciders, Instrs, EdInstrs
  <2>2. Meets(Execute("ed_rrd", p, int), l, EdTable(e, m, at, octet, ie))
    BY <1>14, <2>1, Does_ed_rrd
  <2> QED BY <1>1, <1>14, <2>2
<1>15. CASE e.instr = "ed_rld"
  <2>1. After3(e, m, d, l)
    BY <1>15, Came DEF Of3, Deciders, Instrs, EdInstrs
  <2>2. Meets(Execute("ed_rld", p, int), l, EdTable(e, m, at, octet, ie))
    BY <1>15, <2>1, Does_ed_rld
  <2> QED BY <1>1, <1>15, <2>2
<1>16. CASE e.instr = "ed_out_c"
  <2>1. After1(e, m, d, l)
    BY <1>16, Came DEF Of1, Deciders, Instrs, EdInstrs
  <2>2. Meets(Execute("ed_out_c", p, int), l, EdTable(e, m, at, octet, ie))
    BY <1>16, <2>1, Does_ed_out_c
  <2> QED BY <1>1, <1>16, <2>2
<1>17. CASE e.instr = "ed_in_c"
  <2>1. After1(e, m, d, l)
    BY <1>17, Came DEF Of1, Deciders, Instrs, EdInstrs
  <2>2. \E port \in PortBytes : Meets(Execute("ed_in_c", p, int), l, EdTable(e, m, at, port, ie))
    BY <1>17, <2>1, Does_ed_in_c
  <2> QED BY <1>1, <1>17, <2>2
<1> QED BY <1>2, <1>3, <1>4, <1>5, <1>6, <1>7, <1>8, <1>9, <1>10, <1>11, <1>12,
           <1>13, <1>14, <1>15, <1>16, <1>17

(* The block instructions together. *)
LEMMA BlocksMeet ==
  ASSUME NEW e, NEW m, NEW at, BeginsEd(e, m, at),
         e.instr \in {"ed_block_transfer", "ed_block_compare", "ed_block_in",
                      "ed_block_out"},
         NEW d, NEW l, Complete(e, m, d, l),
         NEW p, Typed(p), Same(d, p, {"nmi_latched"}), NEW int
  PROVE  \E port \in PortBytes :
           Meets(Execute(e.instr, p, int), l, BlockTable(e, m, port))
<1>1. PICK octet \in PortBytes : TRUE
  BY RegistersAssumption
<1>2. CASE e.instr = "ed_block_transfer"
  <2>1. ~GoesOn(d) /\ e.cycle_limit = 4 /\ (After3(e, m, d, l) \/ After4(e, m, d, l))
    BY <1>2, CameOrEnded DEF Deciders
  <2>2. ASSUME After3(e, m, d, l) PROVE Meets(Execute("ed_block_transfer", p, int), l,
                 BlockTable(e, m, octet))
    BY <1>2, <2>1, <2>2, Does_ed_block_transfer_ends
  <2>3. ASSUME After4(e, m, d, l) PROVE Meets(Execute("ed_block_transfer", p, int), l,
                 BlockTable(e, m, octet))
    BY <1>2, <2>1, <2>3, Does_ed_block_transfer
  <2> QED BY <1>1, <1>2, <2>1, <2>2, <2>3
<1>3. CASE e.instr = "ed_block_compare"
  <2>1. ~GoesOn(d) /\ e.cycle_limit = 3 /\ (After2(e, m, d, l) \/ After3(e, m, d, l))
    BY <1>3, CameOrEnded DEF Deciders
  <2>2. ASSUME After2(e, m, d, l) PROVE Meets(Execute("ed_block_compare", p, int), l,
                 BlockTable(e, m, octet))
    BY <1>3, <2>1, <2>2, Does_ed_block_compare_ends
  <2>3. ASSUME After3(e, m, d, l) PROVE Meets(Execute("ed_block_compare", p, int), l,
                 BlockTable(e, m, octet))
    BY <1>3, <2>1, <2>3, Does_ed_block_compare
  <2> QED BY <1>1, <1>3, <2>1, <2>2, <2>3
<1>4. CASE e.instr = "ed_block_in"
  <2>1. ~GoesOn(d) /\ e.cycle_limit = 4 /\ (After3(e, m, d, l) \/ After4(e, m, d, l))
    BY <1>4, CameOrEnded DEF Deciders
  <2>2. ASSUME After3(e, m, d, l) PROVE \E port \in PortBytes :
                 Meets(Execute("ed_block_in", p, int), l, BlockTable(e, m, port))
    BY <1>4, <2>1, <2>2, Does_ed_block_in_ends
  <2>3. ASSUME After4(e, m, d, l) PROVE \E port \in PortBytes :
                 Meets(Execute("ed_block_in", p, int), l, BlockTable(e, m, port))
    BY <1>4, <2>1, <2>3, Does_ed_block_in
  <2> QED BY <1>1, <1>4, <2>1, <2>2, <2>3
<1>5. CASE e.instr = "ed_block_out"
  <2>1. ~GoesOn(d) /\ e.cycle_limit = 4 /\ (After3(e, m, d, l) \/ After4(e, m, d, l))
    BY <1>5, CameOrEnded DEF Deciders
  <2>2. ASSUME After3(e, m, d, l) PROVE Meets(Execute("ed_block_out", p, int), l,
                 BlockTable(e, m, octet))
    BY <1>5, <2>1, <2>2, Does_ed_block_out_ends
  <2>3. ASSUME After4(e, m, d, l) PROVE Meets(Execute("ed_block_out", p, int), l,
                 BlockTable(e, m, octet))
    BY <1>5, <2>1, <2>3, Does_ed_block_out
  <2> QED BY <1>1, <1>5, <2>1, <2>2, <2>3
<1> QED BY <1>2, <1>3, <1>4, <1>5

(* The instructions that name (IX+d) together. *)
LEMMA IndexedMeet ==
  ASSUME NEW e, NEW m, NEW at, BeginsIndexed(e, m, at),
         e.instr \in {"index_ld_reg_mem", "index_alu_mem", "index_ld_mem_reg",
                      "index_ld_mem_n", "index_inc_mem", "index_dec_mem"},
         NEW d, NEW l, Complete(e, m, d, l),
         NEW p, Typed(p), Same(d, p, {"nmi_latched"}), NEW int
  PROVE  \E port \in PortBytes :
           Meets(Execute(e.instr, p, int), l, IndexedTable(e, m, at, port))
<1>1. PICK octet \in PortBytes : TRUE
  BY RegistersAssumption
<1>2. CASE e.instr = "index_ld_reg_mem"
  <2>1. After3(e, m, d, l)
    BY <1>2, Came DEF Of3, Deciders, Instrs, IndexedInstrs
  <2>2. Meets(Execute("index_ld_reg_mem", p, int), l, IndexedTable(e, m, at, octet))
    BY <1>2, <2>1, Does_index_ld_reg_mem
  <2> QED BY <1>1, <1>2, <2>2
<1>3. CASE e.instr = "index_alu_mem"
  <2>1. After3(e, m, d, l)
    BY <1>3, Came DEF Of3, Deciders, Instrs, IndexedInstrs
  <2>2. Meets(Execute("index_alu_mem", p, int), l, IndexedTable(e, m, at, octet))
    BY <1>3, <2>1, Does_index_alu_mem
  <2> QED BY <1>1, <1>3, <2>2
<1>4. CASE e.instr = "index_ld_mem_reg"
  <2>1. After3(e, m, d, l)
    BY <1>4, Came DEF Of3, Deciders, Instrs, IndexedInstrs
  <2>2. Meets(Execute("index_ld_mem_reg", p, int), l, IndexedTable(e, m, at, octet))
    BY <1>4, <2>1, Does_index_ld_mem_reg
  <2> QED BY <1>1, <1>4, <2>2
<1>5. CASE e.instr = "index_ld_mem_n"
  <2>1. After4(e, m, d, l)
    BY <1>5, Came DEF Of4, Deciders, Instrs, IndexedInstrs
  <2>2. Meets(Execute("index_ld_mem_n", p, int), l, IndexedTable(e, m, at, octet))
    BY <1>5, <2>1, Does_index_ld_mem_n
  <2> QED BY <1>1, <1>5, <2>2
<1>6. CASE e.instr = "index_inc_mem"
  <2>1. After5(e, m, d, l)
    BY <1>6, Came DEF Of5, Deciders, Instrs, IndexedInstrs
  <2>2. Meets(Execute("index_inc_mem", p, int), l, IndexedTable(e, m, at, octet))
    BY <1>6, <2>1, Does_index_inc_mem
  <2> QED BY <1>1, <1>6, <2>2
<1>7. CASE e.instr = "index_dec_mem"
  <2>1. After5(e, m, d, l)
    BY <1>7, Came DEF Of5, Deciders, Instrs, IndexedInstrs
  <2>2. Meets(Execute("index_dec_mem", p, int), l, IndexedTable(e, m, at, octet))
    BY <1>7, <2>1, Does_index_dec_mem
  <2> QED BY <1>1, <1>7, <2>2
<1> QED BY <1>2, <1>3, <1>4, <1>5, <1>6, <1>7

(* The instructions behind DD CB and FD CB together. *)
LEMMA IndexedCbMeets ==
  ASSUME NEW e, NEW m, NEW at, BeginsIndexed(e, m, at),
         e.instr \in {"index_cb"},
         NEW d, NEW l, Complete(e, m, d, l),
         NEW p, Typed(p), Same(d, p, {"nmi_latched"}), NEW int
  PROVE  Meets(Execute(e.instr, p, int), l, IndexedCbTable(e, m))
<1>1. PICK octet \in PortBytes : TRUE
  BY RegistersAssumption
<1>2. CASE e.instr = "index_cb"
  <2>1. ~GoesOn(d) /\ e.cycle_limit = 6 /\ (After5(e, m, d, l) \/ After6(e, m, d, l))
    BY <1>2, CameOrEnded DEF Deciders
  <2>2. ASSUME After5(e, m, d, l) PROVE Meets(Execute("index_cb", p, int), l, IndexedCbTable(e, m))
    BY <1>2, <2>1, <2>2, Does_index_cb_bit
  <2>3. ASSUME After6(e, m, d, l) PROVE Meets(Execute("index_cb", p, int), l, IndexedCbTable(e, m))
    BY <1>2, <2>1, <2>3, Does_index_cb
  <2> QED BY <1>1, <1>2, <2>1, <2>2, <2>3
<1> QED BY <1>2

(* The sequences that accept an interrupt, and where each of them goes. *)
Handler(e, m, vector) ==
  CASE e.instr = "nmi" -> 102
    [] e.instr = "interrupt" -> IF e.im = 0 THEN vector - (vector % 8) - 64 * (vector \div 64)
      ELSE 56
    [] e.instr = "interrupt_mode2" ->
         Manual!PeekWord(Manual!Pushes(Seen(e), m, e.pc).mem, 256 * e.i + vector)

(* The three sequences together. *)
LEMMA InterruptsMeet ==
  ASSUME NEW e, Typed(e), NEW m, ByteMemory(m), e.cycle = 0, e.instr \in InterruptSequences,
         NEW d, NEW l, Complete(e, m, d, l),
         NEW p, Typed(p), Same(d, p, {"nmi_latched"}), NEW int
  PROVE  \E vector \in Vectors :
           Meets(Execute(e.instr, p, int), l, Manual!Interrupt(Seen(e), m, Handler(e, m, vector)))
<1>1. PICK vector \in Vectors : TRUE
  BY RegistersAssumption
<1>2. CASE e.instr = "nmi"
  <2>1. After3(e, m, d, l)
    BY <1>2, Came DEF Of3, Deciders, Instrs, InterruptSequences
  <2>2. Meets(Execute("nmi", p, int), l, Manual!Interrupt(Seen(e), m, 102))
    BY <1>2, <2>1, Does_nmi
  <2>3. Handler(e, m, vector) = 102
    BY <1>2 DEF Handler
  <2> QED BY <1>1, <1>2, <2>2, <2>3
<1>3. CASE e.instr = "interrupt"
  <2>1. After3(e, m, d, l)
    BY <1>3, Came DEF Of3, Deciders, Instrs, InterruptSequences
  <2>2. PICK v \in Vectors : Meets(Execute("interrupt", p, int), l, Manual!Interrupt(Seen(e), m,
                              IF e.im = 0 THEN v - (v % 8) - 64 * (v \div 64) ELSE 56))
    BY <1>3, <2>1, Does_interrupt
  <2>3. Handler(e, m, v) = IF e.im = 0 THEN v - (v % 8) - 64 * (v \div 64) ELSE 56
    BY <1>3 DEF Handler
  <2>4. Meets(Execute("interrupt", p, int), l, Manual!Interrupt(Seen(e), m, Handler(e, m, v)))
    BY <2>2, <2>3
  <2> QED BY <1>3, <2>4
<1>4. CASE e.instr = "interrupt_mode2"
  <2>1. After5(e, m, d, l)
    BY <1>4, Came DEF Of5, Deciders, Instrs, InterruptSequences
  <2>2. PICK v \in Vectors : Meets(Execute("interrupt_mode2", p, int), l,
          Manual!Interrupt(Seen(e), m,
               Manual!PeekWord(Manual!Pushes(Seen(e), m, e.pc).mem, 256 * e.i + v)))
    BY <1>4, <2>1, Does_interrupt_mode2
  <2>3. Handler(e, m, v) = Manual!PeekWord(Manual!Pushes(Seen(e), m, e.pc).mem, 256 * e.i + v)
    BY <1>4 DEF Handler
  <2>4. Meets(Execute("interrupt_mode2", p, int), l, Manual!Interrupt(Seen(e), m, Handler(e, m, v)))
    BY <2>2, <2>3
  <2> QED BY <1>4, <2>4
<1> QED BY <1>2, <1>3, <1>4 DEF InterruptSequences
-----------------------------------------------------------------------------
(***************************************************************************)
(* Prefixes. The manual counts the prefixes in front of an instruction;    *)
(* the core fetches them one at a time.                                    *)
(***************************************************************************)

(* Addresses wrap. *)
LEMMA PeekWraps ==
  ASSUME NEW m, NEW a, NEW b, a % 65536 = b % 65536
  PROVE  Manual!Peek(m, a) = Manual!Peek(m, b)
BY DEF Manual!Peek

LEMMA WordsWrap ==
  ASSUME NEW m, NEW a \in Int, NEW b \in Int, a % 65536 = b % 65536
  PROVE  OperandsAt(m, a, b)
<1>1. (a + 1) % 65536 = (b + 1) % 65536
  OBVIOUS
<1>2. /\ Manual!Peek(m, a) = Manual!Peek(m, b)
      /\ Manual!Peek(m, a + 1) = Manual!Peek(m, b + 1)
  BY <1>1, PeekWraps
<1> QED BY <1>2 DEF OperandsAt, Manual!PeekWord

LEMMA PlusWraps ==
  ASSUME NEW w \in Word, NEW a \in Int, NEW b \in Int
  PROVE  /\ Plus(w, a) \in Word
         /\ Plus(Plus(w, a), b) = Plus(w, a + b)
         /\ Plus(w, a) % 65536 = (w + a) % 65536
BY DEF Plus, Word, Alu!Word

(* Registers that have been read over. *)
Regs(s) == s = [x \in VisibleFields |-> s[x]] /\ s.pc \in Word /\ s.r \in Byte

LEMMA CountsOn ==
  ASSUME NEW r \in Byte, NEW f \in Nat, NEW g \in Nat, NEW t,
           t = 128 * (r \div 128) + ((r + f) % 128)
  PROVE  /\ t \in Byte
         /\ 128 * (t \div 128) + ((t + g) % 128) = 128 * (r \div 128) + ((r + (f + g)) % 128)
<1>1. r \in 0 .. 255
  BY DEF Byte
<1>2. PICK x \in 0 .. 127 : x = (r + f) % 128
  BY <1>1
<1>3. (x + g) % 128 = (r + (f + g)) % 128
  BY <1>1, <1>2
<1>4. CASE r < 128
  <2>1. r \div 128 = 0
    BY <1>1, <1>4
  <2>2. t = x
    BY <1>2, <2>1
  <2>3. t \div 128 = 0
    BY <2>2
  <2> QED BY <1>2, <1>3, <2>1, <2>2, <2>3 DEF Byte
<1>5. CASE r >= 128
  <2>1. r \div 128 = 1
    BY <1>1, <1>5
  <2>2. t = 128 + x
    BY <1>2, <2>1
  <2>3. t \div 128 = 1 /\ (t + g) % 128 = (x + g) % 128
    BY <2>2
  <2> QED BY <1>2, <1>3, <2>1, <2>2, <2>3 DEF Byte
<1> QED BY <1>1, <1>4, <1>5

LEMMA ReadOver ==
  ASSUME NEW s, Regs(s), NEW a \in Int, NEW f \in Nat
  PROVE  /\ Regs(Manual!Read(s, a, f))
         /\ Manual!Read(s, a, f).pc = Plus(s.pc, a)
         /\ Manual!Read(s, a, f).r = 128 * (s.r \div 128) + ((s.r + f) % 128)
         /\ \A x \in VisibleFields \ {"pc", "r"} : Manual!Read(s, a, f)[x] = s[x]
<1>1. PICK pc \in Word : pc = Plus(s.pc, a)
  BY PlusWraps DEF Regs
<1>2. PICK r \in Byte : r = 128 * (s.r \div 128) + ((s.r + f) % 128)
  BY CountsOn, 0 \in Nat DEF Regs
<1>3. Manual!Read(s, a, f) = [s EXCEPT !.pc = pc, !.r = r]
  BY <1>1, <1>2, SameWords DEF Manual!Read
<1>4. "pc" \in VisibleFields /\ "r" \in VisibleFields
  BY SeenFields
<1>5. PICK t : t = [s EXCEPT !.pc = pc, !.r = r]
  OBVIOUS
<1>6. t = [x \in VisibleFields |-> t[x]] /\ t.pc = pc /\ t.r = r
      /\ \A x \in VisibleFields \ {"pc", "r"} : t[x] = s[x]
  BY <1>4, <1>5 DEF Regs
<1> QED BY <1>1, <1>2, <1>3, <1>5, <1>6 DEF Regs

LEMMA SameRegs ==
  ASSUME NEW s, Regs(s), NEW t, Regs(t), s.pc = t.pc, s.r = t.r,
         \A x \in VisibleFields \ {"pc", "r"} : s[x] = t[x]
  PROVE  s = t
<1>1. \A x \in VisibleFields : s[x] = t[x]
  OBVIOUS
<1> QED BY <1>1 DEF Regs

LEMMA ReadOn ==
  ASSUME NEW s, Regs(s), NEW a \in Nat, NEW f \in Nat, NEW b \in Nat, NEW g \in Nat
  PROVE  Manual!Read(Manual!Read(s, a, f), b, g) = Manual!Read(s, a + b, f + g)
<1>1. PICK t : t = Manual!Read(s, a, f)
  OBVIOUS
<1>2. /\ Regs(t) /\ t.pc = Plus(s.pc, a) /\ t.r = 128 * (s.r \div 128) + ((s.r + f) % 128)
      /\ \A x \in VisibleFields \ {"pc", "r"} : t[x] = s[x]
  BY <1>1, ReadOver
<1>3. PICK u : u = Manual!Read(t, b, g)
  OBVIOUS
<1>4. /\ Regs(u) /\ u.pc = Plus(t.pc, b) /\ u.r = 128 * (t.r \div 128) + ((t.r + g) % 128)
      /\ \A x \in VisibleFields \ {"pc", "r"} : u[x] = t[x]
  BY <1>2, <1>3, ReadOver
<1>5. PICK v : v = Manual!Read(s, a + b, f + g)
  OBVIOUS
<1>6. /\ Regs(v) /\ v.pc = Plus(s.pc, a + b)
      /\ v.r = 128 * (s.r \div 128) + ((s.r + (f + g)) % 128)
      /\ \A x \in VisibleFields \ {"pc", "r"} : v[x] = s[x]
  BY <1>5, ReadOver
<1>7. u.pc = v.pc
  BY <1>2, <1>4, <1>6, PlusWraps DEF Regs
<1>8. s.r \in Byte
  BY DEF Regs
<1>9. u.r = v.r
  BY <1>2, <1>4, <1>6, <1>8, CountsOn
<1>10. \A x \in VisibleFields \ {"pc", "r"} : u[x] = v[x]
  BY <1>2, <1>4, <1>6
<1> QED BY <1>1, <1>3, <1>4, <1>5, <1>6, <1>7, <1>9, <1>10, SameRegs

(* One byte more read. *)
LEMMA ReadFurther ==
  ASSUME NEW s, Regs(s), NEW a \in Nat, NEW f \in Nat, NEW b \in Nat
  PROVE  [Manual!Read(s, a, f) EXCEPT !.pc = Plus(@, b)] = Manual!Read(s, a + b, f)
<1>1. PICK t : t = Manual!Read(s, a, f)
  OBVIOUS
<1>2. /\ Regs(t) /\ t.pc = Plus(s.pc, a) /\ t.r = 128 * (s.r \div 128) + ((s.r + f) % 128)
      /\ \A x \in VisibleFields \ {"pc", "r"} : t[x] = s[x]
  BY <1>1, ReadOver
<1>3. PICK pc \in Word : pc = Plus(t.pc, b)
  BY <1>2, PlusWraps DEF Regs
<1>4. PICK u : u = [t EXCEPT !.pc = pc]
  OBVIOUS
<1>5. /\ Regs(u) /\ u.pc = pc /\ u.r = t.r
      /\ \A x \in VisibleFields \ {"pc", "r"} : u[x] = t[x]
  BY <1>2, <1>3, <1>4, SeenFields DEF Regs
<1>6. PICK v : v = Manual!Read(s, a + b, f)
  OBVIOUS
<1>7. /\ Regs(v) /\ v.pc = Plus(s.pc, a + b) /\ v.r = 128 * (s.r \div 128) + ((s.r + f) % 128)
      /\ \A x \in VisibleFields \ {"pc", "r"} : v[x] = s[x]
  BY <1>6, ReadOver
<1>8. u.pc = v.pc
  BY <1>2, <1>3, <1>5, <1>7, PlusWraps DEF Regs
<1>9. u = v
  BY <1>2, <1>5, <1>7, <1>8, SameRegs
<1> QED BY <1>1, <1>3, <1>4, <1>6, <1>9

(* No prefix read: nothing has changed. *)
LEMMA ReadNothing ==
  ASSUME NEW s, Regs(s)
  PROVE  Manual!Read(s, 0, 0) = s
<1>1. PICK t : t = Manual!Read(s, 0, 0)
  OBVIOUS
<1>2. /\ Regs(t) /\ t.pc = Plus(s.pc, 0) /\ t.r = 128 * (s.r \div 128) + ((s.r + 0) % 128)
      /\ \A x \in VisibleFields \ {"pc", "r"} : t[x] = s[x]
  BY <1>1, ReadOver
<1>3. t.pc = s.pc /\ t.r = s.r
  BY <1>2 DEF Regs, Plus, Word, Alu!Word, Byte
<1> QED BY <1>1, <1>2, <1>3, SameRegs

(* The prefixes that have been read when the byte j of an instruction is    *)
(* next, and what they leave in the fields prefix and index.               *)
Chain(pc, m, j, prefix, index) ==
  /\ prefix = 0 => /\ \A k \in 0 .. j - 1 : Manual!Peek(m, pc + k) \in {DD, FD}
                   /\ index = IF j = 0 THEN 0 ELSE Manual!Peek(m, pc + j - 1)
  /\ prefix = ED => /\ j # 0 /\ index = 0
                    /\ \A k \in 0 .. j - 2 : Manual!Peek(m, pc + k) \in {DD, FD}
                    /\ Manual!Peek(m, pc + j - 1) = ED
  /\ prefix = CB => j = 1 /\ index = 0 /\ Manual!Peek(m, pc) = CB

(* The byte behind the prefixes: what follows from it alone. *)
LEMMA PrefixesAre ==
  ASSUME NEW s, s.pc \in Word, NEW m, NEW k \in Nat,
         \A n \in 0 .. k - 1 : Manual!Peek(m, s.pc + n) \in {DD, FD},
         Manual!Peek(m, s.pc + k) \notin {DD, FD}
  PROVE  Manual!Prefixes(s, m) = k
<1>1. k <= Manual!MostPrefixes
  <2> SUFFICES ASSUME ~(k <= 65535) PROVE FALSE
    BY DEF Manual!MostPrefixes
  <2>1. k - 65536 \in 0 .. k - 1
    OBVIOUS
  <2>2. (s.pc + (k - 65536)) % 65536 = (s.pc + k) % 65536
    BY DEF Word, Alu!Word
  <2>3. Manual!Peek(m, s.pc + (k - 65536)) = Manual!Peek(m, s.pc + k)
    BY <2>2, PeekWraps
  <2> QED BY <2>1, <2>3
<1> DEFINE Behind(n) == /\ \A i \in 0 .. n - 1 : Manual!Peek(m, s.pc + i) \in {221, 253}
                        /\ Manual!Peek(m, s.pc + n) \notin {221, 253}
<1>2. Manual!Prefixes(s, m) = CHOOSE n \in 0 .. Manual!MostPrefixes : Behind(n)
  BY DEF Manual!Prefixes
<1>3. Manual!MostPrefixes \in Nat
  BY DEF Manual!MostPrefixes
<1>4. k \in 0 .. Manual!MostPrefixes /\ Behind(k)
  BY <1>1, <1>3 DEF DD, FD
<1>5. PICK c \in 0 .. Manual!MostPrefixes : c = Manual!Prefixes(s, m) /\ Behind(c)
  BY <1>2, <1>4
<1>6. ~(c < k)
  <2>1. c < k => c \in 0 .. k - 1
    BY <1>3
  <2> QED BY <1>4, <1>5, <2>1
<1>7. ~(k < c)
  <2>1. k < c => k \in 0 .. c - 1
    BY <1>3
  <2> QED BY <1>4, <1>5, <2>1
<1> QED BY <1>3, <1>5, <1>6, <1>7
-----------------------------------------------------------------------------
(***************************************************************************)
(* The manual's instruction, table by table.                               *)
(***************************************************************************)

(* An instruction of the manual, once its prefixes are counted. *)
Arm(opcode, xy, next, a, b, c, d, e, f) ==
  CASE opcode = 203 /\ xy = "hl" -> a
    [] opcode = 203 /\ xy # "hl" -> b
    [] opcode = 237 /\ next >= 160 /\ next < 192 /\ next % 8 < 4 -> c
    [] opcode = 237 /\ next \div 64 = 1 -> d
    [] opcode = 237 /\ next \div 64 # 1 /\ ~(next >= 160 /\ next < 192 /\ next % 8 < 4) -> e
    [] opcode \notin {203, 237} -> f

(* The arms of an instruction, one by one. *)
LEMMA Arms ==
  ASSUME NEW opcode, NEW xy, NEW next \in Byte, NEW a, NEW b, NEW c, NEW d, NEW e, NEW f
  PROVE  /\ opcode = 203 /\ xy = "hl"
            => Arm(opcode, xy, next, a, b, c, d, e, f) = a
         /\ opcode = 203 /\ xy # "hl"
            => Arm(opcode, xy, next, a, b, c, d, e, f) = b
         /\ opcode = 237 /\ next >= 160 /\ next < 192 /\ next % 8 < 4
            => Arm(opcode, xy, next, a, b, c, d, e, f) = c
         /\ opcode = 237 /\ next \div 64 = 1
            => Arm(opcode, xy, next, a, b, c, d, e, f) = d
         /\ opcode = 237 /\ next \div 64 # 1 /\ ~(next >= 160 /\ next < 192 /\ next % 8 < 4)
            => Arm(opcode, xy, next, a, b, c, d, e, f) = e
         /\ opcode \notin {203, 237}
            => Arm(opcode, xy, next, a, b, c, d, e, f) = f
<1>1. next \in Int
  BY DEF Byte
<1>2. next >= 160 /\ next < 192 => next \div 64 = 2
  BY <1>1
<1>3. PICK I : I = Arm(opcode, xy, next, a, b, c, d, e, f)
  OBVIOUS
<1>4. opcode = 203 /\ xy = "hl" => I = a
  BY <1>2, <1>3 DEF Arm
<1>5. opcode = 203 /\ xy # "hl" => I = b
  BY <1>2, <1>3 DEF Arm
<1>6. opcode = 237 /\ next >= 160 /\ next < 192 /\ next % 8 < 4 => I = c
  BY <1>2, <1>3 DEF Arm
<1>7. opcode = 237 /\ next \div 64 = 1 => I = d
  BY <1>2, <1>3 DEF Arm
<1>8. opcode = 237 /\ next \div 64 # 1 /\ ~(next >= 160 /\ next < 192 /\ next % 8 < 4) => I = e
  BY <1>2, <1>3 DEF Arm
<1>9. opcode \notin {203, 237} => I = f
  BY <1>2, <1>3 DEF Arm
<1> QED BY <1>3, <1>4, <1>5, <1>6, <1>7, <1>8, <1>9

Terms(s, m, k, xy, opcode, next, n, place) ==
  /\ k = Manual!Prefixes(s, m)
  /\ xy = IF k = 0 THEN "hl" ELSE IF Manual!Peek(m, s.pc + k - 1) = 221 THEN "ix" ELSE "iy"
  /\ opcode = Manual!Peek(m, s.pc + k)
  /\ next = Manual!Peek(m, s.pc + k + 1) /\ next \in Byte
  /\ n = IF xy # "hl" /\ Manual!NamesMemory(opcode) THEN 1 ELSE 0
  /\ place = IF xy = "hl" THEN s.hl ELSE Manual!Displaced(s[xy], next)
ArmsOf(s, m, port, q, wz, ie, k, xy, opcode, next, n, place, a, b, c, d, e, f) ==
  /\ a = Manual!Bits(Manual!Read(s, 2, 2), m, next, s.hl, FALSE, wz)
  /\ b = Manual!Bits(Manual!Read(s, k + 3, k + 1), m, Manual!Peek(m, s.pc + k + 2), place, TRUE, wz)
  /\ c = Manual!Pass(Manual!Read(s, k + 2, k + 2), m, next, port, Manual!Add(s.pc, k))
  /\ d = Manual!Extended(Manual!Read(s, k + (IF next % 8 = 3 /\ next \div 64 = 1 THEN 4 ELSE 2),
       k + 2), m, next, s.pc + k + 2, port, ie)
  /\ e = Manual!Both(Manual!Read(s, k + 2, k + 2), m)
  /\ f = Manual!Main(Manual!Read(s, k + 1 + n + Manual!OperandBytes(opcode), k + 1), m, opcode, xy,
       place, s.pc + k + 1 + n, port, q)

(* The manual's instruction is one of these arms. *)
LEMMA InstructionIs ==
  ASSUME NEW s, NEW m, NEW port, NEW q, NEW wz, NEW ie, NEW k, NEW xy, NEW opcode, NEW next,
         NEW n, NEW place, Terms(s, m, k, xy, opcode, next, n, place),
         NEW a, NEW b, NEW c, NEW d, NEW e, NEW f,
         ArmsOf(s, m, port, q, wz, ie, k, xy, opcode, next, n, place, a, b, c, d, e, f)
  PROVE  Manual!Instruction(s, m, port, q, wz, ie) = Arm(opcode, xy, next, a, b, c, d, e, f)
<1>1. /\ k = Manual!Prefixes(s, m)
      /\ xy = IF k = 0 THEN "hl" ELSE IF Manual!Peek(m, s.pc + k - 1) = 221 THEN "ix" ELSE "iy"
      /\ opcode = Manual!Peek(m, s.pc + k)
      /\ next = Manual!Peek(m, s.pc + k + 1)
      /\ n = IF xy # "hl" /\ Manual!NamesMemory(opcode) THEN 1 ELSE 0
      /\ place = IF xy = "hl" THEN s.hl ELSE Manual!Displaced(s[xy], next)
  BY DEF Terms
<1>2. Manual!Instruction(s, m, port, q, wz, ie) =
        Arm(opcode, xy, next,
            Manual!Bits(Manual!Read(s, 2, 2), m, next, s.hl, FALSE, wz),
            Manual!Bits(Manual!Read(s, k + 3, k + 1), m, Manual!Peek(m, s.pc + k + 2), place,
            TRUE, wz),
            Manual!Pass(Manual!Read(s, k + 2, k + 2), m, next, port, Manual!Add(s.pc, k)),
            Manual!Extended(Manual!Read(s, k + (IF next % 8 = 3 /\ next \div 64 = 1 THEN 4 ELSE 2),
              k + 2), m, next, s.pc + k + 2, port, ie),
            Manual!Both(Manual!Read(s, k + 2, k + 2), m),
            Manual!Main(Manual!Read(s, k + 1 + n + Manual!OperandBytes(opcode), k + 1), m, opcode,
            xy, place, s.pc + k + 1 + n, port, q))
  BY Zenon, <1>1 DEF Manual!Instruction, Arm
<1>3. /\ a = Manual!Bits(Manual!Read(s, 2, 2), m, next, s.hl, FALSE, wz)
      /\ b = Manual!Bits(Manual!Read(s, k + 3, k + 1), m, Manual!Peek(m, s.pc + k + 2), place,
           TRUE, wz)
      /\ c = Manual!Pass(Manual!Read(s, k + 2, k + 2), m, next, port, Manual!Add(s.pc, k))
      /\ d = Manual!Extended(Manual!Read(s, k + (IF next % 8 = 3 /\
           next \div 64 = 1 THEN 4 ELSE 2), k + 2), m, next, s.pc + k + 2, port, ie)
      /\ e = Manual!Both(Manual!Read(s, k + 2, k + 2), m)
      /\ f = Manual!Main(Manual!Read(s, k + 1 + n + Manual!OperandBytes(opcode), k + 1), m, opcode,
           xy, place, s.pc + k + 1 + n, port, q)
  BY Zenon DEF ArmsOf
<1> QED BY Zenon, <1>2, <1>3

(* What the lemmas of the CB tables say, named so that they can be cited. *)
PlainBits(s, m, port, q, wz, ie, next) ==
  Manual!Instruction(s, m, port, q, wz, ie) = Manual!Bits(Manual!Read(s, 2, 2), m, next, s.hl,
  FALSE, wz)
IndexedBits(s, m, port, q, wz, ie, k, place) ==
  Manual!Instruction(s, m, port, q, wz, ie)
    = Manual!Bits(Manual!Read(s, k + 3, k + 1), m, Manual!Peek(m, s.pc + k + 2), place, TRUE, wz)

LEMMA CbIs ==
  ASSUME NEW s, NEW m, NEW port, NEW q, NEW wz, NEW ie, NEW k, NEW xy, NEW opcode, NEW next,
         NEW n, NEW place, Terms(s, m, k, xy, opcode, next, n, place),
         opcode = 203 /\ xy = "hl"
  PROVE  PlainBits(s, m, port, q, wz, ie, next)
<1>1. next \in Byte
  BY DEF Terms
<1>2. PICK a, b, c, d, e, f :
        /\ ArmsOf(s, m, port, q, wz, ie, k, xy, opcode, next, n, place, a, b, c, d, e, f)
        /\ a = Manual!Bits(Manual!Read(s, 2, 2), m, next, s.hl, FALSE, wz)
  BY Zenon DEF ArmsOf
<1>2a. Terms(s, m, k, xy, opcode, next, n, place)
       /\ ArmsOf(s, m, port, q, wz, ie, k, xy, opcode, next, n, place, a, b, c, d, e, f)
  BY <1>2
<1>3. Manual!Instruction(s, m, port, q, wz, ie) = Arm(opcode, xy, next, a, b, c, d, e, f)
  BY SMT, <1>2a, InstructionIs
<1>4. Arm(opcode, xy, next, a, b, c, d, e, f) = a
  BY <1>1, Arms
<1>5. Manual!Instruction(s, m, port, q, wz, ie)
           = Manual!Bits(Manual!Read(s, 2, 2), m, next, s.hl, FALSE, wz)
  BY <1>2, <1>3, <1>4
<1> QED BY Zenon, <1>5 DEF PlainBits

LEMMA IndexedCbAre ==
  ASSUME NEW s, NEW m, NEW port, NEW q, NEW wz, NEW ie, NEW k, NEW xy, NEW opcode, NEW next,
         NEW n, NEW place, Terms(s, m, k, xy, opcode, next, n, place),
         opcode = 203 /\ xy # "hl"
  PROVE  IndexedBits(s, m, port, q, wz, ie, k, place)
<1>1. next \in Byte
  BY DEF Terms
<1>2. PICK a, b, c, d, e, f :
        /\ ArmsOf(s, m, port, q, wz, ie, k, xy, opcode, next, n, place, a, b, c, d, e, f)
        /\ b = Manual!Bits(Manual!Read(s, k + 3, k + 1), m, Manual!Peek(m, s.pc + k + 2), place,
             TRUE, wz)
  BY Zenon DEF ArmsOf
<1>2a. Terms(s, m, k, xy, opcode, next, n, place)
       /\ ArmsOf(s, m, port, q, wz, ie, k, xy, opcode, next, n, place, a, b, c, d, e, f)
  BY <1>2
<1>3. Manual!Instruction(s, m, port, q, wz, ie) = Arm(opcode, xy, next, a, b, c, d, e, f)
  BY SMT, <1>2a, InstructionIs
<1>4. Arm(opcode, xy, next, a, b, c, d, e, f) = b
  BY <1>1, Arms
<1>5. Manual!Instruction(s, m, port, q, wz, ie)
           = Manual!Bits(Manual!Read(s, k + 3, k + 1), m, Manual!Peek(m, s.pc + k + 2), place,
             TRUE, wz)
  BY <1>2, <1>3, <1>4
<1> QED BY Zenon, <1>5 DEF IndexedBits

LEMMA PassIs ==
  ASSUME NEW s, NEW m, NEW port, NEW q, NEW wz, NEW ie, NEW k, NEW xy, NEW opcode, NEW next,
         NEW n, NEW place, Terms(s, m, k, xy, opcode, next, n, place),
         opcode = 237 /\ next >= 160 /\ next < 192 /\ next % 8 < 4
  PROVE  Manual!Instruction(s, m, port, q, wz, ie)
           = Manual!Pass(Manual!Read(s, k + 2, k + 2), m, next, port, Manual!Add(s.pc, k))
<1>1. next \in Byte
  BY DEF Terms
<1>2. PICK a, b, c, d, e, f :
        /\ ArmsOf(s, m, port, q, wz, ie, k, xy, opcode, next, n, place, a, b, c, d, e, f)
        /\ c = Manual!Pass(Manual!Read(s, k + 2, k + 2), m, next, port, Manual!Add(s.pc, k))
  BY Zenon DEF ArmsOf
<1>2a. Terms(s, m, k, xy, opcode, next, n, place)
       /\ ArmsOf(s, m, port, q, wz, ie, k, xy, opcode, next, n, place, a, b, c, d, e, f)
  BY <1>2
<1>3. Manual!Instruction(s, m, port, q, wz, ie) = Arm(opcode, xy, next, a, b, c, d, e, f)
  BY SMT, <1>2a, InstructionIs
<1>4. Arm(opcode, xy, next, a, b, c, d, e, f) = c
  BY <1>1, Arms
<1> QED BY <1>2, <1>3, <1>4

LEMMA ExtendedIs ==
  ASSUME NEW s, NEW m, NEW port, NEW q, NEW wz, NEW ie, NEW k, NEW xy, NEW opcode, NEW next,
         NEW n, NEW place, Terms(s, m, k, xy, opcode, next, n, place),
         opcode = 237 /\ next \div 64 = 1
  PROVE  Manual!Instruction(s, m, port, q, wz, ie)
           = Manual!Extended(Manual!Read(s, k + (IF next % 8 = 3 /\
             next \div 64 = 1 THEN 4 ELSE 2), k + 2), m, next, s.pc + k + 2, port, ie)
<1>1. next \in Byte
  BY DEF Terms
<1>2. PICK a, b, c, d, e, f :
        /\ ArmsOf(s, m, port, q, wz, ie, k, xy, opcode, next, n, place, a, b, c, d, e, f)
        /\ d = Manual!Extended(Manual!Read(s,
             k + (IF next % 8 = 3 /\ next \div 64 = 1 THEN 4 ELSE 2), k + 2), m, next,
               s.pc + k + 2, port, ie)
  BY Zenon DEF ArmsOf
<1>2a. Terms(s, m, k, xy, opcode, next, n, place)
       /\ ArmsOf(s, m, port, q, wz, ie, k, xy, opcode, next, n, place, a, b, c, d, e, f)
  BY <1>2
<1>3. Manual!Instruction(s, m, port, q, wz, ie) = Arm(opcode, xy, next, a, b, c, d, e, f)
  BY SMT, <1>2a, InstructionIs
<1>4. Arm(opcode, xy, next, a, b, c, d, e, f) = d
  BY <1>1, Arms
<1> QED BY <1>2, <1>3, <1>4

LEMMA NothingIs ==
  ASSUME NEW s, NEW m, NEW port, NEW q, NEW wz, NEW ie, NEW k, NEW xy, NEW opcode, NEW next,
         NEW n, NEW place, Terms(s, m, k, xy, opcode, next, n, place),
         opcode = 237 /\ next \div 64 # 1 /\ ~(next >= 160 /\ next < 192 /\ next % 8 < 4)
  PROVE  Manual!Instruction(s, m, port, q, wz, ie)
           = Manual!Both(Manual!Read(s, k + 2, k + 2), m)
<1>1. next \in Byte
  BY DEF Terms
<1>2. PICK a, b, c, d, e, f :
        /\ ArmsOf(s, m, port, q, wz, ie, k, xy, opcode, next, n, place, a, b, c, d, e, f)
        /\ e = Manual!Both(Manual!Read(s, k + 2, k + 2), m)
  BY Zenon DEF ArmsOf
<1>2a. Terms(s, m, k, xy, opcode, next, n, place)
       /\ ArmsOf(s, m, port, q, wz, ie, k, xy, opcode, next, n, place, a, b, c, d, e, f)
  BY <1>2
<1>3. Manual!Instruction(s, m, port, q, wz, ie) = Arm(opcode, xy, next, a, b, c, d, e, f)
  BY SMT, <1>2a, InstructionIs
<1>4. Arm(opcode, xy, next, a, b, c, d, e, f) = e
  BY <1>1, Arms
<1> QED BY <1>2, <1>3, <1>4

LEMMA MainTableIs ==
  ASSUME NEW s, NEW m, NEW port, NEW q, NEW wz, NEW ie, NEW k, NEW xy, NEW opcode, NEW next,
         NEW n, NEW place, Terms(s, m, k, xy, opcode, next, n, place),
         opcode \notin {203, 237}
  PROVE  Manual!Instruction(s, m, port, q, wz, ie)
           = Manual!Main(Manual!Read(s, k + 1 + n + Manual!OperandBytes(opcode), k + 1), m, opcode,
             xy, place, s.pc + k + 1 + n, port, q)
<1>1. next \in Byte
  BY DEF Terms
<1>2. PICK a, b, c, d, e, f :
        /\ ArmsOf(s, m, port, q, wz, ie, k, xy, opcode, next, n, place, a, b, c, d, e, f)
        /\ f = Manual!Main(Manual!Read(s, k + 1 + n + Manual!OperandBytes(opcode), k + 1), m,
             opcode, xy, place, s.pc + k + 1 + n, port, q)
  BY Zenon DEF ArmsOf
<1>2a. Terms(s, m, k, xy, opcode, next, n, place)
       /\ ArmsOf(s, m, port, q, wz, ie, k, xy, opcode, next, n, place, a, b, c, d, e, f)
  BY <1>2
<1>3. Manual!Instruction(s, m, port, q, wz, ie) = Arm(opcode, xy, next, a, b, c, d, e, f)
  BY SMT, <1>2a, InstructionIs
<1>4. Arm(opcode, xy, next, a, b, c, d, e, f) = f
  BY <1>1, Arms
<1> QED BY <1>2, <1>3, <1>4
-----------------------------------------------------------------------------
(***************************************************************************)
(* What a core that has fetched a byte which is no prefix has read.        *)
(***************************************************************************)

(* The byte j of the instruction at s has been fetched, its prefixes before *)
(* it, and it is no prefix: e is the core, and m the memory.               *)
Fetched(s, m, e, j) ==
  /\ Regs(s) /\ j \in Nat /\ Typed(e) /\ ByteMemory(m) /\ e.cycle = 0
  /\ e.instr = Decode(e.opcode, e.prefix, e.index) /\ e.instr # "prefix"
  /\ Seen(e) = Manual!Read(s, j + 1, j + 1) /\ e.opcode = Manual!Peek(m, s.pc + j)
  /\ Chain(s.pc, m, j, e.prefix, e.index)

(* What has been fetched is what the manual's instruction is about. *)
LEMMA FetchedIs ==
  ASSUME NEW s, NEW m, NEW e, NEW j, Fetched(s, m, e, j)
  PROVE  /\ s.pc \in Word /\ j \in Nat /\ e.opcode \in Byte /\ e.pc \in Word
         /\ e.pc = Plus(s.pc, j + 1) /\ e.pc % 65536 = (s.pc + j + 1) % 65536
         /\ \A x \in VisibleFields \ {"pc", "r"} : e[x] = s[x]
         /\ \A n \in Nat : Manual!Peek(m, s.pc + n) \in Byte
         /\ \A n \in Nat : /\ OperandsAt(m, s.pc + j + 1 + n, Plus(e.pc, n))
                           /\ Manual!Peek(m, s.pc + j + 1 + n) = Manual!Peek(m, Plus(e.pc, n))
<1>1. s.pc \in Word /\ j \in Nat /\ e.opcode \in Byte /\ e.pc \in Word
  BY CoreTypes DEF Fetched, Regs
<1>2. PICK t : t = Manual!Read(s, j + 1, j + 1)
  OBVIOUS
<1>3. t = Seen(e) /\ Regs(s) /\ j + 1 \in Nat
  BY <1>1, <1>2 DEF Fetched
<1>4. t.pc = Plus(s.pc, j + 1) /\ \A x \in VisibleFields \ {"pc", "r"} : t[x] = s[x]
  BY <1>2, <1>3, ReadOver
<1>5. e.pc = Plus(s.pc, j + 1) /\ \A x \in VisibleFields \ {"pc", "r"} : e[x] = s[x]
  BY <1>3, <1>4, SeenFields DEF Seen
<1>6. e.pc % 65536 = (s.pc + j + 1) % 65536
  <2>1. PICK a \in Int : a = j + 1
    BY <1>1
  <2>2. Plus(s.pc, a) % 65536 = (s.pc + a) % 65536
    BY <1>1, <2>1, PlusWraps, 0 \in Int
  <2>3. s.pc + a = s.pc + j + 1
    BY <1>1, <2>1 DEF Word, Alu!Word
  <2> QED BY <1>5, <2>1, <2>2, <2>3
<1>7. ASSUME NEW n \in Nat PROVE Manual!Peek(m, s.pc + n) \in Byte
  <2>1. (s.pc + n) % 65536 \in Word /\ ((s.pc + n) % 65536) % 65536 = (s.pc + n) % 65536
    BY <1>1 DEF Word, Alu!Word
  <2>2. Manual!Peek(m, (s.pc + n) % 65536) = Manual!Peek(m, s.pc + n)
    BY <2>1, PeekWraps
  <2> QED BY <2>1, <2>2, PeekIsAByte DEF Fetched
<1>8. ASSUME NEW n \in Nat PROVE OperandsAt(m, s.pc + j + 1 + n, Plus(e.pc, n))
  <2>1. PICK w \in Word : w = Plus(e.pc, n)
    BY <1>1, PlusWraps, 0 \in Int
  <2>2. Plus(Plus(s.pc, j + 1), n) = Plus(s.pc, j + 1 + n)
    <3>1. PICK a \in Int : a = j + 1
      BY <1>1
    <3>2. Plus(Plus(s.pc, a), n) = Plus(s.pc, a + n)
      BY <1>1, PlusWraps
    <3> QED BY <3>1, <3>2
  <2>3. w = Plus(s.pc, j + 1 + n)
    BY <1>5, <2>1, <2>2
  <2>4. w % 65536 = (s.pc + j + 1 + n) % 65536
    <3>1. PICK b \in Int : b = j + 1 + n
      BY <1>1
    <3>2. Plus(s.pc, b) % 65536 = (s.pc + b) % 65536
      BY <1>1, <3>1, PlusWraps, 0 \in Int
    <3>3. s.pc + b = s.pc + j + 1 + n
      BY <1>1, <3>1 DEF Word, Alu!Word
    <3> QED BY <2>3, <3>1, <3>2, <3>3
  <2>5. w \in Int /\ s.pc + j + 1 + n \in Int
    BY <1>1, <2>1 DEF Word, Alu!Word
  <2> QED BY <2>1, <2>4, <2>5, WordsWrap
<1>9. \A n \in Nat : /\ OperandsAt(m, s.pc + j + 1 + n, Plus(e.pc, n))
                     /\ Manual!Peek(m, s.pc + j + 1 + n) = Manual!Peek(m, Plus(e.pc, n))
  BY <1>8 DEF OperandsAt
<1> QED BY <1>1, <1>5, <1>6, <1>7, <1>9

(* Without ED or CB in front. *)
LEMMA UnprefixedIs ==
  ASSUME NEW s, NEW m, NEW e, NEW j, Fetched(s, m, e, j), e.prefix = 0
  PROVE  /\ e.opcode \notin {221, 237, 253}
         /\ e.index = 0 => e.opcode # 203
         /\ e.index = 0 => e.instr = DecodeBase(e.opcode)
         /\ e.index # 0 => e.instr = DecodeIndexed(e.opcode)
         /\ Manual!Prefixes(s, m) = j
         /\ e.index = 0 <=> j = 0
         /\ index_pair(e) = IF j = 0 THEN "hl"
                            ELSE IF Manual!Peek(m, s.pc + j - 1) = 221 THEN "ix" ELSE "iy"
         /\ index_pair(e) = "hl" <=> j = 0
         /\ index_pair(e) \in {"hl", "ix", "iy"}
<1>1. e.opcode \in Byte /\ j \in Nat /\ s.pc \in Word /\ e.opcode = Manual!Peek(m, s.pc + j)
  BY FetchedIs DEF Fetched
<1>2. /\ e.index = 0 => e.instr = DecodeBase(e.opcode)
      /\ e.index # 0 => e.instr = DecodeIndexed(e.opcode)
  BY DEF Fetched, Decode, CB, ED
<1>3. \A o \in {203, 221, 237, 253} : DecodeBase(o) = "prefix"
  BY DEF DecodeBase, DecodeX3, X, Y, Z
<1>4. \A o \in {221, 237, 253} : DecodeIndexed(o) = "prefix"
  <2>1. /\ X(221) = 3 /\ X(237) = 3 /\ X(253) = 3
    BY DEF X
  <2>2. DecodeIndexed(221) = "prefix"
    BY <2>1 DEF DecodeIndexed
  <2>3. DecodeIndexed(237) = "prefix"
    BY <2>1 DEF DecodeIndexed
  <2>4. DecodeIndexed(253) = "prefix"
    BY <2>1 DEF DecodeIndexed
  <2> QED BY <2>2, <2>3, <2>4
<1>5. e.opcode \notin {221, 237, 253} /\ (e.index = 0 => e.opcode # 203)
  BY <1>2, <1>3, <1>4 DEF Fetched
<1>6. /\ \A k \in 0 .. j - 1 : Manual!Peek(m, s.pc + k) \in {DD, FD}
      /\ e.index = IF j = 0 THEN 0 ELSE Manual!Peek(m, s.pc + j - 1)
  BY DEF Fetched, Chain
<1>7. Manual!Prefixes(s, m) = j
  BY <1>1, <1>5, <1>6, PrefixesAre DEF DD, FD
<1>8. j # 0 => e.index \in {221, 253}
  <2> SUFFICES ASSUME j # 0 PROVE e.index \in {221, 253}
    OBVIOUS
  <2>1. j - 1 \in 0 .. j - 1 /\ s.pc + (j - 1) = s.pc + j - 1
    BY <1>1 DEF Word, Alu!Word
  <2>2. Manual!Peek(m, s.pc + (j - 1)) \in {DD, FD}
    BY <1>6, <2>1
  <2> QED BY <1>6, <2>1, <2>2 DEF DD, FD
<1>9. e.index = 0 <=> j = 0
  BY <1>6, <1>8
<1>10. /\ e.index = 0 => index_pair(e) = "hl"
       /\ e.index = 221 => index_pair(e) = "ix"
       /\ e.index = 253 => index_pair(e) = "iy"
  BY DEF index_pair, DD, FD
<1> QED BY <1>2, <1>5, <1>6, <1>7, <1>8, <1>9, <1>10
-----------------------------------------------------------------------------
(***************************************************************************)
(* An opcode that has been fetched begins in the table where the manual    *)
(* reads it: the unprefixed table.                                         *)
(***************************************************************************)

(* Each instruction begins in the table the manual puts it in. *)
LEMMA OperandCount ==
  ASSUME NEW o
  PROVE  Manual!OperandBytes(o) \in {0, 1, 2}
BY DEF Manual!OperandBytes

LEMMA PlusNothing ==
  ASSUME NEW w \in Word
  PROVE  Plus(w, 0) = w
BY DEF Plus, Word, Alu!Word

(* The unprefixed table, (HL) not replaced. *)
LEMMA MainIs ==
  ASSUME NEW s, NEW m, NEW e, NEW j, Fetched(s, m, e, j), e.prefix = 0,
         e.index # 0 => e.opcode # 203 /\ ~Manual!NamesMemory(e.opcode)
  PROVE  \E place, at : /\ Begins(e, m, place, at)
                        /\ \A port, ie : Manual!Instruction(s, m, port, e.q, e.wz, ie)
                                           = Table(e, m, place, at, port)
<1>1. /\ e.opcode \notin {221, 237, 253} /\ (e.index = 0 => e.opcode # 203)
      /\ (e.index = 0 => e.instr = DecodeBase(e.opcode))
      /\ (e.index # 0 => e.instr = DecodeIndexed(e.opcode))
      /\ Manual!Prefixes(s, m) = j /\ (e.index = 0 <=> j = 0)
      /\ index_pair(e) \in {"hl", "ix", "iy"} /\ (index_pair(e) = "hl" <=> j = 0)
  BY UnprefixedIs
<1>2. PICK xy : xy = index_pair(e)
  OBVIOUS
<1>3. xy = IF j = 0 THEN "hl" ELSE IF Manual!Peek(m, s.pc + j - 1) = 221 THEN "ix" ELSE "iy"
  BY <1>2, UnprefixedIs
<1>4. /\ s.pc \in Word /\ j \in Nat /\ e.opcode \in Byte /\ e.pc \in Word
      /\ \A x \in VisibleFields \ {"pc", "r"} : e[x] = s[x]
      /\ \A n \in Nat : Manual!Peek(m, s.pc + n) \in Byte
      /\ \A n \in Nat : OperandsAt(m, s.pc + j + 1 + n, Plus(e.pc, n))
  BY FetchedIs
<1>5. PICK o \in Byte : o = e.opcode /\ o = Manual!Peek(m, s.pc + j) /\ o \notin {203, 237}
  BY <1>1, <1>4 DEF Fetched
<1>6. PICK next \in Byte : next = Manual!Peek(m, s.pc + j + 1)
  <2>1. s.pc + (j + 1) = s.pc + j + 1 /\ j + 1 \in Nat
    BY <1>4 DEF Word, Alu!Word
  <2>2. Manual!Peek(m, s.pc + (j + 1)) \in Byte
    BY <1>4, <2>1
  <2> QED BY <2>1, <2>2
<1>7. PICK place : place = IF xy = "hl" THEN s.hl ELSE Manual!Displaced(s[xy], next)
  OBVIOUS
<1>8. ~(xy # "hl" /\ Manual!NamesMemory(o))
  BY <1>1, <1>2, <1>5
<1>9. PICK d : d = IF xy # "hl" /\ Manual!NamesMemory(o) THEN 1 ELSE 0
  OBVIOUS
<1>10. d = 0
  BY <1>8, <1>9
<1>11. PICK ob \in {0, 1, 2} : ob = Manual!OperandBytes(o)
  BY OperandCount
<1>12. PICK at : at = s.pc + j + 1 + d
  OBVIOUS
<1>13. PICK t : t = Past(e)
  OBVIOUS
<1>14. t = Manual!Read(s, j + 1 + d + ob, j + 1)
  <2>1. PICK a \in Nat : a = j + 1
    BY <1>4
  <2>2. Seen(e) = Manual!Read(s, a, a) /\ Regs(s)
    BY <2>1 DEF Fetched
  <2>3. [Manual!Read(s, a, a) EXCEPT !.pc = Plus(@, ob)] = Manual!Read(s, a + ob, a)
    BY <1>11, <2>1, <2>2, ReadFurther
  <2>4. j + 1 + d + ob = a + ob
    BY <1>4, <1>10, <1>11, <2>1
  <2> QED BY <1>5, <1>11, <1>13, <2>1, <2>2, <2>3, <2>4 DEF Past
<1>15. ASSUME NEW port, NEW ie
       PROVE  Manual!Instruction(s, m, port, e.q, e.wz, ie) = Table(e, m, place, at, port)
  <2>0. Terms(s, m, j, xy, o, next, d, place)
    BY <1>1, <1>3, <1>5, <1>6, <1>7, <1>9 DEF Terms
  <2>1. Manual!Instruction(s, m, port, e.q, e.wz, ie)
          = Manual!Main(Manual!Read(s, j + 1 + d + Manual!OperandBytes(o), j + 1), m,
                        o, xy, place, s.pc + j + 1 + d, port, e.q)
    BY <1>5, <2>0, MainTableIs
  <2>2. Manual!Instruction(s, m, port, e.q, e.wz, ie)
          = Manual!Main(t, m, o, xy, place, at, port, e.q)
    BY <1>11, <1>12, <1>14, <2>1
  <2> QED BY <1>2, <1>5, <1>13, <2>2 DEF Table
<1>16. Begins(e, m, place, at)
  <2>1. e.instr = DecodeBase(e.opcode)
    <3>1. e.index # 0 => DecodeIndexed(e.opcode) = DecodeBase(e.opcode)
      <4> SUFFICES ASSUME e.index # 0 PROVE DecodeIndexed(o) = DecodeBase(o)
        BY <1>5
      <4>1. ~Manual!NamesMemory(o) /\ o \notin {203, 221, 237, 253}
        BY <1>1, <1>5
      <4>2. X(o) \in 0 .. 3 /\ Y(o) \in 0 .. 7 /\ Z(o) \in 0 .. 7 /\ o = 64 * X(o) + 8 * Y(o) + Z(o)
        BY FieldsType, OpcodeOf
      <4>3. /\ ~(X(o) = 0 /\ Y(o) = 6 /\ Z(o) \in {4, 5, 6})
            /\ ~(X(o) = 1 /\ o # 118 /\ (Y(o) = 6 \/ Z(o) = 6))
            /\ ~(X(o) = 2 /\ Z(o) = 6)
        BY <4>1 DEF Manual!NamesMemory, X, Y, Z
      <4>4. X(o) = 1 /\ (Y(o) = 6 \/ Z(o) = 6) => Y(o) = 6 /\ Z(o) = 6
        BY <4>2, <4>3
      <4> QED BY <4>1, <4>3, <4>4 DEF DecodeIndexed
    <3> QED BY <1>1, <3>1
  <2>2. e.index = 0 => place = e.hl
    BY <1>1, <1>2, <1>4, <1>7, SeenFields
  <2>3. OperandsAt(m, at, e.pc)
    <3>1. Plus(e.pc, 0) = e.pc
      BY <1>4, PlusNothing
    <3>2. OperandsAt(m, s.pc + j + 1 + 0, Plus(e.pc, 0))
      BY <1>4
    <3>3. s.pc + j + 1 + 0 = at
      BY <1>10, <1>12
    <3> QED BY <3>1, <3>2, <3>3
  <2> QED BY <2>1, <2>2, <2>3 DEF Begins, Fetched
<1> QED BY <1>15, <1>16
-----------------------------------------------------------------------------
(***************************************************************************)
(* The tables behind a prefix.                                             *)
(***************************************************************************)

(* Where an instruction with a displacement finds what it needs. *)
LEMMA DisplacedIs ==
  ASSUME NEW s, NEW m, NEW e, NEW j, Fetched(s, m, e, j), e.prefix = 0, e.index # 0
  PROVE  /\ e.opcode \notin {221, 237, 253} /\ e.instr = DecodeIndexed(e.opcode)
         /\ Manual!Prefixes(s, m) = j /\ j # 0
         /\ index_pair(e) \in {"ix", "iy"}
         /\ index_pair(e) = IF j = 0 THEN "hl"
                            ELSE IF Manual!Peek(m, s.pc + j - 1) = 221 THEN "ix" ELSE "iy"
         /\ e.opcode = Manual!Peek(m, s.pc + j)
         /\ Manual!Peek(m, s.pc + j + 1) \in Byte
         /\ PlaceOf(e, m) = Manual!Displaced(s[index_pair(e)], Manual!Peek(m, s.pc + j + 1))
         /\ Manual!Peek(m, s.pc + j + 2) = Manual!Peek(m, Plus(e.pc, 1))
         /\ OperandsAt(m, s.pc + j + 2, Plus(e.pc, 1))
<1>1. /\ e.opcode \notin {221, 237, 253} /\ e.instr = DecodeIndexed(e.opcode)
      /\ Manual!Prefixes(s, m) = j /\ j # 0
      /\ index_pair(e) \in {"ix", "iy"}
      /\ index_pair(e) = IF j = 0 THEN "hl"
                         ELSE IF Manual!Peek(m, s.pc + j - 1) = 221 THEN "ix" ELSE "iy"
  BY UnprefixedIs
<1>2. /\ s.pc \in Word /\ j \in Nat /\ e.pc \in Word
      /\ \A x \in VisibleFields \ {"pc", "r"} : e[x] = s[x]
      /\ \A n \in Nat : Manual!Peek(m, s.pc + n) \in Byte
      /\ \A n \in Nat : /\ OperandsAt(m, s.pc + j + 1 + n, Plus(e.pc, n))
                        /\ Manual!Peek(m, s.pc + j + 1 + n) = Manual!Peek(m, Plus(e.pc, n))
  BY FetchedIs
<1>3. s.pc + j + 1 + 0 = s.pc + j + 1 /\ s.pc + j + 1 + 1 = s.pc + j + 2
      /\ s.pc + (j + 1) = s.pc + j + 1 /\ j + 1 \in Nat
  BY <1>2 DEF Word, Alu!Word
<1>4. Manual!Peek(m, s.pc + j + 1) \in Byte
  <2>1. Manual!Peek(m, s.pc + (j + 1)) \in Byte
    BY <1>2, <1>3
  <2> QED BY <1>3, <2>1
<1>5. Manual!Peek(m, s.pc + j + 1) = Manual!Peek(m, e.pc)
  <2>1. Plus(e.pc, 0) = e.pc
    BY <1>2, PlusNothing
  <2>2. Manual!Peek(m, s.pc + j + 1 + 0) = Manual!Peek(m, Plus(e.pc, 0))
    BY <1>2
  <2> QED BY <1>3, <2>1, <2>2
<1>6. /\ Manual!Peek(m, s.pc + j + 2) = Manual!Peek(m, Plus(e.pc, 1))
      /\ OperandsAt(m, s.pc + j + 2, Plus(e.pc, 1))
  <2>1. /\ OperandsAt(m, s.pc + j + 1 + 1, Plus(e.pc, 1))
        /\ Manual!Peek(m, s.pc + j + 1 + 1) = Manual!Peek(m, Plus(e.pc, 1))
    BY <1>2
  <2> QED BY <1>3, <2>1
<1>7. e[index_pair(e)] = s[index_pair(e)]
  <2>1. {"ix", "iy"} \subseteq VisibleFields \ {"pc", "r"}
    BY SeenFields
  <2> QED BY <1>1, <1>2, <2>1
<1>8. PlaceOf(e, m) = Manual!Displaced(s[index_pair(e)], Manual!Peek(m, s.pc + j + 1))
  BY <1>5, <1>7 DEF PlaceOf
<1> QED BY <1>1, <1>4, <1>6, <1>8 DEF Fetched

(* The unprefixed table, (HL) replaced by (IX+d). *)
LEMMA IndexedIs ==
  ASSUME NEW s, NEW m, NEW e, NEW j, Fetched(s, m, e, j), e.prefix = 0, e.index # 0,
         Manual!NamesMemory(e.opcode)
  PROVE  \E at : /\ BeginsIndexed(e, m, at)
                 /\ e.instr \in {"index_ld_reg_mem", "index_alu_mem", "index_ld_mem_reg",
                                 "index_ld_mem_n", "index_inc_mem", "index_dec_mem"}
                 /\ \A port, ie : Manual!Instruction(s, m, port, e.q, e.wz, ie)
                                    = IndexedTable(e, m, at, port)
<1>1. /\ e.opcode \notin {221, 237, 253} /\ e.instr = DecodeIndexed(e.opcode)
      /\ Manual!Prefixes(s, m) = j /\ j # 0
      /\ OperandsAt(m, s.pc + j + 2, Plus(e.pc, 1))
  BY DisplacedIs
<1>2. PICK xy : xy = index_pair(e) /\ xy # "hl"
  BY DisplacedIs
<1>3. xy = IF j = 0 THEN "hl" ELSE IF Manual!Peek(m, s.pc + j - 1) = 221 THEN "ix" ELSE "iy"
  BY <1>2, DisplacedIs
<1>4. s.pc \in Word /\ j \in Nat /\ e.opcode \in Byte
  BY FetchedIs
<1>5. PICK o \in Byte : o = e.opcode /\ o = Manual!Peek(m, s.pc + j)
  BY <1>4, DisplacedIs
<1>6. o \notin {203, 237} /\ e.instr = DecodeIndexed(o) /\ Manual!NamesMemory(o)
  <2>1. ~Manual!NamesMemory(203)
    BY DEF Manual!NamesMemory
  <2> QED BY <1>1, <1>5, <2>1
<1>7. e.instr \in {"index_ld_reg_mem", "index_alu_mem", "index_ld_mem_reg",
                   "index_ld_mem_n", "index_inc_mem", "index_dec_mem"}
  <2>1. \/ X(o) = 0 /\ Y(o) = 6 /\ Z(o) \in {4, 5, 6}
        \/ X(o) = 1 /\ o # 118 /\ (Y(o) = 6 \/ Z(o) = 6)
        \/ X(o) = 2 /\ Z(o) = 6
    BY <1>6 DEF Manual!NamesMemory, X, Y, Z
  <2>2. X(o) \in 0 .. 3 /\ Y(o) \in 0 .. 7 /\ Z(o) \in 0 .. 7 /\ o = 64 * X(o) + 8 * Y(o) + Z(o)
    BY FieldsType, OpcodeOf
  <2>3. o \notin {203, 221, 237, 253}
    BY <1>1, <1>5, <1>6
  <2>4. CASE X(o) = 0
    BY <1>6, <2>1, <2>3, <2>4 DEF DecodeIndexed
  <2>5. CASE X(o) = 1
    <3>1. Y(o) = 6 => Z(o) # 6
      BY <2>1, <2>2, <2>5
    <3> QED BY <1>6, <2>1, <2>3, <2>5, <3>1 DEF DecodeIndexed
  <2>6. CASE X(o) = 2
    BY <1>6, <2>1, <2>3, <2>6 DEF DecodeIndexed
  <2> QED BY <2>1, <2>4, <2>5, <2>6
<1>8. PICK next \in Byte : next = Manual!Peek(m, s.pc + j + 1)
  BY DisplacedIs
<1>9. PICK place : place = Manual!Displaced(s[xy], next) /\ place = PlaceOf(e, m)
  BY <1>2, <1>8, DisplacedIs
<1>10. PICK ob \in {0, 1, 2} : ob = Manual!OperandBytes(o)
  BY OperandCount
<1>11. PICK at : at = s.pc + j + 2
  OBVIOUS
<1>12. PICK t : t = PastIndexed(e)
  OBVIOUS
<1>13. t = Manual!Read(s, j + 2 + ob, j + 1)
  <2>1. PICK a \in Nat : a = j + 1
    BY <1>4
  <2>2. Seen(e) = Manual!Read(s, a, a) /\ Regs(s)
    BY <2>1 DEF Fetched
  <2>3. PICK b \in Nat : b = 1 + ob
    BY <1>10
  <2>4. [Manual!Read(s, a, a) EXCEPT !.pc = Plus(@, b)] = Manual!Read(s, a + b, a)
    BY <2>1, <2>2, ReadFurther
  <2>5. j + 2 + ob = a + b
    BY <1>4, <1>10, <2>1, <2>3
  <2> QED BY <1>5, <1>10, <1>12, <2>1, <2>2, <2>3, <2>4, <2>5 DEF PastIndexed
<1>14. ASSUME NEW port, NEW ie
       PROVE  Manual!Instruction(s, m, port, e.q, e.wz, ie) = IndexedTable(e, m, at, port)
  <2>1. Terms(s, m, j, xy, o, next, 1, place)
    BY <1>1, <1>2, <1>3, <1>5, <1>6, <1>8, <1>9 DEF Terms
  <2>2. Manual!Instruction(s, m, port, e.q, e.wz, ie)
          = Manual!Main(Manual!Read(s, j + 1 + 1 + Manual!OperandBytes(o), j + 1), m,
                        o, xy, place, s.pc + j + 1 + 1, port, e.q)
    BY <1>6, <2>1, MainTableIs
  <2>3. j + 1 + 1 + Manual!OperandBytes(o) = j + 2 + ob /\ s.pc + j + 1 + 1 = at
    BY <1>4, <1>10, <1>11 DEF Word, Alu!Word
  <2>4. Manual!Instruction(s, m, port, e.q, e.wz, ie)
          = Manual!Main(t, m, o, xy, place, at, port, e.q)
    BY <1>13, <2>2, <2>3
  <2> QED BY <1>2, <1>5, <1>9, <1>12, <2>4 DEF IndexedTable
<1>15. BeginsIndexed(e, m, at)
  BY <1>1, <1>11 DEF BeginsIndexed, Fetched
<1> QED BY <1>7, <1>14, <1>15

(* DD CB and FD CB. *)
LEMMA IndexedCbIs ==
  ASSUME NEW s, NEW m, NEW e, NEW j, Fetched(s, m, e, j), e.prefix = 0, e.index # 0,
         e.opcode = 203
  PROVE  /\ BeginsIndexed(e, m, s.pc + j + 2) /\ e.instr = "index_cb"
         /\ \A port, ie : Manual!Instruction(s, m, port, e.q, e.wz, ie) = IndexedCbTable(e, m)
<1>1. /\ e.instr = DecodeIndexed(e.opcode)
      /\ Manual!Prefixes(s, m) = j /\ j # 0
      /\ OperandsAt(m, s.pc + j + 2, Plus(e.pc, 1))
  BY DisplacedIs
<1>2. PICK xy : xy = index_pair(e) /\ xy # "hl"
  BY DisplacedIs
<1>3. xy = IF j = 0 THEN "hl" ELSE IF Manual!Peek(m, s.pc + j - 1) = 221 THEN "ix" ELSE "iy"
  BY <1>2, DisplacedIs
<1>4. s.pc \in Word /\ j \in Nat /\ e.opcode = Manual!Peek(m, s.pc + j)
  BY FetchedIs, DisplacedIs
<1>5. e.instr = "index_cb"
  <2>1. DecodeIndexed(203) = "index_cb"
    BY DEF DecodeIndexed, X, Y, Z
  <2> QED BY <1>1, <2>1
<1>6. PICK next \in Byte : next = Manual!Peek(m, s.pc + j + 1)
  BY DisplacedIs
<1>7. PICK place : place = Manual!Displaced(s[xy], next) /\ place = PlaceOf(e, m)
  BY <1>2, <1>6, DisplacedIs
<1>8. PICK n : n = IF xy # "hl" /\ Manual!NamesMemory(203) THEN 1 ELSE 0
  OBVIOUS
<1>9. PICK t : t = Manual!Read(s, j + 3, j + 1)
  OBVIOUS
<1>10. t = [Seen(e) EXCEPT !.pc = Plus(@, 2)]
  <2>1. PICK a \in Nat : a = j + 1
    BY <1>4
  <2>2. Seen(e) = Manual!Read(s, a, a) /\ Regs(s)
    BY <2>1 DEF Fetched
  <2>3. [Manual!Read(s, a, a) EXCEPT !.pc = Plus(@, 2)] = Manual!Read(s, a + 2, a)
    BY <2>1, <2>2, ReadFurther
  <2>4. j + 3 = a + 2
    BY <1>4, <2>1
  <2> QED BY <1>9, <2>1, <2>2, <2>3, <2>4
<1>11. ASSUME NEW port, NEW ie
       PROVE  Manual!Instruction(s, m, port, e.q, e.wz, ie) = IndexedCbTable(e, m)
  <2>0. PICK o : o = 203
    OBVIOUS
  <2>1. Terms(s, m, j, xy, o, next, n, place)
    BY <1>1, <1>2, <1>3, <1>4, <1>6, <1>7, <1>8, <2>0 DEF Terms
  <2>2. Manual!Instruction(s, m, port, e.q, e.wz, ie)
          = Manual!Bits(Manual!Read(s, j + 3, j + 1), m, Manual!Peek(m, s.pc + j + 2), place, TRUE,
            e.wz)
    <3>1. o = 203 /\ xy # "hl"
      BY <1>2, <2>0
    <3>2. IndexedBits(s, m, port, e.q, e.wz, ie, j, place)
      BY <2>1, <3>1, IndexedCbAre
    <3> QED BY Zenon, <3>2 DEF IndexedBits
  <2>3. Manual!Peek(m, s.pc + j + 2) = Manual!Peek(m, Plus(e.pc, 1))
    BY DisplacedIs
  <2> QED BY <1>7, <1>9, <1>10, <2>2, <2>3 DEF IndexedCbTable
<1>12. BeginsIndexed(e, m, s.pc + j + 2)
  BY <1>1 DEF BeginsIndexed, Fetched
<1> QED BY <1>5, <1>11, <1>12

(* Behind CB. *)
LEMMA CbPrefixIs ==
  ASSUME NEW s, NEW m, NEW e, NEW j, Fetched(s, m, e, j), e.prefix = CB
  PROVE  /\ BeginsCb(e, m)
         /\ \A port, ie : Manual!Instruction(s, m, port, e.q, e.wz, ie) = CbTable(e, m)
<1>1. j = 1 /\ e.index = 0 /\ Manual!Peek(m, s.pc) = 203
  BY DEF Fetched, Chain, CB, ED
<1>2. e.instr = DecodeCb(e.opcode) /\ e.opcode = Manual!Peek(m, s.pc + 1)
  BY <1>1 DEF Fetched, Decode, CB, ED
<1>3. /\ s.pc \in Word /\ e.opcode \in Byte
      /\ \A x \in VisibleFields \ {"pc", "r"} : e[x] = s[x]
  BY FetchedIs
<1>4. Manual!Prefixes(s, m) = 0
  <2>1. s.pc + 0 = s.pc
    BY <1>3 DEF Word, Alu!Word
  <2>2. Manual!Peek(m, s.pc + 0) \notin {DD, FD}
    BY <1>1, <2>1 DEF DD, FD
  <2>3. \A n \in 0 .. 0 - 1 : Manual!Peek(m, s.pc + n) \in {DD, FD}
    OBVIOUS
  <2> QED BY <1>3, <2>2, <2>3, PrefixesAre
<1>5. s.pc + 0 = s.pc /\ s.pc + 0 + 1 = s.pc + 1
  BY <1>3 DEF Word, Alu!Word
<1>6. Seen(e) = Manual!Read(s, 2, 2)
  BY <1>1 DEF Fetched
<1>7. e.hl = s.hl
  BY <1>3, SeenFields
<1>8. PICK n : n = IF "hl" # "hl" /\ Manual!NamesMemory(203) THEN 1 ELSE 0
  OBVIOUS
<1>9. ASSUME NEW port, NEW ie
      PROVE  Manual!Instruction(s, m, port, e.q, e.wz, ie) = CbTable(e, m)
  <2>0. PICK k, xy, o, next, place :
          k = 0 /\ xy = "hl" /\ o = 203 /\ next = e.opcode /\ place = s.hl
    OBVIOUS
  <2>1. Terms(s, m, k, xy, o, next, n, place)
    BY <1>1, <1>2, <1>3, <1>4, <1>5, <1>8, <2>0 DEF Terms
  <2>2. Manual!Instruction(s, m, port, e.q, e.wz, ie)
          = Manual!Bits(Manual!Read(s, 2, 2), m, e.opcode, s.hl, FALSE, e.wz)
    <3>1. o = 203 /\ xy = "hl"
      BY <2>0
    <3>2. PlainBits(s, m, port, e.q, e.wz, ie, next)
      BY <2>1, <3>1, CbIs
    <3>3. PlainBits(s, m, port, e.q, e.wz, ie, e.opcode)
      BY <2>0, <3>2
    <3> QED BY Zenon, <3>3 DEF PlainBits
  <2> QED BY <1>6, <1>7, <2>2 DEF CbTable
<1>10. BeginsCb(e, m)
  BY <1>1, <1>2 DEF BeginsCb, Fetched
<1> QED BY <1>9, <1>10

(* Behind ED. *)
LEMMA EdIs ==
  ASSUME NEW s, NEW m, NEW e, NEW j, Fetched(s, m, e, j), e.prefix = ED
  PROVE  \E at : /\ BeginsEd(e, m, at)
                 /\ \/ /\ e.instr \in BlockInstrs
                       /\ \A port, ie : Manual!Instruction(s, m, port, e.q, e.wz, ie)
                                          = BlockTable(e, m, port)
                    \/ /\ e.instr \in EdInstrs \union {"ed_neg", "ed_im", "ed_nop"}
                       /\ \A port, ie : Manual!Instruction(s, m, port, e.q, e.wz, ie)
                                          = EdTable(e, m, at, port, ie)
<1>1. /\ j # 0 /\ e.index = 0
      /\ \A k \in 0 .. j - 2 : Manual!Peek(m, s.pc + k) \in {DD, FD}
      /\ Manual!Peek(m, s.pc + j - 1) = 237
  BY DEF Fetched, Chain, CB, ED
<1>2. /\ s.pc \in Word /\ j \in Nat /\ e.opcode \in Byte /\ e.pc \in Word
      /\ e.pc = Plus(s.pc, j + 1)
      /\ \A n \in Nat : OperandsAt(m, s.pc + j + 1 + n, Plus(e.pc, n))
  BY FetchedIs
<1>3. PICK k \in Nat : j = k + 1
  <2>1. j - 1 \in Nat /\ j = (j - 1) + 1
    BY <1>1, <1>2
  <2> QED BY <2>1
<1>4. e.instr = DecodeEd(e.opcode) /\ e.opcode = Manual!Peek(m, s.pc + k + 1)
  <2>1. s.pc + j = s.pc + k + 1
    BY <1>2, <1>3 DEF Word, Alu!Word
  <2> QED BY <2>1 DEF Fetched, Decode, ED
<1>5. Manual!Peek(m, s.pc + k) = 237 /\ \A n \in 0 .. k - 1 : Manual!Peek(m, s.pc + n) \in {DD, FD}
  <2>1. s.pc + j - 1 = s.pc + k /\ j - 2 = k - 1
    BY <1>2, <1>3 DEF Word, Alu!Word
  <2> QED BY <1>1, <2>1
<1>6. Manual!Prefixes(s, m) = k
  BY <1>2, <1>5, PrefixesAre DEF DD, FD
<1>7. PICK xy : xy = IF k = 0 THEN "hl" ELSE IF Manual!Peek(m, s.pc + k - 1) = 221 THEN "ix"
        ELSE "iy"
  OBVIOUS
<1>8. PICK n : n = IF xy # "hl" /\ Manual!NamesMemory(237) THEN 1 ELSE 0
  OBVIOUS
<1>9. PICK place : place = IF xy = "hl" THEN s.hl ELSE Manual!Displaced(s[xy], e.opcode)
  OBVIOUS
<1>10. Terms(s, m, k, xy, 237, e.opcode, n, place)
  BY <1>2, <1>4, <1>5, <1>6, <1>7, <1>8, <1>9 DEF Terms
<1>11. Seen(e) = Manual!Read(s, k + 2, k + 2) /\ Regs(s)
  <2>1. j + 1 = k + 2
    BY <1>3
  <2> QED BY <2>1 DEF Fetched
<1>12. PICK at : at = s.pc + k + 2
  OBVIOUS
<1>13. OperandsAt(m, at, e.pc)
  <2>1. s.pc + j + 1 + 0 = at
    BY <1>2, <1>3, <1>12 DEF Word, Alu!Word
  <2>2. OperandsAt(m, s.pc + j + 1 + 0, Plus(e.pc, 0)) /\ Plus(e.pc, 0) = e.pc
    BY <1>2, PlusNothing
  <2> QED BY <2>1, <2>2
<1>14. BeginsEd(e, m, at)
  BY <1>1, <1>4, <1>13 DEF BeginsEd, Fetched
<1>15. PICK o \in Byte : o = e.opcode
  BY <1>2
<1>16. /\ X(o) = o \div 64 /\ Z(o) = o % 8 /\ Y(o) = (o \div 8) % 8
       /\ o = 64 * X(o) + 8 * Y(o) + Z(o) /\ X(o) \in 0 .. 3 /\ Y(o) \in 0 .. 7 /\ Z(o) \in 0 .. 7
  BY FieldsType, OpcodeOf DEF X, Y, Z
<1>17. /\ e.instr \in BlockInstrs \union EdInstrs \union {"ed_neg", "ed_im", "ed_nop"}
       /\ e.instr \in BlockInstrs <=> X(o) = 2 /\ Y(o) >= 4 /\ Z(o) <= 3
  BY <1>4, <1>15, MapEd
<1>18. X(o) = 2 /\ Y(o) >= 4 /\ Z(o) <= 3 <=> o >= 160 /\ o < 192 /\ o % 8 < 4
  BY <1>16
<1>19. ASSUME e.instr \in BlockInstrs, NEW port, NEW ie
       PROVE  Manual!Instruction(s, m, port, e.q, e.wz, ie) = BlockTable(e, m, port)
  <2>1. 237 = 237 /\ e.opcode >= 160 /\ e.opcode < 192 /\ e.opcode % 8 < 4
    BY <1>15, <1>17, <1>18, <1>19
  <2>2. Manual!Instruction(s, m, port, e.q, e.wz, ie)
          = Manual!Pass(Manual!Read(s, k + 2, k + 2), m, e.opcode, port, Manual!Add(s.pc, k))
    BY <1>10, <2>1, PassIs
  <2>3. Manual!Add(s.pc, k) = Plus(e.pc, -2)
    <3>1. PICK a \in Int : a = j + 1
      BY <1>2
    <3>2. PICK b \in Int : b = -2
      OBVIOUS
    <3>3. Plus(Plus(s.pc, a), b) = Plus(s.pc, a + b)
      <4>1. s.pc \in Word
        BY <1>2
      <4> QED BY <4>1, PlusWraps
    <3>4. a + b = k
      BY <1>2, <1>3, <3>1, <3>2
    <3>5. Manual!Add(s.pc, k) = Plus(s.pc, k)
      BY SameWords
    <3> QED BY <1>2, <3>1, <3>2, <3>3, <3>4, <3>5
  <2> QED BY <1>11, <2>2, <2>3 DEF BlockTable
<1>20. ASSUME e.instr \notin BlockInstrs, NEW port, NEW ie
       PROVE  Manual!Instruction(s, m, port, e.q, e.wz, ie) = EdTable(e, m, at, port, ie)
  <2>1. ~(e.opcode >= 160 /\ e.opcode < 192 /\ e.opcode % 8 < 4)
    BY <1>15, <1>17, <1>18, <1>20
  <2>2. CASE X(o) # 1
    <3>1. 237 = 237 /\ e.opcode \div 64 # 1
      BY <1>15, <1>16, <2>2
    <3>2. Manual!Instruction(s, m, port, e.q, e.wz, ie)
            = Manual!Both(Manual!Read(s, k + 2, k + 2), m)
      BY <1>10, <2>1, <3>1, NothingIs
    <3> QED BY <1>11, <1>15, <2>2, <3>2 DEF EdTable
  <2>3. CASE X(o) = 1
    <3>1. 237 = 237 /\ e.opcode \div 64 = 1
      BY <1>15, <1>16, <2>3
    <3>2. PICK c \in Nat : c = EdBytes(o)
      BY DEF EdBytes
    <3>3. (IF e.opcode % 8 = 3 /\ e.opcode \div 64 = 1 THEN 4 ELSE 2) = 2 + c
      BY <1>15, <1>16, <2>3, <3>2 DEF EdBytes
    <3>4. Manual!Instruction(s, m, port, e.q, e.wz, ie)
            = Manual!Extended(Manual!Read(s, k + (IF e.opcode % 8 = 3 /\
              e.opcode \div 64 = 1 THEN 4 ELSE 2), k + 2),
                              m, e.opcode, s.pc + k + 2, port, ie)
      BY <1>10, <3>1, ExtendedIs
    <3>5. PICK a \in Nat : a = k + 2
      OBVIOUS
    <3>6. k + (2 + c) = a + c
      BY <3>5
    <3>7. [Manual!Read(s, a, a) EXCEPT !.pc = Plus(@, c)] = Manual!Read(s, a + c, a)
      BY <1>11, ReadFurther
    <3>8. PastEd(e) = Manual!Read(s, k + (2 + c), k + 2)
      BY <1>11, <1>15, <3>2, <3>5, <3>6, <3>7 DEF PastEd
    <3> QED BY <1>12, <1>15, <2>3, <3>3, <3>4, <3>8 DEF EdTable
  <2> QED BY <2>2, <2>3
<1> QED BY <1>14, <1>17, <1>19, <1>20
-----------------------------------------------------------------------------
(***************************************************************************)
(* Every instruction that can be fetched meets the manual.                 *)
(***************************************************************************)

(* Every unprefixed instruction is one of these. *)
FetchesAlone == {"nop", "ld_reg_reg", "alu_reg", "inc_reg", "dec_reg",
                 "rotate_a", "daa", "cpl", "scf", "ccf", "ex_af", "ex_de_hl",
                 "exx", "jp_hl", "di", "ei"}
LoadsAndStores == {"ld_a_nn", "ld_nn_hl", "ld_reg_immediate", "ld_reg_from_hl",
                   "ld_hl_from_reg", "ld_hl_n", "ld_a_bc", "ld_a_de", "ld_bc_a",
                   "ld_de_a", "ld_nn_a", "ld_rp_nn", "ld_sp_hl", "ld_hl_nn",
                   "push", "pop", "ex_sp_hl"}
Computes == {"alu_mem", "alu_n", "inc_mem", "dec_mem", "inc_rp", "dec_rp", "add_hl_rp"}
Transfers == {"jump", "jr", "jr_cc", "djnz", "call", "call_cc", "ret",
              "ret_cc", "rst", "jp_cc", "in_a_n", "out_n_a"}

(* So they cover the opcode map. *)
LEMMA BaseNames ==
  ASSUME NEW o \in Byte, NEW n, n = DecodeBase(o)
  PROVE  n \in FetchesAlone \union LoadsAndStores \union Computes \union Transfers
                 \union {"halt", "prefix"}
<1>1. n \in InX0 \union InX3 \union
            {"halt", "ld_reg_from_hl", "ld_hl_from_reg", "ld_reg_reg", "alu_mem", "alu_reg"}
  BY PlacedAt
<1>2. CASE n \in InX0
  BY <1>2 DEF InX0, FetchesAlone, LoadsAndStores, Computes, Transfers
<1>3. CASE n \in InX3
  BY <1>3 DEF InX3, FetchesAlone, LoadsAndStores, Computes, Transfers
<1>4. CASE n \in {"halt", "ld_reg_from_hl", "ld_hl_from_reg", "ld_reg_reg", "alu_mem", "alu_reg"}
  BY <1>4 DEF FetchesAlone, LoadsAndStores, Computes, Transfers
<1> QED BY <1>1, <1>2, <1>3, <1>4

(* Where LD A,I and LD A,R look, ie is what they see. *)
Sees(e, p, int, ie) == e.instr \in {"ed_ld_a_i", "ed_ld_a_r"} => LoadsEnable(p, int, ie)

(* Every instruction but HALT leaves what the manual says. *)
LEMMA InstructionMet ==
  ASSUME NEW s, NEW m, NEW e, NEW j, Fetched(s, m, e, j), e.instr # "halt",
         NEW d, NEW l, Complete(e, m, d, l),
         NEW p, Typed(p), Same(d, p, {"nmi_latched"}), NEW int, NEW ie, Sees(e, p, int, ie)
  PROVE  \E port \in PortBytes :
           Meets(Execute(e.instr, p, int), l, Manual!Instruction(s, m, port, e.q, e.wz, ie))
<1>0. PICK octet \in PortBytes : TRUE
  BY RegistersAssumption
<1>1. PICK r : r = Execute(e.instr, p, int)
  OBVIOUS
<1>2. e.prefix \in {0, CB, ED} /\ e.opcode \in Byte /\ e.instr # "prefix"
  BY CoreTypes DEF Fetched, Typed
<1>3. CASE e.prefix = 0 /\ (e.index # 0 => e.opcode # 203 /\ ~Manual!NamesMemory(e.opcode))
  <2>1. PICK place, at : /\ Begins(e, m, place, at)
                         /\ \A port, i : Manual!Instruction(s, m, port, e.q, e.wz, i)
                                            = Table(e, m, place, at, port)
    BY <1>3, MainIs
  <2>2. e.instr \in FetchesAlone \union LoadsAndStores \union Computes \union Transfers
    <3>1. e.instr = DecodeBase(e.opcode)
      BY <2>1 DEF Begins
    <3>2. e.instr \in FetchesAlone \union LoadsAndStores \union Computes \union Transfers
                        \union {"halt", "prefix"}
      BY <1>2, <3>1, BaseNames
    <3> QED BY <1>2, <3>2
  <2>3. \E port \in PortBytes : Meets(r, l, Table(e, m, place, at, port))
    <3>1. CASE e.instr \in FetchesAlone
      <4>1. \E port \in PortBytes : Meets(Execute(e.instr, p, int), l, Table(e, m, place, at, port))
        BY <2>1, <3>1, FetchesMeet DEF FetchesAlone
      <4> QED BY <1>1, <4>1
    <3>2. CASE e.instr \in LoadsAndStores
      <4>1. \E port \in PortBytes : Meets(Execute(e.instr, p, int), l, Table(e, m, place, at, port))
        BY <2>1, <3>2, LoadsMeet DEF LoadsAndStores
      <4> QED BY <1>1, <4>1
    <3>3. CASE e.instr \in Computes
      <4>1. \E port \in PortBytes : Meets(Execute(e.instr, p, int), l, Table(e, m, place, at, port))
        BY <2>1, <3>3, ArithmeticMeets DEF Computes
      <4> QED BY <1>1, <4>1
    <3>4. CASE e.instr \in Transfers
      <4>1. \E port \in PortBytes : Meets(Execute(e.instr, p, int), l, Table(e, m, place, at, port))
        BY <2>1, <3>4, ControlMeets DEF Transfers
      <4> QED BY <1>1, <4>1
    <3> QED BY <2>2, <3>1, <3>2, <3>3, <3>4
  <2> QED BY <1>1, <2>1, <2>3
<1>4. CASE e.prefix = 0 /\ e.index # 0 /\ Manual!NamesMemory(e.opcode)
  <2>1. PICK at : /\ BeginsIndexed(e, m, at)
                  /\ e.instr \in {"index_ld_reg_mem", "index_alu_mem", "index_ld_mem_reg",
                                  "index_ld_mem_n", "index_inc_mem", "index_dec_mem"}
                  /\ \A port, i : Manual!Instruction(s, m, port, e.q, e.wz, i)
                                     = IndexedTable(e, m, at, port)
    BY <1>4, IndexedIs
  <2>2. PICK port \in PortBytes : Meets(Execute(e.instr, p, int), l, IndexedTable(e, m, at, port))
    BY <2>1, IndexedMeet
  <2> QED BY <2>1, <2>2
<1>5. CASE e.prefix = 0 /\ e.index # 0 /\ e.opcode = 203
  <2>1. /\ BeginsIndexed(e, m, s.pc + j + 2) /\ e.instr = "index_cb"
        /\ \A port, i : Manual!Instruction(s, m, port, e.q, e.wz, i) = IndexedCbTable(e, m)
    BY <1>5, IndexedCbIs
  <2>2. PICK at : BeginsIndexed(e, m, at) /\ e.instr \in {"index_cb"}
    BY <2>1
  <2>3. Meets(Execute(e.instr, p, int), l, IndexedCbTable(e, m))
    BY <2>2, IndexedCbMeets
  <2> QED BY <1>0, <2>1, <2>3
<1>6. CASE e.prefix = CB
  <2>1. /\ BeginsCb(e, m)
        /\ \A port, i : Manual!Instruction(s, m, port, e.q, e.wz, i) = CbTable(e, m)
    BY <1>6, CbPrefixIs
  <2>2. e.instr \in {"cb_reg", "cb_mem", "cb_bit_mem"}
    BY <2>1 DEF BeginsCb, DecodeCb
  <2>3. Meets(Execute(e.instr, p, int), l, CbTable(e, m))
    BY <2>1, <2>2, CbMeets
  <2> QED BY <1>0, <2>1, <2>3
<1>7. CASE e.prefix = ED
  <2>1. PICK at : /\ BeginsEd(e, m, at)
                  /\ \/ /\ e.instr \in BlockInstrs
                        /\ \A port, i : Manual!Instruction(s, m, port, e.q, e.wz, i)
                                           = BlockTable(e, m, port)
                     \/ /\ e.instr \in EdInstrs \union {"ed_neg", "ed_im", "ed_nop"}
                        /\ \A port, i : Manual!Instruction(s, m, port, e.q, e.wz, i)
                                           = EdTable(e, m, at, port, i)
    BY <1>7, EdIs
  <2>2. CASE /\ e.instr \in BlockInstrs
             /\ \A port, i : Manual!Instruction(s, m, port, e.q, e.wz, i)
                                = BlockTable(e, m, port)
    <3>1. e.instr \in {"ed_block_transfer", "ed_block_compare", "ed_block_in", "ed_block_out"}
      BY <2>2 DEF BlockInstrs
    <3>2. PICK port \in PortBytes : Meets(Execute(e.instr, p, int), l, BlockTable(e, m, port))
      BY <2>1, <3>1, BlocksMeet
    <3> QED BY <2>2, <3>2
  <2>3. CASE /\ e.instr \in EdInstrs \union {"ed_neg", "ed_im", "ed_nop"}
             /\ \A port, i : Manual!Instruction(s, m, port, e.q, e.wz, i)
                                = EdTable(e, m, at, port, i)
    <3>1. e.instr \in {"ed_nop", "ed_neg", "ed_im", "ed_adc_hl", "ed_sbc_hl",
                       "ed_ld_i_a", "ed_ld_r_a", "ed_ld_a_i", "ed_ld_a_r",
                       "ed_ld_rp_nn", "ed_ld_nn_rp", "ed_retn", "ed_rrd", "ed_rld",
                       "ed_out_c", "ed_in_c"}
      BY <2>3 DEF EdInstrs
    <3>2. e.instr \in {"ed_ld_a_i", "ed_ld_a_r"} => LoadsEnable(p, int, ie)
      BY DEF Sees
    <3>3. PICK port \in PortBytes : Meets(Execute(e.instr, p, int), l, EdTable(e, m, at, port, ie))
      BY <2>1, <3>1, <3>2, EdMeets
    <3> QED BY <2>3, <3>3
  <2> QED BY <2>1, <2>2, <2>3
<1> QED BY <1>2, <1>3, <1>4, <1>5, <1>6, <1>7
-----------------------------------------------------------------------------
(***************************************************************************)
(* The same, HALT included, as a programmer sees the core between          *)
(* instructions.                                                           *)
(***************************************************************************)

(* What a programmer sees of core r and memory l. *)
Gives(r, l, both) == Visible(r) = both.regs /\ l = both.mem

(* PC is on a HALT. *)
OnHalt(l, pc) == Manual!Peek(l, pc) = 118

LEMMA MetIsGiven ==
  ASSUME NEW r, NEW l, NEW both, ~r.halted, Meets(r, l, both)
  PROVE  Gives(r, l, both)
BY AwakeSeen DEF Meets, Gives

(* HALT is the opcode 76 and nothing else, whatever is in front of it. *)
LEMMA HaltIs ==
  ASSUME NEW o \in Byte, NEW prefix \in {0, CB, ED}, NEW index, Decode(o, prefix, index) = "halt"
  PROVE  o = 118 /\ prefix = 0
<1>1. PICK n : n = "halt"
  OBVIOUS
<1>2. DecodeCb(o) # "halt"
  BY DEF DecodeCb
<1>3. DecodeEd(o) # "halt"
  <2>1. PICK w : w = DecodeEd(o)
    OBVIOUS
  <2>2. w \in BlockInstrs \union EdInstrs \union {"ed_neg", "ed_im", "ed_nop"}
    BY <2>1, MapEd
  <2> QED BY <2>1, <2>2 DEF BlockInstrs, EdInstrs
<1>4. prefix = 0
  BY <1>2, <1>3 DEF Decode
<1>5. DecodeBase(o) = "halt" \/ DecodeIndexed(o) = "halt"
  BY <1>4 DEF Decode, CB, ED
<1>6. DecodeIndexed(o) = "halt" => DecodeBase(o) = "halt"
  <2>1. \/ DecodeIndexed(o) \in IndexedInstrs \union {"prefix"}
        \/ DecodeIndexed(o) = DecodeBase(o)
    BY IndexedOrBase
  <2> QED BY <2>1 DEF IndexedInstrs
<1>7. n = DecodeBase(o)
  BY <1>1, <1>5, <1>6
<1> QED BY <1>1, <1>4, <1>7, PlacedAt

(* HALT leaves the core on itself, asleep. *)
LEMMA HaltGiven ==
  ASSUME NEW s, NEW m, NEW e, NEW j, Fetched(s, m, e, j), e.instr \in {"halt"},
         NEW d, NEW l, Complete(e, m, d, l),
         NEW p, Typed(p), Same(d, p, {"nmi_latched"}), NEW int
  PROVE  /\ \A port, ie : Gives(Execute(e.instr, p, int), l,
              Manual!Instruction(s, m, port, e.q, e.wz, ie))
         /\ OnHalt(l, Execute(e.instr, p, int).pc)
<1>0. e.instr = "halt"
  OBVIOUS
<1>1. e.prefix \in {0, CB, ED} /\ e.opcode \in Byte /\ e.pc \in Word /\ Typed(e)
  BY CoreTypes DEF Fetched, Typed
<1>2. e.opcode = 118 /\ e.prefix = 0
  BY <1>0, <1>1, HaltIs DEF Fetched
<1>3. d = e /\ l = m
  BY <1>0, Came DEF Of0, Deciders, Instrs, FetchOnly
<1>4. Same(e, p, {"nmi_latched"})
  BY <1>3
<1>5. p.pc = e.pc /\ \A x \in VisibleFields : p[x] = e[x]
  <2>1. VisibleFields \subseteq CpuFields \ {"nmi_latched"} /\ "pc" \in VisibleFields
    BY SeenFields, InCore DEF VisibleFields
  <2> QED BY <1>4, <2>1 DEF Same
<1>6. PICK r : r = Execute(e.instr, p, int)
  OBVIOUS
<1>7. r = [p EXCEPT !.halted = TRUE, !.pc = Plus(@, -1)]
  <2>1. Execute("halt", p, int) = ControlEffect("halt", p)
    BY Executes DEF Controls
  <2>2. ControlEffect("halt", p) = execute_halt(p)
    BY DEF ControlEffect
  <2> QED BY <1>0, <1>6, <2>1, <2>2 DEF execute_halt
<1>8. /\ r.halted /\ r.pc = Plus(e.pc, -1)
      /\ \A x \in VisibleFields \ {"pc"} : r[x] = e[x]
  <2>1. Shaped(p) /\ "halted" \in CpuFields /\ "pc" \in CpuFields /\ "halted" \notin VisibleFields
        /\ VisibleFields \subseteq CpuFields
    BY <1>4, SeenFields, InCore DEF Same, VisibleFields
  <2> QED BY <1>5, <1>7, <2>1 DEF Shaped
<1>9. Plus(r.pc, 1) = e.pc /\ r.pc \in Word /\ r.pc % 65536 = (e.pc - 1) % 65536
  <2>1. PICK a, b \in Int : a = -1 /\ b = 1
    OBVIOUS
  <2>2. Plus(Plus(e.pc, a), b) = Plus(e.pc, a + b) /\ a + b = 0 /\ Plus(e.pc, a) \in Word
        /\ Plus(e.pc, a) % 65536 = (e.pc + a) % 65536
    BY <1>1, <2>1, PlusWraps
  <2>3. e.pc + a = e.pc - 1
    BY <1>1, <2>1 DEF Word, Alu!Word
  <2> QED BY <1>1, <1>8, <2>1, <2>2, <2>3, PlusNothing
<1>10. Visible(r) = Seen(e)
  <2>1. \A x \in VisibleFields : Visible(r)[x] = e[x]
    BY <1>8, <1>9 DEF Visible
  <2> QED BY <2>1 DEF Visible, Seen
<1>11. PICK place, at : /\ Begins(e, m, place, at)
                        /\ \A port, i : Manual!Instruction(s, m, port, e.q, e.wz, i)
                                           = Table(e, m, place, at, port)
  <2>1. ~Manual!NamesMemory(118) /\ 118 # 203
    BY DEF Manual!NamesMemory
  <2> QED BY <1>2, <2>1, MainIs
<1>12. ASSUME NEW port PROVE Table(e, m, place, at, port) = Manual!Both(Seen(e), m)
  <2>1. PICK o \in Byte : o = 118 /\ o = e.opcode
    BY <1>1, <1>2
  <2>2. Manual!OperandBytes(o) = 0
    BY <2>1 DEF Manual!OperandBytes
  <2>3. Past(e) = Seen(e)
    <3>1. PICK pc : pc = e.pc
      OBVIOUS
    <3>2. Past(e) = [Seen(e) EXCEPT !.pc = Plus(@, 0)]
      BY <2>1, <2>2 DEF Past
    <3>3. Seen(e).pc = pc /\ Plus(pc, 0) = pc
      BY <1>1, <3>1, PlusNothing, SeenFields DEF Seen
    <3>4. Past(e) = [Seen(e) EXCEPT !.pc = pc]
      BY <3>2, <3>3
    <3> QED BY <3>3, <3>4 DEF Seen
  <2>4. Manual!Main(Past(e), m, o, index_pair(e), place, at, port, e.q) = Manual!Both(Past(e), m)
    BY <2>1, QuarterOf
  <2> QED BY <2>1, <2>3, <2>4 DEF Table
<1>13. Manual!Peek(m, r.pc) = 118
  <2>1. e.pc % 65536 = (s.pc + j + 1) % 65536 /\ s.pc \in Word /\ j \in Nat
    BY FetchedIs
  <2>2. r.pc % 65536 = (s.pc + j) % 65536
    BY <1>1, <1>9, <2>1 DEF Word, Alu!Word
  <2>3. Manual!Peek(m, r.pc) = Manual!Peek(m, s.pc + j)
    BY <2>2, PeekWraps
  <2> QED BY <1>2, <2>3 DEF Fetched
<1>14. ASSUME NEW port, NEW ie PROVE Gives(r, l, Manual!Instruction(s, m, port, e.q, e.wz, ie))
  <2>1. Manual!Instruction(s, m, port, e.q, e.wz, ie) = Manual!Both(Seen(e), m)
    BY <1>11, <1>12
  <2> QED BY <1>3, <1>10, <2>1 DEF Gives, Manual!Both
<1> QED BY <1>3, <1>6, <1>13, <1>14 DEF OnHalt

(* An instruction that has been fetched, and has gone through its cycles. *)
LEMMA InstructionGiven ==
  ASSUME NEW s, NEW m, NEW e, NEW j, Fetched(s, m, e, j), e.halted => e.instr = "halt",
         NEW d, NEW l, Complete(e, m, d, l), d.halted = e.halted,
         NEW p, Typed(p), Same(d, p, {"nmi_latched"}), NEW int, NEW ie, Sees(e, p, int, ie)
  PROVE  /\ \E port \in PortBytes :
              Gives(Execute(e.instr, p, int), l, Manual!Instruction(s, m, port, e.q, e.wz, ie))
         /\ Execute(e.instr, p, int).halted
              => OnHalt(l, Execute(e.instr, p, int).pc)
<1>1. CASE e.instr = "halt"
  <2>1. PICK port \in PortBytes : TRUE
    BY RegistersAssumption
  <2>2. /\ \A x, i : Gives(Execute(e.instr, p, int), l, Manual!Instruction(s, m, x, e.q, e.wz, i))
        /\ OnHalt(l, Execute(e.instr, p, int).pc)
    <3>1. e.instr \in {"halt"}
      BY <1>1
    <3> QED BY <3>1, HaltGiven
  <2> QED BY <2>1, <2>2
<1>2. CASE e.instr # "halt"
  <2>1. PICK r : r = Execute(e.instr, p, int)
    OBVIOUS
  <2>2. ~p.halted
    <3>1. "halted" \in CpuFields \ {"nmi_latched"}
      BY InCore
    <3> QED BY <1>2, <3>1 DEF Same
  <2>3. e.instr # "prefix"
    BY DEF Fetched
  <2>4. ~r.halted
    BY <1>2, <2>1, <2>2, <2>3, ExecuteAwake
  <2>5. PICK port \in PortBytes : Meets(r, l, Manual!Instruction(s, m, port, e.q, e.wz, ie))
    BY <1>2, <2>1, InstructionMet
  <2>6. Gives(r, l, Manual!Instruction(s, m, port, e.q, e.wz, ie))
    BY <2>4, <2>5, MetIsGiven
  <2> QED BY <2>1, <2>4, <2>6
<1> QED BY <1>1, <1>2

(* An interrupt whose sequence has gone through its cycles. *)
LEMMA InterruptGiven ==
  ASSUME NEW e, Typed(e), NEW m, ByteMemory(m), e.cycle = 0, e.instr \in InterruptSequences,
         ~e.halted, NEW d, NEW l, Complete(e, m, d, l), d.halted = e.halted,
         NEW p, Typed(p), Same(d, p, {"nmi_latched"}), NEW int
  PROVE  /\ \E vector \in Vectors :
              Gives(Execute(e.instr, p, int), l, Manual!Interrupt(Seen(e), m, Handler(e, m,
              vector)))
         /\ ~Execute(e.instr, p, int).halted
<1>1. PICK r : r = Execute(e.instr, p, int)
  OBVIOUS
<1>2. ~p.halted
  <2>1. "halted" \in CpuFields \ {"nmi_latched"}
    BY InCore
  <2> QED BY <2>1 DEF Same
<1>3. e.instr \notin {"halt", "prefix"}
  BY DEF InterruptSequences
<1>4. ~r.halted
  BY <1>1, <1>2, <1>3, ExecuteAwake
<1>5. PICK vector \in Vectors : Meets(r, l, Manual!Interrupt(Seen(e), m, Handler(e, m, vector)))
  BY <1>1, InterruptsMeet
<1> QED BY <1>1, <1>4, <1>5, MetIsGiven
-----------------------------------------------------------------------------
(***************************************************************************)
(* A fetch reads the next byte, prefix or not.                             *)
(***************************************************************************)

(* A fetch reads one byte. *)
LEMMA FetchLeaves ==
  ASSUME NEW c, Typed(c), Fetching(c), NEW byte \in Byte, NEW e, e = Ended(c, byte), Typed(e)
  PROVE  /\ Seen(e) = Manual!Read(Seen(c), 1, 1)
         /\ e.q = c.q /\ e.wz = c.wz /\ e.iff2 = c.iff2 /\ e.halted = c.halted
<1>1. PICK n, k, r, pc : /\ n = Decode(byte, c.prefix, c.index) /\ k = Len(CyclesOf[n])
                         /\ r = 128 * (c.r \div 128) + ((c.r + 1) % 128) /\ pc = Plus(c.pc, 1)
  OBVIOUS
<1>2. Shaped(c)
  BY CoreTypes
<1>3. PICK d : d = [c EXCEPT !.r = r]
  OBVIOUS
<1>4. d.pc = c.pc /\ Shaped(d)
  BY <1>2, <1>3, InCore DEF Shaped
<1>5. PICK w : w = [d EXCEPT !.opcode = byte, !.pc = pc]
  OBVIOUS
<1>6. w = Sampled(c, byte)
  <2>1. Sampled(c, byte) = [Refreshed(c) EXCEPT !.opcode = byte, !.pc = Plus(@, 1)]
    BY DEF Sampled, Kind
  <2>2. Refreshed(c) = d
    BY <1>1, <1>3 DEF Refreshed
  <2>3. [d EXCEPT !.opcode = byte, !.pc = Plus(@, 1)] = [d EXCEPT !.opcode = byte, !.pc = pc]
    BY <1>1, <1>4
  <2> QED BY <1>5, <2>1, <2>2, <2>3
<1>7. e = [w EXCEPT !.instr = n, !.cycle = 0, !.cycle_limit = k]
  BY <1>1, <1>6 DEF Ended
<1>8. /\ Shaped(w) /\ w.r = r /\ w.pc = pc
      /\ \A x \in CpuFields \ {"r", "opcode", "pc"} : w[x] = c[x]
  BY <1>2, <1>3, <1>4, <1>5, InCore DEF Shaped
<1>9. \A x \in CpuFields \ {"instr", "cycle", "cycle_limit"} : e[x] = w[x]
  BY <1>7, <1>8, InCore DEF Shaped
<1>10. /\ e.q = c.q /\ e.wz = c.wz /\ e.iff2 = c.iff2 /\ e.halted = c.halted
  <2>1. {"q", "wz", "iff2", "halted"} \subseteq
          CpuFields \ {"instr", "cycle", "cycle_limit", "r", "opcode", "pc"}
    BY InCore
  <2> QED BY <1>8, <1>9, <2>1
<1>11. /\ \A x \in VisibleFields \ {"pc", "r"} : e[x] = c[x]
       /\ e.r = r /\ e.pc = pc
  <2>1. /\ VisibleFields \subseteq CpuFields \ {"instr", "cycle", "cycle_limit", "opcode"}
        /\ "r" \in VisibleFields /\ "pc" \in VisibleFields
    BY SeenFields DEF VisibleFields
  <2> QED BY <1>8, <1>9, <2>1
<1>12. /\ Seen(c) = [x \in VisibleFields |-> Seen(c)[x]]
       /\ Seen(c).r = c.r /\ Seen(c).pc = c.pc
       /\ \A x \in VisibleFields : Seen(c)[x] = c[x]
  BY SeenFields DEF Seen
<1>13. PICK s : s = Seen(c)
  OBVIOUS
<1>14. Manual!Read(s, 1, 1) = [s EXCEPT !.pc = pc, !.r = r]
  BY <1>1, <1>12, <1>13, SameWords DEF Manual!Read
<1>15. \A x \in VisibleFields : [s EXCEPT !.pc = pc, !.r = r][x] = e[x]
  BY <1>11, <1>12, <1>13
<1>16. Seen(e) = [s EXCEPT !.pc = pc, !.r = r]
  <2>1. [s EXCEPT !.pc = pc, !.r = r] = [x \in VisibleFields |-> [s EXCEPT !.pc = pc, !.r = r][x]]
    BY <1>12, <1>13
  <2> QED BY <1>15, <2>1 DEF Seen
<1> QED BY <1>10, <1>13, <1>14, <1>16

(* j prefixes of the instruction at s have been read by the core c. *)
Reading(s, m, c, j) ==
  /\ Regs(s) /\ j \in Nat /\ Seen(c) = Manual!Read(s, j, j)
  /\ Chain(s.pc, m, j, c.prefix, c.index)

(* What the instruction still finds as it was: Q, MEMPTR and IFF2. *)
Alike(c, d) == d.q = c.q /\ d.wz = c.wz /\ d.iff2 = c.iff2

(* The core that has fetched a byte has read it as the manual does. *)
LEMMA FetchReads ==
  ASSUME NEW s, NEW m, NEW c, NEW j, Reading(s, m, c, j), ByteMemory(m),
         Typed(c), Placed(c), Fetching(c), NEW byte, byte = Manual!Peek(m, c.pc),
         NEW e, e = Ended(c, byte)
  PROVE  /\ Typed(e) /\ e.instr = Decode(byte, c.prefix, c.index) /\ e.cycle = 0
         /\ e.cycle_limit = Len(CyclesOf[e.instr]) /\ e.instr \in Instrs \ InterruptSequences
         /\ Seen(e) = Manual!Read(s, j + 1, j + 1)
         /\ e.opcode = byte /\ byte \in Byte /\ byte = Manual!Peek(m, s.pc + j)
         /\ Chain(s.pc, m, j, e.prefix, e.index)
         /\ Alike(c, e) /\ e.halted = c.halted
         /\ e.instr # "prefix" => Fetched(s, m, e, j)
         /\ e.instr = "prefix" => /\ e.prefix = 0 /\ byte \in {CB, DD, ED, FD}
                                  /\ e.index # 0 => byte # CB
<1>1. c.pc \in Word
  BY CoreTypes
<1>2. byte \in Byte
  BY <1>1, PeekIsAByte
<1>3. /\ Typed(e) /\ e.prefix = c.prefix /\ e.index = c.index
      /\ e.opcode = byte /\ e.instr = Decode(byte, c.prefix, c.index)
      /\ e.instr \in Instrs \ InterruptSequences
      /\ e.cycle = 0 /\ e.cycle_limit = Len(CyclesOf[e.instr])
      /\ e.instr = "prefix" => /\ c.prefix = 0 /\ byte \in {CB, DD, ED, FD}
                               /\ c.index # 0 => byte # CB
  BY <1>2, EndedFetch
<1>4. Seen(e) = Manual!Read(Seen(c), 1, 1) /\ Alike(c, e) /\ e.halted = c.halted
  BY <1>2, <1>3, FetchLeaves DEF Alike
<1>5. Regs(s) /\ j \in Nat /\ Seen(c) = Manual!Read(s, j, j)
  BY DEF Reading
<1>6. Manual!Read(Manual!Read(s, j, j), 1, 1) = Manual!Read(s, j + 1, j + 1)
  <2>1. PICK one \in Nat : one = 1
    OBVIOUS
  <2>2. Manual!Read(Manual!Read(s, j, j), one, one) = Manual!Read(s, j + one, j + one)
    BY <1>5, ReadOn
  <2> QED BY <2>1, <2>2
<1>7. byte = Manual!Peek(m, s.pc + j)
  <2>1. Manual!Read(s, j, j).pc = Plus(s.pc, j) /\ s.pc \in Word
    <3>1. j \in Int
      BY <1>5
    <3>2. Manual!Read(s, j, j).pc = Plus(s.pc, j)
      BY <1>5, <3>1, ReadOver
    <3> QED BY <1>5, <3>2 DEF Regs
  <2>2. c.pc = Plus(s.pc, j)
    BY <1>5, <2>1, SeenFields DEF Seen
  <2>3. c.pc % 65536 = (s.pc + j) % 65536
    BY <1>5, <2>1, <2>2 DEF Plus, Word, Alu!Word
  <2> QED BY <2>3, PeekWraps
<1>8. Chain(s.pc, m, j, e.prefix, e.index)
  BY <1>3 DEF Reading
<1>9. Seen(e) = Manual!Read(s, j + 1, j + 1)
  BY <1>4, <1>5, <1>6
<1>10. e.instr # "prefix" => Fetched(s, m, e, j)
  BY <1>3, <1>5, <1>7, <1>8, <1>9 DEF Fetched
<1> QED BY <1>2, <1>3, <1>4, <1>7, <1>8, <1>9, <1>10

(* A prefix that has been fetched is read like that. *)
LEMMA PrefixReads ==
  ASSUME NEW s, NEW m, NEW e, NEW j, Regs(s), j \in Nat, Typed(e),
         Seen(e) = Manual!Read(s, j + 1, j + 1), e.opcode = Manual!Peek(m, s.pc + j),
         Chain(s.pc, m, j, e.prefix, e.index), e.prefix = 0,
         e.opcode \in {CB, DD, ED, FD}, e.index # 0 => e.opcode # CB,
         NEW d, d = BackToFetch(execute_prefix(e))
  PROVE  Reading(s, m, d, j + 1) /\ Alike(e, d) /\ d.halted = e.halted
<1>1. PICK x : x = execute_prefix(e)
  OBVIOUS
<1>2. Shaped(e)
  BY CoreTypes
<1>3. /\ e.opcode \in {DD, FD} => x = [e EXCEPT !.index = e.opcode, !.prefix = 0]
      /\ e.opcode = ED => x = [e EXCEPT !.index = 0, !.prefix = ED]
      /\ e.opcode = CB => x = [e EXCEPT !.prefix = CB]
  BY <1>1 DEF execute_prefix, CB, DD, ED, FD
<1>4. /\ Shaped(x) /\ \A f \in CpuFields \ {"index", "prefix"} : x[f] = e[f]
      /\ e.opcode \in {DD, FD} => x.prefix = 0 /\ x.index = e.opcode
      /\ e.opcode = ED => x.prefix = ED /\ x.index = 0
      /\ e.opcode = CB => x.prefix = CB /\ x.index = e.index
  <2>1. CASE e.opcode \in {DD, FD}
    <3>1. PICK o : o = e.opcode
      OBVIOUS
    <3>2. x = [e EXCEPT !.index = o, !.prefix = 0]
      BY <1>3, <2>1, <3>1
    <3>3. /\ Shaped(x) /\ x.prefix = 0 /\ x.index = o
          /\ \A f \in CpuFields \ {"index", "prefix"} : x[f] = e[f]
      BY <1>2, <3>2, InCore DEF Shaped
    <3> QED BY <2>1, <3>1, <3>3 DEF CB, DD, ED, FD
  <2>2. CASE e.opcode = ED
    <3>1. x = [e EXCEPT !.index = 0, !.prefix = ED]
      BY <1>3, <2>2
    <3>2. /\ Shaped(x) /\ x.prefix = ED /\ x.index = 0
          /\ \A f \in CpuFields \ {"index", "prefix"} : x[f] = e[f]
      BY <1>2, <3>1, InCore DEF Shaped
    <3> QED BY <2>2, <3>2 DEF CB, DD, ED, FD
  <2>3. CASE e.opcode = CB
    BY <1>2, <1>3, <2>3, InCore DEF Shaped, CB, DD, ED, FD
  <2> QED BY <2>1, <2>2, <2>3
<1>5. d = [x EXCEPT !.instr = NoInstr, !.cycle = 0, !.cycle_limit = 0]
  BY <1>1 DEF BackToFetch
<1>6. \A f \in CpuFields \ {"instr", "cycle", "cycle_limit"} : d[f] = x[f]
  BY <1>4, <1>5, InCore DEF Shaped
<1>7. \A f \in CpuFields \ {"instr", "cycle", "cycle_limit", "index", "prefix"} : d[f] = e[f]
  BY <1>4, <1>6
<1>8. Seen(d) = Seen(e)
  <2>1. VisibleFields \subseteq CpuFields \ {"instr", "cycle", "cycle_limit", "index", "prefix"}
    BY SeenFields DEF VisibleFields
  <2> QED BY <1>7, <2>1 DEF Seen
<1>9. Alike(e, d) /\ d.halted = e.halted
  <2>1. {"q", "wz", "iff2", "halted"} \subseteq
          CpuFields \ {"instr", "cycle", "cycle_limit", "index", "prefix"}
    BY InCore
  <2> QED BY <1>7, <2>1 DEF Alike
<1>10. d.prefix = x.prefix /\ d.index = x.index
  BY <1>6, InCore
<1>11. s.pc \in Word /\ j + 1 \in Nat /\ s.pc + (j + 1) - 1 = s.pc + j /\ (j + 1) - 1 = j
       /\ s.pc + j + 1 - 1 = s.pc + j /\ j + 1 # 0 /\ (j + 1) - 2 = j - 1
  BY DEF Regs, Word, Alu!Word
<1>12. \A k \in 0 .. j - 1 : Manual!Peek(m, s.pc + k) \in {DD, FD}
  BY DEF Chain
<1>13. CASE e.opcode \in {DD, FD}
  <2>1. d.prefix = 0 /\ d.index = e.opcode
    BY <1>4, <1>10, <1>13
  <2>2. ASSUME NEW k \in 0 .. j PROVE Manual!Peek(m, s.pc + k) \in {DD, FD}
    <3>1. CASE k = j
      BY <1>13, <3>1
    <3>2. CASE k # j
      <4>1. k \in 0 .. j - 1
        BY <3>2
      <4> QED BY <1>12, <4>1
    <3> QED BY <3>1, <3>2
  <2>3. Chain(s.pc, m, j + 1, d.prefix, d.index)
    BY <1>11, <2>1, <2>2 DEF Chain, CB, ED
  <2> QED BY <1>8, <1>9, <1>11, <2>3 DEF Reading
<1>14. CASE e.opcode = ED
  <2>1. d.prefix = ED /\ d.index = 0
    BY <1>4, <1>10, <1>14
  <2>2. Chain(s.pc, m, j + 1, d.prefix, d.index)
    BY <1>11, <1>12, <1>14, <2>1 DEF Chain, CB, ED
  <2> QED BY <1>8, <1>9, <1>11, <2>2 DEF Reading
<1>15. CASE e.opcode = CB
  <2>1. d.prefix = CB /\ d.index = e.index /\ e.index = 0
    BY <1>4, <1>10, <1>15
  <2>2. j = 0
    <3> SUFFICES ASSUME j # 0 PROVE FALSE
      OBVIOUS
    <3>1. e.index = Manual!Peek(m, s.pc + j - 1)
      BY DEF Chain
    <3>2. j - 1 \in 0 .. j - 1 /\ s.pc + (j - 1) = s.pc + j - 1
      BY <1>11 DEF Word, Alu!Word
    <3>3. Manual!Peek(m, s.pc + (j - 1)) \in {DD, FD}
      BY <1>12, <3>2
    <3> QED BY <2>1, <3>1, <3>2, <3>3 DEF DD, FD
  <2>3. s.pc + j = s.pc
    BY <1>11, <2>2 DEF Word, Alu!Word
  <2>4. Chain(s.pc, m, j + 1, d.prefix, d.index)
    BY <1>15, <2>1, <2>2, <2>3 DEF Chain, CB, ED
  <2> QED BY <1>8, <1>9, <1>11, <2>4 DEF Reading
<1> QED BY <1>13, <1>14, <1>15
-----------------------------------------------------------------------------
(***************************************************************************)
(* What the end of an instruction leaves, an interrupt accepted or not.    *)
(***************************************************************************)

(* A core that is seen and halted like another is that other to a programmer. *)
LEMMA VisibleAgrees ==
  ASSUME NEW c, NEW d, \A x \in VisibleFields \union {"halted"} : d[x] = c[x]
  PROVE  Visible(d) = Visible(c) /\ d.halted = c.halted /\ d.pc = c.pc
<1>1. d.halted = c.halted /\ d.pc = c.pc
  BY SeenFields
<1> QED BY <1>1 DEF Visible

LEMMA VisibleSame ==
  ASSUME NEW c, NEW d, NEW F, Same(c, d, F),
         F \subseteq CpuFields \ (VisibleFields \union {"halted"})
  PROVE  Visible(d) = Visible(c) /\ d.halted = c.halted /\ d.pc = c.pc
<1>1. VisibleFields \union {"halted"} \subseteq CpuFields
  BY SeenFields, InCore DEF VisibleFields
<1>2. \A x \in VisibleFields \union {"halted"} : d[x] = c[x]
  BY <1>1 DEF Same
<1> QED BY <1>2, VisibleAgrees

(* The pins are sampled, the effect comes in, the prefixes are forgotten.   *)
EndFields == {"instr", "cycle", "cycle_limit", "prefix", "index", "q", "pending"}

(* An instruction's end changes nothing that a programmer sees. *)
LEMMA EndLeaves ==
  ASSUME NEW d, Typed(d), d.instr # "prefix", NEW nmi \in BOOLEAN, NEW int,
         NEW p, p = Pinned(d, nmi), NEW r, r = Execute(d.instr, p, int),
         NEW c, c = Finished(p, int)
  PROVE  /\ Typed(p) /\ Same(d, p, {"nmi_latched"}) /\ Typed(c) /\ Typed(r)
         /\ c.prefix = 0 /\ c.index = 0 /\ Fetching(c) /\ c.instr = NoInstr
         /\ Same(r, c, EndFields)
         /\ Visible(c) = Visible(r) /\ c.halted = r.halted /\ c.pc = r.pc
<1>1. Typed(p) /\ Same(d, p, {"nmi_latched"}) /\ p.instr = d.instr
  <2>1. PICK b \in BOOLEAN : b = (d.nmi_latched \/ nmi)
    OBVIOUS
  <2>2. p = Put(d, "nmi_latched", b)
    BY <2>1 DEF Pinned, Put
  <2>3. Typed(p)
    BY <2>2, OntoItself, OntoPut, FieldNames DEF Onto
  <2>4. Same(d, p, {"nmi_latched"})
    BY <2>2, GetPut, Fields, InCore DEF Same
  <2>5. p.instr = d.instr
    BY <2>4, InCore DEF Same
  <2> QED BY <2>3, <2>4, <2>5
<1>2. Typed(r)
  BY <1>1, ExecuteTyped DEF Onto
<1>3. Typed(c) /\ c.instr = NoInstr /\ c.prefix = 0 /\ c.index = 0
  BY FinishedTyped
<1>4. Fetching(c)
  BY <1>3 DEF Fetching
<1>5. Same(r, c, EndFields)
  <2>1. c = [BackToFetch(r) EXCEPT !.prefix = 0, !.index = 0, !.q = r.pending, !.pending = {}]
    BY <1>1 DEF Finished
  <2>2. PICK y : y = BackToFetch(r)
    OBVIOUS
  <2>0. Shaped(r)
    BY <1>2, CoreTypes
  <2>3. Shaped(y) /\ \A x \in CpuFields \ {"instr", "cycle", "cycle_limit"} : y[x] = r[x]
    BY <2>0, <2>2, InCore DEF BackToFetch, Shaped
  <2>4. PICK f : f = r.pending
    OBVIOUS
  <2>5. c = [y EXCEPT !.prefix = 0, !.index = 0, !.q = f, !.pending = {}]
    BY <2>1, <2>2, <2>4
  <2>6. Shaped(c) /\ \A x \in CpuFields \ {"prefix", "index", "q", "pending"} : c[x] = y[x]
    BY <2>3, <2>5, InCore DEF Shaped
  <2> QED BY <2>3, <2>6 DEF Same, EndFields
<1>6. Visible(c) = Visible(r) /\ c.halted = r.halted /\ c.pc = r.pc
  <2>1. EndFields \subseteq CpuFields \ (VisibleFields \union {"halted"})
    BY InCore DEF EndFields, VisibleFields
  <2> QED BY <1>5, <2>1, VisibleSame
<1> QED BY <1>1, <1>2, <1>3, <1>4, <1>5, <1>6

(* No interrupt is accepted. *)
LEMMA PlainLeaves ==
  ASSUME NEW c, Typed(c), c.prefix = 0, c.index = 0, c.instr = NoInstr,
         NEW x, x = [c EXCEPT !.int_inhibit = FALSE]
  PROVE  /\ Visible(x) = Visible(c) /\ x.halted = c.halted /\ x.pc = c.pc
         /\ x.prefix = 0 /\ x.index = 0 /\ x.instr = NoInstr
<1>0. Shaped(c)
  BY CoreTypes
<1>1. Same(c, x, {"int_inhibit"})
  BY <1>0, InCore DEF Same, Shaped
<1>2. {"int_inhibit"} \subseteq CpuFields \ (VisibleFields \union {"halted"})
  BY InCore DEF VisibleFields
<1>3. x.prefix = c.prefix /\ x.index = c.index /\ x.instr = c.instr
  BY <1>1, InCore DEF Same
<1> QED BY <1>1, <1>2, <1>3, VisibleSame

(* An interrupt is accepted: the core leaves HALT, PC past it. *)
LEMMA WakeLeaves ==
  ASSUME NEW c, Typed(c), NEW w, w = wake_from_halt(c)
  PROVE  Visible(w) = Visible(c) /\ ~w.halted /\ w.prefix = c.prefix /\ w.index = c.index
<1>1. CASE c.halted
  <2>1. PICK pc : pc = Plus(c.pc, 1)
    OBVIOUS
  <2>2. w = [c EXCEPT !.halted = FALSE, !.pc = Plus(@, 1)]
    BY <1>1 DEF wake_from_halt
  <2>0. Shaped(c)
    BY CoreTypes
  <2>3. w = [c EXCEPT !.halted = FALSE, !.pc = pc]
    BY <2>1, <2>2, <2>0, InCore DEF Shaped
  <2>4. /\ Shaped(w) /\ w.pc = pc /\ ~w.halted
        /\ \A x \in CpuFields \ {"halted", "pc"} : w[x] = c[x]
    BY <2>3, <2>0, InCore DEF Shaped
  <2>5. \A x \in VisibleFields \ {"pc"} : w[x] = c[x]
    <3>1. VisibleFields \ {"pc"} \subseteq CpuFields \ {"halted", "pc"}
      BY SeenFields, InCore DEF VisibleFields
    <3> QED BY <2>4, <3>1
  <2>6. \A x \in VisibleFields : Visible(w)[x] = Visible(c)[x]
    BY <1>1, <2>1, <2>4, <2>5 DEF Visible
  <2>7. Visible(w) = Visible(c)
    BY <2>6 DEF Visible
  <2> QED BY <2>4, <2>7, InCore
<1>2. CASE ~c.halted
  BY <1>2 DEF wake_from_halt
<1> QED BY <1>1, <1>2

(* Accepting an interrupt wakes a halted core, and changes nothing else seen. *)
LEMMA AcceptLeaves ==
  ASSUME NEW c, Typed(c), c.prefix = 0, c.index = 0,
         NEW l \in BOOLEAN, NEW f \in BOOLEAN, NEW g \in BOOLEAN, NEW n \in InterruptSequences,
         NEW x, x = begin_interrupt(Put(Put(Put(wake_from_halt(c), "nmi_latched", l), "iff2", f),
           "iff1", g), n)
  PROVE  /\ Visible(x) = Visible(c) /\ ~x.halted /\ x.prefix = 0 /\ x.index = 0
         /\ x.instr = n /\ x.cycle = 0 /\ x.cycle_limit = Len(CyclesOf[n])
<1>1. PICK w : w = wake_from_halt(c)
  OBVIOUS
<1>2. Visible(w) = Visible(c) /\ ~w.halted /\ w.prefix = 0 /\ w.index = 0 /\ Shaped(w)
  BY <1>1, WakeLeaves, WokenTyped, Fields
<1>3. PICK y : y = Put(Put(Put(w, "nmi_latched", l), "iff2", f), "iff1", g)
  OBVIOUS
<1>4. Same(w, y, {"nmi_latched", "iff2", "iff1"})
  BY <1>2, <1>3, GetPut, InCore DEF Same
<1>5. PICK k : k = Len(CyclesOf[n])
  OBVIOUS
<1>6. x = [y EXCEPT !.instr = n, !.cycle = 0, !.cycle_limit = k, !.int_inhibit = FALSE]
  BY <1>1, <1>3, <1>5 DEF begin_interrupt
<1>7. Same(y, x, {"instr", "cycle", "cycle_limit", "int_inhibit"})
      /\ x.instr = n /\ x.cycle = 0 /\ x.cycle_limit = k
  BY <1>4, <1>6, InCore DEF Same, Shaped
<1>8. /\ {"nmi_latched", "iff2", "iff1"} \subseteq CpuFields \ (VisibleFields \union {"halted"})
      /\ {"instr", "cycle", "cycle_limit", "int_inhibit"}
           \subseteq CpuFields \ (VisibleFields \union {"halted"})
  BY InCore DEF VisibleFields
<1>9. Visible(y) = Visible(w) /\ y.halted = w.halted
  BY <1>4, <1>8, VisibleSame
<1>10. Visible(x) = Visible(y) /\ x.halted = y.halted
  BY <1>7, <1>8, VisibleSame
<1>11. x.prefix = w.prefix /\ x.index = w.index
  BY <1>4, <1>7, InCore DEF Same
<1> QED BY <1>2, <1>5, <1>7, <1>9, <1>10, <1>11
-----------------------------------------------------------------------------
(***************************************************************************)
(* What the specification foresees of an interrupt at the end of an        *)
(* instruction, LD A,I and LD A,R see.                                     *)
(***************************************************************************)

(* What LD A,I and LD A,R foresee is what happens: the effect of neither    *)
(* touches what the boundary looks at.                                      *)
Takes(c, int) == AcceptsNmi(c) \/ AcceptsInt(c, int)

LEMMA LoadsAKeeps ==
  ASSUME NEW p, Shaped(p), NEW n \in {"ed_ld_a_i", "ed_ld_a_r"}, NEW int,
         NEW r, r = Execute(n, p, int)
  PROVE  Same(p, r, {"a", "f", "pending"})
<1>1. r = RefreshEffect(n, p, int)
  BY Executes DEF Refreshes
<1>2. \E value, flags : r = [WriteFlags(p, flags) EXCEPT !.a = value]
  <2>1. CASE n = "ed_ld_a_i"
    BY <1>1, <2>1 DEF RefreshEffect, load_a_from_control_register
  <2>2. CASE n = "ed_ld_a_r"
    BY <1>1, <2>2 DEF RefreshEffect, load_a_from_control_register
  <2> QED BY <2>1, <2>2
<1>3. PICK value, flags : r = [WriteFlags(p, flags) EXCEPT !.a = value]
  BY <1>2
<1>4. PICK w : w = WriteFlags(p, flags)
  OBVIOUS
<1>5. Same(p, w, {"f", "pending"})
  BY <1>4, InCore DEF WriteFlags, Same, Shaped
<1>6. Same(w, r, {"a"})
  <2>1. r = [w EXCEPT !.a = value] /\ Shaped(w)
    BY <1>3, <1>4, <1>5 DEF Same
  <2> QED BY <2>1, InCore DEF Same, Shaped
<1> QED BY <1>5, <1>6 DEF Same

LEMMA OneIdle ==
  ASSUME NEW e, Typed(e), e.cycle = 0, NEW m, NEW d, NEW l, Complete(e, m, d, l),
         e.instr \in {"ed_ld_a_i", "ed_ld_a_r"}
  PROVE  Same(e, d, {"cycle"})
<1>1. After1(e, m, d, l)
  BY Came DEF Of1, Deciders, Instrs, EdInstrs
<1>2. OneCycle(e, m, d, l)
  BY <1>1 DEF After1
<1>3. CyclesOf[e.instr] = EdCycles(e.instr) /\ HooksOf[e.instr] = EdHooks(e.instr)
  BY GroupCycles, GroupHooks DEF Instrs, EdInstrs
<1>4. Enters(e, "idle1", "none", "none")
  <2>1. CASE e.instr = "ed_ld_a_i"
    BY <2>1, <1>3 DEF Enters, EdCycles, EdHooks, Idle, Idle1
  <2>2. CASE e.instr = "ed_ld_a_r"
    BY <2>2, <1>3 DEF Enters, EdCycles, EdHooks, Idle, Idle1
  <2> QED BY <2>1, <2>2
<1>5. d = Put(Exit("none", e), "cycle", e.cycle + 1)
  BY <1>2, <1>4, Idles DEF IdleCycles
<1>6. Shaped(e)
  BY CoreTypes
<1> QED BY <1>5, <1>6, Leaves

(* The specification's taken is what LD A,I and LD A,R see. *)
LEMMA Foresees ==
  ASSUME NEW e, Typed(e), e.cycle = 0, NEW m, NEW d, NEW l, Complete(e, m, d, l),
         Typed(d), d.instr = e.instr, e.instr # "prefix",
         NEW nmi \in BOOLEAN, NEW int \in BOOLEAN, NEW p, p = Pinned(d, nmi),
         NEW c, c = Finished(p, int),
         NEW ie, ie <=> (e.iff2 /\ ~Takes(c, int))
  PROVE  Sees(e, p, int, ie)
<1> SUFFICES ASSUME e.instr \in {"ed_ld_a_i", "ed_ld_a_r"} PROVE LoadsEnable(p, int, ie)
  BY DEF Sees
<1>1. PICK r : r = Execute(d.instr, p, int)
  OBVIOUS
<1>2. Same(d, p, {"nmi_latched"}) /\ Same(r, c, EndFields) /\ Typed(p)
  BY <1>1, EndLeaves
<1>3. Same(p, r, {"a", "f", "pending"})
  BY <1>1, <1>2, LoadsAKeeps, CoreTypes
<1>4. Same(e, d, {"cycle"})
  BY OneIdle
<1>5. /\ c.int_inhibit = r.int_inhibit /\ c.nmi_latched = r.nmi_latched /\ c.iff1 = r.iff1
  BY <1>2, InCore DEF Same, EndFields
<1>6. /\ r.int_inhibit = p.int_inhibit /\ r.nmi_latched = p.nmi_latched /\ r.iff1 = p.iff1
  BY <1>3, InCore DEF Same
<1>7. p.iff2 = e.iff2
  BY <1>2, <1>4, InCore DEF Same
<1>8. PICK x, y, z : x = p.int_inhibit /\ y = p.nmi_latched /\ z = p.iff1
  OBVIOUS
<1>9. c.int_inhibit = x /\ c.nmi_latched = y /\ c.iff1 = z
  BY <1>5, <1>6, <1>8
<1>10. Takes(c, int) <=> (~x /\ (y \/ (z /\ int)))
  BY <1>9 DEF Takes, AcceptsNmi, AcceptsInt
<1> QED BY <1>7, <1>8, <1>10 DEF LoadsEnable

(* The end of an instruction: what the step leaves, accepting an interrupt  *)
(* or not.                                                                  *)
Boundary(x, c, taken) ==
  /\ Visible(x) = Visible(c) /\ x.prefix = 0 /\ x.index = 0
  /\ Accepted(x) <=> taken
  /\ taken => /\ ~x.halted /\ x.cycle = 0 /\ x.cycle_limit = Len(CyclesOf[x.instr])
  /\ ~taken => x.instr = NoInstr /\ x.halted = c.halted /\ x.pc = c.pc

(* A step that ends an instruction has run its last cycle. *)
LEMMA StepEnds ==
  ASSUME Typed(cpu), Placed(cpu), ByteMemory(memory), EndPlain \/ AcceptNmi \/ AcceptInt
  PROVE  \E byte \in BusBytes, nmi \in BOOLEAN, int \in BOOLEAN :
           LET c == Settled(byte, nmi, int)
           IN /\ Completes(byte, nmi, int)
              /\ Boundary(cpu', c, Takes(c, int))
<1>1. PICK byte \in BusBytes, nmi \in BOOLEAN, int \in BOOLEAN :
        LET c == Settled(byte, nmi, int)
        IN /\ Completes(byte, nmi, int)
           /\ \/ ~Takes(c, int) /\ cpu' = [c EXCEPT !.int_inhibit = FALSE]
              \/ Takes(c, int) /\ cpu' = begin_interrupt([wake_from_halt(c) EXCEPT
                   !.nmi_latched = FALSE, !.iff2 = c.iff1, !.iff1 = FALSE], "nmi")
              \/ Takes(c, int) /\
                 cpu' = begin_interrupt([wake_from_halt(c) EXCEPT !.iff1 = FALSE, !.iff2 = FALSE],
                                 IF c.im = 2 THEN "interrupt_mode2" ELSE "interrupt")
  BY DEF EndPlain, AcceptNmi, AcceptInt, Takes
<1>2. PICK d : d = Ended(cpu, byte)
  OBVIOUS
<1>3. Typed(d) /\ d.instr # "prefix"
  BY <1>1, <1>2, BytesOnTheBus, EndedTyped DEF Completes
<1>4. PICK p, c : p = Pinned(d, nmi) /\ c = Finished(p, int)
  OBVIOUS
<1>5. c = Settled(byte, nmi, int)
  BY <1>2, <1>4 DEF Settled
<1>6. /\ Typed(c) /\ c.prefix = 0 /\ c.index = 0 /\ c.instr = NoInstr
  BY <1>3, <1>4, EndLeaves
<1>7. c.iff1 \in BOOLEAN
  BY <1>6 DEF Typed, BoolFields
<1>8. NoInstr \notin InterruptSequences
  BY DEF NoInstr, InterruptSequences
<1>9. CASE ~Takes(c, int) /\ cpu' = [c EXCEPT !.int_inhibit = FALSE]
  <2>1. PICK x : x = cpu'
    OBVIOUS
  <2>2. /\ Visible(x) = Visible(c) /\ x.halted = c.halted /\ x.pc = c.pc
        /\ x.prefix = 0 /\ x.index = 0 /\ x.instr = NoInstr
    BY <1>6, <1>9, <2>1, PlainLeaves
  <2>3. Boundary(x, c, Takes(c, int))
    BY <1>8, <1>9, <2>2 DEF Boundary, Accepted
  <2> QED BY <1>1, <1>5, <2>1, <2>3
<1>10. ASSUME Takes(c, int), NEW l \in BOOLEAN, NEW f \in BOOLEAN, NEW g \in BOOLEAN,
              NEW n \in InterruptSequences,
              cpu' = begin_interrupt(Put(Put(Put(wake_from_halt(c), "nmi_latched", l), "iff2", f),
                                         "iff1", g), n)
       PROVE  Boundary(cpu', c, Takes(c, int))
  <2>1. PICK x : x = cpu'
    OBVIOUS
  <2>2. /\ Visible(x) = Visible(c) /\ ~x.halted /\ x.prefix = 0 /\ x.index = 0
        /\ x.instr = n /\ x.cycle = 0 /\ x.cycle_limit = Len(CyclesOf[n])
    BY <1>6, <1>10, <2>1, AcceptLeaves
  <2>3. Boundary(x, c, Takes(c, int))
    BY <1>10, <2>2 DEF Boundary, Accepted
  <2> QED BY <2>1, <2>3
<1>11. CASE Takes(c, int) /\ cpu' = begin_interrupt([wake_from_halt(c) EXCEPT
                   !.nmi_latched = FALSE, !.iff2 = c.iff1, !.iff1 = FALSE], "nmi")
  <2>1. cpu' = begin_interrupt(Put(Put(Put(wake_from_halt(c), "nmi_latched", FALSE), "iff2",
          c.iff1),
                                   "iff1", FALSE), "nmi")
    BY <1>11 DEF Put
  <2>2. PICK no \in BOOLEAN : no = FALSE
    OBVIOUS
  <2>3. PICK n \in InterruptSequences : n = "nmi"
    BY DEF InterruptSequences
  <2>4. cpu' = begin_interrupt(Put(Put(Put(wake_from_halt(c), "nmi_latched", no), "iff2", c.iff1),
                                   "iff1", no), n)
    BY <2>1, <2>2, <2>3
  <2>5. Boundary(cpu', c, Takes(c, int))
    BY <1>7, <1>10, <1>11, <2>4
  <2> QED BY <1>1, <1>5, <2>5
<1>12. CASE Takes(c, int) /\
            cpu' = begin_interrupt([wake_from_halt(c) EXCEPT !.iff1 = FALSE, !.iff2 = FALSE],
                                 IF c.im = 2 THEN "interrupt_mode2" ELSE "interrupt")
  <2>1. PICK w : w = wake_from_halt(c)
    OBVIOUS
  <2>2. Typed(w)
    BY <1>6, <2>1, WokenTyped
  <2>3. w.nmi_latched \in BOOLEAN /\ Shaped(w)
    BY <2>2, Fields DEF BoolFields
  <2>4. PICK l \in BOOLEAN, no \in BOOLEAN : l = w.nmi_latched /\ no = FALSE
    BY <2>3
  <2>5. [w EXCEPT !.iff1 = FALSE, !.iff2 = FALSE]
          = Put(Put(Put(w, "nmi_latched", l), "iff2", no), "iff1", no)
    BY <2>3, <2>4, InCore DEF Put, Shaped
  <2>6. PICK n \in InterruptSequences : n = IF c.im = 2 THEN "interrupt_mode2" ELSE "interrupt"
    BY DEF InterruptSequences
  <2>7. cpu' = begin_interrupt(Put(Put(Put(wake_from_halt(c), "nmi_latched", l), "iff2", no),
                                   "iff1", no), n)
    BY <1>12, <2>1, <2>5, <2>6
  <2>8. Boundary(cpu', c, Takes(c, int))
    BY <1>10, <1>12, <2>7
  <2> QED BY <1>1, <1>5, <2>8
<1> QED BY <1>1, <1>5, <1>9, <1>11, <1>12
-----------------------------------------------------------------------------
(***************************************************************************)
(* The inductive invariant: where the core is in the instruction that the  *)
(* specification says is in progress (Story). Every step inside an         *)
(* instruction keeps it.                                                   *)
(***************************************************************************)

(* Where the core is in the instruction that began at s (a core and a       *)
(* memory).  It is about to fetch, its prefixes behind it, and if it is      *)
(* halted PC is on the HALT.                                                *)
AwaitsFetch(s, c, m) ==
  /\ m = s.memory /\ ~Accepted(s.cpu) /\ Alike(s.cpu, c)
  /\ \E j : Reading(Seen(s.cpu), m, c, j)
  /\ c.halted => c.prefix = 0 /\ c.index = 0 /\ OnHalt(m, c.pc)

(* Or e is what the fetch left, or what accepting an interrupt left.        *)
Began(s, e) ==
  \/ e = s.cpu /\ Accepted(e) /\ e.cycle = 0
  \/ /\ ~Accepted(s.cpu) /\ Alike(s.cpu, e)
     /\ \E j : Fetched(Seen(s.cpu), s.memory, e, j)

(* And the core is some cycles further, in the middle of one. *)
Proceeds(s, c, m) ==
  \E e, d : /\ Began(s, e) /\ ~e.halted /\ Partway(e, s.memory, d, m)
            /\ c = Begun(d) /\ d.instr = c.instr /\ d.cycle = c.cycle

(* In every reachable state one of the two holds. *)
Story ==
  /\ Typed(start.cpu) /\ ByteMemory(start.memory)
  /\ Fetching(cpu) => AwaitsFetch(start, cpu, memory)
  /\ ~Fetching(cpu) => Proceeds(start, cpu, memory)

(* No instruction in progress is none. *)
LEMMA NotNone == NoInstr \notin Instrs /\ NoInstr \notin InterruptSequences
BY DEF NoInstr, Instrs, FetchOnly, IndexedInstrs, EdInstrs, BlockInstrs, LoadInstrs,
       ArithmeticInstrs, ControlInstrs, InterruptSequences

(* What begins at a fetch. *)
LEMMA BeginsAtFetch ==
  ASSUME NEW c, Typed(c), Fetching(c), c.prefix = 0, c.index = 0, NEW m,
         c.halted => OnHalt(m, c.pc), NEW s, s = [cpu |-> c, memory |-> m]
  PROVE  AwaitsFetch(s, c, m)
<1>1. s.cpu = c /\ s.memory = m
  OBVIOUS
<1>2. Regs(Seen(c))
  <2>1. c.pc \in Word /\ c.r \in Byte
    BY CoreTypes
  <2>2. Seen(c).pc = c.pc /\ Seen(c).r = c.r
    BY SeenFields DEF Seen
  <2>3. Seen(c) = [x \in VisibleFields |-> Seen(c)[x]]
    BY DEF Seen
  <2> QED BY <2>1, <2>2, <2>3 DEF Regs
<1>3. Reading(Seen(c), m, c, 0)
  <2>1. Seen(c) = Manual!Read(Seen(c), 0, 0)
    BY <1>2, ReadNothing
  <2>2. Chain(Seen(c).pc, m, 0, c.prefix, c.index)
    BY DEF Chain, CB, ED
  <2> QED BY <1>2, <2>1, <2>2 DEF Reading
<1>4. ~Accepted(c)
  BY NotNone DEF Accepted, Fetching
<1>5. Alike(c, c)
  BY DEF Alike
<1> QED BY <1>1, <1>3, <1>4, <1>5 DEF AwaitsFetch

(* What begins when an interrupt is accepted. *)
LEMMA BeginsAtInterrupt ==
  ASSUME NEW c, Typed(c), Accepted(c), c.cycle = 0, c.cycle_limit = Len(CyclesOf[c.instr]),
         ~c.halted, NEW m, NEW s, s = [cpu |-> c, memory |-> m]
  PROVE  Proceeds(s, c, m)
<1>1. s.cpu = c /\ s.memory = m
  OBVIOUS
<1>2. c.instr \in InterruptSequences /\ c.instr \in Instrs
  BY DEF Accepted, Instrs
<1>3. HooksOf[c.instr] = InterruptHooks(c.instr)
  BY <1>2, GroupHooks
<1>4. HooksAt(c)[1] = "none"
  <2>1. HooksAt(c) = InterruptHooks(c.instr)[1]
    BY <1>3 DEF HooksAt
  <2> QED BY <1>2, <2>1 DEF InterruptHooks, InterruptSequences, Idle, On
<1>5. Begun(c) = c
  <2>1. Enter("none", c) = c
    BY CoreTypes, EnterReads
  <2> QED BY <1>4, <2>1 DEF Begun
<1>6. GoesOn(c)
  BY <1>2, ShapeType DEF GoesOn
<1>7. Partway(c, m, c, m)
  BY <1>2, <1>6 DEF Partway, Ran
<1>8. Began(s, c)
  BY <1>1 DEF Began
<1> QED BY <1>1, <1>5, <1>7, <1>8 DEF Proceeds

(* What a fetch reads is in memory, and memory stays as it is. *)
LEMMA FetchedByte ==
  ASSUME Typed(cpu), Fetching(cpu), NEW byte \in BusBytes, Stores
  PROVE  byte = Manual!Peek(memory, cpu.pc) /\ memory' = memory
<1>1. Kind(cpu) = "m1_fetch" /\ Address(cpu) = cpu.pc
  BY DEF Kind, Address
<1>2. byte = ByteAt(cpu.pc)
  BY <1>1 DEF BusBytes
<1>3. cpu.pc % 65536 = cpu.pc
  BY CoreTypes DEF Word, Alu!Word
<1> QED BY <1>1, <1>2, <1>3 DEF Manual!Peek, ByteAt, Stores

(* The next cycle keeps the cursor where the end of the last one left it. *)
LEMMA BegunKeeps ==
  ASSUME NEW e, Typed(e), e.instr \in Instrs, GoesOn(e), e.cycle_limit <= Len(CyclesOf[e.instr])
  PROVE  Begun(e).instr = e.instr /\ Begun(e).cycle = e.cycle
<1>1. e.cycle \in Nat /\ e.cycle_limit \in Nat /\ Len(CyclesOf[e.instr]) \in Nat
  BY ShapeType DEF Typed
<1>2. e.cycle < Len(CyclesOf[e.instr])
  BY <1>1 DEF GoesOn
<1>3. HooksAt(e)[1] \in EnterHooks
  BY <1>1, <1>2, HooksType DEF HooksAt, HooksFor
<1>4. Begun(e) = Enter(HooksAt(e)[1], e)
  BY DEF Begun
<1>5. Onto(e, Begun(e))
  BY <1>3, <1>4, EnterTyped
<1> QED BY <1>5 DEF Onto, Cursor

(* A HALT that is fetched again is the same HALT. *)
LEMMA HaltAgain ==
  ASSUME NEW c, c.prefix = 0, c.index = 0, NEW m, OnHalt(m, c.pc), NEW byte,
         byte = Manual!Peek(m, c.pc)
  PROVE  Decode(byte, c.prefix, c.index) = "halt"
<1>1. PICK o \in Byte : o = 118
  BY DEF Byte
<1>2. byte = o
  BY <1>1 DEF OnHalt
<1>3. Decode(o, c.prefix, c.index) = DecodeBase(o)
  BY DEF Decode, CB, ED, DD, FD
<1>4. X(o) = 1 /\ Y(o) = 6 /\ Z(o) = 6
  BY <1>1 DEF X, Y, Z
<1>5. DecodeBase(o) = "halt"
  BY <1>1, <1>4 DEF DecodeBase, DecodeX1
<1> QED BY <1>2, <1>3, <1>5

(* A fetch that is not the end, nor a prefix. *)
LEMMA FetchGoesOn ==
  ASSUME CoreInv, Story, Fetching(cpu), NextCycle, Observes
  PROVE  Story'
<1>1. Typed(cpu) /\ Placed(cpu) /\ ByteMemory(memory)
  BY DEF CoreInv
<1>2. PICK byte \in BusBytes : /\ GoesOn(Ended(cpu, byte)) /\ cpu' = Begun(Ended(cpu, byte))
                               /\ Stores
  BY DEF NextCycle
<1>3. byte = Manual!Peek(memory, cpu.pc) /\ memory' = memory
  BY <1>1, <1>2, FetchedByte
<1>4. PICK e : e = Ended(cpu, byte)
  OBVIOUS
<1>5. AwaitsFetch(start, cpu, memory) /\ Typed(start.cpu) /\ ByteMemory(start.memory)
  BY DEF Story
<1>6. PICK j : Reading(Seen(start.cpu), memory, cpu, j)
  BY <1>5 DEF AwaitsFetch
<1>7. /\ Typed(e) /\ e.instr = Decode(byte, cpu.prefix, cpu.index) /\ e.cycle = 0
      /\ e.cycle_limit = Len(CyclesOf[e.instr]) /\ e.instr \in Instrs \ InterruptSequences
      /\ Alike(cpu, e) /\ e.halted = cpu.halted
      /\ e.instr # "prefix" => Fetched(Seen(start.cpu), memory, e, j)
  BY <1>1, <1>3, <1>4, <1>6, FetchReads
<1>8. e.instr \notin FetchOnly
  <2>1. Len(CyclesOf[e.instr]) # 0
    BY <1>2, <1>4, <1>7 DEF GoesOn
  <2> QED BY <1>7, <2>1, GroupCycles
<1>9. e.instr # "prefix" /\ e.instr # "halt"
  BY <1>8 DEF FetchOnly
<1>10. ~e.halted
  <2> SUFFICES ASSUME cpu.halted PROVE FALSE
    BY <1>1, <1>7
  <2>1. cpu.prefix = 0 /\ cpu.index = 0 /\ OnHalt(memory, cpu.pc)
    BY <1>5 DEF AwaitsFetch
  <2>2. Decode(byte, cpu.prefix, cpu.index) = "halt"
    BY <1>3, <2>1, HaltAgain
  <2> QED BY <1>7, <1>9, <2>2
<1>11. GoesOn(e) /\ cpu' = Begun(e)
  BY <1>2, <1>4
<1>12. Partway(e, memory, e, memory)
  BY <1>7, <1>11 DEF Partway, Ran
<1>13. Began(start, e)
  BY <1>5, <1>7, <1>9 DEF Began, AwaitsFetch, Alike
<1>14. Begun(e).instr = e.instr /\ Begun(e).cycle = e.cycle
  <2>1. e.cycle_limit <= Len(CyclesOf[e.instr])
    BY <1>7, ShapeType
  <2> QED BY <1>7, <1>11, <2>1, BegunKeeps
<1>15. ~Fetching(cpu') /\ ~AtBoundary(cpu')
  <2>1. byte \in Byte
    BY <1>1, BytesOnTheBus
  <2>2. /\ ~Fetching(cpu')
        /\ cpu'.instr \in InterruptSequences => cpu'.cycle # 0
    BY <1>1, <1>2, <2>1, BegunTyped
  <2> QED BY <2>2 DEF AtBoundary
<1>16. start' = start
  BY <1>15 DEF Observes
<1>17. Proceeds(start, cpu', memory')
  <2>1. memory = start.memory
    BY <1>5 DEF AwaitsFetch
  <2>2. Partway(e, start.memory, e, memory')
    BY <1>3, <1>12, <2>1
  <2> QED BY <1>10, <1>11, <1>13, <1>14, <2>2 DEF Proceeds
<1>18. ~Fetching(cpu)' /\ Proceeds(start, cpu, memory)'
  BY <1>15, <1>16, <1>17 DEF Fetching
<1> QED BY <1>5, <1>16, <1>18 DEF Story

(* A later cycle that is not the end. *)
LEMMA CycleGoesOn ==
  ASSUME CoreInv, Story, ~Fetching(cpu), NextCycle, Observes
  PROVE  Story'
<1>1. Typed(cpu) /\ Placed(cpu) /\ ByteMemory(memory)
  BY DEF CoreInv
<1>2. PICK byte \in BusBytes : /\ GoesOn(Ended(cpu, byte)) /\ cpu' = Begun(Ended(cpu, byte))
                               /\ Stores
  BY DEF NextCycle
<1>3. Proceeds(start, cpu, memory) /\ Typed(start.cpu) /\ ByteMemory(start.memory)
  BY DEF Story
<1>4. PICK e, d : /\ Began(start, e) /\ ~e.halted /\ Partway(e, start.memory, d, memory)
                  /\ cpu = Begun(d) /\ d.instr = cpu.instr /\ d.cycle = cpu.cycle
  BY <1>3 DEF Proceeds
<1>5. Typed(d)
  BY <1>4 DEF Partway
<1>6. PICK f : f = Ended(cpu, byte)
  OBVIOUS
<1>7. OneCycle(d, memory, f, memory')
  BY <1>1, <1>2, <1>4, <1>5, <1>6, CycleOfAStep
<1>8. Partway(e, start.memory, f, memory')
  BY <1>2, <1>4, <1>6, <1>7, NextIsPartway
<1>9. Begun(f).instr = f.instr /\ Begun(f).cycle = f.cycle
  <2>1. Typed(f) /\ f.instr \in Instrs /\ f.cycle_limit = Len(CyclesOf[f.instr]) /\ GoesOn(f)
    BY <1>8 DEF Partway
  <2>2. f.cycle_limit <= Len(CyclesOf[f.instr])
    BY <2>1, ShapeType
  <2> QED BY <2>1, <2>2, BegunKeeps
<1>10. ~Fetching(cpu') /\ ~AtBoundary(cpu')
  <2>1. byte \in Byte
    BY <1>1, BytesOnTheBus
  <2>2. /\ ~Fetching(cpu')
        /\ cpu'.instr \in InterruptSequences => cpu'.cycle # 0
    BY <1>1, <1>2, <2>1, BegunTyped
  <2> QED BY <2>2 DEF AtBoundary
<1>11. start' = start
  BY <1>10 DEF Observes
<1>12. cpu' = Begun(f)
  BY <1>2, <1>6
<1>13. Proceeds(start, cpu', memory')
  BY <1>4, <1>8, <1>9, <1>12 DEF Proceeds
<1>14. ~Fetching(cpu)' /\ Proceeds(start, cpu, memory)'
  BY <1>10, <1>11, <1>13 DEF Fetching
<1> QED BY <1>3, <1>11, <1>14 DEF Story

(* A prefix. *)
LEMMA PrefixGoesOn ==
  ASSUME CoreInv, Story, EndPrefix, Observes
  PROVE  Story'
<1>1. Typed(cpu) /\ Placed(cpu) /\ ByteMemory(memory)
  BY DEF CoreInv
<1>2. PICK byte \in BusBytes : /\ Ended(cpu, byte).instr = "prefix"
                               /\ cpu' = BackToFetch(execute_prefix(Ended(cpu, byte)))
                               /\ Stores
  BY DEF EndPrefix
<1>3. Fetching(cpu) /\ Typed(cpu') /\ Fetching(cpu')
  BY <1>1, <1>2, BytesOnTheBus, PrefixTyped
<1>4. byte = Manual!Peek(memory, cpu.pc) /\ memory' = memory
  BY <1>1, <1>2, <1>3, FetchedByte
<1>5. PICK e : e = Ended(cpu, byte)
  OBVIOUS
<1>6. AwaitsFetch(start, cpu, memory) /\ Typed(start.cpu) /\ ByteMemory(start.memory)
  BY <1>3 DEF Story
<1>7. PICK j : Reading(Seen(start.cpu), memory, cpu, j)
  BY <1>6 DEF AwaitsFetch
<1>8. PICK s : s = Seen(start.cpu)
  OBVIOUS
<1>9. /\ Typed(e) /\ e.instr = Decode(byte, cpu.prefix, cpu.index)
      /\ Seen(e) = Manual!Read(s, j + 1, j + 1)
      /\ e.opcode = byte /\ byte = Manual!Peek(memory, s.pc + j)
      /\ Chain(s.pc, memory, j, e.prefix, e.index)
      /\ Alike(cpu, e) /\ e.halted = cpu.halted
      /\ e.instr = "prefix" => /\ e.prefix = 0 /\ byte \in {CB, DD, ED, FD}
                               /\ e.index # 0 => byte # CB
  BY <1>1, <1>3, <1>4, <1>5, <1>7, <1>8, FetchReads
<1>10. PICK d : d = BackToFetch(execute_prefix(e))
  OBVIOUS
<1>11. Regs(s) /\ j \in Nat
  BY <1>7, <1>8 DEF Reading
<1>12. Reading(s, memory, d, j + 1) /\ Alike(e, d) /\ d.halted = e.halted
  <2>1. e.prefix = 0 /\ e.opcode \in {CB, DD, ED, FD} /\ (e.index # 0 => e.opcode # CB)
    BY <1>2, <1>5, <1>9
  <2> QED BY <1>9, <1>10, <1>11, <2>1, PrefixReads
<1>13. ~cpu.halted
  <2> SUFFICES ASSUME cpu.halted PROVE FALSE
    OBVIOUS
  <2>1. cpu.prefix = 0 /\ cpu.index = 0 /\ OnHalt(memory, cpu.pc)
    BY <1>6 DEF AwaitsFetch
  <2>2. Decode(byte, cpu.prefix, cpu.index) = "halt"
    BY <1>4, <2>1, HaltAgain
  <2>3. e.instr = "halt"
    BY <1>9, <2>2
  <2> QED BY <1>2, <1>5, <2>3
<1>14. cpu' = d
  BY <1>2, <1>5, <1>10
<1>15. ~AtBoundary(cpu')
  <2>1. d.prefix # 0 \/ d.index # 0
    <3>1. PICK k : k = j + 1 /\ k \in Nat /\ k # 0
      BY <1>11
    <3>2. Chain(s.pc, memory, k, d.prefix, d.index)
      BY <1>12, <3>1 DEF Reading
    <3>3. d.prefix = 0 => d.index = Manual!Peek(memory, s.pc + k - 1)
      BY <3>1, <3>2 DEF Chain
    <3>4. d.prefix = 0 => Manual!Peek(memory, s.pc + (k - 1)) \in {DD, FD}
      BY <3>1, <3>2 DEF Chain
    <3>5. s.pc + k - 1 = s.pc + (k - 1)
      BY <1>11, <3>1 DEF Regs, Word, Alu!Word
    <3> QED BY <3>3, <3>4, <3>5 DEF DD, FD
  <2> QED BY <1>14, <2>1 DEF AtBoundary
<1>16. start' = start
  BY <1>15 DEF Observes
<1>17. AwaitsFetch(start, cpu', memory')
  BY <1>4, <1>6, <1>8, <1>9, <1>12, <1>13, <1>14 DEF AwaitsFetch, Alike
<1>18. Fetching(cpu)' /\ AwaitsFetch(start, cpu, memory)'
  BY <1>3, <1>16, <1>17 DEF Fetching
<1> QED BY <1>6, <1>16, <1>18 DEF Story
-----------------------------------------------------------------------------
(***************************************************************************)
(* The last step of an instruction leaves what the manual says.            *)
(***************************************************************************)

(* The end of an instruction, or of an interrupt's sequence. *)
LEMMA ComesToEnd ==
  ASSUME CoreInv, Story, NEW byte \in BusBytes, Stores, NEW d, d = Ended(cpu, byte),
         ~GoesOn(d), d.instr # "prefix"
  PROVE  \E e : /\ Began(start, e) /\ Typed(e) /\ e.cycle = 0
                /\ Typed(d) /\ d.instr = e.instr /\ d.halted = e.halted
                /\ Complete(e, start.memory, d, memory')
                /\ e.halted => e.instr = "halt"
<1>1. Typed(cpu) /\ Placed(cpu) /\ ByteMemory(memory)
  BY DEF CoreInv
<1>2. CASE Fetching(cpu)
  <2>1. byte = Manual!Peek(memory, cpu.pc) /\ memory' = memory
    BY <1>1, <1>2, FetchedByte
  <2>2. AwaitsFetch(start, cpu, memory)
    BY <1>2 DEF Story
  <2>3. PICK j : Reading(Seen(start.cpu), memory, cpu, j)
    BY <2>2 DEF AwaitsFetch
  <2>4. /\ Typed(d) /\ d.instr = Decode(byte, cpu.prefix, cpu.index) /\ d.cycle = 0
        /\ d.cycle_limit = Len(CyclesOf[d.instr]) /\ d.instr \in Instrs
        /\ Alike(cpu, d) /\ d.halted = cpu.halted
        /\ Fetched(Seen(start.cpu), memory, d, j)
    BY <1>1, <1>2, <2>1, <2>3, FetchReads
  <2>5. d.halted => d.instr = "halt"
    <3> SUFFICES ASSUME cpu.halted PROVE d.instr = "halt"
      BY <2>4
    <3>1. cpu.prefix = 0 /\ cpu.index = 0 /\ OnHalt(memory, cpu.pc)
      BY <2>2 DEF AwaitsFetch
    <3>2. Decode(byte, cpu.prefix, cpu.index) = "halt"
      BY <2>1, <3>1, HaltAgain
    <3> QED BY <2>4, <3>2
  <2>6. Began(start, d)
    BY <2>2, <2>4 DEF Began, AwaitsFetch, Alike
  <2>7. Complete(d, memory, d, memory')
    <3>1. Len(CyclesOf[d.instr]) = 0
      BY <2>4, ShapeType DEF GoesOn
    <3>2. Ran(0, d, memory, d, memory')
      BY <2>1 DEF Ran
    <3> QED BY <2>4, <3>1, <3>2 DEF Complete
  <2>8. memory = start.memory
    BY <2>2 DEF AwaitsFetch
  <2>9. Complete(d, start.memory, d, memory')
    BY <2>7, <2>8
  <2> QED BY <2>4, <2>5, <2>6, <2>9
<1>3. CASE ~Fetching(cpu)
  <2>1. Proceeds(start, cpu, memory)
    BY <1>3 DEF Story
  <2>2. PICK e, c : /\ Began(start, e) /\ ~e.halted /\ Partway(e, start.memory, c, memory)
                    /\ cpu = Begun(c) /\ c.instr = cpu.instr /\ c.cycle = cpu.cycle
    BY <2>1 DEF Proceeds
  <2>3. Typed(c) /\ Typed(e) /\ c.instr = e.instr
    BY <2>2 DEF Partway
  <2>4. OneCycle(c, memory, d, memory')
    BY <1>1, <1>3, <2>2, <2>3, CycleOfAStep
  <2>5. d.halted = e.halted /\ Complete(e, start.memory, d, memory')
    BY <2>2, <2>4, NextIsPartway
  <2>6. Typed(d) /\ d.instr = e.instr
    BY <2>3, <2>4 DEF OneCycle
  <2>7. e.cycle = 0
    BY <2>2 DEF Began, Fetched
  <2> QED BY <2>2, <2>3, <2>5, <2>6, <2>7
<1> QED BY <1>2, <1>3

(* The promise for a core and a memory at which an instruction began.       *)
PromiseHolds(s, x, m, taken) ==
  \E port \in PortBytes, vector \in Vectors :
    IF Accepted(s.cpu)
    THEN Gives(x, m, Manual!Interrupt(Seen(s.cpu), s.memory, Handler(s.cpu, s.memory, vector)))
    ELSE \E ie : /\ ie = (s.cpu.iff2 /\ ~taken)
                 /\ Gives(x, m, Manual!Instruction(Seen(s.cpu), s.memory, port, s.cpu.q, s.cpu.wz,
                      ie))

(* At the end of an instruction the promise is kept. *)
LEMMA EndKeeps ==
  ASSUME CoreInv, Story, EndPlain \/ AcceptNmi \/ AcceptInt
  PROVE  /\ PromiseHolds(start, cpu', memory', Accepted(cpu'))
         /\ cpu'.halted => OnHalt(memory', cpu'.pc)
         /\ cpu'.prefix = 0 /\ cpu'.index = 0
         /\ Accepted(cpu') => /\ ~cpu'.halted /\ cpu'.cycle = 0
                              /\ cpu'.cycle_limit = Len(CyclesOf[cpu'.instr])
         /\ ~Accepted(cpu') => Fetching(cpu')
<1>1. Typed(cpu) /\ Placed(cpu) /\ ByteMemory(memory) /\ ByteMemory(start.memory)
      /\ Typed(start.cpu)
  BY DEF CoreInv, Story
<1>2. PICK byte \in BusBytes, nmi \in BOOLEAN, int \in BOOLEAN :
           LET c == Settled(byte, nmi, int)
           IN /\ Completes(byte, nmi, int)
              /\ Boundary(cpu', c, Takes(c, int))
  BY <1>1, StepEnds
<1>3. PICK d : d = Ended(cpu, byte)
  OBVIOUS
<1>4. ~GoesOn(d) /\ d.instr # "prefix" /\ Stores
  BY <1>2, <1>3 DEF Completes
<1>5. PICK e : /\ Began(start, e) /\ Typed(e) /\ e.cycle = 0
               /\ Typed(d) /\ d.instr = e.instr /\ d.halted = e.halted
               /\ Complete(e, start.memory, d, memory')
               /\ e.halted => e.instr = "halt"
  BY <1>3, <1>4, ComesToEnd
<1>6. PICK p : p = Pinned(d, nmi)
  OBVIOUS
<1>7. PICK c : c = Finished(p, int)
  OBVIOUS
<1>8. PICK r : r = Execute(e.instr, p, int)
  OBVIOUS
<1>9. c = Settled(byte, nmi, int)
  BY <1>3, <1>6, <1>7 DEF Settled
<1>10. Boundary(cpu', c, Takes(c, int))
  BY <1>2, <1>9
<1>11. /\ Typed(p) /\ Same(d, p, {"nmi_latched"})
       /\ Visible(c) = Visible(r) /\ c.halted = r.halted /\ c.pc = r.pc
  BY <1>4, <1>5, <1>6, <1>7, <1>8, EndLeaves
<1>12. PICK x, l, m : x = cpu' /\ l = memory' /\ m = start.memory
  OBVIOUS
<1>13. PICK taken \in BOOLEAN : taken <=> Takes(c, int)
  OBVIOUS
<1>14. /\ Visible(x) = Visible(r) /\ x.prefix = 0 /\ x.index = 0 /\ (Accepted(x) <=> taken)
       /\ taken => /\ ~x.halted /\ x.cycle = 0 /\ x.cycle_limit = Len(CyclesOf[x.instr])
       /\ ~taken => x.instr = NoInstr /\ x.halted = r.halted /\ x.pc = r.pc
  BY <1>10, <1>11, <1>12, <1>13 DEF Boundary
<1>15. PICK port \in PortBytes, vector \in Vectors : TRUE
  BY RegistersAssumption
<1>16. ASSUME Accepted(start.cpu)
       PROVE  PromiseHolds(start, x, l, Accepted(x)) /\ ~r.halted
  <2>1. e = start.cpu /\ e.instr \in InterruptSequences
    BY <1>5, <1>16 DEF Began, Accepted
  <2>2. ~e.halted
    BY <1>5, <2>1 DEF InterruptSequences
  <2>3. Complete(e, m, d, l) /\ ByteMemory(m)
    BY <1>1, <1>5, <1>12
  <2>4. /\ \E v \in Vectors :
             Gives(Execute(e.instr, p, int), l, Manual!Interrupt(Seen(e), m, Handler(e, m, v)))
        /\ ~Execute(e.instr, p, int).halted
    BY <1>5, <1>11, <2>1, <2>2, <2>3, InterruptGiven
  <2>5. PICK v \in Vectors : Gives(r, l, Manual!Interrupt(Seen(e), m, Handler(e, m, v)))
    BY <1>8, <2>4
  <2>6. Gives(x, l, Manual!Interrupt(Seen(e), m, Handler(e, m, v)))
    BY <1>14, <2>5 DEF Gives
  <2>7. Gives(x, l, Manual!Interrupt(Seen(start.cpu), start.memory,
                                     Handler(start.cpu, start.memory, v)))
    BY <1>12, <2>1, <2>6
  <2>8. PromiseHolds(start, x, l, Accepted(x))
    BY <1>15, <1>16, <2>7 DEF PromiseHolds
  <2> QED BY <1>8, <2>4, <2>8
<1>17. ASSUME ~Accepted(start.cpu)
       PROVE  /\ PromiseHolds(start, x, l, Accepted(x))
              /\ r.halted => OnHalt(l, r.pc)
  <2>1. Alike(start.cpu, e)
    BY <1>5, <1>17 DEF Began
  <2>2. PICK j : Fetched(Seen(start.cpu), start.memory, e, j)
    BY <1>5, <1>17 DEF Began
  <2>3. PICK s : s = Seen(start.cpu)
    OBVIOUS
  <2>4. Fetched(s, m, e, j) /\ Complete(e, m, d, l)
    BY <1>5, <1>12, <2>2, <2>3
  <2>5. PICK ie : ie = (start.cpu.iff2 /\ ~Accepted(x))
    OBVIOUS
  <2>6. e.iff2 = start.cpu.iff2 /\ e.q = start.cpu.q /\ e.wz = start.cpu.wz
    BY <2>1 DEF Alike
  <2>7. ie <=> (e.iff2 /\ ~Takes(c, int))
    BY <1>13, <1>14, <2>5, <2>6
  <2>8. Sees(e, p, int, ie)
    <3>1. e.instr # "prefix"
      BY <1>4, <1>5
    <3> QED BY <1>5, <1>6, <1>7, <2>4, <2>7, <3>1, Foresees
  <2>9. /\ \E answer \in PortBytes :
              Gives(Execute(e.instr, p, int), l, Manual!Instruction(s, m, answer, e.q, e.wz, ie))
        /\ Execute(e.instr, p, int).halted => OnHalt(l, Execute(e.instr, p, int).pc)
    BY <1>5, <1>11, <2>4, <2>8, InstructionGiven
  <2>10. PICK o \in PortBytes : Gives(r, l, Manual!Instruction(s, m, o, e.q, e.wz, ie))
    BY <1>8, <2>9
  <2>11. Gives(x, l, Manual!Instruction(s, m, o, e.q, e.wz, ie))
    BY <1>14, <2>10 DEF Gives
  <2>12. Gives(x, l, Manual!Instruction(Seen(start.cpu), start.memory, o, start.cpu.q,
                                        start.cpu.wz, ie))
    BY <1>12, <2>3, <2>6, <2>11
  <2>13. PromiseHolds(start, x, l, Accepted(x))
    BY <1>15, <1>17, <2>5, <2>12 DEF PromiseHolds
  <2> QED BY <1>8, <2>9, <2>13
<1>18. PromiseHolds(start, x, l, Accepted(x)) /\ (r.halted => OnHalt(l, r.pc))
  BY <1>16, <1>17
<1>19. ~Accepted(x) => Fetching(x)
  BY <1>14 DEF Fetching
<1>20. x.halted => OnHalt(l, x.pc)
  <2>1. CASE taken
    BY <1>14, <2>1
  <2>2. CASE ~taken
    BY <1>14, <1>18, <2>2
  <2> QED BY <2>1, <2>2
<1> QED BY <1>12, <1>14, <1>18, <1>19, <1>20
-----------------------------------------------------------------------------
(***************************************************************************)
(* What the host does between instructions, and the theorem.               *)
(***************************************************************************)

(* A new beginning, whoever brought it about. *)
LEMMA NewStory ==
  ASSUME CoreInv', start' = [cpu |-> cpu', memory |-> memory'],
         cpu'.prefix = 0, cpu'.index = 0, cpu'.halted => OnHalt(memory', cpu'.pc),
         Accepted(cpu') => /\ ~cpu'.halted /\ cpu'.cycle = 0
                           /\ cpu'.cycle_limit = Len(CyclesOf[cpu'.instr]),
         ~Accepted(cpu') => Fetching(cpu')
  PROVE  Story'
<1>1. PICK x, l, s : x = cpu' /\ l = memory' /\ s = start'
  OBVIOUS
<1>2. Typed(x) /\ ByteMemory(l)
  BY <1>1 DEF CoreInv
<1>3. s = [cpu |-> x, memory |-> l]
  BY <1>1
<1>4. Typed(s.cpu) /\ ByteMemory(s.memory)
  BY <1>2, <1>3
<1>5. Fetching(x) => AwaitsFetch(s, x, l)
  <2> SUFFICES ASSUME Fetching(x) PROVE AwaitsFetch(s, x, l)
    OBVIOUS
  <2>1. x.prefix = 0 /\ x.index = 0 /\ (x.halted => OnHalt(l, x.pc))
    BY <1>1
  <2> QED BY <1>2, <1>3, <2>1, BeginsAtFetch
<1>6. ~Fetching(x) => Proceeds(s, x, l)
  <2> SUFFICES ASSUME ~Fetching(x) PROVE Proceeds(s, x, l)
    OBVIOUS
  <2>1. /\ Accepted(x) /\ ~x.halted /\ x.cycle = 0
        /\ x.cycle_limit = Len(CyclesOf[x.instr])
    BY <1>1
  <2> QED BY <1>2, <1>3, <2>1, BeginsAtInterrupt
<1> QED BY <1>1, <1>4, <1>5, <1>6 DEF Story, Fetching

(* And the next story begins there. *)
LEMMA EndStory ==
  ASSUME CoreInv, Story, EndPlain \/ AcceptNmi \/ AcceptInt, Observes, CoreInv'
  PROVE  Story'
<1>1. /\ cpu'.halted => OnHalt(memory', cpu'.pc)
      /\ cpu'.prefix = 0 /\ cpu'.index = 0
      /\ Accepted(cpu') => /\ ~cpu'.halted /\ cpu'.cycle = 0
                           /\ cpu'.cycle_limit = Len(CyclesOf[cpu'.instr])
      /\ ~Accepted(cpu') => Fetching(cpu')
  BY EndKeeps
<1>2. AtBoundary(cpu')
  BY <1>1 DEF AtBoundary, Accepted
<1>3. start' = [cpu |-> cpu', memory |-> memory']
  BY <1>2 DEF Observes
<1> QED BY <1>1, <1>3, NewStory

(* A restart or a debugger's write begins a new one. *)
LEMMA HostStory ==
  ASSUME CoreInv, Story, Hosts, Forgets, CoreInv'
  PROVE  Story'
<1>1. Typed(cpu) /\ start' = [cpu |-> cpu', memory |-> memory']
  BY DEF CoreInv, Forgets
<1>2. CASE HostResets
  <2>1. cpu' = apply_reset(cpu)
    BY <1>2 DEF HostResets
  <2>2. cpu'.instr = NoInstr /\ cpu'.prefix = 0 /\ cpu'.index = 0
    BY <1>1, <2>1, ResetFields
  <2>3. ~cpu'.halted
    <3>1. Shaped(cpu)
      BY <1>1, CoreTypes
    <3>2. PICK e : e = [cpu EXCEPT !.pc = 0, !.i = 0, !.r = 0, !.im = 0, !.iff1 = FALSE,
                              !.iff2 = FALSE, !.halted = FALSE]
      OBVIOUS
    <3>3. cpu' = [e EXCEPT !.nmi_latched = FALSE, !.int_inhibit = FALSE, !.prefix = 0, !.index = 0,
                    !.instr = NoInstr, !.cycle = 0, !.cycle_limit = 0]
      BY <2>1, <3>2 DEF apply_reset
    <3>4. Shaped(e) /\ ~e.halted
      BY <3>1, <3>2, InCore DEF Shaped
    <3>5. cpu'.halted = e.halted
      BY <3>3, <3>4, InCore DEF Shaped
    <3> QED BY <3>4, <3>5
  <2>4. Fetching(cpu') /\ ~Accepted(cpu')
    BY <2>2, NotNone DEF Fetching, Accepted
  <2> QED BY <1>1, <2>2, <2>3, <2>4, NewStory
<1>3. CASE HostSets
  <2>1. PICK which \in Named \union {"ir"}, word \in DebugWords :
          cpu' = z80_set(cpu, which, word) /\ (which = "pc" => ~cpu.halted)
    BY <1>3 DEF HostSets
  <2>2. Fetching(cpu) /\ cpu.index = 0 /\ cpu.prefix = 0 /\ memory' = memory
    BY <1>3 DEF HostSets
  <2>3. Onto(cpu, cpu')
    BY <1>1, <2>1, RegistersAssumption, SetTyped DEF Word
  <2>4. /\ cpu'.instr = cpu.instr /\ cpu'.prefix = cpu.prefix /\ cpu'.index = cpu.index
    BY <2>3 DEF Onto, Cursor
  <2>5. cpu'.halted = cpu.halted /\ (which # "pc" => cpu'.pc = cpu.pc)
    <3>1. Shaped(cpu)
      BY <1>1, CoreTypes
    <3>2. CASE which = "ir"
      <4>1. cpu' = Put(Put(cpu, "i", High(word)), "r", Low(word))
        BY <2>1, <3>2 DEF z80_set, Put
      <4>2. Shaped(Put(cpu, "i", High(word))) /\ Put(cpu, "i", High(word)).pc = cpu.pc
            /\ Put(cpu, "i", High(word)).halted = cpu.halted
        BY <3>1, GetPut, InCore
      <4> QED BY <4>1, <4>2, GetPut, InCore
    <3>3. CASE which = "af"
      <4>1. cpu' = Put(Put(cpu, "a", High(word)), "f", FlagsOf(Low(word)))
        BY <2>1, <3>3 DEF z80_set, WithPair, Put
      <4>2. Shaped(Put(cpu, "a", High(word))) /\ Put(cpu, "a", High(word)).pc = cpu.pc
            /\ Put(cpu, "a", High(word)).halted = cpu.halted
        BY <3>1, GetPut, InCore
      <4> QED BY <4>1, <4>2, GetPut, InCore
    <3>4. CASE which = "af_alt"
      <4>1. \E v : cpu' = Put(cpu, "af_alt", v)
        BY <2>1, <3>4 DEF z80_set, Put
      <4> QED BY <3>1, <4>1, GetPut, InCore
    <3>5. CASE which \notin {"ir", "af", "af_alt"}
      <4>1. cpu' = Put(cpu, which, word) /\ which \in CpuFields \ {"halted"}
        BY <2>1, <3>5, InCore DEF z80_set, Put, Named
      <4>2. /\ cpu'.halted = cpu.halted
            /\ which # "pc" => cpu'.pc = cpu.pc
        BY <3>1, <4>1, GetPut, InCore
      <4> QED BY <4>2
    <3> QED BY <3>2, <3>3, <3>4, <3>5
  <2>6. cpu'.halted => OnHalt(memory', cpu'.pc)
    <3> SUFFICES ASSUME cpu.halted PROVE OnHalt(memory', cpu'.pc)
      BY <2>5
    <3>1. OnHalt(memory, cpu.pc)
      BY <2>2 DEF Story, AwaitsFetch
    <3>2. cpu'.pc = cpu.pc
      BY <2>1, <2>5
    <3> QED BY <2>2, <3>1, <3>2
  <2>7. Fetching(cpu') /\ ~Accepted(cpu')
    BY <2>2, <2>4, NotNone DEF Fetching, Accepted
  <2> QED BY <1>1, <2>2, <2>4, <2>6, <2>7, NewStory
<1> QED BY <1>2, <1>3 DEF Hosts

(* Every step keeps the story. *)
LEMMA StoryStep == CoreInv /\ Story /\ [Next]_vars => Story'
<1> SUFFICES ASSUME CoreInv, Story, [Next]_vars PROVE Story'
  OBVIOUS
<1>1. CoreInv'
  BY StepInv
<1>2. CASE UNCHANGED vars
  BY <1>2 DEF Story, vars, history, Fetching
<1>3. CASE Rests /\ UNCHANGED history
  BY <1>3 DEF Story, Rests, history, Fetching
<1>4. CASE Cycles /\ Observes
  <2>1. CASE NextCycle
    BY <1>4, <2>1, FetchGoesOn, CycleGoesOn
  <2>2. CASE EndPrefix
    BY <1>4, <2>2, PrefixGoesOn
  <2>3. CASE EndPlain \/ AcceptNmi \/ AcceptInt
    BY <1>1, <1>4, <2>3, EndStory
  <2> QED BY <1>4, <2>1, <2>2, <2>3 DEF Cycles
<1>5. CASE Hosts /\ Forgets
  BY <1>1, <1>5, HostStory
<1> QED BY <1>2, <1>3, <1>4, <1>5 DEF Next

(* Every program begins with one. *)
LEMMA StoryInit == Init => CoreInv /\ Story
<1> SUFFICES ASSUME Init PROVE CoreInv /\ Story
  OBVIOUS
<1>1. CoreInv
  BY InitInv
<1>2. PICK world \in Worlds :
        cpu = AtFetch(world.registers) /\ memory = world.program /\ events = world.bounds
  BY DEF Init, Starts
<1>3. \A field \in {"prefix", "index", "instr", "halted"} : cpu[field] = NewRegisters[field]
  BY <1>2, WorldsAssumption
<1>4. cpu.prefix = 0 /\ cpu.index = 0 /\ cpu.instr = NoInstr /\ ~cpu.halted
  <2>1. /\ NewRegisters.prefix = 0 /\ NewRegisters.index = 0
        /\ NewRegisters.instr = NoInstr /\ ~NewRegisters.halted
    BY DEF NewRegisters
  <2>2. /\ cpu.prefix = NewRegisters.prefix /\ cpu.index = NewRegisters.index
        /\ cpu.instr = NewRegisters.instr
    BY <1>3
  <2>3. cpu.halted = NewRegisters.halted
    BY <1>3
  <2> QED BY <2>1, <2>2, <2>3
<1>5. start = [cpu |-> cpu, memory |-> memory]
  BY DEF Init
<1>6. Typed(cpu) /\ ByteMemory(memory) /\ Fetching(cpu)
  BY <1>1, <1>4 DEF CoreInv, Fetching
<1>7. AwaitsFetch(start, cpu, memory)
  BY <1>4, <1>5, <1>6, BeginsAtFetch
<1>8. Typed(start.cpu) /\ ByteMemory(start.memory)
  BY <1>5, <1>6
<1> QED BY <1>1, <1>6, <1>7, <1>8 DEF Story

(* Only the end of an instruction counts it. *)
LEMMA EndsCount ==
  ASSUME CoreInv, Next, Ends
  PROVE  EndPlain \/ AcceptNmi \/ AcceptInt
<1>1. events.left \in Nat
  BY DEF CoreInv, EventsOK
<1>2. ASSUME events' = events PROVE FALSE
  BY <1>1, <1>2 DEF Ends
<1>3. ~NextCycle /\ ~EndPrefix /\ ~Rests
  BY <1>2 DEF NextCycle, EndPrefix, Rests
<1>4. ~HostResets
  <2>1. HostResets => events'.left = events.left
    BY DEF HostResets, CoreInv, EventsOK
  <2> QED BY <1>1, <2>1 DEF Ends
<1>5. ~HostSets
  <2>1. HostSets => events'.left = events.left
    BY DEF HostSets, CoreInv, EventsOK
  <2> QED BY <1>1, <2>1 DEF Ends
<1> QED BY <1>3, <1>4, <1>5 DEF Next, Cycles, Hosts

(* A step that counts an instruction keeps the promise. *)
LEMMA PromiseKept ==
  ASSUME PromiseHolds(start, cpu', memory', Accepted(cpu'))
  PROVE  \E port \in PortBytes, vector \in Vectors :
               LET promised == Promised(port, vector, start.cpu.iff2 /\ ~Accepted(cpu'))
               IN Visible(cpu') = promised.regs /\ memory' = promised.mem
<1>1. Before = Seen(start.cpu)
  BY DEF Before, Seen
<1>2. PICK port \in PortBytes, vector \in Vectors :
        IF Accepted(start.cpu)
        THEN Gives(cpu', memory',
          Manual!Interrupt(Seen(start.cpu), start.memory, Handler(start.cpu, start.memory, vector)))
        ELSE \E ie : /\ ie = (start.cpu.iff2 /\ ~Accepted(cpu'))
                     /\ Gives(cpu', memory', Manual!Instruction(Seen(start.cpu), start.memory,
                          port, start.cpu.q, start.cpu.wz, ie))
  BY DEF PromiseHolds
<1>3. CASE Accepted(start.cpu)
  <2>1. HandlerOf(start.cpu.instr, vector) = Handler(start.cpu, start.memory, vector)
    BY <1>1 DEF HandlerOf, Handler
  <2>2. \A ie : Promised(port, vector, ie)
          = Manual!Interrupt(Seen(start.cpu), start.memory,
            Handler(start.cpu, start.memory, vector))
    BY <1>1, <1>3, <2>1 DEF Promised
  <2> QED BY <1>2, <1>3, <2>2 DEF Gives
<1>4. CASE ~Accepted(start.cpu)
  <2>1. PICK ie : /\ ie = (start.cpu.iff2 /\ ~Accepted(cpu'))
                  /\ Gives(cpu', memory', Manual!Instruction(Seen(start.cpu), start.memory, port,
                       start.cpu.q, start.cpu.wz, ie))
    BY <1>2, <1>4
  <2>2. Promised(port, vector, start.cpu.iff2 /\ ~Accepted(cpu'))
          = Manual!Instruction(Seen(start.cpu), start.memory, port, start.cpu.q, start.cpu.wz, ie)
    BY <1>1, <1>4, <2>1 DEF Promised
  <2> QED BY <2>1, <2>2 DEF Gives
<1> QED BY <1>3, <1>4

THEOREM InstructionsAsPromised == Spec => ImplementsManual
<1>1. CoreInv /\ Story /\ [Next]_vars => (CoreInv /\ Story)'
  BY StepInv, StoryStep
<1>2. CoreInv /\ Story /\ [Next]_vars =>
        [Ends => \E port \in PortBytes, vector \in Vectors :
               LET promised == Promised(port, vector, start.cpu.iff2 /\ ~Accepted(cpu'))
               IN Visible(cpu') = promised.regs /\ memory' = promised.mem]_vars
  <2> SUFFICES ASSUME CoreInv, Story, Next, Ends
               PROVE  \E port \in PortBytes, vector \in Vectors :
                        LET promised == Promised(port, vector, start.cpu.iff2 /\ ~Accepted(cpu'))
                        IN Visible(cpu') = promised.regs /\ memory' = promised.mem
    OBVIOUS
  <2>1. PromiseHolds(start, cpu', memory', Accepted(cpu'))
    BY EndsCount, EndKeeps
  <2> QED BY <2>1, PromiseKept
<1> QED BY <1>1, <1>2, StoryInit, PTL DEF Spec, ImplementsManual
=============================================================================
