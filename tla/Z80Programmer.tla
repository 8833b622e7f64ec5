---------------------------- MODULE Z80Programmer ----------------------------
(***************************************************************************)
(* What a programmer is promised of one Z80 instruction: from the          *)
(* registers and the memory before it, the registers and the memory after  *)
(* it, in one step.  There are no machine cycles here, no hooks, no        *)
(* scratch registers and no bus; an operand is a register or a place in    *)
(* memory, and (HL) becomes (IX+d) where the manual says so.               *)
(*                                                                         *)
(* The registers are a record s with the fields a, f, bc, de, hl, ix, iy,  *)
(* sp, pc, i, r, im and the alternates; m is the memory, port what an      *)
(* input reads, q the residue SCF and CCF see, wz the MEMPTR BIT b,(HL)    *)
(* shows, ie what LD A,I reports.                                          *)
(* The arithmetic of F is Z80Alu's.                                        *)
(***************************************************************************)
EXTENDS Integers, Sequences, FiniteSets, Z80Alu

CONSTANT Background(_)    \* the byte at an address nobody has written

Hi(word) == word \div 256
Lo(word) == word % 256
Add(word, n) == (word + n) % 65536
Displaced(word, byte) == Add(word, IF byte < 128 THEN byte ELSE byte - 256)
Peek(m, address) ==
  LET a == address % 65536 IN IF a \in DOMAIN m THEN m[a] ELSE Background(a)
PeekWord(m, address) == Peek(m, address) + 256 * Peek(m, address + 1)
Poke(m, address, byte) ==
  [a \in DOMAIN m \union {address} |-> IF a = address THEN byte ELSE m[a]]
PokeWord(m, address, word) == Poke(Poke(m, address, Lo(word)), Add(address, 1), Hi(word))

BitsOfF == [S |-> 128, Z |-> 64, Y |-> 32, H |-> 16, X |-> 8, PV |-> 4, N |-> 2, C |-> 1]
AfWord(s) == 256 * s.a + FromBits({BitsOfF[flag] : flag \in s.f})
WithAf(s, word) ==
  [s EXCEPT !.a = Hi(word), !.f = {flag \in Flags : Has(Lo(word), BitsOfF[flag])}]

(* The 8-bit register number r, with H and L in the pair xy. *)
Reg(s, r, xy) ==
  IF r = 7 THEN s.a
  ELSE LET pair == s[<<"bc", "de", xy>>[r \div 2 + 1]]
       IN IF r % 2 = 0 THEN Hi(pair) ELSE Lo(pair)

WithReg(s, r, xy, byte) ==
  IF r = 7 THEN [s EXCEPT !.a = byte]
  ELSE LET name == <<"bc", "de", xy>>[r \div 2 + 1]
       IN [s EXCEPT ![name] = IF r % 2 = 0 THEN 256 * byte + Lo(@) ELSE @ - Lo(@) + byte]

(* What an instruction leaves. *)
Both(s, m) == [regs |-> s, mem |-> m]
Flagged(s, flags) == [s EXCEPT !.f = flags]
Accumulates(s, out) == [s EXCEPT !.a = out.value, !.f = out.flags]

(* An operand: register r, or for r = 6 the byte of memory at place.        *)
Operand(s, m, r, xy, place) == IF r = 6 THEN Peek(m, place) ELSE Reg(s, r, xy)
Stores(s, m, r, xy, place, byte) ==
  IF r = 6 THEN Both(s, Poke(m, place, byte)) ELSE Both(WithReg(s, r, xy, byte), m)

Pushes(s, m, word) ==
  Both([s EXCEPT !.sp = Add(@, -2)],
       Poke(Poke(m, Add(s.sp, -1), Hi(word)), Add(s.sp, -2), Lo(word)))

Calls(s, m, target) ==
  LET pushed == Pushes(s, m, s.pc) IN [pushed EXCEPT !.regs.pc = target]

Returns(s, m) == Both([s EXCEPT !.pc = PeekWord(m, s.sp), !.sp = Add(@, 2)], m)

-----------------------------------------------------------------------------
(***************************************************************************)
(* The unprefixed table, and what DD and FD make of it.  s.pc is already   *)
(* past the whole instruction; at is where its operand bytes begin, after  *)
(* the displacement if it has one; xy names HL, IX or IY and place is the  *)
(* address (HL) or (IX+d).  Beside (IX+d), H and L are the plain ones.     *)
(***************************************************************************)
Quarter0(s, m, y, z, xy, place, at, q) ==
  LET rp == <<"bc", "de", xy, "sp">>[y \div 2 + 1]
      n  == Peek(m, at)
      nn == PeekWord(m, at)
      b  == (Hi(s.bc) - 1) % 256
  IN CASE z = 0 ->
           (CASE y = 0 -> Both(s, m)
              [] y = 1 -> Both([s EXCEPT !.a = s.af_alt.a, !.f = s.af_alt.f,
                                         !.af_alt = [a |-> s.a, f |-> s.f]], m)
              [] y = 2 -> Both([s EXCEPT !.bc = 256 * b + Lo(@),
                                         !.pc = IF b = 0 THEN @ ELSE Displaced(@, n)], m)
              [] y = 3 -> Both([s EXCEPT !.pc = Displaced(@, n)], m)
              [] y > 3 -> Both(IF condition_met(s.f, y - 4)
                               THEN [s EXCEPT !.pc = Displaced(@, n)] ELSE s, m))
       [] z = 1 /\ y % 2 = 0 -> Both([s EXCEPT ![rp] = nn], m)
       [] z = 1 /\ y % 2 = 1 -> LET out == alu_add16(s[xy], s.f, s[rp])
                                IN Both(Flagged([s EXCEPT ![xy] = out.value], out.flags), m)
       [] z = 2 ->
           (CASE y = 0 -> Both(s, Poke(m, s.bc, s.a))
              [] y = 1 -> Both([s EXCEPT !.a = Peek(m, s.bc)], m)
              [] y = 2 -> Both(s, Poke(m, s.de, s.a))
              [] y = 3 -> Both([s EXCEPT !.a = Peek(m, s.de)], m)
              [] y = 4 -> Both(s, PokeWord(m, nn, s[xy]))
              [] y = 5 -> Both([s EXCEPT ![xy] = PeekWord(m, nn)], m)
              [] y = 6 -> Both(s, Poke(m, nn, s.a))
              [] y = 7 -> Both([s EXCEPT !.a = Peek(m, nn)], m))
       [] z = 3 -> Both([s EXCEPT ![rp] = Add(@, IF y % 2 = 0 THEN 1 ELSE -1)], m)
       [] z \in {4, 5} ->
            LET byte == Operand(s, m, y, xy, place)
                out  == IF z = 4 THEN alu_inc(s.f, byte) ELSE alu_dec(s.f, byte)
            IN Stores(Flagged(s, out.flags), m, y, xy, place, out.value)
       [] z = 6 -> Stores(s, m, y, xy, place, n)
       [] z = 7 ->
            Both(CASE y < 4 -> Accumulates(s, alu_rotate_a(y, s.a, s.f))
                   [] y = 4 -> Accumulates(s, alu_daa(s.a, s.f))
                   [] y = 5 -> Accumulates(s, execute_cpl(s.a, s.f))
                   [] y = 6 -> Flagged(s, execute_scf(s.a, s.f, q))
                   [] y = 7 -> Flagged(s, execute_ccf(s.a, s.f, q)), m)

Exchanged(s) ==
  [s EXCEPT !.bc = s.bc_alt, !.de = s.de_alt, !.hl = s.hl_alt,
            !.bc_alt = s.bc, !.de_alt = s.de, !.hl_alt = s.hl]

PopsTo(s, m, y, xy) ==
  LET word == PeekWord(m, s.sp)
      up   == [s EXCEPT !.sp = Add(@, 2)]
  IN Both(IF y = 6 THEN WithAf(up, word)
          ELSE [up EXCEPT ![<<"bc", "de", xy>>[y \div 2 + 1]] = word], m)

Quarter3(s, m, y, z, xy, at, port) ==
  LET n  == Peek(m, at)
      nn == PeekWord(m, at)
      met == condition_met(s.f, y)
  IN CASE z = 0 -> IF met THEN Returns(s, m) ELSE Both(s, m)
       [] z = 1 ->
           (CASE y % 2 = 0 -> PopsTo(s, m, y, xy)
              [] y = 1 -> Returns(s, m)
              [] y = 3 -> Both(Exchanged(s), m)
              [] y = 5 -> Both([s EXCEPT !.pc = s[xy]], m)
              [] y = 7 -> Both([s EXCEPT !.sp = s[xy]], m))
       [] z = 2 -> Both(IF met THEN [s EXCEPT !.pc = nn] ELSE s, m)
       [] z = 3 ->
           (CASE y = 0 -> Both([s EXCEPT !.pc = nn], m)
              [] y = 3 -> Both([s EXCEPT !.a = port], m)                  \* IN A,(n)
              [] y = 4 -> Both([s EXCEPT ![xy] = PeekWord(m, s.sp)], PokeWord(m, s.sp, s[xy]))
              [] y = 5 -> Both([s EXCEPT !.de = s.hl, !.hl = s.de], m)     \* never IX or IY
              [] y = 2 \/ y > 5 -> Both(s, m))                             \* OUT, DI, EI
       [] z = 4 -> IF met THEN Calls(s, m, nn) ELSE Both(s, m)
       [] z = 5 -> IF y = 1 THEN Calls(s, m, nn)
                   ELSE Pushes(s, m, IF y = 6 THEN AfWord(s)
                                     ELSE s[<<"bc", "de", xy>>[y \div 2 + 1]])
       [] z = 6 -> Both(Accumulates(s, alu_operation(y, s.a, s.f, n)), m)
       [] z = 7 -> Calls(s, m, 8 * y)

Main(s, m, opcode, xy, place, at, port, q) ==
  LET y == (opcode \div 8) % 8
      z == opcode % 8
      h == IF y = 6 \/ z = 6 THEN "hl" ELSE xy
  IN CASE opcode \div 64 = 0 -> Quarter0(s, m, y, z, xy, place, at, q)
       [] opcode = 118       -> Both(s, m)
       [] opcode \div 64 = 1 /\ opcode # 118 ->
            Stores(s, m, y, h, place, Operand(s, m, z, h, place))
       [] opcode \div 64 = 2 ->
            Both(Accumulates(s, alu_operation(y, s.a, s.f, Operand(s, m, z, xy, place))), m)
       [] opcode \div 64 = 3 -> Quarter3(s, m, y, z, xy, at, port)

-----------------------------------------------------------------------------
(* The CB table.  Under DD or FD the operand is always (IX+d), and what is  *)
(* written there is copied to register z; BIT shows the high half of the   *)
(* address it looked at, which is MEMPTR for (HL).                         *)
Bits(s, m, opcode, place, indexed, wz) ==
  LET y    == (opcode \div 8) % 8
      z    == opcode % 8
      mem  == indexed \/ z = 6
      byte == IF mem THEN Peek(m, place) ELSE Reg(s, z, "hl")
      mask == BitMask(y)
      out  == CASE opcode \div 64 = 0 -> alu_shift(y, s.f, byte)
                [] opcode \div 64 = 1 ->
                     alu_bit(mask, s.f, byte,
                             IF indexed THEN Hi(place) ELSE IF mem THEN Hi(wz) ELSE byte)
                [] opcode \div 64 = 2 -> Out(byte - (IF Has(byte, mask) THEN mask ELSE 0), s.f)
                [] opcode \div 64 = 3 -> Out(byte + (IF Has(byte, mask) THEN 0 ELSE mask), s.f)
      set  == Flagged(s, out.flags)
  IN IF opcode \div 64 = 1 THEN Both(set, m)
     ELSE Both(IF z = 6 THEN set ELSE WithReg(set, z, "hl", out.value),
               IF mem THEN Poke(m, place, out.value) ELSE m)

(* ADC and SBC HL,rp, and LD between rp and the word in memory its operand  *)
(* bytes name.                                                             *)
ExtendedPair(y) == <<"bc", "de", "hl", "sp">>[y \div 2 + 1]
WithCarry(s, m, y, rp) ==
  LET wide == IF y % 2 = 1 THEN alu_adc16(s.hl, s.f, s[rp]) ELSE alu_sbc16(s.hl, s.f, s[rp])
  IN Both([s EXCEPT !.hl = wide.value, !.f = wide.flags], m)
MovesPair(s, m, y, rp, nn) ==
  IF y % 2 = 1 THEN Both([s EXCEPT ![rp] = PeekWord(m, nn)], m)
  ELSE Both(s, PokeWord(m, nn, s[rp]))

(* LD A,I and LD A,R read the enable flip-flop as ie. *)
LoadsA(s, m, value, ie) ==
  Both([s EXCEPT !.a = value, !.f = load_a_flags(s.f, value, ie)], m)

(* RRD and RLD turn the digits of A and of the byte at HL. *)
TurnsDigits(s, m, right, byte) ==
  LET a == DigitRotated(right, s.a, byte)
  IN Both([s EXCEPT !.a = a, !.f = digit_rotate_flags(s.f, a)],
          Poke(m, s.hl, DigitStored(right, s.a, byte)))

(* The ED table, the block instructions apart. *)
Extended(s, m, opcode, at, port, ie) ==
  LET y == (opcode \div 8) % 8
      z == opcode % 8
  IN CASE z = 0 ->
            LET flagged == Flagged(s, digit_rotate_flags(s.f, port))
            IN Both(IF y = 6 THEN flagged ELSE WithReg(flagged, y, "hl", port), m)
       [] z \in {1, 6} ->
            Both(IF z = 6 THEN [s EXCEPT !.im = <<0, 0, 1, 2>>[(y % 4) + 1]] ELSE s, m)
       [] z = 2 -> WithCarry(s, m, y, ExtendedPair(y))
       [] z = 3 -> MovesPair(s, m, y, ExtendedPair(y), PeekWord(m, at))
       [] z = 4 -> Both(Accumulates(s, sub_flags(0, s.a, 0)), m)
       [] z = 5 -> Returns(s, m)
       [] z = 7 ->
           (CASE y = 0 -> Both([s EXCEPT !.i = s.a], m)
              [] y = 1 -> Both([s EXCEPT !.r = s.a], m)
              [] y = 2 -> LoadsA(s, m, s.i, ie)
              [] y = 3 -> LoadsA(s, m, s.r, ie)
              [] y \in {4, 5} -> TurnsDigits(s, m, y = 4, Peek(m, s.hl))
              [] y > 5 -> Both(s, m))

(* One pass of a block instruction: LDI, CPI, INI and OUTI, and with bit 3  *)
(* of the opcode downwards.  One that repeats and has more to do is        *)
(* executed again, from its own address.                                   *)
Again(s, more, again) ==
  IF more THEN [s EXCEPT !.pc = again, !.f = block_repeat_undocumented(@, Hi(again))] ELSE s

Pass(s, m, opcode, port, again) ==
  LET up      == IF (opcode \div 8) % 2 = 1 THEN -1 ELSE 1
      z       == opcode % 4
      repeats == opcode >= 176
      byte    == Peek(m, s.hl)
      hl      == Add(s.hl, up)
      count   == Add(s.bc, -1)                        \* LDI and CPI count BC,
      b       == (Hi(s.bc) - 1) % 256                 \* INI and OUTI B
      fewer   == [s EXCEPT !.hl = hl, !.bc = count]
      fewerB  == [s EXCEPT !.hl = hl, !.bc = 256 * b + Lo(@)]
  IN CASE z = 0 ->
            LET flags == block_transfer_flags(s.a, s.f, byte, count # 0)
            IN Both(Again([Flagged(fewer, flags) EXCEPT !.de = Add(@, up)],
                          repeats /\ count # 0, again), Poke(m, s.de, byte))
       [] z = 1 ->
            LET flags == block_compare_flags(s.a, s.f, byte, count # 0)
            IN Both(Again(Flagged(fewer, flags),
                          repeats /\ count # 0 /\ "Z" \notin flags, again), m)
       [] z = 2 ->
            LET flags == block_io_flags(b, port, (Lo(s.bc) + up) % 256)
            IN Both(Again(Flagged(fewerB, flags), repeats /\ b # 0, again),
                    Poke(m, s.hl, port))
       [] z = 3 ->
            LET flags == block_io_flags(b, byte, Lo(hl))
            IN Both(Again(Flagged(fewerB, flags), repeats /\ b # 0, again), m)

-----------------------------------------------------------------------------
(***************************************************************************)
(* A whole instruction, prefixes and all.                                  *)
(***************************************************************************)
NamesMemory(opcode) ==
  LET x == opcode \div 64
      y == (opcode \div 8) % 8
      z == opcode % 8
  IN \/ x = 0 /\ y = 6 /\ z \in {4, 5, 6}
     \/ x = 1 /\ opcode # 118 /\ (y = 6 \/ z = 6)
     \/ x = 2 /\ z = 6

(* How many operand bytes follow an unprefixed opcode: JR and JR cc, then   *)
(* the sixteen-bit operands, the eight-bit ones.                           *)
OperandBytes(opcode) ==
  LET x == opcode \div 64
      y == (opcode \div 8) % 8
      z == opcode % 8
  IN CASE \/ x = 0 /\ z = 1 /\ y % 2 = 0
          \/ x = 0 /\ z = 2 /\ y > 3
          \/ x = 3 /\ z \in {2, 4}
          \/ opcode \in {195, 205}                 -> 2
       [] \/ x = 0 /\ z = 0 /\ y > 1
          \/ x \in {0, 3} /\ z = 6
          \/ opcode \in {211, 219}                 -> 1
       [] OTHER                                    -> 0

(* The registers when the instruction of length bytes has been read, with   *)
(* fetches of them by M1 cycles, each of which counts R's low seven bits.   *)
Read(s, length, fetches) ==
  [s EXCEPT !.pc = Add(@, length), !.r = 128 * (@ \div 128) + ((@ + fetches) % 128)]

(* The index prefixes at pc: only the last of them counts.  There are at    *)
(* most as many as memory has bytes.                                       *)
MostPrefixes == 65535
Prefixes(s, m) ==
  CHOOSE n \in 0 .. MostPrefixes :
    /\ \A k \in 0 .. n - 1 : Peek(m, s.pc + k) \in {221, 253}
    /\ Peek(m, s.pc + n) \notin {221, 253}

Instruction(s, m, port, q, wz, ie) ==
  LET k      == Prefixes(s, m)
      xy     == IF k = 0 THEN "hl" ELSE IF Peek(m, s.pc + k - 1) = 221 THEN "ix" ELSE "iy"
      opcode == Peek(m, s.pc + k)
      next   == Peek(m, s.pc + k + 1)
      d      == IF xy # "hl" /\ NamesMemory(opcode) THEN 1 ELSE 0
      place  == IF xy = "hl" THEN s.hl ELSE Displaced(s[xy], next)
      long   == next % 8 = 3 /\ next \div 64 = 1
  IN CASE opcode = 203 /\ xy = "hl" -> Bits(Read(s, 2, 2), m, next, s.hl, FALSE, wz)
       [] opcode = 203 /\ xy # "hl" ->
            Bits(Read(s, k + 3, k + 1), m, Peek(m, s.pc + k + 2), place, TRUE, wz)
       [] opcode = 237 /\ next >= 160 /\ next < 192 /\ next % 8 < 4 ->
            Pass(Read(s, k + 2, k + 2), m, next, port, Add(s.pc, k))
       [] opcode = 237 /\ next \div 64 = 1 ->
            Extended(Read(s, k + (IF long THEN 4 ELSE 2), k + 2), m, next,
                     s.pc + k + 2, port, ie)
       [] opcode = 237 /\ next \div 64 # 1 /\ ~(next >= 160 /\ next < 192 /\ next % 8 < 4) ->
            Both(Read(s, k + 2, k + 2), m)
       [] opcode \notin {203, 237} ->
            Main(Read(s, k + 1 + d + OperandBytes(opcode), k + 1), m, opcode, xy, place,
                 s.pc + k + 1 + d, port, q)

(* An interrupt is a call that no instruction asked for; its acknowledge is *)
(* an M1 cycle and counts R.                                               *)
Interrupt(s, m, target) == Calls(Read(s, 0, 1), m, target)
=============================================================================
